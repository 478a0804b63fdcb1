---------------------------- MODULE VscCalls_proofs ----------------------------
(***************************************************************************)
(* The smaller calls: each group is delivered once, nothing is left        *)
(* behind, the path is searched in order, what is split is joined again,   *)
(* UUIDs and numbers read as they were written, a checksum is a remainder, *)
(* a hash reads its input and is the same in every build, for every        *)
(* database, interference, path, table of descriptors, text, number,       *)
(* message and input.                                                      *)
(***************************************************************************)
EXTENDS VscCalls, SequenceTheorems, FiniteSetTheorems, TLAPS

(* The inductive invariant: what a loop in progress has done, what the      *)
(* variables are while no loop runs, and what a call has answered.          *)

InGroups ==
    pc = "groups" =>
        /\ \A j \in 1..Len(called) : UsersGroup(db[called[j]])
        /\ ~disturbed => /\ InOrder /\ CalledUpTo(cursor)
                         /\ \A j \in 1..Len(called) : called[j] <= cursor

GroupsRest ==
    /\ pc # "groups" => buf = 0 /\ ~open
    /\ pc = "idle" => called = <<>> /\ ~disturbed

GroupsInv == GroupsType /\ InGroups /\ GroupsRest /\ EachGroupOnce

InPath ==
    pc = "path" =>
        /\ o < pend(path) => o \in Starts(path)
        /\ Len(pathbuf) = MaxDist(path) + flen + 1

PathRest == pc = "idle" => pathbuf = <<>> /\ o = 1 /\ seen = <<>>

PathLeft ==
    Is("path") => IF out.res = "ok" THEN Len(pathbuf) > 0 ELSE pathbuf = <<>>

PathInv == PathType /\ InPath /\ PathRest /\ PathLeft

\* LoopPieces of a text: what its loop adds at a start, given what it adds later on; the
\* loop itself; and the pieces from a start on.
PiecesAt(t, d, g, start) ==
    IF start > Len(t) THEN <<>>
    ELSE LET next == FirstDelim(t, d, start)
             piece == <<SubSeq(t, start, next - 1)>>
         IN  IF next > Len(t) THEN piece ELSE piece \o g[next + 1]

PiecesFrom(t, d) == CHOOSE f : f = [start \in 1..(Len(t) + 1) |-> PiecesAt(t, d, f, start)]

Rest(t, d, start) == IF start > Len(t) THEN <<>> ELSE PiecesFrom(t, d)[start]

\* The directories looked in are the first ones of the path, and only the last one, if
\* any, had the file.
SeenFirst(n) ==
    \A k \in 1..n : seen[k].name = NameIn(LoopPieces(path, Colon)[k]) /\ ~statfile(seen[k].file)

InSearch ==
    pc = "path" =>
        LET dirs == LoopPieces(path, Colon)
            rest == Rest(path, Colon, o)
        IN  /\ Len(dirs) = Len(seen) + Len(rest)
            /\ SeenFirst(Len(seen))
            /\ \A k \in 1..Len(rest) : dirs[Len(seen) + k] = rest[k]

Letters == Characters \cup {Slash, NUL}
Looks == [name : Seq(Letters), file : Files]
SearchInv == seen \in Seq(Looks) /\ InSearch /\ FirstExecutable /\ NameIsWhole

PrintfLeft == Is("printf") /\ out.text # Null => out.room = Len(out.text) + 1

FnullifyLeft ==
    Is("fnullify") =>
        LET changed == {d \in Descriptors : out.table[d] # call.table[d]}
        IN  IF out.ret < 0 THEN changed = {}
            ELSE /\ out.ret = call.fd /\ out.table[call.fd] = "null"
                 /\ Cardinality(changed \ {call.fd}) <= 1
                 /\ \A d \in changed : out.table[d] = "null"

ParseType == Is("parse") => out.uuid \in [1..SIZE -> Byte]
PixelType == Is("pixel") => \A f \in DOMAIN out : out[f] \in [{"r", "g", "b", "a"} -> Byte]

ResultInv == PrintfLeft /\ FnullifyLeft /\ ParseType /\ PixelType

CallsInv ==
    /\ pc \in {"idle", "groups", "path", "done"}
    /\ GroupsInv /\ PathInv /\ SearchInv /\ ResultInv
-----------------------------------------------------------------------------
(* Induction and recursion over a set whose members have a rank            *)

\* A set of natural numbers that is not empty has a least one.
LEMMA LeastNat ==
    ASSUME NEW S \in SUBSET Nat, S # {}
    PROVE  \E x \in S : \A y \in S : x <= y
<1> DEFINE R == OpToRel(<, Nat)
<1>1. IsWellFoundedOn(R, Nat)
  BY NatLessThanWellFounded
<1> HIDE DEF R
<1>2. PICK x \in S : \A y \in S : <<y, x>> \notin R
  BY <1>1, WFMin
<1>3. \A y \in S : ~(y < x)
  BY <1>2 DEF R, OpToRel
<1> QED
  BY <1>2, <1>3

\* A set that has each member all of whose inferiors it has, has all of them.
LEMMA RankInduction ==
    ASSUME NEW D, NEW rank \in [D -> Nat], NEW T,
           \A k \in D : (\A i \in D : rank[i] < rank[k] => i \in T) => k \in T
    PROVE  D \subseteq T
<1> DEFINE Ranks == {rank[k] : k \in D \ T}
<1> SUFFICES ASSUME D \ T # {} PROVE FALSE
  OBVIOUS
<1>1. Ranks \in SUBSET Nat /\ Ranks # {}
  OBVIOUS
<1>2. PICK least \in Ranks : \A m \in Ranks : least <= m
  BY <1>1, LeastNat
<1>3. PICK k \in D \ T : least = rank[k]
  BY <1>2
<1>4. ASSUME NEW i \in D, rank[i] < rank[k], i \notin T PROVE FALSE
  <2>1. rank[i] \in Ranks
    BY <1>4
  <2>2. rank[k] <= rank[i] /\ rank[i] \in Nat /\ rank[k] \in Nat
    BY <2>1, <1>2, <1>3
  <2> QED
    BY <2>2, <1>4
<1> QED
  BY <1>3, <1>4

\* F[k][g] is what a recursive function g is at k: it depends on the inferiors of k.
Recursive(D, rank, S, F) ==
    \A k \in D : \A g \in [D -> S] :
        /\ F[k][g] \in S
        /\ \A h \in [D -> S] :
               (\A i \in D : rank[i] < rank[k] => g[i] = h[i]) => F[k][g] = F[k][h]

SolvesBelow(f, D, rank, F, m) == \A k \in D : rank[k] < m => f[k] = F[k][f]

LEMMA OneRankMore ==
    ASSUME NEW D, NEW S, NEW F, NEW rank \in [D -> Nat], Recursive(D, rank, S, F),
           NEW m \in Nat, NEW f \in [D -> S], SolvesBelow(f, D, rank, F, m)
    PROVE  \E g \in [D -> S] : SolvesBelow(g, D, rank, F, m + 1)
<1> DEFINE g == [k \in D |-> IF rank[k] < m THEN f[k] ELSE F[k][f]]
<1>1. g \in [D -> S]
  BY DEF Recursive
<1>2. \A k \in D : g[k] = IF rank[k] < m THEN f[k] ELSE F[k][f]
  OBVIOUS
<1> HIDE DEF g
<1>3. ASSUME NEW k \in D, rank[k] < m + 1 PROVE g[k] = F[k][g]
  <2>1. rank[k] \in Nat /\ \A i \in D : rank[i] \in Nat
    OBVIOUS
  <2>2. \A i \in D : rank[i] < rank[k] => f[i] = g[i]
    BY <1>2, <1>3, <2>1
  <2>3. F[k][f] = F[k][g]
    BY <1>1, <2>2 DEF Recursive
  <2> QED
    BY <1>2, <2>3 DEF SolvesBelow
<1> QED
  BY <1>1, <1>3 DEF SolvesBelow

\* There is such a function if the ranks have a bound.
LEMMA RankRecursion ==
    ASSUME NEW D, NEW S, S # {}, NEW F, NEW n \in Nat, NEW rank \in [D -> 0..n],
           Recursive(D, rank, S, F)
    PROVE  \E f \in [D -> S] : f = [k \in D |-> F[k][f]]
<1> DEFINE Good(m) == \E f \in [D -> S] : SolvesBelow(f, D, rank, F, m)
           T == {m \in Nat : Good(m)}
           id == [m \in Nat |-> m]
<1>1. \A k \in D : rank[k] \in Nat /\ rank[k] < n + 1
  OBVIOUS
<1>2. rank \in [D -> Nat]
  BY <1>1
<1>3. ASSUME NEW m \in Nat, \A i \in Nat : id[i] < id[m] => i \in T PROVE m \in T
  <2>1. CASE m = 0
    <3>1. PICK s \in S : TRUE
      OBVIOUS
    <3>2. [k \in D |-> s] \in [D -> S]
      OBVIOUS
    <3>3. SolvesBelow([k \in D |-> s], D, rank, F, 0)
      BY <1>1 DEF SolvesBelow
    <3> QED
      BY <2>1, <3>2, <3>3
  <2>2. CASE m # 0
    <3>1. m - 1 \in Nat /\ m = (m - 1) + 1 /\ id[m - 1] < id[m]
      BY <2>2
    <3>2. PICK f \in [D -> S] : SolvesBelow(f, D, rank, F, m - 1)
      BY <1>3, <3>1
    <3> QED
      BY <1>2, <3>1, <3>2, OneRankMore
  <2> QED
    BY <2>1, <2>2
<1> HIDE DEF T
<1>4. id \in [Nat -> Nat] /\ \A m \in Nat : (\A i \in Nat : id[i] < id[m] => i \in T) => m \in T
  BY <1>3
<1> HIDE DEF id
<1>5. n + 1 \in T
  BY <1>4, RankInduction
<1>6. PICK f \in [D -> S] : SolvesBelow(f, D, rank, F, n + 1)
  BY <1>5 DEF T
<1>7. f = [k \in D |-> F[k][f]]
  BY <1>1, <1>6 DEF SolvesBelow
<1> QED
  BY <1>7
-----------------------------------------------------------------------------
(* The pieces between delimiters                                           *)

\* A piece ends at a delimiter or with the text, and no delimiter is in it.
LEMMA FirstDelimFacts ==
    ASSUME NEW t, Len(t) \in Nat, NEW d, NEW a \in 1..(Len(t) + 1)
    PROVE  /\ FirstDelim(t, d, a) \in a..(Len(t) + 1)
           /\ FirstDelim(t, d, a) = Len(t) + 1 \/ t[FirstDelim(t, d, a)] = d
           /\ \A b \in a..(FirstDelim(t, d, a) - 1) : t[b] # d
<1> DEFINE end == Len(t) + 1
           Ends(c) == c = end \/ t[c] = d
           First(c) == Ends(c) /\ \A b \in a..(c - 1) : t[b] # d
           T == {c \in a..end : Ends(c)}
<1>1. T \in SUBSET Nat /\ end \in T
  OBVIOUS
<1>2. PICK c \in T : \A e \in T : c <= e
  BY <1>1, LeastNat
<1>3. First(c)
  <2> SUFFICES ASSUME NEW b \in a..(c - 1) PROVE t[b] # d
    BY <1>2
  <2>1. b \in a..end /\ ~(c <= b)
    BY <1>2
  <2> QED
    BY <2>1, <1>2
<1>4. FirstDelim(t, d, a) = CHOOSE e \in a..end : First(e)
  BY DEF FirstDelim
<1> HIDE DEF First
<1>5. FirstDelim(t, d, a) \in a..end /\ First(FirstDelim(t, d, a))
  BY <1>2, <1>3, <1>4
<1> QED
  BY <1>5 DEF First

LEMMA LoopPiecesIsPiecesFrom == ASSUME NEW t, NEW d PROVE LoopPieces(t, d) = PiecesFrom(t, d)[1]
BY DEF LoopPieces, PiecesFrom, PiecesAt

LEMMA PieceType ==
    ASSUME NEW C, NEW t \in Seq(C), NEW d, NEW start \in 1..Len(t)
    PROVE  /\ SubSeq(t, start, FirstDelim(t, d, start) - 1) \in Seq(C)
           /\ Len(SubSeq(t, start, FirstDelim(t, d, start) - 1)) = FirstDelim(t, d, start) - start
           /\ \A k \in 1..(FirstDelim(t, d, start) - start) :
                 SubSeq(t, start, FirstDelim(t, d, start) - 1)[k] = t[start + k - 1]
<1> DEFINE c == FirstDelim(t, d, start)
<1>1. c \in start..(Len(t) + 1) /\ Len(t) \in Nat
  BY FirstDelimFacts
<1> HIDE DEF c
<1>2. start \in Int /\ c - 1 \in Int /\ \A i \in start..(c - 1) : t[i] \in C
  <2>1. \A i \in start..(c - 1) : i \in 1..Len(t)
    BY <1>1
  <2> QED
    BY <1>1, <2>1, ElementOfSeq
<1>3. /\ SubSeq(t, start, c - 1) \in Seq(C)
      /\ Len(SubSeq(t, start, c - 1)) = IF start <= c - 1 THEN c - 1 - start + 1 ELSE 0
      /\ \A i \in 1..(c - 1 - start + 1) : SubSeq(t, start, c - 1)[i] = t[start + i - 1]
  BY <1>2, SubSeqProperties
<1>4. c - 1 - start + 1 = c - start /\ (~(start <= c - 1) => c - start = 0)
  BY <1>1
<1> QED
  BY <1>1, <1>3, <1>4 DEF c

LEMMA PiecesAtType ==
    ASSUME NEW C, NEW t \in Seq(C), NEW d, NEW g, NEW start \in 1..(Len(t) + 1),
           \A j \in (start + 1)..(Len(t) + 1) : g[j] \in Seq(Seq(C))
    PROVE  PiecesAt(t, d, g, start) \in Seq(Seq(C))
<1> DEFINE c == FirstDelim(t, d, start)
           piece == SubSeq(t, start, c - 1)
<1>1. Len(t) \in Nat /\ c \in start..(Len(t) + 1)
  BY FirstDelimFacts
<1>2. CASE start > Len(t)
  BY <1>2 DEF PiecesAt
<1>3. CASE start <= Len(t)
  <2>1. piece \in Seq(C)
    BY <1>3, PieceType
  <2>2. <<piece>> \in Seq(Seq(C))
    BY <2>1
  <2>3. PiecesAt(t, d, g, start) = IF c > Len(t) THEN <<piece>> ELSE <<piece>> \o g[c + 1]
    BY <1>1, <1>3 DEF PiecesAt
  <2> HIDE DEF piece, c
  <2>4. CASE c > Len(t)
    BY <2>2, <2>3, <2>4
  <2>5. CASE ~(c > Len(t))
    <3>1. g[c + 1] \in Seq(Seq(C))
      BY <1>1, <2>5
    <3> QED
      BY <2>2, <2>3, <2>5, <3>1
  <2> QED
    BY <2>4, <2>5
<1> QED
  BY <1>1, <1>2, <1>3

LEMMA PiecesFromSolves ==
    ASSUME NEW C, NEW t \in Seq(C), NEW d
    PROVE  PiecesFrom(t, d) = [start \in 1..(Len(t) + 1) |-> PiecesAt(t, d, PiecesFrom(t, d), start)]
<1> DEFINE D == 1..(Len(t) + 1)
           S == Seq(Seq(C))
           rank == [i \in D |-> Len(t) + 1 - i]
           F == [i \in D |-> [g \in [D -> S] |-> PiecesAt(t, d, g, i)]]
<1>1. rank \in [D -> 0..Len(t)] /\ Len(t) \in Nat
  OBVIOUS
<1>2. Recursive(D, rank, S, F)
  <2> SUFFICES ASSUME NEW i \in D, NEW g \in [D -> S]
               PROVE  /\ PiecesAt(t, d, g, i) \in S
                      /\ \A h \in [D -> S] :
                             (\A j \in D : Len(t) + 1 - j < Len(t) + 1 - i => g[j] = h[j])
                             => PiecesAt(t, d, g, i) = PiecesAt(t, d, h, i)
    BY DEF Recursive
  <2>1. PiecesAt(t, d, g, i) \in S
    BY PiecesAtType
  <2>2. ASSUME NEW h \in [D -> S],
               \A j \in D : Len(t) + 1 - j < Len(t) + 1 - i => g[j] = h[j]
        PROVE  PiecesAt(t, d, g, i) = PiecesAt(t, d, h, i)
    <3> DEFINE c == FirstDelim(t, d, i)
    <3>1. c \in i..(Len(t) + 1)
      BY <1>1, FirstDelimFacts
    <3>2. ~(c > Len(t)) => g[c + 1] = h[c + 1]
      BY <1>1, <2>2, <3>1
    <3> QED
      BY <3>2 DEF PiecesAt
  <2> QED
    BY <2>1, <2>2
<1>3. S # {}
  <2>1. <<>> \in S
    OBVIOUS
  <2> QED
    BY <2>1
<1>4. \E f \in [D -> S] : f = [i \in D |-> F[i][f]]
  <2> HIDE DEF D, rank, F, S
  <2> QED
    BY <1>1, <1>2, <1>3, RankRecursion
<1>5. PICK f \in [D -> S] : f = [i \in D |-> F[i][f]]
  BY <1>4
<1>6. f = [i \in D |-> PiecesAt(t, d, f, i)]
  BY <1>5
<1> QED
  BY <1>6 DEF PiecesFrom

LEMMA PiecesFromType ==
    ASSUME NEW C, NEW t \in Seq(C), NEW d, NEW start \in 1..(Len(t) + 1)
    PROVE  PiecesFrom(t, d)[start] \in Seq(Seq(C))
<1> DEFINE D == 1..(Len(t) + 1)
           rank == [i \in D |-> Len(t) + 1 - i]
           T == {i \in D : PiecesFrom(t, d)[i] \in Seq(Seq(C))}
<1>1. rank \in [D -> Nat]
  OBVIOUS
<1>2. ASSUME NEW i \in D, \A j \in D : rank[j] < rank[i] => j \in T PROVE i \in T
  <2>1. \A j \in (i + 1)..(Len(t) + 1) : PiecesFrom(t, d)[j] \in Seq(Seq(C))
    BY <1>2
  <2>2. PiecesFrom(t, d)[i] = PiecesAt(t, d, PiecesFrom(t, d), i)
    BY PiecesFromSolves
  <2> QED
    BY <2>1, <2>2, PiecesAtType
<1>3. D \subseteq T
  <2>1. \A i \in D : (\A j \in D : rank[j] < rank[i] => j \in T) => i \in T
    BY <1>2
  <2> HIDE DEF T, rank, D
  <2> QED
    BY <1>1, <2>1, RankInduction
<1> QED
  BY <1>3

\* The pieces from a start on: the first one, and those after the delimiter.
LEMMA RestFacts ==
    ASSUME NEW C, NEW t \in Seq(C), NEW d, NEW start \in 1..Len(t)
    PROVE  /\ Rest(t, d, start) \in Seq(Seq(C))
           /\ Rest(t, d, FirstDelim(t, d, start) + 1) \in Seq(Seq(C))
           /\ Rest(t, d, start) = <<SubSeq(t, start, FirstDelim(t, d, start) - 1)>>
                                  \o Rest(t, d, FirstDelim(t, d, start) + 1)
<1> DEFINE c == FirstDelim(t, d, start)
           piece == SubSeq(t, start, c - 1)
<1>1. Len(t) \in Nat /\ c \in start..(Len(t) + 1)
  BY FirstDelimFacts
<1>2. piece \in Seq(C)
  BY PieceType
<1>3. Rest(t, d, start) = IF c > Len(t) THEN <<piece>> ELSE <<piece>> \o PiecesFrom(t, d)[c + 1]
  <2>1. start \in 1..(Len(t) + 1) /\ ~(start > Len(t))
    BY <1>1
  <2>2. PiecesFrom(t, d)[start] = PiecesAt(t, d, PiecesFrom(t, d), start)
    BY <2>1, PiecesFromSolves
  <2> QED
    BY <2>1, <2>2 DEF Rest, PiecesAt
<1>4. Rest(t, d, start) \in Seq(Seq(C))
  BY <1>1, PiecesFromType DEF Rest
<1>5. Rest(t, d, c + 1) \in Seq(Seq(C))
  <2>1. CASE c + 1 > Len(t)
    BY <2>1 DEF Rest
  <2>2. CASE c + 1 <= Len(t)
    BY <1>1, <2>2, PiecesFromType DEF Rest
  <2> QED
    BY <1>1, <2>1, <2>2
<1>6. <<piece>> \in Seq(Seq(C))
  BY <1>2
<1> HIDE DEF piece, c
<1>7. Rest(t, d, start) = <<piece>> \o Rest(t, d, c + 1)
  <2>1. CASE c > Len(t)
    <3>1. c + 1 > Len(t) /\ Rest(t, d, start) = <<piece>>
      BY <1>1, <1>3, <2>1
    <3>2. Rest(t, d, c + 1) = <<>>
      BY <3>1 DEF Rest
    <3>3. <<piece>> \o <<>> = <<piece>>
      BY <1>6
    <3> QED
      BY <3>1, <3>2, <3>3
  <2>2. CASE c = Len(t)
    <3>1. PiecesFrom(t, d)[c + 1] = <<>>
      <4>1. c + 1 \in 1..(Len(t) + 1) /\ c + 1 > Len(t)
        BY <1>1, <2>2
      <4>2. PiecesFrom(t, d)[c + 1] = PiecesAt(t, d, PiecesFrom(t, d), c + 1)
        BY <4>1, PiecesFromSolves
      <4> QED
        BY <4>1, <4>2 DEF PiecesAt
    <3> QED
      BY <1>1, <1>3, <2>2, <3>1 DEF Rest
  <2>3. CASE c < Len(t)
    <3>1. ~(c + 1 > Len(t)) /\ ~(c > Len(t))
      BY <1>1, <2>3
    <3>2. Rest(t, d, c + 1) = PiecesFrom(t, d)[c + 1]
      BY <3>1, Zenon DEF Rest
    <3> QED
      BY <1>3, <3>1, <3>2
  <2> QED
    BY <1>1, <2>1, <2>2, <2>3
<1> QED
  BY <1>4, <1>5, <1>7 DEF c, piece

LEMMA LoopPiecesIsRest ==
    ASSUME NEW C, NEW t \in Seq(C), NEW d
    PROVE  LoopPieces(t, d) = Rest(t, d, 1) /\ LoopPieces(t, d) \in Seq(Seq(C))
<1>1. 1 \in 1..(Len(t) + 1) /\ Len(t) \in Nat
  OBVIOUS
<1>2. PiecesFrom(t, d)[1] = PiecesAt(t, d, PiecesFrom(t, d), 1)
  BY <1>1, PiecesFromSolves
<1> QED
  BY <1>1, <1>2, LoopPiecesIsPiecesFrom, PiecesFromType DEF Rest, PiecesAt
-----------------------------------------------------------------------------
(* Enumerating groups                                                      *)

LEMMA GroupsConstants == BUFLEN \in Nat \ {0} /\ MaxOthers \in Nat
BY GroupsAssumption

\* The initial variables, and the reset ones, are as they are between calls.
LEMMA GroupsInitially == ASSUME GroupsInit, pc = "idle" PROVE GroupsInv
<1>1. GroupsType
  <2>1. called \in Seq(1..Len(db)) /\ cursor \in 0..Len(db)
    BY DEF GroupsInit
  <2>2. others \in 0..MaxOthers /\ buflen \in Nat \ {0} /\ buf \in 0..buflen
    BY GroupsConstants DEF GroupsInit
  <2>3. open \in BOOLEAN /\ disturbed \in BOOLEAN /\ rc \in {"0", "ERANGE"}
    BY Zenon DEF GroupsInit
  <2> QED
    BY <2>1, <2>2, <2>3, Zenon DEF GroupsType
<1> QED
  BY <1>1 DEF GroupsInit, GroupsInv, InGroups, GroupsRest, EachGroupOnce, Is

LEMMA GroupsAfterReset == ASSUME GroupsReset, pc' = "idle" PROVE GroupsInv'
<1>1. GroupsType'
  <2>1. called' \in Seq(1..Len(db')) /\ cursor' \in 0..Len(db')
    BY DEF GroupsReset
  <2>2. others' \in 0..MaxOthers /\ buflen' \in Nat \ {0} /\ buf' \in 0..buflen'
    BY GroupsConstants DEF GroupsReset
  <2>3. open' \in BOOLEAN /\ disturbed' \in BOOLEAN /\ rc' \in {"0", "ERANGE"}
    BY Zenon DEF GroupsReset
  <2> QED
    BY <2>1, <2>2, <2>3, Zenon DEF GroupsType
<1> QED
  BY <1>1 DEF GroupsReset, GroupsInv, InGroups, GroupsRest, EachGroupOnce, Is

\* A step of something else leaves them so.
LEMMA GroupsKept ==
    ASSUME GroupsInv, UNCHANGED groupVars, pc # "groups", pc' # "groups",
           pc' = "idle" => pc = "idle", pc' = "done" => call'.name # "groups"
    PROVE  GroupsInv'
<1>1. GroupsType'
  BY DEF GroupsInv, GroupsType, groupVars
<1> QED
  BY <1>1 DEF GroupsInv, InGroups, GroupsRest, EachGroupOnce, Is, groupVars

\* The groups proc is called with for an entry: none, or the entry.
LEMMA CallsOfEntry ==
    ASSUME NEW g
    PROVE  Calls(g) = IF UsersGroup(g) THEN <<cursor + 1>> ELSE <<>>
BY DEF Calls, UsersGroup

\* With an entry behind those delivered before, they are the user's in order.
LEMMA OneMoreEntry ==
    ASSUME GroupsType, cursor < Len(db), NEW next, next = cursor + 1,
           db' = db, called' = called \o Calls(db[next]), UNCHANGED disturbed,
           \A j \in 1..Len(called) : UsersGroup(db[called[j]]),
           ~disturbed => /\ InOrder /\ CalledUpTo(cursor)
                         /\ \A j \in 1..Len(called) : called[j] <= cursor
    PROVE  /\ called' \in Seq(1..Len(db))
           /\ \A j \in 1..Len(called') : UsersGroup(db[called'[j]])
           /\ ~disturbed => /\ InOrder' /\ CalledUpTo(next)'
                            /\ \A j \in 1..Len(called') : called'[j] <= next
           /\ Calls(db[next]) # <<>> => called' # <<>> /\ called'[Len(called')] = next
<1>1. next \in 1..Len(db) /\ called \in Seq(1..Len(db)) /\ cursor \in Nat
  BY DEF GroupsType
<1>2. CASE UsersGroup(db[next])
  <2>1. Calls(db[next]) = <<next>>
    BY <1>2, CallsOfEntry
  <2>2. /\ called' \in Seq(1..Len(db)) /\ Len(called') = Len(called) + 1
        /\ Len(called) \in Nat /\ called'[Len(called) + 1] = next
        /\ \A j \in 1..Len(called) : called'[j] = called[j] /\ called[j] \in 1..Len(db)
    BY <1>1, <2>1
  <2>3. ASSUME ~disturbed PROVE InOrder'
    <3> SUFFICES ASSUME NEW i \in 1..Len(called'), NEW j \in 1..Len(called'), i < j
                 PROVE  called'[i] < called'[j]
      BY DEF InOrder
    <3>1. i \in 1..Len(called)
      BY <2>2
    <3>2. CASE j = Len(called) + 1
      <4>1. called'[i] <= cursor /\ called'[i] \in Int /\ called'[j] = next
        BY <2>2, <2>3, <3>1, <3>2
      <4> QED
        BY <1>1, <4>1
    <3>3. CASE j \in 1..Len(called)
      <4>1. called[i] < called[j]
        BY <2>3, <3>1, <3>3 DEF InOrder
      <4> QED
        BY <2>2, <3>1, <3>3, <4>1
    <3>4. PICK n \in Nat : n = Len(called) /\ Len(called') = n + 1
      BY <2>2
    <3>5. j = Len(called) + 1 \/ j \in 1..Len(called)
      <4>1. j \in 1..(n + 1)
        BY <3>4
      <4>2. j = n + 1 \/ j \in 1..n
        BY <4>1
      <4> QED
        BY <3>4, <4>2
    <3> QED
      BY <3>2, <3>3, <3>5, Zenon
  <2>4. ASSUME ~disturbed PROVE CalledUpTo(next)'
    <3> SUFFICES ASSUME NEW k \in 1..next, UsersGroup(db[k])
                 PROVE  \E j \in 1..Len(called') : called'[j] = k
      BY DEF CalledUpTo
    <3>1. CASE k = next
      BY <3>1, <2>2
    <3>2. CASE k # next
      <4>1. k \in 1..cursor
        BY <3>2, <1>1
      <4>2. PICK j \in 1..Len(called) : called[j] = k
        BY <4>1, <2>4 DEF CalledUpTo
      <4> QED
        BY <4>2, <2>2
    <3> QED
      BY <3>1, <3>2
  <2> QED
    BY <1>1, <1>2, <2>1, <2>2, <2>3, <2>4
<1>3. CASE ~UsersGroup(db[next])
  <2>1. Calls(db[next]) = <<>>
    BY <1>3, CallsOfEntry
  <2>2. called' = called
    BY <1>1, <2>1
  <2>3. ASSUME ~disturbed PROVE CalledUpTo(next)'
    <3> SUFFICES ASSUME NEW k \in 1..next, UsersGroup(db[k])
                 PROVE  \E j \in 1..Len(called') : called'[j] = k
      BY DEF CalledUpTo
    <3>1. k # next
      BY <1>3
    <3>2. k \in 1..cursor
      BY <1>1, <3>1
    <3>3. CalledUpTo(cursor)
      BY <2>3
    <3> QED
      BY <2>2, <3>2, <3>3 DEF CalledUpTo
  <2> QED
    BY <1>1, <2>1, <2>2, <2>3 DEF InOrder
<1> QED
  BY <1>2, <1>3

\* A pass of the loop that goes on.
LEMMA EntryKeeps ==
    ASSUME GroupsInv, pc = "groups", Entry, pc' = pc
    PROVE  GroupsInv'
<1>1. GroupsType /\ cursor < Len(db) /\ Entry
  BY DEF GroupsInv, Entry, Fits
<1>2. PICK next : next = cursor + 1
  OBVIOUS
<1>3. /\ called' \in Seq(1..Len(db))
      /\ \A j \in 1..Len(called') : UsersGroup(db[called'[j]])
      /\ ~disturbed => /\ InOrder' /\ CalledUpTo(next)'
                       /\ \A j \in 1..Len(called') : called'[j] <= next
  BY <1>1, <1>2, OneMoreEntry DEF GroupsInv, InGroups, Entry
<1>4. cursor' = next /\ db' = db /\ disturbed' = disturbed
  BY <1>2 DEF Entry
<1>5. GroupsType'
  BY <1>1, <1>2, <1>3 DEF GroupsType, Entry, Room, NeedsBuffer, Fits
<1>6. InGroups'
  BY <1>3, <1>4 DEF InGroups, CalledUpTo, UsersGroup
<1>7. GroupsRest' /\ EachGroupOnce'
  BY DEF GroupsRest, EachGroupOnce, Is
<1> QED
  BY <1>5, <1>6, <1>7 DEF GroupsInv

LEMMA DoesNotFitKeeps ==
    ASSUME GroupsInv, pc = "groups", DoesNotFit, pc' = pc
    PROVE  GroupsInv'
<1>1. GroupsType'
  BY DEF GroupsInv, GroupsType, DoesNotFit, Room, NeedsBuffer
<1>2. InGroups'
  BY DEF GroupsInv, InGroups, DoesNotFit, CalledUpTo, InOrder, UsersGroup
<1> QED
  BY <1>1, <1>2 DEF GroupsInv, GroupsRest, EachGroupOnce, Is

LEMMA OtherUseKeeps ==
    ASSUME GroupsInv, pc = "groups", OtherUse, pc' = pc
    PROVE  GroupsInv'
<1>1. GroupsType'
  <2>1. GroupsType /\ OtherUse
    BY DEF GroupsInv
  <2>2. open' \in BOOLEAN /\ disturbed' \in BOOLEAN /\ rc' \in {"0", "ERANGE"}
    BY <2>1, Zenon DEF GroupsType, OtherUse
  <2>3. /\ cursor' \in 0..Len(db') /\ others' \in 0..MaxOthers /\ called' \in Seq(1..Len(db'))
        /\ buflen' \in Nat \ {0} /\ buf' \in 0..buflen'
    BY <2>1, GroupsConstants DEF GroupsType, OtherUse
  <2> QED
    BY <2>2, <2>3, Zenon DEF GroupsType
<1>2. InGroups'
  BY DEF GroupsInv, InGroups, OtherUse, UsersGroup
<1> QED
  BY <1>1, <1>2 DEF GroupsInv, GroupsRest, EachGroupOnce, Is

LEMMA BeginKeeps ==
    ASSUME GroupsInv, pc = "idle", GroupsBegin, pc' = "groups"
    PROVE  GroupsInv'
<1>1. called = <<>> /\ called' = <<>>
  BY DEF GroupsInv, GroupsRest, GroupsBegin
<1>2. Len(db') \in Nat
  BY GroupsAssumption DEF GroupsBegin
<1>3. called' \in Seq(1..Len(db')) /\ cursor' \in 0..Len(db')
  BY <1>1, <1>2 DEF GroupsBegin
<1>4. GroupsType'
  BY <1>3 DEF GroupsInv, GroupsType, GroupsBegin
<1>5. InGroups'
  BY <1>1 DEF GroupsBegin, InGroups, CalledUpTo, InOrder
<1> QED
  BY <1>4, <1>5 DEF GroupsInv, GroupsRest, EachGroupOnce, Is

\* The end of the call, with what was called so far.
LEMMA FinishKeeps ==
    ASSUME GroupsInv, pc = "groups", Finish, NEW res, GroupsReturn(res),
           res = "ok" => cursor = Len(db)
    PROVE  GroupsInv'
<1>1. GroupsType'
  <2>1. GroupsType /\ Finish
    BY DEF GroupsInv
  <2>2. open' \in BOOLEAN /\ disturbed' \in BOOLEAN /\ rc' \in {"0", "ERANGE"}
    BY <2>1, Zenon DEF GroupsType, Finish
  <2>3. /\ cursor' \in 0..Len(db') /\ others' \in 0..MaxOthers /\ called' \in Seq(1..Len(db'))
        /\ buflen' \in Nat \ {0} /\ buf' \in 0..buflen'
    BY <2>1 DEF GroupsType, Finish
  <2> QED
    BY <2>2, <2>3, Zenon DEF GroupsType
<1>2. GroupsRest' /\ InGroups'
  BY DEF GroupsRest, InGroups, Finish, GroupsReturn, Returns
<1>3. EachGroupOnce'
  <2>1. \A j \in 1..Len(called) : UsersGroup(db[called[j]])
    BY DEF GroupsInv, InGroups
  <2>2. ASSUME ~disturbed
        PROVE  InOrder /\ CalledUpTo(IF res = "ok" THEN Len(db)
                                     ELSE IF called = <<>> THEN 0 ELSE called[Len(called)])
    <3>1. InOrder /\ CalledUpTo(cursor) /\ \A j \in 1..Len(called) : called[j] <= cursor
      BY <2>2 DEF GroupsInv, InGroups
    <3>2. /\ called # <<>> => Len(called) \in 1..Len(called) /\ called[Len(called)] \in 1..Len(db)
          /\ cursor \in Nat /\ Len(db) \in Int
      BY DEF GroupsInv, GroupsType
    <3> QED
      BY <3>1, <3>2 DEF CalledUpTo
  <2>3. db' = db /\ called' = called /\ disturbed' = disturbed /\ out' = res
    BY DEF Finish, GroupsReturn, Returns
  <2> QED
    BY <2>1, <2>2, <2>3 DEF EachGroupOnce, CalledUpTo, InOrder, UsersGroup
<1> QED
  BY <1>1, <1>2, <1>3 DEF GroupsInv

LEMMA EntryStopsKeeps ==
    ASSUME GroupsInv, pc = "groups", EntryStops, GroupsReturn("stopped")
    PROVE  GroupsInv'
<1>1. GroupsType /\ cursor < Len(db) /\ EntryStops
  BY DEF GroupsInv, EntryStops, Fits
<1>2. PICK next : next = cursor + 1
  OBVIOUS
<1>3. /\ called' \in Seq(1..Len(db))
      /\ \A j \in 1..Len(called') : UsersGroup(db[called'[j]])
      /\ ~disturbed => InOrder' /\ CalledUpTo(next)'
      /\ called' # <<>> /\ called'[Len(called')] = next
  BY <1>1, <1>2, OneMoreEntry DEF GroupsInv, InGroups, EntryStops
<1>4. GroupsType'
  <2>1. open' \in BOOLEAN /\ disturbed' \in BOOLEAN /\ rc' \in {"0", "ERANGE"}
    BY <1>1, Zenon DEF GroupsType, EntryStops
  <2>2. /\ cursor' \in 0..Len(db') /\ others' \in 0..MaxOthers
        /\ buflen' \in Nat \ {0} /\ buf' \in 0..buflen'
    BY <1>1 DEF GroupsType, EntryStops
  <2>3. called' \in Seq(1..Len(db'))
    BY <1>1, <1>3 DEF EntryStops
  <2> QED
    BY <2>1, <2>2, <2>3, Zenon DEF GroupsType
<1>5. GroupsRest' /\ InGroups'
  BY DEF GroupsRest, InGroups, EntryStops, GroupsReturn, Returns
<1>6. EachGroupOnce'
  <2>1. db' = db /\ disturbed' = disturbed /\ out' = "stopped"
    BY DEF EntryStops, GroupsReturn, Returns
  <2> QED
    BY <1>3, <2>1 DEF EachGroupOnce, CalledUpTo, InOrder, UsersGroup
<1> QED
  BY <1>4, <1>5, <1>6 DEF GroupsInv

\* setgrent fails before anything happened.
LEMMA NoBeginKeeps ==
    ASSUME GroupsInv, pc = "idle", GroupsReturn("setgrent"), UNCHANGED groupVars
    PROVE  GroupsInv'
<1>1. called = <<>>
  BY DEF GroupsInv, GroupsRest
<1>2. GroupsType'
  BY DEF GroupsInv, GroupsType, groupVars
<1>3. GroupsRest' /\ InGroups'
  BY DEF GroupsInv, GroupsRest, InGroups, groupVars, GroupsReturn, Returns
<1>4. EachGroupOnce'
  <2>1. called' = <<>> /\ out' = "setgrent"
    BY <1>1 DEF groupVars, GroupsReturn, Returns
  <2> QED
    BY <2>1 DEF EachGroupOnce, CalledUpTo, InOrder
<1> QED
  BY <1>2, <1>3, <1>4 DEF GroupsInv
-----------------------------------------------------------------------------
(* The directories of a path                                               *)

\* A set of numbers with a bound has a greatest one, or is empty.
LEMMA MaxOfBounds ==
    ASSUME NEW n \in Nat, NEW S \in SUBSET (0..n)
    PROVE  MaxOf(S) \in Nat /\ \A x \in S : x <= MaxOf(S)
<1> DEFINE T == {n - x : x \in S \cup {0}}
           P(m) == \A x \in S : x <= m
<1>1. T \in SUBSET Nat /\ n - 0 \in T
  OBVIOUS
<1>2. PICK y \in T : \A z \in T : y <= z
  BY <1>1, LeastNat
<1>3. PICK m \in S \cup {0} : y = n - m
  BY <1>2
<1>4. P(m)
  <2> SUFFICES ASSUME NEW x \in S PROVE x <= m
    OBVIOUS
  <2>1. n - x \in T /\ x \in Nat /\ m \in Nat
    OBVIOUS
  <2> QED
    BY <2>1, <1>2, <1>3
<1>5. MaxOf(S) = CHOOSE k \in S \cup {0} : P(k)
  BY DEF MaxOf
<1> HIDE DEF P
<1>6. MaxOf(S) \in S \cup {0} /\ P(MaxOf(S))
  BY <1>4, <1>5
<1>7. S \cup {0} \subseteq Nat
  OBVIOUS
<1>8. MaxOf(S) \in Nat
  BY <1>6, <1>7, Zenon
<1> QED
  BY <1>6, <1>8, Zenon DEF P

\* A directory ends at a colon or with the path, and no colon is in it.
LEMMA NextColonFacts ==
    ASSUME NEW t \in Seq(Characters), NEW a \in 1..pend(t)
    PROVE  /\ NextColon(t, a) \in a..pend(t)
           /\ NextColon(t, a) = pend(t) \/ t[NextColon(t, a)] = Colon
           /\ \A b \in a..(NextColon(t, a) - 1) : t[b] # Colon
<1>1. Len(t) \in Nat /\ pend(t) = Len(t) + 1
  BY DEF pend
<1>2. NextColon(t, a) = FirstDelim(t, Colon, a)
  BY DEF NextColon, FirstDelim, pend
<1> QED
  BY <1>1, <1>2, FirstDelimFacts

\* No directory is longer than the longest.
LEMMA NoLongerThanMax ==
    ASSUME NEW t \in Seq(Characters)
    PROVE  /\ MaxDist(t) \in Nat
           /\ \A a \in Starts(t) : NextColon(t, a) - a <= MaxDist(t)
<1> DEFINE S == {NextColon(t, a) - a : a \in Starts(t)}
<1>1. Len(t) \in Nat /\ pend(t) = Len(t) + 1
  BY DEF pend
<1>2. ASSUME NEW a \in Starts(t) PROVE NextColon(t, a) - a \in 0..Len(t)
  <2>1. a \in 1..Len(t) /\ a \in 1..pend(t)
    BY <1>1 DEF Starts
  <2> QED
    BY <1>1, <2>1, NextColonFacts
<1>3. S \in SUBSET (0..Len(t))
  BY <1>2
<1>4. MaxDist(t) = MaxOf(S)
  BY DEF MaxDist
<1> QED
  BY <1>1, <1>3, <1>4, MaxOfBounds

LEMMA PathConstants == Len(FileName) \in Nat /\ flen = Len(FileName) + 1 /\ Paths \subseteq Seq(Characters)
BY PathAssumption DEF flen

LEMMA PathIsASequence == ASSUME PathType PROVE path \in Seq(Characters)
<1>1. <<>> \in Seq(Characters)
  OBVIOUS
<1> QED
  BY <1>1, PathConstants DEF PathType

LEMMA PathInitially == ASSUME PathInit, pc = "idle" PROVE PathInv
BY DEF PathInit, PathInv, PathType, InPath, PathRest, PathLeft, Is

LEMMA PathAfterReset == ASSUME PathReset, pc' = "idle" PROVE PathInv'
BY DEF PathReset, PathInv, PathType, InPath, PathRest, PathLeft, Is

LEMMA PathKept ==
    ASSUME PathInv, UNCHANGED pathVars, pc # "path", pc' # "path",
           pc' = "idle" => pc = "idle", pc' = "done" => call'.name # "path"
    PROVE  PathInv'
BY DEF PathInv, PathType, InPath, PathRest, PathLeft, Is, pathVars

\* A function on an interval from 1 is a sequence.
LEMMA FunctionIsSeq ==
    ASSUME NEW n \in Nat, NEW S, NEW f \in [1..n -> S]
    PROVE  f \in Seq(S) /\ Len(f) = n
OBVIOUS

LEMMA NameFacts ==
    ASSUME NEW d \in Seq(Characters)
    PROVE  /\ NameIn(d) \in Seq(Characters \cup {Slash}) /\ NameIn(d) \in Seq(Letters)
           /\ Len(NameIn(d)) = Len(d) + flen
<1> DEFINE S == Characters \cup {Slash}
<1>1. d \in Seq(S) /\ <<Slash>> \in Seq(S) /\ Len(<<Slash>>) = 1
      /\ FileName \in Seq(S) /\ Len(FileName) \in Nat /\ Len(d) \in Nat
  BY PathAssumption
<1> HIDE DEF S
<1>2. d \o <<Slash>> \in Seq(S) /\ Len(d \o <<Slash>>) = Len(d) + 1
  BY <1>1, ConcatProperties
<1>3. NameIn(d) \in Seq(S) /\ Len(NameIn(d)) = Len(d) + 1 + Len(FileName)
  BY <1>1, <1>2, ConcatProperties DEF NameIn
<1>4. NameIn(d) \in Seq(Letters)
  BY <1>3 DEF S, Letters
<1> QED BY <1>1, <1>3, <1>4, PathConstants DEF S

\* Over whatever the buffer holds, a candidate that fits it is there as its own name.
LEMMA CandidateHolds ==
    ASSUME NEW b \in Seq(Letters), NEW d \in Seq(Characters), Len(d) + flen < Len(b)
    PROVE  /\ Candidate(b, d) \in Seq(Letters) /\ Len(Candidate(b, d)) = Len(b)
           /\ CString(Candidate(b, d)) = NameIn(d)
<1> DEFINE name == NameIn(d)
           w == Append(name, NUL)
           c == Candidate(b, d)
<1>1. /\ name \in Seq(Characters \cup {Slash}) /\ name \in Seq(Letters) /\ Len(name) \in Nat
      /\ Len(b) \in Nat /\ Len(name) < Len(b)
  BY NameFacts
<1>2. NUL \in Letters
  BY DEF Letters
<1> HIDE DEF name
<1>3. /\ w \in Seq(Letters) /\ Len(w) = Len(name) + 1 /\ w[Len(w)] = NUL
      /\ \A k \in 1..Len(name) : w[k] = name[k]
  BY <1>1, <1>2, AppendProperties
<1>4. c = [k \in 1..Len(b) |-> IF k <= Len(w) THEN w[k] ELSE b[k]]
  BY DEF Candidate, Overwrite, name
<1> HIDE DEF w
<1>5. c \in [1..Len(b) -> Letters]
  <2>1. ASSUME NEW k \in 1..Len(b) PROVE (IF k <= Len(w) THEN w[k] ELSE b[k]) \in Letters
    <3>1. CASE k <= Len(w)
      <4>1. k \in 1..Len(w)
        BY <1>1, <1>3, <3>1
      <4> QED BY <1>3, <3>1, <4>1, ElementOfSeq
    <3>2. CASE ~(k <= Len(w))
      BY <3>2, ElementOfSeq
    <3> QED BY <3>1, <3>2
  <2> HIDE DEF c
  <2> QED BY <1>4, <2>1
<1> HIDE DEF c
<1>6. c \in Seq(Letters) /\ Len(c) = Len(b)
  BY <1>1, <1>5, FunctionIsSeq
<1>7. c[Len(name) + 1] = NUL /\ \A k \in 1..Len(name) : c[k] = name[k] /\ c[k] # NUL
  <2>1. Len(name) + 1 \in 1..Len(b)
    BY <1>1
  <2>2. c[Len(name) + 1] = NUL
    BY <1>1, <1>3, <1>4, <2>1
  <2>3. ASSUME NEW k \in 1..Len(name) PROVE c[k] = name[k] /\ c[k] # NUL
    <3>1. k \in 1..Len(b) /\ k <= Len(w)
      BY <1>1, <1>3
    <3>2. c[k] = name[k]
      BY <1>3, <1>4, <3>1
    <3>3. name[k] \in Characters \cup {Slash}
      BY <1>1, ElementOfSeq
    <3> QED BY <3>2, <3>3, PathAssumption
  <2> QED BY <2>2, <2>3
<1>8. FirstNul(c) = Len(name) + 1
  <2> DEFINE P(k) == c[k] = NUL /\ \A j \in 1..(k - 1) : c[j] # NUL
  <2>1. Len(name) + 1 \in 1..Len(c) /\ P(Len(name) + 1)
    BY <1>1, <1>6, <1>7
  <2>2. ASSUME NEW k \in 1..Len(c), P(k) PROVE k = Len(name) + 1
    <3>1. ~(k <= Len(name))
      BY <1>1, <1>7, <2>2
    <3>2. ~(Len(name) + 1 <= k - 1)
      BY <1>1, <1>6, <1>7, <2>2
    <3> QED BY <1>1, <1>6, <3>1, <3>2
  <2>3. FirstNul(c) = CHOOSE k \in 1..Len(c) : P(k)
    BY DEF FirstNul
  <2> HIDE DEF P
  <2> QED BY <2>1, <2>2, <2>3
<1>9. CString(c) = SubSeq(c, 1, Len(name))
  BY <1>1, <1>8 DEF CString
<1>10. SubSeq(c, 1, Len(name)) = name
  <2>1. \A k \in 1..Len(name) : c[k] \in Letters
    BY <1>1, <1>5
  <2>2. /\ SubSeq(c, 1, Len(name)) \in Seq(Letters)
        /\ Len(SubSeq(c, 1, Len(name))) = Len(name)
        /\ \A k \in 1..Len(name) : SubSeq(c, 1, Len(name))[k] = c[k]
    <3>1. /\ SubSeq(c, 1, Len(name)) \in Seq(Letters)
          /\ Len(SubSeq(c, 1, Len(name))) = IF 1 <= Len(name) THEN Len(name) - 1 + 1 ELSE 0
          /\ \A k \in 1..(Len(name) - 1 + 1) : SubSeq(c, 1, Len(name))[k] = c[1 + k - 1]
      BY <1>1, <2>1, SubSeqProperties
    <3> QED BY <1>1, <3>1
  <2> QED BY <1>1, <1>7, <2>2, SeqEqual
<1> QED BY <1>6, <1>9, <1>10 DEF c, name

LEMMA PathBeginKeeps ==
    ASSUME PathInv, pc = "idle", PathBegin, pc' = "path"
    PROVE  PathInv'
<1>1. path' \in Seq(Characters) /\ path' # <<>> /\ path' \in Paths
  BY PathConstants DEF PathBegin
<1>2. 1 \in Starts(path') /\ Len(path') \in Nat
  BY <1>1 DEF Starts
<1> DEFINE n == MaxDist(path') + flen + 1
<1>3. n \in Nat
  BY <1>1, NoLongerThanMax, PathConstants
<1>4. pathbuf' \in Seq(Letters) /\ Len(pathbuf') = n
  <2>1. pathbuf' = [k \in 1..n |-> NUL] /\ NUL \in Letters
    BY DEF PathBegin, Letters
  <2> HIDE DEF n
  <2>2. pathbuf' \in [1..n -> Letters]
    BY <2>1
  <2> QED BY <1>3, <2>2, FunctionIsSeq
<1>5. PathType'
  BY <1>1, <1>4 DEF PathType, PathBegin, Letters
<1>6. InPath'
  BY <1>2, <1>4 DEF InPath, PathBegin, Starts, MaxDist, NextColon, pend
<1> QED
  BY <1>5, <1>6 DEF PathInv, PathRest, PathLeft, Is

\* Without a path, or without memory, nothing has happened.
LEMMA NoPathKeeps ==
    ASSUME PathInv, pc = "idle", NEW res, res # "ok", PathReturn(res, 0),
           NoPath \/ UNCHANGED pathVars
    PROVE  PathInv'
<1>1. PathType'
  BY DEF PathInv, PathType, NoPath, pathVars
<1>2. pathbuf' = <<>>
  BY DEF PathInv, PathRest, NoPath, pathVars
<1> QED
  BY <1>1, <1>2 DEF PathInv, InPath, PathRest, PathLeft, Is, PathReturn, Returns

\* The directory looked in, where the next one starts, and what the buffer holds then.
LEMMA LookFacts ==
    ASSUME PathType, InPath, pc = "path", NEW f, Look(f)
    PROVE  /\ o \in Starts(path) /\ o \in 1..Len(path)
           /\ Dir \in Seq(Characters) /\ Len(Dir) = NextColon(path, o) - o
           /\ NextColon(path, o) - o \in Nat /\ NextColon(path, o) - o <= MaxDist(path)
           /\ NextColon(path, o) \in o..pend(path)
           /\ NextColon(path, o) = pend(path) \/ path[NextColon(path, o)] = Colon
           /\ path \in Seq(Characters) /\ path' = path
           /\ pathbuf' \in Seq(Letters) /\ Len(pathbuf') = Len(pathbuf)
           /\ CString(pathbuf') = NameIn(Dir) /\ Len(Dir) + flen < Len(pathbuf)
<1>1. path \in Seq(Characters) /\ Len(path) \in Nat /\ pend(path) = Len(path) + 1
  BY PathIsASequence DEF pend
<1>2. o \in Starts(path) /\ o \in 1..Len(path) /\ o \in 1..pend(path)
  BY <1>1 DEF InPath, Look, Starts
<1> DEFINE c == NextColon(path, o)
<1>3. /\ c \in o..pend(path)
      /\ c = pend(path) \/ path[c] = Colon
      /\ c - o <= MaxDist(path)
  BY <1>1, <1>2, NextColonFacts, NoLongerThanMax
<1>4. Dir = SubSeq(path, o, c - 1) /\ path' = path
  BY DEF Look, Dir
<1> HIDE DEF c
<1>5. o \in Int /\ c - 1 \in Int /\ \A i \in o..(c - 1) : path[i] \in Characters
  BY <1>1, <1>2, <1>3
<1>6. Dir \in Seq(Characters) /\ Len(Dir) = c - o
  <2>1. /\ SubSeq(path, o, c - 1) \in Seq(Characters)
        /\ Len(SubSeq(path, o, c - 1)) = IF o <= c - 1 THEN c - 1 - o + 1 ELSE 0
    BY <1>5, SubSeqProperties
  <2> QED
    BY <2>1, <1>1, <1>2, <1>3, <1>4
<1>7. Len(Dir) + flen < Len(pathbuf)
  <2>1. Len(pathbuf) = MaxDist(path) + flen + 1 /\ MaxDist(path) \in Nat /\ flen \in Nat
    BY <1>1, NoLongerThanMax, PathConstants DEF InPath
  <2> QED BY <1>1, <1>2, <1>3, <1>6, <2>1
<1>8. pathbuf' = Candidate(pathbuf, Dir) /\ pathbuf \in Seq(Letters)
  BY DEF Look, PathType, Letters
<1>9. pathbuf' \in Seq(Letters) /\ Len(pathbuf') = Len(pathbuf) /\ CString(pathbuf') = NameIn(Dir)
  BY <1>6, <1>7, <1>8, CandidateHolds
<1> QED
  BY <1>1, <1>2, <1>3, <1>4, <1>5, <1>6, <1>7, <1>9 DEF c

LEMMA NotHereKeeps ==
    ASSUME PathInv, pc = "path", NEW f \in Files, NotHere(f), pc' = pc
    PROVE  PathInv'
<1>1. /\ NextColon(path, o) \in o..pend(path) /\ o \in 1..Len(path)
      /\ NextColon(path, o) = pend(path) \/ path[NextColon(path, o)] = Colon
      /\ path \in Seq(Characters) /\ path' = path
      /\ pathbuf' \in Seq(Letters) /\ Len(pathbuf') = Len(pathbuf)
  BY LookFacts DEF PathInv, NotHere
<1> DEFINE c == NextColon(path, o)
<1>2. o' = c + 1
  BY DEF NotHere
<1> HIDE DEF c
<1>3. PathType'
  BY <1>1, <1>2 DEF PathInv, PathType, c, Letters
<1>4. InPath'
  <2>1. ASSUME o' < pend(path) PROVE o' \in Starts(path)
    <3>1. c \in o..pend(path) /\ Len(path) \in Nat /\ pend(path) = Len(path) + 1
      BY <1>1 DEF c, pend
    <3>2. o' \in 1..Len(path) /\ o' - 1 = c /\ path[c] = Colon
      BY <1>1, <1>2, <2>1, <3>1 DEF c
    <3> QED
      BY <3>2 DEF Starts
  <2>2. MaxDist(path') = MaxDist(path) /\ pend(path') = pend(path) /\ Starts(path') = Starts(path)
    BY <1>1
  <2> QED
    BY <1>1, <2>1, <2>2 DEF InPath, PathInv
<1> QED
  BY <1>3, <1>4 DEF PathInv, PathRest, PathLeft, Is

LEMMA HereKeeps ==
    ASSUME PathInv, pc = "path", NEW f \in Files, Here(f), PathReturn("ok", Len(Dir) + flen)
    PROVE  PathInv'
<1>1. /\ Len(Dir) \in Nat /\ Len(Dir) + flen < Len(pathbuf)
      /\ pathbuf' \in Seq(Letters) /\ Len(pathbuf') = Len(pathbuf)
      /\ path' = path /\ o' = o
  BY LookFacts DEF PathInv, Here
<1>2. PathType'
  BY <1>1 DEF PathInv, PathType, Letters
<1>3. out'.res = "ok"
  BY DEF PathReturn, Returns
<1>4. PathLeft'
  <2>1. Len(pathbuf') > 0
    BY <1>1, PathConstants
  <2> QED BY <1>3, <2>1 DEF PathLeft
<1> QED
  BY <1>2, <1>4 DEF PathInv, InPath, PathRest, PathReturn, Returns

LEMMA NowhereKeeps ==
    ASSUME PathInv, pc = "path", Nowhere, PathReturn("ENOENT", 0)
    PROVE  PathInv'
BY DEF PathInv, PathType, InPath, PathRest, PathLeft, Is, Nowhere, PathReturn, Returns
-----------------------------------------------------------------------------
(* The search                                                              *)

\* What statfile says of a file, and what may be executed.
LEMMA StatfileFacts ==
    ASSUME NEW f \in Files
    PROVE  /\ ~statfile(f) /\ MayExecute(f) => f.gid = "supplementary"
           /\ statfile(f) => f.type = "reg" /\ f.mode \cap Classes(f) # {}
<1>1. f.gid \in {"mine", "supplementary", "else"} /\ f.uid \in {"mine", "else"}
  BY PathAssumption
<1>2. ASSUME ~statfile(f), MayExecute(f) PROVE f.gid = "supplementary"
  <2>1. f.type = "reg" /\ "oth" \notin f.mode
    BY <1>2 DEF statfile, MayExecute
  <2>2. CASE f.uid = "mine"
    BY <1>2, <2>2 DEF statfile, MayExecute
  <2>3. CASE f.uid # "mine" /\ f.gid # "else"
    <3>1. "grp" \in f.mode
      BY <1>2, <2>3 DEF MayExecute
    <3> QED
      BY <1>1, <1>2, <2>1, <2>3, <3>1 DEF statfile
  <2>4. CASE f.uid # "mine" /\ f.gid = "else"
    BY <1>2, <2>1, <2>4 DEF MayExecute
  <2> QED
    BY <2>2, <2>3, <2>4
<1>3. ASSUME statfile(f) PROVE f.type = "reg" /\ f.mode \cap Classes(f) # {}
  <2>1. \/ "oth" \in f.mode
        \/ "grp" \in f.mode /\ f.gid = "mine"
        \/ "usr" \in f.mode /\ f.uid = "mine"
    BY <1>3 DEF statfile
  <2> QED BY <1>3, <2>1 DEF statfile, Classes
<1> QED
  BY <1>2, <1>3

\* Looking in the next directory.
LEMMA SeenGrows ==
    ASSUME PathInv, SearchInv, pc = "path", NEW f \in Files, Look(f), NEW rest,
           rest = Rest(path, Colon, NextColon(path, o) + 1)
    PROVE  /\ seen' \in Seq(Looks) /\ Len(seen') = Len(seen) + 1
           /\ Len(LoopPieces(path, Colon)) = Len(seen') + Len(rest) /\ Len(rest) \in Nat
           /\ \A k \in 1..Len(rest) : LoopPieces(path, Colon)[Len(seen') + k] = rest[k]
           /\ \A k \in 1..Len(seen) : seen'[k] = seen[k]
           /\ seen'[Len(seen')] = [name |-> NameIn(Dir), file |-> f]
           /\ LoopPieces(path, Colon)[Len(seen')] = Dir
<1> DEFINE dirs == LoopPieces(path, Colon)
           now == Rest(path, Colon, o)
           look == [name |-> NameIn(Dir), file |-> f]
<1>1. /\ path \in Seq(Characters) /\ o \in 1..Len(path) /\ path' = path
      /\ CString(pathbuf') = NameIn(Dir)
  BY LookFacts DEF PathInv
<1>2. NextColon(path, o) = FirstDelim(path, Colon, o)
  BY DEF NextColon, FirstDelim, pend
<1>3. Dir = SubSeq(path, o, FirstDelim(path, Colon, o) - 1) /\ seen' = Append(seen, look)
  BY <1>1, <1>2 DEF Look, Dir
<1>4. /\ rest \in Seq(Seq(Characters)) /\ now \in Seq(Seq(Characters))
      /\ now = <<Dir>> \o rest
  <2>1. rest = Rest(path, Colon, FirstDelim(path, Colon, o) + 1)
    BY <1>2
  <2> HIDE DEF now, look, dirs
  <2>2. path \in Seq(Characters) /\ o \in 1..Len(path)
    BY <1>1
  <2>3. /\ Rest(path, Colon, o) \in Seq(Seq(Characters))
        /\ Rest(path, Colon, FirstDelim(path, Colon, o) + 1) \in Seq(Seq(Characters))
    BY <2>2, RestFacts
  <2>4. Rest(path, Colon, o) = <<SubSeq(path, o, FirstDelim(path, Colon, o) - 1)>>
                               \o Rest(path, Colon, FirstDelim(path, Colon, o) + 1)
    BY <2>2, RestFacts
  <2> QED
    BY <1>3, <2>1, <2>3, <2>4 DEF now
<1>5. Dir \in Seq(Characters)
  BY <1>1, <1>3, PieceType
<1>6. look \in Looks /\ seen \in Seq(Looks)
  BY <1>5, NameFacts DEF Looks, SearchInv
<1> HIDE DEF look
<1>7. /\ seen' \in Seq(Looks) /\ Len(seen') = Len(seen) + 1 /\ seen'[Len(seen) + 1] = look
      /\ \A k \in 1..Len(seen) : seen'[k] = seen[k]
  BY <1>3, <1>6, AppendProperties
<1>8. /\ Len(now) = 1 + Len(rest) /\ now[1] = Dir /\ \A k \in 1..Len(rest) : now[k + 1] = rest[k]
      /\ Len(rest) \in Nat
  <2>1. <<Dir>> \in Seq(Seq(Characters)) /\ Len(<<Dir>>) = 1 /\ <<Dir>>[1] = Dir
    BY <1>5
  <2> QED
    BY <1>4, <2>1, ConcatProperties
<1>9. Len(dirs) = Len(seen) + Len(now) /\ \A k \in 1..Len(now) : dirs[Len(seen) + k] = now[k]
  BY DEF SearchInv, InSearch
<1>10. Len(seen) \in Nat
  BY <1>6
<1> HIDE DEF now, dirs
<1>11. dirs[Len(seen) + 1] = Dir /\ Len(dirs) = Len(seen) + 1 + Len(rest)
  BY <1>8, <1>9, <1>10
<1>12. ASSUME NEW k \in 1..Len(rest) PROVE dirs[Len(seen) + 1 + k] = rest[k]
  <2>1. k + 1 \in 1..Len(now) /\ Len(seen) + (k + 1) = Len(seen) + 1 + k
    BY <1>8, <1>10
  <2> QED
    BY <2>1, <1>8, <1>9
<1> QED
  BY <1>7, <1>8, <1>11, <1>12 DEF dirs, look

LEMMA SearchInitially == ASSUME PathInit, pc = "idle" PROVE SearchInv
<1>1. seen \in Seq(Looks)
  BY DEF PathInit
<1> QED
  BY <1>1 DEF SearchInv, InSearch, FirstExecutable, NameIsWhole, Is

LEMMA SearchAfterReset == ASSUME PathReset, pc' = "idle" PROVE SearchInv'
<1>1. seen' \in Seq(Looks)
  BY DEF PathReset
<1> QED
  BY <1>1 DEF SearchInv, InSearch, FirstExecutable, NameIsWhole, Is

LEMMA SearchKept ==
    ASSUME SearchInv, UNCHANGED pathVars, pc' # "path", pc' = "done" => call'.name # "path"
    PROVE  SearchInv'
BY DEF SearchInv, InSearch, FirstExecutable, NameIsWhole, Is, pathVars

LEMMA SearchBeginKeeps ==
    ASSUME PathInv, SearchInv, pc = "idle", PathBegin, pc' = "path"
    PROVE  SearchInv'
<1>1. seen = <<>> /\ seen' = <<>> /\ o' = 1
  BY DEF PathInv, PathRest, PathBegin
<1>2. path' \in Seq(Characters)
  BY PathConstants DEF PathBegin
<1>3. /\ LoopPieces(path', Colon) = Rest(path', Colon, 1)
      /\ LoopPieces(path', Colon) \in Seq(Seq(Characters))
  BY <1>2, LoopPiecesIsRest
<1>4. InSearch'
  <2> DEFINE dirs == LoopPieces(path', Colon)
  <2>1. Rest(path', Colon, o') = dirs /\ Len(seen') = 0 /\ Len(dirs) \in Nat
    BY <1>1, <1>3
  <2>2. SeenFirst(Len(seen))'
    BY <2>1 DEF SeenFirst
  <2> QED
    BY <2>1, <2>2 DEF InSearch
<1>5. seen' \in Seq(Looks)
  BY <1>1
<1> QED
  BY <1>4, <1>5 DEF SearchInv, FirstExecutable, NameIsWhole, Is

\* A search that has not begun has looked nowhere.
LEMMA NoSearchKeeps ==
    ASSUME PathInv, SearchInv, PathInv', pc = "idle", NEW res, res \notin {"ok", "ENOENT"},
           PathReturn(res, 0), NoPath \/ UNCHANGED pathVars
    PROVE  SearchInv'
<1>1. seen' = <<>> /\ out'.res = res /\ pc' = "done"
  BY DEF PathInv, PathRest, NoPath, pathVars, PathReturn, Returns
<1>2. path' \in Seq(Characters)
  <2>1. path' \in Paths \cup {<<>>} /\ <<>> \in Seq(Characters)
    BY DEF PathInv, PathType
  <2> QED
    BY <2>1, PathConstants
<1>3. LoopPieces(path', Colon) \in Seq(Seq(Characters)) /\ seen' \in Seq(Looks)
  BY <1>1, <1>2, LoopPiecesIsRest
<1>4. Len(seen') <= Len(LoopPieces(path', Colon)) /\ Len(seen') = 0
  BY <1>1, <1>3
<1>6. FirstExecutable'
  <2> SUFFICES ASSUME Is("path")' PROVE FirstExecutable'
    BY DEF FirstExecutable
  <2>1. PICK dirs : dirs = LoopPieces(path', Colon)
    OBVIOUS
  <2>2. 1..Len(seen') = {} /\ out'.res \notin {"ok", "ENOENT"}
    BY <1>1, <1>4
  <2>3. \A k \in 1..Len(seen') : MayExecute(seen'[k].file) => seen'[k].file.gid = "supplementary"
    BY <2>2
  <2> QED
    BY <2>1, <2>2, <2>3, <1>4 DEF FirstExecutable, MayExecute
<1> QED
  BY <1>1, <1>3, <1>6 DEF SearchInv, InSearch, NameIsWhole

LEMMA SearchOnKeeps ==
    ASSUME PathInv, SearchInv, pc = "path", NEW f \in Files, NotHere(f), pc' = pc
    PROVE  SearchInv'
<1> DEFINE dirs == LoopPieces(path, Colon)
<1>1. PICK rest : rest = Rest(path, Colon, NextColon(path, o) + 1)
  OBVIOUS
<1>2. Look(f) /\ ~statfile(f) /\ o' = NextColon(path, o) + 1 /\ path' = path
  BY DEF NotHere, Look
<1>3. /\ seen' \in Seq(Looks) /\ Len(seen') = Len(seen) + 1
      /\ Len(dirs) = Len(seen') + Len(rest)
      /\ \A k \in 1..Len(rest) : dirs[Len(seen') + k] = rest[k]
      /\ \A k \in 1..Len(seen) : seen'[k] = seen[k]
      /\ seen'[Len(seen')] = [name |-> NameIn(Dir), file |-> f]
      /\ dirs[Len(seen')] = Dir
  BY <1>1, <1>2, SeenGrows
<1>4. Len(seen) \in Nat /\ SeenFirst(Len(seen))
  BY DEF SearchInv, InSearch
<1>5. ASSUME NEW k \in 1..Len(seen')
      PROVE  seen'[k].name = NameIn(dirs[k]) /\ ~statfile(seen'[k].file)
  <2>1. CASE k = Len(seen')
    BY <1>2, <1>3, <2>1
  <2>2. CASE k # Len(seen')
    <3>1. k \in 1..Len(seen)
      BY <1>3, <1>4, <2>2
    <3> QED
      BY <1>3, <1>4, <3>1 DEF SeenFirst
  <2> QED
    BY <2>1, <2>2
<1>6. LoopPieces(path', Colon) = dirs /\ Rest(path', Colon, o') = rest
  BY <1>1, <1>2
<1> HIDE DEF dirs
<1>7. InSearch'
  BY <1>3, <1>5, <1>6 DEF InSearch, SeenFirst
<1> QED
  BY <1>3, <1>7 DEF SearchInv, FirstExecutable, NameIsWhole, Is

LEMMA SearchFindsKeeps ==
    ASSUME PathInv, SearchInv, pc = "path", NEW f \in Files, Here(f),
           PathReturn("ok", Len(Dir) + flen)
    PROVE  SearchInv'
<1> DEFINE dirs == LoopPieces(path, Colon)
<1>1. PICK rest : rest = Rest(path, Colon, NextColon(path, o) + 1)
  OBVIOUS
<1>2. Look(f) /\ statfile(f) /\ path' = path /\ pc' = "done"
      /\ out'.res = "ok" /\ out'.len = Len(Dir) + flen
  BY DEF Here, Look, PathReturn, Returns
<1>3. /\ seen' \in Seq(Looks) /\ Len(seen') = Len(seen) + 1
      /\ Len(dirs) = Len(seen') + Len(rest) /\ Len(rest) \in Nat
      /\ \A k \in 1..Len(seen) : seen'[k] = seen[k]
      /\ seen'[Len(seen')] = [name |-> NameIn(Dir), file |-> f]
      /\ dirs[Len(seen')] = Dir
  BY <1>1, <1>2, SeenGrows
<1>4. Len(seen) \in Nat /\ SeenFirst(Len(seen)) /\ seen \in Seq(Looks)
  BY DEF SearchInv, InSearch
<1>5. dirs \in Seq(Seq(Characters)) /\ LoopPieces(path', Colon) = dirs
  BY <1>2, PathIsASequence, LoopPiecesIsRest DEF PathInv
<1>6. \A k \in 1..Len(seen') : seen'[k].name = NameIn(dirs[k])
  <2> SUFFICES ASSUME NEW k \in 1..Len(seen') PROVE seen'[k].name = NameIn(dirs[k])
    OBVIOUS
  <2>1. CASE k = Len(seen')
    BY <1>3, <2>1
  <2>2. CASE k # Len(seen')
    <3>1. k \in 1..Len(seen)
      BY <1>3, <1>4, <2>2
    <3> QED
      BY <1>3, <1>4, <3>1 DEF SeenFirst
  <2> QED
    BY <2>1, <2>2
<1> HIDE DEF dirs
<1>7. Len(seen') <= Len(dirs) /\ Len(seen') - 1 = Len(seen) /\ seen' # <<>>
  BY <1>3, <1>4
<1>9. ASSUME NEW k \in 1..Len(seen), MayExecute(seen'[k].file)
      PROVE  seen'[k].file.gid = "supplementary"
  <2>1. seen'[k] = seen[k] /\ seen[k] \in Looks
    BY <1>3, <1>4, ElementOfSeq
  <2>2. seen[k].file \in Files
    BY <2>1 DEF Looks
  <2> QED
    BY <1>4, <1>9, <2>1, <2>2, StatfileFacts DEF SeenFirst
<1>10. /\ seen'[Len(seen')].file.type = "reg"
       /\ seen'[Len(seen')].file.mode \cap Classes(seen'[Len(seen')].file) # {}
  <2>1. f.type = "reg" /\ f.mode \cap Classes(f) # {}
    BY <1>2, StatfileFacts
  <2> QED
    BY <1>3, <2>1
<1>11. \A k \in 1..(Len(seen') - 1) :
          MayExecute(seen'[k].file) => seen'[k].file.gid = "supplementary"
  BY <1>7, <1>9
<1>12. FirstExecutable'
  BY <1>2, <1>5, <1>6, <1>7, <1>10, <1>11 DEF FirstExecutable, MayExecute, Classes
<1>13. NameIsWhole'
  <2>1. /\ CString(pathbuf') = NameIn(Dir) /\ Len(pathbuf') = Len(pathbuf)
        /\ Dir \in Seq(Characters) /\ Len(Dir) + flen < Len(pathbuf)
    BY <1>2, LookFacts DEF PathInv
  <2>2. LoopPieces(path', Colon)[Len(seen')] = Dir
    BY <1>3, <1>5
  <2>3. out'.len = Len(NameIn(Dir)) /\ out'.len < Len(pathbuf')
    BY <1>2, <2>1, NameFacts
  <2> QED BY <2>1, <2>2, <2>3, Zenon DEF NameIsWhole
<1> QED
  BY <1>2, <1>3, <1>12, <1>13 DEF SearchInv, InSearch

LEMMA SearchEndsKeeps ==
    ASSUME PathInv, SearchInv, pc = "path", Nowhere, PathReturn("ENOENT", 0)
    PROVE  SearchInv'
<1> DEFINE dirs == LoopPieces(path, Colon)
<1>1. path' = path /\ seen' = seen /\ out'.res = "ENOENT" /\ pc' = "done" /\ o >= pend(path)
  BY DEF Nowhere, PathReturn, Returns
<1>2. seen \in Seq(Looks) /\ Len(seen) \in Nat /\ SeenFirst(Len(seen))
  BY DEF SearchInv, InSearch
<1>3. dirs \in Seq(Seq(Characters)) /\ Len(path) \in Nat /\ o \in Nat
  BY PathIsASequence, LoopPiecesIsRest DEF PathInv, PathType
<1>4. Rest(path, Colon, o) = <<>>
  <2>1. o > Len(path)
    BY <1>1, <1>3 DEF pend
  <2> QED
    BY <2>1 DEF Rest
<1>5. Len(dirs) = Len(seen)
  <2>1. Len(dirs) = Len(seen) + Len(<<>>) /\ Len(<<>>) = 0
    BY <1>4 DEF SearchInv, InSearch
  <2> QED
    BY <1>2, <2>1
<1>6. \A k \in 1..Len(seen) : seen[k].name = NameIn(dirs[k])
  BY <1>2 DEF SeenFirst
<1> HIDE DEF dirs
<1>7. Len(seen) <= Len(dirs)
  BY <1>2, <1>5
<1>8. ASSUME NEW k \in 1..Len(seen), MayExecute(seen[k].file)
      PROVE  seen[k].file.gid = "supplementary"
  <2>1. seen[k] \in Looks
    BY <1>2, ElementOfSeq
  <2>2. seen[k].file \in Files
    BY <2>1 DEF Looks
  <2> QED
    BY <1>2, <1>8, <2>2, StatfileFacts DEF SeenFirst
<1>9. LoopPieces(path', Colon) = dirs
  BY <1>1 DEF dirs
<1>10. FirstExecutable'
  BY <1>1, <1>5, <1>6, <1>7, <1>8, <1>9 DEF FirstExecutable
<1> QED
  BY <1>1, <1>2, <1>10 DEF SearchInv, InSearch, NameIsWhole
-----------------------------------------------------------------------------
(* The calls of one step                                                   *)

LEMMA NothingAnswered == ASSUME ~Is("printf"), ~Is("fnullify"), ~Is("parse"), ~Is("pixel") PROVE ResultInv
BY DEF ResultInv, PrintfLeft, FnullifyLeft, ParseType, PixelType

\* A call that is none of the four answers nothing ResultInv is about.
LEMMA OtherAnswer ==
    ASSUME pc' = "done" => call'.name \notin {"printf", "fnullify", "parse", "pixel"}
    PROVE  ResultInv'
BY DEF ResultInv, PrintfLeft, FnullifyLeft, ParseType, PixelType, Is

LEMMA PrintfHasRoom == ASSUME Printf PROVE ResultInv'
<1>1. PICK first \in Lengths, second \in Lengths :
          /\ call' = [name |-> "printf", first |-> first, second |-> second]
          /\ out' = vsc_vasprintf(first, second)
  BY DEF Printf, Returns
<1>2. first \in Int
  BY CallsAssumption
<1>3. out'.text # Null => out'.room = Len(out'.text) + 1
  <2>1. CASE first < 0 \/ second # first
    BY <1>1, <2>1 DEF vsc_vasprintf, NoString
  <2>2. CASE ~(first < 0 \/ second # first)
    <3> DEFINE text == [k \in 1..first |-> "x"]
    <3>1. first \in Nat
      BY <1>2, <2>2
    <3>2. text \in Seq({"x"}) /\ Len(text) = first
      BY <3>1
    <3>3. out' = [room |-> first + 1, text |-> text]
      BY <1>1, <2>2 DEF vsc_vasprintf
    <3> QED
      BY <3>2, <3>3
  <2> QED
    BY <2>1, <2>2
<1>4. call'.name = "printf"
  BY <1>1
<1> QED
  BY <1>3, <1>4 DEF ResultInv, PrintfLeft, FnullifyLeft, ParseType, PixelType, Is

\* The lowest of the free descriptors is free.
LEMMA LowestIsFree ==
    ASSUME NEW t, FreeFds(t) # {}
    PROVE  Lowest(FreeFds(t)) \in Descriptors /\ t[Lowest(FreeFds(t))] = "closed"
<1>1. FreeFds(t) \in SUBSET Nat
  BY FdAssumption DEF FreeFds, Descriptors
<1>2. \E d \in FreeFds(t) : \A e \in FreeFds(t) : d <= e
  BY <1>1, LeastNat
<1>3. Lowest(FreeFds(t)) \in FreeFds(t)
  BY <1>2 DEF Lowest
<1> QED
  BY <1>3 DEF FreeFds

\* vsc_fnullify leaves the table as it was, or the two descriptors null.
LEMMA FnullifyResults ==
    ASSUME NEW t \in Tables, NEW fd \in Descriptors, NEW r \in vsc_fnullify(t, fd)
    PROVE  \/ r = [table |-> t, ret |-> -1]
           \/ \E devnull \in Descriptors :
                  r = [table |-> [t EXCEPT ![devnull] = "null", ![fd] = "null"], ret |-> fd]
<1>1. CASE r = Result(t, -1)
  BY <1>1 DEF Result
<1>2. CASE FreeFds(t) # {} /\ r \in AfterOpen(t, Lowest(FreeFds(t)), fd)
  <2> DEFINE devnull == Lowest(FreeFds(t))
             opened == [t EXCEPT ![devnull] = "null"]
  <2>1. devnull \in Descriptors /\ t[devnull] = "closed"
    BY <1>2, LowestIsFree
  <2> HIDE DEF devnull
  <2>2. [opened EXCEPT ![devnull] = "closed"] = t
    BY <2>1 DEF Tables
  <2>3. \/ r = Result([opened EXCEPT ![devnull] = "closed"], -1)
        \/ r = Result([opened EXCEPT ![fd] = "null"], fd)
    BY <1>2 DEF AfterOpen, devnull
  <2> QED
    BY <2>1, <2>2, <2>3 DEF Result
<1> QED
  BY <1>1, <1>2 DEF vsc_fnullify

LEMMA FnullifyLeavesOne == ASSUME Fnullify PROVE ResultInv'
<1>1. PICK t \in Tables, fd \in Descriptors : \E r \in vsc_fnullify(t, fd) :
          call' = [name |-> "fnullify", fd |-> fd, table |-> t] /\ out' = r
  BY DEF Fnullify, Returns
<1>2. out' \in vsc_fnullify(t, fd) /\ call'.fd = fd /\ call'.table = t /\ call'.name = "fnullify"
  BY <1>1
<1> DEFINE changed == {d \in Descriptors : out'.table[d] # t[d]}
<1>3. IF out'.ret < 0 THEN changed = {}
      ELSE /\ out'.ret = fd /\ out'.table[fd] = "null"
           /\ Cardinality(changed \ {fd}) <= 1
           /\ \A d \in changed : out'.table[d] = "null"
  <2>1. CASE out' = [table |-> t, ret |-> -1]
    BY <2>1
  <2>2. ASSUME NEW devnull \in Descriptors,
               out' = [table |-> [t EXCEPT ![devnull] = "null", ![fd] = "null"], ret |-> fd]
        PROVE  /\ ~(out'.ret < 0) /\ out'.ret = fd /\ out'.table[fd] = "null"
               /\ Cardinality(changed \ {fd}) <= 1
               /\ \A d \in changed : out'.table[d] = "null"
    <3>1. changed \ {fd} \subseteq {devnull}
      BY <2>2 DEF Tables
    <3>2. IsFiniteSet({devnull}) /\ Cardinality({devnull}) = 1
      BY FS_Singleton
    <3> HIDE DEF changed
    <3>3. Cardinality(changed \ {fd}) <= 1
      BY <3>1, <3>2, FS_Subset
    <3>4. out'.table[fd] = "null" /\ \A d \in changed : out'.table[d] = "null"
      BY <2>2 DEF Tables, changed
    <3>5. ~(out'.ret < 0) /\ out'.ret = fd
      BY <2>2, FdAssumption DEF Descriptors
    <3> QED
      BY <3>3, <3>4, <3>5
  <2> QED
    BY <1>2, <2>1, <2>2, FnullifyResults
<1> QED
  BY <1>2, <1>3 DEF ResultInv, PrintfLeft, FnullifyLeft, ParseType, PixelType, Is
-----------------------------------------------------------------------------
(* The bytes of a UUID                                                     *)

Parses == [ok : BOOLEAN, bytes : Seq(Byte)]
ParseAt(t, g, i) ==
    IF i = Len(t) THEN [ok |-> TRUE, bytes |-> <<>>]
    ELSE IF Len(t) = 36 /\ i \in Dashes THEN
        IF t[i + 1] = Dash THEN g[i + 1] ELSE [ok |-> FALSE, bytes |-> <<>>]
    ELSE IF i + 2 > Len(t) \/ ~isxdigit(t[i + 1]) \/ ~isxdigit(t[i + 2])
         THEN [ok |-> FALSE, bytes |-> <<>>]
    ELSE [g[i + 2] EXCEPT !.bytes =
             <<(denibble(t[i + 1]) * 16 + denibble(t[i + 2])) % 256>> \o @]
ParseFrom(t) == CHOOSE f : f = [i \in 0..Len(t) |-> ParseAt(t, f, i)]

LEMMA ParsedIsParseFrom == ASSUME NEW t PROVE Parsed(t) = ParseFrom(t)[0]
BY DEF Parsed, ParseFrom, ParseAt

LEMMA ByteOfNibbles ==
    ASSUME NEW c \in Byte, NEW d \in Byte
    PROVE  (denibble(c) * 16 + denibble(d)) % 256 \in Byte
<1>1. denibble(c) \in Int /\ denibble(d) \in Int
  BY DEF denibble, Zero, LowerA, UpperA, Byte
<1>2. ASSUME NEW a \in Int, NEW b \in Int PROVE (a * 16 + b) % 256 \in Byte
  BY DEF Byte
<1> QED
  BY <1>1, <1>2

LEMMA ParseAtType ==
    ASSUME NEW t \in Seq(Byte), NEW g, NEW i \in 0..Len(t),
           \A j \in (i + 1)..Len(t) : g[j] \in Parses
    PROVE  ParseAt(t, g, i) \in Parses
<1> DEFINE bad == [ok |-> FALSE, bytes |-> <<>>]
           byte == (denibble(t[i + 1]) * 16 + denibble(t[i + 2])) % 256
<1>1. bad \in Parses /\ [ok |-> TRUE, bytes |-> <<>>] \in Parses
  BY DEF Parses
<1>2. ASSUME i # Len(t) PROVE g[i + 1] \in Parses
  BY <1>2
<1>3. ASSUME ~(i + 2 > Len(t)) PROVE [g[i + 2] EXCEPT !.bytes = <<byte>> \o @] \in Parses
  <2>1. i + 1 \in 1..Len(t) /\ i + 2 \in 1..Len(t) /\ g[i + 2] \in Parses
    BY <1>3
  <2>2. t[i + 1] \in Byte /\ t[i + 2] \in Byte
    BY <2>1, ElementOfSeq
  <2>3. byte \in Byte
    BY <2>2, ByteOfNibbles
  <2> HIDE DEF byte
  <2>4. <<byte>> \o g[i + 2].bytes \in Seq(Byte)
    BY <2>1, <2>3 DEF Parses
  <2> QED
    BY <2>1, <2>4 DEF Parses
<1> QED
  BY <1>1, <1>2, <1>3 DEF ParseAt

LEMMA ParseFromSolves ==
    ASSUME NEW t \in Seq(Byte)
    PROVE  ParseFrom(t) = [i \in 0..Len(t) |-> ParseAt(t, ParseFrom(t), i)]
<1> DEFINE D == 0..Len(t)
           rank == [i \in D |-> Len(t) - i]
           F == [i \in D |-> [g \in [D -> Parses] |-> ParseAt(t, g, i)]]
<1>1. rank \in [D -> 0..Len(t)] /\ Len(t) \in Nat
  OBVIOUS
<1>2. Recursive(D, rank, Parses, F)
  <2> SUFFICES ASSUME NEW i \in D, NEW g \in [D -> Parses]
               PROVE  /\ ParseAt(t, g, i) \in Parses
                      /\ \A h \in [D -> Parses] :
                             (\A j \in D : Len(t) - j < Len(t) - i => g[j] = h[j])
                             => ParseAt(t, g, i) = ParseAt(t, h, i)
    BY DEF Recursive
  <2>1. ParseAt(t, g, i) \in Parses
    BY ParseAtType
  <2>2. ASSUME NEW h \in [D -> Parses], \A j \in D : Len(t) - j < Len(t) - i => g[j] = h[j]
        PROVE  ParseAt(t, g, i) = ParseAt(t, h, i)
    <3>1. /\ i # Len(t) => g[i + 1] = h[i + 1]
          /\ ~(i + 2 > Len(t)) => g[i + 2] = h[i + 2]
      BY <2>2
    <3> QED
      BY <3>1 DEF ParseAt
  <2> QED
    BY <2>1, <2>2
<1>3. Parses # {}
  <2>1. [ok |-> TRUE, bytes |-> <<>>] \in Parses
    BY DEF Parses
  <2> QED
    BY <2>1
<1>4. \E f \in [D -> Parses] : f = [i \in D |-> F[i][f]]
  <2> HIDE DEF D, rank, F
  <2> QED
    BY <1>1, <1>2, <1>3, RankRecursion
<1>5. PICK f \in [D -> Parses] : f = [i \in D |-> F[i][f]]
  BY <1>4
<1>6. f = [i \in D |-> ParseAt(t, f, i)]
  BY <1>5
<1> QED
  BY <1>6 DEF ParseFrom

LEMMA ParsedType ==
    ASSUME NEW t \in Seq(Byte)
    PROVE  Parsed(t) \in Parses
<1> DEFINE D == 0..Len(t)
           rank == [i \in D |-> Len(t) - i]
           T == {i \in D : ParseFrom(t)[i] \in Parses}
<1>1. rank \in [D -> Nat] /\ 0 \in D
  OBVIOUS
<1>2. ASSUME NEW i \in D, \A j \in D : rank[j] < rank[i] => j \in T PROVE i \in T
  <2>1. \A j \in (i + 1)..Len(t) : ParseFrom(t)[j] \in Parses
    BY <1>2
  <2>2. ParseFrom(t)[i] = ParseAt(t, ParseFrom(t), i)
    BY ParseFromSolves
  <2> QED
    BY <2>1, <2>2, ParseAtType
<1>3. D \subseteq T
  <2>1. \A i \in D : (\A j \in D : rank[j] < rank[i] => j \in T) => i \in T
    BY <1>2
  <2> HIDE DEF T, rank, D
  <2> QED
    BY <1>1, <2>1, RankInduction
<1> QED
  BY <1>1, <1>3, ParsedIsParseFrom DEF T

LEMMA InnerType ==
    ASSUME NEW s \in Seq(Byte), WellFramed(s)
    PROVE  Inner(s) \in Seq(Byte)
<1>1. CASE HasBraces(s)
  <2>1. /\ 2 \in Int /\ Len(s) - 1 \in Int
        /\ \A i \in 2..(Len(s) - 1) : s[i] \in Byte
    <3>1. \A i \in 2..(Len(s) - 1) : i \in 1..Len(s)
      OBVIOUS
    <3> QED
      BY <3>1, ElementOfSeq
  <2>2. SubSeq(s, 2, Len(s) - 1) \in Seq(Byte)
    BY <2>1, SubSeqProperties
  <2> QED
    BY <1>1, <2>2 DEF Inner
<1>2. CASE ~HasBraces(s)
  BY <1>2 DEF Inner
<1> QED
  BY <1>1, <1>2

LEMMA UuidParseTypes == ASSUME UuidParse PROVE ResultInv'
<1>1. PICK u \in Uuids, s \in UuidTexts :
          call' = [name |-> "parse", uuid |-> u, text |-> s] /\ out' = vsc_uuid_parse(u, s)
  BY DEF UuidParse, Returns
<1>2. u \in [1..SIZE -> Byte] /\ s \in Seq(Byte)
  BY CallsAssumption
<1>3. out'.uuid \in [1..SIZE -> Byte]
  <2>1. CASE ~WellFramed(s)
    BY <1>1, <1>2, <2>1 DEF vsc_uuid_parse
  <2>2. CASE WellFramed(s)
    <3> DEFINE bytes == Parsed(Inner(s)).bytes
    <3>1. bytes \in Seq(Byte)
      BY <1>2, <2>2, InnerType, ParsedType DEF Parses
    <3>2. out'.uuid = [k \in 1..SIZE |-> IF k <= Len(bytes) THEN bytes[k] ELSE u[k]]
      BY <1>1, <2>2 DEF vsc_uuid_parse
    <3> HIDE DEF bytes
    <3>3. ASSUME NEW k \in 1..SIZE PROVE (IF k <= Len(bytes) THEN bytes[k] ELSE u[k]) \in Byte
      <4>1. u[k] \in Byte /\ k \in Nat /\ k >= 1
        BY <1>2 DEF SIZE
      <4>2. ASSUME k <= Len(bytes) PROVE bytes[k] \in Byte
        <5>1. k \in 1..Len(bytes)
          BY <3>1, <4>1, <4>2
        <5> QED
          BY <3>1, <5>1, ElementOfSeq
      <4> QED
        BY <4>1, <4>2
    <3> QED
      BY <3>2, <3>3
  <2> QED
    BY <2>1, <2>2
<1>4. call'.name = "parse"
  BY <1>1
<1> QED
  BY <1>3, <1>4 DEF ResultInv, PrintfLeft, FnullifyLeft, ParseType, PixelType, Is
-----------------------------------------------------------------------------
(* Colours                                                                 *)

Channels8 == [{"r", "g", "b", "a"} -> Byte]

LEMMA ExtendedRange ==
    ASSUME NEW c \in Int
    PROVE  C5_TO_C8(c) \in Byte /\ C6_TO_C8(c) \in Byte /\ C1_TO_C8(c) \in Byte
<1>1. c % 32 \in 0..31 /\ c % 64 \in 0..63 /\ c % 2 \in 0..1
  OBVIOUS
<1>2. ASSUME NEW d \in 0..31 PROVE 8 * d + (d \div 4) \in Byte
  BY DEF Byte
<1>3. ASSUME NEW d \in 0..63 PROVE 4 * d + (d \div 16) \in Byte
  BY DEF Byte
<1>4. ASSUME NEW d \in 0..1 PROVE d * 255 \in Byte
  BY DEF Byte
<1>5. C5_TO_C8(c) \in Byte
  BY <1>1, <1>2 DEF C5_TO_C8
<1>6. C6_TO_C8(c) \in Byte
  BY <1>1, <1>3 DEF C6_TO_C8
<1>7. C1_TO_C8(c) \in Byte
  BY <1>1, <1>4 DEF C1_TO_C8
<1> QED
  BY <1>5, <1>6, <1>7

LEMMA UnpackedTypes ==
    ASSUME NEW p \in Nat
    PROVE  /\ unpack_rgb565(p) \in Channels8 /\ unpack_argb1555(p) \in Channels8
           /\ unpack_xrgb1555(p) \in Channels8
<1>1. ASSUME NEW q \in Nat PROVE unpack_rgb565(q) \in Channels8 /\ unpack_argb1555(q) \in Channels8
  <2>1. /\ q \div 2048 \in Int /\ q \div 1024 \in Int /\ q \div 32 \in Int
        /\ q \div 32768 \in Int /\ q \in Int
    OBVIOUS
  <2>2. ASSUME NEW r \in Byte, NEW g \in Byte, NEW b \in Byte, NEW a \in Byte
        PROVE  Colour(r, g, b, a) \in Channels8
    BY DEF Colour, Channels8
  <2>3. 255 \in Byte
    BY DEF Byte
  <2>4. unpack_rgb565(q) \in Channels8
    <3>1. /\ C5_TO_C8(q \div 2048) \in Byte /\ C6_TO_C8(q \div 32) \in Byte
          /\ C5_TO_C8(q) \in Byte
      BY <2>1, ExtendedRange
    <3> QED
      BY <3>1, <2>2, <2>3 DEF unpack_rgb565
  <2>5. unpack_argb1555(q) \in Channels8
    <3>1. /\ C5_TO_C8(q \div 1024) \in Byte /\ C5_TO_C8(q \div 32) \in Byte
          /\ C5_TO_C8(q) \in Byte /\ C1_TO_C8(q \div 32768) \in Byte
      BY <2>1, ExtendedRange
    <3> QED
      BY <3>1, <2>2 DEF unpack_argb1555
  <2> QED
    BY <2>4, <2>5
<1>2. 32768 + (p % 32768) \in Nat
  OBVIOUS
<1> QED
  BY <1>1, <1>2 DEF unpack_xrgb1555

LEMMA RepackTypes == ASSUME Repack PROVE ResultInv'
<1>1. PICK p \in Pixels :
          /\ call' = [name |-> "pixel", pixel |-> p]
          /\ out' = [rgb565 |-> unpack_rgb565(p), argb1555 |-> unpack_argb1555(p),
                     xrgb1555 |-> unpack_xrgb1555(p)]
  BY DEF Repack, Returns
<1>2. p \in Nat
  BY CallsAssumption
<1>3. \A f \in DOMAIN out' : out'[f] \in Channels8
  BY <1>1, <1>2, UnpackedTypes
<1>4. call'.name = "pixel"
  BY <1>1
<1> QED
  BY <1>3, <1>4 DEF ResultInv, PrintfLeft, FnullifyLeft, ParseType, PixelType, Is, Channels8
-----------------------------------------------------------------------------
(* Joining                                                                 *)

\* What the recursive functions of Sum and Joined are.
LengthsAt(elems, g, k) == IF k = 0 THEN 0 ELSE g[k - 1] + Len(elems[k])
LengthsTo(elems) == CHOOSE f : f = [k \in 0..Len(elems) |-> LengthsAt(elems, f, k)]

JoinedAt(delim, elems, g, k) ==
    IF k = 0 THEN <<>>
    ELSE g[k - 1] \o elems[k] \o (IF k = Len(elems) THEN <<>> ELSE delim)
JoinedTo(delim, elems) == CHOOSE f : f = [k \in 0..Len(elems) |-> JoinedAt(delim, elems, f, k)]

LEMMA JoinsAreTheirLast ==
    ASSUME NEW delim, NEW elems
    PROVE  /\ Sum(elems) = LengthsTo(elems)[Len(elems)]
           /\ Joined(delim, elems) = JoinedTo(delim, elems)[Len(elems)]
BY DEF Sum, LengthsTo, LengthsAt, Joined, JoinedTo, JoinedAt

LEMMA UpTo ==
    ASSUME NEW n \in Nat, NEW T, 0 \in T, \A k \in 0..n : k < n /\ k \in T => k + 1 \in T
    PROVE  \A k \in 0..n : k \in T
<1> DEFINE D == 0..n
           id == [k \in D |-> k]
<1>1. id \in [D -> Nat]
  OBVIOUS
<1>2. ASSUME NEW k \in D, \A i \in D : id[i] < id[k] => i \in T PROVE k \in T
  <2>1. CASE k = 0
    BY <2>1
  <2>2. CASE k # 0
    <3>1. k - 1 \in D /\ id[k - 1] < id[k] /\ k - 1 < n /\ (k - 1) + 1 = k
      BY <2>2
    <3> QED
      BY <1>2, <3>1
  <2> QED
    BY <2>1, <2>2
<1>3. D \subseteq T
  <2>1. \A k \in D : (\A i \in D : id[i] < id[k] => i \in T) => k \in T
    BY <1>2
  <2> HIDE DEF id, D
  <2> QED
    BY <1>1, <2>1, RankInduction
<1> QED
  BY <1>3

\* A function on 0..n whose value at k is made of the one at k - 1 exists.
Upward(f, n, S, first, F) ==
    f \in [0..n -> S] /\ f[0] = first /\ \A k \in 1..n : f[k] = F[k][f[k - 1]]

LEMMA UpwardRecursion ==
    ASSUME NEW n \in Nat, NEW S, NEW first \in S, NEW F \in [1..n -> [S -> S]]
    PROVE  \E f : Upward(f, n, S, first, F)
<1> DEFINE D == 0..n
           id == [k \in D |-> k]
           G == [k \in D |-> [g \in [D -> S] |-> IF k = 0 THEN first ELSE F[k][g[k - 1]]]]
<1>1. id \in [D -> 0..n] /\ S # {}
  OBVIOUS
<1>2. Recursive(D, id, S, G)
  <2> SUFFICES ASSUME NEW k \in D, NEW g \in [D -> S]
               PROVE  /\ (IF k = 0 THEN first ELSE F[k][g[k - 1]]) \in S
                      /\ \A h \in [D -> S] :
                             (\A i \in D : i < k => g[i] = h[i])
                             => (IF k = 0 THEN first ELSE F[k][g[k - 1]])
                                = IF k = 0 THEN first ELSE F[k][h[k - 1]]
    BY DEF Recursive
  <2>1. k # 0 => k - 1 \in D /\ k - 1 < k /\ k \in 1..n
    OBVIOUS
  <2>2. k # 0 => g[k - 1] \in S
    BY <2>1
  <2> QED
    BY <2>1, <2>2
<1>3. PICK f \in [D -> S] : f = [k \in D |-> G[k][f]]
  <2> HIDE DEF D, id, G
  <2> QED
    BY <1>1, <1>2, RankRecursion
<1>4. f[0] = first /\ \A k \in 1..n : f[k] = F[k][f[k - 1]]
  <2>1. \A k \in D : f[k] = IF k = 0 THEN first ELSE F[k][f[k - 1]]
    BY <1>3
  <2>2. 0 \in D /\ \A k \in 1..n : k \in D /\ k # 0
    OBVIOUS
  <2> QED
    BY <2>1, <2>2
<1> QED
  BY <1>3, <1>4 DEF Upward

LEMMA LengthsToFacts ==
    ASSUME NEW C, NEW elems \in Seq(Seq(C))
    PROVE  /\ LengthsTo(elems)[0] = 0
           /\ \A k \in 1..Len(elems) :
                 LengthsTo(elems)[k] = LengthsTo(elems)[k - 1] + Len(elems[k])
           /\ \A k \in 0..Len(elems) : LengthsTo(elems)[k] \in Nat
<1> DEFINE n == Len(elems)
           F == [k \in 1..n |-> [x \in Nat |-> x + Len(elems[k])]]
           L == LengthsTo(elems)
<1>1. n \in Nat /\ \A k \in 1..n : Len(elems[k]) \in Nat
  <2>1. \A k \in 1..n : elems[k] \in Seq(C)
    BY ElementOfSeq
  <2> QED
    BY <2>1
<1>2. \A k \in 1..n : \A x \in Nat : F[k][x] = x + Len(elems[k]) /\ F[k][x] \in Nat
  BY <1>1
<1> HIDE DEF F
<1>3. PICK f : Upward(f, n, Nat, 0, F)
  <2>1. 0 \in Nat /\ n \in Nat /\ F \in [1..n -> [Nat -> Nat]]
    BY <1>1 DEF F
  <2> HIDE DEF n
  <2> QED
    BY <2>1, UpwardRecursion
<1>4. f = [k \in 0..n |-> LengthsAt(elems, f, k)]
  <2>1. ASSUME NEW k \in 0..n PROVE f[k] = LengthsAt(elems, f, k)
    <3>1. k # 0 => k - 1 \in 0..n /\ k \in 1..n
      BY <1>1
    <3>2. f[k] = IF k = 0 THEN 0 ELSE F[k][f[k - 1]]
      BY <1>3, <3>1 DEF Upward
    <3>3. k # 0 => f[k - 1] \in Nat
      BY <1>3, <3>1 DEF Upward
    <3> QED
      BY <1>2, <3>1, <3>2, <3>3 DEF LengthsAt
  <2> QED
    BY <2>1, <1>3 DEF Upward
<1>5. L = [k \in 0..n |-> LengthsAt(elems, L, k)]
  BY <1>4 DEF LengthsTo
<1> HIDE DEF L
<1>6. L[0] = 0 /\ \A k \in 1..n : L[k] = L[k - 1] + Len(elems[k])
  <2>1. L[0] = 0
    BY <1>1, <1>5 DEF LengthsAt
  <2>2. ASSUME NEW k \in 1..n PROVE L[k] = L[k - 1] + Len(elems[k])
    <3>1. k \in 0..n /\ k # 0
      BY <1>1
    <3>2. L[k] = LengthsAt(elems, L, k)
      BY <1>5, <3>1
    <3> QED
      BY <3>1, <3>2 DEF LengthsAt
  <2> QED
    BY <2>1, <2>2
<1>7. \A k \in 0..n : L[k] \in Nat
  <2> DEFINE T == {k \in 0..n : L[k] \in Nat}
  <2>1. 0 \in T /\ \A k \in 0..n : k < n /\ k \in T => k + 1 \in T
    <3>1. ASSUME NEW k \in 0..n, k < n, L[k] \in Nat PROVE k + 1 \in 0..n /\ L[k + 1] \in Nat
      <4>1. k + 1 \in 1..n /\ (k + 1) - 1 = k
        BY <1>1, <3>1
      <4>2. L[k + 1] = L[k] + Len(elems[k + 1]) /\ Len(elems[k + 1]) \in Nat
        BY <1>1, <1>6, <4>1
      <4> QED
        BY <3>1, <4>1, <4>2
    <3> QED
      BY <1>1, <1>6, <3>1
  <2>2. \A k \in 0..n : k \in T
    <3> HIDE DEF T
    <3> QED
      BY <1>1, <2>1, UpTo
  <2> QED
    BY <2>2
<1> QED
  BY <1>6, <1>7 DEF L

LEMMA JoinedToFacts ==
    ASSUME NEW C, NEW delim \in Seq(C), NEW elems \in Seq(Seq(C))
    PROVE  /\ JoinedTo(delim, elems)[0] = <<>>
           /\ \A k \in 1..Len(elems) :
                 JoinedTo(delim, elems)[k]
                 = JoinedTo(delim, elems)[k - 1] \o elems[k]
                   \o (IF k = Len(elems) THEN <<>> ELSE delim)
           /\ \A k \in 0..Len(elems) : JoinedTo(delim, elems)[k] \in Seq(C)
<1> DEFINE n == Len(elems)
           tail(k) == IF k = n THEN <<>> ELSE delim
           F == [k \in 1..n |-> [x \in Seq(C) |-> x \o elems[k] \o tail(k)]]
           J == JoinedTo(delim, elems)
<1>1. n \in Nat /\ \A k \in 1..n : elems[k] \in Seq(C) /\ tail(k) \in Seq(C)
  BY ElementOfSeq
<1>2. \A k \in 1..n : \A x \in Seq(C) : F[k][x] = x \o elems[k] \o tail(k) /\ F[k][x] \in Seq(C)
  <2> SUFFICES ASSUME NEW k \in 1..n, NEW x \in Seq(C)
               PROVE  F[k][x] = x \o elems[k] \o tail(k) /\ F[k][x] \in Seq(C)
    OBVIOUS
  <2>1. F[k][x] = x \o elems[k] \o tail(k)
    OBVIOUS
  <2>2. x \o elems[k] \in Seq(C) /\ tail(k) \in Seq(C)
    BY <1>1, ConcatProperties
  <2> HIDE DEF tail, F
  <2> QED
    BY <2>1, <2>2, ConcatProperties
<1> HIDE DEF F
<1>3. PICK f : Upward(f, n, Seq(C), <<>>, F)
  <2>1. F \in [1..n -> [Seq(C) -> Seq(C)]]
    <3>1. \A k \in 1..n : \A x \in Seq(C) : x \o elems[k] \o tail(k) \in Seq(C)
      BY <1>2
    <3> HIDE DEF n, tail
    <3> QED
      BY <3>1 DEF F
  <2>2. <<>> \in Seq(C) /\ n \in Nat
    BY <1>1
  <2> HIDE DEF n
  <2> QED
    BY <2>1, <2>2, UpwardRecursion
<1>4. f = [k \in 0..n |-> JoinedAt(delim, elems, f, k)]
  <2>1. ASSUME NEW k \in 0..n PROVE f[k] = JoinedAt(delim, elems, f, k)
    <3>1. k # 0 => k - 1 \in 0..n /\ k \in 1..n
      BY <1>1
    <3>2. f[k] = IF k = 0 THEN <<>> ELSE F[k][f[k - 1]]
      BY <1>3, <3>1 DEF Upward
    <3>3. k # 0 => f[k - 1] \in Seq(C)
      BY <1>3, <3>1 DEF Upward
    <3> QED
      BY <1>2, <3>1, <3>2, <3>3 DEF JoinedAt
  <2> QED
    BY <2>1, <1>3 DEF Upward
<1>5. J = [k \in 0..n |-> JoinedAt(delim, elems, J, k)]
  BY <1>4 DEF JoinedTo
<1> HIDE DEF J
<1>6. J[0] = <<>> /\ \A k \in 1..n : J[k] = J[k - 1] \o elems[k] \o tail(k)
  <2>1. J[0] = <<>>
    BY <1>1, <1>5 DEF JoinedAt
  <2>2. ASSUME NEW k \in 1..n PROVE J[k] = J[k - 1] \o elems[k] \o tail(k)
    <3>1. k \in 0..n /\ k # 0
      BY <1>1
    <3>2. J[k] = JoinedAt(delim, elems, J, k)
      BY <1>5, <3>1
    <3> QED
      BY <3>1, <3>2 DEF JoinedAt
  <2> QED
    BY <2>1, <2>2
<1>7. \A k \in 0..n : J[k] \in Seq(C)
  <2> DEFINE T == {k \in 0..n : J[k] \in Seq(C)}
  <2>1. ASSUME NEW k \in 0..n, k < n, J[k] \in Seq(C) PROVE k + 1 \in 0..n /\ J[k + 1] \in Seq(C)
    <3>1. k + 1 \in 1..n /\ (k + 1) - 1 = k /\ k + 1 \in 0..n
      BY <1>1, <2>1
    <3>2. J[k + 1] = J[k] \o elems[k + 1] \o tail(k + 1)
      BY <1>6, <3>1
    <3>3. elems[k + 1] \in Seq(C) /\ tail(k + 1) \in Seq(C)
      BY <1>1, <3>1
    <3> HIDE DEF tail
    <3>4. J[k] \o elems[k + 1] \in Seq(C)
      BY <2>1, <3>3
    <3> QED
      BY <3>1, <3>2, <3>3, <3>4
  <2>2. 0 \in T
    <3>1. 0 \in 0..n /\ J[0] \in Seq(C)
      BY <1>1, <1>6
    <3> QED
      BY <3>1
  <2>4. \A k \in 0..n : k < n /\ k \in T => k + 1 \in T
    <3> HIDE DEF n
    <3> QED
      BY <2>1
  <2>3. \A k \in 0..n : k \in T
    <3> HIDE DEF T, n
    <3> QED
      BY <1>1, <2>2, <2>4, UpTo
  <2> QED
    BY <2>3
<1> QED
  BY <1>6, <1>7 DEF J

\* A join fills the buffer it measured: nreq is the length of what is joined, and one.
LEMMA JoinedLength ==
    ASSUME NEW C, NEW delim \in Seq(C), NEW elems \in Seq(Seq(C))
    PROVE  /\ Joined(delim, elems) \in Seq(C)
           /\ nreq(delim, elems) = Len(Joined(delim, elems)) + 1
<1> DEFINE n == Len(elems)
           L == LengthsTo(elems)
           J == JoinedTo(delim, elems)
           between(k) == IF k < n \/ k = 0 THEN k * Len(delim) ELSE (k - 1) * Len(delim)
           T == {k \in 0..n : Len(J[k]) = L[k] + between(k)}
<1>1. n \in Nat /\ Len(delim) \in Nat
  OBVIOUS
<1>2. /\ L[0] = 0 /\ \A k \in 1..n : L[k] = L[k - 1] + Len(elems[k])
      /\ \A k \in 0..n : L[k] \in Nat
  BY LengthsToFacts
<1>3. J[0] = <<>> /\ \A k \in 0..n : J[k] \in Seq(C)
  BY JoinedToFacts
<1>4. \A k \in 1..n : J[k] = J[k - 1] \o elems[k] \o (IF k = n THEN <<>> ELSE delim)
  BY JoinedToFacts
<1>5. \A k \in 1..n : elems[k] \in Seq(C)
  BY ElementOfSeq
<1>6. n \in Nat /\ Sum(elems) = L[n] /\ Joined(delim, elems) = J[n]
  BY JoinsAreTheirLast
<1> HIDE DEF J, L
<1>7. 0 \in T
  BY <1>1, <1>2, <1>3
<1>8. ASSUME NEW k \in 0..n, k < n, Len(J[k]) = L[k] + between(k)
      PROVE  k + 1 \in 0..n /\ Len(J[k + 1]) = L[k + 1] + between(k + 1)
  <2> DEFINE i == k + 1
             tail == IF i = n THEN <<>> ELSE delim
             gap == Len(delim)
  <2>1. i \in 1..n /\ i - 1 = k /\ i # 0 /\ i \in 0..n /\ k \in Nat
    BY <1>1, <1>8
  <2>2. J[i] = J[k] \o elems[i] \o tail /\ L[i] = L[k] + Len(elems[i])
    BY <2>1, <1>2, <1>4
  <2>3. J[k] \in Seq(C) /\ elems[i] \in Seq(C) /\ tail \in Seq(C)
    BY <2>1, <1>3, <1>5
  <2>4. Len(tail) = IF i = n THEN 0 ELSE gap
    OBVIOUS
  <2>5. between(k) = k * gap /\ between(i) = (IF i = n THEN k * gap ELSE i * gap)
    BY <1>8, <2>1
  <2>6. L[k] \in Nat /\ gap \in Nat /\ Len(elems[i]) \in Nat
    BY <1>1, <1>2, <2>3
  <2> HIDE DEF tail, gap, between
  <2>7. Len(J[i]) = Len(J[k]) + Len(elems[i]) + Len(tail)
    <3>1. J[k] \o elems[i] \in Seq(C) /\ Len(J[k] \o elems[i]) = Len(J[k]) + Len(elems[i])
      BY <2>3, ConcatProperties
    <3> QED
      BY <2>2, <2>3, <3>1, ConcatProperties
  <2>8. i * gap = k * gap + gap /\ k * gap \in Nat
    BY <2>1, <2>6
  <2>9. Len(J[i]) = L[k] + k * gap + Len(elems[i]) + Len(tail)
    BY <2>7, <2>5, <1>8
  <2>10. Len(J[i]) = L[i] + between(i)
    <3> DEFINE a == k * gap
               b == i * gap
    <3>1. a \in Nat /\ b = a + gap
      BY <2>8
    <3>2. Len(J[i]) = L[k] + a + Len(elems[i]) + Len(tail)
      BY <2>9
    <3>3. between(i) = IF i = n THEN a ELSE b
      BY <2>5
    <3> HIDE DEF a, b, i
    <3> QED
      BY <2>2, <2>4, <2>6, <3>1, <3>2, <3>3
  <2> QED
    BY <2>1, <2>10
<1>9. \A k \in 0..n : k \in T
  <2>1. \A k \in 0..n : k < n /\ k \in T => k + 1 \in T
    BY <1>8
  <2> HIDE DEF T, n
  <2> QED
    BY <1>6, <1>7, <2>1, UpTo
<1>10. n \in 0..n /\ Len(J[n]) = L[n] + between(n)
  BY <1>1, <1>9
<1>11. between(n) = (IF n = 0 THEN 0 ELSE (n - 1) * Len(delim)) /\ (elems = <<>> <=> n = 0)
  BY <1>1
<1>12. nreq(delim, elems) = 1 + L[n] + between(n)
  BY <1>6, <1>11 DEF nreq
<1>13. J[n] \in Seq(C)
  BY <1>3, <1>10
<1> QED
  <2>1. L[n] \in Nat /\ Len(J[n]) \in Nat /\ Len(J[n]) = L[n] + between(n)
    BY <1>2, <1>10, <1>13
  <2>2. between(n) \in Int
    BY <1>1
  <2> HIDE DEF between, n
  <2> QED
    BY <1>6, <1>12, <1>13, <2>1, <2>2

LEMMA JoinConstants ==
    /\ Texts \subseteq Seq(Characters) /\ Delim \in Characters /\ Null \notin Seq(Characters)
    /\ \A j \in Joins : /\ j.delim \in Seq(Characters) \cup {Null}
                        /\ j.elems \in Seq(Seq(Characters) \cup {Null})
BY CallsAssumption

\* A null pointer among the elements, or for the delimiter, is all that keeps vsc_strnjoin
\* from a string; the string fills its buffer.
LEMMA StrnjoinFacts ==
    ASSUME NEW delim \in Seq(Characters) \cup {Null},
           NEW elems \in Seq(Seq(Characters) \cup {Null})
    PROVE  LET r == vsc_strnjoin(delim, elems)
           IN  /\ r.text = Null <=> (delim = Null \/ \E k \in 1..Len(elems) : elems[k] = Null)
               /\ r.text # Null => r.room = Len(r.text) + 1
<1> DEFINE null == delim = Null \/ \E k \in 1..Len(elems) : elems[k] = Null
           r == vsc_strnjoin(delim, elems)
<1>1. CASE null
  BY <1>1 DEF vsc_strnjoin, NoString
<1>2. CASE ~null
  <2>1. \A k \in 1..Len(elems) : elems[k] \in Seq(Characters)
    <3>1. \A k \in 1..Len(elems) : elems[k] \in Seq(Characters) \cup {Null}
      BY ElementOfSeq
    <3> QED
      BY <1>2, <3>1
  <2>2. elems \in Seq(Seq(Characters)) /\ delim \in Seq(Characters)
    <3>1. elems \in [1..Len(elems) -> Seq(Characters)] /\ Len(elems) \in Nat
      BY <2>1
    <3> QED
      BY <1>2, <3>1
  <2>3. Joined(delim, elems) \in Seq(Characters) /\ nreq(delim, elems) = Len(Joined(delim, elems)) + 1
    BY <2>2, JoinedLength
  <2>4. r.text = Joined(delim, elems) /\ r.room = nreq(delim, elems)
    BY <1>2 DEF vsc_strnjoin
  <2> QED
    BY <1>2, <2>3, <2>4, JoinConstants
<1> QED
  BY <1>1, <1>2

\* vsc_strjoin takes the elements before the first null pointer.
LEMMA StrjoinFacts ==
    ASSUME NEW delim \in Seq(Characters) \cup {Null},
           NEW elems \in Seq(Seq(Characters) \cup {Null})
    PROVE  LET n == vsc_strnjoin(delim, elems)
               v == vsc_strjoin(delim, elems)
           IN  /\ n.text # Null => v = n
               /\ v.text # Null => v.room = Len(v.text) + 1
               /\ v.text = Null <=> delim = Null
<1> DEFINE v == vsc_strjoin(delim, elems)
           nulls == {k \in 1..Len(elems) : elems[k] = Null}
           n == IF nulls = {} THEN Len(elems)
                ELSE (CHOOSE k \in nulls : \A j \in nulls : k <= j) - 1
<1>1. Len(elems) \in Nat
  OBVIOUS
<1>2. n \in 0..Len(elems) /\ \A k \in 1..n : elems[k] # Null
  <2>1. CASE nulls = {}
    BY <1>1, <2>1
  <2>2. CASE nulls # {}
    <3>1. nulls \in SUBSET Nat
      OBVIOUS
    <3>2. \E k \in nulls : \A j \in nulls : k <= j
      BY <2>2, <3>1, LeastNat
    <3>3. PICK k \in nulls : k = (CHOOSE i \in nulls : \A j \in nulls : i <= j) /\ \A j \in nulls : k <= j
      BY <3>2
    <3>4. n = k - 1 /\ k \in 1..Len(elems)
      BY <2>2, <3>3
    <3>5. \A i \in 1..n : i \in 1..Len(elems) /\ ~(k <= i)
      BY <1>1, <3>4
    <3>6. n \in 0..Len(elems)
      BY <1>1, <3>4
    <3>7. \A i \in 1..n : elems[i] # Null
      <4> HIDE DEF n
      <4> QED
        BY <3>3, <3>5
    <3> QED
      BY <3>6, <3>7
  <2> QED
    BY <2>1, <2>2
<1>3. delim # Null => v = vsc_strnjoin(delim, SubSeq(elems, 1, n))
  BY DEF vsc_strjoin
<1>4. delim = Null => v.text = Null
  BY DEF vsc_strjoin, NoString
<1>5. nulls = {} => n = Len(elems)
  OBVIOUS
<1>6. nulls # {} => vsc_strnjoin(delim, elems).text = Null
  BY StrnjoinFacts
<1> HIDE DEF n, v
<1>7. /\ SubSeq(elems, 1, n) \in Seq(Seq(Characters) \cup {Null})
      /\ \A k \in 1..Len(SubSeq(elems, 1, n)) : SubSeq(elems, 1, n)[k] # Null
  <2>1. 1 \in Int /\ n \in Int /\ \A k \in 1..n : elems[k] \in Seq(Characters) \cup {Null}
    <3>1. \A k \in 1..n : k \in 1..Len(elems)
      BY <1>1, <1>2
    <3> QED
      BY <1>2, <3>1, ElementOfSeq
  <2>2. /\ SubSeq(elems, 1, n) \in Seq(Seq(Characters) \cup {Null})
        /\ Len(SubSeq(elems, 1, n)) = IF 1 <= n THEN n - 1 + 1 ELSE 0
        /\ \A i \in 1..(n - 1 + 1) : SubSeq(elems, 1, n)[i] = elems[1 + i - 1]
    BY <2>1, SubSeqProperties
  <2>3. \A i \in 1..n : i \in 1..(n - 1 + 1) /\ 1 + i - 1 = i
    BY <1>2
  <2>4. Len(SubSeq(elems, 1, n)) = n
    BY <1>2, <2>2
  <2> QED
    BY <1>2, <2>2, <2>3, <2>4
<1>8. nulls = {} => SubSeq(elems, 1, n) = elems
  BY <1>5, SubSeqFull
<1>9. delim # Null => v.text # Null /\ v.room = Len(v.text) + 1
  BY <1>3, <1>7, StrnjoinFacts
<1>10. vsc_strnjoin(delim, elems).text # Null => delim # Null /\ nulls = {}
  BY <1>6, StrnjoinFacts
<1> QED
  BY <1>3, <1>4, <1>8, <1>9, <1>10 DEF v

-----------------------------------------------------------------------------
(* Splitting                                                               *)

\* The pieces of vsc_for_each_delim from a start on: those of the loop, and the empty one
\* after a delimiter at the end.
Trail(t, d) == IF t # <<>> /\ t[Len(t)] = d THEN <<<<>>>> ELSE <<>>
After(t, d, s) == Rest(t, d, s) \o Trail(t, d)
DelimsTo(t, d, n) == {k \in 1..n : t[k] = d}

\* The piece from s to c, and the pieces after it.
PieceAndRest(C, t, d, s, c, piece, rest) ==
    /\ piece \in Seq(C) /\ c \in s..(Len(t) + 1)
    /\ After(t, d, s) = <<piece>> \o rest /\ rest \in Seq(Seq(C))
    /\ c = Len(t) + 1 => rest = <<>>
    /\ c <= Len(t) => rest # <<>> /\ t[c] = d
    /\ \A b \in s..(c - 1) : t[b] # d

LEMMA AfterFacts ==
    ASSUME NEW C, NEW t \in Seq(C), NEW d \in C, NEW s \in 1..Len(t)
    PROVE  PieceAndRest(C, t, d, s, FirstDelim(t, d, s), SubSeq(t, s, FirstDelim(t, d, s) - 1),
                        After(t, d, FirstDelim(t, d, s) + 1))
<1> DEFINE c == FirstDelim(t, d, s)
           piece == SubSeq(t, s, c - 1)
<1>1. /\ Len(t) \in Nat /\ c \in s..(Len(t) + 1) /\ (c = Len(t) + 1 \/ t[c] = d)
      /\ \A b \in s..(c - 1) : t[b] # d
  BY FirstDelimFacts
<1>2. piece \in Seq(C)
  BY PieceType
<1>3. /\ Rest(t, d, s) = <<piece>> \o Rest(t, d, c + 1)
      /\ Rest(t, d, c + 1) \in Seq(Seq(C))
  BY RestFacts
<1>4. Trail(t, d) \in Seq(Seq(C)) /\ <<piece>> \in Seq(Seq(C)) /\ t # <<>>
  BY <1>2 DEF Trail
<1>5. c < Len(t) => Rest(t, d, c + 1) # <<>>
  <2> SUFFICES ASSUME c < Len(t) PROVE Rest(t, d, c + 1) # <<>>
    OBVIOUS
  <2>1. c + 1 \in 1..Len(t)
    BY <1>1
  <2>2. PICK i \in 1..Len(t) : i = c + 1
    BY <2>1
  <2> DEFINE p == SubSeq(t, i, FirstDelim(t, d, i) - 1)
             more == Rest(t, d, FirstDelim(t, d, i) + 1)
  <2>3. Rest(t, d, i) = <<p>> \o more /\ more \in Seq(Seq(C)) /\ p \in Seq(C)
    BY RestFacts, PieceType
  <2> HIDE DEF p, more
  <2>4. <<p>> \in Seq(Seq(C))
    BY <2>3
  <2>5. Len(<<p>> \o more) = 1 + Len(more) /\ Len(more) \in Nat
    BY <2>3, <2>4, ConcatProperties
  <2>6. Len(Rest(t, d, i)) # 0
    BY <2>3, <2>5
  <2> QED
    BY <2>2, <2>6
<1> HIDE DEF piece, c
<1>6. After(t, d, s) = <<piece>> \o After(t, d, c + 1) /\ After(t, d, c + 1) \in Seq(Seq(C))
  <2>1. After(t, d, c + 1) \in Seq(Seq(C))
    BY <1>3, <1>4, ConcatProperties DEF After
  <2>2. (<<piece>> \o Rest(t, d, c + 1)) \o Trail(t, d)
        = <<piece>> \o (Rest(t, d, c + 1) \o Trail(t, d))
    BY <1>3, <1>4, ConcatAssociative
  <2> QED
    BY <1>3, <2>1, <2>2 DEF After
<1>7. c = Len(t) + 1 => After(t, d, c + 1) = <<>>
  <2> SUFFICES ASSUME c = Len(t) + 1 PROVE After(t, d, c + 1) = <<>>
    OBVIOUS
  <2>1. Len(t) \in s..(c - 1)
    BY <1>1
  <2>2. Trail(t, d) = <<>>
    BY <1>1, <2>1 DEF Trail
  <2>3. Rest(t, d, c + 1) = <<>>
    BY <1>1 DEF Rest
  <2> QED
    BY <2>2, <2>3 DEF After
<1>8. c <= Len(t) => After(t, d, c + 1) # <<>> /\ t[c] = d
  <2> SUFFICES ASSUME c <= Len(t) PROVE After(t, d, c + 1) # <<>> /\ t[c] = d
    OBVIOUS
  <2>1. t[c] = d
    BY <1>1
  <2>2. CASE c = Len(t)
    <3>1. Trail(t, d) = <<<<>>>>
      BY <1>4, <2>1, <2>2 DEF Trail
    <3>2. Trail(t, d) # <<>>
      BY <3>1
    <3> QED
      BY <1>3, <1>4, <2>1, <3>2, ConcatEqualIffEmpty DEF After
  <2>3. CASE c < Len(t)
    BY <1>3, <1>4, <1>5, <2>1, <2>3, ConcatEqualIffEmpty DEF After
  <2> QED
    BY <1>1, <2>2, <2>3
<1> QED
  <2>1. PieceAndRest(C, t, d, s, c, piece, After(t, d, c + 1))
    BY <1>1, <1>2, <1>6, <1>7, <1>8 DEF PieceAndRest
  <2> QED
    BY <2>1 DEF piece, c

LEMMA DelimsToFacts ==
    ASSUME NEW t, NEW d, NEW m \in Nat, NEW n \in Nat, m <= n, \A b \in (m + 1)..n : t[b] # d
    PROVE  DelimsTo(t, d, m) = DelimsTo(t, d, n)
BY DEF DelimsTo

LEMMA OneMoreDelim ==
    ASSUME NEW t, NEW d, NEW m \in Nat, t[m + 1] = d
    PROVE  /\ IsFiniteSet(DelimsTo(t, d, m))
           /\ Cardinality(DelimsTo(t, d, m + 1)) = Cardinality(DelimsTo(t, d, m)) + 1
<1>1. IsFiniteSet(DelimsTo(t, d, m))
  <2>1. IsFiniteSet(1..m) /\ DelimsTo(t, d, m) \subseteq 1..m
    BY FS_Interval DEF DelimsTo
  <2> QED
    BY <2>1, FS_Subset
<1>2. DelimsTo(t, d, m + 1) = DelimsTo(t, d, m) \cup {m + 1} /\ m + 1 \notin DelimsTo(t, d, m)
  BY DEF DelimsTo
<1> QED
  BY <1>1, <1>2, FS_AddElement

\* The first k pieces of a text, each with a delimiter behind it, are what is before a
\* start, and the other pieces are those from there on.
JoinedUpTo(t, d, c, k, s) ==
    /\ JoinedTo(<<d>>, c)[k] = SubSeq(t, 1, s - 1)
    /\ Cardinality(DelimsTo(t, d, s - 1)) = k
    /\ Len(c) = k + Len(After(t, d, s))
    /\ \A j \in 1..Len(After(t, d, s)) : c[k + j] = After(t, d, s)[j]

LEMMA SplitType ==
    ASSUME NEW C, NEW t \in Seq(C), NEW d \in C
    PROVE  /\ vsc_for_each_delim(t, d) = After(t, d, 1)
           /\ vsc_for_each_delim(t, d) \in Seq(Seq(C))
<1>1. Trail(t, d) \in Seq(Seq(C))
  BY DEF Trail
<1>2. LoopPieces(t, d) = Rest(t, d, 1) /\ LoopPieces(t, d) \in Seq(Seq(C))
  BY LoopPiecesIsRest
<1>3. vsc_for_each_delim(t, d) = Rest(t, d, 1) \o Trail(t, d)
  BY <1>2 DEF vsc_for_each_delim, Trail
<1> QED
  BY <1>1, <1>2, <1>3, ConcatProperties DEF After

LEMMA AfterType ==
    ASSUME NEW C, NEW t \in Seq(C), NEW d \in C, NEW s \in 1..(Len(t) + 1)
    PROVE  /\ After(t, d, s) \in Seq(Seq(C))
           /\ s = Len(t) + 1 => After(t, d, s) = Trail(t, d)
<1>1. Trail(t, d) \in Seq(Seq(C)) /\ Len(t) \in Nat
  BY DEF Trail
<1>2. CASE s = Len(t) + 1
  <2>1. Rest(t, d, s) = <<>>
    BY <1>1, <1>2 DEF Rest
  <2> QED
    BY <1>1, <2>1, ConcatEmptySeq DEF After
<1>3. CASE s <= Len(t)
  <2>1. s \in 1..Len(t)
    BY <1>3
  <2>2. Rest(t, d, s) \in Seq(Seq(C))
    BY <2>1, RestFacts
  <2> QED
    BY <1>1, <1>3, <2>2, ConcatProperties DEF After
<1> QED
  BY <1>1, <1>2, <1>3

LEMMA OneMorePiece ==
    ASSUME NEW C, NEW t \in Seq(C), NEW d \in C, NEW c \in Seq(Seq(C)),
           NEW k \in Nat, NEW s \in 1..(Len(t) + 1), k + 1 < Len(c), JoinedUpTo(t, d, c, k, s)
    PROVE  \E e \in 1..(Len(t) + 1) : JoinedUpTo(t, d, c, k + 1, e)
<1> DEFINE n == FirstDelim(t, d, s)
           piece == SubSeq(t, s, n - 1)
           rest == After(t, d, n + 1)
           J == JoinedTo(<<d>>, c)
<1>1. Len(t) \in Nat /\ Len(c) \in Nat
  OBVIOUS
<1>2. s <= Len(t)
  <2> SUFFICES ASSUME s = Len(t) + 1 PROVE FALSE
    BY <1>1
  <2>1. After(t, d, s) = Trail(t, d)
    BY AfterType
  <2>2. Len(Trail(t, d)) <= 1
    BY DEF Trail
  <2> QED
    BY <1>1, <2>1, <2>2 DEF JoinedUpTo
<1>3. /\ piece \in Seq(C) /\ n \in s..(Len(t) + 1)
      /\ After(t, d, s) = <<piece>> \o rest /\ rest \in Seq(Seq(C))
      /\ n = Len(t) + 1 => rest = <<>>
      /\ n <= Len(t) => t[n] = d
      /\ \A b \in s..(n - 1) : t[b] # d
  <2>1. s \in 1..Len(t)
    BY <1>2
  <2>2. PieceAndRest(C, t, d, s, n, piece, rest)
    BY <2>1, AfterFacts
  <2> HIDE DEF n, piece, rest, J
  <2> QED
    BY <2>2 DEF PieceAndRest
<1> HIDE DEF n, piece, rest, J
<1>4. /\ Len(After(t, d, s)) = 1 + Len(rest) /\ Len(rest) \in Nat
      /\ After(t, d, s)[1] = piece
      /\ \A j \in 1..Len(rest) : After(t, d, s)[1 + j] = rest[j]
  <2>1. <<piece>> \in Seq(Seq(C)) /\ Len(<<piece>>) = 1 /\ <<piece>>[1] = piece
    BY <1>3
  <2>2. /\ Len(<<piece>> \o rest) = 1 + Len(rest) /\ Len(rest) \in Nat
        /\ \A i \in 1..(1 + Len(rest)) :
               (<<piece>> \o rest)[i] = IF i <= 1 THEN <<piece>>[i] ELSE rest[i - 1]
    BY <1>3, <2>1, ConcatProperties
  <2>3. \A j \in 1..Len(rest) : 1 + j \in 1..(1 + Len(rest)) /\ ~(1 + j <= 1) /\ (1 + j) - 1 = j
    BY <2>2
  <2> QED
    BY <1>3, <2>1, <2>2, <2>3
<1>5. Len(c) = k + 1 + Len(rest) /\ c[k + 1] = piece
  BY <1>1, <1>4 DEF JoinedUpTo
<1>6. n <= Len(t)
  <2>1. rest # <<>>
    <3>1. Len(rest) # 0 /\ Len(<<>>) = 0
      BY <1>4, <1>5
    <3> QED
      BY <1>3, <3>1
  <2>2. n # Len(t) + 1
    BY <1>3, <2>1
  <2>3. n \in s..(Len(t) + 1)
    BY <1>3
  <2>4. PICK m \in Nat : m = Len(t)
    BY <1>1
  <2> QED
    BY <2>2, <2>3, <2>4
<1>7. \A j \in 1..Len(rest) : c[(k + 1) + j] = rest[j]
  <2> SUFFICES ASSUME NEW j \in 1..Len(rest) PROVE c[(k + 1) + j] = rest[j]
    OBVIOUS
  <2>1. 1 + j \in 1..Len(After(t, d, s)) /\ k + (1 + j) = (k + 1) + j
    BY <1>4
  <2> QED
    BY <1>4, <2>1 DEF JoinedUpTo
<1>8. J[k + 1] = SubSeq(t, 1, n)
  <2>1. k + 1 \in 1..Len(c) /\ (k + 1) - 1 = k /\ k + 1 # Len(c) /\ <<d>> \in Seq(C)
    BY <1>1
  <2>2. J[k + 1] = J[k] \o c[k + 1] \o <<d>>
    <3>1. J[k + 1] = J[(k + 1) - 1] \o c[k + 1] \o (IF k + 1 = Len(c) THEN <<>> ELSE <<d>>)
      BY <2>1, JoinedToFacts DEF J
    <3> QED
      BY <2>1, <3>1
  <2>3. J[k] \o c[k + 1] = SubSeq(t, 1, n - 1)
    <3>1. s - 1 \in 0..Len(t) /\ n - 1 \in (s - 1)..Len(t) /\ (s - 1) + 1 = s /\ 1 \in 1..(Len(t) + 1)
          /\ s - 1 \in (1 - 1)..Len(t)
      BY <1>1, <1>3, <1>6
    <3>2. SubSeq(t, 1, s - 1) \o SubSeq(t, (s - 1) + 1, n - 1) = SubSeq(t, 1, n - 1)
      BY <3>1, ConcatAdjacentSubSeq
    <3> QED
      BY <3>1, <3>2, <1>5 DEF JoinedUpTo, J, piece
  <2>4. SubSeq(t, 1, n) = SubSeq(t, 1, n - 1) \o <<t[n]>>
    <3>1. 1 \in 1..Len(t) /\ n \in 1..Len(t)
      BY <1>1, <1>3, <1>6
    <3> QED
      BY <3>1, SubSeqRecursiveSecond
  <2> QED
    BY <1>3, <1>6, <2>2, <2>3, <2>4
<1>9. Cardinality(DelimsTo(t, d, n)) = k + 1
  <2>1. DelimsTo(t, d, s - 1) = DelimsTo(t, d, n - 1)
    <3>1. s - 1 \in Nat /\ n - 1 \in Nat /\ s - 1 <= n - 1 /\ (s - 1) + 1 = s
      BY <1>3
    <3> QED
      BY <1>3, <3>1, DelimsToFacts
  <2>2. n - 1 \in Nat /\ (n - 1) + 1 = n /\ t[n] = d
    BY <1>3, <1>6
  <2>3. Cardinality(DelimsTo(t, d, (n - 1) + 1)) = Cardinality(DelimsTo(t, d, n - 1)) + 1
    BY <2>2, OneMoreDelim
  <2> QED
    BY <2>1, <2>2, <2>3 DEF JoinedUpTo
<1>10. n + 1 \in 1..(Len(t) + 1) /\ (n + 1) - 1 = n
  BY <1>1, <1>3, <1>6
<1>11. JoinedUpTo(t, d, c, k + 1, n + 1)
  BY <1>5, <1>7, <1>8, <1>9, <1>10 DEF JoinedUpTo, J, rest
<1> QED
  BY <1>10, <1>11

LEMMA LastPiece ==
    ASSUME NEW C, NEW t \in Seq(C), NEW d \in C, NEW c \in Seq(Seq(C)),
           NEW k \in Nat, NEW s \in 1..(Len(t) + 1), k + 1 = Len(c), JoinedUpTo(t, d, c, k, s)
    PROVE  /\ Joined(<<d>>, c) = t
           /\ Cardinality(DelimsTo(t, d, Len(t))) + 1 = Len(c)
           /\ c[Len(c)] = <<>> => Trail(t, d) # <<>>
<1> DEFINE J == JoinedTo(<<d>>, c)
           rest == After(t, d, s)
<1>1. Len(t) \in Nat /\ Len(c) \in Nat /\ <<d>> \in Seq(C) /\ k + 1 \in 1..Len(c) /\ (k + 1) - 1 = k
  BY ConcatProperties
<1>2. Joined(<<d>>, c) = J[k + 1] /\ J[k + 1] = J[k] \o c[k + 1] \o <<>> /\ J[k + 1] \in Seq(C)
      /\ J[k] \in Seq(C)
  <2>1. k + 1 \in 0..Len(c) /\ k \in 0..Len(c)
    BY <1>1
  <2> HIDE DEF J
  <2>2. Joined(<<d>>, c) = J[k + 1]
    BY JoinsAreTheirLast DEF J
  <2>3. J[k + 1] = J[(k + 1) - 1] \o c[k + 1] \o (IF k + 1 = Len(c) THEN <<>> ELSE <<d>>)
    BY <1>1, JoinedToFacts DEF J
  <2>4. J[k + 1] \in Seq(C) /\ J[k] \in Seq(C)
    BY <1>1, <2>1, JoinedToFacts DEF J
  <2> QED
    BY <1>1, <2>2, <2>3, <2>4
<1>3. Len(rest) = 1 /\ c[k + 1] = rest[1]
  <2>1. Len(rest) \in Nat
    BY AfterType
  <2>2. /\ Len(c) = k + Len(rest)
        /\ \A j \in 1..Len(rest) : c[k + j] = rest[j]
    BY DEF JoinedUpTo
  <2> HIDE DEF rest, J
  <2>3. Len(rest) = 1
    <3>1. PICK m \in Nat : m = Len(rest)
      BY <2>1
    <3>2. k + 1 = k + m
      BY <2>2, <3>1
    <3> QED
      BY <3>1, <3>2
  <2> QED
    BY <2>2, <2>3
<1>4. c[k + 1] \in Seq(C)
  BY <1>1, ElementOfSeq
<1>5. Joined(<<d>>, c) = J[k] \o c[k + 1]
  <2> HIDE DEF J
  <2>1. J[k] \o c[k + 1] \in Seq(C)
    BY <1>2, <1>4, ConcatProperties
  <2> QED
    BY <1>2, <2>1, ConcatEmptySeq
<1>6. J[k] = SubSeq(t, 1, s - 1) /\ Cardinality(DelimsTo(t, d, s - 1)) = k
  BY DEF JoinedUpTo
<1> HIDE DEF J, rest
<1>7. CASE s = Len(t) + 1
  <2>1. rest = Trail(t, d)
    BY <1>7, AfterType DEF rest
  <2>2. rest[1] = <<>>
    BY <1>3, <2>1 DEF Trail
  <2>3. J[k] = t /\ s - 1 = Len(t)
    BY <1>1, <1>6, <1>7, SubSeqFull
  <2>4. Trail(t, d) # <<>>
    <3>1. Len(Trail(t, d)) = 1
      BY <1>3, <2>1, Zenon
    <3>2. Len(<<>>) = 0 /\ 0 # 1
      OBVIOUS
    <3> QED
      BY <3>1, <3>2, Zenon
  <2>5. Joined(<<d>>, c) = t
    BY <1>3, <1>5, <2>2, <2>3, ConcatEmptySeq
  <2> QED
    BY <1>6, <2>3, <2>4, <2>5
<1>8. CASE s <= Len(t)
  <2> DEFINE n == FirstDelim(t, d, s)
             piece == SubSeq(t, s, n - 1)
             more == After(t, d, n + 1)
  <2>1. /\ piece \in Seq(C) /\ n \in s..(Len(t) + 1)
        /\ rest = <<piece>> \o more /\ more \in Seq(Seq(C))
        /\ n <= Len(t) => more # <<>>
        /\ \A b \in s..(n - 1) : t[b] # d
    <3>1. s \in 1..Len(t)
      BY <1>8
    <3>2. PieceAndRest(C, t, d, s, n, piece, more)
      BY <3>1, AfterFacts
    <3> HIDE DEF n, piece, more
    <3> QED
      BY <3>2 DEF PieceAndRest, rest
  <2> HIDE DEF n, piece, more
  <2>2. Len(rest) = 1 + Len(more) /\ rest[1] = piece /\ Len(more) \in Nat
    <3>1. <<piece>> \in Seq(Seq(C)) /\ Len(<<piece>>) = 1 /\ <<piece>>[1] = piece
      BY <2>1
    <3>2. /\ Len(<<piece>> \o more) = 1 + Len(more) /\ Len(more) \in Nat
          /\ \A i \in 1..(1 + Len(more)) :
                 (<<piece>> \o more)[i] = IF i <= 1 THEN <<piece>>[i] ELSE more[i - 1]
      BY <2>1, <3>1, ConcatProperties
    <3>3. 1 \in 1..(1 + Len(more))
      BY <3>2
    <3> QED
      BY <2>1, <3>1, <3>2, <3>3
  <2>3. n = Len(t) + 1 /\ n - 1 = Len(t)
    <3>1. more = <<>>
      BY <1>3, <2>1, <2>2
    <3>2. ~(n <= Len(t)) /\ n \in s..(Len(t) + 1)
      BY <2>1, <3>1
    <3> QED
      BY <1>1, <3>2
  <2>4. c[k + 1] = SubSeq(t, s, Len(t))
    BY <1>3, <2>2, <2>3 DEF piece
  <2>5. Joined(<<d>>, c) = t
    <3>1. s - 1 \in (1 - 1)..Len(t) /\ Len(t) \in (s - 1)..Len(t) /\ (s - 1) + 1 = s /\ 1 \in 1..(Len(t) + 1)
      BY <1>1, <1>8
    <3>2. SubSeq(t, 1, s - 1) \o SubSeq(t, (s - 1) + 1, Len(t)) = SubSeq(t, 1, Len(t))
      BY <3>1, ConcatAdjacentSubSeq
    <3> QED
      BY <1>5, <1>6, <2>4, <3>1, <3>2, SubSeqFull
  <2>6. DelimsTo(t, d, s - 1) = DelimsTo(t, d, Len(t))
    <3>1. s - 1 \in Nat /\ s - 1 <= Len(t) /\ (s - 1) + 1 = s
      BY <1>1, <1>8
    <3>2. \A b \in ((s - 1) + 1)..Len(t) : t[b] # d
      BY <2>1, <2>3, <3>1
    <3> QED
      BY <1>1, <3>1, <3>2, DelimsToFacts
  <2>7. c[k + 1] # <<>>
    <3>1. s \in Int /\ Len(t) \in Int /\ \A i \in s..Len(t) : t[i] \in C
      BY <1>1, ElementOfSeq
    <3>2. Len(SubSeq(t, s, Len(t))) = Len(t) - s + 1
      BY <1>8, <3>1, SubSeqProperties
    <3>3. Len(c[k + 1]) # 0
      BY <1>1, <1>8, <2>4, <3>2
    <3> QED
      BY <3>3
  <2> QED
    BY <1>1, <1>6, <2>5, <2>6, <2>7
<1>9. s = Len(t) + 1 \/ s <= Len(t)
  BY <1>1
<1> QED
  BY <1>7, <1>8, <1>9

\* Joined at the delimiter, the pieces of a text are that text, and there is one more of
\* them than delimiters.
LEMMA SplitJoins ==
    ASSUME NEW C, NEW t \in Seq(C), NEW d \in C, t # <<>>
    PROVE  LET c == vsc_for_each_delim(t, d)
           IN  /\ c # <<>> /\ Joined(<<d>>, c) = t
               /\ Len(c) = Cardinality(DelimsTo(t, d, Len(t))) + 1
               /\ c[Len(c)] = <<>> => Trail(t, d) # <<>>
<1> DEFINE c == vsc_for_each_delim(t, d)
           n == Len(c) - 1
           T == {k \in 0..n : \E s \in 1..(Len(t) + 1) : JoinedUpTo(t, d, c, k, s)}
<1>1. c = After(t, d, 1) /\ c \in Seq(Seq(C))
  BY SplitType
<1>2. Len(t) \in Nat /\ Len(t) # 0
  OBVIOUS
<1>3. n \in Nat /\ c # <<>>
  <2> DEFINE e == FirstDelim(t, d, 1)
             piece == SubSeq(t, 1, e - 1)
             rest == After(t, d, e + 1)
  <2>1. 1 \in 1..Len(t)
    BY <1>2
  <2>2. PieceAndRest(C, t, d, 1, e, piece, rest)
    BY <2>1, AfterFacts
  <2> HIDE DEF e, piece, rest, c
  <2>3. piece \in Seq(C) /\ rest \in Seq(Seq(C)) /\ c = <<piece>> \o rest
    BY <1>1, <2>2 DEF PieceAndRest
  <2>4. <<piece>> \in Seq(Seq(C)) /\ Len(<<piece>>) = 1
    BY <2>3
  <2>5. Len(c) = 1 + Len(rest) /\ Len(rest) \in Nat
    BY <2>3, <2>4, ConcatProperties
  <2>6. Len(c) # 0 /\ Len(c) - 1 \in Nat
    BY <2>5
  <2> QED
    BY <2>6
<1> HIDE DEF c
<1>4. 0 \in T
  <2>1. JoinedTo(<<d>>, c)[0] = <<>>
    <3>1. <<d>> \in Seq(C)
      OBVIOUS
    <3> QED
      BY <1>1, <3>1, JoinedToFacts
  <2>2. SubSeq(t, 1, 1 - 1) = <<>>
    OBVIOUS
  <2>3. Cardinality(DelimsTo(t, d, 1 - 1)) = 0
    <3>1. DelimsTo(t, d, 1 - 1) = {}
      BY DEF DelimsTo
    <3> QED
      BY <3>1, FS_EmptySet
  <2>4. Len(c) = 0 + Len(After(t, d, 1)) /\ \A j \in 1..Len(After(t, d, 1)) : c[0 + j] = After(t, d, 1)[j]
    BY <1>1
  <2>5. JoinedUpTo(t, d, c, 0, 1)
    BY <2>1, <2>2, <2>3, <2>4 DEF JoinedUpTo
  <2>6. 1 \in 1..(Len(t) + 1) /\ 0 \in 0..n
    BY <1>2, <1>3
  <2> QED
    BY <2>5, <2>6
<1>5. \A k \in 0..n : k < n /\ k \in T => k + 1 \in T
  <2> SUFFICES ASSUME NEW k \in 0..n, k < n, k \in T PROVE k + 1 \in T
    OBVIOUS
  <2>1. PICK s \in 1..(Len(t) + 1) : JoinedUpTo(t, d, c, k, s)
    OBVIOUS
  <2>2. k \in Nat /\ k + 1 < Len(c) /\ k + 1 \in 0..n
    BY <1>3
  <2>3. \E e \in 1..(Len(t) + 1) : JoinedUpTo(t, d, c, k + 1, e)
    BY <1>1, <2>1, <2>2, OneMorePiece
  <2> QED
    BY <2>2, <2>3
<1>6. n \in T
  <2>1. \A k \in 0..n : k \in T
    <3> HIDE DEF T, n
    <3> QED
      BY <1>3, <1>4, <1>5, UpTo
  <2> HIDE DEF T
  <2> QED
    BY <1>3, <2>1
<1>7. PICK s \in 1..(Len(t) + 1) : JoinedUpTo(t, d, c, n, s)
  BY <1>6
<1>8. n + 1 = Len(c) /\ Len(c) \in Nat
  BY <1>1
<1>9. /\ Joined(<<d>>, c) = t /\ Cardinality(DelimsTo(t, d, Len(t))) + 1 = Len(c)
      /\ c[Len(c)] = <<>> => Trail(t, d) # <<>>
  <2> HIDE DEF n
  <2> QED
    BY <1>1, <1>3, <1>7, <1>8, LastPiece
<1> QED
  BY <1>3, <1>9 DEF c

LEMMA EmptySplit ==
    ASSUME NEW C, NEW d \in C
    PROVE  /\ vsc_for_each_delim(<<>>, d) = <<>> /\ for_each_delim(<<>>, d) = <<>>
           /\ Joined(<<d>>, <<>>) = <<>>
<1>1. <<>> \in Seq(C) /\ <<>> \in Seq(Seq(C)) /\ <<d>> \in Seq(C) /\ Len(<<>>) = 0
  OBVIOUS
<1>2. LoopPieces(<<>>, d) = <<>>
  <2>1. LoopPieces(<<>>, d) = Rest(<<>>, d, 1)
    BY <1>1, LoopPiecesIsRest
  <2>2. 1 > Len(<<>>)
    BY <1>1
  <2> QED
    BY <2>1, <2>2, Zenon DEF Rest
<1>3. vsc_for_each_delim(<<>>, d) = <<>> \o <<>>
  BY <1>2 DEF vsc_for_each_delim
<1>4. Joined(<<d>>, <<>>) = JoinedTo(<<d>>, <<>>)[0]
  BY <1>1, JoinsAreTheirLast
<1>5. JoinedTo(<<d>>, <<>>)[0] = <<>>
  <2>1. PICK empty \in Seq(Seq(C)) : empty = <<>>
    BY <1>1
  <2>2. JoinedTo(<<d>>, empty)[0] = <<>>
    BY <1>1, JoinedToFacts
  <2> QED
    BY <2>1, <2>2
<1> QED
  BY <1>2, <1>3, <1>4, <1>5, <1>1, ConcatEmptySeq DEF for_each_delim

\* The C++ loop leaves out the empty piece after the last delimiter, and nothing else.
LEMMA SplitsDiffer ==
    ASSUME NEW C, NEW t \in Seq(C), NEW d \in C
    PROVE  LET c == vsc_for_each_delim(t, d)
           IN  for_each_delim(t, d) = IF c # <<>> /\ c[Len(c)] = <<>> THEN SubSeq(c, 1, Len(c) - 1) ELSE c
<1> DEFINE c == vsc_for_each_delim(t, d)
           cpp == LoopPieces(t, d)
<1>1. c = cpp \o Trail(t, d) /\ cpp \in Seq(Seq(C)) /\ for_each_delim(t, d) = cpp
  BY LoopPiecesIsRest DEF vsc_for_each_delim, for_each_delim, Trail
<1>2. t = <<>> => c = <<>> /\ cpp = <<>>
  BY EmptySplit DEF for_each_delim
<1>3. t # <<>> => (c[Len(c)] = <<>> => Trail(t, d) # <<>>)
  BY SplitJoins
<1>4. CASE Trail(t, d) = <<>>
  <2> HIDE DEF cpp, c
  <2>1. c = cpp
    BY <1>1, <1>4, ConcatEmptySeq
  <2>2. ~(c # <<>> /\ c[Len(c)] = <<>>)
    BY <1>2, <1>3, <1>4
  <2> QED
    BY <1>1, <2>1, <2>2 DEF c
<1>5. CASE Trail(t, d) # <<>>
  <2>1. Trail(t, d) = <<<<>>>> /\ <<<<>>>> \in Seq(Seq(C)) /\ Len(<<<<>>>>) = 1 /\ <<<<>>>>[1] = <<>>
    BY <1>5 DEF Trail
  <2> HIDE DEF cpp, c
  <2>2. /\ c \in Seq(Seq(C)) /\ Len(c) = Len(cpp) + 1 /\ Len(cpp) \in Nat
        /\ \A i \in 1..(Len(cpp) + 1) : c[i] = IF i <= Len(cpp) THEN cpp[i] ELSE <<<<>>>>[i - Len(cpp)]
    BY <1>1, <2>1, ConcatProperties
  <2>3. c[Len(c)] = <<>>
    <3>1. Len(c) \in 1..(Len(cpp) + 1) /\ ~(Len(c) <= Len(cpp)) /\ Len(c) - Len(cpp) = 1
      BY <2>2
    <3> QED
      BY <2>1, <2>2, <3>1
  <2>4. Len(c) # 0
    BY <2>2
  <2>5. SubSeq(c, 1, Len(c) - 1) = cpp
    <3>1. /\ 1 \in Int /\ Len(c) - 1 \in Int /\ Len(c) - 1 = Len(cpp)
          /\ \A i \in 1..(Len(c) - 1) : c[i] \in Seq(C)
      <4>1. \A i \in 1..(Len(c) - 1) : i \in 1..Len(c)
        BY <2>2
      <4> QED
        BY <2>2, <4>1, ElementOfSeq
    <3>2. /\ SubSeq(c, 1, Len(c) - 1) \in Seq(Seq(C))
          /\ Len(SubSeq(c, 1, Len(c) - 1)) = IF 1 <= Len(c) - 1 THEN Len(c) - 1 - 1 + 1 ELSE 0
          /\ \A i \in 1..(Len(c) - 1 - 1 + 1) : SubSeq(c, 1, Len(c) - 1)[i] = c[1 + i - 1]
      BY <3>1, SubSeqProperties
    <3>3. Len(SubSeq(c, 1, Len(c) - 1)) = Len(cpp)
      BY <2>2, <3>2
    <3>4. \A i \in 1..Len(cpp) : SubSeq(c, 1, Len(c) - 1)[i] = cpp[i]
      <4> SUFFICES ASSUME NEW i \in 1..Len(cpp) PROVE SubSeq(c, 1, Len(c) - 1)[i] = cpp[i]
        OBVIOUS
      <4>1. /\ i \in 1..(Len(c) - 1 - 1 + 1) /\ 1 + i - 1 = i
            /\ i \in 1..(Len(cpp) + 1) /\ i <= Len(cpp)
        BY <2>2
      <4> QED
        BY <2>2, <3>2, <4>1
    <3> QED
      BY <1>1, <3>2, <3>3, <3>4, SeqEqual
  <2>6. c # <<>>
    BY <2>4
  <2> QED
    BY <1>1, <2>3, <2>5, <2>6 DEF c
<1> QED
  BY <1>4, <1>5

\* What is handed over when proc stops at one of the pieces, or at none of them.
LEMMA UntilFacts ==
    ASSUME NEW C, NEW pieces \in Seq(C), NEW stop \in Nat
    PROVE  LET u == Until(stop, pieces)
           IN  /\ stop \in 1..Len(pieces) => u.ret = "stopped" /\ Len(u.pieces) = stop
               /\ stop \notin 1..Len(pieces) => u.ret = "ok" /\ u.pieces = pieces
<1>1. CASE stop \in 1..Len(pieces)
  <2>1. Len(SubSeq(pieces, 1, stop)) = stop
    BY <1>1
  <2> QED
    BY <1>1, <2>1 DEF Until
<1>2. CASE stop \notin 1..Len(pieces)
  BY <1>2 DEF Until
<1> QED
  BY <1>1, <1>2

LEMMA SplitUndone == ASSUME Split PROVE JoinUndoesSplit'
<1> SUFFICES ASSUME call' # [name |-> "reversed"] PROVE JoinUndoesSplit'
  <2>1. CASE call' = [name |-> "reversed"]
    <3>1. call'.name = "reversed"
      BY <2>1
    <3> QED
      BY <3>1 DEF JoinUndoesSplit, Is
  <2> QED
    BY <2>1
<1>0. PICK t \in Texts :
          \E stop \in 0..(Len(t) + 1) :
              /\ pc' = "done" /\ call' = [name |-> "split", text |-> t, stop |-> stop]
              /\ out' = [c |-> Until(stop, vsc_for_each_delim(t, Delim)),
                         cpp |-> Until(stop, for_each_delim(t, Delim))]
  BY DEF Split, Returns
<1>1. PICK stop \in 0..(Len(t) + 1) :
          /\ pc' = "done" /\ call' = [name |-> "split", text |-> t, stop |-> stop]
          /\ out' = [c |-> Until(stop, vsc_for_each_delim(t, Delim)),
                     cpp |-> Until(stop, for_each_delim(t, Delim))]
  BY <1>0
<1> DEFINE c == vsc_for_each_delim(t, Delim)
           cpp == for_each_delim(t, Delim)
<1>2. t \in Seq(Characters) /\ Delim \in Characters /\ <<Delim>> \in Seq(Characters)
  BY JoinConstants
<1>3. c \in Seq(Seq(Characters))
  BY <1>2, SplitType
<1>4. Joined(<<Delim>>, c) = t /\ Len(c) = IF t = <<>> THEN 0 ELSE Cardinality(DelimsTo(t, Delim, Len(t))) + 1
  <2>1. CASE t = <<>>
    BY <1>2, <2>1, EmptySplit
  <2>2. CASE t # <<>>
    BY <1>2, <2>2, SplitJoins
  <2> QED
    BY <2>1, <2>2
<1>5. vsc_strnjoin(<<Delim>>, c).text = t
  <2>1. \A k \in 1..Len(c) : c[k] # Null
    <3>1. \A k \in 1..Len(c) : c[k] \in Seq(Characters)
      BY <1>3, ElementOfSeq
    <3> QED
      BY <3>1, JoinConstants
  <2>2. <<Delim>> # Null
    BY <1>2, JoinConstants
  <2> HIDE DEF c
  <2> QED
    BY <1>4, <2>1, <2>2 DEF vsc_strnjoin
<1>6. cpp = IF c # <<>> /\ c[Len(c)] = <<>> THEN SubSeq(c, 1, Len(c) - 1) ELSE c
  BY <1>2, SplitsDiffer
<1>7. /\ call'.text = t /\ call'.stop = stop /\ call'.name = "split"
      /\ out'.c = Until(stop, c) /\ out'.cpp = Until(stop, cpp)
  BY <1>1
<1>8. stop \in Nat /\ cpp \in Seq(Seq(Characters)) /\ Len(cpp) <= Len(c)
  <2>1. stop \in Nat
    BY <1>2
  <2> HIDE DEF c, cpp
  <2>2. CASE c # <<>> /\ c[Len(c)] = <<>>
    <3>1. cpp = SubSeq(c, 1, Len(c) - 1) /\ Len(c) \in Nat \ {0}
      BY <1>3, <1>6, <2>2, EmptySeq
    <3> QED
      BY <1>3, <2>1, <3>1
  <2>3. CASE ~(c # <<>> /\ c[Len(c)] = <<>>)
    BY <1>3, <1>6, <2>1, <2>3
  <2> QED
    BY <2>2, <2>3
<1> HIDE DEF c, cpp
<1>9. /\ stop \in 1..Len(c) => Until(stop, c).ret = "stopped" /\ Len(Until(stop, c).pieces) = stop
      /\ stop \notin 1..Len(c) =>
             /\ Until(stop, c).ret = "ok" /\ Until(stop, c).pieces = c
             /\ Until(stop, cpp).ret = "ok" /\ Until(stop, cpp).pieces = cpp
  <2>1. stop \notin 1..Len(c) => stop \notin 1..Len(cpp)
    BY <1>3, <1>8
  <2> QED
    BY <1>3, <1>8, <2>1, UntilFacts
<1> DEFINE pieces == IF t = <<>> THEN 0 ELSE Cardinality(DelimsTo(t, Delim, Len(t))) + 1
<1>10. CASE stop \in 1..Len(c)
  BY <1>4, <1>7, <1>9, <1>10 DEF JoinUndoesSplit, DelimsTo, Is
<1>11. CASE stop \notin 1..Len(c)
  BY <1>4, <1>5, <1>6, <1>7, <1>9, <1>11 DEF JoinUndoesSplit, DelimsTo, Is
<1> QED
  BY <1>10, <1>11

LEMMA JoinFills == ASSUME Join PROVE JoinUndoesSplit'
<1>1. PICK j \in Joins :
          /\ pc' = "done" /\ call' = [name |-> "join", delim |-> j.delim, elems |-> j.elems]
          /\ out' = [n |-> vsc_strnjoin(j.delim, j.elems), v |-> vsc_strjoin(j.delim, j.elems)]
  BY DEF Join, Returns
<1>2. j.delim \in Seq(Characters) \cup {Null} /\ j.elems \in Seq(Seq(Characters) \cup {Null})
  BY JoinConstants
<1> DEFINE n == vsc_strnjoin(j.delim, j.elems)
           v == vsc_strjoin(j.delim, j.elems)
<1>3. n.text # Null => n.room = Len(n.text) + 1
  BY <1>2, StrnjoinFacts
<1>4. /\ n.text # Null => v = n
      /\ v.text # Null => v.room = Len(v.text) + 1
      /\ v.text = Null <=> j.delim = Null
  BY <1>2, StrjoinFacts
<1>5. call'.name = "join" /\ call'.delim = j.delim /\ out'.n = n /\ out'.v = v
  BY <1>1
<1> HIDE DEF n, v
<1> QED
  BY <1>3, <1>4, <1>5 DEF JoinUndoesSplit, Is
-----------------------------------------------------------------------------
(* A formatted UUID parses to itself                                       *)

\* The k-th byte of a UUID ends after its digits and the dashes before it.
DashesUpTo(k) ==
    IF k < 5 THEN 0 ELSE IF k < 7 THEN 1 ELSE IF k < 9 THEN 2 ELSE IF k < 11 THEN 3 ELSE 4
EndOf(dashed, k) == 2 * k + (IF dashed THEN DashesUpTo(k) ELSE 0)
DashBefore(dashed, k) == dashed /\ k \in {5, 7, 9, 11}

LEMMA EndFacts ==
    ASSUME NEW dashed \in BOOLEAN, NEW k \in 1..16
    PROVE  /\ EndOf(dashed, k) = EndOf(dashed, k - 1) + 2 + (IF DashBefore(dashed, k) THEN 1 ELSE 0)
           /\ EndOf(dashed, k - 1) \in Nat /\ EndOf(dashed, k) \in Nat
           /\ EndOf(dashed, k) <= EndOf(dashed, 16)
           /\ \A j \in 1..k : EndOf(dashed, j) \in 2..EndOf(dashed, k)
           /\ \A j \in 1..k : DashBefore(dashed, j) => EndOf(dashed, j) > 2
BY DEF EndOf, DashesUpTo, DashBefore

LEMMA EndsOfUuid ==
    ASSUME NEW dashed \in BOOLEAN
    PROVE  EndOf(dashed, 0) = 0 /\ EndOf(dashed, 16) = IF dashed THEN 36 ELSE 32
BY DEF EndOf, DashesUpTo

\* The parser looks for a dash where the formatter writes one.
LEMMA DashesMeet ==
    ASSUME NEW dashed \in BOOLEAN, NEW k \in 1..16
    PROVE  /\ dashed /\ EndOf(dashed, k - 1) \in Dashes <=> DashBefore(dashed, k)
           /\ dashed => EndOf(dashed, k) - 2 \notin Dashes
BY DEF EndOf, DashesUpTo, DashBefore, Dashes

\* Every character is a digit of a byte, or a dash.
LEMMA CharacterOfByte ==
    ASSUME NEW dashed \in BOOLEAN, NEW p \in 1..EndOf(dashed, 16)
    PROVE  \E k \in 1..16 :
               \/ p = EndOf(dashed, k) \/ p = EndOf(dashed, k) - 1
               \/ DashBefore(dashed, k) /\ p = EndOf(dashed, k) - 2
<1> DEFINE T == {k \in 1..16 : p <= EndOf(dashed, k)}
<1>1. T \in SUBSET Nat /\ 16 \in T
  BY EndsOfUuid
<1>2. PICK k \in T : \A j \in T : k <= j
  BY <1>1, LeastNat
<1>3. k \in 1..16 /\ p <= EndOf(dashed, k) /\ p \in Nat /\ p >= 1
  BY EndsOfUuid
<1>4. p > EndOf(dashed, k - 1)
  <2>1. CASE k = 1
    BY <1>3, <2>1, EndsOfUuid
  <2>2. CASE k # 1
    <3>1. k - 1 \in 1..16 /\ ~(k <= k - 1) /\ EndOf(dashed, k - 1) \in Nat
      BY <1>3, <2>2, EndFacts
    <3>2. k - 1 \notin T
      BY <1>2, <3>1
    <3> QED
      BY <1>3, <3>1, <3>2
  <2> QED
    BY <2>1, <2>2
<1>5. /\ EndOf(dashed, k) = EndOf(dashed, k - 1) + 2 + (IF DashBefore(dashed, k) THEN 1 ELSE 0)
      /\ EndOf(dashed, k - 1) \in Nat
  BY <1>3, EndFacts
<1>6. \/ p = EndOf(dashed, k) \/ p = EndOf(dashed, k) - 1
      \/ DashBefore(dashed, k) /\ p = EndOf(dashed, k) - 2
  BY <1>3, <1>4, <1>5
<1> QED
  BY <1>3, <1>6

\* A text has the k-th byte of a UUID as the formatter writes it.
Written(u, flags, t, dashed, k) ==
    /\ t[EndOf(dashed, k) - 1] = alphabet(u[k] \div 16, flags)
    /\ t[EndOf(dashed, k)] = alphabet(u[k] % 16, flags)
    /\ DashBefore(dashed, k) => t[EndOf(dashed, k) - 2] = Dash

FormatAt(u, flags, g, i) ==
    IF i = 0 THEN <<>>
    ELSE g[i - 1]
         \o (IF "COMPACT" \notin flags /\ i - 1 \in {4, 6, 8, 10} THEN <<Dash>> ELSE <<>>)
         \o <<alphabet(u[i] \div 16, flags), alphabet(u[i] % 16, flags)>>
FormatTo(u, flags) == CHOOSE f : f = [i \in 0..SIZE |-> FormatAt(u, flags, f, i)]
Braced(t, flags) ==
    (IF "MS" \in flags THEN <<OpenBrace>> ELSE <<>>) \o t
    \o (IF "MS" \in flags THEN <<CloseBrace>> ELSE <<>>)

LEMMA FormatIsBraced ==
    ASSUME NEW u, NEW flags
    PROVE  vsc_uuid_format(u, flags) = Braced(FormatTo(u, flags)[SIZE], flags)
BY DEF vsc_uuid_format, FormatTo, FormatAt, Braced

LEMMA AlphabetIsBytes ==
    ASSUME NEW b \in Byte, NEW flags
    PROVE  alphabet(b \div 16, flags) \in Byte /\ alphabet(b % 16, flags) \in Byte
<1>1. b \div 16 \in 0..15 /\ b % 16 \in 0..15
  BY DEF Byte
<1>2. ASSUME NEW d \in 0..15 PROVE alphabet(d, flags) \in Byte
  BY DEF alphabet, Byte, Zero, LowerA, UpperA
<1> QED
  BY <1>1, <1>2

LEMMA FormatToSolves ==
    ASSUME NEW u \in [1..SIZE -> Byte], NEW flags
    PROVE  FormatTo(u, flags) = [i \in 0..SIZE |-> FormatAt(u, flags, FormatTo(u, flags), i)]
<1> DEFINE S == Seq(Byte)
           dash(k) == IF "COMPACT" \notin flags /\ k - 1 \in {4, 6, 8, 10} THEN <<Dash>> ELSE <<>>
           digits(k) == <<alphabet(u[k] \div 16, flags), alphabet(u[k] % 16, flags)>>
           F == [k \in 1..SIZE |-> [x \in S |-> x \o dash(k) \o digits(k)]]
<1>1. ASSUME NEW k \in 1..SIZE, NEW x \in S PROVE x \o dash(k) \o digits(k) \in S
  <2>1. dash(k) \in S
    <3>1. <<>> \in S /\ <<Dash>> \in S
      BY DEF Byte, Dash
    <3> QED
      BY <3>1
  <2>2. digits(k) \in S
    <3>1. u[k] \in Byte
      OBVIOUS
    <3>2. alphabet(u[k] \div 16, flags) \in Byte /\ alphabet(u[k] % 16, flags) \in Byte
      BY <3>1, AlphabetIsBytes
    <3> QED
      BY <3>2
  <2> HIDE DEF dash, digits
  <2> QED
    BY <2>1, <2>2, ConcatProperties
<1>2. F \in [1..SIZE -> [S -> S]] /\ \A k \in 1..SIZE : \A x \in S : F[k][x] = x \o dash(k) \o digits(k)
  <2> HIDE DEF dash, digits, S
  <2> QED
    BY <1>1
<1> HIDE DEF F
<1>3. PICK f : Upward(f, SIZE, S, <<>>, F)
  <2>1. <<>> \in S /\ SIZE \in Nat
    BY DEF SIZE
  <2> HIDE DEF S
  <2> QED
    BY <1>2, <2>1, UpwardRecursion
<1>4. f = [i \in 0..SIZE |-> FormatAt(u, flags, f, i)]
  <2>1. ASSUME NEW i \in 0..SIZE PROVE f[i] = FormatAt(u, flags, f, i)
    <3>1. i # 0 => i - 1 \in 0..SIZE /\ i \in 1..SIZE
      BY DEF SIZE
    <3>2. i # 0 => f[i - 1] \in S /\ f[i] = F[i][f[i - 1]]
      BY <1>3, <3>1 DEF Upward
    <3>3. f[0] = <<>>
      BY <1>3 DEF Upward
    <3> QED
      BY <1>2, <3>1, <3>2, <3>3 DEF FormatAt
  <2> QED
    BY <2>1, <1>3 DEF Upward
<1> QED
  BY <1>4 DEF FormatTo

WrittenUpTo(u, flags, t, dashed, k) ==
    /\ t \in Seq(Byte) /\ Len(t) = EndOf(dashed, k)
    /\ \A j \in 1..k : Written(u, flags, t, dashed, j)

\* One more byte: the text grows by its dash and its digits.
LEMMA OneMoreByte ==
    ASSUME NEW u \in [1..SIZE -> Byte], NEW flags, NEW dashed \in BOOLEAN, dashed <=> "COMPACT" \notin flags,
           NEW k \in 1..16, NEW g, WrittenUpTo(u, flags, g[k - 1], dashed, k - 1)
    PROVE  WrittenUpTo(u, flags, FormatAt(u, flags, g, k), dashed, k)
<1> DEFINE x == g[k - 1]
           upper == alphabet(u[k] \div 16, flags)
           lower == alphabet(u[k] % 16, flags)
           dash == IF DashBefore(dashed, k) THEN <<Dash>> ELSE <<>>
           digits == <<upper, lower>>
           y == x \o dash
           z == y \o digits
           n == EndOf(dashed, k - 1)
           end == EndOf(dashed, k)
<1>1. FormatAt(u, flags, g, k) = z
  <2>1. k # 0 /\ (k - 1 \in {4, 6, 8, 10} <=> k \in {5, 7, 9, 11})
    OBVIOUS
  <2> QED
    BY <2>1 DEF FormatAt, DashBefore
<1>2. upper \in Byte /\ lower \in Byte /\ Dash \in Byte
  <2>1. k \in 1..SIZE /\ Dash \in Byte
    BY DEF SIZE, Byte, Dash
  <2>2. u[k] \in Byte
    BY <2>1
  <2> QED
    BY <2>1, <2>2, AlphabetIsBytes
<1> HIDE DEF upper, lower
<1>3. digits \in Seq(Byte) /\ Len(digits) = 2 /\ digits[1] = upper /\ digits[2] = lower
  BY <1>2
<1>4. /\ dash \in Seq(Byte) /\ (DashBefore(dashed, k) => Len(dash) = 1 /\ dash[1] = Dash)
      /\ ~DashBefore(dashed, k) => Len(dash) = 0
  <2>1. CASE DashBefore(dashed, k)
    BY <1>2, <2>1
  <2>2. CASE ~DashBefore(dashed, k)
    BY <2>2
  <2> QED
    BY <2>1, <2>2
<1>5. /\ n \in Nat /\ end = n + 2 + (IF DashBefore(dashed, k) THEN 1 ELSE 0) /\ end \in Nat
  BY EndFacts
<1> HIDE DEF x, dash, digits, n, end
<1>6. x \in Seq(Byte) /\ Len(x) = n
  BY DEF x, n, WrittenUpTo
<1>7. /\ y \in Seq(Byte) /\ Len(y) = n + Len(dash)
      /\ \A p \in 1..(n + Len(dash)) : y[p] = IF p <= n THEN x[p] ELSE dash[p - n]
  <2>1. /\ x \o dash \in Seq(Byte) /\ Len(x \o dash) = Len(x) + Len(dash)
        /\ \A p \in 1..(Len(x) + Len(dash)) : (x \o dash)[p] = IF p <= Len(x) THEN x[p] ELSE dash[p - Len(x)]
    BY <1>4, <1>6, ConcatProperties
  <2> QED
    BY <2>1, <1>6 DEF y
<1> HIDE DEF y
<1>8. /\ z \in Seq(Byte) /\ Len(z) = Len(y) + 2
      /\ \A p \in 1..(Len(y) + 2) : z[p] = IF p <= Len(y) THEN y[p] ELSE digits[p - Len(y)]
  <2>1. y \in Seq(Byte) /\ digits \in Seq(Byte) /\ Len(digits) = 2
    BY <1>3, <1>7
  <2>2. /\ y \o digits \in Seq(Byte) /\ Len(y \o digits) = Len(y) + Len(digits)
        /\ \A p \in 1..(Len(y) + Len(digits)) :
               (y \o digits)[p] = IF p <= Len(y) THEN y[p] ELSE digits[p - Len(y)]
    BY <2>1, ConcatProperties
  <2> QED
    BY <2>1, <2>2
<1> HIDE DEF z
<1>9. Len(y) = end - 2 /\ Len(z) = end
  <2>1. Len(dash) = IF DashBefore(dashed, k) THEN 1 ELSE 0
    BY <1>4
  <2> QED
    BY <2>1, <1>5, <1>7, <1>8
<1>10. z[end - 1] = upper /\ z[end] = lower
  <2>1. end - 1 \in 1..Len(z) /\ end \in 1..Len(z) /\ ~(end - 1 <= Len(y)) /\ ~(end <= Len(y))
    BY <1>5, <1>9
  <2>2. (end - 1) - Len(y) = 1 /\ end - Len(y) = 2
    BY <1>5, <1>9
  <2> QED
    BY <1>3, <1>8, <2>1, <2>2
<1>11. DashBefore(dashed, k) => z[end - 2] = Dash
  <2> SUFFICES ASSUME DashBefore(dashed, k) PROVE z[end - 2] = Dash
    OBVIOUS
  <2>1. /\ end - 2 = n + 1 /\ end - 2 \in 1..Len(y) /\ end - 2 \in 1..Len(z) /\ end - 2 <= Len(y)
        /\ ~(end - 2 <= n) /\ (end - 2) - n = 1
    BY <1>5, <1>9
  <2> QED
    BY <1>4, <1>7, <1>8, <2>1
<1>12. \A p \in 1..n : z[p] = x[p]
  <2> SUFFICES ASSUME NEW p \in 1..n PROVE z[p] = x[p]
    OBVIOUS
  <2>1. p \in 1..Len(y) /\ p \in 1..Len(z) /\ p <= Len(y) /\ p <= n
    BY <1>5, <1>9
  <2> QED
    BY <1>7, <1>8, <2>1
<1>13. ASSUME NEW j \in 1..k PROVE Written(u, flags, z, dashed, j)
  <2>1. CASE j = k
    BY <1>10, <1>11, <2>1 DEF Written, upper, lower, end
  <2>2. CASE j # k
    <3>1. j \in 1..(k - 1) /\ k - 1 \in 1..16 /\ j \in 1..16
      BY <2>2
    <3>2. EndOf(dashed, j) \in 2..n /\ (DashBefore(dashed, j) => EndOf(dashed, j) > 2) /\ n \in Nat
      BY <3>1, <1>5, EndFacts DEF n
    <3>3. /\ EndOf(dashed, j) \in 1..n /\ EndOf(dashed, j) - 1 \in 1..n
          /\ DashBefore(dashed, j) => EndOf(dashed, j) - 2 \in 1..n
      BY <3>2
    <3>4. Written(u, flags, x, dashed, j)
      BY <3>1 DEF x, WrittenUpTo
    <3> QED
      BY <1>12, <3>3, <3>4 DEF Written
  <2> QED
    BY <2>1, <2>2
<1> QED
  BY <1>1, <1>8, <1>9, <1>13 DEF end, WrittenUpTo

LEMMA FormatToFacts ==
    ASSUME NEW u \in [1..SIZE -> Byte], NEW flags, NEW dashed \in BOOLEAN, dashed <=> "COMPACT" \notin flags
    PROVE  WrittenUpTo(u, flags, FormatTo(u, flags)[SIZE], dashed, 16)
<1> DEFINE f == FormatTo(u, flags)
           Good(i) == WrittenUpTo(u, flags, f[i], dashed, i)
           T == {i \in 0..16 : Good(i)}
<1>1. f = [i \in 0..16 |-> FormatAt(u, flags, f, i)]
  BY FormatToSolves DEF SIZE
<1> HIDE DEF f
<1>2. 0 \in T
  <2>1. f[0] = FormatAt(u, flags, f, 0)
    BY <1>1
  <2>2. f[0] = <<>>
    BY <2>1 DEF FormatAt
  <2>4. EndOf(dashed, 0) = 0
    BY EndsOfUuid, Zenon
  <2>5. <<>> \in Seq(Byte) /\ Len(<<>>) = 0
    OBVIOUS
  <2>3. f[0] \in Seq(Byte) /\ Len(f[0]) = EndOf(dashed, 0)
    BY <2>2, <2>4, <2>5, Zenon
  <2> QED
    BY <2>3 DEF WrittenUpTo
<1>3. ASSUME NEW i \in 0..16, i < 16, Good(i) PROVE i + 1 \in 0..16 /\ Good(i + 1)
  <2>1. i + 1 \in 1..16 /\ i + 1 \in 0..16 /\ (i + 1) - 1 = i
    BY <1>3
  <2>2. f[i + 1] = FormatAt(u, flags, f, i + 1)
    BY <1>1, <2>1
  <2> DEFINE k == i + 1
  <2>3. k \in 1..16 /\ k - 1 = i
    BY <2>1
  <2>4. WrittenUpTo(u, flags, f[i], dashed, i)
    BY <1>3
  <2> HIDE DEF Good, k
  <2>5. WrittenUpTo(u, flags, f[k - 1], dashed, k - 1)
    BY <2>3, <2>4
  <2>6. WrittenUpTo(u, flags, FormatAt(u, flags, f, k), dashed, k)
    BY <2>3, <2>5, OneMoreByte
  <2> QED
    BY <2>1, <2>2, <2>6 DEF Good, k
<1>4. \A i \in 0..16 : i \in T
  <2>1. \A i \in 0..16 : i < 16 /\ i \in T => i + 1 \in T
    <3> HIDE DEF Good
    <3> QED
      BY <1>3
  <2> HIDE DEF T
  <2> QED
    BY <1>2, <2>1, UpTo
<1>5. Good(16)
  <2> HIDE DEF Good
  <2>1. 16 \in 0..16
    OBVIOUS
  <2> QED
    BY <1>4, <2>1
<1> QED
  BY <1>5 DEF f, SIZE

\* What the parser asks for the k-th byte, and what it makes of it.
Spelled(t, dashed, k) ==
    /\ isxdigit(t[EndOf(dashed, k) - 1]) /\ isxdigit(t[EndOf(dashed, k)])
    /\ DashBefore(dashed, k) => t[EndOf(dashed, k) - 2] = Dash
ByteAt(t, dashed, k) ==
    (denibble(t[EndOf(dashed, k) - 1]) * 16 + denibble(t[EndOf(dashed, k)])) % 256

ParsedBehind(r, t, dashed, k) ==
    /\ r \in Parses
    /\ r.ok <=> \A j \in (k + 1)..16 : Spelled(t, dashed, j)
    /\ r.ok => /\ Len(r.bytes) = 16 - k
               /\ \A j \in 1..(16 - k) : r.bytes[j] = ByteAt(t, dashed, k + j)

\* The two digits of a byte, with what is parsed behind them.
LEMMA DigitsParsed ==
    ASSUME NEW t \in Seq(Byte), NEW dashed \in BOOLEAN, Len(t) = EndOf(dashed, 16), NEW k \in 1..16,
           NEW g, ParsedBehind(g[EndOf(dashed, k)], t, dashed, k),
           DashBefore(dashed, k) => t[EndOf(dashed, k) - 2] = Dash
    PROVE  ParsedBehind(ParseAt(t, g, EndOf(dashed, k) - 2), t, dashed, k - 1)
<1> DEFINE end == EndOf(dashed, k)
           digits == isxdigit(t[end - 1]) /\ isxdigit(t[end])
           bad == [ok |-> FALSE, bytes |-> <<>>]
           rest == g[end]
           r == ParseAt(t, g, end - 2)
<1>1. end \in 2..Len(t) /\ Len(t) \in Nat
  <2>1. k \in 1..k /\ Len(t) \in Nat
    OBVIOUS
  <2>2. end \in Nat /\ end \in 2..end /\ end <= Len(t)
    BY <2>1, EndFacts
  <2> QED
    BY <2>1, <2>2
<1>2. ~(Len(t) = 36 /\ end - 2 \in Dashes)
  <2>1. Len(t) = 36 <=> dashed
    BY EndsOfUuid
  <2>2. dashed => end - 2 \notin Dashes
    BY DashesMeet
  <2> QED
    BY <2>1, <2>2
<1>3. /\ end - 2 # Len(t) /\ ~((end - 2) + 2 > Len(t))
      /\ (end - 2) + 1 = end - 1 /\ (end - 2) + 2 = end
  BY <1>1
<1>4. r = IF digits THEN [rest EXCEPT !.bytes = <<ByteAt(t, dashed, k)>> \o @] ELSE bad
  BY <1>2, <1>3 DEF ParseAt, ByteAt
<1>5. Spelled(t, dashed, k) <=> digits
  BY DEF Spelled
<1>6. ByteAt(t, dashed, k) \in Byte
  <2>1. end \in 1..Len(t) /\ end - 1 \in 1..Len(t)
    BY <1>1
  <2>2. t[end - 1] \in Byte /\ t[end] \in Byte
    BY <2>1, ElementOfSeq
  <2> QED
    BY <2>2, ByteOfNibbles DEF ByteAt
<1> HIDE DEF r, rest, digits, end
<1>7. \A j \in k..16 : j = k \/ j \in (k + 1)..16
  OBVIOUS
<1>8. CASE ~digits
  <2>1. r = bad /\ bad \in Parses
    BY <1>4, <1>8 DEF Parses
  <2>2. k \in ((k - 1) + 1)..16 /\ ~Spelled(t, dashed, k)
    BY <1>5, <1>8
  <2> QED
    BY <2>1, <2>2 DEF ParsedBehind, r, end
<1>9. CASE digits
  <2> DEFINE new == <<ByteAt(t, dashed, k)>>
  <2>1. rest \in Parses /\ ParsedBehind(rest, t, dashed, k)
    BY DEF rest, end, ParsedBehind
  <2>2. new \in Seq(Byte) /\ Len(new) = 1 /\ new[1] = ByteAt(t, dashed, k)
    BY <1>6
  <2> HIDE DEF new
  <2>3. r = [rest EXCEPT !.bytes = new \o rest.bytes]
    BY <1>4, <1>9, <2>1 DEF new, Parses
  <2>4. rest.ok \in BOOLEAN /\ rest.bytes \in Seq(Byte)
    BY <2>1 DEF Parses
  <2>5. /\ new \o rest.bytes \in Seq(Byte) /\ Len(new \o rest.bytes) = Len(new) + Len(rest.bytes)
        /\ \A i \in 1..(Len(new) + Len(rest.bytes)) :
               (new \o rest.bytes)[i] = IF i <= Len(new) THEN new[i] ELSE rest.bytes[i - Len(new)]
    BY <2>2, <2>4, ConcatProperties
  <2>6. r \in Parses /\ r.ok = rest.ok /\ r.bytes = new \o rest.bytes
    BY <2>1, <2>3, <2>4, <2>5 DEF Parses
  <2>7. r.ok <=> \A j \in ((k - 1) + 1)..16 : Spelled(t, dashed, j)
    <3>1. rest.ok <=> \A j \in (k + 1)..16 : Spelled(t, dashed, j)
      BY <2>1 DEF ParsedBehind
    <3>2. (k - 1) + 1 = k /\ \A j \in (k + 1)..16 : j \in k..16
      OBVIOUS
    <3> QED
      BY <1>5, <1>7, <1>9, <2>6, <3>1, <3>2
  <2>8. ASSUME r.ok
        PROVE  /\ Len(r.bytes) = 16 - (k - 1)
               /\ \A j \in 1..(16 - (k - 1)) : r.bytes[j] = ByteAt(t, dashed, (k - 1) + j)
    <3>1. \A j \in 1..(16 - k) : rest.bytes[j] = ByteAt(t, dashed, k + j)
      BY <2>1, <2>6, <2>8 DEF ParsedBehind
    <3>4. Len(rest.bytes) = 16 - k /\ Len(new) = 1
      BY <2>1, <2>2, <2>6, <2>8 DEF ParsedBehind
    <3>5. Len(new) + Len(rest.bytes) = 16 - (k - 1)
      BY <3>4
    <3>2. Len(r.bytes) = 16 - (k - 1)
      BY <2>5, <2>6, <3>5
    <3>3. ASSUME NEW j \in 1..(16 - (k - 1)) PROVE r.bytes[j] = ByteAt(t, dashed, (k - 1) + j)
      <4>1. j \in 1..(Len(new) + Len(rest.bytes))
        BY <3>5
      <4>2. CASE j = 1
        <5>1. (k - 1) + j = k /\ j <= Len(new)
          BY <2>2, <4>2
        <5> QED
          BY <2>2, <2>5, <2>6, <4>1, <4>2, <5>1
      <4>3. CASE j # 1
        <5>1. /\ j - 1 \in 1..(16 - k) /\ k + (j - 1) = (k - 1) + j
              /\ ~(j <= Len(new)) /\ j - Len(new) = j - 1
          BY <2>2, <4>3
        <5> QED
          BY <2>5, <2>6, <3>1, <4>1, <5>1
      <4> QED
        BY <4>2, <4>3
    <3> QED
      BY <3>2, <3>3
  <2> QED
    BY <2>6, <2>7, <2>8 DEF ParsedBehind, r, end
<1> QED
  BY <1>8, <1>9

\* A byte with the dash before it.
LEMMA ByteParsed ==
    ASSUME NEW t \in Seq(Byte), NEW dashed \in BOOLEAN, Len(t) = EndOf(dashed, 16), NEW k \in 1..16,
           NEW g, g = [i \in 0..Len(t) |-> ParseAt(t, g, i)],
           ParsedBehind(g[EndOf(dashed, k)], t, dashed, k)
    PROVE  ParsedBehind(g[EndOf(dashed, k - 1)], t, dashed, k - 1)
<1> DEFINE end == EndOf(dashed, k)
           start == EndOf(dashed, k - 1)
<1>1. /\ end = start + 2 + (IF DashBefore(dashed, k) THEN 1 ELSE 0)
      /\ start \in Nat /\ end \in Nat /\ end <= Len(t) /\ Len(t) \in Nat
  <2>1. Len(t) \in Nat
    OBVIOUS
  <2> QED
    BY <2>1, EndFacts
<1>2. start \in 0..Len(t) /\ start + 1 \in 0..Len(t) /\ start # Len(t)
  BY <1>1
<1>3. g[start] = ParseAt(t, g, start) /\ g[start + 1] = ParseAt(t, g, start + 1)
  BY <1>2, Zenon
<1>4. (Len(t) = 36 /\ start \in Dashes) <=> DashBefore(dashed, k)
  <2>1. Len(t) = 36 <=> dashed
    BY EndsOfUuid
  <2>2. dashed /\ start \in Dashes <=> DashBefore(dashed, k)
    BY DashesMeet
  <2> QED
    BY <2>1, <2>2
<1> HIDE DEF start, end
<1>5. CASE ~DashBefore(dashed, k)
  <2>1. start = end - 2
    BY <1>1, <1>5
  <2>2. ParsedBehind(ParseAt(t, g, end - 2), t, dashed, k - 1)
    BY <1>5, DigitsParsed DEF end
  <2> QED
    BY <1>3, <2>1, <2>2 DEF start
<1>6. CASE DashBefore(dashed, k) /\ t[start + 1] = Dash
  <2>1. start + 1 = end - 2
    BY <1>1, <1>6
  <2>2. ParsedBehind(ParseAt(t, g, end - 2), t, dashed, k - 1)
    BY <1>6, <2>1, DigitsParsed DEF end
  <2>3. g[start] = g[start + 1]
    BY <1>2, <1>3, <1>4, <1>6 DEF ParseAt
  <2> QED
    BY <1>3, <2>1, <2>2, <2>3 DEF start
<1>7. CASE DashBefore(dashed, k) /\ t[start + 1] # Dash
  <2>1. g[start] = [ok |-> FALSE, bytes |-> <<>>]
    BY <1>2, <1>3, <1>4, <1>7 DEF ParseAt
  <2>2. g[start] \in Parses /\ ~g[start].ok
    BY <2>1 DEF Parses
  <2>3. start + 1 = end - 2
    BY <1>1, <1>7
  <2>4. ~Spelled(t, dashed, k) /\ k \in ((k - 1) + 1)..16
    BY <1>7, <2>3 DEF Spelled, end
  <2> QED
    BY <2>2, <2>4 DEF ParsedBehind, start
<1> QED
  BY <1>5, <1>6, <1>7

\* The parser takes the texts whose bytes are all spelled, and returns those bytes.
LEMMA ParsedFacts ==
    ASSUME NEW t \in Seq(Byte), NEW dashed \in BOOLEAN, Len(t) = EndOf(dashed, 16)
    PROVE  ParsedBehind(Parsed(t), t, dashed, 0)
<1> DEFINE g == ParseFrom(t)
           Good(m) == ParsedBehind(g[EndOf(dashed, 16 - m)], t, dashed, 16 - m)
           T == {m \in 0..16 : Good(m)}
<1>1. g = [i \in 0..Len(t) |-> ParseAt(t, g, i)]
  BY ParseFromSolves
<1> HIDE DEF g
<1>2. 0 \in T
  <2>1. Len(t) \in 0..Len(t)
    OBVIOUS
  <2>2. g[Len(t)] = ParseAt(t, g, Len(t))
    BY <1>1, <2>1
  <2>3. g[Len(t)] = [ok |-> TRUE, bytes |-> <<>>]
    BY <2>2 DEF ParseAt
  <2>4. g[Len(t)] \in Parses /\ g[Len(t)].ok /\ Len(g[Len(t)].bytes) = 0
    BY <2>3 DEF Parses
  <2>5. ParsedBehind(g[Len(t)], t, dashed, 16)
    BY <2>4 DEF ParsedBehind
  <2> QED
    BY <2>5
<1>3. ASSUME NEW m \in 0..16, m < 16, Good(m) PROVE m + 1 \in 0..16 /\ Good(m + 1)
  <2>1. m + 1 \in 0..16 /\ 16 - m \in 1..16 /\ 16 - (m + 1) = (16 - m) - 1
    BY <1>3
  <2> DEFINE k == 16 - m
  <2>2. ParsedBehind(g[EndOf(dashed, k)], t, dashed, k)
    BY <1>3
  <2>3. ParsedBehind(g[EndOf(dashed, k - 1)], t, dashed, k - 1)
    <3> HIDE DEF Good
    <3>1. k \in 1..16
      BY <2>1
    <3> HIDE DEF k
    <3> QED
      BY <1>1, <2>2, <3>1, ByteParsed
  <2> QED
    BY <2>1, <2>3
<1>4. \A m \in 0..16 : m \in T
  <2>1. \A m \in 0..16 : m < 16 /\ m \in T => m + 1 \in T
    <3> HIDE DEF Good
    <3> QED
      BY <1>3
  <2> HIDE DEF T
  <2> QED
    BY <1>2, <2>1, UpTo
<1>5. Good(16)
  <2> HIDE DEF Good
  <2>1. 16 \in 0..16
    OBVIOUS
  <2> QED
    BY <1>4, <2>1
<1>6. g[EndOf(dashed, 0)] = Parsed(t)
  BY EndsOfUuid, ParsedIsParseFrom DEF g
<1> QED
  BY <1>5, <1>6

\* A character without regard to its case.
Low(c) == IF c \in UpperA..(UpperA + 25) THEN c + 32 ELSE c
SameButCase(t, w) == Len(t) = Len(w) /\ \A p \in 1..Len(w) : Low(t[p]) = Low(w[p])

LEMMA LowerCaseSame ==
    ASSUME NEW t \in Seq(Byte), NEW w \in Seq(Byte)
    PROVE  LowerCase(t) = LowerCase(w) <=> SameButCase(t, w)
<1>1. /\ LowerCase(t) = [p \in 1..Len(t) |-> Low(t[p])]
      /\ LowerCase(w) = [p \in 1..Len(w) |-> Low(w[p])]
  BY DEF LowerCase, Low
<1>2. ASSUME LowerCase(t) = LowerCase(w) PROVE SameButCase(t, w)
  <2>1. DOMAIN LowerCase(t) = 1..Len(t) /\ DOMAIN LowerCase(w) = 1..Len(w)
    BY <1>1
  <2>2. 1..Len(t) = 1..Len(w) /\ Len(t) \in Nat /\ Len(w) \in Nat
    BY <2>1, <1>2
  <2>3. Len(t) = Len(w)
    <3>1. \A p \in Int : p \in 1..Len(t) <=> p \in 1..Len(w)
      BY <2>2
    <3>2. (Len(t) \in 1..Len(t) <=> Len(t) \in 1..Len(w)) /\ (Len(w) \in 1..Len(t) <=> Len(w) \in 1..Len(w))
      BY <2>2, <3>1
    <3> QED
      BY <2>2, <3>2
  <2>4. ASSUME NEW p \in 1..Len(w) PROVE Low(t[p]) = Low(w[p])
    <3>1. LowerCase(t)[p] = Low(t[p]) /\ LowerCase(w)[p] = Low(w[p])
      BY <1>1, <2>3
    <3> QED
      BY <1>2, <3>1
  <2> QED
    BY <2>3, <2>4 DEF SameButCase
<1>3. ASSUME SameButCase(t, w) PROVE LowerCase(t) = LowerCase(w)
  BY <1>1, <1>3 DEF SameButCase
<1> QED
  BY <1>2, <1>3

\* The digits of a nibble are those the parser takes for it.
LEMMA DigitOfNibble ==
    ASSUME NEW c \in Byte, NEW d \in 0..15, NEW flags
    PROVE  Low(c) = Low(alphabet(d, flags)) <=> isxdigit(c) /\ denibble(c) = d
BY DEF Low, alphabet, isxdigit, isdigit, denibble, Zero, LowerA, UpperA, Byte

LEMMA NibbleOfDigit ==
    ASSUME NEW c \in Byte, isxdigit(c)
    PROVE  denibble(c) \in 0..15
BY DEF isxdigit, isdigit, denibble, Zero, LowerA, UpperA, Byte

LEMMA DashIsDash ==
    ASSUME NEW c \in Byte
    PROVE  Low(c) = Low(Dash) <=> c = Dash
BY DEF Low, Dash, UpperA, Byte

LEMMA NibblesOfByte ==
    ASSUME NEW b \in Byte
    PROVE  b \div 16 \in 0..15 /\ b % 16 \in 0..15
BY DEF Byte

LEMMA ByteOfItsNibbles ==
    ASSUME NEW b \in Byte, NEW upper \in 0..15, NEW lower \in 0..15
    PROVE  (upper * 16 + lower) % 256 = b <=> upper = b \div 16 /\ lower = b % 16
<1>1. upper * 16 + lower \in 0..255
  OBVIOUS
<1>2. (upper * 16 + lower) % 256 = upper * 16 + lower
  BY <1>1
<1>3. b \in Nat
  BY DEF Byte
<1>5. b = 16 * (b \div 16) + (b % 16)
  BY <1>3
<1>4. b \div 16 \in Int /\ b % 16 \in 0..15
  BY NibblesOfByte
<1>6. ASSUME NEW h \in Int, NEW l \in 0..15
      PROVE  upper * 16 + lower = 16 * h + l <=> upper = h /\ lower = l
  OBVIOUS
<1>7. upper * 16 + lower = 16 * (b \div 16) + (b % 16) <=> upper = b \div 16 /\ lower = b % 16
  BY <1>4, <1>6
<1> QED
  BY <1>2, <1>5, <1>7, Zenon

SameByte(t, w, dashed, k) ==
    /\ Low(t[EndOf(dashed, k) - 1]) = Low(w[EndOf(dashed, k) - 1])
    /\ Low(t[EndOf(dashed, k)]) = Low(w[EndOf(dashed, k)])
    /\ DashBefore(dashed, k) => Low(t[EndOf(dashed, k) - 2]) = Low(w[EndOf(dashed, k) - 2])

\* A byte is spelled in a text as it is written in another, but for the case.
LEMMA SpelledAsWritten ==
    ASSUME NEW t \in Seq(Byte), NEW w \in Seq(Byte), NEW dashed \in BOOLEAN, NEW k \in 1..16,
           Len(t) = EndOf(dashed, 16), Len(w) = EndOf(dashed, 16),
           NEW u \in [1..SIZE -> Byte], NEW flags, Written(u, flags, w, dashed, k)
    PROVE  SameByte(t, w, dashed, k) <=> Spelled(t, dashed, k) /\ ByteAt(t, dashed, k) = u[k]
<1> DEFINE end == EndOf(dashed, k)
           upper == t[end - 1]
           lower == t[end]
           n == u[k]
<1>1. /\ end - 1 \in 1..Len(t) /\ end \in 1..Len(t)
      /\ DashBefore(dashed, k) => end - 2 \in 1..Len(t)
  <2>1. k \in 1..k /\ Len(t) \in Nat
    OBVIOUS
  <2>2. end \in Nat /\ end \in 2..end /\ end <= Len(t) /\ (DashBefore(dashed, k) => end > 2)
    BY <2>1, EndFacts
  <2> QED
    BY <2>1, <2>2
<1>2. upper \in Byte /\ lower \in Byte /\ n \in Byte /\ (DashBefore(dashed, k) => t[end - 2] \in Byte)
  <2>1. k \in 1..SIZE
    BY DEF SIZE
  <2> QED
    BY <1>1, <2>1, ElementOfSeq
<1>3. n \div 16 \in 0..15 /\ n % 16 \in 0..15
  BY <1>2, NibblesOfByte
<1>4. /\ w[end - 1] = alphabet(n \div 16, flags) /\ w[end] = alphabet(n % 16, flags)
      /\ DashBefore(dashed, k) => w[end - 2] = Dash
  BY DEF Written
<1> HIDE DEF n
<1> HIDE DEF upper, lower, end
<1>5. Low(upper) = Low(w[end - 1]) <=> isxdigit(upper) /\ denibble(upper) = n \div 16
  BY <1>2, <1>3, <1>4, DigitOfNibble
<1>9. Low(lower) = Low(w[end]) <=> isxdigit(lower) /\ denibble(lower) = n % 16
  BY <1>2, <1>3, <1>4, DigitOfNibble
<1>10. DashBefore(dashed, k) => (Low(t[end - 2]) = Low(w[end - 2]) <=> t[end - 2] = Dash)
  BY <1>2, <1>4, DashIsDash
<1>6. ASSUME isxdigit(upper), isxdigit(lower)
      PROVE  ByteAt(t, dashed, k) = n <=> denibble(upper) = n \div 16 /\ denibble(lower) = n % 16
  <2>1. denibble(upper) \in 0..15 /\ denibble(lower) \in 0..15
    BY <1>2, <1>6, NibbleOfDigit
  <2>2. ByteAt(t, dashed, k) = (denibble(upper) * 16 + denibble(lower)) % 256
    BY DEF ByteAt, upper, lower, end
  <2>3. (denibble(upper) * 16 + denibble(lower)) % 256 = n
        <=> denibble(upper) = n \div 16 /\ denibble(lower) = n % 16
    <3>1. \A h, l \in 0..15 : (h * 16 + l) % 256 = n <=> h = n \div 16 /\ l = n % 16
      <4>1. n \in Byte
        BY <1>2
      <4> QED
        BY <4>1, ByteOfItsNibbles
    <3> HIDE DEF upper, lower
    <3> DEFINE x == denibble(upper)
               y == denibble(lower)
    <3>2. x \in 0..15 /\ y \in 0..15
      BY <2>1
    <3> HIDE DEF x, y
    <3>3. (x * 16 + y) % 256 = n <=> x = n \div 16 /\ y = n % 16
      BY <3>1, <3>2
    <3> QED
      BY <3>3 DEF x, y
  <2> QED
    BY <2>2, <2>3, Zenon
<1>7. Spelled(t, dashed, k) <=> isxdigit(upper) /\ isxdigit(lower) /\ (DashBefore(dashed, k) => t[end - 2] = Dash)
  BY DEF Spelled, upper, lower, end
<1>8. SameByte(t, w, dashed, k)
      <=> /\ Low(upper) = Low(w[end - 1]) /\ Low(lower) = Low(w[end])
          /\ DashBefore(dashed, k) => Low(t[end - 2]) = Low(w[end - 2])
  BY DEF SameByte, upper, lower, end
<1> QED
  BY <1>5, <1>6, <1>7, <1>8, <1>9, <1>10, Zenon DEF n

\* A text is written like a formatted one exactly if it spells the bytes of that.
LEMMA TextSpelled ==
    ASSUME NEW t \in Seq(Byte), NEW w, NEW dashed \in BOOLEAN, Len(t) = EndOf(dashed, 16),
           NEW u \in [1..SIZE -> Byte], NEW flags, WrittenUpTo(u, flags, w, dashed, 16)
    PROVE  SameButCase(t, w) <=> \A k \in 1..16 : Spelled(t, dashed, k) /\ ByteAt(t, dashed, k) = u[k]
<1> DEFINE Same(p) == Low(t[p]) = Low(w[p])
           Digits(k) == /\ Same(EndOf(dashed, k) - 1) /\ Same(EndOf(dashed, k))
                        /\ DashBefore(dashed, k) => Same(EndOf(dashed, k) - 2)
           Spells(k) == Spelled(t, dashed, k) /\ ByteAt(t, dashed, k) = u[k]
<1>1. /\ w \in Seq(Byte) /\ Len(w) = EndOf(dashed, 16) /\ Len(t) = Len(w) /\ Len(w) \in Nat
      /\ \A k \in 1..16 : Written(u, flags, w, dashed, k)
  BY DEF WrittenUpTo
<1>2. ASSUME NEW k \in 1..16 PROVE Digits(k) <=> Spells(k)
  <2>1. SameByte(t, w, dashed, k) <=> Spells(k)
    BY <1>1, SpelledAsWritten
  <2> QED
    BY <2>1 DEF SameByte
<1>3. SameButCase(t, w) <=> \A p \in 1..Len(w) : Same(p)
  BY <1>1 DEF SameButCase
<1> HIDE DEF Same, Spells
<1>4. ASSUME \A p \in 1..Len(w) : Same(p), NEW k \in 1..16 PROVE Digits(k)
  <2>1. k \in 1..k
    OBVIOUS
  <2>2. /\ EndOf(dashed, k) \in Nat /\ EndOf(dashed, k) \in 2..EndOf(dashed, k) /\ EndOf(dashed, k) <= Len(w)
        /\ DashBefore(dashed, k) => EndOf(dashed, k) > 2
    BY <1>1, <2>1, EndFacts
  <2> DEFINE end == EndOf(dashed, k)
             n == Len(w)
  <2> HIDE DEF end, n
  <2>4. end \in Nat /\ end >= 2 /\ end <= n /\ n \in Nat /\ (DashBefore(dashed, k) => end > 2)
    BY <1>1, <2>2 DEF end, n
  <2>5. end - 1 \in 1..n /\ end \in 1..n /\ (DashBefore(dashed, k) => end - 2 \in 1..n)
    BY <2>4
  <2>3. /\ EndOf(dashed, k) - 1 \in 1..Len(w) /\ EndOf(dashed, k) \in 1..Len(w)
        /\ DashBefore(dashed, k) => EndOf(dashed, k) - 2 \in 1..Len(w)
    BY <2>5 DEF end, n
  <2> QED
    BY <1>4, <2>3
<1>5. ASSUME \A k \in 1..16 : Digits(k), NEW p \in 1..Len(w) PROVE Same(p)
  <2>1. PICK k \in 1..16 : \/ p = EndOf(dashed, k) \/ p = EndOf(dashed, k) - 1
                           \/ DashBefore(dashed, k) /\ p = EndOf(dashed, k) - 2
    <3>1. p \in 1..EndOf(dashed, 16)
      BY <1>1
    <3> HIDE DEF Same
    <3> QED
      BY <3>1, CharacterOfByte
  <2>2. Digits(k)
    BY <1>5
  <2> QED
    BY <2>1, <2>2
<1> HIDE DEF Digits
<1>6. (\A p \in 1..Len(w) : Same(p)) <=> \A k \in 1..16 : Spells(k)
  BY <1>2, <1>4, <1>5
<1> QED
  BY <1>3, <1>6 DEF Spells

LEMMA BracedFacts ==
    ASSUME NEW t \in Seq(Byte), NEW flags
    PROVE  /\ Braced(t, flags) \in Seq(Byte)
           /\ "MS" \notin flags => Braced(t, flags) = t
           /\ "MS" \in flags =>
                  /\ Len(Braced(t, flags)) = Len(t) + 2
                  /\ Braced(t, flags)[1] = OpenBrace /\ Braced(t, flags)[Len(t) + 2] = CloseBrace
                  /\ \A p \in 1..Len(t) : Braced(t, flags)[p + 1] = t[p]
<1>1. CASE "MS" \notin flags
  <2>1. <<>> \o t \o <<>> = t
    BY ConcatEmptySeq
  <2> QED
    BY <1>1, <2>1 DEF Braced
<1>2. CASE "MS" \in flags
  <2> DEFINE open1 == <<OpenBrace>>
             close1 == <<CloseBrace>>
             a == open1 \o t
             b == a \o close1
  <2>1. Braced(t, flags) = b
    BY <1>2 DEF Braced
  <2>2. /\ open1 \in Seq(Byte) /\ Len(open1) = 1 /\ open1[1] = OpenBrace
        /\ close1 \in Seq(Byte) /\ Len(close1) = 1 /\ close1[1] = CloseBrace
        /\ Len(t) \in Nat
    BY DEF Byte, OpenBrace, CloseBrace
  <2> HIDE DEF open1, close1
  <2>3. /\ a \in Seq(Byte) /\ Len(a) = Len(open1) + Len(t)
        /\ \A p \in 1..(Len(open1) + Len(t)) : a[p] = IF p <= Len(open1) THEN open1[p] ELSE t[p - Len(open1)]
    BY <2>2, ConcatProperties
  <2> HIDE DEF a
  <2>4. /\ b \in Seq(Byte) /\ Len(b) = Len(a) + Len(close1)
        /\ \A p \in 1..(Len(a) + Len(close1)) : b[p] = IF p <= Len(a) THEN a[p] ELSE close1[p - Len(a)]
    <3>1. a \in Seq(Byte) /\ close1 \in Seq(Byte)
      BY <2>2, <2>3
    <3> QED
      BY <3>1, ConcatProperties
  <2> HIDE DEF b
  <2>5. Len(a) = Len(t) + 1 /\ Len(b) = Len(t) + 2
    BY <2>2, <2>3, <2>4
  <2>6. b[1] = OpenBrace
    <3>1. 1 \in 1..(Len(a) + Len(close1)) /\ 1 <= Len(a) /\ 1 \in 1..(Len(open1) + Len(t)) /\ 1 <= Len(open1)
      BY <2>2, <2>5
    <3> QED
      BY <2>2, <2>3, <2>4, <3>1
  <2>7. b[Len(t) + 2] = CloseBrace
    <3>1. Len(t) + 2 \in 1..(Len(a) + Len(close1)) /\ ~(Len(t) + 2 <= Len(a)) /\ (Len(t) + 2) - Len(a) = 1
      BY <2>2, <2>5
    <3> QED
      BY <2>2, <2>4, <3>1
  <2>8. ASSUME NEW p \in 1..Len(t) PROVE b[p + 1] = t[p]
    <3>1. /\ p + 1 \in 1..(Len(a) + Len(close1)) /\ p + 1 <= Len(a)
          /\ p + 1 \in 1..(Len(open1) + Len(t)) /\ ~(p + 1 <= Len(open1)) /\ (p + 1) - Len(open1) = p
      BY <2>2, <2>5
    <3> QED
      BY <2>3, <2>4, <3>1
  <2> QED
    BY <1>2, <2>1, <2>4, <2>5, <2>6, <2>7, <2>8
<1> QED
  BY <1>1, <1>2

LEMMA InnerFacts ==
    ASSUME NEW s \in Seq(Byte)
    PROVE  /\ ~HasBraces(s) => Inner(s) = s
           /\ HasBraces(s) => /\ Len(Inner(s)) = Len(s) - 2
                              /\ \A p \in 1..(Len(s) - 2) : Inner(s)[p] = s[p + 1]
<1>1. CASE ~HasBraces(s)
  BY <1>1 DEF Inner
<1>2. CASE HasBraces(s)
  <2>1. /\ 2 \in Int /\ Len(s) - 1 \in Int
        /\ \A i \in 2..(Len(s) - 1) : s[i] \in Byte
    <3>1. \A i \in 2..(Len(s) - 1) : i \in 1..Len(s)
      OBVIOUS
    <3> QED
      BY <3>1, ElementOfSeq
  <2>2. Len(s) \in {34, 38}
    BY <1>2 DEF HasBraces
  <2>3. /\ Len(SubSeq(s, 2, Len(s) - 1)) = IF 2 <= Len(s) - 1 THEN Len(s) - 1 - 2 + 1 ELSE 0
        /\ \A i \in 1..(Len(s) - 1 - 2 + 1) : SubSeq(s, 2, Len(s) - 1)[i] = s[2 + i - 1]
    BY <2>1, SubSeqProperties
  <2>4. Len(s) - 1 - 2 + 1 = Len(s) - 2 /\ 2 <= Len(s) - 1
    <3>1. ASSUME NEW n \in {34, 38} PROVE n - 1 - 2 + 1 = n - 2 /\ 2 <= n - 1
      OBVIOUS
    <3> QED
      BY <2>2, <3>1
  <2>5. \A i \in 1..(Len(s) - 2) : 2 + i - 1 = i + 1
    BY <2>2
  <2> QED
    BY <1>2, <2>3, <2>4, <2>5 DEF Inner
<1> QED
  BY <1>1, <1>2

LEMMA BracesAreBraces ==
    ASSUME NEW c \in Byte
    PROVE  /\ Low(c) = Low(OpenBrace) <=> c = OpenBrace
           /\ Low(c) = Low(CloseBrace) <=> c = CloseBrace
BY DEF Low, OpenBrace, CloseBrace, UpperA, Byte

\* A text in braces is the one it is compared with if what is in them is.
LEMMA FramedSame ==
    ASSUME NEW s \in Seq(Byte), NEW t \in Seq(Byte), Len(t) \in {32, 36}, NEW flags
    PROVE  SameButCase(s, Braced(t, flags))
           <=> WellFramed(s) /\ (HasBraces(s) <=> "MS" \in flags) /\ SameButCase(Inner(s), t)
<1> DEFINE b == Braced(t, flags)
<1>1. Len(s) \in Nat /\ Len(t) \in Nat
  OBVIOUS
<1>2. CASE "MS" \notin flags
  <2>1. b = t
    BY <1>2, BracedFacts
  <2>2. ASSUME SameButCase(s, t)
        PROVE  WellFramed(s) /\ ~HasBraces(s) /\ SameButCase(Inner(s), t)
    <3>1. Len(s) \in {32, 36}
      BY <2>2 DEF SameButCase
    <3>2. ~HasBraces(s)
      <4>1. {32, 36} \cap {34, 38} = {}
        OBVIOUS
      <4> QED
        BY <3>1, <4>1 DEF HasBraces
    <3>3. Inner(s) = s
      BY <3>2, InnerFacts
    <3> QED
      BY <2>2, <3>1, <3>2, <3>3 DEF WellFramed
  <2>3. ASSUME ~HasBraces(s), SameButCase(Inner(s), t) PROVE SameButCase(s, t)
    BY <2>3, InnerFacts
  <2> QED
    BY <1>2, <2>1, <2>2, <2>3
<1>3. CASE "MS" \in flags
  <2>1. /\ Len(b) = Len(t) + 2 /\ b[1] = OpenBrace /\ b[Len(t) + 2] = CloseBrace
        /\ \A p \in 1..Len(t) : b[p + 1] = t[p]
    BY <1>3, BracedFacts
  <2> HIDE DEF b
  <2>2. ASSUME SameButCase(s, b)
        PROVE  WellFramed(s) /\ HasBraces(s) /\ SameButCase(Inner(s), t)
    <3>1. Len(s) = Len(t) + 2 /\ Len(s) \in {34, 38} /\ \A p \in 1..(Len(t) + 2) : Low(s[p]) = Low(b[p])
      <4>1. Len(s) = Len(t) + 2 /\ \A p \in 1..(Len(t) + 2) : Low(s[p]) = Low(b[p])
        BY <2>1, <2>2 DEF SameButCase
      <4>2. ASSUME NEW n \in {32, 36} PROVE n + 2 \in {34, 38}
        OBVIOUS
      <4> QED
        BY <4>1, <4>2
    <3>2. HasBraces(s)
      BY <3>1 DEF HasBraces
    <3>3. Len(Inner(s)) = Len(t) /\ \A p \in 1..Len(t) : Inner(s)[p] = s[p + 1]
      <4>1. Len(s) - 2 = Len(t)
        BY <1>1, <3>1
      <4> QED
        BY <3>2, <4>1, InnerFacts
    <3>4. s[1] = OpenBrace /\ s[Len(s)] = CloseBrace
      <4>1. 1 \in 1..(Len(t) + 2) /\ Len(t) + 2 \in 1..(Len(t) + 2) /\ 1 \in 1..Len(s) /\ Len(s) \in 1..Len(s)
        BY <1>1, <3>1
      <4>2. s[1] \in Byte /\ s[Len(s)] \in Byte
        BY <4>1, ElementOfSeq
      <4>3. Low(s[1]) = Low(OpenBrace) /\ Low(s[Len(s)]) = Low(CloseBrace)
        BY <2>1, <3>1, <4>1
      <4> QED
        BY <4>2, <4>3, BracesAreBraces
    <3>5. SameButCase(Inner(s), t)
      <4>1. ASSUME NEW p \in 1..Len(t) PROVE Low(Inner(s)[p]) = Low(t[p])
        <5>1. p + 1 \in 1..(Len(t) + 2)
          BY <1>1
        <5> QED
          BY <2>1, <3>1, <3>3, <5>1
      <4> QED
        BY <3>3, <4>1 DEF SameButCase
    <3> QED
      BY <3>1, <3>2, <3>3, <3>4, <3>5 DEF WellFramed
  <2>3. ASSUME WellFramed(s), HasBraces(s), SameButCase(Inner(s), t)
        PROVE  SameButCase(s, b)
    <3>1. s[1] = OpenBrace /\ s[Len(s)] = CloseBrace /\ Len(s) \in {34, 38}
      BY <2>3 DEF WellFramed, HasBraces
    <3>2. /\ Len(Inner(s)) = Len(s) - 2 /\ \A p \in 1..(Len(s) - 2) : Inner(s)[p] = s[p + 1]
      BY <2>3, InnerFacts
    <3>3. Len(Inner(s)) = Len(t) /\ \A p \in 1..Len(t) : Low(Inner(s)[p]) = Low(t[p])
      BY <2>3 DEF SameButCase
    <3>4. Len(s) = Len(b) /\ Len(s) - 2 = Len(t) /\ Len(b) \in Nat
      BY <1>1, <2>1, <3>2, <3>3
    <3>5. ASSUME NEW p \in 1..Len(b) PROVE Low(s[p]) = Low(b[p])
      <4>1. p = 1 \/ p = Len(t) + 2 \/ (p - 1 \in 1..Len(t) /\ (p - 1) + 1 = p)
        BY <1>1, <2>1
      <4>2. CASE p = 1
        BY <2>1, <3>1, <4>2
      <4>3. CASE p = Len(t) + 2
        BY <2>1, <3>1, <3>4, <4>3
      <4>4. CASE p - 1 \in 1..Len(t) /\ (p - 1) + 1 = p
        <5>1. Inner(s)[p - 1] = s[p] /\ b[p] = t[p - 1] /\ Low(Inner(s)[p - 1]) = Low(t[p - 1])
          <6> DEFINE q == p - 1
          <6>1. q \in 1..Len(t) /\ q \in 1..(Len(s) - 2) /\ q + 1 = p
            BY <3>4, <4>4
          <6> HIDE DEF q
          <6>2. Inner(s)[q] = s[q + 1]
            BY <3>2, <6>1
          <6>3. b[q + 1] = t[q]
            BY <2>1, <6>1
          <6>4. Low(Inner(s)[q]) = Low(t[q])
            BY <3>3, <6>1
          <6> QED
            BY <6>1, <6>2, <6>3, <6>4 DEF q
        <5> QED
          BY <5>1
      <4> QED
        BY <4>1, <4>2, <4>3, <4>4
    <3> QED
      BY <3>4, <3>5 DEF SameButCase
  <2> QED
    BY <1>3, <2>2, <2>3 DEF b
<1> QED
  BY <1>2, <1>3

\* vsc_uuid_parse answers with a UUID exactly if the text spells it.
LEMMA ParseSpells ==
    ASSUME NEW s \in Seq(Byte), NEW u \in [1..SIZE -> Byte], NEW v \in [1..SIZE -> Byte],
           NEW dashed \in BOOLEAN, Len(Inner(s)) = EndOf(dashed, 16)
    PROVE  vsc_uuid_parse(v, s) = [ret |-> "ok", uuid |-> u]
           <=> /\ WellFramed(s)
               /\ \A k \in 1..16 : Spelled(Inner(s), dashed, k) /\ ByteAt(Inner(s), dashed, k) = u[k]
<1> DEFINE t == Inner(s)
           r == vsc_uuid_parse(v, s)
           p == Parsed(t)
           Spells(k) == Spelled(t, dashed, k)
           Same(k) == ByteAt(t, dashed, k) = u[k]
<1>1. CASE ~WellFramed(s)
  <2>1. r.ret = "EINVAL"
    BY <1>1 DEF vsc_uuid_parse
  <2> QED
    BY <1>1, <2>1
<1>2. CASE WellFramed(s)
  <2>1. t \in Seq(Byte)
    BY <1>2, InnerType
  <2>2. ParsedBehind(p, t, dashed, 0)
    BY <2>1, ParsedFacts
  <2>3. r = [ret |-> IF p.ok THEN "ok" ELSE "EINVAL",
             uuid |-> [k \in 1..SIZE |-> IF k <= Len(p.bytes) THEN p.bytes[k] ELSE v[k]]]
    BY <1>2 DEF vsc_uuid_parse
  <2> HIDE DEF p, r, t
  <2>4. p.ok <=> \A k \in 1..16 : Spells(k)
    BY <2>2 DEF ParsedBehind
  <2>5. p.ok => Len(p.bytes) = 16 /\ \A k \in 1..16 : p.bytes[k] = ByteAt(t, dashed, k)
    <3>1. p.ok => /\ Len(p.bytes) = 16 - 0
                  /\ \A k \in 1..(16 - 0) : p.bytes[k] = ByteAt(t, dashed, 0 + k)
      BY <2>2, Zenon DEF ParsedBehind
    <3> HIDE DEF p
    <3> QED
      BY <3>1
  <2> HIDE DEF Spells
  <2>6. CASE ~p.ok
    <3>1. r.ret = "EINVAL"
      BY <2>3, <2>6
    <3> QED
      BY <1>2, <2>4, <2>6, <3>1 DEF r, t, Spells
  <2>7. CASE p.ok
    <3>1. r = [ret |-> "ok", uuid |-> [k \in 1..SIZE |-> ByteAt(t, dashed, k)]]
      <4>1. ASSUME NEW k \in 1..SIZE
            PROVE  (IF k <= Len(p.bytes) THEN p.bytes[k] ELSE v[k]) = ByteAt(t, dashed, k)
        <5>1. k \in 1..16 /\ k <= 16
          BY DEF SIZE
        <5>2. Len(p.bytes) = 16 /\ p.bytes[k] = ByteAt(t, dashed, k)
          BY <2>5, <2>7, <5>1
        <5> QED
          BY <5>1, <5>2
      <4> QED
        BY <2>3, <2>7, <4>1
    <3>2. u = [k \in 1..SIZE |-> u[k]]
      OBVIOUS
    <3>3. r = [ret |-> "ok", uuid |-> u] <=> \A k \in 1..16 : Same(k)
      <4> DEFINE w == [k \in 1..SIZE |-> ByteAt(t, dashed, k)]
      <4>1. r = [ret |-> "ok", uuid |-> u] <=> w = u
        BY <3>1
      <4>2. w = u <=> \A k \in 1..SIZE : ByteAt(t, dashed, k) = u[k]
        BY <3>2
      <4> QED
        BY <4>1, <4>2 DEF SIZE
    <3> HIDE DEF Same
    <3> QED
      BY <1>2, <2>4, <2>7, <3>3 DEF r, t, Spells, Same
  <2> QED
    BY <2>6, <2>7
<1> QED
  BY <1>1, <1>2

\* A text parses to a UUID exactly if it is what the formatter makes of it, in the same
\* framing and but for the case of its letters.
LEMMA ParsesAsFormatted ==
    ASSUME NEW s \in Seq(Byte), NEW u \in [1..SIZE -> Byte], NEW v \in [1..SIZE -> Byte],
           NEW flags, NEW dashed \in BOOLEAN, dashed <=> "COMPACT" \notin flags
    PROVE  LowerCase(s) = LowerCase(vsc_uuid_format(u, flags))
           <=> /\ vsc_uuid_parse(v, s) = [ret |-> "ok", uuid |-> u]
               /\ Len(Inner(s)) = EndOf(dashed, 16)
               /\ HasBraces(s) <=> "MS" \in flags
<1> DEFINE t == FormatTo(u, flags)[SIZE]
           f == vsc_uuid_format(u, flags)
           n == EndOf(dashed, 16)
           Parsing == vsc_uuid_parse(v, s) = [ret |-> "ok", uuid |-> u]
           Alike == \A k \in 1..16 : Spelled(Inner(s), dashed, k) /\ ByteAt(Inner(s), dashed, k) = u[k]
           Braces == HasBraces(s) <=> "MS" \in flags
<1>1. WrittenUpTo(u, flags, t, dashed, 16)
  BY FormatToFacts
<1> HIDE DEF t
<1>2. t \in Seq(Byte) /\ Len(t) = n /\ n \in {32, 36}
  BY <1>1, EndsOfUuid DEF WrittenUpTo
<1>3. f = Braced(t, flags) /\ f \in Seq(Byte)
  BY <1>2, FormatIsBraced, BracedFacts DEF t
<1> HIDE DEF f, n
<1>4. LowerCase(s) = LowerCase(f) <=> SameButCase(s, f)
  BY <1>3, LowerCaseSame
<1>5. SameButCase(s, f) <=> WellFramed(s) /\ Braces /\ SameButCase(Inner(s), t)
  BY <1>2, <1>3, FramedSame
<1>6. SameButCase(Inner(s), t) => Len(Inner(s)) = n
  BY <1>2 DEF SameButCase
<1>7. ASSUME WellFramed(s), Len(Inner(s)) = n PROVE SameButCase(Inner(s), t) <=> Alike
  <2>1. Inner(s) \in Seq(Byte)
    BY <1>7, InnerType
  <2> QED
    BY <1>1, <1>7, <2>1, TextSpelled DEF n
<1>8. ASSUME Len(Inner(s)) = n PROVE Parsing <=> WellFramed(s) /\ Alike
  BY <1>8, ParseSpells DEF n
<1> HIDE DEF Parsing, Alike, Braces
<1>9. LowerCase(s) = LowerCase(f) <=> Parsing /\ Len(Inner(s)) = n /\ Braces
  BY <1>4, <1>5, <1>6, <1>7, <1>8, Zenon
<1> QED
  BY <1>9 DEF f, n, Parsing, Braces

LEMMA FormattedFits ==
    ASSUME NEW u \in [1..SIZE -> Byte], NEW flags
    PROVE  vsc_uuid_format(u, flags) \in Seq(Byte) /\ Len(vsc_uuid_format(u, flags)) < 39
<1> DEFINE dashed == "COMPACT" \notin flags
           t == FormatTo(u, flags)[SIZE]
<1>1. dashed \in BOOLEAN /\ (dashed <=> "COMPACT" \notin flags)
  OBVIOUS
<1>2. WrittenUpTo(u, flags, t, dashed, 16)
  <2> HIDE DEF t
  <2>1. ASSUME NEW d \in BOOLEAN, d <=> "COMPACT" \notin flags PROVE WrittenUpTo(u, flags, t, d, 16)
    BY <2>1, FormatToFacts DEF t
  <2> HIDE DEF dashed
  <2> QED
    BY <1>1, <2>1
<1>3. EndOf(dashed, 16) \in {32, 36}
  <2> HIDE DEF dashed
  <2> QED
    BY <1>1, EndsOfUuid
<1> HIDE DEF t, dashed
<1>4. t \in Seq(Byte) /\ Len(t) \in {32, 36}
  BY <1>2, <1>3 DEF WrittenUpTo
<1>5. vsc_uuid_format(u, flags) = Braced(t, flags)
  BY FormatIsBraced DEF t
<1>6. Braced(t, flags) \in Seq(Byte) /\ Len(Braced(t, flags)) < 39
  <2>1. Len(t) < 37 /\ Len(t) \in Nat
    <3>1. \A k \in {32, 36} : k < 37 /\ k \in Nat
      OBVIOUS
    <3> QED
      BY <1>4, <3>1
  <2> QED
    BY <1>4, <2>1, BracedFacts
<1> QED
  BY <1>5, <1>6

LEMMA FormatReadsBackNow == ASSUME UuidFormat PROVE UuidsReadBack'
<1>1. PICK u \in Uuids, flags \in Formats :
          /\ call' = [name |-> "format", uuid |-> u, flags |-> flags]
          /\ out' = vsc_uuid_format(u, flags)
  BY Zenon DEF UuidFormat, Returns
<1>2. u \in [1..SIZE -> Byte]
  BY CallsAssumption
<1>3. out' \in Seq(Byte) /\ Len(out') < 39
  BY <1>1, <1>2, FormattedFits
<1>4. ASSUME NEW v \in Uuids PROVE vsc_uuid_parse(v, out') = [ret |-> "ok", uuid |-> u]
  <2> DEFINE dashed == "COMPACT" \notin flags
  <2>1. dashed \in BOOLEAN /\ (dashed <=> "COMPACT" \notin flags) /\ v \in [1..SIZE -> Byte]
    BY CallsAssumption
  <2> HIDE DEF dashed
  <2>2. LowerCase(out') = LowerCase(vsc_uuid_format(u, flags))
    BY <1>1
  <2> QED
    BY <1>2, <1>3, <2>1, <2>2, ParsesAsFormatted
<1>5. call'.name = "format" /\ call'.uuid = u
  BY <1>1
<1> QED
  BY <1>3, <1>4, <1>5 DEF UuidsReadBack, Is

LEMMA ParseReadsBackNow == ASSUME UuidParse PROVE UuidsReadBack'
<1>1. PICK v \in Uuids, s \in UuidTexts :
          call' = [name |-> "parse", uuid |-> v, text |-> s] /\ out' = vsc_uuid_parse(v, s)
  BY Zenon DEF UuidParse, Returns
<1>2. v \in [1..SIZE -> Byte] /\ s \in Seq(Byte)
  BY CallsAssumption
<1>3. call'.name = "parse" /\ call'.text = s
  BY <1>1
<1>4. ASSUME out'.ret = "ok" PROVE LowerCase(s) \in Texts36(out'.uuid)
  <2>1. WellFramed(s)
    <3>1. ~WellFramed(s) => out'.ret = "EINVAL"
      BY <1>1 DEF vsc_uuid_parse
    <3> QED
      BY <1>4, <3>1
  <2>2. out' = [ret |-> "ok", uuid |-> out'.uuid] /\ out'.uuid \in [1..SIZE -> Byte]
    <3>1. out' = [ret |-> out'.ret, uuid |-> out'.uuid]
      BY <1>1, <2>1 DEF vsc_uuid_parse
    <3>2. out'.uuid \in [1..SIZE -> Byte]
      BY UuidParseTypes, <1>3 DEF ResultInv, ParseType, Is, UuidParse, Returns
    <3> QED
      BY <1>4, <3>1, <3>2
  <2> DEFINE dashed == Len(Inner(s)) = 36
             flags == (IF HasBraces(s) THEN {"MS"} ELSE {}) \cup (IF dashed THEN {} ELSE {"COMPACT"})
  <2>3. /\ dashed \in BOOLEAN /\ flags \in Formats
        /\ (dashed <=> "COMPACT" \notin flags) /\ (HasBraces(s) <=> "MS" \in flags)
    BY DEF Formats
  <2>4. Len(Inner(s)) = EndOf(dashed, 16)
    <3>1. Len(Inner(s)) \in {32, 36}
      BY <2>1 DEF WellFramed
    <3> QED
      BY <3>1, EndsOfUuid
  <2> HIDE DEF dashed, flags
  <2>5. LowerCase(s) = LowerCase(vsc_uuid_format(out'.uuid, flags))
    BY <1>1, <1>2, <2>2, <2>3, <2>4, ParsesAsFormatted
  <2> QED
    BY <2>3, <2>5 DEF Texts36
<1>5. ASSUME NEW u \in Uuids, LowerCase(s) \in Texts36(u) PROVE out'.ret = "ok"
  <2>1. PICK flags \in Formats : LowerCase(s) = LowerCase(vsc_uuid_format(u, flags))
    BY <1>5 DEF Texts36
  <2> DEFINE dashed == "COMPACT" \notin flags
  <2>2. dashed \in BOOLEAN /\ (dashed <=> "COMPACT" \notin flags) /\ u \in [1..SIZE -> Byte]
    BY CallsAssumption
  <2> HIDE DEF dashed
  <2>3. vsc_uuid_parse(v, s) = [ret |-> "ok", uuid |-> u]
    BY <1>2, <2>1, <2>2, ParsesAsFormatted
  <2> QED
    BY <1>1, <2>3
<1> QED
  BY <1>3, <1>4, <1>5 DEF UuidsReadBack, Is
-----------------------------------------------------------------------------
(* Packed, written and measured numbers                                    *)

\* What a pixel is made of its fields, each as wide as its mask.
Fields565(x, y, z) == (x % 32) * 2048 + (y % 64) * 32 + (z % 32)
Fields1555(x, y, z, w) == (w % 2) * 32768 + (x % 32) * 1024 + (y % 32) * 32 + (z % 32)

\* A field of five or six bits comes back from the eight it is widened to.
LEMMA WidenedBack ==
    ASSUME NEW c \in Nat
    PROVE  /\ C5_TO_C8(c) \div 8 = c % 32
           /\ C6_TO_C8(c) \div 4 = c % 64
           /\ C1_TO_C8(c) \div 128 = c % 2
<1>1. PICK x \in 0..31 : x = c % 32
  OBVIOUS
<1>2. PICK y \in 0..63 : y = c % 64
  OBVIOUS
<1>3. PICK z \in 0..1 : z = c % 2
  OBVIOUS
<1>4. (8 * x + (x \div 4)) \div 8 = x
  BY <1>1
<1>5. (4 * y + (y \div 16)) \div 4 = y
  BY <1>2
<1>6. (z * 255) \div 128 = z
  BY <1>3
<1> QED
  BY <1>1, <1>2, <1>3, <1>4, <1>5, <1>6 DEF C5_TO_C8, C6_TO_C8, C1_TO_C8

LEMMA Fields565Back ==
    ASSUME NEW x \in Nat, NEW y \in Nat, NEW z \in Nat
    PROVE  pack_rgb565(Colour(C5_TO_C8(x), C6_TO_C8(y), C5_TO_C8(z), 255)) = Fields565(x, y, z)
<1>1. C5_TO_C8(x) \div 8 = x % 32 /\ C6_TO_C8(y) \div 4 = y % 64 /\ C5_TO_C8(z) \div 8 = z % 32
  BY WidenedBack
<1>2. pack_rgb565(Colour(C5_TO_C8(x), C6_TO_C8(y), C5_TO_C8(z), 255))
      = (C5_TO_C8(x) \div 8) * 2048 + (C6_TO_C8(y) \div 4) * 32 + (C5_TO_C8(z) \div 8)
  BY DEF pack_rgb565, Colour
<1> QED
  BY <1>1, <1>2 DEF Fields565

LEMMA Fields1555Back ==
    ASSUME NEW x \in Nat, NEW y \in Nat, NEW z \in Nat, NEW w \in Nat
    PROVE  pack_argb1555(Colour(C5_TO_C8(x), C5_TO_C8(y), C5_TO_C8(z), C1_TO_C8(w)))
           = Fields1555(x, y, z, w)
<1>1. /\ C5_TO_C8(x) \div 8 = x % 32 /\ C5_TO_C8(y) \div 8 = y % 32 /\ C5_TO_C8(z) \div 8 = z % 32
      /\ C1_TO_C8(w) \div 128 = w % 2
  BY WidenedBack
<1>2. pack_argb1555(Colour(C5_TO_C8(x), C5_TO_C8(y), C5_TO_C8(z), C1_TO_C8(w)))
      = (C1_TO_C8(w) \div 128) * 32768 + (C5_TO_C8(x) \div 8) * 1024 + (C5_TO_C8(y) \div 8) * 32
        + (C5_TO_C8(z) \div 8)
  BY DEF pack_argb1555, Colour
<1> QED
  BY <1>1, <1>2 DEF Fields1555

LEMMA PixelFields ==
    ASSUME NEW p \in Nat, p < 65536
    PROVE  /\ Fields565(p \div 2048, p \div 32, p) = p
           /\ Fields1555(p \div 1024, p \div 32, p, p \div 32768) = p
<1>1. p \div 32 = 64 * (p \div 2048) + ((p \div 32) % 64) /\ p \div 2048 < 32
  OBVIOUS
<1>2. p = 32 * (p \div 32) + (p % 32)
  OBVIOUS
<1>3. p \div 1024 = 32 * (p \div 32768) + ((p \div 1024) % 32) /\ p \div 32768 < 2
  OBVIOUS
<1>4. p \div 32 = 32 * (p \div 1024) + ((p \div 32) % 32)
  OBVIOUS
<1>5. (p \div 2048) % 32 = p \div 2048
  BY <1>1
<1>6. (p \div 32768) % 2 = p \div 32768
  BY <1>3
<1>7. Fields565(p \div 2048, p \div 32, p) = p
  BY <1>1, <1>2, <1>5 DEF Fields565
<1>8. Fields1555(p \div 1024, p \div 32, p, p \div 32768) = p
  BY <1>2, <1>3, <1>4, <1>6 DEF Fields1555
<1> QED
  BY <1>7, <1>8

LEMMA PackedBack ==
    ASSUME NEW p \in Nat, p < 65536
    PROVE  /\ pack_rgb565(unpack_rgb565(p)) = p
           /\ pack_argb1555(unpack_argb1555(p)) = p
<1>1. /\ p \div 32768 \in Nat /\ p \div 2048 \in Nat /\ p \div 1024 \in Nat /\ p \div 32 \in Nat
  OBVIOUS
<1>2. pack_rgb565(unpack_rgb565(p)) = Fields565(p \div 2048, p \div 32, p)
  BY <1>1, Fields565Back DEF unpack_rgb565
<1>3. pack_argb1555(unpack_argb1555(p)) = Fields1555(p \div 1024, p \div 32, p, p \div 32768)
  BY <1>1, Fields1555Back DEF unpack_argb1555
<1> QED
  BY <1>2, <1>3, PixelFields

\* The other one of 15 bits packs to its pixel with the top bit.
LEMMA OpaqueBack ==
    ASSUME NEW p \in Nat
    PROVE  pack_xrgb1555(unpack_xrgb1555(p)) = 32768 + (p % 32768)
<1> DEFINE q == 32768 + (p % 32768)
           c == unpack_argb1555(q)
<1>1. q \in Nat /\ q < 65536 /\ (q \div 32768) % 2 = 1
  OBVIOUS
<1>2. unpack_xrgb1555(p) = c
  BY DEF unpack_xrgb1555
<1> HIDE DEF q
<1>3. c.a = 255
  BY <1>1 DEF unpack_argb1555, Colour, C1_TO_C8
<1>4. [c EXCEPT !.a = 255] = c
  BY <1>3 DEF unpack_argb1555, Colour
<1>5. pack_xrgb1555(c) = pack_argb1555(c)
  BY <1>4 DEF pack_xrgb1555
<1>6. pack_argb1555(c) = q
  BY <1>1, PackedBack
<1>7. pack_xrgb1555(unpack_xrgb1555(p)) = q
  <2> HIDE DEF c
  <2> QED
    BY <1>2, <1>5, <1>6
<1> QED
  BY <1>7 DEF q

LEMMA PixelsReadBackNow == ASSUME Repack PROVE PixelsReadBack'
<1>1. PICK p \in Pixels :
          /\ pc' = "done" /\ call' = [name |-> "pixel", pixel |-> p]
          /\ out' = [rgb565 |-> unpack_rgb565(p), argb1555 |-> unpack_argb1555(p),
                     xrgb1555 |-> unpack_xrgb1555(p)]
  BY DEF Repack, Returns
<1>2. p \in Nat /\ p < 65536
  <2>1. p \in Nat /\ p < 2^16
    BY CallsAssumption
  <2>2. 2^16 = 65536
    OBVIOUS
  <2> QED
    BY <2>1, <2>2
<1>3. /\ call'.pixel = p /\ out'.rgb565 = unpack_rgb565(p)
      /\ out'.argb1555 = unpack_argb1555(p) /\ out'.xrgb1555 = unpack_xrgb1555(p)
  BY <1>1
<1> QED
  BY <1>2, <1>3, PackedBack, OpaqueBack DEF PixelsReadBack, Is

\* The sizes of a WAV file that passes the checks do not wrap.
LEMMA WavSizes ==
    ASSUME NEW n \in 0..SIZE_T_MAX, NEW rate \in 0..UINT32_MAX, NEW channels \in Nat,
           Check(n, rate, channels) = "ok"
    PROVE  /\ data_size(n, channels) = 2 * channels * n
           /\ U32(36 + data_size(n, channels)) = 36 + data_size(n, channels)
           /\ rate * block_align(channels) <= UINT32_MAX
              => U32(rate * block_align(channels)) = rate * block_align(channels)
           /\ 2 * SizeT(n * channels) = 2 * channels * n
<1>1. UINT32_MAX \in Nat /\ UINT32_MAX >= 36 /\ SIZE_T_MAX \in Nat /\ UINT32_MAX <= SIZE_T_MAX
  BY WavAssumption
<1>2. /\ channels \in {1, 2} /\ ~(n >= UINT32_MAX \div block_align(channels))
      /\ ~(data_size(n, channels) > UINT32_MAX - 36)
  BY DEF Check
<1>3. \A x \in Nat : /\ x <= UINT32_MAX => U32(x) = x
                     /\ x <= SIZE_T_MAX => SizeT(x) = x
  BY <1>1 DEF U32, SizeT
<1>4. block_align(channels) * n = 2 * channels * n /\ 2 * channels * n \in Nat
      /\ 2 * channels * n <= UINT32_MAX
  <2>1. CASE channels = 1
    BY <1>1, <1>2, <2>1 DEF block_align
  <2>2. CASE channels = 2
    BY <1>1, <1>2, <2>2 DEF block_align
  <2> QED
    BY <1>2, <2>1, <2>2
<1>5. data_size(n, channels) = 2 * channels * n
  <2> DEFINE size == 2 * channels * n
  <2>1. size \in Nat /\ size <= UINT32_MAX /\ size <= SIZE_T_MAX
    BY <1>1, <1>4
  <2>2. block_align(channels) * n = size
    BY <1>4
  <2> HIDE DEF size
  <2>3. data_size(n, channels) = size
    BY <1>3, <2>1, <2>2 DEF data_size
  <2> QED
    BY <2>3 DEF size
<1>6. U32(36 + data_size(n, channels)) = 36 + data_size(n, channels)
  <2>1. PICK s \in Nat : s = data_size(n, channels)
    BY <1>4, <1>5
  <2>2. 36 + s <= UINT32_MAX /\ 36 + s \in Nat
    BY <1>1, <1>2, <2>1
  <2> QED
    BY <1>3, <2>1, <2>2
<1>7. rate * block_align(channels) \in Nat
  <2>1. CASE channels = 1
    BY <1>1, <2>1 DEF block_align
  <2>2. CASE channels = 2
    BY <1>1, <2>2 DEF block_align
  <2> QED
    BY <1>2, <2>1, <2>2
<1>8. SizeT(n * channels) = n * channels /\ 2 * (n * channels) = 2 * channels * n
  <2>1. CASE channels = 1
    BY <1>1, <1>3, <1>4, <2>1
  <2>2. CASE channels = 2
    BY <1>1, <1>3, <1>4, <2>2
  <2> QED
    BY <1>2, <2>1, <2>2
<1> QED
  BY <1>3, <1>5, <1>6, <1>7, <1>8

LEMMA WavsReadBackNow == ASSUME WavWrite PROVE WavsReadBack'
<1>0. PICK host \in {"l", "b"}, n \in Samples, rate \in Rates, channels \in Channels :
          \E file \in vsc_wav_write(host, n, rate, channels) :
              Returns([name |-> "wav", host |-> host, samples |-> n, rate |-> rate,
                       channels |-> channels], file)
  BY Zenon DEF WavWrite
<1>1. PICK file \in vsc_wav_write(host, n, rate, channels) :
          /\ pc' = "done" /\ out' = file
          /\ call' = [name |-> "wav", host |-> host, samples |-> n, rate |-> rate,
                      channels |-> channels]
  BY <1>0, Zenon DEF Returns
<1>2. n \in 0..SIZE_T_MAX /\ rate \in 0..UINT32_MAX /\ channels \in Nat
  BY CallsAssumption
<1>3. call'.host = host /\ call'.samples = n /\ call'.rate = rate /\ call'.channels = channels
  BY <1>1
<1> SUFFICES ASSUME file.ret = "ok"
             PROVE  /\ file.header.data = file.data /\ file.data = 2 * channels * n
                    /\ file.header.riff = 36 + file.data
                    /\ host = "l" => file.order = "l" /\ n # 0
                    /\ \/ file.header.byte_rate = rate * file.header.align
                       \/ rate * file.header.align > UINT32_MAX
  BY <1>1, <1>3 DEF WavsReadBack, Is
<1> DEFINE size == data_size(n, channels)
           header == Header(n, rate, channels)
           bytes == SampleBytes(host, n, channels)
<1>4. /\ Check(n, rate, channels) = "ok" /\ (host = "b" \/ bytes # 0)
      /\ file = [ret |-> "ok", header |-> header, data |-> bytes, order |-> host]
  BY DEF vsc_wav_write
<1>5. /\ header.data = size /\ header.riff = U32(36 + size) /\ header.align = block_align(channels)
      /\ header.byte_rate = U32(rate * block_align(channels))
  BY DEF Header
<1>6. file.header = header /\ file.data = bytes /\ file.order = host
  BY <1>4
<1>7. rate * block_align(channels) \in Int /\ UINT32_MAX \in Int
  BY <1>2, WavAssumption DEF block_align
<1>8. /\ size = 2 * channels * n /\ U32(36 + size) = 36 + size
      /\ rate * block_align(channels) <= UINT32_MAX
         => U32(rate * block_align(channels)) = rate * block_align(channels)
      /\ 2 * SizeT(n * channels) = 2 * channels * n
  BY <1>2, <1>4, WavSizes
<1>9. bytes = size
  BY <1>8 DEF SampleBytes
<1>10. host = "l" => n # 0
  <2> SUFFICES ASSUME host = "l", n = 0 PROVE FALSE
    OBVIOUS
  <2>1. 2 * channels * n = 0
    BY <1>2
  <2> HIDE DEF size, bytes
  <2> QED
    BY <1>4, <1>8, <1>9, <2>1
<1> HIDE DEF size, header, bytes
<1> QED
  BY <1>5, <1>6, <1>7, <1>8, <1>9, <1>10

\* What Stored, native_to and their inverses do: nothing, or reverse.
LEMMA ReverseFacts ==
    ASSUME NEW C, NEW v \in Seq(C)
    PROVE  /\ Seqs!Reverse(v) \in Seq(C) /\ Len(Seqs!Reverse(v)) = Len(v)
           /\ \A k \in 1..Len(v) : Seqs!Reverse(v)[k] = v[Len(v) + 1 - k]
           /\ Seqs!Reverse(Seqs!Reverse(v)) = v
<1> DEFINE n == Len(v)
           w == [i \in 1..n |-> v[(n - i) + 1]]
<1>1. n \in Nat /\ v \in [1..n -> C]
  OBVIOUS
<1>2. Seqs!Reverse(v) = w
  BY DEF Seqs!Reverse
<1>3. \A k \in 1..n : (n - k) + 1 \in 1..n /\ (n - k) + 1 = n + 1 - k /\ (n - ((n - k) + 1)) + 1 = k
  BY <1>1
<1>4. w \in [1..n -> C]
  BY <1>1, <1>3
<1>5. w \in Seq(C) /\ Len(w) = n
  BY <1>1, <1>4
<1>6. \A k \in 1..n : w[k] = v[n + 1 - k]
  BY <1>3
<1>7. Seqs!Reverse(w) = v
  <2>1. Seqs!Reverse(w) = [i \in 1..n |-> w[(n - i) + 1]]
    BY <1>5 DEF Seqs!Reverse
  <2>2. \A k \in 1..n : w[(n - k) + 1] = v[k]
    BY <1>3
  <2> HIDE DEF w, n
  <2>3. Seqs!Reverse(w) = [i \in 1..n |-> v[i]]
    BY <2>1, <2>2
  <2> QED
    BY <1>1, <2>3
<1> QED
  BY <1>2, <1>5, <1>6, <1>7

\* The bytes in a file do not depend on the machine.
LEMMA FileBytes ==
    ASSUME NEW v \in Seq(Byte), NEW host \in {"l", "b"}, NEW e \in {"l", "b"}
    PROVE  vsc_fwrite(host, e, v) = IF e = "l" THEN v ELSE Seqs!Reverse(v)
BY ReverseFacts DEF vsc_fwrite, vsc_write, Stored, native_to, vsc_swap

LEMMA ReadFileBytes ==
    ASSUME NEW v \in Seq(Byte), NEW host \in {"l", "b"}, NEW e \in {"l", "b"}, NEW file,
           file = IF e = "l" THEN v ELSE Seqs!Reverse(v)
    PROVE  vsc_fread(host, e, file, Len(v)) = v
<1>1. file \in Seq(Byte) /\ Len(file) = Len(v) /\ Len(v) \in Nat
  BY ReverseFacts
<1>2. SubSeq(file, 1, Len(v)) = file
  BY <1>1, SubSeqFull
<1>3. Fread(host, file, Len(v)) = Loaded(host, file)
  <2>1. PICK n \in Nat : n = Len(v)
    BY <1>1
  <2>2. ~(Len(file) < n) /\ SubSeq(file, 1, n) = file
    BY <1>1, <1>2, <2>1
  <2>3. Fread(host, file, n) = Loaded(host, file)
    BY <2>2, Zenon DEF Fread
  <2> QED
    BY <2>1, <2>3
<1>4. to_native(host, e, Loaded(host, file)) = v
  BY ReverseFacts DEF to_native, Loaded, vsc_swap
<1> QED
  BY <1>3, <1>4 DEF vsc_fread

LEMMA ShortFileReadsZero ==
    ASSUME NEW host, NEW e, NEW file, NEW n \in Nat, Len(file) < n
    PROVE  \A k \in DOMAIN vsc_fread(host, e, file, n) : vsc_fread(host, e, file, n)[k] = 0
<1> DEFINE zeros == [k \in 1..n |-> 0]
<1>1. zeros \in Seq({0}) /\ Len(zeros) = n
  OBVIOUS
<1>2. Fread(host, file, n) = zeros
  BY DEF Fread
<1>3. vsc_fread(host, e, file, n) \in {zeros, Seqs!Reverse(zeros)}
  BY <1>2 DEF vsc_fread, to_native, vsc_swap
<1>4. Seqs!Reverse(zeros) \in Seq({0})
  BY <1>1, ReverseFacts
<1> HIDE DEF zeros
<1>5. vsc_fread(host, e, file, n) \in Seq({0})
  BY <1>1, <1>3, <1>4
<1> QED
  BY <1>5, ElementOfSeq, LenProperties

LEMMA IntegersReadBackNow == ASSUME Exchange PROVE IntegersReadBack'
<1>0. PICK v \in Natives, writer \in {"l", "b"}, reader \in {"l", "b"}, e \in {"l", "b"} :
          \E cut \in 0..Len(v) :
              LET file == SubSeq(vsc_fwrite(writer, e, v), 1, cut)
              IN  Returns([name |-> "bytes", value |-> v, e |-> e],
                          [file |-> file, value |-> vsc_fread(reader, e, file, Len(v))])
  BY Zenon DEF Exchange
<1>1. PICK cut \in 0..Len(v) :
          LET file == SubSeq(vsc_fwrite(writer, e, v), 1, cut)
          IN  Returns([name |-> "bytes", value |-> v, e |-> e],
                      [file |-> file, value |-> vsc_fread(reader, e, file, Len(v))])
  BY <1>0
<1> DEFINE whole == IF e = "l" THEN v ELSE Seqs!Reverse(v)
           file == SubSeq(whole, 1, cut)
           value == vsc_fread(reader, e, file, Len(v))
<1>2. v \in Seq(Byte) /\ Len(v) \in Nat
  BY CallsAssumption
<1>3. vsc_fwrite(writer, e, v) = whole
  BY <1>2, FileBytes
<1>4. whole \in Seq(Byte) /\ Len(whole) = Len(v)
  BY <1>2, ReverseFacts
<1>5. call' = [name |-> "bytes", value |-> v, e |-> e] /\ out' = [file |-> file, value |-> value]
  BY <1>1, <1>3 DEF Returns
<1>6. call'.value = v /\ call'.e = e /\ out'.file = file /\ out'.value = value
  BY <1>5
<1> HIDE DEF whole
<1>7. Len(file) = cut /\ (cut = Len(v) => file = whole)
  <2>1. 1 \in Int /\ cut \in Int /\ \A i \in 1..cut : whole[i] \in Byte
    <3>1. \A i \in 1..cut : i \in 1..Len(whole)
      BY <1>2, <1>4
    <3> QED
      BY <1>4, <3>1, ElementOfSeq
  <2>2. Len(file) = IF 1 <= cut THEN cut - 1 + 1 ELSE 0
    BY <2>1, SubSeqProperties
  <2>3. cut = Len(v) => file = whole
    BY <1>4, SubSeqFull
  <2> QED
    BY <1>2, <2>2, <2>3
<1> HIDE DEF file, value
<1>8. Len(file) < Len(v) => \A k \in DOMAIN value : value[k] = 0
  BY <1>2, ShortFileReadsZero DEF value
<1>9. ~(Len(file) < Len(v)) =>
          /\ value = v
          /\ \A k \in DOMAIN file : file[k] = v[IF e = "l" THEN k ELSE Len(file) + 1 - k]
  <2> SUFFICES ASSUME ~(Len(file) < Len(v))
               PROVE  /\ value = v
                      /\ \A k \in DOMAIN file : file[k] = v[IF e = "l" THEN k ELSE Len(file) + 1 - k]
    OBVIOUS
  <2>1. cut = Len(v) /\ file = whole
    BY <1>2, <1>7
  <2>2. value = v
    BY <1>2, <2>1, ReadFileBytes DEF value, whole
  <2>3. DOMAIN file = 1..Len(v) /\ Len(file) = Len(v)
    BY <1>4, <2>1
  <2>4. \A k \in 1..Len(v) : whole[k] = v[IF e = "l" THEN k ELSE Len(v) + 1 - k]
    BY <1>2, ReverseFacts DEF whole
  <2> QED
    BY <2>1, <2>2, <2>3, <2>4
<1> QED
  BY <1>6, <1>8, <1>9 DEF IntegersReadBack
-----------------------------------------------------------------------------
(* The arithmetic of words.                                                *)

Modulus == HALF * HALF

\* A number is a multiple of n and a remainder in one way.
LEMMA OneRemainder ==
    ASSUME NEW n \in Nat \ {0}, NEW q \in Nat, NEW r \in 0..(n - 1)
    PROVE  (q * n + r) % n = r /\ (q * n + r) \div n = q
<1> DEFINE x == q * n + r
           d == x \div n
           m == x % n
<1>1. x \in Nat /\ d \in Nat /\ m \in 0..(n - 1) /\ x = d * n + m
  OBVIOUS
<1> HIDE DEF d, m
<1>2. ASSUME NEW a \in Nat, NEW b \in Nat, a + 1 <= b
      PROVE  a * n + n <= b * n
  <2>1. (b - (a + 1)) * n >= 0
    BY <1>2
  <2> QED
    BY <1>2, <2>1
<1>3. d = q
  <2>1. ~(d + 1 <= q) /\ ~(q + 1 <= d)
    BY <1>1, <1>2
  <2> QED
    BY <1>1, <2>1
<1>4. m = r
  BY <1>1, <1>3
<1> QED
  BY <1>3, <1>4 DEF d, m

LEMMA WordConstants ==
    /\ HALF \in Nat \ {0} /\ HALF >= 2 /\ XXH_PRIME32_1 \in 0..(HALF - 1) /\ SHIFT47 \in Nat \ {0}
    /\ Modulus \in Nat \ {0} /\ Word = 0..(Modulus - 1) /\ 0 \in Word
    /\ \A a, b \in Word : BitXor(a, b) \in Word
<1>1. HALF \in Nat \ {0} /\ HALF >= 2 /\ XXH_PRIME32_1 \in 0..(HALF - 1) /\ SHIFT47 \in Nat \ {0}
  BY HashAssumption
<1>2. HALF * HALF >= HALF
  BY <1>1
<1>3. Modulus \in Nat \ {0}
  BY <1>1, <1>2 DEF Modulus
<1>4. Word = 0..(Modulus - 1)
  BY DEF Word, Modulus
<1> QED
  BY <1>1, <1>3, <1>4, HashAssumption

\* What is left of a number that wraps, and what it lost.
LEMMA WrapFacts ==
    ASSUME NEW x \in Nat
    PROVE  /\ Wrap(x) \in Word /\ Wrap(x) \in Nat /\ x \div Modulus \in Nat
           /\ x = (x \div Modulus) * Modulus + Wrap(x)
<1>1. Modulus \in Nat \ {0} /\ Word = 0..(Modulus - 1) /\ Wrap(x) = x % Modulus
  BY WordConstants DEF Wrap, Modulus
<1> QED
  BY <1>1

LEMMA WrapOf ==
    ASSUME NEW q \in Nat, NEW r \in Word
    PROVE  Wrap(q * Modulus + r) = r /\ (q * Modulus + r) \div Modulus = q
<1>1. Modulus \in Nat \ {0} /\ r \in 0..(Modulus - 1)
  BY WordConstants
<1> QED
  BY <1>1, OneRemainder DEF Wrap, Modulus

LEMMA WrapWord == ASSUME NEW r \in Word PROVE Wrap(r) = r /\ r \in Nat
<1>1. Modulus \in Nat \ {0} /\ r \in 0..(Modulus - 1)
  BY WordConstants
<1>2. 0 \in Nat /\ 0 * Modulus + r = r
  BY <1>1
<1>3. Wrap(0 * Modulus + r) = r
  BY <1>2, WrapOf
<1> QED
  BY <1>1, <1>2, <1>3

\* A sum may wrap more than once.
LEMMA WrapSum ==
    ASSUME NEW a \in Nat, NEW b \in Nat
    PROVE  Wrap(Wrap(a) + b) = Wrap(a + b) /\ Wrap(b + Wrap(a)) = Wrap(a + b)
<1> DEFINE q == a \div Modulus
           c == Wrap(a) + b
           p == c \div Modulus
           r == Wrap(c)
<1>1. Modulus \in Nat
  BY WordConstants
<1>2. q \in Nat /\ Wrap(a) \in Nat /\ a = q * Modulus + Wrap(a)
  BY WrapFacts
<1>3. c \in Nat
  BY <1>2
<1>4. p \in Nat /\ r \in Word /\ r \in Nat /\ c = p * Modulus + r
  BY <1>3, WrapFacts
<1> HIDE DEF q, p, r
<1>5. a + b = (q + p) * Modulus + r
  <2> DEFINE w == Wrap(a)
             m == q * Modulus
  <2>1. a + b = q * Modulus + c
    <3>1. m \in Nat /\ w \in Nat /\ a = m + w /\ c = w + b
      BY <1>1, <1>2
    <3> HIDE DEF m, w, c
    <3> QED
      BY <3>1 DEF m
  <2>2. (q + p) * Modulus = q * Modulus + p * Modulus
    BY <1>1, <1>2, <1>4
  <2> HIDE DEF c
  <2> QED
    BY <1>1, <1>2, <1>3, <1>4, <2>1, <2>2
<1>6. Wrap(a + b) = r
  BY <1>2, <1>4, <1>5, WrapOf
<1> QED
  BY <1>2, <1>6 DEF r

\* The halves of a word.
LEMMA HalfFacts ==
    ASSUME NEW x \in Word
    PROVE  /\ low(x) \in 0..(HALF - 1) /\ high(x) \in 0..(HALF - 1)
           /\ x = high(x) * HALF + low(x)
<1>1. HALF \in Nat \ {0} /\ x \in Nat /\ x < HALF * HALF
  BY WordConstants DEF Word
<1>2. x % HALF \in 0..(HALF - 1) /\ x \div HALF \in Nat /\ x = (x \div HALF) * HALF + (x % HALF)
  BY <1>1
<1>3. x \div HALF < HALF
  <2> DEFINE d == x \div HALF
  <2>1. d \in Nat /\ d * HALF <= x
    BY <1>1, <1>2
  <2> HIDE DEF d
  <2>2. d >= HALF => d * HALF >= HALF * HALF
    BY <1>1, <2>1
  <2> QED
    BY <1>1, <2>1, <2>2 DEF d
<1> QED
  BY <1>1, <1>2, <1>3 DEF low, high

LEMMA Halves ==
    ASSUME NEW a \in 0..(HALF - 1), NEW b \in 0..(HALF - 1)
    PROVE  low(b * HALF + a) = a /\ high(b * HALF + a) = b /\ b * HALF + a \in Word
<1>1. HALF \in Nat \ {0}
  BY WordConstants
<1>2. low(b * HALF + a) = a /\ high(b * HALF + a) = b
  BY <1>1, OneRemainder DEF low, high
<1>3. b * HALF + HALF <= HALF * HALF
  <2>1. (HALF - 1 - b) * HALF >= 0
    BY <1>1
  <2> QED
    BY <1>1, <2>1
<1>4. b * HALF + a \in Nat /\ b * HALF + a < HALF * HALF
  BY <1>1, <1>3
<1> QED
  BY <1>1, <1>2, <1>4 DEF Word

LEMMA LowIsWord == ASSUME NEW a \in 0..(HALF - 1) PROVE low(a) = a /\ high(a) = 0 /\ a \in Word
<1>1. HALF \in Nat \ {0} /\ 0 \in 0..(HALF - 1) /\ 0 * HALF + a = a
  BY WordConstants
<1> QED
  BY <1>1, Halves

\* A product of halves is a word, and leaves room for two more halves.
LEMMA HalvesTimes ==
    ASSUME NEW a \in 0..(HALF - 1), NEW b \in 0..(HALF - 1)
    PROVE  /\ a * b \in Nat /\ a * b \in Word
           /\ \A c, d \in 0..(HALF - 1) : a * b + c + d \in Word
<1>1. HALF \in Nat \ {0} /\ HALF >= 2
  BY WordConstants
<1>2. a * b <= (HALF - 1) * (HALF - 1) /\ a * b \in Nat
  <2>1. (HALF - 1 - a) * b >= 0 /\ a * b \in Nat
    BY <1>1
  <2>2. (HALF - 1) * (HALF - 1 - b) >= 0
    BY <1>1
  <2>3. (HALF - 1 - a) * b = (HALF - 1) * b - a * b
    BY <1>1
  <2>4. (HALF - 1) * (HALF - 1 - b) = (HALF - 1) * (HALF - 1) - (HALF - 1) * b
    BY <1>1
  <2> QED
    BY <1>1, <2>1, <2>2, <2>3, <2>4
<1>3. (HALF - 1) * (HALF - 1) = HALF * HALF - 2 * HALF + 1
  BY <1>1
<1>4. \A c, d \in 0..(HALF - 1) : a * b + c + d \in Nat /\ a * b + c + d < HALF * HALF
  BY <1>1, <1>2, <1>3
<1>5. a * b < HALF * HALF
  BY <1>1, <1>2, <1>3
<1> QED
  BY <1>1, <1>2, <1>4, <1>5 DEF Word

\* Shifted by half a word, a word keeps its low half.
LEMMA WrapHalf ==
    ASSUME NEW x \in Word
    PROVE  Wrap(x * HALF) = low(x) * HALF /\ low(x) * HALF \in Word
<1>1. /\ HALF \in Nat \ {0} /\ Modulus = HALF * HALF /\ 0 \in 0..(HALF - 1)
      /\ low(x) \in 0..(HALF - 1) /\ high(x) \in 0..(HALF - 1) /\ x = high(x) * HALF + low(x)
  <2>1. HALF \in Nat \ {0} /\ Modulus = HALF * HALF
    BY WordConstants DEF Modulus
  <2> QED
    BY <2>1, HalfFacts
<1>2. low(x) * HALF + 0 \in Word
  BY <1>1, Halves
<1>3. low(x) * HALF + 0 = low(x) * HALF
  BY <1>1
<1>4. x * HALF = high(x) * Modulus + low(x) * HALF
  <2> DEFINE a == low(x)
             b == high(x)
  <2>1. a \in Nat /\ b \in Nat /\ x = b * HALF + a
    BY <1>1
  <2> HIDE DEF a, b
  <2>2. (b * HALF + a) * HALF = b * (HALF * HALF) + a * HALF
    BY <1>1, <2>1
  <2> QED
    BY <1>1, <2>1, <2>2 DEF a, b
<1>5. high(x) \in Nat
  BY <1>1
<1> QED
  BY <1>2, <1>3, <1>4, <1>5, WrapOf

\* The product of two words fits in two words.
LEMMA ProductFits ==
    ASSUME NEW x \in Word, NEW y \in Word
    PROVE  x * y \in Nat /\ x * y < Modulus * Modulus
<1>1. Modulus \in Nat \ {0} /\ x \in Nat /\ y \in Nat /\ x <= Modulus - 1 /\ y <= Modulus - 1
  BY WordConstants
<1>2. (Modulus - 1 - x) * y >= 0 /\ x * y \in Nat
  BY <1>1
<1>3. Modulus * (Modulus - y) >= Modulus
  <2> DEFINE d == Modulus - y - 1
  <2>1. d \in Nat /\ Modulus - y = d + 1
    BY <1>1
  <2> HIDE DEF d
  <2>2. Modulus * d >= 0
    BY <1>1, <2>1
  <2>3. Modulus * (d + 1) = Modulus * d + Modulus
    BY <1>1, <2>1
  <2> QED
    BY <1>1, <2>1, <2>2, <2>3
<1>4. (Modulus - 1 - x) * y = Modulus * y - y - x * y
  BY <1>1
<1>5. Modulus * (Modulus - y) = Modulus * Modulus - Modulus * y
  BY <1>1
<1> QED
  BY <1>1, <1>2, <1>3, <1>4, <1>5

\* A number of two words is its upper and its lower word in one way.
LEMMA TwoWords ==
    ASSUME NEW p \in Nat, p < Modulus * Modulus
    PROVE  /\ Wrap(p) \in Word /\ p \div Modulus \in Word
           /\ (p \div Modulus) * Modulus + Wrap(p) = p
<1> DEFINE d == p \div Modulus
           w == Wrap(p)
<1>1. Modulus \in Nat \ {0} /\ Word = 0..(Modulus - 1)
  BY WordConstants
<1>2. w \in Word /\ w \in Nat /\ d \in Nat /\ p = d * Modulus + w
  BY WrapFacts
<1> HIDE DEF d, w
<1>3. d < Modulus
  <2>1. d >= Modulus => (d - Modulus) * Modulus >= 0
    BY <1>1, <1>2
  <2>2. (d - Modulus) * Modulus = d * Modulus - Modulus * Modulus
    BY <1>1, <1>2
  <2> QED
    BY <1>1, <1>2, <2>1, <2>2
<1> QED
  BY <1>1, <1>2, <1>3 DEF d, w

\* The multiplication by halves is exact: no sum of its parts wraps (xxhash.h:3290).
LEMMA PortableExact ==
    ASSUME NEW x \in Word, NEW y \in Word, NEW unit, unit.mult \notin {"int128", "umulh"}
    PROVE  Exactly(XXH_mult64to128(x, y, unit), x, y)
<1> DEFINE xl == low(x)
           xh == high(x)
           yl == low(y)
           yh == high(y)
           Half == 0..(HALF - 1)
           lo_lo == xl * yl
           hi_lo == xh * yl
           lo_hi == xl * yh
           hi_hi == xh * yh
           cross == high(lo_lo) + low(hi_lo) + lo_hi
           upper == high(hi_lo) + high(cross) + hi_hi
<1>1. /\ xl \in Half /\ xh \in Half /\ yl \in Half /\ yh \in Half
      /\ x = xh * HALF + xl /\ y = yh * HALF + yl
      /\ low(xl) = xl /\ low(xh) = xh /\ low(yl) = yl /\ low(yh) = yh
  BY HalfFacts, LowIsWord
<1>2. /\ XXH_mult32to64(low(x), low(y)) = lo_lo /\ XXH_mult32to64(high(x), low(y)) = hi_lo
      /\ XXH_mult32to64(low(x), high(y)) = lo_hi /\ XXH_mult32to64(high(x), high(y)) = hi_hi
  BY <1>1 DEF XXH_mult32to64
<1> HIDE DEF xl, xh, yl, yh
<1>3. /\ lo_lo \in Word /\ hi_lo \in Word /\ lo_hi \in Nat /\ hi_hi \in Nat
      /\ \A c, d \in Half : lo_hi + c + d \in Word /\ hi_hi + c + d \in Word
  BY <1>1, HalvesTimes
<1>4. HALF \in Nat \ {0} /\ Modulus = HALF * HALF
  BY WordConstants DEF Modulus
<1> HIDE DEF lo_lo, hi_lo, lo_hi, hi_hi
<1>5. /\ low(lo_lo) \in Half /\ high(lo_lo) \in Half /\ lo_lo = high(lo_lo) * HALF + low(lo_lo)
      /\ low(hi_lo) \in Half /\ high(hi_lo) \in Half /\ hi_lo = high(hi_lo) * HALF + low(hi_lo)
  BY <1>3, HalfFacts
<1>6. cross \in Word
  <2>1. lo_hi + high(lo_lo) + low(hi_lo) \in Word
    BY <1>3, <1>5
  <2>2. cross = lo_hi + high(lo_lo) + low(hi_lo)
    BY <1>3, <1>4, <1>5
  <2> QED
    BY <2>1, <2>2
<1>7. Wrap(cross) = cross
  BY <1>6, WrapWord
<1> HIDE DEF cross
<1>8. low(cross) \in Half /\ high(cross) \in Half /\ cross = high(cross) * HALF + low(cross)
  BY <1>6, HalfFacts
<1>9. upper \in Word
  <2>1. hi_hi + high(hi_lo) + high(cross) \in Word
    BY <1>3, <1>5, <1>8
  <2>2. upper = hi_hi + high(hi_lo) + high(cross)
    BY <1>3, <1>4, <1>5, <1>8
  <2> QED
    BY <2>1, <2>2
<1>10. Wrap(upper) = upper
  BY <1>9, WrapWord
<1> HIDE DEF upper
<1>11. Wrap(cross * HALF) = low(cross) * HALF
  BY <1>6, WrapHalf
<1>12. low(cross) * HALF + low(lo_lo) \in Word
  BY <1>5, <1>8, Halves
<1>13. XXH_mult64to128(x, y, unit) = [low64 |-> low(cross) * HALF + low(lo_lo), high64 |-> upper]
  BY <1>2, <1>7, <1>10, <1>11 DEF XXH_mult64to128, cross, upper
<1>14. upper * Modulus + (low(cross) * HALF + low(lo_lo)) = x * y
  <2> DEFINE a == low(lo_lo)
             b == high(lo_lo)
             c == low(hi_lo)
             d == high(hi_lo)
             e == low(cross)
             f == high(cross)
  <2>1. /\ a \in Nat /\ b \in Nat /\ c \in Nat /\ d \in Nat /\ e \in Nat /\ f \in Nat
        /\ lo_lo = b * HALF + a /\ hi_lo = d * HALF + c
        /\ f * HALF + e = b + c + lo_hi /\ upper = d + f + hi_hi
    BY <1>5, <1>8 DEF cross, upper
  <2> HIDE DEF a, b, c, d, e, f
  <2>2. upper * Modulus + (e * HALF + a) = (d + hi_hi) * Modulus + (f * HALF + e) * HALF + a
    <3>1. (d + f + hi_hi) * Modulus = (d + hi_hi) * Modulus + f * Modulus
      BY <1>3, <1>4, <2>1
    <3>2. (f * HALF + e) * HALF = f * Modulus + e * HALF
      BY <1>4, <2>1
    <3> QED
      BY <1>3, <1>4, <2>1, <3>1, <3>2
  <2>3. (f * HALF + e) * HALF = (b + c) * HALF + lo_hi * HALF
    BY <1>3, <1>4, <2>1
  <2>4. (d + hi_hi) * Modulus + (b + c) * HALF + a = hi_hi * Modulus + hi_lo * HALF + lo_lo
    <3>1. (d + hi_hi) * Modulus = d * Modulus + hi_hi * Modulus
      BY <1>3, <1>4, <2>1
    <3>2. (d * HALF + c) * HALF = d * Modulus + c * HALF
      BY <1>4, <2>1
    <3>3. (b + c) * HALF = b * HALF + c * HALF
      BY <1>4, <2>1
    <3> QED
      BY <1>3, <1>4, <2>1, <3>1, <3>2, <3>3
  <2>5. x * y = hi_hi * Modulus + hi_lo * HALF + lo_hi * HALF + lo_lo
    <3>1. xl \in Nat /\ xh \in Nat /\ yl \in Nat /\ yh \in Nat
      BY <1>1, <1>4
    <3>2. (xh * HALF + xl) * (yh * HALF + yl)
            = (xh * yh) * (HALF * HALF) + (xh * yl) * HALF + (xl * yh) * HALF + xl * yl
      BY <1>4, <3>1
    <3> QED
      BY <1>1, <1>4, <3>2 DEF lo_lo, hi_lo, lo_hi, hi_hi
  <2>6. upper * Modulus + (e * HALF + a) = x * y
    <3>1. /\ (d + hi_hi) * Modulus \in Int /\ (b + c) * HALF \in Int /\ lo_hi * HALF \in Int
          /\ hi_lo * HALF \in Int /\ hi_hi * Modulus \in Int /\ lo_lo \in Int
      BY <1>3, <1>4, <2>1
    <3> QED
      BY <2>1, <2>2, <2>3, <2>4, <2>5, <3>1
  <2> QED
    BY <2>6 DEF e, a
<1> QED
  BY <1>4, <1>9, <1>12, <1>13, <1>14 DEF Exactly

\* Every build multiplies exactly.
LEMMA MultiplicationExact ==
    ASSUME NEW x \in Word, NEW y \in Word, NEW unit
    PROVE  Exactly(XXH_mult64to128(x, y, unit), x, y)
<1>1. CASE unit.mult \in {"int128", "umulh"}
  <2>1. x * y \in Nat /\ x * y < Modulus * Modulus
    BY ProductFits
  <2>2. XXH_mult64to128(x, y, unit) = [low64 |-> Wrap(x * y), high64 |-> (x * y) \div Modulus]
    BY <1>1 DEF XXH_mult64to128, Modulus
  <2>3. /\ Wrap(x * y) \in Word /\ (x * y) \div Modulus \in Word
        /\ ((x * y) \div Modulus) * Modulus + Wrap(x * y) = x * y
    BY <2>1, TwoWords
  <2> QED
    BY <2>2, <2>3 DEF Exactly, Modulus
<1> QED
  BY <1>1, PortableExact

(* Loads.                                                                  *)

LEMMA ReversedTwice ==
    ASSUME NEW n \in Nat, NEW S, NEW b \in [1..n -> S]
    PROVE  /\ Reversed(b) \in [1..n -> S] /\ b \in Seq(S) /\ Len(b) = n
           /\ XXH_swap(Reversed(b)) = b
<1>1. b \in Seq(S) /\ Len(b) = n
  OBVIOUS
<1>2. Reversed(b) = [k \in 1..n |-> b[n + 1 - k]]
  BY <1>1 DEF Reversed
<1>3. Reversed(b) \in [1..n -> S]
  BY <1>2
<1>4. Len(Reversed(b)) = n
  BY <1>3
<1>5. XXH_swap(Reversed(b)) = [k \in 1..n |-> Reversed(b)[n - (k - 1)]]
  BY <1>4 DEF XXH_swap
<1>6. \A k \in 1..n : Reversed(b)[n - (k - 1)] = b[k]
  <2> SUFFICES ASSUME NEW k \in 1..n PROVE Reversed(b)[n - (k - 1)] = b[k]
    OBVIOUS
  <2>1. n - (k - 1) \in 1..n /\ n + 1 - (n - (k - 1)) = k
    OBVIOUS
  <2> QED
    BY <1>2, <2>1
<1> QED
  BY <1>1, <1>3, <1>5, <1>6

\* A word of eight bytes is loaded as it is, whatever the machine and the access method.
LEMMA LoadsLittleEndian ==
    ASSUME NEW S, NEW b \in [1..8 -> S], NEW unit, unit.little \in BOOLEAN
    PROVE  XXH_readLE(b, unit) = b
<1>1. Len(b) = 8 /\ XXH_swap(Reversed(b)) = b
  BY ReversedTwice
<1>2. XXH_isLittleEndian(unit) = unit.little
  <2>1. CASE unit.little
    BY <2>1 DEF XXH_isLittleEndian, XXH_read
  <2>2. CASE ~unit.little
    <3>1. Reversed(<<1, 0, 0, 0>>) = [k \in 1..4 |-> <<1, 0, 0, 0>>[4 + 1 - k]]
      BY DEF Reversed
    <3>2. Reversed(<<1, 0, 0, 0>>)[1] = 0
      BY <3>1
    <3> QED
      BY <2>2, <3>2 DEF XXH_isLittleEndian, XXH_read
  <2> QED
    BY <2>1, <2>2
<1>3. CASE unit.access = 3
  BY <1>1, <1>3 DEF XXH_readLE
<1>4. CASE unit.access # 3 /\ unit.little
  BY <1>2, <1>4 DEF XXH_readLE, XXH_read
<1>5. CASE unit.access # 3 /\ ~unit.little
  BY <1>1, <1>2, <1>5 DEF XXH_readLE, XXH_read
<1> QED
  BY <1>3, <1>4, <1>5

\* So is each of the two lanes of a vector.
LEMMA LoadsVector ==
    ASSUME NEW S, NEW b \in [1..16 -> S], NEW unit, unit.little \in BOOLEAN
    PROVE  XXH_vec_loadu(b, unit) = <<SubSeq(b, 1, 8), SubSeq(b, 9, 16)>>
<1>1. SubSeq(b, 1, 8) \in [1..8 -> S] /\ SubSeq(b, 9, 16) \in [1..8 -> S]
  <2>1. b \in Seq(S) /\ Len(b) = 16
    BY ReversedTwice
  <2>2. /\ SubSeq(b, 1, 8) \in Seq(S) /\ Len(SubSeq(b, 1, 8)) = 8
        /\ SubSeq(b, 9, 16) \in Seq(S) /\ Len(SubSeq(b, 9, 16)) = 8
    BY <2>1
  <2> QED
    BY <2>2, LenProperties
<1> DEFINE bytes == [lane \in 1..2 |-> SubSeq(b, 8 * lane - 7, 8 * lane)]
           ret == [lane \in 1..2 |-> XXH_read(SubSeq(b, 8 * lane - 7, 8 * lane), unit)]
<1>2. bytes = <<SubSeq(b, 1, 8), SubSeq(b, 9, 16)>>
  <2>1. bytes[1] = SubSeq(b, 1, 8) /\ bytes[2] = SubSeq(b, 9, 16)
    OBVIOUS
  <2> HIDE DEF bytes
  <2>2. bytes = [lane \in 1..2 |-> bytes[lane]]
    BY DEF bytes
  <2> QED
    BY <2>1, <2>2
<1>3. \A lane \in 1..2 : bytes[lane] \in [1..8 -> S]
  BY <1>1
<1>4. CASE unit.little
  BY <1>2, <1>4 DEF XXH_vec_loadu, XXH_read
<1>5. CASE ~unit.little
  <2>1. ret = [lane \in 1..2 |-> Reversed(bytes[lane])]
    BY <1>5 DEF XXH_read
  <2>2. XXH_vec_loadu(b, unit) = XXH_vec_revb(ret)
    BY <1>5 DEF XXH_vec_loadu
  <2> HIDE DEF ret, bytes
  <2>3. XXH_vec_revb(ret) = [lane \in 1..2 |-> bytes[lane]]
    <3>1. ASSUME NEW lane \in 1..2
          PROVE  [k \in 1..8 |-> ret[lane][vByteSwap[k] + 1]] = bytes[lane]
      <4>1. ret[lane] = Reversed(bytes[lane]) /\ bytes[lane] \in [1..8 -> S]
        BY <1>3, <2>1
      <4>2. ret[lane] = [k \in 1..8 |-> bytes[lane][8 + 1 - k]]
        <5>1. Len(bytes[lane]) = 8
          BY <4>1, ReversedTwice
        <5> QED
          BY <4>1, <5>1 DEF Reversed
      <4>3. \A k \in 1..8 : vByteSwap[k] + 1 = 9 - k
        BY DEF vByteSwap
      <4>4. \A k \in 1..8 : ret[lane][vByteSwap[k] + 1] = bytes[lane][k]
        <5> SUFFICES ASSUME NEW k \in 1..8 PROVE ret[lane][vByteSwap[k] + 1] = bytes[lane][k]
          OBVIOUS
        <5>1. 9 - k \in 1..8 /\ 8 + 1 - (9 - k) = k
          OBVIOUS
        <5> QED
          BY <4>2, <4>3, <5>1
      <4> QED
        BY <4>1, <4>4
    <3> QED
      BY <3>1 DEF XXH_vec_revb
  <2>4. bytes = [lane \in 1..2 |-> bytes[lane]]
    BY DEF bytes
  <2> QED
    BY <1>2, <2>2, <2>3, <2>4
<1> QED
  BY <1>4, <1>5

(* The accumulators.  What every unit is meant to leave in a lane.         *)

Product(key) == low(key) * high(key)
Added(acc, input, secret) ==
    [lane \in Lane |->
        Wrap(acc[lane] + Product(BitXor(input[lane], secret[lane])) + input[Partner(lane)])]
Scrambled(acc, secret) ==
    [lane \in Lane |-> Wrap(BitXor(Shifted(acc[lane]), secret[lane]) * XXH_PRIME32_1)]

Lanes8 == [Lane -> Word]

LEMMA Partners ==
    ASSUME NEW lane \in Lane
    PROVE  /\ Partner(lane) \in Lane /\ Partner(lane) # lane /\ Partner(Partner(lane)) = lane
           /\ \A n \in {0, 2, 4, 6, 8} : n <= lane <=> n <= Partner(lane)
           /\ lane \in Nat /\ lane < 8
<1>1. lane \in {0, 1, 2, 3, 4, 5, 6, 7}
  BY DEF Lane
<1> QED
  BY <1>1 DEF Lane, Partner

LEMMA ProductIsNat == ASSUME NEW key \in Word PROVE Product(key) \in Nat
<1> QED
  BY HalfFacts, HalvesTimes DEF Product

LEMMA ShiftedIsWord == ASSUME NEW x \in Word PROVE x \div SHIFT47 \in Word /\ Shifted(x) \in Word
<1>1. SHIFT47 \in Nat \ {0} /\ Modulus \in Nat /\ Word = 0..(Modulus - 1)
  BY WordConstants
<1>2. x \in Nat /\ x <= Modulus - 1
  BY <1>1
<1>3. x \div SHIFT47 \in Nat /\ x \div SHIFT47 <= x
  <2> DEFINE d == x \div SHIFT47
  <2>1. d \in Nat /\ d * SHIFT47 <= x
    BY <1>1, <1>2
  <2> HIDE DEF d
  <2>2. d * (SHIFT47 - 1) >= 0 /\ d * (SHIFT47 - 1) = d * SHIFT47 - d
    BY <1>1, <2>1
  <2> QED
    BY <1>1, <1>2, <2>1, <2>2 DEF d
<1>4. x \div SHIFT47 \in Word
  BY <1>1, <1>2, <1>3
<1> QED
  BY <1>4, WordConstants DEF Shifted

\* One round of the scalar unit, lane by lane.
LEMMA RoundFacts ==
    ASSUME NEW acc \in Lanes8, NEW input \in Lanes8, NEW secret \in Lanes8, NEW lane \in Lane
    PROVE  LET round == XXH3_scalarRound(acc, input, secret, lane)
           IN  /\ round \in Lanes8
               /\ round[lane] = Wrap(acc[lane] + Product(BitXor(input[lane], secret[lane])))
               /\ round[Partner(lane)] = Wrap(acc[Partner(lane)] + input[lane])
               /\ \A l \in Lane : l # lane /\ l # Partner(lane) => round[l] = acc[l]
<1> DEFINE key == BitXor(input[lane], secret[lane])
           p == Partner(lane)
           swapped == [acc EXCEPT ![p] = Wrap(@ + input[lane])]
           round == [swapped EXCEPT ![lane] = Wrap(@ + Product(key))]
<1>1. p \in Lane /\ p # lane
  BY Partners
<1>2. key \in Word /\ high(key) \in 0..(HALF - 1) /\ Product(key) \in Nat
  BY WordConstants, HalfFacts, ProductIsNat DEF Lanes8
<1>3. XXH_mult32to64(key, high(key)) = Product(key)
  BY <1>2, LowIsWord DEF XXH_mult32to64, Product
<1>4. XXH3_scalarRound(acc, input, secret, lane) = round
  BY <1>3 DEF XXH3_scalarRound
<1>5. /\ acc[p] \in Word /\ acc[p] \in Nat /\ input[lane] \in Nat
      /\ acc[lane] \in Nat /\ acc[lane] + Product(key) \in Nat /\ acc[p] + input[lane] \in Nat
  <2>1. acc[p] \in Word /\ acc[lane] \in Word /\ input[lane] \in Word
    BY <1>1 DEF Lanes8
  <2> QED
    BY <1>2, <2>1, WrapWord
<1>6. Wrap(acc[p] + input[lane]) \in Word /\ Wrap(acc[lane] + Product(key)) \in Word
  BY <1>5, WrapFacts
<1> HIDE DEF key, p
<1>7. /\ swapped \in Lanes8 /\ swapped[lane] = acc[lane] /\ swapped[p] = Wrap(acc[p] + input[lane])
      /\ \A l \in Lane : l # p => swapped[l] = acc[l]
  BY <1>1, <1>6 DEF Lanes8
<1> HIDE DEF swapped
<1>8. /\ round \in Lanes8 /\ round[lane] = Wrap(acc[lane] + Product(key)) /\ round[p] = swapped[p]
      /\ \A l \in Lane : l # lane => round[l] = swapped[l]
  BY <1>1, <1>6, <1>7 DEF Lanes8
<1> HIDE DEF round
<1> QED
  BY <1>4, <1>7, <1>8 DEF key, p

\* What a loop over the lanes from one on does.
LanesAt(acc, from, F, g, n) == IF n <= from THEN acc ELSE F[n][g[n - 1]]
LoopOver(acc, from, F, g) ==
    /\ g \in [0..8 -> Lanes8] /\ g[0] = acc
    /\ \A n \in 1..8 : g[n] = (IF n <= from THEN acc ELSE F[n][g[n - 1]])

LEMMA LoopExists ==
    ASSUME NEW acc \in Lanes8, NEW from \in Nat, NEW F \in [1..8 -> [Lanes8 -> Lanes8]]
    PROVE  \E g : LoopOver(acc, from, F, g)
<1> DEFINE G == [n \in 1..8 |-> [a \in Lanes8 |-> IF n <= from THEN acc ELSE F[n][a]]]
<1>1. G \in [1..8 -> [Lanes8 -> Lanes8]]
  OBVIOUS
<1>2. 8 \in Nat
  OBVIOUS
<1> HIDE DEF G
<1>3. PICK g : Upward(g, 8, Lanes8, acc, G)
  BY <1>1, <1>2, UpwardRecursion
<1>4. ASSUME NEW n \in 1..8 PROVE g[n] = (IF n <= from THEN acc ELSE F[n][g[n - 1]])
  <2>1. g[n] = G[n][g[n - 1]] /\ g[n - 1] \in Lanes8
    BY <1>3 DEF Upward
  <2> QED
    BY <2>1 DEF G
<1> QED
  BY <1>3, <1>4 DEF Upward, LoopOver

\* Such a loop is what the recursive definition of ScalarLanes describes.
ScalarAt(acc, input, secret, from, g, n) ==
    IF n <= from THEN acc ELSE XXH3_scalarRound(g[n - 1], input, secret, n - 1)
ScalarUpTo(acc, input, secret, from) ==
    CHOOSE g : g = [n \in 0..8 |-> ScalarAt(acc, input, secret, from, g, n)]

LEMMA ScalarLanesIsUpTo ==
    ASSUME NEW acc, NEW input, NEW secret, NEW from
    PROVE  ScalarLanes(acc, input, secret, from) = ScalarUpTo(acc, input, secret, from)[8]
BY DEF ScalarLanes, ScalarUpTo, ScalarAt

ScalarUpward(acc, input, secret, from, g) ==
    /\ g \in [0..8 -> Lanes8] /\ g[0] = acc
    /\ \A n \in 1..8 : g[n] = ScalarAt(acc, input, secret, from, g, n)

LEMMA ScalarLoop ==
    ASSUME NEW acc \in Lanes8, NEW input \in Lanes8, NEW secret \in Lanes8, NEW from \in Nat
    PROVE  ScalarUpward(acc, input, secret, from, ScalarUpTo(acc, input, secret, from))
<1> DEFINE F == [n \in 1..8 |-> [a \in Lanes8 |-> XXH3_scalarRound(a, input, secret, n - 1)]]
<1>1. F \in [1..8 -> [Lanes8 -> Lanes8]]
  <2>1. ASSUME NEW n \in 1..8, NEW a \in Lanes8
        PROVE  XXH3_scalarRound(a, input, secret, n - 1) \in Lanes8
    <3>1. n - 1 \in Lane
      BY DEF Lane
    <3> QED
      BY <3>1, RoundFacts
  <2> QED
    BY <2>1
<1>2. ASSUME NEW n \in 1..8, NEW a \in Lanes8
      PROVE  F[n][a] = XXH3_scalarRound(a, input, secret, n - 1)
  OBVIOUS
<1> HIDE DEF F
<1>3. PICK f : LoopOver(acc, from, F, f)
  BY <1>1, LoopExists
<1>4. f = [n \in 0..8 |-> ScalarAt(acc, input, secret, from, f, n)]
  <2>1. ASSUME NEW n \in 0..8 PROVE f[n] = ScalarAt(acc, input, secret, from, f, n)
    <3>1. CASE n = 0
      BY <1>3, <3>1 DEF LoopOver, ScalarAt
    <3>2. CASE n \in 1..8
      <4>1. f[n - 1] \in Lanes8 /\ f[n] = (IF n <= from THEN acc ELSE F[n][f[n - 1]])
        BY <1>3, <3>2 DEF LoopOver
      <4> QED
        BY <1>2, <3>2, <4>1 DEF ScalarAt
    <3> QED
      BY <3>1, <3>2
  <2>2. f \in [0..8 -> Lanes8]
    BY <1>3 DEF LoopOver
  <2> QED
    BY <2>1, <2>2
<1> DEFINE g == ScalarUpTo(acc, input, secret, from)
<1>5. g = [n \in 0..8 |-> ScalarAt(acc, input, secret, from, g, n)]
  BY <1>4 DEF ScalarUpTo
<1> HIDE DEF g
<1>6. g[0] = acc
  <2>1. g[0] = ScalarAt(acc, input, secret, from, g, 0)
    BY <1>5
  <2> QED
    BY <2>1 DEF ScalarAt
<1>7. ASSUME NEW n \in 1..8
      PROVE  g[n] = (IF n <= from THEN acc ELSE XXH3_scalarRound(g[n - 1], input, secret, n - 1))
  <2>1. g[n] = ScalarAt(acc, input, secret, from, g, n)
    BY <1>5
  <2> QED
    BY <2>1 DEF ScalarAt
<1>8. \A n \in 0..8 : g[n] \in Lanes8
  <2> DEFINE T == {n \in 0..8 : g[n] \in Lanes8}
  <2>1. 0 \in T
    BY <1>6
  <2>2. \A n \in 0..8 : n < 8 /\ n \in T => n + 1 \in T
    <3> SUFFICES ASSUME NEW n \in 0..8, n < 8, g[n] \in Lanes8 PROVE g[n + 1] \in Lanes8
      OBVIOUS
    <3>1. n + 1 \in 1..8 /\ (n + 1) - 1 = n /\ n \in Lane
      BY DEF Lane
    <3>2. XXH3_scalarRound(g[n], input, secret, n) \in Lanes8
      BY <3>1, RoundFacts
    <3> QED
      BY <1>7, <3>1, <3>2
  <2>3. 8 \in Nat
    OBVIOUS
  <2> HIDE DEF T
  <2>4. \A n \in 0..8 : n \in T
    BY <2>1, <2>2, <2>3, UpTo
  <2> QED
    BY <2>4 DEF T
<1>9. g \in [0..8 -> Lanes8]
  <2>1. DOMAIN g = 0..8 /\ g = [n \in 0..8 |-> g[n]]
    BY <1>5
  <2> QED
    BY <1>8, <2>1
<1> QED
  BY <1>6, <1>7, <1>9 DEF g, ScalarUpward, ScalarAt

\* What the first n lanes of the loop have added to a lane.
Part(condition, x) == IF condition THEN x ELSE 0

LEMMA ScalarLanesAdd ==
    ASSUME NEW acc \in Lanes8, NEW input \in Lanes8, NEW secret \in Lanes8,
           NEW from \in {0, 2, 4, 6, 8}
    PROVE  LET lanes == ScalarLanes(acc, input, secret, from)
           IN  \A l \in Lane : lanes[l] = IF from <= l THEN Added(acc, input, secret)[l] ELSE acc[l]
<1> DEFINE g == ScalarUpTo(acc, input, secret, from)
<1>1. /\ g \in [0..8 -> Lanes8] /\ g[0] = acc
      /\ \A n \in 1..8 : g[n] = (IF n <= from THEN acc
                                 ELSE XXH3_scalarRound(g[n - 1], input, secret, n - 1))
  <2>1. from \in Nat
    OBVIOUS
  <2>2. ScalarUpward(acc, input, secret, from, g)
    BY <2>1, ScalarLoop
  <2> QED
    BY <2>2 DEF ScalarUpward, ScalarAt
<1> HIDE DEF g
<1> DEFINE product(l) == Product(BitXor(input[l], secret[l]))
           Reached(n, l) ==
               g[n][l] = Wrap(acc[l] + Part(from <= l /\ l < n, product(l))
                                     + Part(from <= Partner(l) /\ Partner(l) < n, input[Partner(l)]))
<1>2. ASSUME NEW l \in Lane
      PROVE  /\ acc[l] \in Word /\ acc[l] \in Nat /\ input[l] \in Nat /\ product(l) \in Nat
             /\ Wrap(acc[l]) = acc[l]
  <2>1. acc[l] \in Word /\ input[l] \in Word /\ secret[l] \in Word
    BY DEF Lanes8
  <2>2. BitXor(input[l], secret[l]) \in Word
    BY <2>1, WordConstants
  <2> QED
    BY <2>1, <2>2, WrapWord, ProductIsNat
<1> HIDE DEF product
<1>3. ASSUME NEW n \in 0..8, n <= from, NEW l \in Lane PROVE Reached(n, l)
  <2>1. g[n] = acc
    BY <1>1, <1>3
  <2>2. ~(from <= l /\ l < n) /\ ~(from <= Partner(l) /\ Partner(l) < n)
    BY <1>3, Partners
  <2>3. Part(from <= l /\ l < n, product(l)) = 0
        /\ Part(from <= Partner(l) /\ Partner(l) < n, input[Partner(l)]) = 0
    BY <2>2 DEF Part
  <2>4. acc[l] + 0 + 0 = acc[l]
    BY <1>2
  <2> QED
    BY <1>2, <2>1, <2>3, <2>4
<1>4. ASSUME NEW n \in 0..7, from <= n, \A l \in Lane : Reached(n, l), NEW l \in Lane
      PROVE  Reached(n + 1, l)
  <2> DEFINE a == acc[l]
             p == Partner(l)
             own(k) == Part(from <= l /\ l < k, product(l))
             other(k) == Part(from <= p /\ p < k, input[p])
  <2>1. n \in Lane /\ n + 1 \in 1..8 /\ (n + 1) - 1 = n /\ ~(n + 1 <= from)
    BY <1>4 DEF Lane
  <2>2. g[n + 1] = XXH3_scalarRound(g[n], input, secret, n) /\ g[n] \in Lanes8
    BY <1>1, <2>1
  <2>3. /\ g[n + 1][n] = Wrap(g[n][n] + product(n))
        /\ g[n + 1][Partner(n)] = Wrap(g[n][Partner(n)] + input[n])
        /\ l # n /\ l # Partner(n) => g[n + 1][l] = g[n][l]
    <3> DEFINE h == g[n]
               round == XXH3_scalarRound(h, input, secret, n)
    <3>1. h \in Lanes8 /\ n \in Lane
      BY <2>1, <2>2
    <3> HIDE DEF h
    <3>2. /\ round[n] = Wrap(h[n] + Product(BitXor(input[n], secret[n])))
          /\ round[Partner(n)] = Wrap(h[Partner(n)] + input[n])
          /\ \A k \in Lane : k # n /\ k # Partner(n) => round[k] = h[k]
      BY <3>1, RoundFacts
    <3>3. g[n + 1] = round
      BY <2>2 DEF h
    <3> HIDE DEF round
    <3> QED
      BY <3>2, <3>3 DEF h, product
  <2>4. /\ p \in Lane /\ p # l /\ Partner(p) = l /\ l \in Nat /\ p \in Nat
        /\ (l = Partner(n) <=> p = n)
    BY <2>1, Partners
  <2>5. a \in Nat /\ product(l) \in Nat /\ input[p] \in Nat /\ 0 \in Nat
    BY <1>2, <2>4
  <2>6. own(n) \in Nat /\ other(n) \in Nat /\ own(n + 1) \in Nat /\ other(n + 1) \in Nat
    BY <2>5 DEF Part
  <2>7. g[n][l] = Wrap(a + own(n) + other(n))
    BY <1>4
  <2> HIDE DEF a, p
  <2>8. CASE l = n
    <3>1. own(n) = 0 /\ own(n + 1) = product(l) /\ other(n + 1) = other(n)
      BY <1>4, <2>1, <2>4, <2>8 DEF Part
    <3>2. g[n + 1][l] = Wrap(Wrap(a + own(n) + other(n)) + product(l))
      BY <2>3, <2>7, <2>8
    <3>3. a + own(n) + other(n) \in Nat
      BY <2>5, <2>6
    <3>4. g[n + 1][l] = Wrap((a + own(n) + other(n)) + product(l))
      BY <2>5, <3>2, <3>3, WrapSum
    <3>5. (a + own(n) + other(n)) + product(l) = a + own(n + 1) + other(n + 1)
      <4> HIDE DEF own, other
      <4> QED
        BY <2>5, <2>6, <3>1
    <3> QED
      BY <3>4, <3>5 DEF a, p
  <2>9. CASE l = Partner(n)
    <3>1. other(n) = 0 /\ other(n + 1) = input[p] /\ own(n + 1) = own(n)
      BY <1>4, <2>1, <2>4, <2>9 DEF Part
    <3>2. g[n + 1][l] = Wrap(Wrap(a + own(n) + other(n)) + input[p])
      BY <2>3, <2>4, <2>7, <2>9
    <3>3. a + own(n) + other(n) \in Nat
      BY <2>5, <2>6
    <3>4. g[n + 1][l] = Wrap((a + own(n) + other(n)) + input[p])
      BY <2>5, <3>2, <3>3, WrapSum
    <3>5. (a + own(n) + other(n)) + input[p] = a + own(n + 1) + other(n + 1)
      <4> HIDE DEF own, other
      <4> QED
        BY <2>5, <2>6, <3>1
    <3> QED
      BY <3>4, <3>5 DEF a, p
  <2>10. CASE l # n /\ l # Partner(n)
    <3>1. own(n + 1) = own(n) /\ other(n + 1) = other(n)
      BY <1>4, <2>1, <2>4, <2>10 DEF Part
    <3> QED
      BY <2>3, <2>7, <2>10, <3>1 DEF a, p
  <2> QED
    BY <2>8, <2>9, <2>10
<1>5. \A n \in 0..8 : \A l \in Lane : Reached(n, l)
  <2> DEFINE T == {n \in 0..8 : \A l \in Lane : Reached(n, l)}
  <2> HIDE DEF Reached
  <2>1. 0 \in T
    BY <1>3
  <2>2. \A n \in 0..8 : n < 8 /\ n \in T => n + 1 \in T
    <3> SUFFICES ASSUME NEW n \in 0..8, n < 8, \A l \in Lane : Reached(n, l), NEW l \in Lane
                 PROVE  Reached(n + 1, l)
      OBVIOUS
    <3>1. CASE n + 1 <= from
      BY <1>3, <3>1
    <3>2. CASE ~(n + 1 <= from)
      BY <1>4, <3>2
    <3> QED
      BY <3>1, <3>2
  <2>3. 8 \in Nat
    OBVIOUS
  <2> HIDE DEF T
  <2>4. \A n \in 0..8 : n \in T
    BY <2>1, <2>2, <2>3, UpTo
  <2> QED
    BY <2>4 DEF T
<1>6. ASSUME NEW l \in Lane
      PROVE  g[8][l] = IF from <= l THEN Added(acc, input, secret)[l] ELSE acc[l]
  <2>1. /\ l \in Nat /\ l < 8 /\ Partner(l) \in Lane /\ Partner(l) < 8
        /\ from <= l <=> from <= Partner(l)
    BY Partners
  <2>2. Reached(8, l)
    BY <1>5
  <2>3. CASE from <= l
    BY <2>1, <2>2, <2>3 DEF Part, Added, product
  <2>4. CASE ~(from <= l)
    BY <1>2, <2>1, <2>2, <2>4 DEF Part
  <2> QED
    BY <2>3, <2>4
<1> QED
  BY <1>6, ScalarLanesIsUpTo DEF g

(* The same for the loop that scrambles.                                   *)

LEMMA ScrambledIsWord ==
    ASSUME NEW acc \in Lanes8, NEW secret \in Lanes8, NEW lane \in Lane
    PROVE  /\ BitXor(Shifted(acc[lane]), secret[lane]) \in Word
           /\ Wrap(BitXor(Shifted(acc[lane]), secret[lane]) * XXH_PRIME32_1) \in Word
<1> DEFINE key == BitXor(Shifted(acc[lane]), secret[lane])
<1>1. acc[lane] \in Word /\ secret[lane] \in Word
  BY DEF Lanes8
<1>2. key \in Word
  BY <1>1, ShiftedIsWord, WordConstants
<1>3. key \in Nat /\ XXH_PRIME32_1 \in Nat
  BY <1>2, WrapWord, WordConstants
<1> HIDE DEF key
<1>4. key * XXH_PRIME32_1 \in Nat
  BY <1>3
<1> QED
  BY <1>2, <1>4, WrapFacts DEF key

LEMMA ScrambleRoundFacts ==
    ASSUME NEW acc \in Lanes8, NEW secret \in Lanes8, NEW lane \in Lane
    PROVE  /\ XXH3_scalarScrambleRound(acc, secret, lane) \in Lanes8
           /\ XXH3_scalarScrambleRound(acc, secret, lane)[lane]
                = Wrap(BitXor(Shifted(acc[lane]), secret[lane]) * XXH_PRIME32_1)
           /\ \A l \in Lane : l # lane => XXH3_scalarScrambleRound(acc, secret, lane)[l] = acc[l]
<1> DEFINE word == Wrap(BitXor(Shifted(acc[lane]), secret[lane]) * XXH_PRIME32_1)
<1>1. XXH3_scalarScrambleRound(acc, secret, lane) = [acc EXCEPT ![lane] = word]
  BY DEF XXH3_scalarScrambleRound
<1>2. word \in Word
  BY ScrambledIsWord
<1> HIDE DEF word
<1>3. /\ [acc EXCEPT ![lane] = word] \in Lanes8 /\ [acc EXCEPT ![lane] = word][lane] = word
      /\ \A l \in Lane : l # lane => [acc EXCEPT ![lane] = word][l] = acc[l]
  BY <1>2 DEF Lanes8
<1> QED
  BY <1>1, <1>3 DEF word

ScrambleAt(acc, secret, from, g, n) ==
    IF n <= from THEN acc ELSE XXH3_scalarScrambleRound(g[n - 1], secret, n - 1)
ScrambleUpTo(acc, secret, from) ==
    CHOOSE g : g = [n \in 0..8 |-> ScrambleAt(acc, secret, from, g, n)]

LEMMA ScrambleLanesIsUpTo ==
    ASSUME NEW acc, NEW secret, NEW from
    PROVE  ScrambleLanes(acc, secret, from) = ScrambleUpTo(acc, secret, from)[8]
BY DEF ScrambleLanes, ScrambleUpTo, ScrambleAt

\* What the loop has done after n lanes.
ScrambledTo(acc, secret, from, n) ==
    [l \in Lane |-> IF from <= l /\ l < n THEN Scrambled(acc, secret)[l] ELSE acc[l]]

LEMMA ScrambleLoop ==
    ASSUME NEW acc \in Lanes8, NEW secret \in Lanes8, NEW from \in {0, 2, 4, 6, 8}
    PROVE  ScrambleUpTo(acc, secret, from) = [n \in 0..8 |-> ScrambledTo(acc, secret, from, n)]
<1> DEFINE f == [n \in 0..8 |-> ScrambledTo(acc, secret, from, n)]
<1>1. ASSUME NEW n \in 0..8 PROVE ScrambledTo(acc, secret, from, n) \in Lanes8
  BY ScrambledIsWord DEF ScrambledTo, Scrambled, Lanes8
<1>2. ASSUME NEW n \in 0..8, n <= from PROVE ScrambledTo(acc, secret, from, n) = acc
  <2>1. \A l \in Lane : ~(from <= l /\ l < n)
    BY <1>2 DEF Lane
  <2>2. acc = [l \in Lane |-> acc[l]]
    BY DEF Lanes8
  <2> QED
    BY <2>1, <2>2 DEF ScrambledTo
<1>3. ASSUME NEW n \in 1..8, ~(n <= from)
      PROVE  ScrambledTo(acc, secret, from, n)
               = XXH3_scalarScrambleRound(ScrambledTo(acc, secret, from, n - 1), secret, n - 1)
  <2> DEFINE a == ScrambledTo(acc, secret, from, n - 1)
             b == ScrambledTo(acc, secret, from, n)
             round == XXH3_scalarScrambleRound(a, secret, n - 1)
  <2>1. n - 1 \in 0..8 /\ n - 1 \in Lane /\ from <= n - 1 /\ n - 1 < n
    BY <1>3 DEF Lane
  <2>2. a \in Lanes8 /\ b \in Lanes8
    BY <1>1, <2>1
  <2>3. a[n - 1] = acc[n - 1] /\ b[n - 1] = Scrambled(acc, secret)[n - 1]
    BY <2>1 DEF ScrambledTo
  <2>4. \A l \in Lane : l # n - 1 => a[l] = b[l]
    BY <2>1 DEF ScrambledTo, Lane
  <2> HIDE DEF a, b
  <2>5. /\ round \in Lanes8
        /\ round[n - 1] = Wrap(BitXor(Shifted(a[n - 1]), secret[n - 1]) * XXH_PRIME32_1)
        /\ \A l \in Lane : l # n - 1 => round[l] = a[l]
    BY <2>1, <2>2, ScrambleRoundFacts
  <2> HIDE DEF round
  <2>6. round[n - 1] = b[n - 1]
    BY <2>1, <2>3, <2>5 DEF Scrambled
  <2>7. \A l \in Lane : round[l] = b[l]
    BY <2>4, <2>5, <2>6
  <2>8. round = b
    BY <2>2, <2>5, <2>7 DEF Lanes8
  <2> QED
    BY <2>8 DEF round, a, b
<1>4. f = [n \in 0..8 |-> ScrambleAt(acc, secret, from, f, n)]
  <2>1. ASSUME NEW n \in 0..8 PROVE f[n] = ScrambleAt(acc, secret, from, f, n)
    <3>1. CASE n <= from
      BY <1>2, <3>1 DEF ScrambleAt
    <3>2. CASE ~(n <= from)
      <4>1. n \in 1..8 /\ n - 1 \in 0..8
        BY <3>2
      <4>2. f[n - 1] = ScrambledTo(acc, secret, from, n - 1)
        BY <4>1
      <4> QED
        BY <1>3, <3>2, <4>1, <4>2 DEF ScrambleAt
    <3> QED
      BY <3>1, <3>2
  <2> QED
    BY <2>1
<1> DEFINE g == ScrambleUpTo(acc, secret, from)
<1> HIDE DEF f
<1>5. g = [n \in 0..8 |-> ScrambleAt(acc, secret, from, g, n)]
  BY <1>4 DEF ScrambleUpTo
<1> HIDE DEF g
<1>6. \A n \in 0..8 : g[n] = f[n]
  <2> DEFINE T == {n \in 0..8 : g[n] = f[n]}
  <2>1. 0 \in T
    <3>1. g[0] = ScrambleAt(acc, secret, from, g, 0) /\ f[0] = ScrambleAt(acc, secret, from, f, 0)
      BY <1>4, <1>5
    <3> QED
      BY <3>1 DEF ScrambleAt
  <2>2. \A n \in 0..8 : n < 8 /\ n \in T => n + 1 \in T
    <3> SUFFICES ASSUME NEW n \in 0..8, n < 8, g[n] = f[n] PROVE g[n + 1] = f[n + 1]
      OBVIOUS
    <3>1. n + 1 \in 0..8 /\ (n + 1) - 1 = n
      OBVIOUS
    <3>2. /\ g[n + 1] = ScrambleAt(acc, secret, from, g, n + 1)
          /\ f[n + 1] = ScrambleAt(acc, secret, from, f, n + 1)
      BY <1>4, <1>5, <3>1
    <3> QED
      BY <3>1, <3>2 DEF ScrambleAt
  <2>3. 8 \in Nat
    OBVIOUS
  <2> HIDE DEF T
  <2>4. \A n \in 0..8 : n \in T
    BY <2>1, <2>2, <2>3, UpTo
  <2> QED
    BY <2>4 DEF T
<1>7. g = [n \in 0..8 |-> f[n]]
  BY <1>5, <1>6
<1> QED
  BY <1>7 DEF g, f

LEMMA ScrambleLanesScramble ==
    ASSUME NEW acc \in Lanes8, NEW secret \in Lanes8, NEW from \in {0, 2, 4, 6, 8}, NEW l \in Lane
    PROVE  ScrambleLanes(acc, secret, from)[l]
             = IF from <= l THEN Scrambled(acc, secret)[l] ELSE acc[l]
<1>1. ScrambleLanes(acc, secret, from) = ScrambledTo(acc, secret, from, 8)
  BY ScrambleLanesIsUpTo, ScrambleLoop
<1>2. l < 8
  BY DEF Lane
<1> QED
  BY <1>1, <1>2 DEF ScrambledTo

(* The instructions of the vector units.                                   *)

\* Where a lane is in registers of so many lanes.
LEMMA InRegister ==
    ASSUME NEW lanes \in {2, 4, 8}, NEW l \in Lane
    PROVE  /\ l \div lanes \in Nat /\ l % lanes \in 0..(lanes - 1)
           /\ lanes * (l \div lanes) + (l % lanes) = l
           /\ Partner(l % lanes) \in 0..(lanes - 1)
           /\ lanes * (l \div lanes) + Partner(l % lanes) = Partner(l)
           /\ \A k \in 0..(lanes - 1) : lanes * (l \div lanes) + k \in Lane
<1>1. l \in {0, 1, 2, 3, 4, 5, 6, 7}
  BY DEF Lane
<1>2. CASE lanes = 2
  BY <1>1, <1>2 DEF Partner, Lane
<1>3. CASE lanes = 4
  BY <1>1, <1>3 DEF Partner, Lane
<1>4. CASE lanes = 8
  BY <1>1, <1>4 DEF Partner, Lane
<1> QED
  BY <1>2, <1>3, <1>4

\* The shuffles exchange the halves of a word, and the words of a pair.
HalfOf(v, d) == IF d % 2 = 0 THEN low(v[d \div 2]) ELSE high(v[d \div 2])

LEMMA ShuffleIs ==
    ASSUME NEW v, NEW order
    PROVE  shuffle_epi32(v, order) =
             [j \in DOMAIN v |->
                 HalfOf(v, 4 * ((2 * j) \div 4) + order[((2 * j) % 4) + 1])
                 + HALF * HalfOf(v, 4 * ((2 * j + 1) \div 4) + order[((2 * j + 1) % 4) + 1])]
BY DEF shuffle_epi32, HalfOf

LEMMA ShuffleHigh ==
    ASSUME NEW lanes \in {2, 4, 8}, NEW v \in [0..(lanes - 1) -> Word], NEW j \in 0..(lanes - 1)
    PROVE  low(shuffle_epi32(v, MM_SHUFFLE(0, 3, 0, 1))[j]) = high(v[j])
<1> DEFINE order == <<1, 0, 3, 0>>
           c == 4 * ((2 * j) \div 4) + order[((2 * j) % 4) + 1]
           a == HalfOf(v, c)
           d == 4 * ((2 * j + 1) \div 4) + order[((2 * j + 1) % 4) + 1]
           b == HalfOf(v, d)
<1>1. j \in {0, 1, 2, 3, 4, 5, 6, 7} /\ j \in Nat
  OBVIOUS
<1>2. c = 2 * j + 1
  BY <1>1
<1>3. (2 * j + 1) % 2 = 1 /\ (2 * j + 1) \div 2 = j
  BY <1>1
<1>4. a = high(v[j])
  <2> HIDE DEF c
  <2> QED
    BY <1>2, <1>3 DEF HalfOf
<1>5. d \div 2 \in 0..(lanes - 1)
  BY <1>1
<1>6. /\ high(v[j]) \in 0..(HALF - 1)
      /\ low(v[d \div 2]) \in 0..(HALF - 1) /\ high(v[d \div 2]) \in 0..(HALF - 1)
  <2>1. v[j] \in Word /\ v[d \div 2] \in Word
    BY <1>5
  <2> QED
    BY <2>1, HalfFacts
<1>7. b \in 0..(HALF - 1)
  BY <1>6 DEF HalfOf
<1>8. MM_SHUFFLE(0, 3, 0, 1) = order
  BY DEF MM_SHUFFLE
<1>9. shuffle_epi32(v, MM_SHUFFLE(0, 3, 0, 1))[j] = a + HALF * b
  BY <1>8, ShuffleIs
<1> HIDE DEF a, b
<1>10. a + HALF * b = b * HALF + a
  BY <1>4, <1>6, <1>7, WordConstants
<1> QED
  BY <1>4, <1>6, <1>7, <1>9, <1>10, Halves

LEMMA ShuffleSwaps ==
    ASSUME NEW lanes \in {2, 4, 8}, NEW v \in [0..(lanes - 1) -> Word], NEW j \in 0..(lanes - 1)
    PROVE  shuffle_epi32(v, MM_SHUFFLE(1, 0, 3, 2))[j] = v[Partner(j)]
<1> DEFINE order == <<2, 3, 0, 1>>
           p == Partner(j)
           c == 4 * ((2 * j) \div 4) + order[((2 * j) % 4) + 1]
           d == 4 * ((2 * j + 1) \div 4) + order[((2 * j + 1) % 4) + 1]
<1>1. j \in {0, 1, 2, 3, 4, 5, 6, 7} /\ j \in Nat
  OBVIOUS
<1>2. c = 2 * p /\ d = 2 * p + 1 /\ p \in 0..(lanes - 1) /\ p \in Nat
  BY <1>1 DEF Partner
<1>3. c % 2 = 0 /\ c \div 2 = p /\ d % 2 = 1 /\ d \div 2 = p
  <2> HIDE DEF c, d, p
  <2> QED
    BY <1>2
<1>4. HalfOf(v, c) = low(v[p]) /\ HalfOf(v, d) = high(v[p])
  BY <1>3 DEF HalfOf
<1>5. MM_SHUFFLE(1, 0, 3, 2) = order
  BY DEF MM_SHUFFLE
<1>6. shuffle_epi32(v, MM_SHUFFLE(1, 0, 3, 2))[j] = HalfOf(v, c) + HALF * HalfOf(v, d)
  BY <1>5, ShuffleIs
<1>7. /\ v[p] \in Word /\ low(v[p]) \in 0..(HALF - 1) /\ high(v[p]) \in 0..(HALF - 1)
      /\ v[p] = high(v[p]) * HALF + low(v[p])
  <2>1. v[p] \in Word
    BY <1>2
  <2> QED
    BY <2>1, HalfFacts
<1>8. low(v[p]) + HALF * high(v[p]) = high(v[p]) * HALF + low(v[p])
  BY <1>7, WordConstants
<1> QED
  BY <1>4, <1>6, <1>7, <1>8

(* Each unit adds and scrambles as the formulas above say.                 *)

\* The key of a lane and its parts.
LEMMA KeyFacts ==
    ASSUME NEW input \in Lanes8, NEW secret \in Lanes8, NEW l \in Lane
    PROVE  /\ BitXor(input[l], secret[l]) \in Word /\ Product(BitXor(input[l], secret[l])) \in Nat
           /\ input[l] \in Nat /\ input[l] \in Word /\ input[Partner(l)] \in Nat
<1>1. input[l] \in Word /\ secret[l] \in Word /\ input[Partner(l)] \in Word
  BY Partners DEF Lanes8
<1>2. BitXor(input[l], secret[l]) \in Word
  BY <1>1, WordConstants
<1> QED
  BY <1>1, <1>2, ProductIsNat, WrapWord

LEMMA X86Adds ==
    ASSUME NEW acc \in Lanes8, NEW input \in Lanes8, NEW secret \in Lanes8, NEW lanes \in {2, 4, 8}
    PROVE  XXH3_accumulate_512_x86(acc, input, secret, lanes) = Added(acc, input, secret)
<1> DEFINE data_vec(i) == Register(input, lanes, i)
           data_key(i) == xor_epi64(data_vec(i), Register(secret, lanes, i))
           data_key_lo(i) == shuffle_epi32(data_key(i), MM_SHUFFLE(0, 3, 0, 1))
           product(i) == mul_epu32(data_key(i), data_key_lo(i))
           data_swap(i) == shuffle_epi32(data_vec(i), MM_SHUFFLE(1, 0, 3, 2))
           xacc(i) == add_epi64(product(i), add_epi64(Register(acc, lanes, i), data_swap(i)))
<1>1. ASSUME NEW l \in Lane
      PROVE  xacc(l \div lanes)[l % lanes] = Added(acc, input, secret)[l]
  <2> DEFINE i == l \div lanes
             j == l % lanes
             Place == 0..(lanes - 1)
             key == BitXor(input[l], secret[l])
  <2>1. /\ i \in Nat /\ j \in Place /\ lanes * i + j = l
        /\ Partner(j) \in Place /\ lanes * i + Partner(j) = Partner(l)
    BY InRegister
  <2>2. \A k \in Place : lanes * i + k \in Lane
    BY InRegister
  <2> HIDE DEF i, j
  <2>3. /\ data_vec(i) = [k \in Place |-> input[lanes * i + k]]
        /\ data_vec(i) \in [Place -> Word]
        /\ Register(secret, lanes, i) = [k \in Place |-> secret[lanes * i + k]]
        /\ Register(acc, lanes, i) = [k \in Place |-> acc[lanes * i + k]]
    BY <2>2 DEF Register, Lanes8
  <2>4. data_key(i) = [k \in Place |-> BitXor(input[lanes * i + k], secret[lanes * i + k])]
    BY <2>3 DEF xor_epi64
  <2>5. data_key(i) \in [Place -> Word] /\ data_key(i)[j] = key
    <3>1. \A k \in Place : BitXor(input[lanes * i + k], secret[lanes * i + k]) \in Word
      BY <2>2, KeyFacts
    <3> QED
      BY <2>1, <2>4, <3>1
  <2>6. low(data_key_lo(i)[j]) = high(key)
    <3> DEFINE v == data_key(i)
    <3>1. v \in [0..(lanes - 1) -> Word] /\ j \in 0..(lanes - 1) /\ v[j] = key
      BY <2>1, <2>5
    <3> HIDE DEF v
    <3>2. low(shuffle_epi32(v, MM_SHUFFLE(0, 3, 0, 1))[j]) = high(v[j])
      BY <3>1, ShuffleHigh
    <3> QED
      BY <3>1, <3>2 DEF v
  <2>7. product(i)[j] = Product(key)
    BY <2>1, <2>5, <2>6 DEF mul_epu32, Product
  <2>8. data_swap(i)[j] = input[Partner(l)]
    <3> DEFINE v == data_vec(i)
    <3>1. v \in [0..(lanes - 1) -> Word] /\ j \in 0..(lanes - 1)
      BY <2>1, <2>3
    <3>2. v[Partner(j)] = input[Partner(l)]
      BY <2>1, <2>3
    <3> HIDE DEF v
    <3>3. shuffle_epi32(v, MM_SHUFFLE(1, 0, 3, 2))[j] = v[Partner(j)]
      BY <3>1, ShuffleSwaps
    <3> QED
      BY <3>2, <3>3 DEF v
  <2>9. Register(acc, lanes, i)[j] = acc[l] /\ DOMAIN Register(acc, lanes, i) = Place
    BY <2>1, <2>3
  <2>10. DOMAIN product(i) = Place
    BY <2>5 DEF mul_epu32
  <2> HIDE DEF product, data_swap
  <2>11. xacc(i)[j] = Wrap(Product(key) + Wrap(acc[l] + input[Partner(l)]))
    BY <2>1, <2>7, <2>8, <2>9, <2>10 DEF add_epi64
  <2>12. /\ Product(key) \in Nat /\ acc[l] \in Nat /\ input[Partner(l)] \in Nat
         /\ acc[l] + input[Partner(l)] \in Nat
    BY KeyFacts
  <2> HIDE DEF key
  <2>13. Wrap(Product(key) + Wrap(acc[l] + input[Partner(l)]))
           = Wrap((acc[l] + input[Partner(l)]) + Product(key))
    BY <2>12, WrapSum
  <2>14. (acc[l] + input[Partner(l)]) + Product(key) = acc[l] + Product(key) + input[Partner(l)]
    BY <2>12
  <2> QED
    BY <2>11, <2>13, <2>14 DEF Added, i, j, key
<1>2. XXH3_accumulate_512_x86(acc, input, secret, lanes)
        = [lane \in Lane |-> xacc(lane \div lanes)[lane % lanes]]
  BY DEF XXH3_accumulate_512_x86
<1> HIDE DEF xacc
<1> QED
  BY <1>1, <1>2 DEF Added

\* By halves: the high half of the key times the prime wraps, and the whole product does.
LEMMA PrimeByHalves ==
    ASSUME NEW key \in Word
    PROVE  /\ Wrap(low(key) * XXH_PRIME32_1 + Wrap((high(key) * XXH_PRIME32_1) * HALF))
                = Wrap(key * XXH_PRIME32_1)
           /\ Wrap(Wrap(high(key) * XXH_PRIME32_1 * HALF) + low(key) * XXH_PRIME32_1)
                = Wrap(key * XXH_PRIME32_1)
<1> DEFINE lo == low(key)
           hi == high(key)
           prime == XXH_PRIME32_1
           a == (hi * prime) * HALF
           b == lo * prime
<1>1. lo \in Nat /\ hi \in Nat /\ prime \in Nat /\ HALF \in Nat /\ key = hi * HALF + lo
  <2>1. HALF \in Nat \ {0} /\ prime \in Nat
    BY WordConstants
  <2> QED
    BY <2>1, HalfFacts
<1> HIDE DEF lo, hi, prime
<1>2. a \in Nat /\ b \in Nat
  BY <1>1
<1>3. key * prime = a + b
  <2>1. (hi * HALF + lo) * prime = (hi * prime) * HALF + lo * prime
    BY <1>1
  <2> QED
    BY <1>1, <2>1
<1> HIDE DEF a, b
<1>4. Wrap(b + Wrap(a)) = Wrap(a + b) /\ Wrap(Wrap(a) + b) = Wrap(a + b)
  BY <1>2, WrapSum
<1> QED
  BY <1>3, <1>4 DEF a, b, lo, hi, prime

LEMMA PrimeFacts ==
    LET prime == XXH_PRIME32_1 + HALF * XXH_PRIME32_1
    IN  low(prime) = XXH_PRIME32_1 /\ high(prime) = XXH_PRIME32_1
<1>1. XXH_PRIME32_1 \in 0..(HALF - 1) /\ HALF \in Nat
  BY WordConstants
<1>2. XXH_PRIME32_1 + HALF * XXH_PRIME32_1 = XXH_PRIME32_1 * HALF + XXH_PRIME32_1
  BY <1>1
<1> QED
  BY <1>1, <1>2, Halves

LEMMA X86Scrambles ==
    ASSUME NEW acc \in Lanes8, NEW secret \in Lanes8, NEW lanes \in {2, 4, 8}
    PROVE  XXH3_scrambleAcc_x86(acc, secret, lanes) = Scrambled(acc, secret)
<1> DEFINE acc_vec(i) == Register(acc, lanes, i)
           shifted(i) == [j \in DOMAIN acc_vec(i) |-> acc_vec(i)[j] \div SHIFT47]
           data_key(i) == xor_epi64(xor_epi64(acc_vec(i), shifted(i)), Register(secret, lanes, i))
           data_key_hi(i) == shuffle_epi32(data_key(i), MM_SHUFFLE(0, 3, 0, 1))
           prime32(i) == [j \in DOMAIN acc_vec(i) |-> XXH_PRIME32_1 + HALF * XXH_PRIME32_1]
           prod_hi(i) == mul_epu32(data_key_hi(i), prime32(i))
           xacc(i) == add_epi64(mul_epu32(data_key(i), prime32(i)),
                                [j \in DOMAIN prod_hi(i) |-> Wrap(prod_hi(i)[j] * HALF)])
<1>1. ASSUME NEW l \in Lane
      PROVE  xacc(l \div lanes)[l % lanes] = Scrambled(acc, secret)[l]
  <2> DEFINE i == l \div lanes
             j == l % lanes
             Place == 0..(lanes - 1)
             key == BitXor(Shifted(acc[l]), secret[l])
             prime == XXH_PRIME32_1 + HALF * XXH_PRIME32_1
  <2>1. i \in Nat /\ j \in Place /\ lanes * i + j = l
    BY InRegister
  <2>2. \A k \in Place : lanes * i + k \in Lane
    BY InRegister
  <2> HIDE DEF i, j
  <2>3. /\ acc_vec(i) = [k \in Place |-> acc[lanes * i + k]]
        /\ Register(secret, lanes, i) = [k \in Place |-> secret[lanes * i + k]]
    BY DEF Register
  <2>4. data_key(i) = [k \in Place |-> BitXor(Shifted(acc[lanes * i + k]), secret[lanes * i + k])]
    BY <2>3 DEF xor_epi64, Shifted
  <2>5. data_key(i) \in [Place -> Word] /\ data_key(i)[j] = key /\ key \in Word
    BY <2>1, <2>2, <2>4, ScrambledIsWord
  <2>6. low(data_key_hi(i)[j]) = high(key) /\ DOMAIN data_key_hi(i) = Place
    <3> DEFINE v == data_key(i)
    <3>1. v \in [0..(lanes - 1) -> Word] /\ j \in 0..(lanes - 1) /\ v[j] = key
      BY <2>1, <2>5
    <3> HIDE DEF v
    <3>2. low(shuffle_epi32(v, MM_SHUFFLE(0, 3, 0, 1))[j]) = high(v[j])
      BY <3>1, ShuffleHigh
    <3>3. DOMAIN shuffle_epi32(v, MM_SHUFFLE(0, 3, 0, 1)) = DOMAIN v
      BY DEF shuffle_epi32
    <3> QED
      BY <3>1, <3>2, <3>3 DEF v
  <2>7. prime32(i) = [k \in Place |-> prime] /\ low(prime) = XXH_PRIME32_1
    BY <2>3, PrimeFacts
  <2> HIDE DEF data_key, data_key_hi, prime32, key, prime
  <2>8. prod_hi(i)[j] = high(key) * XXH_PRIME32_1 /\ DOMAIN prod_hi(i) = Place
    BY <2>1, <2>6, <2>7 DEF mul_epu32
  <2>9. /\ mul_epu32(data_key(i), prime32(i))[j] = low(key) * XXH_PRIME32_1
        /\ DOMAIN mul_epu32(data_key(i), prime32(i)) = Place
    BY <2>1, <2>5, <2>7 DEF mul_epu32
  <2> HIDE DEF prod_hi
  <2>10. xacc(i)[j] = Wrap(low(key) * XXH_PRIME32_1 + Wrap((high(key) * XXH_PRIME32_1) * HALF))
    BY <2>1, <2>8, <2>9 DEF add_epi64
  <2>11. xacc(i)[j] = Wrap(key * XXH_PRIME32_1)
    BY <2>5, <2>10, PrimeByHalves
  <2> HIDE DEF xacc
  <2> QED
    BY <2>11 DEF Scrambled, i, j, key
<1>2. XXH3_scrambleAcc_x86(acc, secret, lanes)
        = [lane \in Lane |-> xacc(lane \div lanes)[lane % lanes]]
  BY DEF XXH3_scrambleAcc_x86
<1> HIDE DEF xacc
<1> QED
  BY <1>1, <1>2 DEF Scrambled

\* The pairs of NEON, of which the first take the vector unit.
LEMMA Pairs ==
    ASSUME NEW n \in {2, 4, 6, 8}, NEW l \in Lane
    PROVE  /\ l \div 2 < n \div 2 <=> l < n
           /\ 2 * (l \div 2) + (l % 2) = l
           /\ 2 * (l \div 2) + (((l % 2) + 1) % 2) = Partner(l)
<1>1. l \in {0, 1, 2, 3, 4, 5, 6, 7}
  BY DEF Lane
<1>2. l \div 2 < n \div 2 <=> l < n
  <2>1. CASE n = 2
    BY <1>1, <2>1
  <2>2. CASE n = 4
    BY <1>1, <2>2
  <2>3. CASE n = 6
    BY <1>1, <2>3
  <2>4. CASE n = 8
    BY <1>1, <2>4
  <2> QED
    BY <2>1, <2>2, <2>3, <2>4
<1>3. /\ 2 * (l \div 2) + (l % 2) = l
      /\ 2 * (l \div 2) + (((l % 2) + 1) % 2) = Partner(l)
  BY <1>1 DEF Partner
<1> QED
  BY <1>2, <1>3

LEMMA NeonAdds ==
    ASSUME NEW acc \in Lanes8, NEW input \in Lanes8, NEW secret \in Lanes8, NEW n \in {2, 4, 6, 8}
    PROVE  XXH3_accumulate_512_neon(acc, input, secret, n) = Added(acc, input, secret)
<1> DEFINE xacc == ScalarLanes(acc, input, secret, n)
           key(l) == XXH_SPLIT_IN_PLACE(BitXor(input[l], secret[l]))
           pair(i, j) == Wrap(xacc[2 * i + j]
                              + vmlal_u32(input[2 * i + ((j + 1) % 2)],
                                          key(2 * i + j).outLo, key(2 * i + j).outHi))
<1>1. \A l \in Lane : xacc[l] = IF n <= l THEN Added(acc, input, secret)[l] ELSE acc[l]
  <2>1. n \in {0, 2, 4, 6, 8}
    OBVIOUS
  <2> QED
    BY <2>1, ScalarLanesAdd
<1> HIDE DEF xacc
<1>2. ASSUME NEW l \in Lane
      PROVE  (IF l \div 2 < n \div 2 THEN pair(l \div 2, l % 2) ELSE xacc[l])
                = Added(acc, input, secret)[l]
  <2>1. l \in Nat /\ (l \div 2 < n \div 2 <=> l < n) /\ (~(l < n) <=> n <= l)
    BY Pairs, Partners
  <2>2. CASE ~(l < n)
    BY <1>1, <2>1, <2>2
  <2>3. CASE l < n
    <3> DEFINE k == BitXor(input[l], secret[l])
               x == input[Partner(l)]
    <3>1. 2 * (l \div 2) + (l % 2) = l /\ 2 * (l \div 2) + (((l % 2) + 1) % 2) = Partner(l)
      BY Pairs
    <3>2. pair(l \div 2, l % 2) = Wrap(xacc[l] + vmlal_u32(x, key(l).outLo, key(l).outHi))
      BY <3>1
    <3>3. xacc[l] = acc[l]
      BY <1>1, <2>1, <2>3
    <3>4. key(l).outLo * key(l).outHi = Product(k)
      BY DEF XXH_SPLIT_IN_PLACE, Product
    <3>5. vmlal_u32(x, key(l).outLo, key(l).outHi) = Wrap(x + Product(k))
      BY <3>4 DEF vmlal_u32
    <3>6. acc[l] \in Nat /\ x \in Nat /\ Product(k) \in Nat /\ x + Product(k) \in Nat
      BY KeyFacts
    <3> HIDE DEF pair, key, x, k
    <3>7. pair(l \div 2, l % 2) = Wrap((x + Product(k)) + acc[l])
      BY <3>2, <3>3, <3>5, <3>6, WrapSum
    <3>8. (x + Product(k)) + acc[l] = acc[l] + Product(k) + x
      BY <3>6
    <3> QED
      BY <2>1, <2>3, <3>7, <3>8 DEF Added, x, k
  <2> QED
    BY <2>2, <2>3
<1>3. XXH3_accumulate_512_neon(acc, input, secret, n)
        = [l \in Lane |-> IF l \div 2 < n \div 2 THEN pair(l \div 2, l % 2) ELSE xacc[l]]
  BY DEF XXH3_accumulate_512_neon, xacc
<1> HIDE DEF pair
<1> QED
  BY <1>2, <1>3 DEF Added

LEMMA NeonScrambles ==
    ASSUME NEW acc \in Lanes8, NEW secret \in Lanes8, NEW n \in {2, 4, 6, 8}
    PROVE  XXH3_scrambleAcc_neon(acc, secret, n) = Scrambled(acc, secret)
<1> DEFINE xacc == ScrambleLanes(acc, secret, n)
           key(l) == XXH_SPLIT_IN_PLACE(BitXor(Shifted(xacc[l]), secret[l]))
           prod_hi(l) == Wrap(key(l).outHi * XXH_PRIME32_1 * HALF)
           word(l) == vmlal_u32(prod_hi(l), key(l).outLo, XXH_PRIME32_1)
<1>1. \A l \in Lane : xacc[l] = IF n <= l THEN Scrambled(acc, secret)[l] ELSE acc[l]
  <2>1. n \in {0, 2, 4, 6, 8}
    OBVIOUS
  <2> QED
    BY <2>1, ScrambleLanesScramble
<1> HIDE DEF xacc
<1>2. ASSUME NEW l \in Lane
      PROVE  (IF l \div 2 < n \div 2 THEN word(l) ELSE xacc[l]) = Scrambled(acc, secret)[l]
  <2>1. l \in Nat /\ (l \div 2 < n \div 2 <=> l < n) /\ (~(l < n) <=> n <= l)
    BY Pairs, Partners
  <2>2. CASE ~(l < n)
    BY <1>1, <2>1, <2>2
  <2>3. CASE l < n
    <3> DEFINE k == BitXor(Shifted(acc[l]), secret[l])
    <3>1. xacc[l] = acc[l]
      BY <1>1, <2>1, <2>3
    <3>2. key(l).outHi = high(k) /\ key(l).outLo = low(k)
      BY <3>1 DEF XXH_SPLIT_IN_PLACE
    <3>3. word(l) = Wrap(Wrap(high(k) * XXH_PRIME32_1 * HALF) + low(k) * XXH_PRIME32_1)
      BY <3>2 DEF vmlal_u32
    <3>4. k \in Word
      BY ScrambledIsWord
    <3> HIDE DEF word, k
    <3>5. word(l) = Wrap(k * XXH_PRIME32_1)
      BY <3>3, <3>4, PrimeByHalves
    <3> QED
      BY <2>1, <2>3, <3>5 DEF Scrambled, k
  <2> QED
    BY <2>2, <2>3
<1>3. XXH3_scrambleAcc_neon(acc, secret, n)
        = [l \in Lane |-> IF l \div 2 < n \div 2 THEN word(l) ELSE xacc[l]]
  BY DEF XXH3_scrambleAcc_neon, xacc
<1> HIDE DEF word
<1> QED
  BY <1>2, <1>3 DEF Scrambled

LEMMA VsxAdds ==
    ASSUME NEW acc \in Lanes8, NEW input \in Lanes8, NEW secret \in Lanes8
    PROVE  XXH3_accumulate_512_vsx(acc, input, secret) = Added(acc, input, secret)
<1> DEFINE word(l) ==
               Wrap(Wrap(acc[l] + XXH_vec_mulo(BitXor(input[l], secret[l]),
                                               vec_rl32(BitXor(input[l], secret[l]))))
                    + input[Partner(l)])
<1>1. ASSUME NEW l \in Lane PROVE word(l) = Added(acc, input, secret)[l]
  <2> DEFINE k == BitXor(input[l], secret[l])
             x == input[Partner(l)]
  <2>1. /\ k \in Word /\ acc[l] \in Nat /\ x \in Nat /\ Product(k) \in Nat
        /\ acc[l] + Product(k) \in Nat
    BY KeyFacts
  <2> HIDE DEF k
  <2>2. low(k) \in 0..(HALF - 1) /\ high(k) \in 0..(HALF - 1)
    BY <2>1, HalfFacts
  <2>3. vec_rl32(k) = low(k) * HALF + high(k)
    BY <2>1, WrapHalf DEF vec_rl32
  <2>4. low(vec_rl32(k)) = high(k)
    BY <2>2, <2>3, Halves
  <2>5. XXH_vec_mulo(k, vec_rl32(k)) = Product(k)
    BY <2>4 DEF XXH_vec_mulo, Product
  <2>6. word(l) = Wrap(Wrap(acc[l] + Product(k)) + x)
    BY <2>5 DEF k
  <2> HIDE DEF x, word
  <2>7. word(l) = Wrap((acc[l] + Product(k)) + x)
    BY <2>1, <2>6, WrapSum
  <2> QED
    BY <2>7 DEF Added, k, x
<1>2. XXH3_accumulate_512_vsx(acc, input, secret) = [l \in Lane |-> word(l)]
  BY DEF XXH3_accumulate_512_vsx
<1> HIDE DEF word
<1> QED
  BY <1>1, <1>2 DEF Added

LEMMA VsxScrambles ==
    ASSUME NEW acc \in Lanes8, NEW secret \in Lanes8
    PROVE  XXH3_scrambleAcc_vsx(acc, secret) = Scrambled(acc, secret)
<1> DEFINE prime == XXH_PRIME32_1 + HALF * XXH_PRIME32_1
           key(l) == BitXor(Shifted(acc[l]), secret[l])
           word(l) == Wrap(XXH_vec_mulo(key(l), prime) + Wrap(XXH_vec_mule(key(l), prime) * HALF))
<1>1. ASSUME NEW l \in Lane PROVE word(l) = Scrambled(acc, secret)[l]
  <2>1. low(prime) = XXH_PRIME32_1 /\ high(prime) = XXH_PRIME32_1
    BY PrimeFacts
  <2>2. key(l) \in Word
    BY ScrambledIsWord
  <2> DEFINE k == key(l)
  <2> HIDE DEF prime, key
  <2>3. word(l) = Wrap(low(k) * XXH_PRIME32_1 + Wrap((high(k) * XXH_PRIME32_1) * HALF))
    BY <2>1 DEF XXH_vec_mulo, XXH_vec_mule
  <2> HIDE DEF k, word
  <2>4. k \in Word
    BY <2>2 DEF k
  <2>5. word(l) = Wrap(k * XXH_PRIME32_1)
    BY <2>3, <2>4, PrimeByHalves
  <2> QED
    BY <2>5 DEF Scrambled, k, key
<1>2. XXH3_scrambleAcc_vsx(acc, secret) = [l \in Lane |-> word(l)]
  BY DEF XXH3_scrambleAcc_vsx
<1> HIDE DEF word
<1> QED
  BY <1>1, <1>2 DEF Scrambled

\* Every unit does the same.
LEMMA UnitsAdd ==
    ASSUME NEW acc \in Lanes8, NEW input \in Lanes8, NEW secret \in Lanes8,
           NEW unit \in VectorUnits
    PROVE  XXH3_accumulate_512(acc, input, secret, unit) = Added(acc, input, secret)
<1>1. /\ unit.vector \in {"avx512", "avx2", "sse2", "neon", "vsx", "scalar"}
      /\ unit.NEON_LANES \in {2, 4, 6, 8}
  BY HashAssumption
<1>2. CASE unit.vector \in {"avx512", "avx2", "sse2"}
  BY <1>2, X86Adds DEF XXH3_accumulate_512, XXH3_accumulate_512_avx512,
                       XXH3_accumulate_512_avx2, XXH3_accumulate_512_sse2
<1>3. CASE unit.vector = "neon"
  BY <1>1, <1>3, NeonAdds DEF XXH3_accumulate_512
<1>4. CASE unit.vector = "vsx"
  BY <1>4, VsxAdds DEF XXH3_accumulate_512
<1>5. CASE unit.vector = "scalar"
  <2> DEFINE lanes == ScalarLanes(acc, input, secret, 0)
  <2>1. \A l \in Lane : lanes[l] = Added(acc, input, secret)[l]
    <3>1. 0 \in {0, 2, 4, 6, 8} /\ \A l \in Lane : 0 <= l
      BY DEF Lane
    <3> QED
      BY <3>1, ScalarLanesAdd
  <2>2. lanes \in Lanes8
    <3>1. lanes = ScalarUpTo(acc, input, secret, 0)[8]
      BY ScalarLanesIsUpTo
    <3>2. ScalarUpward(acc, input, secret, 0, ScalarUpTo(acc, input, secret, 0))
      BY ScalarLoop
    <3> QED
      BY <3>1, <3>2 DEF ScalarUpward
  <2> HIDE DEF lanes
  <2>3. lanes = [l \in Lane |-> lanes[l]]
    BY <2>2 DEF Lanes8
  <2>4. lanes = Added(acc, input, secret)
    BY <2>1, <2>3 DEF Added
  <2> QED
    BY <1>5, <2>4 DEF XXH3_accumulate_512, XXH3_accumulate_512_scalar, lanes
<1> QED
  BY <1>1, <1>2, <1>3, <1>4, <1>5

LEMMA UnitsScramble ==
    ASSUME NEW acc \in Lanes8, NEW secret \in Lanes8, NEW unit \in VectorUnits
    PROVE  XXH3_scrambleAcc(acc, secret, unit) = Scrambled(acc, secret)
<1>1. /\ unit.vector \in {"avx512", "avx2", "sse2", "neon", "vsx", "scalar"}
      /\ unit.NEON_LANES \in {2, 4, 6, 8}
  BY HashAssumption
<1>2. CASE unit.vector \in {"avx512", "avx2", "sse2"}
  BY <1>2, X86Scrambles DEF XXH3_scrambleAcc, XXH3_scrambleAcc_avx512,
                            XXH3_scrambleAcc_avx2, XXH3_scrambleAcc_sse2
<1>3. CASE unit.vector = "neon"
  BY <1>1, <1>3, NeonScrambles DEF XXH3_scrambleAcc
<1>4. CASE unit.vector = "vsx"
  BY <1>4, VsxScrambles DEF XXH3_scrambleAcc
<1>5. CASE unit.vector = "scalar"
  <2>1. ScrambleLanes(acc, secret, 0) = ScrambledTo(acc, secret, 0, 8)
    BY ScrambleLanesIsUpTo, ScrambleLoop
  <2>2. \A l \in Lane : 0 <= l /\ l < 8
    BY DEF Lane
  <2>3. ScrambledTo(acc, secret, 0, 8) = Scrambled(acc, secret)
    BY <2>2 DEF ScrambledTo, Scrambled
  <2> QED
    BY <1>5, <2>1, <2>3 DEF XXH3_scrambleAcc, XXH3_scrambleAcc_scalar
<1> QED
  BY <1>1, <1>2, <1>3, <1>4, <1>5

-----------------------------------------------------------------------------
(* What a hash reads.                                                      *)

Covers(steps, len) ==
    InputRead(steps) = 0..(len - 1) /\ SecretRead(steps) \subseteq 0..(XXH_SECRET_DEFAULT_SIZE - 1)

\* A mix within the input and the secret, and the bytes of the input in it.
MixFits(m, len) ==
    /\ m.in \in Nat /\ m.n \in Nat /\ m.in + m.n <= len
    /\ m.key \in Nat /\ m.k \in Nat /\ m.key + m.k <= 192
MixReads(m, b) == m.in <= b /\ b < m.in + m.n

LEMMA CoversWhen ==
    ASSUME NEW len \in Nat, NEW steps,
           \A s \in DOMAIN steps : \A m \in steps[s] : MixFits(m, len),
           \A b \in 0..(len - 1) : \E s \in DOMAIN steps : \E m \in steps[s] : MixReads(m, b)
    PROVE  Covers(steps, len)
<1>1. ASSUME NEW b, NEW s \in DOMAIN steps, NEW m \in steps[s], b \in Bytes(m.in, m.n)
      PROVE  b \in 0..(len - 1)
  BY <1>1 DEF Bytes, MixFits
<1>2. ASSUME NEW b \in 0..(len - 1)
      PROVE  \E s \in DOMAIN steps : \E m \in steps[s] : b \in Bytes(m.in, m.n)
  <2>1. PICK s \in DOMAIN steps : \E m \in steps[s] : MixReads(m, b)
    OBVIOUS
  <2>3. PICK m \in steps[s] : MixReads(m, b)
    BY <2>1
  <2>2. b \in Bytes(m.in, m.n)
    BY <2>3 DEF MixReads, MixFits, Bytes
  <2> QED
    BY <2>2
<1>3. ASSUME NEW b, NEW s \in DOMAIN steps, NEW m \in steps[s], b \in Bytes(m.key, m.k)
      PROVE  b \in 0..(XXH_SECRET_DEFAULT_SIZE - 1)
  BY <1>3 DEF Bytes, MixFits, XXH_SECRET_DEFAULT_SIZE
<1>4. InputRead(steps) = 0..(len - 1)
  <2>1. ASSUME NEW b \in InputRead(steps) PROVE b \in 0..(len - 1)
    <3>1. PICK s \in DOMAIN steps : b \in UNION {Bytes(m.in, m.n) : m \in steps[s]}
      BY DEF InputRead
    <3>2. PICK m \in steps[s] : b \in Bytes(m.in, m.n)
      BY <3>1
    <3> QED
      BY <1>1, <3>2
  <2>2. ASSUME NEW b \in 0..(len - 1) PROVE b \in InputRead(steps)
    <3>1. PICK s \in DOMAIN steps : \E m \in steps[s] : b \in Bytes(m.in, m.n)
      BY <1>2
    <3>2. b \in UNION {Bytes(x.in, x.n) : x \in steps[s]}
      BY <3>1
    <3> QED
      BY <3>2 DEF InputRead
  <2> QED
    BY <2>1, <2>2
<1>5. SecretRead(steps) \subseteq 0..(XXH_SECRET_DEFAULT_SIZE - 1)
  <2> SUFFICES ASSUME NEW b \in SecretRead(steps) PROVE b \in 0..(XXH_SECRET_DEFAULT_SIZE - 1)
    OBVIOUS
  <2>1. PICK s \in DOMAIN steps : b \in UNION {Bytes(m.key, m.k) : m \in steps[s]}
    BY DEF SecretRead
  <2>2. PICK m \in steps[s] : b \in Bytes(m.key, m.k)
    BY <2>1
  <2> QED
    BY <1>3, <2>2
<1> QED
  BY <1>4, <1>5 DEF Covers

\* A hash of a single step.
LEMMA StepCovers ==
    ASSUME NEW len \in Nat, NEW step,
           \A m \in step : MixFits(m, len),
           \A b \in 0..(len - 1) : \E m \in step : MixReads(m, b)
    PROVE  Covers(<<step>>, len)
<1> DEFINE steps == <<step>>
<1>1. DOMAIN steps = {1} /\ steps[1] = step
  OBVIOUS
<1> HIDE DEF steps
<1>2. /\ \A s \in DOMAIN steps : \A m \in steps[s] : MixFits(m, len)
      /\ \A b \in 0..(len - 1) : \E s \in DOMAIN steps : \E m \in steps[s] : MixReads(m, b)
  BY <1>1
<1>3. Covers(steps, len)
  BY <1>2, CoversWhen
<1> QED
  BY <1>3 DEF steps

LEMMA MixParts ==
    ASSUME NEW to, NEW in, NEW n, NEW key, NEW k
    PROVE  LET m == Mix(to, in, n, key, k) IN m.in = in /\ m.n = n /\ m.key = key /\ m.k = k
BY DEF Mix

LEMMA Len0to16Covers ==
    ASSUME NEW len \in 0..16
    PROVE  Covers(XXH3_len_0to16_64b(len), len)
<1>1. CASE len > 8
  <2> DEFINE step == {Mix(0, 0, 8, 24, 16), Mix(1, len - 8, 8, 40, 16)}
  <2>1. \A m \in step : MixFits(m, len)
    BY <1>1 DEF Mix, MixFits
  <2>2. \A b \in 0..(len - 1) : \E m \in step : MixReads(m, b)
    BY <1>1 DEF Mix, MixReads
  <2>3. len \in Nat /\ XXH3_len_0to16_64b(len) = <<step>>
    BY <1>1 DEF XXH3_len_0to16_64b, XXH3_len_9to16_64b
  <2> HIDE DEF step
  <2> QED
    BY <2>1, <2>2, <2>3, StepCovers
<1>2. CASE ~(len > 8) /\ len >= 4
  <2> DEFINE step == {Mix(32, 0, 4, 8, 16), Mix(0, len - 4, 4, 8, 16)}
  <2>1. \A m \in step : MixFits(m, len)
    BY <1>2 DEF Mix, MixFits
  <2>2. \A b \in 0..(len - 1) : \E m \in step : MixReads(m, b)
    BY <1>2 DEF Mix, MixReads
  <2>3. len \in Nat /\ XXH3_len_0to16_64b(len) = <<step>>
    BY <1>2 DEF XXH3_len_0to16_64b, XXH3_len_4to8_64b
  <2> HIDE DEF step
  <2> QED
    BY <2>1, <2>2, <2>3, StepCovers
<1>3. CASE ~(len >= 4) /\ len # 0
  <2> DEFINE half == len \div 2
             step == {Mix(16, 0, 1, 0, 8), Mix(24, half, 1, 0, 8), Mix(0, len - 1, 1, 0, 8)}
  <2>1. half \in Nat /\ half < len /\ (len = 3 => half = 1)
    BY <1>3
  <2>2. len \in Nat /\ XXH3_len_0to16_64b(len) = <<step>>
    BY <1>3 DEF XXH3_len_0to16_64b, XXH3_len_1to3_64b
  <2> HIDE DEF half
  <2>3. \A m \in step : MixFits(m, len)
    BY <1>3, <2>1 DEF Mix, MixFits
  <2>4. \A b \in 0..(len - 1) : \E m \in step : MixReads(m, b)
    BY <1>3, <2>1 DEF Mix, MixReads
  <2> HIDE DEF step
  <2> QED
    BY <2>2, <2>3, <2>4, StepCovers
<1>4. CASE len = 0
  <2> DEFINE step == {Mix(0, 0, 0, 56, 16)}
  <2>1. \A m \in step : MixFits(m, 0)
    BY DEF Mix, MixFits
  <2>2. \A b \in 0..(0 - 1) : \E m \in step : MixReads(m, b)
    OBVIOUS
  <2>3. 0 \in Nat /\ XXH3_len_0to16_64b(len) = <<step>>
    BY <1>4 DEF XXH3_len_0to16_64b
  <2> HIDE DEF step
  <2>4. Covers(<<step>>, 0)
    BY <2>1, <2>2, <2>3, StepCovers
  <2> QED
    BY <1>4, <2>3, <2>4
<1> QED
  BY <1>1, <1>2, <1>3, <1>4

\* Middle inputs: the two mixes of a turn.
MiddleTurn(len, i) == {XXH3_mix16B(16 * i, 32 * i), XXH3_mix16B(len - 16 * (i + 1), 32 * i + 16)}
MiddleTurns(len) == UNION {MiddleTurn(len, i) : i \in 0..((len - 1) \div 32)}

LEMMA MiddleTurnsCover ==
    ASSUME NEW len \in 17..128
    PROVE  Covers(<<MiddleTurns(len)>>, len)
<1> DEFINE q == (len - 1) \div 32
<1>1. q \in 0..3 /\ 32 * q <= len - 1 /\ len - 1 < 32 * q + 32 /\ len \in Nat
  OBVIOUS
<1> HIDE DEF q
<1>2. ASSUME NEW m \in MiddleTurns(len) PROVE MixFits(m, len)
  <2>1. PICK i \in 0..q : m \in MiddleTurn(len, i)
    BY DEF MiddleTurns, q
  <2>2. 16 * (i + 1) <= len /\ i \in 0..3
    BY <1>1
  <2> QED
    BY <2>1, <2>2 DEF MiddleTurn, XXH3_mix16B, Mix, MixFits
<1>3. ASSUME NEW b \in 0..(len - 1) PROVE \E m \in MiddleTurns(len) : MixReads(m, b)
  <2> DEFINE i == b \div 16
             j == (len - 1 - b) \div 16
  <2>1. /\ i \in Nat /\ 16 * i <= b /\ b < 16 * i + 16
        /\ j \in Nat /\ 16 * j <= len - 1 - b /\ len - 1 - b < 16 * j + 16
    OBVIOUS
  <2> HIDE DEF i, j
  <2>2. CASE i <= q
    <3>1. XXH3_mix16B(16 * i, 32 * i) \in MiddleTurns(len)
      BY <1>1, <2>1, <2>2 DEF MiddleTurns, MiddleTurn, q
    <3>2. MixReads(XXH3_mix16B(16 * i, 32 * i), b)
      BY <2>1 DEF MixReads, XXH3_mix16B, Mix
    <3> QED
      BY <3>1, <3>2
  <2>3. CASE ~(i <= q)
    <3>1. j <= q
      BY <1>1, <2>1, <2>3
    <3>2. XXH3_mix16B(len - 16 * (j + 1), 32 * j + 16) \in MiddleTurns(len)
      BY <1>1, <2>1, <3>1 DEF MiddleTurns, MiddleTurn, q
    <3>3. MixReads(XXH3_mix16B(len - 16 * (j + 1), 32 * j + 16), b)
      BY <2>1 DEF MixReads, XXH3_mix16B, Mix
    <3> QED
      BY <3>2, <3>3
  <2> QED
    BY <2>2, <2>3
<1> QED
  BY <1>1, <1>2, <1>3, StepCovers

\* Builds for size and for speed mix the same.
LEMMA MiddleIsTurns ==
    ASSUME NEW len \in 17..128, NEW opt \in 0..2
    PROVE  XXH3_len_17to128_64b(len, opt) = <<MiddleTurns(len)>>
<1>1. CASE opt >= 1
  BY <1>1 DEF XXH3_len_17to128_64b, MiddleTurns, MiddleTurn
<1>2. CASE ~(opt >= 1)
  <2> DEFINE q == (len - 1) \div 32
             T(i) == MiddleTurn(len, i)
             third == IF len > 96 THEN T(3) ELSE {}
             second == IF len > 64 THEN T(2) ELSE {}
             first == IF len > 32 THEN T(1) ELSE {}
  <2>1. /\ T(3) = {XXH3_mix16B(48, 96), XXH3_mix16B(len - 64, 112)}
        /\ T(2) = {XXH3_mix16B(32, 64), XXH3_mix16B(len - 48, 80)}
        /\ T(1) = {XXH3_mix16B(16, 32), XXH3_mix16B(len - 32, 48)}
        /\ T(0) = {XXH3_mix16B(0, 0), XXH3_mix16B(len - 16, 16)}
    BY DEF MiddleTurn
  <2>2. XXH3_len_17to128_64b(len, opt) = << UNION {third, second, first, T(0)} >>
    BY <1>2, <2>1 DEF XXH3_len_17to128_64b
  <2>3. MiddleTurns(len) = UNION {T(i) : i \in 0..q}
    BY DEF MiddleTurns
  <2>4. /\ q \in 0..3 /\ (len > 96 <=> q >= 3) /\ (len > 64 <=> q >= 2) /\ (len > 32 <=> q >= 1)
    OBVIOUS
  <2> HIDE DEF T, q
  <2>5. UNION {third, second, first, T(0)} = UNION {T(i) : i \in 0..q}
    <3>1. ASSUME NEW x PROVE x \in UNION {T(i) : i \in 0..q} <=> \E i \in 0..q : x \in T(i)
      OBVIOUS
    <3>2. ASSUME NEW x
          PROVE  (\E i \in 0..q : x \in T(i))
                   <=> \/ q >= 3 /\ x \in T(3)
                       \/ q >= 2 /\ x \in T(2)
                       \/ q >= 1 /\ x \in T(1)
                       \/ x \in T(0)
      <4>1. CASE q = 0
        <5>1. 0..q = {0}
          BY <4>1
        <5> QED
          BY <4>1, <5>1
      <4>2. CASE q = 1
        <5>1. 0..q = {0, 1}
          BY <4>2
        <5> QED
          BY <4>2, <5>1
      <4>3. CASE q = 2
        <5>1. 0..q = {0, 1, 2}
          BY <4>3
        <5> QED
          BY <4>3, <5>1
      <4>4. CASE q = 3
        <5>1. 0..q = {0, 1, 2, 3}
          BY <4>4
        <5> QED
          BY <4>4, <5>1
      <4> QED
        BY <2>4, <4>1, <4>2, <4>3, <4>4
    <3>3. ASSUME NEW x
          PROVE  x \in UNION {third, second, first, T(0)}
                   <=> x \in third \/ x \in second \/ x \in first \/ x \in T(0)
      OBVIOUS
    <3> QED
      BY <2>4, <3>1, <3>2, <3>3
  <2> QED
    BY <2>2, <2>3, <2>5
<1> QED
  BY <1>1, <1>2

LEMMA Len129to240Covers ==
    ASSUME NEW len \in 129..240
    PROVE  Covers(XXH3_len_129to240_64b(len), len)
<1> DEFINE nb == len \div 16
           first == {XXH3_mix16B(16 * i, 16 * i) : i \in 0..7}
           rest == {XXH3_mix16B(16 * i, 16 * (i - 8) + 3) : i \in 8..(nb - 1)}
           last == XXH3_mix16B(len - 16, 119)
           steps == <<first, rest \cup {last}>>
<1>1. nb \in 8..15 /\ 16 * nb <= len /\ len < 16 * nb + 16 /\ len \in Nat
  OBVIOUS
<1>2. XXH3_len_129to240_64b(len) = steps
  BY DEF XXH3_len_129to240_64b, XXH3_MIDSIZE_STARTOFFSET, XXH3_SECRET_SIZE_MIN,
         XXH3_MIDSIZE_LASTOFFSET
<1>3. DOMAIN steps = {1, 2} /\ steps[1] = first /\ steps[2] = rest \cup {last}
  OBVIOUS
<1> HIDE DEF nb, steps
<1>4. \A m \in first : MixFits(m, len)
  BY <1>1 DEF MixFits, XXH3_mix16B, Mix
<1>5. \A m \in rest : MixFits(m, len)
  BY <1>1 DEF MixFits, XXH3_mix16B, Mix
<1>6. MixFits(last, len)
  BY <1>1 DEF MixFits, XXH3_mix16B, Mix
<1>7. ASSUME NEW b \in 0..(len - 1)
      PROVE  (\E m \in first : MixReads(m, b)) \/ (\E m \in rest \cup {last} : MixReads(m, b))
  <2> DEFINE i == b \div 16
  <2>1. i \in Nat /\ 16 * i <= b /\ b < 16 * i + 16
    OBVIOUS
  <2> HIDE DEF i
  <2>2. CASE i <= 7
    <3>1. MixReads(XXH3_mix16B(16 * i, 16 * i), b)
      BY <2>1 DEF MixReads, XXH3_mix16B, Mix
    <3> QED
      BY <2>1, <2>2, <3>1
  <2>3. CASE i \in 8..(nb - 1)
    <3>1. MixReads(XXH3_mix16B(16 * i, 16 * (i - 8) + 3), b)
      BY <2>1 DEF MixReads, XXH3_mix16B, Mix
    <3> QED
      BY <2>3, <3>1
  <2>4. CASE i >= nb
    <3>1. MixReads(last, b)
      BY <1>1, <2>1, <2>4 DEF MixReads, XXH3_mix16B, Mix
    <3> QED
      BY <3>1
  <2> QED
    BY <1>1, <2>1, <2>2, <2>3, <2>4
<1> HIDE DEF first, rest, last
<1>8. \A s \in DOMAIN steps : \A m \in steps[s] : MixFits(m, len)
  BY <1>3, <1>4, <1>5, <1>6
<1>9. \A b \in 0..(len - 1) : \E s \in DOMAIN steps : \E m \in steps[s] : MixReads(m, b)
  BY <1>3, <1>7
<1> QED
  BY <1>1, <1>2, <1>8, <1>9, CoversWhen

(* Long inputs: blocks of sixteen stripes, what is left, and the last stripe. *)

BlockStep(nb, s) ==
    IF s % 2 = 0 THEN {Mix(0, 0, 0, 128, 64)} ELSE XXH3_accumulate((s \div 2) * 1024, 0, 16)

LongSteps(len, nb, ns) ==
    [s \in 1..(2 * nb) |-> BlockStep(nb, s)]
    \o << XXH3_accumulate(nb * 1024, 0, ns) \cup {Stripe(len - 64, 121)} >>
    \o << XXH3_mergeAccs(11) >>

LEMMA LongIs ==
    ASSUME NEW len \in Nat
    PROVE  LET nb == (len - 1) \div 1024
           IN  XXH3_hashLong_64b_internal(len, 192)
                 = LongSteps(len, nb, ((len - 1) - 1024 * nb) \div 64)
<1>1. /\ (192 - 64) \div 8 = 16 /\ 64 * 16 = 1024 /\ 192 - 64 = 128 /\ 192 - 64 - 7 = 121
  OBVIOUS
<1> QED
  BY <1>1 DEF XXH3_hashLong_64b_internal, XXH3_hashLong_internal_loop, LongSteps, BlockStep,
              XXH_STRIPE_LEN, XXH_SECRET_CONSUME_RATE, XXH_SECRET_LASTACC_START,
              XXH_SECRET_MERGEACCS_START

LEMMA StripesFit ==
    ASSUME NEW len \in Nat, NEW start \in Nat, NEW n \in 0..16, start + 64 * n <= len,
           NEW m \in XXH3_accumulate(start, 0, n)
    PROVE  MixFits(m, len)
<1>1. PICK i \in 0..(n - 1) : m = Stripe(start + i * 64, 0 + i * 8)
  BY DEF XXH3_accumulate, XXH_STRIPE_LEN, XXH_SECRET_CONSUME_RATE
<1>2. i \in 0..15 /\ 64 * i + 64 <= 64 * n
  OBVIOUS
<1> QED
  BY <1>1, <1>2 DEF Stripe, Mix, MixFits, XXH_STRIPE_LEN

LEMMA StripesRead ==
    ASSUME NEW start \in Nat, NEW n \in 0..16, NEW b \in start..(start + 64 * n - 1)
    PROVE  \E m \in XXH3_accumulate(start, 0, n) : MixReads(m, b)
<1> DEFINE i == (b - start) \div 64
<1>1. i \in 0..(n - 1) /\ start + i * 64 <= b /\ b < start + i * 64 + 64
  <2>1. b - start \in Nat /\ b - start < 64 * n
    OBVIOUS
  <2>2. i \in Nat /\ 64 * i <= b - start /\ b - start < 64 * i + 64
    BY <2>1
  <2> HIDE DEF i
  <2> QED
    BY <2>1, <2>2
<1> HIDE DEF i
<1>2. Stripe(start + i * 64, 0 + i * 8) \in XXH3_accumulate(start, 0, n)
  BY <1>1 DEF XXH3_accumulate, XXH_STRIPE_LEN, XXH_SECRET_CONSUME_RATE
<1>3. MixReads(Stripe(start + i * 64, 0 + i * 8), b)
  BY <1>1 DEF MixReads, Stripe, Mix, XXH_STRIPE_LEN
<1> QED
  BY <1>2, <1>3

LEMMA LongCovers ==
    ASSUME NEW len \in Nat, len > 240
    PROVE  Covers(XXH3_hashLong_64b_internal(len, 192), len)
<1> DEFINE nb == (len - 1) \div 1024
           ns == ((len - 1) - 1024 * nb) \div 64
           blocks == [s \in 1..(2 * nb) |-> BlockStep(nb, s)]
           last == XXH3_accumulate(nb * 1024, 0, ns) \cup {Stripe(len - 64, 121)}
           merge == XXH3_mergeAccs(11)
           steps == LongSteps(len, nb, ns)
<1>1. XXH3_hashLong_64b_internal(len, 192) = steps
  BY LongIs
<1>2. nb \in Nat /\ 1024 * nb <= len - 1 /\ len - 1 < 1024 * nb + 1024
  OBVIOUS
<1> HIDE DEF nb
<1>3. /\ ns \in 0..15 /\ 1024 * nb + 64 * ns <= len - 1 /\ len - 1 < 1024 * nb + 64 * ns + 64
  <2> DEFINE r == (len - 1) - 1024 * nb
  <2>1. r \in 0..1023
    BY <1>2
  <2>2. ns = r \div 64
    OBVIOUS
  <2> HIDE DEF r
  <2>3. r \div 64 \in 0..15 /\ 64 * (r \div 64) <= r /\ r < 64 * (r \div 64) + 64
    BY <2>1
  <2> HIDE DEF ns
  <2> QED
    BY <1>2, <2>1, <2>2, <2>3 DEF r
<1> HIDE DEF ns
<1>4. /\ DOMAIN steps = 1..(2 * nb + 2)
      /\ \A s \in 1..(2 * nb) : steps[s] = BlockStep(nb, s)
      /\ steps[2 * nb + 1] = last /\ steps[2 * nb + 2] = merge
  <2> DEFINE S == {steps} \cup {last, merge} \cup {BlockStep(nb, s) : s \in 1..(2 * nb)}
  <2>1. blocks \in [1..(2 * nb) -> S] /\ 2 * nb \in Nat
    BY <1>2
  <2>2. blocks \in Seq(S) /\ Len(blocks) = 2 * nb
    BY <2>1, ReversedTwice
  <2>3. <<last>> \in Seq(S) /\ <<merge>> \in Seq(S)
    OBVIOUS
  <2>4. steps = (blocks \o <<last>>) \o <<merge>>
    BY DEF LongSteps
  <2>5. \A s \in 1..(2 * nb) : blocks[s] = BlockStep(nb, s)
    OBVIOUS
  <2> HIDE DEF blocks, last, merge, steps, S
  <2>6. /\ blocks \o <<last>> \in Seq(S) /\ Len(blocks \o <<last>>) = 2 * nb + 1
        /\ \A s \in 1..(2 * nb) : (blocks \o <<last>>)[s] = blocks[s]
        /\ (blocks \o <<last>>)[2 * nb + 1] = last
    BY <2>1, <2>2, <2>3
  <2> DEFINE front == blocks \o <<last>>
  <2> HIDE DEF front
  <2>7. /\ Len(front \o <<merge>>) = 2 * nb + 2
        /\ front \o <<merge>> \in Seq(S)
        /\ \A s \in 1..(2 * nb + 1) : (front \o <<merge>>)[s] = front[s]
        /\ (front \o <<merge>>)[2 * nb + 2] = merge
    BY <2>1, <2>3, <2>6 DEF front
  <2>8. DOMAIN steps = 1..(2 * nb + 2)
    BY <2>4, <2>7, LenProperties DEF front
  <2> QED
    BY <1>2, <2>4, <2>5, <2>6, <2>7, <2>8 DEF front
<1> HIDE DEF steps
<1>5. ASSUME NEW s \in DOMAIN steps, NEW m \in steps[s] PROVE MixFits(m, len)
  <2>1. CASE s \in 1..(2 * nb) /\ s % 2 = 0
    <3>1. m = Mix(0, 0, 0, 128, 64)
      BY <1>4, <2>1 DEF BlockStep
    <3> QED
      BY <3>1 DEF Mix, MixFits
  <2>2. CASE s \in 1..(2 * nb) /\ s % 2 # 0
    <3> DEFINE k == s \div 2
    <3>1. k \in Nat /\ k < nb
      BY <1>2, <2>2
    <3>2. m \in XXH3_accumulate(k * 1024, 0, 16)
      BY <1>4, <2>2 DEF BlockStep
    <3> HIDE DEF k
    <3>3. k * 1024 \in Nat /\ k * 1024 + 64 * 16 <= len /\ 16 \in 0..16
      BY <1>2, <3>1
    <3> QED
      BY <3>2, <3>3, StripesFit
  <2>3. CASE s = 2 * nb + 1
    <3>1. m \in XXH3_accumulate(nb * 1024, 0, ns) \/ m = Stripe(len - 64, 121)
      BY <1>4, <2>3
    <3>2. nb * 1024 \in Nat /\ nb * 1024 + 64 * ns <= len /\ ns \in 0..16
      BY <1>2, <1>3
    <3>3. MixFits(Stripe(len - 64, 121), len)
      BY DEF Stripe, Mix, MixFits, XXH_STRIPE_LEN
    <3> QED
      BY <3>1, <3>2, <3>3, StripesFit
  <2>4. CASE s = 2 * nb + 2
    <3>1. m \in {Mix(i, 0, 0, 11 + 16 * i, 16) : i \in 0..3}
      BY <1>4, <2>4 DEF XXH3_mergeAccs
    <3> QED
      BY <3>1 DEF Mix, MixFits
  <2> QED
    BY <1>2, <1>4, <2>1, <2>2, <2>3, <2>4
<1>6. ASSUME NEW b \in 0..(len - 1)
      PROVE  \E s \in DOMAIN steps : \E m \in steps[s] : MixReads(m, b)
  <2>1. CASE b < 1024 * nb
    <3> DEFINE k == b \div 1024
               s == 2 * k + 1
    <3>1. k \in Nat /\ 1024 * k <= b /\ b < 1024 * k + 1024
      OBVIOUS
    <3> HIDE DEF k
    <3>2. k < nb /\ s \in 1..(2 * nb) /\ s % 2 = 1 /\ s \div 2 = k
      BY <1>2, <2>1, <3>1
    <3>3. steps[s] = XXH3_accumulate(k * 1024, 0, 16) /\ s \in DOMAIN steps
      <4>1. BlockStep(nb, s) = XXH3_accumulate(k * 1024, 0, 16)
        BY <3>2 DEF BlockStep
      <4> HIDE DEF s
      <4> QED
        BY <1>2, <1>4, <3>2, <4>1
    <3>4. k * 1024 \in Nat /\ 16 \in 0..16 /\ b \in (k * 1024)..(k * 1024 + 64 * 16 - 1)
      BY <3>1
    <3>5. \E m \in XXH3_accumulate(k * 1024, 0, 16) : MixReads(m, b)
      BY <3>4, StripesRead
    <3> QED
      BY <3>3, <3>5
  <2>2. CASE ~(b < 1024 * nb)
    <3>1. 2 * nb + 1 \in DOMAIN steps /\ steps[2 * nb + 1] = last
      BY <1>2, <1>4
    <3>2. CASE b < 1024 * nb + 64 * ns
      <4>1. nb * 1024 \in Nat /\ ns \in 0..16 /\ b \in (nb * 1024)..(nb * 1024 + 64 * ns - 1)
        BY <1>2, <1>3, <2>2, <3>2
      <4>2. \E m \in XXH3_accumulate(nb * 1024, 0, ns) : MixReads(m, b)
        BY <4>1, StripesRead
      <4> QED
        BY <3>1, <4>2
    <3>3. CASE ~(b < 1024 * nb + 64 * ns)
      <4>1. len - 64 <= b /\ b < (len - 64) + 64
        BY <1>2, <1>3, <3>3
      <4>2. MixReads(Stripe(len - 64, 121), b)
        BY <4>1 DEF Stripe, Mix, MixReads, XXH_STRIPE_LEN
      <4> QED
        BY <3>1, <4>2
    <3> QED
      BY <3>2, <3>3
  <2> QED
    BY <2>1, <2>2
<1> QED
  BY <1>1, <1>5, <1>6, CoversWhen

\* The secret of the seed 0 is the fixed one.
LEMMA SecretOfZero == \A opt \in 0..2 : SecretOf(0, opt) = XXH3_kSecret
<1>1. XXH3_kSecret \in [0..23 -> Word]
  BY HashAssumption DEF Secret
<1>2. XXH3_initCustomSecret_scalar(XXH3_kSecret, 0) = XXH3_kSecret
  <2>1. ASSUME NEW w \in 0..23
        PROVE  /\ Wrap(XXH3_kSecret[w] + 0) = XXH3_kSecret[w]
               /\ Wrap(XXH3_kSecret[w] + HALF * HALF - 0) = XXH3_kSecret[w]
    <3> DEFINE x == XXH3_kSecret[w]
    <3>1. x \in Word /\ x \in Nat /\ Wrap(x) = x
      BY <1>1, WrapWord
    <3>2. Modulus \in Nat /\ Modulus = HALF * HALF /\ 1 \in Nat
      BY WordConstants DEF Modulus
    <3> HIDE DEF x
    <3>3. Wrap(1 * Modulus + x) = x
      BY <3>1, <3>2, WrapOf
    <3>4. 1 * Modulus + x = x + HALF * HALF - 0 /\ x + 0 = x
      BY <3>1, <3>2
    <3> QED
      BY <3>1, <3>3, <3>4 DEF x
  <2> QED
    BY <1>1, <2>1 DEF XXH3_initCustomSecret_scalar
<1> QED
  BY <1>2 DEF SecretOf

(* XXH32.                                                                  *)

LEMMA TurnsAre ==
    ASSUME NEW again, NEW max \in Nat, NEW k \in 1..max,
           k \notin again, \A m \in 1..(k - 1) : m \in again
    PROVE  Turns(again, max) = k
<1> DEFINE P(n) == n \notin again /\ \A m \in 1..(n - 1) : m \in again
<1>1. P(k)
  OBVIOUS
<1>2. ASSUME NEW n \in 1..max, P(n) PROVE n = k
  <2>1. ~(n < k)
    <3>1. n < k => n \in 1..(k - 1)
      OBVIOUS
    <3> QED
      BY <1>2, <3>1
  <2>2. ~(k < n)
    <3>1. k < n => k \in 1..(n - 1)
      OBVIOUS
    <3> QED
      BY <1>2, <3>1
  <2> QED
    BY <2>1, <2>2
<1>3. Turns(again, max) = CHOOSE n \in 1..max : P(n)
  BY DEF Turns
<1> HIDE DEF P
<1> QED
  BY <1>1, <1>2, <1>3

\* Both loops over 16 bytes make as many turns.
LEMMA BothLoopsTurn ==
    ASSUME NEW len \in Nat, len >= 16
    PROVE  /\ Turns({n \in 1..len : 16 * n < len - 15}, len) = len \div 16
           /\ Turns({n \in 1..len : 16 * n <= len - 16}, len) = len \div 16
<1> DEFINE k == len \div 16
<1>1. k \in 1..len /\ 16 * k <= len /\ len < 16 * k + 16
  OBVIOUS
<1> HIDE DEF k
<1>2. Turns({n \in 1..len : 16 * n < len - 15}, len) = k
  <2> DEFINE again == {n \in 1..len : 16 * n < len - 15}
  <2>1. k \notin again /\ \A m \in 1..(k - 1) : m \in again
    BY <1>1
  <2> HIDE DEF again
  <2> QED
    BY <1>1, <2>1, TurnsAre DEF again
<1>3. Turns({n \in 1..len : 16 * n <= len - 16}, len) = k
  <2> DEFINE again == {n \in 1..len : 16 * n <= len - 16}
  <2>1. k \notin again /\ \A m \in 1..(k - 1) : m \in again
    BY <1>1
  <2> HIDE DEF again
  <2> QED
    BY <1>1, <2>1, TurnsAre DEF again
<1> QED
  BY <1>2, <1>3 DEF k

\* The cases of the switch are the words and the bytes that are left.
LEMMA SwitchIsDivision ==
    ASSUME NEW rest \in 0..15
    PROVE  ENDJMP[rest + 1][1] = rest \div 4 /\ ENDJMP[rest + 1][2] = rest % 4
<1>1. rest \in {0, 1, 2, 3, 4, 5, 6, 7, 8, 9, 10, 11, 12, 13, 14, 15}
  OBVIOUS
<1> QED
  BY <1>1 DEF ENDJMP

\* What is left of the input, from a multiple of 16 bytes on.
Rest32(ptr, rest) ==
    [s \in 1..((rest \div 4) + (rest % 4)) |->
        {IF s <= rest \div 4 THEN Mix(0, ptr + 4 * (s - 1), 4, 0, 0)
         ELSE Mix(0, ptr + 3 * (rest \div 4) + s - 1, 1, 0, 0)}]

LEMMA FinalizeIs ==
    ASSUME NEW ptr, NEW len \in Nat, NEW jump \in BOOLEAN
    PROVE  XXH32_finalize(ptr, len, jump) = Rest32(ptr, len % 16)
<1>1. len % 16 \in 0..15
  OBVIOUS
<1>2. /\ ENDJMP[(len % 16) + 1][1] = (len % 16) \div 4
      /\ ENDJMP[(len % 16) + 1][2] = (len % 16) % 4
  BY <1>1, SwitchIsDivision
<1> QED
  BY <1>2 DEF XXH32_finalize, Rest32

Steps32(len) ==
    [s \in 1..(len \div 16) |-> Round(16 * (s - 1))] \o Rest32(16 * (len \div 16), len % 16)
Digest32(len) == Digest(IF len >= 16 THEN "lanes" ELSE "seed", len, 0, Steps32(len))

\* What XXH32_update counts in a new state.
CountingOf(len) ==
    [XXH32_reset(0) EXCEPT
        !.total_len_32 = XXH32_reset(0).total_len_32 + len,
        !.large_len = @ \/ len >= 16 \/ XXH32_reset(0).total_len_32 + len >= 16]
CountedAs(len, state) ==
    /\ state.total_len_32 = len /\ (state.large_len <=> len >= 16) /\ state.seed = 0

LEMMA Counted ==
    ASSUME NEW len \in Nat
    PROVE  /\ CountedAs(len, CountingOf(len)) /\ CountingOf(len).v = <<>>
           /\ DOMAIN CountingOf(len)
                = {"v", "seed", "total_len_32", "large_len", "mem", "memsize"}
<1> DEFINE new == [v |-> <<>>, seed |-> 0, total_len_32 |-> 0, large_len |-> FALSE,
                   mem |-> 0, memsize |-> 0]
           large == FALSE \/ len >= 16 \/ 0 + len >= 16
           all == [new EXCEPT !.total_len_32 = 0 + len, !.large_len = large]
<1>1. CountingOf(len) = all
  BY DEF CountingOf, XXH32_reset
<1>2. 0 + len = len /\ (large <=> len >= 16)
  OBVIOUS
<1> HIDE DEF large
<1>3. all.total_len_32 = 0 + len /\ all.large_len = large /\ all.seed = 0 /\ all.v = <<>>
  OBVIOUS
<1>4. DOMAIN all = {"v", "seed", "total_len_32", "large_len", "mem", "memsize"}
  OBVIOUS
<1> HIDE DEF all
<1> QED
  BY <1>1, <1>2, <1>3, <1>4 DEF CountedAs

\* Built for size or for speed, with or without the switch: the same digest.
LEMMA XXH32Is ==
    ASSUME NEW len \in Nat, NEW build, build.XXH32_ENDJMP \in BOOLEAN
    PROVE  XXH32(len, 0, build) = Digest32(len)
<1> DEFINE jump == build.XXH32_ENDJMP
           turns == len \div 16
           rounds == [s \in 1..turns |-> Round(16 * (s - 1))]
<1>1. turns \in Nat /\ (len < 16 => turns = 0) /\ len - 16 * turns = len % 16
      /\ len % 16 \in Nat /\ (len % 16) % 16 = len % 16
  OBVIOUS
<1>2. XXH32_endian_align(len, 0, jump) = Digest32(len)
  <2>1. (IF len >= 16 THEN Turns({n \in 1..len : 16 * n < len - 15}, len) ELSE 0) = turns
    BY <1>1, BothLoopsTurn
  <2>2. XXH32_finalize(16 * turns, len % 16, jump) = Rest32(16 * turns, len % 16)
    BY <1>1, FinalizeIs
  <2> QED
    BY <2>1, <2>2 DEF XXH32_endian_align, Digest32, Steps32
<1>3. XXH32_digest(XXH32_update(XXH32_reset(0), len), jump) = Digest32(len)
  <2> DEFINE state == XXH32_update(XXH32_reset(0), len)
  <2>1. CASE len >= 16
    <3>1. (IF 0 <= len - 16 THEN Turns({n \in 1..len : 16 * n <= len - 16}, len) ELSE 0) = turns
      BY <2>1, BothLoopsTurn
    <3>2. /\ CountedAs(len, state) /\ state.v = rounds
          /\ state.mem = 16 * turns /\ state.memsize = len % 16
      <4> DEFINE c == CountingOf(len)
      <4>1. /\ CountedAs(len, c)
            /\ DOMAIN c = {"v", "seed", "total_len_32", "large_len", "mem", "memsize"}
        BY Counted
      <4>2. ~(XXH32_reset(0).memsize + len < 16) /\ len - 16 * turns = len % 16
        BY <1>1, <2>1 DEF XXH32_reset
      <4> HIDE DEF turns
      <4>3. state = [c EXCEPT !.v = rounds, !.mem = 16 * turns, !.memsize = len - 16 * turns]
        BY <3>1, <4>2 DEF XXH32_update, CountingOf
      <4> HIDE DEF rounds, state, c
      <4> QED
        BY <4>1, <4>2, <4>3 DEF CountedAs
    <3>3. XXH32_finalize(16 * turns, len % 16, jump) = Rest32(16 * turns, len % 16)
      BY <1>1, FinalizeIs
    <3>4. Steps32(len) = rounds \o Rest32(16 * turns, len % 16)
      BY DEF Steps32
    <3> HIDE DEF state, turns, rounds
    <3>5. XXH32_digest(state, jump)
            = Digest("lanes", len, 0, rounds \o Rest32(16 * turns, len % 16))
      BY <2>1, <3>2, <3>3 DEF XXH32_digest, CountedAs
    <3> QED
      BY <2>1, <3>4, <3>5 DEF Digest32, state
  <2>2. CASE len < 16
    <3>1. CountedAs(len, state) /\ state.v = <<>> /\ state.mem = 0 /\ state.memsize = len
      <4> DEFINE c == CountingOf(len)
      <4>1. /\ CountedAs(len, c) /\ c.v = <<>>
            /\ DOMAIN c = {"v", "seed", "total_len_32", "large_len", "mem", "memsize"}
        BY Counted
      <4>2. XXH32_reset(0).memsize + len < 16
        BY <2>2 DEF XXH32_reset
      <4>3. state = [c EXCEPT !.mem = 0, !.memsize = len]
        BY <4>2 DEF XXH32_update, CountingOf
      <4> HIDE DEF state, c
      <4> QED
        BY <4>1, <4>3 DEF CountedAs
    <3>2. XXH32_finalize(0, len, jump) = Rest32(0, len % 16)
      BY FinalizeIs
    <3>3. turns = 0 /\ 16 * turns = 0
      BY <1>1, <2>2
    <3>4. rounds = <<>>
      BY <3>3
    <3> HIDE DEF state, turns, rounds
    <3>5. XXH32_digest(state, jump) = Digest("seed", len, 0, <<>> \o Rest32(0, len % 16))
      BY <2>2, <3>1, <3>2 DEF XXH32_digest, CountedAs
    <3>6. Steps32(len) = rounds \o Rest32(16 * turns, len % 16)
      BY DEF Steps32, rounds, turns
    <3> QED
      BY <2>2, <3>3, <3>4, <3>5, <3>6 DEF Digest32, state
  <2> QED
    BY <2>1, <2>2
<1> QED
  BY <1>2, <1>3 DEF XXH32

LEMMA Steps32Cover ==
    ASSUME NEW len \in Nat
    PROVE  Covers(Steps32(len), len)
<1> DEFINE turns == len \div 16
           rest == len % 16
           words == rest \div 4
           bytes == rest % 4
           rounds == [s \in 1..turns |-> Round(16 * (s - 1))]
           tail == Rest32(16 * turns, rest)
           steps == Steps32(len)
<1>1. /\ turns \in Nat /\ rest \in 0..15 /\ 16 * turns + rest = len
  OBVIOUS
<1> HIDE DEF turns, rest
<1>2. words \in 0..3 /\ bytes \in 0..3 /\ 4 * words + bytes = rest
  BY <1>1
<1> HIDE DEF words, bytes
<1>3. \A s \in 1..(words + bytes) :
         tail[s] = {IF s <= words THEN Mix(0, 16 * turns + 4 * (s - 1), 4, 0, 0)
                    ELSE Mix(0, 16 * turns + 3 * words + s - 1, 1, 0, 0)}
  BY DEF Rest32, words, bytes
<1>4. /\ DOMAIN steps = 1..(turns + (words + bytes))
      /\ \A s \in 1..turns : steps[s] = Round(16 * (s - 1))
      /\ \A s \in 1..(words + bytes) : steps[turns + s] = tail[s]
  <2> DEFINE S == {Round(16 * (s - 1)) : s \in 1..turns} \cup {tail[s] : s \in 1..(words + bytes)}
  <2>1. rounds \in [1..turns -> S] /\ words + bytes \in Nat
    BY <1>2
  <2>2. tail \in [1..(words + bytes) -> S]
    <3>1. tail = [s \in 1..(words + bytes) |-> tail[s]]
      BY DEF Rest32, words, bytes
    <3> HIDE DEF tail
    <3> QED
      BY <3>1
  <2>3. \A s \in 1..turns : rounds[s] = Round(16 * (s - 1))
    OBVIOUS
  <2>4. steps = rounds \o tail
    BY DEF Steps32, turns, rest
  <2> HIDE DEF rounds, tail, steps, S
  <2>5. /\ rounds \in Seq(S) /\ Len(rounds) = turns /\ tail \in Seq(S) /\ Len(tail) = words + bytes
    BY <1>1, <2>1, <2>2, ReversedTwice
  <2>6. /\ rounds \o tail \in Seq(S) /\ Len(rounds \o tail) = turns + (words + bytes)
        /\ \A s \in 1..turns : (rounds \o tail)[s] = rounds[s]
        /\ \A s \in 1..(words + bytes) : (rounds \o tail)[turns + s] = tail[s]
    BY <1>1, <2>1, <2>5
  <2>7. DOMAIN steps = 1..(turns + (words + bytes))
    BY <2>4, <2>6, LenProperties
  <2> QED
    BY <2>3, <2>4, <2>6, <2>7
<1> HIDE DEF steps, tail
<1>5. ASSUME NEW s \in DOMAIN steps, NEW m \in steps[s] PROVE MixFits(m, len)
  <2>1. CASE s \in 1..turns
    <3>1. PICK lane \in 0..3 : m = Mix(lane, 16 * (s - 1) + 4 * lane, 4, 0, 0)
      BY <1>4, <2>1 DEF Round, XXH32_round
    <3> QED
      BY <1>1, <2>1, <3>1 DEF Mix, MixFits
  <2>2. CASE ~(s \in 1..turns)
    <3> DEFINE k == s - turns
    <3>1. k \in 1..(words + bytes) /\ turns + k = s
      <4>1. s \in 1..(turns + (words + bytes))
        BY <1>4
      <4> QED
        BY <1>1, <1>2, <2>2, <4>1
    <3> HIDE DEF k
    <3>2. m = IF k <= words THEN Mix(0, 16 * turns + 4 * (k - 1), 4, 0, 0)
              ELSE Mix(0, 16 * turns + 3 * words + k - 1, 1, 0, 0)
      BY <1>3, <1>4, <3>1
    <3> QED
      BY <1>1, <1>2, <3>1, <3>2 DEF Mix, MixFits
  <2> QED
    BY <2>1, <2>2
<1>6. ASSUME NEW b \in 0..(len - 1)
      PROVE  \E s \in DOMAIN steps : \E m \in steps[s] : MixReads(m, b)
  <2>1. CASE b < 16 * turns
    <3> DEFINE t == b \div 16
               lane == (b - 16 * t) \div 4
    <3>1. t \in Nat /\ 16 * t <= b /\ b < 16 * t + 16
      OBVIOUS
    <3> HIDE DEF t
    <3>2. lane \in 0..3 /\ 16 * t + 4 * lane <= b /\ b < 16 * t + 4 * lane + 4
      BY <3>1
    <3> HIDE DEF lane
    <3>3. t + 1 \in 1..turns /\ t + 1 \in DOMAIN steps /\ (t + 1) - 1 = t
      BY <1>1, <1>2, <1>4, <2>1, <3>1
    <3>4. Mix(lane, 16 * t + 4 * lane, 4, 0, 0) \in steps[t + 1]
      BY <1>4, <3>2, <3>3 DEF Round, XXH32_round
    <3>5. MixReads(Mix(lane, 16 * t + 4 * lane, 4, 0, 0), b)
      BY <3>2 DEF Mix, MixReads
    <3> QED
      BY <3>3, <3>4, <3>5
  <2>2. CASE ~(b < 16 * turns) /\ b < 16 * turns + 4 * words
    <3> DEFINE w == (b - 16 * turns) \div 4
    <3>1. w \in 0..(words - 1) /\ 16 * turns + 4 * w <= b /\ b < 16 * turns + 4 * w + 4
      <4> DEFINE r == b - 16 * turns
      <4>1. r \in Nat /\ r < 4 * words
        BY <1>1, <1>2, <2>2
      <4>2. w = r \div 4
        OBVIOUS
      <4> HIDE DEF r, w
      <4>3. r \div 4 \in Nat /\ 4 * (r \div 4) <= r /\ r < 4 * (r \div 4) + 4
        BY <4>1
      <4> QED
        BY <1>1, <1>2, <4>1, <4>2, <4>3 DEF r
    <3> HIDE DEF w
    <3>2. w + 1 \in 1..(words + bytes) /\ w + 1 <= words /\ (w + 1) - 1 = w
      BY <1>2, <3>1
    <3>3. tail[w + 1] = {Mix(0, 16 * turns + 4 * w, 4, 0, 0)}
      BY <1>3, <3>2
    <3>4. turns + (w + 1) \in DOMAIN steps /\ steps[turns + (w + 1)] = tail[w + 1]
      BY <1>1, <1>2, <1>4, <3>2
    <3>5. MixReads(Mix(0, 16 * turns + 4 * w, 4, 0, 0), b)
      BY <3>1 DEF Mix, MixReads
    <3> QED
      BY <3>3, <3>4, <3>5
  <2>3. CASE ~(b < 16 * turns + 4 * words)
    <3> DEFINE k == b - 16 * turns - 3 * words + 1
    <3>1. k \in 1..(words + bytes) /\ ~(k <= words) /\ 16 * turns + 3 * words + k - 1 = b
      BY <1>1, <1>2, <2>3
    <3> HIDE DEF k
    <3>2. tail[k] = {Mix(0, 16 * turns + 3 * words + k - 1, 1, 0, 0)}
      BY <1>3, <3>1
    <3>3. turns + k \in DOMAIN steps /\ steps[turns + k] = tail[k]
      BY <1>1, <1>2, <1>4, <3>1
    <3>4. MixReads(Mix(0, 16 * turns + 3 * words + k - 1, 1, 0, 0), b)
      BY <3>1 DEF Mix, MixReads
    <3> QED
      BY <3>2, <3>3, <3>4
  <2> QED
    BY <2>1, <2>2, <2>3
<1>7. Covers(steps, len)
  BY <1>5, <1>6, CoversWhen
<1> QED
  BY <1>7 DEF steps

(* vsc_hash.                                                               *)

BuildType == [LONG_BIT : {32, 64}, SIZE_OPT : 0..2, XXH32_ENDJMP : BOOLEAN]

\* Builds for one word size make the same hash.
LEMMA BuildsMakeOneHash ==
    ASSUME NEW null \in BOOLEAN, NEW size \in Nat, NEW first \in BuildType, NEW second \in BuildType,
           first.LONG_BIT = second.LONG_BIT
    PROVE  vsc_hash(null, size, first) = vsc_hash(null, size, second)
<1>1. /\ first.LONG_BIT \in {32, 64} /\ first.SIZE_OPT \in 0..2 /\ second.SIZE_OPT \in 0..2
      /\ first.XXH32_ENDJMP \in BOOLEAN /\ second.XXH32_ENDJMP \in BOOLEAN
  BY DEF BuildType
<1>2. XXH32(size, 0, first) = XXH32(size, 0, second)
  BY <1>1, XXH32Is
<1>3. XXH3_64bits_internal(size, 0, first.SIZE_OPT) = XXH3_64bits_internal(size, 0, second.SIZE_OPT)
  <2>1. CASE size <= 16 \/ (size > 128 /\ size <= 240)
    BY <2>1 DEF XXH3_64bits_internal, XXH3_MIDSIZE_MAX
  <2>2. CASE size > 16 /\ size <= 128
    <3>1. XXH3_len_17to128_64b(size, first.SIZE_OPT) = XXH3_len_17to128_64b(size, second.SIZE_OPT)
      <4>1. size \in 17..128
        BY <2>2
      <4> QED
        BY <1>1, <4>1, MiddleIsTurns
    <3> QED
      BY <2>2, <3>1 DEF XXH3_64bits_internal
  <2>3. CASE size > 240
    <3>1. SecretOf(0, first.SIZE_OPT) = SecretOf(0, second.SIZE_OPT)
      BY <1>1, SecretOfZero
    <3> QED
      BY <2>3, <3>1 DEF XXH3_64bits_internal, XXH3_MIDSIZE_MAX, XXH3_hashLong_64b_withSeed
  <2> QED
    BY <2>1, <2>2, <2>3
<1> QED
  BY <1>2, <1>3 DEF vsc_hash, XXH3_64bits_withSeed

LEMMA HashCovers ==
    ASSUME NEW null \in BOOLEAN, NEW size \in Nat, NEW build \in BuildType, ~(null /\ size # 0)
    PROVE  Covers(vsc_hash(null, size, build).steps, size)
<1>1. build.LONG_BIT \in {32, 64} /\ build.SIZE_OPT \in 0..2 /\ build.XXH32_ENDJMP \in BOOLEAN
  BY DEF BuildType
<1>2. Covers(XXH32(size, 0, build).steps, size)
  <2>1. XXH32(size, 0, build).steps = Steps32(size)
    BY <1>1, XXH32Is DEF Digest32, Digest
  <2> QED
    BY <2>1, Steps32Cover
<1>3. Covers(XXH3_64bits_internal(size, 0, build.SIZE_OPT).steps, size)
  <2>1. CASE size <= 16
    <3>1. XXH3_64bits_internal(size, 0, build.SIZE_OPT).steps = XXH3_len_0to16_64b(size)
      BY <2>1 DEF XXH3_64bits_internal, Digest
    <3> QED
      BY <2>1, <3>1, Len0to16Covers
  <2>2. CASE size > 16 /\ size <= 128
    <3>1. XXH3_64bits_internal(size, 0, build.SIZE_OPT).steps
            = XXH3_len_17to128_64b(size, build.SIZE_OPT)
      BY <2>2 DEF XXH3_64bits_internal, Digest
    <3>2. size \in 17..128
      BY <2>2
    <3>3. XXH3_len_17to128_64b(size, build.SIZE_OPT) = <<MiddleTurns(size)>>
      BY <1>1, <3>2, MiddleIsTurns
    <3> QED
      BY <3>1, <3>2, <3>3, MiddleTurnsCover
  <2>3. CASE size > 128 /\ size <= 240
    <3>1. XXH3_64bits_internal(size, 0, build.SIZE_OPT).steps = XXH3_len_129to240_64b(size)
      BY <2>3 DEF XXH3_64bits_internal, Digest, XXH3_MIDSIZE_MAX
    <3> QED
      BY <2>3, <3>1, Len129to240Covers
  <2>4. CASE size > 240
    <3>1. XXH3_64bits_internal(size, 0, build.SIZE_OPT).steps = XXH3_hashLong_64b_internal(size, 192)
      BY <2>4 DEF XXH3_64bits_internal, Digest, XXH3_MIDSIZE_MAX, XXH3_hashLong_64b_withSeed,
                  XXH_SECRET_DEFAULT_SIZE
    <3> QED
      BY <2>4, <3>1, LongCovers
  <2> QED
    BY <2>1, <2>2, <2>3, <2>4
<1> QED
  BY <1>2, <1>3 DEF vsc_hash, XXH3_64bits_withSeed

(* The calls of VscCalls that hash.                                        *)

LEMMA HashReadsNow == ASSUME Hash PROVE HashReadsItsInput'
<1>1. PICK size \in HashSizes, null \in BOOLEAN, build \in Builds :
          /\ call' = [name |-> "hash", null |-> null, size |-> size, build |-> build]
          /\ out' = vsc_hash(null, size, build)
  BY Zenon DEF Hash, Returns
<1>2. call'.null = null /\ call'.size = size
  BY <1>1
<1>3. size \in Nat /\ build \in BuildType
  BY CallsAssumption DEF BuildType
<1>4. CASE null /\ size # 0
  <2>1. out' = VSC_INVALID_HASH
    BY <1>1, <1>4 DEF vsc_hash
  <2> QED
    BY <1>2, <1>4, <2>1 DEF HashReadsItsInput
<1>5. CASE ~(null /\ size # 0)
  <2>1. Covers(out'.steps, size)
    BY <1>1, <1>3, <1>5, HashCovers
  <2> QED
    BY <1>2, <1>5, <2>1 DEF HashReadsItsInput, Covers
<1> QED
  BY <1>4, <1>5

LEMMA HashesAlikeNow == ASSUME Hash PROVE BuildsHashAlike'
<1>1. PICK size \in HashSizes, null \in BOOLEAN, build \in Builds :
          /\ call' = [name |-> "hash", null |-> null, size |-> size, build |-> build]
          /\ out' = vsc_hash(null, size, build)
  BY Zenon DEF Hash, Returns
<1>2. /\ call'.name = "hash" /\ call'.null = null /\ call'.size = size
      /\ call'.build.LONG_BIT = build.LONG_BIT
  BY <1>1
<1>3. size \in Nat /\ \A b \in Builds : b \in BuildType
  BY CallsAssumption DEF BuildType
<1>4. \A b \in Builds : b.LONG_BIT = build.LONG_BIT => vsc_hash(null, size, b) = out'
  BY <1>1, <1>3, BuildsMakeOneHash
<1> QED
  BY <1>2, <1>4 DEF BuildsHashAlike, Is

LEMMA StripesAlikeNow == ASSUME HashStripe PROVE BuildsHashAlike'
<1>1. PICK s \in Stripes, unit \in VectorUnits :
          /\ call' = [name |-> "stripe", stripe |-> s]
          /\ out' = [acc |-> XXH3_accumulate_512(s.acc, s.input, s.secret, unit),
                     scrambled |-> XXH3_scrambleAcc(s.acc, s.secret, unit)]
  BY Zenon DEF HashStripe, Returns
<1>2. call'.name = "stripe" /\ call'.stripe = s
  BY <1>1
<1>3. s.acc \in Lanes8 /\ s.input \in Lanes8 /\ s.secret \in Lanes8
  BY CallsAssumption DEF Lanes8
<1>4. /\ out'.acc = XXH3_accumulate_512(s.acc, s.input, s.secret, unit)
      /\ out'.scrambled = XXH3_scrambleAcc(s.acc, s.secret, unit)
  BY <1>1
<1>5. ASSUME NEW u \in VectorUnits
      PROVE  /\ XXH3_accumulate_512(s.acc, s.input, s.secret, u) = out'.acc
             /\ XXH3_scrambleAcc(s.acc, s.secret, u) = out'.scrambled
  <2>1. /\ XXH3_accumulate_512(s.acc, s.input, s.secret, u) = Added(s.acc, s.input, s.secret)
        /\ XXH3_scrambleAcc(s.acc, s.secret, u) = Scrambled(s.acc, s.secret)
    BY <1>3, UnitsAdd, UnitsScramble
  <2>2. /\ XXH3_accumulate_512(s.acc, s.input, s.secret, unit) = Added(s.acc, s.input, s.secret)
        /\ XXH3_scrambleAcc(s.acc, s.secret, unit) = Scrambled(s.acc, s.secret)
    BY <1>3, UnitsAdd, UnitsScramble
  <2> QED
    BY <1>4, <2>1, <2>2
<1> QED
  BY <1>2, <1>5 DEF BuildsHashAlike, Is

LEMMA ProductsExactNow == ASSUME HashMultiply PROVE BuildsHashAlike'
<1>1. PICK x, y \in Factors, unit \in WordUnits :
          /\ call' = [name |-> "multiply", lhs |-> x, rhs |-> y]
          /\ out' = XXH_mult64to128(x, y, unit)
  BY Zenon DEF HashMultiply, Returns
<1>2. call'.name = "multiply" /\ call'.lhs = x /\ call'.rhs = y
  BY <1>1
<1>3. x \in Word /\ y \in Word
  BY CallsAssumption
<1>4. Exactly(out', x, y)
  BY <1>1, <1>3, MultiplicationExact
<1> QED
  BY <1>2, <1>4 DEF BuildsHashAlike, Is

\* A word that is the first half of a vector is loaded as it is, and so is the vector.
LoadedAlike(b, unit) ==
    /\ XXH_readLE(SubSeq(b, 1, 8), unit) = SubSeq(b, 1, 8)
    /\ XXH_vec_loadu(b, unit) = <<SubSeq(b, 1, 8), SubSeq(b, 9, 16)>>

LEMMA BothLoad ==
    ASSUME NEW S, NEW b \in [1..16 -> S], NEW unit, unit.little \in BOOLEAN
    PROVE  LoadedAlike(b, unit)
<1>1. b \in Seq(S) /\ Len(b) = 16
  BY ReversedTwice
<1>2. SubSeq(b, 1, 8) \in Seq(S) /\ Len(SubSeq(b, 1, 8)) = 8
  BY <1>1
<1>3. SubSeq(b, 1, 8) \in [1..8 -> S]
  BY <1>2, LenProperties
<1>4. XXH_readLE(SubSeq(b, 1, 8), unit) = SubSeq(b, 1, 8)
  <2> DEFINE front == SubSeq(b, 1, 8)
  <2>1. front \in [1..8 -> S]
    BY <1>3
  <2> HIDE DEF front
  <2>2. XXH_readLE(front, unit) = front
    BY <2>1, LoadsLittleEndian
  <2> QED
    BY <2>2, Zenon DEF front
<1>5. XXH_vec_loadu(b, unit) = <<SubSeq(b, 1, 8), SubSeq(b, 9, 16)>>
  BY LoadsVector
<1> QED
  BY <1>4, <1>5, Zenon DEF LoadedAlike

LEMMA LoadsAlikeNow == ASSUME HashLoad PROVE BuildsHashAlike'
<1>1. PICK bytes \in Loads, unit \in WordUnits :
          /\ call' = [name |-> "load", bytes |-> bytes]
          /\ out' = [word |-> XXH_readLE(SubSeq(bytes, 1, 8), unit),
                     lanes |-> XXH_vec_loadu(bytes, unit)]
  BY Zenon DEF HashLoad, Returns
<1>2. call'.name = "load" /\ call'.bytes = bytes
  BY <1>1
<1>3. bytes \in [1..16 -> Byte] /\ unit.little \in BOOLEAN
  BY CallsAssumption, HashAssumption
<1>4. LoadedAlike(bytes, unit)
  BY <1>3, BothLoad
<1>5. /\ out'.word = SubSeq(bytes, 1, 8)
      /\ out'.lanes = <<SubSeq(bytes, 1, 8), SubSeq(bytes, 9, 16)>>
  <2>1. /\ out'.word = XXH_readLE(SubSeq(bytes, 1, 8), unit)
        /\ out'.lanes = XXH_vec_loadu(bytes, unit)
    BY <1>1
  <2> QED
    BY <1>4, <2>1, Zenon DEF LoadedAlike
<1> QED
  BY <1>2, <1>5 DEF BuildsHashAlike, Is
-----------------------------------------------------------------------------
(* Checksums.  A register is a set of bits; a turn of the division shifts it by one and  *)
(* subtracts the polynomial if a bit falls out.                                           *)

Registers == SUBSET (0..31)
Turn(P, r) == Xor(ShiftRight(r, 1), IF 0 \in r THEN P ELSE {})
Turn2(P, r) == Turn(P, Turn(P, r))
Turn4(P, r) == Turn2(P, Turn2(P, r))
Turn8(P, r) == Turn4(P, Turn4(P, r))

LEMMA XorMember == \A a, b, x : x \in Xor(a, b) <=> ~(x \in a <=> x \in b)
BY DEF Xor

LEMMA XorAlgebra ==
    /\ \A a, b, c : Xor(Xor(a, b), c) = Xor(a, Xor(b, c))
    /\ \A a, b : Xor(a, b) = Xor(b, a)
    /\ \A a : Xor(a, a) = {} /\ Xor(a, {}) = a
    /\ \A a, b : a \in Registers /\ b \in Registers => Xor(a, b) \in Registers
<1>1. \A a, b, c : Xor(Xor(a, b), c) = Xor(a, Xor(b, c))
  BY DEF Xor
<1>2. \A a, b : Xor(a, b) = Xor(b, a)
  BY DEF Xor
<1>3. \A a : Xor(a, a) = {} /\ Xor(a, {}) = a
  BY DEF Xor
<1>4. \A a, b : a \in Registers /\ b \in Registers => Xor(a, b) \in Registers
  BY DEF Xor, Registers
<1> QED
  BY <1>1, <1>2, <1>3, <1>4

LEMMA XorPairs == \A a, b, c, d : Xor(Xor(a, b), Xor(c, d)) = Xor(Xor(a, c), Xor(b, d))
BY DEF Xor

LEMMA ShiftMember ==
    ASSUME NEW a \in Registers, NEW n \in Nat, NEW j
    PROVE  j \in ShiftRight(a, n) <=> j \in Nat /\ j + n \in a
<1>1. ASSUME j \in ShiftRight(a, n) PROVE j \in Nat /\ j + n \in a
  BY <1>1 DEF ShiftRight, Registers
<1>2. ASSUME j \in Nat, j + n \in a PROVE j \in ShiftRight(a, n)
  <2>1. j + n >= n /\ j = (j + n) - n
    BY <1>2
  <2> QED
    BY <1>2, <2>1 DEF ShiftRight
<1> QED
  BY <1>1, <1>2

LEMMA ShiftFacts ==
    ASSUME NEW a \in Registers, NEW n \in Nat
    PROVE  /\ ShiftRight(a, n) \in Registers
           /\ \A b \in Registers : ShiftRight(Xor(a, b), n) = Xor(ShiftRight(a, n), ShiftRight(b, n))
           /\ \A m \in Nat : ShiftRight(ShiftRight(a, n), m) = ShiftRight(a, n + m)
           /\ ShiftRight(a, 0) = a
           /\ n >= 32 => ShiftRight(a, n) = {}
<1>1. ShiftRight(a, n) \in Registers
  BY DEF ShiftRight, Registers
<1>2. ASSUME NEW b \in Registers
      PROVE  ShiftRight(Xor(a, b), n) = Xor(ShiftRight(a, n), ShiftRight(b, n))
  <2>1. Xor(a, b) \in Registers
    BY XorAlgebra
  <2>2. ASSUME NEW j
        PROVE  j \in ShiftRight(Xor(a, b), n) <=> j \in Xor(ShiftRight(a, n), ShiftRight(b, n))
    <3>1. j \in ShiftRight(Xor(a, b), n) <=> j \in Nat /\ j + n \in Xor(a, b)
      BY <2>1, ShiftMember
    <3>2. /\ j \in ShiftRight(a, n) <=> j \in Nat /\ j + n \in a
          /\ j \in ShiftRight(b, n) <=> j \in Nat /\ j + n \in b
      BY ShiftMember
    <3> QED
      BY <3>1, <3>2, XorMember
  <2> QED
    BY <2>2
<1>3. ASSUME NEW m \in Nat PROVE ShiftRight(ShiftRight(a, n), m) = ShiftRight(a, n + m)
  <2>1. ASSUME NEW j
        PROVE  j \in ShiftRight(ShiftRight(a, n), m) <=> j \in ShiftRight(a, n + m)
    <3>1. j \in ShiftRight(ShiftRight(a, n), m) <=> j \in Nat /\ j + m \in ShiftRight(a, n)
      BY <1>1, ShiftMember
    <3>2. j + m \in ShiftRight(a, n) <=> j + m \in Nat /\ (j + m) + n \in a
      BY ShiftMember
    <3>3. j \in ShiftRight(a, n + m) <=> j \in Nat /\ j + (n + m) \in a
      <4>1. n + m \in Nat
        OBVIOUS
      <4> QED
        BY <4>1, ShiftMember
    <3>4. j \in Nat => j + m \in Nat /\ (j + m) + n = j + (n + m)
      OBVIOUS
    <3> QED
      BY <3>1, <3>2, <3>3, <3>4
  <2> QED
    BY <2>1
<1>4. ShiftRight(a, 0) = a
  <2>1. ASSUME NEW j PROVE j \in ShiftRight(a, 0) <=> j \in a
    <3>1. j \in ShiftRight(a, 0) <=> j \in Nat /\ j + 0 \in a
      BY ShiftMember
    <3>2. j \in a => j \in Nat
      BY DEF Registers
    <3> QED
      BY <3>1, <3>2
  <2> QED
    BY <2>1
<1>5. ASSUME n >= 32 PROVE ShiftRight(a, n) = {}
  <2>1. \A k \in a : ~(k >= n)
    BY <1>5 DEF Registers
  <2> QED
    BY <2>1 DEF ShiftRight
<1> QED
  BY <1>1, <1>2, <1>3, <1>4, <1>5

LEMMA TurnLinear ==
    ASSUME NEW P \in Registers, NEW a \in Registers, NEW b \in Registers
    PROVE  Turn(P, a) \in Registers /\ Turn(P, Xor(a, b)) = Xor(Turn(P, a), Turn(P, b))
<1> DEFINE p(r) == IF 0 \in r THEN P ELSE {}
<1>1. /\ ShiftRight(a, 1) \in Registers /\ ShiftRight(b, 1) \in Registers
      /\ ShiftRight(Xor(a, b), 1) = Xor(ShiftRight(a, 1), ShiftRight(b, 1))
  BY ShiftFacts
<1>2. p(a) \in Registers
  BY DEF Registers
<1>3. p(Xor(a, b)) = Xor(p(a), p(b))
  BY DEF Xor
<1>4. /\ Turn(P, a) = Xor(ShiftRight(a, 1), p(a)) /\ Turn(P, b) = Xor(ShiftRight(b, 1), p(b))
      /\ Turn(P, Xor(a, b)) = Xor(ShiftRight(Xor(a, b), 1), p(Xor(a, b)))
  BY DEF Turn
<1> HIDE DEF p
<1>5. Turn(P, a) \in Registers
  BY <1>1, <1>2, <1>4, XorAlgebra
<1>6. Turn(P, Xor(a, b)) = Xor(Xor(ShiftRight(a, 1), ShiftRight(b, 1)), Xor(p(a), p(b)))
  BY <1>1, <1>3, <1>4
<1>7. Turn(P, Xor(a, b)) = Xor(Xor(ShiftRight(a, 1), p(a)), Xor(ShiftRight(b, 1), p(b)))
  BY <1>6, XorPairs
<1>8. Turn(P, Xor(a, b)) = Xor(Turn(P, a), Turn(P, b))
  BY <1>4, <1>7
<1> QED
  BY <1>5, <1>8

LEMMA Turn8Linear ==
    ASSUME NEW P \in Registers, NEW a \in Registers, NEW b \in Registers
    PROVE  Turn8(P, a) \in Registers /\ Turn8(P, Xor(a, b)) = Xor(Turn8(P, a), Turn8(P, b))
<1>1. ASSUME NEW x \in Registers, NEW y \in Registers
      PROVE  Turn2(P, x) \in Registers /\ Turn2(P, Xor(x, y)) = Xor(Turn2(P, x), Turn2(P, y))
  BY TurnLinear DEF Turn2
<1>2. ASSUME NEW x \in Registers, NEW y \in Registers
      PROVE  Turn4(P, x) \in Registers /\ Turn4(P, Xor(x, y)) = Xor(Turn4(P, x), Turn4(P, y))
  BY <1>1 DEF Turn4
<1> QED
  BY <1>2 DEF Turn8

\* Where no bit falls out, a turn only shifts.
LEMMA Turn8Shifts ==
    ASSUME NEW P \in Registers, NEW r \in Registers, r \cap 0..7 = {}
    PROVE  Turn8(P, r) = ShiftRight(r, 8)
<1>1. ASSUME NEW n \in 0..7 PROVE Turn(P, ShiftRight(r, n)) = ShiftRight(r, n + 1)
  <2>1. ~(0 \in ShiftRight(r, n))
    <3>1. 0 \in ShiftRight(r, n) => 0 + n \in r
      BY ShiftMember
    <3> QED
      BY <3>1
  <2>2. ShiftRight(ShiftRight(r, n), 1) = ShiftRight(r, n + 1)
    <3>1. n \in Nat /\ 1 \in Nat
      OBVIOUS
    <3>2. \A m \in Nat : ShiftRight(ShiftRight(r, n), m) = ShiftRight(r, n + m)
      BY <3>1, ShiftFacts
    <3> QED
      BY <3>1, <3>2
  <2> QED
    BY <2>1, <2>2, XorAlgebra DEF Turn
<1>2. ShiftRight(r, 0) = r
  BY ShiftFacts
<1>3. /\ Turn(P, r) = ShiftRight(r, 1)
      /\ Turn(P, ShiftRight(r, 1)) = ShiftRight(r, 2) /\ Turn(P, ShiftRight(r, 2)) = ShiftRight(r, 3)
      /\ Turn(P, ShiftRight(r, 3)) = ShiftRight(r, 4) /\ Turn(P, ShiftRight(r, 4)) = ShiftRight(r, 5)
      /\ Turn(P, ShiftRight(r, 5)) = ShiftRight(r, 6) /\ Turn(P, ShiftRight(r, 6)) = ShiftRight(r, 7)
      /\ Turn(P, ShiftRight(r, 7)) = ShiftRight(r, 8)
  BY <1>1, <1>2
<1> QED
  BY <1>3 DEF Turn8, Turn4, Turn2

\* So a turn for each bit of a byte is one look-up of what falls out.
LEMMA Turn8IsLookup ==
    ASSUME NEW P \in Registers, NEW r \in Registers
    PROVE  Turn8(P, r) = Xor(Turn8(P, r \cap 0..7), ShiftRight(r, 8))
<1> DEFINE front == r \cap 0..7
           rest == r \ 0..7
<1>1. front \in Registers /\ rest \in Registers /\ rest \cap 0..7 = {} /\ r = Xor(front, rest)
  BY DEF Registers, Xor
<1>2. ShiftRight(rest, 8) = ShiftRight(r, 8)
  BY DEF ShiftRight, Registers
<1> HIDE DEF front, rest
<1>3. Turn8(P, r) = Xor(Turn8(P, front), Turn8(P, rest))
  BY <1>1, Turn8Linear
<1>4. Turn8(P, rest) = ShiftRight(r, 8)
  BY <1>1, <1>2, Turn8Shifts
<1> QED
  BY <1>3, <1>4 DEF front
-----------------------------------------------------------------------------
(* The division, bit by bit.                                               *)

\* The function of UpwardRecursion is the only one.
LEMMA UpwardUnique ==
    ASSUME NEW n \in Nat, NEW S, NEW first, NEW F, NEW f, Upward(f, n, S, first, F),
           NEW g, g[0] = first, \A k \in 1..n : g[k - 1] \in S => g[k] = F[k][g[k - 1]]
    PROVE  \A k \in 0..n : g[k] = f[k]
<1> DEFINE T == {k \in 0..n : g[k] = f[k]}
<1>1. 0 \in T
  BY DEF Upward
<1>2. \A k \in 0..n : k < n /\ k \in T => k + 1 \in T
  <2> SUFFICES ASSUME NEW k \in 0..n, k < n, g[k] = f[k] PROVE k + 1 \in T
    OBVIOUS
  <2>1. k + 1 \in 1..n /\ (k + 1) - 1 = k /\ k + 1 \in 0..n
    OBVIOUS
  <2>2. f[k + 1] = F[k + 1][f[k]] /\ f[k] \in S
    BY <2>1 DEF Upward
  <2>3. g[k + 1] = F[k + 1][g[k]]
    BY <2>1, <2>2
  <2> QED
    BY <2>1, <2>2, <2>3
<1> HIDE DEF T
<1>3. \A k \in 0..n : k \in T
  BY <1>1, <1>2, UpTo
<1> QED
  BY <1>3 DEF T

LEMMA LowBits == ASSUME NEW byte PROVE Bits(byte, 8) \in SUBSET (0..7) /\ Bits(byte, 8) \in Registers
BY DEF Bits, Registers

\* Dividing bit by bit, where y is what is left of the byte and x the register without it.
LEMMA BitDivided ==
    ASSUME NEW poly, Reflect(poly) \in Registers, NEW x \in Registers, NEW y \in Registers
    PROVE  DivideBit(Xor(x, y), 0 \in y, poly) = Xor(Turn(Reflect(poly), x), ShiftRight(y, 1))
<1> DEFINE P == Reflect(poly)
           sx == ShiftRight(x, 1)
           sy == ShiftRight(y, 1)
<1>1. ShiftRight(Xor(x, y), 1) = Xor(sx, sy)
  BY ShiftFacts
<1>2. ((0 \in Xor(x, y)) # (0 \in y)) <=> 0 \in x
  BY DEF Xor
<1>3. DivideBit(Xor(x, y), 0 \in y, poly) = IF 0 \in x THEN Xor(Xor(sx, sy), P) ELSE Xor(sx, sy)
  BY <1>1, <1>2 DEF DivideBit
<1>4. Turn(P, x) = IF 0 \in x THEN Xor(sx, P) ELSE sx
  BY XorAlgebra DEF Turn
<1> HIDE DEF P, sx, sy
<1>5. Xor(Xor(sx, sy), P) = Xor(Xor(sx, P), sy)
  BY DEF Xor
<1> QED
  BY <1>3, <1>4, <1>5 DEF P, sy

AfterAt(reg, byte, poly, g, n) ==
    IF n = 0 THEN reg ELSE DivideBit(g[n - 1], n - 1 \in Bits(byte, 8), poly)
AfterFn(reg, byte, poly) == CHOOSE g : g = [n \in 0..8 |-> AfterAt(reg, byte, poly, g, n)]

LEMMA DivideByteIsAfter ==
    ASSUME NEW reg, NEW byte, NEW poly
    PROVE  DivideByte(reg, byte, poly) = AfterFn(reg, byte, poly)[8]
BY DEF DivideByte, AfterFn, AfterAt

LEMMA AfterSteps ==
    ASSUME NEW poly, Reflect(poly) \in Registers, NEW reg \in Registers, NEW byte
    PROVE  LET g == AfterFn(reg, byte, poly)
           IN  /\ g[0] = reg
               /\ \A n \in 1..8 : g[n] = DivideBit(g[n - 1], n - 1 \in Bits(byte, 8), poly)
<1> DEFINE F == [n \in 1..8 |-> [r \in Registers |-> DivideBit(r, n - 1 \in Bits(byte, 8), poly)]]
<1>1. \A r \in Registers, n \in 1..8 : DivideBit(r, n - 1 \in Bits(byte, 8), poly) \in Registers
  <2> SUFFICES ASSUME NEW r \in Registers, NEW n \in 1..8
               PROVE  DivideBit(r, n - 1 \in Bits(byte, 8), poly) \in Registers
    OBVIOUS
  <2>1. ShiftRight(r, 1) \in Registers
    BY ShiftFacts
  <2>2. Xor(ShiftRight(r, 1), Reflect(poly)) \in Registers
    BY <2>1, XorAlgebra
  <2> QED
    BY <2>1, <2>2 DEF DivideBit
<1>2. F \in [1..8 -> [Registers -> Registers]]
  BY <1>1
<1>3. \A n \in 1..8, r \in Registers : F[n][r] = DivideBit(r, n - 1 \in Bits(byte, 8), poly)
  OBVIOUS
<1> HIDE DEF F
<1>4. PICK f : Upward(f, 8, Registers, reg, F)
  <2>1. 8 \in Nat
    OBVIOUS
  <2> QED
    BY <1>2, <2>1, UpwardRecursion
<1>5. f = [n \in 0..8 |-> AfterAt(reg, byte, poly, f, n)]
  <2>1. ASSUME NEW n \in 0..8 PROVE f[n] = AfterAt(reg, byte, poly, f, n)
    <3>1. CASE n = 0
      BY <1>4, <3>1 DEF Upward, AfterAt
    <3>2. CASE n \in 1..8
      <4>1. f[n - 1] \in Registers /\ f[n] = F[n][f[n - 1]]
        BY <1>4, <3>2 DEF Upward
      <4> QED
        BY <1>3, <3>2, <4>1 DEF AfterAt
    <3> QED
      BY <3>1, <3>2
  <2>2. f \in [0..8 -> Registers]
    BY <1>4 DEF Upward
  <2> QED
    BY <2>1, <2>2
<1> DEFINE g == AfterFn(reg, byte, poly)
<1>6. g = [n \in 0..8 |-> AfterAt(reg, byte, poly, g, n)]
  BY <1>5 DEF AfterFn
<1> HIDE DEF g
<1>7. \A n \in 0..8 : g[n] = AfterAt(reg, byte, poly, g, n)
  BY <1>6
<1> QED
  BY <1>7 DEF AfterAt, g

LEMMA ByteDivided ==
    ASSUME NEW poly, Reflect(poly) \in Registers, NEW reg \in Registers, NEW byte
    PROVE  DivideByte(reg, byte, poly) = Turn8(Reflect(poly), Xor(reg, Bits(byte, 8)))
<1> DEFINE g == AfterFn(reg, byte, poly)
           P == Reflect(poly)
           B == Bits(byte, 8)
           x == Xor(reg, B)
<1>1. g[0] = reg /\ \A n \in 1..8 : g[n] = DivideBit(g[n - 1], n - 1 \in B, poly)
  BY AfterSteps
<1>2. B \in Registers /\ x \in Registers
  BY LowBits, XorAlgebra
<1>3. g[0] = Xor(x, ShiftRight(B, 0))
  <2>1. ShiftRight(B, 0) = B
    BY <1>2, ShiftFacts
  <2>2. Xor(Xor(reg, B), B) = reg
    BY DEF Xor
  <2> QED
    BY <1>1, <2>1, <2>2
<1> HIDE DEF g, P, B, x
<1>4. ASSUME NEW n \in 0..7, NEW r \in Registers, g[n] = Xor(r, ShiftRight(B, n))
      PROVE  /\ g[n + 1] = Xor(Turn(P, r), ShiftRight(B, n + 1)) /\ Turn(P, r) \in Registers
  <2> DEFINE y == ShiftRight(B, n)
  <2>1. y \in Registers /\ ShiftRight(y, 1) = ShiftRight(B, n + 1)
    BY <1>2, ShiftFacts
  <2>2. 0 \in y <=> n \in B
    <3>1. 0 \in y <=> 0 \in Nat /\ 0 + n \in B
      BY <1>2, ShiftMember
    <3> QED
      BY <3>1
  <2>3. n + 1 \in 1..8 /\ (n + 1) - 1 = n
    OBVIOUS
  <2>4. g[n + 1] = DivideBit(g[n], n \in B, poly)
    BY <1>1, <2>3
  <2> HIDE DEF y
  <2>5. DivideBit(Xor(r, y), 0 \in y, poly) = Xor(Turn(P, r), ShiftRight(y, 1))
    BY <2>1, BitDivided DEF P
  <2>6. (0 \in y) = (n \in B)
    BY <2>2
  <2>7. Turn(P, r) \in Registers
    BY TurnLinear DEF P
  <2> QED
    BY <1>4, <2>1, <2>4, <2>5, <2>6, <2>7 DEF y
<1> DEFINE t1 == Turn(P, x)
           t2 == Turn(P, t1)
           t3 == Turn(P, t2)
           t4 == Turn(P, t3)
           t5 == Turn(P, t4)
           t6 == Turn(P, t5)
           t7 == Turn(P, t6)
           t8 == Turn(P, t7)
<1>5. t8 = Turn8(P, x)
  BY DEF Turn8, Turn4, Turn2
<1> HIDE DEF t1, t2, t3, t4, t5, t6, t7, t8
<1>6. g[1] = Xor(t1, ShiftRight(B, 1)) /\ t1 \in Registers
  BY <1>2, <1>3, <1>4 DEF t1
<1>7. g[2] = Xor(t2, ShiftRight(B, 2)) /\ t2 \in Registers
  BY <1>6, <1>4 DEF t2
<1>8. g[3] = Xor(t3, ShiftRight(B, 3)) /\ t3 \in Registers
  BY <1>7, <1>4 DEF t3
<1>9. g[4] = Xor(t4, ShiftRight(B, 4)) /\ t4 \in Registers
  BY <1>8, <1>4 DEF t4
<1>10. g[5] = Xor(t5, ShiftRight(B, 5)) /\ t5 \in Registers
  BY <1>9, <1>4 DEF t5
<1>11. g[6] = Xor(t6, ShiftRight(B, 6)) /\ t6 \in Registers
  BY <1>10, <1>4 DEF t6
<1>12. g[7] = Xor(t7, ShiftRight(B, 7)) /\ t7 \in Registers
  BY <1>11, <1>4 DEF t7
<1>13. g[8] = Xor(t8, ShiftRight(B, 8)) /\ t8 \in Registers
  BY <1>12, <1>4 DEF t8
<1>14. ShiftRight(B, 8) = {}
  <2>1. \A k \in B : ~(k >= 8)
    BY LowBits DEF B
  <2> QED
    BY <2>1 DEF ShiftRight
<1>15. g[8] = t8
  BY <1>13, <1>14, XorAlgebra
<1> QED
  BY <1>5, <1>15, DivideByteIsAfter DEF g, P, B, x

-----------------------------------------------------------------------------
(* The tables, and the register after each byte.                           *)

TableAt(rows, index, g, n) ==
    IF n = 0 THEN {} ELSE IF n - 1 \in index THEN Xor(rows[n], g[n - 1]) ELSE g[n - 1]
TableFn(rows, index) == CHOOSE g : g = [n \in 0..8 |-> TableAt(rows, index, g, n)]

LEMMA TableIsFn ==
    ASSUME NEW rows, NEW index \in SUBSET (0..7)
    PROVE  Table(rows)[index] = TableFn(rows, index)[8]
BY DEF Table, TableFn, TableAt

\* Eight turns of a byte, bit by bit.
Below(index, n) == {k \in index : k < n}

LEMMA BelowTurns ==
    ASSUME NEW P \in Registers, NEW rows, \A k \in 0..7 : rows[k + 1] = Turn8(P, {k}),
           NEW index \in SUBSET (0..7)
    PROVE  /\ Turn8(P, Below(index, 0)) = {} /\ Below(index, 8) = index
           /\ \A n \in 0..8 : Turn8(P, Below(index, n)) \in Registers
           /\ \A n \in 1..8 : Turn8(P, Below(index, n))
                              = IF n - 1 \in index THEN Xor(rows[n], Turn8(P, Below(index, n - 1)))
                                ELSE Turn8(P, Below(index, n - 1))
<1> DEFINE part(n) == {k \in index : k < n}
<1>0. \A k \in index : k \in 0..7 /\ k \in Int
  OBVIOUS
<1>1. ASSUME NEW n \in 0..8 PROVE part(n) \in Registers /\ Turn8(P, part(n)) \in Registers
  <2>1. \A k \in part(n) : k \in 0..31
    BY <1>0
  <2>2. part(n) \in Registers
    BY <2>1 DEF Registers
  <2> HIDE DEF part
  <2> QED
    BY <2>2, Turn8Linear
<1>2. Turn8(P, part(0)) = {}
  <2>1. part(0) = {}
    <3>1. \A k \in index : ~(k < 0)
      BY <1>0
    <3> QED
      BY <3>1
  <2>2. ShiftRight({}, 8) = {} /\ {} \in Registers /\ {} \cap 0..7 = {}
    BY DEF ShiftRight, Registers
  <2> HIDE DEF part
  <2> QED
    BY <2>1, <2>2, Turn8Shifts
<1>3. ASSUME NEW n \in 1..8
      PROVE  Turn8(P, part(n)) = IF n - 1 \in index THEN Xor(rows[n], Turn8(P, part(n - 1)))
                                 ELSE Turn8(P, part(n - 1))
  <2>1. CASE n - 1 \in index
    <3>1. part(n) = Xor({n - 1}, part(n - 1))
      <4>1. ASSUME NEW k PROVE k \in part(n) <=> k \in Xor({n - 1}, part(n - 1))
        <5>1. CASE k \in index
          <6>1. k \in Int /\ n \in Int
            BY <1>0, <5>1
          <6>2. k < n <=> ~(k = n - 1 <=> k < n - 1)
            BY <6>1
          <6> QED
            BY <5>1, <6>2, XorMember
        <5>2. CASE k \notin index
          BY <2>1, <5>2, XorMember
        <5> QED
          BY <5>1, <5>2
      <4> QED
        BY <4>1
    <3>2. {n - 1} \in Registers /\ n - 1 \in 0..7 /\ n - 1 \in 0..8
      BY DEF Registers
    <3>3. part(n - 1) \in Registers
      BY <3>2, <1>1
    <3> HIDE DEF part
    <3>4. Turn8(P, Xor({n - 1}, part(n - 1))) = Xor(Turn8(P, {n - 1}), Turn8(P, part(n - 1)))
      BY <3>2, <3>3, Turn8Linear
    <3>5. rows[n] = Turn8(P, {n - 1})
      <4>1. (n - 1) + 1 = n
        OBVIOUS
      <4> QED
        BY <3>2, <4>1
    <3> QED
      BY <2>1, <3>1, <3>4, <3>5
  <2>2. CASE n - 1 \notin index
    <3>1. part(n) = part(n - 1)
      <4>1. \A k \in index : k < n <=> k < n - 1
        BY <1>0, <2>2
      <4> QED
        BY <4>1
    <3> HIDE DEF part
    <3> QED
      BY <2>2, <3>1
  <2> QED
    BY <2>1, <2>2
<1>4. part(8) = index
  <2>1. \A k \in index : k < 8
    BY <1>0
  <2> QED
    BY <2>1
<1> HIDE DEF part
<1>5. \A n : Below(index, n) = part(n)
  BY DEF Below, part
<1> QED
  BY <1>1, <1>2, <1>3, <1>4, <1>5

\* A table whose rows are eight turns of one bit has those of every index.
LEMMA TableIsTurn8 ==
    ASSUME NEW P \in Registers, NEW rows, \A k \in 0..7 : rows[k + 1] = Turn8(P, {k}),
           NEW index \in SUBSET (0..7)
    PROVE  Table(rows)[index] = Turn8(P, index)
<1> DEFINE part(n) == Below(index, n)
           h == [n \in 0..8 |-> Turn8(P, part(n))]
           g == TableFn(rows, index)
<1>1. \A n \in 0..8 : Turn8(P, part(n)) \in Registers
  BY BelowTurns
<1>2. Turn8(P, part(0)) = {} /\ part(8) = index
  BY BelowTurns
<1>3. ASSUME NEW n \in 1..8
      PROVE  Turn8(P, part(n)) = IF n - 1 \in index THEN Xor(rows[n], Turn8(P, part(n - 1)))
                                 ELSE Turn8(P, part(n - 1))
  BY BelowTurns
<1> HIDE DEF part
<1>4. /\ h \in [0..8 -> Registers] /\ \A n \in 0..8 : h[n] = Turn8(P, part(n))
  BY <1>1
<1> HIDE DEF h
<1>5. h = [n \in 0..8 |-> TableAt(rows, index, h, n)]
  <2>1. ASSUME NEW n \in 0..8 PROVE h[n] = TableAt(rows, index, h, n)
    <3>1. CASE n = 0
      BY <1>2, <1>4, <3>1 DEF TableAt
    <3>2. CASE n \in 1..8
      <4>1. n - 1 \in 0..8 /\ n # 0
        BY <3>2
      <4>2. h[n - 1] = Turn8(P, part(n - 1)) /\ h[n] = Turn8(P, part(n))
        BY <1>4, <4>1
      <4> QED
        BY <1>3, <3>2, <4>1, <4>2 DEF TableAt
    <3> QED
      BY <3>1, <3>2
  <2> QED
    BY <1>4, <2>1
<1>6. g = [n \in 0..8 |-> TableAt(rows, index, g, n)]
  BY <1>5 DEF TableFn
<1> HIDE DEF g
<1>7. g[0] = {} /\ \A n \in 1..8 : g[n] = IF n - 1 \in index THEN Xor(rows[n], g[n - 1]) ELSE g[n - 1]
  <2>1. \A n \in 0..8 : g[n] = TableAt(rows, index, g, n)
    BY <1>6
  <2> QED
    BY <2>1 DEF TableAt
<1> DEFINE T == {n \in 0..8 : g[n] = Turn8(P, part(n))}
<1>8. 0 \in T
  BY <1>2, <1>7
<1>9. \A n \in 0..8 : n < 8 /\ n \in T => n + 1 \in T
  <2> SUFFICES ASSUME NEW n \in 0..8, n < 8, g[n] = Turn8(P, part(n))
               PROVE  g[n + 1] = Turn8(P, part(n + 1))
    OBVIOUS
  <2>1. n + 1 \in 1..8 /\ (n + 1) - 1 = n
    OBVIOUS
  <2> QED
    BY <1>3, <1>7, <2>1
<1>10. \A n \in 0..8 : n \in T
  <2>1. 8 \in Nat
    OBVIOUS
  <2> HIDE DEF T
  <2> QED
    BY <1>8, <1>9, <2>1, UpTo
<1> QED
  BY <1>2, <1>10, TableIsFn DEF g

\* The two ways a byte changes the register.
LooksUp(table, P) == \A index \in SUBSET (0..7) : table[index] = Turn8(P, index)

LEMMA LookedUp ==
    ASSUME NEW P \in Registers, NEW table, LooksUp(table, P),
           NEW r \in Registers, NEW byte
    PROVE  LookUp(table, r, byte) = Turn8(P, Xor(r, Bits(byte, 8)))
<1> DEFINE B == Bits(byte, 8)
           x == Xor(r, B)
<1>1. B \in SUBSET (0..7) /\ B \in Registers /\ x \in Registers
  BY LowBits, XorAlgebra
<1>2. ShiftRight(x, 8) = ShiftRight(r, 8)
  <2>1. \A k : k >= 8 => (k \in x <=> k \in r)
    BY <1>1 DEF Xor
  <2> HIDE DEF x
  <2>2. \A k \in x : k \in Nat
    BY <1>1 DEF Registers
  <2> QED
    BY <2>1, <2>2 DEF ShiftRight
<1>3. x \cap 0..7 \in SUBSET (0..7)
  OBVIOUS
<1> HIDE DEF x, B
<1> QED
  BY <1>1, <1>2, <1>3, Turn8IsLookup DEF x, B, LooksUp, LookUp

\* The register after each byte.
ByteTurn(P, message) == [n \in 1..Len(message) |-> [r \in Registers |-> Turn8(P, Xor(r, Bits(message[n], 8)))]]
RegisterOf(f, P, message) == Upward(f, Len(message), Registers, Ones, ByteTurn(P, message))

LEMMA RegisterExists ==
    ASSUME NEW P \in Registers, NEW message, Len(message) \in Nat
    PROVE  \E f : RegisterOf(f, P, message)
<1>1. Ones \in Registers
  BY DEF Ones, Registers
<1>2. ByteTurn(P, message) \in [1..Len(message) -> [Registers -> Registers]]
  <2>1. \A n \in 1..Len(message), r \in Registers : Turn8(P, Xor(r, Bits(message[n], 8))) \in Registers
    BY LowBits, XorAlgebra, Turn8Linear
  <2> QED
    BY <2>1 DEF ByteTurn
<1> QED
  BY <1>1, <1>2, UpwardRecursion DEF RegisterOf

LEMMA RegisterSteps ==
    ASSUME NEW P \in Registers, NEW message, NEW f, RegisterOf(f, P, message)
    PROVE  /\ f \in [0..Len(message) -> Registers] /\ f[0] = Ones
           /\ \A n \in 1..Len(message) : f[n] = Turn8(P, Xor(f[n - 1], Bits(message[n], 8)))
<1>1. /\ f \in [0..Len(message) -> Registers] /\ f[0] = Ones
      /\ \A n \in 1..Len(message) : f[n] = ByteTurn(P, message)[n][f[n - 1]]
  BY DEF RegisterOf, Upward
<1>2. ASSUME NEW n \in 1..Len(message) PROVE f[n] = Turn8(P, Xor(f[n - 1], Bits(message[n], 8)))
  <2>1. n - 1 \in 0..Len(message)
    OBVIOUS
  <2>2. f[n - 1] \in Registers
    BY <1>1, <2>1
  <2> QED
    BY <1>1, <2>2 DEF ByteTurn
<1> QED
  BY <1>1, <1>2

CrcAt(message, table, g, n) ==
    IF n = 0 THEN Ones
    ELSE LookUp(table, g[n - 1], message[n])
CrcFn(message, table) == CHOOSE g : g = [n \in 0..Len(message) |-> CrcAt(message, table, g, n)]

LEMMA Crc32xIsFn ==
    ASSUME NEW message, NEW table
    PROVE  crc32x(message, table) = Xor(CrcFn(message, table)[Len(message)], Ones)
BY DEF crc32x, CrcFn, CrcAt, LookUp

LEMMA Crc32xIs ==
    ASSUME NEW P \in Registers, NEW table, LooksUp(table, P),
           NEW message, Len(message) \in Nat, NEW f, RegisterOf(f, P, message)
    PROVE  crc32x(message, table) = Xor(f[Len(message)], Ones)
<1> DEFINE N == Len(message)
           g == CrcFn(message, table)
<1>1. /\ f \in [0..N -> Registers] /\ f[0] = Ones
      /\ \A n \in 1..N : f[n] = Turn8(P, Xor(f[n - 1], Bits(message[n], 8)))
  BY RegisterSteps
<1>2. f = [n \in 0..N |-> CrcAt(message, table, f, n)]
  <2>1. ASSUME NEW n \in 0..N PROVE f[n] = CrcAt(message, table, f, n)
    <3>1. CASE n = 0
      BY <1>1, <3>1 DEF CrcAt
    <3>2. CASE n \in 1..N
      <4>1. n - 1 \in 0..N /\ n # 0
        BY <3>2
      <4>2. f[n - 1] \in Registers
        BY <1>1, <4>1
      <4>3. f[n] = Turn8(P, Xor(f[n - 1], Bits(message[n], 8)))
        BY <1>1, <3>2
      <4>4. CrcAt(message, table, f, n) = Turn8(P, Xor(f[n - 1], Bits(message[n], 8)))
        <5>1. LookUp(table, f[n - 1], message[n]) = Turn8(P, Xor(f[n - 1], Bits(message[n], 8)))
          BY <4>2, LookedUp
        <5> QED
          BY <4>1, <5>1 DEF CrcAt
      <4> QED
        BY <4>3, <4>4
    <3> QED
      BY <3>1, <3>2
  <2> QED
    BY <1>1, <2>1
<1>3. g = [n \in 0..N |-> CrcAt(message, table, g, n)]
  BY <1>2 DEF CrcFn
<1> HIDE DEF g
<1>4. g[0] = Ones /\ \A n \in 1..N : g[n - 1] \in Registers => g[n] = ByteTurn(P, message)[n][g[n - 1]]
  <2>1. \A n \in 0..N : g[n] = CrcAt(message, table, g, n)
    BY <1>3
  <2>2. g[0] = Ones
    <3>1. 0 \in 0..N
      OBVIOUS
    <3>2. CrcAt(message, table, g, 0) = Ones
      BY DEF CrcAt
    <3> QED
      BY <2>1, <3>1, <3>2
  <2>3. ASSUME NEW n \in 1..N, g[n - 1] \in Registers PROVE g[n] = ByteTurn(P, message)[n][g[n - 1]]
    <3>1. n \in 0..N /\ n # 0
      OBVIOUS
    <3>2. g[n] = Turn8(P, Xor(g[n - 1], Bits(message[n], 8)))
      <4>1. CrcAt(message, table, g, n) = Turn8(P, Xor(g[n - 1], Bits(message[n], 8)))
        <5>1. LookUp(table, g[n - 1], message[n]) = Turn8(P, Xor(g[n - 1], Bits(message[n], 8)))
          BY <2>3, LookedUp
        <5> QED
          BY <3>1, <5>1 DEF CrcAt
      <4> QED
        BY <2>1, <3>1, <4>1
    <3> QED
      BY <2>3, <3>2 DEF ByteTurn
  <2> QED
    BY <2>2, <2>3
<1>5. \A n \in 0..N : g[n] = f[n]
  BY <1>4, UpwardUnique DEF RegisterOf
<1> QED
  BY <1>5, Crc32xIsFn DEF g

RemAt(message, poly, g, n) == IF n = 0 THEN Ones ELSE DivideByte(g[n - 1], message[n], poly)
RemFn(message, poly) == CHOOSE g : g = [n \in 0..Len(message) |-> RemAt(message, poly, g, n)]

LEMMA RemainderIsFn ==
    ASSUME NEW message, NEW poly
    PROVE  Remainder(message, poly) = Xor(RemFn(message, poly)[Len(message)], Ones)
BY DEF Remainder, RemFn, RemAt

LEMMA RemainderIs ==
    ASSUME NEW poly, Reflect(poly) \in Registers, NEW message, Len(message) \in Nat,
           NEW f, RegisterOf(f, Reflect(poly), message)
    PROVE  Remainder(message, poly) = Xor(f[Len(message)], Ones)
<1> DEFINE N == Len(message)
           P == Reflect(poly)
           g == RemFn(message, poly)
<1>1. /\ f \in [0..N -> Registers] /\ f[0] = Ones
      /\ \A n \in 1..N : f[n] = Turn8(P, Xor(f[n - 1], Bits(message[n], 8)))
  BY RegisterSteps
<1>2. f = [n \in 0..N |-> RemAt(message, poly, f, n)]
  <2>1. ASSUME NEW n \in 0..N PROVE f[n] = RemAt(message, poly, f, n)
    <3>1. CASE n = 0
      BY <1>1, <3>1 DEF RemAt
    <3>2. CASE n \in 1..N
      <4>1. n - 1 \in 0..N /\ n # 0
        BY <3>2
      <4>2. f[n - 1] \in Registers
        BY <1>1, <4>1
      <4> QED
        BY <1>1, <3>2, <4>1, <4>2, ByteDivided DEF RemAt
    <3> QED
      BY <3>1, <3>2
  <2> QED
    BY <1>1, <2>1
<1>3. g = [n \in 0..N |-> RemAt(message, poly, g, n)]
  BY <1>2 DEF RemFn
<1> HIDE DEF g
<1>4. g[0] = Ones /\ \A n \in 1..N : g[n - 1] \in Registers => g[n] = ByteTurn(P, message)[n][g[n - 1]]
  <2>1. \A n \in 0..N : g[n] = RemAt(message, poly, g, n)
    BY <1>3
  <2>2. g[0] = Ones
    BY <2>1 DEF RemAt
  <2>3. ASSUME NEW n \in 1..N, g[n - 1] \in Registers PROVE g[n] = ByteTurn(P, message)[n][g[n - 1]]
    <3>1. n \in 0..N /\ n # 0
      OBVIOUS
    <3>2. g[n] = Turn8(P, Xor(g[n - 1], Bits(message[n], 8)))
      BY <2>1, <2>3, <3>1, ByteDivided DEF RemAt
    <3> QED
      BY <2>3, <3>2 DEF ByteTurn
  <2> QED
    BY <2>2, <2>3
<1>5. \A n \in 0..N : g[n] = f[n]
  BY <1>4, UpwardUnique DEF RegisterOf
<1> QED
  BY <1>5, RemainderIsFn DEF g

-----------------------------------------------------------------------------
(* The constants of the two checksums.                                     *)

\* The bits of a number below 2^16.
LEMMA BitsAre ==
    ASSUME NEW n \in Nat
    PROVE  /\ \A k \in Bits(n, 16) : k \in 0..15
           /\ 0 \in Bits(n, 16) <=> (n \div 1) % 2 = 1
           /\ 1 \in Bits(n, 16) <=> (n \div 2) % 2 = 1
           /\ 2 \in Bits(n, 16) <=> (n \div 4) % 2 = 1
           /\ 3 \in Bits(n, 16) <=> (n \div 8) % 2 = 1
           /\ 4 \in Bits(n, 16) <=> (n \div 16) % 2 = 1
           /\ 5 \in Bits(n, 16) <=> (n \div 32) % 2 = 1
           /\ 6 \in Bits(n, 16) <=> (n \div 64) % 2 = 1
           /\ 7 \in Bits(n, 16) <=> (n \div 128) % 2 = 1
           /\ 8 \in Bits(n, 16) <=> (n \div 256) % 2 = 1
           /\ 9 \in Bits(n, 16) <=> (n \div 512) % 2 = 1
           /\ 10 \in Bits(n, 16) <=> (n \div 1024) % 2 = 1
           /\ 11 \in Bits(n, 16) <=> (n \div 2048) % 2 = 1
           /\ 12 \in Bits(n, 16) <=> (n \div 4096) % 2 = 1
           /\ 13 \in Bits(n, 16) <=> (n \div 8192) % 2 = 1
           /\ 14 \in Bits(n, 16) <=> (n \div 16384) % 2 = 1
           /\ 15 \in Bits(n, 16) <=> (n \div 32768) % 2 = 1
<1>1. /\ 2^0 = 1 /\ 2^1 = 2 /\ 2^2 = 4 /\ 2^3 = 8 /\ 2^4 = 16 /\ 2^5 = 32 /\ 2^6 = 64 /\ 2^7 = 128
      /\ 2^8 = 256 /\ 2^9 = 512 /\ 2^10 = 1024 /\ 2^11 = 2048 /\ 2^12 = 4096 /\ 2^13 = 8192
      /\ 2^14 = 16384 /\ 2^15 = 32768
  OBVIOUS
<1> QED
  BY <1>1 DEF Bits


\* The word w is the number of the two halves hi and lo.
IsWord(w, hi, lo) ==
    /\ \A k \in w : k \in 0..31
    /\ 0 \in w <=> (lo \div 1) % 2 = 1
    /\ 1 \in w <=> (lo \div 2) % 2 = 1
    /\ 2 \in w <=> (lo \div 4) % 2 = 1
    /\ 3 \in w <=> (lo \div 8) % 2 = 1
    /\ 4 \in w <=> (lo \div 16) % 2 = 1
    /\ 5 \in w <=> (lo \div 32) % 2 = 1
    /\ 6 \in w <=> (lo \div 64) % 2 = 1
    /\ 7 \in w <=> (lo \div 128) % 2 = 1
    /\ 8 \in w <=> (lo \div 256) % 2 = 1
    /\ 9 \in w <=> (lo \div 512) % 2 = 1
    /\ 10 \in w <=> (lo \div 1024) % 2 = 1
    /\ 11 \in w <=> (lo \div 2048) % 2 = 1
    /\ 12 \in w <=> (lo \div 4096) % 2 = 1
    /\ 13 \in w <=> (lo \div 8192) % 2 = 1
    /\ 14 \in w <=> (lo \div 16384) % 2 = 1
    /\ 15 \in w <=> (lo \div 32768) % 2 = 1
    /\ 16 \in w <=> (hi \div 1) % 2 = 1
    /\ 17 \in w <=> (hi \div 2) % 2 = 1
    /\ 18 \in w <=> (hi \div 4) % 2 = 1
    /\ 19 \in w <=> (hi \div 8) % 2 = 1
    /\ 20 \in w <=> (hi \div 16) % 2 = 1
    /\ 21 \in w <=> (hi \div 32) % 2 = 1
    /\ 22 \in w <=> (hi \div 64) % 2 = 1
    /\ 23 \in w <=> (hi \div 128) % 2 = 1
    /\ 24 \in w <=> (hi \div 256) % 2 = 1
    /\ 25 \in w <=> (hi \div 512) % 2 = 1
    /\ 26 \in w <=> (hi \div 1024) % 2 = 1
    /\ 27 \in w <=> (hi \div 2048) % 2 = 1
    /\ 28 \in w <=> (hi \div 4096) % 2 = 1
    /\ 29 \in w <=> (hi \div 8192) % 2 = 1
    /\ 30 \in w <=> (hi \div 16384) % 2 = 1
    /\ 31 \in w <=> (hi \div 32768) % 2 = 1

LEMMA WordIs ==
    ASSUME NEW hi \in Nat, NEW lo \in Nat, NEW w, IsWord(w, hi, lo)
    PROVE  U32Bits(hi, lo) = w
<1>1. ASSUME NEW k \in 0..15 PROVE (k \in Bits(lo, 16) <=> k \in w) /\ (k \in Bits(hi, 16) <=> k + 16 \in w)
  BY BitsAre DEF IsWord
<1>2. \A k \in w : k \in 0..31
  BY DEF IsWord
<1>3. (\A k \in Bits(lo, 16) : k \in 0..15) /\ (\A k \in Bits(hi, 16) : k \in 0..15)
  BY BitsAre
<1>4. ASSUME NEW k PROVE k \in U32Bits(hi, lo) <=> k \in w
  <2>1. CASE k \in 0..15
    BY <1>1, <1>3, <2>1 DEF U32Bits
  <2>2. CASE k \in 16..31
    <3>1. k - 16 \in 0..15 /\ (k - 16) + 16 = k /\ k \notin 0..15
      BY <2>2
    <3>2. k \in w <=> k - 16 \in Bits(hi, 16)
      BY <1>1, <3>1
    <3>3. k \in U32Bits(hi, lo) <=> k - 16 \in Bits(hi, 16)
      BY <1>3, <3>1 DEF U32Bits
    <3> QED
      BY <3>2, <3>3
  <2>3. CASE k \notin 0..31
    BY <1>2, <1>3, <2>3 DEF U32Bits
  <2> QED
    BY <2>1, <2>2, <2>3
<1> QED
  BY <1>4


Odd(a, b) == ~(a <=> b)

LEMMA TurnIs ==
    ASSUME NEW P \in Registers, NEW r \in Registers, NEW s \in Registers,
           \A j \in 0..31 : j \in s <=> Odd(j + 1 \in r, 0 \in r /\ j \in P)
    PROVE  Turn(P, r) = s
<1>1. ASSUME NEW j \in 0..31 PROVE j \in Turn(P, r) <=> j \in s
  <2>1. j \in ShiftRight(r, 1) <=> j + 1 \in r
    BY ShiftMember
  <2>2. j \in Turn(P, r) <=> Odd(j \in ShiftRight(r, 1), 0 \in r /\ j \in P)
    BY DEF Turn, Xor, Odd
  <2> QED
    BY <2>1, <2>2 DEF Odd
<1>2. Turn(P, r) \in Registers
  BY TurnLinear
<1> QED
  BY <1>1, <1>2 DEF Registers

\* A row of the table for each bit that falls out.
RowsOf(rows, r, j) ==
    Odd(0 \in r /\ j \in rows[1], Odd(1 \in r /\ j \in rows[2], Odd(2 \in r /\ j \in rows[3],
    Odd(3 \in r /\ j \in rows[4], Odd(4 \in r /\ j \in rows[5], Odd(5 \in r /\ j \in rows[6],
    Odd(6 \in r /\ j \in rows[7], 7 \in r /\ j \in rows[8])))))))

LEMMA LookupIs ==
    ASSUME NEW P \in Registers, NEW rows, \A k \in 0..7 : rows[k + 1] = Turn8(P, {k}),
           NEW r \in Registers, NEW s \in Registers,
           \A j \in 0..31 : j \in s <=> Odd(j + 8 \in r, RowsOf(rows, r, j))
    PROVE  Turn8(P, r) = s
<1> DEFINE index == r \cap 0..7
           g(n) == Turn8(P, Below(index, n))
<1>1. index \in SUBSET (0..7)
  OBVIOUS
<1>2. \A k \in 0..7 : k \in index <=> k \in r
  OBVIOUS
<1> HIDE DEF index
<1>3. /\ g(0) = {} /\ g(8) = Turn8(P, index)
      /\ \A n \in 1..8 : g(n) = IF n - 1 \in index THEN Xor(rows[n], g(n - 1)) ELSE g(n - 1)
  BY <1>1, BelowTurns
<1> HIDE DEF g
<1>4. ASSUME NEW n \in 1..8, NEW j
      PROVE  j \in g(n) <=> Odd(n - 1 \in r /\ j \in rows[n], j \in g(n - 1))
  <2>1. n - 1 \in 0..7
    OBVIOUS
  <2>2. n - 1 \in index <=> n - 1 \in r
    BY <1>2, <2>1
  <2>3. j \in Xor(rows[n], g(n - 1)) <=> Odd(j \in rows[n], j \in g(n - 1))
    BY XorMember DEF Odd
  <2> QED
    BY <1>3, <2>2, <2>3 DEF Odd
<1>5. ASSUME NEW j PROVE j \in Turn8(P, index) <=> RowsOf(rows, r, j)
  <2>1. /\ j \in g(1) <=> Odd(0 \in r /\ j \in rows[1], j \in g(0))
        /\ j \in g(2) <=> Odd(1 \in r /\ j \in rows[2], j \in g(1))
        /\ j \in g(3) <=> Odd(2 \in r /\ j \in rows[3], j \in g(2))
        /\ j \in g(4) <=> Odd(3 \in r /\ j \in rows[4], j \in g(3))
        /\ j \in g(5) <=> Odd(4 \in r /\ j \in rows[5], j \in g(4))
        /\ j \in g(6) <=> Odd(5 \in r /\ j \in rows[6], j \in g(5))
        /\ j \in g(7) <=> Odd(6 \in r /\ j \in rows[7], j \in g(6))
        /\ j \in g(8) <=> Odd(7 \in r /\ j \in rows[8], j \in g(7))
    BY <1>4
  <2>2. ~(j \in g(0))
    BY <1>3
  <2>3. j \in g(8) <=> RowsOf(rows, r, j)
    BY <2>1, <2>2 DEF RowsOf, Odd
  <2> QED
    BY <1>3, <2>3
<1>6. ASSUME NEW j \in 0..31 PROVE j \in Turn8(P, r) <=> j \in s
  <2>1. j \in ShiftRight(r, 8) <=> j + 8 \in r
    BY ShiftMember
  <2>2. Turn8(P, r) = Xor(Turn8(P, index), ShiftRight(r, 8))
    BY Turn8IsLookup DEF index
  <2>3. j \in Turn8(P, r) <=> Odd(j \in Turn8(P, index), j \in ShiftRight(r, 8))
    BY <2>2, XorMember DEF Odd
  <2> QED
    BY <1>5, <2>1, <2>3 DEF Odd
<1>7. Turn8(P, r) \in Registers
  BY Turn8Linear
<1> QED
  BY <1>6, <1>7 DEF Registers


\* The rows of crc32_tab, bit by bit.
IsoRows == <<
    {1, 2, 4, 7, 12, 13, 16, 17, 18, 24, 25, 26, 28, 29, 30},
    {2, 3, 5, 8, 13, 14, 17, 18, 19, 25, 26, 27, 29, 30, 31},
    {0, 3, 4, 10, 14, 15, 16, 18, 19, 21, 22, 24, 25, 26},
    {1, 4, 5, 11, 15, 16, 17, 19, 20, 22, 23, 25, 26, 27},
    {2, 5, 6, 12, 16, 17, 18, 20, 21, 23, 24, 26, 27, 28},
    {3, 6, 7, 13, 17, 18, 19, 21, 22, 24, 25, 27, 28, 29},
    {4, 7, 8, 14, 18, 19, 20, 22, 23, 25, 26, 28, 29, 30},
    {5, 8, 9, 15, 19, 20, 21, 23, 24, 26, 27, 29, 30, 31} >>

LEMMA IsoRowsAre == crc32_tab = Table(IsoRows)
<1>1. U32Bits(\h7707, \h3096) = IsoRows[1]
  <2>1. IsWord({1, 2, 4, 7, 12, 13, 16, 17, 18, 24, 25, 26, 28, 29, 30}, \h7707, \h3096)
    BY DEF IsWord
  <2> QED
    BY <2>1, WordIs DEF IsoRows
<1>2. U32Bits(\hee0e, \h612c) = IsoRows[2]
  <2>1. IsWord({2, 3, 5, 8, 13, 14, 17, 18, 19, 25, 26, 27, 29, 30, 31}, \hee0e, \h612c)
    BY DEF IsWord
  <2> QED
    BY <2>1, WordIs DEF IsoRows
<1>3. U32Bits(\h076d, \hc419) = IsoRows[3]
  <2>1. IsWord({0, 3, 4, 10, 14, 15, 16, 18, 19, 21, 22, 24, 25, 26}, \h076d, \hc419)
    BY DEF IsWord
  <2> QED
    BY <2>1, WordIs DEF IsoRows
<1>4. U32Bits(\h0edb, \h8832) = IsoRows[4]
  <2>1. IsWord({1, 4, 5, 11, 15, 16, 17, 19, 20, 22, 23, 25, 26, 27}, \h0edb, \h8832)
    BY DEF IsWord
  <2> QED
    BY <2>1, WordIs DEF IsoRows
<1>5. U32Bits(\h1db7, \h1064) = IsoRows[5]
  <2>1. IsWord({2, 5, 6, 12, 16, 17, 18, 20, 21, 23, 24, 26, 27, 28}, \h1db7, \h1064)
    BY DEF IsWord
  <2> QED
    BY <2>1, WordIs DEF IsoRows
<1>6. U32Bits(\h3b6e, \h20c8) = IsoRows[6]
  <2>1. IsWord({3, 6, 7, 13, 17, 18, 19, 21, 22, 24, 25, 27, 28, 29}, \h3b6e, \h20c8)
    BY DEF IsWord
  <2> QED
    BY <2>1, WordIs DEF IsoRows
<1>7. U32Bits(\h76dc, \h4190) = IsoRows[7]
  <2>1. IsWord({4, 7, 8, 14, 18, 19, 20, 22, 23, 25, 26, 28, 29, 30}, \h76dc, \h4190)
    BY DEF IsWord
  <2> QED
    BY <2>1, WordIs DEF IsoRows
<1>8. U32Bits(\hedb8, \h8320) = IsoRows[8]
  <2>1. IsWord({5, 8, 9, 15, 19, 20, 21, 23, 24, 26, 27, 29, 30, 31}, \hedb8, \h8320)
    BY DEF IsWord
  <2> QED
    BY <2>1, WordIs DEF IsoRows
<1>9. IsoRows = << IsoRows[1], IsoRows[2], IsoRows[3], IsoRows[4],
            IsoRows[5], IsoRows[6], IsoRows[7], IsoRows[8] >>
  BY DEF IsoRows
<1> QED
  BY <1>1, <1>2, <1>3, <1>4, <1>5, <1>6, <1>7, <1>8, <1>9 DEF crc32_tab

LEMMA IsoTurns ==
    /\ Reflect(POLY_ISO_HDLC) = IsoRows[8]
    /\ \A k \in 1..8 : IsoRows[k] \in Registers
    /\ \A k \in 1..7 : Turn(IsoRows[8], IsoRows[k + 1]) = IsoRows[k]
<1>1. POLY_ISO_HDLC = {0, 1, 2, 4, 5, 7, 8, 10, 11, 12, 16, 22, 23, 26}
  <2>1. IsWord({0, 1, 2, 4, 5, 7, 8, 10, 11, 12, 16, 22, 23, 26}, \h04c1, \h1db7)
    BY DEF IsWord
  <2> QED
    BY <2>1, WordIs DEF POLY_ISO_HDLC
<1>2. Reflect(POLY_ISO_HDLC) = IsoRows[8]
  BY <1>1 DEF Reflect, IsoRows
<1>3. \A k \in 1..8 : IsoRows[k] \in Registers
  BY DEF IsoRows, Registers
<1>4. ASSUME NEW k \in 1..7 PROVE Turn(IsoRows[8], IsoRows[k + 1]) = IsoRows[k]
  <2>1. \A j \in 0..31 : j \in IsoRows[1] <=> Odd(j + 1 \in IsoRows[2], 0 \in IsoRows[2] /\ j \in IsoRows[8])
    BY DEF IsoRows, Odd
  <2>2. \A j \in 0..31 : j \in IsoRows[2] <=> Odd(j + 1 \in IsoRows[3], 0 \in IsoRows[3] /\ j \in IsoRows[8])
    BY DEF IsoRows, Odd
  <2>3. \A j \in 0..31 : j \in IsoRows[3] <=> Odd(j + 1 \in IsoRows[4], 0 \in IsoRows[4] /\ j \in IsoRows[8])
    BY DEF IsoRows, Odd
  <2>4. \A j \in 0..31 : j \in IsoRows[4] <=> Odd(j + 1 \in IsoRows[5], 0 \in IsoRows[5] /\ j \in IsoRows[8])
    BY DEF IsoRows, Odd
  <2>5. \A j \in 0..31 : j \in IsoRows[5] <=> Odd(j + 1 \in IsoRows[6], 0 \in IsoRows[6] /\ j \in IsoRows[8])
    BY DEF IsoRows, Odd
  <2>6. \A j \in 0..31 : j \in IsoRows[6] <=> Odd(j + 1 \in IsoRows[7], 0 \in IsoRows[7] /\ j \in IsoRows[8])
    BY DEF IsoRows, Odd
  <2>7. \A j \in 0..31 : j \in IsoRows[7] <=> Odd(j + 1 \in IsoRows[8], 0 \in IsoRows[8] /\ j \in IsoRows[8])
    BY DEF IsoRows, Odd
  <2>8. k + 1 \in 1..8 /\ k \in 1..8
    OBVIOUS
  <2>9. \A j \in 0..31 : j \in IsoRows[k] <=> Odd(j + 1 \in IsoRows[k + 1], 0 \in IsoRows[k + 1] /\ j \in IsoRows[8])
    BY <2>1, <2>2, <2>3, <2>4, <2>5, <2>6, <2>7
  <2>10. IsoRows[8] \in Registers /\ IsoRows[k + 1] \in Registers /\ IsoRows[k] \in Registers
    BY <1>3, <2>8
  <2> QED
    BY <2>9, <2>10, TurnIs
<1> QED
  BY <1>2, <1>3, <1>4

LEMMA IsoResidue ==
    ASSUME \A k \in 0..7 : IsoRows[k + 1] = Turn8(IsoRows[8], {k})
    PROVE  Turn8(IsoRows[8], Turn8(IsoRows[8], Turn8(IsoRows[8], Turn8(IsoRows[8], Ones)))) = RESIDUE_ISO_HDLC
<1> DEFINE r1 == {1, 4, 5, 6, 12, 16, 18, 19, 20, 21, 22, 23, 24, 26, 27, 29}
           r2 == {8, 10, 11, 13, 14, 15, 17, 18, 21, 25, 26, 27, 28, 29, 31}
           r3 == {0, 2, 3, 5, 6, 7, 9, 10, 13, 17, 18, 19, 20, 21, 23}
           r4 == {0, 1, 5, 6, 7, 13, 16, 17, 19, 20, 21, 23, 25, 26, 27, 28, 30, 31}
<1>1. Ones \in Registers /\ r1 \in Registers /\ r2 \in Registers /\ r3 \in Registers /\ r4 \in Registers
  BY DEF Ones, Registers
<1>2. IsoRows[8] \in Registers
  BY IsoTurns
<1>3. Turn8(IsoRows[8], Ones) = r1
  <2>1. \A j \in 0..31 : j \in r1 <=> Odd(j + 8 \in Ones, RowsOf(IsoRows, Ones, j))
    BY DEF Ones, RowsOf, IsoRows, Odd
  <2> HIDE DEF r1, r2, r3, r4
  <2> QED
    BY <1>1, <1>2, <2>1, LookupIs
<1>4. Turn8(IsoRows[8], r1) = r2
  <2>1. \A j \in 0..31 : j \in r2 <=> Odd(j + 8 \in r1, RowsOf(IsoRows, r1, j))
    BY DEF Ones, RowsOf, IsoRows, Odd
  <2> HIDE DEF r1, r2, r3, r4
  <2> QED
    BY <1>1, <1>2, <2>1, LookupIs
<1>5. Turn8(IsoRows[8], r2) = r3
  <2>1. \A j \in 0..31 : j \in r3 <=> Odd(j + 8 \in r2, RowsOf(IsoRows, r2, j))
    BY DEF Ones, RowsOf, IsoRows, Odd
  <2> HIDE DEF r1, r2, r3, r4
  <2> QED
    BY <1>1, <1>2, <2>1, LookupIs
<1>6. Turn8(IsoRows[8], r3) = r4
  <2>1. \A j \in 0..31 : j \in r4 <=> Odd(j + 8 \in r3, RowsOf(IsoRows, r3, j))
    BY DEF Ones, RowsOf, IsoRows, Odd
  <2> HIDE DEF r1, r2, r3, r4
  <2> QED
    BY <1>1, <1>2, <2>1, LookupIs
<1>7. RESIDUE_ISO_HDLC = r4
  <2>1. IsWord(r4, \hdebb, \h20e3)
    BY DEF IsWord
  <2> HIDE DEF r4
  <2> QED
    BY <2>1, WordIs DEF RESIDUE_ISO_HDLC
<1> HIDE DEF r1, r2, r3, r4
<1> QED
  BY <1>3, <1>4, <1>5, <1>6, <1>7


\* The rows of crc32c_tab.
IscsiRows == <<
    {0, 1, 8, 9, 15, 16, 17, 19, 21, 22, 25, 28, 29, 30, 31},
    {0, 1, 2, 4, 5, 6, 7, 12, 13, 14, 16, 17, 19, 20, 21, 24, 29, 30, 31},
    {0, 1, 2, 3, 4, 8, 9, 10, 12, 15, 17, 19, 20, 23, 24, 25, 26, 30, 31},
    {0, 1, 2, 3, 6, 7, 11, 12, 14, 16, 19, 20, 22, 23, 25, 27, 31},
    {0, 1, 2, 3, 5, 6, 8, 9, 10, 14, 15, 17, 18, 19, 20, 22, 28},
    {1, 2, 3, 4, 6, 7, 9, 10, 11, 15, 16, 18, 19, 20, 21, 23, 29},
    {2, 3, 4, 5, 7, 8, 10, 11, 12, 16, 17, 19, 20, 21, 22, 24, 30},
    {3, 4, 5, 6, 8, 9, 11, 12, 13, 17, 18, 20, 21, 22, 23, 25, 31} >>

LEMMA IscsiRowsAre == crc32c_tab = Table(IscsiRows)
<1>1. U32Bits(\hf26b, \h8303) = IscsiRows[1]
  <2>1. IsWord({0, 1, 8, 9, 15, 16, 17, 19, 21, 22, 25, 28, 29, 30, 31}, \hf26b, \h8303)
    BY DEF IsWord
  <2> QED
    BY <2>1, WordIs DEF IscsiRows
<1>2. U32Bits(\he13b, \h70f7) = IscsiRows[2]
  <2>1. IsWord({0, 1, 2, 4, 5, 6, 7, 12, 13, 14, 16, 17, 19, 20, 21, 24, 29, 30, 31}, \he13b, \h70f7)
    BY DEF IsWord
  <2> QED
    BY <2>1, WordIs DEF IscsiRows
<1>3. U32Bits(\hc79a, \h971f) = IscsiRows[3]
  <2>1. IsWord({0, 1, 2, 3, 4, 8, 9, 10, 12, 15, 17, 19, 20, 23, 24, 25, 26, 30, 31}, \hc79a, \h971f)
    BY DEF IsWord
  <2> QED
    BY <2>1, WordIs DEF IscsiRows
<1>4. U32Bits(\h8ad9, \h58cf) = IscsiRows[4]
  <2>1. IsWord({0, 1, 2, 3, 6, 7, 11, 12, 14, 16, 19, 20, 22, 23, 25, 27, 31}, \h8ad9, \h58cf)
    BY DEF IsWord
  <2> QED
    BY <2>1, WordIs DEF IscsiRows
<1>5. U32Bits(\h105e, \hc76f) = IscsiRows[5]
  <2>1. IsWord({0, 1, 2, 3, 5, 6, 8, 9, 10, 14, 15, 17, 18, 19, 20, 22, 28}, \h105e, \hc76f)
    BY DEF IsWord
  <2> QED
    BY <2>1, WordIs DEF IscsiRows
<1>6. U32Bits(\h20bd, \h8ede) = IscsiRows[6]
  <2>1. IsWord({1, 2, 3, 4, 6, 7, 9, 10, 11, 15, 16, 18, 19, 20, 21, 23, 29}, \h20bd, \h8ede)
    BY DEF IsWord
  <2> QED
    BY <2>1, WordIs DEF IscsiRows
<1>7. U32Bits(\h417b, \h1dbc) = IscsiRows[7]
  <2>1. IsWord({2, 3, 4, 5, 7, 8, 10, 11, 12, 16, 17, 19, 20, 21, 22, 24, 30}, \h417b, \h1dbc)
    BY DEF IsWord
  <2> QED
    BY <2>1, WordIs DEF IscsiRows
<1>8. U32Bits(\h82f6, \h3b78) = IscsiRows[8]
  <2>1. IsWord({3, 4, 5, 6, 8, 9, 11, 12, 13, 17, 18, 20, 21, 22, 23, 25, 31}, \h82f6, \h3b78)
    BY DEF IsWord
  <2> QED
    BY <2>1, WordIs DEF IscsiRows
<1>9. IscsiRows = << IscsiRows[1], IscsiRows[2], IscsiRows[3], IscsiRows[4],
            IscsiRows[5], IscsiRows[6], IscsiRows[7], IscsiRows[8] >>
  BY DEF IscsiRows
<1> QED
  BY <1>1, <1>2, <1>3, <1>4, <1>5, <1>6, <1>7, <1>8, <1>9 DEF crc32c_tab

LEMMA IscsiTurns ==
    /\ Reflect(POLY_ISCSI) = IscsiRows[8]
    /\ \A k \in 1..8 : IscsiRows[k] \in Registers
    /\ \A k \in 1..7 : Turn(IscsiRows[8], IscsiRows[k + 1]) = IscsiRows[k]
<1>1. POLY_ISCSI = {0, 6, 8, 9, 10, 11, 13, 14, 18, 19, 20, 22, 23, 25, 26, 27, 28}
  <2>1. IsWord({0, 6, 8, 9, 10, 11, 13, 14, 18, 19, 20, 22, 23, 25, 26, 27, 28}, \h1edc, \h6f41)
    BY DEF IsWord
  <2> QED
    BY <2>1, WordIs DEF POLY_ISCSI
<1>2. Reflect(POLY_ISCSI) = IscsiRows[8]
  BY <1>1 DEF Reflect, IscsiRows
<1>3. \A k \in 1..8 : IscsiRows[k] \in Registers
  BY DEF IscsiRows, Registers
<1>4. ASSUME NEW k \in 1..7 PROVE Turn(IscsiRows[8], IscsiRows[k + 1]) = IscsiRows[k]
  <2>1. \A j \in 0..31 : j \in IscsiRows[1] <=> Odd(j + 1 \in IscsiRows[2], 0 \in IscsiRows[2] /\ j \in IscsiRows[8])
    BY DEF IscsiRows, Odd
  <2>2. \A j \in 0..31 : j \in IscsiRows[2] <=> Odd(j + 1 \in IscsiRows[3], 0 \in IscsiRows[3] /\ j \in IscsiRows[8])
    BY DEF IscsiRows, Odd
  <2>3. \A j \in 0..31 : j \in IscsiRows[3] <=> Odd(j + 1 \in IscsiRows[4], 0 \in IscsiRows[4] /\ j \in IscsiRows[8])
    BY DEF IscsiRows, Odd
  <2>4. \A j \in 0..31 : j \in IscsiRows[4] <=> Odd(j + 1 \in IscsiRows[5], 0 \in IscsiRows[5] /\ j \in IscsiRows[8])
    BY DEF IscsiRows, Odd
  <2>5. \A j \in 0..31 : j \in IscsiRows[5] <=> Odd(j + 1 \in IscsiRows[6], 0 \in IscsiRows[6] /\ j \in IscsiRows[8])
    BY DEF IscsiRows, Odd
  <2>6. \A j \in 0..31 : j \in IscsiRows[6] <=> Odd(j + 1 \in IscsiRows[7], 0 \in IscsiRows[7] /\ j \in IscsiRows[8])
    BY DEF IscsiRows, Odd
  <2>7. \A j \in 0..31 : j \in IscsiRows[7] <=> Odd(j + 1 \in IscsiRows[8], 0 \in IscsiRows[8] /\ j \in IscsiRows[8])
    BY DEF IscsiRows, Odd
  <2>8. k + 1 \in 1..8 /\ k \in 1..8
    OBVIOUS
  <2>9. \A j \in 0..31 : j \in IscsiRows[k] <=> Odd(j + 1 \in IscsiRows[k + 1], 0 \in IscsiRows[k + 1] /\ j \in IscsiRows[8])
    BY <2>1, <2>2, <2>3, <2>4, <2>5, <2>6, <2>7
  <2>10. IscsiRows[8] \in Registers /\ IscsiRows[k + 1] \in Registers /\ IscsiRows[k] \in Registers
    BY <1>3, <2>8
  <2> QED
    BY <2>9, <2>10, TurnIs
<1> QED
  BY <1>2, <1>3, <1>4

LEMMA IscsiResidue ==
    ASSUME \A k \in 0..7 : IscsiRows[k + 1] = Turn8(IscsiRows[8], {k})
    PROVE  Turn8(IscsiRows[8], Turn8(IscsiRows[8], Turn8(IscsiRows[8], Turn8(IscsiRows[8], Ones)))) = RESIDUE_ISCSI
<1> DEFINE r1 == {1, 2, 3, 5, 7, 10, 11, 13, 15, 17, 23, 24, 26, 27, 29, 31}
           r2 == {0, 2, 3, 5, 11, 15, 17, 18, 19, 20, 23, 25, 26, 27}
           r3 == {0, 2, 7, 10, 11, 12, 14, 16, 17, 19, 20, 23, 24, 25, 26, 27, 28, 31}
           r4 == {3, 4, 5, 10, 12, 13, 15, 19, 20, 23, 24, 25, 26, 28, 29, 31}
<1>1. Ones \in Registers /\ r1 \in Registers /\ r2 \in Registers /\ r3 \in Registers /\ r4 \in Registers
  BY DEF Ones, Registers
<1>2. IscsiRows[8] \in Registers
  BY IscsiTurns
<1>3. Turn8(IscsiRows[8], Ones) = r1
  <2>1. \A j \in 0..31 : j \in r1 <=> Odd(j + 8 \in Ones, RowsOf(IscsiRows, Ones, j))
    BY DEF Ones, RowsOf, IscsiRows, Odd
  <2> HIDE DEF r1, r2, r3, r4
  <2> QED
    BY <1>1, <1>2, <2>1, LookupIs
<1>4. Turn8(IscsiRows[8], r1) = r2
  <2>1. \A j \in 0..31 : j \in r2 <=> Odd(j + 8 \in r1, RowsOf(IscsiRows, r1, j))
    BY DEF Ones, RowsOf, IscsiRows, Odd
  <2> HIDE DEF r1, r2, r3, r4
  <2> QED
    BY <1>1, <1>2, <2>1, LookupIs
<1>5. Turn8(IscsiRows[8], r2) = r3
  <2>1. \A j \in 0..31 : j \in r3 <=> Odd(j + 8 \in r2, RowsOf(IscsiRows, r2, j))
    BY DEF Ones, RowsOf, IscsiRows, Odd
  <2> HIDE DEF r1, r2, r3, r4
  <2> QED
    BY <1>1, <1>2, <2>1, LookupIs
<1>6. Turn8(IscsiRows[8], r3) = r4
  <2>1. \A j \in 0..31 : j \in r4 <=> Odd(j + 8 \in r3, RowsOf(IscsiRows, r3, j))
    BY DEF Ones, RowsOf, IscsiRows, Odd
  <2> HIDE DEF r1, r2, r3, r4
  <2> QED
    BY <1>1, <1>2, <2>1, LookupIs
<1>7. RESIDUE_ISCSI = r4
  <2>1. IsWord(r4, \hb798, \hb438)
    BY DEF IsWord
  <2> HIDE DEF r4
  <2> QED
    BY <2>1, WordIs DEF RESIDUE_ISCSI
<1> HIDE DEF r1, r2, r3, r4
<1> QED
  BY <1>3, <1>4, <1>5, <1>6, <1>7

-----------------------------------------------------------------------------
(* The rows of a table, and the register behind a sealed message.           *)

\* Rows that follow from each other by a turn, from the polynomial on, are those of single bits.
LEMMA RowsOfBits ==
    ASSUME NEW rows, \A k \in 1..8 : rows[k] \in Registers,
           \A k \in 1..7 : Turn(rows[8], rows[k + 1]) = rows[k]
    PROVE  \A k \in 0..7 : rows[k + 1] = Turn8(rows[8], {k})
<1> DEFINE P == rows[8]
<1>1. P \in Registers /\ \A k \in 0..31 : {k} \in Registers
  BY DEF Registers
<1>2. ASSUME NEW k \in 1..7 PROVE Turn(P, {k}) = {k - 1}
  <2>1. ShiftRight({k}, 1) = {k - 1}
    BY DEF ShiftRight
  <2>2. ~(0 \in {k})
    OBVIOUS
  <2>3. Turn(P, {k}) = Xor({k - 1}, {})
    BY <2>1, <2>2 DEF Turn
  <2> QED
    BY <2>3 DEF Xor
<1>3. Turn(P, {0}) = P
  <2>1. ShiftRight({0}, 1) = {}
    BY DEF ShiftRight
  <2>2. Xor({}, P) = P
    BY DEF Xor
  <2> QED
    BY <2>1, <2>2 DEF Turn
<1>4. /\ Turn(P, {7}) = {6} /\ Turn(P, {6}) = {5} /\ Turn(P, {5}) = {4} /\ Turn(P, {4}) = {3}
      /\ Turn(P, {3}) = {2} /\ Turn(P, {2}) = {1} /\ Turn(P, {1}) = {0}
  BY <1>2
<1>5. /\ Turn(P, rows[8]) = rows[7] /\ Turn(P, rows[7]) = rows[6] /\ Turn(P, rows[6]) = rows[5]
      /\ Turn(P, rows[5]) = rows[4] /\ Turn(P, rows[4]) = rows[3] /\ Turn(P, rows[3]) = rows[2]
      /\ Turn(P, rows[2]) = rows[1]
  OBVIOUS
<1>6. Turn(P, {0}) = rows[8]
  BY <1>3
<1> HIDE DEF P
<1>7. rows[8] = Turn8(P, {7}) /\ rows[7] = Turn8(P, {6}) /\ rows[6] = Turn8(P, {5})
  BY <1>4, <1>5, <1>6 DEF Turn8, Turn4, Turn2
<1>8. rows[5] = Turn8(P, {4}) /\ rows[4] = Turn8(P, {3}) /\ rows[3] = Turn8(P, {2})
  BY <1>4, <1>5, <1>6 DEF Turn8, Turn4, Turn2
<1>9. rows[2] = Turn8(P, {1}) /\ rows[1] = Turn8(P, {0})
  BY <1>4, <1>5, <1>6 DEF Turn8, Turn4, Turn2
<1>10. ASSUME NEW k \in 0..7 PROVE rows[k + 1] = Turn8(P, {k})
  <2>1. \/ k = 0 \/ k = 1 \/ k = 2 \/ k = 3 \/ k = 4 \/ k = 5 \/ k = 6 \/ k = 7
    OBVIOUS
  <2>2. CASE k = 0
    BY <2>2, <1>9
  <2>3. CASE k = 1
    BY <2>3, <1>9
  <2>4. CASE k = 2
    BY <2>4, <1>8
  <2>5. CASE k = 3
    BY <2>5, <1>8
  <2>6. CASE k = 4
    BY <2>6, <1>8
  <2>7. CASE k = 5
    BY <2>7, <1>7
  <2>8. CASE k = 6
    BY <2>8, <1>7
  <2>9. CASE k = 7
    BY <2>9, <1>7
  <2> QED
    BY <2>1, <2>2, <2>3, <2>4, <2>5, <2>6, <2>7, <2>8, <2>9
<1> QED
  BY <1>10 DEF P

\* Every set of eight bits is a byte.
LEMMA ByteOfBits ==
    ASSUME NEW S \in SUBSET (0..7)
    PROVE  \E b \in 0..255 : Bits(b, 8) = S
<1> DEFINE v(k, w) == IF k \in S THEN w ELSE 0
           b == v(0, 1) + v(1, 2) + v(2, 4) + v(3, 8) + v(4, 16) + v(5, 32) + v(6, 64) + v(7, 128)
<1>1. /\ v(0, 1) \in {0, 1} /\ v(1, 2) \in {0, 2} /\ v(2, 4) \in {0, 4} /\ v(3, 8) \in {0, 8}
      /\ v(4, 16) \in {0, 16} /\ v(5, 32) \in {0, 32} /\ v(6, 64) \in {0, 64} /\ v(7, 128) \in {0, 128}
  OBVIOUS
<1>2. /\ 0 \in S <=> v(0, 1) = 1
      /\ 1 \in S <=> v(1, 2) = 2
      /\ 2 \in S <=> v(2, 4) = 4
      /\ 3 \in S <=> v(3, 8) = 8
      /\ 4 \in S <=> v(4, 16) = 16
      /\ 5 \in S <=> v(5, 32) = 32
      /\ 6 \in S <=> v(6, 64) = 64
      /\ 7 \in S <=> v(7, 128) = 128
  OBVIOUS
<1> HIDE DEF v
<1>3. /\ b \in 0..255
      /\ b % 2 = 1 <=> v(0, 1) = 1
      /\ (b \div 2) % 2 = 1 <=> v(1, 2) = 2
      /\ (b \div 4) % 2 = 1 <=> v(2, 4) = 4
      /\ (b \div 8) % 2 = 1 <=> v(3, 8) = 8
      /\ (b \div 16) % 2 = 1 <=> v(4, 16) = 16
      /\ (b \div 32) % 2 = 1 <=> v(5, 32) = 32
      /\ (b \div 64) % 2 = 1 <=> v(6, 64) = 64
      /\ (b \div 128) % 2 = 1 <=> v(7, 128) = 128
  BY <1>1
<1> HIDE DEF b
<1>4. /\ 2^0 = 1 /\ 2^1 = 2 /\ 2^2 = 4 /\ 2^3 = 8 /\ 2^4 = 16 /\ 2^5 = 32 /\ 2^6 = 64 /\ 2^7 = 128
  OBVIOUS
<1>5. /\ 0 \in Bits(b, 8) <=> b % 2 = 1
      /\ 1 \in Bits(b, 8) <=> (b \div 2) % 2 = 1
      /\ 2 \in Bits(b, 8) <=> (b \div 4) % 2 = 1
      /\ 3 \in Bits(b, 8) <=> (b \div 8) % 2 = 1
      /\ 4 \in Bits(b, 8) <=> (b \div 16) % 2 = 1
      /\ 5 \in Bits(b, 8) <=> (b \div 32) % 2 = 1
      /\ 6 \in Bits(b, 8) <=> (b \div 64) % 2 = 1
      /\ 7 \in Bits(b, 8) <=> (b \div 128) % 2 = 1
  <2>1. b \div 1 = b /\ b \in Int
    BY <1>3
  <2> QED
    BY <2>1, <1>4 DEF Bits
<1>6. ASSUME NEW k \in 0..7 PROVE k \in Bits(b, 8) <=> k \in S
  <2>1. /\ 0 \in Bits(b, 8) <=> 0 \in S
        /\ 1 \in Bits(b, 8) <=> 1 \in S
        /\ 2 \in Bits(b, 8) <=> 2 \in S
        /\ 3 \in Bits(b, 8) <=> 3 \in S
        /\ 4 \in Bits(b, 8) <=> 4 \in S
        /\ 5 \in Bits(b, 8) <=> 5 \in S
        /\ 6 \in Bits(b, 8) <=> 6 \in S
        /\ 7 \in Bits(b, 8) <=> 7 \in S
    BY <1>2, <1>3, <1>5
  <2>2. \/ k = 0 \/ k = 1 \/ k = 2 \/ k = 3 \/ k = 4 \/ k = 5 \/ k = 6 \/ k = 7
    OBVIOUS
  <2> QED
    BY <2>1, <2>2
<1>7. Bits(b, 8) = S
  BY <1>6, LowBits
<1> QED
  BY <1>3, <1>7

\* A message that is followed by the four bytes of C.
Seals(whole, message, C) ==
    /\ Len(whole) = Len(message) + 4
    /\ \A k \in 1..Len(message) : whole[k] = message[k]
    /\ \A k \in 1..4 : Bits(whole[Len(message) + k], 8) = ShiftRight(C, 8 * (k - 1)) \cap 0..7

\* A register that is followed by its own four bytes, inverted.
LEMMA SealedRegister ==
    ASSUME NEW P \in Registers, NEW message, Len(message) \in Nat, NEW f, RegisterOf(f, P, message),
           NEW C, C = Xor(f[Len(message)], Ones), NEW whole, Seals(whole, message, C),
           NEW h, RegisterOf(h, P, whole)
    PROVE  h[Len(whole)] = Turn8(P, Turn8(P, Turn8(P, Turn8(P, Ones))))
<1>0. /\ h \in [0..Len(whole) -> Registers] /\ h[0] = Ones
      /\ \A k \in 1..Len(whole) : h[k] = Turn8(P, Xor(h[k - 1], Bits(whole[k], 8)))
  BY RegisterSteps, Zenon
<1> SUFFICES
        ASSUME Len(whole) = Len(message) + 4,
               \A k \in 1..Len(message) : whole[k] = message[k],
               \A k \in 1..4 : Bits(whole[Len(message) + k], 8)
                              = ShiftRight(C, 8 * (k - 1)) \cap 0..7
        PROVE  h[Len(whole)] = Turn8(P, Turn8(P, Turn8(P, Turn8(P, Ones))))
  BY DEF Seals
<1> DEFINE n == Len(message)
<1>1. /\ f \in [0..n -> Registers] /\ f[0] = Ones
      /\ \A k \in 1..n : f[k] = Turn8(P, Xor(f[k - 1], Bits(message[k], 8)))
  BY RegisterSteps
<1>2. /\ h \in [0..(n + 4) -> Registers] /\ h[0] = Ones
      /\ \A k \in 1..(n + 4) : h[k] = Turn8(P, Xor(h[k - 1], Bits(whole[k], 8)))
  <2>1. Len(whole) = n + 4
    OBVIOUS
  <2> QED
    BY <1>0, <2>1
<1>3. h[n] = f[n]
  <2>1. ASSUME NEW k \in 1..n, h[k - 1] \in Registers PROVE h[k] = ByteTurn(P, message)[k][h[k - 1]]
    <3>1. k \in 1..(n + 4) /\ whole[k] = message[k]
      OBVIOUS
    <3>2. h[k] = Turn8(P, Xor(h[k - 1], Bits(message[k], 8)))
      BY <1>2, <3>1
    <3> QED
      BY <2>1, <3>2 DEF ByteTurn
  <2>2. \A k \in 0..n : h[k] = f[k]
    BY <1>2, <2>1, UpwardUnique DEF RegisterOf
  <2> QED
    BY <2>2
<1>4. f[n] \in Registers /\ Ones \in Registers
  <2>1. n \in 0..n
    OBVIOUS
  <2>2. Ones \in Registers
    BY DEF Ones, Registers
  <2> QED
    BY <1>1, <2>1, <2>2
<1>5. C \in Registers
  BY <1>4, XorAlgebra
<1>6. h[n] = Xor(Ones, ShiftRight(C, 0))
  <2>1. ShiftRight(C, 0) = C
    BY <1>5, ShiftFacts
  <2>2. Xor(Ones, Xor(f[n], Ones)) = f[n]
    BY DEF Xor
  <2> QED
    BY <1>3, <2>1, <2>2
<1>7. ASSUME NEW i \in 0..3, NEW x \in Registers, h[n + i] = Xor(x, ShiftRight(C, 8 * i))
      PROVE  h[n + (i + 1)] = Xor(Turn8(P, x), ShiftRight(C, 8 * (i + 1))) /\ Turn8(P, x) \in Registers
  <2> DEFINE y == ShiftRight(C, 8 * i)
             front == y \cap 0..7
             rest == y \ 0..7
  <2>1. /\ n + (i + 1) \in 1..(n + 4) /\ (n + (i + 1)) - 1 = n + i /\ i + 1 \in 1..4
        /\ 8 * ((i + 1) - 1) = 8 * i /\ 8 * i \in Nat /\ 8 * i + 8 = 8 * (i + 1)
    OBVIOUS
  <2>2. y \in Registers /\ ShiftRight(y, 8) = ShiftRight(C, 8 * (i + 1))
    <3> DEFINE m == 8 * i
    <3>1. m \in Nat /\ m + 8 = 8 * (i + 1) /\ y = ShiftRight(C, m)
      BY <2>1
    <3> HIDE DEF m, y
    <3>2. y \in Registers /\ ShiftRight(ShiftRight(C, m), 8) = ShiftRight(C, m + 8)
      BY <1>5, <3>1, ShiftFacts
    <3> QED
      BY <3>1, <3>2
  <2>3. Bits(whole[n + (i + 1)], 8) = front
    BY <2>1
  <2>4. h[n + (i + 1)] = Turn8(P, Xor(Xor(x, y), front))
    BY <1>2, <1>7, <2>1, <2>3
  <2>5. Xor(Xor(x, y), front) = Xor(x, rest)
    BY DEF Xor
  <2>6. rest \in Registers /\ rest \cap 0..7 = {} /\ ShiftRight(rest, 8) = ShiftRight(y, 8)
    <3>1. rest \in Registers /\ rest \cap 0..7 = {}
      BY <2>2 DEF Registers
    <3>2. ShiftRight(rest, 8) = ShiftRight(y, 8)
      <4>1. \A k \in y : k \in 0..31
        BY <2>2 DEF Registers
      <4> HIDE DEF y
      <4> QED
        BY <4>1 DEF ShiftRight
    <3> QED
      BY <3>1, <3>2
  <2> HIDE DEF y, front, rest
  <2>7. Turn8(P, rest) = ShiftRight(y, 8)
    BY <2>6, Turn8Shifts
  <2>8. Turn8(P, Xor(x, rest)) = Xor(Turn8(P, x), Turn8(P, rest)) /\ Turn8(P, x) \in Registers
    BY <2>6, Turn8Linear
  <2> QED
    BY <2>2, <2>4, <2>5, <2>7, <2>8
<1> DEFINE x1 == Turn8(P, Ones)
           x2 == Turn8(P, x1)
           x3 == Turn8(P, x2)
           x4 == Turn8(P, x3)
<1>8. n \in Nat /\ n + 0 = n /\ n + (0 + 1) = n + 1 /\ n + (1 + 1) = n + 2 /\ n + (2 + 1) = n + 3 /\ n + (3 + 1) = n + 4
  OBVIOUS
<1> HIDE DEF n, x1, x2, x3, x4
<1>9. h[n + 1] = Xor(x1, ShiftRight(C, 8)) /\ x1 \in Registers
  <2>1. h[n + 0] = Xor(Ones, ShiftRight(C, 8 * 0)) /\ 0 \in 0..3
    BY <1>6, <1>8
  <2>2. h[n + (0 + 1)] = Xor(Turn8(P, Ones), ShiftRight(C, 8 * (0 + 1))) /\ Turn8(P, Ones) \in Registers
    BY <1>4, <1>7, <2>1
  <2> QED
    BY <1>8, <2>2 DEF x1
<1>10. h[n + 2] = Xor(x2, ShiftRight(C, 16)) /\ x2 \in Registers
  <2>1. h[n + 1] = Xor(x1, ShiftRight(C, 8 * 1)) /\ 1 \in 0..3
    BY <1>9
  <2>2. h[n + (1 + 1)] = Xor(Turn8(P, x1), ShiftRight(C, 8 * (1 + 1))) /\ Turn8(P, x1) \in Registers
    BY <1>9, <1>7, <2>1
  <2> QED
    BY <1>8, <2>2 DEF x2
<1>11. h[n + 3] = Xor(x3, ShiftRight(C, 24)) /\ x3 \in Registers
  <2>1. h[n + 2] = Xor(x2, ShiftRight(C, 8 * 2)) /\ 2 \in 0..3
    BY <1>10
  <2>2. h[n + (2 + 1)] = Xor(Turn8(P, x2), ShiftRight(C, 8 * (2 + 1))) /\ Turn8(P, x2) \in Registers
    BY <1>10, <1>7, <2>1
  <2> QED
    BY <1>8, <2>2 DEF x3
<1>12. h[n + 4] = Xor(x4, ShiftRight(C, 32)) /\ x4 \in Registers
  <2>1. h[n + 3] = Xor(x3, ShiftRight(C, 8 * 3)) /\ 3 \in 0..3
    BY <1>11
  <2>2. h[n + (3 + 1)] = Xor(Turn8(P, x3), ShiftRight(C, 8 * (3 + 1))) /\ Turn8(P, x3) \in Registers
    BY <1>11, <1>7, <2>1
  <2> QED
    BY <1>8, <2>2 DEF x4
<1>13. ShiftRight(C, 32) = {}
  BY <1>5, ShiftFacts
<1>14. h[n + 4] = x4
  BY <1>12, <1>13, XorAlgebra
<1> QED
  BY <1>14 DEF n, x1, x2, x3, x4

-----------------------------------------------------------------------------
(* Checksums: what a receiver makes of one.                                *)

\* The bytes of a register are eight of its bits each.
LEMMA BytesOfFacts ==
    ASSUME NEW x \in Registers
    PROVE  /\ BytesOf(x) \in Seq(Byte) /\ Len(BytesOf(x)) = 4
           /\ \A k \in 1..4 : Bits(BytesOf(x)[k], 8) = ShiftRight(x, 8 * (k - 1)) \cap 0..7
<1> DEFINE part(k) == ShiftRight(x, 8 * (k - 1)) \cap 0..7
           byte(k) == CHOOSE b \in 0..255 : Bits(b, 8) = part(k)
<1>1. ASSUME NEW k \in 1..4 PROVE byte(k) \in 0..255 /\ Bits(byte(k), 8) = part(k)
  <2>1. part(k) \in SUBSET (0..7)
    OBVIOUS
  <2> HIDE DEF part
  <2>2. \E b \in 0..255 : Bits(b, 8) = part(k)
    BY <2>1, ByteOfBits
  <2> QED
    BY <2>2
<1>2. BytesOf(x) = [k \in 1..4 |-> byte(k)]
  BY DEF BytesOf
<1> HIDE DEF byte, part
<1>3. BytesOf(x) \in [1..4 -> Byte]
  BY <1>1, <1>2 DEF Byte
<1>4. BytesOf(x) \in Seq(Byte) /\ Len(BytesOf(x)) = 4
  <2>1. 4 \in Nat
    OBVIOUS
  <2> QED
    BY <1>3, <2>1, FunctionIsSeq
<1>5. \A k \in 1..4 : Bits(BytesOf(x)[k], 8) = part(k)
  BY <1>1, <1>2
<1> QED
  BY <1>4, <1>5 DEF part

\* A sealed message is the message and those four bytes.
LEMMA SealedFacts ==
    ASSUME NEW message \in Seq(Byte), NEW x \in Registers
    PROVE  Seals(Sealed(message, x), message, x)
<1> DEFINE n == Len(message)
           tail == BytesOf(x)
           whole == Sealed(message, x)
<1>1. whole = message \o tail
  BY DEF Sealed, vsc_write, Stored, native_to
<1>2. tail \in Seq(Byte) /\ Len(tail) = 4
  BY BytesOfFacts
<1>3. \A k \in 1..4 : Bits(tail[k], 8) = ShiftRight(x, 8 * (k - 1)) \cap 0..7
  BY BytesOfFacts
<1> HIDE DEF tail, whole
<1>4. /\ Len(whole) = n + 4 /\ n \in Nat
      /\ \A k \in 1..(n + 4) : whole[k] = IF k <= n THEN message[k] ELSE tail[k - n]
  <2>1. /\ Len(message \o tail) = Len(message) + Len(tail)
        /\ \A k \in 1..(Len(message) + Len(tail)) :
               (message \o tail)[k]
               = IF k <= Len(message) THEN message[k] ELSE tail[k - Len(message)]
    BY <1>2, ConcatProperties
  <2>2. n \in Nat
    OBVIOUS
  <2> QED
    BY <1>1, <1>2, <2>1, <2>2
<1> HIDE DEF n
<1>5. \A k \in 1..n : whole[k] = message[k]
  <2>1. \A k \in 1..n : k \in 1..(n + 4) /\ k <= n
    BY <1>4
  <2> QED
    BY <1>4, <2>1
<1>6. \A k \in 1..4 : whole[n + k] = tail[k]
  <2>1. \A k \in 1..4 : n + k \in 1..(n + 4) /\ ~(n + k <= n) /\ (n + k) - n = k
    BY <1>4
  <2> QED
    BY <1>4, <2>1
<1> QED
  BY <1>3, <1>4, <1>5, <1>6 DEF whole, n, Seals

\* What a table of eight turns sums up is the remainder; and whoever sums up a message
\* with its checksum behind it gets four bytes' turns of the register's first value.
LEMMA SealedChecks ==
    ASSUME NEW poly, Reflect(poly) \in Registers, NEW table, LooksUp(table, Reflect(poly)),
           NEW message \in Seq(Byte)
    PROVE  LET P == Reflect(poly)
               crc == crc32x(message, table)
           IN  /\ crc = Remainder(message, poly)
               /\ Xor(crc32x(Sealed(message, crc), table), Ones)
                  = Turn8(P, Turn8(P, Turn8(P, Turn8(P, Ones))))
<1> DEFINE P == Reflect(poly)
           crc == crc32x(message, table)
           whole == Sealed(message, crc)
<1>1. Len(message) \in Nat
  OBVIOUS
<1>2. PICK f : RegisterOf(f, P, message)
  BY <1>1, RegisterExists
<1>3. crc = Xor(f[Len(message)], Ones)
  BY <1>1, <1>2, Crc32xIs
<1>4. Remainder(message, poly) = Xor(f[Len(message)], Ones)
  BY <1>1, <1>2, RemainderIs
<1>5. crc \in Registers
  <2>1. Len(message) \in 0..Len(message) /\ f \in [0..Len(message) -> Registers]
    BY <1>1, <1>2, RegisterSteps
  <2>2. f[Len(message)] \in Registers /\ Ones \in Registers
    BY <2>1 DEF Ones, Registers
  <2> QED
    BY <1>3, <2>2, XorAlgebra
<1> HIDE DEF P, crc
<1>6. Seals(whole, message, crc)
  BY <1>5, SealedFacts
<1> HIDE DEF whole
<1>7. Len(whole) \in Nat /\ P \in Registers
  BY <1>1, <1>6 DEF P, Seals
<1>8. PICK h : RegisterOf(h, P, whole)
  BY <1>7, RegisterExists
<1>9. h[Len(whole)] = Turn8(P, Turn8(P, Turn8(P, Turn8(P, Ones))))
  BY <1>1, <1>2, <1>3, <1>6, <1>7, <1>8, SealedRegister
<1>10. crc32x(whole, table) = Xor(h[Len(whole)], Ones)
  BY <1>7, <1>8, Crc32xIs DEF P
<1>11. Xor(Xor(h[Len(whole)], Ones), Ones) = h[Len(whole)]
  BY DEF Xor
<1>12. Xor(crc32x(whole, table), Ones) = Turn8(P, Turn8(P, Turn8(P, Turn8(P, Ones))))
  BY <1>9, <1>10, <1>11
<1> QED
  BY <1>3, <1>4, <1>12 DEF P, crc, whole

\* Both tables hold eight turns by their polynomials (crc32.c:169-186).
LEMMA TablesTurn ==
    /\ Reflect(POLY_ISO_HDLC) \in Registers /\ LooksUp(crc32_tab, Reflect(POLY_ISO_HDLC))
    /\ Reflect(POLY_ISCSI) \in Registers /\ LooksUp(crc32c_tab, Reflect(POLY_ISCSI))
<1>1. /\ IsoRows[8] \in Registers /\ \A k \in 0..7 : IsoRows[k + 1] = Turn8(IsoRows[8], {k})
  BY IsoTurns, RowsOfBits
<1>2. LooksUp(crc32_tab, IsoRows[8])
  BY <1>1, IsoRowsAre, TableIsTurn8 DEF LooksUp
<1>3. /\ IscsiRows[8] \in Registers /\ \A k \in 0..7 : IscsiRows[k + 1] = Turn8(IscsiRows[8], {k})
  BY IscsiTurns, RowsOfBits
<1>4. LooksUp(crc32c_tab, IscsiRows[8])
  BY <1>3, IscsiRowsAre, TableIsTurn8 DEF LooksUp
<1> QED
  BY <1>1, <1>2, <1>3, <1>4, IsoTurns, IscsiTurns

LEMMA ChecksumsNow == ASSUME Checksum PROVE ChecksumsCheck'
<1>1. PICK m \in Messages :
          Returns([name |-> "crc", buf |-> m], [crc32 |-> vsc_crc32(m), crc32c |-> vsc_crc32c(m)])
  BY Zenon DEF Checksum
<1>2. call'.buf = m /\ out'.crc32 = vsc_crc32(m) /\ out'.crc32c = vsc_crc32c(m)
  BY <1>1 DEF Returns
<1>3. m \in Seq(Byte)
  BY CallsAssumption
<1>4. \A k \in 0..7 : IsoRows[k + 1] = Turn8(IsoRows[8], {k})
  BY IsoTurns, RowsOfBits
<1>5. \A k \in 0..7 : IscsiRows[k + 1] = Turn8(IscsiRows[8], {k})
  BY IscsiTurns, RowsOfBits
<1>6. /\ vsc_crc32(m) = Remainder(m, POLY_ISO_HDLC)
      /\ Xor(vsc_crc32(Sealed(m, vsc_crc32(m))), Ones) = RESIDUE_ISO_HDLC
  BY <1>3, <1>4, TablesTurn, SealedChecks, IsoTurns, IsoResidue DEF vsc_crc32
<1>7. /\ vsc_crc32c(m) = Remainder(m, POLY_ISCSI)
      /\ Xor(vsc_crc32c(Sealed(m, vsc_crc32c(m))), Ones) = RESIDUE_ISCSI
  BY <1>3, <1>5, TablesTurn, SealedChecks, IscsiTurns, IscsiResidue DEF vsc_crc32c
<1> QED
  BY <1>2, <1>6, <1>7 DEF ChecksumsCheck
-----------------------------------------------------------------------------
(* The program                                                             *)

LEMMA CallsInit == Init => CallsInv
<1> SUFFICES ASSUME Init PROVE CallsInv
  OBVIOUS
<1>1. ResultInv
  BY NothingAnswered DEF Init, Is
<1> QED
  BY <1>1, GroupsInitially, PathInitially, SearchInitially DEF Init, CallsInv

LEMMA GroupStepsKeep ==
    ASSUME CallsInv, EnumGroups \/ EnumGroupsStep \/ EnumGroupsEarly \/ GroupsElsewhere
    PROVE  CallsInv'
<1>1. CASE EnumGroups
  <2>1. pc = "idle" /\ UNCHANGED pathVars
    BY <1>1 DEF EnumGroups, Enters
  <2>2. \/ pc' = "groups" /\ GroupsBegin
        \/ GroupsReturn("setgrent") /\ UNCHANGED groupVars
    BY <1>1 DEF EnumGroups, Enters
  <2>3. pc' = "groups" \/ (pc' = "done" /\ call'.name = "groups")
    BY <2>2 DEF GroupsReturn, Returns
  <2>4. GroupsInv'
    BY <2>1, <2>2, BeginKeeps, NoBeginKeeps DEF CallsInv
  <2> QED
    BY <2>1, <2>3, <2>4, PathKept, SearchKept, OtherAnswer DEF CallsInv
<1>2. CASE EnumGroupsStep
  <2>1. pc = "groups" /\ UNCHANGED pathVars
    BY <1>2 DEF EnumGroupsStep
  <2>2. \/ (DoesNotFit \/ Entry) /\ pc' = pc
        \/ cursor = Len(db) /\ Finish /\ GroupsReturn("ok")
    BY <1>2 DEF EnumGroupsStep, NoMoreEntries
  <2>3. pc' = "groups" \/ (pc' = "done" /\ call'.name = "groups")
    BY <2>1, <2>2 DEF GroupsReturn, Returns
  <2>4. GroupsInv'
    BY <2>1, <2>2, DoesNotFitKeeps, EntryKeeps, FinishKeeps DEF CallsInv
  <2> QED
    BY <2>1, <2>3, <2>4, PathKept, SearchKept, OtherAnswer DEF CallsInv
<1>3. CASE EnumGroupsEarly
  <2>1. pc = "groups" /\ UNCHANGED pathVars
    BY <1>3 DEF EnumGroupsEarly
  <2>2. \/ EntryStops /\ GroupsReturn("stopped")
        \/ Finish /\ GroupsReturn("ENOMEM")
        \/ Finish /\ GroupsReturn("getgrent")
    BY <1>3 DEF EnumGroupsEarly, NoMemory
  <2>3. pc' = "done" /\ call'.name = "groups"
    BY <2>2 DEF GroupsReturn, Returns
  <2>4. GroupsInv'
    BY <2>1, <2>2, EntryStopsKeeps, FinishKeeps DEF CallsInv
  <2> QED
    BY <2>1, <2>3, <2>4, PathKept, SearchKept, OtherAnswer DEF CallsInv
<1>4. CASE GroupsElsewhere
  <2>1. pc = "groups" /\ UNCHANGED pathVars /\ OtherUse /\ pc' = pc
    BY <1>4 DEF GroupsElsewhere
  <2> QED
    BY <2>1, OtherUseKeeps, PathKept, SearchKept, OtherAnswer DEF CallsInv
<1> QED
  BY <1>1, <1>2, <1>3, <1>4

LEMMA PathStepsKeep ==
    ASSUME CallsInv, SearchPath \/ SearchPathStep
    PROVE  CallsInv'
<1>1. CASE SearchPath
  <2>1. pc = "idle" /\ UNCHANGED groupVars
    BY <1>1 DEF SearchPath, Enters
  <2>2. \/ pc' = "path" /\ PathBegin
        \/ NoPath /\ PathReturn("EINVAL", 0)
        \/ UNCHANGED pathVars /\ PathReturn("ENOMEM", 0)
    BY <1>1 DEF SearchPath, Enters
  <2>3. pc' = "path" \/ (pc' = "done" /\ call'.name = "path")
    BY <2>2 DEF PathReturn, Returns
  <2>4. PathInv'
    BY <2>1, <2>2, PathBeginKeeps, NoPathKeeps DEF CallsInv
  <2>5. SearchInv'
    BY <2>1, <2>2, <2>4, SearchBeginKeeps, NoSearchKeeps DEF CallsInv
  <2> QED
    BY <2>1, <2>3, <2>4, <2>5, GroupsKept, OtherAnswer DEF CallsInv
<1>2. CASE SearchPathStep
  <2>1. pc = "path" /\ UNCHANGED groupVars
    BY <1>2 DEF SearchPathStep
  <2>2. \/ \E f \in Files : NotHere(f) /\ pc' = pc
        \/ \E f \in Files : Here(f) /\ PathReturn("ok", Len(Dir) + flen)
        \/ Nowhere /\ PathReturn("ENOENT", 0)
    BY <1>2 DEF SearchPathStep
  <2>3. pc' = "path" \/ (pc' = "done" /\ call'.name = "path")
    BY <2>1, <2>2 DEF PathReturn, Returns
  <2>4. PathInv'
    BY <2>1, <2>2, NotHereKeeps, HereKeeps, NowhereKeeps DEF CallsInv
  <2>5. SearchInv'
    BY <2>1, <2>2, SearchOnKeeps, SearchFindsKeeps, SearchEndsKeeps DEF CallsInv
  <2> QED
    BY <2>1, <2>3, <2>4, <2>5, GroupsKept, OtherAnswer DEF CallsInv
<1> QED
  BY <1>1, <1>2

\* vsc_hash and the steps of a hash.
Hashing == Hash \/ HashStripe \/ HashMultiply \/ HashLoad

LEMMA NamesOfHashes ==
    /\ Hash => pc' = "done" /\ call'.name = "hash"
    /\ HashStripe => pc' = "done" /\ call'.name = "stripe"
    /\ HashMultiply => pc' = "done" /\ call'.name = "multiply"
    /\ HashLoad => pc' = "done" /\ call'.name = "load"
<1>1. ASSUME Hash PROVE pc' = "done" /\ call'.name = "hash"
  <2>1. PICK size \in HashSizes, null \in BOOLEAN, build \in Builds :
            pc' = "done" /\ call' = [name |-> "hash", null |-> null, size |-> size, build |-> build]
    BY <1>1, Zenon DEF Hash, Returns
  <2> QED
    BY <2>1
<1>2. ASSUME HashStripe PROVE pc' = "done" /\ call'.name = "stripe"
  <2>1. PICK s \in Stripes : pc' = "done" /\ call' = [name |-> "stripe", stripe |-> s]
    BY <1>2, Zenon DEF HashStripe, Returns
  <2> QED
    BY <2>1
<1>3. ASSUME HashMultiply PROVE pc' = "done" /\ call'.name = "multiply"
  <2>1. PICK x, y \in Factors : pc' = "done" /\ call' = [name |-> "multiply", lhs |-> x, rhs |-> y]
    BY <1>3, Zenon DEF HashMultiply, Returns
  <2> QED
    BY <2>1
<1>4. ASSUME HashLoad PROVE pc' = "done" /\ call'.name = "load"
  <2>1. PICK bytes \in Loads : pc' = "done" /\ call' = [name |-> "load", bytes |-> bytes]
    BY <1>4, Zenon DEF HashLoad, Returns
  <2> QED
    BY <2>1
<1> QED
  BY <1>1, <1>2, <1>3, <1>4

\* The calls whose answers are no concern of the invariant.
LEMMA NamesOfOthers ==
    ASSUME \/ Split \/ Join \/ NoStringMemory \/ UuidFormat \/ WavWrite \/ Checksum \/ Exchange
           \/ Hashing
    PROVE  /\ pc' = "done"
           /\ call'.name \notin {"groups", "path", "printf", "fnullify", "parse", "pixel"}
<1>1. CASE Split \/ Join
  BY <1>1 DEF Split, Join, Returns
<1>2. CASE NoStringMemory
  BY <1>2 DEF NoStringMemory, Returns
<1>3. CASE WavWrite \/ Checksum
  BY <1>3 DEF WavWrite, Checksum, Returns
<1>4. CASE Exchange
  BY <1>4 DEF Exchange, Returns
<1>5. CASE UuidFormat
  <2>1. \E u \in Uuids, flags \in Formats :
            call' = [name |-> "format", uuid |-> u, flags |-> flags] /\ pc' = "done"
    BY <1>5, Zenon DEF UuidFormat, Returns
  <2> QED
    BY <2>1
<1>6. CASE Hashing
  BY <1>6, NamesOfHashes DEF Hashing
<1> QED
  BY <1>1, <1>2, <1>3, <1>4, <1>5, <1>6

LEMMA OneStepKeeps == ASSUME CallsInv, OneStep PROVE CallsInv'
<1>1. pc = "idle" /\ UNCHANGED <<groupVars, pathVars>>
  BY DEF OneStep
<1>2. pc' = "done" /\ call'.name \notin {"groups", "path"}
  <2>1. CASE \/ Split \/ Join \/ NoStringMemory \/ UuidFormat \/ WavWrite \/ Checksum \/ Exchange
             \/ Hashing
    BY <2>1, NamesOfOthers
  <2>2. CASE Printf \/ UuidParse \/ Repack \/ Fnullify
    BY <2>2 DEF Printf, UuidParse, Repack, Fnullify, Returns
  <2> QED
    BY <2>1, <2>2 DEF OneStep, Hashing
<1>3. ResultInv'
  <2>1. CASE Printf
    BY <2>1, PrintfHasRoom
  <2>2. CASE Fnullify
    BY <2>2, FnullifyLeavesOne
  <2>3. CASE UuidParse
    BY <2>3, UuidParseTypes
  <2>4. CASE Repack
    BY <2>4, RepackTypes
  <2>5. CASE \/ Split \/ Join \/ NoStringMemory \/ UuidFormat \/ WavWrite \/ Checksum \/ Exchange
             \/ Hashing
    BY <2>5, NamesOfOthers, OtherAnswer
  <2> QED
    BY <2>1, <2>2, <2>3, <2>4, <2>5 DEF OneStep, Hashing
<1> QED
  BY <1>1, <1>2, <1>3, GroupsKept, PathKept, SearchKept DEF CallsInv

LEMMA CallsNext == CallsInv /\ [Next]_vars => CallsInv'
<1> SUFFICES ASSUME CallsInv, [Next]_vars PROVE CallsInv'
  OBVIOUS
<1>1. CASE Done
  <2>1. GroupsInv' /\ PathInv' /\ SearchInv' /\ pc' = "idle"
    BY <1>1, GroupsAfterReset, PathAfterReset, SearchAfterReset DEF Done
  <2> QED
    BY <2>1, OtherAnswer DEF CallsInv
<1>2. CASE UNCHANGED vars
  <2>1. UNCHANGED <<groupVars, pathVars, pc, call, out>>
    BY <1>2 DEF vars
  <2>2. GroupsInv' = GroupsInv
    BY <2>1 DEF groupVars, GroupsInv, GroupsType, InGroups, GroupsRest, EachGroupOnce, InOrder,
       CalledUpTo, UsersGroup, Is
  <2>3. PathInv' = PathInv
    BY <2>1 DEF pathVars, PathInv, PathType, InPath, PathRest, PathLeft, Is
  <2>4. ResultInv' = ResultInv
    BY <2>1 DEF ResultInv, PrintfLeft, FnullifyLeft, ParseType, PixelType, Is
  <2>5. SearchInv' = SearchInv
    BY <2>1 DEF pathVars, SearchInv, InSearch, SeenFirst, FirstExecutable, NameIsWhole, Is
  <2> QED
    BY <2>1, <2>2, <2>3, <2>4, <2>5 DEF CallsInv
<1> QED
  BY <1>1, <1>2, GroupStepsKeep, PathStepsKeep, OneStepKeeps DEF Next

\* The invariant of all calls.
THEOREM CallsInductive == Spec => []CallsInv
<1> QED
  BY CallsInit, CallsNext, PTL DEF Spec

\* The types of the loops' variables and of what is parsed and unpacked.
THEOREM CallsTypes == Spec => []TypeOK
<1>1. CallsInv => TypeOK
  BY DEF CallsInv, GroupsInv, PathInv, ResultInv, ParseType, PixelType, TypeOK
<1> QED
  BY <1>1, CallsInductive, PTL

\* vsc_enum_groups calls proc once for each group of the user (enum_groups.c:77).
THEOREM GroupsAreCalledOnce == Spec => []EachGroupOnce
<1>1. CallsInv => EachGroupOnce
  BY DEF CallsInv, GroupsInv
<1> QED
  BY <1>1, CallsInductive, PTL

\* No call leaves a buffer, an iterator or a descriptor but the one of fnullify.c:40.
THEOREM CallsLeaveNothing == Spec => []NothingLeft
<1>1. CallsInv => NothingLeft
  BY DEF CallsInv, GroupsInv, GroupsRest, PathInv, PathLeft, ResultInv, PrintfLeft, FnullifyLeft,
         NothingLeft, Is
<1> QED
  BY <1>1, CallsInductive, PTL

\* vsc_searchpath asks for the file in the directories of PATH in order and by its whole
\* name, and ends at the first one statfile accepts: regular, with an execute bit for a
\* class the user is in (searchpath.c:47).
THEOREM SearchesInOrder == Spec => []FirstExecutable
<1>1. CallsInv => FirstExecutable
  BY DEF CallsInv, SearchInv
<1> QED
  BY <1>1, CallsInductive, PTL

\* The name it returns is that candidate's, whole, inside the one buffer all of them were
\* written to, whatever was there before (searchpath.c:110-114).
THEOREM CandidatesAreWhole == Spec => []NameIsWhole
<1>1. CallsInv => NameIsWhole
  BY DEF CallsInv, SearchInv
<1> QED
  BY <1>1, CallsInductive, PTL

\* The answer of a call is that of the step which made it.
LEMMA NamesOfCalls ==
    ASSUME Next, pc' = "done"
    PROVE  /\ call'.name = "split" => Split
           /\ call'.name = "join" => Join
           /\ call'.name = "pixel" => Repack
           /\ call'.name = "wav" => WavWrite
           /\ call'.name = "bytes" => Exchange
           /\ call'.name = "format" => UuidFormat
           /\ call'.name = "parse" => UuidParse
           /\ call'.name = "hash" => Hash
           /\ call'.name = "stripe" => HashStripe
           /\ call'.name = "multiply" => HashMultiply
           /\ call'.name = "load" => HashLoad
           /\ call'.name = "crc" => Checksum
<1> DEFINE Named(name) == call'.name = name
<1>1. EnumGroups \/ EnumGroupsStep \/ EnumGroupsEarly \/ GroupsElsewhere => Named("groups")
  BY DEF EnumGroups, EnumGroupsStep, EnumGroupsEarly, GroupsElsewhere, Enters, GroupsReturn, Returns
<1>2. SearchPath \/ SearchPathStep => Named("path")
  BY DEF SearchPath, SearchPathStep, Enters, PathReturn, Returns
<1>3. ~Done
  BY DEF Done
<1>4. (Split => Named("split") \/ Named("reversed")) /\ (Join => Named("join"))
  BY DEF Split, Join, Returns
<1>5. (NoStringMemory => Named("nomemory")) /\ (Checksum => Named("crc"))
  BY DEF NoStringMemory, Checksum, Returns
<1>6. (Printf => Named("printf")) /\ (UuidParse => Named("parse"))
  BY DEF Printf, UuidParse, Returns
<1>7. UuidFormat => Named("format")
  <2>1. UuidFormat => \E u \in Uuids, flags \in Formats :
                          call' = [name |-> "format", uuid |-> u, flags |-> flags]
    BY Zenon DEF UuidFormat, Returns
  <2> QED
    BY <2>1
<1>8. (Repack => Named("pixel")) /\ (Fnullify => Named("fnullify"))
  BY DEF Repack, Fnullify, Returns
<1>9. (WavWrite => Named("wav")) /\ (Exchange => Named("bytes"))
  BY DEF WavWrite, Exchange, Returns
<1>10. \/ EnumGroups \/ EnumGroupsStep \/ EnumGroupsEarly \/ GroupsElsewhere
       \/ SearchPath \/ SearchPathStep
       \/ Split \/ Join \/ Printf \/ NoStringMemory \/ UuidParse \/ UuidFormat \/ Repack
       \/ WavWrite \/ Fnullify \/ Checksum \/ Exchange
       \/ Hash \/ HashStripe \/ HashMultiply \/ HashLoad
  BY <1>3 DEF Next, OneStep
<1> QED
  BY <1>1, <1>2, <1>4, <1>5, <1>6, <1>7, <1>8, <1>9, <1>10, NamesOfHashes

\* What vsc_for_each_delim splits is joined again by vsc_strnjoin, and the joins fill the
\* buffers they measured.
THEOREM SplitsAndJoins == Spec => []JoinUndoesSplit
<1>1. Init => JoinUndoesSplit
  BY DEF Init, JoinUndoesSplit, Is
<1>2. JoinUndoesSplit /\ [Next]_vars => JoinUndoesSplit'
  <2> SUFFICES ASSUME JoinUndoesSplit, [Next]_vars PROVE JoinUndoesSplit'
    OBVIOUS
  <2>1. CASE UNCHANGED vars
    BY <2>1 DEF vars, JoinUndoesSplit, Is
  <2>2. CASE Split
    BY <2>2, SplitUndone
  <2>3. CASE Join
    BY <2>3, JoinFills
  <2>4. CASE Next /\ ~Split /\ ~Join
    <3>1. ~Is("split")' /\ ~Is("join")'
      BY <2>4, NamesOfCalls DEF Is
    <3> QED
      BY <3>1 DEF JoinUndoesSplit
  <2> QED
    BY <2>1, <2>2, <2>3, <2>4
<1> QED
  BY <1>1, <1>2, PTL DEF Spec

\* A formatted UUID fits its buffer and parses to itself, whatever the format (uuid.c),
\* and what parses is a formatted UUID but for the case of its letters.
THEOREM UuidsAreReadBack == Spec => []UuidsReadBack
<1>1. Init => UuidsReadBack
  BY DEF Init, UuidsReadBack, Is
<1>2. UuidsReadBack /\ [Next]_vars => UuidsReadBack'
  <2> SUFFICES ASSUME UuidsReadBack, [Next]_vars PROVE UuidsReadBack'
    OBVIOUS
  <2>1. CASE UNCHANGED vars
    BY <2>1 DEF vars, UuidsReadBack, Is
  <2>2. CASE UuidFormat
    BY <2>2, FormatReadsBackNow
  <2>3. CASE UuidParse
    BY <2>3, ParseReadsBackNow
  <2>4. CASE Next /\ ~UuidFormat /\ ~UuidParse
    <3>1. ~Is("format")' /\ ~Is("parse")'
      BY <2>4, NamesOfCalls DEF Is
    <3> QED
      BY <3>1 DEF UuidsReadBack
  <2> QED
    BY <2>1, <2>2, <2>3, <2>4
<1> QED
  BY <1>1, <1>2, PTL DEF Spec

\* A pixel packs back to itself (colour.c), a WAV file that was written has the sizes its
\* header says (wav.c) and an integer reads as it was written on any machine (io.h).
THEOREM NumbersAreReadBack == Spec => []NumbersReadBack
<1>1. Init => NumbersReadBack
  BY DEF Init, NumbersReadBack, PixelsReadBack, WavsReadBack, IntegersReadBack, Is
<1>2. NumbersReadBack /\ [Next]_vars => NumbersReadBack'
  <2> SUFFICES ASSUME NumbersReadBack, [Next]_vars PROVE NumbersReadBack'
    OBVIOUS
  <2>1. CASE UNCHANGED vars
    BY <2>1 DEF vars, NumbersReadBack, PixelsReadBack, WavsReadBack, IntegersReadBack, Is
  <2>2. CASE Next
    <3>1. PixelsReadBack'
      <4>1. CASE Repack
        BY <4>1, PixelsReadBackNow
      <4>2. CASE ~Repack
        BY <2>2, <4>2, NamesOfCalls DEF PixelsReadBack, Is
      <4> QED
        BY <4>1, <4>2
    <3>2. WavsReadBack'
      <4>1. CASE WavWrite
        BY <4>1, WavsReadBackNow
      <4>2. CASE ~WavWrite
        BY <2>2, <4>2, NamesOfCalls DEF WavsReadBack, Is
      <4> QED
        BY <4>1, <4>2
    <3>3. IntegersReadBack'
      <4>1. CASE Exchange
        BY <4>1, IntegersReadBackNow
      <4>2. CASE ~Exchange
        BY <2>2, <4>2, NamesOfCalls DEF IntegersReadBack, Is
      <4> QED
        BY <4>1, <4>2
    <3> QED
      BY <3>1, <3>2, <3>3 DEF NumbersReadBack
  <2> QED
    BY <2>1, <2>2
<1> QED
  BY <1>1, <1>2, PTL DEF Spec

\* vsc_hash reads all of its input and nothing else, for every size and in every build
\* (xxhash.h:4849).
THEOREM HashesReadTheirInput == Spec => []HashReadsItsInput
<1>1. Init => HashReadsItsInput
  BY DEF Init, HashReadsItsInput, Is
<1>2. HashReadsItsInput /\ [Next]_vars => HashReadsItsInput'
  <2> SUFFICES ASSUME HashReadsItsInput, [Next]_vars PROVE HashReadsItsInput'
    OBVIOUS
  <2>1. CASE UNCHANGED vars
    BY <2>1 DEF vars, HashReadsItsInput, Is
  <2>2. CASE Hash
    BY <2>2, HashReadsNow
  <2>3. CASE Next /\ ~Hash
    <3>1. ~Is("hash")'
      BY <2>3, NamesOfCalls DEF Is
    <3> QED
      BY <3>1 DEF HashReadsItsInput
  <2> QED
    BY <2>1, <2>2, <2>3
<1> QED
  BY <1>1, <1>2, PTL DEF Spec

\* All builds for machines of one word size make the same hash: for size or for speed,
\* with every vector unit, multiplication and way of loading (xxhash.h:4787).
THEOREM BuildsAgree == Spec => []BuildsHashAlike
<1>1. Init => BuildsHashAlike
  BY DEF Init, BuildsHashAlike, Is
<1>2. BuildsHashAlike /\ [Next]_vars => BuildsHashAlike'
  <2> SUFFICES ASSUME BuildsHashAlike, [Next]_vars PROVE BuildsHashAlike'
    OBVIOUS
  <2>1. CASE UNCHANGED vars
    BY <2>1 DEF vars, BuildsHashAlike, Is
  <2>2. CASE Hash
    BY <2>2, HashesAlikeNow
  <2>3. CASE HashStripe
    BY <2>3, StripesAlikeNow
  <2>4. CASE HashMultiply
    BY <2>4, ProductsExactNow
  <2>5. CASE HashLoad
    BY <2>5, LoadsAlikeNow
  <2>6. CASE Next /\ ~Hash /\ ~HashStripe /\ ~HashMultiply /\ ~HashLoad
    <3>1. ~Is("hash")' /\ ~Is("stripe")' /\ ~Is("multiply")' /\ ~Is("load")'
      BY <2>6, NamesOfCalls DEF Is
    <3> QED
      BY <3>1 DEF BuildsHashAlike
  <2> QED
    BY <2>1, <2>2, <2>3, <2>4, <2>5, <2>6
<1> QED
  BY <1>1, <1>2, PTL DEF Spec

\* A checksum is the remainder of its polynomial, and a message with its checksum behind
\* it has the residue, whatever the message (crc32.c:169-186).
THEOREM ChecksumsAreRemainders == Spec => []ChecksumsCheck
<1>1. Init => ChecksumsCheck
  BY DEF Init, ChecksumsCheck, Is
<1>2. ChecksumsCheck /\ [Next]_vars => ChecksumsCheck'
  <2> SUFFICES ASSUME ChecksumsCheck, [Next]_vars PROVE ChecksumsCheck'
    OBVIOUS
  <2>1. CASE UNCHANGED vars
    BY <2>1 DEF vars, ChecksumsCheck, Is
  <2>2. CASE Checksum
    BY <2>2, ChecksumsNow
  <2>3. CASE Next /\ ~Checksum
    <3>1. ~Is("crc")'
      BY <2>3, NamesOfCalls DEF Is
    <3> QED
      BY <3>1 DEF ChecksumsCheck
  <2> QED
    BY <2>1, <2>2, <2>3
<1> QED
  BY <1>1, <1>2, PTL DEF Spec

\* So whatever one of the calls wrote, packed or summed up reads back or checks.
THEOREM FormatsAreReadBack == Spec => []FormatsReadBack
<1>1. UuidsReadBack /\ NumbersReadBack /\ ChecksumsCheck => FormatsReadBack
  BY DEF FormatsReadBack
<1> QED
  BY <1>1, UuidsAreReadBack, NumbersAreReadBack, ChecksumsAreRemainders, PTL
=============================================================================
