-------------------------- MODULE VscReaders_proofs --------------------------
(***************************************************************************)
(* Lines and whole streams are read right: for every file, kind of stream, *)
(* buffer, block size, size_t and interference.                            *)
(***************************************************************************)
EXTENDS VscReaders, SequenceTheorems, WellFoundedInduction, TLAPS

(* The inductive invariant: in each place of a call, what its buffer and the *)
(* position say of the bytes taken so far.                                   *)

InLine ==
    pc = "getdelim" =>
        /\ lineptr = "live" /\ ret = None /\ buf = taken
        /\ buf # <<>> => Len(buf) < n
        /\ \A k \in 1..Len(taken) : taken[k] # Delimiter

InLoop ==
    pc \in {"loop", "fread"} =>
        /\ ret = None /\ buf = <<>>
        /\ p.data = taken /\ Len(taken) = bytes_read
        /\ p.room > 0 => p.room = file_size /\ bytes_read <= p.room
        /\ p.room = 0 => bytes_read = 0
        /\ pc = "fread" => p.room > 0

\* What a call of vsc_freadalla_ex has taken is the file from where it started, and at
\* the end it is all of it.
InFile ==
    pc \in {"loop", "fread"} /\ ~changed =>
        /\ taken = SubSeq(file, start + 1, pos)
        /\ pos <= Len(file) \/ taken = <<>>
        /\ eof => pos >= Len(file)

\* The end of a stream without a position is final.
EndStays == kind \in {"pipe", "cookie"} /\ eof => writes = 0 /\ pos >= Len(file)

NotIdle == pc # "idle" => ret = None /\ pos = start + Len(taken)
Buffers == Len(buf) <= n /\ (lineptr = "dangling" => n = 0) /\ (lineptr = "NULL" => buf = <<>>)
NoLoop == pc \notin {"loop", "fread"} => p = NoBytes

ReadersInv ==
    /\ TypeOK /\ InLine /\ InLoop /\ InFile /\ EndStays /\ NotIdle /\ Buffers /\ NoLoop
    /\ PositionAccounts /\ LineComplete /\ FailureLosesOneByte /\ AllRead
-----------------------------------------------------------------------------
(* Sequences and arithmetic                                                *)

LEMMA Part ==
    ASSUME NEW S, NEW s \in Seq(S), NEW a \in Nat, NEW b \in Nat, b <= Len(s)
    PROVE  SubSeq(s, a + 1, b) \in Seq(S)
<1>1. \A i \in (a + 1)..b : s[i] \in S
  BY ElementOfSeq
<1> QED BY <1>1, SubSeqProperties

LEMMA OnePiece ==
    ASSUME NEW S, NEW s \in Seq(S), NEW a \in Nat, a + 1 <= Len(s)
    PROVE  SubSeq(s, a + 1, a + 1) = <<s[a + 1]>> /\ s[a + 1] \in S
<1> DEFINE x == SubSeq(s, a + 1, a + 1)
           y == <<s[a + 1]>>
<1>1. s[a + 1] \in S
  BY ElementOfSeq
<1>2. x \in Seq(S) /\ y \in Seq(S) /\ Len(y) = 1 /\ y[1] = s[a + 1]
  BY <1>1, Part
<1>3. Len(x) = 1 /\ x[1] = s[a + 1]
  BY <1>1
<1> HIDE DEF x, y
<1>4. x = y
  BY <1>2, <1>3, SeqEqual
<1> QED BY <1>1, <1>4 DEF x, y

LEMMA OneMore ==
    ASSUME NEW S, NEW s \in Seq(S), NEW c \in S
    PROVE  /\ Append(s, c) \in Seq(S) /\ Len(Append(s, c)) = Len(s) + 1
           /\ Append(s, c)[Len(s) + 1] = c
           /\ \A k \in 1..Len(s) : Append(s, c)[k] = s[k]
           /\ SubSeq(Append(s, c), 1, Len(s)) = s
           /\ s \o <<c>> = Append(s, c)
  OBVIOUS

LEMMA TwoMore ==
    ASSUME NEW S, NEW s \in Seq(S), NEW c \in S, NEW d \in S
    PROVE  s \o <<c, d>> = Append(Append(s, c), d)
  OBVIOUS

\* The file read in two pieces.
LEMMA Pieces ==
    ASSUME NEW S, NEW s \in Seq(S), NEW a \in Nat, NEW b \in Nat, NEW c \in Nat,
           a <= b, b <= c, c <= Len(s)
    PROVE  SubSeq(s, a + 1, b) \o SubSeq(s, b + 1, c) = SubSeq(s, a + 1, c)
<1> DEFINE x == SubSeq(s, a + 1, b)
           y == SubSeq(s, b + 1, c)
           z == SubSeq(s, a + 1, c)
<1>1. /\ x \in Seq(S) /\ y \in Seq(S) /\ z \in Seq(S)
  BY Part
<1>2. \A i \in 1..Len(s) : s[i] \in S
  BY ElementOfSeq
<1>3. /\ Len(x) = b - a /\ Len(y) = c - b /\ Len(z) = c - a
      /\ \A i \in 1..(b - a) : x[i] = s[a + i]
      /\ \A i \in 1..(c - b) : y[i] = s[b + i]
      /\ \A i \in 1..(c - a) : z[i] = s[a + i]
  BY <1>2
<1> HIDE DEF x, y, z
<1>4. /\ x \o y \in Seq(S) /\ Len(x \o y) = Len(z)
      /\ \A i \in 1..Len(z) : (x \o y)[i] = IF i <= Len(x) THEN x[i] ELSE y[i - Len(x)]
  <2>1. /\ x \o y \in Seq(S) /\ Len(x \o y) = Len(x) + Len(y)
        /\ \A i \in 1..(Len(x) + Len(y)) : (x \o y)[i] = IF i <= Len(x) THEN x[i] ELSE y[i - Len(x)]
    BY <1>1, ConcatProperties
  <2>2. Len(x) + Len(y) = Len(z)
    BY <1>3
  <2> QED BY <2>1, <2>2
<1>5. \A i \in 1..Len(z) : (x \o y)[i] = z[i]
  <2> TAKE i \in 1..Len(z)
  <2>1. i \in 1..(c - a) /\ z[i] = s[a + i]
    BY <1>3
  <2>2. CASE i <= b - a
    BY <1>3, <1>4, <2>1, <2>2
  <2>3. CASE i > b - a
    <3>1. i - (b - a) \in 1..(c - b) /\ b + (i - (b - a)) = a + i
      BY <2>1, <2>3
    <3>2. y[i - (b - a)] = s[b + (i - (b - a))]
      BY <1>3, <3>1
    <3>3. (x \o y)[i] = y[i - Len(x)]
      BY <1>3, <1>4, <2>1, <2>3
    <3>4. (x \o y)[i] = y[i - (b - a)]
      BY <1>3, <3>3
    <3>5. (x \o y)[i] = s[a + i]
      BY <3>1, <3>2, <3>4
    <3> QED BY <2>1, <3>5, Zenon
  <2>4. i <= b - a \/ i > b - a
    BY <2>1
  <2> QED BY <2>2, <2>3, <2>4, Zenon
<1>6. x \o y = z
  BY <1>1, <1>4, <1>5, SeqEqual
<1> QED BY <1>6 DEF x, y, z

\* Of the numbers with a property there is a least one.
LEMMA LeastNat ==
    ASSUME NEW S \in SUBSET Nat, S # {}
    PROVE  \E x \in S : \A y \in S : x <= y
<1> DEFINE R == OpToRel(<, Nat)
<1>1. IsWellFoundedOn(R, Nat)
  BY NatLessThanWellFounded
<1> HIDE DEF R
<1>2. PICK x \in S : \A y \in S : <<y, x>> \notin R
  BY <1>1, WFMin
<1>3. \A y \in S : ~(y < x)
  BY <1>2 DEF R, OpToRel
<1> QED BY <1>2, <1>3

LEMMA AfterBlocksType ==
    ASSUME TypeOK, NEW k \in 0..SIZE_MAX
    PROVE  AfterBlocks(k) \in 0..SIZE_MAX
<1>1. file_size \in Nat /\ blk_size \in Nat /\ k \in Nat /\ SIZE_MAX \in Nat
  BY FreadallAssumption DEF TypeOK, ReadType
<1>2. k * blk_size \in Nat
  BY <1>1
<1> DEFINE sum == file_size + k * blk_size
<1>3. sum \in Nat
  BY <1>1, <1>2
<1> HIDE DEF sum
<1>4. sum % (SIZE_MAX + 1) \in 0..SIZE_MAX
  BY <1>1, <1>3
<1> QED BY <1>4 DEF AfterBlocks, sum

LEMMA BlocksAddedIs ==
    ASSUME TypeOK, ~Endless
    PROVE  /\ BlocksAdded \in 0..SIZE_MAX
           /\ bytes_read < AfterBlocks(BlocksAdded)
           /\ \A j \in 0..(BlocksAdded - 1) : bytes_read >= AfterBlocks(j)
<1> DEFINE Enough == {k \in 0..SIZE_MAX : bytes_read < AfterBlocks(k)}
<1>1. bytes_read \in Nat /\ SIZE_MAX \in Nat
  BY FreadallAssumption DEF TypeOK, ReadType
<1>2. PICK k \in 0..SIZE_MAX : ~(bytes_read >= AfterBlocks(k))
  BY DEF Endless
<1>3. Enough # {} /\ Enough \in SUBSET Nat
  BY <1>1, <1>2, AfterBlocksType
<1>4. PICK least \in Enough : \A y \in Enough : least <= y
  BY <1>3, LeastNat
<1>5. ASSUME NEW j \in 0..(least - 1) PROVE bytes_read >= AfterBlocks(j)
  <2>1. j \in 0..SIZE_MAX /\ ~(least <= j)
    BY <1>1, <1>4
  <2>2. AfterBlocks(j) \in Nat
    BY <2>1, AfterBlocksType, <1>1
  <2> QED BY <1>1, <1>4, <2>1, <2>2
<1>6. least \in 0..SIZE_MAX /\ bytes_read < AfterBlocks(least)
      /\ \A j \in 0..(least - 1) : bytes_read >= AfterBlocks(j)
  BY <1>4, <1>5
<1> QED BY <1>6 DEF BlocksAdded

LEMMA GrownCovers ==
    ASSUME TypeOK, ~Endless
    PROVE  Grown \in 0..SIZE_MAX /\ Grown > bytes_read
<1>1. BlocksAdded \in 0..SIZE_MAX /\ bytes_read < AfterBlocks(BlocksAdded)
  BY BlocksAddedIs
<1>2. AfterBlocks(BlocksAdded) \in 0..SIZE_MAX /\ bytes_read \in Nat
  BY <1>1, AfterBlocksType, FreadallAssumption DEF TypeOK, ReadType
<1> QED BY <1>1, <1>2, FreadallAssumption DEF Grown

\* A buffer that is not full yet needs no block.
LEMMA GrownStays ==
    ASSUME TypeOK, bytes_read < file_size
    PROVE  Grown = file_size
<1>1. file_size \in 0..SIZE_MAX /\ blk_size \in Nat /\ bytes_read \in Nat /\ SIZE_MAX \in Nat
  BY FreadallAssumption DEF TypeOK, ReadType
<1>2. AfterBlocks(0) = file_size
  <2>1. file_size % (SIZE_MAX + 1) = file_size
    BY <1>1
  <2>2. file_size + 0 * blk_size = file_size
    BY <1>1
  <2> QED BY <2>1, <2>2, Zenon DEF AfterBlocks
<1>3. ~Endless
  BY <1>1, <1>2 DEF Endless
<1>4. BlocksAdded \in 0..SIZE_MAX /\ \A j \in 0..(BlocksAdded - 1) : bytes_read >= AfterBlocks(j)
  BY <1>3, BlocksAddedIs
<1>5. BlocksAdded = 0
  <2> SUFFICES ASSUME BlocksAdded # 0 PROVE FALSE
    OBVIOUS
  <2>1. 0 \in 0..(BlocksAdded - 1)
    BY <1>1, <1>4
  <2> QED BY <1>1, <1>2, <1>4, <2>1
<1> QED BY <1>2, <1>5, Zenon DEF Grown
-----------------------------------------------------------------------------
(* Types                                                                   *)

Calls == {"none", "getdelim", "freadall"}
Results == {"ok", "EOF", "ENOMEM", "EOVERFLOW", "EINVAL", "-1", "errno", "EISDIR", "lost", "ECANCELED", "EIO"}
RetType == ret \in [call : Calls, data : Seq(Bytes), res : Results]
PcType == pc \in {"idle", "getdelim", "loop", "fread"}
HistType == start \in Nat /\ taken \in Seq(Bytes) /\ changed \in BOOLEAN /\ exact \in BOOLEAN

LEMMA TypeParts ==
    TypeOK <=> StreamType /\ LineType /\ ReadType /\ PcType /\ RetType /\ HistType
  BY Zenon DEF TypeOK, PcType, RetType, Calls, Results, HistType

LEMMA TypePartsNext ==
    TypeOK' <=> StreamType' /\ LineType' /\ ReadType' /\ PcType' /\ RetType' /\ HistType'
  BY Zenon DEF TypeOK, PcType, RetType, Calls, Results, HistType

LEMMA StreamKept == StreamType /\ UNCHANGED streamVars => StreamType'
  BY Zenon DEF StreamType, streamVars

LEMMA LineKept == LineType /\ UNCHANGED lineVars => LineType'
  BY Zenon DEF LineType, lineVars

LEMMA ReadKept == ReadType /\ UNCHANGED readVars => ReadType'
  BY Zenon DEF ReadType, readVars

LEMMA HistBegins ==
    ASSUME StreamType, start' = pos, taken' = <<>>, changed' = FALSE, exact' \in BOOLEAN
    PROVE  HistType'
<1>1. start' \in Nat /\ taken' \in Seq(Bytes)
  BY DEF StreamType
<1>2. changed' \in BOOLEAN
  BY Zenon
<1> QED BY <1>1, <1>2, Zenon DEF HistType

LEMMA AnswerType ==
    ASSUME NEW c \in Calls, NEW r \in Results, NEW d \in Seq(Bytes)
    PROVE  /\ [call |-> c, res |-> r, data |-> d] \in [call : Calls, data : Seq(Bytes), res : Results]
           /\ [call |-> c, res |-> r, data |-> d].call = c
           /\ [call |-> c, res |-> r, data |-> d].res = r
           /\ [call |-> c, res |-> r, data |-> d].data = d
  OBVIOUS

LEMMA NoneType ==
    None \in [call : Calls, data : Seq(Bytes), res : Results] /\ None.call = "none" /\ None.res = "ok"
<1>1. <<>> \in Seq(Bytes)
  OBVIOUS
<1> QED BY <1>1 DEF None, Calls, Results
-----------------------------------------------------------------------------
(* The steps of vsc_getdelima                                              *)

LEMMA InitInv == Init => ReadersInv
<1> SUFFICES ASSUME Init PROVE ReadersInv
  OBVIOUS
<1> USE DEF Init
<1>1. StreamType
  <2>1. file \in Seq(Bytes) /\ kind \in Kinds /\ pos \in Nat /\ writes \in 0..MaxWrites
    BY StreamAssumption DEF StreamInit
  <2>2. eof \in BOOLEAN /\ err \in BOOLEAN
    BY Zenon DEF StreamInit
  <2> QED BY <2>1, <2>2 DEF StreamType
<1>2. LineType
  <2>1. <<>> \in Seq(Bytes \cup {NUL})
    OBVIOUS
  <2>2. LineInit(OwnBuffers)
    BY Zenon
  <2>3. n \in Nat
    <3>1. n = 0 \/ n \in OwnBuffers
      BY <2>2, Zenon DEF LineInit
    <3>2. CASE n = 0
      BY <3>2
    <3>3. CASE n \in OwnBuffers
      BY <3>3, UserAssumption, Zenon
    <3> QED BY <3>1, <3>2, <3>3, Zenon
  <2>4. lineptr \in {"NULL", "live", "dangling"} /\ buf = <<>>
    BY <2>2, Zenon DEF LineInit
  <2> QED BY <2>1, <2>3, <2>4, Zenon DEF LineType
<1>3. ReadType
  BY FreadallAssumption DEF ReadInit, ReadType, NoBytes
<1>4. TypeOK
  <2>1. RetType /\ PcType
    BY NoneType DEF RetType, PcType
  <2>2. HistType
    <3>1. taken \in Seq(Bytes)
      OBVIOUS
    <3> QED BY <3>1, Zenon DEF HistType
  <2> QED BY <1>1, <1>2, <1>3, <2>1, <2>2, TypeParts
<1>5. InLine /\ InLoop /\ InFile /\ NotIdle
  BY DEF InLine, InLoop, InFile, NotIdle
<1>6. EndStays /\ NoLoop
  BY DEF EndStays, NoLoop, StreamInit, ReadInit
<1>7. Buffers
  BY <1>2 DEF Buffers, LineInit, LineType
<1>8. PositionAccounts /\ LineComplete /\ FailureLosesOneByte /\ AllRead
  BY NoneType DEF PositionAccounts, LineComplete, FailureLosesOneByte, AllRead
<1> QED BY <1>4, <1>5, <1>6, <1>7, <1>8 DEF ReadersInv

LEMMA GetdelimBeginInv ==
    ASSUME ReadersInv, GetdelimBegin
    PROVE  ReadersInv'
<1> USE DEF GetdelimBegin, Begins, streamVars, readVars, HasBuffer, NewBuffer, NoBuffer, Return
<1>1. TypeOK'
  <2>1. StreamType' /\ ReadType'
    BY TypeParts, StreamKept, ReadKept DEF ReadersInv, streamVars, readVars
  <2>2. HistType'
    <3>1. exact' \in BOOLEAN
      BY Zenon
    <3> QED BY <3>1, TypeParts, HistBegins DEF ReadersInv
  <2>3. LineType'
    <3>1. <<>> \in Seq(Bytes \cup {NUL}) /\ INIT_LEN \in Nat
      BY GetdelimAssumption
    <3> QED BY <3>1, TypeParts, Zenon DEF ReadersInv, LineType
  <2>4. RetType'
    <3>1. <<>> \in Seq(Bytes) /\ "getdelim" \in Calls /\ "ENOMEM" \in Results
      BY DEF Calls, Results
    <3>2. ret' = None \/ ret' = [call |-> "getdelim", res |-> "ENOMEM", data |-> <<>>]
      BY Zenon
    <3>3. [call |-> "getdelim", res |-> "ENOMEM", data |-> <<>>]
              \in [call : Calls, data : Seq(Bytes), res : Results]
      BY <3>1, AnswerType
    <3> QED BY <3>2, <3>3, NoneType, Zenon DEF RetType
  <2>5. PcType'
    BY DEF PcType
  <2> QED BY <2>1, <2>2, <2>3, <2>4, <2>5, TypePartsNext
<1>2. pc' \notin {"loop", "fread"} /\ taken' = <<>> /\ start' = pos' /\ buf' = <<>> /\ pos' \in Nat
  BY DEF ReadersInv, TypeOK, StreamType
<1>3. InLine' /\ InLoop' /\ InFile' /\ NotIdle' /\ EndStays'
  BY <1>2 DEF ReadersInv, InLine, InLoop, InFile, NotIdle, EndStays
<1>4. Buffers' /\ NoLoop'
  BY <1>1, <1>2, GetdelimAssumption DEF ReadersInv, Buffers, NoLoop, TypeOK, LineType
<1>5. PositionAccounts' /\ LineComplete' /\ FailureLosesOneByte' /\ AllRead'
  BY <1>2, NoneType DEF PositionAccounts, LineComplete, FailureLosesOneByte, AllRead
<1> QED BY <1>1, <1>3, <1>4, <1>5 DEF ReadersInv
-----------------------------------------------------------------------------
(* Reading, and what a step has to show                                    *)

LEMMA ReadsOne ==
    ASSUME TypeOK, Take(1), Reads
    PROVE  /\ pos' = pos + 1 /\ pos + 1 <= Len(file) /\ file[pos + 1] \in Bytes
           /\ taken' = Append(taken, file[pos + 1])
           /\ StreamType' /\ HistType'
<1>1. file \in Seq(Bytes) /\ pos \in Nat /\ taken \in Seq(Bytes)
  BY TypeParts, Zenon DEF StreamType, HistType
<1>2. pos' = pos + 1 /\ 1 <= Available
  BY Zenon DEF Take
<1>3. pos + 1 <= Len(file)
  BY <1>1, <1>2 DEF Available
<1>4. file[pos + 1] \in Bytes
  BY <1>1, <1>3, OnePiece
<1>5. taken' = taken \o SubSeq(file, pos + 1, pos + 1)
  BY <1>1, <1>2 DEF Reads
<1>6. SubSeq(file, pos + 1, pos + 1) = <<file[pos + 1]>>
  BY <1>1, <1>3, OnePiece
<1>7. taken' = Append(taken, file[pos + 1]) /\ taken' \in Seq(Bytes)
  BY <1>1, <1>4, <1>5, <1>6, OneMore
<1>8. pos' \in Nat
  BY <1>1, <1>2
<1>9. StreamType' /\ HistType'
  BY <1>7, <1>8, TypeParts, Zenon DEF Take, Reads, StreamType, HistType
<1> QED BY <1>2, <1>3, <1>4, <1>7, <1>9

LEMMA ReadsNone ==
    ASSUME TypeOK, pos' = pos, eof' \in BOOLEAN, err' \in BOOLEAN, Reads
    PROVE  taken' = taken /\ StreamType' /\ HistType'
<1>1. pos \in Nat
  BY TypeParts, Zenon DEF StreamType
<1>2. taken' = taken
  BY <1>1 DEF Reads
<1> QED BY <1>2, TypeParts, Zenon DEF Reads, StreamType, HistType

LEMMA EndOrError ==
    ASSUME TypeOK, HitEnd \/ ReadError
    PROVE  pos' = pos /\ eof' \in BOOLEAN /\ err' \in BOOLEAN
  BY TypeParts, Zenon DEF HitEnd, ReadError, StreamType

\* The end of a stream without a position, at a step that reads.
LEMMA EndIsKept ==
    ASSUME TypeOK, EndStays, Reads,
           Take(1) \/ HitEnd \/ ReadError \/ UNCHANGED <<pos, eof, err>>
    PROVE  EndStays'
<1>1. file \in Seq(Bytes) /\ pos \in Nat
  BY TypeParts, Zenon DEF StreamType
<1>2. UNCHANGED <<kind, file, writes>>
  BY Zenon DEF Reads
<1>3. CASE Take(1)
  <2>1. pos' = pos + 1 /\ ~eof'
    BY <1>3, Zenon DEF Take
  <2> QED BY <1>2, <2>1, Zenon DEF EndStays
<1>4. CASE HitEnd
  <2>1. CASE eof
    BY <1>2, <1>4, <2>1, Zenon DEF HitEnd, EndStays
  <2>2. CASE AtEnd
    <3>1. pos' = pos /\ Available = 0 /\ kind # "dir" /\ (kind \in {"pipe", "cookie"} => writes = 0)
      BY <1>4, <2>2, Zenon DEF HitEnd, AtEnd
    <3>2. pos >= Len(file)
      BY <1>1, <3>1 DEF Available
    <3> QED BY <1>2, <3>1, <3>2, Zenon DEF EndStays
  <2> QED BY <1>4, <2>1, <2>2, Zenon DEF HitEnd
<1>5. CASE ReadError \/ UNCHANGED <<pos, eof, err>>
  BY <1>2, <1>5, Zenon DEF ReadError, EndStays
<1> QED BY <1>3, <1>4, <1>5

LEMMA Ended ==
    ASSUME pc' = "idle", TypeOK', EndStays', Buffers', NoLoop',
           PositionAccounts', LineComplete', FailureLosesOneByte', AllRead'
    PROVE  ReadersInv'
<1>1. InLine' /\ InLoop' /\ InFile' /\ NotIdle'
  BY DEF InLine, InLoop, InFile, NotIdle
<1> QED BY <1>1, Zenon DEF ReadersInv

LEMMA WentOn ==
    ASSUME pc' # "idle", TypeOK', EndStays', Buffers', NoLoop', InLine', InLoop', InFile', NotIdle'
    PROVE  ReadersInv'
<1>1. ret' = None /\ ret'.call = "none" /\ pos' = start' + Len(taken')
  BY NoneType, Zenon DEF NotIdle
<1>2. PositionAccounts' /\ LineComplete' /\ FailureLosesOneByte' /\ AllRead'
  BY <1>1, Zenon DEF PositionAccounts, LineComplete, FailureLosesOneByte, AllRead
<1> QED BY <1>2, Zenon DEF ReadersInv
-----------------------------------------------------------------------------
(* The bytes of a line                                                     *)

LEMMA InLineFacts ==
    ASSUME ReadersInv, pc = "getdelim"
    PROVE  /\ TypeOK /\ EndStays /\ lineptr = "live" /\ ret = None /\ buf = taken /\ buf \in Seq(Bytes)
           /\ buf # <<>> => Len(buf) < n
           /\ \A k \in 1..Len(taken) : taken[k] # Delimiter
           /\ pos = start + Len(taken) /\ start \in Nat /\ n \in Nat /\ pos \in Nat
           /\ p = NoBytes /\ Len(buf) <= n
<1>1. TypeOK /\ InLine /\ NotIdle /\ NoLoop /\ Buffers /\ EndStays
  BY Zenon DEF ReadersInv
<1>2. taken \in Seq(Bytes) /\ start \in Nat /\ n \in Nat /\ pos \in Nat
  BY <1>1, TypeParts, Zenon DEF HistType, LineType, StreamType
<1>3. p = NoBytes
  BY <1>1 DEF NoLoop
<1> QED BY <1>1, <1>2, <1>3, Zenon DEF InLine, NotIdle, Buffers

LEMMA GetdelimEndsInv ==
    ASSUME ReadersInv, GetdelimEnds
    PROVE  ReadersInv'
<1>1. pc = "getdelim" /\ Reads /\ UNCHANGED readVars /\ pc' = "idle"
  BY Zenon DEF GetdelimEnds, Return, ReturnLine
<1>2. /\ TypeOK /\ EndStays /\ lineptr = "live" /\ buf = taken /\ buf \in Seq(Bytes)
      /\ buf # <<>> => Len(buf) < n
      /\ \A k \in 1..Len(taken) : taken[k] # Delimiter
      /\ pos = start + Len(taken) /\ start \in Nat /\ n \in Nat /\ pos \in Nat
      /\ p = NoBytes /\ Len(buf) <= n
  BY <1>1, InLineFacts, Zenon
<1>3. ReadType' /\ NoLoop' /\ PcType' /\ start' = start
  <2>1. ReadType'
    BY <1>1, <1>2, TypeParts, ReadKept, Zenon
  <2>2. NoLoop'
    BY <1>1, <1>2, Zenon DEF NoLoop, readVars
  <2>3. PcType'
    BY <1>1 DEF PcType
  <2> QED BY <1>1, <2>1, <2>2, <2>3, Zenon DEF Reads
<1>4. CASE NoLine /\ Return("getdelim", "EOF", <<>>)
  <2>1. UNCHANGED lineVars /\ ((Take(1) /\ err) \/ HitEnd \/ ReadError)
    BY <1>4, Zenon DEF NoLine
  <2>2. EndStays'
    BY <1>1, <1>2, <2>1, EndIsKept, Zenon
  <2>3. LineType' /\ Buffers'
    <3>1. LineType'
      BY <1>2, <2>1, TypeParts, LineKept, Zenon
    <3> QED BY <1>2, <2>1, <3>1, Zenon DEF Buffers, lineVars, ReadersInv
  <2>4. RetType' /\ ret'.call = "getdelim" /\ ret'.res = "EOF"
    <3>1. <<>> \in Seq(Bytes) /\ "getdelim" \in Calls /\ "EOF" \in Results
      BY DEF Calls, Results
    <3>2. ret' = [call |-> "getdelim", res |-> "EOF", data |-> <<>>]
      BY <1>4, Zenon DEF Return
    <3> QED BY <3>1, <3>2, AnswerType, Zenon DEF RetType
  <2>5. LineComplete' /\ AllRead'
    BY <2>4 DEF LineComplete, AllRead
  <2>6. CASE Take(1) /\ err
    <3>1. /\ pos' = pos + 1 /\ StreamType' /\ HistType' /\ err'
          /\ taken' = Append(taken, file[pos + 1]) /\ file[pos + 1] \in Bytes
      BY <1>1, <1>2, <2>6, ReadsOne, Zenon DEF Take
    <3>2. Len(taken') = Len(taken) + 1 /\ SubSeq(taken', 1, Len(taken') - 1) = taken
      BY <1>2, <3>1, OneMore
    <3>3. PositionAccounts'
      BY <1>2, <1>3, <3>1, <3>2 DEF PositionAccounts
    <3>4. buf' = SubSeq(taken', 1, Len(taken') - 1) /\ Len(taken') > 0
      BY <1>2, <2>1, <3>2 DEF lineVars
    <3>5. FailureLosesOneByte'
      BY <3>1, <3>4, Zenon DEF FailureLosesOneByte
    <3>6. TypeOK'
      BY <1>3, <2>3, <2>4, <3>1, TypePartsNext, Zenon
    <3> QED BY <1>1, <1>3, <2>2, <2>3, <2>5, <3>3, <3>5, <3>6, Ended, Zenon
  <2>7. CASE HitEnd \/ ReadError
    <3>1. pos' = pos /\ taken' = taken /\ StreamType' /\ HistType'
      BY <1>1, <1>2, <2>7, EndOrError, ReadsNone, Zenon
    <3>2. PositionAccounts' /\ FailureLosesOneByte'
      BY <1>2, <1>3, <2>1, <3>1, Zenon DEF PositionAccounts, FailureLosesOneByte, lineVars
    <3>3. TypeOK'
      BY <1>3, <2>3, <2>4, <3>1, TypePartsNext, Zenon
    <3> QED BY <1>1, <1>3, <2>2, <2>3, <2>5, <3>2, <3>3, Ended, Zenon
  <2> QED BY <2>1, <2>6, <2>7
<1>5. CASE LastLine /\ ReturnLine
  <2>1. HitEnd /\ buf # <<>> /\ buf' = Append(buf, NUL) /\ lineptr' = lineptr /\ n' = n /\ eof'
    BY <1>5, Zenon DEF LastLine, HitEnd
  <2>2. pos' = pos /\ taken' = taken /\ StreamType' /\ HistType' /\ EndStays'
    BY <1>1, <1>2, <2>1, EndOrError, ReadsNone, EndIsKept, Zenon
  <2>3. /\ buf \in Seq(Bytes \cup {NUL}) /\ buf' \in Seq(Bytes \cup {NUL})
        /\ Len(buf') = Len(buf) + 1 /\ SubSeq(buf', 1, Len(buf)) = buf
        /\ SubSeq(buf', 1, Len(buf') - 1) = buf
    <3>1. buf \in Seq(Bytes \cup {NUL})
      BY <1>2, SeqMonotonic
    <3>2. buf' \in Seq(Bytes \cup {NUL}) /\ Len(buf') = Len(buf) + 1 /\ SubSeq(buf', 1, Len(buf)) = buf
      BY <2>1, <3>1, OneMore
    <3>3. Len(buf') - 1 = Len(buf)
      BY <3>1, <3>2
    <3> QED BY <3>1, <3>2, <3>3
  <2>4. LineType' /\ Buffers'
    <3>1. LineType'
      BY <1>2, <2>1, <2>3, TypeParts, Zenon DEF LineType
    <3>2. Len(buf') <= n'
      BY <1>2, <2>1, <2>3
    <3> QED BY <1>2, <2>1, <3>1, <3>2 DEF Buffers
  <2>5. ret' = [call |-> "getdelim", res |-> "ok", data |-> taken]
    BY <1>2, <1>5, <2>3, Zenon DEF ReturnLine, Return
  <2>6. RetType' /\ ret'.call = "getdelim" /\ ret'.res = "ok" /\ ret'.data = taken
    <3>1. taken \in Seq(Bytes) /\ "getdelim" \in Calls /\ "ok" \in Results
      BY <1>2 DEF Calls, Results
    <3> QED BY <2>5, <3>1, AnswerType, Zenon DEF RetType
  <2>7. LineComplete'
    <3>1. \A k \in 1..(Len(taken') - 1) : taken'[k] # Delimiter
      BY <1>2, <2>2
    <3> QED BY <1>2, <2>1, <2>2, <2>6, <3>1, Zenon DEF LineComplete
  <2>8. PositionAccounts' /\ FailureLosesOneByte' /\ AllRead'
    BY <1>2, <1>3, <2>2, <2>6 DEF PositionAccounts, FailureLosesOneByte, AllRead
  <2>9. TypeOK'
    BY <1>3, <2>2, <2>4, <2>6, TypePartsNext, Zenon
  <2> QED BY <1>1, <1>3, <2>2, <2>4, <2>7, <2>8, <2>9, Ended, Zenon
<1> QED BY <1>4, <1>5, Zenon DEF GetdelimEnds

\* What storing a byte leaves in the buffer, and room for the terminator with it.
LEMMA ByteStored ==
    ASSUME ReadersInv, pc = "getdelim", NEW c \in Bytes, StoreByte(c) \/ GrowAndStore(c), Reads
    PROVE  /\ Take(1) /\ c = file[pos + 1] /\ lineptr' = lineptr /\ buf' = Stored(c)
           /\ n' \in Nat /\ Len(buf) + 2 <= n'
<1>1. /\ buf \in Seq(Bytes) /\ n \in Nat
      /\ buf # <<>> => Len(buf) < n
  BY InLineFacts, Zenon
<1>2. Len(buf) \in Nat /\ (buf = <<>> => Len(buf) = 0)
  BY <1>1
<1>3. Byte(c) /\ buf' = Stored(c) /\ lineptr' = lineptr
  BY Zenon DEF StoreByte, GrowAndStore
<1>4. Take(1) /\ c = file[pos + 1]
  BY <1>3, Zenon DEF Byte
<1>5. CASE StoreByte(c)
  <2>1. n - Len(buf) >= 2 /\ n' = n
    BY <1>5, Zenon DEF StoreByte, RoomLeft
  <2> QED BY <1>1, <1>2, <1>3, <1>4, <2>1
<1>6. CASE GrowAndStore(c)
  <2>1. n # 0 /\ n' = 2 * n
    BY <1>6, Zenon DEF GrowAndStore
  <2>2. CASE buf = <<>>
    BY <1>1, <1>2, <1>3, <1>4, <2>1, <2>2
  <2>3. CASE buf # <<>>
    <3>1. Len(buf) < n /\ Len(buf) \in Nat /\ n \in Nat
      BY <1>1, <1>2, <2>3, Zenon
    <3>2. 2 * n \in Nat /\ Len(buf) + 2 <= 2 * n
      BY <3>1
    <3> QED BY <1>3, <1>4, <2>1, <3>2, Zenon
  <2> QED BY <2>2, <2>3, Zenon
<1> QED BY <1>5, <1>6, Zenon

LEMMA GetdelimByteInv ==
    ASSUME ReadersInv, NEW c \in Bytes, GetdelimByte(c)
    PROVE  ReadersInv'
<1>1. pc = "getdelim" /\ Reads /\ UNCHANGED readVars /\ (StoreByte(c) \/ GrowAndStore(c))
  BY Zenon DEF GetdelimByte
<1>2. /\ TypeOK /\ EndStays /\ lineptr = "live" /\ ret = None /\ buf = taken /\ buf \in Seq(Bytes)
      /\ \A k \in 1..Len(taken) : taken[k] # Delimiter
      /\ pos = start + Len(taken) /\ start \in Nat /\ n \in Nat /\ pos \in Nat /\ p = NoBytes
  BY <1>1, InLineFacts, Zenon
<1>3. /\ Take(1) /\ c = file[pos + 1] /\ lineptr' = lineptr /\ buf' = Stored(c)
      /\ n' \in Nat /\ Len(buf) + 2 <= n'
  BY <1>1, ByteStored, Zenon
<1>4. /\ pos' = pos + 1 /\ taken' = Append(taken, c) /\ StreamType' /\ HistType'
      /\ EndStays' /\ start' = start
  <2>1. EndStays' /\ start' = start
    BY <1>1, <1>2, <1>3, EndIsKept, Zenon DEF Reads
  <2> QED BY <1>1, <1>2, <1>3, <2>1, ReadsOne, Zenon
<1>5. ReadType' /\ NoLoop'
  <2>1. ReadType'
    BY <1>1, <1>2, TypeParts, ReadKept, Zenon
  <2>2. p' = NoBytes
    BY <1>1, <1>2, Zenon DEF readVars
  <2> QED BY <2>1, <2>2, Zenon DEF NoLoop
<1>6. /\ taken' \in Seq(Bytes) /\ Len(taken') = Len(taken) + 1 /\ taken'[Len(taken')] = c
      /\ \A k \in 1..Len(taken) : taken'[k] = taken[k]
      /\ Len(taken) \in Nat /\ taken' # <<>>
  BY <1>2, <1>4, OneMore
<1>7. pos' = start' + Len(taken')
  BY <1>2, <1>4, <1>6
<1>8. CASE c = Delimiter
  <2>1. pc' = "idle" /\ ReturnLine
    BY <1>8, Zenon DEF GetdelimByte, ReturnLine, Return
  <2>2. buf' = Append(taken', NUL)
    <3>1. /\ buf \in Seq(Bytes \cup {NUL})
          /\ c \in Bytes \cup {NUL} /\ NUL \in Bytes \cup {NUL}
      BY <1>2, SeqMonotonic
    <3>2. buf \o <<c, NUL>> = Append(Append(buf, c), NUL)
      BY <3>1, TwoMore
    <3> QED BY <1>2, <1>3, <1>4, <1>8, <3>2, Zenon DEF Stored
  <2>3. /\ buf' \in Seq(Bytes \cup {NUL}) /\ Len(buf') = Len(taken') + 1
        /\ SubSeq(buf', 1, Len(taken')) = taken'
    <3>1. taken' \in Seq(Bytes \cup {NUL}) /\ NUL \in Bytes \cup {NUL}
      BY <1>6, SeqMonotonic
    <3> QED BY <2>2, <3>1, OneMore
  <2>4. ret' = [call |-> "getdelim", res |-> "ok", data |-> taken']
    <3>1. Len(buf') - 1 = Len(taken')
      BY <1>2, <1>6, <2>3
    <3>2. ret' = [call |-> "getdelim", res |-> "ok", data |-> SubSeq(buf', 1, Len(buf') - 1)]
      BY <2>1, Zenon DEF ReturnLine, Return
    <3> QED BY <2>3, <3>1, <3>2, Zenon
  <2>5. RetType' /\ ret'.call = "getdelim" /\ ret'.res = "ok" /\ ret'.data = taken'
    <3>1. "getdelim" \in Calls /\ "ok" \in Results
      BY DEF Calls, Results
    <3> QED BY <1>6, <2>4, <3>1, AnswerType, Zenon DEF RetType
  <2>6. LineType' /\ Buffers'
    <3>1. LineType'
      BY <1>2, <1>3, <2>3, TypeParts, Zenon DEF LineType
    <3>2. Len(buf') <= n'
      BY <1>2, <1>3, <1>6, <2>3
    <3>3. lineptr' # "dangling" /\ lineptr' # "NULL"
      BY <1>2, <1>3
    <3> QED BY <3>1, <3>2, <3>3, Zenon DEF Buffers
  <2>7. LineComplete'
    <3>1. \A k \in 1..(Len(taken') - 1) : taken'[k] # Delimiter
      <4>1. Len(taken') - 1 = Len(taken)
        BY <1>6
      <4> QED BY <1>2, <1>6, <4>1, Zenon
    <3> QED BY <1>6, <1>8, <2>2, <2>5, <3>1, Zenon DEF LineComplete
  <2>8. PositionAccounts' /\ FailureLosesOneByte' /\ AllRead'
    BY <1>7, <2>5 DEF PositionAccounts, FailureLosesOneByte, AllRead
  <2>9. PcType'
    BY <2>1 DEF PcType
  <2>10. TypeOK'
    BY <1>4, <1>5, <2>5, <2>6, <2>9, TypePartsNext, Zenon
  <2> QED BY <1>4, <1>5, <2>1, <2>6, <2>7, <2>8, <2>10, Ended, Zenon
<1>9. CASE c # Delimiter
  <2>1. pc' = pc /\ ret' = ret /\ buf' = taken'
    BY <1>2, <1>3, <1>4, <1>9, Zenon DEF GetdelimByte, Stored
  <2>2. PcType' /\ RetType' /\ pc' # "idle" /\ pc' = "getdelim"
    BY <1>1, <1>2, <2>1, TypeParts DEF PcType, RetType
  <2>3. LineType' /\ Len(buf') < n'
    <3>1. buf' \in Seq(Bytes \cup {NUL})
      BY <1>6, <2>1, SeqMonotonic
    <3>2. LineType'
      BY <1>2, <1>3, <3>1, TypeParts, Zenon DEF LineType
    <3> QED BY <1>2, <1>3, <1>6, <2>1, <3>2
  <2>4. Buffers'
    <3>1. lineptr' # "dangling" /\ lineptr' # "NULL" /\ Len(buf') <= n'
      BY <1>2, <1>3, <1>6, <2>1, <2>3
    <3> QED BY <3>1, Zenon DEF Buffers
  <2>5. InLine'
    <3>1. \A k \in 1..Len(taken') : taken'[k] # Delimiter
      <4> TAKE k \in 1..Len(taken')
      <4>1. k = Len(taken') \/ k \in 1..Len(taken)
        BY <1>6
      <4> QED BY <1>2, <1>6, <1>9, <4>1, Zenon
    <3> QED BY <1>2, <1>3, <2>1, <2>3, <3>1, Zenon DEF InLine
  <2>6. InLoop' /\ InFile' /\ NotIdle'
    <3>1. InLoop' /\ InFile'
      BY <2>2 DEF InLoop, InFile
    <3> QED BY <1>2, <1>7, <2>1, <3>1, Zenon DEF NotIdle
  <2>7. TypeOK'
    BY <1>4, <1>5, <2>2, <2>3, TypePartsNext, Zenon
  <2> QED BY <1>4, <1>5, <2>2, <2>4, <2>5, <2>6, <2>7, WentOn, Zenon
<1> QED BY <1>8, <1>9

LEMMA GetdelimFailsInv ==
    ASSUME ReadersInv, NEW c \in Bytes, GetdelimFails(c)
    PROVE  ReadersInv'
<1>1. /\ pc = "getdelim" /\ Reads /\ UNCHANGED readVars /\ pc' = "idle"
      /\ Byte(c) /\ buf' = buf /\ n' = n
      /\ lineptr' = lineptr \/ (n = 0 /\ lineptr' = "dangling")
  <2>1. pc = "getdelim" /\ Reads /\ UNCHANGED readVars /\ pc' = "idle"
    BY Zenon DEF GetdelimFails, Return
  <2>2. CASE TooLong(c)
    BY <2>1, <2>2, Zenon DEF TooLong, lineVars
  <2>3. CASE CannotGrow(c)
    BY <2>1, <2>3, Zenon DEF CannotGrow
  <2> QED BY <2>2, <2>3, Zenon DEF GetdelimFails
<1>2. /\ TypeOK /\ EndStays /\ lineptr = "live" /\ buf = taken /\ buf \in Seq(Bytes)
      /\ pos = start + Len(taken) /\ start \in Nat /\ n \in Nat /\ pos \in Nat
      /\ p = NoBytes /\ Len(buf) <= n
  BY <1>1, InLineFacts, Zenon
<1>3. Take(1) /\ c = file[pos + 1]
  BY <1>1, Zenon DEF Byte
<1>4. /\ pos' = pos + 1 /\ taken' = Append(taken, c) /\ StreamType' /\ HistType'
      /\ EndStays' /\ start' = start
  <2>1. EndStays' /\ start' = start
    BY <1>1, <1>2, <1>3, EndIsKept, Zenon DEF Reads
  <2> QED BY <1>1, <1>2, <1>3, <2>1, ReadsOne, Zenon
<1>5. ReadType' /\ NoLoop' /\ PcType'
  <2>1. ReadType'
    BY <1>1, <1>2, TypeParts, ReadKept, Zenon
  <2>2. p' = NoBytes
    BY <1>1, <1>2, Zenon DEF readVars
  <2>3. PcType'
    BY <1>1 DEF PcType
  <2> QED BY <2>1, <2>2, <2>3, Zenon DEF NoLoop
<1>6. \E r \in {"EOVERFLOW", "ENOMEM"} : ret' = [call |-> "getdelim", res |-> r, data |-> <<>>]
  BY Zenon DEF GetdelimFails, Return
<1>7. RetType' /\ ret'.call = "getdelim" /\ ret'.res \in {"EOVERFLOW", "ENOMEM"}
  <2>1. PICK r \in {"EOVERFLOW", "ENOMEM"} : ret' = [call |-> "getdelim", res |-> r, data |-> <<>>]
    BY <1>6, Zenon
  <2>2. <<>> \in Seq(Bytes) /\ "getdelim" \in Calls /\ r \in Results
    BY DEF Calls, Results
  <2> QED BY <2>1, <2>2, AnswerType, Zenon DEF RetType
<1>8. LineType' /\ Buffers'
  <2>1. LineType'
    BY <1>1, <1>2, TypeParts, Zenon DEF LineType
  <2>2. Len(buf') <= n'
    BY <1>1, <1>2, Zenon
  <2>3. lineptr' # "NULL" /\ (lineptr' = "dangling" => n' = 0)
    BY <1>1, <1>2
  <2> QED BY <2>1, <2>2, <2>3, Zenon DEF Buffers
<1>9. Len(taken') > 0 /\ buf' = SubSeq(taken', 1, Len(taken') - 1) /\ pos' = start' + Len(taken')
  BY <1>1, <1>2, <1>4, OneMore
<1>10. PositionAccounts' /\ FailureLosesOneByte'
  BY <1>7, <1>9, Zenon DEF PositionAccounts, FailureLosesOneByte
<1>11. LineComplete' /\ AllRead'
  BY <1>7 DEF LineComplete, AllRead
<1>12. TypeOK'
  BY <1>4, <1>5, <1>7, <1>8, TypePartsNext, Zenon
<1> QED BY <1>1, <1>4, <1>5, <1>8, <1>10, <1>11, <1>12, Ended, Zenon
-----------------------------------------------------------------------------
(* vsc_freadalla_ex before its loop                                        *)

LEMMA FreadallStarts ==
    ASSUME ReadersInv, Begins, LineUsed, exact' \in BOOLEAN, UNCHANGED <<kind, file, writes>>,
           UNCHANGED <<pos, eof, err>> \/ (Seekable /\ pos' \in Nat /\ eof' \in BOOLEAN /\ err' \in BOOLEAN)
    PROVE  /\ StreamType' /\ HistType' /\ LineType' /\ Buffers' /\ EndStays'
           /\ pc = "idle" /\ p = NoBytes /\ ReadType /\ start' = pos /\ pos \in Nat /\ file \in Seq(Bytes)
           /\ taken' = <<>> /\ buf' = <<>>
<1>1. TypeOK /\ Buffers /\ EndStays /\ NoLoop
  BY Zenon DEF ReadersInv
<1>2. StreamType /\ LineType /\ ReadType
  BY <1>1, TypeParts, Zenon
<1>3. pc = "idle" /\ start' = pos /\ taken' = <<>> /\ buf' = <<>> /\ lineptr' = lineptr /\ n' = n
  BY Zenon DEF Begins, LineUsed
<1>4. p = NoBytes
  BY <1>1, <1>3 DEF NoLoop
<1>5. StreamType'
  BY <1>2, Zenon DEF StreamType
<1>6. HistType'
  BY <1>2, HistBegins, Zenon DEF Begins
<1>7. LineType' /\ Buffers'
  <2>1. <<>> \in Seq(Bytes \cup {NUL})
    OBVIOUS
  <2>2. LineType'
    BY <1>2, <1>3, <2>1, Zenon DEF LineType
  <2>3. n \in Nat
    BY <1>2, Zenon DEF LineType
  <2>4. Len(<<>>) <= n
    BY <2>3
  <2> QED BY <1>1, <1>3, <2>2, <2>4, Zenon DEF Buffers
<1>8. EndStays'
  <2>1. CASE UNCHANGED <<pos, eof, err>>
    BY <1>1, <2>1, Zenon DEF EndStays
  <2>2. CASE Seekable
    <3>1. kind' \notin {"pipe", "cookie"}
      BY <2>2 DEF Seekable
    <3> QED BY <3>1, Zenon DEF EndStays
  <2> QED BY <2>1, <2>2, Zenon
<1> QED BY <1>2, <1>3, <1>4, <1>5, <1>6, <1>7, <1>8, Zenon DEF StreamType

LEMMA Restores ==
    ASSUME TypeOK, Restored
    PROVE  /\ UNCHANGED <<pos, eof, err>> \/ (Seekable /\ pos' \in Nat /\ eof' \in BOOLEAN /\ err' \in BOOLEAN)
           /\ pos' = pos
<1>1. StreamType
  BY TypeParts, Zenon
<1>2. CASE Seekable
  <2>1. pos' = pos /\ err' = err /\ eof' = FALSE
    BY <1>2, Zenon DEF Restored, SeekTo
  <2> QED BY <1>1, <1>2, <2>1, Zenon DEF StreamType
<1>3. CASE ~Seekable
  BY <1>3, Zenon DEF Restored
<1> QED BY <1>2, <1>3, Zenon

\* The calls that end before the loop.
Refusals == {"EINVAL", "-1", "errno", "EISDIR", "lost", "ECANCELED"}
Refused(r) ==
    /\ Begins /\ LineUsed /\ exact' = FALSE /\ UNCHANGED <<kind, file, writes>> /\ UNCHANGED readVars
    /\ Return("freadall", r, <<>>) /\ (r # "lost" => pos' = pos)
    /\ UNCHANGED <<pos, eof, err>> \/ (Seekable /\ pos' \in Nat /\ eof' \in BOOLEAN /\ err' \in BOOLEAN)

LEMMA RefusedInv ==
    ASSUME ReadersInv, NEW r \in Refusals, Refused(r)
    PROVE  ReadersInv'
<1>1. /\ Begins /\ LineUsed /\ exact' \in BOOLEAN /\ UNCHANGED <<kind, file, writes>> /\ UNCHANGED readVars
      /\ UNCHANGED <<pos, eof, err>> \/ (Seekable /\ pos' \in Nat /\ eof' \in BOOLEAN /\ err' \in BOOLEAN)
      /\ pc' = "idle" /\ ret' = [call |-> "freadall", res |-> r, data |-> <<>>]
      /\ r # "lost" => pos' = pos
  BY Zenon DEF Refused, Return
<1>2. /\ StreamType' /\ HistType' /\ LineType' /\ Buffers' /\ EndStays'
      /\ p = NoBytes /\ ReadType /\ start' = pos /\ pos \in Nat
      /\ taken' = <<>> /\ buf' = <<>>
  BY <1>1, FreadallStarts, Zenon
<1>3. ReadType' /\ NoLoop' /\ PcType'
  <2>1. PcType'
    BY <1>1 DEF PcType
  <2>2. ReadType'
    BY <1>1, <1>2, ReadKept, Zenon
  <2> QED BY <1>1, <1>2, <2>1, <2>2, Zenon DEF NoLoop, readVars
<1>4. RetType' /\ ret'.call = "freadall" /\ ret'.res = r /\ r # "ok"
  <2>1. <<>> \in Seq(Bytes) /\ "freadall" \in Calls /\ r \in Results /\ r # "ok"
    BY DEF Calls, Results, Refusals
  <2> QED BY <1>1, <2>1, AnswerType, Zenon DEF RetType
<1>5. PositionAccounts'
  <2>1. CASE r = "lost"
    BY <1>4, <2>1, Zenon DEF PositionAccounts
  <2>2. CASE r # "lost"
    <3>1. pos' = start' + Len(taken')
      BY <1>1, <1>2, <2>2
    <3> QED BY <3>1, Zenon DEF PositionAccounts
  <2> QED BY <2>1, <2>2, Zenon
<1>6. LineComplete' /\ FailureLosesOneByte' /\ AllRead'
  BY <1>4 DEF LineComplete, FailureLosesOneByte, AllRead
<1>7. TypeOK'
  BY <1>2, <1>3, <1>4, TypePartsNext, Zenon
<1> QED BY <1>1, <1>2, <1>3, <1>5, <1>6, <1>7, Ended, Zenon

LEMMA FreadallStopsInv ==
    ASSUME ReadersInv, FreadallRefused \/ FreadallLost \/ FreadallCanceled
    PROVE  ReadersInv'
<1>1. TypeOK /\ StreamType
  BY TypeParts, Zenon DEF ReadersInv
<1>2. CASE FreadallRefused
  <2>1. \E r \in {"EINVAL", "-1", "errno", "EISDIR"} : Return("freadall", r, <<>>)
    BY <1>2, Zenon DEF FreadallRefused
  <2>2. \E r \in {"EINVAL", "-1", "errno", "EISDIR"} : Refused(r)
    BY <1>2, <2>1, Zenon DEF FreadallRefused, Refused, streamVars
  <2>3. PICK r \in {"EINVAL", "-1", "errno", "EISDIR"} : Refused(r)
    BY <2>2, Zenon
  <2>4. r \in Refusals
    BY DEF Refusals
  <2> QED BY <2>3, <2>4, RefusedInv, Zenon
<1>3. CASE FreadallLost
  <2>1. Seekable /\ pos' \in Nat /\ eof' \in BOOLEAN /\ err' \in BOOLEAN
    <3>1. Len(file) \in Nat /\ pos \in Nat
      BY <1>1 DEF StreamType
    <3>2. pos' = pos \/ pos' = Len(file)
      BY <1>3 DEF FreadallLost, RestoreFails
    <3>3. Seekable /\ eof' = eof /\ err' = err
      BY <1>3, Zenon DEF FreadallLost, RestoreFails
    <3> QED BY <1>1, <3>1, <3>2, <3>3, Zenon DEF StreamType
  <2>2. Refused("lost")
    BY <1>3, <2>1, Zenon DEF FreadallLost, Refused, Discovers
  <2>3. "lost" \in Refusals
    BY DEF Refusals
  <2> QED BY <2>2, <2>3, RefusedInv, Zenon
<1>4. CASE FreadallCanceled
  <2>1. Restored
    BY <1>4, Zenon DEF FreadallCanceled
  <2>2. Refused("ECANCELED")
    BY <1>1, <1>4, <2>1, Restores, Zenon DEF FreadallCanceled, Refused, Discovers
  <2>3. "ECANCELED" \in Refusals
    BY DEF Refusals
  <2> QED BY <2>2, <2>3, RefusedInv, Zenon
<1> QED BY <1>2, <1>3, <1>4, Zenon

LEMMA FirstSizeType ==
    ASSUME NEW size \in Nat, NEW blk \in 0..SIZE_MAX, pos \in Nat
    PROVE  FirstSize(size, blk) \in 0..SIZE_MAX
<1> DEFINE left == IF size > 0 /\ Seekable THEN (size - pos) % (SIZE_MAX + 1) ELSE size
<1>1. SIZE_MAX \in Nat
  BY FreadallAssumption
<1>2. left \in Nat
  BY <1>1
<1> HIDE DEF left
<1>3. (left + 1) % (SIZE_MAX + 1) \in 0..SIZE_MAX
  BY <1>1, <1>2
<1> QED BY <1>3 DEF FirstSize, left

LEMMA FreadallBeginInv ==
    ASSUME ReadersInv, FreadallBegin
    PROVE  ReadersInv'
<1>1. TypeOK /\ StreamType /\ EndStays
  BY TypeParts, Zenon DEF ReadersInv
<1>2. PICK size \in DiscoveredSizes :
          /\ Accepts(FirstSize(size, DiscoveredBlock), DiscoveredBlock)
          /\ exact' = /\ kind = "reg" /\ pos <= size /\ size - pos < SIZE_MAX
                      /\ file_size' = FirstSize(size, DiscoveredBlock)
  BY Zenon DEF FreadallBegin
<1>3. exact' \in BOOLEAN
  BY <1>2, Zenon
<1>4. Begins /\ LineUsed /\ UNCHANGED <<kind, file, writes>> /\ Restored /\ ret' = None /\ pc' = "loop" /\ kind # "odd"
  BY Zenon DEF FreadallBegin, Discovers, NoPosition
<1>5. /\ UNCHANGED <<pos, eof, err>> \/ (Seekable /\ pos' \in Nat /\ eof' \in BOOLEAN /\ err' \in BOOLEAN)
      /\ pos' = pos
  BY <1>1, <1>4, Restores, Zenon
<1>6. /\ StreamType' /\ HistType' /\ LineType' /\ Buffers' /\ EndStays'
      /\ start' = pos /\ pos \in Nat /\ file \in Seq(Bytes)
      /\ taken' = <<>> /\ buf' = <<>>
  BY <1>3, <1>4, <1>5, FreadallStarts, Zenon
<1>7. bytes_read' = 0 /\ p' = NoBytes /\ ReadType'
  <2>1. bytes_read' = 0 /\ p' = NoBytes
    BY <1>2, Zenon DEF Accepts
  <2>2. size \in Nat
    BY <1>6 DEF DiscoveredSizes
  <2>3. DiscoveredBlock \in 0..SIZE_MAX
    BY FreadallAssumption DEF DiscoveredBlock
  <2>4. FirstSize(size, DiscoveredBlock) \in 0..SIZE_MAX
    BY <1>6, <2>2, <2>3, FirstSizeType
  <2>5. file_size' \in 0..SIZE_MAX /\ blk_size' \in 0..SIZE_MAX
    BY <1>2, <2>3, <2>4, FreadallAssumption, Zenon DEF Accepts
  <2>6. 0 \in Nat /\ NoBytes \in [room : 0..SIZE_MAX, data : Seq(Bytes)]
    BY FreadallAssumption DEF NoBytes
  <2> QED BY <2>1, <2>5, <2>6, Zenon DEF ReadType
<1>8. RetType' /\ PcType'
  BY <1>4, NoneType DEF RetType, PcType
<1>9. InLine' /\ NoLoop' /\ pc' # "idle"
  BY <1>4 DEF InLine, NoLoop
<1>10. InLoop'
  <2>1. Len(<<>>) = 0 /\ NoBytes.data = <<>> /\ NoBytes.room = 0
    BY DEF NoBytes
  <2> QED BY <1>4, <1>6, <1>7, <2>1 DEF InLoop
<1>11. NotIdle'
  <2>1. pos' = start' + Len(taken')
    BY <1>5, <1>6
  <2> QED BY <1>4, <2>1, Zenon DEF NotIdle
<1>12. InFile'
  <2>1. SubSeq(file, pos + 1, pos) = <<>>
    BY <1>6
  <2>2. taken' = SubSeq(file', start' + 1, pos')
    BY <1>4, <1>5, <1>6, <2>1, Zenon
  <2>3. eof' => pos' >= Len(file')
    <3>1. CASE Seekable
      BY <1>4, <3>1, Zenon DEF Restored, SeekTo
    <3>2. CASE ~Seekable
      <4>1. kind \in {"pipe", "cookie"}
        BY <1>1, <1>4, <3>2, StreamAssumption DEF StreamType, AllKinds, Seekable
      <4>2. UNCHANGED <<pos, eof, file>>
        BY <1>4, <3>2, Zenon DEF Restored
      <4> QED BY <1>1, <4>1, <4>2, Zenon DEF EndStays
    <3> QED BY <3>1, <3>2, Zenon
  <2> QED BY <1>6, <2>2, <2>3, Zenon DEF InFile
<1>13. TypeOK'
  BY <1>6, <1>7, <1>8, TypePartsNext, Zenon
<1> QED BY <1>6, <1>9, <1>10, <1>11, <1>12, <1>13, WentOn, Zenon
-----------------------------------------------------------------------------
(* The loop of vsc_freadalla_ex                                            *)

LEMMA InLoopFacts ==
    ASSUME ReadersInv, pc \in {"loop", "fread"}
    PROVE  /\ TypeOK /\ EndStays /\ Buffers /\ ret = None /\ buf = <<>>
           /\ p.data = taken /\ Len(taken) = bytes_read /\ taken \in Seq(Bytes)
           /\ p.room > 0 => p.room = file_size /\ bytes_read <= p.room
           /\ p.room = 0 => bytes_read = 0
           /\ pc = "fread" => p.room > 0
           /\ pos = start + Len(taken) /\ start \in Nat /\ pos \in Nat /\ file \in Seq(Bytes)
           /\ p \in [room : 0..SIZE_MAX, data : Seq(Bytes)] /\ p.room \in Nat
           /\ file_size \in Nat /\ bytes_read \in Nat
           /\ ~changed => /\ taken = SubSeq(file, start + 1, pos)
                          /\ pos <= Len(file) \/ taken = <<>>
                          /\ eof => pos >= Len(file)
<1>1. TypeOK /\ InLoop /\ NotIdle /\ InFile /\ Buffers /\ EndStays
  BY Zenon DEF ReadersInv
<1>2. /\ taken \in Seq(Bytes) /\ start \in Nat /\ pos \in Nat /\ file \in Seq(Bytes)
      /\ p \in [room : 0..SIZE_MAX, data : Seq(Bytes)]
      /\ file_size \in 0..SIZE_MAX /\ bytes_read \in Nat
  BY <1>1, TypeParts, Zenon DEF HistType, ReadType, StreamType
<1>3. p.room \in Nat /\ file_size \in Nat
  BY <1>2, FreadallAssumption
<1>4. pos = start + Len(taken)
  BY <1>1 DEF NotIdle
<1> QED BY <1>1, <1>2, <1>3, <1>4, Zenon DEF InLoop, InFile

LEMMA LoopGrowInv ==
    ASSUME ReadersInv, LoopGrow
    PROVE  ReadersInv'
<1>1. /\ pc = "loop" /\ pc' = "fread" /\ UNCHANGED <<streamVars, lineVars, ret, hist>>
      /\ ~Endless
      /\ file_size' = Grown /\ p' = [p EXCEPT !.room = Grown]
      /\ blk_size' = blk_size /\ bytes_read' = bytes_read
  BY Zenon DEF LoopGrow, Grow
<1>2. UNCHANGED <<kind, file, pos, eof, err, writes, lineptr, n, buf, ret, start, taken, changed, exact>>
  BY <1>1, Zenon DEF streamVars, lineVars, hist
<1>3. /\ TypeOK /\ EndStays /\ Buffers /\ NotIdle /\ InFile
      /\ StreamType /\ LineType /\ HistType /\ ReadType /\ RetType
  BY TypeParts, Zenon DEF ReadersInv
<1>4. /\ ret = None /\ buf = <<>> /\ p.data = taken /\ Len(taken) = bytes_read
      /\ p \in [room : 0..SIZE_MAX, data : Seq(Bytes)] /\ bytes_read \in Nat
  BY <1>1, InLoopFacts, Zenon
<1>5. Grown \in 0..SIZE_MAX /\ Grown > bytes_read
  BY <1>1, <1>3, GrownCovers
<1>6. p'.data = taken /\ p'.room = Grown /\ p' \in [room : 0..SIZE_MAX, data : Seq(Bytes)]
  BY <1>1, <1>4, <1>5
<1>7. ReadType'
  BY <1>1, <1>3, <1>5, <1>6, Zenon DEF ReadType
<1>8. StreamType' /\ LineType' /\ HistType' /\ RetType' /\ PcType'
  <2>1. PcType'
    BY <1>1 DEF PcType
  <2> QED BY <1>2, <1>3, <2>1, Zenon DEF StreamType, LineType, HistType, RetType
<1>9. TypeOK'
  BY <1>7, <1>8, TypePartsNext, Zenon
<1>10. EndStays' /\ Buffers' /\ NotIdle' /\ NoLoop' /\ InLine' /\ InFile' /\ pc' # "idle"
  <2>1. EndStays' /\ Buffers'
    BY <1>2, <1>3, Zenon DEF EndStays, Buffers
  <2>2. NoLoop' /\ InLine' /\ pc' # "idle"
    BY <1>1 DEF NoLoop, InLine
  <2>3. NotIdle' /\ InFile'
    BY <1>1, <1>2, <1>3, Zenon DEF NotIdle, InFile
  <2> QED BY <2>1, <2>2, <2>3, Zenon
<1>11. InLoop'
  <2>1. p'.room = file_size' /\ bytes_read' <= p'.room /\ p'.room > 0
    BY <1>1, <1>4, <1>5, <1>6
  <2>2. ret' = None /\ buf' = <<>> /\ p'.data = taken' /\ Len(taken') = bytes_read'
    BY <1>1, <1>2, <1>4, <1>6, Zenon
  <2>3. ~(p'.room = 0)
    BY <2>1
  <2> QED BY <2>1, <2>2, <2>3, Zenon DEF InLoop
<1> QED BY <1>9, <1>10, <1>11, WentOn, Zenon

LEMMA FreadSomeInv ==
    ASSUME ReadersInv, FreadSome
    PROVE  ReadersInv'
<1>1. PICK k \in 1..MaxFile : Fread(k)
  BY Zenon DEF FreadSome
<1>2. pc = "fread" /\ Reads /\ UNCHANGED <<lineVars, pc, ret>>
  BY Zenon DEF FreadSome
<1>3. /\ k = Min2(Want, Available) /\ k > 0 /\ Take(k)
      /\ p' = [p EXCEPT !.data = SubSeq(p.data, 1, bytes_read) \o Bytes_(k)]
      /\ bytes_read' = bytes_read + k /\ file_size' = file_size /\ blk_size' = blk_size
  BY <1>1, Zenon DEF Fread
<1>4. /\ TypeOK /\ EndStays /\ Buffers /\ ret = None /\ buf = <<>>
      /\ p.data = taken /\ Len(taken) = bytes_read /\ taken \in Seq(Bytes)
      /\ p.room > 0 /\ p.room = file_size /\ bytes_read <= p.room
      /\ pos = start + Len(taken) /\ start \in Nat /\ pos \in Nat /\ file \in Seq(Bytes)
      /\ p \in [room : 0..SIZE_MAX, data : Seq(Bytes)] /\ p.room \in Nat
      /\ file_size \in Nat /\ bytes_read \in Nat
      /\ ~changed => taken = SubSeq(file, start + 1, pos)
  BY <1>2, InLoopFacts, Zenon
<1>5. /\ pos' = pos + k /\ eof' = eof /\ err' = err /\ ~eof
      /\ UNCHANGED <<kind, file, writes, start, changed, exact, lineptr, n, buf, pc, ret>>
  BY <1>2, <1>3, Zenon DEF Take, Reads, lineVars
<1>6. k \in Nat /\ pos + k <= Len(file) /\ k <= file_size - bytes_read
  <2>1. Len(file) \in Nat /\ k \in Nat
    BY <1>1, <1>4, StreamAssumption
  <2>2. /\ k <= Available /\ k <= Want /\ k > 0
    <3>1. Available \in Int /\ Want \in Int
      BY <1>4, <2>1 DEF Want, Available
    <3> QED BY <1>3, <3>1 DEF Min2
  <2> QED BY <1>4, <2>1, <2>2 DEF Want, Available
<1>7. /\ taken' = taken \o SubSeq(file, pos + 1, pos + k) /\ SubSeq(file, pos + 1, pos + k) \in Seq(Bytes)
      /\ Len(SubSeq(file, pos + 1, pos + k)) = k
  <2>1. pos' > pos
    BY <1>3, <1>4, <1>5, <1>6
  <2>2. taken' = taken \o SubSeq(file, pos + 1, pos')
    BY <1>2, <2>1, Zenon DEF Reads
  <2>3. pos + k \in Nat
    BY <1>4, <1>6
  <2>4. SubSeq(file, pos + 1, pos + k) \in Seq(Bytes)
    BY <1>4, <1>6, <2>3, Part
  <2>5. Len(SubSeq(file, pos + 1, pos + k)) = k
    BY <1>3, <1>4, <1>6
  <2> QED BY <1>5, <2>2, <2>4, <2>5, Zenon
<1>8. taken' \in Seq(Bytes) /\ Len(taken') = Len(taken) + k
  <2>1. taken \in Seq(Bytes)
    BY <1>4, Zenon
  <2> QED BY <1>7, <2>1, ConcatProperties, Zenon
<1>9. p'.data = taken' /\ p'.room = p.room /\ p' \in [room : 0..SIZE_MAX, data : Seq(Bytes)]
  <2>1. SubSeq(p.data, 1, bytes_read) = taken
    BY <1>4
  <2>2. p' = [p EXCEPT !.data = taken']
    BY <1>3, <1>7, <2>1, Zenon DEF Bytes_
  <2> QED BY <1>4, <1>8, <2>2
<1>10. ReadType'
  <2>1. bytes_read' \in Nat
    BY <1>3, <1>4, <1>6
  <2> QED BY <1>3, <1>4, <1>9, <2>1, TypeParts, Zenon DEF ReadType
<1>11. StreamType' /\ LineType' /\ HistType' /\ RetType' /\ PcType'
  <2>1. pos' \in Nat
    BY <1>4, <1>5, <1>6
  <2> QED BY <1>4, <1>5, <1>8, <2>1, TypeParts, Zenon DEF StreamType, LineType, HistType, RetType, PcType
<1>12. TypeOK'
  BY <1>10, <1>11, TypePartsNext, Zenon
<1>13. EndStays' /\ Buffers' /\ NoLoop' /\ InLine' /\ pc' # "idle"
  <2>1. EndStays' /\ Buffers'
    BY <1>4, <1>5, Zenon DEF EndStays, Buffers
  <2>2. NoLoop' /\ InLine' /\ pc' # "idle"
    BY <1>2, <1>5 DEF NoLoop, InLine
  <2> QED BY <2>1, <2>2, Zenon
<1>14. NotIdle'
  <2>1. pos' = start' + Len(taken')
    <3>1. Len(taken) \in Nat
      BY <1>4
    <3> QED BY <1>4, <1>5, <1>6, <1>8, <3>1
  <2> QED BY <1>4, <1>5, <2>1, Zenon DEF NotIdle
<1>15. InLoop'
  <2>1. p'.room > 0 /\ p'.room = file_size' /\ bytes_read' <= p'.room /\ Len(taken') = bytes_read'
    BY <1>3, <1>4, <1>6, <1>8, <1>9
  <2>2. ~(p'.room = 0)
    BY <2>1
  <2> QED BY <1>4, <1>5, <1>9, <2>1, <2>2, Zenon DEF InLoop
<1>16. InFile'
  <2> SUFFICES ASSUME ~changed PROVE taken' = SubSeq(file', start' + 1, pos') /\ pos' <= Len(file')
    BY <1>5, Zenon DEF InFile
  <2>1. start <= pos /\ pos <= pos + k /\ pos + k \in Nat
    <3>1. Len(taken) \in Nat
      BY <1>4
    <3> QED BY <1>4, <1>6, <3>1
  <2>2. taken = SubSeq(file, start + 1, pos)
    BY <1>4, Zenon
  <2>3. SubSeq(file, start + 1, pos) \o SubSeq(file, pos + 1, pos + k) = SubSeq(file, start + 1, pos + k)
    BY <1>4, <1>6, <2>1, Pieces
  <2>4. taken' = SubSeq(file', start' + 1, pos')
    BY <1>5, <1>7, <2>2, <2>3, Zenon
  <2>5. pos' <= Len(file')
    BY <1>5, <1>6, Zenon
  <2> QED BY <2>4, <2>5, Zenon
<1> QED BY <1>12, <1>13, <1>14, <1>15, <1>16, WentOn, Zenon

\* A way out of the call that keeps what was taken.
LEMMA LeaveInv ==
    ASSUME ReadersInv, pc \in {"loop", "fread"}, NEW r \in Results \ {"lost"}, NEW d \in Seq(Bytes),
           Return("freadall", r, d), Dropped, UNCHANGED lineVars,
           StreamType', HistType', EndStays', pos' = pos, taken' = taken, start' = start, AllRead'
    PROVE  ReadersInv'
<1>1. /\ Buffers /\ pos = start + Len(taken) /\ NoBytes \in [room : 0..SIZE_MAX, data : Seq(Bytes)]
      /\ LineType
  <2>1. NoBytes \in [room : 0..SIZE_MAX, data : Seq(Bytes)]
    BY FreadallAssumption DEF NoBytes
  <2> QED BY <2>1, InLoopFacts, TypeParts, Zenon
<1>2. pc' = "idle" /\ ret' = [call |-> "freadall", res |-> r, data |-> d]
  BY Zenon DEF Return
<1>3. RetType' /\ PcType' /\ ret'.call = "freadall" /\ ret'.res = r
  <2>1. "freadall" \in Calls /\ r \in Results
    BY DEF Calls
  <2>2. PcType'
    BY <1>2 DEF PcType
  <2> QED BY <1>2, <2>1, <2>2, AnswerType, Zenon DEF RetType
<1>4. ReadType' /\ NoLoop' /\ LineType' /\ Buffers'
  <2>1. file_size' = 0 /\ blk_size' = DefaultBlkSize /\ bytes_read' = 0 /\ p' = NoBytes
    BY Zenon DEF Dropped, Locals
  <2>2. 0 \in 0..SIZE_MAX /\ DefaultBlkSize \in 0..SIZE_MAX /\ 0 \in Nat
    BY FreadallAssumption
  <2>3. ReadType'
    BY <1>1, <2>1, <2>2, Zenon DEF ReadType
  <2>4. LineType'
    BY <1>1, LineKept, Zenon
  <2>5. Buffers'
    BY <1>1, Zenon DEF Buffers, lineVars
  <2> QED BY <2>1, <2>3, <2>4, <2>5, Zenon DEF NoLoop
<1>5. PositionAccounts' /\ LineComplete' /\ FailureLosesOneByte'
  <2>1. PositionAccounts'
    BY <1>1, Zenon DEF PositionAccounts
  <2>2. ret'.call # "getdelim"
    BY <1>3
  <2> QED BY <2>1, <2>2, Zenon DEF LineComplete, FailureLosesOneByte
<1>6. TypeOK'
  BY <1>3, <1>4, TypePartsNext, Zenon
<1> QED BY <1>2, <1>4, <1>5, <1>6, Ended, Zenon

LEMMA LoopNoMemoryInv ==
    ASSUME ReadersInv, LoopNoMemory
    PROVE  ReadersInv'
<1>1. /\ pc \in {"loop", "fread"} /\ Return("freadall", "ENOMEM", <<>>) /\ Dropped
      /\ UNCHANGED <<streamVars, lineVars, hist>>
  BY Zenon DEF LoopNoMemory, GrowFails
<1>2. UNCHANGED <<kind, file, pos, eof, err, writes, start, taken, changed, exact>> /\ UNCHANGED lineVars
  BY <1>1, Zenon DEF streamVars, hist
<1>3. StreamType' /\ HistType' /\ EndStays'
  BY <1>2, TypeParts, Zenon DEF ReadersInv, StreamType, HistType, EndStays
<1>4. <<>> \in Seq(Bytes) /\ "ENOMEM" \in Results \ {"lost"} /\ "ENOMEM" # "ok"
  BY DEF Results
<1>5. AllRead'
  <2>1. ret' = [call |-> "freadall", res |-> "ENOMEM", data |-> <<>>]
    BY <1>1, Zenon DEF Return
  <2>2. ret'.res = "ENOMEM"
    BY <2>1
  <2> QED BY <1>4, <2>2, Zenon DEF AllRead
<1> QED BY <1>1, <1>2, <1>3, <1>4, <1>5, LeaveInv, Zenon

LEMMA LoopEndInv ==
    ASSUME ReadersInv, LoopEnd
    PROVE  ReadersInv'
<1>1. /\ pc \in {"loop", "fread"} /\ Dropped /\ UNCHANGED <<streamVars, lineVars, hist>> /\ (eof \/ err)
      /\ IF err THEN Return("freadall", "EIO", <<>>) ELSE Return("freadall", "ok", SubSeq(p.data, 1, bytes_read))
  BY Zenon DEF LoopEnd, More
<1>2. UNCHANGED <<kind, file, pos, eof, err, writes, start, taken, changed, exact>> /\ UNCHANGED lineVars
  BY <1>1, Zenon DEF streamVars, hist
<1>3. StreamType' /\ HistType' /\ EndStays'
  BY <1>2, TypeParts, Zenon DEF ReadersInv, StreamType, HistType, EndStays
<1>4. /\ <<>> \in Seq(Bytes) /\ "EIO" \in Results \ {"lost"} /\ "ok" \in Results \ {"lost"} /\ "EIO" # "ok"
      /\ "freadall" \in Calls
  BY DEF Results, Calls
<1>5. /\ p.data = taken /\ Len(taken) = bytes_read /\ taken \in Seq(Bytes)
      /\ pos = start + Len(taken) /\ start \in Nat /\ pos \in Nat /\ file \in Seq(Bytes)
      /\ ~changed => /\ taken = SubSeq(file, start + 1, pos)
                     /\ pos <= Len(file) \/ taken = <<>>
                     /\ eof => pos >= Len(file)
  BY <1>1, InLoopFacts, Zenon
<1>6. CASE err
  <2>1. Return("freadall", "EIO", <<>>)
    BY <1>1, <1>6, Zenon
  <2>2. ret'.res = "EIO"
    <3>1. ret' = [call |-> "freadall", res |-> "EIO", data |-> <<>>]
      BY <2>1, Zenon DEF Return
    <3> QED BY <3>1
  <2>3. AllRead'
    BY <1>4, <2>2, Zenon DEF AllRead
  <2> QED BY <1>1, <1>2, <1>3, <1>4, <2>1, <2>3, LeaveInv, Zenon
<1>7. CASE ~err
  <2>1. SubSeq(p.data, 1, bytes_read) = taken
    <3>1. SubSeq(taken, 1, Len(taken)) = taken
      BY <1>5
    <3> QED BY <1>5, <3>1, Zenon
  <2>2. Return("freadall", "ok", taken) /\ eof
    BY <1>1, <1>7, <2>1, Zenon
  <2>3. ret'.data = taken
    <3>1. ret' = [call |-> "freadall", res |-> "ok", data |-> taken]
      BY <2>2, Zenon DEF Return
    <3> QED BY <3>1
  <2>4. ~changed => taken = SubSeq(file, start + 1, Len(file))
    <3> SUFFICES ASSUME ~changed PROVE taken = SubSeq(file, start + 1, Len(file))
      BY Zenon
    <3>1. taken = SubSeq(file, start + 1, pos) /\ pos >= Len(file) /\ (pos <= Len(file) \/ taken = <<>>)
      BY <1>5, <2>2, Zenon
    <3>2. CASE pos <= Len(file)
      <4>1. pos = Len(file)
        <5>1. Len(file) \in Nat /\ pos \in Nat /\ pos >= Len(file)
          BY <1>5, <3>1
        <5> QED BY <3>2, <5>1
      <4> QED BY <3>1, <4>1, Zenon
    <3>3. CASE taken = <<>>
      <4>1. start + 1 > Len(file)
        <5>1. Len(file) \in Nat /\ pos \in Nat /\ pos >= Len(file) /\ pos = start + Len(taken) /\ start \in Nat
          BY <1>5, <3>1
        <5>2. Len(taken) = 0
          BY <3>3
        <5> QED BY <5>1, <5>2
      <4>2. SubSeq(file, start + 1, Len(file)) = <<>>
        <5>1. file \in Seq(Bytes) /\ start \in Nat
          BY <1>5, Zenon
        <5> QED BY <4>1, <5>1
      <4> QED BY <3>3, <4>2, Zenon
    <3> QED BY <3>1, <3>2, <3>3, Zenon
  <2>5. AllRead'
    BY <1>2, <1>7, <2>2, <2>3, <2>4, Zenon DEF AllRead
  <2> QED BY <1>1, <1>2, <1>3, <1>4, <1>5, <2>2, <2>5, LeaveInv, Zenon
<1> QED BY <1>6, <1>7, Zenon

LEMMA FreadReturnsInv ==
    ASSUME ReadersInv, FreadReturns
    PROVE  ReadersInv'
<1>1. /\ pc = "fread" /\ Reads /\ UNCHANGED lineVars
      /\ HitEnd \/ ReadError \/ UNCHANGED <<pos, eof, err>>
  BY Zenon DEF FreadReturns
<1>2. /\ TypeOK /\ EndStays /\ Buffers /\ ret = None /\ buf = <<>>
      /\ p.data = taken /\ Len(taken) = bytes_read
      /\ p.room > 0 /\ p.room = file_size /\ bytes_read <= p.room
      /\ pos = start + Len(taken) /\ pos \in Nat /\ file \in Seq(Bytes)
      /\ p.room \in Nat
      /\ ~changed => /\ taken = SubSeq(file, start + 1, pos)
                     /\ pos <= Len(file) \/ taken = <<>>
                     /\ eof => pos >= Len(file)
  BY <1>1, InLoopFacts, Zenon
<1>3. pos' = pos /\ eof' \in BOOLEAN /\ err' \in BOOLEAN
  <2>1. CASE UNCHANGED <<pos, eof, err>>
    BY <1>2, <2>1, TypeParts, Zenon DEF StreamType
  <2> QED BY <1>1, <1>2, <2>1, EndOrError, Zenon
<1>4. /\ taken' = taken /\ StreamType' /\ HistType' /\ EndStays'
      /\ UNCHANGED <<kind, file, writes, start, changed, exact>>
  BY <1>1, <1>2, <1>3, ReadsNone, EndIsKept, Zenon DEF Reads
<1>5. CASE pc' = "loop" /\ UNCHANGED <<readVars, ret>>
  <2>1. UNCHANGED <<file_size, blk_size, bytes_read, p, ret, lineptr, n, buf>>
    BY <1>1, <1>5, Zenon DEF readVars, lineVars
  <2>2. ReadType' /\ LineType' /\ RetType' /\ PcType'
    <3>1. PcType'
      BY <1>5 DEF PcType
    <3> QED BY <1>2, <2>1, <3>1, TypeParts, Zenon DEF ReadType, LineType, RetType
  <2>3. TypeOK'
    BY <1>4, <2>2, TypePartsNext, Zenon
  <2>4. NoLoop' /\ InLine' /\ pc' # "idle"
    BY <1>5 DEF NoLoop, InLine
  <2>5. Buffers' /\ NotIdle'
    BY <1>2, <1>3, <1>4, <2>1, Zenon DEF Buffers, NotIdle
  <2>6. InLoop'
    <3>1. ~(p'.room = 0) /\ pc' # "fread"
      BY <1>2, <1>5, <2>1
    <3> QED BY <1>2, <1>4, <2>1, <3>1, Zenon DEF InLoop
  <2>7. InFile'
    <3> SUFFICES ASSUME ~changed PROVE eof' => pos' >= Len(file')
      BY <1>2, <1>3, <1>4, Zenon DEF InFile
    <3>1. CASE HitEnd /\ AtEnd
      <4>1. Available = 0 /\ kind # "dir"
        BY <3>1, Zenon DEF AtEnd
      <4>2. pos >= Len(file)
        BY <1>2, <4>1 DEF Available
      <4> QED BY <1>3, <1>4, <4>2, Zenon
    <3>2. CASE (HitEnd /\ eof) \/ ReadError \/ UNCHANGED <<pos, eof, err>>
      <4>1. eof' => eof
        BY <3>2, Zenon DEF ReadError
      <4> QED BY <1>2, <1>3, <1>4, <4>1, Zenon
    <3> QED BY <1>1, <3>1, <3>2, Zenon DEF HitEnd
  <2> QED BY <1>4, <2>3, <2>4, <2>5, <2>6, <2>7, WentOn, Zenon
<1>6. CASE Dropped /\ Return("freadall", "ECANCELED", <<>>)
  <2>1. <<>> \in Seq(Bytes) /\ "ECANCELED" \in Results \ {"lost"} /\ "ECANCELED" # "ok"
    BY DEF Results
  <2>2. AllRead'
    <3>1. ret' = [call |-> "freadall", res |-> "ECANCELED", data |-> <<>>]
      BY <1>6, Zenon DEF Return
    <3>2. ret'.res = "ECANCELED"
      BY <3>1
    <3> QED BY <2>1, <3>2, Zenon DEF AllRead
  <2>3. pc \in {"loop", "fread"}
    BY <1>1
  <2> QED BY <1>1, <1>3, <1>4, <1>6, <2>1, <2>2, <2>3, LeaveInv, Zenon
<1> QED BY <1>5, <1>6, Zenon DEF FreadReturns
-----------------------------------------------------------------------------
(* The user between calls, and the others                                  *)

LEMMA StillInv ==
    ASSUME ReadersInv, UNCHANGED vars
    PROVE  ReadersInv'
<1>1. UNCHANGED <<kind, file, pos, eof, err, writes, lineptr, n, buf, file_size, blk_size, bytes_read, p,
                  pc, ret, start, taken, changed, exact>>
  BY Zenon DEF vars, streamVars, lineVars, readVars, hist
<1>2. TypeOK'
  BY <1>1, TypeParts, TypePartsNext, Zenon
     DEF ReadersInv, StreamType, LineType, ReadType, PcType, RetType, HistType
<1>3. InLine' /\ InLoop' /\ InFile' /\ EndStays' /\ NotIdle' /\ Buffers' /\ NoLoop'
  BY <1>1, Zenon DEF ReadersInv, InLine, InLoop, InFile, EndStays, NotIdle, Buffers, NoLoop
<1>4. PositionAccounts' /\ LineComplete' /\ FailureLosesOneByte' /\ AllRead'
  BY <1>1, Zenon DEF ReadersInv, PositionAccounts, LineComplete, FailureLosesOneByte, AllRead
<1> QED BY <1>2, <1>3, <1>4, Zenon DEF ReadersInv

LEMMA UserSeeksInv ==
    ASSUME ReadersInv, UserSeeks
    PROVE  ReadersInv'
<1>1. /\ pc = "idle" /\ Seekable /\ ret' = None /\ eof' = FALSE /\ err' = err
      /\ UNCHANGED <<kind, file, writes>> /\ UNCHANGED lineVars /\ UNCHANGED readVars
      /\ pc' = pc /\ UNCHANGED <<start, taken, changed, exact>>
  BY Zenon DEF UserSeeks, SeekTo, hist
<1>2. pos' \in Nat
  <2>1. \E offset \in 0..(MaxFile + 2) : pos' = offset
    BY Zenon DEF UserSeeks, SeekTo
  <2> QED BY <2>1, StreamAssumption
<1>3. /\ TypeOK /\ EndStays /\ Buffers /\ NoLoop
      /\ StreamType /\ LineType /\ ReadType /\ PcType /\ HistType
  BY TypeParts, Zenon DEF ReadersInv
<1>4. TypeOK'
  <2>1. StreamType' /\ HistType' /\ PcType' /\ RetType'
    BY <1>1, <1>2, <1>3, NoneType, Zenon DEF StreamType, HistType, PcType, RetType
  <2>2. LineType' /\ ReadType'
    BY <1>1, <1>3, LineKept, ReadKept, Zenon
  <2> QED BY <2>1, <2>2, TypePartsNext, Zenon
<1>5. EndStays' /\ Buffers' /\ NoLoop'
  <2>1. p = NoBytes
    BY <1>1, <1>3 DEF NoLoop
  <2> QED BY <1>1, <1>3, <2>1, Zenon DEF EndStays, Buffers, NoLoop, lineVars, readVars
<1>6. PositionAccounts' /\ LineComplete' /\ FailureLosesOneByte' /\ AllRead'
  <2>1. ret'.call = "none" /\ pc' = "idle"
    BY <1>1, NoneType, Zenon
  <2> QED BY <2>1 DEF PositionAccounts, LineComplete, FailureLosesOneByte, AllRead
<1>7. pc' = "idle"
  BY <1>1, Zenon
<1> QED BY <1>4, <1>5, <1>6, <1>7, Ended, Zenon

LEMMA OthersKeepType ==
    ASSUME StreamType, Others
    PROVE  StreamType' /\ writes > 0 /\ UNCHANGED <<kind, pos, eof, err>>
<1>1. file \in Seq(Bytes) /\ writes \in 0..MaxWrites /\ MaxWrites \in Nat
  BY StreamAssumption, Zenon DEF StreamType
<1>2. CASE Close
  <2>1. writes' \in 0..MaxWrites
    BY <1>1, <1>2 DEF Close
  <2> QED BY <1>2, <2>1, Zenon DEF Close, StreamType
<1>3. CASE \E b \in Bytes : Extend(b)
  <2>1. PICK b \in Bytes : writes > 0 /\ file' = Append(file, b) /\ writes' = writes - 1 /\ UNCHANGED <<kind, pos, eof, err>>
    BY <1>3, Zenon DEF Extend
  <2>2. writes' \in 0..MaxWrites
    BY <1>1, <2>1
  <2>3. file' \in Seq(Bytes)
    BY <1>1, <2>1, OneMore
  <2> QED BY <2>1, <2>2, <2>3, Zenon DEF StreamType
<1>4. CASE \E m \in 0..MaxFile : Truncate(m)
  <2>1. PICK m \in 0..MaxFile : writes > 0 /\ m < Len(file) /\ file' = SubSeq(file, 1, m) /\ writes' = writes - 1
                                /\ UNCHANGED <<kind, pos, eof, err>>
    BY <1>4, Zenon DEF Truncate
  <2>2. writes' \in 0..MaxWrites
    BY <1>1, <2>1
  <2>3. file' \in Seq(Bytes)
    <3>1. m \in Nat /\ m <= Len(file) /\ 0 \in Nat
      BY <1>1, <2>1, StreamAssumption
    <3>2. SubSeq(file, 0 + 1, m) \in Seq(Bytes)
      BY <1>1, <3>1, Part
    <3> QED BY <2>1, <3>2
  <2> QED BY <2>1, <2>2, <2>3, Zenon DEF StreamType
<1> QED BY <1>2, <1>3, <1>4, Zenon DEF Others

LEMMA OthersWriteInv ==
    ASSUME ReadersInv, OthersWrite
    PROVE  ReadersInv'
<1>1. Others /\ changed' = TRUE /\ UNCHANGED <<start, taken, exact, pc, ret>> /\ UNCHANGED lineVars /\ UNCHANGED readVars
  BY Zenon DEF OthersWrite
<1>2. StreamType' /\ writes > 0 /\ UNCHANGED <<kind, pos, eof, err>>
  BY <1>1, OthersKeepType, TypeParts, Zenon DEF ReadersInv
<1>3. UNCHANGED <<lineptr, n, buf, file_size, blk_size, bytes_read, p>>
  BY <1>1, Zenon DEF lineVars, readVars
<1>4. TypeOK'
  <2>1. LineType' /\ ReadType' /\ PcType' /\ RetType' /\ HistType'
    BY <1>1, <1>3, TypeParts, Zenon DEF ReadersInv, LineType, ReadType, PcType, RetType, HistType
  <2> QED BY <1>2, <2>1, TypePartsNext, Zenon
<1>5. EndStays'
  <2>1. writes # 0
    BY <1>2, TypeParts DEF ReadersInv, StreamType
  <2> QED BY <1>2, <2>1, Zenon DEF ReadersInv, EndStays
<1>6. InLine' /\ InLoop' /\ NotIdle' /\ Buffers' /\ NoLoop'
  BY <1>1, <1>2, <1>3, Zenon DEF ReadersInv, InLine, InLoop, NotIdle, Buffers, NoLoop
<1>7. InFile' /\ PositionAccounts' /\ LineComplete' /\ FailureLosesOneByte' /\ AllRead'
  BY <1>1, <1>2, <1>3, Zenon
     DEF ReadersInv, InFile, PositionAccounts, LineComplete, FailureLosesOneByte, AllRead
<1> QED BY <1>4, <1>5, <1>6, <1>7, Zenon DEF ReadersInv
-----------------------------------------------------------------------------
(* The theorems                                                            *)

\* Every step of either reader, of the user and of the others keeps the invariant.
THEOREM ReadersInductive == Spec => []ReadersInv
<1>1. ReadersInv /\ [Next]_vars => ReadersInv'
  <2> SUFFICES ASSUME ReadersInv, [Next]_vars PROVE ReadersInv'
    OBVIOUS
  <2>1. CASE GetdelimBegin
    BY <2>1, GetdelimBeginInv
  <2>2. CASE GetdelimStep
    <3>1. CASE GetdelimEnds
      BY <3>1, GetdelimEndsInv
    <3>2. CASE \E c \in Bytes : GetdelimByte(c) \/ GetdelimFails(c)
      BY <3>2, GetdelimByteInv, GetdelimFailsInv, Zenon
    <3> QED BY <2>2, <3>1, <3>2, Zenon DEF GetdelimStep
  <2>3. CASE FreadallRefused \/ FreadallLost \/ FreadallCanceled
    BY <2>3, FreadallStopsInv
  <2>4. CASE FreadallBegin
    BY <2>4, FreadallBeginInv
  <2>5. CASE FreadallStep
    BY <2>5, LoopGrowInv, LoopNoMemoryInv, FreadSomeInv, FreadReturnsInv, LoopEndInv, Zenon DEF FreadallStep
  <2>6. CASE LoopSpins
    BY <2>6, StillInv, Zenon DEF LoopSpins
  <2>7. CASE UserSeeks
    BY <2>7, UserSeeksInv
  <2>8. CASE OthersWrite
    BY <2>8, OthersWriteInv
  <2>9. CASE UNCHANGED vars
    BY <2>9, StillInv
  <2> QED BY <2>1, <2>2, <2>3, <2>4, <2>5, <2>6, <2>7, <2>8, <2>9, Zenon DEF Next
<1> QED BY InitInv, <1>1, PTL DEF Spec

\* Every variable of the readers keeps its type (getline.c, freadall.c).
THEOREM ReadersTypes == Spec => []TypeOK
<1>1. ReadersInv => TypeOK
  BY Zenon DEF ReadersInv
<1> QED BY <1>1, ReadersInductive, PTL

\* A line is what was taken from the stream, up to the first delimiter or the end
\* (getline.c:40).
THEOREM LinesAreComplete == Spec => []LineComplete
<1>1. ReadersInv => LineComplete
  BY Zenon DEF ReadersInv
<1> QED BY <1>1, ReadersInductive, PTL

\* A line that fails in the middle is in the buffer but for the byte read last
\* (getline.c:52).
THEOREM FailuresLoseOneByte == Spec => []FailureLosesOneByte
<1>1. ReadersInv => FailureLosesOneByte
  BY Zenon DEF ReadersInv
<1> QED BY <1>1, ReadersInductive, PTL

\* Whatever sizes were discovered or set, a stream is read to its end
\* (freadall.c:240).
THEOREM StreamsAreReadWhole == Spec => []AllRead
<1>1. ReadersInv => AllRead
  BY Zenon DEF ReadersInv
<1> QED BY <1>1, ReadersInductive, PTL

\* The position of the stream is where the bytes taken leave it, unless the seek back
\* failed (freadall.c:218).
THEOREM PositionsAreAccountedFor == Spec => []PositionAccounts
<1>1. ReadersInv => PositionAccounts
  BY Zenon DEF ReadersInv
<1> QED BY <1>1, ReadersInductive, PTL

\* Neither reader writes outside its buffer (getline.c:58, freadall.c:263).
THEOREM NothingOutsideTheBuffers == Spec => []BuffersInBounds
<1>1. ReadersInv => BuffersInBounds
  <2> SUFFICES ASSUME ReadersInv PROVE BuffersInBounds
    OBVIOUS
  <2>1. Len(buf) <= n /\ (pc = "getdelim" /\ buf # <<>> => Len(buf) < n)
    BY Zenon DEF ReadersInv, Buffers, InLine
  <2>2. pc = "fread" => p.room > 0
    BY DEF ReadersInv, InLoop
  <2>3. pc \in {"loop", "fread"} /\ p.room > 0 =>
            p.room = file_size /\ Len(p.data) = bytes_read /\ bytes_read <= p.room
    BY Zenon DEF ReadersInv, InLoop
  <2> QED BY <2>1, <2>2, <2>3, Zenon DEF BuffersInBounds
<1> QED BY <1>1, ReadersInductive, PTL

\* No failed call leaves a buffer behind, and the caller's stays valid unless its
\* length was 0 (freadall.c:275, getline.c:64).
THEOREM BuffersHaveOwners == Spec => []BuffersOwned
<1>1. ReadersInv => BuffersOwned
  BY Zenon DEF ReadersInv, BuffersOwned, NoLoop, Buffers, InLine
<1> QED BY <1>1, ReadersInductive, PTL
-----------------------------------------------------------------------------
(* One fread is enough for a file whose size is known                      *)

\* Until others change the file, the buffer's size is more than what is left of it:
\* the end is met before the buffer is full.
InExact ==
    exact /\ ~changed /\ pc \in {"loop", "fread"} =>
        /\ file_size > 0 /\ start <= Len(file) /\ start + file_size > Len(file)
        /\ pc = "loop" /\ p.room > 0 => eof \/ err

\* The rest of the file and one byte more, or a block if nothing is left, fit a size_t.
LEMMA FirstSizeCovers ==
    ASSUME Seekable, pos \in Nat, pos <= Len(file), file \in Seq(Bytes), Len(file) - pos < SIZE_MAX,
           NEW blk \in 1..SIZE_MAX
    PROVE  /\ FirstSize(Len(file), blk) > 0
           /\ pos + FirstSize(Len(file), blk) > Len(file)
<1> DEFINE size == Len(file)
           left == IF size > 0 /\ Seekable THEN (size - pos) % (SIZE_MAX + 1) ELSE size
<1>1. SIZE_MAX \in Nat /\ size \in Nat /\ size - pos \in 0..SIZE_MAX
  BY FreadallAssumption
<1> HIDE DEF size
<1>2. \A k \in 0..SIZE_MAX : k % (SIZE_MAX + 1) = k
  BY <1>1
<1>3. left = size - pos
  <2>1. CASE size > 0
    BY <1>1, <1>2, <2>1
  <2>2. CASE ~(size > 0)
    BY <1>1, <2>2
  <2> QED BY <2>1, <2>2
<1>4. FirstSize(size, blk) = IF left > 0 THEN (left + 1) % (SIZE_MAX + 1) ELSE blk
  BY DEF FirstSize
<1> HIDE DEF left
<1>5. size - pos < SIZE_MAX
  BY DEF size
<1>6. CASE left > 0
  <2>1. left + 1 \in 0..SIZE_MAX
    BY <1>1, <1>3, <1>5
  <2>2. FirstSize(size, blk) = left + 1
    BY <1>2, <1>4, <1>6, <2>1
  <2> QED BY <1>1, <1>3, <1>6, <2>2 DEF size
<1>7. CASE ~(left > 0)
  BY <1>1, <1>3, <1>4, <1>7 DEF size
<1> QED BY <1>6, <1>7

LEMMA ExactBegins ==
    ASSUME ReadersInv, FreadallBegin
    PROVE  InExact'
<1> SUFFICES ASSUME exact', pc' \in {"loop", "fread"} PROVE InExact'
  BY Zenon DEF InExact
<1>1. PICK size \in DiscoveredSizes :
          /\ Accepts(FirstSize(size, DiscoveredBlock), DiscoveredBlock)
          /\ exact' = /\ kind = "reg" /\ pos <= size /\ size - pos < SIZE_MAX
                      /\ file_size' = FirstSize(size, DiscoveredBlock)
  BY Zenon DEF FreadallBegin
<1>2. /\ kind = "reg" /\ pos <= size /\ size - pos < SIZE_MAX
      /\ file_size' = FirstSize(size, DiscoveredBlock)
  BY <1>1, Zenon
<1>3. size = Len(file)
  BY <1>2 DEF DiscoveredSizes
<1>4. Seekable /\ DiscoveredBlock \in 1..SIZE_MAX
  BY <1>2, FreadallAssumption DEF Seekable, DiscoveredBlock, HasDescriptor
<1>5. pos \in Nat /\ file \in Seq(Bytes)
  BY TypeParts, Zenon DEF ReadersInv, StreamType
<1>6. file_size' > 0 /\ pos + file_size' > Len(file)
  BY <1>2, <1>3, <1>4, <1>5, FirstSizeCovers, Zenon
<1>7. file' = file /\ start' = pos /\ p' = NoBytes
  BY <1>1, Zenon DEF FreadallBegin, Discovers, Begins, Accepts
<1>8. ~(p'.room > 0)
  BY <1>7 DEF NoBytes
<1> QED BY <1>2, <1>3, <1>6, <1>7, <1>8 DEF InExact

\* Before the only fread, the buffer is allocated with the size it was to have.
LEMMA ExactGrows ==
    ASSUME ReadersInv, InExact, LoopGrow
    PROVE  InExact'
<1>1. /\ pc = "loop" /\ pc' = "fread" /\ UNCHANGED <<file, start, changed, exact>>
      /\ file_size' = Grown /\ ~eof /\ ~err
  BY Zenon DEF LoopGrow, Grow, More, streamVars, hist
<1> SUFFICES ASSUME exact, ~changed
             PROVE  file_size' > 0 /\ start' <= Len(file') /\ start' + file_size' > Len(file')
  BY <1>1 DEF InExact
<1>2. file_size > 0 /\ start <= Len(file) /\ start + file_size > Len(file) /\ ~(p.room > 0)
  BY <1>1, Zenon DEF InExact
<1>3. bytes_read = 0
  BY <1>1, <1>2, InLoopFacts
<1>4. Grown = file_size
  <2>1. TypeOK /\ bytes_read < file_size
    BY <1>2, <1>3, Zenon DEF ReadersInv
  <2> QED BY <2>1, GrownStays
<1> QED BY <1>1, <1>2, <1>4

\* fread cannot have filled the buffer: it met the end, or an error.
LEMMA ExactReturns ==
    ASSUME ReadersInv, InExact, FreadReturns
    PROVE  InExact'
<1>1. /\ pc = "fread" /\ UNCHANGED <<file, start, changed, exact>>
      /\ (pc' = "loop" /\ file_size' = file_size) \/ pc' = "idle"
  BY Zenon DEF FreadReturns, Reads, readVars, Return
<1> SUFFICES ASSUME exact, ~changed, pc' \in {"loop", "fread"}
             PROVE  InExact'
  BY <1>1, Zenon DEF InExact
<1>2. file_size > 0 /\ start <= Len(file) /\ start + file_size > Len(file)
  BY <1>1 DEF InExact
<1>3. ~Full
  <2> SUFFICES ASSUME Full PROVE FALSE
    OBVIOUS
  <2>1. /\ Len(taken) = bytes_read /\ pos = start + Len(taken) /\ bytes_read \in Nat
        /\ start \in Nat /\ file_size \in Nat /\ file \in Seq(Bytes) /\ taken \in Seq(Bytes)
        /\ pos <= Len(file) \/ taken = <<>>
    BY <1>1, InLoopFacts
  <2>2. bytes_read = file_size
    BY <2>1 DEF Full, Want
  <2>3. CASE pos <= Len(file)
    BY <1>2, <2>1, <2>2, <2>3
  <2>4. CASE taken = <<>>
    BY <1>2, <2>1, <2>2, <2>4
  <2> QED BY <2>1, <2>3, <2>4
<1>4. eof' \/ err'
  BY <1>3, Zenon DEF FreadReturns, HitEnd, ReadError
<1>5. pc' = "loop" /\ file_size' = file_size
  BY <1>1
<1> QED BY <1>1, <1>2, <1>4, <1>5, Zenon DEF InExact

\* A regular file nobody changes, with less than SIZE_MAX bytes left, is read with one
\* fread, whatever the block size and wherever the stream stood (freadall.c:229).
THEOREM OneFreadReadsIt == Spec => []OneReadIsEnough
<1>1. Init => InExact
  BY DEF Init, InExact
<1>2. ReadersInv /\ InExact /\ [Next]_vars => InExact'
  <2> SUFFICES ASSUME ReadersInv, InExact, [Next]_vars PROVE InExact'
    OBVIOUS
  <2>1. CASE GetdelimBegin \/ GetdelimStep
    <3>1. pc' \in {"idle", "getdelim"}
      <4>1. CASE GetdelimBegin
        BY <4>1 DEF GetdelimBegin, Return
      <4>2. CASE GetdelimEnds
        BY <4>2 DEF GetdelimEnds, ReturnLine, Return
      <4>3. ASSUME NEW c \in Bytes, GetdelimByte(c) \/ GetdelimFails(c)
            PROVE  pc' \in {"idle", "getdelim"}
        BY <4>3 DEF GetdelimByte, GetdelimFails, ReturnLine, Return
      <4> QED BY <2>1, <4>1, <4>2, <4>3, Zenon DEF GetdelimStep
    <3> QED BY <3>1 DEF InExact
  <2>2. CASE FreadallRefused \/ FreadallLost \/ FreadallCanceled \/ LoopNoMemory \/ LoopEnd
    <3>1. pc' = "idle"
      BY <2>2, Zenon DEF FreadallRefused, FreadallLost, FreadallCanceled, LoopNoMemory, LoopEnd, Return
    <3> QED BY <3>1 DEF InExact
  <2>3. CASE FreadSome
    <3>1. pc = "fread" /\ pc' = pc /\ UNCHANGED <<file, start, changed, exact, file_size>>
      BY <2>3, Zenon DEF FreadSome, Fread, Reads
    <3> QED BY <3>1 DEF InExact
  <2>4. CASE OthersWrite
    BY <2>4, Zenon DEF OthersWrite, InExact
  <2>5. CASE UserSeeks
    BY <2>5 DEF UserSeeks, InExact
  <2>6. CASE LoopSpins \/ UNCHANGED vars
    <3>1. UNCHANGED <<file, eof, err, file_size, p, pc, start, changed, exact>>
      BY <2>6, Zenon DEF LoopSpins, vars, streamVars, readVars, hist
    <3> QED BY <3>1, Zenon DEF InExact
  <2> QED BY <2>1, <2>2, <2>3, <2>4, <2>5, <2>6, ExactBegins, ExactGrows, ExactReturns, Zenon
          DEF Next, FreadallStep
<1>3. InExact => OneReadIsEnough
  BY DEF InExact, OneReadIsEnough
<1> QED BY <1>1, <1>2, <1>3, ReadersInductive, PTL DEF Spec
=============================================================================
