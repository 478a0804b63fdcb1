---------------------------- MODULE VscSearchPath ----------------------------
(***************************************************************************)
(* vsc_searchpatha (searchpath.c): the first directory of PATH where a     *)
(* file can be executed, by its mode bits.  Each candidate is written over *)
(* the one before, in one buffer.  The files may change at any time: what  *)
(* stat finds is chosen when it is called.  A step per directory.          *)
(***************************************************************************)
EXTENDS Integers, Sequences

CONSTANTS Paths,              \* PATH: sequences of characters; <<>> when unset
          Characters, Colon, Slash, NUL,
          FileName,           \* f
          Files               \* [type, mode, uid, gid]: what stat may find

ASSUME PathAssumption ==
    /\ Paths \subseteq Seq(Characters) /\ FileName \in Seq(Characters)
    /\ NUL \notin Characters \cup {Slash}
    /\ Files \subseteq [type : {"none", "reg", "dir"}, mode : SUBSET {"oth", "grp", "usr"},
                        uid : {"mine", "else"}, gid : {"mine", "supplementary", "else"}]

VARIABLES path, o,            \* PATH, and where in it the search is
          pathbuf,            \* buf: its characters, <<>> when there is none
          seen                \* history: the names stat was asked for and what it found

pathVars == <<path, o, pathbuf, seen>>

PathInit == path = <<>> /\ o = 1 /\ pathbuf = <<>> /\ seen = <<>>
PathType ==
    /\ path \in Paths \cup {<<>>} /\ o \in Nat \ {0}
    /\ pathbuf \in Seq(Characters \cup {Slash, NUL})

statfile_AnyClass(f) == f.type = "reg" /\ f.mode # {}

\* Others first; the classes are alternatives here, the most specific one decides in
\* the kernel.
statfile(f) ==
    /\ f.type = "reg"
    /\ \/ "oth" \in f.mode
       \/ "grp" \in f.mode /\ f.gid = "mine"
       \/ "usr" \in f.mode /\ f.uid = "mine"

\* The end of the directory that starts at a: the next colon, or the end of PATH.
pend(t) == Len(t) + 1
NextColon(t, a) == CHOOSE c \in a..pend(t) :
    /\ c = pend(t) \/ t[c] = Colon
    /\ \A b \in a..(c - 1) : t[b] # Colon

\* The distances of the first loop, one for each directory it stops at.
Starts(t) == {a \in 1..Len(t) : a = 1 \/ t[a - 1] = Colon}
MaxOf(S) == CHOOSE m \in S \cup {0} : \A x \in S : x <= m
MaxDist(t) == MaxOf({NextColon(t, a) - a : a \in Starts(t)})

\* confstr answers the length it needs, which is taken for an error.
NoPath == path' = <<>> /\ UNCHANGED <<o, pathbuf, seen>>

flen == Len(FileName) + 1
PathBegin ==
    /\ path' \in Paths \ {<<>>} /\ o' = 1 /\ UNCHANGED seen
    /\ pathbuf' = [k \in 1..(MaxDist(path') + flen + 1) |-> NUL]

\* strncpy, the slash, and vsc_strcpy with its terminator, one behind the other, over
\* what the buffer holds.
NameIn(d) == d \o <<Slash>> \o FileName
Overwrite(b, s) == [k \in 1..Len(b) |-> IF k <= Len(s) THEN s[k] ELSE b[k]]
Candidate_Unterminated(b, d) == Overwrite(b, NameIn(d))
Candidate(b, d) == Overwrite(b, Append(NameIn(d), NUL))

\* The string a buffer holds.
FirstNul(b) == CHOOSE k \in 1..Len(b) : b[k] = NUL /\ \A j \in 1..(k - 1) : b[j] # NUL
CString(b) == SubSeq(b, 1, FirstNul(b) - 1)

Dir == SubSeq(path, o, NextColon(path, o) - 1)
Look(f) ==
    /\ o < pend(path) /\ f \in Files
    /\ pathbuf' = Candidate(pathbuf, Dir)
    /\ seen' = Append(seen, [name |-> CString(pathbuf'), file |-> f])
    /\ UNCHANGED path

NotHere(f) == Look(f) /\ ~statfile(f) /\ o' = NextColon(path, o) + 1
Here(f) == Look(f) /\ statfile(f) /\ UNCHANGED o
Nowhere == o >= pend(path) /\ pathbuf' = <<>> /\ UNCHANGED <<path, o, seen>>

PathReset == path' = <<>> /\ o' = 1 /\ pathbuf' = <<>> /\ seen' = <<>>
=============================================================================
