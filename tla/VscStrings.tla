------------------------------ MODULE VscStrings ------------------------------
(***************************************************************************)
(* Splitting and joining (for_each.c, vscpplib.hpp, strjoin.c) and the     *)
(* formatting into a new string (vsprintfa.c), as functions of their       *)
(* arguments.  A string is a sequence of characters.                       *)
(***************************************************************************)
EXTENDS Integers, Sequences

CONSTANT Null                 \* a null pointer where a string may be

\* The pieces the loop of vsc_for_each_delim hands to proc unless it is stopped; the
\* C++ one's are these too.
FirstDelim(text, delim, start) ==
    CHOOSE c \in start..(Len(text) + 1) :
        /\ c = Len(text) + 1 \/ text[c] = delim
        /\ \A b \in start..(c - 1) : text[b] # delim

LoopPieces(text, delim) ==
    LET from[start \in 1..(Len(text) + 1)] ==
            IF start > Len(text) THEN <<>>
            ELSE LET next == FirstDelim(text, delim, start)
                     piece == <<SubSeq(text, start, next - 1)>>
                 IN  IF next > Len(text) THEN piece ELSE piece \o from[next + 1]
    IN  from[1]

\* vsc::for_each_delim stops there; vsc_for_each_delim has a special case for a
\* trailing delimiter.
for_each_delim(text, delim) == LoopPieces(text, delim)

vsc_for_each_delim_NoTrailing(text, delim) == LoopPieces(text, delim)

vsc_for_each_delim(text, delim) ==
    LoopPieces(text, delim) \o
    (IF text # <<>> /\ text[Len(text)] = delim THEN <<<<>>>> ELSE <<>>)

\* proc returns something else than 0, or false, from its stop-th call on, never when stop
\* is 0: the loop ends with what it returned.
Until(stop, pieces) ==
    IF stop \in 1..Len(pieces) THEN [ret |-> "stopped", pieces |-> SubSeq(pieces, 1, stop)]
    ELSE [ret |-> "ok", pieces |-> pieces]

\* begin > end
WrongEnds == [ret |-> "EINVAL", pieces |-> <<>>]

\* Both joins: nreq, and what is copied, which ends before the terminator.
Sum(elems) ==
    LET upto[k \in 0..Len(elems)] == IF k = 0 THEN 0 ELSE upto[k - 1] + Len(elems[k])
    IN  upto[Len(elems)]

nreq(delim, elems) == 1 + Sum(elems) + (IF elems = <<>> THEN 0 ELSE (Len(elems) - 1) * Len(delim))

Joined(delim, elems) ==
    LET upto[k \in 0..Len(elems)] ==
            IF k = 0 THEN <<>>
            ELSE upto[k - 1] \o elems[k] \o (IF k = Len(elems) THEN <<>> ELSE delim)
    IN  upto[Len(elems)]

NoString == [room |-> 0, text |-> Null]
vsc_strnjoin(delim, elems) ==
    IF delim = Null \/ \E k \in 1..Len(elems) : elems[k] = Null THEN NoString
    ELSE [room |-> nreq(delim, elems), text |-> Joined(delim, elems)]

\* The arguments of vsc_strjoin end at the first null pointer.
vsc_strjoin(delim, elems) ==
    LET nulls == {k \in 1..Len(elems) : elems[k] = Null}
        n == IF nulls = {} THEN Len(elems)
             ELSE (CHOOSE k \in nulls : \A j \in nulls : k <= j) - 1
    IN  IF delim = Null THEN NoString ELSE vsc_strnjoin(delim, SubSeq(elems, 1, n))

\* vsc_vasprintfa: vsnprintf is asked for the length first; a string of another
\* length the second time is freed.
vsc_vasprintf(first, second) ==
    IF first < 0 \/ second # first THEN NoString
    ELSE [room |-> first + 1, text |-> [k \in 1..first |-> "x"]]
=============================================================================
