------------------------------- MODULE VscHeap -------------------------------
(***************************************************************************)
(* What vsclib's memory functions promise (mem.h, memdef.h): blocks of the *)
(* user's own words.  A block keeps them until the user writes, resizes or *)
(* frees it; a resize keeps those that fit; a call that fails changes      *)
(* nothing; memory asked for zeroed is zero where it is new.               *)
(***************************************************************************)
EXTENDS Integers, Sequences

CONSTANTS Blocks, Zero        \* the user's blocks; the word of a zeroed block

VARIABLES contents,           \* the words of each block, or the mark NoBlock
          last,               \* the call that returned: its flags and its answer
          outside             \* whether a call ever left the terms of use

heapVars == <<contents, last, outside>>

NoBlock == [held |-> FALSE, words |-> <<>>]
Holding(w) == [held |-> TRUE, words |-> w]

Init == contents = [i \in Blocks |-> NoBlock] /\ outside = FALSE

Others(i) == \A j \in Blocks \ {i} : contents'[j] = contents[j]

\* New or resized: every old word that fits, then zeros if asked for.
Resize(i) ==
    LET old == contents[i].words
        new == contents'[i].words
    IN  /\ last'.result = "0" /\ contents'[i].held /\ Others(i)
        /\ \A k \in DOMAIN new :
              IF k <= Len(old) THEN new[k] = old[k] ELSE "ZERO" \in last'.flags => new[k] = Zero

Fail == last'.result \notin {"0", "freed"} /\ UNCHANGED contents

Release(i) == last'.result = "freed" /\ ~contents'[i].held /\ Others(i)

Write(i) ==
    /\ UNCHANGED last /\ Others(i)
    /\ contents[i].held /\ contents'[i].held
    /\ Len(contents'[i].words) = Len(contents[i].words)

Next == \E i \in Blocks : Resize(i) \/ Fail \/ Release(i) \/ Write(i)

\* Nothing is promised once a call has left the terms of use.
Spec == Init /\ [][outside' \/ Next]_heapVars
=============================================================================
