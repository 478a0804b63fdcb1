--------------------------- MODULE MCVscBlockAlloc ---------------------------
(* Instances of the block allocation for TLC. *)
EXTENDS VscBlockAlloc, TLC

\* Empty, odd, one unit of the default alignment, two of them, and one so large
\* that a second makes the sum wrap; with the alignments below, at and above it.
MCBlocks ==
    {[element_size |-> s[1], count |-> s[2], alignment |-> a] :
        s \in {<<4, 0>>, <<1, 3>>, <<4, 1>>, <<4, 2>>, <<20, 3>>}, a \in {0, 2, 8}}

MCRequests == UNION {[1..n -> MCBlocks] : n \in 1..3}
=============================================================================
