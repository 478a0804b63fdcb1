---------------------------- MODULE MCVscHashMap ----------------------------
(* Instances of the hash map for TLC. *)
EXTENDS VscHashMap, TLC

CONSTANTS k1, k1b, k2, k3, v1, v2

\* k1 and k1b are two pointers to equal keys; k2 is another key with their hash,
\* whose home is the last bucket of a table of 2, 3, 4 or 6.  NULL is a key whose
\* hash is the reserved value, as vsc_hash_string (hash.c:45) makes it.
MCHash ==
    [k \in Keys |-> CASE k = k3 -> 0 [] k = NULL -> SIZE_MAX [] OTHER -> 11]

MCCompare == {p \in Keys \X Keys : p[1] = p[2] \/ {p[1], p[2]} = {k1, k1b}}

\* One that lets the table fill up, and one that configure refuses.
MCLoadFactors == {<<2, 3, 7, 8>>, <<3, 4, 1, 2>>}

\* And one whose minimum makes the product of maybe_resize wrap: with 2 entries
\* and a SIZE_MAX of 26, (2 + 1) * 10 is 3, and an insert shrinks a table of 4.
MCWrapLoadFactors == MCLoadFactors \cup {<<1, 10, 1, 3>>}

MCValueSymmetry == Permutations(Values)
=============================================================================
