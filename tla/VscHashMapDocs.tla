--------------------------- MODULE VscHashMapDocs ---------------------------
(***************************************************************************)
(* What the header and the comments of the hash map say of it, and the     *)
(* code does not do.  Each property fails; README.md gives the runs.       *)
(***************************************************************************)
EXTENDS VscHashMap

\* vsc_hashmap_string_compare, for a function giving the text of each key.
StringCompare(text) ==
    {p \in (Keys \ {NULL}) \X (Keys \ {NULL}) : p[1] # p[2] /\ text[p[1]] = text[p[2]]}

\* "Stop at first empty bucket, item isn't here." (hashmap.c:430): a key that is
\* stored can be found.  The comparison of hashmap.c:496 takes bucket numbers as
\* if the table did not wrap, and moves a bucket in front of its own home.
StoredKeysFound ==
    call = Idle /\ InBounds =>
        \A i \in Occupied(buckets) : i < num_buckets => FindAt(buckets[i].key) # {}

\* "Resize a hash map so it can hold `nelem` elements", which "cannot be less than
\* the current number of elements" (hashmap.h:83-87): the elements stay.
ResizeKeepsEntries ==
    [][\A n \in ResizeTargets : Resize(n) => Entries(buckets') = Entries(buckets)]_vars

\* "Our only safe option is to waste the new memory" (hashmap.c:258): after a
\* failed resize the map still is usable, its buckets all inside the allocation.
TableInBounds == InBounds
=============================================================================
