-------------------------- MODULE MCVscHashMapDocs --------------------------
(* The same instances, against the documented claims. *)
EXTENDS VscHashMapDocs, MCVscHashMap

\* The map of the library's own string functions: k1 and k1b point to one text.
MCText == [k \in Keys |-> CASE k \in {k1, k1b} -> "a" [] k = k2 -> "b" [] OTHER -> "c"]
MCStringCompare == StringCompare(MCText)
=============================================================================
