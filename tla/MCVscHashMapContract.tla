------------------------ MODULE MCVscHashMapContract ------------------------
(* The same instances, under the contract. *)
EXTENDS VscHashMapContract, MCVscHashMap
=============================================================================
