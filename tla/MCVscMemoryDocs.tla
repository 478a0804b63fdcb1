--------------------------- MODULE MCVscMemoryDocs ---------------------------
(* An instance of the documented realloc for TLC. *)
EXTENDS VscMemoryDocs

MCFlagSets == {{"REALLOC"}}
=============================================================================
