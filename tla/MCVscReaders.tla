----------------------------- MODULE MCVscReaders -----------------------------
(* Instances of the readers of a stream for TLC. *)
EXTENDS VscReaders
=============================================================================
