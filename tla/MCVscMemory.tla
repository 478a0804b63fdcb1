----------------------------- MODULE MCVscMemory -----------------------------
(* Instances of the memory functions for TLC. *)
EXTENDS VscMemory

\* One word, three, and one size whose request wraps to fewer words than it has.
MCSizes == {1, 3, SIZE_MAX}

\* VSC_ALLOC_REALLOC is dropped for a new block.
MCFlagSets == {{"ZERO", "REALLOC"}, {"NOFAIL", "REALLOC"}}
=============================================================================
