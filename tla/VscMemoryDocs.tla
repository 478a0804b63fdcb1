---------------------------- MODULE VscMemoryDocs ----------------------------
(***************************************************************************)
(* What the header says of the memory functions, and the code does not do. *)
(* The property fails; README.md gives the run.                            *)
(***************************************************************************)
EXTENDS VscMemory

\* "The semantics of this are the same as realloc()" (mem.h:174, :263), whose contents
\* "shall be unchanged up to the lesser of the new and old sizes"; and tests/memory.cpp:94
\* wants every byte of a block kept when its alignment, and with it the padding before it,
\* grows.  malloc_ writes the pointer to the header before it moves the data.
ReallocKeepsWords ==
    [][\A i \in Held :
        blocks'[i] # blocks[i] /\ blocks'[i].ptr # NULL /\ last'.result = "0" =>
            LET old == Contents[i].words
                new == Contents'[i].words
            IN  \A k \in DOMAIN old \cap DOMAIN new : new[k] = old[k]]_vars
=============================================================================
