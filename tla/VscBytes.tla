------------------------------ MODULE VscBytes -------------------------------
(***************************************************************************)
(* The integers of io.h in memory and in a file.  A native integer is the  *)
(* sequence of its bytes, least significant first; host and e are "l" or   *)
(* "b", the byte orders of the machine and of the format.  Signed ones are *)
(* cast to unsigned and back, which keeps the bytes.                       *)
(***************************************************************************)
EXTENDS Integers, Sequences
Seqs == INSTANCE SequencesExt

vsc_swap(v) == Seqs!Reverse(v)

native_to(host, e, v) == IF e = host THEN v ELSE vsc_swap(v)
to_native(host, e, v) == IF e = host THEN v ELSE vsc_swap(v)

\* memcpy of a native integer to memory, and back.
Stored(host, v) == IF host = "l" THEN v ELSE Seqs!Reverse(v)
Loaded(host, p) == IF host = "l" THEN p ELSE Seqs!Reverse(p)

vsc_write(host, e, v) == Stored(host, native_to(host, e, v))
vsc_read(host, e, p) == to_native(host, e, Loaded(host, p))

\* A file that ends within the integer reads as 0, and what there was is taken.
Fread(host, file, bytes) ==
    IF Len(file) < bytes THEN [k \in 1..bytes |-> 0] ELSE Loaded(host, SubSeq(file, 1, bytes))

vsc_fread(host, e, file, bytes) == to_native(host, e, Fread(host, file, bytes))
vsc_fwrite(host, e, v) == vsc_write(host, e, v)
=============================================================================
