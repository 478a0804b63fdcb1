------------------------------ MODULE VscStream ------------------------------
(***************************************************************************)
(* A FILE of the C library as vsclib's readers use it, and whoever writes  *)
(* to the file meanwhile.  External to vsclib but for vsc_fileno,          *)
(* vsc_ftello and vsc_fseeko (stdio.c).                                    *)
(***************************************************************************)
EXTENDS Integers, Sequences

CONSTANTS Bytes,              \* what a file holds
          Kinds,              \* the kinds of stream to consider
          MaxFile, MaxWrites  \* bounds: its length, and the changes by others

AllKinds == {"reg",           \* a regular file
             "blk",           \* a block device
             "dir",           \* a directory
             "pipe",          \* or socket, terminal: a descriptor, no position
             "mem",           \* fmemopen: a position, no descriptor
             "cookie",        \* neither
             "odd"}           \* ftell fails with an unexpected error

ASSUME StreamAssumption ==
    Kinds \subseteq AllKinds /\ MaxFile \in Nat /\ MaxWrites \in Nat

VARIABLES kind,
          file,               \* all the bytes there are; of a pipe, ever written
          pos, eof, err,      \* of the FILE
          writes              \* what the others may still do; a pipe ends at 0

streamVars == <<kind, file, pos, eof, err, writes>>

HasDescriptor == kind \in {"reg", "blk", "dir", "pipe", "odd"}
Seekable == kind \in {"reg", "blk", "dir", "mem"}

StreamType ==
    /\ kind \in Kinds /\ file \in Seq(Bytes) /\ pos \in Nat
    /\ eof \in BOOLEAN /\ err \in BOOLEAN /\ writes \in 0..MaxWrites

StreamInit ==
    /\ kind \in Kinds
    /\ file \in UNION {[1..m -> Bytes] : m \in 0..MaxFile}
    /\ pos = 0 /\ eof = FALSE /\ err = FALSE /\ writes = MaxWrites
-----------------------------------------------------------------------------
(* Reading.  The end of a pipe is seen once its writer is done; once seen,  *)
(* it stays until a seek.  An error stays for good.                         *)

Available == IF kind = "dir" \/ pos >= Len(file) THEN 0 ELSE Len(file) - pos
AtEnd == kind # "dir" /\ Available = 0 /\ (kind \in {"pipe", "cookie"} => writes = 0)

Take(n) == ~eof /\ n <= Available /\ pos' = pos + n /\ UNCHANGED <<eof, err>>
HitEnd == (eof \/ AtEnd) /\ eof' = TRUE /\ UNCHANGED <<pos, err>>
ReadError == ~eof /\ err' = TRUE /\ UNCHANGED <<pos, eof>>

\* vsc_fseeko to an offset from the start, where it succeeds.
SeekTo(offset) == Seekable /\ pos' = offset /\ eof' = FALSE /\ UNCHANGED err
-----------------------------------------------------------------------------
(* The others.                                                             *)

Extend(b) ==
    /\ writes > 0 /\ Len(file) < MaxFile /\ file' = Append(file, b)
    /\ writes' = writes - 1
    /\ UNCHANGED <<kind, pos, eof, err>>

Truncate(n) ==
    /\ writes > 0 /\ kind = "reg" /\ n < Len(file) /\ file' = SubSeq(file, 1, n)
    /\ writes' = writes - 1
    /\ UNCHANGED <<kind, pos, eof, err>>

Close ==
    /\ writes > 0 /\ writes' = 0
    /\ UNCHANGED <<kind, file, pos, eof, err>>

Others == Close \/ (\E b \in Bytes : Extend(b)) \/ (\E n \in 0..MaxFile : Truncate(n))
=============================================================================
