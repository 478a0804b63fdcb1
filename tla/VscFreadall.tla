----------------------------- MODULE VscFreadall -----------------------------
(***************************************************************************)
(* vsc_freadalla_ex (freadall.c): all there is to read from a stream, into *)
(* a buffer sized by what is known of the stream and grown by its block    *)
(* size.  The two callbacks are the user's.                                *)
(***************************************************************************)
EXTENDS VscStream

CONSTANTS DefaultBlkSize,     \* 4096
          StBlkSize,          \* st_blksize, or what BLKIOOPT answers
          SIZE_MAX,
          TweakedSizes, TweakedBlocks   \* what init_proc may set

ASSUME FreadallAssumption ==
    /\ SIZE_MAX \in Nat
    /\ DefaultBlkSize \in 1..SIZE_MAX /\ StBlkSize \in 1..SIZE_MAX
    /\ TweakedSizes \subseteq 0..SIZE_MAX /\ TweakedBlocks \subseteq 0..SIZE_MAX

VARIABLES file_size, blk_size, bytes_read,    \* VscFreadallState
          p                                   \* the buffer: its length, 0 for NULL, and bytes

readVars == <<file_size, blk_size, bytes_read, p>>

NoBytes == [room |-> 0, data |-> <<>>]

ReadType ==
    /\ file_size \in 0..SIZE_MAX /\ blk_size \in 0..SIZE_MAX /\ bytes_read \in Nat
    /\ p \in [room : 0..SIZE_MAX, data : Seq(Bytes)]

ReadInit == file_size = 0 /\ blk_size = DefaultBlkSize /\ bytes_read = 0 /\ p = NoBytes
-----------------------------------------------------------------------------
(* Discovery.  Only the first error of ftello that is not EBADF or ESPIPE   *)
(* ends the call here; a size that cannot be found out is 0.                *)

NoPosition == kind = "odd"
IsDirectory == kind = "dir"

\* get_sizes: fstat, ioctl, or a seek to the end
DiscoveredSizes ==
    CASE kind = "reg" -> {Len(file)}
      [] kind \in {"blk", "mem"} -> {0, Len(file)}
      [] OTHER -> {0}

DiscoveredBlock == IF HasDescriptor THEN StBlkSize ELSE DefaultBlkSize

\* The rest of the file and one byte more, "to avoid an additional malloc() +
\* fread()"; or one block.
FirstSize_NoExtra(size, blk) ==
    LET left == IF size > 0 /\ Seekable THEN (size - pos) % (SIZE_MAX + 1) ELSE size
    IN  IF left > 0 THEN left ELSE blk

FirstSize(size, blk) ==
    LET left == IF size > 0 /\ Seekable THEN (size - pos) % (SIZE_MAX + 1) ELSE size
    IN  IF left > 0 THEN (left + 1) % (SIZE_MAX + 1) ELSE blk

\* Having found the sizes, the call goes back to where it was, which clears the
\* end of file.
Restored_NotMem == IF kind = "mem" THEN SeekTo(Len(file)) ELSE UNCHANGED <<pos, eof, err>>
Restored == IF Seekable THEN SeekTo(pos) ELSE UNCHANGED <<pos, eof, err>>

\* A stream that sought to the end and cannot go back stays there.
RestoreFails ==
    /\ Seekable /\ pos' \in (IF kind = "reg" THEN {pos} ELSE {pos, Len(file)})
    /\ UNCHANGED <<eof, err>>

Accepts(size, blk) ==
    /\ file_size' \in {size} \cup TweakedSizes
    /\ blk_size' \in {blk} \cup TweakedBlocks
    /\ bytes_read' = 0 /\ p' = NoBytes
-----------------------------------------------------------------------------
(* The loop.                                                               *)

Min2(a, b) == IF a <= b THEN a ELSE b
More_IgnoresError == ~eof
More_UntilFull == ~eof /\ ~err /\ (p.room = 0 \/ bytes_read < file_size)
More == ~eof /\ ~err
NeedsRoom == p.room = 0 \/ bytes_read >= file_size

\* while(bytes_read >= file_size) file_size += blk_size: the sums wrap, and none may be
\* large enough, as when the block size is 0.
AfterBlocks(k) == (file_size + k * blk_size) % (SIZE_MAX + 1)
Endless == \A k \in 0..SIZE_MAX : bytes_read >= AfterBlocks(k)
BlocksAdded == CHOOSE k \in 0..SIZE_MAX :
    bytes_read < AfterBlocks(k) /\ \A j \in 0..(k - 1) : bytes_read >= AfterBlocks(j)
Grown == AfterBlocks(BlocksAdded)

Grow ==
    /\ More /\ ~Endless
    /\ file_size' = Grown /\ p' = [p EXCEPT !.room = Grown]
    /\ UNCHANGED <<blk_size, bytes_read>>

\* On the way out: vsc_xfree(a, p), or the buffer is the caller's.
Locals(buffer) == file_size' = 0 /\ blk_size' = DefaultBlkSize /\ bytes_read' = 0 /\ p' = buffer
Dropped_KeepsBuffer == Locals(p)
Dropped == Locals(NoBytes)

GrowFails == More /\ NeedsRoom /\ ~Endless /\ Dropped
Spin      == More /\ NeedsRoom /\ Endless /\ UNCHANGED readVars

\* fread: what there is, as long as the buffer has room; it returns when the
\* buffer is full, at the end, or with an error.
Want == file_size - bytes_read
Bytes_(k) == SubSeq(file, pos + 1, pos + k)

Fread(k) ==
    /\ k = Min2(Want, Available) /\ k > 0 /\ Take(k)
    /\ p' = [p EXCEPT !.data = SubSeq(@, 1, bytes_read) \o Bytes_(k)]
    /\ bytes_read' = bytes_read + k /\ UNCHANGED <<file_size, blk_size>>

Full == Want = 0
=============================================================================
