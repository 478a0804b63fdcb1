----------------------------- MODULE VscGetdelim -----------------------------
(***************************************************************************)
(* vsc_getdelima (getline.c): a line into a buffer the caller keeps from   *)
(* call to call, doubled when it is full.  A step per byte.                *)
(***************************************************************************)
EXTENDS VscStream

CONSTANTS Delimiter, NUL,
          INIT_LEN,           \* of the buffer when the caller has none: 128
          SSIZE_MAX

ASSUME GetdelimAssumption ==
    /\ Delimiter \in Bytes /\ NUL \notin Bytes
    /\ SSIZE_MAX \in Nat /\ INIT_LEN \in 2..SSIZE_MAX

VARIABLES lineptr,            \* the caller's *lineptr: "NULL", "live" or "dangling"
          n,                  \* the caller's *n: the length of the buffer
          buf                 \* its first bytes, those up to cur_pos

lineVars == <<lineptr, n, buf>>

LineType ==
    /\ lineptr \in {"NULL", "live", "dangling"} /\ n \in Nat
    /\ buf \in Seq(Bytes \cup {NUL})

\* The caller has no buffer, or one of its own of any length.
LineInit(lengths) ==
    /\ \/ lineptr = "NULL" /\ n = 0
       \/ lineptr = "live" /\ n \in lengths
    /\ buf = <<>>

\* The first buffer.
HasBuffer == lineptr = "live" /\ UNCHANGED <<lineptr, n>> /\ buf' = <<>>
NewBuffer == lineptr = "NULL" /\ lineptr' = "live" /\ n' = INIT_LEN /\ buf' = <<>>
NoBuffer  == lineptr = "NULL" /\ n' = INIT_LEN /\ buf' = <<>> /\ UNCHANGED lineptr

\* ferror(stream), whether now or from an earlier call (the byte just read is
\* then dropped), or the end before the first byte.
NoLine ==
    /\ \/ ReadError
       \/ err /\ (Take(1) \/ HitEnd)
       \/ buf = <<>> /\ HitEnd
    /\ UNCHANGED lineVars

LastLine_Unterminated == buf # <<>> /\ ~err /\ HitEnd /\ UNCHANGED lineVars

LastLine ==
    /\ buf # <<>> /\ ~err /\ HitEnd
    /\ buf' = Append(buf, NUL) /\ UNCHANGED <<lineptr, n>>

\* *cur_pos++ = c, and the terminator after a delimiter.
Stored(c) == IF c = Delimiter THEN buf \o <<c, NUL>> ELSE Append(buf, c)

RoomLeft_OffByOne == n - Len(buf) >= 1
RoomLeft == n - Len(buf) >= 2

Byte(c) == ~err /\ Available > 0 /\ c = file[pos + 1] /\ Take(1)

StoreByte(c) ==
    /\ Byte(c) /\ RoomLeft
    /\ buf' = Stored(c) /\ UNCHANGED <<lineptr, n>>

\* vsc_xrealloc to twice the length; of length 0, it frees the buffer instead.
GrowAndStore(c) ==
    /\ Byte(c) /\ ~RoomLeft /\ n # 0 /\ SSIZE_MAX \div 2 >= n
    /\ n' = 2 * n /\ buf' = Stored(c) /\ UNCHANGED lineptr

TooLong(c) ==
    /\ Byte(c) /\ ~RoomLeft /\ SSIZE_MAX \div 2 < n
    /\ UNCHANGED lineVars

CannotGrow_LosesBuffer(c) ==
    /\ Byte(c) /\ ~RoomLeft /\ SSIZE_MAX \div 2 >= n
    /\ lineptr' = "NULL" /\ buf' = <<>> /\ UNCHANGED n

CannotGrow(c) ==
    /\ Byte(c) /\ ~RoomLeft /\ SSIZE_MAX \div 2 >= n
    /\ lineptr' = IF n = 0 THEN "dangling" ELSE lineptr
    /\ UNCHANGED <<n, buf>>
=============================================================================
