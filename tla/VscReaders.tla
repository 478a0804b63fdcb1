------------------------------ MODULE VscReaders ------------------------------
(***************************************************************************)
(* A user who reads one stream with vsc_getdelima and vsc_freadalla_ex in  *)
(* any order, and seeks in it, while others change the file.               *)
(***************************************************************************)
EXTENDS VscGetdelim, VscFreadall

CONSTANTS OwnBuffers          \* lengths of a buffer the user may bring along

ASSUME UserAssumption == OwnBuffers \subseteq Nat

VARIABLES pc,                 \* "idle", or where the call in progress is
          ret,                \* what the last call returned
          start, taken,       \* history: where the call began, what it took since,
          changed, exact      \* whether others changed the file since, and whether the
                              \* call knew how much of it is left, one byte more included

hist == <<start, taken, changed, exact>>
vars == <<streamVars, lineVars, readVars, pc, ret, hist>>

None == [call |-> "none", res |-> "ok", data |-> <<>>]
Return(call, res, data) == pc' = "idle" /\ ret' = [call |-> call, res |-> res, data |-> data]

Init ==
    /\ StreamInit /\ LineInit(OwnBuffers) /\ ReadInit
    /\ pc = "idle" /\ ret = None
    /\ start = 0 /\ taken = <<>> /\ changed = FALSE /\ exact = FALSE

\* A call begins: what it does to the file's position counts from here, and the
\* user is done with the line of the call before.
Begins == pc = "idle" /\ start' = pos /\ taken' = <<>> /\ changed' = FALSE
LineUsed == buf' = <<>> /\ UNCHANGED <<lineptr, n>>

\* A step of a call reads from the stream and leaves the file alone.
Reads ==
    /\ taken' = IF pos' > pos THEN taken \o SubSeq(file, pos + 1, pos') ELSE taken
    /\ UNCHANGED <<kind, file, writes, start, changed, exact>>
-----------------------------------------------------------------------------
(* vsc_getdelima                                                           *)

GetdelimBegin ==
    /\ Begins /\ exact' = FALSE /\ lineptr # "dangling"
    /\ \/ (HasBuffer \/ NewBuffer) /\ pc' = "getdelim" /\ ret' = None
       \/ NoBuffer /\ Return("getdelim", "ENOMEM", <<>>)
    /\ UNCHANGED <<streamVars, readVars>>

ReturnLine_CountsTerminator == Return("getdelim", "ok", buf')

\* All that was stored; the answer is how much that is, the terminator aside.
ReturnLine == Return("getdelim", "ok", SubSeq(buf', 1, Len(buf') - 1))

GetdelimEnds ==
    /\ pc = "getdelim"
    /\ \/ NoLine /\ Return("getdelim", "EOF", <<>>)
       \/ LastLine /\ ReturnLine
    /\ Reads /\ UNCHANGED readVars

GetdelimByte(c) ==
    /\ pc = "getdelim"
    /\ StoreByte(c) \/ GrowAndStore(c)
    /\ IF c = Delimiter THEN ReturnLine ELSE UNCHANGED <<pc, ret>>
    /\ Reads /\ UNCHANGED readVars

GetdelimFails(c) ==
    /\ pc = "getdelim"
    /\ \/ TooLong(c) /\ Return("getdelim", "EOVERFLOW", <<>>)
       \/ CannotGrow(c) /\ Return("getdelim", "ENOMEM", <<>>)
    /\ Reads /\ UNCHANGED readVars
-----------------------------------------------------------------------------
(* vsc_freadalla_ex                                                        *)

\* Before it has touched the stream.
FreadallRefused ==
    /\ Begins /\ exact' = FALSE
    /\ \/ Return("freadall", "EINVAL", <<>>)
       \/ NoPosition /\ Return("freadall", "-1", <<>>)
       \/ ~NoPosition /\ HasDescriptor /\ Return("freadall", "errno", <<>>)
       \/ IsDirectory /\ Return("freadall", "EISDIR", <<>>)
    /\ LineUsed /\ UNCHANGED <<streamVars, readVars>>

Discovers ==
    /\ Begins /\ ~NoPosition /\ ~IsDirectory
    /\ LineUsed /\ UNCHANGED <<kind, file, writes>>

FreadallLost ==
    /\ Discovers /\ RestoreFails /\ exact' = FALSE
    /\ Return("freadall", "lost", <<>>)
    /\ UNCHANGED readVars

\* init_proc may stop the call, or set the sizes.
FreadallCanceled ==
    /\ Discovers /\ Restored /\ exact' = FALSE
    /\ Return("freadall", "ECANCELED", <<>>)
    /\ UNCHANGED readVars

FreadallBegin ==
    /\ Discovers /\ Restored
    /\ \E size \in DiscoveredSizes :
          LET first == FirstSize(size, DiscoveredBlock)
          IN  /\ Accepts(first, DiscoveredBlock)
              /\ exact' = /\ kind = "reg" /\ pos <= size /\ size - pos < SIZE_MAX
                          /\ file_size' = first
    /\ pc' = "loop" /\ ret' = None

LoopGrow ==
    /\ pc = "loop" /\ Grow /\ pc' = "fread"
    /\ UNCHANGED <<streamVars, lineVars, ret, hist>>

LoopNoMemory ==
    /\ pc = "loop" /\ GrowFails
    /\ Return("freadall", "ENOMEM", <<>>)
    /\ UNCHANGED <<streamVars, lineVars, hist>>

LoopSpins == pc = "loop" /\ Spin /\ UNCHANGED vars

FreadSome ==
    /\ pc = "fread"
    /\ \E k \in 1..MaxFile : Fread(k)
    /\ Reads /\ UNCHANGED <<lineVars, pc, ret>>

\* fread has returned; chunk_proc may stop the call.
FreadReturns ==
    /\ pc = "fread"
    /\ \/ Full /\ UNCHANGED <<pos, eof, err>>
       \/ ~Full /\ (HitEnd \/ ReadError)
    /\ \/ pc' = "loop" /\ UNCHANGED <<readVars, ret>>
       \/ Dropped /\ Return("freadall", "ECANCELED", <<>>)
    /\ Reads /\ UNCHANGED lineVars

\* The buffer is the caller's, or freed if the stream is in error.
LoopEnd ==
    /\ pc = "loop" /\ ~More
    /\ IF err THEN Return("freadall", "EIO", <<>>) ELSE Return("freadall", "ok", SubSeq(p.data, 1, bytes_read))
    /\ Dropped /\ UNCHANGED <<streamVars, lineVars, hist>>
-----------------------------------------------------------------------------
UserSeeks ==
    /\ pc = "idle"
    /\ \E offset \in 0..(MaxFile + 2) : SeekTo(offset)
    /\ ret' = None
    /\ UNCHANGED <<kind, file, writes, lineVars, readVars, pc, hist>>

OthersWrite ==
    /\ Others /\ changed' = TRUE
    /\ UNCHANGED <<lineVars, readVars, pc, ret, start, taken, exact>>

GetdelimStep == GetdelimEnds \/ \E c \in Bytes : GetdelimByte(c) \/ GetdelimFails(c)
FreadallStep == LoopGrow \/ LoopNoMemory \/ FreadSome \/ FreadReturns \/ LoopEnd

Next ==
    \/ GetdelimBegin \/ GetdelimStep
    \/ FreadallRefused \/ FreadallLost \/ FreadallCanceled \/ FreadallBegin
    \/ FreadallStep \/ LoopSpins
    \/ UserSeeks \/ OthersWrite

\* A call in progress goes on, and a pipe is closed in the end.
Fairness == WF_vars(GetdelimStep) /\ WF_vars(FreadallStep) /\ WF_vars(Close /\ OthersWrite)

Spec == Init /\ [][Next]_vars /\ Fairness
-----------------------------------------------------------------------------
TypeOK ==
    /\ StreamType /\ LineType /\ ReadType
    /\ pc \in {"idle", "getdelim", "loop", "fread"}
    /\ ret \in [call : {"none", "getdelim", "freadall"}, data : Seq(Bytes),
                res : {"ok", "EOF", "ENOMEM", "EOVERFLOW", "EINVAL", "-1", "errno", "EISDIR", "lost", "ECANCELED", "EIO"}]
    /\ start \in Nat /\ taken \in Seq(Bytes) /\ changed \in BOOLEAN /\ exact \in BOOLEAN

\* Neither reader writes outside its buffer: in vsc_getdelima there is room for the
\* terminator after every byte stored, whatever length the caller brought; fread is
\* given no more than the room that is left, also after init_proc has set the sizes.
BuffersInBounds ==
    /\ Len(buf) <= n
    /\ pc = "getdelim" /\ buf # <<>> => Len(buf) < n
    /\ pc = "fread" => p.room > 0
    /\ pc \in {"loop", "fread"} /\ p.room > 0 =>
           p.room = file_size /\ Len(p.data) = bytes_read /\ bytes_read <= p.room

\* The bytes that left the stream are those the position accounts for: a call that
\* refuses before it reads leaves the position where it was, unless the seek back
\* from the size discovery failed (freadall.c:218).
PositionAccounts ==
    ret.call # "none" \/ pc # "idle" => ret.res = "lost" \/ pos = start + Len(taken)

\* A line is all that was taken from the stream since the call began, ends at the
\* first delimiter or at the end of the stream, and is terminated in its buffer.
LineComplete ==
    ret.call = "getdelim" /\ ret.res = "ok" =>
        /\ ret.data = taken /\ taken # <<>> /\ buf = Append(taken, NUL)
        /\ \A k \in 1..(Len(taken) - 1) : taken[k] # Delimiter
        /\ taken[Len(taken)] = Delimiter \/ eof

\* A line that could not be finished has lost at most the byte read last, when no
\* memory was left for it or an error of the stream came before it.
FailureLosesOneByte ==
    ret.call = "getdelim" /\ ret.res # "ok" =>
        \/ buf = taken
        \/ /\ Len(taken) > 0 /\ buf = SubSeq(taken, 1, Len(taken) - 1)
           /\ ret.res \in {"ENOMEM", "EOVERFLOW"} \/ err

\* vsc_freadalla_ex returns all that was taken, and stops only at the end; if no one
\* changed the file meanwhile that is the whole rest of it, whatever the sizes
\* discovered or set by init_proc (freadall.c:223, :243).
AllRead ==
    ret.call = "freadall" /\ ret.res = "ok" =>
        /\ ret.data = taken /\ eof /\ ~err
        /\ ~changed => taken = SubSeq(file, start + 1, Len(file))

\* The buffer of vsc_freadalla_ex outlives no failed call, and the caller's line
\* buffer stays valid, unless the caller claimed a length of 0 for it and growing it
\* freed it (getline.c:64).
BuffersOwned ==
    /\ pc \notin {"loop", "fread"} => p = NoBytes
    /\ lineptr = "dangling" => n = 0
    /\ lineptr = "NULL" => pc # "getdelim" /\ buf = <<>>

\* "Read past EOF, to avoid an additional malloc() + fread()": a regular file nobody
\* changes, of less than SIZE_MAX bytes from here, is read with one fread
\* (freadall.c:229).
OneReadIsEnough == exact /\ ~changed /\ pc = "loop" /\ p.room > 0 => eof \/ err

\* Every call returns, except that the loop of freadall.c:250 never ends when no number
\* of blocks makes the sum large enough, above all blocks of 0, as init_proc may set it.
Hangs == pc = "loop" /\ More /\ Endless
CallsReturn == [](pc # "idle" => <>(pc = "idle" \/ Hangs))
=============================================================================
