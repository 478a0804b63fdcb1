------------------------------- MODULE VscCalls -------------------------------
(***************************************************************************)
(* A program that makes the smaller calls of vsclib one after another: the *)
(* two that loop over something others change take a step per turn of      *)
(* their loop, the others are done in one.                                 *)
(***************************************************************************)
EXTENDS VscEnumGroups, VscSearchPath, VscStrings, VscFnullify, VscUuid, VscColour, VscWav,
        VscBytes, VscChecksum, VscHash, FiniteSets

CONSTANTS Texts, Delim,       \* what is split, and at what
          Joins,              \* [delim, elems]: what is joined
          Lengths,            \* what vsnprintf may answer
          Uuids, UuidTexts,   \* what is formatted, and what is parsed
          Pixels, Samples, Rates, Channels,
          Messages,           \* the bytes a checksum is made of
          Natives,            \* integers, as VscBytes has them
          HashSizes, Builds,  \* what is hashed, and what vsc_hash is compiled for
          Stripes,            \* [acc, input, secret]: what is mixed into the accumulators
          Factors, Loads      \* words that are multiplied, and 16 bytes that are loaded

Byte == 0..255

ASSUME CallsAssumption ==
    /\ Texts \subseteq Seq(Characters) /\ Delim \in Characters /\ Null \notin Seq(Characters)
    /\ \A j \in Joins : /\ j.delim \in Seq(Characters) \cup {Null}
                        /\ j.elems \in Seq(Seq(Characters) \cup {Null})
    /\ Uuids \subseteq [1..SIZE -> Byte] /\ UuidTexts \subseteq Seq(Byte)
    /\ Lengths \subseteq Int /\ \A p \in Pixels : p \in Nat /\ p < 2^16
    /\ Samples \subseteq 0..SIZE_T_MAX /\ Rates \subseteq 0..UINT32_MAX /\ Channels \subseteq Nat
    /\ Messages \cup Natives \subseteq Seq(Byte)
    /\ HashSizes \subseteq Nat
    /\ Builds \subseteq [LONG_BIT : {32, 64}, SIZE_OPT : 0..2, XXH32_ENDJMP : BOOLEAN]
    /\ Stripes \subseteq [acc : [Lane -> Word], input : [Lane -> Word], secret : [Lane -> Word]]
    /\ Factors \subseteq Word /\ Loads \subseteq [1..16 -> Byte]

VARIABLES pc,                 \* "idle", "groups", "path", or "done"
          call,               \* the call that is done: its name and arguments
          out                 \* what it returned

vars == <<groupVars, pathVars, pc, call, out>>

NoCall == [name |-> "none"]

Init ==
    /\ GroupsInit /\ PathInit
    /\ pc = "idle" /\ call = NoCall /\ out = NoCall

Enters(where) == pc = "idle" /\ pc' = where /\ UNCHANGED <<call, out>>
Returns(arguments, result) == pc' = "done" /\ call' = arguments /\ out' = result
-----------------------------------------------------------------------------
(* vsc_enum_groups                                                         *)

GroupsReturn(res) == Returns([name |-> "groups"], res)

EnumGroups ==
    /\ UNCHANGED pathVars
    /\ \/ Enters("groups") /\ GroupsBegin
       \/ pc = "idle" /\ GroupsReturn("setgrent") /\ UNCHANGED groupVars

EnumGroupsStep ==
    /\ pc = "groups" /\ UNCHANGED pathVars
    /\ \/ (DoesNotFit \/ Entry) /\ UNCHANGED <<pc, call, out>>
       \/ NoMoreEntries /\ GroupsReturn("ok")

EnumGroupsEarly ==
    /\ pc = "groups" /\ UNCHANGED pathVars
    /\ \/ EntryStops /\ GroupsReturn("stopped")
       \/ NoMemory /\ GroupsReturn("ENOMEM")
       \/ Finish /\ GroupsReturn("getgrent")

GroupsElsewhere == pc = "groups" /\ OtherUse /\ UNCHANGED <<pathVars, pc, call, out>>
-----------------------------------------------------------------------------
(* vsc_searchpath                                                          *)

PathReturn(res, len) == Returns([name |-> "path"], [res |-> res, len |-> len])

SearchPath ==
    /\ UNCHANGED groupVars
    /\ \/ Enters("path") /\ PathBegin
       \/ pc = "idle" /\ NoPath /\ PathReturn("EINVAL", 0)
       \/ pc = "idle" /\ UNCHANGED pathVars /\ PathReturn("ENOMEM", 0)

SearchPathStep ==
    /\ pc = "path" /\ UNCHANGED groupVars
    /\ \/ \E f \in Files : NotHere(f) /\ UNCHANGED <<pc, call, out>>
       \/ \E f \in Files : Here(f) /\ PathReturn("ok", Len(Dir) + flen)
       \/ Nowhere /\ PathReturn("ENOENT", 0)
-----------------------------------------------------------------------------
(* The calls of one step.                                                  *)

Split ==
    \/ \E t \in Texts : \E stop \in 0..(Len(t) + 1) :
           Returns([name |-> "split", text |-> t, stop |-> stop],
                   [c |-> Until(stop, vsc_for_each_delim(t, Delim)),
                    cpp |-> Until(stop, for_each_delim(t, Delim))])
    \/ Returns([name |-> "reversed"], WrongEnds)

Join ==
    \E j \in Joins :
        Returns([name |-> "join", delim |-> j.delim, elems |-> j.elems],
                [n |-> vsc_strnjoin(j.delim, j.elems), v |-> vsc_strjoin(j.delim, j.elems)])

Printf ==
    \E first, second \in Lengths :
        Returns([name |-> "printf", first |-> first, second |-> second],
                vsc_vasprintf(first, second))

NoStringMemory == Returns([name |-> "nomemory"], NoString)

UuidParse ==
    \E u \in Uuids, s \in UuidTexts :
        Returns([name |-> "parse", uuid |-> u, text |-> s], vsc_uuid_parse(u, s))

UuidFormat ==
    \E u \in Uuids, flags \in Formats :
        Returns([name |-> "format", uuid |-> u, flags |-> flags], vsc_uuid_format(u, flags))

Repack ==
    \E p \in Pixels :
        Returns([name |-> "pixel", pixel |-> p],
                [rgb565 |-> unpack_rgb565(p), argb1555 |-> unpack_argb1555(p),
                 xrgb1555 |-> unpack_xrgb1555(p)])

WavWrite ==
    \E host \in {"l", "b"}, n \in Samples, rate \in Rates, channels \in Channels :
        \E file \in vsc_wav_write(host, n, rate, channels) :
            Returns([name |-> "wav", host |-> host, samples |-> n, rate |-> rate,
                     channels |-> channels], file)

Fnullify ==
    \E t \in Tables, fd \in Descriptors : \E r \in vsc_fnullify(t, fd) :
        Returns([name |-> "fnullify", fd |-> fd, table |-> t], r)

Checksum ==
    \E m \in Messages :
        Returns([name |-> "crc", buf |-> m], [crc32 |-> vsc_crc32(m), crc32c |-> vsc_crc32c(m)])

\* One machine writes an integer, another one reads it, from a file that may be cut short.
Exchange ==
    \E v \in Natives, writer, reader, e \in {"l", "b"} : \E cut \in 0..Len(v) :
        LET file == SubSeq(vsc_fwrite(writer, e, v), 1, cut)
        IN  Returns([name |-> "bytes", value |-> v, e |-> e],
                    [file |-> file, value |-> vsc_fread(reader, e, file, Len(v))])

Hash ==
    \E size \in HashSizes, null \in BOOLEAN, build \in Builds :
        Returns([name |-> "hash", null |-> null, size |-> size, build |-> build],
                vsc_hash(null, size, build))

\* The steps of a hash that are compiled in several ways, for themselves.
HashStripe ==
    \E s \in Stripes, unit \in VectorUnits :
        Returns([name |-> "stripe", stripe |-> s],
                [acc |-> XXH3_accumulate_512(s.acc, s.input, s.secret, unit),
                 scrambled |-> XXH3_scrambleAcc(s.acc, s.secret, unit)])

HashMultiply ==
    \E x, y \in Factors, unit \in WordUnits :
        Returns([name |-> "multiply", lhs |-> x, rhs |-> y], XXH_mult64to128(x, y, unit))

HashLoad ==
    \E bytes \in Loads, unit \in WordUnits :
        Returns([name |-> "load", bytes |-> bytes],
                [word |-> XXH_readLE(SubSeq(bytes, 1, 8), unit), lanes |-> XXH_vec_loadu(bytes, unit)])

OneStep ==
    /\ pc = "idle" /\ UNCHANGED <<groupVars, pathVars>>
    /\ \/ Split \/ Join \/ Printf \/ NoStringMemory \/ UuidParse \/ UuidFormat \/ Repack
       \/ WavWrite \/ Fnullify \/ Checksum \/ Exchange
       \/ Hash \/ HashStripe \/ HashMultiply \/ HashLoad

\* The program is done with the answer, and frees what it was given.
Done ==
    /\ pc = "done" /\ pc' = "idle" /\ call' = NoCall /\ out' = NoCall
    /\ GroupsReset /\ PathReset

Next ==
    \/ EnumGroups \/ EnumGroupsStep \/ EnumGroupsEarly \/ GroupsElsewhere
    \/ SearchPath \/ SearchPathStep \/ OneStep \/ Done

\* A call that has begun goes on; nothing makes it fail or stop early.
Fairness == WF_vars(EnumGroupsStep) /\ WF_vars(SearchPathStep)

Spec == Init /\ [][Next]_vars /\ Fairness
-----------------------------------------------------------------------------
Is(name) == pc = "done" /\ call.name = name

TypeOK ==
    /\ GroupsType /\ PathType /\ pc \in {"idle", "groups", "path", "done"}
    /\ Is("parse") => out.uuid \in [1..SIZE -> Byte]
    /\ Is("pixel") => \A f \in DOMAIN out : out[f] \in [{"r", "g", "b", "a"} -> Byte]

\* proc has been called for groups of the user only and, unless the iterator was used
\* elsewhere meanwhile, once for each of them in order, up to where it said to stop or
\* the call failed, whichever entries did not fit the buffer at first
\* (enum_groups.c:77).
UsersGroup(g) == g.gid = Gid \/ Name \in {g.mem[k] : k \in 1..Len(g.mem)}
InOrder == \A i, j \in 1..Len(called) : i < j => called[i] < called[j]
CalledUpTo(n) == \A k \in 1..n : UsersGroup(db[k]) => \E j \in 1..Len(called) : called[j] = k

EachGroupOnce ==
    Is("groups") =>
        /\ \A j \in 1..Len(called) : UsersGroup(db[called[j]])
        /\ ~disturbed => /\ InOrder
                         /\ CalledUpTo(IF out = "ok" THEN Len(db)
                                       ELSE IF called = <<>> THEN 0 ELSE called[Len(called)])

\* Whatever the outcome, vsc_enum_groups has freed its buffer and closed the iterator,
\* and vsc_searchpath has freed the buffer it does not return.  vsc_fnullify leaves the
\* table alone when it fails, and one descriptor open besides when it does not
\* (fnullify.c:40).
NothingLeft ==
    /\ Is("groups") => buf = 0 /\ ~open
    /\ Is("path") => (pathbuf = <<>> <=> out.res # "ok")
    /\ Is("printf") /\ out.text # Null => out.room = Len(out.text) + 1
    /\ Is("fnullify") =>
        LET changed == {d \in Descriptors : out.table[d] # call.table[d]}
        IN  IF out.ret < 0 THEN changed = {}
            ELSE /\ out.ret = call.fd /\ out.table[call.fd] = "null"
                 /\ Cardinality(changed \ {call.fd}) <= 1
                 /\ \A d \in changed : out.table[d] = "null"

\* vsc_searchpath asks for the file in each directory between the colons of PATH, in
\* order and by its whole name, up to the first one that is regular and has an execute
\* bit for a class the user is in; it passes over none the user may execute, unless as a
\* supplementary member of its group (searchpath.c:47).
MayExecute(f) ==
    /\ f.type = "reg"
    /\ (IF f.uid = "mine" THEN "usr" ELSE IF f.gid # "else" THEN "grp" ELSE "oth") \in f.mode

Classes(f) == {"oth"} \cup (IF f.gid = "else" THEN {} ELSE {"grp"})
                      \cup (IF f.uid = "mine" THEN {"usr"} ELSE {})

FirstExecutable ==
    Is("path") =>
        LET dirs == LoopPieces(path, Colon)
            passed == IF out.res = "ok" THEN Len(seen) - 1 ELSE Len(seen)
        IN  /\ Len(seen) <= Len(dirs)
            /\ \A k \in 1..Len(seen) : seen[k].name = NameIn(dirs[k])
            /\ \A k \in 1..passed : MayExecute(seen[k].file) => seen[k].file.gid = "supplementary"
            /\ out.res = "ok" =>
                   /\ seen # <<>> /\ seen[Len(seen)].file.type = "reg"
                   /\ seen[Len(seen)].file.mode \cap Classes(seen[Len(seen)].file) # {}
            /\ out.res = "ENOENT" => Len(seen) = Len(dirs)

\* What vsc_searchpath returns is the name stat found good, whole and terminated inside
\* the buffer that the first scan of PATH has measured, with nothing of the longer
\* candidates that were in it before (searchpath.c:114), and its length.
NameIsWhole ==
    Is("path") /\ out.res = "ok" =>
        LET name == NameIn(LoopPieces(path, Colon)[Len(seen)])
        IN  CString(pathbuf) = name /\ out.len = Len(name) /\ out.len < Len(pathbuf)

\* Joined at the delimiter they were split at, the pieces of a text are that text, and
\* there is one more of them than delimiters; the C++ one leaves an empty last piece
\* out. If proc stops at one of them, the empty last piece included, no more of them are
\* handed over (for_each.c:50). A join fills the buffer it measured, and both joins agree
\* up to a null.
JoinUndoesSplit ==
    /\ Is("split") =>
        LET delims == Cardinality({k \in 1..Len(call.text) : call.text[k] = Delim})
            pieces == IF call.text = <<>> THEN 0 ELSE delims + 1
            c == out.c.pieces
        IN  /\ out.c.ret = (IF call.stop \in 1..pieces THEN "stopped" ELSE "ok")
            /\ Len(c) = (IF out.c.ret = "stopped" THEN call.stop ELSE pieces)
            /\ out.c.ret = "ok" =>
                   /\ vsc_strnjoin(<<Delim>>, c).text = call.text
                   /\ out.cpp.ret = "ok"
                   /\ out.cpp.pieces = (IF c # <<>> /\ c[Len(c)] = <<>>
                                        THEN SubSeq(c, 1, Len(c) - 1) ELSE c)
    /\ Is("join") =>
        /\ out.n.text # Null => out.n.room = Len(out.n.text) + 1 /\ out.v = out.n
        /\ out.v.text # Null => out.v.room = Len(out.v.text) + 1
        /\ out.v.text = Null <=> call.delim = Null

LowerCase(s) == [k \in 1..Len(s) |-> IF s[k] \in UpperA..(UpperA + 25) THEN s[k] + 32 ELSE s[k]]
Texts36(u) == {LowerCase(vsc_uuid_format(u, flags)) : flags \in Formats}

\* A formatted UUID fits its buffer and parses to itself, and a text that parses is a
\* formatted one but for the case of its letters.
UuidsReadBack ==
    /\ Is("format") =>
        /\ Len(out) < 39
        /\ \A u \in Uuids : vsc_uuid_parse(u, out) = [ret |-> "ok", uuid |-> call.uuid]
    /\ Is("parse") =>
        IF out.ret = "ok" THEN LowerCase(call.text) \in Texts36(out.uuid)
        ELSE \A u \in Uuids : LowerCase(call.text) \notin Texts36(u)

\* An unpacked colour packs to the same pixel.
PixelsReadBack ==
    Is("pixel") =>
        /\ pack_rgb565(out.rgb565) = call.pixel
        /\ pack_argb1555(out.argb1555) = call.pixel
        /\ pack_xrgb1555(out.xrgb1555) = 32768 + (call.pixel % 32768)

\* A WAV file that was written has the sizes of what follows the header, though its
\* byte rate wraps (wav.c:39), whether the samples were written at once or one by one,
\* and written at once they are little-endian.
WavsReadBack ==
    Is("wav") /\ out.ret = "ok" =>
        /\ out.header.data = out.data /\ out.data = 2 * call.channels * call.samples
        /\ out.header.riff = 36 + out.data
        /\ call.host = "l" => out.order = "l" /\ call.samples # 0
        /\ \/ out.header.byte_rate = call.rate * out.header.align
           \/ call.rate * out.header.align > UINT32_MAX

\* An integer is in the file in the order its name says and reads the same on any
\* machine, or as 0 if the file is cut short.
IntegersReadBack ==
    Is("bytes") =>
        IF Len(out.file) < Len(call.value) THEN \A k \in DOMAIN out.value : out.value[k] = 0
        ELSE /\ out.value = call.value
             /\ \A k \in DOMAIN out.file :
                    out.file[k] = call.value[IF call.e = "l" THEN k ELSE Len(out.file) + 1 - k]

\* A checksum as a native integer, and what a receiver gets who checks it.
BytesOf(x) == [k \in 1..4 |-> CHOOSE b \in 0..255 : Bits(b, 8) = ShiftRight(x, 8 * (k - 1)) \cap 0..7]
Sealed(message, crc) == message \o vsc_write("l", "l", BytesOf(crc))

\* A checksum is the remainder of the polynomial, and the message with its checksum
\* behind it has the residue, of crc32.c:169-186.
ChecksumsCheck ==
    Is("crc") =>
        /\ out.crc32 = Remainder(call.buf, POLY_ISO_HDLC)
        /\ out.crc32c = Remainder(call.buf, POLY_ISCSI)
        /\ Xor(vsc_crc32(Sealed(call.buf, out.crc32)), Ones) = RESIDUE_ISO_HDLC
        /\ Xor(vsc_crc32c(Sealed(call.buf, out.crc32c)), Ones) = RESIDUE_ISCSI

\* What was written, packed or summed up by one of the calls can be read back or
\* checked with its counterpart.
NumbersReadBack == PixelsReadBack /\ WavsReadBack /\ IntegersReadBack
FormatsReadBack == UuidsReadBack /\ NumbersReadBack /\ ChecksumsCheck

\* vsc_hash reads every byte of its input and none outside, and none outside the secret,
\* whatever the length: where the classes of lengths, stripes and blocks meet
\* (xxhash.h:4849) no byte is left out.
HashReadsItsInput ==
    Is("hash") =>
        IF call.null /\ call.size # 0 THEN out = VSC_INVALID_HASH
        ELSE /\ InputRead(out.steps) = 0..(call.size - 1)
             /\ SecretRead(out.steps) \subseteq 0..(XXH_SECRET_DEFAULT_SIZE - 1)

\* Hashes of one input are the same in every build for machines of one word size: builds
\* for size and for speed mix the same in the same order, every vector unit leaves the
\* same accumulators, products are exact and loads little-endian (xxhash.h:4787).
Exactly(product, lhs, rhs) ==
    /\ product.low64 \in Word /\ product.high64 \in Word
    /\ product.high64 * (HALF * HALF) + product.low64 = lhs * rhs

BuildsHashAlike ==
    /\ Is("hash") =>
        \A build \in Builds : build.LONG_BIT = call.build.LONG_BIT =>
            vsc_hash(call.null, call.size, build) = out
    /\ Is("stripe") =>
        LET s == call.stripe
        IN  \A unit \in VectorUnits :
                /\ XXH3_accumulate_512(s.acc, s.input, s.secret, unit) = out.acc
                /\ XXH3_scrambleAcc(s.acc, s.secret, unit) = out.scrambled
    /\ Is("multiply") => Exactly(out, call.lhs, call.rhs)
    /\ Is("load") => /\ out.word = SubSeq(call.bytes, 1, 8)
                     /\ out.lanes = <<SubSeq(call.bytes, 1, 8), SubSeq(call.bytes, 9, 16)>>

\* Every loop ends: the one around getgrent_r because each entry that does not fit
\* doubles the buffer.
CallsReturn == [](pc \in {"groups", "path"} => <>(pc = "done"))
=============================================================================
