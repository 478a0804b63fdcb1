------------------------------- MODULE VscWav --------------------------------
(***************************************************************************)
(* vsc_wav_write (wav.c): a header of 44 bytes and the samples, with the   *)
(* sizes in 32 bits.  host is the byte order it is compiled for, "l" or    *)
(* "b": the samples are written at once or one by one.                     *)
(***************************************************************************)
EXTENDS Integers

CONSTANTS UINT32_MAX, SIZE_T_MAX

ASSUME WavAssumption == UINT32_MAX \in Nat /\ UINT32_MAX >= 36 /\ SIZE_T_MAX \in Nat
                        /\ UINT32_MAX <= SIZE_T_MAX

U32(x) == x % (UINT32_MAX + 1)
SizeT(x) == x % (SIZE_T_MAX + 1)

block_align(nchannels) == 2 * nchannels
data_size(nsamples, nchannels) == U32(SizeT(block_align(nchannels) * nsamples))

Check(nsamples, sample_rate, nchannels) ==
    IF sample_rate = 0 \/ nchannels \notin {1, 2} THEN "EINVAL"
    ELSE IF nsamples >= UINT32_MAX \div block_align(nchannels) THEN "ERANGE"
    ELSE IF data_size(nsamples, nchannels) > UINT32_MAX - 36 THEN "ERANGE"
    ELSE "ok"

Header(nsamples, sample_rate, nchannels) ==
    [riff |-> U32(36 + data_size(nsamples, nchannels)),
     channels |-> nchannels, rate |-> sample_rate,
     byte_rate |-> U32(sample_rate * block_align(nchannels)),
     align |-> block_align(nchannels), data |-> data_size(nsamples, nchannels)]

NoHeader == [riff |-> 0, channels |-> 0, rate |-> 0, byte_rate |-> 0, align |-> 0, data |-> 0]

\* What is written behind the header: one element of data_size bytes, or one of two bytes
\* for each sample, converted to big-endian on a machine that is.  Either way the samples
\* are in the order of the machine.
SampleBytes(host, nsamples, nchannels) ==
    IF host = "b" THEN 2 * SizeT(nsamples * nchannels) ELSE data_size(nsamples, nchannels)

\* A write may fail halfway: what is in the file then is a part of it.  An element of no
\* bytes is not written, which is taken for an error too.
Cut(host, size) == IF host = "l" /\ size = 0 THEN {0} ELSE 0..(size - 1)

vsc_wav_write(host, nsamples, sample_rate, nchannels) ==
    LET check == Check(nsamples, sample_rate, nchannels)
        size == SampleBytes(host, nsamples, nchannels)
        header == Header(nsamples, sample_rate, nchannels)
        File(ret, head, data) == [ret |-> ret, header |-> head, data |-> data, order |-> host]
    IN  IF check # "ok" THEN {File(check, NoHeader, 0)}
        ELSE {File("EIO", NoHeader, 0)}
             \cup {File("EIO", header, d) : d \in Cut(host, size)}
             \cup (IF host = "b" \/ size # 0 THEN {File("ok", header, size)} ELSE {})
=============================================================================
