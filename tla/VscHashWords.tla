---------------------------- MODULE VscHashWords ----------------------------
(***************************************************************************)
(* The word arithmetic of xxhash.h under vsc_hash, which every build does  *)
(* in its own way: integers loaded from memory, a multiplication of 64 by  *)
(* 64 bits, and the accumulators of a long input, eight lanes of 64 bits   *)
(* that each vector unit takes in groups of its own.                       *)
(*                                                                         *)
(* A word is a number below HALF * HALF.  In the code HALF is 2^32.        *)
(***************************************************************************)
EXTENDS Integers, Sequences

CONSTANTS HALF,
          BitXor(_, _),       \* the exclusive or of two words
          XXH_PRIME32_1,
          SHIFT47,            \* 2^47: a shift by 47 bits divides by it
          XXH3_kSecret,       \* the secret of 192 bytes, as 24 words
          WordUnits,          \* how loads and 64 by 64 multiplications are compiled
          VectorUnits         \* [vector, NEON_LANES]: what the accumulators are compiled for

Word == 0..(HALF * HALF - 1)
Lane == 0..7                                    \* of XXH_ACC_NB = 8
Secret == [0..23 -> Word]

ASSUME HashAssumption ==
    /\ HALF \in Nat \ {0, 1} /\ XXH_PRIME32_1 \in 0..(HALF - 1) /\ SHIFT47 \in Nat \ {0}
    /\ \A a, b \in Word : BitXor(a, b) \in Word
    /\ XXH3_kSecret \in Secret
    /\ WordUnits \subseteq [access : 0..3, little : BOOLEAN, mult : {"int128", "umulh", "portable"}]
    /\ VectorUnits \subseteq [vector : {"avx512", "avx2", "sse2", "neon", "vsx", "scalar"},
                              NEON_LANES : {2, 4, 6, 8}]

low(x) == x % HALF
high(x) == x \div HALF
Wrap(x) == x % (HALF * HALF)
-----------------------------------------------------------------------------
(* Loads.  The value of a word is given by its bytes, the least first.     *)

Reversed(b) == [k \in 1..Len(b) |-> b[Len(b) + 1 - k]]

\* The bytes in memory as an integer of the machine.
XXH_read(bytes, unit) == IF unit.little THEN bytes ELSE Reversed(bytes)

\* What is first in the memory of the integer 1, where the compiler does not say.
XXH_isLittleEndian(unit) == XXH_read(<<1, 0, 0, 0>>, unit)[1] = 1

XXH_swap(x) == [k \in 1..Len(x) |-> x[Len(x) - (k - 1)]]

\* Access method 3 shifts each byte to its place; the others load an integer.
XXH_readLE(bytes, unit) ==
    IF unit.access = 3 THEN [k \in 1..Len(bytes) |-> bytes[k]]
    ELSE IF XXH_isLittleEndian(unit) THEN XXH_read(bytes, unit) ELSE XXH_swap(XXH_read(bytes, unit))

\* Sixteen bytes as two lanes; a big-endian machine swaps the bytes of each.
vByteSwap == <<7, 6, 5, 4, 3, 2, 1, 0>>
XXH_vec_revb(v) == [lane \in 1..2 |-> [k \in 1..8 |-> v[lane][vByteSwap[k] + 1]]]
XXH_vec_loadu(bytes, unit) ==
    LET ret == [lane \in 1..2 |-> XXH_read(SubSeq(bytes, 8 * lane - 7, 8 * lane), unit)]
    IN  IF unit.little THEN ret ELSE XXH_vec_revb(ret)
-----------------------------------------------------------------------------
(* Multiplication.                                                         *)

XXH_mult32to64(x, y) == low(x) * low(y)

\* What the processor or the compiler can do, and else school multiplication by halves.
XXH_mult64to128(lhs, rhs, unit) ==
    IF unit.mult \in {"int128", "umulh"}
    THEN [low64 |-> Wrap(lhs * rhs), high64 |-> (lhs * rhs) \div (HALF * HALF)]
    ELSE LET lo_lo == XXH_mult32to64(low(lhs), low(rhs))
             hi_lo == XXH_mult32to64(high(lhs), low(rhs))
             lo_hi == XXH_mult32to64(low(lhs), high(rhs))
             hi_hi == XXH_mult32to64(high(lhs), high(rhs))
             cross == Wrap(high(lo_lo) + low(hi_lo) + lo_hi)
             upper == Wrap(high(hi_lo) + high(cross) + hi_hi)
         IN  [low64 |-> Wrap(cross * HALF) + low(lo_lo), high64 |-> upper]
-----------------------------------------------------------------------------
(* One stripe of 64 bytes mixed into the accumulators, and their scrambling. *)

Partner(lane) == IF lane % 2 = 0 THEN lane + 1 ELSE lane - 1

XXH3_scalarRound(acc, input, secret, lane) ==
    LET data_val == input[lane]
        data_key == BitXor(data_val, secret[lane])
        swapped == [acc EXCEPT ![Partner(lane)] = Wrap(@ + data_val)]
    IN  [swapped EXCEPT ![lane] = Wrap(@ + XXH_mult32to64(data_key, high(data_key)))]

\* The loop over the lanes from one on.
ScalarLanes(acc, input, secret, from) ==
    LET upto[n \in 0..8] ==
            IF n <= from THEN acc ELSE XXH3_scalarRound(upto[n - 1], input, secret, n - 1)
    IN  upto[8]

XXH3_accumulate_512_scalar(acc, input, secret) == ScalarLanes(acc, input, secret, 0)

Shifted(x) == BitXor(x, x \div SHIFT47)
XXH3_scalarScrambleRound(acc, secret, lane) ==
    [acc EXCEPT ![lane] = Wrap(BitXor(Shifted(@), secret[lane]) * XXH_PRIME32_1)]

ScrambleLanes(acc, secret, from) ==
    LET upto[n \in 0..8] ==
            IF n <= from THEN acc ELSE XXH3_scalarScrambleRound(upto[n - 1], secret, n - 1)
    IN  upto[8]

XXH3_scrambleAcc_scalar(acc, secret) == ScrambleLanes(acc, secret, 0)

(* The x86 units: the same instructions on registers of 8, 4 or 2 lanes.   *)

Register(v, lanes, i) == [j \in 0..(lanes - 1) |-> v[lanes * i + j]]
\* A bug: the first argument taken for the first half word.
MM_SHUFFLE_Reversed(z, y, x, w) == <<z, y, x, w>>
MM_SHUFFLE(z, y, x, w) == <<w, x, y, z>>

\* Within each group of four half words, number k becomes number order[k + 1].
shuffle_epi32(v, order) ==
    LET half(d) == IF d % 2 = 0 THEN low(v[d \div 2]) ELSE high(v[d \div 2])
        moved(d) == half(4 * (d \div 4) + order[(d % 4) + 1])
    IN  [j \in DOMAIN v |-> moved(2 * j) + HALF * moved(2 * j + 1)]

xor_epi64(a, b) == [j \in DOMAIN a |-> BitXor(a[j], b[j])]
mul_epu32(a, b) == [j \in DOMAIN a |-> low(a[j]) * low(b[j])]
add_epi64(a, b) == [j \in DOMAIN a |-> Wrap(a[j] + b[j])]

XXH3_accumulate_512_x86(acc, input, secret, lanes) ==
    LET xacc(i) ==
            LET data_vec == Register(input, lanes, i)
                data_key == xor_epi64(data_vec, Register(secret, lanes, i))
                data_key_lo == shuffle_epi32(data_key, MM_SHUFFLE(0, 3, 0, 1))
                product == mul_epu32(data_key, data_key_lo)
                data_swap == shuffle_epi32(data_vec, MM_SHUFFLE(1, 0, 3, 2))
            IN  add_epi64(product, add_epi64(Register(acc, lanes, i), data_swap))
    IN  [lane \in Lane |-> xacc(lane \div lanes)[lane % lanes]]

XXH3_scrambleAcc_x86(acc, secret, lanes) ==
    LET xacc(i) ==
            LET acc_vec == Register(acc, lanes, i)
                shifted == [j \in DOMAIN acc_vec |-> acc_vec[j] \div SHIFT47]
                data_key == xor_epi64(xor_epi64(acc_vec, shifted), Register(secret, lanes, i))
                data_key_hi == shuffle_epi32(data_key, MM_SHUFFLE(0, 3, 0, 1))
                prime32 == [j \in DOMAIN acc_vec |-> XXH_PRIME32_1 + HALF * XXH_PRIME32_1]
                prod_hi == mul_epu32(data_key_hi, prime32)
            IN  add_epi64(mul_epu32(data_key, prime32),
                          [j \in DOMAIN prod_hi |-> Wrap(prod_hi[j] * HALF)])
    IN  [lane \in Lane |-> xacc(lane \div lanes)[lane % lanes]]

XXH3_accumulate_512_avx512(acc, input, secret) == XXH3_accumulate_512_x86(acc, input, secret, 8)
XXH3_accumulate_512_avx2(acc, input, secret) == XXH3_accumulate_512_x86(acc, input, secret, 4)
XXH3_accumulate_512_sse2(acc, input, secret) == XXH3_accumulate_512_x86(acc, input, secret, 2)
XXH3_scrambleAcc_avx512(acc, secret) == XXH3_scrambleAcc_x86(acc, secret, 8)
XXH3_scrambleAcc_avx2(acc, secret) == XXH3_scrambleAcc_x86(acc, secret, 4)
XXH3_scrambleAcc_sse2(acc, secret) == XXH3_scrambleAcc_x86(acc, secret, 2)

(* NEON: the last lanes go through the scalar unit, the others in pairs.   *)

XXH_SPLIT_IN_PLACE(x) == [outLo |-> low(x), outHi |-> high(x)]
vmlal_u32(a, x, y) == Wrap(a + x * y)

XXH3_accumulate_512_neon(acc, input, secret, NEON_LANES) ==
    LET xacc == ScalarLanes(acc, input, secret, NEON_LANES)
        key(lane) == XXH_SPLIT_IN_PLACE(BitXor(input[lane], secret[lane]))
        pair(i, j) ==               \* lane j of the pair i
            LET lane == 2 * i + j
                swapped == input[2 * i + ((j + 1) % 2)]
            IN  Wrap(xacc[lane] + vmlal_u32(swapped, key(lane).outLo, key(lane).outHi))
    IN  [lane \in Lane |->
            IF lane \div 2 < NEON_LANES \div 2 THEN pair(lane \div 2, lane % 2) ELSE xacc[lane]]

XXH3_scrambleAcc_neon(acc, secret, NEON_LANES) ==
    LET xacc == ScrambleLanes(acc, secret, NEON_LANES)
        key(lane) == XXH_SPLIT_IN_PLACE(BitXor(Shifted(xacc[lane]), secret[lane]))
        prod_hi(lane) == Wrap(key(lane).outHi * XXH_PRIME32_1 * HALF)
    IN  [lane \in Lane |->
            IF lane \div 2 < NEON_LANES \div 2
            THEN vmlal_u32(prod_hi(lane), key(lane).outLo, XXH_PRIME32_1) ELSE xacc[lane]]

(* VSX and z: pairs; of a word, mulo takes the low halves and mule the high ones. *)

XXH_vec_mulo(a, b) == low(a) * low(b)
XXH_vec_mule(a, b) == high(a) * high(b)
vec_rl32(x) == Wrap(x * HALF) + high(x)

XXH3_accumulate_512_vsx(acc, input, secret) ==
    [lane \in Lane |->
        LET data_key == BitXor(input[lane], secret[lane])
            product == XXH_vec_mulo(data_key, vec_rl32(data_key))
        IN  Wrap(Wrap(acc[lane] + product) + input[Partner(lane)])]

XXH3_scrambleAcc_vsx(acc, secret) ==
    LET prime == XXH_PRIME32_1 + HALF * XXH_PRIME32_1
    IN  [lane \in Lane |->
            LET data_key == BitXor(Shifted(acc[lane]), secret[lane])
            IN  Wrap(XXH_vec_mulo(data_key, prime) + Wrap(XXH_vec_mule(data_key, prime) * HALF))]

(* Which of them a build has.                                              *)

XXH3_accumulate_512(acc, input, secret, unit) ==
    CASE unit.vector = "avx512" -> XXH3_accumulate_512_avx512(acc, input, secret)
      [] unit.vector = "avx2" -> XXH3_accumulate_512_avx2(acc, input, secret)
      [] unit.vector = "sse2" -> XXH3_accumulate_512_sse2(acc, input, secret)
      [] unit.vector = "neon" -> XXH3_accumulate_512_neon(acc, input, secret, unit.NEON_LANES)
      [] unit.vector = "vsx" -> XXH3_accumulate_512_vsx(acc, input, secret)
      [] OTHER -> XXH3_accumulate_512_scalar(acc, input, secret)

XXH3_scrambleAcc(acc, secret, unit) ==
    CASE unit.vector = "avx512" -> XXH3_scrambleAcc_avx512(acc, secret)
      [] unit.vector = "avx2" -> XXH3_scrambleAcc_avx2(acc, secret)
      [] unit.vector = "sse2" -> XXH3_scrambleAcc_sse2(acc, secret)
      [] unit.vector = "neon" -> XXH3_scrambleAcc_neon(acc, secret, unit.NEON_LANES)
      [] unit.vector = "vsx" -> XXH3_scrambleAcc_vsx(acc, secret)
      [] OTHER -> XXH3_scrambleAcc_scalar(acc, secret)

\* The secret of a seed, which builds for size make also for the seed 0.
XXH3_initCustomSecret_scalar(secret, seed64) ==
    [w \in 0..23 |-> IF w % 2 = 0 THEN Wrap(secret[w] + seed64)
                     ELSE Wrap(secret[w] + HALF * HALF - seed64)]
=============================================================================
