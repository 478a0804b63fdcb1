------------------------------- MODULE VscHash -------------------------------
(***************************************************************************)
(* vsc_hash (hash.c) and what it calls of xxhash.h: XXH3 on a machine of   *)
(* 64 bits, XXH32 on others.  A hash is given by what it is made of: which *)
(* bytes are mixed with which part of the secret, in which order.          *)
(*                                                                         *)
(* The steps of a hash are a sequence of sets of mixes.  The mixes of one  *)
(* step are added up, or go to accumulators of their own, so that their    *)
(* order does not matter, and no two of them are alike; between two steps  *)
(* the sum is rotated, multiplied or scrambled.                            *)
(***************************************************************************)
EXTENDS VscHashWords

XXH_SECRET_DEFAULT_SIZE == 192
XXH3_SECRET_SIZE_MIN == 136
XXH_STRIPE_LEN == 64
XXH_SECRET_CONSUME_RATE == 8
VSC_INVALID_HASH == [by |-> "invalid"]

\* n bytes of the input from in on, with k bytes of the secret from key on, into
\* accumulator or bit to.
Mix(to, in, n, key, k) == [to |-> to, in |-> in, n |-> n, key |-> key, k |-> k]

Bytes(start, n) == start..(start + n - 1)
InputRead(steps) == UNION {UNION {Bytes(m.in, m.n) : m \in steps[s]} : s \in DOMAIN steps}
SecretRead(steps) == UNION {UNION {Bytes(m.key, m.k) : m \in steps[s]} : s \in DOMAIN steps}

\* How often a loop runs that goes on after n turns for the n in again, at least once.
Turns(again, max) == CHOOSE n \in 1..max : n \notin again /\ \A m \in 1..(n - 1) : m \in again
-----------------------------------------------------------------------------
(* XXH3: short inputs.                                                     *)

XXH3_len_1to3_64b(len) ==
    << {Mix(16, 0, 1, 0, 8), Mix(24, len \div 2, 1, 0, 8), Mix(0, len - 1, 1, 0, 8)} >>

XXH3_len_4to8_64b(len) == << {Mix(32, 0, 4, 8, 16), Mix(0, len - 4, 4, 8, 16)} >>

XXH3_len_9to16_64b(len) == << {Mix(0, 0, 8, 24, 16), Mix(1, len - 8, 8, 40, 16)} >>

XXH3_len_0to16_64b(len) ==
    IF len > 8 THEN XXH3_len_9to16_64b(len)
    ELSE IF len >= 4 THEN XXH3_len_4to8_64b(len)
    ELSE IF len # 0 THEN XXH3_len_1to3_64b(len)
    ELSE << {Mix(0, 0, 0, 56, 16)} >>

(* XXH3: middle inputs, 16 bytes of the input with 16 of the secret.       *)

XXH3_mix16B(in, key) == Mix(0, in, 16, key, 16)

\* A bug: the loop for size made to count from the last 16 bytes.
XXH3_len_17to128_64b_OneTurnLess(len, SIZE_OPT) ==
    << UNION {{XXH3_mix16B(16 * i, 32 * i), XXH3_mix16B(len - 16 * (i + 1), 32 * i + 16)} :
                  i \in 0..((len - 16) \div 32)} >>

XXH3_len_17to128_64b(len, SIZE_OPT) ==
    << IF SIZE_OPT >= 1
       THEN UNION {{XXH3_mix16B(16 * i, 32 * i), XXH3_mix16B(len - 16 * (i + 1), 32 * i + 16)} :
                       i \in 0..((len - 1) \div 32)}
       ELSE UNION {IF len > 96 THEN {XXH3_mix16B(48, 96), XXH3_mix16B(len - 64, 112)} ELSE {},
                   IF len > 64 THEN {XXH3_mix16B(32, 64), XXH3_mix16B(len - 48, 80)} ELSE {},
                   IF len > 32 THEN {XXH3_mix16B(16, 32), XXH3_mix16B(len - 32, 48)} ELSE {},
                   {XXH3_mix16B(0, 0), XXH3_mix16B(len - 16, 16)}} >>

XXH3_MIDSIZE_MAX == 240
XXH3_MIDSIZE_STARTOFFSET == 3
XXH3_MIDSIZE_LASTOFFSET == 17

XXH3_len_129to240_64b(len) ==
    LET nbRounds == len \div 16
    IN  << {XXH3_mix16B(16 * i, 16 * i) : i \in 0..7},
           {XXH3_mix16B(16 * i, 16 * (i - 8) + XXH3_MIDSIZE_STARTOFFSET) : i \in 8..(nbRounds - 1)}
           \cup {XXH3_mix16B(len - 16, XXH3_SECRET_SIZE_MIN - XXH3_MIDSIZE_LASTOFFSET)} >>
-----------------------------------------------------------------------------
(* XXH3: long inputs, in stripes of 64 bytes and blocks of stripes.        *)

Stripe(in, key) == Mix(0, in, XXH_STRIPE_LEN, key, XXH_STRIPE_LEN)

XXH3_accumulate(in, secret, nbStripes) ==
    {Stripe(in + n * XXH_STRIPE_LEN, secret + n * XXH_SECRET_CONSUME_RATE) : n \in 0..(nbStripes - 1)}

XXH_SECRET_LASTACC_START == 7
XXH_SECRET_MERGEACCS_START == 11

XXH3_hashLong_internal_loop(len, secretSize) ==
    LET nbStripesPerBlock == (secretSize - XXH_STRIPE_LEN) \div XXH_SECRET_CONSUME_RATE
        block_len == XXH_STRIPE_LEN * nbStripesPerBlock
        nb_blocks == (len - 1) \div block_len
        nbStripes == ((len - 1) - block_len * nb_blocks) \div XXH_STRIPE_LEN
        scramble == {Mix(0, 0, 0, secretSize - XXH_STRIPE_LEN, XXH_STRIPE_LEN)}
        last == Stripe(len - XXH_STRIPE_LEN, secretSize - XXH_STRIPE_LEN - XXH_SECRET_LASTACC_START)
    IN  [s \in 1..(2 * nb_blocks) |->
            IF s % 2 = 0 THEN scramble
            ELSE XXH3_accumulate((s \div 2) * block_len, 0, nbStripesPerBlock)]
        \o << XXH3_accumulate(nb_blocks * block_len, 0, nbStripes) \cup {last} >>

XXH3_mergeAccs(secret) == {Mix(i, 0, 0, secret + 16 * i, 16) : i \in 0..3}

XXH3_hashLong_64b_internal(len, secretSize) ==
    XXH3_hashLong_internal_loop(len, secretSize) \o << XXH3_mergeAccs(XXH_SECRET_MERGEACCS_START) >>

\* The secret a long input is mixed with; shorter ones take the fixed one.
SecretOf(seed, SIZE_OPT) ==
    IF SIZE_OPT <= 0 /\ seed = 0 THEN XXH3_kSecret
    ELSE XXH3_initCustomSecret_scalar(XXH3_kSecret, seed)

Digest(by, len, secret, steps) == [by |-> by, len |-> len, secret |-> secret, steps |-> steps]

XXH3_hashLong_64b_withSeed(len, seed, SIZE_OPT) ==
    Digest("hashLong", len, SecretOf(seed, SIZE_OPT),
           XXH3_hashLong_64b_internal(len, XXH_SECRET_DEFAULT_SIZE))

XXH3_64bits_internal(len, seed, SIZE_OPT) ==
    IF len <= 16 THEN Digest("len_0to16", len, XXH3_kSecret, XXH3_len_0to16_64b(len))
    ELSE IF len <= 128
    THEN Digest("len_17to128", len, XXH3_kSecret, XXH3_len_17to128_64b(len, SIZE_OPT))
    ELSE IF len <= XXH3_MIDSIZE_MAX
    THEN Digest("len_129to240", len, XXH3_kSecret, XXH3_len_129to240_64b(len))
    ELSE XXH3_hashLong_64b_withSeed(len, seed, SIZE_OPT)

XXH3_64bits_withSeed(len, seed, SIZE_OPT) == XXH3_64bits_internal(len, seed, SIZE_OPT)
-----------------------------------------------------------------------------
(* XXH32: four lanes of 4 bytes a turn, then what is left by words and bytes. *)

XXH32_round(lane, in) == Mix(lane, in, 4, 0, 0)
Round(in) == {XXH32_round(lane, in + 4 * lane) : lane \in 0..3}

\* How many words and bytes each case of the switch falls through.
ENDJMP == << <<0, 0>>, <<0, 1>>, <<0, 2>>, <<0, 3>>, <<1, 0>>, <<1, 1>>, <<1, 2>>, <<1, 3>>,
             <<2, 0>>, <<2, 1>>, <<2, 2>>, <<2, 3>>, <<3, 0>>, <<3, 1>>, <<3, 2>>, <<3, 3>> >>

XXH32_finalize(ptr, len, XXH32_ENDJMP) ==
    LET rest == len % 16
        words == IF XXH32_ENDJMP THEN ENDJMP[rest + 1][1] ELSE rest \div 4
        bytes == IF XXH32_ENDJMP THEN ENDJMP[rest + 1][2] ELSE rest % 4
    IN  [s \in 1..(words + bytes) |->
            {IF s <= words THEN Mix(0, ptr + 4 * (s - 1), 4, 0, 0)
             ELSE Mix(0, ptr + 3 * words + s - 1, 1, 0, 0)}]

XXH32_endian_align(len, seed, XXH32_ENDJMP) ==
    LET turns == IF len >= 16 THEN Turns({n \in 1..len : 16 * n < len - 15}, len) ELSE 0
    IN  Digest(IF len >= 16 THEN "lanes" ELSE "seed", len, seed,
               [s \in 1..turns |-> Round(16 * (s - 1))]
               \o XXH32_finalize(16 * turns, len % 16, XXH32_ENDJMP))

(* The same by the streaming interface, in builds for the least size.      *)

XXH32_reset(seed) == [v |-> <<>>, seed |-> seed, total_len_32 |-> 0, large_len |-> FALSE,
                      mem |-> 0, memsize |-> 0]

\* Of the bytes kept in the state, mem is where they were in the input.  The state is new.
XXH32_update(state, len) ==
    LET total == state.total_len_32 + len
        turns == IF 0 <= len - 16 THEN Turns({n \in 1..len : 16 * n <= len - 16}, len) ELSE 0
        counted == [state EXCEPT !.total_len_32 = total,
                                 !.large_len = @ \/ len >= 16 \/ total >= 16]
    IN  IF state.memsize + len < 16 THEN [counted EXCEPT !.mem = 0, !.memsize = len]
        ELSE [counted EXCEPT !.v = [s \in 1..turns |-> Round(16 * (s - 1))],
                             !.mem = 16 * turns, !.memsize = len - 16 * turns]

XXH32_digest(state, XXH32_ENDJMP) ==
    Digest(IF state.large_len THEN "lanes" ELSE "seed", state.total_len_32, state.seed,
           state.v \o XXH32_finalize(state.mem, state.memsize, XXH32_ENDJMP))

XXH32(len, seed, build) ==
    IF build.SIZE_OPT >= 2 THEN XXH32_digest(XXH32_update(XXH32_reset(seed), len), build.XXH32_ENDJMP)
    ELSE XXH32_endian_align(len, seed, build.XXH32_ENDJMP)
-----------------------------------------------------------------------------
vsc_hash(null, size, build) ==
    IF null /\ size # 0 THEN VSC_INVALID_HASH
    ELSE IF build.LONG_BIT = 64 THEN XXH3_64bits_withSeed(size, 0, build.SIZE_OPT)
    ELSE XXH32(size, 0, build)
=============================================================================
