-------------------------------- MODULE XXH3 --------------------------------
(***************************************************************************)
(* XXH3 of xxhash.h: buffers of up to 240 bytes are mixed at once, longer  *)
(* ones go through the accumulators of XXH3Lanes.  The 64-bit and 128-bit  *)
(* hashes share their state, and its operations, when they stream.         *)
(***************************************************************************)
EXTENDS XXH3Lanes

CONSTANT NULL  \* the null pointer, in the place of an external secret
ASSUME NullAssumption == NULL \notin Seq(Byte)

XXH3_MIDSIZE_MAX == 240
XXH3_MIDSIZE_STARTOFFSET == 3
XXH3_MIDSIZE_LASTOFFSET == 17
XXH_SECRET_LASTACC_START == 7
XXH_SECRET_MERGEACCS_START == 11
XXH3_INTERNALBUFFER_SIZE == 256
PRIME_MX1 == <<\hF9, \h79, \h37, \h9E, \h91, \h67, \h56, \h16>>
PRIME_MX2 == <<\h25, \hDF, \h98, \h1E, \h65, \h1C, \hB2, \h9F>>

Hash128(low64, high64) == [low64 |-> low64, high64 |-> high64]
Num(n) == FromNat(n, 8)
Keys(p, i) == XXH_readLE64(p, i) ^^ XXH_readLE64(p, i + 8)

\* A product from those of the lower and higher halves of its factors
FromPartials(lo_lo, hi_lo, lo_hi, hi_hi) ==
    LET cross == (Shr(lo_lo, 32) ++ Extend(Low(hi_lo), 8)) ++ lo_hi
    IN Hash128(Low(lo_lo) \o Low(cross), (Shr(hi_lo, 32) ++ Shr(cross, 32)) ++ hi_hi)
XXH_mult64to128(lhs, rhs) ==
    FromPartials(XXH_mult32to64(Low(lhs), Low(rhs)), XXH_mult32to64(High(lhs), Low(rhs)),
                 XXH_mult32to64(Low(lhs), High(rhs)), XXH_mult32to64(High(lhs), High(rhs)))

Folded(product) == product.low64 ^^ product.high64
XXH3_mul128_fold64(lhs, rhs) == Folded(XXH_mult64to128(lhs, rhs))

XXH3_avalanche(h64) == XorShift(XorShift(h64, 37) ** PRIME_MX1, 32)

XXH3_rrmxmx(h64, len) ==
    LET mixed == ((h64 ^^ Rotl(h64, 49)) ^^ Rotl(h64, 24)) ** PRIME_MX2
    IN XorShift((mixed ^^ (Shr(mixed, 35) ++ Num(len))) ** PRIME_MX2, 28)

\* The first, middle and last byte with the length between them, as 32 bits.
Combined(input) == LET len == Len(input)
                   IN <<input[len], len, input[1], input[(len \div 2) + 1]>>
\* The seed with its low half, byte-swapped, mixed into the high one.
SwappedSeed(seed) == seed ^^ (Zero(4) \o Swap(Low(seed)))

-----------------------------------------------------------------------------
(***************************************************************************)
(* 64 bits of short inputs                                                 *)
(***************************************************************************)
XXH3_len_1to3_64b(input, secret, seed) ==
    XXH64_avalanche(Extend(Combined(input), 8)
                    ^^ (Extend(XXH_readLE32(secret, 0) ^^ XXH_readLE32(secret, 4), 8) ++ seed))

XXH3_len_4to8_64b(input, secret, seed) ==
    LET input64 == XXH_readLE32(input, Len(input) - 4) \o XXH_readLE32(input, 0)
    IN XXH3_rrmxmx(input64 ^^ (Keys(secret, 8) -- SwappedSeed(seed)), Len(input))

XXH3_len_9to16_64b(input, secret, seed) ==
    LET input_lo == XXH_readLE64(input, 0) ^^ (Keys(secret, 24) ++ seed)
        input_hi == XXH_readLE64(input, Len(input) - 8) ^^ (Keys(secret, 40) -- seed)
    IN XXH3_avalanche(((Num(Len(input)) ++ Swap(input_lo)) ++ input_hi)
                      ++ XXH3_mul128_fold64(input_lo, input_hi))

XXH3_len_0to16_64b(input, secret, seed) ==
    CASE Len(input) > 8 -> XXH3_len_9to16_64b(input, secret, seed)
      [] Len(input) \in 4..8 -> XXH3_len_4to8_64b(input, secret, seed)
      [] Len(input) \in 1..3 -> XXH3_len_1to3_64b(input, secret, seed)
      [] Len(input) = 0 -> XXH64_avalanche(seed ^^ Keys(secret, 56))

\* 16 bytes of input at i, 16 of the secret at s
XXH3_mix16B(input, i, secret, s, seed64) ==
    XXH3_mul128_fold64(XXH_readLE64(input, i) ^^ (XXH_readLE64(secret, s) ++ seed64),
                       XXH_readLE64(input, i + 8) ^^ (XXH_readLE64(secret, s + 8) -- seed64))

\* From both ends towards the middle, a pair for every 32 bytes begun.
XXH3_len_17to128_64b(input, secret, seed) ==
    LET len == Len(input)
        acc[n \in 0..((len - 1) \div 32) + 1] ==
            IF n = 0 THEN Num(len) ** XXH_PRIME64_1
            ELSE (acc[n - 1] ++ XXH3_mix16B(input, 16 * (n - 1), secret, 32 * (n - 1), seed))
                 ++ XXH3_mix16B(input, len - 16 * n, secret, 32 * (n - 1) + 16, seed)
    IN XXH3_avalanche(acc[((len - 1) \div 32) + 1])

XXH3_len_129to240_64b(input, secret, seed) ==
    LET len == Len(input)
        acc[n \in 0..(len \div 16)] ==
            IF n = 0 THEN Num(len) ** XXH_PRIME64_1
            ELSE LET i == n - 1
                 IN IF i < 8 THEN acc[i] ++ XXH3_mix16B(input, 16 * i, secret, 16 * i, seed)
                    ELSE (IF i = 8 THEN XXH3_avalanche(acc[i]) ELSE acc[i])
                         ++ XXH3_mix16B(input, 16 * i, secret, 16 * (i - 8) + XXH3_MIDSIZE_STARTOFFSET, seed)
        rounds == IF len \div 16 = 8 THEN XXH3_avalanche(acc[8]) ELSE acc[len \div 16]
    IN XXH3_avalanche(rounds ++ XXH3_mix16B(input, len - 16, secret,
                                            XXH3_SECRET_SIZE_MIN - XXH3_MIDSIZE_LASTOFFSET, seed))

-----------------------------------------------------------------------------
(***************************************************************************)
(* Long inputs                                                             *)
(***************************************************************************)
XXH3_INIT_ACC == <<Extend(XXH_PRIME32_3, 8), XXH_PRIME64_1, XXH_PRIME64_2, XXH_PRIME64_3,
                   XXH_PRIME64_4, Extend(XXH_PRIME32_2, 8), XXH_PRIME64_5, Extend(XXH_PRIME32_1, 8)>>

\* nbStripes stripes of the input from i on, with the secret from s on
XXH3_accumulate(acc, input, i, secret, s, nbStripes) ==
    LET after[n \in 0..nbStripes] ==
          IF n = 0 THEN acc
          ELSE XXH3_accumulate_512(after[n - 1], Bytes(input, i + XXH_STRIPE_LEN * (n - 1), XXH_STRIPE_LEN),
                                   Bytes(secret, s + XXH_SECRET_CONSUME_RATE * (n - 1), XXH_STRIPE_LEN))
    IN after[nbStripes]
SecretEnd(secret, back) == Bytes(secret, Len(secret) - XXH_STRIPE_LEN - back, XXH_STRIPE_LEN)

XXH3_hashLong_internal_loop(input, secret) ==
    LET nbStripesPerBlock == (Len(secret) - XXH_STRIPE_LEN) \div XXH_SECRET_CONSUME_RATE
        block_len == XXH_STRIPE_LEN * nbStripesPerBlock
        nb_blocks == (Len(input) - 1) \div block_len
        block[n \in 0..nb_blocks] ==
            IF n = 0 THEN XXH3_INIT_ACC
            ELSE XXH3_scrambleAcc(XXH3_accumulate(block[n - 1], input, block_len * (n - 1),
                                                  secret, 0, nbStripesPerBlock),
                                  SecretEnd(secret, 0))
        nbStripes == ((Len(input) - 1) - block_len * nb_blocks) \div XXH_STRIPE_LEN
    IN XXH3_accumulate_512(
           XXH3_accumulate(block[nb_blocks], input, nb_blocks * block_len, secret, 0, nbStripes),
           Bytes(input, Len(input) - XXH_STRIPE_LEN, XXH_STRIPE_LEN),
           SecretEnd(secret, XXH_SECRET_LASTACC_START))

XXH3_mix2Accs(acc, a, secret, s) ==
    XXH3_mul128_fold64(acc[a + 1] ^^ XXH_readLE64(secret, s), acc[a + 2] ^^ XXH_readLE64(secret, s + 8))

XXH3_mergeAccs(acc, secret, s, start) ==
    LET result64[i \in 0..4] ==
          IF i = 0 THEN start ELSE result64[i - 1] ++ XXH3_mix2Accs(acc, 2 * (i - 1), secret, s + 16 * (i - 1))
    IN XXH3_avalanche(result64[4])

Merged64(acc, secret, len) ==
    XXH3_mergeAccs(acc, secret, XXH_SECRET_MERGEACCS_START, Num(len) ** XXH_PRIME64_1)
XXH3_hashLong_64b_internal(input, secret) ==
    Merged64(XXH3_hashLong_internal_loop(input, secret), secret, Len(input))
XXH3_hashLong_64b_withSeed(input, seed) ==
    XXH3_hashLong_64b_internal(input, IF seed = Zero(8) THEN XXH3_kSecret ELSE XXH3_initCustomSecret(seed))

\* With a seed the long inputs, and only they, take a secret made from it.
XXH3_64bits_internal(input, seed64, secret, long) ==
    CASE Len(input) <= 16 -> XXH3_len_0to16_64b(input, secret, seed64)
      [] Len(input) \in 17..128 -> XXH3_len_17to128_64b(input, secret, seed64)
      [] Len(input) \in 129..XXH3_MIDSIZE_MAX -> XXH3_len_129to240_64b(input, secret, seed64)
      [] Len(input) > XXH3_MIDSIZE_MAX -> long
XXH3_64bits(input) ==
    XXH3_64bits_internal(input, Zero(8), XXH3_kSecret, XXH3_hashLong_64b_internal(input, XXH3_kSecret))
XXH3_64bits_withSecret(input, secret) ==
    XXH3_64bits_internal(input, Zero(8), secret, XXH3_hashLong_64b_internal(input, secret))
XXH3_64bits_withSeed(input, seed) ==
    XXH3_64bits_internal(input, seed, XXH3_kSecret, XXH3_hashLong_64b_withSeed(input, seed))

-----------------------------------------------------------------------------
(***************************************************************************)
(* 128 bits                                                                *)
(***************************************************************************)
XXH3_len_1to3_128b(input, secret, seed) ==
    LET combinedl == Combined(input)
        combinedh == Rotl(Swap(combinedl), 13)
        bitflipl == Extend(XXH_readLE32(secret, 0) ^^ XXH_readLE32(secret, 4), 8) ++ seed
        bitfliph == Extend(XXH_readLE32(secret, 8) ^^ XXH_readLE32(secret, 12), 8) -- seed
    IN Hash128(XXH64_avalanche(Extend(combinedl, 8) ^^ bitflipl),
               XXH64_avalanche(Extend(combinedh, 8) ^^ bitfliph))

XXH3_len_4to8_128b(input, secret, seed) ==
    LET input_64 == XXH_readLE32(input, 0) \o XXH_readLE32(input, Len(input) - 4)
        m128 == XXH_mult64to128(input_64 ^^ (Keys(secret, 16) ++ SwappedSeed(seed)),
                                XXH_PRIME64_1 ++ Num(4 * Len(input)))
        high64 == m128.high64 ++ Shl(m128.low64, 1)
        low64  == m128.low64 ^^ Shr(high64, 3)
    IN Hash128(XorShift(XorShift(low64, 35) ** PRIME_MX2, 28), XXH3_avalanche(high64))

\* On a 64-bit target: XXH_PRIME32_2 - 1 makes up for adding the whole of input_hi.
XXH3_len_9to16_128b(input, secret, seed) ==
    LET len == Len(input)
        input_lo == XXH_readLE64(input, 0)
        read_hi  == XXH_readLE64(input, len - 8)
        m128 == XXH_mult64to128((input_lo ^^ read_hi) ^^ (Keys(secret, 32) -- seed), XXH_PRIME64_1)
        input_hi == read_hi ^^ (Keys(secret, 48) ++ seed)
        high64 == (m128.high64 ++ input_hi)
                  ++ XXH_mult32to64(input_hi, Extend(XXH_PRIME32_2, 8) -- Num(1))
        low64  == (m128.low64 ++ Shl(Num(len - 1), 54)) ^^ Swap(high64)
        h128 == XXH_mult64to128(low64, XXH_PRIME64_2)
    IN Hash128(XXH3_avalanche(h128.low64), XXH3_avalanche(h128.high64 ++ (high64 ** XXH_PRIME64_2)))

XXH3_len_0to16_128b(input, secret, seed) ==
    CASE Len(input) > 8 -> XXH3_len_9to16_128b(input, secret, seed)
      [] Len(input) \in 4..8 -> XXH3_len_4to8_128b(input, secret, seed)
      [] Len(input) \in 1..3 -> XXH3_len_1to3_128b(input, secret, seed)
      [] Len(input) = 0 -> Hash128(XXH64_avalanche(seed ^^ Keys(secret, 64)),
                                   XXH64_avalanche(seed ^^ Keys(secret, 80)))

XXH128_mix32B(acc, input, i1, i2, secret, s, seed) ==
    Hash128((acc.low64 ++ XXH3_mix16B(input, i1, secret, s, seed))
                ^^ (XXH_readLE64(input, i2) ++ XXH_readLE64(input, i2 + 8)),
            (acc.high64 ++ XXH3_mix16B(input, i2, secret, s + 16, seed))
                ^^ (XXH_readLE64(input, i1) ++ XXH_readLE64(input, i1 + 8)))

\* The end of both middle-sized cases
Folded128(acc, len, seed) ==
    Hash128(XXH3_avalanche(acc.low64 ++ acc.high64),
            Zero(8) -- XXH3_avalanche(((acc.low64 ** XXH_PRIME64_1) ++ (acc.high64 ** XXH_PRIME64_4))
                                      ++ ((Num(len) -- seed) ** XXH_PRIME64_2)))

\* From the middle to both ends, as long as there are more than 32 bytes a pair.
XXH3_len_17to128_128b(input, secret, seed) ==
    LET len == Len(input)
        pairs == (len - 1) \div 32
        acc[n \in 0..(pairs + 1)] ==
            IF n = 0 THEN Hash128(Num(len) ** XXH_PRIME64_1, Zero(8))
            ELSE LET i == pairs + 1 - n
                 IN XXH128_mix32B(acc[n - 1], input, 16 * i, len - 16 * (i + 1), secret, 32 * i, seed)
    IN Folded128(acc[pairs + 1], len, seed)

XXH3_len_129to240_128b(input, secret, seed) ==
    LET len == Len(input)
        Mixed(acc) == Hash128(XXH3_avalanche(acc.low64), XXH3_avalanche(acc.high64))
        acc[n \in 0..(len \div 32)] ==
            IF n = 0 THEN Hash128(Num(len) ** XXH_PRIME64_1, Zero(8))
            ELSE LET i == n - 1
                 IN IF i < 4 THEN XXH128_mix32B(acc[i], input, 32 * i, 32 * i + 16, secret, 32 * i, seed)
                    ELSE XXH128_mix32B(IF i = 4 THEN Mixed(acc[i]) ELSE acc[i], input, 32 * i, 32 * i + 16,
                                       secret, XXH3_MIDSIZE_STARTOFFSET + 32 * (i - 4), seed)
        rounds == IF len \div 32 = 4 THEN Mixed(acc[4]) ELSE acc[len \div 32]
    IN Folded128(XXH128_mix32B(rounds, input, len - 16, len - 32, secret,
                               XXH3_SECRET_SIZE_MIN - XXH3_MIDSIZE_LASTOFFSET - 16, Zero(8) -- seed),
                 len, seed)

Merged128(acc, secret, len) ==
    Hash128(Merged64(acc, secret, len),
            XXH3_mergeAccs(acc, secret, Len(secret) - 64 - XXH_SECRET_MERGEACCS_START,
                           Complement(Num(len) ** XXH_PRIME64_2)))
XXH3_hashLong_128b_internal(input, secret) ==
    Merged128(XXH3_hashLong_internal_loop(input, secret), secret, Len(input))
XXH3_hashLong_128b_withSeed(input, seed64) ==
    XXH3_hashLong_128b_internal(input, IF seed64 = Zero(8) THEN XXH3_kSecret ELSE XXH3_initCustomSecret(seed64))

XXH3_128bits_internal(input, seed64, secret, long) ==
    CASE Len(input) <= 16 -> XXH3_len_0to16_128b(input, secret, seed64)
      [] Len(input) \in 17..128 -> XXH3_len_17to128_128b(input, secret, seed64)
      [] Len(input) \in 129..XXH3_MIDSIZE_MAX -> XXH3_len_129to240_128b(input, secret, seed64)
      [] Len(input) > XXH3_MIDSIZE_MAX -> long
XXH3_128bits(input) ==
    XXH3_128bits_internal(input, Zero(8), XXH3_kSecret, XXH3_hashLong_128b_internal(input, XXH3_kSecret))
XXH3_128bits_withSecret(input, secret) ==
    XXH3_128bits_internal(input, Zero(8), secret, XXH3_hashLong_128b_internal(input, secret))
XXH3_128bits_withSeed(input, seed) ==
    XXH3_128bits_internal(input, seed, XXH3_kSecret, XXH3_hashLong_128b_withSeed(input, seed))
XXH128(input, seed) == XXH3_128bits_withSeed(input, seed)

\* -1, 0 or 1 in C; here the two comparisons it is the difference of.
LessWord(a, b) == \E i \in 1..Len(a) : a[i] < b[i] /\ \A j \in (i + 1)..Len(a) : a[j] = b[j]
\* Mutant: the upper halves alone.
XXH128_lessHigh(h1, h2) == LessWord(h1.high64, h2.high64)
XXH128_less(h1, h2) == \/ LessWord(h1.high64, h2.high64)
                       \/ h1.high64 = h2.high64 /\ LessWord(h1.low64, h2.low64)
XXH128_canonicalFromHash(hash) == Swap(hash.high64) \o Swap(hash.low64)
XXH128_hashFromCanonical(src) == Hash128(Swap(Bytes(src, 8, 8)), Swap(Bytes(src, 0, 8)))

\* A secret from a seed of any length
XXH3_generateSecret(customSeed) ==
    LET scrambler == XXH128_canonicalFromHash(XXH128(customSeed, Zero(8)))
        seeds == Tuple([i \in 1..96 |-> customSeed[((i - 1) % Len(customSeed)) + 1]])
        segment(n) == XXH128_canonicalFromHash(XXH128(scrambler, XXH_readLE64(seeds, 8 * n) ++ Num(n)))
    IN IF customSeed = <<>> THEN XXH3_kSecret
       ELSE Memory(<<scrambler>> \o Tuple([n \in 1..11 |-> segment(n)]))

-----------------------------------------------------------------------------
(***************************************************************************)
(* Streaming                                                               *)
(***************************************************************************)
\* XXH3_createState: seed is the only field that is given a value.
XXH3_createState(junk) ==
    [acc |-> XXH3_INIT_ACC, customSecret |-> junk, buffer |-> Extend(junk, XXH3_INTERNALBUFFER_SIZE),
     bufferedSize |-> 0, nbStripesSoFar |-> 0, totalLen |-> 0, nbStripesPerBlock |-> 0,
     secretLimit |-> 0, seed |-> Zero(8), extSecret |-> NULL]

XXH3_reset_internal(state, seed, secret, secretSize) ==
    [state EXCEPT !.bufferedSize = 0, !.nbStripesSoFar = 0, !.totalLen = 0, !.acc = XXH3_INIT_ACC,
                  !.seed = seed, !.extSecret = secret, !.secretLimit = secretSize - XXH_STRIPE_LEN,
                  !.nbStripesPerBlock = (secretSize - XXH_STRIPE_LEN) \div XXH_SECRET_CONSUME_RATE]
XXH3_64bits_reset(state) == XXH3_reset_internal(state, Zero(8), XXH3_kSecret, XXH_SECRET_DEFAULT_SIZE)
XXH3_64bits_reset_withSecret(state, secret) == XXH3_reset_internal(state, Zero(8), secret, Len(secret))
\* Mutant: a secret is made for the first seed only.
XXH3_resetKeepingSecret(state, seed) ==
    IF seed = Zero(8) THEN XXH3_64bits_reset(state)
    ELSE XXH3_reset_internal(IF state.seed # Zero(8) THEN state
                             ELSE [state EXCEPT !.customSecret = XXH3_initCustomSecret(seed)],
                             seed, NULL, XXH_SECRET_DEFAULT_SIZE)

XXH3_64bits_reset_withSeed(state, seed) ==
    IF seed = Zero(8) THEN XXH3_64bits_reset(state)
    ELSE XXH3_reset_internal(IF seed = state.seed THEN state
                             ELSE [state EXCEPT !.customSecret = XXH3_initCustomSecret(seed)],
                             seed, NULL, XXH_SECRET_DEFAULT_SIZE)

\* The secret in use, as far as its limit lets it be read.
Secret(state) == SubSeq(IF state.extSecret = NULL THEN state.customSecret ELSE state.extSecret,
                        1, state.secretLimit + XXH_STRIPE_LEN)

\* nbStripes stripes of the input from i on, with a scramble where a block ends
XXH3_consumeStripes(state, input, i, nbStripes) ==
    LET secret == Secret(state)
        soFar  == state.nbStripesSoFar
        toEnd  == state.nbStripesPerBlock - soFar
    IN IF toEnd <= nbStripes
         THEN [state EXCEPT
                 !.acc = XXH3_accumulate(
                             XXH3_scrambleAcc(XXH3_accumulate(@, input, i, secret, XXH_SECRET_CONSUME_RATE * soFar, toEnd),
                                              SecretEnd(secret, 0)),
                             input, i + XXH_STRIPE_LEN * toEnd, secret, 0, nbStripes - toEnd),
                 !.nbStripesSoFar = nbStripes - toEnd]
         ELSE [state EXCEPT
                 !.acc = XXH3_accumulate(@, input, i, secret, XXH_SECRET_CONSUME_RATE * soFar, nbStripes),
                 !.nbStripesSoFar = @ + nbStripes]

\* Mutant: the last stripe that was read is not kept.
ConsumeBuffersForgetting(state, input) ==
    LET count == (Len(input) - 1) \div XXH3_INTERNALBUFFER_SIZE
        after[n \in 0..count] ==
            IF n = 0 THEN state
            ELSE XXH3_consumeStripes(after[n - 1], input, XXH3_INTERNALBUFFER_SIZE * (n - 1),
                                     XXH3_INTERNALBUFFER_SIZE \div XXH_STRIPE_LEN)
        rest == SubSeq(input, XXH3_INTERNALBUFFER_SIZE * count + 1, Len(input))
    IN [after[count] EXCEPT !.buffer = Copied(state.buffer, 0, rest), !.bufferedSize = Len(rest)]

\* Whole buffers from the input, as long as more than one is left; then the
\* buffer's end keeps the last stripe that was read, for a digest that needs it.
ConsumeBuffers(state, input) ==
    LET count == (Len(input) - 1) \div XXH3_INTERNALBUFFER_SIZE
        after[n \in 0..count] ==
            IF n = 0 THEN state
            ELSE XXH3_consumeStripes(after[n - 1], input, XXH3_INTERNALBUFFER_SIZE * (n - 1),
                                     XXH3_INTERNALBUFFER_SIZE \div XXH_STRIPE_LEN)
        end  == XXH3_INTERNALBUFFER_SIZE * count
        rest == SubSeq(input, end + 1, Len(input))
        kept == IF count = 0 THEN state.buffer
                ELSE Copied(state.buffer, XXH3_INTERNALBUFFER_SIZE - XXH_STRIPE_LEN,
                            Bytes(input, end - XXH_STRIPE_LEN, XXH_STRIPE_LEN))
    IN [after[count] EXCEPT !.buffer = Copied(kept, 0, rest), !.bufferedSize = Len(rest)]

XXH3_update(state, input) ==
    LET counted == [state EXCEPT !.totalLen = @ + Len(input)]
        load == XXH3_INTERNALBUFFER_SIZE - state.bufferedSize
        full == [counted EXCEPT !.buffer = Copied(@, state.bufferedSize, Bytes(input, 0, load))]
    IN CASE Len(input) <= load ->
              [counted EXCEPT !.buffer = Copied(@, state.bufferedSize, input), !.bufferedSize = @ + Len(input)]
         [] Len(input) > load /\ state.bufferedSize = 0 ->
              ConsumeBuffers(counted, input)
         [] Len(input) > load /\ state.bufferedSize > 0 ->
              ConsumeBuffers(XXH3_consumeStripes(full, full.buffer, 0, XXH3_INTERNALBUFFER_SIZE \div XXH_STRIPE_LEN),
                             SubSeq(input, load + 1, Len(input)))

\* The accumulators with what is buffered, and the last 64 bytes once more; when
\* fewer are buffered the first of those come from the end of the buffer.
XXH3_digest_long(state) ==
    LET size == state.bufferedSize
        catchup == XXH_STRIPE_LEN - size
        LastAcc(acc, stripe) == XXH3_accumulate_512(acc, stripe, SecretEnd(Secret(state), XXH_SECRET_LASTACC_START))
    IN IF size >= XXH_STRIPE_LEN
         THEN LastAcc(XXH3_consumeStripes(state, state.buffer, 0, (size - 1) \div XXH_STRIPE_LEN).acc,
                      Bytes(state.buffer, size - XXH_STRIPE_LEN, XXH_STRIPE_LEN))
         ELSE LastAcc(state.acc, Bytes(state.buffer, XXH3_INTERNALBUFFER_SIZE - catchup, catchup)
                                 \o Bytes(state.buffer, 0, size))

XXH3_64bits_digest(state) ==
    LET whole == Bytes(state.buffer, 0, state.totalLen)
    IN CASE state.totalLen > XXH3_MIDSIZE_MAX -> Merged64(XXH3_digest_long(state), Secret(state), state.totalLen)
         [] state.totalLen <= XXH3_MIDSIZE_MAX /\ state.seed # Zero(8) -> XXH3_64bits_withSeed(whole, state.seed)
         [] state.totalLen <= XXH3_MIDSIZE_MAX /\ state.seed = Zero(8) -> XXH3_64bits_withSecret(whole, Secret(state))

XXH3_128bits_digest(state) ==
    LET whole == Bytes(state.buffer, 0, state.totalLen)
    IN CASE state.totalLen > XXH3_MIDSIZE_MAX -> Merged128(XXH3_digest_long(state), Secret(state), state.totalLen)
         [] state.totalLen <= XXH3_MIDSIZE_MAX /\ state.seed # Zero(8) -> XXH3_128bits_withSeed(whole, state.seed)
         [] state.totalLen <= XXH3_MIDSIZE_MAX /\ state.seed = Zero(8) -> XXH3_128bits_withSecret(whole, Secret(state))
=============================================================================
