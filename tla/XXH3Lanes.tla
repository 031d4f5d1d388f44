----------------------------- MODULE XXH3Lanes -----------------------------
(***************************************************************************)
(* The inner loop of XXH3: 64 bytes of input, eight accumulators, and the  *)
(* implementations of it for the instruction sets that xxhash.h knows.     *)
(***************************************************************************)
EXTENDS XXH64

XXH_STRIPE_LEN == 64
XXH_SECRET_CONSUME_RATE == 8
XXH_ACC_NB == 8
XXH3_SECRET_SIZE_MIN == 136
XXH_SECRET_DEFAULT_SIZE == 192

XXH3_kSecret == <<
    \hB8, \hFE, \h6C, \h39, \h23, \hA4, \h4B, \hBE, \h7C, \h01, \h81, \h2C, \hF7, \h21, \hAD, \h1C,
    \hDE, \hD4, \h6D, \hE9, \h83, \h90, \h97, \hDB, \h72, \h40, \hA4, \hA4, \hB7, \hB3, \h67, \h1F,
    \hCB, \h79, \hE6, \h4E, \hCC, \hC0, \hE5, \h78, \h82, \h5A, \hD0, \h7D, \hCC, \hFF, \h72, \h21,
    \hB8, \h08, \h46, \h74, \hF7, \h43, \h24, \h8E, \hE0, \h35, \h90, \hE6, \h81, \h3A, \h26, \h4C,
    \h3C, \h28, \h52, \hBB, \h91, \hC3, \h00, \hCB, \h88, \hD0, \h65, \h8B, \h1B, \h53, \h2E, \hA3,
    \h71, \h64, \h48, \h97, \hA2, \h0D, \hF9, \h4E, \h38, \h19, \hEF, \h46, \hA9, \hDE, \hAC, \hD8,
    \hA8, \hFA, \h76, \h3F, \hE3, \h9C, \h34, \h3F, \hF9, \hDC, \hBB, \hC7, \hC7, \h0B, \h4F, \h1D,
    \h8A, \h51, \hE0, \h4B, \hCD, \hB4, \h59, \h31, \hC8, \h9F, \h7E, \hC9, \hD9, \h78, \h73, \h64,
    \hEA, \hC5, \hAC, \h83, \h34, \hD3, \hEB, \hC3, \hC5, \h81, \hA0, \hFF, \hFA, \h13, \h63, \hEB,
    \h17, \h0D, \hDD, \h51, \hB7, \hF0, \hDA, \h49, \hD3, \h16, \h55, \h26, \h29, \hD4, \h68, \h9E,
    \h2B, \h16, \hBE, \h58, \h7D, \h47, \hA1, \hFC, \h8F, \hF8, \hB8, \hD1, \h7A, \hD0, \h31, \hCE,
    \h45, \hCB, \h3A, \h8F, \h95, \h16, \h04, \h28, \hAF, \hD7, \hFB, \hCA, \hBB, \h4B, \h40, \h7E>>

XXH_mult32to64(x, y) == Product(Bytes(x, 0, 4), Bytes(y, 0, 4), 8)
Words64(p) == Tuple([i \in 1..(Len(p) \div 8) |-> XXH_readLE64(p, 8 * (i - 1))])
\* Words of one width, one after the other
Memory(v) == LET width == Len(v[1])
             IN Tuple([i \in 1..(Len(v) * width) |-> v[((i - 1) \div width) + 1][((i - 1) % width) + 1]])

-----------------------------------------------------------------------------
(***************************************************************************)
(* Scalar.  The neighbour's addition to an accumulator and its own commute.*)
(***************************************************************************)
XXH3_accumulate_512_scalar(acc, input, secret) ==
    LET data == Words64(input)
        key(i) == data[i] ^^ XXH_readLE64(secret, 8 * (i - 1))
    IN Tuple([i \in 1..XXH_ACC_NB |->
              (acc[i] ++ data[IF i % 2 = 1 THEN i + 1 ELSE i - 1])
              ++ XXH_mult32to64(key(i), High(key(i)))])

XXH3_scrambleAcc_scalar(acc, secret) ==
    Tuple([i \in 1..XXH_ACC_NB |->
           (XorShift(acc[i], 47) ^^ XXH_readLE64(secret, 8 * (i - 1))) ** Extend(XXH_PRIME32_1, 8)])

XXH3_initCustomSecret_scalar(seed64) ==
    Memory(Tuple([i \in 1..(XXH_SECRET_DEFAULT_SIZE \div 8) |->
                  LET word == XXH_readLE64(XXH3_kSecret, 8 * (i - 1))
                  IN IF i % 2 = 1 THEN word ++ seed64 ELSE word -- seed64]))

-----------------------------------------------------------------------------
(***************************************************************************)
(* Vector registers are sequences of bytes.  Each is a run of 64-bit       *)
(* elements, which the intrinsics below work on one by one.                *)
(***************************************************************************)
Each64(Op(_, _), a, b) ==
    Memory(Tuple([i \in 1..(Len(a) \div 8) |-> Op(XXH_readLE64(a, 8 * (i - 1)), XXH_readLE64(b, 8 * (i - 1)))]))
add_epi64(a, b) == Each64(++, a, b)
mul_epu32(a, b) == Each64(XXH_mult32to64, a, b)
srli_epi64(a, n) == Each64(LAMBDA x, y : Shr(x, n), a, a)
slli_epi64(a, n) == Each64(LAMBDA x, y : Shl(x, n), a, a)
\* 32-bit elements d0 to d3 of every 128 bits are chosen among the same four.
shuffle_epi32(a, d3, d2, d1, d0) ==
    Tuple([i \in 1..Len(a) |-> a[16 * ((i - 1) \div 16) + 4 * (<<d0, d1, d2, d3>>[((i - 1) % 16) \div 4 + 1])
                               + ((i - 1) % 4) + 1]])
Repeated(a, n) == Tuple([i \in 1..(n * Len(a)) |-> a[((i - 1) % Len(a)) + 1]])

\* A loop over the registers of `size' bytes that make up acc.
Registers(Body(_), size) == Words64(Memory(Tuple([i \in 1..(XXH_STRIPE_LEN \div size) |-> Body(size * (i - 1))])))

X86Accumulate(acc, input, secret, size) ==
    LET Body(i) == LET data_vec    == Bytes(input, i, size)
                       data_key    == data_vec ^^ Bytes(secret, i, size)
                       data_key_lo == shuffle_epi32(data_key, 0, 3, 0, 1)
                       data_swap   == shuffle_epi32(data_vec, 1, 0, 3, 2)
                   IN add_epi64(mul_epu32(data_key, data_key_lo),
                                add_epi64(Bytes(Memory(acc), i, size), data_swap))
    IN Registers(Body, size)

X86Scramble(acc, secret, size) ==
    LET prime32 == Repeated(XXH_PRIME32_1, size \div 4)
        Body(i) == LET acc_vec     == Bytes(Memory(acc), i, size)
                       data_key    == (acc_vec ^^ srli_epi64(acc_vec, 47)) ^^ Bytes(secret, i, size)
                       data_key_hi == shuffle_epi32(data_key, 0, 3, 0, 1)
                   IN add_epi64(mul_epu32(data_key, prime32),
                                slli_epi64(mul_epu32(data_key_hi, prime32), 32))
    IN Registers(Body, size)

X86InitSecret(seed, size) ==
    Memory(Tuple([i \in 1..(XXH_SECRET_DEFAULT_SIZE \div size) |->
                  add_epi64(Bytes(XXH3_kSecret, size * (i - 1), size), seed)]))

XXH3_accumulate_512_sse2(acc, input, secret) == X86Accumulate(acc, input, secret, 16)
XXH3_scrambleAcc_sse2(acc, secret) == X86Scramble(acc, secret, 16)
XXH3_initCustomSecret_sse2(seed64) == X86InitSecret(seed64 \o (Zero(8) -- seed64), 16)

XXH3_accumulate_512_avx2(acc, input, secret) == X86Accumulate(acc, input, secret, 32)
XXH3_scrambleAcc_avx2(acc, secret) == X86Scramble(acc, secret, 32)
XXH3_initCustomSecret_avx2(seed64) ==
    X86InitSecret(((seed64 \o (Zero(8) -- seed64)) \o seed64) \o (Zero(8) -- seed64), 32)

\* The mask 0xAA selects the elements 1, 3, 5 and 7.
mask_set1_epi64(src, mask, a) ==
    Memory(Tuple([i \in 1..8 |-> IF (mask \div 2^(i - 1)) % 2 = 1 THEN a ELSE XXH_readLE64(src, 8 * (i - 1))]))
XXH3_accumulate_512_avx512(acc, input, secret) == X86Accumulate(acc, input, secret, 64)
XXH3_scrambleAcc_avx512(acc, secret) == X86Scramble(acc, secret, 64)
XXH3_initCustomSecret_avx512(seed64) ==
    X86InitSecret(mask_set1_epi64(Repeated(seed64, 8), \hAA, Zero(8) -- seed64), 64)

-----------------------------------------------------------------------------
(***************************************************************************)
(* NEON splits a register into the low and the high halves of its elements *)
(* (vmovn, vshrn); VSX multiplies the low (vmulo) or the high (vmule) ones.*)
(***************************************************************************)
Halves(a, Half(_)) == Half(XXH_readLE64(a, 0)) \o Half(XXH_readLE64(a, 8))
vmull_u32(a, b) == Product(Bytes(a, 0, 4), Bytes(b, 0, 4), 8) \o Product(Bytes(a, 4, 4), Bytes(b, 4, 4), 8)
\* Mutant: the halves of a register stay where they are.
ElementsAsTheyAre(a) == a
SwappedElements(a) == Bytes(a, 8, 8) \o Bytes(a, 0, 8)

XXH3_accumulate_512_neon(acc, input, secret) ==
    LET Body(i) == LET data_vec == Bytes(input, i, 16)
                       data_key == data_vec ^^ Bytes(secret, i, 16)
                   IN add_epi64(add_epi64(Bytes(Memory(acc), i, 16), SwappedElements(data_vec)),
                                vmull_u32(Halves(data_key, Low), Halves(data_key, High)))
    IN Registers(Body, 16)

XXH3_scrambleAcc_neon(acc, secret) ==
    LET prime == Repeated(XXH_PRIME32_1, 2)
        Body(i) == LET acc_vec  == Bytes(Memory(acc), i, 16)
                       data_key == (acc_vec ^^ srli_epi64(acc_vec, 47)) ^^ Bytes(secret, i, 16)
                   IN add_epi64(slli_epi64(vmull_u32(Halves(data_key, High), prime), 32),
                                vmull_u32(Halves(data_key, Low), prime))
    IN Registers(Body, 16)

vec_rl(a, n) == Each64(LAMBDA x, y : Rotl(x, n), a, a)
XXH_vec_mulo(a, b) == vmull_u32(Halves(a, Low), Halves(b, Low))
XXH_vec_mule(a, b) == vmull_u32(Halves(a, High), Halves(b, High))

XXH3_accumulate_512_vsx(acc, input, secret) ==
    LET Body(i) == LET data_vec == Bytes(input, i, 16)
                       data_key == data_vec ^^ Bytes(secret, i, 16)
                   IN add_epi64(add_epi64(Bytes(Memory(acc), i, 16),
                                          XXH_vec_mulo(data_key, vec_rl(data_key, 32))),
                                SwappedElements(data_vec))
    IN Registers(Body, 16)

XXH3_scrambleAcc_vsx(acc, secret) ==
    LET prime == Repeated(XXH_PRIME32_1, 4)
        Body(i) == LET acc_vec  == Bytes(Memory(acc), i, 16)
                       data_key == (acc_vec ^^ srli_epi64(acc_vec, 47)) ^^ Bytes(secret, i, 16)
                   IN add_epi64(XXH_vec_mulo(data_key, prime), slli_epi64(XXH_vec_mule(data_key, prime), 32))
    IN Registers(Body, 16)

-----------------------------------------------------------------------------
(***************************************************************************)
(* What the program's x64 build takes                                      *)
(***************************************************************************)
XXH3_accumulate_512(acc, input, secret) == XXH3_accumulate_512_sse2(acc, input, secret)
XXH3_scrambleAcc(acc, secret) == XXH3_scrambleAcc_sse2(acc, secret)
XXH3_initCustomSecret(seed64) == XXH3_initCustomSecret_sse2(seed64)
=============================================================================
