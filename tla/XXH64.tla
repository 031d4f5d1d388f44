------------------------------- MODULE XXH64 -------------------------------
(***************************************************************************)
(* The 64-bit hash of xxhash.h.                                            *)
(***************************************************************************)
EXTENDS XXH32

XXH_PRIME64_1 == <<\h87, \hCA, \hEB, \h85, \hB1, \h79, \h37, \h9E>>
XXH_PRIME64_2 == <<\h4F, \hEB, \hD4, \h27, \h3D, \hAE, \hB2, \hC2>>
XXH_PRIME64_3 == <<\hF9, \h79, \h37, \h9E, \hB1, \h67, \h56, \h16>>
XXH_PRIME64_4 == <<\h63, \hAE, \hB2, \hC2, \h77, \hCA, \hEB, \h85>>
XXH_PRIME64_5 == <<\hC5, \h67, \h56, \h16, \h2F, \hEB, \hD4, \h27>>

XXH_readLE64(p, i) == Bytes(p, i, 8)

XXH64_round(acc, input) == Rotl(acc ++ (input ** XXH_PRIME64_2), 31) ** XXH_PRIME64_1

XXH64_mergeRound(acc, val) ==
    ((acc ^^ XXH64_round(Zero(8), val)) ** XXH_PRIME64_1) ++ XXH_PRIME64_4

XXH64_avalanche(h64) ==
    XorShift(XorShift(XorShift(h64, 33) ** XXH_PRIME64_2, 29) ** XXH_PRIME64_3, 32)

\* The last len & 31 bytes: by eight, at most four at once, then one by one.
XXH64_tail(h64, rest) ==
    LET eights == Len(rest) \div 8
        behind == SubSeq(rest, 8 * eights + 1, Len(rest))
        bytes  == IF Len(behind) >= 4 THEN SubSeq(behind, 5, Len(behind)) ELSE behind
        eight[n \in 0..eights] ==
            IF n = 0 THEN h64
            ELSE (Rotl(eight[n - 1] ^^ XXH64_round(Zero(8), XXH_readLE64(rest, 8 * (n - 1))), 27)
                  ** XXH_PRIME64_1) ++ XXH_PRIME64_4
        four   == IF Len(behind) >= 4
                    THEN (Rotl(eight[eights] ^^ (Extend(XXH_readLE32(behind, 0), 8) ** XXH_PRIME64_1), 23)
                          ** XXH_PRIME64_2) ++ XXH_PRIME64_3
                    ELSE eight[eights]
        one[n \in 0..Len(bytes)] ==
            IF n = 0 THEN four
            ELSE Rotl(one[n - 1] ^^ (FromNat(bytes[n], 8) ** XXH_PRIME64_5), 11) ** XXH_PRIME64_1
    IN XXH64_avalanche(one[Len(bytes)])
XXH64_finalize(h64, p, len) == XXH64_tail(h64, Bytes(p, 0, len % 32))

XXH64_lanes(seed) == <<(seed ++ XXH_PRIME64_1) ++ XXH_PRIME64_2, seed ++ XXH_PRIME64_2,
                       seed, seed -- XXH_PRIME64_1>>
XXH64_stripe(v, p) == Tuple([i \in 1..4 |-> XXH64_round(v[i], XXH_readLE64(p, 8 * (i - 1)))])
XXH64_converge(v) ==
    LET h64 == ((Rotl(v[1], 1) ++ Rotl(v[2], 7)) ++ Rotl(v[3], 12)) ++ Rotl(v[4], 18)
    IN XXH64_mergeRound(XXH64_mergeRound(XXH64_mergeRound(XXH64_mergeRound(h64, v[1]), v[2]), v[3]), v[4])

XXH64_endian_align(input, seed) ==
    LET h64 == IF Len(input) >= 32
                 THEN XXH64_converge(Stripes(XXH64_lanes(seed), input, 32, XXH64_stripe))
                 ELSE seed ++ XXH_PRIME64_5
    IN XXH64_finalize(h64 ++ FromNat(Len(input), 8), Behind(input, 32), Len(input))

XXH64(input, seed) == XXH64_endian_align(input, seed)

-----------------------------------------------------------------------------
(***************************************************************************)
(* Streaming.  What is left to finalize comes from total_len, not memsize. *)
(***************************************************************************)
XXH64_reset(seed) == [total_len |-> 0, v |-> XXH64_lanes(seed), mem |-> Zero(32), memsize |-> 0]

XXH64_update(state, input) ==
    Absorb([state EXCEPT !.total_len = @ + Len(input)], input, 32, XXH64_stripe)

\* Mutant: exactly one stripe is taken for none.
XXH64_digestBeyond(state) ==
    LET h64 == IF state.total_len > 32 THEN XXH64_converge(state.v) ELSE state.v[3] ++ XXH_PRIME64_5
    IN XXH64_finalize(h64 ++ FromNat(state.total_len, 8), state.mem, state.total_len)

XXH64_digest(state) ==
    LET h64 == IF state.total_len >= 32 THEN XXH64_converge(state.v) ELSE state.v[3] ++ XXH_PRIME64_5
    IN XXH64_finalize(h64 ++ FromNat(state.total_len, 8), state.mem, state.total_len)

XXH64_canonicalFromHash(hash) == Swap(hash)
XXH64_hashFromCanonical(src) == Swap(src)
=============================================================================
