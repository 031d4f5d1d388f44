------------------------------- MODULE XXH32 -------------------------------
(***************************************************************************)
(* The 32-bit hash of xxhash.h.  A hashed buffer is a sequence of bytes,   *)
(* so its length goes with it.                                             *)
(***************************************************************************)
EXTENDS Words

CONSTANT Len32  \* what total_len_32 counts up to: 2^32 in the code

ASSUME Len32Assumption == Len32 \in Nat /\ Len32 >= 32

XXH_PRIME32_1 == <<\hB1, \h79, \h37, \h9E>>
XXH_PRIME32_2 == <<\h77, \hCA, \hEB, \h85>>
XXH_PRIME32_3 == <<\h3D, \hAE, \hB2, \hC2>>
XXH_PRIME32_4 == <<\h2F, \hEB, \hD4, \h27>>
XXH_PRIME32_5 == <<\hB1, \h67, \h56, \h16>>

XXH_readLE32(p, i) == Bytes(p, i, 4)

XXH32_round(acc, input) == Rotl(acc ++ (input ** XXH_PRIME32_2), 13) ** XXH_PRIME32_1

XXH32_avalanche(h32) ==
    XorShift(XorShift(XorShift(h32, 15) ** XXH_PRIME32_2, 13) ** XXH_PRIME32_3, 16)

\* The rest of fewer than 16 bytes, by four and then one by one.
XXH32_finalize(h32, rest) ==
    LET fours == Len(rest) \div 4
        four[n \in 0..fours] ==
            IF n = 0 THEN h32
            ELSE Rotl(four[n - 1] ++ (XXH_readLE32(rest, 4 * (n - 1)) ** XXH_PRIME32_3), 17) ** XXH_PRIME32_4
        one[n \in 0..(Len(rest) % 4)] ==
            IF n = 0 THEN four[fours]
            ELSE Rotl(one[n - 1] ++ (FromNat(rest[4 * fours + n], 4) ** XXH_PRIME32_5), 11) ** XXH_PRIME32_1
    IN XXH32_avalanche(one[Len(rest) % 4])

\* v1 to v4, as both ways of hashing start them
XXH32_lanes(seed) == <<(seed ++ XXH_PRIME32_1) ++ XXH_PRIME32_2, seed ++ XXH_PRIME32_2,
                       seed, seed -- XXH_PRIME32_1>>
XXH32_stripe(v, p) == Tuple([i \in 1..4 |-> XXH32_round(v[i], XXH_readLE32(p, 4 * (i - 1)))])
XXH32_converge(v) == ((Rotl(v[1], 1) ++ Rotl(v[2], 7)) ++ Rotl(v[3], 12)) ++ Rotl(v[4], 18)

\* The whole stripes of `size' bytes at the beginning of p, and what is behind them.
Stripes(v, p, size, Stripe(_, _)) ==
    LET lanes[n \in 0..(Len(p) \div size)] ==
          IF n = 0 THEN v ELSE Stripe(lanes[n - 1], Bytes(p, size * (n - 1), size))
    IN lanes[Len(p) \div size]
Behind(p, size) == SubSeq(p, Len(p) - (Len(p) % size) + 1, Len(p))

XXH32_endian_align(input, seed) ==
    LET h32 == IF Len(input) >= 16
                 THEN XXH32_converge(Stripes(XXH32_lanes(seed), input, 16, XXH32_stripe))
                 ELSE seed ++ XXH_PRIME32_5
    IN XXH32_finalize(h32 ++ FromNat(Len(input) % Len32, 4), Behind(input, 16))

\* Aligned or not, the bytes are the same.
XXH32(input, seed) == XXH32_endian_align(input, seed)

-----------------------------------------------------------------------------
(***************************************************************************)
(* Streaming.  mem and memsize are mem32 and mem64 of the two state types. *)
(***************************************************************************)
XXH32_reset(seed) == [total_len |-> 0, large_len |-> FALSE, v |-> XXH32_lanes(seed),
                      mem |-> Zero(16), memsize |-> 0]

\* What an update makes of lanes and buffer, a buffer of one stripe: a short
\* piece only fills it; otherwise it is completed first, then whole stripes are
\* read from the input and the rest stays behind.
Absorb(state, input, size, Stripe(_, _)) ==
    IF state.memsize + Len(input) < size
      THEN [state EXCEPT !.mem = Copied(@, state.memsize, input), !.memsize = @ + Len(input)]
      ELSE LET load   == IF state.memsize = 0 THEN 0 ELSE size - state.memsize
               filled == Copied(state.mem, size - load, Bytes(input, 0, load))
               v      == IF load = 0 THEN state.v ELSE Stripe(state.v, filled)
               rest   == SubSeq(input, load + 1, Len(input))
           IN [state EXCEPT !.v = Stripes(v, rest, size, Stripe),
                            !.mem = Copied(filled, 0, Behind(rest, size)),
                            !.memsize = Len(rest) % size]

\* Mutant: only a long piece counts, not a long total.
XXH32_updateByPiece(state, input) ==
    Absorb([state EXCEPT !.total_len = (@ + Len(input)) % Len32, !.large_len = @ \/ Len(input) >= 16],
           input, 16, XXH32_stripe)

XXH32_update(state, input) ==
    LET total == (state.total_len + Len(input)) % Len32
    IN Absorb([state EXCEPT !.total_len = total,
                            !.large_len = @ \/ Len(input) >= 16 \/ total >= 16],
              input, 16, XXH32_stripe)

XXH32_digest(state) ==
    LET h32 == IF state.large_len THEN XXH32_converge(state.v) ELSE state.v[3] ++ XXH_PRIME32_5
    IN XXH32_finalize(h32 ++ FromNat(state.total_len, 4), Bytes(state.mem, 0, state.memsize))

\* Big-endian, the form that is stored.
XXH32_canonicalFromHash(hash) == Swap(hash)
XXH32_hashFromCanonical(src) == Swap(src)
=============================================================================
