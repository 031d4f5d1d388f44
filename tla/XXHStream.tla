----------------------------- MODULE XXHStream -----------------------------
(***************************************************************************)
(* A caller of xxhash.h that hashes in pieces: it resets a state, feeds it *)
(* any number of times and may reset the same object again, with another   *)
(* seed or secret.  What has been fed is a prefix of Data.                 *)
(***************************************************************************)
EXTENDS XXH3

CONSTANTS
  Data,          \* the bytes to hash
  Pieces,        \* per hash, the lengths they are fed in
  Seeds,         \* 64 bits; the 32-bit hash takes the lower half
  Secrets,       \* for XXH3, as long as XXH3_SECRET_SIZE_MIN or longer
  ShortSecrets,  \* shorter ones, which are refused
  Junk,          \* what new memory holds where the custom secret will be
  MaxCalls       \* bound: calls of the caller

Hashes == {"XXH32", "XXH64", "XXH3"}

ASSUME StreamAssumption ==
  /\ Data \in Seq(Byte) /\ Junk \in Seq(Byte) /\ MaxCalls \in Nat
  /\ Pieces \in [Hashes -> SUBSET Nat]
  /\ \A s \in Seeds : s \in Seq(Byte) /\ Len(s) = 8
  /\ \A s \in Secrets : s \in Seq(Byte) /\ Len(s) >= XXH3_SECRET_SIZE_MIN
  /\ \A s \in ShortSecrets : Len(s) \in XXH_STRIPE_LEN..(XXH3_SECRET_SIZE_MIN - 1)

VARIABLES
  hash,    \* the hash that the state is for
  state,   \* XXH32_state_t, XXH64_state_t or XXH3_state_t
  usable,  \* the last reset returned XXH_OK
  fed,     \* bytes given to update since
  seed, secret,  \* what that reset was called with; no secret is NULL
  calls

vars == <<hash, state, usable, fed, seed, secret, calls>>
Fed == Bytes(Data, 0, fed)

Init ==
  /\ hash \in Hashes
  /\ state = IF hash = "XXH3" THEN XXH3_createState(Junk) ELSE NULL
  /\ usable = FALSE /\ fed = 0
  /\ seed = Zero(8) /\ secret = NULL
  /\ calls = 0

Call == calls < MaxCalls /\ calls' = calls + 1 /\ UNCHANGED hash

Reset(s) ==
  /\ Call
  /\ state' = CASE hash = "XXH32" -> XXH32_reset(Low(s))
                [] hash = "XXH64" -> XXH64_reset(s)
                [] hash = "XXH3"  -> XXH3_64bits_reset_withSeed(state, s)
  /\ usable' = TRUE /\ fed' = 0
  /\ seed' = s /\ secret' = NULL

ResetWithSecret(s) ==
  /\ Call
  /\ hash = "XXH3"
  /\ state' = XXH3_64bits_reset_withSecret(state, s)
  /\ usable' = TRUE /\ fed' = 0
  /\ seed' = Zero(8) /\ secret' = s

\* XXH_ERROR, but only after the state was changed.
ResetRefused(s) ==
  /\ Call
  /\ hash = "XXH3"
  /\ state' = XXH3_64bits_reset_withSecret(state, s)
  /\ usable' = FALSE /\ fed' = 0
  /\ UNCHANGED <<seed, secret>>

Update(n) ==
  /\ Call
  /\ usable
  /\ fed + n <= Len(Data)
  /\ LET input == Bytes(Data, fed, n)
     IN state' = CASE hash = "XXH32" -> XXH32_update(state, input)
                   [] hash = "XXH64" -> XXH64_update(state, input)
                   [] hash = "XXH3"  -> XXH3_update(state, input)
  /\ fed' = fed + n
  /\ UNCHANGED <<usable, seed, secret>>

Next ==
  \/ \E s \in Seeds : Reset(s)
  \/ \E s \in Secrets : ResetWithSecret(s)
  \/ \E s \in ShortSecrets : ResetRefused(s)
  \/ \E n \in Pieces[hash] : Update(n)

Spec == Init /\ [][Next]_vars

-----------------------------------------------------------------------------
Hashing(h) == hash = h /\ usable

OneShot64 == IF secret = NULL THEN XXH3_64bits_withSeed(Fed, seed) ELSE XXH3_64bits_withSecret(Fed, secret)
OneShot128 == IF secret = NULL THEN XXH3_128bits_withSeed(Fed, seed) ELSE XXH3_128bits_withSecret(Fed, secret)

(* Fed in any pieces, the 32-bit hash is that of the whole, also when the   *)
(* length has wrapped around (XXH32_update, XXH32_digest against XXH32).    *)
Streamed32 == Hashing("XXH32") => XXH32_digest(state) = XXH32(Fed, Low(seed))

(* The same of the 64-bit hash, whose digest goes by total_len where update *)
(* goes by memsize.                                                         *)
Streamed64 == Hashing("XXH64") => XXH64_digest(state) = XXH64(Fed, seed)

(* The same of XXH3, in 64 and in 128 bits, whatever the state object was   *)
(* used for before: nothing of an earlier hash, refused secret or stale     *)
(* buffer gets into it (XXH3_update, XXH3_digest_long).                     *)
Streamed3 == Hashing("XXH3") => /\ XXH3_64bits_digest(state) = OneShot64
                                /\ XXH3_128bits_digest(state) = OneShot128

(* The secret that a state keeps is the one made from its seed, although    *)
(* reset_withSeed makes it only when the seed differs from the last one.    *)
SecretOfSeed ==
  Hashing("XXH3") /\ state.extSecret = NULL => state.customSecret = XXH3_initCustomSecret_scalar(seed)

(* On every accumulator that is reached, with the input that comes next,    *)
(* every instruction set computes what the scalar code computes, and makes  *)
(* the same secret from the seed: all implementations hash alike, as the    *)
(* introduction of xxhash.h promises.  (Messages carry only XXH32 hashes,   *)
(* which have no vector code.)                                              *)
LanesAgree ==
  Hashing("XXH3") =>
    LET acc    == state.acc
        input  == Extend(SubSeq(Data, fed + 1, Len(Data)), XXH_STRIPE_LEN)
        key    == SecretEnd(Secret(state), 0)
        summed == XXH3_accumulate_512_scalar(acc, input, key)
        mixed  == XXH3_scrambleAcc_scalar(acc, key)
    IN /\ XXH3_accumulate_512_sse2(acc, input, key) = summed
       /\ XXH3_accumulate_512_avx2(acc, input, key) = summed
       /\ XXH3_accumulate_512_avx512(acc, input, key) = summed
       /\ XXH3_accumulate_512_neon(acc, input, key) = summed
       /\ XXH3_accumulate_512_vsx(acc, input, key) = summed
       /\ XXH3_scrambleAcc_sse2(acc, key) = mixed
       /\ XXH3_scrambleAcc_avx2(acc, key) = mixed
       /\ XXH3_scrambleAcc_avx512(acc, key) = mixed
       /\ XXH3_scrambleAcc_neon(acc, key) = mixed
       /\ XXH3_scrambleAcc_vsx(acc, key) = mixed
       /\ {XXH3_initCustomSecret_sse2(seed), XXH3_initCustomSecret_avx2(seed),
           XXH3_initCustomSecret_avx512(seed)} = {XXH3_initCustomSecret_scalar(seed)}

\* a before b, as memcmp compares
Before(a, b) == \E i \in 1..Len(a) : a[i] < b[i] /\ \A j \in 1..(i - 1) : a[j] = b[j]

(* The canonical form of a hash is sorted as XXH128_cmp sorts the hashes,   *)
(* and gives the hash back: tried on the words of the accumulators, also    *)
(* with the same upper half.                                                *)
CanonicalOrder ==
  Hashing("XXH3") =>
    \A i, j, k \in 1..3 :
      LET h1 == Hash128(state.acc[i], state.acc[k])
          h2 == Hash128(state.acc[j], state.acc[3])
          c1 == XXH128_canonicalFromHash(h1)
          c2 == XXH128_canonicalFromHash(h2)
      IN /\ XXH128_less(h1, h2) <=> Before(c1, c2)
         /\ XXH128_hashFromCanonical(c1) = h1
=============================================================================
