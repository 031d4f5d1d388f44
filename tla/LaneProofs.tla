----------------------------- MODULE LaneProofs -----------------------------
(***************************************************************************)
(* Theorems about the words of the hashes and the accumulators of XXH3.    *)
(*                                                                         *)
(* Sums, differences and products of words are words again, and as numbers *)
(* they are what they should be modulo the width; and every instruction    *)
(* set computes the same accumulators, and the same secret, as the scalar  *)
(* code: per 64-bit element, AccumulatedBy and ScrambledBy say what.       *)
(***************************************************************************)
EXTENDS XXH3Lanes, Integers, SequenceTheorems, WellFoundedInduction, TLAPS

\* Sequences of a given length; the words, and the memory, of n bytes
Vec(n, S) == [1..n -> S]
Word(n) == [1..n -> Byte]

-----------------------------------------------------------------------------
(***************************************************************************)
(* Induction and recursion over 0..K                                       *)
(***************************************************************************)
(* A set of numbers with 0 and the successors of its members has them all. *)
LEMMA SetInduction ==
  ASSUME NEW K \in Nat, NEW S, 0 \in S,
         \A n \in 1..K : n - 1 \in S => n \in S
  PROVE  \A n \in 0..K : n \in S
<1> DEFINE lt == {ss \in Nat \X Nat : ss[1] < ss[2]}
           Missing == (0..K) \ S
<1>1. OpToRel(<, Nat) = lt
  BY DEF OpToRel
<1>2. SUFFICES ASSUME Missing # {} PROVE FALSE
  OBVIOUS
<1>3. PICK x \in Missing : \A y \in Missing : ~ (<<y, x>> \in lt)
  <2>1. Missing \in SUBSET Nat
    OBVIOUS
  <2> HIDE DEF lt, Missing
  <2> QED BY <1>1, <1>2, <2>1, WFMin, NatLessThanWellFounded
<1>4. x \in 1..K /\ x - 1 \in Nat /\ x - 1 < x
  OBVIOUS
<1>5. <<x - 1, x>> \in lt
  BY <1>4
<1>6. x - 1 \notin Missing
  <2> HIDE DEF lt, Missing
  <2> QED BY <1>3, <1>5, Zenon
<1> QED BY <1>4, <1>6

Recurs(f, K, V, v, G) ==
  f \in [0..K -> V] /\ f[0] = v /\ \A n \in 1..K : f[n] = G[n][f[n - 1]]

(* A recursion over 0..K whose step stays in V defines a function into V.  *)
LEMMA RecursionDefined ==
  ASSUME NEW K \in Nat, NEW V, NEW v \in V, NEW G,
         \A n \in 1..K : \A x \in V : G[n][x] \in V
  PROVE  \E f : Recurs(f, K, V, v, G)
<1> DEFINE Solves(f, k) == f = [n \in 0..k |-> IF n = 0 THEN v ELSE G[n][f[n - 1]]]
           S == {k \in 0..K : \E f \in [0..k -> V] : Solves(f, k)}
<1> HIDE DEF Solves
<1>1. 0 \in S
  <2>1. Solves([n \in 0..0 |-> v], 0)
    BY DEF Solves
  <2>2. [n \in 0..0 |-> v] \in [0..0 -> V]
    OBVIOUS
  <2> QED BY <2>1, <2>2
<1>2. ASSUME NEW k \in 1..K, k - 1 \in S PROVE k \in S
  <2>1. PICK f \in [0..(k - 1) -> V] : Solves(f, k - 1)
    BY <1>2
  <2> DEFINE g == [n \in 0..k |-> IF n = k THEN G[k][f[k - 1]] ELSE f[n]]
  <2>2. k - 1 \in 0..(k - 1) /\ k \notin 0..(k - 1) /\ f[k - 1] \in V
    OBVIOUS
  <2>3. G[k][f[k - 1]] \in V
    BY <2>2
  <2>4. g \in [0..k -> V]
    BY <2>3
  <2>5. \A n \in 0..k : g[n] = IF n = 0 THEN v ELSE G[n][g[n - 1]]
    <3>1. \A n \in 0..(k - 1) : f[n] = IF n = 0 THEN v ELSE G[n][f[n - 1]]
      BY <2>1 DEF Solves
    <3>2. TAKE n \in 0..k
    <3>3. CASE n = k
      <4>1. g[n] = G[k][f[k - 1]] /\ g[n - 1] = f[k - 1] /\ n # 0
        BY <3>3
      <4> QED BY <4>1, <3>3
    <3>4. CASE n # k
      <4>1. n \in 0..(k - 1) /\ g[n] = f[n] /\ (n # 0 => g[n - 1] = f[n - 1])
        BY <3>4
      <4> HIDE DEF g
      <4> QED BY <3>1, <4>1
    <3> QED BY <3>3, <3>4
  <2>6. Solves(g, k)
    BY <2>5 DEF Solves
  <2>7. \E h \in [0..k -> V] : Solves(h, k)
    <3> HIDE DEF g
    <3> QED BY <2>4, <2>6
  <2> QED BY <2>7
<1>3. \A k \in 0..K : k \in S
  <2> HIDE DEF S
  <2> QED BY <1>1, <1>2, SetInduction
<1>4. \E f \in [0..K -> V] : Solves(f, K)
  BY <1>3
<1>5. PICK f \in [0..K -> V] : Solves(f, K)
  BY <1>4
<1>6. Recurs(f, K, V, v, G)
  BY <1>5 DEF Solves, Recurs
<1> QED BY <1>6

(* A function over 0..K stays in V when its first value and every step do. *)
LEMMA RecursionTyped ==
  ASSUME NEW K \in Nat, NEW V, NEW f, DOMAIN f = 0..K, f = [n \in DOMAIN f |-> f[n]],
         f[0] \in V, \A n \in 1..K : f[n - 1] \in V => f[n] \in V
  PROVE  f \in [0..K -> V]
<1>1. PICK S : S = {n \in 0..K : f[n] \in V}
  OBVIOUS
<1>2. 0 \in S /\ \A n \in 1..K : n - 1 \in S => n \in S
  BY <1>1
<1>3. \A n \in 0..K : n \in S
  BY <1>2, SetInduction
<1> QED BY <1>1, <1>3

-----------------------------------------------------------------------------
(***************************************************************************)
(* Sequences of a known length                                             *)
(***************************************************************************)
LEMMA LenOfFunction ==
  ASSUME NEW n \in Nat, NEW S, NEW f \in [1..n -> S]
  PROVE  f \in Seq(S) /\ Len(f) = n /\ DOMAIN f = 1..n
OBVIOUS

LEMMA FunctionOfSeq ==
  ASSUME NEW S, NEW f \in Seq(S)
  PROVE  Len(f) \in Nat /\ f \in [1..Len(f) -> S]
OBVIOUS

LEMMA FunctionOfLength ==
  ASSUME NEW S, NEW n \in Nat, NEW f \in Seq(S), Len(f) = n
  PROVE  f \in [1..n -> S]
OBVIOUS

LEMMA BytesProperties ==
  ASSUME NEW S, NEW n \in Nat, NEW p \in Vec(n, S), NEW i \in Nat, NEW k \in Nat, i + k <= n
  PROVE  /\ Bytes(p, i, k) \in Vec(k, S)
         /\ \A j \in 1..k : Bytes(p, i, k)[j] = p[i + j]
<1>0. p \in [1..n -> S]
  BY DEF Vec
<1>1. i + 1 \in Int /\ i + k \in Int /\ \A j \in (i + 1)..(i + k) : p[j] \in S
  BY <1>0
<1>2. SubSeq(p, i + 1, i + k) \in Seq(S)
  BY <1>1, SubSeqProperties
<1>3. Len(SubSeq(p, i + 1, i + k)) = k
  BY <1>0
<1>4. \A j \in 1..k : SubSeq(p, i + 1, i + k)[j] = p[i + j]
  BY <1>0
<1>5. SubSeq(p, i + 1, i + k) \in [1..k -> S]
  BY <1>2, <1>3, FunctionOfLength
<1> QED BY <1>4, <1>5 DEF Bytes, Vec

LEMMA TupleIsIt ==
  ASSUME NEW S, NEW n \in Nat, NEW f \in [1..n -> S]
  PROVE  Tuple(f) = f
BY LenOfFunction, SubSeqFull DEF Tuple

(* Words are words of naturals. *)
LEMMA BytesAreNaturals ==
  ASSUME NEW n \in Nat, NEW a \in Word(n)
  PROVE  a \in [1..n -> Nat] /\ \A i \in 1..n : a[i] \in Nat /\ a[i] <= 255
<1>1. \A i \in 1..n : a[i] \in Byte
  BY DEF Word
<1>2. \A i \in 1..n : a[i] \in Nat /\ a[i] <= 255
  BY <1>1 DEF Byte
<1>3. a = [i \in 1..n |-> a[i]]
  BY DEF Word
<1> QED BY <1>2, <1>3

LEMMA DivideBy256 ==
  ASSUME NEW d \in Nat
  PROVE  /\ d % 256 \in Byte /\ d % 256 \in Nat /\ d \div 256 \in Nat
         /\ d = 256 * (d \div 256) + (d % 256)
BY DEF Byte

-----------------------------------------------------------------------------
(***************************************************************************)
(* Carries                                                                 *)
(***************************************************************************)
Sums == [word : Seq(Byte), carry : Nat]
SumsOf(c, s, n, sum) ==
  /\ sum \in [0..n -> Sums]
  /\ sum[0] = [word |-> <<>>, carry |-> c]
  /\ \A i \in 1..n :
       /\ sum[i].word = Append(sum[i - 1].word, (s[i] + sum[i - 1].carry) % 256)
       /\ sum[i].carry = (s[i] + sum[i - 1].carry) \div 256

LEMMA CarriedDefined ==
  ASSUME NEW n \in Nat, NEW s \in [1..n -> Nat], NEW c \in Nat
  PROVE  \E sum : SumsOf(c, s, n, sum) /\ Carried(c, s) = sum[n].word
<1> DEFINE Next(i, x) == LET digit == s[i] + x.carry
                         IN [word |-> Append(x.word, digit % 256), carry |-> digit \div 256]
           G == [i \in 1..n |-> [x \in Sums |-> Next(i, x)]]
           v == [word |-> <<>>, carry |-> c]
<1>1. v \in Sums
  BY DEF Sums
<1>2. \A i \in 1..n : \A x \in Sums : Next(i, x) \in Sums
  <2>1. TAKE i \in 1..n
  <2>2. TAKE x \in Sums
  <2>3. s[i] \in Nat /\ x.carry \in Nat /\ x.word \in Seq(Byte)
    BY DEF Sums
  <2>4. (s[i] + x.carry) % 256 \in Byte /\ (s[i] + x.carry) \div 256 \in Nat
    <3>1. PICK d \in Nat : d = s[i] + x.carry
      BY <2>3
    <3> QED BY <3>1, DivideBy256
  <2>5. Append(x.word, (s[i] + x.carry) % 256) \in Seq(Byte)
    BY <2>3, <2>4
  <2> QED BY <2>4, <2>5 DEF Sums
<1> HIDE DEF Next
<1>3. \A i \in 1..n : \A x \in Sums : G[i][x] \in Sums
  BY <1>2
<1>4. PICK sum \in [0..n -> Sums] : sum = [i \in 0..n |-> IF i = 0 THEN v ELSE G[i][sum[i - 1]]]
  <2>1. PICK g, w : g = G /\ w = v
    OBVIOUS
  <2> HIDE DEF G, v
  <2>2. w \in Sums /\ \A i \in 1..n : \A x \in Sums : g[i][x] \in Sums
    BY <1>1, <1>3, <2>1
  <2>3. PICK f : Recurs(f, n, Sums, w, g)
    BY <2>2, RecursionDefined
  <2>4. f = [i \in 0..n |-> IF i = 0 THEN v ELSE G[i][f[i - 1]]]
    BY <2>1, <2>3 DEF Recurs
  <2>5. f \in [0..n -> Sums]
    BY <2>3 DEF Recurs
  <2> QED BY <2>4, <2>5
<1>5. sum = [i \in 0..n |-> IF i = 0 THEN v ELSE Next(i, sum[i - 1])]
  <2>1. \A i \in 0..n : i # 0 => i \in 1..n /\ sum[i - 1] \in Sums
    OBVIOUS
  <2>2. \A i \in 0..n : i # 0 => G[i][sum[i - 1]] = Next(i, sum[i - 1])
    BY <2>1
  <2> HIDE DEF G, v
  <2> QED BY <1>4, <2>2
<1> DEFINE Solves(f) == f = [i \in 0..Len(s) |-> IF i = 0 THEN v ELSE Next(i, f[i - 1])]
<1>6. Len(s) = n
  OBVIOUS
<1>7. Solves(sum)
  <2> HIDE DEF v
  <2> QED BY <1>5, <1>6
<1> DEFINE chosen == CHOOSE f : Solves(f)
<1>8. Solves(chosen)
  <2> HIDE DEF Solves
  <2> QED BY <1>7
<1>9. Carried(c, s) = chosen[Len(s)].word
  BY DEF Carried, Next
<1>10. chosen = [i \in 0..n |-> IF i = 0 THEN v ELSE Next(i, chosen[i - 1])]
  <2> HIDE DEF v, chosen
  <2> QED BY <1>8, <1>6
<1>11. chosen \in [0..n -> Sums]
  <2>1. PICK f : f = chosen
    OBVIOUS
  <2> HIDE DEF v, chosen
  <2>2. f = [i \in 0..n |-> IF i = 0 THEN v ELSE Next(i, f[i - 1])]
    BY <1>10, <2>1
  <2>3. f[0] = v /\ \A i \in 1..n : f[i] = Next(i, f[i - 1])
    BY <2>2
  <2>4. \A i \in 1..n : f[i - 1] \in Sums => f[i] \in Sums
    BY <1>2, <2>3
  <2>5. DOMAIN f = 0..n /\ f = [i \in DOMAIN f |-> f[i]]
    BY <2>2
  <2> QED BY <1>1, <2>1, <2>3, <2>4, <2>5, RecursionTyped, SMTT(40)
<1>12. PICK f : f = chosen
  OBVIOUS
<1>13. f[0] = v /\ \A i \in 1..n : f[i] = Next(i, f[i - 1])
  <2> HIDE DEF v, chosen
  <2> QED BY <1>10, <1>12
<1>14. SumsOf(c, s, n, f)
  <2> HIDE DEF chosen
  <2>1. f \in [0..n -> Sums]
    BY <1>11, <1>12
  <2>2. ASSUME NEW i \in 1..n
        PROVE  /\ f[i].word = Append(f[i - 1].word, (s[i] + f[i - 1].carry) % 256)
               /\ f[i].carry = (s[i] + f[i - 1].carry) \div 256
    <3>1. f[i] = Next(i, f[i - 1])
      BY <1>13
    <3>2. Next(i, f[i - 1]) = [word |-> Append(f[i - 1].word, (s[i] + f[i - 1].carry) % 256),
                               carry |-> (s[i] + f[i - 1].carry) \div 256]
      BY DEF Next
    <3> QED BY <3>1, <3>2
  <2> QED BY <1>13, <2>1, <2>2 DEF SumsOf
<1>15. Carried(c, s) = f[n].word
  <2> HIDE DEF chosen
  <2> QED BY <1>6, <1>9, <1>12
<1> QED BY <1>14, <1>15

(* Digit by digit, with the carries between them.                          *)
CarriesOf(c, s, n, carry, word) ==
  /\ carry \in [0..n -> Nat] /\ carry[0] = c
  /\ word \in Word(n)
  /\ \A i \in 1..n : /\ word[i] = (s[i] + carry[i - 1]) % 256
                     /\ carry[i] = (s[i] + carry[i - 1]) \div 256

LEMMA CarriedDigits ==
  ASSUME NEW n \in Nat, NEW s \in [1..n -> Nat], NEW c \in Nat
  PROVE  \E carry : CarriesOf(c, s, n, carry, Carried(c, s))
<1>1. PICK sum : SumsOf(c, s, n, sum) /\ Carried(c, s) = sum[n].word
  BY CarriedDefined
<1> DEFINE carry == [i \in 0..n |-> sum[i].carry]
           Digits(i) == /\ Len(sum[i].word) = i
                        /\ \A j \in 1..i : sum[i].word[j] = (s[j] + sum[j - 1].carry) % 256
           S == {i \in 0..n : Digits(i)}
<1>2. \A i \in 0..n : sum[i].word \in Seq(Byte) /\ sum[i].carry \in Nat
  BY <1>1 DEF SumsOf, Sums
<1>3. 0 \in S
  BY <1>1 DEF SumsOf
<1>4. ASSUME NEW i \in 1..n, i - 1 \in S PROVE i \in S
  <2>1. i - 1 \in 0..n /\ Digits(i - 1)
    BY <1>4
  <2>2. PICK w \in Seq(Byte) : w = sum[i - 1].word
    BY <1>2, <2>1
  <2>3. PICK d : d = (s[i] + sum[i - 1].carry) % 256
    OBVIOUS
  <2>4. sum[i].word = Append(w, d)
    BY <1>1, <2>2, <2>3 DEF SumsOf
  <2>5. Len(w) = i - 1 /\ \A j \in 1..(i - 1) : w[j] = (s[j] + sum[j - 1].carry) % 256
    BY <2>1, <2>2
  <2>6. Len(Append(w, d)) = i /\ Append(w, d)[i] = d /\ \A j \in 1..(i - 1) : Append(w, d)[j] = w[j]
    BY <2>2, <2>5
  <2>7. \A j \in 1..i : Append(w, d)[j] = (s[j] + sum[j - 1].carry) % 256
    <3>1. TAKE j \in 1..i
    <3>2. CASE j = i
      BY <2>3, <2>6, <3>2
    <3>3. CASE j # i
      <4>1. j \in 1..(i - 1)
        BY <3>3
      <4> QED BY <2>5, <2>6, <4>1
    <3> QED BY <3>2, <3>3
  <2>8. Digits(i)
    BY <2>4, <2>6, <2>7
  <2> QED BY <2>8
<1>5. \A i \in 0..n : i \in S
  <2> HIDE DEF S
  <2> QED BY <1>3, <1>4, SetInduction
<1>6. Digits(n)
  BY <1>5
<1>7. Carried(c, s) \in Word(n)
  <2>1. Carried(c, s) \in Seq(Byte) /\ Len(Carried(c, s)) = n
    BY <1>1, <1>2, <1>6
  <2> QED BY <2>1, FunctionOfLength DEF Word
<1>8. carry \in [0..n -> Nat] /\ carry[0] = c
  BY <1>1, <1>2 DEF SumsOf
<1>9. ASSUME NEW i \in 1..n
      PROVE  /\ Carried(c, s)[i] = (s[i] + carry[i - 1]) % 256
             /\ carry[i] = (s[i] + carry[i - 1]) \div 256
  <2>1. carry[i - 1] = sum[i - 1].carry /\ carry[i] = sum[i].carry
    OBVIOUS
  <2>2. sum[i].carry = (s[i] + sum[i - 1].carry) \div 256
    BY <1>1 DEF SumsOf
  <2>3. sum[n].word[i] = (s[i] + sum[i - 1].carry) % 256
    BY <1>6
  <2> QED BY <1>1, <2>1, <2>2, <2>3
<1>10. CarriesOf(c, s, n, carry, Carried(c, s))
  <2> HIDE DEF carry
  <2> QED BY <1>7, <1>8, <1>9 DEF CarriesOf
<1> QED BY <1>10

(* Carrying gives a word of the same width. *)
LEMMA CarriedWord ==
  ASSUME NEW n \in Nat, NEW s \in [1..n -> Nat], NEW c \in Nat
  PROVE  Carried(c, s) \in Word(n)
BY CarriedDigits DEF CarriesOf

-----------------------------------------------------------------------------
(***************************************************************************)
(* 64 bits as numbers                                                      *)
(***************************************************************************)
Value(a) == a[1] + 256 * (a[2] + 256 * (a[3] + 256 * (a[4]
            + 256 * (a[5] + 256 * (a[6] + 256 * (a[7] + 256 * a[8]))))))
Modulus == 18446744073709551616

Digits8(f, x1, x2, x3, x4, x5, x6, x7, x8) ==
  /\ x1 = f[1] /\ x2 = f[2] /\ x3 = f[3] /\ x4 = f[4]
  /\ x5 = f[5] /\ x6 = f[6] /\ x7 = f[7] /\ x8 = f[8]

LEMMA HasDigits ==
  ASSUME NEW D, NEW f, \A i \in 1..8 : f[i] \in D
  PROVE  \E x1 \in D, x2 \in D, x3 \in D, x4 \in D, x5 \in D, x6 \in D, x7 \in D, x8 \in D :
           Digits8(f, x1, x2, x3, x4, x5, x6, x7, x8)
<1>1. /\ f[1] \in D /\ f[2] \in D /\ f[3] \in D /\ f[4] \in D
      /\ f[5] \in D /\ f[6] \in D /\ f[7] \in D /\ f[8] \in D
  OBVIOUS
<1> WITNESS f[1] \in D, f[2] \in D, f[3] \in D, f[4] \in D, f[5] \in D, f[6] \in D, f[7] \in D, f[8] \in D
<1> QED BY DEF Digits8

LEMMA ValueIsNumber ==
  ASSUME NEW a \in [1..8 -> Nat]
  PROVE  Value(a) \in Nat
<1>1. PICK a1 \in Nat, a2 \in Nat, a3 \in Nat, a4 \in Nat, a5 \in Nat, a6 \in Nat, a7 \in Nat, a8 \in Nat :
        Digits8(a, a1, a2, a3, a4, a5, a6, a7, a8)
  <2>1. \A i \in 1..8 : a[i] \in Nat
    OBVIOUS
  <2> QED BY <2>1, HasDigits
<1>2. a1 + 256 * (a2 + 256 * (a3 + 256 * (a4 + 256 * (a5 + 256 * (a6 + 256 * (a7 + 256 * a8)))))) \in Nat
  OBVIOUS
<1> QED BY <1>1, <1>2 DEF Value, Digits8

(* What is carried out of a word is a multiple of the modulus. *)
LEMMA CarriedValue ==
  ASSUME NEW s \in [1..8 -> Nat], NEW c \in Nat
  PROVE  \E q \in Nat : Value(s) + c = Value(Carried(c, s)) + q * Modulus
<1>1. PICK carry : CarriesOf(c, s, 8, carry, Carried(c, s))
  BY CarriedDigits
<1>2. PICK w : w = Carried(c, s)
  OBVIOUS
<1>3. \A i \in 1..8 : s[i] + carry[i - 1] = w[i] + 256 * carry[i]
  <2>1. TAKE i \in 1..8
  <2>2. PICK d \in Nat : d = s[i] + carry[i - 1]
    BY <1>1 DEF CarriesOf
  <2>3. w[i] = d % 256 /\ carry[i] = d \div 256
    BY <1>1, <1>2, <2>2 DEF CarriesOf
  <2> QED BY <2>2, <2>3, DivideBy256
<1>4. (\A i \in 1..8 : s[i] \in Nat) /\ (\A i \in 1..8 : w[i] \in Nat)
  <2>1. w \in Word(8)
    BY <1>1, <1>2 DEF CarriesOf
  <2> QED BY <2>1, BytesAreNaturals
<1>5. \A i \in 1..8 : carry[i] \in Nat
  BY <1>1 DEF CarriesOf
<1>6. /\ s[1] + c = w[1] + 256 * carry[1]
      /\ s[2] + carry[1] = w[2] + 256 * carry[2]
      /\ s[3] + carry[2] = w[3] + 256 * carry[3]
      /\ s[4] + carry[3] = w[4] + 256 * carry[4]
      /\ s[5] + carry[4] = w[5] + 256 * carry[5]
      /\ s[6] + carry[5] = w[6] + 256 * carry[6]
      /\ s[7] + carry[6] = w[7] + 256 * carry[7]
      /\ s[8] + carry[7] = w[8] + 256 * carry[8]
  BY <1>1, <1>3 DEF CarriesOf
<1>7. Value(s) + c = Value(w) + carry[8] * Modulus
  <2>1. PICK s1 \in Nat, s2 \in Nat, s3 \in Nat, s4 \in Nat, s5 \in Nat, s6 \in Nat, s7 \in Nat, s8 \in Nat :
           Digits8(s, s1, s2, s3, s4, s5, s6, s7, s8)
    BY <1>4, HasDigits
  <2>2. PICK w1 \in Nat, w2 \in Nat, w3 \in Nat, w4 \in Nat, w5 \in Nat, w6 \in Nat, w7 \in Nat, w8 \in Nat :
           Digits8(w, w1, w2, w3, w4, w5, w6, w7, w8)
    BY <1>4, HasDigits
  <2>3. PICK c1 \in Nat, c2 \in Nat, c3 \in Nat, c4 \in Nat, c5 \in Nat, c6 \in Nat, c7 \in Nat, c8 \in Nat :
           Digits8(carry, c1, c2, c3, c4, c5, c6, c7, c8)
    BY <1>5, HasDigits
  <2>4. /\ s1 + c = w1 + 256 * c1 /\ s2 + c1 = w2 + 256 * c2
        /\ s3 + c2 = w3 + 256 * c3 /\ s4 + c3 = w4 + 256 * c4
        /\ s5 + c4 = w5 + 256 * c5 /\ s6 + c5 = w6 + 256 * c6
        /\ s7 + c6 = w7 + 256 * c7 /\ s8 + c7 = w8 + 256 * c8
    BY <1>6, <2>1, <2>2, <2>3 DEF Digits8
  <2>5. s1 + 256 * (s2 + 256 * (s3 + 256 * (s4 + 256 * (s5 + 256 * (s6 + 256 * (s7 + 256 * s8)))))) + c
        = w1 + 256 * (w2 + 256 * (w3 + 256 * (w4 + 256 * (w5 + 256 * (w6 + 256 * (w7 + 256 * w8))))))
          + c8 * 18446744073709551616
    BY <2>4
  <2>6. Value(s) = s1 + 256 * (s2 + 256 * (s3 + 256 * (s4 + 256 * (s5 + 256 * (s6 + 256 * (s7 + 256 * s8))))))
    BY <2>1 DEF Value, Digits8
  <2>7. Value(w) = w1 + 256 * (w2 + 256 * (w3 + 256 * (w4 + 256 * (w5 + 256 * (w6 + 256 * (w7 + 256 * w8))))))
    BY <2>2 DEF Value, Digits8
  <2> QED BY <2>3, <2>5, <2>6, <2>7 DEF Modulus, Digits8
<1> QED BY <1>2, <1>5, <1>7

(* Numbers below the modulus have one word. *)
LEMMA OneWord ==
  ASSUME NEW a \in Word(8), NEW b \in Word(8), NEW q \in Int,
         Value(a) = Value(b) + q * Modulus
  PROVE  a = b
<1>1. \A i \in 1..8 : a[i] \in 0..255 /\ b[i] \in 0..255
  BY SMTT(40) DEF Word, Byte
<1>2. PICK a1 \in 0..255, a2 \in 0..255, a3 \in 0..255, a4 \in 0..255, a5 \in 0..255, a6 \in 0..255, a7 \in 0..255, a8 \in 0..255 :
           Digits8(a, a1, a2, a3, a4, a5, a6, a7, a8)
  BY <1>1, HasDigits, ZenonT(40)
<1>3. PICK b1 \in 0..255, b2 \in 0..255, b3 \in 0..255, b4 \in 0..255, b5 \in 0..255, b6 \in 0..255, b7 \in 0..255, b8 \in 0..255 :
           Digits8(b, b1, b2, b3, b4, b5, b6, b7, b8)
  BY <1>1, HasDigits, ZenonT(40)
<1>4. a1 + 256 * (a2 + 256 * (a3 + 256 * (a4 + 256 * (a5 + 256 * (a6 + 256 * (a7 + 256 * a8))))))
      = b1 + 256 * (b2 + 256 * (b3 + 256 * (b4 + 256 * (b5 + 256 * (b6 + 256 * (b7 + 256 * (b8 + 256 * q)))))))
  <2>1. Value(a) = a1 + 256 * (a2 + 256 * (a3 + 256 * (a4 + 256 * (a5 + 256 * (a6 + 256 * (a7 + 256 * a8))))))
    BY <1>2 DEF Value, Digits8
  <2>2. Value(b) = b1 + 256 * (b2 + 256 * (b3 + 256 * (b4 + 256 * (b5 + 256 * (b6 + 256 * (b7 + 256 * b8))))))
    BY <1>3 DEF Value, Digits8
  <2> QED BY <2>1, <2>2 DEF Modulus
<1>5. a1 = b1 /\ (a2 + 256 * (a3 + 256 * (a4 + 256 * (a5 + 256 * (a6 + 256 * (a7 + 256 * a8)))))) = (b2 + 256 * (b3 + 256 * (b4 + 256 * (b5 + 256 * (b6 + 256 * (b7 + 256 * (b8 + 256 * q)))))))
  <2>1. PICK x \in Int : x = (a2 + 256 * (a3 + 256 * (a4 + 256 * (a5 + 256 * (a6 + 256 * (a7 + 256 * a8))))))
    OBVIOUS
  <2>2. PICK y \in Int : y = (b2 + 256 * (b3 + 256 * (b4 + 256 * (b5 + 256 * (b6 + 256 * (b7 + 256 * (b8 + 256 * q)))))))
    OBVIOUS
  <2>3. a1 + 256 * x = b1 + 256 * y
    BY <1>4, <2>1, <2>2
  <2>4. a1 = b1 /\ x = y
    BY <2>3
  <2> QED BY <2>1, <2>2, <2>4
<1>6. a2 = b2 /\ (a3 + 256 * (a4 + 256 * (a5 + 256 * (a6 + 256 * (a7 + 256 * a8))))) = (b3 + 256 * (b4 + 256 * (b5 + 256 * (b6 + 256 * (b7 + 256 * (b8 + 256 * q))))))
  <2>1. PICK x \in Int : x = (a3 + 256 * (a4 + 256 * (a5 + 256 * (a6 + 256 * (a7 + 256 * a8)))))
    OBVIOUS
  <2>2. PICK y \in Int : y = (b3 + 256 * (b4 + 256 * (b5 + 256 * (b6 + 256 * (b7 + 256 * (b8 + 256 * q))))))
    OBVIOUS
  <2>3. a2 + 256 * x = b2 + 256 * y
    BY <1>5, <2>1, <2>2
  <2>4. a2 = b2 /\ x = y
    BY <2>3
  <2> QED BY <2>1, <2>2, <2>4
<1>7. a3 = b3 /\ (a4 + 256 * (a5 + 256 * (a6 + 256 * (a7 + 256 * a8)))) = (b4 + 256 * (b5 + 256 * (b6 + 256 * (b7 + 256 * (b8 + 256 * q)))))
  <2>1. PICK x \in Int : x = (a4 + 256 * (a5 + 256 * (a6 + 256 * (a7 + 256 * a8))))
    OBVIOUS
  <2>2. PICK y \in Int : y = (b4 + 256 * (b5 + 256 * (b6 + 256 * (b7 + 256 * (b8 + 256 * q)))))
    OBVIOUS
  <2>3. a3 + 256 * x = b3 + 256 * y
    BY <1>6, <2>1, <2>2
  <2>4. a3 = b3 /\ x = y
    BY <2>3
  <2> QED BY <2>1, <2>2, <2>4
<1>8. a4 = b4 /\ (a5 + 256 * (a6 + 256 * (a7 + 256 * a8))) = (b5 + 256 * (b6 + 256 * (b7 + 256 * (b8 + 256 * q))))
  <2>1. PICK x \in Int : x = (a5 + 256 * (a6 + 256 * (a7 + 256 * a8)))
    OBVIOUS
  <2>2. PICK y \in Int : y = (b5 + 256 * (b6 + 256 * (b7 + 256 * (b8 + 256 * q))))
    OBVIOUS
  <2>3. a4 + 256 * x = b4 + 256 * y
    BY <1>7, <2>1, <2>2
  <2>4. a4 = b4 /\ x = y
    BY <2>3
  <2> QED BY <2>1, <2>2, <2>4
<1>9. a5 = b5 /\ (a6 + 256 * (a7 + 256 * a8)) = (b6 + 256 * (b7 + 256 * (b8 + 256 * q)))
  <2>1. PICK x \in Int : x = (a6 + 256 * (a7 + 256 * a8))
    OBVIOUS
  <2>2. PICK y \in Int : y = (b6 + 256 * (b7 + 256 * (b8 + 256 * q)))
    OBVIOUS
  <2>3. a5 + 256 * x = b5 + 256 * y
    BY <1>8, <2>1, <2>2
  <2>4. a5 = b5 /\ x = y
    BY <2>3
  <2> QED BY <2>1, <2>2, <2>4
<1>10. a6 = b6 /\ (a7 + 256 * a8) = (b7 + 256 * (b8 + 256 * q))
  <2>1. PICK x \in Int : x = (a7 + 256 * a8)
    OBVIOUS
  <2>2. PICK y \in Int : y = (b7 + 256 * (b8 + 256 * q))
    OBVIOUS
  <2>3. a6 + 256 * x = b6 + 256 * y
    BY <1>9, <2>1, <2>2
  <2>4. a6 = b6 /\ x = y
    BY <2>3
  <2> QED BY <2>1, <2>2, <2>4
<1>11. a7 = b7 /\ a8 = (b8 + 256 * q)
  <2>1. PICK x \in Int : x = a8
    OBVIOUS
  <2>2. PICK y \in Int : y = (b8 + 256 * q)
    OBVIOUS
  <2>3. a7 + 256 * x = b7 + 256 * y
    BY <1>10, <2>1, <2>2
  <2>4. a7 = b7 /\ x = y
    BY <2>3
  <2> QED BY <2>1, <2>2, <2>4
<1>12. a8 = b8 /\ 0 = q
  <2>1. PICK x \in Int : x = 0
    OBVIOUS
  <2>2. PICK y \in Int : y = q
    OBVIOUS
  <2>3. a8 + 256 * x = b8 + 256 * y
    BY <1>11, <2>1, <2>2
  <2>4. a8 = b8 /\ x = y
    BY <2>3
  <2> QED BY <2>1, <2>2, <2>4
<1>13. \A i \in 1..8 : a[i] = b[i]
  <2>1. /\ a[1] = b[1] /\ a[2] = b[2] /\ a[3] = b[3] /\ a[4] = b[4]
        /\ a[5] = b[5] /\ a[6] = b[6] /\ a[7] = b[7] /\ a[8] = b[8]
    BY <1>2, <1>3, <1>5, <1>6, <1>7, <1>8, <1>9, <1>10, <1>11, <1>12 DEF Digits8
  <2> QED BY <2>1
<1> QED BY <1>13 DEF Word

-----------------------------------------------------------------------------
(***************************************************************************)
(* Parts of words                                                          *)
(***************************************************************************)
LEMMA ZeroWord ==
  ASSUME NEW n \in Nat
  PROVE  Zero(n) \in Word(n) /\ \A i \in 1..n : Zero(n)[i] = 0
<1>1. PICK f : f = [i \in 1..n |-> 0]
  OBVIOUS
<1>2. f \in [1..n -> Byte]
  BY <1>1 DEF Byte
<1>3. Tuple(f) = f
  BY <1>2, TupleIsIt
<1>4. Zero(n) = f
  BY <1>1, <1>3 DEF Zero
<1> QED BY <1>1, <1>2, <1>4 DEF Word

LEMMA ExtendWord ==
  ASSUME NEW m \in Nat, NEW n \in Nat, NEW a \in Word(m)
  PROVE  /\ Extend(a, n) \in Word(n)
         /\ \A i \in 1..n : Extend(a, n)[i] = IF i <= m THEN a[i] ELSE 0
<1>1. Len(a) = m
  BY LenOfFunction DEF Word
<1>2. PICK f : f = [i \in 1..n |-> IF i <= m THEN a[i] ELSE 0]
  OBVIOUS
<1>3. f \in [1..n -> Byte]
  <2>1. \A i \in 1..n : i <= m => a[i] \in Byte
    BY DEF Word
  <2> QED BY <1>2, <2>1 DEF Byte
<1>4. Tuple(f) = f
  BY <1>3, TupleIsIt
<1>5. Extend(a, n) = f
  BY <1>1, <1>2, <1>4 DEF Extend
<1> QED BY <1>2, <1>3, <1>5 DEF Word

(* The n bytes of a word or of memory from i on. *)
LEMMA BytesWord ==
  ASSUME NEW m \in Nat, NEW p \in Word(m), NEW i \in Nat, NEW n \in Nat, i + n <= m
  PROVE  Bytes(p, i, n) \in Word(n) /\ \A j \in 1..n : Bytes(p, i, n)[j] = p[i + j]
<1>1. p \in Vec(m, Byte)
  BY DEF Word, Vec
<1>2. Bytes(p, i, n) \in Vec(n, Byte) /\ \A j \in 1..n : Bytes(p, i, n)[j] = p[i + j]
  BY <1>1, BytesProperties
<1> QED BY <1>2 DEF Word, Vec

LEMMA ConcatWords ==
  ASSUME NEW m \in Nat, NEW n \in Nat, NEW a \in Word(m), NEW b \in Word(n)
  PROVE  /\ a \o b \in Word(m + n)
         /\ \A i \in 1..(m + n) : (a \o b)[i] = IF i <= m THEN a[i] ELSE b[i - m]
<1>1. a \in Seq(Byte) /\ b \in Seq(Byte) /\ Len(a) = m /\ Len(b) = n
  BY DEF Word
<1>2. a \o b \in Seq(Byte) /\ Len(a \o b) = m + n /\ m + n \in Nat
  BY <1>1
<1>3. \A i \in 1..(m + n) : (a \o b)[i] = IF i <= m THEN a[i] ELSE b[i - m]
  BY <1>1
<1>4. a \o b \in [1..(m + n) -> Byte]
  BY <1>2, FunctionOfLength
<1> QED BY <1>3, <1>4 DEF Word

(* The halves of 64 bits *)
LEMMA HalvesOfWord ==
  ASSUME NEW a \in Word(8)
  PROVE  /\ Low(a) = Bytes(a, 0, 4) /\ High(a) = Bytes(a, 4, 4)
         /\ Low(a) \in Word(4) /\ High(a) \in Word(4)
         /\ \A i \in 1..4 : Low(a)[i] = a[i] /\ High(a)[i] = a[i + 4]
<1>1. Len(a) = 8
  BY LenOfFunction DEF Word
<1>2. Low(a) = Bytes(a, 0, 4) /\ High(a) = Bytes(a, 4, 4)
  BY <1>1 DEF Low, High
<1>3. Bytes(a, 0, 4) \in Word(4) /\ \A i \in 1..4 : Bytes(a, 0, 4)[i] = a[0 + i]
  BY BytesWord
<1>4. Bytes(a, 4, 4) \in Word(4) /\ \A i \in 1..4 : Bytes(a, 4, 4)[i] = a[4 + i]
  BY BytesWord
<1> QED BY <1>2, <1>3, <1>4

LEMMA SwapWord ==
  ASSUME NEW n \in Nat, NEW a \in Word(n)
  PROVE  Swap(a) \in Word(n) /\ \A i \in 1..n : Swap(a)[i] = a[n + 1 - i]
<1>1. Len(a) = n
  BY LenOfFunction DEF Word
<1>2. PICK f : f = [i \in 1..n |-> a[n + 1 - i]]
  OBVIOUS
<1>3. f \in [1..n -> Byte]
  BY <1>2 DEF Word
<1>4. Tuple(f) = f
  BY <1>3, TupleIsIt
<1>5. Swap(a) = f
  BY <1>1, <1>2, <1>4 DEF Swap
<1> QED BY <1>2, <1>3, <1>5 DEF Word

-----------------------------------------------------------------------------
(***************************************************************************)
(* Sums and differences                                                    *)
(***************************************************************************)
SumDigits(n, a, b) == [i \in 1..n |-> a[i] + b[i]]
DifferenceDigits(n, a, b) == [i \in 1..n |-> a[i] + 255 - b[i]]

LEMMA SumWord ==
  ASSUME NEW n \in Nat, NEW a \in Word(n), NEW b \in Word(n)
  PROVE  /\ a ++ b \in Word(n)
         /\ a ++ b = Carried(0, SumDigits(n, a, b))
         /\ SumDigits(n, a, b) \in [1..n -> Nat]
<1>1. Len(a) = n
  BY LenOfFunction DEF Word
<1>2. SumDigits(n, a, b) \in [1..n -> Nat]
  BY BytesAreNaturals DEF SumDigits
<1>3. a ++ b = Carried(0, SumDigits(n, a, b))
  BY <1>1 DEF ++, SumDigits
<1>4. Carried(0, SumDigits(n, a, b)) \in Word(n)
  BY <1>2, CarriedWord
<1> QED BY <1>2, <1>3, <1>4

LEMMA DifferenceWord ==
  ASSUME NEW n \in Nat, NEW a \in Word(n), NEW b \in Word(n)
  PROVE  /\ a -- b \in Word(n)
         /\ a -- b = Carried(1, DifferenceDigits(n, a, b))
         /\ DifferenceDigits(n, a, b) \in [1..n -> Nat]
<1>1. Len(a) = n
  BY LenOfFunction DEF Word
<1>2. DifferenceDigits(n, a, b) \in [1..n -> Nat]
  <2>1. \A i \in 1..n : a[i] + 255 - b[i] \in Nat
    BY BytesAreNaturals
  <2> QED BY <2>1 DEF DifferenceDigits
<1>3. a -- b = Carried(1, DifferenceDigits(n, a, b))
  BY <1>1 DEF --, DifferenceDigits
<1>4. Carried(1, DifferenceDigits(n, a, b)) \in Word(n)
  BY <1>2, CarriedWord
<1> QED BY <1>2, <1>3, <1>4

LEMMA SumCommutes ==
  ASSUME NEW n \in Nat, NEW a \in Word(n), NEW b \in Word(n)
  PROVE  a ++ b = b ++ a
<1>1. SumDigits(n, a, b) = SumDigits(n, b, a)
  BY BytesAreNaturals DEF SumDigits
<1> QED BY <1>1, SumWord

LEMMA SumValue ==
  ASSUME NEW a \in Word(8), NEW b \in Word(8)
  PROVE  \E q \in Int : Value(a ++ b) = Value(a) + Value(b) + q * Modulus
<1>1. PICK s \in [1..8 -> Nat] : s = SumDigits(8, a, b)
  BY SumWord
<1>2. PICK q \in Nat : Value(s) + 0 = Value(Carried(0, s)) + q * Modulus
  BY CarriedValue
<1>3. Value(s) = Value(a) + Value(b)
  <2>1. PICK a1 \in Nat, a2 \in Nat, a3 \in Nat, a4 \in Nat, a5 \in Nat, a6 \in Nat, a7 \in Nat, a8 \in Nat :
          Digits8(a, a1, a2, a3, a4, a5, a6, a7, a8)
    <3>1. \A i \in 1..8 : a[i] \in Nat
      BY BytesAreNaturals
    <3> QED BY <3>1, HasDigits
  <2>2. PICK b1 \in Nat, b2 \in Nat, b3 \in Nat, b4 \in Nat, b5 \in Nat, b6 \in Nat, b7 \in Nat, b8 \in Nat :
          Digits8(b, b1, b2, b3, b4, b5, b6, b7, b8)
    <3>1. \A i \in 1..8 : b[i] \in Nat
      BY BytesAreNaturals
    <3> QED BY <3>1, HasDigits
  <2>3. Value(s) = (a1 + b1) + 256 * ((a2 + b2) + 256 * ((a3 + b3) + 256 * ((a4 + b4) + 256 * ((a5 + b5) + 256 * ((a6 + b6) + 256 * ((a7 + b7) + 256 * ((a8 + b8))))))))
    BY <1>1, <2>1, <2>2 DEF Digits8, Value, SumDigits
  <2>4. Value(a) = a1 + 256 * (a2 + 256 * (a3 + 256 * (a4 + 256 * (a5 + 256 * (a6 + 256 * (a7 + 256 * (a8)))))))
    BY <2>1 DEF Digits8, Value
  <2>5. Value(b) = b1 + 256 * (b2 + 256 * (b3 + 256 * (b4 + 256 * (b5 + 256 * (b6 + 256 * (b7 + 256 * (b8)))))))
    BY <2>2 DEF Digits8, Value, SumDigits
  <2> QED BY <2>3, <2>4, <2>5
<1>4. Value(a) \in Nat /\ Value(b) \in Nat /\ Value(Carried(0, s)) \in Nat
  BY BytesAreNaturals, ValueIsNumber, CarriedWord, ZenonT(40)
<1>5. Value(Carried(0, s)) = Value(a) + Value(b) + (- q) * Modulus
  BY <1>2, <1>3, <1>4 DEF Modulus
<1>6. a ++ b = Carried(0, s)
  BY <1>1, SumWord
<1> QED BY <1>5, <1>6

LEMMA DifferenceValue ==
  ASSUME NEW a \in Word(8), NEW b \in Word(8)
  PROVE  \E q \in Int : Value(a -- b) = Value(a) - Value(b) + q * Modulus
<1>1. PICK s \in [1..8 -> Nat] : s = DifferenceDigits(8, a, b)
  BY DifferenceWord
<1>2. PICK q \in Nat : Value(s) + 1 = Value(Carried(1, s)) + q * Modulus
  BY CarriedValue
<1>3. Value(s) + 1 = Value(a) - Value(b) + Modulus
  <2>1. PICK a1 \in Nat, a2 \in Nat, a3 \in Nat, a4 \in Nat, a5 \in Nat, a6 \in Nat, a7 \in Nat, a8 \in Nat :
          Digits8(a, a1, a2, a3, a4, a5, a6, a7, a8)
    <3>1. \A i \in 1..8 : a[i] \in Nat
      BY BytesAreNaturals
    <3> QED BY <3>1, HasDigits
  <2>2. PICK b1 \in Nat, b2 \in Nat, b3 \in Nat, b4 \in Nat, b5 \in Nat, b6 \in Nat, b7 \in Nat, b8 \in Nat :
          Digits8(b, b1, b2, b3, b4, b5, b6, b7, b8)
    <3>1. \A i \in 1..8 : b[i] \in Nat
      BY BytesAreNaturals
    <3> QED BY <3>1, HasDigits
  <2>3. Value(s) = (a1 + 255 - b1) + 256 * ((a2 + 255 - b2) + 256 * ((a3 + 255 - b3) + 256 * ((a4 + 255 - b4) + 256 * ((a5 + 255 - b5) + 256 * ((a6 + 255 - b6) + 256 * ((a7 + 255 - b7) + 256 * ((a8 + 255 - b8))))))))
    BY <1>1, <2>1, <2>2 DEF Digits8, Value, DifferenceDigits
  <2>4. Value(a) = a1 + 256 * (a2 + 256 * (a3 + 256 * (a4 + 256 * (a5 + 256 * (a6 + 256 * (a7 + 256 * (a8)))))))
    BY <2>1 DEF Digits8, Value
  <2>5. Value(b) = b1 + 256 * (b2 + 256 * (b3 + 256 * (b4 + 256 * (b5 + 256 * (b6 + 256 * (b7 + 256 * (b8)))))))
    BY <2>2 DEF Digits8, Value, DifferenceDigits
  <2> QED BY <2>3, <2>4, <2>5 DEF Modulus
<1>4. Value(a) \in Nat /\ Value(b) \in Nat /\ Value(Carried(1, s)) \in Nat
  BY BytesAreNaturals, ValueIsNumber, CarriedWord, ZenonT(40)
<1>5. Value(Carried(1, s)) = Value(a) - Value(b) + (1 - q) * Modulus
  BY <1>2, <1>3, <1>4 DEF Modulus
<1>6. a -- b = Carried(1, s)
  BY <1>1, DifferenceWord
<1> QED BY <1>5, <1>6

LEMMA ZeroValue == Value(Zero(8)) = 0 /\ Zero(8) \in Word(8)
<1>1. Zero(8) \in Word(8) /\ \A i \in 1..8 : Zero(8)[i] = 0
  BY ZeroWord
<1>2. /\ Zero(8)[1] = 0 /\ Zero(8)[2] = 0 /\ Zero(8)[3] = 0 /\ Zero(8)[4] = 0
      /\ Zero(8)[5] = 0 /\ Zero(8)[6] = 0 /\ Zero(8)[7] = 0 /\ Zero(8)[8] = 0
  BY <1>1
<1> QED BY <1>1, <1>2 DEF Value

(* Subtracting is adding the complement to the modulus.                    *)
LEMMA DifferenceIsSum ==
  ASSUME NEW a \in Word(8), NEW b \in Word(8)
  PROVE  a ++ (Zero(8) -- b) = a -- b
<1>1. PICK z \in Word(8) : z = Zero(8) -- b
  BY ZeroValue, DifferenceWord
<1>2. PICK p \in Int : Value(z) = 0 - Value(b) + p * Modulus
  BY <1>1, ZeroValue, DifferenceValue
<1>3. PICK q \in Int : Value(a ++ z) = Value(a) + Value(z) + q * Modulus
  BY SumValue
<1>4. PICK r \in Int : Value(a -- b) = Value(a) - Value(b) + r * Modulus
  BY DifferenceValue
<1>5. a ++ z \in Word(8) /\ a -- b \in Word(8)
  BY SumWord, DifferenceWord
<1>6. /\ Value(a) \in Nat /\ Value(b) \in Nat /\ Value(z) \in Nat
      /\ Value(a ++ z) \in Nat /\ Value(a -- b) \in Nat
  BY <1>5, BytesAreNaturals, ValueIsNumber
<1>7. Value(a ++ z) = Value(a -- b) + (p + q - r) * Modulus
  BY <1>2, <1>3, <1>4, <1>6 DEF Modulus
<1> QED BY <1>1, <1>5, <1>7, OneWord

LEMMA SumWithZero ==
  ASSUME NEW a \in Word(8)
  PROVE  a ++ Zero(8) = a
<1>1. PICK q \in Int : Value(a ++ Zero(8)) = Value(a) + 0 + q * Modulus
  BY ZeroValue, SumValue
<1>2. a ++ Zero(8) \in Word(8) /\ Value(a) \in Nat
  BY ZeroValue, SumWord, BytesAreNaturals, ValueIsNumber
<1>3. Value(a ++ Zero(8)) = Value(a) + q * Modulus
  BY <1>1, <1>2
<1> QED BY <1>2, <1>3, OneWord

-----------------------------------------------------------------------------
(***************************************************************************)
(* Exclusive or, shifts and rotations                                      *)
(***************************************************************************)
LEMMA XorByteIsByte ==
  ASSUME NEW x \in Byte, NEW y \in Byte
  PROVE  XorByte(x, y) \in Byte
<1>1. \A u, v \in 0..15 : Nibble[u][v] \in 0..15
  <2>1. TAKE u, v \in 0..15
  <2>2. Nibble[u][v] = Bit(u, v, 0) + Bit(u, v, 1) + Bit(u, v, 2) + Bit(u, v, 3)
    BY DEF Nibble, SumOf4
  <2>3. Bit(u, v, 0) \in 0..1
    BY DEF Bit
  <2>4. Bit(u, v, 1) \in 0..2
    BY DEF Bit
  <2>5. Bit(u, v, 2) \in 0..4
    BY DEF Bit
  <2>6. Bit(u, v, 3) \in 0..8
    BY DEF Bit
  <2>7. \A b0 \in 0..1, b1 \in 0..2, b2 \in 0..4, b3 \in 0..8 : b0 + b1 + b2 + b3 \in 0..15
    OBVIOUS
  <2> QED BY <2>2, <2>3, <2>4, <2>5, <2>6, <2>7
<1>2. x \div 16 \in 0..15 /\ y \div 16 \in 0..15 /\ x % 16 \in 0..15 /\ y % 16 \in 0..15
  BY SMTT(40) DEF Byte
<1>3. \A u, v \in 0..15 : 16 * u + v \in 0..255
  OBVIOUS
<1>4. Nibble[x \div 16][y \div 16] \in 0..15 /\ Nibble[x % 16][y % 16] \in 0..15
  BY <1>1, <1>2
<1> QED BY <1>3, <1>4 DEF XorByte, Looked, Byte

LEMMA XorWord ==
  ASSUME NEW n \in Nat, NEW a \in Word(n), NEW b \in Word(n)
  PROVE  /\ a ^^ b \in Word(n)
         /\ \A i \in 1..n : (a ^^ b)[i] = XorByte(a[i], b[i])
<1>1. Len(a) = n
  BY LenOfFunction DEF Word
<1>2. PICK f : f = [i \in 1..n |-> XorByte(a[i], b[i])]
  OBVIOUS
<1>3. \A i \in 1..n : XorByte(a[i], b[i]) \in Byte
  BY XorByteIsByte DEF Word
<1>4. f \in [1..n -> Byte]
  BY <1>2, <1>3
<1>5. a ^^ b = Tuple(f)
  BY <1>1, <1>2 DEF ^^
<1>6. Tuple(f) = f
  BY <1>4, TupleIsIt
<1> QED BY <1>2, <1>4, <1>5, <1>6 DEF Word

(* The exclusive or of two memories, piece by piece. *)
LEMMA XorOfBytes ==
  ASSUME NEW m \in Nat, NEW a \in Word(m), NEW b \in Word(m), NEW i \in Nat, NEW n \in Nat, i + n <= m
  PROVE  Bytes(a ^^ b, i, n) = Bytes(a, i, n) ^^ Bytes(b, i, n)
<1>1. PICK x \in Word(m) : x = a ^^ b
  BY XorWord
<1>2. Bytes(x, i, n) \in Word(n) /\ \A j \in 1..n : Bytes(x, i, n)[j] = x[i + j]
  BY BytesWord
<1>3. PICK p \in Word(n) : p = Bytes(a, i, n) /\ \A j \in 1..n : p[j] = a[i + j]
  BY BytesWord
<1>4. PICK q \in Word(n) : q = Bytes(b, i, n) /\ \A j \in 1..n : q[j] = b[i + j]
  BY BytesWord
<1>5. p ^^ q \in Word(n) /\ \A j \in 1..n : (p ^^ q)[j] = XorByte(p[j], q[j])
  BY XorWord
<1>6. \A j \in 1..m : x[j] = XorByte(a[j], b[j])
  BY <1>1, XorWord
<1>7. \A j \in 1..n : Bytes(x, i, n)[j] = (p ^^ q)[j]
  BY <1>2, <1>3, <1>4, <1>5, <1>6
<1>8. Bytes(x, i, n) = p ^^ q
  BY <1>2, <1>5, <1>7 DEF Word
<1> QED BY <1>1, <1>3, <1>4, <1>8

LEMMA AtIsNatural ==
  ASSUME NEW n \in Nat, NEW a \in Word(n), NEW i
  PROVE  At(a, i) \in Nat /\ At(a, i) <= 255
<1>1. Len(a) = n
  BY LenOfFunction DEF Word
<1>2. CASE i \in 1..n
  BY <1>1, <1>2, BytesAreNaturals DEF At
<1>3. CASE i \notin 1..n
  BY <1>1, <1>3 DEF At
<1> QED BY <1>2, <1>3

LEMMA PowersOfTwo == \A k \in 0..8 : 2^k \in Nat \ {0}
<1>1. TAKE k \in 0..8
<1>2. k = 0 \/ k = 1 \/ k = 2 \/ k = 3 \/ k = 4 \/ k = 5 \/ k = 6 \/ k = 7 \/ k = 8
  OBVIOUS
<1>3. /\ 2^0 \in Nat \ {0} /\ 2^1 \in Nat \ {0} /\ 2^2 \in Nat \ {0}
      /\ 2^3 \in Nat \ {0} /\ 2^4 \in Nat \ {0} /\ 2^5 \in Nat \ {0}
      /\ 2^6 \in Nat \ {0} /\ 2^7 \in Nat \ {0} /\ 2^8 \in Nat \ {0}
  OBVIOUS
<1> QED BY <1>2, <1>3, Zenon

LEMMA DigitOfShift ==
  ASSUME NEW x \in Nat, NEW y \in Nat, NEW p \in Nat \ {0}, NEW q \in Nat \ {0}
  PROVE  (x * p + (y \div q)) % 256 \in Byte
<1>1. x * p \in Nat
  OBVIOUS
<1>2. y \div q \in Nat
  OBVIOUS
<1>3. PICK d \in Nat : d = x * p + (y \div q)
  BY <1>1, <1>2
<1> QED BY <1>3, DivideBy256

ShlDigit(a, r, i) == (At(a, i - (r \div 8)) * 2^(r % 8)
                      + (At(a, i - 1 - (r \div 8)) \div 2^(8 - (r % 8)))) % 256

LEMMA ShlWord ==
  ASSUME NEW n \in Nat, NEW a \in Word(n), NEW r \in Nat
  PROVE  Shl(a, r) \in Word(n) /\ \A i \in 1..n : Shl(a, r)[i] = ShlDigit(a, r, i)
<1>1. Len(a) = n
  BY LenOfFunction DEF Word
<1>2. PICK f : f = [i \in 1..n |-> (At(a, i - (r \div 8)) * 2^(r % 8)
                                  + (At(a, i - 1 - (r \div 8)) \div 2^(8 - (r % 8)))) % 256]
  OBVIOUS
<1>3. r % 8 \in 0..8 /\ 8 - (r % 8) \in 0..8
  OBVIOUS
<1>4. 2^(r % 8) \in Nat \ {0} /\ 2^(8 - (r % 8)) \in Nat \ {0}
  BY <1>3, PowersOfTwo
<1>5. ASSUME NEW i \in 1..n PROVE f[i] \in Byte
  <2>1. At(a, i - (r \div 8)) \in Nat /\ At(a, i - 1 - (r \div 8)) \in Nat
    BY AtIsNatural
  <2> QED BY <1>2, <1>4, <2>1, DigitOfShift, ZenonT(40)
<1>6. f \in [1..n -> Byte]
  BY <1>2, <1>5
<1>7. Shl(a, r) = Tuple(f)
  BY <1>1, <1>2 DEF Shl
<1>8. Tuple(f) = f
  BY <1>6, TupleIsIt
<1> QED BY <1>2, <1>6, <1>7, <1>8, ZenonT(40) DEF Word, ShlDigit

LEMMA ShrWord ==
  ASSUME NEW n \in Nat, NEW a \in Word(n), NEW r \in Nat
  PROVE  Shr(a, r) \in Word(n)
<1>1. Len(a) = n
  BY LenOfFunction DEF Word
<1>2. PICK f : f = [i \in 1..n |-> (At(a, i + (r \div 8)) \div 2^(r % 8)
                                  + At(a, i + 1 + (r \div 8)) * 2^(8 - (r % 8))) % 256]
  OBVIOUS
<1>3. r % 8 \in 0..8 /\ 8 - (r % 8) \in 0..8
  OBVIOUS
<1>4. 2^(r % 8) \in Nat \ {0} /\ 2^(8 - (r % 8)) \in Nat \ {0}
  BY <1>3, PowersOfTwo
<1>5. ASSUME NEW i \in 1..n PROVE f[i] \in Byte
  <2>1. At(a, i + (r \div 8)) \in Nat /\ At(a, i + 1 + (r \div 8)) \in Nat
    BY AtIsNatural
  <2>2. PICK x \in Nat, y \in Nat : x = At(a, i + 1 + (r \div 8)) /\ y = At(a, i + (r \div 8))
    BY <2>1
  <2>3. PICK p \in Nat \ {0}, q \in Nat \ {0} : p = 2^(8 - (r % 8)) /\ q = 2^(r % 8)
    BY <1>4
  <2>4. f[i] = ((y \div q) + x * p) % 256
    BY <1>2, <2>2, <2>3
  <2>5. PICK u \in Nat, v \in Nat : u = y \div q /\ v = x * p
    <3>1. y \div q \in Nat /\ x * p \in Nat
      OBVIOUS
    <3> QED BY <3>1
  <2>6. u + v = v + u
    OBVIOUS
  <2>7. (v + u) % 256 \in Byte
    BY <2>5, DigitOfShift, ZenonT(40)
  <2> QED BY <2>4, <2>5, <2>6, <2>7, ZenonT(40)
<1>6. f \in [1..n -> Byte]
  BY <1>2, <1>5
<1>7. Shr(a, r) = Tuple(f)
  BY <1>1, <1>2 DEF Shr
<1>8. Tuple(f) = f
  BY <1>6, TupleIsIt
<1> QED BY <1>6, <1>7, <1>8 DEF Word

LEMMA XorShiftWord ==
  ASSUME NEW n \in Nat, NEW a \in Word(n), NEW r \in Nat
  PROVE  XorShift(a, r) \in Word(n)
BY ShrWord, XorWord DEF XorShift

LEMMA RotlWord ==
  ASSUME NEW n \in Nat, NEW a \in Word(n), NEW r \in Nat, r < 8 * n
  PROVE  Rotl(a, r) \in Word(n)
<1>1. Len(a) = n
  BY LenOfFunction DEF Word
<1>2. PICK q \in 0..(n - 1) : q = r \div 8
  OBVIOUS
<1>3. Bytes(a, n - q, q) \in Word(q) /\ Bytes(a, 0, n - q) \in Word(n - q)
  <2>1. n - q \in Nat /\ (n - q) + q <= n /\ 0 + (n - q) <= n
    OBVIOUS
  <2> QED BY <2>1, BytesWord
<1>4. Bytes(a, n - q, q) \o Bytes(a, 0, n - q) \in Word(n)
  <2>1. n - q \in Nat /\ q + (n - q) = n
    OBVIOUS
  <2> QED BY <1>3, <2>1, ConcatWords
<1>5. Shl(Bytes(a, n - q, q) \o Bytes(a, 0, n - q), r % 8) \in Word(n)
  <2>1. r % 8 \in Nat
    OBVIOUS
  <2> QED BY <1>4, <2>1, ShlWord
<1>6. PICK y \in Byte : y = Bytes(a, n - q - 1, 1)[1]
  <2>1. n - q - 1 \in Nat /\ (n - q - 1) + 1 <= n
    OBVIOUS
  <2>2. Bytes(a, n - q - 1, 1) \in Word(1)
    BY <2>1, BytesWord
  <2> QED BY <2>2 DEF Word
<1>7. PICK d \in Byte : d = y \div 2^(8 - (r % 8))
  <2>1. 8 - (r % 8) \in 0..8
    OBVIOUS
  <2>2. PICK p \in Nat \ {0} : p = 2^(8 - (r % 8))
    BY <2>1, PowersOfTwo
  <2>3. y \div p \in 0..255
    BY DEF Byte
  <2> QED BY <2>2, <2>3 DEF Byte
<1>8. Extend(<<d>>, n) \in Word(n)
  <2>1. <<d>> \in Word(1)
    BY DEF Word
  <2> QED BY <2>1, ExtendWord
<1>9. Rotl(a, r) = Shl(Bytes(a, n - q, q) \o Bytes(a, 0, n - q), r % 8) ++ Extend(<<d>>, n)
  BY <1>1, <1>2, <1>6, <1>7 DEF Rotl
<1> QED BY <1>5, <1>8, <1>9, SumWord

-----------------------------------------------------------------------------
(***************************************************************************)
(* Products                                                                *)
(***************************************************************************)
Columns(a, b, n) == [k \in 1..n |-> Column(a, b, k)]

LEMMA ColumnTerms ==
  ASSUME NEW a, NEW b, NEW k \in Int
  PROVE  Column(a, b, k) = At(a, 1) * At(b, k) + At(a, 2) * At(b, k - 1) + At(a, 3) * At(b, k - 2)
                           + At(a, 4) * At(b, k - 3) + At(a, 5) * At(b, k - 4)
                           + At(a, 6) * At(b, k - 5) + At(a, 7) * At(b, k - 6)
                           + At(a, 8) * At(b, k - 7)
<1> DEFINE p == [i \in 1..8 |-> At(a, i) * At(b, k + 1 - i)]
<1>1. k + 1 - 1 = k /\ k + 1 - 2 = k - 1 /\ k + 1 - 3 = k - 2 /\ k + 1 - 4 = k - 3
  OBVIOUS
<1>2. k + 1 - 5 = k - 4 /\ k + 1 - 6 = k - 5 /\ k + 1 - 7 = k - 6 /\ k + 1 - 8 = k - 7
  OBVIOUS
<1>3. /\ p[1] = At(a, 1) * At(b, k) /\ p[2] = At(a, 2) * At(b, k - 1)
      /\ p[3] = At(a, 3) * At(b, k - 2) /\ p[4] = At(a, 4) * At(b, k - 3)
      /\ p[5] = At(a, 5) * At(b, k - 4) /\ p[6] = At(a, 6) * At(b, k - 5)
      /\ p[7] = At(a, 7) * At(b, k - 6) /\ p[8] = At(a, 8) * At(b, k - 7)
  BY <1>1, <1>2
<1>4. Column(a, b, k) = p[1] + p[2] + p[3] + p[4] + p[5] + p[6] + p[7] + p[8]
  BY DEF Column, SumOf8
<1> HIDE DEF p
<1> QED BY <1>3, <1>4

LEMMA ColumnIsNatural ==
  ASSUME NEW m \in Nat, NEW n \in Nat, NEW a \in Word(m), NEW b \in Word(n), NEW k \in Int
  PROVE  Column(a, b, k) \in Nat
<1>1. \A i, j : At(a, i) \in Nat /\ At(b, j) \in Nat
  BY AtIsNatural
<1>2. \A x, y \in Nat : x * y \in Nat
  OBVIOUS
<1>3. \A i, j : At(a, i) * At(b, j) \in Nat
  BY <1>1, <1>2
<1>4. PICK T \in [1..8 -> Nat] : T = [i \in 1..8 |-> At(a, i) * At(b, k + 1 - i)]
  BY <1>3
<1>5. /\ T[1] = At(a, 1) * At(b, k) /\ T[2] = At(a, 2) * At(b, k - 1)
      /\ T[3] = At(a, 3) * At(b, k - 2) /\ T[4] = At(a, 4) * At(b, k - 3)
      /\ T[5] = At(a, 5) * At(b, k - 4) /\ T[6] = At(a, 6) * At(b, k - 5)
      /\ T[7] = At(a, 7) * At(b, k - 6) /\ T[8] = At(a, 8) * At(b, k - 7)
  <2>1. k + 1 - 1 = k /\ k + 1 - 2 = k - 1 /\ k + 1 - 3 = k - 2 /\ k + 1 - 4 = k - 3
    OBVIOUS
  <2>2. k + 1 - 5 = k - 4 /\ k + 1 - 6 = k - 5 /\ k + 1 - 7 = k - 6 /\ k + 1 - 8 = k - 7
    OBVIOUS
  <2> QED BY <1>4, <2>1, <2>2
<1>6. Column(a, b, k) = T[1] + T[2] + T[3] + T[4] + T[5] + T[6] + T[7] + T[8]
  BY <1>5, ColumnTerms
<1> QED BY <1>6

LEMMA ProductWord ==
  ASSUME NEW m \in Nat, NEW k \in Nat, NEW n \in Nat, NEW a \in Word(m), NEW b \in Word(k)
  PROVE  /\ Product(a, b, n) \in Word(n)
         /\ Product(a, b, n) = Carried(0, Columns(a, b, n))
         /\ Columns(a, b, n) \in Vec(n, Nat)
<1>1. Columns(a, b, n) \in [1..n -> Nat]
  <2>1. \A i \in 1..n : Column(a, b, i) \in Nat
    BY ColumnIsNatural
  <2> QED BY <2>1 DEF Columns
<1>2. Product(a, b, n) = Carried(0, Columns(a, b, n))
  BY DEF Product, Columns
<1>3. Carried(0, Columns(a, b, n)) \in Word(n)
  BY <1>1, CarriedWord
<1> QED BY <1>1, <1>2, <1>3 DEF Vec

LEMMA TimesWord ==
  ASSUME NEW m \in Nat, NEW n \in Nat, NEW a \in Word(n), NEW b \in Word(m)
  PROVE  a ** b \in Word(n) /\ a ** b = Product(a, b, n)
<1>1. Len(a) = n
  BY LenOfFunction DEF Word
<1> QED BY <1>1, ProductWord DEF **

(* Each column of a product of 64 by 32 bits adds a column of the lower    *)
(* half's product and one of the upper half's, which is four places behind.*)
LEMMA SplitColumn ==
  ASSUME NEW a \in Word(8), NEW b \in Word(4), NEW k \in Int
  PROVE  Column(a, Extend(b, 8), k) = Column(Low(a), b, k) + Column(High(a), b, k - 4)
<1>1. Len(a) = 8 /\ Len(b) = 4
  BY LenOfFunction DEF Word
<1>2. PICK e \in Word(8) : e = Extend(b, 8) /\ \A i \in 1..8 : e[i] = IF i <= 4 THEN b[i] ELSE 0
  BY ExtendWord
<1>3. PICK l \in Word(4), h \in Word(4) :
        l = Low(a) /\ h = High(a) /\ \A i \in 1..4 : l[i] = a[i] /\ h[i] = a[i + 4]
  BY HalvesOfWord
<1>4. Len(e) = 8 /\ Len(l) = 4 /\ Len(h) = 4
  BY LenOfFunction DEF Word
<1>5. \A j \in Int : At(e, j) = At(b, j)
  BY <1>1, <1>2, <1>4 DEF At
<1>6. /\ At(l, 1) = At(a, 1) /\ At(l, 2) = At(a, 2) /\ At(l, 3) = At(a, 3) /\ At(l, 4) = At(a, 4)
      /\ At(l, 5) = 0 /\ At(l, 6) = 0 /\ At(l, 7) = 0 /\ At(l, 8) = 0
  BY <1>1, <1>3, <1>4 DEF At
<1>7. /\ At(h, 1) = At(a, 5) /\ At(h, 2) = At(a, 6) /\ At(h, 3) = At(a, 7) /\ At(h, 4) = At(a, 8)
      /\ At(h, 5) = 0 /\ At(h, 6) = 0 /\ At(h, 7) = 0 /\ At(h, 8) = 0
  BY <1>1, <1>3, <1>4 DEF At
<1>8. \A j : At(b, j) \in Nat
  BY AtIsNatural
<1>9. \A j : At(a, j) \in Nat
  BY AtIsNatural
<1>10. PICK T \in [1..8 -> Nat] :
         /\ T[1] = At(a, 1) * At(b, k) /\ T[2] = At(a, 2) * At(b, k - 1)
         /\ T[3] = At(a, 3) * At(b, k - 2) /\ T[4] = At(a, 4) * At(b, k - 3)
         /\ T[5] = At(a, 5) * At(b, k - 4) /\ T[6] = At(a, 6) * At(b, k - 5)
         /\ T[7] = At(a, 7) * At(b, k - 6) /\ T[8] = At(a, 8) * At(b, k - 7)
  <2> DEFINE U == [i \in 1..8 |-> At(a, i) * At(b, k + 1 - i)]
  <2>1. \A x, y \in Nat : x * y \in Nat
    OBVIOUS
  <2>2. U \in [1..8 -> Nat]
    BY <1>8, <1>9, <2>1
  <2>3. /\ U[1] = At(a, 1) * At(b, k) /\ U[2] = At(a, 2) * At(b, k - 1)
        /\ U[3] = At(a, 3) * At(b, k - 2) /\ U[4] = At(a, 4) * At(b, k - 3)
        /\ U[5] = At(a, 5) * At(b, k - 4) /\ U[6] = At(a, 6) * At(b, k - 5)
        /\ U[7] = At(a, 7) * At(b, k - 6) /\ U[8] = At(a, 8) * At(b, k - 7)
    <3>1. k + 1 - 1 = k /\ k + 1 - 2 = k - 1 /\ k + 1 - 3 = k - 2 /\ k + 1 - 4 = k - 3
      OBVIOUS
    <3>2. k + 1 - 5 = k - 4 /\ k + 1 - 6 = k - 5 /\ k + 1 - 7 = k - 6 /\ k + 1 - 8 = k - 7
      OBVIOUS
    <3> QED BY <3>1, <3>2
  <2> QED BY <2>2, <2>3
<1>11. Column(a, e, k) = T[1] + T[2] + T[3] + T[4] + T[5] + T[6] + T[7] + T[8]
  BY <1>5, <1>10, ColumnTerms
<1>12. \A y \in Nat : 0 * y = 0
  OBVIOUS
<1>13. Column(l, b, k) = T[1] + T[2] + T[3] + T[4]
  <2>1. Column(l, b, k) = T[1] + T[2] + T[3] + T[4] + 0 + 0 + 0 + 0
    BY <1>6, <1>8, <1>10, <1>12, ColumnTerms
  <2> QED BY <2>1
<1>14. Column(h, b, k - 4) = T[5] + T[6] + T[7] + T[8]
  <2>1. k - 4 - 1 = k - 5 /\ k - 4 - 2 = k - 6 /\ k - 4 - 3 = k - 7
    OBVIOUS
  <2>2. Column(h, b, k - 4) = T[5] + T[6] + T[7] + T[8] + 0 + 0 + 0 + 0
    BY <1>7, <1>8, <1>10, <1>12, <2>1, ColumnTerms
  <2> QED BY <2>2
<1>15. Column(a, e, k) = Column(l, b, k) + Column(h, b, k - 4)
  BY <1>11, <1>13, <1>14
<1> QED BY <1>2, <1>3, <1>15

LEMMA ColumnOfNothing ==
  ASSUME NEW a \in Word(4), NEW b \in Word(4), NEW k \in Int, k <= 0
  PROVE  Column(a, b, k) = 0
<1>1. Len(b) = 4
  BY LenOfFunction DEF Word
<1>2. /\ At(b, k) = 0 /\ At(b, k - 1) = 0 /\ At(b, k - 2) = 0 /\ At(b, k - 3) = 0
      /\ At(b, k - 4) = 0 /\ At(b, k - 5) = 0 /\ At(b, k - 6) = 0 /\ At(b, k - 7) = 0
  BY <1>1 DEF At
<1>3. \A j : At(a, j) * 0 = 0
  <2>1. \A x \in Nat : x * 0 = 0
    OBVIOUS
  <2>2. \A j : At(a, j) \in Nat
    BY AtIsNatural
  <2> QED BY <2>1, <2>2
<1>4. Column(a, b, k) = 0 + 0 + 0 + 0 + 0 + 0 + 0 + 0
  BY <1>2, <1>3, ColumnTerms
<1> QED BY <1>4

(* Shifting by whole bytes moves them.                                     *)
LEMMA ShiftBy32 ==
  ASSUME NEW a \in Word(8)
  PROVE  Shl(a, 32) \in Word(8) /\ \A i \in 1..8 : Shl(a, 32)[i] = IF i <= 4 THEN 0 ELSE a[i - 4]
<1>1. PICK r \in Nat : r = 32 /\ r \div 8 = 4 /\ r % 8 = 0
  OBVIOUS
<1>2. 2^0 = 1 /\ 2^8 = 256 /\ 8 - 0 = 8
  OBVIOUS
<1>3. /\ Shl(a, 32) \in Word(8)
      /\ \A i \in 1..8 : Shl(a, 32)[i] = (At(a, i - 4) * 1 + (At(a, i - 1 - 4) \div 256)) % 256
  <2>1. Shl(a, r) \in Word(8)
    BY ShlWord
  <2>2. \A i \in 1..8 : Shl(a, r)[i] = ShlDigit(a, r, i)
    BY ShlWord
  <2> QED BY <1>1, <1>2, <2>1, <2>2 DEF ShlDigit
<1>4. ASSUME NEW i \in 1..8 PROVE Shl(a, 32)[i] = At(a, i - 4)
  <2>1. PICK x \in 0..255 : x = At(a, i - 4)
    BY AtIsNatural
  <2>2. PICK y \in 0..255 : y = At(a, i - 1 - 4)
    BY AtIsNatural
  <2>3. (x * 1 + (y \div 256)) % 256 = x
    OBVIOUS
  <2> QED BY <1>3, <2>1, <2>2, <2>3
<1>5. \A i \in 1..8 : At(a, i - 4) = IF i <= 4 THEN 0 ELSE a[i - 4]
  <2>1. Len(a) = 8
    BY LenOfFunction DEF Word
  <2> QED BY <2>1 DEF At
<1> QED BY <1>3, <1>4, <1>5

(* 64 by 32 bits: the upper half's product, shifted by 32, is added.       *)
LEMMA SplitProduct ==
  ASSUME NEW a \in Word(8), NEW b \in Word(4)
  PROVE  Product(a, Extend(b, 8), 8) = Product(Low(a), b, 8) ++ Shl(Product(High(a), b, 8), 32)
<1>0. 4 \in Nat /\ 8 \in Nat
  OBVIOUS
<1>1. PICK l \in Word(4), h \in Word(4) : l = Low(a) /\ h = High(a)
  BY HalvesOfWord
<1>2. PICK e \in Word(8) : e = Extend(b, 8)
  BY ExtendWord
<1>3. PICK S : S = Columns(a, e, 8)
  OBVIOUS
<1>4. PICK L : L = Columns(l, b, 8)
  OBVIOUS
<1>5. PICK H : H = Columns(h, b, 8)
  OBVIOUS
<1>6. /\ Product(a, e, 8) \in Word(8) /\ Product(a, e, 8) = Carried(0, S) /\ S \in [1..8 -> Nat]
  <2>1. Product(a, e, 8) \in Word(8)
    BY ProductWord
  <2>2. Product(a, e, 8) = Carried(0, Columns(a, e, 8))
    BY ProductWord
  <2>3. Columns(a, e, 8) \in Vec(8, Nat)
    BY ProductWord
  <2> QED BY <1>3, <2>1, <2>2, <2>3 DEF Vec
<1>7. /\ Product(l, b, 8) \in Word(8) /\ Product(l, b, 8) = Carried(0, L) /\ L \in [1..8 -> Nat]
  <2>1. Product(l, b, 8) \in Word(8)
    BY ProductWord
  <2>2. Product(l, b, 8) = Carried(0, Columns(l, b, 8))
    BY ProductWord
  <2>3. Columns(l, b, 8) \in Vec(8, Nat)
    BY ProductWord
  <2> QED BY <1>4, <2>1, <2>2, <2>3 DEF Vec
<1>8. /\ Product(h, b, 8) \in Word(8) /\ Product(h, b, 8) = Carried(0, H) /\ H \in [1..8 -> Nat]
  <2>1. Product(h, b, 8) \in Word(8)
    BY ProductWord
  <2>2. Product(h, b, 8) = Carried(0, Columns(h, b, 8))
    BY ProductWord
  <2>3. Columns(h, b, 8) \in Vec(8, Nat)
    BY ProductWord
  <2> QED BY <1>5, <2>1, <2>2, <2>3 DEF Vec
<1>9. PICK p \in Word(8) : p = Product(a, e, 8)
  BY <1>6
<1>10. PICK x \in Word(8) : x = Product(l, b, 8)
  BY <1>7
<1>11. PICK y \in Word(8) : y = Product(h, b, 8)
  BY <1>8
<1>12. PICK z \in Word(8) : z = Shl(y, 32) /\ \A i \in 1..8 : z[i] = IF i <= 4 THEN 0 ELSE y[i - 4]
  BY <1>11, ShiftBy32
<1>13. \A k \in 1..4 : S[k] = L[k]
  <2>1. TAKE k \in 1..4
  <2>2. Column(a, e, k) = Column(l, b, k) + Column(h, b, k - 4)
    BY <1>1, <1>2, SplitColumn
  <2>3. Column(h, b, k - 4) = 0
    BY ColumnOfNothing
  <2>4. Column(l, b, k) \in Nat
    <3>1. k \in Int
      OBVIOUS
    <3> QED BY <3>1, ColumnIsNatural
  <2> QED BY <1>3, <1>4, <2>2, <2>3, <2>4 DEF Columns
<1>14. \A k \in 5..8 : S[k] = L[k] + H[k - 4]
  <2>1. TAKE k \in 5..8
  <2>2. Column(a, e, k) = Column(l, b, k) + Column(h, b, k - 4)
    BY <1>1, <1>2, SplitColumn
  <2> QED BY <1>3, <1>4, <1>5, <2>2 DEF Columns
<1>15. Value(S) = Value(L) + 4294967296 * (H[1] + 256 * (H[2] + 256 * (H[3] + 256 * H[4])))
  <2>1. (\A i \in 1..8 : L[i] \in Nat) /\ (\A i \in 1..8 : H[i] \in Nat)
    BY <1>7, <1>8
  <2>2. PICK l1 \in Nat, l2 \in Nat, l3 \in Nat, l4 \in Nat, l5 \in Nat, l6 \in Nat, l7 \in Nat, l8 \in Nat :
          Digits8(L, l1, l2, l3, l4, l5, l6, l7, l8)
    BY <2>1, HasDigits
  <2>3. PICK h1 \in Nat, h2 \in Nat, h3 \in Nat, h4 \in Nat, h5 \in Nat, h6 \in Nat, h7 \in Nat, h8 \in Nat :
          Digits8(H, h1, h2, h3, h4, h5, h6, h7, h8)
    BY <2>1, HasDigits
  <2>4. /\ S[1] = l1 /\ S[2] = l2 /\ S[3] = l3 /\ S[4] = l4
        /\ S[5] = l5 + h1 /\ S[6] = l6 + h2 /\ S[7] = l7 + h3 /\ S[8] = l8 + h4
    BY <1>13, <1>14, <2>2, <2>3 DEF Digits8
  <2>5. Value(S) = l1 + 256 * (l2 + 256 * (l3 + 256 * (l4 + 256 * ((l5 + h1) + 256 * ((l6 + h2)
                   + 256 * ((l7 + h3) + 256 * (l8 + h4)))))))
    BY <2>4 DEF Value
  <2>6. Value(L) = l1 + 256 * (l2 + 256 * (l3 + 256 * (l4 + 256 * (l5 + 256 * (l6 + 256 * (l7 + 256 * l8))))))
    BY <2>2 DEF Value, Digits8
  <2>7. Value(S) = Value(L) + 4294967296 * (h1 + 256 * (h2 + 256 * (h3 + 256 * h4)))
    BY <2>5, <2>6
  <2> QED BY <2>3, <2>7 DEF Digits8
<1>16. \E q \in Int : 4294967296 * (H[1] + 256 * (H[2] + 256 * (H[3] + 256 * H[4]))) = Value(z) + q * Modulus
  <2>1. PICK h1 \in Nat, h2 \in Nat, h3 \in Nat, h4 \in Nat, h5 \in Nat, h6 \in Nat, h7 \in Nat, h8 \in Nat :
          Digits8(H, h1, h2, h3, h4, h5, h6, h7, h8)
    <3>1. \A i \in 1..8 : H[i] \in Nat
      BY <1>8
    <3> QED BY <3>1, HasDigits
  <2>2. PICK y1 \in Nat, y2 \in Nat, y3 \in Nat, y4 \in Nat, y5 \in Nat, y6 \in Nat, y7 \in Nat, y8 \in Nat :
          Digits8(y, y1, y2, y3, y4, y5, y6, y7, y8)
    <3>1. \A i \in 1..8 : y[i] \in Nat
      BY BytesAreNaturals
    <3> QED BY <3>1, HasDigits
  <2>3. PICK q \in Nat : Value(H) + 0 = Value(y) + q * Modulus
    <3>1. 0 \in Nat
      OBVIOUS
    <3> QED BY <1>8, <1>11, <3>1, CarriedValue
  <2>4. h1 + 256 * (h2 + 256 * (h3 + 256 * (h4 + 256 * (h5 + 256 * (h6 + 256 * (h7 + 256 * h8))))))
        = y1 + 256 * (y2 + 256 * (y3 + 256 * (y4 + 256 * (y5 + 256 * (y6 + 256 * (y7 + 256 * y8))))))
          + q * 18446744073709551616
    <3>1. Value(H) = h1 + 256 * (h2 + 256 * (h3 + 256 * (h4 + 256 * (h5 + 256 * (h6 + 256 * (h7 + 256 * h8))))))
      BY <2>1 DEF Value, Digits8
    <3>2. Value(y) = y1 + 256 * (y2 + 256 * (y3 + 256 * (y4 + 256 * (y5 + 256 * (y6 + 256 * (y7 + 256 * y8))))))
      BY <2>2 DEF Value, Digits8
    <3> QED BY <2>3, <3>1, <3>2 DEF Modulus
  <2>5. Value(z) = 4294967296 * (y1 + 256 * (y2 + 256 * (y3 + 256 * y4)))
    <3>1. /\ z[1] = 0 /\ z[2] = 0 /\ z[3] = 0 /\ z[4] = 0
          /\ z[5] = y1 /\ z[6] = y2 /\ z[7] = y3 /\ z[8] = y4
      BY <1>12, <2>2 DEF Digits8
    <3> QED BY <3>1 DEF Value
  <2>6. PICK u \in Int : u = (y5 + 256 * (y6 + 256 * (y7 + 256 * y8)) + q * 4294967296)
                            - (h5 + 256 * (h6 + 256 * (h7 + 256 * h8)))
    OBVIOUS
  <2>7. 4294967296 * (h1 + 256 * (h2 + 256 * (h3 + 256 * h4))) = Value(z) + u * 18446744073709551616
    BY <2>4, <2>5, <2>6
  <2> QED BY <2>1, <2>7 DEF Digits8, Modulus
<1>17. PICK q1 \in Int : 4294967296 * (H[1] + 256 * (H[2] + 256 * (H[3] + 256 * H[4]))) = Value(z) + q1 * Modulus
  BY <1>16
<1>18. PICK q2 \in Nat : Value(S) + 0 = Value(p) + q2 * Modulus
  <2>1. 0 \in Nat
    OBVIOUS
  <2> QED BY <1>6, <1>9, <2>1, CarriedValue
<1>19. PICK q3 \in Nat : Value(L) + 0 = Value(x) + q3 * Modulus
  <2>1. 0 \in Nat
    OBVIOUS
  <2> QED BY <1>7, <1>10, <2>1, CarriedValue
<1>20. PICK s \in Word(8) : s = x ++ z
  BY SumWord
<1>21. PICK q4 \in Int : Value(s) = Value(x) + Value(z) + q4 * Modulus
  BY <1>20, SumValue
<1>22. PICK vs \in Int, vl \in Int, vp \in Int, vx \in Int, vz \in Int, v \in Int :
         vs = Value(S) /\ vl = Value(L) /\ vp = Value(p) /\ vx = Value(x) /\ vz = Value(z) /\ v = Value(s)
  <2>1. \A w \in Word(8) : Value(w) \in Int
    <3>1. TAKE w \in Word(8)
    <3>2. w \in [1..8 -> Nat]
      BY <1>0, BytesAreNaturals
    <3> QED BY <3>2, ValueIsNumber
  <2>2. Value(S) \in Int /\ Value(L) \in Int
    BY <1>6, <1>7, ValueIsNumber
  <2> QED BY <2>1, <2>2
<1>23. vp = v + ((q3 + q1) - (q2 + q4)) * 18446744073709551616
  <2>1. vs = vl + (vz + q1 * 18446744073709551616)
    BY <1>15, <1>17, <1>22 DEF Modulus
  <2>2. vs = vp + q2 * 18446744073709551616 /\ vl = vx + q3 * 18446744073709551616
    BY <1>18, <1>19, <1>22 DEF Modulus
  <2>3. v = vx + vz + q4 * 18446744073709551616
    BY <1>21, <1>22 DEF Modulus
  <2> QED BY <2>1, <2>2, <2>3
<1>24. p = s
  <2>1. PICK q \in Int : q = (q3 + q1) - (q2 + q4)
    OBVIOUS
  <2>2. Value(p) = Value(s) + q * Modulus
    BY <1>22, <1>23, <2>1 DEF Modulus
  <2> QED BY <2>2, OneWord
<1> QED BY <1>1, <1>2, <1>9, <1>10, <1>11, <1>12, <1>20, <1>24

-----------------------------------------------------------------------------
(***************************************************************************)
(* The elements of a register, and of memory                               *)
(***************************************************************************)
\* 64-bit element i of a register or of memory
Lane(p, i) == XXH_readLE64(p, 8 * (i - 1))

LEMMA SameWord ==
  ASSUME NEW n \in Nat, NEW a \in Word(n), NEW b \in Word(n), \A i \in 1..n : a[i] = b[i]
  PROVE  a = b
BY DEF Word

LEMMA LaneWord ==
  ASSUME NEW n \in Nat, NEW p \in Word(n), NEW i \in Nat \ {0}, 8 * i <= n
  PROVE  Lane(p, i) \in Word(8) /\ \A j \in 1..8 : Lane(p, i)[j] = p[8 * (i - 1) + j]
<1>1. PICK o \in Nat : o = 8 * (i - 1) /\ o + 8 <= n
  OBVIOUS
<1>2. Bytes(p, o, 8) \in Word(8)
  BY <1>1, BytesWord
<1>3. \A j \in 1..8 : Bytes(p, o, 8)[j] = p[o + j]
  BY <1>1, BytesWord
<1> QED BY <1>1, <1>2, <1>3 DEF Lane, XXH_readLE64

LEMMA LaneOfBytes ==
  ASSUME NEW n \in Nat, NEW p \in Word(n), NEW m \in Nat, NEW k \in Nat, NEW i \in Nat \ {0},
         NEW o \in Nat, o = 8 * (k - i), o + m <= n, 8 * i <= m
  PROVE  Lane(Bytes(p, o, m), i) = Lane(p, k)
<1>1. Bytes(p, o, m) \in Word(m)
  BY BytesWord
<1>2. \A j \in 1..m : Bytes(p, o, m)[j] = p[o + j]
  BY BytesWord
<1>3. PICK r \in Word(m) : r = Bytes(p, o, m)
  BY <1>1
<1>4. Lane(r, i) \in Word(8) /\ \A j \in 1..8 : Lane(r, i)[j] = r[8 * (i - 1) + j]
  BY LaneWord
<1>5. k \in Nat \ {0} /\ 8 * k <= n
  OBVIOUS
<1>6. Lane(p, k) \in Word(8) /\ \A j \in 1..8 : Lane(p, k)[j] = p[8 * (k - 1) + j]
  BY <1>5, LaneWord
<1>7. ASSUME NEW j \in 1..8 PROVE Lane(r, i)[j] = Lane(p, k)[j]
  <2>1. PICK x \in 1..m : x = 8 * (i - 1) + j /\ o + x = 8 * (k - 1) + j
    OBVIOUS
  <2> QED BY <1>2, <1>3, <1>4, <1>6, <2>1
<1>8. Lane(r, i) = Lane(p, k)
  BY <1>4, <1>6, <1>7, SameWord
<1> QED BY <1>3, <1>8

-----------------------------------------------------------------------------
(***************************************************************************)
(* Words in memory and back                                                *)
(***************************************************************************)
Widths == {8, 16, 32, 64}

\* Byte x of memory is byte j of its word i, of w bytes.
ByteOf(w, x, i, j) == x = w * (i - 1) + j /\ ((x - 1) \div w) + 1 = i /\ ((x - 1) % w) + 1 = j

LEMMA PlaceInWord ==
  ASSUME NEW w \in Widths, NEW n \in Nat
  PROVE  /\ n * w \in Nat
         /\ \A i \in 1..(n * w) : ((i - 1) \div w) + 1 \in 1..n /\ ((i - 1) % w) + 1 \in 1..w
         /\ \A i \in 1..n : \A j \in 1..w : \E x \in 1..(n * w) : ByteOf(w, x, i, j)
<1>1. CASE w = 8
  <2>1. /\ n * w \in Nat
        /\ \A i \in 1..(n * w) : ((i - 1) \div w) + 1 \in 1..n /\ ((i - 1) % w) + 1 \in 1..w
    BY <1>1
  <2>2. \A i \in 1..n : \A j \in 1..w : w * (i - 1) + j \in 1..(n * w) /\ ByteOf(w, w * (i - 1) + j, i, j)
    BY <1>1 DEF ByteOf
  <2> QED BY <2>1, <2>2
<1>2. CASE w = 16
  <2>1. /\ n * w \in Nat
        /\ \A i \in 1..(n * w) : ((i - 1) \div w) + 1 \in 1..n /\ ((i - 1) % w) + 1 \in 1..w
    BY <1>2
  <2>2. \A i \in 1..n : \A j \in 1..w : w * (i - 1) + j \in 1..(n * w) /\ ByteOf(w, w * (i - 1) + j, i, j)
    BY <1>2 DEF ByteOf
  <2> QED BY <2>1, <2>2
<1>3. CASE w = 32
  <2>1. /\ n * w \in Nat
        /\ \A i \in 1..(n * w) : ((i - 1) \div w) + 1 \in 1..n /\ ((i - 1) % w) + 1 \in 1..w
    BY <1>3
  <2>2. \A i \in 1..n : \A j \in 1..w : w * (i - 1) + j \in 1..(n * w) /\ ByteOf(w, w * (i - 1) + j, i, j)
    BY <1>3 DEF ByteOf
  <2> QED BY <2>1, <2>2
<1>4. CASE w = 64
  <2>1. /\ n * w \in Nat
        /\ \A i \in 1..(n * w) : ((i - 1) \div w) + 1 \in 1..n /\ ((i - 1) % w) + 1 \in 1..w
    BY <1>4
  <2>2. \A i \in 1..n : \A j \in 1..w : w * (i - 1) + j \in 1..(n * w) /\ ByteOf(w, w * (i - 1) + j, i, j)
    BY <1>4 DEF ByteOf
  <2> QED BY <2>1, <2>2
<1> QED BY <1>1, <1>2, <1>3, <1>4 DEF Widths

LEMMA MemoryWord ==
  ASSUME NEW w \in Widths, NEW n \in Nat \ {0}, NEW v \in Vec(n, Word(w))
  PROVE  /\ Memory(v) \in Word(n * w)
         /\ \A i \in 1..n : \A j \in 1..w : Memory(v)[w * (i - 1) + j] = v[i][j]
<1>1. \A i \in 1..n : v[i] \in Word(w)
  BY DEF Vec
<1>2. Len(v) = n
  BY LenOfFunction DEF Vec
<1>3. w \in Nat
  BY DEF Widths
<1>4. Len(v[1]) = w
  <2>1. 1 \in 1..n
    OBVIOUS
  <2> QED BY <1>1, <1>3, <2>1, LenOfFunction DEF Word
<1>5. PICK f : f = [i \in 1..(n * w) |-> v[((i - 1) \div w) + 1][((i - 1) % w) + 1]]
  OBVIOUS
<1>6. f \in [1..(n * w) -> Byte]
  <2>1. \A i \in 1..n : \A j \in 1..w : v[i][j] \in Byte
    BY <1>1 DEF Word
  <2>2. \A i \in 1..(n * w) : v[((i - 1) \div w) + 1][((i - 1) % w) + 1] \in Byte
    BY <2>1, PlaceInWord
  <2> QED BY <1>5, <2>2
<1>7. Tuple(f) = f
  <2>1. PICK m \in Nat : m = n * w
    BY PlaceInWord
  <2>2. f \in [1..m -> Byte]
    BY <1>6, <2>1
  <2> QED BY <2>2, TupleIsIt
<1>8. Memory(v) = f
  BY <1>2, <1>4, <1>5, <1>7 DEF Memory
<1>9. ASSUME NEW i \in 1..n, NEW j \in 1..w PROVE f[w * (i - 1) + j] = v[i][j]
  <2>1. PICK x \in 1..(n * w) : ByteOf(w, x, i, j)
    BY PlaceInWord
  <2>2. f[x] = v[i][j]
    BY <1>5, <2>1 DEF ByteOf
  <2> QED BY <2>1, <2>2 DEF ByteOf
<1> QED BY <1>6, <1>8, <1>9 DEF Word

LEMMA MemoryOf64 ==
  ASSUME NEW n \in Nat \ {0}, NEW v \in Vec(n, Word(8))
  PROVE  Memory(v) \in Word(8 * n) /\ \A i \in 1..n : Lane(Memory(v), i) = v[i]
<1>1. PICK m : m = Memory(v)
  OBVIOUS
<1>2. m \in Word(n * 8) /\ \A i \in 1..n : \A j \in 1..8 : m[8 * (i - 1) + j] = v[i][j]
  <2>1. 8 \in Widths
    BY DEF Widths
  <2> QED BY <1>1, <2>1, MemoryWord, SMTT(40)
<1>3. m \in Word(8 * n)
  <2>1. n * 8 = 8 * n
    OBVIOUS
  <2> QED BY <1>2, <2>1
<1>4. ASSUME NEW i \in 1..n PROVE Lane(m, i) = v[i]
  <2>1. PICK k \in Nat : k = 8 * n /\ 8 * i <= k
    OBVIOUS
  <2>2. m \in Word(k)
    BY <1>3, <2>1
  <2>3. Lane(m, i) \in Word(8) /\ \A j \in 1..8 : Lane(m, i)[j] = m[8 * (i - 1) + j]
    BY <2>1, <2>2, LaneWord
  <2>4. v[i] \in Word(8)
    BY DEF Vec
  <2>5. \A j \in 1..8 : Lane(m, i)[j] = v[i][j]
    BY <1>2, <2>3
  <2> QED BY <2>3, <2>4, <2>5, SameWord
<1> QED BY <1>1, <1>3, <1>4

LEMMA Words64Word ==
  ASSUME NEW n \in Nat, NEW p \in Word(8 * n)
  PROVE  Words64(p) \in Vec(n, Word(8)) /\ \A i \in 1..n : Words64(p)[i] = Lane(p, i)
<1>1. PICK k \in Nat : k = 8 * n /\ k \div 8 = n
  OBVIOUS
<1>2. p \in Word(k)
  BY <1>1
<1>3. Len(p) = k
  BY <1>2, LenOfFunction DEF Word
<1>4. PICK f : f = [i \in 1..n |-> Lane(p, i)]
  OBVIOUS
<1>5. ASSUME NEW i \in 1..n PROVE f[i] \in Word(8)
  <2>1. i \in Nat \ {0} /\ 8 * i <= k
    BY <1>1
  <2> QED BY <1>2, <1>4, <2>1, LaneWord
<1>6. f \in [1..n -> Word(8)]
  BY <1>4, <1>5
<1>7. Tuple(f) = f
  BY <1>6, TupleIsIt
<1>8. Words64(p) = f
  BY <1>1, <1>3, <1>4, <1>7 DEF Words64, Lane
<1> QED BY <1>4, <1>6, <1>8 DEF Vec

LEMMA Words64OfMemory ==
  ASSUME NEW n \in Nat \ {0}, NEW v \in Vec(n, Word(8))
  PROVE  Words64(Memory(v)) = v
<1>1. PICK m \in Word(8 * n) : m = Memory(v) /\ \A i \in 1..n : Lane(m, i) = v[i]
  BY MemoryOf64
<1>2. Words64(m) \in Vec(n, Word(8)) /\ \A i \in 1..n : Words64(m)[i] = Lane(m, i)
  BY Words64Word
<1>3. Words64(m) = v
  BY <1>1, <1>2 DEF Vec
<1> QED BY <1>1, <1>3

-----------------------------------------------------------------------------
(***************************************************************************)
(* Registers of e elements                                                 *)
(***************************************************************************)
Elements == {2, 4, 8}

\* Element k of a stripe is element i of the register r.
Placed(e, k, r, i) ==
  /\ r \in 0..7 /\ i \in 1..e /\ r + 1 \in 1..(64 \div (8 * e))
  /\ (8 * e) * r = 8 * (k - i) /\ 8 * (k - i) \in Nat /\ 8 * (k - i) + 8 * e <= 64
  /\ k % 2 = i % 2

LEMMA HasPlace ==
  ASSUME NEW e \in Elements, NEW k \in 1..8
  PROVE  \E r, i : Placed(e, k, r, i)
<1>1. CASE e = 2
  <2>1. Placed(e, k, (k - 1) \div 2, ((k - 1) % 2) + 1)
    BY <1>1 DEF Placed
  <2> QED BY <2>1
<1>2. CASE e = 4
  <2>1. Placed(e, k, (k - 1) \div 4, ((k - 1) % 4) + 1)
    BY <1>2 DEF Placed
  <2> QED BY <2>1
<1>3. CASE e = 8
  <2>1. Placed(e, k, 0, k)
    BY <1>3 DEF Placed
  <2> QED BY <2>1
<1> QED BY <1>1, <1>2, <1>3 DEF Elements

LEMMA ElementNumbers ==
  ASSUME NEW e \in Elements
  PROVE  /\ e \in Nat \ {0} /\ 8 * e \in Widths /\ 8 * e \in Nat
         /\ 64 \div (8 * e) \in Nat \ {0} /\ (64 \div (8 * e)) * (8 * e) = 64
BY DEF Elements, Widths

\* What a loop over the registers makes, f[r + 1] being what its body makes at r
LEMMA RegistersLane ==
  ASSUME NEW e \in Elements, NEW f \in Vec(64 \div (8 * e), Word(8 * e))
  PROVE  /\ Words64(Memory(f)) \in Vec(8, Word(8))
         /\ \A k \in 1..8 : \A r, i : Placed(e, k, r, i) => Words64(Memory(f))[k] = Lane(f[r + 1], i)
<1>1. PICK w : w = 8 * e
  OBVIOUS
<1>2. PICK n : n = 64 \div (8 * e)
  OBVIOUS
<1>3. w \in Widths /\ w \in Nat /\ n \in Nat \ {0} /\ n * w = 64
  BY <1>1, <1>2, ElementNumbers
<1>4. f \in Vec(n, Word(w))
  BY <1>1, <1>2
<1>5. PICK m : m = Memory(f)
  OBVIOUS
<1>6. m \in Word(64)
  BY <1>3, <1>4, <1>5, MemoryWord
<1>7. \A i \in 1..n : \A j \in 1..w : m[w * (i - 1) + j] = f[i][j]
  BY <1>3, <1>4, <1>5, MemoryWord
<1>8. Words64(m) \in Vec(8, Word(8)) /\ \A k \in 1..8 : Words64(m)[k] = Lane(m, k)
  <2>1. m \in Word(8 * 8)
    BY <1>6
  <2> QED BY <2>1, Words64Word
<1>9. ASSUME NEW k \in 1..8, NEW r, NEW i, Placed(e, k, r, i)
      PROVE  Lane(m, k) = Lane(f[r + 1], i)
  <2>1. r \in 0..7 /\ i \in 1..e /\ r + 1 \in 1..n /\ w * r = 8 * (k - i)
    BY <1>1, <1>2, <1>9 DEF Placed
  <2>2. Lane(m, k) \in Word(8) /\ \A j \in 1..8 : Lane(m, k)[j] = m[8 * (k - 1) + j]
    BY <1>6, LaneWord
  <2>3. PICK g \in Word(w) : g = f[r + 1]
    BY <1>4, <2>1 DEF Vec
  <2>4. e \in Nat /\ i \in Nat \ {0} /\ 8 * i <= w
    BY <1>1, <2>1 DEF Elements
  <2>5. Lane(g, i) \in Word(8) /\ \A j \in 1..8 : Lane(g, i)[j] = g[8 * (i - 1) + j]
    BY <1>3, <2>4, LaneWord
  <2>6. ASSUME NEW j \in 1..8 PROVE Lane(m, k)[j] = Lane(g, i)[j]
    <3>1. PICK x \in 1..w : x = 8 * (i - 1) + j
      BY <1>3, <2>4
    <3>2. m[w * ((r + 1) - 1) + x] = f[r + 1][x]
      BY <1>7, <2>1
    <3>3. w * ((r + 1) - 1) + x = 8 * (k - 1) + j
      <4>1. (r + 1) - 1 = r
        BY <2>1
      <4> QED BY <2>1, <2>4, <3>1, <4>1
    <3> QED BY <2>2, <2>3, <2>5, <3>1, <3>2, <3>3
  <2> QED BY <2>2, <2>3, <2>5, <2>6, SameWord
<1> QED BY <1>5, <1>8, <1>9

-----------------------------------------------------------------------------
(***************************************************************************)
(* Instructions, element by element                                        *)
(***************************************************************************)
LEMMA EachElement ==
  ASSUME NEW e \in Elements, NEW f \in [1..e -> Word(8)]
  PROVE  Memory(Tuple(f)) \in Word(8 * e) /\ \A i \in 1..e : Lane(Memory(Tuple(f)), i) = f[i]
<1>1. e \in Nat \ {0}
  BY ElementNumbers
<1>2. Tuple(f) = f
  BY <1>1, TupleIsIt
<1>3. f \in Vec(e, Word(8))
  BY DEF Vec
<1> QED BY <1>1, <1>2, <1>3, MemoryOf64

LEMMA ElementsOfRegister ==
  ASSUME NEW e \in Elements, NEW a \in Word(8 * e)
  PROVE  Len(a) \div 8 = e /\ \A i \in 1..e : Lane(a, i) \in Word(8)
<1>1. PICK n \in Nat : n = 8 * e /\ n \div 8 = e /\ \A i \in 1..e : i \in Nat \ {0} /\ 8 * i <= n
  BY DEF Elements
<1>2. a \in Word(n)
  BY <1>1
<1>3. Len(a) = n
  BY <1>2, LenOfFunction DEF Word
<1> QED BY <1>1, <1>2, <1>3, LaneWord

LEMMA MultWord ==
  ASSUME NEW a \in Word(8), NEW b \in Word(8)
  PROVE  XXH_mult32to64(a, b) \in Word(8) /\ XXH_mult32to64(a, b) = Product(Low(a), Low(b), 8)
<1>1. Low(a) = Bytes(a, 0, 4) /\ Low(b) = Bytes(b, 0, 4) /\ Low(a) \in Word(4) /\ Low(b) \in Word(4)
  BY HalvesOfWord
<1>2. PICK x \in Word(4), y \in Word(4) : x = Low(a) /\ y = Low(b)
  BY <1>1
<1>3. Product(x, y, 8) \in Word(8)
  BY ProductWord
<1> QED BY <1>1, <1>2, <1>3 DEF XXH_mult32to64

LEMMA AddElements ==
  ASSUME NEW e \in Elements, NEW a \in Word(8 * e), NEW b \in Word(8 * e)
  PROVE  add_epi64(a, b) \in Word(8 * e) /\ \A i \in 1..e : Lane(add_epi64(a, b), i) = Lane(a, i) ++ Lane(b, i)
<1>1. /\ Len(a) \div 8 = e /\ \A i \in 1..e : Lane(a, i) \in Word(8)
      /\ \A i \in 1..e : Lane(b, i) \in Word(8)
  BY ElementsOfRegister
<1>2. PICK f : f = [i \in 1..e |-> Lane(a, i) ++ Lane(b, i)]
  OBVIOUS
<1>3. \A i \in 1..e : Lane(a, i) ++ Lane(b, i) \in Word(8)
  BY <1>1, SumWord
<1>4. f \in [1..e -> Word(8)]
  BY <1>2, <1>3
<1>5. add_epi64(a, b) = Memory(Tuple(f))
  BY <1>1, <1>2 DEF add_epi64, Each64, Lane
<1> QED BY <1>2, <1>4, <1>5, EachElement

LEMMA MulElements ==
  ASSUME NEW e \in Elements, NEW a \in Word(8 * e), NEW b \in Word(8 * e)
  PROVE  mul_epu32(a, b) \in Word(8 * e) /\ \A i \in 1..e : Lane(mul_epu32(a, b), i) = XXH_mult32to64(Lane(a, i), Lane(b, i))
<1>1. /\ Len(a) \div 8 = e /\ \A i \in 1..e : Lane(a, i) \in Word(8)
      /\ \A i \in 1..e : Lane(b, i) \in Word(8)
  BY ElementsOfRegister
<1>2. PICK f : f = [i \in 1..e |-> XXH_mult32to64(Lane(a, i), Lane(b, i))]
  OBVIOUS
<1>3. \A i \in 1..e : XXH_mult32to64(Lane(a, i), Lane(b, i)) \in Word(8)
  BY <1>1, MultWord
<1>4. f \in [1..e -> Word(8)]
  BY <1>2, <1>3
<1>5. mul_epu32(a, b) = Memory(Tuple(f))
  BY <1>1, <1>2 DEF mul_epu32, Each64, Lane
<1> QED BY <1>2, <1>4, <1>5, EachElement

LEMMA ShiftElementsRight ==
  ASSUME NEW e \in Elements, NEW a \in Word(8 * e), NEW n \in Nat
  PROVE  srli_epi64(a, n) \in Word(8 * e) /\ \A i \in 1..e : Lane(srli_epi64(a, n), i) = Shr(Lane(a, i), n)
<1>1. /\ Len(a) \div 8 = e /\ \A i \in 1..e : Lane(a, i) \in Word(8)
  BY ElementsOfRegister
<1>2. PICK f : f = [i \in 1..e |-> Shr(Lane(a, i), n)]
  OBVIOUS
<1>3. \A i \in 1..e : Shr(Lane(a, i), n) \in Word(8)
  BY <1>1, ShrWord
<1>4. f \in [1..e -> Word(8)]
  BY <1>2, <1>3
<1>5. srli_epi64(a, n) = Memory(Tuple(f))
  BY <1>1, <1>2 DEF srli_epi64, Each64, Lane
<1> QED BY <1>2, <1>4, <1>5, EachElement

LEMMA ShiftElementsLeft ==
  ASSUME NEW e \in Elements, NEW a \in Word(8 * e), NEW n \in Nat
  PROVE  slli_epi64(a, n) \in Word(8 * e) /\ \A i \in 1..e : Lane(slli_epi64(a, n), i) = Shl(Lane(a, i), n)
<1>1. /\ Len(a) \div 8 = e /\ \A i \in 1..e : Lane(a, i) \in Word(8)
  BY ElementsOfRegister
<1>2. PICK f : f = [i \in 1..e |-> Shl(Lane(a, i), n)]
  OBVIOUS
<1>3. \A i \in 1..e : Shl(Lane(a, i), n) \in Word(8)
  BY <1>1, ShlWord
<1>4. f \in [1..e -> Word(8)]
  BY <1>2, <1>3
<1>5. slli_epi64(a, n) = Memory(Tuple(f))
  BY <1>1, <1>2 DEF slli_epi64, Each64, Lane
<1> QED BY <1>2, <1>4, <1>5, EachElement

LEMMA RotateElements ==
  ASSUME NEW e \in Elements, NEW a \in Word(8 * e), NEW n \in 0..63
  PROVE  vec_rl(a, n) \in Word(8 * e) /\ \A i \in 1..e : Lane(vec_rl(a, n), i) = Rotl(Lane(a, i), n)
<1>1. /\ Len(a) \div 8 = e /\ \A i \in 1..e : Lane(a, i) \in Word(8)
  BY ElementsOfRegister
<1>2. PICK f : f = [i \in 1..e |-> Rotl(Lane(a, i), n)]
  OBVIOUS
<1>3. \A i \in 1..e : Rotl(Lane(a, i), n) \in Word(8)
  BY <1>1, RotlWord
<1>4. f \in [1..e -> Word(8)]
  BY <1>2, <1>3
<1>5. vec_rl(a, n) = Memory(Tuple(f))
  BY <1>1, <1>2 DEF vec_rl, Each64, Lane
<1> QED BY <1>2, <1>4, <1>5, EachElement

LEMMA XorElements ==
  ASSUME NEW e \in Elements, NEW a \in Word(8 * e), NEW b \in Word(8 * e)
  PROVE  a ^^ b \in Word(8 * e) /\ \A i \in 1..e : Lane(a ^^ b, i) = Lane(a, i) ^^ Lane(b, i)
<1>1. PICK n \in Nat : n = 8 * e
  BY ElementNumbers
<1>2. a \in Word(n) /\ b \in Word(n)
  BY <1>1
<1>3. a ^^ b \in Word(n)
  BY <1>2, XorWord
<1>4. ASSUME NEW i \in 1..e PROVE Lane(a ^^ b, i) = Lane(a, i) ^^ Lane(b, i)
  <2>1. PICK o \in Nat : o = 8 * (i - 1) /\ o + 8 <= n
    BY <1>1 DEF Elements
  <2>2. Bytes(a ^^ b, o, 8) = Bytes(a, o, 8) ^^ Bytes(b, o, 8)
    BY <1>2, <2>1, XorOfBytes
  <2> QED BY <2>1, <2>2 DEF Lane, XXH_readLE64
<1> QED BY <1>1, <1>3, <1>4

\* What every 128 bits of a shuffled register take, byte by byte
ShuffledFrom(n, d3, d2, d1, d0) ==
  16 * ((n - 1) \div 16) + 4 * (<<d0, d1, d2, d3>>[((n - 1) % 16) \div 4 + 1]) + ((n - 1) % 4) + 1

LEMMA Shuffled ==
  ASSUME NEW e \in Elements, NEW a \in Word(8 * e),
         NEW d0 \in 0..3, NEW d1 \in 0..3, NEW d2 \in 0..3, NEW d3 \in 0..3
  PROVE  /\ shuffle_epi32(a, d3, d2, d1, d0) \in Word(8 * e)
         /\ \A n \in 1..(8 * e) : shuffle_epi32(a, d3, d2, d1, d0)[n] = a[ShuffledFrom(n, d3, d2, d1, d0)]
<1>1. PICK w \in Nat : w = 8 * e
  BY ElementNumbers
<1>2. a \in Word(w)
  BY <1>1
<1>3. Len(a) = w
  BY <1>2, LenOfFunction DEF Word
<1>4. PICK f : f = [n \in 1..w |-> a[ShuffledFrom(n, d3, d2, d1, d0)]]
  OBVIOUS
<1>5. ASSUME NEW n \in 1..w PROVE ShuffledFrom(n, d3, d2, d1, d0) \in 1..w
  <2>1. ((n - 1) % 16) \div 4 + 1 \in 1..4
    OBVIOUS
  <2>2. PICK d \in 0..3 : d = <<d0, d1, d2, d3>>[((n - 1) % 16) \div 4 + 1]
    BY <2>1
  <2>3. 16 * ((n - 1) \div 16) + 4 * d + ((n - 1) % 4) + 1 \in 1..w
    BY <1>1 DEF Elements
  <2> QED BY <2>2, <2>3 DEF ShuffledFrom
<1>6. f \in [1..w -> Byte]
  BY <1>2, <1>4, <1>5 DEF Word
<1>7. Tuple(f) = f
  BY <1>6, TupleIsIt
<1>8. shuffle_epi32(a, d3, d2, d1, d0) = f
  BY <1>3, <1>4, <1>7 DEF shuffle_epi32, ShuffledFrom
<1> QED BY <1>1, <1>4, <1>6, <1>8 DEF Word

(* The lower half of each element becomes its upper one. *)
LEMMA UpperHalvesDown ==
  ASSUME NEW e \in Elements, NEW a \in Word(8 * e)
  PROVE  /\ shuffle_epi32(a, 0, 3, 0, 1) \in Word(8 * e)
         /\ \A i \in 1..e : Low(Lane(shuffle_epi32(a, 0, 3, 0, 1), i)) = High(Lane(a, i))
<1>1. PICK w \in Nat : w = 8 * e /\ \A i \in 1..e : i \in Nat \ {0} /\ 8 * i <= w
  BY DEF Elements
<1>2. PICK s : s = shuffle_epi32(a, 0, 3, 0, 1)
  OBVIOUS
<1>3. s \in Word(w) /\ \A n \in 1..w : s[n] = a[ShuffledFrom(n, 0, 3, 0, 1)]
  BY <1>1, <1>2, Shuffled
<1>4. ASSUME NEW i \in 1..e PROVE Low(Lane(s, i)) = High(Lane(a, i))
  <2>1. i \in Nat \ {0} /\ 8 * i <= w /\ a \in Word(w)
    BY <1>1
  <2>2. Lane(s, i) \in Word(8) /\ \A j \in 1..8 : Lane(s, i)[j] = s[8 * (i - 1) + j]
    BY <1>3, <2>1, LaneWord
  <2>3. Lane(a, i) \in Word(8) /\ \A j \in 1..8 : Lane(a, i)[j] = a[8 * (i - 1) + j]
    BY <2>1, LaneWord
  <2>4. Low(Lane(s, i)) \in Word(4) /\ \A j \in 1..4 : Low(Lane(s, i))[j] = Lane(s, i)[j]
    BY <2>2, HalvesOfWord
  <2>5. High(Lane(a, i)) \in Word(4) /\ \A j \in 1..4 : High(Lane(a, i))[j] = Lane(a, i)[j + 4]
    BY <2>3, HalvesOfWord
  <2>6. ASSUME NEW j \in 1..4 PROVE s[8 * (i - 1) + j] = a[8 * (i - 1) + (j + 4)]
    <3>1. PICK n \in 1..w : n = 8 * (i - 1) + j
      BY <2>1
    <3>2. ShuffledFrom(n, 0, 3, 0, 1) = 8 * (i - 1) + (j + 4)
      <4>1. CASE i % 2 = 1
        <5>1. (n - 1) \div 16 = (i - 1) \div 2 /\ (n - 1) % 16 = j - 1 /\ (n - 1) % 4 = j - 1
          BY <3>1, <4>1
        <5>2. ((n - 1) % 16) \div 4 + 1 = 1
          BY <5>1
        <5>3. 16 * ((n - 1) \div 16) = 8 * (i - 1)
          BY <5>1, <4>1
        <5> QED BY <5>1, <5>2, <5>3 DEF ShuffledFrom
      <4>2. CASE i % 2 = 0
        <5>1. (n - 1) \div 16 = (i - 2) \div 2 /\ (n - 1) % 16 = j + 7 /\ (n - 1) % 4 = j - 1
          BY <3>1, <4>2
        <5>2. ((n - 1) % 16) \div 4 + 1 = 3
          BY <5>1
        <5>3. 16 * ((n - 1) \div 16) = 8 * (i - 2)
          BY <5>1, <4>2
        <5> QED BY <5>1, <5>2, <5>3 DEF ShuffledFrom
      <4>3. i \in Nat
        BY <2>1
      <4> QED BY <4>1, <4>2, <4>3
    <3> QED BY <1>3, <3>1, <3>2
  <2>7. \A j \in 1..4 : Low(Lane(s, i))[j] = High(Lane(a, i))[j]
    BY <2>2, <2>3, <2>4, <2>5, <2>6
  <2> QED BY <2>4, <2>5, <2>7, SameWord
<1> QED BY <1>1, <1>2, <1>3, <1>4

Neighbour(i) == IF i % 2 = 1 THEN i + 1 ELSE i - 1

(* The two elements of every 128 bits change places. *)
LEMMA NeighboursSwapped ==
  ASSUME NEW e \in Elements, NEW a \in Word(8 * e)
  PROVE  /\ shuffle_epi32(a, 1, 0, 3, 2) \in Word(8 * e)
         /\ \A i \in 1..e : Lane(shuffle_epi32(a, 1, 0, 3, 2), i) = Lane(a, Neighbour(i))
<1>1. PICK w \in Nat : w = 8 * e /\ \A i \in 1..e : i \in Nat \ {0} /\ 8 * i <= w
  BY DEF Elements
<1>2. PICK s : s = shuffle_epi32(a, 1, 0, 3, 2)
  OBVIOUS
<1>3. s \in Word(w) /\ \A n \in 1..w : s[n] = a[ShuffledFrom(n, 1, 0, 3, 2)]
  BY <1>1, <1>2, Shuffled
<1>4. ASSUME NEW i \in 1..e PROVE Lane(s, i) = Lane(a, Neighbour(i))
  <2>1. i \in Nat \ {0} /\ 8 * i <= w /\ a \in Word(w)
    BY <1>1
  <2>2. PICK k \in 1..e : k = Neighbour(i)
    BY DEF Neighbour, Elements
  <2>3. k \in Nat \ {0} /\ 8 * k <= w
    BY <1>1
  <2>4. Lane(s, i) \in Word(8) /\ \A j \in 1..8 : Lane(s, i)[j] = s[8 * (i - 1) + j]
    BY <1>3, <2>1, LaneWord
  <2>5. Lane(a, k) \in Word(8) /\ \A j \in 1..8 : Lane(a, k)[j] = a[8 * (k - 1) + j]
    BY <2>1, <2>3, LaneWord
  <2>6. ASSUME NEW j \in 1..8 PROVE s[8 * (i - 1) + j] = a[8 * (k - 1) + j]
    <3>1. PICK n \in 1..w : n = 8 * (i - 1) + j
      BY <2>1
    <3>2. ShuffledFrom(n, 1, 0, 3, 2) = 8 * (k - 1) + j
      <4>1. CASE i % 2 = 1
        <5>1. k = i + 1
          BY <2>2, <4>1 DEF Neighbour
        <5>2. 16 * ((n - 1) \div 16) = 8 * (i - 1) /\ (n - 1) % 16 = j - 1 /\ (n - 1) % 4 = (j - 1) % 4
          BY <2>1, <3>1, <4>1
        <5>3. CASE j \in 1..4
          <6>1. ((n - 1) % 16) \div 4 + 1 = 1 /\ (n - 1) % 4 = j - 1
            BY <5>2, <5>3
          <6> QED BY <5>1, <5>2, <6>1 DEF ShuffledFrom
        <5>4. CASE j \in 5..8
          <6>1. ((n - 1) % 16) \div 4 + 1 = 2 /\ (n - 1) % 4 = j - 5
            BY <5>2, <5>4
          <6> QED BY <5>1, <5>2, <6>1 DEF ShuffledFrom
        <5> QED BY <5>3, <5>4
      <4>2. CASE i % 2 = 0
        <5>1. k = i - 1
          BY <2>2, <4>2 DEF Neighbour
        <5>2. 16 * ((n - 1) \div 16) = 8 * (i - 2) /\ (n - 1) % 16 = j + 7 /\ (n - 1) % 4 = (j - 1) % 4
          BY <2>1, <3>1, <4>2
        <5>3. CASE j \in 1..4
          <6>1. ((n - 1) % 16) \div 4 + 1 = 3 /\ (n - 1) % 4 = j - 1
            BY <5>2, <5>3
          <6> QED BY <5>1, <5>2, <6>1 DEF ShuffledFrom
        <5>4. CASE j \in 5..8
          <6>1. ((n - 1) % 16) \div 4 + 1 = 4 /\ (n - 1) % 4 = j - 5
            BY <5>2, <5>4
          <6> QED BY <5>1, <5>2, <6>1 DEF ShuffledFrom
        <5> QED BY <5>3, <5>4
      <4> QED BY <2>1, <4>1, <4>2
    <3> QED BY <1>3, <3>1, <3>2
  <2>7. \A j \in 1..8 : Lane(s, i)[j] = Lane(a, k)[j]
    BY <2>4, <2>5, <2>6
  <2>8. Lane(s, i) = Lane(a, k)
    BY <2>4, <2>5, <2>7, SameWord
  <2> QED BY <2>2, <2>8
<1> QED BY <1>1, <1>2, <1>3, <1>4

LEMMA PairOfElements ==
  ASSUME NEW x \in Word(8), NEW y \in Word(8)
  PROVE  x \o y \in Word(16) /\ Lane(x \o y, 1) = x /\ Lane(x \o y, 2) = y
<1>1. PICK m \in Nat : m = 8 /\ m + m = 16
  OBVIOUS
<1>2. PICK s \in Word(16) : s = x \o y /\ \A i \in 1..16 : s[i] = IF i <= 8 THEN x[i] ELSE y[i - 8]
  <2>1. x \in Word(m) /\ y \in Word(m)
    BY <1>1
  <2>2. /\ x \o y \in Word(m + m)
        /\ \A i \in 1..(m + m) : (x \o y)[i] = IF i <= m THEN x[i] ELSE y[i - m]
    BY <2>1, ConcatWords
  <2> QED BY <1>1, <2>2
<1>3. /\ Lane(s, 1) \in Word(8) /\ \A j \in 1..8 : Lane(s, 1)[j] = s[8 * (1 - 1) + j]
      /\ Lane(s, 2) \in Word(8) /\ \A j \in 1..8 : Lane(s, 2)[j] = s[8 * (2 - 1) + j]
  BY LaneWord
<1>4. ASSUME NEW j \in 1..8 PROVE Lane(s, 1)[j] = x[j] /\ Lane(s, 2)[j] = y[j]
  <2>1. 8 * (1 - 1) + j = j /\ 8 * (2 - 1) + j = j + 8
    OBVIOUS
  <2>2. s[j] = x[j]
    <3>1. j \in 1..16 /\ j <= 8
      OBVIOUS
    <3> QED BY <1>2, <3>1
  <2>3. s[j + 8] = y[j]
    <3>1. j + 8 \in 1..16 /\ ~ (j + 8 <= 8) /\ (j + 8) - 8 = j
      OBVIOUS
    <3> QED BY <1>2, <3>1
  <2> QED BY <1>3, <2>1, <2>2, <2>3
<1>5. Lane(s, 1) = x
  BY <1>3, <1>4, SameWord
<1>6. Lane(s, 2) = y
  BY <1>3, <1>4, SameWord
<1> QED BY <1>2, <1>5, <1>6

-----------------------------------------------------------------------------
(***************************************************************************)
(* Accumulators                                                            *)
(***************************************************************************)
Accs == Vec(8, Word(8))
Stripe == Word(64)

AccumulatedBy(acc, input, secret, k) ==
  LET key == Lane(input, k) ^^ Lane(secret, k)
  IN (acc[k] ++ Lane(input, Neighbour(k))) ++ Product(Low(key), High(key), 8)

LEMMA StripeLanes ==
  ASSUME NEW p \in Stripe
  PROVE  Words64(p) \in Vec(8, Word(8)) /\ \A k \in 1..8 : Lane(p, k) \in Word(8) /\ Words64(p)[k] = Lane(p, k)
<1>1. p \in Word(8 * 8)
  BY DEF Stripe
<1>2. Words64(p) \in Vec(8, Word(8)) /\ \A k \in 1..8 : Words64(p)[k] = Lane(p, k)
  BY <1>1, Words64Word
<1> QED BY <1>2 DEF Vec

LEMMA WholeWord ==
  ASSUME NEW n \in Nat, NEW a \in Word(n)
  PROVE  Bytes(a, 0, n) = a
<1>1. Bytes(a, 0, n) \in Word(n) /\ \A j \in 1..n : Bytes(a, 0, n)[j] = a[0 + j]
  BY BytesWord
<1> QED BY <1>1, SameWord

LEMMA NeighbourIsIn == \A k \in 1..8 : Neighbour(k) \in 1..8
BY DEF Neighbour

LEMMA AccumulatedWord ==
  ASSUME NEW acc \in Accs, NEW input \in Stripe, NEW secret \in Stripe, NEW k \in 1..8
  PROVE  /\ AccumulatedBy(acc, input, secret, k) \in Word(8)
         /\ Lane(input, k) ^^ Lane(secret, k) \in Word(8) /\ Lane(input, Neighbour(k)) \in Word(8)
         /\ acc[k] \in Word(8)
<1>1. PICK x \in Word(8) : x = Lane(input, k) ^^ Lane(secret, k)
  BY StripeLanes, XorWord
<1>2. PICK y \in Word(8) : y = Lane(input, Neighbour(k))
  BY StripeLanes, NeighbourIsIn
<1>3. PICK z \in Word(8) : z = acc[k]
  BY DEF Accs, Vec
<1>4. PICK l \in Word(4), h \in Word(4) : l = Low(x) /\ h = High(x)
  BY HalvesOfWord
<1>5. PICK p \in Word(8) : p = Product(l, h, 8)
  BY ProductWord
<1>6. (z ++ y) ++ p \in Word(8)
  BY SumWord
<1> QED BY <1>1, <1>2, <1>3, <1>4, <1>5, <1>6 DEF AccumulatedBy

LEMMA ScalarAccumulates ==
  ASSUME NEW acc \in Accs, NEW input \in Stripe, NEW secret \in Stripe
  PROVE  /\ XXH3_accumulate_512_scalar(acc, input, secret) \in Accs
         /\ \A k \in 1..8 : XXH3_accumulate_512_scalar(acc, input, secret)[k] = AccumulatedBy(acc, input, secret, k)
<1>1. PICK f : f = [k \in 1..8 |-> AccumulatedBy(acc, input, secret, k)]
  OBVIOUS
<1>2. f \in [1..8 -> Word(8)]
  BY <1>1, AccumulatedWord
<1>3. Tuple(f) = f
  BY <1>2, TupleIsIt
<1> DEFINE data == Words64(input)
           key(k) == data[k] ^^ XXH_readLE64(secret, 8 * (k - 1))
           lane(k) == (acc[k] ++ data[IF k % 2 = 1 THEN k + 1 ELSE k - 1]) ++ XXH_mult32to64(key(k), High(key(k)))
<1>4. ASSUME NEW k \in 1..8 PROVE lane(k) = AccumulatedBy(acc, input, secret, k)
  <2>1. PICK x \in Word(8) : x = Lane(input, k) ^^ Lane(secret, k)
    BY AccumulatedWord
  <2>2. key(k) = x
    BY <2>1, StripeLanes DEF Lane
  <2>3. data[Neighbour(k)] = Lane(input, Neighbour(k))
    BY StripeLanes, NeighbourIsIn
  <2>4. XXH_mult32to64(x, High(x)) = Product(Low(x), High(x), 8)
    <3>1. PICK h \in Word(4) : h = High(x)
      BY HalvesOfWord
    <3>2. Bytes(x, 0, 4) = Low(x)
      BY HalvesOfWord
    <3>3. Bytes(h, 0, 4) = h
      BY WholeWord
    <3> QED BY <3>1, <3>2, <3>3 DEF XXH_mult32to64
  <2> HIDE DEF data, key
  <2> QED BY <2>1, <2>2, <2>3, <2>4 DEF AccumulatedBy, Neighbour
<1>5. XXH3_accumulate_512_scalar(acc, input, secret) = Tuple([k \in 1..8 |-> lane(k)])
  BY DEF XXH3_accumulate_512_scalar, XXH_ACC_NB
<1>6. [k \in 1..8 |-> lane(k)] = f
  <2> HIDE DEF lane
  <2> QED BY <1>1, <1>4
<1> HIDE DEF lane
<1> QED BY <1>1, <1>2, <1>3, <1>5, <1>6 DEF Accs, Vec

ScrambledBy(acc, secret, k) == (XorShift(acc[k], 47) ^^ Lane(secret, k)) ** Extend(XXH_PRIME32_1, 8)

LEMMA PrimeWord == XXH_PRIME32_1 \in Word(4)
BY DEF XXH_PRIME32_1, Word, Byte

LEMMA ScrambledWord ==
  ASSUME NEW acc \in Accs, NEW secret \in Stripe, NEW k \in 1..8
  PROVE  /\ ScrambledBy(acc, secret, k) \in Word(8) /\ acc[k] \in Word(8)
         /\ XorShift(acc[k], 47) ^^ Lane(secret, k) \in Word(8)
<1>1. acc[k] \in Word(8)
  BY DEF Accs, Vec
<1>2. XorShift(acc[k], 47) \in Word(8)
  BY <1>1, XorShiftWord
<1>3. PICK x \in Word(8) : x = XorShift(acc[k], 47) ^^ Lane(secret, k)
  BY <1>2, StripeLanes, XorWord
<1>4. PICK p \in Word(8) : p = Extend(XXH_PRIME32_1, 8)
  BY PrimeWord, ExtendWord
<1>5. x ** p \in Word(8)
  BY TimesWord
<1> QED BY <1>1, <1>3, <1>4, <1>5 DEF ScrambledBy

LEMMA ScalarScrambles ==
  ASSUME NEW acc \in Accs, NEW secret \in Stripe
  PROVE  /\ XXH3_scrambleAcc_scalar(acc, secret) \in Accs
         /\ \A k \in 1..8 : XXH3_scrambleAcc_scalar(acc, secret)[k] = ScrambledBy(acc, secret, k)
<1>1. PICK f : f = [k \in 1..8 |-> ScrambledBy(acc, secret, k)]
  OBVIOUS
<1>2. f \in [1..8 -> Word(8)]
  BY <1>1, ScrambledWord
<1>3. Tuple(f) = f
  BY <1>2, TupleIsIt
<1>4. XXH3_scrambleAcc_scalar(acc, secret) = Tuple(f)
  BY <1>1 DEF XXH3_scrambleAcc_scalar, XXH_ACC_NB, ScrambledBy, Lane
<1> QED BY <1>1, <1>2, <1>3, <1>4 DEF Accs, Vec

(* Half by half: d times the extended prime *)
LEMMA ScrambledHalves ==
  ASSUME NEW d \in Word(8), NEW p \in Word(4)
  PROVE  /\ d ** Extend(p, 8) = Product(Low(d), p, 8) ++ Shl(Product(High(d), p, 8), 32)
         /\ Product(Low(d), p, 8) \in Word(8) /\ Shl(Product(High(d), p, 8), 32) \in Word(8)
<1>1. PICK x \in Word(8) : x = Extend(p, 8)
  BY ExtendWord
<1>2. d ** x = Product(d, x, 8)
  BY TimesWord
<1>3. PICK l \in Word(4), h \in Word(4) : l = Low(d) /\ h = High(d)
  BY HalvesOfWord
<1>4. Product(l, p, 8) \in Word(8)
  BY ProductWord
<1>5. PICK y \in Word(8) : y = Product(h, p, 8)
  BY ProductWord
<1>6. Shl(y, 32) \in Word(8)
  BY ShiftBy32
<1> QED BY <1>1, <1>2, <1>3, <1>4, <1>5, <1>6, SplitProduct

LEMMA RepeatedWord ==
  ASSUME NEW m \in Nat \ {0}, NEW p \in Word(4)
  PROVE  /\ Repeated(p, 2 * m) \in Word(8 * m)
         /\ \A i \in 1..m : Low(Lane(Repeated(p, 2 * m), i)) = p /\ High(Lane(Repeated(p, 2 * m), i)) = p
<1>1. Len(p) = 4
  BY LenOfFunction DEF Word
<1>2. PICK w \in Nat : w = 8 * m /\ w = (2 * m) * 4 /\ \A i \in 1..m : i \in Nat \ {0} /\ 8 * i <= w
  OBVIOUS
<1>3. PICK f : f = [i \in 1..w |-> p[((i - 1) % 4) + 1]]
  OBVIOUS
<1>4. f \in [1..w -> Byte]
  <2>1. \A i \in 1..w : ((i - 1) % 4) + 1 \in 1..4
    OBVIOUS
  <2> QED BY <1>3, <2>1 DEF Word
<1>5. Tuple(f) = f
  BY <1>4, TupleIsIt
<1>6. Repeated(p, 2 * m) = f
  BY <1>1, <1>2, <1>3, <1>5 DEF Repeated
<1>7. f \in Word(w)
  BY <1>4 DEF Word
<1>8. ASSUME NEW i \in 1..m PROVE Low(Lane(f, i)) = p /\ High(Lane(f, i)) = p
  <2>1. i \in Nat \ {0} /\ 8 * i <= w
    BY <1>2
  <2>2. PICK x \in Word(8) : x = Lane(f, i) /\ \A j \in 1..8 : x[j] = f[8 * (i - 1) + j]
    BY <1>7, <2>1, LaneWord
  <2>3. \A j \in 1..8 : x[j] = p[((j - 1) % 4) + 1]
    <3>1. TAKE j \in 1..8
    <3>2. PICK y \in 1..w : y = 8 * (i - 1) + j /\ (y - 1) % 4 = (j - 1) % 4
      BY <2>1
    <3>3. f[y] = p[((y - 1) % 4) + 1]
      BY <1>3
    <3> QED BY <2>2, <3>2, <3>3
  <2>4. \A j \in 1..4 : x[j] = p[j] /\ x[j + 4] = p[j]
    <3>1. TAKE j \in 1..4
    <3>2. j \in 1..8 /\ j + 4 \in 1..8 /\ ((j - 1) % 4) + 1 = j /\ ((j + 4 - 1) % 4) + 1 = j
      OBVIOUS
    <3> QED BY <2>3, <3>2
  <2>5. Low(x) \in Word(4) /\ High(x) \in Word(4) /\ \A j \in 1..4 : Low(x)[j] = x[j] /\ High(x)[j] = x[j + 4]
    BY HalvesOfWord
  <2>6. Low(x) = p
    BY <2>4, <2>5, SameWord
  <2>7. High(x) = p
    BY <2>4, <2>5, SameWord
  <2> QED BY <2>2, <2>6, <2>7
<1> QED BY <1>2, <1>6, <1>7, <1>8

LEMMA Offsets ==
  ASSUME NEW e \in Elements, NEW n \in 1..(64 \div (8 * e))
  PROVE  \E o \in Nat : o = (8 * e) * (n - 1) /\ o + 8 * e <= 64
<1>1. CASE e = 2
  BY <1>1
<1>2. CASE e = 4
  BY <1>2
<1>3. CASE e = 8
  BY <1>3
<1> QED BY <1>1, <1>2, <1>3 DEF Elements

(* A loop over the registers makes w when every register has w's elements. *)
LEMMA LoopMakes ==
  ASSUME NEW e \in Elements, NEW f \in Vec(64 \div (8 * e), Word(8 * e)), NEW w \in Accs,
         \A k \in 1..8 : \A r, i : Placed(e, k, r, i) => Lane(f[r + 1], i) = w[k]
  PROVE  Words64(Memory(Tuple(f))) = w
<1>1. Tuple(f) = f
  <2>1. PICK n \in Nat : n = 64 \div (8 * e)
    BY ElementNumbers
  <2>2. f \in [1..n -> Word(8 * e)]
    BY <2>1 DEF Vec
  <2> QED BY <2>1, <2>2, TupleIsIt
<1>2. /\ Words64(Memory(f)) \in Vec(8, Word(8))
      /\ \A k \in 1..8 : \A r, i : Placed(e, k, r, i) => Words64(Memory(f))[k] = Lane(f[r + 1], i)
  BY RegistersLane
<1>3. \A k \in 1..8 : Words64(Memory(f))[k] = w[k]
  BY <1>2, HasPlace
<1>4. Words64(Memory(f)) = w
  BY <1>2, <1>3 DEF Vec, Accs
<1> QED BY <1>1, <1>4

(* The elements of a register read from 64 bytes *)
LEMMA RegisterOf ==
  ASSUME NEW e \in Elements, NEW p \in Stripe, NEW o \in Nat, o + 8 * e <= 64
  PROVE  /\ Bytes(p, o, 8 * e) \in Word(8 * e)
         /\ \A i \in 1..e, k \in Nat : o = 8 * (k - i) => Lane(Bytes(p, o, 8 * e), i) = Lane(p, k)
<1>1. PICK w \in Nat : w = 8 * e /\ o + w <= 64 /\ \A i \in 1..e : i \in Nat \ {0} /\ 8 * i <= w
  BY DEF Elements
<1>2. p \in Word(64)
  BY DEF Stripe
<1>3. Bytes(p, o, w) \in Word(w)
  BY <1>1, <1>2, BytesWord
<1>4. ASSUME NEW i \in 1..e, NEW k \in Nat, o = 8 * (k - i) PROVE Lane(Bytes(p, o, w), i) = Lane(p, k)
  <2>1. i \in Nat \ {0} /\ 8 * i <= w
    BY <1>1
  <2> QED BY <1>1, <1>2, <1>4, <2>1, LaneOfBytes
<1> QED BY <1>1, <1>3, <1>4

LEMMA MemoryOfAccs ==
  ASSUME NEW acc \in Accs
  PROVE  Memory(acc) \in Stripe /\ \A k \in 1..8 : Lane(Memory(acc), k) = acc[k]
<1>1. Memory(acc) \in Word(8 * 8)
  BY MemoryOf64 DEF Accs
<1>2. \A k \in 1..8 : Lane(Memory(acc), k) = acc[k]
  BY MemoryOf64 DEF Accs
<1> QED BY <1>1, <1>2 DEF Stripe

LEMMA NeighbourInRegister ==
  ASSUME NEW e \in Elements, NEW i \in 1..e, NEW k \in 1..8, k % 2 = i % 2
  PROVE  Neighbour(i) \in 1..e /\ Neighbour(k) \in Nat /\ Neighbour(k) - Neighbour(i) = k - i
BY DEF Elements, Neighbour

X86AccumulateBody(acc, input, secret, size, i) ==
  LET data_vec    == Bytes(input, i, size)
      data_key    == data_vec ^^ Bytes(secret, i, size)
      data_key_lo == shuffle_epi32(data_key, 0, 3, 0, 1)
      data_swap   == shuffle_epi32(data_vec, 1, 0, 3, 2)
  IN add_epi64(mul_epu32(data_key, data_key_lo), add_epi64(Bytes(Memory(acc), i, size), data_swap))

LEMMA X86AccumulateBodyLane ==
  ASSUME NEW e \in Elements, NEW acc \in Accs, NEW input \in Stripe, NEW secret \in Stripe,
         NEW o \in Nat, o + 8 * e <= 64
  PROVE  /\ X86AccumulateBody(acc, input, secret, 8 * e, o) \in Word(8 * e)
         /\ \A i \in 1..e, k \in 1..8 : o = 8 * (k - i) /\ k % 2 = i % 2 =>
              Lane(X86AccumulateBody(acc, input, secret, 8 * e, o), i) = AccumulatedBy(acc, input, secret, k)
<1>1. PICK x \in Word(8 * e) : /\ x = Bytes(input, o, 8 * e)
                               /\ \A i \in 1..e, k \in Nat : o = 8 * (k - i) => Lane(x, i) = Lane(input, k)
  BY RegisterOf
<1>2. PICK y \in Word(8 * e) : /\ y = Bytes(secret, o, 8 * e)
                               /\ \A i \in 1..e, k \in Nat : o = 8 * (k - i) => Lane(y, i) = Lane(secret, k)
  BY RegisterOf
<1>3. PICK m \in Stripe : m = Memory(acc) /\ \A k \in 1..8 : Lane(m, k) = acc[k]
  BY MemoryOfAccs
<1>4. PICK a \in Word(8 * e) : /\ a = Bytes(m, o, 8 * e)
                               /\ \A i \in 1..e, k \in Nat : o = 8 * (k - i) => Lane(a, i) = Lane(m, k)
  BY RegisterOf
<1>5. PICK key \in Word(8 * e) : key = x ^^ y /\ \A i \in 1..e : Lane(key, i) = Lane(x, i) ^^ Lane(y, i)
  BY XorElements
<1>6. PICK lo \in Word(8 * e) : /\ lo = shuffle_epi32(key, 0, 3, 0, 1)
                                /\ \A i \in 1..e : Low(Lane(lo, i)) = High(Lane(key, i))
  BY UpperHalvesDown
<1>7. PICK swap \in Word(8 * e) : /\ swap = shuffle_epi32(x, 1, 0, 3, 2)
                                  /\ \A i \in 1..e : Lane(swap, i) = Lane(x, Neighbour(i))
  BY NeighboursSwapped
<1>8. PICK p \in Word(8 * e) : /\ p = mul_epu32(key, lo)
                               /\ \A i \in 1..e : Lane(p, i) = XXH_mult32to64(Lane(key, i), Lane(lo, i))
  BY MulElements
<1>9. PICK s \in Word(8 * e) : s = add_epi64(a, swap) /\ \A i \in 1..e : Lane(s, i) = Lane(a, i) ++ Lane(swap, i)
  BY AddElements
<1>10. PICK r \in Word(8 * e) : r = add_epi64(p, s) /\ \A i \in 1..e : Lane(r, i) = Lane(p, i) ++ Lane(s, i)
  BY AddElements
<1>11. X86AccumulateBody(acc, input, secret, 8 * e, o) = r
  BY <1>1, <1>2, <1>3, <1>4, <1>5, <1>6, <1>7, <1>8, <1>9, <1>10 DEF X86AccumulateBody
<1>12. ASSUME NEW i \in 1..e, NEW k \in 1..8, o = 8 * (k - i), k % 2 = i % 2
       PROVE  Lane(r, i) = AccumulatedBy(acc, input, secret, k)
  <2>1. k \in Nat
    OBVIOUS
  <2>2. PICK d \in Word(8) : d = Lane(key, i) /\ d = Lane(input, k) ^^ Lane(secret, k)
    BY <1>1, <1>2, <1>5, <1>12, <2>1, AccumulatedWord
  <2>3. PICK c \in Word(8) : c = acc[k]
    BY AccumulatedWord
  <2>4. PICK n \in Word(8) : n = Lane(input, Neighbour(k))
    BY AccumulatedWord
  <2>5. Lane(a, i) = c
    BY <1>3, <1>4, <1>12, <2>1, <2>3
  <2>6. Lane(swap, i) = n
    <3>1. Neighbour(i) \in 1..e /\ Neighbour(k) \in Nat /\ o = 8 * (Neighbour(k) - Neighbour(i))
      BY <1>12, NeighbourInRegister
    <3> QED BY <1>1, <1>7, <2>4, <3>1
  <2>7. PICK q \in Word(8) : q = Product(Low(d), High(d), 8)
    BY HalvesOfWord, ProductWord
  <2>8. Lane(p, i) = q
    <3>1. Lane(lo, i) \in Word(8)
      BY ElementsOfRegister
    <3>2. XXH_mult32to64(d, Lane(lo, i)) = Product(Low(d), Low(Lane(lo, i)), 8)
      BY <3>1, MultWord
    <3> QED BY <1>6, <1>8, <2>2, <2>7, <3>2
  <2>9. Lane(r, i) = q ++ (c ++ n)
    BY <1>9, <1>10, <2>5, <2>6, <2>8
  <2>10. q ++ (c ++ n) = (c ++ n) ++ q
    <3>1. c ++ n \in Word(8)
      BY SumWord
    <3> QED BY <3>1, SumCommutes
  <2> QED BY <2>2, <2>3, <2>4, <2>7, <2>9, <2>10 DEF AccumulatedBy
<1> QED BY <1>11, <1>12

LEMMA X86Accumulates ==
  ASSUME NEW e \in Elements, NEW acc \in Accs, NEW input \in Stripe, NEW secret \in Stripe
  PROVE  X86Accumulate(acc, input, secret, 8 * e) = XXH3_accumulate_512_scalar(acc, input, secret)
<1>1. PICK w \in Accs : w = XXH3_accumulate_512_scalar(acc, input, secret) /\ \A k \in 1..8 : w[k] = AccumulatedBy(acc, input, secret, k)
  BY ScalarAccumulates
<1>2. PICK f : f = [n \in 1..(64 \div (8 * e)) |-> X86AccumulateBody(acc, input, secret, 8 * e, (8 * e) * (n - 1))]
  OBVIOUS
<1>3. ASSUME NEW n \in 1..(64 \div (8 * e)) PROVE f[n] \in Word(8 * e)
  <2>1. PICK o \in Nat : o = (8 * e) * (n - 1) /\ o + 8 * e <= 64
    BY Offsets
  <2>2. X86AccumulateBody(acc, input, secret, 8 * e, o) \in Word(8 * e)
    BY <2>1, X86AccumulateBodyLane
  <2> QED BY <1>2, <2>1, <2>2
<1>4. f \in [1..(64 \div (8 * e)) -> Word(8 * e)]
  BY <1>2, <1>3
<1>5. ASSUME NEW k \in 1..8, NEW r, NEW i, Placed(e, k, r, i) PROVE Lane(f[r + 1], i) = w[k]
  <2>1. PICK o \in Nat : o = 8 * (k - i)
    BY <1>5 DEF Placed
  <2>2. (8 * e) * ((r + 1) - 1) = o
    <3>1. (r + 1) - 1 = r
      BY <1>5 DEF Placed
    <3> QED BY <1>5, <2>1, <3>1 DEF Placed
  <2>3. f[r + 1] = X86AccumulateBody(acc, input, secret, 8 * e, o)
    <3>1. r + 1 \in 1..(64 \div (8 * e))
      BY <1>5 DEF Placed
    <3> QED BY <1>2, <2>2, <3>1
  <2>4. i \in 1..e /\ o + 8 * e <= 64 /\ k % 2 = i % 2
    BY <1>5, <2>1 DEF Placed
  <2>5. Lane(X86AccumulateBody(acc, input, secret, 8 * e, o), i) = AccumulatedBy(acc, input, secret, k)
    BY <2>1, <2>4, X86AccumulateBodyLane
  <2> QED BY <1>1, <2>3, <2>5
<1>6. Words64(Memory(Tuple(f))) = w
  <2>1. f \in Vec(64 \div (8 * e), Word(8 * e))
    BY <1>4 DEF Vec
  <2> QED BY <1>5, <2>1, LoopMakes
<1>7. X86Accumulate(acc, input, secret, 8 * e) = Words64(Memory(Tuple(f)))
  BY <1>2 DEF X86Accumulate, Registers, XXH_STRIPE_LEN, X86AccumulateBody
<1> QED BY <1>1, <1>6, <1>7

X86ScrambleBody(acc, secret, size, i) ==
  LET prime32     == Repeated(XXH_PRIME32_1, size \div 4)
      acc_vec     == Bytes(Memory(acc), i, size)
      data_key    == (acc_vec ^^ srli_epi64(acc_vec, 47)) ^^ Bytes(secret, i, size)
      data_key_hi == shuffle_epi32(data_key, 0, 3, 0, 1)
  IN add_epi64(mul_epu32(data_key, prime32), slli_epi64(mul_epu32(data_key_hi, prime32), 32))

(* The key that all of them scramble with: the accumulators, shifted, and  *)
(* the secret.                                                             *)
LEMMA ScrambleKey ==
  ASSUME NEW e \in Elements, NEW acc \in Accs, NEW secret \in Stripe, NEW o \in Nat, o + 8 * e <= 64
  PROVE  \E a \in Word(8 * e), key \in Word(8 * e) :
           /\ a = Bytes(Memory(acc), o, 8 * e)
           /\ key = (a ^^ srli_epi64(a, 47)) ^^ Bytes(secret, o, 8 * e)
           /\ \A i \in 1..e, k \in 1..8 : o = 8 * (k - i) =>
                Lane(key, i) = XorShift(acc[k], 47) ^^ Lane(secret, k)
<1>1. PICK y \in Word(8 * e) : /\ y = Bytes(secret, o, 8 * e)
                               /\ \A i \in 1..e, k \in Nat : o = 8 * (k - i) => Lane(y, i) = Lane(secret, k)
  BY RegisterOf
<1>2. PICK m \in Stripe : m = Memory(acc) /\ \A k \in 1..8 : Lane(m, k) = acc[k]
  BY MemoryOfAccs
<1>3. PICK a \in Word(8 * e) : /\ a = Bytes(m, o, 8 * e)
                               /\ \A i \in 1..e, k \in Nat : o = 8 * (k - i) => Lane(a, i) = Lane(m, k)
  BY RegisterOf
<1>4. PICK t \in Word(8 * e) : t = srli_epi64(a, 47) /\ \A i \in 1..e : Lane(t, i) = Shr(Lane(a, i), 47)
  <2>1. PICK n \in Nat : n = 47
    OBVIOUS
  <2>2. srli_epi64(a, n) \in Word(8 * e) /\ \A i \in 1..e : Lane(srli_epi64(a, n), i) = Shr(Lane(a, i), n)
    BY ShiftElementsRight
  <2> QED BY <2>1, <2>2
<1>5. PICK u \in Word(8 * e) : u = a ^^ t /\ \A i \in 1..e : Lane(u, i) = Lane(a, i) ^^ Lane(t, i)
  BY XorElements
<1>6. PICK key \in Word(8 * e) : key = u ^^ y /\ \A i \in 1..e : Lane(key, i) = Lane(u, i) ^^ Lane(y, i)
  BY XorElements
<1>7. ASSUME NEW i \in 1..e, NEW k \in 1..8, o = 8 * (k - i)
      PROVE  Lane(key, i) = XorShift(acc[k], 47) ^^ Lane(secret, k)
  <2>1. k \in Nat
    OBVIOUS
  <2>2. Lane(a, i) = acc[k] /\ Lane(y, i) = Lane(secret, k)
    BY <1>1, <1>2, <1>3, <1>7, <2>1
  <2>3. Lane(u, i) = XorShift(acc[k], 47)
    BY <1>4, <1>5, <2>2 DEF XorShift
  <2> QED BY <1>6, <2>2, <2>3
<1> QED BY <1>1, <1>2, <1>3, <1>4, <1>5, <1>6, <1>7

LEMMA ShiftedElements ==
  ASSUME NEW e \in Elements, NEW a \in Word(8 * e)
  PROVE  /\ slli_epi64(a, 32) \in Word(8 * e)
         /\ \A i \in 1..e : Lane(slli_epi64(a, 32), i) = Shl(Lane(a, i), 32)
<1>1. PICK n \in Nat : n = 32
  OBVIOUS
<1>2. slli_epi64(a, n) \in Word(8 * e) /\ \A i \in 1..e : Lane(slli_epi64(a, n), i) = Shl(Lane(a, i), n)
  BY ShiftElementsLeft
<1> QED BY <1>1, <1>2

LEMMA X86ScrambleBodyLane ==
  ASSUME NEW e \in Elements, NEW acc \in Accs, NEW secret \in Stripe, NEW o \in Nat, o + 8 * e <= 64
  PROVE  /\ X86ScrambleBody(acc, secret, 8 * e, o) \in Word(8 * e)
         /\ \A i \in 1..e, k \in 1..8 : o = 8 * (k - i) =>
              Lane(X86ScrambleBody(acc, secret, 8 * e, o), i) = ScrambledBy(acc, secret, k)
<1>1. PICK a \in Word(8 * e), key \in Word(8 * e) :
        /\ a = Bytes(Memory(acc), o, 8 * e)
        /\ key = (a ^^ srli_epi64(a, 47)) ^^ Bytes(secret, o, 8 * e)
        /\ \A i \in 1..e, k \in 1..8 : o = 8 * (k - i) => Lane(key, i) = XorShift(acc[k], 47) ^^ Lane(secret, k)
  BY ScrambleKey
<1>2. PICK prime \in Word(8 * e) : /\ prime = Repeated(XXH_PRIME32_1, (8 * e) \div 4)
                                   /\ \A i \in 1..e : Low(Lane(prime, i)) = XXH_PRIME32_1
  <2>1. e \in Nat \ {0} /\ (8 * e) \div 4 = 2 * e
    BY DEF Elements
  <2> QED BY <2>1, PrimeWord, RepeatedWord
<1>3. PICK hi \in Word(8 * e) : /\ hi = shuffle_epi32(key, 0, 3, 0, 1)
                                /\ \A i \in 1..e : Low(Lane(hi, i)) = High(Lane(key, i))
  BY UpperHalvesDown
<1>4. PICK p \in Word(8 * e) : /\ p = mul_epu32(key, prime)
                               /\ \A i \in 1..e : Lane(p, i) = XXH_mult32to64(Lane(key, i), Lane(prime, i))
  BY MulElements
<1>5. PICK q \in Word(8 * e) : /\ q = mul_epu32(hi, prime)
                               /\ \A i \in 1..e : Lane(q, i) = XXH_mult32to64(Lane(hi, i), Lane(prime, i))
  BY MulElements
<1>6. PICK s \in Word(8 * e) : s = slli_epi64(q, 32) /\ \A i \in 1..e : Lane(s, i) = Shl(Lane(q, i), 32)
  BY ShiftedElements
<1>7. PICK r \in Word(8 * e) : r = add_epi64(p, s) /\ \A i \in 1..e : Lane(r, i) = Lane(p, i) ++ Lane(s, i)
  BY AddElements
<1>8. X86ScrambleBody(acc, secret, 8 * e, o) = r
  BY <1>1, <1>2, <1>3, <1>4, <1>5, <1>6, <1>7 DEF X86ScrambleBody
<1>9. ASSUME NEW i \in 1..e, NEW k \in 1..8, o = 8 * (k - i) PROVE Lane(r, i) = ScrambledBy(acc, secret, k)
  <2>1. PICK d \in Word(8) : d = Lane(key, i) /\ d = XorShift(acc[k], 47) ^^ Lane(secret, k)
    BY <1>1, <1>9, ScrambledWord
  <2>2. Lane(prime, i) \in Word(8) /\ Lane(hi, i) \in Word(8)
    BY ElementsOfRegister
  <2>3. Lane(p, i) = Product(Low(d), XXH_PRIME32_1, 8)
    BY <1>2, <1>4, <2>1, <2>2, MultWord
  <2>4. Lane(q, i) = Product(High(d), XXH_PRIME32_1, 8)
    <3>1. XXH_mult32to64(Lane(hi, i), Lane(prime, i)) = Product(Low(Lane(hi, i)), Low(Lane(prime, i)), 8)
      BY <2>2, MultWord
    <3> QED BY <1>2, <1>3, <1>5, <2>1, <3>1
  <2>5. d ** Extend(XXH_PRIME32_1, 8)
        = Product(Low(d), XXH_PRIME32_1, 8) ++ Shl(Product(High(d), XXH_PRIME32_1, 8), 32)
    BY PrimeWord, ScrambledHalves
  <2> QED BY <1>6, <1>7, <2>1, <2>3, <2>4, <2>5 DEF ScrambledBy
<1> QED BY <1>8, <1>9

LEMMA X86Scrambles ==
  ASSUME NEW e \in Elements, NEW acc \in Accs, NEW secret \in Stripe
  PROVE  X86Scramble(acc, secret, 8 * e) = XXH3_scrambleAcc_scalar(acc, secret)
<1>1. PICK w \in Accs : w = XXH3_scrambleAcc_scalar(acc, secret) /\ \A k \in 1..8 : w[k] = ScrambledBy(acc, secret, k)
  BY ScalarScrambles
<1>2. PICK f : f = [n \in 1..(64 \div (8 * e)) |-> X86ScrambleBody(acc, secret, 8 * e, (8 * e) * (n - 1))]
  OBVIOUS
<1>3. ASSUME NEW n \in 1..(64 \div (8 * e)) PROVE f[n] \in Word(8 * e)
  <2>1. PICK o \in Nat : o = (8 * e) * (n - 1) /\ o + 8 * e <= 64
    BY Offsets
  <2>2. X86ScrambleBody(acc, secret, 8 * e, o) \in Word(8 * e)
    BY <2>1, X86ScrambleBodyLane
  <2> QED BY <1>2, <2>1, <2>2
<1>4. f \in [1..(64 \div (8 * e)) -> Word(8 * e)]
  BY <1>2, <1>3
<1>5. ASSUME NEW k \in 1..8, NEW r, NEW i, Placed(e, k, r, i) PROVE Lane(f[r + 1], i) = w[k]
  <2>1. PICK o \in Nat : o = 8 * (k - i)
    BY <1>5 DEF Placed
  <2>2. (8 * e) * ((r + 1) - 1) = o
    <3>1. (r + 1) - 1 = r
      BY <1>5 DEF Placed
    <3> QED BY <1>5, <2>1, <3>1 DEF Placed
  <2>3. f[r + 1] = X86ScrambleBody(acc, secret, 8 * e, o)
    <3>1. r + 1 \in 1..(64 \div (8 * e))
      BY <1>5 DEF Placed
    <3> QED BY <1>2, <2>2, <3>1
  <2>4. i \in 1..e /\ o + 8 * e <= 64 /\ k % 2 = i % 2
    BY <1>5, <2>1 DEF Placed
  <2>5. Lane(X86ScrambleBody(acc, secret, 8 * e, o), i) = ScrambledBy(acc, secret, k)
    BY <2>1, <2>4, X86ScrambleBodyLane
  <2> QED BY <1>1, <2>3, <2>5
<1>6. Words64(Memory(Tuple(f))) = w
  <2>1. f \in Vec(64 \div (8 * e), Word(8 * e))
    BY <1>4 DEF Vec
  <2> QED BY <1>5, <2>1, LoopMakes
<1>7. X86Scramble(acc, secret, 8 * e) = Words64(Memory(Tuple(f)))
  BY <1>2 DEF X86Scramble, Registers, XXH_STRIPE_LEN, X86ScrambleBody
<1> QED BY <1>1, <1>6, <1>7

-----------------------------------------------------------------------------
(***************************************************************************)
(* NEON and VSX: registers of two elements                                 *)
(***************************************************************************)
LEMMA HalvesOfPair ==
  ASSUME NEW x \in Word(4), NEW y \in Word(4)
  PROVE  x \o y \in Word(8) /\ Low(x \o y) = x /\ High(x \o y) = y
<1>1. PICK m \in Nat : m = 4 /\ m + m = 8
  OBVIOUS
<1>2. PICK s \in Word(8) : s = x \o y /\ \A i \in 1..8 : s[i] = IF i <= 4 THEN x[i] ELSE y[i - 4]
  <2>1. x \in Word(m) /\ y \in Word(m)
    BY <1>1
  <2>2. /\ x \o y \in Word(m + m)
        /\ \A i \in 1..(m + m) : (x \o y)[i] = IF i <= m THEN x[i] ELSE y[i - m]
    BY <2>1, ConcatWords
  <2> QED BY <1>1, <2>2
<1>3. Low(s) \in Word(4) /\ High(s) \in Word(4) /\ \A i \in 1..4 : Low(s)[i] = s[i] /\ High(s)[i] = s[i + 4]
  BY HalvesOfWord
<1>4. ASSUME NEW j \in 1..4 PROVE s[j] = x[j] /\ s[j + 4] = y[j]
  <2>1. j \in 1..8 /\ j <= 4
    OBVIOUS
  <2>2. j + 4 \in 1..8 /\ ~ (j + 4 <= 4) /\ (j + 4) - 4 = j
    OBVIOUS
  <2>3. s[j] = x[j]
    BY <1>2, <2>1
  <2>4. s[j + 4] = y[j]
    BY <1>2, <2>2
  <2> QED BY <2>3, <2>4
<1>5. Low(s) = x
  BY <1>3, <1>4, SameWord
<1>6. High(s) = y
  BY <1>3, <1>4, SameWord
<1> QED BY <1>2, <1>5, <1>6

LEMMA Vmull ==
  ASSUME NEW a \in Word(8), NEW b \in Word(8)
  PROVE  /\ vmull_u32(a, b) \in Word(16)
         /\ Lane(vmull_u32(a, b), 1) = Product(Low(a), Low(b), 8)
         /\ Lane(vmull_u32(a, b), 2) = Product(High(a), High(b), 8)
<1>1. PICK al \in Word(4), ah \in Word(4) : al = Low(a) /\ ah = High(a) /\ al = Bytes(a, 0, 4) /\ ah = Bytes(a, 4, 4)
  BY HalvesOfWord
<1>2. PICK bl \in Word(4), bh \in Word(4) : bl = Low(b) /\ bh = High(b) /\ bl = Bytes(b, 0, 4) /\ bh = Bytes(b, 4, 4)
  BY HalvesOfWord
<1>3. PICK x \in Word(8) : x = Product(al, bl, 8)
  BY ProductWord
<1>4. PICK y \in Word(8) : y = Product(ah, bh, 8)
  BY ProductWord
<1>5. vmull_u32(a, b) = x \o y
  BY <1>1, <1>2, <1>3, <1>4 DEF vmull_u32
<1> QED BY <1>1, <1>2, <1>3, <1>4, <1>5, PairOfElements

LEMMA LanesOfPair ==
  ASSUME NEW x \in Word(16)
  PROVE  /\ Lane(x, 1) \in Word(8) /\ Lane(x, 2) \in Word(8)
         /\ Lane(x, 1) = XXH_readLE64(x, 0) /\ Lane(x, 2) = XXH_readLE64(x, 8)
<1>1. Lane(x, 1) \in Word(8) /\ Lane(x, 2) \in Word(8)
  BY LaneWord
<1>2. 8 * (1 - 1) = 0 /\ 8 * (2 - 1) = 8
  OBVIOUS
<1> QED BY <1>1, <1>2 DEF Lane

LEMMA LowHalves ==
  ASSUME NEW x \in Word(16)
  PROVE  /\ Halves(x, Low) \in Word(8)
         /\ Low(Halves(x, Low)) = Low(Lane(x, 1)) /\ High(Halves(x, Low)) = Low(Lane(x, 2))
<1>1. PICK a \in Word(4), b \in Word(4) : a = Low(Lane(x, 1)) /\ b = Low(Lane(x, 2))
  BY LanesOfPair, HalvesOfWord
<1>2. Halves(x, Low) = a \o b
  BY <1>1, LanesOfPair DEF Halves
<1> QED BY <1>1, <1>2, HalvesOfPair

LEMMA HighHalves ==
  ASSUME NEW x \in Word(16)
  PROVE  /\ Halves(x, High) \in Word(8)
         /\ Low(Halves(x, High)) = High(Lane(x, 1)) /\ High(Halves(x, High)) = High(Lane(x, 2))
<1>1. PICK a \in Word(4), b \in Word(4) : a = High(Lane(x, 1)) /\ b = High(Lane(x, 2))
  BY LanesOfPair, HalvesOfWord
<1>2. Halves(x, High) = a \o b
  BY <1>1, LanesOfPair DEF Halves
<1> QED BY <1>1, <1>2, HalvesOfPair

LEMMA MuloElements ==
  ASSUME NEW x \in Word(16), NEW y \in Word(16)
  PROVE  /\ XXH_vec_mulo(x, y) \in Word(16)
         /\ \A i \in 1..2 : Lane(XXH_vec_mulo(x, y), i) = Product(Low(Lane(x, i)), Low(Lane(y, i)), 8)
<1>1. PICK a \in Word(8) : a = Halves(x, Low) /\ Low(a) = Low(Lane(x, 1)) /\ High(a) = Low(Lane(x, 2))
  BY LowHalves
<1>2. PICK b \in Word(8) : b = Halves(y, Low) /\ Low(b) = Low(Lane(y, 1)) /\ High(b) = Low(Lane(y, 2))
  BY LowHalves
<1>3. XXH_vec_mulo(x, y) = vmull_u32(a, b)
  BY <1>1, <1>2 DEF XXH_vec_mulo
<1>4. PICK c \in Word(16) : /\ c = vmull_u32(a, b)
                            /\ Lane(c, 1) = Product(Low(a), Low(b), 8) /\ Lane(c, 2) = Product(High(a), High(b), 8)
  BY Vmull
<1>5. \A i \in 1..2 : Lane(c, i) = Product(Low(Lane(x, i)), Low(Lane(y, i)), 8)
  <2>1. TAKE i \in 1..2
  <2>2. CASE i = 1
    BY <1>1, <1>2, <1>4, <2>2
  <2>3. CASE i = 2
    BY <1>1, <1>2, <1>4, <2>3
  <2> QED BY <2>2, <2>3
<1> QED BY <1>3, <1>4, <1>5

LEMMA MuleElements ==
  ASSUME NEW x \in Word(16), NEW y \in Word(16)
  PROVE  /\ XXH_vec_mule(x, y) \in Word(16)
         /\ \A i \in 1..2 : Lane(XXH_vec_mule(x, y), i) = Product(High(Lane(x, i)), High(Lane(y, i)), 8)
<1>1. PICK a \in Word(8) : a = Halves(x, High) /\ Low(a) = High(Lane(x, 1)) /\ High(a) = High(Lane(x, 2))
  BY HighHalves
<1>2. PICK b \in Word(8) : b = Halves(y, High) /\ Low(b) = High(Lane(y, 1)) /\ High(b) = High(Lane(y, 2))
  BY HighHalves
<1>3. XXH_vec_mule(x, y) = vmull_u32(a, b)
  BY <1>1, <1>2 DEF XXH_vec_mule
<1>4. PICK c \in Word(16) : /\ c = vmull_u32(a, b)
                            /\ Lane(c, 1) = Product(Low(a), Low(b), 8) /\ Lane(c, 2) = Product(High(a), High(b), 8)
  BY Vmull
<1>5. \A i \in 1..2 : Lane(c, i) = Product(High(Lane(x, i)), High(Lane(y, i)), 8)
  <2>1. TAKE i \in 1..2
  <2>2. CASE i = 1
    BY <1>1, <1>2, <1>4, <2>2
  <2>3. CASE i = 2
    BY <1>1, <1>2, <1>4, <2>3
  <2> QED BY <2>2, <2>3
<1> QED BY <1>3, <1>4, <1>5

LEMMA SwappedPair ==
  ASSUME NEW x \in Word(16)
  PROVE  SwappedElements(x) \in Word(16) /\ \A i \in 1..2 : Lane(SwappedElements(x), i) = Lane(x, Neighbour(i))
<1>1. PICK a \in Word(8), b \in Word(8) : a = Lane(x, 1) /\ b = Lane(x, 2)
  BY LanesOfPair
<1>2. SwappedElements(x) = b \o a
  BY <1>1, LanesOfPair DEF SwappedElements, XXH_readLE64
<1>3. \A i \in 1..2 : (i = 1 /\ Neighbour(i) = 2) \/ (i = 2 /\ Neighbour(i) = 1)
  BY DEF Neighbour
<1> QED BY <1>1, <1>2, <1>3, PairOfElements

LEMMA SumReorder ==
  ASSUME NEW a \in Word(8), NEW b \in Word(8), NEW c \in Word(8)
  PROVE  (a ++ b) ++ c = (a ++ c) ++ b
<1>1. PICK x \in Word(8), y \in Word(8) : x = a ++ b /\ y = a ++ c
  BY SumWord
<1>2. PICK u \in Word(8), v \in Word(8) : u = x ++ c /\ v = y ++ b
  BY SumWord
<1>3. PICK q1 \in Int : Value(a ++ b) = Value(a) + Value(b) + q1 * Modulus
  BY SumValue
<1>4. PICK q2 \in Int : Value(a ++ c) = Value(a) + Value(c) + q2 * Modulus
  BY SumValue
<1>5. PICK q3 \in Int : Value(x ++ c) = Value(x) + Value(c) + q3 * Modulus
  BY SumValue
<1>6. PICK q4 \in Int : Value(y ++ b) = Value(y) + Value(b) + q4 * Modulus
  BY SumValue
<1>7. \A w \in Word(8) : Value(w) \in Int
  <2>1. TAKE w \in Word(8)
  <2>2. w \in [1..8 -> Nat]
    BY BytesAreNaturals
  <2> QED BY <2>2, ValueIsNumber
<1>8. PICK va \in Int, vb \in Int, vc \in Int, vx \in Int, vy \in Int, vu \in Int, vv \in Int :
        /\ va = Value(a) /\ vb = Value(b) /\ vc = Value(c) /\ vx = Value(x) /\ vy = Value(y)
        /\ vu = Value(u) /\ vv = Value(v)
  BY <1>7
<1>9. PICK q \in Int : q = (q1 + q3) - (q2 + q4)
  OBVIOUS
<1>10. vu = vv + q * 18446744073709551616
  <2>1. /\ vx = va + vb + q1 * 18446744073709551616 /\ vy = va + vc + q2 * 18446744073709551616
        /\ vu = vx + vc + q3 * 18446744073709551616 /\ vv = vy + vb + q4 * 18446744073709551616
    BY <1>1, <1>2, <1>3, <1>4, <1>5, <1>6, <1>8 DEF Modulus
  <2> QED BY <1>9, <2>1
<1>11. Value(u) = Value(v) + q * Modulus
  BY <1>8, <1>10 DEF Modulus
<1>12. u = v
  BY <1>11, OneWord
<1> QED BY <1>1, <1>2, <1>12

LEMMA ShiftByNothing ==
  ASSUME NEW a \in Word(8)
  PROVE  Shl(a, 0) = a
<1>1. PICK r \in Nat : r = 0 /\ r \div 8 = 0 /\ r % 8 = 0
  OBVIOUS
<1>2. 2^0 = 1 /\ 2^8 = 256 /\ 8 - 0 = 8
  OBVIOUS
<1>3. Shl(a, r) \in Word(8) /\ \A i \in 1..8 : Shl(a, r)[i] = ShlDigit(a, r, i)
  BY ShlWord
<1>4. \A i \in 1..8 : Shl(a, r)[i] = (At(a, i - 0) * 1 + (At(a, i - 1 - 0) \div 256)) % 256
  BY <1>1, <1>2, <1>3 DEF ShlDigit
<1>5. ASSUME NEW i \in 1..8 PROVE Shl(a, r)[i] = a[i]
  <2>1. PICK x \in 0..255 : x = At(a, i - 0)
    BY AtIsNatural
  <2>2. PICK y \in 0..255 : y = At(a, i - 1 - 0)
    BY AtIsNatural
  <2>3. (x * 1 + (y \div 256)) % 256 = x
    OBVIOUS
  <2>4. At(a, i - 0) = a[i]
    <3>1. Len(a) = 8 /\ i - 0 = i
      BY LenOfFunction DEF Word
    <3> QED BY <3>1 DEF At
  <2> QED BY <1>4, <2>1, <2>2, <2>3, <2>4
<1>6. Shl(a, r) = a
  BY <1>3, <1>5, SameWord
<1> QED BY <1>1, <1>6

(* Rotated by half its width, a word has its halves exchanged. *)
LEMMA RotatedByHalf ==
  ASSUME NEW a \in Word(8)
  PROVE  Rotl(a, 32) \in Word(8) /\ Low(Rotl(a, 32)) = High(a)
<1>1. Len(a) = 8 /\ 32 \div 8 = 4 /\ 32 % 8 = 0 /\ 8 - 0 = 8 /\ 2^8 = 256
  BY LenOfFunction DEF Word
<1>2. PICK l \in Word(4), h \in Word(4) : l = Low(a) /\ h = High(a) /\ l = Bytes(a, 0, 4) /\ h = Bytes(a, 4, 4)
  BY HalvesOfWord
<1>3. PICK s \in Word(8) : s = h \o l /\ Low(s) = h
  BY HalvesOfPair
<1>4. PICK y \in 0..255 : y = Bytes(a, 3, 1)[1]
  <2>1. Bytes(a, 3, 1) \in Word(1)
    BY BytesWord
  <2> QED BY <2>1 DEF Word, Byte
<1>5. Extend(<<y \div 256>>, 8) = Zero(8)
  <2>1. y \div 256 = 0
    OBVIOUS
  <2>2. PICK w \in Word(1) : w = <<0>> /\ w[1] = 0
    <3>1. <<0>> \in Word(1)
      BY DEF Word, Byte
    <3> QED BY <3>1
  <2>3. Extend(w, 8) \in Word(8) /\ \A i \in 1..8 : Extend(w, 8)[i] = IF i <= 1 THEN w[i] ELSE 0
    BY ExtendWord
  <2>4. Zero(8) \in Word(8) /\ \A i \in 1..8 : Zero(8)[i] = 0
    BY ZeroWord
  <2>5. \A i \in 1..8 : Extend(w, 8)[i] = Zero(8)[i]
    BY <2>2, <2>3, <2>4
  <2>6. Extend(w, 8) = Zero(8)
    BY <2>3, <2>4, <2>5, SameWord
  <2> QED BY <2>1, <2>2, <2>6
<1>6. Rotl(a, 32) = Shl(h \o l, 0) ++ Extend(<<y \div 256>>, 8)
  <2>1. 8 - 4 = 4 /\ 8 - 4 - 1 = 3
    OBVIOUS
  <2> QED BY <1>1, <1>2, <1>4, <2>1 DEF Rotl
<1>7. Rotl(a, 32) = s
  BY <1>3, <1>5, <1>6, ShiftByNothing, SumWithZero
<1> QED BY <1>2, <1>3, <1>7

\* What the elements of a register of 128 bits are, for the two of them
LEMMA Registers128 ==
  /\ \A p \in Stripe : \A o \in Nat : o + 16 <= 64 =>
       /\ Bytes(p, o, 16) \in Word(16)
       /\ \A i \in 1..2, k \in Nat : o = 8 * (k - i) => Lane(Bytes(p, o, 16), i) = Lane(p, k)
  /\ \A a, b \in Word(16) :
       /\ add_epi64(a, b) \in Word(16) /\ \A i \in 1..2 : Lane(add_epi64(a, b), i) = Lane(a, i) ++ Lane(b, i)
       /\ a ^^ b \in Word(16) /\ \A i \in 1..2 : Lane(a ^^ b, i) = Lane(a, i) ^^ Lane(b, i)
  /\ \A a \in Word(16) :
       /\ slli_epi64(a, 32) \in Word(16) /\ \A i \in 1..2 : Lane(slli_epi64(a, 32), i) = Shl(Lane(a, i), 32)
       /\ vec_rl(a, 32) \in Word(16) /\ \A i \in 1..2 : Lane(vec_rl(a, 32), i) = Rotl(Lane(a, i), 32)
       /\ \A i \in 1..2 : Lane(a, i) \in Word(8)
<1>1. PICK e \in Elements : e = 2 /\ 8 * e = 16
  BY DEF Elements
<1>2. ASSUME NEW p \in Stripe, NEW o \in Nat, o + 16 <= 64
      PROVE  /\ Bytes(p, o, 16) \in Word(16)
             /\ \A i \in 1..2, k \in Nat : o = 8 * (k - i) => Lane(Bytes(p, o, 16), i) = Lane(p, k)
  <2>1. o + 8 * e <= 64
    BY <1>1, <1>2
  <2>2. /\ Bytes(p, o, 8 * e) \in Word(8 * e)
        /\ \A i \in 1..e, k \in Nat : o = 8 * (k - i) => Lane(Bytes(p, o, 8 * e), i) = Lane(p, k)
    BY <2>1, RegisterOf
  <2> QED BY <1>1, <2>2
<1>3. ASSUME NEW a \in Word(16), NEW b \in Word(16)
      PROVE  /\ add_epi64(a, b) \in Word(16) /\ \A i \in 1..2 : Lane(add_epi64(a, b), i) = Lane(a, i) ++ Lane(b, i)
             /\ a ^^ b \in Word(16) /\ \A i \in 1..2 : Lane(a ^^ b, i) = Lane(a, i) ^^ Lane(b, i)
  <2>1. a \in Word(8 * e) /\ b \in Word(8 * e)
    BY <1>1
  <2>2. add_epi64(a, b) \in Word(8 * e) /\ \A i \in 1..e : Lane(add_epi64(a, b), i) = Lane(a, i) ++ Lane(b, i)
    BY <2>1, AddElements
  <2>3. a ^^ b \in Word(8 * e) /\ \A i \in 1..e : Lane(a ^^ b, i) = Lane(a, i) ^^ Lane(b, i)
    BY <2>1, XorElements
  <2> QED BY <1>1, <2>2, <2>3
<1>4. ASSUME NEW a \in Word(16)
      PROVE  /\ slli_epi64(a, 32) \in Word(16) /\ \A i \in 1..2 : Lane(slli_epi64(a, 32), i) = Shl(Lane(a, i), 32)
             /\ vec_rl(a, 32) \in Word(16) /\ \A i \in 1..2 : Lane(vec_rl(a, 32), i) = Rotl(Lane(a, i), 32)
             /\ \A i \in 1..2 : Lane(a, i) \in Word(8)
  <2>1. a \in Word(8 * e)
    BY <1>1
  <2>2. slli_epi64(a, 32) \in Word(8 * e) /\ \A i \in 1..e : Lane(slli_epi64(a, 32), i) = Shl(Lane(a, i), 32)
    BY <2>1, ShiftedElements
  <2>3. PICK n \in 0..63 : n = 32
    OBVIOUS
  <2>4. vec_rl(a, n) \in Word(8 * e) /\ \A i \in 1..e : Lane(vec_rl(a, n), i) = Rotl(Lane(a, i), n)
    BY <2>1, RotateElements
  <2>5. \A i \in 1..e : Lane(a, i) \in Word(8)
    BY <2>1, ElementsOfRegister
  <2> QED BY <1>1, <2>2, <2>3, <2>4, <2>5
<1> QED BY <1>2, <1>3, <1>4

NeonAccumulateBody(acc, input, secret, i) ==
  LET data_vec == Bytes(input, i, 16)
      data_key == data_vec ^^ Bytes(secret, i, 16)
  IN add_epi64(add_epi64(Bytes(Memory(acc), i, 16), SwappedElements(data_vec)),
               vmull_u32(Halves(data_key, Low), Halves(data_key, High)))

VsxAccumulateBody(acc, input, secret, i) ==
  LET data_vec == Bytes(input, i, 16)
      data_key == data_vec ^^ Bytes(secret, i, 16)
  IN add_epi64(add_epi64(Bytes(Memory(acc), i, 16), XXH_vec_mulo(data_key, vec_rl(data_key, 32))),
               SwappedElements(data_vec))

(* What both accumulate from: the accumulators, the neighbours and the key *)
LEMMA Operands128 ==
  ASSUME NEW acc \in Accs, NEW input \in Stripe, NEW secret \in Stripe, NEW o \in Nat, o + 16 <= 64
  PROVE  \E a \in Word(16), swap \in Word(16), key \in Word(16) :
           /\ a = Bytes(Memory(acc), o, 16)
           /\ swap = SwappedElements(Bytes(input, o, 16))
           /\ key = Bytes(input, o, 16) ^^ Bytes(secret, o, 16)
           /\ \A i \in 1..2, k \in 1..8 : o = 8 * (k - i) /\ k % 2 = i % 2 =>
                /\ Lane(a, i) = acc[k] /\ Lane(swap, i) = Lane(input, Neighbour(k))
                /\ Lane(key, i) = Lane(input, k) ^^ Lane(secret, k)
<1>1. PICK x \in Word(16) : /\ x = Bytes(input, o, 16)
                            /\ \A i \in 1..2, k \in Nat : o = 8 * (k - i) => Lane(x, i) = Lane(input, k)
  BY Registers128
<1>2. PICK y \in Word(16) : /\ y = Bytes(secret, o, 16)
                            /\ \A i \in 1..2, k \in Nat : o = 8 * (k - i) => Lane(y, i) = Lane(secret, k)
  BY Registers128
<1>3. PICK m \in Stripe : m = Memory(acc) /\ \A k \in 1..8 : Lane(m, k) = acc[k]
  BY MemoryOfAccs
<1>4. PICK a \in Word(16) : /\ a = Bytes(m, o, 16)
                            /\ \A i \in 1..2, k \in Nat : o = 8 * (k - i) => Lane(a, i) = Lane(m, k)
  BY Registers128
<1>5. PICK key \in Word(16) : key = x ^^ y /\ \A i \in 1..2 : Lane(key, i) = Lane(x, i) ^^ Lane(y, i)
  BY Registers128
<1>6. PICK swap \in Word(16) : /\ swap = SwappedElements(x)
                               /\ \A i \in 1..2 : Lane(swap, i) = Lane(x, Neighbour(i))
  BY SwappedPair
<1>7. ASSUME NEW i \in 1..2, NEW k \in 1..8, o = 8 * (k - i), k % 2 = i % 2
      PROVE  /\ Lane(a, i) = acc[k] /\ Lane(swap, i) = Lane(input, Neighbour(k))
             /\ Lane(key, i) = Lane(input, k) ^^ Lane(secret, k)
  <2>1. k \in Nat
    OBVIOUS
  <2>2. Lane(a, i) = acc[k] /\ Lane(key, i) = Lane(input, k) ^^ Lane(secret, k)
    BY <1>1, <1>2, <1>3, <1>4, <1>5, <1>7, <2>1
  <2>3. Neighbour(i) \in 1..2 /\ Neighbour(k) \in Nat /\ o = 8 * (Neighbour(k) - Neighbour(i))
    BY <1>7 DEF Neighbour
  <2> QED BY <1>1, <1>6, <2>2, <2>3
<1> QED BY <1>1, <1>2, <1>3, <1>4, <1>5, <1>6, <1>7

LEMMA NeonAccumulateBodyLane ==
  ASSUME NEW acc \in Accs, NEW input \in Stripe, NEW secret \in Stripe, NEW o \in Nat, o + 16 <= 64
  PROVE  /\ NeonAccumulateBody(acc, input, secret, o) \in Word(16)
         /\ \A i \in 1..2, k \in 1..8 : o = 8 * (k - i) /\ k % 2 = i % 2 =>
              Lane(NeonAccumulateBody(acc, input, secret, o), i) = AccumulatedBy(acc, input, secret, k)
<1>1. PICK a \in Word(16), swap \in Word(16), key \in Word(16) :
        /\ a = Bytes(Memory(acc), o, 16)
        /\ swap = SwappedElements(Bytes(input, o, 16))
        /\ key = Bytes(input, o, 16) ^^ Bytes(secret, o, 16)
        /\ \A i \in 1..2, k \in 1..8 : o = 8 * (k - i) /\ k % 2 = i % 2 =>
             /\ Lane(a, i) = acc[k] /\ Lane(swap, i) = Lane(input, Neighbour(k))
             /\ Lane(key, i) = Lane(input, k) ^^ Lane(secret, k)
  BY Operands128
<1>2. PICK p \in Word(16) : /\ p = vmull_u32(Halves(key, Low), Halves(key, High))
                            /\ \A i \in 1..2 : Lane(p, i) = Product(Low(Lane(key, i)), High(Lane(key, i)), 8)
  <2>1. PICK l \in Word(8) : l = Halves(key, Low) /\ Low(l) = Low(Lane(key, 1)) /\ High(l) = Low(Lane(key, 2))
    BY LowHalves
  <2>2. PICK h \in Word(8) : h = Halves(key, High) /\ Low(h) = High(Lane(key, 1)) /\ High(h) = High(Lane(key, 2))
    BY HighHalves
  <2>3. PICK p \in Word(16) : /\ p = vmull_u32(l, h)
                              /\ Lane(p, 1) = Product(Low(l), Low(h), 8) /\ Lane(p, 2) = Product(High(l), High(h), 8)
    BY Vmull
  <2>4. \A i \in 1..2 : Lane(p, i) = Product(Low(Lane(key, i)), High(Lane(key, i)), 8)
    <3>1. TAKE i \in 1..2
    <3>2. CASE i = 1
      BY <2>1, <2>2, <2>3, <3>2
    <3>3. CASE i = 2
      BY <2>1, <2>2, <2>3, <3>3
    <3> QED BY <3>2, <3>3
  <2> QED BY <2>1, <2>2, <2>3, <2>4
<1>3. PICK s \in Word(16) : s = add_epi64(a, swap) /\ \A i \in 1..2 : Lane(s, i) = Lane(a, i) ++ Lane(swap, i)
  BY Registers128
<1>4. PICK r \in Word(16) : r = add_epi64(s, p) /\ \A i \in 1..2 : Lane(r, i) = Lane(s, i) ++ Lane(p, i)
  BY Registers128
<1>5. NeonAccumulateBody(acc, input, secret, o) = r
  BY <1>1, <1>2, <1>3, <1>4 DEF NeonAccumulateBody
<1>6. ASSUME NEW i \in 1..2, NEW k \in 1..8, o = 8 * (k - i), k % 2 = i % 2
      PROVE  Lane(r, i) = AccumulatedBy(acc, input, secret, k)
  <2>1. PICK d \in Word(8) : d = Lane(key, i) /\ d = Lane(input, k) ^^ Lane(secret, k)
    BY <1>1, <1>6, AccumulatedWord
  <2>2. PICK c \in Word(8) : c = acc[k] /\ c = Lane(a, i)
    BY <1>1, <1>6, AccumulatedWord
  <2>3. PICK n \in Word(8) : n = Lane(input, Neighbour(k)) /\ n = Lane(swap, i)
    BY <1>1, <1>6, AccumulatedWord
  <2>4. PICK q \in Word(8) : q = Product(Low(d), High(d), 8)
    BY HalvesOfWord, ProductWord
  <2>5. Lane(r, i) = (c ++ n) ++ q
    BY <1>2, <1>3, <1>4, <2>1, <2>2, <2>3, <2>4
  <2> QED BY <2>1, <2>2, <2>3, <2>4, <2>5 DEF AccumulatedBy
<1> QED BY <1>5, <1>6, <1>4

LEMMA NeonAccumulates ==
  ASSUME NEW acc \in Accs, NEW input \in Stripe, NEW secret \in Stripe
  PROVE  XXH3_accumulate_512_neon(acc, input, secret) = XXH3_accumulate_512_scalar(acc, input, secret)
<1>1. PICK w \in Accs : w = XXH3_accumulate_512_scalar(acc, input, secret) /\ \A k \in 1..8 : w[k] = AccumulatedBy(acc, input, secret, k)
  BY ScalarAccumulates
<1>2. PICK f : f = [n \in 1..(64 \div 16) |-> NeonAccumulateBody(acc, input, secret, 16 * (n - 1))]
  OBVIOUS
<1>3. ASSUME NEW n \in 1..(64 \div 16) PROVE f[n] \in Word(16)
  <2>1. PICK o \in Nat : o = 16 * (n - 1) /\ o + 16 <= 64
    OBVIOUS
  <2>2. NeonAccumulateBody(acc, input, secret, o) \in Word(16)
    BY <2>1, NeonAccumulateBodyLane
  <2> QED BY <1>2, <2>1, <2>2
<1>4. f \in [1..(64 \div 16) -> Word(16)]
  BY <1>2, <1>3
<1>5. ASSUME NEW k \in 1..8, NEW r, NEW i, Placed(2, k, r, i) PROVE Lane(f[r + 1], i) = w[k]
  <2>1. /\ r \in 0..7 /\ i \in 1..2 /\ r + 1 \in 1..(64 \div 16) /\ 16 * r = 8 * (k - i)
        /\ 8 * (k - i) \in Nat /\ 8 * (k - i) + 16 <= 64 /\ k % 2 = i % 2
    BY <1>5 DEF Placed
  <2>2. PICK o \in Nat : o = 8 * (k - i) /\ o + 16 <= 64 /\ o = 16 * ((r + 1) - 1)
    BY <2>1
  <2>3. f[r + 1] = NeonAccumulateBody(acc, input, secret, o)
    BY <1>2, <2>1, <2>2
  <2>4. Lane(NeonAccumulateBody(acc, input, secret, o), i) = AccumulatedBy(acc, input, secret, k)
    BY <2>1, <2>2, NeonAccumulateBodyLane
  <2> QED BY <1>1, <2>3, <2>4
<1>6. Words64(Memory(Tuple(f))) = w
  <2>1. PICK e \in Elements : e = 2 /\ 8 * e = 16
    BY DEF Elements
  <2>2. f \in Vec(64 \div (8 * e), Word(8 * e))
    BY <1>4, <2>1 DEF Vec
  <2>3. \A k \in 1..8 : \A r, i : Placed(e, k, r, i) => Lane(f[r + 1], i) = w[k]
    BY <1>5, <2>1
  <2> QED BY <2>2, <2>3, LoopMakes
<1>7. XXH3_accumulate_512_neon(acc, input, secret) = Words64(Memory(Tuple(f)))
  BY <1>2 DEF XXH3_accumulate_512_neon, NeonAccumulateBody, Registers, XXH_STRIPE_LEN
<1> QED BY <1>1, <1>6, <1>7

LEMMA VsxAccumulateBodyLane ==
  ASSUME NEW acc \in Accs, NEW input \in Stripe, NEW secret \in Stripe, NEW o \in Nat, o + 16 <= 64
  PROVE  /\ VsxAccumulateBody(acc, input, secret, o) \in Word(16)
         /\ \A i \in 1..2, k \in 1..8 : o = 8 * (k - i) /\ k % 2 = i % 2 =>
              Lane(VsxAccumulateBody(acc, input, secret, o), i) = AccumulatedBy(acc, input, secret, k)
<1>1. PICK a \in Word(16), swap \in Word(16), key \in Word(16) :
        /\ a = Bytes(Memory(acc), o, 16)
        /\ swap = SwappedElements(Bytes(input, o, 16))
        /\ key = Bytes(input, o, 16) ^^ Bytes(secret, o, 16)
        /\ \A i \in 1..2, k \in 1..8 : o = 8 * (k - i) /\ k % 2 = i % 2 =>
             /\ Lane(a, i) = acc[k] /\ Lane(swap, i) = Lane(input, Neighbour(k))
             /\ Lane(key, i) = Lane(input, k) ^^ Lane(secret, k)
  BY Operands128
<1>2. PICK p \in Word(16) : /\ p = XXH_vec_mulo(key, vec_rl(key, 32))
                            /\ \A i \in 1..2 : Lane(p, i) = Product(Low(Lane(key, i)), High(Lane(key, i)), 8)
  <2>1. PICK t \in Word(16) : t = vec_rl(key, 32) /\ \A i \in 1..2 : Lane(t, i) = Rotl(Lane(key, i), 32)
    BY Registers128
  <2>2. XXH_vec_mulo(key, t) \in Word(16)
    BY MuloElements
  <2>3. \A i \in 1..2 : Lane(XXH_vec_mulo(key, t), i) = Product(Low(Lane(key, i)), Low(Lane(t, i)), 8)
    BY MuloElements
  <2>4. \A i \in 1..2 : Low(Lane(t, i)) = High(Lane(key, i))
    BY <2>1, Registers128, RotatedByHalf
  <2> QED BY <2>1, <2>2, <2>3, <2>4
<1>3. PICK s \in Word(16) : s = add_epi64(a, p) /\ \A i \in 1..2 : Lane(s, i) = Lane(a, i) ++ Lane(p, i)
  BY Registers128
<1>4. PICK r \in Word(16) : r = add_epi64(s, swap) /\ \A i \in 1..2 : Lane(r, i) = Lane(s, i) ++ Lane(swap, i)
  BY Registers128
<1>5. VsxAccumulateBody(acc, input, secret, o) = r
  BY <1>1, <1>2, <1>3, <1>4 DEF VsxAccumulateBody
<1>6. ASSUME NEW i \in 1..2, NEW k \in 1..8, o = 8 * (k - i), k % 2 = i % 2
      PROVE  Lane(r, i) = AccumulatedBy(acc, input, secret, k)
  <2>1. PICK d \in Word(8) : d = Lane(key, i) /\ d = Lane(input, k) ^^ Lane(secret, k)
    BY <1>1, <1>6, AccumulatedWord
  <2>2. PICK c \in Word(8) : c = acc[k] /\ c = Lane(a, i)
    BY <1>1, <1>6, AccumulatedWord
  <2>3. PICK n \in Word(8) : n = Lane(input, Neighbour(k)) /\ n = Lane(swap, i)
    BY <1>1, <1>6, AccumulatedWord
  <2>4. PICK q \in Word(8) : q = Product(Low(d), High(d), 8)
    BY HalvesOfWord, ProductWord
  <2>5. Lane(r, i) = (c ++ q) ++ n
    BY <1>2, <1>3, <1>4, <2>1, <2>2, <2>3, <2>4
  <2>6. (c ++ q) ++ n = (c ++ n) ++ q
    BY SumReorder
  <2> QED BY <2>1, <2>2, <2>3, <2>4, <2>5, <2>6 DEF AccumulatedBy
<1> QED BY <1>5, <1>6, <1>4

LEMMA VsxAccumulates ==
  ASSUME NEW acc \in Accs, NEW input \in Stripe, NEW secret \in Stripe
  PROVE  XXH3_accumulate_512_vsx(acc, input, secret) = XXH3_accumulate_512_scalar(acc, input, secret)
<1>1. PICK w \in Accs : w = XXH3_accumulate_512_scalar(acc, input, secret) /\ \A k \in 1..8 : w[k] = AccumulatedBy(acc, input, secret, k)
  BY ScalarAccumulates
<1>2. PICK f : f = [n \in 1..(64 \div 16) |-> VsxAccumulateBody(acc, input, secret, 16 * (n - 1))]
  OBVIOUS
<1>3. ASSUME NEW n \in 1..(64 \div 16) PROVE f[n] \in Word(16)
  <2>1. PICK o \in Nat : o = 16 * (n - 1) /\ o + 16 <= 64
    OBVIOUS
  <2>2. VsxAccumulateBody(acc, input, secret, o) \in Word(16)
    BY <2>1, VsxAccumulateBodyLane
  <2> QED BY <1>2, <2>1, <2>2
<1>4. f \in [1..(64 \div 16) -> Word(16)]
  BY <1>2, <1>3
<1>5. ASSUME NEW k \in 1..8, NEW r, NEW i, Placed(2, k, r, i) PROVE Lane(f[r + 1], i) = w[k]
  <2>1. /\ r \in 0..7 /\ i \in 1..2 /\ r + 1 \in 1..(64 \div 16) /\ 16 * r = 8 * (k - i)
        /\ 8 * (k - i) \in Nat /\ 8 * (k - i) + 16 <= 64 /\ k % 2 = i % 2
    BY <1>5 DEF Placed
  <2>2. PICK o \in Nat : o = 8 * (k - i) /\ o + 16 <= 64 /\ o = 16 * ((r + 1) - 1)
    BY <2>1
  <2>3. f[r + 1] = VsxAccumulateBody(acc, input, secret, o)
    BY <1>2, <2>1, <2>2
  <2>4. Lane(VsxAccumulateBody(acc, input, secret, o), i) = AccumulatedBy(acc, input, secret, k)
    BY <2>1, <2>2, VsxAccumulateBodyLane
  <2> QED BY <1>1, <2>3, <2>4
<1>6. Words64(Memory(Tuple(f))) = w
  <2>1. PICK e \in Elements : e = 2 /\ 8 * e = 16
    BY DEF Elements
  <2>2. f \in Vec(64 \div (8 * e), Word(8 * e))
    BY <1>4, <2>1 DEF Vec
  <2>3. \A k \in 1..8 : \A r, i : Placed(e, k, r, i) => Lane(f[r + 1], i) = w[k]
    BY <1>5, <2>1
  <2> QED BY <2>2, <2>3, LoopMakes
<1>7. XXH3_accumulate_512_vsx(acc, input, secret) = Words64(Memory(Tuple(f)))
  BY <1>2 DEF XXH3_accumulate_512_vsx, VsxAccumulateBody, Registers, XXH_STRIPE_LEN
<1> QED BY <1>1, <1>6, <1>7

NeonScrambleBody(acc, secret, i) ==
  LET prime    == Repeated(XXH_PRIME32_1, 2)
      acc_vec  == Bytes(Memory(acc), i, 16)
      data_key == (acc_vec ^^ srli_epi64(acc_vec, 47)) ^^ Bytes(secret, i, 16)
  IN add_epi64(slli_epi64(vmull_u32(Halves(data_key, High), prime), 32), vmull_u32(Halves(data_key, Low), prime))

VsxScrambleBody(acc, secret, i) ==
  LET prime    == Repeated(XXH_PRIME32_1, 4)
      acc_vec  == Bytes(Memory(acc), i, 16)
      data_key == (acc_vec ^^ srli_epi64(acc_vec, 47)) ^^ Bytes(secret, i, 16)
  IN add_epi64(XXH_vec_mulo(data_key, prime), slli_epi64(XXH_vec_mule(data_key, prime), 32))

LEMMA ScrambleKey128 ==
  ASSUME NEW acc \in Accs, NEW secret \in Stripe, NEW o \in Nat, o + 16 <= 64
  PROVE  \E a \in Word(16), key \in Word(16) :
           /\ a = Bytes(Memory(acc), o, 16)
           /\ key = (a ^^ srli_epi64(a, 47)) ^^ Bytes(secret, o, 16)
           /\ \A i \in 1..2, k \in 1..8 : o = 8 * (k - i) =>
                Lane(key, i) = XorShift(acc[k], 47) ^^ Lane(secret, k)
<1>1. PICK e \in Elements : e = 2 /\ 8 * e = 16
  BY DEF Elements
<1>2. PICK a \in Word(8 * e), key \in Word(8 * e) :
        /\ a = Bytes(Memory(acc), o, 8 * e)
        /\ key = (a ^^ srli_epi64(a, 47)) ^^ Bytes(secret, o, 8 * e)
        /\ \A i \in 1..e, k \in 1..8 : o = 8 * (k - i) => Lane(key, i) = XorShift(acc[k], 47) ^^ Lane(secret, k)
  <2>1. o + 8 * e <= 64
    BY <1>1
  <2> QED BY <2>1, ScrambleKey
<1> QED BY <1>1, <1>2

LEMMA NeonScrambleBodyLane ==
  ASSUME NEW acc \in Accs, NEW secret \in Stripe, NEW o \in Nat, o + 16 <= 64
  PROVE  /\ NeonScrambleBody(acc, secret, o) \in Word(16)
         /\ \A i \in 1..2, k \in 1..8 : o = 8 * (k - i) =>
              Lane(NeonScrambleBody(acc, secret, o), i) = ScrambledBy(acc, secret, k)
<1>1. PICK a \in Word(16), key \in Word(16) :
        /\ a = Bytes(Memory(acc), o, 16)
        /\ key = (a ^^ srli_epi64(a, 47)) ^^ Bytes(secret, o, 16)
        /\ \A i \in 1..2, k \in 1..8 : o = 8 * (k - i) => Lane(key, i) = XorShift(acc[k], 47) ^^ Lane(secret, k)
  BY ScrambleKey128
<1>2. PICK prime \in Word(8) : prime = Repeated(XXH_PRIME32_1, 2) /\ Low(prime) = XXH_PRIME32_1 /\ High(prime) = XXH_PRIME32_1
  <2>1. PICK m \in Nat \ {0} : m = 1 /\ 2 * m = 2 /\ 8 * m = 8
    OBVIOUS
  <2>2. PICK q \in Word(8) : q = Repeated(XXH_PRIME32_1, 2 * m)
    BY <2>1, PrimeWord, RepeatedWord
  <2>3. Low(Lane(q, m)) = XXH_PRIME32_1 /\ High(Lane(q, m)) = XXH_PRIME32_1
    BY <2>1, <2>2, PrimeWord, RepeatedWord
  <2>4. Lane(q, m) = q
    <3>1. 8 * (m - 1) = 0
      BY <2>1
    <3> QED BY <3>1, WholeWord DEF Lane, XXH_readLE64
  <2> QED BY <2>1, <2>2, <2>3, <2>4
<1>3. PICK lo \in Word(16) : /\ lo = vmull_u32(Halves(key, Low), prime)
                             /\ \A i \in 1..2 : Lane(lo, i) = Product(Low(Lane(key, i)), XXH_PRIME32_1, 8)
  <2>1. PICK h \in Word(8) : h = Halves(key, Low) /\ Low(h) = Low(Lane(key, 1)) /\ High(h) = Low(Lane(key, 2))
    BY LowHalves
  <2>2. PICK lo \in Word(16) : /\ lo = vmull_u32(h, prime)
                               /\ Lane(lo, 1) = Product(Low(h), Low(prime), 8)
                               /\ Lane(lo, 2) = Product(High(h), High(prime), 8)
    BY Vmull
  <2>3. \A i \in 1..2 : Lane(lo, i) = Product(Low(Lane(key, i)), XXH_PRIME32_1, 8)
    <3>1. TAKE i \in 1..2
    <3>2. CASE i = 1
      BY <1>2, <2>1, <2>2, <3>2
    <3>3. CASE i = 2
      BY <1>2, <2>1, <2>2, <3>3
    <3> QED BY <3>2, <3>3
  <2> QED BY <2>1, <2>2, <2>3
<1>4. PICK hi \in Word(16) : /\ hi = vmull_u32(Halves(key, High), prime)
                             /\ \A i \in 1..2 : Lane(hi, i) = Product(High(Lane(key, i)), XXH_PRIME32_1, 8)
  <2>1. PICK h \in Word(8) : h = Halves(key, High) /\ Low(h) = High(Lane(key, 1)) /\ High(h) = High(Lane(key, 2))
    BY HighHalves
  <2>2. PICK hi \in Word(16) : /\ hi = vmull_u32(h, prime)
                               /\ Lane(hi, 1) = Product(Low(h), Low(prime), 8)
                               /\ Lane(hi, 2) = Product(High(h), High(prime), 8)
    BY Vmull
  <2>3. \A i \in 1..2 : Lane(hi, i) = Product(High(Lane(key, i)), XXH_PRIME32_1, 8)
    <3>1. TAKE i \in 1..2
    <3>2. CASE i = 1
      BY <1>2, <2>1, <2>2, <3>2
    <3>3. CASE i = 2
      BY <1>2, <2>1, <2>2, <3>3
    <3> QED BY <3>2, <3>3
  <2> QED BY <2>1, <2>2, <2>3
<1>5. PICK s \in Word(16) : s = slli_epi64(hi, 32) /\ \A i \in 1..2 : Lane(s, i) = Shl(Lane(hi, i), 32)
  BY Registers128
<1>6. PICK r \in Word(16) : r = add_epi64(s, lo) /\ \A i \in 1..2 : Lane(r, i) = Lane(s, i) ++ Lane(lo, i)
  BY Registers128
<1>7. NeonScrambleBody(acc, secret, o) = r
  BY <1>1, <1>2, <1>3, <1>4, <1>5, <1>6 DEF NeonScrambleBody
<1>8. ASSUME NEW i \in 1..2, NEW k \in 1..8, o = 8 * (k - i) PROVE Lane(r, i) = ScrambledBy(acc, secret, k)
  <2>1. PICK d \in Word(8) : d = Lane(key, i) /\ d = XorShift(acc[k], 47) ^^ Lane(secret, k)
    BY <1>1, <1>8, ScrambledWord
  <2>2. /\ d ** Extend(XXH_PRIME32_1, 8)
           = Product(Low(d), XXH_PRIME32_1, 8) ++ Shl(Product(High(d), XXH_PRIME32_1, 8), 32)
        /\ Product(Low(d), XXH_PRIME32_1, 8) \in Word(8) /\ Shl(Product(High(d), XXH_PRIME32_1, 8), 32) \in Word(8)
    BY PrimeWord, ScrambledHalves
  <2>3. PICK x \in Word(8), y \in Word(8) :
          /\ x = Product(Low(d), XXH_PRIME32_1, 8) /\ y = Shl(Product(High(d), XXH_PRIME32_1, 8), 32)
    BY <2>2
  <2>4. Lane(lo, i) = x /\ Lane(s, i) = y
    BY <1>3, <1>4, <1>5, <2>1, <2>3
  <2>5. x ++ y = y ++ x
    BY SumCommutes
  <2> QED BY <1>6, <2>1, <2>2, <2>3, <2>4, <2>5 DEF ScrambledBy
<1> QED BY <1>6, <1>7, <1>8

LEMMA NeonScrambles ==
  ASSUME NEW acc \in Accs, NEW secret \in Stripe
  PROVE  XXH3_scrambleAcc_neon(acc, secret) = XXH3_scrambleAcc_scalar(acc, secret)
<1>1. PICK w \in Accs : w = XXH3_scrambleAcc_scalar(acc, secret) /\ \A k \in 1..8 : w[k] = ScrambledBy(acc, secret, k)
  BY ScalarScrambles
<1>2. PICK f : f = [n \in 1..(64 \div 16) |-> NeonScrambleBody(acc, secret, 16 * (n - 1))]
  OBVIOUS
<1>3. ASSUME NEW n \in 1..(64 \div 16) PROVE f[n] \in Word(16)
  <2>1. PICK o \in Nat : o = 16 * (n - 1) /\ o + 16 <= 64
    OBVIOUS
  <2>2. NeonScrambleBody(acc, secret, o) \in Word(16)
    BY <2>1, NeonScrambleBodyLane
  <2> QED BY <1>2, <2>1, <2>2
<1>4. f \in [1..(64 \div 16) -> Word(16)]
  BY <1>2, <1>3
<1>5. ASSUME NEW k \in 1..8, NEW r, NEW i, Placed(2, k, r, i) PROVE Lane(f[r + 1], i) = w[k]
  <2>1. /\ r \in 0..7 /\ i \in 1..2 /\ r + 1 \in 1..(64 \div 16) /\ 16 * r = 8 * (k - i)
        /\ 8 * (k - i) \in Nat /\ 8 * (k - i) + 16 <= 64 /\ k % 2 = i % 2
    BY <1>5 DEF Placed
  <2>2. PICK o \in Nat : o = 8 * (k - i) /\ o + 16 <= 64 /\ o = 16 * ((r + 1) - 1)
    BY <2>1
  <2>3. f[r + 1] = NeonScrambleBody(acc, secret, o)
    BY <1>2, <2>1, <2>2
  <2>4. Lane(NeonScrambleBody(acc, secret, o), i) = ScrambledBy(acc, secret, k)
    BY <2>1, <2>2, NeonScrambleBodyLane
  <2> QED BY <1>1, <2>3, <2>4
<1>6. Words64(Memory(Tuple(f))) = w
  <2>1. PICK e \in Elements : e = 2 /\ 8 * e = 16
    BY DEF Elements
  <2>2. f \in Vec(64 \div (8 * e), Word(8 * e))
    BY <1>4, <2>1 DEF Vec
  <2>3. \A k \in 1..8 : \A r, i : Placed(e, k, r, i) => Lane(f[r + 1], i) = w[k]
    BY <1>5, <2>1
  <2> QED BY <2>2, <2>3, LoopMakes
<1>7. XXH3_scrambleAcc_neon(acc, secret) = Words64(Memory(Tuple(f)))
  BY <1>2 DEF XXH3_scrambleAcc_neon, NeonScrambleBody, Registers, XXH_STRIPE_LEN
<1> QED BY <1>1, <1>6, <1>7

LEMMA VsxScrambleBodyLane ==
  ASSUME NEW acc \in Accs, NEW secret \in Stripe, NEW o \in Nat, o + 16 <= 64
  PROVE  /\ VsxScrambleBody(acc, secret, o) \in Word(16)
         /\ \A i \in 1..2, k \in 1..8 : o = 8 * (k - i) =>
              Lane(VsxScrambleBody(acc, secret, o), i) = ScrambledBy(acc, secret, k)
<1>1. PICK a \in Word(16), key \in Word(16) :
        /\ a = Bytes(Memory(acc), o, 16)
        /\ key = (a ^^ srli_epi64(a, 47)) ^^ Bytes(secret, o, 16)
        /\ \A i \in 1..2, k \in 1..8 : o = 8 * (k - i) => Lane(key, i) = XorShift(acc[k], 47) ^^ Lane(secret, k)
  BY ScrambleKey128
<1>2. PICK prime \in Word(16) :
        /\ prime = Repeated(XXH_PRIME32_1, 4)
        /\ \A i \in 1..2 : Low(Lane(prime, i)) = XXH_PRIME32_1 /\ High(Lane(prime, i)) = XXH_PRIME32_1
  <2>1. PICK m \in Nat \ {0} : m = 2 /\ 2 * m = 4 /\ 8 * m = 16
    OBVIOUS
  <2>2. /\ Repeated(XXH_PRIME32_1, 2 * m) \in Word(8 * m)
        /\ \A i \in 1..m : /\ Low(Lane(Repeated(XXH_PRIME32_1, 2 * m), i)) = XXH_PRIME32_1
                           /\ High(Lane(Repeated(XXH_PRIME32_1, 2 * m), i)) = XXH_PRIME32_1
    BY PrimeWord, RepeatedWord
  <2> QED BY <2>1, <2>2
<1>3. PICK lo \in Word(16) : /\ lo = XXH_vec_mulo(key, prime)
                             /\ \A i \in 1..2 : Lane(lo, i) = Product(Low(Lane(key, i)), XXH_PRIME32_1, 8)
  <2>1. XXH_vec_mulo(key, prime) \in Word(16)
    BY MuloElements
  <2>2. \A i \in 1..2 : Lane(XXH_vec_mulo(key, prime), i) = Product(Low(Lane(key, i)), Low(Lane(prime, i)), 8)
    BY MuloElements
  <2> QED BY <1>2, <2>1, <2>2
<1>4. PICK hi \in Word(16) : /\ hi = XXH_vec_mule(key, prime)
                             /\ \A i \in 1..2 : Lane(hi, i) = Product(High(Lane(key, i)), XXH_PRIME32_1, 8)
  <2>1. XXH_vec_mule(key, prime) \in Word(16)
    BY MuleElements
  <2>2. \A i \in 1..2 : Lane(XXH_vec_mule(key, prime), i) = Product(High(Lane(key, i)), High(Lane(prime, i)), 8)
    BY MuleElements
  <2> QED BY <1>2, <2>1, <2>2
<1>5. PICK s \in Word(16) : s = slli_epi64(hi, 32) /\ \A i \in 1..2 : Lane(s, i) = Shl(Lane(hi, i), 32)
  BY Registers128
<1>6. PICK r \in Word(16) : r = add_epi64(lo, s) /\ \A i \in 1..2 : Lane(r, i) = Lane(lo, i) ++ Lane(s, i)
  BY Registers128
<1>7. VsxScrambleBody(acc, secret, o) = r
  BY <1>1, <1>2, <1>3, <1>4, <1>5, <1>6 DEF VsxScrambleBody
<1>8. ASSUME NEW i \in 1..2, NEW k \in 1..8, o = 8 * (k - i) PROVE Lane(r, i) = ScrambledBy(acc, secret, k)
  <2>1. PICK d \in Word(8) : d = Lane(key, i) /\ d = XorShift(acc[k], 47) ^^ Lane(secret, k)
    BY <1>1, <1>8, ScrambledWord
  <2>2. /\ d ** Extend(XXH_PRIME32_1, 8)
           = Product(Low(d), XXH_PRIME32_1, 8) ++ Shl(Product(High(d), XXH_PRIME32_1, 8), 32)
        /\ Product(Low(d), XXH_PRIME32_1, 8) \in Word(8) /\ Shl(Product(High(d), XXH_PRIME32_1, 8), 32) \in Word(8)
    BY PrimeWord, ScrambledHalves
  <2>3. PICK x \in Word(8), y \in Word(8) :
          /\ x = Product(Low(d), XXH_PRIME32_1, 8) /\ y = Shl(Product(High(d), XXH_PRIME32_1, 8), 32)
    BY <2>2
  <2>4. Lane(lo, i) = x /\ Lane(s, i) = y
    BY <1>3, <1>4, <1>5, <2>1, <2>3
  <2>5. x ++ y = y ++ x
    BY SumCommutes
  <2> QED BY <1>6, <2>1, <2>2, <2>3, <2>4, <2>5 DEF ScrambledBy
<1> QED BY <1>6, <1>7, <1>8

LEMMA VsxScrambles ==
  ASSUME NEW acc \in Accs, NEW secret \in Stripe
  PROVE  XXH3_scrambleAcc_vsx(acc, secret) = XXH3_scrambleAcc_scalar(acc, secret)
<1>1. PICK w \in Accs : w = XXH3_scrambleAcc_scalar(acc, secret) /\ \A k \in 1..8 : w[k] = ScrambledBy(acc, secret, k)
  BY ScalarScrambles
<1>2. PICK f : f = [n \in 1..(64 \div 16) |-> VsxScrambleBody(acc, secret, 16 * (n - 1))]
  OBVIOUS
<1>3. ASSUME NEW n \in 1..(64 \div 16) PROVE f[n] \in Word(16)
  <2>1. PICK o \in Nat : o = 16 * (n - 1) /\ o + 16 <= 64
    OBVIOUS
  <2>2. VsxScrambleBody(acc, secret, o) \in Word(16)
    BY <2>1, VsxScrambleBodyLane
  <2> QED BY <1>2, <2>1, <2>2
<1>4. f \in [1..(64 \div 16) -> Word(16)]
  BY <1>2, <1>3
<1>5. ASSUME NEW k \in 1..8, NEW r, NEW i, Placed(2, k, r, i) PROVE Lane(f[r + 1], i) = w[k]
  <2>1. /\ r \in 0..7 /\ i \in 1..2 /\ r + 1 \in 1..(64 \div 16) /\ 16 * r = 8 * (k - i)
        /\ 8 * (k - i) \in Nat /\ 8 * (k - i) + 16 <= 64 /\ k % 2 = i % 2
    BY <1>5 DEF Placed
  <2>2. PICK o \in Nat : o = 8 * (k - i) /\ o + 16 <= 64 /\ o = 16 * ((r + 1) - 1)
    BY <2>1
  <2>3. f[r + 1] = VsxScrambleBody(acc, secret, o)
    BY <1>2, <2>1, <2>2
  <2>4. Lane(VsxScrambleBody(acc, secret, o), i) = ScrambledBy(acc, secret, k)
    BY <2>1, <2>2, VsxScrambleBodyLane
  <2> QED BY <1>1, <2>3, <2>4
<1>6. Words64(Memory(Tuple(f))) = w
  <2>1. PICK e \in Elements : e = 2 /\ 8 * e = 16
    BY DEF Elements
  <2>2. f \in Vec(64 \div (8 * e), Word(8 * e))
    BY <1>4, <2>1 DEF Vec
  <2>3. \A k \in 1..8 : \A r, i : Placed(e, k, r, i) => Lane(f[r + 1], i) = w[k]
    BY <1>5, <2>1
  <2> QED BY <2>2, <2>3, LoopMakes
<1>7. XXH3_scrambleAcc_vsx(acc, secret) = Words64(Memory(Tuple(f)))
  BY <1>2 DEF XXH3_scrambleAcc_vsx, VsxScrambleBody, Registers, XXH_STRIPE_LEN
<1> QED BY <1>1, <1>6, <1>7

-----------------------------------------------------------------------------
(***************************************************************************)
(* The secret made from a seed                                             *)
(***************************************************************************)
LEMMA DefaultSecretWord == XXH3_kSecret \in Word(192)
<1>1. XXH3_kSecret \in Seq(0..255)
  BY DEF XXH3_kSecret
<1>2. Len(XXH3_kSecret) = 192
  BY DEF XXH3_kSecret
<1>3. PICK n \in Nat : n = 192
  OBVIOUS
<1>4. PICK p \in Seq(Byte) : p = XXH3_kSecret
  BY <1>1 DEF Byte
<1>5. Len(p) = n
  BY <1>2, <1>3, <1>4
<1>6. p \in Word(n)
  BY <1>5, FunctionOfSeq DEF Word
<1> QED BY <1>3, <1>4, <1>6

SeededWord(seed, k) ==
  IF k % 2 = 1 THEN Lane(XXH3_kSecret, k) ++ seed ELSE Lane(XXH3_kSecret, k) -- seed

LEMMA SeededWordWord ==
  ASSUME NEW seed \in Word(8), NEW k \in 1..24
  PROVE  /\ SeededWord(seed, k) \in Word(8) /\ Lane(XXH3_kSecret, k) \in Word(8)
<1>1. PICK p \in Word(192) : p = XXH3_kSecret
  BY DefaultSecretWord
<1>2. k \in Nat \ {0} /\ 8 * k <= 192
  OBVIOUS
<1>3. PICK w \in Word(8) : w = Lane(p, k)
  BY <1>2, LaneWord
<1>4. w ++ seed \in Word(8) /\ w -- seed \in Word(8)
  BY SumWord, DifferenceWord
<1> QED BY <1>1, <1>3, <1>4 DEF SeededWord

LEMMA ScalarSecret ==
  ASSUME NEW seed \in Word(8)
  PROVE  \E v \in Vec(24, Word(8)) : /\ XXH3_initCustomSecret_scalar(seed) = Memory(v)
                                     /\ \A k \in 1..24 : v[k] = SeededWord(seed, k)
<1>1. PICK v : v = [k \in 1..24 |-> SeededWord(seed, k)]
  OBVIOUS
<1>2. v \in [1..24 -> Word(8)]
  BY <1>1, SeededWordWord
<1>3. Tuple(v) = v
  BY <1>2, TupleIsIt
<1>4. 192 \div 8 = 24
  OBVIOUS
<1>5. XXH3_initCustomSecret_scalar(seed) = Memory(Tuple(v))
  BY <1>1, <1>4 DEF XXH3_initCustomSecret_scalar, XXH_SECRET_DEFAULT_SIZE, SeededWord, Lane
<1> QED BY <1>1, <1>2, <1>3, <1>5 DEF Vec

\* Byte x of a secret is byte j of its element k, which is element i of register r.
InSecret(e, x, k, j, r, i) ==
  /\ k \in 1..24 /\ j \in 1..8 /\ x = 8 * (k - 1) + j
  /\ r \in 1..(24 \div e) /\ i \in 1..e /\ k % 2 = i % 2
  /\ 8 * (i - 1) + j \in 1..(8 * e) /\ x = (8 * e) * (r - 1) + (8 * (i - 1) + j)
  /\ (8 * e) * (r - 1) = 8 * (k - i)

LEMMA HasPlaceInSecret ==
  ASSUME NEW e \in Elements, NEW x \in 1..192
  PROVE  \E k, j, r, i : InSecret(e, x, k, j, r, i)
<1>1. PICK k \in 1..24, j \in 1..8 : x = 8 * (k - 1) + j
  <2>1. (x - 1) \div 8 + 1 \in 1..24 /\ ((x - 1) % 8) + 1 \in 1..8 /\ x = 8 * (((x - 1) \div 8 + 1) - 1) + (((x - 1) % 8) + 1)
    OBVIOUS
  <2> QED BY <2>1
<1>2. CASE e = 2
  <2>1. InSecret(e, x, k, j, (k - 1) \div 2 + 1, ((k - 1) % 2) + 1)
    BY <1>1, <1>2 DEF InSecret
  <2> QED BY <2>1
<1>3. CASE e = 4
  <2>1. InSecret(e, x, k, j, (k - 1) \div 4 + 1, ((k - 1) % 4) + 1)
    BY <1>1, <1>3 DEF InSecret
  <2> QED BY <2>1
<1>4. CASE e = 8
  <2>1. InSecret(e, x, k, j, (k - 1) \div 8 + 1, ((k - 1) % 8) + 1)
    BY <1>1, <1>4 DEF InSecret
  <2> QED BY <2>1
<1> QED BY <1>2, <1>3, <1>4 DEF Elements

(* Registers that hold the elements v, one after the other, are v's memory.*)
LEMMA RegistersFill ==
  ASSUME NEW e \in Elements, NEW f \in Vec(24 \div e, Word(8 * e)), NEW v \in Vec(24, Word(8)),
         \A x, k, j, r, i : InSecret(e, x, k, j, r, i) => Lane(f[r], i) = v[k]
  PROVE  Memory(f) = Memory(v) /\ Memory(v) \in Word(192)
<1>1. PICK w \in Widths, n \in Nat \ {0} : w = 8 * e /\ n = 24 \div e /\ n * w = 192
  BY DEF Elements, Widths
<1>2. w \in Nat
  BY DEF Widths
<1>3. f \in Vec(n, Word(w))
  BY <1>1
<1>4. PICK m : m = Memory(f)
  OBVIOUS
<1>5. m \in Word(192) /\ \A r \in 1..n : \A y \in 1..w : m[w * (r - 1) + y] = f[r][y]
  BY <1>1, <1>3, <1>4, MemoryWord
<1>6. PICK p : p = Memory(v)
  OBVIOUS
<1>7. p \in Word(192) /\ \A k \in 1..24 : \A j \in 1..8 : p[8 * (k - 1) + j] = v[k][j]
  <2>1. PICK c \in Widths, d \in Nat \ {0} : c = 8 /\ d = 24 /\ d * c = 192
    BY DEF Widths
  <2>2. v \in Vec(d, Word(c))
    BY <2>1
  <2>3. p \in Word(d * c) /\ \A k \in 1..d : \A j \in 1..c : p[c * (k - 1) + j] = v[k][j]
    BY <1>6, <2>2, MemoryWord
  <2> QED BY <2>1, <2>3
<1>8. ASSUME NEW x \in 1..192 PROVE m[x] = p[x]
  <2>1. PICK k, j, r, i : InSecret(e, x, k, j, r, i)
    BY HasPlaceInSecret
  <2>2. p[x] = v[k][j]
    BY <1>7, <2>1 DEF InSecret
  <2>3. PICK y \in 1..w : y = 8 * (i - 1) + j /\ x = w * (r - 1) + y
    BY <1>1, <2>1 DEF InSecret
  <2>4. r \in 1..n /\ i \in 1..e /\ j \in 1..8
    BY <1>1, <2>1 DEF InSecret
  <2>5. m[x] = f[r][y]
    BY <1>5, <2>3, <2>4
  <2>6. PICK g \in Word(w) : g = f[r]
    BY <1>3, <2>4 DEF Vec
  <2>7. i \in Nat \ {0} /\ 8 * i <= w
    BY <1>1, <2>4 DEF Elements
  <2>8. \A z \in 1..8 : Lane(g, i)[z] = g[8 * (i - 1) + z]
    BY <1>2, <2>7, LaneWord
  <2>9. Lane(g, i) = v[k]
    BY <2>1, <2>6
  <2> QED BY <2>2, <2>3, <2>4, <2>5, <2>6, <2>8, <2>9
<1>9. m = p
  <2>1. PICK d \in Nat : d = 192
    OBVIOUS
  <2>2. m \in Word(d) /\ p \in Word(d)
    BY <1>5, <1>7, <2>1
  <2>3. \A x \in 1..d : m[x] = p[x]
    BY <1>8, <2>1
  <2> QED BY <2>2, <2>3, SameWord
<1> QED BY <1>4, <1>6, <1>7, <1>9

(* A register with the seed in its odd elements and what it takes to       *)
(* subtract it in the others makes the scalar secret.                      *)
LEMMA X86MakesSecret ==
  ASSUME NEW e \in Elements, NEW seed \in Word(8), NEW reg \in Word(8 * e),
         \A i \in 1..e : Lane(reg, i) = IF i % 2 = 1 THEN seed ELSE Zero(8) -- seed
  PROVE  /\ X86InitSecret(reg, 8 * e) = XXH3_initCustomSecret_scalar(seed)
         /\ XXH3_initCustomSecret_scalar(seed) \in Word(192)
<1>1. PICK v \in Vec(24, Word(8)) : /\ XXH3_initCustomSecret_scalar(seed) = Memory(v)
                                    /\ \A k \in 1..24 : v[k] = SeededWord(seed, k)
  BY ScalarSecret
<1>2. PICK w \in Nat, n \in Nat : w = 8 * e /\ n = 24 \div e /\ n = 192 \div w
  BY DEF Elements
<1>3. PICK p \in Word(192) : p = XXH3_kSecret
  BY DefaultSecretWord
<1>4. PICK f : f = [r \in 1..n |-> add_epi64(Bytes(p, w * (r - 1), w), reg)]
  OBVIOUS
<1>5. ASSUME NEW r \in 1..n
      PROVE  /\ f[r] \in Word(w)
             /\ \A i \in 1..e, k \in Nat : w * (r - 1) = 8 * (k - i) =>
                  Lane(f[r], i) = Lane(p, k) ++ Lane(reg, i)
  <2>1. PICK o \in Nat : o = w * (r - 1) /\ o + w <= 192
    <3>1. CASE e = 2
      BY <1>2, <3>1
    <3>2. CASE e = 4
      BY <1>2, <3>2
    <3>3. CASE e = 8
      BY <1>2, <3>3
    <3> QED BY <3>1, <3>2, <3>3 DEF Elements
  <2>2. PICK b \in Word(w) : b = Bytes(p, o, w)
    BY <2>1, BytesWord
  <2>3. b \in Word(8 * e)
    BY <1>2, <2>2
  <2>4. add_epi64(b, reg) \in Word(8 * e) /\ \A i \in 1..e : Lane(add_epi64(b, reg), i) = Lane(b, i) ++ Lane(reg, i)
    BY <2>3, AddElements
  <2>5. f[r] = add_epi64(b, reg)
    BY <1>4, <2>1, <2>2
  <2>6. ASSUME NEW i \in 1..e, NEW k \in Nat, o = 8 * (k - i) PROVE Lane(b, i) = Lane(p, k)
    <3>1. i \in Nat \ {0} /\ 8 * i <= w
      BY <1>2 DEF Elements
    <3>2. PICK d \in Nat : d = 192
      OBVIOUS
    <3>3. p \in Word(d) /\ o + w <= d
      BY <1>3, <2>1, <3>2
    <3> QED BY <1>2, <2>1, <2>2, <2>6, <3>1, <3>3, LaneOfBytes
  <2> QED BY <1>2, <2>1, <2>4, <2>5, <2>6
<1>6. f \in Vec(24 \div e, Word(8 * e))
  BY <1>2, <1>4, <1>5 DEF Vec
<1>7. ASSUME NEW x, NEW k, NEW j, NEW r, NEW i, InSecret(e, x, k, j, r, i) PROVE Lane(f[r], i) = v[k]
  <2>1. k \in 1..24 /\ k \in Nat /\ i \in 1..e /\ r \in 1..n /\ k % 2 = i % 2 /\ w * (r - 1) = 8 * (k - i)
    BY <1>2, <1>7 DEF InSecret
  <2>2. Lane(f[r], i) = Lane(p, k) ++ Lane(reg, i)
    BY <1>5, <2>1
  <2>3. PICK c \in Word(8) : c = Lane(p, k)
    BY <1>3, <2>1, SeededWordWord
  <2>4. c ++ (Zero(8) -- seed) = c -- seed
    BY DifferenceIsSum
  <2> QED BY <1>1, <1>3, <2>1, <2>2, <2>3, <2>4 DEF SeededWord
<1>8. Memory(f) = Memory(v) /\ Memory(v) \in Word(192)
  BY <1>6, <1>7, RegistersFill
<1>9. Tuple(f) = f
  <2>1. f \in [1..n -> Word(w)]
    BY <1>4, <1>5
  <2> QED BY <2>1, TupleIsIt
<1>10. X86InitSecret(reg, w) = Memory(Tuple(f))
  BY <1>2, <1>3, <1>4 DEF X86InitSecret, XXH_SECRET_DEFAULT_SIZE
<1> QED BY <1>1, <1>2, <1>8, <1>9, <1>10

LEMMA NegatedWord ==
  ASSUME NEW seed \in Word(8)
  PROVE  Zero(8) -- seed \in Word(8)
<1>1. Zero(8) \in Word(8)
  BY ZeroWord
<1> QED BY <1>1, DifferenceWord

LEMMA Sse2MakesSecret ==
  ASSUME NEW seed \in Word(8)
  PROVE  XXH3_initCustomSecret_sse2(seed) = XXH3_initCustomSecret_scalar(seed)
<1>1. PICK neg \in Word(8) : neg = Zero(8) -- seed
  BY NegatedWord
<1>2. seed \o neg \in Word(16) /\ Lane(seed \o neg, 1) = seed /\ Lane(seed \o neg, 2) = neg
  BY PairOfElements
<1>3. PICK e \in Elements : e = 2
  BY DEF Elements
<1>4. PICK reg : reg = seed \o neg
  OBVIOUS
<1>5. reg \in Word(8 * e)
  BY <1>2, <1>3, <1>4
<1>6. \A i \in 1..e : Lane(reg, i) = IF i % 2 = 1 THEN seed ELSE Zero(8) -- seed
  BY <1>1, <1>2, <1>3, <1>4
<1>7. X86InitSecret(reg, 8 * e) = XXH3_initCustomSecret_scalar(seed)
  BY <1>5, <1>6, X86MakesSecret
<1>8. 8 * e = 16
  BY <1>3
<1> QED BY <1>1, <1>4, <1>7, <1>8 DEF XXH3_initCustomSecret_sse2

(* The elements of a register put together from four words.                *)
LEMMA FourElements ==
  ASSUME NEW a \in Word(8), NEW b \in Word(8), NEW c \in Word(8), NEW d \in Word(8)
  PROVE  /\ ((a \o b) \o c) \o d \in Word(32)
         /\ Lane(((a \o b) \o c) \o d, 1) = a /\ Lane(((a \o b) \o c) \o d, 2) = b
         /\ Lane(((a \o b) \o c) \o d, 3) = c /\ Lane(((a \o b) \o c) \o d, 4) = d
<1>1. PICK n \in Nat : n = 8
  OBVIOUS
<1>2. PICK ab : ab = a \o b
  OBVIOUS
<1>3. PICK abc : abc = ab \o c
  OBVIOUS
<1>4. PICK r : r = abc \o d
  OBVIOUS
<1>0. a \in Word(n) /\ b \in Word(n) /\ c \in Word(n) /\ d \in Word(n)
  BY <1>1
<1>5. ab \in Word(n + n) /\ \A i \in 1..(n + n) : ab[i] = IF i <= n THEN a[i] ELSE b[i - n]
  BY <1>0, <1>2, ConcatWords
<1>6. PICK m \in Nat : m = n + n
  BY <1>1
<1>7. abc \in Word(m + n) /\ \A i \in 1..(m + n) : abc[i] = IF i <= m THEN ab[i] ELSE c[i - m]
  <2>1. ab \in Word(m)
    BY <1>5, <1>6
  <2> QED BY <1>0, <1>3, <2>1, ConcatWords
<1>8. PICK o \in Nat : o = m + n
  BY <1>1, <1>6
<1>9. r \in Word(o + n) /\ \A i \in 1..(o + n) : r[i] = IF i <= o THEN abc[i] ELSE d[i - o]
  <2>1. abc \in Word(o)
    BY <1>7, <1>8
  <2> QED BY <1>0, <1>4, <2>1, ConcatWords
<1>10. PICK w \in Nat : w = 32 /\ w = o + n
  BY <1>1, <1>6, <1>8
<1>11. r \in Word(w)
  BY <1>9, <1>10
<1>12. ASSUME NEW k \in 1..4
       PROVE  Lane(r, k) \in Word(8) /\ \A j \in 1..8 : Lane(r, k)[j] = r[8 * (k - 1) + j]
  BY <1>10, <1>11, LaneWord
<1>13. \A j \in 1..8 : r[8 * (1 - 1) + j] = a[j]
  BY <1>1, <1>5, <1>6, <1>7, <1>8, <1>9
<1>14. \A j \in 1..8 : r[8 * (2 - 1) + j] = b[j]
  BY <1>1, <1>5, <1>6, <1>7, <1>8, <1>9
<1>15. \A j \in 1..8 : r[8 * (3 - 1) + j] = c[j]
  BY <1>1, <1>6, <1>7, <1>8, <1>9
<1>16. \A j \in 1..8 : r[8 * (4 - 1) + j] = d[j]
  BY <1>1, <1>6, <1>8, <1>9
<1>17. ASSUME NEW u \in Word(8), NEW v \in Word(8), \A j \in 1..8 : u[j] = v[j] PROVE u = v
  BY <1>1, <1>17, SameWord
<1>18. Lane(r, 1) = a
  BY <1>12, <1>13, <1>17
<1>19. Lane(r, 2) = b
  BY <1>12, <1>14, <1>17
<1>20. Lane(r, 3) = c
  BY <1>12, <1>15, <1>17
<1>21. Lane(r, 4) = d
  BY <1>12, <1>16, <1>17
<1> QED BY <1>2, <1>3, <1>4, <1>10, <1>11, <1>18, <1>19, <1>20, <1>21

LEMMA Avx2MakesSecret ==
  ASSUME NEW seed \in Word(8)
  PROVE  XXH3_initCustomSecret_avx2(seed) = XXH3_initCustomSecret_scalar(seed)
<1>1. PICK neg \in Word(8) : neg = Zero(8) -- seed
  BY NegatedWord
<1>2. PICK reg : reg = ((seed \o neg) \o seed) \o neg
  OBVIOUS
<1>3. /\ reg \in Word(32) /\ Lane(reg, 1) = seed /\ Lane(reg, 2) = neg
      /\ Lane(reg, 3) = seed /\ Lane(reg, 4) = neg
  BY <1>2, FourElements
<1>4. PICK e \in Elements : e = 4
  BY DEF Elements
<1>5. reg \in Word(8 * e)
  BY <1>3, <1>4
<1>6. \A i \in 1..e : Lane(reg, i) = IF i % 2 = 1 THEN seed ELSE Zero(8) -- seed
  BY <1>1, <1>3, <1>4
<1>7. X86InitSecret(reg, 8 * e) = XXH3_initCustomSecret_scalar(seed)
  BY <1>5, <1>6, X86MakesSecret
<1>8. 8 * e = 32
  BY <1>4
<1> QED BY <1>1, <1>2, <1>7, <1>8 DEF XXH3_initCustomSecret_avx2

LEMMA Avx512MakesSecret ==
  ASSUME NEW seed \in Word(8)
  PROVE  XXH3_initCustomSecret_avx512(seed) = XXH3_initCustomSecret_scalar(seed)
<1>1. PICK neg \in Word(8) : neg = Zero(8) -- seed
  BY NegatedWord
<1>2. PICK all : all = Repeated(seed, 8)
  OBVIOUS
<1>3. PICK n \in Nat, m \in Nat : n = 8 /\ m = 64
  OBVIOUS
<1>4. PICK f : f = [i \in 1..m |-> seed[((i - 1) % 8) + 1]]
  OBVIOUS
<1>5. all \in Word(m) /\ \A i \in 1..m : all[i] = seed[((i - 1) % 8) + 1]
  <2>1. seed \in Word(n)
    BY <1>3
  <2>2. Len(seed) = 8
    BY <1>3, <2>1, LenOfFunction DEF Word
  <2>3. f \in [1..m -> Byte]
    BY <1>3, <1>4, <2>1 DEF Word
  <2>4. Tuple(f) = f
    BY <2>3, TupleIsIt
  <2>5. all = Tuple(f)
    BY <1>2, <1>3, <1>4, <2>2 DEF Repeated
  <2> QED BY <1>4, <2>3, <2>4, <2>5 DEF Word
<1>6. ASSUME NEW i \in 1..8 PROVE Lane(all, i) = seed
  <2>1. Lane(all, i) \in Word(n) /\ \A j \in 1..n : Lane(all, i)[j] = all[8 * (i - 1) + j]
    BY <1>3, <1>5, LaneWord
  <2>2. ASSUME NEW j \in 1..n PROVE Lane(all, i)[j] = seed[j]
    <3>1. PICK x \in 1..m : x = 8 * (i - 1) + j
      BY <1>3
    <3>2. ((x - 1) % 8) + 1 = j
      BY <1>3, <3>1
    <3>3. all[x] = seed[((x - 1) % 8) + 1]
      BY <1>5
    <3> QED BY <2>1, <3>1, <3>2, <3>3
  <2>3. seed \in Word(n)
    BY <1>3
  <2> QED BY <2>1, <2>2, <2>3, SameWord
<1>7. PICK v : v = [i \in 1..8 |-> IF (170 \div 2^(i - 1)) % 2 = 1 THEN neg ELSE XXH_readLE64(all, 8 * (i - 1))]
  OBVIOUS
<1>8. ASSUME NEW i \in 1..8 PROVE v[i] = IF i % 2 = 1 THEN seed ELSE neg
  <2>1. v[i] = IF (170 \div 2^(i - 1)) % 2 = 1 THEN neg ELSE seed
    BY <1>6, <1>7 DEF Lane
  <2>2. (170 \div 2^(i - 1)) % 2 = 1 <=> i % 2 # 1
    <3>1. \/ i = 1 \/ i = 2 \/ i = 3 \/ i = 4 \/ i = 5 \/ i = 6 \/ i = 7 \/ i = 8
      OBVIOUS
    <3>2. /\ 2^0 = 1 /\ 2^1 = 2 /\ 2^2 = 4 /\ 2^3 = 8 /\ 2^4 = 16 /\ 2^5 = 32 /\ 2^6 = 64 /\ 2^7 = 128
      OBVIOUS
    <3>3. CASE i = 1
      BY <3>3, <3>2
    <3>4. CASE i = 2
      BY <3>4, <3>2
    <3>5. CASE i = 3
      BY <3>5, <3>2
    <3>6. CASE i = 4
      BY <3>6, <3>2
    <3>7. CASE i = 5
      BY <3>7, <3>2
    <3>8. CASE i = 6
      BY <3>8, <3>2
    <3>9. CASE i = 7
      BY <3>9, <3>2
    <3>10. CASE i = 8
      BY <3>10, <3>2
    <3> QED BY <3>1, <3>3, <3>4, <3>5, <3>6, <3>7, <3>8, <3>9, <3>10
  <2> QED BY <2>1, <2>2
<1>9. v \in Vec(8, Word(8))
  BY <1>7, <1>8 DEF Vec
<1>10. Tuple(v) = v
  <2>1. v \in [1..n -> Word(8)]
    BY <1>3, <1>9 DEF Vec
  <2> QED BY <2>1, TupleIsIt
<1>11. PICK reg : reg = Memory(v)
  OBVIOUS
<1>12. mask_set1_epi64(all, 170, neg) = reg
  BY <1>7, <1>10, <1>11 DEF mask_set1_epi64
<1>13. reg \in Word(64) /\ \A i \in 1..8 : Lane(reg, i) = v[i]
  BY <1>9, <1>11, MemoryOf64
<1>14. PICK e \in Elements : e = 8
  BY DEF Elements
<1>15. reg \in Word(8 * e)
  BY <1>13, <1>14
<1>16. \A i \in 1..e : Lane(reg, i) = IF i % 2 = 1 THEN seed ELSE Zero(8) -- seed
  BY <1>1, <1>8, <1>13, <1>14
<1>17. X86InitSecret(reg, 8 * e) = XXH3_initCustomSecret_scalar(seed)
  BY <1>15, <1>16, X86MakesSecret
<1>18. 8 * e = 64
  BY <1>14
<1>19. \hAA = 170
  OBVIOUS
<1> QED BY <1>1, <1>2, <1>12, <1>17, <1>18, <1>19 DEF XXH3_initCustomSecret_avx512

(* What the program's build computes is what the scalar code computes.     *)
LEMMA BuildAccumulates ==
  ASSUME NEW acc \in Accs, NEW input \in Stripe, NEW secret \in Stripe
  PROVE  /\ XXH3_accumulate_512(acc, input, secret) = XXH3_accumulate_512_scalar(acc, input, secret)
         /\ XXH3_accumulate_512(acc, input, secret) \in Accs
<1>1. PICK e \in Elements : e = 2
  BY DEF Elements
<1>2. X86Accumulate(acc, input, secret, 8 * e) = XXH3_accumulate_512_scalar(acc, input, secret)
  BY X86Accumulates
<1>3. 8 * e = 16
  BY <1>1
<1> QED BY <1>2, <1>3, ScalarAccumulates DEF XXH3_accumulate_512, XXH3_accumulate_512_sse2

LEMMA BuildScrambles ==
  ASSUME NEW acc \in Accs, NEW secret \in Stripe
  PROVE  /\ XXH3_scrambleAcc(acc, secret) = XXH3_scrambleAcc_scalar(acc, secret)
         /\ XXH3_scrambleAcc(acc, secret) \in Accs
<1>1. PICK e \in Elements : e = 2
  BY DEF Elements
<1>2. X86Scramble(acc, secret, 8 * e) = XXH3_scrambleAcc_scalar(acc, secret)
  BY X86Scrambles
<1>3. 8 * e = 16
  BY <1>1
<1> QED BY <1>2, <1>3, ScalarScrambles DEF XXH3_scrambleAcc, XXH3_scrambleAcc_sse2

LEMMA BuildMakesSecret ==
  ASSUME NEW seed \in Word(8)
  PROVE  /\ XXH3_initCustomSecret(seed) = XXH3_initCustomSecret_scalar(seed)
         /\ XXH3_initCustomSecret(seed) \in Word(192)
<1>1. XXH3_initCustomSecret(seed) = XXH3_initCustomSecret_scalar(seed)
  BY Sse2MakesSecret DEF XXH3_initCustomSecret
<1>2. XXH3_initCustomSecret_scalar(seed) \in Word(192)
  <2>1. PICK v \in Vec(24, Word(8)) : XXH3_initCustomSecret_scalar(seed) = Memory(v)
    BY ScalarSecret
  <2>2. PICK c \in Widths, d \in Nat \ {0} : c = 8 /\ d = 24 /\ d * c = 192
    BY DEF Widths
  <2>3. v \in Vec(d, Word(c))
    BY <2>2
  <2>4. Memory(v) \in Word(d * c)
    BY <2>3, MemoryWord
  <2> QED BY <2>1, <2>2, <2>4
<1> QED BY <1>1, <1>2
=============================================================================
