-------------------------- MODULE XXHStreamProofs --------------------------
(***************************************************************************)
(* Theorems about the streaming hashes, for all data, pieces, seeds and    *)
(* secrets: in any pieces and after any reset the digest is the hash of    *)
(* the whole.                                                              *)
(*                                                                         *)
(* The inductive invariants Inv32, Inv64 and Inv3 say what a state holds   *)
(* after the bytes fed so far (After32, After64, After3): the lanes or     *)
(* accumulators that the hash of the whole has at the last stripe read,    *)
(* and behind them the bytes that wait in the buffer.                      *)
(***************************************************************************)
EXTENDS XXHStream, LaneProofs

(***************************************************************************)
(* Parts of a buffer                                                       *)
(***************************************************************************)
LEMMA SomeWord ==
  ASSUME NEW n \in Nat, NEW p \in Word(n)
  PROVE  p \in Seq(Byte) /\ Len(p) = n
BY LenOfFunction DEF Word

LEMMA BytesOfBytes ==
  ASSUME NEW n \in Nat, NEW p \in Word(n), NEW o \in Nat, NEW m \in Nat, o + m <= n,
         NEW i \in Nat, NEW k \in Nat, i + k <= m
  PROVE  Bytes(Bytes(p, o, m), i, k) = Bytes(p, o + i, k)
<1>1. PICK r \in Word(m) : r = Bytes(p, o, m) /\ \A j \in 1..m : r[j] = p[o + j]
  BY BytesWord
<1>2. PICK a \in Word(k) : a = Bytes(r, i, k) /\ \A j \in 1..k : a[j] = r[i + j]
  BY BytesWord
<1>3. o + i \in Nat /\ (o + i) + k <= n
  OBVIOUS
<1>4. PICK b \in Word(k) : b = Bytes(p, o + i, k) /\ \A j \in 1..k : b[j] = p[(o + i) + j]
  BY <1>3, BytesWord
<1>5. ASSUME NEW j \in 1..k PROVE a[j] = b[j]
  <2>1. PICK x \in 1..m : x = i + j
    OBVIOUS
  <2>2. a[j] = r[x] /\ r[x] = p[o + x] /\ b[j] = p[(o + i) + j]
    BY <1>1, <1>2, <1>4, <2>1
  <2>3. o + x = (o + i) + j
    BY <2>1
  <2> QED BY <2>2, <2>3
<1>6. a = b
  BY <1>5, SameWord
<1> QED BY <1>1, <1>2, <1>4, <1>6

(* What is behind the first i bytes.                                       *)
LEMMA RestIsBytes ==
  ASSUME NEW n \in Nat, NEW p \in Word(n), NEW i \in Nat, i <= n
  PROVE  SubSeq(p, i + 1, Len(p)) = Bytes(p, i, n - i)
<1>1. Len(p) = n /\ i + (n - i) = n
  BY SomeWord
<1> QED BY <1>1 DEF Bytes

LEMMA AllBytes ==
  ASSUME NEW n \in Nat, NEW p \in Word(n)
  PROVE  Bytes(p, 0, n) = p
<1>1. PICK r \in Word(n) : r = Bytes(p, 0, n) /\ \A j \in 1..n : r[j] = p[0 + j]
  BY BytesWord
<1>2. r = p
  BY <1>1, SameWord
<1> QED BY <1>1, <1>2

LEMMA CopiedWord ==
  ASSUME NEW m \in Nat, NEW p \in Word(m), NEW k \in Nat, NEW s \in Word(k), NEW i \in Nat, i + k <= m
  PROVE  /\ Copied(p, i, s) \in Word(m)
         /\ \A x \in 1..m : Copied(p, i, s)[x] = IF x <= i THEN p[x] ELSE IF x <= i + k THEN s[x - i] ELSE p[x]
<1>1. Len(p) = m /\ Len(s) = k
  BY SomeWord
<1>2. PICK a \in Word(i) : a = Bytes(p, 0, i) /\ \A j \in 1..i : a[j] = p[0 + j]
  BY BytesWord
<1>3. PICK l \in Nat, o \in Nat : l = m - i - k /\ o = i + k
  OBVIOUS
<1>4. PICK c \in Word(l) : c = Bytes(p, o, l) /\ \A j \in 1..l : c[j] = p[o + j]
  BY <1>3, BytesWord
<1>5. PICK b \in Word(o) : b = a \o s /\ \A x \in 1..o : b[x] = IF x <= i THEN a[x] ELSE s[x - i]
  <2>1. a \o s \in Word(i + k) /\ \A x \in 1..(i + k) : (a \o s)[x] = IF x <= i THEN a[x] ELSE s[x - i]
    BY ConcatWords
  <2> QED BY <1>3, <2>1
<1>6. PICK d \in Word(o + l) : d = b \o c /\ \A x \in 1..(o + l) : d[x] = IF x <= o THEN b[x] ELSE c[x - o]
  BY ConcatWords
<1>7. d = Copied(p, i, s) /\ o + l = m
  BY <1>1, <1>2, <1>3, <1>4, <1>5, <1>6 DEF Copied
<1>8. ASSUME NEW x \in 1..m
      PROVE  d[x] = IF x <= i THEN p[x] ELSE IF x <= i + k THEN s[x - i] ELSE p[x]
  <2>1. CASE x <= i
    <3>1. x \in 1..i /\ x \in 1..o /\ x \in 1..(o + l) /\ x <= o /\ 0 + x = x
      BY <1>3, <2>1
    <3> QED BY <1>2, <1>5, <1>6, <2>1, <3>1
  <2>2. CASE x > i /\ x <= i + k
    <3>1. x \in 1..o /\ x \in 1..(o + l) /\ x <= o /\ ~ (x <= i)
      BY <1>3, <2>2
    <3> QED BY <1>5, <1>6, <2>2, <3>1
  <2>3. CASE x > i + k
    <3>1. x \in 1..(o + l) /\ ~ (x <= o) /\ x - o \in 1..l /\ o + (x - o) = x /\ ~ (x <= i)
      BY <1>3, <2>3
    <3>2. d[x] = c[x - o] /\ c[x - o] = p[o + (x - o)]
      BY <1>4, <1>6, <3>1
    <3> QED BY <2>3, <3>1, <3>2
  <2> QED BY <2>1, <2>2, <2>3
<1> QED BY <1>6, <1>7, <1>8

-----------------------------------------------------------------------------
(***************************************************************************)
(* Stripes of s bytes, read from place o of a buffer by the table T        *)
(***************************************************************************)
Sizes == {16, 32}
Closed(T, V, s) == \A v \in V : \A b \in Word(s) : T[v][b] \in V

Reads(f, K, V, v, T, p, s, o) ==
  f \in [0..K -> V] /\ f[0] = v /\ \A n \in 1..K : f[n] = T[f[n - 1]][Bytes(p, o + s * (n - 1), s)]

LEMMA Division ==
  ASSUME NEW s \in Sizes, NEW a \in Nat
  PROVE  /\ a \div s \in Nat /\ a % s \in Nat /\ a % s < s /\ a = s * (a \div s) + (a % s)
         /\ \A q \in Nat, r \in Nat : a = s * q + r /\ r < s => q = a \div s /\ r = a % s
<1>1. CASE s = 16
  BY <1>1
<1>2. CASE s = 32
  BY <1>2
<1> QED BY <1>1, <1>2 DEF Sizes

LEMMA DivisionIs ==
  ASSUME NEW s \in Sizes, NEW a \in Nat, NEW q \in Nat, NEW r \in Nat, a = s * q + r, r < s
  PROVE  q = a \div s /\ r = a % s
<1>1. CASE s = 16
  BY <1>1
<1>2. CASE s = 32
  BY <1>2
<1> QED BY <1>1, <1>2 DEF Sizes

(* The numbers of a piece that completes no stripe                         *)
LEMMA ShortNumbers ==
  ASSUME NEW s \in Sizes, NEW from \in Nat, NEW n \in Nat, NEW r \in Nat, r = from % s, r + n < s
  PROVE  r + n = (from + n) % s /\ (from + n) \div s = from \div s
<1>1. CASE s = 16
  BY <1>1
<1>2. CASE s = 32
  BY <1>2
<1> QED BY <1>1, <1>2 DEF Sizes

LEMMA RemainderBelow ==
  ASSUME NEW s \in Sizes, NEW from \in Nat
  PROVE  from % s \in Nat /\ from % s <= from
<1>1. CASE s = 16
  BY <1>1
<1>2. CASE s = 32
  BY <1>2
<1> QED BY <1>1, <1>2 DEF Sizes

LEMMA Multiple ==
  ASSUME NEW s \in Sizes, NEW q \in Nat
  PROVE  /\ s \in Nat /\ s > 0 /\ s * q \in Nat /\ s * (q + 1) = s * q + s
         /\ \A j \in Nat : s * (q + j) = s * q + s * j /\ s * j \in Nat
<1>1. CASE s = 16
  BY <1>1
<1>2. CASE s = 32
  BY <1>2
<1> QED BY <1>1, <1>2 DEF Sizes

LEMMA StripesFit ==
  ASSUME NEW s \in Sizes, NEW K \in Nat, NEW n \in 1..K
  PROVE  s * (n - 1) \in Nat /\ s * K \in Nat /\ s * (n - 1) + s <= s * K
<1>1. CASE s = 16
  BY <1>1
<1>2. CASE s = 32
  BY <1>2
<1> QED BY <1>1, <1>2 DEF Sizes

LEMMA ReadsExist ==
  ASSUME NEW s \in Sizes, NEW V, NEW v \in V, NEW T, Closed(T, V, s),
         NEW m \in Nat, NEW p \in Word(m), NEW o \in Nat, NEW K \in Nat, o + s * K <= m
  PROVE  \E f : Reads(f, K, V, v, T, p, s, o)
<1>1. PICK G : G = [n \in 1..K |-> [x \in V |-> T[x][Bytes(p, o + s * (n - 1), s)]]]
  OBVIOUS
<1>2. ASSUME NEW n \in 1..K, NEW x \in V PROVE G[n][x] \in V /\ G[n][x] = T[x][Bytes(p, o + s * (n - 1), s)]
  <2>1. PICK i \in Nat : i = o + s * (n - 1) /\ i + s <= m
    BY StripesFit DEF Sizes
  <2>2. Bytes(p, i, s) \in Word(s)
    BY <2>1, BytesWord DEF Sizes
  <2> QED BY <1>1, <2>1, <2>2 DEF Closed
<1>3. PICK f : Recurs(f, K, V, v, G)
  BY <1>2, RecursionDefined
<1>4. \A n \in 1..K : f[n - 1] \in V
  BY <1>3 DEF Recurs
<1>5. \A n \in 1..K : f[n] = T[f[n - 1]][Bytes(p, o + s * (n - 1), s)]
  BY <1>2, <1>3, <1>4 DEF Recurs
<1> QED BY <1>3, <1>5 DEF Recurs, Reads

(* Reading goes on where it stopped: g has read p from the beginning, and f*)
(* the same bytes from stripe k on.                                        *)
LEMMA ReadsOn ==
  ASSUME NEW s \in Sizes, NEW V, NEW v \in V, NEW T, NEW p, NEW K \in Nat, NEW g, Reads(g, K, V, v, T, p, s, 0),
         NEW k \in Nat, NEW j \in Nat, k + j <= K,
         NEW m \in Nat, NEW d \in Nat, NEW q \in Word(d), p \in Word(m), s * k + d <= m, s * j <= d,
         q = Bytes(p, s * k, d), NEW f, Reads(f, j, V, g[k], T, q, s, 0)
  PROVE  f[j] = g[k + j]
<1>1. PICK S : S = {n \in 0..j : f[n] = g[k + n]}
  OBVIOUS
<1>2. 0 \in S
  BY <1>1 DEF Reads
<1>3. ASSUME NEW n \in 1..j, n - 1 \in S PROVE n \in S
  <2>1. PICK i \in Nat : i = s * (n - 1) /\ i + s <= d
    BY StripesFit DEF Sizes
  <2>2. s * k \in Nat /\ s \in Nat
    BY DEF Sizes
  <2>3. Bytes(q, i, s) = Bytes(p, s * k + i, s)
    <3>1. PICK w \in Nat, z \in Nat : w = s * k /\ z = s
      BY <2>2
    <3>2. q = Bytes(p, w, d) /\ w + d <= m /\ i + z <= d
      BY <2>1, <3>1
    <3>3. Bytes(Bytes(p, w, d), i, z) = Bytes(p, w + i, z)
      BY <3>2, BytesOfBytes
    <3> QED BY <3>1, <3>2, <3>3
  <2>4. s * k + i = s * ((k + n) - 1)
    <3>1. CASE s = 16
      BY <2>1, <3>1
    <3>2. CASE s = 32
      BY <2>1, <3>2
    <3> QED BY <3>1, <3>2 DEF Sizes
  <2>5. f[n] = T[f[n - 1]][Bytes(q, 0 + i, s)]
    BY <2>1 DEF Reads
  <2>6. PICK x \in 1..K : x = k + n /\ x - 1 = k + (n - 1)
    OBVIOUS
  <2>7. g[x] = T[g[x - 1]][Bytes(p, 0 + s * (x - 1), s)]
    BY DEF Reads
  <2>8. 0 + i = i /\ 0 + s * (x - 1) = s * k + i
    BY <2>1, <2>2, <2>4, <2>6
  <2>9. f[n - 1] = g[x - 1]
    BY <1>1, <1>3, <2>6
  <2>10. f[n] = g[x]
    BY <2>3, <2>5, <2>7, <2>8, <2>9
  <2> QED BY <1>1, <2>6, <2>10
<1>4. \A n \in 0..j : n \in S
  BY <1>2, <1>3, SetInduction
<1> QED BY <1>1, <1>4

(***************************************************************************)
(* What an update does to the buffer of one stripe                         *)
(***************************************************************************)
\* The first k bytes of b are those of p from place o on.
Holds(b, k, p, o) == \A x \in 1..k : b[x] = p[o + x]

(* A short piece goes behind the r bytes that are buffered.                *)
LEMMA ShortPiece ==
  ASSUME NEW s \in Sizes, NEW D \in Nat, NEW p \in Word(D), NEW from \in Nat, NEW n \in Nat, from + n <= D,
         NEW mem \in Word(s), NEW r \in Nat, r = from % s, Holds(mem, r, p, from - r), r + n < s
  PROVE  /\ Copied(mem, r, Bytes(p, from, n)) \in Word(s)
         /\ Holds(Copied(mem, r, Bytes(p, from, n)), r + n, p, (from + n) - (r + n))
         /\ r + n = (from + n) % s /\ (from + n) \div s = from \div s
<1>1. PICK q \in Nat : q = from \div s
  BY Division
<1>2. r + n = (from + n) % s /\ (from + n) \div s = q
  BY <1>1, ShortNumbers
<1>8. r <= from
  BY RemainderBelow
<1>3. PICK a \in Word(n) : a = Bytes(p, from, n) /\ \A j \in 1..n : a[j] = p[from + j]
  BY BytesWord
<1>4. s \in Nat /\ r + n <= s
  BY DEF Sizes
<1>5. PICK c \in Word(s) : c = Copied(mem, r, a) /\ \A x \in 1..s : c[x] = IF x <= r THEN mem[x] ELSE IF x <= r + n THEN a[x - r] ELSE mem[x]
  BY <1>4, CopiedWord
<1>6. ASSUME NEW x \in 1..(r + n) PROVE c[x] = p[((from + n) - (r + n)) + x]
  <2>1. PICK y \in Int : y = ((from + n) - (r + n)) + x /\ y = (from - r) + x
    BY <1>8
  <2>2. x \in 1..s
    BY <1>4
  <2>3. CASE x <= r
    <3>1. x \in 1..r
      BY <2>3
    <3> QED BY <1>5, <2>1, <2>2, <2>3, <3>1 DEF Holds
  <2>4. CASE ~ (x <= r)
    <3>1. x - r \in 1..n /\ from + (x - r) = y /\ x <= r + n
      BY <2>1, <2>4
    <3> QED BY <1>3, <1>5, <2>1, <2>2, <2>4, <3>1
  <2> QED BY <2>3, <2>4
<1> QED BY <1>1, <1>2, <1>3, <1>5, <1>6 DEF Holds

Load(s, r) == IF r = 0 THEN 0 ELSE s - r

(* A piece that is long enough completes the stripe that was begun.        *)
LEMMA StripeCompleted ==
  ASSUME NEW s \in Sizes, NEW D \in Nat, NEW p \in Word(D), NEW from \in Nat, NEW n \in Nat, from + n <= D,
         NEW mem \in Word(s), NEW r \in Nat, r = from % s, Holds(mem, r, p, from - r), r + n >= s
  PROVE  /\ Load(s, r) \in Nat /\ Load(s, r) <= n /\ s - Load(s, r) \in Nat
         /\ Copied(mem, s - Load(s, r), Bytes(Bytes(p, from, n), 0, Load(s, r))) \in Word(s)
         /\ r # 0 => Copied(mem, s - Load(s, r), Bytes(Bytes(p, from, n), 0, Load(s, r))) = Bytes(p, s * (from \div s), s)
<1>1. PICK q \in Nat : q = from \div s /\ from = s * q + r /\ r < s
  BY Division
<1>2. PICK l \in Nat, z \in Nat : l = Load(s, r) /\ z = s - l /\ l <= n /\ z + l <= s /\ (r # 0 => z = r)
  <2>1. PICK y \in Nat : y = s
    BY DEF Sizes
  <2>2. CASE r = 0
    <3>1. Load(s, r) = 0 /\ 0 <= n /\ y - 0 \in Nat /\ (y - 0) + 0 <= y
      BY <2>1, <2>2 DEF Load
    <3> QED BY <2>1, <2>2, <3>1
  <2>3. CASE r # 0
    <3>1. Load(s, r) = y - r /\ y - r \in Nat /\ y - r <= n /\ y - (y - r) = r /\ r + (y - r) <= y
      BY <1>1, <2>1, <2>3 DEF Load
    <3> QED BY <2>1, <2>3, <3>1
  <2> QED BY <2>2, <2>3
<1>3. Bytes(Bytes(p, from, n), 0, l) = Bytes(p, from + 0, l)
  BY <1>2, BytesOfBytes
<1>4. PICK a \in Word(l) : a = Bytes(p, from, l) /\ \A j \in 1..l : a[j] = p[from + j]
  <2>1. from + l <= D
    BY <1>2
  <2> QED BY <2>1, BytesWord
<1>5. PICK w \in Nat : w = s
  BY DEF Sizes
<1>6. PICK c \in Word(w) : c = Copied(mem, z, a) /\ \A x \in 1..w : c[x] = IF x <= z THEN mem[x] ELSE IF x <= z + l THEN a[x - z] ELSE mem[x]
  <2>1. mem \in Word(w) /\ z + l <= w
    BY <1>2, <1>5
  <2> QED BY <2>1, CopiedWord
<1>7. Copied(mem, s - Load(s, r), Bytes(Bytes(p, from, n), 0, Load(s, r))) = c
  <2>1. from + 0 = from
    OBVIOUS
  <2> QED BY <1>2, <1>3, <1>4, <1>6, <2>1
<1>8. ASSUME r # 0 PROVE c = Bytes(p, s * q, s)
  <2>0. PICK o \in Nat : o = s * q
    BY Multiple
  <2>1. from = o + r /\ z = r /\ z + l = w /\ o + w <= D
    <3>1. from = o + r
      BY <1>1, <2>0
    <3>2. z = r /\ z + l = w
      BY <1>2, <1>5, <1>8
    <3> QED BY <1>2, <1>5, <3>1, <3>2
  <2>2. PICK b \in Word(w) : b = Bytes(p, o, w) /\ \A x \in 1..w : b[x] = p[o + x]
    <3>1. o + w <= D
      BY <2>1
    <3> QED BY <3>1, BytesWord
  <2>3. ASSUME NEW x \in 1..w PROVE c[x] = b[x]
    <3>1. CASE x <= r
      <4>1. x \in 1..r /\ from - r = o
        BY <2>1, <3>1
      <4>2. mem[x] = p[o + x]
        BY <4>1 DEF Holds
      <4> QED BY <1>6, <2>1, <2>2, <3>1, <4>2
    <3>2. CASE ~ (x <= r)
      <4>1. x - z \in 1..l /\ from + (x - z) = o + x /\ x <= z + l /\ ~ (x <= z)
        BY <2>1, <3>2
      <4>2. c[x] = a[x - z] /\ a[x - z] = p[from + (x - z)]
        BY <1>4, <1>6, <4>1
      <4> QED BY <2>2, <4>1, <4>2
    <3> QED BY <3>1, <3>2
  <2>4. c = b
    BY <2>3, SameWord
  <2> QED BY <1>5, <2>0, <2>2, <2>4
<1> QED BY <1>1, <1>2, <1>5, <1>6, <1>7, <1>8

(* Behind the load the piece is read from stripe h on.                     *)
LEMMA RestNumbers ==
  ASSUME NEW s \in Sizes, NEW from \in Nat, NEW n \in Nat, NEW r \in Nat, r = from % s, r + n >= s,
         NEW m \in Nat, m = n - Load(s, r)
  PROVE  /\ m % s = (from + n) % s
         /\ \E h \in Nat : /\ h = (IF r = 0 THEN from \div s ELSE (from \div s) + 1)
                           /\ s * h = from + Load(s, r) /\ s * h + m = from + n
                           /\ h + (m \div s) = (from + n) \div s
<1>1. PICK k \in Nat : k = from \div s /\ from = s * k + r /\ r < s
  BY Division
<1>2. PICK j \in Nat, t \in Nat : j = m \div s /\ t = m % s /\ m = s * j + t /\ t < s
  BY Division
<1>3. PICK h \in Nat : h = (IF r = 0 THEN k ELSE k + 1) /\ s * h = from + Load(s, r) /\ s * h + m = from + n
  <2>0. s \in Nat /\ s * k \in Nat /\ s * (k + 1) = s * k + s
    BY Multiple
  <2>1. PICK y \in Nat, o \in Nat : y = s /\ o = s * k /\ s * (k + 1) = o + y
    BY <2>0
  <2>2. from = o + r
    BY <1>1, <2>1
  <2>3. CASE r = 0
    <3>1. Load(s, r) = 0 /\ o = from + 0 /\ m = n - 0
      BY <2>2, <2>3 DEF Load
    <3> QED BY <2>1, <2>3, <3>1
  <2>4. CASE r # 0
    <3>1. Load(s, r) = y - r /\ m = n - (y - r)
      BY <2>1, <2>4 DEF Load
    <3>2. o + y = from + (y - r) /\ (o + y) + m = from + n
      BY <2>2, <3>1
    <3> QED BY <2>1, <2>4, <3>1, <3>2
  <2> QED BY <2>3, <2>4
<1>4. PICK a \in Nat, b \in Nat : a = from + n /\ b = h + j
  OBVIOUS
<1>5. a = s * b + t
  <2>a. s * (h + j) = s * h + s * j
    BY Multiple
  <2>b. s * h \in Nat
    BY Multiple
  <2>c. s * j \in Nat
    BY Multiple
  <2>1. s * (h + j) = s * h + s * j /\ s * h \in Nat /\ s * j \in Nat
    BY <2>a, <2>b, <2>c
  <2>2. PICK x \in Nat, y \in Nat : x = s * h /\ y = s * j
    BY <2>1
  <2>3. s * b = x + y
    BY <1>4, <2>1, <2>2
  <2>4. x + m = from + n /\ m = y + t
    BY <1>2, <1>3, <2>2
  <2> QED BY <1>4, <2>3, <2>4
<1>6. b = a \div s /\ t = a % s
  BY <1>2, <1>5, DivisionIs
<1> QED BY <1>1, <1>2, <1>3, <1>4, <1>6

\* The lanes g[k] with the stripe that was begun, if any
Begun(g, T, p, s, k, r) == IF r = 0 THEN g[k] ELSE T[g[k]][Bytes(p, s * k, s)]

(* Then whole stripes are read from the piece, and the rest stays behind.  *)
LEMMA StripesRead ==
  ASSUME NEW s \in Sizes, NEW D \in Nat, NEW p \in Word(D), NEW from \in Nat, NEW n \in Nat, from + n <= D,
         NEW r \in Nat, r = from % s, r + n >= s,
         NEW V, NEW v \in V, NEW T, NEW g, Reads(g, D \div s, V, v, T, p, s, 0),
         NEW w, w = Begun(g, T, p, s, from \div s, r),
         NEW m \in Nat, m = n - Load(s, r), NEW q \in Word(m), q = Bytes(p, from + Load(s, r), m),
         NEW f, Reads(f, m \div s, V, w, T, q, s, 0)
  PROVE  f[m \div s] = g[(from + n) \div s]
<1>1. PICK h \in Nat : /\ h = (IF r = 0 THEN from \div s ELSE (from \div s) + 1)
                       /\ s * h = from + Load(s, r) /\ s * h + m = from + n
                       /\ h + (m \div s) = (from + n) \div s
  BY RestNumbers
<1>2. PICK k \in Nat : k = from \div s
  BY Division
<1>3. PICK K \in Nat, u \in Nat : K = D \div s /\ D = s * K + u /\ u < s
  BY Division
<1>4. PICK j \in Nat, t \in Nat : j = m \div s /\ m = s * j + t /\ t < s
  BY Division
<1>5. h + j <= K
  <2>1. PICK x \in Nat, t2 \in Nat : x = h + j /\ from + n = s * x + t2 /\ t2 < s
    <3>1. PICK a \in Nat : a = from + n
      OBVIOUS
    <3>2. a = s * (a \div s) + (a % s) /\ a \div s \in Nat /\ a % s \in Nat /\ a % s < s
      BY Division
    <3>3. h + j = a \div s
      BY <1>1, <1>4, <3>1
    <3> QED BY <3>1, <3>2, <3>3
  <2>2. CASE s = 16
    <3>1. 16 * x + t2 <= 16 * K + u /\ u < 16
      BY <1>3, <2>1, <2>2
    <3> QED BY <2>1, <3>1
  <2>3. CASE s = 32
    <3>1. 32 * x + t2 <= 32 * K + u /\ u < 32
      BY <1>3, <2>1, <2>3
    <3> QED BY <2>1, <3>1
  <2> QED BY <2>2, <2>3 DEF Sizes
<1>6. w = g[h]
  <2>1. CASE r = 0
    BY <1>1, <2>1 DEF Begun
  <2>2. CASE r # 0
    <3>1. h = k + 1
      BY <1>1, <1>2, <2>2
    <3>2. h \in 1..K /\ h - 1 = k
      BY <1>5, <3>1
    <3>3. 0 + s * k = s * k
      BY Multiple
    <3>4. g[h] = T[g[h - 1]][Bytes(p, 0 + s * (h - 1), s)]
      BY <1>3, <3>2 DEF Reads
    <3> QED BY <1>2, <2>2, <3>2, <3>3, <3>4 DEF Begun
  <2> QED BY <2>1, <2>2
<1>7. Reads(f, j, V, g[h], T, q, s, 0) /\ Reads(g, K, V, v, T, p, s, 0)
  BY <1>3, <1>4, <1>6
<1>8. q = Bytes(p, s * h, m)
  BY <1>1
<1>9. s * h + m <= D
  BY <1>1
<1>10. s * j <= m
  <2>1. PICK y \in Nat : y = s * j
    BY Multiple
  <2> QED BY <1>4, <2>1
<1>11. f[j] = g[h + j]
  BY <1>5, <1>7, <1>8, <1>9, <1>10, ReadsOn
<1> QED BY <1>1, <1>4, <1>11

(* The lanes stay lanes.                                                   *)
LEMMA BegunTyped ==
  ASSUME NEW s \in Sizes, NEW D \in Nat, NEW p \in Word(D), NEW from \in Nat, NEW n \in Nat, from + n <= D,
         NEW r \in Nat, r = from % s, r + n >= s,
         NEW V, NEW v \in V, NEW T, Closed(T, V, s), NEW g, Reads(g, D \div s, V, v, T, p, s, 0)
  PROVE  Begun(g, T, p, s, from \div s, r) \in V
<1>1. PICK k \in Nat : k = from \div s /\ from = s * k + r /\ r < s
  BY Division
<1>2. PICK K \in Nat, u \in Nat : K = D \div s /\ D = s * K + u /\ u < s
  BY Division
<1>3. PICK o \in Nat, w \in Nat : o = s * k /\ w = s
  BY Multiple
<1>4. o + w <= D
  <2>1. from = o + r
    BY <1>1, <1>3
  <2> QED BY <1>3, <2>1
<1>5. k \in 0..K
  <2>1. CASE s = 16
    <3>1. 16 * k + 16 <= 16 * K + u /\ u < 16
      BY <1>2, <1>3, <1>4, <2>1
    <3> QED BY <3>1
  <2>2. CASE s = 32
    <3>1. 32 * k + 32 <= 32 * K + u /\ u < 32
      BY <1>2, <1>3, <1>4, <2>2
    <3> QED BY <3>1
  <2> QED BY <2>1, <2>2 DEF Sizes
<1>6. g[k] \in V
  BY <1>2, <1>5 DEF Reads
<1>7. Bytes(p, o, w) \in Word(w)
  BY <1>4, BytesWord
<1> QED BY <1>1, <1>3, <1>6, <1>7 DEF Begun, Closed

(* Of the whole and of its beginning the same stripes are read.            *)
LEMMA BeginningRead ==
  ASSUME NEW s \in Sizes, NEW D \in Nat, NEW p \in Word(D), NEW from \in Nat, from <= D,
         NEW V, NEW v \in V, NEW T, NEW g, Reads(g, D \div s, V, v, T, p, s, 0),
         NEW q \in Word(from), q = Bytes(p, 0, from), NEW f, Reads(f, from \div s, V, v, T, q, s, 0)
  PROVE  f[from \div s] = g[from \div s]
<1>1. PICK K \in Nat, u \in Nat : K = D \div s /\ D = s * K + u /\ u < s
  BY Division
<1>2. PICK j \in Nat, t \in Nat : j = from \div s /\ from = s * j + t /\ t < s
  BY Division
<1>3. j <= K
  <2>1. CASE s = 16
    <3>1. D = 16 * K + u /\ u < 16 /\ from = 16 * j + t
      BY <1>1, <1>2, <2>1
    <3> QED BY <3>1
  <2>2. CASE s = 32
    <3>1. D = 32 * K + u /\ u < 32 /\ from = 32 * j + t
      BY <1>1, <1>2, <2>2
    <3> QED BY <3>1
  <2> QED BY <2>1, <2>2 DEF Sizes
<1>4. s * j <= from
  <2>1. PICK y \in Nat : y = s * j
    BY Multiple
  <2> QED BY <1>2, <2>1
<1>5. PICK z \in Nat : z = 0
  OBVIOUS
<1>6. s * z = 0
  BY <1>5 DEF Sizes
<1>7. g[z] = v
  BY <1>5 DEF Reads
<1>8. Reads(f, j, V, g[z], T, q, s, 0) /\ Reads(g, K, V, v, T, p, s, 0)
  BY <1>1, <1>2, <1>7
<1>9. q = Bytes(p, s * z, from) /\ s * z + from <= D /\ z + j <= K
  BY <1>3, <1>5, <1>6
<1>10. f[j] = g[z + j]
  BY <1>4, <1>8, <1>9, ReadsOn
<1>11. z + j = j
  BY <1>5
<1> QED BY <1>2, <1>10, <1>11

(* The bytes behind the stripes are the first of the buffer.               *)
LEMMA RestKept ==
  ASSUME NEW s \in Sizes, NEW D \in Nat, NEW p \in Word(D), NEW o \in Nat, NEW m \in Nat, o + m <= D,
         NEW mem \in Word(s)
  PROVE  /\ Copied(mem, 0, Behind(Bytes(p, o, m), s)) \in Word(s)
         /\ Holds(Copied(mem, 0, Behind(Bytes(p, o, m), s)), m % s, p, (o + m) - (m % s))
<1>1. PICK t \in Nat : t = m % s /\ t <= m /\ t < s
  <2>1. PICK y \in Nat, k \in Nat, z \in Nat : y = s * k /\ k = m \div s /\ z = m % s
    BY Division, Multiple
  <2>2. m = y + z /\ z < s
    BY <2>1, Division
  <2> QED BY <2>1, <2>2
<1>2. PICK i \in Nat, w \in Nat : i = m - t /\ i + t = m /\ w = s
  BY <1>1 DEF Sizes
<1>3. PICK q \in Word(m) : q = Bytes(p, o, m) /\ \A j \in 1..m : q[j] = p[o + j]
  BY BytesWord
<1>4. PICK b \in Word(t) : b = Bytes(q, i, t) /\ \A j \in 1..t : b[j] = q[i + j]
  BY <1>2, BytesWord
<1>5. Behind(q, s) = b
  <2>1. Len(q) = m
    BY SomeWord
  <2>2. Behind(q, s) = SubSeq(q, i + 1, m)
    BY <1>1, <1>2, <2>1 DEF Behind
  <2> QED BY <1>2, <1>4, <2>2 DEF Bytes
<1>6. PICK c \in Word(w) : c = Copied(mem, 0, b) /\ \A x \in 1..w : c[x] = IF x <= 0 THEN mem[x] ELSE IF x <= 0 + t THEN b[x - 0] ELSE mem[x]
  <2>1. mem \in Word(w) /\ 0 + t <= w
    BY <1>1, <1>2
  <2> QED BY <2>1, CopiedWord
<1>7. ASSUME NEW x \in 1..t PROVE c[x] = p[((o + m) - t) + x]
  <2>1. x \in 1..w /\ ~ (x <= 0) /\ x <= 0 + t /\ x - 0 = x
    BY <1>1, <1>2
  <2>2. PICK y \in 1..m : y = i + x /\ ((o + m) - t) + x = o + y
    BY <1>2
  <2> QED BY <1>3, <1>4, <1>6, <2>1, <2>2
<1> QED BY <1>1, <1>2, <1>3, <1>5, <1>6, <1>7 DEF Holds

Divided(a, s, k, r) == k = a \div s /\ r = a % s

\* A long piece a, of which l bytes complete the stripe in mem and the m bytes q
\* are left, turns the lanes x into x2 and leaves c and r2 bytes in the buffer.
Taken(s, a, mem, r, V, T, x, x2, l, m, filled, w, c, q, r2) ==
  /\ l = Load(s, r) /\ filled = Copied(mem, s - l, Bytes(a, 0, l))
  /\ SubSeq(a, l + 1, Len(a)) = q
  /\ w = IF l = 0 THEN x ELSE T[x][filled]
  /\ c = Copied(filled, 0, Behind(q, s))
  /\ m % s = r2
  /\ \A f : Reads(f, m \div s, V, w, T, q, s, 0) => f[m \div s] = x2

PieceTaken(s, p, from, n, mem, r, V, T, g) ==
  \E l \in Nat, m \in Nat, filled \in Word(s), w \in V, c \in Word(s) : \E q \in Word(m) :
    /\ Taken(s, Bytes(p, from, n), mem, r, V, T, g[from \div s], g[(from + n) \div s],
             l, m, filled, w, c, q, (from + n) % s)
    /\ Holds(c, (from + n) % s, p, (from + n) - ((from + n) % s))

(* What a long piece makes of lanes and buffer                             *)
LEMMA LongPiece ==
  ASSUME NEW s \in Sizes, NEW D \in Nat, NEW p \in Word(D), NEW from \in Nat, NEW n \in Nat, from + n <= D,
         NEW r \in Nat, r = from % s, r + n >= s, NEW mem \in Word(s), Holds(mem, r, p, from - r),
         NEW V, NEW v \in V, NEW T, Closed(T, V, s), NEW g, Reads(g, D \div s, V, v, T, p, s, 0)
  PROVE  PieceTaken(s, p, from, n, mem, r, V, T, g)
<1>1. PICK a \in Word(n) : a = Bytes(p, from, n)
  BY BytesWord
<1>2. Load(s, r) \in Nat /\ Load(s, r) <= n
  BY StripeCompleted
<1>3. Copied(mem, s - Load(s, r), Bytes(Bytes(p, from, n), 0, Load(s, r))) \in Word(s)
  BY StripeCompleted
<1>4. r # 0 => Copied(mem, s - Load(s, r), Bytes(Bytes(p, from, n), 0, Load(s, r))) = Bytes(p, s * (from \div s), s)
  BY StripeCompleted
<1>5. PICK l \in Nat, m \in Nat : l = Load(s, r) /\ l <= n /\ m = n - l
  BY <1>2
<1>6. PICK filled \in Word(s) : filled = Copied(mem, s - l, Bytes(a, 0, l))
  BY <1>1, <1>3, <1>5
<1>7. r # 0 => filled = Bytes(p, s * (from \div s), s)
  BY <1>1, <1>4, <1>5, <1>6
<1>8. PICK o \in Nat : o = from + l /\ o + m <= D /\ o + m = from + n
  BY <1>5
<1>9. PICK q \in Word(m) : q = Bytes(p, o, m)
  BY <1>8, BytesWord
<1>10. SubSeq(a, l + 1, Len(a)) = q
  <2>1. SubSeq(a, l + 1, Len(a)) = Bytes(a, l, n - l)
    <3>1. Len(a) = n
      BY SomeWord, Zenon
    <3>2. l + (n - l) = n
      BY <1>5
    <3> QED BY <3>1, <3>2, Zenon DEF Bytes
  <2>2. l + m <= n
    BY <1>5
  <2>3. Bytes(Bytes(p, from, n), l, m) = Bytes(p, from + l, m)
    BY <2>2, BytesOfBytes
  <2> QED BY <1>1, <1>5, <1>8, <1>9, <2>1, <2>3
<1>11. PICK w \in V : w = Begun(g, T, p, s, from \div s, r)
  BY BegunTyped
<1>12. m % s = (from + n) % s
  BY <1>5, RestNumbers
<1>13. m = n - Load(s, r) /\ q = Bytes(p, from + Load(s, r), m)
  BY <1>5, <1>8, <1>9
<1>14. ASSUME NEW f, Reads(f, m \div s, V, w, T, q, s, 0) PROVE f[m \div s] = g[(from + n) \div s]
  BY <1>11, <1>13, <1>14, StripesRead
<1>15. w = IF l = 0 THEN g[from \div s] ELSE T[g[from \div s]][filled]
  <2>1. CASE r = 0
    BY <1>5, <1>11, <2>1 DEF Load, Begun
  <2>2. CASE r # 0
    <3>1. PICK y \in Nat : y = s
      BY DEF Sizes
    <3>2. r < s
      BY Division
    <3>3. Load(s, r) = y - r
      BY <2>2, <3>1 DEF Load
    <3>4. l # 0
      BY <1>5, <3>1, <3>2, <3>3
    <3> QED BY <1>7, <1>11, <2>2, <3>4 DEF Begun
  <2> QED BY <2>1, <2>2
<1>16. PICK c \in Word(s) : c = Copied(filled, 0, Behind(q, s))
  BY <1>8, <1>9, RestKept
<1>17. Holds(c, (from + n) % s, p, (from + n) - ((from + n) % s))
  <2>1. Holds(c, m % s, p, (o + m) - (m % s))
    BY <1>8, <1>9, <1>16, RestKept
  <2> QED BY <1>8, <1>12, <2>1
<1>18. Taken(s, a, mem, r, V, T, g[from \div s], g[(from + n) \div s], l, m, filled, w, c, q, (from + n) % s)
  BY <1>5, <1>6, <1>10, <1>12, <1>14, <1>15, <1>16 DEF Taken
<1> QED BY <1>1, <1>17, <1>18 DEF PieceTaken

LEMMA LongPieceAt ==
  ASSUME NEW s \in Sizes, NEW D \in Nat, NEW p \in Word(D), NEW from \in Nat, NEW to \in Nat, NEW n \in Nat,
         to = from + n, to <= D,
         NEW k, NEW r \in Nat, Divided(from, s, k, r), NEW k2, NEW r2 \in Nat, Divided(to, s, k2, r2),
         NEW K, NEW u, Divided(D, s, K, u), r + n >= s, NEW mem \in Word(s), Holds(mem, r, p, from - r),
         NEW V, NEW v \in V, NEW T, Closed(T, V, s), NEW g, Reads(g, K, V, v, T, p, s, 0)
  PROVE  \E l \in Nat, m \in Nat, filled \in Word(s), w \in V, c \in Word(s) : \E q \in Word(m) :
           /\ Taken(s, Bytes(p, from, n), mem, r, V, T, g[k], g[k2], l, m, filled, w, c, q, r2)
           /\ Holds(c, r2, p, to - r2)
<1>1. r = from % s /\ k = from \div s /\ k2 = (from + n) \div s /\ r2 = (from + n) % s /\ K = D \div s
  BY DEF Divided
<1>2. Reads(g, D \div s, V, v, T, p, s, 0)
  BY <1>1
<1>3. PieceTaken(s, p, from, n, mem, r, V, T, g)
  <2>1. r = from % s /\ from + n <= D
    BY <1>1
  <2> HIDE <1>1
  <2> QED BY <1>2, <2>1, LongPiece
<1> QED BY <1>1, <1>3 DEF PieceTaken

-----------------------------------------------------------------------------
(***************************************************************************)
(* The 32-bit hash: its four lanes of 4 bytes read stripes of 16 bytes   *)
(***************************************************************************)
Lanes32 == Vec(4, Word(4))
Table32 == [v \in Lanes32 |-> [b \in Word(16) |-> XXH32_stripe(v, b)]]

LEMMA Primes32 ==
  /\ XXH_PRIME32_1 \in Word(4) /\ XXH_PRIME32_2 \in Word(4)
<1>1. XXH_PRIME32_1 \in Word(4)
  BY DEF XXH_PRIME32_1, Word, Byte
<1>2. XXH_PRIME32_2 \in Word(4)
  BY DEF XXH_PRIME32_2, Word, Byte
<1> QED BY <1>1, <1>2

LEMMA Round32 ==
  ASSUME NEW acc \in Word(4), NEW input \in Word(4)
  PROVE  XXH32_round(acc, input) \in Word(4)
<1>1. PICK n \in Nat : n = 4
  OBVIOUS
<1>2. PICK a \in Word(n), b \in Word(n), p1 \in Word(n), p2 \in Word(n) :
        a = acc /\ b = input /\ p1 = XXH_PRIME32_1 /\ p2 = XXH_PRIME32_2
  BY <1>1, Primes32
<1>3. PICK x \in Word(n) : x = b ** p2
  BY TimesWord
<1>4. PICK y \in Word(n) : y = a ++ x
  BY SumWord
<1>5. PICK r \in Nat : r = 13 /\ r < 8 * n
  BY <1>1
<1>6. PICK z \in Word(n) : z = Rotl(y, r)
  BY <1>5, RotlWord
<1>7. z ** p1 \in Word(n)
  BY TimesWord
<1> QED BY <1>1, <1>2, <1>3, <1>4, <1>5, <1>6, <1>7 DEF XXH32_round

LEMMA Stripe32Closed == Closed(Table32, Lanes32, 16)
<1>1. ASSUME NEW v \in Lanes32, NEW b \in Word(16) PROVE XXH32_stripe(v, b) \in Lanes32
  <2>1. PICK f : f = [i \in 1..4 |-> XXH32_round(v[i], XXH_readLE32(b, 4 * (i - 1)))]
    OBVIOUS
  <2>2. PICK n \in Nat, w \in Nat, d \in Nat : n = 4 /\ w = 4 /\ d = 16
    OBVIOUS
  <2>3. ASSUME NEW i \in 1..n PROVE f[i] \in Word(w)
    <3>1. PICK o \in Nat : o = 4 * (i - 1) /\ o + w <= d
      BY <2>2
    <3>2. b \in Word(d)
      BY <2>2
    <3>3. Bytes(b, o, w) \in Word(w)
      BY <3>1, <3>2, BytesWord
    <3>4. PICK c \in Word(4) : c = Bytes(b, o, 4)
      BY <2>2, <3>3
    <3>5. PICK u \in Word(4) : u = v[i]
      BY <2>2 DEF Lanes32, Vec
    <3>6. XXH32_round(u, c) \in Word(4)
      BY Round32
    <3>7. f[i] = XXH32_round(u, c)
      BY <2>1, <2>2, <3>1, <3>4, <3>5 DEF XXH_readLE32
    <3> QED BY <2>2, <3>6, <3>7
  <2>4. f \in [1..n -> Word(w)]
    BY <2>1, <2>2, <2>3
  <2>5. Tuple(f) = f
    BY <2>4, TupleIsIt
  <2>6. XXH32_stripe(v, b) = f
    BY <2>1, <2>5 DEF XXH32_stripe
  <2> QED BY <2>2, <2>4, <2>6 DEF Lanes32, Vec
<1> QED BY <1>1 DEF Closed, Table32

LEMMA Lanes32OfSeed ==
  ASSUME NEW sd \in Word(4)
  PROVE  XXH32_lanes(sd) \in Lanes32 /\ XXH32_lanes(sd)[3] = sd
<1>1. PICK n \in Nat : n = 4
  OBVIOUS
<1>2. PICK a \in Word(n), p1 \in Word(n), p2 \in Word(n) : a = sd /\ p1 = XXH_PRIME32_1 /\ p2 = XXH_PRIME32_2
  BY <1>1, Primes32
<1>3. PICK x \in Word(n), y \in Word(n) : x = a ++ p1 /\ y = a ++ p2
  BY SumWord
<1>4. PICK z \in Word(n) : z = x ++ p2
  BY SumWord
<1>5. PICK u \in Word(n) : u = a -- p1
  BY DifferenceWord
<1>6. XXH32_lanes(sd) = <<z, y, a, u>>
  BY <1>2, <1>3, <1>4, <1>5 DEF XXH32_lanes
<1>7. <<z, y, a, u>> \in [1..4 -> Word(n)] /\ <<z, y, a, u>>[3] = a
  OBVIOUS
<1> QED BY <1>1, <1>2, <1>6, <1>7 DEF Lanes32, Vec

(* The stripes of a buffer are read one after the other.                   *)
LEMMA Stripes32 ==
  ASSUME NEW v \in Lanes32, NEW m \in Nat, NEW p \in Word(m)
  PROVE  \E f : /\ Reads(f, m \div 16, Lanes32, v, Table32, p, 16, 0)
                /\ Stripes(v, p, 16, XXH32_stripe) = f[m \div 16]
<1>1. PICK K \in Nat : K = m \div 16 /\ 16 * K <= m
  OBVIOUS
<1>2. PICK s \in Sizes : s = 16
  BY DEF Sizes
<1>3. Closed(Table32, Lanes32, s) /\ 0 + s * K <= m
  BY <1>1, <1>2, Stripe32Closed
<1>4. PICK g : Reads(g, K, Lanes32, v, Table32, p, s, 0)
  BY <1>3, ReadsExist
<1>5. ASSUME NEW n \in 1..K PROVE Bytes(p, 16 * (n - 1), 16) \in Word(16) /\ 0 + s * (n - 1) = 16 * (n - 1)
  <2>1. PICK i \in Nat, w \in Nat : i = 16 * (n - 1) /\ w = 16 /\ i + w <= m
    BY <1>1
  <2>2. Bytes(p, i, w) \in Word(w)
    BY <2>1, BytesWord
  <2> QED BY <1>2, <2>1, <2>2
<1>6. ASSUME NEW n \in 1..K, NEW x \in Lanes32
      PROVE  /\ Table32[x][Bytes(p, 16 * (n - 1), 16)] = XXH32_stripe(x, Bytes(p, 16 * (n - 1), 16))
             /\ XXH32_stripe(x, Bytes(p, 16 * (n - 1), 16)) \in Lanes32
  BY <1>2, <1>3, <1>5 DEF Table32, Closed
<1> DEFINE Step(n, x) == XXH32_stripe(x, Bytes(p, 16 * (n - 1), 16))
           Solves(f) == f = [n \in 0..(Len(p) \div 16) |-> IF n = 0 THEN v ELSE Step(n, f[n - 1])]
           chosen == CHOOSE f : Solves(f)
<1>7. Len(p) \div 16 = K
  BY <1>1, SomeWord
<1>8. Stripes(v, p, 16, XXH32_stripe) = chosen[Len(p) \div 16]
  BY DEF Stripes
<1> HIDE DEF Step
<1>9. Solves(g)
  <2>1. ASSUME NEW n \in 1..K PROVE g[n] = Step(n, g[n - 1])
    <3>1. g[n - 1] \in Lanes32
      BY <1>4 DEF Reads
    <3>2. g[n] = Table32[g[n - 1]][Bytes(p, 0 + s * (n - 1), s)]
      BY <1>4 DEF Reads
    <3> QED BY <1>2, <1>5, <1>6, <3>1, <3>2 DEF Step
  <2>2. g \in [0..K -> Lanes32] /\ g[0] = v
    BY <1>4 DEF Reads
  <2> QED BY <1>7, <2>1, <2>2
<1>10. Solves(chosen)
  <2> HIDE DEF Solves
  <2> QED BY <1>9
<1>11. PICK f : f = chosen
  OBVIOUS
<1>12. f = [n \in 0..K |-> IF n = 0 THEN v ELSE Step(n, f[n - 1])]
  <2> HIDE DEF chosen
  <2> QED BY <1>7, <1>10, <1>11
<1>13. f[0] = v /\ \A n \in 1..K : f[n] = Step(n, f[n - 1])
  BY <1>12
<1>14. f \in [0..K -> Lanes32]
  <2>1. \A n \in 1..K : f[n - 1] \in Lanes32 => f[n] \in Lanes32
    BY <1>6, <1>13 DEF Step
  <2>2. DOMAIN f = 0..K /\ f = [n \in DOMAIN f |-> f[n]]
    BY <1>12
  <2> QED BY <1>13, <2>1, <2>2, RecursionTyped
<1>15. ASSUME NEW n \in 1..K PROVE f[n] = Table32[f[n - 1]][Bytes(p, 0 + 16 * (n - 1), 16)]
  <2>1. f[n - 1] \in Lanes32
    BY <1>14
  <2>2. 0 + 16 * (n - 1) = 16 * (n - 1)
    OBVIOUS
  <2> QED BY <1>6, <1>13, <2>1, <2>2 DEF Step
<1>16. Reads(f, K, Lanes32, v, Table32, p, 16, 0)
  BY <1>13, <1>14, <1>15 DEF Reads
<1>17. Stripes(v, p, 16, XXH32_stripe) = f[K]
  <2> HIDE DEF chosen
  <2> QED BY <1>7, <1>8, <1>11
<1> QED BY <1>1, <1>16, <1>17

-----------------------------------------------------------------------------
(***************************************************************************)
(* The 64-bit hash: its four lanes of 8 bytes read stripes of 32 bytes   *)
(***************************************************************************)
Lanes64 == Vec(4, Word(8))
Table64 == [v \in Lanes64 |-> [b \in Word(32) |-> XXH64_stripe(v, b)]]

LEMMA Primes64 ==
  /\ XXH_PRIME64_1 \in Word(8) /\ XXH_PRIME64_2 \in Word(8)
<1>1. XXH_PRIME64_1 \in Word(8)
  BY DEF XXH_PRIME64_1, Word, Byte
<1>2. XXH_PRIME64_2 \in Word(8)
  BY DEF XXH_PRIME64_2, Word, Byte
<1> QED BY <1>1, <1>2

LEMMA Round64 ==
  ASSUME NEW acc \in Word(8), NEW input \in Word(8)
  PROVE  XXH64_round(acc, input) \in Word(8)
<1>1. PICK n \in Nat : n = 8
  OBVIOUS
<1>2. PICK a \in Word(n), b \in Word(n), p1 \in Word(n), p2 \in Word(n) :
        a = acc /\ b = input /\ p1 = XXH_PRIME64_1 /\ p2 = XXH_PRIME64_2
  BY <1>1, Primes64
<1>3. PICK x \in Word(n) : x = b ** p2
  BY TimesWord
<1>4. PICK y \in Word(n) : y = a ++ x
  BY SumWord
<1>5. PICK r \in Nat : r = 31 /\ r < 8 * n
  BY <1>1
<1>6. PICK z \in Word(n) : z = Rotl(y, r)
  BY <1>5, RotlWord
<1>7. z ** p1 \in Word(n)
  BY TimesWord
<1> QED BY <1>1, <1>2, <1>3, <1>4, <1>5, <1>6, <1>7 DEF XXH64_round

LEMMA Stripe64Closed == Closed(Table64, Lanes64, 32)
<1>1. ASSUME NEW v \in Lanes64, NEW b \in Word(32) PROVE XXH64_stripe(v, b) \in Lanes64
  <2>1. PICK f : f = [i \in 1..4 |-> XXH64_round(v[i], XXH_readLE64(b, 8 * (i - 1)))]
    OBVIOUS
  <2>2. PICK n \in Nat, w \in Nat, d \in Nat : n = 4 /\ w = 8 /\ d = 32
    OBVIOUS
  <2>3. ASSUME NEW i \in 1..n PROVE f[i] \in Word(w)
    <3>1. PICK o \in Nat : o = 8 * (i - 1) /\ o + w <= d
      BY <2>2
    <3>2. b \in Word(d)
      BY <2>2
    <3>3. Bytes(b, o, w) \in Word(w)
      BY <3>1, <3>2, BytesWord
    <3>4. PICK c \in Word(8) : c = Bytes(b, o, 8)
      BY <2>2, <3>3
    <3>5. PICK u \in Word(8) : u = v[i]
      BY <2>2 DEF Lanes64, Vec
    <3>6. XXH64_round(u, c) \in Word(8)
      BY Round64
    <3>7. f[i] = XXH64_round(u, c)
      BY <2>1, <2>2, <3>1, <3>4, <3>5 DEF XXH_readLE64
    <3> QED BY <2>2, <3>6, <3>7
  <2>4. f \in [1..n -> Word(w)]
    BY <2>1, <2>2, <2>3
  <2>5. Tuple(f) = f
    BY <2>4, TupleIsIt
  <2>6. XXH64_stripe(v, b) = f
    BY <2>1, <2>5 DEF XXH64_stripe
  <2> QED BY <2>2, <2>4, <2>6 DEF Lanes64, Vec
<1> QED BY <1>1 DEF Closed, Table64

LEMMA Lanes64OfSeed ==
  ASSUME NEW sd \in Word(8)
  PROVE  XXH64_lanes(sd) \in Lanes64 /\ XXH64_lanes(sd)[3] = sd
<1>1. PICK n \in Nat : n = 8
  OBVIOUS
<1>2. PICK a \in Word(n), p1 \in Word(n), p2 \in Word(n) : a = sd /\ p1 = XXH_PRIME64_1 /\ p2 = XXH_PRIME64_2
  BY <1>1, Primes64
<1>3. PICK x \in Word(n), y \in Word(n) : x = a ++ p1 /\ y = a ++ p2
  BY SumWord
<1>4. PICK z \in Word(n) : z = x ++ p2
  BY SumWord
<1>5. PICK u \in Word(n) : u = a -- p1
  BY DifferenceWord
<1>6. XXH64_lanes(sd) = <<z, y, a, u>>
  BY <1>2, <1>3, <1>4, <1>5 DEF XXH64_lanes
<1>7. <<z, y, a, u>> \in [1..4 -> Word(n)] /\ <<z, y, a, u>>[3] = a
  OBVIOUS
<1> QED BY <1>1, <1>2, <1>6, <1>7 DEF Lanes64, Vec

(* The stripes of a buffer are read one after the other.                   *)
LEMMA Stripes64 ==
  ASSUME NEW v \in Lanes64, NEW m \in Nat, NEW p \in Word(m)
  PROVE  \E f : /\ Reads(f, m \div 32, Lanes64, v, Table64, p, 32, 0)
                /\ Stripes(v, p, 32, XXH64_stripe) = f[m \div 32]
<1>1. PICK K \in Nat : K = m \div 32 /\ 32 * K <= m
  OBVIOUS
<1>2. PICK s \in Sizes : s = 32
  BY DEF Sizes
<1>3. Closed(Table64, Lanes64, s) /\ 0 + s * K <= m
  BY <1>1, <1>2, Stripe64Closed
<1>4. PICK g : Reads(g, K, Lanes64, v, Table64, p, s, 0)
  BY <1>3, ReadsExist
<1>5. ASSUME NEW n \in 1..K PROVE Bytes(p, 32 * (n - 1), 32) \in Word(32) /\ 0 + s * (n - 1) = 32 * (n - 1)
  <2>1. PICK i \in Nat, w \in Nat : i = 32 * (n - 1) /\ w = 32 /\ i + w <= m
    BY <1>1
  <2>2. Bytes(p, i, w) \in Word(w)
    BY <2>1, BytesWord
  <2> QED BY <1>2, <2>1, <2>2
<1>6. ASSUME NEW n \in 1..K, NEW x \in Lanes64
      PROVE  /\ Table64[x][Bytes(p, 32 * (n - 1), 32)] = XXH64_stripe(x, Bytes(p, 32 * (n - 1), 32))
             /\ XXH64_stripe(x, Bytes(p, 32 * (n - 1), 32)) \in Lanes64
  BY <1>2, <1>3, <1>5 DEF Table64, Closed
<1> DEFINE Step(n, x) == XXH64_stripe(x, Bytes(p, 32 * (n - 1), 32))
           Solves(f) == f = [n \in 0..(Len(p) \div 32) |-> IF n = 0 THEN v ELSE Step(n, f[n - 1])]
           chosen == CHOOSE f : Solves(f)
<1>7. Len(p) \div 32 = K
  BY <1>1, SomeWord
<1>8. Stripes(v, p, 32, XXH64_stripe) = chosen[Len(p) \div 32]
  BY DEF Stripes
<1> HIDE DEF Step
<1>9. Solves(g)
  <2>1. ASSUME NEW n \in 1..K PROVE g[n] = Step(n, g[n - 1])
    <3>1. g[n - 1] \in Lanes64
      BY <1>4 DEF Reads
    <3>2. g[n] = Table64[g[n - 1]][Bytes(p, 0 + s * (n - 1), s)]
      BY <1>4 DEF Reads
    <3> QED BY <1>2, <1>5, <1>6, <3>1, <3>2 DEF Step
  <2>2. g \in [0..K -> Lanes64] /\ g[0] = v
    BY <1>4 DEF Reads
  <2> QED BY <1>7, <2>1, <2>2
<1>10. Solves(chosen)
  <2> HIDE DEF Solves
  <2> QED BY <1>9
<1>11. PICK f : f = chosen
  OBVIOUS
<1>12. f = [n \in 0..K |-> IF n = 0 THEN v ELSE Step(n, f[n - 1])]
  <2> HIDE DEF chosen
  <2> QED BY <1>7, <1>10, <1>11
<1>13. f[0] = v /\ \A n \in 1..K : f[n] = Step(n, f[n - 1])
  BY <1>12
<1>14. f \in [0..K -> Lanes64]
  <2>1. \A n \in 1..K : f[n - 1] \in Lanes64 => f[n] \in Lanes64
    BY <1>6, <1>13 DEF Step
  <2>2. DOMAIN f = 0..K /\ f = [n \in DOMAIN f |-> f[n]]
    BY <1>12
  <2> QED BY <1>13, <2>1, <2>2, RecursionTyped
<1>15. ASSUME NEW n \in 1..K PROVE f[n] = Table64[f[n - 1]][Bytes(p, 0 + 32 * (n - 1), 32)]
  <2>1. f[n - 1] \in Lanes64
    BY <1>14
  <2>2. 0 + 32 * (n - 1) = 32 * (n - 1)
    OBVIOUS
  <2> QED BY <1>6, <1>13, <2>1, <2>2 DEF Step
<1>16. Reads(f, K, Lanes64, v, Table64, p, 32, 0)
  BY <1>13, <1>14, <1>15 DEF Reads
<1>17. Stripes(v, p, 32, XXH64_stripe) = f[K]
  <2> HIDE DEF chosen
  <2> QED BY <1>7, <1>8, <1>11
<1> QED BY <1>1, <1>16, <1>17

-----------------------------------------------------------------------------
(***************************************************************************)
(* Updates of the two states                                               *)
(***************************************************************************)
States32 == [total_len : Nat, large_len : BOOLEAN, v : Lanes32, mem : Word(16), memsize : Nat]
States64 == [total_len : Nat, v : Lanes64, mem : Word(32), memsize : Nat]

LEMMA StripesOfPart32 ==
  ASSUME NEW D \in Nat, NEW p \in Word(D), NEW from \in Nat, from <= D, NEW v \in Lanes32,
         NEW g, Reads(g, D \div 16, Lanes32, v, Table32, p, 16, 0)
  PROVE  Stripes(v, Bytes(p, 0, from), 16, XXH32_stripe) = g[from \div 16]
<1>1. PICK s \in Sizes : s = 16
  BY DEF Sizes
<1>2. PICK q \in Word(from) : q = Bytes(p, 0, from)
  <2>1. PICK z \in Nat : z = 0 /\ z + from <= D
    OBVIOUS
  <2>2. Bytes(p, z, from) \in Word(from)
    BY <2>1, BytesWord
  <2> QED BY <2>1, <2>2
<1>3. PICK f : Reads(f, from \div 16, Lanes32, v, Table32, q, 16, 0) /\ Stripes(v, q, 16, XXH32_stripe) = f[from \div 16]
  BY Stripes32
<1>4. Reads(f, from \div s, Lanes32, v, Table32, q, s, 0)
  BY <1>1, <1>3
<1>5. Reads(g, D \div s, Lanes32, v, Table32, p, s, 0)
  BY <1>1
<1>6. f[from \div s] = g[from \div s]
  BY <1>2, <1>4, <1>5, BeginningRead
<1> QED BY <1>1, <1>2, <1>3, <1>6

\* The piece a, up to place `to' of p, brings the lanes of st to x.
Absorbed32(st, a, x, r2, p, to) ==
  \E w \in Lanes32, c \in Word(16) :
    /\ Absorb(st, a, 16, XXH32_stripe) = [st EXCEPT !.v = w, !.mem = c, !.memsize = r2]
    /\ w = x /\ Holds(c, r2, p, to - r2)

LEMMA Absorb32 ==
  ASSUME NEW D \in Nat, NEW p \in Word(D), NEW from \in Nat, NEW to \in Nat, NEW n \in Nat, to = from + n, to <= D,
         NEW K, NEW u, Divided(D, 16, K, u), NEW v \in Lanes32, NEW g, Reads(g, K, Lanes32, v, Table32, p, 16, 0),
         NEW k, NEW r \in Nat, Divided(from, 16, k, r), NEW k2, NEW r2 \in Nat, Divided(to, 16, k2, r2),
         NEW mem \in Word(16), Holds(mem, r, p, from - r),
         NEW st \in States32, st.v = g[k], st.memsize = r, st.mem = mem
  PROVE  Absorbed32(st, Bytes(p, from, n), g[k2], r2, p, to)
<1>1. PICK s \in Sizes : s = 16
  BY DEF Sizes
<1>2. PICK a \in Word(n) : a = Bytes(p, from, n)
  BY BytesWord
<1>3. Len(a) = n
  BY SomeWord
<1>4. k = from \div s /\ r = from % s /\ k2 = to \div s /\ r2 = to % s
  BY <1>1 DEF Divided
<1>5. Reads(g, K, Lanes32, v, Table32, p, s, 0) /\ mem \in Word(s) /\ Closed(Table32, Lanes32, s)
  BY <1>1, Stripe32Closed
<1>6. st.v \in Lanes32 /\ st = [st EXCEPT !.v = st.v]
  BY DEF States32
<1>7. CASE r + n < s
  <2>1. PICK c \in Word(s) : c = Copied(mem, r, a) /\ Holds(c, r + n, p, to - (r + n))
    <3>1. Copied(mem, r, Bytes(p, from, n)) \in Word(s)
      BY <1>4, <1>5, <1>7, ShortPiece
    <3>2. Holds(Copied(mem, r, Bytes(p, from, n)), r + n, p, (from + n) - (r + n))
      BY <1>4, <1>5, <1>7, ShortPiece
    <3> QED BY <1>2, <3>1, <3>2
  <2>2. r + n = r2 /\ k2 = k
    <3>1. r = from % s /\ k = from \div s /\ r2 = (from + n) % s /\ k2 = (from + n) \div s
      BY <1>4
    <3>2. r = from % s
      BY <3>1
    <3>3. r + n = (from + n) % s /\ (from + n) \div s = from \div s
      BY <1>7, <3>2, ShortNumbers
    <3> QED BY <3>1, <3>3
  <2>3. Absorb(st, a, 16, XXH32_stripe) = [st EXCEPT !.mem = c, !.memsize = r2]
    BY <1>1, <1>3, <1>7, <2>1, <2>2 DEF Absorb
  <2>4. [st EXCEPT !.mem = c, !.memsize = r2] = [st EXCEPT !.v = st.v, !.mem = c, !.memsize = r2]
    BY <1>6 DEF States32
  <2>5. c \in Word(16) /\ st.v = g[k2] /\ Holds(c, r2, p, to - r2)
    BY <1>1, <2>1, <2>2
  <2> QED BY <1>2, <1>6, <2>3, <2>4, <2>5 DEF Absorbed32
<1>8. CASE r + n >= s
  <2>1. PICK l \in Nat, m \in Nat, filled \in Word(s), w \in Lanes32, c \in Word(s) : \E q \in Word(m) :
           /\ Taken(s, Bytes(p, from, n), mem, r, Lanes32, Table32, g[k], g[k2], l, m, filled, w, c, q, r2)
           /\ Holds(c, r2, p, to - r2)
    <3>1. Divided(from, s, k, r) /\ Divided(to, s, k2, r2) /\ Divided(D, s, K, u)
      BY <1>1
    <3> HIDE <1>4
    <3> QED BY <1>5, <1>8, <3>1, LongPieceAt
  <2>2. PICK q \in Word(m) :
           /\ l = Load(s, r) /\ filled = Copied(mem, s - l, Bytes(a, 0, l))
           /\ SubSeq(a, l + 1, Len(a)) = q
           /\ w = IF l = 0 THEN st.v ELSE Table32[st.v][filled]
           /\ c = Copied(filled, 0, Behind(q, s))
           /\ m % s = r2 /\ Holds(c, r2, p, to - r2)
           /\ \A f : Reads(f, m \div s, Lanes32, w, Table32, q, s, 0) => f[m \div s] = g[k2]
    BY <1>2, <1>4, <2>1 DEF Taken
  <2>3. Stripes(w, q, 16, XXH32_stripe) = g[k2] /\ g[k2] \in Lanes32
    <3>1. PICK f : Reads(f, m \div 16, Lanes32, w, Table32, q, 16, 0) /\ Stripes(w, q, 16, XXH32_stripe) = f[m \div 16]
      BY Stripes32
    <3>2. f[m \div s] = g[k2]
      BY <1>1, <2>2, <3>1
    <3>3. m \div 16 \in 0..(m \div 16)
      OBVIOUS
    <3>4. f[m \div 16] \in Lanes32
      BY <3>1, <3>3 DEF Reads
    <3> QED BY <1>1, <3>1, <3>2, <3>4
  <2>4. (IF l = 0 THEN st.v ELSE XXH32_stripe(st.v, filled)) = w
    <3>1. Table32[st.v][filled] = XXH32_stripe(st.v, filled)
      BY <1>1, <1>6 DEF Table32
    <3> QED BY <2>2, <3>1
  <2>5. Len(q) = m
    BY SomeWord
  <2>6. Absorb(st, a, 16, XXH32_stripe) = [st EXCEPT !.v = g[k2], !.mem = c, !.memsize = r2]
    <3>1. ~ (st.memsize + Len(a) < 16)
      BY <1>1, <1>3, <1>8
    <3>2. (IF st.memsize = 0 THEN 0 ELSE 16 - st.memsize) = l
      BY <1>1, <2>2 DEF Load
    <3>3. Copied(st.mem, 16 - l, Bytes(a, 0, l)) = filled
      BY <1>1, <2>2
    <3>4. Copied(filled, 0, Behind(q, 16)) = c /\ Len(q) % 16 = r2
      BY <1>1, <2>2, <2>5
    <3> QED BY <2>2, <2>3, <2>4, <3>1, <3>2, <3>3, <3>4 DEF Absorb
  <2>7. c \in Word(16)
    BY <1>1
  <2> QED BY <1>2, <2>2, <2>3, <2>6, <2>7 DEF Absorbed32
<1>9. r + n < s \/ r + n >= s
  <2>1. PICK x \in Nat, y \in Nat : x = r + n /\ y = s
    BY <1>1
  <2> QED BY <2>1
<1> QED BY <1>7, <1>8, <1>9

LEMMA StripesOfPart64 ==
  ASSUME NEW D \in Nat, NEW p \in Word(D), NEW from \in Nat, from <= D, NEW v \in Lanes64,
         NEW g, Reads(g, D \div 32, Lanes64, v, Table64, p, 32, 0)
  PROVE  Stripes(v, Bytes(p, 0, from), 32, XXH64_stripe) = g[from \div 32]
<1>1. PICK s \in Sizes : s = 32
  BY DEF Sizes
<1>2. PICK q \in Word(from) : q = Bytes(p, 0, from)
  <2>1. PICK z \in Nat : z = 0 /\ z + from <= D
    OBVIOUS
  <2>2. Bytes(p, z, from) \in Word(from)
    BY <2>1, BytesWord
  <2> QED BY <2>1, <2>2
<1>3. PICK f : Reads(f, from \div 32, Lanes64, v, Table64, q, 32, 0) /\ Stripes(v, q, 32, XXH64_stripe) = f[from \div 32]
  BY Stripes64
<1>4. Reads(f, from \div s, Lanes64, v, Table64, q, s, 0)
  BY <1>1, <1>3
<1>5. Reads(g, D \div s, Lanes64, v, Table64, p, s, 0)
  BY <1>1
<1>6. f[from \div s] = g[from \div s]
  BY <1>2, <1>4, <1>5, BeginningRead
<1> QED BY <1>1, <1>2, <1>3, <1>6

\* The piece a, up to place `to' of p, brings the lanes of st to x.
Absorbed64(st, a, x, r2, p, to) ==
  \E w \in Lanes64, c \in Word(32) :
    /\ Absorb(st, a, 32, XXH64_stripe) = [st EXCEPT !.v = w, !.mem = c, !.memsize = r2]
    /\ w = x /\ Holds(c, r2, p, to - r2)

LEMMA Absorb64 ==
  ASSUME NEW D \in Nat, NEW p \in Word(D), NEW from \in Nat, NEW to \in Nat, NEW n \in Nat, to = from + n, to <= D,
         NEW K, NEW u, Divided(D, 32, K, u), NEW v \in Lanes64, NEW g, Reads(g, K, Lanes64, v, Table64, p, 32, 0),
         NEW k, NEW r \in Nat, Divided(from, 32, k, r), NEW k2, NEW r2 \in Nat, Divided(to, 32, k2, r2),
         NEW mem \in Word(32), Holds(mem, r, p, from - r),
         NEW st \in States64, st.v = g[k], st.memsize = r, st.mem = mem
  PROVE  Absorbed64(st, Bytes(p, from, n), g[k2], r2, p, to)
<1>1. PICK s \in Sizes : s = 32
  BY DEF Sizes
<1>2. PICK a \in Word(n) : a = Bytes(p, from, n)
  BY BytesWord
<1>3. Len(a) = n
  BY SomeWord
<1>4. k = from \div s /\ r = from % s /\ k2 = to \div s /\ r2 = to % s
  BY <1>1 DEF Divided
<1>5. Reads(g, K, Lanes64, v, Table64, p, s, 0) /\ mem \in Word(s) /\ Closed(Table64, Lanes64, s)
  BY <1>1, Stripe64Closed
<1>6. st.v \in Lanes64 /\ st = [st EXCEPT !.v = st.v]
  BY DEF States64
<1>7. CASE r + n < s
  <2>1. PICK c \in Word(s) : c = Copied(mem, r, a) /\ Holds(c, r + n, p, to - (r + n))
    <3>1. Copied(mem, r, Bytes(p, from, n)) \in Word(s)
      BY <1>4, <1>5, <1>7, ShortPiece
    <3>2. Holds(Copied(mem, r, Bytes(p, from, n)), r + n, p, (from + n) - (r + n))
      BY <1>4, <1>5, <1>7, ShortPiece
    <3> QED BY <1>2, <3>1, <3>2
  <2>2. r + n = r2 /\ k2 = k
    <3>1. r = from % s /\ k = from \div s /\ r2 = (from + n) % s /\ k2 = (from + n) \div s
      BY <1>4
    <3>2. r = from % s
      BY <3>1
    <3>3. r + n = (from + n) % s /\ (from + n) \div s = from \div s
      BY <1>7, <3>2, ShortNumbers
    <3> QED BY <3>1, <3>3
  <2>3. Absorb(st, a, 32, XXH64_stripe) = [st EXCEPT !.mem = c, !.memsize = r2]
    BY <1>1, <1>3, <1>7, <2>1, <2>2 DEF Absorb
  <2>4. [st EXCEPT !.mem = c, !.memsize = r2] = [st EXCEPT !.v = st.v, !.mem = c, !.memsize = r2]
    BY <1>6 DEF States64
  <2>5. c \in Word(32) /\ st.v = g[k2] /\ Holds(c, r2, p, to - r2)
    BY <1>1, <2>1, <2>2
  <2> QED BY <1>2, <1>6, <2>3, <2>4, <2>5 DEF Absorbed64
<1>8. CASE r + n >= s
  <2>1. PICK l \in Nat, m \in Nat, filled \in Word(s), w \in Lanes64, c \in Word(s) : \E q \in Word(m) :
           /\ Taken(s, Bytes(p, from, n), mem, r, Lanes64, Table64, g[k], g[k2], l, m, filled, w, c, q, r2)
           /\ Holds(c, r2, p, to - r2)
    <3>1. Divided(from, s, k, r) /\ Divided(to, s, k2, r2) /\ Divided(D, s, K, u)
      BY <1>1
    <3> HIDE <1>4
    <3> QED BY <1>5, <1>8, <3>1, LongPieceAt
  <2>2. PICK q \in Word(m) :
           /\ l = Load(s, r) /\ filled = Copied(mem, s - l, Bytes(a, 0, l))
           /\ SubSeq(a, l + 1, Len(a)) = q
           /\ w = IF l = 0 THEN st.v ELSE Table64[st.v][filled]
           /\ c = Copied(filled, 0, Behind(q, s))
           /\ m % s = r2 /\ Holds(c, r2, p, to - r2)
           /\ \A f : Reads(f, m \div s, Lanes64, w, Table64, q, s, 0) => f[m \div s] = g[k2]
    BY <1>2, <1>4, <2>1 DEF Taken
  <2>3. Stripes(w, q, 32, XXH64_stripe) = g[k2] /\ g[k2] \in Lanes64
    <3>1. PICK f : Reads(f, m \div 32, Lanes64, w, Table64, q, 32, 0) /\ Stripes(w, q, 32, XXH64_stripe) = f[m \div 32]
      BY Stripes64
    <3>2. f[m \div s] = g[k2]
      BY <1>1, <2>2, <3>1
    <3>3. m \div 32 \in 0..(m \div 32)
      OBVIOUS
    <3>4. f[m \div 32] \in Lanes64
      BY <3>1, <3>3 DEF Reads
    <3> QED BY <1>1, <3>1, <3>2, <3>4
  <2>4. (IF l = 0 THEN st.v ELSE XXH64_stripe(st.v, filled)) = w
    <3>1. Table64[st.v][filled] = XXH64_stripe(st.v, filled)
      BY <1>1, <1>6 DEF Table64
    <3> QED BY <2>2, <3>1
  <2>5. Len(q) = m
    BY SomeWord
  <2>6. Absorb(st, a, 32, XXH64_stripe) = [st EXCEPT !.v = g[k2], !.mem = c, !.memsize = r2]
    <3>1. ~ (st.memsize + Len(a) < 32)
      BY <1>1, <1>3, <1>8
    <3>2. (IF st.memsize = 0 THEN 0 ELSE 32 - st.memsize) = l
      BY <1>1, <2>2 DEF Load
    <3>3. Copied(st.mem, 32 - l, Bytes(a, 0, l)) = filled
      BY <1>1, <2>2
    <3>4. Copied(filled, 0, Behind(q, 32)) = c /\ Len(q) % 32 = r2
      BY <1>1, <2>2, <2>5
    <3> QED BY <2>2, <2>3, <2>4, <3>1, <3>2, <3>3, <3>4, ZenonT(40) DEF Absorb
  <2>7. c \in Word(32)
    BY <1>1
  <2> QED BY <1>2, <2>2, <2>3, <2>6, <2>7 DEF Absorbed64
<1>9. r + n < s \/ r + n >= s
  <2>1. PICK x \in Nat, y \in Nat : x = r + n /\ y = s
    BY <1>1
  <2> QED BY <2>1
<1> QED BY <1>7, <1>8, <1>9

(***************************************************************************)
(* The 32-bit state, after the first `from' bytes of p                     *)
(***************************************************************************)
LEMMA RemainderIs ==
  ASSUME NEW L \in Nat, L > 0, NEW a \in Nat
  PROVE  /\ a % L \in Nat /\ a % L < L /\ a % L <= a
         /\ \E q \in Nat : a = L * q + (a % L)
         /\ \A q \in Nat, r \in Nat : a = L * q + r /\ r < L => r = a % L
<1>1. PICK k \in Int, r \in Int : k = a \div L /\ r = a % L
  OBVIOUS
<1>2. a = L * k + r /\ 0 <= r /\ r < L
  BY <1>1
<1>3. k >= 0
  <2>1. CASE k < 0
    <3>1. L * k <= 0 - L
      <4>1. k <= -1
        BY <2>1
      <4>2. PICK d \in Nat : d = (-1) - k
        BY <4>1
      <4>3. L * d >= 0
        OBVIOUS
      <4>4. k = (-1) - d
        BY <4>2
      <4>5. L * k = (0 - L) - L * d
        BY <4>4
      <4> QED BY <4>3, <4>5
    <3>2. PICK y \in Int : y = L * k
      OBVIOUS
    <3> QED BY <1>2, <3>1, <3>2
  <2> QED BY <2>1
<1>4. r <= a
  <2>1. PICK y \in Nat : y = L * k
    BY <1>3
  <2> QED BY <1>2, <2>1
<1>5. ASSUME NEW q \in Nat, NEW t \in Nat, a = L * q + t, t < L PROVE t = r
  <2>0. PICK x \in Nat, y \in Nat : x = L * q /\ y = L * k
    BY <1>3
  <2>1. CASE q < k
    <3>1. PICK d \in Nat : k = q + 1 + d
      BY <1>3, <2>1
    <3>2. L * k = L * q + L + L * d
      BY <3>1
    <3>3. PICK z \in Nat : z = L * d
      OBVIOUS
    <3>4. y = x + L + z
      BY <2>0, <3>2, <3>3
    <3> QED BY <1>2, <1>5, <2>0, <3>4
  <2>2. CASE k < q
    <3>1. PICK d \in Nat : q = k + 1 + d
      BY <1>3, <2>2
    <3>2. L * q = L * k + L + L * d
      BY <1>3, <3>1
    <3>3. PICK z \in Nat : z = L * d
      OBVIOUS
    <3>4. x = y + L + z
      BY <2>0, <3>2, <3>3
    <3> QED BY <1>2, <1>5, <2>0, <3>4
  <2>3. CASE k = q
    BY <1>2, <1>5, <2>0, <2>3
  <2> QED BY <1>3, <2>1, <2>2, <2>3
<1> QED BY <1>1, <1>2, <1>3, <1>4, <1>5

LEMMA RemainderOfSum ==
  ASSUME NEW L \in Nat, L > 0, NEW a \in Nat, NEW n \in Nat
  PROVE  ((a % L) + n) % L = (a + n) % L
<1>1. PICK q \in Nat, r \in Nat : r = a % L /\ a = L * q + r
  <2>1. a % L \in Nat /\ \E q \in Nat : a = L * q + (a % L)
    BY RemainderIs
  <2> QED BY <2>1
<1>2. PICK b \in Nat : b = r + n
  OBVIOUS
<1>3. PICK k \in Nat, t \in Nat : t = b % L /\ b = L * k + t /\ t < L
  BY RemainderIs
<1>4. PICK c \in Nat : c = a + n
  OBVIOUS
<1>5. c = L * (q + k) + t
  <2>1. L * (q + k) = L * q + L * k
    OBVIOUS
  <2>2. PICK x \in Nat, y \in Nat : x = L * q /\ y = L * k
    OBVIOUS
  <2> QED BY <1>1, <1>2, <1>3, <1>4, <2>1, <2>2
<1>6. q + k \in Nat
  OBVIOUS
<1>7. t = c % L
  BY <1>3, <1>5, <1>6, RemainderIs
<1> QED BY <1>1, <1>2, <1>3, <1>4, <1>7

(***************************************************************************)
(* A 32-bit state after the first `from' bytes of p                        *)
(***************************************************************************)
After32(st, p, from, sd) ==
  /\ st \in States32
  /\ st.total_len = from % Len32 /\ (st.large_len <=> from >= 16)
  /\ st.v = Stripes(XXH32_lanes(sd), Bytes(p, 0, from), 16, XXH32_stripe)
  /\ st.memsize = from % 16
  /\ Holds(st.mem, st.memsize, p, from - st.memsize)

LEMMA Reset32 ==
  ASSUME NEW sd \in Word(4), NEW D \in Nat, NEW p \in Word(D)
  PROVE  After32(XXH32_reset(sd), p, 0, sd)
<1>1. PICK st : st = XXH32_reset(sd)
  OBVIOUS
<1>2. PICK v \in Lanes32 : v = XXH32_lanes(sd)
  BY Lanes32OfSeed
<1>3. PICK z \in Nat, d \in Nat : z = 0 /\ z + z <= D /\ d = 16
  OBVIOUS
<1>4. PICK mem \in Word(16) : mem = Zero(16)
  <2>1. Zero(d) \in Word(d)
    BY ZeroWord
  <2> QED BY <1>3, <2>1
<1>5. st \in States32
  BY <1>1, <1>2, <1>4 DEF XXH32_reset, States32
<1>6. PICK q \in Word(z) : q = Bytes(p, 0, 0)
  BY <1>3, BytesWord
<1>7. PICK f : /\ Reads(f, z \div 16, Lanes32, v, Table32, q, 16, 0)
               /\ Stripes(v, q, 16, XXH32_stripe) = f[z \div 16]
  BY Stripes32
<1>8. z \div 16 = 0 /\ 0 % 16 = 0
  BY <1>3
<1>9. f[0] = v
  BY <1>7 DEF Reads
<1>10. st.v = Stripes(XXH32_lanes(sd), Bytes(p, 0, 0), 16, XXH32_stripe)
  BY <1>1, <1>2, <1>6, <1>7, <1>8, <1>9 DEF XXH32_reset
<1>11. st.memsize = 0 % 16
  BY <1>1, <1>8 DEF XXH32_reset
<1>12. Holds(st.mem, st.memsize, p, 0 - st.memsize)
  BY <1>1 DEF XXH32_reset, Holds
<1>13. st.total_len = 0 % Len32 /\ (st.large_len <=> 0 >= 16)
  <2>1. 0 % Len32 = 0
    BY Len32Assumption
  <2> QED BY <1>1, <2>1 DEF XXH32_reset
<1> QED BY <1>1, <1>5, <1>10, <1>11, <1>12, <1>13 DEF After32

LEMMA Update32 ==
  ASSUME NEW sd \in Word(4), NEW D \in Nat, NEW p \in Word(D), NEW from \in Nat, NEW n \in Nat, from + n <= D,
         NEW st, After32(st, p, from, sd)
  PROVE  After32(XXH32_update(st, Bytes(p, from, n)), p, from + n, sd)
<1>1. PICK a \in Word(n) : a = Bytes(p, from, n) /\ Len(a) = n
  <2>1. Bytes(p, from, n) \in Word(n)
    BY BytesWord
  <2> QED BY <2>1, SomeWord
<1>2. PICK v \in Lanes32 : v = XXH32_lanes(sd)
  BY Lanes32OfSeed
<1>3. PICK f : Reads(f, D \div 16, Lanes32, v, Table32, p, 16, 0)
  BY Stripes32
<1>4. PICK to \in Nat : to = from + n /\ to <= D /\ from <= D
  OBVIOUS
<1>5. PICK k \in Nat, r \in Nat, k2 \in Nat, r2 \in Nat, K \in Nat, u \in Nat :
        Divided(from, 16, k, r) /\ Divided(to, 16, k2, r2) /\ Divided(D, 16, K, u)
  BY DEF Divided
<1>6. st \in States32 /\ st.v \in Lanes32 /\ st.mem \in Word(16)
  BY DEF After32, States32
<1>7. st.memsize = r
  BY <1>5 DEF After32, Divided
<1>8. st.v = f[k]
  <2>1. Stripes(v, Bytes(p, 0, from), 16, XXH32_stripe) = f[from \div 16]
    BY <1>3, <1>4, StripesOfPart32
  <2> QED BY <1>2, <1>5, <2>1 DEF After32, Divided
<1>9. PICK mem \in Word(16) : mem = st.mem /\ Holds(mem, r, p, from - r)
  BY <1>6, <1>7 DEF After32
<1>10. PICK cs : cs = [st EXCEPT !.total_len = to % Len32, !.large_len = @ \/ n >= 16 \/ (to % Len32) >= 16]
  OBVIOUS
<1>11. cs \in States32 /\ cs.v = f[k] /\ cs.memsize = r /\ cs.mem = mem /\ cs.total_len = to % Len32 /\ (cs.large_len <=> to >= 16)
  <2>1. to % Len32 \in Nat /\ to % Len32 <= to /\ (to < Len32 => to % Len32 = to)
    <3>1. \A q \in Nat, t \in Nat : to = Len32 * q + t /\ t < Len32 => t = to % Len32
      BY Len32Assumption, RemainderIs
    <3>2. to = Len32 * 0 + to
      BY Len32Assumption
    <3>3. to % Len32 \in Nat /\ to % Len32 <= to
      BY Len32Assumption, RemainderIs
    <3> QED BY <3>1, <3>2, <3>3
  <2>2. (st.large_len \/ n >= 16 \/ (to % Len32) >= 16) <=> to >= 16
    <3>1. st.large_len <=> from >= 16
      BY DEF After32
    <3>2. CASE from < 16 /\ n < 16
      BY <1>4, <2>1, <3>1, <3>2, Len32Assumption
    <3>3. CASE from >= 16
      BY <1>4, <3>1, <3>3
    <3>4. CASE n >= 16
      BY <1>4, <3>4
    <3> QED BY <3>2, <3>3, <3>4
  <2>3. cs.large_len = (st.large_len \/ n >= 16 \/ (to % Len32) >= 16)
    BY <1>6, <1>10 DEF States32
  <2>4. cs \in States32
    BY <1>6, <1>10, <2>1 DEF States32
  <2>5. cs.v = f[k] /\ cs.memsize = r /\ cs.mem = mem /\ cs.total_len = to % Len32
    BY <1>6, <1>7, <1>8, <1>9, <1>10 DEF States32
  <2> QED BY <2>2, <2>3, <2>4, <2>5
<1>12. Reads(f, K, Lanes32, v, Table32, p, 16, 0)
  BY <1>3, <1>5 DEF Divided
<1>13. PICK w \in Lanes32, c \in Word(16) :
           /\ Absorb(cs, Bytes(p, from, n), 16, XXH32_stripe) = [cs EXCEPT !.v = w, !.mem = c, !.memsize = r2]
           /\ w = f[k2] /\ Holds(c, r2, p, to - r2)
  <2>1. Absorbed32(cs, Bytes(p, from, n), f[k2], r2, p, to)
    BY <1>4, <1>5, <1>9, <1>11, <1>12, Absorb32
  <2> QED BY <2>1 DEF Absorbed32
<1>14. PICK new : new = [cs EXCEPT !.v = w, !.mem = c, !.memsize = r2]
  OBVIOUS
<1>15. new = XXH32_update(st, a)
  <2>1. (st.total_len + n) % Len32 = to % Len32
    <3>1. ((from % Len32) + n) % Len32 = (from + n) % Len32
      <4>1. Len32 \in Nat /\ Len32 > 0
        BY Len32Assumption
      <4> QED BY <4>1, RemainderOfSum
    <3> QED BY <1>4, <3>1 DEF After32
  <2> QED BY <1>1, <1>10, <1>13, <1>14, <2>1 DEF XXH32_update
<1>16. new \in States32 /\ new.v = w /\ new.mem = c /\ new.memsize = r2 /\ new.total_len = cs.total_len /\ new.large_len = cs.large_len
  BY <1>11, <1>14 DEF States32
<1>17. w = Stripes(XXH32_lanes(sd), Bytes(p, 0, to), 16, XXH32_stripe)
  <2>1. Stripes(v, Bytes(p, 0, to), 16, XXH32_stripe) = f[to \div 16]
    BY <1>3, <1>4, StripesOfPart32
  <2> QED BY <1>2, <1>5, <1>13, <2>1 DEF Divided
<1>18. new.memsize = to % 16
  BY <1>5, <1>16 DEF Divided
<1>19. Holds(new.mem, new.memsize, p, to - new.memsize)
  BY <1>13, <1>16
<1>20. After32(new, p, to, sd)
  BY <1>4, <1>11, <1>16, <1>17, <1>18, <1>19 DEF After32
<1> QED BY <1>1, <1>4, <1>15, <1>20


(***************************************************************************)
(* A 64-bit state after the first `from' bytes of p                        *)
(***************************************************************************)
After64(st, p, from, sd) ==
  /\ st \in States64
  /\ st.total_len = from
  /\ st.v = Stripes(XXH64_lanes(sd), Bytes(p, 0, from), 32, XXH64_stripe)
  /\ st.memsize = from % 32
  /\ Holds(st.mem, st.memsize, p, from - st.memsize)

LEMMA Reset64 ==
  ASSUME NEW sd \in Word(8), NEW D \in Nat, NEW p \in Word(D)
  PROVE  After64(XXH64_reset(sd), p, 0, sd)
<1>1. PICK st : st = XXH64_reset(sd)
  OBVIOUS
<1>2. PICK v \in Lanes64 : v = XXH64_lanes(sd)
  BY Lanes64OfSeed
<1>3. PICK z \in Nat, d \in Nat : z = 0 /\ z + z <= D /\ d = 32
  OBVIOUS
<1>4. PICK mem \in Word(32) : mem = Zero(32)
  <2>1. Zero(d) \in Word(d)
    BY ZeroWord
  <2> QED BY <1>3, <2>1
<1>5. st \in States64
  BY <1>1, <1>2, <1>4 DEF XXH64_reset, States64
<1>6. PICK q \in Word(z) : q = Bytes(p, 0, 0)
  BY <1>3, BytesWord
<1>7. PICK f : /\ Reads(f, z \div 32, Lanes64, v, Table64, q, 32, 0)
               /\ Stripes(v, q, 32, XXH64_stripe) = f[z \div 32]
  BY Stripes64
<1>8. z \div 32 = 0 /\ 0 % 32 = 0
  BY <1>3
<1>9. f[0] = v
  BY <1>7 DEF Reads
<1>10. st.v = Stripes(XXH64_lanes(sd), Bytes(p, 0, 0), 32, XXH64_stripe)
  BY <1>1, <1>2, <1>6, <1>7, <1>8, <1>9 DEF XXH64_reset
<1>11. st.memsize = 0 % 32
  BY <1>1, <1>8 DEF XXH64_reset
<1>12. Holds(st.mem, st.memsize, p, 0 - st.memsize)
  BY <1>1 DEF XXH64_reset, Holds
<1>13. st.total_len = 0
  BY <1>1 DEF XXH64_reset
<1> QED BY <1>1, <1>5, <1>10, <1>11, <1>12, <1>13 DEF After64

LEMMA Update64 ==
  ASSUME NEW sd \in Word(8), NEW D \in Nat, NEW p \in Word(D), NEW from \in Nat, NEW n \in Nat, from + n <= D,
         NEW st, After64(st, p, from, sd)
  PROVE  After64(XXH64_update(st, Bytes(p, from, n)), p, from + n, sd)
<1>1. PICK a \in Word(n) : a = Bytes(p, from, n) /\ Len(a) = n
  <2>1. Bytes(p, from, n) \in Word(n)
    BY BytesWord
  <2> QED BY <2>1, SomeWord
<1>2. PICK v \in Lanes64 : v = XXH64_lanes(sd)
  BY Lanes64OfSeed
<1>3. PICK f : Reads(f, D \div 32, Lanes64, v, Table64, p, 32, 0)
  BY Stripes64
<1>4. PICK to \in Nat : to = from + n /\ to <= D /\ from <= D
  OBVIOUS
<1>5. PICK k \in Nat, r \in Nat, k2 \in Nat, r2 \in Nat, K \in Nat, u \in Nat :
        Divided(from, 32, k, r) /\ Divided(to, 32, k2, r2) /\ Divided(D, 32, K, u)
  BY DEF Divided
<1>6. st \in States64 /\ st.v \in Lanes64 /\ st.mem \in Word(32)
  BY DEF After64, States64
<1>7. st.memsize = r
  BY <1>5 DEF After64, Divided
<1>8. st.v = f[k]
  <2>1. Stripes(v, Bytes(p, 0, from), 32, XXH64_stripe) = f[from \div 32]
    BY <1>3, <1>4, StripesOfPart64
  <2> QED BY <1>2, <1>5, <2>1 DEF After64, Divided
<1>9. PICK mem \in Word(32) : mem = st.mem /\ Holds(mem, r, p, from - r)
  BY <1>6, <1>7 DEF After64
<1>10. PICK cs : cs = [st EXCEPT !.total_len = @ + n]
  OBVIOUS
<1>11. cs \in States64 /\ cs.v = f[k] /\ cs.memsize = r /\ cs.mem = mem /\ cs.total_len = to
  BY <1>4, <1>6, <1>7, <1>8, <1>9, <1>10 DEF After64, States64
<1>12. Reads(f, K, Lanes64, v, Table64, p, 32, 0)
  BY <1>3, <1>5 DEF Divided
<1>13. PICK w \in Lanes64, c \in Word(32) :
           /\ Absorb(cs, Bytes(p, from, n), 32, XXH64_stripe) = [cs EXCEPT !.v = w, !.mem = c, !.memsize = r2]
           /\ w = f[k2] /\ Holds(c, r2, p, to - r2)
  <2>1. Absorbed64(cs, Bytes(p, from, n), f[k2], r2, p, to)
    BY <1>4, <1>5, <1>9, <1>11, <1>12, Absorb64
  <2> QED BY <2>1 DEF Absorbed64
<1>14. PICK new : new = [cs EXCEPT !.v = w, !.mem = c, !.memsize = r2]
  OBVIOUS
<1>15. new = XXH64_update(st, a)
  BY <1>1, <1>10, <1>13, <1>14 DEF XXH64_update
<1>16. new \in States64 /\ new.v = w /\ new.mem = c /\ new.memsize = r2 /\ new.total_len = cs.total_len
  BY <1>11, <1>14 DEF States64
<1>17. w = Stripes(XXH64_lanes(sd), Bytes(p, 0, to), 32, XXH64_stripe)
  <2>1. Stripes(v, Bytes(p, 0, to), 32, XXH64_stripe) = f[to \div 32]
    BY <1>3, <1>4, StripesOfPart64
  <2> QED BY <1>2, <1>5, <1>13, <2>1 DEF Divided
<1>18. new.memsize = to % 32
  BY <1>5, <1>16 DEF Divided
<1>19. Holds(new.mem, new.memsize, p, to - new.memsize)
  BY <1>13, <1>16
<1>20. After64(new, p, to, sd)
  BY <1>4, <1>11, <1>16, <1>17, <1>18, <1>19 DEF After64
<1> QED BY <1>1, <1>4, <1>15, <1>20

(* The buffer of a state holds what is behind the stripes.                 *)
LEMMA RestInBuffer ==
  ASSUME NEW s \in Sizes, NEW D \in Nat, NEW p \in Word(D), NEW from \in Nat, from <= D,
         NEW mem \in Word(s), NEW k, NEW r \in Nat, Divided(from, s, k, r), Holds(mem, r, p, from - r)
  PROVE  /\ Bytes(mem, 0, r) \in Word(r)
         /\ Behind(Bytes(p, 0, from), s) = Bytes(mem, 0, r)
<1>1. r < s /\ r <= from
  <2>1. PICK y \in Nat, j \in Nat, z \in Nat : y = s * j /\ j = from \div s /\ z = from % s
    BY Division, Multiple
  <2>2. from = y + z /\ z < s
    BY <2>1, Division
  <2>3. r = z
    BY <2>1 DEF Divided
  <2> QED BY <2>2, <2>3
<1>2. PICK z \in Nat, i \in Nat, w \in Nat : z = 0 /\ z + from <= D /\ i = from - r /\ i + r = from /\ w = s /\ z + r <= w
  BY <1>1 DEF Sizes
<1>3. PICK q \in Word(from) : q = Bytes(p, z, from) /\ \A j \in 1..from : q[j] = p[z + j]
  BY <1>2, BytesWord
<1>4. PICK b \in Word(r) : b = Bytes(q, i, r) /\ \A j \in 1..r : b[j] = q[i + j]
  BY <1>2, BytesWord
<1>5. PICK c \in Word(r) : c = Bytes(mem, z, r) /\ \A j \in 1..r : c[j] = mem[z + j]
  <2>1. mem \in Word(w)
    BY <1>2
  <2> QED BY <1>2, <2>1, BytesWord
<1>6. Behind(q, s) = b
  <2>1. Len(q) = from
    BY SomeWord
  <2>2. Behind(q, s) = SubSeq(q, i + 1, from)
    BY <1>2, <2>1 DEF Behind, Divided
  <2> QED BY <1>2, <1>4, <2>2 DEF Bytes
<1>7. ASSUME NEW j \in 1..r PROVE b[j] = c[j]
  <2>1. PICK x \in 1..from : x = i + j
    BY <1>2
  <2>2. z + x = x /\ z + j = j /\ (from - r) + j = x
    BY <1>2, <2>1
  <2>3. mem[j] = p[(from - r) + j]
    BY DEF Holds
  <2>4. q[x] = p[z + x]
    BY <1>3
  <2> QED BY <1>4, <1>5, <2>1, <2>2, <2>3, <2>4
<1>8. b = c
  BY <1>7, SameWord
<1> QED BY <1>2, <1>3, <1>5, <1>6, <1>8

LEMMA Digest32 ==
  ASSUME NEW sd \in Word(4), NEW D \in Nat, NEW p \in Word(D), NEW from \in Nat, from <= D,
         NEW st, After32(st, p, from, sd)
  PROVE  XXH32_digest(st) = XXH32(Bytes(p, 0, from), sd)
<1>1. PICK q \in Word(from) : q = Bytes(p, 0, from) /\ Len(q) = from
  <2>1. PICK z \in Nat : z = 0 /\ z + from <= D
    OBVIOUS
  <2>2. Bytes(p, z, from) \in Word(from)
    BY <2>1, BytesWord
  <2> QED BY <2>1, <2>2, SomeWord
<1>2. PICK v \in Lanes32 : v = XXH32_lanes(sd) /\ v[3] = sd
  BY Lanes32OfSeed
<1>3. PICK f : /\ Reads(f, from \div 16, Lanes32, v, Table32, q, 16, 0)
               /\ Stripes(v, q, 16, XXH32_stripe) = f[from \div 16]
  BY Stripes32
<1>4. st.v = Stripes(v, q, 16, XXH32_stripe)
  BY <1>1, <1>2 DEF After32
<1>5. from < 16 => st.v[3] = sd
  <2>1. from < 16 => from \div 16 = 0
    OBVIOUS
  <2>2. f[0] = v
    BY <1>3 DEF Reads
  <2> QED BY <1>2, <1>3, <1>4, <2>1, <2>2
<1>6. PICK s \in Sizes, r \in Nat : s = 16 /\ r = from % s
  BY DEF Sizes
<1>7. PICK b \in Word(r) : b = Bytes(st.mem, 0, r) /\ b = Behind(q, s) /\ Len(b) = r
  <2>0. Divided(from, s, from \div s, r)
    BY <1>6 DEF Divided
  <2>1. PICK mem \in Word(s) : mem = st.mem /\ Holds(mem, r, p, from - r)
    BY <1>6 DEF After32, States32
  <2>2. Bytes(mem, 0, r) \in Word(r)
    BY <1>6, <2>0, <2>1, RestInBuffer
  <2>3. Behind(Bytes(p, 0, from), s) = Bytes(mem, 0, r)
    BY <1>6, <2>0, <2>1, RestInBuffer
  <2> QED BY <1>1, <2>1, <2>2, <2>3, SomeWord
<1>8. Bytes(st.mem, 0, from % 16) = Behind(q, 16) /\ Len(Behind(q, 16)) = from % 16
  BY <1>6, <1>7
<1>9. st.memsize = from % 16 /\ st.total_len = from % Len32 /\ (st.large_len <=> from >= 16)
  BY DEF After32
<1>10. PICK whole : whole = Stripes(v, q, 16, XXH32_stripe)
  OBVIOUS
<1>11. XXH32_digest(st) = XXH32_finalize((IF from >= 16 THEN XXH32_converge(whole) ELSE sd ++ XXH_PRIME32_5)
                                         ++ FromNat(from % Len32, 4), Behind(q, 16))
  BY <1>4, <1>5, <1>8, <1>9, <1>10 DEF XXH32_digest
<1>12. XXH32(q, sd) = XXH32_finalize((IF from >= 16 THEN XXH32_converge(whole) ELSE sd ++ XXH_PRIME32_5)
                                     ++ FromNat(from % Len32, 4), Behind(q, 16))
  BY <1>1, <1>2, <1>10 DEF XXH32, XXH32_endian_align
<1> QED BY <1>1, <1>11, <1>12

LEMMA Digest64 ==
  ASSUME NEW sd \in Word(8), NEW D \in Nat, NEW p \in Word(D), NEW from \in Nat, from <= D,
         NEW st, After64(st, p, from, sd)
  PROVE  XXH64_digest(st) = XXH64(Bytes(p, 0, from), sd)
<1>1. PICK q \in Word(from) : q = Bytes(p, 0, from) /\ Len(q) = from
  <2>1. PICK z \in Nat : z = 0 /\ z + from <= D
    OBVIOUS
  <2>2. Bytes(p, z, from) \in Word(from)
    BY <2>1, BytesWord
  <2> QED BY <2>1, <2>2, SomeWord
<1>2. PICK v \in Lanes64 : v = XXH64_lanes(sd) /\ v[3] = sd
  BY Lanes64OfSeed
<1>3. PICK f : /\ Reads(f, from \div 32, Lanes64, v, Table64, q, 32, 0)
               /\ Stripes(v, q, 32, XXH64_stripe) = f[from \div 32]
  BY Stripes64
<1>4. st.v = Stripes(v, q, 32, XXH64_stripe)
  BY <1>1, <1>2 DEF After64
<1>5. from < 32 => st.v[3] = sd
  <2>1. from < 32 => from \div 32 = 0
    OBVIOUS
  <2>2. f[0] = v
    BY <1>3 DEF Reads
  <2> QED BY <1>2, <1>3, <1>4, <2>1, <2>2
<1>6. PICK s \in Sizes, r \in Nat : s = 32 /\ r = from % s
  BY DEF Sizes
<1>7. PICK b \in Word(r) : b = Bytes(st.mem, 0, r) /\ b = Behind(q, s) /\ Len(b) = r
  <2>0. Divided(from, s, from \div s, r)
    BY <1>6 DEF Divided
  <2>1. PICK mem \in Word(s) : mem = st.mem /\ Holds(mem, r, p, from - r)
    BY <1>6 DEF After64, States64
  <2>2. Bytes(mem, 0, r) \in Word(r)
    BY <1>6, <2>0, <2>1, RestInBuffer
  <2>3. Behind(Bytes(p, 0, from), s) = Bytes(mem, 0, r)
    BY <1>6, <2>0, <2>1, RestInBuffer
  <2> QED BY <1>1, <2>1, <2>2, <2>3, SomeWord
<1>8. Bytes(st.mem, 0, from % 32) = Behind(q, 32) /\ Len(Behind(q, 32)) = from % 32
  BY <1>6, <1>7
<1>9. st.total_len = from
  BY DEF After64
<1>10. PICK whole : whole = Stripes(v, q, 32, XXH64_stripe)
  OBVIOUS
<1>11. Bytes(Behind(q, 32), 0, from % 32) = Behind(q, 32)
  <2>1. Bytes(b, 0, r) = b
    BY AllBytes
  <2> QED BY <1>6, <1>7, <2>1
<1>12. XXH64_digest(st) = XXH64_tail((IF from >= 32 THEN XXH64_converge(whole) ELSE sd ++ XXH_PRIME64_5)
                                     ++ FromNat(from, 8), Behind(q, 32))
  BY <1>4, <1>5, <1>8, <1>9, <1>10 DEF XXH64_digest, XXH64_finalize
<1>13. XXH64(q, sd) = XXH64_tail((IF from >= 32 THEN XXH64_converge(whole) ELSE sd ++ XXH_PRIME64_5)
                                 ++ FromNat(from, 8), Behind(q, 32))
  BY <1>1, <1>2, <1>10, <1>11 DEF XXH64, XXH64_endian_align, XXH64_finalize
<1> QED BY <1>1, <1>12, <1>13

(***************************************************************************)
(* XXH3: the accumulators after each stripe of 64 bytes, with the place in *)
(* the secret, which starts over where a block of PB stripes ends          *)
(***************************************************************************)
Marks(PB) == [acc : Accs, at : 0..(PB - 1)]

Summed(key, x, stripe) == XXH3_accumulate_512(x.acc, stripe, Bytes(key, 8 * x.at, 64))
Walked(key, PB, x, stripe) ==
  IF x.at + 1 = PB
    THEN [acc |-> XXH3_scrambleAcc(Summed(key, x, stripe), SecretEnd(key, 0)), at |-> 0]
    ELSE [acc |-> Summed(key, x, stripe), at |-> x.at + 1]

Walk(g, K, p, key, PB) ==
  /\ g \in [0..K -> Marks(PB)]
  /\ g[0] = [acc |-> XXH3_INIT_ACC, at |-> 0]
  /\ \A n \in 1..K : g[n] = Walked(key, PB, g[n - 1], Bytes(p, 64 * (n - 1), 64))

\* A secret of L bytes, for blocks of PB stripes
Lasts(key, L, PB) == key \in Word(L) /\ L \in Nat /\ PB \in Nat /\ PB >= 9 /\ 8 * PB + 64 <= L

LEMMA SecretParts ==
  ASSUME NEW key, NEW L, NEW PB, Lasts(key, L, PB)
  PROVE  /\ SecretEnd(key, 0) \in Stripe /\ SecretEnd(key, 7) \in Stripe
         /\ \A a \in 0..(PB - 1) : Bytes(key, 8 * a, 64) \in Stripe
<1>1. key \in Word(L) /\ L \in Nat /\ PB \in Nat /\ PB >= 9 /\ 8 * PB + 64 <= L
  BY DEF Lasts
<1>2. Len(key) = L
  BY <1>1, SomeWord
<1>3. PICK w \in Nat : w = 64
  OBVIOUS
<1>4. PICK i \in Nat, j \in Nat : i = L - 64 - 0 /\ j = L - 64 - 7 /\ i + w <= L /\ j + w <= L
  BY <1>1, <1>3
<1>5. Bytes(key, i, w) \in Word(w)
  BY <1>1, <1>4, BytesWord
<1>6. Bytes(key, j, w) \in Word(w)
  BY <1>1, <1>4, BytesWord
<1>7. ASSUME NEW a \in 0..(PB - 1) PROVE Bytes(key, 8 * a, 64) \in Stripe
  <2>1. PICK x \in Nat : x = 8 * a /\ x + w <= L
    BY <1>1, <1>3
  <2>2. Bytes(key, x, w) \in Word(w)
    BY <1>1, <2>1, BytesWord
  <2> QED BY <1>3, <2>1, <2>2 DEF Stripe
<1>8. SecretEnd(key, 0) = Bytes(key, i, w) /\ SecretEnd(key, 7) = Bytes(key, j, w)
  BY <1>2, <1>3, <1>4 DEF SecretEnd, XXH_STRIPE_LEN
<1> QED BY <1>3, <1>5, <1>6, <1>7, <1>8 DEF Stripe

LEMMA StripeOf ==
  ASSUME NEW m \in Nat, NEW p \in Word(m), NEW o \in Nat, o + 64 <= m
  PROVE  Bytes(p, o, 64) \in Stripe
<1>1. PICK w \in Nat : w = 64 /\ o + w <= m
  OBVIOUS
<1>2. Bytes(p, o, w) \in Word(w)
  BY <1>1, BytesWord
<1> QED BY <1>1, <1>2 DEF Stripe

LEMMA InitAcc == XXH3_INIT_ACC \in Accs
<1>1. PICK w \in Nat, h \in Nat : w = 8 /\ h = 4
  OBVIOUS
<1>2. ASSUME NEW a \in Word(4) PROVE Extend(a, 8) \in Word(8)
  <2>1. a \in Word(h)
    BY <1>1
  <2>2. Extend(a, w) \in Word(w)
    BY <2>1, ExtendWord
  <2> QED BY <1>1, <2>2
<1>3. XXH_PRIME32_3 \in Word(4) /\ XXH_PRIME32_2 \in Word(4) /\ XXH_PRIME32_1 \in Word(4)
  <2>1. XXH_PRIME32_3 \in Word(4)
    BY DEF XXH_PRIME32_3, Word, Byte
  <2> QED BY <2>1, Primes32
<1>4. XXH_PRIME64_1 \in Word(8) /\ XXH_PRIME64_2 \in Word(8)
  BY Primes64
<1>5. XXH_PRIME64_3 \in Word(8)
  BY DEF XXH_PRIME64_3, Word, Byte
<1>6. XXH_PRIME64_4 \in Word(8)
  BY DEF XXH_PRIME64_4, Word, Byte
<1>7. XXH_PRIME64_5 \in Word(8)
  BY DEF XXH_PRIME64_5, Word, Byte
<1>8. PICK a \in Word(8), b \in Word(8), c \in Word(8) :
        a = Extend(XXH_PRIME32_3, 8) /\ b = Extend(XXH_PRIME32_2, 8) /\ c = Extend(XXH_PRIME32_1, 8)
  BY <1>2, <1>3
<1>9. XXH3_INIT_ACC = <<a, XXH_PRIME64_1, XXH_PRIME64_2, XXH_PRIME64_3, XXH_PRIME64_4, b, XXH_PRIME64_5, c>>
  BY <1>8 DEF XXH3_INIT_ACC
<1>10. PICK W : W = Word(8)
  OBVIOUS
<1>11. \A x1, x2, x3, x4, x5, x6, x7, x8 \in W : <<x1, x2, x3, x4, x5, x6, x7, x8>> \in [1..8 -> W]
  OBVIOUS
<1>12. XXH3_INIT_ACC \in [1..8 -> W]
  BY <1>4, <1>5, <1>6, <1>7, <1>8, <1>9, <1>10, <1>11
<1> QED BY <1>10, <1>12 DEF Accs, Vec

LEMMA WalkedMark ==
  ASSUME NEW key, NEW L, NEW PB, Lasts(key, L, PB), NEW x \in Marks(PB), NEW stripe \in Stripe
  PROVE  Walked(key, PB, x, stripe) \in Marks(PB) /\ Summed(key, x, stripe) \in Accs
<1>1. x.acc \in Accs /\ x.at \in 0..(PB - 1) /\ PB \in Nat /\ PB >= 9
  BY DEF Marks, Lasts
<1>2. PICK a : a = x.acc
  OBVIOUS
<1>3. PICK part \in Stripe : part = Bytes(key, 8 * x.at, 64)
  BY <1>1, SecretParts
<1>4. XXH3_accumulate_512(a, stripe, part) \in Accs
  BY <1>1, <1>2, BuildAccumulates
<1>5. PICK sum \in Accs : sum = Summed(key, x, stripe)
  BY <1>2, <1>3, <1>4 DEF Summed
<1>6. PICK end \in Stripe : end = SecretEnd(key, 0)
  BY SecretParts
<1>7. XXH3_scrambleAcc(sum, end) \in Accs
  BY BuildScrambles
<1>8. CASE x.at + 1 = PB
  <2>1. Walked(key, PB, x, stripe) = [acc |-> XXH3_scrambleAcc(sum, end), at |-> 0]
    BY <1>5, <1>6, <1>8 DEF Walked
  <2> QED BY <1>1, <1>5, <1>7, <2>1 DEF Marks
<1>9. CASE x.at + 1 # PB
  <2>1. Walked(key, PB, x, stripe) = [acc |-> sum, at |-> x.at + 1]
    BY <1>5, <1>9 DEF Walked
  <2>2. x.at + 1 \in 0..(PB - 1)
    BY <1>1, <1>9
  <2> QED BY <1>5, <2>1, <2>2 DEF Marks
<1> QED BY <1>8, <1>9

LEMMA WalkExists ==
  ASSUME NEW key, NEW L, NEW PB, Lasts(key, L, PB), NEW D \in Nat, NEW p \in Word(D), NEW K \in Nat, 64 * K <= D
  PROVE  \E g : Walk(g, K, p, key, PB)
<1>1. PICK G : G = [n \in 1..K |-> [x \in Marks(PB) |-> Walked(key, PB, x, Bytes(p, 64 * (n - 1), 64))]]
  OBVIOUS
<1>2. ASSUME NEW n \in 1..K, NEW x \in Marks(PB)
      PROVE G[n][x] \in Marks(PB) /\ G[n][x] = Walked(key, PB, x, Bytes(p, 64 * (n - 1), 64))
  <2>1. PICK o \in Nat : o = 64 * (n - 1) /\ o + 64 <= D
    OBVIOUS
  <2>2. PICK stripe \in Stripe : stripe = Bytes(p, o, 64)
    BY <2>1, StripeOf
  <2>3. Walked(key, PB, x, stripe) \in Marks(PB)
    BY WalkedMark
  <2> QED BY <1>1, <2>1, <2>2, <2>3
<1>3. PICK first \in Marks(PB) : first = [acc |-> XXH3_INIT_ACC, at |-> 0]
  <2>1. 0 \in 0..(PB - 1)
    BY DEF Lasts
  <2> QED BY <2>1, InitAcc DEF Marks
<1>4. PICK f : Recurs(f, K, Marks(PB), first, G)
  BY <1>2, RecursionDefined
<1>5. \A n \in 1..K : f[n - 1] \in Marks(PB)
  BY <1>4 DEF Recurs
<1>6. ASSUME NEW n \in 1..K PROVE f[n] = Walked(key, PB, f[n - 1], Bytes(p, 64 * (n - 1), 64))
  <2>1. f[n - 1] \in Marks(PB) /\ f[n] = G[n][f[n - 1]]
    BY <1>4, <1>5 DEF Recurs
  <2> QED BY <1>2, <2>1
<1> QED BY <1>3, <1>4, <1>6 DEF Recurs, Walk

(* XXH3_accumulate, stripe after stripe                                    *)
Accumulates(f, acc, input, i, sec, s, n) ==
  /\ f \in [0..n -> Accs] /\ f[0] = acc
  /\ \A j \in 1..n : f[j] = XXH3_accumulate_512(f[j - 1], Bytes(input, i + 64 * (j - 1), 64),
                                                Bytes(sec, s + 8 * (j - 1), 64))

LEMMA AccumulateSteps ==
  ASSUME NEW acc \in Accs, NEW m \in Nat, NEW input \in Word(m), NEW L \in Nat, NEW sec \in Word(L),
         NEW i \in Nat, NEW s \in Nat, NEW n \in Nat, i + 64 * n <= m, s + 8 * n + 56 <= L
  PROVE  \E f : /\ Accumulates(f, acc, input, i, sec, s, n)
                /\ XXH3_accumulate(acc, input, i, sec, s, n) = f[n]
<1> DEFINE Step(j, x) == XXH3_accumulate_512(x, Bytes(input, i + 64 * (j - 1), 64), Bytes(sec, s + 8 * (j - 1), 64))
           Solves(f) == f = [j \in 0..n |-> IF j = 0 THEN acc ELSE Step(j, f[j - 1])]
           chosen == CHOOSE f : Solves(f)
<1>1. ASSUME NEW j \in 1..n, NEW x \in Accs PROVE Step(j, x) \in Accs
  <2>1. PICK o \in Nat, u \in Nat : o = i + 64 * (j - 1) /\ o + 64 <= m /\ u = s + 8 * (j - 1) /\ u + 64 <= L
    OBVIOUS
  <2>2. PICK a \in Stripe : a = Bytes(input, o, 64)
    BY <2>1, StripeOf
  <2>3. PICK b \in Stripe : b = Bytes(sec, u, 64)
    BY <2>1, StripeOf
  <2>4. XXH3_accumulate_512(x, a, b) \in Accs
    BY BuildAccumulates
  <2> QED BY <2>1, <2>2, <2>3, <2>4
<1>2. XXH3_accumulate(acc, input, i, sec, s, n) = chosen[n]
  BY DEF XXH3_accumulate, XXH_STRIPE_LEN, XXH_SECRET_CONSUME_RATE
<1> HIDE DEF Step
<1>3. PICK G : G = [j \in 1..n |-> [x \in Accs |-> Step(j, x)]]
  OBVIOUS
<1>4. \A j \in 1..n : \A x \in Accs : G[j][x] \in Accs /\ G[j][x] = Step(j, x)
  BY <1>1, <1>3
<1>5. PICK f : Recurs(f, n, Accs, acc, G)
  BY <1>4, RecursionDefined
<1>6. f \in [0..n -> Accs] /\ f[0] = acc /\ \A j \in 1..n : f[j] = Step(j, f[j - 1])
  <2>1. \A j \in 1..n : f[j - 1] \in Accs
    BY <1>5 DEF Recurs
  <2> QED BY <1>4, <1>5, <2>1 DEF Recurs
<1>7. Solves(f)
  BY <1>6
<1>8. Solves(chosen)
  <2> HIDE DEF Solves
  <2> QED BY <1>7
<1>9. PICK h : h = chosen
  OBVIOUS
<1>10. h = [j \in 0..n |-> IF j = 0 THEN acc ELSE Step(j, h[j - 1])]
  <2> HIDE DEF chosen
  <2> QED BY <1>8, <1>9
<1>11. h[0] = acc /\ \A j \in 1..n : h[j] = Step(j, h[j - 1])
  BY <1>10
<1>12. h \in [0..n -> Accs]
  <2>1. \A j \in 1..n : h[j - 1] \in Accs => h[j] \in Accs
    BY <1>1, <1>11
  <2>2. DOMAIN h = 0..n /\ h = [j \in DOMAIN h |-> h[j]]
    BY <1>10
  <2> QED BY <1>11, <2>1, <2>2, RecursionTyped
<1>13. Accumulates(h, acc, input, i, sec, s, n)
  BY <1>11, <1>12 DEF Accumulates, Step
<1>14. XXH3_accumulate(acc, input, i, sec, s, n) = h[n]
  <2> HIDE DEF chosen
  <2> QED BY <1>2, <1>9
<1> QED BY <1>13, <1>14

\* The n stripes of q from place i on are those of p from stripe c on.
SameStripes(q, i, p, c, n) ==
  \A j \in 1..n : Bytes(q, i + 64 * (j - 1), 64) = Bytes(p, 64 * ((c + j) - 1), 64)

LEMMA SameStripesOf ==
  ASSUME NEW D \in Nat, NEW p \in Word(D), NEW o \in Nat, NEW m \in Nat, o + m <= D, NEW q \in Word(m), q = Bytes(p, o, m),
         NEW i \in Nat, NEW c \in Nat, NEW n \in Nat, o + i = 64 * c, i + 64 * n <= m
  PROVE  SameStripes(q, i, p, c, n)
<1>1. ASSUME NEW j \in 1..n PROVE Bytes(q, i + 64 * (j - 1), 64) = Bytes(p, 64 * ((c + j) - 1), 64)
  <2>1. PICK x \in Nat, w \in Nat : x = i + 64 * (j - 1) /\ w = 64 /\ x + w <= m /\ o + x = 64 * ((c + j) - 1)
    OBVIOUS
  <2>2. Bytes(Bytes(p, o, m), x, w) = Bytes(p, o + x, w)
    BY <2>1, BytesOfBytes
  <2> QED BY <2>1, <2>2
<1> QED BY <1>1 DEF SameStripes

Mark(g, c, acc, at) == acc = g[c].acc /\ at = g[c].at

(* Some stripes further on in the same block                               *)
LEMMA WalkOn ==
  ASSUME NEW key, NEW L, NEW PB, Lasts(key, L, PB), NEW p, NEW K \in Nat, NEW g, Walk(g, K, p, key, PB),
         NEW c \in Nat, NEW n \in Nat, c + n <= K, NEW q, NEW i \in Nat, SameStripes(q, i, p, c, n),
         NEW acc, NEW at \in Nat, Mark(g, c, acc, at), at + n <= PB,
         NEW f, Accumulates(f, acc, q, i, key, 8 * at, n)
  PROVE  /\ at + n < PB => g[c + n] = [acc |-> f[n], at |-> at + n]
         /\ at + n = PB => g[c + n] = [acc |-> XXH3_scrambleAcc(f[n], SecretEnd(key, 0)), at |-> 0]
<1>0. PB \in Nat /\ PB >= 9
  BY DEF Lasts
<1>1. c \in 0..K /\ g[c] \in Marks(PB)
  BY DEF Walk
<1>2. g[c] = [acc |-> acc, at |-> at + 0] /\ at < PB
  BY <1>0, <1>1 DEF Marks, Mark
<1>3. ASSUME NEW j \in 1..n, g[c + (j - 1)] = [acc |-> f[j - 1], at |-> at + (j - 1)]
      PROVE  /\ at + j < PB => g[c + j] = [acc |-> f[j], at |-> at + j]
             /\ at + j = PB => g[c + j] = [acc |-> XXH3_scrambleAcc(f[j], SecretEnd(key, 0)), at |-> 0]
  <2>1. PICK x \in 1..K : x = c + j /\ x - 1 = c + (j - 1)
    OBVIOUS
  <2>2. PICK y : y = g[x - 1] /\ y.acc = f[j - 1] /\ y.at = at + (j - 1)
    BY <1>3, <2>1
  <2>3. PICK stripe : stripe = Bytes(p, 64 * (x - 1), 64)
    OBVIOUS
  <2>4. g[x] = Walked(key, PB, y, stripe)
    BY <2>2, <2>3 DEF Walk
  <2>5. Bytes(q, i + 64 * (j - 1), 64) = stripe
    BY <2>1, <2>3 DEF SameStripes
  <2>6. f[j] = XXH3_accumulate_512(f[j - 1], Bytes(q, i + 64 * (j - 1), 64), Bytes(key, 8 * at + 8 * (j - 1), 64))
    BY DEF Accumulates
  <2>7. 8 * at + 8 * (j - 1) = 8 * y.at /\ y.at + 1 = at + j
    BY <2>2
  <2>8. Summed(key, y, stripe) = f[j]
    BY <2>2, <2>5, <2>6, <2>7 DEF Summed
  <2>9. CASE at + j < PB
    <3>1. y.at + 1 # PB
      BY <1>0, <2>7, <2>9
    <3> QED BY <2>1, <2>4, <2>7, <2>8, <2>9, <3>1 DEF Walked
  <2>10. CASE at + j = PB
    BY <2>1, <2>4, <2>7, <2>8, <2>10, <1>0 DEF Walked
  <2> QED BY <1>0, <2>9, <2>10
<1>4. PICK S : S = {j \in 0..n : at + j < PB => g[c + j] = [acc |-> f[j], at |-> at + j]}
  OBVIOUS
<1>5. 0 \in S
  <2>1. f[0] = acc /\ c + 0 = c
    BY DEF Accumulates
  <2>2. g[c + 0] = [acc |-> f[0], at |-> at + 0] /\ 0 \in 0..n
    BY <1>2, <2>1
  <2> QED BY <1>4, <2>2
<1>6. ASSUME NEW j \in 1..n, j - 1 \in S PROVE j \in S
  <2>1. SUFFICES ASSUME at + j < PB PROVE g[c + j] = [acc |-> f[j], at |-> at + j]
    BY <1>4
  <2>2. at + (j - 1) < PB
    BY <1>0, <2>1
  <2>3. g[c + (j - 1)] = [acc |-> f[j - 1], at |-> at + (j - 1)]
    BY <1>4, <1>6, <2>2
  <2> QED BY <1>3, <2>1, <2>3
<1>7. \A j \in 0..n : j \in S
  BY <1>5, <1>6, SetInduction
<1>8. n \in 0..n
  OBVIOUS
<1>9. ASSUME at + n = PB PROVE g[c + n] = [acc |-> XXH3_scrambleAcc(f[n], SecretEnd(key, 0)), at |-> 0]
  <2>1. n \in 1..n /\ n - 1 \in 0..n /\ at + (n - 1) < PB
    BY <1>0, <1>2, <1>9
  <2>2. g[c + (n - 1)] = [acc |-> f[n - 1], at |-> at + (n - 1)]
    BY <1>4, <1>7, <2>1
  <2> QED BY <1>3, <1>9, <2>1, <2>2
<1> QED BY <1>4, <1>7, <1>8, <1>9

\* n stripes of q, no more than are left in the block, lead from mark c on.
Accumulated(g, c, n, q, i, key, PB, acc, at) ==
  /\ at + n < PB => g[c + n] = [acc |-> XXH3_accumulate(acc, q, i, key, 8 * at, n), at |-> at + n]
  /\ at + n = PB =>
       g[c + n] = [acc |-> XXH3_scrambleAcc(XXH3_accumulate(acc, q, i, key, 8 * at, n), SecretEnd(key, 0)), at |-> 0]

(* The same of XXH3_accumulate                                             *)
LEMMA AccumulateOn ==
  ASSUME NEW key, NEW L, NEW PB, Lasts(key, L, PB), NEW p, NEW K \in Nat, NEW g, Walk(g, K, p, key, PB),
         NEW c \in Nat, NEW n \in Nat, c + n <= K, NEW m \in Nat, NEW q \in Word(m), NEW i \in Nat,
         i + 64 * n <= m, SameStripes(q, i, p, c, n),
         NEW acc, NEW at \in Nat, Mark(g, c, acc, at), at + n <= PB
  PROVE  Accumulated(g, c, n, q, i, key, PB, acc, at)
<1>1. key \in Word(L) /\ L \in Nat /\ PB \in Nat /\ 8 * PB + 64 <= L
  BY DEF Lasts
<1>2. PICK s \in Nat : s = 8 * at /\ s + 8 * n + 56 <= L
  BY <1>1
<1>3. acc \in Accs
  <2>1. c \in 0..K
    OBVIOUS
  <2>2. g[c] \in Marks(PB)
    BY <2>1 DEF Walk
  <2> QED BY <2>2 DEF Marks, Mark
<1>4. PICK f : /\ Accumulates(f, acc, q, i, key, s, n)
               /\ XXH3_accumulate(acc, q, i, key, s, n) = f[n]
  BY <1>1, <1>2, <1>3, AccumulateSteps, SMTT(40)
<1>5. Accumulates(f, acc, q, i, key, 8 * at, n)
  BY <1>2, <1>4
<1>6. /\ at + n < PB => g[c + n] = [acc |-> f[n], at |-> at + n]
      /\ at + n = PB => g[c + n] = [acc |-> XXH3_scrambleAcc(f[n], SecretEnd(key, 0)), at |-> 0]
  BY <1>5, WalkOn
<1> QED BY <1>2, <1>4, <1>6 DEF Accumulated

LEMMA SamePart ==
  ASSUME NEW q, NEW i \in Nat, NEW p, NEW c \in Nat, NEW n \in Nat, SameStripes(q, i, p, c, n), NEW k \in Nat, k <= n
  PROVE  SameStripes(q, i, p, c, k) /\ SameStripes(q, i + 64 * k, p, c + k, n - k)
<1>1. SameStripes(q, i, p, c, k)
  BY DEF SameStripes
<1>2. ASSUME NEW j \in 1..(n - k)
      PROVE Bytes(q, (i + 64 * k) + 64 * (j - 1), 64) = Bytes(p, 64 * (((c + k) + j) - 1), 64)
  <2>1. PICK x \in 1..n : x = k + j /\ i + 64 * (x - 1) = (i + 64 * k) + 64 * (j - 1) /\ (c + x) - 1 = ((c + k) + j) - 1
    OBVIOUS
  <2>2. Bytes(q, i + 64 * (x - 1), 64) = Bytes(p, 64 * ((c + x) - 1), 64)
    BY DEF SameStripes
  <2> QED BY <2>1, <2>2
<1> QED BY <1>1, <1>2 DEF SameStripes

\* The state works with this secret.
Keyed(st, key, PB) == st.nbStripesPerBlock = PB /\ Secret(st) = key

\* st moved on to a mark
Moved(st, x) == [st EXCEPT !.acc = x.acc, !.nbStripesSoFar = x.at]

(* XXH3_consumeStripes takes a state from one mark to another.             *)
LEMMA Consumes ==
  ASSUME NEW key, NEW L, NEW PB, Lasts(key, L, PB), NEW p, NEW K \in Nat, NEW g, Walk(g, K, p, key, PB),
         NEW c \in Nat, NEW n \in Nat, n <= 4, c + n <= K, NEW m \in Nat, NEW q \in Word(m), NEW i \in Nat,
         i + 64 * n <= m, SameStripes(q, i, p, c, n),
         NEW st, Keyed(st, key, PB), Mark(g, c, st.acc, st.nbStripesSoFar)
  PROVE  XXH3_consumeStripes(st, q, i, n) = Moved(st, g[c + n])
<1>0. PB \in Nat /\ PB >= 9
  BY DEF Lasts
<1>a. st.nbStripesSoFar \in Nat /\ st.nbStripesSoFar < PB
  <2>1. c \in 0..K
    OBVIOUS
  <2>2. g[c] \in Marks(PB)
    BY <2>1 DEF Walk
  <2>3. g[c].at \in 0..(PB - 1)
    BY <2>2 DEF Marks
  <2> QED BY <1>0, <2>3 DEF Mark
<1>b. PICK acc : acc = st.acc
  OBVIOUS
<1>c. PICK at \in Nat : at = st.nbStripesSoFar
  BY <1>a
<1>1. acc = st.acc /\ at = st.nbStripesSoFar
  BY <1>b, <1>c
<1>d. Mark(g, c, acc, at)
  BY <1>1
<1>e. at < PB
  BY <1>a, <1>c
<1>2. st.nbStripesPerBlock = PB /\ Secret(st) = key
  BY DEF Keyed
<1>3. PICK k \in Nat : k = PB - at
  BY <1>0, <1>e
<1>4. CASE k <= n
  <2>1. c + k <= K /\ i + 64 * k <= m /\ at + k = PB /\ at + k <= PB
    BY <1>0, <1>3, <1>4
  <2>2. SameStripes(q, i, p, c, k) /\ SameStripes(q, i + 64 * k, p, c + k, n - k)
    BY <1>4, SamePart
  <2>3. PICK first : first = XXH3_scrambleAcc(XXH3_accumulate(acc, q, i, key, 8 * at, k), SecretEnd(key, 0))
    OBVIOUS
  <2>4. g[c + k] = [acc |-> first, at |-> 0]
    <3>1. Accumulated(g, c, k, q, i, key, PB, acc, at)
      BY <1>d, <2>1, <2>2, AccumulateOn
    <3> QED BY <2>1, <2>3, <3>1 DEF Accumulated
  <2>5. PICK c2 \in Nat, n2 \in Nat, i2 \in Nat, z \in Nat :
          c2 = c + k /\ n2 = n - k /\ i2 = i + 64 * k /\ z = 0 /\ z + n2 < PB /\ z + n2 <= PB
    BY <1>0, <1>e, <1>3, <1>4
  <2>6. c2 + n2 <= K /\ i2 + 64 * n2 <= m /\ c2 + n2 = c + n
    BY <1>4, <2>5
  <2>7. SameStripes(q, i2, p, c2, n2)
    BY <2>2, <2>5
  <2>8. Mark(g, c2, first, z)
    BY <2>4, <2>5 DEF Mark
  <2>a. z + n2 <= PB
    BY <2>5
  <2>9. Accumulated(g, c2, n2, q, i2, key, PB, first, z)
    BY <2>a, <2>6, <2>7, <2>8, AccumulateOn
  <2>10. g[c + n] = [acc |-> XXH3_accumulate(first, q, i + 64 * k, key, 0, n - k), at |-> n - k]
    <3>1. 8 * z = 0 /\ z + n2 = n - k
      BY <2>5
    <3> QED BY <2>5, <2>6, <2>9, <3>1 DEF Accumulated
  <2>11. XXH3_consumeStripes(st, q, i, n) =
           [st EXCEPT !.acc = XXH3_accumulate(first, q, i + 64 * k, key, 0, n - k), !.nbStripesSoFar = n - k]
    BY <1>1, <1>2, <1>3, <1>4, <2>3 DEF XXH3_consumeStripes, XXH_STRIPE_LEN, XXH_SECRET_CONSUME_RATE
  <2> QED BY <2>10, <2>11 DEF Moved
<1>5. CASE ~ (k <= n)
  <2>1. at + n < PB /\ at + n <= PB
    BY <1>0, <1>e, <1>3, <1>5
  <2>2. Accumulated(g, c, n, q, i, key, PB, acc, at)
    BY <1>d, <2>1, AccumulateOn
  <2>3. XXH3_consumeStripes(st, q, i, n) =
          [st EXCEPT !.acc = XXH3_accumulate(acc, q, i, key, 8 * at, n), !.nbStripesSoFar = at + n]
    BY <1>1, <1>2, <1>3, <1>5 DEF XXH3_consumeStripes, XXH_STRIPE_LEN, XXH_SECRET_CONSUME_RATE
  <2>4. g[c + n].acc = XXH3_accumulate(acc, q, i, key, 8 * at, n) /\ g[c + n].at = at + n
    BY <2>1, <2>2 DEF Accumulated
  <2> QED BY <2>3, <2>4 DEF Moved
<1> QED BY <1>4, <1>5

-----------------------------------------------------------------------------
(***************************************************************************)
(* XXH3_update                                                             *)
(***************************************************************************)
States3 == [acc : Accs, customSecret : Seq(Byte), buffer : Word(256), bufferedSize : Nat, nbStripesSoFar : Nat,
            totalLen : Nat, nbStripesPerBlock : Nat, secretLimit : Nat, seed : Word(8),
            extSecret : {NULL} \cup Seq(Byte) \cup ShortSecrets]

(* The fields that a call may change                                       *)
LEMMA ChangedState ==
  ASSUME NEW st \in States3
  PROVE  /\ \A key \in Seq(Byte) : [st EXCEPT !.customSecret = key] \in States3
         /\ \A c \in Word(256), size \in Nat :
              /\ [st EXCEPT !.buffer = c, !.bufferedSize = size] \in States3
              /\ \A t \in Nat : [st EXCEPT !.totalLen = t, !.buffer = c, !.bufferedSize = size] \in States3
<1>1. ASSUME NEW key \in Seq(Byte) PROVE [st EXCEPT !.customSecret = key] \in States3
  BY DEF States3
<1>2. ASSUME NEW c \in Word(256), NEW size \in Nat PROVE [st EXCEPT !.buffer = c, !.bufferedSize = size] \in States3
  BY DEF States3
<1>3. ASSUME NEW c \in Word(256), NEW size \in Nat, NEW t \in Nat
      PROVE  [st EXCEPT !.totalLen = t, !.buffer = c, !.bufferedSize = size] \in States3
  BY DEF States3
<1> QED BY <1>1, <1>2, <1>3

LEMMA MovedState ==
  ASSUME NEW st \in States3, NEW PB \in Nat, NEW x \in Marks(PB)
  PROVE  /\ Moved(st, x) \in States3
         /\ Moved(st, x).acc = x.acc /\ Moved(st, x).nbStripesSoFar = x.at /\ Moved(st, x).buffer = st.buffer
         /\ \A key : Keyed(st, key, PB) => Keyed(Moved(st, x), key, PB)
         /\ \A y : Moved(Moved(st, x), y) = Moved(st, y)
<1>1. x.acc \in Accs /\ x.at \in Nat
  BY DEF Marks
<1>2. Moved(st, x) \in States3
  BY <1>1 DEF Moved, States3
<1>3. Moved(st, x).acc = x.acc /\ Moved(st, x).nbStripesSoFar = x.at /\ Moved(st, x).buffer = st.buffer
  BY DEF Moved, States3
<1>4. ASSUME NEW key, Keyed(st, key, PB) PROVE Keyed(Moved(st, x), key, PB)
  <2>1. /\ Moved(st, x).nbStripesPerBlock = st.nbStripesPerBlock
        /\ Moved(st, x).customSecret = st.customSecret /\ Moved(st, x).extSecret = st.extSecret
        /\ Moved(st, x).secretLimit = st.secretLimit
    BY DEF Moved, States3
  <2>2. Secret(Moved(st, x)) = Secret(st)
    BY <2>1 DEF Secret
  <2> QED BY <1>4, <2>1, <2>2 DEF Keyed
<1>5. ASSUME NEW y PROVE Moved(Moved(st, x), y) = Moved(st, y)
  BY DEF Moved, States3
<1> QED BY <1>2, <1>3, <1>4, <1>5

ReadBuffers(st, q, count) ==
  LET after[n \in 0..count] ==
        IF n = 0 THEN st ELSE XXH3_consumeStripes(after[n - 1], q, 256 * (n - 1), 256 \div 64)
  IN after[count]

(* Whole buffers are read from the input.                                  *)
LEMMA BuffersRead ==
  ASSUME NEW key, NEW L, NEW PB, Lasts(key, L, PB), NEW D \in Nat, NEW p \in Word(D), NEW K \in Nat,
         NEW g, Walk(g, K, p, key, PB), NEW c \in Nat, NEW m \in Nat, NEW q \in Word(m), 64 * c + m <= D,
         q = Bytes(p, 64 * c, m), NEW count \in Nat, 256 * count <= m, c + 4 * count <= K,
         NEW st \in States3, Keyed(st, key, PB), Mark(g, c, st.acc, st.nbStripesSoFar)
  PROVE  ReadBuffers(st, q, count) = Moved(st, g[c + 4 * count])
<1> DEFINE Step(n, x) == XXH3_consumeStripes(x, q, 256 * (n - 1), 256 \div 64)
           Solves(f) == f = [n \in 0..count |-> IF n = 0 THEN st ELSE Step(n, f[n - 1])]
           chosen == CHOOSE f : Solves(f)
<1>1. PB \in Nat
  BY DEF Lasts
<1>2. g \in [0..K -> Marks(PB)]
  BY DEF Walk
<1>3. Moved(st, g[c]) = st
  BY DEF Moved, Mark, States3
<1>4. PICK h : h = [n \in 0..count |-> Moved(st, g[c + 4 * n])]
  OBVIOUS
<1>5. ASSUME NEW n \in 1..count PROVE Step(n, Moved(st, g[c + 4 * (n - 1)])) = Moved(st, g[c + 4 * n])
  <2>1. PICK k \in 0..K, i \in Nat, j \in Nat : k = c + 4 * (n - 1) /\ i = 256 * (n - 1) /\ j = 4 /\ k + j = c + 4 * n
    OBVIOUS
  <2>2. k + j <= K /\ i + 64 * j <= m /\ j <= 4 /\ 64 * c + i = 64 * k
    BY <2>1
  <2>3. PICK o \in Nat : o = 64 * c
    OBVIOUS
  <2>4. o + m <= D /\ q = Bytes(p, o, m) /\ o + i = 64 * k
    BY <2>2, <2>3
  <2>5. SameStripes(q, i, p, k, j)
    BY <2>2, <2>4, SameStripesOf
  <2>6. PICK x \in Marks(PB) : x = g[k]
    BY <1>2
  <2>7. PICK now : now = Moved(st, x)
    OBVIOUS
  <2>8. Keyed(now, key, PB) /\ now.acc = x.acc /\ now.nbStripesSoFar = x.at
    BY <1>1, <2>7, MovedState
  <2>9. Mark(g, k, now.acc, now.nbStripesSoFar)
    BY <2>6, <2>8 DEF Mark
  <2>10. Keyed(now, key, PB)
    BY <2>8
  <2>11. k + j <= K /\ i + 64 * j <= m /\ j <= 4
    BY <2>2
  <2>12. XXH3_consumeStripes(now, q, i, j) = Moved(now, g[k + j])
    BY <2>5, <2>9, <2>10, <2>11, Consumes
  <2>13. Moved(now, g[k + j]) = Moved(st, g[k + j])
    BY <1>1, <2>7, MovedState
  <2>14. 256 \div 64 = 4
    OBVIOUS
  <2> QED BY <2>1, <2>6, <2>7, <2>12, <2>13, <2>14
<1> HIDE DEF Step
<1>6. Solves(h)
  <2>1. ASSUME NEW n \in 0..count PROVE h[n] = IF n = 0 THEN st ELSE Step(n, h[n - 1])
    <3>1. CASE n = 0
      <4>1. c + 4 * 0 = c
        OBVIOUS
      <4> QED BY <1>3, <1>4, <3>1, <4>1
    <3>2. CASE n # 0
      <4>1. n \in 1..count /\ n - 1 \in 0..count
        BY <3>2
      <4> QED BY <1>4, <1>5, <3>2, <4>1
    <3> QED BY <3>1, <3>2
  <2> QED BY <1>4, <2>1
<1>7. Solves(chosen)
  <2> HIDE DEF Solves
  <2> QED BY <1>6
<1>8. PICK f : f = chosen
  OBVIOUS
<1>9. f = [n \in 0..count |-> IF n = 0 THEN st ELSE Step(n, f[n - 1])]
  <2> HIDE DEF chosen
  <2> QED BY <1>7, <1>8
<1>10. f[0] = st /\ \A n \in 1..count : f[n] = Step(n, f[n - 1])
  BY <1>9
<1>11. PICK S : S = {n \in 0..count : f[n] = Moved(st, g[c + 4 * n])}
  OBVIOUS
<1>12. 0 \in S
  <2>1. c + 4 * 0 = c /\ 0 \in 0..count
    OBVIOUS
  <2> QED BY <1>3, <1>10, <1>11, <2>1
<1>13. ASSUME NEW n \in 1..count, n - 1 \in S PROVE n \in S
  BY <1>5, <1>10, <1>11, <1>13
<1>14. \A n \in 0..count : n \in S
  BY <1>12, <1>13, SetInduction
<1>15. f[count] = Moved(st, g[c + 4 * count])
  BY <1>11, <1>14
<1>16. chosen[count] = Moved(st, g[c + 4 * count])
  <2> HIDE DEF chosen
  <2> QED BY <1>8, <1>15
<1>17. ReadBuffers(st, q, count) = chosen[count]
  BY DEF ReadBuffers, Step
<1> HIDE DEF chosen
<1> QED BY <1>16, <1>17

\* The buffer behind F whole ones: `size' bytes of p, and at its end what is
\* left of the stripe that was read last
Caught(buf, p, F, size) ==
  /\ Holds(buf, size, p, 256 * F)
  /\ F > 0 => \A x \in 193..256 : x > size => buf[x] = p[256 * (F - 1) + x]

\* A full buffer ends with the last stripe of the C buffers that were read.
Ends(buf, p, C) == C > 0 => \A x \in 193..256 : buf[x] = p[256 * (C - 1) + x]
Kept(kept, buf, q, count) == kept = IF count = 0 THEN buf ELSE Copied(buf, 192, Bytes(q, 256 * count - 64, 64))
LeftOf(rest, q, count, m) == rest = SubSeq(q, 256 * count + 1, m)

(* What is left of the input goes to the buffer.                           *)
LEMMA RestCaught ==
  ASSUME NEW D \in Nat, NEW p \in Word(D), NEW C \in Nat, NEW m \in Nat, 256 * C + m <= D,
         NEW q \in Word(m), Holds(q, m, p, 256 * C), NEW count \in Nat, NEW size \in Nat,
         256 * count + size = m, size <= 256,
         NEW buf \in Word(256), Ends(buf, p, C),
         NEW kept, Kept(kept, buf, q, count), NEW rest, LeftOf(rest, q, count, m)
  PROVE  /\ rest \in Word(size) /\ Copied(kept, 0, rest) \in Word(256)
         /\ Caught(Copied(kept, 0, rest), p, C + count, size)
<1>1. PICK o \in Nat, w \in Nat, e \in Nat, z \in Nat, b \in Nat, k \in Nat :
        o = 256 * C /\ w = 256 /\ e = 256 * count /\ z = 0 /\ b = 192 /\ k = 64
  OBVIOUS
<1>2. /\ o + m <= D /\ e + size = m /\ z + size <= w /\ b + k <= w
      /\ (count # 0 => e - 64 \in Nat /\ (e - 64) + k <= m)
  BY <1>1
<1>4. \A j \in 1..m : q[j] = p[o + j]
  BY <1>1 DEF Holds
<1>5. PICK r \in Word(size) : r = rest /\ \A j \in 1..size : r[j] = q[e + j]
  <2>1. Bytes(q, e, size) \in Word(size) /\ \A j \in 1..size : Bytes(q, e, size)[j] = q[e + j]
    BY <1>2, BytesWord
  <2>2. Bytes(q, e, size) = SubSeq(q, e + 1, m)
    BY <1>2 DEF Bytes
  <2>3. rest = SubSeq(q, e + 1, m)
    BY <1>1 DEF LeftOf
  <2> QED BY <2>1, <2>2, <2>3
<1>6. PICK kp \in Word(w) : /\ kp = kept
                            /\ (C + count) > 0 => \A x \in 193..256 : kp[x] = p[256 * ((C + count) - 1) + x]
  <2>1. CASE count = 0
    BY <1>1, <2>1 DEF Kept, Ends
  <2>2. CASE count # 0
    <3>1. PICK i \in Nat : i = e - 64 /\ i + k <= m
      BY <1>2, <2>2
    <3>2. PICK s \in Word(k) : s = Bytes(q, i, k) /\ \A j \in 1..k : s[j] = q[i + j]
      BY <3>1, BytesWord
    <3>3. buf \in Word(w)
      BY <1>1
    <3>4. Copied(buf, b, s) \in Word(w)
      BY <1>2, <3>3, CopiedWord
    <3>5. \A x \in 1..w : Copied(buf, b, s)[x] = IF x <= b THEN buf[x] ELSE IF x <= b + k THEN s[x - b] ELSE buf[x]
      BY <1>2, <3>3, CopiedWord
    <3>6. PICK c \in Word(w) : c = Copied(buf, b, s)
      BY <3>4
    <3>7. kept = c
      BY <1>1, <2>2, <3>1, <3>2, <3>6 DEF Kept
    <3>8. ASSUME NEW x \in 193..256 PROVE c[x] = p[256 * ((C + count) - 1) + x]
      <4>1. PICK j \in 1..k, y \in 1..m : j = x - b /\ y = i + j /\ x \in 1..w /\ ~ (x <= b) /\ x <= b + k
        BY <1>1, <3>1
      <4>2. c[x] = s[j] /\ s[j] = q[y] /\ q[y] = p[o + y]
        BY <1>4, <3>2, <3>5, <3>6, <4>1
      <4>3. o + y = 256 * ((C + count) - 1) + x
        BY <1>1, <3>1, <4>1, SMTT(40)
      <4> QED BY <4>2, <4>3
    <3> QED BY <3>7, <3>8
  <2> QED BY <2>1, <2>2
<1>7. PICK c \in Word(w) : /\ c = Copied(kept, 0, rest)
                           /\ \A x \in 1..w : c[x] = IF x <= z THEN kp[x] ELSE IF x <= z + size THEN r[x - z] ELSE kp[x]
  <2>1. Copied(kp, z, r) \in Word(w)
    BY <1>2, CopiedWord
  <2>2. \A x \in 1..w : Copied(kp, z, r)[x] = IF x <= z THEN kp[x] ELSE IF x <= z + size THEN r[x - z] ELSE kp[x]
    BY <1>2, CopiedWord
  <2> QED BY <1>1, <1>5, <1>6, <2>1, <2>2, ZenonT(40)
<1>8. Holds(c, size, p, 256 * (C + count))
  <2>1. ASSUME NEW x \in 1..size PROVE c[x] = p[256 * (C + count) + x]
    <3>1. x \in 1..w /\ ~ (x <= z) /\ x <= z + size /\ x - z = x
      BY <1>1
    <3>2. PICK y \in 1..m : y = e + x /\ o + y = 256 * (C + count) + x
      BY <1>1, <1>2
    <3> QED BY <1>4, <1>5, <1>7, <3>1, <3>2
  <2> QED BY <2>1 DEF Holds
<1>9. ASSUME C + count > 0, NEW x \in 193..256, x > size PROVE c[x] = p[256 * ((C + count) - 1) + x]
  <2>1. x \in 1..w /\ ~ (x <= z) /\ ~ (x <= z + size)
    BY <1>1, <1>9
  <2>2. c[x] = kp[x]
    BY <1>7, <2>1
  <2>3. kp[x] = p[256 * ((C + count) - 1) + x]
    BY <1>6, <1>9
  <2> QED BY <2>2, <2>3
<1>10. Caught(c, p, C + count, size)
  BY <1>8, <1>9 DEF Caught
<1> QED BY <1>1, <1>5, <1>7, <1>10

LEMMA BuffersCount ==
  ASSUME NEW m \in Nat, m > 0
  PROVE  \E count \in Nat, size \in Nat : /\ count = (m - 1) \div 256 /\ 256 * count + size = m
                                          /\ size > 0 /\ size <= 256
OBVIOUS

\* What ConsumeBuffers does with m bytes q behind C buffers
Consumption(st, q, g, K, p, C, m, count, size, buf) ==
  /\ ConsumeBuffers(st, q) = [Moved(st, g[4 * (C + count)]) EXCEPT !.buffer = buf, !.bufferedSize = size]
  /\ 256 * count + size = m /\ size > 0 /\ size <= 256
  /\ Caught(buf, p, C + count, size) /\ 4 * (C + count) \in 0..K

(* ConsumeBuffers: whole buffers are read, the rest is kept.               *)
LEMMA Consumed ==
  ASSUME NEW key, NEW L, NEW PB, Lasts(key, L, PB), NEW D \in Nat, NEW p \in Word(D), NEW K \in Nat, D < 64 * K + 64,
         NEW g, Walk(g, K, p, key, PB), NEW C \in Nat, NEW m \in Nat, m > 0, 256 * C + m <= D,
         NEW q \in Word(m), Holds(q, m, p, 256 * C),
         NEW st \in States3, Keyed(st, key, PB), Mark(g, 4 * C, st.acc, st.nbStripesSoFar),
         Ends(st.buffer, p, C)
  PROVE  \E count \in Nat, size \in Nat, buf \in Word(256) : Consumption(st, q, g, K, p, C, m, count, size, buf)
<1>a. \E count \in Nat, size \in Nat : /\ count = (m - 1) \div 256 /\ 256 * count + size = m
                                         /\ size > 0 /\ size <= 256
  BY BuffersCount
<1>b. PICK count \in Nat : \E size \in Nat : /\ count = (m - 1) \div 256 /\ 256 * count + size = m
                                             /\ size > 0 /\ size <= 256
  BY <1>a
<1>c. count = (m - 1) \div 256
  BY <1>b
<1>1. PICK size \in Nat : 256 * count + size = m /\ size > 0 /\ size <= 256
  BY <1>b
<1>2. Len(q) = m
  BY SomeWord
<1>3. PICK buf \in Word(256) : buf = st.buffer
  BY DEF States3
<1>d. Ends(buf, p, C)
  BY <1>3
<1>4. PICK kept : Kept(kept, buf, q, count)
  BY DEF Kept
<1>5. PICK rest : LeftOf(rest, q, count, m)
  BY DEF LeftOf
<1>6. rest \in Word(size) /\ Copied(kept, 0, rest) \in Word(256) /\ Caught(Copied(kept, 0, rest), p, C + count, size)
  BY <1>1, <1>d, <1>4, <1>5, RestCaught
<1>7. PICK new \in Word(256) : new = Copied(kept, 0, rest)
  BY <1>6
<1>8. PICK c \in Nat : c = 4 * C
  OBVIOUS
<1>9. 64 * c + m <= D /\ 256 * count <= m /\ c + 4 * count <= K /\ 64 * c = 256 * C /\ c + 4 * count = 4 * (C + count)
  BY <1>1, <1>8
<1>11. ReadBuffers(st, q, count) = Moved(st, g[4 * (C + count)])
  <2>1. PICK o \in Nat : o = 64 * c /\ o + m <= D
    BY <1>9
  <2>a. Bytes(p, o, m) \in Word(m) /\ \A j \in 1..m : Bytes(p, o, m)[j] = p[o + j]
    BY <2>1, BytesWord
  <2>2. PICK a \in Word(m) : a = Bytes(p, o, m) /\ \A j \in 1..m : a[j] = p[o + j]
    BY <2>a
  <2>3. ASSUME NEW j \in 1..m PROVE a[j] = q[j]
    BY <1>9, <2>1, <2>2 DEF Holds
  <2>4. q = a
    BY <2>3, SameWord
  <2>5. q = Bytes(p, 64 * c, m)
    BY <2>1, <2>2, <2>4
  <2>6. Mark(g, c, st.acc, st.nbStripesSoFar)
    BY <1>8
  <2>7. 64 * c + m <= D /\ 256 * count <= m /\ c + 4 * count <= K
    BY <1>9
  <2>8. ReadBuffers(st, q, count) = Moved(st, g[c + 4 * count])
    BY <2>5, <2>6, <2>7, BuffersRead
  <2> QED BY <1>9, <2>8
<1>12. ConsumeBuffers(st, q) = [ReadBuffers(st, q, count) EXCEPT !.buffer = new, !.bufferedSize = size]
  <2>1. Len(rest) = size
    BY <1>6, SomeWord
  <2>a. rest = SubSeq(q, 256 * count + 1, Len(q))
    BY <1>2, <1>5 DEF LeftOf
  <2>2. kept = IF count = 0 THEN st.buffer ELSE Copied(st.buffer, 256 - 64, Bytes(q, 256 * count - 64, 64))
    BY <1>3, <1>4 DEF Kept
  <2>3. count = (Len(q) - 1) \div 256
    BY <1>c, <1>2
  <2> DEFINE n == (Len(q) - 1) \div 256
             left == SubSeq(q, 256 * n + 1, Len(q))
  <2>4. ConsumeBuffers(st, q) =
          [ReadBuffers(st, q, n) EXCEPT
             !.buffer = Copied(IF n = 0 THEN st.buffer ELSE Copied(st.buffer, 256 - 64, Bytes(q, 256 * n - 64, 64)), 0, left),
             !.bufferedSize = Len(left)]
    BY DEF ConsumeBuffers, ReadBuffers, XXH3_INTERNALBUFFER_SIZE, XXH_STRIPE_LEN
  <2>5. n = count
    BY <2>3
  <2> HIDE DEF n
  <2>6. left = rest
    BY <2>a, <2>5
  <2> HIDE DEF left
  <2> QED BY <1>7, <2>1, <2>2, <2>4, <2>5, <2>6
<1>13. 4 * (C + count) \in 0..K
  BY <1>9
<1>14. ConsumeBuffers(st, q) = [Moved(st, g[4 * (C + count)]) EXCEPT !.buffer = new, !.bufferedSize = size]
  BY <1>11, <1>12
<1>15. Caught(new, p, C + count, size)
  BY <1>6, <1>7
<1>16. Consumption(st, q, g, K, p, C, m, count, size, new)
  BY <1>1, <1>13, <1>14, <1>15 DEF Consumption
<1> QED BY <1>16

(***************************************************************************)
(* A state after the first `from' bytes of p, which went with F whole      *)
(* buffers to the accumulators and with the rest to the buffer             *)
(***************************************************************************)
After3(st, p, from, key, PB, g, F) ==
  /\ st \in States3 /\ Keyed(st, key, PB) /\ st.totalLen = from
  /\ F \in Nat /\ from = 256 * F + st.bufferedSize /\ st.bufferedSize <= 256 /\ (st.bufferedSize = 0 => F = 0)
  /\ Mark(g, 4 * F, st.acc, st.nbStripesSoFar)
  /\ Caught(st.buffer, p, F, st.bufferedSize)

\* What no update changes
SameKeys(st, new) ==
  /\ new.seed = st.seed /\ new.customSecret = st.customSecret
  /\ new.extSecret = st.extSecret /\ new.secretLimit = st.secretLimit

LEMMA Filled ==
  ASSUME NEW p, NEW F \in Nat, NEW size \in Nat, NEW n \in Nat, size + n <= 256, NEW buf \in Word(256),
         Caught(buf, p, F, size), NEW a \in Word(n), Holds(a, n, p, 256 * F + size)
  PROVE  Copied(buf, size, a) \in Word(256) /\ Caught(Copied(buf, size, a), p, F, size + n)
<1>1. PICK w \in Nat : w = 256
  OBVIOUS
<1>2. buf \in Word(w) /\ size + n <= w
  BY <1>1
<1>3. Copied(buf, size, a) \in Word(w)
  BY <1>2, CopiedWord
<1>4. \A x \in 1..w : Copied(buf, size, a)[x] = IF x <= size THEN buf[x] ELSE IF x <= size + n THEN a[x - size] ELSE buf[x]
  BY <1>2, CopiedWord
<1>5. PICK c \in Word(w) : c = Copied(buf, size, a)
  BY <1>3
<1>6. \A x \in 1..w : c[x] = IF x <= size THEN buf[x] ELSE IF x <= size + n THEN a[x - size] ELSE buf[x]
  BY <1>4, <1>5
<1>7. ASSUME NEW x \in 1..(size + n) PROVE c[x] = p[256 * F + x]
  <2>1. x \in 1..w
    BY <1>1
  <2>2. CASE x <= size
    <3>1. x \in 1..size
      BY <2>2
    <3>2. buf[x] = p[256 * F + x]
      BY <3>1 DEF Caught, Holds
    <3> QED BY <1>6, <2>1, <2>2, <3>2
  <2>3. CASE ~ (x <= size)
    <3>1. PICK y \in 1..n : y = x - size /\ (256 * F + size) + y = 256 * F + x
      BY <2>3
    <3>2. a[y] = p[(256 * F + size) + y]
      BY DEF Holds
    <3>3. c[x] = a[x - size]
      BY <1>6, <2>1, <2>3
    <3> QED BY <3>1, <3>2, <3>3
  <2> QED BY <2>2, <2>3
<1>8. ASSUME F > 0, NEW x \in 193..256, x > size + n PROVE c[x] = p[256 * (F - 1) + x]
  <2>1. x \in 1..w /\ x > size /\ ~ (x <= size) /\ ~ (x <= size + n)
    BY <1>1, <1>8
  <2>2. c[x] = buf[x]
    BY <1>6, <2>1
  <2>3. buf[x] = p[256 * (F - 1) + x]
    BY <1>8, <2>1 DEF Caught
  <2> QED BY <2>2, <2>3
<1>9. Caught(c, p, F, size + n)
  BY <1>7, <1>8 DEF Caught, Holds
<1> QED BY <1>1, <1>3, <1>5, <1>9

LEMMA FullBlock ==
  ASSUME NEW D \in Nat, NEW p \in Word(D), NEW F \in Nat, 256 * F + 256 <= D, NEW buf \in Word(256),
         Holds(buf, 256, p, 256 * F)
  PROVE  SameStripes(buf, 0, p, 4 * F, 4) /\ Ends(buf, p, F + 1)
<1>1. PICK o \in Nat, w \in Nat, c \in Nat, z \in Nat, n \in Nat :
        o = 256 * F /\ w = 256 /\ c = 4 * F /\ z = 0 /\ n = 4
  OBVIOUS
<1>2. o + w <= D /\ o + z = 64 * c /\ z + 64 * n <= w
  BY <1>1
<1>3. Bytes(p, o, w) \in Word(w) /\ \A j \in 1..w : Bytes(p, o, w)[j] = p[o + j]
  BY <1>2, BytesWord
<1>4. PICK q \in Word(w) : q = Bytes(p, o, w) /\ \A j \in 1..w : q[j] = p[o + j]
  BY <1>3
<1>5. ASSUME NEW j \in 1..w PROVE buf[j] = q[j]
  BY <1>1, <1>4 DEF Holds
<1>6. buf = q
  <2>1. buf \in Word(w)
    BY <1>1
  <2> QED BY <1>5, <2>1, SameWord
<1>7. SameStripes(q, z, p, c, n)
  BY <1>2, <1>4, SameStripesOf
<1>8. Ends(buf, p, F + 1)
  <2>1. ASSUME NEW x \in 193..256 PROVE buf[x] = p[256 * ((F + 1) - 1) + x]
    <3>1. x \in 1..256 /\ 256 * ((F + 1) - 1) + x = 256 * F + x
      OBVIOUS
    <3> QED BY <3>1 DEF Holds
  <2> QED BY <2>1 DEF Ends
<1> QED BY <1>1, <1>6, <1>7, <1>8

LEMMA Update3Short ==
  ASSUME NEW key, NEW PB, NEW p, NEW g, NEW F, NEW from \in Nat, NEW n \in Nat,
         NEW st, After3(st, p, from, key, PB, g, F), NEW a \in Word(n), Holds(a, n, p, from), st.bufferedSize + n <= 256
  PROVE  After3(XXH3_update(st, a), p, from + n, key, PB, g, F) /\ SameKeys(st, XXH3_update(st, a))
<1>1. st \in States3 /\ Keyed(st, key, PB) /\ F \in Nat /\ Mark(g, 4 * F, st.acc, st.nbStripesSoFar)
  BY DEF After3
<1>2. PICK size \in Nat : size = st.bufferedSize
  BY <1>1 DEF States3
<1>3. from = 256 * F + size /\ size <= 256 /\ (size = 0 => F = 0) /\ st.totalLen = from
  BY <1>2 DEF After3
<1>4. PICK buf \in Word(256) : buf = st.buffer /\ Caught(buf, p, F, size)
  BY <1>1, <1>2 DEF After3, States3
<1>5. size + n <= 256 /\ Holds(a, n, p, 256 * F + size)
  BY <1>2, <1>3
<1>6. Copied(buf, size, a) \in Word(256) /\ Caught(Copied(buf, size, a), p, F, size + n)
  BY <1>1, <1>4, <1>5, Filled
<1>7. PICK c \in Word(256) : c = Copied(buf, size, a)
  BY <1>6
<1>8. Len(a) = n
  BY SomeWord
<1>9. PICK new : new = [st EXCEPT !.totalLen = from + n, !.buffer = c, !.bufferedSize = size + n]
  OBVIOUS
<1>10. XXH3_update(st, a) = new
  <2>1. [[st EXCEPT !.totalLen = from + n] EXCEPT !.buffer = c, !.bufferedSize = size + n] = new
    BY <1>9
  <2>2. n <= 256 - size
    BY <1>5
  <2>3. [st EXCEPT !.totalLen = @ + n] = [st EXCEPT !.totalLen = from + n]
    BY <1>3
  <2>4. PICK counted : counted = [st EXCEPT !.totalLen = @ + n]
    OBVIOUS
  <2>5. counted.buffer = buf /\ counted.bufferedSize = size
    BY <1>1, <1>2, <1>4, <2>4 DEF States3
  <2>6. XXH3_update(st, a) = [counted EXCEPT !.buffer = Copied(@, size, a), !.bufferedSize = @ + n]
    BY <1>2, <1>8, <2>2, <2>4 DEF XXH3_update, XXH3_INTERNALBUFFER_SIZE
  <2> QED BY <1>7, <2>1, <2>3, <2>4, <2>5, <2>6
<1>11. new \in States3
  <2>1. from + n \in Nat /\ size + n \in Nat
    OBVIOUS
  <2> QED BY <1>1, <1>7, <1>9, <2>1, ChangedState, Zenon
<1>12. new.totalLen = from + n /\ new.buffer = c /\ new.bufferedSize = size + n /\ new.acc = st.acc /\ new.nbStripesSoFar = st.nbStripesSoFar
  BY <1>1, <1>9 DEF States3
<1>13. SameKeys(st, new) /\ new.nbStripesPerBlock = st.nbStripesPerBlock
  BY <1>1, <1>9 DEF SameKeys, States3
<1>14. Keyed(new, key, PB)
  BY <1>1, <1>13 DEF Keyed, SameKeys, Secret
<1>15. from + n = 256 * F + (size + n) /\ (size + n = 0 => F = 0)
  BY <1>1, <1>3
<1>16. After3(new, p, from + n, key, PB, g, F)
  BY <1>1, <1>5, <1>6, <1>7, <1>11, <1>12, <1>14, <1>15 DEF After3
<1> QED BY <1>10, <1>13, <1>16

Counted(st, total) == st.totalLen = total
(* What the consumption of buffers leaves is a state behind all of it.     *)
LEMMA AfterBuffers ==
  ASSUME NEW key, NEW L, NEW PB, Lasts(key, L, PB), NEW D \in Nat, NEW p \in Word(D), NEW K \in Nat, D < 64 * K + 64,
         NEW g, Walk(g, K, p, key, PB), NEW C \in Nat, NEW m \in Nat, m > 0, 256 * C + m <= D,
         NEW q \in Word(m), Holds(q, m, p, 256 * C),
         NEW st \in States3, Keyed(st, key, PB), Mark(g, 4 * C, st.acc, st.nbStripesSoFar), Ends(st.buffer, p, C),
         Counted(st, 256 * C + m)
  PROVE  /\ \E F : After3(ConsumeBuffers(st, q), p, 256 * C + m, key, PB, g, F)
         /\ SameKeys(st, ConsumeBuffers(st, q))
<1>a. \E count \in Nat, size \in Nat, buf \in Word(256) : Consumption(st, q, g, K, p, C, m, count, size, buf)
  BY Consumed
<1>b. PICK count \in Nat, size \in Nat, buf \in Word(256) : Consumption(st, q, g, K, p, C, m, count, size, buf)
  BY <1>a
<1>1.      /\ ConsumeBuffers(st, q) = [Moved(st, g[4 * (C + count)]) EXCEPT !.buffer = buf, !.bufferedSize = size]
           /\ 256 * count + size = m /\ size > 0 /\ size <= 256
           /\ Caught(buf, p, C + count, size) /\ 4 * (C + count) \in 0..K
  BY <1>b DEF Consumption
<1>2. PICK F \in Nat : F = C + count
  OBVIOUS
<1>3. PICK x \in Marks(PB) : x = g[4 * F]
  <2>1. 4 * F \in 0..K
    BY <1>1, <1>2
  <2> QED BY <2>1 DEF Walk
<1>4. PB \in Nat
  BY DEF Lasts
<1>5. PICK mid \in States3 : /\ mid = Moved(st, x) /\ mid.acc = x.acc /\ mid.nbStripesSoFar = x.at
                             /\ Keyed(mid, key, PB)
  BY <1>4, MovedState
<1>6. PICK new : new = [mid EXCEPT !.buffer = buf, !.bufferedSize = size]
  OBVIOUS
<1>7. ConsumeBuffers(st, q) = new
  BY <1>1, <1>2, <1>3, <1>5, <1>6
<1>c. new \in States3
  <2>1. size \in Nat /\ buf \in Word(256) /\ mid \in States3
    OBVIOUS
  <2> QED BY <1>6, <2>1, ChangedState, Zenon
<1>8. new.buffer = buf /\ new.bufferedSize = size /\ new.acc = x.acc /\ new.nbStripesSoFar = x.at
  BY <1>5, <1>6 DEF States3
<1>9. SameKeys(mid, new) /\ new.nbStripesPerBlock = mid.nbStripesPerBlock /\ new.totalLen = mid.totalLen
  BY <1>5, <1>6 DEF SameKeys, States3
<1>10. SameKeys(st, mid) /\ mid.totalLen = st.totalLen
  BY <1>5 DEF SameKeys, States3, Moved
<1>11. Keyed(new, key, PB)
  BY <1>5, <1>9 DEF Keyed, SameKeys, Secret
<1>12. Mark(g, 4 * F, new.acc, new.nbStripesSoFar)
  BY <1>3, <1>8 DEF Mark
<1>13. 256 * C + m = 256 * F + size /\ new.totalLen = 256 * C + m
  BY <1>1, <1>2, <1>9, <1>10 DEF Counted
<1>14. Caught(new.buffer, p, F, new.bufferedSize)
  BY <1>1, <1>2, <1>8
<1>15. After3(new, p, 256 * C + m, key, PB, g, F)
  BY <1>1, <1>2, <1>c, <1>8, <1>11, <1>12, <1>13, <1>14 DEF After3
<1>16. SameKeys(st, new)
  BY <1>9, <1>10 DEF SameKeys
<1> QED BY <1>7, <1>15, <1>16

(* The case of XXH3_update in which the buffer is filled and consumed      *)
Filling(st, a, size, l, full) ==
  /\ full = [[st EXCEPT !.totalLen = @ + Len(a)] EXCEPT !.buffer = Copied(@, size, Bytes(a, 0, l))]
  /\ XXH3_update(st, a) = ConsumeBuffers(XXH3_consumeStripes(full, full.buffer, 0, 256 \div 64), SubSeq(a, l + 1, Len(a)))

LEMMA FillingUpdate ==
  ASSUME NEW st, NEW a, Len(a) \in Nat, st.bufferedSize \in Nat, st.bufferedSize > 0, Len(a) > 256 - st.bufferedSize
  PROVE  \E full : Filling(st, a, st.bufferedSize, 256 - st.bufferedSize, full)
<1>1. ~ (Len(a) <= 256 - st.bufferedSize) /\ ~ (st.bufferedSize = 0)
  OBVIOUS
<1> QED BY <1>1 DEF Filling, XXH3_update, XXH3_INTERNALBUFFER_SIZE, XXH_STRIPE_LEN

(* A piece that fills the buffer                                           *)
LEMMA Update3Fills ==
  ASSUME NEW key, NEW L, NEW PB, Lasts(key, L, PB), NEW D \in Nat, NEW p \in Word(D), NEW K \in Nat, D < 64 * K + 64,
         NEW g, Walk(g, K, p, key, PB), NEW F, NEW from \in Nat, NEW n \in Nat, from + n <= D,
         NEW st, After3(st, p, from, key, PB, g, F), NEW a \in Word(n), Holds(a, n, p, from),
         st.bufferedSize + n > 256, st.bufferedSize > 0
  PROVE  /\ \E G : After3(XXH3_update(st, a), p, from + n, key, PB, g, G)
         /\ SameKeys(st, XXH3_update(st, a))
<1>1. st \in States3 /\ Keyed(st, key, PB) /\ F \in Nat /\ Mark(g, 4 * F, st.acc, st.nbStripesSoFar)
  BY DEF After3
<1>2. PICK size \in Nat : size = st.bufferedSize
  BY <1>1 DEF States3
<1>3. from = 256 * F + size /\ size <= 256 /\ st.totalLen = from /\ size > 0 /\ size + n > 256
  BY <1>2 DEF After3
<1>4. PICK buf \in Word(256) : buf = st.buffer /\ Caught(buf, p, F, size)
  BY <1>1, <1>2 DEF After3, States3
<1>5. PICK l \in Nat, m \in Nat, C \in Nat :
        l = 256 - size /\ m = n - l /\ C = F + 1 /\ m > 0 /\ l + m = n /\ 256 * C + m = from + n /\ 256 * C + m <= D
  BY <1>1, <1>3
<1>6. PICK h \in Word(l) : h = Bytes(a, 0, l) /\ \A j \in 1..l : h[j] = a[j]
  <2>1. PICK z \in Nat : z = 0 /\ z + l <= n
    BY <1>5
  <2>2. Bytes(a, z, l) \in Word(l)
    BY <2>1, BytesWord
  <2>3. \A j \in 1..l : Bytes(a, z, l)[j] = a[z + j]
    BY <2>1, BytesWord
  <2>4. \A j \in 1..l : z + j = j
    BY <2>1
  <2> QED BY <2>1, <2>2, <2>3, <2>4
<1>7. size + l <= 256 /\ Holds(h, l, p, 256 * F + size)
  <2>1. \A j \in 1..l : j \in 1..n
    BY <1>5
  <2>2. \A j \in 1..n : a[j] = p[from + j]
    BY DEF Holds
  <2>3. \A j \in 1..l : h[j] = p[from + j]
    BY <1>6, <2>1, <2>2
  <2> QED BY <1>3, <1>5, <2>3 DEF Holds
<1>8. Copied(buf, size, h) \in Word(256) /\ Caught(Copied(buf, size, h), p, F, size + l)
  BY <1>1, <1>4, <1>7, Filled
<1>9. PICK c \in Word(256) : c = Copied(buf, size, h) /\ Holds(c, 256, p, 256 * F)
  <2>1. size + l = 256
    BY <1>3, <1>5
  <2> QED BY <1>8, <2>1 DEF Caught
<1>10. SameStripes(c, 0, p, 4 * F, 4) /\ Ends(c, p, F + 1)
  <2>1. 256 * F + 256 <= D
    BY <1>1, <1>5
  <2> QED BY <1>1, <1>9, <2>1, FullBlock
<1>11. PICK full : full = [st EXCEPT !.totalLen = from + n, !.buffer = c]
  OBVIOUS
<1>12. full \in States3
  <2>1. PICK t \in Nat : t = from + n
    OBVIOUS
  <2>2. full = [st EXCEPT !.totalLen = t, !.buffer = c]
    BY <1>11, <2>1
  <2>3. st \in States3
    BY <1>1
  <2> QED BY <2>2, <2>3, ZenonT(40) DEF States3
<1>13. /\ full.buffer = c /\ full.totalLen = from + n /\ full.acc = st.acc /\ full.nbStripesSoFar = st.nbStripesSoFar
       /\ full.nbStripesPerBlock = st.nbStripesPerBlock
  BY <1>1, <1>11 DEF States3
<1>14. SameKeys(st, full)
  BY <1>1, <1>11 DEF States3, SameKeys
<1>15. Keyed(full, key, PB)
  BY <1>1, <1>13, <1>14 DEF Keyed, SameKeys, Secret
<1>16. XXH3_consumeStripes(full, c, 0, 4) = Moved(full, g[4 * C])
  <2>1. PICK b \in Nat, four \in Nat, w \in Nat, z \in Nat : b = 4 * F /\ four = 4 /\ w = 256 /\ z = 0
    BY <1>1
  <2>2. b + four <= K /\ z + 64 * four <= w /\ four <= 4 /\ b + four = 4 * C
    BY <1>1, <1>5, <2>1
  <2>3. c \in Word(w) /\ SameStripes(c, z, p, b, four)
    BY <1>10, <2>1
  <2>4. Mark(g, b, full.acc, full.nbStripesSoFar)
    BY <1>1, <1>13, <2>1
  <2>5. b + four <= K /\ z + 64 * four <= w /\ four <= 4
    BY <2>2
  <2>6. XXH3_consumeStripes(full, c, z, four) = Moved(full, g[b + four])
    BY <1>15, <2>3, <2>4, <2>5, Consumes
  <2> QED BY <2>1, <2>2, <2>6
<1>17. PICK x \in Marks(PB) : x = g[4 * C]
  <2>1. 4 * C \in 0..K
    BY <1>5
  <2> QED BY <2>1 DEF Walk
<1>18. PB \in Nat
  BY DEF Lasts
<1>19. PICK read \in States3 : /\ read = Moved(full, x) /\ read.acc = x.acc /\ read.nbStripesSoFar = x.at
                               /\ read.buffer = full.buffer /\ Keyed(read, key, PB)
  BY <1>12, <1>15, <1>18, MovedState
<1>20. read.totalLen = 256 * C + m /\ SameKeys(full, read)
  <2>1. read.totalLen = full.totalLen
    BY <1>12, <1>19 DEF States3, Moved
  <2>2. SameKeys(full, read)
    BY <1>12, <1>19 DEF States3, Moved, SameKeys
  <2> QED BY <1>5, <1>13, <2>1, <2>2
<1>21. PICK q \in Word(m) : q = SubSeq(a, l + 1, Len(a)) /\ Holds(q, m, p, 256 * C)
  <2>1. SubSeq(a, l + 1, Len(a)) = Bytes(a, l, n - l)
    <3>1. Len(a) = n
      BY SomeWord, Zenon
    <3>2. l + (n - l) = n
      BY <1>5
    <3> QED BY <3>1, <3>2, Zenon DEF Bytes
  <2>2. l + m <= n
    BY <1>5
  <2>3. Bytes(a, l, m) \in Word(m)
    BY <2>2, BytesWord
  <2>4. \A j \in 1..m : Bytes(a, l, m)[j] = a[l + j]
    BY <2>2, BytesWord
  <2>5. \A j \in 1..m : l + j \in 1..n /\ from + (l + j) = 256 * C + j
    BY <1>3, <1>5
  <2>6. \A j \in 1..n : a[j] = p[from + j]
    BY DEF Holds
  <2>7. \A j \in 1..m : Bytes(a, l, m)[j] = p[256 * C + j]
    BY <2>4, <2>5, <2>6
  <2>8. Holds(Bytes(a, l, m), m, p, 256 * C)
    BY <2>7 DEF Holds
  <2>9. SubSeq(a, l + 1, Len(a)) = Bytes(a, l, m)
    BY <1>5, <2>1
  <2> QED BY <2>3, <2>8, <2>9
<1>22. Mark(g, 4 * C, read.acc, read.nbStripesSoFar) /\ Ends(read.buffer, p, C)
  BY <1>5, <1>10, <1>13, <1>17, <1>19 DEF Mark
<1>23. m > 0 /\ 256 * C + m <= D
  BY <1>5
<1>24. Counted(read, 256 * C + m)
  BY <1>20 DEF Counted
<1>25. Keyed(read, key, PB)
  BY <1>19
<1>26. /\ \E G : After3(ConsumeBuffers(read, q), p, 256 * C + m, key, PB, g, G)
       /\ SameKeys(read, ConsumeBuffers(read, q))
  BY <1>21, <1>22, <1>23, <1>24, <1>25, AfterBuffers
<1>27. XXH3_update(st, a) = ConsumeBuffers(read, q)
  <2>1. Len(a) = n
    BY SomeWord
  <2>2. st.bufferedSize = size /\ size > 0 /\ n > 256 - size /\ 256 - size = l
    BY <1>2, <1>3, <1>5
  <2>3. Len(a) \in Nat /\ st.bufferedSize \in Nat /\ st.bufferedSize > 0 /\ Len(a) > 256 - st.bufferedSize
    BY <2>1, <2>2
  <2>4. PICK filled : Filling(st, a, st.bufferedSize, 256 - st.bufferedSize, filled)
    BY <2>3, FillingUpdate, Zenon
  <2>5. Filling(st, a, size, l, filled)
    BY <2>2, <2>4
  <2>6. filled = full
    <3>1. filled = [[st EXCEPT !.totalLen = @ + n] EXCEPT !.buffer = Copied(@, size, h)]
      BY <1>6, <2>1, <2>5 DEF Filling
    <3>2. PICK counted : counted = [st EXCEPT !.totalLen = @ + n]
      OBVIOUS
    <3>3. counted = [st EXCEPT !.totalLen = from + n] /\ counted.buffer = buf
      BY <1>1, <1>3, <1>4, <3>2 DEF States3
    <3> QED BY <1>9, <1>11, <3>1, <3>2, <3>3
  <2>7. XXH3_update(st, a) = ConsumeBuffers(XXH3_consumeStripes(full, full.buffer, 0, 256 \div 64), SubSeq(a, l + 1, Len(a)))
    BY <2>5, <2>6 DEF Filling
  <2>8. 256 \div 64 = 4
    OBVIOUS
  <2> QED BY <1>13, <1>16, <1>17, <1>19, <1>21, <2>7, <2>8
<1>28. SameKeys(st, ConsumeBuffers(read, q))
  BY <1>14, <1>20, <1>26 DEF SameKeys
<1> QED BY <1>5, <1>26, <1>27, <1>28

LEMMA CountedState ==
  ASSUME NEW st \in States3, NEW t \in Nat
  PROVE  [st EXCEPT !.totalLen = t] \in States3
BY DEF States3

(* The first piece, when it is longer than the buffer                      *)
LEMMA Update3First ==
  ASSUME NEW key, NEW L, NEW PB, Lasts(key, L, PB), NEW D \in Nat, NEW p \in Word(D), NEW K \in Nat, D < 64 * K + 64,
         NEW g, Walk(g, K, p, key, PB), NEW F, NEW from \in Nat, NEW n \in Nat, from + n <= D,
         NEW st, After3(st, p, from, key, PB, g, F), NEW a \in Word(n), Holds(a, n, p, from),
         n > 256, st.bufferedSize = 0
  PROVE  /\ \E G : After3(XXH3_update(st, a), p, from + n, key, PB, g, G)
         /\ SameKeys(st, XXH3_update(st, a))
<1>1. st \in States3 /\ Keyed(st, key, PB) /\ Mark(g, 4 * F, st.acc, st.nbStripesSoFar)
  BY DEF After3
<1>2. F = 0 /\ from = 0 /\ st.totalLen = 0
  BY DEF After3
<1>3. PICK C \in Nat, t \in Nat : C = 0 /\ t = n /\ 256 * C + n = t /\ from + n = t /\ 4 * F = 4 * C /\ 256 * C = from
  BY <1>2
<1>4. PICK counted : counted = [st EXCEPT !.totalLen = t]
  OBVIOUS
<1>5. counted \in States3
  BY <1>1, <1>4, CountedState
<1>6. /\ counted.totalLen = t /\ counted.acc = st.acc /\ counted.nbStripesSoFar = st.nbStripesSoFar
      /\ counted.nbStripesPerBlock = st.nbStripesPerBlock
  BY <1>1, <1>4 DEF States3
<1>7. SameKeys(st, counted)
  BY <1>1, <1>4 DEF States3, SameKeys
<1>8. Keyed(counted, key, PB)
  BY <1>1, <1>6, <1>7 DEF Keyed, SameKeys, Secret
<1>9. Mark(g, 4 * C, counted.acc, counted.nbStripesSoFar)
  BY <1>1, <1>3, <1>6
<1>10. Ends(counted.buffer, p, C)
  BY <1>3 DEF Ends
<1>11. Counted(counted, 256 * C + n)
  BY <1>3, <1>6 DEF Counted
<1>12. Holds(a, n, p, 256 * C)
  BY <1>3
<1>13. n > 0 /\ 256 * C + n <= D
  BY <1>3
<1>14. /\ \E G : After3(ConsumeBuffers(counted, a), p, 256 * C + n, key, PB, g, G)
       /\ SameKeys(counted, ConsumeBuffers(counted, a))
  BY <1>5, <1>8, <1>9, <1>10, <1>11, <1>12, <1>13, AfterBuffers
<1>15. XXH3_update(st, a) = ConsumeBuffers(counted, a)
  <2>1. Len(a) = n
    BY SomeWord
  <2>2. ~ (n <= 256 - 0) /\ n > 256 - 0 /\ ~ (0 > 0)
    OBVIOUS
  <2>3. [st EXCEPT !.totalLen = @ + n] = counted
    BY <1>2, <1>3, <1>4
  <2> QED BY <2>1, <2>2, <2>3 DEF XXH3_update, XXH3_INTERNALBUFFER_SIZE
<1>16. SameKeys(st, ConsumeBuffers(counted, a))
  BY <1>7, <1>14 DEF SameKeys
<1> QED BY <1>3, <1>14, <1>15, <1>16

(* XXH3_update, with a piece of any length                                 *)
LEMMA Update3 ==
  ASSUME NEW key, NEW L, NEW PB, Lasts(key, L, PB), NEW D \in Nat, NEW p \in Word(D), NEW K \in Nat, D < 64 * K + 64,
         NEW g, Walk(g, K, p, key, PB), NEW F, NEW from \in Nat, NEW n \in Nat, from + n <= D,
         NEW st, After3(st, p, from, key, PB, g, F)
  PROVE  /\ \E G : After3(XXH3_update(st, Bytes(p, from, n)), p, from + n, key, PB, g, G)
         /\ SameKeys(st, XXH3_update(st, Bytes(p, from, n)))
<1>1. PICK size \in Nat : size = st.bufferedSize
  BY DEF After3, States3
<1>2. Bytes(p, from, n) \in Word(n) /\ \A j \in 1..n : Bytes(p, from, n)[j] = p[from + j]
  BY BytesWord
<1>3. PICK a \in Word(n) : a = Bytes(p, from, n) /\ Holds(a, n, p, from)
  BY <1>2 DEF Holds
<1>4. CASE size + n <= 256
  BY <1>1, <1>3, <1>4, Update3Short
<1>5. CASE size + n > 256 /\ size > 0
  <2>1. st.bufferedSize + n > 256 /\ st.bufferedSize > 0
    BY <1>1, <1>5
  <2>2. /\ \E G : After3(XXH3_update(st, a), p, from + n, key, PB, g, G)
        /\ SameKeys(st, XXH3_update(st, a))
    BY <1>3, <2>1, Update3Fills
  <2> QED BY <1>3, <2>2
<1>6. CASE size + n > 256 /\ size = 0
  <2>1. n > 256 /\ st.bufferedSize = 0
    BY <1>1, <1>6
  <2>2. /\ \E G : After3(XXH3_update(st, a), p, from + n, key, PB, g, G)
        /\ SameKeys(st, XXH3_update(st, a))
    BY <1>3, <2>1, Update3First
  <2> QED BY <1>3, <2>2
<1> QED BY <1>4, <1>5, <1>6

(* What a buffer holds of p it gives back.                                 *)
LEMMA HeldBytes ==
  ASSUME NEW D \in Nat, NEW p \in Word(D), NEW o \in Nat, NEW m \in Nat, NEW buf \in Word(m),
         NEW k \in Nat, k <= m, o + k <= D, Holds(buf, k, p, o), NEW x \in Nat, NEW w \in Nat, x + w <= k
  PROVE  Bytes(buf, x, w) = Bytes(p, o + x, w)
<1>1. PICK y \in Nat : y = o + x /\ y + w <= D /\ x + w <= m
  OBVIOUS
<1>2. PICK a \in Word(w) : a = Bytes(buf, x, w) /\ \A j \in 1..w : a[j] = buf[x + j]
  BY <1>1, BytesWord
<1>3. PICK b \in Word(w) : b = Bytes(p, y, w) /\ \A j \in 1..w : b[j] = p[y + j]
  BY <1>1, BytesWord
<1>4. ASSUME NEW j \in 1..w PROVE a[j] = b[j]
  <2>1. x + j \in 1..k /\ o + (x + j) = y + j
    BY <1>1
  <2>2. buf[x + j] = p[o + (x + j)]
    BY <2>1 DEF Holds
  <2> QED BY <1>2, <1>3, <2>1, <2>2
<1>5. a = b
  BY <1>4, SameWord
<1> QED BY <1>1, <1>2, <1>3, <1>5

LEMMA HeldStripes ==
  ASSUME NEW D \in Nat, NEW p \in Word(D), NEW F \in Nat, NEW buf \in Word(256),
         NEW k \in Nat, k <= 256, 256 * F + k <= D, Holds(buf, k, p, 256 * F), NEW n \in Nat, 64 * n <= k
  PROVE  SameStripes(buf, 0, p, 4 * F, n)
<1>1. PICK o \in Nat, m \in Nat, w \in Nat : o = 256 * F /\ m = 256 /\ w = 64
  OBVIOUS
<1>2. buf \in Word(m) /\ k <= m /\ o + k <= D /\ Holds(buf, k, p, o)
  BY <1>1
<1>3. ASSUME NEW j \in 1..n PROVE Bytes(buf, 0 + 64 * (j - 1), 64) = Bytes(p, 64 * ((4 * F + j) - 1), 64)
  <2>1. PICK x \in Nat : x = 0 + 64 * (j - 1) /\ x + w <= k /\ o + x = 64 * ((4 * F + j) - 1)
    BY <1>1
  <2>2. Bytes(buf, x, w) = Bytes(p, o + x, w)
    BY <1>2, <2>1, HeldBytes
  <2> QED BY <1>1, <2>1, <2>2
<1> QED BY <1>3 DEF SameStripes

\* The accumulators acc with the last stripe of the first `from' bytes of p
WithLast(acc, p, from, key) == XXH3_accumulate_512(acc, Bytes(p, from - 64, 64), SecretEnd(key, 7))
\* `from' bytes end r bytes behind stripe N.
Past(from, N, r) == from = 64 * N + r /\ r \in 1..64

LEMMA DigestBuffered ==
  ASSUME NEW key, NEW L, NEW PB, Lasts(key, L, PB), NEW D \in Nat, NEW p \in Word(D), NEW K \in Nat, D < 64 * K + 64,
         NEW g, Walk(g, K, p, key, PB), NEW F, NEW from \in Nat, from <= D,
         NEW st, After3(st, p, from, key, PB, g, F), st.bufferedSize >= 64,
         NEW N \in Nat, NEW r \in Nat, Past(from, N, r)
  PROVE  XXH3_digest_long(st) = WithLast(g[N].acc, p, from, key)
<1>1. st \in States3 /\ Keyed(st, key, PB) /\ F \in Nat /\ Mark(g, 4 * F, st.acc, st.nbStripesSoFar)
  BY DEF After3
<1>2. PICK size \in Nat : size = st.bufferedSize
  BY <1>1 DEF States3
<1>3. from = 256 * F + size /\ size <= 256 /\ size >= 64
  BY <1>2 DEF After3
<1>4. PICK buf \in Word(256) : buf = st.buffer /\ Holds(buf, size, p, 256 * F)
  BY <1>1, <1>2 DEF After3, States3, Caught
<1>5. PICK n \in Nat : n = (size - 1) \div 64 /\ n <= 3 /\ 64 * n + r = size /\ N = 4 * F + n
  BY <1>1, <1>3 DEF Past
<1>6. n <= 4 /\ N = 4 * F + n /\ 64 * n <= size
  BY <1>5
<1>7. N <= K
  BY <1>6 DEF Past
<1>8. 256 * F + size <= D /\ size <= 256
  BY <1>3
<1>9. SameStripes(buf, 0, p, 4 * F, n)
  BY <1>1, <1>4, <1>6, <1>8, HeldStripes
<1>10. XXH3_consumeStripes(st, buf, 0, n) = Moved(st, g[N])
  <2>1. PICK b \in Nat, w \in Nat, z \in Nat : b = 4 * F /\ w = 256 /\ z = 0
    BY <1>1
  <2>2. n <= 4 /\ b + n <= K /\ z + 64 * n <= w /\ b + n = N
    BY <1>3, <1>6, <1>7, <2>1
  <2>3. buf \in Word(w) /\ SameStripes(buf, z, p, b, n)
    BY <1>9, <2>1
  <2>4. Mark(g, b, st.acc, st.nbStripesSoFar)
    BY <1>1, <2>1
  <2>5. n <= 4 /\ b + n <= K /\ z + 64 * n <= w
    BY <2>2
  <2>6. XXH3_consumeStripes(st, buf, z, n) = Moved(st, g[b + n])
    BY <1>1, <2>3, <2>4, <2>5, Consumes
  <2> QED BY <2>1, <2>2, <2>6
<1>11. PICK x \in Marks(PB) : x = g[N]
  <2>1. N \in 0..K
    BY <1>7
  <2> QED BY <2>1 DEF Walk
<1>12. Moved(st, x).acc = x.acc
  <2>1. PB \in Nat
    BY DEF Lasts
  <2> QED BY <1>1, <2>1, MovedState
<1>13. Bytes(buf, size - 64, 64) = Bytes(p, from - 64, 64)
  <2>1. PICK o \in Nat, m \in Nat, w \in Nat, y \in Nat :
          o = 256 * F /\ m = 256 /\ w = 64 /\ y = size - 64 /\ y + w <= size /\ o + y = from - 64 /\ size <= m /\ o + size <= D
    BY <1>1, <1>3
  <2>2. buf \in Word(m) /\ Holds(buf, size, p, o)
    BY <1>4, <2>1
  <2>3. y + w <= size /\ size <= m /\ o + size <= D
    BY <2>1
  <2>4. Bytes(buf, y, w) = Bytes(p, o + y, w)
    BY <2>2, <2>3, HeldBytes
  <2> QED BY <2>1, <2>4
<1>14. XXH3_digest_long(st) = XXH3_accumulate_512(Moved(st, x).acc, Bytes(buf, size - 64, 64), SecretEnd(key, 7))
  <2>1. Secret(st) = key
    BY <1>1 DEF Keyed
  <2>2. (size - 1) \div 64 = n
    BY <1>5
  <2> QED BY <1>2, <1>3, <1>4, <1>10, <1>11, <2>1, <2>2 DEF XXH3_digest_long, XXH_STRIPE_LEN, XXH_SECRET_LASTACC_START
<1> QED BY <1>11, <1>12, <1>13, <1>14 DEF WithLast

Joins(d, a, b, k, q) == \A j \in 1..q : d[j] = IF j <= k THEN a[j] ELSE b[j - k]

LEMMA Joined ==
  ASSUME NEW k \in Nat, NEW s \in Nat, NEW q \in Nat, k + s <= q, q <= k + s, NEW a \in Word(k), NEW b \in Word(s)
  PROVE  /\ a \o b \in Word(q)
         /\ Joins(a \o b, a, b, k, q)
<1>1. a \o b \in Word(k + s)
  BY ConcatWords
<1>2. \A j \in 1..(k + s) : (a \o b)[j] = IF j <= k THEN a[j] ELSE b[j - k]
  BY ConcatWords
<1>3. k + s = q
  OBVIOUS
<1> QED BY <1>1, <1>2, <1>3 DEF Joins

LEMMA DigestCaught ==
  ASSUME NEW key, NEW L, NEW PB, Lasts(key, L, PB), NEW D \in Nat, NEW p \in Word(D), NEW K \in Nat, D < 64 * K + 64,
         NEW g, Walk(g, K, p, key, PB), NEW F, NEW from \in Nat, from <= D, from > 240,
         NEW st, After3(st, p, from, key, PB, g, F), st.bufferedSize < 64,
         NEW N \in Nat, NEW r \in Nat, Past(from, N, r)
  PROVE  XXH3_digest_long(st) = WithLast(g[N].acc, p, from, key)
<1>1. st \in States3 /\ Keyed(st, key, PB) /\ F \in Nat /\ Mark(g, 4 * F, st.acc, st.nbStripesSoFar)
  BY DEF After3
<1>2. PICK size \in Nat : size = st.bufferedSize
  BY <1>1 DEF States3
<1>3. from = 256 * F + size /\ size < 64 /\ size > 0 /\ F > 0
  BY <1>1, <1>2 DEF After3
<1>4. PICK buf \in Word(256) : buf = st.buffer /\ Holds(buf, size, p, 256 * F)
                               /\ \A x \in 193..256 : x > size => buf[x] = p[256 * (F - 1) + x]
  BY <1>1, <1>2, <1>3 DEF After3, States3, Caught
<1>5. N = 4 * F
  BY <1>1, <1>3 DEF Past
<1>6. PICK k \in Nat, i \in Nat, z \in Nat, w \in Nat, y \in Nat, q \in Nat :
        /\ k = 64 - size /\ i = 256 - k /\ z = 0 /\ w = 256 /\ y = from - 64 /\ q = 64 /\ k + size = q
        /\ i + k <= w /\ z + size <= w /\ y + q <= D
  BY <1>1, <1>3
<1>7. buf \in Word(w) /\ i + k <= w /\ z + size <= w /\ y + q <= D
  BY <1>6
<1>8. PICK a \in Word(k) : a = Bytes(buf, i, k) /\ \A j \in 1..k : a[j] = buf[i + j]
  BY <1>7, BytesWord
<1>9. PICK b \in Word(size) : b = Bytes(buf, z, size) /\ \A j \in 1..size : b[j] = buf[z + j]
  BY <1>7, BytesWord
<1>10. PICK c \in Word(q) : c = Bytes(p, y, q) /\ \A j \in 1..q : c[j] = p[y + j]
  BY <1>7, BytesWord
<1>11. PICK d \in Word(q) : d = a \o b /\ \A j \in 1..q : d[j] = IF j <= k THEN a[j] ELSE b[j - k]
  <2>1. k + size <= q /\ q <= k + size
    BY <1>6
  <2>2. a \o b \in Word(q)
    BY <2>1, Joined
  <2>3. Joins(a \o b, a, b, k, q)
    BY <2>1, Joined
  <2> QED BY <2>2, <2>3 DEF Joins
<1>12. ASSUME NEW j \in 1..q PROVE d[j] = c[j]
  <2>1. CASE j <= k
    <3>1. PICK x \in 193..256 : x = i + j /\ x > size
      BY <1>3, <1>6, <2>1
    <3>2. j \in 1..k /\ 256 * (F - 1) + x = y + j
      BY <1>1, <1>3, <1>6, <2>1, <3>1
    <3>3. d[j] = a[j] /\ a[j] = buf[x]
      BY <1>8, <1>11, <2>1, <3>1, <3>2
    <3>4. buf[x] = p[256 * (F - 1) + x]
      BY <1>4, <3>1
    <3> QED BY <1>10, <3>2, <3>3, <3>4
  <2>2. CASE ~ (j <= k)
    <3>1. PICK x \in 1..size : x = j - k /\ z + x = x /\ 256 * F + x = y + j
      BY <1>1, <1>3, <1>6, <2>2
    <3>2. d[j] = b[x] /\ b[x] = buf[x]
      BY <1>9, <1>11, <2>2, <3>1
    <3>3. buf[x] = p[256 * F + x]
      BY <1>4 DEF Holds
    <3> QED BY <1>10, <3>1, <3>2, <3>3
  <2> QED BY <2>1, <2>2
<1>14. d = c
  BY <1>12, SameWord
<1>15. Bytes(buf, 256 - (64 - size), 64 - size) \o Bytes(buf, 0, size) = Bytes(p, from - 64, 64)
  BY <1>6, <1>8, <1>9, <1>10, <1>11, <1>14, ZenonT(40)
<1>16. st.acc = g[N].acc
  BY <1>1, <1>5 DEF Mark
<1>17. XXH3_digest_long(st) =
         XXH3_accumulate_512(st.acc, Bytes(buf, 256 - (64 - size), 64 - size) \o Bytes(buf, 0, size), SecretEnd(key, 7))
  <2>1. Secret(st) = key
    BY <1>1 DEF Keyed
  <2>2. ~ (size >= 64)
    BY <1>3
  <2> QED BY <1>2, <1>4, <2>1, <2>2 DEF XXH3_digest_long, XXH_STRIPE_LEN, XXH_SECRET_LASTACC_START, XXH3_INTERNALBUFFER_SIZE
<1> QED BY <1>15, <1>16, <1>17 DEF WithLast

(***************************************************************************)
(* XXH3_hashLong_internal_loop                                             *)
(***************************************************************************)
LEMMA Quotient ==
  ASSUME NEW s \in Nat, s > 0, NEW a \in Nat
  PROVE  \E k \in Nat, r \in Nat : k = a \div s /\ a = s * k + r /\ r < s
<1>1. PICK k \in Int, r \in Int : k = a \div s /\ r = a % s
  OBVIOUS
<1>2. a = s * k + r /\ 0 <= r /\ r < s
  BY <1>1
<1>3. k >= 0
  BY <1>1, <1>2
<1> QED BY <1>1, <1>2, <1>3

\* The stripes before each of the blocks, of PB stripes and B bytes
Stepped(P, nb, PB, B) ==
  /\ P \in [0..nb -> Nat] /\ P[0] = 0
  /\ \A n \in 1..nb : P[n] = P[n - 1] + PB /\ P[n] <= P[nb] /\ B * (n - 1) = 64 * P[n - 1]
  /\ B * nb = 64 * P[nb] /\ nb * B = 64 * P[nb]

LEMMA Products ==
  ASSUME NEW a \in Nat, NEW n \in Nat, NEW m \in Nat, n <= m
  PROVE  /\ a * n \in Nat /\ a * (n + 1) = a * n + a /\ a * n <= a * m
         /\ (64 * a) * n = 64 * (a * n) /\ n * (64 * a) = 64 * (a * n)
<1>1. a * n \in Nat /\ a * (n + 1) = a * n + a
  OBVIOUS
<1>2. a * n <= a * m
  <2>1. PICK d \in Nat : m = n + d
    <3>1. m - n \in Nat /\ m = n + (m - n)
      OBVIOUS
    <3> QED BY <3>1
  <2>2. a * (n + d) = a * n + a * d /\ a * d \in Nat
    OBVIOUS
  <2> QED BY <1>1, <2>1, <2>2
<1>3. (64 * a) * n = 64 * (a * n) /\ n * (64 * a) = 64 * (a * n)
  OBVIOUS
<1> QED BY <1>1, <1>2, <1>3

LEMMA SteppedExists ==
  ASSUME NEW nb \in Nat, NEW PB \in Nat
  PROVE  \E P : Stepped(P, nb, PB, 64 * PB)
<1>1. PICK P : P = [n \in 0..nb |-> PB * n]
  OBVIOUS
<1>2. P \in [0..nb -> Nat] /\ P[0] = 0
  <2>1. PB * 0 = 0 /\ \A n \in 0..nb : PB * n \in Nat
    BY Products
  <2> QED BY <1>1, <2>1
<1>3. ASSUME NEW n \in 1..nb PROVE P[n] = P[n - 1] + PB /\ P[n] <= P[nb] /\ (64 * PB) * (n - 1) = 64 * P[n - 1]
  <2>1. PICK k \in Nat : k = n - 1 /\ k \in 0..nb /\ n = k + 1
    OBVIOUS
  <2>2. PB * (k + 1) = PB * k + PB /\ (64 * PB) * k = 64 * (PB * k)
    BY Products
  <2>3. PB * n <= PB * nb
    BY Products
  <2>4. P[n] = PB * n /\ P[nb] = PB * nb /\ P[k] = PB * k
    BY <1>1, <2>1
  <2> QED BY <2>1, <2>2, <2>3, <2>4
<1>4. (64 * PB) * nb = 64 * P[nb] /\ nb * (64 * PB) = 64 * P[nb]
  <2>1. P[nb] = PB * nb
    BY <1>1
  <2>2. (64 * PB) * nb = 64 * (PB * nb) /\ nb * (64 * PB) = 64 * (PB * nb)
    BY Products
  <2> QED BY <2>1, <2>2
<1>5. Stepped(P, nb, PB, 64 * PB)
  BY <1>2, <1>3, <1>4 DEF Stepped
<1> QED BY <1>5

BlockAccs(q, key, PB, B, nb) ==
  LET block[n \in 0..nb] ==
        IF n = 0 THEN XXH3_INIT_ACC
        ELSE XXH3_scrambleAcc(XXH3_accumulate(block[n - 1], q, B * (n - 1), key, 0, PB), SecretEnd(key, 0))
  IN block[nb]

(* The blocks lead to the mark where the last of them ends.                *)
LEMMA BlocksRead ==
  ASSUME NEW key, NEW L, NEW PB, Lasts(key, L, PB), NEW from \in Nat, NEW p \in Word(from), NEW K \in Nat,
         from <= 64 * K + 64, NEW g, Walk(g, K, p, key, PB),
         NEW nb \in Nat, NEW B \in Nat, NEW P, Stepped(P, nb, PB, B), 64 * P[nb] < from
  PROVE  Mark(g, P[nb], BlockAccs(p, key, PB, B, nb), 0)
<1> DEFINE Step(n, x) == XXH3_scrambleAcc(XXH3_accumulate(x, p, B * (n - 1), key, 0, PB), SecretEnd(key, 0))
           Solves(f) == f = [n \in 0..nb |-> IF n = 0 THEN XXH3_INIT_ACC ELSE Step(n, f[n - 1])]
           chosen == CHOOSE f : Solves(f)
<1>1. PB \in Nat /\ PB >= 9
  BY DEF Lasts
<1>2. P \in [0..nb -> Nat] /\ P[0] = 0
  BY DEF Stepped
<1>3. g[P[0]] = [acc |-> XXH3_INIT_ACC, at |-> 0]
  BY <1>2 DEF Walk
<1>4. ASSUME NEW n \in 1..nb, NEW x, Mark(g, P[n - 1], x, 0) PROVE Mark(g, P[n], Step(n, x), 0)
  <2>1. PICK c \in Nat, d \in Nat : c = P[n - 1] /\ d = P[n] /\ d = c + PB /\ d <= P[nb]
    <3>1. P[n] = P[n - 1] + PB /\ P[n] <= P[nb]
      BY DEF Stepped
    <3>2. n - 1 \in 0..nb /\ n \in 0..nb
      OBVIOUS
    <3>3. P[n - 1] \in Nat /\ P[n] \in Nat
      BY <1>2, <3>2
    <3> QED BY <3>1, <3>3
  <2>2. P[nb] \in Nat
    BY <1>2
  <2>3. PICK i \in Nat, z \in Nat : i = B * (n - 1) /\ i = 64 * c /\ z = 0 /\ z + i = 64 * c
    <3>1. B * (n - 1) = 64 * P[n - 1]
      BY DEF Stepped
    <3> QED BY <2>1, <3>1
  <2>4. i + 64 * PB <= from /\ c + PB <= K
    BY <1>1, <2>1, <2>2, <2>3
  <2>5. SameStripes(p, i, p, c, PB)
    <3>1. \A j \in 1..PB : i + 64 * (j - 1) = 64 * ((c + j) - 1)
      BY <1>1, <2>3
    <3> QED BY <3>1 DEF SameStripes
  <2>6. Mark(g, c, x, z)
    BY <1>4, <2>1, <2>3
  <2>7. z + PB <= PB
    BY <1>1, <2>3
  <2>8. Accumulated(g, c, PB, p, i, key, PB, x, z)
    BY <1>1, <2>4, <2>5, <2>6, <2>7, AccumulateOn
  <2>9. g[c + PB] = [acc |-> XXH3_scrambleAcc(XXH3_accumulate(x, p, i, key, 0, PB), SecretEnd(key, 0)), at |-> 0]
    <3>1. 8 * z = 0 /\ z + PB = PB
      BY <1>1, <2>3
    <3> QED BY <2>8, <3>1 DEF Accumulated
  <2> QED BY <2>1, <2>3, <2>9 DEF Mark
<1> HIDE DEF Step
<1>5. PICK h : h = [n \in 0..nb |-> g[P[n]].acc]
  OBVIOUS
<1>6. PICK T : T = {n \in 0..nb : Mark(g, P[n], h[n], 0)}
  OBVIOUS
<1>7. 0 \in T
  <2>1. 0 \in 0..nb
    OBVIOUS
  <2> QED BY <1>3, <1>5, <1>6, <2>1 DEF Mark
<1>8. ASSUME NEW n \in 1..nb, n - 1 \in T PROVE n \in T
  <2>1. Mark(g, P[n], Step(n, h[n - 1]), 0)
    BY <1>4, <1>6, <1>8
  <2> QED BY <1>5, <1>6, <2>1 DEF Mark
<1>9. \A n \in 0..nb : n \in T
  BY <1>7, <1>8, SetInduction
<1>10. ASSUME NEW n \in 0..nb PROVE h[n] = IF n = 0 THEN XXH3_INIT_ACC ELSE Step(n, h[n - 1])
  <2>1. CASE n = 0
    BY <1>3, <1>5, <2>1
  <2>2. CASE n # 0
    <3>1. n \in 1..nb /\ n - 1 \in 0..nb
      BY <2>2
    <3>2. Mark(g, P[n - 1], h[n - 1], 0)
      BY <1>6, <1>9, <3>1
    <3>3. Mark(g, P[n], Step(n, h[n - 1]), 0)
      BY <1>4, <3>1, <3>2
    <3> QED BY <1>5, <2>2, <3>3 DEF Mark
  <2> QED BY <2>1, <2>2
<1>11. Solves(h)
  BY <1>5, <1>10
<1>12. Solves(chosen)
  <2> HIDE DEF Solves
  <2> QED BY <1>11
<1>13. PICK f : f = chosen
  OBVIOUS
<1>14. f = [n \in 0..nb |-> IF n = 0 THEN XXH3_INIT_ACC ELSE Step(n, f[n - 1])]
  <2> HIDE DEF chosen
  <2> QED BY <1>12, <1>13
<1>15. f[0] = XXH3_INIT_ACC /\ \A n \in 1..nb : f[n] = Step(n, f[n - 1])
  BY <1>14
<1>16. PICK S : S = {n \in 0..nb : Mark(g, P[n], f[n], 0)}
  OBVIOUS
<1>17. 0 \in S
  <2>1. 0 \in 0..nb
    OBVIOUS
  <2> QED BY <1>3, <1>15, <1>16, <2>1 DEF Mark
<1>18. ASSUME NEW n \in 1..nb, n - 1 \in S PROVE n \in S
  <2>1. Mark(g, P[n], Step(n, f[n - 1]), 0)
    BY <1>4, <1>16, <1>18
  <2> QED BY <1>15, <1>16, <2>1
<1>19. \A n \in 0..nb : n \in S
  BY <1>17, <1>18, SetInduction
<1>20. Mark(g, P[nb], f[nb], 0)
  BY <1>16, <1>19
<1>21. BlockAccs(p, key, PB, B, nb) = chosen[nb]
  BY DEF BlockAccs, Step
<1> HIDE DEF chosen
<1> QED BY <1>13, <1>20, <1>21

\* A block of the long hash has as many stripes as the secret has places.
Blocks(L, PB) == (L - 64) \div 8 = PB
HashLong(q, key, PB, B, nb, size) ==
  XXH3_accumulate_512(XXH3_accumulate(BlockAccs(q, key, PB, B, nb), q, nb * B, key, 0, ((size - 1) - B * nb) \div 64),
                      Bytes(q, size - 64, 64), SecretEnd(key, 7))

LEMMA LoopIs ==
  ASSUME NEW L \in Nat, NEW key \in Word(L), NEW size \in Nat, NEW q \in Word(size)
  PROVE  XXH3_hashLong_internal_loop(q, key) =
           HashLong(q, key, (L - 64) \div 8, 64 * ((L - 64) \div 8), (size - 1) \div (64 * ((L - 64) \div 8)), size)
<1>1. Len(key) = L /\ Len(q) = size
  BY SomeWord
<1> DEFINE PB == (Len(key) - 64) \div 8
           nb == (Len(q) - 1) \div (64 * PB)
<1>2. XXH3_hashLong_internal_loop(q, key) = HashLong(q, key, PB, 64 * PB, nb, Len(q))
  BY DEF XXH3_hashLong_internal_loop, HashLong, BlockAccs, XXH_STRIPE_LEN, XXH_SECRET_CONSUME_RATE, XXH_SECRET_LASTACC_START
<1> QED BY <1>1, <1>2

\* After nb blocks there are ns more stripes before the last r bytes.
Split(size, P, nb, PB, N, r, ns) ==
  /\ 64 * P[nb] < size /\ ns < PB /\ P[nb] + ns = N /\ 64 * P[nb] + 64 * ns <= size

LEMMA LoopReads ==
  ASSUME NEW key, NEW L, NEW PB, Lasts(key, L, PB), NEW size \in Nat, NEW q \in Word(size),
         NEW N \in Nat, NEW r \in Nat, Past(size, N, r), NEW g, Walk(g, N, q, key, PB),
         NEW B \in Nat, NEW nb \in Nat, NEW P, Stepped(P, nb, PB, B), NEW ns \in Nat, Split(size, P, nb, PB, N, r, ns)
  PROVE  XXH3_accumulate(BlockAccs(q, key, PB, B, nb), q, nb * B, key, 0, ns) = g[N].acc
<1>1. PB \in Nat /\ PB >= 9
  BY DEF Lasts
<1>2. PICK c \in Nat : c = P[nb]
  BY DEF Stepped
<1>3. 64 * c < size /\ ns < PB /\ c + ns = N /\ 64 * c + 64 * ns <= size
  BY <1>2 DEF Split
<1>4. nb * B = 64 * c
  BY <1>2 DEF Stepped
<1>5. size <= 64 * N + 64
  BY DEF Past
<1>6. 64 * P[nb] < size
  BY <1>2, <1>3
<1>7. Mark(g, P[nb], BlockAccs(q, key, PB, B, nb), 0)
  BY <1>5, <1>6, BlocksRead
<1>8. PICK x : x = BlockAccs(q, key, PB, B, nb)
  OBVIOUS
<1>9. PICK z \in Nat, i \in Nat : z = 0 /\ i = 64 * c
  OBVIOUS
<1>10. Mark(g, c, x, z)
  BY <1>2, <1>7, <1>8, <1>9
<1>11. SameStripes(q, i, q, c, ns)
  <2>1. \A j \in 1..ns : i + 64 * (j - 1) = 64 * ((c + j) - 1)
    BY <1>9
  <2> QED BY <2>1 DEF SameStripes
<1>12. c + ns <= N /\ i + 64 * ns <= size /\ z + ns <= PB
  BY <1>1, <1>3, <1>9
<1>13. Accumulated(g, c, ns, q, i, key, PB, x, z)
  BY <1>10, <1>11, <1>12, AccumulateOn
<1>14. g[N] = [acc |-> XXH3_accumulate(x, q, i, key, 0, ns), at |-> z + ns]
  <2>1. 8 * z = 0 /\ z + ns < PB
    BY <1>1, <1>3, <1>9
  <2> QED BY <1>3, <1>13, <2>1 DEF Accumulated
<1> QED BY <1>4, <1>8, <1>9, <1>14

(* The long hash of the whole                                              *)
LEMMA LoopWhole ==
  ASSUME NEW key, NEW L, NEW PB, Lasts(key, L, PB), Blocks(L, PB), NEW size \in Nat, size >= 64, NEW q \in Word(size),
         NEW N \in Nat, NEW r \in Nat, Past(size, N, r), NEW g, Walk(g, N, q, key, PB)
  PROVE  XXH3_hashLong_internal_loop(q, key) = WithLast(g[N].acc, q, size, key)
<1>1. key \in Word(L) /\ L \in Nat /\ PB \in Nat /\ PB >= 9
  BY DEF Lasts
<1>2. PICK B \in Nat : B = 64 * PB /\ B > 0
  BY <1>1
<1>3. PICK m \in Nat : m = size - 1
  OBVIOUS
<1>4. PICK nb \in Nat, rr \in Nat : nb = m \div B /\ m = B * nb + rr /\ rr < B
  BY <1>2, Quotient
<1>5. PICK P : Stepped(P, nb, PB, B)
  BY <1>1, <1>2, SteppedExists
<1>6. PICK c \in Nat : c = P[nb] /\ B * nb = 64 * c
  BY <1>5 DEF Stepped
<1>7. PICK ns \in Nat : ns = rr \div 64
  OBVIOUS
<1>8. size = 64 * c + rr + 1 /\ rr < 64 * PB
  BY <1>2, <1>3, <1>4, <1>6
<1>9. size = 64 * N + r /\ r >= 1 /\ r <= 64
  BY DEF Past
<1>10. 64 * c < size /\ ns < PB /\ c + ns = N /\ 64 * c + 64 * ns <= size
  BY <1>1, <1>7, <1>8, <1>9
<1>11. Split(size, P, nb, PB, N, r, ns)
  BY <1>6, <1>10 DEF Split
<1>12. XXH3_accumulate(BlockAccs(q, key, PB, B, nb), q, nb * B, key, 0, ns) = g[N].acc
  BY <1>5, <1>11, LoopReads
<1>13. ((size - 1) - B * nb) \div 64 = ns
  BY <1>3, <1>4, <1>6, <1>7, <1>8
<1>14. XXH3_hashLong_internal_loop(q, key) = HashLong(q, key, PB, B, nb, size)
  <2>1. XXH3_hashLong_internal_loop(q, key) =
           HashLong(q, key, (L - 64) \div 8, 64 * ((L - 64) \div 8), (size - 1) \div (64 * ((L - 64) \div 8)), size)
    BY <1>1, LoopIs
  <2> QED BY <1>2, <1>3, <1>4, <2>1 DEF Blocks
<1> QED BY <1>12, <1>13, <1>14 DEF HashLong, WithLast

LEMMA WalkOfPart ==
  ASSUME NEW key, NEW PB, NEW D \in Nat, NEW p \in Word(D), NEW K \in Nat, NEW g, Walk(g, K, p, key, PB),
         NEW from \in Nat, from <= D, NEW N \in Nat, N <= K, 64 * N <= from,
         NEW q \in Word(from), q = Bytes(p, 0, from)
  PROVE  Walk([n \in 0..N |-> g[n]], N, q, key, PB)
<1>1. PICK f : f = [n \in 0..N |-> g[n]]
  OBVIOUS
<1>2. \A n \in 0..N : n \in 0..K /\ f[n] = g[n]
  BY <1>1
<1>3. g \in [0..K -> Marks(PB)]
  BY DEF Walk
<1>4. f \in [0..N -> Marks(PB)]
  BY <1>1, <1>2, <1>3
<1>5. f[0] = [acc |-> XXH3_INIT_ACC, at |-> 0]
  <2>1. 0 \in 0..N
    OBVIOUS
  <2> QED BY <1>2, <2>1 DEF Walk
<1>6. ASSUME NEW n \in 1..N PROVE f[n] = Walked(key, PB, f[n - 1], Bytes(q, 64 * (n - 1), 64))
  <2>1. n \in 0..N /\ n - 1 \in 0..N /\ n \in 1..K
    OBVIOUS
  <2>2. PICK x \in Nat, w \in Nat, z \in Nat : x = 64 * (n - 1) /\ w = 64 /\ z = 0 /\ x + w <= from /\ z + x = x /\ z + from <= D
    OBVIOUS
  <2>3. z + from <= D /\ x + w <= from
    BY <2>2
  <2>4. Bytes(Bytes(p, z, from), x, w) = Bytes(p, z + x, w)
    BY <2>3, BytesOfBytes
  <2>5. g[n] = Walked(key, PB, g[n - 1], Bytes(p, 64 * (n - 1), 64))
    BY <2>1 DEF Walk
  <2>6. Bytes(q, x, w) = Bytes(p, x, w)
    BY <2>2, <2>4
  <2> QED BY <1>2, <2>1, <2>2, <2>5, <2>6
<1>7. Walk(f, N, q, key, PB)
  BY <1>4, <1>5, <1>6 DEF Walk
<1> QED BY <1>1, <1>7

(* Piecewise or at once, the accumulators are the same.                    *)
LEMMA LongHash ==
  ASSUME NEW key, NEW L, NEW PB, Lasts(key, L, PB), Blocks(L, PB), NEW D \in Nat, NEW p \in Word(D),
         NEW K \in Nat, D < 64 * K + 64, NEW g, Walk(g, K, p, key, PB), NEW F, NEW from \in Nat, from <= D, from > 240,
         NEW st, After3(st, p, from, key, PB, g, F)
  PROVE  XXH3_digest_long(st) = XXH3_hashLong_internal_loop(Bytes(p, 0, from), key)
<1>1. PICK N \in Nat, r \in Nat : Past(from, N, r)
  <2>1. PICK N \in Nat, r \in Nat : N = (from - 1) \div 64 /\ r = from - 64 * N /\ from = 64 * N + r /\ r \in 1..64
    OBVIOUS
  <2> QED BY <2>1 DEF Past
<1>2. XXH3_digest_long(st) = WithLast(g[N].acc, p, from, key)
  <2>1. PICK size \in Nat : size = st.bufferedSize
    BY DEF After3, States3
  <2>2. CASE size >= 64
    BY <1>1, <2>1, <2>2, DigestBuffered
  <2>3. CASE size < 64
    BY <1>1, <2>1, <2>3, DigestCaught
  <2> QED BY <2>2, <2>3
<1>3. N <= K /\ 64 * N <= from
  BY <1>1 DEF Past
<1>4. PICK q \in Word(from) : q = Bytes(p, 0, from)
  <2>1. PICK z \in Nat : z = 0 /\ z + from <= D
    OBVIOUS
  <2>2. Bytes(p, z, from) \in Word(from)
    BY <2>1, BytesWord
  <2> QED BY <2>1, <2>2
<1>5. PICK f : f = [n \in 0..N |-> g[n]] /\ Walk(f, N, q, key, PB) /\ f[N] = g[N]
  <2>1. PICK f : f = [n \in 0..N |-> g[n]]
    OBVIOUS
  <2>2. Walk(f, N, q, key, PB)
    BY <1>3, <1>4, <2>1, WalkOfPart
  <2>3. N \in 0..N
    OBVIOUS
  <2> QED BY <2>1, <2>2, <2>3
<1>6. XXH3_hashLong_internal_loop(q, key) = WithLast(f[N].acc, q, from, key)
  <2>1. from >= 64
    OBVIOUS
  <2> QED BY <1>1, <1>5, <2>1, LoopWhole
<1>7. Bytes(q, from - 64, 64) = Bytes(p, from - 64, 64)
  <2>1. PICK x \in Nat, w \in Nat, z \in Nat : x = from - 64 /\ w = 64 /\ z = 0 /\ x + w <= from /\ z + x = x /\ z + from <= D
    OBVIOUS
  <2>2. z + from <= D /\ x + w <= from
    BY <2>1
  <2>3. Bytes(Bytes(p, z, from), x, w) = Bytes(p, z + x, w)
    BY <2>2, BytesOfBytes
  <2> QED BY <1>4, <2>1, <2>3
<1> QED BY <1>2, <1>4, <1>5, <1>6, <1>7 DEF WithLast

LEMMA SomeBytes ==
  ASSUME NEW s \in Seq(Byte)
  PROVE  Len(s) \in Nat /\ s \in Word(Len(s))
BY DEF Word

LEMMA WholeSecret ==
  ASSUME NEW L \in Nat, NEW key \in Word(L)
  PROVE  SubSeq(key, 1, L) = key
<1>1. Bytes(key, 0, L) = key
  BY AllBytes
<1>2. Bytes(key, 0, L) = SubSeq(key, 0 + 1, 0 + L) /\ 0 + 1 = 1 /\ 0 + L = L
  BY DEF Bytes
<1> QED BY <1>1, <1>2

\* The block length that a secret of L bytes makes
LEMMA SecretBlocks ==
  ASSUME NEW L \in Nat, L >= 136, NEW key \in Word(L)
  PROVE  \E PB : Lasts(key, L, PB) /\ Blocks(L, PB)
<1>1. PICK PB \in Nat : PB = (L - 64) \div 8 /\ PB >= 9 /\ 8 * PB + 64 <= L
  OBVIOUS
<1> QED BY <1>1 DEF Lasts, Blocks

(* A reset state is one after no bytes, whatever it was before.            *)
LEMMA ResetInternal ==
  ASSUME NEW st \in States3, NEW sd \in Word(8), NEW sec \in {NULL} \cup Seq(Byte) \cup ShortSecrets,
         NEW size \in Nat, size >= 64
  PROVE  /\ XXH3_reset_internal(st, sd, sec, size) \in States3
         /\ XXH3_reset_internal(st, sd, sec, size).seed = sd
         /\ XXH3_reset_internal(st, sd, sec, size).extSecret = sec
         /\ XXH3_reset_internal(st, sd, sec, size).customSecret = st.customSecret
<1>1. PICK PB \in Nat, l \in Nat : PB = (size - 64) \div 8 /\ l = size - 64
  OBVIOUS
<1>2. PICK new : new = [st EXCEPT !.bufferedSize = 0, !.nbStripesSoFar = 0, !.totalLen = 0, !.acc = XXH3_INIT_ACC,
                                  !.seed = sd, !.extSecret = sec, !.secretLimit = l, !.nbStripesPerBlock = PB]
  OBVIOUS
<1>3. XXH3_reset_internal(st, sd, sec, size) = new
  BY <1>1, <1>2 DEF XXH3_reset_internal, XXH_STRIPE_LEN, XXH_SECRET_CONSUME_RATE
<1>4. new \in States3
  BY <1>2, InitAcc, ZenonT(40) DEF States3
<1>5. new.seed = sd /\ new.extSecret = sec /\ new.customSecret = st.customSecret
  BY <1>2 DEF States3
<1> QED BY <1>3, <1>4, <1>5

LEMMA Reset3 ==
  ASSUME NEW st \in States3, NEW sd \in Word(8), NEW sec \in {NULL} \cup Seq(Byte) \cup ShortSecrets,
         NEW key, NEW L, NEW PB, Lasts(key, L, PB), Blocks(L, PB),
         key = IF sec = NULL THEN st.customSecret ELSE sec,
         NEW p, NEW K \in Nat, NEW g, Walk(g, K, p, key, PB)
  PROVE  After3(XXH3_reset_internal(st, sd, sec, L), p, 0, key, PB, g, 0)
<1>1. L \in Nat /\ PB \in Nat /\ PB >= 9 /\ key \in Word(L) /\ L >= 64
  BY DEF Lasts
<1>2. PICK new \in States3 : new = XXH3_reset_internal(st, sd, sec, L)
  BY <1>1, ResetInternal
<1>3. PICK l \in Nat : l = L - 64 /\ l + 64 = L
  BY <1>1
<1>4. new = [st EXCEPT !.bufferedSize = 0, !.nbStripesSoFar = 0, !.totalLen = 0, !.acc = XXH3_INIT_ACC,
                       !.seed = sd, !.extSecret = sec, !.secretLimit = l, !.nbStripesPerBlock = PB]
  BY <1>2, <1>3 DEF XXH3_reset_internal, XXH_STRIPE_LEN, XXH_SECRET_CONSUME_RATE, Blocks
<1>5. /\ new.bufferedSize = 0 /\ new.nbStripesSoFar = 0 /\ new.totalLen = 0 /\ new.acc = XXH3_INIT_ACC
      /\ new.nbStripesPerBlock = PB /\ new.secretLimit = l /\ new.extSecret = sec /\ new.customSecret = st.customSecret
  BY <1>4 DEF States3
<1>6. Secret(new) = key
  <2>1. SubSeq(key, 1, L) = key
    BY <1>1, WholeSecret
  <2>2. Secret(new) = SubSeq(key, 1, L)
    BY <1>3, <1>5 DEF Secret, XXH_STRIPE_LEN
  <2> QED BY <2>1, <2>2
<1>7. Keyed(new, key, PB)
  BY <1>5, <1>6 DEF Keyed
<1>8. Mark(g, 4 * 0, new.acc, new.nbStripesSoFar)
  <2>1. g[0] = [acc |-> XXH3_INIT_ACC, at |-> 0] /\ 4 * 0 = 0
    BY DEF Walk
  <2> QED BY <1>5, <2>1 DEF Mark
<1>9. Caught(new.buffer, p, 0, new.bufferedSize)
  BY <1>5 DEF Caught, Holds
<1>10. 0 = 256 * 0 + new.bufferedSize /\ new.bufferedSize <= 256
  BY <1>5
<1>11. After3(new, p, 0, key, PB, g, 0)
  BY <1>5, <1>7, <1>8, <1>9, <1>10 DEF After3
<1> QED BY <1>2, <1>11

(* Up to 240 bytes are in the buffer, all of them.                         *)
LEMMA ShortInBuffer ==
  ASSUME NEW key, NEW PB, NEW D \in Nat, NEW p \in Word(D), NEW g, NEW F, NEW from \in Nat, from <= D, from <= 240,
         NEW st, After3(st, p, from, key, PB, g, F)
  PROVE  Bytes(st.buffer, 0, from) = Bytes(p, 0, from)
<1>1. PICK size \in Nat : size = st.bufferedSize
  BY DEF After3, States3
<1>2. F = 0 /\ size = from
  BY <1>1 DEF After3
<1>3. PICK buf \in Word(256) : buf = st.buffer /\ Holds(buf, from, p, 256 * F)
  BY <1>1, <1>2 DEF After3, States3, Caught
<1>4. PICK z \in Nat, w \in Nat : z = 0 /\ w = 256 /\ z + from <= from /\ z + from <= D /\ from <= w /\ z + z = z
  OBVIOUS
<1>5. buf \in Word(w) /\ Holds(buf, from, p, z)
  BY <1>2, <1>3, <1>4
<1>6. from <= w /\ z + from <= D /\ z + from <= from
  BY <1>4
<1>7. Bytes(buf, z, from) = Bytes(p, z + z, from)
  BY <1>5, <1>6, HeldBytes
<1> QED BY <1>3, <1>4, <1>7

\* The secret that a hash with this seed, or with this secret, works with
Key(sd, sec) == IF sec # NULL THEN sec ELSE IF sd = Zero(8) THEN XXH3_kSecret ELSE XXH3_initCustomSecret(sd)

Sized(q, n) == Len(q) = n

LEMMA LongInternal ==
  ASSUME NEW q, NEW n \in Nat, n > 240, Sized(q, n), NEW sd, NEW sec, NEW long
  PROVE  /\ XXH3_64bits_internal(q, sd, sec, long) = long
         /\ XXH3_128bits_internal(q, sd, sec, long) = long
<1>1. ~ (n <= 16) /\ ~ (n \in 17..128) /\ ~ (n \in 129..240)
  OBVIOUS
<1>2. XXH3_64bits_internal(q, sd, sec, long) = long
  BY <1>1 DEF Sized, XXH3_64bits_internal, XXH3_MIDSIZE_MAX
<1>3. XXH3_128bits_internal(q, sd, sec, long) = long
  BY <1>1 DEF Sized, XXH3_128bits_internal, XXH3_MIDSIZE_MAX
<1> QED BY <1>2, <1>3

LEMMA Digest3 ==
  ASSUME NEW sd, NEW sec, sec # NULL => sd = Zero(8),
         NEW L, NEW PB, Lasts(Key(sd, sec), L, PB), Blocks(L, PB), NEW D \in Nat, NEW p \in Word(D),
         NEW K \in Nat, D < 64 * K + 64, NEW g, Walk(g, K, p, Key(sd, sec), PB), NEW F, NEW from \in Nat, from <= D,
         NEW st, After3(st, p, from, Key(sd, sec), PB, g, F), st.seed = sd
  PROVE  /\ XXH3_64bits_digest(st) = IF sec = NULL THEN XXH3_64bits_withSeed(Bytes(p, 0, from), sd)
                                     ELSE XXH3_64bits_withSecret(Bytes(p, 0, from), sec)
         /\ XXH3_128bits_digest(st) = IF sec = NULL THEN XXH3_128bits_withSeed(Bytes(p, 0, from), sd)
                                      ELSE XXH3_128bits_withSecret(Bytes(p, 0, from), sec)
<1>1. PICK key : key = Key(sd, sec)
  OBVIOUS
<1>2. PICK q \in Word(from) : q = Bytes(p, 0, from) /\ Len(q) = from
  <2>1. PICK z \in Nat : z = 0 /\ z + from <= D
    OBVIOUS
  <2>2. Bytes(p, z, from) \in Word(from)
    BY <2>1, BytesWord
  <2> QED BY <2>1, <2>2, SomeWord
<1>3. st.totalLen = from /\ Secret(st) = key
  BY <1>1 DEF After3, Keyed
<1>4. CASE from > 240
  <2>1. XXH3_digest_long(st) = XXH3_hashLong_internal_loop(q, key)
    BY <1>1, <1>2, <1>4, LongHash
  <2>2. ~ (from <= 240) /\ ~ (from <= 16) /\ ~ (from \in 17..128) /\ ~ (from \in 129..240)
    BY <1>4
  <2>3. /\ XXH3_64bits_digest(st) = XXH3_hashLong_64b_internal(q, key)
        /\ XXH3_128bits_digest(st) = XXH3_hashLong_128b_internal(q, key)
    BY <1>2, <1>3, <1>4, <2>1, <2>2
       DEF XXH3_64bits_digest, XXH3_128bits_digest, XXH3_hashLong_64b_internal, XXH3_hashLong_128b_internal,
           XXH3_MIDSIZE_MAX
  <2>4. CASE sec = NULL
    <3>1. /\ XXH3_64bits_withSeed(q, sd) = XXH3_hashLong_64b_withSeed(q, sd)
          /\ XXH3_128bits_withSeed(q, sd) = XXH3_hashLong_128b_withSeed(q, sd)
      BY <1>2, <1>4, LongInternal DEF Sized, XXH3_64bits_withSeed, XXH3_128bits_withSeed
    <3>2. key = IF sd = Zero(8) THEN XXH3_kSecret ELSE XXH3_initCustomSecret(sd)
      BY <1>1, <2>4 DEF Key
    <3> QED BY <1>2, <2>3, <2>4, <3>1, <3>2 DEF XXH3_hashLong_64b_withSeed, XXH3_hashLong_128b_withSeed
  <2>5. CASE sec # NULL
    <3>1. /\ XXH3_64bits_withSecret(q, sec) = XXH3_hashLong_64b_internal(q, sec)
          /\ XXH3_128bits_withSecret(q, sec) = XXH3_hashLong_128b_internal(q, sec)
      BY <1>2, <1>4, LongInternal DEF Sized, XXH3_64bits_withSecret, XXH3_128bits_withSecret
    <3>2. key = sec
      BY <1>1, <2>5 DEF Key
    <3> QED BY <1>2, <2>3, <2>5, <3>1, <3>2
  <2> QED BY <2>4, <2>5
<1>5. CASE from <= 240
  <2>1. Bytes(st.buffer, 0, from) = q
    BY <1>2, <1>5, ShortInBuffer
  <2>2. ~ (from > 240)
    BY <1>5
  <2>3. CASE sd # Zero(8)
    BY <1>2, <1>3, <1>5, <2>1, <2>2, <2>3 DEF XXH3_64bits_digest, XXH3_128bits_digest, XXH3_MIDSIZE_MAX
  <2>4. CASE sd = Zero(8)
    <3>1. /\ XXH3_64bits_digest(st) = XXH3_64bits_withSecret(q, key)
          /\ XXH3_128bits_digest(st) = XXH3_128bits_withSecret(q, key)
      BY <1>3, <1>5, <2>1, <2>2, <2>4 DEF XXH3_64bits_digest, XXH3_128bits_digest, XXH3_MIDSIZE_MAX
    <3>2. CASE sec # NULL
      <4>1. key = sec
        BY <1>1, <3>2 DEF Key
      <4> QED BY <1>2, <3>1, <3>2, <4>1
    <3>3. CASE sec = NULL
      <4>1. key = XXH3_kSecret
        BY <1>1, <2>4, <3>3 DEF Key
      <4>2. /\ XXH3_64bits_withSecret(q, XXH3_kSecret) = XXH3_64bits_withSeed(q, Zero(8))
            /\ XXH3_128bits_withSecret(q, XXH3_kSecret) = XXH3_128bits_withSeed(q, Zero(8))
        BY DEF XXH3_64bits_withSecret, XXH3_64bits_withSeed, XXH3_128bits_withSecret, XXH3_128bits_withSeed,
               XXH3_hashLong_64b_withSeed, XXH3_hashLong_128b_withSeed
      <4> QED BY <1>2, <2>4, <3>1, <3>3, <4>1, <4>2
    <3> QED BY <3>2, <3>3
  <2> QED BY <2>3, <2>4
<1> QED BY <1>4, <1>5

-----------------------------------------------------------------------------
(***************************************************************************)
(* The calls                                                               *)
(***************************************************************************)
LEMMA DataWord == Len(Data) \in Nat /\ Data \in Word(Len(Data))
BY StreamAssumption, SomeBytes

LEMMA SeedWord ==
  ASSUME NEW s \in Seeds
  PROVE  s \in Word(8) /\ Low(s) \in Word(4)
<1>1. s \in Seq(Byte) /\ Len(s) = 8
  BY StreamAssumption
<1>2. s \in Word(8)
  BY <1>1, SomeBytes
<1> QED BY <1>2, HalvesOfWord

LEMMA ZeroSeed == Zero(8) \in Word(8) /\ Low(Zero(8)) \in Word(4)
<1>1. PICK n \in Nat : n = 8
  OBVIOUS
<1>2. Zero(8) \in Word(8)
  BY <1>1, ZeroWord
<1> QED BY <1>2, HalvesOfWord

\* The secret that was made from a seed belongs to the seed that is kept.
Prepared(st) ==
  st \in States3 /\ (st.seed = Zero(8) \/ st.customSecret = XXH3_initCustomSecret(st.seed))

\* A state after `from' bytes since it was reset with this seed or secret
Reached(st, from, sd, sec) ==
  \E L, PB, g, F : /\ Lasts(Key(sd, sec), L, PB) /\ Blocks(L, PB)
                   /\ Walk(g, Len(Data) \div 64, Data, Key(sd, sec), PB)
                   /\ After3(st, Data, from, Key(sd, sec), PB, g, F)

\* A reset that succeeded leaves this.
Fresh(st, sd, sec) ==
  /\ Prepared(st) /\ Reached(st, 0, sd, sec)
  /\ st.seed = sd /\ (st.extSecret = NULL <=> (sec = NULL /\ sd # Zero(8)))

LEMMA ResetReaches ==
  ASSUME NEW st \in States3, NEW sd \in Word(8), NEW ext \in {NULL} \cup Seq(Byte) \cup ShortSecrets, NEW sec,
         NEW L \in Nat, L >= 136, Key(sd, sec) \in Word(L),
         Key(sd, sec) = IF ext = NULL THEN st.customSecret ELSE ext
  PROVE  Reached(XXH3_reset_internal(st, sd, ext, L), 0, sd, sec)
<1>1. PICK key \in Word(L) : key = Key(sd, sec)
  OBVIOUS
<1>2. PICK PB : Lasts(key, L, PB) /\ Blocks(L, PB)
  BY SecretBlocks
<1>3. PICK D \in Nat, K \in Nat : D = Len(Data) /\ K = Len(Data) \div 64 /\ 64 * K <= D
  BY DataWord
<1>4. Data \in Word(D)
  BY <1>3, DataWord
<1>5. 64 * K <= D
  BY <1>3
<1>6. PICK g : Walk(g, K, Data, key, PB)
  BY <1>2, <1>4, <1>5, WalkExists
<1>7. key = IF ext = NULL THEN st.customSecret ELSE ext
  BY <1>1
<1>8. After3(XXH3_reset_internal(st, sd, ext, L), Data, 0, key, PB, g, 0)
  BY <1>2, <1>6, <1>7, Reset3
<1> QED BY <1>1, <1>2, <1>3, <1>6, <1>8 DEF Reached

LEMMA DefaultReset ==
  ASSUME NEW st, Prepared(st)
  PROVE  Fresh(XXH3_64bits_reset(st), Zero(8), NULL)
<1>1. st \in States3
  BY DEF Prepared
<1>2. PICK z \in Word(8) : z = Zero(8)
  BY ZeroSeed
<1>3. PICK L \in Nat : L = 192 /\ L >= 136 /\ L >= 64
  OBVIOUS
<1>4. XXH3_kSecret \in Word(L) /\ XXH3_kSecret \in Seq(Byte)
  BY <1>3, DefaultSecretWord, SomeWord
<1>5. XXH3_kSecret # NULL
  BY <1>4, NullAssumption
<1>6. Key(z, NULL) = XXH3_kSecret
  BY <1>2 DEF Key
<1>7. PICK new : new = XXH3_reset_internal(st, z, XXH3_kSecret, L)
  OBVIOUS
<1>8. Reached(new, 0, z, NULL)
  <2>1. L >= 136
    BY <1>3
  <2>2. Key(z, NULL) = IF XXH3_kSecret = NULL THEN st.customSecret ELSE XXH3_kSecret
    BY <1>5, <1>6
  <2>3. Key(z, NULL) \in Word(L)
    BY <1>4, <1>6
  <2>4. XXH3_kSecret \in {NULL} \cup Seq(Byte) \cup ShortSecrets
    BY <1>4
  <2> QED BY <1>1, <1>7, <2>1, <2>2, <2>3, <2>4, ResetReaches
<1>9. new \in States3 /\ new.seed = z /\ new.extSecret = XXH3_kSecret
  <2>1. XXH3_kSecret \in {NULL} \cup Seq(Byte) \cup ShortSecrets /\ L >= 64
    BY <1>3, <1>4
  <2> QED BY <1>1, <1>7, <2>1, ResetInternal
<1>10. new = XXH3_64bits_reset(st)
  BY <1>2, <1>3, <1>7 DEF XXH3_64bits_reset, XXH_SECRET_DEFAULT_SIZE
<1> QED BY <1>2, <1>5, <1>8, <1>9, <1>10 DEF Fresh, Prepared

LEMMA SeedReset ==
  ASSUME NEW st, Prepared(st), NEW sd \in Word(8)
  PROVE  Fresh(XXH3_64bits_reset_withSeed(st, sd), sd, NULL)
<1>1. CASE sd = Zero(8)
  BY <1>1, DefaultReset DEF XXH3_64bits_reset_withSeed
<1>2. CASE sd # Zero(8)
  <2>1. PICK key \in Word(192) : key = XXH3_initCustomSecret(sd) /\ key \in Seq(Byte)
    <3>1. XXH3_initCustomSecret(sd) \in Word(192)
      BY BuildMakesSecret
    <3>2. PICK n \in Nat : n = 192
      OBVIOUS
    <3>3. XXH3_initCustomSecret(sd) \in Seq(Byte)
      BY <3>1, <3>2, SomeWord
    <3> QED BY <3>1, <3>3
  <2>2. PICK made : made = IF sd = st.seed THEN st ELSE [st EXCEPT !.customSecret = XXH3_initCustomSecret(sd)]
    OBVIOUS
  <2>3. made \in States3 /\ made.customSecret = key
    <3>1. CASE sd = st.seed
      BY <1>2, <2>1, <2>2, <3>1 DEF Prepared
    <3>2. CASE sd # st.seed
      <4>1. made = [st EXCEPT !.customSecret = key] /\ st \in States3
        BY <2>1, <2>2, <3>2 DEF Prepared
      <4>2. made \in States3
        BY <2>1, <4>1, ChangedState, Zenon
      <4> QED BY <4>1, <4>2 DEF States3
    <3> QED BY <3>1, <3>2
  <2>4. PICK L \in Nat : L = 192 /\ L >= 136 /\ L >= 64
    OBVIOUS
  <2>5. PICK new : new = XXH3_reset_internal(made, sd, NULL, L)
    OBVIOUS
  <2>6. Key(sd, NULL) = key
    BY <1>2, <2>1 DEF Key
  <2>7. Reached(new, 0, sd, NULL)
    <3>1. L >= 136
      BY <2>4
    <3>2. Key(sd, NULL) = IF NULL = NULL THEN made.customSecret ELSE NULL
      BY <2>3, <2>6
    <3>3. Key(sd, NULL) \in Word(L)
      BY <2>4, <2>6
    <3>4. NULL \in {NULL} \cup Seq(Byte) \cup ShortSecrets /\ made \in States3
      BY <2>3
    <3> QED BY <2>5, <3>1, <3>2, <3>3, <3>4, ResetReaches
  <2>8. new \in States3 /\ new.seed = sd /\ new.extSecret = NULL /\ new.customSecret = key
    <3>1. NULL \in {NULL} \cup Seq(Byte) \cup ShortSecrets /\ L >= 64
      BY <2>4
    <3> QED BY <2>3, <2>5, <3>1, ResetInternal
  <2>9. new = XXH3_64bits_reset_withSeed(st, sd)
    BY <1>2, <2>2, <2>4, <2>5 DEF XXH3_64bits_reset_withSeed, XXH_SECRET_DEFAULT_SIZE
  <2> QED BY <1>2, <2>1, <2>7, <2>8, <2>9 DEF Fresh, Prepared
<1> QED BY <1>1, <1>2

LEMMA SecretReset ==
  ASSUME NEW st, Prepared(st), NEW sec \in Secrets
  PROVE  Fresh(XXH3_64bits_reset_withSecret(st, sec), Zero(8), sec)
<1>1. st \in States3
  BY DEF Prepared
<1>2. PICK z \in Word(8) : z = Zero(8)
  BY ZeroSeed
<1>3. sec \in Seq(Byte) /\ Len(sec) >= 136
  BY StreamAssumption DEF XXH3_SECRET_SIZE_MIN
<1>4. PICK L \in Nat : L = Len(sec) /\ L >= 136 /\ L >= 64
  BY <1>3
<1>5. sec \in Word(L) /\ sec # NULL
  BY <1>3, <1>4, SomeBytes, NullAssumption
<1>6. Key(z, sec) = sec
  BY <1>5 DEF Key
<1>7. PICK new : new = XXH3_reset_internal(st, z, sec, L)
  OBVIOUS
<1>8. Reached(new, 0, z, sec)
  <2>1. L >= 136
    BY <1>4
  <2>2. Key(z, sec) = IF sec = NULL THEN st.customSecret ELSE sec
    BY <1>5, <1>6
  <2>3. Key(z, sec) \in Word(L)
    BY <1>5, <1>6
  <2>4. sec \in {NULL} \cup Seq(Byte) \cup ShortSecrets
    BY <1>3
  <2> QED BY <1>1, <1>7, <2>1, <2>2, <2>3, <2>4, ResetReaches
<1>9. new \in States3 /\ new.seed = z /\ new.extSecret = sec
  <2>1. sec \in {NULL} \cup Seq(Byte) \cup ShortSecrets /\ L >= 64
    BY <1>3, <1>4
  <2> QED BY <1>1, <1>7, <2>1, ResetInternal
<1>10. new = XXH3_64bits_reset_withSecret(st, sec)
  BY <1>2, <1>4, <1>7 DEF XXH3_64bits_reset_withSecret
<1> QED BY <1>2, <1>5, <1>8, <1>9, <1>10 DEF Fresh, Prepared

LEMMA RefusedReset ==
  ASSUME NEW st, Prepared(st), NEW sec \in ShortSecrets
  PROVE  Prepared(XXH3_64bits_reset_withSecret(st, sec))
<1>1. st \in States3
  BY DEF Prepared
<1>2. PICK z \in Word(8) : z = Zero(8)
  BY ZeroSeed
<1>3. PICK L \in Nat : L = Len(sec) /\ L >= 64
  <2>1. Len(sec) \in XXH_STRIPE_LEN..(XXH3_SECRET_SIZE_MIN - 1)
    BY StreamAssumption
  <2>2. Len(sec) \in 64..(136 - 1)
    BY <2>1 DEF XXH_STRIPE_LEN, XXH3_SECRET_SIZE_MIN
  <2>3. \A x \in 64..(136 - 1) : x \in Nat /\ x >= 64
    OBVIOUS
  <2> QED BY <2>2, <2>3, Zenon
<1>4. PICK new : new = XXH3_reset_internal(st, z, sec, L)
  OBVIOUS
<1>5. new \in States3 /\ new.seed = z
  <2>1. sec \in {NULL} \cup Seq(Byte) \cup ShortSecrets /\ L >= 64
    BY <1>3
  <2> QED BY <1>1, <1>4, <2>1, ResetInternal
<1>6. new = XXH3_64bits_reset_withSecret(st, sec)
  BY <1>2, <1>3, <1>4 DEF XXH3_64bits_reset_withSecret
<1> QED BY <1>2, <1>5, <1>6 DEF Prepared

LEMMA UpdateReaches ==
  ASSUME NEW st, NEW from \in Nat, NEW sd, NEW sec, Reached(st, from, sd, sec), NEW n \in Nat, from + n <= Len(Data)
  PROVE  /\ Reached(XXH3_update(st, Bytes(Data, from, n)), from + n, sd, sec)
         /\ SameKeys(st, XXH3_update(st, Bytes(Data, from, n)))
         /\ XXH3_update(st, Bytes(Data, from, n)) \in States3
<1>1. PICK L, PB, g, F : /\ Lasts(Key(sd, sec), L, PB) /\ Blocks(L, PB)
                         /\ Walk(g, Len(Data) \div 64, Data, Key(sd, sec), PB)
                         /\ After3(st, Data, from, Key(sd, sec), PB, g, F)
  BY DEF Reached
<1>2. PICK D \in Nat, K \in Nat : D = Len(Data) /\ K = Len(Data) \div 64 /\ D < 64 * K + 64
  BY DataWord
<1>3. Data \in Word(D) /\ D < 64 * K + 64 /\ from + n <= D
  BY <1>2, DataWord
<1>4. PICK key : key = Key(sd, sec)
  OBVIOUS
<1>5. Lasts(key, L, PB) /\ Walk(g, K, Data, key, PB) /\ After3(st, Data, from, key, PB, g, F)
  BY <1>1, <1>2, <1>4
<1>6. PICK new : new = XXH3_update(st, Bytes(Data, from, n))
  OBVIOUS
<1>7. (\E G : After3(new, Data, from + n, key, PB, g, G)) /\ SameKeys(st, new)
  BY <1>3, <1>5, <1>6, Update3
<1>8. PICK G : After3(new, Data, from + n, key, PB, g, G)
  BY <1>7
<1>9. Reached(new, from + n, sd, sec)
  BY <1>1, <1>4, <1>8 DEF Reached
<1>10. new \in States3
  BY <1>8 DEF After3
<1> QED BY <1>6, <1>7, <1>9, <1>10

LEMMA CreatedState == Prepared(XXH3_createState(Junk))
<1>1. Junk \in Seq(Byte) /\ Len(Junk) \in Nat /\ Junk \in Word(Len(Junk))
  BY StreamAssumption, SomeBytes
<1>2. PICK w \in Nat : w = 256
  OBVIOUS
<1>3. Extend(Junk, w) \in Word(w)
  BY <1>1, ExtendWord
<1>4. PICK buf \in Word(256) : buf = Extend(Junk, 256)
  BY <1>2, <1>3
<1>5. PICK z \in Word(8) : z = Zero(8)
  BY ZeroSeed
<1>6. PICK st : st = XXH3_createState(Junk)
  OBVIOUS
<1>7. st = [acc |-> XXH3_INIT_ACC, customSecret |-> Junk, buffer |-> buf, bufferedSize |-> 0, nbStripesSoFar |-> 0,
            totalLen |-> 0, nbStripesPerBlock |-> 0, secretLimit |-> 0, seed |-> z, extSecret |-> NULL]
  BY <1>4, <1>5, <1>6 DEF XXH3_createState, XXH3_INTERNALBUFFER_SIZE
<1>8. st \in States3
  BY <1>1, <1>7, InitAcc DEF States3
<1>9. st.seed = z
  BY <1>7
<1> QED BY <1>5, <1>6, <1>8, <1>9 DEF Prepared

-----------------------------------------------------------------------------
(***************************************************************************)
(* Theorems                                                                *)
(***************************************************************************)
\* The caller remembers its last reset correctly.
TypeInv ==
  /\ hash \in Hashes /\ usable \in BOOLEAN /\ fed \in Nat /\ fed <= Len(Data)
  /\ seed \in Word(8) /\ (secret # NULL => secret \in Secrets /\ seed = Zero(8))

(* What the states hold is what fits the bytes fed and the last reset.      *)
Inv32 == Hashing("XXH32") => After32(state, Data, fed, Low(seed))
Inv64 == Hashing("XXH64") => After64(state, Data, fed, seed)
Inv3 ==
  hash = "XXH3" =>
    /\ Prepared(state)
    /\ usable => /\ Reached(state, fed, seed, secret) /\ state.seed = seed
                 /\ (state.extSecret = NULL <=> (secret = NULL /\ seed # Zero(8)))

(* What the caller keeps of its last reset is of the right kind, and no     *)
(* more is fed than there is (Reset, ResetWithSecret, Update).              *)
LEMMA Typed == Spec => []TypeInv
<1>1. Init => TypeInv
  <2>1. 0 \in Nat /\ 0 <= Len(Data)
    BY DataWord
  <2> QED BY <2>1, ZeroSeed DEF Init, TypeInv
<1>2. TypeInv /\ [Next]_vars => TypeInv'
  <2> SUFFICES ASSUME TypeInv, [Next]_vars PROVE TypeInv'
    OBVIOUS
  <2>1. ASSUME NEW s \in Seeds, Reset(s) PROVE TypeInv'
    <3>1. 0 \in Nat /\ 0 <= Len(Data)
      BY DataWord
    <3> QED BY <2>1, <3>1, SeedWord DEF TypeInv, Reset, Call
  <2>2. ASSUME NEW s \in Secrets, ResetWithSecret(s) PROVE TypeInv'
    <3>1. 0 \in Nat /\ 0 <= Len(Data)
      BY DataWord
    <3> QED BY <2>2, <3>1, ZeroSeed DEF TypeInv, ResetWithSecret, Call
  <2>3. ASSUME NEW s \in ShortSecrets, ResetRefused(s) PROVE TypeInv'
    <3>1. 0 \in Nat /\ 0 <= Len(Data)
      BY DataWord
    <3> QED BY <2>3, <3>1 DEF TypeInv, ResetRefused, Call
  <2>4. ASSUME NEW n \in Pieces[hash], Update(n) PROVE TypeInv'
    <3>1. n \in Nat
      BY StreamAssumption DEF TypeInv
    <3>2. fed + n \in Nat /\ fed + n <= Len(Data)
      BY <2>4, <3>1 DEF TypeInv, Update
    <3> QED BY <2>4, <3>2 DEF TypeInv, Update, Call
  <2>5. CASE UNCHANGED vars
    BY <2>5 DEF TypeInv, vars
  <2> QED BY <2>1, <2>2, <2>3, <2>4, <2>5 DEF Next
<1> QED BY <1>1, <1>2, PTL DEF Spec

LEMMA PieceLength ==
  ASSUME TypeInv, NEW n \in Pieces[hash]
  PROVE  n \in Nat
BY StreamAssumption DEF TypeInv

(* The 32-bit hash is fed what it is to be the hash of.                     *)
LEMMA Kept32 == Spec => []Inv32
<1>1. Init => Inv32
  BY DEF Init, Inv32, Hashing
<1>2. TypeInv /\ Inv32 /\ [Next]_vars => Inv32'
  <2> SUFFICES ASSUME TypeInv, Inv32, [Next]_vars PROVE Inv32'
    OBVIOUS
  <2>1. ASSUME NEW s \in Seeds, Reset(s) PROVE Inv32'
    <3>1. After32(XXH32_reset(Low(s)), Data, 0, Low(s))
      BY SeedWord, DataWord, Reset32
    <3> SUFFICES ASSUME hash' = "XXH32" PROVE After32(state', Data, fed', Low(seed'))
      BY DEF Inv32, Hashing
    <3>2. hash = "XXH32"
      BY <2>1 DEF Reset, Call
    <3>3. state' = XXH32_reset(Low(s)) /\ fed' = 0 /\ seed' = s
      BY <2>1, <3>2 DEF Reset
    <3> QED BY <3>1, <3>3
  <2>2. ASSUME NEW s \in Secrets, ResetWithSecret(s) PROVE Inv32'
    BY <2>2 DEF ResetWithSecret, Call, Inv32, Hashing
  <2>3. ASSUME NEW s \in ShortSecrets, ResetRefused(s) PROVE Inv32'
    BY <2>3 DEF ResetRefused, Call, Inv32, Hashing
  <2>4. ASSUME NEW n \in Pieces[hash], Update(n) PROVE Inv32'
    <3> SUFFICES ASSUME hash' = "XXH32" PROVE After32(state', Data, fed', Low(seed'))
      BY DEF Inv32, Hashing
    <3>1. hash = "XXH32" /\ usable
      BY <2>4 DEF Update, Call
    <3>2. After32(state, Data, fed, Low(seed))
      BY <3>1 DEF Inv32, Hashing
    <3>3. n \in Nat /\ fed \in Nat /\ fed + n <= Len(Data)
      BY <2>4, PieceLength DEF Update, TypeInv
    <3>4. Low(seed) \in Word(4)
      BY HalvesOfWord DEF TypeInv
    <3>5. After32(XXH32_update(state, Bytes(Data, fed, n)), Data, fed + n, Low(seed))
      BY <3>2, <3>3, <3>4, DataWord, Update32
    <3>6. state' = XXH32_update(state, Bytes(Data, fed, n)) /\ fed' = fed + n /\ seed' = seed
      BY <2>4, <3>1 DEF Update
    <3> QED BY <3>5, <3>6
  <2>5. CASE UNCHANGED vars
    BY <2>5 DEF Inv32, Hashing, vars
  <2> QED BY <2>1, <2>2, <2>3, <2>4, <2>5 DEF Next
<1> QED BY <1>1, <1>2, Typed, PTL DEF Spec

(* And so is the 64-bit hash.                                               *)
LEMMA Kept64 == Spec => []Inv64
<1>1. Init => Inv64
  BY DEF Init, Inv64, Hashing
<1>2. TypeInv /\ Inv64 /\ [Next]_vars => Inv64'
  <2> SUFFICES ASSUME TypeInv, Inv64, [Next]_vars PROVE Inv64'
    OBVIOUS
  <2>1. ASSUME NEW s \in Seeds, Reset(s) PROVE Inv64'
    <3>1. After64(XXH64_reset(s), Data, 0, s)
      BY SeedWord, DataWord, Reset64
    <3> SUFFICES ASSUME hash' = "XXH64" PROVE After64(state', Data, fed', seed')
      BY DEF Inv64, Hashing
    <3>2. hash = "XXH64"
      BY <2>1 DEF Reset, Call
    <3>3. state' = XXH64_reset(s) /\ fed' = 0 /\ seed' = s
      BY <2>1, <3>2 DEF Reset
    <3> QED BY <3>1, <3>3
  <2>2. ASSUME NEW s \in Secrets, ResetWithSecret(s) PROVE Inv64'
    BY <2>2 DEF ResetWithSecret, Call, Inv64, Hashing
  <2>3. ASSUME NEW s \in ShortSecrets, ResetRefused(s) PROVE Inv64'
    BY <2>3 DEF ResetRefused, Call, Inv64, Hashing
  <2>4. ASSUME NEW n \in Pieces[hash], Update(n) PROVE Inv64'
    <3> SUFFICES ASSUME hash' = "XXH64" PROVE After64(state', Data, fed', seed')
      BY DEF Inv64, Hashing
    <3>1. hash = "XXH64" /\ usable
      BY <2>4 DEF Update, Call
    <3>2. After64(state, Data, fed, seed)
      BY <3>1 DEF Inv64, Hashing
    <3>3. n \in Nat /\ fed \in Nat /\ fed + n <= Len(Data) /\ seed \in Word(8)
      BY <2>4, PieceLength DEF Update, TypeInv
    <3>5. After64(XXH64_update(state, Bytes(Data, fed, n)), Data, fed + n, seed)
      BY <3>2, <3>3, DataWord, Update64
    <3>6. state' = XXH64_update(state, Bytes(Data, fed, n)) /\ fed' = fed + n /\ seed' = seed
      BY <2>4, <3>1 DEF Update
    <3> QED BY <3>5, <3>6
  <2>5. CASE UNCHANGED vars
    BY <2>5 DEF Inv64, Hashing, vars
  <2> QED BY <2>1, <2>2, <2>3, <2>4, <2>5 DEF Next
<1> QED BY <1>1, <1>2, Typed, PTL DEF Spec

(* An XXH3 state is the one after what was fed since the last reset, and a  *)
(* secret that it keeps is made from the seed that it keeps.                *)
LEMMA Kept3 == Spec => []Inv3
<1>1. Init => Inv3
  BY CreatedState DEF Init, Inv3
<1>2. TypeInv /\ Inv3 /\ [Next]_vars => Inv3'
  <2> SUFFICES ASSUME TypeInv, Inv3, [Next]_vars PROVE Inv3'
    OBVIOUS
  <2>1. ASSUME NEW s \in Seeds, Reset(s) PROVE Inv3'
    <3> SUFFICES ASSUME hash' = "XXH3" PROVE Inv3'
      BY DEF Inv3
    <3>1. hash = "XXH3"
      BY <2>1 DEF Reset, Call
    <3>2. state' = XXH3_64bits_reset_withSeed(state, s) /\ fed' = 0 /\ seed' = s /\ secret' = NULL
      BY <2>1, <3>1 DEF Reset
    <3>3. Prepared(state)
      BY <3>1 DEF Inv3
    <3>4. Fresh(state', s, NULL)
      BY <3>2, <3>3, SeedWord, SeedReset
    <3> QED BY <3>2, <3>4 DEF Fresh, Inv3
  <2>2. ASSUME NEW s \in Secrets, ResetWithSecret(s) PROVE Inv3'
    <3>1. /\ hash = "XXH3" /\ state' = XXH3_64bits_reset_withSecret(state, s) /\ fed' = 0
          /\ seed' = Zero(8) /\ secret' = s
      BY <2>2 DEF ResetWithSecret
    <3>2. Prepared(state)
      BY <3>1 DEF Inv3
    <3>3. Fresh(state', Zero(8), s)
      BY <3>1, <3>2, SecretReset
    <3> QED BY <3>1, <3>3 DEF Fresh, Inv3
  <2>3. ASSUME NEW s \in ShortSecrets, ResetRefused(s) PROVE Inv3'
    <3>1. hash = "XXH3" /\ state' = XXH3_64bits_reset_withSecret(state, s) /\ usable' = FALSE
      BY <2>3 DEF ResetRefused
    <3>2. Prepared(state)
      BY <3>1 DEF Inv3
    <3>3. Prepared(state')
      BY <3>1, <3>2, RefusedReset
    <3> QED BY <3>1, <3>3 DEF Inv3
  <2>4. ASSUME NEW n \in Pieces[hash], Update(n) PROVE Inv3'
    <3> SUFFICES ASSUME hash' = "XXH3" PROVE Inv3'
      BY DEF Inv3
    <3>1. hash = "XXH3" /\ usable
      BY <2>4 DEF Update, Call
    <3>2. /\ Prepared(state) /\ Reached(state, fed, seed, secret) /\ state.seed = seed
          /\ (state.extSecret = NULL <=> (secret = NULL /\ seed # Zero(8)))
      BY <3>1 DEF Inv3
    <3>3. n \in Nat /\ fed \in Nat /\ fed + n <= Len(Data)
      BY <2>4, PieceLength DEF Update, TypeInv
    <3>4. /\ state' = XXH3_update(state, Bytes(Data, fed, n)) /\ fed' = fed + n
          /\ seed' = seed /\ secret' = secret
      BY <2>4, <3>1 DEF Update
    <3>5. Reached(state', fed + n, seed, secret) /\ SameKeys(state, state') /\ state' \in States3
      BY <3>2, <3>3, <3>4, UpdateReaches
    <3>6. Prepared(state')
      BY <3>2, <3>5 DEF Prepared, SameKeys
    <3>7. state'.seed = seed /\ state'.extSecret = state.extSecret
      BY <3>2, <3>5 DEF SameKeys
    <3> QED BY <3>2, <3>4, <3>5, <3>6, <3>7 DEF Inv3
  <2>5. CASE UNCHANGED vars
    BY <2>5 DEF Inv3, vars
  <2> QED BY <2>1, <2>2, <2>3, <2>4, <2>5 DEF Next
<1> QED BY <1>1, <1>2, Typed, PTL DEF Spec

(* However it is cut into pieces, an input has the 32-bit hash that it has  *)
(* as a whole, at every point at which it may be asked for.                 *)
THEOREM Streams32 == Spec => []Streamed32
<1>1. TypeInv /\ Inv32 => Streamed32
  <2> SUFFICES ASSUME TypeInv, Inv32, Hashing("XXH32") PROVE XXH32_digest(state) = XXH32(Fed, Low(seed))
    BY DEF Streamed32
  <2>1. After32(state, Data, fed, Low(seed))
    BY DEF Inv32
  <2>2. Low(seed) \in Word(4)
    BY HalvesOfWord DEF TypeInv
  <2>3. fed \in Nat /\ fed <= Len(Data)
    BY DEF TypeInv
  <2> QED BY <2>1, <2>2, <2>3, DataWord, Digest32 DEF Fed
<1> QED BY <1>1, Typed, Kept32, PTL

(* The same of the 64-bit hash                                              *)
THEOREM Streams64 == Spec => []Streamed64
<1>1. TypeInv /\ Inv64 => Streamed64
  <2> SUFFICES ASSUME TypeInv, Inv64, Hashing("XXH64") PROVE XXH64_digest(state) = XXH64(Fed, seed)
    BY DEF Streamed64
  <2>1. After64(state, Data, fed, seed)
    BY DEF Inv64
  <2>2. seed \in Word(8) /\ fed \in Nat /\ fed <= Len(Data)
    BY DEF TypeInv
  <2> QED BY <2>1, <2>2, DataWord, Digest64 DEF Fed
<1> QED BY <1>1, Typed, Kept64, PTL

(* The same of both lengths of XXH3, with any seed or secret, whatever the  *)
(* state object was used for before                                         *)
THEOREM Streams3 == Spec => []Streamed3
<1>1. TypeInv /\ Inv3 => Streamed3
  <2> SUFFICES ASSUME TypeInv, Inv3, Hashing("XXH3")
               PROVE  XXH3_64bits_digest(state) = OneShot64 /\ XXH3_128bits_digest(state) = OneShot128
    BY DEF Streamed3
  <2>1. Reached(state, fed, seed, secret) /\ state.seed = seed
    BY DEF Inv3, Hashing
  <2>2. PICK L, PB, g, F : /\ Lasts(Key(seed, secret), L, PB) /\ Blocks(L, PB)
                           /\ Walk(g, Len(Data) \div 64, Data, Key(seed, secret), PB)
                           /\ After3(state, Data, fed, Key(seed, secret), PB, g, F)
    BY <2>1 DEF Reached
  <2>3. PICK D \in Nat, K \in Nat : D = Len(Data) /\ K = Len(Data) \div 64 /\ D < 64 * K + 64
    BY DataWord
  <2>4. Data \in Word(D) /\ D < 64 * K + 64
    BY <2>3, DataWord
  <2>5. fed \in Nat /\ fed <= D /\ (secret # NULL => seed = Zero(8))
    BY <2>3 DEF TypeInv
  <2>6. Walk(g, K, Data, Key(seed, secret), PB)
    BY <2>2, <2>3
  <2>7. XXH3_64bits_digest(state) = IF secret = NULL THEN XXH3_64bits_withSeed(Bytes(Data, 0, fed), seed)
                                    ELSE XXH3_64bits_withSecret(Bytes(Data, 0, fed), secret)
    BY <2>1, <2>2, <2>4, <2>5, <2>6, Digest3
  <2>8. XXH3_128bits_digest(state) = IF secret = NULL THEN XXH3_128bits_withSeed(Bytes(Data, 0, fed), seed)
                                     ELSE XXH3_128bits_withSecret(Bytes(Data, 0, fed), secret)
    BY <2>1, <2>2, <2>4, <2>5, <2>6, Digest3
  <2> QED BY <2>7, <2>8 DEF OneShot64, OneShot128, Fed
<1> QED BY <1>1, Typed, Kept3, PTL

(* A secret that was made from a seed is used with that seed only.          *)
THEOREM KeepsSecretOfSeed == Spec => []SecretOfSeed
<1>1. TypeInv /\ Inv3 => SecretOfSeed
  BY BuildMakesSecret DEF TypeInv, Inv3, SecretOfSeed, Hashing, Prepared
<1> QED BY <1>1, Typed, Kept3, PTL

LEMMA Scalars ==
  ASSUME NEW acc \in Accs, NEW input \in Stripe, NEW key \in Stripe, NEW sd \in Word(8)
  PROVE  /\ XXH3_accumulate_512_sse2(acc, input, key) = XXH3_accumulate_512_scalar(acc, input, key)
         /\ XXH3_accumulate_512_avx2(acc, input, key) = XXH3_accumulate_512_scalar(acc, input, key)
         /\ XXH3_accumulate_512_avx512(acc, input, key) = XXH3_accumulate_512_scalar(acc, input, key)
         /\ XXH3_scrambleAcc_sse2(acc, key) = XXH3_scrambleAcc_scalar(acc, key)
         /\ XXH3_scrambleAcc_avx2(acc, key) = XXH3_scrambleAcc_scalar(acc, key)
         /\ XXH3_scrambleAcc_avx512(acc, key) = XXH3_scrambleAcc_scalar(acc, key)
<1>1. PICK a \in Elements, b \in Elements, c \in Elements : a = 2 /\ b = 4 /\ c = 8
  BY DEF Elements
<1>2. 8 * a = 16 /\ 8 * b = 32 /\ 8 * c = 64
  BY <1>1
<1>3. /\ X86Accumulate(acc, input, key, 8 * a) = XXH3_accumulate_512_scalar(acc, input, key)
      /\ X86Accumulate(acc, input, key, 8 * b) = XXH3_accumulate_512_scalar(acc, input, key)
      /\ X86Accumulate(acc, input, key, 8 * c) = XXH3_accumulate_512_scalar(acc, input, key)
  BY X86Accumulates
<1>4. /\ X86Scramble(acc, key, 8 * a) = XXH3_scrambleAcc_scalar(acc, key)
      /\ X86Scramble(acc, key, 8 * b) = XXH3_scrambleAcc_scalar(acc, key)
      /\ X86Scramble(acc, key, 8 * c) = XXH3_scrambleAcc_scalar(acc, key)
  BY X86Scrambles
<1> QED BY <1>2, <1>3, <1>4
        DEF XXH3_accumulate_512_sse2, XXH3_accumulate_512_avx2, XXH3_accumulate_512_avx512,
            XXH3_scrambleAcc_sse2, XXH3_scrambleAcc_avx2, XXH3_scrambleAcc_avx512

(* Whatever instruction set a program is built for, it hashes the same.     *)
THEOREM LanesAgreeAlways == Spec => []LanesAgree
<1>1. TypeInv /\ Inv3 => LanesAgree
  <2> SUFFICES ASSUME TypeInv, Inv3, Hashing("XXH3") PROVE LanesAgree
    BY DEF LanesAgree
  <2>1. state \in States3 /\ Reached(state, fed, seed, secret)
    BY DEF Inv3, Hashing, Prepared
  <2>2. PICK acc \in Accs : acc = state.acc
    BY <2>1 DEF States3
  <2>3. PICK input \in Stripe : input = Extend(SubSeq(Data, fed + 1, Len(Data)), XXH_STRIPE_LEN)
    <3>1. PICK D \in Nat, r \in Nat, w \in Nat : D = Len(Data) /\ r = D - fed /\ w = 64 /\ fed \in Nat /\ fed <= D /\ fed + r <= D
      BY DataWord DEF TypeInv
    <3>2. Data \in Word(D) /\ fed \in Nat /\ fed <= D /\ fed + r <= D
      BY <3>1, DataWord
    <3>3. SubSeq(Data, fed + 1, Len(Data)) = Bytes(Data, fed, D - fed)
      BY <3>2, RestIsBytes
    <3>4. Bytes(Data, fed, r) \in Word(r)
      BY <3>2, BytesWord
    <3>5. PICK rest \in Word(r) : rest = SubSeq(Data, fed + 1, Len(Data))
      BY <3>1, <3>3, <3>4
    <3>6. Extend(rest, w) \in Word(w)
      BY ExtendWord
    <3> QED BY <3>1, <3>5, <3>6 DEF Stripe, XXH_STRIPE_LEN
  <2>4. PICK key \in Stripe : key = SecretEnd(Secret(state), 0)
    <3>1. PICK L, PB, g, F : /\ Lasts(Key(seed, secret), L, PB)
                             /\ After3(state, Data, fed, Key(seed, secret), PB, g, F)
      BY <2>1 DEF Reached
    <3>2. SecretEnd(Key(seed, secret), 0) \in Stripe
      BY <3>1, SecretParts
    <3> QED BY <3>1, <3>2 DEF After3, Keyed
  <2>5. PICK sd \in Word(8) : sd = seed
    BY DEF TypeInv
  <2>6. /\ XXH3_accumulate_512_sse2(acc, input, key) = XXH3_accumulate_512_scalar(acc, input, key)
        /\ XXH3_accumulate_512_avx2(acc, input, key) = XXH3_accumulate_512_scalar(acc, input, key)
        /\ XXH3_accumulate_512_avx512(acc, input, key) = XXH3_accumulate_512_scalar(acc, input, key)
        /\ XXH3_scrambleAcc_sse2(acc, key) = XXH3_scrambleAcc_scalar(acc, key)
        /\ XXH3_scrambleAcc_avx2(acc, key) = XXH3_scrambleAcc_scalar(acc, key)
        /\ XXH3_scrambleAcc_avx512(acc, key) = XXH3_scrambleAcc_scalar(acc, key)
    BY Scalars
  <2>7. /\ XXH3_accumulate_512_neon(acc, input, key) = XXH3_accumulate_512_scalar(acc, input, key)
        /\ XXH3_accumulate_512_vsx(acc, input, key) = XXH3_accumulate_512_scalar(acc, input, key)
    BY NeonAccumulates, VsxAccumulates
  <2>8. /\ XXH3_scrambleAcc_neon(acc, key) = XXH3_scrambleAcc_scalar(acc, key)
        /\ XXH3_scrambleAcc_vsx(acc, key) = XXH3_scrambleAcc_scalar(acc, key)
    BY NeonScrambles, VsxScrambles
  <2>9. {XXH3_initCustomSecret_sse2(sd), XXH3_initCustomSecret_avx2(sd), XXH3_initCustomSecret_avx512(sd)}
          = {XXH3_initCustomSecret_scalar(sd)}
    <3>1. XXH3_initCustomSecret_sse2(sd) = XXH3_initCustomSecret_scalar(sd)
      BY Sse2MakesSecret
    <3>2. XXH3_initCustomSecret_avx2(sd) = XXH3_initCustomSecret_scalar(sd)
      BY Avx2MakesSecret
    <3>3. XXH3_initCustomSecret_avx512(sd) = XXH3_initCustomSecret_scalar(sd)
      BY Avx512MakesSecret
    <3> QED BY <3>1, <3>2, <3>3
  <2> QED BY <2>2, <2>3, <2>4, <2>5, <2>6, <2>7, <2>8, <2>9 DEF LanesAgree
<1> QED BY <1>1, Typed, Kept3, PTL

(***************************************************************************)
(* The canonical form                                                      *)
(***************************************************************************)
LEMMA Canonical ==
  ASSUME NEW low \in Word(8), NEW high \in Word(8)
  PROVE  \E c \in Word(16) : /\ c = Swap(high) \o Swap(low)
                             /\ \A i \in 1..8 : c[i] = high[9 - i] /\ c[i + 8] = low[9 - i]
<1>1. PICK n \in Nat, q \in Nat : n = 8 /\ q = 16 /\ n + n <= q /\ q <= n + n
  OBVIOUS
<1>2. low \in Word(n) /\ high \in Word(n)
  BY <1>1
<1>3. PICK a \in Word(n) : a = Swap(high) /\ \A i \in 1..n : a[i] = high[n + 1 - i]
  BY <1>2, SwapWord
<1>4. PICK b \in Word(n) : b = Swap(low) /\ \A i \in 1..n : b[i] = low[n + 1 - i]
  BY <1>2, SwapWord
<1>5. n + n <= q /\ q <= n + n
  BY <1>1
<1>6. a \o b \in Word(q)
  BY <1>5, Joined
<1>7. Joins(a \o b, a, b, n, q)
  BY <1>5, Joined
<1>8. PICK c \in Word(q) : c = a \o b /\ Joins(c, a, b, n, q)
  BY <1>6, <1>7
<1>9. ASSUME NEW i \in 1..8 PROVE c[i] = high[9 - i] /\ c[i + 8] = low[9 - i]
  <2>1. i \in 1..q /\ i \in 1..n /\ i <= n /\ n + 1 - i = 9 - i
    BY <1>1
  <2>2. i + 8 \in 1..q /\ ~ (i + 8 <= n) /\ (i + 8) - n = i
    BY <1>1
  <2>3. c[i] = a[i]
    BY <1>8, <2>1 DEF Joins
  <2>4. c[i + 8] = b[i]
    BY <1>8, <2>2 DEF Joins
  <2> QED BY <1>3, <1>4, <2>1, <2>3, <2>4
<1> QED BY <1>1, <1>3, <1>4, <1>8, <1>9

\* a and b differ first, from above, at place i.
Decides(a, b, i) == a[i] < b[i] /\ \A j \in (i + 1)..8 : a[j] = b[j]

LEMMA LessIs ==
  ASSUME NEW a \in Word(8), NEW b \in Word(8)
  PROVE  LessWord(a, b) <=> \E i \in 1..8 : Decides(a, b, i)
<1>1. PICK n \in Nat : n = 8
  OBVIOUS
<1>2. Len(a) = n
  BY <1>1, SomeWord
<1> QED BY <1>1, <1>2 DEF LessWord, Decides

Mirrors(c, low, high) == \A i \in 1..8 : c[i] = high[9 - i] /\ c[i + 8] = low[9 - i]

\* c and d differ first, from below, at place i.
First(c, d, i) == c[i] < d[i] /\ \A j \in 1..(i - 1) : c[j] = d[j]

LEMMA BeforeIs ==
  ASSUME NEW c \in Word(16), NEW d \in Word(16)
  PROVE  Before(c, d) <=> \E i \in 1..16 : First(c, d, i)
<1>1. PICK n \in Nat : n = 16
  OBVIOUS
<1>2. Len(c) = n
  BY <1>1, SomeWord
<1> QED BY <1>1, <1>2 DEF Before, First

LEMMA MirrorsHigh ==
  ASSUME NEW c, NEW d, NEW low1, NEW high1, NEW low2, NEW high2, Mirrors(c, low1, high1), Mirrors(d, low2, high2),
         NEW i \in 1..8
  PROVE  First(c, d, i) <=> Decides(high1, high2, 9 - i)
<1>1. c[i] = high1[9 - i] /\ d[i] = high2[9 - i]
  BY DEF Mirrors
<1>2. ASSUME \A j \in 1..(i - 1) : c[j] = d[j], NEW k \in ((9 - i) + 1)..8 PROVE high1[k] = high2[k]
  <2>1. PICK j \in 1..8 : j = 9 - k /\ 9 - j = k /\ j \in 1..(i - 1)
    OBVIOUS
  <2>2. c[j] = high1[9 - j] /\ d[j] = high2[9 - j]
    BY DEF Mirrors
  <2> QED BY <1>2, <2>1, <2>2
<1>3. ASSUME \A k \in ((9 - i) + 1)..8 : high1[k] = high2[k], NEW j \in 1..(i - 1) PROVE c[j] = d[j]
  <2>1. j \in 1..8 /\ 9 - j \in ((9 - i) + 1)..8
    OBVIOUS
  <2>2. c[j] = high1[9 - j] /\ d[j] = high2[9 - j]
    BY <2>1 DEF Mirrors
  <2> QED BY <1>3, <2>1, <2>2
<1> QED BY <1>1, <1>2, <1>3 DEF First, Decides

DecidesBelow(high1, high2, a, b, i) == high1 = high2 /\ Decides(a, b, i)

LEMMA MirrorsLow ==
  ASSUME NEW c, NEW d, NEW low1, NEW high1 \in Word(8), NEW low2, NEW high2 \in Word(8),
         Mirrors(c, low1, high1), Mirrors(d, low2, high2), NEW i \in 1..8
  PROVE  First(c, d, i + 8) <=> DecidesBelow(high1, high2, low1, low2, 9 - i)
<1>1. c[i + 8] = low1[9 - i] /\ d[i + 8] = low2[9 - i]
  BY DEF Mirrors
<1>2. ASSUME \A j \in 1..((i + 8) - 1) : c[j] = d[j] PROVE high1 = high2
  <2>1. ASSUME NEW k \in 1..8 PROVE high1[k] = high2[k]
    <3>1. PICK j \in 1..8 : j = 9 - k /\ 9 - j = k /\ j \in 1..((i + 8) - 1)
      OBVIOUS
    <3>2. c[j] = high1[9 - j] /\ d[j] = high2[9 - j]
      BY DEF Mirrors
    <3> QED BY <1>2, <3>1, <3>2
  <2>2. PICK n \in Nat : n = 8
    OBVIOUS
  <2> QED BY <2>1, <2>2, SameWord
<1>3. ASSUME \A j \in 1..((i + 8) - 1) : c[j] = d[j], NEW k \in ((9 - i) + 1)..8 PROVE low1[k] = low2[k]
  <2>1. PICK j \in 1..8 : j = 9 - k /\ 9 - j = k /\ j + 8 \in 1..((i + 8) - 1)
    OBVIOUS
  <2>2. c[j + 8] = low1[9 - j] /\ d[j + 8] = low2[9 - j]
    BY DEF Mirrors
  <2> QED BY <1>3, <2>1, <2>2
<1>4. ASSUME high1 = high2, \A k \in ((9 - i) + 1)..8 : low1[k] = low2[k], NEW x \in 1..((i + 8) - 1) PROVE c[x] = d[x]
  <2>1. CASE x <= 8
    <3>1. x \in 1..8
      BY <2>1
    <3>2. c[x] = high1[9 - x] /\ d[x] = high2[9 - x]
      BY <3>1 DEF Mirrors
    <3> QED BY <1>4, <3>2
  <2>2. CASE x > 8
    <3>1. PICK j \in 1..8 : j = x - 8 /\ j + 8 = x /\ 9 - j \in ((9 - i) + 1)..8
      BY <2>2
    <3>2. c[j + 8] = low1[9 - j] /\ d[j + 8] = low2[9 - j]
      BY DEF Mirrors
    <3> QED BY <1>4, <3>1, <3>2
  <2> QED BY <2>1, <2>2
<1> QED BY <1>1, <1>2, <1>3, <1>4 DEF First, Decides, DecidesBelow

LEMMA SortedAlike ==
  ASSUME NEW low1 \in Word(8), NEW high1 \in Word(8), NEW low2 \in Word(8), NEW high2 \in Word(8)
  PROVE  XXH128_less(Hash128(low1, high1), Hash128(low2, high2))
           <=> Before(XXH128_canonicalFromHash(Hash128(low1, high1)), XXH128_canonicalFromHash(Hash128(low2, high2)))
<1>1. PICK c \in Word(16) : c = Swap(high1) \o Swap(low1) /\ Mirrors(c, low1, high1)
  BY Canonical DEF Mirrors
<1>2. PICK d \in Word(16) : d = Swap(high2) \o Swap(low2) /\ Mirrors(d, low2, high2)
  BY Canonical DEF Mirrors
<1>3. /\ XXH128_canonicalFromHash(Hash128(low1, high1)) = c
      /\ XXH128_canonicalFromHash(Hash128(low2, high2)) = d
  BY <1>1, <1>2 DEF XXH128_canonicalFromHash, Hash128
<1>4. XXH128_less(Hash128(low1, high1), Hash128(low2, high2)) <=>
        LessWord(high1, high2) \/ (high1 = high2 /\ LessWord(low1, low2))
  BY DEF XXH128_less, Hash128
<1>5. LessWord(high1, high2) <=> \E i \in 1..8 : First(c, d, i)
  <2>1. ASSUME NEW i \in 1..8, Decides(high1, high2, i) PROVE \E j \in 1..8 : First(c, d, j)
    <3>1. PICK j \in 1..8 : j = 9 - i /\ 9 - j = i
      OBVIOUS
    <3>2. First(c, d, j) <=> Decides(high1, high2, 9 - j)
      BY <1>1, <1>2, MirrorsHigh
    <3> QED BY <2>1, <3>1, <3>2
  <2>2. ASSUME NEW i \in 1..8, First(c, d, i) PROVE \E j \in 1..8 : Decides(high1, high2, j)
    <3>1. 9 - i \in 1..8
      OBVIOUS
    <3>2. First(c, d, i) <=> Decides(high1, high2, 9 - i)
      BY <1>1, <1>2, MirrorsHigh
    <3> QED BY <2>2, <3>1, <3>2
  <2> QED BY <2>1, <2>2, LessIs
<1>6. (high1 = high2 /\ LessWord(low1, low2)) <=> \E i \in 1..8 : First(c, d, i + 8)
  <2>1. ASSUME high1 = high2, NEW i \in 1..8, Decides(low1, low2, i) PROVE \E j \in 1..8 : First(c, d, j + 8)
    <3>1. PICK j \in 1..8 : j = 9 - i /\ 9 - j = i
      OBVIOUS
    <3>2. First(c, d, j + 8) <=> DecidesBelow(high1, high2, low1, low2, 9 - j)
      BY <1>1, <1>2, MirrorsLow
    <3> QED BY <2>1, <3>1, <3>2 DEF DecidesBelow
  <2>2. ASSUME NEW i \in 1..8, First(c, d, i + 8) PROVE high1 = high2 /\ \E j \in 1..8 : Decides(low1, low2, j)
    <3>1. 9 - i \in 1..8
      OBVIOUS
    <3>2. First(c, d, i + 8) <=> DecidesBelow(high1, high2, low1, low2, 9 - i)
      BY <1>1, <1>2, MirrorsLow
    <3> QED BY <2>2, <3>1, <3>2 DEF DecidesBelow
  <2>3. LessWord(low1, low2) <=> \E i \in 1..8 : Decides(low1, low2, i)
    BY LessIs
  <2> QED BY <2>1, <2>2, <2>3
<1>7. (\E i \in 1..16 : First(c, d, i)) <=> ((\E i \in 1..8 : First(c, d, i)) \/ (\E i \in 1..8 : First(c, d, i + 8)))
  <2>1. ASSUME NEW i \in 1..16, First(c, d, i)
        PROVE  (\E j \in 1..8 : First(c, d, j)) \/ (\E j \in 1..8 : First(c, d, j + 8))
    <3>1. CASE i <= 8
      <4>1. i \in 1..8
        BY <3>1
      <4> QED BY <2>1, <4>1
    <3>2. CASE i > 8
      <4>1. PICK j \in 1..8 : j = i - 8 /\ j + 8 = i
        BY <3>2
      <4> QED BY <2>1, <4>1
    <3> QED BY <3>1, <3>2
  <2>2. ASSUME NEW i \in 1..8 PROVE i \in 1..16 /\ i + 8 \in 1..16
    OBVIOUS
  <2> QED BY <2>1, <2>2
<1> QED BY <1>3, <1>4, <1>5, <1>6, <1>7, BeforeIs

LEMMA GivenBack ==
  ASSUME NEW low \in Word(8), NEW high \in Word(8)
  PROVE  XXH128_hashFromCanonical(XXH128_canonicalFromHash(Hash128(low, high))) = Hash128(low, high)
<1>1. PICK c \in Word(16) : c = Swap(high) \o Swap(low) /\ Mirrors(c, low, high)
  BY Canonical DEF Mirrors
<1>2. XXH128_canonicalFromHash(Hash128(low, high)) = c
  BY <1>1 DEF XXH128_canonicalFromHash, Hash128
<1>3. PICK n \in Nat, z \in Nat, q \in Nat : n = 8 /\ z = 0 /\ q = 16 /\ z + n <= q /\ n + n <= q
  OBVIOUS
<1>4. c \in Word(q) /\ z + n <= q /\ n + n <= q
  BY <1>3
<1>5. PICK a \in Word(n) : a = Bytes(c, z, n) /\ \A j \in 1..n : a[j] = c[z + j]
  BY <1>4, BytesWord
<1>6. PICK b \in Word(n) : b = Bytes(c, n, n) /\ \A j \in 1..n : b[j] = c[n + j]
  BY <1>4, BytesWord
<1>7. PICK sa \in Word(n) : sa = Swap(a) /\ \A i \in 1..n : sa[i] = a[n + 1 - i]
  BY SwapWord
<1>8. PICK sb \in Word(n) : sb = Swap(b) /\ \A i \in 1..n : sb[i] = b[n + 1 - i]
  BY SwapWord
<1>9. ASSUME NEW i \in 1..n PROVE sa[i] = high[i] /\ sb[i] = low[i]
  <2>1. PICK j \in 1..8 : j = n + 1 - i /\ 9 - j = i /\ j \in 1..n /\ z + j = j /\ n + j = j + 8
    BY <1>3
  <2>2. c[j] = high[9 - j] /\ c[j + 8] = low[9 - j]
    BY <1>1 DEF Mirrors
  <2> QED BY <1>5, <1>6, <1>7, <1>8, <2>1, <2>2
<1>10. sa = high /\ sb = low
  <2>1. low \in Word(n) /\ high \in Word(n)
    BY <1>3
  <2> QED BY <1>9, <2>1, SameWord
<1>11. XXH128_hashFromCanonical(c) = Hash128(Swap(b), Swap(a))
  BY <1>3, <1>5, <1>6 DEF XXH128_hashFromCanonical
<1> QED BY <1>2, <1>7, <1>8, <1>10, <1>11

(* The canonical form sorts the hashes and loses nothing of them.           *)
THEOREM CanonicalOrderAlways == Spec => []CanonicalOrder
<1>1. TypeInv /\ Inv3 => CanonicalOrder
  <2> SUFFICES ASSUME TypeInv, Inv3, Hashing("XXH3"), NEW i \in 1..3, NEW j \in 1..3, NEW k \in 1..3
               PROVE  LET h1 == Hash128(state.acc[i], state.acc[k])
                          h2 == Hash128(state.acc[j], state.acc[3])
                          c1 == XXH128_canonicalFromHash(h1)
                          c2 == XXH128_canonicalFromHash(h2)
                      IN /\ XXH128_less(h1, h2) <=> Before(c1, c2)
                         /\ XXH128_hashFromCanonical(c1) = h1
    BY DEF CanonicalOrder
  <2>1. state.acc \in Accs
    BY DEF Inv3, Hashing, Prepared, States3
  <2>2. \A n \in 1..8 : state.acc[n] \in Word(8)
    BY <2>1 DEF Accs, Vec
  <2>3. i \in 1..8 /\ j \in 1..8 /\ k \in 1..8 /\ 3 \in 1..8
    OBVIOUS
  <2>4. PICK a \in Word(8), b \in Word(8), c \in Word(8), d \in Word(8) :
          a = state.acc[i] /\ b = state.acc[k] /\ c = state.acc[j] /\ d = state.acc[3]
    BY <2>2, <2>3
  <2> QED BY <2>4, SortedAlike, GivenBack
<1> QED BY <1>1, Typed, Kept3, PTL
=============================================================================
