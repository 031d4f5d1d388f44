---------------------------- MODULE RingNumbers ----------------------------
(***************************************************************************)
(* Lemmas about doubly linked rings of nodes, whatever the nodes are: a    *)
(* function f numbers the nodes on 1..n in the order of a walk, and the    *)
(* pointers follow the numbers around.                                     *)
(***************************************************************************)
EXTENDS Integers, FiniteSets, FiniteSetTheorems, TLAPS

(* Of n places on a ring, j is the one behind i. *)
Behind(i, j, n) == j = i + 1 \/ (i = n /\ j = 1)

(* f numbers the nodes on 1..n in the order of the ring. *)
Numbers(f, n, on, nx, bk, fst, lst) ==
  /\ f \in [1..n -> on]
  /\ \A i, j \in 1..n : f[i] = f[j] => i = j
  /\ \A a \in on : \E i \in 1..n : f[i] = a
  /\ n > 0 => fst = f[1] /\ lst = f[n]
  /\ \A i, j \in 1..n : Behind(i, j, n) => nx[f[i]] = f[j] /\ bk[f[j]] = f[i]

Appended(f, n, a) == [i \in 1..(n + 1) |-> IF i <= n THEN f[i] ELSE a]

(* A node linked behind the last has the next number. *)
LEMMA LinkNumbers ==
  ASSUME NEW n \in Nat \ {0}, NEW A, NEW B, NEW on \in SUBSET A, NEW f, NEW fst, NEW lst,
         NEW nx \in [A -> B], NEW bk \in [A -> B],
         Numbers(f, n, on, nx, bk, fst, lst), NEW a \in A \ on
  PROVE  Numbers(Appended(f, n, a), n + 1, on \cup {a},
                 [nx EXCEPT ![a] = fst, ![lst] = a], [bk EXCEPT ![fst] = a, ![a] = lst], fst, a)
<1> DEFINE g == Appended(f, n, a)
           nx2 == [nx EXCEPT ![a] = fst, ![lst] = a]
           bk2 == [bk EXCEPT ![fst] = a, ![a] = lst]
<1>1. /\ f \in [1..n -> on] /\ fst = f[1] /\ lst = f[n] /\ 1 \in 1..n /\ n \in 1..n
      /\ \A i, j \in 1..n : f[i] = f[j] => i = j
      /\ \A b \in on : \E i \in 1..n : f[i] = b
      /\ \A i, j \in 1..n : Behind(i, j, n) => nx[f[i]] = f[j] /\ bk[f[j]] = f[i]
  BY DEF Numbers
<1>2. /\ \A i \in 1..n : g[i] = f[i] /\ f[i] \in on /\ f[i] # a
      /\ g[n + 1] = a
      /\ \A i \in 1..(n + 1) : i \in 1..n \/ i = n + 1
      /\ g = [i \in 1..(n + 1) |-> g[i]]
  BY <1>1 DEF Appended
<1>3. /\ nx2[a] = fst /\ nx2[lst] = a /\ \A b \in on : b # lst => nx2[b] = nx[b]
      /\ bk2[a] = lst /\ bk2[fst] = a /\ \A b \in on : b # fst => bk2[b] = bk[b]
  BY <1>1, <1>2
<1> HIDE DEF g, nx2, bk2
<1>4. g \in [1..(n + 1) -> on \cup {a}]
  BY <1>2
<1>p. n + 1 \in 1..(n + 1) /\ \A i \in 1..n : i \in 1..(n + 1)
  OBVIOUS
<1>5. ASSUME NEW i \in 1..(n + 1), NEW j \in 1..(n + 1), g[i] = g[j] PROVE i = j
  <2>1. CASE i \in 1..n /\ j \in 1..n
    <3>1. f[i] = f[j]
      BY <1>2, <1>5, <2>1
    <3> QED BY <1>1, <2>1, <3>1
  <2>2. CASE i = n + 1 \/ j = n + 1
    <3>1. g[i] = a /\ g[j] = a
      BY <1>2, <1>5, <2>2
    <3>2. i = n + 1 /\ j = n + 1
      BY <1>2, <3>1
    <3> QED BY <3>2
  <2> QED BY <1>2, <2>1, <2>2
<1>6. ASSUME NEW b \in on \cup {a} PROVE \E i \in 1..(n + 1) : g[i] = b
  <2>1. CASE b = a
    BY <1>2, <1>p, <2>1
  <2>2. CASE b \in on
    <3>1. PICK i \in 1..n : f[i] = b
      BY <1>1, <2>2
    <3>2. g[i] = b
      BY <1>2, <3>1
    <3> QED BY <1>p, <3>1, <3>2
  <2> QED BY <2>1, <2>2
<1>7. g[1] = fst /\ g[n + 1] = a
  BY <1>1, <1>2
<1>8. ASSUME NEW i \in 1..(n + 1), NEW j \in 1..(n + 1), Behind(i, j, n + 1)
      PROVE  nx2[g[i]] = g[j] /\ bk2[g[j]] = g[i]
  <2>1. CASE i = n + 1
    <3>1. j = 1
      BY <1>8, <2>1 DEF Behind
    <3> QED BY <1>2, <1>3, <1>7, <2>1, <3>1
  <2>2. CASE i = n
    <3>1. j = n + 1
      BY <1>8, <2>2 DEF Behind
    <3>2. g[i] = lst /\ g[j] = a
      BY <1>1, <1>2, <2>2, <3>1
    <3> QED BY <1>3, <3>2
  <2>3. CASE i \in 1..n /\ i # n
    <3>1. j = i + 1 /\ j \in 1..n /\ Behind(i, j, n) /\ j # 1
      BY <1>8, <2>3 DEF Behind
    <3>2. f[i] # lst /\ f[j] # fst
      BY <1>1, <2>3, <3>1
    <3>3. g[i] = f[i] /\ g[j] = f[j] /\ f[i] \in on /\ f[j] \in on
      BY <1>2, <2>3, <3>1
    <3>4. nx[f[i]] = f[j] /\ bk[f[j]] = f[i]
      BY <1>1, <2>3, <3>1
    <3>5. nx2[f[i]] = nx[f[i]] /\ bk2[f[j]] = bk[f[j]]
      BY <1>3, <3>2, <3>3
    <3> QED BY <3>3, <3>4, <3>5
  <2> QED BY <1>2, <2>1, <2>2, <2>3
<1>9. Numbers(g, n + 1, on \cup {a}, nx2, bk2, fst, a)
  BY <1>4, <1>5, <1>6, <1>7, <1>8 DEF Numbers
<1> QED BY <1>9 DEF g, nx2, bk2

ClosedUp(f, n, k) == [i \in 1..(n - 1) |-> IF i < k THEN f[i] ELSE f[i + 1]]

(* The numbers behind an unlinked node close the gap; first and last move   *)
(* when it was one of them.                                                 *)
LEMMA UnlinkNumbers ==
  ASSUME NEW n \in Nat, n > 1, NEW A, NEW B, NEW on \in SUBSET A, NEW f, NEW fst, NEW lst,
         NEW nx \in [A -> B], NEW bk \in [A -> B],
         Numbers(f, n, on, nx, bk, fst, lst), NEW k \in 1..n
  PROVE  LET a == f[k]
         IN Numbers(ClosedUp(f, n, k), n - 1, on \ {a},
                    [nx EXCEPT ![bk[a]] = nx[a]], [bk EXCEPT ![nx[a]] = bk[a]],
                    IF a = fst THEN nx[a] ELSE fst,
                    IF a # fst /\ a = lst THEN bk[a] ELSE lst)
<1> DEFINE a == f[k]
           g == ClosedUp(f, n, k)
           nx2 == [nx EXCEPT ![bk[a]] = nx[a]]
           bk2 == [bk EXCEPT ![nx[a]] = bk[a]]
           fst2 == IF a = fst THEN nx[a] ELSE fst
           lst2 == IF a # fst /\ a = lst THEN bk[a] ELSE lst
           p == IF k = 1 THEN n ELSE k - 1
           s == IF k = n THEN 1 ELSE k + 1
<1>1. /\ f \in [1..n -> on] /\ fst = f[1] /\ lst = f[n] /\ 1 \in 1..n /\ n \in 1..n
      /\ \A i, j \in 1..n : f[i] = f[j] => i = j
      /\ \A b \in on : \E i \in 1..n : f[i] = b
      /\ \A i, j \in 1..n : Behind(i, j, n) => nx[f[i]] = f[j] /\ bk[f[j]] = f[i]
  BY DEF Numbers
<1>2. /\ p \in 1..n /\ s \in 1..n /\ p # k /\ s # k /\ Behind(p, k, n) /\ Behind(k, s, n)
  BY DEF Behind
<1>3. bk[a] = f[p] /\ nx[a] = f[s]
  BY <1>1, <1>2
<1>4. /\ fst2 = IF k = 1 THEN f[2] ELSE f[1]
      /\ lst2 = IF k = n THEN f[n - 1] ELSE f[n]
  BY <1>1, <1>3
<1>5. /\ \A i \in 1..(n - 1) : /\ g[i] = f[IF i < k THEN i ELSE i + 1]
                              /\ (IF i < k THEN i ELSE i + 1) \in 1..n
      /\ g = [i \in 1..(n - 1) |-> g[i]]
  BY DEF ClosedUp
<1>6. /\ nx2[f[p]] = f[s] /\ \A b \in on : b # f[p] => nx2[b] = nx[b]
      /\ bk2[f[s]] = f[p] /\ \A b \in on : b # f[s] => bk2[b] = bk[b]
  <2>1. f[p] \in A /\ f[s] \in A /\ \A b \in on : b \in A
    BY <1>1, <1>2
  <2>2. nx2 = [nx EXCEPT ![f[p]] = f[s]] /\ bk2 = [bk EXCEPT ![f[s]] = f[p]]
    BY <1>3
  <2> HIDE DEF nx2, bk2, p, s
  <2> QED BY <2>1, <2>2
<1> HIDE DEF nx2, bk2, fst2, lst2, g
<1>7. g \in [1..(n - 1) -> on \ {a}]
  <2>1. ASSUME NEW i \in 1..(n - 1) PROVE g[i] \in on \ {a}
    <3>1. (IF i < k THEN i ELSE i + 1) # k
      OBVIOUS
    <3> QED BY <1>1, <1>5, <3>1
  <2> QED BY <1>5, <2>1
<1>8. \A i, j \in 1..(n - 1) : g[i] = g[j] => i = j
  <2> SUFFICES ASSUME NEW i \in 1..(n - 1), NEW j \in 1..(n - 1), g[i] = g[j] PROVE i = j
    OBVIOUS
  <2>1. (IF i < k THEN i ELSE i + 1) = (IF j < k THEN j ELSE j + 1)
    BY <1>1, <1>5
  <2> QED BY <2>1
<1>9. \A b \in on \ {a} : \E i \in 1..(n - 1) : g[i] = b
  <2> SUFFICES ASSUME NEW b \in on \ {a} PROVE \E i \in 1..(n - 1) : g[i] = b
    OBVIOUS
  <2>1. PICK j \in 1..n : f[j] = b
    BY <1>1
  <2>2. j # k
    BY <2>1
  <2>3. CASE j < k
    <3>1. j \in 1..(n - 1)
      BY <2>3
    <3> QED BY <1>5, <2>1, <2>3, <3>1
  <2>4. CASE j > k
    <3>1. j - 1 \in 1..(n - 1) /\ ~(j - 1 < k) /\ (j - 1) + 1 = j
      BY <2>4
    <3> QED BY <1>5, <2>1, <3>1
  <2> QED BY <2>2, <2>3, <2>4
<1>10. g[1] = fst2 /\ g[n - 1] = lst2
  <2>1. 1 \in 1..(n - 1) /\ n - 1 \in 1..(n - 1) /\ (n - 1) + 1 = n
    OBVIOUS
  <2> QED BY <1>4, <1>5, <2>1
<1>11. ASSUME NEW i \in 1..(n - 1), NEW j \in 1..(n - 1), Behind(i, j, n - 1)
       PROVE  nx2[g[i]] = g[j] /\ bk2[g[j]] = g[i]
  <2> DEFINE u == IF i < k THEN i ELSE i + 1
             v == IF j < k THEN j ELSE j + 1
  <2>1. /\ g[i] = f[u] /\ g[j] = f[v] /\ u \in 1..n /\ v \in 1..n
    BY <1>5
  <2>2. (u = p /\ v = s) \/ (u # p /\ v # s /\ Behind(u, v, n))
    BY <1>11 DEF Behind
  <2> HIDE DEF u, v, p, s
  <2>3. CASE u = p /\ v = s
    BY <1>6, <2>1, <2>3
  <2>4. CASE u # p /\ v # s /\ Behind(u, v, n)
    <3>1. f[u] # f[p] /\ f[v] # f[s] /\ f[u] \in on /\ f[v] \in on
      BY <1>1, <1>2, <2>1, <2>4
    <3> QED BY <1>1, <1>6, <2>1, <2>4, <3>1
  <2> QED BY <2>2, <2>3, <2>4
<1>12. Numbers(g, n - 1, on \ {a}, nx2, bk2, fst2, lst2)
  BY <1>7, <1>8, <1>9, <1>10, <1>11 DEF Numbers
<1> QED BY <1>12 DEF g, nx2, bk2, fst2, lst2

(* One node alone is its own neighbour. *)
LEMMA LoneNumbers ==
  ASSUME NEW A, NEW B, NEW a \in A, NEW nx \in [A -> B], NEW bk \in [A -> B]
  PROVE  Numbers([i \in 1..1 |-> a], 1, {a},
                 [nx EXCEPT ![a] = a, ![a] = a], [bk EXCEPT ![a] = a, ![a] = a], a, a)
BY DEF Numbers, Behind

(* A non-empty set of naturals has a least element. *)
LEMMA LeastElement ==
  ASSUME NEW S \in SUBSET Nat, S # {}
  PROVE  \E x \in S : \A y \in S : x <= y
<1> DEFINE lt == {ss \in Nat \X Nat : ss[1] < ss[2]}
<1>1. OpToRel(<, Nat) = lt
  BY DEF OpToRel
<1>2. PICK x \in S : \A y \in S : ~ (<<y, x>> \in lt)
  <2> HIDE DEF lt
  <2> QED BY <1>1, WFMin, NatLessThanWellFounded
<1>3. \A y \in S : y < x => <<y, x>> \in lt
  OBVIOUS
<1>4. \A y \in S : ~ (y < x)
  <2> HIDE DEF lt
  <2> QED BY <1>2, <1>3, Zenon
<1> QED BY <1>4

(* A walk meets the nodes in the order of their numbers. *)
LEMMA WalkIsNumbers ==
  ASSUME NEW n \in Nat, NEW f, NEW on, NEW nx, NEW bk, NEW fst, NEW lst,
         Numbers(f, n, on, nx, bk, fst, lst)
  PROVE  (CHOOSE w : w = [i \in 1..n |-> IF i = 1 THEN fst ELSE nx[w[i - 1]]]) = f
<1> DEFINE IsWalk(w) == w = [i \in 1..n |-> IF i = 1 THEN fst ELSE nx[w[i - 1]]]
<1>1. /\ f = [i \in 1..n |-> f[i]] /\ (n > 0 => fst = f[1])
      /\ \A i, j \in 1..n : Behind(i, j, n) => nx[f[i]] = f[j]
  BY DEF Numbers
<1>2. IsWalk(f)
  <2>1. ASSUME NEW i \in 1..n PROVE f[i] = IF i = 1 THEN fst ELSE nx[f[i - 1]]
    <3>1. CASE i = 1
      BY <1>1, <3>1
    <3>2. CASE i # 1
      <4>1. i - 1 \in 1..n /\ Behind(i - 1, i, n)
        BY <3>2 DEF Behind
      <4> QED BY <1>1, <3>2, <4>1
    <3> QED BY <3>1, <3>2
  <2>2. [i \in 1..n |-> f[i]] = [i \in 1..n |-> IF i = 1 THEN fst ELSE nx[f[i - 1]]]
    BY <2>1, Zenon
  <2> QED BY <1>1, <2>2
<1>3. ASSUME NEW w, IsWalk(w) PROVE w = f
  <2> DEFINE Wrong == {i \in 1..n : w[i] # f[i]}
  <2>1. w = [i \in 1..n |-> w[i]] /\ \A i \in 1..n : w[i] = IF i = 1 THEN fst ELSE nx[w[i - 1]]
    <3>1. \A i \in 1..n : w[i] = IF i = 1 THEN fst ELSE nx[w[i - 1]]
      BY <1>3
    <3>2. w = [i \in 1..n |-> w[i]]
      <4> DEFINE g == [i \in 1..n |-> IF i = 1 THEN fst ELSE nx[w[i - 1]]]
      <4>1. g = [i \in 1..n |-> g[i]]
        OBVIOUS
      <4> HIDE DEF g
      <4> QED BY <1>3, <4>1 DEF g
    <3> QED BY <3>1, <3>2
  <2>2. Wrong = {}
    <3> SUFFICES ASSUME Wrong # {} PROVE FALSE
      OBVIOUS
    <3>1. Wrong \in SUBSET Nat
      OBVIOUS
    <3>2. PICK x \in Wrong : \A y \in Wrong : x <= y
      <4> HIDE DEF Wrong
      <4> QED BY <3>1, LeastElement
    <3>3. x # 1
      BY <1>2, <2>1, <3>2
    <3>4. x - 1 \in 1..n /\ x - 1 \notin Wrong /\ x \in 1..n
      BY <3>2, <3>3
    <3>5. w[x - 1] = f[x - 1]
      BY <3>4
    <3>6. w[x] = nx[f[x - 1]] /\ f[x] = nx[f[x - 1]]
      BY <1>2, <2>1, <3>3, <3>4, <3>5
    <3> QED BY <3>2, <3>6
  <2>3. \A i \in 1..n : w[i] = f[i]
    BY <2>2
  <2> HIDE DEF Wrong
  <2> QED BY <1>1, <2>1, <2>3
<1> HIDE DEF IsWalk
<1>4. (CHOOSE w : IsWalk(w)) = f
  BY <1>2, <1>3
<1> QED BY <1>4 DEF IsWalk

(* Every node has a neighbour on each side, and the last node leads to the  *)
(* first.                                                                   *)
LEMMA Neighbours ==
  ASSUME NEW n \in Nat \ {0}, NEW on, NEW f, NEW nx, NEW bk, NEW fst, NEW lst,
         Numbers(f, n, on, nx, bk, fst, lst)
  PROVE  /\ fst \in on /\ lst \in on /\ nx[lst] = fst /\ bk[fst] = lst
         /\ \A a \in on : nx[a] \in on /\ bk[a] \in on /\ bk[nx[a]] = a
<1>1. /\ f \in [1..n -> on] /\ fst = f[1] /\ lst = f[n] /\ 1 \in 1..n /\ n \in 1..n
      /\ \A a \in on : \E i \in 1..n : f[i] = a
      /\ \A i, j \in 1..n : Behind(i, j, n) => nx[f[i]] = f[j] /\ bk[f[j]] = f[i]
  BY DEF Numbers
<1>2. nx[lst] = fst /\ bk[fst] = lst
  BY <1>1 DEF Behind
<1>3. ASSUME NEW a \in on PROVE nx[a] \in on /\ bk[a] \in on /\ bk[nx[a]] = a
  <2>1. PICK i \in 1..n : f[i] = a
    BY <1>1
  <2>2. PICK j \in 1..n : Behind(i, j, n)
    <3>1. CASE i = n
      BY <1>1, <3>1 DEF Behind
    <3>2. CASE i # n
      <4>1. i + 1 \in 1..n
        BY <3>2
      <4> QED BY <4>1 DEF Behind
    <3> QED BY <3>1, <3>2
  <2>3. PICK h \in 1..n : Behind(h, i, n)
    <3>1. CASE i = 1
      BY <1>1, <3>1 DEF Behind
    <3>2. CASE i # 1
      <4>1. i - 1 \in 1..n /\ i = (i - 1) + 1
        BY <3>2
      <4> QED BY <4>1 DEF Behind
    <3> QED BY <3>1, <3>2
  <2> QED BY <1>1, <2>1, <2>2, <2>3
<1> QED BY <1>1, <1>2, <1>3

(* There are as many nodes as numbers. *)
LEMMA NumbersCount ==
  ASSUME NEW n \in Nat, NEW on, NEW f, NEW nx, NEW bk, NEW fst, NEW lst,
         Numbers(f, n, on, nx, bk, fst, lst)
  PROVE  IsFiniteSet(on) /\ Cardinality(on) = n
<1>1. f \in Bijection(1..n, on)
  BY DEF Numbers, Bijection, Injection, Surjection, IsInjective
<1>2. ExistsBijection(1..n, on)
  BY <1>1 DEF ExistsBijection
<1>3. IsFiniteSet(1..n)
  BY FS_Interval
<1> QED BY <1>1, <1>2, <1>3, FS_CountingElements, FS_Bijection
=============================================================================
