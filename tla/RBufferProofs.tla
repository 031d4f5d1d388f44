--------------------------- MODULE RBufferProofs ---------------------------
(***************************************************************************)
(* Theorems about the ring of connections, for every capacity and every    *)
(* set of addresses.                                                       *)
(*                                                                         *)
(* The inductive invariant counts the nodes through in the order of a      *)
(* walk: some function numbers them, and the pointers follow the numbers   *)
(* around.  Emplace appends a number and Erase closes the gap.             *)
(***************************************************************************)
EXTENDS RBuffer, RingNumbers

(* Nothing is left of an empty ring but the address of the node it held.    *)
IInv ==
  /\ TypeOK
  /\ \E f : Numbers(f, m_allocated, live, next, back, first, last)
  /\ m_allocated = 0 => first = last
  /\ broken => m_allocated = 0

----------------------------------------------------------------------------
LEMMA InitIInv == Init => IInv
<1> SUFFICES ASSUME Init PROVE IInv
  OBVIOUS
<1>1. TypeOK
  <2>1. [a \in Addr |-> NULL] \in [Addr -> Addr \cup {NULL}]
        /\ [a \in Addr |-> NULL] \in [Addr -> Objects \cup {NULL}] /\ 0 \in 0..m_size
    BY RBufferAssumption
  <2> QED BY <2>1, Zenon DEF Init, TypeOK
<1>2. Numbers([i \in 1..0 |-> NULL], m_allocated, live, next, back, first, last)
  BY DEF Init, Numbers
<1> QED BY <1>1, <1>2 DEF Init, IInv

(* What emplace does with the number of the new node: it comes last. *)
LEMMA EmplaceNumbers ==
  ASSUME IInv, NEW x \in Objects, NEW a \in Addr \ live, HasRoom, ~broken,
         {FirstFor(a), LastFor(a)} \subseteq live \cup {a},
         live' = live \cup {a}, object' = [object EXCEPT ![a] = x],
         m_allocated' = m_allocated + 1, Link(a), UNCHANGED broken,
         NEW f, Numbers(f, m_allocated, live, next, back, first, last)
  PROVE  /\ IInv'
         /\ Numbers(Appended(f, m_allocated, a), m_allocated', live', next', back', first', last')
<1>1. /\ live \in SUBSET Addr /\ next \in [Addr -> Addr \cup {NULL}]
      /\ back \in [Addr -> Addr \cup {NULL}] /\ m_allocated \in Nat /\ m_allocated + 1 \in 0..m_size
      /\ object' \in [Addr -> Objects \cup {NULL}] /\ broken' \in BOOLEAN
  BY RBufferAssumption DEF IInv, TypeOK, HasRoom
<1>2. CASE m_allocated = 0
  <2>1. live = {} /\ first = last
    <3>1. \A b \in live : \E i \in 1..0 : f[i] = b
      BY <1>2 DEF Numbers
    <3> QED BY <1>2, <3>1 DEF IInv
  <2>2. FirstFor(a) = a /\ LastFor(a) = a
    BY <2>1 DEF FirstFor, LastFor
  <2>3. next' = [next EXCEPT ![a] = a, ![a] = a] /\ back' = [back EXCEPT ![a] = a, ![a] = a]
        /\ first' = a /\ last' = a /\ live' = {a} /\ m_allocated' = 1
    BY <1>2, <2>1, <2>2 DEF Link
  <2>4. Numbers([i \in 1..1 |-> a], 1, {a}, next', back', a, a)
    BY <1>1, <2>3, LoneNumbers
  <2>5. Appended(f, m_allocated, a) = [i \in 1..1 |-> a]
    BY <1>2 DEF Appended
  <2>6. TypeOK'
    BY <1>1, <1>2, <2>3 DEF TypeOK
  <2> QED BY <2>3, <2>4, <2>5, <2>6 DEF IInv
<1>3. CASE m_allocated # 0
  <2>1. first \in live /\ last \in live /\ first # NULL /\ last # NULL
    <3>1. f[1] \in live /\ f[m_allocated] \in live
      BY <1>1, <1>3 DEF Numbers
    <3> QED BY <1>1, <1>3, <3>1, RBufferAssumption DEF Numbers
  <2>2. FirstFor(a) = first /\ LastFor(a) = last
    BY <2>1 DEF FirstFor, LastFor
  <2>3. /\ next' = [next EXCEPT ![a] = first, ![last] = a]
        /\ back' = [back EXCEPT ![first] = a, ![a] = last]
        /\ first' = first /\ last' = a
    BY <2>2 DEF Link
  <2>4. m_allocated \in Nat \ {0}
    BY <1>1, <1>3
  <2>5. Numbers(Appended(f, m_allocated, a), m_allocated', live', next', back', first', last')
    BY <1>1, <2>3, <2>4, LinkNumbers
  <2>6. TypeOK'
    BY <1>1, <2>1, <2>3 DEF TypeOK, IInv
  <2>7. m_allocated' # 0 /\ ~broken'
    BY <2>4
  <2> QED BY <2>5, <2>6, <2>7 DEF IInv
<1> QED BY <1>2, <1>3

(* What erase does with the numbers: those behind the node move up. *)
LEMMA EraseNumbers ==
  ASSUME IInv, NEW f, Numbers(f, m_allocated, live, next, back, first, last),
         NEW k \in 1..m_allocated, Erase(f[k])
  PROVE  /\ IInv'
         /\ Numbers(ClosedUp(f, m_allocated, k), m_allocated', live', next', back', first', last')
<1> DEFINE a == f[k]
<1>1. /\ live \in SUBSET Addr /\ next \in [Addr -> Addr \cup {NULL}]
      /\ back \in [Addr -> Addr \cup {NULL}] /\ m_allocated \in Nat \ {0}
      /\ a \in live /\ first \in live /\ last \in live
      /\ \A b \in live : next[b] \in live /\ back[b] \in live
  <2>1. live \in SUBSET Addr /\ next \in [Addr -> Addr \cup {NULL}]
        /\ back \in [Addr -> Addr \cup {NULL}] /\ m_allocated \in Nat \ {0}
    BY RBufferAssumption DEF IInv, TypeOK
  <2>2. a \in live
    BY DEF Numbers
  <2>3. first \in live /\ last \in live /\ \A b \in live : next[b] \in live /\ back[b] \in live
    BY <2>1, Neighbours
  <2> QED BY <2>1, <2>2, <2>3
<1>2. /\ next' = [next EXCEPT ![back[a]] = next[a]]
      /\ back' = [back EXCEPT ![next[a]] = back[a]]
      /\ first' = IF a = first THEN next[a] ELSE first
      /\ last' = IF a # first /\ a = last THEN back[a] ELSE last
      /\ live' = live \ {a} /\ m_allocated' = m_allocated - 1
      /\ UNCHANGED <<object, broken>> /\ ~broken
  BY DEF Erase, NewFirst, NewLast
<1>3. TypeOK'
  <2>1. m_allocated' \in 0..m_size
    BY <1>1, <1>2, RBufferAssumption DEF IInv, TypeOK
  <2> HIDE DEF a
  <2> QED BY <1>1, <1>2, <2>1 DEF IInv, TypeOK
<1>4. CASE m_allocated = 1
  <2>1. k = 1 /\ a = first /\ a = last /\ next[a] = a /\ back[a] = a
    <3>1. k = 1 /\ f[1] = first /\ f[1] = last /\ Behind(1, 1, m_allocated)
      BY <1>4 DEF Numbers, Behind
    <3> QED BY <1>4, <3>1 DEF Numbers
  <2>2. live' = {} /\ m_allocated' = 0 /\ first' = last'
    <3>1. \A b \in live : b = f[1]
      BY <1>4 DEF Numbers
    <3> QED BY <1>2, <1>4, <2>1, <3>1
  <2>3. Numbers(ClosedUp(f, m_allocated, k), m_allocated', live', next', back', first', last')
    <3>1. ClosedUp(f, m_allocated, k) \in [1..0 -> {}] /\ 1..0 = {}
      BY <1>4 DEF ClosedUp
    <3> QED BY <2>2, <3>1 DEF Numbers
  <2> QED BY <1>3, <2>2, <2>3 DEF IInv
<1>5. CASE m_allocated > 1
  <2>1. Numbers(ClosedUp(f, m_allocated, k), m_allocated', live', next', back', first', last')
    <3>1. Numbers(ClosedUp(f, m_allocated, k), m_allocated - 1, live \ {a},
                  [next EXCEPT ![back[a]] = next[a]], [back EXCEPT ![next[a]] = back[a]],
                  IF a = first THEN next[a] ELSE first,
                  IF a # first /\ a = last THEN back[a] ELSE last)
      BY <1>1, <1>5, UnlinkNumbers
    <3> HIDE DEF a
    <3> QED BY <1>2, <3>1
  <2>2. m_allocated' # 0 /\ ~broken'
    BY <1>2, <1>5
  <2> QED BY <1>3, <2>1, <2>2 DEF IInv
<1> QED BY <1>1, <1>4, <1>5

(* emplace touches a deleted node only where the ring is empty again. *)
LEMMA DeadAddress ==
  ASSUME IInv, NEW a \in Addr \ live, ~({FirstFor(a), LastFor(a)} \subseteq live \cup {a})
  PROVE  m_allocated = 0 /\ first # NULL
<1>1. PICK f : Numbers(f, m_allocated, live, next, back, first, last)
  BY DEF IInv
<1>2. m_allocated \in Nat
  BY RBufferAssumption DEF IInv, TypeOK
<1>3. m_allocated # 0 => first \in live /\ last \in live
  BY <1>1, <1>2 DEF Numbers
<1>4. ~(last = NULL \/ first = NULL) /\ ~({first, last} \subseteq live)
  BY DEF FirstFor, LastFor
<1> QED BY <1>2, <1>3, <1>4

LEMMA NextIInv == IInv /\ [Next]_vars => IInv'
<1> SUFFICES ASSUME IInv, [Next]_vars PROVE IInv'
  OBVIOUS
<1>1. PICK f : Numbers(f, m_allocated, live, next, back, first, last)
  BY DEF IInv
<1>2. ASSUME NEW x \in Objects, Emplace(x) PROVE IInv'
  <2>1. PICK a \in Addr \ live :
         \/ /\ {FirstFor(a), LastFor(a)} \subseteq live \cup {a}
            /\ live' = live \cup {a}
            /\ object' = [object EXCEPT ![a] = x]
            /\ m_allocated' = m_allocated + 1
            /\ Link(a)
            /\ UNCHANGED broken
         \/ /\ ~({FirstFor(a), LastFor(a)} \subseteq live \cup {a})
            /\ broken' = TRUE
            /\ UNCHANGED <<nodes, first, last, m_allocated>>
    BY <1>2 DEF Emplace
  <2>2. CASE {FirstFor(a), LastFor(a)} \subseteq live \cup {a}
    BY <1>1, <1>2, <2>1, <2>2, EmplaceNumbers DEF Emplace
  <2>3. CASE ~({FirstFor(a), LastFor(a)} \subseteq live \cup {a})
    <3>1. UNCHANGED <<nodes, first, last, m_allocated>> /\ broken' = TRUE
      BY <2>1, <2>3
    <3>2. m_allocated = 0
      BY <1>1, <2>3, DeadAddress
    <3> QED BY <1>1, <3>1, <3>2 DEF IInv, TypeOK, nodes
  <2> QED BY <2>2, <2>3
<1>3. ASSUME NEW a \in live, Erase(a) PROVE IInv'
  <2>1. PICK k \in 1..m_allocated : f[k] = a
    BY <1>1 DEF Numbers
  <2>2. Erase(f[k])
    BY <1>3, <2>1
  <2> QED BY <1>1, <2>2, EraseNumbers
<1>4. CASE UNCHANGED vars
  BY <1>4 DEF vars, nodes, IInv, TypeOK
<1> QED BY <1>2, <1>3, <1>4 DEF Next

(* Emplace and erase keep the ring numbered: there is always an order of    *)
(* the live nodes that the pointers next and back follow around.            *)
THEOREM Invariance == Spec => []IInv
<1> QED BY InitIInv, NextIInv, PTL DEF Spec

(* Every pointer is an address, and the count stays within the capacity.    *)
THEOREM TypeCorrect == Spec => []TypeOK
<1>1. IInv => TypeOK
  BY DEF IInv
<1> QED BY <1>1, Invariance, PTL

----------------------------------------------------------------------------
LEMMA IInvCircular == IInv => Circular
<1> SUFFICES ASSUME IInv, ~broken, m_allocated > 0
             PROVE  /\ {Walk[i] : i \in 1..m_allocated} = live
                    /\ Cardinality(live) = m_allocated
                    /\ Walk[m_allocated] = last
                    /\ next[last] = first
                    /\ \A a \in live : back[next[a]] = a
  BY DEF Circular
<1>1. PICK f : Numbers(f, m_allocated, live, next, back, first, last)
  BY DEF IInv
<1>2. m_allocated \in Nat \ {0} /\ 1 \in 1..m_allocated /\ m_allocated \in 1..m_allocated
  BY RBufferAssumption DEF IInv, TypeOK
<1>3. Walk = f
  BY <1>1, <1>2, WalkIsNumbers DEF Walk
<1>4. {Walk[i] : i \in 1..m_allocated} = live
  <2>1. /\ \A i \in 1..m_allocated : f[i] \in live
        /\ \A a \in live : \E i \in 1..m_allocated : f[i] = a
    BY <1>1 DEF Numbers
  <2> QED BY <1>3, <2>1
<1>5. Cardinality(live) = m_allocated
  BY <1>1, <1>2, NumbersCount
<1>6. Walk[m_allocated] = last
  BY <1>1, <1>2, <1>3 DEF Numbers
<1>7. next[last] = first /\ \A a \in live : back[next[a]] = a
  BY <1>1, <1>2, Neighbours
<1> QED BY <1>4, <1>5, <1>6, <1>7

(* A walk of size() steps from pFirst() meets every connection once and     *)
(* ends at pLast(): the relay's walk ends, and leaves no connection out.    *)
THEOREM WalksMeetAll == Spec => []Circular
<1> QED BY Invariance, IInvCircular, PTL

----------------------------------------------------------------------------
(* The ring is the bounded list that the server takes it for.              *)

(* The element at each number. *)
LEMMA ItemsAre ==
  ASSUME IInv, ~broken, NEW f, Numbers(f, m_allocated, live, next, back, first, last)
  PROVE  /\ (IF broken THEN <<>> ELSE [i \in 1..m_allocated |-> object[Walk[i]]])
              = [i \in 1..m_allocated |-> object[f[i]]]
         /\ \A i \in 1..m_allocated : f[i] \in live
         /\ m_allocated \in Nat /\ live \subseteq Addr
         /\ \A a \in live : object[a] \in Objects \cup {NULL}
<1>1. m_allocated \in Nat /\ live \subseteq Addr /\ object \in [Addr -> Objects \cup {NULL}]
  BY RBufferAssumption DEF IInv, TypeOK
<1>2. Walk = f
  BY <1>1, WalkIsNumbers DEF Walk
<1>3. \A i \in 1..m_allocated : f[i] \in live
  BY DEF Numbers
<1> QED BY <1>1, <1>2, <1>3

LEMMA InitList == Init => List!Init
<1> SUFFICES ASSUME Init PROVE List!Init
  OBVIOUS
<1>1. [i \in 1..m_allocated |-> object[Walk[i]]] = <<>>
  BY DEF Init
<1> QED BY <1>1 DEF Init, List!Init

LEMMA NextList == IInv /\ [Next]_vars => [List!Next]_List!vars
<1> SUFFICES ASSUME IInv, [Next]_vars PROVE [List!Next]_List!vars
  OBVIOUS
<1> DEFINE items == IF broken THEN <<>> ELSE [i \in 1..m_allocated |-> object[Walk[i]]]
           n == m_allocated
<1>1. PICK f : Numbers(f, n, live, next, back, first, last)
  BY DEF IInv
<1>2. ASSUME NEW x \in Objects, Emplace(x) PROVE List!Next
  <2>1. PICK a \in Addr \ live :
         \/ /\ {FirstFor(a), LastFor(a)} \subseteq live \cup {a}
            /\ live' = live \cup {a}
            /\ object' = [object EXCEPT ![a] = x]
            /\ m_allocated' = m_allocated + 1
            /\ Link(a)
            /\ UNCHANGED broken
         \/ /\ ~({FirstFor(a), LastFor(a)} \subseteq live \cup {a})
            /\ broken' = TRUE
            /\ UNCHANGED <<nodes, first, last, m_allocated>>
    BY <1>2 DEF Emplace
  <2>2. CASE {FirstFor(a), LastFor(a)} \subseteq live \cup {a}
    <3> DEFINE g == Appended(f, n, a)
               old == [i \in 1..n |-> object[f[i]]]
    <3>1. IInv' /\ Numbers(g, n', live', next', back', first', last')
      BY <1>1, <1>2, <2>1, <2>2, EmplaceNumbers DEF Emplace
    <3>2. /\ items = old /\ \A i \in 1..n : f[i] \in live
          /\ n \in Nat /\ live \subseteq Addr /\ \A b \in live : object[b] \in Objects \cup {NULL}
      BY <1>1, <1>2, ItemsAre DEF Emplace
    <3>3. items' = [i \in 1..n' |-> object'[g[i]]]
      <4> DEFINE gg == g
      <4>1. Numbers(gg, m_allocated', live', next', back', first', last')
        BY <3>1
      <4>2. ~broken' /\ IInv'
        BY <1>2, <2>1, <2>2, <3>1 DEF Emplace
      <4>3. m_allocated' \in Nat
        BY <2>1, <2>2, <3>2
      <4> HIDE DEF g, gg, n
      <4>4. Walk' = gg
        BY <4>1, <4>3, WalkIsNumbers DEF Walk
      <4> QED BY <4>2, <4>4 DEF gg, n
    <3>4. object'[a] = x /\ \A b \in live : object'[b] = object[b]
      BY <2>1, <2>2, <3>2 DEF IInv, TypeOK
    <3>5. old \in Seq(Objects \cup {NULL}) /\ Len(old) = n
      BY <3>2
    <3>6. items' = Append(old, x)
      <4>1. n' = n + 1
        BY <2>1, <2>2
      <4>2. ASSUME NEW i \in 1..(n + 1) PROVE object'[g[i]] = Append(old, x)[i]
        <5>1. CASE i \in 1..n
          BY <3>2, <3>4, <3>5, <5>1 DEF Appended
        <5>2. CASE i = n + 1
          BY <3>2, <3>4, <3>5, <5>2 DEF Appended
        <5> QED BY <3>2, <5>1, <5>2
      <4>3. Append(old, x) = [i \in 1..(n + 1) |-> Append(old, x)[i]]
        <5> DEFINE T == Objects \cup {NULL} \cup {x}
        <5>1. old \in Seq(T) /\ x \in T
          BY <3>5
        <5> HIDE DEF old, T, n
        <5>2. Append(old, x) \in Seq(T) /\ Len(Append(old, x)) = n + 1
          BY <3>5, <5>1
        <5>3. \A s \in Seq(T) : s = [i \in 1..Len(s) |-> s[i]]
          OBVIOUS
        <5> DEFINE new == Append(old, x)
        <5>4. new \in Seq(T) /\ Len(new) = n + 1
          BY <5>2
        <5> HIDE DEF new
        <5>5. new = [i \in 1..(n + 1) |-> new[i]]
          BY <5>3, <5>4, Zenon
        <5> QED BY <5>5 DEF new
      <4> HIDE DEF old, g, n
      <4>4. [i \in 1..(n + 1) |-> object'[g[i]]] = [i \in 1..(n + 1) |-> Append(old, x)[i]]
        BY <4>2, Zenon
      <4> QED BY <3>3, <4>1, <4>3, <4>4
    <3>7. first' # NULL
      <4>1. n' > 0 /\ first' = g[1] /\ 1 \in 1..n' /\ g \in [1..n' -> live']
        <5>1. n' > 0 /\ 1 \in 1..n'
          BY <2>1, <2>2, <3>2
        <5> QED BY <3>1, <5>1 DEF Numbers
      <4>2. live' \subseteq Addr
        BY <3>1 DEF IInv, TypeOK
      <4> HIDE DEF g, n
      <4> QED BY <4>1, <4>2, RBufferAssumption
    <3>8. Len(items) < m_size
      BY <1>2, <3>2, <3>5 DEF Emplace, HasRoom
    <3>9. ~broken /\ ~broken'
      BY <1>2, <2>1, <2>2 DEF Emplace
    <3> HIDE DEF old, items
    <3>10. List!Emplace(x)
      <4>1. items' = Append(items, x) /\ (first' # NULL) = TRUE /\ broken' = broken
        BY <3>2, <3>6, <3>7, <3>9, <1>1, <2>1, <2>2
      <4> QED BY <3>8, <3>9, <4>1 DEF List!Emplace, items
    <3> QED BY <3>10 DEF List!Next
  <2>3. CASE ~({FirstFor(a), LastFor(a)} \subseteq live \cup {a})
    <3>1. UNCHANGED <<nodes, first, last, m_allocated>> /\ broken' = TRUE /\ ~broken
      BY <1>2, <2>1, <2>3 DEF Emplace
    <3>2. m_allocated = 0 /\ first # NULL
      BY <2>3, DeadAddress
    <3>3. items = <<>> /\ items' = <<>>
      BY <3>1, <3>2
    <3>4. List!Break
      BY <3>1, <3>2, <3>3 DEF List!Break
    <3> QED BY <3>4 DEF List!Next
  <2> QED BY <2>2, <2>3
<1>3. ASSUME NEW a \in live, Erase(a) PROVE List!Next
  <2>1. PICK k \in 1..n : f[k] = a
    BY <1>1 DEF Numbers
  <2> DEFINE g == ClosedUp(f, n, k)
             old == [i \in 1..n |-> object[f[i]]]
  <2>2. IInv' /\ Numbers(g, n', live', next', back', first', last')
    <3>1. Erase(f[k])
      BY <1>3, <2>1
    <3> QED BY <1>1, <3>1, EraseNumbers
  <2>3. /\ items = old /\ \A i \in 1..n : f[i] \in live
        /\ n \in Nat /\ live \subseteq Addr /\ \A b \in live : object[b] \in Objects \cup {NULL}
    BY <1>1, <1>3, ItemsAre DEF Erase
  <2>4. UNCHANGED <<object, broken>> /\ ~broken /\ n' = n - 1
    BY <1>3 DEF Erase
  <2>5. items' = [i \in 1..n' |-> object[g[i]]]
    <3>1. m_allocated' \in Nat /\ Numbers(g, m_allocated', live', next', back', first', last')
      BY <2>2, <2>3, <2>4
    <3> HIDE DEF g
    <3>2. Walk' = g
      BY <3>1, WalkIsNumbers DEF Walk
    <3> QED BY <2>4, <3>2
  <2>6. \A i \in 1..n' : object[g[i]] = IF i < k THEN old[i] ELSE old[i + 1]
    BY <2>3, <2>4 DEF ClosedUp
  <2>7. old \in Seq(Objects \cup {NULL}) /\ Len(old) = n
    BY <2>3
  <2>8. items' = [i \in 1..(Len(old) - 1) |-> IF i < k THEN old[i] ELSE old[i + 1]]
    <3> HIDE DEF old, g
    <3>1. [i \in 1..n' |-> object[g[i]]] = [i \in 1..n' |-> IF i < k THEN old[i] ELSE old[i + 1]]
      BY <2>6, Zenon
    <3> QED BY <2>4, <2>5, <2>7, <3>1
  <2>9. first # NULL <=> first' # NULL
    <3>1. first \in live /\ first' \in live
      <4>1. first \in live
        BY <1>1, <2>1, <2>3 DEF Numbers
      <4>2. CASE a # first
        BY <1>3, <4>1, <4>2 DEF Erase, NewFirst
      <4>3. CASE a = first
        <5>1. first' = next[f[1]] /\ k = 1 /\ 1 \in 1..n
          BY <1>1, <1>3, <2>1, <2>3, <4>3 DEF Erase, NewFirst, Numbers
        <5>2. PICK j \in 1..n : Behind(1, j, n)
          BY <2>3, <5>1 DEF Behind
        <5>3. next[f[1]] = f[j]
          BY <1>1, <5>1, <5>2 DEF Numbers
        <5> QED BY <2>3, <4>1, <5>1, <5>3
      <4> QED BY <4>1, <4>2, <4>3
    <3> QED BY <2>3, <3>1, RBufferAssumption
  <2> HIDE DEF old, items
  <2>10. List!Erase(k) /\ k \in 1..Len(items)
    BY <2>3, <2>4, <2>7, <2>8, <2>9 DEF List!Erase, items
  <2> QED BY <2>10 DEF List!Next, items
<1>4. CASE UNCHANGED vars
  BY <1>4 DEF vars, nodes, List!vars, Walk
<1> QED BY <1>2, <1>3, <1>4 DEF Next

(* Whatever nodes are allocated, linked and deleted, in whatever order and  *)
(* with whatever addresses reused, the ring is a bounded list in the order  *)
(* of emplace; and it can only break where it has been emptied before.      *)
THEOREM RingImplementsList == Spec => ImplementsRing
<1> QED BY InitList, NextList, Invariance, PTL DEF Spec, ImplementsRing, List!Spec

=============================================================================
