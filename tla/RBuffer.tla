------------------------------ MODULE RBuffer ------------------------------
(***************************************************************************)
(* rbuffer<T>, the doubly linked ring of the server's connections, node by *)
(* node and pointer by pointer.  The allocator may hand out the address of *)
(* a deleted node again.  Writing through a pointer to a deleted node is   *)
(* undefined: the model stops there with broken set.                       *)
(***************************************************************************)
EXTENDS Integers, Sequences, FiniteSets

CONSTANTS
  Addr,     (* the addresses operator new returns for nodes                *)
  NULL,     (* nullptr                                                     *)
  Objects,  (* what the nodes hold                                         *)
  m_size    (* the capacity                                                *)

ASSUME RBufferAssumption == NULL \notin Addr /\ m_size \in Nat

VARIABLES
  live,         (* the addresses of the nodes that exist                   *)
  object,       (* per address, the node's object                          *)
  next,         (* per address, the node's next                            *)
  back,         (* per address, the node's back                            *)
  first,
  last,
  m_allocated,
  broken        (* a deleted node was written to                           *)

nodes == <<live, object, next, back>>
vars == <<nodes, first, last, m_allocated, broken>>

Init ==
  /\ live = {}
  /\ object = [a \in Addr |-> NULL]
  /\ next = [a \in Addr |-> NULL]
  /\ back = [a \in Addr |-> NULL]
  /\ first = NULL
  /\ last = NULL
  /\ m_allocated = 0
  /\ broken = FALSE

(* Mutant: one node more than the capacity. *)
RoomForOneMore == m_allocated <= m_size

HasRoom == m_allocated < m_size

(* first and last as emplace sees them when it links node a. *)
FirstFor(a) == IF last = NULL \/ first = NULL THEN a ELSE first
LastFor(a) == IF last = NULL \/ first = NULL THEN a ELSE last

(* Mutant: last stays where it was. *)
LinkKeepingLast(a) ==
  /\ next' = [next EXCEPT ![a] = FirstFor(a), ![LastFor(a)] = a]
  /\ back' = [back EXCEPT ![FirstFor(a)] = a, ![a] = LastFor(a)]
  /\ first' = FirstFor(a)
  /\ last' = LastFor(a)

(* The four link assignments of emplace and its last = last->next. *)
Link(a) ==
  /\ next' = [next EXCEPT ![a] = FirstFor(a), ![LastFor(a)] = a]
  /\ back' = [back EXCEPT ![FirstFor(a)] = a, ![a] = LastFor(a)]
  /\ first' = FirstFor(a)
  /\ last' = a

(* emplace with room left; without it, it returns nullptr and changes nothing. *)
Emplace(x) ==
  /\ ~broken
  /\ HasRoom
  /\ \E a \in Addr \ live :
       \/ /\ {FirstFor(a), LastFor(a)} \subseteq live \cup {a}
          /\ live' = live \cup {a}
          /\ object' = [object EXCEPT ![a] = x]
          /\ m_allocated' = m_allocated + 1
          /\ Link(a)
          /\ UNCHANGED broken
       \/ /\ ~({FirstFor(a), LastFor(a)} \subseteq live \cup {a})
          /\ broken' = TRUE
          /\ UNCHANGED <<nodes, first, last, m_allocated>>

(* Mutant: erase forgets that last may be the node. *)
NewLastKept(a) == last

(* first and last once erase has bridged node a. *)
NewFirst(a) == IF a = first THEN next[a] ELSE first
NewLast(a) == IF a # first /\ a = last THEN back[a] ELSE last

(* erase on a node that exists: the callers pass one from emplace or from a *)
(* walk along the ring.                                                     *)
Erase(a) ==
  /\ ~broken
  /\ next' = [next EXCEPT ![back[a]] = next[a]]
  /\ back' = [back EXCEPT ![next[a]] = back[a]]
  /\ first' = NewFirst(a)
  /\ last' = NewLast(a)
  /\ live' = live \ {a}
  /\ m_allocated' = m_allocated - 1
  /\ UNCHANGED <<object, broken>>

Next ==
  \/ \E x \in Objects : Emplace(x)
  \/ \E a \in live : Erase(a)

Spec == Init /\ [][Next]_vars

----------------------------------------------------------------------------
(* Properties.                                                             *)

(* Every variable has its type, and pointers are addresses or NULL. *)
TypeOK ==
  /\ live \subseteq Addr
  /\ object \in [Addr -> Objects \cup {NULL}]
  /\ next \in [Addr -> Addr \cup {NULL}]
  /\ back \in [Addr -> Addr \cup {NULL}]
  /\ first \in Addr \cup {NULL}
  /\ last \in Addr \cup {NULL}
  /\ m_allocated \in 0..m_size
  /\ broken \in BOOLEAN

(* The node a walk from first along next stands on at its i-th step.       *)
Walk ==
  LET w[i \in 1..m_allocated] == IF i = 1 THEN first ELSE next[w[i - 1]]
  IN w

(* While the ring is not broken, a walk of size() steps from pFirst() meets *)
(* every node once and ends at pLast(), whose next is first again, and back *)
(* undoes next: the walks of SendSequenceEachClient and server_start end.   *)
Circular ==
  ~broken /\ m_allocated > 0 =>
    /\ {Walk[i] : i \in 1..m_allocated} = live
    /\ Cardinality(live) = m_allocated
    /\ Walk[m_allocated] = last
    /\ next[last] = first
    /\ \A a \in live : back[next[a]] = a

(* The ring implements the bounded list, until the element it held alone    *)
(* has been erased.                                                         *)
List == INSTANCE Ring WITH
  items <- IF broken THEN <<>> ELSE [i \in 1..m_allocated |-> object[Walk[i]]],
  used <- first # NULL

ImplementsRing == List!Spec
=============================================================================
