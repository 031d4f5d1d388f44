---------------------------- MODULE ServerProofs ----------------------------
(***************************************************************************)
(* Theorems about the server, for any number of clients, addresses,        *)
(* messages and failures: its pool stays a ring while walks and emplace    *)
(* overlap, every walk reaches whom it has to, and the whole implements    *)
(* Relay.                                                                  *)
(*                                                                         *)
(* The inductive invariant numbers the nodes of the ring and relates every *)
(* walk's place in it to whom the walk has sent its message.               *)
(***************************************************************************)
EXTENDS Server, RingNumbers, SequenceTheorems

(* The node that is not part of the ring: on its way in or out. *)
Apart == main.pc \in {"forward", "into", "delete"}
On == IF Apart THEN live \ {main.node} ELSE live
Count == IF Apart THEN m_allocated - 1 ELSE m_allocated

(* first->back is the one pointer that emplace has moved already. *)
Back == IF main.pc = "into" THEN [back EXCEPT ![first] = last] ELSE back

Ringed(f) == Numbers(f, Count, On, next, Back, first, last)

(* The node of server_start. *)
NodeOK ==
  /\ main.pc \notin {"reap", "accept"} => main.node \in live
  /\ main.pc = "forward" => next[main.node] = NULL
  /\ main.pc \in {"forward", "into"} => first # NULL
  /\ main.pc = "into" => next[main.node] = first /\ back[first] = main.node
                         /\ first \in live /\ last \in live
  /\ main.pc \in {"welcome", "start"} => object[main.node] \in Clients
  /\ main.pc \in {"unlink", "delete"} => object[main.node] = Invalid
  /\ main.pc = "unlink" => main.node = last
  /\ main.pc = "delete" => next[main.node] = first
  /\ Count \in Nat
  /\ Count = 0 => first = last

(* A node holds a client of its own; that of a failed accept is about to be *)
(* deleted again.                                                           *)
ObjectsOK ==
  /\ \A a \in live : \/ object[a] \in Clients
                     \/ /\ object[a] = Invalid /\ failures > 0 /\ a = main.node
                        /\ main.pc \in {"forward", "into", "unlink", "delete"}
  /\ \A a, b \in live : object[a] = object[b] => a = b

Member(c) == \E a \in live : object[a] = c

(* A client is away, then it waits to be accepted, then it has its node;    *)
(* only a client with a node in the ring has a receiver.                    *)
ClientsOK ==
  /\ \A c \in Clients : thread[c] # "none" => thread[c] = "running" /\ \E a \in On : object[a] = c
  /\ \A c \in Clients : client[c] = "away" => c \notin backlog
  /\ \A c \in Clients : Member(c) => c \notin backlog /\ client[c] # "away"
  /\ \A c \in Clients : ~ Member(c) => out[c] = <<>>

(* As long as every accept succeeds the ring keeps all its nodes. *)
IntactOK ==
  /\ failures = 0 => first \in live \cup {NULL}
  /\ proc = "deleted" => failures > 0

Given(c, m) == c \in Clients /\ \E i \in 1..Len(out[c]) : out[c][i] = m
Served(c, m) == client[c] = "gone" \/ Given(c, m)

Active(t) == walk[t] # Idle

(* Which messages there are, and which of them each client may have. *)
MessagesOK ==
  /\ \A m \in 1..Len(posted) : \A c \in posted[m].to :
       c # posted[m].source /\ \E a \in On : object[a] = c
  /\ \A c \in Clients : \A i \in 1..Len(out[c]) : out[c][i] = Welcome \/ out[c][i] \in 1..Len(posted)
  /\ \A t \in Threads : Active(t) =>
       /\ walk[t].pfirst = first /\ first # NULL
       /\ walk[t].msg \in 1..Len(posted) /\ posted[walk[t].msg].source = t
       /\ \A m \in 1..Len(posted) : posted[m].source = t => m <= walk[t].msg
  /\ \A m \in 1..Len(posted) : Over(m) => \A c \in posted[m].to : Served(c, m)
  /\ main.pc \in {"forward", "into", "welcome"} => ~ Given(object[main.node], Welcome)

(* Walk w has been at the i-th node. *)
Passed(f, n, w, i) == \A k \in 1..n : f[k] = w.cnode => i < k \/ (i = k /\ w.sent)

(* A walk has served whom it has passed, and no one else. *)
Placed(f) ==
  \A t \in Threads : Active(t) => \A i \in 1..Count :
    /\ Passed(f, Count, walk[t], i) /\ object[f[i]] \in posted[walk[t].msg].to
         => Served(object[f[i]], walk[t].msg)
    /\ Given(object[f[i]], walk[t].msg) => Passed(f, Count, walk[t], i)

(* Only a walk of the worker, with nobody to serve, leaves the ring. *)
ApartOK ==
  \A t \in Threads : Active(t) =>
    /\ main.pc \in {"forward", "into"} /\ Given(object[main.node], walk[t].msg) =>
         walk[t].cnode = NULL \/ (walk[t].cnode = main.node /\ walk[t].sent)
    /\ failures = 0 /\ walk[t].cnode \notin On =>
         /\ t = Worker /\ posted[walk[t].msg].to = {}
         /\ walk[t].cnode \in live \cup {NULL}

IInv ==
  /\ TypeOK
  /\ NodeOK
  /\ ObjectsOK
  /\ ClientsOK
  /\ IntactOK
  /\ MessagesOK
  /\ ApartOK
  /\ \E f : Ringed(f) /\ Placed(f)

----------------------------------------------------------------------------
LEMMA InitIInv == Init => IInv
<1> SUFFICES ASSUME Init PROVE IInv
  OBVIOUS
<1> USE DEF Init, cpull!Init, At
<1>1. TypeOK
  <2>1. /\ [a \in Addr |-> NULL] \in [Addr -> Addr \cup {NULL}]
        /\ [a \in Addr |-> NULL] \in [Addr -> Objects \cup {NULL}]
    OBVIOUS
  <2>2. cpull!TypeOK
    BY <2>1, ServerAssumption DEF cpull!TypeOK
  <2>3. /\ main \in [pc : {"reap", "accept", "forward", "into", "unlink", "delete", "welcome", "start"},
                    node : Addr \cup {NULL}]
        /\ thread \in [Clients -> {"none", "running", "ended"}]
        /\ walk \in [Threads -> {Idle}]
        /\ client \in [Clients -> {"away", "open", "gone"}]
        /\ out \in [Clients -> Seq(Nat \cup {Welcome})]
        /\ posted \in Seq([source : Threads, to : SUBSET Clients])
        /\ failures \in 0..MaxFailures
    BY ServerAssumption
  <2> QED BY <2>2, <2>3, Zenon DEF TypeOK
<1>2. NodeOK
  BY DEF NodeOK, Count, Apart
<1>3. ObjectsOK /\ ClientsOK /\ IntactOK
  BY DEF ObjectsOK, ClientsOK, Member, IntactOK
<1>4. MessagesOK /\ ApartOK /\ \A f : Placed(f)
  BY DEF MessagesOK, ApartOK, Placed, Active
<1>5. Ringed([i \in 1..0 |-> NULL])
  BY DEF Ringed, Numbers, Count, On, Apart
<1> QED BY <1>1, <1>2, <1>3, <1>4, <1>5 DEF IInv

(* What the invariant says of the ring alone. *)
LEMMA RingFacts ==
  ASSUME IInv, NEW f, Ringed(f)
  PROVE  /\ Count \in Nat /\ On \subseteq live /\ live \subseteq Addr /\ NULL \notin Addr
         /\ f \in [1..Count -> On]
         /\ \A i, j \in 1..Count : f[i] = f[j] => i = j
         /\ \A a \in On : \E i \in 1..Count : f[i] = a
         /\ Count > 0 => /\ first = f[1] /\ last = f[Count] /\ 1 \in 1..Count /\ Count \in 1..Count
                         /\ first \in On /\ last \in On
         /\ Count = 0 => On = {} /\ first = last
         /\ \A i \in 1..Count : i < Count => i + 1 \in 1..Count /\ next[f[i]] = f[i + 1]
         /\ Count > 0 => next[f[Count]] = first
         /\ \A a \in On : next[a] \in On
<1>1. /\ Count \in Nat /\ On \subseteq live /\ live \subseteq Addr /\ NULL \notin Addr
      /\ Count = 0 => first = last
  BY ServerAssumption DEF IInv, NodeOK, TypeOK, cpull!TypeOK, On
<1>2. /\ f \in [1..Count -> On]
      /\ \A i, j \in 1..Count : f[i] = f[j] => i = j
      /\ \A a \in On : \E i \in 1..Count : f[i] = a
      /\ Count > 0 => first = f[1] /\ last = f[Count]
      /\ \A i, j \in 1..Count : Behind(i, j, Count) => next[f[i]] = f[j]
  BY DEF Ringed, Numbers
<1>3. Count > 0 => /\ 1 \in 1..Count /\ Count \in 1..Count
                  /\ first \in On /\ next[f[Count]] = first /\ last \in On
  BY <1>1, <1>2 DEF Behind
<1>4. \A i \in 1..Count : i < Count => i + 1 \in 1..Count /\ next[f[i]] = f[i + 1]
  BY <1>1, <1>2 DEF Behind
<1>5. Count = 0 => On = {}
  BY <1>2
<1>6. ASSUME NEW a \in On PROVE next[a] \in On
  <2>1. PICK i \in 1..Count : f[i] = a
    BY <1>2
  <2>2. CASE i = Count
    BY <1>1, <1>3, <2>1, <2>2
  <2>3. CASE i < Count
    BY <1>1, <1>2, <1>4, <2>1, <2>3
  <2> QED BY <1>1, <2>2, <2>3
<1> QED BY <1>1, <1>2, <1>3, <1>4, <1>5, <1>6

(* The types, taken apart. *)
LEMMA Types ==
  ASSUME IInv
  PROVE  /\ live \subseteq Addr /\ object \in [Addr -> Objects \cup {NULL}]
         /\ next \in [Addr -> Addr \cup {NULL}] /\ back \in [Addr -> Addr \cup {NULL}]
         /\ first \in Addr \cup {NULL} /\ last \in Addr \cup {NULL}
         /\ m_allocated \in 0..maxconnlen
         /\ thread \in [Clients -> {"none", "running", "ended"}]
         /\ walk \in [Threads -> {Idle} \cup [msg : Nat \ {0}, pfirst : Addr,
                                              cnode : Addr \cup {NULL}, sent : BOOLEAN]]
         /\ client \in [Clients -> {"away", "open", "gone"}]
         /\ backlog \subseteq Clients
         /\ posted \in Seq([source : Threads, to : SUBSET Clients])
         /\ out \in [Clients -> Seq(Nat \cup {Welcome})]
         /\ failures \in 0..MaxFailures
         /\ \A m \in 1..Len(posted) : posted[m].source \in Threads /\ posted[m].to \subseteq Clients
<1>1. posted \in Seq([source : Threads, to : SUBSET Clients])
  BY DEF IInv, TypeOK
<1>2. ASSUME NEW m \in 1..Len(posted)
      PROVE  posted[m].source \in Threads /\ posted[m].to \subseteq Clients
  <2>1. posted[m] \in [source : Threads, to : SUBSET Clients]
    BY <1>1, ElementOfSeq
  <2> QED BY <2>1
<1> QED BY <1>1, <1>2 DEF IInv, TypeOK, cpull!TypeOK

(* Steps that end the process, or that touch nothing. *)
LEMMA StopStep ==
  ASSUME IInv, UNCHANGED <<ring, main, thread, walk, client, backlog, posted, out, failures>>,
         proc' \in {"running", "terminated", "nullptr", "deleted"},
         proc' = "deleted" => proc = "deleted" \/ failures > 0
  PROVE  IInv'
<1>1. TypeOK'
  BY DEF ring, IInv, TypeOK, cpull!TypeOK
<1>2. NodeOK' /\ ObjectsOK' /\ ClientsOK' /\ MessagesOK' /\ ApartOK' /\ IntactOK'
  BY DEF ring, IInv, NodeOK, Count, Apart, ObjectsOK, ClientsOK, Member, On, MessagesOK, Active, Over,
         Served, Given, ApartOK, IntactOK
<1>3. PICK f : Ringed(f) /\ Placed(f)
  BY DEF IInv
<1>4. Ringed(f)'
  BY <1>3 DEF ring, Ringed, Count, On, Apart, Back
<1>5. Placed(f)'
  BY <1>3 DEF ring, Placed, Count, Apart, Active, Served, Given
<1> QED BY <1>1, <1>2, <1>4, <1>5 DEF IInv

(* As long as every accept succeeds no node is deleted: nothing reaches one. *)
LEMMA BrokenStep == IInv /\ EmplaceForward /\ Broken => IInv'
<1> SUFFICES ASSUME IInv, main.pc = "forward", ~({first, last} \subseteq live), Broken,
                    failures = 0
             PROVE  FALSE
  <2>1. ASSUME IInv, EmplaceForward, Broken PROVE main.pc = "forward" /\ ~({first, last} \subseteq live)
    BY <2>1 DEF EmplaceForward, Broken, At, IInv, TypeOK
  <2>2. IInv => failures \in Nat
    BY ServerAssumption, Types
  <2> QED BY <2>1, <2>2, StopStep DEF Broken
<1>1. PICK f : Ringed(f)
  BY DEF IInv
<1>2. first \in live
  BY DEF IInv, IntactOK, NodeOK
<1>3. last \in live
  BY <1>1, <1>2, RingFacts
<1> QED BY <1>2, <1>3

LEMMA WalkStops == ASSUME IInv, NEW t \in Threads, WalkNull(t) \/ WalkDeleted(t) PROVE IInv'
<1>1. CASE WalkNull(t)
  BY <1>1, StopStep DEF WalkNull
<1>2. CASE WalkDeleted(t)
  <2>1. failures \in Nat
    BY ServerAssumption, Types
  <2>2. ASSUME failures = 0 PROVE FALSE
    <3>1. walk[t].cnode \in Addr \ live /\ walk[t] # Idle
      BY <1>2 DEF WalkDeleted
    <3>2. walk[t].cnode \notin On
      BY <3>1 DEF On
    <3>3. walk[t].cnode \in live \cup {NULL}
      BY <2>2, <3>1, <3>2 DEF IInv, ApartOK, Active
    <3> QED BY <3>1, <3>3, ServerAssumption
  <2> QED BY <1>2, <2>1, <2>2, StopStep DEF WalkDeleted
<1> QED BY <1>1, <1>2

LEMMA ReadsNothingStep == ASSUME IInv, NEW c \in Clients, ReadsNothing(c) PROVE IInv'
BY StopStep DEF ReadsNothing, Unfinished

(* A client that leaves has nothing more to be served with. *)
LEMMA LeaveStep == ASSUME IInv, NEW c \in Clients, Leave(c) PROVE IInv'
<1>1. client' = [client EXCEPT ![c] = "gone"] /\ client[c] = "open"
      /\ UNCHANGED <<ring, main, thread, walk, backlog, posted, out, failures, proc>>
  BY DEF Leave
<1>2. TypeOK'
  BY <1>1 DEF ring, IInv, TypeOK, cpull!TypeOK
<1>3. NodeOK' /\ ObjectsOK' /\ IntactOK' /\ ApartOK'
  BY <1>1 DEF ring, IInv, NodeOK, Count, Apart, ObjectsOK, IntactOK, ApartOK, Active, Given, On
<1>4. ClientsOK'
  <2>1. client \in [Clients -> {"away", "open", "gone"}]
    BY Types
  <2> QED BY <1>1, <2>1 DEF ring, IInv, ClientsOK, Member, On, Apart
<1>5. \A x \in Clients : \A m : Served(x, m) => Served(x, m)'
  BY <1>1, Types DEF Served, Given
<1>6. MessagesOK'
  <2>1. \A m \in 1..Len(posted) : posted[m].to \subseteq Clients
    BY Types
  <2>2. \A m \in 1..Len(posted) : Over(m) => \A x \in posted[m].to : Served(x, m)'
    BY <1>5, <2>1 DEF IInv, MessagesOK
  <2> QED BY <1>1, <2>2 DEF ring, IInv, MessagesOK, On, Apart, Active, Over, Given
<1>7. PICK f : Ringed(f) /\ Placed(f)
  BY DEF IInv
<1>8. Ringed(f)'
  BY <1>1, <1>7 DEF ring, Ringed, Count, On, Apart, Back
<1>9. Placed(f)'
  <2>1. \A t \in Threads : Active(t) => posted[walk[t].msg].to \subseteq Clients
    BY Types DEF IInv, MessagesOK
  <2> QED BY <1>1, <1>5, <1>7, <2>1 DEF ring, Placed, Count, Apart, Active, Given
<1> QED BY <1>2, <1>3, <1>4, <1>6, <1>8, <1>9 DEF IInv

LEMMA ConnectStep == ASSUME IInv, NEW c \in Clients, Connect(c) PROVE IInv'
<1>1. /\ client[c] = "away" /\ UNCHANGED <<ring, main, thread, walk, posted, out, failures, proc>>
      /\ \/ client' = [client EXCEPT ![c] = "open"] /\ backlog' = backlog \cup {c}
         \/ client' = [client EXCEPT ![c] = "gone"] /\ UNCHANGED backlog
  BY DEF Connect
<1>2. client \in [Clients -> {"away", "open", "gone"}] /\ backlog \subseteq Clients
  BY Types
<1>3. /\ client' \in [Clients -> {"away", "open", "gone"}] /\ backlog' \subseteq backlog \cup {c}
      /\ client'[c] # "away" /\ \A x \in Clients : x # c => client'[x] = client[x]
  BY <1>1, <1>2
<1>4. TypeOK'
  BY <1>1, <1>2, <1>3 DEF ring, IInv, TypeOK, cpull!TypeOK
<1>5. NodeOK' /\ ObjectsOK' /\ IntactOK' /\ ApartOK'
  BY <1>1 DEF ring, IInv, NodeOK, Count, Apart, ObjectsOK, IntactOK, ApartOK, Active, Given, On
<1>6. ClientsOK'
  BY <1>1, <1>3 DEF ring, IInv, ClientsOK, Member, On, Apart
<1>7. \A x \in Clients : \A m : Served(x, m) => Served(x, m)'
  BY <1>1, <1>3 DEF Served, Given
<1>8. MessagesOK'
  <2>1. \A m \in 1..Len(posted) : Over(m) => \A x \in posted[m].to : Served(x, m)'
    BY <1>7, Types DEF IInv, MessagesOK
  <2> QED BY <1>1, <2>1 DEF ring, IInv, MessagesOK, On, Apart, Active, Over, Given
<1>9. PICK f : Ringed(f) /\ Placed(f)
  BY DEF IInv
<1>10. Ringed(f)'
  BY <1>1, <1>9 DEF ring, Ringed, Count, On, Apart, Back
<1>11. Placed(f)'
  <2>1. \A t \in Threads : Active(t) => posted[walk[t].msg].to \subseteq Clients
    BY Types DEF IInv, MessagesOK
  <2> QED BY <1>1, <1>7, <1>9, <2>1 DEF ring, Placed, Count, Apart, Active, Given
<1> QED BY <1>4, <1>5, <1>6, <1>8, <1>10, <1>11 DEF IInv

(* No receiver ever returns: the reaper finds nothing to erase. *)
LEMMA ReapStep == IInv /\ Reap => IInv'
<1> SUFFICES ASSUME IInv, Reap PROVE IInv'
  OBVIOUS
<1>1. Closed = {}
  BY DEF IInv, ClientsOK, Closed
<1>2. /\ main.pc = "reap" /\ main' \in {At("reap", NULL), At("accept", NULL)}
      /\ UNCHANGED <<ring, thread, walk, client, backlog, posted, out, failures, proc>>
  BY <1>1 DEF Reap
<1>3. main'.pc \in {"reap", "accept"} /\ main'.node = NULL
      /\ main' \in [pc : {"reap", "accept", "forward", "into", "unlink", "delete", "welcome", "start"},
                    node : Addr \cup {NULL}]
  BY <1>2 DEF At
<1>4. ~ Apart /\ ~ Apart' /\ main.pc # "into" /\ main'.pc # "into"
  BY <1>2, <1>3 DEF Apart
<1>5. On' = On /\ Count' = Count /\ Back' = Back
  BY <1>2, <1>4 DEF ring, On, Count, Back
<1>6. TypeOK'
  BY <1>2, <1>3 DEF ring, IInv, TypeOK, cpull!TypeOK
<1>7. NodeOK' /\ ObjectsOK' /\ IntactOK'
  BY <1>2, <1>3, <1>5 DEF ring, IInv, NodeOK, ObjectsOK, IntactOK
<1>8. ClientsOK' /\ ApartOK'
  BY <1>2, <1>3, <1>5 DEF ring, IInv, ClientsOK, Member, ApartOK, Active, Given
<1>9. MessagesOK'
  BY <1>2, <1>3, <1>5 DEF ring, IInv, MessagesOK, Active, Over, Given, Served
<1>10. PICK f : Ringed(f) /\ Placed(f)
  BY DEF IInv
<1>11. Ringed(f)' /\ Placed(f)'
  BY <1>2, <1>5, <1>10 DEF ring, Ringed, Placed, Active, Given, Served
<1> QED BY <1>6, <1>7, <1>8, <1>9, <1>11 DEF IInv

LEMMA StartReceiverStep == IInv /\ StartReceiver => IInv'
<1> SUFFICES ASSUME IInv, StartReceiver PROVE IInv'
  OBVIOUS
<1> DEFINE c == object[main.node]
<1>1. /\ main.pc = "start" /\ main' \in {At("reap", NULL), At("accept", NULL)}
      /\ thread' = thread \/ thread' = [thread EXCEPT ![c] = "running"]
      /\ UNCHANGED <<ring, walk, client, backlog, posted, out, failures, proc>>
  BY DEF StartReceiver
<1>2. main'.pc \in {"reap", "accept"} /\ main'.node = NULL
      /\ main' \in [pc : {"reap", "accept", "forward", "into", "unlink", "delete", "welcome", "start"},
                    node : Addr \cup {NULL}]
  BY <1>1 DEF At
<1>3. ~ Apart /\ ~ Apart' /\ main.pc # "into" /\ main'.pc # "into"
  BY <1>1, <1>2 DEF Apart
<1>4. On' = On /\ Count' = Count /\ Back' = Back
  BY <1>1, <1>3 DEF ring, On, Count, Back
<1>5. c \in Clients /\ main.node \in On
  BY <1>1, <1>3 DEF IInv, NodeOK, On
<1>6. thread \in [Clients -> {"none", "running", "ended"}]
  BY Types
<1> HIDE DEF c
<1>7. TypeOK'
  BY <1>1, <1>2, <1>6 DEF ring, IInv, TypeOK, cpull!TypeOK
<1>8. NodeOK' /\ ObjectsOK' /\ IntactOK'
  BY <1>1, <1>2, <1>4 DEF ring, IInv, NodeOK, ObjectsOK, IntactOK
<1>9. ClientsOK'
  <2>1. \A x \in Clients : thread'[x] # thread[x] => x = c /\ thread'[x] = "running"
    BY <1>1, <1>5, <1>6
  <2>2. \A x \in Clients : thread'[x] # "none" =>
          thread'[x] = "running" /\ \E a \in On : object[a] = x
    BY <1>5, <2>1 DEF IInv, ClientsOK, c
  <2> QED BY <1>1, <1>4, <2>2 DEF ring, IInv, ClientsOK, Member
<1>10. MessagesOK' /\ ApartOK'
  BY <1>1, <1>2, <1>4 DEF ring, IInv, MessagesOK, Active, Over, Given, Served, ApartOK
<1>11. PICK f : Ringed(f) /\ Placed(f)
  BY DEF IInv
<1>12. Ringed(f)' /\ Placed(f)'
  BY <1>1, <1>4, <1>11 DEF ring, Ringed, Placed, Active, Given, Served
<1> QED BY <1>7, <1>8, <1>9, <1>10, <1>12 DEF IInv

(* What send() adds to what the clients were given. *)
LEMMA SentFacts ==
  ASSUME IInv, NEW x, NEW m \in Nat \cup {Welcome}, out' = Sent(x, m), UNCHANGED client
  PROVE  /\ out' \in [Clients -> Seq(Nat \cup {Welcome})]
         /\ \A c, v : Given(c, v)' <=> Given(c, v) \/ (c \in Clients /\ c = x /\ client[c] = "open" /\ v = m)
         /\ \A c, v : Served(c, v) => Served(c, v)'
         /\ \A c \in Clients : c # x => out'[c] = out[c]
         /\ \A c \in Clients : \A i \in 1..Len(out'[c]) : Given(c, out'[c][i]) \/ out'[c][i] = m
<1> DEFINE T == Nat \cup {Welcome}
<1>1. out \in [Clients -> Seq(T)] /\ m \in T
  BY Types
<1> HIDE DEF T
<1>2. CASE ~(x \in Clients /\ client[x] = "open")
  BY <1>1, <1>2 DEF Sent, Given, Served, T
<1>3. CASE x \in Clients /\ client[x] = "open"
  <2>1. out' = [out EXCEPT ![x] = Append(@, m)]
    BY <1>3 DEF Sent
  <2>2. out'[x] = Append(out[x], m) /\ \A c \in Clients : c # x => out'[c] = out[c]
    BY <1>1, <1>3, <2>1
  <2>3. /\ Append(out[x], m) \in Seq(T) /\ Len(Append(out[x], m)) = Len(out[x]) + 1
        /\ Len(out[x]) \in Nat
        /\ \A i \in 1..Len(out[x]) : Append(out[x], m)[i] = out[x][i]
        /\ Append(out[x], m)[Len(out[x]) + 1] = m
    BY <1>1, <1>3, AppendProperties, LenProperties
  <2>4. out' \in [Clients -> Seq(T)]
    BY <1>1, <2>1, <2>2, <2>3
  <2>5. ASSUME NEW c \in Clients, NEW i \in 1..Len(out'[c])
        PROVE  Given(c, out'[c][i]) \/ (c = x /\ out'[c][i] = m)
    <3>1. CASE c = x /\ i = Len(out[x]) + 1
      BY <2>2, <2>3, <3>1
    <3>2. CASE c = x /\ i # Len(out[x]) + 1
      <4>1. i \in 1..Len(out[x])
        BY <2>2, <2>3, <3>2
      <4> QED BY <2>2, <2>3, <3>2, <4>1 DEF Given
    <3>3. CASE c # x
      BY <2>2, <3>3 DEF Given
    <3> QED BY <3>1, <3>2, <3>3
  <2>6. ASSUME NEW c, NEW v, Given(c, v) PROVE Given(c, v)'
    <3>1. PICK i \in 1..Len(out[c]) : out[c][i] = v
      BY <2>6 DEF Given
    <3>2. c \in Clients
      BY <2>6 DEF Given
    <3>3. i \in 1..Len(out'[c]) /\ out'[c][i] = v
      <4>1. CASE c = x
        BY <2>2, <2>3, <3>1, <4>1
      <4>2. CASE c # x
        BY <2>2, <3>1, <3>2, <4>2
      <4> QED BY <4>1, <4>2
    <3> QED BY <3>2, <3>3 DEF Given
  <2>7. Given(x, m)'
    <3>1. Len(out[x]) + 1 \in 1..Len(out'[x]) /\ out'[x][Len(out[x]) + 1] = m
      BY <2>2, <2>3
    <3> QED BY <1>3, <3>1 DEF Given
  <2>8. \A c, v : Given(c, v)' <=> Given(c, v) \/ (c \in Clients /\ c = x /\ client[c] = "open" /\ v = m)
    <3>1. ASSUME NEW c, NEW v, Given(c, v)'
          PROVE  Given(c, v) \/ (c \in Clients /\ c = x /\ client[c] = "open" /\ v = m)
      <4>1. PICK i \in 1..Len(out'[c]) : out'[c][i] = v /\ c \in Clients
        BY <3>1 DEF Given
      <4> QED BY <1>3, <2>5, <4>1
    <3> QED BY <2>6, <2>7, <3>1
  <2>9. \A c, v : Served(c, v) => Served(c, v)'
    BY <2>6 DEF Served
  <2> QED BY <2>2, <2>4, <2>5, <2>8, <2>9 DEF T
<1> QED BY <1>2, <1>3

LEMMA SendWelcomeStep == IInv /\ SendWelcome => IInv'
<1> SUFFICES ASSUME IInv, SendWelcome PROVE IInv'
  OBVIOUS
<1> DEFINE x == object[main.node]
<1>1. /\ main.pc = "welcome" /\ main' = At("start", main.node) /\ out' = Sent(x, Welcome)
      /\ UNCHANGED <<ring, thread, walk, client, backlog, posted, failures, proc>>
  BY DEF SendWelcome
<1>2. /\ main'.pc = "start" /\ main'.node = main.node
      /\ main' \in [pc : {"reap", "accept", "forward", "into", "unlink", "delete", "welcome", "start"},
                    node : Addr \cup {NULL}]
  BY <1>1 DEF At, IInv, TypeOK
<1>3. ~ Apart /\ ~ Apart' /\ main.pc # "into" /\ main'.pc # "into"
  BY <1>1, <1>2 DEF Apart
<1>4. On' = On /\ Count' = Count /\ Back' = Back
  BY <1>1, <1>3 DEF ring, On, Count, Back
<1>5. x \in Clients /\ Member(x)
  BY <1>1 DEF IInv, NodeOK, Member
<1>6. /\ out' \in [Clients -> Seq(Nat \cup {Welcome})]
      /\ \A c, v : Given(c, v)' <=> Given(c, v) \/ (c \in Clients /\ c = x /\ client[c] = "open" /\ v = Welcome)
      /\ \A c, v : Served(c, v) => Served(c, v)'
      /\ \A c \in Clients : c # x => out'[c] = out[c]
      /\ \A c \in Clients : \A i \in 1..Len(out'[c]) : Given(c, out'[c][i]) \/ out'[c][i] = Welcome
  <2>1. UNCHANGED client
    BY <1>1
  <2> HIDE DEF x
  <2> QED BY <1>1, <2>1, SentFacts
<1> HIDE DEF x
<1>7. TypeOK'
  BY <1>1, <1>2, <1>6 DEF ring, IInv, TypeOK, cpull!TypeOK
<1>8. NodeOK' /\ ObjectsOK' /\ IntactOK'
  BY <1>1, <1>2, <1>4, <1>5 DEF ring, IInv, NodeOK, ObjectsOK, IntactOK, x
<1>9. ClientsOK'
  BY <1>1, <1>4, <1>5, <1>6 DEF ring, IInv, ClientsOK, Member
<1>m. \A t \in Threads : Active(t) => walk[t].msg # Welcome
  <2>1. \A t \in Threads : Active(t) => walk[t].msg \in 1..Len(posted)
    BY DEF IInv, MessagesOK
  <2>2. Len(posted) \in Nat
    BY Types, LenProperties
  <2> QED BY <2>1, <2>2, ServerAssumption
<1>10. MessagesOK'
  <2>1. \A c \in Clients : \A i \in 1..Len(out'[c]) : out'[c][i] = Welcome \/ out'[c][i] \in 1..Len(posted)
    BY <1>6 DEF IInv, MessagesOK, Given
  <2> QED BY <1>1, <1>2, <1>4, <1>6, <2>1 DEF ring, IInv, MessagesOK, Active, Over
<1>11. ApartOK'
  BY <1>1, <1>2, <1>4 DEF ring, IInv, ApartOK, Active
<1>12. PICK f : Ringed(f) /\ Placed(f)
  BY DEF IInv
<1>13. Ringed(f)'
  BY <1>1, <1>4, <1>12 DEF ring, Ringed
<1>14. Placed(f)'
  BY <1>1, <1>4, <1>6, <1>12, <1>m DEF ring, Placed, Active
<1> QED BY <1>7, <1>8, <1>9, <1>10, <1>11, <1>13, <1>14 DEF IInv

(* What a walk keeps while it lasts: its message is posted by its thread,   *)
(* and it began at the node that still is the first.                        *)
LEMMA ActiveFacts ==
  ASSUME IInv, NEW t \in Threads, Active(t)
  PROVE  /\ walk[t] \in [msg : Nat \ {0}, pfirst : Addr, cnode : Addr \cup {NULL}, sent : BOOLEAN]
         /\ walk[t].msg \in 1..Len(posted) /\ walk[t].msg # Welcome /\ Len(posted) \in Nat
         /\ posted[walk[t].msg].source = t /\ posted[walk[t].msg].to \subseteq Clients
         /\ walk[t].pfirst = first /\ first # NULL
<1>1. walk[t] \in [msg : Nat \ {0}, pfirst : Addr, cnode : Addr \cup {NULL}, sent : BOOLEAN]
  BY Types DEF Active
<1>2. /\ walk[t].msg \in 1..Len(posted) /\ posted[walk[t].msg].source = t
      /\ walk[t].pfirst = first /\ first # NULL
  BY DEF IInv, MessagesOK
<1>3. Len(posted) \in Nat
  BY Types, LenProperties
<1> QED BY <1>1, <1>2, <1>3, Types, ServerAssumption

(* The client that WalkSend sends to has not been sent the message before. *)
LEMMA NotGivenYet ==
  ASSUME IInv, NEW t \in Threads, WalkSend(t)
  PROVE  ~ Given(object[walk[t].cnode], walk[t].msg)
<1> DEFINE a == walk[t].cnode
<1>1. Active(t) /\ ~walk[t].sent /\ a \in live
  BY DEF WalkSend, Active
<1>2. PICK f : Ringed(f) /\ Placed(f)
  BY DEF IInv
<1>3. CASE a \in On
  <2>1. PICK i \in 1..Count : f[i] = a
    BY <1>2, <1>3, RingFacts
  <2>2. ~ Passed(f, Count, walk[t], i)
    <3>1. ~(i < i)
      BY <1>2, RingFacts
    <3> QED BY <1>1, <2>1, <3>1 DEF Passed
  <2> QED BY <1>1, <1>2, <2>1, <2>2 DEF Placed
<1>4. CASE a \notin On
  <2>1. a = main.node /\ Apart /\ a # NULL
    BY <1>1, <1>4, <1>2, RingFacts DEF On
  <2>2. CASE main.pc = "delete"
    BY <2>1, <2>2, ServerAssumption DEF IInv, NodeOK, Given
  <2>3. CASE main.pc \in {"forward", "into"}
    BY <1>1, <2>1, <2>3 DEF IInv, ApartOK
  <2> QED BY <2>1, <2>2, <2>3 DEF Apart
<1> QED BY <1>3, <1>4

LEMMA WalkSendStep == ASSUME IInv, NEW t \in Threads, WalkSend(t) PROVE IInv'
<1> DEFINE a == walk[t].cnode
           x == object[walk[t].cnode]
           m == walk[t].msg
           to == IF Other(t, x) THEN x ELSE Invalid
<1>1. /\ Active(t) /\ ~walk[t].sent /\ a \in live
      /\ walk' = [walk EXCEPT ![t].sent = TRUE]
      /\ UNCHANGED <<ring, main, thread, client, backlog, posted, failures, proc>>
  BY DEF WalkSend, Active
<1>2. out' = Sent(to, m) /\ UNCHANGED client
  BY ServerAssumption DEF WalkSend, Sent
<1>3. /\ walk[t] \in [msg : Nat \ {0}, pfirst : Addr, cnode : Addr \cup {NULL}, sent : BOOLEAN]
      /\ m \in 1..Len(posted) /\ m # Welcome /\ Len(posted) \in Nat /\ posted[m].source = t
  BY <1>1, ActiveFacts
<1>4. m \in Nat \cup {Welcome}
  BY <1>3
<1>5. /\ out' \in [Clients -> Seq(Nat \cup {Welcome})]
      /\ \A c, v : Given(c, v)' <=> Given(c, v) \/ (c \in Clients /\ c = to /\ client[c] = "open" /\ v = m)
      /\ \A c, v : Served(c, v) => Served(c, v)'
      /\ \A c \in Clients : c # to => out'[c] = out[c]
      /\ \A c \in Clients : \A i \in 1..Len(out'[c]) : Given(c, out'[c][i]) \/ out'[c][i] = m
  <2> HIDE DEF to, m
  <2> QED BY <1>2, <1>4, SentFacts
<1>6. walk \in [Threads -> {Idle} \cup [msg : Nat \ {0}, pfirst : Addr, cnode : Addr \cup {NULL}, sent : BOOLEAN]]
  BY Types
<1>7. /\ walk'[t] = [walk[t] EXCEPT !.sent = TRUE]
      /\ \A s \in Threads : s # t => walk'[s] = walk[s]
  BY <1>1, <1>6
<1>8. /\ walk'[t] \in [msg : Nat \ {0}, pfirst : Addr, cnode : Addr \cup {NULL}, sent : BOOLEAN]
      /\ walk'[t].msg = m /\ walk'[t].pfirst = walk[t].pfirst /\ walk'[t].cnode = a
      /\ walk'[t].sent = TRUE
  BY <1>3, <1>7
<1>9. /\ \A s \in Threads : Active(s)' <=> Active(s)
      /\ \A s \in Threads : walk'[s].msg = walk[s].msg
  <2>1. walk'[t] # Idle
    BY <1>8 DEF Idle
  <2> QED BY <1>1, <1>7, <1>8, <2>1 DEF Active
<1>10. Invalid \notin Clients
  BY ServerAssumption
<1>11. On' = On /\ Count' = Count /\ Back' = Back
  BY <1>1 DEF ring, On, Count, Back, Apart
<1>12. /\ x \in Clients => client[x] # "away" /\ Member(x)
       /\ \A b \in live : object[b] = x => b = a
  BY <1>1 DEF IInv, ClientsOK, Member, ObjectsOK
<1>13. client \in [Clients -> {"away", "open", "gone"}]
  BY Types
<1>14. \A s \in Threads : Active(s) /\ s # t => walk[s].msg # m
  BY <1>3, ActiveFacts
<1>15. to \in {x, Invalid} /\ (x \in posted[m].to => to = x)
  BY <1>3 DEF IInv, MessagesOK, Other
<1> HIDE DEF a, x, m, to
<1>16. TypeOK'
  <2>1. walk' \in [Threads -> {Idle} \cup [msg : Nat \ {0}, pfirst : Addr, cnode : Addr \cup {NULL}, sent : BOOLEAN]]
    <3>1. walk' = [walk EXCEPT ![t] = walk'[t]]
      BY <1>1, <1>6
    <3> QED BY <1>6, <1>8, <3>1
  <2> QED BY <1>1, <1>5, <2>1 DEF ring, IInv, TypeOK, cpull!TypeOK
<1>17. NodeOK' /\ ObjectsOK' /\ IntactOK'
  BY <1>1, <1>11 DEF ring, IInv, NodeOK, ObjectsOK, IntactOK
<1>18. ClientsOK'
  BY <1>1, <1>5, <1>10, <1>11, <1>12, <1>15 DEF ring, IInv, ClientsOK, Member
<1>19. MessagesOK'
  <2>1. \A c \in Clients : \A i \in 1..Len(out'[c]) : out'[c][i] = Welcome \/ out'[c][i] \in 1..Len(posted)
    BY <1>3, <1>5 DEF IInv, MessagesOK, Given
  <2>2. \A s \in Threads : Active(s) => walk'[s].pfirst = walk[s].pfirst
    BY <1>7, <1>8
  <2>3. \A v \in 1..Len(posted) : Over(v)' <=> Over(v)
    BY <1>9 DEF Over
  <2>4. main.pc \in {"forward", "into", "welcome"} => ~ Given(object[main.node], Welcome)'
    BY <1>1, <1>3, <1>5 DEF ring, IInv, MessagesOK
  <2> QED BY <1>1, <1>5, <1>9, <1>11, <2>1, <2>2, <2>3, <2>4 DEF ring, IInv, MessagesOK
<1>20. ApartOK'
  <2>1. ASSUME NEW s \in Threads, Active(s), main.pc \in {"forward", "into"},
               Given(object[main.node], walk[s].msg)'
        PROVE  walk'[s].cnode = NULL \/ (walk'[s].cnode = main.node /\ walk'[s].sent)
    <3>1. CASE Given(object[main.node], walk[s].msg)
      BY <1>7, <1>8, <2>1, <3>1 DEF IInv, ApartOK, a
    <3>2. CASE ~ Given(object[main.node], walk[s].msg)
      <4>1. object[main.node] \in Clients /\ object[main.node] = to /\ walk[s].msg = m
        BY <1>1, <1>5, <1>9, <2>1, <3>2 DEF ring
      <4>2. s = t /\ object[main.node] = x /\ main.node \in live
        BY <1>10, <1>14, <1>15, <2>1, <4>1 DEF IInv, NodeOK
      <4> QED BY <1>8, <1>12, <4>2
    <3> QED BY <3>1, <3>2
  <2>2. \A s \in Threads : Active(s) => walk'[s].cnode = walk[s].cnode
    BY <1>7, <1>8 DEF a
  <2> QED BY <1>1, <1>9, <1>11, <2>1, <2>2 DEF ring, IInv, ApartOK
<1>21. PICK f : Ringed(f) /\ Placed(f)
  BY DEF IInv
<1>22. Ringed(f)'
  BY <1>1, <1>11, <1>21 DEF ring, Ringed
<1>23. ASSUME NEW s \in Threads, Active(s), NEW i \in 1..Count
       PROVE  /\ Passed(f, Count, walk'[s], i) /\ object[f[i]] \in posted[walk[s].msg].to
                   => Served(object[f[i]], walk[s].msg)'
              /\ Given(object[f[i]], walk[s].msg)' => Passed(f, Count, walk'[s], i)
  <2>1. /\ Passed(f, Count, walk[s], i) /\ object[f[i]] \in posted[walk[s].msg].to
             => Served(object[f[i]], walk[s].msg)
        /\ Given(object[f[i]], walk[s].msg) => Passed(f, Count, walk[s], i)
    BY <1>21, <1>23 DEF Placed
  <2>2. Given(object[f[i]], walk[s].msg)' <=>
          \/ Given(object[f[i]], walk[s].msg)
          \/ object[f[i]] \in Clients /\ object[f[i]] = to /\ client[object[f[i]]] = "open" /\ walk[s].msg = m
    BY <1>1, <1>5, <1>9, <1>23 DEF ring
  <2>3. Served(object[f[i]], walk[s].msg) => Served(object[f[i]], walk[s].msg)'
    BY <1>1, <1>5, <1>9, <1>23 DEF ring
  <2>4. CASE s # t
    BY <1>7, <1>14, <1>23, <2>1, <2>2, <2>3, <2>4
  <2>5. CASE s = t
    <3>1. f[i] \in live /\ \A k \in 1..Count : f[k] = f[i] => k = i
      BY <1>21, RingFacts
    <3>2. CASE f[i] = a
      <4>1. Passed(f, Count, walk'[s], i)
        BY <1>8, <2>5, <3>1, <3>2 DEF Passed
      <4>2. object[f[i]] \in posted[walk[s].msg].to => Served(object[f[i]], walk[s].msg)'
        <5> SUFFICES ASSUME object[f[i]] \in posted[m].to PROVE Served(object[f[i]], walk[s].msg)'
          BY <2>5 DEF m
        <5>1. object[f[i]] = x /\ to = x
          BY <1>15, <3>2 DEF a, x
        <5>2. x \in Clients
          BY <1>3, <5>1, Types
        <5>3. client[x] = "open" \/ client[x] = "gone"
          BY <1>12, <1>13, <5>2
        <5>4. client[x] = "open" => Given(object[f[i]], walk[s].msg)'
          BY <2>2, <2>5, <5>1, <5>2 DEF m
        <5> QED BY <1>1, <5>1, <5>3, <5>4 DEF Served, ring
      <4> QED BY <4>1, <4>2
    <3>3. CASE f[i] # a
      <4>1. object[f[i]] # x
        BY <1>12, <3>1, <3>3
      <4>2. Given(object[f[i]], walk[s].msg)' <=> Given(object[f[i]], walk[s].msg)
        BY <1>10, <1>15, <2>2, <4>1
      <4>3. Passed(f, Count, walk'[s], i) <=> Passed(f, Count, walk[s], i)
        BY <1>8, <2>5, <3>3 DEF Passed, a
      <4> QED BY <2>1, <2>3, <4>2, <4>3
    <3> QED BY <3>2, <3>3
  <2> QED BY <2>4, <2>5
<1>24. Placed(f)'
  BY <1>1, <1>9, <1>11, <1>23 DEF ring, Placed
<1> QED BY <1>16, <1>17, <1>18, <1>19, <1>20, <1>22, <1>24 DEF IInv

(* Where a walk goes: to the next node, past the end of the ring, or home. *)
LEMMA WalkNextPlaces ==
  ASSUME IInv, NEW t \in Threads, Active(t), walk[t].sent, walk[t].cnode \in live,
         NEW f, Ringed(f), Placed(f), NEW n, n = next[walk[t].cnode]
  PROVE  /\ n \in Addr \cup {NULL}
         /\ n # first => \A i \in 1..Count :
              (\A k \in 1..Count : f[k] = n => i < k) <=> Passed(f, Count, walk[t], i)
         /\ n = first => \A i \in 1..Count : Passed(f, Count, walk[t], i)
         /\ walk[t].cnode \notin On => n = first \/ (n = NULL /\ main.pc = "forward")
         /\ walk[t].cnode \in On => n \in On
<1> DEFINE a == walk[t].cnode
<1>0. /\ Count \in Nat /\ f \in [1..Count -> On] /\ NULL \notin On
      /\ \A i, k \in 1..Count : f[i] = f[k] => i = k
      /\ \A b \in On : \E i \in 1..Count : f[i] = b
      /\ Count > 0 => first = f[1] /\ next[f[Count]] = first /\ 1 \in 1..Count
      /\ \A i \in 1..Count : i < Count => i + 1 \in 1..Count /\ next[f[i]] = f[i + 1]
      /\ \A b \in On : next[b] \in On
  BY RingFacts
<1>1. n \in Addr \cup {NULL}
  BY Types
<1>2. CASE a \in On
  <2>1. PICK j \in 1..Count : f[j] = a
    BY <1>0, <1>2
  <2>2. /\ Count \in Nat /\ \A i, k \in 1..Count : f[i] = f[k] => i = k
        /\ n \in On
    BY <1>0, <1>2
  <2>3. \A i \in 1..Count : Passed(f, Count, walk[t], i) <=> i <= j
    <3>1. \A k \in 1..Count : f[k] = a <=> k = j
      BY <2>1, <2>2
    <3> QED BY <2>1, <2>2, <3>1 DEF Passed
  <2>4. CASE j = Count
    <3>1. n = first
      BY <2>1, <2>2, <2>4, <1>0
    <3> QED BY <1>1, <1>2, <2>2, <2>3, <2>4, <3>1
  <2>5. CASE j # Count
    <3>1. j < Count /\ j + 1 \in 1..Count /\ n = f[j + 1]
      BY <2>1, <2>2, <2>5, <1>0
    <3>2. n # first
      <4>1. first = f[1] /\ 1 \in 1..Count /\ j + 1 # 1
        BY <2>1, <2>2, <3>1, <1>0
      <4> QED BY <2>2, <3>1, <4>1
    <3>3. \A k \in 1..Count : f[k] = n <=> k = j + 1
      BY <2>2, <3>1
    <3>4. \A i \in 1..Count : (\A k \in 1..Count : f[k] = n => i < k) <=> i <= j
      BY <2>2, <3>1, <3>3
    <3> QED BY <1>1, <1>2, <2>2, <2>3, <3>2, <3>4
  <2> QED BY <2>4, <2>5
<1>3. CASE a \notin On
  <2>1. a = main.node /\ Apart
    BY <1>3 DEF On
  <2>2. n = first \/ (n = NULL /\ main.pc = "forward")
    BY <2>1 DEF Apart, IInv, NodeOK
  <2>3. f \in [1..Count -> On] /\ NULL \notin On
    BY <1>0
  <2>4. \A i \in 1..Count : Passed(f, Count, walk[t], i)
    BY <1>3, <2>3 DEF Passed
  <2>5. n = NULL => \A i \in 1..Count : \A k \in 1..Count : f[k] # n
    BY <2>3
  <2> QED BY <1>1, <1>3, <2>2, <2>4, <2>5
<1> QED BY <1>2, <1>3

LEMMA WalkNextStep == ASSUME IInv, NEW t \in Threads, WalkNext(t) PROVE IInv'
<1> DEFINE a == walk[t].cnode
           n == next[walk[t].cnode]
           m == walk[t].msg
<1>1. /\ Active(t) /\ walk[t].sent /\ a \in live
      /\ walk' = [walk EXCEPT ![t] =
                   IF n = walk[t].pfirst THEN Idle ELSE [walk[t] EXCEPT !.cnode = n, !.sent = FALSE]]
      /\ UNCHANGED <<ring, main, thread, client, backlog, posted, out, failures, proc>>
  BY DEF WalkNext, Active, Ends
<1>2. /\ walk[t] \in [msg : Nat \ {0}, pfirst : Addr, cnode : Addr \cup {NULL}, sent : BOOLEAN]
      /\ m \in 1..Len(posted) /\ m # Welcome /\ Len(posted) \in Nat /\ posted[m].source = t
      /\ walk[t].pfirst = first
  BY <1>1, ActiveFacts
<1>3. walk \in [Threads -> {Idle} \cup [msg : Nat \ {0}, pfirst : Addr, cnode : Addr \cup {NULL}, sent : BOOLEAN]]
  BY Types
<1>4. PICK f : Ringed(f) /\ Placed(f)
  BY DEF IInv
<1>5. /\ n \in Addr \cup {NULL}
      /\ n # first => \A i \in 1..Count :
           (\A k \in 1..Count : f[k] = n => i < k) <=> Passed(f, Count, walk[t], i)
      /\ n = first => \A i \in 1..Count : Passed(f, Count, walk[t], i)
      /\ a \notin On => n = first \/ (n = NULL /\ main.pc = "forward")
      /\ a \in On => n \in On
  BY <1>1, <1>4, WalkNextPlaces
<1>6. /\ walk'[t] = IF n = first THEN Idle ELSE [walk[t] EXCEPT !.cnode = n, !.sent = FALSE]
      /\ \A s \in Threads : s # t => walk'[s] = walk[s]
  BY <1>1, <1>2, <1>3
<1>7. n # first =>
        /\ walk'[t] \in [msg : Nat \ {0}, pfirst : Addr, cnode : Addr \cup {NULL}, sent : BOOLEAN]
        /\ walk'[t].msg = m /\ walk'[t].pfirst = first /\ walk'[t].cnode = n /\ walk'[t].sent = FALSE
  BY <1>2, <1>5, <1>6
<1>8. n = first => ~ Active(t)' /\ walk'[t].msg = 0
  BY <1>6 DEF Active, Idle
<1>9. \A s \in Threads : Active(s)' => /\ Active(s) /\ walk'[s].msg = walk[s].msg
                                       /\ walk'[s].pfirst = walk[s].pfirst
  BY <1>1, <1>2, <1>6, <1>7, <1>8 DEF Active
<1>10. On' = On /\ Count' = Count /\ Back' = Back
  BY <1>1 DEF ring, On, Count, Back, Apart
<1>11. \A c, v : (Given(c, v)' <=> Given(c, v)) /\ (Served(c, v)' <=> Served(c, v))
  BY <1>1 DEF Given, Served
<1>12. walk[t].sent = TRUE
  BY <1>1, <1>2
<1> HIDE DEF a, n, m
<1>13. TypeOK'
  <2>1. walk' \in [Threads -> {Idle} \cup [msg : Nat \ {0}, pfirst : Addr, cnode : Addr \cup {NULL}, sent : BOOLEAN]]
    <3>1. walk' = [walk EXCEPT ![t] = walk'[t]]
      BY <1>1, <1>3
    <3>2. walk'[t] \in {Idle} \cup [msg : Nat \ {0}, pfirst : Addr, cnode : Addr \cup {NULL}, sent : BOOLEAN]
      BY <1>6, <1>7
    <3> QED BY <1>3, <3>1, <3>2
  <2> QED BY <1>1, <2>1 DEF ring, IInv, TypeOK, cpull!TypeOK
<1>14. NodeOK' /\ ObjectsOK' /\ IntactOK' /\ ClientsOK'
  BY <1>1, <1>10 DEF ring, IInv, NodeOK, ObjectsOK, IntactOK, ClientsOK, Member
<1>15. MessagesOK'
  <2>1. ASSUME NEW v \in 1..Len(posted), Over(v)', NEW c \in posted[v].to PROVE Served(c, v)
    <3>1. CASE Over(v)
      BY <2>1, <3>1 DEF IInv, MessagesOK
    <3>2. CASE ~ Over(v)
      <4>1. v = m /\ n = first
        BY <1>6, <1>7, <2>1, <3>2 DEF Over, m
      <4>2. PICK b \in On : object[b] = c
        BY <2>1 DEF IInv, MessagesOK
      <4>3. PICK i \in 1..Count : f[i] = b
        BY <1>4, RingFacts
      <4> QED BY <1>1, <1>4, <1>5, <2>1, <4>1, <4>2, <4>3 DEF Placed, m
    <3> QED BY <3>1, <3>2
  <2>2. main.pc \in {"forward", "into", "welcome"} => ~ Given(object[main.node], Welcome)'
    BY <1>1, <1>11 DEF ring, IInv, MessagesOK
  <2> QED BY <1>1, <1>9, <1>10, <1>11, <2>1, <2>2 DEF ring, IInv, MessagesOK
<1>16. ApartOK'
  <2>1. ASSUME NEW s \in Threads, Active(s)', main.pc \in {"forward", "into"},
               Given(object[main.node], walk[s].msg)
        PROVE  walk'[s].cnode = NULL \/ (walk'[s].cnode = main.node /\ walk'[s].sent)
    <3>1. walk[s].cnode = NULL \/ (walk[s].cnode = main.node /\ walk[s].sent)
      BY <1>9, <2>1 DEF IInv, ApartOK
    <3>2. CASE s # t
      BY <1>6, <3>1, <3>2
    <3>3. CASE s = t
      <4>1. a = main.node /\ n # first /\ NULL \notin live
        <5>1. NULL \notin live
          BY Types, ServerAssumption
        <5> QED BY <1>1, <1>8, <2>1, <3>1, <3>3, <5>1 DEF a
      <4>2. a \notin On
        BY <2>1, <4>1 DEF On, Apart
      <4> QED BY <1>5, <1>7, <3>3, <4>1, <4>2
    <3> QED BY <3>2, <3>3
  <2>2. ASSUME NEW s \in Threads, Active(s)', failures = 0, walk'[s].cnode \notin On
        PROVE  s = Worker /\ posted[walk[s].msg].to = {} /\ walk'[s].cnode \in live \cup {NULL}
    <3>1. CASE s # t
      BY <1>6, <1>9, <2>2, <3>1 DEF IInv, ApartOK
    <3>2. CASE s = t
      <4>1. n # first /\ n \notin On
        BY <1>7, <1>8, <2>2, <3>2
      <4>2. a \notin On /\ n = NULL
        BY <1>5, <4>1
      <4> QED BY <1>1, <1>7, <2>2, <3>2, <4>1, <4>2 DEF IInv, ApartOK, a
    <3> QED BY <3>1, <3>2
  <2>3. \A s \in Threads : Active(s)' => (Given(object[main.node], walk[s].msg)' <=> Given(object[main.node], walk[s].msg))
    BY <1>1, <1>9, <1>11 DEF ring
  <2> QED BY <1>1, <1>9, <1>10, <2>1, <2>2, <2>3 DEF ring, IInv, ApartOK
<1>17. Ringed(f)'
  BY <1>1, <1>4, <1>10 DEF ring, Ringed
<1>18. ASSUME NEW s \in Threads, Active(s)', NEW i \in 1..Count
       PROVE  Passed(f, Count, walk'[s], i) <=> Passed(f, Count, walk[s], i)
  <2>1. CASE s # t
    BY <1>6, <2>1
  <2>2. CASE s = t
    BY <1>5, <1>7, <1>8, <1>18, <2>2 DEF Passed
  <2> QED BY <2>1, <2>2
<1>19. Placed(f)'
  BY <1>1, <1>4, <1>9, <1>10, <1>11, <1>18 DEF ring, Placed
<1> QED BY <1>13, <1>14, <1>15, <1>16, <1>17, <1>19 DEF IInv

(* A new walk has passed nobody, and its message is new to everybody. *)
LEMMA PostStep ==
  ASSUME IInv, NEW t \in Threads, walk[t] = Idle, Post(t), UNCHANGED proc,
         t # Worker => thread[t] = "running"
  PROVE  IInv'
<1> DEFINE rec == [source |-> t, to |-> Linked \ {t}]
           new == [msg |-> Len(posted) + 1, pfirst |-> first, cnode |-> first, sent |-> FALSE]
           W == {Idle} \cup [msg : Nat \ {0}, pfirst : Addr, cnode : Addr \cup {NULL}, sent : BOOLEAN]
           P == [source : Threads, to : SUBSET Clients]
<1>1. /\ first # NULL /\ posted' = Append(posted, rec) /\ walk' = [walk EXCEPT ![t] = new]
      /\ UNCHANGED <<ring, main, thread, client, backlog, out, failures, proc>>
  BY DEF Post
<1>2. walk \in [Threads -> W] /\ posted \in Seq(P) /\ first \in Addr
  BY <1>1, Types
<1>3. Linked \subseteq Clients /\ \A c \in Linked : \E a \in On : object[a] = c
  <2> SUFFICES ASSUME NEW c \in Linked PROVE c \in Clients /\ \E a \in On : object[a] = c
    OBVIOUS
  <2>1. PICK a \in live \ (IF main.pc \in {"forward", "into"} THEN {main.node} ELSE {}) :
          object[a] = c /\ c # Invalid
    BY DEF Linked
  <2>2. c \in Clients
    BY <2>1 DEF IInv, ObjectsOK
  <2>3. a \in On
    <3>1. main.pc = "delete" => a # main.node
      BY <2>1 DEF IInv, NodeOK
    <3> QED BY <2>1, <3>1 DEF On, Apart
  <2> QED BY <2>1, <2>2, <2>3
<1>4. rec \in P
  BY <1>3
<1>5. new \in W /\ Len(posted) \in Nat
  BY <1>1, <1>2, LenProperties
<1> HIDE DEF W, P
<1>6. /\ posted' \in Seq(P) /\ Len(posted') = Len(posted) + 1
      /\ \A m \in 1..Len(posted) : posted'[m] = posted[m]
      /\ posted'[Len(posted) + 1] = rec
  BY <1>1, <1>2, <1>4, AppendProperties
<1>7. walk'[t] = new /\ \A s \in Threads : s # t => walk'[s] = walk[s]
  BY <1>1, <1>2
<1>8. Active(t)' /\ ~ Active(t) /\ \A s \in Threads : s # t => (Active(s)' <=> Active(s))
  <2>1. new # Idle
    <3>1. new.msg # Idle.msg
      BY <1>5 DEF Idle
    <3> QED BY <3>1
  <2> QED BY <1>7, <2>1 DEF Active
<1>9. On' = On /\ Count' = Count /\ Back' = Back
  BY <1>1 DEF ring, On, Count, Back, Apart
<1>10. \A c, v : (Given(c, v)' <=> Given(c, v)) /\ (Served(c, v)' <=> Served(c, v))
  BY <1>1 DEF Given, Served
<1>11. \A c : ~ Given(c, Len(posted) + 1)
  BY <1>5, ServerAssumption DEF IInv, MessagesOK, Given
<1>12. /\ new.msg = Len(posted) + 1 /\ new.pfirst = first /\ new.cnode = first /\ new.sent = FALSE
       /\ rec.source = t /\ rec.to = Linked \ {t}
  OBVIOUS
<1>13. \A s \in Threads : Active(s) => walk[s].msg \in 1..Len(posted)
  BY ActiveFacts
<1> HIDE DEF rec, new
<1>14. TypeOK'
  BY <1>1, <1>2, <1>5, <1>6 DEF ring, IInv, TypeOK, cpull!TypeOK, W, P
<1>15. NodeOK' /\ ObjectsOK' /\ IntactOK' /\ ClientsOK'
  BY <1>1, <1>9 DEF ring, IInv, NodeOK, ObjectsOK, IntactOK, ClientsOK, Member
<1>16. MessagesOK'
  <2>1. ASSUME NEW m \in 1..Len(posted'), NEW c \in posted'[m].to
        PROVE  c # posted'[m].source /\ \E a \in On : object[a] = c
    <3>1. CASE m \in 1..Len(posted)
      BY <1>6, <2>1, <3>1 DEF IInv, MessagesOK
    <3>2. CASE m = Len(posted) + 1
      BY <1>3, <1>6, <1>12, <2>1, <3>2
    <3> QED BY <1>5, <1>6, <3>1, <3>2
  <2>2. \A c \in Clients : \A i \in 1..Len(out[c]) : out[c][i] = Welcome \/ out[c][i] \in 1..Len(posted')
    BY <1>5, <1>6 DEF IInv, MessagesOK
  <2>3. ASSUME NEW s \in Threads, Active(s)'
        PROVE  /\ walk'[s].pfirst = first /\ first # NULL
               /\ walk'[s].msg \in 1..Len(posted') /\ posted'[walk'[s].msg].source = s
               /\ \A m \in 1..Len(posted') : posted'[m].source = s => m <= walk'[s].msg
    <3>1. CASE s = t
      BY <1>1, <1>5, <1>6, <1>7, <1>12, <3>1
    <3>2. CASE s # t
      <4>1. /\ walk[s].pfirst = first /\ first # NULL
            /\ walk[s].msg \in 1..Len(posted) /\ posted[walk[s].msg].source = s
            /\ \A m \in 1..Len(posted) : posted[m].source = s => m <= walk[s].msg
        BY <1>8, <2>3, <3>2 DEF IInv, MessagesOK
      <4> QED BY <1>5, <1>6, <1>7, <1>12, <3>2, <4>1
    <3> QED BY <3>1, <3>2
  <2>4. ASSUME NEW m \in 1..Len(posted'), Over(m)', NEW c \in posted'[m].to PROVE Served(c, m)
    <3>1. m # Len(posted) + 1
      BY <1>7, <1>12, <2>4 DEF Over
    <3>2. m \in 1..Len(posted)
      BY <1>5, <1>6, <3>1
    <3>3. Over(m)
      <4>1. Idle.msg = 0 /\ m # 0
        BY <1>5, <3>2 DEF Idle
      <4> QED BY <1>7, <2>4, <4>1 DEF Over
    <3> QED BY <1>6, <2>4, <3>2, <3>3 DEF IInv, MessagesOK
  <2>5. main.pc \in {"forward", "into", "welcome"} => ~ Given(object[main.node], Welcome)'
    BY <1>1, <1>10 DEF ring, IInv, MessagesOK
  <2> QED BY <1>1, <1>9, <1>10, <2>1, <2>2, <2>3, <2>4, <2>5 DEF ring, MessagesOK
<1>17. PICK f : Ringed(f) /\ Placed(f)
  BY DEF IInv
<1>18. Ringed(f)'
  BY <1>1, <1>9, <1>17 DEF ring, Ringed
<1>19. /\ Count \in Nat /\ (Count > 0 => first = f[1] /\ 1 \in 1..Count /\ first \in On)
       /\ (Count = 0 => On = {})
  BY <1>17, RingFacts
<1>20. Placed(f)'
  <2>1. ASSUME NEW s \in Threads, Active(s)', NEW i \in 1..Count
        PROVE  /\ Passed(f, Count, walk'[s], i) /\ object[f[i]] \in posted'[walk'[s].msg].to
                    => Served(object[f[i]], walk'[s].msg)
               /\ Given(object[f[i]], walk'[s].msg) => Passed(f, Count, walk'[s], i)
    <3>1. CASE s = t
      <4>1. ~ Passed(f, Count, walk'[s], i)
        <5>1. f[1] = walk'[s].cnode /\ walk'[s].sent = FALSE /\ 1 \in 1..Count /\ ~(i < 1)
          BY <1>7, <1>12, <1>19, <3>1
        <5> QED BY <5>1 DEF Passed
      <4> QED BY <1>7, <1>11, <1>12, <3>1, <4>1
    <3>2. CASE s # t
      BY <1>6, <1>7, <1>8, <1>13, <1>17, <2>1, <3>2 DEF Placed
    <3> QED BY <3>1, <3>2
  <2> QED BY <1>1, <1>9, <1>10, <2>1 DEF ring, Placed
<1>21. ApartOK'
  <2>1. ASSUME NEW s \in Threads, Active(s)', main.pc \in {"forward", "into"},
               Given(object[main.node], walk'[s].msg)
        PROVE  walk'[s].cnode = NULL \/ (walk'[s].cnode = main.node /\ walk'[s].sent)
    <3>1. s # t
      BY <1>7, <1>11, <1>12, <2>1
    <3> QED BY <1>7, <1>8, <2>1, <3>1 DEF IInv, ApartOK
  <2>2. ASSUME NEW s \in Threads, Active(s)', failures = 0, walk'[s].cnode \notin On
        PROVE  s = Worker /\ posted'[walk'[s].msg].to = {} /\ walk'[s].cnode \in live \cup {NULL}
    <3>1. CASE s # t
      BY <1>6, <1>7, <1>8, <1>13, <2>2, <3>1 DEF IInv, ApartOK
    <3>2. CASE s = t
      <4>1. On = {}
        BY <1>7, <1>12, <1>19, <2>2, <3>2
      <4>2. t = Worker
        <5>1. t # Worker => t \in Clients /\ thread[t] # "none"
          BY DEF Threads
        <5> QED BY <4>1, <5>1 DEF IInv, ClientsOK
      <4>3. Linked = {}
        BY <1>3, <4>1
      <4>4. first \in live \cup {NULL}
        BY <2>2 DEF IInv, IntactOK
      <4> QED BY <1>6, <1>7, <1>12, <3>2, <4>2, <4>3, <4>4
    <3> QED BY <3>1, <3>2
  <2>3. \A s \in Threads : Given(object[main.node], walk[s].msg)' <=> Given(object[main.node], walk'[s].msg)
    BY <1>1, <1>10 DEF ring
  <2> QED BY <1>1, <1>9, <2>1, <2>2, <2>3 DEF ring, ApartOK
<1> QED BY <1>14, <1>15, <1>16, <1>18, <1>20, <1>21 DEF IInv

(* A new node is not part of the ring yet. *)
LEMMA NewNodeStep ==
  ASSUME IInv, main.pc = "accept", Room, NEW x, NEW a \in Addr \ live, NewNode(a, x),
         UNCHANGED <<thread, walk, client, posted, out, proc>>,
         \/ x \in backlog /\ backlog' = backlog \ {x} /\ UNCHANGED failures
         \/ x = Invalid /\ failures < MaxFailures /\ failures' = failures + 1 /\ UNCHANGED backlog
  PROVE  IInv'
<1>1. /\ live' = live \cup {a} /\ object' = [object EXCEPT ![a] = x]
      /\ next' = [next EXCEPT ![a] = NULL] /\ back' = [back EXCEPT ![a] = NULL]
      /\ first' = IF last = NULL \/ first = NULL THEN a ELSE first
      /\ last' = IF last = NULL \/ first = NULL THEN a ELSE last
      /\ m_allocated' = m_allocated + 1 /\ main' = At("forward", a)
  BY DEF NewNode, cpull!FirstFor, cpull!LastFor
<1>2. /\ live \subseteq Addr /\ object \in [Addr -> Objects \cup {NULL}]
      /\ next \in [Addr -> Addr \cup {NULL}] /\ back \in [Addr -> Addr \cup {NULL}]
      /\ first \in Addr \cup {NULL} /\ last \in Addr \cup {NULL}
      /\ backlog \subseteq Clients /\ failures \in 0..MaxFailures
      /\ m_allocated \in Nat /\ m_allocated < maxconnlen /\ maxconnlen \in Nat
  BY Types, ServerAssumption DEF Room
<1>3. x \in Objects /\ failures' \in 0..MaxFailures /\ (failures' = 0 => failures = 0)
      /\ backlog' \subseteq backlog
  BY <1>2, ServerAssumption DEF Objects
<1>4. main'.pc = "forward" /\ main'.node = a /\ Apart' /\ ~ Apart
      /\ main' \in [pc : {"reap", "accept", "forward", "into", "unlink", "delete", "welcome", "start"},
                    node : Addr \cup {NULL}]
  BY <1>1 DEF At, Apart
<1>5. On' = On /\ On = live /\ Count' = Count /\ Count = m_allocated /\ Back' = back' /\ Back = back
  BY <1>1, <1>2, <1>4 DEF On, Count, Back
<1>6. PICK f : Ringed(f) /\ Placed(f)
  BY DEF IInv
<1>7. /\ Count > 0 => first \in live /\ last \in live
      /\ Count = 0 => On = {} /\ first = last
      /\ NULL \notin Addr /\ f \in [1..Count -> On]
  BY <1>5, <1>6, RingFacts
<1>8. /\ Count > 0 => first' = first /\ last' = last
      /\ Count = 0 => first' = last'
      /\ first # NULL => first' = first
      /\ first' # NULL /\ first' \in Addr /\ last' \in Addr
      /\ first' \in {first, a}
  BY <1>1, <1>2, <1>5, <1>7
<1>9. object'[a] = x /\ \A b \in live : object'[b] = object[b] /\ b # a
  BY <1>1, <1>2
<1>10. /\ next'[a] = NULL /\ \A b \in live : next'[b] = next[b] /\ back'[b] = back[b]
  BY <1>1, <1>2
<1>11. TypeOK'
  <2>1. cpull!TypeOK'
    <3>1. live' \subseteq Addr /\ object' \in [Addr -> Objects \cup {NULL}]
      BY <1>1, <1>2, <1>3
    <3>2. next' \in [Addr -> Addr \cup {NULL}] /\ back' \in [Addr -> Addr \cup {NULL}]
      BY <1>1, <1>2
    <3>3. m_allocated' \in 0..maxconnlen
      BY <1>1, <1>2
    <3>4. first' \in Addr \cup {NULL} /\ last' \in Addr \cup {NULL}
      BY <1>8
    <3> QED BY <3>1, <3>2, <3>3, <3>4 DEF cpull!TypeOK
  <2> QED BY <1>2, <1>3, <1>4, <2>1 DEF IInv, TypeOK
<1>12. NodeOK'
  BY <1>1, <1>4, <1>5, <1>7, <1>8, <1>10 DEF IInv, NodeOK
<1>13. /\ \A b \in live : object[b] \in Clients /\ object[b] # x
  BY ServerAssumption DEF IInv, ObjectsOK, ClientsOK, Member
<1>14. ObjectsOK'
  <2>1. x \in Clients \/ (x = Invalid /\ failures' > 0)
    BY <1>2
  <2>2. \A b, c \in live : object[b] = object[c] => b = c
    BY DEF IInv, ObjectsOK
  <2> QED BY <1>1, <1>4, <1>9, <1>13, <2>1, <2>2 DEF ObjectsOK
<1>15. ClientsOK'
  <2>1. \A c : Member(c)' <=> Member(c) \/ c = x
    BY <1>1, <1>9 DEF Member
  <2>2. x \in Clients => x \notin backlog' /\ client[x] # "away"
    BY ServerAssumption DEF IInv, ClientsOK
  <2>3. \A c : (\E b \in On : object[b] = c) => \E b \in On : object'[b] = c
    BY <1>5, <1>9
  <2> QED BY <1>3, <1>5, <2>1, <2>2, <2>3 DEF IInv, ClientsOK
<1>16. IntactOK'
  <2>1. failures = 0 => first' \in live' \cup {NULL}
    BY <1>1, <1>8 DEF IInv, IntactOK
  <2>2. failures > 0 => failures' > 0
    BY <1>2
  <2> QED BY <1>3, <2>1, <2>2 DEF IInv, IntactOK
<1>17. /\ \A c, v : (Given(c, v)' <=> Given(c, v)) /\ (Served(c, v)' <=> Served(c, v))
       /\ \A s \in Threads : Active(s)' <=> Active(s)
  BY DEF Given, Served, Active
<1>18. \A v : ~ Given(x, v)
  <2>1. ~ Member(x)
    BY <1>13 DEF Member
  <2>2. x \in Clients => out[x] = <<>>
    BY <2>1 DEF IInv, ClientsOK
  <2> QED BY <2>2 DEF Given
<1>19. MessagesOK'
  <2>1. \A m \in 1..Len(posted) : \A c \in posted[m].to :
          c # posted[m].source /\ \E b \in On : object'[b] = c
    BY <1>5, <1>9 DEF IInv, MessagesOK
  <2>2. \A t \in Threads : Active(t) =>
          /\ walk[t].pfirst = first' /\ first' # NULL
          /\ walk[t].msg \in 1..Len(posted) /\ posted[walk[t].msg].source = t
          /\ \A m \in 1..Len(posted) : posted[m].source = t => m <= walk[t].msg
    BY <1>8 DEF IInv, MessagesOK
  <2>3. ~ Given(object[main.node], Welcome)'
    BY <1>4, <1>9, <1>17, <1>18
  <2>4. \A m \in 1..Len(posted) : Over(m)' <=> Over(m)
    BY DEF Over
  <2>5. \A m \in 1..Len(posted) : Over(m) => \A c \in posted[m].to : Served(c, m)
    BY DEF IInv, MessagesOK
  <2>6. \A c \in Clients : \A i \in 1..Len(out[c]) : out[c][i] = Welcome \/ out[c][i] \in 1..Len(posted)
    BY DEF IInv, MessagesOK
  <2> QED BY <1>5, <1>17, <2>1, <2>2, <2>3, <2>4, <2>5, <2>6 DEF MessagesOK
<1>20. ApartOK'
  <2>1. \A s \in Threads : ~ Given(object[main.node], walk[s].msg)'
    BY <1>4, <1>9, <1>17, <1>18
  <2> QED BY <1>1, <1>3, <1>5, <1>17, <2>1 DEF IInv, ApartOK
<1>21. Ringed(f)'
  <2>1. Numbers(f, Count, On, next, back, first, last)
    BY <1>5, <1>6 DEF Ringed
  <2>2. Numbers(f, Count, On, next', back', first', last')
    BY <1>5, <1>8, <1>10, <2>1 DEF Numbers
  <2> QED BY <1>5, <2>2 DEF Ringed
<1>22. Placed(f)'
  <2>1. \A i \in 1..Count : object'[f[i]] = object[f[i]]
    BY <1>5, <1>7, <1>9
  <2> QED BY <1>5, <1>6, <1>17, <2>1 DEF Placed
<1> QED BY <1>11, <1>12, <1>14, <1>15, <1>16, <1>19, <1>20, <1>21, <1>22 DEF IInv

LEMMA AcceptStep == ASSUME IInv, NEW c \in Clients, Accept(c) PROVE IInv'
<1>1. PICK a \in Addr \ live : NewNode(a, c)
  BY DEF Accept
<1> QED BY <1>1, NewNodeStep DEF Accept

LEMMA AcceptFailsStep == IInv /\ AcceptFails => IInv'
<1> SUFFICES ASSUME IInv, AcceptFails PROVE IInv'
  OBVIOUS
<1>1. PICK a \in Addr \ live : NewNode(a, Invalid)
  BY DEF AcceptFails
<1> QED BY <1>1, NewNodeStep DEF AcceptFails

(* The first half of the linking leaves the ring that walks see as it is. *)
LEMMA EmplaceForwardStep == IInv /\ EmplaceForward => IInv'
<1> SUFFICES ASSUME IInv, EmplaceForward, ~ Broken PROVE IInv'
  BY BrokenStep
<1> DEFINE a == main.node
<1>1. /\ main.pc = "forward" /\ first \in live /\ last \in live
      /\ back' = [back EXCEPT ![first] = a] /\ next' = [next EXCEPT ![a] = first]
      /\ main' = At("into", a)
      /\ UNCHANGED <<live, object, first, last, m_allocated, thread, walk, client, backlog, posted,
                     out, failures, proc>>
  BY DEF EmplaceForward, LinkForward
<1>2. /\ live \subseteq Addr /\ next \in [Addr -> Addr \cup {NULL}]
      /\ back \in [Addr -> Addr \cup {NULL}]
  BY Types
<1>3. a \in live /\ a \notin On /\ Apart
  BY <1>1 DEF IInv, NodeOK, On, Apart
<1>4. /\ main'.pc = "into" /\ main'.node = a /\ Apart'
      /\ main' \in [pc : {"reap", "accept", "forward", "into", "unlink", "delete", "welcome", "start"},
                    node : Addr \cup {NULL}]
  BY <1>1, <1>2, <1>3 DEF At, Apart
<1>5. On' = On /\ Count' = Count
  BY <1>1, <1>3, <1>4 DEF On, Count
<1>6. PICK f : Ringed(f) /\ Placed(f)
  BY DEF IInv
<1>7. /\ next'[a] = first /\ back'[first] = a
      /\ \A b \in On : next'[b] = next[b]
      /\ next' \in [Addr -> Addr \cup {NULL}] /\ back' \in [Addr -> Addr \cup {NULL}]
  <2>1. On \subseteq Addr
    BY <1>2 DEF On
  <2> HIDE DEF a
  <2> QED BY <1>1, <1>2, <1>3, <2>1
<1>8. Ringed(f)'
  <2>1. Numbers(f, Count, On, next, back, first, last)
    BY <1>1, <1>6 DEF Ringed, Back
  <2>2. Count \in Nat
    BY DEF IInv, NodeOK
  <2>3. Back' = [back EXCEPT ![first] = last]
    BY <1>1, <1>2, <1>4 DEF Back
  <2>4. CASE Count = 0
    <3>1. Numbers(f, Count, On, next', Back', first', last')
      BY <2>1, <2>4 DEF Numbers
    <3> QED BY <1>5, <3>1 DEF Ringed
  <2>5. CASE Count # 0
    <3>1. back[first] = last
      BY <2>1, <2>2, <2>5, Neighbours
    <3>2. Back' = back
      BY <1>1, <1>2, <2>3, <3>1
    <3>3. Numbers(f, Count, On, next', back, first, last)
      BY <1>7, <2>1 DEF Numbers
    <3> QED BY <1>1, <1>5, <3>2, <3>3 DEF Ringed
  <2> QED BY <2>4, <2>5
<1>9. /\ \A c, v : (Given(c, v)' <=> Given(c, v)) /\ (Served(c, v)' <=> Served(c, v))
      /\ \A s \in Threads : Active(s)' <=> Active(s)
  BY <1>1 DEF Given, Served, Active
<1>10. TypeOK'
  BY <1>1, <1>4, <1>7 DEF IInv, TypeOK, cpull!TypeOK
<1>11. NodeOK'
  BY <1>1, <1>4, <1>5, <1>7 DEF IInv, NodeOK
<1>12. ObjectsOK' /\ ClientsOK' /\ IntactOK'
  BY <1>1, <1>4, <1>5 DEF IInv, ObjectsOK, ClientsOK, Member, IntactOK
<1>13. MessagesOK'
  <2>1. \A m \in 1..Len(posted) : Over(m)' <=> Over(m)
    BY <1>1 DEF Over
  <2> QED BY <1>1, <1>4, <1>5, <1>9, <2>1 DEF IInv, MessagesOK
<1>14. ApartOK'
  BY <1>1, <1>4, <1>5, <1>9 DEF IInv, ApartOK
<1>15. Placed(f)'
  BY <1>1, <1>5, <1>6, <1>9 DEF Placed
<1> QED BY <1>8, <1>10, <1>11, <1>12, <1>13, <1>14, <1>15 DEF IInv

(* The second half makes the node the last one of the ring. *)
LEMMA EmplaceIntoNumbers ==
  ASSUME IInv, main.pc = "into", LinkInto(main.node), first' = first,
         NEW f, Ringed(f)
  PROVE  /\ Numbers(Appended(f, Count, main.node), Count + 1, live, next', back', first', last')
         /\ next' \in [Addr -> Addr \cup {NULL}] /\ back' \in [Addr -> Addr \cup {NULL}]
<1> DEFINE a == main.node
<1>1. /\ next' = [next EXCEPT ![last] = a] /\ back' = [back EXCEPT ![a] = last] /\ last' = a
  BY DEF LinkInto
<1>2. /\ live \subseteq Addr /\ next \in [Addr -> Addr \cup {NULL}]
      /\ back \in [Addr -> Addr \cup {NULL}]
  BY Types
<1>3. /\ a \in live /\ next[a] = first /\ back[first] = a /\ first \in live /\ last \in live
      /\ Count \in Nat /\ On = live \ {a}
  BY DEF IInv, NodeOK, On, Apart
<1>4. Numbers(f, Count, On, next, [back EXCEPT ![first] = last], first, last)
  BY DEF Ringed, Back
<1>5. next' \in [Addr -> Addr \cup {NULL}] /\ back' \in [Addr -> Addr \cup {NULL}]
  BY <1>1, <1>2, <1>3
<1> HIDE DEF a
<1>6. CASE Count = 0
  <2>1. On = {} /\ first = last
    BY <1>6, RingFacts
  <2>2. live = {a} /\ first = a /\ last = a
    BY <1>3, <2>1
  <2>3. next' = [next EXCEPT ![a] = a, ![a] = a] /\ back' = [back EXCEPT ![a] = a, ![a] = a]
    BY <1>1, <1>2, <1>3, <2>2
  <2>4. Numbers([i \in 1..1 |-> a], 1, {a}, next', back', a, a)
    <3>1. a \in Addr
      BY <1>2, <1>3
    <3> QED BY <1>2, <2>3, <3>1, LoneNumbers
  <2>5. Appended(f, Count, a) = [i \in 1..1 |-> a]
    BY <1>6 DEF Appended
  <2> QED BY <1>1, <1>5, <1>6, <2>2, <2>4, <2>5 DEF a
<1>7. CASE Count # 0
  <2> DEFINE bk == [back EXCEPT ![first] = last]
  <2>1. bk \in [Addr -> Addr \cup {NULL}] /\ Count \in Nat \ {0} /\ On \in SUBSET Addr /\ a \in Addr \ On
    BY <1>2, <1>3, <1>7
  <2>2. Numbers(Appended(f, Count, a), Count + 1, On \cup {a},
                [next EXCEPT ![a] = first, ![last] = a], [bk EXCEPT ![first] = a, ![a] = last], first, a)
    <3>1. Numbers(f, Count, On, next, bk, first, last)
      BY <1>4
    <3> HIDE DEF bk
    <3> QED BY <1>2, <2>1, <3>1, LinkNumbers
  <2>3. [next EXCEPT ![a] = first, ![last] = a] = next'
    BY <1>1, <1>2, <1>3
  <2>4. [bk EXCEPT ![first] = a, ![a] = last] = back'
    BY <1>1, <1>2, <1>3
  <2>5. On \cup {a} = live
    BY <1>3
  <2> QED BY <1>1, <1>5, <2>2, <2>3, <2>4, <2>5 DEF a
<1> QED BY <1>6, <1>7

LEMMA EmplaceIntoStep == IInv /\ EmplaceInto => IInv'
<1> SUFFICES ASSUME IInv, EmplaceInto PROVE IInv'
  OBVIOUS
<1> DEFINE a == main.node
<1>1. /\ main.pc = "into" /\ LinkInto(a)
      /\ main' = At(IF object[a] = Invalid THEN "unlink" ELSE "welcome", a)
      /\ UNCHANGED <<live, object, first, m_allocated, thread, walk, client, backlog, posted, out,
                     failures, proc>>
  BY DEF EmplaceInto
<1>2. a \in live /\ a \notin On /\ Apart /\ On = live \ {a} /\ live \subseteq Addr /\ last' = a
  BY <1>1, Types DEF IInv, NodeOK, On, Apart, LinkInto
<1>3. /\ main'.pc \in {"unlink", "welcome"} /\ main'.node = a /\ ~ Apart'
      /\ (main'.pc = "unlink" <=> object[a] = Invalid)
      /\ main' \in [pc : {"reap", "accept", "forward", "into", "unlink", "delete", "welcome", "start"},
                    node : Addr \cup {NULL}]
  BY <1>1, <1>2 DEF At, Apart
<1>4. /\ Count \in Nat /\ On' = live /\ Count' = m_allocated /\ Count = m_allocated - 1 /\ Back' = back'
      /\ m_allocated \in Nat
  BY <1>1, <1>2, <1>3, Types DEF IInv, NodeOK, On, Count, Back
<1>5. Count' = Count + 1
  BY <1>4
<1>6. PICK f : Ringed(f) /\ Placed(f)
  BY DEF IInv
<1>7. PICK g : g = Appended(f, Count, a)
  OBVIOUS
<1>8. /\ Numbers(g, Count', live, next', back', first', last')
      /\ next' \in [Addr -> Addr \cup {NULL}] /\ back' \in [Addr -> Addr \cup {NULL}]
  BY <1>1, <1>5, <1>6, <1>7, EmplaceIntoNumbers
<1>9. Ringed(g)'
  BY <1>1, <1>4, <1>8 DEF Ringed
<1>10. /\ \A c, v : (Given(c, v)' <=> Given(c, v)) /\ (Served(c, v)' <=> Served(c, v))
       /\ \A s \in Threads : Active(s)' <=> Active(s)
  BY <1>1 DEF Given, Served, Active
<1>11. TypeOK'
  BY <1>1, <1>2, <1>3, <1>8 DEF IInv, TypeOK, cpull!TypeOK
<1>12. object[a] \in Clients \/ object[a] = Invalid
  BY <1>2 DEF IInv, ObjectsOK
<1> HIDE DEF a
<1>13. NodeOK'
  BY <1>1, <1>2, <1>3, <1>4, <1>5, <1>12 DEF NodeOK
<1>14. ObjectsOK'
  <2>1. \A b \in live : \/ object[b] \in Clients
                        \/ object[b] = Invalid /\ failures > 0 /\ b = a
    BY DEF IInv, ObjectsOK, a
  <2>2. \A b, c \in live : object[b] = object[c] => b = c
    BY DEF IInv, ObjectsOK
  <2> QED BY <1>1, <1>3, <2>1, <2>2 DEF ObjectsOK
<1>15. ClientsOK' /\ IntactOK'
  BY <1>1, <1>2, <1>4 DEF IInv, ClientsOK, Member, IntactOK
<1>16. MessagesOK'
  <2>1. \A m \in 1..Len(posted) : Over(m)' <=> Over(m)
    BY <1>1 DEF Over
  <2>2. main'.pc = "welcome" => ~ Given(object[a], Welcome)
    BY <1>1 DEF IInv, MessagesOK, a
  <2> QED BY <1>1, <1>2, <1>3, <1>4, <1>10, <2>1, <2>2 DEF IInv, MessagesOK
<1>17. ApartOK'
  BY <1>1, <1>2, <1>3, <1>4, <1>10 DEF IInv, ApartOK
<1>18. Placed(g)'
  <2>1. /\ f \in [1..Count -> On] /\ Count \in Nat
    BY <1>6, RingFacts
  <2>2. /\ \A i \in 1..Count : g[i] = f[i] /\ f[i] \in On
        /\ g[Count + 1] = a /\ \A i \in 1..(Count + 1) : i \in 1..Count \/ i = Count + 1
        /\ \A i \in 1..Count : i \in 1..(Count + 1)
        /\ Count + 1 \in 1..(Count + 1)
    BY <1>7, <2>1 DEF Appended
  <2>3. ASSUME NEW s \in Threads, Active(s), NEW i \in 1..(Count + 1)
        PROVE  /\ Passed(g, Count + 1, walk[s], i) /\ object[g[i]] \in posted[walk[s].msg].to
                    => Served(object[g[i]], walk[s].msg)
               /\ Given(object[g[i]], walk[s].msg) => Passed(g, Count + 1, walk[s], i)
    <3>1. CASE i \in 1..Count
      <4>1. Passed(g, Count + 1, walk[s], i) <=> Passed(f, Count, walk[s], i)
        <5>1. i < Count + 1
          BY <2>1, <3>1
        <5> QED BY <2>1, <2>2, <5>1 DEF Passed
      <4> QED BY <1>6, <2>2, <2>3, <3>1, <4>1 DEF Placed
    <3>2. CASE i = Count + 1
      <4>1. object[a] \notin posted[walk[s].msg].to
        <5>1. walk[s].msg \in 1..Len(posted)
          BY <2>3, ActiveFacts
        <5>2. \A b \in On : object[b] # object[a]
          BY <1>2 DEF IInv, ObjectsOK
        <5> QED BY <5>1, <5>2 DEF IInv, MessagesOK
      <4>2. ASSUME Given(object[a], walk[s].msg) PROVE Passed(g, Count + 1, walk[s], i)
        <5>1. walk[s].cnode = NULL \/ (walk[s].cnode = a /\ walk[s].sent)
          BY <1>1, <2>3, <4>2 DEF IInv, ApartOK, a
        <5>2. NULL \notin live
          BY <1>2, ServerAssumption
        <5>3. \A k \in 1..(Count + 1) : g[k] = a => k = Count + 1
          BY <1>2, <2>2
        <5>4. \A k \in 1..(Count + 1) : g[k] # NULL
          BY <1>2, <2>2, <5>2
        <5> QED BY <3>2, <5>1, <5>3, <5>4 DEF Passed
      <4> QED BY <2>2, <3>2, <4>1, <4>2
    <3> QED BY <2>2, <3>1, <3>2
  <2> QED BY <1>1, <1>5, <1>10, <2>3 DEF Placed
<1> QED BY <1>9, <1>11, <1>13, <1>14, <1>15, <1>16, <1>17, <1>18 DEF IInv

(* Only the last node of the ring, that of a failed accept, is unlinked. *)
LEMMA EraseUnlinkNumbers ==
  ASSUME IInv, EraseUnlink, NEW f, Ringed(f)
  PROVE  LET a == main.node IN
         /\ Count > 0 /\ f[Count] = a
         /\ Numbers(ClosedUp(f, Count, Count), Count - 1, live \ {a}, next', back', first', last')
         /\ first' = first /\ next'[a] = first /\ (Count = 1 => last' = first)
         /\ next' \in [Addr -> Addr \cup {NULL}] /\ back' \in [Addr -> Addr \cup {NULL}]
         /\ last' \in Addr \cup {NULL}
<1> DEFINE a == main.node
           n == Count
<1>1. /\ main.pc = "unlink" /\ a = last /\ a \in live /\ On = live /\ Back = back /\ ~ Apart
      /\ next' = [next EXCEPT ![back[a]] = next[a]] /\ back' = [back EXCEPT ![next[a]] = back[a]]
      /\ first' = (IF a = first THEN next[a] ELSE first)
      /\ last' = (IF a # first /\ a = last THEN back[a] ELSE last)
  BY DEF EraseUnlink, IInv, NodeOK, On, Back, Apart, cpull!NewFirst, cpull!NewLast
<1>2. /\ live \subseteq Addr /\ next \in [Addr -> Addr \cup {NULL}]
      /\ back \in [Addr -> Addr \cup {NULL}]
  BY Types
<1>3. /\ n \in Nat \ {0} /\ \A i, j \in 1..n : f[i] = f[j] => i = j
      /\ first = f[1] /\ last = f[n] /\ next[a] = first /\ 1 \in 1..n /\ n \in 1..n
      /\ first \in Addr
  <2>1. n # 0
    BY <1>1, RingFacts
  <2> QED BY <1>1, <1>2, <2>1, RingFacts
<1>4. Numbers(f, n, live, next, back, first, last)
  BY <1>1 DEF Ringed
<1>5. back[a] \in live /\ next[a] \in live
  BY <1>1, <1>3, <1>4, Neighbours
<1>6. /\ next' \in [Addr -> Addr \cup {NULL}] /\ back' \in [Addr -> Addr \cup {NULL}]
      /\ last' \in Addr \cup {NULL} /\ first' = first
  BY <1>1, <1>2, <1>3, <1>5
<1> HIDE DEF n, a
<1>7. CASE n = 1
  <2>1. first = a /\ last' = first /\ live \ {a} = {}
    <3>1. first = a /\ last' = first
      BY <1>1, <1>3, <1>7
    <3>2. \A b \in live : b = f[1]
      BY <1>4, <1>7 DEF Numbers
    <3> QED BY <1>3, <3>1, <3>2
  <2>2. back[a] = a
    <3>1. Behind(1, 1, n)
      BY <1>7 DEF Behind
    <3> QED BY <1>3, <1>4, <2>1, <3>1 DEF Numbers
  <2>3. next'[a] = first
    BY <1>1, <1>2, <1>3, <2>2
  <2>4. Numbers(ClosedUp(f, n, n), 0, {}, next', back', first', last')
    <3>1. ClosedUp(f, n, n) \in [1..0 -> {}] /\ 1..0 = {}
      BY <1>7 DEF ClosedUp
    <3> QED BY <3>1 DEF Numbers
  <2> QED BY <1>1, <1>3, <1>6, <1>7, <2>1, <2>3, <2>4 DEF n, a
<1>8. CASE n > 1
  <2>1. a # first
    BY <1>1, <1>3, <1>8
  <2>2. back[a] # a
    <3>1. n - 1 \in 1..n /\ Behind(n - 1, n, n)
      BY <1>3, <1>8 DEF Behind
    <3>2. back[a] = f[n - 1]
      BY <1>1, <1>3, <1>4, <3>1 DEF Numbers
    <3>3. f[n - 1] # f[n]
      BY <1>3, <3>1
    <3> QED BY <1>1, <1>3, <3>2, <3>3
  <2>3. next'[a] = first
    BY <1>1, <1>2, <1>3, <2>2
  <2>4. a = f[n]
    BY <1>1, <1>3
  <2> DEFINE b == f[n]
  <2>5. Numbers(ClosedUp(f, n, n), n - 1, live \ {b},
                [next EXCEPT ![back[b]] = next[b]], [back EXCEPT ![next[b]] = back[b]],
                IF b = first THEN next[b] ELSE first, IF b # first /\ b = last THEN back[b] ELSE last)
    <3>1. n \in Nat /\ n \in 1..n /\ live \in SUBSET Addr
      BY <1>2, <1>3
    <3> QED BY <1>2, <1>4, <1>8, <3>1, UnlinkNumbers
  <2>6. Numbers(ClosedUp(f, n, n), n - 1, live \ {a}, next', back', first', last')
    BY <1>1, <2>4, <2>5
  <2> QED BY <1>1, <1>3, <1>6, <1>8, <2>3, <2>4, <2>6 DEF n, a
<1> QED BY <1>3, <1>7, <1>8

LEMMA EraseUnlinkStep == IInv /\ EraseUnlink => IInv'
<1> SUFFICES ASSUME IInv, EraseUnlink PROVE IInv'
  OBVIOUS
<1> DEFINE a == main.node
<1>1. /\ main.pc = "unlink" /\ main' = At("delete", a) /\ object[a] = Invalid /\ a \in live
      /\ failures > 0
      /\ UNCHANGED <<live, object, m_allocated, thread, walk, client, backlog, posted, out, failures, proc>>
  <2>1. main.pc = "unlink" /\ object[a] = Invalid /\ a \in live
    BY DEF EraseUnlink, IInv, NodeOK
  <2>2. failures > 0
    BY <2>1, ServerAssumption DEF IInv, ObjectsOK
  <2>3. client' = client
    <3>1. client' = [c \in Clients |-> IF object[a] = c THEN "gone" ELSE client[c]]
      BY DEF EraseUnlink
    <3>2. \A c \in Clients : object[a] # c
      BY <2>1, ServerAssumption
    <3>3. client \in [Clients -> {"away", "open", "gone"}]
      BY Types
    <3> QED BY <3>1, <3>2, <3>3
  <2> QED BY <2>1, <2>2, <2>3 DEF EraseUnlink
<1>2. /\ live \subseteq Addr /\ m_allocated \in Nat
  BY Types
<1>3. /\ main'.pc = "delete" /\ main'.node = a /\ Apart' /\ ~ Apart
      /\ main' \in [pc : {"reap", "accept", "forward", "into", "unlink", "delete", "welcome", "start"},
                    node : Addr \cup {NULL}]
  BY <1>1, <1>2 DEF At, Apart
<1>4. /\ On = live /\ On' = live \ {a} /\ Count = m_allocated /\ Count' = Count - 1 /\ Back' = back'
  BY <1>1, <1>2, <1>3 DEF On, Count, Back
<1>5. PICK f : Ringed(f) /\ Placed(f)
  BY DEF IInv
<1>6. PICK g : g = ClosedUp(f, Count, Count)
  OBVIOUS
<1>7. /\ Count > 0 /\ f[Count] = a
      /\ Numbers(g, Count - 1, live \ {a}, next', back', first', last')
      /\ first' = first /\ next'[a] = first /\ (Count = 1 => last' = first)
      /\ next' \in [Addr -> Addr \cup {NULL}] /\ back' \in [Addr -> Addr \cup {NULL}]
      /\ last' \in Addr \cup {NULL}
  BY <1>5, <1>6, EraseUnlinkNumbers
<1>8. Ringed(g)'
  BY <1>1, <1>4, <1>7 DEF Ringed
<1>9. /\ \A c, v : (Given(c, v)' <=> Given(c, v)) /\ (Served(c, v)' <=> Served(c, v))
      /\ \A s \in Threads : Active(s)' <=> Active(s)
  BY <1>1 DEF Given, Served, Active
<1>10. Invalid \notin Clients
  BY ServerAssumption
<1>11. TypeOK'
  BY <1>1, <1>3, <1>7 DEF IInv, TypeOK, cpull!TypeOK
<1>12. \A c \in Clients : (\E b \in On : object[b] = c) => \E b \in On' : object[b] = c
  BY <1>1, <1>4, <1>10
<1> HIDE DEF a
<1>13. NodeOK'
  BY <1>1, <1>2, <1>3, <1>4, <1>7 DEF NodeOK
<1>14. ObjectsOK'
  <2>1. \A b \in live : \/ object[b] \in Clients
                        \/ object[b] = Invalid /\ failures > 0 /\ b = a
    BY DEF IInv, ObjectsOK, a
  <2>2. \A b, c \in live : object[b] = object[c] => b = c
    BY DEF IInv, ObjectsOK
  <2> QED BY <1>1, <1>3, <2>1, <2>2 DEF ObjectsOK
<1>15. ClientsOK' /\ IntactOK'
  BY <1>1, <1>7, <1>12 DEF IInv, ClientsOK, Member, IntactOK
<1>16. MessagesOK'
  <2>1. \A m \in 1..Len(posted) : Over(m)' <=> Over(m)
    BY <1>1 DEF Over
  <2>2. \A m \in 1..Len(posted) : \A c \in posted[m].to :
          c # posted[m].source /\ \E b \in On' : object[b] = c
    BY <1>12, Types DEF IInv, MessagesOK
  <2> QED BY <1>1, <1>3, <1>7, <1>9, <2>1, <2>2 DEF IInv, MessagesOK
<1>17. ApartOK'
  BY <1>1, <1>3, <1>9 DEF IInv, ApartOK
<1>18. Placed(g)'
  <2>1. Count \in Nat
    BY <1>5, RingFacts
  <2>2. /\ \A i \in 1..(Count - 1) : g[i] = f[i] /\ i \in 1..Count /\ i # Count
        /\ \A k \in 1..Count : k \in 1..(Count - 1) \/ k = Count
    BY <1>6, <2>1 DEF ClosedUp
  <2>3. ASSUME NEW s \in Threads, Active(s), NEW i \in 1..(Count - 1)
        PROVE  Passed(g, Count - 1, walk[s], i) <=> Passed(f, Count, walk[s], i)
    <3>1. i < Count
      BY <2>1
    <3> QED BY <2>2, <3>1 DEF Passed
  <2> QED BY <1>1, <1>4, <1>5, <1>9, <2>2, <2>3 DEF Placed
<1> QED BY <1>8, <1>11, <1>13, <1>14, <1>15, <1>16, <1>17, <1>18 DEF IInv

LEMMA EraseDeleteStep == IInv /\ EraseDelete => IInv'
<1> SUFFICES ASSUME IInv, EraseDelete PROVE IInv'
  OBVIOUS
<1> DEFINE a == main.node
<1>1. /\ main.pc = "delete" /\ object[a] = Invalid /\ a \in live
      /\ live' = live \ {a} /\ m_allocated' = m_allocated - 1 /\ main' = At("accept", NULL)
      /\ UNCHANGED <<object, next, back, first, last, thread, walk, client, backlog, posted, out,
                     failures, proc>>
  BY DEF EraseDelete, IInv, NodeOK
<1>2. failures > 0
  BY <1>1, ServerAssumption DEF IInv, ObjectsOK
<1>3. /\ main'.pc = "accept" /\ main'.node = NULL /\ ~ Apart' /\ Apart
      /\ main' \in [pc : {"reap", "accept", "forward", "into", "unlink", "delete", "welcome", "start"},
                    node : Addr \cup {NULL}]
  BY <1>1 DEF At, Apart
<1>4. /\ On' = On /\ On = live' /\ Count' = Count /\ Count = m_allocated - 1 /\ Count \in Nat /\ Back' = Back
  BY <1>1, <1>3 DEF IInv, NodeOK, On, Count, Back
<1>5. PICK f : Ringed(f) /\ Placed(f)
  BY DEF IInv
<1>6. Ringed(f)'
  BY <1>1, <1>4, <1>5 DEF Ringed
<1>7. /\ \A c, v : (Given(c, v)' <=> Given(c, v)) /\ (Served(c, v)' <=> Served(c, v))
      /\ \A s \in Threads : Active(s)' <=> Active(s)
  BY <1>1 DEF Given, Served, Active
<1>8. \A c \in Clients : Member(c)' <=> Member(c)
  BY <1>1, ServerAssumption DEF Member
<1>9. TypeOK'
  <2>1. m_allocated \in 0..maxconnlen /\ maxconnlen \in Nat
    BY Types, ServerAssumption
  <2>2. m_allocated' \in 0..maxconnlen
    BY <1>1, <1>4, <2>1
  <2> QED BY <1>1, <1>3, <2>2 DEF IInv, TypeOK, cpull!TypeOK
<1>10. NodeOK'
  BY <1>1, <1>3, <1>4 DEF IInv, NodeOK
<1>11. ObjectsOK'
  BY <1>1, <1>3 DEF IInv, ObjectsOK
<1>12. ClientsOK' /\ IntactOK'
  BY <1>1, <1>2, <1>4, <1>8 DEF IInv, ClientsOK, IntactOK
<1>13. MessagesOK'
  <2>1. \A m \in 1..Len(posted) : Over(m)' <=> Over(m)
    BY <1>1 DEF Over
  <2> QED BY <1>1, <1>3, <1>4, <1>7, <2>1 DEF IInv, MessagesOK
<1>14. ApartOK'
  BY <1>1, <1>2, <1>3 DEF ApartOK
<1>15. Placed(f)'
  BY <1>1, <1>4, <1>5, <1>7 DEF Placed
<1> QED BY <1>6, <1>9, <1>10, <1>11, <1>12, <1>13, <1>14, <1>15 DEF IInv

LEMMA NextIInv == IInv /\ [Next]_vars => IInv'
<1> SUFFICES ASSUME IInv, [Next]_vars PROVE IInv'
  OBVIOUS
<1>1. ASSUME NEW c \in Clients, Connect(c) \/ Leave(c) \/ Accept(c) \/ ReadsNothing(c) PROVE IInv'
  BY <1>1, ConnectStep, LeaveStep, AcceptStep, ReadsNothingStep
<1>2. ASSUME NEW c \in Clients, Relays(c) PROVE IInv'
  BY <1>2, PostStep DEF Relays, Threads, Post
<1>3. ASSUME WorkerSends PROVE IInv'
  BY <1>3, PostStep DEF WorkerSends, Threads, Post
<1>4. CASE Reap \/ AcceptFails \/ EmplaceForward \/ EmplaceInto \/ EraseUnlink \/ EraseDelete
           \/ SendWelcome \/ StartReceiver
  BY <1>4, ReapStep, AcceptFailsStep, EmplaceForwardStep, EmplaceIntoStep, EraseUnlinkStep,
     EraseDeleteStep, SendWelcomeStep, StartReceiverStep
<1>5. ASSUME NEW t \in Threads, Walk(t) PROVE IInv'
  BY <1>5, WalkSendStep, WalkNextStep, WalkStops DEF Walk
<1>6. CASE UNCHANGED vars
  <2>1. proc \in {"running", "terminated", "nullptr", "deleted"}
    BY DEF IInv, TypeOK
  <2>2. UNCHANGED <<ring, main, thread, walk, client, backlog, posted, out, failures, proc>>
    BY <1>6 DEF vars
  <2> QED BY <2>1, <2>2, StopStep
<1> QED BY <1>1, <1>2, <1>3, <1>4, <1>5, <1>6 DEF Next

(* The numbering of the ring and the places of the walks last for ever.     *)
THEOREM Invariance == Spec => []IInv
<1> QED BY InitIInv, NextIInv, PTL DEF Spec

(* Every pointer is an address, and the pool stays within its capacity.     *)
THEOREM TypeCorrect == Spec => []TypeOK
<1>1. IInv => TypeOK
  BY DEF IInv
<1> QED BY <1>1, Invariance, PTL

LEMMA WholeRing == IInv => WholeBetweenCalls
<1> SUFFICES ASSUME IInv, main.pc \notin {"forward", "into", "unlink", "delete"}, m_allocated > 0
             PROVE  cpull!Circular
  <2>1. m_allocated > 0 \/ cpull!Circular
    BY DEF cpull!Circular
  <2> QED BY <2>1 DEF WholeBetweenCalls
<1>1. PICK f : Ringed(f)
  BY DEF IInv
<1>2. Numbers(f, m_allocated, live, next, back, first, last)
  BY <1>1 DEF Ringed, Count, On, Back, Apart
<1>3. m_allocated \in Nat \ {0}
  BY Types
<1>4. cpull!Walk = f
  BY <1>2, <1>3, WalkIsNumbers DEF cpull!Walk
<1>5. {cpull!Walk[i] : i \in 1..m_allocated} = live
  <2>1. /\ \A i \in 1..m_allocated : f[i] \in live
        /\ \A a \in live : \E i \in 1..m_allocated : f[i] = a
    BY <1>2 DEF Numbers
  <2> QED BY <1>4, <2>1
<1>6. Cardinality(live) = m_allocated
  BY <1>2, <1>3, NumbersCount
<1>7. cpull!Walk[m_allocated] = last
  BY <1>2, <1>3, <1>4 DEF Numbers
<1>8. next[last] = first /\ \A a \in live : back[next[a]] = a
  BY <1>2, <1>3, Neighbours
<1>9. cpull!Cardinality(live) = Cardinality(live)
  BY DEF cpull!Cardinality, Cardinality
<1> QED BY <1>5, <1>6, <1>7, <1>8, <1>9 DEF cpull!Circular

(* However accepts, failed accepts and relays interleave, server_start      *)
(* finds the ring whole whenever it is outside emplace and erase.           *)
THEOREM RingWhole == Spec => []WholeBetweenCalls
<1> QED BY Invariance, WholeRing, PTL

(* Only the worker's walk, begun before anybody was linked, meets a null    *)
(* next, as long as every accept succeeds.                                  *)
THEOREM NullMet == Spec => []NullBeforeFirstOnly
<1>1. IInv => NullBeforeFirstOnly
  <2> SUFFICES ASSUME IInv, failures = 0, NEW t \in Threads, walk[t] # Idle, walk[t].cnode = NULL
               PROVE  t = Worker /\ posted[walk[t].msg].to = {}
    BY DEF NullBeforeFirstOnly
  <2>1. NULL \notin On
    BY Types, ServerAssumption DEF On
  <2> QED BY <2>1 DEF IInv, ApartOK, Active
<1> QED BY <1>1, Invariance, PTL

(* No walk and no emplace touches a deleted node as long as every accept    *)
(* succeeds: the receivers never return, so nothing else is ever erased.    *)
THEOREM DeletedMet == Spec => []DeletedAfterFailureOnly
<1>1. IInv => DeletedAfterFailureOnly
  BY DEF IInv, IntactOK, DeletedAfterFailureOnly
<1> QED BY <1>1, Invariance, PTL

(* A call of SendSequenceEachClient that is over has reached everybody that *)
(* was linked when it began, whatever was linked or unlinked meanwhile.     *)
THEOREM EverybodyReached == Spec => []AllReached
<1>1. IInv => AllReached
  BY DEF IInv, MessagesOK, AllReached, Served, Given
<1> QED BY <1>1, Invariance, PTL

----------------------------------------------------------------------------
(* The server is the relay that its clients take it for. *)

Members == {object[a] : a \in live} \ {Invalid}
Sources == [i \in 1..Len(posted) |-> posted[i].source]

(* The members of Relay are the clients with a node, no more than nodes.    *)
LEMMA MembersAre ==
  ASSUME IInv
  PROVE  /\ \A c : c \in Members <=> c \in Clients /\ Member(c)
         /\ IsFiniteSet(live) /\ IsFiniteSet(Members) /\ Cardinality(live) = m_allocated
         /\ Cardinality(Members) <= m_allocated
<1>1. ASSUME NEW c PROVE c \in Members <=> c \in Clients /\ Member(c)
  BY ServerAssumption DEF Members, Member, IInv, ObjectsOK
<1>2. PICK f : Ringed(f)
  BY DEF IInv
<1>3. Count \in Nat /\ IsFiniteSet(On) /\ Cardinality(On) = Count
  BY <1>2, RingFacts, NumbersCount DEF Ringed
<1>4. IsFiniteSet(live) /\ Cardinality(live) = m_allocated
  <2>1. CASE ~ Apart
    BY <1>3, <2>1 DEF On, Count
  <2>2. CASE Apart
    <3>1. main.node \in live /\ live = On \cup {main.node} /\ main.node \notin On
      BY <2>2 DEF IInv, NodeOK, Apart, On
    <3>2. IsFiniteSet(On \cup {main.node}) /\ Cardinality(On \cup {main.node}) = Count + 1
      BY <1>3, <3>1, FS_AddElement
    <3>3. m_allocated = Count + 1
      BY <1>3, <2>2, Types DEF Count
    <3> QED BY <3>1, <3>2, <3>3
  <2> QED BY <2>1, <2>2
<1>5. IsFiniteSet(Members) /\ Cardinality(Members) <= Cardinality(live)
  <2>1. PICK h : h = [c \in Members |-> CHOOSE a \in live : object[a] = c]
    OBVIOUS
  <2>2. \A c \in Members : h[c] \in live /\ object[h[c]] = c
    <3> SUFFICES ASSUME NEW c \in Members PROVE h[c] \in live /\ object[h[c]] = c
      OBVIOUS
    <3>1. \E a \in live : object[a] = c
      BY DEF Members
    <3> QED BY <2>1, <3>1
  <2>3. h \in Injection(Members, live)
    <3>1. h \in [Members -> live]
      BY <2>1, <2>2
    <3>2. \A c, d \in Members : h[c] = h[d] => c = d
      BY <2>2
    <3> QED BY <3>1, <3>2 DEF Injection, IsInjective
  <2> QED BY <1>4, <2>3, FS_Injection
<1> QED BY <1>1, <1>4, <1>5

LEMMA InitRelay == Init => Promise!Init
<1> SUFFICES ASSUME Init PROVE Promise!Init
  OBVIOUS
<1>1. Members = {}
  BY DEF Init, cpull!Init, Members
<1>2. Sources = <<>>
  BY DEF Init, Sources
<1> QED BY <1>1, <1>2 DEF Init, Promise!Init, Members, Sources

(* The messages of Relay are the sources of those posted. *)
LEMMA SourcesAre ==
  ASSUME IInv
  PROVE  /\ Len(Sources) = Len(posted) /\ Len(posted) \in Nat
         /\ \A m \in 1..Len(posted) : Sources[m] = posted[m].source
<1>1. Len(posted) \in Nat
  BY Types, LenProperties
<1>2. \A m \in 1..Len(posted) : Sources[m] = posted[m].source
  BY DEF Sources
<1>3. Sources \in Seq(Threads) /\ Len(Sources) = Len(posted)
  <2>1. \A i \in 1..Len(posted) : posted[i].source \in Threads
    BY Types
  <2> QED BY <1>1, <2>1 DEF Sources
<1> QED BY <1>1, <1>2, <1>3

(* Accepting a client is joining; a failed accept changes no member.        *)
LEMMA AcceptJoins == ASSUME IInv, NEW c \in Clients, Accept(c) PROVE Promise!Join(c)
<1>1. PICK a \in Addr \ live : NewNode(a, c)
  BY DEF Accept
<1>2. /\ m_allocated < maxconnlen /\ c \in backlog /\ proc = "running"
      /\ UNCHANGED <<posted, out, proc>>
  BY DEF Accept, Room
<1>3. c \notin Members
  BY <1>2, MembersAre DEF IInv, ClientsOK
<1>4. Members' = Members \cup {c}
  <2>1. live' = live \cup {a} /\ object' = [object EXCEPT ![a] = c]
    BY <1>1 DEF NewNode
  <2>2. object'[a] = c /\ \A b \in live : object'[b] = object[b]
    BY <2>1, Types
  <2>3. c # Invalid
    BY ServerAssumption
  <2> QED BY <2>1, <2>2, <2>3 DEF Members
<1>5. Cardinality(Members) < maxconnlen
  <2>1. Cardinality(Members) \in Nat /\ Cardinality(Members) <= m_allocated
    BY MembersAre, FS_CardinalityType
  <2>2. m_allocated \in Nat /\ maxconnlen \in Nat
    BY Types, ServerAssumption
  <2> QED BY <1>2, <2>1, <2>2
<1>6. UNCHANGED Sources /\ UNCHANGED (proc = "running")
  BY <1>2 DEF Sources
<1>7. Promise!Cardinality(Members) = Cardinality(Members)
  BY DEF Promise!Cardinality, Cardinality
<1> QED BY <1>2, <1>3, <1>4, <1>5, <1>6, <1>7 DEF Promise!Join, Members, Sources

LEMMA AcceptFailsRelay == ASSUME IInv, AcceptFails PROVE UNCHANGED Promise!vars
<1>1. PICK a \in Addr \ live : NewNode(a, Invalid)
  BY DEF AcceptFails
<1>2. live' = live \cup {a} /\ object' = [object EXCEPT ![a] = Invalid]
  BY <1>1 DEF NewNode
<1>3. object'[a] = Invalid /\ \A b \in live : object'[b] = object[b]
  BY <1>2, Types
<1>4. Members' = Members
  BY <1>2, <1>3 DEF Members
<1> QED BY <1>4 DEF AcceptFails, Promise!vars, Members

(* send() on a connection in the ring gives, or does nothing. *)
LEMMA WalkSendGives ==
  ASSUME IInv, NEW t \in Threads, WalkSend(t)
  PROVE  [Promise!Next]_Promise!vars
<1> DEFINE x == object[walk[t].cnode]
           m == walk[t].msg
<1>1. /\ Active(t) /\ walk[t].cnode \in live /\ proc = "running"
      /\ out' = IF Other(t, x) THEN Sent(x, m) ELSE out
      /\ UNCHANGED <<ring, posted, proc>>
  BY DEF WalkSend, Active
<1>2. m \in 1..Len(posted) /\ posted[m].source = t /\ Len(posted) \in Nat /\ m # Welcome
  BY <1>1, ActiveFacts
<1>3. ~ Given(x, m)
  BY NotGivenYet
<1>4. UNCHANGED Members /\ UNCHANGED Sources /\ UNCHANGED (proc = "running")
  BY <1>1 DEF ring, Members, Sources
<1> HIDE DEF x, m
<1>5. CASE x \in Clients /\ client[x] = "open" /\ Other(t, x)
  <2>1. out' = [out EXCEPT ![x] = Append(out[x], m)]
    BY <1>1, <1>5 DEF Sent
  <2>2. x \in Members
    BY <1>1, <1>5, MembersAre DEF Member, x
  <2>3. /\ Len(Sources) = Len(posted) /\ \A i \in 1..Len(posted) : Sources[i] = posted[i].source
    BY SourcesAre
  <2>4. x # Sources[m]
    BY <1>2, <1>5, <2>3 DEF Other
  <2>5. ASSUME NEW i \in 1..Len(out[x]), out[x][i] # Welcome, Sources[out[x][i]] = Sources[m]
        PROVE  out[x][i] < m
    <3>1. out[x][i] \in 1..Len(posted) /\ Given(x, out[x][i])
      BY <1>5, <2>5 DEF IInv, MessagesOK, Given
    <3>2. posted[out[x][i]].source = t
      BY <1>2, <2>3, <2>5, <3>1
    <3>3. out[x][i] <= m
      BY <1>1, <3>1, <3>2 DEF IInv, MessagesOK, m
    <3>4. out[x][i] # m
      BY <1>3, <3>1
    <3> QED BY <1>2, <3>1, <3>3, <3>4
  <2>6. m \in 1..Len(Sources)
    BY <1>2, <2>3
  <2>7. Promise!Give(m, x)
    BY <1>1, <1>4, <2>1, <2>2, <2>4, <2>5, <2>6 DEF Promise!Give, Members, Sources
  <2>8. m \in 1..Len([i \in 1..Len(posted) |-> posted[i].source])
    BY <2>6 DEF Sources
  <2> QED BY <1>5, <2>7, <2>8 DEF Promise!Next
<1>6. CASE ~(x \in Clients /\ client[x] = "open" /\ Other(t, x))
  <2>1. out' = out
    BY <1>1, <1>6 DEF Sent
  <2> QED BY <1>1, <1>4, <2>1 DEF Promise!vars, Members, Sources
<1> QED BY <1>5, <1>6

LEMMA SendWelcomeGreets ==
  ASSUME IInv, SendWelcome
  PROVE  [Promise!Next]_Promise!vars
<1> DEFINE x == object[main.node]
<1>1. /\ main.pc = "welcome" /\ proc = "running" /\ out' = Sent(x, Welcome)
      /\ UNCHANGED <<ring, posted, proc>>
  BY DEF SendWelcome
<1>2. x \in Clients /\ x \in Members
  BY <1>1, MembersAre DEF IInv, NodeOK, Member
<1>3. ~ Given(x, Welcome)
  BY <1>1 DEF IInv, MessagesOK
<1>4. UNCHANGED Members /\ UNCHANGED Sources /\ UNCHANGED (proc = "running")
  BY <1>1 DEF ring, Members, Sources
<1> HIDE DEF x
<1>5. CASE client[x] = "open"
  <2>1. out' = [out EXCEPT ![x] = Append(out[x], Welcome)]
    BY <1>1, <1>2, <1>5 DEF Sent
  <2>2. \A i \in 1..Len(out[x]) : out[x][i] # Welcome
    BY <1>2, <1>3 DEF Given
  <2>3. Promise!Greet(x)
    BY <1>1, <1>2, <1>4, <2>1, <2>2 DEF Promise!Greet, Members, Sources
  <2> QED BY <1>2, <2>3 DEF Promise!Next
<1>6. CASE client[x] # "open"
  <2>1. out' = out
    BY <1>1, <1>6 DEF Sent
  <2> QED BY <1>1, <1>4, <2>1 DEF Promise!vars, Members, Sources
<1> QED BY <1>5, <1>6

(* A new walk is a message posted by a member, or by the server itself. *)
LEMMA PostPosts ==
  ASSUME IInv, NEW t \in Threads, Post(t), proc = "running", UNCHANGED proc,
         t # Worker => thread[t] = "running"
  PROVE  Promise!Next
<1> DEFINE rec == [source |-> t, to |-> Linked \ {t}]
           more == Append(posted, rec)
<1>1. posted' = more /\ UNCHANGED <<ring, out>>
  BY DEF Post
<1>2. t \in Members \cup {Worker}
  <2>1. t # Worker => t \in Clients
    BY DEF Threads
  <2>2. t # Worker => \E a \in On : object[a] = t
    BY <2>1 DEF IInv, ClientsOK
  <2>3. On \subseteq live
    BY DEF On
  <2> QED BY <2>1, <2>2, <2>3, MembersAre DEF Member
<1>3. posted \in Seq([source : Threads, to : SUBSET Clients]) /\ Len(posted) \in Nat
  BY Types, LenProperties
<1>4. Sources' = Append(Sources, t)
  <2> DEFINE T == [source : Threads, to : SUBSET Clients]
             n == Len(posted)
             add == Append(Sources, t)
  <2>1. posted \in Seq(T) /\ rec \in T
    <3>1. Linked \subseteq Clients
      BY DEF Linked, IInv, ObjectsOK
    <3> QED BY <1>3, <3>1
  <2>s. rec.source = t
    OBVIOUS
  <2> HIDE DEF T, rec
  <2>2. /\ Len(more) = n + 1 /\ more[n + 1] = rec /\ \A i \in 1..n : more[i] = posted[i]
    BY <2>1, AppendProperties
  <2>3. Sources \in Seq(Threads) /\ Len(Sources) = n /\ n \in Nat
    <3>1. \A i \in 1..Len(posted) : posted[i].source \in Threads
      BY Types
    <3> QED BY <1>3, <3>1 DEF Sources
  <2>4. /\ add \in Seq(Threads) /\ Len(add) = n + 1 /\ add[n + 1] = t
        /\ \A i \in 1..n : add[i] = Sources[i]
    BY <2>3, AppendProperties
  <2>5. add = [i \in 1..(n + 1) |-> add[i]]
    <3> HIDE DEF add
    <3>1. \A s \in Seq(Threads) : s = [i \in 1..Len(s) |-> s[i]]
      OBVIOUS
    <3> QED BY <2>4, <3>1, Zenon
  <2>6. \A i \in 1..(n + 1) : more[i].source = add[i]
    <3> SUFFICES ASSUME NEW i \in 1..(n + 1) PROVE more[i].source = add[i]
      OBVIOUS
    <3>1. CASE i = n + 1
      BY <2>2, <2>4, <2>s, <3>1
    <3>2. CASE i \in 1..n
      BY <2>2, <2>4, <3>2 DEF Sources
    <3> QED BY <2>3, <3>1, <3>2
  <2>7. [i \in 1..(n + 1) |-> more[i].source] = [i \in 1..(n + 1) |-> add[i]]
    <3> HIDE DEF more, add, n
    <3> QED BY <2>6, Zenon
  <2>8. Sources' = [i \in 1..(n + 1) |-> more[i].source]
    <3>1. Sources' = [i \in 1..Len(posted') |-> posted'[i].source]
      BY DEF Sources
    <3> HIDE DEF more, n
    <3> QED BY <1>1, <2>2, <3>1
  <2> HIDE DEF more, add, n
  <2>9. Sources' = add
    BY <2>5, <2>7, <2>8
  <2> QED BY <2>9 DEF add
<1>5. UNCHANGED Members /\ UNCHANGED (proc = "running")
  BY <1>1 DEF ring, Members
<1> HIDE DEF rec, more
<1>6. Promise!Post(t)
  BY <1>1, <1>4, <1>5 DEF Promise!Post, Members, Sources
<1> QED BY <1>2, <1>6 DEF Promise!Next, Members

LEMMA StopStops ==
  ASSUME proc = "running", proc' # "running",
         UNCHANGED <<ring, main, thread, walk, client, backlog, posted, out, failures>>
  PROVE  Promise!Next
<1>1. UNCHANGED Members /\ UNCHANGED Sources
  BY DEF ring, Members, Sources
<1>2. Promise!Stop
  BY <1>1 DEF Promise!Stop, Members, Sources
<1> QED BY <1>2 DEF Promise!Next

LEMMA StepRelay == IInv /\ [Next]_vars => [Promise!Next]_Promise!vars
<1> SUFFICES ASSUME IInv, [Next]_vars PROVE [Promise!Next]_Promise!vars
  OBVIOUS
<1>1. ASSUME UNCHANGED <<live, object, posted, out, proc>> PROVE UNCHANGED Promise!vars
  BY <1>1 DEF Promise!vars
<1>2. ASSUME NEW c \in Clients, Connect(c) \/ Leave(c) PROVE UNCHANGED Promise!vars
  BY <1>1, <1>2 DEF Connect, Leave, ring
<1>3. ASSUME NEW c \in Clients, Accept(c) PROVE Promise!Next
  BY <1>3, AcceptJoins DEF Promise!Next
<1>4. ASSUME NEW c \in Clients, Relays(c) PROVE Promise!Next
  BY <1>4, PostPosts DEF Relays, Threads, Post
<1>5. ASSUME NEW c \in Clients, ReadsNothing(c) PROVE Promise!Next
  BY <1>5, StopStops DEF ReadsNothing, Unfinished
<1>6. CASE Reap \/ StartReceiver \/ EmplaceInto \/ EraseUnlink
  BY <1>1, <1>6 DEF Reap, StartReceiver, EmplaceInto, EraseUnlink, ring
<1>7. CASE AcceptFails
  BY <1>7, AcceptFailsRelay
<1>8. CASE EmplaceForward
  BY <1>1, <1>8, StopStops DEF EmplaceForward, Broken
<1>9. CASE EraseDelete
  <2>1. object[main.node] = Invalid
    BY <1>9 DEF EraseDelete, IInv, NodeOK
  <2>2. live' = live \ {main.node} /\ UNCHANGED <<object, posted, out, proc>>
    BY <1>9 DEF EraseDelete
  <2>3. Members' = Members
    BY <2>1, <2>2 DEF Members
  <2> QED BY <2>2, <2>3 DEF Promise!vars, Members
<1>10. CASE SendWelcome
  BY <1>10, SendWelcomeGreets
<1>11. CASE WorkerSends
  BY <1>11, PostPosts DEF WorkerSends, Threads, Post
<1>12. ASSUME NEW t \in Threads, Walk(t) PROVE [Promise!Next]_Promise!vars
  <2>1. CASE WalkSend(t)
    BY <2>1, WalkSendGives
  <2>2. CASE WalkNext(t)
    BY <1>1, <2>2 DEF WalkNext, ring
  <2>3. CASE WalkNull(t) \/ WalkDeleted(t)
    BY <2>3, StopStops DEF WalkNull, WalkDeleted
  <2> QED BY <1>12, <2>1, <2>2, <2>3 DEF Walk
<1>13. CASE UNCHANGED vars
  BY <1>1, <1>13 DEF vars, ring
<1> QED BY <1>2, <1>3, <1>4, <1>5, <1>6, <1>7, <1>8, <1>9, <1>10, <1>11, <1>12, <1>13 DEF Next

(* Clients and server_start see the relay: nobody gets his own message      *)
(* back, nobody gets one twice, and each source's messages come in order,   *)
(* whatever receivers and server_start do to the ring at the same time.     *)
THEOREM ServerImplementsRelay == Spec => ImplementsRelay
<1> QED BY InitRelay, StepRelay, Invariance, PTL DEF Spec, ImplementsRelay, Promise!Spec
=============================================================================
