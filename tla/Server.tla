------------------------------- MODULE Server -------------------------------
(***************************************************************************)
(* The server process: server_start accepts connections into the ring      *)
(* cpull and starts a receiver for each; receivers and the clipboard       *)
(* worker walk the ring, without a lock, to send a message to all others.  *)
(* emplace and erase are taken apart into the steps a walk can tell apart. *)
(* A message is one SendSequence; Transport looks inside it.               *)
(***************************************************************************)
EXTENDS Integers, Sequences, FiniteSets

CONSTANTS
  Clients,      (* client processes, each with its own connection          *)
  Readers,      (* those that read all the time; others may stop for ever  *)
  Worker,       (* the clipboard worker's thread                           *)
  Addr,         (* the addresses operator new returns for nodes            *)
  NULL,         (* nullptr                                                 *)
  Invalid,      (* INVALID_SOCKET                                          *)
  maxconnlen,   (* the size of the pool and of the listen backlog          *)
  Welcome,      (* the text SendString sends to a new client               *)
  MaxMessages,  (* bound: messages relayed                                 *)
  MaxFailures   (* bound: calls of accept that fail                        *)

ASSUME ServerAssumption ==
  /\ NULL \notin Addr /\ Readers \subseteq Clients
  /\ Worker \notin Clients /\ Invalid \notin Clients
  /\ Welcome \notin Nat
  /\ maxconnlen \in Nat \ {0} /\ MaxMessages \in Nat /\ MaxFailures \in Nat

VARIABLES
  live, object, next, back, first, last, m_allocated,   \* cpull, as in RBuffer
  main,      (* where server_start is, and the node it works on            *)
  thread,    (* per client, its receiver                                   *)
  walk,      (* per thread, the SendSequenceEachClient it is inside        *)
  client,    (* per client, the state of its end of the connection         *)
  backlog,   (* connections that wait for accept                           *)
  posted,    (* per message: its source, and the clients linked then       *)
  out,       (* per client, what was sent on its connection                *)
  failures,  (* calls of accept that have failed                           *)
  proc       (* the process, or what ended it                              *)

ring == <<live, object, next, back, first, last, m_allocated>>
vars == <<ring, main, thread, walk, client, backlog, posted, out, failures, proc>>

Threads == Clients \cup {Worker}
Objects == Clients \cup {Invalid}

cpull == INSTANCE RBuffer WITH m_size <- maxconnlen, broken <- proc = "deleted"

At(pc, a) == [pc |-> pc, node |-> a]
Idle == [msg |-> 0]

Init ==
  /\ proc = "running"
  /\ cpull!Init
  /\ main = At("reap", NULL)
  /\ thread = [c \in Clients |-> "none"]
  /\ walk = [t \in Threads |-> Idle]
  /\ client = [c \in Clients |-> "away"]
  /\ backlog = {}
  /\ posted = <<>>
  /\ out = [c \in Clients |-> <<>>]
  /\ failures = 0

(* What send() does on the connection of x: a connection that has ended,    *)
(* or that never was one, returns SOCKET_ERROR.                             *)
Sent(x, message) ==
  IF x \in Clients /\ client[x] = "open" THEN [out EXCEPT ![x] = Append(@, message)] ELSE out

----------------------------------------------------------------------------
(* The clients and the network.                                            *)

(* connect is refused when the backlog is full. *)
Connect(c) ==
  /\ proc = "running"
  /\ client[c] = "away"
  /\ IF Cardinality(backlog) < maxconnlen
     THEN client' = [client EXCEPT ![c] = "open"] /\ backlog' = backlog \cup {c}
     ELSE client' = [client EXCEPT ![c] = "gone"] /\ UNCHANGED backlog
  /\ UNCHANGED <<ring, main, thread, walk, posted, out, failures, proc>>

Leave(c) ==
  /\ client[c] = "open"
  /\ client' = [client EXCEPT ![c] = "gone"]
  /\ UNCHANGED <<ring, main, thread, walk, backlog, posted, out, failures, proc>>

----------------------------------------------------------------------------
(* server_start.                                                           *)

(* Mutant: one connection more than the pool has places. *)
RoomForOneMore == m_allocated <= maxconnlen

(* cpull.size() < maxconnlen, and emplace's own test. *)
Room == m_allocated < maxconnlen

(* The receiver of a's client has returned: WaitForSingleObject says so. *)
Closed == {a \in live : object[a] \in Clients /\ thread[object[a]] = "ended"}

(* One node of the loop over the ring: a closed one is erased.  Without any *)
(* the loop ends; a full pool is looked at again after Sleep.               *)
Reap ==
  /\ proc = "running"
  /\ main.pc = "reap"
  /\ main' \in IF Closed # {} THEN {At("unlink", a) : a \in Closed}
               ELSE {At(IF Room THEN "accept" ELSE "reap", NULL)}
  /\ UNCHANGED <<ring, thread, walk, client, backlog, posted, out, failures, proc>>

(* emplace up to the assignment of first and last: a node is published now *)
(* if the ring was empty.                                                   *)
NewNode(a, x) ==
  /\ live' = live \cup {a}
  /\ object' = [object EXCEPT ![a] = x]
  /\ next' = [next EXCEPT ![a] = NULL]
  /\ back' = [back EXCEPT ![a] = NULL]
  /\ first' = cpull!FirstFor(a)
  /\ last' = cpull!LastFor(a)
  /\ m_allocated' = m_allocated + 1
  /\ main' = At("forward", a)

Accept(c) ==
  /\ proc = "running"
  /\ main.pc = "accept" /\ Room
  /\ c \in backlog
  /\ backlog' = backlog \ {c}
  /\ \E a \in Addr \ live : NewNode(a, c)
  /\ UNCHANGED <<thread, walk, client, posted, out, failures, proc>>

(* accept returns INVALID_SOCKET: it gets a node like any other. *)
AcceptFails ==
  /\ proc = "running"
  /\ main.pc = "accept" /\ Room
  /\ failures < MaxFailures
  /\ failures' = failures + 1
  /\ \E a \in Addr \ live : NewNode(a, Invalid)
  /\ UNCHANGED <<thread, walk, client, backlog, posted, out, proc>>

(* emplace touches a deleted node through first and last. *)
Broken ==
  /\ proc' = "deleted"
  /\ UNCHANGED <<ring, main, thread, walk, client, backlog, posted, out, failures>>

(* Mutant: node->next = first is forgotten. *)
LinkBackOnly(a) ==
  /\ back' = [back EXCEPT ![first] = a]
  /\ UNCHANGED next

(* first->back = node; node->next = first *)
LinkForward(a) ==
  /\ back' = [back EXCEPT ![first] = a]
  /\ next' = [next EXCEPT ![a] = first]

EmplaceForward ==
  /\ proc = "running"
  /\ main.pc = "forward"
  /\ IF {first, last} \subseteq live
     THEN /\ LinkForward(main.node)
          /\ main' = At("into", main.node)
          /\ UNCHANGED <<live, object, first, last, m_allocated, thread, walk, client, backlog,
                         posted, out, failures, proc>>
     ELSE Broken

(* Mutant: last stays where it was. *)
LinkKeepingLast(a) ==
  /\ next' = [next EXCEPT ![last] = a]
  /\ back' = [back EXCEPT ![a] = last]
  /\ UNCHANGED last

(* last->next = node; node->back = last; last = last->next *)
LinkInto(a) ==
  /\ next' = [next EXCEPT ![last] = a]
  /\ back' = [back EXCEPT ![a] = last]
  /\ last' = a

(* The end of emplace, and server_start's tests of what accept returned. *)
EmplaceInto ==
  /\ proc = "running"
  /\ main.pc = "into"
  /\ LinkInto(main.node)
  /\ main' = At(IF object[main.node] = Invalid THEN "unlink" ELSE "welcome", main.node)
  /\ UNCHANGED <<live, object, first, m_allocated, thread, walk, client, backlog, posted, out,
                 failures, proc>>

(* erase up to the delete: a walk no longer comes to the node.  The reaper  *)
(* has closed its socket before.                                            *)
EraseUnlink ==
  /\ proc = "running"
  /\ main.pc = "unlink"
  /\ LET a == main.node IN
       /\ next' = [next EXCEPT ![back[a]] = next[a]]
       /\ back' = [back EXCEPT ![next[a]] = back[a]]
       /\ first' = cpull!NewFirst(a)
       /\ last' = cpull!NewLast(a)
       /\ client' = [c \in Clients |-> IF object[a] = c THEN "gone" ELSE client[c]]
       /\ main' = At("delete", a)
  /\ UNCHANGED <<live, object, m_allocated, thread, walk, backlog, posted, out, failures, proc>>

(* The delete.  After a failed accept the next one follows; the reaper goes *)
(* on with its loop.                                                        *)
EraseDelete ==
  /\ proc = "running"
  /\ main.pc = "delete"
  /\ live' = live \ {main.node}
  /\ m_allocated' = m_allocated - 1
  /\ main' = At(IF object[main.node] = Invalid THEN "accept" ELSE "reap", NULL)
  /\ UNCHANGED <<object, next, back, first, last, thread, walk, client, backlog, posted, out,
                 failures, proc>>

(* SendString on the new connection, which others may already send on. *)
SendWelcome ==
  /\ proc = "running"
  /\ main.pc = "welcome"
  /\ out' = Sent(object[main.node], Welcome)
  /\ main' = At("start", main.node)
  /\ UNCHANGED <<ring, thread, walk, client, backlog, posted, failures, proc>>

(* CreateThread, whose failure nobody looks at. *)
StartReceiver ==
  /\ proc = "running"
  /\ main.pc = "start"
  /\ \E started \in BOOLEAN :
       thread' = IF started THEN [thread EXCEPT ![object[main.node]] = "running"] ELSE thread
  /\ main' = At(IF Room THEN "accept" ELSE "reap", NULL)
  /\ UNCHANGED <<ring, walk, client, backlog, posted, out, failures, proc>>

----------------------------------------------------------------------------
(* SendSequenceEachClient.                                                 *)

(* The clients whose nodes are part of the ring. *)
Linked ==
  {object[a] : a \in live \ (IF main.pc \in {"forward", "into"} THEN {main.node} ELSE {})}
    \ {Invalid}

(* pFirst(): with an empty ring the call returns and the message is lost. *)
Post(t) ==
  /\ Len(posted) < MaxMessages
  /\ first # NULL
  /\ posted' = Append(posted, [source |-> t, to |-> Linked \ {t}])
  /\ walk' = [walk EXCEPT ![t] =
                [msg |-> Len(posted) + 1, pfirst |-> first, cnode |-> first, sent |-> FALSE]]
  /\ UNCHANGED <<ring, main, thread, client, backlog, out, failures, proc>>

(* The worker has found a change of the clipboard. *)
WorkerSends ==
  /\ proc = "running"
  /\ walk[Worker] = Idle
  /\ Post(Worker)

(* c's ReadSequence has completed a message: one its client has sent, which *)
(* may have left since, or after an error the last one once more.           *)
Relays(c) ==
  /\ proc = "running"
  /\ thread[c] = "running"
  /\ walk[c] = Idle
  /\ Post(c)

(* Mutant: receiver returns when it has read nothing. *)
ThreadReturns(c) ==
  /\ thread' = [thread EXCEPT ![c] = "ended"]
  /\ UNCHANGED proc

(* receiver erases through an iterator that was never assigned. *)
Unfinished(c) ==
  /\ proc' = "terminated"
  /\ UNCHANGED thread

(* c's ReadSequence has completed no message: it has read a part of one, or *)
(* the end of the connection, or an error has left nothing to complete.     *)
ReadsNothing(c) ==
  /\ proc = "running"
  /\ thread[c] = "running"
  /\ walk[c] = Idle
  /\ Unfinished(c)
  /\ UNCHANGED <<ring, main, walk, client, backlog, posted, out, failures>>

(* Mutant: the connection a message came on is not left out. *)
Everybody(t, x) == TRUE

(* cnode->object->connection != connection *)
Other(t, x) == x # t

(* The walk has reached a node and sends. *)
WalkSend(t) ==
  /\ proc = "running"
  /\ walk[t] # Idle
  /\ ~walk[t].sent
  /\ walk[t].cnode \in live
  /\ LET x == object[walk[t].cnode] IN
       out' = IF Other(t, x) THEN Sent(x, walk[t].msg) ELSE out
  /\ walk' = [walk EXCEPT ![t].sent = TRUE]
  /\ UNCHANGED <<ring, main, thread, client, backlog, posted, failures, proc>>

(* Mutant: the walk is taken to be done when it is back at the last node. *)
EndsEarly(w, n) == n = last

(* Mutant: the walk looks for the end of a list. *)
EndsAtNull(w, n) == n = NULL

(* while (cnode != pfirst) *)
Ends(w, n) == n = w.pfirst

WalkNext(t) ==
  /\ proc = "running"
  /\ walk[t] # Idle
  /\ walk[t].sent
  /\ walk[t].cnode \in live
  /\ LET n == next[walk[t].cnode] IN
       walk' = [walk EXCEPT ![t] =
                 IF Ends(walk[t], n) THEN Idle ELSE [@ EXCEPT !.cnode = n, !.sent = FALSE]]
  /\ UNCHANGED <<ring, main, thread, client, backlog, posted, out, failures, proc>>

(* The walk has followed a next that emplace has not set yet. *)
WalkNull(t) ==
  /\ proc = "running"
  /\ walk[t] # Idle
  /\ walk[t].cnode = NULL
  /\ proc' = "nullptr"
  /\ UNCHANGED <<ring, main, thread, walk, client, backlog, posted, out, failures>>

(* The walk stands on a node that erase has deleted. *)
WalkDeleted(t) ==
  /\ proc = "running"
  /\ walk[t] # Idle
  /\ walk[t].cnode \in Addr \ live
  /\ proc' = "deleted"
  /\ UNCHANGED <<ring, main, thread, walk, client, backlog, posted, out, failures>>

Walk(t) == WalkSend(t) \/ WalkNext(t) \/ WalkNull(t) \/ WalkDeleted(t)

Next ==
  \/ \E c \in Clients :
       Connect(c) \/ Leave(c) \/ Accept(c) \/ Relays(c) \/ ReadsNothing(c)
  \/ Reap \/ AcceptFails \/ EmplaceForward \/ EmplaceInto \/ EraseUnlink \/ EraseDelete
  \/ SendWelcome \/ StartReceiver
  \/ WorkerSends
  \/ \E t \in Threads : Walk(t)

Spec == Init /\ [][Next]_vars

(* The walk is about to send to a client that may have stopped reading: the *)
(* call may never return.                                                   *)
Held(t) ==
  /\ walk[t] # Idle
  /\ ~walk[t].sent
  /\ walk[t].cnode \in live
  /\ LET x == object[walk[t].cnode] IN x \in Clients \ Readers /\ Other(t, x) /\ client[x] = "open"

(* A walk waits for nothing but send. *)
FairSpec == Spec /\ \A t \in Threads : WF_vars(Walk(t) /\ ~Held(t))

----------------------------------------------------------------------------
(* Properties.                                                             *)

TypeOK ==
  /\ cpull!TypeOK
  /\ main \in [pc : {"reap", "accept", "forward", "into", "unlink", "delete", "welcome", "start"},
               node : Addr \cup {NULL}]
  /\ thread \in [Clients -> {"none", "running", "ended"}]
  /\ walk \in [Threads -> {Idle} \cup [msg : Nat \ {0}, pfirst : Addr, cnode : Addr \cup {NULL},
                                       sent : BOOLEAN]]
  /\ client \in [Clients -> {"away", "open", "gone"}]
  /\ backlog \subseteq Clients
  /\ posted \in Seq([source : Threads, to : SUBSET Clients])
  /\ out \in [Clients -> Seq(Nat \cup {Welcome})]
  /\ failures \in 0..MaxFailures
  /\ proc \in {"running", "terminated", "nullptr", "deleted"}

(* Whenever server_start is outside emplace and erase the ring is whole.    *)
WholeBetweenCalls == main.pc \notin {"forward", "into", "unlink", "delete"} => cpull!Circular

(* When a call of SendSequenceEachClient is over, every client whose node   *)
(* was in the ring when it began has the message, or has left: no emplace   *)
(* and no erase under way can make the walk pass it by.                     *)
Over(m) == \A t \in Threads : walk[t].msg # m

AllReached ==
  proc = "running" =>
    \A m \in 1..Len(posted) : Over(m) =>
      \A c \in posted[m].to :
        \/ client[c] = "gone"
        \/ \E i \in 1..Len(out[c]) : out[c][i] = m

(* As long as every accept succeeds, only a walk that the worker began when *)
(* no client was linked yet can come to a null next, that of the first node *)
(* on its way into the ring: a receiver's walk never does.                  *)
NullBeforeFirstOnly ==
  failures = 0 =>
    \A t \in Threads :
      walk[t] # Idle /\ walk[t].cnode = NULL => t = Worker /\ posted[walk[t].msg].to = {}

(* As long as every accept succeeds no walk and no emplace touches a node   *)
(* that was deleted.                                                        *)
DeletedAfterFailureOnly == proc = "deleted" => failures > 0

(* A walk comes back to its first node, or to its end with the process,     *)
(* whatever is linked meanwhile.  A client that does not read holds up only *)
(* the walks that have come to it, not those of other threads.              *)
WalksEnd == \A t \in Threads : walk[t] # Idle ~> walk[t] = Idle \/ Held(t) \/ proc # "running"

(* The server implements the relay: no echo, at most once, each source's    *)
(* messages in order, one greeting, and maxconnlen clients in its whole     *)
(* life, because nothing ever frees a place.                                *)
Promise == INSTANCE Relay WITH
  members <- {object[a] : a \in live} \ {Invalid},
  posted <- [i \in 1..Len(posted) |-> posted[i].source],
  given <- out,
  running <- proc = "running"

ImplementsRelay == Promise!Spec
=============================================================================
