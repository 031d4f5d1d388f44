----------------------------- MODULE Discovery -----------------------------
(***************************************************************************)
(* How the processes find each other: main up to the start of its role,    *)
(* and reconnaissance.  A server broadcasts invitations until it reads an  *)
(* acceptance; a client waits for an invitation, accepts it with a single  *)
(* datagram and connects.  Datagrams are lost, duplicated and overtaken.   *)
(***************************************************************************)
EXTENDS Integers, Sequences, FiniteSets

CONSTANTS
  Servers,   (* processes started with the argument "server" or without    *)
  Clients,   (* processes started with the argument "client"               *)
  Nowhere,   (* the address a variable nobody has assigned holds           *)
  CallsFail, (* calls of the UDP socket may fail                           *)
  MaxInbox,  (* datagrams a UDP socket keeps; further ones are dropped     *)
  MaxLosses  (* bound: datagrams the network loses                         *)

ASSUME DiscoveryAssumption ==
  /\ Servers \cap Clients = {} /\ Nowhere \notin Servers \cup Clients
  /\ CallsFail \in BOOLEAN /\ MaxInbox \in Nat \ {0} /\ MaxLosses \in Nat

Processes == Servers \cup Clients

VARIABLES
  mode,      (* per process, where main is                                 *)
  inbox,     (* per process, the datagrams its UDP socket keeps            *)
  message,   (* per process, what the variable invite or accept holds      *)
  other,     (* per client, the address addr_other holds                   *)
  tcp_addr,  (* per client, the address it will connect to                 *)
  network,   (* datagrams on the way                                       *)
  losses,    (* datagrams lost so far                                      *)
  missed,    (* servers for which an acceptance was lost or dropped        *)
  failed     (* processes of which a call of the UDP socket has failed     *)

vars == <<mode, inbox, message, other, tcp_addr, network, losses, missed, failed>>

Datagram == [from : Processes, to : Processes, type : {"invite", "accept"}]

(* The stack memory of a Message may read as anything: zeros are a Control  *)
(* message of type BroadcastInvite; what is neither invite nor accept is    *)
(* to a server as an invite and to a client as an accept.  It shows only    *)
(* when a read fails.                                                       *)
Init ==
  /\ mode = [p \in Processes |-> "off"]
  /\ inbox = [p \in Processes |-> <<>>]
  /\ message \in [Processes -> IF CallsFail THEN {"invite", "accept"} ELSE {"invite"}]
  /\ other = [c \in Clients |-> Nowhere]
  /\ tcp_addr = [c \in Clients |-> c]   \* main fills in its own address
  /\ network = {}
  /\ losses = 0
  /\ missed = {}
  /\ failed = {}

----------------------------------------------------------------------------
(* main up to reconnaissance: start WinSock, make the sockets, bind.        *)
Start(p) ==
  /\ mode[p] = "off"
  /\ \E m \in {IF p \in Servers THEN "inviting" ELSE "waiting", "ended"} :
       mode' = [mode EXCEPT ![p] = m]
  /\ UNCHANGED <<inbox, message, other, tcp_addr, network, losses, missed, failed>>

----------------------------------------------------------------------------
(* reconnaissance of a server.                                             *)

(* Mutant: the thread that goes on inviting is started before server_start. *)
InvitingForEver(s) == mode[s] \in {"inviting", "serving"}

Inviting(s) == mode[s] = "inviting"

(* A broadcast reaches every process, its sender too. *)
Invitations(s) == {[from |-> s, to |-> p, type |-> "invite"] : p \in Processes}

(* SendSingle, whose result is ignored, and Sleep. *)
Invite(s) ==
  /\ Inviting(s)
  /\ mode' = [mode EXCEPT ![s] = "polling"]
  /\ \/ /\ network' = network \cup Invitations(s)
        /\ UNCHANGED failed
     \/ /\ CallsFail
        /\ failed' = failed \cup {s}
        /\ UNCHANGED network
  /\ UNCHANGED <<inbox, message, other, tcp_addr, losses, missed>>

(* Mutant: only the wait is repeated. *)
PollsAgain == "polling"

(* Every way through the loop but the last sends another invitation. *)
NextRound == "inviting"

(* select times out. *)
PollTimeout(s) ==
  /\ mode[s] = "polling"
  /\ inbox[s] = <<>>
  /\ mode' = [mode EXCEPT ![s] = NextRound]
  /\ UNCHANGED <<inbox, message, other, tcp_addr, network, losses, missed, failed>>

(* Mutant: the type is not looked at. *)
IsControl(type) == type \in {"invite", "accept"}

IsAccept(type) == type = "accept"

(* Mutant: the socket is emptied after every read. *)
Emptied(queue) == <<>>

Rest(queue) == Tail(queue)

(* ReadSingle takes one datagram into accept, or fails and leaves accept as *)
(* it was: its result is ignored, and so accept is looked at anyway.        *)
ReadAccept(s) ==
  /\ mode[s] = "polling"
  /\ inbox[s] # <<>>
  /\ \/ /\ message' = [message EXCEPT ![s] = Head(inbox[s]).type]
        /\ inbox' = [inbox EXCEPT ![s] = Rest(@)]
        /\ UNCHANGED failed
     \/ /\ CallsFail
        /\ inbox' \in {inbox, [inbox EXCEPT ![s] = Tail(@)]}
        /\ failed' = failed \cup {s}
        /\ UNCHANGED message
  /\ mode' = [mode EXCEPT ![s] = IF IsAccept(message'[s]) THEN "starting" ELSE NextRound]
  /\ UNCHANGED <<other, tcp_addr, network, losses, missed>>

(* main binds the TCP socket and server_start listens; it never returns. *)
Listen(s) ==
  /\ mode[s] = "starting"
  /\ \E m \in {"serving", "ended"} : mode' = [mode EXCEPT ![s] = m]
  /\ UNCHANGED <<inbox, message, other, tcp_addr, network, losses, missed, failed>>

----------------------------------------------------------------------------
(* reconnaissance of a client, and client_start.                           *)

(* Mutant: the client goes on waiting after its acceptance. *)
StillWaiting == "waiting"

AfterAccept == "joining"

(* Mutant: the acceptance is broadcast, too. *)
AcceptanceToAll(c) == {[from |-> c, to |-> p, type |-> "accept"] : p \in Processes}

Acceptance(c) == {[from |-> c, to |-> other'[c], type |-> "accept"]}

(* An invitation from elsewhere is accepted; only when SendSingle succeeds  *)
(* does the wait end.  Nothing can be sent to an address nobody assigned.   *)
(* f are the processes that have had a failure before.                      *)
Accept(c, f) ==
  /\ tcp_addr' = [tcp_addr EXCEPT ![c] = other'[c]]
  /\ \/ /\ other'[c] # Nowhere
        /\ network' = network \cup Acceptance(c)
        /\ mode' = [mode EXCEPT ![c] = AfterAccept]
        /\ failed' = f
     \/ /\ CallsFail
        /\ failed' = f \cup {c}
        /\ UNCHANGED <<network, mode>>

(* What the loop does with the variable invite. *)
Examine(c, f) ==
  IF message'[c] = "invite" /\ other'[c] # c
  THEN Accept(c, f)
  ELSE failed' = f /\ UNCHANGED <<tcp_addr, network, mode>>

ReadInvite(c) ==
  /\ mode[c] = "waiting"
  /\ inbox[c] # <<>>
  /\ message' = [message EXCEPT ![c] = Head(inbox[c]).type]
  /\ other' = [other EXCEPT ![c] = Head(inbox[c]).from]
  /\ inbox' = [inbox EXCEPT ![c] = Tail(@)]
  /\ Examine(c, failed)
  /\ UNCHANGED <<losses, missed>>

(* ReadSingle fails and leaves invite and addr_other as they were; the      *)
(* result is ignored.                                                       *)
ReadInviteFails(c) ==
  /\ CallsFail
  /\ mode[c] = "waiting"
  /\ inbox[c] # <<>>
  /\ inbox' \in {inbox, [inbox EXCEPT ![c] = Tail(@)]}
  /\ UNCHANGED <<message, other, losses, missed>>
  /\ Examine(c, failed \cup {c})

(* connect is tried once: a server that does not listen yet refuses it, and *)
(* the process ends.                                                        *)
Connect(c) ==
  /\ mode[c] = "joining"
  /\ mode' = [mode EXCEPT ![c] = IF mode[tcp_addr[c]] = "serving" THEN "connected" ELSE "ended"]
  /\ UNCHANGED <<inbox, message, other, tcp_addr, network, losses, missed, failed>>

----------------------------------------------------------------------------
(* The network.                                                            *)

(* An acceptance that its server will not read. *)
Missed(d) == IF d.type = "accept" THEN missed \cup {d.to} ELSE missed

(* A datagram arrives, and may arrive again.  It is gone when the socket is *)
(* full, not bound yet or, after reconnaissance, not read any more.         *)
Deliver(d) ==
  /\ network' \in {network, network \ {d}}
  /\ IF mode[d.to] \in {"inviting", "polling", "waiting"} /\ Len(inbox[d.to]) < MaxInbox
     THEN inbox' = [inbox EXCEPT ![d.to] = Append(@, d)] /\ UNCHANGED missed
     ELSE missed' = Missed(d) /\ UNCHANGED inbox
  /\ UNCHANGED <<mode, message, other, tcp_addr, losses, failed>>

Lose(d) ==
  /\ losses < MaxLosses
  /\ losses' = losses + 1
  /\ network' = network \ {d}
  /\ missed' = Missed(d)
  /\ UNCHANGED <<mode, inbox, message, other, tcp_addr, failed>>

ServerStep(s) == Start(s) \/ Invite(s) \/ PollTimeout(s) \/ ReadAccept(s) \/ Listen(s)

ClientStep(c) == Start(c) \/ ReadInvite(c) \/ ReadInviteFails(c) \/ Connect(c)

Next ==
  \/ \E s \in Servers : ServerStep(s)
  \/ \E c \in Clients : ClientStep(c)
  \/ \E d \in network : Deliver(d) \/ Lose(d)

Spec == Init /\ [][Next]_vars

(* The loops run, and the network delivers what it does not lose. *)
FairSpec ==
  /\ Spec
  /\ \A s \in Servers : WF_vars(ServerStep(s))
  /\ \A c \in Clients : WF_vars(ClientStep(c))
  /\ \A d \in Datagram : WF_vars(d \in network /\ Deliver(d))

----------------------------------------------------------------------------
(* Properties.                                                             *)

(* In particular only servers' addresses come to a client's variables. *)
TypeOK ==
  /\ mode \in [Processes -> {"off", "inviting", "polling", "starting", "serving", "waiting",
                             "joining", "connected", "ended"}]
  /\ \A p \in Processes : inbox[p] \in Seq({d \in Datagram : d.to = p}) /\ Len(inbox[p]) <= MaxInbox
  /\ message \in [Processes -> {"invite", "accept"}]
  /\ other \in [Clients -> Servers \cup {Nowhere}]
  /\ tcp_addr \in [Clients -> Processes \cup {Nowhere}]
  /\ \A c \in Clients : tcp_addr[c] \in Servers \cup {c, Nowhere}
  /\ network \subseteq Datagram
  /\ losses \in 0..MaxLosses
  /\ missed \subseteq Servers
  /\ failed \subseteq Processes

(* A process becomes a server only because a client chose it: when its own  *)
(* reads have not failed there is a client that will connect to it, has     *)
(* connected, or has tried to.                                              *)
Chosen(s) == \E c \in Clients : tcp_addr[c] = s /\ mode[c] \in {"joining", "connected", "ended"}

ServersAreChosen ==
  \A s \in Servers : mode[s] \in {"starting", "serving"} /\ s \notin failed => Chosen(s)

(* A client answers one invitation in its life: whatever acceptance of its  *)
(* is on the way or waits to be read went to the server it connects to.     *)
Pending == network \cup UNION {{inbox[p][i] : i \in 1..Len(inbox[p])} : p \in Processes}

OneAnswer ==
  \A d \in Pending : d.type = "accept" =>
    d.to = tcp_addr[d.from] /\ mode[d.from] \in {"joining", "connected", "ended"}

(* Once every server serves and no invitation is left, a client that waits  *)
(* is left behind: nobody ever invites it, and so it waits for ever, if its *)
(* own reads do not fail.                                                   *)
LeftBehind(c) ==
  /\ mode[c] = "waiting" /\ c \notin failed
  /\ \A s \in Servers : mode[s] \in {"starting", "serving", "ended"}
  /\ \A d \in Pending : d.type # "invite"

NeverFetched == [][\A c \in Clients \ failed' : LeftBehind(c) => LeftBehind(c)']_vars

(* An acceptance in the socket of an inviting server is read in the end,    *)
(* however many invitations, its own among them, have come in before it.    *)
Answered(s) == \E i \in 1..Len(inbox[s]) : inbox[s][i].type = "accept"

AnswersAreHeard ==
  \A s \in Servers :
    mode[s] \in {"inviting", "polling"} /\ Answered(s)
      ~> mode[s] \in {"starting", "serving", "ended"} \/ s \in failed

(* A client and a server that have started meet: the client answers some    *)
(* server and a server takes its role, unless an acceptance is missed or a  *)
(* call fails.  A lost invitation is repeated; an acceptance never is.      *)
Meet ==
  \A s \in Servers, c \in Clients :
    mode[s] \in {"inviting", "polling"} /\ mode[c] = "waiting"
      ~> \/ mode[c] # "waiting" /\ \E t \in Servers : mode[t] \in {"starting", "serving", "ended"}
         \/ missed # {} \/ failed # {}
=============================================================================
