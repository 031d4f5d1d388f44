--------------------------- MODULE DiscoveryProofs ---------------------------
(***************************************************************************)
(* Theorems about discovery, for any number of servers and clients, any    *)
(* size of the sockets' queues, and any losses and failures.               *)
(***************************************************************************)
EXTENDS Discovery, TLAPS

\* What a client that has answered an invitation may be doing.
Gone == {"joining", "connected", "ended"}

\* Only servers invite, and an acceptance is the one answer of its client.
Good(d) ==
  /\ d.type = "invite" => d.from \in Servers
  /\ d.type = "accept" => /\ d.from \in Clients /\ d.to \in Servers
                          /\ d.to = tcp_addr[d.from] /\ mode[d.from] \in Gone

Elements(q) == {q[i] : i \in 1..Len(q)}

DatagramsTo(p) == {d \in Datagram : d.to = p}

InboxOK ==
  /\ inbox \in [Processes -> Seq(Datagram)]
  /\ \A p \in Processes : /\ inbox[p] \in Seq(DatagramsTo(p)) /\ Len(inbox[p]) <= MaxInbox
                          /\ \A d \in Elements(inbox[p]) : Good(d)

NetworkOK ==
  /\ network \subseteq Datagram
  /\ \A d \in network : Good(d)

LocalOK ==
  /\ mode \in [Processes -> {"off", "inviting", "polling", "starting", "serving", "waiting",
                             "joining", "connected", "ended"}]
  /\ message \in [Processes -> {"invite", "accept"}]
  /\ other \in [Clients -> Servers \cup {Nowhere}]
  /\ tcp_addr \in [Clients -> Processes \cup {Nowhere}]
  /\ \A c \in Clients : tcp_addr[c] \in Servers \cup {c, Nowhere}

HistoryOK == losses \in 0..MaxLosses /\ missed \subseteq Servers /\ failed \subseteq Processes

IInv == LocalOK /\ InboxOK /\ NetworkOK /\ HistoryOK /\ ServersAreChosen

\* A client that has answered stays with its answer.
Keeps == \A c \in Clients : mode[c] \in Gone => mode'[c] \in Gone /\ tcp_addr'[c] = tcp_addr[c]

-----------------------------------------------------------------------------
(***************************************************************************)
(* What every step preserves                                               *)
(***************************************************************************)

(* While clients stay with their answers, what is true of a datagram or of  *)
(* a server's choice remains true.                                          *)
LEMMA Stability ==
  ASSUME Keeps
  PROVE  /\ \A d : Good(d) => Good(d)'
         /\ \A s \in Servers : Chosen(s) => Chosen(s)'
<1>1. ASSUME NEW d, Good(d) PROVE Good(d)'
  BY <1>1 DEF Keeps, Good
<1>2. ASSUME NEW s \in Servers, Chosen(s) PROVE Chosen(s)'
  <2>1. PICK c \in Clients : tcp_addr[c] = s /\ mode[c] \in Gone
    BY <1>2 DEF Chosen, Gone
  <2>2. tcp_addr'[c] = s /\ mode'[c] \in Gone
    BY <2>1 DEF Keeps
  <2> QED BY <2>2 DEF Chosen, Gone
<1> QED BY <1>1, <1>2

(* Head and tail of a queue, and what it gets at its end.                   *)
LEMMA Queue ==
  ASSUME NEW S, NEW q \in Seq(S)
  PROVE  /\ q # <<>> => /\ Head(q) \in S /\ Head(q) \in Elements(q)
                        /\ Tail(q) \in Seq(S) /\ Len(Tail(q)) = Len(q) - 1
                        /\ Elements(Tail(q)) \subseteq Elements(q)
         /\ \A d \in S : /\ Append(q, d) \in Seq(S) /\ Len(Append(q, d)) = Len(q) + 1
                         /\ Elements(Append(q, d)) \subseteq Elements(q) \cup {d}
<1>1. ASSUME q # <<>>
      PROVE  /\ Head(q) \in S /\ Head(q) \in Elements(q)
             /\ Tail(q) \in Seq(S) /\ Len(Tail(q)) = Len(q) - 1
             /\ Elements(Tail(q)) \subseteq Elements(q)
  <2>1. /\ 1 \in 1..Len(q) /\ Head(q) = q[1] /\ Head(q) \in S
        /\ Tail(q) \in Seq(S) /\ Len(Tail(q)) = Len(q) - 1
        /\ \A i \in 1..Len(Tail(q)) : Tail(q)[i] = q[i + 1] /\ i + 1 \in 1..Len(q)
    BY <1>1
  <2> QED BY <2>1 DEF Elements
<1>2. ASSUME NEW d \in S
      PROVE  /\ Append(q, d) \in Seq(S) /\ Len(Append(q, d)) = Len(q) + 1
             /\ Elements(Append(q, d)) \subseteq Elements(q) \cup {d}
  <2>1. /\ Append(q, d) \in Seq(S) /\ Len(Append(q, d)) = Len(q) + 1
        /\ \A i \in 1..Len(q) + 1 : Append(q, d)[i] = d \/ (i \in 1..Len(q) /\ Append(q, d)[i] = q[i])
    OBVIOUS
  <2> QED BY <2>1 DEF Elements
<1> QED BY <1>1, <1>2

(* Reading a datagram, or failing to, leaves a sound queue.                 *)
LEMMA Reading ==
  ASSUME InboxOK, Keeps, NEW p \in Processes, inbox[p] # <<>>,
         inbox' \in {inbox, [inbox EXCEPT ![p] = Tail(@)]}
  PROVE  InboxOK'
<1>1. CASE inbox' = inbox
  BY <1>1, Stability DEF InboxOK
<1>2. CASE inbox' = [inbox EXCEPT ![p] = Tail(@)]
  <2>1. /\ inbox[p] \in Seq(DatagramsTo(p)) /\ inbox[p] \in Seq(Datagram) /\ Len(inbox[p]) <= MaxInbox
        /\ \A d \in Elements(inbox[p]) : Good(d)
    BY DEF InboxOK
  <2>2. /\ Tail(inbox[p]) \in Seq(DatagramsTo(p)) /\ Tail(inbox[p]) \in Seq(Datagram)
        /\ Len(Tail(inbox[p])) = Len(inbox[p]) - 1
        /\ Elements(Tail(inbox[p])) \subseteq Elements(inbox[p])
    BY <2>1, Queue
  <2>3. inbox'[p] = Tail(inbox[p]) /\ \A r \in Processes \ {p} : inbox'[r] = inbox[r]
    BY <1>2 DEF InboxOK
  <2>4. inbox' \in [Processes -> Seq(Datagram)]
    BY <1>2, <2>2 DEF InboxOK
  <2>5. Len(Tail(inbox[p])) <= MaxInbox
    BY <2>1, <2>2, DiscoveryAssumption
  <2>6. ASSUME NEW r \in Processes
        PROVE  /\ inbox'[r] \in Seq(DatagramsTo(r)) /\ Len(inbox'[r]) <= MaxInbox
               /\ \A d \in Elements(inbox'[r]) : Good(d)'
    <3>1. CASE r = p
      <4>1. \A d \in Elements(inbox'[p]) : Good(d)'
        BY <2>1, <2>2, <2>3, Stability
      <4> QED BY <2>2, <2>3, <2>5, <3>1, <4>1
    <3>2. CASE r # p
      <4>1. inbox'[r] = inbox[r]
        BY <2>3, <3>2
      <4>2. \A d \in Elements(inbox[r]) : Good(d)'
        BY Stability DEF InboxOK
      <4> QED BY <4>1, <4>2 DEF InboxOK
    <3> QED BY <3>1, <3>2
  <2> QED BY <2>4, <2>6 DEF InboxOK
<1> QED BY <1>1, <1>2

(* What lies in a queue is addressed to its process.                        *)
LEMMA HeadType ==
  ASSUME InboxOK, NEW p \in Processes, inbox[p] # <<>>
  PROVE  Head(inbox[p]) \in Datagram /\ Head(inbox[p]).to = p /\ Good(Head(inbox[p]))
<1>1. inbox[p] \in Seq(DatagramsTo(p))
  BY DEF InboxOK
<1>2. Head(inbox[p]) \in Elements(inbox[p]) /\ Head(inbox[p]) \in DatagramsTo(p)
  BY <1>1, Queue
<1> QED BY <1>2 DEF InboxOK, DatagramsTo

(* A step that sends nothing and chooses nobody new.                        *)
LEMMA Elsewhere ==
  ASSUME IInv, Keeps
  PROVE  /\ inbox' = inbox => InboxOK'
         /\ network' \subseteq network => NetworkOK'
<1>1. ASSUME inbox' = inbox PROVE InboxOK'
  BY <1>1, Stability DEF IInv, InboxOK
<1>2. ASSUME network' \subseteq network PROVE NetworkOK'
  BY <1>2, Stability DEF IInv, NetworkOK
<1> QED BY <1>1, <1>2

(* A step after which no server serves that did not before.                 *)
LEMMA StillChosen ==
  ASSUME IInv, Keeps, failed \subseteq failed',
         \A s \in Servers : mode'[s] \in {"starting", "serving"} => mode[s] \in {"starting", "serving"}
  PROVE  ServersAreChosen'
BY Stability DEF IInv, ServersAreChosen

-----------------------------------------------------------------------------
(***************************************************************************)
(* The steps of a server                                                   *)
(***************************************************************************)
(* A server's step is none of a client.                                     *)
LEMMA ServerKeeps ==
  ASSUME IInv, NEW s \in Servers, NEW m, mode' = [mode EXCEPT ![s] = m], UNCHANGED tcp_addr
  PROVE  Keeps
<1>1. \A c \in Clients : c # s /\ c \in Processes
  BY DiscoveryAssumption DEF Processes
<1> QED BY <1>1 DEF IInv, LocalOK, Keeps

LEMMA StartInv == ASSUME IInv, NEW p \in Processes, Start(p) PROVE IInv'
<1>1. PICK m \in {IF p \in Servers THEN "inviting" ELSE "waiting", "ended"} :
        mode' = [mode EXCEPT ![p] = m]
  BY DEF Start
<1>2. mode[p] = "off" /\ mode'[p] = m /\ \A q \in Processes \ {p} : mode'[q] = mode[q]
  BY <1>1 DEF Start, IInv, LocalOK
<1>3. UNCHANGED <<inbox, message, other, tcp_addr, network, losses, missed, failed>>
  BY DEF Start
<1>4. Keeps
  BY <1>2, <1>3 DEF Keeps, Gone, Processes
<1>5. InboxOK' /\ NetworkOK'
  BY <1>3, <1>4, Elsewhere
<1>6. LocalOK'
  BY <1>1, <1>3 DEF IInv, LocalOK
<1>7. ServersAreChosen'
  <2>1. \A s \in Servers : mode'[s] \in {"starting", "serving"} => mode[s] \in {"starting", "serving"}
    BY <1>1, <1>2 DEF Processes
  <2> QED BY <1>3, <1>4, <2>1, StillChosen
<1> QED BY <1>3, <1>5, <1>6, <1>7 DEF IInv, HistoryOK

LEMMA InviteInv == ASSUME IInv, NEW s \in Servers, Invite(s) PROVE IInv'
<1>1. mode' = [mode EXCEPT ![s] = "polling"] /\ UNCHANGED <<inbox, message, other, tcp_addr, losses, missed>>
  BY DEF Invite
<1>2. Keeps
  BY <1>1, ServerKeeps
<1>3. s \in Processes
  BY DEF Processes
<1>4. LocalOK'
  BY <1>1, <1>3 DEF IInv, LocalOK
<1>5. failed \subseteq failed' /\ failed' \subseteq Processes
  BY <1>3 DEF Invite, IInv, HistoryOK
<1>6. InboxOK'
  BY <1>1, <1>2, Elsewhere
<1>7. NetworkOK'
  <2>1. CASE network' = network
    BY <1>2, <2>1, Elsewhere
  <2>2. CASE network' = network \cup Invitations(s)
    <3>1. \A d \in Invitations(s) : d \in Datagram /\ Good(d)'
      BY <1>3 DEF Invitations, Datagram, Good
    <3>2. \A d \in network : d \in Datagram /\ Good(d)'
      BY <1>2, Stability DEF IInv, NetworkOK
    <3> QED BY <2>2, <3>1, <3>2 DEF NetworkOK
  <2> QED BY <2>1, <2>2 DEF Invite
<1>8. ServersAreChosen'
  <2>1. \A r \in Servers : mode'[r] \in {"starting", "serving"} => mode[r] \in {"starting", "serving"}
    BY <1>1, <1>3 DEF IInv, LocalOK, Processes
  <2> QED BY <1>2, <1>5, <2>1, StillChosen
<1> QED BY <1>1, <1>4, <1>5, <1>6, <1>7, <1>8 DEF IInv, HistoryOK

LEMMA PollTimeoutInv == ASSUME IInv, NEW s \in Servers, PollTimeout(s) PROVE IInv'
<1>1. mode' = [mode EXCEPT ![s] = "inviting"]
      /\ UNCHANGED <<inbox, message, other, tcp_addr, network, losses, missed, failed>>
  BY DEF PollTimeout, NextRound
<1>2. Keeps
  BY <1>1, ServerKeeps
<1>3. s \in Processes
  BY DEF Processes
<1>4. LocalOK'
  BY <1>1, <1>3 DEF IInv, LocalOK
<1>5. InboxOK' /\ NetworkOK'
  BY <1>1, <1>2, Elsewhere
<1>6. ServersAreChosen'
  <2>1. \A r \in Servers : mode'[r] \in {"starting", "serving"} => mode[r] \in {"starting", "serving"}
    BY <1>1, <1>3 DEF IInv, LocalOK, Processes
  <2> QED BY <1>1, <1>2, <2>1, StillChosen
<1> QED BY <1>1, <1>4, <1>5, <1>6 DEF IInv, HistoryOK

LEMMA ReadAcceptInv == ASSUME IInv, NEW s \in Servers, ReadAccept(s) PROVE IInv'
<1> DEFINE m == IF IsAccept(message'[s]) THEN "starting" ELSE NextRound
<1>1. mode' = [mode EXCEPT ![s] = m] /\ UNCHANGED <<other, tcp_addr, network, losses, missed>>
      /\ inbox[s] # <<>>
  BY DEF ReadAccept
<1>2. m \in {"starting", "inviting"}
  BY DEF NextRound
<1>3. Keeps
  BY <1>1, ServerKeeps
<1>4. s \in Processes
  BY DEF Processes
<1>5. inbox' \in {inbox, [inbox EXCEPT ![s] = Tail(@)]}
  BY DEF ReadAccept, Rest
<1>6. InboxOK' /\ NetworkOK'
  BY <1>1, <1>3, <1>4, <1>5, Reading, Elsewhere DEF IInv
<1>7. failed \subseteq failed' /\ failed' \subseteq Processes
  BY <1>4 DEF ReadAccept, IInv, HistoryOK
<1>8. Head(inbox[s]) \in Datagram /\ Head(inbox[s]).to = s /\ Good(Head(inbox[s]))
  BY <1>1, <1>4, HeadType DEF IInv
<1>9. LocalOK'
  <2>1. message' \in [Processes -> {"invite", "accept"}]
    <3>1. CASE message' = message
      BY <3>1 DEF IInv, LocalOK
    <3>2. CASE message' = [message EXCEPT ![s] = Head(inbox[s]).type]
      <4>1. Head(inbox[s]).type \in {"invite", "accept"}
        BY <1>8 DEF Datagram
      <4> QED BY <3>2, <4>1 DEF IInv, LocalOK
    <3> QED BY <3>1, <3>2 DEF ReadAccept
  <2> HIDE DEF m
  <2>2. mode' \in [Processes -> {"off", "inviting", "polling", "starting", "serving", "waiting",
                                "joining", "connected", "ended"}]
    BY <1>1, <1>2 DEF IInv, LocalOK
  <2> QED BY <1>1, <2>1, <2>2 DEF IInv, LocalOK
<1>10. ServersAreChosen'
  <2>1. mode'[s] = m /\ \A r \in Servers \ {s} : mode'[r] = mode[r]
    BY <1>1, <1>4 DEF IInv, LocalOK, Processes
  <2>2. ASSUME m = "starting", s \notin failed' PROVE Chosen(s)'
    <3>1. message' = [message EXCEPT ![s] = Head(inbox[s]).type]
      BY <2>2 DEF ReadAccept
    <3>2. message'[s] = "accept"
      BY <2>2 DEF IsAccept, NextRound
    <3>3. Head(inbox[s]).type = "accept"
      BY <1>4, <3>1, <3>2 DEF IInv, LocalOK
    <3>4. PICK c \in Clients : tcp_addr[c] = s /\ mode[c] \in Gone
      BY <1>8, <3>3 DEF Good
    <3>5. Chosen(s)
      BY <3>4 DEF Chosen, Gone
    <3> QED BY <1>3, <3>5, Stability
  <2>3. ASSUME NEW r \in Servers, mode'[r] \in {"starting", "serving"}, r \notin failed'
        PROVE  Chosen(r)'
    <3> HIDE DEF m
    <3>1. CASE r = s
      BY <1>2, <2>1, <2>2, <2>3, <3>1
    <3>2. CASE r # s
      <4>1. mode[r] \in {"starting", "serving"} /\ r \notin failed
        BY <1>7, <2>1, <2>3, <3>2
      <4> QED BY <1>3, <4>1, Stability DEF IInv, ServersAreChosen
    <3> QED BY <3>1, <3>2
  <2> QED BY <2>3 DEF ServersAreChosen
<1> QED BY <1>1, <1>6, <1>7, <1>9, <1>10 DEF IInv, HistoryOK

LEMMA ListenInv == ASSUME IInv, NEW s \in Servers, Listen(s) PROVE IInv'
<1>1. PICK m \in {"serving", "ended"} : mode' = [mode EXCEPT ![s] = m]
  BY DEF Listen
<1>2. mode[s] = "starting" /\ UNCHANGED <<inbox, message, other, tcp_addr, network, losses, missed, failed>>
  BY DEF Listen
<1>3. Keeps
  BY <1>1, <1>2, ServerKeeps
<1>4. s \in Processes
  BY DEF Processes
<1>5. LocalOK'
  BY <1>1, <1>2, <1>4 DEF IInv, LocalOK
<1>6. InboxOK' /\ NetworkOK'
  BY <1>2, <1>3, Elsewhere
<1>7. ServersAreChosen'
  <2>1. \A r \in Servers : mode'[r] \in {"starting", "serving"} => mode[r] \in {"starting", "serving"}
    BY <1>1, <1>2, <1>4 DEF IInv, LocalOK, Processes
  <2> QED BY <1>2, <1>3, <2>1, StillChosen
<1> QED BY <1>2, <1>5, <1>6, <1>7 DEF IInv, HistoryOK

-----------------------------------------------------------------------------
(***************************************************************************)
(* The steps of a client                                                   *)
(***************************************************************************)
(* A client that waits answers with the address it has, or not at all.      *)
LEMMA ExamineInv ==
  ASSUME IInv, NEW c \in Clients, NEW f \in SUBSET Processes, failed \subseteq f,
         mode[c] = "waiting", inbox[c] # <<>>,
         inbox' \in {inbox, [inbox EXCEPT ![c] = Tail(@)]},
         message' \in [Processes -> {"invite", "accept"}],
         other' \in [Clients -> Servers \cup {Nowhere}],
         Examine(c, f), UNCHANGED <<losses, missed>>
  PROVE  IInv'
<1>1. c \in Processes /\ c \notin Servers
  BY DiscoveryAssumption DEF Processes
<1>2. failed \subseteq failed' /\ failed' \subseteq Processes
  BY <1>1 DEF Examine, Accept
<1>3. mode' \in {mode, [mode EXCEPT ![c] = "joining"]}
  BY DEF Examine, Accept, AfterAccept
<1>4. tcp_addr' \in {tcp_addr, [tcp_addr EXCEPT ![c] = other'[c]]}
  BY DEF Examine, Accept
<1>5. Keeps
  <2>1. ASSUME NEW b \in Clients, mode[b] \in Gone PROVE mode'[b] = mode[b] /\ tcp_addr'[b] = tcp_addr[b]
    <3>1. b # c
      BY <2>1 DEF Gone
    <3> QED BY <1>3, <1>4, <3>1 DEF IInv, LocalOK, Processes
  <2> QED BY <2>1 DEF Keeps
<1>6. LocalOK'
  <2>1. other'[c] \in Servers \cup {Nowhere}
    OBVIOUS
  <2>2. tcp_addr' \in [Clients -> Processes \cup {Nowhere}]
    BY <1>4, <2>1 DEF IInv, LocalOK, Processes
  <2>3. \A b \in Clients : tcp_addr'[b] \in Servers \cup {b, Nowhere}
    BY <1>4, <2>1 DEF IInv, LocalOK
  <2>4. mode' \in [Processes -> {"off", "inviting", "polling", "starting", "serving", "waiting",
                                 "joining", "connected", "ended"}]
    BY <1>3 DEF IInv, LocalOK
  <2> QED BY <2>2, <2>3, <2>4 DEF LocalOK
<1>7. InboxOK'
  BY <1>1, <1>5, Reading DEF IInv
<1>8. NetworkOK'
  <2>1. CASE network' = network
    BY <1>5, <2>1, Elsewhere
  <2>2. CASE network' # network
    <3>1. /\ tcp_addr' = [tcp_addr EXCEPT ![c] = other'[c]] /\ other'[c] # Nowhere
          /\ network' = network \cup Acceptance(c) /\ mode' = [mode EXCEPT ![c] = "joining"]
      BY <2>2 DEF Examine, Accept, AfterAccept
    <3>2. tcp_addr'[c] = other'[c] /\ other'[c] \in Servers /\ mode'[c] = "joining"
      BY <1>1, <3>1 DEF IInv, LocalOK
    <3>3. \A d \in Acceptance(c) : d \in Datagram /\ Good(d)'
      BY <1>1, <3>2 DEF Acceptance, Datagram, Good, Gone, Processes
    <3>4. \A d \in network : d \in Datagram /\ Good(d)'
      BY <1>5, Stability DEF IInv, NetworkOK
    <3> QED BY <3>1, <3>3, <3>4 DEF NetworkOK
  <2> QED BY <2>1, <2>2
<1>9. ServersAreChosen'
  <2>1. \A s \in Servers : mode'[s] = mode[s]
    BY <1>1, <1>3 DEF IInv, LocalOK, Processes
  <2> QED BY <1>2, <1>5, <2>1, StillChosen
<1> QED BY <1>2, <1>6, <1>7, <1>8, <1>9 DEF IInv, HistoryOK

LEMMA ReadInviteInv == ASSUME IInv, NEW c \in Clients, ReadInvite(c) PROVE IInv'
<1>1. c \in Processes /\ c \notin Servers
  BY DiscoveryAssumption DEF Processes
<1> DEFINE d == Head(inbox[c])
<1>2. /\ mode[c] = "waiting" /\ inbox[c] # <<>>
      /\ message' = [message EXCEPT ![c] = d.type]
      /\ other' = [other EXCEPT ![c] = d.from]
      /\ inbox' = [inbox EXCEPT ![c] = Tail(@)]
      /\ Examine(c, failed) /\ UNCHANGED <<losses, missed>>
  BY DEF ReadInvite
<1>3. d \in Datagram /\ d.to = c /\ Good(d)
  BY <1>1, <1>2, HeadType DEF IInv
<1>4. d.type \in {"invite", "accept"} /\ d.from \in Servers
  BY <1>1, <1>3 DEF Datagram, Good
<1> HIDE DEF d
<1>5. message' \in [Processes -> {"invite", "accept"}] /\ other' \in [Clients -> Servers \cup {Nowhere}]
  BY <1>2, <1>4 DEF IInv, LocalOK
<1>6. failed \in SUBSET Processes
  BY DEF IInv, HistoryOK
<1> QED BY <1>2, <1>5, <1>6, ExamineInv

LEMMA ReadInviteFailsInv == ASSUME IInv, NEW c \in Clients, ReadInviteFails(c) PROVE IInv'
<1>1. /\ mode[c] = "waiting" /\ inbox[c] # <<>>
      /\ inbox' \in {inbox, [inbox EXCEPT ![c] = Tail(@)]}
      /\ UNCHANGED <<message, other, losses, missed>>
      /\ Examine(c, failed \cup {c})
  BY DEF ReadInviteFails
<1>2. failed \cup {c} \in SUBSET Processes
  BY DEF IInv, HistoryOK, Processes
<1>3. message' \in [Processes -> {"invite", "accept"}] /\ other' \in [Clients -> Servers \cup {Nowhere}]
  BY <1>1 DEF IInv, LocalOK
<1>4. failed \subseteq failed \cup {c}
  OBVIOUS
<1> QED BY <1>1, <1>2, <1>3, <1>4, ExamineInv

LEMMA ConnectInv == ASSUME IInv, NEW c \in Clients, Connect(c) PROVE IInv'
<1> DEFINE m == IF mode[tcp_addr[c]] = "serving" THEN "connected" ELSE "ended"
<1>1. mode[c] = "joining" /\ mode' = [mode EXCEPT ![c] = m]
      /\ UNCHANGED <<inbox, message, other, tcp_addr, network, losses, missed, failed>>
  BY DEF Connect
<1>2. m \in {"connected", "ended"}
  OBVIOUS
<1> HIDE DEF m
<1>3. c \in Processes /\ c \notin Servers
  BY DiscoveryAssumption DEF Processes
<1>4. mode'[c] = m /\ \A q \in Processes \ {c} : mode'[q] = mode[q]
  BY <1>1, <1>3 DEF IInv, LocalOK
<1>5. Keeps
  BY <1>1, <1>2, <1>4 DEF Keeps, Gone, Processes
<1>6. InboxOK' /\ NetworkOK'
  BY <1>1, <1>5, Elsewhere
<1>7. LocalOK'
  BY <1>1, <1>2 DEF IInv, LocalOK
<1>8. ServersAreChosen'
  <2>1. \A s \in Servers : mode'[s] = mode[s]
    BY <1>3, <1>4 DEF Processes
  <2> QED BY <1>1, <1>5, <2>1, StillChosen
<1> QED BY <1>1, <1>6, <1>7, <1>8 DEF IInv, HistoryOK

-----------------------------------------------------------------------------
(***************************************************************************)
(* The network                                                             *)
(***************************************************************************)
LEMMA MissedType == ASSUME IInv, NEW d \in network PROVE Missed(d) \subseteq Servers
BY DEF IInv, NetworkOK, HistoryOK, Missed, Good

LEMMA DeliverInv == ASSUME IInv, NEW d \in network, Deliver(d) PROVE IInv'
<1>1. UNCHANGED <<mode, message, other, tcp_addr, losses, failed>> /\ network' \subseteq network
  BY DEF Deliver
<1>2. Keeps
  BY <1>1 DEF Keeps
<1>3. LocalOK' /\ NetworkOK' /\ ServersAreChosen'
  BY <1>1, <1>2, Elsewhere, StillChosen DEF IInv, LocalOK
<1>4. missed' \subseteq Servers
  BY MissedType DEF Deliver, IInv, HistoryOK
<1>5. InboxOK'
  <2>1. CASE inbox' = inbox
    BY <1>2, <2>1, Elsewhere
  <2>2. CASE inbox' # inbox
    <3> DEFINE q == inbox[d.to]
    <3>1. inbox' = [inbox EXCEPT ![d.to] = Append(q, d)] /\ Len(q) < MaxInbox
      BY <2>2 DEF Deliver
    <3>2. d \in Datagram /\ d.to \in Processes /\ d \in DatagramsTo(d.to) /\ Good(d)'
      BY <1>2, Stability DEF IInv, NetworkOK, Datagram, DatagramsTo
    <3>3. /\ q \in Seq(DatagramsTo(d.to)) /\ q \in Seq(Datagram)
          /\ \A e \in Elements(q) : Good(e)
      BY <3>2 DEF IInv, InboxOK
    <3>4. inbox'[d.to] = Append(q, d) /\ \A r \in Processes \ {d.to} : inbox'[r] = inbox[r]
      BY <3>1, <3>2 DEF IInv, InboxOK
    <3>5. /\ Append(q, d) \in Seq(DatagramsTo(d.to)) /\ Append(q, d) \in Seq(Datagram)
          /\ Len(Append(q, d)) = Len(q) + 1 /\ Elements(Append(q, d)) \subseteq Elements(q) \cup {d}
      BY <3>2, <3>3, Queue
    <3>6. Len(Append(q, d)) <= MaxInbox
      BY <3>1, <3>3, <3>5, DiscoveryAssumption
    <3>7. inbox' \in [Processes -> Seq(Datagram)]
      BY <3>1, <3>2, <3>5 DEF IInv, InboxOK
    <3>8. ASSUME NEW r \in Processes
          PROVE  /\ inbox'[r] \in Seq(DatagramsTo(r)) /\ Len(inbox'[r]) <= MaxInbox
                 /\ \A e \in Elements(inbox'[r]) : Good(e)'
      <4>1. CASE r = d.to
        <5>1. \A e \in Elements(inbox'[r]) : Good(e)'
          BY <1>2, <3>2, <3>3, <3>4, <3>5, <4>1, Stability
        <5> QED BY <3>4, <3>5, <3>6, <4>1, <5>1
      <4>2. CASE r # d.to
        <5>1. inbox'[r] = inbox[r]
          BY <3>4, <4>2
        <5>2. \A e \in Elements(inbox[r]) : Good(e)'
          BY <1>2, Stability DEF IInv, InboxOK
        <5> QED BY <5>1, <5>2 DEF IInv, InboxOK
      <4> QED BY <4>1, <4>2
    <3> QED BY <3>7, <3>8 DEF InboxOK
  <2> QED BY <2>1, <2>2
<1> QED BY <1>1, <1>3, <1>4, <1>5 DEF IInv, HistoryOK

LEMMA LoseInv == ASSUME IInv, NEW d \in network, Lose(d) PROVE IInv'
<1>1. /\ UNCHANGED <<mode, inbox, message, other, tcp_addr, failed>> /\ network' \subseteq network
      /\ missed' = Missed(d) /\ losses < MaxLosses /\ losses' = losses + 1
  BY DEF Lose
<1>2. Keeps
  BY <1>1 DEF Keeps
<1>3. LocalOK' /\ InboxOK' /\ NetworkOK' /\ ServersAreChosen'
  BY <1>1, <1>2, Elsewhere, StillChosen DEF IInv, LocalOK
<1>4. losses' \in 0..MaxLosses
  BY <1>1, DiscoveryAssumption DEF IInv, HistoryOK
<1> QED BY <1>1, <1>3, <1>4, MissedType DEF IInv, HistoryOK

-----------------------------------------------------------------------------
(***************************************************************************)
(* The invariant                                                           *)
(***************************************************************************)
LEMMA InitInv == Init => IInv
<1> SUFFICES ASSUME Init PROVE IInv
  OBVIOUS
<1>1. LocalOK
  BY DEF Init, LocalOK, Processes
<1>2. InboxOK
  <2>1. Elements(<<>>) = {} /\ Len(<<>>) = 0 /\ \A S : <<>> \in Seq(S)
    BY DEF Elements
  <2>2. inbox \in [Processes -> Seq(Datagram)] /\ \A p \in Processes : inbox[p] = <<>>
    BY <2>1 DEF Init
  <2> QED BY <2>1, <2>2, DiscoveryAssumption DEF InboxOK
<1>3. NetworkOK /\ HistoryOK /\ ServersAreChosen
  BY DiscoveryAssumption DEF Init, NetworkOK, HistoryOK, ServersAreChosen, Processes
<1> QED BY <1>1, <1>2, <1>3 DEF IInv

LEMMA NextInv == IInv /\ [Next]_vars => IInv'
<1> SUFFICES ASSUME IInv, [Next]_vars PROVE IInv'
  OBVIOUS
<1>1. ASSUME NEW s \in Servers, ServerStep(s) PROVE IInv'
  BY <1>1, StartInv, InviteInv, PollTimeoutInv, ReadAcceptInv, ListenInv DEF ServerStep, Processes
<1>2. ASSUME NEW c \in Clients, ClientStep(c) PROVE IInv'
  BY <1>2, StartInv, ReadInviteInv, ReadInviteFailsInv, ConnectInv DEF ClientStep, Processes
<1>3. ASSUME NEW d \in network, Deliver(d) \/ Lose(d) PROVE IInv'
  BY <1>3, DeliverInv, LoseInv
<1>4. CASE UNCHANGED vars
  BY <1>4 DEF vars, IInv, LocalOK, InboxOK, NetworkOK, HistoryOK, ServersAreChosen, Chosen, Good
<1> QED BY <1>1, <1>2, <1>3, <1>4 DEF Next

LEMMA Invariance == Spec => []IInv
BY InitInv, NextInv, PTL DEF Spec

(* Only servers' addresses come to a client's variables, and no queue grows *)
(* beyond its bound (reconnaissance, ReadSingle).                           *)
THEOREM TypeCorrect == Spec => []TypeOK
<1>1. IInv => TypeOK
  BY DEF IInv, TypeOK, LocalOK, InboxOK, NetworkOK, HistoryOK, DatagramsTo
<1> QED BY <1>1, Invariance, PTL

(* A process takes the role of a server only if a client has chosen it, or  *)
(* a read of its own has failed.                                            *)
THEOREM ChosenServers == Spec => []ServersAreChosen
<1>1. IInv => ServersAreChosen
  BY DEF IInv
<1> QED BY <1>1, Invariance, PTL

(* Every acceptance on the way or in a queue is the one of its client, and  *)
(* went to the server that the client connects to.                          *)
THEOREM SingleAnswer == Spec => []OneAnswer
<1>1. IInv => OneAnswer
  BY DEF IInv, OneAnswer, Pending, InboxOK, NetworkOK, Good, Gone, Elements
<1> QED BY <1>1, Invariance, PTL

-----------------------------------------------------------------------------
(***************************************************************************)
(* A client left behind                                                    *)
(***************************************************************************)
Uninviting(S) == \A d \in S : d.type # "invite"

\* No server will invite again, and no invitation is left.
Settled ==
  /\ \A s \in Servers : mode[s] \in {"starting", "serving", "ended"}
  /\ Uninviting(network) /\ \A p \in Processes : Uninviting(Elements(inbox[p]))

(* What is pending lies in the network or in a queue. *)
LEMMA LeftBehindIs ==
  ASSUME NEW c \in Clients
  PROVE  /\ LeftBehind(c) <=> mode[c] = "waiting" /\ c \notin failed /\ Settled
         /\ LeftBehind(c)' <=> (mode[c] = "waiting" /\ c \notin failed /\ Settled)'
BY DEF LeftBehind, Settled, Pending, Elements, Uninviting

(* Whatever is read from a queue without invitations is none, and none is   *)
(* left in it.                                                              *)
LEMMA ReadsNone ==
  ASSUME InboxOK, Settled, NEW p \in Processes, inbox[p] # <<>>,
         inbox' \in {inbox, [inbox EXCEPT ![p] = Tail(@)]}
  PROVE  /\ Head(inbox[p]).type # "invite"
         /\ \A r \in Processes : Uninviting(Elements(inbox'[r]))
<1>1. inbox[p] \in Seq(Datagram) /\ Uninviting(Elements(inbox[p]))
  BY DEF InboxOK, Settled
<1>2. Head(inbox[p]) \in Elements(inbox[p]) /\ Elements(Tail(inbox[p])) \subseteq Elements(inbox[p])
  BY <1>1, Queue
<1>3. ASSUME NEW r \in Processes PROVE Elements(inbox'[r]) \subseteq Elements(inbox[r])
  <2>1. inbox'[r] = inbox[r] \/ (r = p /\ inbox'[r] = Tail(inbox[p]))
    BY DEF InboxOK
  <2> QED BY <1>2, <2>1
<1> QED BY <1>1, <1>2, <1>3 DEF Uninviting, Settled

(* The only step a settled server has left is to listen.                    *)
LEMMA ServerSettled ==
  ASSUME IInv, Settled, NEW s \in Servers, ServerStep(s)
  PROVE  Settled' /\ UNCHANGED failed /\ \A b \in Clients : mode'[b] = mode[b]
<1>1. mode[s] \in {"starting", "serving", "ended"}
  BY DEF Settled
<1>2. Listen(s)
  BY <1>1 DEF ServerStep, Start, Invite, Inviting, PollTimeout, ReadAccept
<1>3. PICK m \in {"serving", "ended"} : mode' = [mode EXCEPT ![s] = m]
  BY <1>2 DEF Listen
<1>4. UNCHANGED <<network, inbox, failed>>
  BY <1>2 DEF Listen
<1>5. s \in Processes /\ s \notin Clients
  BY DiscoveryAssumption DEF Processes
<1>6. \A q \in Processes : mode'[q] = IF q = s THEN m ELSE mode[q]
  BY <1>3, <1>5 DEF IInv, LocalOK
<1> QED BY <1>4, <1>5, <1>6 DEF Settled, Processes

(* A client of which no call fails finds nothing that it would answer, and  *)
(* what another one sends is never an invitation.                           *)
LEMMA ClientSettled ==
  ASSUME IInv, Settled, NEW b \in Clients, ClientStep(b)
  PROVE  /\ Settled'
         /\ \A c \in Clients \ failed' : mode[c] = "waiting" => mode'[c] = "waiting"
<1>1. b \in Processes /\ b \notin Servers
  BY DiscoveryAssumption DEF Processes
<1>2. ASSUME NEW m, mode' = [mode EXCEPT ![b] = m]
      PROVE  \A q \in Processes \ {b} : mode'[q] = mode[q]
  BY <1>2 DEF IInv, LocalOK
<1>3. CASE Start(b) \/ Connect(b)
  <2>1. mode[b] # "waiting" /\ UNCHANGED <<network, inbox>> /\ \E m : mode' = [mode EXCEPT ![b] = m]
    BY <1>3 DEF Start, Connect
  <2>2. \A q \in Processes \ {b} : mode'[q] = mode[q]
    BY <1>2, <2>1
  <2> QED BY <1>1, <2>1, <2>2 DEF Settled, Processes
<1>4. CASE ReadInvite(b)
  <2>1. inbox[b] # <<>> /\ inbox' = [inbox EXCEPT ![b] = Tail(@)] /\ Examine(b, failed)
        /\ message' = [message EXCEPT ![b] = Head(inbox[b]).type]
    BY <1>4 DEF ReadInvite
  <2>2. Head(inbox[b]).type # "invite" /\ \A r \in Processes : Uninviting(Elements(inbox'[r]))
    BY <1>1, <2>1, ReadsNone DEF IInv
  <2>3. message'[b] # "invite"
    BY <1>1, <2>1, <2>2 DEF IInv, LocalOK
  <2>4. UNCHANGED <<mode, network>>
    BY <2>1, <2>3 DEF Examine
  <2> QED BY <2>2, <2>4 DEF Settled
<1>5. CASE ReadInviteFails(b)
  <2>1. inbox[b] # <<>> /\ inbox' \in {inbox, [inbox EXCEPT ![b] = Tail(@)]}
        /\ Examine(b, failed \cup {b})
    BY <1>5 DEF ReadInviteFails
  <2>2. \A r \in Processes : Uninviting(Elements(inbox'[r]))
    BY <1>1, <2>1, ReadsNone DEF IInv
  <2>3. b \in failed' /\ network' \in {network, network \cup Acceptance(b)}
        /\ (mode' = mode \/ \E m : mode' = [mode EXCEPT ![b] = m])
    BY <2>1 DEF Examine, Accept
  <2>4. \A q \in Processes \ {b} : mode'[q] = mode[q]
    BY <1>2, <2>3
  <2>5. Uninviting(network')
    BY <2>3 DEF Acceptance, Uninviting, Settled
  <2> QED BY <1>1, <2>2, <2>3, <2>4, <2>5 DEF Settled, Processes
<1> QED BY <1>3, <1>4, <1>5 DEF ClientStep

(* The network delivers no invitation where none is on the way.             *)
LEMMA NetworkSettled ==
  ASSUME IInv, Settled, NEW d \in network, Deliver(d) \/ Lose(d)
  PROVE  Settled' /\ UNCHANGED <<mode, failed>>
<1>1. UNCHANGED <<mode, failed>> /\ network' \subseteq network
  BY DEF Deliver, Lose
<1>2. d \in Datagram /\ d.to \in Processes /\ d.type # "invite"
  BY DEF IInv, NetworkOK, Datagram, Settled, Uninviting
<1>3. ASSUME NEW r \in Processes PROVE Elements(inbox'[r]) \subseteq Elements(inbox[r]) \cup {d}
  <2>1. inbox' = inbox \/ inbox' = [inbox EXCEPT ![d.to] = Append(@, d)]
    BY DEF Deliver, Lose
  <2>2. inbox'[r] = inbox[r] \/ inbox'[r] = Append(inbox[r], d)
    BY <1>2, <2>1 DEF IInv, InboxOK
  <2>3. inbox[r] \in Seq(Datagram)
    BY DEF IInv, InboxOK
  <2> QED BY <1>2, <2>2, <2>3, Queue
<1> QED BY <1>1, <1>2, <1>3 DEF Settled, Uninviting

(* Once every server has its role and no invitation is left, a client that  *)
(* waits does so for ever, unless a read of its own fails (main calls       *)
(* reconnaissance once; nobody invites after it).                           *)
THEOREM LeftForEver == Spec => NeverFetched
<1>1. ASSUME IInv, [Next]_vars
      PROVE  [\A c \in Clients \ failed' : LeftBehind(c) => LeftBehind(c)']_vars
  <2> SUFFICES ASSUME NEW c \in Clients, c \notin failed', mode[c] = "waiting", c \notin failed, Settled
               PROVE  mode'[c] = "waiting" /\ Settled'
    BY LeftBehindIs
  <2>1. ASSUME NEW s \in Servers, ServerStep(s) PROVE mode'[c] = "waiting" /\ Settled'
    BY <1>1, <2>1, ServerSettled
  <2>2. ASSUME NEW b \in Clients, ClientStep(b) PROVE mode'[c] = "waiting" /\ Settled'
    BY <1>1, <2>2, ClientSettled
  <2>3. ASSUME NEW d \in network, Deliver(d) \/ Lose(d) PROVE mode'[c] = "waiting" /\ Settled'
    BY <1>1, <2>3, NetworkSettled
  <2>4. CASE UNCHANGED vars
    BY <2>4 DEF vars, Settled
  <2> QED BY <1>1, <2>1, <2>2, <2>3, <2>4 DEF Next
<1>2. [Next]_vars /\ IInv => [\A c \in Clients \ failed' : LeftBehind(c) => LeftBehind(c)']_vars
  BY <1>1
<1> QED BY <1>2, Invariance, PTL DEF Spec, NeverFetched
=============================================================================
