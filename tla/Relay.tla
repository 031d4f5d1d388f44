------------------------------- MODULE Relay -------------------------------
(***************************************************************************)
(* What the server promises its clients: at most maxconnlen of them ever   *)
(* become members, nobody ceases to be one, and a message that a member or *)
(* the server's own clipboard posts is given to every other member at most *)
(* once, never to its source, and never before an earlier message of the   *)
(* same source.  Messages of different sources come in any order, each     *)
(* member is greeted at most once, at some point in between, and the       *)
(* server may stop at any moment.                                          *)
(***************************************************************************)
EXTENDS Naturals, Sequences, FiniteSets

CONSTANTS Clients, Worker, maxconnlen, Welcome

VARIABLES
  members,  (* the clients accepted so far                                 *)
  posted,   (* per message, its source                                     *)
  given,    (* per client, what it was given, in order                     *)
  running

vars == <<members, posted, given, running>>

Init ==
  /\ members = {}
  /\ posted = <<>>
  /\ given = [c \in Clients |-> <<>>]
  /\ running = TRUE

Join(c) ==
  /\ running
  /\ c \notin members
  /\ Cardinality(members) < maxconnlen
  /\ members' = members \cup {c}
  /\ UNCHANGED <<posted, given, running>>

Post(source) ==
  /\ running
  /\ posted' = Append(posted, source)
  /\ UNCHANGED <<members, given, running>>

Greet(c) ==
  /\ running
  /\ c \in members
  /\ \A i \in 1..Len(given[c]) : given[c][i] # Welcome
  /\ given' = [given EXCEPT ![c] = Append(@, Welcome)]
  /\ UNCHANGED <<members, posted, running>>

Give(m, c) ==
  /\ running
  /\ c \in members /\ c # posted[m]
  /\ \A i \in 1..Len(given[c]) :
       given[c][i] # Welcome /\ posted[given[c][i]] = posted[m] => given[c][i] < m
  /\ given' = [given EXCEPT ![c] = Append(@, m)]
  /\ UNCHANGED <<members, posted, running>>

Stop ==
  /\ running
  /\ running' = FALSE
  /\ UNCHANGED <<members, posted, given>>

Next ==
  \/ \E c \in Clients : Join(c) \/ Greet(c)
  \/ \E source \in members \cup {Worker} : Post(source)
  \/ \E m \in 1..Len(posted), c \in Clients : Give(m, c)
  \/ Stop

Spec == Init /\ [][Next]_vars
=============================================================================
