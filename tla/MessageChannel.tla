--------------------------- MODULE MessageChannel --------------------------
(***************************************************************************)
(* What one connection of OnlineBuffer promises to the code above it:      *)
(* messages may be lost and may overtake each other, but each SendSequence *)
(* is accepted at most once, its bytes unaltered and as the kind of thing  *)
(* it was sent as.  Once the socket has failed the reader may accept the   *)
(* last message again, any number of times, and mistake a message's kind.  *)
(***************************************************************************)
EXTENDS Integers, Sequences

CONSTANTS Kinds, Payloads

VARIABLES
  sent,       (* the messages given to the channel, in order               *)
  delivered,  (* the messages accepted from it, in order                   *)
  broken      (* the socket has failed                                     *)

vars == <<sent, delivered, broken>>

Init ==
  /\ sent = <<>>
  /\ delivered = <<>>
  /\ broken = FALSE

Send(kind, payload) ==
  /\ sent' = Append(sent, [data |-> kind, payload |-> payload])
  /\ UNCHANGED <<delivered, broken>>

(* Two messages of one payload have one hash: the kind may be the other's.  *)
(* When the socket has failed it may be that of any message, or none.       *)
KindsOf(n) ==
  IF broken THEN Kinds \cup {0}
  ELSE {sent[m].data : m \in {m \in 1..Len(sent) : sent[m].payload = sent[n].payload}}

Accept(n) ==
  /\ \E kind \in KindsOf(n) :
       delivered' = Append(delivered, [id |-> n, data |-> kind, body |-> sent[n].payload])
  /\ UNCHANGED <<sent, broken>>

AcceptOnce(n) ==
  /\ \A i \in 1..Len(delivered) : delivered[i].id # n
  /\ Accept(n)

AcceptAgain ==
  /\ broken
  /\ delivered # <<>>
  /\ Accept(delivered[Len(delivered)].id)

Break ==
  /\ broken' = TRUE
  /\ UNCHANGED <<sent, delivered>>

Next ==
  \/ \E kind \in Kinds, payload \in Payloads : Send(kind, payload)
  \/ \E n \in 1..Len(sent) : AcceptOnce(n)
  \/ AcceptAgain
  \/ Break

Spec == Init /\ [][Next]_vars
============================================================================
