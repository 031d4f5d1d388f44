-------------------------------- MODULE Ring --------------------------------
(***************************************************************************)
(* What the server expects of its connection pool cpull: a bounded list in *)
(* which new elements go to the end, any element can be taken out, and a   *)
(* walk from the first element meets all the others in order.  The list    *)
(* promises nothing any more once its only element has been taken out.     *)
(***************************************************************************)
EXTENDS Naturals, Sequences

CONSTANTS Objects, m_size

VARIABLES
  items,   (* the elements, the first one first                            *)
  used,    (* something was emplaced                                       *)
  broken   (* the list has touched memory that is not its own              *)

vars == <<items, used, broken>>

Init ==
  /\ items = <<>>
  /\ used = FALSE
  /\ broken = FALSE

Emplace(x) ==
  /\ ~broken
  /\ Len(items) < m_size
  /\ items' = Append(items, x)
  /\ used' = TRUE
  /\ UNCHANGED broken

Erase(i) ==
  /\ ~broken
  /\ items' = [j \in 1..(Len(items) - 1) |-> IF j < i THEN items[j] ELSE items[j + 1]]
  /\ UNCHANGED <<used, broken>>

Break ==
  /\ ~broken
  /\ used /\ items = <<>>
  /\ broken' = TRUE
  /\ UNCHANGED <<items, used>>

Next ==
  \/ \E x \in Objects : Emplace(x)
  \/ \E i \in 1..Len(items) : Erase(i)
  \/ Break

Spec == Init /\ [][Next]_vars
=============================================================================
