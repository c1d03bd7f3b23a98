------------------------------ MODULE WriteOnce -----------------------------
(***************************************************************************)
(* The promise about external writes: the intent to send a write is on     *)
(* record before the request, the request leaves at most once, and only a  *)
(* request that was sent is ever recorded as settled.  A write that stays  *)
(* "sent" is the uncertain one, to be reconciled by a person.              *)
(***************************************************************************)
EXTENDS Naturals

CONSTANT Writes

VARIABLES
  phase,     \* what the records of the run say of each write
  requests   \* how many requests were handed to the transport

vars == <<phase, requests>>

Init ==
  /\ phase = [w \in Writes |-> "idle"]
  /\ requests = [w \in Writes |-> 0]

Mark(w) == /\ phase[w] = "idle"
           /\ phase' = [phase EXCEPT ![w] = "marked"]
           /\ UNCHANGED requests

Send(w) == /\ phase[w] = "marked"
           /\ phase' = [phase EXCEPT ![w] = "sent"]
           /\ requests' = [requests EXCEPT ![w] = @ + 1]

Settle(w) == /\ phase[w] = "sent"
             /\ phase' = [phase EXCEPT ![w] = "settled"]
             /\ UNCHANGED requests

Next == \E w \in Writes : Mark(w) \/ Send(w) \/ Settle(w)

Spec == Init /\ [][Next]_vars
=============================================================================
