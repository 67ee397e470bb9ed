-------------------------- MODULE MessageLifecycle --------------------------
(***************************************************************************)
(* What the delivery engine promises about an outgoing message: the state  *)
(* an application is shown (Event::DeliveryUpdated) against what the       *)
(* recipient really has.                                                   *)
(***************************************************************************)
CONSTANT Messages

VARIABLES
  status,   \* [Messages -> the state shown]
  peerHas   \* messages an intended device has recorded

vars == <<status, peerHas>>

Status == {"none", "Queued", "Sent", "Delivered", "Failed"}
Open   == {"Queued", "Sent"}

Init == status = [m \in Messages |-> "none"] /\ peerHas = {}

Become(S, from, to) ==
  /\ \A m \in S : status[m] \in from
  /\ status' = [m \in Messages |-> IF m \in S THEN to ELSE status[m]]
  /\ UNCHANGED peerHas

Accept(m)  == Become({m}, {"none"}, "Queued")
HandOff(m) == Become({m}, {"Queued"}, "Sent")
\* Session replacement takes back what was sent under the old session.
Requeue(S) == Become(S, {"Sent"}, "Queued")
GiveUp(S)  == Become(S, Open, "Failed")
\* A receipt may still come for a message that was given up.
Confirm(m) == m \in peerHas /\ Become({m}, Open \cup {"Failed"}, "Delivered")

Record(m) == /\ status[m] # "none"
             /\ peerHas' = peerHas \cup {m}
             /\ UNCHANGED status

Next == \/ \E m \in Messages : Accept(m) \/ HandOff(m) \/ Confirm(m) \/ Record(m)
        \/ \E S \in SUBSET Messages : Requeue(S) \/ GiveUp(S)

Spec == Init /\ [][Next]_vars

\* "Delivered" is shown only for a message that a device of the recipient
\* really has (SV1-C10, honest delivery).
DeliveredIsTrue == \A m \in Messages : status[m] = "Delivered" => m \in peerHas
=============================================================================
