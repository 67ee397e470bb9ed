-------------------------- MODULE SessionHandshake --------------------------
(***************************************************************************)
(* How two devices come to share one ratchet session                       *)
(* (crates/kult-node/src/lib.rs, ADR-0018): either may open a session with *)
(* a first flight that carries its first message, a device that a restore  *)
(* minted opens one with an empty flight, the lower device replaces a      *)
(* session of an earlier release, and scanning the other's bundle again    *)
(* drops a session with unacknowledged messages.  Flights cross; the       *)
(* device that takes the other's session re-encrypts what it had sent      *)
(* under its own.                                                          *)
(*                                                                         *)
(* A session is named by the number of the flight that made it, a sealed   *)
(* copy of message m under s has the content id <<kind, s, m>>.  What is    *)
(* handed off may arrive in any order, any number of times (duplicates are *)
(* recognised by content id) or never: nothing obliges a device to consume *)
(* what is in `net', and Work asks it only of what its sender retries.     *)
(* Prekeys, admission and manifests are taken to verify: both devices are  *)
(* contacts of each other.                                                 *)
(***************************************************************************)
EXTENDS Naturals, FiniteSets

CONSTANTS
  Device,      \* the two device ids, as numbers: the code compares the bytes
  Message,
  author,      \* [Message -> Device]
  Starts,      \* how the two may start, [restored, legacy]: devices minted by
               \* a restore or by linking have a session-reset marker for the
               \* other; legacy: they share a session of an earlier release
  Rescans,     \* devices whose user scans the other's bundle once more
  MAX_COMMIT_QUEUE_ROWS,
  MaxSession,  \* bound on first flights
  None

ASSUME SessionConstants ==
  /\ Device \subseteq Nat /\ \E a, b \in Device : a < b /\ Device = {a, b}
  /\ author \in [Message -> Device] /\ None \notin Message
  /\ Starts \subseteq [restored : SUBSET Device, legacy : BOOLEAN]
  /\ \A s \in Starts : s.legacy => s.restored = {}
  /\ Rescans \subseteq Device
  /\ MAX_COMMIT_QUEUE_ROWS \in Nat /\ MaxSession \in Nat

VARIABLES
  session,   \* [Device -> the session held for the other device, or NoSession]
  marker,    \* [Device -> there is a reset marker for the other device]
  made,      \* first flights made so far
  delivery,  \* [Message -> [state, wire]]; wire: session of its sealed copy
  framed,    \* messages whose body carries their own content id
  queue,     \* [Device -> rows of the outbound queue]
  net,       \* envelopes a next hop has accepted
  seen,      \* [Device -> content ids consumed, with who sent them]
  replay,    \* [Device -> content ids whose duplicate is answered again]
  history,   \* [Message -> how often the recipient has recorded it]
  rescans    \* devices whose user has not scanned again yet

vars == <<session, marker, made, delivery, framed, queue, net, seen, replay, history,
          rescans>>

NoSession     == MaxSession + 1
PriorSession  == 0
Sessions      == 0..MaxSession

peer(d) == CHOOSE e \in Device : e # d

\* Envelopes. `msg' is None in a flight that carries no content.
Flight(d, s, intent, prior, m) ==
  [kind |-> "Handshake", from |-> d, sid |-> s, intent |-> intent, prior |-> prior, msg |-> m]
Sealed(d, s, m)  == [kind |-> "Message", from |-> d, sid |-> s, msg |-> m]
Receipt(d, s, c) == [kind |-> "Receipt", from |-> d, sid |-> s, acks |-> c]

content_id(e) == IF e.kind = "Receipt" THEN <<"Receipt", e.from, e.sid, e.acks>>
                                       ELSE <<e.kind, e.sid, e.msg>>
\* A row with a message is retried until its receipt; others end at handoff.
CarriesMessage(e) == e.kind # "Receipt" /\ e.msg # None

\* The tables are well formed, and a duplicate is answered only for an envelope
\* that was consumed.
TypeOK ==
  /\ session \in [Device -> Sessions \cup {NoSession}]
  /\ marker \in [Device -> BOOLEAN]
  /\ made \in Sessions
  /\ delivery \in [Message -> [state : {"none", "Open", "Delivered"},
                               wire : Sessions \cup {NoSession}]]
  /\ framed \subseteq Message
  /\ DOMAIN queue = Device /\ \A d \in Device : \A e \in queue[d] : e.from = d
  /\ \A e \in net : e.kind \in {"Handshake", "Message", "Receipt"} /\ e.sid \in Sessions
  /\ DOMAIN seen = Device
  /\ DOMAIN replay = Device /\ \A d \in Device : replay[d] \subseteq seen[d]
  /\ history \in [Message -> Nat] /\ rescans \subseteq Rescans

Init ==
  /\ \E start \in Starts :
       /\ session = [d \in Device |-> IF start.legacy THEN PriorSession ELSE NoSession]
       /\ marker = [d \in Device |-> d \in start.restored]
  /\ made = 0
  /\ delivery = [m \in Message |-> [state |-> "none", wire |-> NoSession]]
  /\ framed = {}
  /\ queue = [d \in Device |-> {}]
  /\ net = {}
  /\ seen = [d \in Device |-> {}]
  /\ replay = [d \in Device |-> {}]
  /\ history = [m \in Message |-> 0]
  /\ rescans = Rescans

-----------------------------------------------------------------------------
(* Sending *)

\* The intent a flight of d declares.
intent_of(d) == CASE marker[d]                            -> "Reset"
                  [] ~marker[d] /\ session[d] # NoSession -> "Replace"
                  [] OTHER                                -> "Establish"

\* d makes a session, holds it at once and queues the flight that offers it.
prepare_session(d, m) ==
  /\ made < MaxSession
  /\ made' = made + 1
  /\ session' = [session EXCEPT ![d] = made + 1]
  /\ queue' = [queue EXCEPT
       ![d] = @ \cup {Flight(d, made + 1, intent_of(d), session[d], m)}]

EncryptCopy(d, m) ==
  /\ session[d] # NoSession
  /\ queue' = [queue EXCEPT ![d] = @ \cup {Sealed(d, session[d], m)}]
  /\ UNCHANGED <<session, made>>

\* The copy of m that is queued now: under the session d holds afterwards.
QueueCopy(d, m) ==
  /\ EncryptCopy(d, m) \/ (session[d] = NoSession /\ prepare_session(d, m))
  /\ delivery' = [delivery EXCEPT ![m] = [state |-> "Open", wire |-> session'[d]]]

\* The body is framed with its content id only once the session has shown that
\* the other side understands it; a first flight is always legacy text.
send_message(d, m) ==
  /\ author[m] = d /\ delivery[m].state = "none"
  /\ QueueCopy(d, m)
  /\ framed' \in {framed} \cup (IF session[d] = NoSession THEN {} ELSE {framed \cup {m}})
  /\ marker' = [marker EXCEPT ![d] = FALSE]
  /\ UNCHANGED <<net, seen, replay, history, rescans>>

\* A copy that a replaced session took back is sealed again.
queue_pending_pairwise_device_deliveries(d, m) ==
  /\ author[m] = d /\ delivery[m] = [state |-> "Open", wire |-> NoSession]
  /\ QueueCopy(d, m)
  /\ UNCHANGED <<marker, framed, net, seen, replay, history, rescans>>

\* One attempt per marker, and only without a session.
rekey_reset_peers(d) ==
  /\ marker[d]
  /\ \/ session[d] = NoSession /\ prepare_session(d, None)
     \/ session[d] # NoSession /\ UNCHANGED <<session, made, queue>>
  /\ marker' = [marker EXCEPT ![d] = FALSE]
  /\ UNCHANGED <<delivery, framed, net, seen, replay, history, rescans>>

\* Of two devices with a session that has no exporter the lower one replaces it.
process_rendezvous_rehandshakes(d) ==
  /\ session[d] = PriorSession /\ d < peer(d)
  /\ prepare_session(d, None)
  /\ UNCHANGED <<marker, delivery, framed, net, seen, replay, history, rescans>>

\* Mutant: the copies stay as they are, sealed under the session that is gone.
TakenBackNothing(d) == delivery

\* The deliveries of d, without the copies the session sealed.
TakenBack(d) ==
  [m \in Message |->
     IF author[m] = d /\ delivery[m].state = "Open"
       THEN [state |-> "Open", wire |-> NoSession] ELSE delivery[m]]

\* A fresh bundle of the other device was scanned while copies are open.
reset_unconfirmed_session(d) ==
  LET affected == {m \in Message : author[m] = d /\ delivery[m].state = "Open"
                                   /\ delivery[m].wire # NoSession} IN
  /\ d \in rescans /\ affected # {} /\ made < MaxSession
  /\ rescans' = rescans \ {d}
  /\ delivery' = TakenBack(d)
  /\ queue' = [queue EXCEPT ![d] = {e \in @ : ~(CarriesMessage(e) /\ e.msg \in affected)}]
  /\ session' = [session EXCEPT ![d] = NoSession]
  /\ UNCHANGED <<marker, made, framed, net, seen, replay, history>>

\* A next hop accepts a queued envelope.
deliver_queue(d, e) ==
  /\ e \in queue[d] /\ ~(CarriesMessage(e) /\ e \in net)
  /\ net' = net \cup {e}
  /\ queue' = IF CarriesMessage(e) THEN queue ELSE [queue EXCEPT ![d] = @ \ {e}]
  /\ UNCHANGED <<session, marker, made, delivery, framed, seen, replay, history, rescans>>

-----------------------------------------------------------------------------
(* Receiving *)

\* Mutants: without the comparison of the device ids every offer is taken, or
\* every device that holds a session keeps it.
DecideWithoutTieBreak(local, remote, prior, e) ==
  IF e.intent = "Replace" /\ (prior = NoSession \/ prior # e.prior)
    THEN "Reject" ELSE "AcceptInbound"

DecideKeepingOwn(local, remote, prior, e) ==
  IF e.intent = "Replace" /\ (prior = NoSession \/ prior # e.prior) THEN "Reject"
  ELSE IF e.intent # "Replace" /\ prior # NoSession THEN "KeepPrior"
  ELSE "AcceptInbound"

\* What becomes of an offer: of two that cross, the lower device's stands.
decide_inbound_session(local, remote, prior, e) ==
  IF e.intent = "Replace" /\ (prior = NoSession \/ prior # e.prior) THEN "Reject"
  ELSE IF e.intent = "Establish" /\ prior # NoSession /\ local < remote THEN "KeepPrior"
  ELSE "AcceptInbound"

\* An envelope of the other device that d has not consumed.
Arrives(d, e) == e \in net /\ e.from = peer(d) /\ content_id(e) \notin seen[d]

\* Mutant: only flights are marked.
ConsumedFlights(d, e) ==
  seen' = IF e.kind = "Handshake" THEN [seen EXCEPT ![d] = @ \cup {content_id(e)}] ELSE seen

Consumed(d, e)  == seen' = [seen EXCEPT ![d] = @ \cup {content_id(e)}]
Answered(d, e)  == replay' = [replay EXCEPT ![d] = @ \cup {content_id(e)}]

\* Mutant: every copy is a new entry.
RecordedEveryTime(m) == [history EXCEPT ![m] = @ + 1]

\* prepare_inbound: a framed body is recorded once, legacy text every time.
prepare_inbound(m) ==
  IF m \in framed /\ history[m] > 0 THEN history ELSE [history EXCEPT ![m] = @ + 1]

\* The first content of a flight, recorded and acknowledged under session s.
FirstPayload(d, e, s, rows) ==
  LET needs_receipt == e.msg # None \/ s # e.sid IN
  /\ history' = IF e.msg = None THEN history ELSE prepare_inbound(e.msg)
  /\ queue' = [queue EXCEPT ![d] =
       rows \cup (IF needs_receipt THEN {Receipt(d, s, content_id(e))} ELSE {})]
  /\ IF needs_receipt THEN Answered(d, e) ELSE UNCHANGED replay

RejectFlight(d, e) ==
  /\ decide_inbound_session(d, e.from, session[d], e) = "Reject"
  /\ UNCHANGED <<session, delivery, queue, replay, history>>

KeepPriorSession(d, e) ==
  /\ decide_inbound_session(d, e.from, session[d], e) = "KeepPrior"
  /\ FirstPayload(d, e, session[d], queue[d])
  /\ UNCHANGED <<session, delivery>>

\* With too many rows to delete in one commit the flight waits.
AcceptInbound(d, e) ==
  /\ decide_inbound_session(d, e.from, session[d], e) = "AcceptInbound"
  /\ \/ /\ session[d] = NoSession
        /\ FirstPayload(d, e, e.sid, queue[d])
        /\ UNCHANGED delivery
     \/ /\ session[d] # NoSession
        /\ Cardinality(queue[d]) <= MAX_COMMIT_QUEUE_ROWS
        /\ FirstPayload(d, e, e.sid, {})
        /\ delivery' = TakenBack(d)
  /\ session' = [session EXCEPT ![d] = e.sid]

consume_handshake(d, e) ==
  /\ Arrives(d, e) /\ e.kind = "Handshake"
  /\ RejectFlight(d, e) \/ KeepPriorSession(d, e) \/ AcceptInbound(d, e)
  /\ Consumed(d, e)
  /\ UNCHANGED <<marker, made, framed, net, rescans>>

\* consume_ratchet, a message; without the session it stays stashed.
consume_message(d, e) ==
  /\ Arrives(d, e) /\ e.kind = "Message" /\ session[d] = e.sid
  /\ history' = prepare_inbound(e.msg)
  /\ queue' = [queue EXCEPT ![d] = @ \cup {Receipt(d, e.sid, content_id(e))}]
  /\ Consumed(d, e) /\ Answered(d, e)
  /\ UNCHANGED <<session, marker, made, delivery, framed, net, rescans>>

\* prepare_receipt
Acknowledge(d, c) ==
  /\ queue' = [queue EXCEPT ![d] = {q \in @ : content_id(q) # c}]
  /\ delivery' = [m \in Message |->
       IF /\ author[m] = d /\ delivery[m].wire # NoSession
          /\ c \in {<<"Handshake", delivery[m].wire, m>>, <<"Message", delivery[m].wire, m>>}
         THEN [delivery[m] EXCEPT !.state = "Delivered"] ELSE delivery[m]]

consume_receipt(d, e) ==
  /\ Arrives(d, e) /\ e.kind = "Receipt" /\ session[d] = e.sid
  /\ Acknowledge(d, e.acks)
  /\ Consumed(d, e)
  /\ UNCHANGED <<session, marker, made, framed, net, replay, history, rescans>>

\* A retried envelope that was consumed before is acknowledged again, under
\* the session held now.  A receipt that is already on its way adds nothing.
replay_receipt(d, e) ==
  LET r == Receipt(d, session[d], content_id(e)) IN
  /\ e \in net /\ e.from = peer(d) /\ e \in queue[e.from]
  /\ content_id(e) \in replay[d] /\ session[d] # NoSession
  /\ r \notin net \cup queue[d]
  /\ queue' = [queue EXCEPT ![d] = @ \cup {r}]
  /\ UNCHANGED <<session, marker, made, delivery, framed, net, seen, replay, history, rescans>>

Send(d) ==
  \/ \E m \in Message : send_message(d, m) \/ queue_pending_pairwise_device_deliveries(d, m)
  \/ rekey_reset_peers(d)
  \/ process_rendezvous_rehandshakes(d)
  \/ reset_unconfirmed_session(d)
  \/ \E e \in queue[d] : deliver_queue(d, e)

Receive(d) ==
  \E e \in net : \/ consume_handshake(d, e) \/ consume_message(d, e)
                 \/ consume_receipt(d, e) \/ replay_receipt(d, e)

Next == \E d \in Device : Send(d) \/ Receive(d)

Spec == Init /\ [][Next]_vars

\* An envelope comes to d again and again until d has consumed it: a row with a
\* message as long as it is queued, a receipt as long as d retries what it
\* acknowledges (each retry is answered anew).  Everything else, a flight without
\* content too, ends at handoff and may be lost.
Retried(d, e) ==
  \/ CarriesMessage(e) /\ e \in queue[e.from]
  \/ /\ e.kind = "Receipt" /\ e.sid = session[e.from]
     /\ \E q \in queue[d] : CarriesMessage(q) /\ content_id(q) = e.acks

\* tick runs every step but the user's own send, on both devices, for ever.
Work(d) ==
  \/ \E m \in Message : queue_pending_pairwise_device_deliveries(d, m)
  \/ rekey_reset_peers(d)
  \/ process_rendezvous_rehandshakes(d)
  \/ \E e \in queue[d] : deliver_queue(d, e)
  \/ \E e \in net : Retried(d, e) /\ (\/ consume_handshake(d, e) \/ consume_message(d, e)
                                      \/ consume_receipt(d, e) \/ replay_receipt(d, e))

TickingSpec == Spec /\ \A d \in Device : WF_vars(Work(d))

-----------------------------------------------------------------------------
(* Properties *)

\* Every flight made was consumed, and no device is about to make one.
FlightsSettled ==
  /\ \A d \in Device : \A e \in queue[d] \cup net :
       (e.kind = "Handshake" /\ e.from = d) => content_id(e) \in seen[peer(d)]
  /\ \A m \in Message : delivery[m].state = "Open" => session[author[m]] # NoSession
  /\ \A d \in Device : ~marker[d]

\* Once no first flight is under way any more, whatever order crossing flights
\* were consumed in, the two devices hold the same session
\* (decide_inbound_session picks one side's flight on both sides).
SessionsAgree == FlightsSettled => \A d, e \in Device : session[d] = session[e]

\* A device never takes over a session its maker has already given up: a late
\* or crossing flight is rejected or answered under the session both keep.
AdoptedIsHeld ==
  [][\A d \in Device :
       (session'[d] # session[d] /\ made' = made) => session'[d] = session[peer(d)]]_vars

\* An open copy is always sealed under the session its author holds now, or
\* waits to be: consume_handshake takes back every copy the replaced session
\* sealed, so none is left in a session nobody can read.
OpenCopiesAreCurrent ==
  \A m \in Message :
    delivery[m].state = "Open" => delivery[m].wire \in {session[author[m]], NoSession}

\* However often sessions are replaced and copies sealed again, a body that
\* carries its content id enters the history once (prepare_inbound).
FramedRecordedOnce == \A m \in framed : history[m] <= 1

\* "envelopes ... never lost, never double-processed" (lib.rs): no message enters
\* the recipient's history twice.
NoDuplicateHistory == \A m \in Message : history[m] <= 1

\* "messaging resumes in both directions without the user sending first"
\* (docs/08-roadmap.md): every message accepted for sending is acknowledged in
\* the end.
EveryMessageDelivered ==
  \A m \in Message : delivery[m].state = "Open" ~> delivery[m].state = "Delivered"

\* Every flight without content that was handed off has arrived.
EmptyFlightsArrived ==
  \A e \in net : e.kind = "Handshake" /\ e.msg = None => content_id(e) \in seen[peer(e.from)]

\* Unless a flight without content is lost, every message is acknowledged in the
\* end, though the session that sealed it may lose to a crossing one and any
\* envelope its sender no longer retries may never arrive.  Excepted are copies
\* sealed under a session of an earlier release, which its upgrade leaves behind.
DeliveredIfFlightsArrive ==
  []<>EmptyFlightsArrived =>
    \A m \in Message :
      (delivery[m].state = "Open" /\ delivery[m].wire # PriorSession)
         ~> (delivery[m].state = "Delivered")
=============================================================================
