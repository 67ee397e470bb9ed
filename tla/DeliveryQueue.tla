---------------------------- MODULE DeliveryQueue ----------------------------
(***************************************************************************)
(* The sending half of the delivery engine (crates/kult-node/src/lib.rs):  *)
(* a pairwise message becomes one sealed copy per device of the recipient; *)
(* every copy is retried until its encrypted receipt arrives, and given up *)
(* by the hourly sweep after DELIVERY_EXPIRY_SECS.  Every action is one    *)
(* store commit of one step of a tick.  Messages that disappear (their     *)
(* envelope has a retention deadline, at which flush drops its row), call  *)
(* signals and group copies are not modelled here, and what a scanned      *)
(* bundle does to the copies of its own device is in SessionHandshake.     *)
(*                                                                         *)
(* A copy's content id is its encryption number, unique per message and    *)
(* device.  record.wire_id always repeats one of the copies' ids, so       *)
(* legacy_acked adds nothing to device_acked and is left out.  Clock and   *)
(* attempt counters saturate at MaxTime and MaxAttempts: beyond them the   *)
(* code treats all values alike.                                           *)
(***************************************************************************)
EXTENDS Integers, Sequences, FiniteSets

CONSTANTS
  Messages,       \* 1..n, in the order of the history table
  Devices,        \* the physical devices of the recipient's account
  DELIVERY_EXPIRY_SECS, DELIVERY_SWEEP_INTERVAL_SECS,
  MAX_MAINTENANCE_MESSAGES_PER_TICK, MAX_MAINTENANCE_QUEUE_ROWS_PER_TICK,
  MAX_COMMIT_QUEUE_ROWS, MAX_MAINTENANCE_TRANSITIONS,
  RETRY_BASE_SECS, RETRY_CAP_SECS, PASSIVE_AFTER_ATTEMPTS, PASSIVE_RETRY_MIN_SECS,
  CAPACITY_RETRY_BASE_SECS, CAPACITY_RETRY_CAP_SECS,
  MaxTime, MaxAttempts,
  MaxWire         \* bound on encryptions of one message for one device

ASSUME DeliveryConstants ==
  /\ Messages \subseteq Nat \ {0}
  /\ MaxTime \in Nat /\ MaxAttempts \in Nat \ {0} /\ MaxWire \in Nat
  /\ DELIVERY_EXPIRY_SECS \in Nat \ {0} /\ DELIVERY_SWEEP_INTERVAL_SECS \in Nat
  /\ MAX_MAINTENANCE_MESSAGES_PER_TICK \in Nat
  /\ MAX_MAINTENANCE_QUEUE_ROWS_PER_TICK \in Nat /\ MAX_COMMIT_QUEUE_ROWS \in Nat
  /\ MAX_MAINTENANCE_TRANSITIONS \in Nat
  /\ RETRY_BASE_SECS \in Nat /\ RETRY_CAP_SECS \in Nat
  /\ PASSIVE_AFTER_ATTEMPTS \in 0..MaxAttempts /\ PASSIVE_RETRY_MIN_SECS \in Nat
  /\ CAPACITY_RETRY_BASE_SECS \in Nat /\ CAPACITY_RETRY_CAP_SECS \in Nat

VARIABLES
  messages,     \* [Messages -> [state, timestamp]]
  deliveries,   \* [Messages -> [Devices -> [state, wire]]]; wire 0 is None
  queue,        \* rows [msg, dev, wire, attempts, next_attempt_at]
  encrypted,    \* [Messages -> [Devices -> encryptions so far]]
  next_delivery_sweep,
  transit,      \* copies [msg, dev, wire] that left this node, for good
  applied,      \* copies their device has recorded
  receipts,     \* receipts that exist, named by the copy they acknowledge
  endpoint,     \* [Devices -> its place in the contact's accepted device list]
  now

vars == <<messages, deliveries, queue, encrypted, next_delivery_sweep,
          transit, applied, receipts, endpoint, now>>

States   == {"none", "Queued", "Sent", "Delivered", "Failed"}
Terminal == {"Delivered", "Failed"}

\* A device is in the contact's list, or in it but with queue rows retired for a
\* list without it that is not stored yet, or revoked or no longer in the list.
Endpoints == {"active", "retiring", "dropped"}
Known == {d \in Devices : endpoint[d] # "dropped"}

Copy(m, d, w) == [msg |-> m, dev |-> d, wire |-> w]
CopyOf(q) == Copy(q.msg, q.dev, q.wire)

Least(a, b) == IF a <= b THEN a ELSE b
Most(a, b)  == IF a >= b THEN a ELSE b

Init ==
  /\ messages = [m \in Messages |-> [state |-> "none", timestamp |-> 0]]
  /\ deliveries = [m \in Messages |-> [d \in Devices |-> [state |-> "none", wire |-> 0]]]
  /\ queue = {}
  /\ encrypted = [m \in Messages |-> [d \in Devices |-> 0]]
  /\ next_delivery_sweep = 0
  /\ transit = {} /\ applied = {} /\ receipts = {}
  /\ endpoint = [d \in Devices |-> "active"]
  /\ now = 0

-----------------------------------------------------------------------------
(* Sending and re-sending.                                                 *)

NewRow(m, d, w) ==
  [msg |-> m, dev |-> d, wire |-> w, attempts |-> 0, next_attempt_at |-> now]

\* Encrypt message m for the devices in D: one more number, one more row.
Encrypt(m, D) ==
  /\ \A d \in D : encrypted[m][d] < MaxWire
  /\ encrypted' = [encrypted EXCEPT ![m] =
                     [d \in Devices |-> IF d \in D THEN @[d] + 1 ELSE @[d]]]
  /\ queue' = queue \cup {NewRow(m, d, encrypted[m][d] + 1) : d \in D}

\* Bound: the clock can still run past the expiry of what is sent now.
TimeToExpire == now + DELIVERY_EXPIRY_SECS <= MaxTime

\* Messages enter the history in order; every listed device gets a delivery
\* record, and those with a session or a valid bundle (usable) a sealed copy.
Send(m, usable) ==
  /\ messages[m].state = "none" /\ TimeToExpire
  /\ \A k \in Messages : k < m => messages[k].state # "none"
  /\ usable # {} /\ usable \subseteq Known
  /\ Encrypt(m, usable)
  /\ messages' = [messages EXCEPT ![m] = [state |-> "Queued", timestamp |-> now]]
  /\ deliveries' = [deliveries EXCEPT ![m] =
       [d \in Devices |-> [state |-> IF d \in Known THEN "Queued" ELSE "none",
                           wire |-> IF d \in usable THEN encrypted'[m][d] ELSE 0]]]
  /\ UNCHANGED <<next_delivery_sweep, transit, applied, receipts, endpoint, now>>

\* The device has no copy yet, or lost it with its session.
AwaitsRoute(m, d) == deliveries[m][d].state = "Queued" /\ deliveries[m][d].wire = 0

\* queue_pending_pairwise_device_deliveries: a route became usable.
MaterializePending(m, usable) ==
  /\ usable # {} /\ usable \subseteq Known
  /\ \A d \in usable : AwaitsRoute(m, d)
  /\ Encrypt(m, usable)
  /\ deliveries' = [deliveries EXCEPT ![m] =
       [d \in Devices |-> IF d \in usable THEN [state |-> "Queued", wire |-> encrypted'[m][d]]
                          ELSE @[d]]]
  /\ UNCHANGED <<messages, next_delivery_sweep, transit, applied, receipts, endpoint, now>>

-----------------------------------------------------------------------------
(* flush: one due row is offered to the ranked links.                      *)

\* base << exponent, for the exponents the two delays below use.
ShiftedLeft(base, e) == base * <<1, 2, 4, 8, 16, 32, 64, 128>>[e + 1]

RetryDelay(attempts) ==
  LET e == Least(Most(attempts - 1, 0), 7)
      delay == Least(ShiftedLeft(RETRY_BASE_SECS, e), RETRY_CAP_SECS)
  IN  IF attempts >= PASSIVE_AFTER_ATTEMPTS THEN Most(delay, PASSIVE_RETRY_MIN_SECS)
      ELSE delay

CapacityRetryDelay(attempts) ==
  LET e == Least(Most(attempts - 1, 0), 5)
  IN  Least(ShiftedLeft(CAPACITY_RETRY_BASE_SECS, e), CAPACITY_RETRY_CAP_SECS)

\* Mutant: the counter does not saturate.
OneMoreWraps(attempts) == attempts + 1

OneMore(attempts) == Least(attempts + 1, MaxAttempts)
AfterHandoff(attempts) ==
  IF attempts < PASSIVE_AFTER_ATTEMPTS THEN PASSIVE_AFTER_ATTEMPTS ELSE OneMore(attempts)

Rescheduled(q, attempts, delay) ==
  [q EXCEPT !.attempts = attempts, !.next_attempt_at = Least(now + delay, MaxTime)]

Due(q) == q \in queue /\ now >= q.next_attempt_at

\* Mutant: the handoff is taken for the delivery.
MarkSentDelivered(s) == IF s = "Queued" THEN "Delivered" ELSE s

\* prepare_mark_sent touches only what is Queued.
MarkSent(s) == IF s = "Queued" THEN "Sent" ELSE s

\* A handoff is "Sent", not delivery: the row stays and is retried passively.
HandedOff(q) ==
  /\ Due(q)
  /\ transit' = transit \cup {CopyOf(q)}
  /\ deliveries' = [deliveries EXCEPT ![q.msg][q.dev].state = MarkSent(@)]
  /\ messages' = [messages EXCEPT ![q.msg].state = MarkSent(@)]
  /\ LET a == AfterHandoff(q.attempts)
     IN  queue' = (queue \ {q}) \cup {Rescheduled(q, a, RetryDelay(a))}
  /\ UNCHANGED <<encrypted, next_delivery_sweep, applied, receipts, endpoint, now>>

\* No link took it in time: one refused for capacity, or all failed.  A link that
\* failed or was cut off by the deadline may have let the copy out all the same.
\* (A copy held for a faster link is not attempted and nothing changes.)
NotHandedOff(q, refused) ==
  /\ Due(q)
  /\ LET a == OneMore(q.attempts)
         delay == IF refused THEN CapacityRetryDelay(a) ELSE RetryDelay(a)
     IN  queue' = (queue \ {q}) \cup {Rescheduled(q, a, delay)}
  /\ transit' \in {transit, transit \cup {CopyOf(q)}}
  /\ UNCHANGED <<messages, deliveries, encrypted, next_delivery_sweep, applied, receipts,
                 endpoint, now>>

-----------------------------------------------------------------------------
(* The other end, and the receipts that come back.                         *)

\* A device records a copy and acknowledges it (module InboundCustody).
PeerRecords(c) ==
  /\ c \in transit
  /\ applied' = applied \cup {c}
  /\ receipts' = receipts \cup {c}
  /\ UNCHANGED <<messages, deliveries, queue, encrypted, next_delivery_sweep, transit,
                 endpoint, now>>

\* The receipt names the copy the delivery record names.
Acked(c) ==
  /\ deliveries[c.msg][c.dev].wire = c.wire
  /\ deliveries[c.msg][c.dev].state # "Delivered"

\* prepare_receipt and its ReceiptReceive commit; the session that opens the
\* receipt went with a device that was dropped.
ReceiveReceipt(c) ==
  /\ c \in receipts /\ c.dev \in Known
  /\ queue' = {q \in queue : CopyOf(q) # c}
  /\ deliveries' = IF Acked(c)
                   THEN [deliveries EXCEPT ![c.msg][c.dev].state = "Delivered"] ELSE deliveries
  /\ messages' = IF Acked(c) THEN [messages EXCEPT ![c.msg].state = "Delivered"] ELSE messages
  /\ UNCHANGED <<encrypted, next_delivery_sweep, transit, applied, receipts, endpoint, now>>

-----------------------------------------------------------------------------
(* A handshake of device d brings the account's device list and may replace *)
(* our session with d (one that has sent nothing goes without effect here). *)

\* Mutant: what the old session already handed off stays Sent.
TakenBackQueuedOnly(m, d) ==
  /\ deliveries[m][d].state = "Queued"
  /\ deliveries[m][d].wire # 0

\* Undelivered copies of the old session are taken back.
TakenBack(m, d) ==
  /\ deliveries[m][d].state \in {"Queued", "Sent"}
  /\ ~AwaitsRoute(m, d)

\* The state a message shows, from those of its copies.
Summary(byDevice) ==
  LET some(s) == \E d \in Devices : byDevice[d].state = s
  IN  IF some("Delivered") THEN "Delivered" ELSE IF some("Sent") THEN "Sent"
      ELSE IF some("Queued") THEN "Queued" ELSE "Failed"

\* The commit of consume_handshake: the rows of the devices the list revokes or
\* leaves out (gone) are deleted, but not their delivery records, which stay
\* open; so are those of a session that is replaced, whose copies are taken
\* back.  Too many of either and the handshake waits (Consumed::Later).
ConsumeHandshake(d, replacing, gone) ==
  LET reset(m) == [deliveries[m] EXCEPT ![d] = [state |-> "Queued", wire |-> 0]]
      back == {m \in Messages : replacing /\ TakenBack(m, d)}
      rows == {q \in queue : q.dev \in gone \/ (replacing /\ q.dev = d)}
  IN  /\ d \in Known /\ d \notin gone
      /\ back # {} \/ rows # {} \/ gone \cap Known # {}
      /\ Cardinality(rows) <= MAX_COMMIT_QUEUE_ROWS
      /\ Cardinality(back) <= MAX_COMMIT_QUEUE_ROWS
      /\ queue' = queue \ rows
      /\ deliveries' = [m \in Messages |-> IF m \in back THEN reset(m) ELSE deliveries[m]]
      /\ messages' = [m \in Messages |->
           IF m \in back THEN [messages[m] EXCEPT !.state = Summary(reset(m))] ELSE messages[m]]
      /\ endpoint' = [e \in Devices |-> IF e \in gone THEN "dropped" ELSE endpoint[e]]
      /\ UNCHANGED <<encrypted, next_delivery_sweep, transit, applied, receipts, now>>

-----------------------------------------------------------------------------
(* A scanned bundle brings the list too (apply_contact_device_manifest).   *)
(* The rows of the devices that go are retired first, a page at a time;    *)
(* until the list is stored the process may stop, and the devices stay.    *)

RetireQueuePage(gone, rows) ==
  LET candidates == {q \in queue : q.dev \in gone}
  IN  /\ gone # Devices
      /\ rows # {} /\ rows \subseteq candidates
      /\ rows = candidates \/ Cardinality(rows) = MAX_MAINTENANCE_TRANSITIONS
      /\ Cardinality(rows) <= MAX_MAINTENANCE_TRANSITIONS
      /\ queue' = queue \ rows
      /\ endpoint' = [d \in Devices |-> IF d \in gone \cap Known THEN "retiring" ELSE endpoint[d]]
      /\ UNCHANGED <<messages, deliveries, encrypted, next_delivery_sweep, transit, applied,
                     receipts, now>>

StoreDeviceList(gone) ==
  /\ gone # Devices /\ gone \cap Known # {}
  /\ \A q \in queue : q.dev \notin gone
  /\ endpoint' = [d \in Devices |-> IF d \in gone THEN "dropped" ELSE endpoint[d]]
  /\ UNCHANGED <<messages, deliveries, queue, encrypted, next_delivery_sweep, transit,
                 applied, receipts, now>>

-----------------------------------------------------------------------------
(* sweep_failed_deliveries                                                 *)

Old(m) == messages[m].state # "none" /\ messages[m].timestamp + DELIVERY_EXPIRY_SECS <= now

\* The first few old messages of the history, whatever their state.
Selected ==
  {m \in Messages : /\ Old(m)
                    /\ Cardinality({k \in Messages : k < m /\ Old(k)})
                         < MAX_MAINTENANCE_MESSAGES_PER_TICK}

\* Mutant: a delivered copy is given up as well.
GivenUpAlways(s) == IF s = "none" THEN s ELSE "Failed"

GivenUp(s) == IF s \in {"Queued", "Sent"} THEN "Failed" ELSE s

\* Which of the selected rows come first is the row order; any choice is allowed here.
Sweep(rows) ==
  /\ now >= next_delivery_sweep
  /\ LET candidates == {q \in queue : q.msg \in Selected}
     IN  /\ rows \subseteq candidates
         /\ \/ rows = candidates /\ Cardinality(rows) <= MAX_MAINTENANCE_QUEUE_ROWS_PER_TICK
            \/ /\ Cardinality(candidates) > MAX_MAINTENANCE_QUEUE_ROWS_PER_TICK
               /\ Cardinality(rows) = MAX_MAINTENANCE_QUEUE_ROWS_PER_TICK
  /\ queue' = queue \ rows
  /\ deliveries' = [m \in Messages |->
       IF m \in Selected
       THEN [d \in Devices |-> [deliveries[m][d] EXCEPT !.state = GivenUp(@)]]
       ELSE deliveries[m]]
  /\ messages' = [m \in Messages |->
       IF m \in Selected /\ ~ \E d \in Devices : deliveries[m][d].state = "Delivered"
       THEN [messages[m] EXCEPT !.state = GivenUp(@)] ELSE messages[m]]
  /\ next_delivery_sweep' = Least(now + DELIVERY_SWEEP_INTERVAL_SECS, MaxTime)
  /\ UNCHANGED <<encrypted, transit, applied, receipts, endpoint, now>>

\* The schedule of the sweep is memory; everything else is the store.
Restart ==
  /\ next_delivery_sweep' = 0
  /\ UNCHANGED <<messages, deliveries, queue, encrypted, transit, applied, receipts,
                 endpoint, now>>

ClockAdvances ==
  /\ now < MaxTime /\ now' = now + 1
  /\ UNCHANGED <<messages, deliveries, queue, encrypted, next_delivery_sweep,
                 transit, applied, receipts, endpoint>>

Next ==
  \/ \E m \in Messages, D \in SUBSET Devices : Send(m, D) \/ MaterializePending(m, D)
  \/ \E q \in queue : HandedOff(q) \/ \E refused \in BOOLEAN : NotHandedOff(q, refused)
  \/ \E c \in transit : PeerRecords(c) \/ ReceiveReceipt(c)
  \/ \E d \in Devices, replacing \in BOOLEAN, gone \in SUBSET Devices :
       ConsumeHandshake(d, replacing, gone)
  \/ \E gone \in SUBSET Devices :
       StoreDeviceList(gone) \/ \E rows \in SUBSET queue : RetireQueuePage(gone, rows)
  \/ \E rows \in SUBSET queue : Sweep(rows)
  \/ Restart
  \/ ClockAdvances

Spec == Init /\ [][Next]_vars

\* Time passes and ticks go on; nothing is assumed of links, peers or users.
Fairness == WF_vars(ClockAdvances) /\ WF_vars(\E rows \in SUBSET queue : Sweep(rows))
TickingSpec == Spec /\ Fairness

-----------------------------------------------------------------------------
(* Properties.                                                             *)

CopyRecord == [msg : Messages, dev : Devices, wire : 1..MaxWire]

\* The tables hold what their columns may hold, and content ids are numbers
\* that were really used.
TypeOK ==
  /\ messages \in [Messages -> [state : States, timestamp : 0..MaxTime]]
  /\ deliveries \in [Messages -> [Devices -> [state : States, wire : 0..MaxWire]]]
  /\ encrypted \in [Messages -> [Devices -> 0..MaxWire]]
  /\ queue \subseteq [msg : Messages, dev : Devices, wire : 1..MaxWire,
                      attempts : 0..MaxAttempts, next_attempt_at : 0..MaxTime]
  /\ transit \subseteq CopyRecord /\ applied \subseteq transit /\ receipts \subseteq applied
  /\ endpoint \in [Devices -> Endpoints]
  /\ now \in 0..MaxTime /\ next_delivery_sweep \in 0..MaxTime
  /\ \A q \in queue : q.wire <= encrypted[q.msg][q.dev]
  /\ \A c \in transit : c.wire <= encrypted[c.msg][c.dev]

\* No copy is stranded: a copy for a listed device that still waits for its
\* receipt is in the queue under its current content id, so it will be retried,
\* however often its session was replaced.  (The copies of a device that the
\* account drops are stranded: their rows go, and their records stay open until
\* the sweep.)
NothingStranded ==
  \A m \in Messages, d \in Devices :
    LET x == deliveries[m][d] IN
      /\ endpoint[d] = "active" /\ x.state \in {"Queued", "Sent"} /\ x.wire # 0
           => \E q \in queue : CopyOf(q) = Copy(m, d, x.wire)
      /\ x.state = "Sent" => x.wire # 0

\* A device is offered at most one copy of a message at a time, the one its
\* delivery record names, and none that it has acknowledged; a device that the
\* account has dropped is offered nothing.
RowsAreCurrent ==
  /\ \A q, r \in queue : q.msg = r.msg /\ q.dev = r.dev => q = r
  /\ \A q \in queue : /\ deliveries[q.msg][q.dev].wire = q.wire
                      /\ deliveries[q.msg][q.dev].state \in {"Queued", "Sent", "Failed"}
                      /\ q.dev \in Known

\* What a message shows always follows from its copies, though five different
\* handlers update the two tables.
MessageSummarises ==
  \A m \in Messages :
    messages[m].state # "none" => messages[m].state = Summary(deliveries[m])

\* A copy counts as delivered only when that device recorded that very copy.
DeliveredIsRecorded ==
  \A m \in Messages, d \in Devices :
    deliveries[m][d].state = "Delivered" => Copy(m, d, deliveries[m][d].wire) \in applied

\* Queue, delivery records and the peer's history agree about every copy: an open
\* one for a listed device is in the queue, what is in the queue is the current
\* one and for a listed device, and a delivered one was recorded, through
\* time-outs, late receipts, replaced sessions, dropped devices and sweeps (flush,
\* prepare_receipt, consume_handshake, apply_contact_device_manifest).
CopiesTracked == NothingStranded /\ RowsAreCurrent /\ DeliveredIsRecorded

\* A message is given up only when its time is over, and from then on only a
\* receipt can change it; a delivered one never changes.
TerminalIsFinal ==
  [][\A m \in Messages :
       /\ messages[m].state = "Delivered" => messages'[m].state = "Delivered"
       /\ messages[m].state = "Failed" => messages'[m].state \in Terminal
       /\ messages[m].state # "Failed" /\ messages'[m].state = "Failed"
            => messages[m].timestamp + DELIVERY_EXPIRY_SECS <= now]_vars

\* No row waits longer than the cap of the back-off, so a peer that comes back
\* is tried again within it.
RetryWithinCap ==
  \A q \in queue :
    q.next_attempt_at <= now + Most(Most(RETRY_CAP_SECS, PASSIVE_RETRY_MIN_SECS),
                                    CAPACITY_RETRY_CAP_SECS)

\* The messages that no sweep passes over, however long the history grows.
WithinSweepLimit ==
  {m \in Messages : Cardinality({k \in Messages : k < m}) < MAX_MAINTENANCE_MESSAGES_PER_TICK}

\* A message that the sweeps can reach ends in a terminal state, whatever links,
\* peers and restarts do and however many later ones there are, and the copies of
\* one that was given up leave the queue, though a sweep may have room for only
\* some of the rows of the messages it selects (sweep_failed_deliveries).
ReachedMessagesSettle ==
  \A m \in WithinSweepLimit :
    /\ messages[m].state \in {"Queued", "Sent"} ~> messages[m].state \in Terminal
    /\ messages[m].state = "Failed" ~> \A q \in queue : q.msg # m

\* "(`Queued` -> `Sent` -> `Delivered`, or `Failed` after 30 days)" (api.rs,
\* Event::DeliveryUpdated): every message ends in a terminal state.  The sweep
\* counts old messages that are settled already, so it does not.
EveryMessageSettles ==
  \A m \in Messages :
    messages[m].state \in {"Queued", "Sent"} ~> messages[m].state \in Terminal

Lifecycle == INSTANCE MessageLifecycle
  WITH status <- [m \in Messages |-> messages[m].state],
       peerHas <- {m \in Messages : \E c \in applied : c.msg = m}

\* The engine implements the lifecycle it documents.
ImplementsLifecycle == Lifecycle!Spec
=============================================================================
