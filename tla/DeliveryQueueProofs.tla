------------------------- MODULE DeliveryQueueProofs -------------------------
(***************************************************************************)
(* Proofs about DeliveryQueue, for any number of messages and devices and  *)
(* any value of the delivery constants.                                    *)
(***************************************************************************)
EXTENDS DeliveryQueue, TLAPS

\* Copies are only in the tables with their message, and only messages of the
\* history were ever encrypted.  (A device that was dropped before has no copy.)
HistoryTogether ==
  \A m \in Messages, d \in Devices :
    /\ messages[m].state = "none" => deliveries[m][d].state = "none"
    /\ deliveries[m][d].state = "none" => deliveries[m][d].wire = 0
    /\ encrypted[m][d] > 0 => messages[m].state # "none"

\* The sweep gives up all open copies of a message at once, so a message with
\* a failed copy has no open one.
GivenUpTogether ==
  \A m \in Messages : \A d, e \in Devices :
    deliveries[m][d].state = "Failed" => deliveries[m][e].state \in Terminal \cup {"none"}

IInv == /\ TypeOK /\ HistoryTogether /\ GivenUpTogether
        /\ NothingStranded /\ RowsAreCurrent /\ MessageSummarises /\ DeliveredIsRecorded

-----------------------------------------------------------------------------
(* Delays.                                                                 *)

LEMMA ShiftIsNat == ASSUME NEW b \in Nat, NEW e \in 0..7 PROVE ShiftedLeft(b, e) \in Nat
<1> DEFINE t == <<1, 2, 4, 8, 16, 32, 64, 128>>
<1>1. t[e + 1] \in Nat
  OBVIOUS
<1>2. \A x \in Nat : b * x \in Nat
  OBVIOUS
<1> QED
  BY <1>1, <1>2 DEF ShiftedLeft

\* The delay before the next attempt never exceeds the cap, or the passive
\* minimum where that is larger.
LEMMA RetryDelayBounded ==
  ASSUME NEW a \in Nat
  PROVE  /\ RetryDelay(a) \in Nat
         /\ RetryDelay(a) <= Most(RETRY_CAP_SECS, PASSIVE_RETRY_MIN_SECS)
<1> DEFINE e == Least(Most(a - 1, 0), 7)
<1>1. e \in 0..7
  BY DEF Least, Most
<1>2. ShiftedLeft(RETRY_BASE_SECS, e) \in Nat
  BY <1>1, ShiftIsNat, DeliveryConstants
<1> HIDE DEF e
<1> QED
  BY <1>2, DeliveryConstants DEF RetryDelay, Least, Most, e

LEMMA CapacityDelayBounded ==
  ASSUME NEW a \in Nat
  PROVE  /\ CapacityRetryDelay(a) \in Nat
         /\ CapacityRetryDelay(a) <= CAPACITY_RETRY_CAP_SECS
<1> DEFINE e == Least(Most(a - 1, 0), 5)
<1>1. e \in 0..7
  BY DEF Least, Most
<1>2. ShiftedLeft(CAPACITY_RETRY_BASE_SECS, e) \in Nat
  BY <1>1, ShiftIsNat, DeliveryConstants
<1> HIDE DEF e
<1> QED
  BY <1>2, DeliveryConstants DEF CapacityRetryDelay, Least, e

LEMMA AttemptsStayInRange ==
  ASSUME NEW a \in 0..MaxAttempts
  PROVE  OneMore(a) \in 0..MaxAttempts /\ AfterHandoff(a) \in 0..MaxAttempts
  BY DeliveryConstants DEF OneMore, AfterHandoff, Least

-----------------------------------------------------------------------------
(* The inductive invariant.                                                *)

\* The summary depends only on the states of the copies.
LEMMA SummaryOfStates ==
  ASSUME NEW f, NEW g, \A d \in Devices : f[d].state = g[d].state
  PROVE  Summary(f) = Summary(g)
  BY DEF Summary

LEMMA IInvInit == Init => IInv
<1> SUFFICES ASSUME Init PROVE IInv
  OBVIOUS
<1> USE DeliveryConstants DEF Init
<1>1. TypeOK
  BY DEF TypeOK, States, CopyRecord, Endpoints
<1>2. HistoryTogether /\ GivenUpTogether /\ NothingStranded /\ RowsAreCurrent
  BY DEF HistoryTogether, GivenUpTogether, NothingStranded, RowsAreCurrent, CopyOf, Copy
<1>3. MessageSummarises /\ DeliveredIsRecorded
  BY DEF MessageSummarises, DeliveredIsRecorded
<1> QED
  BY <1>1, <1>2, <1>3 DEF IInv

\* Encrypting only adds: numbers grow, and the new rows carry numbers in use.
LEMMA EncryptTyped ==
  ASSUME TypeOK, NEW m \in Messages, NEW D \in SUBSET Devices, Encrypt(m, D)
  PROVE  /\ encrypted' \in [Messages -> [Devices -> 0..MaxWire]]
         /\ \A k \in Messages, d \in Devices : encrypted[k][d] <= encrypted'[k][d]
         /\ \A q \in queue' :
              /\ q \in [msg : Messages, dev : Devices, wire : 1..MaxWire,
                       attempts : 0..MaxAttempts, next_attempt_at : 0..MaxTime]
              /\ q.wire <= encrypted'[q.msg][q.dev]
<1> USE DeliveryConstants
<1>1. encrypted' \in [Messages -> [Devices -> 0..MaxWire]]
  BY DEF TypeOK, Encrypt
<1>2. ASSUME NEW k \in Messages, NEW d \in Devices PROVE encrypted[k][d] <= encrypted'[k][d]
  <2>1. encrypted[k][d] \in 0..MaxWire /\ encrypted[m][d] \in 0..MaxWire
    BY DEF TypeOK
  <2>2. encrypted'[k][d] \in {encrypted[k][d], encrypted[k][d] + 1}
    BY <2>1 DEF TypeOK, Encrypt
  <2> QED
    BY <2>1, <2>2
<1>3. \A q \in queue' :
        /\ q \in [msg : Messages, dev : Devices, wire : 1..MaxWire,
                   attempts : 0..MaxAttempts, next_attempt_at : 0..MaxTime]
        /\ q.wire <= encrypted'[q.msg][q.dev]
  BY <1>1, <1>2 DEF TypeOK, Encrypt, NewRow
<1> QED
  BY <1>1, <1>2, <1>3

LEMMA SendStep ==
  ASSUME IInv, NEW m \in Messages, NEW D \in SUBSET Devices, Send(m, D)
  PROVE  IInv'
<1> USE DeliveryConstants DEF IInv, Send, Encrypt, NewRow
<1>1. \A d \in Devices : encrypted[m][d] = 0 \/ messages[m].state # "none"
  BY DEF TypeOK, HistoryTogether
<1>2. TypeOK'
  <2>1. /\ encrypted' \in [Messages -> [Devices -> 0..MaxWire]]
        /\ \A k \in Messages, d \in Devices : encrypted[k][d] <= encrypted'[k][d]
        /\ \A q \in queue' :
             /\ q \in [msg : Messages, dev : Devices, wire : 1..MaxWire,
                      attempts : 0..MaxAttempts, next_attempt_at : 0..MaxTime]
             /\ q.wire <= encrypted'[q.msg][q.dev]
    BY EncryptTyped
  <2>2. deliveries' \in [Messages -> [Devices -> [state : States, wire : 0..MaxWire]]]
    BY <2>1 DEF TypeOK, States
  <2>3. \A c \in transit' : c.wire <= encrypted'[c.msg][c.dev]
    BY <2>1 DEF TypeOK, CopyRecord
  <2>4. messages' \in [Messages -> [state : States, timestamp : 0..MaxTime]]
    BY DEF TypeOK, States
  <2> QED
    BY <2>1, <2>2, <2>3, <2>4 DEF TypeOK
<1>3. HistoryTogether'
  BY DEF TypeOK, HistoryTogether
<1>4. GivenUpTogether'
  BY DEF TypeOK, GivenUpTogether
<1>5. NothingStranded'
  <2> SUFFICES ASSUME NEW k \in Messages, NEW d \in Devices
               PROVE  LET x == deliveries'[k][d] IN
                        /\ endpoint'[d] = "active" /\ x.state \in {"Queued", "Sent"} /\ x.wire # 0
                             => \E q \in queue' : CopyOf(q) = Copy(k, d, x.wire)
                        /\ x.state = "Sent" => x.wire # 0
    BY DEF NothingStranded
  <2>1. CASE k = m /\ d \in D
    <3>1. NewRow(m, d, encrypted[m][d] + 1) \in queue'
      BY <2>1
    <3>2. deliveries'[k][d].state = "Queued" /\ deliveries'[k][d].wire = encrypted[m][d] + 1
      BY <2>1 DEF TypeOK
    <3> QED
      BY <2>1, <3>1, <3>2 DEF CopyOf, Copy
  <2>2. CASE ~(k = m /\ d \in D)
    BY <2>2 DEF TypeOK, NothingStranded
  <2> QED
    BY <2>1, <2>2
<1>6. RowsAreCurrent'
  BY DEF TypeOK, RowsAreCurrent, HistoryTogether, Known
<1>7. MessageSummarises'
  BY DEF TypeOK, MessageSummarises, Summary
<1>8. DeliveredIsRecorded'
  BY DEF TypeOK, DeliveredIsRecorded, Copy
<1> QED
  BY <1>2, <1>3, <1>4, <1>5, <1>6, <1>7, <1>8

LEMMA MaterializeStep ==
  ASSUME IInv, NEW m \in Messages, NEW D \in SUBSET Devices, MaterializePending(m, D)
  PROVE  IInv'
<1> USE DeliveryConstants DEF IInv, MaterializePending, Encrypt, NewRow, AwaitsRoute
<1>2. TypeOK'
  <2>1. /\ encrypted' \in [Messages -> [Devices -> 0..MaxWire]]
        /\ \A k \in Messages, d \in Devices : encrypted[k][d] <= encrypted'[k][d]
        /\ \A q \in queue' :
             /\ q \in [msg : Messages, dev : Devices, wire : 1..MaxWire,
                      attempts : 0..MaxAttempts, next_attempt_at : 0..MaxTime]
             /\ q.wire <= encrypted'[q.msg][q.dev]
    BY EncryptTyped
  <2>2. deliveries' \in [Messages -> [Devices -> [state : States, wire : 0..MaxWire]]]
    BY <2>1 DEF TypeOK, States
  <2>3. \A c \in transit' : c.wire <= encrypted'[c.msg][c.dev]
    BY <2>1 DEF TypeOK, CopyRecord
  <2>4. messages' \in [Messages -> [state : States, timestamp : 0..MaxTime]]
    BY DEF TypeOK, States
  <2> QED
    BY <2>1, <2>2, <2>3, <2>4 DEF TypeOK
<1>3. HistoryTogether'
  BY DEF TypeOK, HistoryTogether
<1>4. GivenUpTogether'
  BY DEF TypeOK, GivenUpTogether
<1>5. NothingStranded'
  <2> SUFFICES ASSUME NEW k \in Messages, NEW d \in Devices
               PROVE  LET x == deliveries'[k][d] IN
                        /\ endpoint'[d] = "active" /\ x.state \in {"Queued", "Sent"} /\ x.wire # 0
                             => \E q \in queue' : CopyOf(q) = Copy(k, d, x.wire)
                        /\ x.state = "Sent" => x.wire # 0
    BY DEF NothingStranded
  <2>1. CASE k = m /\ d \in D
    <3>1. NewRow(m, d, encrypted[m][d] + 1) \in queue'
      BY <2>1
    <3>2. deliveries'[k][d].state = "Queued" /\ deliveries'[k][d].wire = encrypted[m][d] + 1
      BY <2>1 DEF TypeOK
    <3> QED
      BY <2>1, <3>1, <3>2 DEF CopyOf, Copy
  <2>2. CASE ~(k = m /\ d \in D)
    BY <2>2 DEF TypeOK, NothingStranded
  <2> QED
    BY <2>1, <2>2
<1>6. RowsAreCurrent'
  BY DEF TypeOK, RowsAreCurrent, Known
<1>7. MessageSummarises'
  BY DEF TypeOK, MessageSummarises, Summary
<1>8. DeliveredIsRecorded'
  BY DEF TypeOK, DeliveredIsRecorded, Copy
<1> QED
  BY <1>2, <1>3, <1>4, <1>5, <1>6, <1>7, <1>8
\* A rescheduled row is the same copy, later.
LEMMA RescheduledTyped ==
  ASSUME TypeOK, NEW q \in queue, NEW a \in 0..MaxAttempts, NEW delay \in Nat
  PROVE  LET r == Rescheduled(q, a, delay) IN
           /\ r \in [msg : Messages, dev : Devices, wire : 1..MaxWire,
                    attempts : 0..MaxAttempts, next_attempt_at : 0..MaxTime]
           /\ r.msg = q.msg /\ r.dev = q.dev /\ r.wire = q.wire
           /\ r.next_attempt_at <= now + delay
<1>1. /\ q \in [msg : Messages, dev : Devices, wire : 1..MaxWire,
               attempts : 0..MaxAttempts, next_attempt_at : 0..MaxTime]
      /\ now \in 0..MaxTime
  BY DEF TypeOK
<1>2. Least(now + delay, MaxTime) \in 0..MaxTime /\ Least(now + delay, MaxTime) <= now + delay
  BY <1>1, DeliveryConstants DEF Least
<1> QED
  BY <1>1, <1>2 DEF Rescheduled

\* What both outcomes of an attempt do to the table: one row is replaced by a
\* later one for the same copy.
RowMoved ==
  /\ queue' \subseteq [msg : Messages, dev : Devices, wire : 1..MaxWire,
                      attempts : 0..MaxAttempts, next_attempt_at : 0..MaxTime]
  /\ \A r \in queue' : \E o \in queue : r.msg = o.msg /\ r.dev = o.dev /\ r.wire = o.wire
  /\ \A o \in queue : \E r \in queue' : r.msg = o.msg /\ r.dev = o.dev /\ r.wire = o.wire
  /\ \A r, s \in queue' : r # s => \E o, p \in queue :
       /\ o # p
       /\ r.msg = o.msg /\ r.dev = o.dev
       /\ s.msg = p.msg /\ s.dev = p.dev

LEMMA AttemptedRow ==
  ASSUME TypeOK, NEW q \in queue,
         (\E a \in 0..MaxAttempts, delay \in Nat :
            queue' = (queue \ {q}) \cup {Rescheduled(q, a, delay)})
  PROVE  RowMoved
<1>1. PICK a \in 0..MaxAttempts, delay \in Nat :
         queue' = (queue \ {q}) \cup {Rescheduled(q, a, delay)}
  OBVIOUS
<1> DEFINE new == Rescheduled(q, a, delay)
<1>2. /\ new \in [msg : Messages, dev : Devices, wire : 1..MaxWire,
                 attempts : 0..MaxAttempts, next_attempt_at : 0..MaxTime]
      /\ new.msg = q.msg /\ new.dev = q.dev /\ new.wire = q.wire
  BY RescheduledTyped
<1> HIDE DEF new
<1>3. queue' = (queue \ {q}) \cup {new}
  BY <1>1 DEF new
<1> QED
  BY <1>2, <1>3 DEF TypeOK, RowMoved

\* The delivery table with one state replaced.
WithState(x, y, s) == [deliveries EXCEPT ![x][y].state = s]

\* What an update of one delivery's state changes, element by element.
LEMMA OneStateUpdated ==
  ASSUME NEW s \in States, NEW x \in Messages, NEW y \in Devices,
         deliveries \in [Messages -> [Devices -> [state : States, wire : 0..MaxWire]]],
         deliveries' = WithState(x, y, s)
  PROVE  /\ deliveries' \in [Messages -> [Devices -> [state : States, wire : 0..MaxWire]]]
         /\ \A k \in Messages, d \in Devices :
              /\ deliveries'[k][d].wire = deliveries[k][d].wire
              /\ deliveries'[k][d].state = IF k = x /\ d = y THEN s ELSE deliveries[k][d].state
<1>1. /\ deliveries[x] \in [Devices -> [state : States, wire : 0..MaxWire]]
      /\ deliveries[x][y] \in [state : States, wire : 0..MaxWire]
  OBVIOUS
<1> DEFINE r == [deliveries[x][y] EXCEPT !.state = s]
<1>3. r \in [state : States, wire : 0..MaxWire] /\ r.state = s /\ r.wire = deliveries[x][y].wire
  BY <1>1
<1>4. deliveries' = [deliveries EXCEPT ![x] = [deliveries[x] EXCEPT ![y] = r]]
  BY DEF WithState
<1> HIDE DEF r
<1>5. deliveries' \in [Messages -> [Devices -> [state : States, wire : 0..MaxWire]]]
  BY <1>1, <1>3, <1>4
<1>6. ASSUME NEW k \in Messages, NEW d \in Devices
      PROVE  deliveries'[k][d] = IF k = x /\ d = y THEN r ELSE deliveries[k][d]
  BY <1>1, <1>4
<1> QED
  BY <1>3, <1>5, <1>6

LEMMA HandedOffStep ==
  ASSUME IInv, NEW q \in queue, HandedOff(q)
  PROVE  IInv'
<1> USE DeliveryConstants DEF IInv
<1>q. q \in [msg : Messages, dev : Devices, wire : 1..MaxWire,
            attempts : 0..MaxAttempts, next_attempt_at : 0..MaxTime]
  BY DEF TypeOK
<1>1. \E a \in 0..MaxAttempts, delay \in Nat :
         queue' = (queue \ {q}) \cup {Rescheduled(q, a, delay)}
  <2>1. AfterHandoff(q.attempts) \in 0..MaxAttempts
    BY <1>q, AttemptsStayInRange
  <2>2. RetryDelay(AfterHandoff(q.attempts)) \in Nat
    BY <2>1, RetryDelayBounded
  <2> QED
    BY <2>1, <2>2 DEF HandedOff
<1>2. RowMoved
  BY <1>1, AttemptedRow
<1>3. /\ transit' = transit \cup {CopyOf(q)}
      /\ deliveries' = [deliveries EXCEPT ![q.msg][q.dev].state = MarkSent(@)]
      /\ messages' = [messages EXCEPT ![q.msg].state = MarkSent(@)]
      /\ UNCHANGED <<encrypted, next_delivery_sweep, applied, receipts, endpoint, now>>
  BY DEF HandedOff
<1>d. /\ deliveries' \in [Messages -> [Devices -> [state : States, wire : 0..MaxWire]]]
      /\ \A k \in Messages, d \in Devices :
           /\ deliveries'[k][d].wire = deliveries[k][d].wire
           /\ deliveries'[k][d].state = IF k = q.msg /\ d = q.dev
                                        THEN MarkSent(deliveries[k][d].state)
                                        ELSE deliveries[k][d].state
  <2>1. /\ q.msg \in Messages /\ q.dev \in Devices
        /\ deliveries \in [Messages -> [Devices -> [state : States, wire : 0..MaxWire]]]
    BY <1>q DEF TypeOK
  <2>2. MarkSent(deliveries[q.msg][q.dev].state) \in States
    BY <2>1 DEF States, MarkSent
  <2>3. PICK s \in States : s = MarkSent(deliveries[q.msg][q.dev].state)
    BY <2>2
  <2>4. deliveries' = WithState(q.msg, q.dev, s)
    BY <1>3, <2>3 DEF WithState
  <2>5. /\ deliveries' \in [Messages -> [Devices -> [state : States, wire : 0..MaxWire]]]
        /\ \A k \in Messages, d \in Devices :
             /\ deliveries'[k][d].wire = deliveries[k][d].wire
             /\ deliveries'[k][d].state = IF k = q.msg /\ d = q.dev THEN s
                                          ELSE deliveries[k][d].state
    BY ONLY <2>1, <2>4, OneStateUpdated, s \in States
  <2> QED
    BY <2>3, <2>5
<1>m. /\ messages' \in [Messages -> [state : States, timestamp : 0..MaxTime]]
      /\ \A k \in Messages :
           messages'[k].state = IF k = q.msg THEN MarkSent(messages[k].state)
                                ELSE messages[k].state
  <2>1. /\ messages \in [Messages -> [state : States, timestamp : 0..MaxTime]]
        /\ messages' = [messages EXCEPT ![q.msg].state = MarkSent(@)] /\ q.msg \in Messages
    BY <1>q, <1>3 DEF TypeOK
  <2>2. \A x \in States : MarkSent(x) \in States
    BY DEF States, MarkSent
  <2> QED
    BY ONLY <2>1, <2>2, SMTT(30)
<1>s. /\ \A k \in Messages, d \in Devices :
           /\ deliveries'[k][d].state = "none" <=> deliveries[k][d].state = "none"
           /\ deliveries'[k][d].state = "Delivered" <=> deliveries[k][d].state = "Delivered"
      /\ \A k \in Messages : messages'[k].state = "none" <=> messages[k].state = "none"
  BY ONLY <1>d, <1>m DEF MarkSent
<1>4. TypeOK'
  <2>1. \A r \in queue' : r.wire <= encrypted'[r.msg][r.dev]
    BY <1>2, <1>3 DEF TypeOK, RowMoved
  <2>2. transit' \subseteq CopyRecord /\ \A c \in transit' : c.wire <= encrypted'[c.msg][c.dev]
    BY <1>q, <1>3 DEF TypeOK, CopyRecord, CopyOf, Copy
  <2> QED
    BY <1>2, <1>3, <1>d, <1>m, <2>1, <2>2 DEF TypeOK, RowMoved
<1>5. HistoryTogether'
  <2>1. encrypted' = encrypted /\ HistoryTogether
    BY <1>3
  <2>2. \A k \in Messages, d \in Devices : deliveries'[k][d].wire = deliveries[k][d].wire
    BY <1>d
  <2> QED
    BY ONLY <1>s, <2>1, <2>2 DEF HistoryTogether
<1>6. GivenUpTogether'
  BY <1>d DEF GivenUpTogether, MarkSent, Terminal
<1>7. NothingStranded'
  <2> SUFFICES ASSUME NEW k \in Messages, NEW d \in Devices
               PROVE  LET x == deliveries'[k][d] IN
                        /\ endpoint'[d] = "active" /\ x.state \in {"Queued", "Sent"} /\ x.wire # 0
                             => \E r \in queue' : CopyOf(r) = Copy(k, d, x.wire)
                        /\ x.state = "Sent" => x.wire # 0
    BY DEF NothingStranded
  <2>1. deliveries'[k][d].state \in {"Queued", "Sent"}
          => deliveries[k][d].state \in {"Queued", "Sent"}
    BY <1>d, ZenonT(30) DEF MarkSent
  <2>2. k = q.msg /\ d = q.dev => deliveries[k][d].wire # 0
    BY <1>q DEF RowsAreCurrent
  <2>3. ASSUME NEW o \in queue, CopyOf(o) = Copy(k, d, deliveries[k][d].wire)
        PROVE  \E r \in queue' : CopyOf(r) = Copy(k, d, deliveries[k][d].wire)
    BY <1>2, <2>3 DEF RowMoved, CopyOf
  <2>4. deliveries'[k][d].state = "Sent" => deliveries'[k][d].wire # 0
    BY <1>d, <2>2 DEF NothingStranded, MarkSent
  <2>5. endpoint'[d] = "active" /\ deliveries[k][d].state \in {"Queued", "Sent"}
          /\ deliveries[k][d].wire # 0
          => \E o \in queue : CopyOf(o) = Copy(k, d, deliveries[k][d].wire)
    BY <1>3 DEF NothingStranded
  <2>6. deliveries'[k][d].wire = deliveries[k][d].wire
    BY <1>d
  <2> QED
    BY <2>1, <2>3, <2>4, <2>5, <2>6
<1>8. RowsAreCurrent'
  <2>1. \A r, s \in queue' : r.msg = s.msg /\ r.dev = s.dev => r = s
    BY <1>2 DEF RowMoved, RowsAreCurrent
  <2>2. ASSUME NEW r \in queue'
        PROVE  /\ deliveries'[r.msg][r.dev].wire = r.wire
               /\ deliveries'[r.msg][r.dev].state \in {"Queued", "Sent", "Failed"}
               /\ r.dev \in Known'
    <3>1. PICK o \in queue : r.msg = o.msg /\ r.dev = o.dev /\ r.wire = o.wire
      BY <1>2 DEF RowMoved
    <3>2. r.msg \in Messages /\ r.dev \in Devices
      BY <1>2 DEF RowMoved
    <3>3. /\ deliveries[r.msg][r.dev].wire = r.wire
          /\ deliveries[r.msg][r.dev].state \in {"Queued", "Sent", "Failed"}
          /\ r.dev \in Known
      BY <3>1 DEF RowsAreCurrent
    <3>4. Known' = Known
      BY <1>3 DEF Known
    <3> HIDE DEF IInv
    <3> QED
      BY <1>d, <3>2, <3>3, <3>4, ZenonT(30) DEF MarkSent
  <2> QED
    BY <2>1, <2>2 DEF RowsAreCurrent
<1>9. MessageSummarises'
  <2> SUFFICES ASSUME NEW k \in Messages, messages'[k].state # "none"
               PROVE  messages'[k].state = Summary(deliveries'[k])
    BY DEF MessageSummarises
  <2>1. messages[k].state = Summary(deliveries[k])
    BY <1>m DEF MessageSummarises, MarkSent
  <2>2. CASE k # q.msg
    <3>1. \A d \in Devices : deliveries'[k][d].state = deliveries[k][d].state
      BY <2>2, <1>d
    <3>2. messages'[k].state = messages[k].state
      BY <2>2, <1>m
    <3> QED
      BY ONLY <2>1, <3>1, <3>2 DEF Summary
  <2>3. CASE k = q.msg
    <3>1. deliveries[k][q.dev].state \in {"Queued", "Sent", "Failed"}
      BY <2>3, <1>q DEF RowsAreCurrent
    <3>2. deliveries[k][q.dev].state = "Failed"
            => \A d \in Devices : deliveries[k][d].state \in Terminal \cup {"none"}
      BY <1>q DEF GivenUpTogether
    <3>3. CASE deliveries[k][q.dev].state = "Queued"
      <4>1. deliveries'[k][q.dev].state = "Sent" /\ q.dev \in Devices
        BY <2>3, <3>3, <1>q, <1>d DEF MarkSent
      <4>2. \A d \in Devices : d # q.dev => deliveries'[k][d].state = deliveries[k][d].state
        BY <1>d
      <4> QED
        <5>1. messages'[k].state = MarkSent(Summary(deliveries[k]))
          BY <2>1, <2>3, <1>m
        <5> QED
          BY ONLY <3>3, <4>1, <4>2, <5>1 DEF Summary, MarkSent
    <3>4. CASE deliveries[k][q.dev].state # "Queued"
      <4>1. \A d \in Devices : deliveries'[k][d].state = deliveries[k][d].state
        BY <2>3, <3>4, <1>d DEF MarkSent
      <4>2. messages[k].state # "Queued"
        BY <2>1, <3>1, <3>2, <3>4, <1>q DEF Summary, Terminal
      <4> QED
        BY <2>1, <4>1, <4>2, <1>m DEF Summary, MarkSent
    <3> QED
      BY <3>3, <3>4
  <2> QED
    BY <2>2, <2>3
<1>10. DeliveredIsRecorded'
  <2>1. applied' = applied /\ DeliveredIsRecorded
    BY <1>3
  <2>2. \A k \in Messages, d \in Devices : deliveries'[k][d].wire = deliveries[k][d].wire
    BY <1>d
  <2> QED
    BY ONLY <1>s, <2>1, <2>2 DEF DeliveredIsRecorded
<1> QED
  BY <1>4, <1>5, <1>6, <1>7, <1>8, <1>9, <1>10

LEMMA NotHandedOffStep ==
  ASSUME IInv, NEW q \in queue, NEW refused \in BOOLEAN, NotHandedOff(q, refused)
  PROVE  IInv'
<1> USE DeliveryConstants DEF IInv
<1>q. q \in [msg : Messages, dev : Devices, wire : 1..MaxWire,
            attempts : 0..MaxAttempts, next_attempt_at : 0..MaxTime]
  BY DEF TypeOK
<1>1. RowMoved
  <2>1. OneMore(q.attempts) \in 0..MaxAttempts
    BY <1>q, AttemptsStayInRange
  <2>2. /\ RetryDelay(OneMore(q.attempts)) \in Nat
        /\ CapacityRetryDelay(OneMore(q.attempts)) \in Nat
    BY <2>1, RetryDelayBounded, CapacityDelayBounded
  <2>3. \E a \in 0..MaxAttempts, delay \in Nat :
           queue' = (queue \ {q}) \cup {Rescheduled(q, a, delay)}
    BY <2>1, <2>2 DEF NotHandedOff
  <2> QED
    BY <2>3, AttemptedRow
<1>2. /\ transit' \in {transit, transit \cup {CopyOf(q)}}
      /\ UNCHANGED <<messages, deliveries, encrypted, next_delivery_sweep,
                     applied, receipts, endpoint, now>>
  BY DEF NotHandedOff
<1>3. TypeOK'
  <2>1. \A r \in queue' : r.wire <= encrypted'[r.msg][r.dev]
    BY <1>1, <1>2 DEF TypeOK, RowMoved
  <2>2. transit' \subseteq CopyRecord /\ \A c \in transit' : c.wire <= encrypted'[c.msg][c.dev]
    BY <1>q, <1>2 DEF TypeOK, CopyRecord, CopyOf, Copy
  <2> QED
    BY <1>1, <1>2, <2>1, <2>2 DEF TypeOK, RowMoved
<1>4. HistoryTogether' /\ GivenUpTogether' /\ MessageSummarises' /\ DeliveredIsRecorded'
  BY <1>2 DEF HistoryTogether, GivenUpTogether, MessageSummarises, Summary, DeliveredIsRecorded
<1>5. NothingStranded'
  <2> SUFFICES ASSUME NEW k \in Messages, NEW d \in Devices
               PROVE  LET x == deliveries[k][d] IN
                        /\ endpoint'[d] = "active" /\ x.state \in {"Queued", "Sent"} /\ x.wire # 0
                             => \E r \in queue' : CopyOf(r) = Copy(k, d, x.wire)
                        /\ x.state = "Sent" => x.wire # 0
    BY <1>2 DEF NothingStranded
  <2>1. ASSUME NEW o \in queue, CopyOf(o) = Copy(k, d, deliveries[k][d].wire)
        PROVE  \E r \in queue' : CopyOf(r) = Copy(k, d, deliveries[k][d].wire)
    BY <1>1, <2>1 DEF RowMoved, CopyOf
  <2> QED
    BY <1>2, <2>1 DEF NothingStranded
<1>6. RowsAreCurrent'
  BY <1>1, <1>2 DEF RowMoved, RowsAreCurrent, Known
<1> QED
  BY <1>3, <1>4, <1>5, <1>6

LEMMA PeerRecordsStep ==
  ASSUME IInv, NEW c \in transit, PeerRecords(c)
  PROVE  IInv'
<1> USE DEF IInv, PeerRecords
<1>1. TypeOK'
  BY DEF TypeOK
<1>2. HistoryTogether' /\ GivenUpTogether' /\ MessageSummarises' /\ DeliveredIsRecorded'
  BY DEF HistoryTogether, GivenUpTogether, MessageSummarises, Summary, DeliveredIsRecorded
<1>3. NothingStranded' /\ RowsAreCurrent'
  BY DEF NothingStranded, RowsAreCurrent, Known
<1> QED
  BY <1>1, <1>2, <1>3

LEMMA ReceiveReceiptStep ==
  ASSUME IInv, NEW c \in transit, ReceiveReceipt(c)
  PROVE  IInv'
<1> USE DEF IInv
<1>c. c \in CopyRecord /\ c \in applied
  BY DEF TypeOK, ReceiveReceipt
<1>1. /\ queue' \subseteq queue
      /\ UNCHANGED <<encrypted, next_delivery_sweep, transit, applied, receipts, endpoint, now>>
  BY DEF ReceiveReceipt
<1>2. /\ deliveries' \in [Messages -> [Devices -> [state : States, wire : 0..MaxWire]]]
      /\ \A k \in Messages, d \in Devices :
           /\ deliveries'[k][d].wire = deliveries[k][d].wire
           /\ deliveries'[k][d].state = IF Acked(c) /\ k = c.msg /\ d = c.dev THEN "Delivered"
                                        ELSE deliveries[k][d].state
  <2>1. /\ c.msg \in Messages /\ c.dev \in Devices /\ "Delivered" \in States
        /\ deliveries \in [Messages -> [Devices -> [state : States, wire : 0..MaxWire]]]
    BY <1>c DEF TypeOK, States, CopyRecord
  <2>2. CASE Acked(c)
    <3>1. deliveries' = WithState(c.msg, c.dev, "Delivered")
      BY <2>2 DEF ReceiveReceipt, WithState
    <3>2. /\ deliveries' \in [Messages -> [Devices -> [state : States, wire : 0..MaxWire]]]
          /\ \A k \in Messages, d \in Devices :
               /\ deliveries'[k][d].wire = deliveries[k][d].wire
               /\ deliveries'[k][d].state = IF k = c.msg /\ d = c.dev THEN "Delivered"
                                            ELSE deliveries[k][d].state
      BY <2>1, <3>1, OneStateUpdated
    <3> QED
      BY <2>2, <3>2
  <2>3. CASE ~Acked(c)
    BY <2>1, <2>3 DEF ReceiveReceipt
  <2> QED
    BY <2>2, <2>3
<1>3. /\ messages' \in [Messages -> [state : States, timestamp : 0..MaxTime]]
      /\ \A k \in Messages :
           messages'[k].state = IF Acked(c) /\ k = c.msg THEN "Delivered" ELSE messages[k].state
  BY <1>c, ZenonT(30) DEF TypeOK, States, CopyRecord, ReceiveReceipt
<1>4. Acked(c) => /\ deliveries[c.msg][c.dev].wire = c.wire /\ c.wire # 0
                  /\ c.msg \in Messages /\ c.dev \in Devices
                  /\ deliveries[c.msg][c.dev].state # "none"
                  /\ messages[c.msg].state # "none"
  BY <1>c DEF Acked, CopyRecord, HistoryTogether
<1>5. TypeOK'
  BY <1>1, <1>2, <1>3 DEF TypeOK
<1>6. HistoryTogether'
  BY <1>1, <1>2, <1>3, <1>4, SMTT(30) DEF HistoryTogether
<1>7. GivenUpTogether'
  BY <1>2, SMTT(30) DEF GivenUpTogether, Terminal
<1>8. NothingStranded'
  <2> SUFFICES ASSUME NEW k \in Messages, NEW d \in Devices
               PROVE  LET x == deliveries'[k][d] IN
                        /\ endpoint'[d] = "active" /\ x.state \in {"Queued", "Sent"} /\ x.wire # 0
                             => \E q \in queue' : CopyOf(q) = Copy(k, d, x.wire)
                        /\ x.state = "Sent" => x.wire # 0
    BY DEF NothingStranded
  <2>1. CASE Acked(c) /\ k = c.msg /\ d = c.dev
    BY <2>1, <1>2
  <2>2. CASE ~(Acked(c) /\ k = c.msg /\ d = c.dev)
    <3>1. /\ deliveries'[k][d].wire = deliveries[k][d].wire
          /\ deliveries'[k][d].state = deliveries[k][d].state
      BY <2>2, <1>2
    <3>2. deliveries[k][d].state # "Delivered" => Copy(k, d, deliveries[k][d].wire) # c
      BY <2>2 DEF Acked, Copy
    <3>3. \A q \in queue : CopyOf(q) # c => q \in queue'
      BY DEF ReceiveReceipt
    <3> QED
      BY <1>1, <3>1, <3>2, <3>3 DEF NothingStranded
  <2> QED
    BY <2>1, <2>2
<1>9. RowsAreCurrent'
  <2>1. ASSUME NEW q \in queue', Acked(c), q.msg = c.msg, q.dev = c.dev PROVE FALSE
    <3>1. q.wire = c.wire /\ CopyOf(q) # c
      BY <1>1, <1>4, <2>1 DEF RowsAreCurrent, ReceiveReceipt
    <3> QED
      BY <3>1, <2>1, <1>c DEF CopyOf, Copy, CopyRecord
  <2>2. \A q \in queue' : q \in queue /\ q.msg \in Messages /\ q.dev \in Devices
    BY <1>1 DEF TypeOK
  <2>3. ASSUME NEW q \in queue'
        PROVE  /\ deliveries'[q.msg][q.dev].wire = q.wire
               /\ deliveries'[q.msg][q.dev].state \in {"Queued", "Sent", "Failed"}
               /\ q.dev \in Known'
    <3>1. deliveries'[q.msg][q.dev].state = deliveries[q.msg][q.dev].state
      BY <1>2, <2>1, <2>2
    <3>2. Known' = Known
      BY <1>1 DEF Known
    <3> QED
      BY <1>2, <2>2, <3>1, <3>2 DEF RowsAreCurrent
  <2> QED
    BY <2>2, <2>3 DEF RowsAreCurrent
<1>10. MessageSummarises'
  <2> SUFFICES ASSUME NEW k \in Messages, messages'[k].state # "none"
               PROVE  messages'[k].state = Summary(deliveries'[k])
    BY DEF MessageSummarises
  <2>1. CASE Acked(c) /\ k = c.msg
    BY <2>1, <1>2, <1>3, <1>4 DEF Summary
  <2>2. CASE ~(Acked(c) /\ k = c.msg)
    <3>1. \A d \in Devices : deliveries'[k][d].state = deliveries[k][d].state
      BY <2>2, <1>2
    <3>2. Summary(deliveries'[k]) = Summary(deliveries[k])
      BY <3>1, SummaryOfStates
    <3> QED
      BY <2>2, <3>2, <1>3 DEF MessageSummarises
  <2> QED
    BY <2>1, <2>2
<1>11. DeliveredIsRecorded'
  <2> SUFFICES ASSUME NEW k \in Messages, NEW d \in Devices, deliveries'[k][d].state = "Delivered"
               PROVE  Copy(k, d, deliveries[k][d].wire) \in applied
    BY <1>1, <1>2 DEF DeliveredIsRecorded
  <2>1. CASE Acked(c) /\ k = c.msg /\ d = c.dev
    BY <2>1, <1>4, <1>c DEF Copy, CopyRecord
  <2>2. CASE ~(Acked(c) /\ k = c.msg /\ d = c.dev)
    BY <2>2, <1>2 DEF DeliveredIsRecorded
  <2> QED
    BY <2>1, <2>2
<1> QED
  BY <1>5, <1>6, <1>7, <1>8, <1>9, <1>10, <1>11

LEMMA ConsumeHandshakeStep ==
  ASSUME IInv, NEW e \in Devices, NEW replacing \in BOOLEAN, NEW gone \in SUBSET Devices,
         ConsumeHandshake(e, replacing, gone)
  PROVE  IInv'
<1> USE DEF IInv
<1> DEFINE Back(k) == replacing /\ TakenBack(k, e)
<1>1. /\ queue' = {q \in queue : q.dev \notin gone /\ ~(replacing /\ q.dev = e)}
      /\ endpoint' = [d \in Devices |-> IF d \in gone THEN "dropped" ELSE endpoint[d]]
      /\ UNCHANGED <<encrypted, next_delivery_sweep, transit, applied, receipts, now>>
  BY DEF ConsumeHandshake
<1>2. /\ deliveries' \in [Messages -> [Devices -> [state : States, wire : 0..MaxWire]]]
      /\ \A k \in Messages, d \in Devices :
           deliveries'[k][d] = IF d = e /\ Back(k) THEN [state |-> "Queued", wire |-> 0]
                               ELSE deliveries[k][d]
  BY DeliveryConstants DEF TypeOK, States, ConsumeHandshake
<1>3. /\ messages' \in [Messages -> [state : States, timestamp : 0..MaxTime]]
      /\ \A k \in Messages :
           messages'[k].state = IF Back(k) THEN Summary(deliveries'[k])
                                ELSE messages[k].state
  <2>1. \A k \in Messages : Back(k) =>
          deliveries'[k] = [deliveries[k] EXCEPT ![e] = [state |-> "Queued", wire |-> 0]]
    BY DEF ConsumeHandshake
  <2>2. \A x : Summary(x) \in States
    BY DEF Summary, States
  <2>3. messages' = [k \in Messages |->
          IF Back(k)
          THEN [messages[k] EXCEPT !.state =
                  Summary([deliveries[k] EXCEPT ![e] = [state |-> "Queued", wire |-> 0]])]
          ELSE messages[k]]
    BY DEF ConsumeHandshake
  <2> QED
    BY <2>1, <2>2, <2>3, ZenonT(30) DEF TypeOK
<1>4. TypeOK'
  BY <1>1, <1>2, <1>3 DEF TypeOK, Endpoints
<1>5. \A k \in Messages : Back(k) => /\ deliveries[k][e].state \in {"Queued", "Sent"}
                                             /\ Summary(deliveries'[k]) # "none"
  BY DEF TakenBack, Summary
<1>6. HistoryTogether'
  <2> SUFFICES ASSUME NEW k \in Messages, NEW d \in Devices
               PROVE  /\ messages'[k].state = "none" => deliveries'[k][d].state = "none"
                      /\ deliveries'[k][d].state = "none" => deliveries'[k][d].wire = 0
                      /\ encrypted'[k][d] > 0 => messages'[k].state # "none"
    BY DEF HistoryTogether
  <2>1. CASE Back(k)
    <3>1. messages[k].state # "none" /\ messages'[k].state # "none"
      BY <2>1, <1>3, <1>5 DEF HistoryTogether
    <3>2. deliveries'[k][d].state = "none" => deliveries'[k][d].wire = 0
      BY <2>1, <1>2 DEF HistoryTogether
    <3> QED
      BY <3>1, <3>2
  <2>2. CASE ~Back(k)
    <3>1. deliveries'[k][d] = deliveries[k][d] /\ messages'[k].state = messages[k].state
      BY <2>2, <1>2, <1>3
    <3> QED
      BY <3>1, <1>1 DEF HistoryTogether
  <2> QED
    BY <2>1, <2>2
<1>7. GivenUpTogether'
  BY <1>2, <1>5 DEF GivenUpTogether, Terminal
<1>8. NothingStranded'
  <2> SUFFICES ASSUME NEW k \in Messages, NEW d \in Devices
               PROVE  LET x == deliveries'[k][d] IN
                        /\ endpoint'[d] = "active" /\ x.state \in {"Queued", "Sent"} /\ x.wire # 0
                             => \E q \in queue' : CopyOf(q) = Copy(k, d, x.wire)
                        /\ x.state = "Sent" => x.wire # 0
    BY DEF NothingStranded
  <2>1. CASE d = e /\ Back(k)
    BY <2>1, <1>2
  <2>2. CASE d = e /\ replacing /\ ~TakenBack(k, e)
    <3>1. deliveries[k][d].state \in {"Queued", "Sent"}
            => deliveries[k][d].state = "Queued" /\ deliveries[k][d].wire = 0
      BY <2>2 DEF TakenBack, AwaitsRoute
    <3> QED
      BY <2>2, <3>1, <1>2
  <2>3. CASE ~(d = e /\ replacing)
    <3>1. deliveries'[k][d] = deliveries[k][d]
      BY <2>3, <1>2
    <3>2. endpoint'[d] = "active" => endpoint[d] = "active" /\ d \notin gone
      BY <1>1
    <3>3. d \notin gone
            => \A q \in queue : CopyOf(q) = Copy(k, d, deliveries[k][d].wire) => q \in queue'
      BY <2>3, <1>1 DEF CopyOf, Copy
    <3> QED
      BY <3>1, <3>2, <3>3 DEF NothingStranded
  <2> QED
    BY <2>1, <2>2, <2>3
<1>9. RowsAreCurrent'
  <2>1. \A q \in queue' : /\ q \in queue /\ q.dev \notin gone /\ ~(replacing /\ q.dev = e)
                           /\ q.msg \in Messages /\ q.dev \in Devices
    BY <1>1 DEF TypeOK
  <2>2. \A q \in queue' : deliveries'[q.msg][q.dev] = deliveries[q.msg][q.dev]
    BY <1>2, <2>1
  <2>3. \A q \in queue' : q.dev \in Known'
    BY <1>1, <2>1 DEF RowsAreCurrent, Known
  <2> QED
    BY <2>1, <2>2, <2>3 DEF RowsAreCurrent
<1>10. MessageSummarises'
  <2> SUFFICES ASSUME NEW k \in Messages, messages'[k].state # "none"
               PROVE  messages'[k].state = Summary(deliveries'[k])
    BY DEF MessageSummarises
  <2>1. CASE ~Back(k)
    <3>1. \A d \in Devices : deliveries'[k][d].state = deliveries[k][d].state
      BY <2>1, <1>2
    <3>2. Summary(deliveries'[k]) = Summary(deliveries[k])
      BY <3>1, SummaryOfStates
    <3> QED
      BY <2>1, <3>2, <1>3 DEF MessageSummarises
  <2> QED
    BY <2>1, <1>3
<1>11. DeliveredIsRecorded'
  BY <1>1, <1>2 DEF DeliveredIsRecorded
<1> QED
  BY <1>4, <1>6, <1>7, <1>8, <1>9, <1>10, <1>11

\* Deleting rows of devices that are no longer active strands nothing else.
LEMMA DroppedStep ==
  ASSUME IInv, queue' \subseteq queue, endpoint' \in [Devices -> Endpoints],
         \A d \in Devices : endpoint'[d] = "active" =>
           endpoint[d] = "active" /\ \A q \in queue : q.dev = d => q \in queue',
         \A q \in queue' : q.dev \in Known => q.dev \in Known',
         UNCHANGED <<messages, deliveries, encrypted, next_delivery_sweep, transit, applied,
                     receipts, now>>
  PROVE  IInv'
<1> USE DEF IInv
<1>1. TypeOK'
  BY DEF TypeOK
<1>2. HistoryTogether' /\ GivenUpTogether' /\ MessageSummarises' /\ DeliveredIsRecorded'
  BY DEF HistoryTogether, GivenUpTogether, MessageSummarises, Summary, DeliveredIsRecorded
<1>3. NothingStranded'
  BY DEF NothingStranded, CopyOf, Copy
<1>4. RowsAreCurrent'
  BY DEF RowsAreCurrent
<1> QED
  BY <1>1, <1>2, <1>3, <1>4

LEMMA RetireQueuePageStep ==
  ASSUME IInv, NEW gone \in SUBSET Devices, NEW rows \in SUBSET queue,
         RetireQueuePage(gone, rows)
  PROVE  IInv'
<1>1. /\ endpoint \in [Devices -> Endpoints] /\ queue' = queue \ rows
      /\ \A q \in rows : q.dev \in gone
      /\ endpoint' = [d \in Devices |-> IF d \in gone \cap Known THEN "retiring" ELSE endpoint[d]]
  BY DEF IInv, TypeOK, RetireQueuePage
<1>2. /\ queue' \subseteq queue /\ endpoint' \in [Devices -> Endpoints]
      /\ \A q \in queue' : q.dev \in Known => q.dev \in Known'
  BY <1>1 DEF Endpoints, Known
<1>3. \A d \in Devices : endpoint'[d] = "active" =>
        endpoint[d] = "active" /\ \A q \in queue : q.dev = d => q \in queue'
  BY <1>1 DEF Known
<1> QED
  BY <1>2, <1>3, DroppedStep DEF RetireQueuePage

LEMMA StoreDeviceListStep ==
  ASSUME IInv, NEW gone \in SUBSET Devices, StoreDeviceList(gone)
  PROVE  IInv'
<1>1. /\ endpoint \in [Devices -> Endpoints] /\ queue' = queue
      /\ \A q \in queue : q.dev \notin gone
      /\ endpoint' = [d \in Devices |-> IF d \in gone THEN "dropped" ELSE endpoint[d]]
  BY DEF IInv, TypeOK, StoreDeviceList
<1>2. /\ queue' \subseteq queue /\ endpoint' \in [Devices -> Endpoints]
      /\ \A q \in queue' : q.dev \in Known => q.dev \in Known'
  BY <1>1 DEF Endpoints, Known
<1>3. \A d \in Devices : endpoint'[d] = "active" =>
        endpoint[d] = "active" /\ \A q \in queue : q.dev = d => q \in queue'
  BY <1>1
<1> QED
  BY <1>2, <1>3, DroppedStep DEF StoreDeviceList

LEMMA SweepStep ==
  ASSUME IInv, NEW rows \in SUBSET queue, Sweep(rows)
  PROVE  IInv'
<1> USE DEF IInv
<1>1. /\ queue' = queue \ rows
      /\ \A q \in rows : q.msg \in Selected
      /\ UNCHANGED <<encrypted, transit, applied, receipts, endpoint, now>>
  BY DEF Sweep
<1>2. next_delivery_sweep' \in 0..MaxTime
  <2>1. now \in 0..MaxTime
    BY DEF TypeOK
  <2> QED
    BY <2>1, DeliveryConstants DEF Sweep, Least
<1>3. /\ deliveries' \in [Messages -> [Devices -> [state : States, wire : 0..MaxWire]]]
      /\ \A k \in Messages, d \in Devices :
           /\ deliveries'[k][d].wire = deliveries[k][d].wire
           /\ deliveries'[k][d].state = IF k \in Selected THEN GivenUp(deliveries[k][d].state)
                                        ELSE deliveries[k][d].state
  <2>1. deliveries' = [k \in Messages |->
          IF k \in Selected
          THEN [d \in Devices |-> [deliveries[k][d] EXCEPT !.state = GivenUp(deliveries[k][d].state)]]
          ELSE deliveries[k]]
    BY DEF Sweep
  <2>2. \A x \in [state : States, wire : 0..MaxWire] :
          /\ [x EXCEPT !.state = GivenUp(x.state)] \in [state : States, wire : 0..MaxWire]
          /\ [x EXCEPT !.state = GivenUp(x.state)].wire = x.wire
          /\ [x EXCEPT !.state = GivenUp(x.state)].state = GivenUp(x.state)
    BY DEF GivenUp, States
  <2>3. \A k \in Messages, d \in Devices : deliveries[k][d] \in [state : States, wire : 0..MaxWire]
    BY DEF TypeOK
  <2>4. deliveries \in [Messages -> [Devices -> [state : States, wire : 0..MaxWire]]]
    BY DEF TypeOK
  <2> QED
    BY <2>1, <2>2, <2>3, <2>4
<1>4. /\ messages' \in [Messages -> [state : States, timestamp : 0..MaxTime]]
      /\ \A k \in Messages :
           messages'[k].state = IF k \in Selected /\ ~ \E d \in Devices : deliveries[k][d].state = "Delivered"
                                THEN GivenUp(messages[k].state) ELSE messages[k].state
  BY DEF TypeOK, States, Sweep, GivenUp
<1>5. \A k \in Selected : k \in Messages /\ messages[k].state # "none"
  BY DEF Selected, Old
<1>6. TypeOK'
  BY <1>1, <1>2, <1>3, <1>4 DEF TypeOK
<1>7. HistoryTogether'
  <2> SUFFICES ASSUME NEW k \in Messages, NEW d \in Devices
               PROVE  /\ messages'[k].state = "none" => deliveries'[k][d].state = "none"
                      /\ deliveries'[k][d].state = "none" => deliveries'[k][d].wire = 0
                      /\ encrypted'[k][d] > 0 => messages'[k].state # "none"
    BY DEF HistoryTogether
  <2>1. messages'[k].state = "none" <=> messages[k].state = "none"
    BY <1>4 DEF GivenUp
  <2>2. deliveries'[k][d].state = "none" <=> deliveries[k][d].state = "none"
    BY <1>3 DEF GivenUp
  <2>3. deliveries'[k][d].wire = deliveries[k][d].wire /\ encrypted' = encrypted
    BY <1>1, <1>3
  <2> QED
    BY <2>1, <2>2, <2>3 DEF HistoryTogether
<1>8. GivenUpTogether'
  <2> SUFFICES ASSUME NEW k \in Messages, NEW d \in Devices, NEW f \in Devices,
                      deliveries'[k][d].state = "Failed"
               PROVE  deliveries'[k][f].state \in Terminal \cup {"none"}
    BY DEF GivenUpTogether
  <2>1. CASE k \in Selected
    <3>1. deliveries[k][f].state \in States
      BY DEF TypeOK
    <3> QED
      BY <2>1, <3>1, <1>3 DEF GivenUp, Terminal, States
  <2>2. CASE k \notin Selected
    BY <2>2, <1>3, ZenonT(30) DEF GivenUpTogether
  <2> QED
    BY <2>1, <2>2
<1>9. NothingStranded'
  <2> SUFFICES ASSUME NEW k \in Messages, NEW d \in Devices
               PROVE  LET x == deliveries'[k][d] IN
                        /\ endpoint'[d] = "active" /\ x.state \in {"Queued", "Sent"} /\ x.wire # 0
                             => \E q \in queue' : CopyOf(q) = Copy(k, d, x.wire)
                        /\ x.state = "Sent" => x.wire # 0
    BY DEF NothingStranded
  <2>1. CASE k \in Selected
    BY <2>1, <1>3 DEF GivenUp, Terminal
  <2>2. CASE k \notin Selected
    <3>1. \A q \in queue : CopyOf(q) = Copy(k, d, deliveries[k][d].wire) => q \in queue'
      BY <2>2, <1>1 DEF CopyOf, Copy
    <3> QED
      BY <1>1, <2>2, <3>1, <1>3 DEF NothingStranded
  <2> QED
    BY <2>1, <2>2
<1>10. RowsAreCurrent'
  <2>1. \A q \in queue' : q \in queue /\ q.msg \in Messages /\ q.dev \in Devices
    BY <1>1 DEF TypeOK
  <2>2. ASSUME NEW q \in queue'
        PROVE  /\ deliveries'[q.msg][q.dev].wire = q.wire
               /\ deliveries'[q.msg][q.dev].state \in {"Queued", "Sent", "Failed"}
               /\ q.dev \in Known'
    <3>1. /\ deliveries[q.msg][q.dev].wire = q.wire
          /\ deliveries[q.msg][q.dev].state \in {"Queued", "Sent", "Failed"}
          /\ q.dev \in Known
      BY <2>1 DEF RowsAreCurrent
    <3>2. Known' = Known
      BY <1>1 DEF Known
    <3> QED
      BY <1>3, <2>1, <3>1, <3>2 DEF GivenUp
  <2> QED
    BY <2>1, <2>2 DEF RowsAreCurrent
<1>11. MessageSummarises'
  <2> SUFFICES ASSUME NEW k \in Messages, messages'[k].state # "none"
               PROVE  messages'[k].state = Summary(deliveries'[k])
    BY DEF MessageSummarises
  <2>1. messages[k].state = Summary(deliveries[k])
    BY <1>4, <1>5 DEF MessageSummarises
  <2>2. CASE k \notin Selected
    <3>1. \A d \in Devices : deliveries'[k][d].state = deliveries[k][d].state
      BY <2>2, <1>3
    <3>2. Summary(deliveries'[k]) = Summary(deliveries[k])
      BY <3>1, SummaryOfStates
    <3> QED
      BY <2>1, <2>2, <3>2, <1>4
  <2>3. CASE k \in Selected /\ \E d \in Devices : deliveries[k][d].state = "Delivered"
    <3>1. \E d \in Devices : deliveries'[k][d].state = "Delivered"
      BY <2>3, <1>3 DEF GivenUp, Terminal
    <3> QED
      BY <2>1, <2>3, <3>1, <1>4 DEF Summary
  <2>4. CASE k \in Selected /\ ~ \E d \in Devices : deliveries[k][d].state = "Delivered"
    <3>1. \A d \in Devices : deliveries'[k][d].state \in {"Failed", "none"}
      <4>1. \A d \in Devices : deliveries[k][d].state \in States
        BY DEF TypeOK
      <4> QED
        BY <2>4, <4>1, <1>3 DEF GivenUp, States
    <3>2. messages'[k].state = "Failed"
      BY <2>1, <2>4, <1>4 DEF GivenUp, Summary
    <3> QED
      BY <3>1, <3>2 DEF Summary
  <2> QED
    BY <2>2, <2>3, <2>4
<1>12. DeliveredIsRecorded'
  BY <1>1, <1>3 DEF DeliveredIsRecorded, GivenUp, Terminal
<1> QED
  BY <1>6, <1>7, <1>8, <1>9, <1>10, <1>11, <1>12

LEMMA IInvStep == IInv /\ [Next]_vars => IInv'
<1> SUFFICES ASSUME IInv, [Next]_vars PROVE IInv'
  OBVIOUS
<1>1. ASSUME NEW m \in Messages, NEW D \in SUBSET Devices, Send(m, D) PROVE IInv'
  BY <1>1, SendStep
<1>2. ASSUME NEW m \in Messages, NEW D \in SUBSET Devices, MaterializePending(m, D) PROVE IInv'
  BY <1>2, MaterializeStep
<1>3. ASSUME NEW q \in queue, HandedOff(q) PROVE IInv'
  BY <1>3, HandedOffStep
<1>4. ASSUME NEW q \in queue, NEW refused \in BOOLEAN, NotHandedOff(q, refused) PROVE IInv'
  BY <1>4, NotHandedOffStep
<1>5. ASSUME NEW c \in transit, PeerRecords(c) PROVE IInv'
  BY <1>5, PeerRecordsStep
<1>6. ASSUME NEW c \in transit, ReceiveReceipt(c) PROVE IInv'
  BY <1>6, ReceiveReceiptStep
<1>7. ASSUME NEW d \in Devices, NEW replacing \in BOOLEAN, NEW gone \in SUBSET Devices,
             ConsumeHandshake(d, replacing, gone)
      PROVE  IInv'
  BY <1>7, ConsumeHandshakeStep
<1>7a. ASSUME NEW gone \in SUBSET Devices, NEW rows \in SUBSET queue, RetireQueuePage(gone, rows)
       PROVE  IInv'
  BY <1>7a, RetireQueuePageStep
<1>7b. ASSUME NEW gone \in SUBSET Devices, StoreDeviceList(gone) PROVE IInv'
  BY <1>7b, StoreDeviceListStep
<1>8. ASSUME NEW rows \in SUBSET queue, Sweep(rows) PROVE IInv'
  BY <1>8, SweepStep
<1>9. CASE Restart
  <2>1. TypeOK'
    BY <1>9, DeliveryConstants DEF IInv, TypeOK, Restart
  <2>2. /\ HistoryTogether' /\ GivenUpTogether' /\ NothingStranded' /\ RowsAreCurrent'
        /\ MessageSummarises' /\ DeliveredIsRecorded'
    BY <1>9 DEF IInv, Restart, HistoryTogether, GivenUpTogether, NothingStranded,
                RowsAreCurrent, Known, MessageSummarises, Summary, DeliveredIsRecorded
  <2> QED
    BY <2>1, <2>2 DEF IInv
<1>10. CASE ClockAdvances
  <2>1. TypeOK'
    BY <1>10, DeliveryConstants DEF IInv, TypeOK, ClockAdvances
  <2>2. /\ HistoryTogether' /\ GivenUpTogether' /\ NothingStranded' /\ RowsAreCurrent'
        /\ MessageSummarises' /\ DeliveredIsRecorded'
    BY <1>10 DEF IInv, ClockAdvances, HistoryTogether, GivenUpTogether, NothingStranded,
                 RowsAreCurrent, Known, MessageSummarises, Summary, DeliveredIsRecorded
  <2> QED
    BY <2>1, <2>2 DEF IInv
<1>11. CASE UNCHANGED vars
  BY <1>11 DEF IInv, vars, TypeOK, HistoryTogether, GivenUpTogether, NothingStranded,
               RowsAreCurrent, Known, MessageSummarises, Summary, DeliveredIsRecorded
<1> QED
  BY <1>1, <1>2, <1>3, <1>4, <1>5, <1>6, <1>7, <1>7a, <1>7b, <1>8, <1>9, <1>10, <1>11 DEF Next

LEMMA IInvHolds == Spec => []IInv
  BY IInvInit, IInvStep, PTL DEF Spec

\* The delivery tables are always well formed.
THEOREM DeliveryTypeCorrect == Spec => []TypeOK
<1>1. IInv => TypeOK
  BY DEF IInv
<1> QED
  BY <1>1, IInvHolds, PTL

\* Every copy that waits for the receipt of a listed device is in the queue under
\* its current content id, the queue holds no second or stale copy and none for a
\* device the account has dropped, and a delivered copy is one the device
\* recorded, for any interleaving of handoffs, receipts, session replacements,
\* dropped devices, sweeps and restarts.
THEOREM DeliveryCopiesTracked == Spec => []CopiesTracked
<1>1. IInv => CopiesTracked
  BY DEF IInv, CopiesTracked
<1> QED
  BY <1>1, IInvHolds, PTL

\* The history always shows what the per-device records say.
THEOREM DeliveryMessageSummarises == Spec => []MessageSummarises
<1>1. IInv => MessageSummarises
  BY DEF IInv
<1> QED
  BY <1>1, IInvHolds, PTL

-----------------------------------------------------------------------------
(* Delivered and Failed.                                                   *)

\* What each handler does to the state a message shows.
LEMMA MessageSteps ==
  ASSUME IInv, Next
  PROVE  \/ UNCHANGED <<messages, applied>>
         \/ \E m \in Messages, D \in SUBSET Devices : Send(m, D)
         \/ \E q \in queue : HandedOff(q)
         \/ \E c \in transit : PeerRecords(c) \/ ReceiveReceipt(c)
         \/ \E d \in Devices, replacing \in BOOLEAN, gone \in SUBSET Devices :
              ConsumeHandshake(d, replacing, gone)
         \/ \E rows \in SUBSET queue : Sweep(rows)
  BY DEF Next, MaterializePending, NotHandedOff, RetireQueuePage, StoreDeviceList, Restart,
         ClockAdvances

\* Replacing a session changes a message at most from Sent to Queued.
LEMMA ReplacedMessages ==
  ASSUME IInv, NEW e \in Devices, NEW replacing \in BOOLEAN, NEW gone \in SUBSET Devices,
         ConsumeHandshake(e, replacing, gone), NEW k \in Messages
  PROVE  \/ messages'[k].state = messages[k].state
         \/ messages[k].state = "Sent" /\ messages'[k].state = "Queued"
<1> USE DEF IInv
<1>1. messages'[k].state = IF replacing /\ TakenBack(k, e)
        THEN Summary([deliveries[k] EXCEPT ![e] = [state |-> "Queued", wire |-> 0]])
        ELSE messages[k].state
  BY DEF ConsumeHandshake, TypeOK
<1>2. CASE replacing /\ TakenBack(k, e)
  <2> DEFINE after == [deliveries[k] EXCEPT ![e] = [state |-> "Queued", wire |-> 0]]
  <2>1. deliveries[k][e].state \in {"Queued", "Sent"}
    BY <1>2 DEF TakenBack
  <2>2. messages[k].state = Summary(deliveries[k])
    BY <2>1 DEF MessageSummarises, HistoryTogether
  <2>3. after[e].state = "Queued" /\ \A d \in Devices : d # e => after[d].state = deliveries[k][d].state
    BY DEF TypeOK
  <2> HIDE DEF after
  <2>4. \/ Summary(after) = Summary(deliveries[k])
        \/ Summary(deliveries[k]) = "Sent" /\ Summary(after) = "Queued"
    BY <2>1, <2>3 DEF Summary
  <2> QED
    BY <1>1, <1>2, <2>2, <2>4 DEF after
<1> QED
  BY <1>1, <1>2

\* The sweep turns open messages whose time is over into Failed ones.
LEMMA SweptMessages ==
  ASSUME IInv, NEW rows \in SUBSET queue, Sweep(rows), NEW k \in Messages
  PROVE  \/ messages'[k].state = messages[k].state
         \/ /\ messages[k].state \in {"Queued", "Sent"} /\ messages'[k].state = "Failed"
            /\ messages[k].timestamp + DELIVERY_EXPIRY_SECS <= now
<1>1. messages[k] \in [state : States, timestamp : 0..MaxTime]
  BY DEF IInv, TypeOK
<1>2. messages'[k] = IF k \in Selected /\ ~ \E d \in Devices : deliveries[k][d].state = "Delivered"
                     THEN [messages[k] EXCEPT !.state = GivenUp(messages[k].state)] ELSE messages[k]
  BY DEF Sweep
<1>3. k \in Selected => Old(k)
  BY DEF Selected
<1> QED
  BY <1>1, <1>2, <1>3 DEF Old, GivenUp, Terminal, States

\* A delivered message stays delivered, a failed one can only become delivered,
\* and none is given up before its time.
THEOREM DeliveryTerminalIsFinal == Spec => TerminalIsFinal
<1> DEFINE A == \A m \in Messages :
       /\ messages[m].state = "Delivered" => messages'[m].state = "Delivered"
       /\ messages[m].state = "Failed" => messages'[m].state \in Terminal
       /\ messages[m].state # "Failed" /\ messages'[m].state = "Failed"
            => messages[m].timestamp + DELIVERY_EXPIRY_SECS <= now
<1>1. IInv /\ [Next]_vars => [A]_vars
  <2> SUFFICES ASSUME IInv, Next, NEW m \in Messages
               PROVE  /\ messages[m].state = "Delivered" => messages'[m].state = "Delivered"
                      /\ messages[m].state = "Failed" => messages'[m].state \in Terminal
                      /\ messages[m].state # "Failed" /\ messages'[m].state = "Failed"
                           => messages[m].timestamp + DELIVERY_EXPIRY_SECS <= now
    OBVIOUS
  <2>0. messages \in [Messages -> [state : States, timestamp : 0..MaxTime]]
    BY DEF IInv, TypeOK
  <2>1. CASE UNCHANGED <<messages, applied>>
    BY <2>1 DEF Terminal
  <2>2. ASSUME NEW k \in Messages, NEW D \in SUBSET Devices, Send(k, D)
        PROVE  \/ messages'[m].state = messages[m].state
               \/ messages[m].state = "none" /\ messages'[m].state = "Queued"
    <3>1. /\ messages[k].state = "none"
          /\ messages' = [messages EXCEPT ![k] = [state |-> "Queued", timestamp |-> now]]
      BY <2>2 DEF Send
    <3>2. m # k => messages'[m] = messages[m]
      BY <2>0, <3>1
    <3>3. messages'[k].state = "Queued"
      BY <2>0, <3>1
    <3> QED
      BY <3>1, <3>2, <3>3
  <2>3. ASSUME NEW q \in queue, HandedOff(q)
        PROVE  messages'[m].state \in {messages[m].state, MarkSent(messages[m].state)}
    <3>1. messages' = [messages EXCEPT ![q.msg].state = MarkSent(@)]
      BY <2>3 DEF HandedOff
    <3> QED
      BY <2>0, <3>1
  <2>4. ASSUME NEW c \in transit, PeerRecords(c) \/ ReceiveReceipt(c)
        PROVE  messages'[m].state \in {messages[m].state, "Delivered"}
    <3>1. messages' = messages \/ messages' = [messages EXCEPT ![c.msg].state = "Delivered"]
      BY <2>4 DEF PeerRecords, ReceiveReceipt
    <3> QED
      BY <2>0, <3>1
  <2>5. ASSUME NEW d \in Devices, NEW replacing \in BOOLEAN, NEW gone \in SUBSET Devices,
               ConsumeHandshake(d, replacing, gone)
        PROVE  \/ messages'[m].state = messages[m].state
               \/ messages[m].state = "Sent" /\ messages'[m].state = "Queued"
    BY <2>5, ReplacedMessages
  <2>6. ASSUME NEW rows \in SUBSET queue, Sweep(rows)
        PROVE  \/ messages'[m].state = messages[m].state
               \/ /\ messages[m].state \in {"Queued", "Sent"} /\ messages'[m].state = "Failed"
                  /\ messages[m].timestamp + DELIVERY_EXPIRY_SECS <= now
    BY <2>6, SweptMessages
  <2> QED
    BY <2>1, <2>2, <2>3, <2>4, <2>5, <2>6, MessageSteps DEF MarkSent, Terminal
<1> QED
  BY <1>1, IInvHolds, PTL DEF Spec, TerminalIsFinal

-----------------------------------------------------------------------------
(* The engine implements the lifecycle it documents.                       *)

LEMMA LifecycleInit == Init => Lifecycle!Init
  BY DEF Init, Lifecycle!Init

LEMMA LifecycleStep == IInv /\ [Next]_vars => [Lifecycle!Next]_(Lifecycle!vars)
<1> SUFFICES ASSUME IInv, [Next]_vars PROVE [Lifecycle!Next]_(Lifecycle!vars)
  OBVIOUS
<1> USE DEF Lifecycle!Become
<1>0. /\ messages \in [Messages -> [state : States, timestamp : 0..MaxTime]]
      /\ applied \subseteq transit /\ transit \subseteq CopyRecord
  BY DEF IInv, TypeOK
<1>1. CASE UNCHANGED <<messages, applied>>
  BY <1>1 DEF Lifecycle!vars
<1>2. ASSUME NEW m \in Messages, NEW D \in SUBSET Devices, Send(m, D)
      PROVE  Lifecycle!Next
  <2>1. /\ messages[m].state = "none" /\ applied' = applied
        /\ messages' = [messages EXCEPT ![m] = [state |-> "Queued", timestamp |-> now]]
    BY <1>2 DEF Send
  <2>2. Lifecycle!Accept(m)
    BY <1>0, <2>1 DEF Lifecycle!Accept
  <2> QED
    BY <2>2 DEF Lifecycle!Next
<1>3. ASSUME NEW q \in queue, HandedOff(q)
      PROVE  [Lifecycle!Next]_(Lifecycle!vars)
  <2>1. /\ messages' = [messages EXCEPT ![q.msg].state = MarkSent(@)] /\ applied' = applied
        /\ q.msg \in Messages
    BY <1>3 DEF HandedOff, IInv, TypeOK
  <2>2. CASE messages[q.msg].state = "Queued"
    <3>1. Lifecycle!HandOff(q.msg)
      BY <1>0, <2>1, <2>2 DEF Lifecycle!HandOff, MarkSent
    <3> QED
      BY <2>1, <3>1 DEF Lifecycle!Next
  <2>3. CASE messages[q.msg].state # "Queued"
    <3>1. \A m \in Messages : messages'[m].state = messages[m].state
      BY <1>0, <2>1, <2>3 DEF MarkSent
    <3> QED
      BY <2>1, <3>1 DEF Lifecycle!vars
  <2> QED
    BY <2>2, <2>3
<1>4. ASSUME NEW c \in transit, PeerRecords(c)
      PROVE  Lifecycle!Next
  <2>1. /\ messages' = messages /\ applied' = applied \cup {c}
        /\ c.msg \in Messages /\ messages[c.msg].state # "none"
    <3>1. c.msg \in Messages /\ c.dev \in Devices /\ encrypted[c.msg][c.dev] > 0
      BY DEF IInv, TypeOK, CopyRecord
    <3> QED
      BY <1>4, <3>1 DEF PeerRecords, IInv, HistoryTogether
  <2>2. Lifecycle!Record(c.msg)
    BY <2>1 DEF Lifecycle!Record
  <2> QED
    BY <2>1, <2>2 DEF Lifecycle!Next
<1>5. ASSUME NEW c \in transit, ReceiveReceipt(c)
      PROVE  [Lifecycle!Next]_(Lifecycle!vars)
  <2>1. c.msg \in Messages /\ c.dev \in Devices /\ c.wire # 0 /\ c \in applied /\ applied' = applied
    BY <1>0, <1>5 DEF ReceiveReceipt, CopyRecord, IInv, TypeOK
  <2>2. CASE ~Acked(c) \/ messages[c.msg].state = "Delivered"
    <3>1. \A m \in Messages : messages'[m].state = messages[m].state
      BY <1>0, <1>5, <2>2 DEF ReceiveReceipt
    <3> QED
      BY <2>1, <3>1 DEF Lifecycle!vars
  <2>3. CASE Acked(c) /\ messages[c.msg].state # "Delivered"
    <3>1. messages[c.msg].state # "none"
      BY <2>1, <2>3 DEF Acked, IInv, HistoryTogether
    <3>2. messages' = [messages EXCEPT ![c.msg].state = "Delivered"]
      BY <1>5, <2>3 DEF ReceiveReceipt
    <3>3. messages[c.msg].state \in {"Queued", "Sent", "Failed"}
      BY <1>0, <2>1, <2>3, <3>1 DEF States
    <3>4. Lifecycle!Confirm(c.msg)
      BY <1>0, <2>1, <3>2, <3>3 DEF Lifecycle!Confirm, Lifecycle!Open
    <3> QED
      BY <2>1, <3>4 DEF Lifecycle!Next
  <2> QED
    BY <2>2, <2>3
<1>6. ASSUME NEW e \in Devices, NEW replacing \in BOOLEAN, NEW gone \in SUBSET Devices,
             ConsumeHandshake(e, replacing, gone)
      PROVE  Lifecycle!Next
  <2>0. PICK S \in SUBSET Messages : \A m \in Messages :
          m \in S <=> messages'[m].state # messages[m].state
    <3>1. {m \in Messages : messages'[m].state # messages[m].state} \in SUBSET Messages
      OBVIOUS
    <3> QED
      BY <3>1
  <2>1. \A m \in S : messages[m].state = "Sent" /\ messages'[m].state = "Queued"
    BY <1>6, <2>0, ReplacedMessages
  <2>2. applied' = applied
    BY <1>6 DEF ConsumeHandshake
  <2>3. \A m \in Messages : messages'[m].state = IF m \in S THEN "Queued" ELSE messages[m].state
    BY <2>0, <2>1
  <2>4. Lifecycle!Requeue(S)
    BY <2>1, <2>2, <2>3 DEF Lifecycle!Requeue
  <2> HIDE DEF Lifecycle!Become
  <2> QED
    BY <2>4 DEF Lifecycle!Next
<1>7. ASSUME NEW rows \in SUBSET queue, Sweep(rows)
      PROVE  Lifecycle!Next
  <2>0. PICK S \in SUBSET Messages : \A m \in Messages :
          m \in S <=> messages'[m].state # messages[m].state
    <3>1. {m \in Messages : messages'[m].state # messages[m].state} \in SUBSET Messages
      OBVIOUS
    <3> QED
      BY <3>1
  <2>1. \A m \in S : messages[m].state \in {"Queued", "Sent"} /\ messages'[m].state = "Failed"
    BY <1>7, <2>0, SweptMessages
  <2>2. applied' = applied
    BY <1>7 DEF Sweep
  <2>3. \A m \in Messages : messages'[m].state = IF m \in S THEN "Failed" ELSE messages[m].state
    BY <2>0, <2>1
  <2>4. Lifecycle!GiveUp(S)
    BY <2>1, <2>2, <2>3 DEF Lifecycle!GiveUp, Lifecycle!Open
  <2> HIDE DEF Lifecycle!Become
  <2> QED
    BY <2>4 DEF Lifecycle!Next
<1>8. CASE UNCHANGED vars
  BY <1>8 DEF vars, Lifecycle!vars
<1>9. CASE Next
  BY <1>1, <1>2, <1>3, <1>4, <1>5, <1>6, <1>7, <1>9, MessageSteps
<1> QED
  BY <1>8, <1>9

\* Handoffs, receipts, session replacement and sweeps together implement
\* Queued -> Sent -> Delivered or Failed, one lifecycle step at a time.
THEOREM DeliveryImplementsLifecycle == Spec => ImplementsLifecycle
  BY LifecycleInit, LifecycleStep, IInvHolds, PTL DEF Spec, ImplementsLifecycle, Lifecycle!Spec

\* Honest delivery: a message is shown as Delivered only when a device of the
\* recipient recorded it.
THEOREM DeliveredIsHonest == Spec => []Lifecycle!DeliveredIsTrue
<1>1. IInv => Lifecycle!DeliveredIsTrue
  <2> SUFFICES ASSUME IInv, NEW m \in Messages, messages[m].state = "Delivered"
               PROVE  \E c \in applied : c.msg = m
    BY DEF Lifecycle!DeliveredIsTrue
  <2>1. PICK d \in Devices : deliveries[m][d].state = "Delivered"
    BY DEF IInv, MessageSummarises, Summary
  <2> QED
    BY <2>1 DEF IInv, DeliveredIsRecorded, Copy
<1> QED
  BY <1>1, IInvHolds, PTL

-----------------------------------------------------------------------------
(* Back-off.                                                               *)

\* No copy waits longer for its next attempt than the largest of the caps.
THEOREM DeliveryRetryWithinCap == Spec => []RetryWithinCap
<1> DEFINE cap == Most(Most(RETRY_CAP_SECS, PASSIVE_RETRY_MIN_SECS), CAPACITY_RETRY_CAP_SECS)
<1>c. cap \in Nat /\ Most(RETRY_CAP_SECS, PASSIVE_RETRY_MIN_SECS) <= cap
      /\ CAPACITY_RETRY_CAP_SECS <= cap
  BY DeliveryConstants DEF Most
<1> HIDE DEF cap
<1>1. Init => RetryWithinCap
  BY DEF Init, RetryWithinCap
<1>2. IInv /\ RetryWithinCap /\ [Next]_vars => RetryWithinCap'
  <2> SUFFICES ASSUME IInv, RetryWithinCap, [Next]_vars, NEW r \in queue'
               PROVE  r.next_attempt_at <= now' + cap
    BY DEF RetryWithinCap, cap
  <2>0. /\ now \in Nat /\ (now' = now \/ now' = now + 1)
        /\ \A q \in queue : q.next_attempt_at \in Nat /\ q.attempts \in 0..MaxAttempts
                             /\ q.next_attempt_at <= now + cap
    <3>1. now' = now \/ now' = now + 1
      BY DEF Next, vars, Send, MaterializePending, HandedOff, NotHandedOff, PeerRecords,
             ReceiveReceipt, ConsumeHandshake, RetireQueuePage, StoreDeviceList, Sweep, Restart,
             ClockAdvances
    <3> QED
      BY <3>1, DeliveryConstants DEF IInv, TypeOK, RetryWithinCap, cap
  <2>1. CASE r \in queue
    BY <2>0, <2>1, <1>c
  <2>2. ASSUME NEW m \in Messages, NEW D \in SUBSET Devices,
               Send(m, D) \/ MaterializePending(m, D), r \notin queue
        PROVE  r.next_attempt_at = now /\ now' = now
    BY <2>2 DEF Send, MaterializePending, Encrypt, NewRow
  <2>3. ASSUME NEW q \in queue, HandedOff(q), r \notin queue
        PROVE  r.next_attempt_at <= now + cap /\ now' = now
    <3> DEFINE a == AfterHandoff(q.attempts)
    <3>1. a \in 0..MaxAttempts
      BY <2>0, AttemptsStayInRange
    <3>2. RetryDelay(a) \in Nat /\ RetryDelay(a) <= cap
      BY <3>1, <1>c, RetryDelayBounded, DeliveryConstants DEF Most
    <3>3. r = Rescheduled(q, a, RetryDelay(a)) /\ now' = now
      BY <2>3 DEF HandedOff
    <3> HIDE DEF a
    <3> QED
      BY <2>0, <3>1, <3>2, <3>3, <1>c, RescheduledTyped DEF IInv
  <2>4. ASSUME NEW q \in queue, NEW refused \in BOOLEAN, NotHandedOff(q, refused), r \notin queue
        PROVE  r.next_attempt_at <= now + cap /\ now' = now
    <3> DEFINE a == OneMore(q.attempts)
    <3> DEFINE delay == IF refused THEN CapacityRetryDelay(a) ELSE RetryDelay(a)
    <3>1. a \in 0..MaxAttempts
      BY <2>0, AttemptsStayInRange
    <3>2. delay \in Nat /\ delay <= cap
      BY <3>1, <1>c, RetryDelayBounded, CapacityDelayBounded, DeliveryConstants DEF Most
    <3>3. r = Rescheduled(q, a, delay) /\ now' = now
      BY <2>4 DEF NotHandedOff
    <3> HIDE DEF a, delay
    <3> QED
      BY <2>0, <3>1, <3>2, <3>3, <1>c, RescheduledTyped DEF IInv
  <2>5. ASSUME r \notin queue
        PROVE  \/ \E m \in Messages, D \in SUBSET Devices : Send(m, D) \/ MaterializePending(m, D)
               \/ \E q \in queue : HandedOff(q) \/ \E refused \in BOOLEAN : NotHandedOff(q, refused)
    BY <2>5 DEF Next, vars, PeerRecords, ReceiveReceipt, ConsumeHandshake, RetireQueuePage,
                StoreDeviceList, Sweep, Restart, ClockAdvances
  <2> QED
    BY <2>0, <2>1, <2>2, <2>3, <2>4, <2>5, <1>c
<1> QED
  BY <1>1, <1>2, IInvHolds, PTL DEF Spec
=============================================================================
