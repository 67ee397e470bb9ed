------------------------ MODULE SessionHandshakeProofs ------------------------
(***************************************************************************)
(* Proofs about SessionHandshake, for any messages and any number of       *)
(* sessions.                                                               *)
(***************************************************************************)
EXTENDS SessionHandshake, TLAPS, FiniteSetTheorems

\* There are two devices.
LEMMA Pair ==
  ASSUME NEW d \in Device
  PROVE  /\ peer(d) \in Device /\ peer(d) # d /\ peer(peer(d)) = d
         /\ \A e \in Device : e = d \/ e = peer(d)
         /\ d \in Nat /\ peer(d) \in Nat
<1>1. PICK a \in Device, b \in Device : a < b /\ Device = {a, b}
  BY SessionConstants
<1>2. a \in Nat /\ b \in Nat /\ a # b
  BY <1>1, SessionConstants
<1>3. \A x \in Device : peer(x) \in Device /\ peer(x) # x
  <2> TAKE x \in Device
  <2>1. \E e \in Device : e # x
    BY <1>1, <1>2
  <2> QED
    BY <2>1 DEF peer
<1> QED
  BY <1>1, <1>2, <1>3

-----------------------------------------------------------------------------
(* Types                                                                   *)

\* An envelope, and what it carries.
Good(e) ==
  /\ e.kind \in {"Handshake", "Message", "Receipt"} /\ e.sid \in Sessions
  /\ e.kind = "Handshake" => e.msg \in Message \cup {None}
  /\ e.kind = "Message" => e.msg \in Message

QueueInv ==
  /\ queue = [x \in Device |-> queue[x]]
  /\ \A d \in Device : \A e \in queue[d] : e.from = d /\ Good(e)

NetInv == \A e \in net : e.from \in Device /\ Good(e)

DeliveryInv ==
  delivery \in [Message -> [state : {"none", "Open", "Delivered"}, wire : Sessions \cup {NoSession}]]

\* Only what arrived was consumed, and only what was consumed is acknowledged.
SeenInv ==
  /\ seen = [x \in Device |-> seen[x]] /\ replay = [x \in Device |-> replay[x]]
  /\ \A d \in Device : replay[d] \subseteq seen[d]
  /\ \A d \in Device : \A c \in seen[d] : \E e \in net : e.from = peer(d) /\ content_id(e) = c
  /\ \A d \in Device : \A e \in queue[d] \cup net :
       e.kind = "Receipt" /\ e.from = d => e.acks \in seen[d]

\* The envelopes there are.
Made == net \cup UNION {queue[d] : d \in Device}

\* A message that was not sent yet is nowhere, and one that carries its content id
\* was recorded once at most.
RecordInv ==
  /\ framed \subseteq Message /\ history \in [Message -> Nat]
  /\ \A m \in Message : delivery[m].state = "none" =>
       /\ m \notin framed /\ history[m] = 0
       /\ \A e \in Made : e.kind \in {"Handshake", "Message"} => e.msg # m
  /\ \A m \in framed : history[m] <= 1

TypeInv ==
  /\ session \in [Device -> Sessions \cup {NoSession}] /\ marker \in [Device -> BOOLEAN]
  /\ made \in Sessions /\ rescans \subseteq Rescans
  /\ QueueInv /\ NetInv /\ DeliveryInv /\ SeenInv /\ RecordInv

LEMMA SessionNumbers ==
  /\ MaxSession \in Nat /\ Sessions \subseteq Nat /\ NoSession \notin Sessions
  /\ \A s \in Sessions : s < MaxSession => s + 1 \in Sessions
  BY SessionConstants DEF Sessions, NoSession

\* The content id tells envelopes apart but for the intent of a flight.
LEMMA ContentIds ==
  ASSUME NEW e, NEW f, Good(e), Good(f), content_id(e) = content_id(f)
  PROVE  /\ e.kind = f.kind /\ e.sid = f.sid
         /\ e.kind # "Receipt" => e.msg = f.msg
<1>1. CASE e.kind = "Receipt" /\ f.kind = "Receipt"
  BY <1>1 DEF content_id
<1>2. CASE e.kind # "Receipt" /\ f.kind # "Receipt"
  BY <1>2 DEF content_id
<1>3. CASE e.kind = "Receipt" /\ f.kind # "Receipt"
  <2>1. content_id(e)[1] = "Receipt" /\ content_id(f)[1] = f.kind
    BY <1>3 DEF content_id
  <2> QED
    BY <1>3, <2>1
<1>4. CASE e.kind # "Receipt" /\ f.kind = "Receipt"
  <2>1. content_id(f)[1] = "Receipt" /\ content_id(e)[1] = e.kind
    BY <1>4 DEF content_id
  <2> QED
    BY <1>4, <2>1
<1> QED
  BY <1>1, <1>2, <1>3, <1>4

LEMMA MadeGood ==
  ASSUME NEW d \in Device, NEW s \in Sessions
  PROVE  /\ \A intent, prior : \A m \in Message \cup {None} :
              LET f == Flight(d, s, intent, prior, m)
              IN  /\ Good(f) /\ f.from = d /\ f.kind = "Handshake" /\ f.msg = m
                  /\ f.sid = s /\ f.intent = intent /\ f.prior = prior
         /\ \A m \in Message :
              LET f == Sealed(d, s, m)
              IN  Good(f) /\ f.from = d /\ f.kind = "Message" /\ f.msg = m /\ f.sid = s
         /\ \A c : LET r == Receipt(d, s, c)
                   IN  /\ Good(r) /\ r.from = d /\ r.kind = "Receipt" /\ r.acks = c
                       /\ r.sid = s
  BY DEF Good, Flight, Sealed, Receipt

\* The rows of one device change.
LEMMA RowsChange ==
  ASSUME QueueInv, NEW d \in Device, NEW rows, queue' = [queue EXCEPT ![d] = rows],
         \A e \in rows : e.from = d /\ Good(e)
  PROVE  QueueInv' /\ \A x \in Device : queue'[x] = IF x = d THEN rows ELSE queue[x]
<1>1. \A x \in Device : queue'[x] = IF x = d THEN rows ELSE queue[x]
  BY DEF QueueInv
<1>2. queue' = [x \in Device |-> queue'[x]]
  BY DEF QueueInv
<1> QED
  BY <1>1, <1>2 DEF QueueInv, Good

\* Rows are added or removed; what is new is no receipt, or acknowledges what the
\* device has consumed.
LEMMA SeenKept ==
  ASSUME SeenInv, UNCHANGED <<seen, replay>>, net \subseteq net',
         \A d \in Device : \A e \in queue'[d] \cup net' :
           e.kind = "Receipt" /\ e.from = d => e \in queue[d] \cup net \/ e.acks \in seen[d]
  PROVE  SeenInv'
<1>1. \A d \in Device : \A c \in seen'[d] : \E e \in net' : e.from = peer(d) /\ content_id(e) = c
  BY DEF SeenInv
<1>2. \A d \in Device : \A e \in queue'[d] \cup net' :
        e.kind = "Receipt" /\ e.from = d => e.acks \in seen'[d]
  BY DEF SeenInv
<1> QED
  BY <1>1, <1>2 DEF SeenInv

\* What keeps the record of who was sent what: a message is framed when it is sent,
\* and recorded after that.
LEMMA RecordKept ==
  ASSUME RecordInv, framed' \subseteq Message, history' \in [Message -> Nat],
         \A m \in Message : delivery'[m].state = "none" => delivery[m].state = "none",
         \A m \in framed' : m \in framed \/ (delivery[m].state = "none" /\ delivery'[m].state # "none"),
         \A m \in Message : \/ history'[m] = history[m]
                            \/ /\ delivery[m].state # "none"
                               /\ m \in framed => history'[m] <= 1,
         \A e \in Made' : e.kind \in {"Handshake", "Message"} =>
           e \in Made \/ e.msg \notin Message \/ delivery'[e.msg].state # "none"
  PROVE  RecordInv'
<1>1. ASSUME NEW m \in Message, delivery'[m].state = "none"
      PROVE  /\ m \notin framed' /\ history'[m] = 0
             /\ \A e \in Made' : e.kind \in {"Handshake", "Message"} => e.msg # m
  BY <1>1 DEF RecordInv
<1>2. ASSUME NEW m \in framed' PROVE history'[m] <= 1
  BY DEF RecordInv
<1> QED
  BY <1>1, <1>2 DEF RecordInv

\* A device holds or makes the session the copy goes under.
LEMMA CopyStep ==
  ASSUME TypeInv, NEW d \in Device, NEW m \in Message, QueueCopy(d, m),
         UNCHANGED <<net, seen, replay>>
  PROVE  /\ made' \in Sessions /\ session' \in [Device -> Sessions \cup {NoSession}]
         /\ \A x \in Device : x # d => session'[x] = session[x]
         /\ session'[d] \in Sessions
         /\ QueueInv' /\ SeenInv' /\ DeliveryInv'
         /\ \A x \in Message : delivery'[x] =
              IF x = m THEN [state |-> "Open", wire |-> session'[d]] ELSE delivery[x]
         /\ \A e \in Made' : e \in Made \/ e.msg = m
         /\ \/ /\ UNCHANGED <<session, made>> /\ session[d] # NoSession
               /\ \A x \in Device : queue'[x] =
                    IF x = d THEN queue[d] \cup {Sealed(d, session[d], m)} ELSE queue[x]
            \/ /\ session[d] = NoSession /\ prepare_session(d, m)
               /\ made' = made + 1 /\ session'[d] = made + 1
               /\ \A x \in Device : queue'[x] =
                    IF x = d THEN queue[d] \cup {Flight(d, made + 1, intent_of(d), session[d], m)}
                             ELSE queue[x]
<1> DEFINE f == IF session[d] = NoSession
                  THEN Flight(d, made + 1, intent_of(d), session[d], m)
                  ELSE Sealed(d, session[d], m)
<1>1. /\ made' \in Sessions /\ session' \in [Device -> Sessions \cup {NoSession}]
      /\ \A x \in Device : x # d => session'[x] = session[x]
      /\ session'[d] \in Sessions
      /\ queue' = [queue EXCEPT ![d] = queue[d] \cup {f}]
  <2>1. CASE EncryptCopy(d, m)
    BY <2>1, SessionNumbers DEF EncryptCopy, TypeInv
  <2>2. CASE session[d] = NoSession /\ prepare_session(d, m)
    <3>1. made + 1 \in Sessions
      BY <2>2, SessionNumbers DEF prepare_session, TypeInv
    <3> QED
      BY <2>2, <3>1 DEF prepare_session, TypeInv
  <2> QED
    BY <2>1, <2>2 DEF QueueCopy
<1>2. Good(f) /\ f.from = d /\ f.kind # "Receipt" /\ f.msg = m
  <2>1. CASE session[d] = NoSession
    <3>1. made + 1 \in Sessions
      BY <2>1, SessionNumbers DEF prepare_session, QueueCopy, EncryptCopy, TypeInv
    <3> QED
      BY <2>1, <3>1, MadeGood
  <2>2. CASE session[d] # NoSession
    <3>1. session[d] \in Sessions
      BY <2>2 DEF TypeInv
    <3> QED
      BY <2>2, <3>1, MadeGood
  <2> QED
    BY <2>1, <2>2
<1>3. /\ \/ UNCHANGED <<session, made>> /\ session[d] # NoSession
         \/ /\ session[d] = NoSession /\ prepare_session(d, m)
            /\ made' = made + 1 /\ session'[d] = made + 1
  BY DEF QueueCopy, EncryptCopy, prepare_session, TypeInv
<1>4. session[d] # NoSession => f = Sealed(d, session[d], m)
  OBVIOUS
<1>5. session[d] = NoSession => f = Flight(d, made + 1, intent_of(d), session[d], m)
  OBVIOUS
<1> HIDE DEF f
<1>6. \A e \in queue[d] \cup {f} : e.from = d /\ Good(e)
  BY <1>2 DEF TypeInv, QueueInv
<1>7. QueueInv' /\ \A x \in Device : queue'[x] = IF x = d THEN queue[d] \cup {f} ELSE queue[x]
  <2> DEFINE rows == queue[d] \cup {f}
  <2>1. queue' = [queue EXCEPT ![d] = rows] /\ \A e \in rows : e.from = d /\ Good(e)
    BY <1>1, <1>6
  <2> HIDE DEF rows
  <2>2. QueueInv' /\ \A x \in Device : queue'[x] = IF x = d THEN rows ELSE queue[x]
    BY <2>1, RowsChange, ZenonT(30) DEF TypeInv
  <2> QED
    BY <2>2 DEF rows
<1>8. SeenInv'
  <2>1. \A x \in Device : \A e \in queue'[x] \cup net' :
          e.kind = "Receipt" /\ e.from = x => e \in queue[x] \cup net \/ e.acks \in seen[x]
    BY <1>2, <1>7
  <2> QED
    BY <2>1, SeenKept DEF TypeInv
<1>9. \A e \in Made' : e \in Made \/ e.msg = m
  BY <1>2, <1>7 DEF Made
<1>10. /\ DeliveryInv'
       /\ \A x \in Message : delivery'[x] =
            IF x = m THEN [state |-> "Open", wire |-> session'[d]] ELSE delivery[x]
  <2>1. delivery' = [delivery EXCEPT ![m] = [state |-> "Open", wire |-> session'[d]]]
    BY DEF QueueCopy
  <2>2. [state |-> "Open", wire |-> session'[d]]
          \in [state : {"none", "Open", "Delivered"}, wire : Sessions \cup {NoSession}]
    BY <1>1
  <2> QED
    BY <2>1, <2>2 DEF TypeInv, DeliveryInv
<1> QED
  BY <1>1, <1>3, <1>4, <1>5, <1>7, <1>8, <1>9, <1>10

LEMMA SendTyped ==
  ASSUME TypeInv, NEW d \in Device, NEW m \in Message, send_message(d, m)
  PROVE  TypeInv'
<1>1. /\ delivery[m].state = "none" /\ QueueCopy(d, m) /\ UNCHANGED <<net, seen, replay, history, rescans>>
      /\ framed' = framed \/ framed' = framed \cup {m}
      /\ marker' = [marker EXCEPT ![d] = FALSE]
  BY DEF send_message
<1>2. /\ made' \in Sessions /\ session' \in [Device -> Sessions \cup {NoSession}]
      /\ QueueInv' /\ SeenInv' /\ DeliveryInv'
      /\ \A x \in Message : delivery'[x] =
           IF x = m THEN [state |-> "Open", wire |-> session'[d]] ELSE delivery[x]
      /\ \A e \in Made' : e \in Made \/ e.msg = m
  BY <1>1, CopyStep
<1>3. delivery'[m].state = "Open" /\ \A x \in Message : x = m \/ delivery'[x] = delivery[x]
  BY <1>2
<1>4. RecordInv'
  <2>1. framed' \subseteq Message /\ history' \in [Message -> Nat]
    BY <1>1 DEF TypeInv, RecordInv
  <2>2. \A x \in framed' : x \in framed \/ (delivery[x].state = "none" /\ delivery'[x].state # "none")
    BY <1>1, <1>3
  <2>3. \A e \in Made' : e.kind \in {"Handshake", "Message"} =>
           e \in Made \/ e.msg \notin Message \/ delivery'[e.msg].state # "none"
    BY <1>2, <1>3
  <2> QED
    BY <1>1, <1>3, <2>1, <2>2, <2>3, RecordKept DEF TypeInv
<1>5. NetInv'
  BY <1>1 DEF TypeInv, NetInv, Good
<1> QED
  BY <1>1, <1>2, <1>4, <1>5 DEF TypeInv

LEMMA ResealTyped ==
  ASSUME TypeInv, NEW d \in Device, NEW m \in Message,
         queue_pending_pairwise_device_deliveries(d, m)
  PROVE  TypeInv'
<1>1. /\ delivery[m] = [state |-> "Open", wire |-> NoSession] /\ QueueCopy(d, m)
      /\ UNCHANGED <<marker, framed, net, seen, replay, history, rescans>>
  BY DEF queue_pending_pairwise_device_deliveries
<1>2. /\ made' \in Sessions /\ session' \in [Device -> Sessions \cup {NoSession}]
      /\ QueueInv' /\ SeenInv' /\ DeliveryInv'
      /\ \A x \in Message : delivery'[x] =
           IF x = m THEN [state |-> "Open", wire |-> session'[d]] ELSE delivery[x]
      /\ \A e \in Made' : e \in Made \/ e.msg = m
  BY <1>1, CopyStep, ZenonT(30)
<1>3. delivery'[m].state = "Open" /\ \A x \in Message : x = m \/ delivery'[x] = delivery[x]
  BY <1>2
<1>4. RecordInv'
  <2>1. framed' \subseteq Message /\ history' \in [Message -> Nat]
    BY <1>1 DEF TypeInv, RecordInv
  <2>2. \A e \in Made' : e.kind \in {"Handshake", "Message"} =>
           e \in Made \/ e.msg \notin Message \/ delivery'[e.msg].state # "none"
    BY <1>2, <1>3
  <2> QED
    BY <1>1, <1>3, <2>1, <2>2, RecordKept DEF TypeInv
<1>5. NetInv'
  BY <1>1 DEF TypeInv, NetInv, Good
<1> QED
  BY <1>1, <1>2, <1>4, <1>5 DEF TypeInv

\* A flight without content.
LEMMA EmptyFlightTyped ==
  ASSUME TypeInv, NEW d \in Device, prepare_session(d, None), marker' \in [Device -> BOOLEAN],
         UNCHANGED <<delivery, framed, net, seen, replay, history, rescans>>
  PROVE  TypeInv' /\ \A x \in Device : queue'[x] =
           IF x = d THEN queue[d] \cup {Flight(d, made + 1, intent_of(d), session[d], None)}
                    ELSE queue[x]
<1> DEFINE f == Flight(d, made + 1, intent_of(d), session[d], None)
<1>1. /\ made' = made + 1 /\ made + 1 \in Sessions
      /\ session' = [session EXCEPT ![d] = made + 1]
      /\ queue' = [queue EXCEPT ![d] = queue[d] \cup {f}]
  BY SessionNumbers DEF prepare_session, TypeInv
<1>2. Good(f) /\ f.from = d /\ f.kind # "Receipt" /\ f.msg = None
  BY <1>1, MadeGood
<1> HIDE DEF f
<1>3. QueueInv' /\ \A x \in Device : queue'[x] = IF x = d THEN queue[d] \cup {f} ELSE queue[x]
  <2> DEFINE rows == queue[d] \cup {f}
  <2>1. queue' = [queue EXCEPT ![d] = rows] /\ \A e \in rows : e.from = d /\ Good(e)
    BY <1>1, <1>2 DEF TypeInv, QueueInv
  <2> HIDE DEF rows
  <2>2. QueueInv' /\ \A x \in Device : queue'[x] = IF x = d THEN rows ELSE queue[x]
    BY <2>1, RowsChange DEF TypeInv
  <2> QED
    BY <2>2 DEF rows
<1>4. SeenInv'
  <2>1. \A x \in Device : \A e \in queue'[x] \cup net' :
          e.kind = "Receipt" /\ e.from = x => e \in queue[x] \cup net \/ e.acks \in seen[x]
    BY <1>2, <1>3
  <2> QED
    BY <2>1, SeenKept DEF TypeInv
<1>5. RecordInv'
  <2>1. \A e \in Made' : e \in Made \/ e.msg \notin Message
    BY <1>2, <1>3, SessionConstants DEF Made
  <2>2. framed' \subseteq Message /\ history' \in [Message -> Nat]
    BY DEF TypeInv, RecordInv
  <2> QED
    BY <2>1, <2>2, RecordKept DEF TypeInv
<1>6. NetInv' /\ DeliveryInv'
  BY DEF TypeInv, NetInv, Good, DeliveryInv
<1>7. session' \in [Device -> Sessions \cup {NoSession}] /\ made' \in Sessions
  BY <1>1 DEF TypeInv
<1> QED
  BY <1>3, <1>4, <1>5, <1>6, <1>7 DEF TypeInv, f

LEMMA RekeyTyped ==
  ASSUME TypeInv, NEW d \in Device, rekey_reset_peers(d)
  PROVE  TypeInv'
<1>1. marker' \in [Device -> BOOLEAN]
  BY DEF rekey_reset_peers, TypeInv
<1>2. CASE prepare_session(d, None)
  BY <1>1, <1>2, EmptyFlightTyped DEF rekey_reset_peers
<1>3. CASE UNCHANGED <<session, made, queue>>
  <2>1. UNCHANGED <<delivery, framed, net, seen, replay, history, rescans>>
    BY DEF rekey_reset_peers
  <2> QED
    BY <1>1, <1>3, <2>1 DEF TypeInv, QueueInv, NetInv, Good, DeliveryInv, SeenInv, RecordInv, Made
<1> QED
  BY <1>2, <1>3 DEF rekey_reset_peers

LEMMA RehandshakeTyped ==
  ASSUME TypeInv, NEW d \in Device, process_rendezvous_rehandshakes(d)
  PROVE  TypeInv'
  BY EmptyFlightTyped DEF process_rendezvous_rehandshakes, TypeInv

\* Taking copies back leaves them open.
LEMMA TakenBackTyped ==
  ASSUME DeliveryInv, NEW d \in Device, delivery' = TakenBack(d)
  PROVE  /\ DeliveryInv' /\ \A m \in Message : delivery'[m].state = delivery[m].state
         /\ \A m \in Message : delivery'[m] =
              IF author[m] = d /\ delivery[m].state = "Open"
                THEN [state |-> "Open", wire |-> NoSession] ELSE delivery[m]
  BY DEF DeliveryInv, TakenBack

LEMMA RescanTyped ==
  ASSUME TypeInv, NEW d \in Device, reset_unconfirmed_session(d)
  PROVE  TypeInv'
<1> DEFINE affected == {m \in Message : author[m] = d /\ delivery[m].state = "Open"
                                        /\ delivery[m].wire # NoSession}
<1> DEFINE rows == {e \in queue[d] : ~(CarriesMessage(e) /\ e.msg \in affected)}
<1>1. /\ delivery' = TakenBack(d) /\ queue' = [queue EXCEPT ![d] = rows]
      /\ session' = [session EXCEPT ![d] = NoSession] /\ rescans' = rescans \ {d}
      /\ UNCHANGED <<marker, made, framed, net, seen, replay, history>>
  BY DEF reset_unconfirmed_session
<1>2. DeliveryInv' /\ \A m \in Message : delivery'[m].state = delivery[m].state
  BY <1>1, TakenBackTyped DEF TypeInv
<1>3. rows \subseteq queue[d]
  OBVIOUS
<1> HIDE DEF rows
<1>4. QueueInv' /\ \A x \in Device : queue'[x] = IF x = d THEN rows ELSE queue[x]
  <2>1. \A e \in rows : e.from = d /\ Good(e)
    BY <1>3 DEF TypeInv, QueueInv
  <2> QED
    BY <1>1, <2>1, RowsChange, ZenonT(30) DEF TypeInv
<1>5. \A x \in Device : queue'[x] \subseteq queue[x]
  BY <1>3, <1>4
<1>6. SeenInv'
  BY <1>1, <1>5, SeenKept DEF TypeInv
<1>7. RecordInv'
  <2>1. Made' \subseteq Made
    BY <1>1, <1>5 DEF Made
  <2>2. framed' \subseteq Message /\ history' \in [Message -> Nat]
    BY <1>1 DEF TypeInv, RecordInv
  <2> QED
    BY <1>1, <1>2, <2>1, <2>2, RecordKept DEF TypeInv
<1>8. NetInv'
  BY <1>1 DEF TypeInv, NetInv, Good
<1>9. session' \in [Device -> Sessions \cup {NoSession}] /\ rescans' \subseteq Rescans
  BY <1>1 DEF TypeInv
<1> QED
  BY <1>1, <1>2, <1>4, <1>6, <1>7, <1>8, <1>9 DEF TypeInv

LEMMA HandoffTyped ==
  ASSUME TypeInv, NEW d \in Device, NEW e \in queue[d], deliver_queue(d, e)
  PROVE  TypeInv'
<1>1. /\ net' = net \cup {e}
      /\ queue' = IF CarriesMessage(e) THEN queue ELSE [queue EXCEPT ![d] = queue[d] \ {e}]
      /\ UNCHANGED <<session, marker, made, delivery, framed, seen, replay, history, rescans>>
  BY DEF deliver_queue
<1>2. QueueInv' /\ \A x \in Device : queue'[x] \subseteq queue[x]
  <2>1. CASE CarriesMessage(e)
    BY <1>1, <2>1 DEF TypeInv, QueueInv, Good
  <2>2. CASE ~ CarriesMessage(e)
    <3> DEFINE rows == queue[d] \ {e}
    <3>1. queue' = [queue EXCEPT ![d] = rows] /\ \A x \in rows : x.from = d /\ Good(x)
      BY <1>1, <2>2 DEF TypeInv, QueueInv
    <3>2. rows \subseteq queue[d]
      OBVIOUS
    <3> HIDE DEF rows
    <3>3. QueueInv' /\ \A x \in Device : queue'[x] = IF x = d THEN rows ELSE queue[x]
      BY <3>1, RowsChange DEF TypeInv
    <3> QED
      BY <3>2, <3>3
  <2> QED
    BY <2>1, <2>2
<1>3. e.from = d /\ Good(e)
  BY DEF TypeInv, QueueInv
<1>4. NetInv'
  BY <1>1, <1>3 DEF TypeInv, NetInv, Good
<1>5. SeenInv'
  <2>1. \A x \in Device : \A y \in queue'[x] \cup net' :
          y.kind = "Receipt" /\ y.from = x => y \in queue[x] \cup net \/ y.acks \in seen[x]
    BY <1>1, <1>2, <1>3
  <2> QED
    BY <1>1, <2>1, SeenKept DEF TypeInv
<1>6. RecordInv'
  <2>1. Made' \subseteq Made
    BY <1>1, <1>2 DEF Made
  <2>2. framed' \subseteq Message /\ history' \in [Message -> Nat]
    BY <1>1 DEF TypeInv, RecordInv
  <2> QED
    BY <1>1, <2>1, <2>2, RecordKept DEF TypeInv
<1> QED
  BY <1>1, <1>2, <1>4, <1>5, <1>6 DEF TypeInv, DeliveryInv

\* Recording a message that was sent.
LEMMA RecordTyped ==
  ASSUME RecordInv, NEW m \in Message
  PROVE  /\ prepare_inbound(m) \in [Message -> Nat]
         /\ \A x \in Message : x # m => prepare_inbound(m)[x] = history[x]
         /\ m \in framed => prepare_inbound(m)[m] <= 1
<1>1. history \in [Message -> Nat] /\ history[m] \in Nat
  BY DEF RecordInv
<1>2. CASE m \in framed /\ history[m] > 0
  BY <1>1, <1>2 DEF prepare_inbound, RecordInv
<1>3. CASE ~ (m \in framed /\ history[m] > 0)
  <2>1. prepare_inbound(m) = [history EXCEPT ![m] = history[m] + 1]
    BY <1>3 DEF prepare_inbound
  <2>2. history[m] + 1 \in Nat /\ (m \in framed => history[m] + 1 <= 1)
    BY <1>1, <1>3
  <2> QED
    BY <1>1, <2>1, <2>2
<1> QED
  BY <1>2, <1>3

\* An envelope is consumed: its content recorded at most, one receipt queued at most.
Consumption(d, e, s, rows) ==
  /\ e.from = peer(d) /\ Consumed(d, e) /\ (UNCHANGED replay \/ Answered(d, e))
  /\ queue' = [queue EXCEPT ![d] = rows]
  /\ \A q \in rows : q \in queue[d] \/ q = Receipt(d, s, content_id(e))
  /\ \/ UNCHANGED history
     \/ e.kind # "Receipt" /\ e.msg \in Message /\ history' = prepare_inbound(e.msg)
  /\ UNCHANGED <<net, framed>>
  /\ \A m \in Message : delivery'[m].state = "none" => delivery[m].state = "none"

LEMMA ConsumeKept ==
  ASSUME TypeInv, NEW d \in Device, NEW e \in net, NEW s \in Sessions, NEW rows,
         Consumption(d, e, s, rows)
  PROVE  /\ QueueInv' /\ NetInv' /\ SeenInv' /\ RecordInv'
         /\ \A x \in Device : queue'[x] = IF x = d THEN rows ELSE queue[x]
         /\ \A x \in Device : seen'[x] = IF x = d THEN seen[d] \cup {content_id(e)} ELSE seen[x]
<1> USE DEF Consumption
<1> DEFINE r == Receipt(d, s, content_id(e))
<1>1. Good(r) /\ r.from = d /\ r.kind = "Receipt" /\ r.acks = content_id(e)
  BY MadeGood
<1> HIDE DEF r
<1>2. QueueInv' /\ \A x \in Device : queue'[x] = IF x = d THEN rows ELSE queue[x]
  <2>1. \A q \in rows : q.from = d /\ Good(q)
    BY <1>1 DEF TypeInv, QueueInv, r
  <2>2. QueueInv
    BY DEF TypeInv
  <2> QED
    BY <2>1, <2>2, RowsChange
<1>3. NetInv'
  BY DEF TypeInv, NetInv, Good
<1>4. /\ seen' = [x \in Device |-> seen'[x]]
      /\ \A x \in Device : seen'[x] = IF x = d THEN seen[d] \cup {content_id(e)} ELSE seen[x]
  BY DEF TypeInv, SeenInv, Consumed
<1>5. SeenInv'
  <2>1. replay' = [x \in Device |-> replay'[x]] /\ \A x \in Device : replay'[x] \subseteq seen'[x]
    <3>1. CASE UNCHANGED replay
      BY <1>4, <3>1 DEF TypeInv, SeenInv
    <3>2. CASE Answered(d, e)
      <4>1. \A x \in Device : replay'[x] = IF x = d THEN replay[d] \cup {content_id(e)} ELSE replay[x]
        BY <3>2 DEF TypeInv, SeenInv, Answered
      <4>2. replay' = [x \in Device |-> replay'[x]]
        BY <3>2 DEF TypeInv, SeenInv, Answered
      <4>3. \A x \in Device : replay[x] \subseteq seen[x]
        BY DEF TypeInv, SeenInv
      <4> QED
        BY <1>4, <4>1, <4>2, <4>3
    <3> QED
      BY <3>1, <3>2
  <2>2. \A x \in Device : \A c \in seen'[x] : \E y \in net' : y.from = peer(x) /\ content_id(y) = c
    <3> TAKE x \in Device
    <3> TAKE c \in seen'[x]
    <3>1. CASE c \in seen[x]
      BY <3>1 DEF TypeInv, SeenInv
    <3>2. CASE c \notin seen[x]
      BY <1>4, <3>2
    <3> QED
      BY <3>1, <3>2
  <2>3. \A x \in Device : \A y \in queue'[x] \cup net' :
          y.kind = "Receipt" /\ y.from = x => y.acks \in seen'[x]
    <3> TAKE x \in Device
    <3> TAKE y \in queue'[x] \cup net'
    <3>1. CASE y \in queue[x] \cup net
      BY <1>4, <3>1 DEF TypeInv, SeenInv
    <3>2. CASE y \notin queue[x] \cup net
      <4>1. x = d /\ y = r
        BY <1>2, <3>2 DEF r
      <4> QED
        BY <1>1, <1>4, <4>1
    <3> QED
      BY <3>1, <3>2
  <2> QED
    BY <1>4, <2>1, <2>2, <2>3 DEF SeenInv
<1>6. RecordInv'
  <2>1. \A y \in Made' : y.kind \in {"Handshake", "Message"} => y \in Made
    BY <1>1, <1>2 DEF Made, r
  <2>2. framed' \subseteq Message /\ history \in [Message -> Nat]
    BY DEF TypeInv, RecordInv
  <2>3. CASE UNCHANGED history
    BY <2>1, <2>2, <2>3, RecordKept DEF TypeInv
  <2>4. CASE e.kind # "Receipt" /\ e.msg \in Message /\ history' = prepare_inbound(e.msg)
    <3>1. e \in Made /\ e.kind \in {"Handshake", "Message"}
      BY <2>4 DEF Made, TypeInv, NetInv, Good
    <3>2. delivery[e.msg].state # "none"
      BY <2>4, <3>1 DEF TypeInv, RecordInv
    <3>3. /\ history' \in [Message -> Nat]
          /\ \A m \in Message : \/ history'[m] = history[m]
                                \/ delivery[m].state # "none" /\ (m \in framed => history'[m] <= 1)
      BY <2>4, <3>2, RecordTyped DEF TypeInv
    <3> QED
      BY <2>1, <2>2, <3>3, RecordKept DEF TypeInv
  <2> QED
    BY <2>3, <2>4
<1> QED
  BY <1>2, <1>3, <1>4, <1>5, <1>6

\* The flight is consumed, under session s if that is the one held afterwards.
LEMMA FirstPayloadKept ==
  ASSUME TypeInv, NEW d \in Device, NEW e \in net, e.from = peer(d), e.kind = "Handshake",
         Consumed(d, e), NEW s \in Sessions, NEW rows \in SUBSET queue[d],
         FirstPayload(d, e, s, rows), UNCHANGED <<net, framed>>,
         \A m \in Message : delivery'[m].state = "none" => delivery[m].state = "none"
  PROVE  /\ QueueInv' /\ NetInv' /\ SeenInv' /\ RecordInv'
         /\ \A x \in Device : seen'[x] = IF x = d THEN seen[d] \cup {content_id(e)} ELSE seen[x]
         /\ \A x \in Device : x # d => queue'[x] = queue[x]
         /\ \A q \in queue'[d] : q.kind # "Receipt" => q \in rows
         /\ rows \subseteq queue'[d]
<1> DEFINE r == Receipt(d, s, content_id(e))
<1> DEFINE now == rows \cup (IF e.msg # None \/ s # e.sid THEN {r} ELSE {})
<1>1. e.msg \in Message \cup {None}
  BY DEF TypeInv, NetInv, Good
<1>2. /\ queue' = [queue EXCEPT ![d] = now]
      /\ UNCHANGED replay \/ Answered(d, e)
      /\ UNCHANGED history \/ (e.msg \in Message /\ history' = prepare_inbound(e.msg))
  <2>1. queue' = [queue EXCEPT ![d] = now]
    BY DEF FirstPayload
  <2>2. UNCHANGED replay \/ Answered(d, e)
    BY DEF FirstPayload
  <2>3. UNCHANGED history \/ (e.msg \in Message /\ history' = prepare_inbound(e.msg))
    BY <1>1 DEF FirstPayload
  <2> QED
    BY <2>1, <2>2, <2>3
<1>3. r.kind = "Receipt"
  BY MadeGood
<1>4. /\ \A q \in now : q \in queue[d] \/ q = r
      /\ \A q \in now : q.kind # "Receipt" => q \in rows
      /\ rows \subseteq now
  BY <1>3
<1> HIDE DEF now
<1>5. /\ QueueInv' /\ NetInv' /\ SeenInv' /\ RecordInv'
      /\ \A x \in Device : queue'[x] = IF x = d THEN now ELSE queue[x]
      /\ \A x \in Device : seen'[x] = IF x = d THEN seen[d] \cup {content_id(e)} ELSE seen[x]
  <2>1. Consumption(d, e, s, now)
    BY <1>2, <1>4 DEF Consumption
  <2> QED
    BY <2>1, ConsumeKept
<1> QED
  BY <1>4, <1>5

\* What becomes of a flight.
LEMMA HandshakeTyped ==
  ASSUME TypeInv, NEW d \in Device, NEW e \in net, consume_handshake(d, e)
  PROVE  TypeInv'
<1>1. /\ e.from = peer(d) /\ e.kind = "Handshake" /\ Consumed(d, e)
      /\ UNCHANGED <<marker, made, framed, net, rescans>>
  BY DEF consume_handshake, Arrives
<1>2. e.sid \in Sessions
  BY DEF TypeInv, NetInv, Good
<1>3. CASE RejectFlight(d, e)
  <2>1. UNCHANGED <<session, delivery, queue, replay, history>>
    BY <1>3 DEF RejectFlight
  <2>2. queue' = [queue EXCEPT ![d] = queue[d]]
    BY <2>1 DEF TypeInv, QueueInv
  <2>3. Consumption(d, e, e.sid, queue[d])
    BY <1>1, <2>1, <2>2 DEF Consumption
  <2>4. QueueInv' /\ NetInv' /\ SeenInv' /\ RecordInv'
    BY <1>2, <2>3, ConsumeKept
  <2> QED
    BY <1>1, <2>1, <2>4 DEF TypeInv, DeliveryInv
<1>4. CASE KeepPriorSession(d, e)
  <2>1. FirstPayload(d, e, session[d], queue[d]) /\ UNCHANGED <<session, delivery>>
    BY <1>4 DEF KeepPriorSession
  <2>2. session[d] \in Sessions
    BY <1>4 DEF KeepPriorSession, decide_inbound_session, TypeInv
  <2>3. QueueInv' /\ NetInv' /\ SeenInv' /\ RecordInv'
    BY <1>1, <2>1, <2>2, FirstPayloadKept
  <2> QED
    BY <1>1, <2>1, <2>3 DEF TypeInv, DeliveryInv
<1>5. CASE AcceptInbound(d, e)
  <2>1. session' = [session EXCEPT ![d] = e.sid]
    BY <1>5 DEF AcceptInbound
  <2>2. session' \in [Device -> Sessions \cup {NoSession}]
    BY <1>2, <2>1 DEF TypeInv
  <2>3. CASE FirstPayload(d, e, e.sid, queue[d]) /\ UNCHANGED delivery
    <3>1. QueueInv' /\ NetInv' /\ SeenInv' /\ RecordInv'
      BY <1>1, <1>2, <2>3, FirstPayloadKept
    <3> QED
      BY <1>1, <2>2, <2>3, <3>1 DEF TypeInv, DeliveryInv
  <2>4. CASE FirstPayload(d, e, e.sid, {}) /\ delivery' = TakenBack(d)
    <3>1. DeliveryInv' /\ \A m \in Message : delivery'[m].state = delivery[m].state
      BY <2>4, TakenBackTyped DEF TypeInv
    <3>2. {} \in SUBSET queue[d]
      OBVIOUS
    <3>3. QueueInv' /\ NetInv' /\ SeenInv' /\ RecordInv'
      BY <1>1, <1>2, <2>4, <3>1, <3>2, FirstPayloadKept
    <3> QED
      BY <1>1, <2>2, <3>1, <3>3 DEF TypeInv
  <2> QED
    BY <1>5, <2>3, <2>4 DEF AcceptInbound
<1> QED
  BY <1>3, <1>4, <1>5 DEF consume_handshake

LEMMA MessageTyped ==
  ASSUME TypeInv, NEW d \in Device, NEW e \in net, consume_message(d, e)
  PROVE  TypeInv' /\ \A x \in Device : /\ queue[x] \subseteq queue'[x]
                                       /\ \A q \in queue'[x] : q.kind # "Receipt" => q \in queue[x]
<1> DEFINE r == Receipt(d, e.sid, content_id(e))
<1> DEFINE rows == queue[d] \cup {r}
<1>1. /\ e.from = peer(d) /\ e.kind = "Message" /\ Consumed(d, e) /\ Answered(d, e)
      /\ history' = prepare_inbound(e.msg) /\ queue' = [queue EXCEPT ![d] = rows]
      /\ UNCHANGED <<session, marker, made, delivery, framed, net, rescans>>
  BY DEF consume_message, Arrives
<1>2. e.sid \in Sessions /\ e.msg \in Message
  BY <1>1 DEF TypeInv, NetInv, Good
<1>3. queue[d] \subseteq rows /\ \A q \in rows : q \in queue[d] \/ q = r
  OBVIOUS
<1>4. r.kind = "Receipt"
  BY <1>2, MadeGood
<1> HIDE DEF rows
<1>5. /\ QueueInv' /\ NetInv' /\ SeenInv' /\ RecordInv'
      /\ \A x \in Device : queue'[x] = IF x = d THEN rows ELSE queue[x]
  <2>1. Consumption(d, e, e.sid, rows)
    BY <1>1, <1>2, <1>3 DEF Consumption
  <2> QED
    BY <1>2, <2>1, ConsumeKept
<1> QED
  BY <1>1, <1>3, <1>4, <1>5 DEF TypeInv, DeliveryInv

LEMMA ReceiptTyped ==
  ASSUME TypeInv, NEW d \in Device, NEW e \in net, consume_receipt(d, e)
  PROVE  /\ TypeInv'
         /\ \A x \in Device : queue'[x] =
              IF x = d THEN {q \in queue[d] : content_id(q) # e.acks} ELSE queue[x]
         /\ \A m \in Message : \/ delivery'[m] = delivery[m]
                               \/ delivery'[m].state = "Delivered"
<1> DEFINE rows == {q \in queue[d] : content_id(q) # e.acks}
<1>1. /\ e.from = peer(d) /\ e.kind = "Receipt" /\ Consumed(d, e) /\ Acknowledge(d, e.acks)
      /\ queue' = [queue EXCEPT ![d] = rows]
      /\ UNCHANGED <<session, marker, made, framed, net, replay, history, rescans>>
  BY DEF consume_receipt, Arrives, Acknowledge
<1>2. e.sid \in Sessions
  BY DEF TypeInv, NetInv, Good
<1>3. \A q \in rows : q \in queue[d]
  OBVIOUS
<1> HIDE DEF rows
<1>4. /\ DeliveryInv'
      /\ \A m \in Message : \/ delivery'[m] = delivery[m]
                            \/ delivery'[m].state = "Delivered"
  <2>1. \A m \in Message : /\ delivery[m] \in [state : {"none", "Open", "Delivered"},
                                              wire : Sessions \cup {NoSession}]
                           /\ [delivery[m] EXCEPT !.state = "Delivered"]
                                \in [state : {"none", "Open", "Delivered"},
                                     wire : Sessions \cup {NoSession}]
                           /\ [delivery[m] EXCEPT !.state = "Delivered"].state = "Delivered"
    BY DEF TypeInv, DeliveryInv
  <2>2. /\ delivery' = [m \in Message |-> delivery'[m]]
        /\ \A m \in Message : \/ delivery'[m] = delivery[m]
                              \/ delivery'[m] = [delivery[m] EXCEPT !.state = "Delivered"]
    BY <1>1 DEF Acknowledge
  <2> QED
    BY <2>1, <2>2 DEF DeliveryInv
<1>5. /\ QueueInv' /\ NetInv' /\ SeenInv' /\ RecordInv'
      /\ \A x \in Device : queue'[x] = IF x = d THEN rows ELSE queue[x]
  <2>1. \A m \in Message : delivery'[m].state = "none" => delivery[m].state = "none"
    BY <1>4
  <2>2. Consumption(d, e, e.sid, rows)
    BY <1>1, <1>3, <2>1 DEF Consumption
  <2> QED
    BY <1>2, <2>2, ConsumeKept
<1>6. TypeInv'
  BY <1>1, <1>4, <1>5 DEF TypeInv
<1> QED
  BY <1>4, <1>5, <1>6 DEF rows

LEMMA ReplayTyped ==
  ASSUME TypeInv, NEW d \in Device, NEW e \in net, replay_receipt(d, e)
  PROVE  TypeInv' /\ \A x \in Device : /\ queue[x] \subseteq queue'[x]
                                       /\ \A q \in queue'[x] : q.kind # "Receipt" => q \in queue[x]
<1> DEFINE r == Receipt(d, session[d], content_id(e))
<1> DEFINE rows == queue[d] \cup {r}
<1>1. /\ session[d] # NoSession /\ content_id(e) \in replay[d]
      /\ queue' = [queue EXCEPT ![d] = rows]
      /\ UNCHANGED <<session, marker, made, delivery, framed, net, seen, replay, history, rescans>>
  BY DEF replay_receipt
<1>2. session[d] \in Sessions /\ content_id(e) \in seen[d]
  BY <1>1 DEF TypeInv, SeenInv
<1>3. Good(r) /\ r.from = d /\ r.kind = "Receipt" /\ r.acks = content_id(e)
  BY <1>2, MadeGood
<1> HIDE DEF r
<1>4. \A q \in rows : q.from = d /\ Good(q)
  BY <1>3 DEF TypeInv, QueueInv
<1>5. \A q \in rows : q \in queue[d] \/ q = r
  OBVIOUS
<1>6. queue[d] \subseteq rows
  OBVIOUS
<1> HIDE DEF rows
<1>7. QueueInv' /\ \A x \in Device : queue'[x] = IF x = d THEN rows ELSE queue[x]
  BY <1>1, <1>4, RowsChange, ZenonT(30) DEF TypeInv
<1>8. SeenInv'
  <2>1. \A x \in Device : \A y \in queue'[x] \cup net' :
          y.kind = "Receipt" /\ y.from = x => y \in queue[x] \cup net \/ y.acks \in seen[x]
    BY <1>1, <1>2, <1>3, <1>5, <1>7
  <2> QED
    BY <1>1, <2>1, SeenKept DEF TypeInv
<1>9. RecordInv'
  <2>1. \A y \in Made' : y.kind \in {"Handshake", "Message"} => y \in Made
    BY <1>1, <1>3, <1>5, <1>7 DEF Made
  <2>2. framed' \subseteq Message /\ history' \in [Message -> Nat]
    BY <1>1 DEF TypeInv, RecordInv
  <2> QED
    BY <1>1, <2>1, <2>2, RecordKept DEF TypeInv
<1>10. TypeInv'
  BY <1>1, <1>7, <1>8, <1>9 DEF TypeInv, DeliveryInv, NetInv, Good
<1> QED
  BY <1>3, <1>5, <1>6, <1>7, <1>10

LEMMA TypeInit == Init => TypeInv
<1> SUFFICES ASSUME Init PROVE TypeInv
  OBVIOUS
<1>1. 0 \in Sessions /\ PriorSession \in Sessions
  BY SessionConstants DEF Sessions, PriorSession
<1>2. PICK start \in Starts :
        /\ session = [d \in Device |-> IF start.legacy THEN PriorSession ELSE NoSession]
        /\ marker = [d \in Device |-> d \in start.restored]
  BY DEF Init
<1>3. session \in [Device -> Sessions \cup {NoSession}] /\ marker \in [Device -> BOOLEAN]
  BY <1>1, <1>2
<1>4. /\ made = 0 /\ framed = {} /\ net = {} /\ rescans = Rescans
      /\ queue = [d \in Device |-> {}] /\ seen = [d \in Device |-> {}]
      /\ replay = [d \in Device |-> {}]
      /\ history = [m \in Message |-> 0]
      /\ delivery = [m \in Message |-> [state |-> "none", wire |-> NoSession]]
  BY DEF Init
<1>5. Made = {}
  BY <1>4 DEF Made
<1> QED
  BY <1>1, <1>3, <1>4, <1>5 DEF TypeInv, QueueInv, NetInv, DeliveryInv, SeenInv, RecordInv

LEMMA TypeNext == TypeInv /\ [Next]_vars => TypeInv'
<1> SUFFICES ASSUME TypeInv, [Next]_vars PROVE TypeInv'
  OBVIOUS
<1>1. ASSUME NEW d \in Device, Send(d) PROVE TypeInv'
  BY <1>1, SendTyped, ResealTyped, RekeyTyped, RehandshakeTyped, RescanTyped, HandoffTyped DEF Send
<1>2. ASSUME NEW d \in Device, Receive(d) PROVE TypeInv'
  BY <1>2, HandshakeTyped, MessageTyped, ReceiptTyped, ReplayTyped DEF Receive
<1>3. CASE UNCHANGED vars
  BY <1>3 DEF vars, TypeInv, QueueInv, NetInv, Good, DeliveryInv, SeenInv, RecordInv, Made
<1> QED
  BY <1>1, <1>2, <1>3 DEF Next

LEMMA TypeAlways == Spec => []TypeInv
  BY TypeInit, TypeNext, PTL DEF Spec

\* Every table of a device stays well formed, and duplicates are answered only for
\* envelopes that were consumed, whatever crosses and however often sessions change.
THEOREM TypeCorrect == Spec => []TypeOK
<1>1. TypeInv => TypeOK
  BY DEF TypeInv, TypeOK, QueueInv, NetInv, Good, DeliveryInv, SeenInv, RecordInv
<1> QED
  BY <1>1, TypeAlways, PTL

\* A body that carries its content id enters the history once at most
\* (prepare_inbound), for any number of sessions, rescans and starts: nothing that
\* carries it exists before it is framed, and from then on every copy is compared.
THEOREM FramedRecordedOnceHolds == Spec => []FramedRecordedOnce
<1>1. TypeInv => FramedRecordedOnce
  BY DEF TypeInv, RecordInv, FramedRecordedOnce
<1> QED
  BY <1>1, TypeAlways, PTL

-----------------------------------------------------------------------------
(* Open copies                                                             *)

\* Neither device has a session of an earlier release.
NoLegacy == \A s \in Starts : ~ s.legacy

CopiesInv ==
  /\ OpenCopiesAreCurrent
  /\ \A d \in Device : session[d] # PriorSession
  /\ \A e \in Made : e.kind = "Handshake" => e.sid # PriorSession

\* The copies of the other device are not touched.
LEMMA CopiesKept ==
  ASSUME CopiesInv, NEW d \in Device, \A x \in Device : x # d => session'[x] = session[x],
         session'[d] # PriorSession,
         \A m \in Message : author[m] # d => \/ delivery'[m] = delivery[m]
                                             \/ delivery'[m].state # "Open",
         \A m \in Message : author[m] = d /\ delivery'[m].state = "Open" =>
            delivery'[m].wire \in {session'[d], NoSession},
         \A e \in Made' : e.kind = "Handshake" => e \in Made \/ e.sid # PriorSession
  PROVE  CopiesInv'
<1>1. \A m \in Message : author[m] \in Device
  BY SessionConstants
<1>2. ASSUME NEW m \in Message, delivery'[m].state = "Open"
      PROVE  delivery'[m].wire \in {session'[author[m]], NoSession}
  BY <1>1, <1>2 DEF CopiesInv, OpenCopiesAreCurrent
<1>3. OpenCopiesAreCurrent'
  BY <1>2 DEF OpenCopiesAreCurrent
<1> QED
  BY <1>3 DEF CopiesInv

LEMMA CopiesSend ==
  ASSUME TypeInv, CopiesInv, NEW d \in Device, Send(d)
  PROVE  CopiesInv'
<1>1. /\ made \in Nat /\ made + 1 # PriorSession /\ MaxSession \in Nat
      /\ \A x \in Device : session[x] \in Sessions \cup {NoSession}
  BY SessionConstants DEF TypeInv, Sessions, PriorSession
<1>2. ASSUME NEW m \in Message, author[m] = d, QueueCopy(d, m), UNCHANGED <<net, seen, replay>>
      PROVE  CopiesInv'
  <2>1. /\ \A x \in Device : x # d => session'[x] = session[x]
        /\ \A x \in Message : delivery'[x] =
              IF x = m THEN [state |-> "Open", wire |-> session'[d]] ELSE delivery[x]
        /\ \/ /\ UNCHANGED <<session, made>> /\ session[d] # NoSession
              /\ \A x \in Device : queue'[x] =
                   IF x = d THEN queue[d] \cup {Sealed(d, session[d], m)} ELSE queue[x]
           \/ /\ session[d] = NoSession /\ prepare_session(d, m)
              /\ made' = made + 1 /\ session'[d] = made + 1
              /\ \A x \in Device : queue'[x] =
                   IF x = d THEN queue[d] \cup {Flight(d, made + 1, intent_of(d), session[d], m)}
                            ELSE queue[x]
    BY <1>2, CopyStep, ZenonT(30)
  <2>2. session'[d] # PriorSession
    BY <1>1, <2>1 DEF CopiesInv
  <2>3. \A e \in Made' : e.kind = "Handshake" => e \in Made \/ e.sid # PriorSession
    <3>1. Sealed(d, session[d], m).kind # "Handshake"
      BY DEF Sealed
    <3>2. Flight(d, made + 1, intent_of(d), session[d], m).sid # PriorSession
      BY <1>1 DEF Flight
    <3> QED
      BY <1>2, <2>1, <3>1, <3>2 DEF Made
  <2>4. ASSUME NEW x \in Message, author[x] = d, delivery'[x].state = "Open"
        PROVE  delivery'[x].wire \in {session'[d], NoSession}
    <3>1. CASE x = m
      BY <2>1, <3>1
    <3>2. CASE x # m
      <4>1. delivery[x].wire \in {session[d], NoSession}
        BY <2>1, <2>4, <3>2 DEF CopiesInv, OpenCopiesAreCurrent
      <4> QED
        BY <2>1, <3>2, <4>1
    <3> QED
      BY <3>1, <3>2
  <2> QED
    BY <1>2, <2>1, <2>2, <2>3, <2>4, CopiesKept
<1>3. ASSUME NEW f, \A x \in Device : queue'[x] \subseteq queue[x] \cup {f},
             f.sid # PriorSession, net' = net, UNCHANGED delivery,
             session[d] = NoSession, \A x \in Device : x # d => session'[x] = session[x],
             session'[d] # PriorSession
      PROVE  CopiesInv'
  <2>1. \A e \in Made' : e.kind = "Handshake" => e \in Made \/ e.sid # PriorSession
    BY <1>3 DEF Made
  <2>2. \A x \in Message : author[x] = d /\ delivery'[x].state = "Open" =>
           delivery'[x].wire \in {session'[d], NoSession}
    BY <1>3 DEF CopiesInv, OpenCopiesAreCurrent
  <2> QED
    BY <1>3, <2>1, <2>2, CopiesKept
<1>4. CASE \E m \in Message : send_message(d, m) \/ queue_pending_pairwise_device_deliveries(d, m)
  BY <1>2, <1>4 DEF send_message, queue_pending_pairwise_device_deliveries
<1>5. CASE rekey_reset_peers(d)
  <2>1. UNCHANGED <<delivery, net, seen, replay, framed, history, rescans>> /\ marker' \in [Device -> BOOLEAN]
    BY <1>5 DEF rekey_reset_peers, TypeInv
  <2>2. CASE session[d] = NoSession /\ prepare_session(d, None)
    <3> DEFINE f == Flight(d, made + 1, intent_of(d), session[d], None)
    <3>1. \A x \in Device : queue'[x] = IF x = d THEN queue[d] \cup {f} ELSE queue[x]
      BY <2>1, <2>2, EmptyFlightTyped
    <3>2. f.sid # PriorSession
      BY <1>1 DEF Flight
    <3> HIDE DEF f
    <3>3. session'[d] # PriorSession /\ \A x \in Device : x # d => session'[x] = session[x]
      BY <1>1, <2>2 DEF prepare_session, TypeInv
    <3> QED
      BY <1>3, <2>1, <2>2, <3>1, <3>2, <3>3
  <2>3. CASE UNCHANGED <<session, made, queue>>
    BY <2>1, <2>3 DEF CopiesInv, OpenCopiesAreCurrent, Made
  <2> QED
    BY <1>5, <2>2, <2>3 DEF rekey_reset_peers
<1>6. CASE process_rendezvous_rehandshakes(d)
  BY <1>6 DEF process_rendezvous_rehandshakes, CopiesInv
<1>7. CASE reset_unconfirmed_session(d)
  <2>1. /\ delivery' = TakenBack(d) /\ session' = [session EXCEPT ![d] = NoSession] /\ net' = net
        /\ \E rows \in SUBSET queue[d] : queue' = [queue EXCEPT ![d] = rows]
    BY <1>7 DEF reset_unconfirmed_session
  <2>2. Made' \subseteq Made
    BY <2>1 DEF Made, TypeInv, QueueInv
  <2>3. session'[d] = NoSession /\ \A x \in Device : x # d => session'[x] = session[x]
    BY <2>1 DEF TypeInv
  <2>4. NoSession # PriorSession
    BY <1>1 DEF NoSession, PriorSession
  <2>5. \A m \in Message : delivery'[m] =
              IF author[m] = d /\ delivery[m].state = "Open"
                THEN [state |-> "Open", wire |-> NoSession] ELSE delivery[m]
    BY <2>1, TakenBackTyped DEF TypeInv
  <2> QED
    BY <2>2, <2>3, <2>4, <2>5, CopiesKept
<1>8. CASE \E e \in queue[d] : deliver_queue(d, e)
  <2>1. PICK e \in queue[d] : deliver_queue(d, e)
    BY <1>8
  <2>2. Made' \subseteq Made /\ UNCHANGED <<session, delivery>>
    BY <2>1 DEF deliver_queue, Made, TypeInv, QueueInv
  <2> QED
    BY <2>2 DEF CopiesInv, OpenCopiesAreCurrent
<1> QED
  BY <1>4, <1>5, <1>6, <1>7, <1>8 DEF Send

LEMMA CopiesReceive ==
  ASSUME TypeInv, CopiesInv, NEW d \in Device, NEW e \in net,
         \/ consume_handshake(d, e) \/ consume_message(d, e)
         \/ consume_receipt(d, e) \/ replay_receipt(d, e)
  PROVE  CopiesInv'
<1>2. ASSUME UNCHANGED <<session, net>>,
             \A x \in Device : \A q \in queue'[x] : q.kind # "Receipt" => q \in queue[x],
             \A m \in Message : delivery'[m] = delivery[m] \/ delivery'[m].state # "Open"
      PROVE  CopiesInv'
  <2>1. \A q \in Made' : q.kind = "Handshake" => q \in Made
    BY <1>2 DEF Made
  <2> QED
    BY <1>2, <2>1 DEF CopiesInv, OpenCopiesAreCurrent
<1>3. CASE consume_message(d, e)
  BY <1>2, <1>3, MessageTyped DEF consume_message
<1>4. CASE replay_receipt(d, e)
  BY <1>2, <1>4, ReplayTyped DEF replay_receipt
<1>5. CASE consume_receipt(d, e)
  BY <1>2, <1>5, ReceiptTyped DEF consume_receipt
<1>6. CASE consume_handshake(d, e)
  <2>1. e.from = peer(d) /\ e.kind = "Handshake" /\ Consumed(d, e) /\ UNCHANGED <<net, framed>>
    BY <1>6 DEF consume_handshake, Arrives
  <2>2. e.sid \in Sessions /\ e.sid # PriorSession /\ e \in Made
    BY <2>1 DEF TypeInv, NetInv, Good, CopiesInv, Made
  <2>3. CASE RejectFlight(d, e)
    BY <1>2, <2>1, <2>3 DEF RejectFlight
  <2>4. CASE KeepPriorSession(d, e)
    <3>1. FirstPayload(d, e, session[d], queue[d]) /\ UNCHANGED <<session, delivery>>
      BY <2>4 DEF KeepPriorSession
    <3>2. session[d] \in Sessions
      BY <2>4 DEF KeepPriorSession, decide_inbound_session, TypeInv
    <3>3. /\ \A x \in Device : x # d => queue'[x] = queue[x]
          /\ \A q \in queue'[d] : q.kind # "Receipt" => q \in queue[d]
      BY <2>1, <3>1, <3>2, FirstPayloadKept
    <3> QED
      BY <1>2, <2>1, <3>1, <3>3
  <2>5. CASE AcceptInbound(d, e)
    <3>1. /\ session'[d] = e.sid /\ \A x \in Device : x # d => session'[x] = session[x]
      BY <2>5 DEF AcceptInbound, TypeInv
    <3>2. CASE session[d] = NoSession /\ FirstPayload(d, e, e.sid, queue[d]) /\ UNCHANGED delivery
      <4>1. /\ \A x \in Device : x # d => queue'[x] = queue[x]
            /\ \A q \in queue'[d] : q.kind # "Receipt" => q \in queue[d]
        BY <2>1, <2>2, <3>2, FirstPayloadKept
      <4>2. \A q \in Made' : q.kind = "Handshake" => q \in Made
        BY <2>1, <4>1 DEF Made
      <4>3. \A m \in Message : author[m] = d /\ delivery'[m].state = "Open" =>
               delivery'[m].wire \in {session'[d], NoSession}
        BY <3>2 DEF CopiesInv, OpenCopiesAreCurrent
      <4> QED
        BY <2>2, <3>1, <3>2, <4>2, <4>3, CopiesKept
    <3>3. CASE FirstPayload(d, e, e.sid, {}) /\ delivery' = TakenBack(d)
      <4>1. /\ \A m \in Message : delivery'[m] =
              IF author[m] = d /\ delivery[m].state = "Open"
                THEN [state |-> "Open", wire |-> NoSession] ELSE delivery[m]
            /\ \A m \in Message : delivery'[m].state = delivery[m].state
        BY <3>3, TakenBackTyped DEF TypeInv
      <4> DEFINE rows == {}
      <4>2. rows \in SUBSET queue[d] /\ FirstPayload(d, e, e.sid, rows)
        BY <3>3
      <4> HIDE DEF rows
      <4>3. /\ \A x \in Device : x # d => queue'[x] = queue[x]
            /\ \A q \in queue'[d] : q.kind # "Receipt" => q \in rows
        BY <2>1, <2>2, <4>1, <4>2, FirstPayloadKept
      <4>4. /\ \A x \in Device : x # d => queue'[x] = queue[x]
            /\ \A q \in queue'[d] : q.kind = "Receipt"
        BY <4>3 DEF rows
      <4>5. \A q \in Made' : q.kind = "Handshake" => q \in Made
        BY <2>1, <4>4 DEF Made
      <4> QED
        BY <2>2, <3>1, <4>1, <4>5, CopiesKept
    <3> QED
      BY <2>5, <3>2, <3>3 DEF AcceptInbound
  <2> QED
    BY <1>6, <2>3, <2>4, <2>5 DEF consume_handshake
<1> QED
  BY <1>3, <1>4, <1>5, <1>6

\* An open copy is sealed under the session its author holds or waits to be sealed,
\* however flights cross and bundles are scanned: whoever changes its session takes
\* its copies back.  Sessions of an earlier release are excluded: replacing one
\* (process_rendezvous_rehandshakes) leaves its copies to their receipts.
THEOREM OpenCopiesHold ==
  ASSUME NoLegacy
  PROVE  Spec => []OpenCopiesAreCurrent
<1>1. Init => CopiesInv
  <2> SUFFICES ASSUME Init PROVE CopiesInv
    OBVIOUS
  <2>1. NoSession # PriorSession
    BY SessionConstants DEF NoSession, PriorSession
  <2>2. \A d \in Device : session[d] = NoSession
    BY DEF Init, NoLegacy
  <2>3. Made = {}
    BY DEF Init, Made
  <2>4. \A m \in Message : delivery[m].state = "none"
    BY DEF Init
  <2> QED
    BY <2>1, <2>2, <2>3, <2>4 DEF CopiesInv, OpenCopiesAreCurrent
<1>2. TypeInv /\ CopiesInv /\ [Next]_vars => CopiesInv'
  <2> SUFFICES ASSUME TypeInv, CopiesInv, [Next]_vars PROVE CopiesInv'
    OBVIOUS
  <2>1. CASE UNCHANGED vars
    BY <2>1 DEF vars, CopiesInv, OpenCopiesAreCurrent, Made
  <2> QED
    BY <2>1, CopiesSend, CopiesReceive DEF Next, Receive
<1>3. CopiesInv => OpenCopiesAreCurrent
  BY DEF CopiesInv
<1> QED
  BY <1>1, <1>2, <1>3, TypeAlways, PTL DEF Spec

-----------------------------------------------------------------------------
(* Crossing flights                                                        *)

\* No bundle is scanned again, no session is inherited, and only the lower device
\* may have been minted by a restore: the higher one's reset would win against the
\* lower one's flight on one side only.
Crossing ==
  /\ Rescans = {} /\ NoLegacy
  /\ \A s \in Starts : \A d \in s.restored : d < peer(d)

Flown(d) == {e \in queue[d] \cup net : e.kind = "Handshake" /\ e.from = d}
Taken(e, d) == content_id(e) \in seen[d]

OneFlight == \A d \in Device : \A e, f \in Flown(d) : e = f

Intents ==
  \A d \in Device :
    /\ \A e \in Flown(d) : /\ e.intent \in {"Establish", "Reset"}
                           /\ peer(d) < d => e.intent = "Establish"
    /\ peer(d) < d => ~ marker[d]

\* The lower device holds the session of its own flight; without one, that of the
\* flight it has taken.
Lower(d) ==
  /\ \A e \in Flown(d) : session[d] = e.sid
  /\ Flown(d) = {} =>
       \/ session[d] = NoSession /\ \A e \in Flown(peer(d)) : ~ Taken(e, d)
       \/ \E e \in Flown(peer(d)) : e \in net /\ session[d] = e.sid

\* The higher device holds the session of the flight it has taken; before that, its
\* own.
Higher(d) ==
  /\ \A e \in Flown(peer(d)) : Taken(e, d) => session[d] = e.sid
  /\ (\A e \in Flown(peer(d)) : ~ Taken(e, d)) =>
       \/ session[d] = NoSession /\ Flown(d) = {}
       \/ \E e \in Flown(d) : session[d] = e.sid

FlightInv ==
  /\ OneFlight /\ Intents /\ rescans = {}
  /\ \A d \in Device : (d < peer(d) => Lower(d)) /\ (peer(d) < d => Higher(d))

\* A flight that was taken has arrived.
LEMMA TakenArrived ==
  ASSUME TypeInv, NEW d \in Device, NEW e, Good(e), e.kind = "Handshake", Taken(e, d)
  PROVE  \E f \in Flown(peer(d)) : f \in net /\ content_id(f) = content_id(e)
<1>1. PICK f \in net : f.from = peer(d) /\ content_id(f) = content_id(e)
  BY DEF TypeInv, SeenInv, Taken
<1>2. Good(f)
  BY DEF TypeInv, NetInv
<1>3. f.kind = "Handshake"
  BY <1>1, <1>2, ContentIds
<1> QED
  BY <1>1, <1>3 DEF Flown

LEMMA FlownGood ==
  ASSUME TypeInv, NEW d \in Device, NEW e \in Flown(d)
  PROVE  Good(e) /\ e.kind = "Handshake" /\ e.from = d /\ e.sid \in Sessions /\ e.sid # NoSession
  BY SessionNumbers DEF Flown, TypeInv, QueueInv, NetInv, Good

\* The flights are what they were, and the same of them were taken.
LEMMA FlightsKept ==
  ASSUME FlightInv, UNCHANGED <<session, rescans>>, net \subseteq net',
         \A x \in Device : marker'[x] => marker[x],
         \A x \in Device : Flown(x)' = Flown(x),
         \A x \in Device : \A e \in Flown(peer(x)) : Taken(e, x)' <=> Taken(e, x)
  PROVE  FlightInv'
<1>1. \A x \in Device : Flown(peer(x))' = Flown(peer(x))
  BY Pair
<1>2. OneFlight' /\ Intents'
  BY DEF FlightInv, OneFlight, Intents
<1>3. ASSUME NEW x \in Device, Lower(x) PROVE Lower(x)'
  BY <1>1, <1>3 DEF Lower
<1>4. ASSUME NEW x \in Device, Higher(x) PROVE Higher(x)'
  BY <1>1, <1>4 DEF Higher
<1> QED
  BY <1>2, <1>3, <1>4 DEF FlightInv

\* A device without a session has no flight under way and has taken none; its new
\* one was not taken by anybody.
LEMMA FlightMade ==
  ASSUME TypeInv, FlightInv, NEW d \in Device, session[d] = NoSession, NEW f, Good(f),
         f.kind = "Handshake", f.from = d, f.intent = intent_of(d), session'[d] = f.sid,
         \A x \in Device : x # d => session'[x] = session[x],
         \A x \in Device : queue'[x] = IF x = d THEN queue[d] \cup {f} ELSE queue[x],
         UNCHANGED <<net, seen, rescans>>, \A x \in Device : marker'[x] => marker[x]
  PROVE  FlightInv'
<1> DEFINE p == peer(d)
<1>1. p \in Device /\ p # d /\ peer(p) = d /\ d \in Nat /\ p \in Nat /\ \A x \in Device : x = d \/ x = p
  BY Pair
<1>2. /\ \A e \in Flown(d) : e.sid # NoSession /\ e.kind = "Handshake" /\ Good(e)
      /\ \A e \in Flown(p) : e.sid # NoSession /\ e.kind = "Handshake" /\ Good(e)
  BY <1>1, FlownGood
<1>3. d < p \/ p < d
  BY <1>1
<1>4. Flown(d) = {} /\ \A e \in Flown(p) : ~ Taken(e, d)
  <2>1. CASE d < p
    <3>1. Lower(d)
      BY <2>1 DEF FlightInv
    <3> QED
      BY <1>2, <3>1 DEF Lower
  <2>2. CASE p < d
    <3>1. Higher(d)
      BY <2>2 DEF FlightInv
    <3> QED
      BY <1>2, <3>1 DEF Higher
  <2> QED
    BY <1>3, <2>1, <2>2
<1>5. ~ Taken(f, p)
  BY <1>1, <1>4, TakenArrived
<1>6. Flown(d)' = {f} /\ Flown(p)' = Flown(p)
  <2>1. Flown(d)' = Flown(d) \cup {f}
    BY <1>1 DEF Flown
  <2>2. Flown(p)' = Flown(p)
    BY <1>1 DEF Flown
  <2> QED
    BY <1>4, <2>1, <2>2
<1>7. \A e : (Taken(e, p)' <=> Taken(e, p)) /\ (Taken(e, d)' <=> Taken(e, d))
  BY DEF Taken
<1>8. f.intent \in {"Establish", "Reset"} /\ (p < d => f.intent = "Establish")
  BY DEF intent_of, FlightInv, Intents
<1>9. OneFlight'
  BY <1>1, <1>6 DEF FlightInv, OneFlight
<1>10. Intents'
  <2>1. /\ \A e \in Flown(p)' : /\ e.intent \in {"Establish", "Reset"}
                                /\ d < p => e.intent = "Establish"
        /\ d < p => ~ marker'[p]
    BY <1>1, <1>6 DEF FlightInv, Intents
  <2>2. p < d => ~ marker'[d]
    BY <1>1 DEF FlightInv, Intents
  <2>3. ASSUME NEW x \in Device
        PROVE  /\ \A e \in Flown(x)' : /\ e.intent \in {"Establish", "Reset"}
                                       /\ peer(x) < x => e.intent = "Establish"
               /\ peer(x) < x => ~ marker'[x]
    <3>1. CASE x = d
      BY <1>6, <1>8, <2>2, <3>1
    <3>2. CASE x = p
      BY <1>1, <2>1, <3>2
    <3> QED
      BY <1>1, <3>1, <3>2
  <2> QED
    BY <2>3 DEF Intents
<1>11. CASE d < p
  <2>1. ~ (p < d)
    BY <1>1, <1>11
  <2>2. Lower(d)'
    BY <1>1, <1>6 DEF Lower
  <2>3. Higher(p)
    BY <1>1, <1>11 DEF FlightInv
  <2>4. Higher(p)'
    BY <1>1, <1>4, <1>5, <1>6, <1>7, <2>3 DEF Higher
  <2> QED
    BY <1>1, <1>9, <1>10, <2>1, <2>2, <2>4 DEF FlightInv
<1>12. CASE p < d
  <2>1. ~ (d < p)
    BY <1>1, <1>12
  <2>2. Higher(d)'
    BY <1>1, <1>4, <1>6, <1>7 DEF Higher
  <2>3. Lower(p)
    BY <1>1, <1>12 DEF FlightInv
  <2>4. Lower(p)'
    <3>1. ASSUME Flown(p) = {} PROVE session[p] = NoSession
      BY <1>1, <1>4, <2>3, <3>1 DEF Lower
    <3> QED
      BY <1>1, <1>5, <1>6, <1>7, <2>3, <3>1 DEF Lower
  <2> QED
    BY <1>1, <1>9, <1>10, <2>1, <2>2, <2>4 DEF FlightInv
<1> QED
  BY <1>3, <1>11, <1>12

LEMMA FlightsSend ==
  ASSUME TypeInv, CopiesInv, FlightInv, NEW d \in Device, Send(d)
  PROVE  FlightInv'
<1>1. \A m \in Message \cup {None} : made + 1 \in Sessions =>
        LET f == Flight(d, made + 1, intent_of(d), session[d], m)
        IN  /\ Good(f) /\ f.kind = "Handshake" /\ f.from = d
            /\ f.intent = intent_of(d) /\ f.sid = made + 1
  BY MadeGood
<1>2. ASSUME NEW m \in Message, QueueCopy(d, m), UNCHANGED <<net, seen, replay, rescans>>,
             \A x \in Device : marker'[x] => marker[x]
      PROVE  FlightInv'
  <2>1. CASE /\ UNCHANGED <<session, made>> /\ session[d] # NoSession
             /\ \A x \in Device : queue'[x] =
                  IF x = d THEN queue[d] \cup {Sealed(d, session[d], m)} ELSE queue[x]
    <3>1. Sealed(d, session[d], m).kind = "Message"
      BY DEF Sealed
    <3>2. \A x \in Device : Flown(x)' = Flown(x)
      BY <1>2, <2>1, <3>1 DEF Flown
    <3> QED
      BY <1>2, <2>1, <3>2, FlightsKept DEF Taken
  <2>2. CASE /\ session[d] = NoSession /\ prepare_session(d, m)
             /\ made' = made + 1 /\ session'[d] = made + 1
             /\ \A x \in Device : queue'[x] =
                  IF x = d THEN queue[d] \cup {Flight(d, made + 1, intent_of(d), session[d], m)}
                           ELSE queue[x]
    <3> DEFINE f == Flight(d, made + 1, intent_of(d), session[d], m)
    <3>1. made + 1 \in Sessions /\ \A x \in Device : x # d => session'[x] = session[x]
      BY <2>2, SessionNumbers DEF prepare_session, TypeInv
    <3>2. /\ Good(f) /\ f.kind = "Handshake" /\ f.from = d
          /\ f.intent = intent_of(d) /\ f.sid = made + 1
      BY <1>1, <3>1
    <3>3. \A x \in Device : queue'[x] = IF x = d THEN queue[d] \cup {f} ELSE queue[x]
      BY <2>2
    <3> HIDE DEF f
    <3> QED
      BY <1>2, <2>2, <3>1, <3>2, <3>3, FlightMade
  <2> QED
    BY <1>2, <2>1, <2>2, CopyStep, ZenonT(30)
<1>3. CASE \E m \in Message : send_message(d, m) \/ queue_pending_pairwise_device_deliveries(d, m)
  <2>1. PICK m \in Message : send_message(d, m) \/ queue_pending_pairwise_device_deliveries(d, m)
    BY <1>3
  <2>2. QueueCopy(d, m) /\ UNCHANGED <<net, seen, replay, rescans>>
    BY <2>1 DEF send_message, queue_pending_pairwise_device_deliveries
  <2>3. \A x \in Device : marker'[x] => marker[x]
    BY <2>1 DEF send_message, queue_pending_pairwise_device_deliveries, TypeInv
  <2> QED
    BY <1>2, <2>2, <2>3
<1>4. CASE rekey_reset_peers(d)
  <2>1. /\ UNCHANGED <<delivery, framed, net, seen, replay, history, rescans>>
        /\ marker' \in [Device -> BOOLEAN] /\ \A x \in Device : marker'[x] => marker[x]
    BY <1>4 DEF rekey_reset_peers, TypeInv
  <2>2. CASE session[d] = NoSession /\ prepare_session(d, None)
    <3> DEFINE f == Flight(d, made + 1, intent_of(d), session[d], None)
    <3>1. /\ made + 1 \in Sessions /\ session'[d] = made + 1
          /\ \A x \in Device : x # d => session'[x] = session[x]
      BY <2>2, SessionNumbers DEF prepare_session, TypeInv
    <3>2. /\ Good(f) /\ f.kind = "Handshake" /\ f.from = d
          /\ f.intent = intent_of(d) /\ f.sid = made + 1
      BY <1>1, <3>1
    <3>3. \A x \in Device : queue'[x] = IF x = d THEN queue[d] \cup {f} ELSE queue[x]
      BY <2>1, <2>2, EmptyFlightTyped
    <3> HIDE DEF f
    <3> QED
      BY <2>1, <2>2, <3>1, <3>2, <3>3, FlightMade
  <2>3. CASE UNCHANGED <<session, made, queue>>
    BY <2>1, <2>3, FlightsKept DEF Flown, Taken
  <2> QED
    BY <1>4, <2>2, <2>3 DEF rekey_reset_peers
<1>5. CASE process_rendezvous_rehandshakes(d)
  BY <1>5 DEF process_rendezvous_rehandshakes, CopiesInv
<1>6. CASE reset_unconfirmed_session(d)
  BY <1>6 DEF reset_unconfirmed_session, FlightInv
<1>7. CASE \E e \in queue[d] : deliver_queue(d, e)
  <2>1. PICK e \in queue[d] : deliver_queue(d, e)
    BY <1>7
  <2>2. /\ UNCHANGED <<session, rescans, marker, seen>> /\ net' = net \cup {e} /\ e.from = d
        /\ queue' = IF CarriesMessage(e) THEN queue ELSE [queue EXCEPT ![d] = queue[d] \ {e}]
    BY <2>1 DEF deliver_queue, TypeInv, QueueInv
  <2>3. \A x \in Device : queue'[x] = queue[x] \/ (x = d /\ queue'[x] = queue[x] \ {e})
    BY <2>2 DEF TypeInv, QueueInv
  <2>4. \A x \in Device : Flown(x)' = Flown(x)
    BY <2>2, <2>3 DEF Flown
  <2> QED
    BY <2>2, <2>4, FlightsKept DEF Taken
<1> QED
  BY <1>3, <1>4, <1>5, <1>6, <1>7 DEF Send

\* Anything but a flight arrives.
LEMMA FlightsReceive ==
  ASSUME TypeInv, FlightInv, NEW d \in Device, NEW e \in net,
         consume_message(d, e) \/ consume_receipt(d, e) \/ replay_receipt(d, e)
  PROVE  FlightInv'
<1>1. UNCHANGED <<session, rescans, net, marker>>
  BY DEF consume_message, consume_receipt, replay_receipt
<1>2. Good(e)
  BY DEF TypeInv, NetInv
<1>3. ASSUME Consumed(d, e), e.kind # "Handshake"
      PROVE  \A x \in Device : \A f \in Flown(peer(x)) : Taken(f, x)' <=> Taken(f, x)
  <2> TAKE x \in Device
  <2> TAKE f \in Flown(peer(x))
  <2>1. Good(f) /\ f.kind = "Handshake"
    BY Pair, FlownGood
  <2>2. content_id(f) # content_id(e)
    BY <1>2, <1>3, <2>1, ContentIds
  <2> QED
    BY <1>3, <2>2 DEF Taken, Consumed, TypeInv, SeenInv
<1>4. ASSUME \A x \in Device : /\ queue[x] \subseteq queue'[x]
                               /\ \A q \in queue'[x] : q.kind # "Receipt" => q \in queue[x]
      PROVE  \A x \in Device : Flown(x)' = Flown(x)
  BY <1>1, <1>4 DEF Flown
<1>5. CASE consume_message(d, e)
  <2>1. Consumed(d, e) /\ e.kind # "Handshake"
    BY <1>5 DEF consume_message
  <2> QED
    BY <1>1, <1>3, <1>4, <1>5, <2>1, MessageTyped, FlightsKept
<1>6. CASE replay_receipt(d, e)
  <2>1. UNCHANGED seen
    BY <1>6 DEF replay_receipt
  <2>2. \A x \in Device : Flown(x)' = Flown(x)
    BY <1>4, <1>6, ReplayTyped
  <2> QED
    BY <1>1, <2>1, <2>2, FlightsKept DEF Taken
<1>7. CASE consume_receipt(d, e)
  <2>1. Consumed(d, e) /\ e.kind = "Receipt" /\ e.from = peer(d)
    BY <1>7 DEF consume_receipt, Arrives
  <2>2. \A x \in Device : queue'[x] =
          IF x = d THEN {q \in queue[d] : content_id(q) # e.acks} ELSE queue[x]
    BY <1>7, ReceiptTyped
  <2>3. e.acks \in seen[peer(d)]
    BY <2>1, Pair DEF TypeInv, SeenInv
  <2>4. ASSUME NEW q \in queue[d], q.kind = "Handshake", content_id(q) = e.acks
        PROVE  q \in net
    <3>1. Good(q) /\ q.from = d /\ q \in Flown(d)
      BY <2>4 DEF TypeInv, QueueInv, Flown
    <3>2. peer(d) \in Device /\ peer(peer(d)) = d
      BY Pair
    <3>3. PICK f \in Flown(d) : f \in net
      BY <2>3, <2>4, <3>1, <3>2, TakenArrived DEF Taken
    <3>4. f = q
      BY <3>1, <3>3 DEF FlightInv, OneFlight
    <3> QED
      BY <3>3, <3>4
  <2>5. \A x \in Device : Flown(x)' = Flown(x)
    BY <1>1, <2>2, <2>4 DEF Flown
  <2> QED
    BY <1>1, <1>3, <2>1, <2>5, FlightsKept
<1> QED
  BY <1>5, <1>6, <1>7

\* A flight arrives: the lower device keeps what it has or takes it, the higher one
\* takes it.  Who takes a flight takes the session its maker holds.
LEMMA FlightTaken ==
  ASSUME TypeInv, FlightInv, NEW d \in Device, NEW e \in net, consume_handshake(d, e)
  PROVE  /\ FlightInv' /\ \A x \in Device : x # d => session'[x] = session[x]
         /\ session'[d] # session[d] => session'[d] = session[peer(d)]
<1> DEFINE p == peer(d)
<1>1. p \in Device /\ p # d /\ peer(p) = d /\ d \in Nat /\ p \in Nat /\ \A x \in Device : x = d \/ x = p
  BY Pair
<1>2. /\ e.from = p /\ e.kind = "Handshake" /\ Consumed(d, e) /\ ~ Taken(e, d)
      /\ UNCHANGED <<marker, made, framed, net, rescans>>
  BY DEF consume_handshake, Arrives, Taken
<1>3. e \in Flown(p) /\ e.sid \in Sessions /\ e.sid # NoSession
  BY <1>1, <1>2, SessionNumbers DEF Flown, TypeInv, NetInv, Good
<1>4. /\ \A x \in Flown(d) : x.sid # NoSession /\ x.kind = "Handshake" /\ Good(x)
      /\ \A x \in Flown(p) : x.sid # NoSession /\ x.kind = "Handshake" /\ Good(x)
  BY <1>1, FlownGood
<1>5. \A f \in Flown(p) : f = e
  BY <1>1, <1>3 DEF FlightInv, OneFlight
<1>6. e.intent \in {"Establish", "Reset"} /\ (d < p => e.intent = "Establish")
  BY <1>1, <1>3 DEF FlightInv, Intents
<1>7. d < p \/ p < d
  BY <1>1
<1>8. ASSUME NEW rows \in SUBSET queue[d], NEW s \in Sessions, FirstPayload(d, e, s, rows),
             \A m \in Message : delivery'[m].state = "none" => delivery[m].state = "none"
      PROVE  /\ Flown(p)' = Flown(p) /\ Flown(d)' \subseteq Flown(d)
             /\ rows = queue[d] => Flown(d)' = Flown(d)
             /\ Taken(e, d)' /\ \A f : Taken(f, p)' <=> Taken(f, p)
  <2>1. /\ \A x \in Device : seen'[x] = IF x = d THEN seen[d] \cup {content_id(e)} ELSE seen[x]
        /\ \A x \in Device : x # d => queue'[x] = queue[x]
        /\ \A q \in queue'[d] : q.kind # "Receipt" => q \in rows
        /\ rows \subseteq queue'[d]
    BY <1>2, <1>8, FirstPayloadKept
  <2>2. Taken(e, d)' /\ \A f : Taken(f, p)' <=> Taken(f, p)
    BY <1>1, <2>1 DEF Taken
  <2>3. Flown(p)' = Flown(p)
    BY <1>1, <1>2, <2>1 DEF Flown
  <2>4. Flown(d)' \subseteq Flown(d)
    BY <1>2, <2>1 DEF Flown
  <2>5. rows = queue[d] => Flown(d)' = Flown(d)
    BY <1>2, <2>1 DEF Flown
  <2> QED
    BY <2>2, <2>3, <2>4, <2>5
<1>9. ASSUME Flown(p)' = Flown(p), Flown(d)' \subseteq Flown(d)
      PROVE  OneFlight' /\ Intents'
  <2>1. OneFlight'
    BY <1>1, <1>9 DEF FlightInv, OneFlight
  <2>2. \A x \in Device : Flown(x)' \subseteq Flown(x)
    BY <1>1, <1>9
  <2> QED
    BY <1>2, <2>1, <2>2 DEF FlightInv, Intents
<1>10. CASE d < p
  <2>1. ~ (p < d) /\ Lower(d) /\ Higher(p)
    BY <1>1, <1>10 DEF FlightInv
  <2>2. CASE session[d] # NoSession
    <3>1. KeepPriorSession(d, e)
      BY <1>2, <1>6, <1>10, <2>2 DEF consume_handshake, RejectFlight, AcceptInbound, decide_inbound_session
    <3>2. session[d] \in Sessions
      BY <2>2 DEF TypeInv
    <3>3. /\ Flown(p)' = Flown(p) /\ Flown(d)' = Flown(d) /\ UNCHANGED session
          /\ Taken(e, d)' /\ \A f : Taken(f, p)' <=> Taken(f, p)
      BY <1>8, <3>1, <3>2 DEF KeepPriorSession
    <3>4. Lower(d)'
      BY <1>2, <2>1, <2>2, <3>3 DEF Lower
    <3>5. Higher(p)'
      BY <1>1, <2>1, <3>3 DEF Higher
    <3> QED
      BY <1>1, <1>2, <1>9, <2>1, <3>3, <3>4, <3>5 DEF FlightInv
  <2>3. CASE session[d] = NoSession
    <3>1. AcceptInbound(d, e)
      BY <1>2, <1>6, <2>3 DEF consume_handshake, RejectFlight, KeepPriorSession, decide_inbound_session
    <3>2. FirstPayload(d, e, e.sid, queue[d]) /\ UNCHANGED delivery
      BY <2>3, <3>1 DEF AcceptInbound
    <3>3. session'[d] = e.sid /\ \A x \in Device : x # d => session'[x] = session[x]
      BY <3>1 DEF AcceptInbound, TypeInv
    <3>4. /\ Flown(p)' = Flown(p) /\ Flown(d)' = Flown(d)
          /\ Taken(e, d)' /\ \A f : Taken(f, p)' <=> Taken(f, p)
      BY <1>3, <1>8, <3>2
    <3>5. Flown(d) = {}
      BY <1>4, <2>1, <2>3 DEF Lower
    <3>6. Lower(d)'
      BY <1>2, <1>3, <3>3, <3>4, <3>5 DEF Lower
    <3>7. Higher(p)'
      BY <1>1, <2>1, <3>3, <3>4 DEF Higher
    <3>8. session[p] = e.sid
      BY <1>1, <1>3, <1>5, <2>1, <3>5 DEF Higher
    <3> QED
      BY <1>1, <1>2, <1>9, <2>1, <3>3, <3>4, <3>6, <3>7, <3>8 DEF FlightInv
  <2> QED
    BY <2>2, <2>3
<1>11. CASE p < d
  <2>1. ~ (d < p) /\ Lower(p) /\ Higher(d)
    BY <1>1, <1>11 DEF FlightInv
  <2>2. AcceptInbound(d, e)
    BY <1>2, <1>6, <2>1 DEF consume_handshake, RejectFlight, KeepPriorSession, decide_inbound_session
  <2>3. session'[d] = e.sid /\ \A x \in Device : x # d => session'[x] = session[x]
    BY <2>2 DEF AcceptInbound, TypeInv
  <2>4. /\ Flown(p)' = Flown(p) /\ Flown(d)' \subseteq Flown(d)
        /\ Taken(e, d)' /\ \A f : Taken(f, p)' <=> Taken(f, p)
    <3>1. CASE FirstPayload(d, e, e.sid, queue[d]) /\ UNCHANGED delivery
      BY <1>3, <1>8, <3>1
    <3>2. CASE FirstPayload(d, e, e.sid, {}) /\ delivery' = TakenBack(d)
      <4>1. \A m \in Message : delivery'[m].state = delivery[m].state
        BY <3>2, TakenBackTyped DEF TypeInv
      <4> DEFINE rows == {}
      <4>2. rows \in SUBSET queue[d] /\ FirstPayload(d, e, e.sid, rows)
        BY <3>2
      <4> HIDE DEF rows
      <4> QED
        BY <1>3, <1>8, <4>1, <4>2
    <3> QED
      BY <2>2, <3>1, <3>2 DEF AcceptInbound
  <2>5. Lower(p)'
    BY <1>1, <1>3, <2>1, <2>3, <2>4 DEF Lower
  <2>6. Higher(d)'
    BY <1>3, <1>5, <2>3, <2>4 DEF Higher
  <2>7. session[p] = e.sid
    BY <1>3, <2>1 DEF Lower
  <2> QED
    BY <1>1, <1>2, <1>9, <2>1, <2>3, <2>4, <2>5, <2>6, <2>7 DEF FlightInv
<1> QED
  BY <1>7, <1>10, <1>11

LEMMA FlightsInit ==
  ASSUME Crossing
  PROVE  Init => CopiesInv /\ FlightInv
<1> SUFFICES ASSUME Init PROVE CopiesInv /\ FlightInv
  OBVIOUS
<1>1. NoSession # PriorSession
  BY SessionConstants DEF NoSession, PriorSession
<1>2. \A d \in Device : session[d] = NoSession /\ queue[d] = {} /\ seen[d] = {}
  BY DEF Init, Crossing, NoLegacy
<1>3. Made = {} /\ net = {} /\ rescans = {}
  BY DEF Init, Made, Crossing
<1>4. \A m \in Message : delivery[m].state = "none"
  BY DEF Init
<1>5. \A d \in Device : peer(d) < d => ~ marker[d]
  <2> SUFFICES ASSUME NEW d \in Device, peer(d) < d, marker[d] PROVE FALSE
    OBVIOUS
  <2>1. d < peer(d) /\ d \in Nat /\ peer(d) \in Nat
    BY Pair DEF Init, Crossing
  <2> QED
    BY <2>1
<1>6. \A d \in Device : Flown(d) = {} /\ Flown(peer(d)) = {}
  BY <1>2, <1>3, Pair DEF Flown
<1>7. CopiesInv
  BY <1>1, <1>2, <1>3, <1>4 DEF CopiesInv, OpenCopiesAreCurrent
<1>8. OneFlight /\ Intents /\ \A d \in Device : Lower(d) /\ Higher(d)
  BY <1>2, <1>5, <1>6 DEF OneFlight, Intents, Lower, Higher
<1> QED
  BY <1>3, <1>7, <1>8 DEF FlightInv

LEMMA FlightsNext == TypeInv /\ CopiesInv /\ FlightInv /\ [Next]_vars => CopiesInv' /\ FlightInv'
<1> SUFFICES ASSUME TypeInv, CopiesInv, FlightInv, [Next]_vars PROVE CopiesInv' /\ FlightInv'
  OBVIOUS
<1>1. ASSUME NEW d \in Device, Send(d) PROVE CopiesInv' /\ FlightInv'
  BY <1>1, CopiesSend, FlightsSend
<1>2. ASSUME NEW d \in Device, Receive(d) PROVE CopiesInv' /\ FlightInv'
  BY <1>2, CopiesReceive, FlightsReceive, FlightTaken DEF Receive
<1>3. CASE UNCHANGED vars
  <2>1. CopiesInv'
    BY <1>3 DEF vars, CopiesInv, OpenCopiesAreCurrent, Made
  <2>2. UNCHANGED <<session, rescans, net, marker, queue, seen>>
    BY <1>3 DEF vars
  <2> QED
    BY <2>1, <2>2, FlightsKept DEF Flown, Taken
<1> QED
  BY <1>1, <1>2, <1>3 DEF Next

LEMMA FlightsAlways ==
  ASSUME Crossing
  PROVE  Spec => [](TypeInv /\ CopiesInv /\ FlightInv)
  BY FlightsInit, FlightsNext, TypeInit, TypeNext, PTL DEF Spec

\* Once no first flight is under way any more the two devices hold the same session,
\* whatever crossed and in whichever order it was consumed: each makes one flight at
\* most, and decide_inbound_session picks the lower device's on both sides.
THEOREM SessionsAgreeHolds ==
  ASSUME Crossing
  PROVE  Spec => []SessionsAgree
<1>1. TypeInv /\ FlightInv => SessionsAgree
  <2> SUFFICES ASSUME TypeInv, FlightInv, FlightsSettled, NEW x \in Device
               PROVE  session[x] = session[peer(x)]
    BY Pair DEF SessionsAgree
  <2>1. ASSUME NEW l \in Device, l < peer(l) PROVE session[l] = session[peer(l)]
    <3> DEFINE h == peer(l)
    <3>1. h \in Device /\ peer(h) = l /\ l \in Nat /\ h \in Nat
      BY Pair
    <3>2. Lower(l) /\ Higher(h)
      BY <2>1, <3>1 DEF FlightInv
    <3>3. /\ \A e \in Flown(l) : Taken(e, h)
          /\ \A e \in Flown(h) : Taken(e, l)
      BY <3>1 DEF FlightsSettled, Flown, Taken
    <3>4. CASE Flown(l) # {}
      BY <3>1, <3>2, <3>3, <3>4 DEF Lower, Higher
    <3>5. CASE Flown(l) = {} /\ Flown(h) = {}
      BY <3>1, <3>2, <3>5 DEF Lower, Higher
    <3>6. CASE Flown(l) = {} /\ Flown(h) # {}
      BY <3>1, <3>2, <3>3, <3>6 DEF Lower, Higher, FlightInv, OneFlight
    <3> QED
      BY <3>4, <3>5, <3>6
  <2>2. x < peer(x) \/ peer(x) < x
    BY Pair
  <2> QED
    BY <2>1, <2>2, Pair
<1> QED
  BY <1>1, FlightsAlways, PTL

\* Whoever takes over a session takes the one that the other side holds, never one
\* its maker has given up.
THEOREM AdoptedIsHeldHolds ==
  ASSUME Crossing
  PROVE  Spec => AdoptedIsHeld
<1> DEFINE Adopted == \A d \in Device :
       (session'[d] # session[d] /\ made' = made) => session'[d] = session[peer(d)]
<1>1. TypeInv /\ CopiesInv /\ FlightInv /\ [Next]_vars => [Adopted]_vars
  <2> SUFFICES ASSUME TypeInv, FlightInv, Next, made' = made, NEW x \in Device,
                      session'[x] # session[x]
               PROVE  session'[x] = session[peer(x)]
    BY DEF vars
  <2>1. made \in Nat
    BY SessionNumbers DEF TypeInv
  <2>2. PICK d \in Device : Send(d) \/ Receive(d)
    BY DEF Next
  <2>3. CASE Send(d)
    <3>1. \A m : ~ prepare_session(d, m)
      BY <2>1 DEF prepare_session
    <3>2. \A m : ~ QueueCopy(d, m) \/ UNCHANGED session
      BY <3>1 DEF QueueCopy, EncryptCopy
    <3>3. ~ reset_unconfirmed_session(d)
      BY DEF reset_unconfirmed_session, FlightInv
    <3>4. UNCHANGED session
      BY <2>3, <3>1, <3>2, <3>3 DEF Send, send_message, queue_pending_pairwise_device_deliveries,
         rekey_reset_peers, process_rendezvous_rehandshakes, deliver_queue
    <3> QED
      BY <3>4
  <2>4. CASE Receive(d)
    <3>1. PICK e \in net : consume_handshake(d, e)
      BY <2>4 DEF Receive, consume_message, consume_receipt, replay_receipt
    <3> QED
      BY <3>1, FlightTaken
  <2> QED
    BY <2>2, <2>3, <2>4
<1>2. Spec => [][Adopted]_vars
  BY <1>1, FlightsAlways, PTL DEF Spec
<1> QED
  BY <1>2 DEF AdoptedIsHeld

=============================================================================
