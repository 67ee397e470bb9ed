---------------------------- MODULE CallsProofs ----------------------------
(***************************************************************************)
(* Proofs about Calls, for any accounts, devices, number of calls and      *)
(* lifetimes: the types, that two ends that talk, talk to each other, and  *)
(* that a caller is told of a refusal only when every device refused.      *)
(*                                                                         *)
(* OneTalker rests on what an opened stream says of the caller: it goes to *)
(* the device whose answer was taken, and is opened once.  HonestRefusal   *)
(* rests on the life of the offer to one device: it is in one place, the   *)
(* device does not know the call while it is under way, and once the       *)
(* device has refused there is none and the call is not alive there.       *)
(***************************************************************************)
EXTENDS Calls, FiniteSetTheorems, TLAPS

-----------------------------------------------------------------------------
(* The inductive invariant *)

Kind == {"offer", "answer", "decline", "busy", "cancel", "hangup", "elsewhere"}
Stream == [stage: {"none", "waiting", "taken", "gone"}, to: Device \cup {None},
           by: CallId \cup {None}, hello: SUBSET {"initiator", "responder"}]

TypeInv ==
  /\ calls \in [Device -> [CallId -> ActiveCall \cup {None}]]
  /\ offer \in [CallId -> Offer \cup {None}]
  /\ stream \in [CallId -> Stream]

\* Call ids are used in order, and nobody calls a device of its own.
OfferInv ==
  /\ \E n \in 0..MaxCalls : Ids = 1..n
  /\ \A c \in Ids : offer[c].by \notin offer[c].to

\* A control of call c goes from the caller to a called device or back.
Routed(m) ==
  /\ m.kind \in Kind /\ m.call \in Ids
  /\ {m.from, m.to} \subseteq Device
  /\ m.kind \in {"offer", "cancel", "elsewhere"} =>
       m.from = offer[m.call].by /\ m.to \in offer[m.call].to
  /\ m.kind \in {"answer", "decline", "busy"} =>
       m.to = offer[m.call].by /\ m.from \in offer[m.call].to

RowOK(row) ==
  /\ Routed(row)
  /\ row = [kind |-> row.kind, call |-> row.call, from |-> row.from, to |-> row.to,
            left |-> row.left]
  /\ row.left \in Nat \cup {None}

RowInv ==
  /\ \A m \in net : /\ Routed(m)
                    /\ m = [kind |-> m.kind, call |-> m.call, from |-> m.from, to |-> m.to]
  /\ \A row \in queue : RowOK(row)

\* A device has at most one live call.
OneLive == \A d \in Device : \A c, e \in Live(d) : c = e

\* Who knows a call: its caller, and devices that were called.
CallInv ==
  /\ \A d \in Device : \A c \in Known(d) :
       /\ c \in Ids
       /\ calls[d][c].direction = "outgoing" => offer[c].by = d
       /\ calls[d][c].direction = "incoming" => d \in offer[c].to
       /\ calls[d][c].phase \in {"connecting", "active"} /\ calls[d][c].direction = "outgoing"
            => calls[d][c].responder \in offer[c].to
       /\ calls[d][c].negative \subseteq offer[c].to
  /\ OneLive

\* A stream goes to the device whose answer the caller took, and is opened once.
Opened(c) ==
  /\ c \in Ids
  /\ c \in Known(offer[c].by) =>
       /\ calls[offer[c].by][c].responder = stream[c].to
       /\ calls[offer[c].by][c].phase # "ringing"
       /\ calls[offer[c].by][c].phase = "connecting" => calls[offer[c].by][c].media # None

StreamInv ==
  /\ \A c \in CallId : stream[c].stage # "none" => Opened(c)
  /\ \A d \in Device : \A c \in Live(d) :
       calls[d][c].direction = "incoming" =>
         /\ calls[d][c].media # None =>
              stream[calls[d][c].media].stage # "none" /\ stream[calls[d][c].media].to = d
         /\ calls[d][c].phase = "active" => stream[c].stage # "none" /\ stream[c].to = d
  /\ \A d \in Device : \A c \in Live(d) :
       calls[d][c].phase = "active" => calls[d][c].media \in {c, None}

\* The offer of call c to device d is under way.
IsOffer(m, c, d) == m.kind = "offer" /\ m.call = c /\ m.to = d
Pending(c, d) == \E m \in queue \cup net : IsOffer(m, c, d)

\* Device d has refused call c, though the caller may not have heard.
Refused(c, d) ==
  \/ \E m \in queue \cup net : m.kind \in {"decline", "busy"} /\ m.call = c /\ m.from = d
  \/ \E e \in Device : c \in Known(e) /\ d \in calls[e][c].negative

Over(c, d) == ~Pending(c, d) /\ c \notin Live(d)

\* An offer to a device is in one place, as long as it is anywhere.
OnePlace ==
  /\ \A p, q \in queue : \A c \in CallId, d \in Device : IsOffer(p, c, d) /\ IsOffer(q, c, d) => p = q
  /\ \A p \in queue, m \in net : \A c \in CallId, d \in Device : ~(IsOffer(p, c, d) /\ IsOffer(m, c, d))

RefusalInv ==
  /\ OnePlace
  /\ \A c \in CallId, d \in Device : Pending(c, d) => c \notin Known(d)
  /\ \A c \in CallId, d \in Device : Refused(c, d) => Over(c, d)
  /\ \A d \in Device : \A c \in Known(d) :
       calls[d][c].reason \in {"declined", "busy"} => \A e \in offer[c].to : Over(c, e)

IInv == TypeInv /\ OfferInv /\ RowInv /\ CallInv /\ StreamInv /\ RefusalInv

\* The invariant is what the runs check, and more.
LEMMA IInvImplies == IInv => TypeOK /\ OneTalker /\ HonestRefusal
<1> SUFFICES ASSUME IInv PROVE TypeOK /\ OneTalker /\ HonestRefusal
  OBVIOUS
<1>i. TypeInv /\ RowInv /\ CallInv /\ StreamInv /\ RefusalInv
  BY DEF IInv
<1>1. TypeOK
  <2>1. ASSUME NEW d \in Device PROVE Cardinality(Live(d)) <= 1
    <3>1. CASE Live(d) = {}
      BY <3>1, FS_EmptySet
    <3>2. CASE Live(d) # {}
      <4>1. PICK c \in Live(d) : TRUE
        BY <3>2
      <4>2. Live(d) = {c}
        BY <1>i, <2>1, <4>1 DEF CallInv, OneLive
      <4> QED  BY <4>2, FS_Singleton
    <3> QED  BY <3>1, <3>2
  <2> QED  BY <1>i, <2>1 DEF TypeInv, RowInv, RowOK, Routed, StreamInv, TypeOK
<1>2. OneTalker
  <2> SUFFICES ASSUME NEW d \in Device, NEW c \in Live(d),
                      calls[d][c].direction = "incoming", calls[d][c].phase = "active"
               PROVE  /\ stream[c].to = d
                      /\ c \in Known(offer[c].by) => calls[offer[c].by][c].responder = d
    BY DEF OneTalker
  <2>1. stream[c].stage # "none" /\ stream[c].to = d
    BY <1>i DEF StreamInv
  <2>2. Opened(c)
    BY <1>i, <2>1 DEF StreamInv, Live, Known
  <2> QED  BY <2>1, <2>2 DEF Opened
<1>3. HonestRefusal
  <2> SUFFICES ASSUME NEW d \in Device, NEW c \in Known(d),
                      calls[d][c].reason \in {"declined", "busy"}
               PROVE  /\ \A e \in offer[c].to : c \notin Live(e)
                      /\ \A m \in queue \cup net : ~(m.kind = "offer" /\ m.call = c)
    BY DEF HonestRefusal
  <2>1. \A e \in offer[c].to : Over(c, e)
    BY <1>i DEF RefusalInv
  <2>2. ASSUME NEW m \in queue \cup net, m.kind = "offer", m.call = c PROVE FALSE
    <3>1. m.to \in offer[c].to
      BY <1>i, <2>2 DEF RowInv, RowOK, Routed
    <3> QED  BY <2>1, <2>2, <3>1 DEF Over, Pending, IsOffer
  <2> QED  BY <2>1, <2>2 DEF Over
<1> QED  BY <1>1, <1>2, <1>3

\* The lesser of two numbers.
LEMMA MinOfTwo ==
  ASSUME NEW a \in Nat, NEW b \in Nat
  PROVE  Min({a, b}) = IF a <= b THEN a ELSE b
BY DEF Min

-----------------------------------------------------------------------------
(* What a step may do to calls, offers and streams *)

OfferMoves ==
  /\ offer' \in [CallId -> Offer \cup {None}]
  /\ \A c \in Ids : c \in Ids' /\ offer'[c].by = offer[c].by /\ offer'[c].to = offer[c].to

StreamMoves ==
  /\ stream' \in [CallId -> Stream]
  /\ \A s \in CallId :
       /\ stream[s].stage # "none" => stream'[s].stage # "none" /\ stream'[s].to = stream[s].to
       /\ stream'[s].stage # "none" => stream[s].stage # "none" \/ Opened(s)'

\* The caller's record goes forward, and its choice of an answer stands.
CallerMoves(c, old, new) ==
  /\ new.phase = "ringing" => old.phase = "ringing"
  /\ old.phase # "ringing" => new.responder = old.responder
  /\ new.phase \in {"connecting", "active"} => new.responder \in offer[c].to
  /\ new.phase = "connecting" /\ new.media = None =>
       old.phase = "ringing" \/ (old.phase = "connecting" /\ old.media = None)

\* A called device has streams that were opened to it, and talks on the call's.
CalledMoves(d, c, new) ==
  /\ new.media # None => stream'[new.media].stage # "none" /\ stream'[new.media].to = d
  /\ new.phase = "active" => stream'[c].stage # "none" /\ stream'[c].to = d

Evolves(d, c, old, new) ==
  /\ new \in ActiveCall /\ new.direction = old.direction
  /\ new.negative \subseteq offer[c].to
  /\ new.phase # "ended" => old.phase # "ended"
  /\ old.direction = "outgoing" => CallerMoves(c, old, new)
  /\ old.direction = "incoming" /\ new.phase # "ended" => CalledMoves(d, c, new)
  /\ new.phase = "active" => new.media \in {c, None}

Born(d, c) ==
  \/ calls'[d][c] = NewCall("incoming") /\ d \in offer'[c].to
  \/ calls'[d][c] = NewCall("outgoing") /\ d = offer'[c].by /\ stream'[c].stage = "none"

CallsMove ==
  /\ calls' \in [Device -> [CallId -> ActiveCall \cup {None}]]
  /\ \A d \in Device, c \in CallId :
       calls'[d][c] # None =>
         \/ c \in Ids' /\ Born(d, c)
         \/ c \in Known(d) /\ Evolves(d, c, calls[d][c], calls'[d][c])

\* Such a step keeps the invariants of calls and streams.
LEMMA MoveStep ==
  ASSUME TypeInv, OfferInv', CallInv, StreamInv, OfferMoves, StreamMoves, CallsMove, OneLive'
  PROVE  TypeInv' /\ CallInv' /\ StreamInv'
<1>1. TypeInv'
  BY DEF OfferMoves, StreamMoves, CallsMove, TypeInv
<1>2. ASSUME NEW d \in Device, NEW c \in CallId, c \in Known(d)'
      PROVE  /\ c \in Ids'
             /\ calls'[d][c].direction = "outgoing" => offer'[c].by = d
             /\ calls'[d][c].direction = "incoming" => d \in offer'[c].to
             /\ calls'[d][c].phase \in {"connecting", "active"}
                  /\ calls'[d][c].direction = "outgoing" => calls'[d][c].responder \in offer'[c].to
             /\ calls'[d][c].negative \subseteq offer'[c].to
  <2>0. calls'[d][c] # None
    BY <1>2 DEF Known
  <2>1. CASE c \in Ids' /\ Born(d, c)
    BY <2>1 DEF Born, NewCall
  <2>2. CASE c \in Known(d) /\ Evolves(d, c, calls[d][c], calls'[d][c])
    <3>1. /\ c \in Ids
          /\ calls[d][c].direction = "outgoing" => offer[c].by = d
          /\ calls[d][c].direction = "incoming" => d \in offer[c].to
      BY <1>2, <2>2 DEF CallInv
    <3>2. c \in Ids' /\ offer'[c].by = offer[c].by /\ offer'[c].to = offer[c].to
      BY <3>1 DEF OfferMoves
    <3> QED  BY <2>2, <3>1, <3>2 DEF Evolves, CallerMoves
  <2> QED  BY <1>2, <2>0, <2>1, <2>2 DEF CallsMove
<1>3. CallInv'
  BY <1>2 DEF CallInv, Known
<1>4. ASSUME NEW c \in CallId, stream'[c].stage # "none" PROVE Opened(c)'
  <2>1. CASE stream[c].stage # "none"
    <3>0. PICK b : b = offer[c].by
      OBVIOUS
    <3>1. Opened(c) /\ c \in Ids
      BY <2>1 DEF StreamInv, Opened
    <3>2. /\ c \in Ids' /\ offer'[c].by = b /\ offer'[c].to = offer[c].to
          /\ stream'[c].to = stream[c].to
      BY <2>1, <3>0, <3>1 DEF OfferMoves, StreamMoves
    <3>3. b \in Device /\ b \notin offer'[c].to
      BY <1>1, <3>2, NoneAssumption DEF TypeInv, Ids, Offer, OfferInv
    <3>4. ASSUME c \in Known(b)'
          PROVE  /\ calls'[b][c].responder = stream'[c].to
                 /\ calls'[b][c].phase # "ringing"
                 /\ calls'[b][c].phase = "connecting" => calls'[b][c].media # None
      <4>0. calls'[b][c] # None
        BY <3>4 DEF Known
      <4>1. ~Born(b, c)
        BY <1>4, <3>3 DEF Born
      <4>2. c \in Known(b) /\ Evolves(b, c, calls[b][c], calls'[b][c])
        BY <3>3, <4>0, <4>1 DEF CallsMove
      <4>3. calls[b][c].direction = "outgoing"
        <5>1. calls[b][c] \in ActiveCall
          BY <3>3, <4>2 DEF TypeInv, Known
        <5>2. calls[b][c].direction # "incoming"
          BY <3>0, <3>2, <3>3, <4>2 DEF CallInv
        <5> QED  BY <5>1, <5>2 DEF ActiveCall
      <4>4. /\ calls[b][c].responder = stream[c].to
            /\ calls[b][c].phase # "ringing"
            /\ calls[b][c].phase = "connecting" => calls[b][c].media # None
        BY <3>0, <3>1, <4>2 DEF Opened
      <4> QED  BY <3>2, <4>2, <4>3, <4>4 DEF Evolves, CallerMoves
    <3> QED  BY <3>2, <3>4 DEF Opened
  <2>2. CASE stream[c].stage = "none"
    BY <1>4, <2>2 DEF StreamMoves
  <2> QED  BY <2>1, <2>2
<1>5. ASSUME NEW d \in Device, NEW c \in CallId, c \in Live(d)'
      PROVE  /\ calls'[d][c].direction = "incoming" => CalledMoves(d, c, calls'[d][c])
             /\ calls'[d][c].phase = "active" => calls'[d][c].media \in {c, None}
  <2>0. calls'[d][c] # None /\ calls'[d][c].phase # "ended"
    BY <1>5 DEF Live, Known
  <2>1. CASE Born(d, c)
    BY <2>1 DEF Born, NewCall, CalledMoves
  <2>2. CASE c \in Known(d) /\ Evolves(d, c, calls[d][c], calls'[d][c])
    BY <2>0, <2>2 DEF Evolves
  <2> QED  BY <2>0, <2>1, <2>2 DEF CallsMove
<1>6. StreamInv'
  BY <1>4, <1>5 DEF StreamInv, CalledMoves, Live, Known
<1> QED  BY <1>1, <1>3, <1>6

\* What a step may do to the offers and refusals under way.
LEMMA RefusalStep ==
  ASSUME RefusalInv, OfferMoves, OnePlace', CallInv,
         \A c \in CallId, d \in Device : Pending(c, d)' => Pending(c, d),
         \A c \in CallId, d \in Device : c \in Known(d)' => c \in Known(d) \/ ~Pending(c, d)',
         \A c \in CallId, d \in Device : c \in Live(d)' => c \in Live(d) \/ Pending(c, d),
         \A c \in CallId, d \in Device : Refused(c, d)' => Refused(c, d) \/ Over(c, d)',
         \A c \in CallId, d \in Device :
           c \in Known(d)' /\ calls'[d][c].reason \in {"declined", "busy"} =>
             \/ c \in Known(d) /\ calls[d][c].reason \in {"declined", "busy"}
             \/ \A e \in offer'[c].to : Over(c, e)',
         \A c \in Ids : offer[c].to \subseteq Device
  PROVE  RefusalInv'
<1>1. \A c \in CallId, d \in Device : Over(c, d) => Over(c, d)'
  BY DEF Over
<1>2. \A c \in CallId, d \in Device : Pending(c, d)' => c \notin Known(d)'
  BY DEF RefusalInv
<1>3. \A c \in CallId, d \in Device : Refused(c, d)' => Over(c, d)'
  BY <1>1 DEF RefusalInv
<1>4. ASSUME NEW d \in Device, NEW c \in Known(d)', calls'[d][c].reason \in {"declined", "busy"},
             NEW e \in offer'[c].to
      PROVE  Over(c, e)'
  <2>1. c \in CallId
    BY <1>4 DEF Known
  <2>2. CASE c \in Known(d) /\ calls[d][c].reason \in {"declined", "busy"}
    <3>1. c \in Ids /\ offer'[c].to = offer[c].to
      BY <2>2 DEF CallInv, OfferMoves
    <3>2. e \in Device /\ Over(c, e)
      BY <2>2, <3>1 DEF RefusalInv
    <3> QED  BY <1>1, <2>1, <3>2
  <2> QED  BY <1>4, <2>1, <2>2
<1> QED  BY <1>2, <1>3, <1>4 DEF RefusalInv

\* A record that stays as it is.
LEMMA Stays ==
  ASSUME TypeInv, CallInv, StreamInv, StreamMoves, NEW d \in Device, NEW c \in Known(d)
  PROVE  Evolves(d, c, calls[d][c], calls[d][c])
<1>0. c \in CallId
  BY DEF Known
<1>1. calls[d][c] \in ActiveCall
  BY <1>0 DEF TypeInv, Known
<1> DEFINE rec == calls[d][c]
<1>2. rec.negative \subseteq offer[c].to
  BY DEF CallInv
<1>3. rec.direction = "outgoing" => CallerMoves(c, rec, rec)
  BY DEF CallInv, CallerMoves
<1>4. ASSUME rec.direction = "incoming", rec.phase # "ended" PROVE CalledMoves(d, c, rec)
  <2>1. c \in Live(d) /\ rec.media \in CallId \cup {None}
    BY <1>1, <1>4 DEF Live, ActiveCall
  <2>2. rec.media # None => stream[rec.media].stage # "none" /\ stream[rec.media].to = d
    BY <1>4, <2>1 DEF StreamInv
  <2>3. rec.phase = "active" => stream[c].stage # "none" /\ stream[c].to = d
    BY <1>4, <2>1 DEF StreamInv
  <2> QED  BY <1>0, <2>1, <2>2, <2>3 DEF CalledMoves, StreamMoves
<1>5. rec.phase = "active" => rec.media \in {c, None}
  BY DEF StreamInv, Live
<1> QED  BY <1>1, <1>2, <1>3, <1>4, <1>5 DEF Evolves

\* A call that ends.
LEMMA Ends ==
  ASSUME NEW d \in Device, NEW c, NEW rec, rec \in ActiveCall, NEW reason \in Reason,
         Evolves(d, c, rec, rec)
  PROVE  /\ Evolves(d, c, rec, end_call(rec, reason))
         /\ end_call(rec, reason).phase = "ended"
         /\ end_call(rec, reason).negative \subseteq rec.negative
         /\ end_call(rec, reason).reason \in {rec.reason, None}
              \/ (rec.direction = "outgoing" /\ end_call(rec, reason).reason = reason)
<1>1. CASE rec.phase = "ended"
  BY <1>1 DEF end_call
<1>2. CASE rec.phase # "ended"
  <2>1. NewCall(rec.direction) \in ActiveCall
    BY CallsAssumption DEF NewCall, ActiveCall, Phase
  <2>2. PICK new : new = end_call(rec, reason)
    OBVIOUS
  <2>3. /\ new \in ActiveCall /\ new.direction = rec.direction
        /\ new.phase = "ended" /\ new.negative = {}
        /\ rec.direction = "outgoing" => new.responder = rec.responder /\ new.reason = reason
        /\ rec.direction = "incoming" => new.reason = None
    <3>1. CASE rec.direction = "incoming"
      <4>1. new = [NewCall(rec.direction) EXCEPT !.phase = "ended"]
        BY <1>2, <2>2, <3>1 DEF end_call
      <4> QED  BY <2>1, <3>1, <4>1 DEF NewCall, ActiveCall, Phase
    <3>2. CASE rec.direction = "outgoing"
      <4>1. new = [NewCall(rec.direction) EXCEPT !.phase = "ended", !.responder = rec.responder,
                                                 !.reason = reason]
        BY <1>2, <2>2, <3>2 DEF end_call, NewCall
      <4> QED  BY <2>1, <3>2, <4>1 DEF NewCall, ActiveCall, Phase
    <3> QED  BY <3>1, <3>2 DEF ActiveCall
  <2>4. rec.direction \in {"outgoing", "incoming"}
    BY DEF ActiveCall
  <2>5. Evolves(d, c, rec, new)
    BY <1>2, <2>3, <2>4 DEF Evolves, CallerMoves
  <2> QED  BY <2>2, <2>3, <2>4, <2>5
<1> QED  BY <1>1, <1>2

\* What the pump makes of a call.
LEMMA Pumps ==
  ASSUME NEW d \in Device, NEW c, NEW rec, rec \in ActiveCall, rec.phase # "ended",
         rec.media # None, Evolves(d, c, rec, rec), NEW str
  PROVE  /\ Evolves(d, c, rec, Pumped(rec, c, str))
         /\ Pumped(rec, c, str).negative \subseteq rec.negative
         /\ Pumped(rec, c, str).reason \in {rec.reason, None, "route"}
<1>0. /\ 0 \in 0..MEDIA_ROUTE_LOSS_GRACE_SECS
      /\ MAX_MEDIA_HANDSHAKE_FAILURES \in Nat
  BY CallsAssumption
<1>1. PICK new : new = Pumped(rec, c, str)
  OBVIOUS
<1>2. rec.direction \in {"outgoing", "incoming"} /\ "route" \in Reason
  BY DEF ActiveCall, Reason
<1>3. CASE new = rec
  BY <1>1, <1>3
<1>4. CASE new = end_call(rec, "route")
  BY <1>1, <1>2, <1>4, Ends
<1>5. CASE pump(rec, c, str) = "ready" /\ rec.phase = "connecting" /\ new = [rec EXCEPT !.phase = "active"]
  <2>1. rec.media = c
    BY <1>5 DEF pump, Authentic
  <2>2. /\ new \in ActiveCall /\ new.direction = rec.direction /\ new.phase = "active"
        /\ new.responder = rec.responder /\ new.negative = rec.negative /\ new.media = c
        /\ new.reason = rec.reason
    BY <1>5, <2>1 DEF ActiveCall, Phase
  <2>3. Evolves(d, c, rec, new)
    BY <1>2, <1>5, <2>1, <2>2 DEF Evolves, CallerMoves, CalledMoves
  <2> QED  BY <1>1, <2>2, <2>3
<1>6. CASE rec.phase = "active" /\ new = [rec EXCEPT !.media = None, !.lost = 0]
  <2>1. /\ new \in ActiveCall /\ new.direction = rec.direction /\ new.phase = "active"
        /\ new.responder = rec.responder /\ new.negative = rec.negative /\ new.media = None
        /\ new.reason = rec.reason
    BY <1>0, <1>6 DEF ActiveCall
  <2>2. Evolves(d, c, rec, new)
    BY <1>2, <1>6, <2>1 DEF Evolves, CallerMoves, CalledMoves
  <2> QED  BY <1>1, <2>1, <2>2
<1>7. CASE /\ rec.phase = "connecting" /\ rec.direction = "incoming"
           /\ rec.failures < MAX_MEDIA_HANDSHAKE_FAILURES
           /\ new = [rec EXCEPT !.media = None, !.failures = @ + 1]
  <2>1. /\ new \in ActiveCall /\ new.direction = rec.direction /\ new.phase = "connecting"
        /\ new.responder = rec.responder /\ new.negative = rec.negative /\ new.media = None
        /\ new.reason = rec.reason
    <3>1. rec.failures + 1 \in 0..MAX_MEDIA_HANDSHAKE_FAILURES
      BY <1>0, <1>7 DEF ActiveCall
    <3> QED  BY <1>7, <3>1 DEF ActiveCall
  <2>2. Evolves(d, c, rec, new)
    BY <1>7, <2>1 DEF Evolves, CallerMoves, CalledMoves
  <2> QED  BY <1>1, <2>1, <2>2
<1> QED  BY <1>1, <1>3, <1>4, <1>5, <1>6, <1>7 DEF Pumped

\* One record goes on.
LEMMA OneRecord ==
  ASSUME IInv, NEW d \in Device, NEW c \in Known(d), NEW new \in ActiveCall,
         SetCall(d, c, new), Evolves(d, c, calls[d][c], new), offer' = offer, StreamMoves
  PROVE  /\ TypeInv' /\ OfferInv' /\ CallInv' /\ StreamInv' /\ OfferMoves
         /\ \A e \in Device, x \in CallId :
              /\ calls'[e][x] = IF e = d /\ x = c THEN new ELSE calls[e][x]
              /\ x \in Known(e)' <=> x \in Known(e)
              /\ x \in Live(e)' => x \in Live(e)
              /\ x \in Live(e)' /\ e = d /\ x = c => new.phase # "ended"
<1>i. TypeInv /\ OfferInv /\ CallInv /\ StreamInv
  BY DEF IInv
<1>0. c \in CallId /\ calls[d][c] # None /\ new # None
  BY NoneAssumption DEF Known
<1>1. /\ calls' \in [Device -> [CallId -> ActiveCall \cup {None}]]
      /\ \A e \in Device, x \in CallId : calls'[e][x] = IF e = d /\ x = c THEN new ELSE calls[e][x]
  BY <1>i, <1>0 DEF SetCall, TypeInv
<1>2. \A e \in Device, x \in CallId : x \in Known(e)' <=> x \in Known(e)
  BY <1>0, <1>1 DEF Known
<1>3. \A e \in Device, x \in CallId : x \in Live(e)' =>
        x \in Live(e) /\ (e = d /\ x = c => new.phase # "ended")
  BY <1>0, <1>1, <1>2 DEF Live, Evolves
<1>4. OfferInv' /\ OfferMoves
  BY <1>i DEF OfferInv, OfferMoves, Ids, TypeInv
<1>5. OneLive'
  <2>1. \A e \in Device : Live(e)' \subseteq Live(e)
    BY <1>3 DEF Live, Known
  <2> QED  BY <1>i, <2>1 DEF CallInv, OneLive
<1>6. CallsMove
  <2> SUFFICES ASSUME NEW e \in Device, NEW x \in CallId, calls'[e][x] # None
               PROVE  x \in Known(e) /\ Evolves(e, x, calls[e][x], calls'[e][x])
    BY <1>1 DEF CallsMove
  <2>1. x \in Known(e)
    BY <1>2 DEF Known
  <2>2. CASE e = d /\ x = c
    BY <1>1, <2>1, <2>2
  <2>3. CASE ~(e = d /\ x = c)
    <3>1. calls'[e][x] = calls[e][x]
      BY <1>1, <2>3
    <3> QED  BY <1>i, <2>1, <3>1, Stays
  <2> QED  BY <2>2, <2>3
<1>7. TypeInv' /\ CallInv' /\ StreamInv'
  BY <1>i, <1>4, <1>5, <1>6, MoveStep
<1> QED  BY <1>1, <1>2, <1>3, <1>4, <1>7

\* The mail of a step that sends no offer: what may join the queue, and what the
\* step may have done to the calls.
LEMMA MailStep ==
  ASSUME IInv, offer' = offer, OfferMoves, CallInv', NEW rows,
         net' \subseteq net, queue' \subseteq queue \cup rows,
         \A row \in rows : /\ RowOK(row) /\ row.kind # "offer"
                           /\ row.kind \in {"decline", "busy"} => Over(row.call, row.from)',
         \A c \in CallId, d \in Device :
           /\ c \in Known(d)' => c \in Known(d) \/ ~Pending(c, d)'
           /\ c \in Live(d)' => c \in Live(d) \/ Pending(c, d)
           /\ c \in Known(d)' => \A e \in calls'[d][c].negative : Refused(c, e)
           /\ c \in Known(d)' /\ calls'[d][c].reason \in {"declined", "busy"} =>
                \/ c \in Known(d) /\ calls[d][c].reason \in {"declined", "busy"}
                \/ \A e \in offer[c].to : Over(c, e)
  PROVE  RowInv' /\ RefusalInv'
<1>i. RowInv /\ CallInv /\ TypeInv /\ RefusalInv
  BY DEF IInv
<1>1. RowInv'
  <2>1. \A m : Routed(m) => Routed(m)'
    BY DEF Routed, Ids
  <2> QED  BY <1>i, <2>1 DEF RowInv, RowOK
<1>2. OnePlace'
  BY <1>i DEF RefusalInv, OnePlace, IsOffer
<1>3. \A c \in CallId, d \in Device : Pending(c, d)' => Pending(c, d)
  BY DEF Pending, IsOffer
<1>4. \A c \in CallId, d \in Device : Refused(c, d)' => Refused(c, d) \/ Over(c, d)'
  <2> SUFFICES ASSUME NEW c \in CallId, NEW d \in Device, Refused(c, d)', ~Refused(c, d)
               PROVE  Over(c, d)'
    OBVIOUS
  <2>1. CASE \E m \in queue' \cup net' : m.kind \in {"decline", "busy"} /\ m.call = c /\ m.from = d
    BY <2>1 DEF Refused
  <2>2. CASE \E e \in Device : c \in Known(e)' /\ d \in calls'[e][c].negative
    BY <2>2
  <2> QED  BY <2>1, <2>2 DEF Refused
<1>5. \A c \in Ids : offer[c].to \subseteq Device
  BY <1>i DEF TypeInv, Ids, Offer
<1>6. \A c \in CallId, d \in Device : Over(c, d) => Over(c, d)'
  BY <1>3 DEF Over
<1>7. \A c \in CallId, d \in Device :
        c \in Known(d)' /\ calls'[d][c].reason \in {"declined", "busy"} =>
          \/ c \in Known(d) /\ calls[d][c].reason \in {"declined", "busy"}
          \/ \A e \in offer'[c].to : Over(c, e)'
  <2> SUFFICES ASSUME NEW c \in CallId, NEW d \in Device, c \in Known(d)',
                      NEW e \in offer'[c].to, \A x \in offer[c].to : Over(c, x),
                      calls'[d][c].reason \in {"declined", "busy"},
                      ~(c \in Known(d) /\ calls[d][c].reason \in {"declined", "busy"})
               PROVE  Over(c, e)'
    OBVIOUS
  <2>1. CASE c \in Ids
    BY <1>5, <1>6, <2>1
  <2>2. CASE c \notin Ids
    BY <2>2 DEF CallInv, Ids
  <2> QED  BY <2>1, <2>2
<1> QED  BY <1>i, <1>1, <1>2, <1>3, <1>4, <1>5, <1>7, RefusalStep

\* A row that goes where the control belongs.
LEMMA RowGood ==
  ASSUME TypeInv, NEW kind \in Kind, NEW c \in Ids, NEW from \in Device, NEW to \in Device,
         kind \in {"offer", "cancel", "elsewhere"} => from = offer[c].by /\ to \in offer[c].to,
         kind \in {"answer", "decline", "busy"} => to = offer[c].by /\ from \in offer[c].to
  PROVE  /\ RowOK(Row(kind, c, from, to)) /\ Row(kind, c, from, to).kind = kind
         /\ Row(kind, c, from, to).call = c /\ Row(kind, c, from, to).from = from
<1>1. offer[c].left \in Nat
  BY DEF TypeInv, Ids, Offer
<1> QED  BY <1>1, CallsAssumption DEF RowOK, Routed, Row

\* A record goes on, and controls that are neither offers nor refusals are queued.
LEMMA RecordAndMail ==
  ASSUME IInv, NEW d \in Device, NEW c \in Known(d), NEW new \in ActiveCall,
         SetCall(d, c, new), Evolves(d, c, calls[d][c], new), offer' = offer, StreamMoves,
         new.negative \subseteq calls[d][c].negative,
         new.reason \in {"declined", "busy"} => calls[d][c].reason \in {"declined", "busy"},
         NEW rows, net' \subseteq net, queue' \subseteq queue \cup rows,
         \A row \in rows : /\ RowOK(row) /\ row.kind # "offer"
                           /\ row.kind \in {"decline", "busy"} => row.call = c /\ row.from = d,
         (\E row \in rows : row.kind \in {"decline", "busy"}) => new.phase = "ended"
  PROVE  IInv'
<1>1. /\ TypeInv' /\ OfferInv' /\ CallInv' /\ StreamInv' /\ OfferMoves
      /\ \A e \in Device, x \in CallId :
           /\ calls'[e][x] = IF e = d /\ x = c THEN new ELSE calls[e][x]
           /\ x \in Known(e)' <=> x \in Known(e)
           /\ x \in Live(e)' => x \in Live(e)
           /\ x \in Live(e)' /\ e = d /\ x = c => new.phase # "ended"
  BY OneRecord
<1>2. \A e \in Device : \A x \in Known(e) : \A y \in calls[e][x].negative : Refused(x, y)
  BY DEF Refused
<1>3. c \in CallId /\ ~Pending(c, d)
  BY DEF IInv, RefusalInv, Known
<1>4. ~Pending(c, d)'
  BY <1>3 DEF Pending, IsOffer
<1>5. \A row \in rows : row.kind \in {"decline", "busy"} => Over(row.call, row.from)'
  <2> SUFFICES ASSUME NEW row \in rows, row.kind \in {"decline", "busy"}
               PROVE  Over(row.call, row.from)'
    OBVIOUS
  <2>1. row.call = c /\ row.from = d /\ new.phase = "ended"
    OBVIOUS
  <2>2. c \notin Live(d)'
    BY <1>1, <1>3, <2>1
  <2> QED  BY <1>4, <2>1, <2>2 DEF Over
<1>6. \A x \in CallId, e \in Device :
        /\ x \in Known(e)' => x \in Known(e)
        /\ x \in Known(e)' => \A y \in calls'[e][x].negative : Refused(x, y)
        /\ x \in Known(e)' /\ calls'[e][x].reason \in {"declined", "busy"} =>
             calls[e][x].reason \in {"declined", "busy"}
  BY <1>1, <1>2
<1>7. RowInv' /\ RefusalInv'
  BY <1>1, <1>5, <1>6, MailStep
<1> QED  BY <1>1, <1>7 DEF IInv

\* Streams that do not change.
LEMMA StreamsRest ==
  ASSUME TypeInv, stream' = stream
  PROVE  StreamMoves
BY DEF TypeInv, StreamMoves

\* Records that go on or are forgotten, anywhere.
Onward ==
  /\ calls' \in [Device -> [CallId -> ActiveCall \cup {None}]]
  /\ \A e \in Device, x \in CallId :
       calls'[e][x] # None =>
         /\ x \in Known(e) /\ Evolves(e, x, calls[e][x], calls'[e][x])
         /\ calls'[e][x].negative \subseteq calls[e][x].negative
         /\ calls'[e][x].reason \in {"declined", "busy"} =>
              calls[e][x].reason \in {"declined", "busy"}

\* Such a step keeps the invariants of calls and streams.
LEMMA OnwardStep ==
  ASSUME IInv, Onward, OfferMoves, OfferInv', StreamMoves
  PROVE  /\ TypeInv' /\ CallInv' /\ StreamInv'
         /\ \A c \in CallId, d \in Device :
              /\ c \in Known(d)' => c \in Known(d)
              /\ c \in Live(d)' => c \in Live(d)
              /\ c \in Known(d)' => \A e \in calls'[d][c].negative : Refused(c, e)
              /\ c \in Known(d)' /\ calls'[d][c].reason \in {"declined", "busy"} =>
                   c \in Known(d) /\ calls[d][c].reason \in {"declined", "busy"}
<1>i. TypeInv /\ CallInv /\ StreamInv
  BY DEF IInv
<1>1. CallsMove
  BY DEF Onward, CallsMove
<1>2. \A c \in CallId, d \in Device : (c \in Known(d)' => c \in Known(d)) /\ (c \in Live(d)' => c \in Live(d))
  BY DEF Onward, Known, Live, Evolves
<1>3. OneLive'
  <2>1. \A e \in Device : Live(e)' \subseteq Live(e)
    BY <1>2 DEF Live, Known
  <2> QED  BY <1>i, <2>1 DEF CallInv, OneLive
<1>4. \A c \in CallId, d \in Device :
        /\ c \in Known(d)' => \A e \in calls'[d][c].negative : Refused(c, e)
        /\ c \in Known(d)' /\ calls'[d][c].reason \in {"declined", "busy"} =>
             c \in Known(d) /\ calls[d][c].reason \in {"declined", "busy"}
  <2> SUFFICES ASSUME NEW c \in CallId, NEW d \in Device, c \in Known(d)'
               PROVE  /\ \A e \in calls'[d][c].negative : Refused(c, e)
                      /\ calls'[d][c].reason \in {"declined", "busy"} =>
                           c \in Known(d) /\ calls[d][c].reason \in {"declined", "busy"}
    OBVIOUS
  <2>1. calls'[d][c] # None
    BY DEF Known
  <2> QED  BY <2>1 DEF Onward, Refused
<1> QED  BY <1>i, <1>1, <1>2, <1>3, <1>4, MoveStep

\* Together with controls that are not offers.
LEMMA OnwardAndMail ==
  ASSUME IInv, Onward, offer' = offer, StreamMoves, NEW rows,
         net' \subseteq net, queue' \subseteq queue \cup rows,
         \A row \in rows : /\ RowOK(row) /\ row.kind # "offer"
                           /\ row.kind \in {"decline", "busy"} => Over(row.call, row.from)'
  PROVE  IInv'
<1>1. OfferInv' /\ OfferMoves
  BY DEF IInv, OfferInv, OfferMoves, Ids, TypeInv
<1>2. /\ TypeInv' /\ CallInv' /\ StreamInv'
      /\ \A c \in CallId, d \in Device :
           /\ c \in Known(d)' => c \in Known(d)
           /\ c \in Live(d)' => c \in Live(d)
           /\ c \in Known(d)' => \A e \in calls'[d][c].negative : Refused(c, e)
           /\ c \in Known(d)' /\ calls'[d][c].reason \in {"declined", "busy"} =>
                c \in Known(d) /\ calls[d][c].reason \in {"declined", "busy"}
  BY <1>1, OnwardStep
<1>3. RowInv' /\ RefusalInv'
  BY <1>1, <1>2, MailStep
<1> QED  BY <1>1, <1>2, <1>3 DEF IInv

\* Calls that do not change.
LEMMA CallsRest ==
  ASSUME IInv, calls' = calls, StreamMoves
  PROVE  Onward
<1>i. TypeInv /\ CallInv /\ StreamInv
  BY DEF IInv
<1> SUFFICES ASSUME NEW e \in Device, NEW x \in CallId, calls[e][x] # None
             PROVE  x \in Known(e) /\ Evolves(e, x, calls[e][x], calls[e][x])
  BY <1>i DEF Onward, TypeInv
<1> QED  BY <1>i, Stays DEF Known

-----------------------------------------------------------------------------
(* The actions *)

\* The user answers, declines, cancels or hangs up.
LEMMA UserActs ==
  ASSUME IInv, NEW d \in Device, NEW c \in CallId,
         answer_call(d, c) \/ decline_call(d, c) \/ cancel_call(d, c) \/ hangup_call(d, c)
  PROVE  IInv'
<1>i. TypeInv /\ CallInv /\ StreamInv /\ RowInv
  BY DEF IInv
<1>0. c \in Known(d) /\ UNCHANGED <<offer, net, stream>>
  BY DEF answer_call, decline_call, cancel_call, hangup_call, RingingHere
<1> DEFINE rec == calls[d][c]
<1>1. rec \in ActiveCall
  BY <1>i, <1>0 DEF TypeInv, Known
<1>2. StreamMoves
  BY <1>i, <1>0, StreamsRest
<1>3. Evolves(d, c, rec, rec)
  BY <1>i, <1>0, <1>2, Stays
<1>4. /\ c \in Ids /\ offer[c].by \in Device /\ offer[c].to \subseteq Device
      /\ rec.direction \in {"outgoing", "incoming"}
      /\ rec.direction = "outgoing" => offer[c].by = d
      /\ rec.direction = "incoming" => d \in offer[c].to
      /\ rec.phase \in {"connecting", "active"} /\ rec.direction = "outgoing" => rec.responder \in offer[c].to
  BY <1>i, <1>0, <1>1, NoneAssumption DEF CallInv, TypeInv, Ids, Offer, ActiveCall
<1>5. CASE answer_call(d, c)
  <2>1. PICK new : new = [rec EXCEPT !.phase = "connecting", !.responder = d]
    OBVIOUS
  <2>2. PICK rows : rows = {Row("answer", c, d, offer[c].by)}
    OBVIOUS
  <2>3. /\ rec.direction = "incoming" /\ rec.phase = "ringing" /\ SetCall(d, c, new)
        /\ queue' = queue \cup rows
    BY <1>5, <2>1, <2>2 DEF answer_call, RingingHere, queue_call_control
  <2>4. /\ new \in ActiveCall /\ new.direction = "incoming" /\ new.phase = "connecting"
        /\ new.negative = rec.negative /\ new.reason = rec.reason /\ new.media = rec.media
    BY <1>1, <2>1, <2>3 DEF ActiveCall, Phase
  <2>5. Evolves(d, c, rec, new)
    BY <1>3, <2>3, <2>4 DEF Evolves, CalledMoves
  <2>6. \A row \in rows : RowOK(row) /\ row.kind = "answer"
    BY <1>i, <1>4, <2>2, <2>3, RowGood DEF Kind
  <2> HIDE DEF rec
  <2> QED  BY <1>0, <1>2, <2>3, <2>4, <2>5, <2>6, RecordAndMail DEF rec
<1>6. ASSUME NEW reason \in Reason, SetCall(d, c, end_call(rec, reason)),
             rec.direction = "outgoing" => reason \notin {"declined", "busy"},
             NEW rows, queue' = queue \cup rows,
             \A row \in rows : /\ RowOK(row) /\ row.kind # "offer"
                               /\ row.kind \in {"decline", "busy"} => row.call = c /\ row.from = d
      PROVE  IInv'
  <2>1. PICK new : new = end_call(rec, reason)
    OBVIOUS
  <2>2. /\ Evolves(d, c, rec, new) /\ new \in ActiveCall /\ new.phase = "ended"
        /\ new.negative \subseteq rec.negative
        /\ new.reason \in {rec.reason, None} \/ (rec.direction = "outgoing" /\ new.reason = reason)
    <3>1. /\ Evolves(d, c, rec, new) /\ new.phase = "ended"
          /\ new.negative \subseteq rec.negative
          /\ new.reason \in {rec.reason, None}
               \/ (rec.direction = "outgoing" /\ new.reason = reason)
      BY <1>1, <1>3, <2>1, Ends
    <3>2. new \in ActiveCall
      BY <3>1 DEF Evolves
    <3> QED  BY <3>1, <3>2
  <2>3. None \notin {"declined", "busy"}
    BY NoneAssumption DEF Reason
  <2> QED  BY <1>0, <1>2, <1>6, <2>1, <2>2, <2>3, RecordAndMail
<1>7. CASE decline_call(d, c)
  <2>1. PICK rows : rows = {Row("decline", c, d, offer[c].by)}
    OBVIOUS
  <2>2. /\ rec.direction = "incoming" /\ SetCall(d, c, end_call(rec, "declined"))
        /\ queue' = queue \cup rows
    BY <1>7, <2>1 DEF decline_call, RingingHere, queue_call_control
  <2>3. \A row \in rows : RowOK(row) /\ row.kind = "decline" /\ row.call = c /\ row.from = d
    BY <1>i, <1>4, <2>1, <2>2, RowGood DEF Kind
  <2> QED  BY <1>6, <2>2, <2>3 DEF Reason
<1>8. CASE cancel_call(d, c)
  <2>1. PICK rows : rows = {Row("cancel", c, d, e) : e \in offer[c].to}
    OBVIOUS
  <2>2. /\ rec.direction = "outgoing" /\ SetCall(d, c, end_call(rec, "cancelled"))
        /\ queue' = queue \cup rows
    BY <1>8, <2>1 DEF cancel_call, queue_call_control
  <2>3. \A row \in rows : RowOK(row) /\ row.kind = "cancel"
    BY <1>i, <1>4, <2>1, <2>2, RowGood DEF Kind
  <2> QED  BY <1>6, <2>2, <2>3 DEF Reason
<1>9. CASE hangup_call(d, c)
  <2>1. PICK to : to = IF rec.direction = "outgoing" THEN rec.responder ELSE offer[c].by
    OBVIOUS
  <2>2. PICK rows : rows = {Row("hangup", c, d, to)}
    OBVIOUS
  <2>3. /\ rec.phase \in {"connecting", "active"} /\ SetCall(d, c, end_call(rec, "hungup"))
        /\ queue' = queue \cup rows
    BY <1>9, <2>1, <2>2 DEF hangup_call, queue_call_control
  <2>4. to \in Device
    BY <1>4, <2>1, <2>3
  <2>5. \A row \in rows : RowOK(row) /\ row.kind = "hangup"
    BY <1>i, <1>4, <2>2, <2>4, RowGood DEF Kind
  <2> QED  BY <1>6, <2>3, <2>5 DEF Reason
<1> QED  BY <1>5, <1>7, <1>8, <1>9

\* What trim_calls keeps of a device's table.
LEMMA Trims ==
  ASSUME NEW d \in Device, NEW K \in Trimmed(d)
  PROVE  K \subseteq Known(d) /\ Live(d) \subseteq K
BY DEF Trimmed

\* An offer is consumed: it is under way no more.
LEMMA OfferConsumed ==
  ASSUME IInv, NEW m \in net, m.kind = "offer", net' = net \ {m}, queue' \subseteq queue \cup {Row("busy", m.call, m.to, m.from)}
  PROVE  ~Pending(m.call, m.to)'
<1>1. RowInv /\ RefusalInv
  BY DEF IInv
<1>2. m.call \in CallId /\ m.to \in Device /\ IsOffer(m, m.call, m.to)
  BY <1>1 DEF RowInv, Routed, Ids, IsOffer
<1>3. ASSUME NEW p \in queue, IsOffer(p, m.call, m.to) PROVE FALSE
  BY <1>1, <1>2, <1>3 DEF RefusalInv, OnePlace
<1>4. ASSUME NEW p \in net, IsOffer(p, m.call, m.to) PROVE p = m
  <2>1. Routed(p) /\ Routed(m) /\ p.kind = "offer" /\ p.call = m.call /\ p.to = m.to
    BY <1>1, <1>4 DEF RowInv, IsOffer
  <2>2. p.from = m.from
    BY <2>1 DEF Routed
  <2> QED  BY <1>1, <2>1, <2>2 DEF RowInv
<1>5. ~IsOffer(Row("busy", m.call, m.to, m.from), m.call, m.to)
  BY DEF Row, IsOffer
<1>6. \A p \in queue' \cup net' : ~IsOffer(p, m.call, m.to)
  BY <1>3, <1>4, <1>5
<1> QED  BY <1>6 DEF Pending, IsOffer

\* A device is offered a call.
LEMMA OfferApplies ==
  ASSUME IInv, NEW d \in Device, NEW m \in net, m.to = d, net' = net \ {m},
         UNCHANGED <<offer, stream>>, ApplyOffer(d, m)
  PROVE  IInv'
<1>i. TypeInv /\ OfferInv /\ CallInv /\ StreamInv /\ RowInv /\ RefusalInv
  BY DEF IInv
<1>0. PICK c : c = m.call
  OBVIOUS
<1>1. /\ m.kind = "offer" /\ c \in Ids /\ c \in CallId /\ m.from = offer[c].by
      /\ d \in offer[c].to /\ m.from \in Device /\ offer[c].by # d
  BY <1>i, <1>0 DEF ApplyOffer, RowInv, Routed, Ids, OfferInv
<1>2. Pending(c, d) /\ c \notin Known(d)
  BY <1>i, <1>0, <1>1 DEF Pending, IsOffer, RefusalInv
<1>3. StreamMoves
  BY <1>i, StreamsRest
<1>4. CASE has_live_call(d) /\ queue_call_control({Row("busy", c, d, m.from)}) /\ UNCHANGED calls
  <2>1. PICK rows : rows = {Row("busy", c, d, m.from)}
    OBVIOUS
  <2>2. ~Pending(c, d)'
    BY <1>0, <1>1, <1>4, OfferConsumed DEF queue_call_control
  <2>3. Over(c, d)'
    BY <1>2, <1>4, <2>2 DEF Over, Live, Known
  <2>4. \A row \in rows : RowOK(row) /\ row.kind # "offer" /\ Over(row.call, row.from)'
    <3>1. /\ RowOK(Row("busy", c, d, m.from)) /\ Row("busy", c, d, m.from).kind = "busy"
          /\ Row("busy", c, d, m.from).call = c /\ Row("busy", c, d, m.from).from = d
      BY <1>i, <1>1, RowGood DEF Kind
    <3>2. PICK row : row = Row("busy", c, d, m.from)
      OBVIOUS
    <3>3. RowOK(row) /\ row.kind # "offer" /\ Over(row.call, row.from)'
      BY <2>3, <3>1, <3>2
    <3> QED  BY <2>1, <3>2, <3>3
  <2>5. Onward
    BY <1>3, <1>4, CallsRest
  <2> QED  BY <1>3, <1>4, <2>1, <2>4, <2>5, OnwardAndMail DEF queue_call_control
<1>5. CASE ~has_live_call(d) /\ queue' = queue
  <2>1. PICK K \in Trimmed(d) :
          calls' = [calls EXCEPT ![d] = [trim_calls(d, @, K) EXCEPT ![c] = NewCall("incoming")]]
    BY <1>0, <1>5 DEF ApplyOffer, has_live_call
  <2>2. NewCall("incoming") \in ActiveCall /\ NewCall("incoming") # None
    <3>1. NewCall("incoming") \in ActiveCall
      BY CallsAssumption DEF NewCall, ActiveCall, Phase
    <3> QED  BY <3>1, NoneAssumption
  <2>3. /\ calls' \in [Device -> [CallId -> ActiveCall \cup {None}]]
        /\ \A e \in Device, x \in CallId :
             calls'[e][x] = IF e = d THEN IF x = c THEN NewCall("incoming")
                                          ELSE IF x \in K THEN calls[d][x] ELSE None
                            ELSE calls[e][x]
    BY <1>i, <1>1, <2>1, <2>2 DEF TypeInv, trim_calls
  <2>4. \A x \in Known(d)' : x = c \/ x \in Known(d)
    BY <2>1, <2>3, Trims DEF Known
  <2>5. OneLive'
    <3>1. Live(d) = {}
      BY <1>5 DEF has_live_call
    <3>2. \A x \in CallId : x \in Live(d)' => x = c
      BY <2>3, <3>1, Trims DEF Live, Known
    <3>3. \A e \in Device : e # d => Live(e)' = Live(e)
      BY <2>3 DEF Live, Known
    <3> QED  BY <1>i, <3>2, <3>3 DEF CallInv, OneLive, Live, Known
  <2>6. OfferInv' /\ OfferMoves
    BY <1>i DEF OfferInv, OfferMoves, Ids, TypeInv
  <2>7. CallsMove
    <3> SUFFICES ASSUME NEW e \in Device, NEW x \in CallId, calls'[e][x] # None
                 PROVE  \/ x \in Ids' /\ Born(e, x)
                        \/ x \in Known(e) /\ Evolves(e, x, calls[e][x], calls'[e][x])
      BY <2>3 DEF CallsMove
    <3>1. CASE e = d /\ x = c
      BY <1>1, <2>3, <3>1 DEF Born, Ids
    <3>2. CASE ~(e = d /\ x = c)
      <4>1. calls'[e][x] = calls[e][x] /\ x \in Known(e)
        BY <2>3, <3>2, Trims DEF Known
      <4> QED  BY <1>i, <1>3, <4>1, Stays
    <3> QED  BY <3>1, <3>2
  <2>8. TypeInv' /\ CallInv' /\ StreamInv'
    BY <1>i, <1>3, <2>5, <2>6, <2>7, MoveStep
  <2>9. ~Pending(c, d)'
    BY <1>0, <1>1, <1>5, OfferConsumed
  <2>10. \A x \in CallId, e \in Device :
           /\ x \in Known(e)' => x \in Known(e) \/ ~Pending(x, e)'
           /\ x \in Live(e)' => x \in Live(e) \/ Pending(x, e)
    BY <1>2, <2>3, <2>9, Trims DEF Live, Known
  <2>11. \A x \in CallId, e \in Device : x \in Known(e)' =>
           /\ \A y \in calls'[e][x].negative : Refused(x, y)
           /\ calls'[e][x].reason \in {"declined", "busy"} =>
                x \in Known(e) /\ calls[e][x].reason \in {"declined", "busy"}
    <3> SUFFICES ASSUME NEW x \in CallId, NEW e \in Device, x \in Known(e)'
                 PROVE  /\ \A y \in calls'[e][x].negative : Refused(x, y)
                        /\ calls'[e][x].reason \in {"declined", "busy"} =>
                             x \in Known(e) /\ calls[e][x].reason \in {"declined", "busy"}
      OBVIOUS
    <3>1. CASE e = d /\ x = c
      BY <1>1, <2>3, <3>1, NoneAssumption DEF NewCall, Reason
    <3>2. CASE ~(e = d /\ x = c)
      <4>1. calls'[e][x] = calls[e][x] /\ x \in Known(e)
        BY <2>3, <3>2, Trims DEF Known
      <4> QED  BY <4>1 DEF Refused
    <3> QED  BY <3>1, <3>2
  <2>12. RowInv' /\ RefusalInv'
    <3> DEFINE rows == {}
    <3>1. queue' \subseteq queue \cup rows /\ net' \subseteq net
      BY <1>5
    <3>2. \A row \in rows : /\ RowOK(row) /\ row.kind # "offer"
                            /\ row.kind \in {"decline", "busy"} => Over(row.call, row.from)'
      OBVIOUS
    <3> HIDE DEF rows
    <3> QED  BY <2>6, <2>8, <2>10, <2>11, <3>1, <3>2, MailStep
  <2> QED  BY <2>6, <2>8, <2>12 DEF IInv
<1> QED  BY <1>0, <1>4, <1>5 DEF ApplyOffer

\* The caller takes an answer, or tells a late one that it is late.
LEMMA AnswerApplies ==
  ASSUME IInv, NEW d \in Device, NEW m \in net, m.to = d, net' = net \ {m},
         UNCHANGED <<offer, stream>>, ApplyAnswer(d, m)
  PROVE  IInv'
<1>i. TypeInv /\ OfferInv /\ CallInv /\ StreamInv /\ RowInv
  BY DEF IInv
<1>0. PICK c : c = m.call
  OBVIOUS
<1>1. /\ m.kind = "answer" /\ c \in Known(d) /\ c \in Ids /\ d = offer[c].by
      /\ m.from \in offer[c].to /\ offer[c].to \subseteq Device /\ d \notin offer[c].to
  BY <1>i, <1>0 DEF ApplyAnswer, RowInv, Routed, OfferInv, TypeInv, Ids, Offer
<1> DEFINE rec == calls[d][c]
<1>2. rec \in ActiveCall /\ rec.direction = "outgoing"
  BY <1>i, <1>1 DEF CallInv, TypeInv, Known, ActiveCall
<1>3. StreamMoves
  BY <1>i, StreamsRest
<1>4. Evolves(d, c, rec, rec)
  BY <1>i, <1>1, <1>3, Stays
<1>5. \A e \in offer[c].to : LET row == Row("elsewhere", c, d, e) IN RowOK(row) /\ row.kind = "elsewhere"
  BY <1>i, <1>1, RowGood DEF Kind
<1>6. CASE rec.phase = "ringing" /\ offer[c].left > 0
  <2>1. PICK new : new = [rec EXCEPT !.phase = "connecting", !.responder = m.from]
    OBVIOUS
  <2>2. PICK rows : rows = {Row("elsewhere", c, d, e) : e \in offer[c].to \ {m.from}}
    OBVIOUS
  <2>3. SetCall(d, c, new) /\ queue' = queue \cup rows
    BY <1>0, <1>6, <2>1, <2>2 DEF ApplyAnswer, queue_call_control
  <2>4. /\ new \in ActiveCall /\ new.direction = "outgoing" /\ new.phase = "connecting"
        /\ new.negative = rec.negative /\ new.reason = rec.reason /\ new.responder = m.from
    BY <1>1, <1>2, <2>1 DEF ActiveCall, Phase
  <2>5. Evolves(d, c, rec, new)
    BY <1>1, <1>2, <1>4, <1>6, <2>4 DEF Evolves, CallerMoves
  <2>6. \A row \in rows : RowOK(row) /\ row.kind = "elsewhere"
    BY <1>5, <2>2
  <2> QED  BY <1>1, <1>3, <2>3, <2>4, <2>5, <2>6, RecordAndMail
<1>7. CASE ~(rec.phase = "ringing" /\ offer[c].left > 0)
  <2>1. PICK rows : rows = IF rec.responder = m.from THEN {} ELSE {Row("elsewhere", c, d, m.from)}
    OBVIOUS
  <2>2. calls' = calls /\ queue' = queue \cup rows
    BY <1>0, <1>7, <2>1 DEF ApplyAnswer, queue_call_control
  <2>3. \A row \in rows : RowOK(row) /\ row.kind = "elsewhere"
    BY <1>1, <1>5, <2>1
  <2>4. Onward
    BY <1>3, <2>2, CallsRest
  <2> QED  BY <1>3, <2>2, <2>3, <2>4, OnwardAndMail
<1> QED  BY <1>6, <1>7

\* The caller counts a refusal.
LEMMA RefusalApplies ==
  ASSUME IInv, NEW d \in Device, NEW m \in net, m.to = d, net' = net \ {m},
         UNCHANGED <<offer, stream>>, ApplyRefusal(d, m)
  PROVE  IInv'
<1>i. TypeInv /\ OfferInv /\ CallInv /\ StreamInv /\ RowInv /\ RefusalInv
  BY DEF IInv
<1>0. PICK c : c = m.call
  OBVIOUS
<1> DEFINE old == calls[d][c]
<1>1. /\ m.kind \in {"decline", "busy"} /\ c \in Known(d) /\ c \in CallId /\ c \in Ids /\ d = offer[c].by
      /\ m.from \in offer[c].to /\ offer[c].to \subseteq Device /\ d \notin offer[c].to
      /\ old.phase = "ringing" /\ queue' = queue
  BY <1>i, <1>0 DEF ApplyRefusal, RowInv, Routed, OfferInv, TypeInv, Ids, Offer
<1>2. old \in ActiveCall /\ old.direction = "outgoing" /\ old.negative \subseteq offer[c].to
  BY <1>i, <1>1 DEF CallInv, TypeInv, Known, ActiveCall
<1>3. StreamMoves
  BY <1>i, StreamsRest
<1>4. PICK rec : rec = [old EXCEPT !.negative = @ \cup {m.from}, !.declined = @ \/ m.kind = "decline"]
  OBVIOUS
<1>5. /\ rec \in ActiveCall /\ rec.direction = "outgoing" /\ rec.phase = "ringing"
      /\ rec.negative = old.negative \cup {m.from} /\ rec.reason = old.reason
      /\ rec.media = old.media /\ rec.responder = old.responder
  BY <1>1, <1>2, <1>4 DEF ActiveCall
<1>6. \A e \in rec.negative : Refused(c, e)
  BY <1>0, <1>1, <1>5 DEF Refused
<1>7. Evolves(d, c, old, rec) /\ Evolves(d, c, rec, rec)
  BY <1>1, <1>2, <1>5 DEF Evolves, CallerMoves
<1>8. AllRefused(rec, c) => rec.negative = offer[c].to
  <2>1. IsFiniteSet(offer[c].to) /\ rec.negative \subseteq offer[c].to
    BY <1>1, <1>2, <1>5, CallsAssumption, FS_Subset
  <2>2. /\ Cardinality(rec.negative) <= Cardinality(offer[c].to)
        /\ Cardinality(offer[c].to) = Cardinality(rec.negative) => offer[c].to = rec.negative
    BY <2>1, FS_Subset
  <2>3. Cardinality(rec.negative) \in Nat /\ Cardinality(offer[c].to) \in Nat
    BY <2>1, FS_Subset, FS_CardinalityType
  <2> QED  BY <2>2, <2>3 DEF AllRefused
<1>9. PICK new : new = IF AllRefused(rec, c)
                       THEN end_call(rec, IF rec.declined THEN "declined" ELSE "busy") ELSE rec
  OBVIOUS
<1>10. SetCall(d, c, new)
  BY <1>0, <1>4, <1>9 DEF ApplyRefusal
<1>11. /\ new \in ActiveCall /\ Evolves(d, c, old, new) /\ new.negative \subseteq rec.negative
       /\ new.reason \in {"declined", "busy"} =>
            old.reason \in {"declined", "busy"} \/ rec.negative = offer[c].to
  <2>1. CASE ~AllRefused(rec, c)
    BY <1>5, <1>7, <1>9, <2>1
  <2>2. CASE AllRefused(rec, c)
    <3>1. PICK why \in {"declined", "busy"} : new = end_call(rec, why)
      BY <1>9, <2>2
    <3>2. Evolves(d, c, rec, new) /\ new.phase = "ended" /\ new.negative \subseteq rec.negative
      BY <1>5, <1>7, <3>1, Ends DEF Reason
    <3>3. new \in ActiveCall /\ Evolves(d, c, old, new)
      BY <1>1, <1>2, <1>5, <3>2 DEF Evolves, CallerMoves
    <3> QED  BY <1>8, <2>2, <3>2, <3>3
  <2> QED  BY <2>1, <2>2
<1> HIDE DEF old
<1>12. /\ TypeInv' /\ OfferInv' /\ CallInv' /\ StreamInv' /\ OfferMoves
       /\ \A e \in Device, x \in CallId :
            /\ calls'[e][x] = IF e = d /\ x = c THEN new ELSE calls[e][x]
            /\ x \in Known(e)' <=> x \in Known(e)
            /\ x \in Live(e)' => x \in Live(e)
  BY <1>1, <1>3, <1>10, <1>11, OneRecord DEF old
<1>13. \A x \in CallId, e \in Device : x \in Known(e)' =>
         /\ \A y \in calls'[e][x].negative : Refused(x, y)
         /\ calls'[e][x].reason \in {"declined", "busy"} =>
              \/ x \in Known(e) /\ calls[e][x].reason \in {"declined", "busy"}
              \/ \A y \in offer[x].to : Over(x, y)
  <2> SUFFICES ASSUME NEW x \in CallId, NEW e \in Device, x \in Known(e)'
               PROVE  /\ \A y \in calls'[e][x].negative : Refused(x, y)
                      /\ calls'[e][x].reason \in {"declined", "busy"} =>
                           \/ x \in Known(e) /\ calls[e][x].reason \in {"declined", "busy"}
                           \/ \A y \in offer[x].to : Over(x, y)
    OBVIOUS
  <2>0. x \in Known(e)
    BY <1>12
  <2>1. CASE e = d /\ x = c
    <3>1. calls'[e][x] = new
      BY <1>12, <2>1
    <3>2. \A y \in rec.negative : y \in Device => Over(c, y)
      BY <1>i, <1>1, <1>6 DEF RefusalInv
    <3>3. rec.negative = offer[c].to => \A y \in offer[c].to : Over(c, y)
      BY <1>1, <3>2
    <3> QED  BY <1>6, <1>11, <2>0, <2>1, <3>1, <3>3 DEF old
  <2>2. CASE ~(e = d /\ x = c)
    <3>1. calls'[e][x] = calls[e][x]
      BY <1>12, <2>2
    <3> QED  BY <2>0, <3>1 DEF Refused
  <2> QED  BY <2>1, <2>2
<1>14. RowInv' /\ RefusalInv'
  <2> DEFINE rows == {}
  <2>1. queue' \subseteq queue \cup rows /\ net' \subseteq net
    BY <1>1
  <2>2. \A row \in rows : /\ RowOK(row) /\ row.kind # "offer"
                          /\ row.kind \in {"decline", "busy"} => Over(row.call, row.from)'
    OBVIOUS
  <2> HIDE DEF rows
  <2> QED  BY <1>12, <1>13, <2>1, <2>2, MailStep
<1> QED  BY <1>12, <1>14 DEF IInv

\* A cancel or a hangup ends the call, and a control of no use is only consumed.
LEMMA EndApplies ==
  ASSUME IInv, NEW d \in Device, NEW m \in net, m.to = d, net' = net \ {m},
         UNCHANGED <<offer, stream>>,
         ApplyCancel(d, m) \/ ApplyHangup(d, m) \/ UNCHANGED <<calls, queue>>
  PROVE  IInv'
<1>i. TypeInv /\ CallInv /\ StreamInv
  BY DEF IInv
<1>1. StreamMoves
  BY <1>i, StreamsRest
<1>2. PICK rows : rows = {}
  OBVIOUS
<1>3. CASE ApplyCancel(d, m) \/ ApplyHangup(d, m)
  <2>1. PICK c : c = m.call
    OBVIOUS
  <2>2. PICK rec : rec = calls[d][c]
    OBVIOUS
  <2>3. PICK reason \in {"cancelled", "hungup", "elsewhere"} : SetCall(d, c, end_call(rec, reason))
    BY <1>3, <2>1, <2>2 DEF ApplyCancel, ApplyHangup
  <2>4. c \in Known(d) /\ queue' = queue
    BY <1>3, <2>1 DEF ApplyCancel, ApplyHangup
  <2>5. rec \in ActiveCall /\ Evolves(d, c, rec, rec)
    BY <1>i, <1>1, <2>2, <2>4, Stays DEF TypeInv, Known
  <2>6. PICK new : new = end_call(rec, reason)
    OBVIOUS
  <2>7. /\ Evolves(d, c, rec, new) /\ new.negative \subseteq rec.negative
        /\ new.reason \in {rec.reason, None, reason}
    BY <2>5, <2>6, Ends DEF Reason
  <2>8. new \in ActiveCall /\ (new.reason \in {"declined", "busy"} => rec.reason \in {"declined", "busy"})
    BY <2>3, <2>7, NoneAssumption DEF Evolves, Reason
  <2>9. /\ SetCall(d, c, new) /\ Evolves(d, c, calls[d][c], new)
        /\ new.negative \subseteq calls[d][c].negative
        /\ new.reason \in {"declined", "busy"} => calls[d][c].reason \in {"declined", "busy"}
    BY <2>2, <2>3, <2>6, <2>7, <2>8
  <2>10. queue' \subseteq queue \cup rows /\ net' \subseteq net
    BY <2>4
  <2>11. /\ \A row \in rows : /\ RowOK(row) /\ row.kind # "offer"
                              /\ row.kind \in {"decline", "busy"} => row.call = c /\ row.from = d
         /\ (\E row \in rows : row.kind \in {"decline", "busy"}) => new.phase = "ended"
    BY <1>2
  <2> QED  BY <1>1, <2>4, <2>8, <2>9, <2>10, <2>11, RecordAndMail
<1>4. CASE UNCHANGED <<calls, queue>>
  <2>1. Onward
    BY <1>1, <1>4, CallsRest
  <2> QED  BY <1>1, <1>2, <1>4, <2>1, OnwardAndMail
<1> QED  BY <1>3, <1>4

\* A control is applied.
LEMMA ControlApplies ==
  ASSUME IInv, NEW d \in Device, NEW m \in net, apply_call_control(d, m)
  PROVE  IInv'
<1>1. m.to = d /\ net' = net \ {m} /\ UNCHANGED <<offer, stream>>
  BY DEF apply_call_control
<1>2. \/ ApplyOffer(d, m) \/ ApplyAnswer(d, m) \/ ApplyRefusal(d, m)
      \/ ApplyCancel(d, m) \/ ApplyHangup(d, m) \/ UNCHANGED <<calls, queue>>
  BY DEF apply_call_control, Applies
<1> QED  BY <1>1, <1>2, OfferApplies, AnswerApplies, RefusalApplies, EndApplies

\* Streams that are dropped stay streams to the same device.
LEMMA Drops ==
  ASSUME NEW str \in [CallId -> Stream], NEW gone
  PROVE  /\ Dropped(str, gone) \in [CallId -> Stream]
         /\ \A s \in CallId : /\ Dropped(str, gone)[s].to = str[s].to
                              /\ Dropped(str, gone)[s].by = str[s].by
                              /\ s \notin gone => Dropped(str, gone)[s] = str[s]
                              /\ s \in gone => Dropped(str, gone)[s].stage = "gone"
<1>1. \A s \in CallId : [str[s] EXCEPT !.stage = "gone"] \in Stream
  BY DEF Stream
<1>2. \A s \in CallId : /\ [str[s] EXCEPT !.stage = "gone"].to = str[s].to
                        /\ [str[s] EXCEPT !.stage = "gone"].by = str[s].by
                        /\ [str[s] EXCEPT !.stage = "gone"].stage = "gone"
  BY DEF Stream
<1> QED  BY <1>1, <1>2 DEF Dropped

\* Streams that break or are dropped unread.
LEMMA DropsMove ==
  ASSUME TypeInv, NEW gone, \A s \in CallId : s \in gone => stream[s].stage # "none",
         stream' = Dropped(stream, gone)
  PROVE  StreamMoves
<1>1. stream \in [CallId -> Stream]
  BY DEF TypeInv
<1> QED  BY <1>1, Drops DEF StreamMoves

\* The media of a device's live call, and streams that break.
LEMMA MediaMoves ==
  ASSUME IInv, (\E d \in Device : pump_call_media(d)) \/ (\E s \in CallId : BreakStream(s))
  PROVE  IInv'
<1>i. TypeInv /\ OfferInv /\ CallInv /\ StreamInv
  BY DEF IInv
<1>0. offer' = offer /\ queue' = queue /\ net' = net
  BY DEF pump_call_media, BreakStream
<1>1. PICK rows : rows = {}
  OBVIOUS
<1>2. stream \in [CallId -> Stream]
  BY <1>i DEF TypeInv
<1>3. ASSUME StreamMoves, calls' = calls PROVE IInv'
  <2>1. Onward
    BY <1>3, CallsRest
  <2> QED  BY <1>0, <1>1, <1>3, <2>1, OnwardAndMail
<1>4. ASSUME NEW d \in Device, NEW c \in Live(d), NEW new \in ActiveCall, StreamMoves,
             SetCall(d, c, new), Evolves(d, c, calls[d][c], new),
             new.negative \subseteq calls[d][c].negative,
             new.reason \in {calls[d][c].reason, None, "route"}
      PROVE  IInv'
  <2>1. new.reason \in {"declined", "busy"} => calls[d][c].reason \in {"declined", "busy"}
    BY <1>4, NoneAssumption DEF Reason
  <2>2. c \in Known(d)
    BY <1>4 DEF Live
  <2>3. queue' \subseteq queue \cup rows /\ net' \subseteq net
    BY <1>0
  <2>4. /\ \A row \in rows : /\ RowOK(row) /\ row.kind # "offer"
                             /\ row.kind \in {"decline", "busy"} => row.call = c /\ row.from = d
        /\ (\E row \in rows : row.kind \in {"decline", "busy"}) => new.phase = "ended"
    BY <1>1
  <2> QED  BY <1>0, <1>4, <2>1, <2>2, <2>3, <2>4, RecordAndMail
<1>5. CASE \E s \in CallId : BreakStream(s)
  <2>1. PICK s \in CallId : BreakStream(s)
    BY <1>5
  <2>2. PICK gone : gone = {s}
    OBVIOUS
  <2>3. stream' = Dropped(stream, gone) /\ calls' = calls /\ \A x \in CallId : x \in gone => stream[x].stage # "none"
    BY <2>1, <2>2 DEF BreakStream
  <2> QED  BY <1>i, <1>3, <2>3, DropsMove
<1>6. ASSUME NEW d \in Device, pump_call_media(d) PROVE IInv'
  <2>1. PICK gone : gone = Waiting(d)
    OBVIOUS
  <2>2. \A s \in CallId : s \in gone => stream[s].stage = "waiting" /\ stream[s].to = d
    BY <2>1 DEF Waiting
  <2>3. CASE calls' = calls /\ stream' = Dropped(stream, Waiting(d))
    BY <1>i, <1>3, <2>1, <2>2, <2>3, DropsMove
  <2>4. ASSUME NEW c \in Live(d), NEW s \in CallId, AcceptStream(d, c, s) PROVE IInv'
    <3>1. PICK str : str = [stream EXCEPT ![s] = Taken(stream[s], c)]
      OBVIOUS
    <3>2. /\ str \in [CallId -> Stream] /\ \A x \in CallId : str[x].to = stream[x].to
          /\ str[s].stage = "taken" /\ \A x \in CallId : x # s => str[x] = stream[x]
      <4>1. c \in CallId
        BY <2>4 DEF Live, Known
      <4>2. PICK x : x = Taken(stream[s], c)
        OBVIOUS
      <4>3. x \in Stream /\ x.to = stream[s].to /\ x.stage = "taken"
        BY <1>2, <4>1, <4>2 DEF Stream, Taken
      <4>4. str = [stream EXCEPT ![s] = x]
        BY <1>2, <3>1, <4>2
      <4> QED  BY <1>2, <4>3, <4>4
    <3>3. PICK rest : rest = Waiting(d) \ {s}
      OBVIOUS
    <3>4. stream' = Dropped(str, rest) /\ s \in Waiting(d)
      BY <2>4, <3>1, <3>3 DEF AcceptStream
    <3>5. stream[s].stage = "waiting" /\ stream[s].to = d
      BY <2>1, <2>2, <3>4
    <3>6. StreamMoves /\ stream'[s].stage # "none" /\ stream'[s].to = d
      <4>1. /\ stream' \in [CallId -> Stream]
            /\ \A x \in CallId : /\ stream'[x].to = stream[x].to
                                 /\ stream'[x].stage # "none" <=> stream[x].stage # "none"
        BY <2>1, <2>2, <3>2, <3>3, <3>4, <3>5, Drops
      <4> QED  BY <3>5, <4>1 DEF StreamMoves
    <3> DEFINE old == calls[d][c]
    <3>7. PICK rec : rec = [old EXCEPT !.media = s]
      OBVIOUS
    <3>8. c \in Known(d) /\ old \in ActiveCall /\ old.phase = "connecting" /\ old.direction = "incoming"
      BY <1>i, <2>4 DEF AcceptStream, Live, Known, TypeInv
    <3>9. /\ rec \in ActiveCall /\ rec.phase = "connecting" /\ rec.direction = "incoming"
          /\ rec.media = s /\ rec.negative = old.negative /\ rec.reason = old.reason
      BY <3>7, <3>8 DEF ActiveCall
    <3>10. Evolves(d, c, old, old)
      BY <1>i, <3>6, <3>8, Stays
    <3>11. Evolves(d, c, rec, rec) /\ s # None
      BY <3>6, <3>8, <3>9, <3>10, NoneAssumption DEF Evolves, CalledMoves, CallId
    <3>12. PICK new : new = Pumped(rec, c, stream')
      OBVIOUS
    <3>13. /\ Evolves(d, c, rec, new) /\ new.negative \subseteq rec.negative
           /\ new.reason \in {rec.reason, None, "route"}
      BY <3>9, <3>11, <3>12, Pumps
    <3>14. SetCall(d, c, new)
      BY <2>4, <3>1, <3>3, <3>4, <3>7, <3>12 DEF AcceptStream
    <3>15. Evolves(d, c, old, new) /\ new \in ActiveCall
      BY <3>8, <3>9, <3>13 DEF Evolves
    <3> QED  BY <1>4, <3>6, <3>9, <3>13, <3>14, <3>15
  <2>5. ASSUME NEW c \in Live(d), OpenStream(d, c) PROVE IInv'
    <3> DEFINE old == calls[d][c]
    <3>1. /\ c \in CallId /\ c \in Known(d) /\ old \in ActiveCall /\ c # None
          /\ old.phase = "connecting" /\ old.direction = "outgoing" /\ old.media = None
      <4>1. c \in CallId /\ c \in Known(d) /\ old \in ActiveCall
        BY <1>i, <2>5 DEF Live, Known, TypeInv
      <4>2. c # None
        BY <4>1, NoneAssumption DEF CallId
      <4> QED  BY <2>5, <4>1, <4>2 DEF OpenStream
    <3>2. c \in Ids /\ offer[c].by = d /\ old.responder \in offer[c].to
      BY <1>i, <3>1 DEF CallInv
    <3>3. stream[c].stage = "none"
      BY <1>i, <3>1, <3>2 DEF StreamInv, Opened
    <3>4. CASE SetCall(d, c, end_call(old, "route")) /\ stream' = Dropped(stream, Waiting(d))
      <4>1. StreamMoves
        BY <1>i, <2>1, <2>2, <3>4, DropsMove
      <4>2. Evolves(d, c, old, old)
        BY <1>i, <3>1, <4>1, Stays
      <4>3. PICK new : new = end_call(old, "route")
        OBVIOUS
      <4>4. /\ Evolves(d, c, old, new) /\ new.negative \subseteq old.negative
            /\ new.reason \in {old.reason, None, "route"}
        BY <3>1, <4>2, <4>3, Ends DEF Reason
      <4>5. new \in ActiveCall
        BY <4>4 DEF Evolves
      <4> QED  BY <1>4, <3>4, <4>1, <4>3, <4>4, <4>5
    <3>5. CASE /\ SetCall(d, c, [old EXCEPT !.media = c])
               /\ stream' = Dropped([stream EXCEPT ![c] =
                    [stage |-> "waiting", to |-> old.responder, by |-> None,
                     hello |-> {"initiator"}]], Waiting(d))
      <4>1. PICK x : x = [stage |-> "waiting", to |-> old.responder, by |-> None, hello |-> {"initiator"}]
        OBVIOUS
      <4>2. PICK str : str = [stream EXCEPT ![c] = x]
        OBVIOUS
      <4>3. x \in Stream /\ x.to = old.responder /\ x.stage = "waiting"
        BY <3>1, <4>1 DEF Stream, ActiveCall
      <4>4. str \in [CallId -> Stream] /\ str[c] = x /\ \A y \in CallId : y # c => str[y] = stream[y]
        BY <1>2, <3>1, <4>2, <4>3
      <4>5. /\ stream' \in [CallId -> Stream] /\ stream'[c] = x
            /\ \A y \in CallId : y # c => /\ stream'[y].to = stream[y].to
                                          /\ stream'[y].stage # "none" <=> stream[y].stage # "none"
        <5>1. stream' = Dropped(str, gone) /\ c \notin gone
          BY <2>1, <2>2, <3>1, <3>3, <3>5, <4>1, <4>2
        <5> QED  BY <2>2, <3>1, <4>4, <5>1, Drops
      <4>6. PICK new : new = [old EXCEPT !.media = c]
        OBVIOUS
      <4>7. /\ new \in ActiveCall /\ new.media = c /\ new.phase = "connecting" /\ new.direction = "outgoing"
            /\ new.responder = old.responder /\ new.negative = old.negative /\ new.reason = old.reason
        BY <3>1, <4>6 DEF ActiveCall
      <4>8. calls'[d][c] = new /\ SetCall(d, c, new)
        BY <1>i, <3>1, <3>5, <4>6 DEF SetCall, TypeInv
      <4>9. Opened(c)'
        <5>1. c \in Ids' /\ offer'[c].by = d
          BY <1>0, <3>2 DEF Ids
        <5>2. /\ calls'[d][c].responder = stream'[c].to /\ calls'[d][c].phase = "connecting"
              /\ calls'[d][c].media # None
          BY <3>1, <4>3, <4>5, <4>7, <4>8
        <5> QED  BY <5>1, <5>2 DEF Opened
      <4>10. StreamMoves
        <5> SUFFICES ASSUME NEW y \in CallId
                     PROVE  /\ stream[y].stage # "none" =>
                                 stream'[y].stage # "none" /\ stream'[y].to = stream[y].to
                            /\ stream'[y].stage # "none" => stream[y].stage # "none" \/ Opened(y)'
          BY <4>5 DEF StreamMoves
        <5>1. CASE y = c
          BY <3>3, <4>9, <5>1
        <5>2. CASE y # c
          BY <4>5, <5>2
        <5> QED  BY <5>1, <5>2
      <4>11. Evolves(d, c, old, new)
        BY <1>i, <3>1, <3>2, <4>7 DEF Evolves, CallerMoves, CallInv
      <4> QED  BY <1>4, <4>7, <4>8, <4>10, <4>11
    <3> QED  BY <2>5, <3>4, <3>5 DEF OpenStream
  <2>6. ASSUME NEW c \in Live(d), PumpStream(d, c) PROVE IInv'
    <3> DEFINE rec == calls[d][c]
    <3>1. c \in CallId /\ c \in Known(d) /\ rec \in ActiveCall /\ rec.phase # "ended" /\ rec.media # None
      BY <1>i, <2>6 DEF PumpStream, Live, Known, TypeInv
    <3>2. PICK s \in CallId : s = rec.media
      BY <3>1 DEF ActiveCall
    <3>3. PICK str : str = [stream EXCEPT ![s].hello = @ \cup {Side(rec)}]
      OBVIOUS
    <3>4. /\ stream' = Dropped(str, Waiting(d))
          /\ SetCall(d, c, Pumped(rec, c, stream'))
      BY <2>6, <3>2, <3>3 DEF PumpStream
    <3>5. str \in [CallId -> Stream]
          /\ \A y \in CallId : str[y].to = stream[y].to /\ str[y].stage = stream[y].stage
      <4>1. PICK x : x = [stream[s] EXCEPT !.hello = @ \cup {Side(rec)}]
        OBVIOUS
      <4>2. stream[s] \in Stream /\ Side(rec) \in {"initiator", "responder"}
        BY <1>2 DEF Side
      <4>3. x \in Stream /\ x.to = stream[s].to /\ x.stage = stream[s].stage
        BY <4>1, <4>2 DEF Stream
      <4>4. str = [stream EXCEPT ![s] = x]
        BY <1>2, <3>3, <4>1
      <4> QED  BY <1>2, <4>3, <4>4
    <3>6. StreamMoves
      <4>1. /\ stream' \in [CallId -> Stream]
            /\ \A x \in CallId : /\ stream'[x].to = stream[x].to
                                 /\ stream'[x].stage # "none" <=> stream[x].stage # "none"
        BY <2>1, <2>2, <3>4, <3>5, Drops
      <4> QED  BY <4>1 DEF StreamMoves
    <3>7. Evolves(d, c, rec, rec)
      BY <1>i, <3>1, <3>6, Stays
    <3>8. PICK new : new = Pumped(rec, c, stream')
      OBVIOUS
    <3>9. /\ Evolves(d, c, rec, new) /\ new.negative \subseteq rec.negative
          /\ new.reason \in {rec.reason, None, "route"}
      BY <3>1, <3>7, <3>8, Pumps
    <3>10. new \in ActiveCall
      BY <3>9 DEF Evolves
    <3> QED  BY <1>4, <3>4, <3>6, <3>8, <3>9, <3>10
  <2> QED  BY <1>6, <2>3, <2>4, <2>5, <2>6 DEF pump_call_media
<1> QED  BY <1>5, <1>6

\* Calls that go on while the mail is moved about: no control comes of nothing.
LEMMA OnwardMoved ==
  ASSUME IInv, Onward, OfferMoves, OfferInv', StreamMoves, RowInv', OnePlace',
         \A m \in queue' \cup net' : \E r \in queue \cup net :
           r.kind = m.kind /\ r.call = m.call /\ r.from = m.from /\ r.to = m.to
  PROVE  IInv'
<1>i. TypeInv /\ CallInv /\ RefusalInv
  BY DEF IInv
<1>1. /\ TypeInv' /\ CallInv' /\ StreamInv'
      /\ \A c \in CallId, d \in Device :
           /\ c \in Known(d)' => c \in Known(d)
           /\ c \in Live(d)' => c \in Live(d)
           /\ c \in Known(d)' => \A e \in calls'[d][c].negative : Refused(c, e)
           /\ c \in Known(d)' /\ calls'[d][c].reason \in {"declined", "busy"} =>
                c \in Known(d) /\ calls[d][c].reason \in {"declined", "busy"}
  BY OnwardStep
<1>2. \A c \in CallId, d \in Device : Pending(c, d)' => Pending(c, d)
  BY DEF Pending, IsOffer
<1>3. \A c \in CallId, d \in Device : Refused(c, d)' => Refused(c, d)
  <2> SUFFICES ASSUME NEW c \in CallId, NEW d \in Device, Refused(c, d)' PROVE Refused(c, d)
    OBVIOUS
  <2>1. CASE \E m \in queue' \cup net' : m.kind \in {"decline", "busy"} /\ m.call = c /\ m.from = d
    BY <2>1 DEF Refused
  <2>2. CASE \E e \in Device : c \in Known(e)' /\ d \in calls'[e][c].negative
    BY <1>1, <2>2
  <2> QED  BY <2>1, <2>2 DEF Refused
<1>4. \A c \in Ids : offer[c].to \subseteq Device
  BY <1>i DEF TypeInv, Ids, Offer
<1>5. RefusalInv'
  BY <1>i, <1>1, <1>2, <1>3, <1>4, RefusalStep
<1> QED  BY <1>1, <1>5 DEF IInv

\* Rows that change in nothing but what is left of their deadline.
LEMMA Relabelled ==
  ASSUME IInv, Onward, OfferMoves, OfferInv', StreamMoves, net' = net,
         NEW F, queue' = {F[r] : r \in queue},
         \A r \in queue : F[r] = [kind |-> r.kind, call |-> r.call, from |-> r.from, to |-> r.to,
                                  left |-> F[r].left] /\ F[r].left \in Nat \cup {None}
  PROVE  IInv'
<1>i. RowInv /\ RefusalInv
  BY DEF IInv
<1>1. \A r \in queue : /\ F[r].kind = r.kind /\ F[r].call = r.call
                       /\ F[r].from = r.from /\ F[r].to = r.to
  <2> TAKE r \in queue
  <2>1. PICK left : F[r] = [kind |-> r.kind, call |-> r.call, from |-> r.from, to |-> r.to,
                            left |-> left]
    OBVIOUS
  <2> QED  BY <2>1
<1>2. \A m \in queue' \cup net' : \E r \in queue \cup net :
        r.kind = m.kind /\ r.call = m.call /\ r.from = m.from /\ r.to = m.to
  BY <1>1
<1>3. \A m : Routed(m) => Routed(m)'
  BY DEF Routed, OfferMoves
<1>4. RowInv'
  <2>1. ASSUME NEW r \in queue PROVE RowOK(F[r])'
    <3>1. PICK row : row = F[r]
      OBVIOUS
    <3>2. /\ row.kind = r.kind /\ row.call = r.call /\ row.from = r.from /\ row.to = r.to
          /\ row.left \in Nat \cup {None}
          /\ row = [kind |-> row.kind, call |-> row.call, from |-> row.from, to |-> row.to,
                    left |-> row.left]
      BY <1>1, <3>1
    <3>3. Routed(r)
      BY <1>i DEF RowInv, RowOK
    <3>4. Routed(row)
      BY <3>2, <3>3 DEF Routed
    <3>5. RowOK(row)'
      BY <1>3, <3>2, <3>4 DEF RowOK
    <3> QED  BY <3>1, <3>5
  <2> QED  BY <1>i, <1>3, <2>1 DEF RowInv
<1>5. OnePlace'
  <2>1. \A r \in queue : \A c, d : IsOffer(F[r], c, d) <=> IsOffer(r, c, d)
    BY <1>1 DEF IsOffer
  <2> QED  BY <1>i, <2>1, SMTT(30) DEF RefusalInv, OnePlace, IsOffer
<1> QED  BY <1>2, <1>4, <1>5, OnwardMoved

\* A row is handed to a carrier, or goes unsent.
LEMMA FlushMoves ==
  ASSUME IInv, NEW row \in queue, flush(row)
  PROVE  IInv'
<1>i. TypeInv /\ OfferInv /\ RowInv /\ RefusalInv
  BY DEF IInv
<1>1. PICK sent : sent = [kind |-> row.kind, call |-> row.call, from |-> row.from, to |-> row.to]
  OBVIOUS
<1>2. queue' = queue \ {row} /\ net' \subseteq net \cup {sent} /\ UNCHANGED <<calls, offer, stream>>
  BY <1>1 DEF flush
<1>3. StreamMoves /\ OfferMoves /\ OfferInv'
  BY <1>i, <1>2, StreamsRest DEF OfferMoves, OfferInv, Ids, TypeInv
<1>4. Onward
  BY <1>2, <1>3, CallsRest
<1>5. sent.kind = row.kind /\ sent.call = row.call /\ sent.from = row.from /\ sent.to = row.to
  BY <1>1
<1>6. RowInv'
  <2>1. \A m : Routed(m) => Routed(m)'
    BY <1>3 DEF Routed, OfferMoves
  <2>2. Routed(sent)
    BY <1>i, <1>5 DEF RowInv, RowOK, Routed
  <2> QED  BY <1>i, <1>1, <1>2, <1>5, <2>1, <2>2 DEF RowInv, RowOK
<1>7. OnePlace'
  <2>1. \A p \in queue' : \A c \in CallId, d \in Device : ~(IsOffer(p, c, d) /\ IsOffer(sent, c, d))
    BY <1>i, <1>2, <1>5 DEF RefusalInv, OnePlace, IsOffer
  <2> QED  BY <1>i, <1>2, <2>1 DEF RefusalInv, OnePlace, IsOffer
<1> QED  BY <1>2, <1>3, <1>4, <1>5, <1>6, <1>7, OnwardMoved

\* The sweep ends what has waited too long and forgets what is old.
LEMMA SweepMoves ==
  ASSUME IInv, NEW d \in Device, sweep_calls(d)
  PROVE  IInv'
<1>i. TypeInv /\ CallInv /\ StreamInv
  BY DEF IInv
<1>1. offer' = offer /\ net' = net /\ stream' = stream /\ queue' \subseteq queue
  BY DEF sweep_calls
<1>2. StreamMoves
  BY <1>i, <1>1, StreamsRest
<1>3. PICK K \in Trimmed(d) :
        calls' = [calls EXCEPT ![d] = trim_calls(d,
                    [c \in CallId |-> IF c \in Known(d) THEN Swept(@[c], c) ELSE None], K)]
  BY DEF sweep_calls
<1>4. K \subseteq Known(d)
  BY <1>3, Trims
<1>5. ASSUME NEW c \in Known(d)
      PROVE  /\ Evolves(d, c, calls[d][c], Swept(calls[d][c], c))
             /\ Swept(calls[d][c], c).negative \subseteq calls[d][c].negative
             /\ Swept(calls[d][c], c).reason \in {"declined", "busy"} =>
                  calls[d][c].reason \in {"declined", "busy"}
  <2>1. PICK rec : rec = calls[d][c]
    OBVIOUS
  <2>2. rec \in ActiveCall /\ Evolves(d, c, rec, rec)
    BY <1>i, <1>2, <2>1, Stays DEF Known, TypeInv
  <2>3. PICK new : new = Swept(rec, c)
    OBVIOUS
  <2>4. new = rec \/ \E why \in {"expired", "route"} : new = end_call(rec, why)
    BY <2>3 DEF Swept
  <2>5. CASE new = rec
    BY <2>1, <2>2, <2>3, <2>5
  <2>6. ASSUME NEW why \in {"expired", "route"}, new = end_call(rec, why)
        PROVE  /\ Evolves(d, c, rec, new) /\ new.negative \subseteq rec.negative
               /\ new.reason \in {"declined", "busy"} => rec.reason \in {"declined", "busy"}
    <3>1. /\ Evolves(d, c, rec, new) /\ new.negative \subseteq rec.negative
          /\ new.reason \in {rec.reason, None} \/ new.reason = why
      BY <2>2, <2>6, Ends DEF Reason
    <3> QED  BY <2>6, <3>1, NoneAssumption DEF Reason
  <2> QED  BY <2>1, <2>3, <2>4, <2>5, <2>6
<1>6. \A e \in Device, x \in CallId :
        calls'[e][x] = IF e = d THEN IF x \in K THEN Swept(calls[d][x], x) ELSE None
                       ELSE calls[e][x]
  BY <1>i, <1>3, <1>4 DEF TypeInv, trim_calls
<1>7. calls' \in [Device -> [CallId -> ActiveCall \cup {None}]]
  <2>1. \A x \in CallId : x \in K => Swept(calls[d][x], x) \in ActiveCall
    BY <1>4, <1>5 DEF Evolves
  <2>2. PICK table : table = trim_calls(d,
                       [c \in CallId |-> IF c \in Known(d) THEN Swept(calls[d][c], c) ELSE None], K)
    OBVIOUS
  <2>3. table \in [CallId -> ActiveCall \cup {None}]
    BY <1>4, <2>1, <2>2 DEF trim_calls
  <2>4. calls' = [calls EXCEPT ![d] = table]
    BY <1>3, <2>2
  <2> QED  BY <1>i, <2>3, <2>4 DEF TypeInv
<1>8. Onward
  <2> SUFFICES ASSUME NEW e \in Device, NEW x \in CallId, calls'[e][x] # None
               PROVE  /\ x \in Known(e) /\ Evolves(e, x, calls[e][x], calls'[e][x])
                      /\ calls'[e][x].negative \subseteq calls[e][x].negative
                      /\ calls'[e][x].reason \in {"declined", "busy"} =>
                           calls[e][x].reason \in {"declined", "busy"}
    BY <1>7 DEF Onward
  <2>1. CASE e = d
    BY <1>4, <1>5, <1>6, <2>1
  <2>2. CASE e # d
    <3>1. calls'[e][x] = calls[e][x] /\ x \in Known(e)
      BY <1>6, <2>2 DEF Known
    <3> QED  BY <1>i, <1>2, <3>1, Stays
  <2> QED  BY <2>1, <2>2
<1>9. PICK rows : rows = {}
  OBVIOUS
<1> QED  BY <1>1, <1>2, <1>8, <1>9, OnwardAndMail

\* Everything a device has in memory is gone.
LEMMA RestartMoves ==
  ASSUME IInv, NEW d \in Device, Restart(d)
  PROVE  IInv'
<1>i. TypeInv /\ OfferInv /\ CallInv /\ StreamInv /\ RowInv
  BY DEF IInv
<1>1. PICK gone : gone = Waiting(d)
  OBVIOUS
<1>2. \A s \in CallId : s \in gone => stream[s].stage # "none"
  BY <1>1 DEF Waiting
<1>3. StreamMoves
  BY <1>i, <1>1, <1>2, DropsMove DEF Restart
<1>4. OfferMoves /\ OfferInv' /\ net' = net
  BY <1>i DEF Restart, OfferMoves, OfferInv, Ids, TypeInv
<1>5. Onward
  <2>1. /\ calls' \in [Device -> [CallId -> ActiveCall \cup {None}]]
        /\ \A e \in Device, x \in CallId : calls'[e][x] = IF e = d THEN None ELSE calls[e][x]
    BY <1>i DEF Restart, TypeInv
  <2> SUFFICES ASSUME NEW e \in Device, NEW x \in CallId, calls[e][x] # None
               PROVE  x \in Known(e) /\ Evolves(e, x, calls[e][x], calls[e][x])
    BY <2>1 DEF Onward
  <2> QED  BY <1>i, <1>3, Stays DEF Known
<1>6. PICK F : F = [row \in queue |-> IF row.from = d THEN [row EXCEPT !.left = None] ELSE row]
  OBVIOUS
<1>7. queue' = {F[row] : row \in queue}
  BY <1>6 DEF Restart
<1>8. ASSUME NEW r \in queue
      PROVE  /\ F[r] = [kind |-> r.kind, call |-> r.call, from |-> r.from, to |-> r.to, left |-> F[r].left]
             /\ F[r].left \in Nat \cup {None}
  <2>1. /\ r = [kind |-> r.kind, call |-> r.call, from |-> r.from, to |-> r.to, left |-> r.left]
        /\ r.left \in Nat \cup {None}
    BY <1>i DEF RowInv, RowOK
  <2>2. [r EXCEPT !.left = None] = [kind |-> r.kind, call |-> r.call, from |-> r.from, to |-> r.to,
                                    left |-> None]
    BY <2>1
  <2> QED  BY <1>6, <2>1, <2>2
<1> QED  BY <1>3, <1>4, <1>5, <1>7, <1>8, Relabelled

\* A record grows older.
LEMMA Ages ==
  ASSUME NEW d \in Device, NEW c, NEW rec, rec \in ActiveCall, Evolves(d, c, rec, rec)
  PROVE  /\ Evolves(d, c, rec, Aged(rec))
         /\ Aged(rec).negative = rec.negative /\ Aged(rec).reason = rec.reason
<1>0. TERMINAL_CALL_RETENTION_SECS \in Nat /\ MEDIA_ROUTE_LOSS_GRACE_SECS \in Nat
  BY CallsAssumption
<1>1. PICK age : age = IF rec.phase = "ended" THEN Min({rec.age + 1, TERMINAL_CALL_RETENTION_SECS + 1})
                       ELSE rec.age
  OBVIOUS
<1>2. PICK lost : lost = IF rec.lost = None THEN rec.lost
                         ELSE Min({rec.lost + 1, MEDIA_ROUTE_LOSS_GRACE_SECS})
  OBVIOUS
<1>3. age \in 0..(TERMINAL_CALL_RETENTION_SECS + 1)
  <2>1. rec.age \in 0..(TERMINAL_CALL_RETENTION_SECS + 1)
    BY DEF ActiveCall
  <2>2. rec.age + 1 \in Nat /\ TERMINAL_CALL_RETENTION_SECS + 1 \in Nat
    BY <1>0, <2>1
  <2>3. Min({rec.age + 1, TERMINAL_CALL_RETENTION_SECS + 1}) \in 0..(TERMINAL_CALL_RETENTION_SECS + 1)
    BY <1>0, <2>2, MinOfTwo
  <2> QED  BY <1>1, <2>1, <2>3
<1>4. lost \in 0..MEDIA_ROUTE_LOSS_GRACE_SECS \cup {None}
  <2>1. CASE rec.lost = None
    BY <1>2, <2>1
  <2>2. CASE rec.lost # None
    <3>1. rec.lost \in 0..MEDIA_ROUTE_LOSS_GRACE_SECS
      BY <2>2 DEF ActiveCall
    <3>2. rec.lost + 1 \in Nat
      BY <1>0, <3>1
    <3>3. Min({rec.lost + 1, MEDIA_ROUTE_LOSS_GRACE_SECS}) \in 0..MEDIA_ROUTE_LOSS_GRACE_SECS
      BY <1>0, <3>2, MinOfTwo
    <3> QED  BY <1>2, <2>2, <3>3
  <2> QED  BY <2>1, <2>2
<1>5. PICK new : new = [rec EXCEPT !.age = age, !.lost = lost]
  OBVIOUS
<1>6. new = Aged(rec)
  BY <1>1, <1>2, <1>5 DEF Aged, ActiveCall
<1>7. /\ new \in ActiveCall /\ new.direction = rec.direction /\ new.phase = rec.phase
      /\ new.responder = rec.responder /\ new.reason = rec.reason
      /\ new.negative = rec.negative /\ new.media = rec.media
  BY <1>3, <1>4, <1>5 DEF ActiveCall
<1>8. Evolves(d, c, rec, new)
  BY <1>7 DEF Evolves, CallerMoves, CalledMoves
<1> QED  BY <1>6, <1>7, <1>8

\* Time passes.
LEMMA AdvanceMoves ==
  ASSUME IInv, Advance
  PROVE  IInv'
<1>i. TypeInv /\ OfferInv /\ CallInv /\ StreamInv /\ RowInv
  BY DEF IInv
<1>1. StreamMoves
  BY <1>i, StreamsRest DEF Advance
<1>2. ASSUME NEW c \in CallId, offer[c] # None
      PROVE  /\ offer'[c] \in Offer
             /\ offer'[c].by = offer[c].by /\ offer'[c].to = offer[c].to
  <2>1. offer[c] \in Offer
    BY <1>i, <1>2 DEF TypeInv
  <2>2. Less(offer[c].left) \in Nat
    BY <2>1 DEF Offer, Less
  <2>3. offer'[c] = [offer[c] EXCEPT !.left = Less(offer[c].left)]
    BY <1>2 DEF Advance
  <2> QED  BY <2>1, <2>2, <2>3 DEF Offer
<1>3. \A c \in CallId : offer[c] = None => offer'[c] = None
  BY DEF Advance
<1>4. offer' \in [CallId -> Offer \cup {None}]
  <2>1. \A c \in CallId : (IF offer[c] = None THEN None ELSE [offer[c] EXCEPT !.left = Less(@)])
                             \in Offer \cup {None}
    BY <1>2, <1>3 DEF Advance
  <2> QED  BY <2>1 DEF Advance
<1>5. Ids' = Ids
  BY <1>2, <1>3, NoneAssumption DEF Ids
<1>6. OfferMoves /\ OfferInv'
  BY <1>i, <1>2, <1>4, <1>5 DEF OfferMoves, OfferInv, Ids
<1>7. ASSUME NEW e \in Device, NEW x \in CallId, calls[e][x] # None
      PROVE  /\ Evolves(e, x, calls[e][x], Aged(calls[e][x])) /\ x \in Known(e)
             /\ Aged(calls[e][x]).negative = calls[e][x].negative
             /\ Aged(calls[e][x]).reason = calls[e][x].reason
  <2>1. PICK rec : rec = calls[e][x]
    OBVIOUS
  <2>2. rec \in ActiveCall /\ x \in Known(e)
    BY <1>i, <1>7, <2>1 DEF TypeInv, Known
  <2>3. Evolves(e, x, rec, rec)
    BY <1>i, <1>1, <2>1, <2>2, Stays
  <2> QED  BY <2>1, <2>2, <2>3, Ages
<1>8. \A e \in Device, x \in CallId :
        calls'[e][x] = IF calls[e][x] = None THEN None ELSE Aged(calls[e][x])
  BY DEF Advance
<1>9. calls' \in [Device -> [CallId -> ActiveCall \cup {None}]]
  <2>1. \A e \in Device, x \in CallId :
          (IF calls[e][x] = None THEN None ELSE Aged(calls[e][x])) \in ActiveCall \cup {None}
    BY <1>7 DEF Evolves
  <2> QED  BY <2>1 DEF Advance
<1>10. Onward
  <2> SUFFICES ASSUME NEW e \in Device, NEW x \in CallId, calls'[e][x] # None
               PROVE  /\ x \in Known(e) /\ Evolves(e, x, calls[e][x], calls'[e][x])
                      /\ calls'[e][x].negative \subseteq calls[e][x].negative
                      /\ calls'[e][x].reason \in {"declined", "busy"} =>
                           calls[e][x].reason \in {"declined", "busy"}
    BY <1>9 DEF Onward
  <2>1. calls[e][x] # None /\ calls'[e][x] = Aged(calls[e][x])
    BY <1>8
  <2> QED  BY <1>7, <2>1
<1>11. PICK F : F = [row \in queue |-> [row EXCEPT !.left = Less(row.left)]]
  OBVIOUS
<1>12. ASSUME NEW r \in queue
       PROVE  /\ F[r] = [kind |-> r.kind, call |-> r.call, from |-> r.from, to |-> r.to, left |-> F[r].left]
              /\ F[r].left \in Nat \cup {None} /\ F[r] = [r EXCEPT !.left = Less(@)]
  <2>1. /\ r = [kind |-> r.kind, call |-> r.call, from |-> r.from, to |-> r.to, left |-> r.left]
        /\ r.left \in Nat \cup {None}
    BY <1>i DEF RowInv, RowOK
  <2>2. [r EXCEPT !.left = Less(r.left)] = [kind |-> r.kind, call |-> r.call, from |-> r.from,
                                            to |-> r.to, left |-> Less(r.left)]
    BY <2>1
  <2>3. Less(r.left) \in Nat \cup {None}
    BY <2>1 DEF Less
  <2> QED  BY <1>11, <2>1, <2>2, <2>3
<1>13. queue' = {F[row] : row \in queue} /\ net' = net
  <2>1. queue' = {[row EXCEPT !.left = Less(@)] : row \in queue} /\ net' = net
    BY DEF Advance
  <2>2. \A row \in queue : F[row] = [row EXCEPT !.left = Less(@)]
    BY <1>12
  <2>3. {[row EXCEPT !.left = Less(@)] : row \in queue} = {F[row] : row \in queue}
    BY <2>2, Zenon
  <2> QED  BY <2>1, <2>3
<1> QED  BY <1>1, <1>6, <1>10, <1>12, <1>13, Relabelled

\* A device calls an account.
LEMMA StartMoves ==
  ASSUME IInv, NEW d \in Device, NEW account \in Account, start_call(d, account)
  PROVE  IInv'
<1>i. TypeInv /\ OfferInv /\ CallInv /\ StreamInv /\ RowInv /\ RefusalInv
  BY DEF IInv
<1>1. PICK n \in 0..MaxCalls : Ids = 1..n
  BY <1>i DEF OfferInv
<1>2. PICK c : c = Cardinality(Ids) + 1
  OBVIOUS
<1>3. PICK to : to = call_devices(account)
  OBVIOUS
<1>4. PICK left : left = CALL_OFFER_LIFETIME_SECS
  OBVIOUS
<1>5. /\ c <= MaxCalls /\ account # OwnerOf[d] /\ ~has_live_call(d)
      /\ offer' = [offer EXCEPT ![c] = [by |-> d, to |-> to, left |-> left]]
      /\ queue' = queue \cup {[kind |-> "offer", call |-> c, from |-> d, to |-> e, left |-> left] : e \in to}
      /\ net' = net /\ stream' = stream
  BY <1>2, <1>3, <1>4 DEF start_call, queue_call_control
<1>6. PICK K \in Trimmed(d) :
        calls' = [calls EXCEPT ![d] = [trim_calls(d, @, K) EXCEPT ![c] = NewCall("outgoing")]]
  BY <1>2 DEF start_call
<1>7. c = n + 1 /\ c \in CallId /\ c \notin Ids /\ MaxCalls \in Nat
  <2>1. MaxCalls \in Nat
    BY CallsAssumption
  <2>2. Cardinality(1..n) = n
    BY <2>1, FS_Interval
  <2> QED  BY <1>1, <1>2, <1>5, <2>1, <2>2 DEF CallId
<1>8. left \in Nat /\ to \subseteq Device /\ d \notin to
  BY <1>3, <1>4, <1>5, CallsAssumption DEF call_devices
<1>9. PICK it : it = [by |-> d, to |-> to, left |-> left]
  OBVIOUS
<1>10. it \in Offer /\ it # None /\ it.by = d /\ it.to = to
  <2>1. it \in Offer /\ it.by = d /\ it.to = to
    BY <1>8, <1>9 DEF Offer
  <2> QED  BY <2>1, NoneAssumption
<1>11. /\ offer' \in [CallId -> Offer \cup {None}] /\ offer'[c] = it
       /\ \A x \in CallId : x # c => offer'[x] = offer[x]
  BY <1>i, <1>5, <1>7, <1>9, <1>10 DEF TypeInv
<1>12. OfferMoves /\ c \in Ids' /\ Ids' = Ids \cup {c}
  BY <1>7, <1>10, <1>11 DEF OfferMoves, Ids
<1>13. OfferInv'
  <2>1. n + 1 \in 0..MaxCalls /\ Ids' = 1..(n + 1)
    BY <1>1, <1>5, <1>7, <1>12
  <2>2. \A x \in Ids' : offer'[x].by \notin offer'[x].to
    BY <1>i, <1>7, <1>8, <1>10, <1>11, <1>12 DEF OfferInv, Ids
  <2> QED  BY <2>1, <2>2 DEF OfferInv
<1>14. StreamMoves /\ stream[c].stage = "none"
  BY <1>i, <1>5, <1>7, StreamsRest DEF StreamInv, Opened
<1>15. PICK new : new = NewCall("outgoing")
  OBVIOUS
<1>16. /\ new \in ActiveCall /\ new # None /\ new.phase = "ringing" /\ new.negative = {}
       /\ new.reason = None
  <2>1. new \in ActiveCall
    BY <1>15, CallsAssumption DEF NewCall, ActiveCall, Phase
  <2> QED  BY <1>15, <2>1, NoneAssumption DEF NewCall
<1>17. /\ calls' \in [Device -> [CallId -> ActiveCall \cup {None}]]
       /\ \A e \in Device, x \in CallId :
            calls'[e][x] = IF e = d THEN IF x = c THEN new
                                         ELSE IF x \in K THEN calls[d][x] ELSE None
                           ELSE calls[e][x]
  <2>1. PICK row : row = [x \in CallId |-> IF x = c THEN new
                                           ELSE IF x \in K THEN calls[d][x] ELSE None]
    OBVIOUS
  <2>2. calls[d] \in [CallId -> ActiveCall \cup {None}]
    BY <1>i DEF TypeInv
  <2>3. row \in [CallId -> ActiveCall \cup {None}]
    <3>1. \A x \in CallId : row[x] \in ActiveCall \cup {None}
      BY <1>16, <2>1, <2>2
    <3> QED  BY <2>1, <3>1
  <2>4. calls' = [calls EXCEPT ![d] = row]
    <3>1. [trim_calls(d, calls[d], K) EXCEPT ![c] = new] = row
      BY <1>7, <2>1 DEF trim_calls
    <3>2. calls' = [calls EXCEPT ![d] = [trim_calls(d, calls[d], K) EXCEPT ![c] = new]]
      BY <1>6, <1>15
    <3> QED  BY <3>1, <3>2
  <2>5. calls \in [Device -> [CallId -> ActiveCall \cup {None}]]
    BY <1>i DEF TypeInv
  <2>6. calls' \in [Device -> [CallId -> ActiveCall \cup {None}]]
    BY <2>3, <2>4, <2>5
  <2>7. \A e \in Device : calls'[e] = IF e = d THEN row ELSE calls[e]
    BY <2>4, <2>5
  <2> QED  BY <2>1, <2>6, <2>7
<1>18. ASSUME NEW e \in Device, NEW x \in CallId, x \in Known(e)', ~(e = d /\ x = c)
       PROVE  calls'[e][x] = calls[e][x] /\ x \in Known(e) /\ x # c
  <2>1. calls'[e][x] = calls[e][x] /\ x \in Known(e)
    BY <1>17, <1>18, Trims DEF Known
  <2>2. x \in Ids
    BY <1>i, <2>1 DEF CallInv
  <2> QED  BY <1>7, <2>1, <2>2
<1>19. OneLive'
  <2>1. Live(d) = {}
    BY <1>5 DEF has_live_call
  <2>2. \A e \in Device, x \in CallId : x \in Live(e)' => (e = d /\ x = c) \/ x \in Live(e)
    BY <1>18 DEF Live
  <2>3. \A e \in Device : \A x \in Live(e)' : x \in CallId
    BY DEF Live, Known
  <2>4. \A x \in Live(d)' : x = c
    BY <2>1, <2>2, <2>3
  <2>5. \A e \in Device : e # d => Live(e)' \subseteq Live(e)
    BY <2>2, <2>3
  <2> QED  BY <1>i, <2>4, <2>5 DEF CallInv, OneLive
<1>20. CallsMove
  <2> SUFFICES ASSUME NEW e \in Device, NEW x \in CallId, calls'[e][x] # None
               PROVE  \/ x \in Ids' /\ Born(e, x)
                      \/ x \in Known(e) /\ Evolves(e, x, calls[e][x], calls'[e][x])
    BY <1>17 DEF CallsMove
  <2>1. CASE e = d /\ x = c
    BY <1>5, <1>10, <1>11, <1>12, <1>14, <1>15, <1>17, <2>1 DEF Born
  <2>2. CASE ~(e = d /\ x = c)
    <3>1. x \in Known(e)'
      BY DEF Known
    <3>2. calls'[e][x] = calls[e][x] /\ x \in Known(e)
      BY <1>18, <2>2, <3>1
    <3> QED  BY <1>i, <1>14, <3>2, Stays
  <2> QED  BY <2>1, <2>2
<1>21. TypeInv' /\ CallInv' /\ StreamInv'
  BY <1>i, <1>12, <1>13, <1>14, <1>19, <1>20, MoveStep
<1>22. ASSUME NEW row \in queue', row \notin queue
       PROVE  /\ row.to \in to /\ row.kind = "offer" /\ row.call = c /\ row.from = d
              /\ row = [kind |-> "offer", call |-> c, from |-> d, to |-> row.to, left |-> left]
  BY <1>5, <1>22
<1>23. RowInv'
  <2>1. \A m : Routed(m) => Routed(m)'
    BY <1>12 DEF Routed, OfferMoves
  <2>2. ASSUME NEW row \in queue', row \notin queue PROVE RowOK(row)'
    <3>1. /\ row.to \in to /\ row.kind = "offer" /\ row.call = c /\ row.from = d /\ row.left = left
          /\ row = [kind |-> row.kind, call |-> row.call, from |-> row.from, to |-> row.to, left |-> row.left]
      BY <1>22, <2>2
    <3>2. Routed(row)'
      BY <1>8, <1>10, <1>11, <1>12, <3>1 DEF Routed, Kind
    <3> QED  BY <1>8, <3>1, <3>2 DEF RowOK
  <2>3. \A row \in queue : RowOK(row)'
    BY <1>i, <2>1 DEF RowInv, RowOK
  <2> QED  BY <1>i, <1>5, <2>1, <2>2, <2>3 DEF RowInv
<1>24. \A m \in queue \cup net : m.call \in Ids /\ m.call # c
  BY <1>i, <1>7 DEF RowInv, RowOK, Routed
<1>25. OnePlace'
  <2>1. \A p \in queue', q \in queue' : \A x \in CallId, e \in Device :
          IsOffer(p, x, e) /\ IsOffer(q, x, e) => p = q
    <3> SUFFICES ASSUME NEW p \in queue', NEW q \in queue', NEW x \in CallId, NEW e \in Device,
                        IsOffer(p, x, e), IsOffer(q, x, e)
                 PROVE  p = q
      OBVIOUS
    <3>0. p.call = q.call /\ p.to = q.to
      BY DEF IsOffer
    <3>1. CASE p \in queue /\ q \in queue
      BY <1>i, <3>1 DEF RefusalInv, OnePlace
    <3>2. CASE p \notin queue /\ q \notin queue
      BY <1>22, <3>0, <3>2
    <3>3. CASE (p \in queue /\ q \notin queue) \/ (p \notin queue /\ q \in queue)
      BY <1>22, <1>24, <3>0, <3>3
    <3> QED  BY <3>1, <3>2, <3>3
  <2>2. \A p \in queue', m \in net : \A x \in CallId, e \in Device : ~(IsOffer(p, x, e) /\ IsOffer(m, x, e))
    <3> SUFFICES ASSUME NEW p \in queue', NEW m \in net, NEW x \in CallId, NEW e \in Device,
                        IsOffer(p, x, e), IsOffer(m, x, e)
                 PROVE  FALSE
      OBVIOUS
    <3>0. p.call = m.call
      BY DEF IsOffer
    <3>1. CASE p \in queue
      BY <1>i, <3>1 DEF RefusalInv, OnePlace
    <3>2. CASE p \notin queue
      BY <1>22, <1>24, <3>0, <3>2
    <3> QED  BY <3>1, <3>2
  <2> QED  BY <1>5, <2>1, <2>2 DEF OnePlace, IsOffer
<1>26. ASSUME NEW x \in CallId, NEW e \in Device, Pending(x, e)'
       PROVE  Pending(x, e) \/ (x = c /\ e # d)
  <2>1. PICK m \in queue' \cup net : IsOffer(m, x, e)
    BY <1>5, <1>26 DEF Pending, IsOffer
  <2>2. CASE m \in queue \cup net
    BY <2>1, <2>2 DEF Pending
  <2>3. CASE m \in queue' /\ m \notin queue
    BY <1>8, <1>22, <2>1, <2>3 DEF IsOffer
  <2> QED  BY <2>2, <2>3
<1>27. ASSUME NEW x \in CallId, NEW e \in Device, Refused(x, e)'
       PROVE  Refused(x, e) /\ x # c
  <2>1. CASE \E m \in queue' \cup net' : m.kind \in {"decline", "busy"} /\ m.call = x /\ m.from = e
    <3>1. PICK m \in queue' \cup net : m.kind \in {"decline", "busy"} /\ m.call = x /\ m.from = e
      BY <1>5, <2>1
    <3>2. m \in queue \cup net
      BY <1>22, <3>1
    <3> QED  BY <1>24, <3>1, <3>2 DEF Refused
  <2>2. CASE \E y \in Device : x \in Known(y)' /\ e \in calls'[y][x].negative
    <3>1. PICK y \in Device : x \in Known(y)' /\ e \in calls'[y][x].negative
      BY <2>2
    <3>2. ~(y = d /\ x = c)
      BY <1>16, <1>17, <3>1
    <3>3. calls'[y][x] = calls[y][x] /\ x \in Known(y) /\ x # c
      BY <1>18, <3>1, <3>2
    <3> QED  BY <3>1, <3>3 DEF Refused
  <2> QED  BY <1>27, <2>1, <2>2 DEF Refused
<1>28. ASSUME NEW x \in CallId, NEW e \in Device, x # c, Over(x, e) PROVE Over(x, e)'
  <2>1. ~Pending(x, e)'
    BY <1>26, <1>28 DEF Over
  <2>2. x \notin Live(e)'
    BY <1>18, <1>28 DEF Over, Live
  <2> QED  BY <2>1, <2>2 DEF Over
<1>29. RefusalInv'
  <2>1. ASSUME NEW x \in CallId, NEW e \in Device, Pending(x, e)', x \in Known(e)' PROVE FALSE
    <3>1. ~(e = d /\ x = c)
      BY <1>24, <1>26, <2>1 DEF Pending, IsOffer
    <3>2. x \in Known(e) /\ x # c
      BY <1>18, <2>1, <3>1
    <3>3. Pending(x, e)
      BY <1>26, <2>1, <3>2
    <3> QED  BY <1>i, <3>2, <3>3 DEF RefusalInv
  <2>2. ASSUME NEW x \in CallId, NEW e \in Device, Refused(x, e)' PROVE Over(x, e)'
    <3>1. Over(x, e) /\ x # c
      BY <1>i, <1>27, <2>2 DEF RefusalInv
    <3> QED  BY <1>28, <3>1
  <2>3. ASSUME NEW e \in Device, NEW x \in Known(e)', calls'[e][x].reason \in {"declined", "busy"},
               NEW y \in offer'[x].to
        PROVE  Over(x, y)'
    <3>1. x \in CallId
      BY <2>3 DEF Known
    <3>2. ~(e = d /\ x = c)
      BY <1>7, <1>16, <1>17, <2>3, NoneAssumption DEF Reason
    <3>3. calls'[e][x] = calls[e][x] /\ x \in Known(e) /\ x # c
      BY <1>18, <2>3, <3>1, <3>2
    <3>4. offer'[x] = offer[x] /\ x \in Ids
      BY <1>i, <1>11, <3>1, <3>3 DEF CallInv
    <3>5. Over(x, y) /\ y \in Device
      BY <1>i, <2>3, <3>3, <3>4 DEF RefusalInv, TypeInv, Ids, Offer
    <3> QED  BY <1>28, <3>1, <3>3, <3>5
  <2> QED  BY <1>25, <2>1, <2>2, <2>3 DEF RefusalInv
<1> QED  BY <1>13, <1>21, <1>23, <1>29 DEF IInv

-----------------------------------------------------------------------------
(* The theorems *)

\* Nobody knows of a call at the start.
LEMMA InitInv == Init => IInv
<1> SUFFICES ASSUME Init PROVE IInv
  OBVIOUS
<1>1. MaxCalls \in Nat
  BY CallsAssumption
<1>2. \A c \in CallId : /\ offer[c] = None /\ stream[c] = NoStream /\ stream[c].stage = "none"
                        /\ \A d \in Device : calls[d][c] = None
  BY DEF Init, NoStream
<1>3. TypeInv
  <2>1. NoStream \in Stream
    BY DEF NoStream, Stream
  <2> QED  BY <2>1 DEF Init, TypeInv
<1>4. Ids = {} /\ \A d \in Device : Known(d) = {} /\ Live(d) = {}
  BY <1>2 DEF Ids, Known, Live
<1>5. OfferInv
  <2>1. Ids = 1..0 /\ 0 \in 0..MaxCalls
    BY <1>1, <1>4
  <2> QED  BY <1>4, <2>1 DEF OfferInv
<1>6. queue = {} /\ net = {}
  BY DEF Init
<1>7. RowInv
  BY <1>6 DEF RowInv
<1>8. CallInv
  BY <1>4 DEF CallInv, OneLive
<1>9. StreamInv
  BY <1>2, <1>4 DEF StreamInv
<1>10. RefusalInv
  BY <1>4, <1>6 DEF RefusalInv, OnePlace, Pending, Refused, Over
<1> QED  BY <1>3, <1>5, <1>7, <1>8, <1>9, <1>10 DEF IInv

\* Every step keeps the invariant.
LEMMA NextInv == IInv /\ [Next]_vars => IInv'
<1> SUFFICES ASSUME IInv, [Next]_vars PROVE IInv'
  OBVIOUS
<1>1. CASE UNCHANGED vars
  BY <1>1 DEF vars, IInv, TypeInv, OfferInv, RowInv, RowOK, Routed, CallInv, OneLive, StreamInv,
              Opened, RefusalInv, OnePlace, Over, Pending, Refused, IsOffer, Ids, Known, Live
<1>2. ASSUME NEW d \in Device, User(d) PROVE IInv'
  BY <1>2, StartMoves, UserActs DEF User
<1>3. CASE (\E d \in Device : pump_call_media(d)) \/ (\E s \in CallId : BreakStream(s))
  BY <1>3, MediaMoves
<1>4. ASSUME NEW d \in Device, sweep_calls(d) \/ Restart(d) PROVE IInv'
  BY <1>4, SweepMoves, RestartMoves
<1>5. ASSUME NEW d \in Device, NEW m \in net, apply_call_control(d, m) PROVE IInv'
  BY <1>5, ControlApplies
<1>6. ASSUME NEW row \in queue, flush(row) PROVE IInv'
  BY <1>6, FlushMoves
<1>7. CASE Advance
  BY <1>7, AdvanceMoves
<1> QED  BY <1>1, <1>2, <1>3, <1>4, <1>5, <1>6, <1>7 DEF Next

LEMMA Invariance == Spec => []IInv
<1> QED  BY InitInv, NextInv, PTL DEF Spec

\* Types, at most one live call per device, and no talk on a stream that was
\* opened for another call: pump_call_media takes any stream unauthenticated,
\* and the first record tells.
THEOREM TypeCorrect == Spec => []TypeOK
<1> QED  BY Invariance, IInvImplies, PTL

\* Two ends that talk, talk to each other, however answers, hangups, restarts
\* and broken streams cross: pump_call_media brings an answering device into
\* the talk only on the stream that the caller opened to it.
THEOREM OneTalkerHolds == Spec => []OneTalker
<1> QED  BY Invariance, IInvImplies, PTL

\* A caller is told "declined" or "busy" by apply_call_control only when every
\* device it called has refused, and no offer to any of them is under way.
THEOREM HonestRefusalHolds == Spec => []HonestRefusal
<1> QED  BY Invariance, IInvImplies, PTL

=============================================================================
