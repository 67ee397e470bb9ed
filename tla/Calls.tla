-------------------------------- MODULE Calls --------------------------------
(***************************************************************************)
(* Call signalling between accounts with several devices (kult-node        *)
(* calls.rs).  All call state is in memory.  A control is a queued row     *)
(* with a deadline that is only remembered in memory, is handed to a       *)
(* carrier at most once, and may be lost or overtaken.  Media runs over    *)
(* one stream that the caller opens to the device whose answer it took;    *)
(* the other side takes any stream for the call it is connecting, and      *)
(* finds out by the first record whether it is the right one.              *)
(*                                                                         *)
(* Clocks agree.  Time is kept as what remains of a deadline or as the age *)
(* of an event.  Sessions, capabilities and the direct route that          *)
(* call_availability asks for are there; audio itself, keys and the        *)
(* codec are left out.                                                     *)
(***************************************************************************)
EXTENDS Integers, FiniteSets, FiniteSetsExt

CONSTANTS Account, Device, OwnerOf,      \* OwnerOf[d]: the account of device d
          MaxCalls,                      \* calls ever started
          CALL_OFFER_LIFETIME_SECS, HANGUP_LIFETIME_SECS,
          TERMINAL_CALL_RETENTION_SECS, MEDIA_ROUTE_LOSS_GRACE_SECS,
          MAX_TRANSIENT_CALLS, MAX_MEDIA_HANDSHAKE_FAILURES,
          MaxFaults,                     \* broken streams and restarts
          None

ASSUME CallsAssumption ==
  /\ IsFiniteSet(Device) /\ OwnerOf \in [Device -> Account]
  /\ MaxCalls \in Nat
  /\ {CALL_OFFER_LIFETIME_SECS, HANGUP_LIFETIME_SECS} \subseteq Nat \ {0}
  /\ {TERMINAL_CALL_RETENTION_SECS, MEDIA_ROUTE_LOSS_GRACE_SECS,
      MAX_MEDIA_HANDSHAKE_FAILURES, MaxFaults} \subseteq Nat
  /\ MAX_TRANSIENT_CALLS \in Nat /\ MAX_TRANSIENT_CALLS > 1

CallId == 1..MaxCalls

VARIABLES calls,        \* each device's ActiveCall records
          offer,        \* what each offer said: who calls, which devices, how long
          queue,        \* rows of call controls
          net,          \* controls handed to a carrier; one that is lost stays for good
          stream,       \* the media stream of each call
          faults

vars == <<calls, offer, queue, net, stream, faults>>

Phase  == {"ringing", "connecting", "active", "ended"}
Reason == {"declined", "cancelled", "hungup", "expired", "busy", "elsewhere", "route"}

ActiveCall ==
  [direction: {"outgoing", "incoming"}, phase: Phase, responder: Device \cup {None},
   reason: Reason \cup {None}, negative: SUBSET Device, declined: BOOLEAN,
   media: CallId \cup {None}, failures: 0..MAX_MEDIA_HANDSHAKE_FAILURES,
   lost: 0..MEDIA_ROUTE_LOSS_GRACE_SECS \cup {None},
   age: 0..(TERMINAL_CALL_RETENTION_SECS + 1)]

Offer == [by: Device, to: SUBSET Device, left: Nat]

ASSUME NoneAssumption == None \notin ActiveCall \cup Offer \cup Device \cup Nat \cup Reason

NewCall(direction) ==
  [direction |-> direction, phase |-> "ringing", responder |-> None, reason |-> None,
   negative |-> {}, declined |-> FALSE, media |-> None, failures |-> 0, lost |-> None,
   age |-> 0]

NoStream == [stage |-> "none", to |-> None, by |-> None, hello |-> {}]

Known(d) == {c \in CallId : calls[d][c] # None}
Live(d)  == {c \in Known(d) : calls[d][c].phase # "ended"}
Ids      == {c \in CallId : offer[c] # None}

has_live_call(d) == Live(d) # {}

call_devices(account) == {d \in Device : OwnerOf[d] = account}

-------------------------------------------------------------------------------
(* Shared steps *)

\* The media end goes with the call; a stream with a missing end is closed.
\* What nobody reads of an ended call any more is forgotten at once: only the
\* caller's record answers later controls and shows the user a reason.
end_call(rec, reason) ==
  IF rec.phase = "ended" THEN rec
  ELSE LET ended == [NewCall(rec.direction) EXCEPT !.phase = "ended"]
       IN IF rec.direction = "incoming" THEN ended
          ELSE [ended EXCEPT !.responder = rec.responder, !.reason = reason]

SetCall(d, c, rec) == calls' = [calls EXCEPT ![d][c] = rec]

\* A hangup has a lifetime of its own, every other control the offer's.
Row(kind, c, from, to) ==
  [kind |-> kind, call |-> c, from |-> from, to |-> to,
   left |-> IF kind \in {"hangup", "elsewhere"} THEN HANGUP_LIFETIME_SECS ELSE offer[c].left]

queue_call_control(rows) == queue' = queue \cup rows

\* trim_calls: old ended calls go, and the oldest of the others while there are
\* too many; any of several equally old ones.
Trimmed(d) ==
  LET kept == {c \in Known(d) : calls[d][c].phase = "ended"
                                  => calls[d][c].age <= TERMINAL_CALL_RETENTION_SECS}
      size == Min({Cardinality(kept), MAX_TRANSIENT_CALLS - 1})
  IN {K \in SUBSET kept :
        /\ Live(d) \subseteq K /\ Cardinality(K) = size
        /\ \A c \in K \ Live(d), e \in kept \ K : calls[d][c].age <= calls[d][e].age}

trim_calls(d, table, K) == [c \in CallId |-> IF c \in K THEN table[c] ELSE None]

-------------------------------------------------------------------------------
(* What the user does *)

\* Call ids are drawn in order.
start_call(d, account) ==
  LET c == Cardinality(Ids) + 1
      to == call_devices(account)
      left == CALL_OFFER_LIFETIME_SECS
  IN /\ c <= MaxCalls
     /\ account # OwnerOf[d] /\ to # {}
     /\ ~has_live_call(d)
     /\ offer' = [offer EXCEPT ![c] = [by |-> d, to |-> to, left |-> left]]
     /\ queue_call_control({[kind |-> "offer", call |-> c, from |-> d, to |-> e, left |-> left] :
                              e \in to})
     /\ \E K \in Trimmed(d) :
          calls' = [calls EXCEPT ![d] = [trim_calls(d, @, K) EXCEPT ![c] = NewCall("outgoing")]]
     /\ UNCHANGED <<net, stream, faults>>

RingingHere(d, c) ==
  /\ c \in Known(d)
  /\ calls[d][c].direction = "incoming" /\ calls[d][c].phase = "ringing"
  /\ offer[c].left > 0

answer_call(d, c) ==
  /\ RingingHere(d, c)
  /\ queue_call_control({Row("answer", c, d, offer[c].by)})
  /\ SetCall(d, c, [calls[d][c] EXCEPT !.phase = "connecting", !.responder = d])
  /\ UNCHANGED <<offer, net, stream, faults>>

decline_call(d, c) ==
  /\ RingingHere(d, c)
  /\ queue_call_control({Row("decline", c, d, offer[c].by)})
  /\ SetCall(d, c, end_call(calls[d][c], "declined"))
  /\ UNCHANGED <<offer, net, stream, faults>>

\* The cancel is refused with the offer's deadline behind it.
cancel_call(d, c) ==
  /\ c \in Known(d)
  /\ calls[d][c].direction = "outgoing" /\ calls[d][c].phase = "ringing"
  /\ offer[c].left > 0
  /\ queue_call_control({Row("cancel", c, d, e) : e \in offer[c].to})
  /\ SetCall(d, c, end_call(calls[d][c], "cancelled"))
  /\ UNCHANGED <<offer, net, stream, faults>>

hangup_call(d, c) ==
  /\ c \in Known(d)
  /\ calls[d][c].phase \in {"connecting", "active"}
  /\ LET target == IF calls[d][c].direction = "outgoing" THEN calls[d][c].responder
                   ELSE offer[c].by
     IN queue_call_control({Row("hangup", c, d, target)})
  /\ SetCall(d, c, end_call(calls[d][c], "hungup"))
  /\ UNCHANGED <<offer, net, stream, faults>>

-------------------------------------------------------------------------------
(* Media *)

Media(d, c) == IF calls[d][c] = None THEN None ELSE calls[d][c].media

Side(rec) == IF rec.direction = "outgoing" THEN "initiator" ELSE "responder"
Opposite(side) == IF side = "initiator" THEN "responder" ELSE "initiator"

\* Whether the other end of stream s, as left in str, is gone.
PeerClosed(rec, s, str) ==
  \/ str[s].stage = "gone"
  \/ IF rec.direction = "outgoing"
       THEN str[s].stage = "taken" /\ Media(str[s].to, str[s].by) # s
       ELSE Media(offer[s].by, s) # s

\* The hello opens only under the keys of the call, the two accounts and the
\* answering device: the stream must be the one opened for this very call.
Authentic(rec, c, s, str) ==
  /\ s = c
  /\ rec.direction = "outgoing" => str[s].by = c

\* CallMediaState::pump: "fail", "ready" once both hellos are through, or "wait".
pump(rec, c, str) ==
  LET s == rec.media
      received == Opposite(Side(rec)) \in str[s].hello
  IN CASE PeerClosed(rec, s, str)                          -> "fail"
       [] received /\ ~Authentic(rec, c, s, str)           -> "fail"
       [] received /\ Authentic(rec, c, s, str)            -> "ready"
       [] OTHER                                            -> "wait"

\* What the pump makes of the call.
Pumped(rec, c, str) ==
  CASE pump(rec, c, str) = "ready" /\ rec.phase = "connecting" ->
         [rec EXCEPT !.phase = "active"]
    [] pump(rec, c, str) = "fail" /\ rec.phase = "active" ->
         [rec EXCEPT !.media = None, !.lost = 0]
    [] pump(rec, c, str) = "fail" /\ rec.phase = "connecting" ->
         IF rec.direction = "incoming" /\ rec.failures < MAX_MEDIA_HANDSHAKE_FAILURES
           THEN [rec EXCEPT !.media = None, !.failures = @ + 1]
           ELSE end_call(rec, "route")
    [] OTHER -> rec

Waiting(d) == {s \in CallId : stream[s].stage = "waiting" /\ stream[s].to = d}

\* Streams nobody is connecting for are dropped unread.
Dropped(str, gone) ==
  [s \in CallId |-> IF s \in gone THEN [str[s] EXCEPT !.stage = "gone"] ELSE str[s]]

\* The end that takes a stream for call c says hello on it.
Taken(str, c) == [str EXCEPT !.stage = "taken", !.by = c, !.hello = @ \cup {"responder"}]

\* pump_call_media: take the waiting streams, open the one that is due, then
\* pump whatever the device's live call has.
AcceptStream(d, c, s) ==
  LET str == Dropped([stream EXCEPT ![s] = Taken(stream[s], c)], Waiting(d) \ {s})
  IN /\ calls[d][c].direction = "incoming" /\ calls[d][c].phase = "connecting"
     /\ calls[d][c].media = None
     /\ s \in Waiting(d)
     /\ SetCall(d, c, Pumped([calls[d][c] EXCEPT !.media = s], c, str))
     /\ stream' = str

OpenStream(d, c) ==
  LET to == calls[d][c].responder
  IN /\ calls[d][c].direction = "outgoing" /\ calls[d][c].phase = "connecting"
     /\ calls[d][c].media = None
     /\ \/ /\ SetCall(d, c, [calls[d][c] EXCEPT !.media = c])
           /\ stream' = Dropped([stream EXCEPT ![c] =
                [stage |-> "waiting", to |-> to, by |-> None, hello |-> {"initiator"}]],
                Waiting(d))
        \/ /\ SetCall(d, c, end_call(calls[d][c], "route"))
           /\ stream' = Dropped(stream, Waiting(d))

PumpStream(d, c) ==
  LET s == calls[d][c].media
      str == Dropped([stream EXCEPT ![s].hello = @ \cup {Side(calls[d][c])}], Waiting(d))
  IN /\ s # None
     /\ SetCall(d, c, Pumped(calls[d][c], c, str))
     /\ stream' = str

pump_call_media(d) ==
  /\ \/ \E c \in Live(d), s \in CallId : AcceptStream(d, c, s)
     \/ \E c \in Live(d) : OpenStream(d, c)
     \/ \E c \in Live(d) : PumpStream(d, c)
     \/ /\ \A c \in Live(d) : /\ calls[d][c].media = None
                              /\ calls[d][c].phase # "connecting"
        /\ stream' = Dropped(stream, Waiting(d))
        /\ UNCHANGED calls
  /\ <<calls, stream>>' # <<calls, stream>>
  /\ UNCHANGED <<offer, queue, net, faults>>

-------------------------------------------------------------------------------
(* Controls *)

\* Mutant: a device that is in a call rings for another.
OfferAnyway(d, m) ==
  /\ m.kind = "offer" /\ offer[m.call].left > 0
  /\ \E K \in Trimmed(d) :
       calls' = [calls EXCEPT ![d] =
                   [trim_calls(d, @, K) EXCEPT ![m.call] = NewCall("incoming")]]
  /\ UNCHANGED queue

\* An expired offer is refused; a device in a call says that it is busy.
ApplyOffer(d, m) ==
  LET c == m.call
  IN /\ m.kind = "offer" /\ offer[c].left > 0
     /\ \/ /\ has_live_call(d)
           /\ queue_call_control({Row("busy", c, d, m.from)})
           /\ UNCHANGED calls
        \/ /\ ~has_live_call(d)
           /\ \E K \in Trimmed(d) :
                calls' = [calls EXCEPT ![d] =
                            [trim_calls(d, @, K) EXCEPT ![c] = NewCall("incoming")]]
           /\ UNCHANGED queue

\* Mutant: the latest answer wins.
AnswerReplaces(d, m) ==
  LET c == m.call
  IN /\ m.kind = "answer" /\ c \in Live(d)
     /\ SetCall(d, c, [calls[d][c] EXCEPT !.phase = "connecting", !.responder = m.from])
     /\ queue_call_control({Row("elsewhere", c, d, e) : e \in offer[c].to \ {m.from}})

\* The first answer in time wins and the other devices are told; a later one is
\* told the same.
ApplyAnswer(d, m) ==
  LET c == m.call
      rec == calls[d][c]
  IN /\ m.kind = "answer" /\ c \in Known(d)
     /\ \/ /\ rec.phase = "ringing" /\ offer[c].left > 0
           /\ SetCall(d, c, [rec EXCEPT !.phase = "connecting", !.responder = m.from])
           /\ queue_call_control({Row("elsewhere", c, d, e) : e \in offer[c].to \ {m.from}})
        \/ /\ ~(rec.phase = "ringing" /\ offer[c].left > 0)
           /\ queue_call_control(IF rec.responder = m.from THEN {}
                                 ELSE {Row("elsewhere", c, d, m.from)})
           /\ UNCHANGED calls

\* Mutant: the first refusal ends the call.
AnyRefuses(rec, c) == TRUE

AllRefused(rec, c) == Cardinality(rec.negative) >= Cardinality(offer[c].to)

ApplyRefusal(d, m) ==
  LET c == m.call
      rec == [calls[d][c] EXCEPT !.negative = @ \cup {m.from},
                                 !.declined = @ \/ m.kind = "decline"]
  IN /\ m.kind \in {"decline", "busy"}
     /\ c \in Known(d) /\ calls[d][c].phase = "ringing"
     /\ SetCall(d, c, IF AllRefused(rec, c)
                        THEN end_call(rec, IF rec.declined THEN "declined" ELSE "busy")
                        ELSE rec)
     /\ UNCHANGED queue

ApplyCancel(d, m) ==
  /\ m.kind = "cancel" /\ m.call \in Known(d)
  /\ SetCall(d, m.call, end_call(calls[d][m.call], "cancelled"))
  /\ UNCHANGED queue

\* The caller takes a hangup from the device it is connected to only.
ApplyHangup(d, m) ==
  LET rec == calls[d][m.call]
  IN /\ m.kind \in {"hangup", "elsewhere"} /\ m.call \in Known(d)
     /\ rec.direction = "outgoing" => rec.responder = m.from
     /\ SetCall(d, m.call, end_call(rec, IF m.kind = "hangup" THEN "hungup" ELSE "elsewhere"))
     /\ UNCHANGED queue

Applies(d, m) ==
  \/ ApplyOffer(d, m)
  \/ ApplyAnswer(d, m)
  \/ ApplyRefusal(d, m)
  \/ ApplyCancel(d, m)
  \/ ApplyHangup(d, m)

\* The control is consumed with its session commit whether it is of use or not.
Usable(d, m) ==
  /\ m.kind = "offer" => offer[m.call].left > 0
  /\ m.kind # "offer" => m.call \in Known(d)
  /\ m.kind \in {"decline", "busy"} => calls[d][m.call].phase = "ringing"
  /\ m.kind \in {"hangup", "elsewhere"} /\ calls[d][m.call].direction = "outgoing"
       => calls[d][m.call].responder = m.from

apply_call_control(d, m) ==
  /\ m \in net /\ m.to = d
  /\ net' = net \ {m}
  /\ \/ Applies(d, m)
     \/ ~Usable(d, m) /\ UNCHANGED <<calls, queue>>
  /\ UNCHANGED <<offer, stream, faults>>

-------------------------------------------------------------------------------
(* The heartbeat *)

\* flush: a row past its deadline, or of an earlier life of the process, goes
\* unsent; another is handed off and gone, or waits for a route.
flush(row) ==
  /\ row \in queue
  /\ queue' = queue \ {row}
  /\ net' = IF row.left # None /\ row.left > 0
              THEN net \cup {[kind |-> row.kind, call |-> row.call, from |-> row.from,
                              to |-> row.to]}
              ELSE net
  /\ UNCHANGED <<calls, offer, stream, faults>>

\* Mutant: only ringing calls are looked at.
SweptRingingOnly(rec, c) ==
  IF rec.phase = "ringing" /\ offer[c].left = 0 THEN end_call(rec, "expired") ELSE rec

Swept(rec, c) ==
  CASE rec.phase = "ringing" /\ offer[c].left = 0 -> end_call(rec, "expired")
    [] rec.phase = "active" /\ rec.lost = MEDIA_ROUTE_LOSS_GRACE_SECS -> end_call(rec, "route")
    [] OTHER -> rec

sweep_calls(d) ==
  /\ \E K \in Trimmed(d) :
       calls' = [calls EXCEPT ![d] = trim_calls(d,
                   [c \in CallId |-> IF c \in Known(d) THEN Swept(@[c], c) ELSE None], K)]
  /\ queue' = {row \in queue : row.from = d => row.left # 0}
  /\ <<calls, queue>>' # <<calls, queue>>
  /\ UNCHANGED <<offer, net, stream, faults>>

\* Everything in memory is gone: the calls, their streams and the deadlines.
Restart(d) ==
  /\ faults < MaxFaults /\ faults' = faults + 1
  /\ Known(d) # {}
  /\ calls' = [calls EXCEPT ![d] = [c \in CallId |-> None]]
  /\ queue' = {IF row.from = d THEN [row EXCEPT !.left = None] ELSE row : row \in queue}
  /\ stream' = Dropped(stream, Waiting(d))
  /\ UNCHANGED <<offer, net>>

BreakStream(s) ==
  /\ faults < MaxFaults /\ faults' = faults + 1
  /\ stream[s].stage \in {"waiting", "taken"}
  /\ stream' = Dropped(stream, {s})
  /\ UNCHANGED <<calls, offer, queue, net>>

\* Deadlines come nearer, ages grow; both stop where nothing depends on more.
Less(left) == IF left \in Nat /\ left > 0 THEN left - 1 ELSE left
Aged(rec) ==
  [rec EXCEPT
     !.age = IF rec.phase = "ended" THEN Min({@ + 1, TERMINAL_CALL_RETENTION_SECS + 1}) ELSE @,
     !.lost = IF @ = None THEN @ ELSE Min({@ + 1, MEDIA_ROUTE_LOSS_GRACE_SECS})]

Advance ==
  /\ calls' = [d \in Device |-> [c \in CallId |->
                IF calls[d][c] = None THEN None ELSE Aged(calls[d][c])]]
  /\ offer' = [c \in CallId |-> IF offer[c] = None THEN None
                                ELSE [offer[c] EXCEPT !.left = Less(@)]]
  /\ queue' = {[row EXCEPT !.left = Less(@)] : row \in queue}
  /\ UNCHANGED <<net, stream, faults>>

-------------------------------------------------------------------------------
(* The specification *)

Init ==
  /\ calls = [d \in Device |-> [c \in CallId |-> None]]
  /\ offer = [c \in CallId |-> None]
  /\ queue = {} /\ net = {} /\ faults = 0
  /\ stream = [c \in CallId |-> NoStream]

User(d) ==
  \/ \E account \in Account : start_call(d, account)
  \/ \E c \in CallId : answer_call(d, c)
  \/ \E c \in CallId : decline_call(d, c)
  \/ \E c \in CallId : cancel_call(d, c)
  \/ \E c \in CallId : hangup_call(d, c)

Next ==
  \/ \E d \in Device : User(d)
  \/ \E d \in Device : pump_call_media(d)
  \/ \E d \in Device : sweep_calls(d)
  \/ \E d \in Device : Restart(d)
  \/ \E d \in Device, m \in net : apply_call_control(d, m)
  \/ \E row \in queue : flush(row)
  \/ \E s \in CallId : BreakStream(s)
  \/ Advance

Spec == Init /\ [][Next]_vars

\* Time passes, and every device goes on with one of its tick and its media
\* cadence while either has something to do.  Nothing is assumed of users, and
\* nothing of carriers: a control may never be handed off.
Fairness ==
  /\ WF_vars(Advance)
  /\ \A d \in Device : WF_vars(pump_call_media(d) \/ sweep_calls(d))

LiveSpec == Spec /\ Fairness

-------------------------------------------------------------------------------
(* Properties *)

\* Types, at most one live call per device, and no talk on a stream that was
\* opened for another call, though any stream is taken unauthenticated.
TypeOK ==
  /\ calls \in [Device -> [CallId -> ActiveCall \cup {None}]]
  /\ \A d \in Device : Cardinality(Live(d)) <= 1
  /\ \A d \in Device : \A c \in Live(d) :
       calls[d][c].phase = "active" => calls[d][c].media \in {c, None}
  /\ \A m \in net : m.call \in Ids /\ {m.from, m.to} \subseteq Device
  /\ \A row \in queue : row.left \in Nat \cup {None}

\* Two ends that talk, talk to each other: an answering device is active only
\* on the stream that the caller opened to it, and the caller, while it knows
\* the call, has taken this device's answer and no other's.
OneTalker ==
  \A d \in Device : \A c \in Live(d) :
    calls[d][c].direction = "incoming" /\ calls[d][c].phase = "active" =>
      /\ stream[c].to = d
      /\ LET by == offer[c].by
         IN c \in Known(by) => calls[by][c].responder = d

\* A caller is told "declined" or "busy" only when every device it called has
\* refused: none is ringing or answering, and none can still be offered the call.
HonestRefusal ==
  \A d \in Device : \A c \in Known(d) :
    calls[d][c].reason \in {"declined", "busy"} =>
      /\ \A e \in offer[c].to : c \notin Live(e)
      /\ \A m \in queue \cup net : ~(m.kind = "offer" /\ m.call = c)

\* The devices on the other side of a call, as far as this device knows them.
Counterparts(d, c) ==
  IF calls[d][c].direction = "incoming" THEN {offer[c].by}
  ELSE IF calls[d][c].responder = None THEN offer[c].to ELSE {calls[d][c].responder}

\* In a call whose other side has gone.
LeftAlone(d, c) == c \in Live(d) /\ \A e \in Counterparts(d, c) : c \notin Live(e)

AnsweredInVain(d, c) ==
  LeftAlone(d, c) /\ calls[d][c].direction = "incoming" /\ calls[d][c].phase = "connecting"

\* No device keeps ringing or talking into a call that the other side has
\* ended, lost or never had, whatever became of the controls: again and again
\* there is a moment with no such device.  (A device that has answered is
\* another matter: see AnswererEnds.)
NobodyLeftTalking ==
  []<>(\A d \in Device, c \in CallId : LeftAlone(d, c) => AnsweredInVain(d, c))

\* A device whose answer came to nothing ends as well.
AnswererEnds == []<>(\A d \in Device, c \in CallId : ~AnsweredInVain(d, c))

===============================================================================
