--------------------------- MODULE InboundCustody ---------------------------
(***************************************************************************)
(* The receive half of Node::tick (crates/kult-node/src/lib.rs): pending   *)
(* rows and fresh carrier arrivals are gathered, every complete arrival is *)
(* staged durably before its next hop is answered, expired work is         *)
(* retired, and the rest is consumed until no pass unlocks more.           *)
(*                                                                         *)
(* Envelopes are their content ids; Kind, Peer, Deadline and Parts say     *)
(* what an envelope would turn out to be.  Each step ends at a store       *)
(* commit or at an answer to the next hop, so that Crash and TickError can *)
(* fall between any two of them.  pending, seen, receipt_replay, sessions, *)
(* chains, controls and receipts are tables of the store; the rest is      *)
(* memory of the running tick.                                             *)
(***************************************************************************)
EXTENDS Integers, Sequences, FiniteSets

CONSTANTS
  Envelopes,
  Kind,        \* [Envelopes -> Kinds]
  Peer,        \* [Envelopes -> the session an envelope's token belongs to]
  Deadline,    \* [Envelopes -> retention_until]
  Parts,       \* [Envelopes -> the fragments it may arrive in instead]
  Entrusted,   \* envelopes whose next hop keeps them until we accept
  Offers,      \* sets of envelopes that may be under way together
  MAX_PENDING_ENVELOPES, MAX_PENDING_WORK_PER_TICK,
  MAX_WAKE_PENDING_WORK_PER_TICK, PENDING_TTL_SECS, DELIVERY_EXPIRY_SECS,
  MaxTime,     \* bound on the clock
  Faults       \* bound on crashes, failed ticks and damaged rows

Kinds == {"message", "undecryptable", "call", "handshake", "badHandshake",
          "introduction", "control", "group", "fragment"}

ASSUME InboundConstants ==
  /\ Kind \in [Envelopes -> Kinds]
  /\ Deadline \in [Envelopes -> Nat]
  /\ Parts \in [Envelopes -> SUBSET Envelopes]
  /\ Entrusted \subseteq Envelopes /\ Offers \subseteq SUBSET Envelopes
  /\ MAX_PENDING_ENVELOPES \in Nat /\ MAX_PENDING_WORK_PER_TICK \in Nat
  /\ MAX_WAKE_PENDING_WORK_PER_TICK \in Nat
  /\ PENDING_TTL_SECS \in Nat /\ DELIVERY_EXPIRY_SECS \in Nat
  /\ MaxTime \in Nat /\ Faults \in Nat

VARIABLES
  pending,         \* rows [id, first_seen], in the order of their row ids
  seen, receipt_replay,    \* content ids; rows [id, at]
  sessions, chains, controls, receipts,
  applied,         \* how often each envelope took effect
  held,            \* entrusted envelopes the next hop still keeps
  damaged,         \* content ids of pending rows that no longer decode
  phase, wake,     \* where the tick stands; whether it is a wake collection
  work, stash,     \* [id, durable, first_seen]
  gathered, durable_gathered, established,
  reply,           \* answers owed to a next hop: {} or {[id, accepted]}
  partials,        \* fragments the reassembler holds
  now, faults,
  offered          \* the envelopes that are under way in this behaviour

store == <<pending, seen, receipt_replay, sessions, chains, controls, receipts, applied>>
tick  == <<phase, wake, work, stash, gathered, durable_gathered, established, reply>>
vars  == <<store, tick, held, damaged, partials, now, faults, offered>>

----------------------------------------------------------------------------
(* The pending table.                                                      *)

PendingIds == {pending[i].id : i \in DOMAIN pending}

\* The positions of the first `limit` rows, and these rows as work.
FirstRows(limit) == {i \in DOMAIN pending : i <= limit}

Page(limit) ==
  [i \in FirstRows(limit) |->
     [id |-> pending[i].id, durable |-> TRUE, first_seen |-> pending[i].first_seen]]

\* The entries of s at the positions in K, in their order.
Nth(K, i) == CHOOSE k \in K : Cardinality({j \in K : j <= k}) = i
AtPositions(s, K) == [i \in 1..Cardinality(K) |-> s[Nth(K, i)]]

\* Deleting rows by content id, which is unique.
Without(ids) == AtPositions(pending, {i \in DOMAIN pending : pending[i].id \notin ids})

\* Mutant: the quota admits one row too many.
PendingQuotaOffByOne(id) ==
  id \notin PendingIds /\ Len(pending) > MAX_PENDING_ENVELOPES

\* Staging is idempotent by content id and refuses at the quota.
PendingQuota(id) ==
  id \notin PendingIds /\ Len(pending) >= MAX_PENDING_ENVELOPES

Appended(id) == Append(pending, [id |-> id, first_seen |-> now])

Staged(id) == IF id \in PendingIds THEN pending ELSE Appended(id)

WorkLimit == IF wake THEN MAX_WAKE_PENDING_WORK_PER_TICK ELSE MAX_PENDING_WORK_PER_TICK

Entry(id, durable) == [id |-> id, durable |-> durable, first_seen |-> now]

----------------------------------------------------------------------------
(* Consuming one envelope.                                                 *)

\* The duplicate check at the head of consume().
OutcomeIfSeen(id) ==
  IF (\E r \in receipt_replay : r.id = id) /\ Peer[id] \in sessions
  THEN {"replayReceipt"} ELSE {"drop"}

\* consume_group_message: the sender chain may not have arrived yet.
OutcomeOfGroupMessage(id) == IF Peer[id] \in chains THEN {"apply"} ELSE {"later"}

\* consume_ratchet, for one that is addressed to a session we have.
OutcomeInSession(id) ==
  CASE Kind[id] = "message"       -> {"apply"}
    [] Kind[id] = "undecryptable" -> {"reject"}
    [] Kind[id] = "control"       -> {"defer"}
    [] Kind[id] = "call"          -> IF wake THEN {"later"} ELSE {"ring"}
    [] Kind[id] = "group"         -> OutcomeOfGroupMessage(id)

\* consume_handshake, of a flight with a first message in it.  A prior session
\* may win over the inbound one, or have more queued rows than one commit may
\* delete.  An introduction may find the budget of the tick spent, and has none
\* in a wake.
OutcomeOfHandshake(id) ==
  CASE Kind[id] = "badHandshake" -> {"reject"}
    [] Kind[id] = "handshake"    -> IF Peer[id] \in sessions
                                    THEN {"establish", "keepPrior", "later"} ELSE {"establish"}
    [] Kind[id] = "introduction" -> IF wake THEN {"later"}
                                    ELSE {"later", "reject", "request"}

Outcomes(id) ==
  IF id \in seen THEN OutcomeIfSeen(id)
  ELSE IF Kind[id] = "fragment" THEN {"reject"}   \* fragments never nest
  ELSE IF Kind[id] \in {"handshake", "badHandshake", "introduction"} THEN OutcomeOfHandshake(id)
  ELSE IF Peer[id] \in sessions THEN OutcomeInSession(id) ELSE {"later"}

\* Mutant: whatever ends an envelope is answered with a receipt.
AcknowledgedWhenDropped == {"apply", "establish", "keepPrior", "replayReceipt", "drop", "reject"}

Acknowledged == {"apply", "establish", "keepPrior", "replayReceipt"}
Effective    == {"apply", "establish", "keepPrior", "defer", "ring", "request"}

\* Mutant: an envelope that has to wait is recorded as seen.
SeenAfterLater(id, durable, r) == seen \cup {id}

\* Mutant: only work that came from a pending row is recorded as seen.
SeenAfterDurable(id, durable, r) ==
  IF durable /\ r # "later" THEN seen \cup {id} ELSE seen

\* Mutant: the row goes although the envelope has to wait.
PendingAfterAlways(id, durable, r) == IF durable THEN Without({id}) ELSE pending

\* The store commit that goes with an outcome also deletes the pending row the
\* envelope came from, when it came from one.
SeenAfter(id, durable, r) ==
  IF r = "later" \/ (r = "drop" /\ ~durable) THEN seen ELSE seen \cup {id}
PendingAfter(id, durable, r) ==
  IF r = "later" \/ ~durable THEN pending ELSE Without({id})

Commit(id, durable, r) ==
  /\ seen' = SeenAfter(id, durable, r)
  /\ receipt_replay' = IF r \in Acknowledged
                       THEN {x \in receipt_replay : x.id # id} \cup {[id |-> id, at |-> now]}
                       ELSE receipt_replay
  /\ receipts' = IF r \in Acknowledged THEN receipts \cup {id} ELSE receipts
  /\ applied' = IF r \in Effective THEN [applied EXCEPT ![id] = @ + 1] ELSE applied
  /\ sessions' = IF r = "establish" THEN sessions \cup {Peer[id]} ELSE sessions
  /\ controls' = IF r = "defer" THEN controls \cup {id} ELSE controls
  /\ established' = (established \/ r = "establish")
  /\ UNCHANGED chains

\* apply_deferred_controls
ApplyControls == /\ chains' = chains \cup {Peer[c] : c \in controls}
                 /\ controls' = {}

----------------------------------------------------------------------------
Init ==
  /\ pending = <<>> /\ seen = {} /\ receipt_replay = {}
  /\ sessions = {} /\ chains = {} /\ controls = {} /\ receipts = {}
  /\ applied = [e \in Envelopes |-> 0]
  /\ offered \in Offers
  /\ held = Entrusted \cap offered /\ damaged = {}
  /\ phase = "idle" /\ wake = FALSE /\ work = <<>> /\ stash = <<>>
  /\ gathered = {} /\ durable_gathered = {} /\ established = FALSE /\ reply = {}
  /\ partials = {} /\ now = 0 /\ faults = 0

IdleTick ==
  /\ phase' = "idle" /\ wake' = FALSE /\ work' = <<>> /\ stash' = <<>>
  /\ gathered' = {} /\ durable_gathered' = {} /\ established' = FALSE /\ reply' = {}

\* Receipts whose sender has stopped retrying; the hourly sweep forgets a few of
\* them at a time.
ExpiredReplay == {r \in receipt_replay : r.at + DELIVERY_EXPIRY_SECS <= now}

\* Every pending row is decoded before the page is cut, so one row that does
\* not decode fails the tick.
BeginTick(w) ==
  /\ phase = "idle" /\ damaged = {}
  /\ phase' = "gather" /\ wake' = w
  /\ LET limit == IF w THEN MAX_WAKE_PENDING_WORK_PER_TICK ELSE MAX_PENDING_WORK_PER_TICK
     IN  /\ work' = Page(limit)
         /\ gathered' = {pending[i].id : i \in FirstRows(limit)}
         /\ durable_gathered' = {pending[i].id : i \in FirstRows(limit)}
  /\ \/ w /\ UNCHANGED <<receipt_replay, chains, controls>>
     \/ /\ ~w /\ ApplyControls
        /\ \E gone \in SUBSET ExpiredReplay : receipt_replay' = receipt_replay \ gone
  /\ UNCHANGED <<pending, seen, sessions, receipts, applied, stash, established, reply,
                 held, damaged, partials, now, faults, offered>>

\* Mutant: the next hop is told "accepted" before anything was decided.
AnswerAccepts(id, custody, accepted) ==
  reply' = IF custody THEN {[id |-> id, accepted |-> TRUE]} ELSE {}

\* The next hop is owed an answer only when it offered custody.
Answer(id, custody, accepted) ==
  reply' = IF custody THEN {[id |-> id, accepted |-> accepted]} ELSE {}

Receiving(id, custody) ==
  /\ phase = "gather" /\ reply = {}
  /\ custody => id \in held

\* A second copy in the same tick.
ArriveAgain(id, custody, direct) ==
  /\ Receiving(id, custody) /\ id \in gathered
  /\ LET refused == direct /\ Kind[id] = "introduction"
     IN  Answer(id, custody, ~refused /\ (id \in durable_gathered \/ id \in seen))
  /\ UNCHANGED <<store, phase, wake, work, stash, gathered, durable_gathered, established,
                 held, damaged, partials, now, faults, offered>>

FreshFragments == Cardinality({i \in DOMAIN work : Kind[work[i].id] = "fragment"})

\* A fragment is never staged: it is refused to its next hop and worked from memory.
ArriveFragment(id, custody) ==
  /\ Receiving(id, custody) /\ id \notin gathered /\ Kind[id] = "fragment"
  /\ gathered' = gathered \cup {id}
  /\ Answer(id, custody, FALSE)
  /\ work' = IF FreshFragments < WorkLimit THEN Append(work, Entry(id, FALSE)) ELSE work
  /\ UNCHANGED <<store, phase, wake, stash, durable_gathered, established,
                 held, damaged, partials, now, faults, offered>>

DirectIntroduction(id, custody, direct) ==
  custody /\ direct /\ Kind[id] = "introduction"

\* An introduction on a direct stream is consumed before it is answered, and
\* refused without touching the store when it is a duplicate or the tick a wake.
ArriveIntroduction(id) ==
  /\ Receiving(id, TRUE) /\ id \notin gathered /\ Kind[id] = "introduction"
  /\ gathered' = gathered \cup {id}
  /\ \/ /\ wake \/ id \in seen
        /\ Answer(id, TRUE, FALSE)
        /\ UNCHANGED <<store, established, durable_gathered>>
     \/ /\ ~wake /\ id \notin seen
        /\ \E r \in Outcomes(id) :
             /\ Commit(id, FALSE, r) /\ UNCHANGED pending
             /\ Answer(id, TRUE, r = "request")
             /\ durable_gathered' = IF id \in seen' THEN durable_gathered \cup {id}
                                    ELSE durable_gathered
  /\ UNCHANGED <<phase, wake, work, stash, held, damaged, partials, now, faults, offered>>

\* Anything else is staged, then accepted; it joins this tick's work only
\* while there is room.  A wake collection refuses what its byte budget
\* cannot take.
ArriveComplete(id, custody, direct) ==
  /\ Receiving(id, custody) /\ id \notin gathered /\ Kind[id] # "fragment"
  /\ ~DirectIntroduction(id, custody, direct)
  /\ gathered' = gathered \cup {id}
  /\ \/ /\ PendingQuota(id) \/ wake
        /\ Answer(id, custody, FALSE)
        /\ UNCHANGED <<pending, work, durable_gathered>>
     \/ /\ ~PendingQuota(id)
        /\ pending' = Staged(id)
        /\ durable_gathered' = durable_gathered \cup {id}
        /\ Answer(id, custody, TRUE)
        /\ work' = IF Len(work) < WorkLimit THEN Append(work, Entry(id, TRUE)) ELSE work
  /\ UNCHANGED <<seen, receipt_replay, sessions, chains, controls, receipts, applied,
                 phase, wake, stash, established, held, damaged, partials, now, faults, offered>>

\* Bridged transit is staged too, but not noted in durable_gathered: a copy that
\* comes with custody later in the tick is refused.
ArriveTransit(id) ==
  /\ Receiving(id, FALSE) /\ ~wake /\ id \notin gathered /\ Kind[id] # "fragment"
  /\ gathered' = gathered \cup {id}
  /\ \/ PendingQuota(id) /\ UNCHANGED <<pending, work>>
     \/ /\ ~PendingQuota(id)
        /\ pending' = Staged(id)
        /\ work' = IF Len(work) < WorkLimit THEN Append(work, Entry(id, TRUE)) ELSE work
  /\ UNCHANGED <<seen, receipt_replay, sessions, chains, controls, receipts, applied,
                 phase, wake, stash, durable_gathered, established, reply,
                 held, damaged, partials, now, faults, offered>>

\* settle_recv: the answer reaches the next hop, or is lost on the way.
Settle ==
  /\ \E a \in reply : \/ held' = IF a.accepted THEN held \ {a.id} ELSE held
                      \/ UNCHANGED held
  /\ reply' = {}
  /\ UNCHANGED <<store, phase, wake, work, stash, gathered, durable_gathered, established,
                 damaged, partials, now, faults, offered>>

Expired(w) == now - w.first_seen > PENDING_TTL_SECS \/ Deadline[w.id] <= now

\* Gathering ends; what has expired is recorded as seen and its rows deleted.
ExpireWork ==
  /\ phase = "gather" /\ reply = {}
  /\ phase' = "consume"
  /\ LET old == {i \in DOMAIN work : Expired(work[i])}
     IN  /\ seen' = seen \cup {work[i].id : i \in old}
         /\ pending' = Without({work[i].id : i \in {j \in old : work[j].durable}})
         /\ work' = AtPositions(work, DOMAIN work \ old)
  /\ UNCHANGED <<receipt_replay, sessions, chains, controls, receipts, applied, wake, stash,
                 gathered, durable_gathered, established, reply,
                 held, damaged, partials, now, faults, offered>>

Consuming == phase = "consume" /\ work # <<>>

ConsumeNext ==
  /\ Consuming /\ Kind[Head(work).id] # "fragment"
  /\ LET w == Head(work) IN
       \E r \in Outcomes(w.id) :
         /\ Commit(w.id, w.durable, r)
         /\ pending' = PendingAfter(w.id, w.durable, r)
         /\ stash' = IF r = "later" THEN Append(stash, w) ELSE stash
  /\ work' = Tail(work)
  /\ UNCHANGED <<phase, wake, gathered, durable_gathered, reply,
                 held, damaged, partials, now, faults, offered>>

\* The envelope that fragment f completes, if the rest is in the reassembler.
Completed(f) == {e \in Envelopes : f \in Parts[e] /\ Parts[e] \subseteq partials \cup {f}}

\* A fragment joins the reassembler; a completed envelope is consumed at once,
\* and staged only if it has to wait and the quota allows.
ConsumeFragment ==
  /\ Consuming /\ Kind[Head(work).id] = "fragment"
  /\ LET f == Head(work).id IN
       \/ /\ f \in seen
          /\ UNCHANGED <<store, established, partials>>
       \/ /\ f \notin seen /\ Completed(f) = {}
          /\ partials' = partials \cup {f}
          /\ UNCHANGED <<store, established>>
       \/ /\ f \notin seen
          /\ \E e \in Completed(f) : \E r \in Outcomes(e) :
               /\ partials' = partials \ Parts[e]
               /\ Commit(e, FALSE, r)
               /\ pending' = IF r = "later" /\ ~PendingQuota(e) THEN Staged(e) ELSE pending
  /\ work' = Tail(work)
  /\ UNCHANGED <<phase, wake, stash, gathered, durable_gathered, reply,
                 held, damaged, now, faults, offered>>

\* A pass is over.  A new session, or a control that took effect, sends the
\* stash round again; otherwise the tick is done with receiving.
EndPass ==
  /\ phase = "consume" /\ work = <<>>
  /\ IF wake \/ (stash # <<>> /\ established) THEN UNCHANGED <<chains, controls>>
     ELSE ApplyControls
  /\ IF stash # <<>> /\ (established \/ (~wake /\ controls # {}))
     THEN /\ work' = stash /\ stash' = <<>> /\ established' = FALSE
          /\ UNCHANGED <<phase, wake, gathered, durable_gathered, reply>>
     ELSE IdleTick
  /\ UNCHANGED <<pending, seen, receipt_replay, sessions, receipts, applied,
                 held, damaged, partials, now, faults, offered>>

\* The deadline of a wake collection cuts the work short.
WakeDeadline ==
  /\ wake /\ Consuming
  /\ IdleTick
  /\ UNCHANGED <<store, held, damaged, partials, now, faults, offered>>

----------------------------------------------------------------------------
(* The environment.                                                        *)

\* A store error fails the tick: its memory is gone, the reassembler stays.
TickError ==
  /\ phase # "idle" /\ reply = {} /\ faults < Faults
  /\ faults' = faults + 1
  /\ IdleTick
  /\ UNCHANGED <<store, held, damaged, partials, now, offered>>

Crash ==
  /\ faults < Faults
  /\ faults' = faults + 1
  /\ IdleTick /\ partials' = {}
  /\ UNCHANGED <<store, held, damaged, now, offered>>

\* The reassembler forgets partials older than its window.
ForgetPartials ==
  /\ partials # {} /\ partials' = {}
  /\ UNCHANGED <<store, tick, held, damaged, now, faults, offered>>

\* A pending row stops decoding.
RowDamaged ==
  /\ faults < Faults /\ phase = "idle"
  /\ faults' = faults + 1
  /\ \E id \in PendingIds : damaged' = damaged \cup {id}
  /\ UNCHANGED <<store, tick, held, partials, now, offered>>

\* A queued receipt is handed to a link, where it is terminal.
SendReceipt ==
  /\ phase = "idle"
  /\ \E id \in receipts : receipts' = receipts \ {id}
  /\ UNCHANGED <<pending, seen, receipt_replay, sessions, chains, controls, applied,
                 tick, held, damaged, partials, now, faults, offered>>

ClockAdvances ==
  /\ phase = "idle" /\ now < MaxTime /\ now' = now + 1
  /\ UNCHANGED <<store, tick, held, damaged, partials, faults, offered>>

Arrive(id) ==
  \E custody, direct \in BOOLEAN :
    \/ ArriveAgain(id, custody, direct)
    \/ ArriveFragment(id, custody)
    \/ ArriveComplete(id, custody, direct)
    \/ custody /\ direct /\ ArriveIntroduction(id)
    \/ ArriveTransit(id)

\* Every step while the disk returns what was written to it.
NextIntact ==
  \/ \E w \in BOOLEAN : BeginTick(w)
  \/ \E id \in offered : Arrive(id)
  \/ Settle \/ ExpireWork \/ ConsumeNext \/ ConsumeFragment \/ EndPass \/ WakeDeadline
  \/ TickError \/ Crash \/ ForgetPartials \/ SendReceipt \/ ClockAdvances

Next == NextIntact \/ RowDamaged

Spec == Init /\ [][Next]_vars

\* The daemon ticks again and again and not only for wakes; a carrier returns
\* finite batches, so gathering ends; a next hop keeps offering what it holds,
\* and ordinary ticks poll it.
OfferedToTick(id) == id \in offered /\ ~wake /\ ArriveComplete(id, TRUE, FALSE)

Fairness ==
  /\ SF_vars(BeginTick(FALSE)) /\ SF_vars(ExpireWork)
  /\ WF_vars(Settle) /\ WF_vars(ConsumeNext) /\ WF_vars(ConsumeFragment) /\ WF_vars(EndPass)
  /\ \A id \in Entrusted : SF_vars(OfferedToTick(id))

IntactSpec  == Init /\ [][NextIntact]_vars /\ Fairness
DamagedSpec == Spec /\ Fairness

----------------------------------------------------------------------------
(* Properties.                                                             *)

WorkItems == [id : Envelopes, durable : BOOLEAN, first_seen : 0..MaxTime]

\* Every durable entry the tick still has to work through has its row, so that
\* the exact-row delete inside the consuming commit (validate_pending) cannot
\* fail the tick.
WorkHasRow ==
  \A s \in {work, stash} : \A i \in DOMAIN s : s[i].durable => s[i].id \in PendingIds

\* The pending table keeps one row per content id and stays inside its quota,
\* whichever of staging, reassembly and bridging inserted the row.
PendingBounded ==
  /\ Len(pending) <= MAX_PENDING_ENVELOPES
  /\ \A i, j \in DOMAIN pending : pending[i].id = pending[j].id => i = j

\* The tables and the memory of a tick hold what their columns may hold, the
\* pending table keeps its keys and its quota, and work keeps its rows.
TypeOK ==
  /\ WorkHasRow /\ PendingBounded
  /\ pending \in Seq([id : Envelopes, first_seen : 0..MaxTime])
  /\ seen \subseteq Envelopes /\ receipts \subseteq Envelopes /\ controls \subseteq Envelopes
  /\ receipt_replay \subseteq [id : Envelopes, at : 0..MaxTime]
  /\ applied \in [Envelopes -> Nat]
  /\ offered \in Offers /\ held \subseteq Entrusted \cap offered /\ damaged \subseteq Envelopes /\ partials \subseteq Envelopes
  /\ phase \in {"idle", "gather", "consume"} /\ wake \in BOOLEAN /\ established \in BOOLEAN
  /\ work \in Seq(WorkItems) /\ stash \in Seq(WorkItems)
  /\ gathered \subseteq Envelopes /\ durable_gathered \subseteq gathered
  /\ reply \subseteq [id : Envelopes, accepted : BOOLEAN]
  /\ now \in 0..MaxTime /\ faults \in 0..Faults

\* A next hop that has let go of an envelope did so because this endpoint holds
\* it durably, staged or consumed, whatever crashed or failed in between:
\* settle_recv(true) follows the commit it reports.
ReleasedIsDurable == \A id \in (Entrusted \cap offered) \ held : id \in seen \cup PendingIds

\* No envelope takes effect twice, though it may arrive whole and in fragments,
\* over several carriers, again after a lost answer, and again after a restart:
\* the seen row and the consequences are one commit.
AppliedOnce == \A id \in Envelopes : applied[id] <= 1

\* A receipt is queued only for what was really recorded, and while its sender
\* may still be retrying the endpoint can issue it again: a lost receipt does
\* not strand the sender.
ReceiptsHonestAndRepeatable ==
  \A id \in Envelopes :
    /\ id \in receipts => applied[id] = 1
    /\ (applied[id] = 1 /\ Kind[id] \in {"message", "group", "handshake"})
         => \/ \E r \in receipt_replay : r.id = id
            \/ now >= DELIVERY_EXPIRY_SECS

\* An envelope that this endpoint could have applied is recorded as seen only
\* when it was applied, or when its time was up: arriving before its session,
\* or into a full tick, never discards it.
NoSilentDrop ==
  \A id \in seen : Kind[id] \in {"message", "call", "handshake", "control", "group"}
    => applied[id] = 1 \/ Deadline[id] <= now \/ now > PENDING_TTL_SECS

\* What a next hop keeps offering is applied in the end, in whatever order the
\* session, its messages and the crashes come.
EntrustedApplied ==
  <>(\A id \in Entrusted \cap offered :
       Kind[id] \in {"message", "handshake", "control", "group"} => applied[id] = 1)

\* "envelopes that arrive before the session that can read them (courier
\* reordering) are stashed persistently and retried - never lost" (lib.rs, module
\* comment): a message that waits for its session is applied once the handshake
\* that makes the session is staged beside it.  A tick works the first page of the
\* table only, so behind a page of waiting rows the handshake is not reached.
HandshakeUnlocksStash ==
  \A p \in {q \in Envelopes \X Envelopes :
             Kind[q[1]] = "message" /\ Kind[q[2]] = "handshake" /\ Peer[q[1]] = Peer[q[2]]} :
    ({p[1], p[2]} \subseteq PendingIds) ~> (applied[p[1]] = 1)

\* ADR-0028 section 4: "one corrupt row is quarantined rather than preventing
\* later valid rows from being considered".
LaterRowsConsidered ==
  \A id \in Envelopes :
    (id \in PendingIds /\ Kind[id] = "handshake") ~> (id \in seen \cup damaged)

=============================================================================
