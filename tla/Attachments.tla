---------------------------- MODULE Attachments ----------------------------
(***************************************************************************)
(* One pairwise attachment between two nodes (kult-node/attachment.rs over *)
(* kult-store/media.rs).  The sender seals the object and its preview into *)
(* its media store and offers a manifest; the receiver, once its user      *)
(* consents, asks for the chunks it lacks, keeps those that verify and     *)
(* acknowledges each object it has whole.  Requests, chunks and controls   *)
(* travel as bulk records that no receipt answers: they may be lost, late  *)
(* and overtaken, while either user pauses, resumes, cancels or refuses.   *)
(* A record is handed over durably and applied later by one commit that    *)
(* also deletes it, so it is applied at most once.                         *)
(*                                                                         *)
(* Abstracted: what seals and hashes say is whether the bytes the sender   *)
(* imported still had the hash of its first pass; media files do not       *)
(* vanish; the other transfers of the receiver are only visible in whether *)
(* the active-object limits leave room; peers support attachments and have *)
(* a bulk-capable link whenever a tick activates something.                *)
(***************************************************************************)
EXTENDS Naturals, FiniteSets, Bags

CONSTANTS
  Shapes,       \* what may be sent: functions from its objects to their chunk counts
  MAX_CHUNKS_PER_REQUEST,
  MaxInFlight,  \* bound on bulk records under way
  MaxCommands,  \* bound on what the two users do
  MaxFaults     \* bound on losses, refusals of the store, crowding and restarts

Roles == {"primary", "preview"}

ASSUME AttachmentConstants ==
  /\ \A s \in Shapes : /\ "primary" \in DOMAIN s /\ DOMAIN s \subseteq Roles
                       /\ \A o \in DOMAIN s : s[o] \in Nat
  /\ MAX_CHUNKS_PER_REQUEST \in Nat \ {0}
  /\ {MaxInFlight, MaxCommands, MaxFaults} \subseteq Nat

VARIABLES
  outbound,  \* the sender's transfer, [state, notify]; notify: the other end is to
             \* be told of the local decision (updated_at is not 0)
  offer,     \* the manifest and the sender's objects: [shape, imported, faithful,
             \* viewOnce, manifest]
  inbound,   \* the receiver's transfer, [state, notify]
  objects,   \* the receiver's objects, [state, have]
  asked,     \* [waiting, target]: attachment_request_at and _target
  net,       \* bag of bulk records under way
  full,      \* the receiver's other transfers use up the active-object limits
  failing,   \* a record makes the receiver's tick return an error
  done,      \* objects the receiver has had whole and verified
  commands, faults

sender   == <<outbound, offer>>
receiver == <<inbound, objects, asked, done, failing>>
vars     == <<sender, receiver, net, full, commands, faults>>

Negative == {"Rejected", "Cancelled", "Corrupt"}
Active   == {"Queued", "Transferring", "Paused"}
Running  == {"Queued", "Transferring"}
Absent   == {"none", "gone"}
States   == Negative \cup Active \cup Absent \cup {"AwaitingConsent", "Complete"}

Idle      == [waiting |-> FALSE, target |-> 0]
Plain(s)  == [state |-> s, notify |-> FALSE]
Decided(s) == [state |-> s, notify |-> TRUE]

Objects   == DOMAIN offer.shape
All(o)    == 1..offer.shape[o]
Empty(st) == [o \in Objects |-> [state |-> st, have |-> {}]]

\* Bulk records; `to' is the transfer they are about.
Request(o, S) == [to |-> "out", op |-> "RequestMissing", object |-> o, chunks |-> S]
Chunk(o, i)   == [to |-> "in", op |-> "Chunk", object |-> o, chunks |-> {i}]
Whole(o)      == [to |-> "out", op |-> "Complete", object |-> o, chunks |-> {}]
Ended(t, op)  == [to |-> t, op |-> op, object |-> "primary", chunks |-> {}]

\* Records join those under way, and one is taken from them.
With(bag, S) == bag (+) SetToBag(S)
Without(r)   == net (-) SetToBag({r})

Room(n) == BagCardinality(net) + n <= MaxInFlight

Init ==
  /\ outbound = Plain("none")
  /\ offer \in [shape : Shapes, imported : {{}}, faithful : {{}}, viewOnce : {FALSE},
                manifest : {"held"}]
  /\ inbound = Plain("none")
  /\ objects = Empty("none")
  /\ asked = Idle /\ net = EmptyBag
  /\ full = FALSE /\ failing = FALSE /\ done = {}
  /\ commands = 0 /\ faults = 0

-----------------------------------------------------------------------------
(* The sender *)

\* import_object: each stream is read a second time and sealed chunk by chunk, the
\* preview last.  A stream that fails or a crash leaves the import undone; bytes
\* that changed since they were hashed go unnoticed.
Imports == [imported : {{}, {"primary"}, Objects},
            faithful : {f \in SUBSET Objects : \A o \in Objects \ f : All(o) # {}}]

\* The message, the transfer and its objects are staged by one commit, and then
\* imported.
send_attachment ==
  /\ outbound.state = "none"
  /\ outbound' = Plain("Queued")
  /\ \E i \in Imports, v \in BOOLEAN :
       offer' = [offer EXCEPT !.imported = i.imported, !.faithful = i.faithful, !.viewOnce = v]
  /\ UNCHANGED <<receiver, net, full, commands, faults>>

\* activate_attachment_transfers, outbound: the manifest of a finished import is
\* queued as an ordinary message, which the delivery engine retries.
OfferManifest ==
  /\ outbound.state = "Queued" /\ offer.imported = Objects
  /\ outbound' = Plain("Transferring")
  /\ offer' = [offer EXCEPT !.manifest = IF @ = "held" THEN "sent" ELSE @]
  /\ UNCHANGED <<receiver, net, full, commands, faults>>

\* activate_attachment_transfers, either direction: tell the other end once.
Notify(transfer, other) ==
  /\ transfer.state \in {"Rejected", "Cancelled"} /\ transfer.notify
  /\ Room(1)
  /\ net' = With(net, {Ended(other, IF transfer.state = "Rejected" THEN "Reject" ELSE "Cancel")})

NotifyOut ==
  /\ Notify(outbound, "in")
  /\ outbound' = Plain(outbound.state)
  /\ UNCHANGED <<offer, receiver, full, commands, faults>>

Lowest(S, n) == {i \in S : Cardinality({j \in S : j < i}) < n}

\* Mutant: only a transfer that is under way is served
ServesRunning == outbound.state = "Transferring"

\* A request is served unless the user has paused the transfer, whatever else
\* has become of it.
Serves == outbound.state \notin Absent \cup {"Paused"}

ServeRequest(r) ==
  /\ r.op = "RequestMissing"
  /\ \/ /\ ~Serves
        /\ net' = Without(r)
        /\ UNCHANGED outbound
     \/ /\ Serves
        /\ net' = With(Without(r),
                     {Chunk(r.object, i) : i \in Lowest(r.chunks, MAX_CHUNKS_PER_REQUEST)})
        /\ outbound' = Plain("Transferring")

\* An acknowledgement of one object completes the transfer; a late one does not
\* bring back what was cancelled, rejected or found corrupt.
ApplyComplete(r) ==
  /\ r.op = "Complete"
  /\ net' = Without(r)
  /\ IF outbound.state \in Negative \cup Absent
       THEN UNCHANGED outbound
       ELSE outbound' = Plain("Complete")

ApplyEndOut(r) ==
  /\ r.op \in {"Cancel", "Reject"}
  /\ net' = Without(r)
  /\ IF outbound.state \in Negative \cup Absent
       THEN UNCHANGED outbound
       ELSE outbound' = Plain(IF r.op = "Reject" THEN "Rejected" ELSE "Cancelled")

apply_attachment_bulk_out(op) ==
  \E r \in BagToSet(net) :
    /\ r.to = "out" /\ r.op = op
    /\ ServeRequest(r) \/ ApplyComplete(r) \/ ApplyEndOut(r)
    /\ UNCHANGED <<offer, receiver, full, commands, faults>>

Command == commands < MaxCommands /\ commands' = commands + 1 /\ UNCHANGED <<full, faults>>

cancel_out ==
  /\ Command /\ outbound.state \notin Absent
  /\ outbound' = Decided("Cancelled")
  /\ UNCHANGED <<offer, receiver, net>>

pause_out ==
  /\ Command /\ outbound.state \in Running
  /\ outbound' = Plain("Paused")
  /\ UNCHANGED <<offer, receiver, net>>

resume_out ==
  /\ Command /\ outbound.state = "Paused"
  /\ outbound' = Plain(IF offer.manifest # "held" THEN "Transferring" ELSE "Queued")
  /\ UNCHANGED <<offer, receiver, net>>

\* The sender opens its own view-once attachment, or its time is over: message,
\* transfer, objects and a copy of the manifest that is still queued go.
EraseOut ==
  /\ offer.viewOnce /\ outbound.state \notin Absent
  /\ outbound' = Plain("gone")
  /\ \E m \in {offer.manifest} \cup (IF offer.manifest = "sent" THEN {"held"} ELSE {}) :
       offer' = [offer EXCEPT !.manifest = m]
  /\ UNCHANGED <<receiver, net>>

consume_out == Command /\ "primary" \in offer.imported /\ EraseOut
expire_out  == EraseOut /\ UNCHANGED <<full, commands, faults>>

-----------------------------------------------------------------------------
(* The receiver *)

\* A valid manifest becomes a message and a transfer that awaits consent.
ReceiveOffer ==
  /\ offer.manifest = "sent" /\ ~failing
  /\ offer' = [offer EXCEPT !.manifest = "received"]
  /\ inbound' = Plain("AwaitingConsent")
  /\ objects' = Empty("AwaitingConsent")
  /\ UNCHANGED <<outbound, asked, net, done, full, failing, commands, faults>>

\* Mutant: an object that ends badly keeps its chunks
KeepsChunks(x, s) == [state |-> s, have |-> x.have]

\* The object in a new state; one that ends badly drops its chunks.
media_object_with_state(x, s) ==
  [state |-> s, have |-> IF s \in Negative THEN {} ELSE x.have]

\* Every object in state s, or every unfinished one.
Each(s)       == [o \in Objects |-> media_object_with_state(objects[o], s)]
Unfinished(s) == [o \in Objects |-> IF objects[o].state = "Complete" THEN objects[o]
                                    ELSE media_object_with_state(objects[o], s)]

\* put_media_object: the limits let the objects become active that were not.
Admitted(after) ==
  full => \A o \in Objects : after[o].state \in Active => objects[o].state \in Active

accept_attachment ==
  /\ Command
  /\ inbound.state \in {"AwaitingConsent", "Rejected", "Cancelled"}
  /\ objects' = [o \in Objects |-> media_object_with_state(objects[o],
                                     IF All(o) = {} THEN "Complete" ELSE "Queued")]
  /\ Admitted(objects')
  /\ inbound' = Plain(IF \A o \in Objects : All(o) = {} THEN "Complete" ELSE "Queued")
  /\ done' = done \cup {o \in Objects : All(o) = {}}
  /\ UNCHANGED <<sender, asked, net, failing>>

\* finish_attachment_locally and finish_attachment_from_control
Finish(s, notify) ==
  /\ inbound' = [state |-> s, notify |-> notify]
  /\ objects' = Each(s)
  /\ asked' = Idle

\* The user may refuse or cancel in any state, also what is complete.
refuse_in(s) ==
  /\ Command /\ inbound.state \notin Absent
  /\ Finish(s, TRUE)
  /\ UNCHANGED <<sender, net, done, failing>>

pause_attachment ==
  /\ inbound.state \in Running
  /\ Admitted(Unfinished("Paused"))
  /\ inbound' = Plain("Paused") /\ objects' = Unfinished("Paused") /\ asked' = Idle
  /\ UNCHANGED <<sender, net, done, failing>>

pause_in  == Command /\ pause_attachment

\* After 30 days without a chunk the tick pauses the transfer itself.
idle_pause == inbound.state = "Transferring" /\ ~failing /\ pause_attachment
              /\ UNCHANGED <<full, commands, faults>>

resume_in ==
  /\ Command /\ inbound.state = "Paused" /\ Admitted(Unfinished("Queued"))
  /\ inbound' = Plain("Queued") /\ objects' = Unfinished("Queued") /\ asked' = Idle
  /\ UNCHANGED <<sender, net, done, failing>>

EraseIn == /\ offer.viewOnce /\ inbound.state \notin Absent
           /\ inbound' = Plain("gone") /\ objects' = Empty("none") /\ asked' = Idle
           /\ failing' = FALSE /\ UNCHANGED <<sender, net, done>>

consume_in == Command /\ objects["primary"].state = "Complete" /\ EraseIn
expire_in  == ~failing /\ EraseIn /\ UNCHANGED <<full, commands, faults>>

Missing(o) == All(o) \ objects[o].have
Lacking    == {o \in Objects : objects[o].state # "Complete"}
Wanted     == {o \in Lacking : Missing(o) # {}}
Verified(objs) == Cardinality(UNION {{o} \X objs[o].have : o \in Objects})

\* What a request for everything that is missing can bring.
Expected == UNION {{o} \X Lowest(Missing(o), MAX_CHUNKS_PER_REQUEST) : o \in Wanted}

\* A request is due again after 30 seconds, or at once when everything the last
\* one could bring has come.
RequestDue == inbound.state = "Queued" \/ (inbound.state = "Transferring" /\ ~asked.waiting)

\* activate_attachment_transfers, inbound: ask for what is missing and repeat the
\* acknowledgement of what is there.
RequestMissing ==
  /\ RequestDue /\ ~failing
  /\ Objects \ Lacking # {} \/ Wanted # {}
  /\ Room(Cardinality(Objects))
  /\ net' = With(net, {Whole(o) : o \in Objects \ Lacking}
                      \cup {Request(o, Missing(o)) : o \in Wanted})
  /\ inbound' = Plain(IF Lacking = {} THEN "Complete" ELSE "Transferring")
  /\ asked' = [waiting |-> TRUE,
               target |-> IF Wanted = {} THEN 0
                           ELSE Verified(objects) + Cardinality(Expected)]
  /\ UNCHANGED <<sender, objects, done, full, failing, commands, faults>>

NotifyIn ==
  /\ ~failing /\ Notify(inbound, "out")
  /\ inbound' = Plain(inbound.state)
  /\ UNCHANGED <<sender, objects, asked, done, full, failing, commands, faults>>

\* 30 seconds since the last request
Elapse ==
  /\ asked.waiting
  /\ asked' = [asked EXCEPT !.waiting = FALSE]
  /\ UNCHANGED <<sender, inbound, objects, done, net, full, failing, commands, faults>>

Fault == faults < MaxFaults /\ faults' = faults + 1

\* stage_media_chunk: a chunk that is there already leaves the object as it is.
Staged(o, i) ==
  IF i \in objects[o].have THEN objects[o]
  ELSE [state |-> IF objects[o].state = "Complete" THEN "Complete" ELSE "Transferring",
        have |-> objects[o].have \cup {i}]

\* Mutant: the preview is forgotten
PrimaryComplete(objs) == objs["primary"].state = "Complete"

all_complete(objs) == \A o \in Objects : objs[o].state = "Complete"

\* A chunk that is the last one of its object completes it, and is answered; the
\* transfer is complete with its last object.  The state of the transfer is not
\* looked at.
StoreChunk(r, o, i) ==
  LET whole == Staged(o, i).have = All(o)
      after == [objects EXCEPT ![o] = [Staged(o, i) EXCEPT !.state = IF whole THEN "Complete" ELSE @]]
  IN  /\ whole => o \in offer.faithful
      /\ Admitted(after)
      /\ objects' = after
      /\ inbound' = Plain(IF all_complete(after) THEN "Complete" ELSE "Transferring")
      /\ done' = IF whole THEN done \cup {o} ELSE done
      /\ net' = IF whole THEN With(Without(r), {Whole(o)}) ELSE Without(r)
      /\ asked' = IF asked.target # 0 /\ Verified(after) >= asked.target THEN Idle ELSE asked
      /\ UNCHANGED <<full, failing, faults>>

\* The bytes do not have the hash of the manifest.
RefuseCorrupt(r, o, i) ==
  /\ Staged(o, i).have = All(o) /\ o \notin offer.faithful
  /\ Finish("Corrupt", FALSE)
  /\ net' = With(Without(r), {Ended("out", "Cancel")})
  /\ UNCHANGED <<done, full, failing, faults>>

\* The media quota or the free-space reserve is reached.
RefuseQuota(r, o, i) ==
  /\ i \notin objects[o].have /\ Fault
  /\ Finish("Rejected", FALSE)
  /\ net' = With(Without(r), {Ended("out", "Reject")})
  /\ UNCHANGED <<done, full, failing>>

\* The commit would make an object active that was not, past the limits: the error
\* is the tick's, and the record stays.
FailTick(o, i) ==
  /\ Staged(o, i).have # All(o)
  /\ ~Admitted([objects EXCEPT ![o] = Staged(o, i)])
  /\ failing' = TRUE
  /\ UNCHANGED <<inbound, objects, asked, done, net, full, faults>>

ApplyChunk(r) ==
  /\ r.op = "Chunk"
  /\ \/ /\ inbound.state \in Absent
        /\ net' = Without(r)
        /\ UNCHANGED <<inbound, objects, asked, done, full, failing, faults>>
     \/ /\ inbound.state \notin Absent
        /\ \E i \in r.chunks : \/ StoreChunk(r, r.object, i)
                               \/ RefuseCorrupt(r, r.object, i)
                               \/ RefuseQuota(r, r.object, i)
                               \/ FailTick(r.object, i)

\* The sender's cancellation ends the transfer, also a complete one.
ApplyCancelIn(r) ==
  /\ r.op = "Cancel"
  /\ net' = Without(r)
  /\ IF inbound.state \in Negative \cup Absent
       THEN UNCHANGED <<inbound, objects, asked>>
       ELSE Finish("Cancelled", FALSE)
  /\ UNCHANGED <<done, full, failing, faults>>

apply_attachment_bulk_in(op) ==
  \E r \in BagToSet(net) :
    /\ r.to = "in" /\ r.op = op /\ ~failing
    /\ ApplyChunk(r) \/ ApplyCancelIn(r)
    /\ UNCHANGED <<sender, commands>>

-----------------------------------------------------------------------------
(* What happens around them *)

Lose ==
  /\ Fault
  /\ \E r \in BagToSet(net) : net' = Without(r)
  /\ UNCHANGED <<sender, receiver, full, commands>>

\* The times and targets of requests are in memory only.
Restart ==
  /\ Fault /\ asked # Idle
  /\ asked' = Idle
  /\ UNCHANGED <<sender, inbound, objects, done, failing, net, full, commands>>

\* Other transfers of the receiver come and go.
Crowd   == Fault /\ ~full /\ full' = TRUE /\ UNCHANGED <<sender, receiver, net, commands>>
Uncrowd == /\ full /\ full' = FALSE /\ failing' = FALSE
           /\ UNCHANGED <<sender, inbound, objects, asked, done, net, commands, faults>>

Ops == {"RequestMissing", "Chunk", "Complete", "Cancel", "Reject"}

Apply(op) == apply_attachment_bulk_out(op) \/ apply_attachment_bulk_in(op)

activate_attachment_transfers ==
  \/ OfferManifest \/ NotifyOut
  \/ RequestMissing \/ NotifyIn \/ idle_pause

Users ==
  \/ cancel_out \/ pause_out \/ resume_out \/ consume_out
  \/ accept_attachment \/ pause_in \/ resume_in \/ consume_in
  \/ \E s \in {"Rejected", "Cancelled"} : refuse_in(s)

Next ==
  \/ send_attachment \/ ReceiveOffer \/ Elapse
  \/ activate_attachment_transfers
  \/ \E op \in Ops : Apply(op)
  \/ Users \/ expire_out \/ expire_in
  \/ Lose \/ Restart \/ Crowd \/ Uncrowd

Spec == Init /\ [][Next]_vars

\* Ticks keep running, time passes, and what is not lost arrives.  Nothing obliges
\* a user, an expiry, the idle limit or other transfers.
LiveSpec ==
  /\ Spec
  /\ WF_vars(OfferManifest) /\ WF_vars(ReceiveOffer) /\ WF_vars(NotifyOut)
  /\ WF_vars(RequestMissing) /\ WF_vars(NotifyIn) /\ WF_vars(Elapse)
  /\ \A op \in Ops : WF_vars(Apply(op))

-----------------------------------------------------------------------------
(* Properties *)

\* The rows are well formed; an object that was refused, cancelled or found
\* corrupt keeps none of its chunks, and no object is both whole and unfinished.
TypeOK ==
  /\ outbound \in [state : States \ {"Corrupt", "AwaitingConsent"}, notify : BOOLEAN]
  /\ inbound \in [state : States, notify : BOOLEAN]
  /\ DOMAIN objects = Objects
  /\ \A o \in Objects :
       LET x == objects[o] IN
         /\ x.state \in States /\ x.have \subseteq All(o)
         /\ x.state \in Negative \cup {"none", "AwaitingConsent"} => x.have = {}
         /\ x.state \in Active => x.have # All(o) \/ All(o) = {}
  /\ IsABag(net) /\ \A r \in BagToSet(net) : r.op \in Ops
  /\ asked \in [waiting : BOOLEAN, target : Nat]
  /\ done \subseteq Objects

\* What "complete" means: at the receiver every object is there with the hash of
\* the manifest; an acknowledgement under way is for an object that was whole;
\* and the sender shows the transfer complete only if the receiver has had one
\* of its objects whole, in whatever order requests, chunks, acknowledgements
\* and decisions cross (apply_attachment_bulk).
CompleteIsWhole ==
  /\ inbound.state = "Complete" =>
       \A o \in Objects : objects[o].have = All(o) /\ o \in offer.faithful
  /\ \A r \in BagToSet(net) : r.op = "Complete" => r.object \in done
  /\ outbound.state = "Complete" => done # {}

\* "`Reject` is a durable receiver decision for that manifest until the user changes
\* it" (docs/adr/0015-encrypted-attachment-pipeline.md): a transfer that was
\* refused does not run again, nor completes, without a command of a user, whatever
\* request or chunk was under way when it was refused.
RejectionDurable ==
  [][inbound.state = "Rejected" /\ commands' = commands
       => inbound'.state \notin Running \cup {"Complete"}]_vars

\* A transfer its user accepted comes to an end, complete or not, or is paused,
\* whatever was lost, repeated or answered too late, unless the sender's user
\* has paused or erased it or other transfers take up the receiver's limits.
Settles ==
  inbound.state \in Running
    ~> (inbound.state \notin Running \/ outbound.state \in {"Paused", "gone"} \/ full)
=============================================================================
