# Komms: a TLA+ verification project

Komms is a messenger whose nodes keep every obligation in an encrypted SQLite
store and talk over carriers that lose, delay, repeat and reorder: libp2p, LAN,
LoRa mesh, files on a stick, and mailbox relays that hold envelopes for a node
that is offline. What makes it correct is custody: an envelope is always held
durably by somebody until its recipient has applied it, is applied once, and is
shown as delivered only when it was. These modules model that path from the
sender's queue over a relay to the recipient's history, the way two devices
agree on the session that everything is sealed under, and the four protocols
that run on top of it: sender-key groups with their signed authority, calls to
accounts with several devices, the authority of an account over its devices, and
the transfer of attachments.

Contents: [the system](#the-system), [modules](#modules-and-the-code),
[runs](#runs), [bounds](#bounds), [fairness](#fairness), [proofs](#proofs),
[disagreements](#where-code-and-documentation-disagree),
[not modelled](#what-is-not-modelled), [plan](#plan).

All paths below are relative to `src/crates/` unless they start with `docs/`.

## The system

| Part | State it keeps | Operations | What is hard | What makes it correct |
|---|---|---|---|---|
| Mailbox relay store (`kult-transport/src/mailbox_v2.rs`) | registrations, deposits, leases, lease rows, rate windows, all in SQLite | deposit, lease (registers, replays or grants a page), acknowledge, sweep, open | clients that share a token, lost answers, rows that expire inside a lease, a clock that steps back, restarts, quotas | custody ends only by acknowledgement or expiry; a row is out on one lease; the relay can open what it wrote |
| Inbound custody (`kult-node/src/lib.rs`, `tick`, `consume*`) | `pending`, `seen`, `receipt_replay`, sessions, sender chains, deferred controls; in memory the work list, the stash, the ids known durable, the reassembler | gather, stage, answer the next hop, expire, consume in passes, replay receipts | crashes between commit and answer, duplicates, messages before their handshake, quotas, wake collections that stop at a deadline | the next hop is released only for what is durable; one effect per envelope; nothing dropped unread |
| Delivery engine (same file, `send_message*`, `flush`, `prepare_receipt`, `sweep_failed_deliveries`) | messages, per-device deliveries, queue, the recipient's listed devices, the time of the next sweep | send, seal for a device that became reachable, hand off, reschedule, settle on a receipt, give up after 30 days | receipts that come late or never, time-outs of sends that succeeded, session replacement, bounded maintenance | honest states, nothing stranded, everything settles |
| Session establishment (same file, `prepare_session`, `consume_handshake`, `decide_inbound_session`) | session, reset marker, queue, deliveries on each of two devices | first flight, reset flight, upgrade of a legacy session, rescan of a bundle | flights that cross, flights overtaken by others, copies sealed under a session that goes | both devices end with one session; no copy is left in a dead one |
| Typed commits (`kult-store/src/commit.rs`) | the tables above | one validated transaction per transition | exact-row preconditions that may fail a tick | every model step is one commit |
| Sender-key groups, group authority (`kult-node/src/groups.rs`, `authority.rs`) | per member the record with its generation, secret and own chain, who acknowledged it, the chains of the others, the signed state, consumed requests; invitations and deferred controls | create, add, remove, leave, invite, request, transfer, upgrade, send, announce, acknowledge | changes by several members at once, announces that are lost or overtaken, a crash between a change and its answer | only members of the moment can open what is sent; replicas never go back; whoever remains can send again |
| Calls (`kult-node/src/calls.rs`) | in memory: the calls with their state, chosen device, refusals; the rows of their controls; the stream | start, answer, decline, cancel, hang up, apply a control, pump the stream, sweep | several devices ring and answer, controls overtake each other or are lost, streams break | one device talks; refusals are honest; nobody is left in a call the other end is not in |
| Linked devices (`kult-node/src/devices.rs`, `kult-crypto/src/device_authority.rs`, `device_link_authority.rs`) | the proof of authority (all transitions since genesis), sync channels, in memory a pending proposal and both ends of a linking ceremony; at a contact the proof it accepted and the sessions | propose, approve, finalise, link, sync, restore from a backup; at a contact: scan, first flight | approvals, files and flights that are late, repeated or never used; forks; recovery from an old backup; restarts in a ceremony | a split needs somebody who signed both ways; a revoked device stays out |
| Attachments (`kult-node/src/attachment.rs`, `kult-store/src/media.rs`) | at each end the transfer and its objects with the chunks that are verified; in memory when the last request was made and how many chunks should follow it; controls in the deferred table | send, accept, reject, cancel, pause, resume, open once, expire; per tick: offer, request, notify; per control: serve, store, acknowledge, end | nothing answers a bulk record, so everything is retried; records cross decisions of both users; quotas and limits in the middle of a transfer | complete means whole; a refusal holds; what was accepted ends |
| Disappearing and scheduled messages, admission, rendezvous, wake, bridging | a table or a timer each | see `PROJECT.json` | deadlines, resume, budgets | see the plan |
| Services (`kult-mailbox`, `kult-wake`, `kult-rendezvous`, `kult-reference-service`, `kult-ohttp-relay`) | the relay store; slots; push state | network front ends | external systems | |
| Front doors (`kultd`, `kult-ffi`, `apps/`) | none of the protocol | serialise commands into one `Node` | | one node, one caller at a time |

How the parts interact: `flush` hands a queued envelope to a carrier, which may
deposit it at a relay. The recipient's carrier leases a page from the relay and
passes each envelope to `tick` with a receipt handle; `tick` stages it and calls
`settle_recv`, and only then the carrier acknowledges the row. Consuming an
envelope queues an encrypted receipt, which travels back the same way, is
terminal at its handoff, and settles the delivery in `prepare_receipt`. A
handshake replaces the session, and in the same commit takes back every open
copy the old one sealed; if it brings a newer device list, the rows for devices
that are no longer on it go too.

## Modules and the code

| Module | Models | Abstracted |
|---|---|---|
| `MailboxRelay` | `mailbox_v2.rs`: each public operation is one IMMEDIATE transaction, so one action; the sweep that begins it is in it. Tables are sets of records with the columns the decisions read | AEAD sealing, random ids (numbered), rate windows (any request may be over budget), the order of the columns |
| `InboundCustody` | the receive half of `tick`, in steps that end at a store commit or an answer: `BeginTick`, `Arrive*`, `Settle`, `ExpireWork`, `ConsumeNext`, `ConsumeFragment`, `EndPass`, `WakeDeadline`; `Crash` and `TickError` fall between any two | what an envelope turns out to be is a constant (`Kind`, `Peer`, `Deadline`, `Parts`); verdicts of admission and of the session tie-break are choices; the pending table is a sequence in row order, whose row numbers are left out; what fragments add up to is never a fragment again (`consume` rejects that) |
| `DeliveryQueue` | the sending half: `Send`, `MaterializePending`, `HandedOff`, `NotHandedOff`, `ReceiveReceipt`, `ConsumeHandshake`, `Sweep`, `Restart`; a scanned bundle's device list as `RetireQueuePage` (its queue rows go in pages of their own) and `StoreDeviceList` | which devices a list drops is a choice; ciphertexts are numbered encryptions; carrier ranking is the choice of what came of an attempt; clocks and counters saturate |
| `MessageLifecycle` | the promise an application sees: Queued, Sent, Delivered, Failed, against what the peer really has | |
| `SessionHandshake` | both devices with their sends, flights, messages and receipts; names follow the source (`prepare_session`, `consume_handshake`, `decide_inbound_session`, ...) | a session is the number of the flight that made it; keys, prekeys, manifests and admission verify; what is lost stays in `net` and is never consumed |
| `GroupAuthority` | signed group states (`authority.rs`, `group_authority.rs`): what a state contains, which verifies after which, which supersedes which | signatures verify; names and icons |
| `Groups` | the members of one group: every command, `tick_groups`, and one `Receive` per control with all its handler does, up to the chain each member holds. Commands come from a scenario's `budget` | one device per account; secrets, chains and ids are numbers from one supply; a message is the pair of its chain and its audience (`sealed`); an acknowledgement names the chain it is for, where the code compares the id of the last copy sent |
| `Calls` | the devices of two accounts: every command, `apply_call_control` with one operator per control, `sweep_calls`, the stream in four steps (open, accept, pump at each end) | a stream carries whose it is and whether its context is right, not audio; time is what is left of each offer and how long each stream has been silent |
| `DeviceAuthority` | the proof as a sequence of transitions: `verify*`, `validate_*`, `relation`, `propose_*`, `recover`, `append`, named as in the source | signatures and certificates verify; names and observation times (a rename changes only the id) |
| `Devices` | the devices of one account and its contacts: proposals, approvals, the linking ceremony, sync files, restore, restart; `add_contact`, flights and `consume_handshake` as far as they take a manifest. What a device made once may be used at any later time (`past`) | history transfer and sync events; a contact has one device |
| `Attachments` | the two ends of one pairwise attachment: every command, `activate_attachment_transfers` as the steps it takes for a transfer, `apply_attachment_bulk` with one operator per arm and outcome, expiry of a view-once attachment | chunks are numbers; what seals and hashes say is whether the bytes were still those that were hashed when they were imported; other transfers appear as limits that are full or not |
| `*Proofs` | TLAPS proofs about the eight modules they extend | |
| `MC*` | instances: who the clients and envelopes are, which flights may start | |

`InboundCustody` and `DeliveryQueue` meet at `PeerRecords`: what the recipient
does with a copy is one step there and a module of its own here.
`DeliveryQueue` and `SessionHandshake` overlap at the replacement of a session:
the first has many messages, devices, time and giving up under an arbitrary
handshake, the second has both ends of the handshake and no time. `Groups`,
`Calls` and `Devices` stand on these: they take pairwise delivery as a set of
messages that may be lost, repeated and reordered, and `Groups` also has the
renewal of a session, which asks for every chain again. `Attachments` has a bag
of records that may be lost and reordered, but each is applied at most once,
because it is deleted in the commit that applies it.

Operators whose comment begins with "Mutant:" are changed forms of the
definition that follows them, used to see that each property can fail.

## Runs

`tlc -workers 2 -config <cfg> <module>`

| Run | Shows |
|---|---|
| `relay_custody` (`Relay.cfg`) | Three clients of one token: keys and foreign keys (`TypeOK`), the relay accepts its own database at every clock reading (`ReopenAccepts`, which contains every quota), a row is out once and a repeated request is answered with the very same lease (`LeaseDiscipline`), custody ends only by acknowledgement or expiry (`CustodyEnds`), an empty answer means an empty mailbox (`DrainedWhenEmpty`) |
| `inbound_custody` (`Inbound.cfg`) | All safety properties of the receive path, over five mixes of envelopes of every kind, with a fault, wakes, a full table and expiring rows: the work list agrees with a table within its quota (`TypeOK`), `ReleasedIsDurable`, `AppliedOnce`, `ReceiptsHonestAndRepeatable`, `NoSilentDrop` |
| `inbound_live` (`InboundLive.cfg`) | What a next hop keeps offering is applied in the end, messages before their handshake too (`EntrustedApplied`), as long as the page of a tick holds all that is pending |
| `delivery` (`Delivery.cfg`) | One message to an account of two devices, either of which may leave the account's list: no copy for a listed device is stranded, none is queued for another, none is stale or shown as delivered without having been recorded (`CopiesTracked`), the message shows what its copies say (`MessageSummarises`), the lifecycle is implemented (`ImplementsLifecycle`) |
| `session_crossing` (`SessionCrossing.cfg`) | Flights of both devices in any order, or a reset flight of the lower one against them: one session in the end (`SessionsAgree`), no session taken that its maker gave up (`AdoptedIsHeld`), no copy left behind (`OpenCopiesAreCurrent`), and though whatever is not retried may be lost, every message is delivered unless an empty flight was (`DeliveredIfFlightsArrive`) |
| `session_replaced` (`SessionReplaced.cfg`) | The upgrade of a legacy session with a rescan of the upgrading device: a framed body is recorded once (`FramedRecordedOnce`), and what the legacy session had not sealed is delivered unless an empty flight was lost (`DeliveredIfFlightsArrive`) |
| `groups` (`Groups.cfg`) | Plain and signed groups of two or three through every command and its races: nobody outside opens what is sent (`OnlyAudienceReads`), an acknowledgement means the chain in use is held (`AcknowledgedIsHeld`), answers to requests are true across a crash (`HonestResults`), no replica goes back (`NeverRegresses`), the store accepts every row (`TypeOK`) |
| `calls` (`Calls.cfg`) | A call to an account of two devices with one fault: only the chosen device talks (`OneTalker`), a refusal is shown only when everyone refused (`HonestRefusal`), nobody rings or talks on for ever (`NobodyLeftTalking`) |
| `calls_crossing` (`CallsCrossing.cfg`) | Two calls between two devices, one after the other or at once: never in two calls, never on the stream of another (`TypeOK`) |
| `devices` (`Devices.cfg`) | An account that starts with one or two devices: every proof in use verifies and every row passes the store (`TypeOK`), a fork has a device that signed both sides (`ForksShareASigner`), what a contact has seen revoked or superseded comes back only by a link in a later epoch, recovered from a backup that did not know it (`RevokedStaysOut`) |
| `attachments` (`Attachments.cfg`) | A file in two chunks, one with a preview and an empty one, with three commands of either user and two faults: complete means whole and verified (`CompleteIsWhole`), what was accepted ends (`Settles`), ended objects keep no chunks (`TypeOK`) |
| `device_flight` (`DeviceFlight.cfg`) | Violation, item 1: a stale flight fails every tick (`NeverWedged`) |

Deadlock is checked in `relay_custody`. The other modules have states where
everything is settled and the bounds are used up, so their runs switch it off;
that something must still happen is said by the liveness properties instead.

## Bounds

| Bound | Value | Why it is enough |
|---|---|---|
| Relay: clients, rows ever stored, leases ever made, clock readings | 3, 2, 3, 0..2 | the first lease only registers; two more can be open at once while a third client asks, so the lease limit is met; two rows make a page with a part of it acknowledged or expired; the clock moves both ways over every expiry |
| Relay: page and byte limits | page 3, rows of 1, 2 and 3; 3 per client, 5 in all | a row fills the page alone, two rows fill it exactly, or the second does not fit; a client meets its byte limit where two clients together do not |
| Inbound: pending quota, page, page of a wake | 2 (3 live), 2 (3 live), 1 | the quota and both pages fill with what is offered. In the code the page (64) is smaller than the quota (2048); with a page smaller than what is pending liveness fails (item 2 below), so `inbound_live` has a page that holds all of it |
| Inbound: faults, clock | 1, 0..1 | one crash or failed tick at each point; rows expire by age and by deadline |
| Delivery: devices, encryptions, attempts, clock | 2, 2, 2, 0..3 | one device settled and the other open; a copy sealed again once; the second delay passes the cap; expiry after 2, so the sweep runs before and after it; rows are retired one at a time |
| Session: devices, messages, flights | 2, 2 or 3, 2 | one flight of each side, with a second message behind the higher device's flight; a third flight is never made in these starts (looked at with 3) |
| Groups: members, commands | 3; the scenarios of `Changes`, one or two commands of each kind | every command alone and with the ones it races with (a removal with a send, a request with a transfer, a session renewal with a rotation or a removal that an admin asked for, a leave from a signed group with a send and a loss); with `GROUP_ROTATE_MSGS` 1 a chain is spent after one message |
| Calls: devices, calls, faults | 3, 1, 1 and 2, 2, 0 | two devices that compete and a broken stream or a restart, with controls that never arrive; two calls that cross |
| Devices: ids ever drawn, flights waiting, transitions of a proof | 4 (a start with two devices has drawn one), 1, 4 | from two devices: two proposals that fork and a recovery, or one link with a proposal meanwhile; from one: a link and one more change; the proof meets its limit. The way back of `RevokedStaysOut` needs more; it was looked at with 7 ids (2.7 million states) |
| Attachments: objects, chunks, chunks per request, records under way, commands, faults | 2, 2 and 1, 1, 2, 3, 2 | a request brings less than is missing; a chunk is late while its request is repeated; accept, a decision and its reversal; a loss and a restart, or the limits fill while a chunk is late |

Symmetry is used for the clients of the relay and the devices of `delivery`, where no
property is temporal with fairness. Saturation at `MaxTime` and `MaxAttempts` is sound because the
code treats all later values alike.

## Fairness

- `InboundCustody!IntactSpec`: the daemon ticks for ever and not only for wakes
  (`kultd` and the FFI runtime drive `tick` in a loop), a carrier returns finite
  batches, each step of a running tick is followed by the next, and a next hop
  offers what it holds again and again to ordinary ticks. Strong fairness stands
  where a wake or a crash may come in between infinitely often. No fairness is
  assumed of answers that may be lost: `Settle` may always lose them.
- `DeliveryQueue!TickingSpec`: time passes and the sweep, which `tick` calls when
  it is due, runs. Nothing is assumed of links, peers or receipts. It serves item 3
  of the disagreements; the run checks safety only.
- `SessionHandshake!TickingSpec`: each device goes on with whatever its ticks do,
  except the user's own sending and scanning. Arrival is assumed only of what is
  retried (`Retried`): a row with a message while it is queued, and a receipt while
  the copy it acknowledges is queued and so provokes it again. Flights without
  content, and copies whose row was deleted, end at their handoff and may be lost.
- `Groups!LiveSpec`: every node ticks for ever and takes in what is sent to it
  again and again, per sender and apart for announces and other controls, since
  one can not keep the other out of the batch of a tick; users accept invitations
  sooner or later. Losses come from the scenario's budget, so they end. This is
  more than the code gives (see what is not modelled), so it serves only items
  5 and 10 of the disagreements, which fail in spite of it; the run checks safety
  only.
- `Calls`: time passes, each device ticks and pumps its stream at its cadence.
  Nothing is assumed of users, nor that a control arrives or a stream opens.
- `Attachments!LiveSpec`: both nodes tick for ever, 30 seconds pass, and records
  that are not lost arrive, each kind for itself. Losses are bounded by `MaxFaults`.
  Nothing is assumed of users, expiry, the idle limit or other transfers.
- `Devices`: none; only safety is checked, since people carry the files.

## Proofs

`tlapm <module>Proofs.tla` for each of `MailboxRelay`, `InboundCustody`,
`DeliveryQueue`, `SessionHandshake`, `Devices`, `Groups`, `Attachments` and `Calls`. All
theorems hold for every value of the constants that satisfies the assumption of
the module. These say that sizes, times, limits and bounds are numbers; that the
relay's tokens are finitely many; that an envelope
may fill a page but not exceed it; that the passive threshold is a value of the
attempt counter; that there are two session devices with an order (the tie-break
compares them); that an account starts with different devices, within the limits;
that a group is among finitely many accounts, its creator and admins among its
members; that every attachment has a primary object; and of calls that an account
has finitely many devices and that lifetimes are not zero. What stands for no group,
no state or no call is not also a value. Three theorems of `SessionHandshake` and one
of `Groups` have a hypothesis of their own.

**MailboxRelay.** `RelayTypeCorrect`, `RelayLeaseDiscipline`,
`RelayLeasedRowsStored`, `RelayCustodyEnds`, `RelayReopenAccepts`,
`RelayDrainedWhenEmpty`. The invariant `RelayInv` is a
predicate of the three tables, so that it is shown once for the sweep and then
for the change each operation makes to swept tables. It is needed as a whole:
that a row is out once rests on a lease being open exactly while it waits for a
row (`ClosedWhenDone`), because `available_rows_on` only looks at open leases,
and that again on a lease going with the first of its rows (`RowsStored`).
That the relay can open every database it leaves is a second invariant, `QuotaInv`,
all counts of `validate_all` at once, stated of finite tables. Deleting keeps them
(`FewerDeposits`, `FewerLeases`, `FewerOut`); a deposit keeps those it was checked
against (`OneMoreDeposit`). The other two are less plain. A renewal of tokens keeps
the registration limits because what it replaces makes room for what it writes
(`UpsertCount`). A grant keeps the limit of leases per token also for tokens it was
not checked for, because it can only hold rows of the tokens it asked for
(`OneMoreLease`), and its page keeps both page bounds because the loop checked the
last row it took (`PageFits`); the same lemma says that the first available row
always fits, which is why an empty page means that nothing was available. Bytes
are counted as a set of (row, position), so no sum over a set has to be unfolded.

**InboundCustody.** `InboundTypeCorrect`, `InboundReleasedIsDurable`,
`InboundAppliedOnce`, `InboundReceiptsHonestAndRepeatable`, `InboundNoSilentDrop`. Every step
keeps what is durable durable; the invariant adds that the tick's own idea of
what is durable is true and that answers follow it (`AnswersAreTrue`), and that
whatever took effect has its seen row (`EffectIsSeen`), which the duplicate check
of `consume` then turns into "once". That the work list agrees with the pending
table needs that the list names no envelope twice (`WorkOnce`), which survives the
passes over what is left of it. For receipts and drops (`RInv`) the replay table is
shown to name only what took effect (`ReplayIsApplied`); every outcome that writes
a seen row without an effect is then one of a kind that has none, or of a row whose
time is up, and a row of the replay table goes only when it is old enough for its
sender to have given up.

**DeliveryQueue.** Type correctness, `CopiesTracked` (`NothingStranded`,
`RowsAreCurrent` and `DeliveredIsRecorded`), `MessageSummarises`,
`TerminalIsFinal`, `RetryWithinCap`,
and that the engine implements `MessageLifecycle` (`DeliveryImplementsLifecycle`),
from which `DeliveredIsHonest` follows. The four invariants are inductive only
together and with two more: a message and its copies enter the tables together
(`HistoryTogether`), and the sweep gives up all open copies at once
(`GivenUpTogether`), without which a take-back could make a failed message open
again. A copy may be left without its row in one way: its device left the account's
device list. A handshake that brings such a list deletes the rows in its own commit
(`ConsumeHandshakeStep`, `DroppedStep`), a scanned bundle page by page before it
stores the list (`RetireQueuePageStep`, `StoreDeviceListStep`); in both the delivery
records stay Queued or Sent until the sweep gives them up. `NothingStranded` is
therefore a statement about devices that are listed and not being retired, and
`RowsAreCurrent` says that the queue has nothing for a dropped one.

**SessionHandshake.** `TypeCorrect` and `FramedRecordedOnceHolds` for every start,
with legacy sessions and rescans. The second rests on a framed body having one
content id through every sealing, and on `seen` and the history being written in
one commit (`RecordInv`). `OpenCopiesHold` has the hypothesis `NoLegacy`: no start
has a legacy session, since an upgrade does leave copies behind (item 9 below).
Its invariant adds only that the prior session is never in use. `SessionsAgreeHolds`
and `AdoptedIsHeldHolds` (an action property) have the hypothesis `Crossing`: no
rescan, no legacy session, and at most the lower device restored. The two traces
at the end of the next section show that they are false without it. Their
invariant (`FlightInv`) follows the flights: a device makes at most one; the lower
device holds the session of its own flight or, without one, of the flight it took;
the higher device holds the session of the flight it took or, before that, of its
own. When both fly, these are the same session in the end.

**Devices.** `TypeCorrect`, `ForksShareASignerHolds`, `RevokedStaysOutHolds`, for
any number of devices, contacts and transitions. That two proofs that went
different ways share a signer is the intersection of two majorities of one set
of active devices; the work is in showing that every proof anywhere was built by
`append` and `recover` out of what devices really signed, and that every use of
an old approval, file or bundle (`past`) still is (`IInv`: `AccountInv` for the
devices, their proposals and ceremonies, `ContactInv` for the contacts). The
attempt to prove `RevokedStaysOut` as it stood, a device once gone never comes
back, failed for a reason: a device can be linked in an epoch, seen by a contact,
be forgotten by a recovery from a backup made before, and be linked again.
`validate_contact_device_manifest` accepts that, and nothing else: `RevokedStaysOut`
now says so (`ForgottenSince`).

**Groups.** `TypeCorrect` (with what the store asks of the rows),
`OnlyAudienceReadsHolds`, `AcknowledgedIsHeldHolds`, and `NeverRegressesHolds` (an
action property), for any accounts, starting groups and numbers of commands. The
argument is about chain keys (`AudienceInv`). A key is drawn once and by one node
(`Drawn`); an announce of it that is under way, kept in someone's queue or already
seen is for a member of the roster it is used with; and whatever was encrypted
under it was for all of that roster. All of this rests on every handler that
changes a roster also rotating the chain. An acknowledgement carries the key, so
it can only count for the chain that was seen (`MailInv`). That an announced roster
contains its sender, and a signed state its owner, is what keeps chains inside the
roster, as the store asks (`RowInv`). The ids of one generation lie side by side
(`RankInv`), so that another can always be drawn. One lemma says what a step at a
node may do (`Step`), and each command and handler is shown to be such a step;
only `tick_groups`, which makes announces, has a proof of its own.

`HonestResultsHolds` has an invariant of its own (`HonestInv`), and a hypothesis on the
start: the scenario lets nobody leave and hands the group to nobody (`Steady`). Then
all signed states are the founder's and form one line, one state a generation, with
the founder at its end (`OnLine`), so that a request which names the founder's
generation was asked about the founder's state. Ids tell requests apart (`AskedInv`).
What remains is the request that was decided and not answered (`Unanswered`): the
commit that decided it emptied the acknowledgements of the founder's chain; the
request is in the founder's queue, where it is no announce that waits, so no
acknowledgement is read before it is answered (`TickRuns`); and nothing is signed
without all acknowledgements. The state the answer is read off is therefore still
the one the request made, which is also why the model can leave out that the code
compares the name as well.

The first half of `Steady` cannot be dropped. After a member has left a
signed group the property is false: `apply_group_leave` takes the leaver out of the
record and not out of the signed state. An admin who then invites it again is told
yes, since it is in the state already, and nothing changes (`Groups.cfg` with
`Scenarios <- LeaverInvited`); the owner's own `group_add` of it does nothing. The
second half is what the argument needs. An owner that has handed over can be removed
with the others of an older state; late copies of their announces invite them anew,
the old owner signs from there, and two states share a generation. A group that was
handed over is checked by the run only.

**Attachments.** `TypeCorrect`, `CompleteIsWholeHolds`. A record under way is for chunks of its object, and an
acknowledgement is for an object that was whole (`NetInv`); an object is complete
only with all its chunks, an ended or refused one has none, and the state of a
transfer at rest is that of its objects (`ObjectInv`). The sender's `Complete`
needs besides that nothing leaves it before it has read what it sends (`SentInv`).

**Calls.** `TypeCorrect`, `OneTalkerHolds`, `HonestRefusalHolds`, for any number of
accounts, devices, calls and faults. That two ends talk to each other rests on the
caller: a stream goes to the device whose answer it took, is opened once for a
call, and its choice never changes after (`Opened`, in `StreamInv`). That a refusal
is honest rests on the life of one offer to one device (`RefusalInv`): it is in one
place, queue or carrier; as long as it is, the device does not know the call; and
a device that has refused, whether its answer is queued, under way or counted, can
neither be offered the call again nor be in it. One lemma says what a step may do
to the calls, offers and streams (`MoveStep`), one what it may do to the controls
(`MailStep`, and `OnwardMoved` where rows move or lose time), and each action is
shown to be such a step.

Only model-checked: every liveness property, and `HonestResults` of groups that change
their owner. Liveness under fairness, `ENABLED` and induction over data are beyond the prover that
is used. The proofs asked for some definitions in another form, which leaves the
behaviours as they were: `Attachments` adds to and takes from its bag with operators
of its own, `Calls` names the record of an offer and what taking a stream does to
it, `MailboxRelay` counts bytes as the size of a set, and `InboundCustody` keeps its
pending table as a sequence and selects from it by positions.

## Where code and documentation disagree

The first is a run that TLC must find violated, `device_flight`:

1. A first flight whose device manifest is stale, forked or of an
   old epoch makes `consume_handshake` return an error. The tick ends with it, the
   row stays, and every later tick fails on the same row until it expires after 30
   days; the comment at the head of the function says that such flights are
   dropped and never wedge the queue. A linked device that has not imported the
   last sync file is enough.

These were found as well; each is a change of one cfg:

2. A full page of rows that wait for a session keeps the handshake behind them from
   ever being worked (64 rows a tick, 2048 in the table), where the head of
   `kult-node/src/lib.rs` has such envelopes "stashed persistently and retried —
   never lost": `InboundLive.cfg` with `Envelopes = {m, m2, h}`,
   `Entrusted = {m, m2, h}`, `Offers <- StashOffers`, `MAX_PENDING_WORK_PER_TICK = 2`,
   `Faults = 0`, `HandshakeUnlocksStash`.
3. The limit of a sweep counts old messages that are settled already, so later ones
   are never given up, against `kult-node/src/api.rs` ("or `Failed` after 30
   days"): `Delivery.cfg` under `TickingSpec` without symmetry, with
   `Messages = {1, 2, 3}`, `Devices = {phone}`, `DELIVERY_EXPIRY_SECS`, `RETRY_BASE_SECS`,
   `RETRY_CAP_SECS` and `CAPACITY_RETRY_BASE_SECS = 1`, `MAX_COMMIT_QUEUE_ROWS = 3`,
   `MaxTime = 2`, `MaxAttempts` and `MaxWire = 1`, and a sweep that looks at two messages
   (`MAX_MAINTENANCE_MESSAGES_PER_TICK = 2`), `EveryMessageSettles`. What holds there is
   `ReachedMessagesSettle`: the messages within the limit settle, and their rows
   leave the queue in later sweeps (39,476 states).
4. The flight that `rekey_reset_peers` makes carries no message, so it ends at its
   handoff. If it is lost, the restored device seals and answers under a session
   nobody else has; `docs/08-roadmap.md` says that after a restore "messaging
   resumes in both directions without the user sending first":
   `SessionCrossing.cfg` with `Message = {m1, m3}`, `author <- OneEach`,
   `Starts <- OnlyLower`, `EveryMessageDelivered`. The same goes for the flight that
   upgrades a legacy session. This is why `DeliveredIfFlightsArrive` asks that empty
   flights arrive.
5. When a member leaves a signed group, its owner draws a new secret without a new
   signed state. The announces of its rotated chain fail verification everywhere,
   and the owner can never send again; `docs/08-roadmap.md` says that announces are
   repeated until acknowledged, which "never leaves a member permanently deaf to a
   sender": `Groups.cfg` under `LiveSpec` with `Scenarios <- SignedLeave`,
   `NoMemberStaysDeaf`.
6. `apply_attachment_bulk` looks at the state of a transfer for acknowledgements and
   cancellations, but not for a chunk: one that was under way when the user
   rejected, cancelled or paused sets the transfer to Transferring, and the next
   tick asks for the rest; `docs/adr/0015-encrypted-attachment-pipeline.md` calls
   `Reject` "a durable receiver decision for that manifest until the user changes
   it": `Attachments.cfg` with `RejectionDurable`. The same goes for a request that
   reaches a sender who has cancelled.
7. `pending_all_with_transport` returns the first error, so one pending row that no
   longer decodes fails every tick, while `docs/adr/0028-atomic-protocol-commits.md`
   has it quarantined (`LaterRowsConsidered` of `InboundCustody`, which has the
   damage as an action).
8. A first message recorded from a crossing flight is recorded again when it is
   sealed under the session that won: `SessionHandshake!Spec` with
   `Message = {m1, m3}`, `author <- OneEach`, `Starts <- OnlyFresh`,
   `MAX_COMMIT_QUEUE_ROWS = 6`, `NoDuplicateHistory`.
9. The upgrade of a legacy session leaves the upgrading device's own open copies
   sealed under the old one: `SessionReplaced.cfg` with `Rescans = {}` and
   `OpenCopiesAreCurrent`. This is why `DeliveredIfFlightsArrive` excepts them.
10. A request to remove a member that reaches an owner whose chain is not
    acknowledged by everyone fails the handler, where renaming and inviting refuse;
    with it every later tick fails before the acknowledgements that would cure it
    are read: `Groups.cfg` under `LiveSpec` with `Scenarios <- RemovalAsked`,
    `RequestsDecided`.
11. A device that answered a call which was cancelled or expired, or whose answer
    is lost, shows Connecting until its user hangs up, because `sweep_calls` ends
    only calls that ring or talk; `docs/23-live-audio-calls.md` says that other
    devices end honestly: `Calls.cfg` with `Device = {a, b}`, `OwnerOf <- Pair`,
    `MaxFaults = 0`, `AnswererEnds`. A cancellation that overtakes its offer leaves
    a ring until the offer expires, and an offer that comes expired makes
    `apply_call_control` fail after its row is gone.
12. `finalize_prepared_device_link` installs the proof as it was when the ceremony
    began with the new device added. What the device accepted meanwhile is rolled
    back, a revocation too, while `docs/adr/0026-revocable-device-authority.md` has
    an attempted un-revocation fail closed: `Devices.cfg` with `AuthorityOnlyGrows`.
13. A cancellation by the sender erases what the receiver has complete, where the
    ADR on attachments says that completed media remains until explicit local
    deletion or eviction: `Attachments.cfg` with
    `[][inbound.state = "Complete" /\ commands' = commands => inbound'.state \in {"Complete", "gone"}]_vars`.
14. If a late chunk makes an ended object active while the limits on active
    objects are full, `put_media_object` fails the commit; the record stays and every
    tick fails on it until another transfer ends: `Attachments.cfg` with the
    invariant `~failing`.

Of `Attachments` also: the acknowledgement of a preview alone shows the sender the
whole transfer as Complete (hence the third part of `CompleteIsWhole`); a lost
acknowledgement of the last object is not repeated once the receiver is Complete,
and none is sent for an empty file, so the sender shows Transferring for ever; and
an empty preview that was cancelled is never completed when a late chunk revives
its transfer, which then repeats its acknowledgements until the idle limit pauses
it (`Settles` with a shape whose preview has no chunk).

Of `Devices` also: a target that restarts after it was approved leaves an active
device that nobody has, and that counts for every later majority, because the
ceremony is kept in memory only; when the device in the middle of the star of sync
channels is revoked the others have no channel left; and a revoked device never
learns of it from a sync file, since the store refuses the row.

Two more traces of `SessionHandshake` can be had by changing one constant; both
violate `SessionsAgree`:

- with `restored |-> {2}` in `Starts`, a reset flight of the higher device
  crosses a first flight of the lower one. `decide_inbound_session` has a
  tie-break for `Establish` only: each device takes the other's flight and the
  two end with each other's session (`docs/08-roadmap.md` describes the
  tie-break without this case). Restoring and linking mint a fresh device id, so
  a device with a reset marker never shares a prior session with the other.
- with `Rescans = {2}` and `MaxSession = 3`, the higher device scans again after
  the lower one has taken its session. The renewed flight is an `Establish` that
  meets a session on the lower side, which keeps its own.

## What is not modelled

`PROJECT.json` lists every part. Cryptography is ideal: what is sealed under a
session opens under that session and nowhere else. Codecs, user interface,
network stacks and the external services behind them are not modelled. In the
modelled parts these are left out: the rate windows of the relay; disappearing
messages, group copies and call signals in the queue; presentation events and
their acknowledgement; admission budgets (their verdicts are choices); prekeys;
in groups the fan-out and consumption of messages and several devices per
account; in calls the audio itself; of devices the synchronised state and its
conflict resolution; of attachments the copies for a group, the reconciliation of
files that vanished, exports, and how the limits on active objects count.

Smaller things the definitions leave out, and why the properties do not need them:

- `DeliveryQueue`: a device that was dropped and is listed again later, which would
  find its old records open without rows until the sweep; the retired group copies
  of the same commit.
- `InboundCustody`: the byte budget of a wake collection, which like the other wake
  limits leaves an arrival with its next hop; the rejection of a `Replace` flight whose
  predecessor is not current (in `SessionHandshake`); the manifest check that fails
  the tick (in `Devices`); deferred controls are tried 16 a tick in a stable order,
  here all at once.
- `Groups`: the code counts an acknowledgement only if it names the last copy sent,
  and every repetition draws a new id, so that an answer to an earlier copy is
  ignored; and it tries 16 deferred controls a tick. The model counts and tries
  more, so what it never reaches the code never reaches; for the same reason no
  liveness is claimed of groups, only refuted. Sending a poll is allowed while the
  chain is new and not acknowledged; that send path is not in `group_send`. Names
  are not kept (`observed_admin_request_outcome` compares them).
- `Devices`: restarting a ceremony (`ResealLink`) clears only the source's part; one
  prepared for another ceremony stays usable. `DeviceAuthority`: the kinds
  `ObserveDevice` and `ReplaceDevice`, which no node proposes, and the bound
  `MAX_AUTHORITY_ENTRIES`, without which more is accepted.
- `Calls`: `sweep_calls` ends at most eight calls a tick; the runs have two.
- `Attachments`: a request names at most 64 ranges of chunks; the objects here have
  two chunks. A control for a peer without a session is not sent and tried again.

## Plan

Done: the relay, the receive path, the delivery engine with its abstract
lifecycle, session establishment, groups with their authority, calls, device
authority, pairwise attachments; proofs about all of them.

Next, in this order:

1. `HonestResults` of `Groups` for groups that change their owner, and more of what
   the liveness properties rest on as invariants.
2. Disappearing and scheduled messages: rows dropped at a deadline, tombstones,
   activation after a clock roll-back; attachments in groups.
3. Small sequential parts: admission store, prekey vault, reassembly limits,
   airtime window, skipped message keys, rendezvous back-off, provider directory
   roll-back.
4. A composition of relay, receive path and delivery engine along one message.
