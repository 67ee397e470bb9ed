------------------------------- MODULE Devices -------------------------------
(***************************************************************************)
(* The devices of one account and the contacts that watch them (kult-node  *)
(* devices.rs, the linking ceremony of kult-crypto device_link_authority.rs*)
(* and the parts of lib.rs that take a manifest from a contact).  Devices  *)
(* propose changes of the authority proof, collect each other's approvals  *)
(* and pass the result on in sync files; a contact learns of it from a     *)
(* scanned bundle or from the flight that opens a session.                 *)
(*                                                                         *)
(* Files, bundles, backups and flights are carried by people and carriers: *)
(* each may be used late, more than once or never.  So every one that a    *)
(* device could have made from a state it was ever in is available.        *)
(* History transfer, sync events and their counters are left out, and a    *)
(* contact is an account with one device.                                  *)
(***************************************************************************)
EXTENDS DeviceAuthority

CONSTANTS Recovered,    \* the devices that restores mint
          Contact,
          Starts,       \* sequences of devices linked at the start, the hub first
          MaxSerial,    \* proposals, offers and responses
          MaxInbox,     \* flights staged at a contact
          None

ASSUME DevicesAssumption ==
  /\ Recovered \subseteq Device
  /\ Starts \subseteq Seq(Device \ Recovered)
  /\ \A s \in Starts :
       /\ \A i, j \in 1..Len(s) : s[i] = s[j] => i = j
       /\ Len(s) \in 1..MAX_AUTHORITY_DEVICES
       /\ Len(s) \in 1..MAX_DEVICE_AUTHORITY_TRANSITIONS
       /\ Len(s) - 1 <= MaxSerial
  /\ MaxSerial \in Nat /\ MaxInbox \in Nat

VARIABLES manifest,     \* the proof each device holds; <<>> on a fresh installation
          channels,     \* its sync channels: the peer and the ceremony they came from
          pending,      \* pending_authority_transition with the proof it extends
          source,       \* pending_device_link_source and _prepared
          target,       \* pending_device_link_target
          approvals,    \* detached approvals made so far
          serial,       \* random ids drawn so far
          conflicts,    \* conflicts each device and contact has on record
          past,         \* history: the states each device has been in
          accepted,     \* the proof each contact holds of the account
          sessions,     \* the devices of the account it has a session with
          inbox,        \* first flights in its pending table, oldest first
          tick,         \* how its last tick ended
          gone          \* history: devices it has seen revoked or superseded, each
                        \* with the last epoch it knew the device in

device_vars == <<manifest, channels, pending, source, target, approvals, serial, past>>
contact_vars == <<accepted, sessions, inbox, tick, gone>>
vars == <<manifest, channels, pending, source, target, approvals, serial, conflicts, past,
          accepted, sessions, inbox, tick, gone>>

Channel == [peer: Device, link: 0..MaxSerial]

-------------------------------------------------------------------------------
(* A device's own authority *)

Linked(d) == manifest[d] # <<>>

NextSerial == serial < MaxSerial /\ serial' = serial + 1

\* What the store asks of the row it is to write.
Validates(d, m, links) ==
  /\ d \in Active(m)
  /\ \A ch \in links : ch.peer \in Active(m) \ {d}
  /\ \A ch1, ch2 \in links : ch1.peer = ch2.peer => ch1 = ch2

\* The one commit of a changed state: manifest and channels go together.
CommitState(d, m, links) ==
  /\ Validates(d, m, links)
  /\ manifest' = [manifest EXCEPT ![d] = m]
  /\ channels' = [channels EXCEPT ![d] = links]
  /\ past' = [past EXCEPT ![d] = @ \cup {[manifest |-> m, channels |-> links]}]

ChannelsTo(d, devices) == {ch \in channels[d] : ch.peer \in devices}

\* append, and the channel of a revoked device goes with it.
Apply(d, t) ==
  /\ Appends(manifest[d], t)
  /\ CommitState(d, Append(manifest[d], t), ChannelsTo(d, t.active))

\* rename_linked_device and revoke_linked_device: sign, and apply with a quorum
\* of one or else keep the proposal for approval.
Propose(d, t) ==
  /\ verify_transition(Last(manifest[d]), t, FALSE)
  /\ NextSerial
  /\ \/ /\ has_quorum(Last(manifest[d]), t.approvers)
        /\ Apply(d, t)
        /\ UNCHANGED pending
     \/ /\ ~ has_quorum(Last(manifest[d]), t.approvers)
        /\ pending' = [pending EXCEPT ![d] = [parent |-> manifest[d], transition |-> t]]
        /\ UNCHANGED <<manifest, channels, past>>
  /\ UNCHANGED <<source, target, approvals, conflicts, contact_vars>>

rename_linked_device(d) ==
  Linked(d) /\ Propose(d, propose_rename_device(manifest[d], serial + 1, d))

revoke_linked_device(d, x) ==
  /\ Linked(d) /\ x # d /\ x \in Active(manifest[d])
  /\ Propose(d, propose_revoke_device(manifest[d], serial + 1, x, d))

\* Signed only on the parent the approver holds itself; nothing is recorded, so a
\* device may approve two children of one parent.
Approve(x, parent, t) ==
  /\ Linked(x) /\ parent = manifest[x]
  /\ verify_transition(Last(parent), t, FALSE)
  /\ approvals' = approvals \cup {[id |-> t.id, by |-> x]}
  /\ UNCHANGED <<manifest, channels, pending, source, target, serial, conflicts, past,
                 contact_vars>>

approve_device_authority_request(x, d) ==
  pending[d] # None /\ x # d /\ Approve(x, pending[d].parent, pending[d].transition)

Merges(t, a) == a.id = t.id /\ a.by \notin t.approvers

\* With finalize_pending_device_authority once there is a quorum.
accept_device_authority_approval(d, a) ==
  /\ pending[d] # None
  /\ Merges(pending[d].transition, a) /\ pending[d].parent = manifest[d]
  /\ LET t == merge_approval(pending[d].transition, a.by)
     IN IF has_quorum(Last(manifest[d]), t.approvers)
        THEN Apply(d, t) /\ pending' = [pending EXCEPT ![d] = None]
        ELSE /\ pending' = [pending EXCEPT ![d].transition = t]
             /\ UNCHANGED <<manifest, channels, past>>
  /\ UNCHANGED <<source, target, approvals, serial, conflicts, contact_vars>>

-------------------------------------------------------------------------------
(* Linking *)

begin_device_link(d) ==
  /\ Linked(d) /\ NextSerial
  /\ source' = [source EXCEPT ![d] = [offer |-> serial + 1, parent |-> manifest[d],
                                      prepared |-> None]]
  /\ UNCHANGED <<manifest, channels, pending, target, approvals, conflicts, past,
                 contact_vars>>

\* A fresh installation answers with a certificate and a one-use key of its own.
accept_device_link(t, d) ==
  /\ ~ Linked(t) /\ t \notin Recovered /\ source[d] # None
  /\ NextSerial
  /\ target' = [target EXCEPT ![t] = [from |-> d, offer |-> source[d].offer,
                                      parent |-> source[d].parent, link |-> serial + 1]]
  /\ UNCHANGED <<manifest, channels, pending, source, approvals, conflicts, past,
                 contact_vars>>

\* finalize_prepared_device_link: the proof becomes the one the offer was made
\* from with the new device, whatever this device has accepted since.
FinalizeLink(d, prepared) ==
  /\ Appends(source[d].parent, prepared.transition)
  /\ CommitState(d, Append(source[d].parent, prepared.transition),
                 channels[d] \cup {[peer |-> prepared.target, link |-> prepared.link]})
  /\ source' = [source EXCEPT ![d] = None]

\* Finalize a prepared addition that has a quorum, or keep it for approval.  One
\* that cannot be finalized (the offer has expired, or the store refuses) is lost.
Prepare(d, prepared) ==
  LET quorum == has_quorum(Last(source[d].parent), prepared.transition.approvers)
  IN \/ quorum /\ FinalizeLink(d, prepared)
     \/ /\ source' = [source EXCEPT ![d].prepared = IF quorum THEN None ELSE prepared]
        /\ UNCHANGED <<manifest, channels, past>>

\* The response of a link that is already committed: its package is sealed again.
ResealLink(d, t) ==
  /\ target[t] # None
  /\ [peer |-> t, link |-> target[t].link] \in channels[d]
  /\ source' = [source EXCEPT ![d] = None]
  /\ UNCHANGED <<manifest, channels, pending, target, approvals, serial, conflicts, past,
                 contact_vars>>

approve_device_link(d, t) ==
  /\ source[d] # None /\ target[t] # None
  /\ target[t].from = d /\ target[t].offer = source[d].offer
  /\ \A ch \in channels[d] : ch.peer # t
  /\ t \notin Known(Last(source[d].parent))
  /\ NextSerial
  /\ LET add == propose_add_device(source[d].parent, serial + 1, t, d)
     IN /\ verify_transition(Last(source[d].parent), add, FALSE)
        /\ Prepare(d, [target |-> t, link |-> target[t].link, transition |-> add])
  /\ UNCHANGED <<pending, target, approvals, conflicts, contact_vars>>

Prepared(d) == source[d] # None /\ source[d].prepared # None

approve_device_link_request(x, d) ==
  Prepared(d) /\ x # d /\ Approve(x, source[d].parent, source[d].prepared.transition)

accept_device_link_approval(d, a) ==
  /\ Prepared(d) /\ Merges(source[d].prepared.transition, a)
  /\ Prepare(d, [source[d].prepared EXCEPT !.transition = merge_approval(@, a.by)])
  /\ UNCHANGED <<pending, target, approvals, serial, conflicts, contact_vars>>

\* The package was sealed when the link was committed, or again later from the
\* link recovery row; it opens only in the ceremony it was made for.
complete_device_link(t) ==
  /\ target[t] # None
  /\ \E p \in past[target[t].from] :
       /\ [peer |-> t, link |-> target[t].link] \in p.channels
       /\ Descendant(target[t].parent, p.manifest)
       /\ CommitState(t, p.manifest, {[peer |-> target[t].from, link |-> target[t].link]})
  /\ target' = [target EXCEPT ![t] = None]
  /\ UNCHANGED <<pending, source, approvals, serial, conflicts, contact_vars>>

-------------------------------------------------------------------------------
(* Sync, recovery and restart *)

Evidence(m, candidate) ==
  {[kind |-> kind, accepted |-> m, conflicting |-> candidate] :
     kind \in (IF Fork(m, candidate) THEN {"fork"} ELSE {})
              \cup (IF RecoveryConflict(m, candidate) THEN {"recovery"} ELSE {})}

\* A sync file that s made over the channel both still have.
import_device_sync(d, s, p) ==
  /\ Linked(d) /\ p \in past[s]
  /\ \E ch \in channels[d] :
       ch.peer = s /\ [peer |-> d, link |-> ch.link] \in p.channels
  /\ \/ /\ Descendant(manifest[d], p.manifest)
        /\ CommitState(d, p.manifest, ChannelsTo(d, Active(p.manifest)))
        /\ UNCHANGED conflicts
     \/ /\ ~ Descendant(manifest[d], p.manifest)
        /\ conflicts' = [conflicts EXCEPT ![d] = @ \cup Evidence(manifest[d], p.manifest)]
        /\ UNCHANGED <<manifest, channels, past>>
  /\ UNCHANGED <<pending, source, target, approvals, serial, contact_vars>>

\* restore_authority_backup: a fresh device under the account root, from any backup.
restore_authority_backup(r, m) ==
  /\ r \in Recovered /\ ~ Linked(r)
  /\ Len(m) < MAX_DEVICE_AUTHORITY_TRANSITIONS /\ NextSerial
  /\ CommitState(r, recover(m, serial + 1, r), {})
  /\ UNCHANGED <<pending, source, target, approvals, conflicts, contact_vars>>

\* Proposals and ceremonies are kept in memory only.
Restart(d) ==
  /\ {pending[d], source[d], target[d]} # {None}
  /\ pending' = [pending EXCEPT ![d] = None]
  /\ source' = [source EXCEPT ![d] = None]
  /\ target' = [target EXCEPT ![d] = None]
  /\ UNCHANGED <<manifest, channels, approvals, serial, conflicts, past, contact_vars>>

-------------------------------------------------------------------------------
(* A contact *)

\* Mutant: any proof that verifies replaces the one that is held.
AcceptAny(c, m) == TRUE

\* validate_contact_device_manifest: the same proof, a later one, or a new epoch.
Acceptable(c, m) ==
  m = accepted[c] \/ Descendant(accepted[c], m) \/ RecoverySupersedes(accepted[c], m)

\* Refused proofs leave evidence of a fork or a conflict, and nothing else.
Refuse(c, m) ==
  conflicts' = [conflicts EXCEPT ![c] = @ \cup Evidence(accepted[c], m)]

\* Sessions of revoked devices go, and of those the new proof does not know.
LiveSessions(c, m) == sessions[c] \cap Active(m)

\* apply_contact_device_manifest
AcceptManifest(c, m, live) ==
  /\ accepted' = [accepted EXCEPT ![c] = m]
  /\ sessions' = [sessions EXCEPT ![c] = live]
  /\ gone' = [gone EXCEPT ![c] =
                @ \cup {[device |-> x, epoch |-> recovery_epoch(m)] : x \in Last(m).revoked}
                  \cup {[device |-> x, epoch |-> recovery_epoch(accepted[c])] :
                           x \in Known(Last(accepted[c])) \ Known(Last(m))}]

\* A bundle that d published once is scanned; a changed one drops the session
\* that was never confirmed.
add_contact(c, d, p) ==
  /\ p \in past[d]
  /\ \/ /\ Acceptable(c, p.manifest)
        /\ \E unconfirmed \in {{}, {d}} :
             AcceptManifest(c, p.manifest, LiveSessions(c, p.manifest) \ unconfirmed)
        /\ UNCHANGED conflicts
     \/ /\ ~ Acceptable(c, p.manifest)
        /\ Refuse(c, p.manifest)
        /\ UNCHANGED <<accepted, sessions, gone>>
  /\ UNCHANGED <<device_vars, inbox, tick>>

\* The contact opens a session to a device it takes for active.
prepare_session(c, d) ==
  /\ d \in Active(accepted[c])
  /\ sessions' = [sessions EXCEPT ![c] = @ \cup {d}]
  /\ UNCHANGED <<device_vars, conflicts, accepted, inbox, tick, gone>>

\* A flight that d once sent reaches the pending table.
StageFlight(c, d, p) ==
  /\ p \in past[d] /\ Len(inbox[c]) < MaxInbox
  /\ inbox' = [inbox EXCEPT ![c] = Append(@, [from |-> d, manifest |-> p.manifest])]
  /\ UNCHANGED <<device_vars, conflicts, accepted, sessions, tick, gone>>

\* A flight that waited for PENDING_TTL_SECS goes.
ExpirePending(c) ==
  /\ inbox[c] # <<>>
  /\ inbox' = [inbox EXCEPT ![c] = Tail(@)]
  /\ UNCHANGED <<device_vars, conflicts, accepted, sessions, tick, gone>>

\* The oldest flight: accepted with its manifest and a session, dropped because it
\* would replace a session it does not name, or refused for its manifest; then the
\* tick ends with an error and the flight stays.
consume_handshake(c) ==
  /\ inbox[c] # <<>>
  /\ LET f == Head(inbox[c])
     IN \/ /\ Acceptable(c, f.manifest)
           /\ AcceptManifest(c, f.manifest, LiveSessions(c, f.manifest) \cup {f.from})
           /\ inbox' = [inbox EXCEPT ![c] = Tail(@)]
           /\ tick' = [tick EXCEPT ![c] = "ok"]
           /\ UNCHANGED conflicts
        \/ /\ Acceptable(c, f.manifest)
           /\ inbox' = [inbox EXCEPT ![c] = Tail(@)]
           /\ tick' = [tick EXCEPT ![c] = "ok"]
           /\ UNCHANGED <<conflicts, accepted, sessions, gone>>
        \/ /\ ~ Acceptable(c, f.manifest)
           /\ Refuse(c, f.manifest)
           /\ tick' = [tick EXCEPT ![c] = "failed"]
           /\ UNCHANGED <<accepted, sessions, inbox, gone>>
  /\ UNCHANGED device_vars

-------------------------------------------------------------------------------
(* Every addition approved by all devices before it; a star of channels. *)
StartManifest(s) ==
  [i \in 1..Len(s) |->
     [kind |-> IF i = 1 THEN "genesis" ELSE "add", id |-> i - 1, epoch |-> 0,
      active |-> {s[j] : j \in 1..i}, revoked |-> {},
      approvers |-> {s[j] : j \in 1..(i - 1)}]]

StartChannels(s, d) ==
  {[peer |-> x, link |-> 0] : x \in IF d = s[1] THEN Range(s) \ {d} ELSE {s[1]}}

Init ==
  /\ \E s \in Starts :
       LET held(d) == IF d \in Range(s) THEN StartManifest(s) ELSE <<>>
           links(d) == IF d \in Range(s) THEN StartChannels(s, d) ELSE {}
       IN /\ manifest = [d \in Device |-> held(d)]
          /\ channels = [d \in Device |-> links(d)]
          /\ past = [d \in Device |-> IF d \in Range(s)
                       THEN {[manifest |-> held(d), channels |-> links(d)]} ELSE {}]
          /\ accepted = [c \in Contact |-> StartManifest(s)]
          /\ serial = Len(s) - 1
  /\ pending = [d \in Device |-> None]
  /\ source = [d \in Device |-> None]
  /\ target = [d \in Device |-> None]
  /\ approvals = {}
  /\ conflicts = [x \in Device \cup Contact |-> {}]
  /\ sessions = [c \in Contact |-> {}]
  /\ inbox = [c \in Contact |-> <<>>]
  /\ tick = [c \in Contact |-> "ok"]
  /\ gone = [c \in Contact |-> {}]

Next ==
  \/ \E d \in Device : rename_linked_device(d) \/ begin_device_link(d)
                       \/ complete_device_link(d) \/ Restart(d)
  \/ \E d, x \in Device :
       \/ revoke_linked_device(d, x)
       \/ approve_device_authority_request(x, d) \/ approve_device_link_request(x, d)
       \/ accept_device_link(x, d) \/ approve_device_link(d, x) \/ ResealLink(d, x)
       \/ \E p \in past[x] : import_device_sync(d, x, p)
       \/ \E p \in past[x] : restore_authority_backup(d, p.manifest)
  \/ \E d \in Device, a \in approvals :
       accept_device_authority_approval(d, a) \/ accept_device_link_approval(d, a)
  \/ \E c \in Contact, d \in Device :
       \/ prepare_session(c, d)
       \/ \E p \in past[d] : add_contact(c, d, p) \/ StageFlight(c, d, p)
  \/ \E c \in Contact : consume_handshake(c) \/ ExpirePending(c)

Spec == Init /\ [][Next]_vars

-------------------------------------------------------------------------------
(* Properties *)

\* Every proof a device has ever held.
Proofs == UNION {{p.manifest : p \in past[d]} : d \in Device}

\* Every proof in use verifies, and every device row passes the check of the store
\* (DeviceAuthorityStateRecord::validate): the device itself and the peers of all
\* its channels are active in its proof.
TypeOK ==
  /\ \A d \in Device : channels[d] \subseteq Channel
  /\ \A d \in Device : Linked(d) =>
       /\ manifest[d] \in Seq(Transition) /\ verify(manifest[d])
       /\ Validates(d, manifest[d], channels[d])
       /\ [manifest |-> manifest[d], channels |-> channels[d]] \in past[d]
  /\ \A d \in Device : pending[d] # None =>
       pending[d].parent \in Proofs /\ pending[d].transition \in Transition
  /\ \A d \in Device : source[d] # None => source[d].parent \in Proofs
  /\ \A d \in Device : target[d] # None => target[d].parent \in Proofs /\ ~ Linked(d)
  /\ approvals \subseteq [id: 1..MaxSerial, by: Device]
  /\ serial \in 0..MaxSerial
  /\ \A c \in Contact : accepted[c] \in Proofs
  /\ sessions \in [Contact -> SUBSET Device]
  /\ gone \in [Contact -> SUBSET [device: Device, epoch: Nat]]
  /\ \A c \in Contact : Len(inbox[c]) <= MaxInbox
  /\ tick \in [Contact -> {"ok", "failed"}]

\* Where two proofs of one account part by the decision of devices, some device has
\* signed both ways (the strict majority of verify_transition): authority cannot
\* split between devices that each approved one side only.
ForksShareASigner ==
  \A m1, m2 \in Proofs : \A i \in 2..Len(m1) :
    /\ i <= Len(m2) /\ SubSeq(m1, 1, i - 1) = SubSeq(m2, 1, i - 1)
    /\ m1[i] # m2[i] /\ {m1[i].kind, m2[i].kind} \subseteq Ordinary
    => m1[i].approvers \cap m2[i].approvers # {}

\* The proof has a state of a later epoch that does not know the device: if it does
\* now, the devices of that epoch have linked it anew.
ForgottenSince(m, g) == \E i \in 1..Len(m) : m[i].epoch > g.epoch /\ g.device \notin Known(m[i])

\* A contact has sessions with active devices only, and a device that it has seen
\* revoked, or superseded by a recovery that does not know it, is never active there
\* again, however late its flights and bundles arrive and whichever side of a fork
\* they come from.  The one way back is a link to the account as recovered from a
\* backup made before the device was known (validate_contact_device_manifest).
RevokedStaysOut ==
  \A c \in Contact : /\ sessions[c] \subseteq Active(accepted[c])
                     /\ \A g \in gone[c] : g.device \in Active(accepted[c])
                                             => ForgottenSince(accepted[c], g)

\* The comment of consume_handshake: a flight that cannot be used is dropped and
\* never wedges the queue, so no tick fails because of one.
NeverWedged == \A c \in Contact : tick[c] = "ok"

\* A device's own proof only grows (ADR-0026: an attempted un-revocation fails
\* closed).  It does not hold while a link is under way, see FinalizeLink.
AuthorityOnlyGrows ==
  [][\A d \in Device : Linked(d) => \/ manifest'[d] = manifest[d]
                                    \/ Descendant(manifest[d], manifest'[d])]_vars

===============================================================================
