-------------------------------- MODULE Groups --------------------------------
(***************************************************************************)
(* One group over pairwise sessions (kult-node groups.rs and authority.rs):*)
(* every member encrypts under a chain of its own, tells it to each other  *)
(* member in an announce that is repeated until acknowledged, and rotates  *)
(* it whenever the roster changes.  The roster is the creator's by         *)
(* convention or, once upgraded, a signed state every replica checks.      *)
(*                                                                         *)
(* Each account has one device, all devices have sessions and every        *)
(* capability, so a sender chain always carries recipient origins.         *)
(* Chain keys and secrets are <<node, serial>>.  Announces and their       *)
(* acknowledgements may be lost, any control may overtake any other; a     *)
(* resend is told from its original by nothing.  A control that cannot be  *)
(* applied yet is kept and tried again by every later tick.                *)
(***************************************************************************)
EXTENDS GroupAuthority, FiniteSetsExt

CONSTANTS Founder,      \* creates the group
          Scenarios,    \* the group at the start, and how often each command is given
          GROUP_ROTATE_MSGS,
          NoGroup, NoChain

\* User commands, and events from outside; every one is bounded.
Command == {"create", "send", "add", "remove", "leave", "rename", "role", "transfer",
            "upgrade", "session", "delete", "lose"}

ASSUME GroupsAssumption ==
  /\ IsFiniteSet(Node) /\ Founder \in Node
  /\ \A s \in Scenarios :
       /\ s.start \in {"none", "plain", "signed"}
       /\ Founder \in s.members /\ s.members \subseteq Node
       /\ s.admins \subseteq s.members \ {Founder}
       /\ s.budget \in [Command -> Nat]
  /\ GROUP_ROTATE_MSGS \in Nat \ {0}

VARIABLES group,        \* GroupRecord of each node, or NoGroup
          authority,    \* its signed state, or NoState
          consumed,     \* the admin requests it has decided
          chains,       \* the receiving chain it holds of each other node
          deferred,     \* the controls it keeps for a later tick
          net,          \* controls and acknowledgements in flight
          mints,        \* keys and secrets drawn so far
          states,       \* ids of the signed states made so far
          budget,
          sealed,       \* history: what was encrypted, under which key, for whom
          seen,         \* history: the chain keys that reached each node
          asked,        \* history: the admin requests made
          applied,      \* history: the ids of those that changed the state
          resolved      \* history: the results shown to the requester

vars == <<group, authority, consumed, chains, deferred, net, mints, states, budget,
          sealed, seen, asked, applied, resolved>>
history == <<asked, applied, resolved>>

Serial == Node \X Nat

Record == [creator: Node, members: SUBSET Node, secret: Serial, prev: SUBSET Serial,
           generation: Nat, key: Serial, origin: Nat, acked: SUBSET Node,
           sent: 0..GROUP_ROTATE_MSGS]

ASSUME NoGroupAssumption == NoGroup \notin Record
ASSUME NoStateAssumption == NoState \notin AuthorityState(Serial)

-------------------------------------------------------------------------------
(* Sender state *)

\* rotate_group_origin: a fresh chain that nobody has acknowledged.
Rotated(n, rec, i) ==
  [rec EXCEPT !.key = <<n, mints[n] + i>>, !.origin = @ + 1, !.acked = {}, !.sent = 0]

\* An invitee's record holds a legacy chain until it is rotated at once.
NewRecord(n, creator, members, secret, generation) ==
  Rotated(n, [creator |-> creator, members |-> members, secret |-> secret, prev |-> {},
              generation |-> generation, key |-> <<n, 0>>, origin |-> 0, acked |-> {},
              sent |-> 0], 1)

Others(n) == group[n].members \ {n}

\* GroupSecurityLevel::RecipientAuthenticated
RecipientAuthenticated(n) ==
  \A m \in Others(n) : m \in group[n].acked /\ chains[n][m] # NoChain

Draw(n, k) == mints' = [mints EXCEPT ![n] = @ + k]

Spend(command) ==
  /\ budget[command] > 0
  /\ budget' = [budget EXCEPT ![command] = @ - 1]

\* A spent chain rotates before it encrypts anything else.
Sender(n) ==
  IF group[n].sent >= GROUP_ROTATE_MSGS THEN Rotated(n, group[n], 1) ELSE group[n]

Seal(n) ==
  sealed' = sealed \cup {[from |-> n, key |-> Sender(n).key, to |-> group[n].members]}

\* The one send path: refused until every recipient is authenticated.
group_send(n) ==
  /\ Spend("send")
  /\ group[n] # NoGroup /\ RecipientAuthenticated(n)
  /\ group' = [group EXCEPT ![n] = [Sender(n) EXCEPT !.sent = @ + 1]]
  /\ Seal(n)
  /\ Draw(n, IF Sender(n) = group[n] THEN 0 ELSE 1)
  /\ UNCHANGED <<authority, consumed, chains, deferred, net, states, seen, history>>

\* What the store asks of the rows a plan leaves behind.
valid_group_record(n) ==
  group[n] # NoGroup => group[n].members # {} /\ group[n].acked \subseteq group[n].members
validate_group_state(n) ==
  /\ \A m \in Node : chains[n][m] # NoChain => group[n] # NoGroup /\ m \in group[n].members
  /\ authority[n] # NoState => group[n] # NoGroup

-------------------------------------------------------------------------------
(* The signed state at the owner *)

\* Random ids: the first of a generation, then one below or above the others.
Ranks(generation) ==
  LET taken == {id[2] : id \in {s \in states : s[1] = generation}}
  IN IF taken = {} THEN {0} ELSE {Min(taken) - 1, Max(taken) + 1}

\* commit_authority_state_signed_by with the send that carries it: one commit of
\* the message under the old chain, the new state, roster, secret and chain.
CommitState(n, next, rank) ==
  LET s == [next EXCEPT !.rank = rank]
  IN /\ group[n] # NoGroup /\ RecipientAuthenticated(n)
     /\ rank \in Ranks(s.generation)
     /\ states' = states \cup {StateId(s)}
     /\ authority' = [authority EXCEPT ![n] = s]
     /\ group' = [group EXCEPT ![n] =
          Rotated(n, [Sender(n) EXCEPT !.prev = {group[n].secret}, !.secret = s.secret,
                        !.creator = s.owner, !.generation = s.generation,
                        !.members = Members(s)], 2)]
     /\ chains' = [chains EXCEPT ![n] =
          [m \in Node |-> IF m \in group[n].members \ Members(s) THEN NoChain ELSE @[m]]]
     /\ Seal(n)
     /\ Draw(n, 2)

Secret(n) == <<n, mints[n] + 2>>

Owns(n) == authority[n] # NoState /\ authority[n].owner = n

AuthorityRemove(n, m, s) == [kind |-> "expel", from |-> n, to |-> m, state |-> s]

\* A signed change by its owner: the command's new members, one generation on.
OwnerCommits(n, next) ==
  /\ Owns(n)
  /\ \E rank \in Ranks(authority[n].generation + 1) : CommitState(n, next, rank)
  /\ UNCHANGED <<consumed, deferred, seen, history>>

Next1(n, changed) == prepare_next_state(changed, Secret(n))

group_upgrade_authority(n) ==
  /\ Spend("upgrade")
  /\ group[n] # NoGroup /\ authority[n] = NoState /\ group[n].creator = n
  /\ CommitState(n, FirstState(n, group[n].members, group[n].generation, Secret(n)), 0)
  /\ UNCHANGED <<consumed, deferred, net, seen, history>>

group_set_role(n) ==
  /\ Spend("role")
  /\ Owns(n)
  /\ \E m \in Members(authority[n]) \ {n}, r \in {"member", "admin"} :
       /\ authority[n].role[m] # r
       /\ OwnerCommits(n, Next1(n, SetRole(authority[n], m, r)))
  /\ UNCHANGED net

group_transfer_owner(n) ==
  /\ Spend("transfer")
  /\ Owns(n)
  /\ \E m \in Members(authority[n]) \ {n} :
       OwnerCommits(n, Transferred(authority[n], m, Secret(n)))
  /\ UNCHANGED net

\* An admin signs a request against the generation it knows and queues it to
\* the owner it knows.
queue_admin_request(n, action, m) ==
  LET request == [kind |-> "request", from |-> n, to |-> authority[n].owner,
                  id |-> <<n, Cardinality(asked) + 1>>,
                  base |-> authority[n].generation, action |-> action, target |-> m]
  IN /\ authority[n].role[n] = "admin"
     /\ asked' = asked \cup {request}
     /\ net' = net \cup {request}
     /\ UNCHANGED <<group, authority, consumed, chains, deferred, mints, states, sealed,
                    seen, applied, resolved>>

\* Rename stands for every change that leaves the members alone.
group_rename(n) ==
  /\ Spend("rename")
  /\ authority[n] # NoState
  /\ \/ OwnerCommits(n, Next1(n, authority[n])) /\ UNCHANGED net
     \/ queue_admin_request(n, "rename", n)

group_authority_add_member(n, m) ==
  \/ /\ m \notin Members(authority[n])
     /\ OwnerCommits(n, Next1(n, Admitted(authority[n], m)))
     /\ UNCHANGED net
  \/ queue_admin_request(n, "invite", m)

\* The notice to the removed member is queued by a commit of its own, which a
\* crash may prevent.
group_authority_remove_member(n, m) ==
  \/ /\ OwnerCommits(n, Next1(n, Expelled(authority[n], m)))
     /\ \/ net' = net \cup {AuthorityRemove(n, m, authority'[n])}
        \/ UNCHANGED net
  \/ /\ authority[n].role[m] = "member"
     /\ queue_admin_request(n, "remove", m)

-------------------------------------------------------------------------------
(* Other commands *)

create_group(n) ==
  /\ Spend("create")
  /\ n = Founder /\ mints[n] = 0
  /\ \E ms \in SUBSET Node :
       /\ n \in ms
       /\ group' = [group EXCEPT ![n] = NewRecord(n, n, ms, <<n, 1>>, 1)]
  /\ Draw(n, 1)
  /\ UNCHANGED <<authority, consumed, chains, deferred, net, states, sealed, seen, history>>

\* By convention the creator alone writes the roster, whoever is acknowledged.
AddPlain(n, m) ==
  /\ group[n].creator = n
  /\ group' = [group EXCEPT ![n] =
       Rotated(n, [group[n] EXCEPT !.members = @ \cup {m}, !.generation = @ + 1], 1)]
  /\ Draw(n, 1)
  /\ UNCHANGED <<authority, consumed, chains, deferred, net, states, sealed, seen, history>>

group_add(n) ==
  /\ Spend("add")
  /\ group[n] # NoGroup
  /\ \E m \in Node \ group[n].members :
       IF authority[n] # NoState THEN group_authority_add_member(n, m) ELSE AddPlain(n, m)

Rekeyed(n, rec) == [rec EXCEPT !.generation = @ + 1, !.prev = {rec.secret},
                               !.secret = <<n, mints[n] + 1>>]

RemovePlain(n, m) ==
  /\ group[n].creator = n
  /\ group' = [group EXCEPT ![n] =
       Rotated(n, Rekeyed(n, [group[n] EXCEPT !.members = @ \ {m}]), 1)]
  /\ chains' = [chains EXCEPT ![n][m] = NoChain]
  /\ \/ net' = net \cup {[kind |-> "remove", from |-> n, to |-> m]}
     \/ UNCHANGED net
  /\ Draw(n, 1)
  /\ UNCHANGED <<authority, consumed, deferred, states, sealed, seen, history>>

group_remove(n) ==
  /\ Spend("remove")
  /\ group[n] # NoGroup
  /\ \E m \in Others(n) :
       IF authority[n] # NoState
         THEN /\ m \in Members(authority[n]) \ {authority[n].owner}
              /\ group_authority_remove_member(n, m)
         ELSE RemovePlain(n, m)

\* Mutant: the signed state outlives the record.
DropRecordOnly(n) ==
  /\ group' = [group EXCEPT ![n] = NoGroup]
  /\ chains' = [chains EXCEPT ![n] = [m \in Node |-> NoChain]]
  /\ UNCHANGED <<authority, consumed>>

\* commit_group_removal: the record, its authority and every chain go together.
DropGroup(n) ==
  /\ group' = [group EXCEPT ![n] = NoGroup]
  /\ authority' = [authority EXCEPT ![n] = NoState]
  /\ consumed' = [consumed EXCEPT ![n] = {}]
  /\ chains' = [chains EXCEPT ![n] = [m \in Node |-> NoChain]]

\* The owner of a signed group cannot leave.  A crash loses the notices not
\* yet queued, so any of them may be sent.
group_leave(n) ==
  /\ Spend("leave")
  /\ group[n] # NoGroup /\ ~Owns(n)
  /\ DropGroup(n)
  /\ \E told \in SUBSET Others(n) :
       net' = net \cup {[kind |-> "leave", from |-> n, to |-> m] : m \in told}
  /\ UNCHANGED <<deferred, mints, states, sealed, seen, history>>

\* A new pairwise session with a member voids every origin capability.
prepare_groups_on_session_established(n) ==
  /\ Spend("session")
  /\ group[n] # NoGroup /\ Others(n) # {}
  /\ group' = [group EXCEPT ![n] = Rotated(n, @, 1)]
  /\ Draw(n, 1)
  /\ UNCHANGED <<authority, consumed, chains, deferred, net, states, sealed, seen, history>>

-------------------------------------------------------------------------------
(* Announces *)

AnnounceOf(n, m) ==
  LET rec == group[n]
  IN IF authority[n] = NoState
     THEN [kind |-> "announce", from |-> n, to |-> m, secret |-> rec.secret,
           key |-> rec.key, origin |-> rec.origin, creator |-> rec.creator,
           generation |-> rec.generation,
           members |-> IF rec.creator = n THEN rec.members ELSE {}]
     ELSE [kind |-> "signed", from |-> n, to |-> m, secret |-> rec.secret,
           key |-> rec.key, origin |-> rec.origin, state |-> authority[n]]

Announces == {"announce", "signed"}

\* admit_group_control keeps one invitation to an unknown group at a time.
IsInvitation(n, c) ==
  /\ c.kind \in Announces /\ group[n] = NoGroup
  /\ IF c.kind = "announce"
       THEN c.creator = c.from /\ {n, c.from} \subseteq c.members
       ELSE /\ {n, c.from} \subseteq Members(c.state)
            /\ verify_authority_state(c.state, c.secret)

admit_group_control(n, c) ==
  ~(IsInvitation(n, c) /\ \E d \in deferred[n] : IsInvitation(n, d))

\* What becomes of a control: gone, its answers sent; or kept for a later tick.
Done(n, c, out) ==
  /\ net' = (net \ {c}) \cup out
  /\ deferred' = [deferred EXCEPT ![n] = @ \ {c}]
Keep(n, c) ==
  /\ net' = net \ {c}
  /\ deferred' = [deferred EXCEPT ![n] = @ \cup {c}]
  /\ UNCHANGED <<group, authority, consumed, chains, mints, states, sealed, applied, resolved>>
Discard(n, c) ==
  /\ Done(n, c, {})
  /\ UNCHANGED <<group, authority, consumed, chains, mints, states, sealed, applied, resolved>>

Ack(n, c) == [kind |-> "ack", from |-> n, to |-> c.from, key |-> c.key]

\* prepare_group_receiver_chain: only a later origin generation replaces a chain.
ReceiverChain(n, c) ==
  IF chains[n][c.from] = NoChain \/ c.origin > chains[n][c.from].origin
    THEN [key |-> c.key, origin |-> c.origin]
    ELSE chains[n][c.from]

\* The announce's chain is stored with the record it leaves behind; it is
\* acknowledged when it is the one now held.
Install(n, c, rec) ==
  /\ group' = [group EXCEPT ![n] = rec]
  /\ chains' = [chains EXCEPT ![n] =
       [m \in Node |-> IF m = c.from THEN ReceiverChain(n, c)
                       ELSE IF group[n] # NoGroup /\ m \in group[n].members \ rec.members
                       THEN NoChain ELSE @[m]]]
  /\ Done(n, c, IF ReceiverChain(n, c).key = c.key THEN {Ack(n, c)} ELSE {})
  /\ UNCHANGED <<states, sealed, applied, resolved>>

RemoveMe(n, c) ==
  /\ DropGroup(n)
  /\ Done(n, c, {})
  /\ UNCHANGED <<mints, states, sealed, applied, resolved>>

\* The roster half counts only from the creator and only when newer.
Newer(n, c) == c.from = group[n].creator /\ c.generation > group[n].generation

\* The chain half counts from any current member.
apply_group_announce(n, c) ==
  LET rec == group[n]
      rekeyed == IF rec.secret = c.secret THEN rec
                 ELSE [rec EXCEPT !.prev = {rec.secret}, !.secret = c.secret]
      adopted == Rotated(n, [rekeyed EXCEPT !.members = c.members,
                                            !.generation = c.generation], 1)
  IN \/ /\ Newer(n, c) /\ n \notin c.members
        /\ RemoveMe(n, c)
     \/ /\ Newer(n, c) /\ n \in c.members
        /\ Install(n, c, adopted)
        /\ Draw(n, 1)
        /\ UNCHANGED <<authority, consumed>>
     \/ /\ ~Newer(n, c)
        /\ Install(n, c, rec)
        /\ UNCHANGED <<authority, consumed, mints>>

\* Taking a signed state: roster, secret and chain follow it at once.
AdoptState(n, c, rec) ==
  /\ Install(n, c, Rotated(n, [rec EXCEPT
       !.prev = IF rec.secret = c.secret THEN {} ELSE {rec.secret}, !.secret = c.secret,
       !.creator = c.state.owner, !.generation = c.state.generation,
       !.members = Members(c.state)], 1))
  /\ authority' = [authority EXCEPT ![n] = c.state]
  /\ Draw(n, 1)
  /\ UNCHANGED consumed

\* Whether a replica may take the state, and does: it has none, or the state
\* wins over the one it has.
Acceptable(n, s) ==
  IF authority[n] # NoState THEN Eligible(s, authority[n])
  ELSE group[n] # NoGroup => group[n].creator = s.original_owner
\* Mutant: whatever is signed is taken.
AdoptsAny(n, s) == TRUE

Adopts(n, s) == authority[n] # NoState => Supersedes(s, authority[n])

ValidAnnounce(c) == c.from \in Members(c.state) /\ verify_authority_state(c.state, c.secret)
Holds(n, s) == authority[n] # NoState /\ StateId(authority[n]) = StateId(s)

\* A losing or older state is dropped with the chain that came with it.
apply_authority_announce(n, c) ==
  LET s == c.state
      valid == ValidAnnounce(c) /\ Acceptable(n, s)
  IN \/ ~(valid /\ (Adopts(n, s) \/ Holds(n, s))) /\ Discard(n, c)
     \/ valid /\ Adopts(n, s) /\ AdoptState(n, c, group[n])
     \/ /\ valid /\ ~Adopts(n, s) /\ Holds(n, s)
        /\ Install(n, c, group[n])
        /\ UNCHANGED <<authority, consumed, mints>>

\* The announces a node cannot use yet: of a group it does not have, of a
\* roster without it, or from someone not in its roster.
Waits(n, c) ==
  CASE c.kind = "announce" ->
         group[n] # NoGroup => ~Newer(n, c) /\ c.from \notin group[n].members
    [] c.kind = "signed" ->
         /\ ValidAnnounce(c)
         /\ IF n \notin Members(c.state) THEN TRUE
            ELSE /\ Acceptable(n, c.state)
                 /\ IF Adopts(n, c.state) THEN group[n] = NoGroup
                    ELSE Holds(n, c.state) /\ c.from \notin group[n].members
    [] OTHER -> FALSE

\* accept_group_invitation runs the announce as one that may found the group.
accept_group_invitation(n, c) ==
  /\ IsInvitation(n, c)
  /\ IF c.kind = "announce"
       THEN /\ Install(n, c, NewRecord(n, c.creator, c.members, c.secret, c.generation))
            /\ Draw(n, 1)
            /\ UNCHANGED <<authority, consumed>>
       ELSE AdoptState(n, c, [creator |-> c.state.owner, members |-> Members(c.state),
              secret |-> c.secret, prev |-> {}, generation |-> c.state.generation,
              key |-> <<n, 0>>, origin |-> 0, acked |-> {}, sent |-> 0])
  /\ UNCHANGED <<budget, seen, asked>>

\* Mutant: an acknowledgement counts for whatever chain is in use.
AckAnyChain(n, c) ==
  /\ net' = net \ {c}
  /\ group' = IF group[n] # NoGroup THEN [group EXCEPT ![n].acked = @ \cup {c.from}] ELSE group
  /\ UNCHANGED <<authority, consumed, chains, deferred, mints, states, sealed, applied, resolved>>

\* prepare_group_origin_ack
apply_ack(n, c) ==
  /\ net' = net \ {c}
  /\ group' = IF group[n] # NoGroup /\ group[n].key = c.key
                THEN [group EXCEPT ![n].acked = @ \cup {c.from}]
                ELSE group
  /\ UNCHANGED <<authority, consumed, chains, deferred, mints, states, sealed, applied, resolved>>

-------------------------------------------------------------------------------
(* Notices *)

\* Mutant: survivors forget the leaver and keep their chain.
LeaveWithoutRotation(n, c) ==
  IF group[n] = NoGroup \/ c.from \notin group[n].members THEN Discard(n, c)
  ELSE /\ group' = [group EXCEPT ![n].members = @ \ {c.from}, ![n].acked = @ \ {c.from}]
       /\ chains' = [chains EXCEPT ![n][c.from] = NoChain]
       /\ Done(n, c, {})
       /\ UNCHANGED <<authority, consumed, mints, states, sealed, applied, resolved>>

\* Every survivor rotates; the creator also takes a fresh secret.
apply_group_leave(n, c) ==
  IF group[n] = NoGroup \/ c.from \notin group[n].members THEN Discard(n, c)
  ELSE LET left == [group[n] EXCEPT !.members = @ \ {c.from}]
       IN /\ group' = [group EXCEPT ![n] =
               Rotated(n, IF left.creator = n THEN Rekeyed(n, left) ELSE left, 1)]
          /\ chains' = [chains EXCEPT ![n][c.from] = NoChain]
          /\ Done(n, c, {})
          /\ Draw(n, 1)
          /\ UNCHANGED <<authority, consumed, states, sealed, applied, resolved>>

apply_group_remove_notice(n, c) ==
  IF group[n] = NoGroup \/ c.from # group[n].creator THEN Discard(n, c) ELSE RemoveMe(n, c)

\* A removal is a signed state too, and must win like any other.
apply_authority_remove(n, c) ==
  LET s == c.state
  IN IF /\ s.signer = c.from /\ n \notin Members(s) /\ validate_state(s)
        /\ authority[n] # NoState => Eligible(s, authority[n]) /\ Supersedes(s, authority[n])
        /\ group[n] # NoGroup
     THEN RemoveMe(n, c) ELSE Discard(n, c)

-------------------------------------------------------------------------------
(* Admin requests at the owner *)

Result(n, c, accepted) ==
  [kind |-> "result", from |-> n, to |-> c.from, id |-> c.id, accepted |-> accepted]

\* finish_admin_request: the decision, its answer and the end of the control
\* are one commit.
Finish(n, c, accepted) ==
  /\ consumed' = [consumed EXCEPT ![n] = @ \cup {c.id}]
  /\ Done(n, c, {Result(n, c, accepted)})
  /\ UNCHANGED <<group, authority, chains, mints, states, sealed, applied, resolved>>

\* Mutant: a request found decided is taken for one that was refused.
OutcomeRefused(s, c) == FALSE

\* What a decided request must have done, read off the state it left.
observed_admin_request_outcome(s, c) ==
  CASE c.action = "rename" -> s.generation > c.base
    [] c.action = "invite" -> c.target \in Members(s)
    [] c.action = "remove" -> c.target \notin Members(s)

\* The state changes with the request marked decided; the notice of a removal
\* and the answer are commits of their own and a crash may come before each.
\* Then the control is still there and the next tick finds it decided.
CommitRequest(n, c) ==
  LET s == authority[n]
      next == CASE c.action = "rename" -> s
                [] c.action = "invite" -> Admitted(s, c.target)
                [] c.action = "remove" -> Expelled(s, c.target)
  IN /\ \E rank \in Ranks(s.generation + 1) : CommitState(n, Next1(n, next), rank)
     /\ consumed' = [consumed EXCEPT ![n] = @ \cup {c.id}]
     /\ applied' = applied \cup {c.id}
     /\ LET notice == IF c.action = "remove"
                        THEN {AuthorityRemove(n, c.target, authority'[n])} ELSE {}
        IN \/ Done(n, c, notice \cup {Result(n, c, TRUE)})
           \/ \E out \in {{}, notice} :
                /\ net' = (net \ {c}) \cup out
                /\ deferred' = [deferred EXCEPT ![n] = @ \cup {c}]
     /\ UNCHANGED resolved

Authorized(n, c) ==
  LET s == authority[n]
  IN s.owner = n /\ c.base = s.generation /\ s.role[c.from] = "admin"

\* The target of a removal is a plain member of the state the request names.
Removable(n, c) == c.target \in Members(authority[n]) \ {authority[n].owner}

apply_group_admin_request(n, c) ==
  \/ authority[n] = NoState /\ Discard(n, c)
  \/ /\ authority[n] # NoState /\ c.id \in consumed[n]
     /\ Finish(n, c, observed_admin_request_outcome(authority[n], c))
  \/ /\ authority[n] # NoState /\ c.id \notin consumed[n] /\ ~Authorized(n, c)
     /\ Finish(n, c, FALSE)
  \/ /\ authority[n] # NoState /\ c.id \notin consumed[n] /\ Authorized(n, c)
     /\ \/ c.action = "invite" /\ c.target \in Members(authority[n]) /\ Finish(n, c, TRUE)
        \/ c.action = "remove" /\ ~Removable(n, c) /\ Finish(n, c, FALSE)
        \/ /\ c.action = "remove" => Removable(n, c)
           /\ c.action = "invite" => c.target \notin Members(authority[n])
           /\ RecipientAuthenticated(n)
           /\ CommitRequest(n, c)
        \/ /\ c.action # "remove" /\ ~RecipientAuthenticated(n)
           /\ Finish(n, c, FALSE)

\* The result counts from the owner the requester knows.
apply_group_admin_result(n, c) ==
  /\ resolved' = IF c.from = (IF authority[n] # NoState THEN authority[n].owner
                              ELSE group[n].creator)
                   THEN resolved \cup {[id |-> c.id, accepted |-> c.accepted]}
                   ELSE resolved
  /\ Done(n, c, {})
  /\ UNCHANGED <<group, authority, consumed, chains, mints, states, sealed, applied>>

\* A handler that fails fails the tick it runs in: a removal asked of an owner
\* whose recipients are not all authenticated, a result for a group that is gone.
Fails(n, c) ==
  \/ /\ c.kind = "request" /\ c.action = "remove"
     /\ authority[n] # NoState /\ c.id \notin consumed[n] /\ Authorized(n, c)
     /\ Removable(n, c) /\ ~RecipientAuthenticated(n)
  \/ c.kind = "result" /\ group[n] = NoGroup

apply_group_control(n, c) ==
  \/ Waits(n, c) /\ Keep(n, c)
  \/ c.kind = "announce" /\ ~Waits(n, c) /\ apply_group_announce(n, c)
  \/ c.kind = "signed" /\ ~Waits(n, c) /\ apply_authority_announce(n, c)
  \/ c.kind = "leave" /\ apply_group_leave(n, c)
  \/ c.kind = "remove" /\ apply_group_remove_notice(n, c)
  \/ c.kind = "expel" /\ apply_authority_remove(n, c)
  \/ c.kind = "request" /\ ~Fails(n, c) /\ apply_group_admin_request(n, c)
  \/ c.kind = "result" /\ ~Fails(n, c) /\ apply_group_admin_result(n, c)
  \/ Fails(n, c) /\ Keep(n, c)

-------------------------------------------------------------------------------
(* The tick *)

\* apply_deferred_controls runs first and its error ends the tick: the rest of
\* the tick is reached only when every kept control has been tried and waits.
TickRuns(n) == \A c \in deferred[n] : Waits(n, c)

\* An announce is owed to every member that has not acknowledged this chain,
\* and is sent again once its last copy is gone.
tick_groups(n) ==
  LET owed == {AnnounceOf(n, m) : m \in Others(n) \ group[n].acked}
  IN /\ group[n] # NoGroup /\ TickRuns(n)
     /\ owed \ net # {}
     /\ net' = net \cup owed
     /\ UNCHANGED <<group, authority, consumed, chains, deferred, mints, states, budget,
                    sealed, seen, history>>

\* A control arrives, is kept with its content id and applied in the same tick.
Receive(n, c) ==
  /\ c \in net /\ c.to = n /\ TickRuns(n)
  /\ seen' = IF c.kind \in Announces THEN [seen EXCEPT ![n] = @ \cup {c.key}] ELSE seen
  /\ \/ c.kind = "ack" /\ apply_ack(n, c)
     \/ c.kind # "ack" /\ admit_group_control(n, c) /\ apply_group_control(n, c)
     \/ c.kind # "ack" /\ ~admit_group_control(n, c) /\ Discard(n, c)
  /\ UNCHANGED <<budget, asked>>

apply_deferred_controls(n, c) ==
  /\ c \in deferred[n] /\ ~Fails(n, c) /\ ~Waits(n, c)
  /\ apply_group_control(n, c)
  /\ UNCHANGED <<budget, seen, asked>>

\* delete_group_invitation by the user, or sweep_group_invitations after a week.
delete_group_invitation(n, c) ==
  /\ c \in deferred[n] /\ c.kind \in Announces /\ group[n] = NoGroup
  /\ deferred' = [deferred EXCEPT ![n] = @ \ {c}]
  /\ Spend("delete")
  /\ UNCHANGED <<group, authority, consumed, chains, net, mints, states, sealed, seen, history>>

Lose(c) ==
  /\ c.kind \in Announces \cup {"ack"}
  /\ Spend("lose")
  /\ net' = net \ {c}
  /\ UNCHANGED <<group, authority, consumed, chains, deferred, mints, states, sealed, seen,
                 history>>

-------------------------------------------------------------------------------
(* The specification *)

\* A group whose members have all acknowledged each other, upgraded or not and
\* with admins named one by one; or no group at all.
Init ==
  \E scenario \in Scenarios :
    LET members == IF scenario.start = "none" THEN {} ELSE scenario.members
        signed == scenario.start = "signed"
        generation == IF signed THEN 2 + Cardinality(scenario.admins) ELSE 1
        first == FirstState(Founder, members, generation - 1, <<Founder, 1>>)
        state == [first EXCEPT !.role = [m \in Node |->
                    IF m \in scenario.admins THEN "admin" ELSE @[m]]]
        record(n) == [creator |-> Founder, members |-> members, secret |-> <<Founder, 1>>,
                      prev |-> {}, generation |-> generation, key |-> <<n, 1>>,
                      origin |-> 1, acked |-> members \ {n}, sent |-> 0]
    IN /\ group = [n \in Node |-> IF n \in members THEN record(n) ELSE NoGroup]
       /\ authority = [n \in Node |-> IF signed /\ n \in members THEN state ELSE NoState]
       /\ chains = [n \in Node |-> [m \in Node |->
            IF n # m /\ {n, m} \subseteq members THEN [key |-> <<m, 1>>, origin |-> 1]
            ELSE NoChain]]
       /\ mints = [n \in Node |-> IF n \in members THEN 1 ELSE 0]
       /\ states = IF signed THEN {StateId(state)} ELSE {}
       /\ seen = [n \in Node |-> IF n \in members THEN {<<m, 1>> : m \in members \ {n}} ELSE {}]
       /\ consumed = [n \in Node |-> {}]
       /\ deferred = [n \in Node |-> {}]
       /\ net = {} /\ sealed = {} /\ asked = {} /\ applied = {} /\ resolved = {}
       /\ budget = scenario.budget

UserCommand(n) ==
  \/ create_group(n)
  \/ group_send(n)
  \/ group_add(n)
  \/ group_remove(n)
  \/ group_leave(n)
  \/ group_rename(n)
  \/ group_set_role(n)
  \/ group_transfer_owner(n)
  \/ group_upgrade_authority(n)
  \/ prepare_groups_on_session_established(n)
  \/ \E c \in deferred[n] : delete_group_invitation(n, c)

Tick(n) ==
  \/ tick_groups(n)
  \/ \E c \in net : Receive(n, c)
  \/ \E c \in deferred[n] : apply_deferred_controls(n, c)

Next ==
  \/ \E n \in Node : UserCommand(n)
  \/ \E n \in Node : Tick(n)
  \/ \E n \in Node : \E c \in deferred[n] : accept_group_invitation(n, c)
  \/ \E c \in net : Lose(c)

Spec == Init /\ [][Next]_vars

\* Every node ticks for ever and every tick takes in what carriers brought, so
\* nothing sent again and again stays out for ever; an invitation is accepted
\* sooner or later.
Fairness ==
  /\ \A n \in Node : WF_vars(tick_groups(n))
  /\ \A n, m \in Node : WF_vars(\E c \in net :
       c.from = m /\ c.kind \in Announces /\ Receive(n, c))
  /\ \A n, m \in Node : WF_vars(\E c \in net :
       c.from = m /\ c.kind \notin Announces /\ Receive(n, c))
  /\ \A n \in Node : WF_vars(\E c \in deferred[n] : apply_deferred_controls(n, c))
  /\ \A n \in Node : WF_vars(\E c \in deferred[n] : accept_group_invitation(n, c))

LiveSpec == Spec /\ Fairness

-------------------------------------------------------------------------------
(* Properties *)

\* Types of the records, the signed states and the controls in flight; and the store
\* accepts every row.  It refuses a plan that leaves a chain without its member, an
\* invalid record or a signed state without a group, and a refusal would end every
\* tick: no handler ever prepares one.
TypeOK ==
  /\ group \in [Node -> Record \cup {NoGroup}]
  /\ \A n \in Node : authority[n] # NoState => authority[n] \in AuthorityState(Serial)
  /\ chains \in [Node -> [Node -> [key: Serial, origin: Nat] \cup {NoChain}]]
  /\ \A c \in net : {c.from, c.to} \subseteq Node
  /\ \A n \in Node : \A c \in deferred[n] : c.to = n /\ c.kind # "ack"
  /\ mints \in [Node -> Nat] /\ budget \in [Command -> Nat]
  /\ \A n \in Node : valid_group_record(n) /\ validate_group_state(n)

\* A chain key only ever reaches the members its owner had when it encrypted
\* under it: whoever leaves, is removed or joins later can open none of it.
OnlyAudienceReads ==
  \A s \in sealed, n \in Node : s.key \in seen[n] => n \in s.to

\* A member counted as authenticated was given the very chain now in use.
AcknowledgedIsHeld ==
  \A n \in Node : group[n] # NoGroup =>
    \A m \in group[n].acked : group[n].key \in seen[m]

\* What the requester is told is what happened to the group, also when the
\* owner crashed between changing it and answering.  (Of groups that nobody
\* left: a leaver stays in the signed state, and inviting it again changes nothing.)
HonestResults ==
  \A c \in net \cup UNION {deferred[n] : n \in Node} :
    c.kind = "result" => (c.accepted <=> c.id \in applied)

\* A replica that keeps the group never goes back to an older state nor off the
\* line of owners it accepted.
NeverRegresses ==
  [][\A n \in Node : authority[n] # NoState /\ authority'[n] # NoState =>
       \/ authority'[n] = authority[n]
       \/ /\ Supersedes(authority'[n], authority[n])
          /\ authority'[n].generation > authority[n].generation =>
               IsPrefix(authority[n].transfers, authority'[n].transfers)]_vars

\* "an envelope lost on a lossy carrier never leaves a member permanently deaf to a
\* sender", "rotation also triggers on leave" (docs/08-roadmap.md): when the commands
\* stop, any two nodes that list each other come to hold each other's chain in use
\* (tick_groups announces it until it is acknowledged).
NoMemberStaysDeaf ==
  <>[](\A n, m \in {x \in Node : group[x] # NoGroup} :
         n # m /\ m \in group[n].members /\ n \in group[m].members =>
           chains[m][n] # NoChain /\ chains[m][n].key = group[n].key)

\* No admin request stays undecided for ever.
RequestsDecided ==
  <>[](\A c \in net \cup UNION {deferred[n] : n \in Node} : c.kind # "request")

===============================================================================
