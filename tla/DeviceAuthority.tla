--------------------------- MODULE DeviceAuthority ---------------------------
(***************************************************************************)
(* The device authority of one account (kult-crypto device_authority.rs):  *)
(* a proof is the sequence of all transitions since genesis.  Every        *)
(* transition carries the complete next state and the hash of its parent,  *)
(* so with ideal hashes two proofs have the same state id exactly when     *)
(* they are the same sequence.  Certificates and signatures always verify, *)
(* names and observation times are left out: a rename changes only the id. *)
(***************************************************************************)
EXTENDS Integers, FiniteSets, Sequences, SequencesExt

CONSTANTS Device,       \* physical installations
          MAX_AUTHORITY_DEVICES,
          MAX_DEVICE_AUTHORITY_TRANSITIONS

ASSUME AuthorityAssumption ==
  /\ IsFiniteSet(Device)
  /\ MAX_AUTHORITY_DEVICES \in Nat \ {0}
  /\ MAX_DEVICE_AUTHORITY_TRANSITIONS \in Nat \ {0}

Ordinary == {"add", "rename", "revoke"}
Kind == Ordinary \cup {"genesis", "recovery"}

Transition == [kind: Kind, id: Nat, epoch: Nat, active: SUBSET Device,
               revoked: SUBSET Device, approvers: SUBSET Device]

Known(t) == t.active \cup t.revoked

\* Mutant: half of the active devices are enough.
HalfIsQuorum(parent, approvers) == 2 * Cardinality(approvers) >= Cardinality(parent.active)

\* A strict majority of the devices that were active before.
has_quorum(parent, approvers) ==
  Cardinality(approvers) >= Cardinality(parent.active) \div 2 + 1

validate_state(t) ==
  /\ t.active # {} /\ t.active \cap t.revoked = {}
  /\ Cardinality(t.active) <= MAX_AUTHORITY_DEVICES

\* Nobody is forgotten and no revocation is taken back.
validate_parent_continuity(parent, t) ==
  /\ Known(parent) \subseteq Known(t)
  /\ parent.revoked \subseteq t.revoked

validate_ordinary_difference(parent, t) ==
  LET introduced == Known(t) \ Known(parent)
      revoked == t.revoked \ parent.revoked
  IN CASE t.kind = "add" -> Cardinality(introduced) = 1 /\ revoked = {}
       [] t.kind = "rename" -> introduced = {} /\ revoked = {}
       [] t.kind = "revoke" -> introduced = {} /\ Cardinality(revoked) = 1

validate_recovery_difference(parent, t) ==
  /\ t.revoked = Known(parent)
  /\ Cardinality(t.active) = 1

verify_transition(parent, t, require_quorum) ==
  /\ validate_state(t)
  /\ validate_parent_continuity(parent, t)
  /\ \/ /\ t.kind = "recovery" /\ t.epoch = parent.epoch + 1
        /\ validate_recovery_difference(parent, t)
     \/ /\ t.kind \in Ordinary /\ t.epoch = parent.epoch
        /\ validate_ordinary_difference(parent, t)
        /\ t.approvers \subseteq parent.active
        /\ require_quorum => has_quorum(parent, t.approvers)

verify_genesis(t) ==
  /\ t.kind = "genesis" /\ t.epoch = 0
  /\ validate_state(t) /\ Cardinality(t.active) = 1 /\ t.revoked = {}

verify(m) ==
  /\ Len(m) \in 1..MAX_DEVICE_AUTHORITY_TRANSITIONS
  /\ verify_genesis(m[1])
  /\ \A i \in 2..Len(m) : verify_transition(m[i - 1], m[i], TRUE)

Active(m) == Last(m).active
recovery_epoch(m) == Last(m).epoch

\* The proof up to the transition that opened its epoch.
recovery_anchor(m) ==
  SubSeq(m, 1, CHOOSE i \in 1..Len(m) : /\ m[i].epoch = recovery_epoch(m)
                                        /\ m[i].kind \notin Ordinary)

-------------------------------------------------------------------------------
(* relation: what a candidate is to a proof that is held *)

RecoverySupersedes(m, candidate) == recovery_epoch(candidate) > recovery_epoch(m)

SameEpoch(m, candidate) ==
  /\ recovery_epoch(m) = recovery_epoch(candidate)
  /\ recovery_anchor(m) = recovery_anchor(candidate)

Descendant(m, candidate) ==
  m # candidate /\ SameEpoch(m, candidate) /\ IsPrefix(m, candidate)

Fork(m, candidate) ==
  SameEpoch(m, candidate) /\ ~ IsPrefix(m, candidate) /\ ~ IsPrefix(candidate, m)

RecoveryConflict(m, candidate) ==
  /\ recovery_epoch(m) = recovery_epoch(candidate)
  /\ recovery_anchor(m) # recovery_anchor(candidate)

-------------------------------------------------------------------------------
(* Proposals and their authorisation *)

ordinary_proposal(m, kind, id, active, revoked, signer) ==
  [kind |-> kind, id |-> id, epoch |-> recovery_epoch(m), active |-> active,
   revoked |-> revoked, approvers |-> {signer}]

propose_add_device(m, id, device, signer) ==
  ordinary_proposal(m, "add", id, Active(m) \cup {device}, Last(m).revoked, signer)
propose_rename_device(m, id, signer) ==
  ordinary_proposal(m, "rename", id, Active(m), Last(m).revoked, signer)
propose_revoke_device(m, id, device, signer) ==
  ordinary_proposal(m, "revoke", id, Active(m) \ {device},
                    Last(m).revoked \cup {device}, signer)

\* The account root revokes every device of the proof it starts from.
recover(m, id, device) ==
  Append(m, [kind |-> "recovery", id |-> id, epoch |-> recovery_epoch(m) + 1,
             active |-> {device}, revoked |-> Known(Last(m)), approvers |-> {}])

merge_approval(t, signer) == [t EXCEPT !.approvers = @ \cup {signer}]

\* Mutant: nobody counts the transitions.
AppendsUnbounded(m, t) == verify_transition(Last(m), t, TRUE)

\* append refuses what would not verify.
Appends(m, t) ==
  /\ Len(m) < MAX_DEVICE_AUTHORITY_TRANSITIONS
  /\ verify_transition(Last(m), t, TRUE)

===============================================================================
