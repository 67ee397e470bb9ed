---------------------------- MODULE GroupAuthority ----------------------------
(***************************************************************************)
(* The signed authority state of a group (kult-protocol group_authority.rs *)
(* and the state arithmetic of kult-node authority.rs): who owns it, who   *)
(* is in it with which role, and which of two states a replica keeps.  A   *)
(* state id is random and only ever compared for equality, or for order    *)
(* between states of one generation, so it is <<generation, rank>>.  The   *)
(* hash of the group secret stands for the secret, and signatures, names   *)
(* and identities are left out: only an owner signs in this model.         *)
(***************************************************************************)
EXTENDS Integers, FiniteSets, Sequences, SequencesExt

CONSTANTS Node,         \* the accounts, one device each
          NoState       \* a replica without signed authority

Role == {"none", "member", "admin", "owner"}

\* SignedGroupAuthorityState
AuthorityState(Secret) ==
  [generation: Nat, rank: Int, original_owner: Node, owner: Node, signer: Node,
   role: [Node -> Role], secret: Secret, transfers: Seq([from: Node, to: Node, generation: Nat])]

Members(s) == {m \in Node : s.role[m] # "none"}

StateId(s) == <<s.generation, s.rank>>

\* Transfers run from the original owner to the present one, each in a later
\* generation; a state is signed by its owner, or by the one who hands over.
validate_state(s) ==
  LET t == s.transfers
  IN /\ s.generation > 0
     /\ {m \in Node : s.role[m] = "owner"} = {s.owner}
     /\ \A i \in 1..Len(t) :
          /\ t[i].from = IF i = 1 THEN s.original_owner ELSE t[i - 1].to
          /\ t[i].from # t[i].to
          /\ t[i].generation <= s.generation
          /\ i > 1 => t[i].generation > t[i - 1].generation
     /\ s.owner = IF t = <<>> THEN s.original_owner ELSE Last(t).to
     /\ IF t = <<>> THEN s.signer = s.owner
        ELSE IF s.signer = s.owner THEN s.generation > Last(t).generation
        ELSE s.signer = Last(t).from /\ s.generation = Last(t).generation

\* An announce carries the secret itself; its hash must be the state's.
verify_authority_state(s, secret) == validate_state(s) /\ s.secret = secret

transfer_chain_extends(accepted, candidate) == IsPrefix(accepted, candidate)

prepare_next_state(s, secret) ==
  [s EXCEPT !.generation = @ + 1, !.signer = s.owner, !.secret = secret]

\* What each command makes of the members before prepare_next_state.
SetRole(s, m, r) == [s EXCEPT !.role[m] = r]
Admitted(s, m) == SetRole(s, m, "member")
Expelled(s, m) == SetRole(s, m, "none")

\* The old owner stays as an admin and signs the state that hands over.
Transferred(s, m, secret) ==
  LET old == s.owner
      next == s.generation + 1
  IN [s EXCEPT !.role = [@ EXCEPT ![old] = "admin", ![m] = "owner"],
               !.owner = m, !.signer = old, !.generation = next, !.secret = secret,
               !.transfers = Append(@, [from |-> old, to |-> m, generation |-> next])]

\* The first signed state of a group that was its creator's by convention.
FirstState(creator, members, generation, secret) ==
  [generation |-> generation + 1, rank |-> 0, original_owner |-> creator,
   owner |-> creator, signer |-> creator, secret |-> secret, transfers |-> <<>>,
   role |-> [m \in Node |-> IF m = creator THEN "owner"
                            ELSE IF m \in members THEN "member" ELSE "none"]]

\* A later state counts only along the accepted line of owners; between two of
\* one generation the smaller id wins.
Eligible(s, current) ==
  /\ s.original_owner = current.original_owner
  /\ s.generation > current.generation
       => transfer_chain_extends(current.transfers, s.transfers)
Supersedes(s, current) ==
  \/ s.generation > current.generation
  \/ s.generation = current.generation /\ s.rank < current.rank

===============================================================================
