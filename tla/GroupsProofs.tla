---------------------------- MODULE GroupsProofs ----------------------------
(***************************************************************************)
(* Proofs about Groups, for any accounts, starting group and number of     *)
(* commands: the types with the rows the store accepts, that a chain key   *)
(* reaches only the audience of what was encrypted under it, that an       *)
(* acknowledged chain is held, that no replica goes back, and that admins  *)
(* are told the truth about their requests.                                *)
(*                                                                         *)
(* The argument is about keys.  A key belongs to the node that drew it and *)
(* is drawn once; while it is in use the roster does not change; so all    *)
(* announces of it ever made are to members of the roster it is used for.  *)
(*                                                                         *)
(* The answers to requests have an argument of their own, the last part:   *)
(* while nobody leaves and the owner stays, its states form one line.      *)
(***************************************************************************)
EXTENDS Groups, TLAPS, FiniteSetTheorems, SequenceTheorems

-----------------------------------------------------------------------------
(* The inductive invariant *)

\* A key that node n has drawn.
Drawn(n, key) == \E k \in 1..mints[n] : key = <<n, k>>

\* A signed state has its owner among its members.
StateOK(s) == s \in AuthorityState(Serial) /\ s.role[s.owner] = "owner"

Chain == [key: Serial, origin: Nat]

TypeInv ==
  /\ group \in [Node -> Record \cup {NoGroup}]
  /\ authority \in [Node -> AuthorityState(Serial) \cup {NoState}]
  /\ chains \in [Node -> [Node -> Chain \cup {NoChain}]]
  /\ mints \in [Node -> Nat] /\ budget \in [Command -> Nat]
  /\ deferred = [n \in Node |-> deferred[n]] /\ seen = [n \in Node |-> seen[n]]

\* The rows of a node fit together.
RowsOK(n) ==
  /\ group[n] # NoGroup => /\ n \in group[n].members /\ group[n].acked \subseteq group[n].members
                           /\ Drawn(n, group[n].key)
  /\ \A m \in Node : chains[n][m] # NoChain => group[n] # NoGroup /\ m \in group[n].members
  /\ authority[n] # NoState => group[n] # NoGroup /\ StateOK(authority[n])

RowInv == \A n \in Node : RowsOK(n)

\* A control says what its sender may have said.
ControlOK(c) ==
  /\ c.from \in Node /\ c.to \in Node
  /\ c.kind \in Announces => Drawn(c.from, c.key) /\ c.secret \in Serial /\ c.origin \in Nat
  /\ c.kind = "announce" => /\ c.generation \in Nat /\ c.creator \in Node
                            /\ c.members \subseteq Node
                            /\ c.members # {} => c.from \in c.members
  /\ c.kind = "signed" => StateOK(c.state)
  /\ c.kind = "leave" => c.from # c.to
  /\ c.kind = "request" => c.target \in Node /\ c.action \in {"rename", "invite", "remove"}

Kept(n, c) == c.to = n /\ c.kind # "ack" /\ (c.kind \in Announces => c.key \in seen[n])

MailInv ==
  /\ \A c \in net : ControlOK(c) /\ (c.kind = "ack" => c.key \in seen[c.from])
  /\ \A n \in Node : \A c \in deferred[n] : ControlOK(c) /\ Kept(n, c)

\* An announce of key to node m is under way, or m has it.
Announced(key, m) ==
  \/ \E c \in net : c.kind \in Announces /\ c.key = key /\ c.to = m
  \/ \E n \in Node : \E c \in deferred[n] : c.kind \in Announces /\ c.key = key /\ c.to = m
  \/ key \in seen[m]

\* A key goes to members of the roster it is used for, and to the audience of
\* everything that was encrypted under it.
AudienceInv ==
  /\ \A m \in Node : \A key \in seen[m] : \E n \in Node : Drawn(n, key)
  /\ \A s \in sealed : \E n \in Node : Drawn(n, s.key)
  /\ \A n, m \in Node : group[n] # NoGroup /\ Announced(group[n].key, m) => m \in group[n].members
  /\ \A s \in sealed : \A m \in Node : Announced(s.key, m) => m \in s.to
  /\ \A s \in sealed : \A n \in Node :
       group[n] # NoGroup /\ group[n].key = s.key => group[n].members \subseteq s.to

\* The ids of a generation lie side by side.
RanksOf(g) == {id[2] : id \in {s \in states : s[1] = g}}
RankInv == \A g \in Nat : \E lo, hi \in Int : RanksOf(g) = lo..hi

IInv == TypeInv /\ RowInv /\ MailInv /\ AudienceInv /\ AcknowledgedIsHeld /\ RankInv

\* The invariant is what the runs check, and more.
LEMMA IInvImplies == IInv => TypeOK /\ OnlyAudienceReads /\ AcknowledgedIsHeld
<1> SUFFICES ASSUME IInv PROVE TypeOK /\ OnlyAudienceReads
  BY DEF IInv
<1>1. TypeOK
  <2>1. \A n \in Node : valid_group_record(n) /\ validate_group_state(n)
    BY DEF IInv, RowInv, RowsOK, valid_group_record, validate_group_state
  <2>2. \A n \in Node : authority[n] # NoState => authority[n] \in AuthorityState(Serial)
    BY DEF IInv, RowInv, RowsOK, StateOK
  <2> QED  BY <2>1, <2>2 DEF IInv, TypeInv, Chain, MailInv, ControlOK, Kept, TypeOK
<1>2. OnlyAudienceReads
  BY DEF IInv, AudienceInv, Announced, OnlyAudienceReads
<1> QED  BY <1>1, <1>2

-----------------------------------------------------------------------------
(* What a step of node n may do *)

\* A key the step draws.
Fresh(n, key) == \E k \in (mints[n] + 1)..mints'[n] : key = <<n, k>>

SameKey(n) ==
  /\ group[n] # NoGroup
  /\ group'[n].key = group[n].key /\ group'[n].members = group[n].members
  /\ \A m \in group'[n].acked : m \in group[n].acked \/ (m \in Node /\ group[n].key \in seen[m])

RowsMove(n) ==
  \/ /\ group'[n] = NoGroup /\ authority'[n] = NoState
     /\ \A m \in Node : chains'[n][m] = NoChain
  \/ /\ group'[n] \in Record /\ n \in group'[n].members
     /\ SameKey(n) \/ (group'[n].acked = {} /\ Fresh(n, group'[n].key))
     /\ \A m \in Node : chains'[n][m] # NoChain => /\ chains'[n][m] \in Chain
                                                   /\ m \in group'[n].members
     /\ authority'[n] # NoState => StateOK(authority'[n])

\* The other nodes stay as they are.
OnlyAt(n) ==
  /\ group' = [group EXCEPT ![n] = group'[n]]
  /\ authority' = [authority EXCEPT ![n] = authority'[n]]
  /\ chains' = [chains EXCEPT ![n] = chains'[n]]
  /\ chains'[n] = [m \in Node |-> chains'[n][m]]
  /\ mints' = [mints EXCEPT ![n] = mints'[n]]
  /\ mints'[n] \in Nat /\ mints[n] <= mints'[n]
  /\ budget' \in [Command -> Nat]

\* The signed state stays, goes, or gives way to one that wins over it.
Onward(n) ==
  authority[n] # NoState /\ authority'[n] # NoState =>
    \/ authority'[n] = authority[n]
    \/ /\ Supersedes(authority'[n], authority[n])
       /\ authority'[n].generation > authority[n].generation =>
            IsPrefix(authority[n].transfers, authority'[n].transfers)
Forward == \A n \in Node : Onward(n)

NodeMoves(n) == RowsMove(n) /\ OnlyAt(n) /\ Onward(n)

\* No new announces: what is kept came in, and what is sent is something else.
MailMoves ==
  /\ deferred' = [x \in Node |-> deferred'[x]]
  /\ \A c \in net' : c \in net \/ /\ ControlOK(c)' /\ c.kind \notin Announces
                                  /\ c.kind = "ack" => c.key \in seen'[c.from]
  /\ \A x \in Node : \A c \in deferred'[x] : c \in deferred[x] \/ (c \in net /\ Kept(x, c)')

\* What is seen was announced.
SeenMoves ==
  /\ seen' = [x \in Node |-> seen'[x]]
  /\ \A x \in Node : /\ seen[x] \subseteq seen'[x]
                     /\ \A key \in seen'[x] : Announced(key, x)

\* What is encrypted is for the members, under the chain in use or a new one.
SealMoves(n) ==
  \A s \in sealed' : s \in sealed \/
    /\ group[n] # NoGroup /\ s.to = group[n].members
    /\ s.key = group[n].key \/ Fresh(n, s.key)
    /\ group'[n] # NoGroup /\ group'[n].key = s.key => group'[n].members = group[n].members

\* A drawn key is not drawn again.
LEMMA FreshIsNew ==
  ASSUME TypeInv, NEW n \in Node, NEW x \in Node, NEW key, Drawn(x, key), Fresh(n, key)
  PROVE  FALSE
<1>1. PICK k \in 1..mints[x] : key = <<x, k>>
  BY DEF Drawn
<1>2. mints[n] \in Nat
  BY DEF TypeInv
<1>3. PICK j \in (mints[n] + 1)..mints'[n] : key = <<n, j>>
  BY DEF Fresh
<1>4. x = n /\ k = j
  BY <1>1, <1>3
<1> QED  BY <1>1, <1>2, <1>3, <1>4

\* Keys stay drawn, and what is drawn is.
LEMMA DrawnStays ==
  ASSUME TypeInv, NEW n \in Node, OnlyAt(n)
  PROVE  /\ \A x \in Node : \A key : Drawn(x, key) => Drawn(x, key)'
         /\ \A key : Fresh(n, key) => Drawn(n, key)'
<1>1. \A x \in Node : mints[x] \in Nat /\ mints'[x] \in Nat /\ mints[x] <= mints'[x]
  BY DEF TypeInv, OnlyAt
<1>2. \A x \in Node : 1..mints[x] \subseteq 1..mints'[x]
  BY <1>1
<1>3. (mints[n] + 1)..mints'[n] \subseteq 1..mints'[n]
  BY <1>1
<1> QED  BY <1>2, <1>3 DEF Drawn, Fresh

\* Such a step keeps the invariant.
LEMMA Step ==
  ASSUME IInv, NEW n \in Node, NodeMoves(n), MailMoves, SeenMoves, SealMoves(n), RankInv'
  PROVE  IInv' /\ Forward
<1>i. TypeInv /\ RowInv /\ MailInv /\ AudienceInv /\ AcknowledgedIsHeld
  BY DEF IInv
<1>m. RowsMove(n) /\ OnlyAt(n) /\ Onward(n)
  BY DEF NodeMoves
<1>0. \A x \in Node : x # n => /\ group'[x] = group[x] /\ authority'[x] = authority[x]
                               /\ chains'[x] = chains[x] /\ mints'[x] = mints[x]
  BY <1>i, <1>m DEF TypeInv, OnlyAt
<1>1. TypeInv'
  <2>1. group'[n] \in Record \cup {NoGroup} /\ authority'[n] \in AuthorityState(Serial) \cup {NoState}
    BY <1>m DEF RowsMove, StateOK
  <2>2. \A m \in Node : chains'[n][m] \in Chain \cup {NoChain}
    BY <1>m DEF RowsMove
  <2>3. chains'[n] \in [Node -> Chain \cup {NoChain}]
    BY <1>m, <2>2 DEF OnlyAt
  <2>4. group' \in [Node -> Record \cup {NoGroup}]
    BY <1>i, <1>m, <2>1 DEF TypeInv, OnlyAt
  <2>5. authority' \in [Node -> AuthorityState(Serial) \cup {NoState}]
    BY <1>i, <1>m, <2>1 DEF TypeInv, OnlyAt
  <2>6. chains' \in [Node -> [Node -> Chain \cup {NoChain}]]
    BY <1>i, <1>m, <2>3 DEF TypeInv, OnlyAt
  <2>7. mints' \in [Node -> Nat] /\ budget' \in [Command -> Nat]
    BY <1>i, <1>m DEF TypeInv, OnlyAt
  <2> QED  BY <2>4, <2>5, <2>6, <2>7 DEF TypeInv, MailMoves, SeenMoves
<1>2. /\ \A x \in Node : \A key : Drawn(x, key) => Drawn(x, key)'
      /\ \A key : Fresh(n, key) => Drawn(n, key)'
  BY <1>i, <1>m, DrawnStays
<1>3. \A m \in Node : \A key : Announced(key, m)' => Announced(key, m)
  <2> SUFFICES ASSUME NEW m \in Node, NEW key, Announced(key, m)' PROVE Announced(key, m)
    OBVIOUS
  <2>1. CASE \E c \in net' : c.kind \in Announces /\ c.key = key /\ c.to = m
    BY <2>1 DEF MailMoves, Announced
  <2>2. CASE \E x \in Node : \E c \in deferred'[x] : c.kind \in Announces /\ c.key = key /\ c.to = m
    BY <2>2 DEF MailMoves, Announced
  <2>3. CASE key \in seen'[m]
    BY <2>3 DEF SeenMoves
  <2> QED  BY <2>1, <2>2, <2>3 DEF Announced
<1>4. ASSUME NEW m \in Node, NEW key, Announced(key, m) PROVE \E x \in Node : Drawn(x, key)
  BY <1>i, <1>4 DEF Announced, MailInv, ControlOK, AudienceInv
<1>5. \A x \in Node : group[x] # NoGroup => Drawn(x, group[x].key)
  BY <1>i DEF RowInv, RowsOK
<1>6. ASSUME NEW x \in Node, group'[x] # NoGroup
      PROVE  \/ x = n /\ group'[x].acked = {} /\ Fresh(n, group'[x].key)
             \/ /\ group[x] # NoGroup /\ group'[x].key = group[x].key
                /\ group'[x].members = group[x].members
                /\ \A m \in group'[x].acked : m \in group[x].acked \/ (m \in Node /\ group[x].key \in seen[m])
  BY <1>0, <1>m, <1>6 DEF RowsMove, SameKey
<1>7. ASSUME NEW x \in Node, NEW m \in Node, group'[x] # NoGroup, Announced(group[x].key, m)'
      PROVE  m \in group'[x].members
  <2>1. PICK key : key = group'[x].key
    OBVIOUS
  <2>2. Announced(key, m)'
    BY <1>7, <2>1
  <2>3. Announced(key, m)
    BY <1>3, <2>2
  <2>4. ~Fresh(n, key)
    BY <1>i, <1>4, <2>3, FreshIsNew
  <2> QED  BY <1>i, <1>6, <1>7, <2>1, <2>3, <2>4 DEF AudienceInv
<1>8. RowInv'
  <2> SUFFICES ASSUME NEW x \in Node PROVE RowsOK(x)'
    BY DEF RowInv
  <2>0. RowsOK(x)
    BY <1>i DEF RowInv
  <2>1. CASE x # n
    BY <1>0, <1>2, <2>0, <2>1 DEF RowsOK, StateOK
  <2>2. CASE x = n
    <3>1. CASE group'[n] = NoGroup /\ authority'[n] = NoState /\ \A m \in Node : chains'[n][m] = NoChain
      BY <2>2, <3>1 DEF RowsOK
    <3>2. CASE group'[n] \in Record /\ group'[n] # NoGroup
      <4>1. /\ n \in group'[n].members
            /\ \A m \in Node : chains'[n][m] # NoChain => m \in group'[n].members
            /\ authority'[n] # NoState => StateOK(authority'[n])
        BY <1>m, <3>2 DEF RowsMove
      <4>2. group'[n].acked \subseteq group'[n].members /\ Drawn(n, group[n].key)'
        <5>1. CASE group'[n].acked = {} /\ Fresh(n, group'[n].key)
          <6>1. PICK key : key = group'[n].key
            OBVIOUS
          <6>2. Drawn(n, key)'
            BY <1>2, <5>1, <6>1
          <6> QED  BY <5>1, <6>1, <6>2
        <5>2. CASE /\ group[n] # NoGroup /\ group'[n].key = group[n].key
                   /\ group'[n].members = group[n].members
                   /\ \A m \in group'[n].acked : m \in group[n].acked \/ (m \in Node /\ group[n].key \in seen[m])
          <6>1. \A m \in Node : group[n].key \in seen[m] => m \in group[n].members
            BY <1>i, <5>2 DEF AudienceInv, Announced
          <6>2. PICK key : key = group'[n].key
            OBVIOUS
          <6>3. Drawn(n, key)'
            BY <1>2, <1>5, <5>2, <6>2
          <6> QED  BY <2>0, <2>2, <5>2, <6>1, <6>2, <6>3 DEF RowsOK
        <5> QED  BY <1>6, <3>2, <5>1, <5>2
      <4> QED  BY <2>2, <3>2, <4>1, <4>2 DEF RowsOK, StateOK
    <3> QED  BY <1>m, <3>1, <3>2, NoGroupAssumption DEF RowsMove
  <2> QED  BY <2>1, <2>2
<1>9. MailInv'
  <2>1. \A c : ControlOK(c) => ControlOK(c)'
    BY <1>2 DEF ControlOK, StateOK
  <2>2. \A x \in Node : seen[x] \subseteq seen'[x]
    BY DEF SeenMoves
  <2>3. \A c \in net' : ControlOK(c)' /\ (c.kind = "ack" => c.key \in seen'[c.from])
    BY <1>i, <2>1, <2>2 DEF MailMoves, MailInv, ControlOK
  <2>4. \A x \in Node : \A c \in deferred'[x] : ControlOK(c)' /\ Kept(x, c)'
    BY <1>i, <2>1, <2>2 DEF MailMoves, MailInv, Kept
  <2> QED  BY <2>3, <2>4 DEF MailInv
<1>10. AudienceInv'
  <2>1. \A m \in Node : \A key \in seen'[m] : \E x \in Node : Drawn(x, key)'
    BY <1>2, <1>4 DEF SeenMoves
  <2>2. ASSUME NEW s \in sealed' PROVE \E x \in Node : Drawn(x, s.key)'
    BY <1>i, <1>2, <1>5, <2>2 DEF SealMoves, AudienceInv
  <2>3. ASSUME NEW s \in sealed', NEW m \in Node, Announced(s.key, m)' PROVE m \in s.to
    <3>1. Announced(s.key, m)
      BY <1>3, <2>3
    <3>2. CASE s \in sealed
      BY <1>i, <3>1, <3>2 DEF AudienceInv
    <3>3. CASE s \notin sealed
      <4>1. /\ group[n] # NoGroup /\ s.to = group[n].members
            /\ s.key = group[n].key \/ Fresh(n, s.key)
        BY <3>3 DEF SealMoves
      <4>2. ~Fresh(n, s.key)
        BY <1>i, <1>4, <3>1, FreshIsNew
      <4> QED  BY <1>i, <3>1, <4>1, <4>2 DEF AudienceInv
    <3> QED  BY <3>2, <3>3
  <2>4. ASSUME NEW s \in sealed', NEW x \in Node, group'[x] # NoGroup, group'[x].key = s.key
        PROVE  group'[x].members \subseteq s.to
    <3>1. CASE s \in sealed
      <4>1. \E y \in Node : Drawn(y, s.key)
        BY <1>i, <3>1 DEF AudienceInv
      <4>2. group[x] # NoGroup /\ group'[x].key = group[x].key /\ group'[x].members = group[x].members
        BY <1>i, <1>6, <2>4, <4>1, FreshIsNew
      <4> QED  BY <1>i, <2>4, <3>1, <4>2 DEF AudienceInv
    <3>2. CASE s \notin sealed
      <4>1. /\ group[n] # NoGroup /\ s.to = group[n].members
            /\ s.key = group[n].key \/ Fresh(n, s.key)
            /\ group'[n] # NoGroup /\ group'[n].key = s.key => group'[n].members = group[n].members
        BY <3>2 DEF SealMoves
      <4>2. x = n
        <5>1. Drawn(n, s.key)'
          BY <1>2, <1>5, <4>1
        <5>2. Drawn(x, s.key)'
          BY <1>8, <2>4 DEF RowInv, RowsOK
        <5> QED  BY <5>1, <5>2 DEF Drawn
      <4> QED  BY <2>4, <4>1, <4>2
    <3> QED  BY <3>1, <3>2
  <2> QED  BY <1>7, <2>1, <2>2, <2>3, <2>4 DEF AudienceInv
<1>11. AcknowledgedIsHeld'
  <2> SUFFICES ASSUME NEW x \in Node, group'[x] # NoGroup, NEW m \in group'[x].acked
               PROVE  group'[x].key \in seen'[m]
    BY DEF AcknowledgedIsHeld
  <2>1. /\ group[x] # NoGroup /\ group'[x].key = group[x].key
        /\ m \in group[x].acked \/ (m \in Node /\ group[x].key \in seen[m])
    BY <1>6
  <2>2. group[x].key \in seen[m]
    BY <1>i, <2>1 DEF AcknowledgedIsHeld
  <2>3. group[x].acked \subseteq Node
    BY <1>i, <2>1, NoGroupAssumption DEF TypeInv, Record
  <2> QED  BY <2>1, <2>2, <2>3 DEF SeenMoves
<1>12. Forward
  BY <1>0, <1>m DEF Forward, Onward
<1> QED  BY <1>1, <1>8, <1>9, <1>10, <1>11, <1>12 DEF IInv

\* A step that encrypts nothing and signs nothing.
LEMMA QuietStep ==
  ASSUME IInv, NEW n \in Node, NodeMoves(n), MailMoves, SeenMoves,
         UNCHANGED <<sealed, states>>
  PROVE  IInv' /\ Forward
<1>1. SealMoves(n)
  BY DEF SealMoves
<1>2. RankInv'
  BY DEF IInv, RankInv, RanksOf
<1> QED  BY <1>1, <1>2, Step

\* Nothing is delivered, nothing is sent.
LEMMA MailRests ==
  ASSUME IInv
  PROVE  /\ UNCHANGED <<net, deferred>> => MailMoves
         /\ UNCHANGED seen => SeenMoves
BY DEF IInv, TypeInv, MailMoves, SeenMoves, Announced

\* The node's rows stay as they are.
LEMMA NodeRests ==
  ASSUME IInv, NEW n \in Node, UNCHANGED <<group, authority, chains, mints>>,
         budget' \in [Command -> Nat]
  PROVE  NodeMoves(n)
<1>i. TypeInv /\ RowsOK(n)
  BY DEF IInv, RowInv
<1>1. OnlyAt(n)
  <2>1. chains[n] = [m \in Node |-> chains[n][m]] /\ mints[n] \in Nat /\ mints[n] <= mints[n]
    BY <1>i DEF TypeInv
  <2> QED  BY <1>i, <2>1 DEF OnlyAt, TypeInv
<1>2. RowsMove(n)
  <2>1. CASE group[n] = NoGroup
    BY <1>i, <2>1 DEF RowsMove, RowsOK
  <2>2. CASE group[n] # NoGroup
    BY <1>i, <2>2 DEF RowsMove, RowsOK, SameKey, TypeInv
  <2> QED  BY <2>1, <2>2
<1> QED  BY <1>1, <1>2 DEF NodeMoves, Onward

\* The node gives the group up.
LEMMA NodeDrops ==
  ASSUME IInv, NEW n \in Node, DropGroup(n), UNCHANGED mints, budget' \in [Command -> Nat]
  PROVE  NodeMoves(n)
<1>i. TypeInv
  BY DEF IInv
<1>1. group'[n] = NoGroup /\ authority'[n] = NoState /\ chains'[n] = [m \in Node |-> NoChain]
  BY <1>i DEF TypeInv, DropGroup
<1>2. mints'[n] \in Nat /\ mints[n] <= mints'[n] /\ mints' = [mints EXCEPT ![n] = mints'[n]]
  BY <1>i DEF TypeInv
<1>3. OnlyAt(n)
  <2>1. group' = [group EXCEPT ![n] = group'[n]] /\ authority' = [authority EXCEPT ![n] = authority'[n]]
    BY <1>1 DEF DropGroup
  <2>2. chains' = [chains EXCEPT ![n] = chains'[n]]
    BY <1>1 DEF DropGroup
  <2>3. chains'[n] = [m \in Node |-> chains'[n][m]]
    BY <1>1
  <2> QED  BY <1>2, <2>1, <2>2, <2>3 DEF OnlyAt
<1> QED  BY <1>1, <1>3 DEF NodeMoves, RowsMove, Onward

\* Commands are bounded.
LEMMA Spends ==
  ASSUME TypeInv, NEW command \in Command, Spend(command)
  PROVE  budget' \in [Command -> Nat]
BY DEF TypeInv, Spend

\* A fresh chain of a record.
LEMMA RotatedIs ==
  ASSUME TypeInv, NEW n \in Node, NEW rec \in Record, NEW i \in Nat
  PROVE  /\ Rotated(n, rec, i) \in Record
         /\ Rotated(n, rec, i).members = rec.members
         /\ Rotated(n, rec, i).acked = {}
         /\ Rotated(n, rec, i).key = <<n, mints[n] + i>>
<1>1. mints[n] + i \in Nat
  BY DEF TypeInv
<1>2. 0 \in 0..GROUP_ROTATE_MSGS
  BY GroupsAssumption
<1>3. <<n, mints[n] + i>> \in Serial
  BY <1>1 DEF Serial
<1>4. PICK a \in Record : a = [rec EXCEPT !.key = <<n, mints[n] + i>>]
  BY <1>3 DEF Record
<1>5. PICK o \in Nat : o = rec.origin + 1
  BY DEF Record
<1>6. PICK b \in Record : b = [a EXCEPT !.origin = o]
  BY DEF Record
<1>7. PICK c \in Record : c = [b EXCEPT !.acked = {}]
  BY DEF Record
<1>8. [c EXCEPT !.sent = 0] \in Record
  BY <1>2 DEF Record
<1>9. Rotated(n, rec, i) \in Record
  BY <1>4, <1>5, <1>6, <1>7, <1>8, Zenon DEF Rotated
<1> QED  BY <1>9 DEF Rotated, Record

\* Drawing keys.
LEMMA Draws ==
  ASSUME TypeInv, NEW n \in Node, NEW k \in Nat, Draw(n, k)
  PROVE  /\ mints' = [mints EXCEPT ![n] = mints'[n]]
         /\ mints'[n] = mints[n] + k /\ mints'[n] \in Nat /\ mints[n] <= mints'[n]
         /\ \A i \in 1..k : Fresh(n, <<n, mints[n] + i>>)
<1>1. mints[n] \in Nat /\ mints'[n] = mints[n] + k /\ mints' = [mints EXCEPT ![n] = mints'[n]]
  BY DEF TypeInv, Draw
<1>2. \A i \in 1..k : mints[n] + i \in (mints[n] + 1)..mints'[n]
  BY <1>1
<1> QED  BY <1>1, <1>2 DEF Fresh

\* The node takes a record with a fresh chain; its signed state stays.
LEMMA NodeRotates ==
  ASSUME IInv, NEW n \in Node, NEW rec \in Record, NEW k \in Nat \ {0}, NEW i \in 1..k,
         n \in rec.members, Draw(n, k),
         group' = [group EXCEPT ![n] = Rotated(n, rec, i)], authority' = authority,
         chains' = [chains EXCEPT ![n] = chains'[n]],
         chains'[n] = [m \in Node |-> chains'[n][m]],
         \A m \in Node : chains'[n][m] # NoChain => chains'[n][m] \in Chain /\ m \in rec.members,
         budget' \in [Command -> Nat]
  PROVE  NodeMoves(n)
<1>i. TypeInv /\ RowsOK(n)
  BY DEF IInv, RowInv
<1>1. /\ Rotated(n, rec, i) \in Record /\ Rotated(n, rec, i).members = rec.members
      /\ Rotated(n, rec, i).acked = {} /\ Rotated(n, rec, i).key = <<n, mints[n] + i>>
  <2>1. i \in Nat
    OBVIOUS
  <2>2. TypeInv
    BY <1>i
  <2> QED  BY ONLY <2>1, <2>2, n \in Node, rec \in Record, RotatedIs
<1>2. /\ mints' = [mints EXCEPT ![n] = mints'[n]] /\ mints'[n] \in Nat /\ mints[n] <= mints'[n]
      /\ Fresh(n, <<n, mints[n] + i>>)
  BY <1>i, Draws
<1>3. group'[n] = Rotated(n, rec, i)
  BY <1>i DEF TypeInv
<1>4. authority[n] # NoState => StateOK(authority[n])
  BY <1>i DEF RowsOK
<1>5. RowsMove(n)
  BY <1>1, <1>2, <1>3, <1>4 DEF RowsMove
<1>6. OnlyAt(n)
  BY <1>i, <1>2, <1>3 DEF OnlyAt, TypeInv
<1> QED  BY <1>5, <1>6 DEF NodeMoves, Onward

-----------------------------------------------------------------------------
(* Commands *)

\* The chains of a node whose roster keeps whoever it holds a chain of.
LEMMA ChainsRest ==
  ASSUME IInv, NEW n \in Node, chains' = chains
  PROVE  /\ chains' = [chains EXCEPT ![n] = chains'[n]]
         /\ chains'[n] = [m \in Node |-> chains'[n][m]]
         /\ \A m \in Node : chains'[n][m] # NoChain =>
              chains'[n][m] \in Chain /\ group[n] # NoGroup /\ m \in group[n].members
BY DEF IInv, TypeInv, RowInv, RowsOK

\* A known record.
LEMMA RecordIs ==
  ASSUME IInv, NEW n \in Node, group[n] # NoGroup
  PROVE  group[n] \in Record /\ n \in group[n].members /\ Drawn(n, group[n].key)
BY DEF IInv, TypeInv, RowInv, RowsOK

LEMMA SessionStep ==
  ASSUME IInv, NEW n \in Node, prepare_groups_on_session_established(n)
  PROVE  IInv' /\ Forward
<1>i. TypeInv
  BY DEF IInv
<1>1. group[n] \in Record /\ n \in group[n].members
  BY RecordIs DEF prepare_groups_on_session_established
<1>2. budget' \in [Command -> Nat]
  BY <1>i, Spends DEF prepare_groups_on_session_established, Command
<1>3. /\ group' = [group EXCEPT ![n] = Rotated(n, group[n], 1)] /\ Draw(n, 1)
      /\ UNCHANGED <<authority, chains, deferred, net, states, sealed, seen>>
  BY DEF prepare_groups_on_session_established
<1>4. NodeMoves(n)
  <2>1. /\ chains' = [chains EXCEPT ![n] = chains'[n]] /\ chains'[n] = [m \in Node |-> chains'[n][m]]
        /\ \A m \in Node : chains'[n][m] # NoChain => chains'[n][m] \in Chain /\ m \in group[n].members
    BY <1>3, ChainsRest
  <2>2. authority' = authority /\ 1 \in Nat \ {0} /\ 1 \in 1..1
    BY <1>3
  <2> QED  BY <1>1, <1>2, <1>3, <2>1, <2>2, NodeRotates
<1> QED  BY <1>3, <1>4, QuietStep, MailRests

LEMMA CreateStep ==
  ASSUME IInv, NEW n \in Node, create_group(n)
  PROVE  IInv' /\ Forward
<1>i. TypeInv
  BY DEF IInv
<1>1. budget' \in [Command -> Nat]
  BY <1>i, Spends DEF create_group, Command
<1>2. PICK ms \in SUBSET Node :
        n \in ms /\ group' = [group EXCEPT ![n] = NewRecord(n, n, ms, <<n, 1>>, 1)]
  BY DEF create_group
<1>3. /\ mints[n] = 0 /\ Draw(n, 1)
      /\ UNCHANGED <<authority, chains, deferred, net, states, sealed, seen>>
  BY DEF create_group
<1>4. PICK rec : rec = [creator |-> n, members |-> ms, secret |-> <<n, 1>>, prev |-> {},
                        generation |-> 1, key |-> <<n, 0>>, origin |-> 0, acked |-> {}, sent |-> 0]
  OBVIOUS
<1>5. rec \in Record /\ n \in rec.members
  BY <1>2, <1>4, GroupsAssumption DEF Record, Serial
<1>6. group' = [group EXCEPT ![n] = Rotated(n, rec, 1)]
  BY <1>2, <1>4 DEF NewRecord
<1>7. group[n] = NoGroup
  BY <1>3, RecordIs DEF Drawn
<1>8. NodeMoves(n)
  <2>1. /\ chains' = [chains EXCEPT ![n] = chains'[n]] /\ chains'[n] = [m \in Node |-> chains'[n][m]]
        /\ \A m \in Node : chains'[n][m] = NoChain
    BY <1>3, <1>7, ChainsRest
  <2>2. authority' = authority /\ 1 \in Nat \ {0} /\ 1 \in 1..1
    BY <1>3
  <2> QED  BY <1>1, <1>3, <1>5, <1>6, <2>1, <2>2, NodeRotates
<1> QED  BY <1>3, <1>8, QuietStep, MailRests

\* By convention the creator adds a member.
LEMMA AddPlainStep ==
  ASSUME IInv, NEW n \in Node, NEW m \in Node, group[n] # NoGroup, AddPlain(n, m),
         budget' \in [Command -> Nat]
  PROVE  IInv' /\ Forward
<1>1. group[n] \in Record /\ n \in group[n].members
  BY RecordIs
<1>2. /\ group' = [group EXCEPT ![n] = Rotated(n, [group[n] EXCEPT
                     !.members = group[n].members \cup {m}, !.generation = group[n].generation + 1], 1)]
      /\ Draw(n, 1) /\ UNCHANGED <<authority, chains, deferred, net, states, sealed, seen>>
  BY DEF AddPlain
<1>3. PICK g \in Nat : g = group[n].generation + 1
  BY <1>1 DEF Record
<1>4. PICK ms \in SUBSET Node : ms = group[n].members \cup {m}
  BY <1>1 DEF Record
<1>5. PICK a \in Record : a = [group[n] EXCEPT !.members = ms]
  BY <1>1 DEF Record
<1>6. PICK rec \in Record : rec = [a EXCEPT !.generation = g]
  BY DEF Record
<1>7. rec.members = ms
  BY <1>1, <1>5, <1>6 DEF Record
<1>8. group' = [group EXCEPT ![n] = Rotated(n, rec, 1)]
  BY <1>2, <1>3, <1>4, <1>5, <1>6, Zenon
<1>9. NodeMoves(n)
  <2>1. /\ chains' = [chains EXCEPT ![n] = chains'[n]] /\ chains'[n] = [x \in Node |-> chains'[n][x]]
        /\ \A x \in Node : chains'[n][x] # NoChain => chains'[n][x] \in Chain /\ x \in rec.members
    BY <1>2, <1>4, <1>7, ChainsRest
  <2>2. authority' = authority /\ 1 \in Nat \ {0} /\ 1 \in 1..1 /\ n \in rec.members
    BY <1>1, <1>2, <1>4, <1>7
  <2> QED  BY <1>2, <1>8, <2>1, <2>2, NodeRotates
<1> QED  BY <1>2, <1>9, QuietStep, MailRests

\* A fresh secret for those who stay.
LEMMA RekeyedIs ==
  ASSUME TypeInv, NEW n \in Node, NEW rec \in Record
  PROVE  Rekeyed(n, rec) \in Record /\ Rekeyed(n, rec).members = rec.members
<1>1. PICK g \in Nat : g = rec.generation + 1
  BY DEF Record
<1>2. PICK a \in Record : a = [rec EXCEPT !.generation = g]
  BY DEF Record
<1>3. PICK b \in Record : b = [a EXCEPT !.prev = {rec.secret}]
  BY DEF Record
<1>4. PICK secret \in Serial : secret = <<n, mints[n] + 1>>
  <2>1. mints[n] + 1 \in Nat
    BY DEF TypeInv
  <2> QED  BY <2>1 DEF Serial
<1>5. [b EXCEPT !.secret = secret] \in Record
  BY DEF Record
<1>6. Rekeyed(n, rec) = [b EXCEPT !.secret = secret]
  BY <1>1, <1>2, <1>3, <1>4, Zenon DEF Rekeyed
<1> QED  BY <1>2, <1>3, <1>5, <1>6 DEF Record

\* A member goes: its chain goes with it and the node's own is fresh.
LEMMA NodeSheds ==
  ASSUME IInv, NEW n \in Node, NEW m \in Node, m # n, group[n] # NoGroup,
         NEW rekey \in BOOLEAN,
         group' = [group EXCEPT ![n] = Rotated(n,
           IF rekey THEN Rekeyed(n, [group[n] EXCEPT !.members = group[n].members \ {m}])
                    ELSE [group[n] EXCEPT !.members = group[n].members \ {m}], 1)],
         chains' = [chains EXCEPT ![n][m] = NoChain], Draw(n, 1), authority' = authority,
         budget' \in [Command -> Nat]
  PROVE  NodeMoves(n)
<1>i. TypeInv
  BY DEF IInv
<1>1. group[n] \in Record /\ n \in group[n].members
  BY RecordIs
<1>2. PICK left : left = [group[n] EXCEPT !.members = group[n].members \ {m}]
  OBVIOUS
<1>3. left \in Record /\ left.members = group[n].members \ {m}
  BY <1>1, <1>2 DEF Record
<1>4. PICK rec : rec = IF rekey THEN Rekeyed(n, left) ELSE left
  OBVIOUS
<1>5. rec \in Record /\ rec.members = group[n].members \ {m}
  BY <1>i, <1>3, <1>4, RekeyedIs
<1>6. group' = [group EXCEPT ![n] = Rotated(n, rec, 1)]
  BY <1>2, <1>4
<1>7. chains' = [chains EXCEPT ![n] = chains'[n]] /\ chains'[n] = [x \in Node |-> chains'[n][x]]
  BY <1>i DEF TypeInv
<1>8. \A x \in Node : chains'[n][x] # NoChain => chains'[n][x] \in Chain /\ x \in rec.members
  BY <1>i, <1>5 DEF TypeInv, IInv, RowInv, RowsOK
<1>9. 1 \in Nat \ {0} /\ 1 \in 1..1 /\ n \in rec.members
  BY <1>1, <1>5
<1> QED  BY <1>5, <1>6, <1>7, <1>8, <1>9, NodeRotates

LEMMA RemovePlainStep ==
  ASSUME IInv, NEW n \in Node, NEW m \in Others(n), group[n] # NoGroup, RemovePlain(n, m),
         budget' \in [Command -> Nat]
  PROVE  IInv' /\ Forward
<1>1. m \in Node /\ m # n
  BY RecordIs DEF Others, Record
<1>2. NodeMoves(n)
  <2>1. group' = [group EXCEPT ![n] = Rotated(n,
           IF TRUE THEN Rekeyed(n, [group[n] EXCEPT !.members = group[n].members \ {m}])
                    ELSE [group[n] EXCEPT !.members = group[n].members \ {m}], 1)]
    BY DEF RemovePlain
  <2>2. /\ chains' = [chains EXCEPT ![n][m] = NoChain] /\ Draw(n, 1) /\ authority' = authority
    BY DEF RemovePlain
  <2> QED  BY <1>1, <2>1, <2>2, NodeSheds
<1>3. MailMoves
  <2>1. /\ deferred' = deferred /\ seen' = seen
        /\ \A c \in net' : c \in net \/ c = [kind |-> "remove", from |-> n, to |-> m]
    BY DEF RemovePlain
  <2>2. \A c \in net' : c \in net \/ /\ ControlOK(c)' /\ c.kind \notin Announces /\ c.kind # "ack"
    BY <1>1, <2>1 DEF ControlOK, Announces
  <2> QED  BY <2>1, <2>2 DEF MailMoves, IInv, TypeInv
<1>4. SeenMoves /\ UNCHANGED <<sealed, states>>
  BY MailRests DEF RemovePlain
<1> QED  BY <1>2, <1>3, <1>4, QuietStep

LEMMA LeaveStep ==
  ASSUME IInv, NEW n \in Node, group_leave(n)
  PROVE  IInv' /\ Forward
<1>1. budget' \in [Command -> Nat]
  BY Spends DEF IInv, group_leave, Command
<1>2. NodeMoves(n)
  BY <1>1, NodeDrops DEF group_leave
<1>3. Others(n) \subseteq Node \ {n}
  BY RecordIs DEF Others, Record, group_leave
<1>4. MailMoves
  <2>1. /\ deferred' = deferred /\ seen' = seen
        /\ \A c \in net' : c \in net \/ \E m \in Others(n) : c = [kind |-> "leave", from |-> n, to |-> m]
    BY DEF group_leave
  <2>2. \A c \in net' : c \in net \/ /\ ControlOK(c)' /\ c.kind \notin Announces /\ c.kind # "ack"
    BY <1>3, <2>1 DEF ControlOK, Announces
  <2> QED  BY <2>1, <2>2 DEF MailMoves, IInv, TypeInv
<1>5. SeenMoves /\ UNCHANGED <<sealed, states>>
  BY MailRests DEF group_leave
<1> QED  BY <1>2, <1>4, <1>5, QuietStep

LEMMA DeleteStep ==
  ASSUME IInv, NEW n \in Node, NEW c \in deferred[n], delete_group_invitation(n, c)
  PROVE  IInv' /\ Forward
<1>1. budget' \in [Command -> Nat]
  BY Spends DEF IInv, delete_group_invitation, Command
<1>2. NodeMoves(n)
  BY <1>1, NodeRests DEF delete_group_invitation
<1>3. MailMoves
  BY DEF MailMoves, delete_group_invitation, IInv, TypeInv
<1>4. SeenMoves /\ UNCHANGED <<sealed, states>>
  BY MailRests DEF delete_group_invitation, history
<1> QED  BY <1>2, <1>3, <1>4, QuietStep

LEMMA LoseStep ==
  ASSUME IInv, NEW c \in net, Lose(c)
  PROVE  IInv' /\ Forward
<1>1. budget' \in [Command -> Nat]
  BY Spends DEF IInv, Lose, Command
<1>2. Founder \in Node /\ NodeMoves(Founder)
  BY <1>1, NodeRests, GroupsAssumption DEF Lose
<1>3. MailMoves
  BY DEF MailMoves, Lose, IInv, TypeInv
<1>4. SeenMoves /\ UNCHANGED <<sealed, states>>
  BY MailRests DEF Lose
<1> QED  BY <1>2, <1>3, <1>4, QuietStep

\* An admin's request changes nothing yet.
LEMMA RequestStep ==
  ASSUME IInv, NEW n \in Node, NEW action \in {"rename", "invite", "remove"}, NEW m \in Node,
         authority[n] # NoState,
         queue_admin_request(n, action, m), budget' \in [Command -> Nat]
  PROVE  IInv' /\ Forward
<1>1. NodeMoves(n)
  BY NodeRests DEF queue_admin_request
<1>2. authority[n].owner \in Node
  BY DEF IInv, TypeInv, AuthorityState
<1>3. PICK request : /\ request.kind = "request" /\ request.from = n /\ request.to = authority[n].owner
                     /\ request.target = m /\ request.action = action /\ net' = net \cup {request}
  BY DEF queue_admin_request
<1>4. MailMoves
  <2>1. ControlOK(request)'
    BY <1>2, <1>3 DEF ControlOK, Announces
  <2> QED  BY <1>3, <2>1 DEF queue_admin_request, MailMoves, Announces, IInv, TypeInv
<1>5. SeenMoves /\ UNCHANGED <<sealed, states>>
  BY MailRests DEF queue_admin_request
<1> QED  BY <1>1, <1>4, <1>5, QuietStep

\* The chain a node encrypts under: the one in use, or the next one.
LEMMA SenderIs ==
  ASSUME IInv, NEW n \in Node, group[n] # NoGroup
  PROVE  /\ Sender(n) \in Record /\ Sender(n).members = group[n].members
         /\ \/ Sender(n) = group[n] /\ group[n].sent < GROUP_ROTATE_MSGS
            \/ /\ Sender(n) # group[n] /\ Sender(n).key = <<n, mints[n] + 1>>
               /\ Sender(n).sent = 0 /\ Sender(n).acked = {}
<1>i. TypeInv
  BY DEF IInv
<1>1. group[n] \in Record /\ Drawn(n, group[n].key)
  BY RecordIs
<1>2. CASE group[n].sent >= GROUP_ROTATE_MSGS
  <2>1. Sender(n) = Rotated(n, group[n], 1)
    BY <1>2 DEF Sender
  <2>2. /\ Sender(n) \in Record /\ Sender(n).members = group[n].members
        /\ Sender(n).acked = {} /\ Sender(n).key = <<n, mints[n] + 1>>
    BY <1>i, <1>1, <2>1, RotatedIs
  <2>3. Sender(n).sent = 0
    BY <1>1, <2>1 DEF Rotated, Record
  <2>4. mints[n] \in Nat
    BY <1>i DEF TypeInv
  <2>5. group[n].key # <<n, mints[n] + 1>>
    BY <1>1, <2>4 DEF Drawn
  <2> QED  BY <2>2, <2>3, <2>5
<1>3. CASE ~(group[n].sent >= GROUP_ROTATE_MSGS)
  BY <1>1, <1>3, GroupsAssumption DEF Sender, Record
<1> QED  BY <1>2, <1>3

LEMMA SendStep ==
  ASSUME IInv, NEW n \in Node, group_send(n)
  PROVE  IInv' /\ Forward
<1>i. TypeInv /\ RowsOK(n)
  BY DEF IInv, RowInv
<1>1. /\ budget' \in [Command -> Nat] /\ group[n] # NoGroup
      /\ UNCHANGED <<authority, chains, deferred, net, states, seen>>
  BY <1>i, Spends DEF group_send, Command
<1>2. group[n] \in Record /\ n \in group[n].members
  BY <1>1, RecordIs
<1>3. PICK snd : snd = Sender(n)
  OBVIOUS
<1>4. /\ snd \in Record /\ snd.members = group[n].members
      /\ \/ snd = group[n] /\ group[n].sent < GROUP_ROTATE_MSGS
         \/ snd # group[n] /\ snd.key = <<n, mints[n] + 1>> /\ snd.sent = 0 /\ snd.acked = {}
  BY <1>1, <1>3, SenderIs
<1>5. /\ group' = [group EXCEPT ![n] = [snd EXCEPT !.sent = snd.sent + 1]]
      /\ sealed' = sealed \cup {[from |-> n, key |-> snd.key, to |-> group[n].members]}
      /\ Draw(n, IF snd = group[n] THEN 0 ELSE 1)
  BY <1>3 DEF group_send, Seal
<1>6. PICK k : k = snd.sent + 1
  OBVIOUS
<1>7. k \in 0..GROUP_ROTATE_MSGS
  BY <1>4, <1>6, GroupsAssumption DEF Record
<1>8. PICK rec \in Record : rec = [snd EXCEPT !.sent = k]
  BY <1>4, <1>7 DEF Record
<1>9. rec.members = group[n].members /\ rec.key = snd.key /\ rec.acked = snd.acked
  BY <1>4, <1>8 DEF Record
<1>10. group'[n] = rec /\ group' = [group EXCEPT ![n] = rec]
  BY <1>i, <1>5, <1>6, <1>8 DEF TypeInv
<1>11. /\ mints' = [mints EXCEPT ![n] = mints'[n]] /\ mints'[n] \in Nat /\ mints[n] <= mints'[n]
       /\ snd = group[n] \/ Fresh(n, snd.key)
  <2>1. CASE snd = group[n]
    BY <1>i, <1>5, <2>1, Draws
  <2>2. CASE snd # group[n]
    <3>1. Draw(n, 1) /\ 1 \in Nat /\ 1 \in 1..1
      BY <1>5, <2>2
    <3> QED  BY <1>i, <1>4, <2>2, <3>1, Draws
  <2> QED  BY <2>1, <2>2
<1>12. NodeMoves(n)
  <2>1. OnlyAt(n)
    BY <1>i, <1>1, <1>10, <1>11 DEF OnlyAt, TypeInv
  <2>2. SameKey(n) \/ (group'[n].acked = {} /\ Fresh(n, group'[n].key))
    <3>1. CASE snd = group[n]
      BY <1>1, <1>9, <1>10, <3>1 DEF SameKey
    <3>2. CASE snd # group[n]
      BY <1>4, <1>9, <1>10, <1>11, <3>2
    <3> QED  BY <3>1, <3>2
  <2>3. RowsMove(n)
    BY <1>i, <1>1, <1>2, <1>9, <1>10, <2>2 DEF RowsMove, RowsOK, TypeInv
  <2> QED  BY <1>1, <2>1, <2>3 DEF NodeMoves, Onward
<1>13. SealMoves(n)
  <2> SUFFICES ASSUME NEW s \in sealed', s \notin sealed
               PROVE  /\ group[n] # NoGroup /\ s.to = group[n].members
                      /\ s.key = group[n].key \/ Fresh(n, s.key)
                      /\ group'[n].members = group[n].members
    BY DEF SealMoves
  <2>1. s.key = snd.key /\ s.to = group[n].members
    BY <1>5
  <2>2. snd.key = group[n].key \/ Fresh(n, snd.key)
    BY <1>11
  <2> QED  BY <1>1, <1>9, <1>10, <2>1, <2>2
<1>14. RankInv'
  BY <1>1 DEF IInv, RankInv, RanksOf
<1> QED  BY <1>1, <1>12, <1>13, <1>14, Step, MailRests

\* The ids of a generation stay side by side, and are integers.
LEMMA RanksGrow ==
  ASSUME RankInv, NEW g \in Nat, NEW rank \in Ranks(g), states' = states \cup {<<g, rank>>}
  PROVE  rank \in Int /\ RankInv'
<1>1. PICK lo \in Int, hi \in Int : RanksOf(g) = lo..hi
  BY DEF RankInv
<1>2. Ranks(g) = IF RanksOf(g) = {} THEN {0} ELSE {Min(RanksOf(g)) - 1, Max(RanksOf(g)) + 1}
  BY DEF Ranks, RanksOf
<1>3. \/ RanksOf(g) = {} /\ rank = 0
      \/ lo <= hi /\ rank \in {lo - 1, hi + 1}
  <2>1. CASE lo <= hi
    <3>1. Min(lo..hi) = lo
      BY <2>1 DEF Min
    <3>2. Max(lo..hi) = hi
      BY <2>1 DEF Max
    <3>3. lo \in lo..hi
      BY <2>1
    <3> QED  BY <1>1, <1>2, <2>1, <3>1, <3>2, <3>3
  <2>2. CASE ~(lo <= hi)
    BY <1>1, <1>2, <2>2
  <2> QED  BY <2>1, <2>2
<1>4. \A x \in Nat : RanksOf(x)' = IF x = g THEN RanksOf(x) \cup {rank} ELSE RanksOf(x)
  <2>1. \A x, y : y \in RanksOf(x) <=> \E id \in states : id[1] = x /\ y = id[2]
    BY DEF RanksOf
  <2>2. \A x, y : y \in RanksOf(x)' <=> \E id \in states' : id[1] = x /\ y = id[2]
    BY DEF RanksOf
  <2>3. \A x, y : y \in RanksOf(x)' <=> y \in RanksOf(x) \/ (x = g /\ y = rank)
    <3>1. PICK new : new = <<g, rank>>
      OBVIOUS
    <3>2. new[1] = g /\ new[2] = rank /\ states' = states \cup {new}
      BY <3>1
    <3> QED  BY <2>1, <2>2, <3>2
  <2> QED  BY <2>3
<1>5. \E a, b \in Int : RanksOf(g) \cup {rank} = a..b
  <2>1. CASE RanksOf(g) = {} /\ rank = 0
    <3>1. {0} = 0..0
      OBVIOUS
    <3> QED  BY <2>1, <3>1
  <2>2. CASE lo <= hi /\ rank = lo - 1
    <3>1. (lo..hi) \cup {rank} = (lo - 1)..hi /\ lo - 1 \in Int
      BY <2>2
    <3> QED  BY <1>1, <3>1
  <2>3. CASE lo <= hi /\ rank = hi + 1
    <3>1. (lo..hi) \cup {rank} = lo..(hi + 1) /\ hi + 1 \in Int
      BY <2>3
    <3> QED  BY <1>1, <3>1
  <2> QED  BY <1>3, <2>1, <2>2, <2>3
<1>6. RankInv'
  <2> SUFFICES ASSUME NEW x \in Nat PROVE \E a, b \in Int : RanksOf(x)' = a..b
    BY DEF RankInv
  <2>1. CASE x = g
    BY <1>4, <1>5, <2>1
  <2>2. CASE x # g
    BY <1>4, <2>2 DEF RankInv
  <2> QED  BY <2>1, <2>2
<1> QED  BY <1>1, <1>3, <1>6

\* A state that follows s, with n still in it.
GoesOn(n, s, next) ==
  /\ StateOK(next) /\ n \in Members(next)
  /\ next.generation = s.generation + 1 /\ IsPrefix(s.transfers, next.transfers)

\* A signed change: the message, the state, the roster and the chain at once.
LEMMA CommitMoves ==
  ASSUME IInv, NEW n \in Node, NEW next, NEW rank, StateOK(next), n \in Members(next),
         authority[n] # NoState => GoesOn(n, authority[n], next),
         CommitState(n, next, rank), budget' \in [Command -> Nat]
  PROVE  NodeMoves(n) /\ SealMoves(n) /\ RankInv' /\ authority'[n] = [next EXCEPT !.rank = rank]
<1>i. TypeInv /\ RowsOK(n) /\ RankInv
  BY DEF IInv, RowInv
<1>1. PICK s : s = [next EXCEPT !.rank = rank]
  OBVIOUS
<1>2. /\ s.generation = next.generation /\ s.owner = next.owner /\ s.role = next.role
      /\ s.secret = next.secret /\ s.rank = rank
  BY <1>1 DEF StateOK, AuthorityState
<1>3. /\ group[n] # NoGroup /\ rank \in Ranks(s.generation)
      /\ states' = states \cup {<<s.generation, s.rank>>}
      /\ authority' = [authority EXCEPT ![n] = s]
      /\ group' = [group EXCEPT ![n] = Rotated(n, [Sender(n) EXCEPT
           !.prev = {group[n].secret}, !.secret = s.secret, !.creator = s.owner,
           !.generation = s.generation, !.members = Members(s)], 2)]
      /\ chains' = [chains EXCEPT ![n] =
           [m \in Node |-> IF m \in group[n].members \ Members(s) THEN NoChain ELSE chains[n][m]]]
      /\ sealed' = sealed \cup {[from |-> n, key |-> Sender(n).key, to |-> group[n].members]}
      /\ Draw(n, 2)
  BY <1>1 DEF CommitState, Seal, StateId
<1>4. /\ s.generation \in Nat /\ s.owner \in Node /\ s.secret \in Serial /\ s.role \in [Node -> Role]
      /\ s.role[s.owner] = "owner" /\ Members(s) \subseteq Node /\ n \in Members(s)
  BY <1>2 DEF StateOK, AuthorityState, Members
<1>5. rank \in Int /\ RankInv'
  BY <1>i, <1>2, <1>3, <1>4, RanksGrow
<1>6. StateOK(s)
  <2>1. s \in AuthorityState(Serial)
    BY <1>1, <1>5 DEF StateOK, AuthorityState
  <2> QED  BY <1>4, <2>1 DEF StateOK
<1>7. group[n] \in Record /\ Drawn(n, group[n].key)
  BY <1>3, RecordIs
<1>8. PICK snd : snd = Sender(n)
  OBVIOUS
<1>9. snd \in Record /\ (snd = group[n] \/ snd.key = <<n, mints[n] + 1>>)
  BY <1>3, <1>8, SenderIs
<1>10. PICK rec : rec = [snd EXCEPT
           !.prev = {group[n].secret}, !.secret = s.secret, !.creator = s.owner,
           !.generation = s.generation, !.members = Members(s)]
  OBVIOUS
<1>11. rec \in Record /\ rec.members = Members(s)
  <2>0. PICK prev \in SUBSET Serial : prev = {group[n].secret}
    BY <1>7 DEF Record
  <2>1. PICK a \in Record : a = [snd EXCEPT !.prev = prev]
    BY <1>9 DEF Record
  <2>2. PICK b \in Record : b = [a EXCEPT !.secret = s.secret]
    BY <1>4 DEF Record
  <2>3. PICK c \in Record : c = [b EXCEPT !.creator = s.owner]
    BY <1>4 DEF Record
  <2>4. PICK d \in Record : d = [c EXCEPT !.generation = s.generation]
    BY <1>4 DEF Record
  <2>5. [d EXCEPT !.members = Members(s)] \in Record
    BY <1>4 DEF Record
  <2>6. rec = [d EXCEPT !.members = Members(s)]
    BY <1>10, <2>0, <2>1, <2>2, <2>3, <2>4, Zenon
  <2> QED  BY <2>4, <2>5, <2>6 DEF Record
<1>12. PICK new : new = Rotated(n, rec, 2)
  OBVIOUS
<1>13. new \in Record /\ new.members = Members(s) /\ new.acked = {} /\ new.key = <<n, mints[n] + 2>>
  BY <1>i, <1>11, <1>12, RotatedIs
<1>14. group' = [group EXCEPT ![n] = new] /\ group'[n] = new
  <2>1. group' = [group EXCEPT ![n] = new]
    BY <1>3, <1>8, <1>10, <1>12
  <2> QED  BY <1>i, <2>1 DEF TypeInv
<1>15. /\ mints' = [mints EXCEPT ![n] = mints'[n]] /\ mints'[n] \in Nat /\ mints[n] <= mints'[n]
       /\ Fresh(n, <<n, mints[n] + 1>>) /\ Fresh(n, <<n, mints[n] + 2>>)
  <2>1. 2 \in Nat /\ 1 \in 1..2 /\ 2 \in 1..2
    OBVIOUS
  <2> QED  BY <1>i, <1>3, <2>1, Draws
<1>16. /\ authority'[n] = s
       /\ chains'[n] = [m \in Node |-> IF m \in group[n].members \ Members(s) THEN NoChain ELSE chains[n][m]]
  BY <1>i, <1>3 DEF TypeInv
<1>17. OnlyAt(n)
  <2>1. chains' = [chains EXCEPT ![n] = chains'[n]]
    BY <1>3, <1>16
  <2>2. chains'[n] = [m \in Node |-> chains'[n][m]]
    BY <1>16
  <2>3. authority' = [authority EXCEPT ![n] = authority'[n]]
    BY <1>3, <1>16
  <2> QED  BY <1>14, <1>15, <2>1, <2>2, <2>3 DEF OnlyAt
<1>18. \A m \in Node : chains'[n][m] # NoChain => chains'[n][m] \in Chain /\ m \in Members(s)
  BY <1>i, <1>16 DEF RowsOK, TypeInv
<1>19. RowsMove(n)
  BY <1>4, <1>6, <1>13, <1>14, <1>15, <1>16, <1>18 DEF RowsMove
<1>20. SealMoves(n)
  <2>1. mints[n] \in Nat
    BY <1>i DEF TypeInv
  <2>2. snd.key # <<n, mints[n] + 2>>
    BY <1>7, <1>9, <2>1 DEF Drawn
  <2>3. snd.key = group[n].key \/ Fresh(n, snd.key)
    BY <1>9, <1>15
  <2> QED  BY <1>3, <1>8, <1>13, <1>14, <2>2, <2>3 DEF SealMoves
<1>21. Onward(n)
  <2> SUFFICES ASSUME authority[n] # NoState
               PROVE  /\ s.generation > authority[n].generation
                      /\ IsPrefix(authority[n].transfers, s.transfers)
    BY <1>16 DEF Onward, Supersedes
  <2>1. /\ next.generation = authority[n].generation + 1
        /\ IsPrefix(authority[n].transfers, next.transfers)
    BY DEF GoesOn
  <2>2. s.transfers = next.transfers
    BY <1>1 DEF StateOK, AuthorityState
  <2>3. authority[n].generation \in Nat
    BY <1>i DEF RowsOK, StateOK, AuthorityState
  <2> QED  BY <1>2, <2>1, <2>2, <2>3
<1> QED  BY <1>1, <1>5, <1>16, <1>17, <1>19, <1>20, <1>21 DEF NodeMoves

\* The owner keeps its role whatever becomes of another member's.
LEMMA RoleIs ==
  ASSUME NEW n \in Node, NEW s, StateOK(s), s.owner = n, NEW m \in Node, m # n, NEW r \in Role
  PROVE  /\ StateOK(SetRole(s, m, r)) /\ SetRole(s, m, r).owner = n
         /\ SetRole(s, m, r).generation = s.generation
         /\ SetRole(s, m, r).transfers = s.transfers
<1>1. s \in AuthorityState(Serial) /\ s.role[n] = "owner"
  BY DEF StateOK
<1>2. PICK role : role = [s.role EXCEPT ![m] = r]
  OBVIOUS
<1>3. role \in [Node -> Role] /\ role[n] = "owner"
  BY <1>1, <1>2 DEF AuthorityState
<1>4. SetRole(s, m, r) = [s EXCEPT !.role = role]
  BY <1>2 DEF SetRole
<1>5. [s EXCEPT !.role = role] \in AuthorityState(Serial)
  BY <1>1, <1>3 DEF AuthorityState
<1>6. /\ [s EXCEPT !.role = role].owner = n /\ [s EXCEPT !.role = role].role = role
      /\ [s EXCEPT !.role = role].generation = s.generation
      /\ [s EXCEPT !.role = role].transfers = s.transfers
  BY <1>1 DEF AuthorityState
<1> QED  BY <1>3, <1>4, <1>5, <1>6 DEF StateOK

\* The secret of a commit.
LEMMA SecretIs ==
  ASSUME TypeInv, NEW n \in Node
  PROVE  Secret(n) \in Serial
<1>1. mints[n] + 2 \in Nat
  BY DEF TypeInv
<1> QED  BY <1>1 DEF Secret, Serial

LEMMA NextIs ==
  ASSUME TypeInv, NEW n \in Node, NEW s, NEW t, StateOK(t), t.owner = n,
         t.generation = s.generation, t.transfers = s.transfers
  PROVE  GoesOn(n, s, Next1(n, t))
<1>1. t \in AuthorityState(Serial) /\ t.role[n] = "owner"
  BY DEF StateOK
<1>2. PICK secret \in Serial : secret = Secret(n)
  BY SecretIs
<1>3. PICK g \in Nat : g = t.generation + 1
  BY <1>1 DEF AuthorityState
<1>4. PICK a \in AuthorityState(Serial) : a = [t EXCEPT !.generation = g]
  BY <1>1 DEF AuthorityState
<1>5. PICK b \in AuthorityState(Serial) : b = [a EXCEPT !.signer = t.owner]
  BY DEF AuthorityState
<1>6. PICK next \in AuthorityState(Serial) : next = [b EXCEPT !.secret = secret]
  BY DEF AuthorityState
<1>7. Next1(n, t) = next
  BY <1>2, <1>3, <1>4, <1>5, <1>6, Zenon DEF Next1, prepare_next_state
<1>8. a.owner = n /\ a.role = t.role /\ a.generation = g /\ a.transfers = t.transfers
  BY <1>1, <1>4 DEF AuthorityState
<1>9. b.owner = n /\ b.role = t.role /\ b.generation = g /\ b.transfers = t.transfers
  BY <1>5, <1>8 DEF AuthorityState
<1>10. next.owner = n /\ next.role = t.role /\ next.generation = g /\ next.transfers = t.transfers
  BY <1>6, <1>9 DEF AuthorityState
<1>11. IsPrefix(s.transfers, next.transfers)
  <2>1. PICK l : l = s.transfers
    OBVIOUS
  <2>2. l \in Seq([from: Node, to: Node, generation: Nat])
    BY <1>1, <2>1 DEF AuthorityState
  <2>3. IsPrefix(l, l)
    BY <2>2 DEF IsPrefix
  <2> QED  BY <1>10, <2>1, <2>3
<1>12. StateOK(next) /\ n \in Members(next)
  BY <1>1, <1>10 DEF StateOK, Members
<1> QED  BY <1>3, <1>7, <1>10, <1>11, <1>12 DEF GoesOn

LEMMA TransferIs ==
  ASSUME TypeInv, NEW n \in Node, NEW s, StateOK(s), s.owner = n, NEW m \in Node, m # n
  PROVE  GoesOn(n, s, Transferred(s, m, Secret(n)))
<1>1. s \in AuthorityState(Serial) /\ s.role[n] = "owner"
  BY DEF StateOK
<1>2. PICK secret \in Serial : secret = Secret(n)
  BY SecretIs
<1>3. PICK g \in Nat : g = s.generation + 1
  BY <1>1 DEF AuthorityState
<1>4. PICK role : role = [s.role EXCEPT ![n] = "admin", ![m] = "owner"]
  OBVIOUS
<1>5. role \in [Node -> Role] /\ role[m] = "owner" /\ role[n] = "admin"
  BY <1>1, <1>4 DEF AuthorityState, Role
<1>6. PICK x : x = [from |-> n, to |-> m, generation |-> g]
  OBVIOUS
<1>7. x \in [from: Node, to: Node, generation: Nat]
  BY <1>6
<1>8. PICK l : l = s.transfers
  OBVIOUS
<1>9. l \in Seq([from: Node, to: Node, generation: Nat])
  BY <1>1, <1>8 DEF AuthorityState
<1>10. PICK line \in Seq([from: Node, to: Node, generation: Nat]) : line = Append(l, x)
  <2>1. PICK T : T = [from: Node, to: Node, generation: Nat]
    OBVIOUS
  <2>2. l \in Seq(T) /\ x \in T
    BY <1>7, <1>9, <2>1
  <2>3. Append(l, x) \in Seq(T)
    BY <2>2, AppendProperties
  <2> QED  BY <2>1, <2>3
<1>11. IsPrefix(l, line)
  BY <1>7, <1>9, <1>10, AppendProperties DEF IsPrefix
<1>12. PICK a \in AuthorityState(Serial) : a = [s EXCEPT !.role = role]
  BY <1>1, <1>5 DEF AuthorityState
<1>13. PICK b \in AuthorityState(Serial) : b = [a EXCEPT !.owner = m]
  BY DEF AuthorityState
<1>14. PICK c \in AuthorityState(Serial) : c = [b EXCEPT !.signer = n]
  BY DEF AuthorityState
<1>15. PICK d \in AuthorityState(Serial) : d = [c EXCEPT !.generation = g]
  BY DEF AuthorityState
<1>16. PICK e \in AuthorityState(Serial) : e = [d EXCEPT !.secret = secret]
  BY DEF AuthorityState
<1>17. PICK next \in AuthorityState(Serial) : next = [e EXCEPT !.transfers = line]
  BY DEF AuthorityState
<1>18. Transferred(s, m, Secret(n)) = next
  BY <1>2, <1>3, <1>4, <1>6, <1>8, <1>10, <1>12, <1>13, <1>14, <1>15, <1>16, <1>17, Zenon
  DEF Transferred
<1>19. b.owner = m /\ b.role = role
  BY <1>12, <1>13 DEF AuthorityState
<1>20. d.owner = m /\ d.role = role /\ d.generation = g
  BY <1>14, <1>15, <1>19 DEF AuthorityState
<1>21. next.owner = m /\ next.role = role /\ next.generation = g /\ next.transfers = line
  BY <1>16, <1>17, <1>20 DEF AuthorityState
<1>22. StateOK(next) /\ n \in Members(next)
  BY <1>5, <1>21 DEF StateOK, Members
<1> QED  BY <1>3, <1>8, <1>11, <1>18, <1>21, <1>22 DEF GoesOn

\* Whatever is signed: nothing new reaches anyone but the notice of a removal.
LEMMA CommitStep ==
  ASSUME IInv, NEW n \in Node, NEW next, NEW rank, StateOK(next), n \in Members(next),
         authority[n] # NoState => GoesOn(n, authority[n], next),
         CommitState(n, next, rank), budget' \in [Command -> Nat],
         UNCHANGED <<deferred, seen>>, NEW m \in Node,
         \A c \in net' : c \in net \/ c = AuthorityRemove(n, m, authority'[n])
  PROVE  IInv' /\ Forward
<1>1. NodeMoves(n) /\ SealMoves(n) /\ RankInv'
  BY CommitMoves
<1>2. SeenMoves
  BY MailRests
<1>3. MailMoves
  <2>1. \A s : AuthorityRemove(n, m, s).kind = "expel" /\ AuthorityRemove(n, m, s).from = n
               /\ AuthorityRemove(n, m, s).to = m
    BY DEF AuthorityRemove
  <2>2. ASSUME NEW c \in net', c \notin net
        PROVE  ControlOK(c)' /\ c.kind \notin Announces /\ c.kind # "ack"
    <3>1. c.kind = "expel" /\ c.from = n /\ c.to = m
      BY <2>1, <2>2
    <3> QED  BY <3>1 DEF ControlOK, Announces
  <2> QED  BY <2>2 DEF MailMoves, IInv, TypeInv
<1> QED  BY <1>1, <1>2, <1>3, Step

LEMMA OwnerStep ==
  ASSUME IInv, NEW n \in Node, NEW next, GoesOn(n, authority[n], next), OwnerCommits(n, next),
         budget' \in [Command -> Nat], NEW m \in Node,
         \A c \in net' : c \in net \/ c = AuthorityRemove(n, m, authority'[n])
  PROVE  IInv' /\ Forward
<1>1. PICK rank : CommitState(n, next, rank)
  BY DEF OwnerCommits
<1>2. UNCHANGED <<deferred, seen>>
  BY DEF OwnerCommits
<1> QED  BY <1>1, <1>2, CommitStep DEF GoesOn

\* What the owner of a signed group knows.
LEMMA OwnedIs ==
  ASSUME IInv, NEW n \in Node, Owns(n)
  PROVE  StateOK(authority[n]) /\ authority[n].owner = n
BY DEF IInv, RowInv, RowsOK, Owns

LEMMA UpgradeStep ==
  ASSUME IInv, NEW n \in Node, group_upgrade_authority(n)
  PROVE  IInv' /\ Forward
<1>i. TypeInv
  BY DEF IInv
<1>1. budget' \in [Command -> Nat]
  BY <1>i, Spends DEF group_upgrade_authority, Command
<1>2. group[n] \in Record
  BY RecordIs DEF group_upgrade_authority
<1>3. PICK next : next = FirstState(n, group[n].members, group[n].generation, Secret(n))
  OBVIOUS
<1>4. PICK role : role = [m \in Node |-> IF m = n THEN "owner"
                                         ELSE IF m \in group[n].members THEN "member" ELSE "none"]
  OBVIOUS
<1>5. role \in [Node -> Role] /\ role[n] = "owner"
  BY <1>4 DEF Role
<1>6. group[n].generation + 1 \in Nat /\ Secret(n) \in Serial
  BY <1>i, <1>2, SecretIs DEF Record
<1>7. next = [generation |-> group[n].generation + 1, rank |-> 0, original_owner |-> n,
              owner |-> n, signer |-> n, secret |-> Secret(n), transfers |-> <<>>, role |-> role]
  BY <1>3, <1>4 DEF FirstState
<1>8. <<>> \in Seq([from: Node, to: Node, generation: Nat])
  OBVIOUS
<1>9. next \in AuthorityState(Serial) /\ next.owner = n /\ next.role = role
  BY <1>5, <1>6, <1>7, <1>8 DEF AuthorityState
<1>10. StateOK(next) /\ n \in Members(next)
  BY <1>5, <1>9 DEF StateOK, Members
<1>11. CommitState(n, next, 0) /\ UNCHANGED <<deferred, net, seen>> /\ authority[n] = NoState
  BY <1>3 DEF group_upgrade_authority
<1> QED  BY <1>1, <1>10, <1>11, CommitStep

LEMMA RoleStep ==
  ASSUME IInv, NEW n \in Node, group_set_role(n)
  PROVE  IInv' /\ Forward
<1>i. TypeInv
  BY DEF IInv
<1>1. budget' \in [Command -> Nat]
  BY <1>i, Spends DEF group_set_role, Command
<1>2. StateOK(authority[n]) /\ authority[n].owner = n
  BY OwnedIs DEF group_set_role
<1>3. PICK m \in Members(authority[n]) \ {n}, r \in {"member", "admin"} :
        OwnerCommits(n, Next1(n, SetRole(authority[n], m, r)))
  BY DEF group_set_role
<1>4. m \in Node /\ m # n /\ r \in Role
  BY DEF Members, Role
<1>5. GoesOn(n, authority[n], Next1(n, SetRole(authority[n], m, r)))
  BY <1>i, <1>2, <1>4, RoleIs, NextIs
<1>6. net' = net
  BY DEF group_set_role
<1> QED  BY <1>1, <1>3, <1>4, <1>5, <1>6, OwnerStep

LEMMA TransferStep ==
  ASSUME IInv, NEW n \in Node, group_transfer_owner(n)
  PROVE  IInv' /\ Forward
<1>i. TypeInv
  BY DEF IInv
<1>1. budget' \in [Command -> Nat]
  BY <1>i, Spends DEF group_transfer_owner, Command
<1>2. StateOK(authority[n]) /\ authority[n].owner = n
  BY OwnedIs DEF group_transfer_owner
<1>3. PICK m \in Members(authority[n]) \ {n} :
        OwnerCommits(n, Transferred(authority[n], m, Secret(n)))
  BY DEF group_transfer_owner
<1>4. m \in Node /\ m # n
  BY DEF Members
<1>5. GoesOn(n, authority[n], Transferred(authority[n], m, Secret(n)))
  BY <1>i, <1>2, <1>4, TransferIs
<1>6. net' = net
  BY DEF group_transfer_owner
<1> QED  BY <1>1, <1>3, <1>4, <1>5, <1>6, OwnerStep

LEMMA RenameStep ==
  ASSUME IInv, NEW n \in Node, group_rename(n)
  PROVE  IInv' /\ Forward
<1>i. TypeInv
  BY DEF IInv
<1>1. budget' \in [Command -> Nat] /\ authority[n] # NoState
  BY <1>i, Spends DEF group_rename, Command
<1>2. CASE OwnerCommits(n, Next1(n, authority[n])) /\ UNCHANGED net
  <2>1. StateOK(authority[n]) /\ authority[n].owner = n
    BY <1>2, OwnedIs DEF OwnerCommits
  <2>2. GoesOn(n, authority[n], Next1(n, authority[n]))
    BY <1>i, <2>1, NextIs
  <2> QED  BY <1>1, <1>2, <2>2, OwnerStep
<1>3. CASE queue_admin_request(n, "rename", n)
  BY <1>1, <1>3, RequestStep
<1> QED  BY <1>2, <1>3 DEF group_rename

LEMMA AddStep ==
  ASSUME IInv, NEW n \in Node, group_add(n)
  PROVE  IInv' /\ Forward
<1>i. TypeInv
  BY DEF IInv
<1>1. budget' \in [Command -> Nat] /\ group[n] # NoGroup
  BY <1>i, Spends DEF group_add, Command
<1>2. PICK m \in Node \ group[n].members :
        IF authority[n] # NoState THEN group_authority_add_member(n, m) ELSE AddPlain(n, m)
  BY DEF group_add
<1>3. m # n
  BY <1>1, RecordIs
<1>4. CASE authority[n] = NoState
  BY <1>1, <1>2, <1>4, AddPlainStep
<1>5. CASE OwnerCommits(n, Next1(n, Admitted(authority[n], m))) /\ UNCHANGED net
  <2>1. StateOK(authority[n]) /\ authority[n].owner = n
    BY <1>5, OwnedIs DEF OwnerCommits
  <2>2. "member" \in Role
    BY DEF Role
  <2>3. GoesOn(n, authority[n], Next1(n, Admitted(authority[n], m)))
    BY <1>i, <1>3, <2>1, <2>2, RoleIs, NextIs DEF Admitted
  <2> QED  BY <1>1, <1>5, <2>3, OwnerStep
<1>6. CASE authority[n] # NoState /\ queue_admin_request(n, "invite", m)
  BY <1>1, <1>6, RequestStep
<1> QED  BY <1>2, <1>4, <1>5, <1>6 DEF group_authority_add_member

LEMMA RemoveStep ==
  ASSUME IInv, NEW n \in Node, group_remove(n)
  PROVE  IInv' /\ Forward
<1>i. TypeInv
  BY DEF IInv
<1>1. budget' \in [Command -> Nat] /\ group[n] # NoGroup
  BY <1>i, Spends DEF group_remove, Command
<1>2. PICK m \in Others(n) :
        IF authority[n] # NoState
          THEN /\ m \in Members(authority[n]) \ {authority[n].owner}
               /\ group_authority_remove_member(n, m)
          ELSE RemovePlain(n, m)
  BY DEF group_remove
<1>3. m \in Node /\ m # n
  BY <1>1, RecordIs DEF Others, Record
<1>4. CASE authority[n] = NoState
  BY <1>1, <1>2, <1>4, RemovePlainStep
<1>5. CASE /\ OwnerCommits(n, Next1(n, Expelled(authority[n], m)))
           /\ \A c \in net' : c \in net \/ c = AuthorityRemove(n, m, authority'[n])
  <2>1. StateOK(authority[n]) /\ authority[n].owner = n
    BY <1>5, OwnedIs DEF OwnerCommits
  <2>2. "none" \in Role
    BY DEF Role
  <2>3. GoesOn(n, authority[n], Next1(n, Expelled(authority[n], m)))
    BY <1>i, <1>3, <2>1, <2>2, RoleIs, NextIs DEF Expelled
  <2> QED  BY <1>1, <1>3, <1>5, <2>3, OwnerStep
<1>6. CASE authority[n] # NoState /\ queue_admin_request(n, "remove", m)
  BY <1>1, <1>3, <1>6, RequestStep
<1> QED  BY <1>2, <1>4, <1>5, <1>6 DEF group_authority_remove_member

\* An announce of the chain in use, to a member that has not acknowledged it.
LEMMA TickStep ==
  ASSUME IInv, NEW n \in Node, tick_groups(n)
  PROVE  IInv' /\ Forward
<1>i. TypeInv /\ RowInv /\ MailInv /\ AudienceInv /\ AcknowledgedIsHeld
  BY DEF IInv
<1>1. /\ group[n] # NoGroup /\ UNCHANGED <<group, authority, chains, deferred, mints, states,
                                           budget, sealed, seen>>
      /\ net' = net \cup {AnnounceOf(n, m) : m \in Others(n) \ group[n].acked}
  BY DEF tick_groups
<1>2. group[n] \in Record /\ n \in group[n].members /\ Drawn(n, group[n].key)
  BY <1>1, RecordIs
<1>3. ASSUME NEW m \in Others(n)
      PROVE  /\ ControlOK(AnnounceOf(n, m)) /\ AnnounceOf(n, m).kind \in Announces
             /\ AnnounceOf(n, m).key = group[n].key /\ AnnounceOf(n, m).to = m
  <2>1. m \in Node
    BY <1>2, <1>3 DEF Others, Record
  <2>2. CASE authority[n] = NoState
    <3>1. PICK c : c = AnnounceOf(n, m)
      OBVIOUS
    <3>2. /\ c.kind = "announce" /\ c.from = n /\ c.to = m /\ c.secret = group[n].secret
          /\ c.key = group[n].key /\ c.origin = group[n].origin /\ c.creator = group[n].creator
          /\ c.generation = group[n].generation
          /\ c.members = IF group[n].creator = n THEN group[n].members ELSE {}
      BY <2>2, <3>1 DEF AnnounceOf
    <3>3. c.members \subseteq Node /\ (c.members # {} => n \in c.members)
      BY <1>2, <3>2 DEF Record
    <3>4. ControlOK(c)
      BY <1>2, <2>1, <3>2, <3>3 DEF ControlOK, Announces, Record
    <3> QED  BY <3>1, <3>2, <3>4 DEF Announces
  <2>3. CASE authority[n] # NoState
    <3>1. PICK c : c = AnnounceOf(n, m)
      OBVIOUS
    <3>2. /\ c.kind = "signed" /\ c.from = n /\ c.to = m /\ c.secret = group[n].secret
          /\ c.key = group[n].key /\ c.origin = group[n].origin /\ c.state = authority[n]
      BY <2>3, <3>1 DEF AnnounceOf
    <3>3. StateOK(c.state)
      BY <1>i, <2>3, <3>2 DEF RowInv, RowsOK
    <3>4. ControlOK(c)
      BY <1>2, <2>1, <3>2, <3>3 DEF ControlOK, Announces, Record
    <3> QED  BY <3>1, <3>2, <3>4 DEF Announces
  <2> QED  BY <2>2, <2>3
<1>4. \A c \in net' : c \in net \/ \E m \in Others(n) : c = AnnounceOf(n, m)
  BY <1>1
<1>5. TypeInv' /\ RowInv' /\ AcknowledgedIsHeld' /\ RankInv'
  <2>1. TypeInv' /\ AcknowledgedIsHeld'
    BY <1>i, <1>1 DEF TypeInv, AcknowledgedIsHeld
  <2>2. RowInv'
    BY <1>i, <1>1 DEF RowInv, RowsOK, Drawn, StateOK
  <2>3. RankInv'
    BY <1>1 DEF IInv, RankInv, RanksOf
  <2> QED  BY <2>1, <2>2, <2>3
<1>6. \A c : ControlOK(c) => ControlOK(c)'
  BY <1>1 DEF ControlOK, StateOK, Drawn
<1>7. MailInv'
  <2>1. ASSUME NEW c \in net' PROVE ControlOK(c)' /\ (c.kind = "ack" => c.key \in seen'[c.from])
    <3>1. CASE c \in net
      BY <1>i, <1>1, <1>6, <3>1 DEF MailInv
    <3>2. CASE c \notin net
      <4>1. ControlOK(c) /\ c.kind \in Announces
        BY <1>3, <1>4, <3>2
      <4> QED  BY <1>6, <4>1 DEF Announces
    <3> QED  BY <3>1, <3>2
  <2>2. \A x \in Node : \A c \in deferred'[x] : ControlOK(c)' /\ Kept(x, c)'
    BY <1>i, <1>1, <1>6 DEF MailInv, Kept
  <2> QED  BY <2>1, <2>2 DEF MailInv
<1>8. ASSUME NEW key, NEW m, Announced(key, m)'
      PROVE  Announced(key, m) \/ (key = group[n].key /\ m \in group[n].members)
  <2>1. ASSUME NEW c \in net', c.kind \in Announces, c.key = key, c.to = m
        PROVE  c \in net \/ (key = group[n].key /\ m \in group[n].members)
    BY <1>3, <1>4, <2>1 DEF Others
  <2> QED  BY <1>1, <1>8, <2>1 DEF Announced
<1>9. AudienceInv'
  <2>1. /\ \A m \in Node : \A key \in seen'[m] : \E x \in Node : Drawn(x, key)'
        /\ \A s \in sealed' : \E x \in Node : Drawn(x, s.key)'
    BY <1>i, <1>1 DEF AudienceInv, Drawn
  <2>2. ASSUME NEW x \in Node, NEW m \in Node, group'[x] # NoGroup, Announced(group[x].key, m)'
        PROVE  m \in group'[x].members
    <3>1. PICK key : key = group[x].key
      OBVIOUS
    <3>2. Announced(key, m)' /\ group[x] # NoGroup
      BY <1>1, <2>2, <3>1
    <3>3. CASE Announced(key, m)
      BY <1>i, <1>1, <3>1, <3>2, <3>3 DEF AudienceInv
    <3>4. CASE key = group[n].key /\ m \in group[n].members
      <4>1. Drawn(x, key)
        BY <1>i, <3>1, <3>2 DEF RowInv, RowsOK
      <4>2. x = n
        BY <1>2, <3>4, <4>1 DEF Drawn
      <4> QED  BY <1>1, <3>4, <4>2
    <3> QED  BY <1>8, <3>2, <3>3, <3>4
  <2>3. ASSUME NEW s \in sealed', NEW m \in Node, Announced(s.key, m)' PROVE m \in s.to
    <3>1. s \in sealed
      BY <1>1
    <3>2. CASE Announced(s.key, m)
      BY <1>i, <3>1, <3>2 DEF AudienceInv
    <3>3. CASE s.key = group[n].key /\ m \in group[n].members
      BY <1>i, <1>1, <3>1, <3>3 DEF AudienceInv
    <3> QED  BY <1>8, <2>3, <3>2, <3>3
  <2>4. \A s \in sealed' : \A x \in Node :
          group'[x] # NoGroup /\ group'[x].key = s.key => group'[x].members \subseteq s.to
    BY <1>i, <1>1 DEF AudienceInv
  <2> QED  BY <2>1, <2>2, <2>3, <2>4 DEF AudienceInv
<1>10. Forward
  BY <1>1 DEF Forward, Onward
<1> QED  BY <1>5, <1>7, <1>9, <1>10 DEF IInv

-----------------------------------------------------------------------------
(* Controls *)

\* Node n has control c, from a carrier or from its own queue.
Has(n, c) ==
  /\ c \in net \/ c \in deferred[n]
  /\ ControlOK(c) /\ c.to = n /\ c.kind # "ack"
  /\ c.kind \in Announces => c.key \in seen'[n]

\* What a handler sends is not an announce.
Answers(out) ==
  \A d \in out : /\ ControlOK(d)' /\ d.kind \notin Announces
                 /\ d.kind = "ack" => d.key \in seen'[d.from]

LEMMA MailDone ==
  ASSUME IInv, NEW n \in Node, NEW c, NEW out, Done(n, c, out), Answers(out)
  PROVE  MailMoves
<1>1. deferred' = [deferred EXCEPT ![n] = deferred[n] \ {c}] /\ net' = (net \ {c}) \cup out
  BY DEF Done
<1>2. deferred = [x \in Node |-> deferred[x]]
  BY DEF IInv, TypeInv
<1>3. \A x \in Node : deferred'[x] \subseteq deferred[x]
  BY <1>1, <1>2
<1>4. deferred' = [x \in Node |-> deferred'[x]]
  BY <1>1, <1>2
<1> QED  BY <1>1, <1>3, <1>4 DEF MailMoves, Answers

LEMMA MailKept ==
  ASSUME IInv, NEW n \in Node, NEW c, Has(n, c), NEW out, Answers(out),
         net' = (net \ {c}) \cup out, deferred' = [deferred EXCEPT ![n] = deferred[n] \cup {c}]
  PROVE  MailMoves
<1>1. deferred = [x \in Node |-> deferred[x]]
  BY DEF IInv, TypeInv
<1>2. \A x \in Node : deferred'[x] = IF x = n THEN deferred[n] \cup {c} ELSE deferred[x]
  BY <1>1
<1>3. Kept(n, c)'
  BY DEF Has, Kept
<1>4. deferred' = [x \in Node |-> deferred'[x]]
  BY <1>1
<1> QED  BY <1>2, <1>3, <1>4 DEF MailMoves, Answers, Has

LEMMA KeepStep ==
  ASSUME IInv, NEW n \in Node, NEW c, Has(n, c), SeenMoves, budget' = budget,
         Keep(n, c) \/ Discard(n, c)
  PROVE  IInv' /\ Forward
<1>1. budget' \in [Command -> Nat]
  BY DEF IInv, TypeInv
<1>2. UNCHANGED <<group, authority, chains, mints, states, sealed>>
  BY DEF Keep, Discard
<1>3. NodeMoves(n)
  BY <1>1, <1>2, NodeRests
<1>4. Answers({})
  BY DEF Answers
<1>5. MailMoves
  <2>1. CASE Keep(n, c)
    <3>1. net' = (net \ {c}) \cup {} /\ deferred' = [deferred EXCEPT ![n] = deferred[n] \cup {c}]
      BY <2>1 DEF Keep
    <3> QED  BY <1>4, <3>1, MailKept
  <2>2. CASE Discard(n, c)
    BY <1>4, <2>2, MailDone DEF Discard
  <2> QED  BY <2>1, <2>2
<1> QED  BY <1>2, <1>3, <1>5, QuietStep

LEMMA RemoveMeStep ==
  ASSUME IInv, NEW n \in Node, NEW c, Has(n, c), SeenMoves, budget' = budget, RemoveMe(n, c)
  PROVE  IInv' /\ Forward
<1>1. budget' \in [Command -> Nat]
  BY DEF IInv, TypeInv
<1>2. NodeMoves(n)
  BY <1>1, NodeDrops DEF RemoveMe
<1>3. Answers({})
  BY DEF Answers
<1>4. MailMoves
  BY <1>3, MailDone DEF RemoveMe
<1> QED  BY <1>2, <1>4, QuietStep DEF RemoveMe

LEMMA FinishStep ==
  ASSUME IInv, NEW n \in Node, NEW c, Has(n, c), SeenMoves, budget' = budget,
         NEW accepted, Finish(n, c, accepted)
  PROVE  IInv' /\ Forward
<1>1. budget' \in [Command -> Nat]
  BY DEF IInv, TypeInv
<1>2. NodeMoves(n)
  BY <1>1, NodeRests DEF Finish
<1>3. Answers({Result(n, c, accepted)})
  <2>1. PICK d : d = Result(n, c, accepted)
    OBVIOUS
  <2>2. d.kind = "result" /\ d.from = n /\ d.to = c.from /\ c.from \in Node
    BY <2>1 DEF Result, Has, ControlOK
  <2>3. ControlOK(d)'
    BY <2>2 DEF ControlOK, Announces
  <2> QED  BY <2>1, <2>2, <2>3 DEF Answers, Announces
<1>4. MailMoves
  BY <1>3, MailDone DEF Finish
<1> QED  BY <1>2, <1>4, QuietStep DEF Finish

\* A result is shown, nothing else changes.
LEMMA ResultStep ==
  ASSUME IInv, NEW n \in Node, NEW c, Has(n, c), SeenMoves, budget' = budget,
         apply_group_admin_result(n, c)
  PROVE  IInv' /\ Forward
<1>1. budget' \in [Command -> Nat]
  BY DEF IInv, TypeInv
<1>2. NodeMoves(n)
  BY <1>1, NodeRests DEF apply_group_admin_result
<1>3. Answers({})
  BY DEF Answers
<1>4. MailMoves
  BY <1>3, MailDone DEF apply_group_admin_result
<1> QED  BY <1>2, <1>4, QuietStep DEF apply_group_admin_result

LEMMA LeaverStep ==
  ASSUME IInv, NEW n \in Node, NEW c, Has(n, c), SeenMoves, budget' = budget,
         c.kind = "leave", apply_group_leave(n, c)
  PROVE  IInv' /\ Forward
<1>1. budget' \in [Command -> Nat]
  BY DEF IInv, TypeInv
<1>2. CASE group[n] = NoGroup \/ c.from \notin group[n].members
  BY <1>2, KeepStep DEF apply_group_leave
<1>3. CASE group[n] # NoGroup /\ c.from \in group[n].members
  <2>1. c.from \in Node /\ c.from # n
    BY DEF Has, ControlOK
  <2>2. PICK left : left = [group[n] EXCEPT !.members = group[n].members \ {c.from}]
    OBVIOUS
  <2>3. PICK rekey \in BOOLEAN : rekey = (left.creator = n)
    OBVIOUS
  <2>4. /\ group' = [group EXCEPT ![n] = Rotated(n, IF left.creator = n THEN Rekeyed(n, left) ELSE left, 1)]
        /\ chains' = [chains EXCEPT ![n][c.from] = NoChain]
        /\ Done(n, c, {}) /\ Draw(n, 1) /\ UNCHANGED <<authority, states, sealed>>
    BY <1>3, <2>2 DEF apply_group_leave
  <2>5. group' = [group EXCEPT ![n] = Rotated(n,
           IF rekey THEN Rekeyed(n, [group[n] EXCEPT !.members = group[n].members \ {c.from}])
                    ELSE [group[n] EXCEPT !.members = group[n].members \ {c.from}], 1)]
    BY <2>2, <2>3, <2>4
  <2>6. NodeMoves(n)
    BY <1>1, <1>3, <2>1, <2>4, <2>5, NodeSheds
  <2>7. Answers({})
    BY DEF Answers
  <2>8. MailMoves
    BY <2>4, <2>7, MailDone
  <2> QED  BY <2>4, <2>6, <2>8, QuietStep
<1> QED  BY <1>2, <1>3

\* An acknowledgement of the chain in use.
LEMMA AckStep ==
  ASSUME IInv, NEW n \in Node, NEW c \in net, c.kind = "ack", apply_ack(n, c),
         UNCHANGED <<seen, budget>>
  PROVE  IInv' /\ Forward
<1>i. TypeInv /\ RowsOK(n) /\ MailInv
  BY DEF IInv, RowInv
<1>1. budget' \in [Command -> Nat]
  BY DEF IInv, TypeInv
<1>2. UNCHANGED <<authority, chains, deferred, mints, states, sealed>> /\ net' = net \ {c}
  BY DEF apply_ack
<1>3. MailMoves
  BY <1>i, <1>2 DEF MailMoves, TypeInv
<1>4. NodeMoves(n)
  <2>1. CASE group[n] # NoGroup /\ group[n].key = c.key
    <3>1. group[n] \in Record /\ n \in group[n].members
      BY <2>1, RecordIs
    <3>2. c.from \in Node /\ c.key \in seen[c.from]
      BY <1>i DEF MailInv, ControlOK
    <3>3. PICK acked \in SUBSET Node : acked = group[n].acked \cup {c.from}
      BY <3>1, <3>2 DEF Record
    <3>4. PICK rec \in Record : rec = [group[n] EXCEPT !.acked = acked]
      BY <3>1 DEF Record
    <3>5. rec.key = group[n].key /\ rec.members = group[n].members /\ rec.acked = acked
      BY <3>1, <3>4 DEF Record
    <3>6. group' = [group EXCEPT ![n] = rec]
      BY <2>1, <3>3, <3>4 DEF apply_ack
    <3>7. group'[n] = rec
      BY <1>i, <3>6 DEF TypeInv
    <3>8. OnlyAt(n)
      BY <1>i, <1>1, <1>2, <3>6, <3>7 DEF OnlyAt, TypeInv
    <3>9. SameKey(n)
      BY <2>1, <3>2, <3>3, <3>5, <3>7 DEF SameKey
    <3>10. RowsMove(n)
      BY <1>i, <1>2, <2>1, <3>1, <3>5, <3>7, <3>9 DEF RowsMove, RowsOK, TypeInv
    <3> QED  BY <1>2, <3>8, <3>10 DEF NodeMoves, Onward
  <2>2. CASE ~(group[n] # NoGroup /\ group[n].key = c.key)
    <3>1. group' = group
      BY <2>2 DEF apply_ack
    <3> QED  BY <1>1, <1>2, <3>1, NodeRests
  <2> QED  BY <2>1, <2>2
<1> QED  BY <1>2, <1>3, <1>4, QuietStep, MailRests

\* An announce is taken: its chain is stored with the record it leaves behind,
\* which is the one there was or one with a fresh chain.
LEMMA InstallStep ==
  ASSUME IInv, NEW n \in Node, NEW c, Has(n, c), SeenMoves, budget' = budget,
         c.kind \in Announces, NEW rec \in Record, Install(n, c, rec),
         n \in rec.members, c.from \in rec.members,
         \/ rec = group[n] /\ mints' = mints
         \/ rec.acked = {} /\ rec.key = <<n, mints[n] + 1>> /\ Draw(n, 1),
         authority' = [authority EXCEPT ![n] = authority'[n]],
         authority'[n] # NoState => StateOK(authority'[n]), Onward(n)
  PROVE  IInv' /\ Forward
<1>i. TypeInv /\ RowsOK(n)
  BY DEF IInv, RowInv
<1>1. budget' \in [Command -> Nat]
  BY <1>i DEF TypeInv
<1>2. PICK new : new = ReceiverChain(n, c)
  OBVIOUS
<1>3. /\ group' = [group EXCEPT ![n] = rec]
      /\ chains' = [chains EXCEPT ![n] =
           [m \in Node |-> IF m = c.from THEN new
                           ELSE IF group[n] # NoGroup /\ m \in group[n].members \ rec.members
                           THEN NoChain ELSE chains[n][m]]]
      /\ UNCHANGED <<states, sealed>>
  BY <1>2 DEF Install
<1>4. c.from \in Node /\ c.origin \in Nat /\ Drawn(c.from, c.key)
  BY DEF Has, ControlOK
<1>5. c.key \in Serial
  <2>1. PICK k \in 1..mints[c.from] : c.key = <<c.from, k>>
    BY <1>4 DEF Drawn
  <2>2. mints[c.from] \in Nat
    BY <1>i, <1>4 DEF TypeInv
  <2>3. k \in Nat
    BY <2>2
  <2> QED  BY <1>4, <2>1, <2>3 DEF Serial
<1>6. new \in Chain
  BY <1>i, <1>2, <1>4, <1>5 DEF ReceiverChain, TypeInv, Chain
<1>7. group'[n] = rec
  BY <1>i, <1>3 DEF TypeInv
<1>8. chains'[n] = [m \in Node |-> IF m = c.from THEN new
                       ELSE IF group[n] # NoGroup /\ m \in group[n].members \ rec.members
                       THEN NoChain ELSE chains[n][m]]
  BY <1>i, <1>3 DEF TypeInv
<1>9. \A m \in Node : chains'[n][m] # NoChain => chains'[n][m] \in Chain /\ m \in rec.members
  BY <1>i, <1>6, <1>8 DEF RowsOK, TypeInv
<1>10. /\ mints' = [mints EXCEPT ![n] = mints'[n]] /\ mints'[n] \in Nat /\ mints[n] <= mints'[n]
       /\ rec = group[n] \/ (rec.acked = {} /\ Fresh(n, rec.key))
  <2>1. CASE rec = group[n] /\ mints' = mints
    BY <1>i, <2>1 DEF TypeInv
  <2>2. CASE rec.acked = {} /\ rec.key = <<n, mints[n] + 1>> /\ Draw(n, 1)
    <3>1. 1 \in Nat /\ 1 \in 1..1
      OBVIOUS
    <3> QED  BY <1>i, <2>2, <3>1, Draws
  <2> QED  BY <2>1, <2>2
<1>11. OnlyAt(n)
  <2>1. chains' = [chains EXCEPT ![n] = chains'[n]]
    BY <1>3, <1>8
  <2>2. chains'[n] = [m \in Node |-> chains'[n][m]]
    BY <1>8
  <2>3. group' = [group EXCEPT ![n] = group'[n]]
    BY <1>3, <1>7
  <2> QED  BY <1>1, <1>10, <2>1, <2>2, <2>3 DEF OnlyAt
<1>12. SameKey(n) \/ (group'[n].acked = {} /\ Fresh(n, group'[n].key))
  <2>1. CASE rec = group[n]
    BY <1>7, <2>1, NoGroupAssumption DEF SameKey
  <2> QED  BY <1>7, <1>10, <2>1
<1>13. RowsMove(n)
  BY <1>7, <1>9, <1>12 DEF RowsMove
<1>14. NodeMoves(n)
  BY <1>11, <1>13 DEF NodeMoves
<1>15. Answers({Ack(n, c)}) /\ Answers({})
  <2>1. PICK d : d = Ack(n, c)
    OBVIOUS
  <2>2. d.kind = "ack" /\ d.from = n /\ d.to = c.from /\ d.key = c.key
    BY <2>1 DEF Ack
  <2>3. ControlOK(d)'
    BY <1>4, <2>2 DEF ControlOK, Announces
  <2> QED  BY <2>1, <2>2, <2>3 DEF Answers, Announces, Has
<1>16. MailMoves
  <2>1. Done(n, c, {Ack(n, c)}) \/ Done(n, c, {})
    BY DEF Install
  <2> QED  BY <1>15, <2>1, MailDone
<1> QED  BY <1>3, <1>14, <1>16, QuietStep

\* The next chain of any record.
LEMMA RotatedOnce ==
  ASSUME TypeInv, NEW n \in Node
  PROVE  \A rec \in Record : /\ Rotated(n, rec, 1) \in Record
                             /\ Rotated(n, rec, 1).members = rec.members
                             /\ Rotated(n, rec, 1).acked = {}
                             /\ Rotated(n, rec, 1).key = <<n, mints[n] + 1>>
BY RotatedIs

\* A signed state is taken with the announce that carries it.
LEMMA AdoptStep ==
  ASSUME IInv, NEW n \in Node, NEW c, Has(n, c), SeenMoves, budget' = budget,
         c.kind = "signed", NEW rec \in Record, AdoptState(n, c, rec),
         n \in Members(c.state), c.from \in Members(c.state),
         authority[n] # NoState => Eligible(c.state, authority[n]) /\ Supersedes(c.state, authority[n])
  PROVE  IInv' /\ Forward
<1>i. TypeInv
  BY DEF IInv
<1>1. StateOK(c.state) /\ c.secret \in Serial /\ c.kind \in Announces
  BY DEF Has, ControlOK, Announces
<1>2. PICK prev : prev = IF rec.secret = c.secret THEN {} ELSE {rec.secret}
  OBVIOUS
<1>3. prev \in SUBSET Serial
  BY <1>2 DEF Record
<1>4. c.state.owner \in Node /\ c.state.generation \in Nat /\ Members(c.state) \in SUBSET Node
  BY <1>1 DEF StateOK, AuthorityState, Members
<1>5. PICK new : new = Rotated(n, [rec EXCEPT !.prev = prev, !.secret = c.secret,
               !.creator = c.state.owner, !.generation = c.state.generation,
               !.members = Members(c.state)], 1)
  OBVIOUS
<1>6. /\ new \in Record /\ new.members = Members(c.state) /\ new.acked = {}
      /\ new.key = <<n, mints[n] + 1>>
  <2>1. PICK p \in Record : p = [rec EXCEPT !.prev = prev]
    BY <1>3 DEF Record
  <2>2. PICK q \in Record : q = [p EXCEPT !.secret = c.secret]
    BY <1>1 DEF Record
  <2>3. PICK r \in Record : r = [q EXCEPT !.creator = c.state.owner]
    BY <1>4 DEF Record
  <2>4. PICK s \in Record : s = [r EXCEPT !.generation = c.state.generation]
    BY <1>4 DEF Record
  <2>5. PICK t \in Record : t = [s EXCEPT !.members = Members(c.state)]
    BY <1>4 DEF Record
  <2>6. t.members = Members(c.state)
    BY <2>5 DEF Record
  <2>7. new = Rotated(n, t, 1)
    BY <1>5, <2>1, <2>2, <2>3, <2>4, <2>5, Zenon
  <2> QED  BY <1>i, <2>6, <2>7, RotatedOnce
<1>7. Install(n, c, new) /\ authority' = [authority EXCEPT ![n] = c.state] /\ Draw(n, 1)
  BY <1>2, <1>5 DEF AdoptState
<1>8. authority'[n] = c.state
  BY <1>i, <1>7 DEF TypeInv
<1>9. Onward(n)
  BY <1>8 DEF Onward, Eligible, transfer_chain_extends
<1> QED  BY <1>1, <1>6, <1>7, <1>8, <1>9, InstallStep

LEMMA AnnounceStep ==
  ASSUME IInv, NEW n \in Node, NEW c, Has(n, c), SeenMoves, budget' = budget,
         c.kind = "announce", ~Waits(n, c), apply_group_announce(n, c)
  PROVE  IInv' /\ Forward
<1>i. TypeInv /\ RowsOK(n)
  BY DEF IInv, RowInv
<1>1. /\ c.secret \in Serial /\ c.generation \in Nat /\ c.members \subseteq Node
      /\ c.members # {} => c.from \in c.members
      /\ c.kind \in Announces
  BY DEF Has, ControlOK, Announces
<1>2. group[n] # NoGroup /\ (Newer(n, c) \/ c.from \in group[n].members)
  BY DEF Waits
<1>3. group[n] \in Record /\ n \in group[n].members
  BY <1>2, RecordIs
<1>4. authority[n] # NoState => StateOK(authority[n])
  BY <1>i DEF RowsOK
<1>5. PICK rekeyed : rekeyed = IF group[n].secret = c.secret THEN group[n]
                 ELSE [group[n] EXCEPT !.prev = {group[n].secret}, !.secret = c.secret]
  OBVIOUS
<1>6. PICK adopted : adopted = Rotated(n, [rekeyed EXCEPT !.members = c.members,
                                                         !.generation = c.generation], 1)
  OBVIOUS
<1>7. CASE RemoveMe(n, c)
  BY <1>7, RemoveMeStep
<1>8. CASE n \in c.members /\ Install(n, c, adopted) /\ Draw(n, 1) /\ UNCHANGED authority
  <2>1. rekeyed \in Record
    <3>1. PICK prev \in SUBSET Serial : prev = {group[n].secret}
      BY <1>3 DEF Record
    <3>2. PICK a \in Record : a = [group[n] EXCEPT !.prev = prev]
      BY <1>3 DEF Record
    <3>3. PICK b \in Record : b = [a EXCEPT !.secret = c.secret]
      BY <1>1 DEF Record
    <3>4. b = [group[n] EXCEPT !.prev = {group[n].secret}, !.secret = c.secret]
      BY <3>1, <3>2, <3>3, Zenon
    <3> QED  BY <1>3, <1>5, <3>4
  <2>2. PICK d \in Record : d = [rekeyed EXCEPT !.members = c.members]
    BY <1>1, <2>1 DEF Record
  <2>3. PICK e \in Record : e = [d EXCEPT !.generation = c.generation]
    BY <1>1 DEF Record
  <2>4. e.members = c.members
    BY <2>1, <2>2, <2>3 DEF Record
  <2>5. adopted = Rotated(n, e, 1)
    BY <1>6, <2>2, <2>3, Zenon
  <2>6. /\ adopted \in Record /\ adopted.members = c.members /\ adopted.acked = {}
        /\ adopted.key = <<n, mints[n] + 1>>
    BY <1>i, <2>4, <2>5, RotatedIs
  <2>7. authority' = [authority EXCEPT ![n] = authority'[n]] /\ authority'[n] = authority[n]
    BY <1>i, <1>8 DEF TypeInv
  <2>8. Onward(n)
    BY <2>7 DEF Onward
  <2> QED  BY <1>1, <1>4, <1>8, <2>6, <2>7, <2>8, InstallStep
<1>9. CASE ~Newer(n, c) /\ Install(n, c, group[n]) /\ UNCHANGED <<authority, mints>>
  <2>1. authority' = [authority EXCEPT ![n] = authority'[n]] /\ authority'[n] = authority[n]
    BY <1>i, <1>9 DEF TypeInv
  <2>2. Onward(n)
    BY <2>1 DEF Onward
  <2> QED  BY <1>1, <1>2, <1>3, <1>4, <1>9, <2>1, <2>2, InstallStep
<1> QED  BY <1>5, <1>6, <1>7, <1>8, <1>9 DEF apply_group_announce

LEMMA SignedStep ==
  ASSUME IInv, NEW n \in Node, NEW c, Has(n, c), SeenMoves, budget' = budget,
         c.kind = "signed", ~Waits(n, c), apply_authority_announce(n, c)
  PROVE  IInv' /\ Forward
<1>i. TypeInv /\ RowsOK(n)
  BY DEF IInv, RowInv
<1>1. CASE Discard(n, c)
  BY <1>1, KeepStep
<1>2. CASE ValidAnnounce(c) /\ Acceptable(n, c.state) /\ Adopts(n, c.state) /\ AdoptState(n, c, group[n])
  <2>1. n \in Members(c.state) /\ group[n] # NoGroup
    BY <1>2 DEF Waits
  <2>2. c.from \in Members(c.state)
    BY <1>2 DEF ValidAnnounce
  <2>3. authority[n] # NoState => Eligible(c.state, authority[n]) /\ Supersedes(c.state, authority[n])
    BY <1>2 DEF Acceptable, Adopts
  <2> QED  BY <1>2, <2>1, <2>2, <2>3, RecordIs, AdoptStep
<1>3. CASE /\ ValidAnnounce(c) /\ Acceptable(n, c.state) /\ ~Adopts(n, c.state) /\ Holds(n, c.state)
           /\ Install(n, c, group[n]) /\ UNCHANGED <<authority, mints>>
  <2>1. authority[n] # NoState
    BY <1>3 DEF Holds
  <2>2. group[n] # NoGroup /\ StateOK(authority[n])
    BY <1>i, <2>1 DEF RowsOK
  <2>3. c.from \in group[n].members
    BY <1>3 DEF Waits
  <2>4. authority' = [authority EXCEPT ![n] = authority'[n]] /\ authority'[n] = authority[n]
    BY <1>i, <1>3 DEF TypeInv
  <2>5. c.kind \in Announces
    BY DEF Announces
  <2>6. Onward(n)
    BY <2>4 DEF Onward
  <2> QED  BY <1>3, <2>2, <2>3, <2>4, <2>5, <2>6, RecordIs, InstallStep
<1> QED  BY <1>1, <1>2, <1>3 DEF apply_authority_announce



\* An admin's request is carried out.
LEMMA CommitRequestStep ==
  ASSUME IInv, NEW n \in Node, NEW c, Has(n, c), SeenMoves, budget' = budget,
         c.kind = "request", authority[n] # NoState, Authorized(n, c),
         c.action = "remove" => Removable(n, c),
         c.action = "invite" => c.target \notin Members(authority[n]),
         CommitRequest(n, c)
  PROVE  IInv' /\ Forward
<1>i. TypeInv /\ RowsOK(n)
  BY DEF IInv, RowInv
<1>1. budget' \in [Command -> Nat]
  BY <1>i DEF TypeInv
<1>2. StateOK(authority[n]) /\ authority[n].owner = n
  BY <1>i DEF RowsOK, Authorized
<1>3. c.target \in Node /\ c.from \in Node
  BY DEF Has, ControlOK
<1>4. n \in Members(authority[n])
  BY <1>2 DEF StateOK, Members
<1>5. PICK t : t = CASE c.action = "rename" -> authority[n]
                     [] c.action = "invite" -> Admitted(authority[n], c.target)
                     [] c.action = "remove" -> Expelled(authority[n], c.target)
  OBVIOUS
<1>6. PICK rank : CommitState(n, Next1(n, t), rank)
  BY <1>5 DEF CommitRequest
<1>7. StateOK(t) /\ t.owner = n /\ t.generation = authority[n].generation
      /\ t.transfers = authority[n].transfers
  <2>1. CASE c.action = "rename"
    BY <1>2, <1>5, <2>1
  <2>2. CASE c.action = "invite"
    <3>1. c.target # n /\ "member" \in Role
      BY <1>4, <2>2 DEF Role
    <3>2. t = SetRole(authority[n], c.target, "member")
      BY <1>5, <2>2 DEF Admitted
    <3> QED  BY <1>2, <1>3, <3>1, <3>2, RoleIs
  <2>3. CASE c.action = "remove"
    <3>1. c.target # n /\ "none" \in Role
      BY <1>2, <2>3 DEF Removable, Role
    <3>2. t = SetRole(authority[n], c.target, "none")
      BY <1>5, <2>3 DEF Expelled
    <3> QED  BY <1>2, <1>3, <3>1, <3>2, RoleIs
  <2> QED  BY <2>1, <2>2, <2>3 DEF Has, ControlOK
<1>8. GoesOn(n, authority[n], Next1(n, t))
  BY <1>i, <1>7, NextIs
<1>9. NodeMoves(n) /\ SealMoves(n) /\ RankInv'
  <2>1. StateOK(Next1(n, t)) /\ n \in Members(Next1(n, t))
    BY <1>8 DEF GoesOn
  <2> QED  BY <1>1, <1>6, <1>8, <2>1, CommitMoves
<1>10. PICK notice : notice = IF c.action = "remove"
                                THEN {AuthorityRemove(n, c.target, authority'[n])} ELSE {}
  OBVIOUS
<1>11. Answers(notice \cup {Result(n, c, TRUE)}) /\ Answers(notice) /\ Answers({})
  <2>1. ASSUME NEW d \in notice PROVE ControlOK(d)' /\ d.kind \notin Announces /\ d.kind # "ack"
    <3>1. d.kind = "expel" /\ d.from = n /\ d.to = c.target
      BY <1>10, <2>1 DEF AuthorityRemove
    <3> QED  BY <1>3, <3>1 DEF ControlOK, Announces
  <2>2. ASSUME NEW d, d = Result(n, c, TRUE)
        PROVE  ControlOK(d)' /\ d.kind \notin Announces /\ d.kind # "ack"
    <3>1. d.kind = "result" /\ d.from = n /\ d.to = c.from
      BY <2>2 DEF Result
    <3> QED  BY <1>3, <3>1 DEF ControlOK, Announces
  <2> QED  BY <2>1, <2>2 DEF Answers
<1>12. MailMoves
  <2>1. CASE Done(n, c, notice \cup {Result(n, c, TRUE)})
    BY <1>11, <2>1, MailDone
  <2>2. CASE \E out \in {{}, notice} :
               /\ net' = (net \ {c}) \cup out
               /\ deferred' = [deferred EXCEPT ![n] = deferred[n] \cup {c}]
    BY <1>11, <2>2, MailKept
  <2> QED  BY <1>10, <2>1, <2>2 DEF CommitRequest
<1> QED  BY <1>9, <1>12, Step

LEMMA AdminStep ==
  ASSUME IInv, NEW n \in Node, NEW c, Has(n, c), SeenMoves, budget' = budget,
         c.kind = "request", apply_group_admin_request(n, c)
  PROVE  IInv' /\ Forward
<1>1. CASE Discard(n, c)
  BY <1>1, KeepStep
<1>2. CASE \E accepted : Finish(n, c, accepted)
  BY <1>2, FinishStep
<1>3. CASE /\ authority[n] # NoState /\ Authorized(n, c)
           /\ c.action = "remove" => Removable(n, c)
           /\ c.action = "invite" => c.target \notin Members(authority[n])
           /\ CommitRequest(n, c)
  BY <1>3, CommitRequestStep
<1> QED  BY <1>1, <1>2, <1>3 DEF apply_group_admin_request

\* Every handler keeps the invariant.
LEMMA ControlStep ==
  ASSUME IInv, NEW n \in Node, NEW c, Has(n, c), SeenMoves, budget' = budget,
         apply_group_control(n, c)
  PROVE  IInv' /\ Forward
<1>1. CASE Keep(n, c)
  BY <1>1, KeepStep
<1>2. CASE c.kind = "announce" /\ ~Waits(n, c) /\ apply_group_announce(n, c)
  BY <1>2, AnnounceStep
<1>3. CASE c.kind = "signed" /\ ~Waits(n, c) /\ apply_authority_announce(n, c)
  BY <1>3, SignedStep
<1>4. CASE c.kind = "leave" /\ apply_group_leave(n, c)
  BY <1>4, LeaverStep
<1>5. CASE apply_group_remove_notice(n, c)
  BY <1>5, KeepStep, RemoveMeStep DEF apply_group_remove_notice
<1>6. CASE apply_authority_remove(n, c)
  <2>1. Discard(n, c) \/ RemoveMe(n, c)
    BY <1>6 DEF apply_authority_remove
  <2> QED  BY <2>1, KeepStep, RemoveMeStep
<1>7. CASE c.kind = "request" /\ apply_group_admin_request(n, c)
  BY <1>7, AdminStep
<1>8. CASE apply_group_admin_result(n, c)
  BY <1>8, ResultStep
<1> QED  BY <1>1, <1>2, <1>3, <1>4, <1>5, <1>6, <1>7, <1>8 DEF apply_group_control

LEMMA ReceiveStep ==
  ASSUME IInv, NEW n \in Node, NEW c \in net, Receive(n, c)
  PROVE  IInv' /\ Forward
<1>i. TypeInv /\ MailInv
  BY DEF IInv
<1>1. /\ c.to = n /\ budget' = budget
      /\ seen' = IF c.kind \in Announces THEN [seen EXCEPT ![n] = seen[n] \cup {c.key}] ELSE seen
  BY DEF Receive
<1>2. seen = [x \in Node |-> seen[x]]
  BY <1>i DEF TypeInv
<1>3. SeenMoves
  <2>1. CASE c.kind \in Announces
    <3>1. seen' = [x \in Node |-> IF x = n THEN seen[n] \cup {c.key} ELSE seen[x]]
      BY <1>1, <1>2, <2>1
    <3>2. Announced(c.key, n)
      BY <1>1, <2>1 DEF Announced
    <3>3. \A x \in Node : \A key \in seen[x] : Announced(key, x)
      BY DEF Announced
    <3> QED  BY <3>1, <3>2, <3>3 DEF SeenMoves
  <2>2. CASE c.kind \notin Announces
    BY <1>1, <2>2, MailRests
  <2> QED  BY <2>1, <2>2
<1>4. CASE c.kind = "ack" /\ apply_ack(n, c)
  <2>1. seen' = seen
    BY <1>1, <1>4 DEF Announces
  <2> QED  BY <1>1, <1>4, <2>1, AckStep
<1>5. CASE c.kind # "ack" /\ (apply_group_control(n, c) \/ Discard(n, c))
  <2>1. c.kind \in Announces => c.key \in seen'[n]
    BY <1>1, <1>2
  <2>2. Has(n, c)
    BY <1>i, <1>1, <1>5, <2>1 DEF Has, MailInv
  <2> QED  BY <1>1, <1>3, <1>5, <2>2, ControlStep, KeepStep
<1> QED  BY <1>4, <1>5 DEF Receive

LEMMA DeferredStep ==
  ASSUME IInv, NEW n \in Node, NEW c \in deferred[n], apply_deferred_controls(n, c)
  PROVE  IInv' /\ Forward
<1>1. UNCHANGED <<budget, seen>> /\ apply_group_control(n, c)
  BY DEF apply_deferred_controls
<1>2. Has(n, c)
  BY <1>1 DEF Has, IInv, MailInv, Kept
<1> QED  BY <1>1, <1>2, ControlStep, MailRests

\* An invitation founds the group at a node that has none.
LEMMA AcceptStep ==
  ASSUME IInv, NEW n \in Node, NEW c \in deferred[n], accept_group_invitation(n, c)
  PROVE  IInv' /\ Forward
<1>i. TypeInv /\ RowsOK(n)
  BY DEF IInv, RowInv
<1>1. UNCHANGED <<budget, seen>> /\ IsInvitation(n, c)
  BY DEF accept_group_invitation
<1>2. Has(n, c)
  BY <1>1 DEF Has, IInv, MailInv, Kept
<1>3. SeenMoves /\ budget' = budget
  BY <1>1, MailRests
<1>4. /\ group[n] = NoGroup /\ c.kind \in Announces /\ c.secret \in Serial
      /\ authority[n] = NoState
  BY <1>i, <1>1, <1>2 DEF IsInvitation, Has, ControlOK, RowsOK
<1>5. CASE c.kind = "announce"
  <2>1. c.creator \in Node /\ c.members \subseteq Node /\ c.generation \in Nat
    BY <1>2, <1>5 DEF Has, ControlOK
  <2>2. {n, c.from} \subseteq c.members
    BY <1>1, <1>5 DEF IsInvitation
  <2>3. PICK rec : rec = [creator |-> c.creator, members |-> c.members, secret |-> c.secret,
              prev |-> {}, generation |-> c.generation, key |-> <<n, 0>>, origin |-> 0,
              acked |-> {}, sent |-> 0]
    OBVIOUS
  <2>4. rec \in Record /\ rec.members = c.members
    BY <1>4, <2>1, <2>3, GroupsAssumption DEF Record, Serial
  <2>5. PICK new : new = Rotated(n, rec, 1)
    OBVIOUS
  <2>6. /\ new \in Record /\ new.members = c.members /\ new.acked = {}
        /\ new.key = <<n, mints[n] + 1>>
    BY <1>i, <2>4, <2>5, RotatedOnce
  <2>7. Install(n, c, new) /\ Draw(n, 1) /\ UNCHANGED authority
    BY <1>5, <2>3, <2>5 DEF accept_group_invitation, NewRecord
  <2>8. authority' = [authority EXCEPT ![n] = authority'[n]] /\ authority'[n] = NoState
    BY <1>i, <1>4, <2>7 DEF TypeInv
  <2>9. Onward(n)
    BY <2>8 DEF Onward
  <2> QED  BY <1>2, <1>3, <1>4, <2>2, <2>6, <2>7, <2>8, <2>9, InstallStep
<1>6. CASE c.kind = "signed"
  <2>1. StateOK(c.state)
    BY <1>2, <1>6 DEF Has, ControlOK
  <2>2. {n, c.from} \subseteq Members(c.state)
    BY <1>1, <1>6 DEF IsInvitation
  <2>3. c.state.owner \in Node /\ c.state.generation \in Nat /\ Members(c.state) \subseteq Node
    BY <2>1 DEF StateOK, AuthorityState, Members
  <2>4. PICK rec : rec = [creator |-> c.state.owner, members |-> Members(c.state),
              secret |-> c.secret, prev |-> {}, generation |-> c.state.generation,
              key |-> <<n, 0>>, origin |-> 0, acked |-> {}, sent |-> 0]
    OBVIOUS
  <2>5. rec \in Record
    BY <1>4, <2>3, <2>4, GroupsAssumption DEF Record, Serial
  <2>6. AdoptState(n, c, rec)
    BY <1>6, <2>4 DEF accept_group_invitation
  <2> QED  BY <1>2, <1>3, <1>4, <1>6, <2>2, <2>5, <2>6, AdoptStep
<1> QED  BY <1>4, <1>5, <1>6 DEF Announces

-----------------------------------------------------------------------------
(* The theorems *)

\* Whoever is in the group at the start holds everyone else's first chain.
LEMMA InitHolds == Init => IInv
<1> SUFFICES ASSUME Init PROVE IInv
  OBVIOUS
<1>1. PICK sc \in Scenarios :
    LET members == IF sc.start = "none" THEN {} ELSE sc.members
        signed == sc.start = "signed"
        generation == IF signed THEN 2 + Cardinality(sc.admins) ELSE 1
        first == FirstState(Founder, members, generation - 1, <<Founder, 1>>)
        state == [first EXCEPT !.role = [m \in Node |->
                    IF m \in sc.admins THEN "admin" ELSE @[m]]]
        record(n) == [creator |-> Founder, members |-> members, secret |-> <<Founder, 1>>,
                      prev |-> {}, generation |-> generation, key |-> <<n, 1>>,
                      origin |-> 1, acked |-> members \ {n}, sent |-> 0]
    IN /\ group = [n \in Node |-> IF n \in members THEN record(n) ELSE NoGroup]
       /\ authority = [n \in Node |-> IF signed /\ n \in members THEN state ELSE NoState]
       /\ chains = [n \in Node |-> [m \in Node |->
            IF n # m /\ {n, m} \subseteq members THEN [key |-> <<m, 1>>, origin |-> 1]
            ELSE NoChain]]
       /\ mints = [n \in Node |-> IF n \in members THEN 1 ELSE 0]
       /\ states = IF signed THEN {StateId(state)} ELSE {}
       /\ seen = [n \in Node |-> IF n \in members THEN {<<m, 1>> : m \in members \ {n}} ELSE {}]
       /\ deferred = [n \in Node |-> {}]
       /\ net = {} /\ sealed = {}
       /\ budget = sc.budget
  BY DEF Init
<1>2. PICK ms : ms = IF sc.start = "none" THEN {} ELSE sc.members
  OBVIOUS
<1>3. PICK g : g = IF sc.start = "signed" THEN 2 + Cardinality(sc.admins) ELSE 1
  OBVIOUS
<1>4. PICK role : role = [m \in Node |-> IF m \in sc.admins THEN "admin"
                                         ELSE IF m = Founder THEN "owner"
                                         ELSE IF m \in ms THEN "member" ELSE "none"]
  OBVIOUS
<1>5. PICK st : st = [generation |-> g - 1 + 1, rank |-> 0, original_owner |-> Founder,
                      owner |-> Founder, signer |-> Founder, secret |-> <<Founder, 1>>,
                      transfers |-> <<>>, role |-> role]
  OBVIOUS
<1>6. /\ group = [n \in Node |-> IF n \in ms
                    THEN [creator |-> Founder, members |-> ms, secret |-> <<Founder, 1>>,
                          prev |-> {}, generation |-> g, key |-> <<n, 1>>,
                          origin |-> 1, acked |-> ms \ {n}, sent |-> 0] ELSE NoGroup]
      /\ chains = [n \in Node |-> [m \in Node |->
            IF n # m /\ {n, m} \subseteq ms THEN [key |-> <<m, 1>>, origin |-> 1] ELSE NoChain]]
      /\ mints = [n \in Node |-> IF n \in ms THEN 1 ELSE 0]
      /\ seen = [n \in Node |-> IF n \in ms THEN {<<m, 1>> : m \in ms \ {n}} ELSE {}]
      /\ deferred = [n \in Node |-> {}] /\ net = {} /\ sealed = {} /\ budget = sc.budget
  BY <1>1, <1>2, <1>3
<1>7. PICK first : first = FirstState(Founder, ms, g - 1, <<Founder, 1>>)
  OBVIOUS
<1>8. [first EXCEPT !.role = [m \in Node |-> IF m \in sc.admins THEN "admin" ELSE first.role[m]]] = st
  <2>1. [m \in Node |-> IF m \in sc.admins THEN "admin" ELSE first.role[m]] = role
    BY <1>4, <1>7 DEF FirstState
  <2>2. [first EXCEPT !.role = role] = st
    BY <1>5, <1>7 DEF FirstState
  <2> QED  BY <2>1, <2>2
<1>9. /\ authority = [n \in Node |-> IF sc.start = "signed" /\ n \in ms THEN st ELSE NoState]
      /\ states = IF sc.start = "signed" THEN {StateId(st)} ELSE {}
  BY <1>1, <1>2, <1>3, <1>7, <1>8
<1>10. /\ ms \subseteq Node /\ sc.admins \subseteq Node \ {Founder} /\ Founder \in Node
       /\ sc.budget \in [Command -> Nat] /\ GROUP_ROTATE_MSGS \in Nat
  BY <1>2, GroupsAssumption
<1>11. g \in Nat /\ g - 1 + 1 = g
  <2>1. Cardinality(sc.admins) \in Nat
    BY <1>10, GroupsAssumption, FS_Subset, FS_CardinalityType
  <2> QED  BY <1>3, <2>1
<1>12. StateOK(st) /\ StateId(st) = <<g, 0>>
  <2>1. role \in [Node -> Role] /\ role[Founder] = "owner"
    BY <1>4, <1>10 DEF Role
  <2>2. <<Founder, 1>> \in Serial /\ <<>> \in Seq([from: Node, to: Node, generation: Nat])
    BY <1>10 DEF Serial
  <2>3. st \in AuthorityState(Serial)
    BY <1>5, <1>10, <1>11, <2>1, <2>2 DEF AuthorityState
  <2> QED  BY <1>5, <1>11, <2>1, <2>3 DEF StateOK, StateId
<1>13. ASSUME NEW n \in ms
       PROVE  /\ group[n] \in Record /\ group[n].members = ms /\ group[n].key = <<n, 1>>
              /\ group[n].acked = ms \ {n}
  <2>1. PICK rec : rec = [creator |-> Founder, members |-> ms, secret |-> <<Founder, 1>>,
                          prev |-> {}, generation |-> g, key |-> <<n, 1>>,
                          origin |-> 1, acked |-> ms \ {n}, sent |-> 0]
    OBVIOUS
  <2>2. n \in Node
    BY <1>10
  <2>3. <<Founder, 1>> \in Serial /\ <<n, 1>> \in Serial /\ 0 \in 0..GROUP_ROTATE_MSGS
    BY <1>10, <2>2 DEF Serial
  <2>4. rec \in Record
    BY <1>10, <1>11, <2>1, <2>3 DEF Record
  <2>5. group[n] = rec
    BY <1>6, <1>13, <2>1, <2>2
  <2> QED  BY <2>1, <2>4, <2>5
<1>14. \A n \in Node : n \notin ms => group[n] = NoGroup
  BY <1>6
<1>15. \A n \in Node : group[n] # NoGroup => n \in ms
  BY <1>14
<1>16. \A n \in Node : authority[n] # NoState => n \in ms /\ authority[n] = st
  BY <1>9
<1>17. \A n, m \in Node : chains[n][m] # NoChain =>
         n \in ms /\ m \in ms /\ chains[n][m] = [key |-> <<m, 1>>, origin |-> 1]
  BY <1>6
<1>18. \A m \in Node : \A key : key \in seen[m] <=> m \in ms /\ \E n \in ms : n # m /\ key = <<n, 1>>
  BY <1>6
<1>19. \A n \in ms : Drawn(n, <<n, 1>>)
  <2>1. \A n \in ms : mints[n] = 1
    BY <1>6, <1>10
  <2>2. 1 \in 1..1
    OBVIOUS
  <2> QED  BY <2>1, <2>2 DEF Drawn
<1>20. TypeInv
  <2>1. group \in [Node -> Record \cup {NoGroup}]
    BY <1>6, <1>13, <1>14
  <2>2. authority \in [Node -> AuthorityState(Serial) \cup {NoState}]
    BY <1>9, <1>12 DEF StateOK
  <2>3. chains \in [Node -> [Node -> Chain \cup {NoChain}]]
    <3>1. \A m \in Node : [key |-> <<m, 1>>, origin |-> 1] \in Chain
      BY DEF Chain, Serial
    <3> QED  BY <1>6, <3>1
  <2>4. mints \in [Node -> Nat] /\ budget \in [Command -> Nat]
    BY <1>6, <1>10
  <2>5. deferred = [n \in Node |-> deferred[n]] /\ seen = [n \in Node |-> seen[n]]
    BY <1>6
  <2> QED  BY <2>1, <2>2, <2>3, <2>4, <2>5 DEF TypeInv
<1>21. RowInv
  <2> SUFFICES ASSUME NEW n \in Node PROVE RowsOK(n)
    BY DEF RowInv
  <2>1. group[n] # NoGroup => /\ n \in group[n].members /\ group[n].acked \subseteq group[n].members
                              /\ Drawn(n, group[n].key)
    BY <1>13, <1>15, <1>19
  <2>2. \A m \in Node : chains[n][m] # NoChain => group[n] # NoGroup /\ m \in group[n].members
    <3>1. \A m \in Node : chains[n][m] # NoChain => n \in ms /\ m \in ms
      BY <1>17
    <3>2. n \in ms => group[n] # NoGroup /\ group[n].members = ms
      BY <1>13, NoGroupAssumption
    <3> QED  BY <3>1, <3>2
  <2>3. authority[n] # NoState => group[n] # NoGroup /\ StateOK(authority[n])
    BY <1>12, <1>13, <1>16, NoGroupAssumption
  <2> QED  BY <2>1, <2>2, <2>3 DEF RowsOK
<1>22. MailInv
  BY <1>6 DEF MailInv
<1>23. AudienceInv
  <2>1. \A key, m : Announced(key, m) => key \in seen[m]
    BY <1>6 DEF Announced
  <2>2. \A m \in Node : \A key \in seen[m] : m \in ms /\ \E n \in Node : Drawn(n, key)
    BY <1>10, <1>18, <1>19
  <2> QED  BY <1>6, <1>13, <1>15, <2>1, <2>2 DEF AudienceInv
<1>24. AcknowledgedIsHeld
  <2> SUFFICES ASSUME NEW n \in Node, group[n] # NoGroup, NEW m \in group[n].acked
               PROVE  group[n].key \in seen[m]
    BY DEF AcknowledgedIsHeld
  <2>1. n \in ms /\ group[n].key = <<n, 1>> /\ m \in ms \ {n}
    BY <1>13, <1>15
  <2>2. m \in Node
    BY <1>10, <2>1
  <2>3. <<n, 1>> \in seen[m]
    BY <1>18, <2>1, <2>2
  <2> QED  BY <2>1, <2>3
<1>25. RankInv
  <2> SUFFICES ASSUME NEW x \in Nat PROVE \E lo, hi \in Int : RanksOf(x) = lo..hi
    BY DEF RankInv
  <2>1. \A id \in states : id = <<g, 0>>
    BY <1>9, <1>12
  <2>2. RanksOf(x) = {} \/ RanksOf(x) = {0}
    <3>1. RanksOf(x) \subseteq {0}
      BY <2>1 DEF RanksOf
    <3> QED  BY <3>1
  <2>3. CASE RanksOf(x) = {}
    <3>1. {} = 1..0 /\ 1 \in Int /\ 0 \in Int
      OBVIOUS
    <3> QED  BY <2>3, <3>1
  <2>4. CASE RanksOf(x) = {0}
    <3>1. {0} = 0..0 /\ 0 \in Int
      OBVIOUS
    <3> QED  BY <2>4, <3>1
  <2> QED  BY <2>2, <2>3, <2>4
<1> QED  BY <1>20, <1>21, <1>22, <1>23, <1>24, <1>25 DEF IInv

\* Every step keeps the invariant and no replica goes back.
LEMMA NextHolds == IInv /\ [Next]_vars => IInv' /\ [Forward]_vars
<1> SUFFICES ASSUME IInv, [Next]_vars PROVE IInv' /\ [Forward]_vars
  OBVIOUS
<1>1. ASSUME NEW n \in Node, UserCommand(n) PROVE IInv' /\ Forward
  BY <1>1, CreateStep, SendStep, AddStep, RemoveStep, LeaveStep, RenameStep, RoleStep,
     TransferStep, UpgradeStep, SessionStep, DeleteStep DEF UserCommand
<1>2. ASSUME NEW n \in Node, Tick(n) PROVE IInv' /\ Forward
  BY <1>2, TickStep, ReceiveStep, DeferredStep DEF Tick
<1>3. ASSUME NEW n \in Node, NEW c \in deferred[n], accept_group_invitation(n, c)
      PROVE  IInv' /\ Forward
  BY <1>3, AcceptStep
<1>4. ASSUME NEW c \in net, Lose(c) PROVE IInv' /\ Forward
  BY <1>4, LoseStep
<1>5. CASE UNCHANGED vars
  <2>1. UNCHANGED <<group, authority, chains, mints, budget, net, deferred, seen, sealed, states>>
    BY <1>5 DEF vars
  <2>2. Founder \in Node /\ budget' \in [Command -> Nat]
    BY <2>1, GroupsAssumption DEF IInv, TypeInv
  <2>3. NodeMoves(Founder) /\ MailMoves /\ SeenMoves
    BY <2>1, <2>2, NodeRests, MailRests
  <2> QED  BY <1>5, <2>1, <2>2, <2>3, QuietStep
<1> QED  BY <1>1, <1>2, <1>3, <1>4, <1>5 DEF Next

\* The invariant holds in every reachable state.
LEMMA Invariance == Spec => []IInv
<1>1. IInv /\ [Next]_vars => IInv'
  BY NextHolds
<1> QED  BY InitHolds, <1>1, PTL DEF Spec

\* The rows of every node have their types and fit together: no handler ever
\* prepares a plan that the store refuses.
THEOREM TypeCorrect == Spec => []TypeOK
BY Invariance, IInvImplies, PTL

\* A chain key only ever reaches the members its owner had when it encrypted
\* under it, whoever joins, leaves or is removed.
THEOREM OnlyAudienceReadsHolds == Spec => []OnlyAudienceReads
BY Invariance, IInvImplies, PTL

\* Whoever counts as authenticated holds the very chain in use.
THEOREM AcknowledgedIsHeldHolds == Spec => []AcknowledgedIsHeld
BY Invariance, IInvImplies, PTL

\* No replica that keeps the group goes back to an older state, nor off the
\* line of owners it accepted.
THEOREM NeverRegressesHolds == Spec => NeverRegresses
<1>1. IInv /\ [Next]_vars =>
        [\A n \in Node : authority[n] # NoState /\ authority'[n] # NoState =>
           \/ authority'[n] = authority[n]
           \/ /\ Supersedes(authority'[n], authority[n])
              /\ authority'[n].generation > authority[n].generation =>
                   IsPrefix(authority[n].transfers, authority'[n].transfers)]_vars
  BY NextHolds DEF Forward, Onward
<1> QED  BY Invariance, <1>1, PTL DEF Spec, NeverRegresses

-----------------------------------------------------------------------------
(* Answers to requests *)

\* Nobody leaves and the group keeps its owner.
Steady == budget["leave"] = 0 /\ budget["transfer"] = 0

Mail == net \cup UNION {deferred[n] : n \in Node}

\* The founder signs every state, one of each generation, and holds the last.
OnLine(s) ==
  /\ s.owner = Founder /\ s.signer = Founder /\ authority[Founder] # NoState
  /\ StateId(s) \in states /\ s.generation \in Nat
  /\ s.generation <= authority[Founder].generation
  /\ s.generation = authority[Founder].generation => s = authority[Founder]

\* A roster generation from before the upgrade.
BeforeUpgrade(g) ==
  /\ states = {} => group[Founder] # NoGroup /\ g <= group[Founder].generation
  /\ \A id \in states : g < id[1]

\* A replica's roster is that of its signed state.
ReplicaOK(n) ==
  /\ group[n] # NoGroup => group[n].creator = Founder
  /\ authority[n] # NoState => /\ OnLine(authority[n])
                               /\ group[n].generation = authority[n].generation
                               /\ group[n].members = Members(authority[n])

\* A request that has been decided and not answered was applied.  The founder is not
\* acknowledged by its sender and cannot be, so the state stays what it was made.
Unanswered(c) ==
  /\ c \in deferred[Founder] /\ c.id \in applied
  /\ observed_admin_request_outcome(authority[Founder], c)
  /\ group[Founder].acked = {} /\ c.from \in group[Founder].members

RequestOK(c) ==
  /\ c \in asked /\ c.from # Founder /\ c.to = Founder /\ authority[Founder] # NoState
  /\ c.base \in Nat /\ c.base <= authority[Founder].generation
  /\ c.action = "remove" => c.target # c.from
  /\ c.action = "invite" /\ c.base = authority[Founder].generation =>
       c.target \notin Members(authority[Founder])
  /\ c.id \in consumed[Founder] => Unanswered(c)

AnswerOK(c) == c.id \in consumed[Founder] /\ (c.accepted <=> c.id \in applied)

MailOK(c) ==
  /\ c.kind # "leave"
  /\ c.kind \in {"announce", "signed", "remove", "expel"} => c.from # c.to
  /\ c.kind = "announce" => /\ c.creator = Founder
                            /\ c.from = Founder => BeforeUpgrade(c.generation)
  /\ c.kind \in {"signed", "expel"} => OnLine(c.state)
  /\ c.kind = "request" => RequestOK(c)
  /\ c.kind = "result" => AnswerOK(c)

\* Requests are told apart by their ids, and what was decided was asked.
AskedInv ==
  /\ IsFiniteSet(asked)
  /\ \A c \in asked : \E k \in 1..Cardinality(asked) : c.id = <<c.from, k>>
  /\ \A c, d \in asked : c.id = d.id => c = d
  /\ consumed = [n \in Node |-> consumed[n]]
  /\ \A id \in consumed[Founder] : \E c \in asked : c.id = id
  /\ applied \subseteq consumed[Founder]

FounderInv ==
  /\ Steady
  /\ authority[Founder] = NoState => states = {}

HonestInv ==
  /\ FounderInv /\ AskedInv
  /\ \A n \in Node : ReplicaOK(n)
  /\ \A c \in Mail : MailOK(c)

\* What the requester is told is what the invariant says.
LEMMA HonestImplies == HonestInv => HonestResults
BY DEF HonestInv, Mail, MailOK, AnswerOK, HonestResults

\* No request is in the node's hands.
NoRequest(n) == \A c \in deferred[n] : c.kind # "request"

\* No step of this kind touches the line of states: the founder keeps its group, and is
\* acknowledged by nobody while a request waits for its answer.
FounderRests ==
  /\ states' = states /\ applied' = applied /\ authority'[Founder] = authority[Founder]
  /\ group[Founder] # NoGroup => /\ group'[Founder] # NoGroup
                                 /\ group[Founder].generation <= group'[Founder].generation
                                 /\ \/ NoRequest(Founder)
                                    \/ group'[Founder].acked \in {{}, group[Founder].acked}

OthersRest(n) ==
  \A x \in Node : x # n => group'[x] = group[x] /\ authority'[x] = authority[x]

\* The controls under way were, or may be; a request in the founder's hands stays there.
MailRuns ==
  /\ \A c \in Mail' : c \in Mail \/ MailOK(c)'
  /\ \A c \in Mail' : c \in deferred[Founder] /\ c.kind = "request" => c \in deferred'[Founder]

\* The founder is a node.
LEMMA FounderIs == Founder \in Node
BY GroupsAssumption

LEMMA LineRests ==
  ASSUME IInv, IInv', FounderRests
  PROVE  /\ \A s : OnLine(s) => OnLine(s)'
         /\ \A g \in Nat : BeforeUpgrade(g) => BeforeUpgrade(g)'
<1>1. \A s : OnLine(s) => OnLine(s)'
  BY DEF FounderRests, OnLine
<1>2. ASSUME NEW g \in Nat, BeforeUpgrade(g), states = {}
      PROVE  group'[Founder] # NoGroup /\ g <= group'[Founder].generation
  <2>1. group[Founder] # NoGroup /\ g <= group[Founder].generation
    BY <1>2 DEF BeforeUpgrade
  <2>2. group'[Founder] # NoGroup /\ group[Founder].generation <= group'[Founder].generation
    BY <2>1 DEF FounderRests
  <2>3. group[Founder].generation \in Nat /\ group'[Founder].generation \in Nat
    BY <2>1, <2>2, FounderIs DEF IInv, TypeInv, Record
  <2> QED  BY <2>1, <2>2, <2>3
<1> QED  BY <1>1, <1>2 DEF FounderRests, BeforeUpgrade

\* Every control has its place in the mail.
LEMMA MailIs ==
  ASSUME IInv, NEW c \in Mail
  PROVE  /\ ControlOK(c)
         /\ \A n \in Node : c \in deferred[n] => c.to = n
BY DEF IInv, MailInv, Mail, Kept

\* What was under way still is what it may be.
LEMMA MailStays ==
  ASSUME IInv, IInv', HonestInv, FounderRests,
         OnLine(authority[Founder])' \/ authority[Founder] = NoState,
         ReplicaOK(Founder)', asked \subseteq asked', NEW c \in Mail,
         c.kind = "request" /\ c \in deferred[Founder] => c \in deferred'[Founder],
         c.kind = "request" => (c.id \in consumed'[Founder] <=> c.id \in consumed[Founder]),
         consumed[Founder] \subseteq consumed'[Founder]
  PROVE  MailOK(c)'
<1>1. MailOK(c) /\ ControlOK(c)
  BY MailIs DEF HonestInv
<1>2. c.kind = "announce" => (BeforeUpgrade(c.generation) => BeforeUpgrade(c.generation)')
  BY <1>1, LineRests DEF ControlOK
<1>3. c.kind \in {"signed", "expel"} => OnLine(c.state)'
  BY <1>1, LineRests DEF MailOK
<1>4. ASSUME c.kind = "request" PROVE RequestOK(c)'
  <2>1. RequestOK(c)
    BY <1>1, <1>4 DEF MailOK
  <2>2. ASSUME c.id \in consumed'[Founder] PROVE Unanswered(c)'
    <3>1. Unanswered(c)
      BY <1>4, <2>1, <2>2 DEF RequestOK
    <3>2. group[Founder] # NoGroup
      BY <2>1, FounderIs DEF RequestOK, IInv, RowInv, RowsOK
    <3>3. group'[Founder].acked = {}
      BY <1>4, <3>1, <3>2 DEF FounderRests, Unanswered, NoRequest
    <3>4. group'[Founder].members = group[Founder].members
      BY <2>1, FounderIs DEF ReplicaOK, HonestInv, FounderRests, RequestOK
    <3>5. observed_admin_request_outcome(authority[Founder], c)'
      BY <3>1 DEF FounderRests, observed_admin_request_outcome, Unanswered
    <3> QED  BY <1>4, <3>1, <3>3, <3>4, <3>5 DEF Unanswered, FounderRests
  <2> QED  BY <2>1, <2>2 DEF RequestOK, FounderRests
<1>5. ASSUME c.kind = "result" PROVE AnswerOK(c)'
  BY <1>1, <1>5 DEF MailOK, AnswerOK, FounderRests
<1>6. c.kind = "announce" => /\ c.creator = Founder
                             /\ (c.from = Founder => BeforeUpgrade(c.generation)')
  BY <1>1, <1>2 DEF MailOK
<1> QED  BY <1>1, <1>3, <1>4, <1>5, <1>6 DEF MailOK

\* A step that leaves the line of states alone keeps the invariant.
LEMMA HonestStep ==
  ASSUME IInv, IInv', HonestInv, NEW n \in Node, OthersRest(n), ReplicaOK(n)', FounderRests,
         MailRuns, Steady', consumed' = [x \in Node |-> consumed'[x]],
         consumed'[Founder] = consumed[Founder], asked' = asked
  PROVE  HonestInv'
<1>1. \A x \in Node : ReplicaOK(x)'
  <2> SUFFICES ASSUME NEW x \in Node, x # n PROVE ReplicaOK(x)'
    OBVIOUS
  <2>1. ReplicaOK(x) /\ group'[x] = group[x] /\ authority'[x] = authority[x]
    BY DEF OthersRest, HonestInv
  <2> QED  BY <2>1, LineRests DEF ReplicaOK
<1>2. \A c \in Mail' : MailOK(c)'
  <2> SUFFICES ASSUME NEW c \in Mail', c \in Mail PROVE MailOK(c)'
    BY DEF MailRuns
  <2>1. ReplicaOK(Founder)' /\ (OnLine(authority[Founder])' \/ authority[Founder] = NoState)
    BY <1>1, FounderIs DEF ReplicaOK, FounderRests
  <2>2. c.kind = "request" /\ c \in deferred[Founder] => c \in deferred'[Founder]
    BY DEF MailRuns
  <2> QED  BY <2>1, <2>2, MailStays
<1>3. AskedInv'
  BY DEF HonestInv, AskedInv, FounderRests
<1>4. FounderInv'
  BY DEF HonestInv, FounderInv, Steady, FounderRests
<1> QED  BY <1>1, <1>2, <1>3, <1>4 DEF HonestInv

\* A command other than those two.
LEMMA SteadySpend ==
  ASSUME IInv, HonestInv, NEW command \in Command \ {"leave", "transfer"}, Spend(command)
  PROVE  Steady'
<1>1. budget \in [Command -> Nat] /\ "leave" \in Command /\ "transfer" \in Command
  BY DEF IInv, TypeInv, Command
<1> QED  BY <1>1 DEF Spend, Steady, HonestInv, FounderInv

LEMMA SteadyRest == HonestInv /\ budget' = budget => Steady'
BY DEF HonestInv, FounderInv, Steady

LEMMA MailSame == UNCHANGED <<net, deferred>> => MailRuns
BY DEF MailRuns, Mail

\* The founder's request ends are its own: what leaves its hands is gone.
LEMMA MailLess ==
  ASSUME IInv, NEW n \in Node, NEW c, NEW out,
         net' \subseteq (net \ {c}) \cup out, \A d \in out : MailOK(d)',
         deferred' = [deferred EXCEPT ![n] = deferred[n] \ {c}],
         c.kind = "request" => c \notin out /\ c.to = n
  PROVE  MailRuns
<1>1. \A x \in Node : deferred'[x] = IF x = n THEN deferred[n] \ {c} ELSE deferred[x]
  BY DEF IInv, TypeInv
<1>2. \A d \in Mail' : d \in Mail \/ d \in out
  BY <1>1 DEF Mail
<1>3. ASSUME NEW d \in Mail', d \in deferred[Founder], d.kind = "request"
      PROVE d \in deferred'[Founder]
  <2>1. CASE d # c
    BY <1>1, <1>3, <2>1, FounderIs
  <2>2. CASE d = c
    <3>1. c \notin net' /\ c \notin deferred'[n]
      BY <1>1, <1>3, <2>2
    <3>2. \A x \in Node : x # n => c \notin deferred[x]
      BY <1>3, <2>2 DEF IInv, MailInv, Kept
    <3> QED  BY <1>1, <1>3, <2>2, <3>1, <3>2 DEF Mail
  <2> QED  BY <2>1, <2>2
<1> QED  BY <1>2, <1>3 DEF MailRuns

LEMMA MailGone ==
  ASSUME IInv, NEW n \in Node, NEW c, c.to = n, net' = net \ {c},
         deferred' = [deferred EXCEPT ![n] = deferred[n] \ {c}]
  PROVE  MailRuns
<1>1. PICK out : out = {}
  OBVIOUS
<1>2. net' \subseteq (net \ {c}) \cup out /\ \A d \in out : MailOK(d)'
  BY <1>1
<1>3. c \notin out
  BY <1>1
<1> QED  BY <1>2, <1>3, MailLess

\* A replica that keeps its roster.
LEMMA RosterRests ==
  ASSUME IInv, IInv', HonestInv, NEW n \in Node, group[n] # NoGroup, NEW rec \in Record,
         group' = [group EXCEPT ![n] = rec],
         rec.creator = group[n].creator, rec.members = group[n].members,
         rec.generation = group[n].generation,
         rec.acked = {} \/ rec.acked = group[n].acked \/ NoRequest(n),
         UNCHANGED <<authority, states, applied>>
  PROVE  OthersRest(n) /\ ReplicaOK(n)' /\ FounderRests
<1>1. group'[n] = rec /\ rec # NoGroup /\ \A x \in Node : x # n => group'[x] = group[x]
  BY NoGroupAssumption DEF IInv, TypeInv
<1>2. OthersRest(n)
  BY <1>1 DEF OthersRest
<1>3. FounderRests
  <2>1. CASE n = Founder
    <3>1. group[n].generation \in Nat
      BY RecordIs DEF Record
    <3> QED  BY <1>1, <2>1, <3>1 DEF FounderRests
  <2>2. CASE n # Founder
    <3>1. group[Founder] # NoGroup => group[Founder].generation \in Nat
      BY FounderIs, RecordIs DEF Record
    <3> QED  BY <1>1, <2>2, <3>1, FounderIs DEF FounderRests
  <2> QED  BY <2>1, <2>2
<1>4. ReplicaOK(n)'
  <2>1. ReplicaOK(n)
    BY DEF HonestInv
  <2> QED  BY <1>1, <1>3, <2>1, LineRests DEF ReplicaOK
<1> QED  BY <1>2, <1>3, <1>4

\* Nothing of a replica changes.
LEMMA ReplicasRest ==
  ASSUME IInv, IInv', HonestInv, NEW n \in Node, UNCHANGED <<group, authority, states, applied>>
  PROVE  OthersRest(n) /\ ReplicaOK(n)' /\ FounderRests
<1>1. FounderRests
  <2>1. group[Founder] # NoGroup => group[Founder].generation \in Nat
    BY FounderIs, RecordIs DEF Record
  <2> QED  BY <2>1 DEF FounderRests
<1>2. ReplicaOK(n)
  BY DEF HonestInv
<1> QED  BY <1>1, <1>2, LineRests DEF OthersRest, ReplicaOK

LEMMA RotatedKeeps ==
  ASSUME NEW n, NEW i, NEW rec \in Record
  PROVE  /\ Rotated(n, rec, i).creator = rec.creator
         /\ Rotated(n, rec, i).generation = rec.generation
         /\ Rotated(n, rec, i).members = rec.members /\ Rotated(n, rec, i).acked = {}
BY DEF Rotated, Record

\* No node decides a request.
LEMMA ConsumedRests ==
  ASSUME HonestInv, consumed' = consumed
  PROVE  consumed' = [x \in Node |-> consumed'[x]] /\ consumed'[Founder] = consumed[Founder]
BY DEF HonestInv, AskedInv

LEMMA HonestSession ==
  ASSUME IInv, IInv', HonestInv, NEW n \in Node, prepare_groups_on_session_established(n)
  PROVE  HonestInv'
<1>1. /\ group[n] # NoGroup /\ group' = [group EXCEPT ![n] = Rotated(n, group[n], 1)]
      /\ UNCHANGED <<authority, consumed, deferred, net, states, asked, applied>>
  BY DEF prepare_groups_on_session_established, history
<1>2. group[n] \in Record
  BY <1>1, RecordIs
<1>3. Rotated(n, group[n], 1) \in Record
  BY <1>2, RotatedIs DEF IInv
<1>4. OthersRest(n) /\ ReplicaOK(n)' /\ FounderRests
  <2>1. PICK rec \in Record : rec = Rotated(n, group[n], 1)
    BY <1>3
  <2>2. /\ rec.creator = group[n].creator /\ rec.members = group[n].members
        /\ rec.generation = group[n].generation /\ rec.acked = {}
    BY <1>2, <2>1, RotatedKeeps
  <2> QED  BY <1>1, <2>1, <2>2, RosterRests
<1>5. Steady'
  BY SteadySpend DEF prepare_groups_on_session_established, Command
<1> QED  BY <1>1, <1>4, <1>5, MailSame, ConsumedRests, HonestStep

LEMMA HonestSend ==
  ASSUME IInv, IInv', HonestInv, NEW n \in Node, group_send(n)
  PROVE  HonestInv'
<1>1. PICK snd : snd = Sender(n)
  OBVIOUS
<1>2. /\ group[n] # NoGroup /\ group' = [group EXCEPT ![n] = [snd EXCEPT !.sent = snd.sent + 1]]
      /\ UNCHANGED <<authority, consumed, deferred, net, states, asked, applied>>
  BY <1>1 DEF group_send, history
<1>3. group[n] \in Record
  BY <1>2, RecordIs
<1>4. /\ snd \in Record /\ snd.members = group[n].members
      /\ snd.creator = group[n].creator /\ snd.generation = group[n].generation
      /\ snd.acked \in {{}, group[n].acked}
  <2>1. snd = group[n] \/ snd = Rotated(n, group[n], 1)
    BY <1>1 DEF Sender
  <2>2. Rotated(n, group[n], 1) \in Record
    BY <1>3, RotatedIs DEF IInv
  <2> QED  BY <1>3, <2>1, <2>2, RotatedKeeps
<1>5. PICK rec : rec = [snd EXCEPT !.sent = snd.sent + 1]
  OBVIOUS
<1>6. group'[n] = rec
  BY <1>2, <1>5 DEF IInv, TypeInv
<1>7. /\ rec.members = snd.members /\ rec.creator = snd.creator
      /\ rec.generation = snd.generation /\ rec.acked = snd.acked
  BY <1>4, <1>5 DEF Record
<1>8. rec \in Record
  <2>1. (snd = group[n] /\ group[n].sent < GROUP_ROTATE_MSGS) \/ snd.sent = 0
    BY <1>1, <1>2, SenderIs
  <2>2. PICK k \in 0..GROUP_ROTATE_MSGS : k = snd.sent + 1
    BY <1>4, <2>1, GroupsAssumption DEF Record
  <2> QED  BY <1>4, <1>5, <2>2 DEF Record
<1>9. OthersRest(n) /\ ReplicaOK(n)' /\ FounderRests
  <2>1. (rec.acked = {} \/ rec.acked = group[n].acked) /\ group' = [group EXCEPT ![n] = rec]
    BY <1>2, <1>4, <1>5, <1>7
  <2>2. /\ rec.creator = group[n].creator /\ rec.members = group[n].members
        /\ rec.generation = group[n].generation
    BY <1>4, <1>7
  <2>3. UNCHANGED <<authority, states, applied>> /\ group[n] # NoGroup
    BY <1>2
  <2> QED  BY <1>8, <2>1, <2>2, <2>3, RosterRests
<1>10. Steady'
  BY SteadySpend DEF group_send, Command
<1> QED  BY <1>2, <1>9, <1>10, MailSame, ConsumedRests, HonestStep

\* Only the founder writes a roster by convention.
LEMMA PlainFounder ==
  ASSUME IInv, IInv', HonestInv, NEW n \in Node, n = Founder, authority[n] = NoState,
         NEW rec \in Record, group' = [group EXCEPT ![n] = rec], rec.creator = Founder,
         rec.acked = {}, group[n] # NoGroup => group[n].generation <= rec.generation,
         UNCHANGED <<authority, states, applied>>
  PROVE  OthersRest(n) /\ ReplicaOK(n)' /\ FounderRests
<1>1. group'[n] = rec /\ rec # NoGroup /\ \A x \in Node : x # n => group'[x] = group[x]
  BY NoGroupAssumption DEF IInv, TypeInv
<1>2. OthersRest(n)
  BY <1>1 DEF OthersRest
<1>3. FounderRests
  BY <1>1 DEF FounderRests
<1> QED  BY <1>1, <1>2, <1>3 DEF ReplicaOK

LEMMA HonestCreate ==
  ASSUME IInv, IInv', HonestInv, NEW n \in Node, create_group(n)
  PROVE  HonestInv'
<1>1. /\ n = Founder /\ mints[n] = 0
      /\ UNCHANGED <<authority, consumed, deferred, net, states, asked, applied>>
  BY DEF create_group, history
<1>2. PICK ms \in SUBSET Node :
        n \in ms /\ group' = [group EXCEPT ![n] = NewRecord(n, n, ms, <<n, 1>>, 1)]
  BY DEF create_group
<1>3. group[n] = NoGroup /\ authority[n] = NoState
  BY <1>1, RecordIs DEF Drawn, IInv, RowInv, RowsOK
<1>4. PICK new : new = [creator |-> n, members |-> ms, secret |-> <<n, 1>>, prev |-> {},
                        generation |-> 1, key |-> <<n, 0>>, origin |-> 0, acked |-> {},
                          sent |-> 0]
  OBVIOUS
<1>5. new \in Record /\ new.creator = n
  BY <1>4, GroupsAssumption DEF Record, Serial
<1>6. PICK rec : rec = Rotated(n, new, 1)
  OBVIOUS
<1>7. rec \in Record /\ rec.creator = n /\ rec.acked = {}
  BY <1>5, <1>6, RotatedIs, RotatedKeeps DEF IInv
<1>8. group' = [group EXCEPT ![n] = rec]
  BY <1>2, <1>4, <1>6 DEF NewRecord
<1>9. OthersRest(n) /\ ReplicaOK(n)' /\ FounderRests
  BY <1>1, <1>3, <1>7, <1>8, PlainFounder
<1>10. Steady'
  BY SteadySpend DEF create_group, Command
<1> QED  BY <1>1, <1>9, <1>10, MailSame, ConsumedRests, HonestStep

LEMMA HonestAddPlain ==
  ASSUME IInv, IInv', HonestInv, NEW n \in Node, NEW m \in Node, group[n] # NoGroup,
         authority[n] = NoState, AddPlain(n, m), Steady'
  PROVE  HonestInv'
<1>1. group[n] \in Record
  BY RecordIs
<1>2. /\ group' = [group EXCEPT ![n] = Rotated(n, [group[n] EXCEPT
                     !.members = group[n].members \cup {m},
                       !.generation = group[n].generation + 1], 1)]
      /\ group[n].creator = n
      /\ UNCHANGED <<authority, consumed, deferred, net, states, asked, applied>>
  BY DEF AddPlain, history
<1>3. n = Founder
  BY <1>2 DEF HonestInv, ReplicaOK
<1>4. PICK mid : mid = [group[n] EXCEPT
                     !.members = group[n].members \cup {m},
                       !.generation = group[n].generation + 1]
  OBVIOUS
<1>5. mid \in Record /\ mid.creator = Founder /\ mid.generation = group[n].generation + 1
  <2>1. PICK g \in Nat : g = group[n].generation + 1
    BY <1>1 DEF Record
  <2>2. PICK a \in Record : a = [group[n] EXCEPT !.members = group[n].members \cup {m}]
    BY <1>1 DEF Record
  <2>3. mid = [a EXCEPT !.generation = g]
    BY <1>4, <2>1, <2>2, Zenon
  <2> QED  BY <1>1, <1>2, <1>3, <2>1, <2>2, <2>3 DEF Record
<1>6. PICK rec : rec = Rotated(n, mid, 1)
  OBVIOUS
<1>7. /\ rec \in Record /\ rec.creator = Founder /\ rec.acked = {}
      /\ rec.generation = group[n].generation + 1
  BY <1>5, <1>6, RotatedIs, RotatedKeeps DEF IInv
<1>8. group' = [group EXCEPT ![n] = rec]
  BY <1>2, <1>4, <1>6
<1>9. OthersRest(n) /\ ReplicaOK(n)' /\ FounderRests
  <2>1. group[n].generation <= rec.generation
    BY <1>1, <1>7 DEF Record
  <2> QED  BY <1>2, <1>3, <1>7, <1>8, <2>1, PlainFounder
<1> QED  BY <1>2, <1>9, MailSame, ConsumedRests, HonestStep

LEMMA RekeyedKeeps ==
  ASSUME NEW n, NEW rec \in Record
  PROVE  /\ Rekeyed(n, rec).creator = rec.creator
         /\ Rekeyed(n, rec).generation = rec.generation + 1
BY DEF Rekeyed, Record

LEMMA HonestRemovePlain ==
  ASSUME IInv, IInv', HonestInv, NEW n \in Node, NEW m \in Others(n), group[n] # NoGroup,
         authority[n] = NoState, RemovePlain(n, m), Steady'
  PROVE  HonestInv'
<1>1. group[n] \in Record /\ m # n
  BY RecordIs DEF Others
<1>2. /\ group' = [group EXCEPT ![n] = Rotated(n, Rekeyed(n, [group[n] EXCEPT
                     !.members = group[n].members \ {m}]), 1)]
      /\ group[n].creator = n
      /\ \A c \in net' : c \in net \/ c = [kind |-> "remove", from |-> n, to |-> m]
      /\ UNCHANGED <<authority, consumed, deferred, states, asked, applied>>
  BY DEF RemovePlain, history
<1>3. n = Founder
  BY <1>2 DEF HonestInv, ReplicaOK
<1>4. PICK mid : mid = [group[n] EXCEPT !.members = group[n].members \ {m}]
  OBVIOUS
<1>5. mid \in Record /\ mid.creator = Founder /\ mid.generation = group[n].generation
  BY <1>1, <1>2, <1>3, <1>4 DEF Record
<1>6. PICK rec : rec = Rotated(n, Rekeyed(n, mid), 1)
  OBVIOUS
<1>7. /\ rec \in Record /\ rec.creator = Founder /\ rec.acked = {}
      /\ rec.generation = group[n].generation + 1
  <2>1. Rekeyed(n, mid) \in Record
    BY <1>5, RekeyedIs DEF IInv
  <2> QED  BY <1>5, <1>6, <2>1, RotatedIs, RotatedKeeps, RekeyedKeeps DEF IInv
<1>8. group' = [group EXCEPT ![n] = rec]
  BY <1>2, <1>4, <1>6
<1>9. OthersRest(n) /\ ReplicaOK(n)' /\ FounderRests
  <2>1. group[n].generation <= rec.generation
    BY <1>1, <1>7 DEF Record
  <2> QED  BY <1>2, <1>3, <1>7, <1>8, <2>1, PlainFounder
<1>10. MailRuns
  <2>1. \A c : c = [kind |-> "remove", from |-> n, to |-> m] => MailOK(c)'
    BY <1>1 DEF MailOK
  <2> QED  BY <1>2, <2>1 DEF MailRuns, Mail
<1> QED  BY <1>2, <1>9, <1>10, ConsumedRests, HonestStep

LEMMA HonestDelete ==
  ASSUME IInv, IInv', HonestInv, NEW n \in Node, NEW c \in deferred[n],
         delete_group_invitation(n, c)
  PROVE  HonestInv'
<1>1. /\ c.kind \in Announces /\ deferred' = [deferred EXCEPT ![n] = deferred[n] \ {c}]
      /\ UNCHANGED <<group, authority, consumed, net, states, asked, applied>>
  BY DEF delete_group_invitation, history
<1>2. MailRuns
  <2>1. \A x \in Node : deferred'[x] = IF x = n THEN deferred[n] \ {c} ELSE deferred[x]
    BY <1>1 DEF IInv, TypeInv
  <2> QED  BY <1>1, <2>1, FounderIs DEF MailRuns, Mail, Announces
<1>3. Steady'
  BY SteadySpend DEF delete_group_invitation, Command
<1> QED  BY <1>1, <1>2, <1>3, ReplicasRest, ConsumedRests, HonestStep

LEMMA HonestLose ==
  ASSUME IInv, IInv', HonestInv, NEW c \in net, Lose(c)
  PROVE  HonestInv'
<1>1. /\ UNCHANGED <<group, authority, consumed, deferred, states, asked, applied>>
      /\ net' \subseteq net
  BY DEF Lose, history
<1>2. MailRuns
  BY <1>1 DEF MailRuns, Mail
<1>3. Steady'
  BY SteadySpend DEF Lose, Command
<1> QED  BY <1>1, <1>2, <1>3, FounderIs, ReplicasRest, ConsumedRests, HonestStep

\* What a node announces.
LEMMA HonestTick ==
  ASSUME IInv, IInv', HonestInv, NEW n \in Node, tick_groups(n)
  PROVE  HonestInv'
<1>1. /\ group[n] # NoGroup
      /\ \A c \in net' : c \in net \/ \E m \in Others(n) : c = AnnounceOf(n, m)
      /\ UNCHANGED <<group, authority, consumed, deferred, states, asked, applied, budget>>
  BY DEF tick_groups, history
<1>2. ReplicaOK(n) /\ OthersRest(n) /\ ReplicaOK(n)' /\ FounderRests
  BY <1>1, ReplicasRest DEF HonestInv
<1>3. ASSUME NEW m \in Others(n) PROVE MailOK(AnnounceOf(n, m))'
  <2>1. PICK c : c = AnnounceOf(n, m)
    OBVIOUS
  <2>2. CASE authority[n] = NoState
    <3>1. /\ c.kind = "announce" /\ c.from = n /\ c.to = m /\ c.creator = group[n].creator
          /\ c.generation = group[n].generation
      BY <2>1, <2>2 DEF AnnounceOf
    <3>2. c.from = Founder => BeforeUpgrade(c.generation)'
      <4> SUFFICES ASSUME n = Founder PROVE BeforeUpgrade(group[n].generation)'
        BY <1>1, <3>1
      <4>1. states = {} /\ group[n].generation \in Nat
        BY <1>1, <2>2, RecordIs DEF HonestInv, FounderInv, Record
      <4> QED  BY <1>1, <4>1 DEF BeforeUpgrade
    <3>3. c.from # c.to /\ c.creator = Founder
      BY <1>1, <1>2, <3>1 DEF Others, ReplicaOK
    <3>4. MailOK(c)'
      BY <3>1, <3>2, <3>3 DEF MailOK
    <3>5. AnnounceOf(n, m)' = AnnounceOf(n, m)
      BY <1>1 DEF AnnounceOf
    <3> QED  BY <2>1, <3>4, <3>5
  <2>3. CASE authority[n] # NoState
    <3>1. c.kind = "signed" /\ c.from = n /\ c.to = m /\ c.state = authority[n]
      BY <2>1, <2>3 DEF AnnounceOf
    <3>2. OnLine(c.state)'
      BY <1>1, <1>2, <2>3, <3>1 DEF ReplicaOK
    <3>3. MailOK(c)'
      BY <3>1, <3>2 DEF MailOK, Others
    <3>4. AnnounceOf(n, m)' = AnnounceOf(n, m)
      BY <1>1 DEF AnnounceOf
    <3> QED  BY <2>1, <3>3, <3>4
  <2> QED  BY <2>2, <2>3
<1>4. MailRuns
  <2>1. \A m \in Others(n) : AnnounceOf(n, m)' = AnnounceOf(n, m)
    BY <1>1 DEF AnnounceOf
  <2> QED  BY <1>1, <1>3, <2>1 DEF MailRuns, Mail
<1> QED  BY <1>1, <1>2, <1>4, SteadyRest, ConsumedRests, HonestStep

\* A step of another node.
LEMMA FounderAside ==
  ASSUME IInv, NEW n \in Node, n # Founder, OthersRest(n), UNCHANGED <<states, applied>>
  PROVE  FounderRests
<1>1. group'[Founder] = group[Founder] /\ authority'[Founder] = authority[Founder]
  BY FounderIs DEF OthersRest
<1>2. group[Founder] # NoGroup => group[Founder].generation \in Nat
  BY FounderIs, RecordIs DEF Record
<1> QED  BY <1>1, <1>2 DEF FounderRests

\* Nothing becomes of a control, or it is kept.
LEMMA HonestKeep ==
  ASSUME IInv, IInv', HonestInv, NEW n \in Node, NEW c \in Mail, c.to = n,
         UNCHANGED <<budget, asked>>, Keep(n, c) \/ Discard(n, c)
  PROVE  HonestInv'
<1>1. /\ UNCHANGED <<group, authority, consumed, states, applied>>
      /\ net' = net \ {c}
      /\ \/ deferred' = [deferred EXCEPT ![n] = deferred[n] \cup {c}]
         \/ deferred' = [deferred EXCEPT ![n] = deferred[n] \ {c}]
  BY DEF Keep, Discard, Done
<1>2. MailRuns
  <2>1. CASE deferred' = [deferred EXCEPT ![n] = deferred[n] \cup {c}]
    <3>1. \A x \in Node : deferred'[x] = IF x = n THEN deferred[n] \cup {c} ELSE deferred[x]
      BY <2>1 DEF IInv, TypeInv
    <3> QED  BY <1>1, <3>1, FounderIs DEF MailRuns, Mail
  <2>2. CASE deferred' = [deferred EXCEPT ![n] = deferred[n] \ {c}]
    BY <1>1, <2>2, MailGone
  <2> QED  BY <1>1, <2>1, <2>2
<1> QED  BY <1>1, <1>2, ReplicasRest, ConsumedRests, SteadyRest, HonestStep

\* Another node gives the group up.
LEMMA HonestRemoveMe ==
  ASSUME IInv, IInv', HonestInv, NEW n \in Node, n # Founder, NEW c \in Mail, c.to = n,
         UNCHANGED <<budget, asked>>, RemoveMe(n, c)
  PROVE  HonestInv'
<1>1. /\ group' = [group EXCEPT ![n] = NoGroup]
      /\ authority' = [authority EXCEPT ![n] = NoState]
      /\ consumed' = [consumed EXCEPT ![n] = {}]
      /\ net' = net \ {c} /\ deferred' = [deferred EXCEPT ![n] = deferred[n] \ {c}]
      /\ UNCHANGED <<states, applied>>
  BY DEF RemoveMe, DropGroup, Done
<1>2. MailRuns
  BY <1>1, MailGone
<1>3. OthersRest(n) /\ group'[n] = NoGroup /\ authority'[n] = NoState
  BY <1>1 DEF OthersRest, IInv, TypeInv
<1>4. ReplicaOK(n)'
  BY <1>3 DEF ReplicaOK
<1>5. consumed' = [x \in Node |-> consumed'[x]] /\ consumed'[Founder] = consumed[Founder]
  BY <1>1, FounderIs DEF HonestInv, AskedInv
<1> QED  BY <1>1, <1>2, <1>3, <1>4, <1>5, FounderAside, SteadyRest, HonestStep

\* An announce is taken and acknowledged.
LEMMA InstallRuns ==
  ASSUME IInv, NEW n \in Node, NEW c, c.kind \in Announces, NEW rec, Install(n, c, rec)
  PROVE  MailRuns /\ UNCHANGED <<states, applied>> /\ group' = [group EXCEPT ![n] = rec]
<1>1. PICK out : /\ out \subseteq {Ack(n, c)} /\ net' = (net \ {c}) \cup out
                 /\ deferred' = [deferred EXCEPT ![n] = deferred[n] \ {c}]
  BY DEF Install, Done
<1>2. \A d \in out : MailOK(d)'
  <2>1. \A d : d = Ack(n, c) => d.kind = "ack"
    BY DEF Ack
  <2> QED  BY <1>1, <2>1 DEF MailOK
<1>3. MailRuns
  BY <1>1, <1>2, MailLess DEF Announces
<1> QED  BY <1>3 DEF Install

\* Another node takes a signed state: it is on the line.
LEMMA HonestAdopt ==
  ASSUME IInv, IInv', HonestInv, NEW n \in Node, NEW c \in Mail, c.to = n, c.kind = "signed",
         n # Founder, NEW rec \in Record, AdoptState(n, c, rec), UNCHANGED <<budget, asked>>
  PROVE  HonestInv'
<1>1. MailOK(c) /\ ControlOK(c)
  BY MailIs DEF HonestInv
<1>2. PICK prev : prev = IF rec.secret = c.secret THEN {} ELSE {rec.secret}
  OBVIOUS
<1>3. PICK mid : mid = [rec EXCEPT !.prev = prev, !.secret = c.secret,
               !.creator = c.state.owner, !.generation = c.state.generation,
               !.members = Members(c.state)]
  OBVIOUS
<1>4. PICK new : new = Rotated(n, mid, 1)
  OBVIOUS
<1>5. /\ new.members = Members(c.state) /\ new.creator = c.state.owner
      /\ new.generation = c.state.generation
  <2>1. prev \in SUBSET Serial /\ c.secret \in Serial
    BY <1>1, <1>2 DEF Record, ControlOK, Announces
  <2>2. c.state.owner \in Node /\ c.state.generation \in Nat /\ Members(c.state) \in SUBSET Node
    BY <1>1 DEF ControlOK, StateOK, AuthorityState, Members
  <2>3. PICK p \in Record : p = [rec EXCEPT !.prev = prev]
    BY <2>1 DEF Record
  <2>4. PICK q \in Record : q = [p EXCEPT !.secret = c.secret]
    BY <2>1 DEF Record
  <2>5. PICK r \in Record : r = [q EXCEPT !.creator = c.state.owner]
    BY <2>2 DEF Record
  <2>6. PICK s \in Record : s = [r EXCEPT !.generation = c.state.generation]
    BY <2>2 DEF Record
  <2>7. PICK t \in Record : t = [s EXCEPT !.members = Members(c.state)]
    BY <2>2 DEF Record
  <2>8. /\ t.members = Members(c.state) /\ t.creator = c.state.owner
        /\ t.generation = c.state.generation
    BY <2>5, <2>6, <2>7 DEF Record
  <2>9. mid = t
    BY <1>3, <2>3, <2>4, <2>5, <2>6, <2>7, Zenon
  <2> QED  BY <1>4, <2>8, <2>9, RotatedKeeps
<1>6. /\ Install(n, c, new) /\ authority' = [authority EXCEPT ![n] = c.state]
      /\ consumed' = consumed
  BY <1>2, <1>3, <1>4 DEF AdoptState
<1>7. MailRuns /\ UNCHANGED <<states, applied>> /\ group' = [group EXCEPT ![n] = new]
  BY <1>6, InstallRuns DEF Announces
<1>8. OthersRest(n) /\ group'[n] = new /\ authority'[n] = c.state
  BY <1>6, <1>7 DEF OthersRest, IInv, TypeInv
<1>9. FounderRests
  BY <1>7, <1>8, FounderAside
<1>10. OnLine(c.state) /\ OnLine(c.state)'
  BY <1>1, <1>9, LineRests DEF MailOK
<1>11. ReplicaOK(n)'
  BY <1>5, <1>8, <1>10 DEF ReplicaOK, OnLine
<1> QED  BY <1>6, <1>7, <1>8, <1>9, <1>11, ConsumedRests, SteadyRest, HonestStep

\* A chain is taken, the roster stays.
LEMMA HonestInstall ==
  ASSUME IInv, IInv', HonestInv, NEW n \in Node, NEW c \in Mail, c.to = n, c.kind \in Announces,
         group[n] # NoGroup, Install(n, c, group[n]),
           UNCHANGED <<budget, asked, authority, consumed>>
  PROVE  HonestInv'
<1>1. MailRuns /\ UNCHANGED <<states, applied>> /\ group' = [group EXCEPT ![n] = group[n]]
  BY InstallRuns
<1>2. group' = group
  BY <1>1 DEF IInv, TypeInv
<1> QED  BY <1>1, <1>2, ReplicasRest, ConsumedRests, SteadyRest, HonestStep

\* A roster of before the upgrade comes from the founder and does not replace a signed one.
LEMMA HonestAnnounce ==
  ASSUME IInv, IInv', HonestInv, NEW n \in Node, NEW c \in Mail, c.to = n, c.kind = "announce",
         ~Waits(n, c), apply_group_announce(n, c), UNCHANGED <<budget, asked>>
  PROVE  HonestInv'
<1>1. MailOK(c) /\ ControlOK(c) /\ c.kind \in Announces
  BY MailIs DEF HonestInv, Announces
<1>2. group[n] # NoGroup /\ ReplicaOK(n)
  BY DEF Waits, HonestInv
<1>3. group[n] \in Record
  BY <1>2, RecordIs
<1>4. ASSUME Newer(n, c) PROVE n # Founder /\ authority[n] = NoState
  <2>1. c.from = Founder /\ n # Founder /\ BeforeUpgrade(c.generation) /\ c.generation \in Nat
    BY <1>1, <1>2, <1>4 DEF Newer, ReplicaOK, MailOK, ControlOK
  <2>2. ASSUME authority[n] # NoState PROVE FALSE
    <3>1. OnLine(authority[n]) /\ group[n].generation = authority[n].generation
      BY <1>2, <2>2 DEF ReplicaOK
    <3>2. c.generation < authority[n].generation
      BY <2>1, <3>1 DEF OnLine, BeforeUpgrade, StateId
    <3> QED  BY <1>3, <1>4, <2>1, <3>1, <3>2 DEF Newer, Record
  <2> QED  BY <2>1, <2>2
<1>5. CASE Newer(n, c) /\ RemoveMe(n, c)
  BY <1>4, <1>5, HonestRemoveMe
<1>6. PICK rekeyed : rekeyed = IF group[n].secret = c.secret THEN group[n]
                 ELSE [group[n] EXCEPT !.prev = {group[n].secret}, !.secret = c.secret]
  OBVIOUS
<1>7. PICK adopted : adopted = Rotated(n, [rekeyed EXCEPT !.members = c.members,
                                                         !.generation = c.generation], 1)
  OBVIOUS
<1>8. CASE Newer(n, c) /\ Install(n, c, adopted) /\ UNCHANGED <<authority, consumed>>
  <2>1. MailRuns /\ UNCHANGED <<states, applied>> /\ group' = [group EXCEPT ![n] = adopted]
    BY <1>1, <1>8, InstallRuns
  <2>2. rekeyed \in Record /\ rekeyed.creator = group[n].creator
    <3>1. PICK prev \in SUBSET Serial : prev = {group[n].secret}
      BY <1>3 DEF Record
    <3>2. PICK a \in Record : a = [group[n] EXCEPT !.prev = prev]
      BY <1>3 DEF Record
    <3>3. PICK b \in Record : b = [a EXCEPT !.secret = c.secret]
      BY <1>1 DEF Record, ControlOK
    <3>4. b = [group[n] EXCEPT !.prev = {group[n].secret}, !.secret = c.secret]
      BY <3>1, <3>2, <3>3, Zenon
    <3>5. b.creator = group[n].creator
      BY <1>3, <3>2, <3>3 DEF Record
    <3> QED  BY <1>3, <1>6, <3>4, <3>5
  <2>3. PICK d \in Record : d = [rekeyed EXCEPT !.members = c.members]
    BY <1>1, <2>2 DEF Record, ControlOK
  <2>4. PICK e \in Record : e = [d EXCEPT !.generation = c.generation]
    BY <1>1 DEF Record, ControlOK
  <2>5. e.creator = group[n].creator
    BY <2>2, <2>3, <2>4 DEF Record
  <2>6. adopted = Rotated(n, e, 1)
    BY <1>7, <2>3, <2>4, Zenon
  <2>7. adopted.creator = Founder
    BY <1>2, <2>5, <2>6, RotatedKeeps DEF ReplicaOK
  <2>8. OthersRest(n) /\ group'[n] = adopted /\ authority'[n] = NoState
    BY <1>4, <1>8, <2>1 DEF OthersRest, IInv, TypeInv
  <2>9. ReplicaOK(n)'
    BY <2>7, <2>8 DEF ReplicaOK
  <2> QED  BY <1>4, <1>8, <2>1, <2>8, <2>9, FounderAside, ConsumedRests, SteadyRest, HonestStep
<1>9. CASE Install(n, c, group[n]) /\ UNCHANGED <<authority, consumed>>
  BY <1>1, <1>2, <1>9, HonestInstall
<1> QED  BY <1>5, <1>6, <1>7, <1>8, <1>9 DEF apply_group_announce

\* The founder takes no state from others: it holds the last.
LEMMA HonestSigned ==
  ASSUME IInv, IInv', HonestInv, NEW n \in Node, NEW c \in Mail, c.to = n, c.kind = "signed",
         ~Waits(n, c), apply_authority_announce(n, c), UNCHANGED <<budget, asked>>
  PROVE  HonestInv'
<1>1. MailOK(c) /\ ControlOK(c)
  BY MailIs DEF HonestInv
<1>2. CASE Discard(n, c)
  BY <1>2, HonestKeep
<1>3. CASE /\ ValidAnnounce(c) /\ Acceptable(n, c.state) /\ Adopts(n, c.state)
           /\ AdoptState(n, c, group[n])
  <2>1. n # Founder
    <3> SUFFICES ASSUME n = Founder PROVE FALSE
      OBVIOUS
    <3>1. OnLine(c.state) /\ StateOK(c.state)
      BY <1>1 DEF MailOK, ControlOK
    <3>2. authority[Founder] # NoState /\ Supersedes(c.state, authority[Founder])
      BY <1>3, <3>1 DEF OnLine, Adopts
    <3>3. authority[Founder] \in AuthorityState(Serial)
      BY <3>2, FounderIs DEF IInv, TypeInv
    <3> QED  BY <3>1, <3>2, <3>3 DEF OnLine, Supersedes, StateOK, AuthorityState
  <2>2. group[n] # NoGroup
    BY <1>3 DEF Waits
  <2> QED  BY <1>3, <2>1, <2>2, RecordIs, HonestAdopt
<1>4. CASE Holds(n, c.state) /\ Install(n, c, group[n]) /\ UNCHANGED <<authority, consumed>>
  <2>1. group[n] # NoGroup
    BY <1>4 DEF Holds, IInv, RowInv, RowsOK
  <2> QED  BY <1>4, <2>1, HonestInstall DEF Announces
<1> QED  BY <1>2, <1>3, <1>4 DEF apply_authority_announce

\* The founder is not told to go: the notices are its own.
LEMMA HonestNotice ==
  ASSUME IInv, IInv', HonestInv, NEW n \in Node, NEW c \in Mail, c.to = n,
         UNCHANGED <<budget, asked>>,
         \/ c.kind = "remove" /\ apply_group_remove_notice(n, c)
         \/ c.kind = "expel" /\ apply_authority_remove(n, c)
  PROVE  HonestInv'
<1>1. MailOK(c)
  BY DEF HonestInv
<1>2. CASE Discard(n, c)
  BY <1>2, HonestKeep
<1>3. CASE /\ c.kind = "remove" /\ group[n] # NoGroup /\ c.from = group[n].creator
           /\ RemoveMe(n, c)
  <2>1. n # Founder
    BY <1>1, <1>3 DEF MailOK, HonestInv, ReplicaOK
  <2> QED  BY <1>3, <2>1, HonestRemoveMe
<1>4. CASE c.kind = "expel" /\ c.state.signer = c.from /\ RemoveMe(n, c)
  <2>1. n # Founder
    BY <1>1, <1>4 DEF MailOK, OnLine
  <2> QED  BY <1>4, <2>1, HonestRemoveMe
<1> QED  BY <1>2, <1>3, <1>4 DEF apply_group_remove_notice, apply_authority_remove

LEMMA HonestResult ==
  ASSUME IInv, IInv', HonestInv, NEW n \in Node, NEW c \in Mail, c.to = n,
         UNCHANGED <<budget, asked>>,
         c.kind = "result", apply_group_admin_result(n, c)
  PROVE  HonestInv'
<1>1. /\ UNCHANGED <<group, authority, consumed, states, applied>>
      /\ net' = net \ {c} /\ deferred' = [deferred EXCEPT ![n] = deferred[n] \ {c}]
  BY DEF apply_group_admin_result, Done
<1>2. MailRuns
  BY <1>1, MailGone
<1> QED  BY <1>1, <1>2, ReplicasRest, ConsumedRests, SteadyRest, HonestStep

\* While a request is in the founder's hands it reads no acknowledgement.
LEMMA HonestAck ==
  ASSUME IInv, IInv', HonestInv, NEW n \in Node, NEW c \in net, c.to = n,
         UNCHANGED <<budget, asked>>,
         c.kind = "ack", TickRuns(n), apply_ack(n, c)
  PROVE  HonestInv'
<1>1. /\ net' \subseteq net /\ UNCHANGED <<authority, consumed, deferred, states, applied>>
      /\ group' = group \/ (group[n] # NoGroup /\ group' = [group EXCEPT ![n].acked = group[n].acked \cup {c.from}])
  BY DEF apply_ack
<1>2. MailRuns
  BY <1>1 DEF MailRuns, Mail
<1>3. CASE group' = group
  BY <1>1, <1>2, <1>3, ReplicasRest, ConsumedRests, SteadyRest, HonestStep
<1>4. CASE /\ group[n] # NoGroup
           /\ group' = [group EXCEPT ![n].acked = group[n].acked \cup {c.from}]
  <2>1. NoRequest(n)
    BY DEF NoRequest, TickRuns, Waits
  <2>2. group[n] \in Record /\ c.from \in Node
    BY <1>4, RecordIs, MailIs DEF Mail, ControlOK
  <2>3. PICK acked \in SUBSET Node : acked = group[n].acked \cup {c.from}
    BY <2>2 DEF Record
  <2>4. PICK rec : rec = [group[n] EXCEPT !.acked = acked]
    OBVIOUS
  <2>5. /\ rec \in Record /\ rec.creator = group[n].creator /\ rec.members = group[n].members
        /\ rec.generation = group[n].generation
    BY <2>2, <2>4 DEF Record
  <2>6. group' = [group EXCEPT ![n] = rec]
    BY <1>4, <2>3, <2>4
  <2> QED  BY <1>1, <1>2, <1>4, <2>1, <2>5, <2>6, RosterRests, ConsumedRests, SteadyRest,
        HonestStep
<1> QED  BY <1>1, <1>3, <1>4

\* An invitation comes from elsewhere, and to whoever has no group.
LEMMA HonestAccept ==
  ASSUME IInv, IInv', HonestInv, NEW n \in Node, NEW c \in deferred[n],
         accept_group_invitation(n, c)
  PROVE  HonestInv'
<1>1. UNCHANGED <<budget, asked>> /\ IsInvitation(n, c) /\ c \in Mail
  BY DEF accept_group_invitation, Mail
<1>2. MailOK(c) /\ ControlOK(c) /\ c.to = n
  BY <1>1, MailIs DEF HonestInv
<1>3. group[n] = NoGroup /\ authority[n] = NoState
  BY <1>1 DEF IsInvitation, IInv, RowInv, RowsOK
<1>4. CASE c.kind = "announce"
  <2>1. n # Founder /\ c.creator = Founder
    BY <1>1, <1>2, <1>4 DEF IsInvitation, MailOK
  <2>2. PICK rec : rec = [creator |-> c.creator, members |-> c.members, secret |-> c.secret,
              prev |-> {}, generation |-> c.generation, key |-> <<n, 0>>, origin |-> 0,
              acked |-> {}, sent |-> 0]
    OBVIOUS
  <2>3. rec \in Record /\ rec.creator = Founder
    BY <1>2, <1>4, <2>1, <2>2, GroupsAssumption DEF Record, Serial, ControlOK, Announces
  <2>4. PICK new : new = Rotated(n, rec, 1)
    OBVIOUS
  <2>5. new.creator = Founder
    BY <2>3, <2>4, RotatedKeeps
  <2>6. Install(n, c, new) /\ UNCHANGED <<authority, consumed>>
    BY <1>4, <2>2, <2>4 DEF accept_group_invitation, NewRecord
  <2>7. MailRuns /\ UNCHANGED <<states, applied>> /\ group' = [group EXCEPT ![n] = new]
    BY <1>4, <2>6, InstallRuns DEF Announces
  <2>8. OthersRest(n) /\ group'[n] = new /\ authority'[n] = NoState
    BY <1>3, <2>6, <2>7 DEF OthersRest, IInv, TypeInv
  <2>9. ReplicaOK(n)'
    BY <2>5, <2>8 DEF ReplicaOK
  <2> QED  BY <1>1, <2>1, <2>6, <2>7, <2>8, <2>9, FounderAside, ConsumedRests, SteadyRest,
        HonestStep
<1>5. CASE c.kind = "signed"
  <2>1. n # Founder
    BY <1>2, <1>3, <1>5 DEF MailOK, OnLine
  <2>2. c.state.owner \in Node /\ c.state.generation \in Nat /\ Members(c.state) \subseteq Node
    BY <1>2, <1>5 DEF ControlOK, StateOK, AuthorityState, Members
  <2>3. PICK rec : rec = [creator |-> c.state.owner, members |-> Members(c.state),
              secret |-> c.secret, prev |-> {}, generation |-> c.state.generation,
              key |-> <<n, 0>>, origin |-> 0, acked |-> {}, sent |-> 0]
    OBVIOUS
  <2>4. rec \in Record
    BY <1>2, <1>5, <2>2, <2>3, GroupsAssumption DEF Record, Serial, ControlOK, Announces
  <2>5. AdoptState(n, c, rec)
    BY <1>5, <2>3 DEF accept_group_invitation
  <2> QED  BY <1>1, <1>2, <1>5, <2>1, <2>4, <2>5, HonestAdopt
<1> QED  BY <1>1, <1>4, <1>5 DEF IsInvitation, Announces

\* Ids of requests are never used twice.
LEMMA AskedGrows ==
  ASSUME HonestInv, NEW request, NEW n \in Node, request.from = n,
         request.id = <<n, Cardinality(asked) + 1>>, asked' = asked \cup {request},
         UNCHANGED <<consumed, applied>>
  PROVE  AskedInv' /\ request.id \notin consumed'[Founder]
<1>1. AskedInv /\ IsFiniteSet(asked) /\ Cardinality(asked) \in Nat
  BY FS_CardinalityType DEF HonestInv, AskedInv
<1>2. PICK k \in Nat : k = Cardinality(asked) + 1
  BY <1>1
<1>3. \A d \in asked : d.id # request.id
  <2> SUFFICES ASSUME NEW d \in asked, d.id = request.id PROVE FALSE
    OBVIOUS
  <2>1. PICK j \in 1..Cardinality(asked) : d.id = <<d.from, j>>
    BY <1>1 DEF AskedInv
  <2>2. j = Cardinality(asked) + 1
    BY <2>1
  <2> QED  BY <1>1, <2>1, <2>2
<1>4. IsFiniteSet(asked') /\ Cardinality(asked') = Cardinality(asked) + 1
  <2>1. request \notin asked
    BY <1>3
  <2> QED  BY <1>1, <2>1, FS_AddElement
<1>5. \A d \in asked' : \E j \in 1..Cardinality(asked') : d.id = <<d.from, j>>
  <2>1. 1..Cardinality(asked) \subseteq 1..Cardinality(asked') /\ k \in 1..Cardinality(asked')
    BY <1>1, <1>2, <1>4
  <2>2. \A d \in asked : \E j \in 1..Cardinality(asked') : d.id = <<d.from, j>>
    BY <1>1, <2>1 DEF AskedInv
  <2>3. request.id = <<request.from, k>>
    BY <1>2
  <2> QED  BY <2>1, <2>2, <2>3
<1>6. \A c, d \in asked' : c.id = d.id => c = d
  BY <1>1, <1>3 DEF AskedInv
<1>7. /\ \A id \in consumed'[Founder] : \E c \in asked : c.id = id
      /\ consumed' = [x \in Node |-> consumed'[x]] /\ applied' \subseteq consumed'[Founder]
  BY <1>1 DEF AskedInv
<1>8. request.id \notin consumed'[Founder]
  BY <1>3, <1>7
<1> QED  BY <1>4, <1>5, <1>6, <1>7, <1>8 DEF AskedInv

\* An admin asks the founder, by the state it knows.
LEMMA HonestRequest ==
  ASSUME IInv, IInv', HonestInv, NEW n \in Node, NEW action, NEW m \in Node,
         authority[n] # NoState, queue_admin_request(n, action, m), Steady',
         action = "remove" => m # n, action = "invite" => m \notin group[n].members
  PROVE  HonestInv'
<1>1. PICK request : request = [kind |-> "request", from |-> n, to |-> authority[n].owner,
                  id |-> <<n, Cardinality(asked) + 1>>,
                  base |-> authority[n].generation, action |-> action, target |-> m]
  OBVIOUS
<1>2. /\ authority[n].role[n] = "admin"
      /\ asked' = asked \cup {request} /\ net' = net \cup {request}
      /\ UNCHANGED <<group, authority, consumed, deferred, states, applied>>
  BY <1>1 DEF queue_admin_request
<1>3. /\ request.kind = "request" /\ request.from = n /\ request.to = authority[n].owner
      /\ request.id = <<n, Cardinality(asked) + 1>> /\ request.base = authority[n].generation
      /\ request.action = action /\ request.target = m
  BY <1>1
<1>4. ReplicaOK(n) /\ OnLine(authority[n]) /\ StateOK(authority[n]) /\ group[n] # NoGroup
  BY DEF HonestInv, ReplicaOK, IInv, RowInv, RowsOK
<1>5. AskedInv' /\ request.id \notin consumed'[Founder]
  BY <1>2, <1>3, AskedGrows
<1>6. RequestOK(request)'
  <2>1. n # Founder /\ authority[n].owner = Founder /\ authority[Founder] # NoState
    BY <1>2, <1>4 DEF OnLine, StateOK
  <2>2. /\ authority[n].generation \in Nat
        /\ authority[n].generation <= authority[Founder].generation
    BY <1>4 DEF OnLine, StateOK, AuthorityState
  <2>3. action = "invite" /\ authority[n].generation = authority[Founder].generation =>
          m \notin Members(authority[Founder])
    BY <1>4 DEF OnLine, ReplicaOK
  <2>4. Members(authority[Founder])' = Members(authority[Founder])
    BY <1>2
  <2> QED  BY <1>2, <1>3, <1>5, <2>1, <2>2, <2>3, <2>4 DEF RequestOK
<1>7. MailOK(request)'
  BY <1>3, <1>6 DEF MailOK
<1>8. FounderRests /\ \A x \in Node : ReplicaOK(x)'
  <2>1. \A x \in Node : ReplicaOK(x)' /\ FounderRests
    BY <1>2, ReplicasRest
  <2> QED  BY <2>1, FounderIs
<1>9. \A c \in Mail' : MailOK(c)'
  <2> SUFFICES ASSUME NEW c \in Mail', c \in Mail PROVE MailOK(c)'
    BY <1>2, <1>7 DEF Mail
  <2>1. ReplicaOK(Founder)' /\ (OnLine(authority[Founder])' \/ authority[Founder] = NoState)
    BY <1>2, <1>8, FounderIs DEF ReplicaOK
  <2> QED  BY <1>2, <1>8, <2>1, MailStays
<1>10. FounderInv'
  BY <1>2 DEF HonestInv, FounderInv, Steady
<1> QED  BY <1>5, <1>8, <1>9, <1>10 DEF HonestInv

\* No request is answered with the state of another: before the state may change, the
\* sender of a decided one has to acknowledge the founder's chain.
LEMMA NoneUnanswered ==
  ASSUME IInv, HonestInv, RecipientAuthenticated(Founder), NEW c \in Mail, c.kind = "request"
  PROVE  c.id \notin consumed[Founder]
<1>1. RequestOK(c)
  BY DEF HonestInv, MailOK
<1> QED  BY <1>1 DEF RequestOK, Unanswered, RecipientAuthenticated, Others

\* A new state of the founder, one generation on.
Advances(next) ==
  /\ StateOK(next) /\ next.owner = Founder /\ next.signer = Founder
  /\ authority[Founder] # NoState => next.generation = authority[Founder].generation + 1
  /\ authority[Founder] = NoState => next.generation = group[Founder].generation + 1

\* What a commit leaves at the founder.
LEMMA CommitIs ==
  ASSUME IInv, NEW next, Advances(next), NEW rank, CommitState(Founder, next, rank)
  PROVE  /\ authority'[Founder] = [next EXCEPT !.rank = rank]
         /\ authority'[Founder] \in AuthorityState(Serial) /\ authority'[Founder] # NoState
         /\ OthersRest(Founder) /\ RecipientAuthenticated(Founder) /\ group[Founder] # NoGroup
         /\ authority'[Founder].role = next.role
         /\ states' = states \cup {StateId(authority'[Founder])}
         /\ authority'[Founder].owner = Founder /\ authority'[Founder].signer = Founder
         /\ authority'[Founder].generation = next.generation
         /\ Members(authority'[Founder]) = Members(next)
         /\ group'[Founder].creator = Founder
         /\ group'[Founder].generation = authority'[Founder].generation
         /\ group'[Founder].members = Members(authority'[Founder])
         /\ group'[Founder].acked = {}
<1>i. TypeInv
  BY DEF IInv
<1>1. PICK s : s = [next EXCEPT !.rank = rank]
  OBVIOUS
<1>2. /\ s.generation = next.generation /\ s.owner = Founder /\ s.role = next.role
      /\ s.secret = next.secret /\ s.signer = Founder
  BY <1>1 DEF Advances, StateOK, AuthorityState
<1>3. /\ group[Founder] # NoGroup /\ RecipientAuthenticated(Founder)
      /\ states' = states \cup {StateId(s)}
      /\ authority' = [authority EXCEPT ![Founder] = s]
      /\ group' = [group EXCEPT ![Founder] = Rotated(Founder, [Sender(Founder) EXCEPT
           !.prev = {group[Founder].secret}, !.secret = s.secret, !.creator = s.owner,
           !.generation = s.generation, !.members = Members(s)], 2)]
  BY <1>1 DEF CommitState
<1>4. Members(s) = Members(next) /\ Members(s) \in SUBSET Node
  BY <1>2 DEF Members
<1>5. s.generation \in Nat /\ s.secret \in Serial /\ s.owner \in Node
  BY <1>2, FounderIs DEF Advances, StateOK, AuthorityState
<1>6. PICK snd \in Record : snd = Sender(Founder)
  BY <1>3, FounderIs, SenderIs
<1>7. PICK rec : rec = [snd EXCEPT
           !.prev = {group[Founder].secret}, !.secret = s.secret, !.creator = s.owner,
           !.generation = s.generation, !.members = Members(s)]
  OBVIOUS
<1>8. /\ rec \in Record /\ rec.creator = s.owner /\ rec.generation = s.generation
      /\ rec.members = Members(s)
  <2>0. PICK prev \in SUBSET Serial : prev = {group[Founder].secret}
    BY <1>3, FounderIs, RecordIs DEF Record
  <2>1. PICK a \in Record : a = [snd EXCEPT !.prev = prev]
    BY <1>6 DEF Record
  <2>2. PICK b \in Record : b = [a EXCEPT !.secret = s.secret]
    BY <1>5 DEF Record
  <2>3. PICK c \in Record : c = [b EXCEPT !.creator = s.owner]
    BY <1>5 DEF Record
  <2>4. PICK d \in Record : d = [c EXCEPT !.generation = s.generation]
    BY <1>5 DEF Record
  <2>5. PICK e \in Record : e = [d EXCEPT !.members = Members(s)]
    BY <1>4 DEF Record
  <2>6. rec = e
    BY <1>7, <2>0, <2>1, <2>2, <2>3, <2>4, <2>5, Zenon
  <2>7. e.creator = s.owner /\ e.generation = s.generation /\ e.members = Members(s)
    BY <2>3, <2>4, <2>5 DEF Record
  <2> QED  BY <2>6, <2>7
<1>9. PICK new : new = Rotated(Founder, rec, 2)
  OBVIOUS
<1>10. /\ new.creator = s.owner /\ new.generation = s.generation /\ new.members = Members(s)
       /\ new.acked = {}
  BY <1>8, <1>9, RotatedKeeps
<1>11. group' = [group EXCEPT ![Founder] = new]
  BY <1>3, <1>6, <1>7, <1>9
<1>12. group'[Founder] = new /\ authority'[Founder] = s /\ OthersRest(Founder)
  BY <1>i, <1>3, <1>11, FounderIs DEF TypeInv, OthersRest
<1>13. s \in AuthorityState(Serial)
  <2>1. rank \in Ranks(s.generation) /\ states' = states \cup {<<s.generation, rank>>}
    BY <1>1, <1>3 DEF CommitState, StateId, Advances, StateOK, AuthorityState
  <2>2. rank \in Int
    BY <1>5, <2>1, RanksGrow DEF IInv
  <2> QED  BY <1>1, <2>2 DEF Advances, StateOK, AuthorityState
<1> QED  BY <1>1, <1>2, <1>3, <1>4, <1>10, <1>12, <1>13, NoStateAssumption

\* A commit of the founder keeps the invariant.
LEMMA HonestCommit ==
  ASSUME IInv, IInv', HonestInv, NEW next, Advances(next), NEW rank,
         CommitState(Founder, next, rank), Steady', AskedInv', asked' = asked,
         consumed[Founder] \subseteq consumed'[Founder],
         \A id \in consumed[Founder] : id \in applied' <=> id \in applied,
         \A c \in Mail' : \/ MailOK(c)'
                          \/ /\ c \in Mail
                             /\ (c.kind = "request" => c.id \notin consumed'[Founder])
  PROVE  HonestInv'
<1>1. /\ OthersRest(Founder) /\ group[Founder] # NoGroup
      /\ states' = states \cup {StateId(authority'[Founder])}
      /\ authority'[Founder].owner = Founder /\ authority'[Founder].signer = Founder
      /\ authority'[Founder].generation = next.generation
      /\ group'[Founder].creator = Founder
      /\ group'[Founder].generation = authority'[Founder].generation
      /\ group'[Founder].members = Members(authority'[Founder])
      /\ authority'[Founder] # NoState
  BY CommitIs
<1>2. next.generation \in Nat
  BY DEF Advances, StateOK, AuthorityState
<1>3. ReplicaOK(Founder)'
  <2>1. OnLine(authority[Founder])'
    BY <1>1, <1>2 DEF OnLine
  <2> QED  BY <1>1, <2>1 DEF ReplicaOK
<1>4. ASSUME NEW s, OnLine(s) PROVE OnLine(s)'
  <2>1. authority[Founder] # NoState /\ authority[Founder] \in AuthorityState(Serial)
    BY <1>4, FounderIs DEF OnLine, IInv, TypeInv
  <2>2. /\ authority[Founder].generation \in Nat
        /\ next.generation = authority[Founder].generation + 1
    BY <2>1 DEF Advances, AuthorityState
  <2>3. s.generation < authority'[Founder].generation
    BY <1>1, <1>4, <2>2 DEF OnLine
  <2>4. StateId(s) \in states'
    BY <1>1, <1>4 DEF OnLine
  <2> QED  BY <1>1, <1>2, <1>4, <2>3, <2>4 DEF OnLine
<1>5. ASSUME NEW g \in Nat, BeforeUpgrade(g) PROVE BeforeUpgrade(g)'
  <2>1. states' # {}
    BY <1>1
  <2>2. g < next.generation
    <3>1. CASE authority[Founder] = NoState
      <4>1. states = {}
        BY <3>1 DEF HonestInv, FounderInv
      <4>2. g <= group[Founder].generation /\ next.generation = group[Founder].generation + 1
        BY <1>5, <3>1, <4>1 DEF BeforeUpgrade, Advances
      <4>3. group[Founder].generation \in Nat
        BY <1>1, FounderIs, RecordIs DEF Record
      <4> QED  BY <4>2, <4>3
    <3>2. CASE authority[Founder] # NoState
      <4>1. OnLine(authority[Founder]) /\ authority[Founder].generation \in Nat
        BY <3>2, FounderIs DEF HonestInv, ReplicaOK, IInv, TypeInv, AuthorityState
      <4>2. g < authority[Founder].generation
        BY <1>5, <4>1 DEF OnLine, BeforeUpgrade, StateId
      <4>3. next.generation = authority[Founder].generation + 1
        BY <3>2 DEF Advances
      <4> QED  BY <4>1, <4>2, <4>3
    <3> QED  BY <3>1, <3>2
  <2>3. \A id \in states' : g < id[1]
    <3>1. PICK id : id = StateId(authority'[Founder])
      OBVIOUS
    <3>2. id[1] = next.generation
      BY <1>1, <3>1 DEF StateId
    <3> QED  BY <1>1, <1>5, <2>2, <3>1, <3>2 DEF BeforeUpgrade
  <2> QED  BY <2>1, <2>3 DEF BeforeUpgrade
<1>6. \A x \in Node : ReplicaOK(x)'
  <2> SUFFICES ASSUME NEW x \in Node, x # Founder PROVE ReplicaOK(x)'
    BY <1>3
  <2>1. ReplicaOK(x) /\ group'[x] = group[x] /\ authority'[x] = authority[x]
    BY <1>1 DEF OthersRest, HonestInv
  <2> QED  BY <1>4, <2>1 DEF ReplicaOK
<1>7. ASSUME NEW c \in Mail, c.kind = "request" => c.id \notin consumed'[Founder]
      PROVE MailOK(c)'
  <2>1. MailOK(c) /\ ControlOK(c)
    BY MailIs DEF HonestInv
  <2>2. c.kind \in {"signed", "expel"} => OnLine(c.state)'
    BY <1>4, <2>1 DEF MailOK
  <2>4. c.kind = "announce" /\ c.from = Founder => BeforeUpgrade(c.generation)'
    BY <1>5, <2>1 DEF MailOK, ControlOK
  <2>5. ASSUME c.kind = "request" PROVE RequestOK(c)'
    <3>1. RequestOK(c)
      BY <2>1, <2>5 DEF MailOK
    <3>2. /\ authority[Founder].generation \in Nat
          /\ next.generation = authority[Founder].generation + 1
      BY <3>1, FounderIs DEF RequestOK, Advances, IInv, TypeInv, AuthorityState
    <3>3. c.base < authority'[Founder].generation
      BY <1>1, <3>1, <3>2 DEF RequestOK
    <3> QED  BY <1>1, <1>2, <1>7, <2>5, <3>1, <3>3 DEF RequestOK
  <2>6. c.kind = "result" => AnswerOK(c)'
    BY <2>1 DEF MailOK, AnswerOK
  <2> QED  BY <2>1, <2>2, <2>4, <2>5, <2>6 DEF MailOK
<1>8. FounderInv'
  BY <1>1 DEF FounderInv, Steady
<1> QED  BY <1>6, <1>7, <1>8 DEF HonestInv

\* What the next state keeps of the one it is made from.
LEMMA NextKeeps ==
  ASSUME TypeInv, NEW n \in Node, NEW t \in AuthorityState(Serial)
  PROVE  /\ Next1(n, t).owner = t.owner /\ Next1(n, t).signer = t.owner
         /\ Next1(n, t).role = t.role /\ Next1(n, t).generation = t.generation + 1
<1>1. PICK secret \in Serial : secret = Secret(n)
  BY SecretIs
<1>2. PICK g \in Nat : g = t.generation + 1
  BY DEF AuthorityState
<1>3. PICK a \in AuthorityState(Serial) : a = [t EXCEPT !.generation = g]
  BY DEF AuthorityState
<1>4. PICK b \in AuthorityState(Serial) : b = [a EXCEPT !.signer = t.owner]
  BY DEF AuthorityState
<1>5. PICK next \in AuthorityState(Serial) : next = [b EXCEPT !.secret = secret]
  BY DEF AuthorityState
<1>6. Next1(n, t) = next
  BY <1>1, <1>2, <1>3, <1>4, <1>5, Zenon DEF Next1, prepare_next_state
<1>7. a.owner = t.owner /\ a.role = t.role /\ a.generation = g
  BY <1>3 DEF AuthorityState
<1>8. b.owner = t.owner /\ b.role = t.role /\ b.generation = g /\ b.signer = t.owner
  BY <1>4, <1>7 DEF AuthorityState
<1>9. next.owner = t.owner /\ next.role = t.role /\ next.generation = g /\ next.signer = t.owner
  BY <1>5, <1>8 DEF AuthorityState
<1> QED  BY <1>2, <1>6, <1>9

\* The owner of a signed group is the founder.
LEMMA OwnerIsFounder ==
  ASSUME HonestInv, NEW n \in Node, authority[n] # NoState
  PROVE  authority[n].owner = Founder
BY DEF HonestInv, ReplicaOK, OnLine

\* A state made from one of the last generation advances.
LEMMA NextAdvances ==
  ASSUME IInv, NEW t, StateOK(t), t.owner = Founder, authority[Founder] # NoState,
         t.generation = authority[Founder].generation,
         t.transfers = authority[Founder].transfers
  PROVE  Advances(Next1(Founder, t)) /\ Next1(Founder, t).role = t.role
<1>1. TypeInv /\ Founder \in Node /\ t \in AuthorityState(Serial)
  BY FounderIs DEF IInv, StateOK
<1>2. StateOK(Next1(Founder, t))
  BY <1>1, NextIs DEF GoesOn
<1>3. /\ Next1(Founder, t).owner = t.owner /\ Next1(Founder, t).signer = t.owner
      /\ Next1(Founder, t).role = t.role /\ Next1(Founder, t).generation = t.generation + 1
  BY <1>1, NextKeeps
<1> QED  BY <1>2, <1>3 DEF Advances

\* The notice of a removal carries the new state and does not go to the founder.
LEMMA CommitNotice ==
  ASSUME IInv, NEW next, Advances(next), NEW rank, CommitState(Founder, next, rank),
         NEW m, m # Founder, NEW c, c = AuthorityRemove(Founder, m, authority'[Founder])
  PROVE  MailOK(c)'
<1>1. /\ states' = states \cup {StateId(authority'[Founder])}
      /\ authority'[Founder].owner = Founder /\ authority'[Founder].signer = Founder
      /\ authority'[Founder] \in AuthorityState(Serial) /\ authority'[Founder] # NoState
  BY CommitIs
<1>2. c.kind = "expel" /\ c.from = Founder /\ c.to = m /\ c.state = authority'[Founder]
  BY DEF AuthorityRemove
<1>3. authority'[Founder].generation \in Nat
  BY <1>1 DEF AuthorityState
<1>4. OnLine(c.state)'
  BY <1>1, <1>2, <1>3 DEF OnLine
<1> QED  BY <1>2, <1>4 DEF MailOK

\* A signed change of the owner's own.
LEMMA HonestOwner ==
  ASSUME IInv, IInv', HonestInv, NEW n \in Node, NEW t, StateOK(t), t.owner = n,
         t.generation = authority[n].generation, t.transfers = authority[n].transfers,
         OwnerCommits(n, Next1(n, t)), Steady', NEW m \in Node, m # n,
         \A c \in net' : c \in net \/ c = AuthorityRemove(n, m, authority'[n])
  PROVE  HonestInv'
<1>1. PICK rank : CommitState(n, Next1(n, t), rank)
  BY DEF OwnerCommits
<1>2. /\ UNCHANGED <<consumed, deferred, asked, applied>> /\ authority[n] # NoState
      /\ authority[n].owner = n
  BY DEF OwnerCommits, history, Owns
<1>3. n = Founder
  BY <1>2, OwnerIsFounder
<1>4. PICK next : next = Next1(Founder, t)
  OBVIOUS
<1>5. Advances(next) /\ CommitState(Founder, next, rank)
  BY <1>1, <1>2, <1>3, <1>4, NextAdvances
<1>6. RecipientAuthenticated(Founder)
  BY <1>5 DEF CommitState
<1>7. ASSUME NEW c \in Mail'
      PROVE  MailOK(c)' \/ (c \in Mail /\ (c.kind = "request" => c.id \notin consumed'[Founder]))
  <2>1. CASE c \in Mail
    BY <1>2, <1>6, <2>1, NoneUnanswered
  <2>2. CASE c = AuthorityRemove(n, m, authority'[n])
    BY <1>3, <1>5, <2>2, CommitNotice
  <2> QED  BY <1>2, <2>1, <2>2 DEF Mail
<1>8. AskedInv'
  BY <1>2 DEF HonestInv, AskedInv
<1> QED  BY <1>2, <1>5, <1>7, <1>8, HonestCommit

\* The creator of a group is its founder and signs the first state.
LEMMA HonestUpgrade ==
  ASSUME IInv, IInv', HonestInv, NEW n \in Node, group_upgrade_authority(n)
  PROVE  HonestInv'
<1>i. TypeInv
  BY DEF IInv
<1>1. /\ group[n] # NoGroup /\ authority[n] = NoState /\ group[n].creator = n
      /\ UNCHANGED <<consumed, deferred, net, asked, applied>>
  BY DEF group_upgrade_authority, history
<1>2. n = Founder /\ group[n] \in Record
  BY <1>1, RecordIs DEF HonestInv, ReplicaOK
<1>3. PICK next : next = FirstState(n, group[n].members, group[n].generation, Secret(n))
  OBVIOUS
<1>4. PICK role : role = [m \in Node |-> IF m = n THEN "owner"
                                         ELSE IF m \in group[n].members THEN "member"
                                           ELSE "none"]
  OBVIOUS
<1>5. role \in [Node -> Role] /\ role[n] = "owner"
  BY <1>4 DEF Role
<1>6. group[n].generation + 1 \in Nat /\ Secret(n) \in Serial
  BY <1>i, <1>2, SecretIs DEF Record
<1>7. next = [generation |-> group[n].generation + 1, rank |-> 0, original_owner |-> n,
              owner |-> n, signer |-> n, secret |-> Secret(n), transfers |-> <<>>,
                role |-> role]
  BY <1>3, <1>4 DEF FirstState
<1>8. <<>> \in Seq([from: Node, to: Node, generation: Nat])
  OBVIOUS
<1>9. /\ next \in AuthorityState(Serial) /\ next.owner = n /\ next.role = role
      /\ next.signer = n
      /\ next.generation = group[n].generation + 1
  BY <1>5, <1>6, <1>7, <1>8 DEF AuthorityState
<1>10. Advances(next)
  BY <1>1, <1>2, <1>5, <1>9 DEF Advances, StateOK
<1>11. CommitState(Founder, next, 0) /\ RecipientAuthenticated(Founder)
  BY <1>2, <1>3 DEF group_upgrade_authority, CommitState
<1>12. \A c \in Mail' : c \in Mail /\ (c.kind = "request" => c.id \notin consumed'[Founder])
  BY <1>1, <1>11, NoneUnanswered DEF Mail
<1>13. AskedInv'
  BY <1>1 DEF HonestInv, AskedInv
<1>14. Steady'
  BY SteadySpend DEF group_upgrade_authority, Command
<1> QED  BY <1>1, <1>10, <1>11, <1>12, <1>13, <1>14, HonestCommit

LEMMA HonestRole ==
  ASSUME IInv, IInv', HonestInv, NEW n \in Node, group_set_role(n)
  PROVE  HonestInv'
<1>1. StateOK(authority[n]) /\ authority[n].owner = n
  BY OwnedIs DEF group_set_role
<1>2. PICK m \in Members(authority[n]) \ {n}, r \in {"member", "admin"} :
        OwnerCommits(n, Next1(n, SetRole(authority[n], m, r)))
  BY DEF group_set_role
<1>3. m \in Node /\ m # n /\ r \in Role
  BY DEF Members, Role
<1>4. PICK t : t = SetRole(authority[n], m, r)
  OBVIOUS
<1>5. /\ StateOK(t) /\ t.owner = n /\ t.generation = authority[n].generation
      /\ t.transfers = authority[n].transfers
  BY <1>1, <1>3, <1>4, RoleIs
<1>6. net' = net
  BY DEF group_set_role
<1>7. Steady'
  BY SteadySpend DEF group_set_role, Command
<1> QED  BY <1>2, <1>3, <1>4, <1>5, <1>6, <1>7, HonestOwner

\* A change of the owner's that touches nobody else.
LEMMA HonestRename ==
  ASSUME IInv, IInv', HonestInv, NEW n \in Node, group_rename(n)
  PROVE  HonestInv'
<1>1. authority[n] # NoState
  BY DEF group_rename
<1>2. Steady'
  BY SteadySpend DEF group_rename, Command
<1>3. CASE OwnerCommits(n, Next1(n, authority[n])) /\ UNCHANGED net
  <2>1. StateOK(authority[n]) /\ authority[n].owner = n
    BY <1>3, OwnedIs DEF OwnerCommits
  <2>2. n = Founder
    BY <1>1, <2>1, OwnerIsFounder
  <2>3. PICK rank : CommitState(Founder, Next1(Founder, authority[Founder]), rank)
    BY <1>3, <2>2 DEF OwnerCommits
  <2>4. PICK next : next = Next1(Founder, authority[Founder])
    OBVIOUS
  <2>5. Advances(next) /\ CommitState(Founder, next, rank) /\ RecipientAuthenticated(Founder)
    BY <1>1, <2>1, <2>2, <2>3, <2>4, NextAdvances DEF CommitState
  <2>6. UNCHANGED <<consumed, deferred, asked, applied, net>>
    BY <1>3 DEF OwnerCommits, history
  <2>7. \A c \in Mail' : c \in Mail /\ (c.kind = "request" => c.id \notin consumed'[Founder])
    BY <2>5, <2>6, NoneUnanswered DEF Mail
  <2>8. AskedInv'
    BY <2>6 DEF HonestInv, AskedInv
  <2> QED  BY <1>2, <2>5, <2>6, <2>7, <2>8, HonestCommit
<1>4. CASE queue_admin_request(n, "rename", n)
  BY <1>1, <1>2, <1>4, HonestRequest
<1> QED  BY <1>3, <1>4 DEF group_rename

LEMMA HonestAdd ==
  ASSUME IInv, IInv', HonestInv, NEW n \in Node, group_add(n)
  PROVE  HonestInv'
<1>1. group[n] # NoGroup
  BY DEF group_add
<1>2. Steady'
  BY SteadySpend DEF group_add, Command
<1>3. PICK m \in Node \ group[n].members :
        IF authority[n] # NoState THEN group_authority_add_member(n, m) ELSE AddPlain(n, m)
  BY DEF group_add
<1>4. m # n
  BY <1>1, RecordIs
<1>5. CASE authority[n] = NoState
  BY <1>1, <1>2, <1>3, <1>5, HonestAddPlain
<1>6. CASE OwnerCommits(n, Next1(n, Admitted(authority[n], m))) /\ UNCHANGED net
  <2>1. StateOK(authority[n]) /\ authority[n].owner = n
    BY <1>6, OwnedIs DEF OwnerCommits
  <2>2. "member" \in Role
    BY DEF Role
  <2>3. PICK t : t = SetRole(authority[n], m, "member")
    OBVIOUS
  <2>4. /\ StateOK(t) /\ t.owner = n /\ t.generation = authority[n].generation
        /\ t.transfers = authority[n].transfers
    BY <1>4, <2>1, <2>2, <2>3, RoleIs
  <2>5. OwnerCommits(n, Next1(n, t))
    BY <1>6, <2>3 DEF Admitted
  <2> QED  BY <1>2, <1>4, <1>6, <2>4, <2>5, HonestOwner
<1>7. CASE authority[n] # NoState /\ queue_admin_request(n, "invite", m)
  BY <1>2, <1>7, HonestRequest
<1> QED  BY <1>3, <1>5, <1>6, <1>7 DEF group_authority_add_member

LEMMA HonestRemove ==
  ASSUME IInv, IInv', HonestInv, NEW n \in Node, group_remove(n)
  PROVE  HonestInv'
<1>1. group[n] # NoGroup
  BY DEF group_remove
<1>2. Steady'
  BY SteadySpend DEF group_remove, Command
<1>3. PICK m \in Others(n) :
        IF authority[n] # NoState
          THEN /\ m \in Members(authority[n]) \ {authority[n].owner}
               /\ group_authority_remove_member(n, m)
          ELSE RemovePlain(n, m)
  BY DEF group_remove
<1>4. m \in Node /\ m # n
  BY <1>1, RecordIs DEF Others, Record
<1>5. CASE authority[n] = NoState
  BY <1>1, <1>2, <1>3, <1>5, HonestRemovePlain
<1>6. CASE /\ OwnerCommits(n, Next1(n, Expelled(authority[n], m)))
           /\ \A c \in net' : c \in net \/ c = AuthorityRemove(n, m, authority'[n])
  <2>1. StateOK(authority[n]) /\ authority[n].owner = n
    BY <1>6, OwnedIs DEF OwnerCommits
  <2>2. "none" \in Role
    BY DEF Role
  <2>3. PICK t : t = SetRole(authority[n], m, "none")
    OBVIOUS
  <2>4. /\ StateOK(t) /\ t.owner = n /\ t.generation = authority[n].generation
        /\ t.transfers = authority[n].transfers
    BY <1>4, <2>1, <2>2, <2>3, RoleIs
  <2>5. OwnerCommits(n, Next1(n, t))
    BY <1>6, <2>3 DEF Expelled
  <2> QED  BY <1>2, <1>4, <1>6, <2>4, <2>5, HonestOwner
<1>7. CASE authority[n] # NoState /\ queue_admin_request(n, "remove", m)
  BY <1>2, <1>4, <1>7, HonestRequest
<1> QED  BY <1>3, <1>5, <1>6, <1>7 DEF group_authority_remove_member

\* Two requests with one id are one request.
LEMMA SameRequest ==
  ASSUME HonestInv, NEW c \in Mail, NEW d \in Mail, c.kind = "request", d.kind = "request",
         c.id = d.id
  PROVE  c = d
<1>1. c \in asked /\ d \in asked
  BY DEF HonestInv, MailOK, RequestOK
<1> QED  BY <1>1 DEF HonestInv, AskedInv

\* The founder decides a request.
LEMMA ConsumedGrows ==
  ASSUME HonestInv, NEW c \in Mail, c.kind = "request",
         consumed' = [consumed EXCEPT ![Founder] = @ \cup {c.id}], asked' = asked,
         applied' \subseteq applied \cup {c.id}
  PROVE  AskedInv' /\ consumed'[Founder] = consumed[Founder] \cup {c.id}
<1>1. AskedInv /\ c \in asked
  BY DEF HonestInv, MailOK, RequestOK
<1>2. /\ consumed'[Founder] = consumed[Founder] \cup {c.id}
      /\ consumed' = [n \in Node |-> consumed'[n]]
  BY <1>1, FounderIs DEF AskedInv
<1>3. \A id \in consumed'[Founder] : \E d \in asked : d.id = id
  BY <1>1, <1>2 DEF AskedInv
<1>4. applied' \subseteq consumed'[Founder]
  BY <1>1, <1>2 DEF AskedInv
<1> QED  BY <1>1, <1>2, <1>3, <1>4 DEF AskedInv

\* A control that is done with is in nobody's hands.
LEMMA MailDrops ==
  ASSUME IInv, NEW c \in Mail, c.to = Founder, NEW out, c \notin out, Done(Founder, c, out)
  PROVE  /\ \A d \in Mail' : d \in out \/ (d \in Mail /\ d # c)
         /\ \A d : d \in deferred[Founder] /\ d # c => d \in deferred'[Founder]
<1>1. /\ net' = (net \ {c}) \cup out
      /\ deferred' = [deferred EXCEPT ![Founder] = deferred[Founder] \ {c}]
  BY DEF Done
<1>2. \A x \in Node : deferred'[x] = IF x = Founder THEN deferred[Founder] \ {c}
        ELSE deferred[x]
  BY <1>1 DEF IInv, TypeInv
<1>3. \A x \in Node : x # Founder => c \notin deferred[x]
  BY MailIs
<1> QED  BY <1>1, <1>2, <1>3, FounderIs DEF Mail

\* The answer to a request says whether it was applied.
LEMMA HonestFinish ==
  ASSUME IInv, IInv', HonestInv, NEW c \in Mail, c.to = Founder, c.kind = "request",
         UNCHANGED <<budget, asked>>, NEW accepted, accepted <=> c.id \in applied,
         Finish(Founder, c, accepted)
  PROVE  HonestInv'
<1>1. PICK r : r = Result(Founder, c, accepted)
  OBVIOUS
<1>2. r.kind = "result" /\ r.id = c.id /\ r.accepted = accepted
  BY <1>1 DEF Result
<1>3. /\ UNCHANGED <<group, authority, states, applied>> /\ Done(Founder, c, {r})
      /\ consumed' = [consumed EXCEPT ![Founder] = @ \cup {c.id}]
  BY <1>1 DEF Finish
<1>4. AskedInv' /\ consumed'[Founder] = consumed[Founder] \cup {c.id}
  BY <1>3, ConsumedGrows
<1>5. /\ \A d \in Mail' : d = r \/ (d \in Mail /\ d # c)
      /\ \A d : d \in deferred[Founder] /\ d # c => d \in deferred'[Founder]
  <2>1. PICK out : out = {r}
    OBVIOUS
  <2>2. c \notin out
    BY <1>2, <2>1
  <2> QED  BY <1>3, <2>1, <2>2, MailDrops
<1>6. FounderRests /\ \A x \in Node : ReplicaOK(x)'
  <2>1. \A x \in Node : ReplicaOK(x)' /\ FounderRests
    BY <1>3, ReplicasRest
  <2> QED  BY <2>1, FounderIs
<1>7. ASSUME NEW d \in Mail' PROVE MailOK(d)'
  <2>1. CASE d = r
    BY <1>2, <1>3, <1>4, <2>1 DEF MailOK, AnswerOK
  <2>2. CASE d \in Mail /\ d # c
    <3>1. d.kind = "request" => (d.id \in consumed'[Founder] <=> d.id \in consumed[Founder])
      BY <1>4, <2>2, SameRequest
    <3>2. ReplicaOK(Founder)' /\ (OnLine(authority[Founder])' \/ authority[Founder] = NoState)
      BY <1>3, <1>6, FounderIs DEF ReplicaOK
    <3> QED  BY <1>3, <1>4, <1>5, <1>6, <2>2, <3>1, <3>2, MailStays
  <2> QED  BY <1>5, <2>1, <2>2
<1>8. FounderInv'
  BY <1>3 DEF HonestInv, FounderInv, Steady
<1> QED  BY <1>4, <1>6, <1>7, <1>8 DEF HonestInv

\* The state a request asks for.
Requested(c) ==
  CASE c.action = "rename" -> authority[Founder]
    [] c.action = "invite" -> Admitted(authority[Founder], c.target)
    [] c.action = "remove" -> Expelled(authority[Founder], c.target)

\* It is the old one but for the role of the target, and does what was asked.
LEMMA RequestedIs ==
  ASSUME IInv, HonestInv, NEW c \in Mail, c.kind = "request", authority[Founder] # NoState,
         Authorized(Founder, c), c.action = "remove" => Removable(Founder, c),
         c.action = "invite" => c.target \notin Members(authority[Founder])
  PROVE  /\ StateOK(Requested(c)) /\ Requested(c).owner = Founder
         /\ Requested(c).generation = authority[Founder].generation
         /\ Requested(c).transfers = authority[Founder].transfers
         /\ Requested(c).role[c.from] # "none"
         /\ c.action = "invite" => Requested(c).role[c.target] # "none"
         /\ c.action = "remove" => Requested(c).role[c.target] = "none"
         /\ c.action = "remove" => c.target # Founder
<1>1. StateOK(authority[Founder]) /\ authority[Founder].owner = Founder
  BY FounderIs DEF Authorized, IInv, RowInv, RowsOK
<1>2. /\ c.target \in Node /\ c.from \in Node /\ c.action \in {"rename", "invite", "remove"}
      /\ RequestOK(c) /\ authority[Founder].role[c.from] = "admin"
  BY MailIs DEF HonestInv, MailOK, ControlOK, Authorized
<1>3. PICK t : t = Requested(c)
  OBVIOUS
<1>4. CASE c.action = "rename"
  BY <1>1, <1>2, <1>4 DEF Requested
<1>5. authority[Founder].role \in [Node -> Role]
  BY <1>1 DEF StateOK, AuthorityState
<1>6. ASSUME NEW r \in Role, c.target # Founder, t = SetRole(authority[Founder], c.target, r)
      PROVE  /\ StateOK(t) /\ t.owner = Founder /\ t.generation = authority[Founder].generation
             /\ t.transfers = authority[Founder].transfers /\ t.role[c.target] = r
             /\ c.target # c.from => t.role[c.from] = "admin"
  <2>1. /\ StateOK(t) /\ t.owner = Founder /\ t.generation = authority[Founder].generation
        /\ t.transfers = authority[Founder].transfers
    BY <1>1, <1>2, <1>6, FounderIs, RoleIs
  <2>2. PICK role : role = [authority[Founder].role EXCEPT ![c.target] = r]
    OBVIOUS
  <2>3. t = [authority[Founder] EXCEPT !.role = role]
    BY <1>6, <2>2 DEF SetRole
  <2>4. t.role = role
    BY <1>1, <2>3 DEF StateOK, AuthorityState
  <2>5. role[c.target] = r /\ (c.target # c.from => role[c.from] = "admin")
    BY <1>2, <1>5, <2>2
  <2> QED  BY <2>1, <2>4, <2>5
<1>7. CASE c.action = "invite"
  <2>1. t = SetRole(authority[Founder], c.target, "member") /\ "member" \in Role
    BY <1>3, <1>7 DEF Requested, Admitted, Role
  <2>2. c.target # Founder /\ c.target # c.from
    BY <1>1, <1>2, <1>7, FounderIs DEF Members, StateOK
  <2> QED  BY <1>3, <1>6, <1>7, <2>1, <2>2
<1>8. CASE c.action = "remove"
  <2>1. t = SetRole(authority[Founder], c.target, "none") /\ "none" \in Role
    BY <1>3, <1>8 DEF Requested, Expelled, Role
  <2>2. c.target # Founder /\ c.target # c.from
    BY <1>1, <1>2, <1>8 DEF Removable, RequestOK
  <2> QED  BY <1>3, <1>6, <1>8, <2>1, <2>2
<1> QED  BY <1>2, <1>4, <1>7, <1>8

\* The state changes with the request marked; answered or not, it was applied.
LEMMA HonestCommitRequest ==
  ASSUME IInv, IInv', HonestInv, NEW c \in Mail, c.to = Founder, c.kind = "request",
         UNCHANGED <<budget, asked>>, authority[Founder] # NoState,
         c.id \notin consumed[Founder],
         Authorized(Founder, c), c.action = "remove" => Removable(Founder, c),
         c.action = "invite" => c.target \notin Members(authority[Founder]),
         CommitRequest(Founder, c)
  PROVE  HonestInv'
<1>1. /\ c.target \in Node /\ c.from \in Node /\ c.action \in {"rename", "invite", "remove"}
      /\ RequestOK(c) /\ c.base = authority[Founder].generation /\ AskedInv
  BY MailIs DEF HonestInv, MailOK, ControlOK, Authorized
<1>2. PICK t : t = Requested(c)
  OBVIOUS
<1>3. /\ StateOK(t) /\ t.owner = Founder /\ t.generation = authority[Founder].generation
      /\ t.transfers = authority[Founder].transfers /\ t.role[c.from] # "none"
      /\ c.action = "invite" => t.role[c.target] # "none"
      /\ c.action = "remove" => t.role[c.target] = "none" /\ c.target # Founder
  BY <1>2, RequestedIs
<1>4. PICK next : next = Next1(Founder, t)
  OBVIOUS
<1>5. Advances(next) /\ next.role = t.role
  BY <1>3, <1>4, NextAdvances
<1>6. PICK rank : CommitState(Founder, next, rank)
  BY <1>2, <1>4 DEF CommitRequest, Requested
<1>7. /\ consumed' = [consumed EXCEPT ![Founder] = @ \cup {c.id}]
      /\ applied' = applied \cup {c.id}
  BY DEF CommitRequest
<1>8. AskedInv' /\ consumed'[Founder] = consumed[Founder] \cup {c.id}
  BY <1>7, ConsumedGrows
<1>9. \A id \in consumed[Founder] : id \in applied' <=> id \in applied
  BY <1>7
<1>10. /\ authority'[Founder].generation = next.generation /\ authority'[Founder] # NoState
       /\ Members(authority'[Founder]) = Members(next) /\ RecipientAuthenticated(Founder)
       /\ group'[Founder].members = Members(authority'[Founder]) /\ group'[Founder].acked = {}
  BY <1>5, <1>6, CommitIs
<1>11. /\ authority[Founder].generation \in Nat
       /\ next.generation = authority[Founder].generation + 1
  BY <1>5, FounderIs DEF Advances, IInv, TypeInv, AuthorityState
<1>12. /\ observed_admin_request_outcome(authority[Founder], c)'
       /\ c.from \in group'[Founder].members
  <2>1. PICK s : s = authority'[Founder]
    OBVIOUS
  <2>2. c.from \in Members(s) /\ (c.action = "invite" => c.target \in Members(s))
        /\ (c.action = "remove" => c.target \notin Members(s)) /\ s.generation > c.base
    BY <1>1, <1>3, <1>5, <1>10, <1>11, <2>1 DEF Members
  <2>3. observed_admin_request_outcome(s, c)
    BY <1>1, <2>2 DEF observed_admin_request_outcome
  <2> QED  BY <1>10, <2>1, <2>2, <2>3 DEF observed_admin_request_outcome, Members
<1>13. ASSUME c \in deferred'[Founder] PROVE MailOK(c)'
  <2>1. Unanswered(c)'
    BY <1>7, <1>10, <1>12, <1>13 DEF Unanswered
  <2>2. RequestOK(c)'
    BY <1>1, <1>10, <1>11, <2>1 DEF RequestOK
  <2> QED  BY <2>2 DEF MailOK
<1>14. PICK notice : notice = IF c.action = "remove"
                                THEN {AuthorityRemove(Founder, c.target, authority'[Founder])} ELSE {}
  OBVIOUS
<1>15. PICK r : r = Result(Founder, c, TRUE)
  OBVIOUS
<1>16. MailOK(r)' /\ r.kind = "result"
  <2>1. r.kind = "result" /\ r.id = c.id /\ r.accepted = TRUE
    BY <1>15 DEF Result
  <2> QED  BY <1>7, <1>8, <2>1 DEF MailOK, AnswerOK
<1>17. ASSUME NEW d \in notice PROVE MailOK(d)' /\ d.kind = "expel"
  <2>1. c.action = "remove" /\ d = AuthorityRemove(Founder, c.target, authority'[Founder])
    BY <1>14, <1>17
  <2>2. d.kind = "expel"
    BY <2>1 DEF AuthorityRemove
  <2> QED  BY <1>3, <1>5, <1>6, <2>1, <2>2, CommitNotice
<1>18. ASSUME NEW d \in Mail, d # c
       PROVE  d.kind = "request" => d.id \notin consumed'[Founder]
  BY <1>8, <1>10, <1>18, NoneUnanswered, SameRequest
<1>19. ASSUME NEW d \in Mail'
       PROVE  MailOK(d)' \/ (d \in Mail /\ (d.kind = "request" => d.id \notin consumed'[Founder]))
  <2>1. CASE Done(Founder, c, notice \cup {r})
    <3>1. PICK out : out = notice \cup {r}
      OBVIOUS
    <3>2. c \notin out
      BY <1>16, <1>17, <3>1
    <3>3. d \in out \/ (d \in Mail /\ d # c)
      BY <1>19, <2>1, <3>1, <3>2, MailDrops
    <3> QED  BY <1>16, <1>17, <1>18, <3>1, <3>3
  <2>2. CASE \E out \in {{}, notice} :
               /\ net' = (net \ {c}) \cup out
               /\ deferred' = [deferred EXCEPT ![Founder] = deferred[Founder] \cup {c}]
    <3>1. PICK out \in {{}, notice} :
               /\ net' = (net \ {c}) \cup out
               /\ deferred' = [deferred EXCEPT ![Founder] = deferred[Founder] \cup {c}]
      BY <2>2
    <3>2. \A x \in Node : deferred'[x] = IF x = Founder THEN deferred[Founder] \cup {c}
            ELSE deferred[x]
      BY <3>1 DEF IInv, TypeInv
    <3>3. d \in notice \/ d = c \/ (d \in Mail /\ d # c)
      BY <1>19, <3>1, <3>2, FounderIs DEF Mail
    <3>4. c \in deferred'[Founder]
      BY <3>2, FounderIs
    <3> QED  BY <1>13, <1>17, <1>18, <3>3, <3>4
  <2> QED  BY <1>14, <1>15, <2>1, <2>2 DEF CommitRequest
<1>20. Steady'
  BY SteadyRest
<1> QED  BY <1>5, <1>6, <1>8, <1>9, <1>19, <1>20, HonestCommit

\* A request is answered by what became of it: a decided one was applied, a refused one
\* was not, and nobody is asked to invite a member of the state that is asked about.
LEMMA HonestAdmin ==
  ASSUME IInv, IInv', HonestInv, NEW n \in Node, NEW c \in Mail, c.to = n, c.kind = "request",
         UNCHANGED <<budget, asked>>, apply_group_admin_request(n, c)
  PROVE  HonestInv'
<1>1. n = Founder /\ RequestOK(c) /\ applied \subseteq consumed[Founder]
  BY DEF HonestInv, MailOK, RequestOK, AskedInv
<1>2. CASE Discard(n, c)
  BY <1>2, HonestKeep
<1>3. CASE c.id \in consumed[n] /\ Finish(n, c, observed_admin_request_outcome(authority[n], c))
  <2>1. observed_admin_request_outcome(authority[Founder], c) /\ c.id \in applied
    BY <1>1, <1>3 DEF RequestOK, Unanswered
  <2>2. PICK accepted : accepted = observed_admin_request_outcome(authority[Founder], c)
    OBVIOUS
  <2> QED  BY <1>1, <1>3, <2>1, <2>2, HonestFinish
<1>4. CASE c.id \notin consumed[n] /\ Finish(n, c, FALSE)
  BY <1>1, <1>4, HonestFinish
<1>5. CASE /\ authority[n] # NoState /\ Authorized(n, c) /\ c.action = "invite"
           /\ c.target \in Members(authority[n])
  BY <1>1, <1>5 DEF Authorized, RequestOK
<1>6. CASE /\ authority[n] # NoState /\ c.id \notin consumed[n] /\ Authorized(n, c)
           /\ c.action = "remove" => Removable(n, c)
           /\ c.action = "invite" => c.target \notin Members(authority[n])
           /\ CommitRequest(n, c)
  BY <1>1, <1>6, HonestCommitRequest
<1> QED  BY <1>2, <1>3, <1>4, <1>5, <1>6 DEF apply_group_admin_request

LEMMA HonestControl ==
  ASSUME IInv, IInv', HonestInv, NEW n \in Node, NEW c \in Mail, c.to = n,
         UNCHANGED <<budget, asked>>, apply_group_control(n, c)
  PROVE  HonestInv'
<1>1. CASE Keep(n, c)
  BY <1>1, HonestKeep
<1>2. CASE c.kind = "announce" /\ ~Waits(n, c) /\ apply_group_announce(n, c)
  BY <1>2, HonestAnnounce
<1>3. CASE c.kind = "signed" /\ ~Waits(n, c) /\ apply_authority_announce(n, c)
  BY <1>3, HonestSigned
<1>4. CASE c.kind = "leave"
  BY <1>4 DEF HonestInv, MailOK
<1>5. CASE \/ c.kind = "remove" /\ apply_group_remove_notice(n, c)
           \/ c.kind = "expel" /\ apply_authority_remove(n, c)
  BY <1>5, HonestNotice
<1>6. CASE c.kind = "request" /\ apply_group_admin_request(n, c)
  BY <1>6, HonestAdmin
<1>7. CASE c.kind = "result" /\ apply_group_admin_result(n, c)
  BY <1>7, HonestResult
<1> QED  BY <1>1, <1>2, <1>3, <1>4, <1>5, <1>6, <1>7 DEF apply_group_control

LEMMA HonestReceive ==
  ASSUME IInv, IInv', HonestInv, NEW n \in Node, NEW c \in net, Receive(n, c)
  PROVE  HonestInv'
<1>1. c \in Mail /\ c.to = n /\ TickRuns(n) /\ UNCHANGED <<budget, asked>>
  BY DEF Receive, Mail
<1>2. CASE c.kind = "ack" /\ apply_ack(n, c)
  BY <1>1, <1>2, HonestAck
<1>3. CASE apply_group_control(n, c)
  BY <1>1, <1>3, HonestControl
<1>4. CASE Discard(n, c)
  BY <1>1, <1>4, HonestKeep
<1> QED  BY <1>2, <1>3, <1>4 DEF Receive

LEMMA HonestDeferred ==
  ASSUME IInv, IInv', HonestInv, NEW n \in Node, NEW c \in deferred[n],
         apply_deferred_controls(n, c)
  PROVE  HonestInv'
<1>1. c \in Mail /\ UNCHANGED <<budget, asked>> /\ apply_group_control(n, c)
  BY DEF apply_deferred_controls, Mail
<1>2. c.to = n
  BY <1>1, MailIs
<1> QED  BY <1>1, <1>2, HonestControl

\* Nobody leaves and nobody hands the group over.
LEMMA NeverGiven ==
  ASSUME HonestInv, NEW n \in Node
  PROVE  ~group_leave(n) /\ ~group_transfer_owner(n)
BY DEF HonestInv, FounderInv, Steady, group_leave, group_transfer_owner, Spend

LEMMA HonestNext == IInv /\ IInv' /\ HonestInv /\ [Next]_vars => HonestInv'
<1> SUFFICES ASSUME IInv, IInv', HonestInv, [Next]_vars PROVE HonestInv'
  OBVIOUS
<1>1. ASSUME NEW n \in Node, UserCommand(n) PROVE HonestInv'
  BY <1>1, HonestCreate, HonestSend, HonestAdd, HonestRemove, NeverGiven, HonestRename,
     HonestRole, HonestUpgrade, HonestSession, HonestDelete DEF UserCommand
<1>2. ASSUME NEW n \in Node, Tick(n) PROVE HonestInv'
  BY <1>2, HonestTick, HonestReceive, HonestDeferred DEF Tick
<1>3. ASSUME NEW n \in Node, NEW c \in deferred[n], accept_group_invitation(n, c)
      PROVE HonestInv'
  BY <1>3, HonestAccept
<1>4. ASSUME NEW c \in net, Lose(c) PROVE HonestInv'
  BY <1>4, HonestLose
<1>5. CASE UNCHANGED vars
  <2>1. UNCHANGED <<group, authority, consumed, deferred, net, states, budget, asked, applied>>
    BY <1>5 DEF vars
  <2> QED  BY <2>1, FounderIs, ReplicasRest, MailSame, ConsumedRests, SteadyRest, HonestStep
<1> QED  BY <1>1, <1>2, <1>3, <1>4, <1>5 DEF Next

\* At the start nothing is under way and everyone in the group holds the founder's state.
LEMMA HonestInit ==
  ASSUME Steady, Init
  PROVE  HonestInv
<1>1. PICK sc \in Scenarios :
    LET members == IF sc.start = "none" THEN {} ELSE sc.members
        signed == sc.start = "signed"
        generation == IF signed THEN 2 + Cardinality(sc.admins) ELSE 1
        first == FirstState(Founder, members, generation - 1, <<Founder, 1>>)
        state == [first EXCEPT !.role = [m \in Node |->
                    IF m \in sc.admins THEN "admin" ELSE @[m]]]
        record(n) == [creator |-> Founder, members |-> members, secret |-> <<Founder, 1>>,
                      prev |-> {}, generation |-> generation, key |-> <<n, 1>>,
                      origin |-> 1, acked |-> members \ {n}, sent |-> 0]
    IN /\ group = [n \in Node |-> IF n \in members THEN record(n) ELSE NoGroup]
       /\ authority = [n \in Node |-> IF signed /\ n \in members THEN state ELSE NoState]
       /\ states = IF signed THEN {StateId(state)} ELSE {}
       /\ consumed = [n \in Node |-> {}]
       /\ deferred = [n \in Node |-> {}]
       /\ net = {} /\ asked = {} /\ applied = {}
       /\ budget = sc.budget
  BY DEF Init
<1>2. PICK ms : ms = IF sc.start = "none" THEN {} ELSE sc.members
  OBVIOUS
<1>3. PICK g : g = IF sc.start = "signed" THEN 2 + Cardinality(sc.admins) ELSE 1
  OBVIOUS
<1>4. PICK role : role = [m \in Node |-> IF m \in sc.admins THEN "admin"
                                         ELSE IF m = Founder THEN "owner"
                                         ELSE IF m \in ms THEN "member" ELSE "none"]
  OBVIOUS
<1>5. PICK st : st = [generation |-> g - 1 + 1, rank |-> 0, original_owner |-> Founder,
                      owner |-> Founder, signer |-> Founder, secret |-> <<Founder, 1>>,
                      transfers |-> <<>>, role |-> role]
  OBVIOUS
<1>6. /\ group = [n \in Node |-> IF n \in ms
                    THEN [creator |-> Founder, members |-> ms, secret |-> <<Founder, 1>>,
                          prev |-> {}, generation |-> g, key |-> <<n, 1>>,
                          origin |-> 1, acked |-> ms \ {n}, sent |-> 0] ELSE NoGroup]
      /\ consumed = [n \in Node |-> {}] /\ deferred = [n \in Node |-> {}]
      /\ net = {} /\ asked = {} /\ applied = {} /\ budget = sc.budget
  BY <1>1, <1>2, <1>3
<1>7. PICK first : first = FirstState(Founder, ms, g - 1, <<Founder, 1>>)
  OBVIOUS
<1>8. [first EXCEPT !.role = [m \in Node |-> IF m \in sc.admins THEN "admin" ELSE first.role[m]]] = st
  <2>1. [m \in Node |-> IF m \in sc.admins THEN "admin" ELSE first.role[m]] = role
    BY <1>4, <1>7 DEF FirstState
  <2>2. [first EXCEPT !.role = role] = st
    BY <1>5, <1>7 DEF FirstState
  <2> QED  BY <2>1, <2>2
<1>9. /\ authority = [n \in Node |-> IF sc.start = "signed" /\ n \in ms THEN st ELSE NoState]
      /\ states = IF sc.start = "signed" THEN {StateId(st)} ELSE {}
  BY <1>1, <1>2, <1>3, <1>7, <1>8
<1>10. /\ Founder \in Node /\ Founder \in sc.members /\ sc.members \subseteq Node
       /\ sc.admins \subseteq sc.members
  BY GroupsAssumption
<1>11. g \in Nat /\ g - 1 + 1 = g
  <2>1. Cardinality(sc.admins) \in Nat
    BY <1>10, GroupsAssumption, FS_Subset, FS_CardinalityType
  <2> QED  BY <1>3, <2>1
<1>12. sc.start = "signed" => Members(st) = ms /\ Founder \in ms
  <2>1. st.role = role
    BY <1>5
  <2> QED  BY <1>2, <1>4, <1>10, <2>1 DEF Members
<1>13. FounderInv
  <2>1. authority[Founder] = NoState => states = {}
    <3>1. st.generation = g
      BY <1>5, <1>11
    <3>2. sc.start = "signed" => authority[Founder] = st
      BY <1>9, <1>10, <1>12
    <3>3. st # NoState
      <4>1. role \in [Node -> Role]
        BY <1>4 DEF Role
      <4>2. <<Founder, 1>> \in Serial /\ <<>> \in Seq([from: Node, to: Node, generation: Nat])
        BY <1>10 DEF Serial
      <4>3. st \in AuthorityState(Serial)
        BY <1>5, <1>10, <1>11, <4>1, <4>2 DEF AuthorityState
      <4> QED  BY <4>3, NoStateAssumption
    <3> QED  BY <1>9, <3>2, <3>3
  <2> QED  BY <2>1 DEF FounderInv
<1>14. AskedInv
  BY <1>6, <1>10, FS_EmptySet DEF AskedInv
<1>15. ASSUME NEW n \in Node PROVE ReplicaOK(n)
  <2>1. ASSUME group[n] # NoGroup
        PROVE  group[n].creator = Founder /\ group[n].generation = g /\ group[n].members = ms
    BY <1>6, <2>1
  <2>2. ASSUME authority[n] # NoState
        PROVE  /\ OnLine(authority[n]) /\ group[n].generation = authority[n].generation
               /\ group[n].members = Members(authority[n])
    <3>1. sc.start = "signed" /\ n \in ms /\ authority[n] = st
      BY <1>9, <2>2
    <3>2. authority[Founder] = st
      BY <1>9, <1>10, <1>12, <3>1
    <3>3. st.generation = g /\ st.owner = Founder /\ st.signer = Founder
      BY <1>5, <1>11
    <3>4. OnLine(st)
      BY <1>9, <1>11, <2>2, <3>1, <3>2, <3>3 DEF OnLine
    <3>5. group[n].generation = g /\ group[n].members = ms
      BY <1>6, <3>1
    <3> QED  BY <1>12, <3>1, <3>3, <3>4, <3>5
  <2> QED  BY <2>1, <2>2 DEF ReplicaOK
<1>16. Mail = {}
  BY <1>6 DEF Mail
<1> QED  BY <1>13, <1>14, <1>15, <1>16 DEF HonestInv

\* Where nobody leaves and the group keeps its owner, what the requester is told is what
\* happened to the group, also when the owner crashed between changing it and answering.
THEOREM HonestResultsHolds ==
  Steady /\ Spec => []HonestResults
<1>1. Steady /\ Init => HonestInv
  BY HonestInit
<1>2. IInv /\ IInv' /\ HonestInv /\ [Next]_vars => HonestInv'
  BY HonestNext
<1> QED  BY Invariance, HonestImplies, <1>1, <1>2, PTL DEF Spec

=============================================================================
