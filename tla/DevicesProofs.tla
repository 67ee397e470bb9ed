---------------------------- MODULE DevicesProofs ----------------------------
(***************************************************************************)
(* Proofs about Devices, for any devices, contacts, starts and limits.     *)
(*                                                                         *)
(* What verify says of neighbouring transitions has to be known of any two *)
(* transitions of a proof: Sound says it, and is kept because a proof only *)
(* ever comes about by one transition appended to another proof.           *)
(***************************************************************************)
EXTENDS Devices, TLAPS, FiniteSetTheorems, SequenceTheorems

\* Along a proof nobody is forgotten, no revocation is taken back and the epoch
\* does not fall.
Grows(m) ==
  \A i, j \in 1..Len(m) : i <= j =>
    /\ Known(m[i]) \subseteq Known(m[j]) /\ m[i].revoked \subseteq m[j].revoked
    /\ m[i].epoch <= m[j].epoch

\* Every epoch but the first was opened by a recovery.
Opened(m) ==
  \A j \in 1..Len(m) : m[j].epoch > 0 =>
    \E k \in 2..j : m[k].kind = "recovery" /\ m[k].epoch = m[j].epoch

\* A recovery mints its device.
Minted(m) ==
  \A k \in 1..Len(m) : m[k].kind = "recovery" => \E r \in Recovered : m[k].active = {r}

Sound(m) == m \in Seq(Transition) /\ verify(m) /\ Grows(m) /\ Opened(m) /\ Minted(m)

-----------------------------------------------------------------------------
(* Proofs of authority                                                     *)

\* A transition has the fields it has.
LEMMA TransitionFields ==
  ASSUME NEW t \in Transition
  PROVE  /\ t.kind \in Kind /\ t.id \in Nat /\ t.epoch \in Nat
         /\ t.active \subseteq Device /\ t.revoked \subseteq Device
         /\ t.approvers \subseteq Device
         /\ Known(t) \subseteq Device
         /\ IsFiniteSet(t.active) /\ Cardinality(t.active) \in Nat
  BY AuthorityAssumption, FS_Subset, FS_CardinalityType DEF Transition, Known

\* The elements of a proof, and its last state.
LEMMA SoundFacts ==
  ASSUME NEW m, Sound(m)
  PROVE  /\ m \in Seq(Transition) /\ Len(m) \in Nat \ {0} /\ m # <<>>
         /\ Len(m) <= MAX_DEVICE_AUTHORITY_TRANSITIONS
         /\ \A i \in 1..Len(m) : m[i] \in Transition
         /\ Last(m) = m[Len(m)] /\ Last(m) \in Transition
         /\ recovery_epoch(m) \in Nat
         /\ \A i \in 2..Len(m) : verify_transition(m[i - 1], m[i], TRUE)
<1>1. m \in Seq(Transition) /\ Len(m) \in 1..MAX_DEVICE_AUTHORITY_TRANSITIONS
  BY DEF Sound, verify
<1>2. Len(m) \in Nat \ {0} /\ m # <<>> /\ Len(m) <= MAX_DEVICE_AUTHORITY_TRANSITIONS
  BY <1>1, EmptySeq, AuthorityAssumption
<1>3. \A i \in 1..Len(m) : m[i] \in Transition
  BY <1>1, ElementOfSeq
<1>4. Last(m) = m[Len(m)] /\ Last(m) \in Transition
  BY <1>2, <1>3 DEF Last
<1> QED
  BY <1>1, <1>2, <1>3, <1>4, TransitionFields DEF Sound, verify, recovery_epoch

\* What an appended transition may do.
LEMMA TransitionGrows ==
  ASSUME NEW parent \in Transition, NEW t \in Transition, verify_transition(parent, t, TRUE)
  PROVE  /\ Known(parent) \subseteq Known(t) /\ parent.revoked \subseteq t.revoked
         /\ parent.epoch <= t.epoch
         /\ t.kind = "recovery" => /\ t.epoch = parent.epoch + 1
                                   /\ t.revoked = Known(parent)
         /\ t.kind # "recovery" => t.epoch = parent.epoch /\ t.kind \in Ordinary
  BY TransitionFields DEF verify_transition, validate_parent_continuity, Ordinary,
     validate_recovery_difference

\* A proof with one more transition that verifies is again a proof.
LEMMA AppendSound ==
  ASSUME NEW m, Sound(m), NEW t \in Transition,
         Len(m) < MAX_DEVICE_AUTHORITY_TRANSITIONS, verify_transition(Last(m), t, TRUE),
         t.kind = "recovery" => \E r \in Recovered : t.active = {r}
  PROVE  /\ Sound(Append(m, t)) /\ Last(Append(m, t)) = t
         /\ Len(Append(m, t)) = Len(m) + 1
         /\ \A i \in 1..Len(m) : Append(m, t)[i] = m[i]
         /\ Append(m, t)[Len(m) + 1] = t
<1> DEFINE n == Append(m, t)
<1>1. /\ m \in Seq(Transition) /\ Len(m) \in Nat \ {0}
      /\ \A i \in 1..Len(m) : m[i] \in Transition
      /\ Last(m) = m[Len(m)] /\ Last(m) \in Transition
      /\ \A i \in 2..Len(m) : verify_transition(m[i - 1], m[i], TRUE)
  BY SoundFacts
<1>2. /\ n \in Seq(Transition) /\ Len(n) = Len(m) + 1
      /\ \A i \in 1..Len(m) : n[i] = m[i]
      /\ n[Len(m) + 1] = t
  BY <1>1, AppendProperties
<1>3. Last(n) = t
  BY <1>2 DEF Last
<1> HIDE DEF n
<1>4. verify(n)
  <2>1. Len(n) \in 1..MAX_DEVICE_AUTHORITY_TRANSITIONS
    BY <1>1, <1>2, AuthorityAssumption
  <2>2. verify_genesis(n[1])
    BY <1>1, <1>2 DEF Sound, verify
  <2>3. ASSUME NEW i \in 2..Len(n) PROVE verify_transition(n[i - 1], n[i], TRUE)
    <3>1. CASE i = Len(n)
      <4>1. n[i - 1] = Last(m) /\ n[i] = t
        BY <1>1, <1>2, <3>1
      <4> QED
        BY <4>1
    <3>2. CASE i # Len(n)
      <4>1. i \in 2..Len(m) /\ n[i - 1] = m[i - 1] /\ n[i] = m[i]
        BY <1>1, <1>2, <3>2
      <4> QED
        BY <1>1, <4>1
    <3> QED
      BY <3>1, <3>2
  <2> QED
    BY <2>1, <2>2, <2>3 DEF verify
<1>5. /\ Known(Last(m)) \subseteq Known(t) /\ Last(m).revoked \subseteq t.revoked
      /\ Last(m).epoch <= t.epoch
      /\ t.kind = "recovery" => t.epoch = Last(m).epoch + 1
      /\ t.kind # "recovery" => t.epoch = Last(m).epoch
  BY <1>1, TransitionGrows
<1>6. \A i \in 1..Len(m) : m[i].epoch \in Nat
  BY <1>1, TransitionFields
<1>7. t.epoch \in Nat
  BY TransitionFields
<1>8. Grows(n)
  <2> SUFFICES ASSUME NEW i \in 1..Len(n), NEW j \in 1..Len(n), i <= j
               PROVE  /\ Known(n[i]) \subseteq Known(n[j]) /\ n[i].revoked \subseteq n[j].revoked
                      /\ n[i].epoch <= n[j].epoch
    BY DEF Grows
  <2>1. CASE j # Len(n)
    <3>1. i \in 1..Len(m) /\ j \in 1..Len(m) /\ n[i] = m[i] /\ n[j] = m[j]
      BY <1>1, <1>2, <2>1
    <3> QED
      BY <3>1 DEF Sound, Grows
  <2>2. CASE j = Len(n) /\ i # Len(n)
    <3>1. i \in 1..Len(m) /\ i <= Len(m) /\ Len(m) \in 1..Len(m) /\ n[i] = m[i] /\ n[j] = t
      BY <1>1, <1>2, <2>2
    <3>2. /\ Known(m[i]) \subseteq Known(Last(m)) /\ m[i].revoked \subseteq Last(m).revoked
          /\ m[i].epoch <= Last(m).epoch
      BY <1>1, <3>1 DEF Sound, Grows
    <3>3. Last(m).epoch \in Nat
      BY <1>1, <1>6
    <3> QED
      BY <1>5, <1>6, <1>7, <3>1, <3>2, <3>3
  <2>3. CASE i = Len(n) /\ j = Len(n)
    BY <1>1, <1>2, <1>7, <2>3
  <2> QED
    BY <2>1, <2>2, <2>3
<1>9. Opened(n)
  <2> SUFFICES ASSUME NEW j \in 1..Len(n), n[j].epoch > 0
               PROVE  \E k \in 2..j : n[k].kind = "recovery" /\ n[k].epoch = n[j].epoch
    BY DEF Opened
  <2>1. ASSUME NEW h \in 1..Len(m), m[h].epoch > 0
        PROVE  \E k \in 2..h : n[k].kind = "recovery" /\ n[k].epoch = m[h].epoch
    <3>1. PICK k \in 2..h : m[k].kind = "recovery" /\ m[k].epoch = m[h].epoch
      BY <2>1 DEF Sound, Opened
    <3>2. n[k] = m[k]
      BY <1>1, <1>2
    <3> QED
      BY <3>1, <3>2
  <2>2. CASE j # Len(n)
    <3>1. j \in 1..Len(m) /\ n[j] = m[j]
      BY <1>1, <1>2, <2>2
    <3> QED
      BY <2>1, <3>1
  <2>3. CASE j = Len(n) /\ t.kind = "recovery"
    <3>1. j \in 2..j /\ n[j] = t
      BY <1>1, <1>2, <2>3
    <3> QED
      BY <2>3, <3>1
  <2>4. CASE j = Len(n) /\ t.kind # "recovery"
    <3>1. Len(m) \in 1..Len(m) /\ n[j] = t /\ m[Len(m)].epoch = t.epoch
      BY <1>1, <1>2, <1>5, <2>4
    <3>2. PICK k \in 2..Len(m) : n[k].kind = "recovery" /\ n[k].epoch = m[Len(m)].epoch
      BY <2>1, <3>1
    <3>3. k \in 2..j
      BY <1>1, <1>2, <2>4
    <3> QED
      BY <3>1, <3>2, <3>3
  <2> QED
    BY <2>2, <2>3, <2>4
<1>10. Minted(n)
  <2> SUFFICES ASSUME NEW k \in 1..Len(n), n[k].kind = "recovery"
               PROVE  \E r \in Recovered : n[k].active = {r}
    BY DEF Minted
  <2>1. CASE k = Len(n)
    BY <1>2, <2>1
  <2>2. CASE k # Len(n)
    <3>1. k \in 1..Len(m) /\ n[k] = m[k]
      BY <1>1, <1>2, <2>2
    <3> QED
      BY <3>1 DEF Sound, Minted
  <2> QED
    BY <2>1, <2>2
<1> QED
  BY <1>2, <1>3, <1>4, <1>8, <1>9, <1>10 DEF Sound, n

\* A restore makes a proof of any proof that does not know its device.
LEMMA RecoverSound ==
  ASSUME NEW m, Sound(m), NEW id \in Nat, NEW r \in Recovered, r \notin Known(Last(m)),
         Len(m) < MAX_DEVICE_AUTHORITY_TRANSITIONS
  PROVE  \E t \in Transition :
           /\ recover(m, id, r) = Append(m, t) /\ Sound(Append(m, t))
           /\ t.kind = "recovery" /\ t.active = {r} /\ t.revoked = Known(Last(m))
           /\ t.epoch = recovery_epoch(m) + 1
<1> DEFINE t == [kind |-> "recovery", id |-> id, epoch |-> recovery_epoch(m) + 1,
                 active |-> {r}, revoked |-> Known(Last(m)), approvers |-> {}]
<1>1. Last(m) \in Transition /\ recovery_epoch(m) \in Nat /\ Known(Last(m)) \subseteq Device
  BY SoundFacts, TransitionFields
<1>2. r \in Device
  BY DevicesAssumption
<1>3. t \in Transition
  BY <1>1, <1>2 DEF Transition, Kind
<1>4. Cardinality(t.active) = 1
  BY FS_Singleton
<1>5. validate_state(t)
  BY <1>4, AuthorityAssumption DEF validate_state
<1>6. verify_transition(Last(m), t, TRUE)
  BY <1>4, <1>5 DEF verify_transition, validate_parent_continuity, Known, recovery_epoch,
     validate_recovery_difference
<1>7. Sound(Append(m, t))
  BY <1>3, <1>6, AppendSound
<1> QED
  BY <1>3, <1>7 DEF recover

\* A set listed by the first i elements of a sequence has at most i elements.
LEMMA ListedCardinality ==
  ASSUME NEW s \in Seq(Device), NEW i \in 1..Len(s)
  PROVE  LET T == {s[j] : j \in 1..i}
         IN  T \subseteq Device /\ IsFiniteSet(T) /\ Cardinality(T) \in Nat /\ Cardinality(T) <= i
<1> DEFINE T == {s[j] : j \in 1..i}
<1> DEFINE f == [j \in 1..i |-> s[j]]
<1>1. Len(s) \in Nat /\ i \in Nat /\ i >= 1
  BY LenProperties
<1>2. f \in Surjection(1..i, T)
  BY DEF Surjection
<1>3. IsFiniteSet(1..i) /\ Cardinality(1..i) = i
  BY <1>1, FS_Interval
<1>4. IsFiniteSet(T) /\ Cardinality(T) <= Cardinality(1..i)
  <2> HIDE DEF T, f
  <2> QED
    BY <1>2, <1>3, FS_Surjection
<1>5. T \subseteq Device
  BY <1>1, ElementOfSeq
<1> QED
  BY <1>3, <1>4, <1>5, FS_CardinalityType

\* The proofs that the devices may start with are proofs.
LEMMA StartSound ==
  ASSUME NEW s \in Starts
  PROVE  /\ Sound(StartManifest(s)) /\ Len(StartManifest(s)) = Len(s)
         /\ Active(StartManifest(s)) = Range(s)
         /\ Known(Last(StartManifest(s))) = Range(s)
         /\ Last(StartManifest(s)).epoch = 0
         /\ \A i \in 1..Len(s) : StartManifest(s)[i].kind # "recovery"
         /\ Range(s) \subseteq Device \ Recovered
<1> DEFINE m == StartManifest(s)
<1> DEFINE first(i) == {s[j] : j \in 1..i}
<1>1. /\ s \in Seq(Device \ Recovered) /\ s \in Seq(Device) /\ Len(s) \in Nat \ {0}
      /\ DOMAIN s = 1..Len(s)
      /\ Len(s) <= MAX_AUTHORITY_DEVICES /\ Len(s) <= MAX_DEVICE_AUTHORITY_TRANSITIONS
      /\ \A i, j \in 1..Len(s) : s[i] = s[j] => i = j
      /\ \A i \in 1..Len(s) : s[i] \in Device \ Recovered
  <2>1. s \in Seq(Device \ Recovered) /\ Len(s) \in 1..MAX_AUTHORITY_DEVICES
    BY DevicesAssumption
  <2>2. s \in Seq(Device)
    BY <2>1, SeqMonotonic, Device \ Recovered \subseteq Device
  <2>3. DOMAIN s = 1..Len(s) /\ Len(s) \in Nat
    BY <2>1, LenProperties
  <2>4. \A i \in 1..Len(s) : s[i] \in Device \ Recovered
    BY <2>1, ElementOfSeq
  <2> QED
    BY <2>1, <2>2, <2>3, <2>4, DevicesAssumption, AuthorityAssumption
<1>2. \A i \in 1..Len(s) : /\ first(i) \subseteq Device \ Recovered /\ first(i) # {}
                           /\ IsFiniteSet(first(i)) /\ Cardinality(first(i)) \in Nat
                           /\ Cardinality(first(i)) <= i
  BY <1>1, ListedCardinality
<1>3. \A i \in 2..Len(s) : /\ first(i) = first(i - 1) \cup {s[i]} /\ s[i] \notin first(i - 1)
                           /\ i - 1 \in 1..Len(s)
  BY <1>1
<1>4. first(1) = {s[1]} /\ Cardinality(first(1)) = 1
  <2>1. first(1) = {s[1]}
    OBVIOUS
  <2> QED
    BY <2>1, FS_Singleton
<1>5. \A i \in 2..Len(s) : Cardinality(first(i - 1)) >= 1
  <2> HIDE DEF first
  <2>1. ASSUME NEW i \in 2..Len(s) PROVE Cardinality(first(i - 1)) >= 1
    <3>1. first(i - 1) # {} /\ IsFiniteSet(first(i - 1)) /\ Cardinality(first(i - 1)) \in Nat
      BY <1>2, <1>3
    <3>2. Cardinality(first(i - 1)) # 0
      BY <3>1, FS_EmptySet
    <3> QED
      BY <3>1, <3>2
  <2> QED
    BY <2>1
<1>6. Range(s) = first(Len(s))
  BY <1>1 DEF Range
<1> HIDE DEF first
<1>7. ASSUME NEW i \in 1..Len(s)
      PROVE  /\ m[i] \in Transition
             /\ m[i].kind = IF i = 1 THEN "genesis" ELSE "add"
             /\ m[i].epoch = 0 /\ m[i].active = first(i) /\ m[i].revoked = {}
             /\ m[i].approvers = first(i - 1)
  <2>1. first(i - 1) \subseteq Device
    BY <1>1 DEF first
  <2>2. i - 1 \in Nat
    BY <1>1
  <2>3. m[i] = [kind |-> IF i = 1 THEN "genesis" ELSE "add", id |-> i - 1, epoch |-> 0,
                active |-> first(i), revoked |-> {},
                approvers |-> first(i - 1)]
    BY DEF StartManifest, first
  <2>4. first(i) \subseteq Device
    BY <1>2
  <2> QED
    BY <2>1, <2>2, <2>3, <2>4 DEF Transition, Kind, Ordinary
<1>8. m \in Seq(Transition) /\ Len(m) = Len(s)
  <2>1. DOMAIN m = 1..Len(s) /\ m = [i \in 1..Len(s) |-> m[i]]
    BY DEF StartManifest
  <2> HIDE DEF m
  <2>2. m \in [1..Len(s) -> Transition]
    BY <1>7, <2>1
  <2>3. m \in Seq(Transition)
    BY <1>1, <2>2, SeqDef
  <2>4. 1..Len(m) = 1..Len(s) /\ Len(m) \in Nat
    BY <2>1, <2>3, LenProperties
  <2> QED
    BY <1>1, <2>3, <2>4
<1> HIDE DEF m
<1>9. \A i \in 1..Len(s) : validate_state(m[i])
  BY <1>1, <1>2, <1>7, AuthorityAssumption DEF validate_state
<1>10. verify_genesis(m[1])
  BY <1>1, <1>4, <1>7, <1>9 DEF verify_genesis
<1>11. ASSUME NEW i \in 2..Len(s) PROVE verify_transition(m[i - 1], m[i], TRUE)
  <2>1. i \in 1..Len(s) /\ i - 1 \in 1..Len(s) /\ i # 1
    BY <1>1
  <2>2. /\ m[i].kind = "add" /\ m[i].epoch = 0 /\ m[i].revoked = {}
        /\ m[i].active = first(i) /\ m[i - 1].active = first(i - 1)
        /\ m[i - 1].revoked = {} /\ m[i - 1].epoch = 0
        /\ m[i].approvers = first(i - 1)
    BY <1>7, <2>1
  <2>3. Known(m[i]) = first(i) /\ Known(m[i - 1]) = first(i - 1)
    BY <2>2 DEF Known
  <2>4. Known(m[i]) \ Known(m[i - 1]) = {s[i]}
    BY <1>3, <2>3
  <2>5. Cardinality(Known(m[i]) \ Known(m[i - 1])) = 1
    BY <2>4, FS_Singleton
  <2>6. validate_ordinary_difference(m[i - 1], m[i])
    BY <2>2, <2>5 DEF validate_ordinary_difference
  <2>7. validate_parent_continuity(m[i - 1], m[i])
    BY <1>3, <2>2, <2>3 DEF validate_parent_continuity
  <2>8. has_quorum(m[i - 1], m[i].approvers)
    BY <1>2, <1>5, <2>1, <2>2 DEF has_quorum
  <2> QED
    BY <1>9, <2>1, <2>2, <2>6, <2>7, <2>8 DEF verify_transition, Ordinary
<1>12. verify(m)
  <2>1. Len(m) \in 1..MAX_DEVICE_AUTHORITY_TRANSITIONS
    BY <1>1, <1>8, AuthorityAssumption
  <2>2. \A i \in 2..Len(m) : verify_transition(m[i - 1], m[i], TRUE)
    BY <1>8, <1>11
  <2> QED
    BY <1>10, <2>1, <2>2 DEF verify
<1>13. Grows(m)
  <2>1. \A i, j \in 1..Len(s) : i <= j => first(i) \subseteq first(j)
    BY <1>1 DEF first
  <2> QED
    BY <1>7, <1>8, <2>1 DEF Grows, Known
<1>14. Opened(m) /\ Minted(m)
  BY <1>7, <1>8 DEF Opened, Minted
<1>15. /\ Last(m) = m[Len(s)] /\ Len(s) \in 1..Len(s)
       /\ Last(m).active = Range(s) /\ Last(m).revoked = {} /\ Last(m).epoch = 0
  BY <1>1, <1>6, <1>7, <1>8 DEF Last
<1>16. Range(s) \subseteq Device \ Recovered
  BY <1>2, <1>6, <1>15
<1> QED
  BY <1>7, <1>8, <1>12, <1>13, <1>14, <1>15, <1>16 DEF Sound, Active, Known, m

\* A proof that continues another agrees with it as far as that one goes.
LEMMA PrefixAgrees ==
  ASSUME NEW m, Sound(m), NEW n, Sound(n), IsPrefix(m, n)
  PROVE  Len(m) <= Len(n) /\ \A i \in 1..Len(m) : n[i] = m[i]
<1>1. /\ Len(m) \in Nat /\ Len(n) \in Nat /\ Len(m) <= Len(n)
      /\ SubSeq(m, 1, Len(m)) = SubSeq(n, 1, Len(m))
  BY SoundFacts DEF IsPrefix
<1>2. \A i \in 1..Len(m) : m[i] \in Transition /\ n[i] \in Transition
  <2>1. \A i \in 1..Len(m) : m[i] \in Transition
    BY SoundFacts
  <2>2. \A i \in 1..Len(n) : n[i] \in Transition
    BY SoundFacts
  <2> QED
    BY <1>1, <2>1, <2>2
<1>3. \A i \in 1..Len(m) : SubSeq(m, 1, Len(m))[i] = m[i]
  BY <1>1, <1>2, SubSeqProperties
<1>4. \A i \in 1..Len(m) : SubSeq(n, 1, Len(m))[i] = n[i]
  BY <1>1, <1>2, SubSeqProperties
<1> QED
  BY <1>1, <1>3, <1>4

-----------------------------------------------------------------------------
(* The devices of the account                                              *)

\* A function on S, whatever its values.
MapOn(f, S) == f = [x \in S |-> f[x]]

\* No proof knows a minted device in an epoch before the recovery that minted it.
BornOnce(P) ==
  \A m, n \in P : \A i \in 1..Len(m), j \in 1..Len(n) : \A r \in Recovered :
    n[j].kind = "recovery" /\ r \in n[j].active /\ r \in Known(m[i]) => n[j].epoch <= m[i].epoch

\* Every state a device has been in had a proof that knows the device as active.
PastInv ==
  /\ past \in [Device -> SUBSET [manifest: Seq(Transition), channels: SUBSET Channel]]
  /\ \A d \in Device : \A p \in past[d] : Sound(p.manifest) /\ d \in Active(p.manifest)
  /\ \A m \in Proofs : Known(Last(m)) \cap Recovered \subseteq {r \in Device : Linked(r)}
  /\ BornOnce(Proofs)

\* The row each device has in its store.
RowInv ==
  /\ manifest \in [Device -> Seq(Transition)] /\ channels \in [Device -> SUBSET Channel]
  /\ \A d \in Device : Linked(d) =>
       /\ Validates(d, manifest[d], channels[d])
       /\ [manifest |-> manifest[d], channels |-> channels[d]] \in past[d]

\* A proposal waits for approval on a proof that somebody has held.
PendingInv ==
  /\ MapOn(pending, Device)
  /\ \A d \in Device : pending[d] # None =>
       /\ pending[d] \in [parent: Seq(Transition), transition: Transition]
       /\ pending[d].parent \in Proofs
       /\ pending[d].transition.kind \in {"rename", "revoke"}
       /\ pending[d].transition.id \in 1..MaxSerial

\* What a linking source has prepared: the addition of a device that no restore
\* mints.
PreparedInv(x, parent) ==
  /\ x \in [target: Device \ Recovered, link: 0..MaxSerial, transition: Transition]
  /\ x.transition.kind = "add" /\ x.transition.id \in 1..MaxSerial
  /\ Known(x.transition) \subseteq Known(Last(parent)) \cup {x.target}

SourceInv ==
  /\ MapOn(source, Device)
  /\ \A d \in Device : source[d] # None =>
       /\ source[d] = [offer |-> source[d].offer, parent |-> source[d].parent,
                       prepared |-> source[d].prepared]
       /\ source[d].parent \in Proofs /\ Linked(d)
       /\ source[d].prepared # None => PreparedInv(source[d].prepared, source[d].parent)

\* Only a fresh installation is the target of a link.
TargetInv ==
  /\ MapOn(target, Device)
  /\ \A t \in Device : target[t] # None =>
       /\ target[t].from \in Device /\ target[t].parent \in Proofs
       /\ target[t].link \in 0..MaxSerial
       /\ ~ Linked(t) /\ t \notin Recovered

IdInv == serial \in 0..MaxSerial /\ approvals \subseteq [id: 1..MaxSerial, by: Device]

AccountInv == PastInv /\ RowInv /\ PendingInv /\ SourceInv /\ TargetInv /\ IdInv

\* The proofs are those of the past states.
LEMMA ProofsSound ==
  ASSUME PastInv
  PROVE  /\ \A d \in Device : \A p \in past[d] : p.manifest \in Proofs
         /\ \A m \in Proofs : Sound(m) /\ \E d \in Device : \E p \in past[d] : m = p.manifest
<1>1. \A d \in Device : \A p \in past[d] : p.manifest \in Proofs
  BY DEF Proofs
<1>2. \A m \in Proofs : \E d \in Device : \E p \in past[d] : m = p.manifest
  BY DEF Proofs
<1> QED
  BY <1>1, <1>2 DEF PastInv

\* A device's proof is one of the proofs.
LEMMA ManifestIsProof ==
  ASSUME PastInv, RowInv, NEW d \in Device, Linked(d)
  PROVE  manifest[d] \in Proofs /\ Sound(manifest[d]) /\ d \in Active(manifest[d])
<1>1. [manifest |-> manifest[d], channels |-> channels[d]] \in past[d]
  BY DEF RowInv
<1>2. [manifest |-> manifest[d], channels |-> channels[d]].manifest = manifest[d]
  OBVIOUS
<1>3. manifest[d] \in Proofs
  BY <1>1, <1>2, ProofsSound
<1> QED
  BY <1>3, <1>1, <1>2, ProofsSound DEF PastInv

\* Two sides of a fork of sound proofs have a signer in common.
LEMMA MajoritiesMeet ==
  ASSUME NEW m, Sound(m), NEW n, Sound(n), NEW i \in 2..Len(m), i <= Len(n),
         SubSeq(m, 1, i - 1) = SubSeq(n, 1, i - 1),
         m[i].kind \in Ordinary, n[i].kind \in Ordinary
  PROVE  m[i].approvers \cap n[i].approvers # {}
<1>1. /\ Len(m) \in Nat /\ Len(n) \in Nat
      /\ \A k \in 1..Len(m) : m[k] \in Transition
      /\ \A k \in 2..Len(m) : verify_transition(m[k - 1], m[k], TRUE)
  BY SoundFacts
<1>2. /\ \A k \in 1..Len(n) : n[k] \in Transition
      /\ \A k \in 2..Len(n) : verify_transition(n[k - 1], n[k], TRUE)
  BY SoundFacts
<1>3. i - 1 \in Int /\ i - 1 \in 1..(i - 1) /\ i - 1 \in 1..Len(m)
  BY <1>1
<1>4. SubSeq(m, 1, i - 1)[i - 1] = m[i - 1]
  BY <1>1, <1>3, SubSeqProperties
<1>5. SubSeq(n, 1, i - 1)[i - 1] = n[i - 1]
  BY <1>1, <1>2, <1>3, SubSeqProperties
<1> DEFINE parent == m[i - 1]
<1>6. parent \in Transition /\ n[i - 1] = parent
  BY <1>1, <1>3, <1>4, <1>5
<1>7. verify_transition(parent, m[i], TRUE) /\ verify_transition(parent, n[i], TRUE)
  <2>1. i \in 2..Len(m) /\ i \in 2..Len(n)
    BY <1>1
  <2> QED
    BY <1>1, <1>2, <1>6, <2>1
<1> HIDE DEF parent
<1>8. /\ m[i].approvers \subseteq parent.active /\ has_quorum(parent, m[i].approvers)
      /\ n[i].approvers \subseteq parent.active /\ has_quorum(parent, n[i].approvers)
  BY <1>7 DEF verify_transition, Ordinary
<1>9. IsFiniteSet(parent.active) /\ Cardinality(parent.active) \in Nat
  BY <1>6, TransitionFields
<1>10. Cardinality(m[i].approvers) \in Nat /\ Cardinality(n[i].approvers) \in Nat
  BY <1>8, <1>9, FS_Subset, FS_CardinalityType
<1>11. Cardinality(m[i].approvers) + Cardinality(n[i].approvers) > Cardinality(parent.active)
  BY <1>8, <1>9, <1>10 DEF has_quorum
<1> QED
  BY <1>8, <1>9, <1>11, FS_MajoritiesIntersect

\* The property of forks follows from the soundness of all proofs.
LEMMA ForksMeet ==
  ASSUME PastInv
  PROVE  ForksShareASigner
<1> SUFFICES ASSUME NEW m1 \in Proofs, NEW m2 \in Proofs, NEW i \in 2..Len(m1),
                    i <= Len(m2), SubSeq(m1, 1, i - 1) = SubSeq(m2, 1, i - 1),
                    {m1[i].kind, m2[i].kind} \subseteq Ordinary
             PROVE  m1[i].approvers \cap m2[i].approvers # {}
  BY DEF ForksShareASigner
<1> QED
  BY ProofsSound, MajoritiesMeet

-----------------------------------------------------------------------------
(* New proofs                                                              *)

\* Renaming and revoking introduce nobody.
LEMMA RenameRevokeKnown ==
  ASSUME NEW parent \in Transition, NEW t \in Transition,
         t.kind \in {"rename", "revoke"}, verify_transition(parent, t, TRUE)
  PROVE  Known(t) \subseteq Known(parent)
<1>1. validate_ordinary_difference(parent, t)
  BY DEF verify_transition
<1>2. Known(t) \ Known(parent) = {}
  BY <1>1 DEF validate_ordinary_difference
<1> QED
  BY <1>2

\* A minted device in no state of a proof if not in its last.
LEMMA KnownBefore ==
  ASSUME NEW m, Sound(m), NEW i \in 1..Len(m)
  PROVE  /\ Known(m[i]) \subseteq Known(Last(m)) /\ m[i].epoch <= recovery_epoch(m)
         /\ m[i].revoked \subseteq Last(m).revoked
<1>1. Len(m) \in Nat \ {0} /\ Last(m) = m[Len(m)]
  BY SoundFacts
<1>2. Len(m) \in 1..Len(m) /\ i <= Len(m)
  BY <1>1
<1> QED
  BY <1>1, <1>2 DEF Sound, Grows, recovery_epoch

\* An ordinary transition that brings in no minted device keeps the proofs in order.
LEMMA OrdinaryAppend ==
  ASSUME PastInv, NEW m \in Proofs, NEW t \in Transition, Appends(m, t), t.kind \in Ordinary,
         Known(t) \cap Recovered \subseteq Known(Last(m))
  PROVE  /\ Sound(Append(m, t)) /\ Last(Append(m, t)) = t
         /\ Known(Last(Append(m, t))) \cap Recovered \subseteq {r \in Device : Linked(r)}
         /\ BornOnce(Proofs \cup {Append(m, t)})
<1> DEFINE n == Append(m, t)
<1> DEFINE P == Proofs \cup {n}
<1>1. Sound(m) /\ Len(m) \in Nat \ {0} /\ Last(m) = m[Len(m)] /\ Last(m) \in Transition
  BY ProofsSound, SoundFacts
<1>2. /\ Sound(n) /\ Last(n) = t /\ Len(n) = Len(m) + 1
      /\ \A i \in 1..Len(m) : n[i] = m[i]
      /\ n[Len(m) + 1] = t
  BY <1>1, AppendSound DEF Appends, Ordinary
<1>3. t.epoch = Last(m).epoch
  BY <1>1, TransitionGrows DEF Appends, Ordinary
<1>4. Known(t) \cap Recovered \subseteq {r \in Device : Linked(r)}
  BY DEF PastInv
<1> HIDE DEF n
<1>5. ASSUME NEW a \in P, NEW i \in 1..Len(a), NEW r \in Recovered, r \in Known(a[i])
      PROVE  \E b \in Proofs : \E k \in 1..Len(b) : r \in Known(b[k]) /\ b[k].epoch = a[i].epoch
  <2>1. CASE a \in Proofs
    BY <1>5, <2>1
  <2>2. CASE a = n /\ i # Len(m) + 1
    <3>1. i \in 1..Len(m)
      BY <1>1, <1>2, <2>2
    <3> QED
      BY <1>2, <1>5, <2>2, <3>1
  <2>3. CASE a = n /\ i = Len(m) + 1
    <3>1. a[i] = t /\ r \in Known(m[Len(m)]) /\ Len(m) \in 1..Len(m)
      BY <1>1, <1>2, <1>5, <2>3
    <3> QED
      BY <1>1, <1>3, <3>1
  <2> QED
    BY <2>1, <2>2, <2>3
<1>6. ASSUME NEW a \in P, NEW j \in 1..Len(a), a[j].kind = "recovery"
      PROVE  \E b \in Proofs : \E k \in 1..Len(b) : b[k] = a[j]
  <2>1. CASE a \in Proofs
    BY <2>1
  <2>2. CASE a = n
    <3>1. j # Len(m) + 1
      BY <1>2, <1>6, <2>2 DEF Ordinary
    <3>2. j \in 1..Len(m)
      BY <1>1, <1>2, <2>2, <3>1
    <3> QED
      BY <1>2, <2>2, <3>2
  <2> QED
    BY <2>1, <2>2
<1>7. BornOnce(P)
  <2> SUFFICES ASSUME NEW a \in P, NEW b \in P, NEW i \in 1..Len(a), NEW j \in 1..Len(b),
                      NEW r \in Recovered,
                      b[j].kind = "recovery", r \in b[j].active, r \in Known(a[i])
               PROVE  b[j].epoch <= a[i].epoch
    BY DEF BornOnce
  <2> HIDE DEF P
  <2>1. PICK x \in Proofs : \E k \in 1..Len(x) : r \in Known(x[k]) /\ x[k].epoch = a[i].epoch
    BY <1>5
  <2>2. PICK k \in 1..Len(x) : r \in Known(x[k]) /\ x[k].epoch = a[i].epoch
    BY <2>1
  <2>3. PICK y \in Proofs : \E l \in 1..Len(y) : y[l] = b[j]
    BY <1>6
  <2>4. PICK l \in 1..Len(y) : y[l] = b[j]
    BY <2>3
  <2> QED
    BY <2>2, <2>4 DEF PastInv, BornOnce
<1> QED
  BY <1>2, <1>4, <1>7 DEF n

\* Nor does a restore, on a device that holds no proof yet.
LEMMA RecoveryAppend ==
  ASSUME PastInv, NEW m \in Proofs, NEW id \in Nat, NEW d \in Recovered, ~ Linked(d),
         Len(m) < MAX_DEVICE_AUTHORITY_TRANSITIONS
  PROVE  LET n == recover(m, id, d)
         IN  /\ Sound(n) /\ Active(n) = {d}
             /\ Known(Last(n)) \cap Recovered \subseteq {r \in Device : Linked(r)} \cup {d}
             /\ BornOnce(Proofs \cup {n})
<1>1. Sound(m) /\ Len(m) \in Nat \ {0} /\ Last(m) = m[Len(m)] /\ Last(m) \in Transition
  BY ProofsSound, SoundFacts
<1>2. \A b \in Proofs : d \notin Known(Last(b))
  BY DEF PastInv
<1>3. PICK t \in Transition :
        /\ recover(m, id, d) = Append(m, t) /\ Sound(Append(m, t))
        /\ t.kind = "recovery" /\ t.active = {d} /\ t.revoked = Known(Last(m))
        /\ t.epoch = recovery_epoch(m) + 1
  BY <1>1, <1>2, RecoverSound
<1> DEFINE n == Append(m, t)
<1> DEFINE P == Proofs \cup {n}
<1>4. /\ n \in Seq(Transition) /\ Len(n) = Len(m) + 1 /\ n[Len(m) + 1] = t
      /\ \A i \in 1..Len(m) : n[i] = m[i]
  <2>1. m \in Seq(Transition)
    BY <1>1, SoundFacts
  <2> QED
    BY <2>1, AppendProperties
<1>5. Last(n) = t /\ Active(n) = {d}
  BY <1>3, <1>4 DEF Last, Active
<1>6. Known(t) = {d} \cup Known(Last(m))
  BY <1>3 DEF Known
<1>7. Known(Last(n)) \cap Recovered \subseteq {r \in Device : Linked(r)} \cup {d}
  BY <1>5, <1>6 DEF PastInv
<1>8. ASSUME NEW b \in Proofs, NEW k \in 1..Len(b)
      PROVE  d \notin Known(b[k]) /\ d \notin b[k].active
  <2>1. Known(b[k]) \subseteq Known(Last(b))
    BY ProofsSound, KnownBefore
  <2> QED
    BY <1>2, <2>1 DEF Known
<1> HIDE DEF n
<1>9. ASSUME NEW a \in P, NEW i \in 1..Len(a), a[i] # t
      PROVE  \E b \in Proofs : \E k \in 1..Len(b) : b[k] = a[i]
  <2>1. CASE a \in Proofs
    BY <2>1
  <2>2. CASE a = n
    <3>1. i \in 1..Len(m)
      BY <1>1, <1>4, <1>9, <2>2
    <3> QED
      BY <1>4, <2>2, <3>1
  <2> QED
    BY <2>1, <2>2
<1>10. recovery_epoch(m) = m[Len(m)].epoch /\ recovery_epoch(m) \in Nat
  BY <1>1, SoundFacts DEF recovery_epoch
<1>11. BornOnce(P)
  <2> SUFFICES ASSUME NEW a \in P, NEW b \in P, NEW i \in 1..Len(a), NEW j \in 1..Len(b),
                      NEW r \in Recovered,
                      b[j].kind = "recovery", r \in b[j].active, r \in Known(a[i])
               PROVE  b[j].epoch <= a[i].epoch
    BY DEF BornOnce
  <2> HIDE DEF P
  <2>1. CASE r = d
    <3>1. a[i] = t /\ b[j] = t
      BY <1>8, <1>9, <2>1
    <3> QED
      BY <1>3, <1>10, <3>1
  <2>2. CASE r # d
    <3>1. b[j] # t
      BY <1>3, <2>2
    <3>2. PICK y \in Proofs : \E l \in 1..Len(y) : y[l] = b[j]
      BY <1>9, <3>1
    <3>3. PICK l \in 1..Len(y) : y[l] = b[j]
      BY <3>2
    <3>4. CASE a[i] # t
      <4>1. PICK x \in Proofs : \E k \in 1..Len(x) : x[k] = a[i]
        BY <1>9, <3>4
      <4>2. PICK k \in 1..Len(x) : x[k] = a[i]
        BY <4>1
      <4> QED
        BY <3>3, <4>2 DEF PastInv, BornOnce
    <3>5. CASE a[i] = t
      <4>1. r \in Known(m[Len(m)]) /\ Len(m) \in 1..Len(m)
        BY <1>1, <1>6, <2>2, <3>5
      <4>2. y[l].epoch <= m[Len(m)].epoch
        BY <3>3, <4>1 DEF PastInv, BornOnce
      <4>3. y[l].epoch \in Nat
        BY ProofsSound, SoundFacts, TransitionFields
      <4> QED
        BY <1>3, <1>10, <3>3, <3>5, <4>2, <4>3, SMTT(30)
    <3> QED
      BY <3>4, <3>5
  <2> QED
    BY <2>1, <2>2
<1> QED
  BY <1>3, <1>5, <1>7, <1>11 DEF n

\* What the one commit of a device's state leaves true.
LEMMA CommitKept ==
  ASSUME PastInv, RowInv, NEW d \in Device, NEW m, Sound(m), NEW links \in SUBSET Channel,
         Known(Last(m)) \cap Recovered \subseteq {r \in Device : Linked(r)} \cup {d},
         BornOnce(Proofs \cup {m}), CommitState(d, m, links)
  PROVE  /\ PastInv' /\ RowInv' /\ Proofs' = Proofs \cup {m}
         /\ \A x \in Device : Linked(x)' <=> Linked(x) \/ x = d
         /\ \A x \in Device : past[x] \subseteq past'[x]
<1> DEFINE row == [manifest |-> m, channels |-> links]
<1>1. m \in Seq(Transition) /\ m # <<>>
  BY SoundFacts
<1>2. row \in [manifest: Seq(Transition), channels: SUBSET Channel]
  BY <1>1
<1>3. row.manifest = m
  OBVIOUS
<1> HIDE DEF row
<1>4. /\ Validates(d, m, links)
      /\ manifest' = [manifest EXCEPT ![d] = m] /\ channels' = [channels EXCEPT ![d] = links]
      /\ past' = [past EXCEPT ![d] = past[d] \cup {row}]
  BY DEF CommitState, row
<1>5. d \in Active(m)
  BY <1>4 DEF Validates
<1>6. /\ past' \in [Device -> SUBSET [manifest: Seq(Transition), channels: SUBSET Channel]]
      /\ \A x \in Device : past'[x] = IF x = d THEN past[x] \cup {row} ELSE past[x]
  BY <1>2, <1>4 DEF PastInv
<1>7. Proofs' = Proofs \cup {m}
  BY <1>3, <1>6 DEF Proofs
<1>8. /\ manifest' \in [Device -> Seq(Transition)] /\ channels' \in [Device -> SUBSET Channel]
      /\ \A x \in Device : manifest'[x] = IF x = d THEN m ELSE manifest[x]
      /\ \A x \in Device : channels'[x] = IF x = d THEN links ELSE channels[x]
  BY <1>1, <1>4 DEF RowInv
<1>9. \A x \in Device : Linked(x)' <=> Linked(x) \/ x = d
  BY <1>1, <1>8 DEF Linked
<1>10. \A x \in Device : \A p \in past'[x] : Sound(p.manifest) /\ x \in Active(p.manifest)
  BY <1>3, <1>5, <1>6 DEF PastInv
<1>11. \A n \in Proofs' : Known(Last(n)) \cap Recovered \subseteq {r \in Device : Linked(r)'}
  BY <1>7, <1>9 DEF PastInv
<1>12. PastInv'
  BY <1>6, <1>7, <1>10, <1>11 DEF PastInv, BornOnce
<1>13. RowInv'
  <2> SUFFICES ASSUME NEW x \in Device, Linked(x)'
               PROVE  /\ Validates(x, manifest'[x], channels'[x])
                      /\ [manifest |-> manifest'[x], channels |-> channels'[x]] \in past'[x]
    BY <1>8 DEF RowInv, Validates
  <2>1. CASE x = d
    BY <1>4, <1>6, <1>8, <2>1 DEF row
  <2>2. CASE x # d
    BY <1>6, <1>8, <1>9, <2>2 DEF RowInv
  <2> QED
    BY <2>1, <2>2
<1> QED
  BY <1>6, <1>7, <1>9, <1>12, <1>13

-----------------------------------------------------------------------------
(* Steps of the devices                                                    *)

\* Proposals and ceremonies stay in order while proofs are only added.
LEMMA CeremoniesKept ==
  ASSUME Proofs \subseteq Proofs', \A x \in Device : Linked(x) => Linked(x)'
  PROVE  /\ PendingInv /\ UNCHANGED pending => PendingInv'
         /\ SourceInv /\ UNCHANGED source => SourceInv'
         /\ TargetInv /\ UNCHANGED target /\ (\A t \in Device : target[t] # None => ~ Linked(t)')
              => TargetInv'
  BY DEF PendingInv, SourceInv, TargetInv, MapOn, PreparedInv

\* A commit of a device that is no target of a link.
LEMMA CommitAccount ==
  ASSUME AccountInv, NEW d \in Device, NEW m, Sound(m), NEW links \in SUBSET Channel,
         Known(Last(m)) \cap Recovered \subseteq {r \in Device : Linked(r)} \cup {d},
         BornOnce(Proofs \cup {m}), CommitState(d, m, links)
  PROVE  /\ PastInv' /\ RowInv' /\ Proofs \subseteq Proofs'
         /\ UNCHANGED pending => PendingInv'
         /\ UNCHANGED source => SourceInv'
         /\ UNCHANGED target /\ target[d] = None => TargetInv'
         /\ \A x \in Device : past[x] \subseteq past'[x]
<1>1. /\ PastInv' /\ RowInv' /\ Proofs' = Proofs \cup {m}
      /\ \A x \in Device : Linked(x)' <=> Linked(x) \/ x = d
      /\ \A x \in Device : past[x] \subseteq past'[x]
  BY CommitKept DEF AccountInv
<1>2. Proofs \subseteq Proofs'
  BY <1>1
<1>3. target[d] = None => \A t \in Device : target[t] # None => ~ Linked(t)'
  BY <1>1 DEF AccountInv, TargetInv
<1> QED
  BY <1>1, <1>2, <1>3, CeremoniesKept DEF AccountInv

\* A commit of a proof that somebody has held.
LEMMA CommitKnownProof ==
  ASSUME AccountInv, NEW d \in Device, NEW m \in Proofs, NEW links \in SUBSET Channel,
         CommitState(d, m, links)
  PROVE  /\ PastInv' /\ RowInv' /\ Proofs \subseteq Proofs'
         /\ UNCHANGED pending => PendingInv'
         /\ UNCHANGED source => SourceInv'
         /\ UNCHANGED target /\ target[d] = None => TargetInv'
         /\ \A x \in Device : past[x] \subseteq past'[x]
         /\ \A x \in Device : Linked(x)' <=> Linked(x) \/ x = d
<1>1. Sound(m) /\ Known(Last(m)) \cap Recovered \subseteq {r \in Device : Linked(r)} \cup {d}
  BY ProofsSound DEF AccountInv, PastInv
<1>2. BornOnce(Proofs \cup {m})
  <2>1. Proofs \cup {m} = Proofs
    OBVIOUS
  <2> QED
    BY <2>1 DEF AccountInv, PastInv
<1> QED
  BY <1>1, <1>2, CommitAccount, CommitKept DEF AccountInv

\* A serial number is drawn.
LEMMA SerialDrawn ==
  ASSUME IdInv, NextSerial
  PROVE  /\ serial + 1 \in 1..MaxSerial /\ serial + 1 \in Nat
         /\ UNCHANGED approvals => IdInv'
  BY DevicesAssumption DEF IdInv, NextSerial

\* Applying an authorised rename or revocation.
LEMMA ApplyStep ==
  ASSUME AccountInv, NEW d \in Device, Linked(d), NEW t \in Transition,
         t.kind \in {"rename", "revoke"}, Apply(d, t)
  PROVE  /\ PastInv' /\ RowInv' /\ Proofs \subseteq Proofs'
         /\ UNCHANGED pending => PendingInv'
         /\ UNCHANGED source => SourceInv'
         /\ UNCHANGED target => TargetInv'
         /\ \A x \in Device : past[x] \subseteq past'[x]
<1> DEFINE m == manifest[d]
<1>1. m \in Proofs /\ Sound(m) /\ Last(m) \in Transition
  BY ManifestIsProof, SoundFacts DEF AccountInv
<1>2. Appends(m, t) /\ verify_transition(Last(m), t, TRUE)
  BY DEF Apply, Appends
<1>3. Known(t) \subseteq Known(Last(m))
  BY <1>1, <1>2, RenameRevokeKnown
<1>4. t.kind \in Ordinary
  BY DEF Ordinary
<1> DEFINE n == Append(m, t)
<1> DEFINE links == ChannelsTo(d, t.active)
<1>5. /\ Sound(n) /\ BornOnce(Proofs \cup {n})
      /\ Known(Last(n)) \cap Recovered \subseteq {r \in Device : Linked(r)} \cup {d}
  BY <1>1, <1>2, <1>3, <1>4, OrdinaryAppend DEF AccountInv
<1>6. links \in SUBSET Channel
  BY DEF ChannelsTo, AccountInv, RowInv
<1>7. CommitState(d, n, links)
  BY DEF Apply
<1>8. target[d] = None
  BY DEF AccountInv, TargetInv
<1> HIDE DEF n, links
<1> QED
  BY <1>5, <1>6, <1>7, <1>8, CommitAccount

LEMMA ProposeStep ==
  ASSUME AccountInv, NEW d \in Device, Linked(d), NEW t \in Transition,
         t.kind \in {"rename", "revoke"}, t.id \in 1..MaxSerial, Propose(d, t)
  PROVE  AccountInv' /\ \A x \in Device : past[x] \subseteq past'[x]
<1>1. IdInv'
  BY SerialDrawn DEF AccountInv, Propose
<1>2. UNCHANGED <<source, target>>
  BY DEF Propose
<1>3. CASE Apply(d, t) /\ UNCHANGED pending
  BY <1>1, <1>2, <1>3, ApplyStep DEF AccountInv
<1>4. CASE /\ pending' = [pending EXCEPT ![d] = [parent |-> manifest[d], transition |-> t]]
           /\ UNCHANGED <<manifest, channels, past>>
  <2>1. manifest[d] \in Proofs /\ manifest[d] \in Seq(Transition)
    BY ManifestIsProof, SoundFacts DEF AccountInv
  <2>2. Proofs' = Proofs /\ \A x \in Device : Linked(x)' = Linked(x)
    BY <1>4 DEF Proofs, Linked
  <2>3. PastInv' /\ RowInv'
    BY <1>4, <2>2 DEF AccountInv, PastInv, RowInv, BornOnce, Validates
  <2>4. SourceInv' /\ TargetInv'
    <3>1. \A x \in Device : target[x] # None => ~ Linked(x)'
      BY <2>2 DEF AccountInv, TargetInv
    <3> QED
      BY <1>2, <2>2, <3>1, CeremoniesKept DEF AccountInv
  <2>5. PendingInv'
    <3> DEFINE new == [parent |-> manifest[d], transition |-> t]
    <3>1. /\ new \in [parent: Seq(Transition), transition: Transition]
          /\ new.parent = manifest[d] /\ new.transition = t
      BY <2>1
    <3> HIDE DEF new
    <3>2. pending' = [pending EXCEPT ![d] = new]
      BY <1>4 DEF new
    <3>3. MapOn(pending', Device) /\ \A x \in Device : pending'[x] = IF x = d THEN new ELSE pending[x]
      BY <3>2 DEF AccountInv, PendingInv, MapOn
    <3> QED
      BY <2>1, <2>2, <3>1, <3>3 DEF AccountInv, PendingInv, MapOn
  <2> QED
    BY <1>1, <1>4, <2>3, <2>4, <2>5 DEF AccountInv
<1> QED
  BY <1>3, <1>4 DEF Propose

LEMMA RenameStep ==
  ASSUME AccountInv, NEW d \in Device, rename_linked_device(d)
  PROVE  AccountInv' /\ \A x \in Device : past[x] \subseteq past'[x]
<1> DEFINE t == propose_rename_device(manifest[d], serial + 1, d)
<1>1. Linked(d) /\ Propose(d, t) /\ NextSerial
  BY DEF rename_linked_device, Propose
<1>2. Sound(manifest[d]) /\ Last(manifest[d]) \in Transition
  BY <1>1, ManifestIsProof, SoundFacts DEF AccountInv
<1>3. serial + 1 \in Nat /\ serial + 1 \in 1..MaxSerial
  BY <1>1, SerialDrawn DEF AccountInv
<1>4. Active(manifest[d]) \in SUBSET Device /\ Last(manifest[d]).revoked \in SUBSET Device
  BY <1>2, TransitionFields DEF Active
<1>5. t \in Transition /\ t.kind = "rename" /\ t.id \in 1..MaxSerial
  BY <1>2, <1>3, <1>4, SoundFacts DEF propose_rename_device, ordinary_proposal, Transition, Kind,
     Ordinary
<1> HIDE DEF t
<1> QED
  BY <1>1, <1>5, ProposeStep

LEMMA RevokeStep ==
  ASSUME AccountInv, NEW d \in Device, NEW x \in Device, revoke_linked_device(d, x)
  PROVE  AccountInv' /\ \A y \in Device : past[y] \subseteq past'[y]
<1> DEFINE t == propose_revoke_device(manifest[d], serial + 1, x, d)
<1>1. Linked(d) /\ Propose(d, t) /\ NextSerial
  BY DEF revoke_linked_device, Propose
<1>2. Sound(manifest[d]) /\ Last(manifest[d]) \in Transition
  BY <1>1, ManifestIsProof, SoundFacts DEF AccountInv
<1>3. serial + 1 \in Nat /\ serial + 1 \in 1..MaxSerial
  BY <1>1, SerialDrawn DEF AccountInv
<1>4. /\ Active(manifest[d]) \ {x} \in SUBSET Device
      /\ Last(manifest[d]).revoked \cup {x} \in SUBSET Device
  BY <1>2, TransitionFields DEF Active
<1>5. t \in Transition /\ t.kind = "revoke" /\ t.id \in 1..MaxSerial
  BY <1>2, <1>3, <1>4, SoundFacts DEF propose_revoke_device, ordinary_proposal, Transition, Kind,
     Ordinary
<1> HIDE DEF t
<1> QED
  BY <1>1, <1>5, ProposeStep

LEMMA ApproveStep ==
  ASSUME AccountInv, NEW x \in Device, NEW parent, NEW t, t.id \in 1..MaxSerial,
         Approve(x, parent, t)
  PROVE  AccountInv' /\ \A y \in Device : past[y] \subseteq past'[y]
<1>1. /\ UNCHANGED <<manifest, channels, pending, source, target, serial, past>>
      /\ approvals' = approvals \cup {[id |-> t.id, by |-> x]}
  BY DEF Approve
<1>2. Proofs' = Proofs /\ \A y \in Device : Linked(y)' = Linked(y)
  BY <1>1 DEF Proofs, Linked
<1>3. PastInv' /\ RowInv'
  BY <1>1, <1>2 DEF AccountInv, PastInv, RowInv, BornOnce, Validates
<1>4. PendingInv' /\ SourceInv' /\ TargetInv'
  <2>1. \A y \in Device : target[y] # None => ~ Linked(y)'
    BY <1>2 DEF AccountInv, TargetInv
  <2> QED
    BY <1>1, <1>2, <2>1, CeremoniesKept DEF AccountInv
<1>5. IdInv'
  BY <1>1 DEF AccountInv, IdInv
<1> QED
  BY <1>1, <1>3, <1>4, <1>5 DEF AccountInv

LEMMA MergeTyped ==
  ASSUME NEW t \in Transition, NEW x \in Device
  PROVE  LET n == merge_approval(t, x)
         IN  /\ n \in Transition /\ n.kind = t.kind /\ n.id = t.id
             /\ n.active = t.active /\ n.revoked = t.revoked
  BY DEF merge_approval, Transition

LEMMA AcceptApprovalStep ==
  ASSUME AccountInv, NEW d \in Device, NEW a \in approvals,
         accept_device_authority_approval(d, a)
  PROVE  AccountInv' /\ \A x \in Device : past[x] \subseteq past'[x]
<1> DEFINE old == pending[d].transition
<1> DEFINE t == merge_approval(old, a.by)
<1>1. /\ pending[d] # None /\ pending[d].parent = manifest[d]
      /\ UNCHANGED <<source, target, approvals, serial>>
  BY DEF accept_device_authority_approval
<1>2. /\ old \in Transition /\ old.kind \in {"rename", "revoke"} /\ old.id \in 1..MaxSerial
      /\ pending[d].parent \in Proofs
      /\ pending[d] = [parent |-> pending[d].parent, transition |-> old]
  BY <1>1 DEF AccountInv, PendingInv
<1>3. a.by \in Device
  BY DEF AccountInv, IdInv
<1>4. t \in Transition /\ t.kind = old.kind /\ t.id = old.id
  BY <1>2, <1>3, MergeTyped
<1>5. Linked(d)
  <2>1. Sound(manifest[d])
    BY <1>1, <1>2, ProofsSound DEF AccountInv
  <2> QED
    BY <2>1, SoundFacts DEF Linked
<1>6. IdInv'
  BY <1>1 DEF AccountInv, IdInv
<1> HIDE DEF t
<1>7. ASSUME NEW new, Proofs \subseteq Proofs', pending' = [pending EXCEPT ![d] = new],
             \/ new = None
             \/ /\ new = [parent |-> manifest[d], transition |-> t]
      PROVE  PendingInv'
  <2>1. /\ MapOn(pending', Device)
        /\ \A x \in Device : pending'[x] = IF x = d THEN new ELSE pending[x]
    BY <1>7 DEF AccountInv, PendingInv, MapOn
  <2>2. new # None => /\ new \in [parent: Seq(Transition), transition: Transition]
                      /\ new.parent \in Proofs /\ new.transition = t
    <3>1. manifest[d] \in Seq(Transition)
      BY DEF AccountInv, RowInv
    <3> QED
      BY <1>1, <1>2, <1>4, <1>7, <3>1
  <2> QED
    BY <1>2, <1>4, <1>7, <2>1, <2>2 DEF AccountInv, PendingInv, MapOn
<1>8. CASE Apply(d, t) /\ pending' = [pending EXCEPT ![d] = None]
  <2>1. /\ PastInv' /\ RowInv' /\ Proofs \subseteq Proofs' /\ SourceInv' /\ TargetInv'
        /\ \A x \in Device : past[x] \subseteq past'[x]
    BY <1>1, <1>2, <1>4, <1>5, <1>8, ApplyStep
  <2>2. PendingInv'
    BY <1>7, <1>8, <2>1
  <2> QED
    BY <1>6, <2>1, <2>2 DEF AccountInv
<1>9. CASE /\ pending' = [pending EXCEPT ![d].transition = t]
           /\ UNCHANGED <<manifest, channels, past>>
  <2>1. Proofs' = Proofs /\ \A x \in Device : Linked(x)' = Linked(x)
    BY <1>9 DEF Proofs, Linked
  <2>2. PastInv' /\ RowInv'
    BY <1>9, <2>1 DEF AccountInv, PastInv, RowInv, BornOnce, Validates
  <2>3. SourceInv' /\ TargetInv'
    <3>1. \A x \in Device : target[x] # None => ~ Linked(x)'
      BY <2>1 DEF AccountInv, TargetInv
    <3> QED
      BY <1>1, <2>1, <3>1, CeremoniesKept DEF AccountInv
  <2>4. pending' = [pending EXCEPT ![d] = [parent |-> manifest[d], transition |-> t]]
    <3>1. \A u, v, w : [[parent |-> u, transition |-> v] EXCEPT !.transition = w]
                         = [parent |-> u, transition |-> w]
      OBVIOUS
    <3>2. [pending[d] EXCEPT !.transition = t] = [parent |-> manifest[d], transition |-> t]
      BY <1>1, <1>2, <3>1
    <3> QED
      BY <1>9, <3>2
  <2>5. PendingInv'
    BY <1>7, <2>1, <2>4
  <2> QED
    BY <1>6, <1>9, <2>2, <2>3, <2>5 DEF AccountInv
<1> QED
  BY <1>8, <1>9 DEF accept_device_authority_approval, t

LEMMA BeginLinkStep ==
  ASSUME AccountInv, NEW d \in Device, begin_device_link(d)
  PROVE  AccountInv' /\ \A x \in Device : past[x] \subseteq past'[x]
<1> DEFINE new == [offer |-> serial + 1, parent |-> manifest[d], prepared |-> None]
<1>1. /\ Linked(d) /\ NextSerial /\ source' = [source EXCEPT ![d] = new]
      /\ UNCHANGED <<manifest, channels, pending, target, approvals, past>>
  BY DEF begin_device_link
<1>2. Proofs' = Proofs /\ \A x \in Device : Linked(x)' = Linked(x)
  BY <1>1 DEF Proofs, Linked
<1>3. PastInv' /\ RowInv'
  BY <1>1, <1>2 DEF AccountInv, PastInv, RowInv, BornOnce, Validates
<1>4. PendingInv' /\ TargetInv'
  <2>1. \A x \in Device : target[x] # None => ~ Linked(x)'
    BY <1>2 DEF AccountInv, TargetInv
  <2> QED
    BY <1>1, <1>2, <2>1, CeremoniesKept DEF AccountInv
<1>5. IdInv'
  BY <1>1, SerialDrawn DEF AccountInv
<1>6. manifest[d] \in Proofs
  BY <1>1, ManifestIsProof DEF AccountInv
<1>7. /\ new.parent = manifest[d] /\ new.prepared = None
      /\ new = [offer |-> new.offer, parent |-> new.parent, prepared |-> new.prepared]
  OBVIOUS
<1> HIDE DEF new
<1>8. /\ MapOn(source', Device)
      /\ \A x \in Device : source'[x] = IF x = d THEN new ELSE source[x]
  BY <1>1 DEF AccountInv, SourceInv, MapOn
<1>9. SourceInv'
  BY <1>1, <1>2, <1>6, <1>7, <1>8 DEF AccountInv, SourceInv, MapOn, PreparedInv
<1> QED
  BY <1>1, <1>3, <1>4, <1>5, <1>9 DEF AccountInv

LEMMA AcceptLinkStep ==
  ASSUME AccountInv, NEW t \in Device, NEW d \in Device, accept_device_link(t, d)
  PROVE  AccountInv' /\ \A x \in Device : past[x] \subseteq past'[x]
<1> DEFINE new == [from |-> d, offer |-> source[d].offer, parent |-> source[d].parent,
                   link |-> serial + 1]
<1>1. /\ ~ Linked(t) /\ t \notin Recovered /\ source[d] # None /\ NextSerial
      /\ target' = [target EXCEPT ![t] = new]
      /\ UNCHANGED <<manifest, channels, pending, source, approvals, past>>
  BY DEF accept_device_link
<1>2. Proofs' = Proofs /\ \A x \in Device : Linked(x)' = Linked(x)
  BY <1>1 DEF Proofs, Linked
<1>3. PastInv' /\ RowInv'
  BY <1>1, <1>2 DEF AccountInv, PastInv, RowInv, BornOnce, Validates
<1>4. PendingInv' /\ SourceInv'
  BY <1>1, <1>2, CeremoniesKept DEF AccountInv
<1>5. IdInv' /\ serial + 1 \in 0..MaxSerial
  BY <1>1, SerialDrawn, DevicesAssumption DEF AccountInv
<1>6. new.from = d /\ new.parent = source[d].parent /\ new.link = serial + 1
  OBVIOUS
<1>7. source[d].parent \in Proofs
  BY <1>1 DEF AccountInv, SourceInv
<1> HIDE DEF new
<1>8. /\ MapOn(target', Device)
      /\ \A x \in Device : target'[x] = IF x = t THEN new ELSE target[x]
  BY <1>1 DEF AccountInv, TargetInv, MapOn
<1>9. TargetInv'
  BY <1>1, <1>2, <1>5, <1>6, <1>7, <1>8 DEF AccountInv, TargetInv, MapOn
<1> QED
  BY <1>1, <1>3, <1>4, <1>5, <1>9 DEF AccountInv

\* The source commits an addition, or keeps or loses what it has prepared.
LEMMA PrepareStep ==
  ASSUME AccountInv, NEW d \in Device, source[d] # None, NEW x,
         PreparedInv(x, source[d].parent), Prepare(d, x), UNCHANGED <<pending, target>>, IdInv'
  PROVE  AccountInv' /\ \A y \in Device : past[y] \subseteq past'[y]
<1> DEFINE parent == source[d].parent
<1>1. /\ parent \in Proofs /\ Linked(d) /\ target[d] = None
      /\ source[d] = [offer |-> source[d].offer, parent |-> parent,
                      prepared |-> source[d].prepared]
  BY DEF AccountInv, SourceInv, TargetInv
<1>2. /\ x.target \in Device \ Recovered /\ x.link \in 0..MaxSerial
      /\ x.transition \in Transition /\ x.transition.kind = "add"
      /\ Known(x.transition) \subseteq Known(Last(parent)) \cup {x.target}
  BY DEF PreparedInv
<1>3. ASSUME NEW new, source' = [source EXCEPT ![d] = new], Proofs \subseteq Proofs',
             \A y \in Device : Linked(y) => Linked(y)',
             \/ new = None
             \/ /\ new = [offer |-> source[d].offer, parent |-> parent, prepared |-> new.prepared]
                /\ new.parent = parent
                /\ new.prepared # None => new.prepared = x
      PROVE  SourceInv'
  <2>1. /\ MapOn(source', Device)
        /\ \A y \in Device : source'[y] = IF y = d THEN new ELSE source[y]
    BY <1>3 DEF AccountInv, SourceInv, MapOn
  <2>2. new # None => /\ new = [offer |-> new.offer, parent |-> new.parent, prepared |-> new.prepared]
                      /\ new.parent \in Proofs
                      /\ new.prepared # None => PreparedInv(new.prepared, new.parent)
    BY <1>1, <1>3
  <2> QED
    BY <1>1, <1>3, <2>1, <2>2 DEF AccountInv, SourceInv, MapOn, PreparedInv
<1>4. CASE FinalizeLink(d, x)
  <2> DEFINE m == Append(parent, x.transition)
  <2> DEFINE links == channels[d] \cup {[peer |-> x.target, link |-> x.link]}
  <2>1. /\ Appends(parent, x.transition) /\ CommitState(d, m, links)
        /\ source' = [source EXCEPT ![d] = None]
    BY <1>4 DEF FinalizeLink
  <2>2. x.transition.kind \in Ordinary
    BY <1>2 DEF Ordinary
  <2>3. /\ Sound(m) /\ BornOnce(Proofs \cup {m})
        /\ Known(Last(m)) \cap Recovered \subseteq {r \in Device : Linked(r)} \cup {d}
    <3>1. Known(x.transition) \cap Recovered \subseteq Known(Last(parent))
      BY <1>2
    <3> HIDE DEF parent
    <3> QED
      BY <1>1, <1>2, <2>1, <2>2, <3>1, OrdinaryAppend DEF AccountInv
  <2>4. links \in SUBSET Channel
    BY <1>2 DEF AccountInv, RowInv, Channel
  <2> HIDE DEF m, links
  <2>5. /\ PastInv' /\ RowInv' /\ Proofs \subseteq Proofs' /\ PendingInv' /\ TargetInv'
        /\ \A y \in Device : past[y] \subseteq past'[y]
    BY <1>1, <2>1, <2>3, <2>4, CommitAccount
  <2>6. \A y \in Device : Linked(y) => Linked(y)'
    BY <2>1, <2>3, <2>4, CommitKept DEF AccountInv
  <2>7. SourceInv'
    BY <1>3, <2>1, <2>5, <2>6
  <2> QED
    BY <2>5, <2>7 DEF AccountInv
<1>5. ASSUME NEW kept \in {None, x}, source' = [source EXCEPT ![d].prepared = kept],
             UNCHANGED <<manifest, channels, past>>
      PROVE  AccountInv' /\ \A y \in Device : past[y] \subseteq past'[y]
  <2>1. Proofs' = Proofs /\ \A y \in Device : Linked(y)' = Linked(y)
    BY <1>5 DEF Proofs, Linked
  <2>2. PastInv' /\ RowInv'
    BY <1>5, <2>1 DEF AccountInv, PastInv, RowInv, BornOnce, Validates
  <2>3. PendingInv' /\ TargetInv'
    <3>1. \A y \in Device : target[y] # None => ~ Linked(y)'
      BY <2>1 DEF AccountInv, TargetInv
    <3> QED
      BY <2>1, <3>1, CeremoniesKept DEF AccountInv
  <2> DEFINE new == [offer |-> source[d].offer, parent |-> parent, prepared |-> kept]
  <2>4. source' = [source EXCEPT ![d] = new]
    <3>1. \A u, v, w, z : [[offer |-> u, parent |-> v, prepared |-> w] EXCEPT !.prepared = z]
                           = [offer |-> u, parent |-> v, prepared |-> z]
      OBVIOUS
    <3>2. [source[d] EXCEPT !.prepared = kept] = new
      BY <1>1, <3>1
    <3> QED
      BY <1>5, <3>2
  <2>5. new.parent = parent /\ new.prepared = kept
    OBVIOUS
  <2>6. SourceInv'
    BY <1>3, <1>5, <2>1, <2>4, <2>5
  <2> QED
    BY <1>5, <2>2, <2>3, <2>6 DEF AccountInv
<1> QED
  BY <1>4, <1>5 DEF Prepare

LEMMA ApproveLinkStep ==
  ASSUME AccountInv, NEW d \in Device, NEW t \in Device, approve_device_link(d, t)
  PROVE  AccountInv' /\ \A x \in Device : past[x] \subseteq past'[x]
<1> DEFINE parent == source[d].parent
<1> DEFINE add == propose_add_device(parent, serial + 1, t, d)
<1> DEFINE x == [target |-> t, link |-> target[t].link, transition |-> add]
<1>1. /\ source[d] # None /\ target[t] # None /\ NextSerial /\ Prepare(d, x)
      /\ UNCHANGED <<pending, target, approvals>>
  BY DEF approve_device_link
<1>2. /\ parent \in Proofs /\ t \notin Recovered /\ target[t].link \in 0..MaxSerial
  BY <1>1 DEF AccountInv, SourceInv, TargetInv
<1>3. Sound(parent) /\ Last(parent) \in Transition /\ recovery_epoch(parent) \in Nat
  BY <1>2, ProofsSound, SoundFacts DEF AccountInv
<1>4. IdInv' /\ serial + 1 \in 1..MaxSerial /\ serial + 1 \in Nat
  BY <1>1, SerialDrawn DEF AccountInv
<1>5. Active(parent) \subseteq Device /\ Last(parent).revoked \subseteq Device
  BY <1>3, TransitionFields DEF Active
<1>6. /\ add \in Transition /\ add.kind = "add" /\ add.id = serial + 1
      /\ add.active = Active(parent) \cup {t} /\ add.revoked = Last(parent).revoked
  BY <1>3, <1>4, <1>5 DEF propose_add_device, ordinary_proposal, Transition, Kind, Ordinary
<1> HIDE DEF add
<1>7. Known(add) \subseteq Known(Last(parent)) \cup {t}
  BY <1>6 DEF Known, Active
<1>8. PreparedInv(x, parent)
  BY <1>2, <1>4, <1>6, <1>7 DEF PreparedInv
<1> HIDE DEF x
<1> QED
  BY <1>1, <1>4, <1>8, PrepareStep

LEMMA AcceptLinkApprovalStep ==
  ASSUME AccountInv, NEW d \in Device, NEW a \in approvals, accept_device_link_approval(d, a)
  PROVE  AccountInv' /\ \A x \in Device : past[x] \subseteq past'[x]
<1> DEFINE old == source[d].prepared
<1> DEFINE t == merge_approval(old.transition, a.by)
<1> DEFINE x == [old EXCEPT !.transition = t]
<1>1. /\ source[d] # None /\ old # None /\ Prepare(d, x)
      /\ UNCHANGED <<pending, target, approvals, serial>>
  BY DEF accept_device_link_approval, Prepared
<1>2. PreparedInv(old, source[d].parent)
  BY <1>1 DEF AccountInv, SourceInv
<1>3. a.by \in Device
  BY DEF AccountInv, IdInv
<1>4. /\ t \in Transition /\ t.kind = old.transition.kind /\ t.id = old.transition.id
      /\ t.active = old.transition.active /\ t.revoked = old.transition.revoked
  BY <1>2, <1>3, MergeTyped DEF PreparedInv
<1> HIDE DEF t
<1>5. PreparedInv(x, source[d].parent)
  BY <1>2, <1>4 DEF PreparedInv, Known
<1>6. IdInv'
  BY <1>1 DEF AccountInv, IdInv
<1> HIDE DEF x
<1> QED
  BY <1>1, <1>5, <1>6, PrepareStep

\* Nothing but the memory of ceremonies changes.
LEMMA ForgetStep ==
  ASSUME AccountInv, NEW d \in Device,
         UNCHANGED <<manifest, channels, approvals, serial, past>>,
         \/ UNCHANGED pending \/ pending' = [pending EXCEPT ![d] = None],
         \/ UNCHANGED source \/ source' = [source EXCEPT ![d] = None],
         \/ UNCHANGED target \/ target' = [target EXCEPT ![d] = None]
  PROVE  AccountInv' /\ \A x \in Device : past[x] \subseteq past'[x]
<1>1. Proofs' = Proofs /\ \A x \in Device : Linked(x)' = Linked(x)
  BY DEF Proofs, Linked
<1>2. PastInv' /\ RowInv'
  BY <1>1 DEF AccountInv, PastInv, RowInv, BornOnce, Validates
<1>3. IdInv'
  BY DEF AccountInv, IdInv
<1>4. /\ MapOn(pending', Device) /\ \A x \in Device : pending'[x] \in {pending[x], None}
      /\ MapOn(source', Device) /\ \A x \in Device : source'[x] \in {source[x], None}
      /\ MapOn(target', Device) /\ \A x \in Device : target'[x] \in {target[x], None}
  BY DEF AccountInv, PendingInv, SourceInv, TargetInv, MapOn
<1>5. PendingInv'
  BY <1>1, <1>4 DEF AccountInv, PendingInv, MapOn
<1>6. SourceInv'
  BY <1>1, <1>4 DEF AccountInv, SourceInv, MapOn, PreparedInv
<1>7. TargetInv'
  BY <1>1, <1>4 DEF AccountInv, TargetInv, MapOn
<1> QED
  BY <1>2, <1>3, <1>5, <1>6, <1>7 DEF AccountInv

LEMMA CompleteLinkStep ==
  ASSUME AccountInv, NEW t \in Device, complete_device_link(t)
  PROVE  AccountInv' /\ \A x \in Device : past[x] \subseteq past'[x]
<1> DEFINE links == {[peer |-> target[t].from, link |-> target[t].link]}
<1>1. /\ target[t] # None /\ target' = [target EXCEPT ![t] = None]
      /\ UNCHANGED <<pending, source, approvals, serial>>
  BY DEF complete_device_link
<1>2. target[t].from \in Device /\ target[t].link \in 0..MaxSerial
  BY <1>1 DEF AccountInv, TargetInv
<1>3. PICK p \in past[target[t].from] : CommitState(t, p.manifest, links)
  BY DEF complete_device_link
<1>4. p.manifest \in Proofs
  BY <1>2, ProofsSound DEF AccountInv
<1>5. links \in SUBSET Channel
  BY <1>2 DEF Channel
<1> HIDE DEF links
<1>6. /\ PastInv' /\ RowInv' /\ Proofs \subseteq Proofs' /\ PendingInv' /\ SourceInv'
      /\ \A x \in Device : past[x] \subseteq past'[x]
      /\ \A x \in Device : Linked(x)' <=> Linked(x) \/ x = t
  BY <1>1, <1>3, <1>4, <1>5, CommitKnownProof
<1>7. MapOn(target', Device) /\ \A x \in Device : target'[x] = IF x = t THEN None ELSE target[x]
  BY <1>1 DEF AccountInv, TargetInv, MapOn
<1>8. TargetInv'
  BY <1>6, <1>7 DEF AccountInv, TargetInv, MapOn
<1>9. IdInv'
  BY <1>1 DEF AccountInv, IdInv
<1> QED
  BY <1>6, <1>8, <1>9 DEF AccountInv

LEMMA ImportStep ==
  ASSUME AccountInv, NEW d \in Device, NEW s \in Device, NEW p \in past[s],
         import_device_sync(d, s, p)
  PROVE  AccountInv' /\ \A x \in Device : past[x] \subseteq past'[x]
<1>1. Linked(d) /\ UNCHANGED <<pending, source, target, approvals, serial>>
  BY DEF import_device_sync
<1>2. p.manifest \in Proofs
  BY ProofsSound DEF AccountInv
<1>3. target[d] = None
  BY <1>1 DEF AccountInv, TargetInv
<1> DEFINE links == ChannelsTo(d, Active(p.manifest))
<1>4. CASE CommitState(d, p.manifest, links)
  <2>1. links \in SUBSET Channel
    BY DEF ChannelsTo, AccountInv, RowInv
  <2> HIDE DEF links
  <2>2. /\ PastInv' /\ RowInv' /\ PendingInv' /\ SourceInv' /\ TargetInv'
        /\ \A x \in Device : past[x] \subseteq past'[x]
    BY <1>1, <1>2, <1>3, <1>4, <2>1, CommitKnownProof
  <2>3. IdInv'
    BY <1>1 DEF AccountInv, IdInv
  <2> QED
    BY <2>2, <2>3 DEF AccountInv
<1>5. CASE UNCHANGED <<manifest, channels, past>>
  BY <1>1, <1>5, ForgetStep
<1> QED
  BY <1>4, <1>5 DEF import_device_sync

LEMMA RestoreStep ==
  ASSUME AccountInv, NEW r \in Device, NEW s \in Device, NEW p \in past[s],
         restore_authority_backup(r, p.manifest)
  PROVE  AccountInv' /\ \A x \in Device : past[x] \subseteq past'[x]
<1> DEFINE n == recover(p.manifest, serial + 1, r)
<1>1. /\ r \in Recovered /\ ~ Linked(r) /\ NextSerial /\ CommitState(r, n, {})
      /\ Len(p.manifest) < MAX_DEVICE_AUTHORITY_TRANSITIONS
      /\ UNCHANGED <<pending, source, target, approvals>>
  BY DEF restore_authority_backup
<1>2. p.manifest \in Proofs
  BY ProofsSound DEF AccountInv
<1>3. IdInv' /\ serial + 1 \in Nat
  BY <1>1, SerialDrawn DEF AccountInv
<1>4. /\ Sound(n) /\ BornOnce(Proofs \cup {n})
      /\ Known(Last(n)) \cap Recovered \subseteq {x \in Device : Linked(x)} \cup {r}
  BY <1>1, <1>2, <1>3, RecoveryAppend DEF AccountInv
<1>5. target[r] = None
  BY <1>1 DEF AccountInv, TargetInv
<1> HIDE DEF n
<1>6. /\ PastInv' /\ RowInv' /\ PendingInv' /\ SourceInv' /\ TargetInv'
      /\ \A x \in Device : past[x] \subseteq past'[x]
  <2>1. {} \in SUBSET Channel
    OBVIOUS
  <2> QED
    BY <1>1, <1>4, <1>5, <2>1, CommitAccount
<1> QED
  BY <1>3, <1>6 DEF AccountInv

-----------------------------------------------------------------------------
(* Steps of the contacts                                                   *)

\* A device that is out in proof m: revoked there, or forgotten since.
Out(m, g) == g.device \in Last(m).revoked \/ ForgottenSince(m, g)

\* A contact's record of who is gone: it knew the device in that epoch, has not
\* gone back to an earlier one, and its proof does not let the device in.
GoneInv(m, g) ==
  /\ g \in [device: Device, epoch: Nat] /\ g.epoch <= recovery_epoch(m) /\ Out(m, g)
  /\ \E n \in Proofs : g.device \in Known(Last(n)) /\ recovery_epoch(n) = g.epoch

\* A first flight carries a proof that its sender held once.
Sent(f) == f.from \in Device /\ \E p \in past[f.from] : p.manifest = f.manifest

Flight == [from: Device, manifest: Seq(Transition)]

\* What a contact holds of the account.
WatchInv ==
  /\ accepted \in [Contact -> Seq(Transition)] /\ sessions \in [Contact -> SUBSET Device]
  /\ \A c \in Contact : accepted[c] \in Proofs /\ sessions[c] \subseteq Active(accepted[c])
  /\ DOMAIN gone = Contact /\ MapOn(gone, Contact)
  /\ \A c \in Contact : \A g \in gone[c] : GoneInv(accepted[c], g)

InboxInv ==
  /\ inbox \in [Contact -> Seq(Flight)]
  /\ \A c \in Contact : Len(inbox[c]) <= MaxInbox
  /\ \A c \in Contact : \A i \in 1..Len(inbox[c]) : Sent(inbox[c][i])

ContactInv == WatchInv /\ InboxInv /\ tick \in [Contact -> {"ok", "failed"}]

\* What is gone stays on record while proofs are only added.
LEMMA WatchKept ==
  ASSUME WatchInv, Proofs \subseteq Proofs', UNCHANGED <<accepted, sessions, gone>>
  PROVE  WatchInv'
<1>1. ASSUME NEW c \in Contact, NEW g \in gone[c] PROVE GoneInv(accepted[c], g)'
  <2>1. GoneInv(accepted[c], g)
    BY DEF WatchInv
  <2>2. Out(accepted[c], g)'
    BY <2>1 DEF GoneInv, Out, ForgottenSince
  <2> QED
    BY <2>1, <2>2 DEF GoneInv
<1>2. \A c \in Contact : accepted'[c] \in Proofs' /\ sessions'[c] \subseteq Active(accepted'[c])
  BY DEF WatchInv
<1> QED
  BY <1>1, <1>2 DEF WatchInv, MapOn

LEMMA InboxKept ==
  ASSUME InboxInv, UNCHANGED inbox, \A x \in Device : past[x] \subseteq past'[x]
  PROVE  InboxInv'
<1>1. \A f : Sent(f) => Sent(f)'
  BY DEF Sent
<1> QED
  BY <1>1 DEF InboxInv

\* Contacts do not notice what devices do.
LEMMA ContactKept ==
  ASSUME ContactInv, UNCHANGED contact_vars, \A x \in Device : past[x] \subseteq past'[x]
  PROVE  ContactInv'
<1>1. Proofs \subseteq Proofs'
  BY DEF Proofs
<1>2. UNCHANGED <<accepted, sessions, inbox, tick, gone>>
  BY DEF contact_vars
<1> QED
  BY <1>1, <1>2, WatchKept, InboxKept DEF ContactInv

\* Whoever is out of a proof is out of the ones that continue it.
LEMMA DescendantOut ==
  ASSUME NEW m, Sound(m), NEW n, Sound(n), Descendant(m, n), NEW g, Out(m, g)
  PROVE  Out(n, g) /\ recovery_epoch(n) = recovery_epoch(m) /\ Known(Last(m)) \subseteq Known(Last(n))
<1>1. recovery_epoch(n) = recovery_epoch(m) /\ IsPrefix(m, n)
  BY DEF Descendant, SameEpoch
<1>2. Len(m) <= Len(n) /\ \A i \in 1..Len(m) : n[i] = m[i]
  BY <1>1, PrefixAgrees
<1>3. Len(m) \in Nat \ {0} /\ Len(n) \in Nat \ {0} /\ Last(m) = m[Len(m)]
  BY SoundFacts
<1>4. Len(m) \in 1..Len(n) /\ Len(m) \in 1..Len(m)
  BY <1>2, <1>3
<1>5. n[Len(m)] = Last(m)
  BY <1>2, <1>3, <1>4
<1>6. Last(m).revoked \subseteq Last(n).revoked /\ Known(Last(m)) \subseteq Known(Last(n))
  BY <1>4, <1>5, KnownBefore
<1>7. ForgottenSince(m, g) => ForgottenSince(n, g)
  <2>1. \A i \in 1..Len(m) : i \in 1..Len(n)
    BY <1>2, <1>3
  <2> QED
    BY <1>2, <2>1 DEF ForgottenSince
<1> QED
  BY <1>1, <1>6, <1>7 DEF Out

\* A recovery leaves out whoever was known in an earlier epoch: it revokes the
\* devices it knows, and a device it does not know is forgotten.
LEMMA RecoveryOut ==
  ASSUME PastInv, NEW n \in Proofs, NEW o \in Proofs, NEW g, g.device \in Known(Last(o)),
         g.epoch = recovery_epoch(o), recovery_epoch(n) > g.epoch
  PROVE  Out(n, g)
<1>1. Sound(n) /\ Sound(o)
  BY ProofsSound
<1>2. /\ Len(n) \in Nat \ {0} /\ Last(n) = n[Len(n)] /\ recovery_epoch(n) = n[Len(n)].epoch
      /\ recovery_epoch(n) \in Nat
      /\ \A i \in 1..Len(n) : n[i] \in Transition
      /\ \A i \in 2..Len(n) : verify_transition(n[i - 1], n[i], TRUE)
  BY <1>1, SoundFacts DEF recovery_epoch
<1>3. /\ Len(o) \in 1..Len(o) /\ Last(o) = o[Len(o)] /\ recovery_epoch(o) = o[Len(o)].epoch
      /\ recovery_epoch(o) \in Nat
  <2>1. Len(o) \in Nat \ {0} /\ Last(o) = o[Len(o)] /\ recovery_epoch(o) \in Nat
    BY <1>1, SoundFacts
  <2> QED
    BY <2>1 DEF recovery_epoch
<1>4. PICK k \in 2..Len(n) : n[k].kind = "recovery" /\ n[k].epoch = recovery_epoch(n)
  <2>1. Len(n) \in 1..Len(n) /\ n[Len(n)].epoch > 0
    BY <1>2, <1>3
  <2> QED
    BY <1>1, <1>2, <2>1 DEF Sound, Opened
<1>5. k \in 1..Len(n) /\ k - 1 \in 1..Len(n)
  BY <1>2
<1>6. n[k].revoked = Known(n[k - 1])
  BY <1>2, <1>4, <1>5, TransitionGrows
<1>7. PICK r \in Recovered : n[k].active = {r}
  BY <1>1, <1>4, <1>5 DEF Sound, Minted
<1>8. g.device # r
  <2> SUFFICES ASSUME g.device = r PROVE FALSE
    OBVIOUS
  <2>1. n[k].epoch <= o[Len(o)].epoch
    BY <1>3, <1>4, <1>5, <1>7 DEF PastInv, BornOnce
  <2> QED
    BY <1>2, <1>3, <1>4, <2>1
<1>9. CASE g.device \in n[k].revoked
  BY <1>1, <1>5, <1>9, KnownBefore DEF Out
<1>10. CASE g.device \notin n[k].revoked
  <2>1. g.device \notin Known(n[k])
    BY <1>7, <1>8, <1>10 DEF Known
  <2> QED
    BY <1>4, <1>5, <2>1 DEF Out, ForgottenSince
<1> QED
  BY <1>9, <1>10

\* Taking a proof keeps who is gone out, and notes who goes.
LEMMA AcceptManifestStep ==
  ASSUME PastInv, WatchInv, UNCHANGED past, NEW c \in Contact, NEW m \in Proofs,
         Acceptable(c, m), NEW live \in SUBSET Active(m), AcceptManifest(c, m, live)
  PROVE  WatchInv'
<1> DEFINE old == accepted[c]
<1>1. old \in Proofs /\ Sound(old) /\ Sound(m) /\ Proofs' = Proofs
  BY ProofsSound DEF WatchInv, Proofs
<1>2. /\ m \in Seq(Transition) /\ Last(m) \in Transition /\ Last(old) \in Transition
      /\ recovery_epoch(m) \in Nat /\ recovery_epoch(old) \in Nat
  BY <1>1, SoundFacts
<1>3. /\ Known(Last(m)) \subseteq Device /\ Known(Last(old)) \subseteq Device
      /\ Active(m) \subseteq Device /\ Last(m).revoked \subseteq Known(Last(m))
  BY <1>2, TransitionFields DEF Active, Known
<1> DEFINE revoked == {[device |-> x, epoch |-> recovery_epoch(m)] : x \in Last(m).revoked}
<1> DEFINE superseded == {[device |-> x, epoch |-> recovery_epoch(old)] :
                            x \in Known(Last(old)) \ Known(Last(m))}
<1>4. /\ accepted' = [accepted EXCEPT ![c] = m] /\ sessions' = [sessions EXCEPT ![c] = live]
      /\ gone' = [gone EXCEPT ![c] = gone[c] \cup revoked \cup superseded]
  BY DEF AcceptManifest
<1>5. \/ m = old \/ Descendant(old, m) \/ recovery_epoch(m) > recovery_epoch(old)
  BY DEF Acceptable, RecoverySupersedes
<1>6. \/ recovery_epoch(m) = recovery_epoch(old) /\ Known(Last(old)) \subseteq Known(Last(m))
      \/ recovery_epoch(m) > recovery_epoch(old)
  <2>1. CASE m = old
    BY <2>1
  <2>2. CASE Descendant(old, m)
    <3>1. recovery_epoch(m) = recovery_epoch(old) /\ IsPrefix(old, m)
      BY <2>2 DEF Descendant, SameEpoch
    <3>2. Len(old) <= Len(m) /\ \A i \in 1..Len(old) : m[i] = old[i]
      BY <1>1, <3>1, PrefixAgrees
    <3>3. Len(old) \in 1..Len(m) /\ Last(old) = m[Len(old)]
      <4>1. Len(old) \in Nat \ {0} /\ Last(old) = old[Len(old)] /\ Len(m) \in Nat
        BY <1>1, SoundFacts
      <4> QED
        BY <3>2, <4>1
    <3> QED
      BY <1>1, <3>1, <3>3, KnownBefore
  <2> QED
    BY <1>5, <2>1, <2>2
<1>7. ASSUME NEW g \in gone[c] PROVE GoneInv(m, g)
  <2>1. /\ g \in [device: Device, epoch: Nat] /\ g.epoch <= recovery_epoch(old) /\ Out(old, g)
        /\ \E n \in Proofs : g.device \in Known(Last(n)) /\ recovery_epoch(n) = g.epoch
    BY DEF WatchInv, GoneInv
  <2>2. g.epoch \in Nat /\ g.epoch <= recovery_epoch(m)
    BY <1>2, <1>6, <2>1
  <2>3. Out(m, g)
    <3>1. CASE m = old
      BY <2>1, <3>1
    <3>2. CASE Descendant(old, m)
      BY <1>1, <2>1, <3>2, DescendantOut
    <3>3. CASE recovery_epoch(m) > recovery_epoch(old)
      <4>1. recovery_epoch(m) > g.epoch
        BY <1>2, <2>1, <2>2, <3>3
      <4> QED
        BY <2>1, <4>1, RecoveryOut
    <3> QED
      BY <1>5, <3>1, <3>2, <3>3
  <2> QED
    BY <2>1, <2>2, <2>3 DEF GoneInv
<1>8. ASSUME NEW g \in revoked PROVE GoneInv(m, g)
  <2>1. PICK x \in Last(m).revoked : g = [device |-> x, epoch |-> recovery_epoch(m)]
    OBVIOUS
  <2>2. g.device = x /\ g.epoch = recovery_epoch(m) /\ x \in Device /\ x \in Known(Last(m))
    BY <1>3, <2>1
  <2> QED
    BY <1>2, <2>1, <2>2 DEF GoneInv, Out
<1>9. ASSUME NEW g \in superseded PROVE GoneInv(m, g)
  <2>1. PICK x \in Known(Last(old)) \ Known(Last(m)) :
          g = [device |-> x, epoch |-> recovery_epoch(old)]
    OBVIOUS
  <2>2. g.device = x /\ g.epoch = recovery_epoch(old) /\ x \in Device
    BY <1>3, <2>1
  <2>3. recovery_epoch(m) > recovery_epoch(old)
    BY <1>6, <2>1
  <2>4. Out(m, g)
    BY <1>1, <2>1, <2>2, <2>3, RecoveryOut DEF WatchInv
  <2>5. g \in [device: Device, epoch: Nat] /\ g.epoch <= recovery_epoch(m)
    BY <1>2, <2>1, <2>2, <2>3
  <2> QED
    BY <1>1, <2>1, <2>2, <2>4, <2>5 DEF GoneInv
<1> HIDE DEF revoked, superseded
<1>10. /\ accepted' \in [Contact -> Seq(Transition)] /\ sessions' \in [Contact -> SUBSET Device]
       /\ \A x \in Contact : accepted'[x] = IF x = c THEN m ELSE accepted[x]
       /\ \A x \in Contact : sessions'[x] = IF x = c THEN live ELSE sessions[x]
  BY <1>2, <1>3, <1>4 DEF WatchInv
<1>11. /\ DOMAIN gone' = Contact /\ MapOn(gone', Contact)
       /\ \A x \in Contact :
            gone'[x] = IF x = c THEN gone[c] \cup revoked \cup superseded ELSE gone[x]
  BY <1>4 DEF WatchInv, MapOn
<1>12. \A x \in Contact : \A g \in gone'[x] : GoneInv(accepted'[x], g)
  BY <1>7, <1>8, <1>9, <1>10, <1>11 DEF WatchInv
<1>13. ASSUME NEW x \in Contact, NEW g \in gone'[x] PROVE GoneInv(accepted[x], g)'
  BY <1>1, <1>12 DEF GoneInv, Out, ForgottenSince
<1>14. \A x \in Contact : accepted'[x] \in Proofs' /\ sessions'[x] \subseteq Active(accepted'[x])
  BY <1>1, <1>10 DEF WatchInv
<1> QED
  BY <1>10, <1>11, <1>13, <1>14 DEF WatchInv

\* Nothing of the devices changes.
LEMMA AccountStays ==
  ASSUME AccountInv, UNCHANGED device_vars
  PROVE  /\ AccountInv' /\ Proofs' = Proofs /\ UNCHANGED past
         /\ \A x \in Device : past[x] \subseteq past'[x]
<1>1. UNCHANGED <<manifest, channels, pending, source, target, approvals, serial, past>>
  BY DEF device_vars
<1>2. Proofs' = Proofs
  BY <1>1 DEF Proofs
<1>3. AccountInv' = AccountInv
  BY <1>1, <1>2 DEF AccountInv, PastInv, RowInv, PendingInv, SourceInv, TargetInv, IdInv,
                    PreparedInv, Linked, Validates, MapOn
<1> QED
  BY <1>1, <1>2, <1>3

LEMMA AddContactStep ==
  ASSUME AccountInv, ContactInv, NEW c \in Contact, NEW d \in Device, NEW p \in past[d],
         add_contact(c, d, p)
  PROVE  AccountInv' /\ ContactInv'
<1>1. UNCHANGED <<device_vars, inbox, tick>>
  BY DEF add_contact
<1>2. AccountInv' /\ Proofs' = Proofs /\ UNCHANGED past
  BY <1>1, AccountStays
<1>3. p.manifest \in Proofs
  BY ProofsSound DEF AccountInv
<1>4. WatchInv'
  <2>1. CASE UNCHANGED <<accepted, sessions, gone>>
    BY <1>2, <2>1, WatchKept DEF ContactInv
  <2>2. ASSUME Acceptable(c, p.manifest), NEW unconfirmed \in {{}, {d}},
               AcceptManifest(c, p.manifest, LiveSessions(c, p.manifest) \ unconfirmed)
        PROVE  WatchInv'
    <3>1. LiveSessions(c, p.manifest) \ unconfirmed \in SUBSET Active(p.manifest)
      BY DEF LiveSessions
    <3> QED
      BY <1>2, <1>3, <2>2, <3>1, AcceptManifestStep DEF AccountInv, ContactInv
  <2> QED
    BY <2>1, <2>2 DEF add_contact
<1>5. InboxInv'
  BY <1>1, <1>2, InboxKept DEF ContactInv
<1> QED
  BY <1>1, <1>2, <1>4, <1>5 DEF ContactInv

LEMMA PrepareSessionStep ==
  ASSUME AccountInv, ContactInv, NEW c \in Contact, NEW d \in Device, prepare_session(c, d)
  PROVE  AccountInv' /\ ContactInv'
<1>1. /\ d \in Active(accepted[c]) /\ sessions' = [sessions EXCEPT ![c] = sessions[c] \cup {d}]
      /\ UNCHANGED <<device_vars, accepted, inbox, tick, gone>>
  BY DEF prepare_session
<1>2. AccountInv' /\ Proofs' = Proofs /\ UNCHANGED past
  BY <1>1, AccountStays
<1>3. InboxInv'
  BY <1>1, <1>2, InboxKept DEF ContactInv
<1>4. /\ sessions' \in [Contact -> SUBSET Device]
      /\ \A x \in Contact : sessions'[x] = IF x = c THEN sessions[c] \cup {d} ELSE sessions[x]
  BY <1>1 DEF ContactInv, WatchInv
<1>5. \A x \in Contact : accepted'[x] \in Proofs' /\ sessions'[x] \subseteq Active(accepted'[x])
  BY <1>1, <1>2, <1>4 DEF ContactInv, WatchInv
<1>6. ASSUME NEW x \in Contact, NEW g \in gone[x] PROVE GoneInv(accepted[x], g)'
  <2>1. GoneInv(accepted[x], g)
    BY DEF ContactInv, WatchInv
  <2> QED
    BY <1>1, <1>2, <2>1 DEF GoneInv, Out, ForgottenSince
<1>7. WatchInv'
  BY <1>1, <1>4, <1>5, <1>6 DEF ContactInv, WatchInv, MapOn
<1> QED
  BY <1>1, <1>2, <1>3, <1>7 DEF ContactInv

LEMMA StageFlightStep ==
  ASSUME AccountInv, ContactInv, NEW c \in Contact, NEW d \in Device, NEW p \in past[d],
         StageFlight(c, d, p)
  PROVE  AccountInv' /\ ContactInv'
<1> DEFINE f == [from |-> d, manifest |-> p.manifest]
<1> DEFINE longer == Append(inbox[c], f)
<1>1. /\ Len(inbox[c]) < MaxInbox /\ inbox' = [inbox EXCEPT ![c] = longer]
      /\ UNCHANGED <<device_vars, accepted, sessions, tick, gone>>
  BY DEF StageFlight
<1>2. AccountInv' /\ Proofs' = Proofs /\ UNCHANGED past
  BY <1>1, AccountStays
<1>3. WatchInv'
  BY <1>1, <1>2, WatchKept DEF ContactInv
<1>4. p.manifest \in Seq(Transition)
  BY SoundFacts DEF AccountInv, PastInv
<1>5. f \in Flight /\ Sent(f)
  BY <1>4 DEF Flight, Sent
<1>6. inbox[c] \in Seq(Flight) /\ Len(inbox[c]) \in Nat
  BY DEF ContactInv, InboxInv
<1> HIDE DEF f
<1>7. /\ longer \in Seq(Flight) /\ Len(longer) = Len(inbox[c]) + 1
      /\ \A i \in 1..Len(inbox[c]) : longer[i] = inbox[c][i]
      /\ longer[Len(inbox[c]) + 1] = f
  BY <1>5, <1>6, AppendProperties
<1>8. Len(longer) <= MaxInbox
  BY <1>1, <1>6, <1>7, DevicesAssumption
<1>9. \A i \in 1..Len(longer) : Sent(longer[i])
  <2> TAKE i \in 1..Len(longer)
  <2>1. i \in 1..Len(inbox[c]) \/ i = Len(inbox[c]) + 1
    BY <1>6, <1>7
  <2> QED
    BY <1>5, <1>7, <2>1 DEF ContactInv, InboxInv
<1> HIDE DEF longer
<1>10. \A x : Sent(x)' <=> Sent(x)
  BY <1>2 DEF Sent
<1>11. /\ inbox' \in [Contact -> Seq(Flight)]
       /\ \A x \in Contact : inbox'[x] = IF x = c THEN longer ELSE inbox[x]
  BY <1>1, <1>7 DEF ContactInv, InboxInv
<1>12. InboxInv'
  BY <1>8, <1>9, <1>10, <1>11 DEF ContactInv, InboxInv
<1> QED
  BY <1>1, <1>2, <1>3, <1>12 DEF ContactInv

\* The oldest flight goes.
LEMMA InboxShorter ==
  ASSUME InboxInv, UNCHANGED past, NEW c \in Contact, inbox[c] # <<>>,
         inbox' = [inbox EXCEPT ![c] = Tail(inbox[c])]
  PROVE  InboxInv'
<1>1. inbox[c] \in Seq(Flight) /\ Len(inbox[c]) \in Nat
  BY DEF InboxInv
<1>2. /\ Tail(inbox[c]) \in Seq(Flight) /\ Len(Tail(inbox[c])) = Len(inbox[c]) - 1
      /\ \A i \in 1..Len(Tail(inbox[c])) : Tail(inbox[c])[i] = inbox[c][i + 1]
  BY <1>1, HeadTailProperties
<1>3. Len(Tail(inbox[c])) <= MaxInbox
  BY <1>1, <1>2, DevicesAssumption DEF InboxInv
<1>4. \A i \in 1..Len(Tail(inbox[c])) : Sent(Tail(inbox[c])[i])
  <2> TAKE i \in 1..Len(Tail(inbox[c]))
  <2>1. i + 1 \in 1..Len(inbox[c])
    BY <1>1, <1>2
  <2> QED
    BY <1>2, <2>1 DEF InboxInv
<1>5. \A x : Sent(x)' <=> Sent(x)
  BY DEF Sent
<1>6. /\ inbox' \in [Contact -> Seq(Flight)]
      /\ \A x \in Contact : inbox'[x] = IF x = c THEN Tail(inbox[c]) ELSE inbox[x]
  BY <1>2 DEF InboxInv
<1> QED
  BY <1>3, <1>4, <1>5, <1>6 DEF InboxInv

LEMMA ExpirePendingStep ==
  ASSUME AccountInv, ContactInv, NEW c \in Contact, ExpirePending(c)
  PROVE  AccountInv' /\ ContactInv'
<1>1. /\ inbox[c] # <<>> /\ inbox' = [inbox EXCEPT ![c] = Tail(inbox[c])]
      /\ UNCHANGED <<device_vars, accepted, sessions, tick, gone>>
  BY DEF ExpirePending
<1>2. AccountInv' /\ Proofs' = Proofs /\ UNCHANGED past
  BY <1>1, AccountStays
<1>3. WatchInv'
  BY <1>1, <1>2, WatchKept DEF ContactInv
<1>4. InboxInv'
  BY <1>1, <1>2, InboxShorter DEF ContactInv
<1> QED
  BY <1>1, <1>2, <1>3, <1>4 DEF ContactInv

LEMMA ConsumeStep ==
  ASSUME AccountInv, ContactInv, NEW c \in Contact, consume_handshake(c)
  PROVE  AccountInv' /\ ContactInv'
<1> DEFINE f == Head(inbox[c])
<1>1. inbox[c] # <<>> /\ UNCHANGED device_vars
  BY DEF consume_handshake
<1>2. AccountInv' /\ Proofs' = Proofs /\ UNCHANGED past
  BY <1>1, AccountStays
<1>3. inbox[c] \in Seq(Flight) /\ Len(inbox[c]) \in Nat
  BY DEF ContactInv, InboxInv
<1>4. 1 \in 1..Len(inbox[c]) /\ f = inbox[c][1]
  BY <1>1, <1>3, EmptySeq
<1>5. Sent(f)
  BY <1>4 DEF ContactInv, InboxInv
<1>6. f.manifest \in Proofs /\ f.from \in Active(f.manifest)
  BY <1>5, ProofsSound DEF Sent, AccountInv, PastInv
<1> HIDE DEF f
<1>7. CASE /\ Acceptable(c, f.manifest)
           /\ AcceptManifest(c, f.manifest, LiveSessions(c, f.manifest) \cup {f.from})
           /\ inbox' = [inbox EXCEPT ![c] = Tail(inbox[c])]
           /\ tick' = [tick EXCEPT ![c] = "ok"]
  <2>1. LiveSessions(c, f.manifest) \cup {f.from} \in SUBSET Active(f.manifest)
    BY <1>6 DEF LiveSessions
  <2>2. WatchInv'
    BY <1>2, <1>6, <1>7, <2>1, AcceptManifestStep DEF AccountInv, ContactInv
  <2>3. InboxInv'
    BY <1>1, <1>2, <1>7, InboxShorter DEF ContactInv
  <2> QED
    BY <1>2, <1>7, <2>2, <2>3 DEF ContactInv
<1>8. CASE /\ inbox' = [inbox EXCEPT ![c] = Tail(inbox[c])]
           /\ tick' = [tick EXCEPT ![c] = "ok"]
           /\ UNCHANGED <<accepted, sessions, gone>>
  <2>1. WatchInv'
    BY <1>2, <1>8, WatchKept DEF ContactInv
  <2>2. InboxInv'
    BY <1>1, <1>2, <1>8, InboxShorter DEF ContactInv
  <2> QED
    BY <1>2, <1>8, <2>1, <2>2 DEF ContactInv
<1>9. CASE tick' = [tick EXCEPT ![c] = "failed"] /\ UNCHANGED <<accepted, sessions, inbox, gone>>
  <2>1. WatchInv'
    BY <1>2, <1>9, WatchKept DEF ContactInv
  <2>2. InboxInv'
    BY <1>2, <1>9, InboxKept DEF ContactInv
  <2> QED
    BY <1>2, <1>9, <2>1, <2>2 DEF ContactInv
<1> QED
  BY <1>7, <1>8, <1>9 DEF consume_handshake, f

-----------------------------------------------------------------------------
(* Init, and what the invariant says                                       *)

IInv == AccountInv /\ ContactInv

LEMMA StartLinks ==
  ASSUME NEW s \in Starts, NEW d \in Range(s)
  PROVE  /\ StartChannels(s, d) \in SUBSET Channel
         /\ Validates(d, StartManifest(s), StartChannels(s, d))
<1>1. Active(StartManifest(s)) = Range(s) /\ Range(s) \subseteq Device
  BY StartSound
<1>2. Len(s) \in Nat \ {0} /\ s[1] \in Range(s) /\ 0 \in 0..MaxSerial
  BY DevicesAssumption, AuthorityAssumption DEF Range
<1>3. \A ch \in StartChannels(s, d) :
        \E x \in Range(s) \ {d} : ch = [peer |-> x, link |-> 0]
  BY <1>2 DEF StartChannels
<1>4. ASSUME NEW ch \in StartChannels(s, d)
      PROVE  ch \in Channel /\ ch.peer \in Range(s) \ {d} /\ ch = [peer |-> ch.peer, link |-> 0]
  BY <1>1, <1>2, <1>3 DEF Channel
<1> QED
  BY <1>1, <1>4 DEF Validates

LEMMA InitInv == Init => IInv
<1> SUFFICES ASSUME Init PROVE IInv
  OBVIOUS
<1>1. PICK s \in Starts :
        /\ manifest = [d \in Device |-> IF d \in Range(s) THEN StartManifest(s) ELSE <<>>]
        /\ channels = [d \in Device |-> IF d \in Range(s) THEN StartChannels(s, d) ELSE {}]
        /\ past = [d \in Device |-> IF d \in Range(s)
             THEN {[manifest |-> IF d \in Range(s) THEN StartManifest(s) ELSE <<>>,
                    channels |-> IF d \in Range(s) THEN StartChannels(s, d) ELSE {}]}
             ELSE {}]
        /\ accepted = [c \in Contact |-> StartManifest(s)]
        /\ serial = Len(s) - 1
  BY DEF Init
<1> DEFINE m == StartManifest(s)
<1>2. /\ Sound(m) /\ Active(m) = Range(s) /\ Known(Last(m)) = Range(s)
      /\ \A i \in 1..Len(m) : m[i].kind # "recovery"
      /\ Range(s) \subseteq Device \ Recovered
  BY StartSound
<1>3. m \in Seq(Transition) /\ m # <<>>
  BY <1>2, SoundFacts
<1>4. \A d \in Range(s) : /\ StartChannels(s, d) \in SUBSET Channel
                          /\ Validates(d, m, StartChannels(s, d))
  BY StartLinks
<1>5. Range(s) # {} /\ Len(s) \in Nat \ {0} /\ Len(s) - 1 <= MaxSerial /\ MaxSerial \in Nat
  BY DevicesAssumption, AuthorityAssumption DEF Range
<1> HIDE DEF m
<1>6. \A d \in Device :
        past[d] = IF d \in Range(s) THEN {[manifest |-> m, channels |-> StartChannels(s, d)]} ELSE {}
  BY <1>1 DEF m
<1>7. Proofs = {m}
  <2>1. \A d \in Device : \A p \in past[d] : p.manifest = m
    <3> TAKE d \in Device
    <3> TAKE p \in past[d]
    <3>1. d \in Range(s) /\ p = [manifest |-> m, channels |-> StartChannels(s, d)]
      BY <1>6
    <3> QED
      BY <3>1
  <2>2. \E d \in Device : past[d] # {}
    BY <1>2, <1>5, <1>6
  <2> QED
    BY <2>1, <2>2 DEF Proofs
<1>8. PastInv
  <2>1. past \in [Device -> SUBSET [manifest: Seq(Transition), channels: SUBSET Channel]]
    <3>1. \A d \in Device : past[d] \in SUBSET [manifest: Seq(Transition), channels: SUBSET Channel]
      <4> TAKE d \in Device
      <4>1. CASE d \in Range(s)
        <5>1. [manifest |-> m, channels |-> StartChannels(s, d)]
                \in [manifest: Seq(Transition), channels: SUBSET Channel]
          BY <1>3, <1>4, <4>1
        <5> QED
          BY <1>6, <4>1, <5>1
      <4>2. CASE d \notin Range(s)
        BY <1>6, <4>2
      <4> QED
        BY <4>1, <4>2
    <3>2. past = [d \in Device |-> past[d]]
      BY <1>1
    <3> QED
      BY <3>1, <3>2
  <2>2. \A d \in Device : \A p \in past[d] : Sound(p.manifest) /\ d \in Active(p.manifest)
    <3> TAKE d \in Device
    <3> TAKE p \in past[d]
    <3>1. d \in Range(s) /\ p = [manifest |-> m, channels |-> StartChannels(s, d)]
      BY <1>6
    <3>2. p.manifest = m
      BY <3>1
    <3> QED
      BY <1>2, <3>1, <3>2
  <2>3. BornOnce(Proofs)
    BY <1>2, <1>7 DEF BornOnce
  <2> QED
    BY <1>2, <1>7, <2>1, <2>2, <2>3 DEF PastInv
<1>9. RowInv
  <2>1. manifest \in [Device -> Seq(Transition)] /\ channels \in [Device -> SUBSET Channel]
    BY <1>1, <1>3, <1>4 DEF m
  <2>2. \A d \in Device : Linked(d) <=> d \in Range(s)
    BY <1>1, <1>3 DEF Linked, m
  <2>3. ASSUME NEW d \in Range(s)
        PROVE  /\ manifest[d] = m /\ channels[d] = StartChannels(s, d)
               /\ [manifest |-> m, channels |-> StartChannels(s, d)] \in past[d]
    BY <1>1, <1>2, <1>6 DEF m
  <2> QED
    BY <1>4, <2>1, <2>2, <2>3 DEF RowInv
<1>10. PendingInv /\ SourceInv /\ TargetInv
  BY DEF Init, PendingInv, SourceInv, TargetInv, MapOn
<1>11. IdInv
  BY <1>1, <1>5 DEF Init, IdInv
<1>12. WatchInv
  BY <1>1, <1>3, <1>7 DEF Init, WatchInv, MapOn, m
<1>13. InboxInv /\ tick \in [Contact -> {"ok", "failed"}]
  BY DevicesAssumption DEF Init, InboxInv
<1> QED
  BY <1>8, <1>9, <1>10, <1>11, <1>12, <1>13 DEF IInv, AccountInv, ContactInv

\* A step of the account that contacts do not see.
LEMMA DeviceStep ==
  ASSUME IInv, NEW d \in Device, NEW x \in Device,
         \/ rename_linked_device(d) \/ begin_device_link(d)
         \/ complete_device_link(d) \/ Restart(d)
         \/ revoke_linked_device(d, x)
         \/ approve_device_authority_request(x, d) \/ approve_device_link_request(x, d)
         \/ accept_device_link(x, d) \/ approve_device_link(d, x) \/ ResealLink(d, x)
         \/ \E p \in past[x] : import_device_sync(d, x, p)
         \/ \E p \in past[x] : restore_authority_backup(d, p.manifest)
         \/ \E a \in approvals :
              accept_device_authority_approval(d, a) \/ accept_device_link_approval(d, a)
  PROVE  IInv'
<1> SUFFICES /\ UNCHANGED contact_vars /\ AccountInv'
             /\ \A y \in Device : past[y] \subseteq past'[y]
  BY ContactKept DEF IInv
<1> USE DEF IInv
<1>1. CASE rename_linked_device(d)
  <2>1. UNCHANGED contact_vars
    BY <1>1 DEF rename_linked_device, Propose
  <2> QED
    BY <1>1, <2>1, RenameStep
<1>2. CASE begin_device_link(d)
  <2>1. UNCHANGED contact_vars
    BY <1>2 DEF begin_device_link
  <2> QED
    BY <1>2, <2>1, BeginLinkStep
<1>3. CASE complete_device_link(d)
  <2>1. UNCHANGED contact_vars
    BY <1>3 DEF complete_device_link
  <2> QED
    BY <1>3, <2>1, CompleteLinkStep
<1>4. CASE Restart(d)
  <2>1. UNCHANGED contact_vars
    BY <1>4 DEF Restart
  <2>2. /\ pending' = [pending EXCEPT ![d] = None] /\ source' = [source EXCEPT ![d] = None]
        /\ target' = [target EXCEPT ![d] = None]
        /\ UNCHANGED <<manifest, channels, approvals, serial, past>>
    BY <1>4 DEF Restart
  <2> QED
    BY <2>1, <2>2, ForgetStep
<1>5. CASE revoke_linked_device(d, x)
  <2>1. UNCHANGED contact_vars
    BY <1>5 DEF revoke_linked_device, Propose
  <2> QED
    BY <1>5, <2>1, RevokeStep
<1>6. CASE approve_device_authority_request(x, d)
  <2>1. pending[d] # None /\ Approve(x, pending[d].parent, pending[d].transition)
    BY <1>6 DEF approve_device_authority_request
  <2>2. UNCHANGED contact_vars
    BY <2>1 DEF Approve
  <2>3. pending[d].transition.id \in 1..MaxSerial
    BY <2>1 DEF AccountInv, PendingInv
  <2> QED
    BY <2>1, <2>2, <2>3, ApproveStep
<1>7. CASE approve_device_link_request(x, d)
  <2>1. Prepared(d) /\ Approve(x, source[d].parent, source[d].prepared.transition)
    BY <1>7 DEF approve_device_link_request
  <2>2. UNCHANGED contact_vars
    BY <2>1 DEF Approve
  <2>3. source[d].prepared.transition.id \in 1..MaxSerial
    BY <2>1 DEF AccountInv, SourceInv, PreparedInv, Prepared
  <2> QED
    BY <2>1, <2>2, <2>3, ApproveStep
<1>8. CASE accept_device_link(x, d)
  <2>1. UNCHANGED contact_vars
    BY <1>8 DEF accept_device_link
  <2> QED
    BY <1>8, <2>1, AcceptLinkStep
<1>9. CASE approve_device_link(d, x)
  <2>1. UNCHANGED contact_vars
    BY <1>9 DEF approve_device_link
  <2> QED
    BY <1>9, <2>1, ApproveLinkStep
<1>10. CASE ResealLink(d, x)
  <2>1. UNCHANGED contact_vars
    BY <1>10 DEF ResealLink
  <2>2. /\ source' = [source EXCEPT ![d] = None] /\ UNCHANGED <<pending, target>>
        /\ UNCHANGED <<manifest, channels, approvals, serial, past>>
    BY <1>10 DEF ResealLink
  <2> QED
    BY <2>1, <2>2, ForgetStep
<1>11. ASSUME NEW p \in past[x], import_device_sync(d, x, p)
       PROVE  /\ UNCHANGED contact_vars /\ AccountInv'
              /\ \A y \in Device : past[y] \subseteq past'[y]
  <2>1. UNCHANGED contact_vars
    BY <1>11 DEF import_device_sync
  <2> QED
    BY <1>11, <2>1, ImportStep
<1>12. ASSUME NEW p \in past[x], restore_authority_backup(d, p.manifest)
       PROVE  /\ UNCHANGED contact_vars /\ AccountInv'
              /\ \A y \in Device : past[y] \subseteq past'[y]
  <2>1. UNCHANGED contact_vars
    BY <1>12 DEF restore_authority_backup
  <2> QED
    BY <1>12, <2>1, RestoreStep
<1>13. ASSUME NEW a \in approvals, accept_device_authority_approval(d, a)
       PROVE  /\ UNCHANGED contact_vars /\ AccountInv'
              /\ \A y \in Device : past[y] \subseteq past'[y]
  <2>1. UNCHANGED contact_vars
    BY <1>13 DEF accept_device_authority_approval
  <2> QED
    BY <1>13, <2>1, AcceptApprovalStep
<1>14. ASSUME NEW a \in approvals, accept_device_link_approval(d, a)
       PROVE  /\ UNCHANGED contact_vars /\ AccountInv'
              /\ \A y \in Device : past[y] \subseteq past'[y]
  <2>1. UNCHANGED contact_vars
    BY <1>14 DEF accept_device_link_approval
  <2> QED
    BY <1>14, <2>1, AcceptLinkApprovalStep
<1> QED
  BY <1>1, <1>2, <1>3, <1>4, <1>5, <1>6, <1>7, <1>8, <1>9, <1>10, <1>11, <1>12, <1>13, <1>14

LEMMA NextInv == IInv /\ [Next]_vars => IInv'
<1> SUFFICES ASSUME IInv, [Next]_vars PROVE IInv'
  OBVIOUS
<1>1. ASSUME NEW c \in Contact, NEW d \in Device, NEW p \in past[d],
             add_contact(c, d, p) \/ StageFlight(c, d, p)
      PROVE  IInv'
  BY <1>1, AddContactStep, StageFlightStep DEF IInv
<1>2. ASSUME NEW c \in Contact, NEW d \in Device, prepare_session(c, d) PROVE IInv'
  BY <1>2, PrepareSessionStep DEF IInv
<1>3. ASSUME NEW c \in Contact, consume_handshake(c) \/ ExpirePending(c) PROVE IInv'
  BY <1>3, ConsumeStep, ExpirePendingStep DEF IInv
<1>4. CASE UNCHANGED vars
  <2>1. UNCHANGED <<device_vars, contact_vars>>
    BY <1>4 DEF vars, device_vars, contact_vars
  <2> QED
    BY <2>1, AccountStays, ContactKept DEF IInv
<1> QED
  BY <1>1, <1>2, <1>3, <1>4, DeviceStep DEF Next

\* The last state of a proof is valid.
LEMMA LastValid ==
  ASSUME NEW m, Sound(m)
  PROVE  validate_state(Last(m))
<1>1. /\ Len(m) \in Nat \ {0} /\ Last(m) = m[Len(m)]
      /\ \A i \in 2..Len(m) : verify_transition(m[i - 1], m[i], TRUE)
  BY SoundFacts
<1>2. CASE Len(m) = 1
  BY <1>1, <1>2 DEF Sound, verify, verify_genesis
<1>3. CASE Len(m) # 1
  <2> DEFINE n == Len(m)
  <2>0. n \in Nat \ {0} /\ n # 1
    BY <1>1, <1>3
  <2> HIDE DEF n
  <2>2. n \in 2..n
    BY <2>0
  <2>1. Len(m) \in 2..Len(m)
    BY <2>2 DEF n
  <2> QED
    BY <1>1, <2>1 DEF verify_transition
<1> QED
  BY <1>2, <1>3

\* The invariant says what the runs check.
LEMMA InvSays == IInv => TypeOK /\ ForksShareASigner /\ RevokedStaysOut
<1> SUFFICES ASSUME IInv PROVE TypeOK /\ ForksShareASigner /\ RevokedStaysOut
  OBVIOUS
<1>1. ForksShareASigner
  BY ForksMeet DEF IInv, AccountInv
<1>2. RevokedStaysOut
  <2> SUFFICES ASSUME NEW c \in Contact, NEW g \in gone[c], g.device \in Active(accepted[c])
               PROVE  ForgottenSince(accepted[c], g)
    BY DEF RevokedStaysOut, IInv, ContactInv, WatchInv
  <2>1. Out(accepted[c], g)
    BY DEF IInv, ContactInv, WatchInv, GoneInv
  <2>2. Sound(accepted[c])
    BY ProofsSound DEF IInv, AccountInv, ContactInv, WatchInv
  <2>3. Last(accepted[c]).active \cap Last(accepted[c]).revoked = {}
    BY <2>2, LastValid DEF validate_state
  <2> QED
    BY <2>1, <2>3 DEF Out, Active
<1>3. TypeOK
  <2>1. \A d \in Device : Linked(d) => manifest[d] \in Seq(Transition) /\ verify(manifest[d])
    BY ManifestIsProof DEF IInv, AccountInv, Sound
  <2>2. /\ \A d \in Device : channels[d] \subseteq Channel
        /\ \A d \in Device : Linked(d) =>
             /\ Validates(d, manifest[d], channels[d])
             /\ [manifest |-> manifest[d], channels |-> channels[d]] \in past[d]
    BY DEF IInv, AccountInv, RowInv
  <2>3. /\ \A d \in Device : pending[d] # None =>
             pending[d].parent \in Proofs /\ pending[d].transition \in Transition
        /\ \A d \in Device : source[d] # None => source[d].parent \in Proofs
        /\ \A d \in Device : target[d] # None => target[d].parent \in Proofs /\ ~ Linked(d)
    BY DEF IInv, AccountInv, PendingInv, SourceInv, TargetInv
  <2>4. approvals \subseteq [id: 1..MaxSerial, by: Device] /\ serial \in 0..MaxSerial
    BY DEF IInv, AccountInv, IdInv
  <2>5. gone \in [Contact -> SUBSET [device: Device, epoch: Nat]]
    <3>1. \A c \in Contact : gone[c] \in SUBSET [device: Device, epoch: Nat]
      BY DEF IInv, ContactInv, WatchInv, GoneInv
    <3>2. gone = [c \in Contact |-> gone[c]]
      BY DEF IInv, ContactInv, WatchInv, MapOn
    <3> QED
      BY <3>1, <3>2
  <2>6. /\ \A c \in Contact : accepted[c] \in Proofs
        /\ sessions \in [Contact -> SUBSET Device]
        /\ \A c \in Contact : Len(inbox[c]) <= MaxInbox
        /\ tick \in [Contact -> {"ok", "failed"}]
    BY DEF IInv, ContactInv, WatchInv, InboxInv
  <2> QED
    BY <2>1, <2>2, <2>3, <2>4, <2>5, <2>6 DEF TypeOK
<1> QED
  BY <1>1, <1>2, <1>3

-----------------------------------------------------------------------------
(* Theorems                                                                *)

\* In every reachable state the proofs verify and the rows are ones the store takes
\* (DeviceAuthorityStateRecord::validate), for any account and any limits.
THEOREM TypeCorrect == Spec => []TypeOK
  BY InitInv, NextInv, InvSays, PTL DEF Spec

\* No account splits between two sets of devices that each signed one side of a
\* fork only: the quorum of verify_transition makes any two decisions share a signer.
THEOREM ForksShareASignerHolds == Spec => []ForksShareASigner
  BY InitInv, NextInv, InvSays, PTL DEF Spec

\* At a contact a revoked or superseded device stays out for good, unless an account
\* recovered without it links it anew (validate_contact_device_manifest).
THEOREM RevokedStaysOutHolds == Spec => []RevokedStaysOut
  BY InitInv, NextInv, InvSays, PTL DEF Spec

=============================================================================
