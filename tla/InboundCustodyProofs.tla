------------------------ MODULE InboundCustodyProofs ------------------------
(***************************************************************************)
(* Proofs about InboundCustody, for any envelopes, quotas and limits.      *)
(*                                                                         *)
(* First the types, with the keys and the quota of the pending table and   *)
(* the rows that work relies on; then everything that rests on one fact    *)
(* about every step: what this endpoint holds durably (a pending row or a  *)
(* seen row) is still held afterwards.                                     *)
(***************************************************************************)
EXTENDS InboundCustody, FiniteSetTheorems, SequenceTheorems, TLAPS

Rows == [id : Envelopes, first_seen : 0..MaxTime]

\* The work of a tick and its stash name an envelope once, and only envelopes
\* that were gathered; between ticks there is none.
WorkOnce ==
  /\ \A i, j \in DOMAIN work : work[i].id = work[j].id => i = j
  /\ \A i, j \in DOMAIN stash : stash[i].id = stash[j].id => i = j
  /\ \A i \in DOMAIN work, j \in DOMAIN stash : work[i].id # stash[j].id
  /\ \A s \in {work, stash} : \A i \in DOMAIN s : s[i].id \in gathered
  /\ phase = "idle" => work = <<>> /\ stash = <<>>

TypeInv == TypeOK /\ WorkOnce

-----------------------------------------------------------------------------
(* Positions of a sequence.                                                *)

\* The i-th element of a finite set of numbers is one of them, each is the i-th
\* for some i, and the numbering is one to one.
LEMMA NthIsNumbering ==
  ASSUME NEW K \in SUBSET Nat, IsFiniteSet(K)
  PROVE  /\ Cardinality(K) \in Nat
         /\ \A i \in 1..Cardinality(K) : Nth(K, i) \in K
         /\ \A k \in K : \E i \in 1..Cardinality(K) : Nth(K, i) = k
         /\ \A i, j \in 1..Cardinality(K) : Nth(K, i) = Nth(K, j) => i = j
<1> DEFINE n == Cardinality(K)
<1> DEFINE upto(k) == {j \in K : j <= k}
<1> DEFINE rank == [k \in K |-> Cardinality(upto(k))]
<1>1. n \in Nat
  BY FS_CardinalityType
<1>2. ASSUME NEW k \in K
      PROVE  /\ IsFiniteSet(upto(k)) /\ Cardinality(upto(k)) \in 1..n
  <2>1. upto(k) \in SUBSET K
    OBVIOUS
  <2>2. IsFiniteSet(upto(k)) /\ Cardinality(upto(k)) <= n
    BY <2>1, FS_Subset
  <2>3. k \in upto(k)
    OBVIOUS
  <2>4. Cardinality(upto(k)) # 0 /\ Cardinality(upto(k)) \in Nat
    BY <2>2, <2>3, FS_EmptySet, FS_CardinalityType
  <2> QED
    BY <1>1, <2>2, <2>4
<1>3. ASSUME NEW k \in K, NEW l \in K, k < l
      PROVE  Cardinality(upto(k)) # Cardinality(upto(l))
  <2>0. ASSUME NEW j \in upto(k) PROVE j \in upto(l)
    <3>1. j \in K /\ j \in Nat /\ k \in Nat /\ l \in Nat /\ j <= k
      OBVIOUS
    <3>2. j <= l
      BY <1>3, <3>1
    <3> QED
      BY <3>1, <3>2
  <2>1. upto(k) \in SUBSET upto(l)
    BY <2>0
  <2>2. l \in upto(l) /\ l \notin upto(k)
    BY <1>3
  <2>3. IsFiniteSet(upto(l)) /\ upto(l) # upto(k)
    BY <1>2, <2>2
  <2> HIDE DEF upto
  <2> QED
    BY <2>1, <2>3, FS_Subset
<1>4. rank \in Injection(K, 1..n)
  <2>1. rank \in [K -> 1..n]
    BY <1>2
  <2>2. ASSUME NEW k \in K, NEW l \in K, k # l PROVE rank[k] # rank[l]
    <3>1. k < l \/ l < k
      BY <2>2
    <3> QED
      BY <1>3, <3>1
  <2> QED
    BY <2>1, <2>2 DEF Injection, IsInjective
<1>5. rank \in Surjection(K, 1..n)
  <2>1. IsFiniteSet(1..n) /\ Cardinality(1..n) = n
    BY <1>1, FS_Interval
  <2> QED
    BY <1>4, <2>1, FS_Injection
<1>6. ASSUME NEW i \in 1..n PROVE Nth(K, i) \in K /\ rank[Nth(K, i)] = i
  <2>1. \E k \in K : Cardinality(upto(k)) = i
    BY <1>5 DEF Surjection
  <2>2. Nth(K, i) \in K /\ Cardinality({j \in K : j <= Nth(K, i)}) = i
    BY <2>1 DEF Nth
  <2> QED
    BY <2>2
<1>7. ASSUME NEW k \in K PROVE \E i \in 1..n : Nth(K, i) = k
  <2>1. rank[k] \in 1..n
    BY <1>4 DEF Injection
  <2>2. rank[Nth(K, rank[k])] = rank[k] /\ Nth(K, rank[k]) \in K
    BY <1>6, <2>1
  <2>3. Nth(K, rank[k]) = k
    BY <1>4, <2>2 DEF Injection, IsInjective
  <2> QED
    BY <2>1, <2>3
<1> QED
  BY <1>1, <1>6, <1>7

\* Selecting positions of a sequence.
LEMMA AtPositionsFacts ==
  ASSUME NEW S, NEW s \in Seq(S), NEW K \in SUBSET DOMAIN s,
         NEW t, t = AtPositions(s, K)
  PROVE  /\ t \in Seq(S) /\ Len(t) <= Len(s)
         /\ \A i \in DOMAIN t : Nth(K, i) \in K /\ t[i] = s[Nth(K, i)]
         /\ \A k \in K : \E i \in DOMAIN t : t[i] = s[k]
         /\ \A i, j \in DOMAIN t : Nth(K, i) = Nth(K, j) => i = j
<1>1. DOMAIN s = 1..Len(s) /\ Len(s) \in Nat
  OBVIOUS
<1>2. IsFiniteSet(DOMAIN s) /\ Cardinality(DOMAIN s) = Len(s)
  <2>1. /\ IsFiniteSet(1..Len(s))
        /\ Cardinality(1..Len(s)) = IF 1 > Len(s) THEN 0 ELSE Len(s) - 1 + 1
    BY <1>1, FS_Interval
  <2> QED
    BY <1>1, <2>1
<1>3. IsFiniteSet(K) /\ Cardinality(K) <= Len(s) /\ K \in SUBSET Nat
  BY <1>1, <1>2, FS_Subset
<1>4. /\ Cardinality(K) \in Nat
      /\ \A i \in 1..Cardinality(K) : Nth(K, i) \in K
      /\ \A k \in K : \E i \in 1..Cardinality(K) : Nth(K, i) = k
      /\ \A i, j \in 1..Cardinality(K) : Nth(K, i) = Nth(K, j) => i = j
  BY <1>3, NthIsNumbering
<1>5. t = [i \in 1..Cardinality(K) |-> s[Nth(K, i)]]
  BY DEF AtPositions
<1>6. \A i \in 1..Cardinality(K) : s[Nth(K, i)] \in S
  BY <1>4
<1>7. t \in [1..Cardinality(K) -> S]
  BY <1>5, <1>6
<1>8. t \in Seq(S)
  BY <1>4, <1>7
<1>9. DOMAIN t = 1..Cardinality(K) /\ Len(t) = Cardinality(K)
  BY <1>4, <1>7, <1>8
<1> HIDE DEF Nth
<1> QED
  BY <1>3, <1>4, <1>5, <1>8, <1>9

-----------------------------------------------------------------------------
(* The pending table.                                                      *)

\* Deleting rows deletes exactly the rows named, and keeps keys and quota.
LEMMA WithoutIds ==
  ASSUME pending \in Seq(Rows), NEW ids, pending' = Without(ids)
  PROVE  /\ pending' \in Seq(Rows)
         /\ PendingIds' = PendingIds \ ids
         /\ PendingBounded => PendingBounded'
<1> DEFINE K == {i \in DOMAIN pending : pending[i].id \notin ids}
<1>1. /\ pending' \in Seq(Rows) /\ Len(pending') <= Len(pending)
      /\ \A i \in DOMAIN pending' : Nth(K, i) \in K /\ pending'[i] = pending[Nth(K, i)]
      /\ \A k \in K : \E i \in DOMAIN pending' : pending'[i] = pending[k]
      /\ \A i, j \in DOMAIN pending' : Nth(K, i) = Nth(K, j) => i = j
  <2>1. K \in SUBSET DOMAIN pending /\ pending' = AtPositions(pending, K)
    BY DEF Without
  <2> HIDE DEF K
  <2> QED
    BY <2>1, AtPositionsFacts
<1>2. PendingIds' = PendingIds \ ids
  <2>1. ASSUME NEW e \in PendingIds' PROVE e \in PendingIds \ ids
    <3>1. PICK i \in DOMAIN pending' : e = pending'[i].id
      BY DEF PendingIds
    <3>2. Nth(K, i) \in DOMAIN pending /\ pending[Nth(K, i)].id = e /\ e \notin ids
      BY <1>1, <3>1
    <3> QED
      BY <3>2 DEF PendingIds
  <2>2. ASSUME NEW e \in PendingIds \ ids PROVE e \in PendingIds'
    <3>1. PICK k \in DOMAIN pending : pending[k].id = e
      BY DEF PendingIds
    <3>2. k \in K
      BY <3>1
    <3>3. PICK i \in DOMAIN pending' : pending'[i] = pending[k]
      BY <1>1, <3>2
    <3> QED
      BY <3>1, <3>3 DEF PendingIds
  <2> QED
    BY <2>1, <2>2
<1>3. ASSUME PendingBounded PROVE PendingBounded'
  <2>1. Len(pending') <= MAX_PENDING_ENVELOPES
    BY <1>1, <1>3, InboundConstants DEF PendingBounded
  <2>2. ASSUME NEW i \in DOMAIN pending', NEW j \in DOMAIN pending', pending'[i].id = pending'[j].id
        PROVE  i = j
    <3>1. Nth(K, i) = Nth(K, j)
      BY <1>1, <1>3, <2>2 DEF PendingBounded
    <3> QED
      BY <1>1, <3>1
  <2> QED
    BY <2>1, <2>2 DEF PendingBounded
<1> QED
  BY <1>1, <1>2, <1>3

\* Staging an envelope adds its row and keeps the others.
LEMMA StagedIds ==
  ASSUME pending \in Seq(Rows), now \in 0..MaxTime, NEW id \in Envelopes, pending' = Staged(id)
  PROVE  /\ pending' \in Seq(Rows)
         /\ PendingIds' = PendingIds \cup {id}
         /\ PendingBounded /\ ~PendingQuota(id) => PendingBounded'
<1>1. CASE id \in PendingIds
  BY <1>1 DEF Staged, PendingIds, PendingBounded
<1>2. CASE id \notin PendingIds
  <2> DEFINE row == [id |-> id, first_seen |-> now]
  <2>1. pending' = Append(pending, row)
    BY <1>2 DEF Staged, Appended
  <2>2. row \in Rows /\ row.id = id
    BY DEF Rows
  <2> HIDE DEF row
  <2>3. /\ pending' \in Seq(Rows)
        /\ Len(pending') = Len(pending) + 1
        /\ \A i \in 1..Len(pending) : pending'[i] = pending[i]
        /\ pending'[Len(pending) + 1] = row
    BY <2>1, <2>2
  <2>4. DOMAIN pending = 1..Len(pending) /\ DOMAIN pending' = 1..(Len(pending) + 1)
    BY <2>3
  <2>5. PendingIds' = PendingIds \cup {id}
    BY <2>2, <2>3, <2>4 DEF PendingIds
  <2>6. ASSUME PendingBounded, ~PendingQuota(id) PROVE PendingBounded'
    <3>1. Len(pending') <= MAX_PENDING_ENVELOPES
      BY <1>2, <2>3, <2>6, InboundConstants DEF PendingBounded, PendingQuota
    <3>2. \A i \in 1..Len(pending) : pending[i].id # id
      BY <1>2, <2>4 DEF PendingIds
    <3> QED
      BY <2>2, <2>3, <2>4, <2>6, <3>1, <3>2 DEF PendingBounded
  <2> QED
    BY <2>3, <2>5, <2>6
<1> QED
  BY <1>1, <1>2

-----------------------------------------------------------------------------
(* Types, keys, quota, and the rows that work relies on.                   *)

\* An envelope that joins the work of a tick was not gathered before; one that
\* joins it as durable has its row.
LEMMA GatherWork ==
  ASSUME TypeInv, NEW id \in Envelopes, id \notin gathered, NEW d \in BOOLEAN, phase # "idle",
         work' = work \/ work' = Append(work, Entry(id, d)),
         gathered' = gathered \cup {id}, UNCHANGED <<stash, phase>>,
         PendingIds \subseteq PendingIds', d => id \in PendingIds'
  PROVE  work' \in Seq(WorkItems) /\ WorkHasRow' /\ WorkOnce'
<1>0. /\ work \in Seq(WorkItems) /\ stash \in Seq(WorkItems) /\ now \in 0..MaxTime
      /\ WorkHasRow /\ WorkOnce
  BY DEF TypeInv, TypeOK
<1>1. CASE work' = work
  BY <1>0, <1>1 DEF WorkHasRow, WorkOnce
<1>2. CASE work' = Append(work, Entry(id, d))
  <2> DEFINE e == Entry(id, d)
  <2>1. e \in WorkItems /\ e.id = id /\ e.durable = d
    BY <1>0 DEF Entry, WorkItems
  <2> HIDE DEF e
  <2>2. /\ work' \in Seq(WorkItems)
        /\ \A i \in 1..Len(work) : work'[i] = work[i]
        /\ work'[Len(work) + 1] = e
        /\ DOMAIN work = 1..Len(work) /\ DOMAIN work' = 1..(Len(work) + 1) /\ Len(work) \in Nat
    <3>1. work' = Append(work, e)
      BY <1>2 DEF e
    <3> QED
      BY <1>0, <2>1, <3>1
  <2>3. WorkHasRow'
    <3>1. ASSUME NEW i \in DOMAIN work', work'[i].durable PROVE work'[i].id \in PendingIds'
      <4>1. CASE i \in 1..Len(work)
        BY <1>0, <2>2, <3>1, <4>1 DEF WorkHasRow
      <4>2. CASE i = Len(work) + 1
        BY <2>1, <2>2, <3>1, <4>2
      <4> QED
        BY <2>2, <4>1, <4>2
    <3>2. \A i \in DOMAIN stash' : stash'[i].durable => stash'[i].id \in PendingIds'
      BY <1>0 DEF WorkHasRow
    <3> QED
      BY <3>1, <3>2 DEF WorkHasRow
  <2>4. WorkOnce'
    <3>1. \A i \in 1..Len(work) : work[i].id # id
      BY <1>0, <2>2 DEF WorkOnce
    <3>2. \A i \in DOMAIN stash : stash[i].id # id
      BY <1>0 DEF WorkOnce
    <3>3. \A i, j \in DOMAIN work' : work'[i].id = work'[j].id => i = j
      BY <1>0, <2>1, <2>2, <3>1 DEF WorkOnce
    <3>4. \A i \in DOMAIN work', j \in DOMAIN stash' : work'[i].id # stash'[j].id
      BY <1>0, <2>1, <2>2, <3>2 DEF WorkOnce
    <3>5. \A i \in DOMAIN work' : work'[i].id \in gathered'
      BY <1>0, <2>1, <2>2 DEF WorkOnce
    <3> QED
      BY <1>0, <3>3, <3>4, <3>5 DEF WorkOnce
  <2> QED
    BY <2>2, <2>3, <2>4
<1> QED
  BY <1>1, <1>2

\* Consuming the head of the work: no other entry names the envelope whose row
\* may go.
LEMMA ConsumeWork ==
  ASSUME TypeInv, work # <<>>, work' = Tail(work), UNCHANGED <<gathered, phase>>, phase = "consume",
         \/ stash' = stash /\ PendingIds \ {Head(work).id} \subseteq PendingIds'
         \/ stash' = Append(stash, Head(work)) /\ PendingIds \subseteq PendingIds'
  PROVE  /\ work' \in Seq(WorkItems) /\ stash' \in Seq(WorkItems)
         /\ WorkHasRow' /\ WorkOnce'
<1>0. /\ work \in Seq(WorkItems) /\ stash \in Seq(WorkItems)
      /\ WorkHasRow /\ WorkOnce
  BY DEF TypeInv, TypeOK
<1>1. /\ work' \in Seq(WorkItems) /\ Len(work) \in Nat /\ Len(work) >= 1
      /\ DOMAIN work = 1..Len(work) /\ DOMAIN work' = 1..(Len(work) - 1)
      /\ \A i \in 1..(Len(work) - 1) : work'[i] = work[i + 1]
      /\ Head(work) = work[1] /\ Head(work) \in WorkItems
  BY <1>0
<1>2. \A i \in DOMAIN work' : work'[i].id # Head(work).id
  BY <1>0, <1>1 DEF WorkOnce
<1>3. \A i \in DOMAIN stash : stash[i].id # Head(work).id
  BY <1>0, <1>1 DEF WorkOnce
<1>4. \A i \in DOMAIN work' : i + 1 \in DOMAIN work /\ work'[i] = work[i + 1] /\ i \in Nat
  BY <1>1
<1>5. \A i \in DOMAIN work' : work'[i].durable => work'[i].id \in PendingIds'
  BY <1>0, <1>2, <1>4 DEF WorkHasRow
<1>6. /\ \A i, j \in DOMAIN work' : work'[i].id = work'[j].id => i = j
      /\ \A i \in DOMAIN work', j \in DOMAIN stash : work'[i].id # stash[j].id
      /\ \A i \in DOMAIN work' : work'[i].id \in gathered'
  BY <1>0, <1>4 DEF WorkOnce
<1>7. CASE stash' = stash /\ PendingIds \ {Head(work).id} \subseteq PendingIds'
  <2>1. \A i \in DOMAIN stash' : stash'[i].durable => stash'[i].id \in PendingIds'
    BY <1>0, <1>3, <1>7 DEF WorkHasRow
  <2> QED
    BY <1>0, <1>1, <1>5, <1>6, <1>7, <2>1 DEF WorkHasRow, WorkOnce
<1>8. CASE stash' = Append(stash, Head(work)) /\ PendingIds \subseteq PendingIds'
  <2>1. /\ stash' \in Seq(WorkItems) /\ Len(stash) \in Nat
        /\ DOMAIN stash = 1..Len(stash) /\ DOMAIN stash' = 1..(Len(stash) + 1)
        /\ \A i \in 1..Len(stash) : stash'[i] = stash[i]
        /\ stash'[Len(stash) + 1] = work[1]
    BY <1>0, <1>1, <1>8
  <2>2. 1 \in DOMAIN work
    BY <1>1
  <2>3. \A i \in DOMAIN stash' : stash'[i].durable => stash'[i].id \in PendingIds'
    <3>1. \A i \in DOMAIN stash : stash[i].durable => stash[i].id \in PendingIds'
      BY <1>0, <1>8 DEF WorkHasRow
    <3>2. work[1].durable => work[1].id \in PendingIds'
      BY <1>0, <1>8, <2>2 DEF WorkHasRow
    <3> QED
      BY <2>1, <3>1, <3>2
  <2>4. \A i, j \in DOMAIN stash' : stash'[i].id = stash'[j].id => i = j
    <3>1. \A i, j \in DOMAIN stash : stash[i].id = stash[j].id => i = j
      BY <1>0 DEF WorkOnce
    <3>2. \A i \in DOMAIN stash : stash[i].id # work[1].id
      BY <1>1, <1>3
    <3> QED
      BY <2>1, <3>1, <3>2
  <2>5. \A i \in DOMAIN work', j \in DOMAIN stash' : work'[i].id # stash'[j].id
    BY <1>1, <1>2, <1>6, <2>1
  <2>6. \A i \in DOMAIN stash' : stash'[i].id \in gathered'
    BY <1>0, <2>1, <2>2 DEF WorkOnce
  <2> QED
    BY <1>1, <1>5, <1>6, <2>1, <2>3, <2>4, <2>5, <2>6 DEF WorkHasRow, WorkOnce
<1> QED
  BY <1>7, <1>8

\* What has expired leaves the work together with its row; what stays keeps it.
LEMMA ExpireWorkStep ==
  ASSUME TypeInv, ExpireWork
  PROVE  TypeInv'
<1> DEFINE old == {i \in DOMAIN work : Expired(work[i])}
<1> DEFINE gone == {work[i].id : i \in {j \in old : work[j].durable}}
<1> DEFINE kept == DOMAIN work \ old
<1>0. /\ work \in Seq(WorkItems) /\ stash \in Seq(WorkItems) /\ pending \in Seq(Rows)
      /\ WorkHasRow /\ WorkOnce /\ PendingBounded
  BY DEF TypeInv, TypeOK, Rows
<1>1. /\ pending' = Without(gone) /\ work' = AtPositions(work, kept)
      /\ seen' = seen \cup {work[i].id : i \in old}
      /\ UNCHANGED <<receipt_replay, receipts, controls, applied, offered, held, damaged,
                     partials, wake, established, stash, gathered, durable_gathered, reply,
                     now, faults>>
      /\ phase' = "consume"
  BY DEF ExpireWork
<1>2. pending' \in Seq(Rows) /\ PendingIds' = PendingIds \ gone /\ PendingBounded'
  BY <1>0, <1>1, WithoutIds
<1>3. /\ work' \in Seq(WorkItems)
      /\ \A i \in DOMAIN work' : Nth(kept, i) \in kept /\ work'[i] = work[Nth(kept, i)]
      /\ \A i, j \in DOMAIN work' : Nth(kept, i) = Nth(kept, j) => i = j
  <2>1. kept \in SUBSET DOMAIN work
    OBVIOUS
  <2> HIDE DEF kept
  <2> QED
    BY <1>0, <1>1, <2>1, AtPositionsFacts
<1>4. \A e \in gone : \E i \in old : work[i].id = e
  OBVIOUS
<1>5. ASSUME NEW i \in DOMAIN work', work'[i].durable PROVE work'[i].id \in PendingIds'
  <2>1. PICK k \in DOMAIN work : k \notin old /\ work'[i] = work[k]
    BY <1>3
  <2>2. work[k].id \in PendingIds
    BY <1>0, <1>5, <2>1 DEF WorkHasRow
  <2>3. work[k].id \notin gone
    BY <1>0, <1>4, <2>1 DEF WorkOnce
  <2> QED
    BY <1>2, <2>1, <2>2, <2>3
<1>6. ASSUME NEW i \in DOMAIN stash', stash'[i].durable PROVE stash'[i].id \in PendingIds'
  <2>1. stash[i].id \in PendingIds /\ stash' = stash
    BY <1>0, <1>1, <1>6 DEF WorkHasRow
  <2>2. stash[i].id \notin gone
    BY <1>0, <1>1, <1>4, <1>6 DEF WorkOnce
  <2> QED
    BY <1>2, <2>1, <2>2
<1>7. WorkHasRow'
  BY <1>5, <1>6 DEF WorkHasRow
<1>8. WorkOnce'
  <2>1. \A i \in DOMAIN work' : Nth(kept, i) \in DOMAIN work /\ work'[i] = work[Nth(kept, i)]
    BY <1>3
  <2> HIDE DEF kept, old, gone
  <2>2. \A i, j \in DOMAIN work' : work'[i].id = work'[j].id => i = j
    BY <1>0, <1>3, <2>1 DEF WorkOnce
  <2>3. \A i \in DOMAIN work', j \in DOMAIN stash' : work'[i].id # stash'[j].id
    BY <1>0, <1>1, <2>1 DEF WorkOnce
  <2>4. \A i \in DOMAIN work' : work'[i].id \in gathered'
    BY <1>0, <1>1, <2>1 DEF WorkOnce
  <2> QED
    BY <1>0, <1>1, <2>2, <2>3, <2>4 DEF WorkOnce
<1>9. seen' \subseteq Envelopes
  <2>1. \A i \in DOMAIN work : work[i].id \in Envelopes
    BY <1>0 DEF WorkOnce, TypeInv, TypeOK
  <2> QED
    BY <1>1, <2>1 DEF TypeInv, TypeOK
<1> HIDE DEF old, gone, kept
<1> QED
  BY <1>1, <1>2, <1>3, <1>7, <1>8, <1>9 DEF TypeInv, TypeOK, Rows

\* A commit writes what the columns may hold.
LEMMA CommitTypes ==
  ASSUME TypeInv, NEW id \in Envelopes, NEW durable, NEW r, Commit(id, durable, r)
  PROVE  /\ seen' \subseteq Envelopes /\ receipts' \subseteq Envelopes /\ controls' \subseteq Envelopes
         /\ receipt_replay' \subseteq [id : Envelopes, at : 0..MaxTime]
         /\ applied' \in [Envelopes -> Nat] /\ established' \in BOOLEAN
<1>1. /\ seen \subseteq Envelopes /\ receipts \subseteq Envelopes /\ controls \subseteq Envelopes
      /\ receipt_replay \subseteq [id : Envelopes, at : 0..MaxTime]
      /\ applied \in [Envelopes -> Nat] /\ now \in 0..MaxTime
  BY DEF TypeInv, TypeOK
<1>2. seen' \subseteq Envelopes /\ receipts' \subseteq Envelopes /\ controls' \subseteq Envelopes
  BY <1>1 DEF Commit, SeenAfter
<1>3. applied' \in [Envelopes -> Nat]
  BY <1>1 DEF Commit
<1>4. receipt_replay' \subseteq [id : Envelopes, at : 0..MaxTime]
  <2>1. [id |-> id, at |-> now] \in [id : Envelopes, at : 0..MaxTime]
    BY <1>1
  <2> QED
    BY <1>1, <2>1 DEF Commit
<1>5. established' \in BOOLEAN
  BY DEF Commit
<1> QED
  BY <1>2, <1>3, <1>4, <1>5

\* The answer owed to a next hop.
LEMMA AnswerTypes ==
  ASSUME NEW id \in Envelopes, NEW custody, NEW accepted \in BOOLEAN, Answer(id, custody, accepted)
  PROVE  reply' \subseteq [id : Envelopes, accepted : BOOLEAN]
  BY DEF Answer

LEMMA ArriveTypes ==
  ASSUME TypeInv, NEW id \in Envelopes, Arrive(id)
  PROVE  TypeInv'
<1>0. /\ work \in Seq(WorkItems) /\ stash \in Seq(WorkItems) /\ pending \in Seq(Rows)
      /\ now \in 0..MaxTime /\ WorkHasRow /\ WorkOnce /\ PendingBounded
      /\ gathered \subseteq Envelopes /\ durable_gathered \subseteq gathered
  BY DEF TypeInv, TypeOK, Rows
<1>1. PICK custody \in BOOLEAN, direct \in BOOLEAN :
        \/ ArriveAgain(id, custody, direct) \/ ArriveFragment(id, custody)
        \/ ArriveComplete(id, custody, direct)
        \/ custody /\ direct /\ ArriveIntroduction(id)
        \/ ArriveTransit(id)
  BY DEF Arrive
<1>2. CASE ArriveAgain(id, custody, direct)
  <2>1. UNCHANGED <<store, phase, wake, work, stash, gathered, durable_gathered, established,
                    held, damaged, partials, now, faults, offered>>
    BY <1>2 DEF ArriveAgain
  <2>2. \E ok \in BOOLEAN : Answer(id, custody, ok)
    BY <1>2 DEF ArriveAgain
  <2>3. reply' \subseteq [id : Envelopes, accepted : BOOLEAN]
    BY <2>2, AnswerTypes
  <2>4. WorkHasRow' /\ WorkOnce' /\ PendingBounded'
    BY <1>0, <2>1 DEF WorkHasRow, WorkOnce, PendingBounded, PendingIds, store
  <2> QED
    BY <2>1, <2>3, <2>4 DEF TypeInv, TypeOK, store
<1>3. CASE ArriveFragment(id, custody)
  <2>1. /\ UNCHANGED <<store, phase, wake, stash, durable_gathered, established,
                       held, damaged, partials, now, faults, offered>>
        /\ gathered' = gathered \cup {id} /\ id \notin gathered /\ phase # "idle"
        /\ Answer(id, custody, FALSE)
        /\ work' = work \/ work' = Append(work, Entry(id, FALSE))
    BY <1>3 DEF ArriveFragment, Receiving
  <2>2. reply' \subseteq [id : Envelopes, accepted : BOOLEAN]
    BY <2>1, AnswerTypes
  <2>3. PendingIds' = PendingIds /\ PendingBounded'
    BY <1>0, <2>1 DEF PendingBounded, PendingIds, store
  <2>4. work' \in Seq(WorkItems) /\ WorkHasRow' /\ WorkOnce'
    BY <2>1, <2>3, GatherWork
  <2> QED
    BY <2>1, <2>2, <2>3, <2>4 DEF TypeInv, TypeOK, store
<1>4. CASE ArriveComplete(id, custody, direct)
  <2>1. /\ UNCHANGED <<seen, receipt_replay, controls, receipts, applied,
                       phase, wake, stash, established, held, damaged, partials, now, faults, offered>>
        /\ gathered' = gathered \cup {id} /\ id \notin gathered /\ phase # "idle"
    BY <1>4 DEF ArriveComplete, Receiving
  <2>2. CASE Answer(id, custody, FALSE) /\ UNCHANGED <<pending, work, durable_gathered>>
    <3>1. reply' \subseteq [id : Envelopes, accepted : BOOLEAN]
      BY <2>2, AnswerTypes
    <3>2. PendingIds' = PendingIds /\ PendingBounded'
      BY <1>0, <2>2 DEF PendingBounded, PendingIds
    <3>3. work' \in Seq(WorkItems) /\ WorkHasRow' /\ WorkOnce'
      BY <2>1, <2>2, <3>2, GatherWork
    <3> QED
      BY <2>1, <2>2, <3>1, <3>2, <3>3 DEF TypeInv, TypeOK
  <2>3. CASE /\ ~PendingQuota(id) /\ pending' = Staged(id)
             /\ durable_gathered' = durable_gathered \cup {id}
             /\ Answer(id, custody, TRUE)
             /\ work' = IF Len(work) < WorkLimit THEN Append(work, Entry(id, TRUE)) ELSE work
    <3>1. reply' \subseteq [id : Envelopes, accepted : BOOLEAN]
      BY <2>3, AnswerTypes
    <3>2. pending' \in Seq(Rows) /\ PendingIds' = PendingIds \cup {id} /\ PendingBounded'
      BY <1>0, <2>3, StagedIds
    <3>3. work' = work \/ work' = Append(work, Entry(id, TRUE))
      BY <2>3
    <3>4. work' \in Seq(WorkItems) /\ WorkHasRow' /\ WorkOnce'
      BY <2>1, <3>2, <3>3, GatherWork
    <3> QED
      BY <2>1, <2>3, <3>1, <3>2, <3>4 DEF TypeInv, TypeOK, Rows
  <2> QED
    BY <1>4, <2>2, <2>3 DEF ArriveComplete
<1>5. CASE ArriveIntroduction(id)
  <2>1. /\ UNCHANGED <<pending, phase, wake, work, stash, held, damaged, partials, now, faults, offered>>
        /\ gathered' = gathered \cup {id} /\ id \notin gathered /\ phase # "idle"
    BY <1>5 DEF ArriveIntroduction, Receiving, store
  <2>2. PendingIds' = PendingIds /\ PendingBounded'
    BY <1>0, <2>1 DEF PendingBounded, PendingIds
  <2>3. work' \in Seq(WorkItems) /\ WorkHasRow' /\ WorkOnce'
    BY <2>1, <2>2, GatherWork
  <2>4. \E ok \in BOOLEAN : Answer(id, TRUE, ok)
    BY <1>5 DEF ArriveIntroduction
  <2>5. reply' \subseteq [id : Envelopes, accepted : BOOLEAN]
    BY <2>4, AnswerTypes
  <2>6. durable_gathered' = durable_gathered \/ durable_gathered' = durable_gathered \cup {id}
    BY <1>5 DEF ArriveIntroduction
  <2>7. /\ seen' \subseteq Envelopes /\ receipts' \subseteq Envelopes /\ controls' \subseteq Envelopes
        /\ receipt_replay' \subseteq [id : Envelopes, at : 0..MaxTime]
        /\ applied' \in [Envelopes -> Nat] /\ established' \in BOOLEAN
    <3>1. CASE UNCHANGED <<store, established>>
      BY <3>1 DEF TypeInv, TypeOK, store
    <3>2. ASSUME NEW r \in Outcomes(id), Commit(id, FALSE, r) PROVE  /\ seen' \subseteq Envelopes /\ receipts' \subseteq Envelopes /\ controls' \subseteq Envelopes
                 /\ receipt_replay' \subseteq [id : Envelopes, at : 0..MaxTime]
                 /\ applied' \in [Envelopes -> Nat] /\ established' \in BOOLEAN
      BY <3>2, CommitTypes
    <3> QED
      BY <1>5, <3>1, <3>2 DEF ArriveIntroduction
  <2> QED
    BY <2>1, <2>2, <2>3, <2>5, <2>6, <2>7 DEF TypeInv, TypeOK
<1>6. CASE ArriveTransit(id)
  <2>1. /\ UNCHANGED <<seen, receipt_replay, controls, receipts, applied, phase, wake, stash,
                       durable_gathered, established, reply, held, damaged, partials, now, faults, offered>>
        /\ gathered' = gathered \cup {id} /\ id \notin gathered /\ phase # "idle"
    BY <1>6 DEF ArriveTransit, Receiving
  <2>2. CASE UNCHANGED <<pending, work>>
    <3>1. PendingIds' = PendingIds /\ PendingBounded'
      BY <1>0, <2>2 DEF PendingBounded, PendingIds
    <3>2. work' \in Seq(WorkItems) /\ WorkHasRow' /\ WorkOnce'
      BY <2>1, <2>2, <3>1, GatherWork
    <3> QED
      BY <2>1, <2>2, <3>1, <3>2 DEF TypeInv, TypeOK
  <2>3. CASE /\ ~PendingQuota(id) /\ pending' = Staged(id)
             /\ work' = IF Len(work) < WorkLimit THEN Append(work, Entry(id, TRUE)) ELSE work
    <3>1. pending' \in Seq(Rows) /\ PendingIds' = PendingIds \cup {id} /\ PendingBounded'
      BY <1>0, <2>3, StagedIds
    <3>2. work' = work \/ work' = Append(work, Entry(id, TRUE))
      BY <2>3
    <3>3. work' \in Seq(WorkItems) /\ WorkHasRow' /\ WorkOnce'
      BY <2>1, <3>1, <3>2, GatherWork
    <3> QED
      BY <2>1, <2>3, <3>1, <3>3 DEF TypeInv, TypeOK, Rows
  <2> QED
    BY <1>6, <2>2, <2>3 DEF ArriveTransit
<1> QED
  BY <1>1, <1>2, <1>3, <1>4, <1>5, <1>6

\* The entry at the head of the work.
LEMMA HeadOfWork ==
  ASSUME TypeInv, work # <<>>
  PROVE  Head(work) \in WorkItems /\ Head(work).id \in Envelopes /\ Head(work).durable \in BOOLEAN
<1>1. work \in Seq(WorkItems)
  BY DEF TypeInv, TypeOK
<1>2. Head(work) \in WorkItems
  BY <1>1
<1> QED
  BY <1>2 DEF WorkItems

LEMMA ConsumeTypes ==
  ASSUME TypeInv, ConsumeNext \/ ConsumeFragment
  PROVE  TypeInv'
<1>0. /\ work \in Seq(WorkItems) /\ stash \in Seq(WorkItems) /\ pending \in Seq(Rows)
      /\ now \in 0..MaxTime /\ PendingBounded /\ partials \subseteq Envelopes
  BY DEF TypeInv, TypeOK, Rows
<1>1. /\ work # <<>> /\ phase = "consume" /\ work' = Tail(work)
      /\ UNCHANGED <<phase, wake, gathered, durable_gathered, reply, held, damaged, now, faults, offered>>
  BY DEF ConsumeNext, ConsumeFragment, Consuming
<1>2. Head(work).id \in Envelopes /\ Head(work).durable \in BOOLEAN
  BY <1>1, HeadOfWork
<1>3. CASE ConsumeNext
  <2> DEFINE w == Head(work)
  <2>1. PICK r \in Outcomes(w.id) :
          /\ Commit(w.id, w.durable, r)
          /\ pending' = PendingAfter(w.id, w.durable, r)
          /\ stash' = IF r = "later" THEN Append(stash, w) ELSE stash
    BY <1>3 DEF ConsumeNext
  <2>2. partials' = partials
    BY <1>3 DEF ConsumeNext
  <2>3. /\ seen' \subseteq Envelopes /\ receipts' \subseteq Envelopes /\ controls' \subseteq Envelopes
        /\ receipt_replay' \subseteq [id : Envelopes, at : 0..MaxTime]
        /\ applied' \in [Envelopes -> Nat] /\ established' \in BOOLEAN
    BY <1>2, <2>1, CommitTypes
  <2>4. /\ pending' \in Seq(Rows) /\ PendingBounded'
        /\ r = "later" => PendingIds' = PendingIds
        /\ PendingIds \ {w.id} \subseteq PendingIds'
    <3>1. CASE pending' = pending
      BY <1>0, <3>1 DEF PendingBounded, PendingIds
    <3>2. CASE pending' = Without({w.id}) /\ r # "later"
      BY <1>0, <3>2, WithoutIds
    <3> QED
      BY <2>1, <3>1, <3>2 DEF PendingAfter
  <2>5. /\ work' \in Seq(WorkItems) /\ stash' \in Seq(WorkItems)
        /\ WorkHasRow' /\ WorkOnce'
    BY <1>1, <2>1, <2>4, ConsumeWork
  <2> HIDE DEF w
  <2> QED
    BY <1>1, <2>2, <2>3, <2>4, <2>5 DEF TypeInv, TypeOK, Rows
<1>4. CASE ConsumeFragment
  <2> DEFINE f == Head(work).id
  <2>1. stash' = stash
    BY <1>4 DEF ConsumeFragment
  <2>2. /\ pending' \in Seq(Rows) /\ PendingBounded' /\ PendingIds \subseteq PendingIds'
        /\ partials' \subseteq Envelopes
        /\ seen' \subseteq Envelopes /\ receipts' \subseteq Envelopes /\ controls' \subseteq Envelopes
        /\ receipt_replay' \subseteq [id : Envelopes, at : 0..MaxTime]
        /\ applied' \in [Envelopes -> Nat] /\ established' \in BOOLEAN
    <3>1. CASE UNCHANGED <<store, established>> /\ partials' \in {partials, partials \cup {f}}
      BY <1>0, <1>2, <3>1 DEF TypeInv, TypeOK, PendingBounded, PendingIds, store
    <3>2. ASSUME NEW e \in Envelopes, NEW r \in Outcomes(e), Commit(e, FALSE, r),
                 partials' = partials \ Parts[e],
                 pending' = IF r = "later" /\ ~PendingQuota(e) THEN Staged(e) ELSE pending
          PROVE  /\ pending' \in Seq(Rows) /\ PendingBounded' /\ PendingIds \subseteq PendingIds'
                 /\ partials' \subseteq Envelopes
                 /\ seen' \subseteq Envelopes /\ receipts' \subseteq Envelopes /\ controls' \subseteq Envelopes
                 /\ receipt_replay' \subseteq [id : Envelopes, at : 0..MaxTime]
                 /\ applied' \in [Envelopes -> Nat] /\ established' \in BOOLEAN
      <4>1. /\ seen' \subseteq Envelopes /\ receipts' \subseteq Envelopes /\ controls' \subseteq Envelopes
            /\ receipt_replay' \subseteq [id : Envelopes, at : 0..MaxTime]
            /\ applied' \in [Envelopes -> Nat] /\ established' \in BOOLEAN
        BY <3>2, CommitTypes
      <4>2. pending' \in Seq(Rows) /\ PendingBounded' /\ PendingIds \subseteq PendingIds'
        <5>1. CASE pending' = pending
          BY <1>0, <5>1 DEF PendingBounded, PendingIds
        <5>2. CASE pending' = Staged(e) /\ ~PendingQuota(e)
          BY <1>0, <5>2, StagedIds
        <5> QED
          BY <3>2, <5>1, <5>2
      <4> QED
        BY <1>0, <3>2, <4>1, <4>2
    <3>3. ConsumeFragment
      BY <1>4
    <3> QED
      BY <3>1, <3>2, <3>3 DEF ConsumeFragment, Completed
  <2>3. /\ work' \in Seq(WorkItems) /\ stash' \in Seq(WorkItems)
        /\ WorkHasRow' /\ WorkOnce'
    BY <1>1, <2>1, <2>2, ConsumeWork
  <2> QED
    BY <1>1, <2>2, <2>3 DEF TypeInv, TypeOK, Rows
<1> QED
  BY <1>3, <1>4

\* The page that a tick begins with: every entry is a row, and names it once.
LEMMA PageFacts ==
  ASSUME pending \in Seq(Rows), PendingBounded, NEW limit \in Nat
  PROVE  /\ Page(limit) \in Seq(WorkItems)
         /\ DOMAIN Page(limit) = FirstRows(limit) /\ FirstRows(limit) \subseteq DOMAIN pending
         /\ \A i \in FirstRows(limit) : Page(limit)[i].id = pending[i].id
<1> DEFINE n == IF limit < Len(pending) THEN limit ELSE Len(pending)
<1> DEFINE entry(i) == [id |-> pending[i].id, durable |-> TRUE, first_seen |-> pending[i].first_seen]
<1>1. FirstRows(limit) = 1..n /\ n \in Nat /\ FirstRows(limit) \subseteq DOMAIN pending
  BY DEF FirstRows
<1>2. ASSUME NEW i \in DOMAIN pending PROVE entry(i) \in WorkItems /\ entry(i).id = pending[i].id
  <2>1. pending[i] \in Rows
    OBVIOUS
  <2> QED
    BY <2>1 DEF Rows, WorkItems
<1>3. Page(limit) = [i \in FirstRows(limit) |-> entry(i)]
  BY DEF Page
<1> HIDE DEF n, entry
<1>4. Page(limit) \in [1..n -> WorkItems]
  BY <1>1, <1>2, <1>3
<1> QED
  BY <1>1, <1>2, <1>3, <1>4

\* The rows of the table are about envelopes.
LEMMA RowIds ==
  ASSUME pending \in Seq(Rows)
  PROVE  /\ \A i \in DOMAIN pending : pending[i].id \in PendingIds /\ pending[i].id \in Envelopes
         /\ PendingIds \subseteq Envelopes
<1>1. ASSUME NEW i \in DOMAIN pending PROVE pending[i].id \in Envelopes
  <2>1. pending[i] \in Rows
    OBVIOUS
  <2> QED
    BY <2>1 DEF Rows
<1> QED
  BY <1>1 DEF PendingIds

LEMMA BeginTickTypes ==
  ASSUME TypeInv, NEW w \in BOOLEAN, BeginTick(w)
  PROVE  TypeInv'
<1>0. /\ pending \in Seq(Rows) /\ PendingBounded /\ stash = <<>>
      /\ receipt_replay \subseteq [id : Envelopes, at : 0..MaxTime] /\ controls \subseteq Envelopes
  BY DEF TypeInv, TypeOK, WorkOnce, BeginTick, Rows
<1>1. PICK limit \in Nat :
        /\ work' = Page(limit)
        /\ gathered' = {pending[i].id : i \in FirstRows(limit)}
        /\ durable_gathered' = gathered'
  BY InboundConstants DEF BeginTick
<1>2. /\ UNCHANGED <<pending, seen, receipts, applied, stash, established, reply,
                     held, damaged, partials, now, faults, offered>>
      /\ phase' = "gather" /\ wake' = w
      /\ receipt_replay' \subseteq receipt_replay /\ controls' \subseteq controls
  BY DEF BeginTick, ApplyControls
<1>3. /\ work' \in Seq(WorkItems) /\ DOMAIN work' = FirstRows(limit)
      /\ FirstRows(limit) \subseteq DOMAIN pending
      /\ \A i \in FirstRows(limit) : work'[i].id = pending[i].id
  BY <1>0, <1>1, PageFacts
<1>4. PendingIds' = PendingIds /\ PendingBounded'
  BY <1>0, <1>2 DEF PendingIds, PendingBounded
<1>5. \A i \in DOMAIN pending : pending[i].id \in PendingIds /\ pending[i].id \in Envelopes
  BY <1>0, RowIds
<1>6. WorkHasRow'
  BY <1>0, <1>2, <1>3, <1>4, <1>5 DEF WorkHasRow
<1>7. WorkOnce'
  BY <1>0, <1>1, <1>2, <1>3 DEF WorkOnce, PendingBounded
<1>8. gathered' \subseteq Envelopes /\ durable_gathered' \subseteq gathered'
  BY <1>1, <1>3, <1>5
<1> QED
  BY <1>0, <1>2, <1>3, <1>4, <1>6, <1>7, <1>8 DEF TypeInv, TypeOK, Rows

\* A step that ends the tick leaves nothing of it.
LEMMA IdleTypes ==
  ASSUME TypeInv, IdleTick, UNCHANGED <<pending, seen, receipt_replay, receipts, applied,
                                        held, damaged, now, offered>>,
         controls' \subseteq controls, partials' \subseteq partials, faults' \in 0..Faults
  PROVE  TypeInv'
<1>1. PendingBounded' /\ WorkHasRow' /\ WorkOnce'
  BY DEF IdleTick, TypeInv, TypeOK, PendingBounded, WorkHasRow, WorkOnce
<1>2. /\ phase' = "idle" /\ wake' = FALSE /\ established' = FALSE /\ reply' = {}
      /\ gathered' = {} /\ durable_gathered' = {}
      /\ work' \in Seq(WorkItems) /\ stash' \in Seq(WorkItems)
  BY DEF IdleTick
<1> QED
  BY <1>1, <1>2 DEF TypeInv, TypeOK

LEMMA TypeInvStep == TypeInv /\ [Next]_vars => TypeInv'
<1> SUFFICES ASSUME TypeInv, [Next]_vars PROVE TypeInv'
  OBVIOUS
<1>1. ASSUME NEW w \in BOOLEAN, BeginTick(w) PROVE TypeInv'
  BY <1>1, BeginTickTypes
<1>2. ASSUME NEW id \in offered, Arrive(id) PROVE TypeInv'
  <2>1. id \in Envelopes
    BY InboundConstants DEF TypeInv, TypeOK
  <2> QED
    BY <1>2, <2>1, ArriveTypes
<1>3. CASE Settle
  <2>1. /\ UNCHANGED <<store, phase, wake, work, stash, gathered, durable_gathered, established,
                       damaged, partials, now, faults, offered>>
        /\ held' \subseteq held /\ reply' = {}
    BY <1>3 DEF Settle
  <2>2. PendingBounded' /\ WorkHasRow' /\ WorkOnce'
    BY <2>1 DEF TypeInv, TypeOK, PendingBounded, WorkHasRow, WorkOnce, PendingIds, store
  <2> QED
    BY <2>1, <2>2 DEF TypeInv, TypeOK, store
<1>4. CASE ExpireWork
  BY <1>4, ExpireWorkStep
<1>5. CASE ConsumeNext \/ ConsumeFragment
  BY <1>5, ConsumeTypes
<1>6. CASE EndPass
  <2>1. UNCHANGED <<pending, seen, receipt_replay, receipts, applied,
                    held, damaged, partials, now, faults, offered>>
    BY <1>6 DEF EndPass
  <2>2. controls' \subseteq controls
    BY <1>6 DEF EndPass, ApplyControls
  <2>3. CASE IdleTick
    BY <2>1, <2>2, <2>3, IdleTypes DEF TypeInv, TypeOK
  <2>4. CASE /\ work' = stash /\ stash' = <<>> /\ established' = FALSE
             /\ UNCHANGED <<phase, wake, gathered, durable_gathered, reply>>
    <3>1. phase = "consume"
      BY <1>6 DEF EndPass
    <3>2. PendingBounded' /\ WorkHasRow' /\ WorkOnce'
      BY <2>1, <2>4, <3>1 DEF TypeInv, TypeOK, PendingBounded, WorkHasRow, WorkOnce, PendingIds
    <3>3. work' \in Seq(WorkItems) /\ stash' \in Seq(WorkItems) /\ established' \in BOOLEAN
      <4>1. stash \in Seq(WorkItems)
        BY DEF TypeInv, TypeOK
      <4>2. <<>> \in Seq(WorkItems)
        OBVIOUS
      <4> QED
        BY <2>4, <4>1, <4>2
    <3>4. UNCHANGED <<phase, wake, gathered, durable_gathered, reply>>
      BY <2>4
    <3> QED
      BY <2>1, <2>2, <3>2, <3>3, <3>4 DEF TypeInv, TypeOK
  <2> QED
    BY <1>6, <2>3, <2>4 DEF EndPass
<1>7. CASE WakeDeadline \/ TickError \/ Crash
  <2>1. /\ UNCHANGED <<pending, seen, receipt_replay, receipts, applied, controls,
                       held, damaged, now, offered>>
        /\ IdleTick /\ partials' \subseteq partials
    BY <1>7 DEF WakeDeadline, TickError, Crash, store
  <2>2. faults' \in 0..Faults
    BY <1>7, InboundConstants DEF WakeDeadline, TickError, Crash, TypeInv, TypeOK
  <2> QED
    BY <2>1, <2>2, IdleTypes
<1>8. CASE ForgetPartials \/ RowDamaged \/ SendReceipt \/ ClockAdvances \/ UNCHANGED vars
  <2>1. /\ UNCHANGED <<pending, seen, receipt_replay, controls, applied, tick, held, offered>>
        /\ receipts' \subseteq receipts /\ partials' \subseteq partials
    BY <1>8 DEF ForgetPartials, RowDamaged, SendReceipt, ClockAdvances, store, vars, tick
  <2>2. faults' \in 0..Faults /\ now' \in 0..MaxTime
    BY <1>8, InboundConstants
    DEF ForgetPartials, RowDamaged, SendReceipt, ClockAdvances, vars, TypeInv, TypeOK
  <2>3. damaged' \subseteq Envelopes
    <3>1. PendingIds \subseteq Envelopes
      BY RowIds DEF TypeInv, TypeOK, Rows
    <3> QED
      BY <1>8, <3>1 DEF ForgetPartials, RowDamaged, SendReceipt, ClockAdvances, vars, TypeInv, TypeOK
  <2>4. PendingBounded' /\ WorkHasRow' /\ WorkOnce'
    BY <2>1 DEF TypeInv, TypeOK, PendingBounded, WorkHasRow, WorkOnce, PendingIds, tick
  <2> QED
    BY <2>1, <2>2, <2>3, <2>4 DEF TypeInv, TypeOK, tick
<1> QED
  BY <1>1, <1>2, <1>3, <1>4, <1>5, <1>6, <1>7, <1>8 DEF Next, NextIntact

LEMMA TypeInvInit == Init => TypeInv
<1> SUFFICES ASSUME Init PROVE TypeInv
  OBVIOUS
<1>1. WorkHasRow /\ PendingBounded /\ WorkOnce
  BY InboundConstants DEF Init, WorkHasRow, PendingBounded, WorkOnce
<1>2. /\ pending \in Seq(Rows) /\ work \in Seq(WorkItems) /\ stash \in Seq(WorkItems)
      /\ applied \in [Envelopes -> Nat]
  BY DEF Init
<1>3. /\ seen = {} /\ receipts = {} /\ controls = {} /\ receipt_replay = {} /\ damaged = {}
      /\ partials = {} /\ gathered = {} /\ durable_gathered = {} /\ reply = {}
      /\ offered \in Offers /\ held \subseteq Entrusted \cap offered
      /\ phase = "idle" /\ wake = FALSE /\ established = FALSE
  BY DEF Init
<1>4. now \in 0..MaxTime /\ faults \in 0..Faults
  BY InboundConstants DEF Init
<1> QED
  BY <1>1, <1>2, <1>3, <1>4 DEF TypeInv, TypeOK, Rows

LEMMA TypeInvHolds == Spec => []TypeInv
  BY TypeInvInit, TypeInvStep, PTL DEF Spec

\* The pending table keeps one row per content id and its quota, and every
\* durable entry a tick still has to work through has its row, whatever the
\* carriers deliver and wherever ticks fail.
THEOREM InboundTypeCorrect == Spec => []TypeOK
<1>1. TypeInv => TypeOK
  BY DEF TypeInv
<1> QED
  BY <1>1, TypeInvHolds, PTL

-----------------------------------------------------------------------------
(* What is durable stays durable.                                          *)

Durable == seen \cup PendingIds

\* What the running tick believes to be durable is, and it answers "accepted"
\* only for that.
AnswersAreTrue ==
  /\ durable_gathered \subseteq Durable
  /\ \A a \in reply : a.accepted => a.id \in Durable

\* Whatever took effect has its seen row.
EffectIsSeen ==
  /\ applied \in [Envelopes -> {0, 1}]
  /\ \A id \in Envelopes : applied[id] = 1 => id \in seen

IInv == AnswersAreTrue /\ ReleasedIsDurable /\ EffectIsSeen

-----------------------------------------------------------------------------
(* Consuming.                                                              *)

\* An envelope that is already seen has no further effect.
LEMMA SeenHasNoEffect ==
  ASSUME NEW id \in seen, NEW r \in Outcomes(id)
  PROVE  r \in {"drop", "replayReceipt"}
  BY DEF Outcomes, OutcomeIfSeen

\* The commit that goes with an outcome: seen only grows, an effect is recorded
\* with it, and everything but a wait leaves a seen row behind.
LEMMA CommitSeen ==
  ASSUME EffectIsSeen, NEW id, NEW durable \in BOOLEAN, NEW r \in Outcomes(id), Commit(id, durable, r)
  PROVE  /\ seen \subseteq seen'
         /\ EffectIsSeen'
         /\ r # "later" /\ durable => id \in seen'
         /\ r = "request" => id \in seen'
<1>1. /\ seen \subseteq seen'
      /\ r # "later" /\ durable => id \in seen'
      /\ r \in Effective => id \in seen'
  BY DEF Commit, SeenAfter, Effective
<1>2. EffectIsSeen'
  <2>1. CASE r \notin Effective
    BY <1>1, <2>1 DEF EffectIsSeen, Commit
  <2>2. CASE r \in Effective
    <3>1. id \notin seen
      BY <2>2, SeenHasNoEffect DEF Effective
    <3>2. applied' = [applied EXCEPT ![id] = @ + 1]
      BY <2>2 DEF Commit
    <3>3. ASSUME NEW e \in Envelopes
          PROVE  applied'[e] \in {0, 1} /\ (applied'[e] = 1 => e \in seen')
      <4>1. CASE e = id
        <5>1. applied[e] = 0
          BY <3>1, <4>1 DEF EffectIsSeen
        <5>2. applied'[e] = 1
          BY <3>2, <4>1, <5>1 DEF EffectIsSeen
        <5> QED
          BY <1>1, <2>2, <4>1, <5>2
      <4>2. CASE e # id
        BY <1>1, <3>2, <4>2 DEF EffectIsSeen
      <4> QED
        BY <4>1, <4>2
    <3> QED
      BY <3>2, <3>3 DEF EffectIsSeen
  <2> QED
    BY <2>1, <2>2
<1> QED
  BY <1>1, <1>2 DEF Effective

-----------------------------------------------------------------------------
(* The inductive invariant.                                                *)

LEMMA IInvInit == Init => IInv
  BY InboundConstants DEF Init, IInv, AnswersAreTrue, ReleasedIsDurable, EffectIsSeen

\* A step that keeps the store keeps what is durable.
LEMMA StoreKept ==
  ASSUME IInv, UNCHANGED <<pending, seen, applied>>
  PROVE  EffectIsSeen' /\ Durable' = Durable
  BY DEF IInv, EffectIsSeen, Durable, PendingIds

\* What remains to be shown of a step once the store part is known.
LEMMA Kept ==
  ASSUME IInv, EffectIsSeen', Durable \subseteq Durable',
         durable_gathered' \subseteq durable_gathered \cup Durable',
         \A a \in reply' : a.accepted => a.id \in Durable \cup Durable',
         \A id \in held : id \in held' \/ id \in Durable',
         UNCHANGED offered
  PROVE  IInv'
  BY DEF IInv, AnswersAreTrue, ReleasedIsDurable, Durable

LEMMA ArriveStep ==
  ASSUME TypeInv, IInv, NEW id \in Envelopes, Arrive(id)
  PROVE  IInv'
<1>1. PICK custody \in BOOLEAN, direct \in BOOLEAN :
        \/ ArriveAgain(id, custody, direct) \/ ArriveFragment(id, custody)
        \/ ArriveComplete(id, custody, direct)
        \/ custody /\ direct /\ ArriveIntroduction(id)
        \/ ArriveTransit(id)
  BY DEF Arrive
<1>2. CASE ArriveAgain(id, custody, direct)
  <2>1. UNCHANGED <<pending, seen, applied, held, offered, durable_gathered>>
    BY <1>2 DEF ArriveAgain, store
  <2>2. id \in durable_gathered \/ id \in seen => id \in Durable
    BY DEF IInv, AnswersAreTrue, Durable
  <2>3. \A a \in reply' : a.accepted => a.id \in Durable
    <3>1. PICK ok \in BOOLEAN : Answer(id, custody, ok) /\ (ok => id \in durable_gathered \/ id \in seen)
      BY <1>2 DEF ArriveAgain
    <3> QED
      BY <2>2, <3>1 DEF Answer
  <2> QED
    BY <2>1, <2>3, StoreKept, Kept
<1>3. CASE ArriveFragment(id, custody)
  <2>1. UNCHANGED <<pending, seen, applied, held, offered, durable_gathered>>
    BY <1>3 DEF ArriveFragment, store
  <2>2. \A a \in reply' : ~a.accepted
    BY <1>3 DEF ArriveFragment, Answer
  <2> QED
    BY <2>1, <2>2, StoreKept, Kept
<1>4. CASE ArriveComplete(id, custody, direct)
  <2>1. UNCHANGED <<seen, applied, held, offered>>
    BY <1>4 DEF ArriveComplete
  <2>2. CASE Answer(id, custody, FALSE) /\ UNCHANGED <<pending, work, durable_gathered>>
    <3>1. \A a \in reply' : ~a.accepted
      BY <2>2 DEF Answer
    <3> QED
      BY <2>1, <2>2, <3>1, StoreKept, Kept
  <2>3. CASE /\ pending' = Staged(id) /\ durable_gathered' = durable_gathered \cup {id}
             /\ Answer(id, custody, TRUE)
    <3>1. PendingIds' = PendingIds \cup {id}
      BY <2>3, StagedIds DEF TypeInv, TypeOK, Rows
    <3>2. EffectIsSeen'
      BY <2>1 DEF IInv, EffectIsSeen
    <3>3. Durable' = Durable \cup {id}
      BY <2>1, <3>1 DEF Durable
    <3>4. \A a \in reply' : a.id = id
      BY <2>3 DEF Answer
    <3> QED
      BY <2>1, <2>3, <3>1, <3>2, <3>3, <3>4, Kept
  <2> QED
    BY <1>4, <2>2, <2>3 DEF ArriveComplete
<1>5. CASE ArriveIntroduction(id)
  <2>1. UNCHANGED <<held, offered, pending>>
    BY <1>5 DEF ArriveIntroduction, store
  <2>2. CASE Answer(id, TRUE, FALSE) /\ UNCHANGED <<store, established, durable_gathered>>
    <3>1. \A a \in reply' : ~a.accepted
      BY <2>2 DEF Answer
    <3>2. UNCHANGED <<pending, seen, applied>>
      BY <2>2 DEF store
    <3> QED
      BY <2>1, <2>2, <3>1, <3>2, StoreKept, Kept
  <2>3. ASSUME NEW r \in Outcomes(id), Commit(id, FALSE, r), Answer(id, TRUE, r = "request"),
               durable_gathered' = IF id \in seen' THEN durable_gathered \cup {id}
                                   ELSE durable_gathered
        PROVE  IInv'
    <3>1. seen \subseteq seen' /\ EffectIsSeen' /\ (r = "request" => id \in seen')
      BY <2>3, CommitSeen DEF IInv
    <3>2. PendingIds' = PendingIds
      BY <2>1 DEF IInv, PendingIds
    <3>3. Durable \subseteq Durable' /\ seen' \subseteq Durable'
      BY <3>1, <3>2 DEF Durable
    <3>4. \A a \in reply' : a.accepted => a.id \in Durable'
      <4>1. PICK ok \in BOOLEAN : Answer(id, TRUE, ok) /\ (ok => r = "request")
        BY <2>3
      <4>2. reply' = {[id |-> id, accepted |-> ok]}
        BY <4>1 DEF Answer
      <4> QED
        BY <3>1, <3>3, <4>1, <4>2
    <3> QED
      BY <2>1, <2>3, <3>1, <3>2, <3>3, <3>4, Kept
  <2> QED
    BY <1>5, <2>2, <2>3 DEF ArriveIntroduction
<1>6. CASE ArriveTransit(id)
  <2>1. UNCHANGED <<seen, applied, held, offered, durable_gathered, reply>>
    BY <1>6 DEF ArriveTransit
  <2>2. CASE pending' = pending
    BY <2>1, <2>2, StoreKept, Kept DEF IInv, AnswersAreTrue
  <2>3. CASE pending' = Staged(id)
    <3>1. PendingIds' = PendingIds \cup {id}
      BY <2>3, StagedIds DEF TypeInv, TypeOK, Rows
    <3>2. EffectIsSeen' /\ Durable' = Durable \cup {id}
      BY <2>1, <3>1 DEF IInv, EffectIsSeen, Durable
    <3>3. \A a \in reply' : a.accepted => a.id \in Durable
      BY <2>1 DEF IInv, AnswersAreTrue
    <3> QED
      BY <2>1, <3>1, <3>2, <3>3, Kept
  <2> QED
    BY <1>6, <2>2, <2>3 DEF ArriveTransit
<1> QED
  BY <1>1, <1>2, <1>3, <1>4, <1>5, <1>6

LEMMA ConsumeStep ==
  ASSUME TypeInv, IInv, ConsumeNext \/ ConsumeFragment \/ ExpireWork
  PROVE  IInv'
<1>1. UNCHANGED <<held, offered, reply, durable_gathered>>
  BY DEF ConsumeNext, ConsumeFragment, ExpireWork
<1>2. \A a \in reply' : a.accepted => a.id \in Durable
  BY <1>1 DEF IInv, AnswersAreTrue
<1>3. SUFFICES EffectIsSeen' /\ Durable \subseteq Durable'
  BY <1>1, <1>2, Kept
<1>4. CASE ConsumeNext
  <2> DEFINE w == Head(work)
  <2>1. PICK r \in Outcomes(w.id) : /\ Commit(w.id, w.durable, r)
                                   /\ pending' = PendingAfter(w.id, w.durable, r)
    BY <1>4 DEF ConsumeNext
  <2> HIDE DEF w
  <2>2. PICK durable \in BOOLEAN : durable <=> w.durable
    OBVIOUS
  <2>3. Commit(w.id, durable, r) /\ pending' = PendingAfter(w.id, durable, r)
    BY <2>1, <2>2 DEF Commit, SeenAfter, PendingAfter
  <2>4. seen \subseteq seen' /\ EffectIsSeen' /\ (r # "later" /\ durable => w.id \in seen')
    BY <2>3, CommitSeen DEF IInv
  <2>5. CASE r = "later" \/ ~durable
    BY <2>3, <2>4, <2>5 DEF PendingAfter, IInv, Durable, PendingIds
  <2>6. CASE r # "later" /\ durable
    <3>1. PendingIds' = PendingIds \ {w.id}
      BY <2>3, <2>6, WithoutIds DEF PendingAfter, TypeInv, TypeOK, Rows
    <3> QED
      BY <2>4, <2>6, <3>1 DEF Durable
  <2> QED
    BY <2>5, <2>6
<1>5. CASE ConsumeFragment
  <2>1. CASE UNCHANGED store
    BY <2>1, StoreKept DEF store
  <2>2. ASSUME NEW e \in Envelopes, NEW r \in Outcomes(e), Commit(e, FALSE, r),
               pending' = IF r = "later" /\ ~PendingQuota(e) THEN Staged(e) ELSE pending
        PROVE  EffectIsSeen' /\ Durable \subseteq Durable'
    <3>1. seen \subseteq seen' /\ EffectIsSeen'
      BY <2>2, CommitSeen DEF IInv
    <3>2. PendingIds \subseteq PendingIds'
      <4>1. CASE pending' = pending
        BY <4>1 DEF IInv, PendingIds
      <4>2. CASE pending' = Staged(e)
        BY <4>2, StagedIds DEF TypeInv, TypeOK, Rows
      <4> QED
        BY <2>2, <4>1, <4>2
    <3> QED
      BY <3>1, <3>2 DEF Durable
  <2> QED
    BY <1>5, <2>1, <2>2 DEF ConsumeFragment, Completed
<1>6. CASE ExpireWork
  <2>1. PICK old, ids : /\ ids \subseteq old
                       /\ seen' = seen \cup old
                       /\ pending' = Without(ids)
                       /\ applied' = applied
    <3> DEFINE o == {i \in DOMAIN work : Expired(work[i])}
    <3>1. {work[i].id : i \in {j \in o : work[j].durable}} \subseteq {work[i].id : i \in o}
      OBVIOUS
    <3>2. /\ seen' = seen \cup {work[i].id : i \in o}
          /\ pending' = Without({work[i].id : i \in {j \in o : work[j].durable}})
          /\ applied' = applied
      BY <1>6 DEF ExpireWork
    <3> QED
      BY <3>1, <3>2
  <2>2. PendingIds' = PendingIds \ ids
    BY <2>1, WithoutIds DEF TypeInv, TypeOK, Rows
  <2> QED
    BY <2>1, <2>2 DEF IInv, EffectIsSeen, Durable
<1> QED
  BY <1>4, <1>5, <1>6

LEMMA IInvStep == TypeInv /\ IInv /\ [Next]_vars => IInv'
<1> SUFFICES ASSUME TypeInv, IInv, [Next]_vars PROVE IInv'
  OBVIOUS
<1>0. \A a \in reply : a.accepted => a.id \in Durable
  BY DEF IInv, AnswersAreTrue
<1>1. ASSUME NEW w \in BOOLEAN, BeginTick(w) PROVE IInv'
  <2>1. UNCHANGED <<pending, seen, applied, held, offered, reply>>
    BY <1>1 DEF BeginTick
  <2>2. durable_gathered' \subseteq PendingIds
    BY <1>1 DEF BeginTick, FirstRows, PendingIds
  <2>3. durable_gathered' \subseteq Durable'
    BY <2>1, <2>2, StoreKept DEF Durable
  <2> QED
    BY <1>0, <2>1, <2>3, StoreKept, Kept
<1>2. ASSUME NEW id \in Envelopes, Arrive(id) PROVE IInv'
  BY <1>2, ArriveStep
<1>3. CASE Settle
  <2>1. UNCHANGED <<pending, seen, applied, durable_gathered, offered>> /\ reply' = {}
    BY <1>3 DEF Settle, store
  <2>2. \A id \in held : id \in held' \/ id \in Durable
    BY <1>0, <1>3 DEF Settle
  <2> QED
    BY <2>1, <2>2, StoreKept, Kept
<1>4. CASE ConsumeNext \/ ConsumeFragment \/ ExpireWork
  BY <1>4, ConsumeStep
<1>5. CASE EndPass \/ WakeDeadline \/ TickError \/ Crash
  <2>1. UNCHANGED <<pending, seen, applied, held, offered>>
    BY <1>5 DEF EndPass, WakeDeadline, TickError, Crash, store
  <2>2. \/ UNCHANGED <<durable_gathered, reply>>
        \/ durable_gathered' = {} /\ reply' = {}
    BY <1>5 DEF EndPass, WakeDeadline, TickError, Crash, IdleTick
  <2> QED
    BY <1>0, <2>1, <2>2, StoreKept, Kept
<1>6. CASE ForgetPartials \/ RowDamaged \/ SendReceipt \/ ClockAdvances \/ UNCHANGED vars
  <2>1. UNCHANGED <<pending, seen, applied, held, offered, reply, durable_gathered>>
    BY <1>6 DEF ForgetPartials, RowDamaged, SendReceipt, ClockAdvances, store, tick, vars
  <2> QED
    BY <1>0, <2>1, StoreKept, Kept
<1> QED
  BY <1>1, <1>2, <1>3, <1>4, <1>5, <1>6, InboundConstants DEF Next, NextIntact, TypeInv, TypeOK

LEMMA IInvHolds == Spec => []IInv
  BY IInvInit, IInvStep, TypeInvHolds, PTL DEF Spec

\* No next hop lets go of an envelope that this endpoint does not hold
\* durably, for any traffic, failed ticks, crashes and lost answers.
THEOREM InboundReleasedIsDurable == Spec => []ReleasedIsDurable
<1>1. IInv => ReleasedIsDurable
  BY DEF IInv
<1> QED
  BY <1>1, IInvHolds, PTL

\* No envelope takes effect twice, however it arrives and however often.
THEOREM InboundAppliedOnce == Spec => []AppliedOnce
<1>1. IInv => AppliedOnce
  BY DEF IInv, EffectIsSeen, AppliedOnce
<1> QED
  BY <1>1, IInvHolds, PTL

-----------------------------------------------------------------------------
(* What is recorded as seen, and what is answered for.                     *)

\* A receipt can be issued again only for what took effect.
ReplayIsApplied == \A x \in receipt_replay : applied[x.id] = 1

RInv == ReplayIsApplied /\ ReceiptsHonestAndRepeatable /\ NoSilentDrop

Applicable == {"message", "call", "handshake", "control", "group"}
Receipted  == {"message", "group", "handshake"}

\* The outcomes of an envelope that this endpoint can apply are to apply it or to
\* wait; what asks for a receipt gets one with its effect; a receipt is issued
\* again only when its row is there.
LEMMA OutcomeFacts ==
  ASSUME NEW id \in Envelopes, NEW r \in Outcomes(id)
  PROVE  /\ id \notin seen /\ Kind[id] \in Applicable /\ r # "later" => r \in Effective
         /\ r \in Effective /\ Kind[id] \in Receipted => r \in Acknowledged
         /\ r \in Acknowledged => r \in Effective \/ \E x \in receipt_replay : x.id = id
<1>1. Kind[id] \in Kinds
  BY InboundConstants
<1>2. CASE id \in seen
  BY <1>2 DEF Outcomes, OutcomeIfSeen, Effective, Acknowledged
<1>3. CASE id \notin seen /\ Kind[id] = "fragment"
  BY <1>3 DEF Outcomes, Applicable, Receipted, Effective, Acknowledged
<1>4. CASE id \notin seen /\ Kind[id] \in {"handshake", "badHandshake", "introduction"}
  <2>1. r \in OutcomeOfHandshake(id)
    BY <1>4 DEF Outcomes
  <2>2. CASE Kind[id] = "badHandshake"
    BY <2>1, <2>2 DEF OutcomeOfHandshake, Applicable, Receipted, Effective, Acknowledged
  <2>3. CASE Kind[id] = "handshake"
    <3>1. r \in {"establish", "keepPrior", "later"}
      BY <2>1, <2>3 DEF OutcomeOfHandshake
    <3> QED
      BY <3>1 DEF Effective, Acknowledged
  <2>4. CASE Kind[id] = "introduction"
    <3>1. r \in {"later", "reject", "request"}
      BY <2>1, <2>4 DEF OutcomeOfHandshake
    <3> QED
      BY <2>4, <3>1 DEF Applicable, Receipted, Effective, Acknowledged
  <2> QED
    BY <1>4, <2>2, <2>3, <2>4
<1>5. CASE /\ id \notin seen
           /\ Kind[id] \in {"message", "undecryptable", "call", "control", "group"}
  <2>1. r = "later" \/ r \in OutcomeInSession(id)
    BY <1>5 DEF Outcomes
  <2>2. CASE r = "later"
    BY <2>2 DEF Effective, Acknowledged
  <2>3. CASE r \in OutcomeInSession(id)
    <3>1. CASE Kind[id] = "message"
      BY <2>3, <3>1 DEF OutcomeInSession, Effective, Acknowledged
    <3>2. CASE Kind[id] = "undecryptable"
      BY <2>3, <3>2 DEF OutcomeInSession, Applicable, Receipted, Effective, Acknowledged
    <3>3. CASE Kind[id] = "call"
      BY <2>3, <3>3 DEF OutcomeInSession, Receipted, Effective, Acknowledged
    <3>4. CASE Kind[id] = "control"
      BY <2>3, <3>4 DEF OutcomeInSession, Receipted, Effective, Acknowledged
    <3>5. CASE Kind[id] = "group"
      BY <2>3, <3>5 DEF OutcomeInSession, OutcomeOfGroupMessage, Effective, Acknowledged
    <3> QED
      BY <1>5, <3>1, <3>2, <3>3, <3>4, <3>5
  <2> QED
    BY <2>1, <2>2, <2>3
<1> QED
  BY <1>1, <1>2, <1>3, <1>4, <1>5 DEF Kinds

\* One commit keeps the three records in step.
LEMMA CommitRecords ==
  ASSUME TypeInv, IInv, RInv, NEW id \in Envelopes, NEW durable \in BOOLEAN, NEW r \in Outcomes(id),
         Commit(id, durable, r), now' = now
  PROVE  RInv'
<1>0. applied \in [Envelopes -> {0, 1}] /\ (applied[id] = 1 => id \in seen)
  BY DEF IInv, EffectIsSeen
<1>1. receipt_replay \subseteq [id : Envelopes, at : 0..MaxTime]
  BY DEF TypeInv, TypeOK
<1>2. \A e \in Envelopes : e # id => applied'[e] = applied[e]
  BY <1>0 DEF Commit
<1>3. r \in Effective => applied'[id] = 1 /\ applied[id] = 0
  <2>1. r \in Effective => id \notin seen
    BY SeenHasNoEffect DEF Effective
  <2> QED
    BY <1>0, <2>1 DEF Commit
<1>4. r \notin Effective => applied'[id] = applied[id]
  BY DEF Commit
<1>5. r \in Acknowledged => applied'[id] = 1
  <2>1. CASE r \in Effective
    BY <1>3, <2>1
  <2>2. CASE r \notin Effective /\ r \in Acknowledged
    <3>1. PICK x \in receipt_replay : x.id = id
      BY <2>2, OutcomeFacts
    <3> QED
      BY <1>4, <2>2, <3>1 DEF RInv, ReplayIsApplied
  <2> QED
    BY <2>1, <2>2
<1>6. \A e \in Envelopes : applied[e] = 1 => applied'[e] = 1
  BY <1>2, <1>3, <1>4
<1>7. ReplayIsApplied'
  <2>1. ASSUME NEW x \in receipt_replay' PROVE applied'[x.id] = 1
    <3>1. CASE x \in receipt_replay
      BY <1>1, <1>6, <3>1 DEF RInv, ReplayIsApplied
    <3>2. CASE x \notin receipt_replay
      <4>1. r \in Acknowledged /\ x = [id |-> id, at |-> now]
        BY <3>2 DEF Commit
      <4> QED
        BY <1>5, <4>1
    <3> QED
      BY <3>1, <3>2
  <2> QED
    BY <2>1 DEF ReplayIsApplied
<1>8. ReceiptsHonestAndRepeatable'
  <2>1. ASSUME NEW e \in Envelopes, e \in receipts' PROVE applied'[e] = 1
    <3>1. CASE e \in receipts
      BY <1>6, <3>1 DEF RInv, ReceiptsHonestAndRepeatable
    <3>2. CASE e \notin receipts
      <4>1. r \in Acknowledged /\ e = id
        BY <2>1, <3>2 DEF Commit
      <4> QED
        BY <1>5, <4>1
    <3> QED
      BY <3>1, <3>2
  <2>2. ASSUME NEW e \in Envelopes, applied'[e] = 1, Kind[e] \in Receipted
        PROVE  (\E x \in receipt_replay' : x.id = e) \/ now' >= DELIVERY_EXPIRY_SECS
    <3>1. CASE e = id /\ r \in Acknowledged
      <4>1. [id |-> id, at |-> now] \in receipt_replay' /\ [id |-> id, at |-> now].id = id
        BY <3>1 DEF Commit
      <4> QED
        BY <3>1, <4>1
    <3>2. CASE ~(e = id /\ r \in Acknowledged)
      <4>1. applied[e] = 1
        <5>1. CASE e # id
          BY <1>2, <2>2, <5>1
        <5>2. CASE e = id /\ r \notin Effective
          BY <1>4, <2>2, <5>2
        <5>3. CASE e = id /\ r \in Effective
          BY <2>2, <3>2, <5>3, OutcomeFacts
        <5> QED
          BY <5>1, <5>2, <5>3
      <4>2. CASE now >= DELIVERY_EXPIRY_SECS
        BY <4>2
      <4>3. ASSUME NEW x \in receipt_replay, x.id = e PROVE \E y \in receipt_replay' : y.id = e
        <5>1. x \in receipt_replay'
          BY <3>2, <4>3 DEF Commit
        <5> QED
          BY <4>3, <5>1
      <4> QED
        BY <2>2, <4>1, <4>2, <4>3 DEF RInv, ReceiptsHonestAndRepeatable, Receipted
    <3> QED
      BY <3>1, <3>2
  <2> QED
    BY <2>1, <2>2 DEF ReceiptsHonestAndRepeatable, Receipted
<1>9. NoSilentDrop'
  <2>1. ASSUME NEW e \in seen', Kind[e] \in Applicable
        PROVE  applied'[e] = 1 \/ Deadline[e] <= now' \/ now' > PENDING_TTL_SECS
    <3>1. CASE e \in seen
      <4>1. e \in Envelopes
        BY <3>1 DEF TypeInv, TypeOK
      <4> QED
        BY <1>6, <2>1, <3>1, <4>1 DEF RInv, NoSilentDrop, Applicable
    <3>2. CASE e \notin seen
      <4>1. e = id /\ r # "later"
        BY <3>2 DEF Commit, SeenAfter
      <4>2. r \in Effective
        BY <2>1, <3>2, <4>1, OutcomeFacts
      <4> QED
        BY <1>3, <4>1, <4>2
    <3> QED
      BY <3>1, <3>2
  <2> QED
    BY <2>1 DEF NoSilentDrop, Applicable
<1> QED
  BY <1>7, <1>8, <1>9 DEF RInv

\* Time only adds to what is excused, and only what its sender no longer asks
\* for is forgotten.
LEMMA RecordsKept ==
  ASSUME TypeInv, RInv, UNCHANGED <<seen, applied>>, receipts' \subseteq receipts,
         receipt_replay' \subseteq receipt_replay, now' \in Nat, now <= now',
         \A x \in receipt_replay : x \in receipt_replay' \/ now >= DELIVERY_EXPIRY_SECS
  PROVE  RInv'
<1>0. now \in Nat /\ seen \subseteq Envelopes
  BY DEF TypeInv, TypeOK
<1>1. now >= DELIVERY_EXPIRY_SECS => now' >= DELIVERY_EXPIRY_SECS
  BY <1>0, InboundConstants
<1>2. ReplayIsApplied'
  BY DEF RInv, ReplayIsApplied
<1>3. ReceiptsHonestAndRepeatable'
  <2>1. ASSUME NEW e \in Envelopes, applied'[e] = 1, Kind[e] \in Receipted
        PROVE  (\E x \in receipt_replay' : x.id = e) \/ now' >= DELIVERY_EXPIRY_SECS
    <3>1. (\E x \in receipt_replay : x.id = e) \/ now >= DELIVERY_EXPIRY_SECS
      BY <2>1 DEF RInv, ReceiptsHonestAndRepeatable, Receipted
    <3> QED
      BY <1>1, <3>1
  <2> QED
    BY <2>1 DEF RInv, ReceiptsHonestAndRepeatable, Receipted
<1>4. NoSilentDrop'
  <2>1. ASSUME NEW e \in seen PROVE Deadline[e] <= now => Deadline[e] <= now'
    BY <1>0, InboundConstants
  <2>2. now > PENDING_TTL_SECS => now' > PENDING_TTL_SECS
    BY <1>0, InboundConstants
  <2> QED
    BY <2>1, <2>2 DEF RInv, NoSilentDrop
<1> QED
  BY <1>2, <1>3, <1>4 DEF RInv

\* Only what has run out of time is retired unapplied.
LEMMA ExpireRecords ==
  ASSUME TypeInv, RInv, ExpireWork
  PROVE  RInv'
<1>1. UNCHANGED <<applied, receipts, receipt_replay, now>>
  BY DEF ExpireWork
<1>2. ASSUME NEW e \in seen', e \notin seen
      PROVE  Deadline[e] <= now \/ now > PENDING_TTL_SECS
  <2>1. PICK i \in DOMAIN work : Expired(work[i]) /\ work[i].id = e
    BY <1>2 DEF ExpireWork
  <2>2. work[i] \in WorkItems
    BY DEF TypeInv, TypeOK
  <2>3. now \in Nat /\ work[i].first_seen \in Nat
    BY <2>2 DEF WorkItems, TypeInv, TypeOK
  <2> QED
    BY <2>1, <2>3, InboundConstants DEF Expired
<1>3. NoSilentDrop'
  BY <1>1, <1>2 DEF RInv, NoSilentDrop
<1> QED
  BY <1>1, <1>3 DEF RInv, ReplayIsApplied, ReceiptsHonestAndRepeatable

LEMMA RInvStep == TypeInv /\ IInv /\ RInv /\ [Next]_vars => RInv'
<1> SUFFICES ASSUME TypeInv, IInv, RInv, [Next]_vars PROVE RInv'
  OBVIOUS
<1>0. now \in Nat
  BY DEF TypeInv, TypeOK
<1>1. CASE /\ UNCHANGED <<seen, applied, receipt_replay>> /\ receipts' \subseteq receipts
           /\ now' = now \/ now' = now + 1
  <2>1. now' \in Nat /\ now <= now'
    BY <1>0, <1>1
  <2> QED
    BY <1>1, <2>1, RecordsKept
<1>2. ASSUME NEW w \in BOOLEAN, BeginTick(w) PROVE RInv'
  <2>1. UNCHANGED <<seen, applied, receipts, now>> /\ receipt_replay' \subseteq receipt_replay
    BY <1>2 DEF BeginTick
  <2>2. ASSUME NEW x \in receipt_replay, x \notin receipt_replay' PROVE now >= DELIVERY_EXPIRY_SECS
    <3>1. x.at + DELIVERY_EXPIRY_SECS <= now
      BY <1>2, <2>2 DEF BeginTick, ExpiredReplay
    <3>2. x.at \in Nat
      BY DEF TypeInv, TypeOK
    <3> QED
      BY <1>0, <3>1, <3>2, InboundConstants
  <2> QED
    BY <1>0, <2>1, <2>2, RecordsKept
<1>3. ASSUME NEW id \in Envelopes, Arrive(id) PROVE RInv'
  <2>1. CASE UNCHANGED <<seen, applied, receipts, receipt_replay, now>>
    BY <1>1, <2>1
  <2>2. ASSUME NEW r \in Outcomes(id), Commit(id, FALSE, r), now' = now PROVE RInv'
    BY <2>2, CommitRecords
  <2>3. CASE ArriveIntroduction(id)
    BY <2>1, <2>2, <2>3 DEF ArriveIntroduction, store
  <2> QED
    BY <1>3, <2>1, <2>3 DEF Arrive, ArriveAgain, ArriveFragment, ArriveComplete, ArriveTransit, store
<1>4. CASE ConsumeNext
  <2>1. Head(work).id \in Envelopes /\ Head(work).durable \in BOOLEAN
    BY <1>4, HeadOfWork DEF ConsumeNext, Consuming
  <2> QED
    BY <1>4, <2>1, CommitRecords DEF ConsumeNext
<1>5. CASE ConsumeFragment
  <2>1. CASE UNCHANGED store /\ now' = now
    BY <1>1, <2>1 DEF store
  <2>2. ASSUME NEW e \in Envelopes, NEW r \in Outcomes(e), Commit(e, FALSE, r), now' = now PROVE RInv'
    BY <2>2, CommitRecords
  <2> QED
    BY <1>5, <2>1, <2>2 DEF ConsumeFragment, Completed
<1>6. CASE ExpireWork
  BY <1>6, ExpireRecords
<1>7. CASE Settle \/ EndPass \/ WakeDeadline \/ TickError \/ Crash \/ ForgetPartials \/ RowDamaged
           \/ SendReceipt \/ ClockAdvances \/ UNCHANGED vars
  BY <1>1, <1>7 DEF Settle, EndPass, WakeDeadline, TickError, Crash, ForgetPartials, RowDamaged,
                    SendReceipt, ClockAdvances, vars, store
<1>8. offered \subseteq Envelopes
  BY InboundConstants DEF TypeInv, TypeOK
<1> QED
  BY <1>2, <1>3, <1>4, <1>5, <1>6, <1>7, <1>8 DEF Next, NextIntact

LEMMA RInvInit == Init => RInv
  BY DEF Init, RInv, ReplayIsApplied, ReceiptsHonestAndRepeatable, NoSilentDrop

LEMMA RInvHolds == Spec => []RInv
  BY RInvInit, RInvStep, TypeInvHolds, IInvHolds, PTL DEF Spec

\* A receipt is queued only for what was recorded, and until its sender has
\* stopped retrying it can be issued again, for any losses, failed ticks and
\* restarts.
THEOREM InboundReceiptsHonestAndRepeatable == Spec => []ReceiptsHonestAndRepeatable
<1>1. RInv => ReceiptsHonestAndRepeatable
  BY DEF RInv
<1> QED
  BY <1>1, RInvHolds, PTL

\* What this endpoint could have applied is recorded as seen only when it was
\* applied or its time was up, in whatever order the session, its messages and
\* their fragments arrive.
THEOREM InboundNoSilentDrop == Spec => []NoSilentDrop
<1>1. RInv => NoSilentDrop
  BY DEF RInv
<1> QED
  BY <1>1, RInvHolds, PTL
=============================================================================
