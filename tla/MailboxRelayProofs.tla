------------------------- MODULE MailboxRelayProofs -------------------------
(***************************************************************************)
(* Proofs about MailboxRelay for any clients, tokens, envelopes, limits    *)
(* and clock readings.  The inductive invariant is stated of three tables  *)
(* (deposits D, leases L, lease rows R), so that it can be shown to        *)
(* survive the sweep once and then each operation's own change.            *)
(***************************************************************************)
EXTENDS MailboxRelay, FiniteSetTheorems, TLAPS

TablesTyped(D, L, R) ==
  D \subseteq DepositRow /\ L \subseteq LeaseRecord /\ R \subseteq LeaseRow

DepositKeys(D, nr) ==
  /\ \A d, e \in D : d.row = e.row => d = e
  /\ \A d, e \in D : SameKey(d, e.env) => d = e
  /\ \A d \in D : d.row < nr

LeaseKeys(L, nl) ==
  /\ \A l, m \in L : l.id = m.id => l = m
  /\ \A l \in L : l.id < nl

RowKeys(L, R, nr) ==
  /\ \A a, b \in R : a.lease = b.lease /\ a.row = b.row => a = b
  /\ \A lr \in R : lr.row < nr
  /\ \A lr \in R : \E l \in L : l.id = lr.lease

RowsStored(D, R) ==
  \A lr \in R : ~lr.acknowledged => \E d \in D : d.row = lr.row

RowsExclusive(R) ==
  \A a, b \in R :
    a.row = b.row /\ ~a.acknowledged /\ ~b.acknowledged => a.lease = b.lease

ClosedWhenDone(L, R) ==
  \A l \in L : l.closed <=> ~ \E lr \in R : Unacked(lr, l)

OneOpen(L) ==
  \A l, m \in L :
    ~l.closed /\ ~m.closed /\ l.client = m.client /\ l.filter = m.filter => l = m

TablesOK(D, L, R, nr, nl) ==
  /\ TablesTyped(D, L, R)
  /\ DepositKeys(D, nr)
  /\ LeaseKeys(L, nl)
  /\ RowKeys(L, R, nr)
  /\ RowsStored(D, R)
  /\ RowsExclusive(R)
  /\ ClosedWhenDone(L, R)
  /\ OneOpen(L)

ScalarsOK ==
  /\ clock \in Times
  /\ nextRow \in Nat \ {0} /\ nextLease \in Nat \ {0}
  /\ registrations \subseteq Registration

\* The inductive invariant.
RelayInv == ScalarsOK /\ TablesOK(deposits, leases, lease_rows, nextRow, nextLease)

-----------------------------------------------------------------------------
\* The sweep keeps the tables consistent, because a lease goes with the first
\* of its rows: what stays leased stays stored.
LEMMA SweepKeepsTables ==
  ASSUME TablesOK(deposits, leases, lease_rows, nextRow, nextLease), clock \in Nat
  PROVE  TablesOK(SweptDeposits, SweptLeases, SweptLeaseRows, nextRow, nextLease)
<1> DEFINE D == SweptDeposits
           L == SweptLeases
           R == SweptLeaseRows
<1>1. D \subseteq deposits /\ L \subseteq leases /\ R \subseteq lease_rows
  BY DEF SweptDeposits, SweptLeases, SweptLeaseRows
<1>2. \A l \in L, lr \in lease_rows : lr.lease = l.id => lr \in R
  BY DEF SweptLeaseRows
<1>3. TablesTyped(D, L, R) /\ DepositKeys(D, nextRow) /\ LeaseKeys(L, nextLease)
  BY <1>1 DEF TablesOK, TablesTyped, DepositKeys, LeaseKeys
<1>4. RowKeys(L, R, nextRow)
  BY <1>1 DEF TablesOK, RowKeys, SweptLeaseRows
<1>5. RowsStored(D, R)
  <2> SUFFICES ASSUME NEW lr \in R, ~lr.acknowledged
               PROVE  \E d \in D : d.row = lr.row
    BY DEF RowsStored
  <2>1. PICK d \in deposits : d.row = lr.row
    BY <1>1 DEF TablesOK, RowsStored
  <2>2. PICK l \in L : l.id = lr.lease
    BY DEF SweptLeaseRows
  <2>3. ~(d.expires_at <= clock)
    BY <1>1, <2>1, <2>2 DEF SweptLeases
  <2>4. d.expires_at \in Nat
    BY DEF TablesOK, TablesTyped, DepositRow
  <2> QED BY <2>1, <2>3, <2>4 DEF SweptDeposits
<1>6. RowsExclusive(R)
  BY <1>1 DEF TablesOK, RowsExclusive
<1>7. ClosedWhenDone(L, R)
  BY <1>1, <1>2 DEF TablesOK, ClosedWhenDone, Unacked
<1>8. OneOpen(L)
  BY <1>1 DEF TablesOK, OneOpen
<1> QED
  BY <1>3, <1>4, <1>5, <1>6, <1>7, <1>8 DEF TablesOK

\* A deposit adds one row under a fresh id and an unused (token, content) key.
LEMMA StoreKeepsTables ==
  ASSUME NEW D, NEW L, NEW R, NEW nr \in Nat \ {0}, NEW nl \in Nat \ {0},
         TablesOK(D, L, R, nr, nl),
         NEW n \in DepositRow, n.row = nr,
         ~ \E d \in D : SameKey(d, n.env)
  PROVE  TablesOK(D \cup {n}, L, R, nr + 1, nl)
<1>1. TablesTyped(D \cup {n}, L, R)
  BY DEF TablesOK, TablesTyped
<1>2. DepositKeys(D \cup {n}, nr + 1)
  <2>1. \A d \in D : d.row < nr /\ d.row \in Nat
    BY DEF TablesOK, DepositKeys, TablesTyped, DepositRow
  <2>2. \A d, e \in D \cup {n} : d.row = e.row => d = e
    BY <2>1 DEF TablesOK, DepositKeys
  <2>3. \A d, e \in D \cup {n} : SameKey(d, e.env) => d = e
    BY DEF TablesOK, DepositKeys, SameKey
  <2>4. \A d \in D \cup {n} : d.row < nr + 1
    BY <2>1
  <2> QED BY <2>2, <2>3, <2>4 DEF DepositKeys
<1>3. RowKeys(L, R, nr + 1)
  BY DEF TablesOK, RowKeys, TablesTyped, LeaseRow
<1>4. RowsStored(D \cup {n}, R)
  BY DEF TablesOK, RowsStored
<1> QED BY <1>1, <1>2, <1>3, <1>4 DEF TablesOK

\* A grant leases rows that are stored and that no unacknowledged lease row
\* names, to a client without an open lease for the filter.
LEMMA GrantKeepsTables ==
  ASSUME NEW D, NEW L, NEW R, NEW nr \in Nat \ {0}, NEW nl \in Nat \ {0},
         TablesOK(D, L, R, nr, nl),
         NEW n \in LeaseRecord, n.id = nl,
         NEW page \in SUBSET D, n.closed = (page = {}),
         \A d \in page, lr \in R : lr.row = d.row => lr.acknowledged,
         \A l \in L : l.client = n.client /\ l.filter = n.filter => l.closed
  PROVE  TablesOK(D, L \cup {n},
                  R \cup {[lease |-> nl, row |-> d.row, acknowledged |-> FALSE] : d \in page},
                  nr, nl + 1)
<1> DEFINE new == {[lease |-> nl, row |-> d.row, acknowledged |-> FALSE] : d \in page}
<1>1. \A lr \in new : /\ lr \in LeaseRow /\ lr.lease = nl /\ ~lr.acknowledged
                      /\ \E d \in page : lr.row = d.row
  <2> SUFFICES ASSUME NEW d \in page,
                      NEW lr, lr = [lease |-> nl, row |-> d.row, acknowledged |-> FALSE]
               PROVE  /\ lr \in LeaseRow /\ lr.lease = nl /\ ~lr.acknowledged
                      /\ lr.row = d.row
    OBVIOUS
  <2>1. d.row \in Nat
    BY DEF TablesOK, TablesTyped, DepositRow
  <2> QED BY <2>1 DEF LeaseRow
<1>2. \A a, b \in new : a.row = b.row => a = b
  <2> SUFFICES ASSUME NEW d \in page, NEW e \in page, d.row = e.row
               PROVE  [lease |-> nl, row |-> d.row, acknowledged |-> FALSE]
                        = [lease |-> nl, row |-> e.row, acknowledged |-> FALSE]
    OBVIOUS
  <2> QED OBVIOUS
<1>3. \A l \in L : l.id < nl /\ l.id \in Nat
  BY DEF TablesOK, LeaseKeys, TablesTyped, LeaseRecord
<1>4. \A lr \in R : lr.lease < nl /\ lr.lease \in Nat
  BY <1>3 DEF TablesOK, RowKeys, TablesTyped, LeaseRow
<1>5. TablesTyped(D, L \cup {n}, R \cup new)
  BY <1>1 DEF TablesOK, TablesTyped
<1>6. LeaseKeys(L \cup {n}, nl + 1)
  <2>1. \A l, m \in L \cup {n} : l.id = m.id => l = m
    BY <1>3 DEF TablesOK, LeaseKeys
  <2>2. \A l \in L \cup {n} : l.id < nl + 1
    BY <1>3
  <2> QED BY <2>1, <2>2 DEF LeaseKeys
<1>7. RowKeys(L \cup {n}, R \cup new, nr)
  <2>1. \A a, b \in R \cup new : a.lease = b.lease /\ a.row = b.row => a = b
    BY <1>1, <1>2, <1>4 DEF TablesOK, RowKeys
  <2>2. \A lr \in R \cup new : lr.row < nr
    BY <1>1 DEF TablesOK, RowKeys, DepositKeys
  <2>3. \A lr \in R \cup new : \E l \in L \cup {n} : l.id = lr.lease
    BY <1>1 DEF TablesOK, RowKeys
  <2> QED BY <2>1, <2>2, <2>3 DEF RowKeys
<1>8. RowsStored(D, R \cup new)
  BY <1>1 DEF TablesOK, RowsStored
<1>9. RowsExclusive(R \cup new)
  BY <1>1 DEF TablesOK, RowsExclusive
<1>10. ClosedWhenDone(L \cup {n}, R \cup new)
  <2>1. ASSUME NEW l \in L
        PROVE  l.closed <=> ~ \E lr \in R \cup new : Unacked(lr, l)
    BY <1>1, <1>3 DEF TablesOK, ClosedWhenDone, Unacked
  <2>2. \A lr \in R : ~Unacked(lr, n)
    BY <1>4 DEF Unacked
  <2>3. n.closed <=> ~ \E lr \in new : Unacked(lr, n)
    <3>1. \A lr \in new : Unacked(lr, n)
      BY <1>1 DEF Unacked
    <3>2. (page = {}) <=> (new = {})
      OBVIOUS
    <3> QED BY <3>1, <3>2
  <2> QED BY <2>1, <2>2, <2>3 DEF ClosedWhenDone
<1>11. OneOpen(L \cup {n})
  BY DEF TablesOK, OneOpen
<1> QED
  BY <1>5, <1>6, <1>7, <1>8, <1>9, <1>10, <1>11 DEF TablesOK

AllMarked(R, id, fresh) ==
  \A lr \in R : lr.lease = id /\ ~lr.acknowledged => lr \in fresh

\* What ack_inner does to the tables: the lease rows in fresh are marked, their
\* deposits deleted, and the lease closed if nothing remains.
AckStep(D, L, R, id, fresh, D2, L2, R2, upd, mark) ==
  /\ fresh \subseteq R
  /\ \A lr \in fresh : lr.lease = id /\ ~lr.acknowledged
  /\ D2 \subseteq D
  /\ \A d \in D : d \notin D2 <=> \E lr \in fresh : lr.row = d.row
  /\ \A l \in L : /\ upd[l] \in L2 /\ upd[l] \in LeaseRecord /\ upd[l].id = l.id
                  /\ upd[l].client = l.client /\ upd[l].filter = l.filter
                  /\ upd[l].closed <=>
                       l.closed \/ (l.id = id /\ AllMarked(R, id, fresh))
  /\ \A m \in L2 : \E l \in L : m = upd[l]
  /\ \A lr \in fresh : /\ mark[lr] \in LeaseRow /\ mark[lr].lease = lr.lease
                       /\ mark[lr].row = lr.row /\ mark[lr].acknowledged
  /\ \A m \in R2 : \/ m \in R /\ m \notin fresh
                   \/ \E lr \in fresh : m = mark[lr]
  /\ \A lr \in R : lr \notin fresh => lr \in R2

\* An acknowledgement deletes exactly the deposits whose rows it marks, and
\* closes the lease when it marked the last of them.
LEMMA AckKeepsTables ==
  ASSUME NEW D, NEW L, NEW R, NEW nr, NEW nl,
         NEW id, NEW fresh, NEW D2, NEW L2, NEW R2, NEW upd, NEW mark,
         TablesOK(D, L, R, nr, nl),
         AckStep(D, L, R, id, fresh, D2, L2, R2, upd, mark)
  PROVE  TablesOK(D2, L2, R2, nr, nl)
<1> USE DEF AckStep
<1>5. TablesTyped(D2, L2, R2)
  BY DEF TablesOK, TablesTyped
<1>6. DepositKeys(D2, nr)
  BY DEF TablesOK, DepositKeys
<1>7. LeaseKeys(L2, nl)
  BY DEF TablesOK, LeaseKeys
<1>8. \A m \in R2 : \E lr \in R : m.lease = lr.lease /\ m.row = lr.row
  OBVIOUS
<1>10. \A m \in R2 : ~m.acknowledged => m \in R /\ m \notin fresh
  OBVIOUS
<1>17. \A a, b \in R2 : a.lease = b.lease /\ a.row = b.row => a = b
  <2> SUFFICES ASSUME NEW a \in R2, NEW b \in R2, a.lease = b.lease, a.row = b.row
               PROVE  a = b
    OBVIOUS
  <2>1. PICK u \in R : u.lease = a.lease /\ u.row = a.row
                        /\ (u \notin fresh => a = u) /\ (u \in fresh => a = mark[u])
    OBVIOUS
  <2>2. PICK v \in R : v.lease = b.lease /\ v.row = b.row
                        /\ (v \notin fresh => b = v) /\ (v \in fresh => b = mark[v])
    OBVIOUS
  <2>3. u = v
    BY <2>1, <2>2 DEF TablesOK, RowKeys
  <2> QED BY <2>1, <2>2, <2>3
<1>9. RowKeys(L2, R2, nr)
  <2>2. \A lr \in R2 : lr.row < nr
    BY <1>8 DEF TablesOK, RowKeys
  <2>3. \A lr \in R2 : \E l \in L2 : l.id = lr.lease
    BY <1>8 DEF TablesOK, RowKeys
  <2> QED BY <1>17, <2>2, <2>3 DEF RowKeys
<1>11. RowsStored(D2, R2)
  <2> SUFFICES ASSUME NEW m \in R2, ~m.acknowledged
               PROVE  \E d \in D2 : d.row = m.row
    BY DEF RowsStored
  <2>1. PICK d \in D : d.row = m.row
    BY <1>10 DEF TablesOK, RowsStored
  <2>2. ASSUME NEW lr \in fresh, lr.row = d.row PROVE FALSE
    <3>1. lr.lease = m.lease
      BY <1>10, <2>1, <2>2 DEF TablesOK, RowsExclusive
    <3> QED BY <3>1, <1>10, <2>1, <2>2 DEF TablesOK, RowKeys
  <2> QED BY <2>1, <2>2
<1>12. RowsExclusive(R2)
  BY <1>10 DEF TablesOK, RowsExclusive
<1>13. ClosedWhenDone(L2, R2)
  <2> SUFFICES ASSUME NEW l \in L
               PROVE  upd[l].closed <=> ~ \E lr \in R2 : Unacked(lr, upd[l])
    BY DEF ClosedWhenDone
  <2>1. upd[l].closed <=> l.closed \/ (l.id = id /\ AllMarked(R, id, fresh))
    OBVIOUS
  <2>2. (\E lr \in R2 : Unacked(lr, upd[l]))
          <=> \E lr \in R : lr \notin fresh /\ Unacked(lr, l)
    BY <1>10 DEF Unacked
  <2>3. l.closed <=> ~ \E lr \in R : Unacked(lr, l)
    BY DEF TablesOK, ClosedWhenDone
  <2>4. CASE l.id = id
    BY <2>1, <2>2, <2>3, <2>4 DEF Unacked, AllMarked
  <2>5. CASE l.id # id
    BY <2>1, <2>2, <2>3, <2>5 DEF Unacked
  <2> QED BY <2>4, <2>5
<1>14. OneOpen(L2)
  BY DEF TablesOK, OneOpen
<1> QED
  BY <1>5, <1>6, <1>7, <1>9, <1>11, <1>12, <1>13, <1>14
     DEF TablesOK

-----------------------------------------------------------------------------
LEMMA InitEstablishesInv == Init => RelayInv
<1> SUFFICES ASSUME Init PROVE RelayInv
  OBVIOUS
<1>1. ScalarsOK
  BY DEF Init, ScalarsOK
<1>2. TablesOK({}, {}, {}, 1, 1)
  BY DEF TablesOK, TablesTyped, DepositKeys, LeaseKeys, RowKeys, RowsStored,
         RowsExclusive, ClosedWhenDone, OneOpen
<1> QED BY <1>1, <1>2 DEF Init, RelayInv

\* A registration upsert writes well-typed rows.
LEMMA RegisterTyped ==
  ASSUME ScalarsOK, NEW c \in Clients, NEW toks \in SUBSET Tokens, Register(c, toks)
  PROVE  registrations' \subseteq Registration
<1>1. clock + Config.registration_ttl \in Nat
  BY RelayConstants DEF ScalarsOK
<1>2. SweptRegistrations \subseteq Registration
  BY DEF ScalarsOK, SweptRegistrations
<1> QED BY <1>1, <1>2 DEF Register, Registration

\* An operation that only sweeps keeps the invariant.
LEMMA OnlySweepKeepsInv == RelayInv /\ OnlySweep => RelayInv'
<1> SUFFICES ASSUME RelayInv, OnlySweep PROVE RelayInv'
  OBVIOUS
<1>1. TablesOK(SweptDeposits, SweptLeases, SweptLeaseRows, nextRow, nextLease)
  BY SweepKeepsTables, RelayConstants DEF RelayInv, ScalarsOK
<1>2. ScalarsOK'
  BY DEF RelayInv, ScalarsOK, OnlySweep, SweptRegistrations
<1> QED BY <1>1, <1>2 DEF RelayInv, OnlySweep, LeasesOnlySwept

LEMMA DepositAcceptKeepsInv ==
  ASSUME RelayInv, NEW c \in Clients, NEW env \in Envelopes, DepositAccept(c, env)
  PROVE  RelayInv'
<1> DEFINE n == [row |-> nextRow, env |-> env, client |-> c, expires_at |-> ExpiryOf(env)]
<1>1. TablesOK(SweptDeposits, SweptLeases, SweptLeaseRows, nextRow, nextLease)
  BY SweepKeepsTables, RelayConstants DEF RelayInv, ScalarsOK
<1>2. ExpiryOf(env) \in Nat
  BY RelayConstants DEF RelayInv, ScalarsOK, ExpiryOf
<1>3. n \in DepositRow /\ n.row = nextRow /\ n.env = env
  BY <1>2 DEF RelayInv, ScalarsOK, DepositRow
<1>4. ~ \E d \in SweptDeposits : SameKey(d, n.env)
  BY <1>3 DEF DepositAccept, Duplicate
<1> HIDE DEF n
<1>5. nextRow \in Nat \ {0} /\ nextLease \in Nat \ {0}
  BY DEF RelayInv, ScalarsOK
<1>6. TablesOK(SweptDeposits \cup {n}, SweptLeases, SweptLeaseRows, nextRow + 1, nextLease)
  BY <1>1, <1>3, <1>4, <1>5, StoreKeepsTables
<1>7. ScalarsOK'
  BY <1>5 DEF RelayInv, ScalarsOK, DepositAccept, SweptRegistrations
<1> QED BY <1>6, <1>7 DEF RelayInv, DepositAccept, LeasesOnlySwept, n

\* A lease request that grants nothing still registers its tokens.
LEMMA RegisterOnlyKeepsInv ==
  ASSUME RelayInv, NEW c \in Clients, NEW toks \in SUBSET Tokens,
         LeaseAtCapacity(c, toks) \/ LeaseReplay(c, toks)
  PROVE  RelayInv'
<1>1. TablesOK(SweptDeposits, SweptLeases, SweptLeaseRows, nextRow, nextLease)
  BY SweepKeepsTables, RelayConstants DEF RelayInv, ScalarsOK
<1>2. registrations' \subseteq Registration
  BY RegisterTyped DEF RelayInv, LeaseAtCapacity, LeaseReplay
<1>3. ScalarsOK'
  BY <1>2 DEF RelayInv, ScalarsOK, LeaseAtCapacity, LeaseReplay
<1> QED
  BY <1>1, <1>3 DEF RelayInv, LeaseAtCapacity, LeaseReplay, LeasesOnlySwept

LEMMA LeaseGrantKeepsInv ==
  ASSUME RelayInv, NEW c \in Clients, NEW toks \in SUBSET Tokens,
         NEW page \in SUBSET deposits, LeaseGrant(c, toks, page)
  PROVE  RelayInv'
<1> DEFINE n == [id |-> nextLease, client |-> c, filter |-> toks, created_at |-> clock,
                 expires_at |-> clock + Config.lease_ttl, closed |-> page = {}]
           D == SweptDeposits
           L == SweptLeases
           R == SweptLeaseRows
<1>1. TablesOK(D, L, R, nextRow, nextLease)
  BY SweepKeepsTables, RelayConstants DEF RelayInv, ScalarsOK
<1>2. nextRow \in Nat \ {0} /\ nextLease \in Nat \ {0} /\ clock \in Nat
  BY RelayConstants DEF RelayInv, ScalarsOK
<1>3. /\ n \in LeaseRecord /\ n.id = nextLease /\ n.closed = (page = {})
      /\ n.client = c /\ n.filter = toks
  BY <1>2, RelayConstants DEF LeaseRecord
<1>4. page \subseteq Available(toks)
  BY DEF LeaseGrant, FirstRows
<1>5. page \in SUBSET D
  BY <1>4 DEF Available
<1>6. ASSUME NEW d \in page, NEW lr \in R, lr.row = d.row
      PROVE  lr.acknowledged
  <2> SUFFICES ASSUME ~lr.acknowledged PROVE FALSE
    OBVIOUS
  <2>1. PICK l \in L : l.id = lr.lease
    BY <1>1 DEF TablesOK, RowKeys
  <2>2. Unacked(lr, l)
    BY <2>1 DEF Unacked
  <2>3. ~l.closed
    BY <1>1, <2>2 DEF TablesOK, ClosedWhenDone
  <2> QED BY <1>4, <1>6, <2>1, <2>2, <2>3 DEF Available, Open
<1>7. \A l \in L : l.client = n.client /\ l.filter = n.filter => l.closed
  BY <1>3 DEF LeaseGrant, ExistingLeases, Open
<1> HIDE DEF n, D, L, R
<1>8. TablesOK(D, L \cup {n},
               R \cup {[lease |-> nextLease, row |-> d.row, acknowledged |-> FALSE] : d \in page},
               nextRow, nextLease + 1)
  BY <1>1, <1>2, <1>3, <1>5, <1>6, <1>7, GrantKeepsTables
<1>9. registrations' \subseteq Registration
  BY RegisterTyped DEF RelayInv, LeaseGrant
<1>10. ScalarsOK'
  BY <1>2, <1>9 DEF RelayInv, ScalarsOK, LeaseGrant
<1> QED BY <1>8, <1>10 DEF RelayInv, LeaseGrant, n, D, L, R

LEMMA AckAcceptKeepsInv ==
  ASSUME RelayInv, NEW c \in Clients, NEW id, NEW rows, AckAccept(c, id, rows)
  PROVE  RelayInv'
<1> DEFINE D == SweptDeposits
           L == SweptLeases
           R == SweptLeaseRows
           fresh == {lr \in {a \in R : a.lease = id /\ a.row \in rows} : ~lr.acknowledged}
           remaining == {lr \in R : lr.lease = id /\ ~lr.acknowledged} \ fresh
           done == remaining = {}
           upd == [l \in L |-> IF l.id = id /\ done THEN [l EXCEPT !.closed = TRUE] ELSE l]
           mark == [lr \in R |-> [lr EXCEPT !.acknowledged = TRUE]]
<1>1. TablesOK(D, L, R, nextRow, nextLease)
  BY SweepKeepsTables, RelayConstants DEF RelayInv, ScalarsOK
<1>2. nextRow \in Nat \ {0} /\ nextLease \in Nat \ {0}
  BY DEF RelayInv, ScalarsOK
<1>3. fresh \in SUBSET R /\ \A lr \in fresh : lr.lease = id /\ ~lr.acknowledged
  OBVIOUS
<1>4. done <=> AllMarked(R, id, fresh)
  BY DEF AllMarked
<1>5. /\ deposits' = {d \in D : ~ \E lr \in fresh : lr.row = d.row}
      /\ leases' = {IF l.id = id /\ done THEN [l EXCEPT !.closed = TRUE] ELSE l : l \in L}
      /\ lease_rows' = (R \ fresh) \cup {[lr EXCEPT !.acknowledged = TRUE] : lr \in fresh}
  BY DEF AckAccept
<1> HIDE DEF D, L, R, fresh, remaining, done
<1>6. /\ deposits' \subseteq D
      /\ \A d \in D : d \notin deposits' <=> \E lr \in fresh : lr.row = d.row
  BY <1>5
<1>7. \A l \in L : /\ upd[l] \in leases' /\ upd[l] \in LeaseRecord /\ upd[l].id = l.id
                   /\ upd[l].client = l.client /\ upd[l].filter = l.filter
                   /\ upd[l].closed <=> l.closed \/ (l.id = id /\ AllMarked(R, id, fresh))
  BY <1>1, <1>4, <1>5 DEF TablesOK, TablesTyped, LeaseRecord
<1>8. \A m \in leases' : \E l \in L : m = upd[l]
  BY <1>5
<1>9. \A lr \in fresh : /\ mark[lr] \in LeaseRow /\ mark[lr].lease = lr.lease
                        /\ mark[lr].row = lr.row /\ mark[lr].acknowledged
  BY <1>1, <1>3 DEF TablesOK, TablesTyped, LeaseRow
<1>10. \A m \in lease_rows' : \/ m \in R /\ m \notin fresh
                              \/ \E lr \in fresh : m = mark[lr]
  BY <1>3, <1>5
<1>11. \A lr \in R : lr \notin fresh => lr \in lease_rows'
  BY <1>5
<1> HIDE DEF upd, mark
<1>12. AckStep(D, L, R, id, fresh, deposits', leases', lease_rows', upd, mark)
  BY <1>3, <1>6, <1>7, <1>8, <1>9, <1>10, <1>11 DEF AckStep
<1>15. TablesOK(deposits', leases', lease_rows', nextRow, nextLease)
  BY <1>1, <1>12, AckKeepsTables
<1>13. nextRow' = nextRow /\ nextLease' = nextLease
  BY DEF AckAccept
<1>14. ScalarsOK'
  BY <1>2 DEF RelayInv, ScalarsOK, AckAccept, SweptRegistrations
<1> QED BY <1>15, <1>13, <1>14 DEF RelayInv

LEMMA NextKeepsInv == RelayInv /\ [Next]_vars => RelayInv'
<1> SUFFICES ASSUME RelayInv, [Next]_vars PROVE RelayInv'
  OBVIOUS
<1>1. ASSUME NEW c \in Clients, NEW env \in Envelopes, DepositAccept(c, env)
      PROVE  RelayInv'
  BY <1>1, DepositAcceptKeepsInv
<1>2. ASSUME NEW c \in Clients, NEW toks \in SUBSET Tokens,
             LeaseAtCapacity(c, toks) \/ LeaseReplay(c, toks)
      PROVE  RelayInv'
  BY <1>2, RegisterOnlyKeepsInv
<1>3. ASSUME NEW c \in Clients, NEW toks \in SUBSET Tokens,
             NEW page \in SUBSET deposits, LeaseGrant(c, toks, page)
      PROVE  RelayInv'
  BY <1>3, LeaseGrantKeepsInv
<1>4. ASSUME NEW c \in Clients, NEW id, NEW rows, AckAccept(c, id, rows)
      PROVE  RelayInv'
  BY <1>4, AckAcceptKeepsInv
<1>5. CASE OnlySweep
  BY <1>5, OnlySweepKeepsInv
<1>6. CASE Reopen
  BY <1>5, <1>6 DEF Reopen
<1>7. CASE SetClock
  BY <1>7 DEF RelayInv, ScalarsOK, SetClock, tables
<1>8. CASE UNCHANGED vars
  BY <1>8 DEF RelayInv, ScalarsOK, vars, tables
<1> QED
  BY <1>1, <1>2, <1>3, <1>4, <1>5, <1>6, <1>7, <1>8
     DEF Next, DepositRepeat, DepositUnregistered, DepositRefuse, LeaseRefuse,
         AckRefuse, SweepOrRefuse

\* The step formula of CustodyEnds.
CustodyStep ==
  \A d \in deposits \ deposits' :
    \/ d.expires_at <= clock
    \/ \E l \in leases, lr \in lease_rows :
         /\ Unacked(lr, l) /\ lr.row = d.row
         /\ l.expires_at > clock
         /\ [lr EXCEPT !.acknowledged = TRUE] \in lease_rows'

\* Every deposit an operation removes had expired or is acknowledged by it.
LEMMA CustodyEndsStep == RelayInv /\ [Next]_vars => CustodyStep
<1> SUFFICES ASSUME RelayInv, [Next]_vars, NEW d \in deposits, d \notin deposits',
                    ~(d.expires_at <= clock)
             PROVE  \E l \in leases, lr \in lease_rows :
                      /\ Unacked(lr, l) /\ lr.row = d.row
                      /\ l.expires_at > clock
                      /\ [lr EXCEPT !.acknowledged = TRUE] \in lease_rows'
  BY DEF CustodyStep
<1>1. d \in SweptDeposits
  <2>1. d.expires_at \in Nat /\ clock \in Nat
    BY RelayConstants DEF RelayInv, ScalarsOK, TablesOK, TablesTyped, DepositRow
  <2> QED BY <2>1 DEF SweptDeposits
<1>2. ASSUME NEW c \in Clients, NEW id, NEW rows, AckAccept(c, id, rows)
      PROVE  \E l \in leases, lr \in lease_rows :
               /\ Unacked(lr, l) /\ lr.row = d.row
               /\ l.expires_at > clock
               /\ [lr EXCEPT !.acknowledged = TRUE] \in lease_rows'
  <2> DEFINE fresh == {lr \in {a \in SweptLeaseRows : a.lease = id /\ a.row \in rows} :
                         ~lr.acknowledged}
  <2>1. /\ deposits' = {e \in SweptDeposits : ~ \E lr \in fresh : lr.row = e.row}
        /\ lease_rows' = (SweptLeaseRows \ fresh)
                         \cup {[lr EXCEPT !.acknowledged = TRUE] : lr \in fresh}
    BY <1>2 DEF AckAccept
  <2>2. PICK lr \in fresh : lr.row = d.row
    BY <1>1, <2>1
  <2>3. [lr EXCEPT !.acknowledged = TRUE] \in lease_rows'
    BY <2>1, <2>2
  <2>4. lr \in lease_rows /\ ~lr.acknowledged
    BY <2>2 DEF SweptLeaseRows
  <2>5. PICK l \in SweptLeases : l.id = lr.lease
    BY <2>2 DEF SweptLeaseRows
  <2>6. l \in leases /\ l.expires_at > clock
    BY <2>5 DEF SweptLeases
  <2> QED BY <2>2, <2>3, <2>4, <2>5, <2>6 DEF Unacked
<1>3. ASSUME deposits' = SweptDeposits PROVE FALSE
  BY <1>1, <1>3
<1>4. CASE SetClock \/ UNCHANGED vars
  BY <1>4 DEF SetClock, vars, tables
<1>5. ASSUME NEW c \in Clients, NEW env \in Envelopes, DepositAccept(c, env)
      PROVE  FALSE
  BY <1>1, <1>5 DEF DepositAccept
<1> QED
  BY <1>2, <1>3, <1>4, <1>5, ZenonT(30)
     DEF Next, DepositRepeat, DepositUnregistered, DepositRefuse, LeaseRefuse,
         LeaseAtCapacity, LeaseReplay, LeaseGrant, AckRefuse, SweepOrRefuse,
         OnlySweep, Reopen

\* Custody of an envelope ends only by its own lease's acknowledgement or by
\* its own expiry (sweep_on, ack_inner): nothing else removes a deposit.
THEOREM RelayCustodyEnds == Spec => CustodyEnds
<1>1. RelayInv /\ [Next]_vars => [CustodyStep]_vars
  BY CustodyEndsStep
<1>2. CustodyEnds <=> [][CustodyStep]_vars
  BY DEF CustodyEnds, CustodyStep
<1> QED BY <1>1, <1>2, InitEstablishesInv, NextKeepsInv, PTL DEF Spec

\* The relay's tables keep their types, unique keys and foreign key, for any
\* number of clients, tokens, envelopes and clock readings.
THEOREM RelayTypeCorrect == Spec => []TypeOK
<1>1. RelayInv => TypeOK
  BY DEF RelayInv, ScalarsOK, TablesOK, TablesTyped, DepositKeys, LeaseKeys,
         RowKeys, TypeOK
<1> QED BY <1>1, InitEstablishesInv, NextKeepsInv, PTL DEF Spec

\* A row is never out on two leases at once (available_rows_on), a client has at
\* most one open lease per filter, and a lease is closed exactly when all its
\* rows are acknowledged (lease_inner, ack_inner).
THEOREM RelayLeaseDiscipline == Spec => []LeaseDiscipline
<1>1. RelayInv => ExclusiveLease
  BY DEF RelayInv, TablesOK, RowsExclusive, ExclusiveLease
<1>2. RelayInv => OneOpenLease
  BY DEF RelayInv, TablesOK, ClosedWhenDone, OneOpen, OneOpenLease, Open
<1>3. RelayInv => LeaseDiscipline
  BY <1>1, <1>2 DEF LeaseDiscipline
<1> QED BY <1>3, InitEstablishesInv, NextKeepsInv, PTL DEF Spec

\* No lease refers to a deposit that is gone: load_lease_rows_on and ack_inner
\* never take their internal-error exits.
THEOREM RelayLeasedRowsStored == Spec => []LeasedRowsStored
<1>1. RelayInv => LeasedRowsStored
  BY DEF RelayInv, TablesOK, RowsStored, LeasedRowsStored
<1> QED BY <1>1, InitEstablishesInv, NextKeepsInv, PTL DEF Spec

-----------------------------------------------------------------------------
(* Bytes, quotas and pages.                                                *)

\* The bytes of a set of rows.
BytesOf(D) == UNION {{d} \X (1..d.env.len) : d \in D}

\* Rows have a length.
LEMMA RowLength ==
  ASSUME NEW d \in DepositRow
  PROVE  d.env.len \in Nat /\ d.row \in Nat
  BY RelayConstants DEF DepositRow

\* Finitely many rows have finitely many bytes.
LEMMA BytesFinite ==
  ASSUME NEW D \in SUBSET DepositRow, IsFiniteSet(D)
  PROVE  IsFiniteSet(BytesOf(D)) /\ Bytes(D) = Cardinality(BytesOf(D)) /\ Bytes(D) \in Nat
<1> DEFINE f == [d \in D |-> {d} \X (1..d.env.len)]
           S == {{d} \X (1..d.env.len) : d \in D}
<1>1. f \in Surjection(D, S)
  BY DEF Surjection
<1>2. IsFiniteSet(S)
  BY <1>1, FS_Surjection
<1>3. ASSUME NEW T \in S PROVE IsFiniteSet(T)
  <2>1. PICK d \in D : T = {d} \X (1..d.env.len)
    OBVIOUS
  <2>2. IsFiniteSet(1..d.env.len)
    BY RowLength, FS_Interval
  <2>3. IsFiniteSet({d})
    BY FS_Singleton
  <2> QED
    BY <2>1, <2>2, <2>3, FS_Product
<1>4. IsFiniteSet(UNION S)
  BY <1>2, <1>3, FS_UNION
<1> QED
  BY <1>4, FS_CardinalityType DEF BytesOf, Bytes

\* Fewer rows have fewer bytes.
LEMMA BytesMonotone ==
  ASSUME NEW D \in SUBSET DepositRow, IsFiniteSet(D), NEW E \in SUBSET D
  PROVE  Bytes(E) <= Bytes(D) /\ Bytes(E) \in Nat /\ Bytes(D) \in Nat
<1>1. BytesOf(E) \in SUBSET BytesOf(D)
  BY DEF BytesOf
<1>2. IsFiniteSet(E) /\ E \in SUBSET DepositRow
  BY FS_Subset
<1>3. IsFiniteSet(BytesOf(D)) /\ Bytes(D) = Cardinality(BytesOf(D)) /\ Bytes(D) \in Nat
  BY BytesFinite
<1>4. Bytes(E) = Cardinality(BytesOf(E)) /\ Bytes(E) \in Nat
  BY <1>2, BytesFinite
<1> QED
  BY <1>1, <1>3, <1>4, FS_Subset

\* A row has as many bytes as its length.
LEMMA RowBytes ==
  ASSUME NEW n, NEW k \in Nat
  PROVE  IsFiniteSet({n} \X (1..k)) /\ Cardinality({n} \X (1..k)) = k
<1> DEFINE K == 1..k
<1>1. IsFiniteSet(K) /\ Cardinality(K) = IF 1 > k THEN 0 ELSE k - 1 + 1
  BY FS_Interval
<1>2. Cardinality(K) = k
  BY <1>1
<1>3. IsFiniteSet({n}) /\ Cardinality({n}) = 1
  BY FS_Singleton
<1> HIDE DEF K
<1>4. IsFiniteSet({n} \X K) /\ Cardinality({n} \X K) = Cardinality({n}) * Cardinality(K)
  BY <1>1, <1>3, FS_Product
<1>5. Cardinality({n} \X K) = 1 * k
  BY <1>2, <1>3, <1>4
<1> QED
  BY <1>4, <1>5 DEF K

\* One more row adds its length.
LEMMA BytesAdded ==
  ASSUME NEW D \in SUBSET DepositRow, IsFiniteSet(D), NEW n \in DepositRow, n \notin D
  PROVE  Bytes(D \cup {n}) = Bytes(D) + n.env.len
<1> DEFINE N == {n} \X (1..n.env.len)
<1>1. BytesOf(D \cup {n}) = BytesOf(D) \cup N
  BY DEF BytesOf
<1>2. BytesOf(D) \cap N = {}
  <2>1. ASSUME NEW b \in BytesOf(D) PROVE b \notin N
    <3>1. PICK d \in D : b \in {d} \X (1..d.env.len)
      BY DEF BytesOf
    <3>2. b[1] = d
      BY <3>1
    <3> QED
      BY <3>2
  <2> QED
    BY <2>1
<1>3. IsFiniteSet(N) /\ Cardinality(N) = n.env.len
  BY RowLength, RowBytes
<1>4. IsFiniteSet(BytesOf(D)) /\ Bytes(D) = Cardinality(BytesOf(D)) /\ Bytes(D) \in Nat
  BY BytesFinite
<1>5. Bytes(D \cup {n}) = Cardinality(BytesOf(D \cup {n}))
  BY DEF Bytes, BytesOf
<1> HIDE DEF N
<1>6. Cardinality(BytesOf(D) \cup N) = Cardinality(BytesOf(D)) + Cardinality(N) - Cardinality({})
  BY <1>2, <1>3, <1>4, FS_Union
<1>7. Cardinality({}) = 0 /\ n.env.len \in Nat
  BY FS_EmptySet, RowLength
<1>8. Cardinality(BytesOf(D) \cup N) = Bytes(D) + n.env.len
  <2>1. Cardinality(BytesOf(D) \cup N) = Bytes(D) + n.env.len - 0
    BY <1>3, <1>4, <1>6, <1>7
  <2> QED
    BY <1>4, <1>7, <2>1
<1> QED
  BY <1>1, <1>5, <1>8

LEMMA NoRowsNoBytes == Bytes({}) = 0
<1>1. UNION {{d} \X (1..d.env.len) : d \in {}} = {}
  OBVIOUS
<1> QED
  BY <1>1, FS_EmptySet DEF Bytes

-----------------------------------------------------------------------------
(* The order of rows.                                                      *)

DistinctRows(D) == \A d, e \in D : d.row = e.row => d = e
Before(D, d) == {e \in D : e.row < d.row}

\* Numbering rows by how many come before them.
LEMMA RowRank ==
  ASSUME NEW D \in SUBSET DepositRow, IsFiniteSet(D), DistinctRows(D)
  PROVE  /\ Cardinality(D) \in Nat
         /\ \A d \in D : Cardinality(Before(D, d)) \in 0..(Cardinality(D) - 1)
         /\ \A d, e \in D : Cardinality(Before(D, d)) = Cardinality(Before(D, e)) => d = e
         /\ \A i \in 0..(Cardinality(D) - 1) : \E d \in D : Cardinality(Before(D, d)) = i
<1> DEFINE n == Cardinality(D)
           rank == [d \in D |-> Cardinality(Before(D, d))]
<1>0. \A d \in D : d.row \in Nat
  BY RowLength
<1>1. n \in Nat
  BY FS_CardinalityType
<1>2. ASSUME NEW d \in D
      PROVE  IsFiniteSet(Before(D, d)) /\ Cardinality(Before(D, d)) \in 0..(n - 1)
  <2>1. Before(D, d) \in SUBSET D /\ d \notin Before(D, d)
    BY <1>0 DEF Before
  <2>2. IsFiniteSet(Before(D, d)) /\ Cardinality(Before(D, d)) <= n /\ Cardinality(Before(D, d)) # n
    BY <2>1, FS_Subset
  <2>3. Cardinality(Before(D, d)) \in Nat
    BY <2>2, FS_CardinalityType
  <2> QED
    BY <1>1, <2>2, <2>3
<1>3. ASSUME NEW d \in D, NEW e \in D, d.row < e.row
      PROVE  Cardinality(Before(D, d)) # Cardinality(Before(D, e))
  <2>1. ASSUME NEW x \in Before(D, d) PROVE x \in Before(D, e)
    <3>1. x \in D /\ x.row < d.row /\ x.row \in Nat /\ d.row \in Nat /\ e.row \in Nat
      BY <1>0 DEF Before
    <3>2. x.row < e.row
      BY <1>3, <3>1
    <3> QED
      BY <3>1, <3>2 DEF Before
  <2>2. d \in Before(D, e) /\ d \notin Before(D, d)
    BY <1>0, <1>3 DEF Before
  <2>3. Before(D, d) \in SUBSET Before(D, e) /\ Before(D, d) # Before(D, e)
    BY <2>1, <2>2
  <2> QED
    BY <1>2, <2>3, FS_Subset
<1>4. ASSUME NEW d \in D, NEW e \in D, d # e
      PROVE  Cardinality(Before(D, d)) # Cardinality(Before(D, e))
  <2>1. d.row < e.row \/ e.row < d.row
    BY <1>0, <1>4 DEF DistinctRows
  <2> QED
    BY <1>3, <2>1
<1>5. rank \in Injection(D, 0..(n - 1))
  BY <1>2, <1>4 DEF Injection, IsInjective
<1>6. IsFiniteSet(0..(n - 1)) /\ Cardinality(0..(n - 1)) = n
  <2>1. /\ IsFiniteSet(0..(n - 1))
        /\ Cardinality(0..(n - 1)) = IF 0 > n - 1 THEN 0 ELSE n - 1 - 0 + 1
    BY <1>1, FS_Interval
  <2> QED
    BY <1>1, <2>1
<1>7. rank \in Surjection(D, 0..(n - 1))
  BY <1>5, <1>6, FS_Injection
<1>8. \A i \in 0..(n - 1) : \E d \in D : Cardinality(Before(D, d)) = i
  BY <1>7 DEF Surjection
<1> QED
  BY <1>1, <1>2, <1>4, <1>8

\* A set of rows has a first and a last.
LEMMA FirstAndLast ==
  ASSUME NEW D \in SUBSET DepositRow, IsFiniteSet(D), DistinctRows(D), D # {}
  PROVE  /\ \E d \in D : Before(D, d) = {}
         /\ \E d \in D : D = Before(D, d) \cup {d} /\ d \notin Before(D, d)
<1> DEFINE n == Cardinality(D)
<1>1. /\ n \in Nat
      /\ \A i \in 0..(n - 1) : \E d \in D : Cardinality(Before(D, d)) = i
  BY RowRank
<1>2. n # 0
  BY FS_EmptySet
<1>3. \E d \in D : Before(D, d) = {}
  <2>1. PICK d \in D : Cardinality(Before(D, d)) = 0
    BY <1>1, <1>2
  <2>2. IsFiniteSet(Before(D, d))
    BY FS_Subset DEF Before
  <2> QED
    BY <2>1, <2>2, FS_EmptySet
<1>4. \E d \in D : D = Before(D, d) \cup {d} /\ d \notin Before(D, d)
  <2>1. PICK d \in D : Cardinality(Before(D, d)) = n - 1
    BY <1>1, <1>2
  <2>2. d.row \in Nat
    BY RowLength
  <2>3. Before(D, d) \in SUBSET (D \ {d}) /\ d \notin Before(D, d)
    BY <2>2 DEF Before
  <2>4. IsFiniteSet(D \ {d}) /\ Cardinality(D \ {d}) = n - 1
    BY FS_RemoveElement
  <2>5. Before(D, d) = D \ {d}
    BY <2>1, <2>3, <2>4, FS_Subset
  <2> QED
    BY <2>3, <2>5
<1> QED
  BY <1>3, <1>4

\* ORDER BY sequence LIMIT: never more rows than a page may have.
LEMMA FirstRowsBound ==
  ASSUME NEW D \in SUBSET DepositRow, IsFiniteSet(D), DistinctRows(D)
  PROVE  /\ FirstRows(D) \in SUBSET D /\ IsFiniteSet(FirstRows(D))
         /\ Cardinality(FirstRows(D)) <= PageMaxRows
<1> DEFINE F == FirstRows(D)
           rank == [d \in F |-> Cardinality(Before(D, d))]
<1>1. F \in SUBSET D /\ \A d \in F : Cardinality(Before(D, d)) < PageMaxRows
  BY DEF FirstRows, Before
<1>2. IsFiniteSet(F)
  BY <1>1, FS_Subset
<1>3. /\ \A d \in D : Cardinality(Before(D, d)) \in 0..(Cardinality(D) - 1)
      /\ \A d, e \in D : Cardinality(Before(D, d)) = Cardinality(Before(D, e)) => d = e
      /\ Cardinality(D) \in Nat
  BY RowRank
<1>4. PageMaxRows \in Nat \ {0}
  BY RelayConstants
<1>5. \A d \in F : Cardinality(Before(D, d)) \in 0..(PageMaxRows - 1)
  BY <1>1, <1>3, <1>4
<1>6. rank \in Injection(F, 0..(PageMaxRows - 1))
  BY <1>1, <1>3, <1>5 DEF Injection, IsInjective
<1>7. IsFiniteSet(0..(PageMaxRows - 1)) /\ Cardinality(0..(PageMaxRows - 1)) = PageMaxRows
  <2>1. /\ IsFiniteSet(0..(PageMaxRows - 1))
        /\ Cardinality(0..(PageMaxRows - 1))
             = IF 0 > PageMaxRows - 1 THEN 0 ELSE PageMaxRows - 1 - 0 + 1
    BY <1>4, FS_Interval
  <2> QED
    BY <1>4, <2>1
<1>8. Cardinality(F) <= PageMaxRows
  BY <1>6, <1>7, FS_Injection
<1> QED
  BY <1>1, <1>2, <1>8

-----------------------------------------------------------------------------
(* What validate_all counts, stated of tables.                             *)

DepositQuotas(D) ==
  /\ IsFiniteSet(D)
  /\ \A d \in D : d.env.len <= MaxEnvelopeBytes
  /\ Within(D, Config.max_total_items, Config.max_total_bytes)
  /\ \A t \in Tokens :
       Within(OfToken(D, t), Config.max_per_token, Config.max_bytes_per_token)
  /\ \A c \in Clients :
       Within(OfClient(D, c), Config.max_per_client, Config.max_bytes_per_client)

RegistrationQuotas(G) ==
  /\ IsFiniteSet(G)
  /\ Cardinality(G) <= Config.max_tokens
  /\ \A c \in Clients : Cardinality(OwnedBy(G, c)) <= Config.max_tokens_per_client

LeaseQuotas(D, L, R) ==
  /\ IsFiniteSet(L)
  /\ Cardinality(Open(L)) <= Config.max_live_leases
  /\ \A c \in Clients :
       Cardinality({l \in Open(L) : l.client = c}) <= Config.max_live_leases_per_client
  /\ \A t \in Tokens :
       Cardinality(HoldingToken(Open(L), R, D, t)) <= Config.max_live_leases_per_token

\* The rows a lease waits for.
OutOn(D, R, id) == {d \in D : \E lr \in R : lr.lease = id /\ ~lr.acknowledged /\ lr.row = d.row}

PageQuotas(D, L, R) == \A l \in L : Within(OutOn(D, R, l.id), PageMaxRows, PageMaxBytes)

QuotaInv ==
  /\ DepositQuotas(deposits) /\ RegistrationQuotas(registrations)
  /\ LeaseQuotas(deposits, leases, lease_rows)
  /\ PageQuotas(deposits, leases, lease_rows)

LEMMA SmallerWithin ==
  ASSUME NEW D \in SUBSET DepositRow, IsFiniteSet(D), NEW E \in SUBSET D,
         NEW items \in Nat, NEW bytes \in Nat, Within(D, items, bytes)
  PROVE  Within(E, items, bytes)
<1>1. Cardinality(E) <= Cardinality(D) /\ Cardinality(E) \in Nat /\ Cardinality(D) \in Nat
  BY FS_Subset, FS_CardinalityType
<1>2. Bytes(E) <= Bytes(D) /\ Bytes(E) \in Nat /\ Bytes(D) \in Nat
  BY BytesMonotone
<1> QED
  BY <1>1, <1>2 DEF Within

LEMMA Smaller ==
  ASSUME NEW S, IsFiniteSet(S), NEW T \in SUBSET S, NEW n \in Nat, Cardinality(S) <= n
  PROVE  Cardinality(T) <= n
<1>1. Cardinality(T) <= Cardinality(S) /\ Cardinality(T) \in Nat /\ Cardinality(S) \in Nat
  BY FS_Subset, FS_CardinalityType
<1> QED
  BY <1>1

\* The limits are numbers.
LEMMA LimitsAreNat ==
  /\ Config.max_total_items \in Nat /\ Config.max_total_bytes \in Nat
  /\ Config.max_per_token \in Nat /\ Config.max_bytes_per_token \in Nat
  /\ Config.max_per_client \in Nat /\ Config.max_bytes_per_client \in Nat
  /\ Config.max_tokens \in Nat /\ Config.max_tokens_per_client \in Nat
  /\ Config.max_live_leases \in Nat /\ Config.max_live_leases_per_client \in Nat
  /\ Config.max_live_leases_per_token \in Nat
  /\ PageMaxRows \in Nat /\ PageMaxBytes \in Nat /\ MaxEnvelopeBytes \in Nat
  BY RelayConstants

\* Deleting rows keeps every quota of the deposits.
LEMMA FewerDeposits ==
  ASSUME NEW D \in SUBSET DepositRow, DepositQuotas(D), NEW E \in SUBSET D
  PROVE  DepositQuotas(E)
<1>1. IsFiniteSet(D) /\ IsFiniteSet(E)
  BY FS_Subset DEF DepositQuotas
<1>2. Within(E, Config.max_total_items, Config.max_total_bytes)
  BY <1>1, SmallerWithin, LimitsAreNat DEF DepositQuotas
<1>3. ASSUME NEW t \in Tokens
      PROVE  Within(OfToken(E, t), Config.max_per_token, Config.max_bytes_per_token)
  <2>1. OfToken(E, t) \in SUBSET OfToken(D, t) /\ OfToken(D, t) \in SUBSET D
    BY DEF OfToken
  <2>2. IsFiniteSet(OfToken(D, t)) /\ OfToken(D, t) \in SUBSET DepositRow
    BY <1>1, <2>1, FS_Subset
  <2> QED
    BY <2>1, <2>2, SmallerWithin, LimitsAreNat DEF DepositQuotas
<1>4. ASSUME NEW c \in Clients
      PROVE  Within(OfClient(E, c), Config.max_per_client, Config.max_bytes_per_client)
  <2>1. OfClient(E, c) \in SUBSET OfClient(D, c) /\ OfClient(D, c) \in SUBSET D
    BY DEF OfClient
  <2>2. IsFiniteSet(OfClient(D, c)) /\ OfClient(D, c) \in SUBSET DepositRow
    BY <1>1, <2>1, FS_Subset
  <2> QED
    BY <2>1, <2>2, SmallerWithin, LimitsAreNat DEF DepositQuotas
<1>5. \A d \in E : d.env.len <= MaxEnvelopeBytes
  BY DEF DepositQuotas
<1> QED
  BY <1>1, <1>2, <1>3, <1>4, <1>5 DEF DepositQuotas

\* A row that found room keeps the quota it was checked against.
LEMMA RoomWithin ==
  ASSUME NEW D \in SUBSET DepositRow, IsFiniteSet(D), NEW n \in DepositRow, n \notin D,
         NEW items \in Nat, NEW bytes \in Nat, Room(D, n.env, items, bytes)
  PROVE  Within(D \cup {n}, items, bytes)
<1>1. Cardinality(D \cup {n}) = Cardinality(D) + 1 /\ Cardinality(D) \in Nat
  BY FS_AddElement, FS_CardinalityType
<1>2. Bytes(D \cup {n}) = Bytes(D) + n.env.len
  BY BytesAdded
<1> QED
  BY <1>1, <1>2 DEF Room, Within

LEMMA OneMoreDeposit ==
  ASSUME NEW D \in SUBSET DepositRow, DepositQuotas(D), NEW n \in DepositRow, n \notin D,
         n.env.len <= MaxEnvelopeBytes,
         Room(D, n.env, Config.max_total_items, Config.max_total_bytes),
         Room(OfToken(D, n.env.token), n.env, Config.max_per_token, Config.max_bytes_per_token),
         Room(OfClient(D, n.client), n.env, Config.max_per_client, Config.max_bytes_per_client)
  PROVE  DepositQuotas(D \cup {n})
<1>1. IsFiniteSet(D) /\ IsFiniteSet(D \cup {n})
  BY FS_AddElement DEF DepositQuotas
<1>2. Within(D \cup {n}, Config.max_total_items, Config.max_total_bytes)
  BY <1>1, RoomWithin, LimitsAreNat
<1>3. ASSUME NEW t \in Tokens
      PROVE  Within(OfToken(D \cup {n}, t), Config.max_per_token, Config.max_bytes_per_token)
  <2>1. OfToken(D, t) \in SUBSET D /\ n \notin OfToken(D, t)
    BY DEF OfToken
  <2>2. IsFiniteSet(OfToken(D, t)) /\ OfToken(D, t) \in SUBSET DepositRow
    BY <1>1, <2>1, FS_Subset
  <2>3. CASE t = n.env.token
    <3>1. OfToken(D \cup {n}, t) = OfToken(D, t) \cup {n}
      BY <2>3 DEF OfToken
    <3>2. Room(OfToken(D, t), n.env, Config.max_per_token, Config.max_bytes_per_token)
      BY <2>3
    <3>3. Within(OfToken(D, t) \cup {n}, Config.max_per_token, Config.max_bytes_per_token)
      BY <2>1, <2>2, <3>2, RoomWithin, LimitsAreNat
    <3> QED
      BY <3>1, <3>3
  <2>4. CASE t # n.env.token
    <3>1. OfToken(D \cup {n}, t) = OfToken(D, t)
      BY <2>4 DEF OfToken
    <3> QED
      BY <3>1 DEF DepositQuotas
  <2> QED
    BY <2>3, <2>4
<1>4. ASSUME NEW c \in Clients
      PROVE  Within(OfClient(D \cup {n}, c), Config.max_per_client, Config.max_bytes_per_client)
  <2>1. OfClient(D, c) \in SUBSET D /\ n \notin OfClient(D, c)
    BY DEF OfClient
  <2>2. IsFiniteSet(OfClient(D, c)) /\ OfClient(D, c) \in SUBSET DepositRow
    BY <1>1, <2>1, FS_Subset
  <2>3. CASE c = n.client
    <3>1. OfClient(D \cup {n}, c) = OfClient(D, c) \cup {n}
      BY <2>3 DEF OfClient
    <3>2. Room(OfClient(D, c), n.env, Config.max_per_client, Config.max_bytes_per_client)
      BY <2>3
    <3>3. Within(OfClient(D, c) \cup {n}, Config.max_per_client, Config.max_bytes_per_client)
      BY <2>1, <2>2, <3>2, RoomWithin, LimitsAreNat
    <3> QED
      BY <3>1, <3>3
  <2>4. CASE c # n.client
    <3>1. OfClient(D \cup {n}, c) = OfClient(D, c)
      BY <2>4 DEF OfClient
    <3> QED
      BY <3>1 DEF DepositQuotas
  <2> QED
    BY <2>3, <2>4
<1>5. \A d \in D \cup {n} : d.env.len <= MaxEnvelopeBytes
  BY DEF DepositQuotas
<1> QED
  BY <1>1, <1>2, <1>3, <1>4, <1>5 DEF DepositQuotas

\* Expired registrations only leave room.
LEMMA FewerRegistrations ==
  ASSUME NEW G, RegistrationQuotas(G), NEW H \in SUBSET G
  PROVE  RegistrationQuotas(H)
<1>1. IsFiniteSet(G) /\ IsFiniteSet(H)
  BY FS_Subset DEF RegistrationQuotas
<1>2. Cardinality(H) <= Config.max_tokens
  BY <1>1, Smaller, LimitsAreNat DEF RegistrationQuotas
<1>3. ASSUME NEW c \in Clients PROVE Cardinality(OwnedBy(H, c)) <= Config.max_tokens_per_client
  <2>1. OwnedBy(H, c) \in SUBSET OwnedBy(G, c) /\ OwnedBy(G, c) \in SUBSET G
    BY DEF OwnedBy
  <2>2. IsFiniteSet(OwnedBy(G, c))
    BY <1>1, <2>1, FS_Subset
  <2> QED
    BY <2>1, <2>2, Smaller, LimitsAreNat DEF RegistrationQuotas
<1> QED
  BY <1>1, <1>2, <1>3 DEF RegistrationQuotas

\* Leases that close, and lease rows that are acknowledged, only leave room.
LEMMA FewerLeases ==
  ASSUME NEW D, NEW L, NEW R, NEW D2, NEW L2, NEW R2, LeaseQuotas(D, L, R),
         IsFiniteSet(L2), Open(L2) \subseteq Open(L),
         \A lr \in R2, d \in D2 : ~lr.acknowledged /\ d.row = lr.row => lr \in R /\ d \in D
  PROVE  LeaseQuotas(D2, L2, R2)
<1>1. IsFiniteSet(Open(L))
  BY FS_Subset DEF LeaseQuotas, Open
<1>2. Cardinality(Open(L2)) <= Config.max_live_leases
  BY <1>1, Smaller, LimitsAreNat DEF LeaseQuotas
<1>3. ASSUME NEW c \in Clients
      PROVE  Cardinality({l \in Open(L2) : l.client = c}) <= Config.max_live_leases_per_client
  <2> DEFINE S == {l \in Open(L) : l.client = c}
             T == {l \in Open(L2) : l.client = c}
  <2>1. T \in SUBSET S /\ S \in SUBSET Open(L)
    OBVIOUS
  <2>2. IsFiniteSet(S)
    BY <1>1, <2>1, FS_Subset
  <2>3. Cardinality(S) <= Config.max_live_leases_per_client
    BY DEF LeaseQuotas
  <2> HIDE DEF S, T
  <2>4. Cardinality(T) <= Config.max_live_leases_per_client
    BY <2>1, <2>2, <2>3, Smaller, LimitsAreNat
  <2> QED
    BY <2>4 DEF T
<1>4. ASSUME NEW t \in Tokens
      PROVE  Cardinality(HoldingToken(Open(L2), R2, D2, t)) <= Config.max_live_leases_per_token
  <2>1. /\ HoldingToken(Open(L2), R2, D2, t) \in SUBSET HoldingToken(Open(L), R, D, t)
        /\ HoldingToken(Open(L), R, D, t) \in SUBSET Open(L)
    BY DEF HoldingToken, Unacked
  <2>2. IsFiniteSet(HoldingToken(Open(L), R, D, t))
    BY <1>1, <2>1, FS_Subset
  <2> QED
    BY <2>1, <2>2, Smaller, LimitsAreNat DEF LeaseQuotas
<1> QED
  BY <1>2, <1>3, <1>4 DEF LeaseQuotas

LEMMA FewerOut ==
  ASSUME NEW D \in SUBSET DepositRow, IsFiniteSet(D), NEW L, NEW R, NEW D2, NEW L2, NEW R2,
         PageQuotas(D, L, R), \A m \in L2 : \E l \in L : l.id = m.id,
         \A lr \in R2, d \in D2 : ~lr.acknowledged /\ d.row = lr.row => lr \in R /\ d \in D
  PROVE  PageQuotas(D2, L2, R2)
<1> SUFFICES ASSUME NEW m \in L2 PROVE Within(OutOn(D2, R2, m.id), PageMaxRows, PageMaxBytes)
  BY DEF PageQuotas
<1>1. PICK l \in L : l.id = m.id
  OBVIOUS
<1>2. OutOn(D2, R2, m.id) \in SUBSET OutOn(D, R, m.id) /\ OutOn(D, R, m.id) \in SUBSET D
  BY DEF OutOn
<1>3. IsFiniteSet(OutOn(D, R, m.id)) /\ OutOn(D, R, m.id) \in SUBSET DepositRow
  BY <1>2, FS_Subset
<1>4. Within(OutOn(D, R, m.id), PageMaxRows, PageMaxBytes)
  BY <1>1 DEF PageQuotas
<1> QED
  BY <1>2, <1>3, <1>4, SmallerWithin, LimitsAreNat

-----------------------------------------------------------------------------
(* What the operations add.                                                *)

LEMMA OneMore ==
  ASSUME NEW S, IsFiniteSet(S), NEW n, NEW T \in SUBSET (S \cup {n}),
         NEW lim \in Nat, Cardinality(S) < lim
  PROVE  Cardinality(T) <= lim
<1>1. IsFiniteSet(S \cup {n}) /\ Cardinality(S) \in Nat
  BY FS_AddElement, FS_CardinalityType
<1>2. Cardinality(S \cup {n}) = Cardinality(S) \/ Cardinality(S \cup {n}) = Cardinality(S) + 1
  BY FS_AddElement
<1>3. Cardinality(S \cup {n}) <= lim
  BY <1>1, <1>2
<1> QED
  BY <1>1, <1>3, Smaller

\* A renewal replaces the registrations of its tokens, so that only tokens
\* without one add to the count.
LEMMA UpsertCount ==
  ASSUME NEW G, IsFiniteSet(G), NEW toks, IsFiniteSet(toks),
         NEW N, NEW f \in Surjection(toks, N), NEW lim \in Nat,
         Cardinality(G) + Cardinality({t \in toks : ~ \E r \in G : r.token = t}) <= lim
  PROVE  /\ IsFiniteSet({r \in G : r.token \notin toks} \cup N)
         /\ Cardinality({r \in G : r.token \notin toks} \cup N) <= lim
<1> DEFINE K == {r \in G : r.token \notin toks}
           old == {t \in toks : \E r \in G : r.token = t}
           new == {t \in toks : ~ \E r \in G : r.token = t}
           g == [r \in G \ K |-> r.token]
<1>1. /\ IsFiniteSet(K) /\ IsFiniteSet(G \ K) /\ IsFiniteSet(old) /\ IsFiniteSet(new)
      /\ K \cap (G \ K) = {} /\ K \cup (G \ K) = G
      /\ old \cap new = {} /\ old \cup new = toks
  <2>1. K \in SUBSET G /\ G \ K \in SUBSET G /\ old \in SUBSET toks /\ new \in SUBSET toks
    OBVIOUS
  <2>2. /\ IsFiniteSet(K) /\ IsFiniteSet(G \ K) /\ IsFiniteSet(old) /\ IsFiniteSet(new)
    BY <2>1, FS_Subset
  <2> QED
    BY <2>2
<1>2. IsFiniteSet(N) /\ Cardinality(N) <= Cardinality(toks)
  BY FS_Surjection
<1>3. g \in Surjection(G \ K, old)
  BY DEF Surjection
<1>4. Cardinality(old) <= Cardinality(G \ K)
  BY <1>1, <1>3, FS_Surjection
<1> HIDE DEF K, old, new, g
<1>5. Cardinality({}) = 0
  BY FS_EmptySet
<1>6. Cardinality(G) = Cardinality(K) + Cardinality(G \ K) - 0
  BY <1>1, <1>5, FS_Union
<1>7. Cardinality(toks) = Cardinality(old) + Cardinality(new) - 0
  BY <1>1, <1>5, FS_Union
<1>8. /\ IsFiniteSet(K \cup N)
      /\ Cardinality(K \cup N) = Cardinality(K) + Cardinality(N) - Cardinality(K \cap N)
  BY <1>1, <1>2, FS_Union
<1>9. IsFiniteSet(K \cap N)
  BY <1>1, FS_Intersection
<1>10. /\ Cardinality(G) \in Nat /\ Cardinality(K) \in Nat /\ Cardinality(G \ K) \in Nat
       /\ Cardinality(toks) \in Nat /\ Cardinality(old) \in Nat /\ Cardinality(new) \in Nat
       /\ Cardinality(N) \in Nat /\ Cardinality(K \cap N) \in Nat
  BY <1>1, <1>2, <1>9, FS_CardinalityType
<1>11. Cardinality(G) + Cardinality(new) <= lim
  BY DEF new
<1>12. Cardinality(K \cup N) <= lim
  BY <1>2, <1>4, <1>6, <1>7, <1>8, <1>10, <1>11
<1> QED
  BY <1>8, <1>12 DEF K

\* RegistrationsFit and Register, stated of a table.
Fits(G, c, toks) ==
  /\ Cardinality(G) + Cardinality({t \in toks : ~ \E r \in G : r.token = t})
       <= Config.max_tokens
  /\ Cardinality(OwnedBy(G, c))
       + Cardinality({t \in toks : ~ \E r \in G : r.token = t /\ r.client = c})
       <= Config.max_tokens_per_client

Upserted(G, c, toks, e) ==
  {r \in G : r.token \notin toks}
  \cup {[token |-> t, client |-> c, expires_at |-> e] : t \in toks}

\* Whoever takes tokens over stays within both registration limits.
LEMMA UpsertKeepsQuotas ==
  ASSUME NEW G, RegistrationQuotas(G), NEW c \in Clients,
         NEW toks \in SUBSET Tokens, NEW e, Fits(G, c, toks)
  PROVE  RegistrationQuotas(Upserted(G, c, toks, e))
<1> DEFINE N == {[token |-> t, client |-> c, expires_at |-> e] : t \in toks}
           f == [t \in toks |-> [token |-> t, client |-> c, expires_at |-> e]]
           H == {r \in G : r.token \notin toks} \cup N
<1>1. IsFiniteSet(G) /\ IsFiniteSet(toks)
  BY RelayConstants, FS_Subset DEF RegistrationQuotas
<1>2. f \in Surjection(toks, N)
  BY DEF Surjection
<1>3. \A r \in N : r.client = c
  OBVIOUS
<1> HIDE DEF N, f
<1>4. IsFiniteSet(H) /\ Cardinality(H) <= Config.max_tokens
  BY <1>1, <1>2, UpsertCount, LimitsAreNat DEF Fits
<1>5. Cardinality(OwnedBy(H, c)) <= Config.max_tokens_per_client
  <2> DEFINE O == OwnedBy(G, c)
  <2>1. IsFiniteSet(O)
    BY <1>1, FS_Subset DEF OwnedBy
  <2>2. {t \in toks : ~ \E r \in G : r.token = t /\ r.client = c}
          = {t \in toks : ~ \E r \in O : r.token = t}
    BY DEF OwnedBy
  <2>3. OwnedBy(H, c) = {r \in O : r.token \notin toks} \cup N
    BY <1>3 DEF OwnedBy
  <2>4. Cardinality(O) + Cardinality({t \in toks : ~ \E r \in O : r.token = t})
          <= Config.max_tokens_per_client
    BY <2>2 DEF Fits
  <2> HIDE DEF O
  <2>5. Cardinality({r \in O : r.token \notin toks} \cup N) <= Config.max_tokens_per_client
    BY <1>1, <1>2, <2>1, <2>4, UpsertCount, LimitsAreNat
  <2> QED
    BY <2>3, <2>5
<1>6. ASSUME NEW b \in Clients, b # c
      PROVE  Cardinality(OwnedBy(H, b)) <= Config.max_tokens_per_client
  <2>1. OwnedBy(H, b) \in SUBSET OwnedBy(G, b) /\ OwnedBy(G, b) \in SUBSET G
    BY <1>3, <1>6 DEF OwnedBy
  <2>2. IsFiniteSet(OwnedBy(G, b))
    BY <1>1, <2>1, FS_Subset
  <2> QED
    BY <2>1, <2>2, Smaller, LimitsAreNat DEF RegistrationQuotas
<1>7. RegistrationQuotas(H)
  BY <1>4, <1>5, <1>6 DEF RegistrationQuotas
<1> QED
  BY <1>7 DEF N, Upserted

\* A new lease that found capacity keeps the lease limits: the tokens it can
\* hold rows of are those of its request.
LEMMA OneMoreLease ==
  ASSUME NEW D, NEW L, NEW R, LeaseQuotas(D, L, R), NEW n, NEW new, NEW toks,
         \A lr \in new : lr.lease = n.id,
         \A lr \in new, d \in D : d.row = lr.row => d.env.token \in toks,
         \A l \in L : l.id # n.id,
         \A lr \in R : lr.lease # n.id,
         Cardinality(Open(L)) < Config.max_live_leases,
         Cardinality({l \in Open(L) : l.client = n.client}) < Config.max_live_leases_per_client,
         \A t \in toks : Cardinality(HoldingToken(Open(L), R, D, t))
                           < Config.max_live_leases_per_token
  PROVE  LeaseQuotas(D, L \cup {n}, R \cup new)
<1> DEFINE M == L \cup {n}
<1>1. IsFiniteSet(L) /\ IsFiniteSet(M) /\ IsFiniteSet(Open(L))
  <2>1. IsFiniteSet(L) /\ Open(L) \in SUBSET L
    BY DEF LeaseQuotas, Open
  <2> QED
    BY <2>1, FS_AddElement, FS_Subset
<1>2. Cardinality(Open(M)) <= Config.max_live_leases
  <2>1. Open(M) \in SUBSET (Open(L) \cup {n})
    BY DEF Open
  <2> QED
    BY <1>1, <2>1, OneMore, LimitsAreNat
<1>3. ASSUME NEW c \in Clients
      PROVE  Cardinality({l \in Open(M) : l.client = c}) <= Config.max_live_leases_per_client
  <2> DEFINE S == {l \in Open(L) : l.client = c}
             T == {l \in Open(M) : l.client = c}
  <2>1. T \in SUBSET (S \cup {n}) /\ (c # n.client => T \in SUBSET S)
    BY DEF Open
  <2>2. IsFiniteSet(S)
    BY <1>1, FS_Subset
  <2>3. Cardinality(S) <= Config.max_live_leases_per_client
    BY DEF LeaseQuotas
  <2>4. c = n.client => Cardinality(S) < Config.max_live_leases_per_client
    OBVIOUS
  <2> HIDE DEF S, T
  <2>5. CASE c = n.client
    <3>1. Cardinality(T) <= Config.max_live_leases_per_client
      BY <2>1, <2>2, <2>4, <2>5, OneMore, LimitsAreNat
    <3> QED
      BY <3>1 DEF T
  <2>6. CASE c # n.client
    <3>1. Cardinality(T) <= Config.max_live_leases_per_client
      BY <2>1, <2>2, <2>3, <2>6, Smaller, LimitsAreNat
    <3> QED
      BY <3>1 DEF T
  <2> QED
    BY <2>5, <2>6
<1>4. ASSUME NEW t \in Tokens
      PROVE  Cardinality(HoldingToken(Open(M), R \cup new, D, t))
               <= Config.max_live_leases_per_token
  <2> DEFINE S == HoldingToken(Open(L), R, D, t)
             T == HoldingToken(Open(M), R \cup new, D, t)
  <2>1. T \in SUBSET (S \cup {n}) /\ (t \notin toks => T \in SUBSET S)
    BY DEF Open, HoldingToken, Unacked
  <2>2. IsFiniteSet(S)
    BY <1>1, FS_Subset DEF HoldingToken
  <2>3. Cardinality(S) <= Config.max_live_leases_per_token
    BY DEF LeaseQuotas
  <2>4. t \in toks => Cardinality(S) < Config.max_live_leases_per_token
    OBVIOUS
  <2> HIDE DEF S, T
  <2>5. CASE t \in toks
    <3>1. Cardinality(T) <= Config.max_live_leases_per_token
      BY <2>1, <2>2, <2>4, <2>5, OneMore, LimitsAreNat
    <3> QED
      BY <3>1 DEF T
  <2>6. CASE t \notin toks
    <3>1. Cardinality(T) <= Config.max_live_leases_per_token
      BY <2>1, <2>2, <2>3, <2>6, Smaller, LimitsAreNat
    <3> QED
      BY <3>1 DEF T
  <2> QED
    BY <2>5, <2>6
<1> QED
  BY <1>1, <1>2, <1>3, <1>4 DEF LeaseQuotas

\* A page fits the bounds of available_rows_on, and is empty only if nothing
\* was available: the first row always fits.
LEMMA PageFits ==
  ASSUME NEW D \in SUBSET DepositRow, IsFiniteSet(D), DistinctRows(D),
         \A d \in D : d.env.len <= MaxEnvelopeBytes,
         NEW page \in SUBSET FirstRows(D), GreedyPage(page, FirstRows(D))
  PROVE  /\ Within(page, PageMaxRows, PageMaxBytes)
         /\ page = {} => D = {}
<1>1. /\ FirstRows(D) \in SUBSET D /\ IsFiniteSet(FirstRows(D))
      /\ Cardinality(FirstRows(D)) <= PageMaxRows
  BY FirstRowsBound
<1>2. page \in SUBSET DepositRow /\ IsFiniteSet(page) /\ DistinctRows(page)
  <2>1. IsFiniteSet(page)
    BY <1>1, FS_Subset
  <2> QED
    BY <1>1, <2>1 DEF DistinctRows
<1>3. Cardinality(page) <= PageMaxRows
  BY <1>1, Smaller, LimitsAreNat
<1>4. Bytes(page) <= PageMaxBytes
  <2>1. CASE page = {}
    BY <2>1, NoRowsNoBytes, LimitsAreNat
  <2>2. CASE page # {}
    <3>1. PICK d \in page : page = Before(page, d) \cup {d} /\ d \notin Before(page, d)
      BY <1>2, <2>2, FirstAndLast
    <3>2. Bytes(Before(page, d)) + d.env.len <= PageMaxBytes
      BY DEF GreedyPage, Before
    <3>3. Before(page, d) \in SUBSET page
      BY DEF Before
    <3>4. Before(page, d) \in SUBSET DepositRow /\ IsFiniteSet(Before(page, d)) /\ d \in DepositRow
      BY <1>2, <3>3, FS_Subset
    <3>5. Bytes(Before(page, d) \cup {d}) = Bytes(Before(page, d)) + d.env.len
      BY <3>1, <3>4, BytesAdded
    <3> QED
      BY <3>1, <3>2, <3>5
  <2> QED
    BY <2>1, <2>2
<1>5. ASSUME D # {} PROVE page # {}
  <2>1. PICK d \in D : Before(D, d) = {}
    BY <1>5, FirstAndLast
  <2>2. d \in FirstRows(D)
    <3>1. Cardinality({e \in D : e.row < d.row}) = 0
      BY <2>1, FS_EmptySet DEF Before
    <3>2. PageMaxRows \in Nat \ {0}
      BY RelayConstants
    <3> QED
      BY <3>1, <3>2 DEF FirstRows
  <2>3. {e \in page : e.row < d.row} = {}
    BY <1>1, <2>1 DEF Before
  <2>4. 0 + d.env.len <= PageMaxBytes
    <3>1. d.env.len \in Nat /\ d.env.len <= MaxEnvelopeBytes
      BY RowLength
    <3> QED
      BY <3>1, RelayConstants
  <2> QED
    BY <2>2, <2>3, <2>4, NoRowsNoBytes DEF GreedyPage
<1> QED
  BY <1>3, <1>4, <1>5 DEF Within

-----------------------------------------------------------------------------
(* The quotas survive every operation.                                     *)

\* The quotas of the swept tables, and what else the operations start from.
LEMMA SweepKeepsQuotas ==
  ASSUME RelayInv, QuotaInv
  PROVE  /\ TablesOK(SweptDeposits, SweptLeases, SweptLeaseRows, nextRow, nextLease)
         /\ SweptDeposits \in SUBSET DepositRow
         /\ DepositQuotas(SweptDeposits)
         /\ RegistrationQuotas(SweptRegistrations)
         /\ LeaseQuotas(SweptDeposits, SweptLeases, SweptLeaseRows)
         /\ PageQuotas(SweptDeposits, SweptLeases, SweptLeaseRows)
<1>1. TablesOK(SweptDeposits, SweptLeases, SweptLeaseRows, nextRow, nextLease)
  BY SweepKeepsTables, RelayConstants DEF RelayInv, ScalarsOK
<1>2. /\ SweptDeposits \in SUBSET deposits /\ SweptLeases \in SUBSET leases
      /\ SweptLeaseRows \in SUBSET lease_rows /\ SweptRegistrations \in SUBSET registrations
  BY DEF SweptDeposits, SweptLeases, SweptLeaseRows, SweptRegistrations
<1>3. deposits \in SUBSET DepositRow /\ IsFiniteSet(deposits) /\ IsFiniteSet(leases)
  BY DEF RelayInv, TablesOK, TablesTyped, QuotaInv, DepositQuotas, LeaseQuotas
<1>4. IsFiniteSet(SweptLeases) /\ Open(SweptLeases) \subseteq Open(leases)
  <2>1. IsFiniteSet(SweptLeases)
    BY <1>2, <1>3, FS_Subset
  <2> QED
    BY <1>2, <2>1 DEF Open
<1>5. DepositQuotas(SweptDeposits)
  BY <1>2, <1>3, FewerDeposits DEF QuotaInv
<1>6. RegistrationQuotas(SweptRegistrations)
  BY <1>2, FewerRegistrations DEF QuotaInv
<1>7. \A lr \in SweptLeaseRows, d \in SweptDeposits :
        ~lr.acknowledged /\ d.row = lr.row => lr \in lease_rows /\ d \in deposits
  BY <1>2
<1>8. LeaseQuotas(SweptDeposits, SweptLeases, SweptLeaseRows)
  BY <1>4, <1>7, FewerLeases DEF QuotaInv
<1>9. PageQuotas(SweptDeposits, SweptLeases, SweptLeaseRows)
  <2>1. \A m \in SweptLeases : \E l \in leases : l.id = m.id
    BY <1>2
  <2> QED
    BY <1>3, <1>7, <2>1, FewerOut DEF QuotaInv
<1> QED
  BY <1>1, <1>2, <1>3, <1>5, <1>6, <1>8, <1>9

LEMMA OnlySweepKeepsQuotas ==
  ASSUME RelayInv, QuotaInv, OnlySweep
  PROVE  QuotaInv'
  BY SweepKeepsQuotas DEF OnlySweep, LeasesOnlySwept, QuotaInv

\* The upsert of a request that passed RegistrationsFit.
LEMMA RegisterKeepsQuotas ==
  ASSUME RelayInv, QuotaInv, NEW c \in Clients, NEW toks \in SUBSET Tokens,
         LeasePasses(c, toks), Register(c, toks)
  PROVE  RegistrationQuotas(registrations')
<1>1. RegistrationQuotas(SweptRegistrations)
  BY SweepKeepsQuotas
<1>2. Fits(SweptRegistrations, c, toks)
  BY DEF LeasePasses, RegistrationsFit, Registered, Fits
<1>3. registrations' = Upserted(SweptRegistrations, c, toks, clock + Config.registration_ttl)
  BY DEF Register, Upserted
<1> QED
  BY <1>1, <1>2, <1>3, UpsertKeepsQuotas

LEMMA RegisterOnlyKeepsQuotas ==
  ASSUME RelayInv, QuotaInv, NEW c \in Clients, NEW toks \in SUBSET Tokens,
         LeaseAtCapacity(c, toks) \/ LeaseReplay(c, toks)
  PROVE  QuotaInv'
<1>1. LeasePasses(c, toks) /\ Register(c, toks)
  BY DEF LeaseAtCapacity, LeaseReplay
<1>2. RegistrationQuotas(registrations')
  BY <1>1, RegisterKeepsQuotas
<1>3. deposits' = SweptDeposits /\ leases' = SweptLeases /\ lease_rows' = SweptLeaseRows
  BY DEF LeaseAtCapacity, LeaseReplay, LeasesOnlySwept
<1> QED
  BY <1>2, <1>3, SweepKeepsQuotas DEF QuotaInv

\* A stored row is on no lease: its number is new.
LEMMA DepositAcceptKeepsQuotas ==
  ASSUME RelayInv, QuotaInv, NEW c \in Clients, NEW env \in Envelopes, DepositAccept(c, env)
  PROVE  QuotaInv'
<1> DEFINE n == [row |-> nextRow, env |-> env, client |-> c, expires_at |-> ExpiryOf(env)]
           D == SweptDeposits
           L == SweptLeases
           R == SweptLeaseRows
<1>1. /\ TablesOK(D, L, R, nextRow, nextLease)
      /\ D \in SUBSET DepositRow
      /\ DepositQuotas(D) /\ RegistrationQuotas(SweptRegistrations)
      /\ LeaseQuotas(D, L, R) /\ PageQuotas(D, L, R)
  BY SweepKeepsQuotas
<1>2. n \in DepositRow /\ n.row = nextRow /\ n.env = env /\ n.client = c
  <2>1. ExpiryOf(env) \in Nat /\ nextRow \in Nat
    BY RelayConstants DEF RelayInv, ScalarsOK, ExpiryOf
  <2> QED
    BY <2>1 DEF DepositRow
<1>3. /\ Room(D, env, Config.max_total_items, Config.max_total_bytes)
      /\ Room(OfToken(D, env.token), env, Config.max_per_token, Config.max_bytes_per_token)
      /\ Room(OfClient(D, c), env, Config.max_per_client, Config.max_bytes_per_client)
      /\ env.len <= MaxEnvelopeBytes
  BY DEF DepositAccept, HasRoom, DepositPasses, WellFormed
<1>4. /\ deposits' = D \cup {n} /\ leases' = L /\ lease_rows' = R
      /\ registrations' = SweptRegistrations
  BY DEF DepositAccept, LeasesOnlySwept
<1>5. \A d \in D : d.row < nextRow /\ d.row \in Nat
  BY <1>1 DEF TablesOK, DepositKeys, DepositRow
<1>6. \A lr \in R : lr.row < nextRow /\ lr.row \in Nat
  BY <1>1 DEF TablesOK, RowKeys, TablesTyped, LeaseRow
<1>7. nextRow \in Nat
  BY DEF RelayInv, ScalarsOK
<1> HIDE DEF n, D, L, R
<1>8. n \notin D
  BY <1>2, <1>5, <1>7
<1>9. DepositQuotas(D \cup {n})
  BY <1>1, <1>2, <1>3, <1>8, OneMoreDeposit
<1>10. \A lr \in R, d \in D \cup {n} :
         ~lr.acknowledged /\ d.row = lr.row => lr \in R /\ d \in D
  BY <1>2, <1>6, <1>7
<1>11. IsFiniteSet(L) /\ IsFiniteSet(D)
  BY <1>1 DEF LeaseQuotas, DepositQuotas
<1>12. LeaseQuotas(D \cup {n}, L, R)
  BY <1>1, <1>10, <1>11, FewerLeases
<1>13. PageQuotas(D \cup {n}, L, R)
  BY <1>1, <1>10, <1>11, FewerOut
<1> QED
  BY <1>1, <1>4, <1>9, <1>12, <1>13 DEF QuotaInv

\* A grant hands out available rows only, under a new lease id.
LEMMA GrantedPage ==
  ASSUME RelayInv, QuotaInv, NEW c \in Clients, NEW toks \in SUBSET Tokens,
         NEW page \in SUBSET deposits, LeaseGrant(c, toks, page)
  PROVE  /\ page \in SUBSET SweptDeposits
         /\ \A d \in page : d.env.token \in toks
         /\ Within(page, PageMaxRows, PageMaxBytes)
         /\ page = {} => Available(toks) = {}
<1> DEFINE A == Available(toks)
<1>1. A \in SUBSET SweptDeposits /\ \A d \in A : d.env.token \in toks
  BY DEF Available
<1>2. /\ TablesOK(SweptDeposits, SweptLeases, SweptLeaseRows, nextRow, nextLease)
      /\ SweptDeposits \in SUBSET DepositRow /\ DepositQuotas(SweptDeposits)
  BY SweepKeepsQuotas
<1>3. A \in SUBSET DepositRow /\ IsFiniteSet(A) /\ \A d \in A : d.env.len <= MaxEnvelopeBytes
  BY <1>1, <1>2, FS_Subset DEF DepositQuotas
<1>4. DistinctRows(A)
  BY <1>1, <1>2 DEF TablesOK, DepositKeys, DistinctRows
<1>5. page \in SUBSET FirstRows(A) /\ GreedyPage(page, FirstRows(A))
  BY DEF LeaseGrant
<1> HIDE DEF A
<1>6. Within(page, PageMaxRows, PageMaxBytes) /\ (page = {} => A = {})
  BY <1>3, <1>4, <1>5, PageFits
<1>7. page \in SUBSET A
  BY <1>5 DEF FirstRows
<1> QED
  BY <1>1, <1>6, <1>7 DEF A

LEMMA LeaseGrantKeepsQuotas ==
  ASSUME RelayInv, QuotaInv, NEW c \in Clients, NEW toks \in SUBSET Tokens,
         NEW page \in SUBSET deposits, LeaseGrant(c, toks, page)
  PROVE  QuotaInv'
<1> DEFINE n == [id |-> nextLease, client |-> c, filter |-> toks, created_at |-> clock,
                 expires_at |-> clock + Config.lease_ttl, closed |-> page = {}]
           new == {[lease |-> nextLease, row |-> d.row, acknowledged |-> FALSE] : d \in page}
           D == SweptDeposits
           L == SweptLeases
           R == SweptLeaseRows
<1>1. /\ TablesOK(D, L, R, nextRow, nextLease)
      /\ D \in SUBSET DepositRow
      /\ DepositQuotas(D) /\ LeaseQuotas(D, L, R) /\ PageQuotas(D, L, R)
  BY SweepKeepsQuotas
<1>2. RegistrationQuotas(registrations')
  BY RegisterKeepsQuotas DEF LeaseGrant
<1>3. /\ page \in SUBSET D /\ \A d \in page : d.env.token \in toks
      /\ Within(page, PageMaxRows, PageMaxBytes)
  BY GrantedPage
<1>4. deposits' = D /\ leases' = L \cup {n} /\ lease_rows' = R \cup new
  BY DEF LeaseGrant
<1>5. n.id = nextLease /\ n.client = c
  OBVIOUS
<1>6. \A lr \in new : lr.lease = nextLease /\ \E d \in page : d.row = lr.row
  OBVIOUS
<1>7. nextLease \in Nat
  BY DEF RelayInv, ScalarsOK
<1>8. \A l \in L : l.id # nextLease
  BY <1>1, <1>7 DEF TablesOK, LeaseKeys, TablesTyped, LeaseRecord
<1>9. \A lr \in R : lr.lease # nextLease
  BY <1>1, <1>8 DEF TablesOK, RowKeys
<1>10. \A d, e \in D : d.row = e.row => d = e
  BY <1>1 DEF TablesOK, DepositKeys
<1>11. /\ Cardinality(Open(L)) < Config.max_live_leases
       /\ Cardinality({l \in Open(L) : l.client = c}) < Config.max_live_leases_per_client
       /\ \A t \in toks : Cardinality(HoldingToken(Open(L), R, D, t))
                            < Config.max_live_leases_per_token
  BY DEF LeaseGrant, LeaseCapacity
<1> HIDE DEF n, new, D, L, R
<1>12. \A lr \in new, d \in D : d.row = lr.row => d \in page
  BY <1>3, <1>6, <1>10
<1>13. LeaseQuotas(D, L \cup {n}, R \cup new)
  <2>1. \A lr \in new, d \in D : d.row = lr.row => d.env.token \in toks
    BY <1>3, <1>12
  <2>2. \A lr \in new : lr.lease = n.id
    BY <1>5, <1>6
  <2>3. (\A l \in L : l.id # n.id) /\ (\A lr \in R : lr.lease # n.id)
    BY <1>5, <1>8, <1>9
  <2>4. Cardinality({l \in Open(L) : l.client = n.client}) < Config.max_live_leases_per_client
    BY <1>5, <1>11
  <2> QED
    BY <1>1, <1>11, <2>1, <2>2, <2>3, <2>4, OneMoreLease
<1>14. PageQuotas(D, L \cup {n}, R \cup new)
  <2> SUFFICES ASSUME NEW m \in L \cup {n}
               PROVE  Within(OutOn(D, R \cup new, m.id), PageMaxRows, PageMaxBytes)
    BY DEF PageQuotas
  <2>1. CASE m = n
    <3> DEFINE O == OutOn(D, R \cup new, m.id)
    <3>1. O \in SUBSET page
      BY <1>5, <1>6, <1>9, <1>12, <2>1 DEF OutOn
    <3>2. page \in SUBSET DepositRow /\ IsFiniteSet(page)
      <4>1. IsFiniteSet(D)
        BY <1>1 DEF DepositQuotas
      <4> QED
        BY <1>1, <1>3, <4>1, FS_Subset
    <3>3. Within(page, PageMaxRows, PageMaxBytes)
      BY <1>3
    <3> HIDE DEF O
    <3>4. Within(O, PageMaxRows, PageMaxBytes)
      BY <3>1, <3>2, <3>3, SmallerWithin, LimitsAreNat
    <3> QED
      BY <3>4 DEF O
  <2>2. CASE m \in L
    <3>1. OutOn(D, R \cup new, m.id) = OutOn(D, R, m.id)
      BY <1>6, <1>8, <2>2 DEF OutOn
    <3> QED
      BY <1>1, <2>2, <3>1 DEF PageQuotas
  <2> QED
    BY <2>1, <2>2
<1> QED
  BY <1>1, <1>2, <1>4, <1>13, <1>14 DEF QuotaInv

\* An acknowledgement deletes rows and may close its lease.
LEMMA AckAcceptKeepsQuotas ==
  ASSUME RelayInv, QuotaInv, NEW c \in Clients, NEW id, NEW rows, AckAccept(c, id, rows)
  PROVE  QuotaInv'
<1> DEFINE D == SweptDeposits
           L == SweptLeases
           R == SweptLeaseRows
           fresh == {lr \in {a \in R : a.lease = id /\ a.row \in rows} : ~lr.acknowledged}
           done == {lr \in R : lr.lease = id /\ ~lr.acknowledged} \ fresh = {}
           upd == [l \in L |-> IF l.id = id /\ done THEN [l EXCEPT !.closed = TRUE] ELSE l]
<1>1. /\ TablesOK(D, L, R, nextRow, nextLease)
      /\ D \in SUBSET DepositRow
      /\ DepositQuotas(D) /\ RegistrationQuotas(SweptRegistrations)
      /\ LeaseQuotas(D, L, R) /\ PageQuotas(D, L, R)
  BY SweepKeepsQuotas
<1>2. /\ deposits' = {d \in D : ~ \E lr \in fresh : lr.row = d.row}
      /\ leases' = {IF l.id = id /\ done THEN [l EXCEPT !.closed = TRUE] ELSE l : l \in L}
      /\ lease_rows' = (R \ fresh) \cup {[lr EXCEPT !.acknowledged = TRUE] : lr \in fresh}
      /\ registrations' = SweptRegistrations
  BY DEF AckAccept
<1>3. fresh \in SUBSET R
  OBVIOUS
<1>4. L \in SUBSET LeaseRecord /\ R \in SUBSET LeaseRow
  BY <1>1 DEF TablesOK, TablesTyped
<1> HIDE DEF D, L, R, fresh, done
<1>5. upd \in Surjection(L, leases')
  BY <1>2 DEF Surjection
<1>6. \A l \in L : upd[l].id = l.id /\ (~upd[l].closed => upd[l] = l)
  BY <1>4 DEF LeaseRecord
<1>7. IsFiniteSet(L) /\ IsFiniteSet(D)
  BY <1>1 DEF LeaseQuotas, DepositQuotas
<1>8. IsFiniteSet(leases')
  BY <1>5, <1>7, FS_Surjection
<1>9. \A m \in leases' : \E l \in L : m = upd[l]
  BY <1>2
<1> HIDE DEF upd
<1>10. Open(leases') \subseteq Open(L)
  BY <1>6, <1>9 DEF Open
<1>11. \A lr \in lease_rows', d \in deposits' :
         ~lr.acknowledged /\ d.row = lr.row => lr \in R /\ d \in D
  <2>1. \A lr \in fresh : [lr EXCEPT !.acknowledged = TRUE].acknowledged
    BY <1>3, <1>4 DEF LeaseRow
  <2> QED
    BY <1>2, <2>1
<1>12. DepositQuotas(deposits')
  BY <1>1, <1>2, FewerDeposits
<1>13. LeaseQuotas(deposits', leases', lease_rows')
  BY <1>1, <1>8, <1>10, <1>11, FewerLeases
<1>14. PageQuotas(deposits', leases', lease_rows')
  <2>1. \A m \in leases' : \E l \in L : l.id = m.id
    BY <1>6, <1>9
  <2> QED
    BY <1>1, <1>7, <1>11, <2>1, FewerOut
<1> QED
  BY <1>1, <1>2, <1>12, <1>13, <1>14 DEF QuotaInv

LEMMA NextKeepsQuotas == RelayInv /\ QuotaInv /\ [Next]_vars => QuotaInv'
<1> SUFFICES ASSUME RelayInv, QuotaInv, [Next]_vars PROVE QuotaInv'
  OBVIOUS
<1>1. ASSUME NEW c \in Clients, NEW env \in Envelopes, DepositAccept(c, env)
      PROVE  QuotaInv'
  BY <1>1, DepositAcceptKeepsQuotas
<1>2. ASSUME NEW c \in Clients, NEW toks \in SUBSET Tokens,
             LeaseAtCapacity(c, toks) \/ LeaseReplay(c, toks)
      PROVE  QuotaInv'
  BY <1>2, RegisterOnlyKeepsQuotas
<1>3. ASSUME NEW c \in Clients, NEW toks \in SUBSET Tokens,
             NEW page \in SUBSET deposits, LeaseGrant(c, toks, page)
      PROVE  QuotaInv'
  BY <1>3, LeaseGrantKeepsQuotas
<1>4. ASSUME NEW c \in Clients, NEW id, NEW rows, AckAccept(c, id, rows)
      PROVE  QuotaInv'
  BY <1>4, AckAcceptKeepsQuotas
<1>5. CASE OnlySweep
  BY <1>5, OnlySweepKeepsQuotas
<1>6. CASE Reopen
  BY <1>5, <1>6 DEF Reopen
<1>7. CASE SetClock \/ UNCHANGED vars
  BY <1>7 DEF QuotaInv, SetClock, vars, tables
<1> QED
  BY <1>1, <1>2, <1>3, <1>4, <1>5, <1>6, <1>7
     DEF Next, DepositRepeat, DepositUnregistered, DepositRefuse, LeaseRefuse,
         AckRefuse, SweepOrRefuse

LEMMA InitWithinQuotas == Init => QuotaInv
<1> SUFFICES ASSUME Init PROVE QuotaInv
  OBVIOUS
<1>1. IsFiniteSet({}) /\ Cardinality({}) = 0
  BY FS_EmptySet
<1>2. \A items, bytes \in Nat : Within({}, items, bytes)
  BY <1>1, NoRowsNoBytes DEF Within
<1>3. /\ \A t \in Tokens : OfToken({}, t) = {}
      /\ \A c \in Clients : OfClient({}, c) = {} /\ OwnedBy({}, c) = {}
      /\ Open({}) = {} /\ \A t \in Tokens : HoldingToken({}, {}, {}, t) = {}
  BY DEF OfToken, OfClient, OwnedBy, Open, HoldingToken
<1>4. DepositQuotas({})
  <2>1. Within({}, Config.max_total_items, Config.max_total_bytes)
    BY <1>2, LimitsAreNat
  <2>2. ASSUME NEW t \in Tokens
        PROVE  Within(OfToken({}, t), Config.max_per_token, Config.max_bytes_per_token)
    BY <1>2, <1>3, LimitsAreNat
  <2>3. ASSUME NEW c \in Clients
        PROVE  Within(OfClient({}, c), Config.max_per_client, Config.max_bytes_per_client)
    BY <1>2, <1>3, LimitsAreNat
  <2> QED
    BY <1>1, <2>1, <2>2, <2>3 DEF DepositQuotas
<1>5. RegistrationQuotas({})
  <2>1. \A c \in Clients : Cardinality(OwnedBy({}, c)) <= Config.max_tokens_per_client
    BY <1>1, <1>3, LimitsAreNat
  <2>2. Cardinality({}) <= Config.max_tokens
    BY <1>1, LimitsAreNat
  <2> QED
    BY <1>1, <2>1, <2>2 DEF RegistrationQuotas
<1>6. LeaseQuotas({}, {}, {})
  <2>1. \A c \in Clients : {l \in Open({}) : l.client = c} = {}
    BY <1>3
  <2>2. \A c \in Clients : Cardinality({l \in Open({}) : l.client = c})
                            <= Config.max_live_leases_per_client
    BY <1>1, <2>1, LimitsAreNat
  <2>3. Cardinality(Open({})) <= Config.max_live_leases
    BY <1>1, <1>3, LimitsAreNat
  <2>4. \A t \in Tokens : Cardinality(HoldingToken(Open({}), {}, {}, t))
                           <= Config.max_live_leases_per_token
    BY <1>1, <1>3, LimitsAreNat
  <2> QED
    BY <1>1, <2>2, <2>3, <2>4 DEF LeaseQuotas
<1>7. PageQuotas({}, {}, {})
  BY DEF PageQuotas
<1> QED
  BY <1>4, <1>5, <1>6, <1>7 DEF Init, QuotaInv

LEMMA QuotasValidate == RelayInv /\ QuotaInv => ReopenAccepts
<1> SUFFICES ASSUME RelayInv, QuotaInv PROVE ReopenAccepts
  OBVIOUS
<1>1. Live(registrations) \in SUBSET registrations
  BY DEF Live
<1>2. RegistrationQuotas(Live(registrations))
  BY <1>1, FewerRegistrations DEF QuotaInv
<1>3. LeaseQuotas(deposits, Live(leases), lease_rows)
  <2>1. Live(leases) \in SUBSET leases
    BY DEF Live
  <2>2. IsFiniteSet(Live(leases)) /\ Open(Live(leases)) \subseteq Open(leases)
    <3>1. IsFiniteSet(Live(leases))
      BY <2>1, FS_Subset DEF QuotaInv, LeaseQuotas
    <3> QED
      BY <2>1, <3>1 DEF Open
  <2> QED
    BY <2>2, FewerLeases DEF QuotaInv
<1>4. \A l \in leases : Within(LeasedDeposits(l.id), PageMaxRows, PageMaxBytes)
  <2>1. \A l \in leases : LeasedDeposits(l.id) = OutOn(deposits, lease_rows, l.id)
    BY DEF LeasedDeposits, OutOn
  <2> QED
    BY <2>1 DEF QuotaInv, PageQuotas
<1>5. LeasedRowsStored
  BY DEF RelayInv, TablesOK, RowsStored, LeasedRowsStored
<1> QED
  BY <1>2, <1>3, <1>4, <1>5
     DEF QuotaInv, DepositQuotas, RegistrationQuotas, LeaseQuotas, ReopenAccepts, ValidateAll

\* Every database the operations leave behind passes validate_all, whatever the
\* limits, the envelopes and the clock: each quota that deposit_inner and
\* lease_inner check before a write still holds of all tables after it, and the
\* greedy loop of available_rows_on never overfills a page.
THEOREM RelayReopenAccepts == Spec => []ReopenAccepts
<1>1. RelayInv /\ QuotaInv /\ [Next]_vars => RelayInv' /\ QuotaInv'
  BY NextKeepsInv, NextKeepsQuotas
<1>2. Init => RelayInv /\ QuotaInv
  BY InitEstablishesInv, InitWithinQuotas
<1> QED BY <1>1, <1>2, QuotasValidate, PTL DEF Spec

-----------------------------------------------------------------------------
\* The step formula of DrainedWhenEmpty.
DrainedStep ==
  \A l \in leases' :
    l.id = nextLease /\ l.closed =>
      \A d \in deposits : d.env.token \in l.filter => d.expires_at <= clock \/ Held(d)

\* Only a grant creates a lease, and its page is empty only if every live row
\* of the tokens is held.
LEMMA DrainedWhenEmptyStep == RelayInv /\ QuotaInv /\ [Next]_vars => DrainedStep
<1> SUFFICES ASSUME RelayInv, QuotaInv, [Next]_vars,
                    NEW l \in leases', l.id = nextLease, l.closed,
                    NEW d \in deposits, d.env.token \in l.filter
             PROVE  d.expires_at <= clock \/ Held(d)
  BY DEF DrainedStep
<1>1. \A m \in leases : m.id # nextLease
  BY DEF RelayInv, ScalarsOK, TablesOK, LeaseKeys, TablesTyped, LeaseRecord
<1>2. SweptLeases \subseteq leases
  BY DEF SweptLeases
<1>3. ASSUME NEW c \in Clients, NEW toks \in SUBSET Tokens,
             NEW page \in SUBSET deposits, LeaseGrant(c, toks, page)
      PROVE  d.expires_at <= clock \/ Held(d)
  <2> DEFINE n == [id |-> nextLease, client |-> c, filter |-> toks, created_at |-> clock,
                   expires_at |-> clock + Config.lease_ttl, closed |-> page = {}]
  <2>1. l = n
    BY <1>1, <1>2, <1>3 DEF LeaseGrant
  <2>7. n.closed = (page = {}) /\ n.filter = toks
    OBVIOUS
  <2> HIDE DEF n
  <2>2. page = {} /\ d.env.token \in toks
    BY <2>1, <2>7
  <2>3. Available(toks) = {}
    BY <1>3, <2>2, GrantedPage
  <2> SUFFICES ASSUME ~(d.expires_at <= clock) PROVE Held(d)
    OBVIOUS
  <2>4. d \in SweptDeposits
    <3>1. d.expires_at \in Nat /\ clock \in Nat
      BY RelayConstants DEF RelayInv, ScalarsOK, TablesOK, TablesTyped, DepositRow
    <3> QED BY <3>1 DEF SweptDeposits
  <2>5. PICK lr \in SweptLeaseRows, m \in Open(SweptLeases) : Unacked(lr, m) /\ lr.row = d.row
    BY <2>2, <2>3, <2>4 DEF Available
  <2>6. lr \in lease_rows /\ m \in Open(leases) /\ m.expires_at > clock
    BY DEF SweptLeaseRows, SweptLeases, Open
  <2> QED
    BY <2>5, <2>6 DEF Held
<1>4. ASSUME leases' \subseteq leases PROVE FALSE
  BY <1>1, <1>4
<1>5. ASSUME NEW c \in Clients, NEW id, NEW rows, AckAccept(c, id, rows)
      PROVE  FALSE
  <2>1. PICK m \in SweptLeases, b \in BOOLEAN :
          l = IF b THEN [m EXCEPT !.closed = TRUE] ELSE m
    BY <1>5 DEF AckAccept
  <2>2. m \in LeaseRecord
    BY <1>2 DEF RelayInv, TablesOK, TablesTyped
  <2>3. l.id = m.id
    BY <2>1, <2>2 DEF LeaseRecord
  <2> QED
    BY <1>1, <1>2, <2>3
<1>6. CASE leases' = SweptLeases
  BY <1>2, <1>4, <1>6
<1>7. CASE SetClock \/ UNCHANGED vars
  BY <1>4, <1>7 DEF SetClock, vars, tables
<1> QED
  BY <1>3, <1>5, <1>6, <1>7, ZenonT(30)
     DEF Next, DepositAccept, DepositRepeat, DepositUnregistered, DepositRefuse, LeaseRefuse,
         LeaseAtCapacity, LeaseReplay, AckRefuse, SweepOrRefuse, OnlySweep, LeasesOnlySwept,
         Reopen

\* An empty answer is honest for every page bound that admits one envelope: a
\* lease born closed means that each live row of its tokens is on a valid lease.
THEOREM RelayDrainedWhenEmpty == Spec => DrainedWhenEmpty
<1>1. RelayInv /\ QuotaInv /\ [Next]_vars => RelayInv' /\ QuotaInv'
  BY NextKeepsInv, NextKeepsQuotas
<1>2. Init => RelayInv /\ QuotaInv
  BY InitEstablishesInv, InitWithinQuotas
<1>3. RelayInv /\ QuotaInv /\ [Next]_vars => [DrainedStep]_vars
  BY DrainedWhenEmptyStep
<1>4. DrainedWhenEmpty <=> [][DrainedStep]_vars
  BY DEF DrainedWhenEmpty, DrainedStep
<1> QED BY <1>1, <1>2, <1>3, <1>4, PTL DEF Spec

=============================================================================
