---------------------------- MODULE MailboxRelay ----------------------------
(***************************************************************************)
(* The durable mailbox relay: crates/kult-transport/src/mailbox_v2.rs.     *)
(*                                                                         *)
(* The SQLite tables are sets of records with the columns the control flow *)
(* reads; the AEAD sealing of each row is left out.  Every public          *)
(* operation is one IMMEDIATE transaction that sweeps what has expired,    *)
(* charges the rate budget and then decides, so every operation is one     *)
(* action, and a crash falls between two of them; Reopen is what follows   *)
(* it: no decision reads anything that is only in memory.                  *)
(* row_id and sequence are both unique per insertion and are one number    *)
(* here; the random lease_id is a fresh number.                            *)
(***************************************************************************)
EXTENDS Integers, FiniteSets

CONSTANTS
  Clients,      \* transport pseudonyms that talk to the relay
  Tokens,       \* opaque delivery tokens
  Envelopes,    \* [token, content, body, len, retention]
  NoHint,       \* retention of an envelope without a retention_until hint
  Config,       \* the fields of MailboxConfig the store consults
  MaxEnvelopeBytes, PageMaxRows, PageMaxBytes, AckMaxRows,
  MaxCheckinTokens,
  Times,        \* readings of the wall clock
  MaxRow, MaxLease   \* bounds on how many rows and leases are ever created

ASSUME RelayConstants ==
  /\ Times \subseteq Nat /\ Times # {}
  /\ IsFiniteSet(Tokens)
  /\ NoHint \notin Nat
  /\ MaxRow \in Nat /\ MaxLease \in Nat
  /\ MaxEnvelopeBytes \in Nat /\ PageMaxRows \in Nat \ {0} /\ AckMaxRows \in Nat
  /\ MaxCheckinTokens \in Nat
  /\ PageMaxBytes \in Nat
  /\ MaxEnvelopeBytes <= PageMaxBytes
  /\ \A e \in Envelopes : /\ e.token \in Tokens
                          /\ e.len \in Nat
                          /\ e.retention \in Nat \cup {NoHint}
  /\ Config.envelope_ttl \in Nat
  /\ Config.registration_ttl \in Nat
  /\ Config.lease_ttl \in Nat
  /\ {Config.max_total_items, Config.max_total_bytes, Config.max_per_token,
      Config.max_bytes_per_token, Config.max_per_client, Config.max_bytes_per_client,
      Config.max_tokens, Config.max_tokens_per_client, Config.max_live_leases,
      Config.max_live_leases_per_client, Config.max_live_leases_per_token} \subseteq Nat

VARIABLES
  clock,          \* unix_now(), which an operator may set back
  registrations,  \* {[token, client, expires_at]}
  deposits,       \* {[row, env, client, expires_at]}
  leases,         \* {[id, client, filter, created_at, expires_at, closed]}
  lease_rows,     \* {[lease, row, acknowledged]}
  nextRow, nextLease

tables == <<registrations, deposits, leases, lease_rows>>
vars == <<clock, tables, nextRow, nextLease>>

Registration == [token : Tokens, client : Clients, expires_at : Nat]
DepositRow == [row : Nat, env : Envelopes, client : Clients, expires_at : Nat]
LeaseRecord == [id : Nat, client : Clients, filter : SUBSET Tokens,
                created_at : Nat, expires_at : Nat, closed : BOOLEAN]
LeaseRow == [lease : Nat, row : Nat, acknowledged : BOOLEAN]

Init ==
  /\ clock \in Times
  /\ registrations = {} /\ deposits = {} /\ leases = {} /\ lease_rows = {}
  /\ nextRow = 1 /\ nextLease = 1

-----------------------------------------------------------------------------
(* sweep_on: the tables as they are once the expired rows are deleted.     *)

\* Mutant: the deadline alone ends a lease.
SweptLeasesByDeadlineOnly == {l \in leases : l.expires_at > clock}

\* A lease goes when it expires, or as soon as one of its rows does.
SweptLeases ==
  {l \in leases : /\ l.expires_at > clock
                  /\ ~ \E lr \in lease_rows, d \in deposits :
                         /\ lr.lease = l.id
                         /\ lr.row = d.row
                         /\ d.expires_at <= clock}

\* Mutant: foreign keys are not enforced.
SweptLeaseRowsNoCascade == lease_rows

\* FOREIGN KEY ... ON DELETE CASCADE
SweptLeaseRows ==
  {lr \in lease_rows : \E l \in SweptLeases : l.id = lr.lease}

\* Mutant: rows of a token nobody is registered for are dropped.
SweptDepositsUnregistered ==
  {d \in deposits : /\ d.expires_at > clock
                    /\ \E r \in registrations :
                         r.token = d.env.token /\ r.expires_at > clock}

SweptDeposits == {d \in deposits : d.expires_at > clock}

SweptRegistrations == {r \in registrations : r.expires_at > clock}

LeasesOnlySwept ==
  leases' = SweptLeases /\ lease_rows' = SweptLeaseRows

\* An operation that changes nothing but what its sweep does: metrics(), and
\* every refusal.
OnlySweep ==
  /\ deposits' = SweptDeposits
  /\ LeasesOnlySwept
  /\ registrations' = SweptRegistrations
  /\ UNCHANGED <<clock, nextRow, nextLease>>

-----------------------------------------------------------------------------
(* deposit_inner                                                           *)

WellFormed(env) == env.len # 0 /\ env.len <= MaxEnvelopeBytes

ExpiryOf(env) ==
  LET policy_expiry == clock + Config.envelope_ttl
  IN IF env.retention = NoHint THEN policy_expiry
     ELSE IF env.retention < policy_expiry THEN env.retention ELSE policy_expiry

Registered(t) == \E r \in SweptRegistrations : r.token = t

\* UNIQUE(token_idx, content_idx)
SameKey(d, env) == d.env.token = env.token /\ d.env.content = env.content

Duplicate(env) == \E d \in SweptDeposits : SameKey(d, env)

\* SUM(length(body)), by counting the bytes of every row.
Bytes(D) == Cardinality(UNION {{d} \X (1..d.env.len) : d \in D})

OfToken(D, t) == {d \in D : d.env.token = t}
OfClient(D, c) == {d \in D : d.client = c}

Room(D, env, items, bytes) ==
  Cardinality(D) < items /\ Bytes(D) + env.len <= bytes

HasRoom(c, env) ==
  /\ Room(SweptDeposits, env, Config.max_total_items, Config.max_total_bytes)
  /\ Room(OfToken(SweptDeposits, env.token), env,
          Config.max_per_token, Config.max_bytes_per_token)
  /\ Room(OfClient(SweptDeposits, c), env,
          Config.max_per_client, Config.max_bytes_per_client)

\* What must hold before the registration is even looked at.
DepositPasses(env) ==
  WellFormed(env) /\ ExpiryOf(env) > clock

\* MailboxDepositDisposition::Accepted for a row that was not stored yet.
DepositAccept(c, env) ==
  /\ DepositPasses(env)
  /\ Registered(env.token)
  /\ ~Duplicate(env)
  /\ HasRoom(c, env)
  /\ nextRow < MaxRow
  /\ deposits' = SweptDeposits \cup
       {[row |-> nextRow, env |-> env, client |-> c, expires_at |-> ExpiryOf(env)]}
  /\ nextRow' = nextRow + 1
  /\ LeasesOnlySwept
  /\ registrations' = SweptRegistrations
  /\ UNCHANGED <<clock, nextLease>>

\* Accepted without a write: the same bytes are already stored.
DepositRepeat(env) ==
  /\ DepositPasses(env)
  /\ Registered(env.token)
  /\ \E d \in SweptDeposits : SameKey(d, env) /\ d.env = env
  /\ OnlySweep

DepositUnregistered(env) ==
  /\ DepositPasses(env)
  /\ ~Registered(env.token)
  /\ OnlySweep

\* Refused: the early returns, a content clash, or a full quota.
DepositRefuse(c, env) ==
  /\ \/ ~DepositPasses(env)
     \/ /\ Registered(env.token)
        /\ \/ \E d \in SweptDeposits : SameKey(d, env) /\ d.env # env
           \/ ~Duplicate(env) /\ ~HasRoom(c, env)
  /\ OnlySweep

-----------------------------------------------------------------------------
(* lease_inner                                                             *)

OwnedBy(R, c) == {r \in R : r.client = c}

RegistrationsFit(c, toks) ==
  LET new == {t \in toks : ~Registered(t)}
      newly_owned == {t \in toks : ~ \E r \in SweptRegistrations :
                                       r.token = t /\ r.client = c}
  IN /\ Cardinality(SweptRegistrations) + Cardinality(new) <= Config.max_tokens
     /\ Cardinality(OwnedBy(SweptRegistrations, c)) + Cardinality(newly_owned)
          <= Config.max_tokens_per_client

\* The upsert: the asking client takes every token over.
Register(c, toks) ==
  registrations' =
    {r \in SweptRegistrations : r.token \notin toks}
    \cup {[token |-> t, client |-> c,
           expires_at |-> clock + Config.registration_ttl] : t \in toks}

Open(L) == {l \in L : ~l.closed}

ExistingLeases(c, toks) ==
  {l \in Open(SweptLeases) : l.client = c /\ l.filter = toks}

Unacked(lr, l) == lr.lease = l.id /\ ~lr.acknowledged

\* Leases of L that hold an unacknowledged row of token t.
HoldingToken(L, rows, D, t) ==
  {l \in L : \E lr \in rows, d \in D :
               Unacked(lr, l) /\ d.row = lr.row /\ d.env.token = t}

LeaseCapacity(c, toks) ==
  /\ Cardinality(Open(SweptLeases)) < Config.max_live_leases
  /\ Cardinality({l \in Open(SweptLeases) : l.client = c})
       < Config.max_live_leases_per_client
  /\ \A t \in toks :
       Cardinality(HoldingToken(Open(SweptLeases), SweptLeaseRows, SweptDeposits, t))
         < Config.max_live_leases_per_token

\* Mutant: the NOT EXISTS clause is missing.
AvailableIgnoringLeases(toks) == {d \in SweptDeposits : d.env.token \in toks}

\* available_rows_on without its page bounds.
Available(toks) ==
  {d \in SweptDeposits :
     /\ d.env.token \in toks
     /\ ~ \E lr \in SweptLeaseRows, l \in Open(SweptLeases) :
            Unacked(lr, l) /\ lr.row = d.row}

\* ORDER BY sequence LIMIT
FirstRows(D) ==
  {d \in D : Cardinality({e \in D : e.row < d.row}) < PageMaxRows}

\* Mutant: a row that exactly fills the page is skipped.
GreedyPageStrict(page, D) ==
  \A d \in D :
    d \in page <=> Bytes({e \in page : e.row < d.row}) + d.env.len < PageMaxBytes

\* The loop over the ordered rows: a row that would overflow is skipped.
GreedyPage(page, D) ==
  \A d \in D :
    d \in page <=> Bytes({e \in page : e.row < d.row}) + d.env.len <= PageMaxBytes

LeasePasses(c, toks) ==
  /\ toks # {} /\ Cardinality(toks) <= MaxCheckinTokens
  /\ RegistrationsFit(c, toks)

\* None before anything but sweep and charge happened.
LeaseRefuse(c, toks) ==
  /\ ~LeasePasses(c, toks)
  /\ OnlySweep

\* None after the registrations were written and committed.
LeaseAtCapacity(c, toks) ==
  /\ LeasePasses(c, toks)
  /\ ExistingLeases(c, toks) = {}
  /\ ~LeaseCapacity(c, toks)
  /\ Register(c, toks)
  /\ deposits' = SweptDeposits
  /\ LeasesOnlySwept
  /\ UNCHANGED <<clock, nextRow, nextLease>>

\* The open lease of this client and filter is served again.
LeaseReplay(c, toks) ==
  /\ LeasePasses(c, toks)
  /\ ExistingLeases(c, toks) # {}
  /\ Register(c, toks)
  /\ deposits' = SweptDeposits
  /\ LeasesOnlySwept
  /\ UNCHANGED <<clock, nextRow, nextLease>>

\* A new lease over one page; an empty page is a lease that is born closed.
LeaseGrant(c, toks, page) ==
  /\ LeasePasses(c, toks)
  /\ ExistingLeases(c, toks) = {}
  /\ LeaseCapacity(c, toks)
  /\ page \subseteq FirstRows(Available(toks))
  /\ GreedyPage(page, FirstRows(Available(toks)))
  /\ nextLease < MaxLease
  /\ leases' = SweptLeases \cup
       {[id |-> nextLease, client |-> c, filter |-> toks, created_at |-> clock,
         expires_at |-> clock + Config.lease_ttl, closed |-> page = {}]}
  /\ lease_rows' = SweptLeaseRows \cup
       {[lease |-> nextLease, row |-> d.row, acknowledged |-> FALSE] : d \in page}
  /\ nextLease' = nextLease + 1
  /\ Register(c, toks)
  /\ deposits' = SweptDeposits
  /\ UNCHANGED <<clock, nextRow>>

-----------------------------------------------------------------------------
(* ack_inner                                                               *)

\* The lease the client may acknowledge rows of.
Acknowledgeable(c, id, rows) ==
  /\ rows # {} /\ Cardinality(rows) <= AckMaxRows
  /\ \E l \in SweptLeases : l.id = id /\ l.client = c /\ l.expires_at > clock
  /\ \A row \in rows : \E lr \in SweptLeaseRows : lr.lease = id /\ lr.row = row

\* Every row not acknowledged before is deleted with its mark, in one commit.
AckAccept(c, id, rows) ==
  /\ Acknowledgeable(c, id, rows)
  /\ LET done == {lr \in SweptLeaseRows : lr.lease = id /\ lr.row \in rows}
         fresh == {lr \in done : ~lr.acknowledged}
         remaining == {lr \in SweptLeaseRows : lr.lease = id /\ ~lr.acknowledged}
                      \ fresh
     IN /\ deposits' = {d \in SweptDeposits : ~ \E lr \in fresh : lr.row = d.row}
        /\ lease_rows' = (SweptLeaseRows \ fresh)
                         \cup {[lr EXCEPT !.acknowledged = TRUE] : lr \in fresh}
        /\ leases' = {IF l.id = id /\ remaining = {} THEN [l EXCEPT !.closed = TRUE]
                      ELSE l : l \in SweptLeases}
  /\ registrations' = SweptRegistrations
  /\ UNCHANGED <<clock, nextRow, nextLease>>

\* Enabled in every state: a request without rows is always refused, and what
\* else is not Acknowledgeable is refused to the same effect.
AckRefuse == OnlySweep

-----------------------------------------------------------------------------
(* refuse_deposit_request, metrics, open, and the environment              *)

\* metrics(), refuse_deposit_request, and any request that is malformed or over
\* the rate budget (whose table of windows is left out: any request may be over it).
SweepOrRefuse == OnlySweep

Within(D, items, bytes) == Cardinality(D) <= items /\ Bytes(D) <= bytes

LeasedDeposits(id) ==
  {d \in deposits : \E lr \in lease_rows :
                      lr.lease = id /\ ~lr.acknowledged /\ lr.row = d.row}

Live(S) == {x \in S : x.expires_at > clock}

LeasedRowsStored ==
  \A lr \in lease_rows :
    ~lr.acknowledged => \E d \in deposits : d.row = lr.row

\* validate_all: what a database must satisfy for open to accept it.
ValidateAll ==
  /\ Within(deposits, Config.max_total_items, Config.max_total_bytes)
  /\ \A t \in Tokens :
       Within(OfToken(deposits, t), Config.max_per_token, Config.max_bytes_per_token)
  /\ \A c \in Clients :
       Within(OfClient(deposits, c), Config.max_per_client, Config.max_bytes_per_client)
  /\ Cardinality(Live(registrations)) <= Config.max_tokens
  /\ \A c \in Clients :
       Cardinality(OwnedBy(Live(registrations), c)) <= Config.max_tokens_per_client
  /\ \A l \in leases : Within(LeasedDeposits(l.id), PageMaxRows, PageMaxBytes)
  /\ Cardinality(Open(Live(leases))) <= Config.max_live_leases
  /\ \A c \in Clients :
       Cardinality({l \in Open(Live(leases)) : l.client = c})
         <= Config.max_live_leases_per_client
  /\ \A t \in Tokens :
       Cardinality(HoldingToken(Open(Live(leases)), lease_rows, deposits, t))
         <= Config.max_live_leases_per_token
  /\ LeasedRowsStored

\* open, after the process ended at any point: the store serves only a database
\* that validates, swept once.
Reopen == ValidateAll /\ OnlySweep

\* The wall clock moves, forwards or backwards.
SetClock ==
  /\ clock' \in Times
  /\ UNCHANGED <<tables, nextRow, nextLease>>

Next ==
  \/ \E c \in Clients :
       \/ \E env \in Envelopes :
            \/ DepositAccept(c, env)
            \/ DepositRepeat(env)
            \/ DepositUnregistered(env)
            \/ DepositRefuse(c, env)
       \/ \E toks \in SUBSET Tokens :
            \/ LeaseRefuse(c, toks)
            \/ LeaseAtCapacity(c, toks)
            \/ LeaseReplay(c, toks)
            \/ \E page \in SUBSET deposits : LeaseGrant(c, toks, page)
       \/ \E l \in leases, rows \in SUBSET {lr.row : lr \in lease_rows} :
            AckAccept(c, l.id, rows)
  \/ AckRefuse
  \/ SweepOrRefuse
  \/ Reopen
  \/ SetClock

Spec == Init /\ [][Next]_vars

-----------------------------------------------------------------------------
(* Properties                                                              *)

\* The tables keep their column types and the keys of create_schema: row_id,
\* (token, content), lease_id and (lease, row) are unique, ids come from the
\* allocator, and the foreign key of lease_rows finds its lease.
TypeOK ==
  /\ clock \in Times
  /\ nextRow \in Nat \ {0} /\ nextLease \in Nat \ {0}
  /\ registrations \subseteq Registration
  /\ deposits \subseteq DepositRow
  /\ leases \subseteq LeaseRecord
  /\ lease_rows \subseteq LeaseRow
  /\ \A d, e \in deposits : d.row = e.row \/ SameKey(d, e.env) => d = e
  /\ \A l, m \in leases : l.id = m.id => l = m
  /\ \A a, b \in lease_rows : a.lease = b.lease /\ a.row = b.row => a = b
  /\ \A d \in deposits : d.row < nextRow
  /\ \A l \in leases : l.id < nextLease
  /\ \A lr \in lease_rows : lr.row < nextRow /\ \E l \in leases : l.id = lr.lease

\* A relay that stops at any point can be started again: every database the
\* operations leave behind, at every reading of the clock, passes validate_all,
\* so all item, byte, registration and lease quotas hold and no live lease
\* refers to a missing deposit (the error paths of load_lease_rows_on and
\* ack_inner are never taken).
ReopenAccepts == ValidateAll

\* One envelope row is never out on two leases at once, whatever expired, was
\* swept early or was taken over in between: available_rows_on hands out only
\* rows no stored lease still waits for.
ExclusiveLease ==
  \A a, b \in lease_rows :
    a.row = b.row /\ ~a.acknowledged /\ ~b.acknowledged => a.lease = b.lease

\* A lease is open exactly while a row of it awaits its acknowledgement, and a
\* client has at most one open lease per filter: so "the oldest open lease",
\* which lease_inner replays, is the only one, and a lost response is answered
\* with the very same rows.
OneOpenLease ==
  /\ \A l \in leases : l.closed <=> ~ \E lr \in lease_rows : Unacked(lr, l)
  /\ \A l, m \in Open(leases) :
       l.client = m.client /\ l.filter = m.filter => l = m

\* Both together: at any time the rows that are out are divided among the open
\* leases, one per client and filter, so that lost responses and repeated
\* acknowledgements never split or duplicate a page (lease_inner, ack_inner).
LeaseDiscipline == ExclusiveLease /\ OneOpenLease

\* Custody ends only by the acknowledgement of the row's own unexpired lease or
\* by the row's own expiry: no sweep, quota, takeover, crash or reopening
\* removes a deposited envelope.
CustodyEnds ==
  [][\A d \in deposits \ deposits' :
       \/ d.expires_at <= clock
       \/ \E l \in leases, lr \in lease_rows :
            /\ Unacked(lr, l) /\ lr.row = d.row
            /\ l.expires_at > clock
            /\ [lr EXCEPT !.acknowledged = TRUE] \in lease_rows']_vars

\* The row waits for the acknowledgement of a lease that is still valid.
Held(d) ==
  \E l \in Open(leases), lr \in lease_rows :
    Unacked(lr, l) /\ lr.row = d.row /\ l.expires_at > clock

\* A collector is told "nothing left" (a lease born closed) only when no live
\* row of its tokens is free: the page bounds of available_rows_on can delay a
\* row, but can never hide the last one.
DrainedWhenEmpty ==
  [][\A l \in leases' :
       l.id = nextLease /\ l.closed =>
         \A d \in deposits : d.env.token \in l.filter =>
           d.expires_at <= clock \/ Held(d)]_vars

=============================================================================
