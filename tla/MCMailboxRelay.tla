--------------------------- MODULE MCMailboxRelay ---------------------------
(***************************************************************************)
(* Three clients that share a token; two envelopes that clash on their     *)
(* content id, one as long as a whole page, and a third that shares a page *)
(* with the shorter.  Rows, leases and registrations expire at different   *)
(* times; the item limits, the byte limit of a client, the registration    *)
(* and the lease limits are all within reach.                              *)
(***************************************************************************)
EXTENDS MailboxRelay, TLC

CONSTANTS c1, c2, c3, t, x, y

Symmetry == Permutations(Clients)

MCEnvelopes ==
  { [token |-> t, content |-> x, body |-> 1, len |-> 1, retention |-> 1],
    [token |-> t, content |-> x, body |-> 2, len |-> 3, retention |-> 1],
    [token |-> t, content |-> y, body |-> 1, len |-> 2, retention |-> NoHint] }

MCConfig ==
  [ max_tokens |-> 1, max_tokens_per_client |-> 1,
    max_per_token |-> 2, max_bytes_per_token |-> 5,
    max_per_client |-> 2, max_bytes_per_client |-> 3,
    max_total_items |-> 2, max_total_bytes |-> 5,
    envelope_ttl |-> 2, registration_ttl |-> 1, lease_ttl |-> 2,
    max_live_leases |-> 2, max_live_leases_per_client |-> 2,
    max_live_leases_per_token |-> 2 ]

MCTimes == 0..2
=============================================================================
