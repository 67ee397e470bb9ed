------------------------------- MODULE MCGroups -------------------------------
(***************************************************************************)
(* Instances of Groups: accounts a (the founder), b and c.  A scenario is  *)
(* a group to start from and the commands and faults that may follow.      *)
(***************************************************************************)
EXTENDS Groups

CONSTANTS a, b, c

Given(f) == [k \in Command |-> IF k \in DOMAIN f THEN f[k] ELSE 0]
Group(start, members, admins, f) ==
  [start |-> start, members |-> members, admins |-> admins, budget |-> Given(f)]

\* Every command at least once, with three members where a third matters: a
\* leaver or a removed one and a sender, a newcomer between two others.
Changes ==
  {Group("plain", {a, b, c}, {}, [leave |-> 1, send |-> 1]),
   Group("plain", {a, b, c}, {}, [remove |-> 1, send |-> 1]),
   Group("plain", {a, b}, {}, [session |-> 1, remove |-> 1, send |-> 2, lose |-> 1]),
   Group("plain", {a, b}, {}, [upgrade |-> 1, session |-> 1, lose |-> 1]),
   Group("plain", {a, b}, {}, [add |-> 1]),
   Group("none", {a}, {}, [create |-> 1]),
   Group("signed", {a}, {}, [add |-> 1, delete |-> 1, lose |-> 1]),
   Group("signed", {a, b}, {}, [transfer |-> 1, remove |-> 1, send |-> 1]),
   Group("signed", {a, b}, {b}, [rename |-> 1, role |-> 1]),
   Group("signed", {a, b}, {b}, [add |-> 1]),
   Group("signed", {a, b, c}, {b}, [remove |-> 1, send |-> 1]),
   Group("signed", {a, b, c}, {b}, [session |-> 1, remove |-> 1]),
   Group("signed", {a, b, c}, {}, [leave |-> 1, send |-> 1, lose |-> 1])}

SignedLeave == {Group("signed", {a, b, c}, {}, [leave |-> 1])}

\* An admin asks for a removal while the owner renews its chain.
RemovalAsked == {Group("signed", {a, b, c}, {b}, [session |-> 1, remove |-> 1])}

\* A member leaves and an admin asks for it back.
LeaverInvited == {Group("signed", {a, b, c}, {b}, [leave |-> 1, add |-> 1])}

===============================================================================
