------------------------------- MODULE MCCalls -------------------------------
(***************************************************************************)
(* Instances of Calls: one account with a single device, one with two.     *)
(***************************************************************************)
EXTENDS Calls

CONSTANTS alice, bob, a, b, b2

\* one device each
Pair == [d \in {a, b} |-> IF d = a THEN alice ELSE bob]
\* and one account with two
Owners == [d \in {a, b, b2} |-> IF d = a THEN alice ELSE bob]
===============================================================================
