------------------------- MODULE MCSessionHandshake -------------------------
(***************************************************************************)
(* Instances of SessionHandshake: devices 1 and 2, and who wrote what.     *)
(***************************************************************************)
EXTENDS SessionHandshake

CONSTANTS m1, m2, m3

\* m1 is written by the lower device, the others by the higher one.
OneEach  == [m \in {m1, m3} |-> IF m = m1 THEN 1 ELSE 2]
ByHigher == [m \in {m1, m2, m3} |-> IF m = m1 THEN 1 ELSE 2]

Fresh       == [restored |-> {}, legacy |-> FALSE]
AnyOrLower  == {Fresh, [Fresh EXCEPT !.restored = {1}]}
OnlyFresh   == {Fresh}
OnlyLower   == {[Fresh EXCEPT !.restored = {1}]}
Upgrading   == {[Fresh EXCEPT !.legacy = TRUE]}
=============================================================================
