--------------------------- MODULE MCDeliveryQueue ---------------------------
(***************************************************************************)
(* An instance of DeliveryQueue: one message to an account of two devices, *)
(* with back-off constants scaled so that the second exponential delay     *)
(* exceeds the cap and the capacity delay differs from the others.         *)
(***************************************************************************)
EXTENDS DeliveryQueue, TLC

CONSTANTS phone, laptop

\* The two devices are alike.
Alike == Permutations({phone, laptop})
=============================================================================
