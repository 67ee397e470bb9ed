------------------------------ MODULE MCDevices ------------------------------
(***************************************************************************)
(* Instances of Devices: an account of one or two devices.                 *)
(***************************************************************************)
EXTENDS Devices

CONSTANTS a, b, n, r, c

One == {<<a>>}
Two == {<<a, b>>}
OneOrTwo == One \cup Two
===============================================================================
