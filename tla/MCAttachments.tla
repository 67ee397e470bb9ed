--------------------------- MODULE MCAttachments ---------------------------
(***************************************************************************)
(* Instances of Attachments: a file in two chunks, one with a preview, and *)
(* an empty one.                                                           *)
(***************************************************************************)
EXTENDS Attachments

File    == [o \in {"primary"} |-> 2]
Picture == [o \in Roles |-> IF o = "primary" THEN 2 ELSE 1]
Nothing == [o \in {"primary"} |-> 0]

AllShapes == {File, Picture, Nothing}
=============================================================================
