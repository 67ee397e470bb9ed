--------------------------- MODULE MCInboundCustody ---------------------------
(***************************************************************************)
(* Instances of InboundCustody.  An envelope's name says what it is: m and *)
(* m2 are messages and h the handshake of their session p, x is a message  *)
(* addressed to somebody else, f1 and f2 are the fragments m may arrive    *)
(* in, bad is a forged handshake and junk does not decrypt.                *)
(***************************************************************************)
EXTENDS InboundCustody, TLC

CONSTANTS m, m2, h, x, f1, f2, intro, call, ctl, grp, bad, junk, p, q

MCKind ==
  (m :> "message") @@ (m2 :> "message") @@ (x :> "message") @@ (h :> "handshake")
    @@ (f1 :> "fragment") @@ (f2 :> "fragment") @@ (intro :> "introduction")
    @@ (call :> "call") @@ (ctl :> "control") @@ (grp :> "group")
    @@ (junk :> "undecryptable") @@ (bad :> "badHandshake")
MCPeer == [e \in DOMAIN MCKind |-> IF e = x THEN q ELSE p]

Among(f) == [e \in Envelopes |-> f[e]]
KindAmong == Among(MCKind)
PeerAmong == Among(MCPeer)
NoDeadline == [e \in Envelopes |-> 1000]
SoonForX == [e \in Envelopes |-> IF e = x THEN 1 ELSE 1000]
Whole == [e \in Envelopes |-> {}]
MInTwo == [e \in Envelopes |-> IF e = m THEN {f1, f2} ELSE {}]

\* What is under way together: messages with their handshake, one of them not for
\* us; a message whole and in fragments; the kinds that end in other ways.
SafetyOffers == {{m, h, x}, {m, h, f1, f2}, {h, intro}, {h, call, junk}, {h, bad, ctl}}
LiveOffers   == {{m, h, x}, {h, ctl, grp}}
\* Two messages and the handshake of their session.
StashOffers  == {{m, m2, h}}
=============================================================================
