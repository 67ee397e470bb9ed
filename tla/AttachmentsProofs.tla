------------------------- MODULE AttachmentsProofs -------------------------
(***************************************************************************)
(* Proofs about Attachments, for files and previews of any size, any       *)
(* number of records under way, commands and faults: the rows are well     *)
(* formed, "complete" means whole and verified at both ends, and what is   *)
(* at rest stays at rest until a user acts.                                *)
(*                                                                         *)
(* CompleteIsWhole is not inductive: it needs that a chunk under way is    *)
(* one of its object, that an object which ended without success has no    *)
(* chunks left, and that the state of the transfer agrees with the states  *)
(* of its objects wherever the code looks at the former only.              *)
(***************************************************************************)
EXTENDS Attachments, FiniteSetTheorems, TLAPS

-----------------------------------------------------------------------------
(* Bags *)

\* Records that join a bag are in it with those that were there.
LEMMA WithFacts ==
  ASSUME NEW B, IsABag(B), NEW S
  PROVE  IsABag(With(B, S)) /\ BagToSet(With(B, S)) = BagToSet(B) \cup S
<1> DEFINE C == With(B, S)
<1>1. DOMAIN C = DOMAIN B \cup S
  BY DEF With, (+), SetToBag
<1>2. \A e \in DOMAIN C : C[e] \in Nat /\ C[e] > 0
  BY DEF With, (+), SetToBag, IsABag
<1>3. C = [e \in DOMAIN C |-> C[e]]
  BY DEF With, (+), SetToBag
<1> QED  BY <1>1, <1>2, <1>3 DEF IsABag, BagToSet

\* With one record taken, nothing new is under way.
LEMMA WithoutFacts ==
  ASSUME IsABag(net), NEW r
  PROVE  IsABag(Without(r)) /\ BagToSet(Without(r)) \subseteq BagToSet(net)
<1> DEFINE D == [e \in DOMAIN net |-> IF e \in {r} THEN net[e] - 1 ELSE net[e]]
           E == {e \in DOMAIN net : D[e] > 0}
           C == [e \in E |-> D[e]]
<1>1. Without(r) = C
  BY DEF Without, (-), SetToBag
<1>2. \A e \in DOMAIN net : D[e] \in Int
  BY DEF IsABag
<1>3. \A e \in E : C[e] \in Nat /\ C[e] > 0
  BY <1>2
<1>4. IsABag(C) /\ BagToSet(C) \subseteq BagToSet(net)
  BY <1>3 DEF IsABag, BagToSet
<1> QED  BY <1>1, <1>4

-----------------------------------------------------------------------------
(* The inductive invariant *)

\* The two transfers, the manifest and the request memory have their types.
RowInv ==
  /\ outbound \in [state : States \ {"Corrupt", "AwaitingConsent"}, notify : BOOLEAN]
  /\ inbound \in [state : States, notify : BOOLEAN]
  /\ offer \in [shape : Shapes, imported : SUBSET Roles, faithful : SUBSET Roles,
                viewOnce : BOOLEAN, manifest : {"held", "sent", "received"}]
  /\ asked \in [waiting : BOOLEAN, target : Nat]
  /\ commands \in Nat

\* Nothing leaves the sender before it has read what it sends, and what is empty
\* has the hash of nothing.
SentInv ==
  /\ outbound.state = "none" => /\ offer.manifest = "held" /\ done = {}
                               /\ inbound.state = "none"
  /\ outbound.state # "none" => \A o \in Objects : All(o) = {} => o \in offer.faithful
  /\ outbound.state = "Complete" => done # {}

\* An object in a row of the media store.
ObjectOK(x, o) ==
  /\ x \in [state : States \ {"gone"}, have : SUBSET All(o)]
  /\ x.state \in Negative \cup {"none", "AwaitingConsent"} => x.have = {}
  /\ x.state \in Active => x.have # All(o) \/ All(o) = {}
  /\ x.state = "Complete" => x.have = All(o) /\ o \in done

\* What the state of the transfer says of the states of its objects.
Agrees ==
  /\ inbound.state \in Negative \cup {"AwaitingConsent", "Complete"} =>
       \A o \in Objects : objects[o].state = inbound.state
  /\ inbound.state \in Absent => \A o \in Objects : objects[o].state = "none"

ObjectInv ==
  /\ objects = [o \in Objects |-> objects[o]]
  /\ \A o \in Objects : ObjectOK(objects[o], o)
  /\ done \subseteq Objects \cap offer.faithful
  /\ Agrees

\* A request or a chunk is for chunks of its object, and an acknowledgement for an
\* object that was whole.
RecordOK(r) ==
  /\ r.op \in Ops
  /\ r.op \in {"RequestMissing", "Chunk"} => r.object \in Objects /\ r.chunks \subseteq All(r.object)
  /\ r.op = "Complete" => r.object \in done

NetInv == IsABag(net) /\ \A r \in BagToSet(net) : RecordOK(r)

IInv == RowInv /\ SentInv /\ ObjectInv /\ NetInv

\* The invariant is what the runs check, and more.
LEMMA IInvImplies == IInv => TypeOK /\ CompleteIsWhole
<1> SUFFICES ASSUME IInv PROVE TypeOK /\ CompleteIsWhole
  OBVIOUS
<1>1. TypeOK
  <2>1. DOMAIN objects = Objects
    BY DEF IInv, ObjectInv
  <2>2. \A o \in Objects :
          LET x == objects[o] IN
            /\ x.state \in States /\ x.have \subseteq All(o)
            /\ x.state \in Negative \cup {"none", "AwaitingConsent"} => x.have = {}
            /\ x.state \in Active => x.have # All(o) \/ All(o) = {}
    BY DEF IInv, ObjectInv, ObjectOK
  <2> QED  BY <2>1, <2>2 DEF IInv, RowInv, ObjectInv, NetInv, RecordOK, TypeOK
<1>2. CompleteIsWhole
  <2>1. inbound.state = "Complete" =>
          \A o \in Objects : objects[o].have = All(o) /\ o \in offer.faithful
    BY DEF IInv, ObjectInv, ObjectOK, Agrees
  <2> QED  BY <2>1 DEF IInv, SentInv, NetInv, RecordOK, CompleteIsWhole
<1> QED  BY <1>1, <1>2

\* Chunks of the objects are finitely many: what the receiver counts are numbers.
LEMMA ChunksFinite ==
  ASSUME RowInv, NEW S, S \subseteq {p \in Objects \X Nat : p[2] \in All(p[1])}
  PROVE  Cardinality(S) \in Nat
<1> DEFINE A(o) == IF o \in Objects THEN {o} \X All(o) ELSE {}
<1>1. Objects \subseteq Roles /\ \A o \in Objects : offer.shape[o] \in Nat
  BY AttachmentConstants DEF RowInv, Objects
<1>2. ASSUME NEW o PROVE IsFiniteSet(A(o))
  <2>1. CASE o \in Objects
    <3>1. IsFiniteSet(All(o))
      BY <1>1, <2>1, FS_Interval DEF All
    <3>2. IsFiniteSet({o} \X All(o))
      BY <3>1, FS_Singleton, FS_Product
    <3> QED  BY <2>1, <3>2
  <2>2. CASE o \notin Objects
    BY <2>2, FS_EmptySet
  <2> QED  BY <2>1, <2>2
<1>3. IsFiniteSet(A("primary") \cup A("preview"))
  BY <1>2, FS_Union
<1>4. S \subseteq A("primary") \cup A("preview")
  BY <1>1 DEF Roles
<1> QED  BY <1>3, <1>4, FS_Subset, FS_CardinalityType

\* What the receiver has verified is a number.
LEMMA VerifiedIsNat ==
  ASSUME RowInv, NEW objs, \A o \in Objects : objs[o].have \subseteq All(o)
  PROVE  Verified(objs) \in Nat
<1> DEFINE S == UNION {{o} \X objs[o].have : o \in Objects}
<1>1. S \subseteq {p \in Objects \X Nat : p[2] \in All(p[1])}
  BY DEF All
<1> HIDE DEF S
<1>2. Cardinality(S) \in Nat
  BY <1>1, ChunksFinite
<1> QED  BY <1>2 DEF Verified, S

\* What its request can bring is one too.
LEMMA ExpectedIsNat ==
  ASSUME RowInv
  PROVE  Cardinality(Expected) \in Nat
<1>1. \A o \in Wanted : Lowest(Missing(o), MAX_CHUNKS_PER_REQUEST) \subseteq All(o)
  BY DEF Lowest, Missing
<1>2. Wanted \subseteq Objects /\ \A o : All(o) \subseteq Nat
  BY DEF Wanted, Lacking, All
<1>3. Expected \subseteq {p \in Objects \X Nat : p[2] \in All(p[1])}
  BY <1>1, <1>2 DEF Expected
<1> QED  BY <1>3, ChunksFinite

-----------------------------------------------------------------------------
(* Steps *)

\* Records that join what is under way are in order if each of them is.
LEMMA NetStep ==
  ASSUME NetInv, NEW R,
         IsABag(net'), BagToSet(net') \subseteq BagToSet(net) \cup R,
         offer'.shape = offer.shape, done \subseteq done',
         \A r \in R : RecordOK(r)'
  PROVE  NetInv'
<1>1. \A r \in BagToSet(net) : RecordOK(r)'
  BY DEF NetInv, RecordOK, Objects, All
<1> QED  BY <1>1 DEF NetInv

\* Objects that did not change stay in order while done grows.
LEMMA ObjectStep ==
  ASSUME ObjectInv, UNCHANGED objects, offer'.shape = offer.shape,
         offer'.faithful = offer.faithful, done' = done,
         inbound'.state \in {inbound.state} \cup (Active \ {"Paused"})
  PROVE  ObjectInv'
<1>1. \A o \in Objects : ObjectOK(objects[o], o)'
  BY DEF ObjectInv, ObjectOK, Objects, All
<1>2. Agrees'
  BY DEF ObjectInv, Agrees, Objects, Active, Negative, Absent
<1> QED  BY <1>1, <1>2 DEF ObjectInv, Objects

\* A step that leaves the objects, the records and the receiver's transfer alone.
LEMMA SenderStep ==
  ASSUME IInv, RowInv', SentInv', UNCHANGED receiver, offer'.shape = offer.shape,
         \/ offer'.faithful = offer.faithful
         \/ done = {},
         NEW R, IsABag(net'), BagToSet(net') \subseteq BagToSet(net) \cup R,
         \A r \in R : RecordOK(r)'
  PROVE  IInv'
<1>1. done' = done /\ objects' = objects /\ inbound' = inbound
  BY DEF receiver
<1>2. ObjectInv'
  <2>1. \A o \in Objects : ObjectOK(objects[o], o)'
    BY <1>1 DEF IInv, ObjectInv, ObjectOK, Objects, All
  <2> QED  BY <1>1, <2>1 DEF IInv, ObjectInv, Agrees, Objects
<1>3. NetInv'
  BY <1>1, NetStep DEF IInv
<1> QED  BY <1>2, <1>3 DEF IInv

\* The same when no record moves either.
LEMMA SenderQuiet ==
  ASSUME IInv, RowInv', SentInv', UNCHANGED <<receiver, net>>, offer'.shape = offer.shape,
         \/ offer'.faithful = offer.faithful
         \/ done = {}
  PROVE  IInv'
<1> DEFINE R == {}
<1>1. \A r \in R : RecordOK(r)'
  OBVIOUS
<1>2. IsABag(net') /\ BagToSet(net') \subseteq BagToSet(net) \cup R
  BY DEF IInv, NetInv
<1> HIDE DEF R
<1> QED  BY <1>1, <1>2, SenderStep

\* The initial states.
LEMMA InitInv == Init => IInv
<1> SUFFICES ASSUME Init PROVE IInv
  OBVIOUS
<1>1. RowInv
  BY DEF Init, RowInv, Plain, Idle, States, Negative, Active, Absent
<1>2. SentInv
  BY DEF Init, SentInv, Plain
<1>3. ObjectInv
  <2>1. \A o \in Objects : objects[o] = [state |-> "none", have |-> {}]
    BY DEF Init, Empty
  <2>2. \A o \in Objects : ObjectOK(objects[o], o)
    BY <2>1 DEF ObjectOK, States, Negative, Active, Absent
  <2>3. Agrees
    BY <2>1 DEF Init, Plain, Agrees, Negative, Absent
  <2> QED  BY <2>2, <2>3 DEF Init, ObjectInv, Empty
<1>4. NetInv
  BY DEF Init, NetInv, EmptyBag, SetToBag, IsABag, BagToSet
<1> QED  BY <1>1, <1>2, <1>3, <1>4 DEF IInv

\* The sender imports, offers, notifies and decides.
LEMMA SenderActs ==
  ASSUME IInv,
         \/ send_attachment \/ OfferManifest \/ NotifyOut
         \/ cancel_out \/ pause_out \/ resume_out \/ consume_out \/ expire_out
  PROVE  IInv'
<1>i. RowInv /\ SentInv /\ ObjectInv /\ NetInv
  BY DEF IInv
<1>0. /\ outbound \in [state : States \ {"Corrupt", "AwaitingConsent"}, notify : BOOLEAN]
      /\ offer \in [shape : Shapes, imported : SUBSET Roles, faithful : SUBSET Roles,
                    viewOnce : BOOLEAN, manifest : {"held", "sent", "received"}]
      /\ Objects \subseteq Roles /\ "primary" \in Objects
  BY <1>i, AttachmentConstants DEF RowInv, Objects
<1>1. CASE send_attachment
  <2>1. PICK i \in Imports, v \in BOOLEAN :
          offer' = [offer EXCEPT !.imported = i.imported, !.faithful = i.faithful, !.viewOnce = v]
    BY <1>1 DEF send_attachment
  <2>2. /\ i.imported \subseteq Roles /\ i.faithful \subseteq Objects
        /\ \A o \in Objects : All(o) = {} => o \in i.faithful
    BY <1>0 DEF Imports, Roles
  <2>3. /\ offer' \in [shape : Shapes, imported : SUBSET Roles, faithful : SUBSET Roles,
                       viewOnce : BOOLEAN, manifest : {"held", "sent", "received"}]
        /\ offer'.shape = offer.shape /\ offer'.faithful = i.faithful
        /\ offer'.manifest = offer.manifest
    BY <1>i, <1>0, <2>1, <2>2
  <2>4. RowInv'
    BY <1>i, <1>1, <2>3 DEF send_attachment, RowInv, receiver, Plain, States, Negative, Active, Absent
  <2>5. SentInv'
    BY <1>i, <1>1, <2>2, <2>3 DEF send_attachment, SentInv, receiver, Plain, Objects, All
  <2>6. done = {} /\ net' = net
    BY <1>i, <1>1 DEF send_attachment, SentInv
  <2> QED  BY <1>1, <2>3, <2>4, <2>5, <2>6, SenderQuiet DEF send_attachment
<1> DEFINE ChangesManifest ==
             /\ offer' = [offer EXCEPT !.manifest = offer'.manifest]
             /\ offer'.manifest \in {"held", "sent", "received"}
             /\ offer'.manifest # "held" => outbound'.state # "none"
           Moves == /\ outbound'.state \in States \ {"Corrupt", "AwaitingConsent", "none"}
                    /\ outbound'.state = "Complete" => outbound.state = "Complete"
                    /\ outbound' = [state |-> outbound'.state, notify |-> outbound'.notify]
                    /\ outbound'.notify \in BOOLEAN
                    /\ outbound.state # "none"
<1>2. ASSUME ChangesManifest, Moves, UNCHANGED receiver, commands' \in Nat
      PROVE  RowInv' /\ SentInv' /\ offer'.shape = offer.shape /\ offer'.faithful = offer.faithful
  <2>1. /\ offer' \in [shape : Shapes, imported : SUBSET Roles, faithful : SUBSET Roles,
                       viewOnce : BOOLEAN, manifest : {"held", "sent", "received"}]
        /\ offer'.shape = offer.shape /\ offer'.faithful = offer.faithful
    BY <1>i, <1>0, <1>2
  <2>2. outbound' \in [state : States \ {"Corrupt", "AwaitingConsent"}, notify : BOOLEAN]
    BY <1>2
  <2>3. RowInv'
    BY <1>i, <1>2, <2>1, <2>2 DEF RowInv, receiver
  <2>4. SentInv'
    BY <1>i, <1>2, <2>1 DEF SentInv, receiver, Objects, All
  <2> QED  BY <2>1, <2>3, <2>4
<1>3. CASE OfferManifest
  <2>1. ChangesManifest
    BY <1>i, <1>0, <1>3 DEF OfferManifest, Plain
  <2>2. Moves
    BY <1>i, <1>0, <1>3 DEF OfferManifest, Plain, States, Negative, Active, Absent
  <2> QED  BY <1>2, <1>3, <2>1, <2>2, SenderQuiet, <1>i DEF OfferManifest, RowInv
<1>4. CASE NotifyOut
  <2>1. ChangesManifest
    BY <1>i, <1>0, <1>4 DEF NotifyOut, Notify, Plain, SentInv
  <2>2. Moves
    BY <1>i, <1>0, <1>4 DEF NotifyOut, Notify, Plain, States
  <2> DEFINE R == {Ended("in", e) : e \in {"Reject", "Cancel"}}
  <2>3. net' = With(net, {Ended("in", IF outbound.state = "Rejected" THEN "Reject" ELSE "Cancel")})
    BY <1>4 DEF NotifyOut, Notify
  <2>4. \A x \in R : RecordOK(x)'
    BY DEF RecordOK, Ended, Ops
  <2>5. IsABag(net') /\ BagToSet(net') \subseteq BagToSet(net) \cup R
    BY <1>i, <2>3, WithFacts DEF NetInv
  <2>6. RowInv' /\ SentInv' /\ offer'.shape = offer.shape /\ offer'.faithful = offer.faithful
    BY <1>i, <1>2, <1>4, <2>1, <2>2 DEF NotifyOut, RowInv
  <2>7. UNCHANGED receiver
    BY <1>4 DEF NotifyOut
  <2> HIDE DEF R
  <2> QED  BY <2>4, <2>5, <2>6, <2>7, SenderStep
<1>5. CASE cancel_out \/ pause_out \/ resume_out
  <2>1. ChangesManifest
    BY <1>i, <1>0, <1>5 DEF cancel_out, pause_out, resume_out, Plain, Decided, SentInv
  <2>2. Moves
    <3>1. CASE cancel_out
      BY <1>0, <3>1 DEF cancel_out, Decided, States, Absent, Negative
    <3>2. CASE pause_out
      BY <1>0, <3>2 DEF pause_out, Plain, States, Active, Running
    <3>3. CASE resume_out
      BY <1>0, <3>3 DEF resume_out, Plain, States, Active
    <3> QED  BY <1>5, <3>1, <3>2, <3>3
  <2>3. commands' \in Nat /\ net' = net /\ UNCHANGED receiver
    BY <1>i, <1>5 DEF cancel_out, pause_out, resume_out, Command, RowInv
  <2> QED  BY <1>2, <2>1, <2>2, <2>3, SenderQuiet
<1>6. CASE consume_out \/ expire_out
  <2>0. EraseOut
    BY <1>6 DEF consume_out, expire_out
  <2>1. ChangesManifest
    BY <1>i, <1>0, <2>0 DEF EraseOut, Plain
  <2>2. Moves
    BY <1>i, <1>0, <2>0 DEF EraseOut, Plain, States, Absent
  <2>3. commands' \in Nat /\ net' = net /\ UNCHANGED receiver
    BY <1>i, <1>6, <2>0 DEF consume_out, expire_out, EraseOut, Command, RowInv
  <2> QED  BY <1>2, <2>1, <2>2, <2>3, SenderQuiet
<1> QED  BY <1>1, <1>3, <1>4, <1>5, <1>6

\* A transfer row in a new state.
LEMMA PlainRow ==
  \A s \in States : /\ Plain(s) \in [state : States, notify : BOOLEAN]
                    /\ Plain(s).state = s
                    /\ s \notin {"Corrupt", "AwaitingConsent"} =>
                         Plain(s) \in [state : States \ {"Corrupt", "AwaitingConsent"},
                                      notify : BOOLEAN]
BY DEF Plain

\* The states the actions name.
LEMMA StateNames ==
  /\ Negative \subseteq States /\ Active \subseteq States /\ Absent \subseteq States
  /\ {"none", "gone", "Rejected", "Cancelled", "Corrupt", "Queued", "Transferring", "Paused",
      "AwaitingConsent", "Complete"} \subseteq States
BY DEF States, Negative, Active, Absent

\* The sender applies a record: it serves a request, is acknowledged or is told
\* of the end.
LEMMA SenderApplies ==
  ASSUME IInv, NEW op, apply_attachment_bulk_out(op)
  PROVE  IInv'
<1>i. RowInv /\ SentInv /\ ObjectInv /\ NetInv
  BY DEF IInv
<1>1. PICK r \in BagToSet(net) :
        /\ r.to = "out" /\ r.op = op
        /\ ServeRequest(r) \/ ApplyComplete(r) \/ ApplyEndOut(r)
        /\ UNCHANGED <<offer, receiver, full, commands, faults>>
  BY DEF apply_attachment_bulk_out
<1>2. UNCHANGED <<offer, inbound, objects, asked, done, commands>>
  BY <1>1 DEF receiver
<1>3. IsABag(Without(r)) /\ BagToSet(Without(r)) \subseteq BagToSet(net) /\ RecordOK(r)
  BY <1>i, WithoutFacts DEF NetInv
<1>4. ASSUME outbound' \in [state : States \ {"Corrupt", "AwaitingConsent"}, notify : BOOLEAN],
             \/ outbound' = outbound
             \/ /\ outbound.state # "none" /\ outbound'.state # "none"
                /\ outbound'.state = "Complete" => done # {}
      PROVE  RowInv' /\ SentInv'
  <2>1. RowInv'
    BY <1>i, <1>2, <1>4 DEF RowInv
  <2>2. SentInv'
    BY <1>i, <1>2, <1>4 DEF SentInv, Objects, All
  <2> QED  BY <2>1, <2>2
<1>5. ASSUME RowInv', SentInv', NEW R, \A x \in R : RecordOK(x)',
             IsABag(net'), BagToSet(net') \subseteq BagToSet(net) \cup R
      PROVE  IInv'
  BY <1>1, <1>2, <1>5, SenderStep
<1>6. ASSUME RowInv', SentInv', net' = Without(r)
      PROVE  IInv'
  <2> DEFINE R == {}
  <2>1. \A x \in R : RecordOK(x)'
    OBVIOUS
  <2> HIDE DEF R
  <2> QED  BY <1>3, <1>5, <1>6, <2>1
<1>7. CASE ServeRequest(r)
  <2>1. RowInv' /\ SentInv'
    <3>1. outbound' \in [state : States \ {"Corrupt", "AwaitingConsent"}, notify : BOOLEAN]
      BY <1>i, <1>7, PlainRow, StateNames DEF ServeRequest, RowInv
    <3> QED  BY <1>4, <1>7, <3>1 DEF ServeRequest, Plain, Serves, Absent
  <2>2. CASE ~Serves
    BY <1>6, <1>7, <2>1, <2>2 DEF ServeRequest
  <2>3. CASE Serves
    <3> DEFINE R == {Chunk(r.object, i) : i \in Lowest(r.chunks, MAX_CHUNKS_PER_REQUEST)}
    <3>1. net' = With(Without(r), R)
      BY <1>7, <2>3 DEF ServeRequest
    <3>2. r.object \in Objects /\ r.chunks \subseteq All(r.object)
      BY <1>3, <1>7 DEF ServeRequest, RecordOK
    <3>3. \A x \in R : RecordOK(x)'
      <4> SUFFICES ASSUME NEW i \in Lowest(r.chunks, MAX_CHUNKS_PER_REQUEST)
                   PROVE  RecordOK(Chunk(r.object, i))'
        OBVIOUS
      <4>1. i \in All(r.object)
        BY <3>2 DEF Lowest
      <4> QED  BY <1>2, <3>2, <4>1 DEF RecordOK, Chunk, Ops, Objects, All
    <3> HIDE DEF R
    <3>4. IsABag(net') /\ BagToSet(net') \subseteq BagToSet(net) \cup R
      BY <1>3, <3>1, WithFacts
    <3> QED  BY <1>5, <2>1, <3>3, <3>4
  <2> QED  BY <2>2, <2>3
<1>8. CASE ApplyComplete(r)
  <2>1. done # {}
    BY <1>3, <1>8 DEF ApplyComplete, RecordOK
  <2>2. outbound' \in [state : States \ {"Corrupt", "AwaitingConsent"}, notify : BOOLEAN]
    BY <1>i, <1>8, PlainRow, StateNames DEF ApplyComplete, RowInv
  <2>3. RowInv' /\ SentInv'
    BY <1>4, <1>8, <2>1, <2>2 DEF ApplyComplete, Plain, Absent
  <2> QED  BY <1>6, <1>8, <2>3 DEF ApplyComplete
<1>9. CASE ApplyEndOut(r)
  <2>1. outbound' \in [state : States \ {"Corrupt", "AwaitingConsent"}, notify : BOOLEAN]
    BY <1>i, <1>9, PlainRow, StateNames DEF ApplyEndOut, RowInv
  <2>2. RowInv' /\ SentInv'
    BY <1>4, <1>9, <2>1 DEF ApplyEndOut, Plain, Absent
  <2> QED  BY <1>6, <1>9, <2>2 DEF ApplyEndOut
<1> QED  BY <1>1, <1>7, <1>8, <1>9

\* A step of the receiver that leaves the sender alone and the records in order.
LEMMA ReceiverStep ==
  ASSUME IInv, UNCHANGED sender,
         inbound' \in [state : States, notify : BOOLEAN],
         inbound'.state = "none" => inbound.state = "none" /\ done' = done,
         asked' \in [waiting : BOOLEAN, target : Nat], commands' \in Nat,
         done \subseteq done', inbound.state = "none" => inbound'.state = "none",
         ObjectInv', NetInv'
  PROVE  IInv'
<1>1. outbound' = outbound /\ offer' = offer
  BY DEF sender
<1>2. RowInv'
  BY <1>1 DEF IInv, RowInv
<1>3. SentInv'
  BY <1>1 DEF IInv, SentInv, Objects, All
<1> QED  BY <1>2, <1>3 DEF IInv

\* Every object in one state that leaves no chunks.
LEMMA FinishStep ==
  ASSUME IInv, UNCHANGED <<sender, done>>, NEW s \in Negative, inbound'.state = s, objects' = Each(s)
  PROVE  ObjectInv'
<1>0. offer' = offer /\ done' = done /\ Objects' = Objects /\ s \in States \ Absent
  BY DEF sender, Objects, States, Negative, Absent
<1>1. objects' = [o \in Objects |-> [state |-> s, have |-> {}]]
  BY DEF Each, media_object_with_state
<1>2. \A o \in Objects : ObjectOK(objects[o], o)'
  BY <1>0, <1>1 DEF ObjectOK, All, Negative, Active, Absent
<1>3. Agrees'
  BY <1>0, <1>1 DEF Agrees, Negative, Absent
<1> QED  BY <1>0, <1>1, <1>2, <1>3 DEF IInv, ObjectInv

\* Every unfinished object in a state that keeps its chunks.
LEMMA UnfinishedStep ==
  ASSUME IInv, UNCHANGED <<sender, done>>, NEW s \in Active, inbound'.state = s,
         objects' = Unfinished(s)
  PROVE  ObjectInv'
<1>0. /\ offer' = offer /\ done' = done /\ Objects' = Objects
      /\ s \in States \ (Absent \cup Negative \cup {"Complete", "AwaitingConsent"})
  BY DEF sender, Objects, States, Negative, Absent, Active
<1>1. \A o \in Objects : ObjectOK(objects[o], o)'
  <2> SUFFICES ASSUME NEW o \in Objects PROVE ObjectOK(objects[o], o)'
    BY <1>0
  <2>1. ObjectOK(objects[o], o)
    BY DEF IInv, ObjectInv
  <2>2. objects'[o] = IF objects[o].state = "Complete" THEN objects[o]
                      ELSE [state |-> s, have |-> objects[o].have]
    BY <1>0 DEF Unfinished, media_object_with_state
  <2>3. CASE objects[o].state = "Complete"
    BY <1>0, <2>1, <2>2, <2>3 DEF ObjectOK, All
  <2>4. CASE objects[o].state # "Complete"
    <3>1. objects[o].have # All(o) \/ All(o) = {}
      BY <2>1, <2>4 DEF ObjectOK, States, Absent
    <3>2. objects[o].have \subseteq All(o)
      BY <2>1 DEF ObjectOK
    <3> QED  BY <1>0, <2>2, <2>4, <3>1, <3>2 DEF ObjectOK, All, Absent
  <2> QED  BY <2>3, <2>4
<1>2. Agrees'
  BY <1>0 DEF Agrees
<1>3. objects' = [o \in Objects |-> objects'[o]]
  BY DEF Unfinished
<1> QED  BY <1>0, <1>1, <1>2, <1>3 DEF IInv, ObjectInv

\* Records stay in order when none joins them.
LEMMA NetQuiet ==
  ASSUME IInv, offer'.shape = offer.shape, done \subseteq done',
         IsABag(net'), BagToSet(net') \subseteq BagToSet(net)
  PROVE  NetInv'
<1> DEFINE R == {}
<1>1. \A r \in R : RecordOK(r)'
  OBVIOUS
<1>2. BagToSet(net') \subseteq BagToSet(net) \cup R
  OBVIOUS
<1> HIDE DEF R
<1> QED  BY <1>1, <1>2, NetStep DEF IInv

\* Objects without chunks, in the state that says so.
LEMMA EmptyStep ==
  ASSUME IInv, offer'.shape = offer.shape, offer'.faithful = offer.faithful, done' = done,
         NEW s \in {"none", "AwaitingConsent"}, objects' = Empty(s),
         inbound'.state = "AwaitingConsent" => s = "AwaitingConsent",
         inbound'.state \in {"AwaitingConsent", "gone"},
         inbound'.state = "gone" => s = "none"
  PROVE  ObjectInv'
<1>0. Objects' = Objects /\ s \in States \ {"gone"}
  BY DEF Objects, States, Absent
<1>1. objects' = [o \in Objects |-> [state |-> s, have |-> {}]]
  BY DEF Empty
<1>2. \A o \in Objects : ObjectOK(objects[o], o)'
  BY <1>0, <1>1 DEF ObjectOK, All, Active
<1>3. Agrees'
  BY <1>0, <1>1 DEF Agrees, Negative, Absent
<1> QED  BY <1>0, <1>1, <1>2, <1>3 DEF IInv, ObjectInv

\* The receiver is offered the file, and its user decides.
LEMMA ReceiverDecides ==
  ASSUME IInv,
         \/ ReceiveOffer \/ \E s \in {"Rejected", "Cancelled"} : refuse_in(s)
         \/ pause_in \/ idle_pause \/ resume_in \/ consume_in \/ expire_in
  PROVE  IInv'
<1>i. RowInv /\ SentInv /\ ObjectInv /\ NetInv
  BY DEF IInv
<1>0. Idle \in [waiting : BOOLEAN, target : Nat]
  BY DEF Idle
<1>1. CASE ReceiveOffer
  <2>1. /\ offer' = [offer EXCEPT !.manifest = "received"] /\ offer.manifest = "sent"
        /\ inbound' = Plain("AwaitingConsent") /\ objects' = Empty("AwaitingConsent")
        /\ UNCHANGED <<outbound, asked, net, done, commands>>
    BY <1>1 DEF ReceiveOffer
  <2>2. /\ offer' \in [shape : Shapes, imported : SUBSET Roles, faithful : SUBSET Roles,
                       viewOnce : BOOLEAN, manifest : {"held", "sent", "received"}]
        /\ offer'.shape = offer.shape /\ offer'.faithful = offer.faithful
    BY <1>i, <2>1 DEF RowInv
  <2>3. inbound'.state = "AwaitingConsent"
    BY <2>1 DEF Plain
  <2>4. ObjectInv'
    BY <2>1, <2>2, <2>3, EmptyStep
  <2>5. NetInv'
    BY <1>i, <2>1, <2>2, NetQuiet DEF NetInv
  <2>6. RowInv'
    BY <1>i, <2>1, <2>2, PlainRow, StateNames DEF RowInv
  <2>7. SentInv'
    BY <1>i, <2>1, <2>2 DEF SentInv, Objects, All
  <2> QED  BY <2>4, <2>5, <2>6, <2>7 DEF IInv
<1>2. ASSUME NEW s \in {"Rejected", "Cancelled"}, refuse_in(s)
      PROVE  IInv'
  <2>1. /\ inbound' = [state |-> s, notify |-> TRUE] /\ objects' = Each(s) /\ asked' = Idle
        /\ inbound.state \notin Absent /\ UNCHANGED <<sender, net, done>> /\ commands' \in Nat
    BY <1>i, <1>2 DEF refuse_in, Finish, Command, RowInv
  <2>2. s \in Negative
    BY DEF Negative
  <2>3. ObjectInv'
    BY <2>1, <2>2, FinishStep
  <2>4. NetInv'
    BY <1>i, <2>1, NetQuiet DEF NetInv, sender
  <2>5. /\ inbound' \in [state : States, notify : BOOLEAN] /\ inbound'.state = s /\ s # "none"
        /\ inbound.state # "none"
    BY <2>1, StateNames DEF Absent
  <2> QED  BY <1>0, <2>1, <2>3, <2>4, <2>5, ReceiverStep
<1>3. CASE pause_in \/ idle_pause \/ resume_in
  <2>1. PICK s \in {"Paused", "Queued"} :
          /\ inbound' = Plain(s) /\ objects' = Unfinished(s) /\ asked' = Idle
          /\ UNCHANGED <<sender, net, done>> /\ commands' \in Nat
          /\ inbound.state # "none"
    BY <1>i, <1>3 DEF pause_in, idle_pause, resume_in, pause_attachment, Command, Running, RowInv
  <2>2. s \in Active /\ s \in States
    BY DEF Active, States
  <2>3. inbound' \in [state : States, notify : BOOLEAN] /\ inbound'.state = s /\ s # "none"
    BY <2>1, <2>2, PlainRow
  <2>4. ObjectInv'
    BY <2>1, <2>2, <2>3, UnfinishedStep
  <2>5. NetInv'
    BY <1>i, <2>1, NetQuiet DEF NetInv, sender
  <2> QED  BY <1>0, <2>1, <2>3, <2>4, <2>5, ReceiverStep
<1>4. CASE consume_in \/ expire_in
  <2>1. /\ inbound' = Plain("gone") /\ objects' = Empty("none") /\ asked' = Idle
        /\ UNCHANGED <<sender, net, done>> /\ commands' \in Nat
        /\ inbound.state # "none"
    BY <1>i, <1>4 DEF consume_in, expire_in, EraseIn, Command, Absent, RowInv
  <2>2. inbound' \in [state : States, notify : BOOLEAN] /\ inbound'.state = "gone"
    BY <2>1, PlainRow, StateNames
  <2>3. ObjectInv'
    BY <2>1, <2>2, EmptyStep DEF sender
  <2>4. NetInv'
    BY <1>i, <2>1, NetQuiet DEF NetInv, sender
  <2> QED  BY <1>0, <2>1, <2>2, <2>3, <2>4, ReceiverStep
<1> QED  BY <1>1, <1>2, <1>3, <1>4

\* The receiver's user accepts, again too after a refusal.
LEMMA ReceiverAccepts ==
  ASSUME IInv, accept_attachment
  PROVE  IInv'
<1>i. RowInv /\ SentInv /\ ObjectInv /\ NetInv
  BY DEF IInv
<1> DEFINE S(o) == IF All(o) = {} THEN "Complete" ELSE "Queued"
<1>1. /\ inbound.state \in {"AwaitingConsent", "Rejected", "Cancelled"}
      /\ UNCHANGED <<sender, asked, net>> /\ commands' \in Nat
      /\ done' = done \cup {o \in Objects : All(o) = {}}
      /\ inbound' = Plain(IF \A o \in Objects : All(o) = {} THEN "Complete" ELSE "Queued")
      /\ objects' = [o \in Objects |-> media_object_with_state(objects[o], S(o))]
  BY <1>i DEF accept_attachment, Command, RowInv
<1>2. offer' = offer /\ outbound' = outbound /\ Objects' = Objects
  BY <1>1 DEF sender, Objects
<1>3. \A o \in Objects : objects[o].have = {}
  <2> SUFFICES ASSUME NEW o \in Objects PROVE objects[o].have = {}
    OBVIOUS
  <2>1. objects[o].state = inbound.state
    BY <1>i, <1>1 DEF ObjectInv, Agrees, Negative
  <2> QED  BY <1>i, <1>1, <2>1 DEF ObjectInv, ObjectOK, Negative
<1>4. \A o \in Objects : objects'[o] = [state |-> S(o), have |-> {}]
  BY <1>1, <1>3 DEF media_object_with_state, Negative
<1>5. \A o \in Objects : ObjectOK(objects[o], o)'
  <2> SUFFICES ASSUME NEW o \in Objects PROVE ObjectOK(objects[o], o)'
    BY <1>2
  <2>0. All(o)' = All(o)
    BY <1>2 DEF All
  <2>1. CASE All(o) = {}
    <3>1. o \in done'
      BY <1>1, <2>1
    <3>2. objects'[o] = [state |-> "Complete", have |-> {}]
      BY <1>4, <2>1
    <3> QED  BY <2>0, <2>1, <3>1, <3>2, StateNames DEF ObjectOK, Negative, Active
  <2>2. CASE All(o) # {}
    <3>1. objects'[o] = [state |-> "Queued", have |-> {}]
      BY <1>4, <2>2
    <3> QED  BY <2>0, <2>2, <3>1, StateNames DEF ObjectOK, Negative, Active
  <2> QED  BY <2>1, <2>2
<1>6. /\ inbound' \in [state : States, notify : BOOLEAN]
      /\ inbound'.state \in {"Complete", "Queued"}
      /\ inbound'.state = "Complete" => \A o \in Objects : All(o) = {}
  BY <1>1, PlainRow, StateNames
<1>7. Agrees'
  <2>1. inbound'.state = "Complete" => \A o \in Objects : objects'[o].state = "Complete"
    <3> SUFFICES ASSUME inbound'.state = "Complete", NEW o \in Objects
                 PROVE  objects'[o].state = "Complete"
      OBVIOUS
    <3>1. All(o) = {}
      BY <1>6
    <3>2. objects'[o] = [state |-> "Complete", have |-> {}]
      BY <1>4, <3>1
    <3> QED  BY <3>2
  <2> QED  BY <1>2, <1>6, <2>1 DEF Agrees, Negative, Absent
<1>8. done' \subseteq Objects \cap offer.faithful
  BY <1>i, <1>1 DEF ObjectInv, SentInv
<1>9. objects' = [o \in Objects |-> objects'[o]]
  BY <1>1
<1>10. ObjectInv'
  BY <1>2, <1>5, <1>7, <1>8, <1>9 DEF ObjectInv
<1>11. NetInv'
  BY <1>i, <1>1, <1>2, NetQuiet DEF NetInv
<1>12. asked' \in [waiting : BOOLEAN, target : Nat]
  BY <1>i, <1>1 DEF RowInv
<1> QED  BY <1>1, <1>6, <1>10, <1>11, <1>12, ReceiverStep

\* The receiver's ticks, its clock and what happens around it.
LEMMA ReceiverTicks ==
  ASSUME IInv,
         RequestMissing \/ NotifyIn \/ Elapse \/ Lose \/ Restart \/ Crowd \/ Uncrowd
  PROVE  IInv'
<1>i. RowInv /\ SentInv /\ ObjectInv /\ NetInv
  BY DEF IInv
<1>1. CASE RequestMissing
  <2>1. /\ UNCHANGED <<sender, objects, done, commands>>
        /\ inbound.state # "none"
        /\ inbound' = Plain(IF Lacking = {} THEN "Complete" ELSE "Transferring")
    BY <1>1 DEF RequestMissing, RequestDue
  <2>2. offer' = offer /\ Objects' = Objects
    BY <2>1 DEF sender, Objects
  <2>3. /\ inbound' \in [state : States, notify : BOOLEAN]
        /\ inbound'.state = IF Lacking = {} THEN "Complete" ELSE "Transferring"
    BY <2>1, PlainRow, StateNames
  <2>4. asked' \in [waiting : BOOLEAN, target : Nat]
    <3>1. \A o \in Objects : objects[o].have \subseteq All(o)
      BY <1>i DEF ObjectInv, ObjectOK
    <3>2. Verified(objects) \in Nat /\ Cardinality(Expected) \in Nat
      BY <1>i, <3>1, VerifiedIsNat, ExpectedIsNat
    <3> QED  BY <1>1, <3>2 DEF RequestMissing
  <2>5. ObjectInv'
    <3>1. \A o \in Objects : ObjectOK(objects[o], o)'
      BY <1>i, <2>1, <2>2 DEF ObjectInv, ObjectOK, All
    <3>2. Agrees'
      BY <2>1, <2>2, <2>3 DEF Agrees, Lacking, Negative, Absent
    <3> QED  BY <1>i, <2>1, <2>2, <3>1, <3>2 DEF ObjectInv
  <2>6. NetInv'
    <3>1. PICK R : R = {Whole(o) : o \in Objects \ Lacking} \cup {Request(o, Missing(o)) : o \in Wanted}
      OBVIOUS
    <3>2. \A r \in R : RecordOK(r)'
      <4>1. \A o \in Objects \ Lacking : RecordOK(Whole(o))
        BY <1>i DEF ObjectInv, ObjectOK, Lacking, RecordOK, Whole, Ops
      <4>2. \A o \in Wanted : RecordOK(Request(o, Missing(o)))
        BY DEF Wanted, Lacking, RecordOK, Request, Missing, Ops
      <4>3. \A r \in R : RecordOK(r)
        BY <3>1, <4>1, <4>2
      <4> QED  BY <2>1, <2>2, <4>3 DEF RecordOK, Objects, All
    <3>3. net' = With(net, R)
      BY <1>1, <3>1 DEF RequestMissing
    <3>4. IsABag(net') /\ BagToSet(net') \subseteq BagToSet(net) \cup R
      BY <1>i, <3>3, WithFacts DEF NetInv
    <3> QED  BY <1>i, <2>1, <2>2, <3>2, <3>4, NetStep
  <2>7. inbound'.state # "none" /\ commands' \in Nat /\ done \subseteq done' /\ UNCHANGED sender
    BY <1>i, <2>1, <2>3 DEF RowInv
  <2> QED  BY <2>1, <2>3, <2>4, <2>5, <2>6, <2>7, ReceiverStep
<1>2. CASE NotifyIn
  <2> DEFINE R == {Ended("out", e) : e \in {"Reject", "Cancel"}}
  <2>1. /\ net' = With(net, {Ended("out", IF inbound.state = "Rejected" THEN "Reject" ELSE "Cancel")})
        /\ UNCHANGED <<sender, objects, asked, done, commands>>
        /\ inbound' = Plain(inbound.state)
    BY <1>2 DEF NotifyIn, Notify
  <2>2. \A x \in R : RecordOK(x)'
    BY DEF RecordOK, Ended, Ops
  <2>3. IsABag(net') /\ BagToSet(net') \subseteq BagToSet(net) \cup R
    BY <1>i, <2>1, WithFacts DEF NetInv
  <2>4. offer' = offer
    BY <2>1 DEF sender
  <2>5. inbound' \in [state : States, notify : BOOLEAN] /\ inbound'.state = inbound.state
    BY <1>i, <2>1, PlainRow DEF RowInv
  <2> HIDE DEF R
  <2>6. NetInv'
    BY <1>i, <2>1, <2>2, <2>3, <2>4, NetStep
  <2>7. ObjectInv'
    BY <1>i, <2>1, <2>4, <2>5, ObjectStep
  <2>8. asked' \in [waiting : BOOLEAN, target : Nat] /\ commands' \in Nat
    BY <1>i, <2>1 DEF RowInv
  <2> QED  BY <2>1, <2>5, <2>6, <2>7, <2>8, ReceiverStep
<1>3. CASE Elapse \/ Lose \/ Restart \/ Crowd \/ Uncrowd
  <2>1. UNCHANGED <<sender, inbound, objects, done, commands>>
    BY <1>3 DEF Elapse, Lose, Restart, Crowd, Uncrowd, receiver
  <2>2. asked' \in [waiting : BOOLEAN, target : Nat]
    <3>1. asked \in [waiting : BOOLEAN, target : Nat]
      BY <1>i DEF RowInv
    <3>2. asked' = asked \/ asked' = Idle \/ asked' = [asked EXCEPT !.waiting = FALSE]
      BY <1>3 DEF Elapse, Lose, Restart, Crowd, Uncrowd, receiver
    <3>3. Idle \in [waiting : BOOLEAN, target : Nat]
      BY DEF Idle
    <3>4. [asked EXCEPT !.waiting = FALSE] \in [waiting : BOOLEAN, target : Nat]
      BY <3>1
    <3> QED  BY <3>1, <3>2, <3>3, <3>4
  <2>3. offer' = offer
    BY <2>1 DEF sender
  <2>4. ObjectInv'
    BY <1>i, <2>1, <2>3, ObjectStep
  <2>5. NetInv'
    <3>1. IsABag(net') /\ BagToSet(net') \subseteq BagToSet(net)
      BY <1>i, <1>3, WithoutFacts DEF NetInv, Elapse, Lose, Restart, Crowd, Uncrowd
    <3> QED  BY <2>1, <2>3, <3>1, NetQuiet
  <2>6. inbound' \in [state : States, notify : BOOLEAN] /\ commands' \in Nat
    BY <1>i, <2>1 DEF RowInv
  <2> QED  BY <2>1, <2>2, <2>4, <2>5, <2>6, ReceiverStep
<1> QED  BY <1>1, <1>2, <1>3

\* A chunk of an object is staged.
LEMMA StagedOK ==
  ASSUME ObjectInv, NEW o \in Objects, NEW i \in All(o)
  PROVE  /\ Staged(o, i) \in [state : States \ {"gone"}, have : SUBSET All(o)]
         /\ Staged(o, i).have # All(o) => Staged(o, i).state # "Complete" /\ ObjectOK(Staged(o, i), o)
<1>1. ObjectOK(objects[o], o)
  BY DEF ObjectInv
<1>2. CASE i \in objects[o].have
  BY <1>1, <1>2 DEF Staged, ObjectOK
<1>3. CASE i \notin objects[o].have
  <2>1. objects[o].state # "Complete"
    BY <1>1, <1>3 DEF ObjectOK
  <2>2. Staged(o, i) = [state |-> "Transferring", have |-> objects[o].have \cup {i}]
    BY <1>3, <2>1 DEF Staged
  <2>3. objects[o].have \cup {i} \in SUBSET All(o)
    BY <1>1 DEF ObjectOK
  <2> QED  BY <2>2, <2>3, StateNames DEF ObjectOK, Negative, Active
<1> QED  BY <1>2, <1>3

\* The receiver applies a chunk, or the sender's cancellation.
LEMMA ReceiverApplies ==
  ASSUME IInv, NEW op, apply_attachment_bulk_in(op)
  PROVE  IInv'
<1>i. RowInv /\ SentInv /\ ObjectInv /\ NetInv
  BY DEF IInv
<1>0. Idle \in [waiting : BOOLEAN, target : Nat] /\ asked \in [waiting : BOOLEAN, target : Nat]
  BY <1>i DEF Idle, RowInv
<1>1. PICK r \in BagToSet(net) : /\ ApplyChunk(r) \/ ApplyCancelIn(r)
                                 /\ UNCHANGED <<sender, commands>>
  BY DEF apply_attachment_bulk_in
<1>2. offer' = offer /\ Objects' = Objects /\ commands' \in Nat /\ UNCHANGED sender
  BY <1>i, <1>1 DEF sender, Objects, RowInv
<1>3. IsABag(Without(r)) /\ BagToSet(Without(r)) \subseteq BagToSet(net) /\ RecordOK(r)
  BY <1>i, WithoutFacts DEF NetInv
\* the transfer ends
<1>4. ASSUME NEW s \in Negative, Finish(s, FALSE), done' = done, inbound.state # "none", NetInv'
      PROVE  IInv'
  <2>1. /\ inbound' = Plain(s) /\ objects' = Each(s) /\ asked' = Idle
    BY <1>4 DEF Finish, Plain
  <2>2. inbound' \in [state : States, notify : BOOLEAN] /\ inbound'.state = s /\ s # "none"
    BY <2>1, PlainRow, StateNames DEF Negative
  <2>3. ObjectInv'
    BY <1>2, <1>4, <2>1, <2>2, FinishStep
  <2> QED  BY <1>0, <1>2, <1>4, <2>1, <2>2, <2>3, ReceiverStep
<1>5. ASSUME net' = Without(r), done \subseteq done'
      PROVE  NetInv'
  BY <1>2, <1>3, <1>5, NetQuiet
<1>6. ASSUME NEW x, net' = With(Without(r), {x}), done \subseteq done', RecordOK(x)'
      PROVE  NetInv'
  <2>1. PICK R : R = {x}
    OBVIOUS
  <2>2. IsABag(net') /\ BagToSet(net') \subseteq BagToSet(net) \cup R
    BY <1>3, <1>6, <2>1, WithFacts
  <2>3. \A y \in R : RecordOK(y)'
    BY <1>6, <2>1
  <2> QED  BY <1>i, <1>2, <1>6, <2>2, <2>3, NetStep
\* nothing of the receiver changes
<1>7. ASSUME UNCHANGED <<inbound, objects, asked, done>>, NetInv'
      PROVE  IInv'
  <2>1. ObjectInv'
    BY <1>i, <1>2, <1>7, ObjectStep
  <2>2. inbound' \in [state : States, notify : BOOLEAN]
    BY <1>i, <1>7 DEF RowInv
  <2> QED  BY <1>0, <1>2, <1>7, <2>1, <2>2, ReceiverStep
<1>8. CASE ApplyCancelIn(r)
  <2>1. net' = Without(r) /\ done' = done
    BY <1>8 DEF ApplyCancelIn
  <2>2. NetInv'
    BY <1>5, <2>1
  <2>3. CASE inbound.state \in Negative \cup Absent
    BY <1>7, <1>8, <2>1, <2>2, <2>3 DEF ApplyCancelIn
  <2>4. CASE inbound.state \notin Negative \cup Absent
    <3>1. Finish("Cancelled", FALSE) /\ inbound.state # "none" /\ "Cancelled" \in Negative
      BY <1>8, <2>4 DEF ApplyCancelIn, Absent, Negative
    <3> QED  BY <1>4, <2>1, <2>2, <3>1
  <2> QED  BY <2>3, <2>4
<1>9. CASE ApplyChunk(r) /\ inbound.state \in Absent
  <2>1. net' = Without(r) /\ UNCHANGED <<inbound, objects, asked, done>>
    BY <1>9 DEF ApplyChunk
  <2> QED  BY <1>5, <1>7, <2>1
<1>10. CASE ApplyChunk(r) /\ inbound.state \notin Absent
  <2>1. PICK i \in r.chunks : \/ StoreChunk(r, r.object, i)
                              \/ RefuseCorrupt(r, r.object, i)
                              \/ RefuseQuota(r, r.object, i)
                              \/ FailTick(r.object, i)
    BY <1>10 DEF ApplyChunk
  <2>2. r.object \in Objects /\ i \in All(r.object)
    BY <1>3, <1>10 DEF ApplyChunk, RecordOK
  <2>3. inbound.state # "none"
    BY <1>10 DEF Absent
  <2>4. CASE RefuseCorrupt(r, r.object, i)
    <3>1. Finish("Corrupt", FALSE) /\ done' = done /\ "Corrupt" \in Negative
          /\ net' = With(Without(r), {Ended("out", "Cancel")})
      BY <2>4 DEF RefuseCorrupt, Negative
    <3>2. RecordOK(Ended("out", "Cancel"))'
      BY DEF RecordOK, Ended, Ops
    <3> QED  BY <1>4, <1>6, <2>3, <3>1, <3>2
  <2>5. CASE RefuseQuota(r, r.object, i)
    <3>1. Finish("Rejected", FALSE) /\ done' = done /\ "Rejected" \in Negative
          /\ net' = With(Without(r), {Ended("out", "Reject")})
      BY <2>5 DEF RefuseQuota, Negative
    <3>2. RecordOK(Ended("out", "Reject"))'
      BY DEF RecordOK, Ended, Ops
    <3> QED  BY <1>4, <1>6, <2>3, <3>1, <3>2
  <2>6. CASE FailTick(r.object, i)
    <3>1. UNCHANGED <<inbound, objects, asked, done, net>>
      BY <2>6 DEF FailTick
    <3>2. NetInv'
      BY <1>i, <1>2, <3>1, NetQuiet DEF NetInv
    <3> QED  BY <1>7, <3>1, <3>2
  <2>7. CASE StoreChunk(r, r.object, i)
    <3> DEFINE o == r.object
               x == Staged(o, i)
               whole == x.have = All(o)
               y == [x EXCEPT !.state = IF whole THEN "Complete" ELSE @]
    <3>1. PICK after : after = [objects EXCEPT ![o] = y]
      OBVIOUS
    <3>2. /\ whole => o \in offer.faithful
          /\ objects' = after
          /\ inbound' = Plain(IF all_complete(after) THEN "Complete" ELSE "Transferring")
          /\ done' = IF whole THEN done \cup {o} ELSE done
          /\ net' = IF whole THEN With(Without(r), {Whole(o)}) ELSE Without(r)
          /\ asked' \in {Idle, asked}
      BY <2>7, <3>1 DEF StoreChunk
    <3>3. /\ x \in [state : States \ {"gone"}, have : SUBSET All(o)]
          /\ ~whole => x.state # "Complete" /\ ObjectOK(x, o)
      BY <1>i, <2>2, StagedOK
    <3>4. y = [state |-> IF whole THEN "Complete" ELSE x.state, have |-> x.have]
      BY <3>3
    <3> HIDE DEF x, y
    <3>5. objects' = [p \in Objects |-> IF p = o THEN y ELSE objects[p]]
      BY <1>i, <2>2, <3>1, <3>2 DEF ObjectInv
    <3>6. \A p : All(p)' = All(p)
      BY <1>2 DEF All
    <3>7. \A p \in Objects : ObjectOK(objects[p], p)'
      <4>1. ASSUME NEW p \in Objects, p # o PROVE ObjectOK(objects[p], p)'
        <5>1. ObjectOK(objects[p], p) /\ objects'[p] = objects[p] /\ done \subseteq done'
          BY <1>i, <3>2, <3>5, <4>1 DEF ObjectInv
        <5> QED  BY <3>6, <5>1 DEF ObjectOK
      <4>2. ASSUME NEW p \in Objects, p = o, whole PROVE ObjectOK(objects[p], p)'
        <5>1. objects'[p] = [state |-> "Complete", have |-> All(p)] /\ p \in done'
          BY <3>2, <3>4, <3>5, <4>2
        <5> QED  BY <3>6, <5>1, StateNames DEF ObjectOK, Negative, Active
      <4>3. ASSUME NEW p \in Objects, p = o, ~whole PROVE ObjectOK(objects[p], p)'
        <5>1. objects'[p] = x /\ ObjectOK(x, p) /\ done' = done
          BY <3>2, <3>3, <3>4, <3>5, <4>3
        <5> QED  BY <3>6, <5>1 DEF ObjectOK
      <4> QED  BY <4>1, <4>2, <4>3
    <3>8. /\ inbound' \in [state : States, notify : BOOLEAN]
          /\ inbound'.state = IF all_complete(after) THEN "Complete" ELSE "Transferring"
      BY <3>2, PlainRow, StateNames
    <3>9. Agrees'
      BY <1>2, <3>2, <3>8 DEF Agrees, all_complete, Negative, Absent
    <3>10. ObjectInv'
      <4>1. done' \subseteq Objects \cap offer.faithful
        BY <1>i, <2>2, <3>2 DEF ObjectInv
      <4>2. objects' = [p \in Objects |-> objects'[p]]
        BY <3>5
      <4> QED  BY <1>2, <3>7, <3>9, <4>1, <4>2 DEF ObjectInv
    <3>11. NetInv'
      <4>1. CASE whole
        <5>1. RecordOK(Whole(o))'
          BY <3>2, <4>1 DEF RecordOK, Whole, Ops
        <5> QED  BY <1>6, <3>2, <4>1, <5>1
      <4>2. CASE ~whole
        BY <1>5, <3>2, <4>2
      <4> QED  BY <4>1, <4>2
    <3>12. done \subseteq done' /\ asked' \in [waiting : BOOLEAN, target : Nat]
      BY <1>0, <3>2
    <3> QED  BY <1>2, <2>3, <3>8, <3>10, <3>11, <3>12, ReceiverStep
  <2> QED  BY <2>1, <2>4, <2>5, <2>6, <2>7
<1> QED  BY <1>1, <1>8, <1>9, <1>10

-----------------------------------------------------------------------------
(* Theorems *)

\* Every step keeps the invariant.
LEMMA NextInv == IInv /\ [Next]_vars => IInv'
<1> SUFFICES ASSUME IInv, [Next]_vars PROVE IInv'
  OBVIOUS
<1>1. CASE \/ send_attachment \/ OfferManifest \/ NotifyOut
           \/ cancel_out \/ pause_out \/ resume_out \/ consume_out \/ expire_out
  BY <1>1, SenderActs
<1>2. CASE \/ ReceiveOffer \/ \E s \in {"Rejected", "Cancelled"} : refuse_in(s)
           \/ pause_in \/ idle_pause \/ resume_in \/ consume_in \/ expire_in
  BY <1>2, ReceiverDecides
<1>3. CASE accept_attachment
  BY <1>3, ReceiverAccepts
<1>4. CASE RequestMissing \/ NotifyIn \/ Elapse \/ Lose \/ Restart \/ Crowd \/ Uncrowd
  BY <1>4, ReceiverTicks
<1>5. CASE \E op \in Ops : Apply(op)
  BY <1>5, SenderApplies, ReceiverApplies DEF Apply
<1>6. CASE UNCHANGED vars
  <2>1. UNCHANGED <<outbound, offer, inbound, objects, asked, done, net, commands>>
    BY <1>6 DEF vars, sender, receiver
  <2>2. RowInv' /\ SentInv'
    BY <2>1 DEF IInv, RowInv, SentInv, Objects, All
  <2>3. ObjectInv' /\ NetInv'
    <3>1. ObjectInv'
      BY <2>1, ObjectStep DEF IInv
    <3>2. NetInv'
      BY <2>1, NetQuiet DEF IInv, NetInv
    <3> QED  BY <3>1, <3>2
  <2> QED  BY <2>2, <2>3 DEF IInv
<1> QED  BY <1>1, <1>2, <1>3, <1>4, <1>5, <1>6
         DEF Next, activate_attachment_transfers, Users

\* The invariant holds in every reachable state.
LEMMA Invariance == Spec => []IInv
BY InitInv, NextInv, PTL DEF Spec

\* The rows of both ends are well formed in every reachable state, and an object
\* that ended without success keeps no chunk.
THEOREM TypeCorrect == Spec => []TypeOK
BY Invariance, IInvImplies, PTL

\* Complete means whole and verified, at the receiver, in every acknowledgement
\* under way and for what the sender shows (apply_attachment_bulk).
THEOREM CompleteIsWholeHolds == Spec => []CompleteIsWhole
BY Invariance, IInvImplies, PTL

=============================================================================
