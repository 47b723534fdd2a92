------------------------- MODULE SessionStoreProofs -------------------------
(***************************************************************************)
(* Proofs about SessionStore for any set of ceremonies and issue calls:    *)
(* type correctness, coherence of what is delivered, and, where the claim  *)
(* does not expire, the implementation of IssueOnce.                       *)
(***************************************************************************)
EXTENDS SessionStore, TLAPS

(* Only a method that proves an identifier is ever between its two writes. *)
KeyersProve ==
  \A m \in Ceremonies : mpc[m] \in {"key", "keyed"} => ProvesIdentifier(m)

(* The inductive form of SessionTypeOK.                                    *)
TypeInv == SessionTypeOK /\ KeyersProve

(* A record names its anchor only with that anchor's result.               *)
AnchorHeld(r) == r.anchor # NoMethod => r.anchor \in r.methods

(* The record and every copy of it in flight hold their anchor.            *)
AnchorsHeld ==
  /\ AnchorHeld(rec)
  /\ \A m \in Ceremonies : AnchorHeld(mcopy[m])
  /\ \A i \in Issuers : AnchorHeld(icopy[i]) /\ AnchorHeld(view[i])

(* The reverify_required check of handleIssueCredential passes.            *)
Bound(r) == Bio(r) \/ ~ Unkeyed(r)

(* An issue call past its first read works from a view that passed it.     *)
ViewsBound == \A i \in Issuers : ipc[i] # "idle" => Bound(view[i])

(* A call that writes the issued mark, or has handed its credential out,   *)
(* owns the claim.                                                         *)
ClaimOwned == \A i \in Issuers : ipc[i] \in {"write", "done"} => claim = i

-----------------------------------------------------------------------------
(* Create's record is a record and holds its (absent) anchor.              *)
LEMMA FreshFacts == Fresh \in Records /\ AnchorHeld(Fresh)
BY NoneAssumption DEF Fresh, Records, AnchorHeld

(* What the three writers store is a record, and keeps the anchor held.    *)
LEMMA WriteFacts ==
  ASSUME NEW r \in Records
  PROVE  /\ \A m \in Ceremonies : ProvesIdentifier(m) =>
              [r EXCEPT !.keys = @ \cup {KindOf[m]}] \in Records
         /\ \A m \in Ceremonies :
              [r EXCEPT !.methods = @ \cup {m},
                        !.anchor = IF m \in Anchors THEN m ELSE @] \in Records
         /\ \A i \in Issuers : [r EXCEPT !.issued = i] \in Records
BY MethodAssumption DEF Records, ProvesIdentifier

LEMMA WritesHoldAnchor ==
  ASSUME NEW r \in Records, AnchorHeld(r)
  PROVE  /\ \A m \in Ceremonies : AnchorHeld([r EXCEPT !.keys = @ \cup {KindOf[m]}])
         /\ \A m \in Ceremonies :
              AnchorHeld([r EXCEPT !.methods = @ \cup {m},
                                   !.anchor = IF m \in Anchors THEN m ELSE @])
         /\ \A i \in Issuers : AnchorHeld([r EXCEPT !.issued = i])
BY DEF Records, AnchorHeld

-----------------------------------------------------------------------------
(* Every action keeps every variable in its type.                          *)
LEMMA TypeStep == TypeInv /\ [SessionNext]_sessionVars => TypeInv'
<1> SUFFICES ASSUME TypeInv, [SessionNext]_sessionVars PROVE TypeInv'
  OBVIOUS
<1> USE FreshFacts DEF TypeInv, SessionTypeOK, KeyersProve
<1>1. ASSUME NEW m \in Ceremonies, ReadForKey(m) PROVE TypeInv'
  BY <1>1 DEF ReadForKey, ProvesIdentifier
<1>2. ASSUME NEW m \in Ceremonies, SetIdentifierKey(m) PROVE TypeInv'
  BY <1>2, WriteFacts DEF SetIdentifierKey, KeyAdded
<1>3. ASSUME NEW m \in Ceremonies, ReadForResult(m) PROVE TypeInv'
  BY <1>3 DEF ReadForResult
<1>4. ASSUME NEW m \in Ceremonies, RecordMethodResult(m) PROVE TypeInv'
  BY <1>4, WriteFacts DEF RecordMethodResult, ResultAdded
<1>5. ASSUME NEW m \in Ceremonies, CeremonyFails(m) PROVE TypeInv'
  BY <1>5 DEF CeremonyFails
<1>6. ASSUME NEW i \in Issuers, ReadView(i) PROVE TypeInv'
  BY <1>6 DEF ReadView
<1>7. ASSUME NEW i \in Issuers, ReadForMark(i) PROVE TypeInv'
  BY <1>7 DEF ReadForMark
<1>8. ASSUME NEW i \in Issuers, ClaimIssue(i) PROVE TypeInv'
  BY <1>8 DEF ClaimIssue
<1>9. ASSUME NEW i \in Issuers, MarkIssued(i) PROVE TypeInv'
  BY <1>9, WriteFacts DEF MarkIssued
<1>10. ASSUME NEW i \in Issuers, IssueFails(i) PROVE TypeInv'
  BY <1>10 DEF IssueFails
<1>11. CASE Expire
  BY <1>11 DEF Expire
<1>12. CASE UNCHANGED sessionVars
  BY <1>12 DEF sessionVars
<1> QED
  BY <1>1, <1>2, <1>3, <1>4, <1>5, <1>6, <1>7, <1>8, <1>9, <1>10, <1>11, <1>12 DEF SessionNext

(* Whatever the interleaving of ceremonies, issue calls and expiry, the    *)
(* record and every copy in flight stay records (SessionTypeOK).           *)
THEOREM TypeCorrect == SessionSpec => []SessionTypeOK
<1>1. SessionInit => TypeInv
  BY FreshFacts DEF SessionInit, TypeInv, SessionTypeOK, KeyersProve
<1>2. TypeInv => SessionTypeOK
  BY DEF TypeInv
<1> QED
  BY <1>1, <1>2, TypeStep, PTL DEF SessionSpec

(* TypeInv itself, for the proofs below.                                   *)
LEMMA TypeInvHolds == SessionSpec => []TypeInv
<1>1. SessionInit => TypeInv
  BY FreshFacts DEF SessionInit, TypeInv, SessionTypeOK, KeyersProve
<1> QED
  BY <1>1, TypeStep, PTL DEF SessionSpec

-----------------------------------------------------------------------------
(* No write separates an anchor from its result, however stale its copy.   *)
LEMMA AnchorStep == TypeInv /\ AnchorsHeld /\ [SessionNext]_sessionVars => AnchorsHeld'
<1> SUFFICES ASSUME TypeInv, AnchorsHeld, [SessionNext]_sessionVars PROVE AnchorsHeld'
  OBVIOUS
<1> USE FreshFacts DEF TypeInv, SessionTypeOK, AnchorsHeld
<1>1. ASSUME NEW m \in Ceremonies, ReadForKey(m) PROVE AnchorsHeld'
  BY <1>1 DEF ReadForKey
<1>2. ASSUME NEW m \in Ceremonies, SetIdentifierKey(m) PROVE AnchorsHeld'
  BY <1>2, WritesHoldAnchor DEF SetIdentifierKey, KeyAdded
<1>3. ASSUME NEW m \in Ceremonies, ReadForResult(m) PROVE AnchorsHeld'
  BY <1>3 DEF ReadForResult
<1>4. ASSUME NEW m \in Ceremonies, RecordMethodResult(m) PROVE AnchorsHeld'
  BY <1>4, WritesHoldAnchor DEF RecordMethodResult, ResultAdded
<1>5. ASSUME NEW m \in Ceremonies, CeremonyFails(m) PROVE AnchorsHeld'
  BY <1>5 DEF CeremonyFails
<1>6. ASSUME NEW i \in Issuers, ReadView(i) PROVE AnchorsHeld'
  BY <1>6 DEF ReadView
<1>7. ASSUME NEW i \in Issuers, ReadForMark(i) PROVE AnchorsHeld'
  BY <1>7 DEF ReadForMark
<1>8. ASSUME NEW i \in Issuers, ClaimIssue(i) PROVE AnchorsHeld'
  BY <1>8 DEF ClaimIssue
<1>9. ASSUME NEW i \in Issuers, MarkIssued(i) PROVE AnchorsHeld'
  BY <1>9, WritesHoldAnchor DEF MarkIssued
<1>10. ASSUME NEW i \in Issuers, IssueFails(i) PROVE AnchorsHeld'
  BY <1>10 DEF IssueFails
<1>11. CASE Expire
  BY <1>11 DEF Expire
<1>12. CASE UNCHANGED sessionVars
  BY <1>12 DEF sessionVars
<1> QED
  BY <1>1, <1>2, <1>3, <1>4, <1>5, <1>6, <1>7, <1>8, <1>9, <1>10, <1>11, <1>12 DEF SessionNext

(* Only ReadView changes a view, and it reads one that passed the check.   *)
LEMMA ViewStep == TypeInv /\ ViewsBound /\ [SessionNext]_sessionVars => ViewsBound'
<1> SUFFICES ASSUME TypeInv, ViewsBound, [SessionNext]_sessionVars PROVE ViewsBound'
  OBVIOUS
<1> USE DEF TypeInv, SessionTypeOK, ViewsBound
<1>1. ASSUME NEW m \in Ceremonies, ReadForKey(m) PROVE ViewsBound'
  BY <1>1 DEF ReadForKey
<1>2. ASSUME NEW m \in Ceremonies, SetIdentifierKey(m) PROVE ViewsBound'
  BY <1>2 DEF SetIdentifierKey
<1>3. ASSUME NEW m \in Ceremonies, ReadForResult(m) PROVE ViewsBound'
  BY <1>3 DEF ReadForResult
<1>4. ASSUME NEW m \in Ceremonies, RecordMethodResult(m) PROVE ViewsBound'
  BY <1>4 DEF RecordMethodResult
<1>5. ASSUME NEW m \in Ceremonies, CeremonyFails(m) PROVE ViewsBound'
  BY <1>5 DEF CeremonyFails
<1>6. ASSUME NEW i \in Issuers, ReadView(i) PROVE ViewsBound'
  BY <1>6 DEF ReadView, Bound
<1>7. ASSUME NEW i \in Issuers, ReadForMark(i) PROVE ViewsBound'
  BY <1>7 DEF ReadForMark
<1>8. ASSUME NEW i \in Issuers, ClaimIssue(i) PROVE ViewsBound'
  BY <1>8 DEF ClaimIssue
<1>9. ASSUME NEW i \in Issuers, MarkIssued(i) PROVE ViewsBound'
  BY <1>9 DEF MarkIssued
<1>10. ASSUME NEW i \in Issuers, IssueFails(i) PROVE ViewsBound'
  BY <1>10 DEF IssueFails
<1>11. CASE Expire
  BY <1>11 DEF Expire
<1>12. CASE UNCHANGED sessionVars
  BY <1>12 DEF sessionVars
<1> QED
  BY <1>1, <1>2, <1>3, <1>4, <1>5, <1>6, <1>7, <1>8, <1>9, <1>10, <1>11, <1>12 DEF SessionNext

(* A delivered credential names an anchor only with its method and, with   *)
(* no face in it, is bound to every identifier method it lists, whatever   *)
(* session writes were lost.                                               *)
THEOREM DeliveredIsCoherentHolds == SessionSpec => []DeliveredIsCoherent
<1>1. SessionInit => AnchorsHeld /\ ViewsBound
  BY FreshFacts DEF SessionInit, AnchorsHeld, ViewsBound
<1>2. TypeInv /\ AnchorsHeld /\ ViewsBound => DeliveredIsCoherent
  BY DEF TypeInv, SessionTypeOK, AnchorsHeld, ViewsBound, AnchorHeld, Bound, Unkeyed,
         DeliveredIsCoherent, Delivered
<1> QED
  BY <1>1, <1>2, TypeInvHolds, AnchorStep, ViewStep, PTL DEF SessionSpec

-----------------------------------------------------------------------------
(* A claim without a TTL never changes hands.                              *)
LEMMA ClaimStep ==
  ASSUME ~ ClaimExpires
  PROVE  TypeInv /\ ClaimOwned /\ [SessionNext]_sessionVars => ClaimOwned'
<1> SUFFICES ASSUME TypeInv, ClaimOwned, [SessionNext]_sessionVars PROVE ClaimOwned'
  OBVIOUS
<1> USE NoneAssumption DEF TypeInv, SessionTypeOK, ClaimOwned
<1>1. ASSUME NEW m \in Ceremonies, ReadForKey(m) PROVE ClaimOwned'
  BY <1>1 DEF ReadForKey
<1>2. ASSUME NEW m \in Ceremonies, SetIdentifierKey(m) PROVE ClaimOwned'
  BY <1>2 DEF SetIdentifierKey
<1>3. ASSUME NEW m \in Ceremonies, ReadForResult(m) PROVE ClaimOwned'
  BY <1>3 DEF ReadForResult
<1>4. ASSUME NEW m \in Ceremonies, RecordMethodResult(m) PROVE ClaimOwned'
  BY <1>4 DEF RecordMethodResult
<1>5. ASSUME NEW m \in Ceremonies, CeremonyFails(m) PROVE ClaimOwned'
  BY <1>5 DEF CeremonyFails
<1>6. ASSUME NEW i \in Issuers, ReadView(i) PROVE ClaimOwned'
  BY <1>6 DEF ReadView
<1>7. ASSUME NEW i \in Issuers, ReadForMark(i) PROVE ClaimOwned'
  BY <1>7 DEF ReadForMark
<1>8. ASSUME NEW i \in Issuers, ClaimIssue(i) PROVE ClaimOwned'
  BY <1>8 DEF ClaimIssue, ClaimFree
<1>9. ASSUME NEW i \in Issuers, MarkIssued(i) PROVE ClaimOwned'
  BY <1>9 DEF MarkIssued
<1>10. ASSUME NEW i \in Issuers, IssueFails(i) PROVE ClaimOwned'
  BY <1>10 DEF IssueFails
<1>11. CASE Expire
  BY <1>11 DEF Expire
<1>12. CASE UNCHANGED sessionVars
  BY <1>12 DEF sessionVars
<1> QED
  BY <1>1, <1>2, <1>3, <1>4, <1>5, <1>6, <1>7, <1>8, <1>9, <1>10, <1>11, <1>12 DEF SessionNext

(* Every step of the store is a step of IssueOnce or leaves winner and     *)
(* delivered alone: ClaimIssue chooses, the write of MarkIssued delivers.  *)
LEMMA OnceStep ==
  ASSUME ~ ClaimExpires
  PROVE  TypeInv /\ ClaimOwned /\ [SessionNext]_sessionVars => [Once!Next]_<<claim, Delivered>>
<1> SUFFICES ASSUME TypeInv, ClaimOwned, [SessionNext]_sessionVars
             PROVE  [Once!Next]_<<claim, Delivered>>
  OBVIOUS
<1> USE DEF TypeInv, SessionTypeOK, ClaimOwned, Delivered
<1> DEFINE Goal == [Once!Next]_<<claim, Delivered>>
<1>1. ASSUME NEW m \in Ceremonies, ReadForKey(m) PROVE Goal
  BY <1>1 DEF ReadForKey
<1>2. ASSUME NEW m \in Ceremonies, SetIdentifierKey(m) PROVE Goal
  BY <1>2 DEF SetIdentifierKey
<1>3. ASSUME NEW m \in Ceremonies, ReadForResult(m) PROVE Goal
  BY <1>3 DEF ReadForResult
<1>4. ASSUME NEW m \in Ceremonies, RecordMethodResult(m) PROVE Goal
  BY <1>4 DEF RecordMethodResult
<1>5. ASSUME NEW m \in Ceremonies, CeremonyFails(m) PROVE Goal
  BY <1>5 DEF CeremonyFails
<1>6. ASSUME NEW i \in Issuers, ReadView(i) PROVE Goal
  BY <1>6 DEF ReadView
<1>7. ASSUME NEW i \in Issuers, ReadForMark(i) PROVE Goal
  BY <1>7 DEF ReadForMark
<1>8. ASSUME NEW i \in Issuers, ClaimIssue(i) PROVE Goal
  BY <1>8 DEF ClaimIssue, ClaimFree, Once!Next, Once!Choose
<1>9. ASSUME NEW i \in Issuers, MarkIssued(i) PROVE Goal
  BY <1>9 DEF MarkIssued, Once!Next, Once!Deliver
<1>10. ASSUME NEW i \in Issuers, IssueFails(i) PROVE Goal
  BY <1>10 DEF IssueFails
<1>11. CASE Expire
  BY <1>11 DEF Expire
<1>12. CASE UNCHANGED sessionVars
  BY <1>12 DEF sessionVars
<1> QED
  BY <1>1, <1>2, <1>3, <1>4, <1>5, <1>6, <1>7, <1>8, <1>9, <1>10, <1>11, <1>12 DEF SessionNext

(* Where the claim has no TTL (Firestore), the session store implements    *)
(* IssueOnce: of all the credentials signed for a session one is chosen,   *)
(* for good, and only that one is handed out, although the record itself   *)
(* may lose its issued mark to a stale write.                              *)
THEOREM StoreImplementsIssueOnce ==
  ASSUME ~ ClaimExpires
  PROVE  SessionSpec => ImplementsIssueOnce
<1>1. SessionInit => ClaimOwned /\ Once!Init
  BY DEF SessionInit, ClaimOwned, Once!Init, Delivered
<1> QED
  BY <1>1, TypeInvHolds, ClaimStep, OnceStep, PTL DEF SessionSpec, ImplementsIssueOnce, Once!Spec
=============================================================================
