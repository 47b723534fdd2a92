---------------------------- MODULE FaceMatchCap ----------------------------
(***************************************************************************)
(* The cap on people enrolled through a declined match on one face         *)
(* (src/server/nolockout.go, within handleIssueCredential).  The list of   *)
(* others is read before the credential is made and extended after it,     *)
(* the second under the lockout mutex; nothing holds the two together.     *)
(*                                                                         *)
(* All sessions here declined a match on the same face.  Recoveries, bans  *)
(* and the other records of an issuance are in modules Recovery and        *)
(* Issuance; here any step between the check and the answer may fail.      *)
(***************************************************************************)
EXTENDS Integers, FiniteSets

CONSTANTS
  CapSessions,         \* sessions that declined a match on the face
  HolderOf,            \* the holder key of each
  Reviewed,            \* the sessions with operator-review verified
  Issuers,             \* issuance requests in flight
  FaceMatchMaxOthers,
  Free                 \* no session

ASSUME CapBounds == FaceMatchMaxOthers \in Nat /\ IsFiniteSet(Issuers) /\ Issuers # {}

VARIABLES
  others,      \* nsFaceMatchOthers of the face
  issuing,     \* what each request is doing
  marked,      \* sessions marked as issued
  \* What happened, for the property.
  counted,     \* sessions whose holder a request without review has added
  delivered    \* sessions answered with a credential

capVars == <<others, issuing, marked, counted, delivered>>

AtRest == [at |-> "rest", session |-> Free]

CapInit ==
  /\ others = {} /\ issuing = [i \in Issuers |-> AtRest]
  /\ marked = {} /\ counted = {} /\ delivered = {}

(* Mutation: the list is not counted.                                      *)
NoCap(s) == TRUE

(* lockoutIssuanceCheck for a declined match.                              *)
lockoutIssuanceCheck(s) ==
  s \in Reviewed \/ HolderOf[s] \in others \/ Cardinality(others) < FaceMatchMaxOthers

CheckCap(i, s) ==
  /\ issuing[i] = AtRest /\ s \notin marked
  /\ lockoutIssuanceCheck(s)
  /\ issuing' = [issuing EXCEPT ![i] = [at |-> "record", session |-> s]]
  /\ UNCHANGED <<others, marked, counted, delivered>>

(* Where a request goes that could not record the issuance: nowhere.       *)
AfterError == {"rest"}

Then(at, s) == IF at = "rest" THEN AtRest ELSE [at |-> at, session |-> s]

(* lockoutRecordIssuance; a failed write may have landed.                  *)
addFaceMatchOther(i) ==
  /\ issuing[i].at = "record"
  /\ LET s == issuing[i].session
     IN \E landed, ok \in BOOLEAN :
          /\ ok => landed
          /\ others'  = IF landed THEN others \cup {HolderOf[s]} ELSE others
          /\ counted' = IF landed /\ s \notin Reviewed /\ HolderOf[s] \notin others
                        THEN counted \cup {s} ELSE counted
          /\ \E at \in IF ok THEN {"mark"} ELSE AfterError : issuing' = [issuing EXCEPT ![i] = Then(at, s)]
  /\ UNCHANGED <<marked, delivered>>

(* MarkIssued marks a session once, and may fail before or after.          *)
MarkIssued(i) ==
  /\ issuing[i].at = "mark"
  /\ LET s == issuing[i].session
     IN \/ s \notin marked /\ marked' = marked \cup {s} /\ delivered' \in {delivered, delivered \cup {s}}
        \/ UNCHANGED <<marked, delivered>>
  /\ issuing' = [issuing EXCEPT ![i] = AtRest]
  /\ UNCHANGED <<others, counted>>

CapNext ==
  \E i \in Issuers : (\E s \in CapSessions : CheckCap(i, s)) \/ addFaceMatchOther(i) \/ MarkIssued(i)

CapSpec == CapInit /\ [][CapNext]_capVars

-----------------------------------------------------------------------------
(* Properties.                                                             *)

(* "A declined match is capped per face": without a review, at most        *)
(* FaceMatchMaxOthers holders pass, and one more for each further request  *)
(* in flight at the same time, which all may have read the list before any *)
(* extended it; failed and repeated requests add nothing to that.          *)
CapHolds == Cardinality(counted) < FaceMatchMaxOthers + Cardinality(Issuers)

(* A credential handed out through a declined match is on the list, so     *)
(* that it counts for whoever comes next, whichever writes failed before.  *)
DeliveredIsCounted == \A s \in delivered : HolderOf[s] \in others

(* Every credential handed out on a shared face is counted, and the count  *)
(* passes the cap by no more than the issuances that overlap.              *)
CapIsKept == CapHolds /\ DeliveredIsCounted
=============================================================================
