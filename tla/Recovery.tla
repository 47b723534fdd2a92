------------------------------ MODULE Recovery ------------------------------
(***************************************************************************)
(* Moving a face identity to a new holder key (recovery.go, nolockout.go). *)
(*                                                                         *)
(* A session whose selfie matches an enrolled face may decline the match   *)
(* or, with one more factor, start a recovery: a document that waits for   *)
(* Delay, during which either key can cancel, and is then completed from a *)
(* session of the new key.  openRecovery and closeRecovery hold the store's*)
(* mutex, every other store request of a complete or an issue call is a    *)
(* step of its own, any of them may fail, and any of the writes under the  *)
(* mutex may be the last one that reached the store.  A session runs one   *)
(* handler at a time (session_redis.go: "one holder drives one session     *)
(* serially"); sessions run side by side.                                  *)
(*                                                                         *)
(* A credential is named by its session; one that was recorded but not     *)
(* handed out, because its call failed, is forgotten but for hasIssuance.  *)
(* Status slots and sessions with several calls are in module Issuance.    *)
(* Every session has some verified method besides the selfie, so it may    *)
(* issue with or without a face.  The cap on declined matches of a face is *)
(* in module FaceMatchCap; here it refuses nobody.                         *)
(***************************************************************************)
EXTENDS Integers, FiniteSets

CONSTANTS
  Keys, Faces, Sessions, Recoveries,
  Proofs,          \* identifier seeds and document attestations
  HolderDID,       \* the key of a session
  FaceOf,          \* the enrolled face a session's selfie matches
  ProofsOf,        \* the proofs a session verified
  Revouched,       \* <<old, new>>: enough of old's vouchers vouched for new
  Reviewed,        \* sessions whose recovery review an operator approves
  Revocable,       \* faces whose holder an operator may revoke
  Delay, Cooldown, MaxCancelled,
  MaxTime, MaxFailures,   \* bounds of an instance
  NoKey, NoFace, NoRecovery

ASSUME NoneAssumption ==
  NoKey \notin Keys /\ NoFace \notin Faces /\ NoRecovery \notin Recoveries
ASSUME SessionAssumption ==
  /\ HolderDID \in [Sessions -> Keys]
  /\ FaceOf \in [Sessions -> Faces]
  /\ ProofsOf \in [Sessions -> SUBSET Proofs]
  /\ Revouched \subseteq Keys \X Keys
  /\ Reviewed \subseteq Sessions /\ Revocable \subseteq Faces
ASSUME ConfigAssumption ==
  /\ Delay \in Nat \ {0} /\ Cooldown \in Nat \ {0} /\ MaxCancelled \in Nat \ {0}
  /\ MaxTime \in Nat /\ MaxFailures \in Nat

VARIABLES
  now,
  failures,                 \* store requests that failed
  enrolled,                 \* faces in the selfie accumulator
  match, declined,          \* faceMatchDoc per session
  credited,                 \* the face a session's selfie result carries
  holderOf, links,          \* identityDoc, linksDoc per face
  rec,                      \* recoveryDoc
  active, completed, cancelled,   \* recoveryHistory per face
  pointer,                  \* recoveryPointer per key
  told,                     \* recoveries whose id was answered to a client
  hasIssuance, revoked,     \* keys in the ledger, revoked credentials
  retired, bannedKeys, bannedFaces,   \* bans by recovery, by an operator
  pc, reg, todo,            \* per session: its handler, the key or recovery
                            \*   it read, the credentials it has to revoke
  firstHolder, late, swept, exposed, unrecorded   \* history, see below

clockVars    == <<now, failures>>
identityVars == <<enrolled, match, declined, credited>>
indexVars    == <<holderOf, links>>
recoveryVars == <<rec, active, completed, cancelled, pointer, told,
                  unrecorded>>
issueVars    == <<hasIssuance, revoked, retired, bannedKeys, bannedFaces>>
sweepVars    == <<todo, late, swept, exposed>>
vars == <<clockVars, identityVars, indexVars, recoveryVars, issueVars, pc, reg,
          sweepVars, firstHolder>>

RecoveryPC == {"open", "close", "retire", "read", "revoke"}
InFlightPC == {"face", "lockout", "record"}   \* past the ban check
RecordedPC == {"holder", "links", "mark"}  \* in the ledger

Statuses == {"none", "pending", "cancelled", "completed"}
Docs == [status : Statuses, old : Keys \cup {NoKey}, new : Keys \cup {NoKey},
         face : Faces \cup {NoFace}, operator : BOOLEAN,
         created : Nat, closed : Nat]
NoDoc == [status |-> "none", old |-> NoKey, new |-> NoKey, face |-> NoFace,
          operator |-> FALSE, created |-> 0, closed |-> 0]

TypeOK ==
  /\ now \in Nat /\ failures \in Nat
  /\ enrolled \in SUBSET Faces
  /\ match \in [Sessions -> Faces \cup {NoFace}]
  /\ declined \in SUBSET Sessions
  /\ credited \in [Sessions -> Faces \cup {NoFace}]
  /\ holderOf \in [Faces -> Keys \cup {NoKey}]
  /\ links \in [Faces -> SUBSET Proofs]
  /\ rec \in [Recoveries -> Docs]
  /\ active \in [Faces -> Recoveries \cup {NoRecovery}]
  /\ completed \in [Faces -> SUBSET Recoveries]
  /\ cancelled \in [Faces -> SUBSET Recoveries]
  /\ pointer \in [Keys -> Recoveries \cup {NoRecovery}]
  /\ told \in SUBSET Recoveries
  /\ hasIssuance \in SUBSET Keys
  /\ revoked \in SUBSET Sessions
  /\ retired \in SUBSET Keys /\ bannedKeys \in SUBSET Keys
  /\ bannedFaces \in SUBSET Faces
  /\ pc \in [Sessions -> {"idle", "issued"} \cup RecoveryPC \cup InFlightPC
                      \cup RecordedPC]
  /\ reg \in [Sessions -> Keys \cup Recoveries \cup {NoRecovery}]
  /\ todo \in [Sessions -> SUBSET Sessions]
  /\ firstHolder \in [Faces -> Keys \cup {NoKey}]
  /\ late \in [Sessions -> SUBSET Sessions]
  /\ swept \in SUBSET Recoveries
  /\ exposed \in [Recoveries -> SUBSET Sessions]
  /\ unrecorded \in SUBSET Recoveries

Init ==
  /\ now = 0 /\ failures = 0
  /\ enrolled = {} /\ declined = {}
  /\ match = [s \in Sessions |-> NoFace]
  /\ credited = [s \in Sessions |-> NoFace]
  /\ holderOf = [f \in Faces |-> NoKey]
  /\ links = [f \in Faces |-> {}]
  /\ rec = [r \in Recoveries |-> NoDoc]
  /\ active = [f \in Faces |-> NoRecovery]
  /\ completed = [f \in Faces |-> {}] /\ cancelled = [f \in Faces |-> {}]
  /\ pointer = [k \in Keys |-> NoRecovery]
  /\ told = {}
  /\ hasIssuance = {} /\ revoked = {}
  /\ retired = {} /\ bannedKeys = {} /\ bannedFaces = {}
  /\ pc = [s \in Sessions |-> "idle"]
  /\ reg = [s \in Sessions |-> NoRecovery]
  /\ todo = [s \in Sessions |-> {}] /\ late = [s \in Sessions |-> {}]
  /\ firstHolder = [f \in Faces |-> NoKey]
  /\ swept = {} /\ exposed = [r \in Recoveries |-> {}]
  /\ unrecorded = {}

(* A store request that fails.                                             *)
Fails == failures < MaxFailures /\ failures' = failures + 1

(* n of a sequence of writes reach the store.                              *)
Reach(n, all) == IF n < all THEN Fails ELSE UNCHANGED failures

Pending(r)   == rec[r].status = "pending"
PendingAt(x) == x # NoRecovery /\ Pending(x)

(* activeRecoveryFor: the recovery the key's one pointer names, if pending.*)
ActiveRecoveryFor(k) == PendingAt(pointer[k])

(* A client of k learns a recovery's id from its own start call or from    *)
(* GET /v1/recovery/pending.                                               *)
Findable(r) == r \in told \/ \E k \in Keys : pointer[k] = r

-----------------------------------------------------------------------------
(* The selfie ceremony: enroll, recordFaceMatch, routeFaceMatch.           *)

(* A new face is enrolled and credited; if the session write then fails    *)
(* the face stays enrolled.                                                *)
EnrollFace(s) ==
  LET f == FaceOf[s] IN
  /\ pc[s] = "idle" /\ f \notin enrolled
  /\ enrolled' = enrolled \cup {f}
  /\ \/ credited' = [credited EXCEPT ![s] = f] /\ UNCHANGED failures
     \/ Fails /\ UNCHANGED credited
  /\ firstHolder' = [firstHolder EXCEPT ![f] = HolderDID[s]]
  /\ UNCHANGED <<now, match, declined, indexVars, recoveryVars, issueVars,
                 pc, reg, sweepVars>>

(* Mutation: a match credits the session whoever holds the face.           *)
AnyoneReissued(s) == TRUE

(* The same holder key re-enrolling its own face is re-issued.             *)
Reissued(s) == holderOf[FaceOf[s]] = HolderDID[s]

(* An enrolled face: the match is recorded, over any earlier document of   *)
(* the session; the credit of a re-issue is a write that may fail.         *)
MatchFace(s) ==
  LET f == FaceOf[s] IN
  /\ pc[s] = "idle" /\ f \in enrolled
  /\ match' = [match EXCEPT ![s] = f]
  /\ declined' = declined \ {s}
  /\ \/ /\ Reissued(s)
        /\ \/ credited' = [credited EXCEPT ![s] = f] /\ UNCHANGED failures
           \/ Fails /\ UNCHANGED credited
     \/ ~ Reissued(s) /\ UNCHANGED <<credited, failures>>
  /\ UNCHANGED <<now, enrolled, indexVars, recoveryVars, issueVars, pc, reg,
                 sweepVars, firstHolder>>

(* handleFaceMatchDecline.                                                 *)
Decline(s) ==
  /\ pc[s] \in {"idle", "issued"}
  /\ match[s] # NoFace
  /\ ~ ActiveRecoveryFor(HolderDID[s])
  /\ declined' = declined \cup {s}
  /\ UNCHANGED <<clockVars, enrolled, match, credited, indexVars, recoveryVars,
                 issueVars, pc, reg,
                 sweepVars, firstHolder>>

-----------------------------------------------------------------------------
(* handleRecoveryStart.                                                    *)

(* recoveryFactors: an identifier, a document or the old vouchers.         *)
HasFactor(s, f) ==
  \/ ProofsOf[s] \cap links[f] # {}
  \/ <<holderOf[f], HolderDID[s]>> \in Revouched

(* Bound: Recoveries are the ids this instance may draw; a start call      *)
(* begins only if one is left for it.                                      *)
IdLeft ==
  Cardinality({t \in Sessions : pc[t] = "open"})
    < Cardinality({r \in Recoveries : rec[r].status = "none"})

CheckStart(s) ==
  LET f == match[s] IN
  /\ pc[s] = "idle" /\ IdLeft
  /\ f # NoFace /\ s \notin declined
  /\ holderOf[f] \notin {NoKey, HolderDID[s]}
  /\ f \notin bannedFaces
  /\ HolderDID[s] \notin hasIssuance
  /\ HasFactor(s, f)
  /\ pc' = [pc EXCEPT ![s] = "open"]
  /\ reg' = [reg EXCEPT ![s] = holderOf[f]]
  /\ UNCHANGED <<clockVars, identityVars, indexVars, recoveryVars, issueVars,
                 sweepVars, firstHolder>>

(* pruneSince: what closed within the cooldown.                            *)
Recent(R) == {r \in R : rec[r].closed > now - Cooldown}

(* Mutations: no limit at all; no limit but the recovery in progress.      *)
NoLimit(f, operator) == TRUE
NoCooldown(f, operator) == ~ PendingAt(active[f])

(* The limits of openRecovery.                                             *)
MayOpen(f, operator) ==
  /\ ~ PendingAt(active[f])
  /\ operator \/ /\ Recent(completed[f]) = {}
                 /\ Cardinality(Recent(cancelled[f])) < MaxCancelled

CreatedAt == now

(* openRecovery's writes, in order: the document, the history, the old     *)
(* key's pointer, the new key's pointer; n of them reach the store, and    *)
(* the client is told the id when all did.                                 *)
OpenWrites(r, old, new, f, operator, n) ==
  /\ rec' = [rec EXCEPT ![r] =
               [status |-> "pending", old |-> old, new |-> new, face |-> f,
                operator |-> operator, created |-> CreatedAt, closed |-> 0]]
  /\ active' = IF n >= 2 THEN [active EXCEPT ![f] = r] ELSE active
  /\ completed' = IF n >= 2 THEN [completed EXCEPT ![f] = Recent(@)] ELSE completed
  /\ cancelled' = IF n >= 2 THEN [cancelled EXCEPT ![f] = Recent(@)] ELSE cancelled
  /\ pointer' = [k \in Keys |-> IF (k = old /\ n >= 3) \/ (k = new /\ n = 4)
                                  THEN r ELSE pointer[k]]
  /\ told' = IF n = 4 THEN told \cup {r} ELSE told
  /\ Reach(n, 4) /\ UNCHANGED unrecorded

OpenRecovery(s) ==
  /\ pc[s] = "open"
  /\ pc' = [pc EXCEPT ![s] = "idle"]
  /\ reg' = [reg EXCEPT ![s] = NoRecovery]
  /\ \/ /\ MayOpen(match[s], FALSE)
        /\ \E r \in Recoveries, n \in 1 .. 4 :
             /\ rec[r].status = "none"
             /\ OpenWrites(r, reg[s], HolderDID[s], match[s], FALSE, n)
     \/ ~ MayOpen(match[s], FALSE) /\ UNCHANGED <<failures, recoveryVars>>
  /\ UNCHANGED <<now, identityVars, indexVars, issueVars, sweepVars, firstHolder>>

(* handleAdminDecide approves the review of a recovery: only the limits of *)
(* openRecovery stand, with the operator's word as the factor.             *)
ApproveRecovery(s, r) ==
  LET f == match[s] IN
  /\ s \in Reviewed /\ IdLeft
  /\ f # NoFace /\ holderOf[f] # NoKey
  /\ rec[r].status = "none"
  /\ MayOpen(f, TRUE)
  /\ \E n \in 1 .. 4 : OpenWrites(r, holderOf[f], HolderDID[s], f, TRUE, n)
  /\ UNCHANGED <<now, identityVars, indexVars, issueVars, pc, reg,
                 sweepVars, firstHolder>>

-----------------------------------------------------------------------------
(* closeRecovery's writes: the document, then the history.                 *)
CloseWrites(r, status, n) ==
  LET f == rec[r].face IN
  /\ rec' = [rec EXCEPT ![r].status = status, ![r].closed = now]
  /\ active' = IF n = 2 /\ active[f] = r THEN [active EXCEPT ![f] = NoRecovery]
                                         ELSE active
  /\ completed' = IF n = 2 /\ status = "completed"
                    THEN [completed EXCEPT ![f] = @ \cup {r}] ELSE completed
  /\ cancelled' = IF n = 2 /\ status = "cancelled"
                    THEN [cancelled EXCEPT ![f] = @ \cup {r}] ELSE cancelled
  /\ unrecorded' = IF n = 1 THEN unrecorded \cup {r} ELSE unrecorded
  /\ Reach(n, 2) /\ UNCHANGED <<pointer, told>>

(* handleRecoveryCancel, signed by the old or the new key.                 *)
Cancel(r) ==
  /\ Findable(r)
  /\ Pending(r)
  /\ \E n \in 1 .. 2 : CloseWrites(r, "cancelled", n)
  /\ UNCHANGED <<now, identityVars, indexVars, issueVars, pc, reg,
                 sweepVars, firstHolder>>

(* handleRecoveryComplete: the checks; a completed recovery is completed   *)
(* again as a retry and skips the close.                                   *)
CheckComplete(s, r) ==
  /\ pc[s] = "idle"
  /\ Findable(r)
  /\ rec[r].new = HolderDID[s]
  /\ rec[r].status \in {"pending", "completed"}
  /\ now >= rec[r].created + Delay
  /\ rec[r].face \notin bannedFaces
  /\ pc' = [pc EXCEPT ![s] = IF Pending(r) THEN "close" ELSE "retire"]
  /\ reg' = [reg EXCEPT ![s] = r]
  /\ UNCHANGED <<clockVars, identityVars, indexVars, recoveryVars, issueVars,
                 sweepVars, firstHolder>>

(* Mutation: the status the complete call read before is not read again.   *)
StillOpen(r) == TRUE

(* closeRecovery's status check, under the mutex.                          *)
Closable(r) == Pending(r)

(* "Close the window first, atomically": a cancel that lands at the same   *)
(* moment either wins or loses.                                            *)
CloseRecovery(s) ==
  LET r == reg[s] IN
  /\ pc[s] = "close"
  /\ \/ /\ Closable(r)
        /\ \E n \in 1 .. 2 :
             /\ CloseWrites(r, "completed", n)
             /\ pc' = [pc EXCEPT ![s] = IF n = 2 THEN "retire" ELSE "idle"]
             /\ reg' = IF n = 2 THEN reg ELSE [reg EXCEPT ![s] = NoRecovery]
     \/ /\ ~ Closable(r)
        /\ pc' = [pc EXCEPT ![s] = "idle"]
        /\ reg' = [reg EXCEPT ![s] = NoRecovery]
        /\ UNCHANGED <<failures, recoveryVars>>
  /\ UNCHANGED <<now, identityVars, indexVars, issueVars, sweepVars, firstHolder>>

(* What the ledger lists of a key, and what is past checkHolderBans but not*)
(* in the ledger yet.                                                      *)
CredentialsOf(k) ==
  {s \in Sessions : pc[s] \in RecordedPC \cup {"issued"} /\ HolderDID[s] = k}
InFlight(k) == {s \in Sessions : pc[s] \in InFlightPC /\ HolderDID[s] = k}

OldKey(s) == rec[reg[s]].old

(* retireRecoveredHolder bars the old key from new credentials, reads what *)
(* it was issued and revokes that one by one; any of it may fail.          *)
RetireOld(s) ==
  /\ pc[s] = "retire"
  /\ retired' = retired \cup {OldKey(s)}
  /\ pc' = [pc EXCEPT ![s] = "read"]
  /\ UNCHANGED <<clockVars, identityVars, indexVars, recoveryVars, hasIssuance,
                 revoked, bannedKeys, bannedFaces, reg, sweepVars, firstHolder>>

ReadOld(s) ==
  /\ pc[s] = "read"
  /\ todo' = [todo EXCEPT ![s] = CredentialsOf(OldKey(s))]
  /\ late' = [late EXCEPT ![s] = InFlight(OldKey(s))]
  /\ pc' = [pc EXCEPT ![s] = "revoke"]
  /\ UNCHANGED <<clockVars, identityVars, indexVars, recoveryVars, issueVars, reg,
                 swept, exposed, firstHolder>>

RevokeOld(s) ==
  /\ pc[s] = "revoke"
  /\ \E c \in todo[s] : /\ revoked' = revoked \cup {c}
                        /\ todo' = [todo EXCEPT ![s] = @ \ {c}]
  /\ UNCHANGED <<clockVars, identityVars, indexVars, recoveryVars, hasIssuance,
                 retired, bannedKeys, bannedFaces, pc, reg, late, swept,
                 exposed, firstHolder>>

Ends(s) ==
  /\ pc' = [pc EXCEPT ![s] = "idle"]
  /\ reg' = [reg EXCEPT ![s] = NoRecovery]
  /\ late' = [late EXCEPT ![s] = {}]

(* The new key's session is credited with the face and the call answers.   *)
CreditFace(s) ==
  /\ pc[s] = "revoke" /\ todo[s] = {}
  /\ credited' = [credited EXCEPT ![s] = rec[reg[s]].face]
  /\ swept' = swept \cup {reg[s]}
  /\ exposed' = [exposed EXCEPT ![reg[s]] = late[s]]
  /\ Ends(s)
  /\ UNCHANGED <<clockVars, enrolled, match, declined, indexVars, recoveryVars,
                 issueVars, todo, firstHolder>>

(* A store request of a start or a complete call fails: it answers 500.    *)
HandlerFails(s) ==
  /\ pc[s] \in RecoveryPC
  /\ Fails
  /\ Ends(s)
  /\ todo' = [todo EXCEPT ![s] = {}]
  /\ UNCHANGED <<now, identityVars, indexVars, recoveryVars, issueVars,
                 swept, exposed, firstHolder>>

-----------------------------------------------------------------------------
(* handleIssueCredential.  A step that refuses goes back to idle, and so   *)
(* does the whole call when a request fails.                               *)

(* Mutation: a key retired by a recovery is not refused.                   *)
BarredByOperator(k) == k \in bannedKeys

Barred(k) == k \in retired \cup bannedKeys

(* checkHolderBans, the holder key and then the face ...                   *)
CheckKeyBan(s) ==
  /\ pc[s] = "idle"
  /\ ~ Barred(HolderDID[s])
  /\ pc' = [pc EXCEPT ![s] = IF credited[s] = NoFace THEN "lockout" ELSE "face"]
  /\ UNCHANGED <<clockVars, identityVars, indexVars, recoveryVars, issueVars, reg,
                 sweepVars, firstHolder>>

CheckFaceBan(s) ==
  /\ pc[s] = "face"
  /\ pc' = [pc EXCEPT ![s] =
              IF credited[s] \in bannedFaces THEN "idle" ELSE "lockout"]
  /\ UNCHANGED <<clockVars, identityVars, indexVars, recoveryVars, issueVars, reg,
                 sweepVars, firstHolder>>

(* ... lockoutIssuanceCheck ...                                            *)
CheckNoRecovery(s) ==
  /\ pc[s] = "lockout"
  /\ pc' = [pc EXCEPT ![s] =
              IF ActiveRecoveryFor(HolderDID[s]) THEN "idle" ELSE "record"]
  /\ UNCHANGED <<clockVars, identityVars, indexVars, recoveryVars, issueVars, reg,
                 sweepVars, firstHolder>>

(* ... RecordIssuance, lockoutRecordIssuance, MarkIssued.                  *)
RecordIssuance(s) ==
  /\ pc[s] = "record"
  /\ hasIssuance' = hasIssuance \cup {HolderDID[s]}
  /\ pc' = [pc EXCEPT ![s] = IF credited[s] = NoFace THEN "mark" ELSE "holder"]
  /\ UNCHANGED <<clockVars, identityVars, indexVars, recoveryVars, revoked, retired,
                 bannedKeys, bannedFaces, reg, sweepVars, firstHolder>>

SetHolder(s) ==
  /\ pc[s] = "holder"
  /\ holderOf' = [holderOf EXCEPT ![credited[s]] = HolderDID[s]]
  /\ pc' = [pc EXCEPT ![s] = "links"]
  /\ UNCHANGED <<clockVars, identityVars, links, recoveryVars, issueVars,
                 reg, sweepVars, firstHolder>>

AddLinks(s) ==
  /\ pc[s] = "links"
  /\ links' = [links EXCEPT ![credited[s]] = @ \cup ProofsOf[s]]
  /\ pc' = [pc EXCEPT ![s] = "mark"]
  /\ UNCHANGED <<clockVars, identityVars, holderOf, recoveryVars, issueVars,
                 reg, sweepVars, firstHolder>>

MarkIssued(s) ==
  /\ pc[s] = "mark"
  /\ pc' = [pc EXCEPT ![s] = "issued"]
  /\ UNCHANGED <<clockVars, identityVars, indexVars, recoveryVars, issueVars, reg,
                 sweepVars, firstHolder>>

(* A request fails: the credential is never handed out, and the next call  *)
(* of the session signs another.                                           *)
IssueFails(s) ==
  /\ pc[s] \in InFlightPC \cup RecordedPC
  /\ Fails
  /\ pc' = [pc EXCEPT ![s] = "idle"]
  /\ revoked' = revoked \ {s}
  /\ todo' = [t \in Sessions |-> todo[t] \ {s}]
  /\ UNCHANGED <<now, identityVars, indexVars, recoveryVars, hasIssuance,
                 retired, bannedKeys, bannedFaces, reg, late, swept, exposed,
                 firstHolder>>

(* revokeHolder of a face's holder (module Issuance): key, seed and        *)
(* credentials go together.                                                *)
RevokeHolder(f) ==
  /\ f \in Revocable /\ holderOf[f] # NoKey
  /\ bannedKeys' = bannedKeys \cup {holderOf[f]}
  /\ bannedFaces' = bannedFaces \cup {f}
  /\ revoked' = revoked \cup CredentialsOf(holderOf[f])
  /\ UNCHANGED <<clockVars, identityVars, indexVars, recoveryVars, hasIssuance,
                 retired, pc, reg, sweepVars, firstHolder>>

(* A tick is a share of the cancel window, at least a minute: a start call *)
(* does not span one between its checks and openRecovery.                  *)
Tick ==
  /\ now < MaxTime
  /\ \A s \in Sessions : pc[s] # "open"
  /\ now' = now + 1
  /\ UNCHANGED <<failures, identityVars, indexVars, recoveryVars, issueVars, pc, reg,
                 sweepVars, firstHolder>>

Next ==
  \/ \E s \in Sessions :
       \/ EnrollFace(s) \/ MatchFace(s) \/ Decline(s) \/ CheckStart(s)
       \/ OpenRecovery(s) \/ CloseRecovery(s) \/ RetireOld(s) \/ ReadOld(s)
       \/ RevokeOld(s) \/ CreditFace(s) \/ HandlerFails(s)
       \/ CheckKeyBan(s) \/ CheckFaceBan(s) \/ CheckNoRecovery(s)
       \/ RecordIssuance(s) \/ SetHolder(s) \/ AddLinks(s) \/ MarkIssued(s)
       \/ IssueFails(s)
       \/ \E r \in Recoveries : ApproveRecovery(s, r) \/ CheckComplete(s, r)
  \/ \E r \in Recoveries : Cancel(r)
  \/ \E f \in Faces : RevokeHolder(f)
  \/ Tick

Spec == Init /\ [][Next]_vars

-----------------------------------------------------------------------------
(* "one recovery in progress per identity": two pending recoveries of one  *)
(* face that anybody can find, to complete or to cancel, are the same.     *)
OnePending ==
  \A r, q \in Recoveries :
    Pending(r) /\ Pending(q) /\ rec[r].face = rec[q].face
      /\ Findable(r) /\ Findable(q) => r = q

(* A cancelled recovery stays cancelled and a completed one completed,     *)
(* however a cancel races a complete whose checks are already done.        *)
ClosedIsFinal ==
  [][\A r \in Recoveries : rec[r].status \in {"cancelled", "completed"} =>
       rec'[r].status = rec[r].status]_vars

(* "A face match alone is never enough": whoever holds a face's identity   *)
(* enrolled it or is the new key of a completed recovery of it, and        *)
(* nothing a cancelled recovery's session did gives it the face.           *)
HolderIsRightful ==
  \A f \in Faces : holderOf[f] # NoKey =>
    \/ holderOf[f] = firstHolder[f]
    \/ \E r \in Recoveries : /\ rec[r].status = "completed"
                             /\ rec[r].face = f /\ rec[r].new = holderOf[f]

(* The late[s] of a complete call are the calls of the old key its ledger  *)
(* read could not list, exposed[r] is the late of the last complete call   *)
(* of r that answered, swept are the recoveries with such a call.          *)
Holds(s) == pc[s] = "issued" /\ s \notin revoked

(* "The old key's credentials are revoked, the old key is barred": what a  *)
(* key has left, for good, after any number of failed and repeated calls   *)
(* of which one answered, was past the ban check and not yet in the ledger *)
(* when that one read the ledger.  So a call made again with nothing of    *)
(* the key in flight leaves it nothing.                                    *)
RetiredHoldsNothing ==
  \A r \in swept : /\ rec[r].status = "completed"
                   /\ rec[r].old \in retired
                   /\ \A s \in Sessions : HolderDID[s] = rec[r].old /\ Holds(s)
                                          => s \in exposed[r]

(* "none for RecoveryCooldown after one completes": of two recoveries of a *)
(* face the later, unless an operator opened it, was started at least      *)
(* Cooldown after the earlier completed, whatever else was cancelled,      *)
(* approved or failed in between; unrecorded are the recoveries whose      *)
(* close failed before the history, which leave no cooldown.               *)
CooldownHolds ==
  \A r, q \in Recoveries :
    /\ r # q /\ rec[r].status = "completed" /\ r \notin unrecorded
    /\ rec[q].status # "none" /\ rec[r].face = rec[q].face /\ ~ rec[q].operator
    /\ rec[r].closed <= rec[q].created /\ rec[r].created < rec[q].created
    => rec[q].created >= rec[r].closed + Cooldown

(* "Each of those refusals names the way forward": a recovery that blocks  *)
(* every other one of its identity is one whose keys can find it, to       *)
(* cancel it or to complete it.                                            *)
BlockerIsFindable ==
  \A f \in Faces : PendingAt(active[f]) => Findable(active[f])
=============================================================================
