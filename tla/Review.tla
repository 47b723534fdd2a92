------------------------------- MODULE Review -------------------------------
(***************************************************************************)
(* Manual review, appeals and reinstatement (src/server/review.go): a      *)
(* person asks for a review or appeals a ban, operators decide, and an     *)
(* approved case becomes a reinstatement, a recovery, or the right to      *)
(* complete the operator-review anchor.                                    *)
(*                                                                         *)
(* openReview and closeReview hold the lockout mutex, so each is one step; *)
(* what can be seen half-done is what a failed write leaves, and each      *)
(* takes the number of its writes that landed.  A decision reads the case  *)
(* outside the mutex and acts on it in later steps, next to other          *)
(* decisions, revocations and recoveries of the same keys.                 *)
(*                                                                         *)
(* Left out: texts and their lengths, the signature that only marks an     *)
(* appeal for the operator, what a reinstatement does to seeds and         *)
(* vouchers (modules Issuance and InPersonVouch), what a recovery goes     *)
(* through once opened (module Recovery).                                  *)
(***************************************************************************)
EXTENDS Integers, FiniteSets

CONSTANTS
  Keys,              \* holder keys
  Matched,           \* keys with a session whose selfie matched a face
  Asked,             \* bound of the model: the kinds asked for
  CaseIds,           \* the random review ids, as numbers
  Operators,         \* requests of operators in flight
  maxOpenReviews,
  reviewApprovalLifetime,
  Loads,             \* bounds of the model: new cases and failed requests in a
                     \* behaviour
  Nothing            \* no record

ASSUME ReviewBounds ==
  /\ maxOpenReviews \in Nat \ {0} /\ reviewApprovalLifetime \in Nat
  /\ Loads \subseteq [cases : Nat, failures : Nat]
  /\ Matched \subseteq Keys /\ CaseIds \subseteq Nat

VARIABLES
  cases,       \* nsReviews
  pointer,     \* nsReviewOpen: the last case of a key and kind
  queue,       \* nsReviews "_open"
  approvals,   \* nsReviewApprovals
  bans,        \* the holder bans, by reason
  desk,        \* what each operator's request is doing
  load, failures,
  \* What happened, for the properties.
  promised,    \* cases whose id was answered with 200
  granted,     \* cases whose approval an operator wrote
  admitted,    \* the completion of the operator-review anchor this step made
  lifted       \* appeals whose ban was lifted while they were open

reviewVars == <<cases, pointer, queue, approvals, bans, desk, load, failures,
                promised, granted, admitted, lifted>>

Kinds == {"face_match", "recovery", "no_selfie", "other", "appeal"}
Case  == [kind : Kinds, holder : Keys, status : {"open", "approved", "denied"}]
Desk  == [at : {"idle"}]
           \cup [at : {"grant", "close"}, id : CaseIds, approve : BOOLEAN]
           \cup [at : {"lift"}, id : CaseIds \cup {Nothing}, holder : Keys]
Idle  == [at |-> "idle"]
Approval == [review : CaseIds, age : 0..(reviewApprovalLifetime + 1)]

ASSUME NothingIsNoRecord == Nothing \notin CaseIds \cup Case \cup Approval

ReviewInit ==
  /\ cases = [i \in CaseIds |-> Nothing] /\ pointer = [k \in Kinds \X Keys |-> Nothing]
  /\ queue = {} /\ approvals = [h \in Keys |-> Nothing]
  /\ bans = [h \in Keys |-> Nothing] /\ desk = [o \in Operators |-> Idle] /\ load \in Loads /\ failures = 0
  /\ promised = {} /\ granted = {} /\ admitted = Nothing /\ lifted = {}

-----------------------------------------------------------------------------
(* Opening a case.                                                         *)

(* The pointer leads to the key's last case of this kind; is it open?      *)
AlreadyOpen(kind, h) ==
  LET id == pointer[<<kind, h>>]
  IN id # Nothing /\ cases[id] # Nothing /\ cases[id].status = "open"

QueueFull == Cardinality(queue) >= maxOpenReviews

(* A request answers 200 or with an error.                                 *)
Outcome(ok) ==
  /\ ok \/ failures < load.failures
  /\ failures' = IF ok THEN failures ELSE failures + 1

(* The writes of openReview in their order; the first n land.              *)
OpenWrites(id, c, n) ==
  /\ cases'   = IF n >= 1 THEN [cases EXCEPT ![id] = c] ELSE cases
  /\ pointer' = IF n >= 2 THEN [pointer EXCEPT ![<<c.kind, c.holder>>] = id] ELSE pointer
  /\ queue'   = IF n >= 3 THEN queue \cup {id} ELSE queue

(* A new id is a random one; the model takes them in order.                *)
Unused(id) == id <= load.cases /\ cases[id] = Nothing /\ id \notin promised

(* A write that fails may have landed all the same: the caller is answered *)
(* with 200 only when the last one reports success.  A refusal (the case   *)
(* is open already, the queue is full) changes nothing.                    *)
OpenReview(kind, h) ==
  /\ ~AlreadyOpen(kind, h) /\ ~QueueFull
  /\ \E id \in CaseIds :
       /\ Unused(id) /\ \A i \in CaseIds : i < id => ~Unused(i)
       /\ \E n \in 0..3, ok \in BOOLEAN :
            /\ ok => n = 3
            /\ OpenWrites(id, [kind |-> kind, holder |-> h, status |-> "open"], n)
            /\ promised' = IF ok THEN promised \cup {id} ELSE promised
            /\ Outcome(ok)
  /\ UNCHANGED <<approvals, bans, desk, granted, lifted, load>> /\ admitted' = Nothing

(* POST /v1/reviews: two of the kinds need a matched face.                 *)
RequestReview(kind, h) ==
  /\ kind \in Kinds \ {"appeal"}
  /\ kind \in {"face_match", "recovery"} => h \in Matched
  /\ OpenReview(kind, h)

(* POST /v1/appeals.  A ban lifted between the check and the mutex only    *)
(* leaves an appeal nobody needs, so the two are one step here.            *)
Appeal(h) == bans[h] # Nothing /\ OpenReview("appeal", h)

-----------------------------------------------------------------------------
(* Deciding a case: the status is read once, before anything is done.      *)

(* A key retired by a completed recovery is not reinstated; BanInfo of any *)
(* other key, banned or not, lets reinstate go on.                         *)
MayLift(h) == bans[h] # "recovered"

(* What follows the read of an open case: a denial goes to closeReview; an *)
(* approved recovery too unless startRecovery refuses it; an approved      *)
(* appeal goes into reinstate, any other kind gets its approval written.   *)
Decide(o, id, approve) ==
  /\ desk[o] = Idle
  /\ cases[id] # Nothing /\ cases[id].status = "open"
  /\ LET kind == cases[id].kind
         h    == cases[id].holder
     IN \/ /\ ~approve \/ kind = "recovery"
           /\ desk' = [desk EXCEPT ![o] = [at |-> "close", id |-> id, approve |-> approve]]
        \/ /\ approve /\ kind = "appeal" /\ MayLift(h)
           /\ desk' = [desk EXCEPT ![o] = [at |-> "lift", id |-> id, holder |-> h]]
        \/ /\ approve /\ kind \notin {"appeal", "recovery"}
           /\ desk' = [desk EXCEPT ![o] = [at |-> "grant", id |-> id, approve |-> TRUE]]
  /\ UNCHANGED <<cases, pointer, queue, approvals, bans, failures, promised, granted, lifted, load>> /\ admitted' = Nothing

(* The default branch: the approval is written; a failed write ends the    *)
(* request before the case is closed.                                      *)
Grant(o) ==
  /\ desk[o].at = "grant"
  /\ LET h == cases[desk[o].id].holder
     IN \E landed, ok \in BOOLEAN :
          /\ ok => landed
          /\ approvals'  = IF landed THEN [approvals EXCEPT ![h] = [review |-> desk[o].id, age |-> 0]]
                           ELSE approvals
          /\ Outcome(ok)
          /\ granted'    = IF landed THEN granted \cup {desk[o].id} ELSE granted
          /\ desk' = [desk EXCEPT ![o] = IF ok THEN [@ EXCEPT !.at = "close"] ELSE Idle]
  /\ UNCHANGED <<cases, pointer, queue, bans, promised, lifted, load>> /\ admitted' = Nothing

(* Mutation: closing a case drops the others from the queue.               *)
KeptOnly(ids, id) == ids \cap {id}
Kept(ids, id) == ids \ {id}

(* closeReview writes the case, then the queue without it.                 *)
CloseReview(o) ==
  /\ desk[o].at = "close"
  /\ LET id == desk[o].id
     IN \E n \in 0..2 :
          /\ Outcome(n = 2)
          /\ cases' = IF n >= 1
                      THEN [cases EXCEPT ![id].status = IF desk[o].approve THEN "approved" ELSE "denied"]
                      ELSE cases
          /\ queue' = IF n >= 2 THEN Kept(queue, id) ELSE queue
  /\ desk' = [desk EXCEPT ![o] = Idle]
  /\ UNCHANGED <<pointer, approvals, bans, promised, granted, lifted, load>> /\ admitted' = Nothing

-----------------------------------------------------------------------------
(* Reinstatement, asked for directly or by an approved appeal.             *)

AppealsOf(h) ==
  {id \in CaseIds : cases[id] # Nothing /\ cases[id].kind = "appeal" /\ cases[id].holder = h}

AdminReinstate(o, h) ==
  /\ desk[o] = Idle /\ MayLift(h)
  /\ desk' = [desk EXCEPT ![o] = [at |-> "lift", id |-> Nothing, holder |-> h]]
  /\ UNCHANGED <<cases, pointer, queue, approvals, bans, failures, promised, granted, lifted, load>> /\ admitted' = Nothing

(* Mutation: the case is closed whether or not the ban was lifted.         *)
EvenIfItFailed(ok) == TRUE
OnlyIfReinstated(ok) == ok

(* Unban deletes whatever ban stands by now; an error of reinstate answers *)
(* the operator and leaves the appeal open.                                *)
LiftBan(o) ==
  /\ desk[o].at = "lift"
  /\ \E landed, ok \in BOOLEAN :
       /\ ok => landed
       /\ Outcome(ok)
       /\ bans' = IF landed THEN [bans EXCEPT ![desk[o].holder] = Nothing] ELSE bans
       /\ lifted' = IF landed THEN lifted \cup AppealsOf(desk[o].holder) ELSE lifted
       /\ desk' = [desk EXCEPT ![o] =
            IF OnlyIfReinstated(ok) /\ desk[o].id # Nothing
            THEN [at |-> "close", id |-> desk[o].id, approve |-> TRUE] ELSE Idle]
  /\ UNCHANGED <<cases, pointer, queue, approvals, promised, granted, load>> /\ admitted' = Nothing

(* The first ban of a key stays; a later one does not change its reason.   *)
Ban(h, reason) == bans[h] = Nothing /\ bans' = [bans EXCEPT ![h] = reason]

RevokeKey(h) ==
  /\ Ban(h, "revoked")
  /\ UNCHANGED <<cases, pointer, queue, approvals, desk, failures, promised, granted, lifted, load>> /\ admitted' = Nothing
RetireKey(h) ==
  /\ Ban(h, "recovered")
  /\ UNCHANGED <<cases, pointer, queue, approvals, desk, failures, promised, granted, lifted, load>> /\ admitted' = Nothing

-----------------------------------------------------------------------------
(* The operator-review anchor, completed from any session of the key.      *)

Approved(h) ==
  approvals[h] # Nothing /\ approvals[h].age <= reviewApprovalLifetime

CompleteOperatorReview(h) ==
  /\ Approved(h)
  /\ admitted' = [holder |-> h, review |-> approvals[h].review, age |-> approvals[h].age]
  /\ UNCHANGED <<cases, pointer, queue, approvals, bans, desk, failures, promised, granted, lifted, load>>

(* Time passes: approvals grow older, up to just beyond their lifetime.    *)
ReviewTick ==
  /\ approvals' = [h \in Keys |->
       IF approvals[h] # Nothing /\ approvals[h].age <= reviewApprovalLifetime
       THEN [approvals[h] EXCEPT !.age = @ + 1] ELSE approvals[h]]
  /\ UNCHANGED <<cases, pointer, queue, bans, desk, failures, promised, granted, lifted, load>> /\ admitted' = Nothing

ReviewNext ==
  \/ \E h \in Keys : \/ \E kind \in Asked : RequestReview(kind, h)
                     \/ Appeal(h) \/ RevokeKey(h) \/ RetireKey(h) \/ CompleteOperatorReview(h)
  \/ \E o \in Operators :
       \/ \E id \in CaseIds, approve \in BOOLEAN : Decide(o, id, approve)
       \/ Grant(o) \/ CloseReview(o) \/ LiftBan(o)
       \/ \E h \in Keys : AdminReinstate(o, h)
  \/ ReviewTick

ReviewSpec == ReviewInit /\ [][ReviewNext]_reviewVars

-----------------------------------------------------------------------------
(* Properties.                                                             *)

ReviewTypeOK ==
  /\ cases \in [CaseIds -> Case \cup {Nothing}]
  /\ pointer \in [Kinds \X Keys -> CaseIds \cup {Nothing}]
  /\ queue \subseteq CaseIds /\ Cardinality(queue) <= maxOpenReviews
  /\ approvals \in [Keys -> Approval \cup {Nothing}]
  /\ bans \in [Keys -> {"revoked", "recovered", Nothing}]
  /\ desk \in [Operators -> Desk] /\ failures \in 0..load.failures
  /\ promised \cup granted \cup lifted \subseteq CaseIds

(* "Every automatic refusal that an honest person could hit ends in a      *)
(* person at the issuer looking at the case": a case whose id openReview   *)
(* answered is in the queue operators list for as long as it is open,      *)
(* whatever other cases are opened and closed, and whichever of their      *)
(* writes fail.                                                            *)
PromisedIsQueued ==
  \A id \in promised : cases[id] # Nothing /\ (cases[id].status = "open" => id \in queue)

(* openReview answers one open case per key and kind, however many         *)
(* attempts before it failed half-way.                                     *)
OneOpenCase ==
  \A i, j \in promised :
    i # j /\ cases[i].status = "open" /\ cases[j].status = "open"
      => <<cases[i].kind, cases[i].holder>> # <<cases[j].kind, cases[j].holder>>

(* The operator-review anchor is completed only by a key whose own case,   *)
(* of a kind that grants it, an operator approved at most                  *)
(* reviewApprovalLifetime before, also when several operators decide the   *)
(* same case at once and some of their writes fail.                        *)
AdmittedWasApproved ==
  admitted # Nothing =>
    /\ admitted.review \in granted /\ admitted.age <= reviewApprovalLifetime
    /\ cases[admitted.review].holder = admitted.holder
    /\ cases[admitted.review].kind \notin {"appeal", "recovery"}

(* Nobody is told that the appeal was approved while the ban appealed      *)
(* against still stands: a ban seen after that is a later one.             *)
ApprovedAppealReinstates ==
  \A id \in CaseIds :
    cases[id] # Nothing /\ cases[id].kind = "appeal" /\ cases[id].status = "approved" => id \in lifted

(* The queue shows every case a person was told of, and of those only one  *)
(* per person and kind is open.                                            *)
QueueIsTrue == PromisedIsQueued /\ OneOpenCase

(* What an approval opens was approved, and what was approved is carried   *)
(* out.                                                                    *)
DecisionIsCarriedOut == AdmittedWasApproved /\ ApprovedAppealReinstates
=============================================================================
