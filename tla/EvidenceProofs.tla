--------------------------- MODULE EvidenceProofs ---------------------------
(***************************************************************************)
(* Theorems of the components that take the evidence people bring: the     *)
(* manual review, the document anchor, the vouching graph and the methods  *)
(* decided by webhook (Review, DocumentAnchor, SocialGraph, Webhook).      *)
(***************************************************************************)
EXTENDS Review, DocumentAnchor, SocialGraph, Webhook,
        FiniteSetTheorems, SequenceTheorems, WellFoundedInduction, TLAPS

-----------------------------------------------------------------------------
(* Manual review (Review).                                                 *)

(* Where the requests stand: a desk works on a case that exists, grants    *)
(* only a kind that an approval is for, and lifts a ban for an appeal of   *)
(* the key it was opened for.                                              *)
DeskIsSound(d) ==
  /\ d.at \in {"grant", "close"} => cases[d.id] # Nothing
  /\ d.at = "grant" => cases[d.id].kind \notin {"appeal", "recovery"}
  /\ d.at = "lift" /\ d.id # Nothing =>
       cases[d.id] # Nothing /\ cases[d.id].kind = "appeal" /\ cases[d.id].holder = d.holder
  /\ d.at = "close" /\ d.approve /\ cases[d.id].kind = "appeal" => d.id \in lifted

ReviewShape ==
  /\ ReviewTypeOK /\ load \in Loads /\ IsFiniteSet(queue)
  /\ \A o \in Operators : DeskIsSound(desk[o])

(* A promised case that is open is the one its pointer leads to: so a      *)
(* request for another one finds it, and the two are never open together.  *)
QueueInv ==
  /\ PromisedIsQueued
  /\ \A id \in promised : cases[id].status = "open" => pointer[<<cases[id].kind, cases[id].holder>>] = id

(* An approval in the store is of a case of its holder that was granted.   *)
ApprovalIsOf(h, id) ==
  /\ id \in granted /\ cases[id] # Nothing /\ cases[id].holder = h
  /\ cases[id].kind \notin {"appeal", "recovery"}
DecisionInv ==
  /\ \A h \in Keys : approvals[h] # Nothing => ApprovalIsOf(h, approvals[h].review)
  /\ admitted # Nothing =>
       /\ admitted.holder \in Keys /\ admitted.age <= reviewApprovalLifetime
       /\ ApprovalIsOf(admitted.holder, admitted.review)
  /\ ApprovedAppealReinstates

LEMMA ReviewInitial == ReviewInit => ReviewShape /\ QueueInv /\ DecisionInv
  <1> SUFFICES ASSUME ReviewInit PROVE ReviewShape /\ QueueInv /\ DecisionInv
      OBVIOUS
  <1> USE DEF ReviewInit
  <1>1. IsFiniteSet(queue) /\ Cardinality(queue) = 0
      BY FS_EmptySet
  <1>2. load.failures \in Nat
      BY ReviewBounds
  <1>3. ReviewTypeOK
      BY <1>1, <1>2, ReviewBounds DEF ReviewTypeOK, Desk, Idle
  <1>4. \A o \in Operators : DeskIsSound(desk[o])
      BY DEF DeskIsSound, Idle
  <1> QED BY <1>1, <1>3, <1>4
      DEF ReviewShape, QueueInv, DecisionInv, PromisedIsQueued, ApprovedAppealReinstates

(* What a step may do to the cases: one is written where none was, or the  *)
(* status of one changes; so a case is the case of its holder for good.    *)
CasesStand ==
  \A id \in CaseIds : cases[id] # Nothing =>
    /\ cases'[id] # Nothing
    /\ cases'[id].kind = cases[id].kind /\ cases'[id].holder = cases[id].holder

(* How a case is opened: the writes that landed, and what was answered.    *)
LEMMA Opening ==
  ASSUME ReviewShape, NEW kind \in Kinds, NEW h \in Keys, OpenReview(kind, h)
  PROVE  \E id \in CaseIds, n \in 0..3, ok \in BOOLEAN :
           /\ cases[id] = Nothing /\ id \notin promised
           /\ ok => n = 3
           /\ OpenWrites(id, [kind |-> kind, holder |-> h, status |-> "open"], n)
           /\ promised' = IF ok THEN promised \cup {id} ELSE promised
           /\ Outcome(ok)
  BY DEF OpenReview, Unused

LEMMA OpenReviewStep ==
  ASSUME ReviewShape, QueueInv, DecisionInv,
         NEW kind \in Kinds, NEW h \in Keys, OpenReview(kind, h)
  PROVE  ReviewShape' /\ QueueInv' /\ DecisionInv'
  <1>1. PICK id \in CaseIds, n \in 0..3, ok \in BOOLEAN :
           /\ cases[id] = Nothing /\ id \notin promised
           /\ ok => n = 3
           /\ OpenWrites(id, [kind |-> kind, holder |-> h, status |-> "open"], n)
           /\ promised' = IF ok THEN promised \cup {id} ELSE promised
           /\ Outcome(ok)
      BY Opening
  <1> DEFINE c == [kind |-> kind, holder |-> h, status |-> "open"]
  <1>2. c \in Case /\ c # Nothing /\ c.kind = kind /\ c.holder = h /\ c.status = "open"
      BY NothingIsNoRecord DEF Case
  <1>3. UNCHANGED <<approvals, bans, desk, granted, lifted, load>> /\ admitted' = Nothing
      BY DEF OpenReview
  <1>4. ~AlreadyOpen(kind, h) /\ ~QueueFull
      BY DEF OpenReview
  <1>5. /\ cases' = IF n >= 1 THEN [cases EXCEPT ![id] = c] ELSE cases
        /\ pointer' = IF n >= 2 THEN [pointer EXCEPT ![<<kind, h>>] = id] ELSE pointer
        /\ queue' = IF n >= 3 THEN queue \cup {id} ELSE queue
      BY <1>1, <1>2 DEF OpenWrites
  <1> HIDE DEF c
  <1>6. cases \in [CaseIds -> Case \cup {Nothing}] /\ pointer \in [Kinds \X Keys -> CaseIds \cup {Nothing}]
      BY DEF ReviewShape, ReviewTypeOK
  <1>7. \A i \in CaseIds : cases'[i] = IF n >= 1 /\ i = id THEN c ELSE cases[i]
      BY <1>5, <1>6
  <1>8. CasesStand
      BY <1>7, <1>1 DEF CasesStand
  <1>9. failures' \in 0..load.failures
      BY <1>1, ReviewBounds DEF Outcome, ReviewShape, ReviewTypeOK
  <1>10. IsFiniteSet(queue') /\ Cardinality(queue') <= maxOpenReviews
    <2>1. CASE n >= 3 /\ id \notin queue
      <3>1. queue' = queue \cup {id}
          BY <2>1, <1>5
      <3>2. Cardinality(queue') = Cardinality(queue) + 1 /\ IsFiniteSet(queue')
          BY <3>1, <2>1, FS_AddElement DEF ReviewShape
      <3>3. Cardinality(queue) \in Nat
          BY FS_CardinalityType DEF ReviewShape
      <3> QED BY <3>2, <3>3, <1>4, ReviewBounds DEF QueueFull
    <2>2. CASE ~(n >= 3 /\ id \notin queue)
      <3>1. queue' = queue
          BY <2>2, <1>5
      <3> QED BY <3>1 DEF ReviewShape, ReviewTypeOK
    <2> QED BY <2>1, <2>2
  <1>11. ReviewTypeOK'
    <2>1. cases' \in [CaseIds -> Case \cup {Nothing}]
        BY <1>5, <1>6, <1>2
    <2>2. pointer' \in [Kinds \X Keys -> CaseIds \cup {Nothing}]
        BY <1>5, <1>6
    <2>3. queue' \subseteq CaseIds
        BY <1>5 DEF ReviewShape, ReviewTypeOK
    <2> QED BY <2>1, <2>2, <2>3, <1>1, <1>3, <1>9, <1>10 DEF ReviewShape, ReviewTypeOK
  <1>12. ReviewShape'
    <2>1. \A o \in Operators : DeskIsSound(desk[o])'
        BY <1>3, <1>8 DEF ReviewShape, ReviewTypeOK, DeskIsSound, CasesStand, Desk
    <2> QED BY <2>1, <1>3, <1>10, <1>11 DEF ReviewShape
  <1>13. QueueInv'
    <2>1. ASSUME NEW i \in promised' PROVE cases'[i] # Nothing /\ (cases'[i].status = "open" => i \in queue')
        BY <2>1, <1>1, <1>2, <1>5, <1>7 DEF QueueInv, PromisedIsQueued, ReviewShape, ReviewTypeOK
    <2>2. ASSUME NEW i \in promised', cases'[i].status = "open"
          PROVE pointer'[<<cases'[i].kind, cases'[i].holder>>] = i
      <3>1. CASE i = id /\ n >= 1
        <4>1. ok /\ n = 3
            BY <3>1, <1>1, <2>2
        <4>2. cases'[i] = c
            BY <3>1, <1>7
        <4> QED BY <4>1, <4>2, <3>1, <1>2, <1>5, <1>6
      <3>2. CASE ~(i = id /\ n >= 1)
        <4>1. i \in promised /\ i \in CaseIds
            BY <3>2, <1>1 DEF ReviewShape, ReviewTypeOK
        <4>2. cases'[i] = cases[i] /\ cases[i] # Nothing /\ cases[i].status = "open"
            BY <4>1, <3>2, <1>7, <2>2 DEF QueueInv, PromisedIsQueued
        <4>3. pointer[<<cases[i].kind, cases[i].holder>>] = i
            BY <4>1, <4>2 DEF QueueInv
        <4>4. <<cases[i].kind, cases[i].holder>> # <<kind, h>>
            BY <4>1, <4>2, <4>3, <1>4, NothingIsNoRecord DEF AlreadyOpen
        <4>5. pointer'[<<cases[i].kind, cases[i].holder>>] = pointer[<<cases[i].kind, cases[i].holder>>]
            BY <4>1, <4>2, <4>4, <1>5, <1>6 DEF Case
        <4> QED BY <4>2, <4>3, <4>5
      <3> QED BY <3>1, <3>2
    <2> QED BY <2>1, <2>2 DEF QueueInv, PromisedIsQueued
  <1>14. DecisionInv'
      BY <1>2, <1>3, <1>7, <1>8 DEF DecisionInv, ApprovalIsOf, ApprovedAppealReinstates, CasesStand,
         ReviewShape, ReviewTypeOK, Approval
  <1> QED BY <1>12, <1>13, <1>14

(* A desk takes a case that exists: what it will do fits the case.         *)
LEMMA DecideStep ==
  ASSUME ReviewShape, QueueInv, DecisionInv,
         NEW o \in Operators, NEW id \in CaseIds, NEW approve \in BOOLEAN, Decide(o, id, approve)
  PROVE  ReviewShape' /\ QueueInv' /\ DecisionInv'
  <1>1. UNCHANGED <<cases, pointer, queue, approvals, bans, failures, promised, granted, lifted, load>>
        /\ admitted' = Nothing
      BY DEF Decide
  <1>2. \E d \in Desk : desk' = [desk EXCEPT ![o] = d] /\ DeskIsSound(d)
    <2>1. cases[id] \in Case /\ cases[id] # Nothing
        BY DEF Decide, ReviewShape, ReviewTypeOK
    <2> DEFINE close == [at |-> "close", id |-> id, approve |-> approve]
               lift  == [at |-> "lift", id |-> id, holder |-> cases[id].holder]
               grant == [at |-> "grant", id |-> id, approve |-> TRUE]
    <2>2. close \in Desk /\ lift \in Desk /\ grant \in Desk
        BY <2>1 DEF Desk, Case
    <2>3. ~approve \/ cases[id].kind = "recovery" => DeskIsSound(close)
        BY <2>1 DEF DeskIsSound
    <2>4. cases[id].kind = "appeal" => DeskIsSound(lift)
        BY <2>1 DEF DeskIsSound
    <2>5. cases[id].kind \notin {"appeal", "recovery"} => DeskIsSound(grant)
        BY <2>1 DEF DeskIsSound
    <2>6. \/ (~approve \/ cases[id].kind = "recovery") /\ desk' = [desk EXCEPT ![o] = close]
          \/ cases[id].kind = "appeal" /\ desk' = [desk EXCEPT ![o] = lift]
          \/ cases[id].kind \notin {"appeal", "recovery"} /\ desk' = [desk EXCEPT ![o] = grant]
        BY DEF Decide
    <2> HIDE DEF close, lift, grant
    <2> QED BY <2>2, <2>3, <2>4, <2>5, <2>6
  <1>3. ReviewShape'
      BY <1>1, <1>2 DEF ReviewShape, ReviewTypeOK, DeskIsSound
  <1>4. QueueInv'
      BY <1>1 DEF QueueInv, PromisedIsQueued
  <1>5. DecisionInv'
      BY <1>1 DEF DecisionInv, ApprovalIsOf, ApprovedAppealReinstates
  <1> QED BY <1>3, <1>4, <1>5

(* The approval that is written is of the holder of the case.              *)
LEMMA GrantStep ==
  ASSUME ReviewShape, QueueInv, DecisionInv, NEW o \in Operators, Grant(o)
  PROVE  ReviewShape' /\ QueueInv' /\ DecisionInv'
  <1>1. desk[o].at = "grant" /\ desk[o] \in Desk /\ DeskIsSound(desk[o])
      BY DEF Grant, ReviewShape, ReviewTypeOK
  <1> DEFINE id == desk[o].id
             h  == cases[id].holder
  <1>2. id \in CaseIds /\ cases[id] # Nothing /\ cases[id] \in Case /\ h \in Keys
        /\ cases[id].kind \notin {"appeal", "recovery"}
      BY <1>1 DEF Desk, DeskIsSound, ReviewShape, ReviewTypeOK, Case
  <1>3. PICK landed \in BOOLEAN, ok \in BOOLEAN :
          /\ ok => landed
          /\ approvals'  = IF landed THEN [approvals EXCEPT ![h] = [review |-> id, age |-> 0]]
                           ELSE approvals
          /\ Outcome(ok)
          /\ granted'    = IF landed THEN granted \cup {id} ELSE granted
          /\ desk' = [desk EXCEPT ![o] = IF ok THEN [@ EXCEPT !.at = "close"] ELSE Idle]
      BY DEF Grant
  <1>4. UNCHANGED <<cases, pointer, queue, bans, promised, lifted, load>> /\ admitted' = Nothing
      BY DEF Grant
  <1>5. [review |-> id, age |-> 0] \in Approval
      BY <1>2, ReviewBounds DEF Approval
  <1>6. [desk[o] EXCEPT !.at = "close"] \in Desk /\ Idle \in Desk
      BY <1>1 DEF Desk, Idle
  <1>7. DeskIsSound([desk[o] EXCEPT !.at = "close"]) /\ DeskIsSound(Idle)
      BY <1>1, <1>2 DEF DeskIsSound, Idle, Desk
  <1>8. \A p \in Operators : desk'[p] \in {desk[p], Idle, [desk[o] EXCEPT !.at = "close"]}
      BY <1>3 DEF ReviewShape, ReviewTypeOK
  <1>9. \A p \in Operators : DeskIsSound(desk[p])'
      BY <1>4, <1>7, <1>8, ZenonT(60) DEF ReviewShape, DeskIsSound
  <1>10. failures' \in 0..load.failures
      BY <1>3, ReviewBounds DEF Outcome, ReviewShape, ReviewTypeOK
  <1>11. desk' \in [Operators -> Desk]
      BY <1>3, <1>6 DEF ReviewShape, ReviewTypeOK
  <1>12. approvals' \in [Keys -> Approval \cup {Nothing}] /\ granted' \subseteq CaseIds
      BY <1>2, <1>3, <1>5 DEF ReviewShape, ReviewTypeOK
  <1> HIDE DEF id, h
  <1>13. ReviewShape'
      BY <1>4, <1>9, <1>10, <1>11, <1>12 DEF ReviewShape, ReviewTypeOK
  <1>14. QueueInv'
      BY <1>4 DEF QueueInv, PromisedIsQueued
  <1>15. DecisionInv'
    <2>1. ASSUME NEW g \in Keys, approvals'[g] # Nothing PROVE ApprovalIsOf(g, approvals[g].review)'
      <3>1. CASE g = h /\ landed
        <4>1. approvals'[g].review = id /\ id \in granted'
            BY <3>1, <1>3, <1>2 DEF ReviewShape, ReviewTypeOK
        <4>2. cases' = cases /\ cases[id].holder = g
            BY <3>1, <1>4 DEF h
        <4> QED BY <4>1, <4>2, <1>2 DEF ApprovalIsOf
      <3>2. CASE ~(g = h /\ landed)
        <4>1. approvals'[g] = approvals[g]
            BY <3>2, <1>3, <1>2 DEF ReviewShape, ReviewTypeOK
        <4> QED BY <4>1, <2>1, <1>3, <1>4 DEF ApprovalIsOf, DecisionInv
      <3> QED BY <3>1, <3>2
    <2> QED BY <2>1, <1>4 DEF DecisionInv, ApprovedAppealReinstates
  <1> QED BY <1>13, <1>14, <1>15

(* A case is closed before it leaves the queue, and only its status        *)
(* changes; an appeal is approved after its ban was lifted.                *)
LEMMA CloseReviewStep ==
  ASSUME ReviewShape, QueueInv, DecisionInv, NEW o \in Operators, CloseReview(o)
  PROVE  ReviewShape' /\ QueueInv' /\ DecisionInv'
  <1>1. desk[o].at = "close" /\ desk[o] \in Desk /\ DeskIsSound(desk[o])
      BY DEF CloseReview, ReviewShape, ReviewTypeOK
  <1> DEFINE id == desk[o].id
             verdict == IF desk[o].approve THEN "approved" ELSE "denied"
  <1>2. id \in CaseIds /\ cases[id] # Nothing /\ cases[id] \in Case /\ desk[o].approve \in BOOLEAN
      BY <1>1 DEF Desk, DeskIsSound, ReviewShape, ReviewTypeOK
  <1>3. PICK n \in 0..2 :
          /\ Outcome(n = 2)
          /\ cases' = IF n >= 1 THEN [cases EXCEPT ![id].status = verdict] ELSE cases
          /\ queue' = IF n >= 2 THEN queue \ {id} ELSE queue
      BY DEF CloseReview, Kept
  <1>4. /\ UNCHANGED <<pointer, approvals, bans, promised, granted, lifted, load>> /\ admitted' = Nothing
        /\ desk' = [desk EXCEPT ![o] = Idle]
      BY DEF CloseReview
  <1> DEFINE closed == [cases[id] EXCEPT !.status = verdict]
  <1>5. closed \in Case /\ closed # Nothing /\ closed.status = verdict
        /\ closed.kind = cases[id].kind /\ closed.holder = cases[id].holder
      BY <1>2, NothingIsNoRecord DEF Case
  <1>6. \A i \in CaseIds : cases'[i] = IF n >= 1 /\ i = id THEN closed ELSE cases[i]
      BY <1>2, <1>3 DEF ReviewShape, ReviewTypeOK
  <1>7. cases' \in [CaseIds -> Case \cup {Nothing}]
      BY <1>2, <1>3, <1>5 DEF ReviewShape, ReviewTypeOK
  <1>8. verdict # "open" /\ (verdict = "approved" <=> desk[o].approve)
      BY <1>2
  <1> HIDE DEF closed, verdict, id
  <1>9. CasesStand
      BY <1>5, <1>6 DEF CasesStand
  <1>10. IsFiniteSet(queue') /\ Cardinality(queue') <= maxOpenReviews /\ queue' \subseteq CaseIds
    <2>1. queue' \subseteq queue
        BY <1>3
    <2>2. IsFiniteSet(queue') /\ Cardinality(queue') <= Cardinality(queue) /\ Cardinality(queue') \in Nat
          /\ Cardinality(queue) \in Nat
        BY <2>1, FS_Subset, FS_CardinalityType DEF ReviewShape
    <2> QED BY <2>1, <2>2, ReviewBounds DEF ReviewShape, ReviewTypeOK
  <1>11. failures' \in 0..load.failures
      BY <1>3, ReviewBounds DEF Outcome, ReviewShape, ReviewTypeOK
  <1>12. \A p \in Operators : desk'[p] \in {desk[p], Idle} /\ desk' \in [Operators -> Desk]
      BY <1>4 DEF ReviewShape, ReviewTypeOK, Desk, Idle
  <1>13. \A p \in Operators : DeskIsSound(desk[p])'
      BY <1>4, <1>9, <1>12 DEF ReviewShape, ReviewTypeOK, DeskIsSound, CasesStand, Desk, Idle
  <1>14. ReviewShape'
      BY <1>4, <1>7, <1>10, <1>11, <1>12, <1>13 DEF ReviewShape, ReviewTypeOK
  <1>15. QueueInv'
    <2>1. ASSUME NEW i \in promised
          PROVE /\ cases'[i] # Nothing
                /\ cases'[i].status = "open" =>
                     /\ i \in queue'
                     /\ pointer[<<cases'[i].kind, cases'[i].holder>>] = i
      <3>1. i \in CaseIds
          BY DEF ReviewShape, ReviewTypeOK
      <3>2. CASE n >= 1 /\ i = id
          BY <3>1, <3>2, <1>5, <1>6, <1>8
      <3>3. CASE i # id
          BY <3>1, <3>3, <1>3, <1>6 DEF QueueInv, PromisedIsQueued
      <3>4. CASE ~(n >= 1)
          BY <3>1, <3>4, <1>3 DEF QueueInv, PromisedIsQueued
      <3> QED BY <3>2, <3>3, <3>4
    <2> QED BY <2>1, <1>4 DEF QueueInv, PromisedIsQueued
  <1>16. DecisionInv'
    <2>1. ASSUME NEW i \in CaseIds, cases'[i] # Nothing, cases'[i].kind = "appeal", cases'[i].status = "approved"
          PROVE i \in lifted
      <3>1. CASE n >= 1 /\ i = id
        <4>1. desk[o].approve /\ cases[id].kind = "appeal"
            BY <3>1, <2>1, <1>5, <1>6, <1>8
        <4> QED BY <4>1, <3>1, <1>1 DEF DeskIsSound, id
      <3>2. CASE ~(n >= 1 /\ i = id)
          BY <3>2, <2>1, <1>6 DEF DecisionInv, ApprovedAppealReinstates
      <3> QED BY <3>1, <3>2
    <2>2. \A h \in Keys : approvals[h] # Nothing => ApprovalIsOf(h, approvals[h].review)'
        BY <1>4, <1>9 DEF DecisionInv, ApprovalIsOf, CasesStand, ReviewShape, ReviewTypeOK, Approval
    <2> QED BY <2>1, <2>2, <1>4 DEF DecisionInv, ApprovedAppealReinstates, ApprovalIsOf
  <1> QED BY <1>14, <1>15, <1>16

(* A reinstatement lifts the ban before the appeal is closed; one that     *)
(* failed leaves the appeal open.                                          *)
LEMMA LiftBanStep ==
  ASSUME ReviewShape, QueueInv, DecisionInv, NEW o \in Operators, LiftBan(o)
  PROVE  ReviewShape' /\ QueueInv' /\ DecisionInv'
  <1>1. desk[o].at = "lift" /\ desk[o] \in Desk /\ DeskIsSound(desk[o])
      BY DEF LiftBan, ReviewShape, ReviewTypeOK
  <1> DEFINE id == desk[o].id
             h  == desk[o].holder
             close == [at |-> "close", id |-> id, approve |-> TRUE]
  <1>2. id \in CaseIds \cup {Nothing} /\ h \in Keys
      BY <1>1 DEF Desk
  <1>3. PICK landed \in BOOLEAN, ok \in BOOLEAN :
          /\ ok => landed
          /\ Outcome(ok)
          /\ bans' = IF landed THEN [bans EXCEPT ![h] = Nothing] ELSE bans
          /\ lifted' = IF landed THEN lifted \cup AppealsOf(h) ELSE lifted
          /\ desk' = [desk EXCEPT ![o] = IF ok /\ id # Nothing THEN close ELSE Idle]
      BY DEF LiftBan, OnlyIfReinstated
  <1>4. UNCHANGED <<cases, pointer, queue, approvals, promised, granted, load>> /\ admitted' = Nothing
      BY DEF LiftBan
  <1>5. AppealsOf(h) \subseteq CaseIds
      BY DEF AppealsOf
  <1>6. failures' \in 0..load.failures
      BY <1>3, ReviewBounds DEF Outcome, ReviewShape, ReviewTypeOK
  <1>7. id # Nothing => close \in Desk
      BY <1>2 DEF Desk
  <1>8. ok /\ id # Nothing => cases[id] # Nothing /\ id \in lifted'
    <2>1. id # Nothing => id \in CaseIds /\ cases[id] # Nothing /\ cases[id].kind = "appeal"
                          /\ cases[id].holder = h
        BY <1>1, <1>2 DEF DeskIsSound
    <2>2. id # Nothing => id \in AppealsOf(h)
        BY <2>1 DEF AppealsOf
    <2> QED BY <2>1, <2>2, <1>3
  <1>9. Idle \in Desk
      BY DEF Desk, Idle
  <1>10. desk' \in [Operators -> Desk]
      BY <1>3, <1>7, <1>9 DEF ReviewShape, ReviewTypeOK
  <1>11. lifted \subseteq lifted' /\ lifted' \subseteq CaseIds
      BY <1>3, <1>5 DEF ReviewShape, ReviewTypeOK
  <1>12. bans' \in [Keys -> {"revoked", "recovered", Nothing}]
      BY <1>2, <1>3 DEF ReviewShape, ReviewTypeOK
  <1>13. ASSUME NEW p \in Operators PROVE DeskIsSound(desk[p])'
    <2>1. CASE p # o
      <3>1. desk'[p] = desk[p]
          BY <2>1, <1>3 DEF ReviewShape, ReviewTypeOK
      <3> QED BY <3>1, <1>4, <1>11 DEF ReviewShape, DeskIsSound
    <2>2. CASE p = o
      <3>1. desk'[p] = IF ok /\ id # Nothing THEN close ELSE Idle
          BY <2>2, <1>3 DEF ReviewShape, ReviewTypeOK
      <3> QED BY <3>1, <1>4, <1>8 DEF DeskIsSound, Idle
    <2> QED BY <2>1, <2>2
  <1> HIDE DEF id, h, close
  <1>14. ReviewShape'
      BY <1>4, <1>6, <1>10, <1>11, <1>12, <1>13 DEF ReviewShape, ReviewTypeOK
  <1>15. QueueInv' /\ DecisionInv'
      BY <1>4, <1>11 DEF QueueInv, PromisedIsQueued, DecisionInv, ApprovalIsOf, ApprovedAppealReinstates
  <1> QED BY <1>14, <1>15

(* Steps that write neither cases nor approvals: an operator asks for a    *)
(* reinstatement, a key is banned.                                         *)
LEMMA BanStep ==
  ASSUME ReviewShape, QueueInv, DecisionInv, NEW h \in Keys,
         \/ \E o \in Operators : AdminReinstate(o, h)
         \/ RevokeKey(h)
         \/ RetireKey(h)
  PROVE  ReviewShape' /\ QueueInv' /\ DecisionInv'
  <1>1. /\ UNCHANGED <<cases, pointer, queue, approvals, failures, promised, granted, lifted, load>>
        /\ admitted' = Nothing
      BY DEF AdminReinstate, RevokeKey, RetireKey
  <1>2. \/ UNCHANGED desk
        \/ \E o \in Operators : desk' = [desk EXCEPT ![o] = [at |-> "lift", id |-> Nothing, holder |-> h]]
      BY DEF AdminReinstate, RevokeKey, RetireKey
  <1> DEFINE lift == [at |-> "lift", id |-> Nothing, holder |-> h]
  <1>3. lift \in Desk /\ DeskIsSound(lift)
      BY DEF Desk, DeskIsSound
  <1> HIDE DEF lift
  <1>4. \/ UNCHANGED desk
        \/ \E o \in Operators : desk' = [desk EXCEPT ![o] = lift]
      BY <1>2 DEF lift
  <1>5. desk' \in [Operators -> Desk] /\ \A p \in Operators : DeskIsSound(desk'[p])
      BY <1>3, <1>4 DEF ReviewShape, ReviewTypeOK
  <1>6. bans' \in [Keys -> {"revoked", "recovered", Nothing}]
      BY DEF AdminReinstate, RevokeKey, RetireKey, Ban, ReviewShape, ReviewTypeOK
  <1>7. ReviewShape'
      BY <1>1, <1>5, <1>6 DEF ReviewShape, ReviewTypeOK, DeskIsSound
  <1>8. QueueInv' /\ DecisionInv'
      BY <1>1 DEF QueueInv, PromisedIsQueued, DecisionInv, ApprovalIsOf, ApprovedAppealReinstates
  <1> QED BY <1>7, <1>8

(* The anchor is completed on an approval that has not lapsed.             *)
LEMMA CompleteOperatorReviewStep ==
  ASSUME ReviewShape, QueueInv, DecisionInv, NEW h \in Keys, CompleteOperatorReview(h)
  PROVE  ReviewShape' /\ QueueInv' /\ DecisionInv'
  <1>1. UNCHANGED <<cases, pointer, queue, approvals, bans, desk, failures, promised, granted, lifted, load>>
      BY DEF CompleteOperatorReview
  <1>2. /\ approvals[h] # Nothing /\ approvals[h].age <= reviewApprovalLifetime
        /\ admitted' = [holder |-> h, review |-> approvals[h].review, age |-> approvals[h].age]
      BY DEF CompleteOperatorReview, Approved
  <1>3. ReviewShape'
      BY <1>1 DEF ReviewShape, ReviewTypeOK, DeskIsSound
  <1>4. QueueInv' /\ DecisionInv'
      BY <1>1, <1>2 DEF QueueInv, PromisedIsQueued, DecisionInv, ApprovalIsOf, ApprovedAppealReinstates
  <1> QED BY <1>3, <1>4

(* Approvals grow older and stay what they were.                           *)
LEMMA ReviewTickStep ==
  ASSUME ReviewShape, QueueInv, DecisionInv, ReviewTick
  PROVE  ReviewShape' /\ QueueInv' /\ DecisionInv'
  <1>1. /\ UNCHANGED <<cases, pointer, queue, bans, desk, failures, promised, granted, lifted, load>>
        /\ admitted' = Nothing
      BY DEF ReviewTick
  <1>2. ASSUME NEW h \in Keys
        PROVE  \/ approvals'[h] = approvals[h]
               \/ /\ approvals[h] # Nothing /\ approvals[h] \in Approval
                  /\ approvals'[h] \in Approval /\ approvals'[h].review = approvals[h].review
    <2>1. approvals[h] # Nothing => approvals[h] \in Approval
        BY DEF ReviewShape, ReviewTypeOK
    <2>2. CASE approvals[h] # Nothing /\ approvals[h].age <= reviewApprovalLifetime
      <3>1. approvals'[h] = [approvals[h] EXCEPT !.age = @ + 1]
          BY <2>2 DEF ReviewTick
      <3>2. [approvals[h] EXCEPT !.age = @ + 1] \in Approval
          BY <2>1, <2>2, ReviewBounds DEF Approval
      <3> QED BY <3>1, <3>2, <2>1, <2>2 DEF Approval
    <2>3. CASE ~(approvals[h] # Nothing /\ approvals[h].age <= reviewApprovalLifetime)
        BY <2>3 DEF ReviewTick
    <2> QED BY <2>2, <2>3
  <1>3. DOMAIN approvals' = Keys /\ approvals' = [h \in Keys |-> approvals'[h]]
      BY DEF ReviewTick
  <1>4. approvals' \in [Keys -> Approval \cup {Nothing}]
      BY <1>2, <1>3 DEF ReviewShape, ReviewTypeOK
  <1>5. ReviewShape'
      BY <1>1, <1>4 DEF ReviewShape, ReviewTypeOK, DeskIsSound
  <1>6. ASSUME NEW h \in Keys, approvals'[h] # Nothing PROVE ApprovalIsOf(h, approvals'[h].review)
      BY <1>2, <1>6 DEF DecisionInv
  <1>7. QueueInv' /\ DecisionInv'
      BY <1>1, <1>6 DEF QueueInv, PromisedIsQueued, DecisionInv, ApprovalIsOf, ApprovedAppealReinstates
  <1> QED BY <1>5, <1>7

LEMMA ReviewStep ==
  ReviewShape /\ QueueInv /\ DecisionInv /\ [ReviewNext]_reviewVars
    => ReviewShape' /\ QueueInv' /\ DecisionInv'
  <1> SUFFICES ASSUME ReviewShape, QueueInv, DecisionInv, [ReviewNext]_reviewVars
               PROVE  ReviewShape' /\ QueueInv' /\ DecisionInv'
      OBVIOUS
  <1>1. ASSUME NEW h \in Keys, NEW kind \in Asked, RequestReview(kind, h)
        PROVE  ReviewShape' /\ QueueInv' /\ DecisionInv'
      BY <1>1, OpenReviewStep DEF RequestReview
  <1>2. ASSUME NEW h \in Keys, Appeal(h) PROVE ReviewShape' /\ QueueInv' /\ DecisionInv'
      BY <1>2, OpenReviewStep DEF Appeal, Kinds
  <1>3. CASE UNCHANGED reviewVars
      BY <1>3 DEF reviewVars, ReviewShape, ReviewTypeOK, DeskIsSound, QueueInv, PromisedIsQueued,
         DecisionInv, ApprovalIsOf, ApprovedAppealReinstates
  <1> QED BY <1>1, <1>2, <1>3, BanStep, CompleteOperatorReviewStep, DecideStep, GrantStep,
             CloseReviewStep, LiftBanStep, ReviewTickStep DEF ReviewNext

(* For every number of keys, operators, cases and failures: a case whose   *)
(* id was answered stays in the queue while it is open, and one person has *)
(* one open case of a kind (openReview, closeReview).                      *)
THEOREM QueueIsTrueHolds == ReviewSpec => []QueueIsTrue
  <1>1. ReviewShape /\ QueueInv => QueueIsTrue
    <2> SUFFICES ASSUME ReviewShape, QueueInv, NEW i \in promised, NEW j \in promised,
                        i # j, cases[i].status = "open", cases[j].status = "open"
                 PROVE  <<cases[i].kind, cases[i].holder>> # <<cases[j].kind, cases[j].holder>>
        BY DEF QueueIsTrue, QueueInv, OneOpenCase
    <2> QED BY DEF QueueInv
  <1> QED BY ReviewInitial, ReviewStep, <1>1, PTL DEF ReviewSpec

(* However operators' decisions, reinstatements and bans of the same keys  *)
(* interleave: the anchor is completed on a granted case of that very key, *)
(* and an appeal reported approved had its ban lifted (decide, reinstate). *)
THEOREM DecisionIsCarriedOutHolds == ReviewSpec => []DecisionIsCarriedOut
  <1>1. DecisionInv => DecisionIsCarriedOut
      BY DEF DecisionInv, DecisionIsCarriedOut, AdmittedWasApproved, ApprovalIsOf
  <1> QED BY ReviewInitial, ReviewStep, <1>1, PTL DEF ReviewSpec

(* The review component's variables have their types; the queue is bounded *)
(* by maxOpenReviews (openReview).                                         *)
THEOREM ReviewTypes == ReviewSpec => []ReviewTypeOK
  <1>1. ReviewShape => ReviewTypeOK
      BY DEF ReviewShape
  <1> QED BY ReviewInitial, ReviewStep, <1>1, PTL DEF ReviewSpec

-----------------------------------------------------------------------------
(* The document anchor (DocumentAnchor).                                   *)

DocMethods == {"chip", "qr"}
DocCallFields == {"at", "method", "session", "nonce", "id", "of", "face"}

(* The calls in flight, and who holds a mutex: whoever is past the reading *)
(* of the index.                                                           *)
DocShape ==
  /\ DOMAIN challenge = DocSessions /\ DOMAIN docCall = DocCalls
  /\ faceMu \in [DocMethods -> DocCalls \cup {NoneDoc}]
  /\ \A c \in DocCalls : docCall[c] # NoneDoc =>
       /\ DOMAIN docCall[c] = DocCallFields
       /\ docCall[c].at \in {"find", "known", "case", "add"} /\ docCall[c].method \in DocMethods
       /\ docCall[c].at # "find" => faceMu[docCall[c].method] = c

(* A nonce that was handed out is one of: in the challenge of its session, *)
(* in one call, or spent.                                                  *)
Challenged(n) == \E s \in DocSessions : challenge[s] # NoneDoc /\ challenge[s].nonce = n
Carries(c, n) == docCall[c] # NoneDoc /\ docCall[c].nonce = n
NoncesApart ==
  /\ wins \in [Nonces -> Nat] /\ began \in [Nonces -> DocSessions \cup {NoneDoc}]
  /\ \A s \in DocSessions : challenge[s] # NoneDoc =>
       challenge[s].nonce \in Nonces /\ began[challenge[s].nonce] = s
  /\ \A c \in DocCalls : docCall[c] # NoneDoc => docCall[c].nonce \in Nonces \cup {NoneDoc}
  /\ \A n \in Nonces :
       /\ wins[n] <= 1
       /\ wins[n] = 1 \/ (\E c \in DocCalls : Carries(c, n)) => began[n] # NoneDoc /\ ~Challenged(n)
       /\ wins[n] = 1 => \A c \in DocCalls : ~Carries(c, n)
       /\ \A c, d \in DocCalls : Carries(c, n) /\ Carries(d, n) => c = d

(* Of one method and face, the first document is the only one so called,   *)
(* and no call is about to call another one that.                          *)
FirstOf(m, face) == {r \in results : r.method = m /\ r.face = face /\ r.how = "first"}
FirstsApart ==
  /\ \A r \in results : r.how = "first" => r.face \in faces
  /\ \A c \in DocCalls : docCall[c] # NoneDoc /\ docCall[c].at = "add" =>
       FirstOf(docCall[c].method, docCall[c].face) = {}
  /\ SecondDocumentFlagged

LEMMA DocInitial == DocInit => DocShape /\ NoncesApart /\ FirstsApart
  <1> SUFFICES ASSUME DocInit PROVE DocShape /\ NoncesApart /\ FirstsApart
      OBVIOUS
  <1> USE DEF DocInit
  <1>1. DocShape
      BY DEF DocShape, DocMethods
  <1>2. NoncesApart
      BY DEF NoncesApart, Carries
  <1>3. FirstsApart
      BY DEF FirstsApart, SecondDocumentFlagged
  <1> QED BY <1>1, <1>2, <1>3

FacesSeen == {FaceOf[x] : x \in Read} \cup {NoneDoc}
Complete(req) ==
  /\ req = [at |-> "find", method |-> req.method, session |-> req.session, nonce |-> req.nonce,
            id |-> req.id, of |-> req.of, face |-> req.face]
  /\ req.session \in DocSessions /\ req.face \in FacesSeen

(* A completion that passed its checks: its call is in flight, or it has   *)
(* no template and succeeds at once.                                       *)
Passed(c, req) ==
  /\ docCall[c] = NoneDoc /\ Complete(req)
  /\ DOMAIN req = DocCallFields /\ req.at = "find" /\ req.method \in DocMethods
  /\ CheckFace(c, req)
  /\ UNCHANGED <<faceMu, faces, docReviews, began>>

(* What a completion says of the chip or card that was read.               *)
ReadFrom(req, s) ==
  /\ req.method = "chip" /\ req.session = s
  /\ \E r \in ChipResponses :
       /\ ChipVerifies(r, challenge[s].nonce)
       /\ req.of = r.dg1 /\ req.id = ChipIdentifier(Country(r.sod), r.dg1.number)
Scanned(req, card, format) ==
  /\ req.method = "qr" /\ QRVerify(card, format) # {} /\ req.of = card.fields
  /\ req.id = UniqueKey(Formats[Earliest(QRVerify(card, format))], card)

LEMMA ChipPassed ==
  ASSUME NEW c \in DocCalls, NEW s \in DocSessions, CompleteChip(c, s)
  PROVE  /\ challenge' = [challenge EXCEPT ![s] = NoneDoc]
         /\ UNCHANGED <<faceMu, faces, docReviews, began>>
         /\ \/ UNCHANGED <<docCall, wins, results>>
            \/ /\ challenge[s] # NoneDoc
               /\ \E req : Passed(c, req) /\ req.nonce = challenge[s].nonce /\ ReadFrom(req, s)
  <1>1. /\ challenge' = [challenge EXCEPT ![s] = NoneDoc]
        /\ UNCHANGED <<faceMu, faces, docReviews, began>> /\ docCall[c] = NoneDoc
      BY DEF CompleteChip, Take
  <1>2. CASE UNCHANGED <<docCall, wins, results>>
      BY <1>1, <1>2
  <1>3. CASE ~UNCHANGED <<docCall, wins, results>>
    <2>1. /\ Fresh(challenge[s])
          /\ \E r \in ChipResponses :
               /\ ChipVerifies(r, challenge[s].nonce)
               /\ \E face \in {FaceOf[r.dg1], NoneDoc} :
                    CheckFace(c, [at |-> "find", method |-> "chip", session |-> s, nonce |-> challenge[s].nonce,
                        id |-> ChipIdentifier(Country(r.sod), r.dg1.number), of |-> r.dg1, face |-> face])
        BY <1>3 DEF CompleteChip
    <2>2. PICK r \in ChipResponses :
            /\ ChipVerifies(r, challenge[s].nonce)
            /\ \E face \in {FaceOf[r.dg1], NoneDoc} :
                CheckFace(c, [at |-> "find", method |-> "chip", session |-> s, nonce |-> challenge[s].nonce,
                    id |-> ChipIdentifier(Country(r.sod), r.dg1.number), of |-> r.dg1, face |-> face])
        BY <2>1, Zenon
    <2>6. PICK face \in {FaceOf[r.dg1], NoneDoc} :
             CheckFace(c, [at |-> "find", method |-> "chip", session |-> s, nonce |-> challenge[s].nonce,
                 id |-> ChipIdentifier(Country(r.sod), r.dg1.number), of |-> r.dg1, face |-> face])
        BY <2>2, Zenon
    <2> DEFINE req  == [at |-> "find", method |-> "chip", session |-> s, nonce |-> challenge[s].nonce,
                        id |-> ChipIdentifier(Country(r.sod), r.dg1.number), of |-> r.dg1, face |-> face]
    <2>3. DOMAIN req = DocCallFields /\ req.at = "find" /\ req.method = "chip"
          /\ req.nonce = challenge[s].nonce /\ req.session = s
          /\ req.of = r.dg1 /\ req.id = ChipIdentifier(Country(r.sod), r.dg1.number)
        BY DEF DocCallFields
    <2>4. CheckFace(c, req)
        BY <2>6
    <2>8. Complete(req)
      <3>1. r.dg1 \in Read
          BY DEF ChipResponses, Read
      <3> QED BY <3>1 DEF Complete, FacesSeen
    <2> HIDE DEF req
    <2>5. Passed(c, req)
        BY <1>1, <2>3, <2>4, <2>8 DEF Passed, DocMethods
    <2>7. ReadFrom(req, s)
        BY <2>2, <2>3 DEF ReadFrom
    <2> QED BY <1>1, <2>1, <2>3, <2>5, <2>7 DEF Fresh
  <1> QED BY <1>2, <1>3

LEMMA QRPassed ==
  ASSUME NEW c \in DocCalls, NEW s \in DocSessions, NEW card \in Cards, NEW format,
         CompleteQR(c, s, card, format)
  PROVE  UNCHANGED challenge /\ \E req : Passed(c, req) /\ req.nonce = NoneDoc /\ Scanned(req, card, format)
  <1>1. UNCHANGED <<challenge, faceMu, faces, docReviews, began>> /\ docCall[c] = NoneDoc
        /\ QRVerify(card, format) # {}
      BY DEF CompleteQR
  <1> DEFINE f == Formats[Earliest(QRVerify(card, format))]
  <1>2. PICK face \in {FaceOf[card.fields], NoneDoc} :
          CheckFace(c, [at |-> "find", method |-> "qr", session |-> s, nonce |-> NoneDoc,
                        id |-> UniqueKey(f, card), of |-> card.fields, face |-> face])
      BY Zenon DEF CompleteQR
  <1> DEFINE req  == [at |-> "find", method |-> "qr", session |-> s, nonce |-> NoneDoc,
                      id |-> UniqueKey(f, card), of |-> card.fields, face |-> face]
  <1>3. DOMAIN req = DocCallFields /\ req.at = "find" /\ req.method = "qr" /\ req.nonce = NoneDoc
        /\ req.id = UniqueKey(f, card) /\ req.of = card.fields
      BY DEF DocCallFields
  <1>4. CheckFace(c, req)
      BY <1>2
  <1>5. Scanned(req, card, format)
      BY <1>1, <1>3 DEF Scanned
  <1>6. Complete(req)
      BY DEF Complete, FacesSeen, Read
  <1> HIDE DEF req
  <1> QED BY <1>1, <1>3, <1>4, <1>5, <1>6 DEF Passed, DocMethods

(* A call ends its check of the face in one of three ways, and enters it   *)
(* only when nobody else of its method is in it.                           *)
Alone(c) == faceMu[docCall[c].method] \in {NoneDoc, c}
Fails(c) ==
  /\ docCall' = [docCall EXCEPT ![c] = NoneDoc]
  /\ faceMu' = [faceMu EXCEPT ![docCall[c].method] = NoneDoc]
  /\ UNCHANGED <<wins, results>>
GoesOn(c) ==
  \E at \in {"known", "case", "add"} :
    /\ docCall' = [docCall EXCEPT ![c].at = at]
    /\ faceMu' = [faceMu EXCEPT ![docCall[c].method] = c]
    /\ at = "add" => docCall[c].face \notin faces
    /\ UNCHANGED <<wins, results, faces>>
Finishes(c) ==
  \E how \in {"known", "flagged", "first"} :
    /\ Succeeds(c, docCall[c], how)
    /\ faceMu' = [faceMu EXCEPT ![docCall[c].method] = NoneDoc]
    /\ how = "first" => docCall[c].at = "add" /\ docCall[c].face \in faces'
    /\ how = "flagged" => DocCase(docCall[c]) \in docReviews'

LEMMA FaceChecked ==
  ASSUME DocShape, NEW c \in DocCalls,
         FindDuplicate(c) \/ KnownIdentifier(c) \/ AddCase(c) \/ AddFace(c)
  PROVE  /\ docCall[c] # NoneDoc /\ Alone(c) /\ UNCHANGED <<challenge, began>>
         /\ faces \subseteq faces' /\ docReviews \subseteq docReviews'
         /\ Fails(c) \/ GoesOn(c) \/ Finishes(c)
  <1>1. CASE FindDuplicate(c)
    <2>1. docCall[c] # NoneDoc /\ faceMu[docCall[c].method] = NoneDoc
          /\ UNCHANGED <<challenge, began, faces, docReviews>>
        BY <1>1 DEF FindDuplicate, Unlocked
    <2>2. CASE Errors(c)
        BY <2>1, <2>2 DEF Errors, Fails, Alone
    <2>3. CASE /\ faceMu' = [faceMu EXCEPT ![docCall[c].method] = c]
               /\ Turns(c, IF docCall[c].face \in faces THEN "known" ELSE "add")
        BY <2>1, <2>3 DEF Turns, GoesOn, Alone
    <2> QED BY <1>1, <2>1, <2>2, <2>3 DEF FindDuplicate
  <1>2. CASE KnownIdentifier(c)
    <2>1. docCall[c] # NoneDoc /\ faceMu[docCall[c].method] = c /\ docCall[c].method \in DocMethods
          /\ docCall[c].at = "known" /\ UNCHANGED <<challenge, began, faces, docReviews>>
        BY <1>2 DEF KnownIdentifier, DocShape
    <2>2. faceMu = [faceMu EXCEPT ![docCall[c].method] = c]
        BY <2>1 DEF DocShape
    <2>3. CASE Errors(c)
        BY <2>1, <2>3 DEF Errors, Fails, Alone
    <2>4. CASE Succeeds(c, docCall[c], "known") /\ Releases(c)
        BY <2>1, <2>4 DEF Releases, Finishes, Alone
    <2>5. CASE Turns(c, "case") /\ UNCHANGED faceMu
      <3>1. docCall' = [docCall EXCEPT ![c].at = "case"] /\ UNCHANGED <<wins, results, faces>>
          BY <2>1, <2>5 DEF Turns
      <3> QED BY <2>1, <2>2, <2>5, <3>1 DEF GoesOn, Alone
    <2> QED BY <1>2, <2>1, <2>3, <2>4, <2>5 DEF KnownIdentifier
  <1>3. CASE AddCase(c)
    <2>1. docCall[c] # NoneDoc /\ faceMu[docCall[c].method] = c /\ UNCHANGED <<challenge, began, faces>>
        BY <1>3 DEF AddCase, DocShape
    <2>2. CASE Succeeds(c, docCall[c], "flagged") /\ Releases(c) /\ docReviews' = docReviews \cup {DocCase(docCall[c])}
        BY <2>1, <2>2 DEF Releases, Finishes, Alone
    <2>3. CASE Errors(c) /\ docReviews' \in {docReviews, docReviews \cup {DocCase(docCall[c])}}
        BY <2>1, <2>3 DEF Errors, Fails, Alone
    <2> QED BY <1>3, <2>2, <2>3 DEF AddCase
  <1>4. CASE AddFace(c)
    <2>1. docCall[c] # NoneDoc /\ docCall[c].at = "add" /\ faceMu[docCall[c].method] = c
          /\ UNCHANGED <<challenge, began, docReviews>>
        BY <1>4 DEF AddFace, DocShape
    <2>2. CASE Succeeds(c, docCall[c], "first") /\ Releases(c) /\ faces' = faces \cup {docCall[c].face}
        BY <2>1, <2>2 DEF Releases, Finishes, Alone
    <2>3. CASE Errors(c) /\ faces' \in {faces, faces \cup {docCall[c].face}}
        BY <2>1, <2>3 DEF Errors, Fails, Alone
    <2> QED BY <1>4, <2>2, <2>3 DEF AddFace
  <1> QED BY <1>1, <1>2, <1>3, <1>4

(* The calls keep their shape, and the mutexes their owners.               *)
LEMMA DocShapeFaceStep ==
  ASSUME DocShape, NEW c \in DocCalls, docCall[c] # NoneDoc, Alone(c), UNCHANGED challenge,
         Fails(c) \/ GoesOn(c) \/ Finishes(c)
  PROVE  DocShape'
  <1> DEFINE m == docCall[c].method
  <1>1. m \in DocMethods /\ DOMAIN docCall[c] = DocCallFields /\ DOMAIN docCall = DocCalls
        /\ "at" \in DocCallFields /\ "method" \in DocCallFields
      BY DEF DocShape, DocCallFields
  <1>2. \A d \in DocCalls : d # c /\ docCall[d] # NoneDoc /\ docCall[d].at # "find" => docCall[d].method # m
      BY NoneDocIsNone DEF DocShape, Alone
  <1>3. CASE /\ docCall' = [docCall EXCEPT ![c] = NoneDoc]
             /\ faceMu' = [faceMu EXCEPT ![m] = NoneDoc]
    <2>1. \A d \in DocCalls : docCall'[d] = IF d = c THEN NoneDoc ELSE docCall[d]
        BY <1>3, <1>1
    <2>2. \A x \in DocMethods : faceMu'[x] = IF x = m THEN NoneDoc ELSE faceMu[x]
        BY <1>3, <1>1 DEF DocShape
    <2>3. faceMu' \in [DocMethods -> DocCalls \cup {NoneDoc}] /\ DOMAIN docCall' = DocCalls
        BY <1>3, <1>1 DEF DocShape
    <2> HIDE DEF m
    <2> QED BY <2>1, <2>2, <2>3, <1>2 DEF DocShape
  <1>4. ASSUME NEW at \in {"known", "case", "add"},
               docCall' = [docCall EXCEPT ![c].at = at],
               faceMu' = [faceMu EXCEPT ![m] = c]
        PROVE  DocShape'
    <2>1. \A d \in DocCalls : docCall'[d] = IF d = c THEN [docCall[c] EXCEPT !.at = at] ELSE docCall[d]
        BY <1>4, <1>1
    <2>2. \A x \in DocMethods : faceMu'[x] = IF x = m THEN c ELSE faceMu[x]
        BY <1>4, <1>1 DEF DocShape
    <2>3. faceMu' \in [DocMethods -> DocCalls \cup {NoneDoc}] /\ DOMAIN docCall' = DocCalls
        BY <1>4, <1>1 DEF DocShape
    <2>4. /\ DOMAIN [docCall[c] EXCEPT !.at = at] = DocCallFields
          /\ [docCall[c] EXCEPT !.at = at].at = at /\ [docCall[c] EXCEPT !.at = at].method = m
        BY <1>1
    <2> HIDE DEF m
    <2>5. ASSUME NEW d \in DocCalls, docCall'[d] # NoneDoc
          PROVE  /\ DOMAIN docCall'[d] = DocCallFields
                 /\ docCall'[d].at \in {"find", "known", "case", "add"} /\ docCall'[d].method \in DocMethods
                 /\ docCall'[d].at # "find" => faceMu'[docCall'[d].method] = d
      <3>1. CASE d = c
        <4>1. docCall'[d] = [docCall[c] EXCEPT !.at = at]
            BY <3>1, <2>1
        <4>2. DOMAIN docCall'[d] = DocCallFields /\ docCall'[d].at = at /\ docCall'[d].method = m
            BY <4>1, <2>4
        <4> QED BY <4>2, <3>1, <1>1, <2>2
      <3>2. CASE d # c
          BY <3>2, <2>5, <2>1, <2>2, <1>2 DEF DocShape
      <3> QED BY <3>1, <3>2
    <2> QED BY <2>3, <2>5 DEF DocShape
  <1> QED BY <1>3, <1>4 DEF Fails, GoesOn, Finishes, Succeeds

(* No call starts with a mutex, and a new one takes no place of another.   *)
LEMMA DocShapePassed ==
  ASSUME DocShape, NEW c \in DocCalls, NEW req, Passed(c, req),
         DOMAIN challenge' = DocSessions
  PROVE  DocShape'
  <1>1. docCall' = [docCall EXCEPT ![c] = NoneDoc] \/ docCall' = [docCall EXCEPT ![c] = req]
      BY DEF Passed, CheckFace, Succeeds
  <1>2. DOMAIN docCall' = DocCalls /\ \A d \in DocCalls : docCall'[d] \in {docCall[d], NoneDoc, req}
      BY <1>1 DEF DocShape
  <1>3. \A d \in DocCalls : d # c => docCall'[d] = docCall[d]
      BY <1>1 DEF DocShape
  <1>4. docCall'[c] \in {NoneDoc, req}
      BY <1>1 DEF DocShape
  <1>5. req.at = "find" /\ DOMAIN req = DocCallFields /\ req.method \in DocMethods /\ faceMu' = faceMu
      BY DEF Passed
  <1> QED BY <1>2, <1>3, <1>4, <1>5 DEF DocShape

(* The nonce moves from the challenge of a session to one call, or is      *)
(* spent at once.                                                          *)
LEMMA NoncesPassed ==
  ASSUME DocShape, NoncesApart, NEW c \in DocCalls, NEW req, Passed(c, req),
         \/ req.nonce = NoneDoc /\ UNCHANGED challenge
         \/ \E s \in DocSessions :
              /\ challenge[s] # NoneDoc /\ req.nonce = challenge[s].nonce
              /\ challenge' = [challenge EXCEPT ![s] = NoneDoc]
  PROVE  NoncesApart'
  <1> DEFINE n == req.nonce
  <1>1. \/ n = NoneDoc /\ UNCHANGED challenge
        \/ \E s \in DocSessions :
             /\ challenge[s] # NoneDoc /\ n = challenge[s].nonce
             /\ challenge' = [challenge EXCEPT ![s] = NoneDoc]
      OBVIOUS
  <1>2. \A s \in DocSessions : challenge'[s] = NoneDoc \/ challenge'[s] = challenge[s]
      BY <1>1 DEF DocShape
  <1>3. n \in Nonces \cup {NoneDoc}
      BY <1>1 DEF NoncesApart
  <1>4. n # NoneDoc => Challenged(n) /\ ~Challenged(n)' /\ n \in Nonces
      BY <1>1, <1>3 DEF NoncesApart, Challenged, DocShape
  <1>5. \A x \in Nonces : Challenged(x)' => Challenged(x)
      BY <1>2 DEF Challenged
  <1>6. n # NoneDoc => wins[n] = 0 /\ began[n] # NoneDoc /\ \A d \in DocCalls : ~Carries(d, n)
    <2>1. n # NoneDoc => wins[n] \in Nat /\ wins[n] <= 1 /\ wins[n] # 1
        BY <1>4 DEF NoncesApart
    <2>2. n # NoneDoc => began[n] # NoneDoc
        BY <1>1, NoneDocIsNone DEF NoncesApart
    <2>3. n # NoneDoc => \A d \in DocCalls : ~Carries(d, n)
        BY <1>4 DEF NoncesApart
    <2> QED BY <2>1, <2>2, <2>3
  <1>7. began' = began /\ docCall[c] = NoneDoc
      BY DEF Passed
  <1>8. CASE /\ docCall' = [docCall EXCEPT ![c] = NoneDoc]
             /\ wins' = IF n = NoneDoc THEN wins ELSE [wins EXCEPT ![n] = @ + 1]
    <2>1. \A d \in DocCalls : docCall'[d] = docCall[d]
        BY <1>8, <1>7 DEF DocShape
    <2>2. \A d \in DocCalls, x \in Nonces : Carries(d, x)' <=> Carries(d, x)
        BY <2>1 DEF Carries
    <2>3. \A x \in Nonces : wins'[x] = IF x = n THEN 1 ELSE wins[x]
        BY <1>8, <1>6, <1>3, NoneDocIsNone DEF NoncesApart
    <2>4. wins' \in [Nonces -> Nat]
        BY <1>8, <1>3 DEF NoncesApart
    <2>5. \A s \in DocSessions : challenge'[s] # NoneDoc =>
             challenge'[s].nonce \in Nonces /\ began'[challenge'[s].nonce] = s
        BY <1>2, <1>7 DEF NoncesApart
    <2>6. \A d \in DocCalls : docCall'[d] # NoneDoc => docCall'[d].nonce \in Nonces \cup {NoneDoc}
        BY <2>1 DEF NoncesApart
    <2> HIDE DEF n
    <2>7. ASSUME NEW x \in Nonces
          PROVE  /\ wins'[x] <= 1
                 /\ wins'[x] = 1 \/ (\E d \in DocCalls : Carries(d, x)') => began'[x] # NoneDoc /\ ~Challenged(x)'
                 /\ wins'[x] = 1 => \A d \in DocCalls : ~Carries(d, x)'
                 /\ \A d, e \in DocCalls : Carries(d, x)' /\ Carries(e, x)' => d = e
      <3>1. CASE x = n
          BY <3>1, <2>2, <2>3, <1>4, <1>6, <1>7, NoneDocIsNone
      <3>2. CASE x # n
          BY <3>2, <2>2, <2>3, <1>5, <1>7 DEF NoncesApart
      <3> QED BY <3>1, <3>2
    <2> QED BY <2>4, <2>5, <2>6, <2>7, <1>7 DEF NoncesApart
  <1>9. CASE docCall' = [docCall EXCEPT ![c] = req] /\ wins' = wins
    <2>1. \A d \in DocCalls : docCall'[d] = IF d = c THEN req ELSE docCall[d]
        BY <1>9 DEF DocShape
    <2>2. \A d \in DocCalls, x \in Nonces : Carries(d, x)' => (d = c /\ x = n) \/ (d # c /\ Carries(d, x))
        BY <2>1 DEF Carries
    <2>5. \A s \in DocSessions : challenge'[s] # NoneDoc =>
             challenge'[s].nonce \in Nonces /\ began'[challenge'[s].nonce] = s
        BY <1>2, <1>7 DEF NoncesApart
    <2>6. \A d \in DocCalls : docCall'[d] # NoneDoc => docCall'[d].nonce \in Nonces \cup {NoneDoc}
        BY <2>1, <1>3 DEF NoncesApart
    <2> HIDE DEF n
    <2>7. ASSUME NEW x \in Nonces
          PROVE  /\ wins'[x] <= 1
                 /\ wins'[x] = 1 \/ (\E d \in DocCalls : Carries(d, x)') => began'[x] # NoneDoc /\ ~Challenged(x)'
                 /\ wins'[x] = 1 => \A d \in DocCalls : ~Carries(d, x)'
                 /\ \A d, e \in DocCalls : Carries(d, x)' /\ Carries(e, x)' => d = e
      <3>1. CASE x = n
          BY <3>1, <2>2, <1>4, <1>6, <1>7, <1>9, NoneDocIsNone
      <3>2. CASE x # n
          BY <3>2, <2>2, <1>5, <1>7, <1>9 DEF NoncesApart
      <3> QED BY <3>1, <3>2
    <2> QED BY <2>5, <2>6, <2>7, <1>7, <1>9 DEF NoncesApart
  <1> QED BY <1>8, <1>9 DEF Passed, CheckFace, Succeeds

(* A call that is over spends its nonce or loses it.                       *)
LEMMA NoncesFaceStep ==
  ASSUME DocShape, NoncesApart, NEW c \in DocCalls, docCall[c] # NoneDoc, UNCHANGED <<challenge, began>>,
         Fails(c) \/ GoesOn(c) \/ Finishes(c)
  PROVE  NoncesApart'
  <1> DEFINE n == docCall[c].nonce
  <1>1. n \in Nonces \cup {NoneDoc} /\ DOMAIN docCall = DocCalls
        /\ DOMAIN docCall[c] = DocCallFields /\ "nonce" \in DocCallFields
      BY DEF NoncesApart, DocShape, DocCallFields
  <1>2. n # NoneDoc => Carries(c, n) /\ n \in Nonces
      BY <1>1 DEF Carries
  <1>3. \A x \in Nonces : Challenged(x)' <=> Challenged(x)
      BY DEF Challenged
  <1>4. n # NoneDoc => wins[n] = 0
      BY <1>2 DEF NoncesApart
  <1>5. CASE docCall' = [docCall EXCEPT ![c] = NoneDoc] /\ wins' \in {wins, [wins EXCEPT ![n] = @ + 1]}
             /\ (n = NoneDoc => wins' = wins)
    <2>1. \A d \in DocCalls : docCall'[d] = IF d = c THEN NoneDoc ELSE docCall[d]
        BY <1>5, <1>1
    <2>2. \A d \in DocCalls, x \in Nonces : Carries(d, x)' <=> (d # c /\ Carries(d, x))
        BY <2>1 DEF Carries
    <2>3. \A x \in Nonces : wins'[x] = wins[x] \/ (x = n /\ n # NoneDoc /\ wins'[x] = 1)
        BY <1>5, <1>4 DEF NoncesApart
    <2>4. wins' \in [Nonces -> Nat]
        BY <1>5, <1>1 DEF NoncesApart
    <2>5. \A d \in DocCalls : docCall'[d] # NoneDoc => docCall'[d].nonce \in Nonces \cup {NoneDoc}
        BY <2>1 DEF NoncesApart
    <2> HIDE DEF n
    <2>6. ASSUME NEW x \in Nonces
          PROVE  /\ wins'[x] <= 1
                 /\ wins'[x] = 1 \/ (\E d \in DocCalls : Carries(d, x)') => began'[x] # NoneDoc /\ ~Challenged(x)'
                 /\ wins'[x] = 1 => \A d \in DocCalls : ~Carries(d, x)'
                 /\ \A d, e \in DocCalls : Carries(d, x)' /\ Carries(e, x)' => d = e
      <3>1. CASE x = n /\ n # NoneDoc /\ wins'[x] = 1
        <4>1. Carries(c, x)
            BY <3>1, <1>2
        <4>2. \A d \in DocCalls : ~Carries(d, x)'
            BY <4>1, <2>2 DEF NoncesApart
        <4>3. began[x] # NoneDoc /\ ~Challenged(x)
            BY <4>1 DEF NoncesApart
        <4> QED BY <3>1, <4>2, <4>3, <1>3
      <3>2. CASE wins'[x] = wins[x]
          BY <3>2, <2>2, <1>3 DEF NoncesApart
      <3> QED BY <3>1, <3>2, <2>3
    <2> QED BY <2>4, <2>5, <2>6 DEF NoncesApart
  <1>6. ASSUME NEW at, docCall' = [docCall EXCEPT ![c].at = at], wins' = wins
        PROVE  NoncesApart'
    <2>1. \A d \in DocCalls : docCall'[d] = IF d = c THEN [docCall[c] EXCEPT !.at = at] ELSE docCall[d]
        BY <1>6, <1>1
    <2>2. [docCall[c] EXCEPT !.at = at].nonce = n
        BY <1>1
    <2>3. \A d \in DocCalls, x \in Nonces : Carries(d, x)' => Carries(d, x)
        BY <2>1, <2>2 DEF Carries
    <2>4. \A d \in DocCalls : docCall'[d] # NoneDoc => docCall'[d].nonce \in Nonces \cup {NoneDoc}
        BY <2>1, <2>2, <1>1 DEF NoncesApart
    <2> QED BY <2>3, <2>4, <1>3, <1>6 DEF NoncesApart
  <1> QED BY <1>5, <1>6 DEF Fails, GoesOn, Finishes, Succeeds

(* A result that is neither "first" nor "flagged" changes nothing.         *)
LEMMA FirstsPassed ==
  ASSUME DocShape, FirstsApart, NEW c \in DocCalls, NEW req, Passed(c, req)
  PROVE  FirstsApart'
  <1>1. faces' = faces /\ docReviews' = docReviews /\ req.at = "find"
      BY DEF Passed
  <1>2. \/ docCall' = [docCall EXCEPT ![c] = NoneDoc] /\ results' = results \cup {Result(req, "no template")}
        \/ docCall' = [docCall EXCEPT ![c] = req] /\ results' = results
      BY DEF Passed, CheckFace, Succeeds
  <1> DEFINE new == Result(req, "no template")
  <1>9. new.how = "no template"
      BY DEF Result
  <1> HIDE DEF new
  <1>3. results \subseteq results' /\ \A r \in results' \ results : r.how = "no template"
      BY <1>2, <1>9 DEF new
  <1>4. \A d \in DocCalls : docCall'[d] \in {docCall[d], NoneDoc, req}
      BY <1>2 DEF DocShape
  <1>5. \A r \in results' : r.how = "first" \/ r.how = "flagged" => r \in results
      BY <1>3
  <1>6. \A m, face : FirstOf(m, face)' = FirstOf(m, face)
      BY <1>3 DEF FirstOf
  <1>7. SecondDocumentFlagged'
      BY <1>1, <1>5 DEF FirstsApart, SecondDocumentFlagged, DocCase
  <1>8. \A d \in DocCalls : docCall'[d] # NoneDoc /\ docCall'[d].at = "add" =>
          FirstOf(docCall[d].method, docCall[d].face)' = {}
      BY <1>1, <1>4, <1>6 DEF FirstsApart
  <1> QED BY <1>1, <1>5, <1>7, <1>8 DEF FirstsApart

(* Whoever adds a face holds the mutex of its method since it saw the face *)
(* missing, so nobody else of that method is about to add one.             *)
LEMMA FirstsFaceStep ==
  ASSUME DocShape, FirstsApart, NEW c \in DocCalls, docCall[c] # NoneDoc, Alone(c),
         faces \subseteq faces', docReviews \subseteq docReviews',
         Fails(c) \/ GoesOn(c) \/ Finishes(c)
  PROVE  FirstsApart'
  <1>1. DOMAIN docCall = DocCalls /\ DOMAIN docCall[c] = DocCallFields /\ {"at", "method", "face"} \subseteq DocCallFields
      BY DEF DocShape, DocCallFields
  <1>2. \A d \in DocCalls : d # c /\ docCall[d] # NoneDoc /\ docCall[d].at = "add" =>
          docCall[d].method # docCall[c].method
      BY NoneDocIsNone DEF DocShape, Alone
  <1>3. CASE Fails(c)
    <2>1. results' = results /\ \A d \in DocCalls : docCall'[d] \in {docCall[d], NoneDoc}
        BY <1>1, <1>3 DEF Fails
    <2>2. \A m, face : FirstOf(m, face)' = FirstOf(m, face)
        BY <2>1 DEF FirstOf
    <2> QED BY <2>1, <2>2 DEF FirstsApart, SecondDocumentFlagged
  <1>4. CASE GoesOn(c)
    <2>1. PICK at \in {"known", "case", "add"} :
            /\ docCall' = [docCall EXCEPT ![c].at = at]
            /\ at = "add" => docCall[c].face \notin faces
            /\ UNCHANGED <<wins, results, faces>>
        BY <1>4 DEF GoesOn
    <2>2. \A d \in DocCalls : docCall'[d] = IF d = c THEN [docCall[c] EXCEPT !.at = at] ELSE docCall[d]
        BY <2>1, <1>1
    <2>3. /\ [docCall[c] EXCEPT !.at = at].method = docCall[c].method
          /\ [docCall[c] EXCEPT !.at = at].face = docCall[c].face
          /\ [docCall[c] EXCEPT !.at = at].at = at
        BY <1>1
    <2>4. \A m, face : FirstOf(m, face)' = FirstOf(m, face)
        BY <2>1 DEF FirstOf
    <2>5. at = "add" => FirstOf(docCall[c].method, docCall[c].face) = {}
        BY <2>1 DEF FirstOf, FirstsApart
    <2>6. \A d \in DocCalls : docCall'[d] # NoneDoc /\ docCall'[d].at = "add" =>
            FirstOf(docCall'[d].method, docCall'[d].face) = {}
        BY <2>2, <2>3, <2>5 DEF FirstsApart
    <2> QED BY <2>1, <2>4, <2>6 DEF FirstsApart, SecondDocumentFlagged
  <1>5. CASE Finishes(c)
    <2> DEFINE req  == docCall[c]
    <2>1. PICK how \in {"known", "flagged", "first"} :
            /\ Succeeds(c, req, how)
            /\ how = "first" => req.at = "add" /\ req.face \in faces'
            /\ how = "flagged" => DocCase(req) \in docReviews'
        BY <1>5 DEF Finishes
    <2> DEFINE new == Result(req, how)
    <2>2. results' = results \cup {new} /\ docCall' = [docCall EXCEPT ![c] = NoneDoc]
        BY <2>1 DEF Succeeds
    <2>3. new.method = req.method /\ new.face = req.face /\ new.how = how /\ DocCase(new) = DocCase(req)
        BY DEF Result, DocCase
    <2>4. \A d \in DocCalls : docCall'[d] = IF d = c THEN NoneDoc ELSE docCall[d]
        BY <2>2, <1>1
    <2> HIDE DEF new, req
    <2>5. \A r \in results' : r.how = "first" => r.face \in faces'
        BY <2>1, <2>2, <2>3 DEF FirstsApart
    <2>6. how = "first" => FirstOf(req.method, req.face) = {}
        BY <2>1 DEF FirstsApart, req
    <2>7. SecondDocumentFlagged'
      <3>1. ASSUME NEW r \in results', NEW q \in results',
                   r.method = q.method, r.face = q.face, r.id # q.id, r.how = "first", q.how = "first"
            PROVE  FALSE
        <4>1. CASE r \in results /\ q \in results
            BY <3>1, <4>1 DEF FirstsApart, SecondDocumentFlagged
        <4>2. CASE r = new /\ q \in results
            BY <3>1, <4>2, <2>3, <2>6 DEF FirstOf
        <4>3. CASE q = new /\ r \in results
            BY <3>1, <4>3, <2>3, <2>6 DEF FirstOf
        <4>4. CASE r = new /\ q = new
            BY <3>1, <4>4
        <4> QED BY <2>2, <4>1, <4>2, <4>3, <4>4
      <3>2. ASSUME NEW r \in results', r.how = "flagged" PROVE DocCase(r) \in docReviews'
        <4>1. CASE r \in results
            BY <3>2, <4>1 DEF FirstsApart, SecondDocumentFlagged
        <4>2. CASE r = new
            BY <3>2, <4>2, <2>1, <2>3
        <4> QED BY <2>2, <4>1, <4>2
      <3>3. \A r \in results' : DocCase(r)' = DocCase(r)
          BY DEF DocCase
      <3> QED BY <3>1, <3>2, <3>3 DEF SecondDocumentFlagged
    <2>8. ASSUME NEW d \in DocCalls, docCall'[d] # NoneDoc, docCall'[d].at = "add"
          PROVE  FirstOf(docCall[d].method, docCall[d].face)' = {}
      <3>1. d # c /\ docCall'[d] = docCall[d]
          BY <2>8, <2>4
      <3>2. docCall[d].method # req.method
          BY <3>1, <2>8, <1>2 DEF req
      <3>3. FirstOf(docCall[d].method, docCall[d].face) = {}
          BY <3>1, <2>8 DEF FirstsApart
      <3> QED BY <3>1, <3>2, <3>3, <2>2, <2>3 DEF FirstOf
    <2> QED BY <2>5, <2>7, <2>8 DEF FirstsApart
  <1> QED BY <1>3, <1>4, <1>5

LEMMA DocStep ==
  DocShape /\ NoncesApart /\ FirstsApart /\ [DocNext]_docVars => DocShape' /\ NoncesApart' /\ FirstsApart'
  <1> SUFFICES ASSUME DocShape, NoncesApart, FirstsApart, [DocNext]_docVars
               PROVE  DocShape' /\ NoncesApart' /\ FirstsApart'
      OBVIOUS
  <1>1. ASSUME NEW s \in DocSessions, BeginChip(s) PROVE DocShape' /\ NoncesApart' /\ FirstsApart'
    <2>1. PICK n \in Nonces :
            /\ began[n] = NoneDoc /\ began' = [began EXCEPT ![n] = s]
            /\ challenge' = [t \in DocSessions |->
                 IF t = s THEN [nonce |-> n, at |-> time]
                 ELSE IF challenge[t] # NoneDoc /\ time - challenge[t].at > challengeTTL THEN NoneDoc
                 ELSE challenge[t]]
        BY <1>1 DEF BeginChip
    <2>2. UNCHANGED <<docCall, faceMu, faces, docReviews, wins, results>>
        BY <1>1 DEF BeginChip
    <2>3. DocShape'
        BY <2>1, <2>2 DEF DocShape
    <2>4. FirstsApart'
        BY <2>2 DEF FirstsApart, FirstOf, SecondDocumentFlagged
    <2>5. challenge'[s].nonce = n /\ \A t \in DocSessions : t # s => challenge'[t] \in {NoneDoc, challenge[t]}
        BY <2>1
    <2>6. \A x \in Nonces : x # n => began'[x] = began[x] /\ (Challenged(x)' => Challenged(x))
        BY <2>1, <2>5 DEF NoncesApart, Challenged
    <2>7. began'[n] = s /\ began' \in [Nonces -> DocSessions \cup {NoneDoc}] /\ s # NoneDoc
        BY <2>1, NoneDocIsNone DEF NoncesApart
    <2>8. \A t \in DocSessions : challenge[t] # NoneDoc => challenge[t].nonce # n
        BY <2>1, NoneDocIsNone DEF NoncesApart
    <2>9. \A t \in DocSessions : challenge'[t] # NoneDoc =>
            challenge'[t].nonce \in Nonces /\ began'[challenge'[t].nonce] = t
        BY <2>5, <2>6, <2>7, <2>8 DEF NoncesApart
    <2>10. wins[n] # 1 /\ \A c \in DocCalls : ~Carries(c, n)
        BY <2>1 DEF NoncesApart
    <2>11. \A c \in DocCalls, x \in Nonces : Carries(c, x)' <=> Carries(c, x)
        BY <2>2 DEF Carries
    <2>12. NoncesApart'
      <3>1. ASSUME NEW x \in Nonces
            PROVE  /\ wins'[x] <= 1
                   /\ wins'[x] = 1 \/ (\E d \in DocCalls : Carries(d, x)') => began'[x] # NoneDoc /\ ~Challenged(x)'
                   /\ wins'[x] = 1 => \A d \in DocCalls : ~Carries(d, x)'
                   /\ \A d, e \in DocCalls : Carries(d, x)' /\ Carries(e, x)' => d = e
        <4>1. CASE x = n
            BY <4>1, <2>2, <2>10, <2>11 DEF NoncesApart
        <4>2. CASE x # n
            BY <4>2, <2>2, <2>6, <2>11 DEF NoncesApart
        <4> QED BY <4>1, <4>2
      <3> QED BY <3>1, <2>2, <2>7, <2>9 DEF NoncesApart
    <2> QED BY <2>3, <2>4, <2>12
  <1>2. ASSUME NEW c \in DocCalls, NEW s \in DocSessions, CompleteChip(c, s)
        PROVE  DocShape' /\ NoncesApart' /\ FirstsApart'
    <2>1. DOMAIN challenge' = DocSessions
        BY <1>2, ChipPassed DEF DocShape
    <2>2. CASE UNCHANGED <<docCall, wins, results>>
      <3>1. \A t \in DocSessions : challenge'[t] \in {NoneDoc, challenge[t]}
          BY <1>2, ChipPassed DEF DocShape
      <3>2. UNCHANGED <<faceMu, faces, docReviews, began>>
          BY <1>2, ChipPassed
      <3>3. DocShape' /\ FirstsApart'
          BY <2>1, <2>2, <3>2 DEF DocShape, FirstsApart, FirstOf, SecondDocumentFlagged
      <3>4. NoncesApart'
          BY <2>2, <3>1, <3>2 DEF NoncesApart, Challenged, Carries
      <3> QED BY <3>3, <3>4
    <2>3. CASE \E req : Passed(c, req) /\ req.nonce = challenge[s].nonce /\ challenge[s] # NoneDoc
        BY <1>2, <2>1, <2>3, ChipPassed, DocShapePassed, NoncesPassed, FirstsPassed
    <2> QED BY <1>2, <2>2, <2>3, ChipPassed
  <1>3. ASSUME NEW c \in DocCalls, NEW s \in DocSessions, NEW card \in Cards, NEW format,
               CompleteQR(c, s, card, format)
        PROVE  DocShape' /\ NoncesApart' /\ FirstsApart'
    <2>1. PICK req : Passed(c, req) /\ req.nonce = NoneDoc
        BY <1>3, QRPassed
    <2>2. UNCHANGED challenge /\ DOMAIN challenge' = DocSessions
        BY <1>3, QRPassed DEF DocShape
    <2> QED BY <2>1, <2>2, DocShapePassed, NoncesPassed, FirstsPassed
  <1>4. ASSUME NEW c \in DocCalls, FindDuplicate(c) \/ KnownIdentifier(c) \/ AddCase(c) \/ AddFace(c)
        PROVE  DocShape' /\ NoncesApart' /\ FirstsApart'
    <2>1. /\ docCall[c] # NoneDoc /\ Alone(c) /\ UNCHANGED <<challenge, began>>
          /\ faces \subseteq faces' /\ docReviews \subseteq docReviews'
          /\ Fails(c) \/ GoesOn(c) \/ Finishes(c)
        BY <1>4, FaceChecked
    <2> QED BY <2>1, DocShapeFaceStep, NoncesFaceStep, FirstsFaceStep
  <1>5. CASE DocRestart
    <2>1. /\ challenge' = [s \in DocSessions |-> NoneDoc] /\ docCall' = [c \in DocCalls |-> NoneDoc]
          /\ faceMu' = [m \in {"chip", "qr"} |-> NoneDoc]
          /\ UNCHANGED <<faces, docReviews, began, wins, results>>
        BY <1>5 DEF DocRestart
    <2>2. DocShape'
        BY <2>1 DEF DocShape, DocMethods
    <2>3. NoncesApart'
        BY <2>1 DEF NoncesApart, Carries, Challenged
    <2>4. FirstsApart'
        BY <2>1 DEF FirstsApart, FirstOf, SecondDocumentFlagged
    <2> QED BY <2>2, <2>3, <2>4
  <1>6. CASE \/ \E ch \in Chips, n \in Nonces : Tap(ch, n)
             \/ BindDocument \/ DocTick \/ UNCHANGED docVars
    <2>1. UNCHANGED <<challenge, docCall, faceMu, faces, docReviews, began, wins, results>>
        BY <1>6 DEF Tap, BindDocument, DocTick, docVars
    <2> QED BY <2>1 DEF DocShape, NoncesApart, Challenged, Carries, FirstsApart, FirstOf, SecondDocumentFlagged
  <1> QED BY <1>1, <1>2, <1>3, <1>4, <1>5, <1>6 DEF DocNext

(* A call or result names a document that its issuer made: of a chip, the  *)
(* one that was tapped for its session, of a code, what a format verifies. *)
FromChip(id, of, s) ==
  \E ch \in Chips :
    /\ ch.genuine # NoneDoc /\ ch.sod.dg1 = of
    /\ id = ChipIdentifier(ch.genuine, ch.sod.dg1.number)
    /\ ch.key # NoneDoc =>
         \E t \in taps : t.key = ch.key /\ t.nonce \in Nonces /\ began[t.nonce] # NoneDoc /\ began[t.nonce] = s
FromCard(id, of) ==
  \E i \in DOMAIN Formats, card \in Cards :
    FormatVerify(Formats[i], card) /\ id = UniqueKey(Formats[i], card) /\ of = card.fields
Names(method, id, of, s) ==
  (method = "chip" => FromChip(id, of, s)) /\ (method = "qr" => FromCard(id, of))
NamesOne(x) == Names(x.method, x.id, x.of, x.session)

NamesInv ==
  /\ embedded \in DOMAIN MasterLists /\ AddMasterList(MasterLists[embedded])
  /\ \A c \in DocCalls : docCall[c] # NoneDoc => NamesOne(docCall[c])
  /\ \A r \in results : NamesOne(r)

(* Answers of chips and the sessions of nonces stay what they are.         *)
NothingForgotten ==
  /\ embedded' = embedded /\ taps \subseteq taps'
  /\ \A n \in Nonces : began[n] # NoneDoc => began'[n] = began[n]

(* What names the same document in the same way.                           *)
Like(x, y) == x.method = y.method /\ x.id = y.id /\ x.of = y.of /\ x.session = y.session

LEMMA NamesStay ==
  ASSUME NothingForgotten, NEW m, NEW id, NEW of, NEW s, Names(m, id, of, s)
  PROVE  Names(m, id, of, s)'
  <1>1. CASE FromChip(id, of, s)
    <2>1. PICK ch \in Chips :
            /\ ch.genuine # NoneDoc /\ ch.sod.dg1 = of
            /\ id = ChipIdentifier(ch.genuine, ch.sod.dg1.number)
            /\ ch.key # NoneDoc =>
                 \E t \in taps : t.key = ch.key /\ t.nonce \in Nonces /\ began[t.nonce] # NoneDoc /\ began[t.nonce] = s
        BY <1>1, Zenon DEF FromChip
    <2>2. ch.key # NoneDoc =>
            \E t \in taps' : t.key = ch.key /\ t.nonce \in Nonces /\ began'[t.nonce] # NoneDoc /\ began'[t.nonce] = s
        BY <2>1 DEF NothingForgotten
    <2>3. FromChip(id, of, s)'
        BY <2>1, <2>2, Zenon DEF FromChip
    <2> QED BY <2>3 DEF Names, FromCard
  <1>2. CASE ~FromChip(id, of, s)
      BY <1>2 DEF Names, FromCard
  <1> QED BY <1>1, <1>2

LEMMA NamesOneStays ==
  ASSUME NothingForgotten, NEW x, NEW y, NamesOne(x), Like(y, x)
  PROVE  NamesOne(y)'
  <1> QED BY NamesStay DEF NamesOne, Like

LEMMA NamesAllStay ==
  ASSUME NothingForgotten, NamesInv
  PROVE  /\ \A c \in DocCalls : docCall[c] # NoneDoc => \A y : Like(y, docCall[c]) => NamesOne(y)'
         /\ \A r \in results : NamesOne(r)'
  <1>1. ASSUME NEW c \in DocCalls, docCall[c] # NoneDoc, NEW y, Like(y, docCall[c]) PROVE NamesOne(y)'
    <2>1. PICK x : x = docCall[c]
        OBVIOUS
    <2> QED BY <1>1, <2>1, NamesOneStays DEF NamesInv
  <1>2. ASSUME NEW r \in results PROVE NamesOne(r)'
      BY NamesOneStays DEF NamesInv, Like
  <1> QED BY <1>1, <1>2

LEMMA OneEarliest ==
  ASSUME NEW S \in SUBSET Nat, S # {}
  PROVE  Earliest(S) \in S
  <1> DEFINE R == OpToRel(<, Nat)
  <1>1. IsWellFoundedOn(R, Nat)
      BY NatLessThanWellFounded
  <1> HIDE DEF R
  <1>2. PICK m \in S : \A n \in S : <<n, m>> \notin R
      BY <1>1, WFMin
  <1>3. \A n \in S : n < m => <<n, m>> \in R
      BY DEF OpToRel, R
  <1>4. \A n \in S : ~(n < m)
      BY <1>2, <1>3, Zenon
  <1> HIDE DEF R
  <1>5. \A n \in S : m <= n
      BY <1>4
  <1> QED BY <1>5 DEF Earliest

(* What the checks of a chip establish.                                    *)
LEMMA ReadNames ==
  ASSUME NoncesApart, NamesInv, NEW s \in DocSessions, challenge[s] # NoneDoc,
         NEW req, ReadFrom(req, s)
  PROVE  NamesOne(req)
  <1>1. PICK r \in ChipResponses :
          /\ ChipVerifies(r, challenge[s].nonce)
          /\ req.of = r.dg1 /\ req.id = ChipIdentifier(Country(r.sod), r.dg1.number)
      BY DEF ReadFrom
  <1>2. PICK ch \in Chips : r.sod = ch.sod
      BY <1>1 DEF ChipResponses
  <1>3. /\ r.dg1 = ch.sod.dg1 /\ Country(ch.sod) # NoneDoc
        /\ ActiveAuth(r, challenge[s].nonce) /\ r.sig \in taps \cup {NoneDoc}
      BY <1>1, <1>2 DEF ChipVerifies, CheckDataGroup, ChipResponses
  <1> DEFINE certs == MasterLists[embedded].listed \o ExtraCertificates
             dsc   == ch.sod.dsc
             i     == Earliest(Chain(certs, dsc))
  <1>4. /\ Chain(certs, dsc) # {} /\ ch.sod.signedWith = dsc.key
        /\ Country(ch.sod) = IF certs[i].country # NoneDoc THEN certs[i].country ELSE dsc.country
      BY <1>3 DEF Country, Chains, trusted
  <1>5. /\ DOMAIN certs \subseteq Nat
        /\ \A j \in Chain(certs, dsc) :
             /\ ch.genuine = IF certs[j].country # NoneDoc THEN certs[j].country ELSE dsc.country
             /\ ch.sod.dg15 = ch.key
      BY <1>4, StatesSignTheirOwn DEF NamesInv
  <1>6. Chain(certs, dsc) \subseteq DOMAIN certs
      BY DEF Chain, issuersOf
  <1>7. i \in Chain(certs, dsc)
      BY <1>4, <1>5, <1>6, OneEarliest
  <1> HIDE DEF i, certs, dsc
  <1>8. ch.genuine = Country(ch.sod) /\ ch.sod.dg15 = ch.key
      BY <1>4, <1>5, <1>7
  <1>9. challenge[s].nonce \in Nonces /\ began[challenge[s].nonce] = s /\ s # NoneDoc
      BY NoneDocIsNone DEF NoncesApart
  <1>10. ch.key # NoneDoc => r.sig \in taps /\ r.sig = [key |-> ch.key, nonce |-> challenge[s].nonce]
      BY <1>2, <1>3, <1>8 DEF ActiveAuth, CheckDataGroup
  <1>11. ch.key # NoneDoc =>
           \E t \in taps : t.key = ch.key /\ t.nonce \in Nonces /\ began[t.nonce] # NoneDoc /\ began[t.nonce] = s
      BY <1>9, <1>10
  <1>12. req.session = s /\ req.method = "chip" /\ req.of = ch.sod.dg1
         /\ req.id = ChipIdentifier(ch.genuine, ch.sod.dg1.number) /\ ch.genuine # NoneDoc
      BY <1>1, <1>2, <1>3, <1>8 DEF ReadFrom
  <1>13. FromChip(req.id, req.of, req.session)
      BY <1>11, <1>12 DEF FromChip
  <1> QED BY <1>12, <1>13 DEF NamesOne, Names

LEMMA ScannedNames ==
  ASSUME NEW card \in Cards, NEW format, NEW req, Scanned(req, card, format)
  PROVE  NamesOne(req)
  <1> DEFINE i == Earliest(QRVerify(card, format))
  <1>1. QRVerify(card, format) \in SUBSET Nat
      BY FormatsOfOneDocument DEF QRVerify
  <1>2. i \in QRVerify(card, format)
      BY <1>1, OneEarliest DEF Scanned
  <1>3. i \in DOMAIN Formats /\ FormatVerify(Formats[i], card)
      BY <1>2 DEF QRVerify
  <1> QED BY <1>3 DEF Scanned, NamesOne, Names, FromCard

LEMMA NamesPassed ==
  ASSUME DocShape, NamesInv, NothingForgotten, NEW c \in DocCalls, NEW req, Passed(c, req), NamesOne(req)
  PROVE  NamesInv'
  <1>1. \/ docCall' = [docCall EXCEPT ![c] = NoneDoc] /\ results' = results \cup {Result(req, "no template")}
        \/ docCall' = [docCall EXCEPT ![c] = req] /\ results' = results
      BY DEF Passed, CheckFace, Succeeds
  <1>2. \A d \in DocCalls : docCall'[d] \in {docCall[d], NoneDoc, req}
      BY <1>1 DEF DocShape
  <1>3. NamesOne(req)'
      BY NamesOneStays DEF Like
  <1>4. PICK new : new = Result(req, "no template")
      OBVIOUS
  <1>5. NamesOne(new)'
      BY <1>4, NamesOneStays DEF Like, Result
  <1>6. ASSUME NEW r \in results' PROVE NamesOne(r)'
      BY <1>1, <1>4, <1>5, <1>6, NamesAllStay
  <1>7. ASSUME NEW d \in DocCalls, NEW y, y = docCall'[d], y # NoneDoc PROVE NamesOne(y)'
    <2>1. CASE y = req
        BY <2>1, <1>3
    <2>2. CASE y = docCall[d]
        BY <1>7, <2>2, NamesAllStay DEF Like
    <2> QED BY <1>2, <1>7, <2>1, <2>2
  <1> QED BY <1>6, <1>7 DEF NamesInv, NothingForgotten

LEMMA NamesFaceStep ==
  ASSUME DocShape, NamesInv, NothingForgotten, NEW c \in DocCalls, docCall[c] # NoneDoc,
         Fails(c) \/ GoesOn(c) \/ Finishes(c)
  PROVE  NamesInv'
  <1>1. PICK req : req = docCall[c]
      OBVIOUS
  <1>2. DOMAIN docCall = DocCalls /\ DOMAIN req = DocCallFields
        /\ {"id", "of", "method", "session"} \subseteq DocCallFields
      BY <1>1 DEF DocShape, DocCallFields
  <1>3. \A y : Like(y, req) => NamesOne(y)'
      BY <1>1, NamesAllStay
  <1>4. CASE /\ docCall' = [docCall EXCEPT ![c] = NoneDoc]
             /\ results' = results \/ \E how : results' = results \cup {Result(req, how)}
    <2>1. ASSUME NEW r \in results' PROVE NamesOne(r)'
      <3>1. CASE r \in results
          BY <3>1, NamesAllStay
      <3>2. CASE \E how : r = Result(req, how)
          BY <3>2, <1>3 DEF Like, Result
      <3> QED BY <2>1, <3>1, <3>2, <1>4
    <2>2. \A d \in DocCalls : docCall'[d] \in {NoneDoc, docCall[d]}
        BY <1>2, <1>4
    <2>3. ASSUME NEW d \in DocCalls, NEW y, y = docCall'[d], y # NoneDoc PROVE NamesOne(y)'
        BY <2>2, <2>3, NamesAllStay DEF Like
    <2> QED BY <2>1, <2>3 DEF NamesInv, NothingForgotten
  <1>5. ASSUME NEW at, docCall' = [docCall EXCEPT ![c].at = at], results' = results
        PROVE  NamesInv'
    <2>1. PICK moved : moved = [req EXCEPT !.at = at]
        OBVIOUS
    <2>2. \A d \in DocCalls : docCall'[d] = IF d = c THEN moved ELSE docCall[d]
        BY <1>1, <1>2, <1>5, <2>1
    <2>3. Like(moved, req)
        BY <1>2, <2>1 DEF Like
    <2>4. ASSUME NEW d \in DocCalls, NEW y, y = docCall'[d], y # NoneDoc PROVE NamesOne(y)'
      <3>1. CASE d = c
          BY <3>1, <2>2, <2>3, <2>4, <1>3
      <3>2. CASE d # c
          BY <3>2, <2>2, <2>4, NamesAllStay DEF Like
      <3> QED BY <3>1, <3>2
    <2>5. ASSUME NEW r \in results' PROVE NamesOne(r)'
        BY <1>5, <2>5, NamesAllStay
    <2> QED BY <2>4, <2>5 DEF NamesInv, NothingForgotten
  <1> QED BY <1>1, <1>4, <1>5 DEF Fails, GoesOn, Finishes, Succeeds

LEMMA NamesStep ==
  DocShape /\ NoncesApart /\ NamesInv /\ [DocNext]_docVars => NamesInv'
  <1> SUFFICES ASSUME DocShape, NoncesApart, NamesInv, [DocNext]_docVars PROVE NamesInv'
      OBVIOUS
  <1>1. NothingForgotten
    <2>1. CASE \E s \in DocSessions : BeginChip(s)
        BY <2>1 DEF BeginChip, NothingForgotten, NoncesApart
    <2>2. CASE \E ch \in Chips, n \in Nonces : Tap(ch, n)
        BY <2>2 DEF Tap, NothingForgotten
    <2>3. CASE \E c \in DocCalls, s \in DocSessions :
                 \/ CompleteChip(c, s)
                 \/ \E card \in Cards, format \in {NoneDoc} \cup {Formats[i].id : i \in DOMAIN Formats} :
                      CompleteQR(c, s, card, format)
        BY <2>3 DEF CompleteChip, CompleteQR, NothingForgotten
    <2>4. CASE \E c \in DocCalls : FindDuplicate(c) \/ KnownIdentifier(c) \/ AddCase(c) \/ AddFace(c)
        BY <2>4 DEF FindDuplicate, KnownIdentifier, AddCase, AddFace, NothingForgotten
    <2>5. CASE BindDocument \/ DocRestart \/ DocTick \/ UNCHANGED docVars
        BY <2>5 DEF BindDocument, DocRestart, DocTick, docVars, NothingForgotten
    <2> QED BY <2>1, <2>2, <2>3, <2>4, <2>5 DEF DocNext
  <1>2. ASSUME UNCHANGED <<docCall, results>> PROVE NamesInv'
    <2>1. ASSUME NEW c \in DocCalls, NEW y, y = docCall'[c], y # NoneDoc PROVE NamesOne(y)'
        BY <1>1, <1>2, <2>1, NamesAllStay DEF Like
    <2>2. ASSUME NEW r \in results' PROVE NamesOne(r)'
        BY <1>1, <1>2, <2>2, NamesAllStay
    <2> QED BY <1>1, <2>1, <2>2 DEF NamesInv, NothingForgotten
  <1>3. ASSUME NEW c \in DocCalls, NEW s \in DocSessions, CompleteChip(c, s) PROVE NamesInv'
    <2>1. CASE UNCHANGED <<docCall, wins, results>>
        BY <1>2, <2>1
    <2>2. CASE /\ challenge[s] # NoneDoc
               /\ \E req : Passed(c, req) /\ req.nonce = challenge[s].nonce /\ ReadFrom(req, s)
        BY <1>1, <2>2, ReadNames, NamesPassed
    <2> QED BY <1>3, <2>1, <2>2, ChipPassed
  <1>4. ASSUME NEW c \in DocCalls, NEW s \in DocSessions, NEW card \in Cards, NEW format,
               CompleteQR(c, s, card, format)
        PROVE  NamesInv'
    <2>1. PICK req : Passed(c, req) /\ Scanned(req, card, format)
        BY <1>4, QRPassed
    <2> QED BY <1>1, <2>1, ScannedNames, NamesPassed
  <1>5. ASSUME NEW c \in DocCalls, FindDuplicate(c) \/ KnownIdentifier(c) \/ AddCase(c) \/ AddFace(c)
        PROVE  NamesInv'
    <2>1. docCall[c] # NoneDoc /\ (Fails(c) \/ GoesOn(c) \/ Finishes(c))
        BY <1>5, FaceChecked
    <2> QED BY <1>1, <2>1, NamesFaceStep
  <1>6. CASE DocRestart
    <2>1. docCall' = [c \in DocCalls |-> NoneDoc] /\ results' = results
        BY <1>6 DEF DocRestart
    <2>2. ASSUME NEW r \in results' PROVE NamesOne(r)'
        BY <1>1, <2>1, <2>2, NamesAllStay
    <2> QED BY <1>1, <2>1, <2>2 DEF NamesInv, NothingForgotten
  <1>7. CASE \/ \E s \in DocSessions : BeginChip(s)
             \/ \E ch \in Chips, n \in Nonces : Tap(ch, n)
             \/ BindDocument \/ DocTick \/ UNCHANGED docVars
    <2>1. UNCHANGED <<docCall, results>>
        BY <1>7 DEF BeginChip, Tap, BindDocument, DocTick, docVars
    <2> QED BY <1>2, <2>1
  <1> QED BY <1>3, <1>4, <1>5, <1>6, <1>7 DEF DocNext

(* Whatever chips, cards and faces there are, and however completions of   *)
(* the same session and of others interleave, fail and restart: an answer  *)
(* of a chip counts once (challengeStore.take), a chip result stands for a *)
(* document its state issued, on a chip tapped for that session, and the   *)
(* cards of one person give one identifier (VerifySignature, UniqueKey).   *)
THEOREM DocumentIsGenuineHolds == DocSpec => []DocumentIsGenuine
  <1>1. DocInit => NamesInv
      BY DEF DocInit, NamesInv
  <1>2. NoncesApart => OneUsePerTap
      BY DEF NoncesApart, OneUsePerTap
  <1>3. NamesInv => GenuineDocument
    <2> SUFFICES ASSUME NamesInv, NEW r \in results, r.method = "chip"
                 PROVE  \E ch \in Chips :
                          /\ ch.genuine # NoneDoc /\ ch.sod.dg1 = r.of
                          /\ r.id = ChipIdentifier(ch.genuine, ch.sod.dg1.number)
                          /\ ch.key # NoneDoc => \E t \in taps : t.key = ch.key /\ began[t.nonce] = r.session
        BY DEF GenuineDocument
    <2>1. FromChip(r.id, r.of, r.session)
        BY DEF NamesInv, NamesOne, Names
    <2> QED BY <2>1 DEF FromChip
  <1>4. NamesInv => OneIdentityPerCard
    <2> SUFFICES ASSUME NamesInv, NEW r \in results, NEW q \in results, r.method = "qr", q.method = "qr"
                 PROVE  r.id = q.id <=> r.of = q.of
        BY DEF OneIdentityPerCard
    <2>1. FromCard(r.id, r.of) /\ FromCard(q.id, q.of)
        BY DEF NamesInv, NamesOne, Names
    <2>2. PICK i \in DOMAIN Formats, c \in Cards :
            FormatVerify(Formats[i], c) /\ r.id = UniqueKey(Formats[i], c) /\ r.of = c.fields
        BY <2>1 DEF FromCard
    <2>3. PICK j \in DOMAIN Formats, d \in Cards :
            FormatVerify(Formats[j], d) /\ q.id = UniqueKey(Formats[j], d) /\ q.of = d.fields
        BY <2>1 DEF FromCard
    <2>4. r.of = q.of => Formats[i].country = Formats[j].country /\ Formats[i].document = Formats[j].document
        BY <2>2, <2>3, FormatsOfOneDocument
    <2> QED BY <2>2, <2>3, <2>4 DEF UniqueKey
  <1>5. NoncesApart /\ NamesInv => DocumentIsGenuine
      BY <1>2, <1>3, <1>4 DEF DocumentIsGenuine
  <1> QED BY DocInitial, DocStep, <1>1, NamesStep, <1>5, PTL DEF DocSpec

(* A call in flight carries a document that can be read.  The mutex of a   *)
(* method is held by a call of that method that has read the index, and    *)
(* challenges are of the past.                                             *)
RequestsOK == docCall \in [DocCalls -> DocRequests \cup {NoneDoc}]
MutexHeld ==
  \A m \in DocMethods : faceMu[m] # NoneDoc =>
    docCall[faceMu[m]] # NoneDoc /\ docCall[faceMu[m]].method = m /\ docCall[faceMu[m]].at # "find"
ChallengesPast ==
  /\ time \in 0..MaxDocTime
  /\ \A s \in DocSessions : challenge[s] # NoneDoc => challenge[s].at \in Int /\ challenge[s].at <= time
CallsInv == RequestsOK /\ MutexHeld

LEMMA PassedIsRequest ==
  ASSUME NEW c \in DocCalls, NEW req, Passed(c, req), NamesOne(req), req.nonce \in Nonces \cup {NoneDoc}
  PROVE  req \in DocRequests
  <1>1. Complete(req) /\ req.method \in {"chip", "qr"}
      BY DEF Passed, DocMethods
  <1>2. req.id \in DocIdentifiers /\ req.of \in Read
    <2>1. CASE req.method = "chip"
      <3>1. FromChip(req.id, req.of, req.session)
          BY <2>1 DEF NamesOne, Names
      <3> QED BY <3>1 DEF FromChip, DocIdentifiers, Read
    <2>2. CASE req.method = "qr"
      <3>1. FromCard(req.id, req.of)
          BY <2>2 DEF NamesOne, Names
      <3> QED BY <3>1 DEF FromCard, DocIdentifiers, Read
    <2> QED BY <1>1, <2>1, <2>2
  <1>3. [at |-> "find", method |-> req.method, session |-> req.session, nonce |-> req.nonce,
         id |-> req.id, of |-> req.of, face |-> req.face] \in DocRequests
      BY <1>1, <1>2 DEF Complete, FacesSeen, DocRequests
  <1> QED BY <1>1, <1>3 DEF Complete

LEMMA CallsPassed ==
  ASSUME DocShape, CallsInv, NEW c \in DocCalls, NEW req \in DocRequests, Passed(c, req)
  PROVE  CallsInv'
  <1>1. faceMu' = faceMu /\ docCall[c] = NoneDoc
      BY DEF Passed
  <1>2. docCall' \in {[docCall EXCEPT ![c] = NoneDoc], [docCall EXCEPT ![c] = req]}
      BY DEF Passed, CheckFace, Succeeds
  <1>3. RequestsOK'
      BY <1>2 DEF CallsInv, RequestsOK
  <1>4. \A d \in DocCalls : d # c => docCall'[d] = docCall[d]
      BY <1>2 DEF CallsInv, RequestsOK
  <1>5. \A m \in DocMethods : faceMu[m] # NoneDoc => faceMu[m] \in DocCalls /\ faceMu[m] # c
      BY <1>1 DEF CallsInv, MutexHeld, DocShape
  <1> QED BY <1>1, <1>3, <1>4, <1>5 DEF CallsInv, MutexHeld

LEMMA CallsFaceStep ==
  ASSUME DocShape, CallsInv, NEW c \in DocCalls, docCall[c] # NoneDoc,
         Fails(c) \/ GoesOn(c) \/ Finishes(c)
  PROVE  CallsInv'
  <1> DEFINE m == docCall[c].method
  <1>1. m \in DocMethods /\ DOMAIN docCall = DocCalls /\ DOMAIN faceMu = DocMethods
        /\ docCall[c] \in DocRequests
      BY DEF DocShape, CallsInv, RequestsOK
  <1>2. \A x \in DocMethods : x # m /\ faceMu[x] # NoneDoc => faceMu[x] \in DocCalls /\ faceMu[x] # c
      BY DEF CallsInv, MutexHeld, DocShape
  <1>3. CASE faceMu' = [faceMu EXCEPT ![m] = NoneDoc] /\ docCall' = [docCall EXCEPT ![c] = NoneDoc]
    <2>1. /\ \A d \in DocCalls : d # c => docCall'[d] = docCall[d]
          /\ \A x \in DocMethods : faceMu'[x] = IF x = m THEN NoneDoc ELSE faceMu[x]
        BY <1>1, <1>3
    <2>2. RequestsOK'
        BY <1>3 DEF CallsInv, RequestsOK
    <2> HIDE DEF m
    <2> QED BY <1>2, <2>1, <2>2 DEF CallsInv, MutexHeld
  <1>4. ASSUME NEW at \in {"known", "case", "add"},
               docCall' = [docCall EXCEPT ![c].at = at], faceMu' = [faceMu EXCEPT ![m] = c]
        PROVE  CallsInv'
    <2>1. PICK old : old = docCall[c]
        OBVIOUS
    <2>2. PICK new : new = [old EXCEPT !.at = at]
        OBVIOUS
    <2>3. new \in DocRequests /\ new.at = at /\ new.method = m
        BY <1>1, <2>1, <2>2 DEF DocRequests
    <2>4. docCall' = [docCall EXCEPT ![c] = new]
        BY <1>1, <1>4, <2>1, <2>2
    <2>5. /\ docCall'[c] = new /\ \A d \in DocCalls : d # c => docCall'[d] = docCall[d]
          /\ \A x \in DocMethods : faceMu'[x] = IF x = m THEN c ELSE faceMu[x]
        BY <1>1, <1>4, <2>4
    <2>6. RequestsOK'
        BY <2>3, <2>4 DEF CallsInv, RequestsOK
    <2>7. new # NoneDoc /\ new.at # "find"
        BY <2>3, NoneDocIsNoRequest
    <2> HIDE DEF m
    <2> QED BY <1>2, <2>3, <2>5, <2>6, <2>7 DEF CallsInv, MutexHeld
  <1> QED BY <1>3, <1>4 DEF Fails, GoesOn, Finishes, Succeeds

LEMMA CallsStep ==
  DocShape /\ NoncesApart /\ NamesInv /\ CallsInv /\ [DocNext]_docVars => CallsInv'
  <1> SUFFICES ASSUME DocShape, NoncesApart, NamesInv, CallsInv, [DocNext]_docVars PROVE CallsInv'
      OBVIOUS
  <1>1. CASE UNCHANGED <<docCall, faceMu>>
      BY <1>1 DEF CallsInv, RequestsOK, MutexHeld
  <1>2. ASSUME NEW c \in DocCalls, NEW s \in DocSessions, CompleteChip(c, s) PROVE CallsInv'
    <2>1. CASE UNCHANGED <<docCall, wins, results>>
        BY <1>1, <1>2, <2>1, ChipPassed
    <2>2. CASE /\ challenge[s] # NoneDoc
               /\ \E req : Passed(c, req) /\ req.nonce = challenge[s].nonce /\ ReadFrom(req, s)
      <3>1. PICK req : Passed(c, req) /\ req.nonce = challenge[s].nonce /\ ReadFrom(req, s)
          BY <2>2
      <3>2. NamesOne(req) /\ req.nonce \in Nonces
          BY <2>2, <3>1, ReadNames DEF NoncesApart
      <3> QED BY <3>1, <3>2, PassedIsRequest, CallsPassed
    <2> QED BY <1>2, <2>1, <2>2, ChipPassed
  <1>3. ASSUME NEW c \in DocCalls, NEW s \in DocSessions, NEW card \in Cards, NEW format,
               CompleteQR(c, s, card, format)
        PROVE  CallsInv'
    <2>1. PICK req : Passed(c, req) /\ req.nonce = NoneDoc /\ Scanned(req, card, format)
        BY <1>3, QRPassed
    <2> QED BY <2>1, ScannedNames, PassedIsRequest, CallsPassed
  <1>4. ASSUME NEW c \in DocCalls, FindDuplicate(c) \/ KnownIdentifier(c) \/ AddCase(c) \/ AddFace(c)
        PROVE  CallsInv'
      BY <1>4, FaceChecked, CallsFaceStep
  <1>5. CASE DocRestart
      BY <1>5 DEF DocRestart, CallsInv, RequestsOK, MutexHeld, DocMethods
  <1>6. CASE \/ \E s \in DocSessions : BeginChip(s)
             \/ \E ch \in Chips, n \in Nonces : Tap(ch, n)
             \/ BindDocument \/ DocTick \/ UNCHANGED docVars
      BY <1>1, <1>6 DEF BeginChip, Tap, BindDocument, DocTick, docVars
  <1> QED BY <1>2, <1>3, <1>4, <1>5, <1>6 DEF DocNext

LEMMA ChallengesStep ==
  DocShape /\ ChallengesPast /\ [DocNext]_docVars => ChallengesPast'
  <1> SUFFICES ASSUME DocShape, ChallengesPast, [DocNext]_docVars PROVE ChallengesPast'
      OBVIOUS
  <1>1. ASSUME time' = time \/ (time < MaxDocTime /\ time' = time + 1),
               \A s \in DocSessions : challenge'[s] \in {challenge[s], NoneDoc}
        PROVE  ChallengesPast'
      BY <1>1, DocBounds DEF ChallengesPast
  <1>2. ASSUME NEW s \in DocSessions, BeginChip(s) PROVE ChallengesPast'
    <2>1. time' = time /\ \E n \in Nonces : \A t \in DocSessions :
            challenge'[t] \in {challenge[t], NoneDoc, [nonce |-> n, at |-> time]}
        BY <1>2 DEF BeginChip
    <2> QED BY <2>1, DocBounds DEF ChallengesPast
  <1>3. ASSUME NEW c \in DocCalls, NEW s \in DocSessions, CompleteChip(c, s) PROVE ChallengesPast'
    <2>1. challenge' = [challenge EXCEPT ![s] = NoneDoc] /\ time' = time
        BY <1>3 DEF CompleteChip, Take
    <2>2. \A t \in DocSessions : challenge'[t] \in {challenge[t], NoneDoc}
        BY <2>1 DEF DocShape
    <2> QED BY <1>1, <2>1, <2>2
  <1>4. CASE DocRestart
    <2>1. time' = time /\ \A t \in DocSessions : challenge'[t] \in {challenge[t], NoneDoc}
        BY <1>4 DEF DocRestart
    <2> QED BY <1>1, <2>1
  <1>5. CASE \/ \E ch \in Chips, n \in Nonces : Tap(ch, n)
             \/ \E c \in DocCalls, s \in DocSessions, card \in Cards,
                   format \in {NoneDoc} \cup {Formats[i].id : i \in DOMAIN Formats} : CompleteQR(c, s, card, format)
             \/ \E c \in DocCalls : FindDuplicate(c) \/ KnownIdentifier(c) \/ AddCase(c) \/ AddFace(c)
             \/ BindDocument \/ UNCHANGED docVars
    <2>1. UNCHANGED <<challenge, time>>
        BY <1>5 DEF Tap, CompleteQR, FindDuplicate, KnownIdentifier, AddCase, AddFace, BindDocument, docVars
    <2>2. \A t \in DocSessions : challenge'[t] \in {challenge[t], NoneDoc}
        BY <2>1
    <2> QED BY <1>1, <2>1, <2>2
  <1>6. CASE DocTick
    <2>1. time < MaxDocTime /\ time' = time + 1 /\ \A t \in DocSessions : challenge'[t] \in {challenge[t], NoneDoc}
        BY <1>6 DEF DocTick
    <2> QED BY <1>1, <2>1
  <1> QED BY <1>2, <1>3, <1>4, <1>5, <1>6 DEF DocNext

(* The document anchor's variables have their types, and the mutex of a    *)
(* method, when it is held, is held by a call in flight that has read the  *)
(* face index: no refusal, store error or restart leaves it taken          *)
(* (checkFace, faceMu).                                                    *)
THEOREM DocTypes == DocSpec => []DocTypeOK
  <1>1. DocInit => NamesInv /\ CallsInv /\ ChallengesPast
      BY DocBounds DEF DocInit, NamesInv, CallsInv, RequestsOK, MutexHeld, ChallengesPast, DocMethods
  <1>2. NoncesApart /\ CallsInv /\ ChallengesPast => DocTypeOK
      BY DEF NoncesApart, CallsInv, RequestsOK, MutexHeld, ChallengesPast, DocTypeOK, DocMethods
  <1> QED BY DocInitial, DocStep, NamesStep, CallsStep, ChallengesStep, <1>1, <1>2, PTL DEF DocSpec

(* Of two unknown documents with one face, presented to one method, one is *)
(* flagged, and what is flagged is in the queue (checkFace, faceMu).       *)
THEOREM SecondDocumentFlaggedHolds == DocSpec => []SecondDocumentFlagged
  <1>1. FirstsApart => SecondDocumentFlagged
      BY DEF FirstsApart
  <1> QED BY DocInitial, DocStep, <1>1, PTL DEF DocSpec

-----------------------------------------------------------------------------
(* Induction, and what a sum over a finite set (MapThenSumSet) amounts to. *)

(* A set of natural numbers that is not empty has a least member.          *)
LEMMA LeastNatural ==
  ASSUME NEW S \in SUBSET Nat, S # {}
  PROVE  \E m \in S : \A n \in S : m <= n
<1> DEFINE R == OpToRel(<, Nat)
<1>1. IsWellFoundedOn(R, Nat)
  BY NatLessThanWellFounded
<1> HIDE DEF R
<1>2. PICK m \in S : \A n \in S : <<n, m>> \notin R
  BY <1>1, WFMin
<1>3. \A n \in S : n < m => <<n, m>> \in R
  BY DEF OpToRel, R
<1>4. \A n \in S : ~ (n < m)
  BY <1>2, <1>3, Zenon
<1> HIDE DEF R
<1> QED BY <1>4

(* What holds of 0, and of n + 1 if of n, holds of every natural number.   *)
LEMMA SetInduction ==
  ASSUME NEW S, 0 \in S, \A n \in Nat : n \in S => n + 1 \in S
  PROVE  Nat \subseteq S
<1> SUFFICES ASSUME Nat \ S # {} PROVE FALSE
  OBVIOUS
<1>1. PICK m \in Nat \ S : \A n \in Nat \ S : m <= n
  BY LeastNatural
<1>2. m - 1 \in Nat /\ m - 1 \notin Nat \ S
  BY <1>1
<1> QED BY <1>1, <1>2

(* g is what the sum of f over each subset of A in D is computed as.       *)
One(s) == CHOOSE x \in s : TRUE
Sums(g, f, D) ==
  g = [s \in D |-> IF s = {} THEN 0 ELSE f[One(s)] + g[s \ {One(s)}]]
Small(A, n) == {s \in SUBSET A : Cardinality(s) <= n}

(* A set without one of its members is smaller by one.                     *)
LEMMA WithoutOne ==
  ASSUME NEW A, IsFiniteSet(A), NEW s \in SUBSET A, s # {}
  PROVE  /\ One(s) \in s /\ IsFiniteSet(s) /\ s \ {One(s)} \in SUBSET A
         /\ Cardinality(s) \in Nat /\ Cardinality(s \ {One(s)}) = Cardinality(s) - 1
         /\ Cardinality(s \ {One(s)}) \in Nat
  <1>1. One(s) \in s
      BY DEF One
  <1>2. IsFiniteSet(s)
      BY FS_Subset
  <1> QED BY <1>1, <1>2, FS_CardinalityType, FS_RemoveElement

LEMMA NoneIsEmpty ==
  ASSUME NEW A, IsFiniteSet(A), NEW s \in Small(A, 0)
  PROVE  s = {}
  <1>1. s \in SUBSET A /\ Cardinality(s) <= 0
      BY DEF Small
  <1>2. ASSUME s # {} PROVE FALSE
    <2>1. Cardinality(s) \in Nat /\ Cardinality(s) - 1 \in Nat
        BY <1>1, <1>2, WithoutOne
    <2> QED BY <1>1, <2>1
  <1> QED BY <1>2

(* The function by which sums are computed exists.                         *)
LEMMA SumsExist ==
  ASSUME NEW A, IsFiniteSet(A), NEW f
  PROVE  \A n \in Nat : \E g : Sums(g, f, Small(A, n))
  <1> DEFINE S == {n \in Nat : \E g : Sums(g, f, Small(A, n))}
  <1>1. 0 \in S
    <2> DEFINE g == [s \in Small(A, 0) |-> 0]
    <2>1. \A s \in Small(A, 0) : s = {}
        BY NoneIsEmpty
    <2>2. g = [s \in Small(A, 0) |-> IF s = {} THEN 0 ELSE f[One(s)] + g[s \ {One(s)}]]
        BY <2>1
    <2> HIDE DEF g
    <2>3. Sums(g, f, Small(A, 0))
        BY <2>2 DEF Sums
    <2> QED BY <2>3
  <1>2. ASSUME NEW n \in Nat, n \in S PROVE n + 1 \in S
    <2>1. PICK g : Sums(g, f, Small(A, n))
        BY <1>2
    <2> DEFINE h == [s \in Small(A, n + 1) |-> IF s = {} THEN 0 ELSE f[One(s)] + g[s \ {One(s)}]]
    <2>2. \A s \in Small(A, n) : g[s] = IF s = {} THEN 0 ELSE f[One(s)] + g[s \ {One(s)}]
        BY <2>1 DEF Sums
    <2>3. \A s \in Small(A, n) : s \in Small(A, n + 1)
      <3> SUFFICES ASSUME NEW s \in Small(A, n) PROVE s \in Small(A, n + 1)
          OBVIOUS
      <3>1. s \in SUBSET A /\ Cardinality(s) <= n /\ Cardinality(s) \in Nat
          BY FS_Subset, FS_CardinalityType DEF Small
      <3> QED BY <3>1 DEF Small
    <2>4. \A s \in Small(A, n) : h[s] = g[s]
        BY <2>2, <2>3
    <2>5. \A s \in Small(A, n + 1) : s # {} => s \ {One(s)} \in Small(A, n)
        BY WithoutOne DEF Small
    <2>6. \A s \in Small(A, n + 1) : h[s] = IF s = {} THEN 0 ELSE f[One(s)] + h[s \ {One(s)}]
        BY <2>4, <2>5
    <2>7. h = [s \in Small(A, n + 1) |-> h[s]]
        OBVIOUS
    <2> HIDE DEF h
    <2>8. h = [s \in Small(A, n + 1) |-> IF s = {} THEN 0 ELSE f[One(s)] + h[s \ {One(s)}]]
        BY <2>6, <2>7
    <2>9. Sums(h, f, Small(A, n + 1))
        BY <2>8 DEF Sums
    <2> QED BY <2>9
  <1> HIDE DEF S
  <1>3. Nat \subseteq S
      BY <1>1, <1>2, SetInduction
  <1> QED BY <1>3 DEF S

LEMMA AllAreSmall ==
  ASSUME NEW A, IsFiniteSet(A)
  PROVE  Small(A, Cardinality(A)) = SUBSET A
  BY FS_Subset, FS_CardinalityType DEF Small

SumOf(f, A) == MapThenSumSet(LAMBDA v : f[v], A)

(* The sum is the value of that function for the whole set.                *)
LEMMA SumIsLast ==
  ASSUME NEW A, IsFiniteSet(A), NEW f
  PROVE  \E g : Sums(g, f, SUBSET A) /\ SumOf(f, A) = g[A]
  <1> DEFINE g == CHOOSE h : h = [s \in SUBSET A |->
                    IF s = {} THEN 0 ELSE f[CHOOSE x \in s : TRUE] + h[s \ {CHOOSE x \in s : TRUE}]]
  <1>1. SumOf(f, A) = g[A]
      BY DEF SumOf, MapThenSumSet, MapThenFoldSet
  <1>2. \E h : Sums(h, f, SUBSET A)
    <2>1. Cardinality(A) \in Nat
        BY FS_CardinalityType
    <2>2. \E h : Sums(h, f, Small(A, Cardinality(A)))
        BY <2>1, SumsExist
    <2>3. Small(A, Cardinality(A)) = SUBSET A
        BY AllAreSmall
    <2> QED BY <2>2, <2>3
  <1>3. \E h : h = [s \in SUBSET A |->
                  IF s = {} THEN 0 ELSE f[CHOOSE x \in s : TRUE] + h[s \ {CHOOSE x \in s : TRUE}]]
      BY <1>2, Zenon DEF Sums, One
  <1>4. Sums(g, f, SUBSET A)
      BY <1>3, Zenon DEF Sums, One
  <1> HIDE DEF g
  <1> QED BY <1>1, <1>4

(* A sum of n weights of at most F is at most n times F.                   *)
LEMMA SumIsBounded ==
  ASSUME NEW A, IsFiniteSet(A), NEW F \in Nat, NEW f, \A x \in A : f[x] \in 0..F
  PROVE  SumOf(f, A) \in 0..(Cardinality(A) * F)
  <1>1. PICK g : Sums(g, f, SUBSET A) /\ SumOf(f, A) = g[A]
      BY SumIsLast
  <1> DEFINE S == {n \in Nat : \A s \in Small(A, n) : g[s] \in 0..(Cardinality(s) * F)}
  <1>2. \A s \in SUBSET A : g[s] = IF s = {} THEN 0 ELSE f[One(s)] + g[s \ {One(s)}]
      BY <1>1 DEF Sums
  <1>3. g[{}] \in 0..(Cardinality({}) * F)
    <2>1. Cardinality({}) * F = 0
        BY FS_EmptySet
    <2>2. g[{}] = 0
        BY <1>2
    <2> QED BY <2>1, <2>2
  <1>4. 0 \in S
    <2> SUFFICES ASSUME NEW s \in Small(A, 0) PROVE g[s] \in 0..(Cardinality(s) * F)
        OBVIOUS
    <2>1. s = {}
        BY NoneIsEmpty
    <2> QED BY <2>1, <1>3
  <1>5. ASSUME NEW n \in Nat, n \in S PROVE n + 1 \in S
    <2> SUFFICES ASSUME NEW s \in Small(A, n + 1) PROVE g[s] \in 0..(Cardinality(s) * F)
        OBVIOUS
    <2>1. s \in SUBSET A /\ Cardinality(s) <= n + 1
        BY DEF Small
    <2>2. CASE s = {}
        BY <2>2, <1>3
    <2>3. CASE s # {}
      <3> DEFINE r == s \ {One(s)}
                 k == Cardinality(r)
      <3>1. One(s) \in A /\ r \in Small(A, n) /\ k \in Nat /\ Cardinality(s) = k + 1
          BY <2>1, <2>3, WithoutOne DEF Small
      <3>2. g[r] \in 0..(k * F) /\ f[One(s)] \in 0..F
          BY <3>1, <1>5
      <3>3. g[s] = f[One(s)] + g[r]
          BY <2>1, <2>3, <1>2
      <3> HIDE DEF r, k
      <3>4. (k + 1) * F = k * F + F /\ k * F \in Nat
          BY <3>1
      <3> QED BY <3>1, <3>2, <3>3, <3>4
    <2> QED BY <2>2, <2>3
  <1> HIDE DEF S
  <1>6. Nat \subseteq S
      BY <1>4, <1>5, SetInduction
  <1>7. Cardinality(A) \in Nat /\ A \in Small(A, Cardinality(A))
      BY AllAreSmall, FS_CardinalityType
  <1> QED BY <1>1, <1>6, <1>7 DEF S

-----------------------------------------------------------------------------
(* The vouching graph (SocialGraph).                                       *)

(* Those who may vouch: the seeds, the anchored holders, and whoever was   *)
(* ever admitted.  A member removed meanwhile stays among them: a call     *)
(* that read it before may still write.                                    *)
Admitted == {joined[n] : n \in DOMAIN joined}
Rooted == Seeds \cup Anchored \cup Admitted

(* What the calls have read; those who may vouch only grow in number.      *)
AdjustCall == [op : {"adjust"}, lower : BOOLEAN, vouchers : SUBSET Ids]
RecordFields == {"op", "inPerson", "voucher", "candidate", "weight"}
RecordIs(req, in) ==
  /\ DOMAIN req = RecordFields
  /\ req.candidate \in Candidates /\ req.voucher \in (in \cap Ids) \ {req.candidate}
  /\ req.weight # NoTrust
EnrollIs(req, in) ==
  /\ req.id \in Candidates /\ req.id \notin req.backers /\ req.backers \subseteq in
  /\ Cardinality(req.backers) >= RequiredVouches
StrikeIs(req) ==
  /\ req = [op |-> req.op, candidate |-> req.candidate, vouchers |-> req.vouchers]
  /\ req.candidate \in Candidates /\ req.vouchers \subseteq Ids
WriteIs(req, in) == req.id \in in \cap Ids /\ req.rest \in AdjustCall
CallIs(req, in) ==
  \/ req.op = "record" /\ RecordIs(req, in)
  \/ req.op = "enroll" /\ EnrollIs(req, in)
  \/ req.op \in {"strike", "remove"} /\ StrikeIs(req)
  \/ req.op = "write" /\ WriteIs(req, in)
  \/ req \in AdjustCall

SocialShape ==
  /\ DOMAIN trust = Ids
  /\ DOMAIN vouches = Candidates /\ \A c \in Candidates : DOMAIN vouches[c] = Vouchers
  /\ DOMAIN socialCall = SocialCalls /\ joined \in Seq(Candidates)
  /\ DOMAIN firstBackers = Candidates /\ DOMAIN lastBackers = Candidates
  /\ met \in [Candidates -> SUBSET Ids]
  /\ DOMAIN struck = Candidates /\ \A c \in Candidates : struck[c] # NoTrust => struck[c] \subseteq Ids
  /\ \A k \in SocialCalls : socialCall[k] # NoTrust => CallIs(socialCall[k], Rooted)

(* Trust, and the right to vouch, come from an admission.                  *)
AdmittedSoundly(c) ==
  /\ Cardinality(lastBackers[c]) >= RequiredVouches /\ c \notin lastBackers[c]
  /\ \E n \in DOMAIN joined :
       /\ joined[n] = c
       /\ firstBackers[c] \subseteq Seeds \cup Anchored \cup {joined[m] : m \in 1..(n - 1)}
RootInv ==
  /\ \A i \in Ids : trust[i] # NoTrust => i \in Rooted
  /\ \A c \in Candidates : VouchesFor(c) \subseteq Rooted \ {c}
  /\ \A c \in Admitted : AdmittedSoundly(c)

(* Whoever is being written has its backers on record, too.                *)
Informed(req) ==
  /\ req.op = "enroll" /\ req.id \notin overlapped => req.backers \subseteq VouchesFor(req.id)
  /\ req.op = "write" /\ req.id \in Candidates \ (Seeds \cup overlapped) =>
       lastBackers[req.id] \subseteq VouchesFor(req.id)
BackersInv ==
  /\ BackersAnswer
  /\ \A k \in SocialCalls : socialCall[k] # NoTrust => Informed(socialCall[k])

LEMMA SocialInitial == SocialInit => SocialShape /\ RootInv /\ BackersInv
  <1> SUFFICES ASSUME SocialInit PROVE SocialShape /\ RootInv /\ BackersInv
      OBVIOUS
  <1> USE DEF SocialInit
  <1>1. joined \in Seq(Candidates) /\ Admitted = {}
      BY DEF Admitted
  <1>2. SocialShape
      BY <1>1 DEF SocialShape, Vouchers
  <1>3. \A c \in Candidates : VouchesFor(c) = {}
      BY DEF VouchesFor
  <1>4. RootInv
      BY <1>1, <1>3 DEF RootInv, Rooted
  <1>5. BackersInv
      BY DEF BackersInv, BackersAnswer, Ids
  <1> QED BY <1>2, <1>4, <1>5

LEMMA CallStays ==
  ASSUME NEW req, NEW A, NEW B, A \subseteq B, CallIs(req, A)
  PROVE  CallIs(req, B)
  BY DEF CallIs, RecordIs, EnrollIs, WriteIs

(* What a call is, by what it does next.                                   *)
LEMMA CallKinds ==
  ASSUME NEW req, NEW in, CallIs(req, in)
  PROVE  /\ req.op = "record" => RecordIs(req, in)
         /\ req.op = "enroll" => EnrollIs(req, in)
         /\ req.op \in {"strike", "remove"} => StrikeIs(req)
         /\ req.op = "write" => WriteIs(req, in)
         /\ req.op = "adjust" => req \in AdjustCall
  BY DEF CallIs, AdjustCall

(* A step that only moves one call on, to something it may read now.       *)
Reads(k, req) ==
  /\ socialCall' = [socialCall EXCEPT ![k] = req]
  /\ UNCHANGED <<trust, vouches, joined, firstBackers, lastBackers, overlapped>>

LEMMA ReadsStep ==
  ASSUME SocialShape, RootInv, BackersInv, NEW k \in SocialCalls, NEW req, Reads(k, req),
         req = NoTrust \/ (CallIs(req, Rooted) /\ Informed(req)),
         met' \in [Candidates -> SUBSET Ids],
         DOMAIN struck' = Candidates /\ \A c \in Candidates : struck'[c] # NoTrust => struck'[c] \subseteq Ids
  PROVE  SocialShape' /\ RootInv' /\ BackersInv'
  <1>1. /\ socialCall' = [socialCall EXCEPT ![k] = req]
        /\ UNCHANGED <<trust, vouches, joined, firstBackers, lastBackers, overlapped>>
      BY DEF Reads
  <1>2. \A j \in SocialCalls : socialCall'[j] = IF j = k THEN req ELSE socialCall[j]
      BY <1>1 DEF SocialShape
  <1>3. Rooted' = Rooted /\ Admitted' = Admitted
      BY <1>1 DEF Rooted, Admitted
  <1>4. \A c \in Candidates : VouchesFor(c)' = VouchesFor(c)
      BY <1>1 DEF VouchesFor
  <1>5. SocialShape'
      BY <1>1, <1>2, <1>3 DEF SocialShape
  <1>6. RootInv'
      BY <1>1, <1>3, <1>4 DEF RootInv, AdmittedSoundly, Admitted, SocialShape
  <1>7. BackersAnswer'
      BY <1>1, <1>4 DEF BackersInv, BackersAnswer
  <1>8. \A j \in SocialCalls : socialCall'[j] # NoTrust => Informed(socialCall[j])'
    <2>1. ASSUME NEW j \in SocialCalls, socialCall'[j] # NoTrust PROVE Informed(socialCall'[j])
        BY <2>1, <1>2 DEF BackersInv
    <2>2. \A c : VouchesFor(c)' = VouchesFor(c)
        BY <1>1 DEF VouchesFor
    <2> QED BY <2>1, <2>2, <1>1 DEF Informed
  <1> QED BY <1>5, <1>6, <1>7, <1>8 DEF BackersInv

LEMMA HalvedIsWeight ==
  \A v \in Vouchers : Full \div 2^Strikes(v) # NoTrust /\ Full \div 2^Strikes(v) \in 0..Full
  <1> SUFFICES ASSUME NEW v \in Vouchers
               PROVE  Full \div 2^Strikes(v) # NoTrust /\ Full \div 2^Strikes(v) \in 0..Full
      OBVIOUS
  <1> DEFINE S == {c \in Candidates : struck[c] # NoTrust /\ v \in struck[c]}
  <1>1. Cardinality(S) \in 0..Cardinality(Candidates)
      BY NoTrustIsNoWeight, FS_Subset, FS_CardinalityType
  <1>2. Strikes(v) \in 0..Cardinality(Candidates)
      BY <1>1 DEF Strikes
  <1> HIDE DEF S
  <1> QED BY <1>2, NoTrustIsNoWeight

(* A vouch is read from someone who may vouch, and weighs something.       *)
LEMMA VouchStep ==
  ASSUME SocialShape, RootInv, BackersInv,
         NEW k \in SocialCalls, NEW v \in Vouchers, NEW c \in Candidates,
         VouchReads(k, v, c) \/ OfferReads(k, v, c)
  PROVE  SocialShape' /\ RootInv' /\ BackersInv'
  <1>1. ASSUME NEW w, NEW inPerson, w # NoTrust, v \in Rooted, v # c,
               Reads(k, [op |-> "record", inPerson |-> inPerson, voucher |-> v, candidate |-> c, weight |-> w]),
               UNCHANGED <<met, struck>>
        PROVE  SocialShape' /\ RootInv' /\ BackersInv'
    <2> DEFINE req  == [op |-> "record", inPerson |-> inPerson, voucher |-> v, candidate |-> c, weight |-> w]
    <2>1. CallIs(req, Rooted) /\ Informed(req)
        BY <1>1 DEF CallIs, RecordIs, RecordFields, Informed, Vouchers
    <2> HIDE DEF req
    <2>2. Reads(k, req)
        BY <1>1 DEF req
    <2> QED BY <2>1, <2>2, <1>1, ReadsStep DEF SocialShape
  <1>2. UNCHANGED <<trust, vouches, joined, firstBackers, lastBackers, overlapped, met, struck>>
      BY DEF VouchReads, OfferReads
  <1>3. CASE VouchReads(k, v, c)
    <2>1. trust[v] # NoTrust /\ v # c
        BY <1>3 DEF VouchReads, KnownVoucher
    <2>2. v \in Rooted /\ Parts(trust[v]) # NoTrust
        BY <2>1 DEF RootInv, Vouchers, Parts
    <2>3. Reads(k, [op |-> "record", inPerson |-> FALSE, voucher |-> v, candidate |-> c, weight |-> Parts(trust[v])])
        BY <1>2, <1>3 DEF VouchReads, Arrives, Reads
    <2> QED BY <2>1, <2>2, <2>3, <1>1, <1>2
  <1>4. CASE OfferReads(k, v, c)
    <2> DEFINE w == IF v \in Anchored THEN Full \div 2^Strikes(v) ELSE trust[v]
    <2>1. v # c /\ (v \notin Anchored => trust[v] # NoTrust)
        BY <1>4 DEF OfferReads
    <2>2. v \in Rooted
        BY <2>1 DEF RootInv, Rooted, Vouchers
    <2>3. w # NoTrust
        BY <2>1, HalvedIsWeight
    <2>4. Reads(k, [op |-> "record", inPerson |-> TRUE, voucher |-> v, candidate |-> c, weight |-> w])
        BY <1>2, <1>4 DEF OfferReads, Arrives, Reads
    <2> HIDE DEF w
    <2> QED BY <2>1, <2>2, <2>3, <2>4, <1>1, <1>2
  <1> QED BY <1>3, <1>4

(* The other steps that read, or end a call.                               *)
LEMMA CommitVouchStep ==
  ASSUME SocialShape, RootInv, BackersInv, NEW k \in SocialCalls, CommitVouch(k)
  PROVE  SocialShape' /\ RootInv' /\ BackersInv'
  <1> DEFINE req  == socialCall[k]
             next == [req EXCEPT !.inPerson = FALSE]
  <1>1. req.op = "record" /\ CallIs(req, Rooted)
      BY DEF CommitVouch, At, SocialShape
  <1>2. RecordIs(req, Rooted)
      BY <1>1, CallKinds
  <1>3. UNCHANGED <<trust, vouches, struck, joined, firstBackers, lastBackers, overlapped>>
      BY DEF CommitVouch
  <1>4. \/ Reads(k, NoTrust) /\ UNCHANGED met
        \/ Reads(k, next) /\ met' = [met EXCEPT ![req.candidate] = @ \cup {req.voucher}]
      BY DEF CommitVouch, Becomes, Reads
  <1>5. /\ DOMAIN next = RecordFields /\ next.op = "record" /\ next.voucher = req.voucher
        /\ next.candidate = req.candidate /\ next.weight = req.weight
      BY <1>1, <1>2 DEF RecordIs, RecordFields
  <1> HIDE DEF next
  <1>6. CallIs(next, Rooted) /\ Informed(next)
      BY <1>2, <1>5 DEF CallIs, RecordIs, Informed
  <1>7. met' \in [Candidates -> SUBSET Ids]
      BY <1>2, <1>4 DEF SocialShape, RecordIs
  <1> HIDE DEF req
  <1> QED BY <1>3, <1>4, <1>6, <1>7, ReadsStep DEF SocialShape

LEMMA CompleteReadsStep ==
  ASSUME SocialShape, RootInv, BackersInv, NEW k \in SocialCalls, NEW c \in Candidates, CompleteReads(k, c)
  PROVE  SocialShape' /\ RootInv' /\ BackersInv'
  <1> DEFINE req  == [op |-> "enroll", id |-> c, trust |-> CandidateTrust(c), backers |-> VouchesFor(c)]
  <1>1. UNCHANGED <<trust, vouches, met, struck, joined, firstBackers, lastBackers, overlapped>> /\ Reads(k, req)
      BY DEF CompleteReads, Arrives, Reads
  <1>2. VouchesFor(c) \subseteq Rooted \ {c} /\ Cardinality(VouchesFor(c)) >= RequiredVouches
      BY DEF CompleteReads, EnoughVouches, RootInv
  <1>3. CallIs(req, Rooted) /\ Informed(req)
      BY <1>2 DEF CallIs, EnrollIs, Informed
  <1> HIDE DEF req
  <1> QED BY <1>1, <1>3, ReadsStep DEF SocialShape

LEMMA PenalizeReadsStep ==
  ASSUME SocialShape, RootInv, BackersInv, NEW k \in SocialCalls, NEW c \in Candidates, PenalizeReads(k, c)
  PROVE  SocialShape' /\ RootInv' /\ BackersInv'
  <1> DEFINE req  == [op |-> "strike", candidate |-> c, vouchers |-> met[c] \cup VouchesFor(c)]
  <1>1. UNCHANGED <<trust, vouches, met, struck, joined, firstBackers, lastBackers, overlapped>> /\ Reads(k, req)
      BY DEF PenalizeReads, Arrives, Reads
  <1>2. met[c] \cup VouchesFor(c) \subseteq Ids
      BY DEF SocialShape, VouchesFor, Vouchers
  <1>3. CallIs(req, Rooted) /\ Informed(req)
      BY <1>2 DEF CallIs, StrikeIs, Informed
  <1> HIDE DEF req
  <1> QED BY <1>1, <1>3, ReadsStep DEF SocialShape

LEMMA StrikeStep ==
  ASSUME SocialShape, RootInv, BackersInv, NEW k \in SocialCalls, Strike(k)
  PROVE  SocialShape' /\ RootInv' /\ BackersInv'
  <1> DEFINE req  == socialCall[k]
             next == [req EXCEPT !.op = "remove"]
             made == [op |-> "remove", candidate |-> req.candidate, vouchers |-> req.vouchers]
  <1>1. req.op = "strike" /\ CallIs(req, Rooted)
      BY DEF Strike, At, SocialShape
  <1>2. StrikeIs(req)
      BY <1>1, CallKinds
  <1>3. UNCHANGED <<trust, vouches, met, joined, firstBackers, lastBackers, overlapped>>
      BY DEF Strike
  <1>4. \/ Reads(k, NoTrust) /\ UNCHANGED struck
        \/ Reads(k, next) /\ struck' = [struck EXCEPT ![req.candidate] = req.vouchers]
      BY DEF Strike, Becomes, Reads
  <1>5. next = made
      BY <1>2 DEF StrikeIs
  <1>6. CallIs(made, Rooted) /\ Informed(made)
      BY <1>2 DEF CallIs, StrikeIs, Informed
  <1>7. DOMAIN struck' = Candidates /\ \A c \in Candidates : struck'[c] # NoTrust => struck'[c] \subseteq Ids
      BY <1>2, <1>4 DEF SocialShape, StrikeIs
  <1> HIDE DEF req, next, made
  <1> QED BY <1>3, <1>4, <1>5, <1>6, <1>7, ReadsStep DEF SocialShape

LEMMA ReinstateReadsStep ==
  ASSUME SocialShape, RootInv, BackersInv, NEW k \in SocialCalls, NEW c \in Candidates, ReinstateReads(k, c)
  PROVE  SocialShape' /\ RootInv' /\ BackersInv'
  <1> DEFINE req  == [op |-> "adjust", lower |-> FALSE, vouchers |-> struck[c]]
  <1>1. /\ UNCHANGED <<trust, vouches, met, joined, firstBackers, lastBackers, overlapped>> /\ Reads(k, req)
        /\ struck' = [struck EXCEPT ![c] = NoTrust] /\ struck[c] # NoTrust
      BY DEF ReinstateReads, Arrives, Reads, Revoked
  <1>2. req \in AdjustCall
      BY <1>1 DEF AdjustCall, SocialShape
  <1>3. CallIs(req, Rooted) /\ Informed(req)
      BY <1>2 DEF CallIs, Informed
  <1>4. DOMAIN struck' = Candidates /\ \A d \in Candidates : struck'[d] # NoTrust => struck'[d] \subseteq Ids
      BY <1>1 DEF SocialShape
  <1> HIDE DEF req
  <1> QED BY <1>1, <1>3, <1>4, ReadsStep DEF SocialShape

(* A voucher whose trust is adjusted is a member, so it has its backers.   *)
LEMMA AdjustReadsStep ==
  ASSUME SocialShape, RootInv, BackersInv, NEW k \in SocialCalls, AdjustReads(k)
  PROVE  SocialShape' /\ RootInv' /\ BackersInv'
  <1> DEFINE req  == socialCall[k]
  <1>1. req.op = "adjust" /\ CallIs(req, Rooted)
      BY DEF AdjustReads, At, SocialShape
  <1>2. req \in AdjustCall
      BY <1>1, CallKinds
  <1>3. UNCHANGED <<trust, vouches, met, struck, joined, firstBackers, lastBackers, overlapped>>
      BY DEF AdjustReads
  <1>4. CASE Reads(k, NoTrust)
      BY <1>3, <1>4, ReadsStep DEF SocialShape
  <1>5. CASE \E v \in req.vouchers :
               Reads(k, IF trust[v] = NoTrust THEN [req EXCEPT !.vouchers = @ \ {v}]
                        ELSE [op |-> "write", id |-> v, rest |-> [req EXCEPT !.vouchers = @ \ {v}],
                              trust |-> IF req.lower THEN trust[v] \div 2 ELSE Restored(trust[v])])
    <2>1. PICK v \in req.vouchers :
               Reads(k, IF trust[v] = NoTrust THEN [req EXCEPT !.vouchers = @ \ {v}]
                        ELSE [op |-> "write", id |-> v, rest |-> [req EXCEPT !.vouchers = @ \ {v}],
                              trust |-> IF req.lower THEN trust[v] \div 2 ELSE Restored(trust[v])])
        BY <1>5
    <2> DEFINE rest == [req EXCEPT !.vouchers = @ \ {v}]
               t    == IF req.lower THEN trust[v] \div 2 ELSE Restored(trust[v])
               write == [op |-> "write", id |-> v, rest |-> rest, trust |-> t]
    <2>2. rest \in AdjustCall /\ v \in Ids /\ rest.op = "adjust"
        BY <1>2 DEF AdjustCall
    <2>3. CallIs(rest, Rooted) /\ Informed(rest)
        BY <2>2 DEF CallIs, Informed
    <2>4. trust[v] = NoTrust => Reads(k, rest)
        BY <2>1
    <2>5. trust[v] # NoTrust => Reads(k, write)
        BY <2>1
    <2> HIDE DEF rest, t, req
    <2>6. write.op = "write" /\ write.id = v /\ write.rest = rest
        OBVIOUS
    <2>7. trust[v] # NoTrust => v \in Rooted /\ (v \in Candidates \ (Seeds \cup overlapped) =>
                                                   lastBackers[v] \subseteq VouchesFor(v))
        BY <2>2 DEF RootInv, BackersInv, BackersAnswer
    <2>8. trust[v] # NoTrust => CallIs(write, Rooted) /\ Informed(write)
        BY <2>2, <2>6, <2>7 DEF CallIs, WriteIs, Informed
    <2> HIDE DEF write
    <2> QED BY <2>3, <2>4, <2>5, <2>8, <1>3, ReadsStep DEF SocialShape
  <1> QED BY <1>3, <1>4, <1>5 DEF AdjustReads, Becomes, Reads

(* A vouch is written with the weight it was read with.                    *)
LEMMA RecordVouchStep ==
  ASSUME SocialShape, RootInv, BackersInv, NEW k \in SocialCalls, RecordVouch(k)
  PROVE  SocialShape' /\ RootInv' /\ BackersInv'
  <1> DEFINE req  == socialCall[k]
             c    == req.candidate
             v    == req.voucher
  <1>1. req.op = "record" /\ CallIs(req, Rooted)
      BY DEF RecordVouch, At, SocialShape
  <1>2. RecordIs(req, Rooted)
      BY <1>1, CallKinds
  <1>3. /\ vouches' = [vouches EXCEPT ![c][v] = req.weight]
        /\ socialCall' = [socialCall EXCEPT ![k] = NoTrust]
        /\ UNCHANGED <<trust, met, struck, joined, firstBackers, lastBackers, overlapped>>
      BY DEF RecordVouch, Becomes
  <1>4. c \in Candidates /\ v \in Rooted \ {c} /\ v \in Vouchers /\ req.weight # NoTrust
      BY <1>2 DEF RecordIs, Vouchers
  <1> HIDE DEF req, c, v
  <1>5. /\ DOMAIN vouches' = Candidates /\ \A d \in Candidates : DOMAIN vouches'[d] = Vouchers
        /\ \A d \in Candidates, u \in Vouchers :
             vouches'[d][u] = IF d = c /\ u = v THEN req.weight ELSE vouches[d][u]
      BY <1>3, <1>4 DEF SocialShape
  <1>6. \A d \in Candidates : VouchesFor(d) \subseteq VouchesFor(d)' /\ VouchesFor(d)' \subseteq VouchesFor(d) \cup {v}
      BY <1>4, <1>5 DEF VouchesFor
  <1>7. \A d \in Candidates : d # c => VouchesFor(d)' = VouchesFor(d)
      BY <1>5 DEF VouchesFor
  <1>8. \A j \in SocialCalls : socialCall'[j] \in {socialCall[j], NoTrust}
      BY <1>3 DEF SocialShape
  <1>9. Rooted' = Rooted /\ Admitted' = Admitted
      BY <1>3 DEF Rooted, Admitted
  <1>10. SocialShape'
      BY <1>3, <1>5, <1>8, <1>9 DEF SocialShape
  <1>11. \A d \in Candidates : VouchesFor(d)' \subseteq Rooted \ {d}
      BY <1>4, <1>6, <1>7 DEF RootInv
  <1>12. RootInv'
      BY <1>3, <1>9, <1>11 DEF RootInv, AdmittedSoundly
  <1>13. BackersAnswer'
      BY <1>3, <1>6 DEF BackersInv, BackersAnswer
  <1>14. ASSUME NEW j \in SocialCalls, socialCall'[j] # NoTrust PROVE Informed(socialCall[j])'
    <2>1. socialCall'[j] = socialCall[j] /\ socialCall[j] # NoTrust
        BY <1>8, <1>14
    <2>2. Informed(socialCall[j]) /\ CallIs(socialCall[j], Rooted)
        BY <2>1 DEF BackersInv, SocialShape
    <2>3. socialCall[j].op = "enroll" => socialCall[j].id \in Candidates
        BY <2>2, CallKinds DEF EnrollIs
    <2> QED BY <2>1, <2>2, <2>3, <1>3, <1>6 DEF Informed
  <1> QED BY <1>10, <1>12, <1>13, <1>14 DEF BackersInv

(* What a sequence holds after an element is appended, and before it.      *)
LEMMA Appended ==
  ASSUME NEW S, NEW s \in Seq(S), NEW c \in S, NEW t, t = Append(s, c)
  PROVE  /\ t \in Seq(S)
         /\ {t[n] : n \in DOMAIN t} = {s[n] : n \in DOMAIN s} \cup {c}
         /\ \E n \in DOMAIN t : t[n] = c /\ {t[m] : m \in 1..(n - 1)} = {s[m] : m \in DOMAIN s}
         /\ \A n \in DOMAIN s : /\ n \in DOMAIN t /\ t[n] = s[n]
                                /\ {t[m] : m \in 1..(n - 1)} = {s[m] : m \in 1..(n - 1)}
  <1> DEFINE N == Len(s)
  <1>1. N \in Nat /\ DOMAIN s = 1..N
      OBVIOUS
  <1>2. t \in Seq(S) /\ DOMAIN t = 1..(N + 1) /\ t[N + 1] = c /\ \A n \in 1..N : t[n] = s[n]
      BY AppendProperties
  <1> HIDE DEF N
  <1>3. 1..(N + 1) = 1..N \cup {N + 1} /\ N + 1 \in 1..(N + 1) /\ (N + 1) - 1 = N
      BY <1>1
  <1>4. {t[n] : n \in 1..(N + 1)} = {s[n] : n \in 1..N} \cup {c}
    <2>1. \A n \in 1..(N + 1) : t[n] \in {s[m] : m \in 1..N} \cup {c}
        BY <1>2, <1>3
    <2>2. \A n \in 1..N : s[n] \in {t[m] : m \in 1..(N + 1)}
        BY <1>2, <1>3
    <2>3. c \in {t[m] : m \in 1..(N + 1)}
        BY <1>2, <1>3
    <2> QED BY <2>1, <2>2, <2>3, Zenon
  <1>5. {t[n] : n \in 1..N} = {s[n] : n \in 1..N}
      BY <1>2
  <1>6. ASSUME NEW n \in 1..N
        PROVE  n \in 1..(N + 1) /\ {t[m] : m \in 1..(n - 1)} = {s[m] : m \in 1..(n - 1)}
    <2>1. \A m \in 1..(n - 1) : m \in 1..N
        BY <1>1
    <2>2. \A m \in 1..(n - 1) : t[m] = s[m]
        BY <2>1, <1>2
    <2>3. {t[m] : m \in 1..(n - 1)} = {s[m] : m \in 1..(n - 1)}
        BY <2>2, Zenon
    <2> QED BY <2>3, <1>3
  <1>7. /\ t \in Seq(S) /\ N + 1 \in DOMAIN t /\ t[N + 1] = c
        /\ {t[n] : n \in DOMAIN t} = {s[n] : n \in DOMAIN s} \cup {c}
        /\ {t[m] : m \in 1..((N + 1) - 1)} = {s[n] : n \in DOMAIN s}
      BY <1>1, <1>2, <1>3, <1>4, <1>5, Zenon
  <1>8. \A n \in DOMAIN s : /\ n \in DOMAIN t /\ t[n] = s[n]
                            /\ {t[m] : m \in 1..(n - 1)} = {s[m] : m \in 1..(n - 1)}
      BY <1>1, <1>2, <1>6, Zenon
  <1> QED BY <1>7, <1>8, Zenon

(* Who is admitted now comes after everyone behind it.                     *)
LEMMA CompleteEnrollsStep ==
  ASSUME SocialShape, RootInv, BackersInv, NEW k \in SocialCalls, CompleteEnrolls(k)
  PROVE  SocialShape' /\ RootInv' /\ BackersInv'
  <1> DEFINE req  == socialCall[k]
             c    == req.id
             new  == c \notin Admitted
  <1>1. req # NoTrust /\ req.op = "enroll" /\ CallIs(req, Rooted)
      BY DEF CompleteEnrolls, At, SocialShape
  <1>2. EnrollIs(req, Rooted) /\ Informed(req)
      BY <1>1, CallKinds DEF BackersInv
  <1>3. /\ trust' = [trust EXCEPT ![c] = req.trust]
        /\ joined' = IF new THEN Append(joined, c) ELSE joined
        /\ firstBackers' = IF new THEN [firstBackers EXCEPT ![c] = req.backers] ELSE firstBackers
        /\ lastBackers' = [lastBackers EXCEPT ![c] = req.backers]
        /\ socialCall' = [socialCall EXCEPT ![k] = NoTrust]
        /\ UNCHANGED <<vouches, met, struck, overlapped>>
      BY DEF CompleteEnrolls, Enroll, Becomes, Admitted
  <1> DEFINE B == req.backers
  <1>4. /\ c \in Candidates /\ c \in Ids /\ c \notin B /\ B \subseteq Rooted /\ Cardinality(B) >= RequiredVouches
        /\ c \notin overlapped => B \subseteq VouchesFor(c)
      BY <1>1, <1>2 DEF EnrollIs, Informed, Ids
  <1>5. /\ trust' = [trust EXCEPT ![c] = req.trust]
        /\ firstBackers' = IF new THEN [firstBackers EXCEPT ![c] = B] ELSE firstBackers
        /\ lastBackers' = [lastBackers EXCEPT ![c] = B]
      BY <1>3
  <1> HIDE DEF req, c, B
  <1>6. joined \in Seq(Candidates)
      BY DEF SocialShape
  <1>7. /\ joined' \in Seq(Candidates) /\ Admitted' = Admitted \cup {c}
        /\ \A n \in DOMAIN joined : /\ n \in DOMAIN joined' /\ joined'[n] = joined[n]
                                   /\ {joined'[m] : m \in 1..(n - 1)} = {joined[m] : m \in 1..(n - 1)}
    <2>1. CASE new
      <3>1. joined' = Append(joined, c)
          BY <2>1, <1>3
      <3>2. /\ joined' \in Seq(Candidates)
            /\ {joined'[n] : n \in DOMAIN joined'} = {joined[n] : n \in DOMAIN joined} \cup {c}
            /\ \E n \in DOMAIN joined' :
                 joined'[n] = c /\ {joined'[m] : m \in 1..(n - 1)} = {joined[m] : m \in DOMAIN joined}
            /\ \A n \in DOMAIN joined : /\ n \in DOMAIN joined' /\ joined'[n] = joined[n]
                                       /\ {joined'[m] : m \in 1..(n - 1)} = {joined[m] : m \in 1..(n - 1)}
          BY <3>1, <1>4, <1>6, Appended, SMTT(30)
      <3> QED BY <3>2, Zenon DEF Admitted
    <2>2. CASE ~new
      <3>1. joined' = joined
          BY <2>2, <1>3
      <3> QED BY <2>2, <3>1, <1>6 DEF Admitted
    <2> QED BY <2>1, <2>2
  <1>8. new => \E n \in DOMAIN joined' : joined'[n] = c /\ {joined'[m] : m \in 1..(n - 1)} = Admitted
    <2>1. CASE new
      <3>1. joined' = Append(joined, c)
          BY <2>1, <1>3
      <3>2. /\ joined' \in Seq(Candidates)
            /\ {joined'[n] : n \in DOMAIN joined'} = {joined[n] : n \in DOMAIN joined} \cup {c}
            /\ \E n \in DOMAIN joined' :
                 joined'[n] = c /\ {joined'[m] : m \in 1..(n - 1)} = {joined[m] : m \in DOMAIN joined}
            /\ \A n \in DOMAIN joined : /\ n \in DOMAIN joined' /\ joined'[n] = joined[n]
                                       /\ {joined'[m] : m \in 1..(n - 1)} = {joined[m] : m \in 1..(n - 1)}
          BY <3>1, <1>4, <1>6, Appended, SMTT(30)
      <3> QED BY <3>2, Zenon DEF Admitted
    <2> QED BY <2>1
  <1>9. Rooted' = Rooted \cup {c}
      BY <1>7 DEF Rooted
  <1>10. \A j \in SocialCalls : socialCall'[j] \in {socialCall[j], NoTrust}
      BY <1>3 DEF SocialShape
  <1>11. \A d \in Candidates : VouchesFor(d)' = VouchesFor(d)
      BY <1>3 DEF VouchesFor
  <1>12. SocialShape'
    <2>1. \A j \in SocialCalls : socialCall'[j] # NoTrust => CallIs(socialCall'[j], Rooted')
        BY <1>9, <1>10, CallStays DEF SocialShape
    <2>2. DOMAIN trust' = Ids /\ DOMAIN firstBackers' = Candidates /\ DOMAIN lastBackers' = Candidates
          /\ DOMAIN socialCall' = SocialCalls
        BY <1>3, <1>5 DEF SocialShape
    <2> QED BY <2>1, <2>2, <1>3, <1>7 DEF SocialShape
  <1>13. \A d \in Candidates : lastBackers'[d] = IF d = c THEN B ELSE lastBackers[d]
      BY <1>5 DEF SocialShape
  <1>14. \A d \in Candidates : firstBackers'[d] = IF d = c /\ new THEN B ELSE firstBackers[d]
      BY <1>5 DEF SocialShape
  <1>15. Admitted \subseteq Candidates
    <2>1. \A n \in DOMAIN joined : joined[n] \in Candidates
        BY <1>6
    <2> QED BY <2>1, Zenon DEF Admitted
  <1>20. new <=> c \notin Admitted
      OBVIOUS
  <1> HIDE DEF new
  <1>16. ASSUME NEW d \in Admitted' PROVE AdmittedSoundly(d)'
    <2>0. d \in Candidates
        BY <1>4, <1>7, <1>15
    <2>1. Cardinality(lastBackers'[d]) >= RequiredVouches /\ d \notin lastBackers'[d]
        BY <2>0, <1>4, <1>7, <1>13, <1>16 DEF RootInv, AdmittedSoundly
    <2>2. CASE d = c /\ new
      <3>1. PICK n \in DOMAIN joined' : joined'[n] = d /\ {joined'[m] : m \in 1..(n - 1)} = Admitted
          BY <2>2, <1>8
      <3>2. firstBackers'[d] \subseteq Seeds \cup Anchored \cup {joined'[m] : m \in 1..(n - 1)}
          BY <3>1, <2>2, <1>4, <1>14 DEF Rooted
      <3> QED BY <3>1, <3>2, <2>1 DEF AdmittedSoundly
    <2>3. CASE ~(d = c /\ new)
      <3>1. d \in Admitted /\ firstBackers'[d] = firstBackers[d]
          BY <2>0, <2>3, <1>7, <1>14, <1>20
      <3>2. PICK n \in DOMAIN joined :
              /\ joined[n] = d
              /\ firstBackers[d] \subseteq Seeds \cup Anchored \cup {joined[m] : m \in 1..(n - 1)}
          BY <3>1 DEF RootInv, AdmittedSoundly
      <3>3. n \in DOMAIN joined' /\ joined'[n] = d
            /\ {joined'[m] : m \in 1..(n - 1)} = {joined[m] : m \in 1..(n - 1)}
          BY <3>2, <1>7
      <3> QED BY <3>1, <3>2, <3>3, <2>1 DEF AdmittedSoundly
    <2> QED BY <2>2, <2>3
  <1>17. RootInv'
    <2>1. \A i \in Ids : trust'[i] # NoTrust => i \in Rooted'
        BY <1>5, <1>9 DEF RootInv, SocialShape
    <2> QED BY <2>1, <1>9, <1>11, <1>16 DEF RootInv
  <1>18. BackersAnswer'
    <2>1. \A i \in Ids : i # c => trust'[i] = trust[i]
        BY <1>5 DEF SocialShape
    <2> QED BY <2>1, <1>3, <1>4, <1>11, <1>13 DEF BackersInv, BackersAnswer, Ids
  <1>19. ASSUME NEW j \in SocialCalls, socialCall'[j] # NoTrust PROVE Informed(socialCall[j])'
    <2>1. socialCall'[j] = socialCall[j] /\ socialCall[j] # NoTrust
        BY <1>10, <1>19
    <2>2. Informed(socialCall[j]) /\ CallIs(socialCall[j], Rooted)
        BY <2>1 DEF BackersInv, SocialShape
    <2>3. socialCall[j].op = "enroll" => socialCall[j].id \in Candidates
        BY <2>2, CallKinds DEF EnrollIs
    <2> QED BY <2>1, <2>2, <2>3, <1>3, <1>4, <1>11, <1>13 DEF Informed
  <1> QED BY <1>12, <1>17, <1>18, <1>19 DEF BackersInv

(* What is removed loses its vouches and its trust at once; whoever was    *)
(* about to be written then is marked.                                     *)
LEMMA RemoveStep ==
  ASSUME SocialShape, RootInv, BackersInv, NEW k \in SocialCalls, Remove(k)
  PROVE  SocialShape' /\ RootInv' /\ BackersInv'
  <1> DEFINE req  == socialCall[k]
             c    == req.candidate
             next == [op |-> "adjust", lower |-> TRUE, vouchers |-> req.vouchers]
  <1>1. req.op = "remove" /\ CallIs(req, Rooted)
      BY DEF Remove, At, SocialShape
  <1>2. StrikeIs(req)
      BY <1>1, CallKinds
  <1>3. /\ trust' = [trust EXCEPT ![c] = NoTrust]
        /\ vouches' = [vouches EXCEPT ![c] = [v \in Vouchers |-> NoTrust]]
        /\ overlapped' = IF Writing(c) THEN overlapped \cup {c} ELSE overlapped
        /\ socialCall' = [socialCall EXCEPT ![k] = next]
        /\ UNCHANGED <<met, struck, joined, firstBackers, lastBackers>>
      BY DEF Remove, DropsTrust, Becomes
  <1>4. c \in Candidates /\ c \in Ids /\ next \in AdjustCall
      BY <1>2 DEF StrikeIs, Ids, AdjustCall
  <1>5. next.op = "adjust"
      OBVIOUS
  <1> HIDE DEF req, c, next
  <1>6. \A j \in SocialCalls : socialCall'[j] = IF j = k THEN next ELSE socialCall[j]
      BY <1>3 DEF SocialShape
  <1>7. Rooted' = Rooted /\ Admitted' = Admitted
      BY <1>3 DEF Rooted, Admitted
  <1>8. \A d \in Candidates : VouchesFor(d)' = IF d = c THEN {} ELSE VouchesFor(d)
      BY <1>3, <1>4 DEF VouchesFor, SocialShape
  <1>9. \A i \in Ids : trust'[i] = IF i = c THEN NoTrust ELSE trust[i]
      BY <1>3 DEF SocialShape
  <1>10. SocialShape'
    <2>1. /\ DOMAIN trust' = Ids /\ DOMAIN vouches' = Candidates /\ DOMAIN socialCall' = SocialCalls
          /\ \A d \in Candidates : DOMAIN vouches'[d] = Vouchers
        BY <1>3, <1>4 DEF SocialShape
    <2>2. \A j \in SocialCalls : socialCall'[j] # NoTrust => CallIs(socialCall'[j], Rooted')
        BY <1>4, <1>6, <1>7 DEF SocialShape, CallIs
    <2> QED BY <2>1, <2>2, <1>3 DEF SocialShape
  <1>11. RootInv'
    <2>1. \A d \in Admitted : AdmittedSoundly(d)'
        BY <1>3 DEF RootInv, AdmittedSoundly
    <2> QED BY <2>1, <1>7, <1>8, <1>9 DEF RootInv
  <1>12. overlapped \subseteq overlapped'
      BY <1>3
  <1>13. BackersAnswer'
      BY <1>3, <1>8, <1>9, <1>12 DEF BackersInv, BackersAnswer, Ids
  <1>14. ASSUME NEW j \in SocialCalls, socialCall'[j] # NoTrust PROVE Informed(socialCall[j])'
    <2>1. CASE j = k
        BY <2>1, <1>5, <1>6 DEF Informed
    <2>2. CASE j # k
      <3>1. socialCall'[j] = socialCall[j] /\ socialCall[j] # NoTrust
          BY <2>2, <1>6, <1>14
      <3>2. Informed(socialCall[j]) /\ CallIs(socialCall[j], Rooted)
          BY <3>1 DEF BackersInv, SocialShape
      <3>3. socialCall[j].op = "enroll" => socialCall[j].id \in Candidates
          BY <3>2, CallKinds DEF EnrollIs
      <3>4. socialCall[j].op \in {"enroll", "write"} /\ socialCall[j].id = c => c \in overlapped'
          BY <3>1, <1>3 DEF Writing, At
      <3>5. socialCall[j].op = "enroll" /\ socialCall[j].id \notin overlapped' =>
              socialCall[j].backers \subseteq VouchesFor(socialCall[j].id)'
          BY <3>1, <3>2, <3>3, <3>4, <1>8, <1>12 DEF Informed
      <3>6. socialCall[j].op = "write" /\ socialCall[j].id \in Candidates \ (Seeds \cup overlapped') =>
              lastBackers[socialCall[j].id] \subseteq VouchesFor(socialCall[j].id)'
          BY <3>1, <3>2, <3>4, <1>8, <1>12 DEF Informed
      <3> QED BY <3>1, <3>5, <3>6, <1>3 DEF Informed
    <2> QED BY <2>1, <2>2
  <1> QED BY <1>10, <1>11, <1>13, <1>14 DEF BackersInv

(* A trust that was read is written over a member's, or over that of one   *)
(* removed meanwhile, which is marked.                                     *)
LEMMA AdjustWritesStep ==
  ASSUME SocialShape, RootInv, BackersInv, NEW k \in SocialCalls, AdjustWrites(k)
  PROVE  SocialShape' /\ RootInv' /\ BackersInv'
  <1> DEFINE req  == socialCall[k]
             i    == req.id
             rest == req.rest
  <1>1. req # NoTrust /\ req.op = "write" /\ CallIs(req, Rooted)
      BY DEF AdjustWrites, At, SocialShape
  <1>2. WriteIs(req, Rooted) /\ Informed(req)
      BY <1>1, CallKinds DEF BackersInv
  <1>3. /\ trust' = [trust EXCEPT ![i] = req.trust]
        /\ socialCall' = [socialCall EXCEPT ![k] = rest]
        /\ UNCHANGED <<vouches, met, struck, joined, firstBackers, lastBackers, overlapped>>
      BY DEF AdjustWrites, Enroll, Becomes
  <1>4. /\ i \in Rooted /\ i \in Ids /\ rest \in AdjustCall
        /\ i \in Candidates \ (Seeds \cup overlapped) => lastBackers[i] \subseteq VouchesFor(i)
      BY <1>1, <1>2 DEF WriteIs, Informed
  <1>5. rest.op = "adjust"
      BY <1>4 DEF AdjustCall
  <1> HIDE DEF req, i, rest
  <1>6. \A j \in SocialCalls : socialCall'[j] = IF j = k THEN rest ELSE socialCall[j]
      BY <1>3 DEF SocialShape
  <1>7. Rooted' = Rooted /\ Admitted' = Admitted
      BY <1>3 DEF Rooted, Admitted
  <1>8. \A d : VouchesFor(d)' = VouchesFor(d)
      BY <1>3 DEF VouchesFor
  <1>9. \A x \in Ids : x # i => trust'[x] = trust[x]
      BY <1>3 DEF SocialShape
  <1>10. SocialShape'
    <2>1. DOMAIN trust' = Ids /\ DOMAIN socialCall' = SocialCalls
        BY <1>3 DEF SocialShape
    <2>2. \A j \in SocialCalls : socialCall'[j] # NoTrust => CallIs(socialCall'[j], Rooted')
        BY <1>4, <1>6, <1>7 DEF SocialShape, CallIs
    <2> QED BY <2>1, <2>2, <1>3 DEF SocialShape
  <1>11. RootInv'
    <2>1. \A d \in Admitted : AdmittedSoundly(d)'
        BY <1>3 DEF RootInv, AdmittedSoundly
    <2> QED BY <2>1, <1>4, <1>7, <1>8, <1>9 DEF RootInv
  <1>12. BackersAnswer'
      BY <1>3, <1>4, <1>8, <1>9 DEF BackersInv, BackersAnswer, Ids
  <1>13. ASSUME NEW j \in SocialCalls, socialCall'[j] # NoTrust PROVE Informed(socialCall[j])'
    <2>1. CASE j = k
        BY <2>1, <1>5, <1>6 DEF Informed
    <2>2. CASE j # k
        BY <2>2, <1>3, <1>6, <1>8, <1>13 DEF BackersInv, Informed
    <2> QED BY <2>1, <2>2
  <1> QED BY <1>10, <1>11, <1>12, <1>13 DEF BackersInv

LEMMA SocialStep ==
  SocialShape /\ RootInv /\ BackersInv /\ [SocialNext]_socialVars => SocialShape' /\ RootInv' /\ BackersInv'
  <1> SUFFICES ASSUME SocialShape, RootInv, BackersInv, [SocialNext]_socialVars
               PROVE  SocialShape' /\ RootInv' /\ BackersInv'
      OBVIOUS
  <1>1. CASE UNCHANGED socialVars
    <2>1. UNCHANGED <<trust, vouches, met, struck, socialCall, joined, firstBackers, lastBackers, overlapped>>
        BY <1>1 DEF socialVars
    <2>2. Rooted' = Rooted /\ Admitted' = Admitted /\ \A c : VouchesFor(c)' = VouchesFor(c)
        BY <2>1 DEF Rooted, Admitted, VouchesFor
    <2> QED BY <2>1, <2>2 DEF SocialShape, RootInv, AdmittedSoundly, BackersInv, BackersAnswer, Informed
  <1> QED BY <1>1, VouchStep, CommitVouchStep, CompleteReadsStep, PenalizeReadsStep, StrikeStep,
             ReinstateReadsStep, AdjustReadsStep, RecordVouchStep, CompleteEnrollsStep, RemoveStep,
             AdjustWritesStep DEF SocialNext

(* For every graph and any number of overlapping calls: a member that is   *)
(* not a seed was admitted on enough distinct vouches of others, the first *)
(* time all of them seeds, anchored holders and members admitted earlier   *)
(* (VouchHandler, CompleteCeremony).                                       *)
THEOREM RootedInSeedsHolds == SocialSpec => []RootedInSeeds
  <1>1. RootInv => RootedInSeeds
    <2> SUFFICES ASSUME RootInv, NEW c \in Candidates \ Seeds, trust[c] # NoTrust
                 PROVE  AdmittedSoundly(c)
        BY DEF RootedInSeeds, AdmittedSoundly
    <2>1. c \in Rooted /\ c \notin Anchored
        BY SocialBounds DEF RootInv, Ids
    <2> QED BY <2>1 DEF RootInv, Rooted
  <1> QED BY SocialInitial, SocialStep, <1>1, PTL DEF SocialSpec

(* The vouchers counted for a member's trust are on record for as long as  *)
(* it is a member, whatever is penalized and reinstated, unless it was     *)
(* written by a call that overlapped its removal (Penalize, Remove).       *)
THEOREM BackersAnswerHolds == SocialSpec => []BackersAnswer
  <1>1. BackersInv => BackersAnswer
      BY DEF BackersInv
  <1> QED BY SocialInitial, SocialStep, <1>1, PTL DEF SocialSpec

(* Every weight and trust that is stored, or that a call carries, is one.  *)
Weighed(t) == t = NoTrust \/ t \in 0..Full
WeighedCall(req) ==
  /\ req.op = "record" => req.weight \in 0..Full
  /\ req.op \in {"enroll", "write"} => req.trust \in 0..Full
WeightsInv ==
  /\ \A i \in Ids : Weighed(trust[i])
  /\ \A c \in Candidates, v \in Vouchers : Weighed(vouches[c][v])
  /\ \A k \in SocialCalls : socialCall[k] # NoTrust => WeighedCall(socialCall[k])

(* Three quarters of an average of weights is a weight.                    *)
LEMMA AverageIsWeight ==
  ASSUME WeightsInv, NEW c \in Candidates, EnoughVouches(c)
  PROVE  CandidateTrust(c) \in 0..Full
  <1> DEFINE A == VouchesFor(c)
  <1>1. A \subseteq Vouchers /\ \A v \in A : vouches[c][v] \in 0..Full
      BY DEF VouchesFor, WeightsInv, Weighed
  <1>2. IsFiniteSet(Vouchers)
      BY NoTrustIsNoWeight, FS_Union DEF Vouchers, Ids
  <1>3. IsFiniteSet(A) /\ Cardinality(A) \in Nat
      BY <1>1, <1>2, FS_Subset, FS_CardinalityType
  <1>4. Cardinality(A) \in Nat \ {0}
      BY <1>3, SocialBounds DEF EnoughVouches
  <1>5. Score(c) = SumOf(vouches[c], A)
      BY DEF Score, SumOf
  <1>6. Full \in Nat
      BY SocialBounds
  <1> HIDE DEF A
  <1>7. SumOf(vouches[c], A) \in 0..(Cardinality(A) * Full)
      BY <1>1, <1>3, <1>6, SumIsBounded
  <1>8. PICK n, a : n = Cardinality(A) /\ a = Score(c)
      OBVIOUS
  <1>9. n \in Nat \ {0} /\ a \in Nat /\ a <= n * Full /\ n * Full \in Nat
      BY <1>4, <1>5, <1>6, <1>7, <1>8
  <1>10. PICK b, d : b = 3 * a /\ d = 4 * n
      OBVIOUS
  <1>11. b \in Nat /\ d \in Nat \ {0} /\ b <= d * Full
    <2>1. d * Full = 4 * (n * Full)
        BY <1>6, <1>9, <1>10
    <2> QED BY <1>9, <1>10, <2>1
  <1>12. b \div d \in 0..Full
      BY <1>6, <1>11
  <1> QED BY <1>8, <1>10, <1>12 DEF CandidateTrust, A

LEMMA WeightsMove ==
  ASSUME SocialShape, WeightsInv, NEW k \in SocialCalls, NEW req,
         socialCall' = [socialCall EXCEPT ![k] = req], req = NoTrust \/ WeighedCall(req),
         \A i \in Ids : Weighed(trust[i])',
         \A c \in Candidates, v \in Vouchers : Weighed(vouches[c][v])'
  PROVE  WeightsInv'
  <1>1. \A j \in SocialCalls : socialCall'[j] = IF j = k THEN req ELSE socialCall[j]
      BY DEF SocialShape
  <1>2. \A j \in SocialCalls : socialCall'[j] # NoTrust => WeighedCall(socialCall'[j])
      BY <1>1 DEF WeightsInv
  <1> QED BY <1>2 DEF WeightsInv, WeighedCall

LEMMA WeightsRead ==
  ASSUME SocialShape, WeightsInv, NEW k \in SocialCalls, NEW req,
         socialCall' = [socialCall EXCEPT ![k] = req], UNCHANGED <<trust, vouches>>,
         req = NoTrust \/ WeighedCall(req)
  PROVE  WeightsInv'
  <1>1. \A i \in Ids : Weighed(trust[i])'
      BY DEF WeightsInv, Weighed
  <1>2. \A c \in Candidates, v \in Vouchers : Weighed(vouches[c][v])'
      BY DEF WeightsInv, Weighed
  <1> QED BY <1>1, <1>2, WeightsMove

LEMMA WeightsStep ==
  SocialShape /\ WeightsInv /\ [SocialNext]_socialVars => WeightsInv'
  <1> SUFFICES ASSUME SocialShape, WeightsInv, [SocialNext]_socialVars PROVE WeightsInv'
      OBVIOUS
  <1>0. Full \in Nat /\ NoTrust \notin Nat
      BY SocialBounds, NoTrustIsNoWeight
  <1>1. ASSUME NEW k \in SocialCalls, NEW c \in Candidates, NEW v \in Vouchers, VouchReads(k, v, c)
        PROVE  WeightsInv'
    <2>1. PICK w : w = Parts(trust[v])
        OBVIOUS
    <2>2. w \in 0..Full
        BY <1>0, <2>1 DEF Parts, WeightsInv, Weighed, Vouchers
    <2>3. PICK req : req = [op |-> "record", inPerson |-> FALSE, voucher |-> v, candidate |-> c, weight |-> w]
        OBVIOUS
    <2>4. WeighedCall(req)
        BY <2>2, <2>3 DEF WeighedCall
    <2>5. socialCall' = [socialCall EXCEPT ![k] = req] /\ UNCHANGED <<trust, vouches>>
        BY <1>1, <2>1, <2>3 DEF VouchReads, Arrives
    <2> QED BY <2>4, <2>5, WeightsRead
  <1>2. ASSUME NEW k \in SocialCalls, NEW c \in Candidates, NEW v \in Vouchers, OfferReads(k, v, c)
        PROVE  WeightsInv'
    <2>1. PICK w : w = IF v \in Anchored THEN Full \div 2^Strikes(v) ELSE trust[v]
        OBVIOUS
    <2>2. w \in 0..Full
      <3>1. v \notin Anchored => trust[v] # NoTrust
          BY <1>2 DEF OfferReads
      <3> QED BY <2>1, <3>1, HalvedIsWeight DEF WeightsInv, Weighed, Vouchers
    <2>3. PICK req : req = [op |-> "record", inPerson |-> TRUE, voucher |-> v, candidate |-> c, weight |-> w]
        OBVIOUS
    <2>4. WeighedCall(req)
        BY <2>2, <2>3 DEF WeighedCall
    <2>5. socialCall' = [socialCall EXCEPT ![k] = req] /\ UNCHANGED <<trust, vouches>>
        BY <1>2, <2>1, <2>3 DEF OfferReads, Arrives
    <2> QED BY <2>4, <2>5, WeightsRead
  <1>3. ASSUME NEW k \in SocialCalls, NEW c \in Candidates, CompleteReads(k, c) PROVE WeightsInv'
    <2>1. PICK t : t = CandidateTrust(c)
        OBVIOUS
    <2>2. t \in 0..Full
        BY <1>3, <2>1, AverageIsWeight DEF CompleteReads
    <2>3. PICK req : req = [op |-> "enroll", id |-> c, trust |-> t, backers |-> VouchesFor(c)]
        OBVIOUS
    <2>4. WeighedCall(req)
        BY <2>2, <2>3 DEF WeighedCall
    <2>5. socialCall' = [socialCall EXCEPT ![k] = req] /\ UNCHANGED <<trust, vouches>>
        BY <1>3, <2>1, <2>3 DEF CompleteReads, Arrives
    <2> QED BY <2>4, <2>5, WeightsRead
  <1>4. ASSUME NEW k \in SocialCalls, NEW c \in Candidates, PenalizeReads(k, c) \/ ReinstateReads(k, c)
        PROVE  WeightsInv'
    <2>1. PICK strike, adjust :
                 /\ strike = [op |-> "strike", candidate |-> c, vouchers |-> met[c] \cup VouchesFor(c)]
                 /\ adjust = [op |-> "adjust", lower |-> FALSE, vouchers |-> struck[c]]
        OBVIOUS
    <2>2. WeighedCall(strike) /\ WeighedCall(adjust)
        BY <2>1 DEF WeighedCall
    <2>3. /\ UNCHANGED <<trust, vouches>>
          /\ \/ socialCall' = [socialCall EXCEPT ![k] = strike]
             \/ socialCall' = [socialCall EXCEPT ![k] = adjust]
        BY <1>4, <2>1 DEF PenalizeReads, ReinstateReads, Arrives
    <2> QED BY <2>2, <2>3, WeightsRead
  <1>5. ASSUME NEW k \in SocialCalls, CommitVouch(k) PROVE WeightsInv'
    <2>1. PICK old, req : old = socialCall[k] /\ req = [old EXCEPT !.inPerson = FALSE]
        OBVIOUS
    <2>2. old # NoTrust /\ old.op = "record" /\ CallIs(old, Rooted) /\ WeighedCall(old)
        BY <1>5, <2>1 DEF CommitVouch, At, SocialShape, WeightsInv
    <2>3. DOMAIN old = RecordFields
        BY <2>2, CallKinds DEF RecordIs
    <2>4. req.op = "record" /\ req.weight = old.weight
        BY <2>1, <2>2, <2>3 DEF RecordFields
    <2>5. WeighedCall(req)
        BY <2>2, <2>4 DEF WeighedCall
    <2>6. /\ UNCHANGED <<trust, vouches>>
          /\ \/ socialCall' = [socialCall EXCEPT ![k] = NoTrust]
             \/ socialCall' = [socialCall EXCEPT ![k] = req]
        BY <1>5, <2>1 DEF CommitVouch, Becomes
    <2> QED BY <2>5, <2>6, WeightsRead
  <1>6. ASSUME NEW k \in SocialCalls, RecordVouch(k) PROVE WeightsInv'
    <2>1. PICK req : req = socialCall[k]
        OBVIOUS
    <2>2. req # NoTrust /\ req.op = "record" /\ CallIs(req, Rooted) /\ WeighedCall(req)
        BY <1>6, <2>1 DEF RecordVouch, At, SocialShape, WeightsInv
    <2>3. req.candidate \in Candidates /\ req.voucher \in Vouchers /\ req.weight \in 0..Full
        BY <2>2, CallKinds DEF RecordIs, WeighedCall, Vouchers
    <2>4. /\ vouches' = [vouches EXCEPT ![req.candidate][req.voucher] = req.weight] /\ trust' = trust
          /\ socialCall' = [socialCall EXCEPT ![k] = NoTrust]
        BY <1>6, <2>1 DEF RecordVouch, Becomes
    <2>5. \A c \in Candidates, v \in Vouchers : vouches'[c][v] \in {vouches[c][v], req.weight}
        BY <2>3, <2>4 DEF SocialShape
    <2>6. \A c \in Candidates, v \in Vouchers : Weighed(vouches'[c][v])
        BY <2>3, <2>5 DEF WeightsInv, Weighed
    <2>7. \A i \in Ids : Weighed(trust'[i])
        BY <2>4 DEF WeightsInv
    <2> QED BY <2>4, <2>6, <2>7, WeightsMove DEF Weighed
  <1>7. ASSUME NEW k \in SocialCalls, CompleteEnrolls(k) \/ AdjustWrites(k) PROVE WeightsInv'
    <2>1. PICK req : req = socialCall[k]
        OBVIOUS
    <2>2. req # NoTrust /\ req.op \in {"enroll", "write"} /\ CallIs(req, Rooted) /\ WeighedCall(req)
        BY <1>7, <2>1 DEF CompleteEnrolls, AdjustWrites, At, SocialShape, WeightsInv
    <2>3. req.trust \in 0..Full
        BY <2>2 DEF WeighedCall
    <2>4. trust' = [trust EXCEPT ![req.id] = req.trust] /\ vouches' = vouches
        BY <1>7, <2>1 DEF CompleteEnrolls, AdjustWrites, Enroll
    <2>5. \A i \in Ids : trust'[i] \in {trust[i], req.trust}
        BY <2>4 DEF SocialShape
    <2>6. \A i \in Ids : Weighed(trust'[i])
        BY <2>3, <2>5 DEF WeightsInv, Weighed
    <2>7. \A c \in Candidates, v \in Vouchers : Weighed(vouches'[c][v])
        BY <2>4 DEF WeightsInv
    <2>8. CASE CompleteEnrolls(k)
      <3>1. socialCall' = [socialCall EXCEPT ![k] = NoTrust]
          BY <2>8 DEF CompleteEnrolls, Becomes
      <3> QED BY <3>1, <2>6, <2>7, WeightsMove DEF Weighed
    <2>9. CASE AdjustWrites(k)
      <3>1. socialCall' = [socialCall EXCEPT ![k] = req.rest] /\ req.op = "write"
          BY <2>1, <2>9 DEF AdjustWrites, At, Becomes
      <3>2. WeighedCall(req.rest)
          BY <2>2, <3>1, CallKinds DEF WriteIs, AdjustCall, WeighedCall
      <3> QED BY <3>1, <3>2, <2>6, <2>7, WeightsMove DEF Weighed
    <2> QED BY <1>7, <2>8, <2>9
  <1>8. ASSUME NEW k \in SocialCalls, Strike(k) PROVE WeightsInv'
    <2>1. PICK old, req : old = socialCall[k] /\ req = [old EXCEPT !.op = "remove"]
        OBVIOUS
    <2>2. old # NoTrust /\ old.op = "strike" /\ CallIs(old, Rooted)
        BY <1>8, <2>1 DEF Strike, At, SocialShape
    <2>3. req.op = "remove"
        BY <2>1, <2>2, CallKinds DEF StrikeIs
    <2>4. /\ UNCHANGED <<trust, vouches>>
          /\ \/ socialCall' = [socialCall EXCEPT ![k] = NoTrust]
             \/ socialCall' = [socialCall EXCEPT ![k] = req]
        BY <1>8, <2>1 DEF Strike, Becomes
    <2> QED BY <2>3, <2>4, WeightsRead DEF WeighedCall
  <1>9. ASSUME NEW k \in SocialCalls, Remove(k) PROVE WeightsInv'
    <2>1. PICK c, req : c = socialCall[k].candidate
                        /\ req = [op |-> "adjust", lower |-> TRUE, vouchers |-> socialCall[k].vouchers]
        OBVIOUS
    <2>2. /\ trust' = [trust EXCEPT ![c] = NoTrust]
          /\ vouches' = [vouches EXCEPT ![c] = [v \in Vouchers |-> NoTrust]]
          /\ socialCall' = [socialCall EXCEPT ![k] = req]
        BY <1>9, <2>1 DEF Remove, DropsTrust, Becomes
    <2>3. \A i \in Ids : Weighed(trust'[i])
        BY <2>2 DEF WeightsInv, Weighed, SocialShape
    <2>4. \A d \in Candidates, v \in Vouchers : vouches'[d][v] \in {NoTrust, vouches[d][v]}
        BY <2>2 DEF SocialShape
    <2>5. \A d \in Candidates, v \in Vouchers : Weighed(vouches'[d][v])
        BY <2>4 DEF WeightsInv, Weighed
    <2>6. WeighedCall(req)
        BY <2>1 DEF WeighedCall
    <2> QED BY <2>2, <2>3, <2>5, <2>6, WeightsMove DEF Weighed
  <1>10. ASSUME NEW k \in SocialCalls, AdjustReads(k) PROVE WeightsInv'
    <2>1. PICK old : old = socialCall[k]
        OBVIOUS
    <2>2. old # NoTrust /\ old.op = "adjust" /\ CallIs(old, Rooted)
        BY <1>10, <2>1 DEF AdjustReads, At, SocialShape
    <2>3. old \in AdjustCall
        BY <2>2, CallKinds
    <2>4. UNCHANGED <<trust, vouches>>
        BY <1>10 DEF AdjustReads
    <2>5. CASE socialCall' = [socialCall EXCEPT ![k] = NoTrust]
        BY <2>4, <2>5, WeightsRead
    <2>6. CASE \E v \in old.vouchers :
                 socialCall' = [socialCall EXCEPT ![k] =
                   IF trust[v] = NoTrust THEN [old EXCEPT !.vouchers = @ \ {v}]
                   ELSE [op |-> "write", id |-> v, rest |-> [old EXCEPT !.vouchers = @ \ {v}],
                         trust |-> IF old.lower THEN trust[v] \div 2 ELSE Restored(trust[v])]]
      <3>1. PICK v \in old.vouchers :
                 socialCall' = [socialCall EXCEPT ![k] =
                   IF trust[v] = NoTrust THEN [old EXCEPT !.vouchers = @ \ {v}]
                   ELSE [op |-> "write", id |-> v, rest |-> [old EXCEPT !.vouchers = @ \ {v}],
                         trust |-> IF old.lower THEN trust[v] \div 2 ELSE Restored(trust[v])]]
          BY <2>6
      <3>2. PICK rest, t : /\ rest = [old EXCEPT !.vouchers = @ \ {v}]
                           /\ t = IF old.lower THEN trust[v] \div 2 ELSE Restored(trust[v])
          OBVIOUS
      <3>3. PICK write : write = [op |-> "write", id |-> v, rest |-> rest, trust |-> t]
          OBVIOUS
      <3>4. rest.op = "adjust"
          BY <2>3, <3>2 DEF AdjustCall
      <3>5. CASE trust[v] = NoTrust
        <4>1. socialCall' = [socialCall EXCEPT ![k] = rest]
            BY <3>1, <3>2, <3>5
        <4> QED BY <4>1, <3>4, <2>4, WeightsRead DEF WeighedCall
      <3>6. CASE trust[v] # NoTrust
        <4>1. socialCall' = [socialCall EXCEPT ![k] = write]
            BY <3>1, <3>2, <3>3, <3>6
        <4>2. trust[v] \in 0..Full
            BY <2>3, <3>6 DEF AdjustCall, WeightsInv, Weighed
        <4>3. t \in 0..Full
            BY <1>0, <3>2, <4>2 DEF Restored
        <4>4. WeighedCall(write)
            BY <3>3, <4>3 DEF WeighedCall
        <4> QED BY <4>1, <4>4, <2>4, WeightsRead
      <3> QED BY <3>5, <3>6
    <2> QED BY <1>10, <2>1, <2>5, <2>6 DEF AdjustReads, Becomes
  <1>11. CASE UNCHANGED socialVars
      BY <1>11 DEF socialVars, WeightsInv, Weighed, WeighedCall
  <1> QED BY <1>1, <1>2, <1>3, <1>4, <1>5, <1>6, <1>7, <1>8, <1>9, <1>10, <1>11 DEF SocialNext

(* No trust and no weight of a vouch leaves its range, whatever is         *)
(* averaged, penalized and reinstated (CompleteCeremony, Reinstate).       *)
THEOREM SocialTypes == SocialSpec => []SocialTypeOK
  <1>1. SocialInit => WeightsInv
      BY SocialBounds DEF SocialInit, WeightsInv, Weighed, Ids, Vouchers
  <1>2. SocialShape /\ WeightsInv => SocialTypeOK
      BY DEF SocialShape, WeightsInv, Weighed, SocialTypeOK, Vouchers
  <1> QED BY SocialInitial, SocialStep, <1>1, WeightsStep, <1>2, PTL DEF SocialSpec

-----------------------------------------------------------------------------
(* The methods decided by webhook (Webhook).                               *)

(* The vendor gave this status to an inquiry it made for the session, in a *)
(* post handled at that time, no more than the window after it was signed. *)
Verdict(s, i, status, at) ==
  /\ s \in Sessions /\ i \in Inquiries /\ owner[i] = s /\ at \in 0..MaxTime
  /\ \E p \in posts :
       /\ p.inquiry = i /\ p.event \in said[i] /\ StatusOf(p.event) = status
       /\ at - p.t \in 0..ReplayWindow

(* A binding is of the vendor's own session; a post in transit that bears  *)
(* the secret tells what was said, in the past.                            *)
WebhookShape ==
  /\ deployed \in Deployments /\ now \in 0..MaxTime /\ restarts \in 0..MaxRestarts
  /\ byInquiry \in [Inquiries -> Sessions \cup {None}] /\ DOMAIN bySession = Sessions
  /\ hpc \in [Handlers -> {"idle", "bind", "put", "record"}] /\ DOMAIN call = Handlers
  /\ owner \in [Inquiries -> Sessions \cup {None}] /\ DOMAIN said = Inquiries
  /\ \A i \in Inquiries : byInquiry[i] # None => byInquiry[i] = owner[i]
  /\ \A p \in posts : p.inquiry \in Inquiries /\ p.event \in said[p.inquiry] /\ p.t \in 0..now

(* What a request carries is bound, or a verdict, or a verdict to record.  *)
CarriesVerdict(h) ==
  /\ hpc[h] = "bind" =>
       call[h].s \in Sessions /\ call[h].i \in Inquiries /\ owner[call[h].i] = call[h].s
  /\ hpc[h] = "put" => Verdict(call[h].s, call[h].i, StatusOf(call[h].e), call[h].at)
  /\ hpc[h] = "record" =>
       Verdict(call[h].s, call[h].result.inquiry, "approved", call[h].result.at)
StoresVerdicts ==
  \A s \in Sessions : bySession[s] # None =>
    Verdict(s, bySession[s].inquiry, bySession[s].status, bySession[s].at)
RecordsVerdicts ==
  \A r \in recorded :
    r \in Sessions \X Inquiries \X (0..MaxTime) /\ Verdict(r[1], r[2], "approved", r[3])
WebhookInv ==
  WebhookShape /\ StoresVerdicts /\ RecordsVerdicts /\ \A h \in Handlers : CarriesVerdict(h)

(* A verdict stands as long as the deployment does: an inquiry keeps the   *)
(* session it was made for, and what was said and posted stays so.         *)
Stands ==
  /\ deployed' = deployed /\ posts \subseteq posts'
  /\ \A i \in Inquiries : said[i] \subseteq said'[i] /\ (owner[i] # None => owner'[i] = owner[i])

LEMMA VerdictStands ==
  ASSUME Stands
  PROVE  \A s, i, status, at : Verdict(s, i, status, at) => Verdict(s, i, status, at)'
  <1> SUFFICES ASSUME NEW s, NEW i, NEW status, NEW at, Verdict(s, i, status, at)
               PROVE  Verdict(s, i, status, at)'
      OBVIOUS
  <1>1. s \in Sessions /\ i \in Inquiries /\ owner'[i] = s /\ at \in 0..MaxTime
      BY WebhookAssumption DEF Verdict, Stands
  <1>2. PICK p \in posts : /\ p.inquiry = i /\ p.event \in said[i] /\ StatusOf(p.event) = status
                           /\ at - p.t \in 0..ReplayWindow
      BY DEF Verdict
  <1>3. p \in posts' /\ p.event \in said'[i]
      BY <1>1, <1>2 DEF Stands
  <1>4. StatusOf(p.event)' = status
      BY <1>2 DEF Stands, StatusOf
  <1> QED BY <1>1, <1>2, <1>3, <1>4 DEF Verdict

(* What a request carries, when the request is not the one that moves.     *)
LEMMA CarriedStands ==
  ASSUME Stands, NEW h \in Handlers, CarriesVerdict(h), hpc'[h] = hpc[h], call'[h] = call[h]
  PROVE  CarriesVerdict(h)'
  <1>1. StatusOf(call[h].e)' = StatusOf(call[h].e)
      BY DEF Stands, StatusOf
  <1>2. hpc[h] = "bind" => owner'[call[h].i] = call[h].s
      BY WebhookAssumption DEF CarriesVerdict, Stands
  <1>3. hpc[h] = "put" => Verdict(call[h].s, call[h].i, StatusOf(call[h].e), call[h].at)'
      BY <1>1, VerdictStands DEF CarriesVerdict
  <1>4. hpc[h] = "record" =>
          Verdict(call[h].s, call[h].result.inquiry, "approved", call[h].result.at)'
      BY VerdictStands DEF CarriesVerdict
  <1> QED BY <1>1, <1>2, <1>3, <1>4 DEF CarriesVerdict

(* What is stored and recorded, when it is not what the step writes.       *)
LEMMA StoresStand ==
  ASSUME WebhookInv, Stands, bySession' = bySession
  PROVE  StoresVerdicts'
  BY VerdictStands DEF WebhookInv, StoresVerdicts

LEMMA RecordsStand ==
  ASSUME WebhookInv, Stands, recorded' = recorded
  PROVE  RecordsVerdicts'
  BY VerdictStands DEF WebhookInv, RecordsVerdicts

(* One request moves: what the others carry stands.                        *)
LEMMA OthersCarry ==
  ASSUME WebhookInv, Stands, NEW h \in Handlers,
         \A k \in Handlers \ {h} : hpc'[k] = hpc[k] /\ call'[k] = call[k]
  PROVE  \A k \in Handlers \ {h} : CarriesVerdict(k)'
  <1> SUFFICES ASSUME NEW k \in Handlers \ {h} PROVE CarriesVerdict(k)'
      OBVIOUS
  <1>1. CarriesVerdict(k) /\ hpc'[k] = hpc[k] /\ call'[k] = call[k] /\ k \in Handlers
      BY DEF WebhookInv
  <1> QED BY <1>1, CarriedStands

LEMMA WebhookInitial == WebhookInit => WebhookInv
  <1> SUFFICES ASSUME WebhookInit PROVE WebhookInv
      OBVIOUS
  <1>1. WebhookShape
      BY WebhookAssumption DEF WebhookInit, WebhookShape
  <1> QED BY <1>1 DEF WebhookInit, WebhookInv, StoresVerdicts, RecordsVerdicts, CarriesVerdict

(* An inquiry is made for a session once, before it is bound.              *)
LEMMA BeginStep ==
  ASSUME WebhookInv, NEW h \in Handlers, NEW s \in Sessions, NEW i \in Inquiries, BeginCeremony(h, s, i)
  PROVE  WebhookInv'
  <1> DEFINE carries == [s |-> s, i |-> i]
  <1>1. /\ owner[i] = None /\ owner' = [owner EXCEPT ![i] = s]
        /\ hpc' = [hpc EXCEPT ![h] = "bind"] /\ call' = [call EXCEPT ![h] = carries]
        /\ UNCHANGED <<deployed, now, restarts, byInquiry, bySession, recorded, said, posts>>
      BY DEF BeginCeremony, Goes, storeVars
  <1>2. carries.s = s /\ carries.i = i
      OBVIOUS
  <1> HIDE DEF carries
  <1>3. \A j \in Inquiries : owner'[j] = IF j = i THEN s ELSE owner[j]
      BY <1>1 DEF WebhookInv, WebhookShape
  <1>4. Stands
      BY <1>1, <1>3 DEF Stands
  <1>5. hpc'[h] = "bind" /\ call'[h] = carries
      BY <1>1 DEF WebhookInv, WebhookShape
  <1>6. CarriesVerdict(h)'
      BY <1>2, <1>3, <1>5 DEF CarriesVerdict
  <1>7. /\ hpc' \in [Handlers -> {"idle", "bind", "put", "record"}] /\ DOMAIN call' = Handlers
        /\ \A k \in Handlers : CarriesVerdict(k)'
    <2>1. /\ hpc' \in [Handlers -> {"idle", "bind", "put", "record"}] /\ DOMAIN call' = Handlers
          /\ \A k \in Handlers \ {h} : hpc'[k] = hpc[k] /\ call'[k] = call[k]
        BY <1>1 DEF WebhookInv, WebhookShape
    <2>2. \A k \in Handlers \ {h} : CarriesVerdict(k)'
        BY <2>1, <1>4, OthersCarry
    <2>3. \A k \in Handlers : CarriesVerdict(k)'
        BY <2>2, <1>6
    <2> QED BY <2>1, <2>3
  <1>8. \A j \in Inquiries : byInquiry'[j] # None => byInquiry'[j] = owner'[j]
      BY <1>1, <1>3 DEF WebhookInv, WebhookShape
  <1>9. WebhookShape'
      BY <1>1, <1>7, <1>8 DEF WebhookInv, WebhookShape
  <1> QED BY <1>1, <1>4, <1>7, <1>9, StoresStand, RecordsStand DEF WebhookInv

(* The binding is of the session that the inquiry was made for.            *)
LEMMA BindStep ==
  ASSUME WebhookInv, NEW h \in Handlers, PutInquiry(h)
  PROVE  WebhookInv'
  <1> DEFINE i == call[h].i
  <1>1. /\ hpc[h] = "bind" /\ (byInquiry' = [byInquiry EXCEPT ![i] = call[h].s] \/ byInquiry' = byInquiry)
        /\ hpc' = [hpc EXCEPT ![h] = "idle"] /\ call' = [call EXCEPT ![h] = None]
        /\ UNCHANGED <<deployed, now, restarts, bySession, recorded, owner, said, posts>>
      BY DEF PutInquiry, Returns, Goes, vendorVars
  <1>2. i \in Inquiries /\ call[h].s \in Sessions /\ owner[i] = call[h].s
      BY <1>1 DEF WebhookInv, CarriesVerdict
  <1>3. Stands
      BY <1>1 DEF Stands
  <1>4. CarriesVerdict(h)'
      BY <1>1 DEF CarriesVerdict, WebhookInv, WebhookShape
  <1>5. /\ hpc' \in [Handlers -> {"idle", "bind", "put", "record"}] /\ DOMAIN call' = Handlers
        /\ \A k \in Handlers : CarriesVerdict(k)'
    <2>1. /\ hpc' \in [Handlers -> {"idle", "bind", "put", "record"}] /\ DOMAIN call' = Handlers
          /\ \A k \in Handlers \ {h} : hpc'[k] = hpc[k] /\ call'[k] = call[k]
        BY <1>1 DEF WebhookInv, WebhookShape
    <2>2. \A k \in Handlers \ {h} : CarriesVerdict(k)'
        BY <2>1, <1>3, OthersCarry
    <2>3. \A k \in Handlers : CarriesVerdict(k)'
        BY <2>2, <1>4
    <2> QED BY <2>1, <2>3
  <1> HIDE DEF i
  <1>6. /\ byInquiry' \in [Inquiries -> Sessions \cup {None}]
        /\ \A j \in Inquiries : byInquiry'[j] # None => byInquiry'[j] = owner'[j]
      BY <1>1, <1>2 DEF WebhookInv, WebhookShape
  <1>7. WebhookShape'
      BY <1>1, <1>5, <1>6 DEF WebhookInv, WebhookShape
  <1> QED BY <1>1, <1>3, <1>5, <1>7, StoresStand, RecordsStand DEF WebhookInv

(* The vendor says more, and posts what it said.                           *)
LEMMA PostingStep ==
  ASSUME WebhookInv, NEW i \in Inquiries, NEW e, NEW sigs,
         e \in said'[i], said' = [said EXCEPT ![i] = @ \cup {e}] \/ said' = said,
         posts' = posts \cup {Post(i, e, sigs)},
         UNCHANGED <<deployed, now, restarts, storeVars, hpc, call, recorded, owner>>
  PROVE  WebhookInv'
  <1> DEFINE new == Post(i, e, sigs)
  <1>1. new.inquiry = i /\ new.event = e /\ new.t = now
      BY DEF Post
  <1>2. posts' = posts \cup {new}
      OBVIOUS
  <1> HIDE DEF new
  <1>3. DOMAIN said' = Inquiries /\ \A j \in Inquiries : said[j] \subseteq said'[j]
      BY DEF WebhookInv, WebhookShape
  <1>4. Stands
      BY <1>2, <1>3 DEF Stands
  <1>5. \A p \in posts' : p.inquiry \in Inquiries /\ p.event \in said'[p.inquiry] /\ p.t \in 0..now'
      BY <1>1, <1>2, <1>3 DEF WebhookInv, WebhookShape
  <1>6. WebhookShape'
      BY <1>3, <1>5 DEF WebhookInv, WebhookShape, storeVars
  <1>7. \A k \in Handlers : CarriesVerdict(k)'
      BY <1>4, CarriedStands DEF WebhookInv
  <1> QED BY <1>4, <1>6, <1>7, StoresStand, RecordsStand DEF WebhookInv, storeVars

LEMMA EmitStep ==
  ASSUME WebhookInv, NEW i \in Inquiries, NEW e, Emit(i, e)
  PROVE  WebhookInv'
  <1>1. /\ said' = [said EXCEPT ![i] = @ \cup {e}] /\ e \in said'[i]
        /\ posts' = posts \cup {Post(i, e, {"current", "other"})}
        /\ UNCHANGED <<deployed, now, restarts, storeVars, hpc, call, recorded, owner>>
      BY DEF Emit, WebhookInv, WebhookShape
  <1> QED BY <1>1, PostingStep

LEMMA ResendStep ==
  ASSUME WebhookInv, NEW i \in Inquiries, NEW e, Resend(i, e)
  PROVE  WebhookInv'
  <1>1. /\ said' = said /\ e \in said'[i] /\ posts' = posts \cup {Post(i, e, {"current"})}
        /\ UNCHANGED <<deployed, now, restarts, storeVars, hpc, call, recorded, owner>>
      BY DEF Resend
  <1> QED BY <1>1, PostingStep

(* A request moves that leaves all else alone: what it carries is all      *)
(* there is to see to.                                                     *)
LEMMA RequestMoves ==
  ASSUME WebhookInv, NEW h \in Handlers, Stands, CarriesVerdict(h)',
         DOMAIN call' = Handlers, hpc' \in [Handlers -> {"idle", "bind", "put", "record"}],
         \A k \in Handlers \ {h} : hpc'[k] = hpc[k] /\ call'[k] = call[k],
         UNCHANGED <<deployed, now, restarts, byInquiry, owner, said, posts>>,
         DOMAIN bySession' = DOMAIN bySession, StoresVerdicts', RecordsVerdicts'
  PROVE  WebhookInv'
  <1>1. \A k \in Handlers \ {h} : CarriesVerdict(k)'
      BY OthersCarry
  <1>2. \A k \in Handlers : CarriesVerdict(k)'
      BY <1>1
  <1>3. WebhookShape'
      BY DEF WebhookInv, WebhookShape
  <1> QED BY <1>2, <1>3 DEF WebhookInv

(* A post that is accepted bears the secret, so the vendor sent it within  *)
(* the window, and the session found is the one its inquiry was made for.  *)
LEMMA PostStep ==
  ASSUME WebhookInv, NEW h \in Handlers, NEW p \in posts, NEW s, Accept(h, p, s),
         VerifyWebhookSignature(p), s = owner[p.inquiry]
  PROVE  WebhookInv'
  <1> DEFINE next == [s |-> s, i |-> p.inquiry, e |-> p.event, at |-> now]
  <1>1. /\ s # None /\ hpc' = [hpc EXCEPT ![h] = "put"] /\ call' = [call EXCEPT ![h] = next]
        /\ UNCHANGED <<deployed, now, restarts, byInquiry, bySession, recorded, owner, said, posts>>
      BY DEF Accept, Goes, storeVars, vendorVars
  <1>2. next.s = s /\ next.i = p.inquiry /\ next.e = p.event /\ next.at = now
      OBVIOUS
  <1> HIDE DEF next
  <1>3. /\ p.inquiry \in Inquiries /\ p.event \in said[p.inquiry] /\ s \in Sessions
        /\ p.t \in 0..now /\ now \in 0..MaxTime
      BY <1>1 DEF WebhookInv, WebhookShape
  <1>4. now - p.t \in 0..ReplayWindow
    <2>1. MaxTime \in Nat /\ ReplayWindow \in Nat
        BY WebhookAssumption
    <2> QED BY <1>3, <2>1 DEF VerifyWebhookSignature
  <1>5. Verdict(s, p.inquiry, StatusOf(p.event), now)
      BY <1>3, <1>4 DEF Verdict
  <1>6. Stands
      BY <1>1 DEF Stands
  <1>7. /\ hpc' \in [Handlers -> {"idle", "bind", "put", "record"}] /\ DOMAIN call' = Handlers
        /\ hpc'[h] = "put" /\ call'[h] = next
        /\ \A k \in Handlers \ {h} : hpc'[k] = hpc[k] /\ call'[k] = call[k]
      BY <1>1 DEF WebhookInv, WebhookShape
  <1>8. CarriesVerdict(h)'
    <2>1. Verdict(s, p.inquiry, StatusOf(p.event), now)'
        BY <1>5, VerdictStands, <1>1, <1>6 DEF StatusOf, Verdict
    <2>2. StatusOf(call[h].e)' = StatusOf(p.event)'
        BY <1>2, <1>7 DEF StatusOf
    <2>3. Verdict(call[h].s, call[h].i, StatusOf(call[h].e), call[h].at)'
        BY <1>1, <1>2, <1>7, <2>1, <2>2 DEF Verdict
    <2> QED BY <2>3, <1>7 DEF CarriesVerdict
  <1> QED BY <1>1, <1>6, <1>7, <1>8, StoresStand, RecordsStand, RequestMoves

(* Whoever posts, what passes the signature is a post of the vendor's.     *)
LEMMA SignedIsPosted ==
  ASSUME NEW p \in posts \cup PostsByOthers, VerifyWebhookSignature(p)
  PROVE  p \in posts /\ "current" \in p.sigs
  BY DEF VerifyWebhookSignature, PostsByOthers, Post

(* The store's binding, when there is one, agrees with the vendor.         *)
LEMMA BoundIsOwner ==
  ASSUME WebhookInv, NEW p \in posts, NEW found
  PROVE  Bound(p, found) # None => Bound(p, found) = owner[p.inquiry]
  BY DEF WebhookInv, WebhookShape, Bound

LEMMA DropStep ==
  ASSUME WebhookInv, NEW h \in Handlers, NEW p, Drop(h, p)
  PROVE  WebhookInv'
  <1>1. UNCHANGED <<deployed, now, restarts, byInquiry, bySession, hpc, call, recorded, owner, said, posts>>
      BY DEF Drop, storeVars
  <1>2. Stands
      BY <1>1 DEF Stands
  <1>3. \A k \in Handlers : CarriesVerdict(k)'
      BY <1>1, <1>2, CarriedStands DEF WebhookInv
  <1>4. WebhookShape'
      BY <1>1 DEF WebhookInv, WebhookShape
  <1> QED BY <1>1, <1>2, <1>3, <1>4, StoresStand, RecordsStand DEF WebhookInv

LEMMA WebhookStep ==
  ASSUME WebhookInv, NEW h \in Handlers, NEW p \in posts \cup PostsByOthers, Webhook(h, p)
  PROVE  WebhookInv'
  <1>1. VerifyWebhookSignature(p)
      BY DEF Webhook, PersonaWebhook, PlaidWebhook, StripeWebhook, VerifyPlaidSignature,
             VerifyStripeSignature
  <1>2. p \in posts /\ "current" \in p.sigs
      BY <1>1, SignedIsPosted
  <1>3. ASSUME NEW s, Accept(h, p, s), s = owner[p.inquiry] PROVE WebhookInv'
      BY <1>1, <1>2, <1>3, PostStep
  <1>4. ASSUME NEW s, Accept(h, p, s) PROVE s # None
      BY <1>4 DEF Accept
  <1>5. CASE PersonaWebhook(h, p)
    <2>1. PICK ref \in Refs(p), found \in Founds : Accept(h, p, PersonaSession(p, ref, found))
        BY <1>5 DEF PersonaWebhook
    <2>2. ref \in {owner[p.inquiry], None}
        BY <1>2, <1>5, <2>1 DEF PersonaWebhook, Refs
    <2>3. PICK s : s = PersonaSession(p, ref, found)
        OBVIOUS
    <2>4. s # None => s = owner[p.inquiry]
        BY <1>2, <2>2, <2>3, BoundIsOwner DEF PersonaSession
    <2> QED BY <1>3, <1>4, <2>1, <2>3, <2>4
  <1>6. CASE PlaidWebhook(h, p)
    <2>1. CASE Drop(h, p)
        BY <2>1, DropStep
    <2>2. CASE \E found \in Founds : Accept(h, p, PlaidSession(p, found))
      <3>1. PICK found \in Founds : Accept(h, p, PlaidSession(p, found))
          BY <2>2
      <3>2. PICK s : s = PlaidSession(p, found)
          OBVIOUS
      <3>3. s # None => s = owner[p.inquiry]
          BY <1>2, <3>2, BoundIsOwner DEF PlaidSession
      <3> QED BY <1>3, <1>4, <3>1, <3>2, <3>3
    <2> QED BY <1>6, <2>1, <2>2 DEF PlaidWebhook
  <1>7. CASE StripeWebhook(h, p)
    <2>1. CASE Drop(h, p)
        BY <2>1, DropStep
    <2>2. CASE \E ref \in Refs(p), found \in Founds : Accept(h, p, StripeSession(p, ref, found))
      <3>1. PICK ref \in Refs(p), found \in Founds : Accept(h, p, StripeSession(p, ref, found))
          BY <2>2
      <3>2. ref \in {owner[p.inquiry]}
          BY <1>2, <1>7, <3>1 DEF StripeWebhook, Refs
      <3>3. PICK s : s = StripeSession(p, ref, found)
          OBVIOUS
      <3>4. s # None => s = owner[p.inquiry]
          BY <1>2, <3>2, <3>3, BoundIsOwner DEF StripeSession
      <3> QED BY <1>3, <1>4, <3>1, <3>3, <3>4
    <2> QED BY <1>7, <2>1, <2>2 DEF StripeWebhook
  <1> QED BY <1>5, <1>6, <1>7 DEF Webhook

(* The store takes the verdict that the request carries.                   *)
LEMMA PutStep ==
  ASSUME WebhookInv, NEW h \in Handlers, PutResult(h)
  PROVE  WebhookInv'
  <1> DEFINE result == [inquiry |-> call[h].i, status |-> StatusOf(call[h].e), at |-> call[h].at]
  <1>1. /\ hpc[h] = "put" /\ hpc' = [hpc EXCEPT ![h] = "idle"] /\ call' = [call EXCEPT ![h] = None]
        /\ bySession' = [bySession EXCEPT ![call[h].s] = result] \/ bySession' = bySession
        /\ UNCHANGED <<deployed, now, restarts, byInquiry, recorded, owner, said, posts>>
      BY DEF PutResult, Returns, Goes
  <1>2. Verdict(call[h].s, result.inquiry, result.status, result.at)
      BY <1>1 DEF WebhookInv, CarriesVerdict
  <1> HIDE DEF result
  <1>3. Stands
      BY <1>1 DEF Stands
  <1>4. /\ hpc' \in [Handlers -> {"idle", "bind", "put", "record"}] /\ DOMAIN call' = Handlers
        /\ hpc'[h] = "idle" /\ DOMAIN bySession' = DOMAIN bySession
        /\ \A k \in Handlers \ {h} : hpc'[k] = hpc[k] /\ call'[k] = call[k]
      BY <1>1 DEF WebhookInv, WebhookShape
  <1>5. CarriesVerdict(h)'
      BY <1>4 DEF CarriesVerdict
  <1>6. StoresVerdicts'
    <2> SUFFICES ASSUME NEW s \in Sessions, bySession'[s] # None
                 PROVE  Verdict(s, bySession[s].inquiry, bySession[s].status, bySession[s].at)'
        BY DEF StoresVerdicts
    <2>1. CASE bySession'[s] = bySession[s]
        BY <2>1, <1>3, VerdictStands DEF WebhookInv, StoresVerdicts
    <2>2. CASE bySession'[s] # bySession[s]
      <3>1. s = call[h].s /\ bySession'[s] = result
          BY <2>2, <1>1 DEF WebhookInv, WebhookShape
      <3>2. Verdict(s, result.inquiry, result.status, result.at)
          BY <3>1, <1>2
      <3> QED BY <3>1, <3>2, <1>3, VerdictStands
    <2> QED BY <2>1, <2>2
  <1> QED BY <1>1, <1>3, <1>4, <1>5, <1>6, RecordsStand, RequestMoves

(* An approval is read, to be recorded.                                    *)
LEMMA GetStep ==
  ASSUME WebhookInv, NEW h \in Handlers, NEW s \in Sessions, GetResult(h, s)
  PROVE  WebhookInv'
  <1> DEFINE next == [s |-> s, result |-> bySession[s]]
  <1>1. /\ bySession[s] # None /\ bySession[s].status = "approved"
        /\ hpc' = [hpc EXCEPT ![h] = "record"] /\ call' = [call EXCEPT ![h] = next]
        /\ UNCHANGED <<deployed, now, restarts, byInquiry, bySession, recorded, owner, said, posts>>
      BY DEF GetResult, Goes, storeVars, vendorVars
  <1>2. next.s = s /\ next.result = bySession[s]
      OBVIOUS
  <1> HIDE DEF next
  <1>3. Verdict(s, bySession[s].inquiry, "approved", bySession[s].at)
      BY <1>1 DEF WebhookInv, StoresVerdicts
  <1>4. Stands
      BY <1>1 DEF Stands
  <1>5. /\ hpc' \in [Handlers -> {"idle", "bind", "put", "record"}] /\ DOMAIN call' = Handlers
        /\ hpc'[h] = "record" /\ call'[h] = next
        /\ \A k \in Handlers \ {h} : hpc'[k] = hpc[k] /\ call'[k] = call[k]
      BY <1>1 DEF WebhookInv, WebhookShape
  <1>6. Verdict(call[h].s, call[h].result.inquiry, "approved", call[h].result.at)'
      BY <1>1, <1>2, <1>3, <1>4, <1>5, VerdictStands
  <1>7. CarriesVerdict(h)'
      BY <1>5, <1>6 DEF CarriesVerdict
  <1> QED BY <1>1, <1>4, <1>5, <1>7, StoresStand, RecordsStand, RequestMoves

(* The approval that was read is recorded.                                 *)
LEMMA RecordVerifiedStep ==
  ASSUME WebhookInv, NEW h \in Handlers, recordVerified(h)
  PROVE  WebhookInv'
  <1> DEFINE new == <<call[h].s, call[h].result.inquiry, call[h].result.at>>
  <1>1. /\ hpc[h] = "record" /\ recorded' = recorded \cup {new}
        /\ hpc' = [hpc EXCEPT ![h] = "idle"] /\ call' = [call EXCEPT ![h] = None]
        /\ UNCHANGED <<deployed, now, restarts, byInquiry, bySession, owner, said, posts>>
      BY DEF recordVerified, Returns, Goes, storeVars, vendorVars
  <1>2. /\ Verdict(new[1], new[2], "approved", new[3])
        /\ new \in Sessions \X Inquiries \X (0..MaxTime)
      BY <1>1 DEF WebhookInv, CarriesVerdict, Verdict
  <1> HIDE DEF new
  <1>3. Stands
      BY <1>1 DEF Stands
  <1>4. /\ hpc' \in [Handlers -> {"idle", "bind", "put", "record"}] /\ DOMAIN call' = Handlers
        /\ hpc'[h] = "idle"
        /\ \A k \in Handlers \ {h} : hpc'[k] = hpc[k] /\ call'[k] = call[k]
      BY <1>1 DEF WebhookInv, WebhookShape
  <1>5. CarriesVerdict(h)'
      BY <1>4 DEF CarriesVerdict
  <1>6. RecordsVerdicts'
    <2> SUFFICES ASSUME NEW r \in recorded'
                 PROVE  /\ r \in Sessions \X Inquiries \X (0..MaxTime)
                        /\ Verdict(r[1], r[2], "approved", r[3])'
        BY DEF RecordsVerdicts
    <2>1. r \in Sessions \X Inquiries \X (0..MaxTime) /\ Verdict(r[1], r[2], "approved", r[3])
        BY <1>1, <1>2 DEF WebhookInv, RecordsVerdicts
    <2> QED BY <2>1, <1>3, VerdictStands
  <1> QED BY <1>1, <1>3, <1>4, <1>5, <1>6, StoresStand, RequestMoves

(* A restart takes what is in memory, never what is with the vendor.       *)
LEMMA RestartStep ==
  ASSUME WebhookInv, Restart
  PROVE  WebhookInv'
  <1>1. /\ restarts < MaxRestarts /\ restarts' = restarts + 1
        /\ hpc' = [h \in Handlers |-> "idle"] /\ call' = [h \in Handlers |-> None]
        /\ \/ byInquiry' = [i \in Inquiries |-> None] /\ bySession' = [s \in Sessions |-> None]
           \/ byInquiry' = byInquiry /\ bySession' = bySession
        /\ UNCHANGED <<deployed, now, recorded, owner, said, posts>>
      BY DEF Restart, storeVars, vendorVars
  <1>2. Stands
      BY <1>1 DEF Stands
  <1>3. restarts' \in 0..MaxRestarts
      BY <1>1, WebhookAssumption DEF WebhookInv, WebhookShape
  <1>4. WebhookShape'
      BY <1>1, <1>3 DEF WebhookInv, WebhookShape
  <1>5. \A h \in Handlers : CarriesVerdict(h)'
      BY <1>1 DEF CarriesVerdict
  <1>6. StoresVerdicts'
      BY <1>1, <1>2, StoresStand DEF StoresVerdicts
  <1> QED BY <1>1, <1>2, <1>4, <1>5, <1>6, RecordsStand DEF WebhookInv

LEMMA TickStep ==
  ASSUME WebhookInv, Tick \/ UNCHANGED webhookVars
  PROVE  WebhookInv'
  <1>1. /\ now' \in now..MaxTime
        /\ UNCHANGED <<deployed, restarts, byInquiry, bySession, hpc, call, recorded, owner, said, posts>>
      BY WebhookAssumption DEF Tick, webhookVars, WebhookInv, WebhookShape, storeVars, vendorVars
  <1>2. Stands
      BY <1>1 DEF Stands
  <1>3. \A p \in posts' : p.inquiry \in Inquiries /\ p.event \in said'[p.inquiry] /\ p.t \in 0..now'
      BY <1>1, WebhookAssumption DEF WebhookInv, WebhookShape
  <1>4. now' \in 0..MaxTime
      BY <1>1, WebhookAssumption DEF WebhookInv, WebhookShape
  <1>5. WebhookShape'
      BY <1>1, <1>3, <1>4 DEF WebhookInv, WebhookShape
  <1>6. \A k \in Handlers : CarriesVerdict(k)'
      BY <1>1, <1>2, CarriedStands DEF WebhookInv
  <1> QED BY <1>1, <1>2, <1>5, <1>6, StoresStand, RecordsStand DEF WebhookInv

LEMMA WebhooksStep ==
  ASSUME WebhookInv, [WebhookNext]_webhookVars
  PROVE  WebhookInv'
  <1>1. ASSUME NEW h \in Handlers, NEW s \in Sessions, NEW i \in Inquiries, BeginCeremony(h, s, i)
        PROVE  WebhookInv'
      BY <1>1, BeginStep
  <1>2. ASSUME NEW h \in Handlers, Begins(h) PROVE WebhookInv'
      BY <1>1, <1>2 DEF Begins, CreateInquiry, CreateLinkSession, CreateSetupIntent
  <1>3. ASSUME NEW h \in Handlers, Steps(h) PROVE WebhookInv'
      BY <1>3, BindStep, PutStep, RecordVerifiedStep DEF Steps
  <1>4. ASSUME NEW h \in Handlers, NEW s \in Sessions,
               CompleteGovernmentID(h, s) \/ CompleteBankLink(h, s) \/ CompleteCard(h, s)
        PROVE  WebhookInv'
      BY <1>4, GetStep DEF CompleteGovernmentID, CompleteBankLink, CompleteCard
  <1>5. ASSUME NEW i \in Inquiries, NEW e \in Events, Emit(i, e) \/ Resend(i, e) PROVE WebhookInv'
      BY <1>5, EmitStep, ResendStep
  <1> QED BY <1>2, <1>3, <1>4, <1>5, WebhookStep, RestartStep, TickStep DEF WebhookNext

(* For any number of sessions, inquiries, requests, posts and restarts: a  *)
(* session records a verdict only from an inquiry made for it, which the   *)
(* vendor itself reported approved no more than the replay window before   *)
(* the time recorded (NewWebhookHandler, WebhookReplayWindow).             *)
THEOREM VerifiedAsApprovedHolds == WebhookSpec => []VerifiedAsApproved
  <1>1. WebhookInv => VerifiedAsApproved
    <2> SUFFICES ASSUME WebhookInv, NEW r \in recorded
                 PROVE  /\ owner[r[2]] = r[1] /\ \E e \in said[r[2]] : StatusOf(e) = "approved"
                        /\ \E p \in posts : /\ p.inquiry = r[2] /\ StatusOf(p.event) = "approved"
                                            /\ r[3] - p.t \in 0..ReplayWindow
        BY DEF VerifiedAsApproved, VerifiedWasApproved, VerifiedWhenPosted
    <2>1. Verdict(r[1], r[2], "approved", r[3])
        BY DEF WebhookInv, RecordsVerdicts
    <2> QED BY <2>1 DEF Verdict
  <1> QED BY WebhookInitial, WebhooksStep, <1>1, PTL DEF WebhookSpec

(* The store binds only inquiries that the vendor made, and keeps results  *)
(* of inquiries only (the binding and result stores).                      *)
THEOREM WebhookTypes == WebhookSpec => []WebhookTypeOK
  <1>1. WebhookInv => WebhookTypeOK
    <2> SUFFICES ASSUME WebhookInv PROVE WebhookTypeOK
        OBVIOUS
    <2>1. \A s \in Sessions : bySession[s] = None \/ bySession[s].inquiry \in Inquiries
        BY DEF WebhookInv, StoresVerdicts, Verdict
    <2>2. \A h \in Handlers : hpc[h] # "idle" => call[h].s \in Sessions
        BY DEF WebhookInv, WebhookShape, CarriesVerdict, Verdict
    <2>3. recorded \subseteq Sessions \X Inquiries \X (0..MaxTime)
        BY DEF WebhookInv, RecordsVerdicts
    <2>4. \A i \in Inquiries : byInquiry[i] # None => owner[i] # None
        BY DEF WebhookInv, WebhookShape
    <2> QED BY <2>1, <2>2, <2>3, <2>4 DEF WebhookTypeOK, WebhookInv, WebhookShape
  <1> QED BY WebhookInitial, WebhooksStep, <1>1, PTL DEF WebhookSpec
=============================================================================
