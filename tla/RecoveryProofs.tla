--------------------------- MODULE RecoveryProofs ---------------------------
(***************************************************************************)
(* Proofs about Recovery for any number of keys, faces, sessions and       *)
(* recoveries, whatever store requests fail.                               *)
(***************************************************************************)
EXTENDS Recovery, TLAPS

(* A document that was opened names its parties and its face.              *)
DocsFilled ==
  \A r \in Recoveries : rec[r].status # "none" =>
    rec[r].old \in Keys /\ rec[r].new \in Keys /\ rec[r].face \in Faces

(* What a handler holds between two requests: a start call the old key,    *)
(* a complete call its recovery, which is completed once it is closed and  *)
(* whose old key is barred from then on, an issue call that has recorded a *)
(* credential with a face that face.                                       *)
HandlersHold ==
  \A s \in Sessions :
    /\ pc[s] = "open" => reg[s] \in Keys /\ match[s] \in Faces
    /\ pc[s] \in {"close", "retire", "read", "revoke"} =>
         /\ reg[s] \in Recoveries
         /\ rec[reg[s]].status # "none"
         /\ rec[reg[s]].new = HolderDID[s]
    /\ pc[s] \in {"retire", "read", "revoke"} => rec[reg[s]].status = "completed"
    /\ pc[s] \in {"read", "revoke"} => rec[reg[s]].old \in retired
    /\ pc[s] \in {"holder", "links"} => credited[s] \in Faces

(* Only a session with a match can have declined it.                       *)
DeclinedMatched == \A s \in declined : match[s] \in Faces

TypeInv == TypeOK /\ DocsFilled /\ HandlersHold /\ DeclinedMatched

(* A recovery that was opened and, while it is pending, is the one its     *)
(* identity's history names.                                               *)
Tracked(r) ==
  /\ rec[r].status # "none"
  /\ Pending(r) => active[rec[r].face] = r

(* Whatever a client knows the id of, or a complete call is about to       *)
(* close, is tracked.                                                      *)
FoundInv ==
  /\ \A r \in Recoveries : Findable(r) => Tracked(r)
  /\ \A s \in Sessions : pc[s] = "close" => Tracked(reg[s])

(* k enrolled f or is the new key of a completed recovery of it.           *)
Rightful(k, f) ==
  \/ k = firstHolder[f]
  \/ \E r \in Recoveries : /\ rec[r].status = "completed"
                           /\ rec[r].face = f /\ rec[r].new = k

(* A face without an enroller is not enrolled; every key the index or a    *)
(* session's selfie result ties to a face is there by right.               *)
RightInv ==
  /\ \A f \in Faces : firstHolder[f] # NoKey => f \in enrolled
  /\ \A f \in Faces : holderOf[f] # NoKey => Rightful(holderOf[f], f)
  /\ \A s \in Sessions : credited[s] # NoFace => Rightful(HolderDID[s], credited[s])

USE NoneAssumption, SessionAssumption, ConfigAssumption

-----------------------------------------------------------------------------
LEMMA NoDocFact == NoDoc \in Docs /\ NoDoc.status = "none"
BY DEF NoDoc, Docs, Statuses

(* What openRecovery's writes change: one unopened document becomes        *)
(* pending, with its parties, and the rest keeps its type.                 *)
LEMMA OpenFacts ==
  ASSUME TypeOK, NEW r \in Recoveries, NEW old \in Keys, NEW new \in Keys,
         NEW f \in Faces, NEW operator \in BOOLEAN, NEW n \in 1 .. 4,
         OpenWrites(r, old, new, f, operator, n)
  PROVE  /\ rec' \in [Recoveries -> Docs]
         /\ \A q \in Recoveries : q # r => rec'[q] = rec[q]
         /\ rec'[r].status = "pending" /\ rec'[r].old = old
         /\ rec'[r].new = new /\ rec'[r].face = f
         /\ active' \in [Faces -> Recoveries \cup {NoRecovery}]
         /\ completed' \in [Faces -> SUBSET Recoveries]
         /\ cancelled' \in [Faces -> SUBSET Recoveries]
         /\ pointer' \in [Keys -> Recoveries \cup {NoRecovery}]
         /\ told' \in SUBSET Recoveries
         /\ failures' \in Nat /\ unrecorded' = unrecorded
<1> DEFINE doc == [status |-> "pending", old |-> old, new |-> new, face |-> f,
                   operator |-> operator, created |-> CreatedAt, closed |-> 0]
<1>1. doc \in Docs
  BY DEF Docs, Statuses, CreatedAt, TypeOK
<1>2. rec' = [rec EXCEPT ![r] = doc]
  BY DEF OpenWrites
<1>3. rec' \in [Recoveries -> Docs] /\ rec'[r] = doc
  BY <1>1, <1>2 DEF TypeOK
<1>4. \A q \in Recoveries : q # r => rec'[q] = rec[q]
  BY <1>2 DEF TypeOK
<1>5. /\ doc.status = "pending" /\ doc.old = old
      /\ doc.new = new /\ doc.face = f
  OBVIOUS
<1>6. /\ active' \in [Faces -> Recoveries \cup {NoRecovery}]
      /\ completed' \in [Faces -> SUBSET Recoveries]
      /\ cancelled' \in [Faces -> SUBSET Recoveries]
      /\ told' \in SUBSET Recoveries
  BY DEF OpenWrites, TypeOK, Recent
<1>7. pointer' \in [Keys -> Recoveries \cup {NoRecovery}]
  BY DEF OpenWrites, TypeOK
<1>8. failures' \in Nat /\ unrecorded' = unrecorded
  BY DEF OpenWrites, Reach, Fails, TypeOK
<1> QED
  BY <1>3, <1>4, <1>5, <1>6, <1>7, <1>8

(* What closeRecovery's writes change: one document gets its status.       *)
LEMMA CloseFacts ==
  ASSUME TypeOK, NEW r \in Recoveries, NEW status \in {"cancelled", "completed"},
         NEW n \in 1 .. 2, CloseWrites(r, status, n)
  PROVE  /\ rec' \in [Recoveries -> Docs]
         /\ \A q \in Recoveries : q # r => rec'[q] = rec[q]
         /\ rec'[r].status = status /\ rec'[r].old = rec[r].old
         /\ rec'[r].new = rec[r].new /\ rec'[r].face = rec[r].face
         /\ active' \in [Faces -> Recoveries \cup {NoRecovery}]
         /\ completed' \in [Faces -> SUBSET Recoveries]
         /\ cancelled' \in [Faces -> SUBSET Recoveries]
         /\ pointer' = pointer /\ told' = told
         /\ failures' \in Nat /\ unrecorded' \in SUBSET Recoveries
<1> DEFINE doc == [rec[r] EXCEPT !.status = status, !.closed = now]
<1>1. rec[r] \in Docs /\ now \in Nat
  BY DEF TypeOK
<1>2. /\ doc \in Docs /\ doc.status = status /\ doc.old = rec[r].old
      /\ doc.new = rec[r].new /\ doc.face = rec[r].face
  BY <1>1 DEF Docs, Statuses
<1>3. rec' = [rec EXCEPT ![r] = doc]
  BY <1>1 DEF CloseWrites, TypeOK, Docs
<1>4. rec' \in [Recoveries -> Docs] /\ rec'[r] = doc
  BY <1>2, <1>3 DEF TypeOK
<1>5. \A q \in Recoveries : q # r => rec'[q] = rec[q]
  BY <1>3 DEF TypeOK
<1>6. /\ active' \in [Faces -> Recoveries \cup {NoRecovery}]
      /\ completed' \in [Faces -> SUBSET Recoveries]
      /\ cancelled' \in [Faces -> SUBSET Recoveries]
      /\ pointer' = pointer /\ told' = told
  BY ZenonT(60) DEF CloseWrites, TypeOK
<1>7. failures' \in Nat /\ unrecorded' \in SUBSET Recoveries
  BY DEF CloseWrites, Reach, Fails, TypeOK
<1> QED
  BY <1>2, <1>4, <1>5, <1>6, <1>7

-----------------------------------------------------------------------------
LEMMA TypeStep == TypeInv /\ [Next]_vars => TypeInv'
<1> SUFFICES ASSUME TypeInv, [Next]_vars PROVE TypeInv'
  OBVIOUS
<1> USE DEF TypeInv, TypeOK, DocsFilled, HandlersHold, DeclinedMatched,
            RecoveryPC, InFlightPC, RecordedPC, clockVars, identityVars,
            indexVars, recoveryVars, issueVars, sweepVars
<1>1. ASSUME NEW s \in Sessions, EnrollFace(s) PROVE TypeInv'
  <2>1. /\ pc[s] = "idle" /\ HolderDID[s] \in Keys /\ FaceOf[s] \in Faces
        /\ failures' \in Nat
        /\ credited' \in {credited, [credited EXCEPT ![s] = FaceOf[s]]}
    BY <1>1 DEF EnrollFace, Fails
  <2>2. /\ enrolled' \in SUBSET Faces
        /\ firstHolder' \in [Faces -> Keys \cup {NoKey}]
        /\ UNCHANGED <<now, match, declined, indexVars, recoveryVars, issueVars,
                       pc, reg, sweepVars>>
    BY <1>1, <2>1 DEF EnrollFace
  <2>3. /\ credited' \in [Sessions -> Faces \cup {NoFace}]
        /\ \A t \in Sessions : t # s => credited'[t] = credited[t]
    BY <2>1
  <2> QED
    BY <2>1, <2>2, <2>3
<1>2. ASSUME NEW s \in Sessions, MatchFace(s) PROVE TypeInv'
  BY <1>2 DEF MatchFace, Fails, Reissued
<1>3. ASSUME NEW s \in Sessions, Decline(s) PROVE TypeInv'
  BY <1>3 DEF Decline
<1>4. ASSUME NEW s \in Sessions, CheckStart(s) PROVE TypeInv'
  BY <1>4 DEF CheckStart
<1>5. ASSUME NEW s \in Sessions, OpenRecovery(s) PROVE TypeInv'
  <2>1. CASE MayOpen(match[s], FALSE)
    <3>1. PICK r \in Recoveries, n \in 1 .. 4 :
            /\ rec[r].status = "none"
            /\ OpenWrites(r, reg[s], HolderDID[s], match[s], FALSE, n)
      BY <1>5, <2>1 DEF OpenRecovery
    <3>2. reg[s] \in Keys /\ match[s] \in Faces /\ HolderDID[s] \in Keys
      BY <1>5 DEF OpenRecovery
    <3> HIDE DEF TypeInv, TypeOK, DocsFilled, HandlersHold, DeclinedMatched
    <3>3. TypeOK /\ DocsFilled /\ HandlersHold /\ DeclinedMatched
      BY DEF TypeInv
    <3>4. /\ rec' \in [Recoveries -> Docs]
          /\ \A q \in Recoveries : q # r => rec'[q] = rec[q]
          /\ rec'[r].status = "pending" /\ rec'[r].old = reg[s]
          /\ rec'[r].new = HolderDID[s] /\ rec'[r].face = match[s]
          /\ active' \in [Faces -> Recoveries \cup {NoRecovery}]
          /\ completed' \in [Faces -> SUBSET Recoveries]
          /\ cancelled' \in [Faces -> SUBSET Recoveries]
          /\ pointer' \in [Keys -> Recoveries \cup {NoRecovery}]
          /\ told' \in SUBSET Recoveries
          /\ failures' \in Nat /\ unrecorded' = unrecorded
      BY <3>1, <3>2, <3>3, OpenFacts
    <3>5. TypeOK'
      BY <1>5, <3>1, <3>3, <3>4 DEF OpenRecovery, TypeOK
    <3>6. DocsFilled'
      BY <3>2, <3>3, <3>4 DEF DocsFilled, Pending
    <3>7. HandlersHold'
      <4>1. /\ match' = match /\ retired' = retired /\ credited' = credited
            /\ pc'[s] = "idle"
            /\ \A t \in Sessions : t # s => pc'[t] = pc[t] /\ reg'[t] = reg[t]
        BY <1>5, <3>3 DEF OpenRecovery, TypeOK
      <4>2. \A q \in Recoveries : rec[q].status # "none" => rec'[q] = rec[q]
        BY <3>1, <3>4
      <4> QED
        BY <3>3, <4>1, <4>2 DEF HandlersHold
    <3>8. DeclinedMatched'
      BY <1>5, <3>3 DEF OpenRecovery, DeclinedMatched
    <3> QED
      BY <3>5, <3>6, <3>7, <3>8 DEF TypeInv
  <2>2. CASE ~ MayOpen(match[s], FALSE)
    BY <1>5, <2>2, ZenonT(60) DEF OpenRecovery
  <2> QED
    BY <2>1, <2>2
<1>6. ASSUME NEW s \in Sessions, CloseRecovery(s) PROVE TypeInv'
  <2>1. CASE Closable(reg[s])
    <3>1. PICK n \in 1 .. 2 :
            /\ CloseWrites(reg[s], "completed", n)
            /\ pc' = [pc EXCEPT ![s] = IF n = 2 THEN "retire" ELSE "idle"]
            /\ reg' = IF n = 2 THEN reg ELSE [reg EXCEPT ![s] = NoRecovery]
      BY <1>6, <2>1 DEF CloseRecovery
    <3>2. reg[s] \in Recoveries /\ Pending(reg[s])
      BY <1>6, <2>1 DEF CloseRecovery, Closable
    <3> HIDE DEF TypeInv, TypeOK, DocsFilled, HandlersHold, DeclinedMatched
    <3>3. TypeOK /\ DocsFilled /\ HandlersHold /\ DeclinedMatched
      BY DEF TypeInv
    <3>4. /\ rec' \in [Recoveries -> Docs]
          /\ \A q \in Recoveries : q # reg[s] => rec'[q] = rec[q]
          /\ rec'[reg[s]].status = "completed" /\ rec'[reg[s]].old = rec[reg[s]].old
          /\ rec'[reg[s]].new = rec[reg[s]].new /\ rec'[reg[s]].face = rec[reg[s]].face
          /\ active' \in [Faces -> Recoveries \cup {NoRecovery}]
          /\ completed' \in [Faces -> SUBSET Recoveries]
          /\ cancelled' \in [Faces -> SUBSET Recoveries]
          /\ pointer' = pointer /\ told' = told
          /\ failures' \in Nat /\ unrecorded' \in SUBSET Recoveries
      BY <3>1, <3>2, <3>3, CloseFacts
    <3>5. TypeOK'
      BY <1>6, <3>1, <3>3, <3>4 DEF CloseRecovery, TypeOK
    <3>6. DocsFilled'
      BY <3>2, <3>3, <3>4 DEF DocsFilled, Pending
    <3>7. HandlersHold'
      <4>1. /\ match' = match /\ retired' = retired /\ credited' = credited
            /\ pc[s] = "close"
            /\ \A t \in Sessions : t # s => pc'[t] = pc[t] /\ reg'[t] = reg[t]
            /\ \/ pc'[s] = "retire" /\ reg'[s] = reg[s]
               \/ pc'[s] = "idle"
        BY <1>6, <3>1, <3>3 DEF CloseRecovery, TypeOK
      <4>2. \A q \in Recoveries :
              /\ rec'[q].new = rec[q].new /\ rec'[q].old = rec[q].old
              /\ rec[q].status # "none" => rec'[q].status # "none"
              /\ rec[q].status = "completed" => rec'[q].status = "completed"
        BY <3>2, <3>4 DEF Pending
      <4>3. /\ rec[reg[s]].new = HolderDID[s]
            /\ rec'[reg[s]].status = "completed"
        BY <3>3, <3>4, <4>1 DEF HandlersHold
      <4> QED
        BY <3>2, <3>3, <4>1, <4>2, <4>3 DEF HandlersHold
    <3>8. DeclinedMatched'
      BY <1>6, <3>3 DEF CloseRecovery, DeclinedMatched
    <3> QED
      BY <3>5, <3>6, <3>7, <3>8 DEF TypeInv
  <2>2. CASE ~ Closable(reg[s])
    <3>1. /\ pc' = [pc EXCEPT ![s] = "idle"]
          /\ reg' = [reg EXCEPT ![s] = NoRecovery]
          /\ UNCHANGED <<now, failures, identityVars, indexVars, recoveryVars,
                         issueVars, sweepVars, firstHolder>>
      BY <1>6, <2>2 DEF CloseRecovery
    <3> QED
      BY <3>1
  <2> QED
    BY <2>1, <2>2
<1>7. ASSUME NEW s \in Sessions, RetireOld(s) PROVE TypeInv'
  BY <1>7 DEF RetireOld, OldKey
<1>8. ASSUME NEW s \in Sessions, ReadOld(s) PROVE TypeInv'
  BY <1>8 DEF ReadOld, CredentialsOf, InFlight, OldKey
<1>9. ASSUME NEW s \in Sessions, RevokeOld(s) PROVE TypeInv'
  BY <1>9 DEF RevokeOld
<1>10. ASSUME NEW s \in Sessions, CreditFace(s) PROVE TypeInv'
  BY <1>10 DEF CreditFace, Ends
<1>11. ASSUME NEW s \in Sessions, HandlerFails(s) PROVE TypeInv'
  BY <1>11 DEF HandlerFails, Fails, Ends
<1>12. ASSUME NEW s \in Sessions, CheckKeyBan(s) PROVE TypeInv'
  BY <1>12 DEF CheckKeyBan
<1>13. ASSUME NEW s \in Sessions, CheckFaceBan(s) PROVE TypeInv'
  BY <1>13 DEF CheckFaceBan
<1>14. ASSUME NEW s \in Sessions, CheckNoRecovery(s) PROVE TypeInv'
  BY <1>14 DEF CheckNoRecovery
<1>15. ASSUME NEW s \in Sessions, RecordIssuance(s) PROVE TypeInv'
  BY <1>15 DEF RecordIssuance
<1>16. ASSUME NEW s \in Sessions, SetHolder(s) PROVE TypeInv'
  BY <1>16 DEF SetHolder
<1>17. ASSUME NEW s \in Sessions, AddLinks(s) PROVE TypeInv'
  BY <1>17 DEF AddLinks
<1>18. ASSUME NEW s \in Sessions, MarkIssued(s) PROVE TypeInv'
  BY <1>18 DEF MarkIssued
<1>19. ASSUME NEW s \in Sessions, IssueFails(s) PROVE TypeInv'
  BY <1>19 DEF IssueFails, Fails
<1>20. ASSUME NEW s \in Sessions, NEW r \in Recoveries, ApproveRecovery(s, r)
      PROVE  TypeInv'
  <2>1. PICK n \in 1 .. 4 :
          OpenWrites(r, holderOf[match[s]], HolderDID[s], match[s], TRUE, n)
    BY <1>20 DEF ApproveRecovery
  <2>2. /\ rec[r].status = "none"
        /\ holderOf[match[s]] \in Keys /\ match[s] \in Faces /\ HolderDID[s] \in Keys
    BY <1>20 DEF ApproveRecovery
  <2> HIDE DEF TypeInv, TypeOK, DocsFilled, HandlersHold, DeclinedMatched
  <2>3. TypeOK /\ DocsFilled /\ HandlersHold /\ DeclinedMatched
    BY DEF TypeInv
  <2>4. /\ rec' \in [Recoveries -> Docs]
        /\ \A q \in Recoveries : q # r => rec'[q] = rec[q]
        /\ rec'[r].status = "pending" /\ rec'[r].old = holderOf[match[s]]
        /\ rec'[r].new = HolderDID[s] /\ rec'[r].face = match[s]
        /\ active' \in [Faces -> Recoveries \cup {NoRecovery}]
        /\ completed' \in [Faces -> SUBSET Recoveries]
        /\ cancelled' \in [Faces -> SUBSET Recoveries]
        /\ pointer' \in [Keys -> Recoveries \cup {NoRecovery}]
        /\ told' \in SUBSET Recoveries
        /\ failures' \in Nat /\ unrecorded' = unrecorded
    BY <2>1, <2>2, <2>3, OpenFacts
  <2>5. TypeOK'
    BY <1>20, <2>3, <2>4 DEF ApproveRecovery, TypeOK
  <2>6. DocsFilled'
    BY <2>2, <2>3, <2>4 DEF DocsFilled, Pending
  <2>7. HandlersHold'
    <3>1. /\ pc' = pc /\ reg' = reg /\ match' = match /\ retired' = retired
          /\ credited' = credited
      BY <1>20 DEF ApproveRecovery
    <3>2. \A q \in Recoveries : rec[q].status # "none" => rec'[q] = rec[q]
      BY <2>2, <2>4
    <3> QED
      BY <2>3, <3>1, <3>2 DEF HandlersHold
  <2>8. DeclinedMatched'
    BY <1>20, <2>3 DEF ApproveRecovery, DeclinedMatched
  <2> QED
    BY <2>5, <2>6, <2>7, <2>8 DEF TypeInv
<1>21. ASSUME NEW s \in Sessions, NEW r \in Recoveries, CheckComplete(s, r)
      PROVE  TypeInv'
  BY <1>21 DEF CheckComplete, Pending
<1>22. ASSUME NEW r \in Recoveries, Cancel(r) PROVE TypeInv'
  <2>1. PICK n \in 1 .. 2 : CloseWrites(r, "cancelled", n)
    BY <1>22 DEF Cancel
  <2>2. Pending(r)
    BY <1>22 DEF Cancel
  <2> HIDE DEF TypeInv, TypeOK, DocsFilled, HandlersHold, DeclinedMatched
  <2>3. TypeOK /\ DocsFilled /\ HandlersHold /\ DeclinedMatched
    BY DEF TypeInv
  <2>4. /\ rec' \in [Recoveries -> Docs]
        /\ \A q \in Recoveries : q # r => rec'[q] = rec[q]
        /\ rec'[r].status = "cancelled" /\ rec'[r].old = rec[r].old
        /\ rec'[r].new = rec[r].new /\ rec'[r].face = rec[r].face
        /\ active' \in [Faces -> Recoveries \cup {NoRecovery}]
        /\ completed' \in [Faces -> SUBSET Recoveries]
        /\ cancelled' \in [Faces -> SUBSET Recoveries]
        /\ pointer' = pointer /\ told' = told
        /\ failures' \in Nat /\ unrecorded' \in SUBSET Recoveries
    BY <2>1, <2>2, <2>3, CloseFacts
  <2>5. TypeOK'
    BY <1>22, <2>3, <2>4 DEF Cancel, TypeOK
  <2>6. DocsFilled'
    BY <2>2, <2>3, <2>4 DEF DocsFilled, Pending
  <2>7. HandlersHold'
    <3>1. /\ pc' = pc /\ reg' = reg /\ match' = match /\ retired' = retired
          /\ credited' = credited
      BY <1>22 DEF Cancel
    <3>2. \A q \in Recoveries :
            /\ rec'[q].new = rec[q].new /\ rec'[q].old = rec[q].old
            /\ rec[q].status # "none" => rec'[q].status # "none"
            /\ rec[q].status = "completed" => rec'[q].status = "completed"
      BY <2>2, <2>4 DEF Pending
    <3> QED
      BY <2>3, <3>1, <3>2 DEF HandlersHold
  <2>8. DeclinedMatched'
    BY <1>22, <2>3 DEF Cancel, DeclinedMatched
  <2> QED
    BY <2>5, <2>6, <2>7, <2>8 DEF TypeInv
<1>23. ASSUME NEW f \in Faces, RevokeHolder(f) PROVE TypeInv'
  BY <1>23 DEF RevokeHolder, CredentialsOf
<1>24. CASE Tick
  BY <1>24 DEF Tick
<1>25. CASE UNCHANGED vars
  BY <1>25 DEF vars
<1> HIDE DEF TypeInv
<1> QED
  BY <1>1, <1>2, <1>3, <1>4, <1>5, <1>6, <1>7, <1>8, <1>9, <1>10, <1>11,
     <1>12, <1>13, <1>14, <1>15, <1>16, <1>17, <1>18, <1>19, <1>20, <1>21,
     <1>22, <1>23, <1>24, <1>25 DEF Next

LEMMA TypeInit == Init => TypeInv
BY NoDocFact DEF Init, TypeInv, TypeOK, DocsFilled, HandlersHold, DeclinedMatched

(* Whatever fails, every document and every handler keeps its type.        *)
THEOREM TypeCorrect == Spec => []TypeOK
<1>1. TypeInv => TypeOK
  BY DEF TypeInv
<1> QED
  BY <1>1, TypeInit, TypeStep, PTL DEF Spec

LEMMA TypeInvHolds == Spec => []TypeInv
BY TypeInit, TypeStep, PTL DEF Spec

-----------------------------------------------------------------------------
(* The recovery documents, the histories and the pointers change in two    *)
(* ways only, whoever takes the step.                                      *)
Opens ==
  \E r \in Recoveries, old \in Keys, new \in Keys, f \in Faces,
     operator \in BOOLEAN, n \in 1 .. 4 :
    /\ rec[r].status = "none" /\ MayOpen(f, operator)
    /\ OpenWrites(r, old, new, f, operator, n)
Closes ==
  \E r \in Recoveries, status \in {"cancelled", "completed"}, n \in 1 .. 2 :
    Pending(r) /\ CloseWrites(r, status, n)

(* The steps of a session that touch neither.                              *)
Elsewhere(s) ==
  \/ EnrollFace(s) \/ MatchFace(s) \/ Decline(s) \/ CheckStart(s)
  \/ RetireOld(s) \/ ReadOld(s) \/ RevokeOld(s) \/ CreditFace(s)
  \/ HandlerFails(s) \/ CheckKeyBan(s) \/ CheckFaceBan(s)
  \/ CheckNoRecovery(s) \/ RecordIssuance(s) \/ SetHolder(s) \/ AddLinks(s)
  \/ MarkIssued(s) \/ IssueFails(s)
  \/ \E r \in Recoveries : CheckComplete(s, r)

LEMMA ElsewhereSteps ==
  /\ \A s \in Sessions : Elsewhere(s) => UNCHANGED recoveryVars
  /\ Tick \/ (\E f \in Faces : RevokeHolder(f)) \/ UNCHANGED vars
       => UNCHANGED recoveryVars
<1>1. ASSUME NEW s \in Sessions, Elsewhere(s) PROVE UNCHANGED recoveryVars
  BY <1>1 DEF Elsewhere, EnrollFace, MatchFace, Decline, CheckStart, RetireOld,
              ReadOld, RevokeOld, CreditFace, HandlerFails, CheckKeyBan,
              CheckFaceBan, CheckNoRecovery, RecordIssuance, SetHolder, AddLinks,
              MarkIssued, IssueFails, CheckComplete
<1> QED
  BY <1>1 DEF Tick, RevokeHolder, vars

LEMMA DocumentSteps ==
  TypeInv /\ [Next]_vars => Opens \/ Closes \/ UNCHANGED recoveryVars
<1> SUFFICES ASSUME TypeInv, [Next]_vars
             PROVE  Opens \/ Closes \/ UNCHANGED recoveryVars
  OBVIOUS
<1>1. ASSUME NEW s \in Sessions, OpenRecovery(s)
      PROVE  Opens \/ UNCHANGED recoveryVars
  <2>1. reg[s] \in Keys /\ match[s] \in Faces /\ HolderDID[s] \in Keys
    BY <1>1 DEF OpenRecovery, TypeInv, HandlersHold
  <2> QED
    BY <1>1, <2>1 DEF OpenRecovery, Opens
<1>2. ASSUME NEW s \in Sessions, NEW r \in Recoveries, ApproveRecovery(s, r)
      PROVE  Opens
  <2>1. holderOf[match[s]] \in Keys /\ match[s] \in Faces /\ HolderDID[s] \in Keys
    BY <1>2 DEF ApproveRecovery, TypeInv, TypeOK
  <2> QED
    BY <1>2, <2>1 DEF ApproveRecovery, Opens
<1>3. ASSUME NEW s \in Sessions, CloseRecovery(s)
      PROVE  Closes \/ UNCHANGED recoveryVars
  <2>1. reg[s] \in Recoveries
    BY <1>3 DEF CloseRecovery, TypeInv, HandlersHold
  <2> QED
    BY <1>3, <2>1 DEF CloseRecovery, Closable, Closes
<1>4. ASSUME NEW r \in Recoveries, Cancel(r) PROVE Closes
  BY <1>4 DEF Cancel, Closes
<1> QED
  BY <1>1, <1>2, <1>3, <1>4, ElsewhereSteps DEF Next, Elsewhere

(* A document is opened once, closed once, and keeps its parties.          *)
LEMMA DocumentLife ==
  ASSUME TypeInv, [Next]_vars, NEW r \in Recoveries
  PROVE  /\ rec[r].status \in {"cancelled", "completed"} =>
              rec'[r].status = rec[r].status
         /\ rec[r].status # "none" =>
              rec'[r].face = rec[r].face /\ rec'[r].new = rec[r].new
                /\ rec'[r].old = rec[r].old
<1>1. TypeOK
  BY DEF TypeInv
<1>2. CASE Opens
  <2>1. PICK q \in Recoveries, old \in Keys, new \in Keys, f \in Faces,
             operator \in BOOLEAN, n \in 1 .. 4 :
               /\ rec[q].status = "none"
               /\ OpenWrites(q, old, new, f, operator, n)
    BY <1>2 DEF Opens
  <2>2. \A p \in Recoveries : p # q => rec'[p] = rec[p]
    BY <1>1, <2>1, OpenFacts
  <2> QED
    BY <2>1, <2>2
<1>3. CASE Closes
  <2>1. PICK q \in Recoveries, status \in {"cancelled", "completed"},
             n \in 1 .. 2 :
               Pending(q) /\ CloseWrites(q, status, n)
    BY <1>3 DEF Closes
  <2>2. /\ \A p \in Recoveries : p # q => rec'[p] = rec[p]
        /\ rec'[q].old = rec[q].old /\ rec'[q].new = rec[q].new
        /\ rec'[q].face = rec[q].face
    BY <1>1, <2>1, CloseFacts
  <2> QED
    BY <2>1, <2>2 DEF Pending
<1>4. CASE UNCHANGED recoveryVars
  BY <1>4 DEF recoveryVars
<1> QED
  BY <1>2, <1>3, <1>4, DocumentSteps

(* A cancel that lands while a complete runs wins or loses for good: no    *)
(* handler closes a recovery again, whatever status it read before.        *)
THEOREM ClosedForGood == Spec => ClosedIsFinal
<1>1. TypeInv /\ [Next]_vars =>
        [\A r \in Recoveries : rec[r].status \in {"cancelled", "completed"} =>
           rec'[r].status = rec[r].status]_vars
  BY DocumentLife
<1> QED
  BY <1>1, TypeInvHolds, PTL DEF Spec, ClosedIsFinal

-----------------------------------------------------------------------------
(* Start calls, operators and failed writes leave alone what is tracked.   *)
LEMMA TrackedKept ==
  ASSUME TypeInv, [Next]_vars, NEW p \in Recoveries, Tracked(p)
  PROVE  Tracked(p)'
<1>1. TypeOK /\ rec[p].face \in Faces
  BY DEF TypeInv, DocsFilled, Tracked
<1>2. CASE Opens
  <2>1. PICK q \in Recoveries, old \in Keys, new \in Keys, f \in Faces,
             operator \in BOOLEAN, n \in 1 .. 4 :
               /\ rec[q].status = "none" /\ MayOpen(f, operator)
               /\ OpenWrites(q, old, new, f, operator, n)
    BY <1>2 DEF Opens
  <2>2. p # q /\ rec'[p] = rec[p]
    BY <1>1, <2>1, OpenFacts DEF Tracked
  <2>3. \A g \in Faces : g # f => active'[g] = active[g]
    BY <1>1, <2>1 DEF OpenWrites, TypeOK
  <2>4. Pending(p) => rec[p].face # f
    BY <2>1 DEF Tracked, MayOpen, PendingAt
  <2> QED
    BY <1>1, <2>2, <2>3, <2>4 DEF Tracked, Pending
<1>3. CASE Closes
  <2>1. PICK q \in Recoveries, status \in {"cancelled", "completed"},
             n \in 1 .. 2 :
               Pending(q) /\ CloseWrites(q, status, n)
    BY <1>3 DEF Closes
  <2>2. /\ \A r \in Recoveries : r # q => rec'[r] = rec[r]
        /\ rec'[q].status = status
    BY <1>1, <2>1, CloseFacts
  <2>3. \A g \in Faces : active[g] # q => active'[g] = active[g]
    BY <1>1, <2>1 DEF CloseWrites, TypeOK
  <2> QED
    BY <1>1, <2>2, <2>3 DEF Tracked, Pending
<1>4. CASE UNCHANGED recoveryVars
  BY <1>4 DEF recoveryVars, Tracked, Pending
<1> QED
  BY <1>2, <1>3, <1>4, DocumentSteps

(* What a client can newly find was opened and entered in the history.     *)
LEMMA NewlyFound ==
  ASSUME TypeInv, [Next]_vars, NEW p \in Recoveries, Findable(p)'
  PROVE  Findable(p) \/ Tracked(p)'
<1>1. TypeOK
  BY DEF TypeInv
<1>2. CASE Opens
  <2>1. PICK q \in Recoveries, old \in Keys, new \in Keys, f \in Faces,
             operator \in BOOLEAN, n \in 1 .. 4 :
               OpenWrites(q, old, new, f, operator, n)
    BY <1>2 DEF Opens
  <2>2. rec'[q].status = "pending" /\ rec'[q].face = f
    BY <1>1, <2>1, OpenFacts
  <2>3. active'[f] = IF n >= 2 THEN q ELSE active[f]
    BY <1>1, <2>1 DEF OpenWrites, TypeOK
  <2>4. Findable(p) \/ (p = q /\ n >= 3)
    BY <1>1, <2>1 DEF OpenWrites, Findable, TypeOK
  <2> QED
    BY <2>2, <2>3, <2>4 DEF Tracked, Pending
<1>3. CASE Closes
  <2>1. PICK q \in Recoveries, status \in {"cancelled", "completed"},
             n \in 1 .. 2 : CloseWrites(q, status, n)
    BY <1>3 DEF Closes
  <2> QED
    BY <2>1 DEF CloseWrites, Findable
<1>4. CASE UNCHANGED recoveryVars
  BY <1>4 DEF recoveryVars, Findable
<1> QED
  BY <1>2, <1>3, <1>4, DocumentSteps

(* A complete call comes to its close with a recovery its client found.    *)
LEMMA ComesToClose ==
  ASSUME TypeInv, [Next]_vars, NEW s \in Sessions, pc'[s] = "close"
  PROVE  \/ pc[s] = "close" /\ reg'[s] = reg[s]
         \/ \E r \in Recoveries : reg'[s] = r /\ Findable(r)
<1>1. /\ pc \in [Sessions -> {"idle", "issued"} \cup RecoveryPC \cup InFlightPC
                             \cup RecordedPC]
      /\ reg \in [Sessions -> Keys \cup Recoveries \cup {NoRecovery}]
  BY DEF TypeInv, TypeOK
<1>2. ASSUME NEW t \in Sessions, NEW r \in Recoveries, CheckComplete(t, r)
      PROVE  \/ pc[s] = "close" /\ reg'[s] = reg[s]
             \/ reg'[s] = r /\ Findable(r)
  BY <1>1, <1>2 DEF CheckComplete
<1>3. ASSUME NEW t \in Sessions, CloseRecovery(t)
      PROVE  pc[s] = "close" /\ reg'[s] = reg[s]
  BY <1>1, <1>3 DEF CloseRecovery
<1>4. ASSUME NEW t \in Sessions,
             \/ EnrollFace(t) \/ MatchFace(t) \/ Decline(t)
             \/ \E r \in Recoveries : ApproveRecovery(t, r)
      PROVE  pc' = pc /\ reg' = reg
  BY <1>4 DEF EnrollFace, MatchFace, Decline, ApproveRecovery
<1>5. ASSUME NEW t \in Sessions,
             \/ CheckStart(t) \/ OpenRecovery(t)
             \/ CreditFace(t) \/ HandlerFails(t)
      PROVE  pc[s] = "close" /\ reg'[s] = reg[s]
  BY <1>1, <1>5 DEF CheckStart, OpenRecovery, CreditFace, HandlerFails, Ends
<1>6. ASSUME NEW t \in Sessions,
             \/ RetireOld(t) \/ ReadOld(t) \/ RevokeOld(t) \/ CheckKeyBan(t)
             \/ CheckFaceBan(t) \/ CheckNoRecovery(t) \/ RecordIssuance(t)
             \/ SetHolder(t) \/ AddLinks(t) \/ MarkIssued(t) \/ IssueFails(t)
      PROVE  pc[s] = "close" /\ reg' = reg
  BY <1>1, <1>6 DEF RetireOld, ReadOld, RevokeOld, CheckKeyBan, CheckFaceBan,
                    CheckNoRecovery, RecordIssuance, SetHolder, AddLinks,
                    MarkIssued, IssueFails
<1>7. CASE \/ \E r \in Recoveries : Cancel(r)
           \/ \E f \in Faces : RevokeHolder(f)
           \/ Tick
           \/ UNCHANGED vars
  BY <1>7 DEF Cancel, RevokeHolder, Tick, vars
<1> QED
  BY <1>2, <1>3, <1>4, <1>5, <1>6, <1>7 DEF Next

LEMMA FoundStep == TypeInv /\ FoundInv /\ [Next]_vars => FoundInv'
<1> SUFFICES ASSUME TypeInv, FoundInv, [Next]_vars PROVE FoundInv'
  OBVIOUS
<1>1. \A r \in Recoveries : Findable(r)' => Tracked(r)'
  BY NewlyFound, TrackedKept DEF FoundInv
<1>2. ASSUME NEW s \in Sessions, pc'[s] = "close" PROVE Tracked(reg[s])'
  <2>1. CASE pc[s] = "close" /\ reg'[s] = reg[s]
    <3>1. PICK r \in Recoveries : r = reg[s]
      BY <2>1 DEF TypeInv, HandlersHold
    <3>2. Tracked(r)'
      BY <2>1, <3>1, TrackedKept DEF FoundInv
    <3> QED
      BY <2>1, <3>1, <3>2
  <2>2. CASE \E r \in Recoveries : reg'[s] = r /\ Findable(r)
    <3>1. PICK r \in Recoveries : reg'[s] = r /\ Findable(r)
      BY <2>2
    <3>2. Tracked(r)'
      BY <3>1, TrackedKept DEF FoundInv
    <3> QED
      BY <3>1, <3>2
  <2> QED
    BY <1>2, <2>1, <2>2, ComesToClose
<1> QED
  BY <1>1, <1>2 DEF FoundInv

LEMMA FoundInvHolds == Spec => []FoundInv
<1>1. Init => FoundInv
  BY DEF Init, FoundInv, Findable
<1> QED
  BY <1>1, FoundStep, TypeInvHolds, PTL DEF Spec

(* However start calls, operators and failed writes interleave, no two     *)
(* pending recoveries of one identity are within anybody's reach.          *)
THEOREM OnePendingHolds == Spec => []OnePending
<1>1. FoundInv => OnePending
  BY DEF FoundInv, Tracked, OnePending
<1> QED
  BY <1>1, FoundInvHolds, PTL

-----------------------------------------------------------------------------
(* A right to a face is never lost: the enroller of an enrolled face and   *)
(* the outcome of a completed recovery stay.                               *)
LEMMA RightKept ==
  ASSUME TypeInv, [Next]_vars, NEW k \in Keys, NEW f \in Faces,
         firstHolder[f] # NoKey => f \in enrolled, Rightful(k, f)
  PROVE  Rightful(k, f)'
<1>1. CASE k = firstHolder[f]
  <2>1. firstHolder'[f] = firstHolder[f]
    <3>1. f \in enrolled
      BY <1>1
    <3>2. ASSUME NEW s \in Sessions, EnrollFace(s)
          PROVE  firstHolder'[f] = firstHolder[f]
      BY <3>1, <3>2 DEF EnrollFace, TypeInv, TypeOK
    <3>3. ASSUME NEW s \in Sessions,
                 \/ ~ EnrollFace(s) /\ Elsewhere(s)
                 \/ OpenRecovery(s) \/ CloseRecovery(s)
                 \/ \E r \in Recoveries : ApproveRecovery(s, r)
          PROVE  firstHolder' = firstHolder
      BY <3>3, ZenonT(60)
         DEF Elsewhere, MatchFace, Decline, CheckStart, OpenRecovery,
             CloseRecovery, RetireOld, ReadOld, RevokeOld, CreditFace,
             HandlerFails, CheckKeyBan, CheckFaceBan, CheckNoRecovery,
             RecordIssuance, SetHolder, AddLinks, MarkIssued, IssueFails,
             ApproveRecovery, CheckComplete
    <3>4. CASE \/ \E r \in Recoveries : Cancel(r)
               \/ \E g \in Faces : RevokeHolder(g)
               \/ Tick
               \/ UNCHANGED vars
      BY <3>4 DEF Cancel, RevokeHolder, Tick, vars
    <3> QED
      BY <3>2, <3>3, <3>4 DEF Next, Elsewhere
  <2> QED
    BY <1>1, <2>1 DEF Rightful
<1>2. CASE \E r \in Recoveries : /\ rec[r].status = "completed"
                                 /\ rec[r].face = f /\ rec[r].new = k
  BY <1>2, DocumentLife DEF Rightful
<1> QED
  BY <1>1, <1>2 DEF Rightful

LEMMA RightStep == TypeInv /\ RightInv /\ [Next]_vars => RightInv'
<1> SUFFICES ASSUME TypeInv, RightInv, [Next]_vars PROVE RightInv'
  OBVIOUS
<1> DEFINE Same == UNCHANGED <<enrolled, firstHolder, holderOf, credited>>
<1>1. TypeOK /\ HandlersHold /\ DocsFilled
  BY DEF TypeInv
<1>2. \A k \in Keys, f \in Faces : Rightful(k, f) => Rightful(k, f)'
  BY RightKept DEF RightInv
<1>3. /\ credited \in [Sessions -> Faces \cup {NoFace}]
       /\ holderOf \in [Faces -> Keys \cup {NoKey}]
  BY <1>1 DEF TypeOK
<1>4. ASSUME Same PROVE RightInv'
  BY <1>2, <1>3, <1>4 DEF RightInv
<1>5. ASSUME NEW s \in Sessions, EnrollFace(s) PROVE RightInv'
  <2>1. /\ firstHolder'[FaceOf[s]] = HolderDID[s] /\ holderOf' = holderOf
        /\ \A f \in Faces : firstHolder'[f] # NoKey => f \in enrolled'
        /\ \A t \in Sessions : \/ credited'[t] = credited[t]
                               \/ t = s /\ credited'[t] = FaceOf[s]
    BY <1>1, <1>5 DEF EnrollFace, RightInv, TypeOK, indexVars
  <2>2. Rightful(HolderDID[s], FaceOf[s])'
    BY <2>1 DEF Rightful
  <2> QED
    BY <1>2, <1>3, <2>1, <2>2 DEF RightInv
<1>6. ASSUME NEW s \in Sessions, MatchFace(s) PROVE RightInv'
  <2>1. /\ UNCHANGED <<enrolled, firstHolder, holderOf>>
        /\ \A t \in Sessions :
             \/ credited'[t] = credited[t]
             \/ t = s /\ credited'[t] = FaceOf[s] /\ holderOf[FaceOf[s]] = HolderDID[s]
    BY <1>1, <1>6 DEF MatchFace, Reissued, TypeOK, indexVars
  <2> QED
    BY <1>2, <1>3, <2>1 DEF RightInv
<1>7. ASSUME NEW s \in Sessions, CreditFace(s) PROVE RightInv'
  <2>1. /\ UNCHANGED <<enrolled, firstHolder, holderOf>>
        /\ \A t \in Sessions : \/ credited'[t] = credited[t]
                               \/ t = s /\ credited'[t] = rec[reg[s]].face
    BY <1>1, <1>7 DEF CreditFace, TypeOK, indexVars
  <2>2. /\ reg[s] \in Recoveries /\ rec[reg[s]].status = "completed"
        /\ rec[reg[s]].new = HolderDID[s] /\ rec[reg[s]].face \in Faces
    BY <1>1, <1>7 DEF CreditFace, HandlersHold, DocsFilled
  <2>3. Rightful(HolderDID[s], rec[reg[s]].face)
    BY <2>2 DEF Rightful
  <2> QED
    BY <1>2, <1>3, <2>1, <2>2, <2>3 DEF RightInv
<1>8. ASSUME NEW s \in Sessions, SetHolder(s) PROVE RightInv'
  <2>1. /\ UNCHANGED <<enrolled, firstHolder, credited>>
        /\ \A f \in Faces : \/ holderOf'[f] = holderOf[f]
                            \/ f = credited[s] /\ holderOf'[f] = HolderDID[s]
    BY <1>1, <1>8 DEF SetHolder, TypeOK, identityVars
  <2> QED
    BY <1>2, <1>3, <2>1 DEF RightInv
<1>9. ASSUME NEW s \in Sessions,
             \/ Decline(s) \/ CheckStart(s) \/ OpenRecovery(s)
             \/ CloseRecovery(s) \/ RetireOld(s) \/ ReadOld(s) \/ RevokeOld(s)
             \/ HandlerFails(s) \/ CheckKeyBan(s) \/ CheckFaceBan(s)
             \/ CheckNoRecovery(s) \/ RecordIssuance(s) \/ AddLinks(s)
             \/ MarkIssued(s) \/ IssueFails(s)
             \/ \E r \in Recoveries : ApproveRecovery(s, r) \/ CheckComplete(s, r)
      PROVE  RightInv'
  <2>1. UNCHANGED <<enrolled, firstHolder, credited>>
    BY <1>9, ZenonT(60)
       DEF Decline, CheckStart, OpenRecovery, CloseRecovery, RetireOld,
           ReadOld, RevokeOld, HandlerFails, CheckKeyBan, CheckFaceBan,
           CheckNoRecovery, RecordIssuance, AddLinks, MarkIssued, IssueFails,
           ApproveRecovery, CheckComplete, identityVars
  <2>2. UNCHANGED holderOf
    BY <1>9, ZenonT(60)
       DEF Decline, CheckStart, OpenRecovery, CloseRecovery, RetireOld,
           ReadOld, RevokeOld, HandlerFails, CheckKeyBan, CheckFaceBan,
           CheckNoRecovery, RecordIssuance, AddLinks, MarkIssued, IssueFails,
           ApproveRecovery, CheckComplete, indexVars
  <2> QED
    BY <1>4, <2>1, <2>2
<1>10. CASE \/ \E r \in Recoveries : Cancel(r)
            \/ \E f \in Faces : RevokeHolder(f)
            \/ Tick
            \/ UNCHANGED vars
  <2>1. Same
    BY <1>10 DEF Cancel, RevokeHolder, Tick, vars, identityVars, indexVars
  <2> QED
    BY <1>4, <2>1
<1> QED
  BY <1>5, <1>6, <1>7, <1>8, <1>9, <1>10 DEF Next

(* A face match alone moves nothing: whoever holds a face's identity       *)
(* enrolled it or was the new key of a recovery that completed.            *)
THEOREM HolderIsRightfulHolds == Spec => []HolderIsRightful
<1>1. Init => RightInv
  BY DEF Init, RightInv
<1>2. RightInv => HolderIsRightful
  BY DEF RightInv, Rightful, HolderIsRightful
<1> QED
  BY <1>1, <1>2, RightStep, TypeInvHolds, PTL DEF Spec

-----------------------------------------------------------------------------
(* Past the ban check with a credential that is, or still may be, handed   *)
(* out, and neither revoked nor in S.                                      *)
Outside(x, S) ==
  /\ pc[x] \in InFlightPC \cup RecordedPC \cup {"issued"}
  /\ x \notin revoked \cup S

(* While a complete call revokes, the old key has nothing but what it was  *)
(* too late for and what it still has to revoke; from its answer on,       *)
(* nothing but what it was too late for.                                   *)
SweepInv ==
  /\ \A s \in Sessions : pc[s] = "revoke" =>
       \A x \in Sessions : HolderDID[x] = rec[reg[s]].old =>
                             ~ Outside(x, late[s] \cup todo[s])
  /\ \A r \in swept :
       /\ rec[r].status = "completed" /\ rec[r].old \in retired
       /\ \A x \in Sessions : HolderDID[x] = rec[r].old =>
                                ~ Outside(x, exposed[r])

(* A step after which no key that is retired has more outside a sweep than *)
(* it had before.                                                          *)
Quiet ==
  /\ retired \subseteq retired' /\ swept' = swept
  /\ \A s \in Sessions : pc'[s] = "revoke" => pc[s] = "revoke" /\ reg'[s] = reg[s]
  /\ \A s, x \in Sessions :
       pc'[s] = "revoke" /\ Outside(x, late[s] \cup todo[s])' =>
         Outside(x, late[s] \cup todo[s]) \/ HolderDID[x] \notin retired
  /\ \A r \in swept, x \in Sessions :
       Outside(x, exposed[r])' => Outside(x, exposed[r]) \/ HolderDID[x] \notin retired

LEMMA QuietSteps ==
  ASSUME TypeInv, Next, ~ \E s \in Sessions : ReadOld(s) \/ CreditFace(s)
  PROVE  Quiet
<1>1. /\ pc \in [Sessions -> {"idle", "issued"} \cup RecoveryPC \cup InFlightPC
                             \cup RecordedPC]
      /\ reg \in [Sessions -> Keys \cup Recoveries \cup {NoRecovery}]
      /\ todo \in [Sessions -> SUBSET Sessions]
      /\ late \in [Sessions -> SUBSET Sessions]
      /\ exposed \in [Recoveries -> SUBSET Sessions]
      /\ swept \in SUBSET Recoveries
  BY DEF TypeInv, TypeOK
<1> DEFINE Same == UNCHANGED <<revoked, retired, sweepVars>>
(* The recovery handlers keep what they do not revoke.                     *)
<1>2. ASSUME NEW s \in Sessions,
             \/ EnrollFace(s) \/ MatchFace(s) \/ Decline(s)
             \/ \E r \in Recoveries : ApproveRecovery(s, r)
      PROVE  Same /\ UNCHANGED <<pc, reg>>
  BY <1>2 DEF EnrollFace, MatchFace, Decline, ApproveRecovery, issueVars
<1>3. CASE Same /\ UNCHANGED <<pc, reg>>
  BY <1>3 DEF Quiet, Outside, sweepVars
<1>4. ASSUME NEW s \in Sessions,
             \/ CheckStart(s) \/ OpenRecovery(s) \/ CloseRecovery(s)
             \/ \E r \in Recoveries : CheckComplete(s, r)
      PROVE  Quiet
  <2>1. /\ Same
        /\ pc'[s] \in {"open", "idle", "close", "retire"}
        /\ \A t \in Sessions : t # s => pc'[t] = pc[t] /\ reg'[t] = reg[t]
    <3>1. CASE CheckStart(s) \/ OpenRecovery(s)
      BY <1>1, <3>1 DEF CheckStart, OpenRecovery, issueVars
    <3>2. CASE CloseRecovery(s)
      BY <1>1, <3>2 DEF CloseRecovery, issueVars
    <3>3. CASE \E r \in Recoveries : CheckComplete(s, r)
      BY <1>1, <3>3 DEF CheckComplete, issueVars
    <3> QED
      BY <1>4, <3>1, <3>2, <3>3
  <2> QED
    BY <1>1, <2>1 DEF Quiet, Outside, sweepVars, InFlightPC, RecordedPC
<1>5. ASSUME NEW s \in Sessions, RetireOld(s) PROVE Quiet
  BY <1>1, <1>5 DEF RetireOld, Quiet, Outside, sweepVars, InFlightPC, RecordedPC
<1>6. ASSUME NEW s \in Sessions, HandlerFails(s) PROVE Quiet
  <2>1. /\ UNCHANGED <<revoked, retired, swept, exposed>> /\ pc'[s] = "idle"
        /\ \A t \in Sessions : t # s => /\ pc'[t] = pc[t] /\ reg'[t] = reg[t]
                                        /\ todo'[t] = todo[t] /\ late'[t] = late[t]
    BY <1>1, <1>6 DEF HandlerFails, Ends, issueVars
  <2> QED
    BY <1>1, <2>1 DEF Quiet, Outside, InFlightPC, RecordedPC
<1>7. ASSUME NEW s \in Sessions, RevokeOld(s) PROVE Quiet
  <2>1. PICK c \in todo[s] : /\ revoked' = revoked \cup {c}
                             /\ todo' = [todo EXCEPT ![s] = @ \ {c}]
    BY <1>7 DEF RevokeOld
  <2>2. UNCHANGED <<retired, pc, reg, late, swept, exposed>>
    BY <1>7 DEF RevokeOld
  <2> QED
    BY <1>1, <2>1, <2>2 DEF Quiet, Outside
(* An issue call past the ban check was past it before, unless its key is  *)
(* not retired.                                                            *)
<1>8. ASSUME NEW s \in Sessions, CheckKeyBan(s) PROVE Quiet
  <2>1. /\ Same /\ reg' = reg /\ HolderDID[s] \notin retired
        /\ pc'[s] \in {"face", "lockout"}
        /\ \A t \in Sessions : t # s => pc'[t] = pc[t]
    BY <1>1, <1>8 DEF CheckKeyBan, Barred, issueVars
  <2> QED
    BY <1>1, <2>1 DEF Quiet, Outside, sweepVars
<1>9. ASSUME NEW s \in Sessions,
             \/ CheckFaceBan(s) \/ CheckNoRecovery(s) \/ RecordIssuance(s)
             \/ SetHolder(s) \/ AddLinks(s) \/ MarkIssued(s)
      PROVE  Quiet
  <2>1. /\ Same /\ reg' = reg /\ pc[s] \in InFlightPC \cup RecordedPC
        /\ pc'[s] # "revoke" /\ \A t \in Sessions : t # s => pc'[t] = pc[t]
    BY <1>1, <1>9 DEF CheckFaceBan, CheckNoRecovery, RecordIssuance, SetHolder,
                      AddLinks, MarkIssued, issueVars, InFlightPC, RecordedPC
  <2> QED
    BY <1>1, <2>1 DEF Quiet, Outside, sweepVars
(* A credential that is never handed out is no longer on any list.         *)
<1>10. ASSUME NEW s \in Sessions, IssueFails(s) PROVE Quiet
  <2>1. /\ revoked' = revoked \ {s} /\ todo' = [t \in Sessions |-> todo[t] \ {s}]
        /\ UNCHANGED <<retired, reg, late, swept, exposed>> /\ pc'[s] = "idle"
        /\ \A t \in Sessions : t # s => pc'[t] = pc[t]
    BY <1>1, <1>10 DEF IssueFails
  <2> QED
    BY <1>1, <2>1 DEF Quiet, Outside, InFlightPC, RecordedPC
<1>11. ASSUME NEW f \in Faces, RevokeHolder(f) PROVE Quiet
  BY <1>1, <1>11 DEF RevokeHolder, Quiet, Outside, sweepVars
<1>12. CASE Tick \/ \E r \in Recoveries : Cancel(r)
  <2>1. Same /\ UNCHANGED <<pc, reg>>
    BY <1>12 DEF Tick, Cancel, issueVars
  <2> QED
    BY <1>3, <2>1
<1> QED
  BY <1>2, <1>3, <1>4, <1>5, <1>6, <1>7, <1>8, <1>9, <1>10, <1>11, <1>12 DEF Next

LEMMA SweepStep == TypeInv /\ SweepInv /\ [Next]_vars => SweepInv'
<1> SUFFICES ASSUME TypeInv, SweepInv, [Next]_vars PROVE SweepInv'
  OBVIOUS
<1>1. /\ pc \in [Sessions -> {"idle", "issued"} \cup RecoveryPC \cup InFlightPC
                             \cup RecordedPC]
      /\ reg \in [Sessions -> Keys \cup Recoveries \cup {NoRecovery}]
      /\ todo \in [Sessions -> SUBSET Sessions]
      /\ late \in [Sessions -> SUBSET Sessions]
      /\ exposed \in [Recoveries -> SUBSET Sessions]
      /\ swept \in SUBSET Recoveries
  BY DEF TypeInv, TypeOK
<1>2. \A s \in Sessions : pc[s] \in {"retire", "read", "revoke"} =>
        /\ reg[s] \in Recoveries /\ rec[reg[s]].status = "completed"
        /\ pc[s] # "retire" => rec[reg[s]].old \in retired
  BY DEF TypeInv, HandlersHold
<1>3. ASSUME Quiet PROVE SweepInv'
  <2>1. ASSUME NEW s \in Sessions, NEW x \in Sessions, pc'[s] = "revoke",
               HolderDID[x] = rec'[reg'[s]].old
        PROVE  ~ Outside(x, late[s] \cup todo[s])'
    <3>1. pc[s] = "revoke" /\ reg'[s] = reg[s]
      BY <1>3, <2>1 DEF Quiet
    <3>2. /\ reg[s] \in Recoveries /\ rec[reg[s]].status = "completed"
          /\ rec[reg[s]].old \in retired
      BY <1>2, <3>1
    <3>3. rec'[reg[s]].old = rec[reg[s]].old
      BY <3>2, DocumentLife
    <3>4. HolderDID[x] = rec[reg[s]].old /\ HolderDID[x] \in retired
      BY <2>1, <3>1, <3>2, <3>3
    <3>5. ~ Outside(x, late[s] \cup todo[s])
      BY <3>1, <3>4 DEF SweepInv
    <3> QED
      BY <1>3, <2>1, <3>4, <3>5 DEF Quiet
  <2>2. ASSUME NEW r \in swept'
        PROVE  /\ rec'[r].status = "completed" /\ rec'[r].old \in retired'
               /\ \A x \in Sessions : HolderDID[x] = rec'[r].old =>
                                        ~ Outside(x, exposed[r])'
    <3>1. /\ r \in swept /\ r \in Recoveries /\ rec[r].status = "completed"
          /\ rec[r].old \in retired
      BY <1>1, <1>3, <2>2 DEF Quiet, SweepInv
    <3>2. rec'[r].status = "completed" /\ rec'[r].old = rec[r].old
      BY <3>1, DocumentLife
    <3>3. ASSUME NEW x \in Sessions, HolderDID[x] = rec[r].old
          PROVE  ~ Outside(x, exposed[r])'
      BY <1>3, <3>1, <3>3 DEF Quiet, SweepInv
    <3> QED
      BY <1>3, <3>1, <3>2, <3>3 DEF Quiet
  <2> QED
    BY <2>1, <2>2 DEF SweepInv
(* What the ledger lists is to be revoked, what it does not list is late.  *)
<1>4. ASSUME NEW s \in Sessions, ReadOld(s) PROVE SweepInv'
  <2>1. /\ rec' = rec /\ reg' = reg /\ retired' = retired /\ revoked' = revoked
        /\ swept' = swept /\ exposed' = exposed
        /\ pc' = [pc EXCEPT ![s] = "revoke"]
        /\ todo' = [todo EXCEPT ![s] = CredentialsOf(OldKey(s))]
        /\ late' = [late EXCEPT ![s] = InFlight(OldKey(s))]
        /\ pc[s] = "read"
    BY <1>4 DEF ReadOld, recoveryVars, issueVars
  <2>2. ASSUME NEW t \in Sessions, NEW x \in Sessions, pc'[t] = "revoke",
               HolderDID[x] = rec'[reg'[t]].old
        PROVE  ~ Outside(x, late[t] \cup todo[t])'
    <3>1. CASE t = s
      BY <1>1, <2>1, <2>2, <3>1
         DEF Outside, CredentialsOf, InFlight, OldKey, InFlightPC, RecordedPC
    <3>2. CASE t # s
      BY <1>1, <2>1, <2>2, <3>2 DEF SweepInv, Outside, InFlightPC, RecordedPC
    <3> QED
      BY <3>1, <3>2
  <2>3. ASSUME NEW r \in swept', NEW x \in Sessions
        PROVE  Outside(x, exposed[r])' => Outside(x, exposed[r])
    BY <1>1, <2>1, <2>3 DEF Outside, InFlightPC, RecordedPC
  <2> QED
    BY <2>1, <2>2, <2>3 DEF SweepInv
(* A call that answers has nothing left to revoke.                         *)
<1>5. ASSUME NEW s \in Sessions, CreditFace(s) PROVE SweepInv'
  <2>1. /\ rec' = rec /\ retired' = retired /\ revoked' = revoked /\ todo' = todo
        /\ swept' = swept \cup {reg[s]}
        /\ exposed' = [exposed EXCEPT ![reg[s]] = late[s]]
        /\ pc' = [pc EXCEPT ![s] = "idle"]
        /\ \A t \in Sessions : t # s => reg'[t] = reg[t] /\ late'[t] = late[t]
        /\ pc[s] = "revoke" /\ todo[s] = {}
    BY <1>1, <1>5 DEF CreditFace, Ends, recoveryVars, issueVars
  <2>2. ASSUME NEW t \in Sessions, NEW x \in Sessions, pc'[t] = "revoke",
               HolderDID[x] = rec'[reg'[t]].old
        PROVE  ~ Outside(x, late[t] \cup todo[t])'
    <3>1. t # s
      BY <1>1, <2>1, <2>2
    <3> QED
      BY <1>1, <2>1, <2>2, <3>1 DEF SweepInv, Outside, InFlightPC, RecordedPC
  <2>3. ASSUME NEW r \in swept'
        PROVE  /\ rec[r].status = "completed" /\ rec[r].old \in retired
               /\ \A x \in Sessions : HolderDID[x] = rec[r].old =>
                                        ~ Outside(x, exposed[r])'
    <3>1. CASE r = reg[s]
      <4>1. exposed'[r] = late[s] /\ todo[s] = {}
        BY <1>1, <1>2, <2>1, <3>1
      <4>2. \A x \in Sessions : HolderDID[x] = rec[r].old => ~ Outside(x, late[s])
        BY <2>1, <3>1 DEF SweepInv, Outside
      <4> QED
        BY <1>1, <1>2, <2>1, <3>1, <4>1, <4>2 DEF Outside, InFlightPC, RecordedPC
    <3>2. CASE r # reg[s]
      <4>1. r \in swept /\ exposed'[r] = exposed[r]
        BY <1>1, <2>1, <2>3, <3>2
      <4> QED
        BY <1>1, <2>1, <4>1 DEF SweepInv, Outside, InFlightPC, RecordedPC
    <3> QED
      BY <3>1, <3>2
  <2> QED
    BY <2>1, <2>2, <2>3 DEF SweepInv
<1>6. CASE UNCHANGED vars
  BY <1>6 DEF vars, recoveryVars, issueVars, sweepVars, SweepInv, Outside
<1> QED
  BY <1>3, <1>4, <1>5, <1>6, QuietSteps

(* Once a complete call has answered, the old key is barred and holds no   *)
(* unrevoked credential but one of a call that was past the ban check and  *)
(* not in the ledger when the complete call read it, whatever failed or    *)
(* ran beside it.                                                          *)
THEOREM RetiredHoldsNothingHolds == Spec => []RetiredHoldsNothing
<1>1. Init => SweepInv
  BY DEF Init, SweepInv
<1>2. SweepInv => RetiredHoldsNothing
  BY DEF SweepInv, Outside, RetiredHoldsNothing, Holds
<1> QED
  BY <1>1, <1>2, SweepStep, TypeInvHolds, PTL DEF Spec

-----------------------------------------------------------------------------
(* The cooldown.  Nothing of an identity was opened after the pending      *)
(* recovery its history names, and the history knows every recovery whose  *)
(* close reached it within the cooldown.                                   *)
CooldownInv ==
  /\ \A r \in Recoveries : rec[r].status # "none" => rec[r].created <= now
  /\ \A r, q \in Recoveries :
       Pending(r) /\ active[rec[r].face] = r
         /\ rec[q].status # "none" /\ rec[q].face = rec[r].face
         => rec[q].created <= rec[r].created
  /\ \A r \in Recoveries :
       rec[r].status = "completed" /\ r \notin unrecorded
         /\ rec[r].closed > now - Cooldown
         => r \in completed[rec[r].face]
  /\ CooldownHolds

LEMMA CooldownOpened ==
  ASSUME TypeInv, CooldownInv, now' = now, Opens
  PROVE  CooldownInv'
<1>1. PICK p \in Recoveries, old \in Keys, new \in Keys, f \in Faces,
           operator \in BOOLEAN, n \in 1 .. 4 :
             /\ rec[p].status = "none" /\ MayOpen(f, operator)
             /\ OpenWrites(p, old, new, f, operator, n)
  BY DEF Opens
<1>2. /\ now \in Nat /\ Cooldown \in Nat /\ rec \in [Recoveries -> Docs]
      /\ active \in [Faces -> Recoveries \cup {NoRecovery}]
      /\ completed \in [Faces -> SUBSET Recoveries]
  BY DEF TypeInv, TypeOK
<1> DEFINE doc == [status |-> "pending", old |-> old, new |-> new, face |-> f,
                   operator |-> operator, created |-> now, closed |-> 0]
<1>3. /\ rec' = [rec EXCEPT ![p] = doc]
      /\ active' = IF n >= 2 THEN [active EXCEPT ![f] = p] ELSE active
      /\ completed' = IF n >= 2 THEN [completed EXCEPT ![f] = Recent(@)] ELSE completed
      /\ unrecorded' = unrecorded
  BY <1>1 DEF OpenWrites, CreatedAt
<1>4. /\ \A q \in Recoveries : q # p => rec'[q] = rec[q]
      /\ rec'[p] = doc
      /\ \A g \in Faces : g # f => active'[g] = active[g] /\ completed'[g] = completed[g]
      /\ active'[f] \in {p, active[f]}
      /\ Recent(completed[f]) \subseteq completed'[f]
  BY <1>2, <1>3 DEF Recent
<1>5. /\ doc.status = "pending" /\ doc.face = f /\ doc.created = now
      /\ doc.operator = operator
  OBVIOUS
<1> HIDE DEF doc
(* The face's history named no pending recovery.                           *)
<1>6. \A r \in Recoveries : Pending(r) => r # p /\ active[f] # r
  BY <1>1, <1>2 DEF MayOpen, PendingAt, Pending
<1>7. \A r \in Recoveries : rec'[r].status = "pending" => r = p \/ Pending(r)
  BY <1>4 DEF Pending
<1>8. \A r \in Recoveries : rec'[r].status \notin {"none", "pending"} =>
        r # p /\ rec'[r] = rec[r]
  BY <1>4, <1>5
<1>9. \A r \in Recoveries : rec[r].status # "none" =>
        /\ rec[r].face \in Faces /\ rec[r].created \in Nat /\ rec[r].closed \in Nat
  BY <1>2 DEF TypeInv, DocsFilled, Docs
<1>10. \A r \in Recoveries : rec'[r].status # "none" => rec'[r].created <= now
  BY <1>2, <1>4, <1>5 DEF CooldownInv
<1>12. ASSUME NEW r \in Recoveries, NEW q \in Recoveries, Pending(r)',
              active'[rec'[r].face] = r,
              rec'[q].status # "none", rec'[q].face = rec'[r].face
       PROVE  rec'[q].created <= rec'[r].created
  <2>1. CASE r = p
    BY <2>1, <1>4, <1>5, <1>10, <1>12
  <2>2. CASE r # p
    <3>1. Pending(r) /\ rec'[r] = rec[r] /\ rec[r].face \in Faces
      BY <2>2, <1>4, <1>9, <1>12 DEF Pending
    <3>2. rec[r].face # f /\ active[rec[r].face] = r
      BY <2>2, <3>1, <1>4, <1>6, <1>12
    <3>3. q # p /\ rec'[q] = rec[q]
      BY <3>1, <3>2, <1>4, <1>5, <1>12
    <3> QED BY <3>1, <3>2, <3>3, <1>12 DEF CooldownInv
  <2> QED BY <2>1, <2>2
<1>13. ASSUME NEW r \in Recoveries, rec'[r].status = "completed",
              r \notin unrecorded', rec'[r].closed > now - Cooldown
       PROVE  r \in completed'[rec'[r].face]
  <2>1. rec'[r] = rec[r] /\ rec[r].face \in Faces /\ r \in completed[rec[r].face]
    BY <1>3, <1>8, <1>9, <1>13 DEF CooldownInv
  <2>2. CASE rec[r].face = f
    BY <2>1, <2>2, <1>4, <1>13 DEF Recent
  <2>3. CASE rec[r].face # f
    BY <2>1, <2>3, <1>4
  <2> QED BY <2>2, <2>3
<1>14. ASSUME NEW r \in Recoveries, NEW q \in Recoveries, r # q,
              rec'[r].status = "completed", r \notin unrecorded',
              rec'[q].status # "none",
              rec'[r].face = rec'[q].face, ~ rec'[q].operator,
              rec'[r].closed <= rec'[q].created, rec'[r].created < rec'[q].created
       PROVE  rec'[q].created >= rec'[r].closed + Cooldown
  <2>1. rec'[r] = rec[r] /\ rec[r].closed \in Nat /\ rec[r].face \in Faces
    BY <1>8, <1>9, <1>14
  <2>2. CASE q = p
    <3>1. rec[r].face = f /\ operator = FALSE /\ rec'[q].created = now
      BY <2>1, <2>2, <1>4, <1>5, <1>14
    <3>2. r \notin Recent(completed[f])
      BY <3>1, <1>1 DEF MayOpen
    <3>3. ~ (rec[r].closed > now - Cooldown)
      BY <3>1, <3>2, <2>1, <1>3, <1>14 DEF CooldownInv, Recent
    <3> QED BY <3>1, <3>3, <2>1, <1>2
  <2>3. CASE q # p
    BY <2>1, <2>3, <1>3, <1>4, <1>14 DEF CooldownInv, CooldownHolds
  <2> QED BY <2>2, <2>3
<1>15. CooldownHolds'
  BY <1>14 DEF CooldownHolds
<1> QED BY <1>2, <1>10, <1>12, <1>13, <1>15 DEF CooldownInv

(* Whatever is closed is the recovery its identity's history names.        *)
LEMMA ClosesTracked ==
  ASSUME TypeInv, FoundInv, [Next]_vars, ~ UNCHANGED recoveryVars
  PROVE  \/ Opens
         \/ \E r \in Recoveries, status \in {"cancelled", "completed"}, n \in 1 .. 2 :
              Pending(r) /\ Tracked(r) /\ CloseWrites(r, status, n)
<1>1. ASSUME NEW s \in Sessions, CloseRecovery(s)
      PROVE  \/ UNCHANGED recoveryVars
             \/ \E n \in 1 .. 2 : /\ Pending(reg[s]) /\ Tracked(reg[s])
                                  /\ CloseWrites(reg[s], "completed", n)
  BY <1>1 DEF CloseRecovery, Closable, FoundInv
<1>2. ASSUME NEW s \in Sessions, CloseRecovery(s) PROVE reg[s] \in Recoveries
  BY <1>2 DEF CloseRecovery, TypeInv, HandlersHold
<1>3. ASSUME NEW r \in Recoveries, Cancel(r)
      PROVE  \E n \in 1 .. 2 : /\ Pending(r) /\ Tracked(r)
                               /\ CloseWrites(r, "cancelled", n)
  BY <1>3 DEF Cancel, FoundInv
<1>4. ASSUME NEW s \in Sessions, OpenRecovery(s)
      PROVE  Opens \/ UNCHANGED recoveryVars
  <2>1. reg[s] \in Keys /\ match[s] \in Faces /\ HolderDID[s] \in Keys
    BY <1>4 DEF OpenRecovery, TypeInv, HandlersHold
  <2> QED
    BY <1>4, <2>1 DEF OpenRecovery, Opens
<1>5. ASSUME NEW s \in Sessions, NEW r \in Recoveries, ApproveRecovery(s, r)
      PROVE  Opens
  <2>1. holderOf[match[s]] \in Keys /\ match[s] \in Faces /\ HolderDID[s] \in Keys
    BY <1>5 DEF ApproveRecovery, TypeInv, TypeOK
  <2> QED
    BY <1>5, <2>1 DEF ApproveRecovery, Opens
<1> QED
  BY <1>1, <1>2, <1>3, <1>4, <1>5, ElsewhereSteps DEF Next, Elsewhere

LEMMA CooldownClosed ==
  ASSUME TypeInv, CooldownInv, now' = now,
         NEW p \in Recoveries, NEW status \in {"cancelled", "completed"}, NEW n \in 1 .. 2,
         Pending(p), Tracked(p), CloseWrites(p, status, n)
  PROVE  CooldownInv'
<1>2. /\ now \in Nat /\ Cooldown \in Nat \ {0} /\ rec \in [Recoveries -> Docs]
      /\ active \in [Faces -> Recoveries \cup {NoRecovery}]
      /\ completed \in [Faces -> SUBSET Recoveries]
  BY DEF TypeInv, TypeOK
<1>3. /\ rec[p].face \in Faces /\ rec[p].status = "pending"
      /\ active[rec[p].face] = p /\ rec[p].created <= now
  BY DEF TypeInv, DocsFilled, CooldownInv, Pending, Tracked
<1>4. \A r \in Recoveries : rec[r].status # "none" =>
        /\ rec[r].face \in Faces /\ rec[r].created \in Nat /\ rec[r].closed \in Nat
  BY <1>2 DEF TypeInv, DocsFilled, Docs
<1>5. rec' = [rec EXCEPT ![p].status = status, ![p].closed = now]
  BY DEF CloseWrites
<1>6. /\ \A q \in Recoveries : q # p => rec'[q] = rec[q]
      /\ rec'[p].status = status /\ rec'[p].closed = now
      /\ rec'[p].created = rec[p].created /\ rec'[p].face = rec[p].face
      /\ rec'[p].operator = rec[p].operator
  BY <1>2, <1>5 DEF Docs
<1>7. /\ \A g \in Faces : active'[g] \in {NoRecovery, active[g]}
      /\ \A g \in Faces : completed[g] \subseteq completed'[g]
      /\ status = "completed" => \/ p \in completed'[rec[p].face]
                                 \/ p \in unrecorded'
      /\ unrecorded \subseteq unrecorded'
  BY <1>2, <1>3 DEF CloseWrites
<1>8. \A r \in Recoveries : /\ rec'[r].face = rec[r].face
                            /\ rec'[r].created = rec[r].created
                            /\ rec'[r].operator = rec[r].operator
                            /\ rec'[r].status # "none" => rec[r].status # "none"
                            /\ Pending(r)' => r # p /\ Pending(r)
  BY <1>3, <1>6 DEF Pending
<1>9. \A r \in Recoveries : rec'[r].status # "none" => rec'[r].created <= now
  BY <1>8 DEF CooldownInv
<1>11. ASSUME NEW r \in Recoveries, NEW q \in Recoveries, Pending(r)',
              active'[rec'[r].face] = r,
              rec'[q].status # "none", rec'[q].face = rec'[r].face
       PROVE  rec'[q].created <= rec'[r].created
  <2>1. Pending(r) /\ rec[r].face \in Faces
    BY <1>4, <1>8, <1>11 DEF Pending
  <2>2. active[rec[r].face] = r
    BY <2>1, <1>7, <1>8, <1>11
  <2> QED BY <2>1, <2>2, <1>8, <1>11 DEF CooldownInv
<1>12. ASSUME NEW r \in Recoveries, rec'[r].status = "completed",
              r \notin unrecorded', rec'[r].closed > now - Cooldown
       PROVE  r \in completed'[rec'[r].face]
  <2>1. CASE r = p
    BY <2>1, <1>6, <1>7, <1>12
  <2>2. CASE r # p
    <3>1. rec'[r] = rec[r] /\ rec[r].face \in Faces /\ r \in completed[rec[r].face]
      BY <2>2, <1>4, <1>6, <1>7, <1>12 DEF CooldownInv
    <3> QED BY <3>1, <1>7
  <2> QED BY <2>1, <2>2
<1>13. ASSUME NEW r \in Recoveries, NEW q \in Recoveries, r # q,
              rec'[r].status = "completed", r \notin unrecorded',
              rec'[q].status # "none",
              rec'[r].face = rec'[q].face, ~ rec'[q].operator,
              rec'[r].closed <= rec'[q].created, rec'[r].created < rec'[q].created
       PROVE  rec'[q].created >= rec'[r].closed + Cooldown
  (* Nothing of its identity was opened after a recovery that closes now.  *)
  <2>1. CASE r = p
    <3>1. rec[q].created <= rec[p].created
      BY <2>1, <1>3, <1>8, <1>13 DEF CooldownInv, Pending
    <3>2. rec[p].created < rec[q].created /\ rec[p].created \in Nat /\ rec[q].created \in Nat
      BY <2>1, <1>3, <1>4, <1>8, <1>13
    <3> QED BY <3>1, <3>2
  <2>2. CASE r # p
    <3>1. rec'[r] = rec[r]
      BY <2>2, <1>6
    <3> QED BY <3>1, <1>7, <1>8, <1>13 DEF CooldownInv, CooldownHolds
  <2> QED BY <2>1, <2>2
<1>14. CooldownHolds'
  BY <1>13 DEF CooldownHolds
<1> QED BY <1>2, <1>9, <1>11, <1>12, <1>14 DEF CooldownInv

LEMMA CooldownStep ==
  ASSUME TypeInv, FoundInv, CooldownInv, [Next]_vars PROVE CooldownInv'
<1>0. now \in Nat /\ Cooldown \in Nat
  BY DEF TypeInv, TypeOK
<1>1. CASE Tick
  <2>1. now' = now + 1 /\ UNCHANGED recoveryVars
    BY <1>1 DEF Tick
  <2>2. \A r \in Recoveries : rec[r].status # "none" =>
          rec[r].created \in Nat /\ rec[r].closed \in Nat
    BY DEF TypeInv, TypeOK, Docs
  <2> QED BY <2>1, <2>2, <1>0 DEF CooldownInv, CooldownHolds, Pending, recoveryVars
<1>2. CASE now' = now
  <2>1. CASE UNCHANGED recoveryVars
    BY <2>1, <1>2 DEF CooldownInv, CooldownHolds, Pending, recoveryVars
  <2> QED BY <2>1, <1>2, CooldownOpened, CooldownClosed, ClosesTracked
<1>3. Tick \/ now' = now
  <2>1. ASSUME NEW s \in Sessions,
               \/ Elsewhere(s) \/ OpenRecovery(s) \/ CloseRecovery(s)
               \/ \E r \in Recoveries : ApproveRecovery(s, r)
        PROVE  now' = now
    BY <2>1, ZenonT(60)
       DEF Elsewhere, EnrollFace, MatchFace, Decline, CheckStart, OpenRecovery,
           CloseRecovery, RetireOld, ReadOld, RevokeOld, CreditFace,
           HandlerFails, CheckKeyBan, CheckFaceBan, CheckNoRecovery,
           RecordIssuance, SetHolder, AddLinks, MarkIssued, IssueFails,
           ApproveRecovery, CheckComplete, clockVars
  <2>2. CASE \/ \E r \in Recoveries : Cancel(r)
             \/ \E f \in Faces : RevokeHolder(f)
             \/ UNCHANGED vars
    BY <2>2 DEF Cancel, RevokeHolder, vars, clockVars
  <2> QED BY <2>1, <2>2 DEF Next, Elsewhere
<1> QED BY <1>1, <1>2, <1>3

(* No recovery of an identity is opened within the cooldown of one that    *)
(* completed, unless an operator opens it, however the history was pruned  *)
(* in between and whatever else failed, as long as the close itself came   *)
(* to the history.                                                         *)
THEOREM CooldownHoldsAlways == Spec => []CooldownHolds
<1>1. Init => CooldownInv
  BY DEF Init, NoDoc, CooldownInv, CooldownHolds, Pending
<1>2. CooldownInv => CooldownHolds
  BY DEF CooldownInv
<1>3. TypeInv /\ FoundInv /\ CooldownInv /\ [Next]_vars => CooldownInv'
  BY CooldownStep
<1> QED
  BY <1>1, <1>2, <1>3, TypeInvHolds, FoundInvHolds, PTL DEF Spec
=============================================================================
