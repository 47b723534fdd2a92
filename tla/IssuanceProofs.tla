--------------------------- MODULE IssuanceProofs ---------------------------
(***************************************************************************)
(* Proofs about Issuance, for any number of sessions, holders, requests,   *)
(* revocation runs and status slots.                                       *)
(***************************************************************************)
EXTENDS Issuance, TLAPS

(* Type correctness, given that a run in progress has a target.            *)
LEMMA TypeStep == TypeOK /\ RequestInv /\ WorkerInv /\ [Next]_vars => TypeOK'
<1> SUFFICES ASSUME TypeOK, RequestInv, WorkerInv, [Next]_vars PROVE TypeOK'
  OBVIOUS
<1> USE NoneAssumption, SessionAssumption DEF TypeOK, RequestInv, WorkerInv, RequestPC, WorkerPC, HolderOfReq, SeedsOnRecord, InFlight, requestVars, storeVars, banVars, workerVars, history
<1>1. CASE UNCHANGED vars
  BY <1>1 DEF vars
<1>2. ASSUME NEW r \in Requests, NEW s \in Sessions, StartIssue(r, s) PROVE TypeOK'
  BY <1>2 DEF StartIssue
<1>3. ASSUME NEW r \in Requests, CheckHolderBan(r) PROVE TypeOK'
  BY <1>3 DEF CheckHolderBan
<1>4. ASSUME NEW r \in Requests, CheckSeedBan(r) PROVE TypeOK'
  BY <1>4 DEF CheckSeedBan
<1>5. ASSUME NEW r \in Requests, Allocate(r) PROVE TypeOK'
  BY <1>5 DEF Allocate, FreeSlots
<1>6. ASSUME NEW r \in Requests, Bind(r) PROVE TypeOK'
  BY <1>6 DEF Bind
<1>7. ASSUME NEW r \in Requests, RecordIssuance(r) PROVE TypeOK'
  BY <1>7 DEF RecordIssuance, Recorded
<1>8. ASSUME NEW r \in Requests, MarkIssued(r) PROVE TypeOK'
  <2>1. PICK to \in {"done", "ended"} : pc' = [pc EXCEPT ![r] = to]
    BY <1>8 DEF MarkIssued, Claimable
  <2>2. issuedBy' \in [Sessions -> Requests \cup {NoRequest}]
    BY <1>8 DEF MarkIssued, Claimable
  <2> QED BY <1>8, <2>1, <2>2 DEF MarkIssued, Claimable
<1>9. ASSUME NEW r \in Requests, IssueFails(r) PROVE TypeOK'
  BY <1>9 DEF IssueFails
<1>10. ASSUME NEW r \in Requests, AdminRevoke(r) PROVE TypeOK'
  BY <1>10 DEF AdminRevoke, Revoke
<1>11. ASSUME NEW w \in Workers, NEW h \in Holders, NEW reason \in Reasons,
             StartRevoke(w, h, reason) PROVE TypeOK'
  BY <1>11 DEF StartRevoke
<1>12. ASSUME NEW w \in Workers, NEW h \in Holders, StartReinstate(w, h) PROVE TypeOK'
  BY <1>12 DEF StartReinstate
<1>13. ASSUME NEW w \in Workers, BanHolder(w) PROVE TypeOK'
  BY <1>13 DEF BanHolder, Ban
<1>14. ASSUME NEW w \in Workers, ReadIssuances(w) PROVE TypeOK'
  BY <1>14 DEF ReadIssuances
<1>15. ASSUME NEW w \in Workers, RevokeOne(w) PROVE TypeOK'
  BY <1>15 DEF RevokeOne, Revoke
<1>16. ASSUME NEW w \in Workers, BanSeed(w) PROVE TypeOK'
  BY <1>16 DEF BanSeed
<1>17. ASSUME NEW w \in Workers, Penalize(w) PROVE TypeOK'
  BY <1>17 DEF Penalize, Idle
<1>18. ASSUME NEW w \in Workers, Pardon(w) PROVE TypeOK'
  BY <1>18 DEF Pardon
<1>19. ASSUME NEW w \in Workers, ListSeeds(w) PROVE TypeOK'
  BY <1>19 DEF ListSeeds
<1>20. ASSUME NEW w \in Workers, UnbanSeed(w) PROVE TypeOK'
  BY <1>20 DEF UnbanSeed
<1>21. ASSUME NEW w \in Workers, UnbanHolder(w) PROVE TypeOK'
  BY <1>21 DEF UnbanHolder
<1>22. ASSUME NEW w \in Workers, RestoreVouchers(w) PROVE TypeOK'
  BY <1>22 DEF RestoreVouchers, Idle
<1>23. ASSUME NEW w \in Workers, WorkerFails(w) PROVE TypeOK'
  BY <1>23 DEF WorkerFails, Idle
<1> QED
  BY <1>1, <1>2, <1>3, <1>4, <1>5, <1>6, <1>7, <1>8, <1>9, <1>10, <1>11,
     <1>12, <1>13, <1>14, <1>15, <1>16, <1>17, <1>18, <1>19, <1>20, <1>21,
     <1>22, <1>23 DEF Next

(* What each step of a request has already written.                        *)
LEMMA RequestStep == TypeOK /\ RequestInv /\ SlotInv /\ [Next]_vars => RequestInv'
<1> SUFFICES ASSUME TypeOK, RequestInv, SlotInv, [Next]_vars PROVE RequestInv'
  OBVIOUS
<1> USE NoneAssumption, SessionAssumption DEF TypeOK, RequestInv, SlotInv, HolderOfReq, requestVars, storeVars, banVars, workerVars, history
<1>1. CASE UNCHANGED vars
  BY <1>1 DEF vars
<1>2. ASSUME NEW r \in Requests, NEW s \in Sessions, StartIssue(r, s) PROVE RequestInv'
  BY <1>2 DEF StartIssue
<1>3. ASSUME NEW r \in Requests, CheckHolderBan(r) PROVE RequestInv'
  BY <1>3 DEF CheckHolderBan
<1>4. ASSUME NEW r \in Requests, CheckSeedBan(r) PROVE RequestInv'
  BY <1>4 DEF CheckSeedBan
<1>5. ASSUME NEW r \in Requests, Allocate(r) PROVE RequestInv'
  BY <1>5 DEF Allocate, FreeSlots
<1>6. ASSUME NEW r \in Requests, Bind(r) PROVE RequestInv'
  BY <1>6 DEF Bind
<1>7. ASSUME NEW r \in Requests, RecordIssuance(r) PROVE RequestInv'
  BY <1>7 DEF RecordIssuance, Recorded
<1>8. ASSUME NEW r \in Requests, MarkIssued(r) PROVE RequestInv'
  BY <1>8 DEF MarkIssued, Claimable
<1>9. ASSUME NEW r \in Requests, IssueFails(r) PROVE RequestInv'
  BY <1>9 DEF IssueFails
<1>10. ASSUME NEW r \in Requests, AdminRevoke(r) PROVE RequestInv'
  BY <1>10 DEF AdminRevoke, Revoke
<1>11. ASSUME NEW w \in Workers, NEW h \in Holders, NEW reason \in Reasons,
             StartRevoke(w, h, reason) PROVE RequestInv'
  BY <1>11 DEF StartRevoke
<1>12. ASSUME NEW w \in Workers, NEW h \in Holders, StartReinstate(w, h) PROVE RequestInv'
  BY <1>12 DEF StartReinstate
<1>13. ASSUME NEW w \in Workers, BanHolder(w) PROVE RequestInv'
  BY <1>13 DEF BanHolder, Ban
<1>14. ASSUME NEW w \in Workers, ReadIssuances(w) PROVE RequestInv'
  BY <1>14 DEF ReadIssuances
<1>15. ASSUME NEW w \in Workers, RevokeOne(w) PROVE RequestInv'
  BY <1>15 DEF RevokeOne, Revoke
<1>16. ASSUME NEW w \in Workers, BanSeed(w) PROVE RequestInv'
  BY <1>16 DEF BanSeed
<1>17. ASSUME NEW w \in Workers, Penalize(w) PROVE RequestInv'
  BY <1>17 DEF Penalize, Idle
<1>18. ASSUME NEW w \in Workers, Pardon(w) PROVE RequestInv'
  BY <1>18 DEF Pardon
<1>19. ASSUME NEW w \in Workers, ListSeeds(w) PROVE RequestInv'
  BY <1>19 DEF ListSeeds
<1>20. ASSUME NEW w \in Workers, UnbanSeed(w) PROVE RequestInv'
  BY <1>20 DEF UnbanSeed
<1>21. ASSUME NEW w \in Workers, UnbanHolder(w) PROVE RequestInv'
  BY <1>21 DEF UnbanHolder
<1>22. ASSUME NEW w \in Workers, RestoreVouchers(w) PROVE RequestInv'
  BY <1>22 DEF RestoreVouchers, Idle
<1>23. ASSUME NEW w \in Workers, WorkerFails(w) PROVE RequestInv'
  BY <1>23 DEF WorkerFails, Idle
<1> QED
  BY <1>1, <1>2, <1>3, <1>4, <1>5, <1>6, <1>7, <1>8, <1>9, <1>10, <1>11,
     <1>12, <1>13, <1>14, <1>15, <1>16, <1>17, <1>18, <1>19, <1>20, <1>21,
     <1>22, <1>23 DEF Next

(* A slot is claimed while unused, so it has one owner.                    *)
LEMMA SlotStep == TypeOK /\ RequestInv /\ SlotInv /\ [Next]_vars => SlotInv'
<1> SUFFICES ASSUME TypeOK, RequestInv, SlotInv, [Next]_vars PROVE SlotInv'
  OBVIOUS
<1> USE NoneAssumption DEF TypeOK, RequestInv, SlotInv, requestVars, storeVars, banVars, workerVars, history
<1>1. CASE UNCHANGED vars
  BY <1>1 DEF vars
<1>2. ASSUME NEW r \in Requests, NEW s \in Sessions, StartIssue(r, s) PROVE SlotInv'
  BY <1>2 DEF StartIssue
<1>3. ASSUME NEW r \in Requests, CheckHolderBan(r) PROVE SlotInv'
  BY <1>3 DEF CheckHolderBan
<1>4. ASSUME NEW r \in Requests, CheckSeedBan(r) PROVE SlotInv'
  BY <1>4 DEF CheckSeedBan
<1>5. ASSUME NEW r \in Requests, Allocate(r) PROVE SlotInv'
  BY <1>5 DEF Allocate, FreeSlots
<1>6. ASSUME NEW r \in Requests, Bind(r) PROVE SlotInv'
  BY <1>6 DEF Bind
<1>7. ASSUME NEW r \in Requests, RecordIssuance(r) PROVE SlotInv'
  BY <1>7 DEF RecordIssuance, Recorded
<1>8. ASSUME NEW r \in Requests, MarkIssued(r) PROVE SlotInv'
  BY <1>8 DEF MarkIssued, Claimable
<1>9. ASSUME NEW r \in Requests, IssueFails(r) PROVE SlotInv'
  BY <1>9 DEF IssueFails
<1>10. ASSUME NEW r \in Requests, AdminRevoke(r) PROVE SlotInv'
  BY <1>10 DEF AdminRevoke, Revoke
<1>11. ASSUME NEW w \in Workers, NEW h \in Holders, NEW reason \in Reasons,
             StartRevoke(w, h, reason) PROVE SlotInv'
  BY <1>11 DEF StartRevoke
<1>12. ASSUME NEW w \in Workers, NEW h \in Holders, StartReinstate(w, h) PROVE SlotInv'
  BY <1>12 DEF StartReinstate
<1>13. ASSUME NEW w \in Workers, BanHolder(w) PROVE SlotInv'
  BY <1>13 DEF BanHolder, Ban
<1>14. ASSUME NEW w \in Workers, ReadIssuances(w) PROVE SlotInv'
  BY <1>14 DEF ReadIssuances
<1>15. ASSUME NEW w \in Workers, RevokeOne(w) PROVE SlotInv'
  BY <1>15 DEF RevokeOne, Revoke
<1>16. ASSUME NEW w \in Workers, BanSeed(w) PROVE SlotInv'
  BY <1>16 DEF BanSeed
<1>17. ASSUME NEW w \in Workers, Penalize(w) PROVE SlotInv'
  BY <1>17 DEF Penalize, Idle
<1>18. ASSUME NEW w \in Workers, Pardon(w) PROVE SlotInv'
  BY <1>18 DEF Pardon
<1>19. ASSUME NEW w \in Workers, ListSeeds(w) PROVE SlotInv'
  BY <1>19 DEF ListSeeds
<1>20. ASSUME NEW w \in Workers, UnbanSeed(w) PROVE SlotInv'
  BY <1>20 DEF UnbanSeed
<1>21. ASSUME NEW w \in Workers, UnbanHolder(w) PROVE SlotInv'
  BY <1>21 DEF UnbanHolder
<1>22. ASSUME NEW w \in Workers, RestoreVouchers(w) PROVE SlotInv'
  BY <1>22 DEF RestoreVouchers, Idle
<1>23. ASSUME NEW w \in Workers, WorkerFails(w) PROVE SlotInv'
  BY <1>23 DEF WorkerFails, Idle
<1> QED
  BY <1>1, <1>2, <1>3, <1>4, <1>5, <1>6, <1>7, <1>8, <1>9, <1>10, <1>11,
     <1>12, <1>13, <1>14, <1>15, <1>16, <1>17, <1>18, <1>19, <1>20, <1>21,
     <1>22, <1>23 DEF Next

(* RecordIssuance comes after Bind, so the ledger lists bound credentials. *)
LEMMA LedgerStep == TypeOK /\ RequestInv /\ LedgerInv /\ [Next]_vars => LedgerInv'
<1> SUFFICES ASSUME TypeOK, RequestInv, LedgerInv, [Next]_vars PROVE LedgerInv'
  OBVIOUS
<1> USE NoneAssumption, SessionAssumption DEF TypeOK, RequestInv, LedgerInv, HolderOfReq, requestVars, storeVars, banVars, workerVars, history
<1>1. CASE UNCHANGED vars
  BY <1>1 DEF vars
<1>2. ASSUME NEW r \in Requests, NEW s \in Sessions, StartIssue(r, s) PROVE LedgerInv'
  BY <1>2 DEF StartIssue
<1>3. ASSUME NEW r \in Requests, CheckHolderBan(r) PROVE LedgerInv'
  BY <1>3 DEF CheckHolderBan
<1>4. ASSUME NEW r \in Requests, CheckSeedBan(r) PROVE LedgerInv'
  BY <1>4 DEF CheckSeedBan
<1>5. ASSUME NEW r \in Requests, Allocate(r) PROVE LedgerInv'
  BY <1>5 DEF Allocate, FreeSlots
<1>6. ASSUME NEW r \in Requests, Bind(r) PROVE LedgerInv'
  BY <1>6 DEF Bind
<1>7. ASSUME NEW r \in Requests, RecordIssuance(r) PROVE LedgerInv'
  BY <1>7 DEF RecordIssuance, Recorded
<1>8. ASSUME NEW r \in Requests, MarkIssued(r) PROVE LedgerInv'
  BY <1>8 DEF MarkIssued, Claimable
<1>9. ASSUME NEW r \in Requests, IssueFails(r) PROVE LedgerInv'
  BY <1>9 DEF IssueFails
<1>10. ASSUME NEW r \in Requests, AdminRevoke(r) PROVE LedgerInv'
  BY <1>10 DEF AdminRevoke, Revoke
<1>11. ASSUME NEW w \in Workers, NEW h \in Holders, NEW reason \in Reasons,
             StartRevoke(w, h, reason) PROVE LedgerInv'
  BY <1>11 DEF StartRevoke
<1>12. ASSUME NEW w \in Workers, NEW h \in Holders, StartReinstate(w, h) PROVE LedgerInv'
  BY <1>12 DEF StartReinstate
<1>13. ASSUME NEW w \in Workers, BanHolder(w) PROVE LedgerInv'
  BY <1>13 DEF BanHolder, Ban
<1>14. ASSUME NEW w \in Workers, ReadIssuances(w) PROVE LedgerInv'
  BY <1>14 DEF ReadIssuances
<1>15. ASSUME NEW w \in Workers, RevokeOne(w) PROVE LedgerInv'
  BY <1>15 DEF RevokeOne, Revoke
<1>16. ASSUME NEW w \in Workers, BanSeed(w) PROVE LedgerInv'
  BY <1>16 DEF BanSeed
<1>17. ASSUME NEW w \in Workers, Penalize(w) PROVE LedgerInv'
  BY <1>17 DEF Penalize, Idle
<1>18. ASSUME NEW w \in Workers, Pardon(w) PROVE LedgerInv'
  BY <1>18 DEF Pardon
<1>19. ASSUME NEW w \in Workers, ListSeeds(w) PROVE LedgerInv'
  BY <1>19 DEF ListSeeds
<1>20. ASSUME NEW w \in Workers, UnbanSeed(w) PROVE LedgerInv'
  BY <1>20 DEF UnbanSeed
<1>21. ASSUME NEW w \in Workers, UnbanHolder(w) PROVE LedgerInv'
  BY <1>21 DEF UnbanHolder
<1>22. ASSUME NEW w \in Workers, RestoreVouchers(w) PROVE LedgerInv'
  BY <1>22 DEF RestoreVouchers, Idle
<1>23. ASSUME NEW w \in Workers, WorkerFails(w) PROVE LedgerInv'
  BY <1>23 DEF WorkerFails, Idle
<1> QED
  BY <1>1, <1>2, <1>3, <1>4, <1>5, <1>6, <1>7, <1>8, <1>9, <1>10, <1>11,
     <1>12, <1>13, <1>14, <1>15, <1>16, <1>17, <1>18, <1>19, <1>20, <1>21,
     <1>22, <1>23 DEF Next

(* A clean run's holder stays banned: reinstating it makes the run unclean.*)
LEMMA WorkerStep == TypeOK /\ WorkerInv /\ [Next]_vars => WorkerInv'
<1> SUFFICES ASSUME TypeOK, WorkerInv, [Next]_vars PROVE WorkerInv'
  OBVIOUS
<1> USE NoneAssumption, ReasonsAssumption DEF TypeOK, WorkerInv, NotBanned, requestVars, storeVars, banVars, workerVars, history
<1>1. CASE UNCHANGED vars
  BY <1>1 DEF vars
<1>2. ASSUME NEW r \in Requests, NEW s \in Sessions, StartIssue(r, s) PROVE WorkerInv'
  BY <1>2 DEF StartIssue
<1>3. ASSUME NEW r \in Requests, CheckHolderBan(r) PROVE WorkerInv'
  BY <1>3 DEF CheckHolderBan
<1>4. ASSUME NEW r \in Requests, CheckSeedBan(r) PROVE WorkerInv'
  BY <1>4 DEF CheckSeedBan
<1>5. ASSUME NEW r \in Requests, Allocate(r) PROVE WorkerInv'
  BY <1>5 DEF Allocate, FreeSlots
<1>6. ASSUME NEW r \in Requests, Bind(r) PROVE WorkerInv'
  BY <1>6 DEF Bind
<1>7. ASSUME NEW r \in Requests, RecordIssuance(r) PROVE WorkerInv'
  BY <1>7 DEF RecordIssuance, Recorded
<1>8. ASSUME NEW r \in Requests, MarkIssued(r) PROVE WorkerInv'
  BY <1>8 DEF MarkIssued, Claimable
<1>9. ASSUME NEW r \in Requests, IssueFails(r) PROVE WorkerInv'
  BY <1>9 DEF IssueFails
<1>10. ASSUME NEW r \in Requests, AdminRevoke(r) PROVE WorkerInv'
  BY <1>10 DEF AdminRevoke, Revoke
<1>11. ASSUME NEW w \in Workers, NEW h \in Holders, NEW reason \in Reasons,
             StartRevoke(w, h, reason) PROVE WorkerInv'
  BY <1>11 DEF StartRevoke
<1>12. ASSUME NEW w \in Workers, NEW h \in Holders, StartReinstate(w, h) PROVE WorkerInv'
  BY <1>12 DEF StartReinstate
<1>13. ASSUME NEW w \in Workers, BanHolder(w) PROVE WorkerInv'
  BY <1>13 DEF BanHolder, Ban
<1>14. ASSUME NEW w \in Workers, ReadIssuances(w) PROVE WorkerInv'
  BY <1>14 DEF ReadIssuances
<1>15. ASSUME NEW w \in Workers, RevokeOne(w) PROVE WorkerInv'
  BY <1>15 DEF RevokeOne, Revoke
<1>16. ASSUME NEW w \in Workers, BanSeed(w) PROVE WorkerInv'
  BY <1>16 DEF BanSeed
<1>17. ASSUME NEW w \in Workers, Penalize(w) PROVE WorkerInv'
  BY <1>17 DEF Penalize, Idle
<1>18. ASSUME NEW w \in Workers, Pardon(w) PROVE WorkerInv'
  BY <1>18 DEF Pardon
<1>19. ASSUME NEW w \in Workers, ListSeeds(w) PROVE WorkerInv'
  BY <1>19 DEF ListSeeds
<1>20. ASSUME NEW w \in Workers, UnbanSeed(w) PROVE WorkerInv'
  BY <1>20 DEF UnbanSeed
<1>21. ASSUME NEW w \in Workers, UnbanHolder(w) PROVE WorkerInv'
  BY <1>21 DEF UnbanHolder
<1>22. ASSUME NEW w \in Workers, RestoreVouchers(w) PROVE WorkerInv'
  BY <1>22 DEF RestoreVouchers, Idle
<1>23. ASSUME NEW w \in Workers, WorkerFails(w) PROVE WorkerInv'
  BY <1>23 DEF WorkerFails, Idle
<1> QED
  BY <1>1, <1>2, <1>3, <1>4, <1>5, <1>6, <1>7, <1>8, <1>9, <1>10, <1>11,
     <1>12, <1>13, <1>14, <1>15, <1>16, <1>17, <1>18, <1>19, <1>20, <1>21,
     <1>22, <1>23 DEF Next

(* A revoked credential stays revoked: slots are never cleared and a bound *)
(* credential keeps its slot.                                              *)
LEMMA RevokedStays ==
  ASSUME TypeOK, RequestInv, [Next]_vars, NEW q \in Requests, CredRevoked(q)
  PROVE  CredRevoked(q)'
<1> USE DEF TypeOK, CredRevoked, requestVars, storeVars
<1>1. revoked \subseteq revoked'
  BY DEF vars, Next, StartIssue, CheckHolderBan, CheckSeedBan, Allocate, Bind,
         RecordIssuance, MarkIssued, IssueFails, AdminRevoke, StartRevoke,
         StartReinstate, BanHolder, ReadIssuances, RevokeOne, BanSeed, Penalize,
         Pardon, ListSeeds, UnbanSeed, UnbanHolder, RestoreVouchers, WorkerFails,
         Revoke
<1>2. slotOf'[q] = slotOf[q]
  <2>1. ASSUME NEW r \in Requests, Bind(r) PROVE slotOf'[q] = slotOf[q]
    BY <2>1 DEF Bind, RequestInv
  <2>2. (\A r \in Requests : ~ Bind(r)) => slotOf' = slotOf
    BY DEF vars, Next, StartIssue, CheckHolderBan, CheckSeedBan, Allocate,
           RecordIssuance, MarkIssued, IssueFails, AdminRevoke, StartRevoke,
           StartReinstate, BanHolder, ReadIssuances, RevokeOne, BanSeed,
           Penalize, Pardon, ListSeeds, UnbanSeed, UnbanHolder,
           RestoreVouchers, WorkerFails
  <2> QED BY <2>1, <2>2
<1> QED BY <1>1, <1>2

(* Only CheckHolderBan lets a request past the check, and only when its    *)
(* holder is not banned at that moment.                                    *)
LEMMA PastCheckStep ==
  ASSUME TypeOK, RequestInv, [Next]_vars, NEW q \in Requests, PastCheck(q)'
  PROVE  /\ HolderOfReq(q)' = HolderOfReq(q)
         /\ PastCheck(q) \/ banned[HolderOfReq(q)] = NotBanned
<1> USE DEF TypeOK, PastCheck, HolderOfReq, requestVars
<1>1. ASSUME NEW r \in Requests, NEW s \in Sessions, StartIssue(r, s)
      PROVE  /\ sess'[q] = sess[q]
             /\ PastCheck(q) \/ banned[HolderOfReq(q)] = NotBanned
  BY <1>1 DEF StartIssue
<1>2. ASSUME NEW r \in Requests, CheckHolderBan(r)
      PROVE  /\ sess'[q] = sess[q]
             /\ PastCheck(q) \/ banned[HolderOfReq(q)] = NotBanned
  BY <1>2 DEF CheckHolderBan
<1>3. ASSUME NEW r \in Requests,
             \/ CheckSeedBan(r) \/ Allocate(r) \/ Bind(r)
             \/ RecordIssuance(r) \/ MarkIssued(r) \/ IssueFails(r)
      PROVE  sess'[q] = sess[q] /\ PastCheck(q)
  BY <1>3 DEF CheckSeedBan, Allocate, Bind, RecordIssuance, MarkIssued, IssueFails
<1>4. ASSUME UNCHANGED requestVars PROVE sess'[q] = sess[q] /\ PastCheck(q)
  BY <1>4
<1>5. \/ UNCHANGED requestVars
      \/ \E r \in Requests :
           \/ \E s \in Sessions : StartIssue(r, s)
           \/ CheckHolderBan(r) \/ CheckSeedBan(r) \/ Allocate(r) \/ Bind(r)
           \/ RecordIssuance(r) \/ MarkIssued(r) \/ IssueFails(r)
  BY DEF vars, Next, AdminRevoke, StartRevoke, StartReinstate, BanHolder,
         ReadIssuances, RevokeOne, BanSeed, Penalize, Pardon, ListSeeds,
         UnbanSeed, UnbanHolder, RestoreVouchers, WorkerFails
<1> QED BY <1>1, <1>2, <1>3, <1>4, <1>5

(* The locals of a run change only by its own steps, except that a         *)
(* reinstatement can make it unclean.                                      *)
LEMMA RunFrame ==
  ASSUME TypeOK, [Next]_vars, NEW w \in Workers, clean'[w], wpc'[w] = "revoke"
  PROVE  \/ ReadIssuances(w)
         \/ RevokeOne(w)
         \/ /\ clean[w] /\ wpc[w] = "revoke"
            /\ UNCHANGED <<target[w], late[w], todo[w]>>
<1> USE DEF TypeOK
<1>1. CASE UNCHANGED <<workerVars, history>>
  BY <1>1 DEF workerVars, history
<1>2. ASSUME NEW x \in Workers, x # w,
             \/ \E h \in Holders, reason \in Reasons : StartRevoke(x, h, reason)
             \/ \E h \in Holders : StartReinstate(x, h)
             \/ BanHolder(x) \/ ReadIssuances(x) \/ RevokeOne(x) \/ BanSeed(x)
             \/ Penalize(x) \/ Pardon(x) \/ ListSeeds(x) \/ UnbanSeed(x)
             \/ UnbanHolder(x) \/ RestoreVouchers(x) \/ WorkerFails(x)
      PROVE  /\ clean[w] /\ wpc[w] = "revoke"
             /\ UNCHANGED <<target[w], late[w], todo[w]>>
  BY <1>2 DEF StartRevoke, StartReinstate, BanHolder, ReadIssuances, RevokeOne,
              BanSeed, Penalize, Pardon, ListSeeds, UnbanSeed, UnbanHolder,
              RestoreVouchers, WorkerFails, Idle, history
<1>3. CASE BanSeed(w)
  BY <1>3 DEF BanSeed, history
<1>4. CASE \/ \E h \in Holders, reason \in Reasons : StartRevoke(w, h, reason)
           \/ \E h \in Holders : StartReinstate(w, h)
           \/ BanHolder(w) \/ Penalize(w) \/ Pardon(w) \/ ListSeeds(w)
           \/ UnbanSeed(w) \/ UnbanHolder(w) \/ RestoreVouchers(w)
           \/ WorkerFails(w)
  BY <1>4 DEF StartRevoke, StartReinstate, BanHolder, Penalize, Pardon,
              ListSeeds, UnbanSeed, UnbanHolder, RestoreVouchers, WorkerFails,
              Idle
<1>5. \/ UNCHANGED <<workerVars, history>>
      \/ \E x \in Workers :
           \/ \E h \in Holders, reason \in Reasons : StartRevoke(x, h, reason)
           \/ \E h \in Holders : StartReinstate(x, h)
           \/ BanHolder(x) \/ ReadIssuances(x) \/ RevokeOne(x) \/ BanSeed(x)
           \/ Penalize(x) \/ Pardon(x) \/ ListSeeds(x) \/ UnbanSeed(x)
           \/ UnbanHolder(x) \/ RestoreVouchers(x) \/ WorkerFails(x)
  BY DEF vars, Next, StartIssue, CheckHolderBan, CheckSeedBan, Allocate, Bind,
         RecordIssuance, MarkIssued, IssueFails, AdminRevoke
<1> QED BY <1>1, <1>2, <1>3, <1>4, <1>5

(* A clean run accounts for every request past the check of its holder.    *)
LEMMA RunStep ==
  IInv /\ [Next]_vars => RunInv'
<1> SUFFICES ASSUME IInv, [Next]_vars, NEW w \in Workers,
                    clean'[w], wpc'[w] = "revoke",
                    NEW r \in Requests, PastCheck(r)', HolderOfReq(r)' = target'[w]
             PROVE  CredRevoked(r)' \/ r \in late'[w] \/ r \in todo'[w]
  BY DEF RunInv
<1> USE DEF IInv
<1>1. CASE ReadIssuances(w)
  <2>1. PastCheck(r) /\ HolderOfReq(r) = target[w]
    BY <1>1 DEF ReadIssuances, requestVars, PastCheck, HolderOfReq
  <2>2. CASE pc[r] \in {"seedBans", "bind", "record"}
    BY <1>1, <2>1, <2>2 DEF ReadIssuances, InFlight, TypeOK
  <2>3. CASE pc[r] \in {"mark", "done"}
    BY <1>1, <2>1, <2>3 DEF ReadIssuances, RequestInv, TypeOK
  <2> QED BY <2>1, <2>2, <2>3 DEF PastCheck
<1>2. CASE RevokeOne(w)
  <2>1. PastCheck(r) /\ HolderOfReq(r) = target[w]
    BY <1>2 DEF RevokeOne, requestVars, PastCheck, HolderOfReq
  <2>2. clean[w] /\ wpc[w] = "revoke"
    BY <1>2 DEF RevokeOne, history
  <2>3. CredRevoked(r) \/ r \in late[w] \/ r \in todo[w]
    BY <2>1, <2>2 DEF RunInv
  <2>4. CASE CredRevoked(r)
    BY <2>4, RevokedStays
  <2>5. CASE r \in late[w]
    BY <1>2, <2>5 DEF RevokeOne, history
  <2>6. CASE r \in todo[w]
    <3>1. PICK c \in todo[w] : Revoke(c) /\ todo' = [todo EXCEPT ![w] = @ \ {c}]
      BY <1>2 DEF RevokeOne
    <3>2. CASE r # c
      BY <2>6, <3>1, <3>2 DEF TypeOK
    <3>3. CASE r = c
      <4>1. slotOf' = slotOf
        BY <1>2 DEF RevokeOne
      <4>2. target[w] \in Holders /\ r \in ledger[target[w]]
        BY <2>2, <2>6 DEF WorkerInv
      <4>3. slotOf[r] # NoSlot
        BY <4>2 DEF LedgerInv
      <4> QED BY <3>1, <3>3, <4>1, <4>3 DEF Revoke, CredRevoked
    <3> QED BY <3>2, <3>3
  <2> QED BY <2>3, <2>4, <2>5, <2>6
<1>3. CASE /\ clean[w] /\ wpc[w] = "revoke"
           /\ UNCHANGED <<target[w], late[w], todo[w]>>
  <2>1. banned[target[w]] # NotBanned
    BY <1>3 DEF WorkerInv
  <2>2. PastCheck(r) /\ HolderOfReq(r) = target[w]
    BY <1>3, <2>1, PastCheckStep
  <2>3. CredRevoked(r) \/ r \in late[w] \/ r \in todo[w]
    BY <1>3, <2>2 DEF RunInv
  <2> QED BY <1>3, <2>3, RevokedStays
<1> QED BY <1>1, <1>2, <1>3, RunFrame

(* A completed run's account carries over to the holder it revoked.        *)
LEMMA SweptStep ==
  IInv /\ [Next]_vars => SweptInv'
<1> SUFFICES ASSUME IInv, [Next]_vars, NEW h \in swept'
             PROVE  /\ banned'[h] # NotBanned
                    /\ \A r \in Requests : PastCheck(r)' /\ HolderOfReq(r)' = h =>
                         CredRevoked(r)' \/ r \in exposed'[h]
  BY DEF SweptInv
<1> USE DEF IInv
<1>1. ASSUME h \in swept, exposed'[h] = exposed[h], banned'[h] # NotBanned
      PROVE  \A r \in Requests : PastCheck(r)' /\ HolderOfReq(r)' = h =>
               CredRevoked(r)' \/ r \in exposed'[h]
  <2> SUFFICES ASSUME NEW r \in Requests, PastCheck(r)', HolderOfReq(r)' = h
               PROVE  CredRevoked(r)' \/ r \in exposed'[h]
    OBVIOUS
  <2>1. banned[h] # NotBanned
    BY <1>1 DEF SweptInv
  <2>2. PastCheck(r) /\ HolderOfReq(r) = h
    BY <2>1, PastCheckStep
  <2>3. CredRevoked(r) \/ r \in exposed[h]
    BY <1>1, <2>2 DEF SweptInv
  <2> QED BY <1>1, <2>3, RevokedStays
<1>2. ASSUME NEW w \in Workers, Penalize(w), clean[w], target[w] = h
      PROVE  /\ banned'[h] # NotBanned
             /\ \A r \in Requests : PastCheck(r)' /\ HolderOfReq(r)' = h =>
                  CredRevoked(r)' \/ r \in exposed'[h]
  <2>1. wpc[w] = "revoke" /\ todo[w] = {}
    BY <1>2 DEF Penalize
  <2>2. banned'[h] # NotBanned /\ h \in Holders
    BY <1>2, <2>1 DEF Penalize, WorkerInv
  <2>3. exposed'[h] = late[w]
    BY <1>2, <2>2 DEF Penalize, TypeOK
  <2>4. ASSUME NEW r \in Requests, PastCheck(r)', HolderOfReq(r)' = h
        PROVE  CredRevoked(r)' \/ r \in late[w]
    <3>1. PastCheck(r) /\ HolderOfReq(r) = target[w]
      BY <1>2, <2>4 DEF Penalize, requestVars, PastCheck, HolderOfReq
    <3>2. CredRevoked(r) \/ r \in late[w]
      BY <1>2, <2>1, <3>1 DEF RunInv
    <3> QED BY <3>2, RevokedStays
  <2> QED BY <2>2, <2>3, <2>4
<1>3. ASSUME NEW w \in Workers, Penalize(w), ~ (clean[w] /\ target[w] = h)
      PROVE  h \in swept /\ exposed'[h] = exposed[h] /\ banned'[h] # NotBanned
  BY <1>3 DEF Penalize, TypeOK, SweptInv
<1>4. ASSUME NEW w \in Workers, UnbanHolder(w)
      PROVE  h \in swept /\ exposed'[h] = exposed[h] /\ banned'[h] # NotBanned
  BY <1>4 DEF UnbanHolder, TypeOK, SweptInv
<1>5. ASSUME NEW w \in Workers, BanHolder(w)
      PROVE  h \in swept /\ exposed'[h] = exposed[h] /\ banned'[h] # NotBanned
  BY <1>5 DEF BanHolder, Ban, TypeOK, SweptInv
<1>6. ASSUME UNCHANGED <<swept, exposed, banned>>
      PROVE  h \in swept /\ exposed'[h] = exposed[h] /\ banned'[h] # NotBanned
  BY <1>6 DEF SweptInv
<1>7. \/ UNCHANGED <<swept, exposed, banned>>
      \/ \E w \in Workers : Penalize(w) \/ UnbanHolder(w) \/ BanHolder(w)
  BY DEF vars, history, banVars, Next, StartIssue, CheckHolderBan, CheckSeedBan,
         Allocate, Bind, RecordIssuance, MarkIssued, IssueFails, AdminRevoke,
         StartRevoke, StartReinstate, ReadIssuances, RevokeOne, BanSeed, Pardon,
         ListSeeds, UnbanSeed, RestoreVouchers, WorkerFails
<1> QED BY <1>1, <1>2, <1>3, <1>4, <1>5, <1>6, <1>7

(* The inductive invariant holds in every behaviour.                       *)
THEOREM IInvHolds == Spec => []IInv
<1>1. Init => IInv
  <2> SUFFICES ASSUME Init PROVE IInv
    OBVIOUS
  <2> USE NoneAssumption, SessionAssumption DEF Init
  <2>1. TypeOK
    BY DEF TypeOK, RequestPC, WorkerPC
  <2>2. RequestInv /\ SlotInv
    BY DEF RequestInv, SlotInv
  <2>3. LedgerInv /\ WorkerInv
    BY DEF LedgerInv, WorkerInv
  <2>4. RunInv /\ SweptInv
    BY DEF RunInv, SweptInv
  <2> QED BY <2>1, <2>2, <2>3, <2>4 DEF IInv
<1>2. IInv /\ [Next]_vars => IInv'
  BY TypeStep, RequestStep, SlotStep, LedgerStep, WorkerStep, RunStep, SweptStep
     DEF IInv
<1> QED BY <1>1, <1>2, PTL DEF Spec

-----------------------------------------------------------------------------
(* Issuance and revocation are type correct under any interleaving.        *)
THEOREM TypeCorrect == Spec => []TypeOK
<1>1. IInv => TypeOK
  BY DEF IInv
<1> QED BY <1>1, IInvHolds, PTL

(* However many issue calls race on a session, one credential leaves it:   *)
(* the claim MarkIssued wins is what a delivered credential owns.          *)
THEOREM OnePerSessionHolds == Spec => []OnePerSession
<1>1. IInv => OnePerSession
  BY DEF IInv, RequestInv, OnePerSession, HandedOut
<1> QED BY <1>1, IInvHolds, PTL

(* A delivered credential has a slot of its own and a ledger entry.        *)
THEOREM HandedOutIsRevocableHolds == Spec => []HandedOutIsRevocable
<1>1. IInv => HandedOutIsRevocable
  BY DEF IInv, RequestInv, SlotInv, HandedOutIsRevocable, HandedOut
<1> QED BY <1>1, IInvHolds, PTL

(* A completed revocation misses only what was in flight at its snapshot.  *)
THEOREM SweepIsCompleteHolds == Spec => []SweepIsComplete
<1>1. IInv => SweepIsComplete
  BY DEF IInv, SweptInv, SweepIsComplete, HandedOut, PastCheck
<1> QED BY <1>1, IInvHolds, PTL
=============================================================================
