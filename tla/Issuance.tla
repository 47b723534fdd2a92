------------------------------ MODULE Issuance ------------------------------
(***************************************************************************)
(* Issuing a credential against revoking its holder.                       *)
(*                                                                         *)
(* handleIssueCredential (src/server/handlers.go) checks the ban list,     *)
(* allocates and binds a status slot, records the issuance in the holder   *)
(* ledger, claims the session and only then hands the credential out.      *)
(* revokeHolder (holderrevoke.go) bans the holder, reads the ledger,       *)
(* revokes what it lists and bans the nullifier seeds; retireRecoveredHolder *)
(* (recovery.go) is the same without the seeds; reinstate (review.go)      *)
(* undoes the bans.  Every step is one request to a store shared by all    *)
(* handlers, none of them holds a lock across steps, and each can fail     *)
(* before or after its write took effect.                                  *)
(*                                                                         *)
(* A credential is named by the request that signed it (its id is          *)
(* issuer:holder:nanoseconds).  Sessions here have a verified method;      *)
(* module SessionStore models how they get one, and IdentifierSeeds where  *)
(* the seed commitments come from.                                         *)
(***************************************************************************)
EXTENDS Integers, FiniteSets

CONSTANTS
  Sessions, Holders, Nullifiers, Slots,
  Requests,       \* calls of handleIssueCredential
  Workers,        \* calls of revokeHolder, retireRecoveredHolder, reinstate
  Reasons,        \* the kinds of revocation that happen in this instance
  NoSession, NoHolder, NoSlot, NoRequest,
  HolderOf,       \* the holder DID a session was created for
  SessionSeeds,   \* the sets of seed commitments a session may resolve to
  KeyNullifier    \* the holder-key commitment; empty for a DID without key

ASSUME NoneAssumption ==
  /\ NoSession \notin Sessions
  /\ NoHolder \notin Holders
  /\ NoSlot \notin Slots
  /\ NoRequest \notin Requests
ASSUME SessionAssumption ==
  /\ HolderOf \in [Sessions -> Holders]
  /\ SessionSeeds \in [Sessions -> SUBSET SUBSET Nullifiers]
  /\ KeyNullifier \in [Holders -> SUBSET Nullifiers]
ASSUME ReasonsAssumption ==
  Reasons \subseteq {"operator", "equivocation", "recovered"}

VARIABLES
  pc, sess, commits, toCheck, slot,      \* per request: locals of the handler
  issuedBy,                              \* session -> the credential it issued
  used, slotOf, revoked,                 \* the RevocationStore
  ledger,                                \* holder -> recorded credentials
  banned, bannedSeeds, pardoned,         \* the ban documents
  struck,                                \* holders whose vouchers carry a strike
  wpc, target, why, todo, seeds,         \* per worker: locals of the cascade
  late, clean, swept, exposed            \* history, see the last section

requestVars == <<pc, sess, commits, toCheck, slot>>
storeVars   == <<issuedBy, used, slotOf, revoked, ledger>>
banVars     == <<banned, bannedSeeds, pardoned, struck>>
workerVars  == <<wpc, target, why, todo, seeds>>
history     == <<late, clean, swept, exposed>>
vars == <<requestVars, storeVars, banVars, workerVars, history>>

RequestPC == {"idle", "holderBan", "seedBans", "bind", "record", "mark",
              "done", "ended"}   \* ended: an error answer, no credential
WorkerPC  == {"idle", "ban", "read", "revoke",           \* revokeHolder
              "pardon", "list", "unban", "restore"}      \* reinstate
NotBanned == "none"

HolderOfReq(r) == HolderOf[sess[r]]

TypeOK ==
  /\ pc \in [Requests -> RequestPC]
  /\ sess \in [Requests -> Sessions \cup {NoSession}]
  /\ commits \in [Requests -> SUBSET Nullifiers]
  /\ toCheck \in [Requests -> SUBSET Nullifiers]
  /\ slot \in [Requests -> Slots \cup {NoSlot}]
  /\ issuedBy \in [Sessions -> Requests \cup {NoRequest}]
  /\ used \in SUBSET Slots
  /\ slotOf \in [Requests -> Slots \cup {NoSlot}]
  /\ revoked \in SUBSET Slots
  /\ ledger \in [Holders -> SUBSET Requests]
  /\ banned \in [Holders -> Reasons \cup {NotBanned}]
  /\ bannedSeeds \in SUBSET Nullifiers
  /\ pardoned \in SUBSET Holders
  /\ struck \in SUBSET Holders
  /\ wpc \in [Workers -> WorkerPC]
  /\ target \in [Workers -> Holders \cup {NoHolder}]
  /\ why \in [Workers -> Reasons \cup {NotBanned}]
  /\ todo \in [Workers -> SUBSET Requests]
  /\ seeds \in [Workers -> SUBSET Nullifiers]
  /\ late \in [Workers -> SUBSET Requests]
  /\ clean \in [Workers -> BOOLEAN]
  /\ swept \in SUBSET Holders
  /\ exposed \in [Holders -> SUBSET Requests]

Init ==
  /\ pc = [r \in Requests |-> "idle"]
  /\ sess = [r \in Requests |-> NoSession]
  /\ commits = [r \in Requests |-> {}]
  /\ toCheck = [r \in Requests |-> {}]
  /\ slot = [r \in Requests |-> NoSlot]
  /\ issuedBy = [s \in Sessions |-> NoRequest]
  /\ used \in SUBSET Slots     \* by other people's credentials
  /\ slotOf = [r \in Requests |-> NoSlot]
  /\ revoked = {}
  /\ ledger = [h \in Holders |-> {}]
  /\ banned = [h \in Holders |-> NotBanned]
  /\ bannedSeeds = {}
  /\ pardoned = {}
  /\ struck = {}
  /\ wpc = [w \in Workers |-> "idle"]
  /\ target = [w \in Workers |-> NoHolder]
  /\ why = [w \in Workers |-> NotBanned]
  /\ todo = [w \in Workers |-> {}]
  /\ seeds = [w \in Workers |-> {}]
  /\ late = [w \in Workers |-> {}]
  /\ clean = [w \in Workers |-> FALSE]
  /\ swept = {}
  /\ exposed = [h \in Holders |-> {}]

-----------------------------------------------------------------------------
(* handleIssueCredential, one action per store request.                    *)

(* Session read: unissued, with a verified method.  The handler resolves   *)
(* the nullifier binding and sessionNullifierCommitments from this view.   *)
StartIssue(r, s) ==
  /\ pc[r] = "idle"
  /\ issuedBy[s] = NoRequest
  /\ \E c \in SessionSeeds[s] : commits' = [commits EXCEPT ![r] = c]
  /\ sess' = [sess EXCEPT ![r] = s]
  /\ pc' = [pc EXCEPT ![r] = "holderBan"]
  /\ UNCHANGED <<toCheck, slot, storeVars, banVars, workerVars, history>>

(* checkHolderBans, first the holder DID ...                               *)
CheckHolderBan(r) ==
  /\ pc[r] = "holderBan"
  /\ pc' = [pc EXCEPT ![r] =
              IF banned[HolderOfReq(r)] = NotBanned THEN "seedBans" ELSE "ended"]
  /\ toCheck' = [toCheck EXCEPT ![r] = commits[r]]
  /\ UNCHANGED <<sess, commits, slot, storeVars, banVars, workerVars, history>>

(* ... then every seed commitment the session touched.                     *)
CheckSeedBan(r) ==
  /\ pc[r] = "seedBans"
  /\ \E n \in toCheck[r] :
       /\ pc' = [pc EXCEPT ![r] = IF n \in bannedSeeds THEN "ended" ELSE @]
       /\ toCheck' = [toCheck EXCEPT ![r] = @ \ {n}]
  /\ UNCHANGED <<sess, commits, slot, storeVars, banVars, workerVars, history>>

(* Mutation: the claim of a slot is not create-only.                       *)
AnySlot == Slots

FreeSlots == Slots \ used

(* revocations.Allocate: a create-only claim of a random unused slot.      *)
Allocate(r) ==
  /\ pc[r] = "seedBans"
  /\ toCheck[r] = {}
  /\ \E i \in FreeSlots :
       /\ used' = used \cup {i}
       /\ slot' = [slot EXCEPT ![r] = i]
  /\ \E to \in {"bind", "ended"} : pc' = [pc EXCEPT ![r] = to]
  /\ UNCHANGED <<sess, commits, toCheck, issuedBy, slotOf, revoked, ledger,
                 banVars, workerVars, history>>

(* issuer.Issue signs the credential, revocations.Bind ties it to its slot.*)
Bind(r) ==
  /\ pc[r] = "bind"
  /\ slotOf' = [slotOf EXCEPT ![r] = slot[r]]
  /\ \E to \in {"record", "ended"} : pc' = [pc EXCEPT ![r] = to]
  /\ UNCHANGED <<sess, commits, toCheck, slot, issuedBy, used, revoked, ledger,
                 banVars, workerVars, history>>

Recorded(r) == ledger[HolderOfReq(r)] \cup {r}

(* holders.RecordIssuance.                                                 *)
RecordIssuance(r) ==
  /\ pc[r] = "record"
  /\ ledger' = [ledger EXCEPT ![HolderOfReq(r)] = Recorded(r)]
  /\ \E to \in {"mark", "ended"} : pc' = [pc EXCEPT ![r] = to]
  /\ UNCHANGED <<sess, commits, toCheck, slot, issuedBy, used, slotOf, revoked,
                 banVars, workerVars, history>>

(* Mutation: the session is marked without the exclusive claim.            *)
AlwaysClaimable(s) == TRUE

Claimable(s) == issuedBy[s] = NoRequest

(* sessions.MarkIssued claims the session; the winner answers with the     *)
(* credential, a loser with 409, and an answer of the store that is lost   *)
(* leaves the session claimed and the credential undelivered.              *)
MarkIssued(r) ==
  /\ pc[r] = "mark"
  /\ \/ /\ Claimable(sess[r])
        /\ issuedBy' = [issuedBy EXCEPT ![sess[r]] = r]
        /\ \E to \in {"done", "ended"} : pc' = [pc EXCEPT ![r] = to]
     \/ /\ ~ Claimable(sess[r])
        /\ pc' = [pc EXCEPT ![r] = "ended"]
        /\ UNCHANGED issuedBy
  /\ UNCHANGED <<sess, commits, toCheck, slot, used, slotOf, revoked, ledger,
                 banVars, workerVars, history>>

(* A store request fails without effect, Allocate finds no free slot or    *)
(* the process dies between two requests: the handler answers 500.         *)
IssueFails(r) ==
  /\ pc[r] \in {"holderBan", "seedBans", "bind", "record", "mark"}
  /\ pc' = [pc EXCEPT ![r] = "ended"]
  /\ UNCHANGED <<sess, commits, toCheck, slot, storeVars, banVars, workerVars,
                 history>>

-----------------------------------------------------------------------------
(* revokeHolder and retireRecoveredHolder.                                 *)

(* The operator's bearer token, an equivocation proof nobody pardoned, or  *)
(* a completed recovery of this key.                                       *)
StartRevoke(w, h, reason) ==
  /\ wpc[w] = "idle"
  /\ reason = "equivocation" => h \notin pardoned
  /\ wpc' = [wpc EXCEPT ![w] = "ban"]
  /\ target' = [target EXCEPT ![w] = h]
  /\ why' = [why EXCEPT ![w] = reason]
  /\ UNCHANGED <<todo, seeds, requestVars, storeVars, banVars, history>>

(* Mutation: the ban is forgotten.                                         *)
NoBan(w) == banned

(* The holder ban comes first; it is create-only, the first record stays.  *)
Ban(w) ==
  [banned EXCEPT ![target[w]] = IF @ = NotBanned THEN why[w] ELSE @]

BanHolder(w) ==
  /\ wpc[w] = "ban"
  /\ banned' = Ban(w)
  /\ wpc' = [wpc EXCEPT ![w] = "read"]
  /\ clean' = [clean EXCEPT ![w] = TRUE]
  /\ UNCHANGED <<bannedSeeds, pardoned, struck, target, why, todo, seeds,
                 late, swept, exposed, requestVars, storeVars>>

SeedsOnRecord(h) == KeyNullifier[h] \cup UNION {commits[r] : r \in ledger[h]}

(* Requests of h that are past the holder check and not in the ledger yet. *)
InFlight(h) == {r \in Requests : /\ pc[r] \in {"seedBans", "bind", "record"}
                                 /\ HolderOfReq(r) = h}

(* holders.Issuances: a snapshot.  Recovery leaves the nullifiers alone.   *)
ReadIssuances(w) ==
  LET h == target[w] IN
  /\ wpc[w] = "read"
  /\ todo' = [todo EXCEPT ![w] = ledger[h]]
  /\ seeds' = [seeds EXCEPT ![w] =
                 IF why[w] = "recovered" THEN {} ELSE SeedsOnRecord(h)]
  /\ wpc' = [wpc EXCEPT ![w] = "revoke"]
  /\ late' = [late EXCEPT ![w] = InFlight(h)]
  /\ UNCHANGED <<target, why, clean, swept, exposed,
                 requestVars, storeVars, banVars>>

(* revocations.Revoke by credential id; ErrCredentialNotFound without slot.*)
Revoke(c) == revoked' = revoked \cup ({slotOf[c]} \ {NoSlot})

RevokeOne(w) ==
  /\ wpc[w] = "revoke"
  /\ \E c \in todo[w] : Revoke(c) /\ todo' = [todo EXCEPT ![w] = @ \ {c}]
  /\ UNCHANGED <<issuedBy, used, slotOf, ledger, wpc, target, why, seeds,
                 requestVars, banVars, history>>

BanSeed(w) ==
  /\ wpc[w] = "revoke"
  /\ todo[w] = {}
  /\ \E n \in seeds[w] :
       /\ bannedSeeds' = bannedSeeds \cup {n}
       /\ seeds' = [seeds EXCEPT ![w] = @ \ {n}]
  /\ UNCHANGED <<banned, pardoned, struck, wpc, target, why, todo,
                 requestVars, storeVars, history>>

Idle(w) ==
  /\ wpc' = [wpc EXCEPT ![w] = "idle"]
  /\ target' = [target EXCEPT ![w] = NoHolder]
  /\ why' = [why EXCEPT ![w] = NotBanned]
  /\ todo' = [todo EXCEPT ![w] = {}]
  /\ seeds' = [seeds EXCEPT ![w] = {}]
  /\ late' = [late EXCEPT ![w] = {}]
  /\ clean' = [clean EXCEPT ![w] = FALSE]

(* Last, the vouchers are penalized (not by a recovery) and the run ends.  *)
Penalize(w) ==
  LET h == target[w] IN
  /\ wpc[w] = "revoke"
  /\ todo[w] = {} /\ seeds[w] = {}
  /\ struck' = IF why[w] = "recovered" THEN struck ELSE struck \cup {h}
  /\ Idle(w)
  /\ swept' = IF clean[w] THEN swept \cup {h} ELSE swept
  /\ exposed' = [exposed EXCEPT ![h] = IF clean[w] THEN late[w] ELSE @]
  /\ UNCHANGED <<banned, bannedSeeds, pardoned, requestVars, storeVars>>

(* POST /v1/admin/revoke for one credential id; an unknown id is 404.      *)
AdminRevoke(c) ==
  /\ Revoke(c)
  /\ UNCHANGED <<issuedBy, used, slotOf, ledger, requestVars, banVars,
                 workerVars, history>>

-----------------------------------------------------------------------------
(* reinstate.                                                              *)

(* BanInfo: a key retired by a recovery is not reinstated.                 *)
StartReinstate(w, h) ==
  /\ wpc[w] = "idle"
  /\ banned[h] # "recovered"
  /\ wpc' = [wpc EXCEPT ![w] = "pardon"]
  /\ target' = [target EXCEPT ![w] = h]
  /\ why' = [why EXCEPT ![w] = banned[h]]
  /\ UNCHANGED <<todo, seeds, requestVars, storeVars, banVars, history>>

(* The proof behind an equivocation ban is pardoned.                       *)
Pardon(w) ==
  /\ wpc[w] = "pardon"
  /\ pardoned' = IF why[w] = "equivocation" THEN pardoned \cup {target[w]}
                                            ELSE pardoned
  /\ wpc' = [wpc EXCEPT ![w] = "list"]
  /\ UNCHANGED <<banned, bannedSeeds, struck, target, why, todo, seeds,
                 requestVars, storeVars, history>>

ListSeeds(w) ==
  /\ wpc[w] = "list"
  /\ seeds' = [seeds EXCEPT ![w] = SeedsOnRecord(target[w])]
  /\ wpc' = [wpc EXCEPT ![w] = "unban"]
  /\ UNCHANGED <<target, why, todo, requestVars, storeVars, banVars, history>>

UnbanSeed(w) ==
  /\ wpc[w] = "unban"
  /\ \E n \in seeds[w] :
       /\ bannedSeeds' = bannedSeeds \ {n}
       /\ seeds' = [seeds EXCEPT ![w] = @ \ {n}]
  /\ UNCHANGED <<banned, pardoned, struck, wpc, target, why, todo,
                 requestVars, storeVars, history>>

UnbanHolder(w) ==
  LET h == target[w] IN
  /\ wpc[w] = "unban"
  /\ seeds[w] = {}
  /\ banned' = [banned EXCEPT ![h] = NotBanned]
  /\ wpc' = [wpc EXCEPT ![w] = "restore"]
  /\ swept' = swept \ {h}
  /\ clean' = [x \in Workers |-> clean[x] /\ target[x] # h]
  /\ UNCHANGED <<bannedSeeds, pardoned, struck, target, why, todo, seeds,
                 late, exposed, requestVars, storeVars>>

(* inPerson.Reinstate takes the vouchers' strikes back.                    *)
RestoreVouchers(w) ==
  /\ wpc[w] = "restore"
  /\ struck' = struck \ {target[w]}
  /\ Idle(w)
  /\ UNCHANGED <<banned, bannedSeeds, pardoned, swept, exposed,
                 requestVars, storeVars>>

(* Any store request of a run fails: the run ends where it is.             *)
WorkerFails(w) ==
  /\ wpc[w] # "idle"
  /\ Idle(w)
  /\ UNCHANGED <<swept, exposed, requestVars, storeVars, banVars>>

Next ==
  \/ \E r \in Requests :
       \/ \E s \in Sessions : StartIssue(r, s)
       \/ CheckHolderBan(r) \/ CheckSeedBan(r) \/ Allocate(r) \/ Bind(r)
       \/ RecordIssuance(r) \/ MarkIssued(r) \/ IssueFails(r) \/ AdminRevoke(r)
  \/ \E w \in Workers :
       \/ \E h \in Holders, reason \in Reasons : StartRevoke(w, h, reason)
       \/ \E h \in Holders : StartReinstate(w, h)
       \/ BanHolder(w) \/ ReadIssuances(w) \/ RevokeOne(w) \/ BanSeed(w)
       \/ Penalize(w) \/ Pardon(w) \/ ListSeeds(w) \/ UnbanSeed(w)
       \/ UnbanHolder(w) \/ RestoreVouchers(w) \/ WorkerFails(w)

Spec == Init /\ [][Next]_vars

-----------------------------------------------------------------------------
(* What may go wrong between the two.  History: late[w] are the requests   *)
(* run w's snapshot could not list, clean[w] says its ban stood all along, *)
(* swept are the holders with a completed run that nobody reinstated, and  *)
(* exposed[h] is the late of the last such run.                            *)

HandedOut(r)   == pc[r] = "done"
CredRevoked(r) == slotOf[r] # NoSlot /\ slotOf[r] \in revoked

(* "concurrent issue calls for one session mint exactly once": of any      *)
(* number of requests on a session at most one hands a credential out.     *)
OnePerSession ==
  \A r, q \in Requests :
    HandedOut(r) /\ HandedOut(q) /\ sess[r] = sess[q] => r = q

(* A credential a client holds can be revoked, alone and with its holder:  *)
(* it has a status slot no other credential has, and its holder's ledger   *)
(* lists it ("so a holder revocation can always find it").                 *)
HandedOutIsRevocable ==
  \A r \in Requests : HandedOut(r) =>
    /\ slotOf[r] \in used
    /\ \A q \in Requests : slotOf[q] = slotOf[r] => q = r
    /\ r \in ledger[HolderOfReq(r)]

(* A completed revocation reached everything it could: what a revoked      *)
(* holder still holds unrevoked was in flight, past the ban check and not  *)
(* yet in the ledger, when the run read the ledger.  So a second run, made *)
(* with nothing in flight, leaves nothing ("calling again finishes the     *)
(* job").                                                                  *)
SweepIsComplete ==
  \A h \in swept : \A r \in Requests :
    HandedOut(r) /\ HolderOfReq(r) = h => CredRevoked(r) \/ r \in exposed[h]

(* holderrevoke.go:13: "Revoking a holder bans the holder DID, revokes     *)
(* every credential it was issued".                                        *)
RevokedHolderHoldsNothing ==
  \A h \in swept : \A r \in Requests :
    HandedOut(r) /\ HolderOfReq(r) = h => CredRevoked(r)
-----------------------------------------------------------------------------
(* The inductive invariant behind the proofs: what each step of a request  *)
(* has already written,                                                    *)
RequestInv ==
  \A r \in Requests :
    /\ pc[r] # "idle" => sess[r] \in Sessions
    /\ pc[r] \in {"idle", "holderBan", "seedBans"} => slot[r] = NoSlot
    /\ pc[r] \in {"idle", "holderBan", "seedBans", "bind"} => slotOf[r] = NoSlot
    /\ pc[r] \in {"bind", "record", "mark", "done"} => slot[r] # NoSlot
    /\ pc[r] \in {"record", "mark", "done"} => slotOf[r] = slot[r]
    /\ pc[r] \in {"mark", "done"} => r \in ledger[HolderOfReq(r)]
    /\ pc[r] = "done" => issuedBy[sess[r]] = r

(* that a slot has one owner,                                              *)
SlotInv ==
  \A r \in Requests :
    /\ slot[r] # NoSlot => slot[r] \in used
    /\ slotOf[r] \in {NoSlot, slot[r]}
    /\ \A q \in Requests : slot[r] = slot[q] /\ slot[r] # NoSlot => r = q

(* that the ledger lists only bound credentials of its holder, so that     *)
(* Revoke never answers ErrCredentialNotFound to a run,                    *)
LedgerInv ==
  \A h \in Holders : \A r \in ledger[h] :
    /\ pc[r] \in {"mark", "done", "ended"}
    /\ sess[r] \in Sessions /\ HolderOfReq(r) = h
    /\ slotOf[r] # NoSlot

(* what a run has established,                                             *)
WorkerInv ==
  \A w \in Workers :
    /\ wpc[w] # "idle" => target[w] \in Holders
    /\ wpc[w] = "ban" => why[w] \in Reasons
    /\ wpc[w] = "revoke" => todo[w] \subseteq ledger[target[w]]
    /\ clean[w] => wpc[w] \in {"read", "revoke"} /\ banned[target[w]] # NotBanned

(* and where the requests past the ban check of a revoked holder are.      *)
PastCheck(r) == pc[r] \in {"seedBans", "bind", "record", "mark", "done"}

RunInv ==
  \A w \in Workers : clean[w] /\ wpc[w] = "revoke" =>
    \A r \in Requests : PastCheck(r) /\ HolderOfReq(r) = target[w] =>
      CredRevoked(r) \/ r \in late[w] \/ r \in todo[w]

SweptInv ==
  \A h \in swept :
    /\ banned[h] # NotBanned
    /\ \A r \in Requests : PastCheck(r) /\ HolderOfReq(r) = h =>
         CredRevoked(r) \/ r \in exposed[h]

IInv == /\ TypeOK /\ RequestInv /\ SlotInv /\ LedgerInv /\ WorkerInv
        /\ RunInv /\ SweptInv
=============================================================================
