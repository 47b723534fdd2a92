---------------------------- MODULE SessionStore ----------------------------
(***************************************************************************)
(* One enrollment session in a shared store (session_redis.go,             *)
(* session_firestore.go): the record is read, changed and written back as  *)
(* a whole, without a lock or a transaction, by ceremonies that complete   *)
(* (recordVerified) and by issue calls (MarkIssued).  A write may therefore*)
(* put back what was read before someone else's write.  Only the issue     *)
(* claim is atomic: SET NX in Redis, a create-only document in Firestore.  *)
(* The in-memory store behaves like this one when every read is followed   *)
(* at once by its write.                                                   *)
(*                                                                         *)
(* The Redis claim carries the session's remaining lifetime as its TTL,    *)
(* Firestore's has none: ClaimExpires tells the two apart.                 *)
(***************************************************************************)
EXTENDS Integers, FiniteSets

CONSTANTS
  Ceremonies,   \* one handler per method runs at a time
  Kinds,        \* identifier kinds
  NoKind,       \* a method that proves no identifier
  KindOf,       \* identifierKindForMethod
  Selfie,       \* the methods whose result carries a biometric commitment
  Anchors,      \* the methods of type anchor
  Issuers,      \* calls of handleIssueCredential; each signs one credential
  NoMethod, NoCred,
  ClaimExpires

ASSUME NoneAssumption ==
  NoKind \notin Kinds /\ NoMethod \notin Ceremonies /\ NoCred \notin Issuers
ASSUME MethodAssumption ==
  /\ KindOf \in [Ceremonies -> Kinds \cup {NoKind}]
  /\ Selfie \subseteq Ceremonies /\ Anchors \subseteq Ceremonies
ASSUME ClaimAssumption == ClaimExpires \in BOOLEAN

VARIABLES
  rec,          \* the stored sessionRecord
  claim,        \* the issue claim
  expired,      \* the session's ExpiresAt has passed
  mpc, mcopy,   \* per ceremony: where recordVerified is, the record it read
  ipc, icopy,   \* per issue call: where it is, the record MarkIssued read
  view          \* per issue call: the SessionView it issues from

sessionVars == <<rec, claim, expired, mpc, mcopy, ipc, icopy, view>>

Records == [methods : SUBSET Ceremonies, keys : SUBSET Kinds,
            anchor : Ceremonies \cup {NoMethod}, issued : Issuers \cup {NoCred}]
Fresh == [methods |-> {}, keys |-> {}, anchor |-> NoMethod, issued |-> NoCred]

SessionTypeOK ==
  /\ rec \in Records
  /\ claim \in Issuers \cup {NoCred}
  /\ expired \in BOOLEAN
  /\ mpc \in [Ceremonies -> {"idle", "key", "keyed", "result"}]
  /\ mcopy \in [Ceremonies -> Records]
  /\ ipc \in [Issuers -> {"idle", "mark", "claim", "write", "done", "ended"}]
  /\ icopy \in [Issuers -> Records]
  /\ view \in [Issuers -> Records]

(* Create: a fresh record.                                                 *)
SessionInit ==
  /\ rec = Fresh
  /\ claim = NoCred
  /\ expired = FALSE
  /\ mpc = [m \in Ceremonies |-> "idle"]
  /\ mcopy = [m \in Ceremonies |-> Fresh]
  /\ ipc = [i \in Issuers |-> "idle"]
  /\ icopy = [i \in Issuers |-> Fresh]
  /\ view = [i \in Issuers |-> Fresh]

(* read() finds a live record, and the operation does not refuse it with   *)
(* ErrSessionAlreadyIssued.                                                *)
Open == ~ expired /\ rec.issued = NoCred

-----------------------------------------------------------------------------
(* recordVerified after a successful ceremony: SetIdentifierKey for a      *)
(* method that proves an identifier, then RecordMethodResult.              *)

ProvesIdentifier(m) == KindOf[m] # NoKind

ReadForKey(m) ==
  /\ mpc[m] = "idle" /\ ProvesIdentifier(m)
  /\ Open
  /\ mcopy' = [mcopy EXCEPT ![m] = rec]
  /\ mpc' = [mpc EXCEPT ![m] = "key"]
  /\ UNCHANGED <<rec, claim, expired, ipc, icopy, view>>

KeyAdded(m) == [mcopy[m] EXCEPT !.keys = @ \cup {KindOf[m]}]

SetIdentifierKey(m) ==
  /\ mpc[m] = "key"
  /\ rec' = KeyAdded(m)
  /\ mpc' = [mpc EXCEPT ![m] = "keyed"]
  /\ mcopy' = [mcopy EXCEPT ![m] = Fresh]
  /\ UNCHANGED <<claim, expired, ipc, icopy, view>>

ReadForResult(m) ==
  /\ mpc[m] = IF ProvesIdentifier(m) THEN "keyed" ELSE "idle"
  /\ Open
  /\ mcopy' = [mcopy EXCEPT ![m] = rec]
  /\ mpc' = [mpc EXCEPT ![m] = "result"]
  /\ UNCHANGED <<rec, claim, expired, ipc, icopy, view>>

ResultAdded(m) ==
  [mcopy[m] EXCEPT !.methods = @ \cup {m},
                   !.anchor  = IF m \in Anchors THEN m ELSE @]

RecordMethodResult(m) ==
  /\ mpc[m] = "result"
  /\ rec' = ResultAdded(m)
  /\ mpc' = [mpc EXCEPT ![m] = "idle"]
  /\ mcopy' = [mcopy EXCEPT ![m] = Fresh]
  /\ UNCHANGED <<claim, expired, ipc, icopy, view>>

(* The store fails, or the session is gone or issued: the handler answers  *)
(* with an error and the client may run the ceremony again.                *)
CeremonyFails(m) ==
  /\ mpc[m] # "idle"
  /\ mpc' = [mpc EXCEPT ![m] = "idle"]
  /\ mcopy' = [mcopy EXCEPT ![m] = Fresh]
  /\ UNCHANGED <<rec, claim, expired, ipc, icopy, view>>

-----------------------------------------------------------------------------
(* handleIssueCredential.                                                  *)
Bio(r) == r.methods \cap Selfie # {}

(* Mutation: the reverify_required answer is dropped.                      *)
NothingUnkeyed(r) == FALSE

(* A verified identifier method without its key (reverify_required).       *)
Unkeyed(r) == \E m \in r.methods : ProvesIdentifier(m) /\ KindOf[m] \notin r.keys

(* The view decides the credential's methods, anchor and binding.          *)
ReadView(i) ==
  /\ ipc[i] = "idle"
  /\ Open
  /\ rec.methods # {}
  /\ Bio(rec) \/ ~ Unkeyed(rec)
  /\ view' = [view EXCEPT ![i] = rec]
  /\ ipc' = [ipc EXCEPT ![i] = "mark"]
  /\ UNCHANGED <<rec, claim, expired, mpc, mcopy, icopy>>

ReadForMark(i) ==
  /\ ipc[i] = "mark"
  /\ Open
  /\ icopy' = [icopy EXCEPT ![i] = rec]
  /\ ipc' = [ipc EXCEPT ![i] = "claim"]
  /\ UNCHANGED <<rec, claim, expired, mpc, mcopy, view>>

(* Mutation: a plain SET.                                                  *)
AlwaysFree == TRUE

ClaimFree == claim = NoCred

(* SET NX / Create: the first caller wins; the answer may be lost.         *)
ClaimIssue(i) ==
  /\ ipc[i] = "claim"
  /\ \/ ClaimFree /\ claim' = i /\ \E to \in {"write", "ended"} :
                                      ipc' = [ipc EXCEPT ![i] = to]
     \/ ~ ClaimFree /\ claim' = claim /\ ipc' = [ipc EXCEPT ![i] = "ended"]
  /\ icopy' = IF ipc'[i] = "write" THEN icopy ELSE [icopy EXCEPT ![i] = Fresh]
  /\ UNCHANGED <<rec, expired, mpc, mcopy, view>>

(* The record is written back with the credential id; the credential is    *)
(* handed out when that write succeeds.                                    *)
MarkIssued(i) ==
  /\ ipc[i] = "write"
  /\ rec' = [icopy[i] EXCEPT !.issued = i]
  /\ \E to \in {"done", "ended"} : ipc' = [ipc EXCEPT ![i] = to]
  /\ icopy' = [icopy EXCEPT ![i] = Fresh]
  /\ UNCHANGED <<claim, expired, mpc, mcopy, view>>

IssueFails(i) ==
  /\ ipc[i] \in {"mark", "claim", "write"}
  /\ ipc' = [ipc EXCEPT ![i] = "ended"]
  /\ icopy' = [icopy EXCEPT ![i] = Fresh]
  /\ UNCHANGED <<rec, claim, expired, mpc, mcopy, view>>

(* ExpiresAt passes: no read succeeds any more, and a claim with a TTL is  *)
(* gone too.  A call that read before may still claim (ttl <= 0 becomes a  *)
(* minute).                                                                *)
Expire ==
  /\ ~ expired
  /\ expired' = TRUE
  /\ claim' = IF ClaimExpires THEN NoCred ELSE claim
  /\ UNCHANGED <<rec, mpc, mcopy, ipc, icopy, view>>

SessionNext ==
  \/ \E m \in Ceremonies :
       \/ ReadForKey(m) \/ SetIdentifierKey(m) \/ ReadForResult(m)
       \/ RecordMethodResult(m) \/ CeremonyFails(m)
  \/ \E i \in Issuers :
       \/ ReadView(i) \/ ReadForMark(i) \/ ClaimIssue(i) \/ MarkIssued(i)
       \/ IssueFails(i)
  \/ Expire

SessionSpec == SessionInit /\ [][SessionNext]_sessionVars

-----------------------------------------------------------------------------
Delivered == {i \in Issuers : ipc[i] = "done"}

(* MarkIssued chooses one credential for good: the store implements        *)
(* IssueOnce although the record itself can lose the issued mark to a      *)
(* stale write.                                                            *)
Once == INSTANCE IssueOnce
          WITH Credentials <- Issuers, winner <- claim, delivered <- Delivered
ImplementsIssueOnce == Once!Spec

(* "not incorrect issuance": whatever writes were lost, a delivered        *)
(* credential names an anchor only together with that anchor's method, and *)
(* a credential without a face that lists an identifier method is bound to *)
(* that identifier (handlers.go, reverify_required).                       *)
DeliveredIsCoherent ==
  \A i \in Delivered :
    /\ view[i].anchor # NoMethod => view[i].anchor \in view[i].methods
    /\ ~ Bio(view[i]) =>
         \A m \in view[i].methods : ProvesIdentifier(m) => KindOf[m] \in view[i].keys
=============================================================================
