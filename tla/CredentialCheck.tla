-------------------------- MODULE CredentialCheck ---------------------------
(***************************************************************************)
(* What a credential is worth to the integrator who is shown it: methods   *)
(* verified in a session become a signed credential with a slot in the     *)
(* status list, the operator revokes it, the issuer serves the list from a *)
(* cache, HTTP caches keep the response, and the SDK's Verify checks the   *)
(* signature, fetches the list and evaluates the policy, one after the     *)
(* other while time goes on.                                               *)
(*                                                                         *)
(* A signature is a record of the key and of what was signed.  A session   *)
(* issues one credential and has its name.                                 *)
(***************************************************************************)
EXTENDS Integers, FiniteSets

CONSTANTS
  Sessions, Verifiers,
  Scenarios,           \* a sequence of [store, plugins, policies, sessions,
                       \*   keyed, admin, enrolBy]: what is deployed; the
                       \*   sessions, those with a holder key, and the end of
                       \*   enrollment
  Slots,               \* slots of the status list that may be drawn
  Lifetime,            \* credentialLifetime
  CacheTTL,            \* revokedCacheTTL
  MaxAge,              \* of the status list response, Cache-Control
  MaxTime,
  None

statusListSize == 16
supplementaryStrengthCeiling == 50

(* The fields of a plugin's metadata, of a policy and of a credential, and *)
(* the codes an evaluation can have.                                       *)
MetadataFields == {"id", "type", "strength", "lifetime"}
PolicyFields == {"maxAge", "anchorAge", "allowed", "blocked", "floor", "points",
                 "nullifier", "tag", "anchor"}
CredentialFields == {"id", "issuer", "issued", "expires", "methods", "anchor",
                     "nullifier", "status"}
EvaluationCodes ==
  {"ok", "signature_invalid", "vc_expired", "anchor_missing", "anchor_method_expired",
   "method_blocked", "method_not_allowed", "method_strength_insufficient",
   "insufficient_supplementary", "nullifier_missing", "revoked"}

ASSUME CheckAssumption ==
  /\ Slots \subseteq 0..(statusListSize - 1) /\ None \notin Slots \cup Nat
  /\ Lifetime \in Nat \ {0}
  /\ \A n \in {CacheTTL, MaxAge, MaxTime} : n \in Nat
  /\ \A s \in {Scenarios[i] : i \in DOMAIN Scenarios} :
       /\ s.store \in {"memory", "redis", "firestore"}
       /\ \A m \in s.plugins : DOMAIN m = MetadataFields /\ m.lifetime \in Nat /\ m.strength \in Nat
       /\ \A p \in s.policies : DOMAIN p = PolicyFields /\ p.anchorAge \in Nat /\ p.maxAge \in Nat

VARIABLES
  scenario,            \* the number of the scenario
  registry, now,
  session,             \* [methods, anchor]: what the session verified
  issued,              \* credentials handed out
  slotOf,              \* the store: credential status, session to slot
  list,                \* the store: the revoked slots
  listedAt,            \* history: when a credential's slot got onto the list
  cache,               \* FirestoreRevocationStore.cache and its expiry
  revoking,            \* the call that holds the store's mutex, or None
  served,              \* responses that HTTP caches may still serve
  revokedAt,           \* history: when a revocation was acknowledged
  asked,               \* history: credentials an operator asked to revoke
  check                \* per verifier: its call

storeVars == <<slotOf, list, listedAt, cache, revoking>>
vars == <<scenario, registry, now, session, issued, storeVars, served, revokedAt,
          asked, check>>

Setting == Scenarios[scenario]

-----------------------------------------------------------------------------
(* The registry takes plugins whose metadata is consistent, the first of   *)
(* each ID.                                                                *)
MetadataValidate(m) ==
  /\ m.strength \in 0..100
  /\ \/ m.type = "anchor" /\ m.strength >= 50
     \/ m.type = "supplementary" /\ m.strength < 50
Registries(plugins) ==
  LET valid == {m \in plugins : MetadataValidate(m)}
  IN {r \in SUBSET valid : /\ \A m, n \in r : m.id = n.id => m = n
                           /\ \A m \in valid : \E n \in r : n.id = m.id}

(* Status list bits, most significant first within each byte of 8.         *)
Bytes == 0..(((statusListSize + 7) \div 8) - 1)
NewBitString == [b \in Bytes |-> 0]
Bit(byte, k) == (byte \div (2 ^ (7 - k))) % 2
BitSet(bits, i) == IF Bit(bits[i \div 8], i % 8) = 1 THEN bits
                   ELSE [bits EXCEPT ![i \div 8] = @ + 2 ^ (7 - (i % 8))]
Get(bits, i) == i \div 8 \in Bytes /\ Bit(bits[i \div 8], i % 8) = 1
ListBits(revoked) ==
  LET bits[n \in 0..statusListSize] ==
        IF n = 0 THEN NewBitString
        ELSE IF n - 1 \in revoked THEN BitSet(bits[n - 1], n - 1) ELSE bits[n - 1]
  IN bits[statusListSize]

-----------------------------------------------------------------------------
(* Signing.  Everything but the proof is signed.                           *)
(* Mutation: the status entry is left out of what is signed.               *)
CanonicalWithoutStatus(c) == [f \in CredentialFields \ {"status"} |-> c[f]]
canonicalizeWithoutProof(c) == [f \in CredentialFields |-> c[f]]
Signed(c, key) == [f \in CredentialFields \cup {"proof"} |->
  IF f = "proof" THEN [key |-> key, input |-> canonicalizeWithoutProof(c)] ELSE c[f]]
(* MapResolver: the SDK's list of trusted issuers.                         *)
Resolve(issuer) == IF issuer = "issuer" THEN "issuerKey" ELSE None

CredentialValidate(c) ==
  /\ c.issued < c.expires
  /\ c.methods # {}
  /\ c.anchor # None => \E m \in c.methods : m.id = c.anchor
VerifySignature(c) ==
  /\ CredentialValidate(c)
  /\ c.proof # None
  /\ Resolve(c.issuer) # None
  /\ c.proof.key = Resolve(c.issuer)
  /\ c.proof.input = canonicalizeWithoutProof(c)

(* What a holder can present: the credential as issued, or with something  *)
(* changed, under the old proof or one by a key of the holder's.           *)
Altered(c) ==
  {[c EXCEPT !.status = None], [c EXCEPT !.expires = @ + Lifetime],
   [c EXCEPT !.issuer = "other"], [c EXCEPT !.proof = None]}
    \cup {[c EXCEPT !.methods = @ \cup {[id |-> m.id, strength |-> m.strength,
                                         at |-> c.issued, lifetime |-> m.lifetime]},
                    !.anchor = m.id] : m \in {n \in registry : n.type = "anchor"}}
Presented == LET changed == UNION {Altered(c) : c \in issued}
             IN issued \cup changed \cup {Signed(c, "holderKey") : c \in changed}

-----------------------------------------------------------------------------
(* Policies, and their evaluation at time t.                               *)
(*   maxAge, anchorAge: 0 for none; allowed: {} for every method; floor:   *)
(*   the least strength, by method; points; nullifier, anchor: required.   *)
FreshOnItsOwn(m, t) == m.lifetime > 0 => t - m.at <= m.lifetime
Counting(c, t) == {m \in c.methods : /\ m.strength < supplementaryStrengthCeiling
                                     /\ FreshOnItsOwn(m, t)}
Points(ms) ==
  LET sum[s \in SUBSET ms] ==
        IF s = {} THEN 0 ELSE LET m == CHOOSE x \in s : TRUE IN m.strength + sum[s \ {m}]
  IN sum[ms]
AnchorWindow(c, p, m) == IF p.anchorAge > 0 THEN p.anchorAge ELSE m.lifetime
AnchorFresh(c, p, t) == c.anchor # None =>
  \E m \in c.methods : /\ m.id = c.anchor
                       /\ AnchorWindow(c, p, m) > 0 => t - m.at <= AnchorWindow(c, p, m)
DeriveNullifier(binding, tag) == IF binding = None \/ tag = "" THEN None ELSE <<binding, tag>>
PolicyValidate(p) ==
  /\ p.points >= 0 /\ p.maxAge >= 0 /\ p.anchorAge >= 0
  /\ p.nullifier => p.tag # ""
Evaluate(c, p, t) ==
  CASE ~CredentialValidate(c) -> "signature_invalid"
    [] p.maxAge > 0 /\ t - c.issued > p.maxAge -> "vc_expired"
    [] t > c.expires -> "vc_expired"
    [] p.anchor /\ c.anchor = None -> "anchor_missing"
    [] ~AnchorFresh(c, p, t) -> "anchor_method_expired"
    [] \E m \in c.methods : m.id \in p.blocked -> "method_blocked"
    [] p.allowed # {} /\ \E m \in c.methods : m.id \notin p.allowed -> "method_not_allowed"
    [] \E m \in c.methods : m.id \in DOMAIN p.floor /\ m.strength < p.floor[m.id]
         -> "method_strength_insufficient"
    [] ~(Points(Counting(c, t)) >= p.points) -> "insufficient_supplementary"
    [] p.nullifier /\ DeriveNullifier(c.nullifier, p.tag) = None -> "nullifier_missing"
    [] OTHER -> "ok"

-----------------------------------------------------------------------------
Idle == [step |-> "idle"]
CheckTypeOK ==
  /\ scenario \in DOMAIN Scenarios /\ registry \in Registries(Setting.plugins) /\ now \in 0..MaxTime
  /\ \A s \in Sessions : /\ \A m, n \in session[s].methods :
                              m.at \in 0..now /\ (m.id = n.id => m = n)
                         /\ session[s].anchor # None =>
                              \E m \in session[s].methods : m.id = session[s].anchor
  /\ \A c \in issued : /\ c = Signed(c, "issuerKey") /\ c.issuer = "issuer"
                        /\ CredentialValidate(c) /\ c.status = slotOf[c.id]
  /\ list \subseteq Slots
  /\ cache # None => cache.slots \subseteq Slots /\ cache.until \in 0..(MaxTime + CacheTTL)
  /\ revoking # None => revoking.id \in Sessions
  /\ \A v \in Verifiers : /\ check[v].step \in {"idle", "status", "evaluate", "done"}
                          /\ check[v].step = "done" => check[v].code \in EvaluationCodes

CheckInit ==
  /\ scenario \in DOMAIN Scenarios /\ registry \in Registries(Setting.plugins) /\ now = 0
  /\ session = [s \in Sessions |-> [methods |-> {}, anchor |-> None]]
  /\ issued = {} /\ slotOf = [s \in Sessions |-> None]
  /\ list = {} /\ listedAt = [s \in Sessions |-> None] /\ cache = None /\ revoking = None
  /\ served = {} /\ revokedAt = [s \in Sessions |-> None] /\ asked = {}
  /\ check = [v \in Verifiers |-> Idle]

(* A method done again replaces its earlier result.                        *)
ResultOf(m) == [id |-> m.id, strength |-> m.strength, at |-> now, lifetime |-> m.lifetime]
ResultIn(ms, m) == {x \in ms : x.id # m.id} \cup {ResultOf(m)}
RecordMethodResult(s, m) ==
  /\ s \in Setting.sessions /\ now <= Setting.enrolBy /\ \A c \in issued : c.id # s
  /\ session' = [session EXCEPT
       ![s].methods = ResultIn(@, m),
       ![s].anchor = IF m.type = "anchor" THEN m.id ELSE @]
  /\ UNCHANGED <<scenario, registry, now, issued, storeVars, served, revokedAt, asked, check>>

FreeSlot(slot) == \A x \in Sessions : slotOf[x] # slot
(* Issue, with the slot that Allocate drew and Bind binds (the handler's   *)
(* own steps and failures are Issuance.tla's).                             *)
Issue(s, slot) ==
  /\ session[s].methods # {} /\ now <= Setting.enrolBy /\ \A c \in issued : c.id # s
  /\ FreeSlot(slot)
  /\ slotOf' = [slotOf EXCEPT ![s] = slot]
  /\ issued' = issued \cup
       {Signed([id |-> s, issuer |-> "issuer", issued |-> now, expires |-> now + Lifetime,
                methods |-> session[s].methods, anchor |-> session[s].anchor,
                nullifier |-> IF s \in Setting.keyed THEN s ELSE None, status |-> slot], "issuerKey")}
  /\ UNCHANGED <<scenario, registry, now, session, list, listedAt, cache, revoking, served,
                 revokedAt, asked, check>>

-----------------------------------------------------------------------------
(* handleAdminRevoke.  Under the mutex the list is read, then written; the *)
(* write may fail, before or after it took effect, and the operator tries  *)
(* again.                                                                  *)
RevokeReads(s) ==
  /\ Setting.admin /\ revoking = None /\ slotOf[s] # None
  /\ asked' = asked \cup {s}
  /\ IF slotOf[s] \in list
     THEN /\ revokedAt' = [revokedAt EXCEPT ![s] = IF @ = None THEN now ELSE @]
          /\ UNCHANGED revoking
     ELSE /\ revoking' = [id |-> s, list |-> list]
          /\ UNCHANGED revokedAt
  /\ UNCHANGED <<scenario, registry, now, session, issued, slotOf, list, listedAt, cache, served, check>>
(* Mutation: the list is written with the new slot only.                   *)
OnlyThisSlot(call) == {slotOf[call.id]}
RevokedList(call) == call.list \cup {slotOf[call.id]}
RevokeWrites ==
  /\ revoking # None
  /\ \/ /\ list' = RevokedList(revoking) /\ cache' = None
        /\ revokedAt' = [revokedAt EXCEPT ![revoking.id] = now]
     \/ /\ Setting.store # "memory" /\ list' \in {list, RevokedList(revoking)}
        /\ UNCHANGED <<cache, revokedAt>>
  /\ listedAt' = [s \in Sessions |-> IF slotOf[s] \in list' \ list THEN now ELSE listedAt[s]]
  /\ revoking' = None
  /\ UNCHANGED <<scenario, registry, now, session, issued, slotOf, served, asked, check>>

(* handleStatusList.  Only the Firestore store keeps a cache, under the    *)
(* mutex of Revoke.                                                        *)
(* Mutation: the expiry of the cache is not looked at.                     *)
Unexpired == cache # None
Cached == cache # None /\ now < cache.until
Revoked(slots) ==
  CASE Setting.store = "firestore" /\ Cached ->
         revoking = None /\ slots = cache.slots /\ UNCHANGED cache
    [] Setting.store = "firestore" /\ ~Cached ->
         /\ revoking = None /\ slots = list
         /\ cache' = [slots |-> list, until |-> now + CacheTTL]
    [] OTHER -> slots = list /\ UNCHANGED cache
(* A response may be kept by HTTP caches on the way and served for MaxAge. *)
Serve(slots) == [bits |-> ListBits(slots), at |-> now]
Usable == {r \in served : now - r.at <= MaxAge}

(* A restart clears the cache; it comes while no revocation is under way.  *)
Restart ==
  /\ cache # None /\ revoking = None /\ cache' = None
  /\ UNCHANGED <<scenario, registry, now, session, issued, slotOf, list, listedAt, revoking, served,
                 revokedAt, asked, check>>

-----------------------------------------------------------------------------
(* The SDK's Verify, in its three parts.                                   *)
Verify(v, c, p) ==
  /\ check[v].step = "idle" /\ PolicyValidate(p) /\ VerifySignature(c)
  /\ check' = [check EXCEPT ![v] = [step |-> "status", c |-> c, p |-> p, began |-> now]]
  /\ UNCHANGED <<scenario, registry, now, session, issued, storeVars, served, revokedAt, asked>>
(* IsRevoked: a credential without a status entry is never revoked.        *)
FetchStatusList(v) ==
  /\ check[v].step = "status"
  /\ \/ /\ check[v].c.status = None
        /\ check' = [check EXCEPT ![v].step = "evaluate"]
        /\ UNCHANGED <<cache, served>>
     \/ /\ check[v].c.status # None
        /\ \E r \in Usable \cup {Serve(slots) : slots \in SUBSET Slots} :
             /\ \/ r \in Usable /\ UNCHANGED <<cache, served>>
                \/ \E slots \in SUBSET Slots :
                     /\ Revoked(slots) /\ r = Serve(slots) /\ served' = Usable \cup {r}
             /\ check' = [check EXCEPT ![v] =
                  IF Get(r.bits, @.c.status)
                  THEN [step |-> "done", code |-> "revoked", c |-> @.c, p |-> @.p,
                        began |-> @.began, at |-> now]
                  ELSE [@ EXCEPT !.step = "evaluate"]]
  /\ UNCHANGED <<scenario, registry, now, session, issued, slotOf, list, listedAt, revoking,
                 revokedAt, asked>>
EvaluateCheck(v) ==
  /\ check[v].step = "evaluate"
  /\ check' = [check EXCEPT ![v] =
       [step |-> "done", code |-> Evaluate(@.c, @.p, now), c |-> @.c, p |-> @.p,
        began |-> @.began, at |-> now]]
  /\ UNCHANGED <<scenario, registry, now, session, issued, storeVars, served, revokedAt, asked>>
Done(v) ==
  /\ check[v].step = "done" /\ check' = [check EXCEPT ![v] = Idle]
  /\ UNCHANGED <<scenario, registry, now, session, issued, storeVars, served, revokedAt, asked>>

CheckTick ==
  /\ now < MaxTime /\ now' = now + 1
  /\ served' = {r \in served : now + 1 - r.at <= MaxAge}
  /\ UNCHANGED <<scenario, registry, session, issued, storeVars, revokedAt, asked, check>>

CheckNext ==
  \/ \E s \in Sessions : \/ \E m \in registry : RecordMethodResult(s, m)
                         \/ \E slot \in Slots : Issue(s, slot)
                         \/ RevokeReads(s)
  \/ RevokeWrites \/ Restart \/ CheckTick
  \/ \E v \in Verifiers :
       \/ \E c \in Presented, p \in Setting.policies : Verify(v, c, p)
       \/ FetchStatusList(v) \/ EvaluateCheck(v) \/ Done(v)
CheckSpec == CheckInit /\ [][CheckNext]_vars

-----------------------------------------------------------------------------
Results == {check[v] : v \in {x \in Verifiers : check[x].step = "done"}}

(* What is accepted is what was issued: nothing can be added to, taken     *)
(* from or prolonged in a credential, its status entry included (Verify,   *)
(* canonicalizeWithoutProof).                                              *)
AcceptedWasIssued == \A r \in Results : r.code = "ok" => r.c \in issued

(* A check that begins a minute after the operator was told that the       *)
(* credential is revoked refuses it: "a revocation shows up within a       *)
(* minute" (handleStatusList), also after a failed write and a retry.      *)
RevokedIsSeen ==
  \A r \in Results : (r.code = "ok" /\ revokedAt[r.c.id] # None)
                       => r.began <= revokedAt[r.c.id] + CacheTTL + MaxAge

(* Nobody is refused as revoked whose revocation no operator asked for.    *)
OnlyTheRevoked == \A r \in Results : r.code = "revoked" => r.c.id \in asked

(* What an accepted credential means, in terms of the method types the     *)
(* plugins declare: the required points come from distinct supplementary   *)
(* methods that are fresh now, and a required anchor is an anchor method   *)
(* verified within its window (Evaluate decides by strength alone).        *)
TypeOf(id) == (CHOOSE m \in registry : m.id = id).type
PolicyMet ==
  \A r \in Results : r.code = "ok" =>
    LET fresh == {m \in r.c.methods : FreshOnItsOwn(m, r.at)}
        supplementary == {m \in fresh : TypeOf(m.id) = "supplementary"}
        window(m) == IF r.p.anchorAge > 0 THEN r.p.anchorAge ELSE m.lifetime
    IN /\ \E some \in SUBSET supplementary : Points(some) >= r.p.points
       /\ r.p.anchor => \E m \in r.c.methods :
            TypeOf(m.id) = "anchor" /\ (window(m) = 0 \/ r.at <= m.at + window(m))
       /\ r.at - r.c.issued <= Lifetime
       /\ \A m \in r.c.methods : m.at <= r.c.issued

(* What a verifier accepts is a credential as issued that meets the policy *)
(* it checks (VerifyCredential, policy.Evaluate).                          *)
AcceptedAsIssued == AcceptedWasIssued /\ PolicyMet

(* What the status list says of a credential is true: revocations show     *)
(* within their window, and nobody else is taken for revoked.              *)
StatusIsTrue == RevokedIsSeen /\ OnlyTheRevoked

(* The stores, the cache, the responses on the way and the checks are one  *)
(* list that grows and that everybody reads at most CacheTTL + MaxAge late *)
(* (Revocation): also a revocation that the operator was told had failed,  *)
(* once its write landed.                                                  *)
Since == [s \in Sessions |-> IF slotOf[s] \in list THEN listedAt[s] ELSE None]
Told == {s \in Sessions : revokedAt[s] # None}
Answers == [v \in Verifiers |->
  IF check[v].step \in {"evaluate", "done"}
  THEN [of |-> check[v].c.id, revoked |-> check[v].step = "done" /\ check[v].code = "revoked"]
  ELSE None]
Revoke == INSTANCE Revocation
            WITH Credentials <- Sessions, Readers <- Verifiers, Window <- CacheTTL + MaxAge,
                 Never <- None, clock <- now, since <- Since, told <- Told, answer <- Answers
ImplementsRevocation == Revoke!Spec
=============================================================================
