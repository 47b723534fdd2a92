---------------------------- MODULE DeviceAttest ----------------------------
(***************************************************************************)
(* Device attestation (src/methods/app-attest-device, wired by             *)
(* src/server/appattest.go): a phone's keystore certifies a key together   *)
(* with the session's nonce, the state the phone booted in and the app     *)
(* that asked, and the chain of certificates ends at a pinned root.  The   *)
(* vendor's list of revoked serials is fetched and cached.                 *)
(*                                                                         *)
(* A key is a value and a signature is the key that made it.  list holds   *)
(* its mutex during a fetch, so a check with its fetch is one step.        *)
(*                                                                         *)
(* Left out: the encodings, the development stand-in with a shared secret, *)
(* the limit of sessions per device (module Limiters).                     *)
(***************************************************************************)
EXTENDS Integers, Sequences

CONSTANTS
  Devices,         \* phones: their app, boot state and certificates
  RootKeys,        \* the keys of the pinned roots
  Serials,         \* bound of the model: the serials the vendor may list
  Roots,           \* the pinned root certificates
  Package, Signers,
  AttSessions, AttNonces,
  ListMaxAge, RetryAfter,
  MaxAttTime,      \* bound of the model: time stops here
  NoneAtt          \* absent

ASSUME AttBounds == ListMaxAge \in Nat \ {0} /\ RetryAfter \in Nat \ {0} /\ MaxAttTime \in Nat
ASSUME AttAssumption ==
  /\ NoneAtt \notin AttSessions \cup AttNonces /\ NoneAtt \notin Nat /\ \A x \in SUBSET Serials : NoneAtt # x
  /\ \A d \in Devices : /\ d.chain \in Seq({d.chain[i] : i \in DOMAIN d.chain})
                         /\ \A n \in AttNonces : NoneAtt # [challenge |-> n, state |-> d.state]

VARIABLES
  mode,            \* "fail-open" or "fail-closed"
  attChallenge,    \* ChallengeStore
  attested,        \* the certificates phones made: device and nonce
  published,       \* the vendor's list: since when each serial is on it
  revoked, fetchedAt, lastAttempt, lastErr,   \* StatusList
  attTime,
  \* What happened, for the properties.
  handed,          \* nonces handed out, with their session
  lastFetched,     \* the last list this process was given
  accepted         \* the last attestation that was accepted

attVars == <<mode, attChallenge, attested, published, revoked, fetchedAt, lastAttempt, lastErr,
             attTime, handed, lastFetched, accepted>>

AttInit ==
  /\ mode \in {"fail-open", "fail-closed"}
  /\ attChallenge = [s \in AttSessions |-> NoneAtt] /\ attested = {}
  /\ published = [x \in Serials |-> NoneAtt]
  /\ revoked = NoneAtt /\ fetchedAt = 0 /\ lastAttempt = 0 - RetryAfter /\ lastErr = FALSE
  /\ attTime = 0 /\ handed = [n \in AttNonces |-> NoneAtt] /\ lastFetched = NoneAtt /\ accepted = NoneAtt

-----------------------------------------------------------------------------
(* What a phone certifies, and what can be sent.                           *)

GoodState == [level |-> "tee", boot |-> "verified", locked |-> TRUE, origin |-> "generated",
              packages |-> {Package}, signers |-> Signers]

(* The keystore writes the extension; only this certificate has one.       *)
Leaf(a) ==
  [subject |-> "leaf", issuer |-> Head(a.device.chain).subject, key |-> a.device.app,
   signedWith |-> Head(a.device.chain).key, serial |-> "leaf", until |-> MaxAttTime,
   ext |-> [challenge |-> a.nonce, state |-> a.device.state]]

(* An app can have its certified key sign anything, also the text of a     *)
(* certificate with an extension of its own making.                        *)
SelfMadeLeaf(a, n) ==
  [Leaf(a) EXCEPT !.issuer = "leaf", !.signedWith = a.device.app,
     !.ext = [challenge |-> n, state |-> GoodState]]

KeystoreChain(a) == <<Leaf(a)>> \o a.device.chain
ExtendedChain(a, n) == <<SelfMadeLeaf(a, n)>> \o KeystoreChain(a)

Sendable ==
  {KeystoreChain(a) : a \in attested} \cup {ExtendedChain(a, n) : a \in attested, n \in AttNonces}

-----------------------------------------------------------------------------
(* VerifyChain.                                                            *)

IssuedBy(c, parent) == c.issuer = parent.subject /\ c.signedWith = parent.key

verifyChainSignatures(chain) ==
  LET top == Len(chain)
      pinned == chain[top].key \in RootKeys
  IN /\ \A i \in 1..top : (i = top /\ pinned) \/ attTime <= chain[i].until
     /\ \A i \in 1..(top - 1) : IssuedBy(chain[i], chain[i + 1])
     /\ pinned \/ \E r \in Roots : IssuedBy(chain[top], r)

(* Mutation: the first extension from the leaf up is taken.                *)
FirstExtension(chain) == Head(chain).ext # NoneAtt
(* The extension is in the leaf and nowhere else.                          *)
OnlyLeafExtension(chain) ==
  \A i \in DOMAIN chain : chain[i].ext # NoneAtt <=> i = 1

checkApp(state) ==
  /\ Package \in state.packages
  /\ Signers = {} \/ (state.signers # {} /\ state.signers \subseteq Signers)

StateOK(state) ==
  /\ state.level \in {"tee", "strongbox"} /\ state.boot = "verified" /\ state.locked
  /\ state.origin = "generated" /\ checkApp(state)

ChainOK(chain, nonce) ==
  /\ Len(chain) \in 2..10
  /\ verifyChainSignatures(chain) /\ OnlyLeafExtension(chain)
  /\ chain[1].ext.challenge = nonce /\ StateOK(chain[1].ext.state)

-----------------------------------------------------------------------------
(* The list of revoked serials.                                            *)

Listed == {x \in Serials : published[x] # NoneAtt}

FreshList(now) == revoked # NoneAtt /\ now - fetchedAt < ListMaxAge

KeptList == revoked

(* Refreshing the list when it is stale and the last attempt long enough   *)
(* ago; a failed refresh keeps the previous list.                          *)
RefreshList ==
  IF FreshList(attTime) \/ attTime - lastAttempt < RetryAfter
  THEN UNCHANGED <<revoked, fetchedAt, lastAttempt, lastErr, lastFetched>>
  ELSE /\ lastAttempt' = attTime
       /\ \/ revoked' = Listed /\ fetchedAt' = attTime /\ lastErr' = FALSE /\ lastFetched' = Listed
          \/ revoked' = KeptList /\ fetchedAt' = fetchedAt /\ lastErr' = TRUE /\ UNCHANGED lastFetched

(* Check, on the list that RefreshList returns.                            *)
NotRevoked(chain) ==
  IF revoked' = NoneAtt THEN mode = "fail-open"
  ELSE \A i \in DOMAIN chain : chain[i].serial \notin revoked'

-----------------------------------------------------------------------------
(* The steps.                                                              *)

PutChallenge(s, n) == attChallenge' = [attChallenge EXCEPT ![s] = n]

(* A new challenge replaces the one before, which is not consumed by use.  *)
BeginAttest(s, n) ==
  /\ handed[n] = NoneAtt
  /\ handed' = [handed EXCEPT ![n] = s] /\ PutChallenge(s, n)
  /\ UNCHANGED <<mode, attested, published, revoked, fetchedAt, lastAttempt, lastErr, attTime, lastFetched, accepted>>

Attest(d, n) ==
  /\ handed[n] # NoneAtt
  /\ attested' = attested \cup {[device |-> d, nonce |-> n]}
  /\ UNCHANGED <<mode, attChallenge, published, revoked, fetchedAt, lastAttempt, lastErr, attTime, handed, lastFetched, accepted>>

CompleteAttest(s, chain) ==
  /\ attChallenge[s] # NoneAtt
  /\ ChainOK(chain, attChallenge[s])
  /\ RefreshList
  /\ accepted' = IF NotRevoked(chain)
                 THEN [session |-> s, nonce |-> attChallenge[s], chain |-> chain, at |-> attTime,
                       fetched |-> lastFetched', failed |-> lastErr']
                 ELSE accepted
  /\ UNCHANGED <<mode, attChallenge, attested, published, attTime, handed>>

(* The vendor lists a serial, or takes it back.                            *)
Publish(x) ==
  /\ published' = [published EXCEPT ![x] = IF @ = NoneAtt THEN attTime ELSE NoneAtt]
  /\ UNCHANGED <<mode, attChallenge, attested, revoked, fetchedAt, lastAttempt, lastErr, attTime, handed, lastFetched, accepted>>

AttRestart ==
  /\ attChallenge' = [s \in AttSessions |-> NoneAtt]
  /\ revoked' = NoneAtt /\ fetchedAt' = 0 /\ lastAttempt' = 0 - RetryAfter /\ lastErr' = FALSE
  /\ lastFetched' = NoneAtt /\ accepted' = NoneAtt
  /\ UNCHANGED <<mode, attested, published, attTime, handed>>

AttTick ==
  /\ attTime < MaxAttTime /\ attTime' = attTime + 1
  /\ UNCHANGED <<mode, attChallenge, attested, published, revoked, fetchedAt, lastAttempt, lastErr, handed, lastFetched, accepted>>

AttNext ==
  \/ \E s \in AttSessions, n \in AttNonces : BeginAttest(s, n)
  \/ \E d \in Devices, n \in AttNonces : Attest(d, n)
  \/ \E s \in AttSessions : \E chain \in Sendable : CompleteAttest(s, chain)
  \/ \E x \in Serials : Publish(x)
  \/ AttRestart \/ AttTick

AttSpec == AttInit /\ [][AttNext]_attVars

-----------------------------------------------------------------------------
(* Properties.                                                             *)

AttTypeOK ==
  /\ mode \in {"fail-open", "fail-closed"} /\ attTime \in 0..MaxAttTime
  /\ attChallenge \in [AttSessions -> AttNonces \cup {NoneAtt}]
  /\ revoked = NoneAtt \/ revoked \subseteq Serials
  /\ fetchedAt <= attTime /\ lastAttempt <= attTime
  /\ \A s \in AttSessions : attChallenge[s] # NoneAtt => handed[attChallenge[s]] = s

(* A completed attestation comes from a phone in good state running the    *)
(* right app, which certified the nonce handed to this very session: not   *)
(* from an extension an app wrote itself, an earlier challenge or another  *)
(* session's.                                                              *)
GenuineDevice ==
  accepted # NoneAtt =>
    /\ handed[accepted.nonce] = accepted.session
    /\ \E a \in attested :
         a.nonce = accepted.nonce /\ StateOK(a.device.state) /\ accepted.chain = KeystoreChain(a)

(* "A cached list, even a stale one, is always used": as long as the       *)
(* process runs, no outage of the list brings a serial back that the last  *)
(* list it fetched names; before the first list fail-closed accepts        *)
(* nothing.                                                                *)
FetchedListHolds ==
  accepted # NoneAtt =>
    IF accepted.fetched = NoneAtt THEN mode = "fail-open"
    ELSE \A i \in DOMAIN accepted.chain : accepted.chain[i].serial \notin accepted.fetched

(* A listed serial is accepted for at most ListMaxAge (or RetryAfter, if   *)
(* that is longer) after the vendor published it, unless the last attempt  *)
(* to fetch the list failed.                                               *)
ListedSerialsExpire ==
  accepted # NoneAtt /\ ~accepted.failed =>
    \A i \in DOMAIN accepted.chain :
      LET x == accepted.chain[i].serial
      IN x \in Serials /\ published[x] # NoneAtt =>
           accepted.at - published[x] < (IF ListMaxAge > RetryAfter THEN ListMaxAge ELSE RetryAfter)

(* A device result stands for a genuine phone in good state, and a serial  *)
(* that the vendor revoked counts from the fetch that brings it, for as    *)
(* long as the list is trusted.                                            *)
DeviceIsGenuine == GenuineDevice /\ FetchedListHolds /\ ListedSerialsExpire
=============================================================================
