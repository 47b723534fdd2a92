--------------------------- MODULE IdentifierSeeds ---------------------------
(***************************************************************************)
(* Per-identifier nullifier seeds (src/server/identifier.go).              *)
(*                                                                         *)
(* A session that verified a document, a phone or an email holds one keyed *)
(* hash per kind.  At issuance resolveIdentifierSeed looks those keys up   *)
(* in kind order, takes the first seed it finds (or draws a fresh one) and *)
(* binds it to every key with a create-only write.  Each store access is a *)
(* separate request to Firestore or Redis, so concurrent issuances         *)
(* interleave between any two of them; any of them may fail, with or       *)
(* without its write having reached the store.                             *)
(*                                                                         *)
(* A call's fresh seed is 32 random bytes.  Two calls never draw the same  *)
(* one, so the seed call c draws is represented by c itself.               *)
(***************************************************************************)
EXTENDS Integers, FiniteSets

CONSTANTS
  Calls,    \* concurrent calls of resolveIdentifierSeed
  Ids,      \* normalized identifiers (per kind: <<kind, id>> is the keyed hash)
  NoId,     \* the session verified no identifier of this kind
  NoSeed    \* no seed document

ASSUME NoIdAssumption   == NoId \notin Ids
ASSUME NoSeedAssumption == NoSeed \notin Calls

(* identifierKindOrder: document before phone before email.                *)
Document == 0
Phone    == 1
Email    == 2
IdentifierKinds    == {Document, Phone, Email}

Keys  == IdentifierKinds \X Ids
Seeds == Calls

VARIABLES
  ids,      \* ids[c][kind]: view.IdentifierKeys as call c read them
  binding,  \* the seed documents: key -> seed, NoSeed when absent
  pc,       \* where each call is
  rest,     \* kinds the current loop of the call has still to visit
  seed      \* the call's local variable of that name

seedVars == <<ids, binding, pc, rest, seed>>

(* The kinds call c has a key for, and the keys themselves.                *)
KindsOf(c)     == {k \in IdentifierKinds : ids[c][k] # NoId}
KeyOf(c, k)    == <<k, ids[c][k]>>
KeysOf(c)      == {KeyOf(c, k) : k \in KindsOf(c)}

(* sort.Slice by identifierKindOrder: the loops take the least rank first. *)
First(S) == CHOOSE k \in S : \A j \in S : k <= j

SeedTypeOK ==
  /\ ids \in [Calls -> [IdentifierKinds -> Ids \cup {NoId}]]
  /\ binding \in [Keys -> Seeds \cup {NoSeed}]
  /\ pc \in [Calls -> {"start", "lookup", "bind", "done", "failed"}]
  /\ rest \in [Calls -> SUBSET IdentifierKinds]
  /\ seed \in [Calls -> Seeds \cup {NoSeed}]

SeedInit ==
  /\ ids \in [Calls -> [IdentifierKinds -> Ids \cup {NoId}]]
  /\ binding = [k \in Keys |-> NoSeed]
  /\ pc = [c \in Calls |-> "start"]
  /\ rest = [c \in Calls |-> {}]
  /\ seed = [c \in Calls |-> NoSeed]

-----------------------------------------------------------------------------
(* handleIssueCredential calls resolveIdentifierSeed only when the session *)
(* has a key; with none the function itself returns an error.              *)
Begin(c) ==
  /\ pc[c] = "start"
  /\ KindsOf(c) # {}
  /\ pc' = [pc EXCEPT ![c] = "lookup"]
  /\ rest' = [rest EXCEPT ![c] = KindsOf(c)]
  /\ UNCHANGED <<ids, binding, seed>>

(* store.Lookup(keys[kind]) found a seed: keep it, break, start binding.   *)
LookupHit(c) ==
  LET k == First(rest[c]) IN
  /\ pc[c] = "lookup"
  /\ rest[c] # {}
  /\ binding[KeyOf(c, k)] # NoSeed
  /\ seed' = [seed EXCEPT ![c] = binding[KeyOf(c, k)]]
  /\ pc' = [pc EXCEPT ![c] = "bind"]
  /\ rest' = [rest EXCEPT ![c] = KindsOf(c)]
  /\ UNCHANGED <<ids, binding>>

(* store.Lookup found nothing: next kind.                                  *)
LookupMiss(c) ==
  LET k == First(rest[c]) IN
  /\ pc[c] = "lookup"
  /\ rest[c] # {}
  /\ binding[KeyOf(c, k)] = NoSeed
  /\ rest' = [rest EXCEPT ![c] = @ \ {k}]
  /\ UNCHANGED <<ids, binding, pc, seed>>

FreshSeedRepeated(c) == CHOOSE d \in Calls : TRUE

(* rand.Read of 32 bytes.                                                  *)
FreshSeed(c) == c

(* No kind had a seed: draw a fresh one and start binding.                 *)
DrawSeed(c) ==
  /\ pc[c] = "lookup"
  /\ rest[c] = {}
  /\ seed' = [seed EXCEPT ![c] = FreshSeed(c)]
  /\ pc' = [pc EXCEPT ![c] = "bind"]
  /\ rest' = [rest EXCEPT ![c] = KindsOf(c)]
  /\ UNCHANGED <<ids, binding>>

(* Mutation: the write replaces a seed another call has bound.             *)
CreatedOverwriting(key, s) == [binding EXCEPT ![key] = s]

(* The create-only write of GetOrCreate: the first seed stays.             *)
Created(key, s) ==
  [binding EXCEPT ![key] = IF @ = NoSeed THEN s ELSE @]

(* Mutation: the answer is never adopted.                                  *)
NeverFirst(c) == FALSE

IsFirst(c) == rest[c] = KindsOf(c)                 \* i == 0
IsLast(c)  == rest[c] = {First(rest[c])}

(* One iteration of the binding loop.  Only the first kind's answer is     *)
(* adopted (i == 0); the answers for the later kinds are dropped.          *)
GetOrCreate(c) ==
  LET k   == First(rest[c])
      key == KeyOf(c, k)
  IN
  /\ pc[c] = "bind"
  /\ rest[c] # {}
  /\ binding' = Created(key, seed[c])
  /\ seed' = [seed EXCEPT ![c] =
                IF IsFirst(c) THEN binding'[key] ELSE @]
  /\ rest' = [rest EXCEPT ![c] = @ \ {k}]
  /\ pc' = [pc EXCEPT ![c] = IF IsLast(c) THEN "done" ELSE "bind"]
  /\ UNCHANGED ids

(* A store request fails: resolveIdentifierSeed returns the error and the  *)
(* handler answers 500.  A failed create may or may not have been applied. *)
StoreFails(c) ==
  /\ pc[c] \in {"lookup", "bind"}
  /\ rest[c] # {}
  /\ \/ binding' = binding
     \/ /\ pc[c] = "bind"
        /\ binding' = Created(KeyOf(c, First(rest[c])), seed[c])
  /\ pc' = [pc EXCEPT ![c] = "failed"]
  /\ UNCHANGED <<ids, rest, seed>>

SeedNext ==
  \E c \in Calls :
    \/ Begin(c)
    \/ LookupHit(c)
    \/ LookupMiss(c)
    \/ DrawSeed(c)
    \/ GetOrCreate(c)
    \/ StoreFails(c)

SeedSpec == SeedInit /\ [][SeedNext]_seedVars

-----------------------------------------------------------------------------
(* The seed call c returned, and the key that decides it.                  *)
Done(c)   == pc[c] = "done"
TopKey(c) == KeyOf(c, First(KindsOf(c)))

(* "every later enrollment by the same identifier finds it and gets the    *)
(* SAME seed back" (identifier.go, head comment): whatever was interleaved *)
(* or failed, two calls that returned and whose strongest identifier is    *)
(* the same one returned the same seed.                                    *)
SameTopSameSeed ==
  \A c, d \in Calls :
    Done(c) /\ Done(d) /\ TopKey(c) = TopKey(d) => seed[c] = seed[d]

(* A seed identifies a person to every integrator, so it must not leak     *)
(* across people.  P is a set of identifiers that no session mixed with    *)
(* the others: two identifiers that share a seed are both in it or both    *)
(* outside.                                                                *)
Unmixed(P) == \A c \in Calls : KeysOf(c) \subseteq P \/ KeysOf(c) \cap P = {}

HaveSeeds == {k \in Keys : binding[k] # NoSeed}

SeedsStayApart ==
  \A k, l \in HaveSeeds : k # l /\ binding[k] = binding[l] =>
    \A P \in SUBSET Keys : Unmixed(P) => (k \in P <=> l \in P)

(* A call that returned left every one of its identifiers bound, so the    *)
(* next enrollment by any of them finds a seed, and whatever other calls   *)
(* race, fail and retry since, its strongest is still bound to the seed    *)
(* the credential was issued with.                                         *)
DoneBindsAll ==
  \A c \in Calls : Done(c) => /\ \A key \in KeysOf(c) : binding[key] # NoSeed
                              /\ binding[TopKey(c)] = seed[c]

(* A seed document is written once; no later call, retry or failed write   *)
(* replaces it (GetOrCreate, SET NX / create-only).                        *)
BindingIsForever ==
  [][\A k \in Keys : binding[k] # NoSeed => binding'[k] = binding[k]]_seedVars
-----------------------------------------------------------------------------
(* The inductive invariant behind the proofs.  A loop only ever holds      *)
(* kinds of its own call, and a call that binds has a seed to bind.        *)
LoopInv ==
  \A c \in Calls :
    /\ pc[c] \in {"lookup", "bind"} => rest[c] \subseteq KindsOf(c)
    /\ pc[c] = "lookup" => KindsOf(c) # {}
    /\ pc[c] = "bind" => rest[c] # {} /\ seed[c] # NoSeed
    /\ pc[c] = "done" => rest[c] = {} /\ KindsOf(c) # {} /\ seed[c] # NoSeed

(* Behind the binding loop every key is bound, and from its first step on  *)
(* the call carries the seed its top key is bound to.                      *)
AdoptInv ==
  \A c \in Calls : pc[c] \in {"bind", "done"} =>
    /\ \A k \in KindsOf(c) \ rest[c] : binding[KeyOf(c, k)] # NoSeed
    /\ rest[c] # KindsOf(c) => seed[c] = binding[TopKey(c)]

(* Every seed came from a call on the same side of an unmixed set as the   *)
(* keys and the calls that carry it.                                       *)
Meets(c, P) == KeysOf(c) \cap P # {}

OriginInv ==
  \A P \in SUBSET Keys : Unmixed(P) =>
    /\ \A k \in Keys : binding[k] # NoSeed => (k \in P <=> Meets(binding[k], P))
    /\ \A c \in Calls : seed[c] # NoSeed => (Meets(c, P) <=> Meets(seed[c], P))

IInv == SeedTypeOK /\ LoopInv /\ AdoptInv /\ OriginInv
=============================================================================
