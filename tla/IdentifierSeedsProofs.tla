------------------------ MODULE IdentifierSeedsProofs ------------------------
(***************************************************************************)
(* Proofs about IdentifierSeeds, for any number of concurrent calls and    *)
(* any identifiers.                                                        *)
(***************************************************************************)
EXTENDS IdentifierSeeds, TLAPS

(* The loops of resolveIdentifierSeed visit a set of kinds in rank order:  *)
(* First picks a member of any non-empty set of kinds, the least one.      *)
LEMMA FirstIsLeast ==
  ASSUME NEW S \in SUBSET IdentifierKinds, S # {}
  PROVE  First(S) \in S /\ \A j \in S : First(S) <= j
<1>1. \E k \in S : \A j \in S : k <= j
  <2>1. CASE Document \in S
    BY <2>1 DEF IdentifierKinds, Document, Phone, Email
  <2>2. CASE Document \notin S /\ Phone \in S
    BY <2>2 DEF IdentifierKinds, Document, Phone, Email
  <2>3. CASE Document \notin S /\ Phone \notin S
    <3>1. S = {Email}
      BY <2>3 DEF IdentifierKinds
    <3> QED BY <3>1 DEF Email
  <2> QED BY <2>1, <2>2, <2>3
<1> QED BY <1>1 DEF First

(* What one iteration of either loop handles: a kind of the call, whose    *)
(* key is a key of the store, and the call's top key on the first one.     *)
LEMMA FirstOfCall ==
  ASSUME SeedTypeOK, NEW c \in Calls, rest[c] \subseteq KindsOf(c), rest[c] # {}
  PROVE  /\ First(rest[c]) \in rest[c]
         /\ First(rest[c]) \in KindsOf(c)
         /\ First(rest[c]) \in IdentifierKinds
         /\ KeyOf(c, First(rest[c])) \in Keys
         /\ rest[c] = KindsOf(c) => KeyOf(c, First(rest[c])) = TopKey(c)
<1>1. rest[c] \in SUBSET IdentifierKinds
  BY DEF KindsOf
<1>2. First(rest[c]) \in rest[c]
  BY <1>1, FirstIsLeast
<1>3. First(rest[c]) \in KindsOf(c) /\ First(rest[c]) \in IdentifierKinds
  BY <1>1, <1>2
<1>4. KeyOf(c, First(rest[c])) \in Keys
  BY <1>3 DEF SeedTypeOK, KindsOf, KeyOf, Keys
<1> QED BY <1>2, <1>3, <1>4 DEF TopKey

-----------------------------------------------------------------------------
(* Type correctness is inductive given that a loop holds only kinds of its *)
(* own call.                                                               *)
LEMMA TypeStep == SeedTypeOK /\ LoopInv /\ [SeedNext]_seedVars => SeedTypeOK'
<1> SUFFICES ASSUME SeedTypeOK, LoopInv, [SeedNext]_seedVars PROVE SeedTypeOK'
  OBVIOUS
<1> USE DEF SeedTypeOK, Seeds
<1>1. CASE UNCHANGED seedVars
  BY <1>1 DEF seedVars
<1>2. ASSUME NEW c \in Calls, Begin(c) PROVE SeedTypeOK'
  BY <1>2 DEF Begin, KindsOf
<1>3. ASSUME NEW c \in Calls, LookupHit(c) PROVE SeedTypeOK'
  BY <1>3, FirstOfCall DEF LookupHit, LoopInv, KindsOf
<1>4. ASSUME NEW c \in Calls, LookupMiss(c) PROVE SeedTypeOK'
  BY <1>4, FirstOfCall DEF LookupMiss, LoopInv
<1>5. ASSUME NEW c \in Calls, DrawSeed(c) PROVE SeedTypeOK'
  BY <1>5 DEF DrawSeed, FreshSeed, KindsOf
<1>6. ASSUME NEW c \in Calls, GetOrCreate(c) PROVE SeedTypeOK'
  BY <1>6, FirstOfCall DEF GetOrCreate, IsFirst, IsLast, Created, LoopInv
<1>7. ASSUME NEW c \in Calls, StoreFails(c) PROVE SeedTypeOK'
  BY <1>7, FirstOfCall DEF StoreFails, Created, LoopInv
<1> QED BY <1>1, <1>2, <1>3, <1>4, <1>5, <1>6, <1>7 DEF SeedNext

(* Only GetOrCreate and a failed create write a seed document, and they    *)
(* write it only where there was none (the create-only store).             *)
LEMMA BindingStep ==
  ASSUME SeedTypeOK, LoopInv, [SeedNext]_seedVars
  PROVE  /\ ids' = ids
         /\ \A k \in Keys : binding[k] # NoSeed => binding'[k] = binding[k]
         /\ \A k \in Keys : binding'[k] # binding[k] =>
              \E c \in Calls : /\ pc[c] = "bind"
                               /\ k = KeyOf(c, First(rest[c]))
                               /\ binding'[k] = seed[c]
<1> USE DEF SeedTypeOK
<1>1. CASE UNCHANGED seedVars
  BY <1>1 DEF seedVars
<1>2. ASSUME NEW c \in Calls,
             Begin(c) \/ LookupHit(c) \/ LookupMiss(c) \/ DrawSeed(c)
      PROVE  ids' = ids /\ binding' = binding
  BY <1>2 DEF Begin, LookupHit, LookupMiss, DrawSeed
<1>3. ASSUME NEW c \in Calls, GetOrCreate(c) \/ StoreFails(c)
      PROVE  /\ ids' = ids
             /\ \/ binding' = binding
                \/ pc[c] = "bind" /\ binding' = Created(KeyOf(c, First(rest[c])), seed[c])
  BY <1>3 DEF GetOrCreate, IsFirst, IsLast, StoreFails
<1> QED BY <1>1, <1>2, <1>3 DEF SeedNext, Created
-----------------------------------------------------------------------------
(* Each action keeps the loops inside their call's kinds.                  *)
LEMMA LoopStep == SeedTypeOK /\ LoopInv /\ [SeedNext]_seedVars => LoopInv'
<1> SUFFICES ASSUME SeedTypeOK, LoopInv, [SeedNext]_seedVars PROVE LoopInv'
  OBVIOUS
<1> USE DEF SeedTypeOK
<1>0. ids' = ids
  BY BindingStep
<1>1. CASE UNCHANGED seedVars
  BY <1>1 DEF seedVars, LoopInv, KindsOf
<1>2. ASSUME NEW c \in Calls, Begin(c) PROVE LoopInv'
  BY <1>2 DEF Begin, LoopInv, KindsOf
<1>3. ASSUME NEW c \in Calls, LookupHit(c) PROVE LoopInv'
  BY <1>3, NoSeedAssumption DEF LookupHit, LoopInv, KindsOf, Seeds
<1>4. ASSUME NEW c \in Calls, LookupMiss(c) PROVE LoopInv'
  BY <1>4 DEF LookupMiss, LoopInv, KindsOf
<1>5. ASSUME NEW c \in Calls, DrawSeed(c) PROVE LoopInv'
  BY <1>5, NoSeedAssumption DEF DrawSeed, FreshSeed, LoopInv, KindsOf
<1>6. ASSUME NEW c \in Calls, GetOrCreate(c) PROVE LoopInv'
  BY <1>6, FirstOfCall DEF GetOrCreate, IsFirst, IsLast, Created, LoopInv, KindsOf
<1>7. ASSUME NEW c \in Calls, StoreFails(c) PROVE LoopInv'
  BY <1>7 DEF StoreFails, LoopInv, KindsOf
<1> QED BY <1>1, <1>2, <1>3, <1>4, <1>5, <1>6, <1>7 DEF SeedNext

(* A call adopts the answer for its top key and leaves its keys bound; the *)
(* other calls' keys keep their seeds because a document is never          *)
(* rewritten.                                                              *)
LEMMA AdoptStep == SeedTypeOK /\ LoopInv /\ AdoptInv /\ [SeedNext]_seedVars => AdoptInv'
<1> SUFFICES ASSUME SeedTypeOK, LoopInv, AdoptInv, [SeedNext]_seedVars PROVE AdoptInv'
  OBVIOUS
<1>i. ids' = ids
  BY BindingStep
<1> SUFFICES ASSUME NEW d \in Calls, pc'[d] \in {"bind", "done"}
             PROVE  /\ \A k \in KindsOf(d) \ rest'[d] : binding'[KeyOf(d, k)] # NoSeed
                    /\ rest'[d] # KindsOf(d) => seed'[d] = binding'[TopKey(d)]
  BY <1>i DEF AdoptInv, KindsOf, KeyOf, TopKey
<1> USE DEF SeedTypeOK
<1>0. \A k \in KindsOf(d) : KeyOf(d, k) \in Keys
  BY DEF KindsOf, KeyOf, Keys
<1>a. KindsOf(d) # {} => TopKey(d) \in Keys
  BY <1>0, FirstIsLeast DEF TopKey, KindsOf
<1>1. CASE UNCHANGED <<pc[d], rest[d], seed[d]>>
  <2>1. /\ \A k \in KindsOf(d) \ rest[d] : binding[KeyOf(d, k)] # NoSeed
        /\ rest[d] # KindsOf(d) => seed[d] = binding[TopKey(d)]
    BY <1>1 DEF AdoptInv
  <2>2. seed[d] # NoSeed
    BY <1>1 DEF LoopInv
  <2>3. rest[d] # KindsOf(d) => KindsOf(d) # {}
    BY <1>1 DEF LoopInv
  <2> QED BY <1>0, <1>a, <1>1, <2>1, <2>2, <2>3, BindingStep
<1>2. CASE Begin(d) \/ LookupMiss(d) \/ StoreFails(d)
  BY <1>2 DEF Begin, LookupMiss, StoreFails
<1>3. CASE LookupHit(d) \/ DrawSeed(d)
  BY <1>3 DEF LookupHit, DrawSeed
<1>4. CASE GetOrCreate(d)
  <2> DEFINE k0 == First(rest[d])
  <2>1. rest[d] \subseteq KindsOf(d) /\ rest[d] # {} /\ seed[d] # NoSeed
    BY <1>4 DEF GetOrCreate, IsFirst, IsLast, LoopInv
  <2>2. k0 \in rest[d] /\ k0 \in KindsOf(d) /\ KeyOf(d, k0) \in Keys
    BY <2>1, FirstOfCall
  <2>3. binding'[KeyOf(d, k0)] # NoSeed
    BY <1>4, <2>1, <2>2 DEF GetOrCreate, IsFirst, IsLast, Created
  <2>4. \A k \in KindsOf(d) \ rest[d] : binding'[KeyOf(d, k)] # NoSeed
    BY <1>0, <1>4, BindingStep DEF AdoptInv, GetOrCreate
  <2>5. rest'[d] = rest[d] \ {k0}
    BY <1>4 DEF GetOrCreate, IsFirst, IsLast
  <2>6. CASE rest[d] = KindsOf(d)
    BY <1>4, <2>1, <2>2, <2>3, <2>4, <2>5, <2>6, FirstOfCall DEF GetOrCreate, IsFirst, IsLast
  <2>7. CASE rest[d] # KindsOf(d)
    <3>1. seed[d] = binding[TopKey(d)] /\ KindsOf(d) # {}
      BY <1>4, <2>1, <2>7 DEF AdoptInv, GetOrCreate
    <3>2. seed'[d] = seed[d]
      BY <1>4, <2>7 DEF GetOrCreate, IsFirst, IsLast
    <3> QED BY <1>a, <2>1, <2>3, <2>4, <2>5, <3>1, <3>2, BindingStep
  <2> QED BY <2>6, <2>7
<1>5. ASSUME NEW c \in Calls, c # d,
             \/ Begin(c) \/ LookupHit(c) \/ LookupMiss(c) \/ DrawSeed(c)
             \/ GetOrCreate(c) \/ StoreFails(c)
      PROVE  UNCHANGED <<pc[d], rest[d], seed[d]>>
  BY <1>5 DEF Begin, LookupHit, LookupMiss, DrawSeed, GetOrCreate, StoreFails
<1>6. CASE UNCHANGED seedVars
  BY <1>1, <1>6 DEF seedVars
<1> QED BY <1>1, <1>2, <1>3, <1>4, <1>5, <1>6 DEF SeedNext

(* Every key of a call is on the call's side of an unmixed set.            *)
LEMMA SideOfCall ==
  ASSUME SeedTypeOK, NEW P \in SUBSET Keys, Unmixed(P),
         NEW c \in Calls, NEW k \in KindsOf(c)
  PROVE  KeyOf(c, k) \in P <=> Meets(c, P)
<1>1. KeyOf(c, k) \in KeysOf(c)
  BY DEF KeysOf
<1> QED BY <1>1 DEF Unmixed, Meets

(* Seeds never cross the border of an unmixed set: a call carries a seed   *)
(* it drew itself or read under one of its own keys, and binds it only     *)
(* under its own keys.                                                     *)
LEMMA OriginStep == SeedTypeOK /\ LoopInv /\ OriginInv /\ [SeedNext]_seedVars => OriginInv'
<1> SUFFICES ASSUME SeedTypeOK, LoopInv, OriginInv, [SeedNext]_seedVars PROVE OriginInv'
  OBVIOUS
<1>i. ids' = ids
  BY BindingStep
<1>ii. \A P : Unmixed(P)' = Unmixed(P)
  BY <1>i DEF Unmixed, KeysOf, KindsOf, KeyOf
<1>iii. \A c, P : (KeysOf(c) \cap P # {})' <=> KeysOf(c) \cap P # {}
  BY <1>i DEF KeysOf, KindsOf, KeyOf
<1> SUFFICES ASSUME NEW P \in SUBSET Keys, Unmixed(P)
             PROVE  /\ \A k \in Keys : binding'[k] # NoSeed =>
                          (k \in P <=> Meets(binding'[k], P))
                    /\ \A c \in Calls : seed'[c] # NoSeed =>
                          (Meets(c, P) <=> Meets(seed'[c], P))
  BY <1>ii, <1>iii DEF OriginInv, Meets
<1> USE DEF SeedTypeOK
<1>1. /\ \A k \in Keys : binding[k] # NoSeed => (k \in P <=> Meets(binding[k], P))
      /\ \A c \in Calls : seed[c] # NoSeed => (Meets(c, P) <=> Meets(seed[c], P))
  BY DEF OriginInv
<1>2. ASSUME NEW k \in Keys, binding'[k] # NoSeed
      PROVE  k \in P <=> Meets(binding'[k], P)
  <2>1. CASE binding'[k] = binding[k]
    BY <1>1, <1>2, <2>1
  <2>2. CASE binding'[k] # binding[k]
    <3>1. PICK c \in Calls : /\ pc[c] = "bind"
                             /\ k = KeyOf(c, First(rest[c]))
                             /\ binding'[k] = seed[c]
      BY <2>2, BindingStep
    <3>2. First(rest[c]) \in KindsOf(c) /\ seed[c] # NoSeed
      BY <3>1, FirstOfCall DEF LoopInv
    <3>3. k \in P <=> Meets(c, P)
      BY <3>1, <3>2, SideOfCall
    <3> QED BY <1>1, <3>1, <3>2, <3>3
  <2> QED BY <2>1, <2>2
<1>3. ASSUME NEW c \in Calls, seed'[c] # NoSeed
      PROVE  Meets(c, P) <=> Meets(seed'[c], P)
  <2>1. CASE seed'[c] = seed[c]
    BY <1>1, <1>3, <2>1
  <2>2. CASE LookupHit(c)
    <3> DEFINE key == KeyOf(c, First(rest[c]))
    <3>1. First(rest[c]) \in KindsOf(c) /\ key \in Keys
      BY <2>2, FirstOfCall DEF LookupHit, LoopInv
    <3>2. seed'[c] = binding[key] /\ binding[key] # NoSeed
      BY <2>2 DEF LookupHit
    <3> HIDE DEF key
    <3>3. key \in P <=> Meets(seed'[c], P)
      BY <1>1, <3>1, <3>2
    <3>4. key \in P <=> Meets(c, P)
      BY <3>1, SideOfCall DEF key
    <3> QED BY <3>3, <3>4
  <2>3. CASE DrawSeed(c)
    BY <2>3 DEF DrawSeed, FreshSeed
  <2>4. CASE GetOrCreate(c) /\ seed'[c] # seed[c]
    <3> DEFINE key == KeyOf(c, First(rest[c]))
    <3>1. First(rest[c]) \in KindsOf(c) /\ key \in Keys
      BY <2>4, FirstOfCall DEF GetOrCreate, IsFirst, IsLast, LoopInv
    <3>2. seed'[c] = binding'[key]
      BY <2>4 DEF GetOrCreate, IsFirst, IsLast
    <3> HIDE DEF key
    <3>3. key \in P <=> Meets(seed'[c], P)
      BY <1>2, <1>3, <3>1, <3>2
    <3>4. key \in P <=> Meets(c, P)
      BY <3>1, SideOfCall DEF key
    <3> QED BY <3>3, <3>4
  <2>5. ASSUME NEW d \in Calls,
               \/ d # c /\ (LookupHit(d) \/ DrawSeed(d) \/ GetOrCreate(d))
               \/ Begin(d) \/ LookupMiss(d) \/ StoreFails(d)
        PROVE  seed'[c] = seed[c]
    BY <2>5 DEF Begin, LookupHit, LookupMiss, DrawSeed, GetOrCreate, StoreFails
  <2>6. CASE UNCHANGED seedVars
    BY <2>1, <2>6 DEF seedVars
  <2> QED BY <2>1, <2>2, <2>3, <2>4, <2>5, <2>6 DEF SeedNext
<1> QED BY <1>2, <1>3

(* The inductive invariant holds in every behaviour.                       *)
THEOREM IInvHolds == SeedSpec => []IInv
<1>1. SeedInit => IInv
  <2> SUFFICES ASSUME SeedInit PROVE IInv
    OBVIOUS
  <2>1. SeedTypeOK
    BY DEF SeedInit, SeedTypeOK
  <2>2. LoopInv /\ AdoptInv
    BY DEF SeedInit, LoopInv, AdoptInv
  <2>3. OriginInv
    BY DEF SeedInit, OriginInv
  <2> QED BY <2>1, <2>2, <2>3 DEF IInv
<1>2. IInv /\ [SeedNext]_seedVars => IInv'
  BY TypeStep, LoopStep, AdoptStep, OriginStep DEF IInv
<1> QED BY <1>1, <1>2, PTL DEF SeedSpec

-----------------------------------------------------------------------------
(* resolveIdentifierSeed is type correct under any interleaving.           *)
THEOREM TypeCorrect == SeedSpec => []SeedTypeOK
<1>1. IInv => SeedTypeOK
  BY DEF IInv
<1> QED BY <1>1, IInvHolds, PTL

(* Calls whose strongest identifier is the same one return the same seed:  *)
(* the create-only race is won once and every loser adopts the winner.     *)
THEOREM SameTopSameSeedHolds == SeedSpec => []SameTopSameSeed
<1>1. IInv => SameTopSameSeed
  <2> SUFFICES ASSUME IInv, NEW c \in Calls, NEW d \in Calls,
                      Done(c), Done(d), TopKey(c) = TopKey(d)
               PROVE  seed[c] = seed[d]
    BY DEF SameTopSameSeed
  <2>1. seed[c] = binding[TopKey(c)]
    BY DEF IInv, LoopInv, AdoptInv, Done
  <2>2. seed[d] = binding[TopKey(d)]
    BY DEF IInv, LoopInv, AdoptInv, Done
  <2> QED BY <2>1, <2>2
<1> QED BY <1>1, IInvHolds, PTL

(* Identifiers that no session presented together, directly or through     *)
(* others, never come to share a seed.                                     *)
THEOREM SeedsStayApartHolds == SeedSpec => []SeedsStayApart
<1>1. IInv => SeedsStayApart
  <2> SUFFICES ASSUME IInv, NEW k \in HaveSeeds, NEW l \in HaveSeeds,
                      binding[k] = binding[l], NEW P \in SUBSET Keys, Unmixed(P)
               PROVE  k \in P <=> l \in P
    BY DEF SeedsStayApart
  <2>1. k \in P <=> Meets(binding[k], P)
    BY DEF IInv, OriginInv, HaveSeeds
  <2>2. l \in P <=> Meets(binding[l], P)
    BY DEF IInv, OriginInv, HaveSeeds
  <2> QED BY <2>1, <2>2
<1> QED BY <1>1, IInvHolds, PTL

(* A returned call leaves every identifier of its session bound, and the   *)
(* strongest to the seed it returned for good.                             *)
THEOREM DoneBindsAllHolds == SeedSpec => []DoneBindsAll
<1>1. IInv => DoneBindsAll
  <2> SUFFICES ASSUME IInv, NEW c \in Calls, Done(c)
               PROVE  /\ \A key \in KeysOf(c) : binding[key] # NoSeed
                      /\ binding[TopKey(c)] = seed[c]
    BY DEF DoneBindsAll
  <2>1. rest[c] = {} /\ KindsOf(c) # {}
    BY DEF IInv, LoopInv, Done
  <2>2. \A key \in KeysOf(c) : binding[key] # NoSeed
    BY <2>1 DEF IInv, AdoptInv, Done, KeysOf
  <2>3. binding[TopKey(c)] = seed[c]
    BY <2>1 DEF IInv, AdoptInv, Done
  <2> QED BY <2>2, <2>3
<1> QED BY <1>1, IInvHolds, PTL

(* No step rewrites a seed document.                                       *)
THEOREM BindingIsForeverHolds == SeedSpec => BindingIsForever
<1>1. IInv /\ [SeedNext]_seedVars =>
        [\A k \in Keys : binding[k] # NoSeed => binding'[k] = binding[k]]_seedVars
  BY BindingStep DEF IInv
<1> QED BY <1>1, IInvHolds, PTL DEF SeedSpec, BindingIsForever
=============================================================================
