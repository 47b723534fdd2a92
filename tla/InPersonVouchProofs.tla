------------------------ MODULE InPersonVouchProofs ------------------------
(***************************************************************************)
(* Theorems of InPersonVouch, for any number of people, offers, confirms   *)
(* and revocations.  Linked says what holds between an offer and the calls *)
(* that work on it; each safety property then has its own strengthening.   *)
(***************************************************************************)
EXTENDS InPersonVouch, FiniteSetTheorems, TLAPS

(* A confirm works on an offer that was accepted, by someone other than    *)
(* its voucher, and has read a clock that is not ahead.                    *)
AtWork(h) ==
  /\ hoffer[h] \in Offers
  /\ offer[hoffer[h]].state \in {"accepted", "confirmed", "burned", "deleted"}
  /\ offer[hoffer[h]].voucher \in People
  /\ offer[hoffer[h]].candidate \in People
  /\ offer[hoffer[h]].candidate # offer[hoffer[h]].voucher

Linked ==
  /\ \A o \in Offers : offer[o].state # "unused" => offer[o].voucher \in People
  /\ \A o \in Offers : offer[o].state = "accepted" =>
       /\ offer[o].candidate \in People
       /\ offer[o].candidate # offer[o].voucher
  /\ \A h \in Handlers : hat[h] <= now /\ (hpc[h] # "idle" => AtWork(h))
  /\ \A w \in Workers : wpc[w] = "penalize" => target[w] \in People

Typed == TypeOK /\ Linked

(* An offer stays an offer when a handler changes its fields.              *)
LEMMA ExceptDoc ==
  ASSUME NEW d \in OfferDocs
  PROVE  /\ \A s \in States : [d EXCEPT !.state = s] \in OfferDocs
         /\ \A n \in Nat : \A s \in States : [d EXCEPT !.bad = n, !.state = s] \in OfferDocs
         /\ \A c \in People : \A n \in Nat :
              [d EXCEPT !.state = "accepted", !.candidate = c, !.returnExpiry = n] \in OfferDocs
         /\ d.state \in States /\ d.bad \in Nat /\ d.expires \in Nat /\ d.anchored \in BOOLEAN
  BY DEF OfferDocs, States

(* A new offer is an offer.                                                *)
LEMMA OpenDoc ==
  ASSUME NEW v \in People, NEW a \in BOOLEAN, NEW n \in Nat
  PROVE  [NoOfferDoc EXCEPT !.state = "open", !.voucher = v, !.anchored = a,
                            !.expires = n] \in OfferDocs
  BY DEF NoOfferDoc, OfferDocs, States

(* The initial state.                                                      *)
LEMMA TypedInit == Init => Typed
  <1> SUFFICES ASSUME Init PROVE Typed
      OBVIOUS
  <1>1. NoOfferDoc \in OfferDocs
      BY DEF NoOfferDoc, OfferDocs, States
  <1>2. TypeOK
      BY <1>1 DEF Init, TypeOK, Never
  <1>3. Linked
      BY DEF Init, Linked, NoOfferDoc
  <1> QED BY <1>2, <1>3 DEF Typed

(* Every step keeps the types and the links.                               *)
LEMMA TypedStep == Typed /\ [Next]_vars => Typed'
  <1> SUFFICES ASSUME Typed, [Next]_vars PROVE Typed'
      OBVIOUS
  <1> USE PeopleAssumption, ConfigAssumption
  <1>0. TypeOK /\ Linked
      BY DEF Typed
  <1>1. ASSUME NEW v \in People, NEW o \in Offers, Offer(v, o) PROVE Typed'
    <2>1. [NoOfferDoc EXCEPT !.state = "open", !.voucher = v, !.anchored = v \in Anchored,
                             !.expires = now + OfferTTL] \in OfferDocs
      <3>1. now + OfferTTL \in Nat
          BY <1>0 DEF TypeOK
      <3>2. (v \in Anchored) \in BOOLEAN
          OBVIOUS
      <3> QED BY <3>1, <3>2, OpenDoc, Zenon
    <2>2. \A x \in Offers : [offer[x] EXCEPT !.state = "deleted"] \in OfferDocs
        BY <1>0, ExceptDoc DEF TypeOK, States
    <2>3. offer' \in [Offers -> OfferDocs]
        BY <1>0, <1>1, <2>1, <2>2 DEF Offer, TypeOK
    <2>4. UNCHANGED <<now, storeVars, recordVars, handlerVars, workerVars, passed, history>>
        BY <1>1 DEF Offer
    <2>5. TypeOK'
        BY <1>0, <2>3, <2>4
           DEF TypeOK, storeVars, recordVars, handlerVars, workerVars, history
    <2>6. /\ offer'[o].state = "open" /\ offer'[o].voucher = v
          /\ offer[o].state = "unused"
        BY <1>0, <1>1 DEF Offer, TypeOK, NoOfferDoc
    <2>7. \A x \in Offers \ {o} : /\ offer'[x].voucher = offer[x].voucher
                                  /\ offer'[x].candidate = offer[x].candidate
                                  /\ offer'[x].state \in {offer[x].state, "deleted"}
                                  /\ offer[x].state = "unused" => offer'[x].state = "unused"
        BY <1>0, <1>1 DEF Offer, TypeOK, Stale, OfferDocs
    <2>8. Linked'
        BY <1>0, <2>4, <2>6, <2>7 DEF Linked, AtWork, handlerVars, workerVars
    <2> QED BY <2>5, <2>8 DEF Typed
  <1>2. ASSUME NEW c \in Newcomers, NEW o \in Offers, Accept(c, o) PROVE Typed'
    <2>1. c \in People
        OBVIOUS
    <2>2. offer' \in [Offers -> OfferDocs]
      <3>1. now + ReturnTTL \in Nat /\ offer[o] \in OfferDocs
          BY <1>0 DEF TypeOK
      <3>2. [offer[o] EXCEPT !.state = "accepted", !.candidate = c,
                             !.returnExpiry = now + ReturnTTL] \in OfferDocs
          BY <2>1, <3>1, ExceptDoc
      <3> QED BY <1>0, <1>2, <3>2 DEF Accept, TypeOK
    <2>3. UNCHANGED <<now, storeVars, recordVars, handlerVars, workerVars, passed, history>>
        BY <1>2 DEF Accept
    <2>4. TypeOK'
        BY <1>0, <2>2, <2>3
           DEF TypeOK, storeVars, recordVars, handlerVars, workerVars, history
    <2>5. /\ offer[o].state = "open" /\ offer'[o].state = "accepted"
          /\ offer'[o].voucher = offer[o].voucher /\ offer'[o].candidate = c
          /\ offer[o].voucher # c
          /\ \A x \in Offers \ {o} : offer'[x] = offer[x]
        BY <1>0, <1>2 DEF Accept, TypeOK, OfferDocs
    <2>6. Linked'
        BY <1>0, <2>1, <2>3, <2>5 DEF Linked, AtWork, handlerVars, workerVars
    <2> QED BY <2>4, <2>6 DEF Typed
  <1>3. ASSUME NEW h \in Handlers, NEW o \in Offers, Claim(h, o) PROVE Typed'
    <2>1. /\ offer' = [offer EXCEPT ![o].state = "confirmed"]
          /\ offer[o].state = "accepted"
          /\ exchanged' = exchanged \cup {<<offer[o].candidate, offer[o].voucher>>}
          /\ hpc' = [hpc EXCEPT ![h] = "commit"] /\ hoffer' = [hoffer EXCEPT ![h] = o]
          /\ hat' = [hat EXCEPT ![h] = now]
          /\ UNCHANGED <<now, storeVars, recordVars, workerVars, passed, slipped>>
        BY <1>3 DEF Claim, Claimable
    <2>2. offer' \in [Offers -> OfferDocs]
        BY <1>0, <2>1, ExceptDoc DEF TypeOK, States
    <2>3. /\ offer[o].candidate \in People /\ offer[o].voucher \in People
          /\ offer[o].candidate # offer[o].voucher
        BY <1>0, <2>1 DEF Linked
    <2>4. TypeOK'
        BY <1>0, <2>1, <2>2, <2>3 DEF TypeOK, storeVars, recordVars, workerVars
    <2>5. /\ offer'[o].state = "confirmed" /\ offer'[o].voucher = offer[o].voucher
          /\ offer'[o].candidate = offer[o].candidate
          /\ \A x \in Offers \ {o} : offer'[x] = offer[x]
        BY <1>0, <2>1 DEF TypeOK, OfferDocs
    <2>6. /\ hpc'[h] = "commit" /\ hoffer'[h] = o /\ hat'[h] = now
          /\ \A g \in Handlers \ {h} : hpc'[g] = hpc[g] /\ hoffer'[g] = hoffer[g] /\ hat'[g] = hat[g]
        BY <1>0, <2>1 DEF TypeOK
    <2>7. now' = now /\ now \in Nat /\ UNCHANGED workerVars
        BY <1>0, <2>1 DEF TypeOK
    <2>8. \A g \in Handlers : hpc'[g] # "idle" => AtWork(g)'
        BY <1>0, <2>3, <2>5, <2>6 DEF Linked, AtWork
    <2>9. Linked'
        BY <1>0, <2>3, <2>5, <2>6, <2>7, <2>8 DEF Linked, workerVars
    <2> QED BY <2>4, <2>9 DEF Typed
  <1>4. ASSUME NEW h \in Handlers, NEW o \in Offers, ClaimWrong(h, o) PROVE Typed'
    <2>1. /\ offer[o].state = "accepted"
          /\ hpc' = [hpc EXCEPT ![h] = "count"] /\ hoffer' = [hoffer EXCEPT ![h] = o]
          /\ UNCHANGED <<now, offer, storeVars, recordVars, hat, workerVars, passed, history>>
        BY <1>4 DEF ClaimWrong, Claimable
    <2>2. TypeOK'
        BY <1>0, <2>1 DEF TypeOK, storeVars, recordVars, workerVars, history
    <2>3. Linked'
        BY <1>0, <2>1 DEF Linked, AtWork, TypeOK, workerVars
    <2> QED BY <2>2, <2>3 DEF Typed
  <1>5. ASSUME NEW h \in Handlers, CountWrong(h) PROVE Typed'
    <2> DEFINE o == hoffer[h]
    <2>1. hpc[h] = "count" /\ AtWork(h) /\ o \in Offers
        BY <1>0, <1>5 DEF CountWrong, Linked, AtWork
    <2>2. /\ offer[o] \in OfferDocs /\ offer[o].bad + 1 \in Nat /\ AfterWrong(o) \in States
          /\ AfterWrong(o) \in {offer[o].state, "burned"}
      <3>1. offer[o] \in OfferDocs
          BY <1>0, <2>1 DEF TypeOK
      <3>2. offer[o].bad \in Nat /\ offer[o].state \in States
          BY <3>1, ExceptDoc
      <3> QED BY <3>1, <3>2 DEF AfterWrong, States
    <2>3. /\ offer' = IF offer[o].state = "deleted" THEN offer
                      ELSE [offer EXCEPT ![o].bad = @ + 1, ![o].state = AfterWrong(o)]
          /\ hpc' = [hpc EXCEPT ![h] = "idle"] /\ hoffer' = [hoffer EXCEPT ![h] = NoOffer]
          /\ hat' = [hat EXCEPT ![h] = 0]
          /\ UNCHANGED <<now, storeVars, recordVars, workerVars, passed, history>>
        BY <1>5 DEF CountWrong, Return
    <2>4. [offer[o] EXCEPT !.bad = offer[o].bad + 1, !.state = AfterWrong(o)] \in OfferDocs
        BY <2>2, ExceptDoc
    <2>5. offer' \in [Offers -> OfferDocs]
        BY <1>0, <2>1, <2>2, <2>3, <2>4 DEF TypeOK
    <2>6. TypeOK'
        BY <1>0, <2>3, <2>5 DEF TypeOK, storeVars, recordVars, workerVars, history
    <2>7. /\ offer'[o].state \in {offer[o].state, "burned"}
          /\ offer'[o].voucher = offer[o].voucher /\ offer'[o].candidate = offer[o].candidate
          /\ \A x \in Offers \ {o} : offer'[x] = offer[x]
        BY <1>0, <2>1, <2>2, <2>3 DEF TypeOK, OfferDocs
    <2>8. /\ hpc'[h] = "idle" /\ hat'[h] = 0
          /\ \A g \in Handlers \ {h} : hpc'[g] = hpc[g] /\ hoffer'[g] = hoffer[g] /\ hat'[g] = hat[g]
          /\ now' = now /\ now \in Nat /\ UNCHANGED workerVars
        BY <1>0, <2>3 DEF TypeOK
    <2>9. \A g \in Handlers : hpc'[g] # "idle" => AtWork(g)'
        BY <1>0, <2>1, <2>7, <2>8 DEF Linked, AtWork
    <2>10. Linked'
        BY <1>0, <2>1, <2>7, <2>8, <2>9 DEF Linked, AtWork, workerVars
    <2> QED BY <2>6, <2>10 DEF Typed
  <1>6. ASSUME NEW h \in Handlers, CommitVouch(h) PROVE Typed'
    <2> DEFINE o == hoffer[h]
               c == offer[o].candidate
               v == offer[o].voucher
    <2>1. /\ hpc' = [hpc EXCEPT ![h] = "idle"] /\ hoffer' = [hoffer EXCEPT ![h] = NoOffer]
          /\ hat' = [hat EXCEPT ![h] = 0]
          /\ UNCHANGED <<now, offer, recordVars, workerVars, passed, exchanged>>
        BY <1>6 DEF CommitVouch, Return
    <2>2. o \in Offers /\ c \in People /\ v \in People /\ hat[h] \in Nat
        BY <1>0, <1>6 DEF CommitVouch, Linked, AtWork, TypeOK
    <2>3. /\ vouch' \in [People -> [People -> Nat \cup {Never}]]
          /\ anchoredVouch' \in SUBSET (People \X People)
          /\ vouchTimes' \in [People -> SUBSET People]
          /\ slipped' \in SUBSET (People \X People)
      <3>1. CASE Committable(c, v, hat[h])
        <4>1. /\ vouch' = [vouch EXCEPT ![c][v] = hat[h]]
              /\ anchoredVouch' = IF offer[o].anchored THEN anchoredVouch \cup {<<c, v>>}
                                                       ELSE anchoredVouch
              /\ vouchTimes' = [vouchTimes EXCEPT ![v] = InPeriod(v, hat[h]) \cup {c}]
              /\ slipped' \in {slipped, slipped \cup {<<c, v>>}}
            BY <1>6, <3>1 DEF CommitVouch
        <4>2. InPeriod(v, hat[h]) \subseteq People
            BY <1>0, <2>2 DEF InPeriod, TypeOK
        <4> QED BY <1>0, <2>2, <4>1, <4>2 DEF TypeOK
      <3>2. CASE ~ Committable(c, v, hat[h])
          BY <1>0, <1>6, <3>2 DEF CommitVouch, TypeOK, storeVars
      <3> QED BY <3>1, <3>2
    <2>4. TypeOK'
        BY <1>0, <2>1, <2>3 DEF TypeOK, recordVars, workerVars
    <2>5. Linked'
        BY <1>0, <2>1 DEF Linked, AtWork, TypeOK, workerVars
    <2> QED BY <2>4, <2>5 DEF Typed
  <1>7. ASSUME NEW c \in Newcomers, CompleteAnchor(c) PROVE Typed'
    <2>1. TypeOK'
        BY <1>0, <1>7 DEF CompleteAnchor, TypeOK, storeVars, recordVars, handlerVars, workerVars, history
    <2>2. Linked'
        BY <1>0, <1>7 DEF CompleteAnchor, Linked, AtWork, handlerVars, workerVars
    <2> QED BY <2>1, <2>2 DEF Typed
  <1>8. ASSUME NEW w \in Workers, NEW c \in Newcomers, ReadVouchers(w, c) PROVE Typed'
    <2>1. VouchersOf(c) \subseteq People
        BY DEF VouchersOf
    <2>2. TypeOK'
        BY <1>0, <1>8, <2>1 DEF ReadVouchers, TypeOK, storeVars, recordVars, handlerVars, history
    <2>3. Linked'
        BY <1>0, <1>8 DEF ReadVouchers, Linked, AtWork, TypeOK, handlerVars
    <2> QED BY <2>2, <2>3 DEF Typed
  <1>9. ASSUME NEW w \in Workers, StorePenalize(w) PROVE Typed'
    <2>1. /\ wpc' = [wpc EXCEPT ![w] = "idle"] /\ target' = [target EXCEPT ![w] = Nobody]
          /\ list' = [list EXCEPT ![w] = {}]
          /\ UNCHANGED <<now, offer, storeVars, handlerVars, passed, history>>
        BY <1>9 DEF StorePenalize, End
    <2>2. target[w] \in People /\ list[w] \subseteq People
        BY <1>0, <1>9 DEF StorePenalize, Linked, TypeOK
    <2>3. \A v \in People : Suspension(v) \in Nat
        BY <1>0 DEF Suspension, TypeOK
    <2>4. /\ strikes' \in [People -> Nat] /\ suspendedUntil' \in [People -> Nat]
          /\ revoked' \in SUBSET People /\ penalized' \in [People -> SUBSET People]
      <3>1. CASE AlreadyRevoked(target[w])
          BY <1>0, <1>9, <3>1 DEF StorePenalize, TypeOK, recordVars
      <3>2. CASE ~ AlreadyRevoked(target[w])
        <4> DEFINE c == target[w]
                   L == list[w] \ {c}
        <4>1. /\ revoked' = revoked \cup {c}
              /\ penalized' = [penalized EXCEPT ![c] = @ \cup L]
              /\ strikes' = [v \in People |-> IF v \in L THEN strikes[v] + 1 ELSE strikes[v]]
              /\ suspendedUntil' = [v \in People |-> IF v \in L THEN Suspension(v)
                                                                 ELSE suspendedUntil[v]]
            BY <1>9, <3>2 DEF StorePenalize
        <4>2. strikes' \in [People -> Nat]
            BY <1>0, <4>1 DEF TypeOK
        <4>3. suspendedUntil' \in [People -> Nat]
            BY <1>0, <2>3, <4>1 DEF TypeOK
        <4>4. penalized[c] \cup L \in SUBSET People
            BY <1>0, <2>2 DEF TypeOK
        <4>5. penalized' \in [People -> SUBSET People] /\ revoked' \in SUBSET People
            BY <1>0, <2>2, <4>1, <4>4 DEF TypeOK
        <4> QED BY <4>2, <4>3, <4>5
      <3> QED BY <3>1, <3>2
    <2>5. TypeOK'
        BY <1>0, <2>1, <2>4 DEF TypeOK, storeVars, handlerVars, history
    <2>6. Linked'
        BY <1>0, <2>1 DEF Linked, AtWork, TypeOK, handlerVars
    <2> QED BY <2>5, <2>6 DEF Typed
  <1>10. ASSUME NEW c \in Newcomers, Reinstate(c) PROVE Typed'
    <2>1. /\ strikes' \in [People -> Nat] /\ suspendedUntil' \in [People -> Nat]
          /\ revoked' \in SUBSET People /\ penalized' \in [People -> SUBSET People]
        BY <1>0, <1>10 DEF Reinstate, SuspensionAfter, TypeOK
    <2>2. UNCHANGED <<now, offer, storeVars, handlerVars, workerVars, passed, history>>
        BY <1>10 DEF Reinstate
    <2>3. TypeOK'
        BY <1>0, <2>1, <2>2 DEF TypeOK, storeVars, handlerVars, workerVars, history
    <2>4. Linked'
        BY <1>0, <2>2 DEF Linked, AtWork, handlerVars, workerVars
    <2> QED BY <2>3, <2>4 DEF Typed
  <1>11. CASE Tick
    <2>1. TypeOK'
        BY <1>0, <1>11 DEF Tick, TypeOK, storeVars, recordVars, handlerVars, workerVars, history
    <2>2. Linked'
        BY <1>0, <1>11 DEF Tick, Linked, AtWork, TypeOK, handlerVars, workerVars
    <2> QED BY <2>1, <2>2 DEF Typed
  <1>12. CASE UNCHANGED vars
    <2>1. TypeOK'
        BY <1>0, <1>12 DEF vars, TypeOK, storeVars, recordVars, handlerVars, workerVars, history
    <2>2. Linked'
        BY <1>0, <1>12 DEF vars, Linked, AtWork, handlerVars, workerVars
    <2> QED BY <2>1, <2>2 DEF Typed
  <1> QED
      BY <1>1, <1>2, <1>3, <1>4, <1>5, <1>6, <1>7, <1>8, <1>9, <1>10, <1>11, <1>12 DEF Next

(* Every variable keeps its type, and a confirm only ever works on an      *)
(* accepted offer with two different parties.                              *)
THEOREM TypeCorrect == Spec => [](TypeOK /\ Linked)
  <1>1. Spec => []Typed
      BY TypedInit, TypedStep, PTL DEF Spec
  <1> QED BY <1>1, PTL DEF Typed

-----------------------------------------------------------------------------
(* Strikes: a person who is not revoked has struck nobody.                 *)
NoDebt == \A c \in People : c \notin revoked => penalized[c] = {}

StrikeInv == StrikesMatch /\ SuspendedIffStruck /\ NoDebt

StruckBy(v) == {c \in People : v \in penalized[c]}

(* Nobody starts with a strike.                                            *)
LEMMA StrikeInit == Init => StrikeInv
  <1> SUFFICES ASSUME Init PROVE StrikeInv
      OBVIOUS
  <1>1. \A v \in People : {c \in People : v \in penalized[c]} = {}
      BY DEF Init
  <1>2. StrikesMatch
      BY <1>1, FS_EmptySet DEF Init, StrikesMatch
  <1>3. SuspendedIffStruck /\ NoDebt
      BY DEF Init, SuspendedIffStruck, NoDebt
  <1> QED BY <1>2, <1>3 DEF StrikeInv

(* Strikes only change with the records.                                   *)
LEMMA StrikeSame == StrikeInv /\ UNCHANGED recordVars => StrikeInv'
  BY DEF StrikeInv, StrikesMatch, SuspendedIffStruck, NoDebt, recordVars

(* A revocation adds one strike to each voucher it notes.                  *)
LEMMA StrikePenalize ==
  ASSUME Typed, StrikeInv, NEW w \in Workers, StorePenalize(w)
  PROVE  StrikeInv'
  <1> USE PeopleAssumption, ConfigAssumption
  <1> DEFINE c == target[w]
             L == list[w] \ {c}
  <1>1. CASE AlreadyRevoked(c)
      BY <1>1, StrikeSame DEF StorePenalize
  <1>2. CASE ~ AlreadyRevoked(c)
    <2>1. /\ revoked' = revoked \cup {c}
          /\ penalized' = [penalized EXCEPT ![c] = @ \cup L]
          /\ strikes' = [v \in People |-> IF v \in L THEN strikes[v] + 1 ELSE strikes[v]]
          /\ suspendedUntil' = [v \in People |-> IF v \in L THEN Suspension(v)
                                                             ELSE suspendedUntil[v]]
        BY <1>2 DEF StorePenalize
    <2>2. /\ c \in People /\ L \subseteq People /\ now \in Nat
          /\ strikes \in [People -> Nat] /\ suspendedUntil \in [People -> Nat]
          /\ penalized \in [People -> SUBSET People]
        BY DEF StorePenalize, Typed, Linked, TypeOK
    <2>3. penalized[c] = {}
        BY <1>2, <2>2 DEF StrikeInv, NoDebt, AlreadyRevoked
    <2>4. penalized'[c] = L /\ \A d \in People \ {c} : penalized'[d] = penalized[d]
        BY <2>1, <2>2, <2>3
    <2>5. ASSUME NEW v \in People
          PROVE  strikes'[v] = Cardinality({d \in People : v \in penalized'[d]})
      <3>1. strikes[v] = Cardinality(StruckBy(v)) /\ IsFiniteSet(StruckBy(v))
          BY FS_Subset DEF StrikeInv, StrikesMatch, StruckBy
      <3>2. CASE v \in L
        <4>1. {d \in People : v \in penalized'[d]} = StruckBy(v) \cup {c}
            BY <2>2, <2>4, <3>2 DEF StruckBy
        <4>2. c \notin StruckBy(v)
            BY <2>3 DEF StruckBy
        <4>3. Cardinality(StruckBy(v) \cup {c}) = Cardinality(StruckBy(v)) + 1
            BY <3>1, <4>2, FS_AddElement
        <4> QED BY <2>1, <3>1, <3>2, <4>1, <4>3
      <3>3. CASE v \notin L
        <4>1. {d \in People : v \in penalized'[d]} = StruckBy(v)
            BY <2>2, <2>3, <2>4, <3>3 DEF StruckBy
        <4> QED BY <2>1, <3>1, <3>3, <4>1
      <3> QED BY <3>2, <3>3
    <2>6. StrikesMatch'
        BY <2>5 DEF StrikesMatch
    <2>7. ASSUME NEW v \in People
          PROVE  suspendedUntil'[v] = 0 <=> strikes'[v] = 0
      <3>1. suspendedUntil[v] = 0 <=> strikes[v] = 0
          BY DEF StrikeInv, SuspendedIffStruck
      <3>2. SuspendFor \in Nat \ {0} /\ strikes[v] \in Nat /\ suspendedUntil[v] \in Nat
          BY <2>2
      <3>3. SuspendFor * (strikes[v] + 1) \in Nat /\ SuspendFor * (strikes[v] + 1) > 0
          BY <3>2
      <3>4. Suspension(v) > 0
          BY <2>2, <3>2, <3>3 DEF Suspension
      <3> QED BY <2>1, <3>1, <3>2, <3>4
    <2>8. SuspendedIffStruck'
        BY <2>7 DEF SuspendedIffStruck
    <2>9. NoDebt'
        BY <2>1, <2>2, <2>4 DEF StrikeInv, NoDebt
    <2> QED BY <2>6, <2>8, <2>9 DEF StrikeInv
  <1> QED BY <1>1, <1>2

(* A reinstatement takes back the strikes that were noted.                 *)
LEMMA StrikeReinstate ==
  ASSUME Typed, StrikeInv, NEW c \in People, Reinstate(c)
  PROVE  StrikeInv'
  <1> USE PeopleAssumption, ConfigAssumption
  <1>1. /\ revoked' = revoked \ {c}
        /\ penalized' = [penalized EXCEPT ![c] = {}]
        /\ strikes' = [v \in People |-> IF v \in penalized[c] /\ strikes[v] > 0
                                          THEN strikes[v] - 1 ELSE strikes[v]]
        /\ suspendedUntil' = [v \in People |-> IF v \in penalized[c] THEN SuspensionAfter(v)
                                                                     ELSE suspendedUntil[v]]
      BY DEF Reinstate
  <1>2. /\ strikes \in [People -> Nat] /\ suspendedUntil \in [People -> Nat]
        /\ penalized \in [People -> SUBSET People]
      BY DEF Typed, TypeOK
  <1>3. penalized'[c] = {} /\ \A d \in People \ {c} : penalized'[d] = penalized[d]
      BY <1>1, <1>2
  <1>4. ASSUME NEW v \in People
        PROVE  /\ v \in penalized[c] => strikes[v] > 0
               /\ strikes'[v] = Cardinality({d \in People : v \in penalized'[d]})
    <2>1. strikes[v] = Cardinality(StruckBy(v)) /\ IsFiniteSet(StruckBy(v))
        BY FS_Subset DEF StrikeInv, StrikesMatch, StruckBy
    <2>2. {d \in People : v \in penalized'[d]} = StruckBy(v) \ {c}
        BY <1>3 DEF StruckBy
    <2>3. CASE v \in penalized[c]
      <3>1. c \in StruckBy(v)
          BY <2>3 DEF StruckBy
      <3>2. Cardinality(StruckBy(v) \ {c}) = Cardinality(StruckBy(v)) - 1
          BY <2>1, <3>1, FS_RemoveElement
      <3>3. Cardinality(StruckBy(v) \ {c}) \in Nat
          BY <2>1, FS_RemoveElement, FS_CardinalityType
      <3>4. strikes[v] \in Nat /\ strikes[v] - 1 \in Nat
          BY <1>2, <2>1, <3>2, <3>3
      <3>5. strikes[v] > 0
          BY <3>4
      <3>6. strikes'[v] = strikes[v] - 1
          BY <1>1, <2>3, <3>5
      <3> QED BY <2>1, <2>2, <3>2, <3>5, <3>6
    <2>4. CASE v \notin penalized[c]
      <3>1. StruckBy(v) \ {c} = StruckBy(v)
          BY <2>4 DEF StruckBy
      <3> QED BY <1>1, <2>1, <2>2, <2>4, <3>1
    <2> QED BY <2>3, <2>4
  <1>5. StrikesMatch'
      BY <1>4 DEF StrikesMatch
  <1>6. SuspendedIffStruck'
      BY <1>1, <1>2, <1>4 DEF StrikeInv, SuspendedIffStruck, SuspensionAfter
  <1>7. NoDebt'
      BY <1>1, <1>2, <1>3 DEF StrikeInv, NoDebt
  <1> QED BY <1>5, <1>6, <1>7 DEF StrikeInv

(* Every step keeps strikes and suspensions in line.                       *)
LEMMA StrikeStep == Typed /\ StrikeInv /\ [Next]_vars => StrikeInv'
  <1> SUFFICES ASSUME Typed, StrikeInv, [Next]_vars PROVE StrikeInv'
      OBVIOUS
  <1>1. ASSUME NEW w \in Workers, StorePenalize(w) PROVE StrikeInv'
      BY <1>1, StrikePenalize
  <1>2. ASSUME NEW c \in Newcomers, Reinstate(c) PROVE StrikeInv'
      BY <1>2, PeopleAssumption, StrikeReinstate
  <1>3. \/ UNCHANGED recordVars \/ \E w \in Workers : StorePenalize(w)
        \/ \E c \in Newcomers : Reinstate(c)
      BY DEF Next, vars, Offer, Accept, Claim, ClaimWrong, CountWrong, CommitVouch,
             CompleteAnchor, ReadVouchers, Tick
  <1> QED BY <1>1, <1>2, <1>3, StrikeSame

(* A voucher's strikes are exactly the revocations that struck it and are  *)
(* still in force, and it is suspended exactly while it has one, for any   *)
(* order of revocations, repeated reports and reinstatements.              *)
THEOREM StrikesHold == Spec => []StrikesAccount
  <1>1. Init => Typed /\ StrikeInv
      BY TypedInit, StrikeInit
  <1>2. (Typed /\ StrikeInv) /\ [Next]_vars => (Typed /\ StrikeInv)'
      BY TypedStep, StrikeStep
  <1> QED BY <1>1, <1>2, PTL DEF Spec, StrikeInv, StrikesAccount

-----------------------------------------------------------------------------
(* The commit, as the later proofs use it.                                 *)
LEMMA CommitFacts ==
  ASSUME Typed, NEW h \in Handlers, CommitVouch(h)
  PROVE  LET o == hoffer[h]  c == offer[o].candidate  v == offer[o].voucher IN
         /\ o \in Offers /\ c \in People /\ v \in People /\ c # v
         /\ hat[h] \in Nat /\ hat[h] <= now /\ hpc[h] = "commit"
         /\ \/ UNCHANGED <<storeVars, slipped>>
            \/ /\ c \notin revoked /\ vouch[c][v] = Never
               /\ Cardinality(InPeriod(v, hat[h])) < MaxPerPeriod
               /\ vouch' = [vouch EXCEPT ![c][v] = hat[h]]
               /\ anchoredVouch' = IF offer[o].anchored THEN anchoredVouch \cup {<<c, v>>}
                                                        ELSE anchoredVouch
               /\ vouchTimes' = [vouchTimes EXCEPT ![v] = InPeriod(v, hat[h]) \cup {c}]
               /\ slipped' = IF \E w \in Workers : target[w] = c
                               THEN slipped \cup {<<c, v>>} ELSE slipped
  BY DEF CommitVouch, Committable, UnderQuota, Typed, Linked, AtWork, TypeOK

-----------------------------------------------------------------------------
(* Nobody vouches for themselves, and what a revocation has read misses    *)
(* only the vouches that slipped in since.                                 *)
NoSelf == \A c \in People : vouch[c][c] = Never
HasRead ==
  \A w \in Workers : wpc[w] = "penalize" =>
    \A v \in People : vouch[target[w]][v] # Never =>
                          v \in list[w] \/ <<target[w], v>> \in slipped
PayInv == NoSelf /\ HasRead /\ VouchersPay

(* Every step keeps the vouchers of a revoked person accounted for.        *)
LEMMA PayStep == Typed /\ PayInv /\ [Next]_vars => PayInv'
  <1> SUFFICES ASSUME Typed, PayInv, [Next]_vars PROVE PayInv'
      OBVIOUS
  <1> USE PeopleAssumption
  <1>0. TypeOK
      BY DEF Typed
  <1>1. ASSUME NEW h \in Handlers, CommitVouch(h) PROVE PayInv'
    <2> DEFINE o == hoffer[h]
               c == offer[o].candidate
               v == offer[o].voucher
    <2>1. UNCHANGED <<revoked, penalized, wpc, target, list>>
        BY <1>1 DEF CommitVouch, recordVars, workerVars
    <2>2. CASE UNCHANGED <<storeVars, slipped>>
        BY <2>1, <2>2 DEF PayInv, NoSelf, HasRead, VouchersPay, storeVars
    <2>3. CASE /\ c \notin revoked
               /\ vouch' = [vouch EXCEPT ![c][v] = hat[h]]
               /\ slipped' = IF \E w \in Workers : target[w] = c
                               THEN slipped \cup {<<c, v>>} ELSE slipped
      <3>1. c \in People /\ v \in People /\ c # v
          BY <1>1, CommitFacts
      <3>2. \A d, x \in People : <<d, x>> # <<c, v>> => vouch'[d][x] = vouch[d][x]
          BY <1>0, <2>3, <3>1 DEF TypeOK
      <3>3. slipped \subseteq slipped'
          BY <2>3
      <3>4. NoSelf'
          BY <3>1, <3>2 DEF PayInv, NoSelf
      <3>5. HasRead'
        <4> SUFFICES ASSUME NEW w \in Workers, wpc[w] = "penalize",
                            NEW x \in People, vouch'[target[w]][x] # Never
                     PROVE  x \in list[w] \/ <<target[w], x>> \in slipped'
            BY <2>1 DEF HasRead
        <4>1. target[w] \in People
            BY DEF Typed, Linked
        <4>2. CASE target[w] = c /\ x = v
            BY <2>3, <4>2
        <4>3. CASE ~ (target[w] = c /\ x = v)
            BY <3>2, <3>3, <4>1, <4>3 DEF PayInv, HasRead
        <4> QED BY <4>2, <4>3
      <3>6. VouchersPay'
        <4>1. revoked \subseteq People
            BY <1>0 DEF TypeOK
        <4> QED BY <2>1, <2>3, <3>2, <3>3, <4>1 DEF PayInv, VouchersPay
      <3> QED BY <3>4, <3>5, <3>6 DEF PayInv
    <2> QED BY <1>1, <2>2, <2>3, CommitFacts
  <1>2. ASSUME NEW w \in Workers, NEW c \in Newcomers, ReadVouchers(w, c) PROVE PayInv'
    <2>1. /\ wpc' = [wpc EXCEPT ![w] = "penalize"] /\ target' = [target EXCEPT ![w] = c]
          /\ list' = [list EXCEPT ![w] = VouchersOf(c)]
          /\ UNCHANGED <<vouch, slipped, revoked, penalized>>
        BY <1>2 DEF ReadVouchers, storeVars, history, recordVars
    <2>2. HasRead'
        BY <1>0, <2>1 DEF PayInv, HasRead, TypeOK, VouchersOf
    <2> QED BY <2>1, <2>2 DEF PayInv, NoSelf, VouchersPay
  <1>3. ASSUME NEW w \in Workers, StorePenalize(w) PROVE PayInv'
    <2> DEFINE c == target[w]
               L == list[w] \ {c}
    <2>1. /\ wpc' = [wpc EXCEPT ![w] = "idle"] /\ target' = [target EXCEPT ![w] = Nobody]
          /\ list' = [list EXCEPT ![w] = {}]
          /\ UNCHANGED <<vouch, slipped>> /\ wpc[w] = "penalize"
        BY <1>3 DEF StorePenalize, End, storeVars, history
    <2>2. HasRead'
        BY <1>0, <2>1 DEF PayInv, HasRead, TypeOK
    <2>3. CASE AlreadyRevoked(c)
        BY <1>3, <2>1, <2>2, <2>3 DEF StorePenalize, recordVars, PayInv, NoSelf, VouchersPay
    <2>4. CASE ~ AlreadyRevoked(c)
      <3>1. revoked' = revoked \cup {c} /\ penalized' = [penalized EXCEPT ![c] = @ \cup L]
          BY <1>3, <2>4 DEF StorePenalize
      <3>2. c \in People /\ revoked \subseteq People
          BY <1>0, <2>1 DEF Typed, Linked, TypeOK
      <3>3. L \subseteq penalized'[c] /\ \A d \in People \ {c} : penalized'[d] = penalized[d]
          BY <1>0, <3>1, <3>2 DEF TypeOK
      <3>4. \A v \in People : vouch[c][v] # Never => v \in penalized'[c] \/ <<c, v>> \in slipped
          BY <2>1, <3>2, <3>3 DEF PayInv, HasRead, NoSelf
      <3>5. VouchersPay'
          BY <2>1, <3>1, <3>2, <3>3, <3>4 DEF PayInv, VouchersPay
      <3> QED BY <2>1, <2>2, <3>5 DEF PayInv, NoSelf
    <2> QED BY <2>3, <2>4
  <1>4. ASSUME NEW c \in Newcomers, Reinstate(c) PROVE PayInv'
    <2>1. /\ revoked' = revoked \ {c} /\ penalized' = [penalized EXCEPT ![c] = {}]
          /\ UNCHANGED <<vouch, slipped, wpc, target, list>>
        BY <1>4 DEF Reinstate, storeVars, history, workerVars
    <2>2. VouchersPay'
        BY <1>0, <2>1 DEF PayInv, VouchersPay, TypeOK
    <2> QED BY <2>1, <2>2 DEF PayInv, NoSelf, HasRead
  <1>5. CASE UNCHANGED <<vouch, slipped, revoked, penalized, wpc, target, list>>
      BY <1>5 DEF PayInv, NoSelf, HasRead, VouchersPay
  <1>6. \/ UNCHANGED <<vouch, slipped, revoked, penalized, wpc, target, list>>
        \/ \E h \in Handlers : CommitVouch(h)
        \/ \E w \in Workers, c \in Newcomers : ReadVouchers(w, c)
        \/ \E w \in Workers : StorePenalize(w)
        \/ \E c \in Newcomers : Reinstate(c)
      BY ZenonT(60) DEF Next, vars, storeVars, history, recordVars, workerVars, Offer, Accept, Claim,
             ClaimWrong, CountWrong, CompleteAnchor, Tick
  <1> QED BY <1>1, <1>2, <1>3, <1>4, <1>5, <1>6

(* Whoever vouched in person for a revoked person bears its strike, unless *)
(* the vouch was committed between the revocation's read and its strike.   *)
THEOREM VouchersPayHolds == Spec => []VouchersPay
  <1>1. Init => Typed /\ PayInv
    <2>1. Init => PayInv
        BY DEF Init, PayInv, NoSelf, HasRead, VouchersPay
    <2> QED BY <2>1, TypedInit
  <1>2. (Typed /\ PayInv) /\ [Next]_vars => (Typed /\ PayInv)'
      BY TypedStep, PayStep
  <1> QED BY <1>1, <1>2, PTL DEF Spec, PayInv

-----------------------------------------------------------------------------
(* The vouches of the period that ends now are all still in the record,    *)
(* although every commit drops those older than its own period.            *)
Current(v) == {c \in People : vouch[c][v] # Never /\ now - vouch[c][v] < Period}
Remembered == \A v \in People : Current(v) \subseteq vouchTimes[v]
QuotaInv == QuotaHolds /\ Remembered

(* A commit that saw a free place leaves the period within the quota.      *)
LEMMA QuotaCommit ==
  ASSUME TypeOK, QuotaInv, NEW c \in People, NEW v \in People, NEW t \in Nat, t <= now,
         Cardinality(InPeriod(v, t)) < MaxPerPeriod,
         vouch' = [vouch EXCEPT ![c][v] = t],
         vouchTimes' = [vouchTimes EXCEPT ![v] = InPeriod(v, t) \cup {c}],
         now' = now
  PROVE  QuotaInv'
  <1> USE PeopleAssumption, ConfigAssumption
  <1>2. \A x \in People \ {v} : \A d \in People : vouch'[d][x] = vouch[d][x]
      BY DEF TypeOK
  <1>3. \A d \in People \ {c} : vouch'[d][v] = vouch[d][v]
      BY DEF TypeOK
  <1>4. \A x \in People \ {v} : vouchTimes'[x] = vouchTimes[x] /\ Current(x)' = Current(x)
      BY <1>2 DEF TypeOK, Current
  <1>5. vouchTimes'[v] = InPeriod(v, t) \cup {c}
      BY DEF TypeOK
  <1>6. Current(v) \subseteq InPeriod(v, t)
    <2>1. \A d \in People : vouch[d][v] \in Nat \cup {Never}
        BY DEF TypeOK
    <2> QED BY <2>1 DEF QuotaInv, Remembered, Current, InPeriod, TypeOK, Never
  <1>7. Current(v)' \subseteq Current(v) \cup {c}
      BY <1>3 DEF Current
  <1>8. Remembered'
      BY <1>4, <1>5, <1>6, <1>7 DEF QuotaInv, Remembered
  <1>9. Cardinality(Current(v)') <= MaxPerPeriod
    <2>1. IsFiniteSet(InPeriod(v, t))
      <3>1. InPeriod(v, t) \subseteq People
          BY DEF InPeriod, TypeOK
      <3> QED BY <3>1, FS_Subset
    <2>2. Cardinality(InPeriod(v, t)) \in Nat
        BY <2>1, FS_CardinalityType
    <2>3. /\ IsFiniteSet(InPeriod(v, t) \cup {c})
          /\ Cardinality(InPeriod(v, t) \cup {c}) <= Cardinality(InPeriod(v, t)) + 1
      <3>1. /\ IsFiniteSet(InPeriod(v, t) \cup {c})
            /\ Cardinality(InPeriod(v, t) \cup {c}) =
                 IF c \in InPeriod(v, t) THEN Cardinality(InPeriod(v, t))
                                         ELSE Cardinality(InPeriod(v, t)) + 1
          BY <2>1, FS_AddElement
      <3> QED BY <2>2, <3>1
    <2>4. Current(v)' \subseteq InPeriod(v, t) \cup {c}
        BY <1>6, <1>7
    <2>5. /\ IsFiniteSet(Current(v)')
          /\ Cardinality(Current(v)') <= Cardinality(InPeriod(v, t) \cup {c})
        BY <2>3, <2>4, FS_Subset
    <2>6. Cardinality(Current(v)') \in Nat /\ Cardinality(InPeriod(v, t) \cup {c}) \in Nat
        BY <2>3, <2>5, FS_CardinalityType
    <2> QED BY <2>2, <2>3, <2>5, <2>6
  <1>10. \A x \in People : Cardinality(Current(x)') <= MaxPerPeriod
      BY <1>4, <1>9 DEF QuotaInv, QuotaHolds, Current
  <1>11. QuotaHolds'
      BY <1>10 DEF QuotaHolds, Current
  <1> QED BY <1>8, <1>11 DEF QuotaInv

(* Every step keeps the quota.                                             *)
LEMMA QuotaStep == Typed /\ QuotaInv /\ [Next]_vars => QuotaInv'
  <1> SUFFICES ASSUME Typed, QuotaInv, [Next]_vars PROVE QuotaInv'
      OBVIOUS
  <1> USE PeopleAssumption, ConfigAssumption
  <1>0. TypeOK
      BY DEF Typed
  <1>1. ASSUME NEW h \in Handlers, CommitVouch(h) PROVE QuotaInv'
    <2>1. now' = now
        BY <1>1 DEF CommitVouch
    <2>2. CASE UNCHANGED storeVars
        BY <2>1, <2>2 DEF QuotaInv, QuotaHolds, Remembered, Current, storeVars
    <2>3. CASE \E c, v \in People, t \in Nat :
                 /\ t <= now /\ Cardinality(InPeriod(v, t)) < MaxPerPeriod
                 /\ vouch' = [vouch EXCEPT ![c][v] = t]
                 /\ vouchTimes' = [vouchTimes EXCEPT ![v] = InPeriod(v, t) \cup {c}]
        BY <1>0, <2>1, <2>3, QuotaCommit
    <2>4. \/ UNCHANGED storeVars
          \/ LET c == offer[hoffer[h]].candidate  v == offer[hoffer[h]].voucher
                 t == hat[h] IN
             /\ c \in People /\ v \in People /\ t \in Nat /\ t <= now
             /\ Cardinality(InPeriod(v, t)) < MaxPerPeriod
             /\ vouch' = [vouch EXCEPT ![c][v] = t]
             /\ vouchTimes' = [vouchTimes EXCEPT ![v] = InPeriod(v, t) \cup {c}]
        BY <1>1, CommitFacts
    <2> QED BY <2>2, <2>3, <2>4
  <1>2. CASE Tick
    <2>1. now' = now + 1 /\ now \in Nat /\ UNCHANGED <<vouch, vouchTimes>>
        BY <1>0, <1>2 DEF Tick, storeVars, TypeOK
    <2>2. \A d, x \in People : vouch[d][x] \in Int
        BY <1>0 DEF TypeOK, Never
    <2>3. \A x \in People : Current(x)' \subseteq Current(x)
        BY <2>1, <2>2 DEF Current
    <2>4. Remembered'
        BY <2>1, <2>3 DEF QuotaInv, Remembered
    <2>5. ASSUME NEW x \in People PROVE Cardinality(Current(x)') <= MaxPerPeriod
      <3>1. IsFiniteSet(Current(x))
          BY FS_Subset DEF Current
      <3>2. /\ IsFiniteSet(Current(x)') /\ Cardinality(Current(x)') <= Cardinality(Current(x))
          BY <2>3, <3>1, FS_Subset
      <3>3. Cardinality(Current(x)') \in Nat /\ Cardinality(Current(x)) \in Nat
          BY <3>1, <3>2, FS_CardinalityType
      <3>4. Cardinality(Current(x)) <= MaxPerPeriod
          BY DEF QuotaInv, QuotaHolds, Current
      <3> QED BY <3>2, <3>3, <3>4
    <2>6. QuotaHolds'
        BY <2>5 DEF QuotaHolds, Current
    <2> QED BY <2>4, <2>6 DEF QuotaInv
  <1>3. CASE UNCHANGED <<now, vouch, vouchTimes>>
      BY <1>3 DEF QuotaInv, QuotaHolds, Remembered, Current
  <1>4. \/ UNCHANGED <<now, vouch, vouchTimes>> \/ Tick
        \/ \E h \in Handlers : CommitVouch(h)
      BY DEF Next, vars, storeVars, Offer, Accept, Claim, ClaimWrong, CountWrong,
             CompleteAnchor, ReadVouchers, StorePenalize, Reinstate
  <1> QED BY <1>1, <1>2, <1>3, <1>4

(* No voucher gives more than MaxPerPeriod vouches in the period that ends *)
(* now, however many confirms race and however late they commit.           *)
THEOREM QuotaHoldsAlways == Spec => []QuotaHolds
  <1>1. Init => Typed /\ QuotaInv
    <2> SUFFICES ASSUME Init PROVE QuotaInv
        BY TypedInit
    <2>1. \A v \in People : Current(v) = {}
        BY DEF Init, Current
    <2>2. \A v \in People : Cardinality(Current(v)) <= MaxPerPeriod
        BY <2>1, FS_EmptySet, ConfigAssumption
    <2> QED BY <2>1, <2>2 DEF QuotaInv, QuotaHolds, Remembered, Current
  <1>2. (Typed /\ QuotaInv) /\ [Next]_vars => (Typed /\ QuotaInv)'
      BY TypedStep, QuotaStep
  <1> QED BY <1>1, <1>2, PTL DEF Spec, QuotaInv

-----------------------------------------------------------------------------
(* An offer that can still be confirmed has seen fewer wrong codes than    *)
(* burn it.                                                                *)
AtCount(o) == {h \in Handlers : hpc[h] = "count" /\ hoffer[h] = o}
Unburned ==
  \A o \in Offers : offer[o].state \in {"unused", "open", "accepted"} => offer[o].bad < MaxAttempts
GuessInv == GuessesAreBounded /\ Unburned

(* Whatever the calls at work, one more guess for each of them.            *)
LEMMA UnburnedSuffices ==
  ASSUME TypeOK, NEW o \in Offers, offer[o].bad < MaxAttempts
  PROVE  Guesses(o) <= MaxAttempts + Cardinality(Handlers) - 1
  <1>1. /\ Cardinality(AtCount(o)) <= Cardinality(Handlers)
        /\ Cardinality(AtCount(o)) \in Nat /\ Cardinality(Handlers) \in Nat
      BY PeopleAssumption, FS_Subset, FS_CardinalityType DEF AtCount
  <1>2. offer[o].bad \in Nat
      BY ExceptDoc DEF TypeOK
  <1> QED BY <1>1, <1>2, ConfigAssumption DEF Guesses, AtCount

(* Every step keeps the guesses bounded.                                   *)
LEMMA GuessStep == Typed /\ Typed' /\ GuessInv /\ [Next]_vars => GuessInv'
  <1> SUFFICES ASSUME Typed, Typed', GuessInv, [Next]_vars PROVE GuessInv'
      OBVIOUS
  <1> USE PeopleAssumption, ConfigAssumption
  <1>0. TypeOK /\ TypeOK'
      BY DEF Typed
  <1>a. ASSUME NEW o \in Offers, offer'[o].bad < MaxAttempts
        PROVE  Guesses(o)' <= MaxAttempts + Cardinality(Handlers) - 1
    <2>1. /\ Cardinality(AtCount(o)') <= Cardinality(Handlers)
          /\ Cardinality(AtCount(o)') \in Nat /\ Cardinality(Handlers) \in Nat
        BY FS_Subset, FS_CardinalityType DEF AtCount
    <2>2. offer'[o].bad \in Nat
        BY <1>0, ExceptDoc DEF TypeOK
    <2> QED BY <1>a, <2>1, <2>2 DEF Guesses, AtCount
  <1>b. ASSUME NEW o \in Offers, offer'[o].bad = offer[o].bad, AtCount(o)' = AtCount(o)
        PROVE  Guesses(o)' <= MaxAttempts + Cardinality(Handlers) - 1
      BY <1>b DEF GuessInv, GuessesAreBounded, Guesses, AtCount
  <1>1. ASSUME NEW v \in People, NEW o \in Offers, Offer(v, o) PROVE GuessInv'
    <2>1. offer'[o].bad = 0 /\ UNCHANGED handlerVars
        BY <1>0, <1>1 DEF Offer, NoOfferDoc, TypeOK
    <2>2. \A x \in Offers \ {o} : /\ offer'[x].bad = offer[x].bad
                                  /\ offer'[x].state \in {offer[x].state, "deleted"}
        BY <1>0, <1>1 DEF Offer, TypeOK, OfferDocs
    <2>3. Unburned'
        BY <2>1, <2>2 DEF GuessInv, Unburned
    <2>4. \A x \in Offers : AtCount(x)' = AtCount(x)
        BY <2>1 DEF AtCount, handlerVars
    <2>5. GuessesAreBounded'
        BY <1>a, <1>b, <2>1, <2>2, <2>4 DEF GuessesAreBounded
    <2> QED BY <2>3, <2>5 DEF GuessInv
  <1>2. ASSUME NEW c \in Newcomers, NEW o \in Offers, Accept(c, o) PROVE GuessInv'
    <2>1. /\ \A x \in Offers : offer'[x].bad = offer[x].bad
          /\ \A x \in Offers \ {o} : offer'[x].state = offer[x].state
          /\ offer[o].state = "open" /\ UNCHANGED handlerVars
        BY <1>0, <1>2 DEF Accept, TypeOK, OfferDocs
    <2>2. \A x \in Offers : AtCount(x)' = AtCount(x)
        BY <2>1 DEF AtCount, handlerVars
    <2> QED BY <1>b, <2>1, <2>2 DEF GuessInv, GuessesAreBounded, Unburned
  <1>3. ASSUME NEW h \in Handlers, NEW o \in Offers, Claim(h, o) PROVE GuessInv'
    <2>1. /\ hpc[h] = "idle"
          /\ offer' = [offer EXCEPT ![o].state = "confirmed"]
          /\ hpc' = [hpc EXCEPT ![h] = "commit"] /\ hoffer' = [hoffer EXCEPT ![h] = o]
        BY <1>3 DEF Claim
    <2>2. /\ \A x \in Offers : offer'[x].bad = offer[x].bad
          /\ \A x \in Offers : offer'[x].state \in {offer[x].state, "confirmed"}
        BY <1>0, <2>1 DEF TypeOK, OfferDocs
    <2>3. \A x \in Offers : AtCount(x)' = AtCount(x)
        BY <1>0, <2>1 DEF AtCount, TypeOK
    <2> QED BY <1>b, <2>2, <2>3 DEF GuessInv, GuessesAreBounded, Unburned
  <1>4. ASSUME NEW h \in Handlers, NEW o \in Offers, ClaimWrong(h, o) PROVE GuessInv'
    <2>1. /\ hpc[h] = "idle" /\ offer[o].state = "accepted" /\ offer' = offer
          /\ hpc' = [hpc EXCEPT ![h] = "count"] /\ hoffer' = [hoffer EXCEPT ![h] = o]
        BY <1>4 DEF ClaimWrong, Claimable
    <2>2. \A x \in Offers \ {o} : AtCount(x)' = AtCount(x)
        BY <1>0, <2>1 DEF AtCount, TypeOK
    <2>3. offer'[o].bad < MaxAttempts
        BY <2>1 DEF GuessInv, Unburned
    <2>4. GuessesAreBounded'
        BY <1>a, <1>b, <2>1, <2>2, <2>3 DEF GuessesAreBounded
    <2> QED BY <2>1, <2>4 DEF GuessInv, Unburned
  <1>5. ASSUME NEW h \in Handlers, CountWrong(h) PROVE GuessInv'
    <2>1. PICK o \in Offers : o = hoffer[h]
        BY <1>5 DEF CountWrong, Typed, Linked, AtWork
    <2>2. /\ hpc[h] = "count"
          /\ offer' = IF offer[o].state = "deleted" THEN offer
                      ELSE [offer EXCEPT ![o].bad = @ + 1, ![o].state = AfterWrong(o)]
          /\ hpc' = [hpc EXCEPT ![h] = "idle"] /\ hoffer' = [hoffer EXCEPT ![h] = NoOffer]
        BY <1>5, <2>1 DEF CountWrong, Return
    <2>3. /\ offer'[o].bad \in {offer[o].bad, offer[o].bad + 1}
          /\ \/ offer'[o] = offer[o]
             \/ offer'[o].state = AfterWrong(o) /\ offer'[o].bad = offer[o].bad + 1
          /\ \A x \in Offers \ {o} : offer'[x] = offer[x]
          /\ offer[o].bad \in Nat
        BY <1>0, <2>2 DEF TypeOK, OfferDocs
    <2>4. Unburned'
        BY <2>3 DEF GuessInv, Unburned, AfterWrong
    <2>5. \A x \in Offers \ {o} : AtCount(x)' = AtCount(x)
        BY <1>0, <2>1, <2>2 DEF AtCount, TypeOK
    <2>6. AtCount(o)' = AtCount(o) \ {h} /\ h \in AtCount(o)
        BY <1>0, <2>1, <2>2 DEF AtCount, TypeOK
    <2>7. IsFiniteSet(AtCount(o)) /\ IsFiniteSet(Handlers)
        BY FS_Subset DEF AtCount
    <2>8. Cardinality(AtCount(o)') = Cardinality(AtCount(o)) - 1
        BY <2>6, <2>7, FS_RemoveElement
    <2>9. Cardinality(AtCount(o)) \in Nat /\ Cardinality(Handlers) \in Nat
        BY <2>7, FS_CardinalityType
    <2>10. offer[o].bad + Cardinality(AtCount(o)) <= MaxAttempts + Cardinality(Handlers) - 1
        BY DEF GuessInv, GuessesAreBounded, Guesses, AtCount
    <2>11. offer'[o].bad + Cardinality(AtCount(o)') <= MaxAttempts + Cardinality(Handlers) - 1
        BY <2>3, <2>8, <2>9, <2>10
    <2>12. Guesses(o)' <= MaxAttempts + Cardinality(Handlers) - 1
        BY <2>11 DEF Guesses, AtCount
    <2>13. GuessesAreBounded'
        BY <1>b, <2>3, <2>5, <2>12 DEF GuessesAreBounded
    <2> QED BY <2>4, <2>13 DEF GuessInv
  <1>6. ASSUME NEW h \in Handlers, CommitVouch(h) PROVE GuessInv'
    <2>1. /\ hpc[h] = "commit" /\ offer' = offer
          /\ hpc' = [hpc EXCEPT ![h] = "idle"] /\ hoffer' = [hoffer EXCEPT ![h] = NoOffer]
        BY <1>6 DEF CommitVouch, Return
    <2>2. \A x \in Offers : AtCount(x)' = AtCount(x)
        BY <1>0, <2>1 DEF AtCount, TypeOK
    <2> QED BY <1>b, <2>1, <2>2 DEF GuessInv, GuessesAreBounded, Unburned
  <1>7. CASE UNCHANGED <<offer, hpc, hoffer>>
      BY <1>7 DEF GuessInv, GuessesAreBounded, Guesses, Unburned
  <1>8. \/ UNCHANGED <<offer, hpc, hoffer>>
        \/ \E v \in People, o \in Offers : Offer(v, o)
        \/ \E c \in Newcomers, o \in Offers : Accept(c, o)
        \/ \E h \in Handlers, o \in Offers : Claim(h, o) \/ ClaimWrong(h, o)
        \/ \E h \in Handlers : CountWrong(h) \/ CommitVouch(h)
      BY DEF Next, vars, handlerVars, CompleteAnchor, ReadVouchers, StorePenalize, Reinstate, Tick
  <1> QED BY <1>1, <1>2, <1>3, <1>4, <1>5, <1>6, <1>7, <1>8

(* An offer's return code can be guessed at most MaxAttempts times, and    *)
(* once more for each further confirm at work, for any number of confirms. *)
THEOREM GuessesBounded == Spec => []GuessesAreBounded
  <1>1. Init => Typed /\ GuessInv
    <2> SUFFICES ASSUME Init PROVE GuessInv
        BY TypedInit
    <2>1. TypeOK
        BY TypedInit DEF Typed
    <2>2. Unburned
        BY ConfigAssumption DEF Init, Unburned, NoOfferDoc
    <2>3. \A o \in Offers : offer[o].bad < MaxAttempts
        BY <2>2 DEF Unburned, Init, NoOfferDoc
    <2> QED BY <2>1, <2>2, <2>3, UnburnedSuffices DEF GuessInv, GuessesAreBounded
  <1>2. (Typed /\ GuessInv) /\ [Next]_vars => (Typed /\ GuessInv)'
      BY TypedStep, GuessStep
  <1> QED BY <1>1, <1>2, PTL DEF Spec, GuessInv

-----------------------------------------------------------------------------
(* An anchored vouch, and the one a confirm is about to commit, come from  *)
(* an exchange.                                                            *)
Live ==
  /\ \A o \in Offers : offer[o].anchored => offer[o].voucher \in Anchored
  /\ \A h \in Handlers : hpc[h] = "commit" =>
       <<offer[hoffer[h]].candidate, offer[hoffer[h]].voucher>> \in exchanged
  /\ \A c, v \in People : <<c, v>> \in anchoredVouch =>
       v \in Anchored /\ <<c, v>> \in exchanged
Exchangers(c) == {v \in Anchored : <<c, v>> \in exchanged}
AnchorInv == AnchorIsEarned /\ Live

(* Every step keeps anchored vouches tied to an exchange.                  *)
LEMMA LiveStep == Typed /\ Live /\ [Next]_vars => Live'
  <1> SUFFICES ASSUME Typed, Live, [Next]_vars PROVE Live'
      OBVIOUS
  <1> USE PeopleAssumption
  <1>0. TypeOK
      BY DEF Typed
  <1>w. \A h \in Handlers : hpc[h] = "commit" =>
          /\ hoffer[h] \in Offers
          /\ offer[hoffer[h]].state \in {"accepted", "confirmed", "burned", "deleted"}
      BY DEF Typed, Linked, AtWork
  <1>1. ASSUME NEW v \in People, NEW o \in Offers, Offer(v, o) PROVE Live'
    <2>1. /\ offer'[o].voucher = v /\ (offer'[o].anchored <=> v \in Anchored)
          /\ offer[o].state = "unused"
          /\ UNCHANGED <<handlerVars, anchoredVouch, exchanged>>
        BY <1>0, <1>1 DEF Offer, NoOfferDoc, TypeOK, storeVars, history
    <2>2. \A x \in Offers \ {o} : /\ offer'[x].voucher = offer[x].voucher
                                  /\ offer'[x].candidate = offer[x].candidate
                                  /\ offer'[x].anchored = offer[x].anchored
        BY <1>0, <1>1 DEF Offer, TypeOK, OfferDocs
    <2> QED BY <1>w, <2>1, <2>2 DEF Live, handlerVars
  <1>2. ASSUME NEW c \in Newcomers, NEW o \in Offers, Accept(c, o) PROVE Live'
    <2>1. /\ offer[o].state = "open"
          /\ offer'[o].voucher = offer[o].voucher /\ offer'[o].anchored = offer[o].anchored
          /\ \A x \in Offers \ {o} : offer'[x] = offer[x]
          /\ UNCHANGED <<handlerVars, anchoredVouch, exchanged>>
        BY <1>0, <1>2 DEF Accept, TypeOK, OfferDocs, storeVars, history
    <2> QED BY <1>w, <2>1 DEF Live, handlerVars
  <1>3. ASSUME NEW h \in Handlers, NEW o \in Offers, Claim(h, o) PROVE Live'
    <2>1. /\ offer' = [offer EXCEPT ![o].state = "confirmed"]
          /\ exchanged' = exchanged \cup {<<offer[o].candidate, offer[o].voucher>>}
          /\ hpc' = [hpc EXCEPT ![h] = "commit"] /\ hoffer' = [hoffer EXCEPT ![h] = o]
          /\ UNCHANGED anchoredVouch
        BY <1>3 DEF Claim, storeVars
    <2>2. \A x \in Offers : /\ offer'[x].voucher = offer[x].voucher
                            /\ offer'[x].candidate = offer[x].candidate
                            /\ offer'[x].anchored = offer[x].anchored
        BY <1>0, <2>1 DEF TypeOK, OfferDocs
    <2>3. /\ hoffer'[h] = o
          /\ \A g \in Handlers \ {h} : hpc'[g] = hpc[g] /\ hoffer'[g] = hoffer[g]
        BY <1>0, <2>1 DEF TypeOK
    <2> QED BY <1>w, <2>1, <2>2, <2>3 DEF Live
  <1>4. ASSUME NEW h \in Handlers, NEW o \in Offers, ClaimWrong(h, o) PROVE Live'
      BY <1>0, <1>4 DEF ClaimWrong, Live, TypeOK, storeVars, history
  <1>5. ASSUME NEW h \in Handlers, CountWrong(h) PROVE Live'
    <2>1. PICK o \in Offers : o = hoffer[h]
        BY <1>5 DEF CountWrong, Typed, Linked, AtWork
    <2>2. /\ offer' = IF offer[o].state = "deleted" THEN offer
                      ELSE [offer EXCEPT ![o].bad = @ + 1, ![o].state = AfterWrong(o)]
          /\ hpc' = [hpc EXCEPT ![h] = "idle"] /\ hoffer' = [hoffer EXCEPT ![h] = NoOffer]
          /\ UNCHANGED <<anchoredVouch, exchanged>>
        BY <1>5, <2>1 DEF CountWrong, Return, storeVars, history
    <2>3. \A x \in Offers : /\ offer'[x].voucher = offer[x].voucher
                            /\ offer'[x].candidate = offer[x].candidate
                            /\ offer'[x].anchored = offer[x].anchored
        BY <1>0, <2>2 DEF TypeOK, OfferDocs
    <2>4. /\ hpc'[h] = "idle"
          /\ \A g \in Handlers \ {h} : hpc'[g] = hpc[g] /\ hoffer'[g] = hoffer[g]
          /\ UNCHANGED <<anchoredVouch, exchanged>>
        BY <1>0, <2>2 DEF TypeOK
    <2>5. \A g \in Handlers : hpc'[g] = "commit" =>
             <<offer'[hoffer'[g]].candidate, offer'[hoffer'[g]].voucher>> \in exchanged
        BY <1>w, <2>3, <2>4 DEF Live
    <2> QED BY <2>3, <2>4, <2>5 DEF Live
  <1>6. ASSUME NEW h \in Handlers, CommitVouch(h) PROVE Live'
    <2> DEFINE o == hoffer[h]
               c == offer[o].candidate
               v == offer[o].voucher
    <2>1. /\ hpc[h] = "commit" /\ o \in Offers
          /\ \/ anchoredVouch' = anchoredVouch
             \/ offer[o].anchored /\ anchoredVouch' = anchoredVouch \cup {<<c, v>>}
        BY <1>6, CommitFacts DEF storeVars
    <2>2. /\ hpc' = [hpc EXCEPT ![h] = "idle"] /\ hoffer' = [hoffer EXCEPT ![h] = NoOffer]
          /\ UNCHANGED <<offer, exchanged>>
        BY <1>6 DEF CommitVouch, Return
    <2>3. offer[o].anchored => v \in Anchored
        BY <2>1 DEF Live
    <2>4. <<c, v>> \in exchanged
        BY <2>1 DEF Live
    <2>5. \A d, x \in People : <<d, x>> \in anchoredVouch' => x \in Anchored /\ <<d, x>> \in exchanged
      <3> HIDE DEF c, v
      <3> QED BY <2>1, <2>3, <2>4 DEF Live
    <2>6. \A g \in Handlers : hpc'[g] = "commit" =>
             <<offer[hoffer'[g]].candidate, offer[hoffer'[g]].voucher>> \in exchanged
        BY <1>0, <2>2 DEF Live, TypeOK
    <2> QED BY <2>2, <2>5, <2>6 DEF Live
  <1>7. CASE UNCHANGED <<offer, hpc, hoffer, anchoredVouch, exchanged>>
      BY <1>7 DEF Live
  <1>8. \/ UNCHANGED <<offer, hpc, hoffer, anchoredVouch, exchanged>>
        \/ \E v \in People, o \in Offers : Offer(v, o)
        \/ \E c \in Newcomers, o \in Offers : Accept(c, o)
        \/ \E h \in Handlers, o \in Offers : Claim(h, o) \/ ClaimWrong(h, o)
        \/ \E h \in Handlers : CountWrong(h) \/ CommitVouch(h)
      BY DEF Next, vars, handlerVars, storeVars, history, CompleteAnchor, ReadVouchers,
             StorePenalize, Reinstate, Tick
  <1> QED BY <1>1, <1>2, <1>3, <1>4, <1>5, <1>6, <1>7, <1>8

(* Exchanges are never forgotten, so an earned anchor stays earned.        *)
LEMMA EarnedStep == Typed /\ AnchorInv /\ [Next]_vars => AnchorIsEarned'
  <1> SUFFICES ASSUME Typed, AnchorInv, [Next]_vars PROVE AnchorIsEarned'
      OBVIOUS
  <1> USE PeopleAssumption, ConfigAssumption
  <1>0. TypeOK
      BY DEF Typed
  <1>1. exchanged \subseteq exchanged'
      BY DEF Next, vars, history, Offer, Accept, Claim, ClaimWrong, CountWrong, CommitVouch,
             CompleteAnchor, ReadVouchers, StorePenalize, Reinstate, Tick
  <1>2. ASSUME NEW c \in People, NEW S \in SUBSET Exchangers(c), Cardinality(S) >= Required
        PROVE  Cardinality(Exchangers(c)') >= Required
    <2>1. S \subseteq Exchangers(c)' /\ IsFiniteSet(Exchangers(c)')
        BY <1>1, FS_Subset DEF Exchangers
    <2>2. /\ Cardinality(S) <= Cardinality(Exchangers(c)')
          /\ Cardinality(S) \in Nat /\ Cardinality(Exchangers(c)') \in Nat
        BY <2>1, FS_Subset, FS_CardinalityType
    <2> QED BY <1>2, <2>2
  <1>3. \A c \in passed : c \in People /\ Cardinality(Exchangers(c)) >= Required
      BY <1>0 DEF AnchorInv, AnchorIsEarned, Exchangers, TypeOK
  <1>4. \A c \in passed : Cardinality(Exchangers(c)') >= Required
      BY <1>2, <1>3
  <1>5. ASSUME NEW c \in Newcomers, CompleteAnchor(c) PROVE AnchorIsEarned'
    <2>1. AnchorVouchers(c) \subseteq Exchangers(c)
        BY DEF AnchorInv, Live, AnchorVouchers, Exchangers
    <2>2. Cardinality(Exchangers(c)') >= Required
        BY <1>2, <1>5, <2>1 DEF CompleteAnchor
    <2>3. passed' = passed \cup {c}
        BY <1>5 DEF CompleteAnchor
    <2> QED BY <1>4, <2>2, <2>3 DEF AnchorIsEarned, Exchangers
  <1>6. CASE passed' = passed
      BY <1>4, <1>6 DEF AnchorIsEarned, Exchangers
  <1>7. passed' = passed \/ \E c \in Newcomers : CompleteAnchor(c)
      BY DEF Next, vars, Offer, Accept, Claim, ClaimWrong, CountWrong, CommitVouch,
             ReadVouchers, StorePenalize, Reinstate, Tick
  <1> QED BY <1>5, <1>6, <1>7

(* The in-person anchor is granted only to someone who completed a live    *)
(* exchange with Required distinct anchored vouchers.                      *)
THEOREM AnchorEarned == Spec => []AnchorIsEarned
  <1>1. Init => Typed /\ AnchorInv
    <2>1. Init => AnchorInv
        BY DEF Init, AnchorInv, AnchorIsEarned, Live, NoOfferDoc
    <2> QED BY <2>1, TypedInit
  <1>2. (Typed /\ AnchorInv) /\ [Next]_vars => (Typed /\ AnchorInv)'
      BY TypedStep, LiveStep, EarnedStep DEF AnchorInv
  <1> QED BY <1>1, <1>2, PTL DEF Spec, AnchorInv
=============================================================================
