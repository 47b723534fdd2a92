--------------------------- MODULE InPersonVouch ---------------------------
(***************************************************************************)
(* In-person vouching and its accountability (src/methods/social-vouching).*)
(*                                                                         *)
(* A voucher's phone shows an offer code, the newcomer's phone accepts it  *)
(* and shows a return code, the voucher's phone confirms it: ConfirmHandler*)
(* claims the offer and then commits the vouch, each under the store's     *)
(* mutex and with other calls in between.  Revoking a person gives everyone*)
(* who vouched for them a strike and a suspension (Penalize); reinstating  *)
(* takes exactly that back (Reinstate).  Handlers and revocations run side *)
(* by side.  The store is in memory, so its calls do not fail.             *)
(*                                                                         *)
(* Offering and accepting read before their one write, but nothing they    *)
(* read is written by the other steps without CommitVouch checking it      *)
(* again, so each is one step.  The trust graph, which only adds points to *)
(* a supplementary method, is left out with the vouches only it records:   *)
(* Trusted are the people whose graph score lets them vouch without an     *)
(* anchor.                                                                 *)
(***************************************************************************)
EXTENDS Integers, FiniteSets

CONSTANTS
  People,         \* holder DIDs
  Anchored,       \* those whose credential has a fresh anchor, old enough to
                  \*   vouch (MinVoucherAge)
  Trusted,        \* those whose graph trust is at least MinVoucherScore
  Newcomers,      \* those who accept offers and complete the ceremonies
  Offers,         \* offer codes
  Handlers,       \* concurrent calls of ConfirmHandler
  Workers,        \* concurrent calls of Penalize and Reinstate
  MaxPerPeriod, Period, OfferTTL, ReturnTTL, KeepFor, SuspendFor, VouchValidity,
  Required,       \* anchored vouchers the in-person-vouch anchor needs
  MaxAttempts,    \* maxReturnCodeAttempts
  MaxTime,
  Nobody, NoOffer

ASSUME PeopleAssumption ==
  /\ IsFiniteSet(People) /\ IsFiniteSet(Handlers)
  /\ Anchored \subseteq People /\ Trusted \subseteq People
  /\ Newcomers \subseteq People
  /\ Nobody \notin People /\ NoOffer \notin Offers
ASSUME ConfigAssumption ==
  /\ MaxPerPeriod \in Nat \ {0} /\ Period \in Nat \ {0}
  /\ OfferTTL \in Nat \ {0} /\ ReturnTTL \in Nat \ {0} /\ KeepFor \in Nat
  /\ SuspendFor \in Nat \ {0} /\ VouchValidity \in Nat \ {0}
  /\ Required \in Nat \ {0} /\ MaxAttempts \in Nat \ {0}
  /\ MaxTime \in Nat

VARIABLES
  now,
  offer,                         \* code -> Offer
  vouch,                         \* vouch[c][v]: when v vouched for c, or Never
  anchoredVouch,                 \* <<c, v>>: that vouch has VoucherAnchored
  vouchTimes,                    \* VoucherRecord.VouchTimes, as the candidates
                                 \*   those vouches were for
  strikes, suspendedUntil,       \* VoucherRecord
  revoked, penalized,            \* VoucherRecord.Revoked, .PenalizedVouchers
  hpc, hoffer, hat,              \* per confirm: step, offer, time
  wpc, target, list,             \* per Penalize: step, candidate, its vouchers
  passed,                        \* newcomers who completed in-person-vouch
  exchanged,                     \* history: <<c, v>> with a confirmed exchange
  slipped                        \* history: <<c, v>> committed while a Penalize
                                 \*   of c had read the vouches and not yet struck

storeVars   == <<vouch, anchoredVouch, vouchTimes>>
recordVars  == <<strikes, suspendedUntil, revoked, penalized>>
handlerVars == <<hpc, hoffer, hat>>
workerVars  == <<wpc, target, list>>
history     == <<exchanged, slipped>>
vars == <<now, offer, storeVars, recordVars, handlerVars, workerVars,
          passed, history>>

Never  == -1
States == {"unused", "open", "accepted", "confirmed", "burned", "deleted"}

OfferDocs == [state : States, voucher : People \cup {Nobody}, anchored : BOOLEAN,
              expires : Nat, candidate : People \cup {Nobody},
              returnExpiry : Nat, bad : Nat]
NoOfferDoc == [state |-> "unused", voucher |-> Nobody, anchored |-> FALSE,
               expires |-> 0, candidate |-> Nobody,
               returnExpiry |-> 0, bad |-> 0]

TypeOK ==
  /\ now \in Nat
  /\ offer \in [Offers -> OfferDocs]
  /\ vouch \in [People -> [People -> Nat \cup {Never}]]
  /\ anchoredVouch \in SUBSET (People \X People)
  /\ vouchTimes \in [People -> SUBSET People]
  /\ strikes \in [People -> Nat] /\ suspendedUntil \in [People -> Nat]
  /\ revoked \in SUBSET People /\ penalized \in [People -> SUBSET People]
  /\ hpc \in [Handlers -> {"idle", "count", "commit"}]
  /\ hoffer \in [Handlers -> Offers \cup {NoOffer}]
  /\ hat \in [Handlers -> Nat]
  /\ wpc \in [Workers -> {"idle", "penalize"}]
  /\ target \in [Workers -> People \cup {Nobody}]
  /\ list \in [Workers -> SUBSET People]
  /\ passed \in SUBSET People
  /\ exchanged \in SUBSET (People \X People) /\ slipped \in SUBSET (People \X People)

Init ==
  /\ now = 0
  /\ offer = [o \in Offers |-> NoOfferDoc]
  /\ vouch = [c \in People |-> [v \in People |-> Never]]
  /\ anchoredVouch = {}
  /\ vouchTimes = [v \in People |-> {}]
  /\ strikes = [v \in People |-> 0] /\ suspendedUntil = [v \in People |-> 0]
  /\ revoked = {} /\ penalized = [c \in People |-> {}]
  /\ hpc = [h \in Handlers |-> "idle"] /\ hoffer = [h \in Handlers |-> NoOffer]
  /\ hat = [h \in Handlers |-> 0]
  /\ wpc = [w \in Workers |-> "idle"] /\ target = [w \in Workers |-> Nobody]
  /\ list = [w \in Workers |-> {}]
  /\ passed = {} /\ exchanged = {} /\ slipped = {}

-----------------------------------------------------------------------------
(* OfferHandler: VerifyVoucherCredential, eligible, PutOffer.  The ban list*)
(* the verifier asks is written just before Penalize and may be read before*)
(* that, so only the store's own mark counts here.                         *)

(* The vouches of v that count at time t.                                  *)
InPeriod(v, t) == {c \in vouchTimes[v] : t - vouch[c][v] < Period}

(* Mutation: the quota is not checked at all.                              *)
AnyQuota(v, t) == TRUE

UnderQuota(v, t) == Cardinality(InPeriod(v, t)) < MaxPerPeriod

MayVouch(v, t) == v \notin revoked /\ t >= suspendedUntil[v]

(* gcOffers: what ended more than KeepFor ago is dropped.                  *)
Ends(o) == IF offer[o].returnExpiry > offer[o].expires THEN offer[o].returnExpiry
                                                       ELSE offer[o].expires
Stale(o) == offer[o].state # "unused" /\ now - Ends(o) > KeepFor

Offer(v, o) ==
  /\ offer[o].state = "unused"
  /\ MayVouch(v, now)
  /\ UnderQuota(v, now)
  /\ v \in Anchored \cup Trusted
  /\ offer' = [x \in Offers |->
       IF x = o THEN [NoOfferDoc EXCEPT !.state = "open", !.voucher = v,
                        !.anchored = v \in Anchored,
                        !.expires = now + OfferTTL]
       ELSE IF Stale(x) THEN [offer[x] EXCEPT !.state = "deleted"] ELSE offer[x]]
  /\ UNCHANGED <<now, storeVars, recordVars, handlerVars, workerVars,
                 passed, history>>

(* AcceptHandler, signed with the newcomer's key.                          *)
Accept(c, o) ==
  /\ c \notin revoked
  /\ offer[o].state = "open"
  /\ now <= offer[o].expires
  /\ offer[o].voucher # c
  /\ offer' = [offer EXCEPT ![o].state = "accepted", ![o].candidate = c,
                            ![o].returnExpiry = now + ReturnTTL]
  /\ UNCHANGED <<now, storeVars, recordVars, handlerVars, workerVars,
                 passed, history>>

-----------------------------------------------------------------------------
(* ConfirmHandler, signed with the voucher's key.  The return code exists  *)
(* once the offer is accepted; a call on an offer that is not accepted, or *)
(* too late, is refused and changes nothing.                               *)
Return(h) ==
  /\ hpc' = [hpc EXCEPT ![h] = "idle"] /\ hoffer' = [hoffer EXCEPT ![h] = NoOffer]
  /\ hat' = [hat EXCEPT ![h] = 0]

Claimable(o) == offer[o].state = "accepted" /\ now <= offer[o].returnExpiry

(* The first UpdateOffer, with the right code: the offer is claimed "in one*)
(* atomic step so a confirm can't be replayed".  The vouch will carry the  *)
(* time of this step.                                                      *)
Claim(h, o) ==
  /\ hpc[h] = "idle" /\ Claimable(o)
  /\ offer' = [offer EXCEPT ![o].state = "confirmed"]
  /\ exchanged' = exchanged \cup {<<offer[o].candidate, offer[o].voucher>>}
  /\ hpc' = [hpc EXCEPT ![h] = "commit"] /\ hoffer' = [hoffer EXCEPT ![h] = o]
  /\ hat' = [hat EXCEPT ![h] = now]
  /\ UNCHANGED <<now, storeVars, recordVars, workerVars, passed, slipped>>

(* The first UpdateOffer, with a wrong code: nothing is saved.             *)
ClaimWrong(h, o) ==
  /\ hpc[h] = "idle" /\ Claimable(o)
  /\ hpc' = [hpc EXCEPT ![h] = "count"] /\ hoffer' = [hoffer EXCEPT ![h] = o]
  /\ UNCHANGED <<now, offer, storeVars, recordVars, hat, workerVars,
                 passed, history>>

(* Mutation: the offer is never burned.                                    *)
NeverBurned(o) == offer[o].state

(* After maxReturnCodeAttempts wrong codes the offer is burned.            *)
AfterWrong(o) == IF offer[o].bad + 1 >= MaxAttempts THEN "burned" ELSE offer[o].state

(* The second UpdateOffer counts the wrong code, whatever the offer's      *)
(* state is by now; a deleted offer is left alone.                         *)
CountWrong(h) ==
  LET o == hoffer[h] IN
  /\ hpc[h] = "count"
  /\ offer' = IF offer[o].state = "deleted" THEN offer
              ELSE [offer EXCEPT ![o].bad = @ + 1, ![o].state = AfterWrong(o)]
  /\ Return(h)
  /\ UNCHANGED <<now, storeVars, recordVars, workerVars, passed, history>>

(* CommitVouch: every condition again, under the store's mutex.  Only the  *)
(* vouches inside the period are kept.                                     *)
Committable(c, v, t) ==
  /\ c \notin revoked /\ MayVouch(v, t)
  /\ vouch[c][v] = Never
  /\ UnderQuota(v, t)

CommitVouch(h) ==
  LET o == hoffer[h]  c == offer[o].candidate  v == offer[o].voucher IN
  /\ hpc[h] = "commit"
  /\ \/ /\ Committable(c, v, hat[h])
        /\ vouch' = [vouch EXCEPT ![c][v] = hat[h]]
        /\ anchoredVouch' = IF offer[o].anchored THEN anchoredVouch \cup {<<c, v>>}
                                                 ELSE anchoredVouch
        /\ vouchTimes' = [vouchTimes EXCEPT ![v] = InPeriod(v, hat[h]) \cup {c}]
        /\ slipped' = IF \E w \in Workers : target[w] = c
                        THEN slipped \cup {<<c, v>>} ELSE slipped
     \/ ~ Committable(c, v, hat[h]) /\ UNCHANGED <<storeVars, slipped>>
  /\ Return(h)
  /\ UNCHANGED <<now, offer, recordVars, workerVars, passed, exchanged>>

-----------------------------------------------------------------------------
(* The anchor: CompleteCeremony of in-person-vouch.                        *)

(* Mutation: every vouch counts, anchored or not.                          *)
AllVouchers(c) == {v \in People : vouch[c][v] # Never}

AnchorVouchers(c) ==
  {v \in People : /\ <<c, v>> \in anchoredVouch
                  /\ now - vouch[c][v] <= VouchValidity
                  /\ v \notin revoked}

CompleteAnchor(c) ==
  /\ c \notin revoked
  /\ Cardinality(AnchorVouchers(c)) >= Required
  /\ passed' = passed \cup {c}
  /\ UNCHANGED <<now, offer, storeVars, recordVars, handlerVars,
                 workerVars, history>>

-----------------------------------------------------------------------------
(* Mutation: only the vouches that count for the anchor are read.          *)
AnchoredVouchersOf(c) == {v \in People : <<c, v>> \in anchoredVouch}

(* VouchesFor: who vouched for c.                                          *)
VouchersOf(c) == {v \in People : vouch[c][v] # Never}

(* Penalize, called by revokeHolder: reads the vouches, then strikes.      *)
ReadVouchers(w, c) ==
  /\ wpc[w] = "idle"
  /\ wpc' = [wpc EXCEPT ![w] = "penalize"] /\ target' = [target EXCEPT ![w] = c]
  /\ list' = [list EXCEPT ![w] = VouchersOf(c)]
  /\ UNCHANGED <<now, offer, storeVars, recordVars, handlerVars, passed, history>>

End(w) ==
  /\ wpc' = [wpc EXCEPT ![w] = "idle"] /\ target' = [target EXCEPT ![w] = Nobody]
  /\ list' = [list EXCEPT ![w] = {}]

(* Mutation: a repeated report strikes again.                              *)
NeverRevoked(c) == FALSE

AlreadyRevoked(c) == c \in revoked

(* SuspendFor for each strike, this one included, and never shortened.     *)
Suspension(v) ==
  LET until == now + SuspendFor * (strikes[v] + 1) IN
  IF until > suspendedUntil[v] THEN until ELSE suspendedUntil[v]

(* Store.Penalize, under its mutex; a second report changes nothing.       *)
StorePenalize(w) ==
  LET c == target[w]  L == list[w] \ {c} IN
  /\ wpc[w] = "penalize"
  /\ \/ AlreadyRevoked(c) /\ UNCHANGED recordVars
     \/ /\ ~ AlreadyRevoked(c)
        /\ revoked' = revoked \cup {c}
        /\ penalized' = [penalized EXCEPT ![c] = @ \cup L]
        /\ strikes' = [v \in People |-> IF v \in L THEN strikes[v] + 1 ELSE strikes[v]]
        /\ suspendedUntil' = [v \in People |-> IF v \in L THEN Suspension(v)
                                                          ELSE suspendedUntil[v]]
  /\ End(w)
  /\ UNCHANGED <<now, offer, storeVars, handlerVars, passed, history>>

(* A voucher left without a strike is no longer suspended.                 *)
SuspensionAfter(v) == IF strikes[v] <= 1 THEN 0 ELSE suspendedUntil[v]

(* Reinstate, called by the operator's reinstatement.                      *)
Reinstate(c) ==
  /\ c \in revoked
  /\ revoked' = revoked \ {c}
  /\ penalized' = [penalized EXCEPT ![c] = {}]
  /\ strikes' = [v \in People |-> IF v \in penalized[c] /\ strikes[v] > 0
                                    THEN strikes[v] - 1 ELSE strikes[v]]
  /\ suspendedUntil' = [v \in People |-> IF v \in penalized[c] THEN SuspensionAfter(v)
                                                               ELSE suspendedUntil[v]]
  /\ UNCHANGED <<now, offer, storeVars, handlerVars, workerVars, passed, history>>

Tick ==
  /\ now < MaxTime
  /\ now' = now + 1
  /\ UNCHANGED <<offer, storeVars, recordVars, handlerVars, workerVars,
                 passed, history>>

Next ==
  \/ \E v \in People, o \in Offers : Offer(v, o)
  \/ \E c \in Newcomers, o \in Offers : Accept(c, o)
  \/ \E h \in Handlers :
       \/ \E o \in Offers : Claim(h, o) \/ ClaimWrong(h, o)
       \/ CountWrong(h) \/ CommitVouch(h)
  \/ \E c \in Newcomers : CompleteAnchor(c)
  \/ \E w \in Workers :
       \/ \E c \in Newcomers : ReadVouchers(w, c)
       \/ StorePenalize(w)
  \/ \E c \in Newcomers : Reinstate(c)
  \/ Tick

Spec == Init /\ [][Next]_vars

-----------------------------------------------------------------------------
(* A strike is one revoked person: a voucher's strikes are exactly the     *)
(* revoked people whose revocation struck it, whatever revocations,        *)
(* repeated reports and reinstatements happened ("so Reinstate can take    *)
(* exactly those strikes back").                                           *)
StrikesMatch ==
  \A v \in People : strikes[v] = Cardinality({c \in People : v \in penalized[c]})

(* A voucher is suspended exactly while it has a strike: a reinstatement   *)
(* never leaves a suspension without a strike, nor lifts the one another   *)
(* strike justifies.                                                       *)
SuspendedIffStruck == \A v \in People : suspendedUntil[v] = 0 <=> strikes[v] = 0

(* Both: the account of strikes and what it costs (StorePenalize,          *)
(* Reinstate).                                                             *)
StrikesAccount == StrikesMatch /\ SuspendedIffStruck

(* "two confirms racing for a voucher's last vouch may not both succeed":  *)
(* in the period that ends now a voucher gave at most MaxPerPeriod vouches,*)
(* although a confirm commits with the time it read earlier.               *)
QuotaHolds ==
  \A v \in People :
    Cardinality({c \in People : vouch[c][v] # Never /\ now - vouch[c][v] < Period})
      <= MaxPerPeriod

(* "so the 40-bit code cannot be guessed online": wrong codes are compared *)
(* and counted in two steps, so an offer sees at most MaxAttempts of them  *)
(* and one more for each further handler at work.                          *)
Guesses(o) == offer[o].bad + Cardinality({h \in Handlers : hpc[h] = "count" /\ hoffer[h] = o})
GuessesAreBounded ==
  \A o \in Offers : Guesses(o) <= MaxAttempts + Cardinality(Handlers) - 1

(* The anchor is granted only to someone who completed a live exchange     *)
(* with that many distinct anchored vouchers.                              *)
AnchorIsEarned ==
  \A c \in passed : Cardinality({v \in Anchored : <<c, v>> \in exchanged}) >= Required

(* "for every voucher who vouched for the candidate ... adds a strike": an *)
(* in-person voucher of a revoked person bears its strike unless it        *)
(* vouched while the revocation was between reading and striking.          *)
VouchersPay ==
  \A c \in revoked : \A v \in People :
    vouch[c][v] # Never => v \in penalized[c] \/ <<c, v>> \in slipped
=============================================================================
