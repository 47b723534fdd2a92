---------------------------- MODULE SocialGraph -----------------------------
(***************************************************************************)
(* The trust graph of social vouching (src/methods/social-vouching):       *)
(* members vouch for candidates, a candidate with enough vouches becomes a *)
(* member with a trust of its own, and a member proven fake is removed and *)
(* costs those who vouched for it part of their trust, until an operator   *)
(* reinstates it.                                                          *)
(*                                                                         *)
(* Every operation of the in-memory graph is one step under its mutex; the *)
(* handlers read in one step and write in a later one, and nothing orders  *)
(* them.  Trust is a number of parts out of Full, rounded down.            *)
(*                                                                         *)
(* Left out: the proof on a vouch of the development route, the meeting    *)
(* behind an in-person vouch and its quotas and suspensions (module        *)
(* InPersonVouch), and a restart, which empties everything at once.        *)
(***************************************************************************)
EXTENDS Integers, Sequences, FiniteSets, FiniteSetsExt

CONSTANTS
  Seeds,             \* SOCIAL_VOUCHING_SEED_IDS
  Anchored,          \* holders with an anchor, who vouch in person
  Candidates,        \* who may become a member or be revoked
  SocialCalls,       \* requests in flight
  RequiredVouches, RequiredScore, MinVoucherScore,
  Full,              \* the trust 1.0
  MaxSocialCalls,    \* bound of the model: requests
  NoTrust            \* absent

ASSUME SocialBounds ==
  /\ RequiredVouches \in Nat \ {0} /\ {RequiredScore, MinVoucherScore, MaxSocialCalls} \subseteq Nat
  /\ Full \in Nat \ {0}
  /\ Seeds \cap Anchored = {} /\ Candidates \cap Anchored = {}

Ids      == Seeds \cup Anchored \cup Candidates
Vouchers == Ids

(* Absent is no weight, and a weight halved is a weight, whatever the      *)
(* strikes of the voucher.                                                 *)
ASSUME NoTrustIsNoWeight ==
  /\ IsFiniteSet(Seeds) /\ IsFiniteSet(Anchored) /\ IsFiniteSet(Candidates) /\ NoTrust \notin Nat
  /\ \A n \in 0..Cardinality(Candidates) : Full \div 2^n \in 0..Full

VARIABLES
  trust,       \* the trust of each member
  vouches,     \* the weight of each vouch: candidate, voucher
  met,         \* the in-person vouches of the in-person store
  struck,      \* the revoked candidates, with the vouchers struck for each
  socialCall, socialCalls,
  \* What happened, for the properties.
  joined,      \* members that were admitted, in the order they first were
  firstBackers, lastBackers,   \* whose vouches counted then, and the last time
  overlapped   \* members written while they were being removed

socialVars == <<trust, vouches, met, struck, socialCall, socialCalls, joined, firstBackers, lastBackers, overlapped>>

SocialInit ==
  /\ trust = [i \in Ids |-> IF i \in Seeds THEN Full ELSE NoTrust]
  /\ vouches = [c \in Candidates |-> [v \in Vouchers |-> NoTrust]]
  /\ met = [c \in Candidates |-> {}] /\ struck = [c \in Candidates |-> NoTrust]
  /\ socialCall = [k \in SocialCalls |-> NoTrust] /\ socialCalls = 0
  /\ joined = <<>> /\ firstBackers = [c \in Candidates |-> {}] /\ lastBackers = [c \in Candidates |-> {}]
  /\ overlapped = {}

(* A request arrives; what it has read is what it works on.                *)
Arrives(k, call) ==
  /\ socialCall[k] = NoTrust /\ socialCalls < MaxSocialCalls
  /\ socialCall' = [socialCall EXCEPT ![k] = call]
  /\ socialCalls' = socialCalls + 1

At(k, op) == socialCall[k] # NoTrust /\ socialCall[k].op = op
Becomes(k, call) == socialCall' = [socialCall EXCEPT ![k] = call] /\ UNCHANGED socialCalls

-----------------------------------------------------------------------------
(* Vouching.                                                               *)

(* Mutation: the voucher need not be a member.                             *)
AnyVoucher(v) == TRUE
KnownVoucher(v) == trust[v] # NoTrust

Parts(t) == IF t = NoTrust THEN 0 ELSE t

(* VouchHandler: TrustOf, and no vouch for oneself.                        *)
VouchReads(k, v, c) ==
  /\ KnownVoucher(v) /\ v # c
  /\ Arrives(k, [op |-> "record", inPerson |-> FALSE, voucher |-> v, candidate |-> c, weight |-> Parts(trust[v])])
  /\ UNCHANGED <<trust, vouches, met, struck, joined, firstBackers, lastBackers, overlapped>>

Strikes(v) == Cardinality({c \in Candidates : struck[c] # NoTrust /\ v \in struck[c]})
Revoked(i) == i \in Candidates /\ struck[i] # NoTrust

(* eligible, when the offer is made: an anchored voucher weighs Full,      *)
(* halved at each strike; any other needs enough trust.                    *)
OfferReads(k, v, c) ==
  /\ ~Revoked(v) /\ v # c
  /\ v \notin Anchored => trust[v] # NoTrust /\ trust[v] >= MinVoucherScore
  /\ Arrives(k, [op |-> "record", inPerson |-> TRUE, voucher |-> v, candidate |-> c,
                 weight |-> IF v \in Anchored THEN Full \div 2^Strikes(v) ELSE trust[v]])
  /\ UNCHANGED <<trust, vouches, met, struck, joined, firstBackers, lastBackers, overlapped>>

(* An in-person vouch is committed to the in-person store first.           *)
CommitVouch(k) ==
  /\ At(k, "record") /\ socialCall[k].inPerson
  /\ LET call == socialCall[k]
     IN IF Revoked(call.voucher) \/ Revoked(call.candidate)
        THEN Becomes(k, NoTrust) /\ UNCHANGED met
        ELSE /\ Becomes(k, [call EXCEPT !.inPerson = FALSE])
             /\ met' = [met EXCEPT ![call.candidate] = @ \cup {call.voucher}]
  /\ UNCHANGED <<trust, vouches, struck, joined, firstBackers, lastBackers, overlapped>>

RecordVouch(k) ==
  /\ At(k, "record") /\ ~socialCall[k].inPerson
  /\ vouches' = [vouches EXCEPT ![socialCall[k].candidate][socialCall[k].voucher] = socialCall[k].weight]
  /\ Becomes(k, NoTrust)
  /\ UNCHANGED <<trust, met, struck, joined, firstBackers, lastBackers, overlapped>>

-----------------------------------------------------------------------------
(* CompleteCeremony.                                                       *)

VouchesFor(c) == {v \in Vouchers : vouches[c][v] # NoTrust}
Score(c) == MapThenSumSet(LAMBDA v : vouches[c][v], VouchesFor(c))

EnoughVouches(c) == Cardinality(VouchesFor(c)) >= RequiredVouches /\ Score(c) >= RequiredScore

(* Three quarters of the average weight.                                   *)
CandidateTrust(c) == (3 * Score(c)) \div (4 * Cardinality(VouchesFor(c)))

CompleteReads(k, c) ==
  /\ EnoughVouches(c)
  /\ Arrives(k, [op |-> "enroll", id |-> c, trust |-> CandidateTrust(c), backers |-> VouchesFor(c)])
  /\ UNCHANGED <<trust, vouches, met, struck, joined, firstBackers, lastBackers, overlapped>>

Enroll(i, t) == trust' = [trust EXCEPT ![i] = t]

CompleteEnrolls(k) ==
  /\ At(k, "enroll")
  /\ LET call == socialCall[k]
         new  == call.id \notin {joined[n] : n \in DOMAIN joined}
     IN /\ Enroll(call.id, call.trust)
        /\ joined' = IF new THEN Append(joined, call.id) ELSE joined
        /\ firstBackers' = IF new THEN [firstBackers EXCEPT ![call.id] = call.backers] ELSE firstBackers
        /\ lastBackers' = [lastBackers EXCEPT ![call.id] = call.backers]
  /\ Becomes(k, NoTrust)
  /\ UNCHANGED <<vouches, met, struck, overlapped>>

-----------------------------------------------------------------------------
(* Penalize and Reinstate.                                                 *)

PenalizeReads(k, c) ==
  /\ Arrives(k, [op |-> "strike", candidate |-> c, vouchers |-> met[c] \cup VouchesFor(c)])
  /\ UNCHANGED <<trust, vouches, met, struck, joined, firstBackers, lastBackers, overlapped>>

(* The store penalizes a candidate once.                                   *)
Strike(k) ==
  /\ At(k, "strike")
  /\ LET call == socialCall[k]
     IN IF Revoked(call.candidate) THEN Becomes(k, NoTrust) /\ UNCHANGED struck
        ELSE /\ struck' = [struck EXCEPT ![call.candidate] = call.vouchers]
             /\ Becomes(k, [call EXCEPT !.op = "remove"])
  /\ UNCHANGED <<trust, vouches, met, joined, firstBackers, lastBackers, overlapped>>

Writing(i) ==
  \E k \in SocialCalls : \/ At(k, "enroll") /\ socialCall[k].id = i
                         \/ At(k, "write") /\ socialCall[k].id = i

(* Mutation: the vouches go and the trust stays.                           *)
KeepsTrust(c) == UNCHANGED trust
DropsTrust(c) == trust' = [trust EXCEPT ![c] = NoTrust]

Remove(k) ==
  /\ At(k, "remove")
  /\ LET c == socialCall[k].candidate
     IN /\ DropsTrust(c) /\ vouches' = [vouches EXCEPT ![c] = [v \in Vouchers |-> NoTrust]]
        /\ overlapped' = IF Writing(c) THEN overlapped \cup {c} ELSE overlapped
        /\ Becomes(k, [op |-> "adjust", lower |-> TRUE, vouchers |-> socialCall[k].vouchers])
  /\ UNCHANGED <<met, struck, joined, firstBackers, lastBackers>>

ReinstateReads(k, c) ==
  /\ Revoked(c)
  /\ Arrives(k, [op |-> "adjust", lower |-> FALSE, vouchers |-> struck[c]])
  /\ struck' = [struck EXCEPT ![c] = NoTrust]
  /\ UNCHANGED <<trust, vouches, met, joined, firstBackers, lastBackers, overlapped>>

Restored(t) == IF 2 * t > Full THEN Full ELSE 2 * t

(* Each voucher in turn, in any order: its trust is read ...               *)
AdjustReads(k) ==
  /\ At(k, "adjust")
  /\ LET call == socialCall[k]
     IN \/ call.vouchers = {} /\ Becomes(k, NoTrust)
        \/ \E v \in call.vouchers :
             LET rest == [call EXCEPT !.vouchers = @ \ {v}]
             IN Becomes(k, IF trust[v] = NoTrust THEN rest
                           ELSE [op |-> "write", id |-> v, rest |-> rest,
                                 trust |-> IF call.lower THEN trust[v] \div 2 ELSE Restored(trust[v])])
  /\ UNCHANGED <<trust, vouches, met, struck, joined, firstBackers, lastBackers, overlapped>>

(* ... and written.                                                        *)
AdjustWrites(k) ==
  /\ At(k, "write")
  /\ Enroll(socialCall[k].id, socialCall[k].trust)
  /\ Becomes(k, socialCall[k].rest)
  /\ UNCHANGED <<vouches, met, struck, joined, firstBackers, lastBackers, overlapped>>

SocialNext ==
  \E k \in SocialCalls :
    \/ \E c \in Candidates :
         \/ \E v \in Vouchers : VouchReads(k, v, c) \/ OfferReads(k, v, c)
         \/ CompleteReads(k, c) \/ PenalizeReads(k, c) \/ ReinstateReads(k, c)
    \/ CommitVouch(k) \/ RecordVouch(k) \/ CompleteEnrolls(k) \/ Strike(k) \/ Remove(k)
    \/ AdjustReads(k) \/ AdjustWrites(k)

SocialSpec == SocialInit /\ [][SocialNext]_socialVars

-----------------------------------------------------------------------------
(* Properties.                                                             *)

(* Trust never leaves its range, whatever is penalized and reinstated.     *)
SocialTypeOK ==
  /\ \A i \in Ids : trust[i] = NoTrust \/ trust[i] \in 0..Full
  /\ \A c \in Candidates, v \in Vouchers : vouches[c][v] = NoTrust \/ vouches[c][v] \in 0..Full
  /\ met \in [Candidates -> SUBSET Vouchers]

(* Nobody gets in without people who were in before: a member that is not  *)
(* a seed was admitted on enough distinct vouches, none its own, and those *)
(* behind its first admission are seeds, anchored holders or members       *)
(* admitted earlier, also when vouches, completions and penalties of the   *)
(* same people overlap.  So no group of newcomers admits itself.           *)
RootedInSeeds ==
  \A c \in Candidates \ Seeds : trust[c] # NoTrust =>
    /\ Cardinality(lastBackers[c]) >= RequiredVouches /\ c \notin lastBackers[c]
    /\ \E n \in DOMAIN joined :
         /\ joined[n] = c
         /\ firstBackers[c] \subseteq Seeds \cup Anchored \cup {joined[m] : m \in 1..(n - 1)}

(* "When a person is proven a duplicate or a cheater, the people who       *)
(* vouched for them pay": whoever counts for a member's trust is on record *)
(* as its voucher, so that Penalize finds them all, unless the member was  *)
(* written by a call that overlapped its own removal.                      *)
BackersAnswer ==
  \A c \in Candidates \ (Seeds \cup overlapped) :
    trust[c] # NoTrust => lastBackers[c] \subseteq VouchesFor(c)
=============================================================================
