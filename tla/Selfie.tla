------------------------------- MODULE Selfie -------------------------------
(***************************************************************************)
(* The selfie anchor (methods/fuzzy-extractor-selfie and                   *)
(* server/accumulator_store.go): a ceremony in the browser or in the       *)
(* native wallet, and the accumulator of enrolled faces.                   *)
(*                                                                         *)
(* The issuer keeps no state between begin and complete: the challenge     *)
(* token carries its time, its challenges and a MAC, and may be sent again *)
(* and to either method.  A MAC, a hash and a signature are records of     *)
(* what they cover, so that a client can pass on the ones it has seen and  *)
(* make no others.                                                         *)
(*                                                                         *)
(* Templates, seeds and helper data are bit strings.  The code has 15 bits *)
(* to a block, 17 blocks, bytes of 8 bits; here these are constants.       *)
(*                                                                         *)
(* Left out: encodings and their size limits; the scores of motion.go,     *)
(* which may refuse a native ceremony at any time and accept nothing by    *)
(* themselves; what a match leads to (module Recovery); the certificates   *)
(* of a device key (module DeviceAttest).                                  *)
(***************************************************************************)
EXTENDS Integers, Sequences, FiniteSets

CONSTANTS
  ByteBits, TemplateBytes, BlockBits,
  ChallengeKinds, ChallengeCount,
  MinChallengeMS, MaxChallengeMS, MinCeremony, MaxCeremony,
  SelfieDeployments,   \* a sequence of [store, native, readings, sessions,
                       \*   begins, restarts, until]: what may be deployed, the
                       \*   templates that clients compute, and bounds of the
                       \*   model
  SelfieCalls,
  MaxSelfieTime, MaxFaces, MaxSigned,   \* bounds of the model
  NoneSelfie           \* absent

templateBits == TemplateBytes * ByteBits
numBlocks == templateBits \div BlockBits
usedBits == numBlocks * BlockBits
RoundUp(bits) == ((bits + ByteBits - 1) \div ByteBits) * ByteBits
MaxResidualBits == usedBits \div 4

ASSUME SelfieAssumption ==
  /\ \A n \in {ByteBits, TemplateBytes, BlockBits, ChallengeCount} : n \in Nat \ {0}
  /\ BlockBits % 2 = 1 /\ numBlocks > 0
  /\ \A n \in {MinChallengeMS, MaxChallengeMS, MinCeremony, MaxCeremony, MaxSelfieTime,
               MaxFaces, MaxSigned} : n \in Nat

BitStrings(n) == [0..(n - 1) -> {0, 1}]
Templates == BitStrings(templateBits)

ASSUME DeploymentsAssumption ==
  /\ \A d \in DOMAIN SelfieDeployments : SelfieDeployments[d].readings \subseteq Templates
  /\ NoneSelfie \notin SelfieCalls \cup BitStrings(RoundUp(numBlocks))

VARIABLES
  setup,         \* the number of the deployment
  liveKey,       \* LivenessConfig.Key: drawn anew by each process
  tokens,        \* the tokens handed out, and to which session
  signed,        \* what phones signed: the challenge of the key, the summary
  enrollCall,    \* the completions that passed their checks
  enrollMu,      \* the mutex: the call that holds it
  enrolled,      \* the accumulator, in the order of its records; "of", the
                 \*   template a record was made from, is not stored
  selfieTime,
  selfieResults  \* history: the successes

selfieVars == <<setup, liveKey, tokens, signed, enrollCall, enrollMu, enrolled, selfieTime,
                selfieResults>>

Deploy == SelfieDeployments[setup]

-----------------------------------------------------------------------------
(* The fuzzy extractor.                                                    *)

xorBytes(a, b) == [i \in DOMAIN a \cap DOMAIN b |-> (a[i] + b[i]) % 2]
hammingDistance(a, b) == Cardinality({i \in DOMAIN a : a[i] # b[i]})

(* A hash of the seed: as good as the seed.                                *)
commitmentFromSeed(seed) == seed

(* Each bit of the seed is repeated; the bits after the last block are 0.  *)
expandSeed(seed) ==
  [i \in 0..(RoundUp(usedBits) - 1) |-> IF i < usedBits THEN seed[i \div BlockBits] ELSE 0]

Ones(x, block) == {i \in (block * BlockBits)..((block + 1) * BlockBits - 1) : x[i] = 1}
majorityDecode(x) ==
  [b \in 0..(RoundUp(numBlocks) - 1) |->
     IF b < numBlocks /\ 2 * Cardinality(Ones(x, b)) > BlockBits THEN 1 ELSE 0]

clearPaddingBits(seed) == [i \in DOMAIN seed |-> IF i < numBlocks THEN seed[i] ELSE 0]

Gen(template, random) ==
  LET seed == clearPaddingBits(random)
  IN [helper |-> xorBytes(template, expandSeed(seed)), commitment |-> commitmentFromSeed(seed),
      of |-> template]

Rep(template, helper) ==
  LET x == xorBytes(template, helper)
      guess == majorityDecode(x)
  IN IF hammingDistance(x, expandSeed(guess)) > MaxResidualBits THEN NoneSelfie
     ELSE commitmentFromSeed(guess)

Matches(template, rec) == Rep(template, rec.helper) = rec.commitment

-----------------------------------------------------------------------------
(* Tokens and liveness.                                                    *)

Orders == {o \in [1..ChallengeCount -> ChallengeKinds] :
             \A i, j \in 1..ChallengeCount : o[i] = o[j] => i = j}

EnrollCalls ==
  [at : {"find", "add"}, session : UNION {SelfieDeployments[d].sessions : d \in DOMAIN SelfieDeployments},
   method : {"web", "native"}, template : Templates, order : Orders, checked : Nat]

ASSUME NoneSelfieIsNoCall == NoneSelfie \notin EnrollCalls

(* Mutation: the MAC does not cover the session.                           *)
MacOfBody(session, body) == [key |-> liveKey, session |-> NoneSelfie, body |-> body]
mac(session, body) == [key |-> liveKey, session |-> session, body |-> body]

issueToken(session, order) ==
  LET body == [at |-> selfieTime, order |-> order]
  IN [body |-> body, mac |-> mac(session, body)]

openToken(session, token) == token.mac = mac(session, token.body)

(* What the client says of its ceremony: challenges and how long each took.*)
Evidence(order) == [kinds : {order}, ms : [1..ChallengeCount -> 0..MaxSelfieTime]]

Total(ms) ==
  LET upTo[n \in 0..ChallengeCount] == IF n = 0 THEN 0 ELSE upTo[n - 1] + ms[n]
  IN upTo[ChallengeCount]

checkLiveness(session, token, ev) ==
  LET elapsed == selfieTime - token.body.at
  IN /\ openToken(session, token)
     /\ elapsed >= MinCeremony /\ elapsed <= MaxCeremony
     /\ ev.kinds = token.body.order
     /\ \A i \in 1..ChallengeCount : ev.ms[i] >= MinChallengeMS /\ ev.ms[i] <= MaxChallengeMS
     /\ Total(ev.ms) <= elapsed

(* The tokens that clients have.                                           *)
Seen == {x.token : x \in tokens}

attestationChallenge(session, token) == [session |-> session, token |-> token]

(* A device key made for the challenge signed exactly this summary.        *)
SignedSummary(challenge, sum) == [challenge |-> challenge, sum |-> sum] \in signed

-----------------------------------------------------------------------------
SelfieInit ==
  /\ setup \in DOMAIN SelfieDeployments
  /\ liveKey = 0 /\ tokens = {} /\ signed = {} /\ enrolled = <<>>
  /\ enrollCall = [c \in SelfieCalls |-> NoneSelfie] /\ enrollMu = NoneSelfie
  /\ selfieTime = 0 /\ selfieResults = {}

(* BeginCeremony, of either method.                                        *)
BeginSelfie(s, order) ==
  /\ Cardinality(tokens) < Deploy.begins
  /\ tokens' = tokens \cup {[to |-> s, token |-> issueToken(s, order)]}
  /\ UNCHANGED <<setup, liveKey, signed, enrollCall, enrollMu, enrolled, selfieTime, selfieResults>>

(* The genuine wallet on a genuine phone makes a key for the challenge it  *)
(* is told and signs the ceremony it ran; whoever is between it and the    *)
(* issuer may have told it any session, token and challenge.               *)
RunNative(s, token, challenge, template) ==
  /\ Deploy.native /\ Cardinality(signed) < MaxSigned
  /\ signed' = signed \cup {[challenge |-> challenge,
                             sum |-> [session |-> s, token |-> token, template |-> template]]}
  /\ UNCHANGED <<setup, liveKey, tokens, enrollCall, enrollMu, enrolled, selfieTime, selfieResults>>

Enters(c, s, method, template, order) ==
  enrollCall' = [enrollCall EXCEPT ![c] =
    [at |-> "find", session |-> s, method |-> method, template |-> template, order |-> order,
     checked |-> selfieTime]]

Spare == Len(enrolled) + Cardinality({c \in SelfieCalls : enrollCall[c] # NoneSelfie}) < MaxFaces

CompleteWeb(c, s) ==
  /\ enrollCall[c] = NoneSelfie /\ Spare
  /\ \E token \in Seen, order \in Orders :
       /\ \E ev \in Evidence(order) : checkLiveness(s, token, ev)
       /\ \E template \in Deploy.readings : Enters(c, s, "web", template, order)
  /\ UNCHANGED <<setup, liveKey, tokens, signed, enrollMu, enrolled, selfieTime, selfieResults>>

(* The checks of the browser's ceremony are made on what was signed.       *)
CompleteNative(c, s) ==
  /\ Deploy.native /\ enrollCall[c] = NoneSelfie /\ Spare
  /\ \E token \in Seen, template \in Deploy.readings, order \in Orders :
       /\ SignedSummary(attestationChallenge(s, token),
                        [session |-> s, token |-> token, template |-> template])
       /\ \E ev \in Evidence(order) : checkLiveness(s, token, ev)
       /\ Enters(c, s, "native", template, order)
  /\ UNCHANGED <<setup, liveKey, tokens, signed, enrollMu, enrolled, selfieTime, selfieResults>>

-----------------------------------------------------------------------------
(* enroll, under the mutex.                                                *)

Ends(c) == enrollCall' = [enrollCall EXCEPT ![c] = NoneSelfie]

MutexFreed(c) == enrollMu' = NoneSelfie

(* Mutation: the mutex is not taken.                                       *)
AnyTime(c) == TRUE
MutexFree(c) == enrollMu = NoneSelfie

(* FindDuplicate reads the whole set.  A match, a corrupt record or a      *)
(* store that fails ends the call.                                         *)
FindFace(c) ==
  /\ enrollCall[c] # NoneSelfie /\ enrollCall[c].at = "find" /\ MutexFree(c)
  /\ \/ Deploy.store # "memory" /\ Ends(c) /\ UNCHANGED enrollMu
     \/ /\ \E i \in DOMAIN enrolled : Matches(enrollCall[c].template, enrolled[i])
        /\ Ends(c) /\ MutexFreed(c)
     \/ /\ \A i \in DOMAIN enrolled : ~Matches(enrollCall[c].template, enrolled[i])
        /\ enrollCall' = [enrollCall EXCEPT ![c].at = "add"]
        /\ enrollMu' = c
  /\ UNCHANGED <<setup, liveKey, tokens, signed, enrolled, selfieTime, selfieResults>>

(* Firestore creates a document under the commitment; the others append.   *)
Creates(rec) ==
  Deploy.store = "firestore" => \A i \in DOMAIN enrolled : enrolled[i].commitment # rec.commitment

(* A write of a shared store that is answered with an error may have       *)
(* landed.                                                                 *)
AddSelfie(c) ==
  /\ enrollCall[c] # NoneSelfie /\ enrollCall[c].at = "add"
  /\ \E random \in BitStrings(RoundUp(numBlocks)) :
       LET call == enrollCall[c]
           rec == Gen(call.template, random)
       IN \/ /\ Creates(rec)
             /\ enrolled' = Append(enrolled, rec)
             /\ selfieResults' = selfieResults \cup
                  {[session |-> call.session, method |-> call.method, template |-> call.template,
                    order |-> call.order, checked |-> call.checked]}
          \/ /\ Deploy.store # "memory"
             /\ enrolled' \in {enrolled} \cup {Append(enrolled, r) : r \in {x \in {rec} : Creates(x)}}
             /\ UNCHANGED selfieResults
  /\ Ends(c) /\ enrollMu' = NoneSelfie
  /\ UNCHANGED <<setup, liveKey, tokens, signed, selfieTime>>

-----------------------------------------------------------------------------
(* A restart draws a new key, so ceremonies in flight fail, and a server   *)
(* without a store forgets the faces.                                      *)
SelfieRestart ==
  /\ liveKey < Deploy.restarts /\ liveKey' = liveKey + 1
  /\ enrollCall' = [c \in SelfieCalls |-> NoneSelfie] /\ enrollMu' = NoneSelfie
  /\ enrolled' = IF Deploy.store = "memory" THEN <<>> ELSE enrolled
  /\ UNCHANGED <<setup, tokens, signed, selfieTime, selfieResults>>

SelfieTick ==
  /\ selfieTime < Deploy.until /\ selfieTime' = selfieTime + 1
  /\ UNCHANGED <<setup, liveKey, tokens, signed, enrollCall, enrollMu, enrolled, selfieResults>>

SelfieNext ==
  \/ \E s \in Deploy.sessions : \E order \in Orders : BeginSelfie(s, order)
  \/ \E s, t \in Deploy.sessions : \E token, other \in Seen : \E template \in Deploy.readings :
       RunNative(s, token, attestationChallenge(t, other), template)
  \/ \E c \in SelfieCalls, s \in Deploy.sessions : CompleteWeb(c, s) \/ CompleteNative(c, s)
  \/ \E c \in SelfieCalls : FindFace(c) \/ AddSelfie(c)
  \/ SelfieRestart \/ SelfieTick

SelfieSpec == SelfieInit /\ [][SelfieNext]_selfieVars

-----------------------------------------------------------------------------
(* Properties.                                                             *)

SelfieTypeOK ==
  /\ enrollCall \in [SelfieCalls -> EnrollCalls \cup {NoneSelfie}]
  /\ enrollMu # NoneSelfie => enrollCall[enrollMu] # NoneSelfie /\ enrollCall[enrollMu].at = "add"
  /\ \A i \in DOMAIN enrolled : /\ enrolled[i].commitment \in BitStrings(RoundUp(numBlocks))
                                /\ enrolled[i].helper \in BitStrings(RoundUp(usedBits))

(* Two templates are one face when no block of them differs by a majority  *)
(* and all the bits kept differ by at most the budget.                     *)
OneFace(t, u) ==
  /\ \A b \in 0..(numBlocks - 1) : 2 * Cardinality(Ones(xorBytes(t, u), b)) < BlockBits
  /\ Cardinality({i \in 0..(RoundUp(usedBits) - 1) : t[i] # u[i]}) <= MaxResidualBits

(* Rep: "attempts to recover the same Commitment Gen produced": it does so *)
(* for readings of one face and for no others, whatever seed was drawn.    *)
FoundIffOneFace ==
  \A i \in DOMAIN enrolled : \A t \in Deploy.readings :
    Matches(t, enrolled[i]) <=> OneFace(enrolled[i].of, t)

(* enrollMu: "two enrollments of one face racing in this process cannot    *)
(* both pass the duplicate check", in the browser and the wallet alike,    *)
(* although writes fail after they landed and calls are made again.        *)
FaceEnrolledOnce ==
  \A i, j \in DOMAIN enrolled : i # j => ~OneFace(enrolled[i].of, enrolled[j].of)

(* A face is enrolled on the challenges that this session was given, in    *)
(* their order, neither too soon nor too late after it was given them,     *)
(* though tokens of all sessions can be sent to any session.               *)
CeremonyWasTaken ==
  \A r \in selfieResults : \E x \in tokens :
    /\ x.to = r.session /\ x.token.body.order = r.order
    /\ r.checked - x.token.body.at \in MinCeremony..MaxCeremony

(* A native result stands for a template that the wallet on a genuine      *)
(* phone saw in this very session, with a key made for it.                 *)
NativeIsAttested ==
  \A r \in selfieResults : r.method = "native" =>
    \E x \in signed : /\ x.sum.session = r.session /\ x.sum.template = r.template
                      /\ x.challenge = attestationChallenge(r.session, x.sum.token)

(* NullifierBindingForBiometricCommitment: the digest is "unique across    *)
(* distinct people", since the nullifier of a credential is made from it.  *)
CommitmentsDiffer ==
  \A i, j \in DOMAIN enrolled : i # j => enrolled[i].commitment # enrolled[j].commitment

(* It is so where the store refuses a commitment it has.                   *)
CreatedCommitmentsDiffer == Deploy.store = "firestore" => CommitmentsDiffer

(* One face, one enrollment: the extractor finds a face exactly in its own *)
(* readings, no face is enrolled twice, and a store that creates does not  *)
(* keep two faces under one commitment.                                    *)
FaceFoundOnce == FoundIffOneFace /\ FaceEnrolledOnce /\ CreatedCommitmentsDiffer

(* A face is enrolled on a ceremony that this session took, in the wallet  *)
(* on a genuine phone.                                                     *)
CeremonyIsGenuine == CeremonyWasTaken /\ NativeIsAttested
=============================================================================
