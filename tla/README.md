# Formal model of the personhood issuer

TLA+ modules, TLC configurations and TLAPS proofs for the issuer of
`sagearbor/personhood`. A person opens an enrollment session, completes
ceremonies (email, SMS, selfie, document chip, in-person vouch, ...), and is
issued one credential bound to a device key and to nullifier seeds that make
the person recognisable without naming them. The model is about what those
promises survive: concurrent requests, store requests that fail before or after
their effect, retries, and operators who revoke, reinstate and approve while
clients go on.

Paths below are relative to the repository root; `server/` stands for
`src/src/server/`, `methods/` for `src/src/methods/` as named in `PROJECT.json`.

## 1. Inventory

| component | state | operations | what must hold |
|---|---|---|---|
| identifier seeds (`server/identifier.go`) | one create-only seed document per keyed identifier hash | `resolveIdentifierSeed`: Lookup in strength order, draw, GetOrCreate per kind | same strongest identifier, same seed; unrelated identifiers never share one; no document is rewritten |
| issuance (`server/handlers.go`) | status slot, ledger entry, issued mark | `handleIssueCredential` | one credential per session; whatever is handed out can be revoked alone and with its holder |
| holder revocation, reinstatement (`server/holderrevoke.go`, `server/review.go`) | bans of holders and seeds, pardons, voucher strikes | `revokeHolder`, `retireRecoveredHolder`, `reinstate`, `handleAdminRevoke` | a finished run missed nothing it could see; calling again finishes the job |
| session store (`server/session*.go`) | the session record, the issue claim | `SetIdentifierKey`, `RecordMethodResult`, `MarkIssued`, expiry | one delivery per session although the record is written back without a lock; what is delivered is coherent |
| no-lockout routing and recovery (`server/nolockout.go`, `server/recovery.go`) | face matches, identity index, recovery documents, histories, pointers, the others of a face | match, decline, start, cancel, complete, retire; the cap on declined matches | one recovery of an identity at a time; a cancelled one moves nothing; the holder is rightful; the retired key holds nothing but what was in flight; a face is not shared by more than the cap allows |
| operator review (`server/review.go`) | cases, pointers, the open queue, approvals | request, appeal, decide, reinstate, complete | a case a person is told of is in the queue; one open case per person and kind; what an approval opens was approved |
| in-person vouching (`methods/social-vouching/inperson*.go`, `server/inperson.go`) | offers, vouches, strikes | offer, accept, confirm, penalize, reinstate | quota per period, strikes equal the revocations in force, bounded guesses, the anchor is earned face to face |
| social vouching graph (`methods/social-vouching`) | trust of members, vouches, penalties | vouch, complete, penalize, reinstate | membership goes back to the seeds; a revoked member stays out and its backers pay |
| one-time codes (`methods/email`, `methods/sms` and their tier variants) | pending codes with attempts and expiry | begin, complete, link click | bounded guesses, single use, the newest code counts, what is recorded was proven |
| limiters (`server/ratelimit.go`, `server/sendlimit.go`, `hintlimit.go`) | token buckets, send times, sessions by device | allow, sweep | never above the limit; forgetting admits nothing extra |
| webhook methods (`government-id-liveness`, `paid-billing-card`, `plaid-bank-link`) | inquiry bound to session, result | begin, webhook, poll | a verified session is one the vendor approved; a decision arrives |
| selfie anchor (`methods/fuzzy-extractor-selfie`, `server/accumulator_store.go`) | accumulator of enrolled faces; nothing between begin and complete | begin, complete in browser and wallet, enroll | a face is enrolled once, on a ceremony that this session took; the extractor finds one face and no other |
| document anchor (`methods/document-chip`, `server/documentanchor.go`) | challenges, face index, trust store | begin, complete for chips and for QR cards | a result stands for a genuine, present document; a second document of one face is flagged; one identifier per card |
| device attestation (`methods/app-attest-device`) | challenges, the vendor's list of revoked serials | begin, complete, fetch | only genuine phones in good state; the list once fetched goes on counting |
| policy, credential, registry, status list (`src/policy`, `src/credential`, `src/registry`, `server/revocation.go`) | registered plugins, revoked slots, a cache | register, sign, revoke, serve the list, verify, evaluate | accepted means issued, unaltered, within the policy; a revocation is seen within its window; equivocation proofs cannot be framed |
| configuration, router, SDKs, web app, tools | maps, wiring, wire formats | | pure I/O or glue |

Interactions. The handlers call a method's ceremony, then the session store
(`recordVerified`). Issuance reads the session, resolves seeds, asks the ban
list and the lockout store, then writes to the revocation store, the ledger and
the session store, in that order. Revocation writes the ban list, reads the
ledger, writes the revocation store and the voucher strikes. Recovery moves the
identity index and retires the old key through the same ban list and ledger.
The stores (Firestore, Redis, or memory) are the only shared state; every
request to them is atomic by itself and there is no transaction over two of
them. `lockoutStore` and the ledger hold a process mutex around their own
read-modify-write cycles, and the deployment documents one instance
(`fly.toml`, `RUNBOOK.md`), so those cycles are atomic steps in the model.

What is hard here: answers used after they are stale (the ban check), writes
that are one of several (opening or closing a recovery, retiring a key,
recording a ceremony), record-level read-modify-write without a lock (the
session record), retries of what already happened, and long protocols spread
over two keys and several days (recovery). `PROJECT.json` lists each such
hazard at its line.

## 2. Modules

| module | models | state and actions |
|---|---|---|
| `IdentifierSeeds` | `server/identifier.go` | `binding` is the set of seed documents; per call `ids`, `pc`, `rest`, `seed` are the locals of `resolveIdentifierSeed`. One action per store request: `LookupHit`, `LookupMiss`, `DrawSeed`, `GetOrCreate`, `StoreFails` |
| `Issuance` | `handleIssueCredential` against `revokeHolder`, `retireRecoveredHolder`, `reinstate` | requests (`pc`, `slot`, `commits`) and workers (`wpc`, `todo`, `seeds`) over the revocation store (`used`, `slotOf`, `revoked`), the `ledger` and the bans. One action per store request, each of which may also fail after its effect |
| `IssueOnce` | what a session promises | `winner`, `delivered`: one credential is chosen, only it is delivered |
| `SessionStore` | the Redis and Firestore session stores | the stored record and every copy a call has read; the claim; expiry. Refines `IssueOnce` with the claim as `winner` |
| `Recovery` | `server/nolockout.go`, `server/recovery.go`, the approval in `server/review.go` | face matches, identity index, recovery documents, histories, pointers, bans; per session the handler that runs (`pc`, `reg`, `todo`). `openRecovery` and `closeRecovery` are one step each (they hold the mutex) whose list of writes may stop after any write; a complete call (`CheckComplete`, `CloseRecovery`, `RetireOld`, `ReadOld`, `RevokeOld`, `CreditFace`) and an issue call (`CheckKeyBan`, `CheckFaceBan`, `CheckNoRecovery`, `RecordIssuance`, `SetHolder`, `AddLinks`, `MarkIssued`) take one step per store request, and each may fail there |
| `FaceMatchCap` | `lockoutIssuanceCheck`, `addFaceMatchOther` within `handleIssueCredential` | the list `others` of one face; per request its step between the check and the answer, any of which may fail |
| `Review` | `server/review.go` | `cases`, `pointer`, `queue`, `approvals`, `bans`; per operator request its `desk`. `OpenReview` and `CloseReview` hold the mutex and take the number of their writes that landed; `Decide`, `Grant`, `LiftBan` lie outside it |
| `InPersonVouch` | `methods/social-vouching/inperson.go`, `inperson_store.go`, `anchor.go`, `accountability.go` | `offer` documents, `vouch` and `vouchTimes`, voucher records (`strikes`, `suspendedUntil`, `revoked`, `penalized`); per confirm `hpc`, `hoffer`, `hat`, per revocation `wpc`, `target`, `list`. One action per locked store call of `ConfirmHandler` (`Claim`, `ClaimWrong`, `CountWrong`, `CommitVouch`) and of `Penalize` (`ReadVouchers`, `StorePenalize`); `Offer`, `Accept`, `CompleteAnchor`, `Reinstate` are one step each |
| `SocialGraph` | `methods/social-vouching/graph.go`, `vouch.go`, `method.go`, the graph half of `accountability.go` | `trust`, `vouches`; every handler reads in one step and writes in another (`VouchReads`, `CompleteReads`/`CompleteEnrolls`, `PenalizeReads`/`Strike`/`Remove`, `AdjustReads`/`AdjustWrites`) |
| `StoreClient` | `pkg/redisclient`, `pkg/firestoreclient` | what Get and Set mean on each store, with expiry; no state |
| `OneTimeCode` | `methods/sms`, `phone-carrier-tier`, `email`, `email-tier` | `docs` are the code stores; per call `pc`, `call`, `seen`. One step per store request on a shared store, one for a whole verification in memory |
| `Limiters` | `server/ratelimit.go`, `server/sendlimit.go`, `hintlimit.go` | `buckets`, `sends`, `byHint`; `pending` requests have read the clock and wait for the mutex |
| `Webhook` | the three webhook methods | `byInquiry`, `bySession`; vendor events (`said`, `posts`, `acked`) that repeat and reorder; `forgot` after a restart |
| `DocumentAnchor` | `methods/document-chip`, `server/documentanchor.go` | `challenge`, `faces`, `docReviews`, per completion `docCall`; the trust store, the chip's and the card's checks as operators; the dual-document check (`FindDuplicate`, `KnownIdentifier`, `AddCase`, `AddFace`) one store request at a time under `faceMu` |
| `Selfie` | `methods/fuzzy-extractor-selfie`, `server/accumulator_store.go` | the fuzzy extractor on bit strings (`Gen`, `Rep`, ...) as operators; `tokens`, what phones `signed`, per completion `enrollCall`, the accumulator `enrolled` under `enrollMu` |
| `DeviceAttest` | `methods/app-attest-device` | `attChallenge`, the cached list (`revoked`, `fetchedAt`, `lastAttempt`, `lastErr`) against what the vendor `published` |
| `CredentialCheck` | `src/policy`, `src/credential`, `src/registry`, `server/revocation.go`, status list handler | from verified methods (`session`) to an issued credential, its slot, its revocation (`list`, `cache`, `served`) and a verifier's `check` under a policy |
| `Revocation` | what the status list promises | one list that grows (`since`), read at most `Window` late (`answer`). `CredentialCheck` refines it with `CacheTTL + MaxAge` as the window |
| `SlotStatements` | equivocation proofs of `src/credential` | `signatures` and who was `convicted` |
| `IdentifierSeedsProofs`, `IssuanceProofs`, `SessionStoreProofs`, `RecoveryProofs`, `InPersonVouchProofs` | | theorems about the module each is named for |
| `CredentialProofs` | | theorems about `FaceMatchCap`, `SlotStatements`, `Selfie`, `DeviceAttest`, `CredentialCheck` |
| `EvidenceProofs` | | theorems about `Review`, `DocumentAnchor`, `SocialGraph`, `Webhook` |
| `CodesProofs` | | theorems about `OneTimeCode` and `Limiters` |
| `MC*` | | constants for TLC |

`MCIdentity`, `MCCodes`, `MCCredentialCheck` and `MCEvidence` run several modules
in one run: each behaviour is a behaviour of one of them (`part`), the others stay
at their initial state. They share no state in the code; one run saves repeating
the set-up. `MCRecoveryLimits` runs `Recovery` within a state
constraint, the union of two scenarios (which sessions act, how many recoveries there
are, whether an operator acts, how much may fail); it only leaves behaviours out.

Mutation operators (commented "Mutation") stand next to the definition they
change; they are used only to check that a property can fail.

Abstractions, and what they leave out:

- A random seed or code is named by the call that draws it, a credential by the
  request or the session it comes from, a keyed hash by kind and identifier.
- A key is a value and a signature is a record of the key and of what was
  signed. Anybody may build any message from parts they have seen; nobody signs
  without the key. Encodings (ASN.1, JWS, base64, deflate) are left out, except
  where two messages can coincide: the newline-joined slot statements, the
  bits of the status list, the blocks and padding of the fuzzy extractor, the
  fillers in a document number, the spellings of a phone or an inbox.
- `Issuance` runs with the lockout checks off; `Recovery` has the ban checks, the
  lockout and the ledger request by request, names a credential by its session
  and makes an operator's `revokeHolder` one step (`Issuance` splits it);
  `CredentialCheck` treats issuance as one step; `FaceMatchCap` lets any step of
  it fail. The views of `handleIssueCredential`
  overlap on purpose: one is about store requests, one about the recovery
  protocol, one about what the credential is worth, one about the cap.
- `Recovery` lets a session run one handler at a time, has no session expiry,
  and time does not pass between the checks of a start call and its
  `openRecovery`.
- `SessionStore` abstracts the value of an identifier key to its presence, and
  runs one handler per method.
- `InPersonVouch` leaves out the trust graph (who may vouch on trust alone is the
  constant `Trusted`) and network evidence; `SocialGraph` has the graph and
  leaves out quotas and suspensions.
- `Review` reads a case and `BanInfo` in one step; a refused `startRecovery`
  leaves its case open, as in the code.
- `DocumentAnchor` and `Selfie` run the shared stores; a delayed write that lands
  after a restart is left out, and so is a revocation list that the in-memory
  store forgets in a restart (`CredentialCheck` restarts only lose the cache).
- `DeviceAttest` makes a check and the fetch it triggers one step: `list` holds
  its mutex during the fetch.
- `Selfie` takes the motion scores for a coin that may refuse any ceremony;
  a face is a bit string and its readings differ in few bits.
- `Limiters` reads the clock in one step and enters the mutex in another, at
  most `MaxWait` later.
- `Recovery` sessions have no `operator-review` method, which would lift the cap on
  declined matches; `FaceMatchCap` has such a session.
- History variables record what the properties compare with, and no guard that
  stands for code reads them; they are marked "history" or "What happened" where
  they are declared (`late`, `clean`, `swept`, `exposed` in `Issuance`, `late`, `swept`,
  `exposed`, `unrecorded` in `Recovery`, `listedAt` and `revokedAt` in
  `CredentialCheck`, `slipped` in `InPersonVouch`, `guesses` in `OneTimeCode`, and so on).

## 3. Runs

Every type invariant is proved (section 4), and none is run again.
Several properties are conjunctions of named parts, in the module that declares
them; the parts are named in brackets.

| run | checks | bounds and why they are enough |
|---|---|---|
| `identity` | seeds: `SameTopSameSeed`, `SeedsStayApart`, `DoneBindsAll`; vouches: `StrikesAccount` (`StrikesMatch`, `SuspendedIffStruck`), `QuotaHolds`, `GuessesAreBounded`, `AnchorIsEarned`, `VouchersPay` | seeds: two calls, two identifiers of each of three kinds: every overlap of two sessions, including none, and a failed call whose bindings the other finds. `DoneBindsAll` asks that a finished call's strongest key has the very seed it answered. Vouches: three people of whom two are anchored and one is trusted, two offers, two confirms and one revocation at a time, every limit at one: the quota, the attempts and the period are all reached, a voucher is struck for one person and vouched for by another, and three instants let offers go stale and suspensions end |
| `issuance` | `OnePerSession`, `HandedOutIsRevocable`, `SweepIsComplete` | two requests on one session, a list of two slots of which any may be taken from the start, so that a request finds it full, or the other takes the last one; two concurrent revocations or reinstatements of one holder |
| `recovery` | `OnePending`, `HolderIsRightful`, `ClosedIsFinal` | three keys with a session each, two recoveries of one face, one failed request: a recovery opened while another is open, closed or half written, and a cancel on either side of a complete call's close |
| `recovery_limits` | `CooldownHolds`, `RetiredHoldsNothing` | two scenarios. Limits: two keys with a session each, two recoveries, a cooldown of two ticks within three, approvals by operators, one failed request: a recovery opens after one that completed, after one that was cancelled and after one whose close failed half-way. Retiring: two sessions of the old key (one may issue while the other's credential is revoked), one recovery, an operator who may revoke the holder, two failed requests: a complete call fails, its repetition fails, a third one answers |
| `codes_and_limits` | `ProvenOnce` (`VerifiedIsProven`, `SingleUse`), `NewestCodeStands`, `GuessesBounded`, `RateBounded`, `SendsBounded`, `HintsBounded`; records: `DeliveredIsCoherent`, refinement `ImplementsIssueOnce` | codes: two overlapping calls, two codes, `MaxAttempts` and time to pass an expiry; each of the four methods in memory, two of them over Redis (codes replace each other) and Firestore (they expire). Limits: two clients, a table smaller than the clients, a bucket and a window that empty within the clock. Records: one identifier method, one anchor, two issue calls: two writers of each sort suffice for a lost write and an overwritten mark |
| `webhook` | `VerifiedAsApproved` (`VerifiedWasApproved`, `VerifiedWhenPosted`), liveness `DecisionArrives` | one inquiry and two sessions (a post can name the wrong one), two handlers, two vendor events for Stripe, one restart, each vendor with each store it has |
| `credential_check` | `AcceptedAsIssued` (`AcceptedWasIssued`, `PolicyMet`), `StatusIsTrue` (`RevokedIsSeen`, `OnlyTheRevoked`), `NoFraming`, `DeviceIsGenuine` (`GenuineDevice`, `FetchedListHolds`, `ListedSerialsExpire`), `CapIsKept` (`CapHolds`, `DeliveredIsCounted`), `FaceFoundOnce` (`FoundIffOneFace`, `FaceEnrolledOnce`, `CreatedCommitmentsDiffer`), `CeremonyIsGenuine` (`CeremonyWasTaken`, `NativeIsAttested`), refinement `ImplementsRevocation` | two credentials on each store and the slots 6 and 9, on both sides of a byte; one credential under eight policies that between them use every field; a wallet that signs carefully and one that does not; two phones, one unlocked, and a list that fails open or closed; a cap of one and concurrent issuances; four deployments of the selfie, one per store and one with two native sessions |
| `evidence` | `QueueIsTrue` (`PromisedIsQueued`, `OneOpenCase`), `DecisionIsCarriedOut` (`AdmittedWasApproved`, `ApprovedAppealReinstates`), `DocumentIsGenuine` (`OneUsePerTap`, `GenuineDocument`, `OneIdentityPerCard`), `SecondDocumentFlagged`, `RootedInSeeds`, `BackersAnswer` | three cases, or two and one failed request, with two operators and a queue that fills; three chips of which one is forged, three cards, two calls; overlapping handlers on a graph with one seed |

Bounds by name: `MaxTime`, `MaxLimitTime`, the clocks of the other modules,
`MaxFailures` (how many store requests fail in one behaviour of `Recovery`), `Delay`, `Cooldown`, `MaxCancelled`, `MaxOthers`, `MaxPerPeriod`, `MaxAttempts`,
`MaxCodes`, `MaxBuckets`, `HintMax`, `MaxEvents`, `MaxRestarts`, `ReplayWindow`,
`maxOpenReviews` (configuration or an upper end, set so that each limit is
reached), and the sets `Recoveries`, `Requests`, `Workers`, `Slots`, `Calls`,
`Issuers`, `Offers`, `Handlers`, `Inquiries`, `Nonces`. `CHECK_DEADLOCK FALSE` stands
where all calls end, or a bound is reached, and nothing is left to do.

Fairness. Only `Webhook` claims progress. Its `Fairness` says that the vendor
sends a post again that was not answered with 200 (weak), that a post which can be
served again and again arrives some time (strong), that a request which was taken
up is served (weak), and that a shared store does not fail for ever (strong). `DecisionArrives`: a decision of the vendor about a
bound inquiry is then answered, unless a restart dropped the binding or the
result. Nothing is assumed of the client, of Persona's binding before the post,
or of the clock. No other handler retries by itself, so no other liveness is
claimed.

### Disagreements between the code and its own words

Each is a run with `expect: violation` and a finding that quotes the line. Where a
weaker property does hold, a passing run checks it and section 4 proves it.

- `revoked_holder_holds_nothing` — an issuance past the ban check is recorded
  after the revocation read the ledger. `SweepIsComplete` (checked and proved)
  is what does hold: only such in-flight credentials escape, and a second
  revocation gets them.
- `selfie_commitments` — the selfie's seed has one bit for each of the 17 blocks,
  so two people share a commitment with probability 2^-17 per pair; Redis and the
  in-memory accumulator keep both, and both get one nullifier, although
  `server/handlers.go:568` and the comment at `extractor.go:100` call it unique.
  Firestore refuses the second person with a store error.
- `recovery_blocked` — `openRecovery` fails between the history and the pointers
  (`recovery.go:177-184`), and the identity is blocked by a recovery whose id nobody
  was told and nobody can look up, although line 29 says that every refusal
  names the way forward.
- `shared_guesses` — on a shared store a stale write takes back all the attempts counted
  since it was read, not "one attempt" as `store_redis.go:38` says: H overlapping calls
  get up to C(H+M,M)-1 guesses for M attempts (`SharedGuesses`, `GuessesBounded`).

Known and not given a run. The first three are the same sort as the runs above; each
weaker property that stands in their place names exactly what escapes.

- The window of `revoked_holder_holds_nothing` is there after a recovery too: an
  issuance of the old key past the ban check (`handlers.go:613`) is recorded after
  `retireRecoveredHolder` read the ledger (`recovery.go:648`) and keeps its
  credential, although `recovery.go:641-643` says that every credential is
  revoked. `RetiredHoldsNothing` is what does hold: only such credentials escape
  (`exposed`), and a complete call made again with none in flight leaves nothing.
  The late call may also point the face's identity back at the retired key
  (`nolockout.go:562`), since its index write comes after its ban check too.
- A vouch confirmed after `Penalize` read who vouched (`accountability.go:46-58`) and
  before it strikes is not struck, and a second report changes nothing (71-74),
  although lines 20-23 say every voucher is. `VouchersPay` holds for all other
  vouches (`slipped`).
- The limiter of device sessions forgets a session one window after its first sight
  (`hintlimit.go:54-66`), although it was let in again since, so up to twice the
  maximum passes within one window: `HintsBounded`, against `hintlimit.go:21`.

Identifier seeds, issuance, sessions: two enrollments racing on one inbox get
different seeds when one of them also proved a stronger identifier, for the
answer of GetOrCreate is adopted only for the first kind (`identifier.go:401`,
against the comment at 276-278). Reinstating one holder lifts the ban of a seed that
another, still revoked holder shares (`review.go:504`, `holderrevoke.go:14-18`). With
the Redis store the issue claim expires with the session's lifetime, so a call
delayed that long can deliver a second credential (`ClaimExpires`). An issuance
is bound to an identifier key whose method was never recorded, if another method
carries it, although `handlers.go:899` says such a key is never used on its own.

Recovery: taking the selfie again after a decline clears the flag
(`nolockout.go:383`, against 450-451). Two recoveries of one old key complete one
after the other and both new keys are issued on the face (`recovery.go:591`). A completed recovery whose history write
failed leaves no cooldown (`unrecorded` in `CooldownHolds`), also when the
completion is repeated. A key party to two recoveries has one pointer and
loses the other. Concurrent issuances pass `FaceMatchMaxOthers` by at most the
number that overlap less one; `CapHolds` says so and the bound is reached.

Vouching: a wrong code counted after the offer was confirmed may
turn it to burned, which undoes nothing. A confirm delayed past a period boundary
can exceed the quota of a period that is already over. Completing the graph
method again enrolls a new trust over the one a strike lowered (`method.go:194`),
and a later reinstatement raises it above the original. Concurrent penalties of
one voucher lose a halving. An anchor stands although a
voucher behind it lost its own since, for only its revocation and the vouch's age count
(`anchor.go:139`). A completion in flight re-admits a removed member
(`overlapped` in `BackersAnswer`), and a revoked candidate can be vouched for again
over the development route, although `accountability.go:16` says it never can.

Codes and limits: a stale write on a shared store brings a used, locked or replaced
code back; the `Invalidate` of a failed send, or the delete of an expired entry, can hit a
newer code; two clicks on one link can both succeed. A sweep of the full send table judges a list by
its last time, which need not be its latest, because calls read the clock before
they queue for the mutex: a list is forgotten up to twice `MaxWait` early, so
`SendsBounded` holds over `Hour` less `2 * MaxWait` and not over `Hour` less `MaxWait`. Sent messages keep duplicate times
after an in-place compaction, which only makes the limit stricter.

Webhooks: Persona's "completed" counts as approved, although the documentation
says only "approved" does; the last post handled wins; Plaid's binding is gone
after a restart and its posts get 404 for ever; results kept in memory are lost
although the vendor was told 200.

Credentials and devices: a revocation whose write failed after its effect leaves
the cached list stale, and the retry answers that it was revoked already; the
window of a cache and a response still bounds it. The device challenge is not
consumed by use, although the comment on `ErrNoChallenge` speaks of it as consumed.

Review and documents: a failed `openReview` after the case and its pointer makes
every retry answer `review_open` with a case no operator sees. Of two operators
the last close wins, so a denied case may keep its approval. A key retired by a
recovery can be reinstated, when it was banned for another reason first
(`review.go:469-471` says it is not). The chip and the QR method have a face mutex
each and share one index, so one of each at once misses the second document.
A selfie's spare last bit is stored and counted, although `extractor.go:72-74` says
it is dropped.

## 4. Proofs

Every theorem is for all values of the constants under the `ASSUME`s of the
modules: null values are none of the values they stand beside, constant functions
have their types, limits are positive. The assumptions that say more are named
with the theorems that use them. Theorems that state a property of a run carry its
name with `Holds`.

**Identifier seeds** (`IdentifierSeedsProofs`): `SeedTypeOK`, `SameTopSameSeed`,
`SeedsStayApart`, `DoneBindsAll`, and the action property `BindingIsForever` (a seed
document is never rewritten). The invariant says that a call in its binding loop
has already bound the kinds it passed, that after its first kind its seed is the
one bound to its strongest key, and that a bound seed comes from a call whose
identifiers are linked to the key; `SameTopSameSeed` alone is not inductive because
it says nothing of calls half-way.

**Issuance** (`IssuanceProofs`): `TypeOK`, `OnePerSession`, `HandedOutIsRevocable`,
`SweepIsComplete` from `IInv` = `RequestInv` (what each step has written), `SlotInv`
(a slot has one owner), `LedgerInv`, `WorkerInv`, `RunInv` and `SweptInv` (where the
requests past the ban check are, seen from a running and from a finished revocation).

**Sessions** (`SessionStoreProofs`): `SessionTypeOK`, `DeliveredIsCoherent`, and the
refinement `SessionSpec => Once!Spec` where the claim does not expire: a delivered
credential is the one that holds the claim, and the claim is never rewritten.
Coherence needs that every copy in flight, and not only the record, is coherent.

**Recovery** (`RecoveryProofs`): `TypeOK`, the action property `ClosedIsFinal`,
`OnePending`, `HolderIsRightful`, `RetiredHoldsNothing` and `CooldownHolds`, for any
number of failed requests.

- `OnePending` from `FoundInv`: a pending recovery that some key can find, or that a
  running call is about to close, is the active one of its face (`Tracked`).
  `ClosesTracked` gives the same for whatever a complete call closes.
- `HolderIsRightful` from `RightInv`: the identity index and every session's selfie
  result tie a face only to a key that enrolled it or completed a recovery of it.
- `RetiredHoldsNothing` from `SweepInv`. It follows the calls of the old key from the
  moment the ledger was read: a session is listed for revocation, revoked, among those
  in flight then (`late`), or behind a ban check that now refuses it. `Outside` and
  `Quiet` say which sessions a step leaves where they are (`QuietSteps`), so that each
  action has only its own session to argue about.
- `CooldownHolds` from `CooldownInv`: the pending recovery that a history names is the
  latest opened of its face, and the history knows every recorded recovery that completed
  within the cooldown.

**In-person vouching** (`InPersonVouchProofs`): `TypeOK` and every property of
vouches that the run `identity` checks. `Linked` ties a confirm to an accepted offer with two parties; then
`StrikesAccount` needs that a person not revoked has struck nobody, `QuotaHolds` that
the vouches of the current period are never among those a commit drops,
`GuessesAreBounded` that an unburned offer is below the limit, `VouchersPay` that a
running revocation misses only what slipped in, and `AnchorIsEarned` that anchored
vouches come from exchanges.

**Credentials, selfies, devices** (`CredentialProofs`):

- `CapIsKept`, for every cap and any finite number of overlapping requests.
  `CapInv`: those counted, together with the requests that passed the check and
  will add a new holder, stay below the cap plus the number of requests.
- `NoFraming` and `CarefulStandHolds` (who signs each slot once is never convicted).
  `SlotInv`: every signature is on the message of something its wallet meant, whose
  context is a field without a newline. The heart is that the newline-joined message
  can be read in one way only. From `SlotAssumption`: digests contain no newline.
- `MatchesIsOneFace`: for all sizes of templates, blocks and keys, a reading matches a
  record exactly when no block differs by a majority and the bits kept differ by at
  most the budget. `FaceFoundOnce` rests on it, with `FacesApart`: what is enrolled
  is a set of faces of which none matches another; a call past its lookup holds the
  mutex. From `DeploymentsAssumption`: the readings of a deployment are templates.
- `CeremonyIsGenuine`, from `TokensBound` (a MAC exists only on a token that was
  given to that session) and `Ceremonies`; `SelfieTypes`, with `NoneSelfieIsNoCall`.
- `DeviceIsGenuine` and `AttTypes`, for chains of any length: `ListInv` (the list in use is
  the one last fetched, and a serial missing from it was published after that) and
  `DeviceInv` (a nonce belongs to one session, and what was accepted keeps its proof).
  `AttAssumption` says that a chain is a sequence.
- `AcceptedAsIssued`: `IssuedInv` (what an issued credential says comes from its
  session and the registered methods) and `ChecksInv` (a check past the signature
  holds a credential as it was issued).
- `StatusIsTrue`. `StatusInv` follows the revocation from the mutex to the verifier:
  a slot is one credential's (`SlotsRight`), the list has what was acknowledged and only
  what was asked for (`ListRight`), and the cache, every response and every verdict
  that leaves a revoked slot out is from before the revocation plus the time that
  stage may lag (`CacheRight`, `ServedRight`, `VerdictsRight`, with `Timely`). That
  the bits of a response say exactly which slots it was made from is
  `ListTellsSlots`: sixteen steps, one for each bit of the list. `CheckTypes` needs
  `OneResultEach`: a session has one result of a method.

- `CheckImplementsRevocation`: `CheckSpec => Revoke!Spec`. `Since` reads the time at which
  a credential's slot was written to the list, also when the operator was told that the
  write failed; `Told` is what was acknowledged; `Answers` the answers of the verifiers
  past the status list. Each step maps to a step or a stutter: a write is `List` or
  nothing (`ListedStep`: the mutex makes the list written the list there is, and one slot more), a
  revocation of what is listed already is `Tell`, a fetch is `Answer`
  (`AnsweredStep`), where what a cached response may say is `CacheRight` and
  `ServedRight` of `StatusInv`.

**Evidence** (`EvidenceProofs`):

- `QueueIsTrue`, `DecisionIsCarriedOut` and `ReviewTypes`. `QueueInv` says
  which cases are announced and where; `DecisionInv` that an approval
  is of the key whose own case was approved, also while the desk that grants it is
  between its writes.
- `DocumentIsGenuine` is the conjunction of three. `OneUsePerTap` from `NoncesApart`:
  a nonce handed out is in the challenge of its session, or with one call, or spent,
  and never in two of these places. `GenuineDocument` and `OneIdentityPerCard` from
  `NamesInv`: whatever a call or a result names was issued by the state it names, to a
  chip that signed a nonce of that session, or is what a registered format verifies.
  This uses `StatesSignTheirOwn` (a state that a pinned authority or the operator
  stands behind signs the objects of its own chips only and lists the chip's key) and
  `FormatsOfOneDocument` (who signs a person's card signs it as the same document in
  each layout); both are facts about the issuers, outside this code.
- `SecondDocumentFlagged` from `FirstsApart`: a call about to call a document the first
  of its face holds the mutex since it saw the face missing. `DocShape` has the mutex.
- `DocTypes`: `RequestsOK` says what a call carries in each step, `MutexHeld` that whoever
  `faceMu` names is a call past the lock, `ChallengesPast` that a challenge was
  started before now. `NoneDocIsNoRequest`: the null value is no request.
- `RootedInSeeds` from `RootInv` (whoever has trust, a vouch recorded or a call in
  flight was a seed, anchored or admitted before, and each admission was sound) and
  `BackersAnswer` from `BackersInv` (a write in flight has its backers on record, unless
  it overlaps a removal). `SocialTypes` from `WeightsInv` (every stored weight, and every
  one a call carries, is in `0..Full`); that the average of the vouches stays there is
  `SumIsBounded`, by induction on the finite set that the sum is folded over.
  `NoTrustIsNoWeight`: the people are finitely many, absent is none of the weights, and
  `Full` halved once for each strike is no more than `Full` (the provers know nothing of
  `2^n`; TLC evaluates it).
- `VerifiedAsApproved` and `WebhookTypes`. `WebhookInv`: every stored, recorded or carried status is a
  verdict that the vendor gave on the session's own inquiry and posted within the
  window; verdicts stand (`Stands`), because an inquiry keeps its session and what was
  posted stays posted.

**Codes and limits** (`CodesProofs`):

- `ProvenOnce`, `NewestCodeStands`, `GuessesBounded`, `CodeTypes`. `OnceInv`: of each code in
  memory, a used one is invalid in the store, and one that is still valid carries
  exactly the wrong guesses made on it; a newest code nothing happened to is stored.
- `GuessesBounded`, for any number of calls H and attempts M: M guesses at a code in
  memory (`OnceInv`), and C(H+M,M)-1 over a shared store (`GuessInv`). The count of
  guesses alone is not inductive, for a write of an old copy puts the stored count back.
  So each call has a level, the lower of its copy's count and the stored one, and the
  guesses made so far are bounded by a sum over d of what the calls with fewer than d
  attempts left can have made (`MadeBy`). A guess that writes a count of one above
  the one it read adds one to the sum, even where it brings calls back from further on
  (`LevelRaised`, `MadeOneMore`); no other step lowers a level. `SharedGuesses` is that sum at its
  largest; its rows are computed by `SetInduction`.
- `HintsBounded` from `HintInv`: for each start of a window there is a set of at most
  `HintMax` sessions that the limiter knows since then, so a window has no more than
  those and `HintMax` first sights.
- `RateBounded` from `RateInv`: over each span, what was served and what the bucket may
  still give are within the burst and the refill of the span. A bucket the
  sweep forgets is full again by then, and a call that comes out of the order of its
  time finds no more than it would have in order (`LimiterAssumption`: an idle
  bucket is full when it is swept; a wait for the mutex is less than half an hour;
  `ProxiesAppend`: the trusted proxies write the address they saw).
- `SendsBounded` from `SendInv`: what went to an inbox within a span that a call to come
  can ask about is in the list of its key, under each spelling (`InboxAssumption`).
- `LimitTypes`, with `RoomInv`: the buckets are never more than the table holds.

Totals and counts over a sequence or an interval are recursive functions. Where a
theorem needs what they compute, induction is done with sets instead of an operator
parameter: `LeastNatural` (a set of naturals has a least member, from
well-foundedness), then `SetInduction` and `IntervalInduction`.

Only model-checked: `DecisionArrives` (liveness is out of the prover's reach) and the
violations of section 3. Every invariant and refinement that a passing run checks is a theorem.

## 5. Plan

What would add behaviour: `Recovery` with an operator's `revokeHolder` request by
request and with the face cap, and a server that restarts between
the writes of one recovery.

## 6. Not modelled

Cryptography itself: signatures and MACs are symbols that nobody forges. The
motion and image scores of the selfie's liveness (`motion.go`) are floating-point
arithmetic whose only effect on the state is to refuse. Wire formats and their
size limits, configuration, logging, HTTP routing, CORS and start-up
(`server/server.go`), and the type definitions (`pkg/types`) carry no state that a
property is about. The web app, the SDKs apart from the Go SDK's `Verify`, and the
tools are clients. Two server instances over one store are outside the documented
deployment (`--max-instances 1`), so the process mutexes hold everywhere. More
than liveness of webhook decisions is not claimed: no handler promises to retry by
itself.
