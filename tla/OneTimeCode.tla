---------------------------- MODULE OneTimeCode ----------------------------
(***************************************************************************)
(* One-time codes by phone (methods/sms, methods/phone-carrier-tier) and   *)
(* links by mail (methods/email, methods/email-tier), from /begin to       *)
(* recordVerified.                                                         *)
(*                                                                         *)
(* A call of /begin stores a code and sends it, and deletes what is stored *)
(* if the sender reports an error.  A call of /complete (or a click on the *)
(* link) compares an attempt with the stored code.  In memory an OTP is    *)
(* verified under the store's mutex; over Redis and Firestore the entry is *)
(* read, changed and written back with other calls in between.  A link is  *)
(* looked up and then deleted, on every store.  Requests to a shared store *)
(* may fail, before or after their effect.                                 *)
(*                                                                         *)
(* Codes are numbered in the order they are drawn; a client can type any   *)
(* code that some sender delivered, or a wrong one.  Hitting an undelivered*)
(* code by luck is left out.                                               *)
(***************************************************************************)
EXTENDS StoreClient, Sequences, FiniteSets

CONSTANTS
  Sessions,
  Phones, Mails,      \* spellings a client may type
  Normal,             \* the identifier each spelling stands for
  Voip, Disposable,   \* spellings the offline checks know
  Handlers,           \* concurrent calls of /begin and /complete
  Deployments,        \* what may be deployed, with bounds of its own
  MaxCodes, MaxTime,  \* bounds of the instance
  TTL,                \* OTPTTL, TokenTTL
  MaxAttempts,
  NoInput

Otp    == {"sms", "phone-carrier-tier"}
Link   == {"email", "email-tier"}
Inputs == Phones \cup Mails
Methods == Otp \cup Link
Ids    == {Normal[i] : i \in Inputs}
Codes  == 1..MaxCodes
Wrong  == 0

ASSUME CodeAssumption ==
  /\ Deployments \subseteq [backend : {"memory", "redis", "firestore"},
                            methods : SUBSET Methods, inputs : SUBSET Inputs,
                            codes : 0..MaxCodes, until : 0..MaxTime]
  /\ IsFiniteSet(Handlers) /\ IsFiniteSet(Ids)
  /\ Phones \cap Mails = {} /\ NoInput \notin Inputs
  /\ DOMAIN Normal = Inputs
  /\ \A n \in {MaxCodes, MaxTime} : n \in Nat
  /\ \A n \in {TTL, MaxAttempts} : n \in Nat \ {0}

Entries == [code : Codes, input : Inputs, expires : Nat, attempts : Nat,
            invalid : BOOLEAN]
Calls   == [m : Methods, s : Sessions, i : Inputs, code : Codes \cup {Wrong}]
NoCall  == NoDoc
ASSUME NoDocIsNoDocument == NoDoc \notin [blob : Entries, until : Nat]

VARIABLES
  deployed,           \* the store that FIRESTORE_PROJECT_ID and REDIS_URL
                      \*   select, the methods registered, what clients type
  now,
  docs,               \* the code stores, by method, session and spelling
  pc, call, seen,     \* per call: step, arguments, the entry it read
  drawn,              \* how many codes were drawn
  recorded,           \* <<method, session, identifier>> on the sessions
  begun,              \* history: the begin each code was drawn by
  delivered,          \* history: codes that reached their addressee
  undone,             \* history: codes whose sender reported an error
  guesses,            \* history: wrong attempts answered, by code
  used, reused        \* history: codes that succeeded once, more than once

callVars == <<pc, call, seen>>
history  == <<begun, delivered, undone, guesses, used, reused>>
vars == <<deployed, now, docs, callVars, drawn, recorded, history>>

(* The tier methods have no shared store.                                  *)
NewOTPStoreFromEnv(m) == IF m = "sms" THEN deployed.backend ELSE "memory"
NewTokenStoreFromEnv(m) == IF m = "email" THEN deployed.backend ELSE "memory"
StoreOf(m) == IF m \in Otp THEN NewOTPStoreFromEnv(m) ELSE NewTokenStoreFromEnv(m)

(* Mutation: the store key forgets the phone number.                       *)
KeyBySession(m, s, i) == <<m, s, NoInput>>
(* An OTP is stored per session and phone number, a link per session.      *)
KeyOf(m, s, i) == IF m \in Otp THEN <<m, s, i>> ELSE <<m, s, NoInput>>
Keys == {KeyOf(m, s, i) : m \in Otp, s \in Sessions, i \in Phones}
          \cup {KeyOf(m, s, i) : m \in Link, s \in Sessions, i \in Mails}

TypeOK ==
  /\ deployed \in Deployments /\ now \in 0..MaxTime /\ drawn \in 0..MaxCodes
  /\ \A k \in Keys : docs[k] = NoDoc \/ docs[k] \in [blob : Entries, until : Nat]
  /\ pc \in [Handlers -> {"idle", "send", "undo", "write", "delete", "consume",
                          "record"}]
  /\ \A h \in Handlers : pc[h] # "idle" => call[h] \in Calls
  /\ \A h \in Handlers : pc[h] = "write" => seen[h] \in Entries
  /\ recorded \subseteq Methods \X Sessions \X Ids

Init ==
  /\ deployed \in Deployments /\ now = 0 /\ drawn = 0 /\ recorded = {}
  /\ docs = [k \in Keys |-> NoDoc]
  /\ pc = [h \in Handlers |-> "idle"]
  /\ call = [h \in Handlers |-> NoCall]
  /\ seen = [h \in Handlers |-> NoDoc]
  /\ begun = <<>> /\ delivered = {} /\ undone = {}
  /\ guesses = [c \in Codes |-> 0]
  /\ used = {} /\ reused = {}

(* A call goes on to its next request with its arguments and the entry it  *)
(* read, or returns.                                                       *)
Goes(h, step, args, e) ==
  /\ pc' = [pc EXCEPT ![h] = step]
  /\ call' = [call EXCEPT ![h] = args] /\ seen' = [seen EXCEPT ![h] = e]
Args(m, s, i, c) == [m |-> m, s |-> s, i |-> i, code |-> c]
Returns(h) == Goes(h, "idle", NoCall, NoDoc)

-----------------------------------------------------------------------------
(* What a method accepts.                                                  *)
LooksLikeVOIP(i) == i \in Voip
IsDisposable(i)  == i \in Disposable
mapTwilioLineType(t) ==
  CASE t = "mobile" -> "mobile"
    [] t \in {"landline", "fixedline"} -> "landline"
    [] t \in {"fixedvoip", "nonfixedvoip", "voip"} -> "voip"
    [] OTHER -> "unknown"
(* Any answer of the carrier database, of which 404 says nothing.          *)
CarrierSignals == [line : {mapTwilioLineType(t) : t \in {"mobile", "nonfixedvoip", ""}},
                   ported : BOOLEAN]
CarrierRefuses(signal) == signal.line = "voip" \/ signal.ported
(* The breach lookup may fail; only the domain check decides.              *)
Enriched == {"ok", "error"}

Put(k, e) ==
  docs' = CASE StoreOf(k[1]) = "memory" ->
                 [docs EXCEPT ![k] = [blob |-> e, until |-> Forever]]
            [] StoreOf(k[1]) = "redis" -> RedisSet(docs, k, e, e.expires - now, now)
            [] StoreOf(k[1]) = "firestore" ->
                 FirestoreSet(docs, k, e, e.expires - now, now)

(* Mutation: a new code keeps the count, and the lock, of the one before.  *)
InheritedEntry(c, i) ==
  LET old == {docs[k].blob : k \in {k \in Keys : docs[k] # NoDoc /\ k[3] = i}}
  IN IF old = {} THEN [code |-> c, input |-> i, expires |-> now + TTL,
                       attempts |-> 0, invalid |-> FALSE]
     ELSE [(CHOOSE e \in old : TRUE) EXCEPT !.code = c, !.expires = now + TTL]
NewEntry(c, i) == [code |-> c, input |-> i, expires |-> now + TTL, attempts |-> 0,
                   invalid |-> FALSE]

(* handleBeginMethod up to the sender, past the limiter (module Limiters): *)
(* the method's checks, a code, and the entry.  A store that fails before  *)
(* its effect leaves all as it was; one that fails after it ends the call. *)
Begin(h, m, s, i, accepted) ==
  /\ pc[h] = "idle" /\ m \in deployed.methods /\ drawn < deployed.codes
  /\ accepted
  /\ Put(KeyOf(m, s, i), NewEntry(drawn + 1, i))
  /\ \E answered \in BOOLEAN :
       /\ StoreOf(m) = "memory" => answered
       /\ IF answered THEN Goes(h, "send", Args(m, s, i, drawn + 1), NoDoc)
                      ELSE Returns(h)
  /\ drawn' = drawn + 1
  /\ begun' = Append(begun, [m |-> m, s |-> s, i |-> i, at |-> now])
  /\ UNCHANGED <<deployed, now, recorded, delivered, undone, guesses, used, reused>>

BeginSms(h, s, i) ==
  i \in Phones /\ Begin(h, "sms", s, i, ~LooksLikeVOIP(i))
BeginCarrier(h, s, i) ==
  /\ i \in Phones
  /\ \E signal \in CarrierSignals :
       Begin(h, "phone-carrier-tier", s, i,
             ~LooksLikeVOIP(i) /\ ~CarrierRefuses(signal))
BeginEmail(h, s, i) ==
  i \in Mails /\ Begin(h, "email", s, i, ~IsDisposable(i))
BeginTier(h, s, i) ==
  /\ i \in Mails
  /\ \E e \in Enriched :
       Begin(h, "email-tier", s, i, e = "ok" /\ ~IsDisposable(i))

(* The sender: the message arrives or not, and the call learns or not.     *)
Sent(h, arrives, ok) ==
  /\ pc[h] = "send"
  /\ ok => arrives
  /\ delivered' = IF arrives THEN delivered \cup {call[h].code} ELSE delivered
  /\ undone' = IF ok THEN undone ELSE undone \cup {call[h].code}
  /\ IF ok THEN Returns(h) ELSE Goes(h, "undo", call[h], NoDoc)
  /\ UNCHANGED <<deployed, now, docs, drawn, recorded, begun, guesses, used, reused>>
SendSms(h) ==
  \E arrives, ok \in BOOLEAN : Sent(h, arrives, ok) /\ call[h].m \in Otp
SendMail(h) ==
  \E arrives, ok \in BOOLEAN : Sent(h, arrives, ok) /\ call[h].m \in Link

(* On a sender's error the entry under the key goes, whosever it is by now.*)
Invalidate(h) ==
  /\ pc[h] = "undo"
  /\ docs' = Del(docs, KeyOf(call[h].m, call[h].s, call[h].i))
  /\ Returns(h)
  /\ UNCHANGED <<deployed, now, drawn, recorded, history>>

-----------------------------------------------------------------------------
(* Verification.                                                           *)
Attempt(h, m, s, i, c) ==
  /\ pc[h] = "idle" /\ m \in deployed.methods /\ (c = Wrong \/ c \in delivered)
  /\ i \in (IF m \in Otp THEN Phones ELSE Mails)

Dead(e) == e.invalid
Stale(e) == now > e.expires
(* Mutation: an entry outlives its last wrong attempt.                     *)
CountedOnly(e, c) ==
  IF e.code = c THEN [e EXCEPT !.invalid = TRUE] ELSE [e EXCEPT !.attempts = @ + 1]
(* The entry after an attempt: a match or the last wrong attempt closes it.*)
Counted(e, c) ==
  IF e.code = c THEN [e EXCEPT !.invalid = TRUE]
  ELSE [e EXCEPT !.attempts = @ + 1, !.invalid = (e.attempts + 1 >= MaxAttempts)]
(* What an answered attempt c against the entry e leaves in the histories. *)
Won(c) == used' = used \cup {c} /\ reused' = reused \cup ({c} \cap used)
Judge(e, c) ==
  IF e.code = c
  THEN Won(c) /\ UNCHANGED guesses
  ELSE guesses' = [guesses EXCEPT ![e.code] = @ + 1] /\ UNCHANGED <<used, reused>>

(* InMemoryStore.Verify, under its mutex.                                  *)
VerifyInMemory(h, m, s, i, c) ==
  LET k == KeyOf(m, s, i) IN
  /\ StoreOf(m) = "memory" /\ Attempt(h, m, s, i, c)
  /\ docs[k] # NoDoc /\ ~Dead(docs[k].blob)
  /\ LET e == docs[k].blob IN
     \/ /\ Stale(e) /\ docs' = Del(docs, k)
        /\ UNCHANGED <<callVars, guesses, used, reused>>
     \/ /\ ~Stale(e)
        /\ docs' = [docs EXCEPT ![k].blob = Counted(e, c)]
        /\ Judge(e, c)
        /\ IF e.code = c THEN Goes(h, "record", Args(m, s, i, c), NoDoc)
                         ELSE Returns(h)
  /\ UNCHANGED <<deployed, now, drawn, recorded, begun, delivered,
                 undone>>
SmsVerify(h, s, i, c)     == VerifyInMemory(h, "sms", s, i, c)
CarrierVerify(h, s, i, c) == VerifyInMemory(h, "phone-carrier-tier", s, i, c)

(* Verify over a shared store: the read.                                   *)
ReadEntry(h, m, s, i, c, found) ==
  LET k == KeyOf(m, s, i) IN
  /\ Attempt(h, m, s, i, c) /\ found /\ ~Dead(docs[k].blob)
  /\ Goes(h, IF Stale(docs[k].blob) THEN "delete" ELSE "write", Args(m, s, i, c),
          docs[k].blob)
  /\ UNCHANGED <<deployed, now, docs, drawn, recorded, history>>
RedisVerify(h, s, i, c) ==
  /\ deployed.backend = "redis"
  /\ ReadEntry(h, "sms", s, i, c, RedisFound(docs, KeyOf("sms", s, i), now))
FirestoreVerify(h, s, i, c) ==
  /\ deployed.backend = "firestore"
  /\ ReadEntry(h, "sms", s, i, c, FirestoreFound(docs, KeyOf("sms", s, i), now))

(* ... and the write, with what time.Until leaves of the lifetime.         *)
WriteEntry(h, c, k, set(_, _, _, _, _), ok) ==
  LET e == seen[h] IN
  /\ pc[h] = "write"
  /\ docs' = set(docs, k, Counted(e, c), e.expires - now, now)
  /\ IF ok THEN Judge(e, c) ELSE UNCHANGED <<guesses, used, reused>>
  /\ IF ok /\ e.code = c THEN Goes(h, "record", call[h], NoDoc) ELSE Returns(h)
  /\ UNCHANGED <<deployed, now, drawn, recorded, begun, delivered,
                 undone>>
RedisWrite(h) ==
  /\ deployed.backend = "redis"
  /\ \E ok \in BOOLEAN :
       WriteEntry(h, call[h].code, KeyOf("sms", call[h].s, call[h].i), RedisSet, ok)
FirestoreWrite(h) ==
  /\ deployed.backend = "firestore"
  /\ \E ok \in BOOLEAN :
       WriteEntry(h, call[h].code, KeyOf("sms", call[h].s, call[h].i), FirestoreSet, ok)

(* An entry found expired is deleted by a request of its own, on every     *)
(* shared store, and by the sync.Map of the link stores.                   *)
DeleteExpired(h) ==
  /\ pc[h] = "delete"
  /\ docs' = Del(docs, KeyOf(call[h].m, call[h].s, call[h].i))
  /\ Returns(h)
  /\ UNCHANGED <<deployed, now, drawn, recorded, history>>
(* Firestore's client does it inside Get.                                  *)
GetExpired(h, m, s, i, c) ==
  /\ StoreOf(m) = "firestore" /\ Attempt(h, m, s, i, c)
  /\ GetDeletes(docs, KeyOf(m, s, i), now)
  /\ Goes(h, "delete", Args(m, s, i, c), NoDoc)
  /\ UNCHANGED <<deployed, now, docs, drawn, recorded, history>>

(* A link: Lookup compares the token and returns the address it was stored *)
(* with; Delete is a step of its own.                                      *)
LookupLink(h, m, s, i, c, found) ==
  LET k == KeyOf(m, s, i) IN
  /\ Attempt(h, m, s, i, c) /\ found
  /\ \/ /\ Stale(docs[k].blob)
        /\ Goes(h, "delete", Args(m, s, i, c), NoDoc)
     \/ /\ ~Stale(docs[k].blob) /\ docs[k].blob.code = c
        /\ Goes(h, "consume", Args(m, s, i, c), docs[k].blob)
  /\ UNCHANGED <<deployed, now, docs, drawn, recorded, history>>
EmailLookup(h, s, i, c) ==
  /\ StoreOf("email") = "memory"
  /\ LookupLink(h, "email", s, i, c, docs[KeyOf("email", s, i)] # NoDoc)
EmailRedisLookup(h, s, i, c) ==
  /\ StoreOf("email") = "redis"
  /\ LookupLink(h, "email", s, i, c, RedisFound(docs, KeyOf("email", s, i), now))
EmailFirestoreLookup(h, s, i, c) ==
  /\ StoreOf("email") = "firestore"
  /\ LookupLink(h, "email", s, i, c, FirestoreFound(docs, KeyOf("email", s, i), now))
TierLookup(h, s, i, c) ==
  LookupLink(h, "email-tier", s, i, c, docs[KeyOf("email-tier", s, i)] # NoDoc)
(* The result of Delete is ignored.                                        *)
ConsumeLink(h) ==
  /\ pc[h] = "consume"
  /\ \E done \in BOOLEAN :
       /\ StoreOf(call[h].m) = "memory" => done
       /\ docs' = IF done THEN Del(docs, KeyOf(call[h].m, call[h].s, call[h].i))
                          ELSE docs
  /\ Won(call[h].code)
  /\ Goes(h, "record", call[h], seen[h])
  /\ UNCHANGED <<deployed, now, drawn, recorded, begun, delivered,
                 undone, guesses>>

(* recordVerified: the phone number the client named, or the address the   *)
(* link was stored with.                                                   *)
VerifiedIdentifier(h) == IF call[h].m \in Otp THEN call[h].i ELSE seen[h].input
recordVerified(h) ==
  /\ pc[h] = "record"
  /\ recorded' = recorded \cup
       {<<call[h].m, call[h].s, Normal[VerifiedIdentifier(h)]>>}
  /\ Returns(h)
  /\ UNCHANGED <<deployed, now, docs, drawn, history>>

(* A request to a shared store, or the session's, fails without effect.    *)
StoreFails(h) ==
  /\ pc[h] \in {"undo", "write", "delete", "record"}
  /\ StoreOf(call[h].m) = "memory" => pc[h] = "record"
  /\ Returns(h)
  /\ UNCHANGED <<deployed, now, docs, drawn, recorded, history>>

Tick ==
  /\ now < deployed.until /\ now' = now + 1
  /\ UNCHANGED <<deployed, docs, callVars, drawn, recorded, history>>

Begins(h, s, i) == \/ BeginSms(h, s, i) \/ BeginCarrier(h, s, i)
                   \/ BeginEmail(h, s, i) \/ BeginTier(h, s, i)
Completes(h, s, i, c) ==
  \/ SmsVerify(h, s, i, c) \/ CarrierVerify(h, s, i, c)
  \/ RedisVerify(h, s, i, c) \/ FirestoreVerify(h, s, i, c)
  \/ \E m \in Methods : GetExpired(h, m, s, i, c)
  \/ EmailLookup(h, s, i, c) \/ EmailRedisLookup(h, s, i, c)
  \/ EmailFirestoreLookup(h, s, i, c) \/ TierLookup(h, s, i, c)
Steps(h) == \/ SendSms(h) \/ SendMail(h) \/ Invalidate(h)
            \/ RedisWrite(h) \/ FirestoreWrite(h) \/ DeleteExpired(h)
            \/ ConsumeLink(h) \/ recordVerified(h) \/ StoreFails(h)
Next ==
  \/ \E h \in Handlers : Steps(h)
  \/ \E h \in Handlers, s \in Sessions, i \in deployed.inputs : Begins(h, s, i)
  \/ \E h \in Handlers, s \in Sessions, i \in deployed.inputs, c \in Codes \cup {Wrong} :
       Completes(h, s, i, c)
  \/ Tick

Spec == Init /\ [][Next]_vars

-----------------------------------------------------------------------------
(* The guesses that n calls get out of a code with d attempts left, if     *)
(* each can hold back a count it read: the others get theirs before the    *)
(* last one writes, which is one more, and then all n have d - 1 left.     *)
SharedGuesses[x \in (0..Cardinality(Handlers)) \X (0..MaxAttempts)] ==
  LET n == x[1]  d == x[2]
  IN IF n = 0 \/ d = 0 THEN 0 ELSE SharedGuesses[<<n, d - 1>>] + (SharedGuesses[<<n - 1, d>>] + 1)

(* A code sees at most MaxAttempts wrong guesses (sms.MaxAttempts).  Over  *)
(* a shared store, where calls write back what they read earlier, a run of *)
(* overlapping calls gets more, but never more than SharedGuesses.         *)
GuessesBounded ==
  \A c \in 1..drawn :
    begun[c].m \in Otp =>
      guesses[c] <= IF StoreOf(begun[c].m) = "memory" THEN MaxAttempts
                    ELSE SharedGuesses[<<Cardinality(Handlers), MaxAttempts>>]

(* store_redis.go:30: two racing calls "could each read the same           *)
(* pre-increment attempt count and both proceed, under-counting by one     *)
(* attempt in the rare worst case".                                        *)
UndercountedByOne ==
  \A c \in 1..drawn :
    begun[c].m \in Otp /\ StoreOf(begun[c].m) = "redis"
      => guesses[c] <= MaxAttempts + 1

(* In memory an OTP is good for one success, however calls interleave.     *)
SingleUse ==
  \A c \in 1..drawn :
    begun[c].m \in Otp /\ StoreOf(begun[c].m) = "memory" => c \notin reused

(* An identifier gets onto a session only by a code that was sent to it    *)
(* for that session and method and arrived, under whichever spelling the   *)
(* client names it when it answers.                                        *)
VerifiedIsProven ==
  \A r \in recorded : \E c \in delivered :
    begun[c].m = r[1] /\ begun[c].s = r[2] /\ Normal[begun[c].i] = r[3]

(* A code the person just got is accepted: in memory, the newest OTP of a  *)
(* number stands until it is used, guessed at or expires, whatever became  *)
(* of the codes before it, unless a begin for that number lost its sender. *)
NewestCodeStands ==
  \A c \in delivered :
    LET b == begun[c]  k == KeyOf(b.m, b.s, b.i)
        same == {d \in 1..drawn : KeyOf(begun[d].m, begun[d].s, begun[d].i) = k}
    IN (/\ b.m \in Otp /\ StoreOf(b.m) = "memory"
        /\ \A d \in same : d <= c /\ d \notin undone
        /\ c \notin used /\ guesses[c] = 0 /\ now <= b.at + TTL)
       => /\ docs[k] # NoDoc /\ docs[k].blob.code = c /\ ~docs[k].blob.invalid

(* What a code proves: an identifier gets onto a session only by a code    *)
(* that was sent to it, and such a code works once (VerifyCode, HandleClick). *)
ProvenOnce == VerifiedIsProven /\ SingleUse
=============================================================================
