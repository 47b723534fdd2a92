---------------------------- MODULE CodesProofs -----------------------------
(***************************************************************************)
(* Theorems of one-time codes and of the limits on asking for them         *)
(* (OneTimeCode, Limiters).                                                *)
(***************************************************************************)
EXTENDS OneTimeCode, Limiters, FiniteSetTheorems, SequenceTheorems,
        WellFoundedInduction, TLAPS

-----------------------------------------------------------------------------
(* One-time codes (OneTimeCode): what every reachable state looks like.    *)

InputsOf(m) == IF m \in Otp THEN Phones ELSE Mails
(* The key that a code was drawn for.                                      *)
CodeKey(c) == KeyOf(begun[c].m, begun[c].s, begun[c].i)
IsBegin(b) ==
  b.m \in Methods /\ b.s \in Sessions /\ b.i \in InputsOf(b.m) /\ b.at \in 0..now

(* An entry is of a code drawn for its key, and expires TTL after that.    *)
EntryIs(k, e) ==
  /\ e \in Entries /\ e.code \in 1..drawn /\ CodeKey(e.code) = k
  /\ e.input = begun[e.code].i /\ e.expires = begun[e.code].at + TTL

CallKey(h) == KeyOf(call[h].m, call[h].s, call[h].i)
(* The call was begun for the code it carries.                             *)
Drew(h) ==
  /\ call[h].code \in 1..drawn /\ begun[call[h].code].m = call[h].m
  /\ begun[call[h].code].s = call[h].s /\ begun[call[h].code].i = call[h].i
(* The code that the call carries arrived where it was sent to: at what    *)
(* the call is about to record.                                            *)
Proves(h) ==
  /\ call[h].code \in delivered /\ begun[call[h].code].m = call[h].m
  /\ begun[call[h].code].s = call[h].s
  /\ begun[call[h].code].i = VerifiedIdentifier(h)
Shared(m) == m \in Link \/ StoreOf(m) # "memory"

CallIs(h) ==
  /\ pc[h] # "idle" => call[h] \in Calls /\ call[h].i \in InputsOf(call[h].m)
  /\ pc[h] \in {"send", "undo"} => Drew(h)
  /\ pc[h] = "undo" => call[h].code \in undone
  /\ pc[h] = "write" =>
       /\ call[h].m = "sms" /\ StoreOf("sms") # "memory" /\ EntryIs(CallKey(h), seen[h])
       /\ call[h].code \in delivered \cup {Wrong}
  /\ pc[h] = "delete" => Shared(call[h].m)
  /\ pc[h] = "consume" => call[h].m \in Link /\ Proves(h)
  /\ pc[h] = "record" => Proves(h)

CallSteps == {"idle", "send", "undo", "write", "delete", "consume", "record"}
CodeShape ==
  /\ deployed \in Deployments /\ now \in 0..MaxTime /\ drawn \in 0..MaxCodes
  /\ DOMAIN docs = Keys /\ Len(begun) = drawn
  /\ begun \in Seq([m : Methods, s : Sessions, i : Inputs, at : Nat])
  /\ \A c \in 1..drawn : IsBegin(begun[c])
  /\ \A k \in Keys : docs[k] # NoDoc =>
       docs[k] \in [blob : Entries, until : Nat] /\ EntryIs(k, docs[k].blob)
  /\ pc \in [Handlers -> CallSteps] /\ DOMAIN call = Handlers /\ DOMAIN seen = Handlers
  /\ \A h \in Handlers : CallIs(h)
  /\ delivered \subseteq 1..drawn /\ undone \subseteq 1..drawn

(* A key tells the method and the session, and an OTP's the number.        *)
LEMMA KeysApart ==
  ASSUME NEW m \in Methods, NEW n \in Methods, NEW s, NEW t, NEW i, NEW j,
         KeyOf(m, s, i) = KeyOf(n, t, j)
  PROVE  m = n /\ s = t /\ (m \in Otp => i = j)
  BY DEF KeyOf, Methods, Otp, Link

LEMMA KeyIsKey ==
  ASSUME NEW m \in Methods, NEW s \in Sessions, NEW i \in InputsOf(m)
  PROVE  KeyOf(m, s, i) \in Keys /\ KeyOf(m, s, i)[1] = m /\ i \in Inputs
  <1>1. CASE m \in Otp
      BY <1>1 DEF KeyOf, Keys, InputsOf, Inputs
  <1>2. CASE m \notin Otp
      BY <1>2 DEF KeyOf, Keys, InputsOf, Inputs, Methods
  <1> QED BY <1>1, <1>2

LEMMA KeyHasMethod ==
  ASSUME NEW k \in Keys
  PROVE  k[1] \in Methods
  BY DEF Keys, KeyOf, Methods, Otp, Link

LEMMA StoreIsOne ==
  ASSUME CodeShape, NEW m
  PROVE  StoreOf(m) \in {"memory", "redis", "firestore"}
  BY CodeAssumption DEF CodeShape, StoreOf, NewOTPStoreFromEnv, NewTokenStoreFromEnv

LEMMA CodeTimes == MaxCodes \in Nat /\ MaxTime \in Nat /\ TTL \in Nat \ {0} /\ MaxAttempts \in Nat \ {0}
  BY CodeAssumption

(* Whatever the store, a put writes the entry under the key.               *)
LEMMA PutWrites ==
  ASSUME CodeShape, NEW k \in Keys, NEW e \in Entries, Put(k, e)
  PROVE  \E u \in Nat : docs' = [docs EXCEPT ![k] = [blob |-> e, until |-> u]]
  <1>1. StoreOf(k[1]) \in {"memory", "redis", "firestore"}
      BY StoreIsOne
  <1>2. Until(e.expires - now, now) \in Nat /\ Forever \in Nat
      BY CodeTimes DEF Until, Forever, Entries, CodeShape
  <1> QED BY <1>1, <1>2 DEF Put, RedisSet, FirestoreSet

(* Time goes on, codes are drawn, messages arrive and fail: what is known  *)
(* of the codes drawn so far stays so.                                     *)
Onward ==
  /\ deployed' = deployed /\ now <= now' /\ drawn <= drawn'
  /\ \A c \in 1..drawn : begun'[c] = begun[c]
  /\ delivered \subseteq delivered' /\ undone \subseteq undone'

LEMMA EntryStands ==
  ASSUME CodeShape, Onward, drawn' \in Nat
  PROVE  \A k, e : EntryIs(k, e) => EntryIs(k, e)'
  <1> SUFFICES ASSUME NEW k, NEW e, EntryIs(k, e) PROVE EntryIs(k, e)'
      OBVIOUS
  <1>1. e.code \in 1..drawn' /\ begun'[e.code] = begun[e.code]
      BY DEF EntryIs, Onward, CodeShape
  <1> QED BY <1>1 DEF EntryIs, CodeKey, Entries

LEMMA CallStands ==
  ASSUME CodeShape, Onward, drawn' \in Nat, NEW h \in Handlers,
         pc'[h] = pc[h], call'[h] = call[h], seen'[h] = seen[h]
  PROVE  CallIs(h)'
  <1>1. CallIs(h) /\ delivered \subseteq 1..drawn
      BY DEF CodeShape
  <1>2. \A m : StoreOf(m)' = StoreOf(m)
      BY DEF Onward, StoreOf, NewOTPStoreFromEnv, NewTokenStoreFromEnv
  <1>3. CallKey(h)' = CallKey(h) /\ VerifiedIdentifier(h)' = VerifiedIdentifier(h)
      BY DEF CallKey, VerifiedIdentifier
  <1>4. pc[h] # "idle" => call'[h] \in Calls /\ call'[h].i \in InputsOf(call'[h].m)
      BY <1>1 DEF CallIs
  <1>5. pc[h] \in {"send", "undo"} => Drew(h)'
      BY <1>1 DEF CallIs, Drew, Onward, CodeShape
  <1>6. pc[h] = "undo" => call'[h].code \in undone'
      BY <1>1 DEF CallIs, Onward
  <1>7. pc[h] = "write" =>
          /\ call'[h].m = "sms" /\ StoreOf("sms")' # "memory" /\ EntryIs(CallKey(h), seen[h])'
          /\ call'[h].code \in delivered' \cup {Wrong}
    <2>1. \A e : EntryIs(CallKey(h), e) => EntryIs(CallKey(h), e)'
        BY <1>3, EntryStands
    <2> QED BY <1>1, <1>2, <2>1 DEF CallIs, Onward
  <1>8. pc[h] = "delete" => Shared(call[h].m)'
      BY <1>1, <1>2 DEF CallIs, Shared
  <1>9. Proves(h) => Proves(h)'
      BY <1>1, <1>3 DEF Proves, Onward
  <1> QED BY <1>1, <1>4, <1>5, <1>6, <1>7, <1>8, <1>9 DEF CallIs

LEMMA GoesTo ==
  ASSUME CodeShape, NEW h \in Handlers, NEW step, NEW args, NEW e, Goes(h, step, args, e)
  PROVE  /\ pc'[h] = step /\ call'[h] = args /\ seen'[h] = e
         /\ DOMAIN pc' = Handlers /\ DOMAIN call' = Handlers /\ DOMAIN seen' = Handlers
         /\ \A k \in Handlers \ {h} : pc'[k] = pc[k] /\ call'[k] = call[k] /\ seen'[k] = seen[k]
         /\ step \in CallSteps => pc' \in [Handlers -> CallSteps]
  BY DEF Goes, CodeShape

(* A step of one call keeps the shape if what it writes, and what the call *)
(* carries then, is sound.                                                 *)
LEMMA ShapeKept ==
  ASSUME CodeShape, NEW h \in Handlers, Onward, drawn' \in 0..MaxCodes, now' \in 0..MaxTime,
         pc' \in [Handlers -> CallSteps], DOMAIN call' = Handlers, DOMAIN seen' = Handlers,
         \A k \in Handlers \ {h} : pc'[k] = pc[k] /\ call'[k] = call[k] /\ seen'[k] = seen[k],
         CallIs(h)', DOMAIN docs' = Keys,
         \A k \in Keys : docs'[k] = NoDoc \/ docs'[k] = docs[k] \/
           (docs'[k] \in [blob : Entries, until : Nat] /\ EntryIs(k, docs[k].blob)'),
         begun' \in Seq([m : Methods, s : Sessions, i : Inputs, at : Nat]), Len(begun') = drawn',
         \A c \in 1..drawn' : IsBegin(begun[c])',
         delivered' \subseteq 1..drawn', undone' \subseteq 1..drawn'
  PROVE  CodeShape'
  <1>1. drawn' \in Nat
      BY CodeTimes
  <1>2. ASSUME NEW k \in Handlers PROVE CallIs(k)'
    <2>1. CASE k = h
        BY <2>1
    <2>2. CASE k # h
        BY <2>2, <1>1, CallStands
    <2> QED BY <2>1, <2>2
  <1>3. ASSUME NEW k \in Keys, docs'[k] # NoDoc
        PROVE  docs'[k] \in [blob : Entries, until : Nat] /\ EntryIs(k, docs[k].blob)'
    <2>1. CASE docs'[k] = docs[k]
      <3>1. docs[k] \in [blob : Entries, until : Nat] /\ EntryIs(k, docs[k].blob)
          BY <2>1, <1>3 DEF CodeShape
      <3>2. EntryIs(k, docs[k].blob)'
          BY <2>1, <3>1, <1>1, EntryStands
      <3> QED BY <2>1, <3>1, <3>2
    <2>2. CASE docs'[k] # docs[k]
        BY <2>2, <1>3
    <2> QED BY <2>1, <2>2
  <1>4. deployed' \in Deployments
      BY DEF CodeShape, Onward
  <1> QED BY <1>2, <1>3, <1>4 DEF CodeShape

(* Most steps draw nothing and leave the clock alone.                      *)
Drawing == <<deployed, now, drawn, begun>>
LEMMA SameCodes ==
  ASSUME CodeShape, UNCHANGED Drawing
  PROVE  /\ drawn' \in 0..MaxCodes /\ now' \in 0..MaxTime /\ drawn' \in Nat
         /\ begun' \in Seq([m : Methods, s : Sessions, i : Inputs, at : Nat]) /\ Len(begun') = drawn'
         /\ \A c \in 1..drawn' : IsBegin(begun[c])'
         /\ \A m : StoreOf(m)' = StoreOf(m)
         /\ delivered \subseteq delivered' /\ undone \subseteq undone' => Onward
  BY CodeTimes, SMTT(30) DEF CodeShape, Drawing, IsBegin, InputsOf, Onward, StoreOf, NewOTPStoreFromEnv,
                   NewTokenStoreFromEnv

LEMMA CodeInitial == Init => CodeShape
  <1> SUFFICES ASSUME Init PROVE CodeShape
      OBVIOUS
  <1>1. begun \in Seq([m : Methods, s : Sessions, i : Inputs, at : Nat]) /\ Len(begun) = 0
      BY DEF Init
  <1>2. \A h \in Handlers : CallIs(h)
      BY DEF Init, CallIs
  <1> QED BY <1>1, <1>2, CodeTimes DEF Init, CodeShape, CallSteps

(* A begin stores a code of its own, drawn for the key it is stored under. *)
LEMMA BeginShape ==
  ASSUME CodeShape, NEW h \in Handlers, NEW m \in Methods, NEW s \in Sessions, NEW i \in InputsOf(m),
         NEW accepted, Begin(h, m, s, i, accepted)
  PROVE  /\ CodeShape' /\ Onward /\ drawn' = drawn + 1 /\ drawn' \in Codes
         /\ CodeKey(drawn)' = KeyOf(m, s, i)
         /\ \E u \in Nat : docs' = [docs EXCEPT ![KeyOf(m, s, i)] =
                                      [blob |-> NewEntry(drawn + 1, i), until |-> u]]
  <1> DEFINE k == KeyOf(m, s, i)
  <1>0. PICK e, b, args : /\ e = NewEntry(drawn + 1, i) /\ args = Args(m, s, i, drawn + 1)
                          /\ b = [m |-> m, s |-> s, i |-> i, at |-> now]
      OBVIOUS
  <1>1. /\ Put(k, e) /\ drawn' = drawn + 1 /\ drawn < deployed.codes
        /\ begun' = Append(begun, b) /\ UNCHANGED <<deployed, now, delivered, undone>>
        /\ Goes(h, "send", args, NoDoc) \/ Returns(h)
      BY <1>0 DEF Begin
  <1>2. k \in Keys /\ i \in Inputs
      BY KeyIsKey
  <1>3. drawn' \in Codes /\ drawn' \in 0..MaxCodes /\ drawn \in Nat
    <2>1. deployed.codes \in 0..MaxCodes
        BY CodeAssumption DEF CodeShape
    <2> QED BY <1>1, <2>1, CodeTimes DEF CodeShape, Codes
  <1>4. /\ e \in Entries /\ e.code = drawn + 1 /\ e.input = i /\ e.expires = now + TTL
        /\ args \in Calls /\ args.code = drawn + 1 /\ args.m = m /\ args.s = s /\ args.i = i
        /\ b \in [m : Methods, s : Sessions, i : Inputs, at : Nat]
        /\ b.m = m /\ b.s = s /\ b.i = i /\ b.at = now /\ IsBegin(b)
      BY <1>0, <1>1, <1>2, <1>3, CodeTimes DEF NewEntry, Entries, Args, Calls, CodeShape, IsBegin, Codes
  <1>5. PICK u \in Nat : docs' = [docs EXCEPT ![k] = [blob |-> e, until |-> u]]
      BY <1>1, <1>2, <1>4, PutWrites
  <1> HIDE DEF k
  <1>6. /\ begun' \in Seq([m : Methods, s : Sessions, i : Inputs, at : Nat]) /\ Len(begun') = drawn'
        /\ begun'[drawn'] = b /\ \A c \in 1..drawn : begun'[c] = begun[c]
      BY <1>1, <1>3, <1>4, AppendProperties DEF CodeShape
  <1>7. Onward
      BY <1>1, <1>3, <1>6 DEF Onward, CodeShape
  <1>8. \A c \in 1..drawn' : IsBegin(begun[c])'
    <2> SUFFICES ASSUME NEW c \in 1..drawn' PROVE IsBegin(begun[c])'
        OBVIOUS
    <2>1. CASE c = drawn'
        BY <2>1, <1>1, <1>4, <1>6 DEF IsBegin, InputsOf
    <2>2. CASE c # drawn'
      <3>1. c \in 1..drawn
          BY <2>2, <1>1, <1>3
      <3> QED BY <3>1, <1>1, <1>6 DEF CodeShape, IsBegin, InputsOf
    <2> QED BY <2>1, <2>2
  <1>9. CodeKey(drawn)' = k
      BY <1>4, <1>6 DEF CodeKey, k
  <1>10. EntryIs(k, e)'
      BY <1>1, <1>3, <1>4, <1>6, <1>9 DEF EntryIs, CodeKey
  <1>11. \A j \in Keys : docs'[j] = NoDoc \/ docs'[j] = docs[j] \/
           (docs'[j] \in [blob : Entries, until : Nat] /\ EntryIs(j, docs[j].blob)')
    <2> SUFFICES ASSUME NEW j \in Keys, docs'[j] # docs[j]
                 PROVE  docs'[j] \in [blob : Entries, until : Nat] /\ EntryIs(j, docs[j].blob)'
        OBVIOUS
    <2>1. j = k /\ docs'[j] = [blob |-> e, until |-> u]
        BY <1>2, <1>5 DEF CodeShape
    <2>2. docs'[j].blob = e
        BY <2>1
    <2> QED BY <2>1, <2>2, <1>4, <1>10 DEF EntryIs, CodeKey
  <1>12. CodeShape'
    <2>1. /\ DOMAIN call' = Handlers /\ DOMAIN seen' = Handlers /\ pc' \in [Handlers -> CallSteps]
          /\ \A j \in Handlers \ {h} : pc'[j] = pc[j] /\ call'[j] = call[j] /\ seen'[j] = seen[j]
          /\ pc'[h] = "idle" \/ (pc'[h] = "send" /\ call'[h] = args)
        BY <1>1, GoesTo DEF Returns, CallSteps
    <2>2. CallIs(h)'
      <3>1. CASE pc'[h] = "idle"
          BY <3>1 DEF CallIs
      <3>2. CASE pc'[h] = "send" /\ call'[h] = args
        <4>1. call'[h].code = drawn' /\ drawn' \in 1..drawn' /\ begun'[call'[h].code] = b
            BY <3>2, <1>1, <1>3, <1>4, <1>6
        <4>2. Drew(h)'
            BY <4>1, <3>2, <1>4 DEF Drew
        <4> QED BY <4>2, <3>2, <1>4 DEF CallIs, InputsOf
      <3> QED BY <2>1, <3>1, <3>2
    <2>3. DOMAIN docs' = Keys /\ now' \in 0..MaxTime
        BY <1>1, <1>5 DEF CodeShape
    <2>4. delivered' \subseteq 1..drawn' /\ undone' \subseteq 1..drawn'
        BY <1>1, <1>3 DEF CodeShape
    <2> QED BY <2>1, <2>2, <2>3, <2>4, <1>3, <1>6, <1>7, <1>8, <1>11, ShapeKept
  <1> QED BY <1>0, <1>1, <1>3, <1>5, <1>7, <1>9, <1>12 DEF k

(* A step that draws no code: what it writes and carries has to be sound.  *)
DocsSound ==
  /\ DOMAIN docs' = Keys
  /\ \A k \in Keys : docs'[k] = NoDoc \/ docs'[k] = docs[k] \/
       (docs'[k] \in [blob : Entries, until : Nat] /\ EntryIs(k, docs[k].blob)')
Told ==
  /\ delivered \subseteq delivered' /\ delivered' \subseteq 1..drawn
  /\ undone \subseteq undone' /\ undone' \subseteq 1..drawn
LEMMA ShapeMoves ==
  ASSUME CodeShape, UNCHANGED Drawing, NEW h \in Handlers, NEW step \in CallSteps, NEW args, NEW e,
         Goes(h, step, args, e), CallIs(h)', Told, DocsSound
  PROVE  CodeShape' /\ Onward
  <1>1. Onward
      BY SameCodes DEF Told
  <1>2. delivered' \subseteq 1..drawn' /\ undone' \subseteq 1..drawn'
      BY DEF Told, Drawing
  <1> QED BY <1>1, <1>2, GoesTo, SameCodes, ShapeKept DEF DocsSound

LEMMA NothingTold ==
  ASSUME CodeShape, UNCHANGED <<delivered, undone>>
  PROVE  Told
  BY DEF CodeShape, Told

LEMMA NothingWritten ==
  ASSUME CodeShape, UNCHANGED docs
  PROVE  DocsSound
  BY DEF CodeShape, DocsSound

LEMMA Deleted ==
  ASSUME CodeShape, NEW k \in Keys, docs' = Del(docs, k)
  PROVE  /\ DocsSound /\ docs'[k] = NoDoc
         /\ \A j \in Keys : j # k => docs'[j] = docs[j]
  BY DEF CodeShape, DocsSound, Del

LEMMA ReturnsTo ==
  ASSUME CodeShape, NEW h \in Handlers, Returns(h)
  PROVE  CallIs(h)'
  BY GoesTo DEF Returns, CallIs

LEMMA ReturnShape ==
  ASSUME CodeShape, UNCHANGED Drawing, NEW h \in Handlers, Returns(h), Told, DocsSound
  PROVE  CodeShape' /\ Onward
  BY ReturnsTo, ShapeMoves DEF Returns, CallSteps

LEMMA CallHasKey ==
  ASSUME CodeShape, NEW h \in Handlers, pc[h] # "idle"
  PROVE  CallKey(h) \in Keys /\ CallKey(h)[1] = call[h].m /\ call[h].m \in Methods
  <1>1. call[h] \in Calls /\ call[h].i \in InputsOf(call[h].m) /\ call[h].m \in Methods /\ call[h].s \in Sessions
      BY DEF CodeShape, CallIs, Calls
  <1> QED BY <1>1, KeyIsKey DEF CallKey

LEMMA SentShape ==
  ASSUME CodeShape, NEW h \in Handlers, NEW arrives, NEW ok, Sent(h, arrives, ok)
  PROVE  CodeShape' /\ Onward
  <1>1. /\ pc[h] = "send" /\ UNCHANGED Drawing /\ UNCHANGED docs
        /\ delivered' \in {delivered, delivered \cup {call[h].code}}
        /\ undone' = IF ok THEN undone ELSE undone \cup {call[h].code}
        /\ IF ok THEN Returns(h) ELSE Goes(h, "undo", call[h], NoDoc)
      BY DEF Sent, Drawing
  <1>2. /\ call[h] \in Calls /\ call[h].i \in InputsOf(call[h].m) /\ Drew(h)
      BY <1>1 DEF CodeShape, CallIs
  <1>3. Told
      BY <1>1, <1>2 DEF CodeShape, Told, Drew
  <1>4. CASE ok
      BY <1>1, <1>3, <1>4, ReturnShape, NothingWritten
  <1>5. CASE ~ok
    <2>1. pc'[h] = "undo" /\ call'[h] = call[h] /\ Goes(h, "undo", call[h], NoDoc)
        BY <1>1, <1>5, GoesTo
    <2>2. Drew(h)'
        BY <2>1, <1>1, <1>2 DEF Drew, Drawing
    <2>3. CallIs(h)'
        BY <2>1, <2>2, <1>1, <1>2, <1>5 DEF CallIs, InputsOf
    <2> QED BY <2>1, <2>3, <1>1, <1>3, ShapeMoves, NothingWritten DEF CallSteps
  <1> QED BY <1>4, <1>5

(* A call deletes what is under its key, and returns.                      *)
LEMMA DeleteShape ==
  ASSUME CodeShape, NEW h \in Handlers, Invalidate(h) \/ DeleteExpired(h)
  PROVE  CodeShape' /\ Onward
  <1>1. /\ pc[h] # "idle" /\ docs' = Del(docs, CallKey(h)) /\ Returns(h) /\ UNCHANGED Drawing
        /\ UNCHANGED <<delivered, undone>>
      BY DEF Invalidate, DeleteExpired, CallKey, Drawing, history
  <1>2. CallKey(h) \in Keys
      BY <1>1, CallHasKey
  <1>3. DocsSound
      BY <1>1, <1>2, Deleted
  <1> QED BY <1>1, <1>3, NothingTold, ReturnShape

LEMMA FailShape ==
  ASSUME CodeShape, NEW h \in Handlers, StoreFails(h) \/ recordVerified(h)
  PROVE  CodeShape' /\ Onward
  <1>1. Returns(h) /\ UNCHANGED Drawing /\ UNCHANGED docs /\ UNCHANGED <<delivered, undone>>
      BY DEF StoreFails, recordVerified, Drawing, history
  <1> QED BY <1>1, NothingTold, NothingWritten, ReturnShape

LEMMA TickShape ==
  ASSUME CodeShape, Tick \/ UNCHANGED vars
  PROVE  CodeShape' /\ Onward
  <1>1. /\ UNCHANGED <<deployed, drawn, begun, docs, pc, call, seen, delivered, undone>>
        /\ now' = now \/ (now < deployed.until /\ now' = now + 1)
      BY DEF Tick, vars, callVars, history
  <1>2. deployed.until \in 0..MaxTime
      BY CodeAssumption DEF CodeShape
  <1>3. now' \in 0..MaxTime /\ now <= now' /\ drawn \in Nat
      BY <1>1, <1>2, CodeTimes DEF CodeShape
  <1>4. Onward
      BY <1>1, <1>3 DEF Onward
  <1>5. \A h \in Handlers : CallIs(h)'
      BY <1>1, <1>3, <1>4, CallStands
  <1>6. \A k \in Keys : docs[k] # NoDoc => EntryIs(k, docs[k].blob)'
    <2>1. \A k, e : EntryIs(k, e) => EntryIs(k, e)'
        BY <1>1, <1>3, <1>4, EntryStands
    <2> QED BY <2>1, <1>1 DEF CodeShape
  <1>7. \A c \in 1..drawn : IsBegin(begun[c])'
      BY <1>1, <1>3 DEF CodeShape, IsBegin, InputsOf
  <1> QED BY <1>1, <1>3, <1>4, <1>5, <1>6, <1>7 DEF CodeShape

LEMMA ArgsAre ==
  ASSUME CodeShape, NEW m \in Methods, NEW s \in Sessions, NEW i \in InputsOf(m),
         NEW c \in delivered \cup {Wrong}
  PROVE  /\ Args(m, s, i, c) \in Calls /\ Args(m, s, i, c).m = m /\ Args(m, s, i, c).s = s
         /\ Args(m, s, i, c).i = i /\ Args(m, s, i, c).code = c
  <1>1. i \in Inputs
      BY DEF InputsOf, Inputs
  <1>2. c \in Codes \cup {Wrong}
      BY CodeTimes DEF CodeShape, Codes
  <1> QED BY <1>1, <1>2 DEF Args, Calls

LEMMA AttemptIs ==
  ASSUME CodeShape, NEW h \in Handlers, NEW m, NEW s \in Sessions, NEW i, NEW c, Attempt(h, m, s, i, c)
  PROVE  pc[h] = "idle" /\ m \in Methods /\ i \in InputsOf(m) /\ c \in delivered \cup {Wrong}
  BY CodeAssumption DEF Attempt, CodeShape, InputsOf

LEMMA CountedIs ==
  ASSUME NEW e \in Entries, NEW c
  PROVE  /\ Counted(e, c) \in Entries /\ Counted(e, c).code = e.code /\ Counted(e, c).input = e.input
         /\ Counted(e, c).expires = e.expires
         /\ e.code = c => Counted(e, c).invalid
         /\ e.code # c => /\ Counted(e, c).attempts = e.attempts + 1
                          /\ Counted(e, c).invalid = (e.attempts + 1 >= MaxAttempts)
  <1>1. CASE e.code = c
      BY <1>1 DEF Counted, Entries
  <1>2. CASE e.code # c
    <2> DEFINE n == e.attempts + 1
               b == e.attempts + 1 >= MaxAttempts
    <2>1. Counted(e, c) = [e EXCEPT !.attempts = n, !.invalid = b]
        BY <1>2 DEF Counted, Entries
    <2>2. n \in Nat /\ b \in BOOLEAN
        BY CodeTimes DEF Entries
    <2> HIDE DEF n, b
    <2>3. Counted(e, c) \in Entries /\ Counted(e, c).attempts = n /\ Counted(e, c).invalid = b
        BY <2>1, <2>2 DEF Entries
    <2>4. /\ Counted(e, c).code = e.code /\ Counted(e, c).input = e.input
          /\ Counted(e, c).expires = e.expires
        BY <2>1 DEF Entries
    <2> QED BY <1>2, <2>3, <2>4 DEF n, b
  <1> QED BY <1>1, <1>2

(* An OTP that matches was sent to the number the client named.            *)
LEMMA MatchProves ==
  ASSUME CodeShape, NEW m \in Otp, NEW s \in Sessions, NEW i \in InputsOf(m), NEW e,
         EntryIs(KeyOf(m, s, i), e), e.code \in delivered \cup {Wrong}
  PROVE  /\ e.code \in delivered /\ begun[e.code].m = m /\ begun[e.code].s = s /\ begun[e.code].i = i
  <1>1. e.code \in 1..drawn /\ CodeKey(e.code) = KeyOf(m, s, i)
      BY DEF EntryIs
  <1>2. e.code \in delivered /\ begun[e.code].m \in Methods
      BY <1>1 DEF Wrong, CodeShape, IsBegin
  <1> QED BY <1>1, <1>2, KeysApart DEF CodeKey, Methods

LEMMA InMemoryShape ==
  ASSUME CodeShape, NEW h \in Handlers, NEW m \in Otp, NEW s \in Sessions, NEW i, NEW c,
         VerifyInMemory(h, m, s, i, c)
  PROVE  CodeShape' /\ Onward
  <1> DEFINE k == KeyOf(m, s, i)
  <1>1. /\ Attempt(h, m, s, i, c) /\ docs[k] # NoDoc
        /\ UNCHANGED Drawing /\ UNCHANGED <<delivered, undone>>
      BY DEF VerifyInMemory, Drawing
  <1>2. m \in Methods /\ i \in InputsOf(m) /\ c \in delivered \cup {Wrong}
      BY <1>1, AttemptIs
  <1>3. k \in Keys
      BY <1>2, KeyIsKey
  <1>4. PICK e : e = docs[k].blob
      OBVIOUS
  <1>5. /\ e \in Entries /\ EntryIs(k, e) /\ docs[k] \in [blob : Entries, until : Nat]
      BY <1>1, <1>3, <1>4 DEF CodeShape
  <1>6. CASE docs' = Del(docs, k) /\ UNCHANGED callVars
    <2>1. DocsSound
        BY <1>3, <1>6, Deleted
    <2>2. Onward
        BY <1>1, SameCodes
    <2>3. \A j \in Handlers : CallIs(j)'
        BY <1>1, <1>6, <2>2, SameCodes, CallStands DEF callVars
    <2>4. CallIs(h)' /\ pc' \in [Handlers -> CallSteps] /\ DOMAIN call' = Handlers /\ DOMAIN seen' = Handlers
          /\ \A j \in Handlers \ {h} : pc'[j] = pc[j] /\ call'[j] = call[j] /\ seen'[j] = seen[j]
        BY <1>6, <2>3 DEF callVars, CodeShape
    <2>5. delivered' \subseteq 1..drawn' /\ undone' \subseteq 1..drawn'
        BY <1>1 DEF CodeShape, Drawing
    <2> QED BY <1>1, <2>1, <2>2, <2>4, <2>5, SameCodes, ShapeKept DEF DocsSound
  <1>7. CASE /\ docs' = [docs EXCEPT ![k].blob = Counted(e, c)]
             /\ IF e.code = c THEN Goes(h, "record", Args(m, s, i, c), NoDoc) ELSE Returns(h)
    <2>1. PICK f : f = Counted(e, c)
        OBVIOUS
    <2>2. EntryIs(k, f)'
        BY <1>1, <1>5, <2>1, CountedIs DEF EntryIs, CodeKey, Drawing
    <2>3. docs'[k].blob = f /\ docs'[k] \in [blob : Entries, until : Nat]
        BY <1>3, <1>5, <1>7, <2>1, CountedIs DEF CodeShape
    <2>4. EntryIs(k, docs[k].blob)'
        BY <2>2, <2>3 DEF EntryIs, CodeKey
    <2>5. DocsSound
        BY <1>3, <1>7, <2>3, <2>4 DEF DocsSound, CodeShape
    <2>6. CASE e.code = c
      <3>1. /\ begun[c].m = m /\ begun[c].s = s /\ begun[c].i = i /\ c \in delivered
          BY <1>2, <1>5, <2>6, MatchProves
      <3>2. Goes(h, "record", Args(m, s, i, c), NoDoc)
          BY <1>7, <2>6
      <3>3. pc'[h] = "record" /\ call'[h] = Args(m, s, i, c)
          BY <3>2, GoesTo
      <3>4. CallIs(h)'
          BY <1>1, <1>2, <3>1, <3>3, ArgsAre
             DEF CallIs, Proves, VerifiedIdentifier, Drawing, InputsOf
      <3> QED BY <1>1, <2>5, <3>2, <3>4, NothingTold, ShapeMoves DEF CallSteps
    <2>7. CASE e.code # c
        BY <1>1, <1>7, <2>5, <2>7, NothingTold, ReturnShape
    <2> QED BY <2>6, <2>7
  <1> QED BY <1>4, <1>6, <1>7 DEF VerifyInMemory

(* What a request finds in a shared store, or the store under its mutex.   *)
LEMMA FoundIs ==
  ASSUME CodeShape, NEW m \in Methods, NEW s \in Sessions, NEW i \in InputsOf(m),
         docs[KeyOf(m, s, i)] # NoDoc
  PROVE  EntryIs(KeyOf(m, s, i), docs[KeyOf(m, s, i)].blob)
  BY KeyIsKey DEF CodeShape

LEMMA EntryKept ==
  ASSUME CodeShape, NEW k, NEW e, EntryIs(k, e), UNCHANGED Drawing
  PROVE  EntryIs(k, e)'
  BY DEF EntryIs, CodeKey, Drawing, Entries

LEMMA ReadShape ==
  ASSUME CodeShape, NEW h \in Handlers, NEW s \in Sessions, NEW i, NEW c, NEW found,
         StoreOf("sms") # "memory", ReadEntry(h, "sms", s, i, c, found),
         found => docs[KeyOf("sms", s, i)] # NoDoc
  PROVE  CodeShape' /\ Onward
  <1> DEFINE k == KeyOf("sms", s, i)
             a == Args("sms", s, i, c)
  <1>0. PICK e : e = docs[k].blob
      OBVIOUS
  <1>1. /\ Attempt(h, "sms", s, i, c) /\ docs[k] # NoDoc /\ UNCHANGED Drawing /\ UNCHANGED docs
        /\ UNCHANGED <<delivered, undone>>
        /\ Goes(h, "delete", a, e) \/ Goes(h, "write", a, e)
      BY <1>0 DEF ReadEntry, Drawing, history
  <1>2. "sms" \in Methods /\ i \in InputsOf("sms") /\ c \in delivered \cup {Wrong}
      BY <1>1, AttemptIs
  <1>3. EntryIs(k, e)
      BY <1>0, <1>1, <1>2, FoundIs
  <1>4. /\ a \in Calls /\ a.m = "sms" /\ a.s = s /\ a.i = i /\ a.code = c
      BY <1>2, ArgsAre
  <1>5. call'[h] = a /\ seen'[h] = e /\ pc'[h] \in {"delete", "write"}
      BY <1>1, GoesTo
  <1>6. EntryIs(k, e)' /\ StoreOf("sms")' # "memory"
      BY <1>1, <1>3, EntryKept, SameCodes
  <1>7. CallIs(h)'
    <2>1. CallKey(h)' = k
        BY <1>4, <1>5 DEF CallKey
    <2>2. EntryIs(CallKey(h), seen[h])'
        BY <2>1, <1>5, <1>6 DEF EntryIs, CodeKey
    <2>3. Shared(call[h].m)'
        BY <1>4, <1>5, <1>6 DEF Shared
    <2> QED BY <2>2, <2>3, <1>1, <1>2, <1>4, <1>5, <1>6 DEF CallIs, InputsOf
  <1> QED BY <1>1, <1>7, NothingTold, NothingWritten, ShapeMoves DEF CallSteps

(* The write over a shared store puts back the entry that was read.        *)
WritesBack(h, e) ==
  \E u \in Nat : docs' = [docs EXCEPT ![CallKey(h)] =
                            [blob |-> Counted(e, call[h].code), until |-> u]]
LEMMA WriteShape ==
  ASSUME CodeShape, NEW h \in Handlers, RedisWrite(h) \/ FirestoreWrite(h)
  PROVE  /\ CodeShape' /\ Onward /\ pc[h] = "write" /\ WritesBack(h, seen[h])
         /\ \/ UNCHANGED <<guesses, used, reused>>
            \/ Judge(seen[h], call[h].code)
  <1>1. /\ pc[h] = "write" /\ UNCHANGED Drawing /\ UNCHANGED <<delivered, undone>>
        /\ WritesBack(h, seen[h])
        /\ \/ UNCHANGED <<guesses, used, reused>>
           \/ Judge(seen[h], call[h].code)
        /\ \/ seen[h].code = call[h].code /\ Goes(h, "record", call[h], NoDoc)
           \/ Returns(h)
    <2>1. pc[h] = "write" /\ EntryIs(CallKey(h), seen[h]) /\ call[h].m = "sms"
        BY DEF CodeShape, CallIs, RedisWrite, FirestoreWrite, WriteEntry
    <2>2. Until(seen[h].expires - now, now) \in Nat
        BY <2>1 DEF EntryIs, Entries, Until, Forever, CodeShape
    <2>3. WritesBack(h, seen[h])
        BY <2>1, <2>2 DEF WritesBack, CallKey, RedisWrite, FirestoreWrite, WriteEntry, RedisSet,
                          FirestoreSet
    <2>4. PICK ok \in BOOLEAN :
            /\ IF ok THEN Judge(seen[h], call[h].code) ELSE UNCHANGED <<guesses, used, reused>>
            /\ IF ok /\ seen[h].code = call[h].code THEN Goes(h, "record", call[h], NoDoc)
                                                     ELSE Returns(h)
            /\ UNCHANGED <<deployed, now, drawn, recorded, begun, delivered, undone>>
        BY DEF RedisWrite, FirestoreWrite, WriteEntry
    <2> QED BY <2>1, <2>3, <2>4 DEF Drawing
  <1>2. /\ call[h] \in Calls /\ call[h].m = "sms" /\ call[h].i \in InputsOf("sms")
        /\ call[h].s \in Sessions /\ EntryIs(CallKey(h), seen[h])
        /\ call[h].code \in delivered \cup {Wrong}
      BY <1>1 DEF CodeShape, CallIs, Calls
  <1>3. PICK k, e, f : k = CallKey(h) /\ e = seen[h] /\ f = Counted(e, call[h].code)
      OBVIOUS
  <1>4. k \in Keys
      BY <1>1, <1>3, CallHasKey
  <1>5. PICK u \in Nat : docs' = [docs EXCEPT ![k] = [blob |-> f, until |-> u]]
      BY <1>1, <1>3 DEF WritesBack
  <1>6. EntryIs(k, e) /\ e \in Entries /\ f \in Entries
      BY <1>2, <1>3, CountedIs DEF EntryIs
  <1>7. EntryIs(k, f)'
      BY <1>1, <1>3, <1>6, CountedIs DEF EntryIs, CodeKey, Drawing
  <1>8. docs'[k].blob = f /\ docs'[k] \in [blob : Entries, until : Nat]
      BY <1>4, <1>5, <1>6 DEF CodeShape
  <1>9. EntryIs(k, docs[k].blob)'
      BY <1>7, <1>8 DEF EntryIs, CodeKey
  <1>10. DocsSound
      BY <1>4, <1>5, <1>8, <1>9 DEF DocsSound, CodeShape
  <1>11. CASE Returns(h)
      BY <1>1, <1>10, <1>11, NothingTold, ReturnShape
  <1>12. CASE seen[h].code = call[h].code /\ Goes(h, "record", call[h], NoDoc)
    <2>1. /\ e.code = call[h].code /\ e.code \in delivered /\ begun[e.code].m = "sms"
          /\ begun[e.code].s = call[h].s /\ begun[e.code].i = call[h].i
        BY <1>2, <1>3, <1>12, MatchProves DEF CallKey, Otp
    <2>2. pc'[h] = "record" /\ call'[h] = call[h]
        BY <1>12, GoesTo
    <2>3. Proves(h)'
        BY <1>1, <1>2, <2>1, <2>2 DEF Proves, VerifiedIdentifier, Drawing, Otp
    <2>4. CallIs(h)'
        BY <1>2, <2>2, <2>3 DEF CallIs, InputsOf
    <2> QED BY <1>1, <1>10, <1>12, <2>4, NothingTold, ShapeMoves DEF CallSteps
  <1> QED BY <1>1, <1>11, <1>12

LEMMA GetExpiredShape ==
  ASSUME CodeShape, NEW h \in Handlers, NEW m, NEW s \in Sessions, NEW i, NEW c,
         GetExpired(h, m, s, i, c)
  PROVE  CodeShape' /\ Onward
  <1>1. /\ Attempt(h, m, s, i, c) /\ StoreOf(m) = "firestore" /\ UNCHANGED Drawing /\ UNCHANGED docs
        /\ UNCHANGED <<delivered, undone>> /\ Goes(h, "delete", Args(m, s, i, c), NoDoc)
      BY DEF GetExpired, Drawing, history
  <1>2. m \in Methods /\ i \in InputsOf(m) /\ c \in delivered \cup {Wrong}
      BY <1>1, AttemptIs
  <1>3. pc'[h] = "delete" /\ call'[h] = Args(m, s, i, c) /\ StoreOf(m)' # "memory"
      BY <1>1, GoesTo, SameCodes
  <1>4. Shared(call[h].m)'
      BY <1>2, <1>3, ArgsAre DEF Shared
  <1>5. CallIs(h)'
      BY <1>2, <1>3, <1>4, ArgsAre DEF CallIs, InputsOf
  <1> QED BY <1>1, <1>5, NothingTold, NothingWritten, ShapeMoves DEF CallSteps

LEMMA LookupShape ==
  ASSUME CodeShape, NEW h \in Handlers, NEW m \in Link, NEW s \in Sessions, NEW i, NEW c, NEW found,
         LookupLink(h, m, s, i, c, found), found => docs[KeyOf(m, s, i)] # NoDoc
  PROVE  CodeShape' /\ Onward
  <1> DEFINE k == KeyOf(m, s, i)
             a == Args(m, s, i, c)
  <1>0. PICK e : e = docs[k].blob
      OBVIOUS
  <1>1. /\ Attempt(h, m, s, i, c) /\ docs[k] # NoDoc /\ UNCHANGED Drawing /\ UNCHANGED docs
        /\ UNCHANGED <<delivered, undone>>
        /\ Goes(h, "delete", a, NoDoc) \/ (e.code = c /\ Goes(h, "consume", a, e))
      BY <1>0 DEF LookupLink, Drawing, history
  <1>2. m \in Methods /\ i \in InputsOf(m) /\ c \in delivered \cup {Wrong}
      BY <1>1, AttemptIs
  <1>3. EntryIs(k, e)
      BY <1>0, <1>1, <1>2, FoundIs
  <1>4. a \in Calls /\ a.m = m /\ a.s = s /\ a.i = i /\ a.code = c
      BY <1>2, ArgsAre
  <1> HIDE DEF a
  <1>5. CASE Goes(h, "delete", a, NoDoc)
    <2>1. pc'[h] = "delete" /\ call'[h] = a
        BY <1>5, GoesTo
    <2>2. CallIs(h)'
        BY <1>2, <1>4, <2>1 DEF CallIs, Shared, InputsOf
    <2> QED BY <1>1, <1>5, <2>2, NothingTold, NothingWritten, ShapeMoves DEF CallSteps
  <1>6. CASE e.code = c /\ Goes(h, "consume", a, e)
    <2>1. pc'[h] = "consume" /\ call'[h] = a /\ seen'[h] = e
        BY <1>6, GoesTo
    <2>2. c \in 1..drawn /\ c \in delivered /\ CodeKey(c) = k /\ begun[c].m \in Methods /\ e.input = begun[c].i
        BY <1>2, <1>3, <1>6 DEF EntryIs, Wrong, CodeShape, IsBegin
    <2>3. begun[c].m = m /\ begun[c].s = s
        BY <1>2, <2>2, KeysApart DEF CodeKey
    <2>4. Proves(h)'
        BY <1>1, <1>4, <2>1, <2>2, <2>3 DEF Proves, VerifiedIdentifier, Drawing, Otp, Link
    <2>5. CallIs(h)'
        BY <1>2, <1>4, <2>1, <2>4 DEF CallIs, InputsOf
    <2> QED BY <1>1, <1>6, <2>5, NothingTold, NothingWritten, ShapeMoves DEF CallSteps
  <1> QED BY <1>1, <1>5, <1>6

LEMMA ConsumeShape ==
  ASSUME CodeShape, NEW h \in Handlers, ConsumeLink(h)
  PROVE  CodeShape' /\ Onward
  <1>1. /\ pc[h] = "consume" /\ UNCHANGED Drawing /\ UNCHANGED <<delivered, undone>>
        /\ docs' = Del(docs, CallKey(h)) \/ docs' = docs
        /\ Goes(h, "record", call[h], seen[h])
      BY DEF ConsumeLink, Drawing, CallKey
  <1>2. CallKey(h) \in Keys /\ CallIs(h)
      BY <1>1, CallHasKey DEF CodeShape
  <1>3. DocsSound
      BY <1>1, <1>2, Deleted, NothingWritten
  <1>4. pc'[h] = "record" /\ call'[h] = call[h] /\ seen'[h] = seen[h]
      BY <1>1, GoesTo
  <1>5. Proves(h)'
      BY <1>1, <1>2, <1>4 DEF CallIs, Proves, VerifiedIdentifier, Drawing
  <1>6. CallIs(h)'
      BY <1>1, <1>2, <1>4, <1>5 DEF CallIs, InputsOf
  <1> QED BY <1>1, <1>3, <1>6, NothingTold, ShapeMoves DEF CallSteps

LEMMA CompletesShape ==
  ASSUME CodeShape, NEW h \in Handlers, NEW s \in Sessions, NEW i, NEW c, Completes(h, s, i, c)
  PROVE  CodeShape' /\ Onward
  <1>1. CASE SmsVerify(h, s, i, c) \/ CarrierVerify(h, s, i, c)
      BY <1>1, InMemoryShape DEF SmsVerify, CarrierVerify, Otp
  <1>2. CASE RedisVerify(h, s, i, c)
      BY <1>2, ReadShape DEF RedisVerify, RedisFound, StoreOf, NewOTPStoreFromEnv, Otp
  <1>3. CASE FirestoreVerify(h, s, i, c)
      BY <1>3, ReadShape DEF FirestoreVerify, FirestoreFound, StoreOf, NewOTPStoreFromEnv, Otp
  <1>4. CASE \E m \in Methods : GetExpired(h, m, s, i, c)
      BY <1>4, GetExpiredShape
  <1>5. CASE EmailLookup(h, s, i, c)
      BY <1>5, LookupShape DEF EmailLookup, Link
  <1>6. CASE EmailRedisLookup(h, s, i, c)
      BY <1>6, LookupShape DEF EmailRedisLookup, RedisFound, Link
  <1>7. CASE EmailFirestoreLookup(h, s, i, c)
      BY <1>7, LookupShape DEF EmailFirestoreLookup, FirestoreFound, Link
  <1>8. CASE TierLookup(h, s, i, c)
      BY <1>8, LookupShape DEF TierLookup, Link
  <1> QED BY <1>1, <1>2, <1>3, <1>4, <1>5, <1>6, <1>7, <1>8 DEF Completes

LEMMA StepsShape ==
  ASSUME CodeShape, NEW h \in Handlers, Steps(h)
  PROVE  CodeShape' /\ Onward
  BY SentShape, DeleteShape, WriteShape, ConsumeShape, FailShape DEF Steps, SendSms, SendMail

(* Which begin it was, and under which key.                                *)
LEMMA BeginsIs ==
  ASSUME NEW h, NEW s, NEW i, Begins(h, s, i)
  PROVE  \E m \in Methods, accepted \in BOOLEAN :
           i \in InputsOf(m) /\ Begin(h, m, s, i, accepted)
  BY DEF Begins, BeginSms, BeginCarrier, BeginEmail, BeginTier, Methods, Otp, Link, InputsOf

LEMMA CodeShapeStep == CodeShape /\ [Next]_vars => CodeShape'
  <1> SUFFICES ASSUME CodeShape, [Next]_vars PROVE CodeShape'
      OBVIOUS
  <1>1. ASSUME NEW h \in Handlers, NEW s \in Sessions, NEW i, Begins(h, s, i) PROVE CodeShape'
    <2>1. PICK m \in Methods, accepted \in BOOLEAN :
            i \in InputsOf(m) /\ Begin(h, m, s, i, accepted)
        BY <1>1, BeginsIs
    <2> QED BY <2>1, BeginShape
  <1> QED BY <1>1, CompletesShape, StepsShape, TickShape DEF Next

(* What a session records stays proven: the codes it rests on stay.        *)
LEMMA ProvenStep ==
  ASSUME CodeShape, CodeShape', Onward, VerifiedIsProven,
         recorded' = recorded \/ \E h \in Handlers : recordVerified(h)
  PROVE  VerifiedIsProven'
  <1> SUFFICES ASSUME NEW r \in recorded'
               PROVE  \E c \in delivered' :
                        begun'[c].m = r[1] /\ begun'[c].s = r[2] /\ Normal[begun'[c].i] = r[3]
      BY DEF VerifiedIsProven
  <1>1. \A c \in delivered : c \in delivered' /\ begun'[c] = begun[c]
      BY DEF CodeShape, Onward
  <1>2. CASE r \in recorded
    <2>1. PICK c \in delivered : begun[c].m = r[1] /\ begun[c].s = r[2] /\ Normal[begun[c].i] = r[3]
        BY <1>2 DEF VerifiedIsProven
    <2> QED BY <2>1, <1>1
  <1>3. CASE r \notin recorded
    <2>1. PICK h \in Handlers : recordVerified(h)
        BY <1>3
    <2>2. r = <<call[h].m, call[h].s, Normal[VerifiedIdentifier(h)]>> /\ Proves(h)
        BY <1>3, <2>1 DEF recordVerified, CodeShape, CallIs
    <2> QED BY <2>2, <1>1 DEF Proves
  <1> QED BY <1>2, <1>3

(* Who may record: only recordVerified does.                               *)
LEMMA OnlyRecordVerified ==
  ASSUME CodeShape, [Next]_vars
  PROVE  recorded' = recorded \/ \E h \in Handlers : recordVerified(h)
  <1>1. ASSUME NEW h \in Handlers, Steps(h), ~recordVerified(h) PROVE recorded' = recorded
      BY <1>1 DEF Steps, SendSms, SendMail, Sent, Invalidate, RedisWrite, FirestoreWrite, WriteEntry,
                  DeleteExpired, ConsumeLink, StoreFails
  <1>2. ASSUME NEW h \in Handlers, NEW s, NEW i, Begins(h, s, i) PROVE recorded' = recorded
      BY <1>2, BeginsIs DEF Begin
  <1>3. ASSUME NEW h \in Handlers, NEW s, NEW i, NEW c, Completes(h, s, i, c)
        PROVE  recorded' = recorded
      BY <1>3 DEF Completes, SmsVerify, CarrierVerify, VerifyInMemory, RedisVerify, FirestoreVerify,
                  ReadEntry, GetExpired, EmailLookup, EmailRedisLookup, EmailFirestoreLookup,
                  TierLookup, LookupLink
  <1> QED BY <1>1, <1>2, <1>3 DEF Next, Tick, vars

LEMMA OnwardStep == ASSUME CodeShape, [Next]_vars PROVE Onward
  <1>1. ASSUME NEW h \in Handlers, NEW s \in Sessions, NEW i, Begins(h, s, i) PROVE Onward
    <2>1. PICK m \in Methods, accepted \in BOOLEAN :
            i \in InputsOf(m) /\ Begin(h, m, s, i, accepted)
        BY <1>1, BeginsIs
    <2> QED BY <2>1, BeginShape
  <1> QED BY <1>1, CompletesShape, StepsShape, TickShape DEF Next

-----------------------------------------------------------------------------
(* An OTP in memory: the entry of a code knows how often it was guessed at *)
(* and whether it was used, for as long as it is under its key.            *)
Local(m) == m \in Otp /\ StoreOf(m) = "memory"
LocalCode(c) == Local(begun[c].m)
Stored(c) == docs[CodeKey(c)] # NoDoc /\ docs[CodeKey(c)].blob.code = c
Spent(c) ==
  Stored(c) =>
    LET e == docs[CodeKey(c)].blob IN
    /\ c \in used => e.invalid
    /\ e.invalid \/ (e.attempts = guesses[c] /\ guesses[c] < MaxAttempts)
Same(c) == {d \in 1..drawn : KeyOf(begun[d].m, begun[d].s, begun[d].i) = CodeKey(c)}
(* Nothing came after the code and nothing happened to it.                 *)
Newest(c) ==
  /\ \A d \in Same(c) : d <= c /\ d \notin undone
  /\ c \notin used /\ guesses[c] = 0 /\ now <= begun[c].at + TTL
OnceInv ==
  /\ CodeShape /\ used \subseteq delivered /\ reused \subseteq used
  /\ guesses \in [Codes -> Nat] /\ \A c \in Codes : c > drawn => guesses[c] = 0
  /\ \A c \in 1..drawn : LocalCode(c) =>
       /\ c \notin reused /\ guesses[c] <= MaxAttempts /\ Spent(c)
       /\ Newest(c) => Stored(c) /\ ~docs[CodeKey(c)].blob.invalid

LEMMA CodeHasKey ==
  ASSUME CodeShape, NEW c \in 1..drawn
  PROVE  /\ CodeKey(c) \in Keys /\ CodeKey(c)[1] = begun[c].m /\ begun[c].m \in Methods
         /\ CodeKey(c) = KeyOf(begun[c].m, begun[c].s, begun[c].i)
  BY KeyIsKey DEF CodeShape, IsBegin, CodeKey

(* A step that leaves a code, its key and its entry alone.                 *)
Untouched(c) ==
  /\ docs'[CodeKey(c)] = docs[CodeKey(c)] /\ guesses'[c] = guesses[c]
  /\ (c \in used' <=> c \in used) /\ (c \in reused' <=> c \in reused)
CodeSound(c) ==
  LocalCode(c) =>
    /\ c \notin reused /\ guesses[c] <= MaxAttempts /\ Spent(c)
    /\ Newest(c) => Stored(c) /\ ~docs[CodeKey(c)].blob.invalid
OnceTypes ==
  /\ used \subseteq delivered /\ reused \subseteq used
  /\ guesses \in [Codes -> Nat] /\ \A c \in Codes : c > drawn => guesses[c] = 0

LEMMA OnceParts == OnceInv <=> CodeShape /\ OnceTypes /\ \A c \in 1..drawn : CodeSound(c)
  BY DEF OnceInv, OnceTypes, CodeSound

LEMMA LocalStands ==
  ASSUME Onward, NEW c \in 1..drawn
  PROVE  /\ LocalCode(c)' <=> LocalCode(c)
         /\ CodeKey(c)' = CodeKey(c) /\ begun'[c] = begun[c]
         /\ CodeKey(c) = KeyOf(begun[c].m, begun[c].s, begun[c].i)
  BY DEF Onward, LocalCode, Local, CodeKey, StoreOf, NewOTPStoreFromEnv, NewTokenStoreFromEnv

(* A code that was newest before, if it is now.                            *)
LEMMA NewestBefore ==
  ASSUME CodeShape, CodeShape', Onward, NEW c \in 1..drawn, Newest(c)', guesses'[c] = guesses[c],
         c \in used' <=> c \in used
  PROVE  Newest(c)
  <1>1. \A d \in Same(c) : d \in Same(c)'
    <2> SUFFICES ASSUME NEW d \in Same(c) PROVE d \in Same(c)'
        OBVIOUS
    <2>1. d \in 1..drawn /\ d \in 1..drawn' /\ begun'[d] = begun[d]
        BY DEF Same, Onward, CodeShape
    <2> QED BY <2>1, LocalStands DEF Same
  <1>2. \A d \in Same(c) : d <= c /\ d \notin undone
      BY <1>1 DEF Newest, Onward
  <1>3. now <= begun[c].at + TTL
    <2>1. now' <= begun[c].at + TTL /\ now <= now'
        BY DEF Newest, Onward
    <2>2. begun[c].at \in Nat /\ now \in Nat /\ now' \in Nat
        BY CodeTimes DEF CodeShape, IsBegin
    <2> QED BY <2>1, <2>2, CodeTimes
  <1> QED BY <1>2, <1>3 DEF Newest

LEMMA UntouchedSound ==
  ASSUME CodeShape, CodeShape', Onward, NEW c \in 1..drawn, CodeSound(c), Untouched(c)
  PROVE  CodeSound(c)'
  <1> SUFFICES ASSUME LocalCode(c)' PROVE
          /\ c \notin reused' /\ guesses'[c] <= MaxAttempts /\ Spent(c)'
          /\ Newest(c)' => Stored(c)' /\ ~docs'[CodeKey(c)'].blob.invalid
      BY DEF CodeSound
  <1>1. LocalCode(c) /\ CodeKey(c)' = CodeKey(c)
      BY LocalStands
  <1>2. Stored(c)' <=> Stored(c)
      BY <1>1 DEF Stored, Untouched
  <1>3. Spent(c)'
      BY <1>1, <1>2 DEF Spent, CodeSound, Untouched
  <1>4. Newest(c)' => Newest(c)
      BY NewestBefore DEF Untouched
  <1> QED BY <1>1, <1>2, <1>3, <1>4 DEF CodeSound, Untouched

(* Steps that touch no local code: all but three.                          *)
LEMMA ElsewhereStep ==
  ASSUME OnceInv, CodeShape', Onward, drawn' = drawn, OnceTypes',
         \A c \in 1..drawn : LocalCode(c) => Untouched(c)
  PROVE  OnceInv'
  <1> SUFFICES ASSUME NEW c \in 1..drawn' PROVE CodeSound(c)'
      BY OnceParts DEF OnceInv, OnceTypes, CodeSound
  <1>1. c \in 1..drawn /\ CodeShape /\ CodeSound(c)
      BY OnceParts
  <1>2. CASE LocalCode(c)
      BY <1>1, <1>2, UntouchedSound
  <1>3. CASE ~LocalCode(c)
      BY <1>1, <1>3, LocalStands DEF CodeSound
  <1> QED BY <1>2, <1>3

(* What judging an attempt at an entry changes.                            *)
LEMMA JudgeIs ==
  ASSUME OnceInv, NEW e, NEW c, Judge(e, c), e.code \in 1..drawn, e.code = c => c \in delivered,
         delivered' = delivered, drawn' = drawn
  PROVE  /\ OnceTypes'
         /\ \A d \in Codes : d # e.code =>
              guesses'[d] = guesses[d] /\ (d \in used' <=> d \in used) /\ (d \in reused' <=> d \in reused)
         /\ e.code = c => /\ used' = used \cup {c} /\ guesses' = guesses
                          /\ reused' = reused \cup ({c} \cap used)
         /\ e.code # c => /\ used' = used /\ reused' = reused
                          /\ guesses'[e.code] = guesses[e.code] + 1
  <1>1. e.code \in Codes /\ drawn \in Nat
      BY CodeTimes DEF OnceInv, CodeShape, Codes
  <1>2. CASE e.code = c
      BY <1>1, <1>2 DEF Judge, Won, OnceInv, OnceTypes
  <1>3. CASE e.code # c
      BY <1>1, <1>3 DEF Judge, Won, OnceInv, OnceTypes
  <1> QED BY <1>2, <1>3

LEMMA OnceTypesKept ==
  ASSUME OnceInv, CodeShape', Onward, drawn <= drawn', UNCHANGED <<guesses, used, reused>>
  PROVE  OnceTypes'
  BY CodeTimes DEF OnceInv, OnceTypes, Onward, CodeShape, Codes

(* A new code replaces the one before it under its key.                    *)
LEMMA OnceBegins ==
  ASSUME OnceInv, NEW h \in Handlers, NEW m \in Methods, NEW s \in Sessions, NEW i \in InputsOf(m),
         NEW accepted, Begin(h, m, s, i, accepted)
  PROVE  OnceInv'
  <1> DEFINE k == KeyOf(m, s, i)
  <1>1. PICK n, e : n = drawn + 1 /\ e = NewEntry(drawn + 1, i)
      OBVIOUS
  <1>2. /\ CodeShape /\ CodeShape' /\ Onward /\ drawn' = n /\ n \in Codes /\ CodeKey(n)' = k
        /\ drawn \in Nat /\ k \in Keys
    <2>1. CodeShape /\ CodeShape' /\ Onward /\ drawn' = n /\ n \in Codes /\ CodeKey(drawn)' = k
        BY <1>1, BeginShape DEF OnceInv
    <2>2. CodeKey(n)' = CodeKey(drawn)'
        BY <2>1 DEF CodeKey
    <2>3. k \in Keys
        BY KeyIsKey
    <2>4. drawn \in Nat
        BY <2>1 DEF CodeShape
    <2> HIDE DEF k
    <2> QED BY <2>1, <2>2, <2>3, <2>4
  <1>3. PICK u \in Nat : docs' = [docs EXCEPT ![k] = [blob |-> e, until |-> u]]
      BY <1>1, BeginShape DEF OnceInv
  <1>4. UNCHANGED <<guesses, used, reused>> /\ now' = now
      BY DEF Begin
  <1>5. OnceTypes'
      BY <1>1, <1>2, <1>4, OnceTypesKept
  <1>6. docs'[k].blob = e /\ docs'[k] # NoDoc /\ \A j \in Keys : j # k => docs'[j] = docs[j]
    <2>1. e \in Entries
        BY <1>1, <1>2, CodeTimes DEF NewEntry, Entries, InputsOf, Inputs, CodeShape
    <2>2. docs'[k] = [blob |-> e, until |-> u]
        BY <1>2, <1>3 DEF CodeShape
    <2>3. docs'[k] \in [blob : Entries, until : Nat]
        BY <2>1, <2>2
    <2> QED BY <1>2, <1>3, <2>2, <2>3, NoDocIsNoDocument DEF CodeShape
  <1>7. e.code = n /\ e.attempts = 0 /\ e.invalid = FALSE
      BY <1>1 DEF NewEntry
  <1> HIDE DEF k
  <1>8. ASSUME NEW c \in 1..drawn PROVE CodeSound(c)'
    <2>1. CodeSound(c) /\ CodeKey(c) \in Keys /\ c # n /\ CodeKey(c)' = CodeKey(c)
        BY <1>1, <1>2, OnceParts, CodeHasKey, LocalStands
    <2>2. CASE CodeKey(c) = k
      <3>1. ~Stored(c)'
          BY <2>1, <2>2, <1>6, <1>7 DEF Stored
      <3>2. n \in Same(c)'
          BY <1>1, <1>2, <2>1, <2>2 DEF Same, CodeKey
      <3>3. ~(n <= c)
          BY <1>1, <1>2
      <3>4. ~Newest(c)'
          BY <3>2, <3>3 DEF Newest
      <3>5. LocalCode(c)' => LocalCode(c)
          BY <1>2, LocalStands
      <3> QED BY <2>1, <3>1, <3>4, <3>5, <1>4 DEF CodeSound, Spent
    <2>3. CASE CodeKey(c) # k
      <3>1. Untouched(c)
          BY <2>1, <2>3, <1>4, <1>6 DEF Untouched
      <3> QED BY <2>1, <3>1, <1>2, UntouchedSound
    <2> QED BY <2>2, <2>3
  <1>9. CodeSound(n)'
    <2>1. n \notin used' /\ n \notin reused' /\ guesses'[n] = 0
      <3>1. n \notin 1..drawn /\ n > drawn
          BY <1>1, <1>2
      <3> QED BY <3>1, <1>2, <1>4 DEF OnceInv, CodeShape
    <2>2. Stored(n)' /\ docs'[CodeKey(n)'].blob = e
        BY <1>2, <1>6, <1>7 DEF Stored
    <2>3. Spent(n)'
        BY <2>1, <2>2, <1>7, CodeTimes DEF Spent
    <2> QED BY <2>1, <2>2, <2>3, <1>7, CodeTimes DEF CodeSound
  <1>10. \A c \in 1..drawn' : c \in 1..drawn \/ c = n
      BY <1>1, <1>2
  <1>11. \A c \in 1..drawn' : CodeSound(c)'
      BY <1>8, <1>9, <1>10
  <1> QED BY <1>2, <1>5, <1>11, OnceParts DEF OnceInv, OnceTypes, CodeSound

(* What a lost sender deletes is not the newest code any more: one under   *)
(* its key was undone.                                                     *)
LEMMA OnceInvalidates ==
  ASSUME OnceInv, NEW h \in Handlers, Invalidate(h)
  PROVE  OnceInv'
  <1>1. PICK k, u : k = CallKey(h) /\ u = call[h].code
      OBVIOUS
  <1>2. /\ CodeShape /\ CodeShape' /\ Onward /\ pc[h] = "undo" /\ docs' = Del(docs, k)
        /\ UNCHANGED <<drawn, delivered, undone, begun, guesses, used, reused>>
      BY <1>1, DeleteShape DEF OnceInv, Invalidate, CallKey, history
  <1>3. /\ k \in Keys /\ u \in 1..drawn /\ u \in undone /\ KeyOf(begun[u].m, begun[u].s, begun[u].i) = k
      BY <1>1, <1>2, CallHasKey DEF CodeShape, CallIs, Drew, CallKey
  <1>4. OnceTypes'
      BY <1>2, OnceTypesKept DEF CodeShape
  <1>5. ASSUME NEW c \in 1..drawn PROVE CodeSound(c)'
    <2>1. CodeSound(c) /\ CodeKey(c) \in Keys /\ CodeKey(c)' = CodeKey(c)
        BY <1>2, OnceParts, CodeHasKey, LocalStands
    <2>2. CASE CodeKey(c) = k
      <3>1. ~Stored(c)'
          BY <2>1, <2>2, <1>2, <1>3, Deleted DEF Stored
      <3>2. u \in Same(c)' /\ u \in undone'
          BY <1>2, <1>3, <2>1, <2>2 DEF Same
      <3>3. ~Newest(c)'
          BY <3>2 DEF Newest
      <3>4. LocalCode(c)' => LocalCode(c)
          BY <1>2, LocalStands
      <3> QED BY <2>1, <3>1, <3>3, <3>4, <1>2 DEF CodeSound, Spent
    <2>3. CASE CodeKey(c) # k
      <3>1. Untouched(c)
          BY <2>1, <2>3, <1>2, <1>3, Deleted DEF Untouched
      <3> QED BY <2>1, <3>1, <1>2, UntouchedSound
    <2> QED BY <2>2, <2>3
  <1> QED BY <1>2, <1>4, <1>5, OnceParts DEF OnceInv, OnceTypes, CodeSound

(* Under the mutex an attempt counts, closes the entry, or finds it        *)
(* expired.                                                                *)
LEMMA OnceVerifies ==
  ASSUME OnceInv, NEW h \in Handlers, NEW m \in Otp, NEW s \in Sessions, NEW i, NEW c,
         VerifyInMemory(h, m, s, i, c)
  PROVE  OnceInv'
  <1>1. PICK k, e, n, f : k = KeyOf(m, s, i) /\ e = docs[k].blob /\ n = e.code /\ f = Counted(e, c)
      OBVIOUS
  <1>2. /\ CodeShape /\ CodeShape' /\ Onward /\ docs[k] # NoDoc /\ ~e.invalid
        /\ Attempt(h, m, s, i, c) /\ StoreOf(m) = "memory"
        /\ UNCHANGED <<deployed, now, drawn, delivered, undone, begun>>
      BY <1>1, InMemoryShape DEF OnceInv, VerifyInMemory, Dead
  <1>3. m \in Methods /\ i \in InputsOf(m) /\ c \in delivered \cup {Wrong}
      BY <1>2, AttemptIs
  <1>4. /\ k \in Keys /\ e \in Entries /\ EntryIs(k, e) /\ docs[k] \in [blob : Entries, until : Nat]
      BY <1>1, <1>2, <1>3, KeyIsKey DEF CodeShape
  <1>5. n \in 1..drawn /\ CodeKey(n) = k /\ LocalCode(n) /\ Stored(n)
    <2>1. n \in 1..drawn /\ CodeKey(n) = k
        BY <1>1, <1>4 DEF EntryIs
    <2>2. begun[n].m = m
        BY <2>1, <1>1, <1>2, <1>3, KeysApart DEF CodeKey, CodeShape, IsBegin
    <2> QED BY <2>1, <2>2, <1>1, <1>2 DEF LocalCode, Local, Stored
  <1>6. CodeSound(n) /\ n \notin used /\ n \notin reused /\ e.attempts = guesses[n] /\ guesses[n] < MaxAttempts
      BY <1>1, <1>2, <1>5, OnceParts DEF CodeSound, Spent
  <1>7. CASE Stale(e) /\ docs' = Del(docs, k) /\ UNCHANGED <<guesses, used, reused>>
    <2>1. OnceTypes'
        BY <1>2, <1>7, OnceTypesKept DEF CodeShape
    <2>2. ASSUME NEW d \in 1..drawn PROVE CodeSound(d)'
      <3>1. CodeSound(d) /\ CodeKey(d) \in Keys /\ CodeKey(d)' = CodeKey(d)
          BY <1>2, OnceParts, CodeHasKey, LocalStands
      <3>2. CASE CodeKey(d) = k
        <4>1. ~Stored(d)'
            BY <3>1, <3>2, <1>4, <1>2, <1>7, Deleted DEF Stored
        <4>2. LocalCode(d)' => LocalCode(d)
            BY <1>2, LocalStands
        <4>3. LocalCode(d) => ~Newest(d)
          <5> SUFFICES ASSUME LocalCode(d), Newest(d) PROVE FALSE
              OBVIOUS
          <5>1. Stored(d) /\ d = n
              BY <1>1, <3>1, <3>2 DEF CodeSound, Stored
          <5>2. e.expires = begun[d].at + TTL /\ now <= begun[d].at + TTL
              BY <1>1, <1>4, <5>1 DEF EntryIs, Newest
          <5>3. now \in Nat /\ begun[d].at \in Nat /\ TTL \in Nat
              BY <1>2, CodeTimes DEF CodeShape, IsBegin
          <5> QED BY <1>7, <5>2, <5>3 DEF Stale
        <4>4. Newest(d)' => Newest(d)
            BY <1>2, <1>7, NewestBefore
        <4> QED BY <3>1, <4>1, <4>2, <4>3, <4>4, <1>7 DEF CodeSound, Spent
      <3>3. CASE CodeKey(d) # k
        <4>1. Untouched(d)
            BY <3>1, <3>3, <1>4, <1>2, <1>7, Deleted DEF Untouched
        <4> QED BY <3>1, <4>1, <1>2, UntouchedSound
      <3> QED BY <3>2, <3>3
    <2> QED BY <1>2, <2>1, <2>2, OnceParts DEF OnceInv, OnceTypes, CodeSound
  <1>8. CASE docs' = [docs EXCEPT ![k].blob = f] /\ Judge(e, c)
    <2>1. n = c => c \in delivered
        BY <1>3, <1>5 DEF Wrong
    <2>2. /\ OnceTypes'
          /\ \A d \in Codes : d # n => /\ guesses'[d] = guesses[d] /\ (d \in used' <=> d \in used)
                                       /\ (d \in reused' <=> d \in reused)
          /\ n = c => /\ used' = used \cup {c} /\ guesses' = guesses
                      /\ reused' = reused \cup ({c} \cap used)
          /\ n # c => used' = used /\ reused' = reused /\ guesses'[n] = guesses[n] + 1
        BY <1>1, <1>2, <1>5, <1>8, <2>1, JudgeIs
    <2>3. docs'[k].blob = f /\ docs'[k] # NoDoc /\ \A j \in Keys : j # k => docs'[j] = docs[j]
      <3>1. f \in Entries
          BY <1>1, <1>4, CountedIs
      <3>2. docs'[k].blob = f /\ docs'[k] \in [blob : Entries, until : Nat]
          BY <3>1, <1>2, <1>4, <1>8 DEF CodeShape
      <3> QED BY <3>2, <1>2, <1>8, NoDocIsNoDocument DEF CodeShape
    <2>4. /\ f.code = n
          /\ n = c => f.invalid
          /\ n # c => f.attempts = e.attempts + 1 /\ f.invalid = (e.attempts + 1 >= MaxAttempts)
        BY <1>1, <1>4, CountedIs
    <2>5. CodeSound(n)'
      <3>1. Stored(n)' /\ docs'[CodeKey(n)'].blob = f
          BY <1>2, <1>5, <2>3, <2>4, LocalStands DEF Stored
      <3>2. n \notin reused' /\ guesses'[n] <= MaxAttempts
        <4>1. guesses[n] \in Nat
            BY <1>5, CodeTimes DEF OnceInv, CodeShape, Codes
        <4> QED BY <4>1, <1>6, <2>2, CodeTimes
      <3>3. Spent(n)'
        <4>1. guesses[n] \in Nat
            BY <1>5, CodeTimes DEF OnceInv, CodeShape, Codes
        <4>2. CASE n = c
            BY <4>2, <2>4, <3>1 DEF Spent
        <4>3. CASE n # c
          <5>1. f.invalid \/ (f.attempts = guesses'[n] /\ guesses'[n] < MaxAttempts)
            <6>1. CASE e.attempts + 1 >= MaxAttempts
                BY <6>1, <4>3, <2>4
            <6>2. CASE ~(e.attempts + 1 >= MaxAttempts)
              <7>1. guesses'[n] = guesses[n] + 1 /\ f.attempts = guesses[n] + 1
                  BY <4>3, <1>6, <2>2, <2>4
              <7>2. guesses[n] + 1 < MaxAttempts
                  BY <6>2, <4>1, <1>6, CodeTimes
              <7> QED BY <7>1, <7>2
            <6> QED BY <6>1, <6>2
          <5>2. n \notin used'
              BY <4>3, <1>6, <2>2
          <5> QED BY <5>1, <5>2, <3>1 DEF Spent
        <4> QED BY <4>2, <4>3
      <3>4. ~Newest(n)'
        <4>1. guesses[n] \in Nat
            BY <1>5, CodeTimes DEF OnceInv, CodeShape, Codes
        <4>2. n \in used' \/ guesses'[n] # 0
            BY <4>1, <2>2
        <4> QED BY <4>2 DEF Newest
      <3> QED BY <3>2, <3>3, <3>4 DEF CodeSound
    <2>6. ASSUME NEW d \in 1..drawn, d # n PROVE CodeSound(d)'
      <3>1. CodeSound(d) /\ CodeKey(d) \in Keys /\ CodeKey(d)' = CodeKey(d) /\ d \in Codes
          BY <1>2, OnceParts, CodeHasKey, LocalStands, CodeTimes DEF CodeShape, Codes
      <3>2. guesses'[d] = guesses[d] /\ (d \in used' <=> d \in used) /\ (d \in reused' <=> d \in reused)
          BY <2>2, <2>6, <3>1
      <3>3. CASE CodeKey(d) = k
        <4>1. ~Stored(d)' /\ ~Stored(d)
            BY <1>1, <2>3, <2>4, <2>6, <3>1, <3>3 DEF Stored
        <4>2. LocalCode(d)' => LocalCode(d)
            BY <1>2, LocalStands
        <4>3. Newest(d)' => Newest(d)
            BY <1>2, <3>2, NewestBefore
        <4> QED BY <3>1, <3>2, <4>1, <4>2, <4>3 DEF CodeSound, Spent
      <3>4. CASE CodeKey(d) # k
        <4>1. Untouched(d)
            BY <2>3, <3>1, <3>2, <3>4 DEF Untouched
        <4> QED BY <3>1, <4>1, <1>2, UntouchedSound
      <3> QED BY <3>3, <3>4
    <2>7. \A d \in 1..drawn' : CodeSound(d)'
        BY <1>2, <2>5, <2>6
    <2> QED BY <1>2, <2>2, <2>7, OnceParts DEF OnceInv, OnceTypes, CodeSound
  <1> QED BY <1>1, <1>7, <1>8 DEF VerifyInMemory

(* All other steps leave the local codes alone.                            *)
LEMMA OnceElsewhere ==
  ASSUME OnceInv, CodeShape', Onward, UNCHANGED <<drawn, guesses, used, reused>>,
         \A k \in Keys : Local(k[1]) => docs'[k] = docs[k]
  PROVE  OnceInv'
  <1>1. OnceTypes'
    <2>1. drawn \in Nat
        BY DEF OnceInv, CodeShape
    <2> QED BY <2>1, OnceTypesKept
  <1>2. ASSUME NEW c \in 1..drawn, LocalCode(c) PROVE Untouched(c)
    <2>1. CodeKey(c) \in Keys /\ CodeKey(c)[1] = begun[c].m
        BY CodeHasKey DEF OnceInv
    <2> QED BY <2>1, <1>2 DEF Untouched, LocalCode
  <1> QED BY <1>1, <1>2, ElsewhereStep

LEMMA OnceWrites ==
  ASSUME OnceInv, NEW h \in Handlers, RedisWrite(h) \/ FirestoreWrite(h)
  PROVE  OnceInv'
  <1>1. PICK k, e, c, f : k = CallKey(h) /\ e = seen[h] /\ c = call[h].code /\ f = Counted(e, c)
      OBVIOUS
  <1>2. /\ CodeShape /\ CodeShape' /\ Onward /\ pc[h] = "write" /\ UNCHANGED <<drawn, delivered>>
        /\ \E u \in Nat : docs' = [docs EXCEPT ![k] = [blob |-> f, until |-> u]]
        /\ UNCHANGED <<guesses, used, reused>> \/ Judge(e, c)
      BY <1>1, WriteShape DEF OnceInv, WritesBack, RedisWrite, FirestoreWrite, WriteEntry
  <1>3. /\ k \in Keys /\ k[1] = "sms" /\ StoreOf("sms") # "memory" /\ EntryIs(k, e)
        /\ c \in delivered \cup {Wrong}
      BY <1>1, <1>2, CallHasKey DEF CodeShape, CallIs
  <1>4. \A j \in Keys : Local(j[1]) => docs'[j] = docs[j]
      BY <1>2, <1>3 DEF Local, CodeShape
  <1>5. CASE UNCHANGED <<guesses, used, reused>>
      BY <1>2, <1>4, <1>5, OnceElsewhere
  <1>6. CASE Judge(e, c)
    <2>1. e.code \in 1..drawn /\ ~LocalCode(e.code)
      <3>1. e.code \in 1..drawn /\ CodeKey(e.code)[1] = "sms"
          BY <1>3 DEF EntryIs
      <3> QED BY <3>1, <1>2, <1>3, CodeHasKey DEF LocalCode, Local
    <2>2. e.code = c => c \in delivered
        BY <1>3, <2>1 DEF Wrong
    <2>3. /\ OnceTypes'
          /\ \A d \in Codes : d # e.code => /\ guesses'[d] = guesses[d] /\ (d \in used' <=> d \in used)
                                            /\ (d \in reused' <=> d \in reused)
        BY <1>2, <1>6, <2>1, <2>2, JudgeIs
    <2>4. ASSUME NEW d \in 1..drawn, LocalCode(d) PROVE Untouched(d)
      <3>1. d \in Codes /\ d # e.code /\ CodeKey(d) \in Keys /\ Local(CodeKey(d)[1])
        <4>1. d \in Codes
            BY <1>2, CodeTimes DEF CodeShape, Codes
        <4>2. d # e.code
            BY <2>1, <2>4
        <4> QED BY <4>1, <4>2, <1>2, <2>4, CodeHasKey DEF LocalCode
      <3> QED BY <3>1, <1>4, <2>3 DEF Untouched
    <2> QED BY <1>2, <2>3, <2>4, ElsewhereStep
  <1> QED BY <1>2, <1>5, <1>6

LEMMA OnceConsumes ==
  ASSUME OnceInv, NEW h \in Handlers, ConsumeLink(h)
  PROVE  OnceInv'
  <1>1. PICK k, c : k = CallKey(h) /\ c = call[h].code
      OBVIOUS
  <1>2. /\ CodeShape /\ CodeShape' /\ Onward /\ pc[h] = "consume" /\ UNCHANGED <<drawn, delivered, guesses>>
        /\ docs' = Del(docs, k) \/ docs' = docs
        /\ used' = used \cup {c} /\ reused' = reused \cup ({c} \cap used)
      BY <1>1, ConsumeShape DEF OnceInv, ConsumeLink, CallKey, Won
  <1>3. /\ k \in Keys /\ k[1] \in Link /\ c \in delivered /\ begun[c].m \in Link
      BY <1>1, <1>2, CallHasKey DEF CodeShape, CallIs, Proves
  <1>4. \A j \in Keys : Local(j[1]) => docs'[j] = docs[j]
    <2>1. \A j \in Keys : j # k => docs'[j] = docs[j]
        BY <1>2, <1>3, Deleted
    <2> QED BY <2>1, <1>3 DEF Local, Otp, Link
  <1>5. OnceTypes'
      BY <1>2, <1>3 DEF OnceInv, OnceTypes
  <1>6. ASSUME NEW d \in 1..drawn, LocalCode(d) PROVE Untouched(d)
    <2>1. d # c /\ CodeKey(d) \in Keys /\ Local(CodeKey(d)[1])
        BY <1>2, <1>3, <1>6, CodeHasKey DEF LocalCode, Local, Otp, Link
    <2> QED BY <2>1, <1>2, <1>4 DEF Untouched
  <1> QED BY <1>2, <1>5, <1>6, ElsewhereStep

LEMMA OnceSteps ==
  ASSUME OnceInv, NEW h \in Handlers, Steps(h)
  PROVE  OnceInv'
  <1>1. CodeShape /\ CodeShape' /\ Onward
      BY StepsShape DEF OnceInv
  <1>2. CASE SendSms(h) \/ SendMail(h) \/ recordVerified(h) \/ StoreFails(h)
    <2>1. UNCHANGED <<drawn, guesses, used, reused, docs>>
        BY <1>2 DEF SendSms, SendMail, Sent, recordVerified, StoreFails, history
    <2> QED BY <1>1, <2>1, OnceElsewhere
  <1>3. CASE DeleteExpired(h)
    <2>1. PICK k : k = CallKey(h)
        OBVIOUS
    <2>2. /\ pc[h] = "delete" /\ docs' = Del(docs, k) /\ UNCHANGED <<drawn, guesses, used, reused>>
        BY <1>3, <2>1 DEF DeleteExpired, CallKey, history
    <2>3. k \in Keys /\ Shared(k[1])
        BY <1>1, <2>1, <2>2, CallHasKey DEF CodeShape, CallIs
    <2>4. \A j \in Keys : j # k => docs'[j] = docs[j]
        BY <1>1, <2>2, <2>3, Deleted
    <2>5. ~Local(k[1])
        BY <2>3 DEF Local, Shared, Otp, Link
    <2> QED BY <1>1, <2>2, <2>4, <2>5, OnceElsewhere
  <1> QED BY <1>2, <1>3, OnceInvalidates, OnceWrites, OnceConsumes DEF Steps

LEMMA OnceCompletes ==
  ASSUME OnceInv, NEW h \in Handlers, NEW s \in Sessions, NEW i, NEW c, Completes(h, s, i, c)
  PROVE  OnceInv'
  <1>1. CodeShape /\ CodeShape' /\ Onward
      BY CompletesShape DEF OnceInv
  <1>2. CASE SmsVerify(h, s, i, c) \/ CarrierVerify(h, s, i, c)
      BY <1>2, OnceVerifies DEF SmsVerify, CarrierVerify, Otp
  <1>3. CASE ~(SmsVerify(h, s, i, c) \/ CarrierVerify(h, s, i, c))
    <2>1. UNCHANGED <<drawn, guesses, used, reused, docs>>
        BY <1>3 DEF Completes, RedisVerify, FirestoreVerify, ReadEntry, GetExpired, EmailLookup,
                    EmailRedisLookup, EmailFirestoreLookup, TierLookup, LookupLink, history
    <2> QED BY <1>1, <2>1, OnceElsewhere
  <1> QED BY <1>2, <1>3

LEMMA OnceInitial == Init => OnceInv
  BY CodeInitial DEF Init, OnceInv, Codes

LEMMA OnceStep == OnceInv /\ [Next]_vars => OnceInv'
  <1> SUFFICES ASSUME OnceInv, [Next]_vars PROVE OnceInv'
      OBVIOUS
  <1>1. ASSUME NEW h \in Handlers, NEW s \in Sessions, NEW i, Begins(h, s, i) PROVE OnceInv'
    <2>1. PICK m \in Methods, accepted \in BOOLEAN :
            i \in InputsOf(m) /\ Begin(h, m, s, i, accepted)
        BY <1>1, BeginsIs
    <2> QED BY <2>1, OnceBegins
  <1>2. ASSUME Tick \/ UNCHANGED vars PROVE OnceInv'
    <2>1. CodeShape' /\ Onward
        BY <1>2, TickShape DEF OnceInv
    <2>2. UNCHANGED <<drawn, guesses, used, reused, docs>>
        BY <1>2 DEF Tick, vars, history
    <2> QED BY <2>1, <2>2, OnceElsewhere
  <1> QED BY <1>1, <1>2, OnceSteps, OnceCompletes DEF Next

(* For every deployment and any number of overlapping calls: an identifier *)
(* gets onto a session only by a code that was sent to it, for that        *)
(* session and method, and arrived; in memory an OTP succeeds once         *)
(* (VerifyCode, HandleClick).                                              *)
THEOREM ProvenOnceHolds == Spec => []ProvenOnce
  <1>1. OnceInv => SingleUse
      BY DEF OnceInv, SingleUse, LocalCode, Local
  <1>2. Init => VerifiedIsProven
      BY DEF Init, VerifiedIsProven
  <1>3. CodeShape /\ VerifiedIsProven /\ [Next]_vars => VerifiedIsProven'
      BY CodeShapeStep, OnwardStep, OnlyRecordVerified, ProvenStep
  <1>4. OnceInv => CodeShape
      BY DEF OnceInv
  <1>5. SingleUse /\ VerifiedIsProven => ProvenOnce
      BY DEF ProvenOnce
  <1> QED BY OnceInitial, OnceStep, <1>1, <1>2, <1>3, <1>4, <1>5, PTL DEF Spec

(* In memory the newest code of a number is accepted until it is used,     *)
(* guessed at or expires, whatever becomes of the codes before it, unless  *)
(* a begin for that number lost its sender (InMemoryStore).                *)
THEOREM NewestCodeStandsHolds == Spec => []NewestCodeStands
  <1>1. OnceInv => NewestCodeStands
    <2> SUFFICES ASSUME OnceInv, NEW c \in delivered, LocalCode(c), Newest(c)
                 PROVE  /\ docs[CodeKey(c)] # NoDoc /\ docs[CodeKey(c)].blob.code = c
                        /\ ~docs[CodeKey(c)].blob.invalid
        BY DEF NewestCodeStands, LocalCode, Local, Newest, Same, CodeKey
    <2>1. c \in 1..drawn
        BY DEF OnceInv, CodeShape
    <2> QED BY <2>1 DEF OnceInv, Stored
  <1> QED BY OnceInitial, OnceStep, <1>1, PTL DEF Spec

(* The stores, the calls and what sessions record have their types: a call *)
(* over a shared store writes back an entry it read.                       *)
THEOREM CodeTypes == Spec => []TypeOK
  <1>1. Init => recorded \subseteq Methods \X Sessions \X Ids
      BY DEF Init
  <1>2. CodeShape /\ recorded \subseteq Methods \X Sessions \X Ids /\ [Next]_vars =>
          (recorded \subseteq Methods \X Sessions \X Ids)'
    <2> SUFFICES ASSUME CodeShape, recorded \subseteq Methods \X Sessions \X Ids, [Next]_vars
                 PROVE  recorded' \subseteq Methods \X Sessions \X Ids
        OBVIOUS
    <2>1. ASSUME NEW h \in Handlers, recordVerified(h)
          PROVE  recorded' \subseteq Methods \X Sessions \X Ids
      <3>1. call[h] \in Calls /\ Proves(h)
          BY <2>1 DEF recordVerified, CodeShape, CallIs
      <3>2. VerifiedIdentifier(h) \in Inputs
        <4>1. call[h].code \in 1..drawn
            BY <3>1 DEF Proves, CodeShape
        <4> QED BY <3>1, <4>1 DEF Proves, CodeShape, IsBegin, InputsOf, Inputs
      <3> QED BY <2>1, <3>1, <3>2 DEF recordVerified, Calls, Ids
    <2> QED BY <2>1, OnlyRecordVerified
  <1>3. CodeShape /\ recorded \subseteq Methods \X Sessions \X Ids => TypeOK
      BY DEF CodeShape, CallSteps, CallIs, EntryIs, TypeOK
  <1> QED BY CodeInitial, CodeShapeStep, <1>1, <1>2, <1>3, PTL DEF Spec

-----------------------------------------------------------------------------
(* The sessions of a device (Limiters, InMemoryHintLimiter).               *)

(* The sessions let in under a hint in the window that ends at t.          *)
InWindow(h, t) ==
  {e[2] : e \in {x \in enrolled : x[1] = h /\ x[3] \in t - HintWindow .. t}}

(* The sessions under a hint that date from a or later.                    *)
Young(h, a) == {x \in DOMAIN byHint[h] : byHint[h][x] >= a}

(* What was let in since a is of O, which the table held when a began, or  *)
(* is in the table still.                                                  *)
HeldBy(h, a, O) ==
  /\ DOMAIN byHint[h] \subseteq O \cup Young(h, a)
  /\ \A e \in enrolled : e[1] = h /\ e[3] >= a => e[2] \in O \cup Young(h, a)
KnownSince(h, a) ==
  \E O : IsFiniteSet(O) /\ Cardinality(O) <= HintMax /\ HeldBy(h, a, O)

HintTable(h) ==
  /\ byHint[h] \in [DOMAIN byHint[h] -> 0..clock]
  /\ IsFiniteSet(DOMAIN byHint[h]) /\ Cardinality(DOMAIN byHint[h]) <= HintMax
Windowed(h, t) == Cardinality(InWindow(h, t)) <= 2 * HintMax

HintInv ==
  /\ clock \in Nat /\ DOMAIN byHint = Hints
  /\ \A e \in enrolled : e[3] \in 0..clock
  /\ \A h \in Hints :
       /\ HintTable(h)
       /\ \A a \in clock - HintWindow .. clock : KnownSince(h, a)
       /\ \A t \in 0..clock - 1 : Windowed(h, t)

LEMMA LimitNumbers ==
  /\ HintMax \in Nat \ {0} /\ HintWindow \in Nat \ {0}
  /\ MaxLimitTime \in Nat /\ MaxWait \in Nat
BY LimiterAssumption DEF LimiterAssumption

(* The window that ends now is within its limit as well.                   *)
LEMMA WindowOfNow == HintInv => \A h \in Hints : Windowed(h, clock)
<1> SUFFICES ASSUME HintInv, NEW h \in Hints PROVE Windowed(h, clock)
  OBVIOUS
<1>0. HintMax \in Nat /\ HintWindow \in Nat /\ clock \in Nat
  BY LimitNumbers DEF HintInv
<1> DEFINE a == clock - HintWindow
<1>1. a \in clock - HintWindow .. clock
  BY <1>0
<1>2. PICK O : IsFiniteSet(O) /\ Cardinality(O) <= HintMax /\ HeldBy(h, a, O)
  BY <1>1 DEF HintInv, KnownSince
<1>3. IsFiniteSet(Young(h, a)) /\ Cardinality(Young(h, a)) <= HintMax
  <2>1. /\ IsFiniteSet(DOMAIN byHint[h]) /\ Cardinality(DOMAIN byHint[h]) <= HintMax
        /\ Young(h, a) \subseteq DOMAIN byHint[h]
    BY DEF HintInv, HintTable, Young
  <2>2. /\ IsFiniteSet(Young(h, a))
        /\ Cardinality(Young(h, a)) <= Cardinality(DOMAIN byHint[h])
    BY <2>1, FS_Subset
  <2>3. Cardinality(DOMAIN byHint[h]) \in Nat /\ Cardinality(Young(h, a)) \in Nat
    BY <2>1, <2>2, FS_CardinalityType
  <2> QED BY <2>1, <2>2, <2>3, <1>0
<1>4. /\ IsFiniteSet(O \cup Young(h, a))
      /\ Cardinality(O \cup Young(h, a)) <= 2 * HintMax
  <2>1. /\ IsFiniteSet(O \cup Young(h, a)) /\ IsFiniteSet(O \cap Young(h, a))
        /\ Cardinality(O \cup Young(h, a)) =
             Cardinality(O) + Cardinality(Young(h, a)) - Cardinality(O \cap Young(h, a))
    BY <1>2, <1>3, FS_Union, FS_Intersection
  <2>2. /\ Cardinality(O) \in Nat /\ Cardinality(Young(h, a)) \in Nat
        /\ Cardinality(O \cap Young(h, a)) \in Nat
    BY <1>2, <1>3, <2>1, FS_CardinalityType
  <2> QED BY <1>0, <1>2, <1>3, <2>1, <2>2
<1>5. InWindow(h, clock) \subseteq O \cup Young(h, a)
  <2> SUFFICES ASSUME NEW e \in enrolled, e[1] = h,
                      e[3] \in clock - HintWindow .. clock
               PROVE  e[2] \in O \cup Young(h, a)
    BY DEF InWindow
  <2>1. e[3] >= a
    BY <1>0
  <2> QED BY <2>1, <1>2 DEF HeldBy
<1>6. Cardinality(InWindow(h, clock)) <= Cardinality(O \cup Young(h, a))
  BY <1>4, <1>5, FS_Subset
<1>7. /\ Cardinality(InWindow(h, clock)) \in Nat
      /\ Cardinality(O \cup Young(h, a)) \in Nat
  BY <1>4, <1>5, FS_Subset, FS_CardinalityType
<1> QED BY <1>0, <1>4, <1>6, <1>7 DEF Windowed

LEMMA HintInitial == LimitInit => HintInv
<1> SUFFICES ASSUME LimitInit PROVE HintInv
  OBVIOUS
<1>0. HintMax \in Nat /\ HintWindow \in Nat
  BY LimitNumbers
<1>1. clock = 0 /\ enrolled = {} /\ byHint = [h \in Hints |-> <<>>]
  BY DEF LimitInit
<1>2. IsFiniteSet({}) /\ Cardinality({}) = 0
  BY FS_EmptySet
<1>3. ASSUME NEW h \in Hints
      PROVE  /\ HintTable(h) /\ \A a : KnownSince(h, a)
  <2>1. byHint[h] = <<>> /\ DOMAIN byHint[h] = {}
    BY <1>1
  <2>2. HintTable(h)
    <3>1. byHint[h] \in [DOMAIN byHint[h] -> 0..clock]
      BY <2>1
    <3> QED BY <1>0, <1>2, <2>1, <3>1 DEF HintTable
  <2>3. \A a : HeldBy(h, a, {})
    BY <1>1, <2>1 DEF HeldBy
  <2> QED BY <1>0, <1>2, <2>2, <2>3 DEF KnownSince
<1> QED BY <1>1, <1>3 DEF HintInv

LEMMA HintAllowed ==
  ASSUME HintInv, NEW hint \in Hints, NEW s \in HintSessions, Allow(hint, s)
  PROVE  HintInv'
<1>0. HintMax \in Nat /\ HintWindow \in Nat /\ clock \in Nat /\ clock' = clock
  BY LimitNumbers DEF HintInv, Allow
<1> DEFINE D == DOMAIN byHint[hint]
           live == {x \in D : clock - byHint[hint][x] <= HintWindow}
           ok == s \in live \/ HintRoom(live)
           kept == IF ok THEN live \cup {s} ELSE live
           f == [x \in kept |-> IF x \in live THEN byHint[hint][x] ELSE clock]
<1>1. /\ byHint' = [byHint EXCEPT ![hint] = f]
      /\ enrolled' = IF ok THEN enrolled \cup {<<hint, s, clock>>} ELSE enrolled
  BY Zenon DEF Allow
<1>2. /\ DOMAIN byHint' = Hints /\ byHint'[hint] = f
      /\ \A h \in Hints \ {hint} : byHint'[h] = byHint[h]
  BY <1>1 DEF HintInv
<1>3. \A e \in enrolled' : e \in enrolled \/ (ok /\ e = <<hint, s, clock>>)
  <2> HIDE DEF ok, f
  <2>1. CASE ok
    BY <2>1, <1>1
  <2>2. CASE ~ ok
    BY <2>2, <1>1
  <2> QED BY <2>1, <2>2
<1>4. IsFiniteSet(D) /\ Cardinality(D) <= HintMax /\ byHint[hint] \in [D -> 0..clock]
  BY DEF HintInv, HintTable
<1>5. /\ live \subseteq D /\ kept \subseteq live \cup {s} /\ live \subseteq kept
      /\ \A x \in live : f[x] = byHint[hint][x]
      /\ \A x \in kept \ live : x = s /\ f[x] = clock /\ ok
      /\ DOMAIN f = kept
  OBVIOUS
<1>6. IsFiniteSet(kept) /\ Cardinality(kept) <= HintMax
  <2>1. IsFiniteSet(live) /\ Cardinality(live) <= Cardinality(D)
    BY <1>4, <1>5, FS_Subset
  <2>2. Cardinality(live) \in Nat /\ Cardinality(D) \in Nat
    BY <1>4, <2>1, FS_CardinalityType
  <2>3. CASE s \in live \/ ~ ok
    <3>1. kept = live
      BY <2>3
    <3> HIDE DEF kept, live, D
    <3> QED BY <1>0, <1>4, <2>1, <2>2, <3>1
  <2>4. CASE ~ (s \in live) /\ ok
    <3>1. Cardinality(live) < HintMax /\ kept = live \cup {s}
      BY <2>4 DEF HintRoom
    <3>2. IsFiniteSet(kept) /\ Cardinality(kept) = Cardinality(live) + 1
      BY <2>1, <2>4, <3>1, FS_AddElement
    <3> QED BY <1>0, <2>2, <3>1, <3>2
  <2> QED BY <2>3, <2>4
<1>7. f \in [kept -> 0..clock]
  <2>1. ASSUME NEW x \in kept PROVE f[x] \in 0..clock
    <3>1. CASE x \in live
      BY <3>1, <1>4, <1>5
    <3>2. CASE x \notin live
      BY <3>2, <1>0, <1>5
    <3> QED BY <3>1, <3>2
  <2> QED BY <2>1
<1> HIDE DEF f, kept, ok, live, D
<1>8. ASSUME NEW h \in Hints PROVE HintTable(h)'
  <2>1. CASE h = hint
    BY <2>1, <1>0, <1>2, <1>5, <1>6, <1>7 DEF HintTable
  <2>2. CASE h # hint
    BY <2>2, <1>0, <1>2 DEF HintTable, HintInv
  <2> QED BY <2>1, <2>2
<1>9. ASSUME NEW h \in Hints, NEW a \in clock - HintWindow .. clock
      PROVE  KnownSince(h, a)'
  <2>1. PICK O : IsFiniteSet(O) /\ Cardinality(O) <= HintMax /\ HeldBy(h, a, O)
    BY DEF HintInv, KnownSince
  <2>2. Young(h, a) \subseteq Young(h, a)'
    <3>1. CASE h # hint
      BY <3>1, <1>2 DEF Young
    <3>2. CASE h = hint
      <4> SUFFICES ASSUME NEW x \in D, byHint[hint][x] >= a
                   PROVE  x \in DOMAIN byHint'[hint] /\ byHint'[hint][x] >= a
        BY <3>2 DEF Young, D
      <4>1. byHint[hint][x] \in 0..clock
        BY <1>4
      <4>2. clock - byHint[hint][x] <= HintWindow
        BY <4>1, <1>0
      <4>3. x \in live
        BY <4>2 DEF live
      <4> QED BY <4>3, <1>2, <1>5
    <3> QED BY <3>1, <3>2
  <2>3. DOMAIN byHint'[h] \subseteq O \cup Young(h, a)'
    <3>1. CASE h # hint
      BY <3>1, <1>2, <2>1, <2>2 DEF HeldBy
    <3>2. CASE h = hint
      <4> SUFFICES ASSUME NEW x \in kept PROVE x \in O \cup Young(h, a)'
        BY <3>2, <1>2, <1>5
      <4>1. CASE x \in live
        BY <4>1, <3>2, <1>5, <2>1, <2>2 DEF HeldBy, D
      <4>2. CASE x \notin live
        <5>1. byHint'[h][x] = clock /\ x \in DOMAIN byHint'[h]
          BY <4>2, <3>2, <1>2, <1>5
        <5>2. clock >= a
          BY <1>0
        <5> QED BY <5>1, <5>2 DEF Young
      <4> QED BY <4>1, <4>2
    <3> QED BY <3>1, <3>2
  <2>4. ASSUME NEW e \in enrolled', e[1] = h, e[3] >= a
        PROVE  e[2] \in O \cup Young(h, a)'
    <3>1. CASE e \in enrolled
      BY <3>1, <2>1, <2>2, <2>4 DEF HeldBy
    <3>2. CASE ok /\ e = <<hint, s, clock>>
      <4>1. h = hint /\ e[2] = s
        BY <3>2, <2>4
      <4>2. s \in kept
        BY <3>2 DEF kept
      <4> QED BY <4>1, <4>2, <1>2, <1>5, <2>3
    <3> QED BY <3>1, <3>2, <1>3
  <2> QED BY <2>1, <2>3, <2>4 DEF KnownSince, HeldBy
<1>10. ASSUME NEW h \in Hints, NEW t \in 0..clock - 1 PROVE Windowed(h, t)'
  <2>1. InWindow(h, t)' = InWindow(h, t)
    <3>1. clock \notin t - HintWindow .. t
      BY <1>0
    <3>2. \A e : (e \in enrolled' /\ e[3] \in t - HintWindow .. t)
                 <=> (e \in enrolled /\ e[3] \in t - HintWindow .. t)
      BY <1>1, <1>3, <3>1
    <3> QED BY <3>2 DEF InWindow
  <2>2. Windowed(h, t)
    BY DEF HintInv
  <2> QED BY <2>1, <2>2 DEF Windowed
<1>11. \A e \in enrolled' : e[3] \in 0..clock
  BY <1>0, <1>3 DEF HintInv
<1> QED BY <1>0, <1>2, <1>8, <1>9, <1>10, <1>11 DEF HintInv

LEMMA HintTick == HintInv /\ LimitTick => HintInv'
<1> SUFFICES ASSUME HintInv, LimitTick PROVE HintInv'
  OBVIOUS
<1>0. /\ HintMax \in Nat /\ HintWindow \in Nat /\ clock \in Nat /\ clock' = clock + 1
      /\ byHint' = byHint /\ enrolled' = enrolled
  BY LimitNumbers DEF HintInv, LimitTick, limiterVars, limitHistory
<1>1. ASSUME NEW h \in Hints PROVE HintTable(h)'
  BY <1>0 DEF HintInv, HintTable
<1>2. ASSUME NEW h \in Hints, NEW a \in clock' - HintWindow .. clock'
      PROVE  KnownSince(h, a)'
  <2>1. CASE a \in clock - HintWindow .. clock
    BY <2>1, <1>0 DEF HintInv, KnownSince, HeldBy, Young
  <2>2. CASE a = clock + 1
    <3>1. \A e \in enrolled : ~ (e[3] >= a)
      BY <2>2, <1>0 DEF HintInv
    <3>2. HeldBy(h, a, DOMAIN byHint[h])
      BY <3>1 DEF HeldBy
    <3>3. KnownSince(h, a)
      BY <3>2 DEF KnownSince, HintInv, HintTable
    <3> QED BY <3>3, <1>0 DEF KnownSince, HeldBy, Young
  <2> QED BY <2>1, <2>2, <1>0
<1>3. ASSUME NEW h \in Hints, NEW t \in 0..clock' - 1 PROVE Windowed(h, t)'
  <2>1. t \in 0..clock - 1 \/ t = clock
    BY <1>0
  <2>2. Windowed(h, t)
    BY <2>1, WindowOfNow DEF HintInv
  <2> QED BY <2>2, <1>0 DEF Windowed, InWindow
<1>4. \A e \in enrolled' : e[3] \in 0..clock'
  BY <1>0 DEF HintInv
<1> QED BY <1>0, <1>1, <1>2, <1>3, <1>4 DEF HintInv

LEMMA HintStep == HintInv /\ [LimitNext]_limitVars => HintInv'
<1> SUFFICES ASSUME HintInv, [LimitNext]_limitVars PROVE HintInv'
  OBVIOUS
<1>1. ASSUME UNCHANGED <<clock, byHint, enrolled>> PROVE HintInv'
  BY <1>1 DEF HintInv, HintTable, KnownSince, HeldBy, Young, Windowed, InWindow
<1>2. CASE LimitTick
  BY <1>2, HintTick
<1>3. CASE \E hint \in Hints, s \in HintSessions : Allow(hint, s)
  BY <1>3, HintAllowed
<1>4. CASE \E h \in Callers, r \in Requests : middleware(h, r)
  BY <1>4, <1>1 DEF middleware, Arrives, limiterVars, limitHistory
<1>5. CASE \E h \in Callers, i \in Identifiers : BeginLimited(h, i)
  BY <1>5, <1>1 DEF BeginLimited, Arrives, limiterVars, limitHistory
<1>6. CASE \E h \in Callers : allowRequest(h) \/ allowSend(h)
  BY <1>6, <1>1 DEF allowRequest, allowSend, Served
<1>7. CASE UNCHANGED limitVars
  BY <1>7, <1>1 DEF limitVars, limiterVars, limitHistory
<1> QED BY <1>2, <1>3, <1>4, <1>5, <1>6, <1>7 DEF LimitNext

(* A device brings at most twice HintMax sessions in any window: what the  *)
(* table held when the window began, and what it let in since, which it    *)
(* forgets no earlier than the window ends (InMemoryHintLimiter.Allow).    *)
THEOREM HintsBoundedHolds == LimitSpec => []HintsBounded
<1>1. HintInv => HintsBounded
  <2> SUFFICES ASSUME HintInv, NEW h \in Hints, NEW t \in 0..clock
               PROVE  Cardinality(InWindow(h, t)) <= 2 * HintMax
    BY DEF HintsBounded, InWindow
  <2>1. t \in 0..clock - 1 \/ t = clock
    BY DEF HintInv
  <2> QED BY <2>1, WindowOfNow DEF HintInv, Windowed
<1> QED BY HintInitial, HintStep, <1>1, PTL DEF LimitSpec

-----------------------------------------------------------------------------
(* Induction, and what a total over a span of time (TotalOf) amounts to.   *)

(* A set of natural numbers that is not empty has a least member.          *)
LEMMA LeastNatural ==
  ASSUME NEW S \in SUBSET Nat, S # {}
  PROVE  \E m \in S : \A n \in S : m <= n
<1> DEFINE R == OpToRel(<, Nat)
<1>1. IsWellFoundedOn(R, Nat)
  BY NatLessThanWellFounded
<1> HIDE DEF R
<1>2. PICK m \in S : \A n \in S : <<n, m>> \notin R
  BY <1>1, WFMin
<1>3. \A n \in S : n < m => <<n, m>> \in R
  BY DEF OpToRel, R
<1>4. \A n \in S : ~ (n < m)
  BY <1>2, <1>3, Zenon
<1> HIDE DEF R
<1> QED BY <1>4

(* What holds of 0, and of n + 1 if of n, holds of every natural number.   *)
LEMMA SetInduction ==
  ASSUME NEW S, 0 \in S, \A n \in Nat : n \in S => n + 1 \in S
  PROVE  Nat \subseteq S
<1> SUFFICES ASSUME Nat \ S # {} PROVE FALSE
  OBVIOUS
<1>1. PICK m \in Nat \ S : \A n \in Nat \ S : m <= n
  BY LeastNatural
<1>2. m - 1 \in Nat /\ m - 1 \notin Nat \ S
  BY <1>1
<1> QED BY <1>1, <1>2

(* g is what TotalOf computes of f up to each time between a and b.        *)
Totals(g, f, a, b) ==
  g = [t \in a..b |-> IF t = a THEN f[t] ELSE g[t - 1] + f[t]]

(* The function by which TotalOf is computed exists for every span.        *)
LEMMA TotalsExist ==
  ASSUME NEW f, NEW a \in Int
  PROVE  \A n \in Nat : \E g : Totals(g, f, a, a + n)
<1> DEFINE S == {n \in Nat : \E g : Totals(g, f, a, a + n)}
<1>1. 0 \in S
  <2>1. Totals([t \in a..a |-> f[t]], f, a, a)
    BY DEF Totals
  <2>2. a + 0 = a
    OBVIOUS
  <2> QED BY <2>1, <2>2
<1>2. ASSUME NEW n \in Nat, n \in S PROVE n + 1 \in S
  <2>1. PICK g : Totals(g, f, a, a + n)
    BY <1>2
  <2> DEFINE g2 == [t \in a..a + (n + 1) |->
                     IF t = a THEN f[t]
                     ELSE (IF t = a + (n + 1) THEN g[a + n] ELSE g[t - 1]) + f[t]]
  <2>2. \A t \in a..a + n : g[t] = IF t = a THEN f[t] ELSE g[t - 1] + f[t]
    BY <2>1 DEF Totals
  <2>3. \A t \in a..a + n : g2[t] = g[t]
    BY <2>2
  <2>4. \A t \in a..a + (n + 1) : t # a => t - 1 \in a..a + n
    OBVIOUS
  <2>5. \A t \in a..a + (n + 1) : g2[t] = IF t = a THEN f[t] ELSE g2[t - 1] + f[t]
    <3> SUFFICES ASSUME NEW t \in a..a + (n + 1), t # a
                 PROVE  g2[t] = g2[t - 1] + f[t]
      OBVIOUS
    <3>1. g2[t - 1] = g[t - 1]
      BY <2>3, <2>4
    <3>2. g2[t] = g[t - 1] + f[t]
      <4>1. t = a + (n + 1) => t - 1 = a + n
        OBVIOUS
      <4> QED BY <4>1
    <3> QED BY <3>1, <3>2
  <2>6. g2 = [t \in a..a + (n + 1) |-> IF t = a THEN f[t] ELSE g2[t - 1] + f[t]]
    <3>1. g2 = [t \in a..a + (n + 1) |-> g2[t]]
      OBVIOUS
    <3> HIDE DEF g2
    <3> QED BY <3>1, <2>5
  <2> HIDE DEF g2
  <2> QED BY <2>6 DEF Totals
<1> HIDE DEF S
<1>3. Nat \subseteq S
  BY <1>1, <1>2, SetInduction
<1> QED BY <1>3 DEF S

(* TotalOf is the last value of that function.                             *)
LEMMA TotalOfTotals ==
  ASSUME NEW f, NEW a \in Int, NEW b \in Int, a <= b
  PROVE  \E g : Totals(g, f, a, b) /\ TotalOf(f, a, b) = g[b]
<1> DEFINE g == CHOOSE h : h = [t \in a..b |-> IF t = a THEN f[t] ELSE h[t - 1] + f[t]]
<1>1. TotalOf(f, a, b) = g[b]
  BY DEF TotalOf
<1>2. \E h : Totals(h, f, a, b)
  <2>1. b - a \in Nat /\ a + (b - a) = b
    OBVIOUS
  <2> QED BY <2>1, TotalsExist
<1>3. \E h : h = [t \in a..b |-> IF t = a THEN f[t] ELSE h[t - 1] + f[t]]
  BY <1>2 DEF Totals
<1>4. Totals(g, f, a, b)
  BY <1>3, Zenon DEF Totals
<1> HIDE DEF g
<1> QED BY <1>1, <1>4

(* What holds of a, and of every later time if of the one before.          *)
LEMMA IntervalInduction ==
  ASSUME NEW a \in Int, NEW b \in Int, NEW S, a \in S,
         \A t \in a..b : t # a /\ t - 1 \in S => t \in S
  PROVE  a..b \subseteq S
<1> DEFINE T == {n \in Nat : a + n \in a..b => a + n \in S}
<1>1. 0 \in T
  BY a + 0 = a
<1>2. ASSUME NEW n \in Nat, n \in T PROVE n + 1 \in T
  <2> SUFFICES ASSUME a + (n + 1) \in a..b PROVE a + (n + 1) \in S
    OBVIOUS
  <2>1. a + n \in a..b /\ (a + (n + 1)) - 1 = a + n /\ a + (n + 1) # a
    OBVIOUS
  <2>2. a + n \in S
    BY <1>2, <2>1
  <2>3. a + (n + 1) \in S
    <3> DEFINE u == a + (n + 1)
    <3>1. u \in a..b /\ u # a /\ u - 1 \in S
      BY <2>1, <2>2
    <3> HIDE DEF u
    <3> QED BY <3>1 DEF u
  <2> QED BY <2>3
<1> HIDE DEF T
<1>3. Nat \subseteq T
  BY <1>1, <1>2, SetInduction
<1> SUFFICES ASSUME NEW t \in a..b PROVE t \in S
  OBVIOUS
<1>4. t - a \in Nat /\ a + (t - a) = t
  OBVIOUS
<1>5. t - a \in T
  BY <1>3, <1>4
<1> QED BY <1>4, <1>5 DEF T

(* The total of natural numbers is one.                                    *)
LEMMA TotalIsNat ==
  ASSUME NEW f, NEW a \in Int, NEW b \in Int, a <= b, \A t \in a..b : f[t] \in Nat
  PROVE  TotalOf(f, a, b) \in Nat
<1>1. PICK g : Totals(g, f, a, b) /\ TotalOf(f, a, b) = g[b]
  BY TotalOfTotals
<1>2. \A t \in a..b : g[t] = IF t = a THEN f[t] ELSE g[t - 1] + f[t]
  BY <1>1 DEF Totals
<1> DEFINE S == {t \in a..b : g[t] \in Nat}
<1>3. a \in S
  BY <1>2
<1>4. ASSUME NEW t \in a..b, t # a, t - 1 \in S PROVE t \in S
  BY <1>2, <1>4
<1> HIDE DEF S
<1>5. a..b \subseteq S
  BY <1>3, <1>4, IntervalInduction
<1> QED BY <1>1, <1>5 DEF S

(* The total of zeros is zero.                                             *)
LEMMA TotalOfNothing ==
  ASSUME NEW f, NEW a \in Int, NEW b \in Int, a <= b, \A t \in a..b : f[t] = 0
  PROVE  TotalOf(f, a, b) = 0
<1>1. PICK g : Totals(g, f, a, b) /\ TotalOf(f, a, b) = g[b]
  BY TotalOfTotals
<1>2. \A t \in a..b : g[t] = IF t = a THEN f[t] ELSE g[t - 1] + f[t]
  BY <1>1 DEF Totals
<1> DEFINE S == {t \in a..b : g[t] = 0}
<1>3. a \in S
  BY <1>2
<1>4. ASSUME NEW t \in a..b, t # a, t - 1 \in S PROVE t \in S
  BY <1>2, <1>4
<1> HIDE DEF S
<1>5. a..b \subseteq S
  BY <1>3, <1>4, IntervalInduction
<1> QED BY <1>1, <1>5 DEF S

(* f2 counts one more than f at time u, between a and b.                   *)
OneMoreAt(f, f2, u, a, b) ==
  \A t \in a..b : f[t] \in Nat /\ f2[t] = f[t] + (IF t = u THEN 1 ELSE 0)

(* One more at time u counts in the totals of the spans that contain u.    *)
LEMMA TotalOneMore ==
  ASSUME NEW f, NEW f2, NEW u \in Int, NEW a \in Int, NEW b \in Int, a <= b,
         OneMoreAt(f, f2, u, a, b)
  PROVE  TotalOf(f2, a, b) = TotalOf(f, a, b) + (IF u \in a..b THEN 1 ELSE 0)
<1>1. PICK g : Totals(g, f, a, b) /\ TotalOf(f, a, b) = g[b]
  BY TotalOfTotals
<1>2. PICK g2 : Totals(g2, f2, a, b) /\ TotalOf(f2, a, b) = g2[b]
  BY TotalOfTotals
<1>3. \A t \in a..b : g[t] = IF t = a THEN f[t] ELSE g[t - 1] + f[t]
  BY <1>1 DEF Totals
<1>4. \A t \in a..b : g2[t] = IF t = a THEN f2[t] ELSE g2[t - 1] + f2[t]
  BY <1>2 DEF Totals
<1> DEFINE S == {t \in a..b : /\ g[t] \in Nat
                              /\ g2[t] = g[t] + (IF u \in a..t THEN 1 ELSE 0)}
<1>5. a \in S
  BY <1>3, <1>4 DEF OneMoreAt
<1>6. ASSUME NEW t \in a..b, t # a, t - 1 \in S PROVE t \in S
  <2>1. /\ t - 1 \in a..b /\ g[t - 1] \in Nat
        /\ g2[t - 1] = g[t - 1] + (IF u \in a..t - 1 THEN 1 ELSE 0)
    BY <1>6
  <2>2. g[t] = g[t - 1] + f[t] /\ g2[t] = g2[t - 1] + f2[t]
    BY <1>3, <1>4, <1>6
  <2>3. f[t] \in Nat /\ f2[t] = f[t] + (IF t = u THEN 1 ELSE 0)
    BY DEF OneMoreAt
  <2>4. CASE u \in a..t - 1
    BY <2>1, <2>2, <2>3, <2>4
  <2>5. CASE u = t
    BY <2>1, <2>2, <2>3, <2>5
  <2>6. CASE u \notin a..t
    BY <2>1, <2>2, <2>3, <2>6
  <2> QED BY <2>4, <2>5, <2>6
<1> HIDE DEF S
<1>7. a..b \subseteq S
  BY <1>5, <1>6, IntervalInduction
<1> QED BY <1>1, <1>2, <1>7 DEF S

-----------------------------------------------------------------------------
(* How many guesses calls get that overlap (SharedGuesses).                *)

IsTable(f, m) ==
  f = [x \in (0..m) \X (0..MaxAttempts) |->
        IF x[1] = 0 \/ x[2] = 0 THEN 0 ELSE f[<<x[1], x[2] - 1>>] + (f[<<x[1] - 1, x[2]>>] + 1)]

LEMMA NextRow ==
  ASSUME NEW m \in Nat, NEW f, IsTable(f, m)
  PROVE  \E f2 : IsTable(f2, m + 1)
<1>1. MaxAttempts \in Nat
  BY CodeAssumption
<1>2. PICK h : h = [d \in 0..MaxAttempts |-> IF d = 0 THEN 0 ELSE f[<<m, d>>] + 1]
  OBVIOUS
<1>3. PICK g : Totals(g, h, 0, MaxAttempts)
  <2>1. \A n \in Nat : \E g : Totals(g, h, 0, 0 + n)
    BY 0 \in Int, TotalsExist
  <2>2. 0 + MaxAttempts = MaxAttempts
    BY <1>1
  <2>3. \E g : Totals(g, h, 0, 0 + MaxAttempts)
    BY <1>1, <2>1
  <2> QED BY <2>2, <2>3
<1>4. \A d \in 0..MaxAttempts : g[d] = IF d = 0 THEN 0 ELSE g[d - 1] + (f[<<m, d>>] + 1)
  <2>1. \A d \in 0..MaxAttempts : g[d] = IF d = 0 THEN h[d] ELSE g[d - 1] + h[d]
    BY <1>3 DEF Totals
  <2>2. \A d \in 0..MaxAttempts : h[d] = IF d = 0 THEN 0 ELSE f[<<m, d>>] + 1
    BY <1>2
  <2> QED BY <2>1, <2>2
<1>5. \A n \in 0..m, d \in 0..MaxAttempts :
        f[<<n, d>>] = IF n = 0 \/ d = 0 THEN 0 ELSE f[<<n, d - 1>>] + (f[<<n - 1, d>>] + 1)
  BY DEF IsTable
<1> DEFINE f2 == [x \in (0..(m + 1)) \X (0..MaxAttempts) |-> IF x[1] = m + 1 THEN g[x[2]] ELSE f[x]]
<1>6. /\ \A d \in 0..MaxAttempts : f2[<<m + 1, d>>] = g[d]
      /\ \A n \in 0..m, d \in 0..MaxAttempts : f2[<<n, d>>] = f[<<n, d>>]
  OBVIOUS
<1>7. f2 = [x \in (0..(m + 1)) \X (0..MaxAttempts) |-> f2[x]]
  OBVIOUS
<1> HIDE DEF f2
<1>8. \A n \in 0..(m + 1), d \in 0..MaxAttempts :
        f2[<<n, d>>] = IF n = 0 \/ d = 0 THEN 0 ELSE f2[<<n, d - 1>>] + (f2[<<n - 1, d>>] + 1)
  <2> SUFFICES ASSUME NEW n \in 0..(m + 1), NEW d \in 0..MaxAttempts
               PROVE  f2[<<n, d>>] = IF n = 0 \/ d = 0 THEN 0 ELSE f2[<<n, d - 1>>] + (f2[<<n - 1, d>>] + 1)
    OBVIOUS
  <2>1. CASE n \in 0..m
    <3>1. n # 0 => n - 1 \in 0..m
      BY <2>1
    <3>2. d # 0 => d - 1 \in 0..MaxAttempts
      BY <1>1
    <3> QED BY <2>1, <3>1, <3>2, <1>5, <1>6
  <2>2. CASE n = m + 1
    <3>1. n # 0 /\ n - 1 = m /\ m \in 0..m
      BY <2>2
    <3>2. d # 0 => d - 1 \in 0..MaxAttempts
      BY <1>1
    <3>3. f2[<<n, d>>] = IF d = 0 THEN 0 ELSE g[d - 1] + (f[<<m, d>>] + 1)
      BY <2>2, <1>4, <1>6
    <3>4. f2[<<n - 1, d>>] = f[<<m, d>>]
      BY <3>1, <1>6
    <3>5. d # 0 => f2[<<n, d - 1>>] = g[d - 1]
      BY <2>2, <3>2, <1>6
    <3> QED BY <3>1, <3>3, <3>4, <3>5
  <2> QED BY <2>1, <2>2
<1>9. ASSUME NEW x \in (0..(m + 1)) \X (0..MaxAttempts)
      PROVE  f2[x] = IF x[1] = 0 \/ x[2] = 0 THEN 0
                     ELSE f2[<<x[1], x[2] - 1>>] + (f2[<<x[1] - 1, x[2]>>] + 1)
  <2>1. x = <<x[1], x[2]>> /\ x[1] \in 0..(m + 1) /\ x[2] \in 0..MaxAttempts
    OBVIOUS
  <2> QED BY <2>1, <1>8, ZenonT(60)
<1>10. f2 = [x \in (0..(m + 1)) \X (0..MaxAttempts) |->
               IF x[1] = 0 \/ x[2] = 0 THEN 0
               ELSE f2[<<x[1], x[2] - 1>>] + (f2[<<x[1] - 1, x[2]>>] + 1)]
  BY <1>7, <1>9
<1> QED BY <1>10, Zenon DEF IsTable

LEMMA TablesExist == \A m \in Nat : \E f : IsTable(f, m)
<1> DEFINE S == {m \in Nat : \E f : IsTable(f, m)}
<1>1. 0 \in S
  <2>1. IsTable([x \in (0..0) \X (0..MaxAttempts) |-> 0], 0)
    BY DEF IsTable
  <2> QED BY <2>1
<1>2. \A m \in Nat : m \in S => m + 1 \in S
  BY NextRow
<1> HIDE DEF S
<1>3. Nat \subseteq S
  BY <1>1, <1>2, SetInduction
<1> QED BY <1>3 DEF S

LEMMA HandlersAreFinite == IsFiniteSet(Handlers) /\ Cardinality(Handlers) \in Nat
  BY CodeAssumption, FS_CardinalityType

LEMMA GuessesTable ==
  /\ \A n \in 0..Cardinality(Handlers), d \in 0..MaxAttempts :
       SharedGuesses[<<n, d>>] = IF n = 0 \/ d = 0 THEN 0
                             ELSE SharedGuesses[<<n, d - 1>>] + (SharedGuesses[<<n - 1, d>>] + 1)
<1>1. \E f : IsTable(f, Cardinality(Handlers))
  BY TablesExist, HandlersAreFinite
<1>2. \E f : f = [x \in (0..Cardinality(Handlers)) \X (0..MaxAttempts) |->
                   IF x[1] = 0 \/ x[2] = 0 THEN 0 ELSE f[<<x[1], x[2] - 1>>] + (f[<<x[1] - 1, x[2]>>] + 1)]
  BY <1>1 DEF IsTable
<1>3. SharedGuesses = [x \in (0..Cardinality(Handlers)) \X (0..MaxAttempts) |->
                   IF x[1] = 0 \/ x[2] = 0 THEN 0
                   ELSE SharedGuesses[<<x[1], x[2] - 1>>] + (SharedGuesses[<<x[1] - 1, x[2]>>] + 1)]
  BY <1>2, Zenon DEF SharedGuesses
<1> QED BY <1>3

LEMMA GuessesAreNat ==
  \A n \in 0..Cardinality(Handlers), d \in 0..MaxAttempts : SharedGuesses[<<n, d>>] \in Nat
<1> DEFINE H == Cardinality(Handlers)
           S == {n \in 0..H : \A d \in 0..MaxAttempts : SharedGuesses[<<n, d>>] \in Nat}
<1>1. H \in Nat /\ MaxAttempts \in Nat
  BY HandlersAreFinite, CodeAssumption
<1> HIDE DEF H
<1>2. \A n \in 0..H, d \in 0..MaxAttempts :
        SharedGuesses[<<n, d>>] = IF n = 0 \/ d = 0 THEN 0
                              ELSE SharedGuesses[<<n, d - 1>>] + (SharedGuesses[<<n - 1, d>>] + 1)
  BY GuessesTable DEF H
<1>3. 0 \in S
  <2>1. 0 \in 0..H
    BY <1>1
  <2>2. \A d \in 0..MaxAttempts : SharedGuesses[<<0, d>>] = 0
    BY <1>2, <2>1, Zenon
  <2>3. 0 \in Nat
    OBVIOUS
  <2> QED BY <2>1, <2>2, <2>3
<1>4. ASSUME NEW n \in 0..H, n # 0, n - 1 \in S PROVE n \in S
  <2> DEFINE R == {d \in 0..MaxAttempts : SharedGuesses[<<n, d>>] \in Nat}
  <2>1. 0 \in R
    <3>1. 0 \in 0..MaxAttempts
      BY <1>1
    <3>2. SharedGuesses[<<n, 0>>] = 0
      BY <1>2, <3>1, Zenon
    <3>3. 0 \in Nat
      OBVIOUS
    <3> QED BY <3>1, <3>2, <3>3
  <2>2. ASSUME NEW d \in 0..MaxAttempts, d # 0, d - 1 \in R PROVE d \in R
    <3>1. SharedGuesses[<<n, d>>] = SharedGuesses[<<n, d - 1>>] + (SharedGuesses[<<n - 1, d>>] + 1)
      BY <1>2, <1>4, <2>2
    <3>2. SharedGuesses[<<n, d - 1>>] \in Nat /\ SharedGuesses[<<n - 1, d>>] \in Nat
      BY <1>4, <2>2
    <3> QED BY <3>1, <3>2
  <2> HIDE DEF R
  <2>3. 0..MaxAttempts \subseteq R
    BY <1>1, <2>1, <2>2, IntervalInduction
  <2> QED BY <2>3 DEF R
<1> HIDE DEF S
<1>5. 0..H \subseteq S
  BY <1>1, <1>3, <1>4, IntervalInduction
<1> QED BY <1>5 DEF S, H

(* The guesses that n calls can have made while one after another got past *)
(* d attempts left: what all but the last got out of them, and its own.    *)
Passing(d, n) == IF n = 0 THEN 0 ELSE SharedGuesses[<<n - 1, d>>] + 1
(* The guesses that can have been made, if for each d, n[d] calls have     *)
(* fewer than d attempts left.                                             *)
PassingOf(n) == [d \in 1..MaxAttempts |-> Passing(d, n[d])]
MadeBy(n) == TotalOf(PassingOf(n), 1, MaxAttempts)
Levels == [1..MaxAttempts -> 0..Cardinality(Handlers)]

LEMMA PassingIs ==
  ASSUME NEW n \in 0..Cardinality(Handlers), NEW d \in 1..MaxAttempts
  PROVE  /\ Passing(d, n) \in Nat
         /\ SharedGuesses[<<n, d>>] \in Nat /\ SharedGuesses[<<n, d - 1>>] \in Nat
         /\ SharedGuesses[<<n, d>>] = SharedGuesses[<<n, d - 1>>] + Passing(d, n)
<1>1. Cardinality(Handlers) \in Nat /\ MaxAttempts \in Nat
  BY HandlersAreFinite, CodeAssumption
<1>2. /\ d \in 0..MaxAttempts /\ d - 1 \in 0..MaxAttempts /\ d # 0
      /\ n # 0 => n - 1 \in 0..Cardinality(Handlers)
  BY <1>1
<1>3. SharedGuesses[<<n, d>>] \in Nat /\ SharedGuesses[<<n, d - 1>>] \in Nat
  BY <1>2, GuessesAreNat
<1>4. CASE n = 0
  <2>1. SharedGuesses[<<n, d>>] = 0 /\ SharedGuesses[<<n, d - 1>>] = 0
    BY <1>2, <1>4, GuessesTable, Zenon
  <2> QED BY <1>3, <1>4, <2>1 DEF Passing
<1>5. CASE n # 0
  <2>1. SharedGuesses[<<n, d>>] = SharedGuesses[<<n, d - 1>>] + (SharedGuesses[<<n - 1, d>>] + 1)
    BY <1>2, <1>5, GuessesTable, Zenon
  <2>2. SharedGuesses[<<n - 1, d>>] \in Nat
    BY <1>2, <1>5, GuessesAreNat
  <2>3. Passing(d, n) = SharedGuesses[<<n - 1, d>>] + 1
    BY <1>5 DEF Passing
  <2> QED BY <1>3, <2>1, <2>2, <2>3
<1> QED BY <1>4, <1>5

(* More calls can have made no fewer.                                      *)
LEMMA PassingGrows ==
  ASSUME NEW n \in 0..Cardinality(Handlers), NEW m \in 0..Cardinality(Handlers), n <= m,
         NEW d \in 1..MaxAttempts
  PROVE  Passing(d, n) <= Passing(d, m)
<1>1. Cardinality(Handlers) \in Nat /\ MaxAttempts \in Nat
  BY HandlersAreFinite, CodeAssumption
<1>2. ASSUME NEW t \in 0..Cardinality(Handlers), t # 0 PROVE Passing(d, t - 1) <= Passing(d, t)
  <2>1. t - 1 \in 0..Cardinality(Handlers)
    BY <1>1, <1>2
  <2>2. /\ Passing(d, t) = SharedGuesses[<<t - 1, d>>] + 1
        /\ Passing(d, t) \in Nat /\ Passing(d, t - 1) \in Nat
    BY <1>2, <2>1, PassingIs DEF Passing
  <2>3. /\ SharedGuesses[<<t - 1, d>>] = SharedGuesses[<<t - 1, d - 1>>] + Passing(d, t - 1)
        /\ SharedGuesses[<<t - 1, d>>] \in Nat /\ SharedGuesses[<<t - 1, d - 1>>] \in Nat
    BY <2>1, PassingIs
  <2> QED BY <2>2, <2>3
<1> DEFINE S == {t \in n..m : Passing(d, n) <= Passing(d, t)}
<1>3. ASSUME NEW t \in n..m PROVE t \in 0..Cardinality(Handlers) /\ Passing(d, t) \in Nat
  <2>1. t \in 0..Cardinality(Handlers)
    BY <1>1
  <2> QED BY <2>1, PassingIs
<1>4. n \in S
  BY <1>3
<1>5. ASSUME NEW t \in n..m, t # n, t - 1 \in S PROVE t \in S
  <2>1. t - 1 \in n..m /\ t \in 0..Cardinality(Handlers) /\ t # 0
    BY <1>3, <1>5
  <2>2. Passing(d, t - 1) \in Nat /\ Passing(d, t) \in Nat /\ Passing(d, n) \in Nat
    BY <1>3, <2>1
  <2>3. Passing(d, n) <= Passing(d, t - 1) /\ Passing(d, t - 1) <= Passing(d, t)
    BY <1>2, <1>5, <2>1
  <2>4. Passing(d, n) <= Passing(d, t)
    BY <2>2, <2>3
  <2> QED BY <2>4
<1> HIDE DEF S
<1>6. n..m \subseteq S
  BY <1>4, <1>5, IntervalInduction
<1>7. m \in n..m
  OBVIOUS
<1> QED BY <1>6, <1>7 DEF S

(* g sums PassingOf(n) up to each d.                                       *)
LEMMA PassingTotals ==
  ASSUME NEW n \in Levels, NEW g, Totals(g, PassingOf(n), 1, MaxAttempts)
  PROVE  /\ g[1] = Passing(1, n[1])
         /\ \A d \in 1..MaxAttempts : d # 1 => g[d] = g[d - 1] + Passing(d, n[d])
         /\ \A d \in 1..MaxAttempts : g[d] \in Nat /\ n[d] \in 0..Cardinality(Handlers)
<1>1. MaxAttempts \in Nat \ {0} /\ 1 \in 1..MaxAttempts
  BY CodeAssumption
<1>2. \A d \in 1..MaxAttempts :
        PassingOf(n)[d] = Passing(d, n[d]) /\ n[d] \in 0..Cardinality(Handlers)
  BY DEF PassingOf, Levels
<1>3. \A d \in 1..MaxAttempts :
        g[d] = IF d = 1 THEN PassingOf(n)[d] ELSE g[d - 1] + PassingOf(n)[d]
  BY DEF Totals
<1>4. \A d \in 1..MaxAttempts : Passing(d, n[d]) \in Nat
  BY <1>2, PassingIs
<1> DEFINE S == {d \in 1..MaxAttempts : g[d] \in Nat}
<1>5. 1 \in S
  BY <1>1, <1>2, <1>3, <1>4
<1>6. ASSUME NEW d \in 1..MaxAttempts, d # 1, d - 1 \in S PROVE d \in S
  <2>1. g[d] = g[d - 1] + Passing(d, n[d])
    BY <1>2, <1>3, <1>6
  <2> QED BY <1>4, <1>6, <2>1
<1> HIDE DEF S
<1>7. 1..MaxAttempts \subseteq S
  BY <1>1, <1>5, <1>6, IntervalInduction
<1>8. g[1] = Passing(1, n[1])
  BY <1>1, <1>2, <1>3
<1>9. \A d \in 1..MaxAttempts : d # 1 => g[d] = g[d - 1] + Passing(d, n[d])
  BY <1>2, <1>3
<1> QED BY <1>2, <1>7, <1>8, <1>9 DEF S

(* If at most m calls have fewer than d attempts left, for each d up to D, *)
(* no more guesses were made than m calls get out of D attempts.           *)
LEMMA PrefixBounded ==
  ASSUME NEW n \in Levels, NEW g, Totals(g, PassingOf(n), 1, MaxAttempts),
         NEW m \in 0..Cardinality(Handlers), NEW D \in 1..MaxAttempts,
         \A d \in 1..D : n[d] <= m
  PROVE  g[D] <= SharedGuesses[<<m, D>>]
<1>1. MaxAttempts \in Nat \ {0} /\ \A d \in 1..D : d \in 1..MaxAttempts
  BY CodeAssumption
<1>2. /\ g[1] = Passing(1, n[1])
      /\ \A d \in 1..MaxAttempts : d # 1 => g[d] = g[d - 1] + Passing(d, n[d])
      /\ \A d \in 1..MaxAttempts : g[d] \in Nat /\ n[d] \in 0..Cardinality(Handlers)
  BY PassingTotals
<1>3. \A d \in 1..D : /\ Passing(d, n[d]) <= Passing(d, m)
                      /\ Passing(d, n[d]) \in Nat /\ Passing(d, m) \in Nat
  BY <1>1, <1>2, PassingGrows, PassingIs
<1>4. \A d \in 1..D :
        /\ SharedGuesses[<<m, d>>] \in Nat /\ SharedGuesses[<<m, d - 1>>] \in Nat
        /\ SharedGuesses[<<m, d>>] = SharedGuesses[<<m, d - 1>>] + Passing(d, m)
  BY <1>1, PassingIs
<1> DEFINE S == {d \in 1..D : g[d] <= SharedGuesses[<<m, d>>]}
<1>5. 1 \in S
  <2>1. 1 \in 1..D
    OBVIOUS
  <2>2. /\ Passing(1, n[1]) <= Passing(1, m)
        /\ Passing(1, n[1]) \in Nat /\ Passing(1, m) \in Nat
    BY <1>3, <2>1
  <2>3. SharedGuesses[<<m, 1>>] \in Nat /\ Passing(1, m) <= SharedGuesses[<<m, 1>>]
    <3>1. /\ SharedGuesses[<<m, 1>>] \in Nat /\ SharedGuesses[<<m, 1 - 1>>] \in Nat
          /\ SharedGuesses[<<m, 1>>] = SharedGuesses[<<m, 1 - 1>>] + Passing(1, m)
      BY <1>4, <2>1
    <3> QED BY <2>2, <3>1
  <2>4. g[1] <= SharedGuesses[<<m, 1>>]
    BY <1>2, <2>2, <2>3
  <2> QED BY <2>1, <2>4
<1>6. ASSUME NEW d \in 1..D, d # 1, d - 1 \in S PROVE d \in S
  <2>1. d - 1 \in 1..D /\ d \in 1..MaxAttempts /\ d - 1 \in 1..MaxAttempts
    BY <1>1, <1>6
  <2>2. g[d] = g[d - 1] + Passing(d, n[d]) /\ g[d - 1] \in Nat
    BY <1>2, <1>6, <2>1
  <2>3. g[d - 1] <= SharedGuesses[<<m, d - 1>>]
    BY <1>6
  <2>4. g[d] <= SharedGuesses[<<m, d>>]
    BY <1>3, <1>4, <2>2, <2>3
  <2> QED BY <2>4
<1> HIDE DEF S
<1>7. 1..D \subseteq S
  BY <1>5, <1>6, IntervalInduction
<1> QED BY <1>7 DEF S

(* What two counts differ by at D stays if the second is nowhere lower.    *)
LEMMA TotalsApart ==
  ASSUME NEW n \in Levels, NEW g, Totals(g, PassingOf(n), 1, MaxAttempts),
         NEW n2 \in Levels, NEW g2, Totals(g2, PassingOf(n2), 1, MaxAttempts),
         NEW D \in 1..MaxAttempts, NEW k \in Nat, g[D] + k <= g2[D],
         \A d \in 1..MaxAttempts : d > D => n[d] <= n2[d]
  PROVE  g[MaxAttempts] + k <= g2[MaxAttempts]
<1>1. MaxAttempts \in Nat \ {0}
  BY CodeAssumption
<1>2. /\ \A d \in 1..MaxAttempts : d # 1 => g[d] = g[d - 1] + Passing(d, n[d])
      /\ \A d \in 1..MaxAttempts : g[d] \in Nat /\ n[d] \in 0..Cardinality(Handlers)
  BY PassingTotals
<1>3. /\ \A d \in 1..MaxAttempts : d # 1 => g2[d] = g2[d - 1] + Passing(d, n2[d])
      /\ \A d \in 1..MaxAttempts : g2[d] \in Nat /\ n2[d] \in 0..Cardinality(Handlers)
  BY PassingTotals
<1> DEFINE S == {d \in D..MaxAttempts : g[d] + k <= g2[d]}
<1>4. D \in S
  OBVIOUS
<1>5. ASSUME NEW d \in D..MaxAttempts, d # D, d - 1 \in S PROVE d \in S
  <2>1. d \in 1..MaxAttempts /\ d - 1 \in 1..MaxAttempts /\ d # 1 /\ d > D
    BY <1>5
  <2>2. g[d] = g[d - 1] + Passing(d, n[d]) /\ g2[d] = g2[d - 1] + Passing(d, n2[d])
    BY <1>2, <1>3, <2>1
  <2>3. /\ g[d - 1] \in Nat /\ g2[d - 1] \in Nat
        /\ n[d] \in 0..Cardinality(Handlers) /\ n2[d] \in 0..Cardinality(Handlers)
    BY <1>2, <1>3, <2>1
  <2>4. /\ Passing(d, n[d]) <= Passing(d, n2[d])
        /\ Passing(d, n[d]) \in Nat /\ Passing(d, n2[d]) \in Nat
    BY <2>1, <2>3, PassingGrows, PassingIs
  <2>5. g[d - 1] + k <= g2[d - 1]
    BY <1>5
  <2>6. g[d] + k <= g2[d]
    BY <2>2, <2>3, <2>4, <2>5
  <2> QED BY <2>6
<1> HIDE DEF S
<1>6. D..MaxAttempts \subseteq S
  BY <1>1, <1>4, <1>5, IntervalInduction
<1>7. MaxAttempts \in D..MaxAttempts
  BY <1>1
<1> QED BY <1>6, <1>7 DEF S

LEMMA MadeIs ==
  ASSUME NEW n \in Levels
  PROVE  \E g : Totals(g, PassingOf(n), 1, MaxAttempts) /\ MadeBy(n) = g[MaxAttempts]
<1>1. MaxAttempts \in Nat \ {0}
  BY CodeAssumption
<1>2. 1 \in Int /\ MaxAttempts \in Int /\ 1 <= MaxAttempts
  BY <1>1
<1> QED BY <1>2, TotalOfTotals DEF MadeBy

(* All in all no more than SharedGuesses, and never fewer with more calls. *)
LEMMA MadeBounded ==
  ASSUME NEW n \in Levels
  PROVE  /\ MadeBy(n) \in Nat
         /\ MadeBy(n) <= SharedGuesses[<<Cardinality(Handlers), MaxAttempts>>]
<1>1. /\ MaxAttempts \in 1..MaxAttempts
      /\ Cardinality(Handlers) \in 0..Cardinality(Handlers)
      /\ \A d \in 1..MaxAttempts : n[d] <= Cardinality(Handlers)
  BY CodeAssumption, HandlersAreFinite DEF Levels
<1>2. PICK g : Totals(g, PassingOf(n), 1, MaxAttempts) /\ MadeBy(n) = g[MaxAttempts]
  BY MadeIs
<1>3. g[MaxAttempts] \in Nat
  BY <1>1, <1>2, PassingTotals
<1>4. g[MaxAttempts] <= SharedGuesses[<<Cardinality(Handlers), MaxAttempts>>]
  BY <1>1, <1>2, PrefixBounded
<1> QED BY <1>2, <1>3, <1>4

LEMMA MadeGrows ==
  ASSUME NEW n \in Levels, NEW n2 \in Levels, \A d \in 1..MaxAttempts : n[d] <= n2[d]
  PROVE  MadeBy(n) <= MadeBy(n2)
<1>1. 1 \in 1..MaxAttempts /\ MaxAttempts \in 1..MaxAttempts
  BY CodeAssumption
<1>2. PICK g : Totals(g, PassingOf(n), 1, MaxAttempts) /\ MadeBy(n) = g[MaxAttempts]
  BY MadeIs
<1>3. PICK g2 : Totals(g2, PassingOf(n2), 1, MaxAttempts) /\ MadeBy(n2) = g2[MaxAttempts]
  BY MadeIs
<1>4. /\ g[1] = Passing(1, n[1]) /\ g[1] \in Nat /\ n[1] \in 0..Cardinality(Handlers)
      /\ g[MaxAttempts] \in Nat
  BY <1>1, <1>2, PassingTotals
<1>5. /\ g2[1] = Passing(1, n2[1]) /\ g2[1] \in Nat /\ n2[1] \in 0..Cardinality(Handlers)
      /\ g2[MaxAttempts] \in Nat
  BY <1>1, <1>3, <1>4, PassingTotals
<1>6. Passing(1, n[1]) <= Passing(1, n2[1])
  BY <1>1, <1>4, <1>5, PassingGrows
<1>7. 0 \in Nat /\ g[1] + 0 <= g2[1]
  BY <1>4, <1>5, <1>6
<1>8. g[MaxAttempts] + 0 <= g2[MaxAttempts]
  BY <1>1, <1>2, <1>3, <1>7, TotalsApart
<1> QED BY <1>2, <1>3, <1>4, <1>5, <1>8

(* One call more with fewer than D attempts left allows for a guess more,  *)
(* whatever becomes of the calls with fewer attempts than that.            *)
LEMMA MadeOneMore ==
  ASSUME NEW n \in Levels, NEW n2 \in Levels, NEW D \in 1..MaxAttempts,
         n[D] + 1 <= n2[D],
         \A d \in 1..D : n[d] <= n[D],
         \A d \in 1..MaxAttempts : d > D => n[d] <= n2[d]
  PROVE  MadeBy(n) + 1 <= MadeBy(n2)
<1>1. PICK g : Totals(g, PassingOf(n), 1, MaxAttempts) /\ MadeBy(n) = g[MaxAttempts]
  BY MadeIs
<1>2. PICK g2 : Totals(g2, PassingOf(n2), 1, MaxAttempts) /\ MadeBy(n2) = g2[MaxAttempts]
  BY MadeIs
<1>3. /\ g[1] = Passing(1, n[1])
      /\ D # 1 => g[D] = g[D - 1] + Passing(D, n[D])
      /\ \A d \in 1..MaxAttempts : g[d] \in Nat /\ n[d] \in 0..Cardinality(Handlers)
  BY <1>1, PassingTotals
<1>4. /\ g2[1] = Passing(1, n2[1])
      /\ D # 1 => g2[D] = g2[D - 1] + Passing(D, n2[D])
      /\ \A d \in 1..MaxAttempts : g2[d] \in Nat /\ n2[d] \in 0..Cardinality(Handlers)
  BY <1>2, PassingTotals
<1>5. MaxAttempts \in Nat \ {0} /\ Cardinality(Handlers) \in Nat
  BY CodeAssumption, HandlersAreFinite
<1>6. g[D] <= SharedGuesses[<<n[D], D>>]
  BY <1>1, <1>3, PrefixBounded
<1>7. n[D] \in 0..Cardinality(Handlers) /\ n2[D] \in 0..Cardinality(Handlers)
  BY <1>3, <1>4
<1>8. n[D] + 1 \in 0..Cardinality(Handlers) /\ n[D] + 1 # 0 /\ (n[D] + 1) - 1 = n[D]
  BY <1>5, <1>7
<1>9. Passing(D, n[D] + 1) = SharedGuesses[<<n[D], D>>] + 1
  BY <1>8 DEF Passing
<1>10. Passing(D, n[D] + 1) <= Passing(D, n2[D])
  BY <1>7, <1>8, PassingGrows
<1>11. /\ Passing(D, n2[D]) \in Nat /\ SharedGuesses[<<n[D], D>>] \in Nat
       /\ g[D] \in Nat /\ g2[D] \in Nat
  BY <1>3, <1>4, <1>7, PassingIs
<1>12. Passing(D, n2[D]) <= g2[D]
  <2>1. CASE D = 1
    BY <1>4, <1>11, <2>1
  <2>2. CASE D # 1
    <3>1. D - 1 \in 1..MaxAttempts
      BY <1>5, <2>2
    <3>2. g2[D - 1] \in Nat
      BY <1>4, <3>1
    <3> QED BY <1>4, <1>11, <2>2, <3>2
  <2> QED BY <2>1, <2>2
<1>13. g[D] + 1 <= g2[D]
  BY <1>6, <1>9, <1>10, <1>11, <1>12
<1>14. g[MaxAttempts] + 1 <= g2[MaxAttempts]
  BY 1 \in Nat, <1>1, <1>2, <1>13, TotalsApart
<1> QED BY <1>1, <1>2, <1>14

-----------------------------------------------------------------------------
(* Guesses at an OTP over a shared store: a call that writes back what it  *)
(* read may lower the count that the store holds, but not past the count   *)
(* of the guess it makes.                                                  *)
SharedCode(c) == begun[c].m = "sms" /\ StoreOf("sms") # "memory"
Open(c) == Stored(c) /\ ~docs[CodeKey(c)].blob.invalid
(* The count of a code that the store holds, and the one that a call goes  *)
(* by: the lower of that and of its copy.                                  *)
StoredLevel(c) == IF Open(c) THEN docs[CodeKey(c)].blob.attempts ELSE MaxAttempts
Copies(h, c) == pc[h] = "write" /\ seen[h].code = c
Level(h, c) ==
  IF Copies(h, c) /\ seen[h].attempts < StoredLevel(c) THEN seen[h].attempts ELSE StoredLevel(c)
Beyond(c, v) == {h \in Handlers : Level(h, c) > v}
(* For each d, how many calls have fewer than d attempts left.             *)
LevelsOf(c) == [d \in 1..MaxAttempts |-> Cardinality(Beyond(c, MaxAttempts - d))]

(* No open entry, and no copy of one, has used up its attempts.            *)
Live ==
  /\ \A k \in Keys : docs[k] # NoDoc /\ ~docs[k].blob.invalid => docs[k].blob.attempts < MaxAttempts
  /\ \A h \in Handlers : pc[h] = "write" => seen[h].attempts < MaxAttempts
GuessInv ==
  /\ OnceInv /\ Live
  /\ \A c \in 1..drawn : SharedCode(c) => guesses[c] <= MadeBy(LevelsOf(c))

LevelRange ==
  \A c \in 1..drawn :
    /\ StoredLevel(c) \in 0..MaxAttempts
    /\ \A h \in Handlers : /\ Level(h, c) \in 0..MaxAttempts /\ Level(h, c) <= StoredLevel(c)
                           /\ Copies(h, c) => /\ seen[h].attempts \in Nat
                                              /\ Level(h, c) <= seen[h].attempts

LEMMA LevelsRange == CodeShape /\ Live => LevelRange
<1> SUFFICES ASSUME CodeShape, Live, NEW c \in 1..drawn
             PROVE  /\ StoredLevel(c) \in 0..MaxAttempts
                    /\ \A h \in Handlers :
                         /\ Level(h, c) \in 0..MaxAttempts /\ Level(h, c) <= StoredLevel(c)
                         /\ Copies(h, c) => /\ seen[h].attempts \in Nat
                                            /\ Level(h, c) <= seen[h].attempts
  BY DEF LevelRange
<1>1. MaxAttempts \in Nat
  BY CodeTimes
<1>2. StoredLevel(c) \in 0..MaxAttempts
  <2>1. CASE Open(c)
    <3>1. CodeKey(c) \in Keys /\ docs[CodeKey(c)] # NoDoc /\ ~docs[CodeKey(c)].blob.invalid
      BY <2>1, CodeHasKey DEF Open, Stored
    <3>2. docs[CodeKey(c)].blob \in Entries /\ docs[CodeKey(c)].blob.attempts < MaxAttempts
      BY <3>1 DEF CodeShape, Live
    <3>3. docs[CodeKey(c)].blob.attempts \in Nat
      BY <3>2 DEF Entries
    <3> QED BY <1>1, <2>1, <3>2, <3>3 DEF StoredLevel
  <2>2. CASE ~Open(c)
    BY <1>1, <2>2 DEF StoredLevel
  <2> QED BY <2>1, <2>2
<1>3. ASSUME NEW h \in Handlers
      PROVE  /\ Level(h, c) \in 0..MaxAttempts /\ Level(h, c) <= StoredLevel(c)
             /\ Copies(h, c) => seen[h].attempts \in Nat /\ Level(h, c) <= seen[h].attempts
  <2>1. Copies(h, c) => seen[h].attempts \in Nat
    BY DEF Copies, CodeShape, CallIs, EntryIs, Entries
  <2>2. CASE Copies(h, c) /\ seen[h].attempts < StoredLevel(c)
    BY <1>1, <1>2, <2>1, <2>2 DEF Level
  <2>3. CASE ~(Copies(h, c) /\ seen[h].attempts < StoredLevel(c))
    <3>1. Level(h, c) = StoredLevel(c)
      BY <2>3 DEF Level
    <3> QED BY <1>2, <2>1, <2>3, <3>1
  <2> QED BY <2>2, <2>3
<1> QED BY <1>2, <1>3

LEMMA HandlersHold ==
  ASSUME NEW B \in SUBSET Handlers
  PROVE  /\ IsFiniteSet(B) /\ Cardinality(B) \in 0..Cardinality(Handlers)
         /\ \A A \in SUBSET B : Cardinality(A) <= Cardinality(B)
<1>1. IsFiniteSet(B) /\ Cardinality(B) <= Cardinality(Handlers)
  BY HandlersAreFinite, FS_Subset
<1>2. Cardinality(B) \in Nat /\ Cardinality(Handlers) \in Nat
  BY <1>1, HandlersAreFinite, FS_CardinalityType
<1>3. \A A \in SUBSET B : Cardinality(A) <= Cardinality(B)
  BY <1>1, FS_Subset
<1> QED BY <1>1, <1>2, <1>3

LEMMA LevelsAre ==
  ASSUME NEW c
  PROVE  LevelsOf(c) \in Levels
<1>1. ASSUME NEW d \in 1..MaxAttempts
      PROVE  Cardinality(Beyond(c, MaxAttempts - d)) \in 0..Cardinality(Handlers)
  BY HandlersHold DEF Beyond
<1> QED BY <1>1 DEF LevelsOf, Levels

LEMMA LevelsThen ==
  ASSUME NEW c
  PROVE  LevelsOf(c)' \in Levels
<1>1. ASSUME NEW d \in 1..MaxAttempts
      PROVE  Cardinality(Beyond(c, MaxAttempts - d)') \in 0..Cardinality(Handlers)
  BY HandlersHold DEF Beyond
<1> QED BY <1>1 DEF LevelsOf, Levels

(* Where no call's level falls, as many guesses can have been made.        *)
LEMMA LevelsRise ==
  ASSUME LevelRange, LevelRange', NEW c \in 1..drawn, c \in 1..drawn',
         \A h \in Handlers : Level(h, c) <= Level(h, c)'
  PROVE  MadeBy(LevelsOf(c)) <= MadeBy(LevelsOf(c))'
<1>1. PICK n, n2 : n = LevelsOf(c) /\ n2 = LevelsOf(c)'
  OBVIOUS
<1>2. n \in Levels /\ n2 \in Levels
  BY <1>1, LevelsAre, LevelsThen
<1>3. ASSUME NEW d \in 1..MaxAttempts PROVE n[d] <= n2[d]
  <2>1. PICK A, B : A = Beyond(c, MaxAttempts - d) /\ B = Beyond(c, MaxAttempts - d)'
    OBVIOUS
  <2>2. A \subseteq B
    <3> SUFFICES ASSUME NEW h \in Handlers, Level(h, c) > MaxAttempts - d
                 PROVE  Level(h, c)' > MaxAttempts - d
      BY <2>1 DEF Beyond
    <3>1. Level(h, c) \in Int /\ Level(h, c)' \in Int /\ MaxAttempts - d \in Int
      BY CodeTimes DEF LevelRange
    <3>2. Level(h, c) <= Level(h, c)'
      OBVIOUS
    <3> QED BY <3>1, <3>2
  <2>3. B \subseteq Handlers
    BY <2>1 DEF Beyond
  <2>4. n[d] = Cardinality(A) /\ n2[d] = Cardinality(B)
    BY <1>1, <2>1 DEF LevelsOf
  <2> QED BY <2>2, <2>3, <2>4, HandlersHold
<1>4. MadeBy(n) <= MadeBy(n2)
  BY <1>2, <1>3, MadeGrows
<1>5. MadeBy(LevelsOf(c))' = MadeBy(n2)
  BY <1>1 DEF MadeBy, PassingOf, Passing
<1> QED BY <1>1, <1>4, <1>5

(* A call keeps what it holds, or drops it, or reads an open entry.        *)
CallRises(h) ==
  \/ pc'[h] = pc[h] /\ seen'[h] = seen[h]
  \/ pc'[h] # "write"
  \/ \E k \in Keys : /\ docs[k] # NoDoc /\ docs'[k] = docs[k] /\ seen'[h] = docs[k].blob
                     /\ ~docs[k].blob.invalid
(* An entry stays, or goes, or is closed, or has attempts left.            *)
DocLives(k) ==
  docs'[k] \in {docs[k], NoDoc} \/ docs'[k].blob.invalid \/ docs'[k].blob.attempts < MaxAttempts

LEMMA LiveKept ==
  ASSUME CodeShape, Live, \A h \in Handlers : CallRises(h), \A k \in Keys : DocLives(k)
  PROVE  Live'
<1>1. ASSUME NEW k \in Keys, docs'[k] # NoDoc, ~docs'[k].blob.invalid
      PROVE  docs'[k].blob.attempts < MaxAttempts
  BY <1>1 DEF DocLives, Live
<1>2. ASSUME NEW h \in Handlers, pc'[h] = "write" PROVE seen'[h].attempts < MaxAttempts
  BY <1>2 DEF CallRises, Live
<1> QED BY <1>1, <1>2 DEF Live

(* A code whose entry stays or is closed: no call's level falls.           *)
LEMMA CodeRises ==
  ASSUME CodeShape, Live, LevelRange, LevelRange', Onward, NEW c \in 1..drawn, c \in 1..drawn',
         \A h \in Handlers : CallRises(h),
         docs'[CodeKey(c)] = docs[CodeKey(c)] \/ ~Open(c)'
  PROVE  \A h \in Handlers : Level(h, c) <= Level(h, c)'
<1>1. CodeKey(c)' = CodeKey(c)
  BY LocalStands
<1>2. /\ StoredLevel(c) \in 0..MaxAttempts /\ StoredLevel(c)' \in 0..MaxAttempts
      /\ MaxAttempts \in Nat
  BY CodeTimes DEF LevelRange
<1>3. StoredLevel(c) <= StoredLevel(c)'
  <2>1. CASE docs'[CodeKey(c)] = docs[CodeKey(c)]
    <3>1. Open(c)' <=> Open(c)
      BY <1>1, <2>1 DEF Open, Stored
    <3>2. StoredLevel(c)' = StoredLevel(c)
      BY <1>1, <2>1, <3>1 DEF StoredLevel
    <3> QED BY <1>2, <3>2
  <2>2. CASE ~Open(c)'
    <3>1. StoredLevel(c)' = MaxAttempts
      BY <2>2 DEF StoredLevel
    <3> QED BY <1>2, <3>1
  <2> QED BY <2>1, <2>2
<1> SUFFICES ASSUME NEW h \in Handlers PROVE Level(h, c) <= Level(h, c)'
  OBVIOUS
<1>4. /\ Level(h, c) \in 0..MaxAttempts /\ Level(h, c)' \in 0..MaxAttempts
      /\ Level(h, c) <= StoredLevel(c)
      /\ Copies(h, c) => seen[h].attempts \in Nat /\ Level(h, c) <= seen[h].attempts
  BY DEF LevelRange
<1>5. CASE Level(h, c)' = StoredLevel(c)'
  BY <1>2, <1>3, <1>4, <1>5
<1>6. CASE Level(h, c)' # StoredLevel(c)'
  <2>1. Copies(h, c)' /\ Level(h, c)' = seen'[h].attempts /\ seen'[h].attempts < StoredLevel(c)'
    BY <1>6 DEF Level
  <2>2. CASE pc'[h] = pc[h] /\ seen'[h] = seen[h]
    <3>1. Copies(h, c) /\ seen'[h].attempts = seen[h].attempts
      BY <2>1, <2>2 DEF Copies
    <3> QED BY <1>4, <2>1, <3>1
  <2>3. CASE \E k \in Keys : /\ docs[k] # NoDoc /\ docs'[k] = docs[k]
                             /\ seen'[h] = docs[k].blob /\ ~docs[k].blob.invalid
    <3>1. PICK k \in Keys : /\ docs[k] # NoDoc /\ docs'[k] = docs[k]
                            /\ seen'[h] = docs[k].blob /\ ~docs[k].blob.invalid
      BY <2>3
    <3>2. docs[k].blob.code = c
      BY <2>1, <3>1 DEF Copies
    <3>3. CodeKey(c) = k
      BY <3>1, <3>2 DEF CodeShape, EntryIs
    <3>4. Open(c)
      BY <3>1, <3>2, <3>3 DEF Open, Stored
    <3>5. StoredLevel(c) = seen'[h].attempts
      BY <3>1, <3>3, <3>4 DEF StoredLevel
    <3> QED BY <1>2, <1>4, <2>1, <3>5
  <2>4. pc'[h] = "write"
    BY <2>1 DEF Copies
  <2>5. CallRises(h)
    OBVIOUS
  <2> QED BY <2>2, <2>3, <2>4, <2>5 DEF CallRises
<1> QED BY <1>5, <1>6

LEMMA SharedStands ==
  ASSUME Onward, NEW c \in 1..drawn
  PROVE  SharedCode(c)' <=> SharedCode(c)
BY DEF Onward, SharedCode, StoreOf, NewOTPStoreFromEnv, NewTokenStoreFromEnv

LEMMA LevelsRangeThen == CodeShape' /\ Live' => LevelRange'
  BY LevelsRange, PTL

LEMMA CodeStays ==
  ASSUME CodeShape, Live, LevelRange, LevelRange', Onward, NEW c \in 1..drawn, c \in 1..drawn',
         \A h \in Handlers : CallRises(h),
         docs'[CodeKey(c)] = docs[CodeKey(c)] \/ ~Open(c)',
         guesses[c] \in Nat, guesses[c] <= MadeBy(LevelsOf(c)), guesses'[c] = guesses[c]
  PROVE  guesses'[c] <= MadeBy(LevelsOf(c))'
<1>1. \A h \in Handlers : Level(h, c) <= Level(h, c)'
  BY CodeRises
<1>2. MadeBy(LevelsOf(c)) <= MadeBy(LevelsOf(c))'
  BY <1>1, LevelsRise
<1>3. PICK n2 : n2 = LevelsOf(c)'
  OBVIOUS
<1>4. MadeBy(LevelsOf(c))' = MadeBy(n2)
  BY <1>3 DEF MadeBy, PassingOf, Passing
<1>5. MadeBy(LevelsOf(c)) \in Nat /\ MadeBy(n2) \in Nat
  BY <1>3, LevelsAre, LevelsThen, MadeBounded
<1> QED BY <1>2, <1>4, <1>5

(* A call that raises the count from its copy's to one more allows for a   *)
(* guess more, even if others had counted further by then.                 *)
LEMMA LevelRaised ==
  ASSUME LevelRange, LevelRange', NEW c \in 1..drawn, c \in 1..drawn', NEW h \in Handlers,
         NEW a \in Nat, a < MaxAttempts, Level(h, c) <= a, StoredLevel(c)' = a + 1, ~Copies(h, c)',
         \A j \in Handlers : Copies(j, c)' => Copies(j, c) /\ seen'[j] = seen[j]
  PROVE  MadeBy(LevelsOf(c)) + 1 <= MadeBy(LevelsOf(c))'
<1>1. PICK n, n2, D : n = LevelsOf(c) /\ n2 = LevelsOf(c)' /\ D = MaxAttempts - a
  OBVIOUS
<1>2. n \in Levels /\ n2 \in Levels
  BY <1>1, LevelsAre, LevelsThen
<1>3. D \in 1..MaxAttempts /\ MaxAttempts - D = a /\ MaxAttempts \in Nat
  BY <1>1, CodeTimes
<1>4. ASSUME NEW v \in Int, v <= a, NEW j \in Handlers, Level(j, c) > v PROVE Level(j, c)' > v
  <2>1. Level(j, c) \in Int /\ Level(j, c)' \in Int
    BY <1>3 DEF LevelRange
  <2>2. CASE Level(j, c)' = StoredLevel(c)'
    BY <1>4, <2>1, <2>2
  <2>3. CASE Level(j, c)' # StoredLevel(c)'
    <3>1. Copies(j, c)' /\ Level(j, c)' = seen'[j].attempts
      BY <2>3 DEF Level
    <3>2. Level(j, c)' = seen[j].attempts /\ Level(j, c) <= seen[j].attempts
      BY <3>1 DEF LevelRange
    <3> QED BY <1>4, <2>1, <3>2
  <2> QED BY <2>2, <2>3
<1>5. \A v \in Int : Beyond(c, v)' \subseteq Handlers /\ Beyond(c, v) \subseteq Handlers
  BY DEF Beyond
<1>6. ASSUME NEW d \in 1..MaxAttempts, d > D PROVE n[d] <= n2[d]
  <2>1. PICK A, B : A = Beyond(c, MaxAttempts - d) /\ B = Beyond(c, MaxAttempts - d)'
    OBVIOUS
  <2>2. MaxAttempts - d \in Int /\ MaxAttempts - d <= a
    BY <1>3, <1>6
  <2>3. A \subseteq B
    BY <1>4, <2>1, <2>2 DEF Beyond
  <2>4. n[d] = Cardinality(A) /\ n2[d] = Cardinality(B) /\ B \subseteq Handlers
    BY <1>1, <1>5, <2>1, <2>2 DEF LevelsOf
  <2> QED BY <2>3, <2>4, HandlersHold
<1>7. n[D] + 1 <= n2[D]
  <2>1. PICK A, B : A = Beyond(c, a) /\ B = Beyond(c, a)'
    OBVIOUS
  <2>2. A \subseteq B
    BY <1>4, <2>1 DEF Beyond
  <2>3. h \notin A
    <3>1. Level(h, c) \in Int
      BY <1>3 DEF LevelRange
    <3> QED BY <2>1, <3>1 DEF Beyond
  <2>4. h \in B
    <3>1. Level(h, c)' = a + 1
      BY DEF Level
    <3> QED BY <2>1, <3>1 DEF Beyond
  <2>5. n[D] = Cardinality(A) /\ n2[D] = Cardinality(B) /\ A \subseteq Handlers /\ B \subseteq Handlers
    BY <1>1, <1>3, <1>5, <2>1 DEF LevelsOf
  <2>6. Cardinality(A \cup {h}) = Cardinality(A) + 1
    BY <2>3, <2>5, HandlersHold, FS_AddElement
  <2>7. A \cup {h} \subseteq B
    BY <2>2, <2>4
  <2>8. Cardinality(A \cup {h}) <= Cardinality(B)
    BY <2>5, <2>7, HandlersHold
  <2> QED BY <2>5, <2>6, <2>8
<1>8. ASSUME NEW d \in 1..D PROVE n[d] <= n[D]
  <2>1. PICK A, B : A = Beyond(c, MaxAttempts - d) /\ B = Beyond(c, a)
    OBVIOUS
  <2>2. d \in 1..MaxAttempts /\ MaxAttempts - d \in Int /\ a <= MaxAttempts - d
    BY <1>3
  <2>3. A \subseteq B
    <3> SUFFICES ASSUME NEW j \in Handlers, Level(j, c) > MaxAttempts - d PROVE Level(j, c) > a
      BY <2>1 DEF Beyond
    <3>1. Level(j, c) \in Int
      BY <1>3 DEF LevelRange
    <3> QED BY <2>2, <3>1
  <2>4. n[d] = Cardinality(A) /\ n[D] = Cardinality(B) /\ B \subseteq Handlers
    BY <1>1, <1>3, <1>5, <2>1, <2>2 DEF LevelsOf
  <2> QED BY <2>3, <2>4, HandlersHold
<1>9. MadeBy(n) + 1 <= MadeBy(n2)
  BY <1>2, <1>3, <1>6, <1>7, <1>8, MadeOneMore
<1>10. MadeBy(LevelsOf(c))' = MadeBy(n2)
  BY <1>1 DEF MadeBy, PassingOf, Passing
<1> QED BY <1>1, <1>9, <1>10

(* Steps that answer no guess at a shared code.                            *)
LEMMA GuessesKept ==
  ASSUME GuessInv, OnceInv', Onward,
         \A h \in Handlers : CallRises(h), \A k \in Keys : DocLives(k),
         \A c \in 1..drawn : SharedCode(c) =>
           /\ guesses'[c] = guesses[c]
           /\ docs'[CodeKey(c)] = docs[CodeKey(c)] \/ ~Open(c)',
         \A c \in 1..drawn' : c > drawn => guesses'[c] = 0
  PROVE  GuessInv'
<1>1. CodeShape /\ CodeShape' /\ Live /\ Live'
  BY LiveKept DEF GuessInv, OnceInv
<1>2. LevelRange /\ LevelRange'
  BY <1>1, LevelsRange, LevelsRangeThen
<1>3. drawn \in Nat /\ drawn' \in Nat /\ drawn <= drawn'
  BY <1>1, CodeTimes DEF CodeShape, Onward
<1>4. ASSUME NEW c \in 1..drawn', SharedCode(c)' PROVE guesses'[c] <= MadeBy(LevelsOf(c))'
  <2>1. PICK n2 : n2 = LevelsOf(c)'
    OBVIOUS
  <2>2. n2 \in Levels
    BY <2>1, LevelsThen
  <2>3. MadeBy(LevelsOf(c))' = MadeBy(n2)
    BY <2>1 DEF MadeBy, PassingOf, Passing
  <2>4. MadeBy(n2) \in Nat
    BY <2>2, MadeBounded
  <2>5. CASE c > drawn
    BY <2>3, <2>4, <2>5
  <2>6. CASE ~(c > drawn)
    <3>1. c \in 1..drawn
      BY <1>3, <2>6
    <3>2. SharedCode(c)
      BY <1>4, <3>1, SharedStands
    <3>3. guesses'[c] = guesses[c] /\ guesses[c] <= MadeBy(LevelsOf(c))
      BY <3>1, <3>2 DEF GuessInv
    <3>4. guesses[c] \in Nat
      <4>1. c \in Codes
        BY <1>1, <3>1, CodeTimes DEF CodeShape, Codes
      <4> QED BY <4>1 DEF GuessInv, OnceInv
    <3> QED BY <1>1, <1>2, <3>1, <3>2, <3>3, <3>4, CodeStays
  <2> QED BY <2>5, <2>6
<1> QED BY <1>1, <1>4 DEF GuessInv

(* A call that goes on to anything but a write, or reads an open entry.    *)
LEMMA MovesRise ==
  ASSUME CodeShape, NEW h \in Handlers, NEW step, NEW args, NEW e, Goes(h, step, args, e),
         \/ step # "write"
         \/ \E k \in Keys : docs[k] # NoDoc /\ docs'[k] = docs[k] /\ e = docs[k].blob /\ ~e.invalid
  PROVE  \A j \in Handlers : CallRises(j)
<1>1. /\ pc'[h] = step /\ seen'[h] = e
      /\ \A j \in Handlers \ {h} : pc'[j] = pc[j] /\ seen'[j] = seen[j]
  BY GoesTo
<1>2. CallRises(h)
  BY <1>1 DEF CallRises
<1> QED BY <1>1, <1>2 DEF CallRises

LEMMA ReturnsRise ==
  ASSUME CodeShape, NEW h \in Handlers, Returns(h)
  PROVE  \A j \in Handlers : CallRises(j)
BY MovesRise DEF Returns

(* The steps that write nothing but deletions, and answer no guess.        *)
LEMMA GuessElsewhere ==
  ASSUME GuessInv, OnceInv', Onward, UNCHANGED <<drawn, guesses>>,
         \A h \in Handlers : CallRises(h), \A k \in Keys : docs'[k] \in {docs[k], NoDoc}
  PROVE  GuessInv'
<1>1. \A k \in Keys : DocLives(k)
  BY DEF DocLives
<1>2. ASSUME NEW c \in 1..drawn
      PROVE  docs'[CodeKey(c)] = docs[CodeKey(c)] \/ ~Open(c)'
  <2>1. CodeKey(c) \in Keys /\ CodeKey(c)' = CodeKey(c)
    BY CodeHasKey, LocalStands DEF GuessInv, OnceInv
  <2> QED BY <2>1 DEF Open, Stored
<1>3. \A c \in 1..drawn' : ~(c > drawn)
  BY DEF GuessInv, OnceInv, CodeShape
<1> QED BY <1>1, <1>2, <1>3, GuessesKept

LEMMA GuessBegins ==
  ASSUME GuessInv, OnceInv', NEW h \in Handlers, NEW m \in Methods, NEW s \in Sessions,
         NEW i \in InputsOf(m), NEW accepted, Begin(h, m, s, i, accepted)
  PROVE  GuessInv'
<1>1. PICK k, n, e : k = KeyOf(m, s, i) /\ n = drawn + 1 /\ e = NewEntry(drawn + 1, i)
  OBVIOUS
<1>2. CodeShape /\ CodeShape' /\ Onward /\ drawn' = n /\ UNCHANGED guesses /\ k \in Keys
  BY <1>1, BeginShape, KeyIsKey DEF GuessInv, OnceInv, Begin
<1>3. PICK u \in Nat : docs' = [docs EXCEPT ![k] = [blob |-> e, until |-> u]]
  BY <1>1, BeginShape DEF GuessInv, OnceInv
<1>4. /\ docs'[k].blob = e /\ e.code = n /\ e.attempts = 0
      /\ \A j \in Keys : j # k => docs'[j] = docs[j]
  BY <1>1, <1>2, <1>3 DEF NewEntry, CodeShape
<1>5. \A j \in Handlers : CallRises(j)
  <2>1. Goes(h, "send", Args(m, s, i, drawn + 1), NoDoc) \/ Returns(h)
    BY DEF Begin
  <2> QED BY <1>2, <2>1, MovesRise, ReturnsRise
<1>6. \A j \in Keys : DocLives(j)
  BY <1>4, CodeTimes DEF DocLives
<1>7. ASSUME NEW c \in 1..drawn
      PROVE  docs'[CodeKey(c)] = docs[CodeKey(c)] \/ ~Open(c)'
  <2>1. CodeKey(c) \in Keys /\ CodeKey(c)' = CodeKey(c)
    BY <1>2, CodeHasKey, LocalStands
  <2>2. c # n
    BY <1>1, <1>2 DEF CodeShape
  <2>3. CASE CodeKey(c) = k
    BY <1>4, <2>1, <2>2, <2>3 DEF Open, Stored
  <2> QED BY <1>4, <2>1, <2>3
<1>8. ASSUME NEW c \in 1..drawn', c > drawn PROVE guesses'[c] = 0
  <2>1. c \in Codes
    BY <1>2, CodeTimes DEF CodeShape, Codes
  <2> QED BY <1>2, <1>8, <2>1 DEF GuessInv, OnceInv
<1> QED BY <1>2, <1>5, <1>6, <1>7, <1>8, GuessesKept

LEMMA GuessVerifies ==
  ASSUME GuessInv, OnceInv', NEW h \in Handlers, NEW m \in Otp, NEW s \in Sessions, NEW i, NEW c,
         VerifyInMemory(h, m, s, i, c)
  PROVE  GuessInv'
<1>1. PICK k, e, f : k = KeyOf(m, s, i) /\ e = docs[k].blob /\ f = Counted(e, c)
  OBVIOUS
<1>2. /\ CodeShape /\ CodeShape' /\ Onward /\ docs[k] # NoDoc /\ Attempt(h, m, s, i, c)
      /\ StoreOf(m) = "memory" /\ UNCHANGED drawn
  BY <1>1, InMemoryShape DEF GuessInv, OnceInv, VerifyInMemory
<1>3. k \in Keys /\ k[1] = m /\ EntryIs(k, e) /\ e \in Entries
  <2>1. m \in Methods /\ i \in InputsOf(m)
    BY <1>2, AttemptIs
  <2>2. k \in Keys /\ k[1] = m
    BY <1>1, <2>1, KeyIsKey
  <2> QED BY <1>1, <1>2, <2>2 DEF CodeShape, EntryIs
<1>4. ASSUME NEW d \in 1..drawn, SharedCode(d)
      PROVE  CodeKey(d) \in Keys /\ CodeKey(d) # k /\ d # e.code
  <2>1. CodeKey(d) \in Keys /\ CodeKey(d)[1] = "sms" /\ StoreOf("sms") # "memory"
    BY <1>2, <1>4, CodeHasKey DEF SharedCode
  <2>2. CodeKey(d) # k
    BY <1>2, <1>3, <2>1
  <2> QED BY <1>3, <2>1, <2>2 DEF EntryIs
<1>5. \A d \in 1..drawn' : ~(d > drawn)
  BY <1>2 DEF CodeShape
<1>6. CASE docs' = Del(docs, k) /\ UNCHANGED callVars /\ UNCHANGED guesses
  <2>1. \A j \in Handlers : CallRises(j)
    BY <1>6 DEF CallRises, callVars
  <2>2. \A j \in Keys : docs'[j] \in {docs[j], NoDoc}
    BY <1>2, <1>3, <1>6, Deleted
  <2> QED BY <1>2, <1>6, <2>1, <2>2, GuessElsewhere
<1>7. CASE /\ docs' = [docs EXCEPT ![k].blob = f] /\ Judge(e, c)
           /\ Goes(h, "record", Args(m, s, i, c), NoDoc) \/ Returns(h)
  <2>1. \A j \in Handlers : CallRises(j)
    BY <1>2, <1>7, MovesRise, ReturnsRise
  <2>2. docs'[k].blob = f /\ \A j \in Keys : j # k => docs'[j] = docs[j]
    BY <1>2, <1>3, <1>7 DEF CodeShape
  <2>3. f.invalid \/ f.attempts < MaxAttempts
    <3>1. e.attempts \in Nat /\ MaxAttempts \in Nat
      BY <1>3, CodeTimes DEF Entries
    <3>2. CASE e.code = c
      BY <1>1, <1>3, <3>2, CountedIs
    <3>3. CASE e.code # c
      <4>1. f.attempts = e.attempts + 1 /\ f.invalid = (e.attempts + 1 >= MaxAttempts)
        BY <1>1, <1>3, <3>3, CountedIs
      <4>2. CASE e.attempts + 1 >= MaxAttempts
        BY <4>1, <4>2
      <4>3. CASE ~(e.attempts + 1 >= MaxAttempts)
        BY <3>1, <4>1, <4>3
      <4> QED BY <4>2, <4>3
    <3> QED BY <3>2, <3>3
  <2>4. \A j \in Keys : DocLives(j)
    BY <2>2, <2>3 DEF DocLives
  <2>5. ASSUME NEW d \in 1..drawn, SharedCode(d)
        PROVE  guesses'[d] = guesses[d] /\ docs'[CodeKey(d)] = docs[CodeKey(d)]
    <3>1. d \in Codes
      BY <1>2, CodeTimes DEF CodeShape, Codes
    <3>2. guesses \in [Codes -> Nat]
      BY DEF GuessInv, OnceInv
    <3> QED BY <1>4, <1>7, <2>2, <2>5, <3>1, <3>2 DEF Judge
  <2> QED BY <1>2, <1>5, <2>1, <2>4, <2>5, GuessesKept
<1> QED BY <1>1, <1>6, <1>7 DEF VerifyInMemory

LEMMA GuessCompletes ==
  ASSUME GuessInv, OnceInv', NEW h \in Handlers, NEW s \in Sessions, NEW i, NEW c,
         Completes(h, s, i, c)
  PROVE  GuessInv'
<1>1. CodeShape /\ Onward
  BY CompletesShape DEF GuessInv, OnceInv
<1>2. CASE SmsVerify(h, s, i, c) \/ CarrierVerify(h, s, i, c)
  BY <1>2, GuessVerifies DEF SmsVerify, CarrierVerify, Otp
<1>3. CASE RedisVerify(h, s, i, c) \/ FirestoreVerify(h, s, i, c)
  <2>1. PICK k, e : k = KeyOf("sms", s, i) /\ e = docs[k].blob
    OBVIOUS
  <2>2. /\ Attempt(h, "sms", s, i, c) /\ ~e.invalid /\ UNCHANGED <<docs, drawn, guesses>>
        /\ docs[k] # NoDoc /\ \E step : Goes(h, step, Args("sms", s, i, c), e)
    BY <1>3, <2>1 DEF RedisVerify, FirestoreVerify, RedisFound, FirestoreFound, ReadEntry, Dead,
                      history
  <2>3. k \in Keys
    BY <1>1, <2>1, <2>2, AttemptIs, KeyIsKey
  <2>4. \A j \in Handlers : CallRises(j)
    BY <1>1, <2>1, <2>2, <2>3, MovesRise
  <2> QED BY <1>1, <2>2, <2>4, GuessElsewhere
<1>4. CASE ~(SmsVerify(h, s, i, c) \/ CarrierVerify(h, s, i, c))
           /\ ~(RedisVerify(h, s, i, c) \/ FirestoreVerify(h, s, i, c))
  <2>1. /\ UNCHANGED <<drawn, guesses, docs>>
        /\ \E step, args, e : Goes(h, step, args, e) /\ step \in {"delete", "consume"}
    BY <1>4 DEF Completes, GetExpired, EmailLookup, EmailRedisLookup, EmailFirestoreLookup,
                TierLookup, LookupLink, history
  <2>2. \A j \in Handlers : CallRises(j)
    BY <1>1, <2>1, MovesRise
  <2> QED BY <1>1, <2>1, <2>2, GuessElsewhere
<1> QED BY <1>2, <1>3, <1>4

(* A call that writes back its copy raises the count from that of the copy.*)
LEMMA GuessWrites ==
  ASSUME GuessInv, OnceInv', NEW h \in Handlers, RedisWrite(h) \/ FirestoreWrite(h)
  PROVE  GuessInv'
<1>1. PICK k, e, c, f, n : /\ k = CallKey(h) /\ e = seen[h] /\ c = call[h].code
                           /\ f = Counted(e, c) /\ n = e.code
  OBVIOUS
<1>2. /\ CodeShape /\ CodeShape' /\ Onward /\ pc[h] = "write" /\ UNCHANGED <<drawn, delivered>>
      /\ \E u \in Nat : docs' = [docs EXCEPT ![k] = [blob |-> f, until |-> u]]
      /\ UNCHANGED <<guesses, used, reused>> \/ Judge(e, c)
  BY <1>1, WriteShape DEF GuessInv, OnceInv, WritesBack, RedisWrite, FirestoreWrite, WriteEntry
<1>3. /\ k \in Keys /\ StoreOf("sms") # "memory" /\ EntryIs(k, e) /\ e \in Entries
      /\ c \in delivered \cup {Wrong}
  BY <1>1, <1>2, CallHasKey DEF CodeShape, CallIs, EntryIs
<1>4. n \in 1..drawn /\ CodeKey(n) = k /\ Copies(h, n)
  BY <1>1, <1>2, <1>3 DEF EntryIs, Copies
<1>5. PICK a : a = e.attempts
  OBVIOUS
<1>6. a \in Nat /\ a < MaxAttempts /\ MaxAttempts \in Nat
  BY <1>1, <1>2, <1>3, <1>5, CodeTimes DEF Entries, GuessInv, Live
<1>7. /\ f \in Entries /\ f.code = n
      /\ n = c => f.invalid
      /\ n # c => f.attempts = a + 1 /\ f.invalid = (a + 1 >= MaxAttempts)
  BY <1>1, <1>3, <1>5, CountedIs
<1>8. /\ docs'[k] # NoDoc /\ docs'[k].blob = f /\ \A j \in Keys : j # k => docs'[j] = docs[j]
  <2>1. PICK u \in Nat : docs' = [docs EXCEPT ![k] = [blob |-> f, until |-> u]]
    BY <1>2
  <2>2. docs'[k] = [blob |-> f, until |-> u]
    BY <1>2, <1>3, <2>1 DEF CodeShape
  <2>3. docs'[k] # NoDoc
    BY <1>7, <2>2, NoDocIsNoDocument
  <2>4. docs'[k].blob = f
    BY <2>2
  <2> QED BY <1>2, <2>1, <2>3, <2>4 DEF CodeShape
<1>9. pc'[h] # "write" /\ \A j \in Handlers \ {h} : pc'[j] = pc[j] /\ seen'[j] = seen[j]
  <2>1. Goes(h, "record", call[h], NoDoc) \/ Returns(h)
    BY DEF RedisWrite, FirestoreWrite, WriteEntry
  <2> QED BY <1>2, <2>1, GoesTo DEF Returns
<1>10. \A j \in Handlers : CallRises(j)
  BY <1>9 DEF CallRises
<1>11. \A j \in Keys : DocLives(j)
  <2>1. f.invalid \/ f.attempts < MaxAttempts
    <3>1. CASE n = c
      BY <1>7, <3>1
    <3>2. CASE n # c /\ a + 1 >= MaxAttempts
      BY <1>7, <3>2
    <3>3. CASE n # c /\ ~(a + 1 >= MaxAttempts)
      BY <1>6, <1>7, <3>3
    <3> QED BY <3>1, <3>2, <3>3
  <2> QED BY <1>8, <2>1 DEF DocLives
<1>12. Live' /\ LevelRange /\ LevelRange'
  BY <1>2, <1>10, <1>11, LiveKept, LevelsRange, LevelsRangeThen DEF GuessInv
<1>13. ASSUME NEW d \in 1..drawn, d # n
       PROVE  docs'[CodeKey(d)] = docs[CodeKey(d)] \/ ~Open(d)'
  <2>1. CodeKey(d) \in Keys /\ CodeKey(d)' = CodeKey(d)
    BY <1>2, CodeHasKey, LocalStands
  <2>2. CASE CodeKey(d) = k
    BY <1>7, <1>8, <1>13, <2>1, <2>2 DEF Open, Stored
  <2> QED BY <1>8, <2>1, <2>2
<1>14. guesses \in [Codes -> Nat] /\ \A d \in 1..drawn : d \in Codes
  BY <1>2, CodeTimes DEF GuessInv, OnceInv, CodeShape, Codes
<1>15. /\ \A d \in 1..drawn : d # n => guesses'[d] = guesses[d]
       /\ guesses'[n] = guesses[n] \/ (n # c /\ guesses'[n] = guesses[n] + 1)
  <2>1. CASE UNCHANGED guesses
    BY <2>1
  <2>2. CASE Judge(e, c)
    BY <1>1, <1>4, <1>14, <2>2 DEF Judge
  <2> QED BY <1>2, <2>1, <2>2
<1>16. \A d \in 1..drawn' : ~(d > drawn)
  BY <1>2 DEF CodeShape
<1>17. CASE n = c
  <2>1. CodeKey(n)' = k
    BY <1>2, <1>4, LocalStands
  <2>2. ~Open(n)'
    BY <1>7, <1>8, <1>17, <2>1 DEF Open
  <2>3. \A d \in 1..drawn : docs'[CodeKey(d)] = docs[CodeKey(d)] \/ ~Open(d)'
    BY <1>13, <2>2
  <2>4. \A d \in 1..drawn : guesses'[d] = guesses[d]
    BY <1>15, <1>17
  <2> QED BY <1>2, <1>10, <1>11, <1>16, <2>3, <2>4, GuessesKept
<1>18. CASE n # c
  <2>1. ASSUME NEW d \in 1..drawn, d # n, SharedCode(d) PROVE guesses'[d] <= MadeBy(LevelsOf(d))'
    <3>1. guesses[d] \in Nat /\ guesses[d] <= MadeBy(LevelsOf(d))
      BY <1>14, <2>1 DEF GuessInv
    <3>2. d \in 1..drawn' /\ guesses'[d] = guesses[d] /\ Live
      BY <1>2, <1>15, <2>1 DEF GuessInv
    <3>3. docs'[CodeKey(d)] = docs[CodeKey(d)] \/ ~Open(d)'
      BY <1>13, <2>1
    <3> QED BY <1>2, <1>10, <1>12, <3>1, <3>2, <3>3, CodeStays
  <2>2. Level(h, n) <= a
    BY <1>1, <1>4, <1>5, <1>12 DEF LevelRange
  <2>3. StoredLevel(n)' = a + 1
    <3>1. CodeKey(n)' = k /\ (Open(n)' <=> ~f.invalid)
      <4>1. CodeKey(n)' = k
        BY <1>2, <1>4, LocalStands
      <4> QED BY <1>7, <1>8, <4>1 DEF Open, Stored
    <3>2. CASE a + 1 >= MaxAttempts
      <4>1. ~Open(n)'
        BY <1>7, <1>18, <3>1, <3>2
      <4>2. StoredLevel(n)' = MaxAttempts
        BY <4>1 DEF StoredLevel
      <4> QED BY <1>6, <3>2, <4>2
    <3>3. CASE ~(a + 1 >= MaxAttempts)
      <4>1. Open(n)' /\ f.attempts = a + 1
        BY <1>7, <1>18, <3>1, <3>3
      <4> QED BY <1>8, <3>1, <4>1 DEF StoredLevel
    <3> QED BY <3>2, <3>3
  <2>4. /\ ~Copies(h, n)'
        /\ \A j \in Handlers : Copies(j, n)' => Copies(j, n) /\ seen'[j] = seen[j]
    BY <1>9 DEF Copies
  <2>5. MadeBy(LevelsOf(n)) + 1 <= MadeBy(LevelsOf(n))'
    BY <1>2, <1>4, <1>6, <1>12, <2>2, <2>3, <2>4, LevelRaised
  <2>6. SharedCode(n) => guesses'[n] <= MadeBy(LevelsOf(n))'
    <3>1. PICK p : p = LevelsOf(n)'
      OBVIOUS
    <3>2. MadeBy(LevelsOf(n))' = MadeBy(p)
      BY <3>1 DEF MadeBy, PassingOf, Passing
    <3>3. MadeBy(LevelsOf(n)) \in Nat /\ MadeBy(p) \in Nat
      BY <3>1, LevelsAre, LevelsThen, MadeBounded
    <3>4. guesses[n] \in Nat /\ (SharedCode(n) => guesses[n] <= MadeBy(LevelsOf(n)))
      BY <1>4, <1>14 DEF GuessInv
    <3> QED BY <1>15, <2>5, <3>2, <3>3, <3>4
  <2>7. \A d \in 1..drawn' : SharedCode(d)' => d \in 1..drawn /\ SharedCode(d)
    BY <1>2, SharedStands
  <2>8. \A d \in 1..drawn' : SharedCode(d)' => guesses'[d] <= MadeBy(LevelsOf(d))'
    BY <2>1, <2>6, <2>7
  <2> QED BY <1>12, <2>8 DEF GuessInv
<1> QED BY <1>17, <1>18

LEMMA GuessSteps ==
  ASSUME GuessInv, OnceInv', NEW h \in Handlers, Steps(h)
  PROVE  GuessInv'
<1>1. CodeShape /\ Onward
  BY StepsShape DEF GuessInv, OnceInv
<1>2. CASE RedisWrite(h) \/ FirestoreWrite(h)
  BY <1>2, GuessWrites
<1>3. CASE ~(RedisWrite(h) \/ FirestoreWrite(h))
  <2>1. pc[h] # "idle" /\ UNCHANGED <<drawn, guesses>>
    BY <1>3 DEF Steps, SendSms, SendMail, Sent, Invalidate, DeleteExpired, ConsumeLink, recordVerified,
                StoreFails, history
  <2>2. docs' = docs \/ docs' = Del(docs, CallKey(h))
    BY <1>3 DEF Steps, SendSms, SendMail, Sent, Invalidate, DeleteExpired, ConsumeLink, recordVerified,
                StoreFails, CallKey
  <2>3. Returns(h) \/ \E step, args, e : Goes(h, step, args, e) /\ step \in {"undo", "record"}
    BY <1>3 DEF Steps, SendSms, SendMail, Sent, Invalidate, DeleteExpired, ConsumeLink, recordVerified,
                StoreFails
  <2>4. \A j \in Handlers : CallRises(j)
    BY <1>1, <2>3, MovesRise, ReturnsRise
  <2>5. CallKey(h) \in Keys
    BY <1>1, <2>1, CallHasKey
  <2>6. \A k \in Keys : docs'[k] \in {docs[k], NoDoc}
    BY <1>1, <2>2, <2>5, Deleted
  <2> QED BY <1>1, <2>1, <2>4, <2>6, GuessElsewhere
<1> QED BY <1>2, <1>3

LEMMA GuessInitial == Init => GuessInv
<1> SUFFICES ASSUME Init PROVE GuessInv
  OBVIOUS
<1>1. OnceInv /\ drawn = 0
  BY OnceInitial DEF Init
<1>2. Live
  BY DEF Init, Live
<1> QED BY <1>1, <1>2 DEF GuessInv

LEMMA GuessStep == GuessInv /\ [Next]_vars => GuessInv'
<1> SUFFICES ASSUME GuessInv, [Next]_vars PROVE GuessInv'
  OBVIOUS
<1>1. OnceInv' /\ CodeShape
  BY OnceStep DEF GuessInv, OnceInv
<1>2. ASSUME NEW h \in Handlers, NEW s \in Sessions, NEW i, Begins(h, s, i) PROVE GuessInv'
  <2>1. PICK m \in Methods, accepted \in BOOLEAN :
          i \in InputsOf(m) /\ Begin(h, m, s, i, accepted)
    BY <1>2, BeginsIs
  <2> QED BY <1>1, <2>1, GuessBegins
<1>3. ASSUME Tick \/ UNCHANGED vars PROVE GuessInv'
  <2>1. Onward
    BY <1>1, <1>3, TickShape
  <2>2. UNCHANGED <<drawn, guesses, docs, callVars>>
    BY <1>3 DEF Tick, vars, history
  <2>3. \A j \in Handlers : CallRises(j)
    BY <2>2 DEF CallRises, callVars
  <2> QED BY <1>1, <2>1, <2>2, <2>3, GuessElsewhere
<1> QED BY <1>1, <1>2, <1>3, GuessSteps, GuessCompletes DEF Next

(* A code sees at most MaxAttempts wrong guesses in memory, and over a     *)
(* shared store, where Verify writes back the entry it read, no more than  *)
(* SharedGuesses, however many calls overlap and whichever of them fail    *)
(* (InMemoryStore.Verify, RedisStore.Verify, FirestoreStore.Verify).       *)
THEOREM GuessesBoundedHolds == Spec => []GuessesBounded
<1>1. GuessInv => GuessesBounded
  <2> SUFFICES ASSUME GuessInv, NEW c \in 1..drawn, begun[c].m \in Otp
               PROVE  guesses[c] <= IF StoreOf(begun[c].m) = "memory" THEN MaxAttempts
                                    ELSE SharedGuesses[<<Cardinality(Handlers), MaxAttempts>>]
    BY DEF GuessesBounded
  <2>1. CASE LocalCode(c)
    BY <2>1 DEF GuessInv, OnceInv, LocalCode, Local
  <2>2. CASE ~LocalCode(c)
    <3>1. SharedCode(c)
      BY <2>2 DEF LocalCode, Local, SharedCode, StoreOf, NewOTPStoreFromEnv, Otp
    <3>2. guesses[c] \in Nat
      <4>1. c \in Codes
        BY CodeTimes DEF GuessInv, OnceInv, CodeShape, Codes
      <4> QED BY <4>1 DEF GuessInv, OnceInv
    <3>3. /\ MadeBy(LevelsOf(c)) \in Nat
          /\ MadeBy(LevelsOf(c)) <= SharedGuesses[<<Cardinality(Handlers), MaxAttempts>>]
      BY LevelsAre, MadeBounded
    <3>4. SharedGuesses[<<Cardinality(Handlers), MaxAttempts>>] \in Nat
      BY CodeTimes, HandlersAreFinite, GuessesAreNat
    <3>5. guesses[c] <= MadeBy(LevelsOf(c))
      BY <3>1 DEF GuessInv
    <3>6. guesses[c] <= SharedGuesses[<<Cardinality(Handlers), MaxAttempts>>]
      BY <3>2, <3>3, <3>4, <3>5
    <3> QED BY <2>2, <3>6 DEF LocalCode, Local
  <2> QED BY <2>1, <2>2
<1> QED BY GuessInitial, GuessStep, <1>1, PTL DEF Spec

-----------------------------------------------------------------------------
(* The token buckets (Limiters, rateLimiter), counted in parts of a token. *)

Cap(c) == Burst[c[2]] * Part
Refill(c, t) == t * Rate[c[2]]

(* What was served to c up to any time, and what its bucket would hold had *)
(* it been empty at time 0 and never full: it never decreases, and each    *)
(* request served raises it by Part.                                       *)
Drawn(f, c) == Refill(c, f[c].last) - f[c].tokens

(* A bucket is not drawn below what had been refilled by some time m that  *)
(* a call had read, of which its last call is at most MaxWait short.       *)
BucketIs(f, c) ==
  /\ f[c].last \in Int /\ f[c].tokens \in Int
  /\ \E m \in 0..clock : f[c].last >= m - MaxWait /\ Drawn(f, c) <= Refill(c, m)

(* What bounds the requests served to c: what its bucket has given out, or *)
(* if it was forgotten, what the calls still to come may find refilled.    *)
Ceiling(f, c) == IF c \in DOMAIN f THEN Drawn(f, c) + Cap(c)
                                   ELSE Refill(c, clock - MaxWait)
Under(c, a, b, ceiling) ==
  \/ TotalOf(served[c], a, b) = 0
  \/ TotalOf(served[c], a, b) * Part + Refill(c, a) <= ceiling

RateShape ==
  /\ clock \in 0..MaxLimitTime
  /\ DOMAIN pending = Callers
  /\ \A h \in Callers : pending[h] # NotWaiting =>
       /\ pending[h].at \in 0..clock /\ clock - pending[h].at <= MaxWait
       /\ table = "rate" => pending[h].what \in Requests /\ classify(pending[h].what) # NoClass
  /\ served \in [Clients \X Classes -> [0..MaxLimitTime -> Nat]]
  /\ DOMAIN buckets \subseteq Clients \X Classes
RateInv ==
  /\ RateShape
  /\ \A c \in DOMAIN buckets : BucketIs(buckets, c)
  /\ \A c \in Clients \X Classes, a, b \in 0..MaxLimitTime : a <= b =>
       /\ Under(c, a, b, Ceiling(buckets, c))
       /\ TotalOf(served[c], a, b) * Part <= Cap(c) + Refill(c, b) - Refill(c, a)

(* The numbers the token buckets are computed with.                        *)
LEMMA RateNumbers ==
  /\ MaxWait \in Nat /\ MaxLimitTime \in Nat /\ SweepIdle \in Int /\ Part \in Nat \ {0}
  /\ \A c \in Clients \X Classes :
       /\ Rate[c[2]] \in Nat \ {0} /\ Burst[c[2]] \in Nat \ {0}
       /\ Cap(c) \in Nat /\ Cap(c) >= Part
       /\ \A t \in Int : Refill(c, t) \in Int
<1>1. /\ MaxWait \in Nat /\ MaxLimitTime \in Nat /\ SweepIdle \in Int /\ Part \in Nat \ {0}
      /\ Rate \in [Classes -> Nat \ {0}] /\ Burst \in [Classes -> Nat \ {0}]
  BY LimiterAssumption DEF LimiterAssumption
<1>2. ASSUME NEW c \in Clients \X Classes
      PROVE  /\ Rate[c[2]] \in Nat \ {0} /\ Burst[c[2]] \in Nat \ {0}
             /\ Cap(c) \in Nat /\ Cap(c) >= Part
             /\ \A t \in Int : Refill(c, t) \in Int
  <2> DEFINE r == Rate[c[2]]  n == Burst[c[2]]
  <2>1. r \in Nat \ {0} /\ n \in Nat \ {0}
    BY <1>1
  <2> HIDE DEF r, n
  <2>2. n * Part \in Nat /\ n * Part >= Part /\ \A t \in Int : t * r \in Int
    BY <1>1, <2>1
  <2> QED BY <2>1, <2>2 DEF Cap, Refill, r, n
<1> QED BY <1>1, <1>2

(* What is refilled grows with time, and by parts.                         *)
LEMMA Refills ==
  ASSUME NEW c \in Clients \X Classes, NEW t \in Int, NEW u \in Int
  PROVE  /\ Refill(c, t - u) = Refill(c, t) - Refill(c, u)
         /\ Refill(c, t) \in Int
         /\ t <= u => Refill(c, t) <= Refill(c, u)
<1> DEFINE r == Rate[c[2]]
<1>1. r \in Nat
  BY RateNumbers
<1> HIDE DEF r
<1>2. (t - u) * r = t * r - u * r
  BY <1>1
<1>3. t <= u => t * r <= u * r
  BY <1>1
<1>4. t * r \in Int
  BY <1>1
<1> QED BY <1>2, <1>3, <1>4 DEF Refill, r

(* What the sweep forgets is full again, for every call still to come.     *)
LEMMA SweepForgetsFull ==
  ASSUME RateInv, NEW t \in 0..clock
  PROVE  /\ DOMAIN sweepRate(t) \subseteq DOMAIN buckets
         /\ \A c \in DOMAIN sweepRate(t) : sweepRate(t)[c] = buckets[c]
         /\ \A c \in Clients \X Classes :
              /\ Ceiling(buckets, c) \in Int /\ Ceiling(sweepRate(t), c) \in Int
              /\ Ceiling(buckets, c) <= Ceiling(sweepRate(t), c)
<1>0. clock \in Nat
  BY RateNumbers DEF RateInv, RateShape
<1>1. /\ DOMAIN sweepRate(t) \subseteq DOMAIN buckets
      /\ \A c \in DOMAIN sweepRate(t) : sweepRate(t)[c] = buckets[c]
  BY DEF sweepRate
<1>2. \A c \in DOMAIN buckets : c \notin DOMAIN sweepRate(t) => t - buckets[c].last > SweepIdle
  <2> SUFFICES ASSUME NEW c \in DOMAIN buckets, c \notin DOMAIN sweepRate(t)
               PROVE  t - buckets[c].last > SweepIdle
    OBVIOUS
  <2>1. ~ (t - buckets[c].last <= SweepIdle)
    BY DEF sweepRate
  <2>2. buckets[c].last \in Int
    BY DEF RateInv, BucketIs
  <2> QED BY <2>1, <2>2, RateNumbers
<1>3. ASSUME NEW c \in Clients \X Classes
      PROVE  /\ Ceiling(buckets, c) \in Int /\ Ceiling(sweepRate(t), c) \in Int
             /\ Ceiling(buckets, c) <= Ceiling(sweepRate(t), c)
  <2>0. /\ Cap(c) \in Int /\ MaxWait \in Nat /\ SweepIdle \in Int
        /\ Refill(c, clock - MaxWait) \in Int
    BY <1>0, RateNumbers
  <2>1. CASE c \notin DOMAIN buckets
    <3>1. c \notin DOMAIN sweepRate(t)
      BY <2>1, <1>1
    <3> QED BY <2>0, <2>1, <3>1 DEF Ceiling
  <2>2. CASE c \in DOMAIN buckets
    <3>1. PICK m \in 0..clock : /\ buckets[c].last >= m - MaxWait
                                /\ Drawn(buckets, c) <= Refill(c, m)
      BY <2>2 DEF RateInv, BucketIs
    <3>2. buckets[c].last \in Int /\ buckets[c].tokens \in Int
      BY <2>2 DEF RateInv, BucketIs
    <3>3. Drawn(buckets, c) \in Int
      BY <3>2, Refills DEF Drawn
    <3>4. CASE c \in DOMAIN sweepRate(t)
      <4>1. Drawn(sweepRate(t), c) = Drawn(buckets, c)
        BY <3>4, <1>1 DEF Drawn
      <4> QED BY <2>0, <2>2, <3>3, <3>4, <4>1 DEF Ceiling
    <3>5. CASE c \notin DOMAIN sweepRate(t)
      <4>1. t - buckets[c].last > SweepIdle
        BY <2>2, <3>5, <1>2
      <4> DEFINE k == SweepIdle + 1 - 2 * MaxWait
      <4>2. k \in Int /\ m + k \in Int /\ m + k <= clock - MaxWait /\ (m + k) - k = m
        BY <1>0, <2>0, <3>1, <3>2, <4>1
      <4>3. Cap(c) <= Refill(c, k)
        <5>1. \A d \in Classes : (SweepIdle + 1 - 2 * MaxWait) * Rate[d] >= Burst[d] * Part
          BY LimiterAssumption DEF LimiterAssumption
        <5> QED BY <5>1, <4>2 DEF Cap, Refill
      <4> HIDE DEF k
      <4>4. Refill(c, m) = Refill(c, m + k) - Refill(c, k)
        BY <4>2, Refills
      <4>5. Refill(c, m + k) <= Refill(c, clock - MaxWait)
        BY <1>0, <2>0, <4>2, Refills
      <4>6. Refill(c, k) \in Int /\ Refill(c, m + k) \in Int
        BY <4>2, Refills
      <4>7. Drawn(buckets, c) + Cap(c) <= Refill(c, clock - MaxWait)
        BY <2>0, <3>1, <3>3, <4>3, <4>4, <4>5, <4>6
      <4> QED BY <2>0, <2>2, <3>3, <3>5, <4>7 DEF Ceiling
    <3> QED BY <3>4, <3>5
  <2> QED BY <2>1, <2>2
<1> QED BY <1>1, <1>3

(* What a request finds in its bucket: full, if it has none.               *)
Old(f, c, t) ==
  IF c \notin DOMAIN f THEN [tokens |-> params(c[2]).burst, last |-> t] ELSE f[c]
Found(f, c, t) ==
  Lesser(params(c[2]).burst,
         Old(f, c, t).tokens + (t - Old(f, c, t).last) * params(c[2]).perTime)
SpentBy(f, c, t) == IF Found(f, c, t) >= Part THEN Part ELSE 0

(* A draw, and what it leaves in the bucket.                               *)
LEMMA Draw ==
  ASSUME RateInv, NEW t \in 0..clock, clock - t <= MaxWait,
         NEW c \in Clients \X Classes, NEW f, f = sweepRate(t),
         NEW g, c \in DOMAIN g, g[c].last = t,
         g[c].tokens = IF Found(f, c, t) >= Part THEN Found(f, c, t) - Part
                                                 ELSE Found(f, c, t)
  PROVE  /\ BucketIs(g, c)
         /\ Ceiling(g, c) \in Int
         /\ Ceiling(g, c) >= Ceiling(f, c) + SpentBy(f, c, t)
         /\ Ceiling(g, c) >= Refill(c, t) + SpentBy(f, c, t)
         /\ SpentBy(f, c, t) = Part => Ceiling(g, c) <= Refill(c, t) + Cap(c)
<1>0. /\ Cap(c) \in Nat /\ Cap(c) >= Part /\ MaxWait \in Nat /\ Part \in Nat \ {0}
      /\ clock \in Nat /\ Refill(c, t) \in Int
  BY RateNumbers DEF RateInv, RateShape
<1>1. Ceiling(f, c) \in Int
  BY SweepForgetsFull
<1> DEFINE x == Old(f, c, t).tokens
           l == Old(f, c, t).last
<1>2. /\ x \in Int /\ l \in Int
      /\ Refill(c, l) - x + Cap(c) >= Ceiling(f, c)
      /\ \E m \in 0..clock : l >= m - MaxWait /\ Refill(c, l) - x <= Refill(c, m)
  <2>1. CASE c \notin DOMAIN f
    <3>1. x = Cap(c) /\ l = t
      BY <2>1 DEF Old, params, Cap
    <3>2. Ceiling(f, c) = Refill(c, clock - MaxWait)
      BY <2>1 DEF Ceiling
    <3>3. Refill(c, clock - MaxWait) <= Refill(c, t)
      <4>1. clock - MaxWait \in Int /\ t \in Int /\ clock - MaxWait <= t
        BY <1>0
      <4> QED BY <4>1, Refills
    <3> HIDE DEF x, l
    <3>4. Refill(c, l) - x + Cap(c) >= Ceiling(f, c)
      BY <1>0, <1>1, <3>1, <3>2, <3>3
    <3>5. l >= t - MaxWait /\ Refill(c, l) - x <= Refill(c, t)
      BY <1>0, <3>1
    <3> QED BY <1>0, <3>1, <3>4, <3>5
  <2>2. CASE c \in DOMAIN f
    <3>1. x = buckets[c].tokens /\ l = buckets[c].last /\ c \in DOMAIN buckets
      BY <2>2, SweepForgetsFull DEF Old
    <3>2. BucketIs(buckets, c)
      BY <3>1 DEF RateInv
    <3>3. Ceiling(f, c) = Refill(c, f[c].last) - f[c].tokens + Cap(c)
      BY <2>2 DEF Ceiling, Drawn
    <3>4. f[c] = buckets[c]
      BY <2>2, SweepForgetsFull
    <3> HIDE DEF x, l
    <3> QED BY <1>1, <3>1, <3>2, <3>3, <3>4 DEF BucketIs, Drawn
  <2> QED BY <2>1, <2>2
<1>3. PICK m \in 0..clock : l >= m - MaxWait /\ Refill(c, l) - x <= Refill(c, m)
  BY <1>2
<1>4. (t - l) * params(c[2]).perTime = Refill(c, t) - Refill(c, l) /\ Refill(c, l) \in Int
  <2>1. (t - l) * params(c[2]).perTime = Refill(c, t - l)
    BY DEF params, Refill
  <2> HIDE DEF x, l
  <2> QED BY <1>2, <2>1, Refills
<1>5. Found(f, c, t) = Lesser(Cap(c), x + (Refill(c, t) - Refill(c, l)))
  BY <1>4 DEF Found, params, Cap
<1> HIDE DEF x, l
<1> DEFINE y == Found(f, c, t)
<1>6. /\ y \in Int /\ y <= Cap(c) /\ y <= x + (Refill(c, t) - Refill(c, l))
      /\ y = Cap(c) \/ y = x + (Refill(c, t) - Refill(c, l))
  BY <1>0, <1>2, <1>4, <1>5 DEF Lesser
<1> HIDE DEF y
<1> DEFINE s == SpentBy(f, c, t)
<1>7. (y >= Part /\ s = Part) \/ (y < Part /\ s = 0)
  BY <1>0, <1>6 DEF SpentBy, y
<1> HIDE DEF s
<1>8. g[c].last = t /\ g[c].tokens = y - s
  <2>1. g[c].tokens = IF y >= Part THEN y - Part ELSE y
    BY Zenon DEF y
  <2> QED BY <1>0, <1>6, <1>7, <2>1
<1>9. Drawn(g, c) = Refill(c, t) - y + s /\ Ceiling(g, c) = Refill(c, t) - y + s + Cap(c)
  <2>1. Drawn(g, c) = Refill(c, t) - (y - s)
    BY <1>8 DEF Drawn
  <2>2. Ceiling(g, c) = Drawn(g, c) + Cap(c)
    BY DEF Ceiling
  <2> QED BY <1>0, <1>6, <1>7, <2>1, <2>2
<1>10. BucketIs(g, c)
  <2>1. g[c].last \in Int /\ g[c].tokens \in Int
    BY <1>0, <1>6, <1>7, <1>8
  <2>2. CASE y >= Part \/ y = Cap(c)
    <3>1. Drawn(g, c) <= Refill(c, t) /\ t >= t - MaxWait /\ t \in 0..clock
      BY <1>0, <1>6, <1>7, <1>9, <2>2
    <3> QED BY <2>1, <1>8, <3>1 DEF BucketIs
  <2>3. CASE y < Part /\ y = x + (Refill(c, t) - Refill(c, l))
    <3>1. Drawn(g, c) = Refill(c, l) - x
      BY <1>0, <1>2, <1>4, <1>6, <1>7, <1>9, <2>3
    <3>2. Drawn(g, c) <= Refill(c, m) /\ t >= m - MaxWait
      BY <1>0, <1>3, <3>1
    <3> QED BY <2>1, <1>8, <3>2 DEF BucketIs
  <2> QED BY <1>0, <1>6, <2>2, <2>3
<1>11. Ceiling(g, c) >= Ceiling(f, c) + s
  BY <1>0, <1>1, <1>2, <1>4, <1>6, <1>7, <1>9
<1>12. /\ Ceiling(g, c) \in Int /\ Ceiling(g, c) >= Refill(c, t) + s
       /\ s = Part => Ceiling(g, c) <= Refill(c, t) + Cap(c)
  BY <1>0, <1>6, <1>7, <1>9
<1> QED BY <1>10, <1>11, <1>12 DEF s

(* clientIP finds the client's network, whatever it forwarded.             *)
LEMMA BucketOfClient ==
  ASSUME NEW r \in Requests, classify(r) # NoClass
  PROVE  BucketOf(r) = <<r.client, classify(r)>> /\ BucketOf(r) \in Clients \X Classes
<1>1. limiterKey(clientIP(r)) = r.client
  <2>1. CASE TrustedProxyHops = 0
    BY <2>1, ProxiesAppend DEF ProxiesAppend, limiterKey, clientIP
  <2>2. CASE TrustedProxyHops # 0
    <3>1. /\ TrustedProxyHops \in Nat /\ TrustedProxyHops > 0
          /\ Len(r.forwarded) >= TrustedProxyHops
          /\ Block[r.forwarded[Len(r.forwarded) - TrustedProxyHops + 1]] = r.client
      BY <2>2, ProxiesAppend DEF ProxiesAppend
    <3> QED BY <3>1 DEF limiterKey, clientIP
  <2> QED BY <2>1, <2>2
<1>2. classify(r) \in Classes
  BY DEF classify, Classes, NoClass
<1> QED BY <1>1, <1>2 DEF BucketOf, Clients

(* A total of requests served is a natural number.                         *)
LEMMA TotalServed ==
  ASSUME RateShape, NEW c \in Clients \X Classes, NEW a \in 0..MaxLimitTime, NEW b \in 0..MaxLimitTime, a <= b
  PROVE  TotalOf(served[c], a, b) \in Nat
 <1>1. a \in Int /\ b \in Int /\ a <= b /\ MaxLimitTime \in Nat
  BY RateNumbers
<1>2. \A t \in a..b : served[c][t] \in Nat
  BY <1>1 DEF RateShape
<1> QED BY <1>1, <1>2, TotalIsNat

(* What a ceiling bounds, a higher one does.                               *)
LEMMA UnderHigher ==
  ASSUME RateShape, NEW c \in Clients \X Classes, NEW a \in 0..MaxLimitTime, NEW b \in 0..MaxLimitTime, a <= b,
         NEW x \in Int, NEW y \in Int, x <= y, Under(c, a, b, x)
  PROVE  Under(c, a, b, y)
<1>1. TotalOf(served[c], a, b) * Part \in Int /\ Refill(c, a) \in Int
  BY TotalServed, RateNumbers
<1> QED BY <1>1 DEF Under

(* One more request served at time t.                                      *)
LEMMA ServedOneMore ==
  ASSUME RateShape, NEW c \in Clients \X Classes, NEW t \in 0..MaxLimitTime,
         NEW a \in 0..MaxLimitTime, NEW b \in 0..MaxLimitTime, a <= b
  PROVE  TotalOf([served[c] EXCEPT ![t] = @ + 1], a, b) =
           TotalOf(served[c], a, b) + (IF t \in a..b THEN 1 ELSE 0)
<1>1. a \in Int /\ b \in Int /\ t \in Int /\ MaxLimitTime \in Nat
  BY RateNumbers
<1>2. served[c] \in [0..MaxLimitTime -> Nat]
  BY DEF RateShape
<1> DEFINE f == served[c]
           f2 == [f EXCEPT ![t] = @ + 1]
<1> HIDE DEF f
<1>3. \A u \in a..b : f[u] \in Nat /\ f2[u] = f[u] + (IF u = t THEN 1 ELSE 0)
  <2> SUFFICES ASSUME NEW u \in a..b
               PROVE  f[u] \in Nat /\ f2[u] = f[u] + (IF u = t THEN 1 ELSE 0)
    OBVIOUS
  <2>1. u \in 0..MaxLimitTime /\ f[u] \in Nat
    BY <1>1, <1>2, SMTT(30) DEF f
  <2>2. f2[u] = IF u = t THEN f[u] + 1 ELSE f[u]
    BY <1>2, <2>1 DEF f
  <2> HIDE DEF f2
  <2> QED BY <2>1, <2>2
<1> HIDE DEF f2
<1>4. OneMoreAt(f, f2, t, a, b)
  BY <1>3 DEF OneMoreAt
<1>5. TotalOf(f2, a, b) = TotalOf(f, a, b) + (IF t \in a..b THEN 1 ELSE 0)
  BY <1>1, <1>4, TotalOneMore
<1> QED BY <1>5 DEF f, f2

(* One request served at time t, from a bucket that then has given out at  *)
(* least Part more than it had, and at most what it had refilled.          *)
LEMMA OneServed ==
  ASSUME RateShape, NEW c \in Clients \X Classes, NEW a \in 0..MaxLimitTime, NEW b \in 0..MaxLimitTime, a <= b,
         NEW t \in 0..MaxLimitTime, NEW total,
         total = TotalOf([served[c] EXCEPT ![t] = @ + 1], a, b),
         NEW x \in Int, NEW y \in Int, Under(c, a, b, x),
         y >= x + Part, y >= Refill(c, t) + Part, y <= Refill(c, t) + Cap(c),
         TotalOf(served[c], a, b) * Part <= Cap(c) + Refill(c, b) - Refill(c, a)
  PROVE  /\ total = 0 \/ total * Part + Refill(c, a) <= y
         /\ total * Part <= Cap(c) + Refill(c, b) - Refill(c, a)
<1> DEFINE n == TotalOf(served[c], a, b)
<1>1. /\ n \in Nat /\ a \in 0..MaxLimitTime /\ b \in 0..MaxLimitTime /\ a <= b
      /\ Part \in Nat \ {0} /\ MaxLimitTime \in Nat /\ Cap(c) \in Nat
      /\ \A u \in Int : Refill(c, u) \in Int
  BY TotalServed, RateNumbers
<1>2. total = n + (IF t \in a..b THEN 1 ELSE 0)
  BY ServedOneMore
<1> HIDE DEF n
<1>3. n = 0 \/ n * Part + Refill(c, a) <= x
  BY DEF Under, n
<1>4. n * Part <= Cap(c) + Refill(c, b) - Refill(c, a)
  BY DEF n
<1>5. (n + 1) * Part = n * Part + Part /\ n * Part \in Nat /\ (n = 0 => n * Part = 0)
  BY <1>1
<1>6. CASE t \notin a..b
  <2>1. total = n
    BY <1>1, <1>2, <1>6
  <2> QED BY <1>1, <1>3, <1>4, <1>5, <2>1
<1>7. CASE t \in a..b
  <2>1. total * Part = n * Part + Part
    BY <1>2, <1>5, <1>7
  <2>2. Refill(c, a) <= Refill(c, t) /\ Refill(c, t) <= Refill(c, b)
    <3>1. /\ a \in Int /\ b \in Int /\ t \in Int
          /\ a <= t /\ t <= b
      BY <1>1, <1>7
    <3> QED BY <3>1, Refills
  <2>3. total * Part + Refill(c, a) <= y
    BY <1>1, <1>3, <1>5, <2>1, <2>2
  <2> QED BY <1>1, <1>5, <2>1, <2>2, <2>3
<1> QED BY <1>6, <1>7

(* The type of a count raised by one.                                      *)
LEMMA OneMoreType ==
  ASSUME NEW D, NEW f \in [D -> Nat], NEW t \in D
  PROVE  [f EXCEPT ![t] = @ + 1] \in [D -> Nat]
OBVIOUS

(* A request in its turn keeps every bucket and what it bounds.            *)
LEMMA RateRequest ==
  ASSUME RateInv, NEW h \in Callers, allowRequest(h) PROVE RateInv'
<1>1. PICK r, t, c, f, y, g :
        /\ r = pending[h].what /\ t = pending[h].at /\ c = BucketOf(r)
        /\ f = sweepRate(t) /\ y = Found(f, c, t) /\ g = buckets'
  OBVIOUS
<1>2. /\ table = "rate" /\ pending[h] # NotWaiting
      /\ clock' = clock /\ table' = table /\ pending' = [pending EXCEPT ![h] = NotWaiting]
  BY DEF allowRequest, Served
<1>3. RateShape /\ clock \in 0..MaxLimitTime /\ MaxLimitTime \in Nat
  BY RateNumbers DEF RateInv, RateShape
<1>4. r \in Requests /\ classify(r) # NoClass /\ t \in 0..clock /\ clock - t <= MaxWait
  BY <1>1, <1>2, <1>3 DEF RateShape
<1>5. c \in Clients \X Classes /\ c = <<r.client, c[2]>>
  BY <1>1, <1>4, BucketOfClient
<1>6. /\ DOMAIN f \subseteq DOMAIN buckets
      /\ \A k \in DOMAIN f : f[k] = buckets[k]
      /\ \A k \in Clients \X Classes :
           /\ Ceiling(buckets, k) \in Int /\ Ceiling(f, k) \in Int
           /\ Ceiling(buckets, k) <= Ceiling(f, k)
  BY <1>1, <1>4, SweepForgetsFull
<1>7. \/ g = f /\ served' = served
      \/ /\ g = [k \in DOMAIN f \cup {c} |->
                   IF k # c THEN f[k]
                   ELSE [tokens |-> IF y >= Part THEN y - Part ELSE y, last |-> t]]
         /\ served' = IF y >= Part THEN [served EXCEPT ![c][t] = @ + 1] ELSE served
  <2>1. y = Lesser(params(c[2]).burst,
                   (IF c \notin DOMAIN f THEN [tokens |-> params(c[2]).burst, last |-> t]
                    ELSE f[c]).tokens
                   + (t - (IF c \notin DOMAIN f THEN [tokens |-> params(c[2]).burst, last |-> t]
                           ELSE f[c]).last) * params(c[2]).perTime)
    BY <1>1, Zenon DEF Found, Old
  <2> QED BY <1>1, <1>5, <2>1, Zenon DEF allowRequest
<1>8. RateShape'
  <2>1. /\ DOMAIN pending' = Callers
        /\ \A k \in Callers : pending'[k] # NotWaiting => pending'[k] = pending[k]
    BY <1>2, <1>3 DEF RateShape
  <2>2. served' \in [Clients \X Classes -> [0..MaxLimitTime -> Nat]]
    <3>1. CASE served' = served
      BY <3>1, <1>3 DEF RateShape
    <3>2. CASE served' = [served EXCEPT ![c][t] = @ + 1]
      <4>1. served[c] \in [0..MaxLimitTime -> Nat] /\ t \in 0..MaxLimitTime
        BY <1>3, <1>4, <1>5 DEF RateShape
      <4>2. [served[c] EXCEPT ![t] = @ + 1] \in [0..MaxLimitTime -> Nat]
        BY <4>1, OneMoreType
      <4> QED BY <3>2, <4>2, <1>3, <1>5 DEF RateShape
    <3> QED BY <3>1, <3>2, <1>7
  <2>3. DOMAIN buckets' \subseteq Clients \X Classes
    <3>1. DOMAIN g \subseteq DOMAIN f \cup {c}
      BY <1>7
    <3> QED BY <3>1, <1>1, <1>3, <1>5, <1>6 DEF RateShape
  <2> QED BY <2>1, <2>2, <2>3, <1>2, <1>3 DEF RateShape
(* The buckets that the request does not draw from.                        *)
<1>9. ASSUME NEW k \in Clients \X Classes, k \in DOMAIN g => k \in DOMAIN f /\ g[k] = f[k],
             k \in DOMAIN f => k \in DOMAIN g, served'[k] = served[k]
      PROVE  /\ k \in DOMAIN buckets' => BucketIs(buckets, k)'
             /\ \A a, b \in 0..MaxLimitTime : a <= b =>
                  /\ Under(k, a, b, Ceiling(buckets, k))'
                  /\ TotalOf(served'[k], a, b) * Part <= Cap(k) + Refill(k, b) - Refill(k, a)
  <2>1. Ceiling(buckets, k)' = Ceiling(f, k)
    BY <1>1, <1>2, <1>9 DEF Ceiling, Drawn
  <2>2. k \in DOMAIN buckets' => BucketIs(buckets, k)'
    BY <1>1, <1>2, <1>6, <1>9 DEF BucketIs, Drawn, RateInv
  <2>3. ASSUME NEW a \in 0..MaxLimitTime, NEW b \in 0..MaxLimitTime, a <= b
        PROVE  /\ Under(k, a, b, Ceiling(buckets, k))'
               /\ TotalOf(served'[k], a, b) * Part <= Cap(k) + Refill(k, b) - Refill(k, a)
    <3>1. /\ Under(k, a, b, Ceiling(buckets, k))
          /\ TotalOf(served[k], a, b) * Part <= Cap(k) + Refill(k, b) - Refill(k, a)
      BY <2>3 DEF RateInv
    <3>2. Under(k, a, b, Ceiling(f, k))
      BY <3>1, <2>3, <1>3, <1>6, UnderHigher
    <3> QED BY <3>1, <3>2, <2>1, <1>9 DEF Under
  <2> QED BY <2>2, <2>3
(* The bucket that it draws from.                                          *)
<1>10. ASSUME g # f \/ served' # served
       PROVE  /\ BucketIs(buckets, c)'
              /\ \A a, b \in 0..MaxLimitTime : a <= b =>
                   /\ Under(c, a, b, Ceiling(buckets, c))'
                   /\ TotalOf(served'[c], a, b) * Part <= Cap(c) + Refill(c, b) - Refill(c, a)
  <2>1. /\ c \in DOMAIN g /\ g[c].last = t
        /\ g[c].tokens = IF y >= Part THEN y - Part ELSE y
        /\ served' = IF y >= Part THEN [served EXCEPT ![c][t] = @ + 1] ELSE served
    BY <1>7, <1>10
  <2>2. /\ BucketIs(g, c) /\ Ceiling(g, c) \in Int
        /\ Ceiling(g, c) >= Ceiling(f, c) + SpentBy(f, c, t)
        /\ Ceiling(g, c) >= Refill(c, t) + SpentBy(f, c, t)
        /\ SpentBy(f, c, t) = Part => Ceiling(g, c) <= Refill(c, t) + Cap(c)
    BY <2>1, <1>1, <1>4, <1>5, Draw
  <2>3. BucketIs(buckets, c)' /\ Ceiling(buckets, c)' = Ceiling(g, c)
    BY <2>2, <1>1, <1>2 DEF BucketIs, Drawn, Ceiling
  <2>4. Ceiling(f, c) \in Int /\ Part \in Nat \ {0} /\ Refill(c, t) \in Int
    BY <1>4, <1>5, <1>6, RateNumbers
  <2>5. ASSUME NEW a \in 0..MaxLimitTime, NEW b \in 0..MaxLimitTime, a <= b
        PROVE  /\ Under(c, a, b, Ceiling(buckets, c))'
               /\ TotalOf(served'[c], a, b) * Part <= Cap(c) + Refill(c, b) - Refill(c, a)
    <3>1. /\ Under(c, a, b, Ceiling(buckets, c))
          /\ TotalOf(served[c], a, b) * Part <= Cap(c) + Refill(c, b) - Refill(c, a)
      BY <2>5, <1>5 DEF RateInv
    <3>2. Under(c, a, b, Ceiling(f, c))
      BY <3>1, <2>5, <1>3, <1>5, <1>6, UnderHigher
    <3>3. CASE ~ (y >= Part)
      <4>1. served' = served /\ SpentBy(f, c, t) = 0
        BY <2>1, <3>3, <1>1 DEF SpentBy
      <4>2. Ceiling(f, c) <= Ceiling(g, c)
        BY <4>1, <2>2, <2>4
      <4>3. Under(c, a, b, Ceiling(g, c))
        BY <3>2, <4>2, <2>2, <2>4, <2>5, <1>3, <1>5, UnderHigher
      <4> QED BY <4>1, <4>3, <3>1, <2>3 DEF Under
    <3>4. CASE y >= Part
      <4>1. served'[c] = [served[c] EXCEPT ![t] = @ + 1] /\ SpentBy(f, c, t) = Part
        BY <2>1, <3>4, <1>1, <1>3, <1>5 DEF SpentBy, RateShape
      <4>2. t \in 0..MaxLimitTime
        BY <1>3, <1>4
      <4>3. /\ Ceiling(g, c) >= Ceiling(f, c) + Part
            /\ Ceiling(g, c) >= Refill(c, t) + Part
            /\ Ceiling(g, c) <= Refill(c, t) + Cap(c)
        BY <4>1, <2>2
      <4>4. PICK total : total = TotalOf([served[c] EXCEPT ![t] = @ + 1], a, b)
        OBVIOUS
      <4>5. /\ total = 0 \/ total * Part + Refill(c, a) <= Ceiling(g, c)
            /\ total * Part <= Cap(c) + Refill(c, b) - Refill(c, a)
        BY <4>2, <4>3, <4>4, <3>1, <3>2, <2>2, <2>4, <2>5, <1>3, <1>5, OneServed
      <4>6. TotalOf(served'[c], a, b) = total
        BY <4>1, <4>4
      <4> QED BY <4>5, <4>6, <2>3 DEF Under
    <3> QED BY <3>3, <3>4
  <2> QED BY <2>3, <2>5
<1>11. ASSUME NEW k \in Clients \X Classes
       PROVE  /\ k \in DOMAIN buckets' => BucketIs(buckets, k)'
              /\ \A a, b \in 0..MaxLimitTime : a <= b =>
                   /\ Under(k, a, b, Ceiling(buckets, k))'
                   /\ TotalOf(served'[k], a, b) * Part <= Cap(k) + Refill(k, b) - Refill(k, a)
  <2>1. CASE g = f /\ served' = served
    BY <2>1, <1>9
  <2>2. CASE (g # f \/ served' # served) /\ k = c
    BY <2>2, <1>10
  <2>3. CASE (g # f \/ served' # served) /\ k # c
    <3>1. /\ k \in DOMAIN g => k \in DOMAIN f /\ g[k] = f[k]
          /\ k \in DOMAIN f => k \in DOMAIN g
      BY <2>3, <1>7
    <3>2. served'[k] = served[k]
      BY <2>3, <1>3, <1>7 DEF RateShape
    <3> QED BY <3>1, <3>2, <1>9
  <2> QED BY <2>1, <2>2, <2>3
<1>12. \A k \in DOMAIN buckets' : BucketIs(buckets, k)'
  BY <1>8, <1>11 DEF RateShape
<1> QED BY <1>8, <1>11, <1>12 DEF RateInv

(* Nothing has been served at first.                                       *)
LEMMA RateInitial == LimitInit => RateInv
<1> SUFFICES ASSUME LimitInit PROVE RateInv
  OBVIOUS
<1>1. MaxLimitTime \in Nat
  BY RateNumbers
<1>2. RateShape
  BY <1>1 DEF LimitInit, RateShape
<1>3. DOMAIN buckets = {}
  BY DEF LimitInit
<1>4. ASSUME NEW c \in Clients \X Classes, NEW a \in 0..MaxLimitTime,
             NEW b \in 0..MaxLimitTime, a <= b
      PROVE  /\ Under(c, a, b, Ceiling(buckets, c))
             /\ TotalOf(served[c], a, b) * Part <= Cap(c) + Refill(c, b) - Refill(c, a)
  <2>1. \A t \in a..b : served[c][t] = 0
    BY <1>1 DEF LimitInit
  <2>2. a \in Int /\ b \in Int
    BY <1>1
  <2>3. TotalOf(served[c], a, b) = 0
    BY <1>4, <2>1, <2>2, TotalOfNothing
  <2>4. /\ Refill(c, a) <= Refill(c, b) /\ Refill(c, a) \in Int /\ Refill(c, b) \in Int
        /\ Cap(c) \in Nat /\ Part \in Nat
    BY <1>4, <2>2, Refills, RateNumbers
  <2>5. TotalOf(served[c], a, b) * Part = 0
    BY <2>3, <2>4
  <2>6. 0 <= Cap(c) + Refill(c, b) - Refill(c, a)
    BY <2>4
  <2> QED BY <2>3, <2>5, <2>6 DEF Under
<1> QED BY <1>2, <1>3, <1>4 DEF RateInv

(* Time only raises the ceilings of forgotten buckets.                     *)
LEMMA RateTick == RateInv /\ LimitTick => RateInv'
<1> SUFFICES ASSUME RateInv, LimitTick PROVE RateInv'
  OBVIOUS
<1>1. /\ clock \in Nat /\ clock' = clock + 1 /\ clock + 1 \in 0..MaxLimitTime
      /\ table' = table /\ pending' = pending /\ buckets' = buckets /\ served' = served
      /\ \A h \in Callers : pending[h] # NotWaiting => clock - pending[h].at < MaxWait
      /\ MaxWait \in Nat /\ MaxLimitTime \in Nat
  BY RateNumbers DEF RateInv, RateShape, LimitTick, limiterVars, limitHistory
<1>2. RateShape'
  BY <1>1 DEF RateInv, RateShape
<1>3. \A c \in DOMAIN buckets' : BucketIs(buckets, c)'
  <2> SUFFICES ASSUME NEW c \in DOMAIN buckets PROVE BucketIs(buckets, c)'
    BY <1>1
  <2>1. PICK m \in 0..clock : /\ buckets[c].last >= m - MaxWait
                              /\ Drawn(buckets, c) <= Refill(c, m)
    BY DEF RateInv, BucketIs
  <2>2. m \in 0..clock'
    BY <1>1
  <2> QED BY <1>1, <2>1, <2>2 DEF RateInv, BucketIs, Drawn
<1>4. ASSUME NEW c \in Clients \X Classes, NEW a \in 0..MaxLimitTime,
             NEW b \in 0..MaxLimitTime, a <= b
      PROVE  /\ Under(c, a, b, Ceiling(buckets, c))'
             /\ TotalOf(served'[c], a, b) * Part <= Cap(c) + Refill(c, b) - Refill(c, a)
  <2>1. /\ Under(c, a, b, Ceiling(buckets, c))
        /\ TotalOf(served[c], a, b) * Part <= Cap(c) + Refill(c, b) - Refill(c, a)
    BY <1>4 DEF RateInv
  <2>2. CASE c \in DOMAIN buckets
    BY <2>1, <2>2, <1>1 DEF Under, Ceiling, Drawn
  <2>3. CASE c \notin DOMAIN buckets
    <3>1. /\ Refill(c, clock - MaxWait) <= Refill(c, clock + 1 - MaxWait)
          /\ Refill(c, clock - MaxWait) \in Int /\ Refill(c, clock + 1 - MaxWait) \in Int
      <4>1. /\ clock - MaxWait \in Int /\ clock + 1 - MaxWait \in Int
            /\ clock - MaxWait <= clock + 1 - MaxWait
        BY <1>1
      <4> QED BY <4>1, Refills
    <3>2. Ceiling(buckets, c) = Refill(c, clock - MaxWait)
      BY <2>3 DEF Ceiling
    <3>3. Under(c, a, b, Refill(c, clock + 1 - MaxWait))
      <4>1. RateShape
        BY DEF RateInv
      <4> QED BY <4>1, <1>4, <2>1, <3>1, <3>2, UnderHigher
    <3>4. Ceiling(buckets, c)' = Refill(c, clock + 1 - MaxWait)
      BY <2>3, <1>1 DEF Ceiling
    <3> QED BY <2>1, <3>3, <3>4, <1>1 DEF Under
  <2> QED BY <2>2, <2>3
<1> QED BY <1>2, <1>3, <1>4 DEF RateInv

(* Every step keeps the invariant of the token buckets.                    *)
LEMMA RateStep == RateInv /\ [LimitNext]_limitVars => RateInv'
<1> SUFFICES ASSUME RateInv, [LimitNext]_limitVars PROVE RateInv'
  OBVIOUS
(* The steps that touch neither the buckets nor what was served.           *)
<1>1. ASSUME RateShape', UNCHANGED <<clock, buckets, served>> PROVE RateInv'
  BY <1>1 DEF RateInv, BucketIs, Drawn, Ceiling, Under
<1>2. ASSUME NEW h \in Callers, NEW t, NEW what, Arrives(h, t, what),
             t = "rate" => what \in Requests /\ classify(what) # NoClass
      PROVE  RateInv'
  <2>1. /\ pending' = [pending EXCEPT ![h] = [at |-> clock, what |-> what]]
        /\ UNCHANGED <<clock, buckets, served, table>> /\ table = t
    BY <1>2 DEF Arrives, limiterVars, limitHistory
  <2>2. clock \in 0..clock /\ clock - clock <= MaxWait
    BY RateNumbers DEF RateInv, RateShape
  <2>3. \A k \in Callers \ {h} : pending'[k] = pending[k]
    BY <2>1 DEF RateInv, RateShape
  <2>4. DOMAIN pending' = Callers /\ pending'[h] = [at |-> clock, what |-> what]
    BY <2>1 DEF RateInv, RateShape
  <2>5. RateShape'
    BY <1>2, <2>1, <2>2, <2>3, <2>4 DEF RateInv, RateShape
  <2> QED BY <1>1, <2>1, <2>5
<1>3. ASSUME NEW h \in Callers, NEW r \in Requests, middleware(h, r) PROVE RateInv'
  BY <1>2, <1>3 DEF middleware
<1>4. ASSUME NEW h \in Callers, NEW i \in Identifiers, BeginLimited(h, i) PROVE RateInv'
  BY <1>2, <1>4 DEF BeginLimited
<1>5. ASSUME NEW h \in Callers, allowSend(h) PROVE RateInv'
  <2>1. UNCHANGED <<clock, buckets, served, table>>
        /\ pending' = [pending EXCEPT ![h] = NotWaiting]
    BY <1>5 DEF allowSend, Served
  <2>2. RateShape'
    BY <2>1 DEF RateInv, RateShape
  <2> QED BY <1>1, <2>1, <2>2
<1>6. ASSUME NEW hint \in Hints, NEW s \in HintSessions, Allow(hint, s) PROVE RateInv'
  <2>1. UNCHANGED <<clock, buckets, served, table, pending>>
    BY <1>6 DEF Allow
  <2>2. RateShape'
    BY <2>1 DEF RateInv, RateShape
  <2> QED BY <1>1, <2>1, <2>2
<1>7. CASE UNCHANGED limitVars
  <2>1. UNCHANGED <<clock, buckets, served, table, pending>>
    BY <1>7 DEF limitVars, limiterVars, limitHistory
  <2>2. RateShape'
    BY <2>1 DEF RateInv, RateShape
  <2> QED BY <1>1, <2>1, <2>2
<1> QED BY <1>3, <1>4, <1>5, <1>6, <1>7, RateRequest, RateTick DEF LimitNext

(* A client gets at most its burst and what its bucket refills, in every   *)
(* span of time, whatever the sweep forgets and in whatever order calls    *)
(* get the mutex (rateLimiter.allow).                                      *)
THEOREM RateBoundedHolds == LimitSpec => []RateBounded
<1>1. RateInv => RateBounded
  <2> SUFFICES ASSUME RateInv, NEW c \in Clients \X Classes, NEW a \in 0..clock,
                      NEW b \in a..clock
               PROVE  TotalOf(served[c], a, b) * Part <= Burst[c[2]] * Part + (b - a) * Rate[c[2]]
    BY DEF RateBounded
  <2>1. a \in 0..MaxLimitTime /\ b \in 0..MaxLimitTime /\ a <= b
    <3>1. clock \in 0..MaxLimitTime /\ MaxLimitTime \in Nat
      BY RateNumbers DEF RateInv, RateShape
    <3> QED BY <3>1
  <2>2. TotalOf(served[c], a, b) * Part <= Cap(c) + Refill(c, b) - Refill(c, a)
    BY <2>1 DEF RateInv
  <2>3. Refill(c, b - a) = Refill(c, b) - Refill(c, a) /\ Refill(c, b) \in Int /\ Refill(c, a) \in Int
    BY <2>1, Refills
  <2>4. Cap(c) + Refill(c, b) - Refill(c, a) = Cap(c) + Refill(c, b - a)
    BY <2>3, RateNumbers
  <2> QED BY <2>2, <2>4 DEF Cap, Refill
<1> QED BY RateInitial, RateStep, <1>1, PTL DEF LimitSpec

-----------------------------------------------------------------------------
(* The lists of times (Limiters, identifierSendLimiter).                   *)

(* The entries of a list that are at a or later.                           *)
Late(s, a) == {k \in 1..Len(s) : s[k] >= a}
Count(s, a) == Cardinality(Late(s, a))

(* They are finitely many, at most the length of the list.                 *)
LEMMA LateFinite ==
  ASSUME NEW s \in Seq(Int), NEW a
  PROVE  IsFiniteSet(Late(s, a)) /\ Count(s, a) \in Nat /\ Count(s, a) <= Len(s)
<1>1. IsFiniteSet(1..Len(s)) /\ Cardinality(1..Len(s)) = Len(s)
  <2>1. PICK n \in Nat : n = Len(s)
    OBVIOUS
  <2>2. IsFiniteSet(1..n) /\ Cardinality(1..n) = IF 1 > n THEN 0 ELSE n - 1 + 1
    BY FS_Interval
  <2>3. Cardinality(1..n) = n
    BY <2>2
  <2> QED BY <2>1, <2>2, <2>3
<1>2. Late(s, a) \subseteq 1..Len(s)
  BY DEF Late
<1>3. /\ IsFiniteSet(Late(s, a)) /\ Cardinality(Late(s, a)) <= Cardinality(1..Len(s))
  BY <1>1, <1>2, FS_Subset
<1>4. Cardinality(Late(s, a)) \in Nat
  BY <1>3, FS_CardinalityType
<1> QED BY <1>1, <1>3, <1>4 DEF Count

(* More late entries count for more.                                       *)
LEMMA CountMore ==
  ASSUME NEW s \in Seq(Int), NEW r \in Seq(Int), NEW a, Late(r, a) \subseteq Late(s, a)
  PROVE  Count(r, a) <= Count(s, a)
BY LateFinite, FS_Subset DEF Count

(* An entry appended counts if it is late.                                 *)
LEMMA CountAppend ==
  ASSUME NEW s \in Seq(Int), NEW x \in Int, NEW a \in Int
  PROVE  Count(Append(s, x), a) = Count(s, a) + (IF x >= a THEN 1 ELSE 0)
<1> DEFINE r == Append(s, x)
           n == Len(s)
<1>1. /\ r \in Seq(Int) /\ Len(r) = n + 1 /\ r[n + 1] = x /\ n \in Nat
      /\ \A k \in 1..n : r[k] = s[k]
  OBVIOUS
<1> HIDE DEF r
<1>2. CASE x >= a
  <2>1. Late(r, a) = Late(s, a) \cup {n + 1}
    BY <1>1, <1>2 DEF Late
  <2>2. n + 1 \notin Late(s, a)
    BY <1>1 DEF Late
  <2>3. Cardinality(Late(r, a)) = Cardinality(Late(s, a)) + 1
    BY <2>1, <2>2, LateFinite, FS_AddElement
  <2> QED BY <2>3, <1>2 DEF Count, r
<1>3. CASE ~ (x >= a)
  <2>1. \A k \in 1..n + 1 : r[k] >= a => k \in 1..n
    BY <1>1, <1>3
  <2>3. Late(r, a) = Late(s, a)
    BY <1>1, <2>1 DEF Late
  <2>2. Count(s, a) \in Nat
    BY LateFinite
  <2> QED BY <2>2, <2>3, <1>3 DEF Count, r
<1> QED BY <1>2, <1>3

(* Nothing late counts for nothing.                                        *)
LEMMA CountNothing ==
  ASSUME NEW s \in Seq(Int), NEW a, \A k \in 1..Len(s) : ~ (s[k] >= a)
  PROVE  Count(s, a) = 0
<1>1. Late(s, a) = {}
  BY DEF Late
<1> QED BY <1>1, FS_EmptySet DEF Count

(* g is what allow's loop keeps of the first m entries of a list.          *)
KeepsUpTo(g, s, cutoff, m) ==
  g = [n \in 0..m |->
         IF n = 0 THEN <<>>
         ELSE IF s[n] > cutoff THEN Append(g[n - 1], s[n]) ELSE g[n - 1]]

(* The function by which After is computed exists for every list.          *)
LEMMA KeepsExist ==
  ASSUME NEW s, NEW cutoff
  PROVE  \A m \in Nat : \E g : KeepsUpTo(g, s, cutoff, m)
<1> DEFINE S == {m \in Nat : \E g : KeepsUpTo(g, s, cutoff, m)}
<1>1. 0 \in S
  <2>1. KeepsUpTo([n \in 0..0 |-> <<>>], s, cutoff, 0)
    BY DEF KeepsUpTo
  <2> QED BY <2>1
<1>2. ASSUME NEW m \in Nat, m \in S PROVE m + 1 \in S
  <2>1. PICK g : KeepsUpTo(g, s, cutoff, m)
    BY <1>2
  <2> DEFINE before(n) == IF n = m + 1 THEN g[m] ELSE g[n - 1]
             g2 == [n \in 0..m + 1 |->
                      IF n = 0 THEN <<>>
                      ELSE IF s[n] > cutoff THEN Append(before(n), s[n]) ELSE before(n)]
  <2>2. \A n \in 0..m :
          g[n] = IF n = 0 THEN <<>>
                 ELSE IF s[n] > cutoff THEN Append(g[n - 1], s[n]) ELSE g[n - 1]
    BY <2>1 DEF KeepsUpTo
  <2>3. \A n \in 0..m : g2[n] = g[n]
    <3> SUFFICES ASSUME NEW n \in 0..m PROVE g2[n] = g[n]
      OBVIOUS
    <3>1. n # m + 1 /\ n \in 0..m + 1
      OBVIOUS
    <3>2. before(n) = g[n - 1]
      BY <3>1
    <3> HIDE DEF before
    <3> QED BY <2>2, <3>1, <3>2
  <2>4. \A n \in 0..m + 1 : n # 0 => before(n) = g2[n - 1]
    <3> SUFFICES ASSUME NEW n \in 0..m + 1, n # 0 PROVE before(n) = g2[n - 1]
      OBVIOUS
    <3>1. n - 1 \in 0..m /\ (n = m + 1 => n - 1 = m)
      OBVIOUS
    <3>2. g2[n - 1] = g[n - 1]
      BY <2>3, <3>1
    <3>3. before(n) = g[n - 1]
      BY <3>1
    <3> QED BY <3>2, <3>3
  <2>5. \A n \in 0..m + 1 :
          g2[n] = IF n = 0 THEN <<>>
                  ELSE IF s[n] > cutoff THEN Append(g2[n - 1], s[n]) ELSE g2[n - 1]
    <3> SUFFICES ASSUME NEW n \in 0..m + 1
                 PROVE  g2[n] = IF n = 0 THEN <<>>
                                ELSE IF s[n] > cutoff THEN Append(g2[n - 1], s[n])
                                ELSE g2[n - 1]
      OBVIOUS
    <3>1. g2[n] = IF n = 0 THEN <<>>
                  ELSE IF s[n] > cutoff THEN Append(before(n), s[n]) ELSE before(n)
      OBVIOUS
    <3>2. n # 0 => before(n) = g2[n - 1]
      BY <2>4
    <3> HIDE DEF g2, before
    <3> QED BY <3>1, <3>2
  <2>6. g2 = [n \in 0..m + 1 |-> g2[n]]
    OBVIOUS
  <2> HIDE DEF g2
  <2>7. KeepsUpTo(g2, s, cutoff, m + 1)
    BY <2>5, <2>6 DEF KeepsUpTo
  <2> QED BY <2>7
<1> HIDE DEF S
<1>3. Nat \subseteq S
  BY <1>1, <1>2, SetInduction
<1> QED BY <1>3 DEF S

(* The first n entries of a list that are at a or later.                   *)
LateUpTo(s, a, n) == {k \in 1..n : s[k] >= a}

(* What After keeps: entries of the list, those past the cutoff, the last  *)
(* one last.                                                               *)
AfterIs(r, s, cutoff, n) ==
  /\ r \in Seq(Int) /\ Len(r) <= n
  /\ \A k \in 1..Len(r) : r[k] > cutoff /\ \E j \in 1..n : r[k] = s[j]
  /\ n # 0 /\ s[n] > cutoff => Len(r) # 0 /\ r[Len(r)] = s[n]

(* One more entry for allow's loop.                                        *)
LEMMA AfterOneMore ==
  ASSUME NEW s \in Seq(Int), NEW cutoff \in Int, NEW n \in 1..Len(s),
         NEW r, AfterIs(r, s, cutoff, n - 1),
         NEW q, q = IF s[n] > cutoff THEN Append(r, s[n]) ELSE r
  PROVE  AfterIs(q, s, cutoff, n)
<1>1. /\ r \in Seq(Int) /\ Len(r) <= n - 1 /\ Len(r) \in Nat /\ n \in Nat /\ s[n] \in Int
      /\ \A k \in 1..Len(r) : r[k] > cutoff /\ \E j \in 1..n - 1 : r[k] = s[j]
      /\ 1..n - 1 \subseteq 1..n /\ n \in 1..n
  BY SMTT(30) DEF AfterIs
<1>2. CASE ~ (s[n] > cutoff)
  <2>1. q = r
    BY <1>2
  <2>2. \A k \in 1..Len(r) : r[k] > cutoff /\ \E j \in 1..n : r[k] = s[j]
    BY <1>1
  <2> QED BY <1>1, <1>2, <2>1, <2>2, SMTT(30) DEF AfterIs
<1>3. CASE s[n] > cutoff
  <2>1. /\ q \in Seq(Int) /\ Len(q) = Len(r) + 1 /\ q[Len(q)] = s[n]
        /\ \A k \in 1..Len(r) : q[k] = r[k]
    BY <1>1, <1>3
  <2>2. \A k \in 1..Len(q) : q[k] > cutoff /\ \E j \in 1..n : q[k] = s[j]
    <3> SUFFICES ASSUME NEW k \in 1..Len(q)
                 PROVE  q[k] > cutoff /\ \E j \in 1..n : q[k] = s[j]
      OBVIOUS
    <3>1. CASE k \in 1..Len(r)
      BY <3>1, <1>1, <2>1
    <3>2. CASE k = Len(q)
      BY <3>2, <1>1, <1>3, <2>1
    <3>3. k \in 1..Len(r) \/ k = Len(q)
      BY <1>1, <2>1
    <3> QED BY <3>1, <3>2, <3>3
  <2>3. Len(q) <= n /\ Len(q) # 0
    BY <1>1, <2>1
  <2> QED BY <2>1, <2>2, <2>3, Zenon DEF AfterIs
<1> QED BY <1>2, <1>3

(* One more entry, counted if it is late.                                  *)
LEMMA LateOneMore ==
  ASSUME NEW s \in Seq(Int), NEW a \in Int, NEW n \in 1..Len(s)
  PROVE  /\ IsFiniteSet(LateUpTo(s, a, n - 1))
         /\ Cardinality(LateUpTo(s, a, n)) =
              Cardinality(LateUpTo(s, a, n - 1)) + (IF s[n] >= a THEN 1 ELSE 0)
         /\ Cardinality(LateUpTo(s, a, n - 1)) \in Nat
<1>1. n \in Nat /\ n - 1 \in Nat /\ s[n] \in Int
  OBVIOUS
<1>2. IsFiniteSet(1..n - 1)
  BY <1>1, FS_Interval
<1>3. LateUpTo(s, a, n - 1) \subseteq 1..n - 1
  BY DEF LateUpTo
<1>4. IsFiniteSet(LateUpTo(s, a, n - 1)) /\ Cardinality(LateUpTo(s, a, n - 1)) \in Nat
  BY <1>2, <1>3, FS_Subset, FS_CardinalityType
<1>5. CASE s[n] >= a
  <2>1. LateUpTo(s, a, n) = LateUpTo(s, a, n - 1) \cup {n}
    <3>1. \A k \in 1..n : k \in 1..n - 1 \/ k = n
      BY <1>1
    <3>2. 1..n - 1 \subseteq 1..n /\ n \in 1..n
      BY <1>1
    <3> QED BY <1>5, <3>1, <3>2 DEF LateUpTo
  <2>2. n \notin LateUpTo(s, a, n - 1)
    BY <1>1 DEF LateUpTo
  <2> QED BY <1>4, <1>5, <2>1, <2>2, FS_AddElement
<1>6. CASE ~ (s[n] >= a)
  <2>1. LateUpTo(s, a, n) = LateUpTo(s, a, n - 1)
    <3>1. \A k \in 1..n : s[k] >= a => k \in 1..n - 1
      BY <1>1, <1>6
    <3>2. 1..n - 1 \subseteq 1..n
      BY <1>1
    <3> QED BY <3>1, <3>2 DEF LateUpTo
  <2> QED BY <1>4, <1>6, <2>1
<1> QED BY <1>4, <1>5, <1>6

(* The loop keeps every entry past the cutoff, each as often.              *)
LEMMA AfterFacts ==
  ASSUME NEW s \in Seq(Int), NEW cutoff \in Int
  PROVE  /\ AfterIs(After(s, cutoff), s, cutoff, Len(s))
         /\ \A a \in Int : a > cutoff => Count(After(s, cutoff), a) = Count(s, a)
<1>0. Len(s) \in Nat
  OBVIOUS
<1> DEFINE g == CHOOSE h : h = [n \in 0..Len(s) |->
                IF n = 0 THEN <<>>
                ELSE IF s[n] > cutoff THEN Append(h[n - 1], s[n]) ELSE h[n - 1]]
<1>1. After(s, cutoff) = g[Len(s)]
  BY DEF After
<1>2. \E h : h = [n \in 0..Len(s) |->
                IF n = 0 THEN <<>>
                ELSE IF s[n] > cutoff THEN Append(h[n - 1], s[n]) ELSE h[n - 1]]
  <2>1. \E h : KeepsUpTo(h, s, cutoff, Len(s))
    BY <1>0, KeepsExist
  <2> QED BY <2>1, Zenon DEF KeepsUpTo
<1>3. g = [n \in 0..Len(s) |->
                IF n = 0 THEN <<>>
                ELSE IF s[n] > cutoff THEN Append(g[n - 1], s[n]) ELSE g[n - 1]]
  BY <1>2, Zenon
<1> HIDE DEF g
<1>4. /\ g[0] = <<>>
      /\ \A n \in 1..Len(s) :
           g[n] = IF s[n] > cutoff THEN Append(g[n - 1], s[n]) ELSE g[n - 1]
  <2>1. \A n \in 0..Len(s) :
          g[n] = IF n = 0 THEN <<>>
                 ELSE IF s[n] > cutoff THEN Append(g[n - 1], s[n]) ELSE g[n - 1]
    BY <1>3
  <2>2. 0 \in 0..Len(s) /\ \A n \in 1..Len(s) : n \in 0..Len(s) /\ n # 0
    BY <1>0
  <2> QED BY <2>1, <2>2
<1> DEFINE S == {n \in 0..Len(s) :
                   /\ AfterIs(g[n], s, cutoff, n)
                   /\ \A a \in Int : a > cutoff => Count(g[n], a) = Cardinality(LateUpTo(s, a, n))}
<1>5. 0 \in S
  <2>1. AfterIs(<<>>, s, cutoff, 0)
    BY DEF AfterIs
  <2>2. \A a : Late(<<>>, a) = {} /\ LateUpTo(s, a, 0) = {}
    BY DEF Late, LateUpTo
  <2>3. \A a : Count(g[0], a) = Cardinality(LateUpTo(s, a, 0))
    BY <1>4, <2>2 DEF Count
  <2>4. AfterIs(g[0], s, cutoff, 0) /\ 0 \in 0..Len(s)
    BY <1>0, <1>4, <2>1
  <2> QED BY <2>3, <2>4
<1>6. ASSUME NEW n \in 0..Len(s), n # 0, n - 1 \in S PROVE n \in S
  <2>1. /\ AfterIs(g[n - 1], s, cutoff, n - 1)
        /\ \A a \in Int : a > cutoff => Count(g[n - 1], a) = Cardinality(LateUpTo(s, a, n - 1))
    BY <1>6
  <2>2. n \in 1..Len(s) /\ s[n] \in Int
    BY <1>0, <1>6
  <2>3. g[n] = IF s[n] > cutoff THEN Append(g[n - 1], s[n]) ELSE g[n - 1]
    BY <1>4, <2>2
  <2> HIDE DEF S
  <2>4. AfterIs(g[n], s, cutoff, n)
    BY <2>1, <2>2, <2>3, AfterOneMore
  <2>5. ASSUME NEW a \in Int, a > cutoff
        PROVE  Count(g[n], a) = Cardinality(LateUpTo(s, a, n))
    <3>1. /\ Cardinality(LateUpTo(s, a, n)) =
               Cardinality(LateUpTo(s, a, n - 1)) + (IF s[n] >= a THEN 1 ELSE 0)
          /\ Cardinality(LateUpTo(s, a, n - 1)) \in Nat
      BY <2>2, LateOneMore
    <3>2. Count(g[n - 1], a) = Cardinality(LateUpTo(s, a, n - 1))
      BY <2>1, <2>5
    <3>3. CASE s[n] > cutoff
      <4>1. g[n] = Append(g[n - 1], s[n]) /\ g[n - 1] \in Seq(Int)
        BY <2>1, <2>3, <3>3 DEF AfterIs
      <4>2. Count(g[n], a) = Count(g[n - 1], a) + (IF s[n] >= a THEN 1 ELSE 0)
        BY <4>1, <2>2, CountAppend
      <4> QED BY <3>1, <3>2, <4>2
    <3>4. CASE ~ (s[n] > cutoff)
      <4>1. g[n] = g[n - 1] /\ ~ (s[n] >= a)
        BY <2>2, <2>3, <2>5, <3>4
      <4> QED BY <3>1, <3>2, <4>1
    <3> QED BY <3>3, <3>4
  <2> QED BY <2>4, <2>5 DEF S
<1> HIDE DEF S
<1>7. 0..Len(s) \subseteq S
  <2>1. PICK b \in Int : b = Len(s)
    BY <1>0
  <2>2. 0 \in Int /\ \A n \in 0..b : n # 0 /\ n - 1 \in S => n \in S
    BY <1>6, <2>1
  <2> QED BY <1>5, <2>1, <2>2, IntervalInduction
<1>8. Len(s) \in S
  BY <1>0, <1>7
<1> QED BY <1>1, <1>8 DEF S, Late, LateUpTo, Count

(* A list of times is out of order by no more than a call may wait: none   *)
(* is later than the last one by more than MaxWait.                        *)
ListIs(s) ==
  /\ s \in Seq(Int)
  /\ \A k \in 1..Len(s) : s[k] \in 0..clock /\ s[k] <= s[Len(s)] + MaxWait
Listed(f, id) == IF f[id] = NoBucket THEN <<>> ELSE f[id]
ListsAre(f) ==
  DOMAIN f = SendKeys /\ \A id \in SendKeys : f[id] = NoBucket \/ ListIs(f[id])
(* g still counts what f counts and a call to come may have to count.      *)
StillCounts(f, g) ==
  \A id \in SendKeys, a \in Int : a > clock - Hour + MaxWait =>
    Count(Listed(f, id), a) <= Count(Listed(g, id), a)

(* The numbers the send limiter is computed with.                          *)
LEMMA SendNumbers ==
  /\ MaxWait \in Nat /\ MaxLimitTime \in Nat /\ Hour \in Nat /\ PerHour \in Nat \ {0}
  /\ 2 * MaxWait < Hour
BY LimiterAssumption DEF LimiterAssumption

(* The list of an identifier, if it has none the empty one.                *)
LEMMA ListedIs ==
  ASSUME NEW f, ListsAre(f), NEW id \in SendKeys
  PROVE  ListIs(Listed(f, id)) /\ Listed(f, id) \in Seq(Int)
<1>1. ListIs(<<>>)
  BY DEF ListIs
<1> QED BY <1>1 DEF ListsAre, Listed, ListIs

(* What allow's loop keeps of a list is such a list: if its last entry is  *)
(* dropped, the others are less than MaxWait past the cutoff.              *)
LEMMA FilteredIsList ==
  ASSUME clock \in Nat, NEW s, ListIs(s), NEW cutoff \in Int,
         NEW r, AfterIs(r, s, cutoff, Len(s))
  PROVE  ListIs(r)
<1>0. MaxWait \in Nat
  BY SendNumbers
<1>1. PICK n, m : n = Len(s) /\ m = Len(r)
  OBVIOUS
<1>2. /\ s \in Seq(Int) /\ r \in Seq(Int) /\ n \in Nat /\ m \in Nat
      /\ \A k \in 1..m : r[k] > cutoff /\ \E j \in 1..n : r[k] = s[j]
      /\ n # 0 /\ s[n] > cutoff => m # 0 /\ r[m] = s[n]
      /\ \A j \in 1..n : s[j] \in 0..clock /\ s[j] <= s[n] + MaxWait
  BY <1>1 DEF ListIs, AfterIs
<1>3. ASSUME NEW k \in 1..m PROVE r[k] \in 0..clock /\ r[k] <= r[m] + MaxWait
  <2>1. PICK j \in 1..n : r[k] = s[j]
    BY <1>2
  <2>2. s[j] \in 0..clock /\ s[j] <= s[n] + MaxWait /\ n # 0 /\ n \in 1..n /\ m \in 1..m
    BY <1>2
  <2>3. CASE s[n] > cutoff
    BY <2>1, <2>2, <2>3, <1>2
  <2>4. CASE ~ (s[n] > cutoff)
    <3>1. PICK x, y, z : x = r[k] /\ y = r[m] /\ z = s[n]
      OBVIOUS
    <3>2. x \in 0..clock /\ x <= z + MaxWait /\ ~ (z > cutoff) /\ z \in 0..clock
      BY <2>1, <2>2, <2>4, <3>1, <1>2
    <3>3. y > cutoff /\ y \in Int
      <4>1. m \in 1..m
        BY <2>2
      <4>2. PICK i \in 1..n : r[m] = s[i]
        BY <1>2, <4>1
      <4>3. y \in 0..clock
        BY <4>2, <3>1, <1>2
      <4>4. y > cutoff
        BY <4>1, <3>1, <1>2
      <4> QED BY <4>3, <4>4
    <3>4. x <= y + MaxWait
      BY <1>0, <3>2, <3>3
    <3> QED BY <3>1, <3>2, <3>4
  <2> QED BY <2>3, <2>4
<1> QED BY <1>1, <1>2, <1>3 DEF ListIs

(* r over the first entries of s.                                          *)
LEMMA Overwritten ==
  ASSUME NEW s \in Seq(Int), NEW r \in Seq(Int), Len(r) <= Len(s),
         NEW q, q = r \o SubSeq(s, Len(r) + 1, Len(s))
  PROVE  /\ q \in Seq(Int) /\ Len(q) = Len(s)
         /\ \A k \in 1..Len(r) : q[k] = r[k]
         /\ \A k \in 1..Len(s) : k > Len(r) => q[k] = s[k]
<1>1. PICK n, m : n = Len(s) /\ m = Len(r)
  OBVIOUS
<1>2. n \in Nat /\ m \in Nat /\ m <= n
  BY <1>1
<1>3. PICK u : u = SubSeq(s, m + 1, n)
  OBVIOUS
<1>4. /\ u \in Seq(Int) /\ Len(u) = IF m + 1 <= n THEN n - (m + 1) + 1 ELSE 0
      /\ \A i \in 1..n - (m + 1) + 1 : u[i] = s[m + 1 + i - 1]
  <2>1. m + 1 \in Int /\ n \in Int /\ \A i \in m + 1..n : s[i] \in Int
    BY <1>1, <1>2
  <2> QED BY <1>3, <2>1, SubSeqProperties, SMTT(30)
<1>5. /\ q \in Seq(Int) /\ Len(q) = m + Len(u)
      /\ \A i \in 1..m + Len(u) : q[i] = IF i <= m THEN r[i] ELSE u[i - m]
  <2>1. q = r \o u
    BY <1>1, <1>3
  <2>2. /\ r \o u \in Seq(Int) /\ Len(r \o u) = Len(r) + Len(u)
        /\ \A i \in 1..Len(r) + Len(u) :
             (r \o u)[i] = IF i <= Len(r) THEN r[i] ELSE u[i - Len(r)]
    BY <1>4, ConcatProperties, Zenon
  <2> QED BY <1>1, <2>1, <2>2, Zenon
<1>6. Len(u) = n - m /\ m + Len(u) = n
  BY <1>2, <1>4
<1>7. ASSUME NEW k \in 1..n, k > m PROVE q[k] = s[k]
  <2>1. /\ k - m \in 1..n - (m + 1) + 1 /\ m + 1 + (k - m) - 1 = k
        /\ k \in 1..m + Len(u) /\ ~ (k <= m)
    BY <1>2, <1>6, <1>7
  <2>2. q[k] = u[k - m] /\ u[k - m] = s[m + 1 + (k - m) - 1]
    BY <1>4, <1>5, <2>1
  <2> QED BY <2>1, <2>2
<1>8. \A k \in 1..m : q[k] = r[k]
  BY <1>2, <1>5, <1>6
<1> QED BY <1>1, <1>5, <1>6, <1>7, <1>8

(* So is the list that a refusal for lack of room leaves.                  *)
LEMMA OverwrittenIsList ==
  ASSUME clock \in Nat, NEW s, ListIs(s), NEW r, ListIs(r), Len(r) <= Len(s),
         \A k \in 1..Len(r) : \E j \in 1..Len(s) : r[k] = s[j],
         NEW q, q = r \o SubSeq(s, Len(r) + 1, Len(s))
  PROVE  ListIs(q) /\ \A a : Count(r, a) <= Count(q, a)
<1>0. s \in Seq(Int) /\ r \in Seq(Int)
  BY DEF ListIs
<1>1. PICK n, m : n = Len(s) /\ m = Len(r)
  OBVIOUS
<1>2. /\ q \in Seq(Int) /\ Len(q) = n
      /\ \A k \in 1..m : q[k] = r[k]
      /\ \A k \in 1..n : k > m => q[k] = s[k]
  BY <1>0, <1>1, Overwritten
<1>3. n \in Nat /\ m \in Nat /\ m <= n /\ \A k \in 1..m : \E j \in 1..n : r[k] = s[j]
  BY <1>0, <1>1
<1>4. \A k \in 1..n : \E j \in 1..n : q[k] = s[j]
  <2> SUFFICES ASSUME NEW k \in 1..n PROVE \E j \in 1..n : q[k] = s[j]
    OBVIOUS
  <2>1. k \in 1..m \/ k > m
    BY <1>3
  <2> QED BY <2>1, <1>2, <1>3
<1>5. \A k \in 1..n : q[k] \in 0..clock /\ q[k] <= q[n] + MaxWait
  <2>1. CASE m = n
    <3>1. \A k \in 1..n : r[k] \in 0..clock /\ r[k] <= r[n] + MaxWait
      BY <1>1, <2>1 DEF ListIs
    <3>2. \A k \in 1..n : n \in 1..n
      BY <1>3
    <3> QED BY <3>1, <3>2, <2>1, <1>2
  <2>2. CASE m # n
    <3>1. \A k \in 1..n : s[k] \in 0..clock /\ s[k] <= s[n] + MaxWait
      BY <1>1 DEF ListIs
    <3>2. n \in 1..n /\ n > m
      BY <1>3, <2>2
    <3>3. q[n] = s[n]
      BY <3>2, <1>2
    <3> QED BY <3>1, <3>3, <1>4
  <2> QED BY <2>1, <2>2
<1>6. \A a : Late(r, a) \subseteq Late(q, a)
  <2>1. 1..m \subseteq 1..n
    BY <1>3
  <2> QED BY <2>1, <1>1, <1>2 DEF Late
<1>7. \A a : Count(r, a) <= Count(q, a)
  BY <1>0, <1>2, <1>6, CountMore
<1> QED BY <1>2, <1>5, <1>7 DEF ListIs

(* What the loop of allow keeps at time t, and what a refusal leaves.      *)
LEMMA RecentIs ==
  ASSUME clock \in Nat, ListsAre(sends), NEW id \in SendKeys, NEW t \in 0..clock
  PROVE  /\ ListIs(Recent(id, t)) /\ Recent(id, t) \in Seq(Int)
         /\ Len(Recent(id, t)) <= Len(Times(id))
         /\ \A k \in 1..Len(Recent(id, t)) : \E j \in 1..Len(Times(id)) : Recent(id, t)[k] = Times(id)[j]
         /\ \A a \in Int : a > t - Hour => Count(Recent(id, t), a) = Count(Times(id), a)
<1>1. PICK s, r : s = Times(id) /\ r = Recent(id, t)
  OBVIOUS
<1>2. ListIs(s) /\ s \in Seq(Int)
  BY <1>1, ListedIs DEF Times, Listed
<1>3. PICK cutoff \in Int : cutoff = t - Hour
  BY SendNumbers
<1>4. r = After(s, cutoff)
  BY <1>1, <1>3 DEF Recent
<1>5. /\ AfterIs(r, s, cutoff, Len(s))
      /\ \A a \in Int : a > cutoff => Count(r, a) = Count(s, a)
  BY <1>2, <1>4, AfterFacts
<1>6. ListIs(r)
  BY <1>2, <1>5, FilteredIsList
<1> QED BY <1>1, <1>3, <1>5, <1>6 DEF AfterIs

(* Compacting a list in place loses nothing that still counts.             *)
LEMMA CompactedIs ==
  ASSUME clock \in Nat, ListsAre(sends), NEW id \in SendKeys, NEW t \in 0..clock
  PROVE  ListsAre(Compacted(id, t)) /\ StillCounts(sends, Compacted(id, t))
<1>0. clock \in Int /\ Hour \in Int /\ MaxWait \in Nat
  BY SendNumbers
<1>1. CASE sends[id] = NoBucket
  <2>1. Compacted(id, t) = sends
    BY <1>1 DEF Compacted
  <2>2. \A k \in SendKeys, a \in Int : Count(Listed(sends, k), a) <= Count(Listed(sends, k), a)
    BY ListedIs, LateFinite
  <2> QED BY <2>1, <2>2 DEF StillCounts
<1>2. CASE sends[id] # NoBucket
  <2>1. PICK s, r, q, f :
          /\ s = Times(id) /\ r = Recent(id, t)
          /\ q = r \o SubSeq(s, Len(r) + 1, Len(s)) /\ f = Compacted(id, t)
    OBVIOUS
  <2>2. /\ ListIs(s) /\ ListIs(r) /\ Len(r) <= Len(s)
        /\ \A k \in 1..Len(r) : \E j \in 1..Len(s) : r[k] = s[j]
        /\ \A a \in Int : a > t - Hour => Count(r, a) = Count(s, a)
    BY <2>1, RecentIs, ListedIs, ZenonT(60) DEF Times, Listed
  <2>3. ListIs(q) /\ \A a : Count(r, a) <= Count(q, a)
    BY <2>1, <2>2, OverwrittenIsList
  <2>4. f = [sends EXCEPT ![id] = q]
    BY <2>1, <1>2 DEF Compacted
  <2>5. /\ DOMAIN f = SendKeys /\ f[id] = q
        /\ \A k \in SendKeys : k # id => f[k] = sends[k]
    BY <2>4 DEF ListsAre
  <2>6. q # NoBucket
    BY <2>3, NoBucketIsNoList DEF ListIs, NoBucketIsNoList
  <2>7. ListsAre(f)
    BY <2>3, <2>5 DEF ListsAre
  <2>8. ASSUME NEW k \in SendKeys, NEW a \in Int, a > clock - Hour + MaxWait
        PROVE  Count(Listed(sends, k), a) <= Count(Listed(f, k), a)
    <3>1. CASE k = id
      <4>1. a > t - Hour
        BY <1>0, <2>8
      <4>2. Listed(sends, k) = s /\ Listed(f, k) = q
        BY <3>1, <2>1, <2>5, <2>6 DEF Listed, Times
      <4> QED BY <4>1, <4>2, <2>2, <2>3
    <3>2. CASE k # id
      <4>1. Listed(sends, k) = Listed(f, k)
        BY <3>2, <2>5 DEF Listed
      <4>2. Count(Listed(sends, k), a) \in Nat
        BY ListedIs, LateFinite
      <4> QED BY <4>1, <4>2
    <3> QED BY <3>1, <3>2
  <2> QED BY <2>1, <2>7, <2>8 DEF StillCounts
<1> QED BY <1>1, <1>2

(* The sweep goes by the last entry: the others are at most MaxWait later. *)
LEMMA SweptIs ==
  ASSUME clock \in Nat, NEW f, ListsAre(f), NEW t \in 0..clock
  PROVE  ListsAre(sweepSends(f, t)) /\ StillCounts(f, sweepSends(f, t))
<1>0. Hour \in Int /\ MaxWait \in Nat
  BY SendNumbers
<1>1. PICK g : g = sweepSends(f, t)
  OBVIOUS
<1>2. /\ DOMAIN g = SendKeys
      /\ \A k \in SendKeys : g[k] = IF \/ f[k] = NoBucket \/ f[k] = <<>>
                                       \/ f[k][Len(f[k])] <= t - Hour
                                    THEN NoBucket ELSE f[k]
  BY <1>1 DEF sweepSends
<1>3. ListsAre(g)
  BY <1>2 DEF ListsAre
<1>4. ASSUME NEW k \in SendKeys, NEW a \in Int, a > clock - Hour + MaxWait
      PROVE  Count(Listed(f, k), a) <= Count(Listed(g, k), a)
  <2>1. ListIs(Listed(f, k)) /\ Listed(f, k) \in Seq(Int) /\ Listed(g, k) \in Seq(Int)
    BY <1>3, ListedIs
  <2>2. CASE g[k] = f[k]
    <3>1. Listed(f, k) = Listed(g, k)
      BY <2>2 DEF Listed
    <3>2. Count(Listed(f, k), a) \in Nat
      BY <2>1, LateFinite
    <3> QED BY <3>1, <3>2
  <2>3. CASE g[k] # f[k]
    <3>1. /\ f[k] # NoBucket
          /\ f[k] = <<>> \/ f[k][Len(f[k])] <= t - Hour
      BY <2>3, <1>2
    <3>2. PICK s, n : s = f[k] /\ n = Len(s)
      OBVIOUS
    <3>3. /\ s \in Seq(Int) /\ n \in Nat
          /\ \A j \in 1..n : s[j] \in 0..clock /\ s[j] <= s[n] + MaxWait
      BY <2>1, <3>1, <3>2 DEF Listed, ListIs
    <3>4. ASSUME NEW j \in 1..n PROVE ~ (s[j] >= a)
      <4>1. n # 0 /\ n \in 1..n
        BY <3>3
      <4>2. s[n] <= t - Hour
        BY <4>1, <3>1, <3>2
      <4>3. PICK x, y : x = s[j] /\ y = s[n]
        OBVIOUS
      <4>4. x \in 0..clock /\ y \in 0..clock /\ x <= y + MaxWait /\ y <= t - Hour
        BY <3>3, <4>1, <4>2, <4>3
      <4>5. ~ (x >= a)
        BY <4>4, <1>0, <1>4
      <4> QED BY <4>3, <4>5
    <3>5. Count(s, a) = 0
      BY <3>2, <3>3, <3>4, CountNothing
    <3>6. Listed(f, k) = s /\ Count(Listed(g, k), a) \in Nat
      BY <2>1, <3>1, <3>2, LateFinite DEF Listed
    <3> QED BY <3>5, <3>6
  <2> QED BY <2>2, <2>3
<1> QED BY <1>1, <1>3, <1>4 DEF StillCounts

(* A spelling as it is counted: a number's, a mailbox's.                   *)
NumberKey(k) == [name |-> k.name, tag |-> k.tag, dots |-> FALSE, host |-> "+"]
MailKey(k) == [name |-> k.name, tag |-> FALSE,
               dots |-> k.dots /\ k.host \notin gmailDomains,
               host |-> IF k.host \in gmailDomains THEN "gmail.com" ELSE k.host]

Spelling(n, o) == [name : {n}, tag : BOOLEAN, dots : BOOLEAN, host : {o}]

(* A spelling with other dots at another host.                             *)
LEMMA OtherHost ==
  ASSUME NEW n, NEW o, NEW i \in Spelling(n, o), NEW y \in BOOLEAN, NEW z
  PROVE  [i EXCEPT !.dots = y, !.host = z] =
           [name |-> i.name, tag |-> i.tag, dots |-> y, host |-> z]
<1>1. PICK j : j = [i EXCEPT !.dots = y]
  OBVIOUS
<1>2. j = [name |-> i.name, tag |-> i.tag, dots |-> y, host |-> i.host]
  BY <1>1 DEF Spelling
<1>3. i.name = n /\ i.host = o /\ i.tag \in BOOLEAN
  BY DEF Spelling
<1>4. j \in Spelling(n, o) /\ j.name = i.name /\ j.tag = i.tag /\ j.dots = y
  BY <1>2, <1>3 DEF Spelling
<1>5. [j EXCEPT !.host = z] = [name |-> j.name, tag |-> j.tag, dots |-> j.dots, host |-> z]
  BY <1>4 DEF Spelling
<1>6. [i EXCEPT !.dots = y, !.host = z] = [j EXCEPT !.host = z]
  BY <1>1, Zenon
<1> QED BY <1>4, <1>5, <1>6, Zenon

(* What a spelling that normalizes is counted as.                          *)
LEMMA KeyIs ==
  ASSUME NEW n, NEW o, NEW i \in Spelling(n, o), normalizes(i)
  PROVE  identifierSendKey(i) = IF i.host \in {"+", "00", "national"}
                                THEN NumberKey(i) ELSE MailKey(i)
<1>1. NormalizePhoneE164(i) = NumberKey(i)
  BY OtherHost DEF NormalizePhoneE164, NumberKey
<1>2. NormalizeEmail(i) = MailKey(i)
  <2> DEFINE d == i.dots /\ i.host \notin gmailDomains
             m == IF i.host \in gmailDomains THEN "gmail.com" ELSE i.host
  <2>1. NormalizeEmail(i) = [i EXCEPT !.tag = FALSE, !.dots = d, !.host = m]
    BY DEF NormalizeEmail
  <2>2. d \in BOOLEAN
    OBVIOUS
  <2>3. MailKey(i) = [name |-> i.name, tag |-> FALSE, dots |-> d, host |-> m]
    BY DEF MailKey
  <2> HIDE DEF d, m
  <2>4. PICK j : j = [i EXCEPT !.tag = FALSE]
    OBVIOUS
  <2>5. j = [name |-> i.name, tag |-> FALSE, dots |-> i.dots, host |-> i.host]
    BY <2>4 DEF Spelling
  <2>6. i.name = n /\ i.host = o /\ i.dots \in BOOLEAN
    BY DEF Spelling
  <2>7. j \in Spelling(n, o) /\ j.name = i.name /\ j.tag = FALSE
    BY <2>5, <2>6 DEF Spelling
  <2>8. [j EXCEPT !.dots = d, !.host = m] =
          [name |-> j.name, tag |-> j.tag, dots |-> d, host |-> m]
    <3>1. \A y \in BOOLEAN : \A z : [j EXCEPT !.dots = y, !.host = z] =
            [name |-> j.name, tag |-> j.tag, dots |-> y, host |-> z]
      BY <2>7, OtherHost
    <3> QED BY <3>1, <2>2, Zenon
  <2>9. [i EXCEPT !.tag = FALSE, !.dots = d, !.host = m] = [j EXCEPT !.dots = d, !.host = m]
    BY <2>4, Zenon
  <2> QED BY <2>1, <2>3, <2>7, <2>8, <2>9, Zenon
<1> QED BY <1>1, <1>2 DEF identifierSendKey, normalizeIdentifier

(* The spellings of an inbox share a list.                                 *)
LEMMA OneKey ==
  ASSUME NEW i \in Identifiers, NEW j \in Identifiers,
         normalizes(i), normalizes(j), Inbox[i] = Inbox[j]
  PROVE  identifierSendKey(i) = identifierSendKey(j)
<1>1. /\ i \in Spelling(i.name, i.host) /\ j \in Spelling(j.name, j.host)
      /\ i.host \in {"+", "00", "national"} => ~i.tag
      /\ j.host \in {"+", "00", "national"} => ~j.tag
  BY InboxAssumption DEF InboxAssumption, Spelling
<1>2. /\ i.name = j.name
      /\ \/ {i.host, j.host} \subseteq {"+", "00"}
         \/ {i.host, j.host} \subseteq gmailDomains
         \/ i.host = j.host /\ i.dots = j.dots
  BY InboxAssumption DEF InboxAssumption
<1>3. /\ identifierSendKey(i) = IF i.host \in {"+", "00", "national"}
                                THEN NumberKey(i) ELSE MailKey(i)
      /\ identifierSendKey(j) = IF j.host \in {"+", "00", "national"}
                                THEN NumberKey(j) ELSE MailKey(j)
  BY <1>1, KeyIs
<1>4. i.tag \in BOOLEAN /\ j.tag \in BOOLEAN
  BY <1>1 DEF Spelling
<1>5. CASE {i.host, j.host} \subseteq {"+", "00"}
  <2>1. i.tag = FALSE /\ j.tag = FALSE
    BY <1>1, <1>4, <1>5
  <2>2. NumberKey(i) = NumberKey(j)
    BY <2>1, <1>2 DEF NumberKey
  <2> QED BY <2>2, <1>3, <1>5
<1>6. CASE {i.host, j.host} \subseteq gmailDomains
  <2>1. (i.dots /\ i.host \notin gmailDomains) = FALSE /\ (j.dots /\ j.host \notin gmailDomains) = FALSE
    BY <1>6
  <2>2. MailKey(i) = MailKey(j)
    BY <2>1, <1>2, <1>6 DEF MailKey
  <2>3. i.host \notin {"+", "00", "national"} /\ j.host \notin {"+", "00", "national"}
    BY <1>6 DEF gmailDomains
  <2> QED BY <2>2, <2>3, <1>3
<1>7. CASE i.host = j.host /\ i.dots = j.dots
  <2>1. MailKey(i) = MailKey(j)
    BY <1>2, <1>7 DEF MailKey
  <2>2. i.host \in {"+", "00", "national"} => NumberKey(i) = NumberKey(j)
    <3> SUFFICES ASSUME i.host \in {"+", "00", "national"} PROVE NumberKey(i) = NumberKey(j)
      OBVIOUS
    <3>1. i.tag = FALSE /\ j.tag = FALSE
      BY <1>1, <1>4, <1>7
    <3> QED BY <3>1, <1>2 DEF NumberKey
  <2> QED BY <2>1, <2>2, <1>3, <1>7
<1> QED BY <1>2, <1>5, <1>6, <1>7

-----------------------------------------------------------------------------
Inboxes == {Inbox[i] : i \in Identifiers}
SpanStart(t) == IF t < Hour - 2 * MaxWait THEN 0 ELSE t - (Hour - 2 * MaxWait) + 1

SendShape ==
  /\ clock \in 0..MaxLimitTime
  /\ DOMAIN pending = Callers
  /\ \A h \in Callers : pending[h] # NotWaiting =>
       /\ pending[h].at \in 0..clock /\ clock - pending[h].at <= MaxWait
       /\ table = "send" => pending[h].what \in Identifiers
  /\ sent \in [Inboxes -> [0..MaxLimitTime -> Nat]]
  /\ ListsAre(sends)

(* What went to an inbox that a call to come may have to count is in its   *)
(* list.                                                                   *)
IsCounted(i, a, b) ==
  TotalOf(sent[Inbox[i]], a, b) <= Count(Listed(sends, identifierSendKey(i)), a)
SendInv ==
  /\ SendShape
  /\ \A i \in Identifiers, a, b \in 0..MaxLimitTime :
       normalizes(i) /\ a <= b /\ a > clock - Hour + MaxWait => IsCounted(i, a, b)
  /\ \A x \in Inboxes, t \in 0..MaxLimitTime : TotalOf(sent[x], SpanStart(t), t) <= PerHour

(* Every spelling is counted under a key.                                  *)
LEMMA KeyIsSendKey == \A i \in Identifiers : identifierSendKey(i) \in SendKeys
BY DEF SendKeys

(* One table after another.                                                *)
LEMMA StillCountsMore ==
  ASSUME clock \in Nat, NEW f, NEW g, NEW q, ListsAre(f), ListsAre(g), ListsAre(q),
         StillCounts(f, g), StillCounts(g, q)
  PROVE  StillCounts(f, q)
<1> SUFFICES ASSUME NEW k \in SendKeys, NEW a \in Int, a > clock - Hour + MaxWait
             PROVE  Count(Listed(f, k), a) <= Count(Listed(q, k), a)
  BY DEF StillCounts
<1>1. /\ Count(Listed(f, k), a) <= Count(Listed(g, k), a)
      /\ Count(Listed(g, k), a) <= Count(Listed(q, k), a)
  BY DEF StillCounts
<1>2. /\ Count(Listed(f, k), a) \in Nat /\ Count(Listed(g, k), a) \in Nat
      /\ Count(Listed(q, k), a) \in Nat
  BY ListedIs, LateFinite
<1> QED BY <1>1, <1>2

(* A list takes the place of another.                                      *)
Puts(f, g, id, s) == f = [g EXCEPT ![id] = s]
LEMMA ListReplaced ==
  ASSUME NEW g, ListsAre(g), NEW id \in SendKeys, NEW s, ListIs(s), NEW f, Puts(f, g, id, s)
  PROVE  /\ ListsAre(f) /\ Listed(f, id) = s
         /\ \A k \in SendKeys : k # id => Listed(f, k) = Listed(g, k)
<1>1. s # NoBucket
  BY NoBucketIsNoList DEF ListIs, NoBucketIsNoList
<1>2. /\ DOMAIN f = SendKeys /\ f[id] = s
      /\ \A k \in SendKeys : k # id => f[k] = g[k]
  BY DEF ListsAre, Puts
<1>3. ListsAre(f)
  BY <1>2 DEF ListsAre
<1> QED BY <1>1, <1>2, <1>3 DEF Listed

(* A call in its turn leaves every list with what a call to come may count,*)
(* and if it lets a message through, the time of it too.                   *)
Lets(h, id, t) ==
  /\ Len(Recent(id, t)) < PerHour
  /\ \A a \in Int : a > clock - Hour + MaxWait =>
       Count(Listed(sends', id), a) = Count(Listed(sends, id), a) + (IF t >= a THEN 1 ELSE 0)
LEMMA ListsKept ==
  ASSUME SendShape, NEW h \in Callers, allowSend(h),
         NEW id, NEW t, id = identifierSendKey(pending[h].what), t = pending[h].at
  PROVE  /\ ListsAre(sends') /\ StillCounts(sends, sends')
         /\ \/ sent' = sent
            \/ /\ normalizes(pending[h].what)
               /\ sent' = [sent EXCEPT ![Inbox[pending[h].what]][t] = @ + 1]
               /\ Lets(h, id, t)
<1>0. clock \in Nat /\ MaxWait \in Nat /\ Hour \in Nat /\ PerHour \in Nat \ {0}
  BY SendNumbers DEF SendShape
<1>1. /\ pending[h] # NotWaiting /\ table = "send"
      /\ t \in 0..clock /\ clock - t <= MaxWait /\ pending[h].what \in Identifiers
  BY DEF allowSend, SendShape
<1>2. id \in SendKeys /\ ListsAre(sends)
  BY <1>1, KeyIsSendKey DEF SendShape
<1>3. PICK r, f, g, q :
        /\ r = Recent(id, t) /\ f = Compacted(id, t)
        /\ g = (IF Full(f) THEN sweepSends(f, t) ELSE f) /\ q = Append(r, t)
  OBVIOUS
<1>4. \/ Len(r) >= PerHour /\ sends' = [sends EXCEPT ![id] = r] /\ sent' = sent
      \/ sends' = g /\ sent' = sent
      \/ /\ Len(r) < PerHour
         /\ sends' = [g EXCEPT ![id] = q]
         /\ sent' = IF normalizes(pending[h].what)
                    THEN [sent EXCEPT ![Inbox[pending[h].what]][t] = @ + 1] ELSE sent
  BY <1>3, Zenon DEF allowSend
<1>5. /\ ListIs(r) /\ r \in Seq(Int)
      /\ \A a \in Int : a > t - Hour => Count(r, a) = Count(Listed(sends, id), a)
  BY <1>0, <1>1, <1>2, <1>3, RecentIs DEF Times, Listed
<1>6. \A a \in Int : a > clock - Hour + MaxWait => a > t - Hour
  BY <1>0, <1>1
<1>7. ListsAre(g) /\ StillCounts(sends, g)
  <2>1. ListsAre(f) /\ StillCounts(sends, f)
    BY <1>0, <1>1, <1>2, <1>3, CompactedIs
  <2>2. ListsAre(sweepSends(f, t)) /\ StillCounts(f, sweepSends(f, t))
    BY <2>1, <1>0, <1>1, SweptIs
  <2> QED BY <2>1, <2>2, <1>0, <1>2, <1>3, StillCountsMore
<1>8. CASE Len(r) >= PerHour /\ sends' = [sends EXCEPT ![id] = r] /\ sent' = sent
  <2>1. /\ ListsAre(sends') /\ Listed(sends', id) = r
        /\ \A k \in SendKeys : k # id => Listed(sends', k) = Listed(sends, k)
    <3>1. PICK f2 : f2 = sends'
      OBVIOUS
    <3>2. Puts(f2, sends, id, r)
      BY <3>1, <1>8 DEF Puts
    <3>3. /\ ListsAre(f2) /\ Listed(f2, id) = r
          /\ \A k \in SendKeys : k # id => Listed(f2, k) = Listed(sends, k)
      BY <3>2, <1>2, <1>5, ListReplaced
    <3> QED BY <3>1, <3>3
  <2>2. ASSUME NEW k \in SendKeys, NEW a \in Int, a > clock - Hour + MaxWait
        PROVE  Count(Listed(sends, k), a) <= Count(Listed(sends', k), a)
    <3>1. Count(Listed(sends, k), a) \in Nat
      BY <1>2, ListedIs, LateFinite
    <3>2. CASE k = id
      BY <3>1, <3>2, <2>1, <2>2, <1>5, <1>6
    <3>3. CASE k # id
      BY <3>1, <3>3, <2>1
    <3> QED BY <3>2, <3>3
  <2> QED BY <2>1, <2>2, <1>8 DEF StillCounts
<1>9. CASE /\ Len(r) < PerHour
           /\ sends' = [g EXCEPT ![id] = q]
           /\ sent' = IF normalizes(pending[h].what)
                      THEN [sent EXCEPT ![Inbox[pending[h].what]][t] = @ + 1] ELSE sent
  <2>1. ListIs(q)
    <3>1. PICK n : n = Len(r)
      OBVIOUS
    <3>2. /\ q \in Seq(Int) /\ Len(q) = n + 1 /\ q[n + 1] = t /\ n \in Nat
          /\ \A k \in 1..n : q[k] = r[k] /\ r[k] \in 0..clock
      BY <3>1, <1>1, <1>3, <1>5, SMTT(30) DEF ListIs
    <3>3. \A k \in 1..n + 1 : q[k] \in 0..clock
      <4>1. \A k \in 1..n + 1 : k \in 1..n \/ k = n + 1
        BY <3>2
      <4> QED BY <4>1, <3>2, <1>1
    <3>4. \A x \in 0..clock : x <= t + MaxWait
      BY <1>0, <1>1
    <3> QED BY <3>2, <3>3, <3>4 DEF ListIs
  <2>2. /\ ListsAre(sends') /\ Listed(sends', id) = q
        /\ \A k \in SendKeys : k # id => Listed(sends', k) = Listed(g, k)
    <3>1. PICK f2 : f2 = sends'
      OBVIOUS
    <3>2. Puts(f2, g, id, q)
      BY <3>1, <1>9 DEF Puts
    <3>3. /\ ListsAre(f2) /\ Listed(f2, id) = q
          /\ \A k \in SendKeys : k # id => Listed(f2, k) = Listed(g, k)
      BY <3>2, <2>1, <1>2, <1>7, ListReplaced
    <3> QED BY <3>1, <3>3
  <2>3. ASSUME NEW a \in Int, a > clock - Hour + MaxWait
        PROVE  Count(q, a) = Count(Listed(sends, id), a) + (IF t >= a THEN 1 ELSE 0)
    <3>1. Count(q, a) = Count(r, a) + (IF t >= a THEN 1 ELSE 0)
      BY <1>1, <1>3, <1>5, CountAppend
    <3> QED BY <3>1, <2>3, <1>5, <1>6
  <2>4. ASSUME NEW k \in SendKeys, NEW a \in Int, a > clock - Hour + MaxWait
        PROVE  Count(Listed(sends, k), a) <= Count(Listed(sends', k), a)
    <3>1. CASE k = id
      <4>1. Count(Listed(sends, id), a) \in Nat
        BY <1>2, ListedIs, LateFinite
      <4>2. Count(q, a) = Count(Listed(sends, id), a) + (IF t >= a THEN 1 ELSE 0)
        BY <2>3, <2>4
      <4> QED BY <4>1, <4>2, <3>1, <2>2
    <3>2. CASE k # id
      BY <3>2, <2>2, <2>4, <1>7 DEF StillCounts
    <3> QED BY <3>1, <3>2
  <2>5. Lets(h, id, t)
    BY <2>2, <2>3, <1>3, <1>9 DEF Lets
  <2> QED BY <2>2, <2>4, <2>5, <1>9 DEF StillCounts
<1> QED BY <1>4, <1>7, <1>8, <1>9

(* Where the spans of SendsBounded start.                                  *)
LEMMA SpanStarts ==
  ASSUME NEW t \in 0..MaxLimitTime
  PROVE  /\ SpanStart(t) \in 0..MaxLimitTime /\ SpanStart(t) <= t
         /\ SpanStart(t) >= t - Hour + 2 * MaxWait + 1
BY SendNumbers DEF SpanStart

(* One more message at time t.                                             *)
IsSent(f2, x, t) == f2 = [sent EXCEPT ![x][t] = @ + 1]
LEMMA SentOneMore ==
  ASSUME SendShape, NEW x \in Inboxes, NEW t \in 0..clock,
         NEW f2, IsSent(f2, x, t),
         NEW a \in 0..MaxLimitTime, NEW b \in 0..MaxLimitTime, a <= b
  PROVE  /\ TotalOf(f2[x], a, b) = TotalOf(sent[x], a, b) + (IF t \in a..b THEN 1 ELSE 0)
         /\ \A y \in Inboxes : y # x => f2[y] = sent[y]
         /\ TotalOf(sent[x], a, b) \in Nat
<1>1. clock \in Nat /\ MaxLimitTime \in Nat /\ t \in 0..MaxLimitTime /\ a \in Int /\ b \in Int /\ t \in Int
  BY SendNumbers DEF SendShape
<1>2. sent \in [Inboxes -> [0..MaxLimitTime -> Nat]]
  BY DEF SendShape
<1>3. f2[x] = [sent[x] EXCEPT ![t] = @ + 1] /\ sent[x] \in [0..MaxLimitTime -> Nat]
  BY <1>2 DEF IsSent
<1>4. a..b \subseteq 0..MaxLimitTime
  BY <1>1
<1>5. OneMoreAt(sent[x], f2[x], t, a, b)
  <2> SUFFICES ASSUME NEW u \in a..b
               PROVE  sent[x][u] \in Nat /\ f2[x][u] = sent[x][u] + (IF u = t THEN 1 ELSE 0)
    BY DEF OneMoreAt
  <2>1. u \in 0..MaxLimitTime
    BY <1>4
  <2>2. sent[x][u] \in Nat
    BY <1>3, <2>1
  <2>3. PICK fx, gx : fx = sent[x] /\ gx = f2[x]
    OBVIOUS
  <2>4. fx \in [0..MaxLimitTime -> Nat] /\ gx = [fx EXCEPT ![t] = @ + 1]
    BY <2>3, <1>3
  <2>5. gx[u] = fx[u] + (IF u = t THEN 1 ELSE 0)
    BY <2>1, <2>4
  <2> QED BY <2>2, <2>3, <2>5
<1>6. TotalOf(f2[x], a, b) = TotalOf(sent[x], a, b) + (IF t \in a..b THEN 1 ELSE 0)
  BY <1>1, <1>5, TotalOneMore
<1>7. \A y \in Inboxes : y # x => f2[y] = sent[y]
  BY <1>2 DEF IsSent
<1>8. TotalOf(sent[x], a, b) \in Nat
  <2>1. \A u \in a..b : sent[x][u] \in Nat
    BY <1>3, <1>4
  <2> QED BY <2>1, <1>1, TotalIsNat
<1> QED BY <1>6, <1>7, <1>8

(* A call in its turn keeps the bound on what is sent.                     *)
LEMMA SendStep ==
  ASSUME SendInv, NEW h \in Callers, allowSend(h) PROVE SendInv'
<1>1. PICK i, id, t, x :
        /\ i = pending[h].what /\ id = identifierSendKey(i) /\ t = pending[h].at /\ x = Inbox[i]
  OBVIOUS
<1>2. /\ table = "send" /\ pending[h] # NotWaiting
      /\ clock' = clock /\ table' = table /\ pending' = [pending EXCEPT ![h] = NotWaiting]
  BY DEF allowSend, Served
<1>3. SendShape /\ clock \in 0..MaxLimitTime /\ MaxLimitTime \in Nat /\ MaxWait \in Nat /\ Hour \in Nat
      /\ PerHour \in Nat /\ clock \in Nat /\ ListsAre(sends)
  BY SendNumbers DEF SendInv, SendShape
<1>4. i \in Identifiers /\ t \in 0..clock /\ clock - t <= MaxWait /\ x \in Inboxes /\ id \in SendKeys
  BY <1>1, <1>2, <1>3, KeyIsSendKey DEF SendShape, Inboxes
<1>5. /\ ListsAre(sends') /\ StillCounts(sends, sends')
      /\ \/ sent' = sent
         \/ /\ normalizes(i) /\ sent' = [sent EXCEPT ![x][t] = @ + 1]
            /\ Lets(h, id, t)
  BY <1>1, <1>3, ListsKept
<1>6. SendShape'
  <2>1. /\ DOMAIN pending' = Callers
        /\ \A k \in Callers : pending'[k] # NotWaiting => pending'[k] = pending[k]
    BY <1>2, <1>3 DEF SendShape
  <2>2. sent' \in [Inboxes -> [0..MaxLimitTime -> Nat]]
    <3>1. CASE sent' = sent
      BY <3>1, <1>3 DEF SendShape
    <3>2. CASE sent' = [sent EXCEPT ![x][t] = @ + 1]
      <4>1. sent[x] \in [0..MaxLimitTime -> Nat] /\ t \in 0..MaxLimitTime
        BY <1>3, <1>4 DEF SendShape
      <4>2. [sent[x] EXCEPT ![t] = @ + 1] \in [0..MaxLimitTime -> Nat]
        BY <4>1, OneMoreType
      <4> QED BY <3>2, <4>2, <1>3, <1>4 DEF SendShape
    <3> QED BY <3>1, <3>2, <1>5
  <2>3. ListsAre(sends)'
    BY <1>2, <1>5 DEF ListsAre, ListIs
  <2> QED BY <2>1, <2>2, <2>3, <1>2, <1>3 DEF SendShape
<1>7. ASSUME NEW j \in Identifiers, NEW a \in 0..MaxLimitTime, NEW b \in 0..MaxLimitTime,
             normalizes(j), a <= b, a > clock - Hour + MaxWait
      PROVE  IsCounted(j, a, b)'
  <2>1. /\ TotalOf(sent[Inbox[j]], a, b) <= Count(Listed(sends, identifierSendKey(j)), a)
        /\ Inbox[j] \in Inboxes /\ identifierSendKey(j) \in SendKeys /\ a \in Int /\ b \in Int
    BY <1>3, <1>7, KeyIsSendKey DEF SendInv, IsCounted, Inboxes
  <2>2. PICK n, c1, c2 : /\ n = TotalOf(sent[Inbox[j]], a, b)
                         /\ c1 = Count(Listed(sends, identifierSendKey(j)), a)
                         /\ c2 = Count(Listed(sends', identifierSendKey(j)), a)
    OBVIOUS
  <2>3. c1 \in Nat /\ c2 \in Nat
    <3>1. /\ Listed(sends, identifierSendKey(j)) \in Seq(Int)
          /\ Listed(sends', identifierSendKey(j)) \in Seq(Int)
      BY <1>3, <1>5, <2>1, ListedIs
    <3> QED BY <3>1, <2>2, LateFinite
  <2>4. n \in Nat
    <3>1. sent[Inbox[j]] \in [0..MaxLimitTime -> Nat]
      BY <2>1, <1>3 DEF SendShape
    <3>2. \A u \in a..b : u \in 0..MaxLimitTime
      BY <1>3
    <3>3. \A u \in a..b : sent[Inbox[j]][u] \in Nat
      BY <3>1, <3>2
    <3> QED BY <3>3, <2>1, <2>2, <1>7, TotalIsNat
  <2>5. n <= c1
    BY <2>1, <2>2
  <2>6. c1 <= c2
    BY <2>1, <2>2, <1>5, <1>7 DEF StillCounts
  <2>7. PICK n2 : n2 = TotalOf(sent'[Inbox[j]], a, b)
    OBVIOUS
  <2>8. n2 <= c2
    <3>1. CASE sent'[Inbox[j]] = sent[Inbox[j]]
      BY <3>1, <2>2, <2>3, <2>4, <2>5, <2>6, <2>7
    <3>2. CASE sent'[Inbox[j]] # sent[Inbox[j]]
      <4>1. normalizes(i) /\ sent' = [sent EXCEPT ![x][t] = @ + 1] /\ Lets(h, id, t)
        BY <3>2, <1>5
      <4>2. PICK f2 : f2 = sent'
        OBVIOUS
      <4>3. /\ TotalOf(f2[x], a, b) = TotalOf(sent[x], a, b) + (IF t \in a..b THEN 1 ELSE 0)
            /\ \A y \in Inboxes : y # x => f2[y] = sent[y]
        <5>1. IsSent(f2, x, t)
          BY <4>1, <4>2 DEF IsSent
        <5> QED BY <5>1, <1>3, <1>4, <1>7, SentOneMore
      <4>4. Inbox[j] = x
        BY <4>2, <4>3, <3>2, <2>1
      <4>5. identifierSendKey(j) = id
        BY <4>1, <4>4, <1>1, <1>4, <1>7, OneKey
      <4>6. n2 = n + (IF t \in a..b THEN 1 ELSE 0)
        BY <4>2, <4>3, <4>4, <2>2, <2>7
      <4>7. c2 = c1 + (IF t >= a THEN 1 ELSE 0)
        BY <4>1, <4>5, <2>1, <2>2, <1>7 DEF Lets
      <4>8. t \in a..b => t >= a
        BY <2>1
      <4> QED BY <4>6, <4>7, <4>8, <2>3, <2>4, <2>5
    <3> QED BY <3>1, <3>2
  <2> QED BY <2>2, <2>7, <2>8 DEF IsCounted
<1>8. ASSUME NEW y \in Inboxes, NEW T \in 0..MaxLimitTime
      PROVE  TotalOf(sent'[y], SpanStart(T), T) <= PerHour
  <2>1. PICK a : a = SpanStart(T)
    OBVIOUS
  <2>2. a \in 0..MaxLimitTime /\ a <= T /\ a >= T - Hour + 2 * MaxWait + 1
    BY <2>1, SpanStarts
  <2>3. TotalOf(sent[y], a, T) <= PerHour
    BY <2>1 DEF SendInv
  <2>4. CASE sent'[y] = sent[y]
    BY <2>1, <2>3, <2>4
  <2>5. CASE sent'[y] # sent[y]
    <3>1. normalizes(i) /\ sent' = [sent EXCEPT ![x][t] = @ + 1] /\ Lets(h, id, t)
      BY <2>5, <1>5
    <3>2. PICK f2 : f2 = sent'
      OBVIOUS
    <3>3. /\ TotalOf(f2[x], a, T) = TotalOf(sent[x], a, T) + (IF t \in a..T THEN 1 ELSE 0)
          /\ \A z \in Inboxes : z # x => f2[z] = sent[z]
          /\ TotalOf(sent[x], a, T) \in Nat
      <4>1. IsSent(f2, x, t)
        BY <3>1, <3>2 DEF IsSent
      <4> QED BY <4>1, <2>2, <1>3, <1>4, SentOneMore
    <3>4. y = x
      BY <3>2, <3>3, <2>5
    <3>5. CASE t \notin a..T
      BY <3>2, <3>3, <3>4, <3>5, <2>1, <2>3
    <3>6. CASE t \in a..T
      <4>1. a > clock - Hour + MaxWait /\ a > t - Hour /\ a \in Int
        BY <3>6, <2>2, <1>3, <1>4
      <4>2. TotalOf(sent[x], a, T) <= Count(Listed(sends, id), a)
        BY <4>1, <3>1, <2>2, <1>1, <1>4 DEF SendInv, IsCounted
      <4>3. /\ Recent(id, t) \in Seq(Int)
            /\ Count(Recent(id, t), a) = Count(Listed(sends, id), a)
        BY <4>1, <1>3, <1>4, RecentIs DEF Times, Listed
      <4>4. /\ Count(Recent(id, t), a) <= Len(Recent(id, t))
            /\ Count(Recent(id, t), a) \in Nat /\ Len(Recent(id, t)) \in Nat
        BY <4>3, LateFinite
      <4>5. Len(Recent(id, t)) < PerHour
        BY <3>1 DEF Lets
      <4>6. PICK n, c, l : /\ n = TotalOf(sent[x], a, T) /\ c = Count(Recent(id, t), a)
                           /\ l = Len(Recent(id, t))
        OBVIOUS
      <4>7. n \in Nat /\ c \in Nat /\ l \in Nat /\ n <= c /\ c <= l /\ l < PerHour
        BY <4>2, <4>3, <4>4, <4>5, <4>6, <3>3
      <4>8. n + 1 <= PerHour
        BY <4>7, <1>3
      <4> QED BY <4>6, <4>8, <3>2, <3>3, <3>4, <3>6, <2>1
    <3> QED BY <3>5, <3>6
  <2> QED BY <2>4, <2>5
<1> QED BY <1>2, <1>6, <1>7, <1>8 DEF SendInv

(* Nothing has been sent at first.                                         *)
LEMMA SendInitial == LimitInit => SendInv
<1> SUFFICES ASSUME LimitInit PROVE SendInv
  OBVIOUS
<1>1. MaxLimitTime \in Nat /\ PerHour \in Nat
  BY SendNumbers
<1>2. SendShape
  BY <1>1 DEF LimitInit, SendShape, Inboxes, ListsAre
<1>3. ASSUME NEW x \in Inboxes, NEW a \in 0..MaxLimitTime, NEW b \in 0..MaxLimitTime, a <= b
      PROVE  TotalOf(sent[x], a, b) = 0
  <2>1. \A t \in a..b : sent[x][t] = 0
    BY <1>1 DEF LimitInit, Inboxes
  <2>2. a \in Int /\ b \in Int
    BY <1>1
  <2> QED BY <2>1, <2>2, <1>3, TotalOfNothing
<1>4. ASSUME NEW i \in Identifiers, NEW a \in 0..MaxLimitTime, NEW b \in 0..MaxLimitTime, a <= b
      PROVE  IsCounted(i, a, b)
  <2>1. TotalOf(sent[Inbox[i]], a, b) = 0
    BY <1>3, <1>4 DEF Inboxes
  <2>2. Count(Listed(sends, identifierSendKey(i)), a) \in Nat
    BY <1>2, KeyIsSendKey, ListedIs, LateFinite DEF SendShape
  <2> QED BY <2>1, <2>2 DEF IsCounted
<1>5. ASSUME NEW x \in Inboxes, NEW t \in 0..MaxLimitTime
      PROVE  TotalOf(sent[x], SpanStart(t), t) <= PerHour
  <2>1. TotalOf(sent[x], SpanStart(t), t) = 0
    BY <1>3, SpanStarts
  <2> QED BY <2>1, <1>1
<1> QED BY <1>2, <1>4, <1>5 DEF SendInv

(* Time only lets entries age out of what is still to be counted.          *)
LEMMA SendTick == SendInv /\ LimitTick => SendInv'
<1> SUFFICES ASSUME SendInv, LimitTick PROVE SendInv'
  OBVIOUS
<1>1. /\ clock \in Nat /\ clock' = clock + 1 /\ clock + 1 \in 0..MaxLimitTime
      /\ table' = table /\ pending' = pending /\ sends' = sends /\ sent' = sent
      /\ \A h \in Callers : pending[h] # NotWaiting => clock - pending[h].at < MaxWait
      /\ MaxWait \in Nat /\ MaxLimitTime \in Nat /\ Hour \in Nat
  BY SendNumbers DEF SendInv, SendShape, LimitTick, limiterVars, limitHistory
<1>2. ListsAre(sends)'
  <2>1. \A u \in 0..clock : u \in 0..clock'
    BY <1>1
  <2> QED BY <2>1, <1>1 DEF SendInv, SendShape, ListsAre, ListIs
<1>3. SendShape'
  BY <1>1, <1>2 DEF SendInv, SendShape
<1>4. \A a \in 0..MaxLimitTime : a > clock' - Hour + MaxWait => a > clock - Hour + MaxWait
  BY <1>1
<1> QED BY <1>1, <1>3, <1>4 DEF SendInv, IsCounted

(* Every step keeps the invariant of the send limiter.                     *)
LEMMA SendSteps == SendInv /\ [LimitNext]_limitVars => SendInv'
<1> SUFFICES ASSUME SendInv, [LimitNext]_limitVars PROVE SendInv'
  OBVIOUS
(* The steps that touch neither the lists nor what was sent.               *)
<1>1. ASSUME SendShape', UNCHANGED <<clock, sends, sent>> PROVE SendInv'
  BY <1>1 DEF SendInv, IsCounted
<1>2. ASSUME NEW h \in Callers, NEW t, NEW what, Arrives(h, t, what),
             t = "send" => what \in Identifiers
      PROVE  SendInv'
  <2>1. /\ pending' = [pending EXCEPT ![h] = [at |-> clock, what |-> what]]
        /\ UNCHANGED <<clock, sends, sent, table>> /\ table = t
    BY <1>2 DEF Arrives, limiterVars, limitHistory
  <2>2. clock \in 0..clock /\ clock - clock <= MaxWait
    BY SendNumbers DEF SendInv, SendShape
  <2>3. \A k \in Callers \ {h} : pending'[k] = pending[k]
    BY <2>1 DEF SendInv, SendShape
  <2>4. DOMAIN pending' = Callers /\ pending'[h] = [at |-> clock, what |-> what]
    BY <2>1 DEF SendInv, SendShape
  <2>5. ListsAre(sends)'
    BY <2>1 DEF SendInv, SendShape, ListsAre, ListIs
  <2>6. SendShape'
    BY <1>2, <2>1, <2>2, <2>3, <2>4, <2>5 DEF SendInv, SendShape
  <2> QED BY <1>1, <2>1, <2>6
<1>3. ASSUME NEW h \in Callers, NEW r \in Requests, middleware(h, r) PROVE SendInv'
  BY <1>2, <1>3 DEF middleware
<1>4. ASSUME NEW h \in Callers, NEW i \in Identifiers, BeginLimited(h, i) PROVE SendInv'
  BY <1>2, <1>4 DEF BeginLimited
<1>5. ASSUME UNCHANGED <<clock, sends, sent, table>>,
             DOMAIN pending' = Callers,
             \A k \in Callers : pending'[k] # NotWaiting => pending'[k] = pending[k]
      PROVE  SendInv'
  <2>1. ListsAre(sends)'
    BY <1>5 DEF SendInv, SendShape, ListsAre, ListIs
  <2>2. SendShape'
    BY <1>5, <2>1 DEF SendInv, SendShape
  <2> QED BY <1>1, <1>5, <2>2
<1>6. ASSUME NEW h \in Callers, allowRequest(h) PROVE SendInv'
  <2>1. UNCHANGED <<clock, sends, sent, table>>
        /\ pending' = [pending EXCEPT ![h] = NotWaiting]
    BY <1>6 DEF allowRequest, Served
  <2>2. DOMAIN pending = Callers
    BY DEF SendInv, SendShape
  <2> QED BY <1>5, <2>1, <2>2
<1>7. ASSUME NEW hint \in Hints, NEW s \in HintSessions, Allow(hint, s) PROVE SendInv'
  BY <1>5, <1>7 DEF Allow, SendInv, SendShape
<1>8. CASE UNCHANGED limitVars
  BY <1>5, <1>8 DEF limitVars, limiterVars, limitHistory, SendInv, SendShape
<1> QED BY <1>3, <1>4, <1>6, <1>7, <1>8, SendStep, SendTick DEF LimitNext

(* One phone or inbox is sent at most PerHour messages in an hour less     *)
(* twice the wait for the mutex, under all its spellings and whatever the  *)
(* table forgets when it is full (identifierSendLimiter.allow).            *)
THEOREM SendsBoundedHolds == LimitSpec => []SendsBounded
<1>1. SendInv => SendsBounded
  <2> SUFFICES ASSUME SendInv, NEW b \in DOMAIN sent, NEW t \in 0..clock
               PROVE  TotalOf(sent[b], SpanStart(t), t) <= PerHour
    BY DEF SendsBounded, SpanStart
  <2>1. clock \in 0..MaxLimitTime /\ MaxLimitTime \in Nat /\ DOMAIN sent = Inboxes
    BY SendNumbers DEF SendInv, SendShape
  <2>2. t \in 0..MaxLimitTime
    BY <2>1
  <2> QED BY <2>1, <2>2 DEF SendInv
<1> QED BY SendInitial, SendSteps, <1>1, PTL DEF LimitSpec


-----------------------------------------------------------------------------
(* The limiters' tables have their types, and are not larger than allowed. *)
RoomInv ==
  /\ table \in Tables /\ lastSweep \in -SweepEvery..MaxLimitTime
  /\ IsFiniteSet(DOMAIN buckets) /\ Cardinality(DOMAIN buckets) <= MaxBuckets
  /\ \A b \in DOMAIN buckets : buckets[b].last \in 0..MaxLimitTime
  /\ \A h \in Hints : DOMAIN byHint[h] \subseteq HintSessions

LEMMA RoomNumbers ==
  /\ MaxLimitTime \in Nat /\ SweepEvery \in Nat \ {0} /\ MaxBuckets \in Nat \ {0}
BY LimiterAssumption DEF LimiterAssumption

LEMMA RoomForRequest ==
  ASSUME RateInv, RoomInv, NEW h \in Callers, allowRequest(h) PROVE RoomInv'
<1>1. PICK t, b, kept :
        t = pending[h].at /\ b = BucketOf(pending[h].what) /\ kept = sweepRate(t)
  OBVIOUS
<1>2. /\ pending[h] # NotWaiting /\ UNCHANGED <<table, byHint>>
      /\ lastSweep' = lastSweep \/ lastSweep' = t
      /\ \/ b \notin DOMAIN kept /\ TableFull(kept) /\ buckets' = kept
         \/ /\ b \in DOMAIN kept \/ ~ TableFull(kept)
            /\ \E new : /\ new.last = t
                        /\ buckets' = [k \in DOMAIN kept \cup {b} |-> IF k # b THEN kept[k] ELSE new]
  <2>1. pending[h] # NotWaiting /\ UNCHANGED <<table, byHint>>
    BY DEF allowRequest, Served
  <2>2. lastSweep' = lastSweep \/ lastSweep' = t
    BY <1>1 DEF allowRequest
  <2>3. \/ b \notin DOMAIN kept /\ TableFull(kept) /\ buckets' = kept
        \/ /\ b \in DOMAIN kept \/ ~ TableFull(kept)
           /\ \E tokens : buckets' = [k \in DOMAIN kept \cup {b} |->
                            IF k # b THEN kept[k] ELSE [tokens |-> tokens, last |-> t]]
    BY <1>1, ZenonT(60) DEF allowRequest
  <2>4. \A tokens : [tokens |-> tokens, last |-> t].last = t
    OBVIOUS
  <2> QED BY <2>1, <2>2, <2>3, <2>4
<1>3. t \in 0..MaxLimitTime
  <2>1. t \in 0..clock /\ clock \in 0..MaxLimitTime
    BY <1>1, <1>2 DEF RateInv, RateShape
  <2> QED BY <2>1, RoomNumbers
<1>4. lastSweep' \in -SweepEvery..MaxLimitTime
  BY <1>2, <1>3, RoomNumbers DEF RoomInv
<1>5. /\ DOMAIN kept \subseteq DOMAIN buckets
      /\ \A k \in DOMAIN kept : kept[k].last \in 0..MaxLimitTime
  BY <1>1 DEF sweepRate, RoomInv
<1>6. IsFiniteSet(DOMAIN kept) /\ Cardinality(DOMAIN kept) <= MaxBuckets
      /\ Cardinality(DOMAIN kept) \in Nat
  <2>1. /\ IsFiniteSet(DOMAIN kept) /\ Cardinality(DOMAIN kept) <= Cardinality(DOMAIN buckets)
        /\ Cardinality(DOMAIN kept) \in Nat /\ Cardinality(DOMAIN buckets) \in Nat
    BY <1>5, FS_Subset, FS_CardinalityType DEF RoomInv
  <2> QED BY <2>1, RoomNumbers DEF RoomInv
<1>7. CASE buckets' = kept
  BY <1>2, <1>4, <1>5, <1>6, <1>7 DEF RoomInv
<1>8. ASSUME NEW new, new.last = t, b \in DOMAIN kept \/ ~ TableFull(kept),
             buckets' = [k \in DOMAIN kept \cup {b} |-> IF k # b THEN kept[k] ELSE new]
      PROVE  RoomInv'
  <2>1. /\ DOMAIN buckets' = DOMAIN kept \cup {b}
        /\ \A k \in DOMAIN buckets' : buckets'[k].last \in 0..MaxLimitTime
    BY <1>3, <1>5, <1>8
  <2>2. IsFiniteSet(DOMAIN kept \cup {b}) /\ Cardinality(DOMAIN kept \cup {b}) <= MaxBuckets
    <3>1. CASE b \in DOMAIN kept
      <4>1. DOMAIN kept \cup {b} = DOMAIN kept
        BY <3>1
      <4> QED BY <4>1, <1>6
    <3>2. CASE b \notin DOMAIN kept
      <4>1. Cardinality(DOMAIN kept) < MaxBuckets
        BY <1>6, <1>8, <3>2, RoomNumbers DEF TableFull
      <4>2. /\ IsFiniteSet(DOMAIN kept \cup {b})
            /\ Cardinality(DOMAIN kept \cup {b}) = Cardinality(DOMAIN kept) + 1
        BY <1>6, <3>2, FS_AddElement
      <4> QED BY <4>1, <4>2, <1>6, RoomNumbers
    <3> QED BY <3>1, <3>2
  <2> QED BY <1>2, <1>4, <2>1, <2>2 DEF RoomInv
<1> QED BY <1>2, <1>7, <1>8

LEMMA RoomStep == RateInv /\ HintInv /\ RoomInv /\ [LimitNext]_limitVars => RoomInv'
<1> SUFFICES ASSUME RateInv, HintInv, RoomInv, [LimitNext]_limitVars PROVE RoomInv'
  OBVIOUS
<1>1. ASSUME NEW h \in Callers, allowRequest(h) PROVE RoomInv'
  BY <1>1, RoomForRequest
<1>2. ASSUME NEW x \in Hints, NEW s \in HintSessions, Allow(x, s) PROVE RoomInv'
  <2> DEFINE live == {z \in DOMAIN byHint[x] : clock - byHint[x][z] <= HintWindow}
  <2>1. /\ UNCHANGED <<table, lastSweep, buckets>>
        /\ \E d \in {live, live \cup {s}} : byHint' = [byHint EXCEPT ![x] =
             [z \in d |-> IF z \in live THEN byHint[x][z] ELSE clock]]
    BY <1>2 DEF Allow
  <2>2. PICK d \in {live, live \cup {s}} : byHint' = [byHint EXCEPT ![x] =
             [z \in d |-> IF z \in live THEN byHint[x][z] ELSE clock]]
    BY <2>1
  <2>3. d \subseteq DOMAIN byHint[x] \cup {s}
    OBVIOUS
  <2> HIDE DEF live
  <2>4. DOMAIN byHint'[x] = d /\ \A y \in Hints : y # x => byHint'[y] = byHint[y]
    BY <2>2 DEF HintInv
  <2>5. \A y \in Hints : DOMAIN byHint'[y] \subseteq HintSessions
    BY <1>2, <2>3, <2>4 DEF RoomInv
  <2> QED BY <2>1, <2>5 DEF RoomInv
<1>3. ASSUME NEW h, NEW r, NEW i,
             middleware(h, r) \/ BeginLimited(h, i) \/ allowSend(h) \/ LimitTick \/ UNCHANGED limitVars
      PROVE  RoomInv'
  <2>1. UNCHANGED <<table, lastSweep, buckets, byHint>>
    BY <1>3 DEF middleware, BeginLimited, Arrives, allowSend, Served, LimitTick, limitVars, limiterVars
  <2> QED BY <2>1 DEF RoomInv
<1> QED BY <1>1, <1>2, <1>3 DEF LimitNext

(* The three tables, the clock and the calls that wait have their types,   *)
(* and no more clients are remembered than the table has room for          *)
(* (maxRateLimitBuckets).                                                  *)
THEOREM LimitTypes == LimitSpec => []LimitTypeOK
<1>1. LimitInit => RoomInv
  <2> SUFFICES ASSUME LimitInit PROVE RoomInv
    OBVIOUS
  <2>1. DOMAIN buckets = {} /\ \A h \in Hints : DOMAIN byHint[h] = {}
    BY DEF LimitInit
  <2>2. IsFiniteSet({}) /\ Cardinality({}) = 0
    BY FS_EmptySet
  <2>3. -SweepEvery \in -SweepEvery..MaxLimitTime
    BY RoomNumbers
  <2> QED BY <2>1, <2>2, <2>3, RoomNumbers DEF LimitInit, RoomInv
<1>2. RateInv /\ SendInv /\ HintInv /\ RoomInv => LimitTypeOK
  <2> SUFFICES ASSUME RateInv, SendInv, HintInv, RoomInv PROVE LimitTypeOK
    OBVIOUS
  <2>1. clock \in 0..MaxLimitTime /\ MaxLimitTime \in Nat
        /\ \A h \in Callers : pending[h] = NotWaiting \/ pending[h].at \in 0..clock
    BY RoomNumbers DEF RateInv, RateShape
  <2>2. ASSUME NEW i \in SendKeys, sends[i] # NoBucket PROVE sends[i] \in Seq(0..MaxLimitTime)
    <3>1. PICK s : s = sends[i]
      OBVIOUS
    <3>2. s \in Seq(Int) /\ \A k \in 1..Len(s) : s[k] \in 0..MaxLimitTime
      BY <2>1, <2>2, <3>1 DEF SendInv, SendShape, ListsAre, ListIs
    <3>3. Len(s) \in Nat /\ s \in [1..Len(s) -> Int]
      BY <3>2, LenProperties
    <3>4. s \in [1..Len(s) -> 0..MaxLimitTime]
      BY <3>2, <3>3
    <3>5. s \in UNION {[1..n -> 0..MaxLimitTime] : n \in Nat}
      BY <3>3, <3>4, Zenon
    <3>6. Seq(0..MaxLimitTime) = UNION {[1..n -> 0..MaxLimitTime] : n \in Nat}
      BY SeqDef, Zenon
    <3> QED BY <3>1, <3>5, <3>6, Zenon
  <2> QED BY <2>1, <2>2 DEF LimitTypeOK, RoomInv
<1> QED BY <1>1, <1>2, RoomStep, RateInitial, RateStep, SendInitial, SendSteps, HintInitial, HintStep, PTL
       DEF LimitSpec

=============================================================================
