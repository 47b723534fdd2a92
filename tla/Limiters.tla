------------------------------ MODULE Limiters ------------------------------
(***************************************************************************)
(* The three in-memory limiters of the issuer: the token bucket per client *)
(* and request class (server/ratelimit.go), the cap on messages per phone  *)
(* or inbox (server/sendlimit.go) and the cap on sessions per device       *)
(* (methods/app-attest-device/hintlimit.go).                               *)
(*                                                                         *)
(* The first two read the clock before they take their mutex, so calls may *)
(* be served out of the order of their times; a call waits for the mutex   *)
(* at most MaxWait.  The third reads it inside.  All three forget, and the *)
(* properties say that what they forget never admits more than the limit.  *)
(*                                                                         *)
(* Tokens, floating point in the code, are counted in parts: Part of them  *)
(* make one, and Rate of them are added per unit of time.                  *)
(***************************************************************************)
EXTENDS Integers, Sequences, FiniteSets

CONSTANTS
  Requests,           \* what clients send: [client, path, get, peer,
                      \*   forwarded]; client is their network, which
                      \*   the code has to find out
  TrustedProxyHops,
  Block,              \* the /64 of an address, or the address itself
  Identifiers,        \* spellings: [name, tag, dots, host]
  Inbox,              \* where a message to a spelling arrives
  Hints, HintSessions,
  Callers,            \* concurrent requests
  Part, Rate, Burst,  \* Rate and Burst by class
  SweepEvery, SweepIdle,
  MaxBuckets, MaxWait, PerHour, Hour, HintMax, HintWindow,
  Tables,             \* which limiters a behaviour exercises
  MaxLimitTime, NoBucket

Classes == {"start", "begin", "default"}
NoClass == "unlimited"

-----------------------------------------------------------------------------
(* Which bucket a request draws from.                                      *)
classify(r) ==
  CASE r.path = "health" -> NoClass
    [] r.get /\ r.path \in {"did.json", "status-list"} -> NoClass
    [] ~r.get /\ r.path \in {"enrollment/start", "admin/revoke"} -> "start"
    [] ~r.get /\ r.path = "methods/begin" -> "begin"
    [] OTHER -> "default"

(* Each trusted proxy appends one entry; those before are the client's.    *)
clientIP(r) ==
  LET n == Len(r.forwarded) IN
  IF TrustedProxyHops > 0 /\ n >= TrustedProxyHops
  THEN r.forwarded[n - TrustedProxyHops + 1] ELSE r.peer
limiterKey(ip) == Block[ip]
BucketOf(r) == <<limiterKey(clientIP(r)), classify(r)>>
Clients == {r.client : r \in Requests}

(* The mailbox or number a spelling stands for: the tag goes, and at Gmail *)
(* the dots and the second domain.                                         *)
gmailDomains == {"gmail.com", "googlemail.com"}
NormalizeEmail(i) ==
  [i EXCEPT !.tag = FALSE,
            !.dots = @ /\ i.host \notin gmailDomains,
            !.host = IF @ \in gmailDomains THEN "gmail.com" ELSE @]
(* Punctuation goes and 00 is read as +; without a country code a number   *)
(* does not normalize.                                                     *)
NormalizePhoneE164(i) == [i EXCEPT !.dots = FALSE, !.host = "+"]
normalizes(i) == i.host # "national"
normalizeIdentifier(i) ==
  IF i.host \in {"+", "00", "national"} THEN NormalizePhoneE164(i)
                                        ELSE NormalizeEmail(i)
(* Mutation: every spelling is counted as typed.                           *)
identifierAsTyped(i) == i
(* Input that does not normalize is counted as typed.                      *)
identifierSendKey(i) == IF normalizes(i) THEN normalizeIdentifier(i) ELSE i
SendKeys == {identifierSendKey(i) : i \in Identifiers}

ASSUME LimiterAssumption ==
  /\ Rate \in [Classes -> Nat \ {0}] /\ Burst \in [Classes -> Nat \ {0}]
  /\ \A n \in {Part, SweepEvery, PerHour, Hour, HintMax, HintWindow, MaxBuckets} :
       n \in Nat \ {0}
  /\ MaxWait \in Nat /\ MaxLimitTime \in Nat /\ SweepIdle \in Nat
  /\ 2 * MaxWait < Hour
  /\ IsFiniteSet(Requests) /\ IsFiniteSet(Identifiers) /\ IsFiniteSet(Callers)
  /\ Tables \subseteq {"rate", "send", "hint"}
  \* DefaultRateLimitConfig: a bucket idle for SweepIdle is full again, also
  \* when calls are served out of order
  /\ \A c \in Classes : (SweepIdle + 1 - 2 * MaxWait) * Rate[c] >= Burst[c] * Part

(* Each of the trusted proxies appends the address it was called from: the *)
(* outermost of these entries, or the peer, is in the client's network.    *)
ASSUME ProxiesAppend ==
  /\ TrustedProxyHops \in Nat
  /\ \A r \in Requests :
       IF TrustedProxyHops = 0 THEN Block[r.peer] = r.client
       ELSE /\ r.forwarded \in Seq(DOMAIN Block) /\ Len(r.forwarded) >= TrustedProxyHops
            /\ Block[r.forwarded[Len(r.forwarded) - TrustedProxyHops + 1]] = r.client

(* Spellings that name an inbox: a number's differ in punctuation and in   *)
(* how they write +, a mailbox's in the tag and at Gmail in dots and domain.*)
ASSUME InboxAssumption ==
  /\ \A i \in Identifiers :
       /\ i \in [name : {i.name}, tag : BOOLEAN, dots : BOOLEAN, host : {i.host}]
       /\ i.host \in {"+", "00", "national"} => ~i.tag
  /\ \A i, j \in Identifiers :
       normalizes(i) /\ normalizes(j) /\ Inbox[i] = Inbox[j] =>
         /\ i.name = j.name
         /\ \/ {i.host, j.host} \subseteq {"+", "00"}
            \/ {i.host, j.host} \subseteq gmailDomains
            \/ i.host = j.host /\ i.dots = j.dots
ASSUME NoBucketIsNoList == NoBucket \notin Seq(Int)

VARIABLES
  table,              \* the limiter this behaviour exercises
  clock,
  pending,            \* per handler: the request waiting for the mutex
  buckets, lastSweep, \* rateLimiter
  sends,              \* identifierSendLimiter: times by identifier
  byHint,             \* InMemoryHintLimiter: session to time, by hint
  served, sent, enrolled  \* history: requests by client and class, and
                      \*   messages by inbox, per time; sessions by hint

limiterVars == <<buckets, lastSweep, sends, byHint>>
limitHistory == <<served, sent, enrolled>>
limitVars == <<table, clock, pending, limiterVars, limitHistory>>

NotWaiting == NoBucket
LimitTypeOK ==
  /\ table \in Tables /\ clock \in 0..MaxLimitTime
  /\ lastSweep \in -SweepEvery..MaxLimitTime
  /\ \A h \in Callers : pending[h] = NotWaiting \/ pending[h].at \in 0..clock
  /\ \A b \in DOMAIN buckets : buckets[b].last \in 0..MaxLimitTime
  /\ \A i \in SendKeys : sends[i] = NoBucket \/ sends[i] \in Seq(0..MaxLimitTime)
  /\ \A h \in Hints : DOMAIN byHint[h] \subseteq HintSessions
  /\ Cardinality(DOMAIN buckets) <= MaxBuckets

LimitInit ==
  /\ table \in Tables /\ clock = 0 /\ lastSweep = -SweepEvery
  /\ pending = [h \in Callers |-> NotWaiting]
  /\ buckets = <<>> /\ sends = [i \in SendKeys |-> NoBucket]
  /\ byHint = [h \in Hints |-> <<>>]
  /\ served = [c \in Clients \X Classes |-> [t \in 0..MaxLimitTime |-> 0]]
  /\ sent = [b \in {Inbox[i] : i \in Identifiers} |-> [t \in 0..MaxLimitTime |-> 0]]
  /\ enrolled = {}

(* A call reads the clock on its way to the limiter's mutex.              *)
Arrives(h, t, what) ==
  /\ pending[h] = NotWaiting /\ table = t
  /\ pending' = [pending EXCEPT ![h] = [at |-> clock, what |-> what]]
  /\ UNCHANGED <<table, clock, limiterVars, limitHistory>>
(* The middleware lets a request of no class through and counts nothing.   *)
middleware(h, r) == classify(r) # NoClass /\ Arrives(h, "rate", r)
(* handleBeginMethod.                                                      *)
BeginLimited(h, i) == Arrives(h, "send", i)
Served(h) ==
  /\ pending' = [pending EXCEPT ![h] = NotWaiting] /\ UNCHANGED <<table, clock, enrolled>>

-----------------------------------------------------------------------------
(* rateLimiter: parameters and sweep, then one token.                      *)
params(c) == [perTime |-> Rate[c], burst |-> Burst[c] * Part]
Lesser(a, b) == IF a < b THEN a ELSE b
(* Mutation: buckets idle since the last sweep go.                         *)
sweepEarly(t) ==
  IF t - lastSweep < SweepEvery THEN buckets
  ELSE LET kept == {b \in DOMAIN buckets : t - buckets[b].last <= SweepEvery}
       IN [b \in kept |-> buckets[b]]
sweepRate(t) ==
  IF t - lastSweep < SweepEvery THEN buckets
  ELSE LET kept == {b \in DOMAIN buckets : t - buckets[b].last <= SweepIdle}
       IN [b \in kept |-> buckets[b]]
TableFull(kept) == Cardinality(DOMAIN kept) >= MaxBuckets
allowRequest(h) ==
  LET r == pending[h].what  t == pending[h].at
      b == BucketOf(r)
      p == params(b[2])
      kept == sweepRate(t)
      fresh == b \notin DOMAIN kept
      old == IF fresh THEN [tokens |-> p.burst, last |-> t] ELSE kept[b]
      tokens == Lesser(p.burst, old.tokens + (t - old.last) * p.perTime)
  IN /\ pending[h] # NotWaiting /\ table = "rate"
     /\ lastSweep' = IF t - lastSweep < SweepEvery THEN lastSweep ELSE t
     /\ \/ /\ fresh /\ TableFull(kept)
           /\ buckets' = kept /\ UNCHANGED served
        \/ /\ ~fresh \/ ~TableFull(kept)
           /\ buckets' = [k \in DOMAIN kept \cup {b} |->
                IF k # b THEN kept[k]
                ELSE [tokens |-> IF tokens >= Part THEN tokens - Part ELSE tokens,
                      last |-> t]]
           /\ served' = IF tokens >= Part
                        THEN [served EXCEPT ![<<r.client, b[2]>>][t] = @ + 1]
                        ELSE served
     /\ Served(h) /\ UNCHANGED <<sends, byHint, sent>>

-----------------------------------------------------------------------------
(* identifierSendLimiter.  Times that aged out are dropped in place: a     *)
(* refusal for lack of room keeps the old length, with the recent times    *)
(* copied over the oldest ones.                                            *)
Times(id) == IF sends[id] = NoBucket THEN <<>> ELSE sends[id]
After(times, cutoff) ==
  LET kept[n \in 0..Len(times)] ==
        IF n = 0 THEN <<>>
        ELSE IF times[n] > cutoff THEN Append(kept[n - 1], times[n]) ELSE kept[n - 1]
  IN kept[Len(times)]
Recent(id, t) == After(Times(id), t - Hour)
Compacted(id, t) ==
  IF sends[id] = NoBucket THEN sends
  ELSE [sends EXCEPT ![id] = Recent(id, t) \o
          SubSeq(Times(id), Len(Recent(id, t)) + 1, Len(Times(id)))]
sweepSends(f, t) ==
  [i \in SendKeys |-> IF \/ f[i] = NoBucket \/ f[i] = <<>>
                    \/ f[i][Len(f[i])] <= t - Hour
                 THEN NoBucket ELSE f[i]]
Full(f) == Cardinality({i \in SendKeys : f[i] # NoBucket}) >= MaxBuckets
allowSend(h) ==
  LET id == identifierSendKey(pending[h].what)  t == pending[h].at
      recent == Recent(id, t)
      f == Compacted(id, t)
      g == IF Full(f) THEN sweepSends(f, t) ELSE f
  IN /\ pending[h] # NotWaiting /\ table = "send"
     /\ \/ /\ Len(recent) >= PerHour
           /\ sends' = [sends EXCEPT ![id] = recent] /\ UNCHANGED sent
        \/ /\ Len(recent) < PerHour /\ Full(g)
           /\ sends' = g /\ UNCHANGED sent
        \/ /\ Len(recent) < PerHour /\ ~Full(g)
           /\ sends' = [g EXCEPT ![id] = Append(recent, t)]
           /\ sent' = IF normalizes(pending[h].what)   \* else the method refuses
                      THEN [sent EXCEPT ![Inbox[pending[h].what]][t] = @ + 1]
                      ELSE sent
     /\ Served(h) /\ UNCHANGED <<buckets, lastSweep, byHint, served>>

-----------------------------------------------------------------------------
(* DeviceHintLimiter: distinct sessions per hint, by first sight.          *)
(* Mutation: one session too many.                                         *)
HintRoomForOneMore(live) == Cardinality(live) <= HintMax
HintRoom(live) == Cardinality(live) < HintMax
Allow(hint, s) ==
  LET live == {x \in DOMAIN byHint[hint] : clock - byHint[hint][x] <= HintWindow}
      ok   == s \in live \/ HintRoom(live)
  IN /\ table = "hint"
     /\ byHint' = [byHint EXCEPT ![hint] =
          [x \in (IF ok THEN live \cup {s} ELSE live) |->
             IF x \in live THEN byHint[hint][x] ELSE clock]]
     /\ enrolled' = IF ok THEN enrolled \cup {<<hint, s, clock>>} ELSE enrolled
     /\ UNCHANGED <<table, clock, pending, buckets, lastSweep, sends, served, sent>>

LimitTick ==
  /\ clock < MaxLimitTime /\ clock' = clock + 1
  /\ \A h \in Callers : pending[h] # NotWaiting => clock - pending[h].at < MaxWait
  /\ UNCHANGED <<table, pending, limiterVars, limitHistory>>

LimitNext ==
  \/ \E h \in Callers, r \in Requests : middleware(h, r)
  \/ \E h \in Callers, i \in Identifiers : BeginLimited(h, i)
  \/ \E h \in Callers : allowRequest(h) \/ allowSend(h)
  \/ \E hint \in Hints, s \in HintSessions : Allow(hint, s)
  \/ LimitTick

LimitSpec == LimitInit /\ [][LimitNext]_limitVars

-----------------------------------------------------------------------------
TotalOf(f, a, b) ==
  LET upto[t \in a..b] == IF t = a THEN f[t] ELSE upto[t - 1] + f[t] IN upto[b]

(* A client gets at most its burst and what its bucket refills, in every   *)
(* span of time: not more by forging X-Forwarded-For or moving inside its  *)
(* /64, nor because the sweep forgets its bucket or calls are served out   *)
(* of order (rateLimiter).  A span that ended more than MaxWait ago was     *)
(* checked when it ended.                                                  *)
RateBounded ==
  \A c \in Clients \X Classes, a \in 0..clock : \A b \in {x \in a..clock : clock - x <= MaxWait} :
    served[c][b] > 0 =>
      TotalOf(served[c], a, b) * Part <= Burst[c[2]] * Part + (b - a) * Rate[c[2]]

(* One phone or inbox is sent at most PerHour messages in an hour (less    *)
(* twice what a call may wait for the mutex: the sweep judges a list by    *)
(* its last time, which need not be its latest) under all its spellings,   *)
(* whatever the limiter forgets when its table is full                     *)
(* (identifierSendLimiter).                                                *)
SendsBounded ==
  \A b \in DOMAIN sent, t \in 0..clock :
    LET from == IF t < Hour - 2 * MaxWait THEN 0 ELSE t - (Hour - 2 * MaxWait) + 1
    IN TotalOf(sent[b], from, t) <= PerHour

(* Distinct sessions of one device in HintWindow: those it still knew when *)
(* the window began, and those it let in since (InMemoryHintLimiter).      *)
HintsBounded ==
  \A h \in Hints, t \in 0..clock :
    LET within == {e \in enrolled : e[1] = h /\ e[3] \in t - HintWindow .. t}
    IN Cardinality({e[2] : e \in within}) <= 2 * HintMax
=============================================================================
