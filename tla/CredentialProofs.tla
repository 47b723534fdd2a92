-------------------------- MODULE CredentialProofs --------------------------
(***************************************************************************)
(* Theorems of the components that say what is checked about a face, a     *)
(* key, a phone and a credential: FaceMatchCap, SlotStatements, Selfie,    *)
(* DeviceAttest and CredentialCheck.                                       *)
(***************************************************************************)
EXTENDS CredentialCheck, SlotStatements, DeviceAttest, FaceMatchCap, Selfie,
        FiniteSetTheorems, SequenceTheorems, TLAPS

-----------------------------------------------------------------------------
(* The cap of a face (FaceMatchCap).                                       *)

(* Requests that passed the check and will add a holder the list has not.  *)
Pending ==
  {i \in Issuers : /\ issuing[i].at = "record"
                   /\ issuing[i].session \notin Reviewed
                   /\ HolderOf[issuing[i].session] \notin others}

(* Whoever is counted added a holder of its own, and those counted and     *)
(* those about to be stay below the cap plus the requests in flight.       *)
CapInv ==
  /\ issuing \in [Issuers -> [at : {"rest", "record", "mark"}, session : CapSessions \cup {Free}]]
  /\ IsFiniteSet(others) /\ IsFiniteSet(counted)
  /\ Cardinality(counted) <= Cardinality(others)
  /\ Cardinality(counted) + Cardinality(Pending) < FaceMatchMaxOthers + Cardinality(Issuers)
  /\ \A i \in Issuers : issuing[i].at = "mark" => HolderOf[issuing[i].session] \in others
  /\ DeliveredIsCounted

(* The requests about to add a holder are some of those in flight.         *)
LEMMA PendingFinite ==
  /\ IsFiniteSet(Pending) /\ Cardinality(Pending) \in Nat
  /\ Cardinality(Pending) <= Cardinality(Issuers) /\ Cardinality(Issuers) \in Nat
  <1>1. Pending \subseteq Issuers
      BY DEF Pending
  <1> QED BY <1>1, CapBounds, FS_Subset, FS_CardinalityType

LEMMA CapInitial == CapInit => CapInv
  <1> SUFFICES ASSUME CapInit PROVE CapInv
      OBVIOUS
  <1>1. Pending = {}
      BY DEF CapInit, Pending, AtRest
  <1>2. Cardinality(Issuers) \in Nat /\ Cardinality(Issuers) # 0
      BY CapBounds, FS_CardinalityType, FS_EmptySet
  <1>3. IsFiniteSet({}) /\ Cardinality({}) = 0
      BY FS_EmptySet
  <1> QED BY <1>1, <1>2, <1>3, CapBounds DEF CapInit, CapInv, AtRest, DeliveredIsCounted

(* A request that passes the check because of its size was let in below    *)
(* the cap; any other adds nothing.                                        *)
LEMMA CapCheckStep ==
  ASSUME CapInv, NEW i \in Issuers, NEW s \in CapSessions, CheckCap(i, s)
  PROVE  CapInv'
  <1> USE DEF CheckCap, CapInv, AtRest
  <1>1. issuing' \in [Issuers -> [at : {"rest", "record", "mark"}, session : CapSessions \cup {Free}]]
      OBVIOUS
  <1>2. Cardinality(counted) + Cardinality(Pending') < FaceMatchMaxOthers + Cardinality(Issuers)
    <2>0. Cardinality(counted) \in Nat /\ Cardinality(others) \in Nat
        BY FS_CardinalityType
    <2>1. CASE s \in Reviewed \/ HolderOf[s] \in others
      <3>1. Pending' \subseteq Pending
          BY <2>1 DEF Pending
      <3> QED BY <3>1, <2>0, PendingFinite, FS_Subset, FS_CardinalityType, CapBounds
    <2>2. CASE Cardinality(others) < FaceMatchMaxOthers
      <3>1. Pending' \subseteq Issuers
          BY DEF Pending
      <3>2. Cardinality(Pending') <= Cardinality(Issuers) /\ Cardinality(Pending') \in Nat
          BY <3>1, CapBounds, FS_Subset, FS_CardinalityType
      <3> QED BY <3>2, <2>0, <2>2, PendingFinite, CapBounds
    <2> QED BY <2>1, <2>2 DEF lockoutIssuanceCheck
  <1>3. \A j \in Issuers : issuing'[j].at = "mark" => HolderOf[issuing'[j].session] \in others
      OBVIOUS
  <1> QED BY <1>1, <1>2, <1>3 DEF DeliveredIsCounted

(* Where a request counts a holder, it stops being about to.               *)
LEMMA CapAddStep ==
  ASSUME CapInv, NEW i \in Issuers, addFaceMatchOther(i)
  PROVE  CapInv'
  <1> DEFINE s == issuing[i].session
             h == HolderOf[s]
             new == s \notin Reviewed /\ h \notin others
  <1> USE DEF CapInv
  <1>1. PICK landed, ok \in BOOLEAN :
          /\ ok => landed
          /\ others'  = IF landed THEN others \cup {h} ELSE others
          /\ counted' = IF landed /\ new THEN counted \cup {s} ELSE counted
          /\ \E at \in IF ok THEN {"mark"} ELSE {"rest"} : issuing' = [issuing EXCEPT ![i] = Then(at, s)]
      BY DEF addFaceMatchOther, AfterError
  <1>2. issuing[i].at = "record" /\ delivered' = delivered
      BY DEF addFaceMatchOther
  <1>3. /\ issuing' \in [Issuers -> [at : {"rest", "record", "mark"}, session : CapSessions \cup {Free}]]
        /\ issuing'[i].at # "record"
        /\ issuing'[i].at = "mark" => issuing'[i].session = s /\ ok
        /\ \A j \in Issuers \ {i} : issuing'[j] = issuing[j]
      BY <1>1 DEF Then, AtRest
  <1>4. others \subseteq others'
      BY <1>1
  <1>5. Pending' \subseteq Pending \ {i}
      BY <1>3, <1>4 DEF Pending
  <1>6. /\ IsFiniteSet(Pending \ {i}) /\ IsFiniteSet(Pending') /\ Cardinality(Pending') \in Nat
        /\ Cardinality(Pending') <= Cardinality(Pending \ {i})
        /\ Cardinality(Pending \ {i}) = IF i \in Pending THEN Cardinality(Pending) - 1
                                        ELSE Cardinality(Pending)
    <2>1. IsFiniteSet(Pending \ {i}) /\ Cardinality(Pending \ {i}) =
            IF i \in Pending THEN Cardinality(Pending) - 1 ELSE Cardinality(Pending)
        BY PendingFinite, FS_RemoveElement
    <2> QED BY <2>1, <1>5, FS_Subset, FS_CardinalityType
  <1>7. /\ IsFiniteSet(others') /\ IsFiniteSet(counted')
        /\ Cardinality(counted') <= Cardinality(others')
        /\ Cardinality(counted') + Cardinality(Pending') < FaceMatchMaxOthers + Cardinality(Issuers)
    <2>0. Cardinality(counted) \in Nat /\ Cardinality(others) \in Nat
        BY FS_CardinalityType
    <2>1. /\ IsFiniteSet(others \cup {h}) /\ IsFiniteSet(counted \cup {s})
          /\ Cardinality(others \cup {h}) =
               IF h \in others THEN Cardinality(others) ELSE Cardinality(others) + 1
          /\ Cardinality(counted \cup {s}) =
               IF s \in counted THEN Cardinality(counted) ELSE Cardinality(counted) + 1
        BY FS_AddElement
    <2>2. CASE landed /\ new
      <3>1. i \in Pending
          BY <1>2, <2>2 DEF Pending
      <3> QED BY <1>1, <1>6, <2>0, <2>1, <2>2, <3>1, PendingFinite, CapBounds
    <2>3. CASE ~(landed /\ new)
        BY <1>1, <1>6, <2>0, <2>1, <2>3, PendingFinite, CapBounds
    <2> QED BY <2>2, <2>3
  <1>8. \A j \in Issuers : issuing'[j].at = "mark" => HolderOf[issuing'[j].session] \in others'
      BY <1>1, <1>3, <1>4
  <1>9. DeliveredIsCounted'
      BY <1>2, <1>4 DEF DeliveredIsCounted
  <1> QED BY <1>3, <1>7, <1>8, <1>9

LEMMA CapMarkStep ==
  ASSUME CapInv, NEW i \in Issuers, MarkIssued(i)
  PROVE  CapInv'
  <1> USE DEF CapInv, MarkIssued, AtRest
  <1>1. issuing' \in [Issuers -> [at : {"rest", "record", "mark"}, session : CapSessions \cup {Free}]]
      OBVIOUS
  <1>2. Pending' \subseteq Pending
      BY DEF Pending
  <1>3. Cardinality(Pending') <= Cardinality(Pending) /\ Cardinality(Pending') \in Nat
      BY <1>2, PendingFinite, FS_Subset, FS_CardinalityType
  <1>4. Cardinality(counted) \in Nat
      BY FS_CardinalityType
  <1>5. Cardinality(counted) + Cardinality(Pending') < FaceMatchMaxOthers + Cardinality(Issuers)
      BY <1>3, <1>4, PendingFinite, CapBounds
  <1>6. \A j \in Issuers : issuing'[j].at = "mark" => HolderOf[issuing'[j].session] \in others
      OBVIOUS
  <1>7. DeliveredIsCounted'
      BY DEF DeliveredIsCounted
  <1> QED BY <1>1, <1>5, <1>6, <1>7

(* For any sessions, holders, cap and number of requests in flight, the    *)
(* holders counted on a face pass the cap by fewer than the requests that  *)
(* overlap, and every credential handed out is counted                     *)
(* (lockoutIssuanceCheck, lockoutRecordIssuance).                          *)
THEOREM CapIsKeptHolds == CapSpec => []CapIsKept
  <1>1. CapInv /\ [CapNext]_capVars => CapInv'
    <2> SUFFICES ASSUME CapInv, [CapNext]_capVars PROVE CapInv'
        OBVIOUS
    <2>1. CASE CapNext
        BY <2>1, CapCheckStep, CapAddStep, CapMarkStep DEF CapNext
    <2>2. CASE UNCHANGED capVars
      <3>1. Pending' = Pending
          BY <2>2 DEF capVars, Pending
      <3> QED BY <2>2, <3>1 DEF capVars, CapInv, DeliveredIsCounted
    <2> QED BY <2>1, <2>2
  <1>2. CapInv => CapIsKept
    <2> SUFFICES ASSUME CapInv PROVE CapHolds
        BY DEF CapIsKept, CapInv
    <2>1. Cardinality(counted) \in Nat
        BY FS_CardinalityType DEF CapInv
    <2> QED BY <2>1, PendingFinite, CapBounds DEF CapInv, CapHolds
  <1> QED BY CapInitial, <1>1, <1>2, PTL DEF CapSpec

-----------------------------------------------------------------------------
(* Slot statements (SlotStatements).                                       *)

(* A field is a sequence of characters.                                    *)
SlotField(v) == v \in Seq({v[i] : i \in DOMAIN v})

(* Where the parts of a message are.                                       *)
LEMMA MessageParts ==
  ASSUME NEW c, NEW s, NEW d, SlotField(c), SlotField(s)
  PROVE  LET m == SlotStatementMessage(c, s, d)
         IN /\ Len(c) \in Nat /\ Len(s) \in Nat
            /\ Len(m) = Len(c) + Len(s) + 5
            /\ \A i \in 1..Len(c) : m[2 + i] = c[i]
            /\ m[3 + Len(c)] = Newline
            /\ \A i \in 1..Len(s) : m[3 + Len(c) + i] = s[i]
            /\ m[5 + Len(c) + Len(s)] = d
  <1> DEFINE T == {c[i] : i \in DOMAIN c} \cup {s[i] : i \in DOMAIN s} \cup {"scheme", Newline, d}
             a == <<"scheme", Newline>> \o c
             b == a \o <<Newline>>
             e == b \o s
  <1>0. c \in Seq(T) /\ s \in Seq(T)
    <2>1. \A A, B : \A v \in Seq(A) : A \subseteq B => v \in Seq(B)
        OBVIOUS
    <2> QED BY <2>1 DEF SlotField
  <1>1. /\ <<"scheme", Newline>> \in Seq(T) /\ <<Newline>> \in Seq(T) /\ <<Newline, d>> \in Seq(T)
        /\ Len(<<"scheme", Newline>>) = 2 /\ Len(<<Newline>>) = 1 /\ Len(<<Newline, d>>) = 2
      OBVIOUS
  <1> HIDE DEF T
  <1>2. /\ a \in Seq(T) /\ Len(a) = 2 + Len(c) /\ Len(c) \in Nat
        /\ \A i \in 1..Len(c) : a[2 + i] = c[i]
    <2>1. \A i \in 1..Len(c) : 2 + i \in 1..(2 + Len(c)) /\ ~(2 + i <= 2) /\ (2 + i) - 2 = i
        BY <1>0, LenProperties
    <2> QED BY <1>0, <1>1, <2>1, ConcatProperties, LenProperties
  <1> HIDE DEF a
  <1>3. /\ b \in Seq(T) /\ Len(b) = 3 + Len(c)
        /\ \A i \in 1..Len(a) : b[i] = a[i]
        /\ b[3 + Len(c)] = Newline
    <2>1. b \in Seq(T) /\ Len(b) = 3 + Len(c) /\ \A i \in 1..(3 + Len(c)) :
            b[i] = IF i <= 2 + Len(c) THEN a[i] ELSE <<Newline>>[i - (2 + Len(c))]
        BY <1>1, <1>2, ConcatProperties
    <2> HIDE DEF b
    <2> QED BY <2>1, <1>2
  <1> HIDE DEF b
  <1>4. /\ e \in Seq(T) /\ Len(e) = 3 + Len(c) + Len(s) /\ Len(s) \in Nat
        /\ \A i \in 1..Len(b) : e[i] = b[i]
        /\ \A i \in 1..Len(s) : e[3 + Len(c) + i] = s[i]
    <2>0. Len(s) \in Nat
        BY <1>0, LenProperties
    <2>1. e \in Seq(T) /\ Len(e) = 3 + Len(c) + Len(s)
      <3>1. e \in Seq(T) /\ Len(e) = Len(b) + Len(s)
          BY <1>0, <1>3, ConcatProperties
      <3> QED BY <3>1, <1>3, Zenon
    <2>2. \A i \in 1..(3 + Len(c) + Len(s)) :
            e[i] = IF i <= 3 + Len(c) THEN b[i] ELSE s[i - (3 + Len(c))]
        BY <1>0, <1>3, ConcatProperties
    <2> HIDE DEF e
    <2>3. \A i \in 1..Len(s) : /\ 3 + Len(c) + i \in 1..(3 + Len(c) + Len(s))
                               /\ ~(3 + Len(c) + i <= 3 + Len(c))
                               /\ (3 + Len(c) + i) - (3 + Len(c)) = i
        BY <1>2, <2>0
    <2>4. \A i \in 1..Len(b) : i \in 1..(3 + Len(c) + Len(s)) /\ i <= 3 + Len(c)
        BY <1>2, <1>3, <2>0
    <2> QED BY <2>0, <2>1, <2>2, <2>3, <2>4
  <1> HIDE DEF e
  <1> DEFINE t == <<Newline, d>>
             m == e \o t
             n == 3 + Len(c) + Len(s)
  <1>t. t \in Seq(T) /\ Len(t) = 2 /\ t[2] = d
      BY <1>1
  <1> HIDE DEF t
  <1>5. /\ n \in Nat /\ Len(m) = n + 2
        /\ \A i \in 1..(n + 2) : m[i] = IF i <= n THEN e[i] ELSE t[i - n]
    <2>1. Len(m) = Len(e) + Len(t) /\ \A i \in 1..(Len(e) + Len(t)) :
            m[i] = IF i <= Len(e) THEN e[i] ELSE t[i - Len(e)]
      <3>1. e \in Seq(T) /\ t \in Seq(T)
          BY <1>t, <1>4
      <3> QED BY <3>1, ConcatProperties, Zenon
    <2>2. Len(e) = n /\ n \in Nat
        BY <1>2, <1>4
    <2>3. Len(e) + Len(t) = n + 2
        BY <1>t, <2>2
    <2> HIDE DEF m, n
    <2>4. Len(m) = n + 2
        BY <2>1, <2>3
    <2>5. \A i \in 1..(n + 2) : m[i] = IF i <= n THEN e[i] ELSE t[i - n]
        BY <2>1, <2>2, <2>3, Zenon
    <2> QED BY <2>2, <2>4, <2>5
  <1>6. m = SlotStatementMessage(c, s, d)
      BY DEF SlotStatementMessage, a, b, e, t
  <1> HIDE DEF m
  <1>7. m[n + 2] = d
    <2>1. n + 2 \in 1..(n + 2) /\ ~(n + 2 <= n) /\ (n + 2) - n = 2
        BY <1>5
    <2> QED BY <1>5, <1>t, <2>1
  <1>8. \A i \in 1..n : m[i] = e[i]
      BY <1>5
  <1>9. \A i \in 1..Len(c) : m[2 + i] = c[i]
    <2> TAKE i \in 1..Len(c)
    <2>1. 2 + i \in 1..Len(a) /\ 2 + i \in 1..Len(b) /\ 2 + i \in 1..n
        BY <1>2, <1>3, <1>4
    <2> QED BY <2>1, <1>2, <1>3, <1>4, <1>8
  <1>10. m[3 + Len(c)] = Newline
    <2>1. 3 + Len(c) \in 1..Len(b) /\ 3 + Len(c) \in 1..n
        BY <1>2, <1>3, <1>4
    <2> QED BY <2>1, <1>3, <1>4, <1>8
  <1>11. \A i \in 1..Len(s) : m[3 + Len(c) + i] = s[i]
    <2> TAKE i \in 1..Len(s)
    <2>1. 3 + Len(c) + i \in 1..n
        BY <1>2, <1>4
    <2> QED BY <2>1, <1>4, <1>8
  <1>12. Len(m) = Len(c) + Len(s) + 5 /\ n + 2 = 5 + Len(c) + Len(s)
      BY <1>2, <1>4, <1>5
  <1> QED BY <1>2, <1>4, <1>6, <1>7, <1>9, <1>10, <1>11, <1>12

(* A message in whose context there is no line feed has one reading.       *)
LEMMA MessageDetermines ==
  ASSUME NEW c, NEW s, NEW d, SlotField(c), SlotField(s), checkSlotField(c),
         NEW c2, NEW s2, NEW d2, SlotField(c2), SlotField(s2), checkSlotField(c2),
         SlotStatementMessage(c, s, d) = SlotStatementMessage(c2, s2, d2)
  PROVE  c = c2 /\ s = s2 /\ d = d2
  <1> DEFINE m == SlotStatementMessage(c, s, d)
  <1>1. /\ Len(c) \in Nat /\ Len(s) \in Nat /\ Len(c2) \in Nat /\ Len(s2) \in Nat
        /\ Len(c) + Len(s) = Len(c2) + Len(s2)
        /\ \A i \in 1..Len(c) : m[2 + i] = c[i]
        /\ \A i \in 1..Len(c2) : m[2 + i] = c2[i]
        /\ m[3 + Len(c)] = Newline /\ m[3 + Len(c2)] = Newline
        /\ \A i \in 1..Len(s) : m[3 + Len(c) + i] = s[i]
        /\ \A i \in 1..Len(s2) : m[3 + Len(c2) + i] = s2[i]
        /\ m[5 + Len(c) + Len(s)] = d /\ m[5 + Len(c2) + Len(s2)] = d2
    <2>1. m = SlotStatementMessage(c2, s2, d2)
        OBVIOUS
    <2>2. /\ Len(c) \in Nat /\ Len(s) \in Nat /\ Len(m) = Len(c) + Len(s) + 5
          /\ \A i \in 1..Len(c) : m[2 + i] = c[i]
          /\ m[3 + Len(c)] = Newline
          /\ \A i \in 1..Len(s) : m[3 + Len(c) + i] = s[i]
          /\ m[5 + Len(c) + Len(s)] = d
        BY MessageParts, SMTT(30)
    <2> HIDE DEF m
    <2>3. /\ Len(c2) \in Nat /\ Len(s2) \in Nat /\ Len(m) = Len(c2) + Len(s2) + 5
          /\ \A i \in 1..Len(c2) : m[2 + i] = c2[i]
          /\ m[3 + Len(c2)] = Newline
          /\ \A i \in 1..Len(s2) : m[3 + Len(c2) + i] = s2[i]
          /\ m[5 + Len(c2) + Len(s2)] = d2
        BY <2>1, MessageParts, SMTT(30)
    <2>4. Len(c) + Len(s) = Len(c2) + Len(s2)
      <3>1. /\ Len(c) \in Nat /\ Len(s) \in Nat /\ Len(c2) \in Nat /\ Len(s2) \in Nat
            /\ Len(c) + Len(s) + 5 = Len(c2) + Len(s2) + 5
          BY <2>2, <2>3, Zenon
      <3> QED BY <3>1
    <2> QED BY <2>2, <2>3, <2>4, Zenon
  <1> HIDE DEF m
  <1>2. \A i \in 1..Len(c) : c[i] # Newline
      BY DEF checkSlotField, SlotField
  <1>3. \A i \in 1..Len(c2) : c2[i] # Newline
      BY DEF checkSlotField, SlotField
  <1>4. ~(Len(c) < Len(c2))
    <2> SUFFICES ASSUME Len(c) < Len(c2) PROVE FALSE
        OBVIOUS
    <2>1. m[2 + (Len(c) + 1)] = c2[Len(c) + 1] /\ Len(c) + 1 \in 1..Len(c2)
        BY <1>1
    <2>2. 2 + (Len(c) + 1) = 3 + Len(c)
        BY <1>1
    <2> QED BY <2>1, <2>2, <1>1, <1>3
  <1>5. ~(Len(c2) < Len(c))
    <2> SUFFICES ASSUME Len(c2) < Len(c) PROVE FALSE
        OBVIOUS
    <2>1. m[2 + (Len(c2) + 1)] = c[Len(c2) + 1] /\ Len(c2) + 1 \in 1..Len(c)
        BY <1>1
    <2>2. 2 + (Len(c2) + 1) = 3 + Len(c2)
        BY <1>1
    <2> QED BY <2>1, <2>2, <1>1, <1>2
  <1>6. Len(c) = Len(c2) /\ Len(s) = Len(s2)
      BY <1>1, <1>4, <1>5
  <1>7. /\ \A i \in 1..Len(c) : c[i] = c2[i]
        /\ \A i \in 1..Len(s) : s[i] = s2[i]
        /\ d = d2
      BY <1>1, <1>6
  <1>8. \A u, v : SlotField(u) /\ SlotField(v) /\ Len(u) = Len(v) /\ (\A i \in 1..Len(u) : u[i] = v[i])
          => u = v
    <2> SUFFICES ASSUME NEW u, NEW v, SlotField(u), SlotField(v), Len(u) = Len(v),
                        \A i \in 1..Len(u) : u[i] = v[i]
                 PROVE  u = v
        OBVIOUS
    <2>1. /\ DOMAIN u = 1..Len(u) /\ u \in [1..Len(u) -> {u[i] : i \in DOMAIN u}]
          /\ DOMAIN v = 1..Len(v) /\ v \in [1..Len(v) -> {v[i] : i \in DOMAIN v}]
        BY LenProperties DEF SlotField
    <2> QED BY <2>1
  <1> QED BY <1>6, <1>7, <1>8

(* Every signature is on the message of something its wallet meant, whose  *)
(* context can be read out of it, and only such a pair convicts.           *)
SlotInv ==
  /\ payloads \in [Wallets -> SUBSET (SlotFields \X SlotFields \X Digests)]
  /\ \A x \in signatures : /\ x.key \in Wallets
                           /\ \E p \in payloads[x.key] :
                                /\ checkSlotField(p[1])
                                /\ x.message = SlotStatementMessage(p[1], p[2], p[3])
  /\ convicted \subseteq Wallets
  /\ NoFraming

(* What a proof of double signing shows was signed was also meant.         *)
LEMMA SignedIsMeant ==
  ASSUME SlotInv, NEW w \in Wallets, NEW c \in SlotFields, NEW s \in SlotFields,
         NEW d \in Digests, checkSlotField(c), Signs(w, c, s, d)
  PROVE  \E p \in payloads[w] : p[1] = c /\ p[2] = s /\ p[3] = d
  <1>1. PICK p \in payloads[w] :
          /\ checkSlotField(p[1])
          /\ SlotStatementMessage(c, s, d) = SlotStatementMessage(p[1], p[2], p[3])
      BY DEF SlotInv, Signs
  <1>2. p \in SlotFields \X SlotFields \X Digests
      BY DEF SlotInv
  <1>3. SlotField(p[1]) /\ SlotField(p[2]) /\ SlotField(c) /\ SlotField(s)
      BY <1>2, SlotAssumption DEF SlotField
  <1>4. p[1] = c /\ p[2] = s /\ p[3] = d
      BY <1>1, <1>3, MessageDetermines
  <1> QED BY <1>4

(* However contexts, slots and digests are chosen, and whichever           *)
(* statements are put together, only a wallet that meant two digests for   *)
(* one slot of one context is convicted (SlotStatementMessage,             *)
(* EquivocationProof.Verify).                                              *)
THEOREM NoFramingHolds == SlotSpec => []NoFraming
  <1>1. SlotInit => SlotInv
      BY DEF SlotInit, SlotInv, NoFraming
  <1>2. SlotInv /\ [SlotNext]_slotVars => SlotInv'
    <2> SUFFICES ASSUME SlotInv, [SlotNext]_slotVars PROVE SlotInv'
        OBVIOUS
    <2>1. ASSUME NEW w \in Wallets, NEW c \in SlotFields, NEW s \in SlotFields, NEW d \in Digests,
                 SignSlotStatement(w, c, s, d)
          PROVE  SlotInv'
      <3> DEFINE p == <<c, s, d>>
      <3>1. /\ signatures' = signatures \cup {[key |-> w, message |-> SlotStatementMessage(c, s, d)]}
            /\ payloads' = [payloads EXCEPT ![w] = @ \cup {p}]
            /\ convicted' = convicted /\ checkSlotField(c)
          BY <2>1 DEF SignSlotStatement
      <3>2. p \in SlotFields \X SlotFields \X Digests /\ p[1] = c /\ p[2] = s /\ p[3] = d
          OBVIOUS
      <3> HIDE DEF p
      <3>3. payloads' \in [Wallets -> SUBSET (SlotFields \X SlotFields \X Digests)]
          BY <3>1, <3>2 DEF SlotInv
      <3>4. \A x \in Wallets : payloads[x] \subseteq payloads'[x]
          BY <3>1 DEF SlotInv
      <3>5. p \in payloads'[w]
          BY <3>1 DEF SlotInv
      <3>6. \A x \in signatures' : /\ x.key \in Wallets
                                   /\ \E q \in payloads'[x.key] :
                                        /\ checkSlotField(q[1])
                                        /\ x.message = SlotStatementMessage(q[1], q[2], q[3])
        <4> TAKE x \in signatures'
        <4>1. CASE x \in signatures
            BY <4>1, <3>4 DEF SlotInv
        <4>2. CASE x = [key |-> w, message |-> SlotStatementMessage(c, s, d)]
            BY <4>2, <3>1, <3>2, <3>5
        <4> QED BY <4>1, <4>2, <3>1
      <3>7. NoFraming'
          BY <3>1, <3>4 DEF SlotInv, NoFraming
      <3> QED BY <3>1, <3>3, <3>6, <3>7 DEF SlotInv
    <2>2. ASSUME NEW w \in Wallets, NEW c \in SlotFields, NEW s \in SlotFields,
                 NEW ds \in Digests \X Digests, Convict(w, c, s, ds)
          PROVE  SlotInv'
      <3>1. /\ ds[1] # ds[2] /\ checkSlotField(c)
            /\ Signs(w, c, s, ds[1]) /\ Signs(w, c, s, ds[2])
            /\ convicted' = convicted \cup {w} /\ UNCHANGED <<signatures, payloads>>
          BY <2>2 DEF Convict, EquivocationVerify
      <3>2. \E p, q \in payloads[w] : p[1] = q[1] /\ p[2] = q[2] /\ p[3] # q[3]
        <4>1. ds[1] \in Digests /\ ds[2] \in Digests
            OBVIOUS
        <4>2. PICK p \in payloads[w] : p[1] = c /\ p[2] = s /\ p[3] = ds[1]
            BY <3>1, <4>1, SignedIsMeant
        <4>3. PICK q \in payloads[w] : q[1] = c /\ q[2] = s /\ q[3] = ds[2]
            BY <3>1, <4>1, SignedIsMeant
        <4> QED BY <3>1, <4>2, <4>3
      <3> QED BY <3>1, <3>2 DEF SlotInv, NoFraming
    <2>3. CASE UNCHANGED slotVars
        BY <2>3 DEF slotVars, SlotInv, NoFraming
    <2> QED BY <2>1, <2>2, <2>3 DEF SlotNext
  <1> QED BY <1>1, <1>2, PTL DEF SlotSpec, SlotInv

(* A wallet that signs one digest for a slot of a context can never be     *)
(* convicted, whatever anybody does with its statements.                   *)
THEOREM CarefulStandHolds == SlotSpec => [](convicted \cap Careful = {})
  <1> DEFINE OnePerSlot == \A w \in Careful : \A p, q \in payloads[w] :
               p[1] = q[1] /\ p[2] = q[2] => p[3] = q[3]
             Typed == payloads \in [Wallets -> SUBSET (SlotFields \X SlotFields \X Digests)]
  <1>1. SlotInit => OnePerSlot /\ Typed
      BY SlotAssumption DEF SlotInit
  <1>2. OnePerSlot /\ Typed /\ [SlotNext]_slotVars => (OnePerSlot /\ Typed)'
    <2> SUFFICES ASSUME OnePerSlot, Typed, [SlotNext]_slotVars PROVE (OnePerSlot /\ Typed)'
        OBVIOUS
    <2>1. ASSUME NEW w \in Wallets, NEW c \in SlotFields, NEW s \in SlotFields, NEW d \in Digests,
                 SignSlotStatement(w, c, s, d)
          PROVE  (OnePerSlot /\ Typed)'
      <3> DEFINE r == <<c, s, d>>
      <3>1. /\ w \in Careful => \A p \in payloads[w] : p[1] = c /\ p[2] = s => p[3] = d
            /\ payloads' = [payloads EXCEPT ![w] = @ \cup {r}]
          BY <2>1 DEF SignSlotStatement
      <3>2. r \in SlotFields \X SlotFields \X Digests /\ r[1] = c /\ r[2] = s /\ r[3] = d
          OBVIOUS
      <3> HIDE DEF r
      <3>3. \A x \in Wallets : payloads'[x] = IF x = w THEN payloads[w] \cup {r} ELSE payloads[x]
          BY <3>1
      <3>4. Typed'
          BY <3>1, <3>2
      <3>5. OnePerSlot'
          BY <3>1, <3>2, <3>3, SlotAssumption
      <3> QED BY <3>4, <3>5
    <2>2. ASSUME NEW w \in Wallets, NEW c \in SlotFields, NEW s \in SlotFields,
                 NEW ds \in Digests \X Digests, Convict(w, c, s, ds)
          PROVE  (OnePerSlot /\ Typed)'
        BY <2>2 DEF Convict
    <2>3. CASE UNCHANGED slotVars
        BY <2>3 DEF slotVars
    <2> QED BY <2>1, <2>2, <2>3 DEF SlotNext
  <1>3. OnePerSlot /\ NoFraming => convicted \cap Careful = {}
      BY DEF NoFraming
  <1> QED BY <1>1, <1>2, <1>3, NoFramingHolds, PTL DEF SlotSpec

-----------------------------------------------------------------------------
(* The fuzzy extractor (Selfie): for all sizes of templates, blocks and    *)
(* bytes, and for every seed, a reading finds a record exactly when it is  *)
(* a reading of the face that was enrolled.                                *)

LEMMA Division ==
  ASSUME NEW a \in Nat, NEW b \in Nat \ {0}
  PROVE  a \div b \in Nat /\ (a \div b) * b <= a /\ a < (a \div b) * b + b
  OBVIOUS

LEMMA DivisionIs ==
  ASSUME NEW a \in Nat, NEW b \in Nat \ {0}, NEW q \in Nat, q * b <= a, a < q * b + b
  PROVE  a \div b = q
  <1>1. a \div b \in Nat /\ (a \div b) * b <= a /\ a < (a \div b) * b + b
      BY Division
  <1>2. \A p \in Nat : p < q => p * b + b <= q * b
      OBVIOUS
  <1>3. \A p \in Nat : q < p => q * b + b <= p * b
      OBVIOUS
  <1> QED BY <1>1, <1>2, <1>3

(* The sizes fit: the code fills at most the template, in whole bytes.     *)
LEMMA Sizes ==
  /\ BlockBits \in Nat \ {0} /\ numBlocks \in Nat \ {0} /\ usedBits \in Nat
  /\ numBlocks <= RoundUp(numBlocks) /\ RoundUp(numBlocks) \in Nat
  /\ usedBits <= RoundUp(usedBits) /\ RoundUp(usedBits) \in Nat
  /\ RoundUp(usedBits) <= templateBits /\ templateBits \in Nat
  <1>1. ByteBits \in Nat \ {0} /\ TemplateBytes \in Nat \ {0} /\ BlockBits \in Nat \ {0}
        /\ numBlocks > 0
      BY SelfieAssumption
  <1>2. templateBits \in Nat
      BY <1>1 DEF templateBits
  <1>3. numBlocks \in Nat \ {0} /\ numBlocks * BlockBits <= templateBits
      BY <1>1, <1>2, Division DEF numBlocks
  <1>4. usedBits \in Nat /\ usedBits <= templateBits
      BY <1>1, <1>3 DEF usedBits
  <1>5. ASSUME NEW n \in Nat
        PROVE  /\ RoundUp(n) \in Nat /\ n <= RoundUp(n)
               /\ RoundUp(n) <= n + ByteBits - 1
               /\ \E q \in Nat : RoundUp(n) = q * ByteBits
    <2> DEFINE q == (n + ByteBits - 1) \div ByteBits
    <2>1. n + ByteBits - 1 \in Nat
        BY <1>1
    <2>2. q \in Nat /\ q * ByteBits <= n + ByteBits - 1 /\ n + ByteBits - 1 < q * ByteBits + ByteBits
        BY <1>1, <2>1, Division
    <2>3. RoundUp(n) = q * ByteBits
        BY DEF RoundUp
    <2> HIDE DEF q
    <2>4. q * ByteBits \in Nat
        BY <1>1, <2>2
    <2> QED BY <1>1, <2>2, <2>3, <2>4
  <1>6. RoundUp(usedBits) <= templateBits
    <2>1. PICK q \in Nat : RoundUp(usedBits) = q * ByteBits
        BY <1>4, <1>5
    <2>2. q * ByteBits < TemplateBytes * ByteBits + ByteBits
      <3>1. RoundUp(usedBits) \in Nat /\ RoundUp(usedBits) <= usedBits + ByteBits - 1
          BY <1>4, <1>5
      <3>2. RoundUp(usedBits) < templateBits + ByteBits
          BY <1>1, <1>2, <1>4, <3>1
      <3> QED BY <2>1, <3>2 DEF templateBits
    <2>3. ~(TemplateBytes + 1 <= q)
      <3>1. \A p \in Nat : TemplateBytes + 1 <= p => TemplateBytes * ByteBits + ByteBits <= p * ByteBits
          BY <1>1
      <3> QED BY <1>1, <2>1, <2>2, <3>1
    <2>4. \A p \in Nat : p <= TemplateBytes => p * ByteBits <= TemplateBytes * ByteBits
        BY <1>1
    <2> QED BY <1>1, <2>1, <2>3, <2>4 DEF templateBits
  <1> QED BY <1>1, <1>2, <1>3, <1>4, <1>5, <1>6

Block(b) == (b * BlockBits)..((b + 1) * BlockBits - 1)

(* A block is BlockBits of the bits used, and its bits know it.            *)
LEMMA Blocks ==
  /\ \A b \in 0..(numBlocks - 1) : \A i \in Block(b) :
       i \in 0..(usedBits - 1) /\ i \div BlockBits = b
  /\ \A i \in 0..(usedBits - 1) : i \div BlockBits \in 0..(numBlocks - 1)
  /\ \A b \in 0..(numBlocks - 1) : IsFiniteSet(Block(b)) /\ Cardinality(Block(b)) = BlockBits
  <1>1. BlockBits \in Nat \ {0} /\ numBlocks \in Nat \ {0} /\ usedBits = numBlocks * BlockBits
      BY Sizes DEF usedBits
  <1>2. ASSUME NEW b \in 0..(numBlocks - 1)
        PROVE  /\ b * BlockBits \in Nat
               /\ (b + 1) * BlockBits = b * BlockBits + BlockBits
               /\ b * BlockBits + BlockBits <= usedBits
      BY <1>1
  <1>3. ASSUME NEW b \in 0..(numBlocks - 1), NEW i \in Block(b)
        PROVE  i \in 0..(usedBits - 1) /\ i \div BlockBits = b
    <2>1. /\ i \in Nat /\ b * BlockBits <= i /\ i < b * BlockBits + BlockBits
          BY <1>1, <1>2 DEF Block
    <2>2. i < usedBits /\ usedBits \in Nat
        BY <1>2, <2>1, Sizes
    <2>3. i \div BlockBits = b
        BY <1>1, <2>1, DivisionIs
    <2> QED BY <2>1, <2>2, <2>3
  <1>4. ASSUME NEW i \in 0..(usedBits - 1)
        PROVE  i \div BlockBits \in 0..(numBlocks - 1)
    <2> DEFINE q == i \div BlockBits
    <2>1. i \in Nat /\ i < numBlocks * BlockBits
        BY <1>1, Sizes
    <2>2. q \in Nat /\ q * BlockBits <= i
        BY <1>1, <2>1, Division
    <2> HIDE DEF q
    <2>3. ~(numBlocks <= q)
      <3>1. numBlocks <= q => numBlocks * BlockBits <= q * BlockBits
          BY <1>1, <2>2
      <3> QED BY <1>1, <2>1, <2>2, <3>1
    <2>4. q \in 0..(numBlocks - 1)
        BY <1>1, <2>2, <2>3
    <2> QED BY <2>4 DEF q
  <1>5. ASSUME NEW b \in 0..(numBlocks - 1)
        PROVE  IsFiniteSet(Block(b)) /\ Cardinality(Block(b)) = BlockBits
    <2> DEFINE lo == b * BlockBits
               hi == (b + 1) * BlockBits - 1
    <2>1. lo \in Int /\ hi \in Int /\ lo <= hi /\ hi - lo + 1 = BlockBits
        BY <1>1, <1>2
    <2>2. Block(b) = lo..hi
        BY DEF Block
    <2> HIDE DEF lo, hi
    <2> QED BY <2>1, <2>2, FS_Interval
  <1> QED BY <1>3, <1>4, <1>5

Seeds == BitStrings(RoundUp(numBlocks))
Helpers == BitStrings(RoundUp(usedBits))
Differing(t, u, b) == {i \in Block(b) : t[i] # u[i]}

(* What is left of a template after taking the helper data away: the seed, *)
(* where the two templates agree.                                          *)
LEMMA Residual ==
  ASSUME NEW t \in Templates, NEW u \in Templates, NEW seed \in Seeds
  PROVE  LET e == expandSeed(seed)
             x == xorBytes(t, xorBytes(u, e))
         IN /\ e \in Helpers /\ x \in Helpers /\ xorBytes(u, e) \in Helpers
            /\ \A i \in 0..(RoundUp(usedBits) - 1) : x[i] = e[i] <=> t[i] = u[i]
            /\ \A b \in 0..(numBlocks - 1) : \A i \in Block(b) : e[i] = seed[b]
  <1> DEFINE e == expandSeed(seed)
             h == xorBytes(u, e)
             x == xorBytes(t, h)
             Bits == 0..(RoundUp(usedBits) - 1)
  <1>1. Bits \subseteq 0..(templateBits - 1) /\ \A i \in Bits : i \in Int
      BY Sizes
  <1>2. \A i \in Bits : t[i] \in {0, 1} /\ u[i] \in {0, 1}
      BY <1>1 DEF Templates, BitStrings
  <1>3. e \in [Bits -> {0, 1}]
    <2>1. \A i \in Bits : i < usedBits => i \div BlockBits \in 0..(RoundUp(numBlocks) - 1)
      <3> TAKE i \in Bits
      <3> HAVE i < usedBits
      <3>1. i \in 0..(usedBits - 1)
          BY Sizes
      <3>2. i \div BlockBits \in 0..(numBlocks - 1)
          BY <3>1, Blocks
      <3> QED BY <3>2, Sizes
    <2> QED BY <2>1 DEF expandSeed, Seeds, BitStrings
  <1>4. \A b \in 0..(numBlocks - 1) : \A i \in Block(b) : e[i] = seed[b]
    <2> TAKE b \in 0..(numBlocks - 1)
    <2> TAKE i \in Block(b)
    <2>1. i \in 0..(usedBits - 1) /\ i \div BlockBits = b
        BY Blocks
    <2>2. i \in Bits /\ i < usedBits
        BY <2>1, Sizes
    <2> QED BY <2>1, <2>2 DEF expandSeed
  <1> HIDE DEF e
  <1>5. /\ DOMAIN t = 0..(templateBits - 1) /\ DOMAIN u = 0..(templateBits - 1) /\ DOMAIN e = Bits
      BY <1>3 DEF Templates, BitStrings
  <1>6. DOMAIN u \cap DOMAIN e = Bits
      BY <1>1, <1>5
  <1>7. h = [i \in Bits |-> (u[i] + e[i]) % 2]
      BY <1>6 DEF xorBytes
  <1>8. h \in [Bits -> {0, 1}]
      BY <1>2, <1>3, <1>7
  <1>9. x = [i \in Bits |-> (t[i] + h[i]) % 2]
    <2>1. DOMAIN t \cap DOMAIN h = Bits
        BY <1>1, <1>5, <1>7
    <2> QED BY <2>1 DEF xorBytes
  <1>10. x \in [Bits -> {0, 1}]
    <2>1. \A i \in Bits : (t[i] + h[i]) % 2 \in {0, 1}
      <3> TAKE i \in Bits
      <3>1. t[i] \in {0, 1} /\ h[i] \in {0, 1}
          BY <1>2, <1>8
      <3> HIDE DEF h
      <3> QED BY <3>1
    <2> HIDE DEF h
    <2> QED BY <1>9, <2>1
  <1>11. \A i \in Bits : x[i] = e[i] <=> t[i] = u[i]
    <2> TAKE i \in Bits
    <2>0. h[i] = (u[i] + e[i]) % 2
        BY <1>7, Zenon
    <2> HIDE DEF h
    <2>1. x[i] = (t[i] + h[i]) % 2
        BY <1>9, Zenon
    <2>2. t[i] \in {0, 1} /\ u[i] \in {0, 1} /\ e[i] \in {0, 1}
        BY <1>2, <1>3
    <2> HIDE DEF x
    <2> QED BY <2>0, <2>1, <2>2
  <1> QED BY <1>3, <1>4, <1>8, <1>10, <1>11 DEF Helpers, BitStrings, e

(* A block decodes to its bit of the seed when the templates agree in the  *)
(* most of it.                                                             *)
LEMMA Decoded ==
  ASSUME NEW t \in Templates, NEW u \in Templates, NEW seed \in Seeds, NEW b \in 0..(numBlocks - 1)
  PROVE  LET x == xorBytes(t, xorBytes(u, expandSeed(seed)))
         IN majorityDecode(x)[b] = seed[b] <=> 2 * Cardinality(Differing(t, u, b)) < BlockBits
  <1> DEFINE e == expandSeed(seed)
             x == xorBytes(t, xorBytes(u, e))
             O == Ones(x, b)
             D == Differing(t, u, b)
  <1>1. /\ \A i \in Block(b) : i \in 0..(RoundUp(usedBits) - 1)
        /\ \A i \in Block(b) : x[i] \in {0, 1} /\ e[i] = seed[b] /\ (x[i] = e[i] <=> t[i] = u[i])
    <2>1. \A i \in Block(b) : i \in 0..(RoundUp(usedBits) - 1)
      <3> TAKE i \in Block(b)
      <3>1. i \in 0..(usedBits - 1)
          BY Blocks
      <3> QED BY <3>1, Sizes
    <2>2. /\ x \in Helpers
          /\ \A i \in 0..(RoundUp(usedBits) - 1) : x[i] = e[i] <=> t[i] = u[i]
          /\ \A i \in Block(b) : e[i] = seed[b]
        BY Residual
    <2> HIDE DEF x, e
    <2> QED BY <2>1, <2>2 DEF Helpers, BitStrings
  <1>2. seed[b] \in {0, 1}
      BY Sizes DEF Seeds, BitStrings
  <1>3. O = {i \in Block(b) : x[i] = 1}
      BY DEF Ones, Block
  <1>4. majorityDecode(x)[b] = IF 2 * Cardinality(O) > BlockBits THEN 1 ELSE 0
      BY Sizes DEF majorityDecode
  <1> HIDE DEF x, e, O
  <1>5. /\ IsFiniteSet(O) /\ IsFiniteSet(D) /\ Cardinality(O) \in Nat /\ Cardinality(D) \in Nat
        /\ IsFiniteSet(Block(b)) /\ Cardinality(Block(b)) = BlockBits
    <2>1. O \subseteq Block(b) /\ D \subseteq Block(b)
        BY <1>3 DEF Differing
    <2> HIDE DEF D
    <2> QED BY <2>1, Blocks, FS_Subset, FS_CardinalityType
  <1>6. Cardinality(O) = IF seed[b] = 1 THEN BlockBits - Cardinality(D) ELSE Cardinality(D)
    <2>1. CASE seed[b] = 0
      <3>1. O = D
          BY <1>1, <1>3, <2>1 DEF Differing
      <3> QED BY <2>1, <3>1
    <2>2. CASE seed[b] = 1
      <3>1. O \cup D = Block(b) /\ O \cap D = {}
          BY <1>1, <1>3, <2>2 DEF Differing
      <3> HIDE DEF D
      <3>2. Cardinality(Block(b)) = Cardinality(O) + Cardinality(D) - Cardinality({})
          BY <1>5, <3>1, FS_Union
      <3> QED BY <1>5, <2>2, <3>2, FS_EmptySet, Sizes
    <2> QED BY <1>2, <2>1, <2>2
  <1>7. BlockBits \in Nat /\ BlockBits % 2 = 1
      BY Sizes, SelfieAssumption
  <1> HIDE DEF D
  <1>8. majorityDecode(x)[b] = seed[b] <=> 2 * Cardinality(D) < BlockBits
    <2>1. \A n \in Nat : 2 * n # BlockBits
        BY <1>7
    <2> QED BY <1>2, <1>4, <1>5, <1>6, <1>7, <2>1
  <1> QED BY <1>8 DEF x, e, D

(* What a block of two templates' exclusive or has set is where they       *)
(* differ.                                                                 *)
LEMMA OnesOfXor ==
  ASSUME NEW t \in Templates, NEW u \in Templates, NEW b \in 0..(numBlocks - 1)
  PROVE  Ones(xorBytes(u, t), b) = Differing(t, u, b)
  <1>1. \A i \in Block(b) : i \in 0..(templateBits - 1)
    <2> TAKE i \in Block(b)
    <2>1. i \in 0..(usedBits - 1)
        BY Blocks
    <2> QED BY <2>1, Sizes
  <1>2. /\ DOMAIN t = 0..(templateBits - 1) /\ DOMAIN u = 0..(templateBits - 1)
        /\ \A i \in 0..(templateBits - 1) : t[i] \in {0, 1} /\ u[i] \in {0, 1}
      BY DEF Templates, BitStrings
  <1>3. \A i \in Block(b) : xorBytes(u, t)[i] = (u[i] + t[i]) % 2
      BY <1>1, <1>2 DEF xorBytes
  <1>4. \A i \in Block(b) : xorBytes(u, t)[i] = 1 <=> t[i] # u[i]
    <2> TAKE i \in Block(b)
    <2>1. t[i] \in {0, 1} /\ u[i] \in {0, 1} /\ xorBytes(u, t)[i] = (u[i] + t[i]) % 2
        BY <1>1, <1>2, <1>3
    <2> QED BY <2>1
  <1> QED BY <1>4 DEF Ones, Block, Differing

(* The padding of a seed is cleared, and so is that of what is decoded.    *)
LEMMA SeedsAreClear ==
  /\ \A random \in Seeds : /\ clearPaddingBits(random) \in Seeds
                           /\ \A b \in 0..(RoundUp(numBlocks) - 1) :
                                b >= numBlocks => clearPaddingBits(random)[b] = 0
  /\ \A x : /\ majorityDecode(x) \in Seeds
            /\ \A b \in 0..(RoundUp(numBlocks) - 1) : b >= numBlocks => majorityDecode(x)[b] = 0
  <1>1. ASSUME NEW random \in Seeds
        PROVE  /\ clearPaddingBits(random) \in Seeds
               /\ \A b \in 0..(RoundUp(numBlocks) - 1) :
                    b >= numBlocks => clearPaddingBits(random)[b] = 0
      BY Sizes DEF clearPaddingBits, Seeds, BitStrings
  <1>2. ASSUME NEW x
        PROVE  /\ majorityDecode(x) \in Seeds
               /\ \A b \in 0..(RoundUp(numBlocks) - 1) : b >= numBlocks => majorityDecode(x)[b] = 0
      BY Sizes DEF majorityDecode, Seeds, BitStrings
  <1> QED BY <1>1, <1>2

(* The extractor is right: a reading matches a record exactly when it and  *)
(* the template that was enrolled are one face.                            *)
THEOREM MatchesIsOneFace ==
  ASSUME NEW t \in Templates, NEW u \in Templates, NEW random \in Seeds
  PROVE  Matches(t, Gen(u, random)) <=> OneFace(u, t)
  <1> DEFINE seed == clearPaddingBits(random)
             e == expandSeed(seed)
             x == xorBytes(t, xorBytes(u, e))
             guess == majorityDecode(x)
             Bits == 0..(RoundUp(usedBits) - 1)
             far == Cardinality({i \in Bits : u[i] # t[i]})
  <1>1. seed \in Seeds /\ guess \in Seeds
      BY SeedsAreClear
  <1>2. /\ e \in Helpers /\ x \in Helpers
        /\ \A i \in Bits : x[i] = e[i] <=> t[i] = u[i]
      BY <1>1, Residual
  <1>3. Matches(t, Gen(u, random)) <=> (hammingDistance(x, expandSeed(guess)) <= MaxResidualBits
                                          /\ guess = seed)
    <2>1. seed # NoneSelfie
        BY <1>1, DeploymentsAssumption DEF Seeds
    <2>2. Matches(t, Gen(u, random)) <=>
            (IF hammingDistance(x, expandSeed(guess)) > MaxResidualBits THEN NoneSelfie ELSE guess) = seed
        BY DEF Matches, Gen, Rep, commitmentFromSeed
    <2> HIDE DEF seed, guess, x
    <2>3. hammingDistance(x, expandSeed(guess)) \in Int /\ MaxResidualBits \in Int
      <3>1. MaxResidualBits \in Int
          BY Sizes DEF MaxResidualBits
      <3>2. DOMAIN x = Bits
          BY <1>2 DEF Helpers, BitStrings
      <3>3. IsFiniteSet(Bits)
          BY Sizes, FS_Interval
      <3> DEFINE W == {i \in Bits : x[i] # expandSeed(guess)[i]}
      <3>4. IsFiniteSet(W) /\ Cardinality(W) \in Nat
        <4>1. W \subseteq Bits
            OBVIOUS
        <4> HIDE DEF W
        <4> QED BY <4>1, <3>3, FS_Subset, FS_CardinalityType
      <3>5. hammingDistance(x, expandSeed(guess)) = Cardinality(W)
          BY <3>2 DEF hammingDistance
      <3> QED BY <3>1, <3>4, <3>5
    <2> QED BY <2>1, <2>2, <2>3
  <1>4. guess = seed => hammingDistance(x, expandSeed(guess)) = far
    <2> SUFFICES ASSUME guess = seed PROVE hammingDistance(x, e) = far
        OBVIOUS
    <2>1. DOMAIN x = Bits
        BY <1>2 DEF Helpers, BitStrings
    <2> HIDE DEF x, e
    <2>2. {i \in Bits : x[i] # e[i]} = {i \in Bits : u[i] # t[i]}
        BY <1>2
    <2> QED BY <2>1, <2>2 DEF hammingDistance
  <1>5. guess = seed <=> \A b \in 0..(numBlocks - 1) : 2 * Cardinality(Differing(t, u, b)) < BlockBits
    <2>1. \A b \in 0..(numBlocks - 1) :
            guess[b] = seed[b] <=> 2 * Cardinality(Differing(t, u, b)) < BlockBits
        BY <1>1, Decoded
    <2>2. guess = seed <=> \A b \in 0..(numBlocks - 1) : guess[b] = seed[b]
      <3>1. \A b \in 0..(RoundUp(numBlocks) - 1) : b >= numBlocks => guess[b] = 0 /\ seed[b] = 0
          BY SeedsAreClear
      <3> HIDE DEF guess, seed
      <3>2. ASSUME \A b \in 0..(numBlocks - 1) : guess[b] = seed[b]
            PROVE  \A b \in 0..(RoundUp(numBlocks) - 1) : guess[b] = seed[b]
          BY <3>1, <3>2, Sizes
      <3>3. /\ guess = [b \in 0..(RoundUp(numBlocks) - 1) |-> guess[b]]
            /\ seed = [b \in 0..(RoundUp(numBlocks) - 1) |-> seed[b]]
          BY <1>1 DEF Seeds, BitStrings
      <3> QED BY <3>2, <3>3
    <2> HIDE DEF guess, seed
    <2> QED BY <2>1, <2>2
  <1>6. OneFace(u, t) <=> /\ \A b \in 0..(numBlocks - 1) : 2 * Cardinality(Differing(t, u, b)) < BlockBits
                          /\ far <= MaxResidualBits
    <2>1. \A b \in 0..(numBlocks - 1) : Ones(xorBytes(u, t), b) = Differing(t, u, b)
        BY OnesOfXor
    <2> QED BY <2>1 DEF OneFace
  <1> HIDE DEF seed, guess, x, far
  <1> QED BY <1>3, <1>4, <1>5, <1>6

(* Being one face does not depend on which of the two came first.          *)
LEMMA OneFaceSymmetric ==
  ASSUME NEW t \in Templates, NEW u \in Templates
  PROVE  OneFace(u, t) <=> OneFace(t, u)
  <1>1. \A b \in 0..(numBlocks - 1) : Ones(xorBytes(u, t), b) = Ones(xorBytes(t, u), b)
    <2> TAKE b \in 0..(numBlocks - 1)
    <2>1. Differing(t, u, b) = Differing(u, t, b)
        BY DEF Differing
    <2> QED BY <2>1, OnesOfXor
  <1>2. {i \in 0..(RoundUp(usedBits) - 1) : u[i] # t[i]} = {i \in 0..(RoundUp(usedBits) - 1) : t[i] # u[i]}
      OBVIOUS
  <1> QED BY <1>1, <1>2 DEF OneFace

-----------------------------------------------------------------------------
(* Enrollment under its mutex (Selfie).                                    *)

Records == {Gen(u, random) : u \in Deploy.readings, random \in Seeds}

CallFields == {"at", "session", "method", "template", "order", "checked"}

Adding(c) == enrollCall[c] # NoneSelfie /\ enrollCall[c].at = "add"

(* The call at its second step is the one that holds the mutex, and a      *)
(* record is what Gen makes of a template.                                 *)
SelfieShape ==
  /\ setup \in DOMAIN SelfieDeployments
  /\ DOMAIN enrollCall = SelfieCalls
  /\ \A c \in SelfieCalls : enrollCall[c] # NoneSelfie =>
       /\ DOMAIN enrollCall[c] = CallFields
       /\ enrollCall[c].at \in {"find", "add"} /\ enrollCall[c].template \in Deploy.readings
  /\ \A c \in SelfieCalls : Adding(c) => enrollMu = c
  /\ enrolled \in Seq(Records)

(* The steps of the calls that enter, at the deployment that runs.         *)
Enter(c) == \E s \in Deploy.sessions : CompleteWeb(c, s) \/ CompleteNative(c, s)

(* Steps that leave the calls and the set of faces alone.                  *)
Elsewhere == UNCHANGED <<setup, enrollCall, enrollMu, enrolled>>

LEMMA StepsOfSelfie ==
  ASSUME SelfieNext
  PROVE  \/ Elsewhere
         \/ \E c \in SelfieCalls : Enter(c) \/ FindFace(c) \/ AddSelfie(c)
         \/ SelfieRestart
  <1>1. ASSUME NEW s, NEW order, BeginSelfie(s, order) PROVE Elsewhere
      BY <1>1 DEF BeginSelfie, Elsewhere
  <1>2. ASSUME NEW s, NEW t, NEW token, NEW other, NEW template,
               RunNative(s, token, attestationChallenge(t, other), template)
        PROVE Elsewhere
      BY <1>2 DEF RunNative, Elsewhere
  <1>3. ASSUME SelfieTick PROVE Elsewhere
      BY <1>3 DEF SelfieTick, Elsewhere
  <1> QED BY <1>1, <1>2, <1>3 DEF SelfieNext, Enter

(* A call enters at its first step, with a reading of the deployment.      *)
LEMMA Entered ==
  ASSUME NEW c \in SelfieCalls, Enter(c)
  PROVE  /\ enrollCall[c] = NoneSelfie
         /\ \E s, method, order : \E template \in Deploy.readings :
              enrollCall' = [enrollCall EXCEPT ![c] =
                [at |-> "find", session |-> s, method |-> method, template |-> template,
                 order |-> order, checked |-> selfieTime]]
         /\ UNCHANGED <<setup, enrollMu, enrolled>>
  <1>1. PICK s \in Deploy.sessions : CompleteWeb(c, s) \/ CompleteNative(c, s)
      BY DEF Enter
  <1>2. CASE CompleteWeb(c, s)
      BY <1>2, ZenonT(60) DEF CompleteWeb, Enters
  <1>3. CASE CompleteNative(c, s)
      BY <1>3 DEF CompleteNative, Enters
  <1> QED BY <1>1, <1>2, <1>3

(* What the two steps of enroll do.                                        *)
LEMMA Found ==
  ASSUME NEW c \in SelfieCalls, FindFace(c)
  PROVE  /\ enrollCall[c] # NoneSelfie /\ enrollMu = NoneSelfie
         /\ UNCHANGED <<setup, enrolled>>
         /\ \/ Ends(c) /\ enrollMu' = NoneSelfie
            \/ /\ \A i \in DOMAIN enrolled : ~Matches(enrollCall[c].template, enrolled[i])
               /\ enrollCall' = [enrollCall EXCEPT ![c].at = "add"]
               /\ enrollMu' = c
  BY DEF FindFace, MutexFree, MutexFreed

LEMMA Added ==
  ASSUME NEW c \in SelfieCalls, AddSelfie(c)
  PROVE  /\ Adding(c) /\ Ends(c) /\ enrollMu' = NoneSelfie /\ setup' = setup
         /\ \/ enrolled' = enrolled
            \/ \E random \in Seeds :
                 LET rec == Gen(enrollCall[c].template, random)
                 IN Creates(rec) /\ enrolled' = Append(enrolled, rec)
  <1>1. Adding(c) /\ Ends(c) /\ enrollMu' = NoneSelfie /\ setup' = setup
      BY DEF AddSelfie, Adding
  <1>2. PICK random \in Seeds :
          LET rec == Gen(enrollCall[c].template, random)
          IN \/ Creates(rec) /\ enrolled' = Append(enrolled, rec)
             \/ enrolled' \in {enrolled} \cup {Append(enrolled, r) : r \in {x \in {rec} : Creates(x)}}
      BY DEF AddSelfie, Seeds
  <1> QED BY <1>1, <1>2

LEMMA SelfieShapeStep == SelfieShape /\ [SelfieNext]_selfieVars => SelfieShape'
  <1> SUFFICES ASSUME SelfieShape, [SelfieNext]_selfieVars PROVE SelfieShape'
      OBVIOUS
  <1>1. CASE Elsewhere
      BY <1>1 DEF Elsewhere, SelfieShape, Adding, Deploy, Records
  <1>2. ASSUME NEW c \in SelfieCalls, Enter(c) PROVE SelfieShape'
    <2>1. PICK s, method, order : \E template \in Deploy.readings :
            enrollCall' = [enrollCall EXCEPT ![c] =
              [at |-> "find", session |-> s, method |-> method, template |-> template,
               order |-> order, checked |-> selfieTime]]
        BY <1>2, Entered
    <2>2. enrollCall[c] = NoneSelfie /\ UNCHANGED <<setup, enrollMu, enrolled>>
        BY <1>2, Entered
    <2>3. /\ DOMAIN enrollCall'[c] = CallFields /\ enrollCall'[c].at = "find"
          /\ enrollCall'[c].template \in Deploy.readings
          /\ \A d \in SelfieCalls \ {c} : enrollCall'[d] = enrollCall[d]
          /\ DOMAIN enrollCall' = SelfieCalls
        BY <2>1 DEF SelfieShape, CallFields
    <2> QED BY <2>2, <2>3 DEF SelfieShape, Adding, Deploy, Records
  <1>3. ASSUME NEW c \in SelfieCalls, FindFace(c) PROVE SelfieShape'
    <2>1. enrollCall[c] # NoneSelfie /\ enrollMu = NoneSelfie /\ UNCHANGED <<setup, enrolled>>
        BY <1>3, Found
    <2>2. CASE Ends(c) /\ enrollMu' = NoneSelfie
        BY <2>1, <2>2 DEF SelfieShape, Adding, Deploy, Records, Ends
    <2>3. CASE enrollCall' = [enrollCall EXCEPT ![c].at = "add"] /\ enrollMu' = c
      <3>1. \A d \in SelfieCalls : ~Adding(d)
          BY <2>1, DeploymentsAssumption DEF SelfieShape
      <3>2. /\ enrollCall'[c] = [enrollCall[c] EXCEPT !.at = "add"]
            /\ DOMAIN enrollCall' = SelfieCalls
            /\ \A d \in SelfieCalls \ {c} : enrollCall'[d] = enrollCall[d]
          BY <2>3 DEF SelfieShape
      <3>3. /\ DOMAIN enrollCall'[c] = CallFields /\ enrollCall'[c].at = "add"
            /\ enrollCall'[c].template = enrollCall[c].template
          BY <2>1, <3>2 DEF SelfieShape, CallFields
      <3> QED BY <2>1, <2>3, <3>1, <3>2, <3>3 DEF SelfieShape, Adding, Deploy, Records
    <2> QED BY <1>3, Found, <2>2, <2>3
  <1>4. ASSUME NEW c \in SelfieCalls, AddSelfie(c) PROVE SelfieShape'
    <2>1. Adding(c) /\ Ends(c) /\ enrollMu' = NoneSelfie /\ setup' = setup
        BY <1>4, Added
    <2>2. \A d \in SelfieCalls : ~Adding(d)'
        BY <2>1 DEF SelfieShape, Adding, Ends
    <2>3. enrolled' \in Seq(Records)
      <3>1. \A random \in Seeds : Gen(enrollCall[c].template, random) \in Records
          BY <2>1 DEF SelfieShape, Adding, Records
      <3> QED BY <1>4, <3>1, Added DEF SelfieShape
    <2> QED BY <2>1, <2>2, <2>3 DEF SelfieShape, Deploy, Records, Ends
  <1>5. CASE SelfieRestart
      BY <1>5 DEF SelfieRestart, SelfieShape, Adding, Deploy, Records
  <1>6. CASE UNCHANGED selfieVars
      BY <1>1, <1>6 DEF selfieVars, Elsewhere
  <1> QED BY <1>1, <1>2, <1>3, <1>4, <1>5, <1>6, StepsOfSelfie

(* No two records are of one face, and none is of the face that a call     *)
(* holding the mutex is about to add.                                      *)
FacesApart ==
  /\ FaceEnrolledOnce
  /\ \A c \in SelfieCalls : Adding(c) =>
       \A i \in DOMAIN enrolled : ~OneFace(enrolled[i].of, enrollCall[c].template)
  /\ CreatedCommitmentsDiffer

LEMMA RecordsFound ==
  ASSUME SelfieShape
  PROVE  /\ \A t \in Deploy.readings : t \in Templates
         /\ \A i \in DOMAIN enrolled : enrolled[i].of \in Deploy.readings
         /\ FoundIffOneFace
  <1>1. \A t \in Deploy.readings : t \in Templates
      BY DeploymentsAssumption DEF SelfieShape, Deploy
  <1>2. \A i \in DOMAIN enrolled : \E u \in Deploy.readings : \E random \in Seeds :
          enrolled[i] = Gen(u, random) /\ enrolled[i].of = u
      BY DEF SelfieShape, Records, Gen
  <1>3. \A i \in DOMAIN enrolled : \A t \in Deploy.readings :
          Matches(t, enrolled[i]) <=> OneFace(enrolled[i].of, t)
      BY <1>1, <1>2, MatchesIsOneFace
  <1> QED BY <1>1, <1>2, <1>3 DEF FoundIffOneFace

LEMMA FacesApartStep ==
  SelfieShape /\ FacesApart /\ [SelfieNext]_selfieVars => FacesApart'
  <1> SUFFICES ASSUME SelfieShape, FacesApart, [SelfieNext]_selfieVars PROVE FacesApart'
      OBVIOUS
  <1>0. ASSUME UNCHANGED <<setup, enrolled>>
        PROVE  FaceEnrolledOnce' /\ CreatedCommitmentsDiffer'
    <2>1. FaceEnrolledOnce /\ CreatedCommitmentsDiffer
        BY DEF FacesApart
    <2> QED BY <1>0, <2>1 DEF FaceEnrolledOnce, CreatedCommitmentsDiffer, CommitmentsDiffer, Deploy
  <1>1. CASE Elsewhere
      BY <1>0, <1>1 DEF Elsewhere, FacesApart, Adding
  <1>2. ASSUME NEW c \in SelfieCalls, Enter(c) PROVE FacesApart'
    <2>1. PICK s, method, order : \E template \in Deploy.readings :
            enrollCall' = [enrollCall EXCEPT ![c] =
              [at |-> "find", session |-> s, method |-> method, template |-> template,
               order |-> order, checked |-> selfieTime]]
        BY <1>2, Entered
    <2>2. UNCHANGED <<setup, enrollMu, enrolled>>
        BY <1>2, Entered
    <2> QED BY <1>0, <2>1, <2>2 DEF FacesApart, Adding, SelfieShape
  <1>3. ASSUME NEW c \in SelfieCalls, FindFace(c) PROVE FacesApart'
    <2>1. enrollCall[c] # NoneSelfie /\ enrollMu = NoneSelfie /\ UNCHANGED <<setup, enrolled>>
        BY <1>3, Found
    <2>2. CASE Ends(c)
        BY <1>0, <2>1, <2>2 DEF FacesApart, Adding, Ends, SelfieShape
    <2>3. CASE /\ \A i \in DOMAIN enrolled : ~Matches(enrollCall[c].template, enrolled[i])
               /\ enrollCall' = [enrollCall EXCEPT ![c].at = "add"]
      <3>1. enrollCall[c].template \in Deploy.readings
          BY <2>1 DEF SelfieShape
      <3>2. \A i \in DOMAIN enrolled : ~OneFace(enrolled[i].of, enrollCall[c].template)
          BY <2>3, <3>1, RecordsFound DEF FoundIffOneFace
      <3>3. enrollCall'[c].template = enrollCall[c].template
            /\ \A d \in SelfieCalls \ {c} : enrollCall'[d] = enrollCall[d]
          BY <2>3 DEF SelfieShape
      <3> QED BY <1>0, <2>1, <3>2, <3>3 DEF FacesApart, Adding
    <2> QED BY <1>3, Found, <2>2, <2>3
  <1>4. ASSUME NEW c \in SelfieCalls, AddSelfie(c) PROVE FacesApart'
    <2>1. Adding(c) /\ Ends(c) /\ enrollMu' = NoneSelfie /\ setup' = setup
        BY <1>4, Added
    <2>2. \A d \in SelfieCalls : ~Adding(d)'
        BY <2>1 DEF SelfieShape, Adding, Ends
    <2>3. CASE enrolled' = enrolled
        BY <1>0, <2>1, <2>2, <2>3 DEF FacesApart
    <2>4. ASSUME NEW random \in Seeds,
                 Creates(Gen(enrollCall[c].template, random)),
                 enrolled' = Append(enrolled, Gen(enrollCall[c].template, random))
          PROVE  FacesApart'
      <3> DEFINE rec == Gen(enrollCall[c].template, random)
                 n == Len(enrolled)
      <3>1. rec.of = enrollCall[c].template /\ rec.of \in Deploy.readings
          BY <2>1 DEF Gen, SelfieShape, Adding
      <3>2. Creates(rec) /\ enrolled' = Append(enrolled, rec)
          BY <2>4
      <3> HIDE DEF rec
      <3>3. /\ n \in Nat /\ DOMAIN enrolled = 1..n /\ DOMAIN enrolled' = 1..(n + 1)
            /\ enrolled'[n + 1] = rec /\ \A i \in 1..n : enrolled'[i] = enrolled[i]
          BY <3>2 DEF SelfieShape
      <3>4. \A i \in 1..n : ~OneFace(enrolled[i].of, rec.of) /\ ~OneFace(rec.of, enrolled[i].of)
        <4>1. \A i \in 1..n : enrolled[i].of \in Templates /\ rec.of \in Templates
            BY <3>1, <3>3, RecordsFound
        <4> QED BY <2>1, <3>1, <3>3, <4>1, OneFaceSymmetric DEF FacesApart
      <3>5. FaceEnrolledOnce'
        <4>1. \A i, j \in 1..(n + 1) : i # j => ~OneFace(enrolled'[i].of, enrolled'[j].of)
          <5>1. \A i \in 1..(n + 1) : i \in 1..n \/ i = n + 1
              BY <3>3
          <5>2. \A i, j \in 1..n : i # j => ~OneFace(enrolled[i].of, enrolled[j].of)
              BY <3>3 DEF FacesApart, FaceEnrolledOnce
          <5> QED BY <3>3, <3>4, <5>1, <5>2
        <4> QED BY <3>3, <4>1 DEF FaceEnrolledOnce
      <3>6. CreatedCommitmentsDiffer'
        <4> SUFFICES ASSUME Deploy.store = "firestore"
                     PROVE  \A i, j \in 1..(n + 1) :
                              i # j => enrolled'[i].commitment # enrolled'[j].commitment
            BY <2>1, <3>3 DEF CreatedCommitmentsDiffer, CommitmentsDiffer, Deploy
        <4>1. \A i \in 1..(n + 1) : i \in 1..n \/ i = n + 1
            BY <3>3
        <4>2. \A i, j \in 1..n : i # j => enrolled[i].commitment # enrolled[j].commitment
            BY <3>3 DEF FacesApart, CreatedCommitmentsDiffer, CommitmentsDiffer
        <4>3. \A i \in 1..n : enrolled[i].commitment # rec.commitment
            BY <3>2, <3>3 DEF Creates
        <4> QED BY <3>3, <4>1, <4>2, <4>3
      <3> QED BY <2>2, <3>5, <3>6 DEF FacesApart
    <2> QED BY <1>4, Added, <2>3, <2>4
  <1>5. CASE SelfieRestart
    <2>1. CASE enrolled' = enrolled
        BY <1>0, <1>5, <2>1 DEF SelfieRestart, FacesApart, Adding
    <2>2. CASE enrolled' = <<>>
        BY <1>5, <2>2 DEF SelfieRestart, FacesApart, Adding, FaceEnrolledOnce,
                          CreatedCommitmentsDiffer, CommitmentsDiffer
    <2> QED BY <1>5, <2>1, <2>2 DEF SelfieRestart
  <1>6. CASE UNCHANGED selfieVars
      BY <1>1, <1>6 DEF selfieVars, Elsewhere
  <1> QED BY <1>1, <1>2, <1>3, <1>4, <1>5, <1>6, StepsOfSelfie

LEMMA SelfieInitial == SelfieInit => SelfieShape /\ FacesApart
  BY DEF SelfieInit, SelfieShape, FacesApart, FaceEnrolledOnce, Adding,
         CreatedCommitmentsDiffer, CommitmentsDiffer

(* For any templates, sizes, seeds, sessions, calls, failures and          *)
(* restarts: a reading finds the records of its face and no others, no     *)
(* face is enrolled twice, and a store that creates keeps commitments      *)
(* apart (Rep, enroll, enrollMu).                                          *)
THEOREM FaceFoundOnceHolds == SelfieSpec => []FaceFoundOnce
  <1>1. SelfieShape /\ FacesApart => FaceFoundOnce
      BY RecordsFound DEF FacesApart, FaceFoundOnce
  <1> QED BY SelfieInitial, SelfieShapeStep, FacesApartStep, <1>1, PTL DEF SelfieSpec

(* The calls have their type, and the mutex is held by one at its second   *)
(* step.                                                                   *)
SelfieTyped ==
  /\ setup \in DOMAIN SelfieDeployments /\ selfieTime \in Nat
  /\ enrollCall \in [SelfieCalls -> EnrollCalls \cup {NoneSelfie}]
  /\ enrollMu # NoneSelfie => enrollMu \in SelfieCalls /\ Adding(enrollMu)

LEMMA SelfieTypedStep == SelfieTyped /\ [SelfieNext]_selfieVars => SelfieTyped'
  <1> SUFFICES ASSUME SelfieTyped, [SelfieNext]_selfieVars PROVE SelfieTyped'
      OBVIOUS
  <1>1. CASE UNCHANGED <<setup, enrollCall, enrollMu>> /\ (UNCHANGED selfieTime \/ SelfieTick)
      BY <1>1 DEF SelfieTick, SelfieTyped, Adding
  <1>2. ASSUME NEW c \in SelfieCalls, NEW s \in Deploy.sessions, CompleteWeb(c, s) \/ CompleteNative(c, s)
        PROVE  SelfieTyped'
    <2>1. enrollCall[c] = NoneSelfie /\ UNCHANGED <<setup, selfieTime, enrollMu>>
        BY <1>2 DEF CompleteWeb, CompleteNative
    <2>2. PICK method \in {"web", "native"}, template \in Deploy.readings, order \in Orders :
            Enters(c, s, method, template, order)
        BY <1>2 DEF CompleteWeb, CompleteNative
    <2>3. template \in Templates
        BY DeploymentsAssumption DEF SelfieTyped, Deploy
    <2>4. s \in UNION {SelfieDeployments[d].sessions : d \in DOMAIN SelfieDeployments}
        BY DEF SelfieTyped, Deploy
    <2>5. [at |-> "find", session |-> s, method |-> method, template |-> template, order |-> order,
           checked |-> selfieTime] \in EnrollCalls
        BY <2>3, <2>4 DEF SelfieTyped, EnrollCalls
    <2>6. enrollCall' \in [SelfieCalls -> EnrollCalls \cup {NoneSelfie}]
          /\ \A d \in SelfieCalls \ {c} : enrollCall'[d] = enrollCall[d]
        BY <2>2, <2>5 DEF Enters, SelfieTyped
    <2> QED BY <2>1, <2>6 DEF SelfieTyped, Adding
  <1>3. ASSUME NEW c \in SelfieCalls, FindFace(c) PROVE SelfieTyped'
    <2>1. enrollCall[c] \in EnrollCalls /\ enrollMu = NoneSelfie /\ UNCHANGED <<setup, selfieTime>>
        BY <1>3 DEF FindFace, MutexFree, SelfieTyped
    <2>2. CASE Ends(c) /\ enrollMu' = NoneSelfie
        BY <2>1, <2>2 DEF Ends, SelfieTyped
    <2>3. CASE enrollCall' = [enrollCall EXCEPT ![c].at = "add"] /\ enrollMu' = c
      <3>1. [enrollCall[c] EXCEPT !.at = "add"] \in EnrollCalls
            /\ [enrollCall[c] EXCEPT !.at = "add"].at = "add"
          BY <2>1 DEF EnrollCalls
      <3>2. enrollCall' \in [SelfieCalls -> EnrollCalls \cup {NoneSelfie}]
            /\ enrollCall'[c] = [enrollCall[c] EXCEPT !.at = "add"]
          BY <2>3, <3>1 DEF SelfieTyped
      <3> QED BY <2>1, <2>3, <3>1, <3>2, NoneSelfieIsNoCall DEF SelfieTyped, Adding
    <2> QED BY <1>3, <2>2, <2>3, Found
  <1>4. ASSUME NEW c \in SelfieCalls, AddSelfie(c) PROVE SelfieTyped'
    <2>1. Ends(c) /\ enrollMu' = NoneSelfie /\ UNCHANGED <<setup, selfieTime>>
        BY <1>4 DEF AddSelfie
    <2> QED BY <2>1 DEF Ends, SelfieTyped
  <1>5. CASE SelfieRestart
      BY <1>5 DEF SelfieRestart, SelfieTyped
  <1>6. ASSUME NEW s, NEW order, BeginSelfie(s, order) PROVE SelfieTyped'
      BY <1>1, <1>6 DEF BeginSelfie
  <1>7. ASSUME NEW s, NEW t, NEW token, NEW other, NEW template,
               RunNative(s, token, attestationChallenge(t, other), template)
        PROVE  SelfieTyped'
      BY <1>1, <1>7 DEF RunNative
  <1>8. CASE SelfieTick \/ UNCHANGED selfieVars
      BY <1>1, <1>8 DEF SelfieTick, selfieVars
  <1> QED BY <1>2, <1>3, <1>4, <1>5, <1>6, <1>7, <1>8 DEF SelfieNext

(* The calls of the enrollment and its mutex have their types, and every   *)
(* record stored is a commitment and a helper of whole bytes (Gen, enroll).*)
THEOREM SelfieTypes == SelfieSpec => []SelfieTypeOK
  <1>1. SelfieInit => SelfieTyped
      BY DEF SelfieInit, SelfieTyped
  <1>2. ASSUME NEW u \in Templates, NEW random \in Seeds
        PROVE  /\ Gen(u, random).commitment \in BitStrings(RoundUp(numBlocks))
               /\ Gen(u, random).helper \in BitStrings(RoundUp(usedBits))
    <2>1. clearPaddingBits(random) \in Seeds
        BY SeedsAreClear
    <2>2. xorBytes(u, expandSeed(clearPaddingBits(random))) \in Helpers
        BY <2>1, Residual
    <2> QED BY <2>1, <2>2 DEF Gen, commitmentFromSeed, Seeds, Helpers
  <1>3. SelfieShape /\ SelfieTyped => SelfieTypeOK
    <2> SUFFICES ASSUME SelfieShape, SelfieTyped PROVE SelfieTypeOK
        OBVIOUS
    <2>1. \A i \in DOMAIN enrolled : enrolled[i] \in Records
        BY DEF SelfieShape
    <2>2. \A u \in Deploy.readings : u \in Templates
        BY DeploymentsAssumption DEF SelfieShape, Deploy
    <2>3. \A i \in DOMAIN enrolled : /\ enrolled[i].commitment \in BitStrings(RoundUp(numBlocks))
                                     /\ enrolled[i].helper \in BitStrings(RoundUp(usedBits))
        BY <1>2, <2>1, <2>2 DEF Records
    <2> QED BY <2>3 DEF SelfieTypeOK, SelfieTyped, Adding
  <1> QED BY <1>1, <1>3, SelfieInitial, SelfieShapeStep, SelfieTypedStep, PTL DEF SelfieSpec

(* A call, and a result, stand for a ceremony that the session was given   *)
(* and, in the wallet, for a summary that a phone signed for it.           *)
Taken(r) ==
  \E x \in tokens : /\ x.to = r.session /\ x.token.body.order = r.order
                    /\ r.checked - x.token.body.at \in MinCeremony..MaxCeremony
Shown(r) ==
  r.method = "native" =>
    \E x \in signed : /\ x.sum.session = r.session /\ x.sum.template = r.template
                      /\ x.challenge = attestationChallenge(r.session, x.sum.token)

(* A token is bound by its MAC to the session that it was handed to.       *)
TokensBound ==
  /\ selfieTime \in Nat
  /\ \A x \in tokens : /\ x.token.body.at \in Nat
                       /\ x.token.mac.session = x.to /\ x.token.mac.body = x.token.body

Ceremonies ==
  /\ DOMAIN enrollCall = SelfieCalls
  /\ \A c \in SelfieCalls : enrollCall[c] # NoneSelfie =>
       DOMAIN enrollCall[c] = CallFields /\ Taken(enrollCall[c]) /\ Shown(enrollCall[c])
  /\ \A r \in selfieResults : Taken(r) /\ Shown(r)

(* What a session was given and what was signed is not taken back.         *)
LEMMA TakenStays ==
  ASSUME tokens \subseteq tokens', signed \subseteq signed', NEW r
  PROVE  (Taken(r) => \E x \in tokens' : /\ x.to = r.session /\ x.token.body.order = r.order
                                         /\ r.checked - x.token.body.at \in MinCeremony..MaxCeremony)
         /\ (Shown(r) => (r.method = "native" =>
               \E x \in signed' : /\ x.sum.session = r.session /\ x.sum.template = r.template
                                  /\ x.challenge = attestationChallenge(r.session, x.sum.token)))
  BY DEF Taken, Shown

(* Tokens and signatures only grow, and tokens stay bound.                 *)
LEMMA TokensBoundStep ==
  TokensBound /\ [SelfieNext]_selfieVars =>
    TokensBound' /\ tokens \subseteq tokens' /\ signed \subseteq signed'
  <1> SUFFICES ASSUME TokensBound, [SelfieNext]_selfieVars
               PROVE  TokensBound' /\ tokens \subseteq tokens' /\ signed \subseteq signed'
      OBVIOUS
  <1>1. ASSUME NEW s, NEW order, BeginSelfie(s, order)
        PROVE  TokensBound' /\ tokens \subseteq tokens' /\ signed \subseteq signed'
    <2> DEFINE x == [to |-> s, token |-> issueToken(s, order)]
    <2>1. /\ tokens' = tokens \cup {x} /\ UNCHANGED <<selfieTime, signed>>
        BY <1>1 DEF BeginSelfie
    <2>2. /\ x.token.body.at = selfieTime /\ x.to = s
          /\ x.token.mac.session = s /\ x.token.mac.body = x.token.body
        BY DEF issueToken, mac
    <2> HIDE DEF x
    <2> QED BY <2>1, <2>2 DEF TokensBound
  <1>2. ASSUME NEW s, NEW token, NEW ch, NEW template, RunNative(s, token, ch, template)
        PROVE  TokensBound' /\ tokens \subseteq tokens' /\ signed \subseteq signed'
      BY <1>2 DEF RunNative, TokensBound
  <1>3. ASSUME UNCHANGED <<tokens, signed, selfieTime>>
        PROVE  TokensBound' /\ tokens \subseteq tokens' /\ signed \subseteq signed'
      BY <1>3 DEF TokensBound
  <1>4. CASE SelfieTick
      BY <1>4 DEF SelfieTick, TokensBound
  <1>5. ASSUME NEW c, NEW s, CompleteWeb(c, s) \/ CompleteNative(c, s) \/ FindFace(c) \/ AddSelfie(c)
                             \/ SelfieRestart \/ UNCHANGED selfieVars
        PROVE  UNCHANGED <<tokens, signed, selfieTime>>
      BY <1>5 DEF CompleteWeb, CompleteNative, FindFace, AddSelfie, SelfieRestart, selfieVars
  <1> QED BY <1>1, <1>2, <1>3, <1>4, <1>5 DEF SelfieNext

(* A token that opens for a session was handed to it.                      *)
LEMMA LivenessIsTaken ==
  ASSUME TokensBound, NEW s, NEW token \in Seen, NEW order, NEW ev \in Evidence(order),
         checkLiveness(s, token, ev)
  PROVE  \E x \in tokens : /\ x.to = s /\ x.token.body.order = order
                           /\ selfieTime - x.token.body.at \in MinCeremony..MaxCeremony
  <1>1. PICK x \in tokens : x.token = token
      BY DEF Seen
  <1>2. token.mac = [key |-> liveKey, session |-> s, body |-> token.body]
      BY DEF checkLiveness, openToken, mac
  <1>3. x.to = s
      BY <1>1, <1>2 DEF TokensBound
  <1>4. token.body.order = order
      BY DEF checkLiveness, Evidence
  <1>5. selfieTime - token.body.at \in MinCeremony..MaxCeremony
    <2>1. MinCeremony \in Nat /\ MaxCeremony \in Nat
        BY SelfieAssumption
    <2>2. selfieTime \in Nat /\ token.body.at \in Nat
        BY <1>1 DEF TokensBound
    <2>3. selfieTime - token.body.at >= MinCeremony /\ selfieTime - token.body.at <= MaxCeremony
        BY DEF checkLiveness
    <2> QED BY <2>1, <2>2, <2>3
  <1> QED BY <1>1, <1>3, <1>4, <1>5

(* A call that enters has taken the ceremony, and shows what was signed.   *)
LEMMA EnteredTaken ==
  ASSUME TokensBound, NEW c \in SelfieCalls, Enter(c)
  PROVE  /\ \E r : /\ enrollCall' = [enrollCall EXCEPT ![c] = r]
                   /\ DOMAIN r = CallFields /\ Taken(r) /\ Shown(r)
         /\ UNCHANGED <<tokens, signed, selfieResults>>
  <1>1. PICK s \in Deploy.sessions : CompleteWeb(c, s) \/ CompleteNative(c, s)
      BY DEF Enter
  <1>2. CASE CompleteWeb(c, s)
    <2>1. PICK token \in Seen, order \in Orders :
            /\ \E ev \in Evidence(order) : checkLiveness(s, token, ev)
            /\ \E template \in Deploy.readings : Enters(c, s, "web", template, order)
        BY <1>2 DEF CompleteWeb
    <2>2. PICK template \in Deploy.readings : Enters(c, s, "web", template, order)
        BY <2>1
    <2> DEFINE r == [at |-> "find", session |-> s, method |-> "web", template |-> template,
                     order |-> order, checked |-> selfieTime]
    <2>3. enrollCall' = [enrollCall EXCEPT ![c] = r]
        BY <2>2 DEF Enters
    <2>4. /\ DOMAIN r = CallFields /\ r.session = s /\ r.order = order /\ r.checked = selfieTime
          /\ r.method # "native"
        BY DEF CallFields
    <2> HIDE DEF r
    <2>5. Taken(r) /\ Shown(r)
        BY <2>1, <2>4, LivenessIsTaken DEF Taken, Shown
    <2> QED BY <1>2, <2>3, <2>4, <2>5 DEF CompleteWeb
  <1>3. CASE CompleteNative(c, s)
    <2>1. PICK token \in Seen, template \in Deploy.readings, order \in Orders :
            /\ SignedSummary(attestationChallenge(s, token),
                             [session |-> s, token |-> token, template |-> template])
            /\ \E ev \in Evidence(order) : checkLiveness(s, token, ev)
            /\ Enters(c, s, "native", template, order)
        BY <1>3 DEF CompleteNative
    <2> DEFINE r == [at |-> "find", session |-> s, method |-> "native", template |-> template,
                     order |-> order, checked |-> selfieTime]
               sum == [session |-> s, token |-> token, template |-> template]
    <2>2. enrollCall' = [enrollCall EXCEPT ![c] = r]
        BY <2>1 DEF Enters
    <2>3. /\ DOMAIN r = CallFields /\ r.session = s /\ r.order = order /\ r.checked = selfieTime
          /\ r.template = template
        BY DEF CallFields
    <2>4. PICK x \in signed : x.challenge = attestationChallenge(s, token) /\ x.sum = sum
        BY <2>1 DEF SignedSummary
    <2>5. sum.session = s /\ sum.token = token /\ sum.template = template
        OBVIOUS
    <2> HIDE DEF r, sum
    <2>6. Taken(r)
        BY <2>1, <2>3, LivenessIsTaken DEF Taken
    <2>7. Shown(r)
        BY <2>3, <2>4, <2>5 DEF Shown
    <2> QED BY <1>3, <2>2, <2>3, <2>6, <2>7 DEF CompleteNative
  <1> QED BY <1>1, <1>2, <1>3

(* A result says what its call said.                                       *)
LEMMA AddedResult ==
  ASSUME NEW c \in SelfieCalls, AddSelfie(c)
  PROVE  /\ enrollCall[c] # NoneSelfie /\ Ends(c) /\ UNCHANGED <<tokens, signed>>
         /\ \A r \in selfieResults' : r \in selfieResults \/
              /\ r.session = enrollCall[c].session /\ r.method = enrollCall[c].method
              /\ r.template = enrollCall[c].template /\ r.order = enrollCall[c].order
              /\ r.checked = enrollCall[c].checked
  <1> DEFINE call == enrollCall[c]
             res == [session |-> call.session, method |-> call.method, template |-> call.template,
                     order |-> call.order, checked |-> call.checked]
  <1>1. selfieResults' = selfieResults \cup {res} \/ selfieResults' = selfieResults
      BY DEF AddSelfie
  <1>2. \A r : r = res => /\ r.session = call.session /\ r.method = call.method
                          /\ r.template = call.template /\ r.order = call.order
                          /\ r.checked = call.checked
      OBVIOUS
  <1> HIDE DEF res
  <1> QED BY <1>1, <1>2 DEF AddSelfie

LEMMA CeremoniesStep ==
  TokensBound /\ Ceremonies /\ [SelfieNext]_selfieVars => Ceremonies'
  <1> SUFFICES ASSUME TokensBound, Ceremonies, [SelfieNext]_selfieVars PROVE Ceremonies'
      OBVIOUS
  <1>1. tokens \subseteq tokens' /\ signed \subseteq signed'
      BY TokensBoundStep
  <1>2. \A r : (Taken(r) => Taken(r)') /\ (Shown(r) => Shown(r)')
      BY <1>1, TakenStays DEF Taken, Shown
  <1>3. ASSUME UNCHANGED <<enrollCall, selfieResults>> PROVE Ceremonies'
      BY <1>2, <1>3 DEF Ceremonies
  <1>4. ASSUME NEW c \in SelfieCalls, Enter(c) PROVE Ceremonies'
    <2>1. PICK r : enrollCall' = [enrollCall EXCEPT ![c] = r] /\ DOMAIN r = CallFields
                   /\ Taken(r) /\ Shown(r)
        BY <1>4, EnteredTaken
    <2>2. selfieResults' = selfieResults
        BY <1>4, EnteredTaken
    <2>3. \A d \in SelfieCalls : enrollCall'[d] = IF d = c THEN r ELSE enrollCall[d]
        BY <2>1 DEF Ceremonies
    <2>4. DOMAIN enrollCall' = SelfieCalls
        BY <2>1 DEF Ceremonies
    <2> QED BY <1>2, <2>1, <2>2, <2>3, <2>4 DEF Ceremonies
  <1>5. ASSUME NEW c \in SelfieCalls, FindFace(c) PROVE Ceremonies'
    <2>1. selfieResults' = selfieResults /\ enrollCall[c] # NoneSelfie
        BY <1>5 DEF FindFace
    <2>2. CASE Ends(c)
        BY <1>2, <2>1, <2>2 DEF Ceremonies, Ends
    <2>3. CASE enrollCall' = [enrollCall EXCEPT ![c].at = "add"]
      <3>1. enrollCall'[c] = [enrollCall[c] EXCEPT !.at = "add"]
          BY <2>3 DEF Ceremonies
      <3>2. DOMAIN enrollCall' = SelfieCalls /\ \A d \in SelfieCalls \ {c} : enrollCall'[d] = enrollCall[d]
          BY <2>3 DEF Ceremonies
      <3>3. /\ DOMAIN enrollCall'[c] = CallFields
            /\ \A f \in CallFields \ {"at"} : enrollCall'[c][f] = enrollCall[c][f]
          BY <2>1, <3>1 DEF Ceremonies
      <3>4. /\ enrollCall'[c].session = enrollCall[c].session
            /\ enrollCall'[c].method = enrollCall[c].method
            /\ enrollCall'[c].template = enrollCall[c].template
            /\ enrollCall'[c].order = enrollCall[c].order
            /\ enrollCall'[c].checked = enrollCall[c].checked
          BY <3>3 DEF CallFields
      <3>5. Taken(enrollCall[c]) /\ Shown(enrollCall[c])
          BY <2>1 DEF Ceremonies
      <3>6. Taken(enrollCall[c])' /\ Shown(enrollCall[c])'
          BY <1>1, <3>4, <3>5 DEF Taken, Shown
      <3> QED BY <1>2, <2>1, <3>2, <3>3, <3>6 DEF Ceremonies
    <2> QED BY <1>5, Found, <2>2, <2>3
  <1>6. ASSUME NEW c \in SelfieCalls, AddSelfie(c) PROVE Ceremonies'
    <2>1. \A r \in selfieResults' : Taken(r)' /\ Shown(r)'
      <3> TAKE r \in selfieResults'
      <3>1. CASE r \in selfieResults
          BY <1>2, <3>1 DEF Ceremonies
      <3>2. CASE /\ r.session = enrollCall[c].session /\ r.method = enrollCall[c].method
                 /\ r.template = enrollCall[c].template /\ r.order = enrollCall[c].order
                 /\ r.checked = enrollCall[c].checked
        <4>1. Taken(enrollCall[c]) /\ Shown(enrollCall[c])
            BY <1>6, AddedResult DEF Ceremonies
        <4> QED BY <1>1, <3>2, <4>1 DEF Taken, Shown
      <3> QED BY <1>6, <3>1, <3>2, AddedResult
    <2>2. Ends(c)
        BY <1>6, AddedResult
    <2> QED BY <1>2, <2>1, <2>2 DEF Ceremonies, Ends
  <1>7. CASE SelfieRestart
      BY <1>2, <1>7 DEF SelfieRestart, Ceremonies
  <1>8. ASSUME NEW s, NEW o, NEW token, NEW ch, NEW template,
               BeginSelfie(s, o) \/ RunNative(s, token, ch, template) \/ SelfieTick
                 \/ UNCHANGED selfieVars
        PROVE  UNCHANGED <<enrollCall, selfieResults>>
      BY <1>8 DEF BeginSelfie, RunNative, SelfieTick, selfieVars
  <1> QED BY <1>3, <1>4, <1>5, <1>6, <1>7, <1>8 DEF SelfieNext, Enter

(* For any sessions, tokens, clocks and restarts: a face is enrolled on    *)
(* challenges this session was given, within their time, and in the wallet *)
(* on a summary a phone signed for this session, although tokens and       *)
(* summaries of all sessions may be sent to any (openToken, checkLiveness, *)
(* verifyNative).                                                          *)
THEOREM CeremonyIsGenuineHolds == SelfieSpec => []CeremonyIsGenuine
  <1>1. SelfieInit => TokensBound /\ Ceremonies
      BY DEF SelfieInit, TokensBound, Ceremonies
  <1>2. Ceremonies => CeremonyIsGenuine
      BY DEF Ceremonies, CeremonyIsGenuine, CeremonyWasTaken, NativeIsAttested, Taken, Shown
  <1> QED BY <1>1, <1>2, TokensBoundStep, CeremoniesStep, PTL DEF SelfieSpec

-----------------------------------------------------------------------------
(* Device attestation (DeviceAttest).                                      *)

(* What the vendor's list is for: as fetched, until it is fetched again.   *)
ListInv ==
  /\ attTime \in Nat /\ fetchedAt \in Nat /\ lastAttempt \in Int
  /\ fetchedAt <= attTime /\ lastAttempt <= attTime
  /\ published \in [Serials -> Nat \cup {NoneAtt}]
  /\ \A x \in Serials : published[x] # NoneAtt => published[x] <= attTime
  /\ revoked = lastFetched /\ (revoked = NoneAtt \/ revoked \subseteq Serials)
  /\ revoked # NoneAtt => \A x \in Serials :
       published[x] # NoneAtt /\ x \notin revoked => published[x] >= fetchedAt
  /\ ~lastErr => (revoked # NoneAtt /\ lastAttempt = fetchedAt) \/ lastAttempt = 0 - RetryAfter

(* A nonce belongs to one session, and what was accepted keeps its proof.  *)
DeviceInv ==
  /\ attested \subseteq [device : Devices, nonce : AttNonces]
  /\ attChallenge \in [AttSessions -> AttNonces \cup {NoneAtt}]
  /\ handed \in [AttNonces -> AttSessions \cup {NoneAtt}]
  /\ \A s \in AttSessions : attChallenge[s] # NoneAtt => handed[attChallenge[s]] = s
  /\ accepted # NoneAtt => accepted.at \in Nat /\ accepted.at <= attTime
  /\ accepted # NoneAtt => accepted.nonce \in AttNonces /\ accepted.session \in AttSessions
  /\ DeviceIsGenuine

MaxWindow == IF ListMaxAge > RetryAfter THEN ListMaxAge ELSE RetryAfter

(* A chain that a keystore began is a sequence with the leaf in front.     *)
LEMMA KeystoreChainIs ==
  ASSUME DeviceInv, NEW a \in attested
  PROVE  LET T == {a.device.chain[i] : i \in DOMAIN a.device.chain} \cup {Leaf(a)}
         IN KeystoreChain(a) \in Seq(T) /\ Len(KeystoreChain(a)) \in Nat \ {0}
            /\ KeystoreChain(a)[1] = Leaf(a)
  <1> DEFINE back == a.device.chain
             front == <<Leaf(a)>>
             T == {back[i] : i \in DOMAIN back} \cup {Leaf(a)}
  <1>1. back \in Seq(T)
    <2>1. back \in Seq({back[i] : i \in DOMAIN back})
        BY AttAssumption DEF DeviceInv
    <2> QED BY <2>1, SeqMonotonic
  <1>2. front \in Seq(T) /\ Len(front) = 1 /\ front[1] = Leaf(a)
      OBVIOUS
  <1>3. KeystoreChain(a) = front \o back
      BY DEF KeystoreChain
  <1> HIDE DEF front, back, T
  <1>4. /\ Len(back) \in Nat /\ KeystoreChain(a) \in Seq(T)
        /\ Len(KeystoreChain(a)) = Len(front) + Len(back)
      BY <1>1, <1>2, <1>3, ConcatProperties, LenProperties
  <1>5. \A i \in 1..(Len(front) + Len(back)) :
          KeystoreChain(a)[i] = IF i <= Len(front) THEN front[i] ELSE back[i - Len(front)]
    <2>1. \A i \in 1..(Len(front) + Len(back)) :
            (front \o back)[i] = IF i <= Len(front) THEN front[i] ELSE back[i - Len(front)]
        BY <1>1, <1>2, ConcatProperties, Zenon
    <2> QED BY <1>3, <2>1, Zenon
  <1>6. 1 \in 1..(Len(front) + Len(back)) /\ 1 <= Len(front) /\ Len(KeystoreChain(a)) \in Nat \ {0}
      BY <1>2, <1>4
  <1>7. KeystoreChain(a)[1] = Leaf(a)
      BY <1>2, <1>5, <1>6
  <1> QED BY <1>4, <1>6, <1>7 DEF T, back

(* Only the leaf of a chain may have the extension, which the keystore     *)
(* writes: so no certificate stands in front of it.                        *)
LEMMA GenuineChain ==
  ASSUME DeviceInv, NEW chain \in Sendable, NEW nonce, ChainOK(chain, nonce)
  PROVE  \E a \in attested : /\ a.nonce = nonce /\ StateOK(a.device.state)
                             /\ chain = KeystoreChain(a)
  <1>1. ASSUME NEW a \in attested
        PROVE  /\ Leaf(a).ext = [challenge |-> a.nonce, state |-> a.device.state]
               /\ Leaf(a).ext # NoneAtt
      BY AttAssumption DEF Leaf, DeviceInv
  <1>2. ASSUME NEW a \in attested, chain = KeystoreChain(a)
        PROVE  a.nonce = nonce /\ StateOK(a.device.state)
    <2>1. chain[1] = Leaf(a)
        BY <1>2, KeystoreChainIs
    <2>2. chain[1].ext.challenge = nonce /\ StateOK(chain[1].ext.state)
        BY DEF ChainOK
    <2>3. Leaf(a).ext.challenge = a.nonce /\ Leaf(a).ext.state = a.device.state
      <3>1. Leaf(a).ext = [challenge |-> a.nonce, state |-> a.device.state]
          BY <1>1
      <3> QED BY <3>1
    <2> QED BY <2>1, <2>2, <2>3
  <1>3. ASSUME NEW a \in attested, NEW n \in AttNonces, chain = ExtendedChain(a, n)
        PROVE  FALSE
    <2> DEFINE front == <<SelfMadeLeaf(a, n)>>
               back == KeystoreChain(a)
               T == {a.device.chain[i] : i \in DOMAIN a.device.chain} \cup {Leaf(a)}
               U == T \cup {SelfMadeLeaf(a, n)}
    <2>1. back \in Seq(T) /\ Len(back) \in Nat \ {0} /\ back[1] = Leaf(a)
        BY KeystoreChainIs
    <2> HIDE DEF T, back
    <2>2. back \in Seq(U)
        BY <2>1, SeqMonotonic
    <2>3. front \in Seq(U) /\ Len(front) = 1
        OBVIOUS
    <2> HIDE DEF front, U
    <2>4. chain = front \o back
        BY <1>3 DEF ExtendedChain, front, back
    <2>5. chain \in Seq(U) /\ Len(chain) = Len(front) + Len(back)
        BY <2>2, <2>3, <2>4, ConcatProperties
    <2>6. \A i \in 1..(Len(front) + Len(back)) :
            chain[i] = IF i <= Len(front) THEN front[i] ELSE back[i - Len(front)]
        BY <2>2, <2>3, <2>4, ConcatProperties, Zenon
    <2>7. 2 \in 1..(Len(front) + Len(back)) /\ ~(2 <= Len(front)) /\ 2 - Len(front) = 1
        BY <2>1, <2>3
    <2>8. chain[2] = Leaf(a) /\ 2 \in DOMAIN chain
        BY <2>1, <2>5, <2>6, <2>7, LenProperties
    <2>9. \A i \in DOMAIN chain : chain[i].ext # NoneAtt <=> i = 1
        BY DEF ChainOK, OnlyLeafExtension
    <2>10. chain[2].ext # NoneAtt
        BY <1>1, <2>8
    <2> QED BY <2>8, <2>9, <2>10
  <1>4. \/ \E a \in attested : chain = KeystoreChain(a)
        \/ \E a \in attested, n \in AttNonces : chain = ExtendedChain(a, n)
      BY DEF Sendable
  <1> QED BY <1>2, <1>3, <1>4

(* A refresh takes over what is published now, or leaves the list alone.   *)
LEMMA Refreshed ==
  ASSUME ListInv, RefreshList, UNCHANGED <<attTime, published>>
  PROVE  ListInv'
  <1>1. CASE FreshList(attTime) \/ attTime - lastAttempt < RetryAfter
      BY <1>1 DEF RefreshList, ListInv
  <1>2. CASE /\ lastAttempt' = attTime /\ revoked' = Listed /\ fetchedAt' = attTime /\ lastErr' = FALSE
             /\ lastFetched' = Listed
    <2>1. Listed \subseteq Serials /\ Listed # NoneAtt
        BY AttAssumption DEF Listed
    <2>2. \A x \in Serials : published[x] # NoneAtt => x \in Listed
        BY DEF Listed
    <2> QED BY <1>2, <2>1, <2>2 DEF ListInv
  <1>3. CASE /\ lastAttempt' = attTime /\ revoked' = KeptList /\ fetchedAt' = fetchedAt /\ lastErr' = TRUE
             /\ lastFetched' = lastFetched
      BY <1>3 DEF KeptList, ListInv
  <1> QED BY <1>1, <1>2, <1>3 DEF RefreshList

(* Time goes on, the vendor lists a serial or takes it back.               *)
LEMMA ListStep == ListInv /\ [AttNext]_attVars => ListInv'
  <1> SUFFICES ASSUME ListInv, [AttNext]_attVars PROVE ListInv'
      OBVIOUS
  <1>1. ASSUME NEW s, NEW n, BeginAttest(s, n) PROVE ListInv'
      BY <1>1 DEF BeginAttest, ListInv
  <1>2. ASSUME NEW d, NEW n, Attest(d, n) PROVE ListInv'
      BY <1>2 DEF Attest, ListInv
  <1>3. ASSUME NEW s, NEW chain, CompleteAttest(s, chain) PROVE ListInv'
      BY <1>3, Refreshed DEF CompleteAttest
  <1>4. ASSUME NEW x \in Serials, Publish(x) PROVE ListInv'
    <2>1. /\ published' = [published EXCEPT ![x] = IF published[x] = NoneAtt THEN attTime ELSE NoneAtt]
          /\ UNCHANGED <<attTime, revoked, fetchedAt, lastAttempt, lastErr, lastFetched>>
        BY <1>4 DEF Publish
    <2>2. \A y \in Serials : published'[y] = IF y = x THEN (IF published[x] = NoneAtt THEN attTime ELSE NoneAtt)
                                             ELSE published[y]
        BY <2>1 DEF ListInv
    <2>3. published' \in [Serials -> Nat \cup {NoneAtt}]
        BY <2>1 DEF ListInv
    <2> QED BY <2>1, <2>2, <2>3 DEF ListInv
  <1>5. CASE AttRestart
    <2>1. 0 - RetryAfter \in Int /\ 0 - RetryAfter <= attTime
        BY AttBounds DEF ListInv
    <2> QED BY <1>5, <2>1 DEF AttRestart, ListInv
  <1>6. CASE AttTick
    <2>1. /\ attTime' = attTime + 1
          /\ UNCHANGED <<published, revoked, fetchedAt, lastAttempt, lastErr, lastFetched>>
        BY <1>6 DEF AttTick
    <2> QED BY <2>1 DEF ListInv
  <1>7. CASE UNCHANGED attVars
      BY <1>7 DEF attVars, ListInv
  <1> QED BY <1>1, <1>2, <1>3, <1>4, <1>5, <1>6, <1>7 DEF AttNext

(* What a list that is in use does not name was published within the       *)
(* window.                                                                 *)
LEMMA WithinWindow ==
  ASSUME ListInv, RefreshList, UNCHANGED <<attTime, published>>, ~lastErr',
         NEW x \in Serials, published[x] # NoneAtt, revoked' = NoneAtt \/ x \notin revoked'
  PROVE  attTime - published[x] < MaxWindow
  <1> USE AttBounds
  <1>0. /\ attTime \in Nat /\ published[x] \in Nat /\ fetchedAt \in Nat /\ lastAttempt \in Int
        /\ MaxWindow \in Nat \ {0} /\ ListMaxAge <= MaxWindow /\ RetryAfter <= MaxWindow
      BY DEF ListInv, MaxWindow
  <1>1. CASE FreshList(attTime)
    <2>1. revoked # NoneAtt /\ x \notin revoked /\ attTime - fetchedAt < ListMaxAge
        BY <1>1 DEF RefreshList, FreshList
    <2>2. published[x] >= fetchedAt
        BY <2>1 DEF ListInv
    <2> QED BY <1>0, <2>1, <2>2
  <1>2. CASE ~FreshList(attTime) /\ attTime - lastAttempt < RetryAfter
    <2>1. ~lastErr /\ revoked' = revoked
        BY <1>2 DEF RefreshList
    <2>2. revoked # NoneAtt /\ lastAttempt = fetchedAt
      <3>1. lastAttempt # 0 - RetryAfter
          BY <1>0, <1>2
      <3> QED BY <2>1, <3>1 DEF ListInv
    <2>3. published[x] >= fetchedAt
        BY <2>1, <2>2 DEF ListInv
    <2> QED BY <1>0, <1>2, <2>2, <2>3
  <1>3. CASE ~FreshList(attTime) /\ ~(attTime - lastAttempt < RetryAfter)
    <2>1. revoked' = Listed
        BY <1>3 DEF RefreshList
    <2>2. x \in Listed /\ Listed # NoneAtt
        BY AttAssumption DEF Listed
    <2> QED BY <2>1, <2>2
  <1> QED BY <1>1, <1>2, <1>3

(* Accepting is where all three parts come from.                           *)
LEMMA AcceptStep ==
  ASSUME ListInv, DeviceInv, NEW s \in AttSessions, NEW chain \in Sendable, CompleteAttest(s, chain)
  PROVE  DeviceInv'
  <1> DEFINE new == [session |-> s, nonce |-> attChallenge[s], chain |-> chain, at |-> attTime,
                     fetched |-> lastFetched', failed |-> lastErr']
  <1>1. /\ attChallenge[s] # NoneAtt /\ ChainOK(chain, attChallenge[s]) /\ RefreshList
        /\ accepted' = IF NotRevoked(chain) THEN new ELSE accepted
        /\ UNCHANGED <<mode, attChallenge, attested, published, attTime, handed>>
      BY DEF CompleteAttest
  <1>2. CASE ~NotRevoked(chain)
    <2>1. accepted' = accepted
        BY <1>1, <1>2
    <2> QED BY <1>1, <2>1 DEF DeviceInv, DeviceIsGenuine, GenuineDevice, FetchedListHolds,
                              ListedSerialsExpire
  <1>3. CASE NotRevoked(chain)
    <2>1. accepted' = new
        BY <1>1, <1>3
    <2>2. /\ new.session = s /\ new.nonce = attChallenge[s] /\ new.chain = chain
          /\ new.at = attTime /\ new.fetched = lastFetched' /\ new.failed = lastErr'
        OBVIOUS
    <2> HIDE DEF new
    <2>3. attChallenge[s] \in AttNonces /\ handed[attChallenge[s]] = s /\ attTime \in Nat
        BY <1>1 DEF DeviceInv, ListInv
    <2>4. GenuineDevice'
      <3>1. PICK a \in attested : /\ a.nonce = attChallenge[s] /\ StateOK(a.device.state)
                                  /\ chain = KeystoreChain(a)
          BY <1>1, GenuineChain
      <3> QED BY <1>1, <2>1, <2>2, <2>3, <3>1 DEF GenuineDevice
    <2>5. FetchedListHolds'
      <3>1. revoked' = lastFetched'
          BY <1>1, Refreshed DEF ListInv
      <3> QED BY <1>1, <1>3, <2>1, <2>2, <3>1 DEF FetchedListHolds, NotRevoked
    <2>6. ListedSerialsExpire'
      <3> SUFFICES ASSUME ~lastErr', NEW i \in DOMAIN chain, chain[i].serial \in Serials,
                          published[chain[i].serial] # NoneAtt
                   PROVE  attTime - published[chain[i].serial] < MaxWindow
          BY <1>1, <2>1, <2>2 DEF ListedSerialsExpire, MaxWindow
      <3>1. revoked' = NoneAtt \/ chain[i].serial \notin revoked'
          BY <1>3 DEF NotRevoked
      <3> QED BY <1>1, <3>1, WithinWindow
    <2> QED BY <1>1, <2>1, <2>2, <2>3, <2>4, <2>5, <2>6 DEF DeviceInv, DeviceIsGenuine
  <1> QED BY <1>2, <1>3

LEMMA DeviceStep == ListInv /\ DeviceInv /\ [AttNext]_attVars => DeviceInv'
  <1> SUFFICES ASSUME ListInv, DeviceInv, [AttNext]_attVars PROVE DeviceInv'
      OBVIOUS
  <1> USE DEF DeviceIsGenuine
  <1>1. ASSUME NEW s \in AttSessions, NEW n \in AttNonces, BeginAttest(s, n) PROVE DeviceInv'
    <2>1. /\ handed[n] = NoneAtt /\ handed' = [handed EXCEPT ![n] = s]
          /\ attChallenge' = [attChallenge EXCEPT ![s] = n]
          /\ UNCHANGED <<mode, attested, published, attTime, accepted>>
        BY <1>1 DEF BeginAttest, PutChallenge
    <2>2. s # NoneAtt /\ n # NoneAtt
        BY AttAssumption
    <2>3. /\ handed' \in [AttNonces -> AttSessions \cup {NoneAtt}]
          /\ attChallenge' \in [AttSessions -> AttNonces \cup {NoneAtt}]
        BY <2>1 DEF DeviceInv
    <2>4. \A t \in AttSessions : attChallenge'[t] # NoneAtt => handed'[attChallenge'[t]] = t
      <3> SUFFICES ASSUME NEW t \in AttSessions, attChallenge'[t] # NoneAtt
                   PROVE  handed'[attChallenge'[t]] = t
          OBVIOUS
      <3>1. CASE t = s
          BY <2>1, <3>1 DEF DeviceInv
      <3>2. CASE t # s
        <4>1. attChallenge'[t] = attChallenge[t] /\ handed[attChallenge[t]] = t
              /\ attChallenge[t] \in AttNonces /\ t # NoneAtt
            BY <2>1, <3>2, AttAssumption DEF DeviceInv
        <4>2. attChallenge[t] # n
            BY <2>1, <4>1
        <4> QED BY <2>1, <4>1, <4>2 DEF DeviceInv
      <3> QED BY <3>1, <3>2
    <2>5. GenuineDevice'
      <3>1. accepted # NoneAtt => /\ accepted.nonce \in AttNonces
                                  /\ handed[accepted.nonce] = accepted.session
                                  /\ accepted.session # NoneAtt
          BY AttAssumption DEF DeviceInv, GenuineDevice
      <3>2. accepted # NoneAtt => handed'[accepted.nonce] = accepted.session
          BY <2>1, <3>1 DEF DeviceInv
      <3> QED BY <2>1, <3>2 DEF DeviceInv, GenuineDevice
    <2> QED BY <2>1, <2>3, <2>4, <2>5 DEF DeviceInv, FetchedListHolds, ListedSerialsExpire
  <1>2. ASSUME NEW d \in Devices, NEW n \in AttNonces, Attest(d, n) PROVE DeviceInv'
    <2>1. /\ attested' = attested \cup {[device |-> d, nonce |-> n]}
          /\ UNCHANGED <<mode, attChallenge, published, attTime, handed, accepted>>
        BY <1>2 DEF Attest
    <2> QED BY <2>1 DEF DeviceInv, GenuineDevice, FetchedListHolds, ListedSerialsExpire
  <1>3. ASSUME NEW s \in AttSessions, NEW chain \in Sendable, CompleteAttest(s, chain) PROVE DeviceInv'
      BY <1>3, AcceptStep
  <1>4. ASSUME NEW x \in Serials, Publish(x) PROVE DeviceInv'
    <2>1. /\ published' = [published EXCEPT ![x] = IF published[x] = NoneAtt THEN attTime ELSE NoneAtt]
          /\ UNCHANGED <<mode, attChallenge, attested, attTime, handed, accepted>>
        BY <1>4 DEF Publish
    <2>2. ListedSerialsExpire'
      <3> SUFFICES ASSUME accepted # NoneAtt, ~accepted.failed, NEW i \in DOMAIN accepted.chain,
                          accepted.chain[i].serial \in Serials,
                          published'[accepted.chain[i].serial] # NoneAtt
                   PROVE  accepted.at - published'[accepted.chain[i].serial] < MaxWindow
          BY <2>1 DEF ListedSerialsExpire, MaxWindow
      <3> DEFINE y == accepted.chain[i].serial
      <3>1. MaxWindow \in Nat \ {0} /\ accepted.at \in Nat /\ accepted.at <= attTime /\ attTime \in Nat
          BY AttBounds DEF MaxWindow, DeviceInv, ListInv
      <3>2. CASE y = x
        <4>1. published'[y] = attTime
            BY <2>1, <3>2 DEF ListInv
        <4> HIDE DEF y
        <4>2. accepted.at - published'[y] < MaxWindow
            BY <3>1, <4>1
        <4> QED BY <4>2 DEF y
      <3>3. CASE y # x
        <4>1. published'[y] = published[y]
            BY <2>1, <3>3 DEF ListInv
        <4> QED BY <4>1 DEF DeviceInv, ListedSerialsExpire, MaxWindow
      <3> QED BY <3>2, <3>3
    <2> QED BY <2>1, <2>2 DEF DeviceInv, GenuineDevice, FetchedListHolds
  <1>5. CASE AttRestart
    <2>1. /\ attChallenge' = [t \in AttSessions |-> NoneAtt] /\ accepted' = NoneAtt
          /\ UNCHANGED <<mode, attested, published, attTime, handed>>
        BY <1>5 DEF AttRestart
    <2> QED BY <2>1 DEF DeviceInv, GenuineDevice, FetchedListHolds, ListedSerialsExpire
  <1>6. CASE AttTick
    <2>1. /\ attTime' = attTime + 1 /\ attTime \in Nat
          /\ UNCHANGED <<mode, attChallenge, attested, published, handed, accepted>>
        BY <1>6 DEF AttTick, ListInv
    <2> QED BY <2>1 DEF DeviceInv, GenuineDevice, FetchedListHolds, ListedSerialsExpire
  <1>7. CASE UNCHANGED attVars
      BY <1>7 DEF attVars, DeviceInv, GenuineDevice, FetchedListHolds, ListedSerialsExpire
  <1> QED BY <1>1, <1>2, <1>3, <1>4, <1>5, <1>6, <1>7 DEF AttNext

(* For any phones, chains, nonces, sessions and times: a device is         *)
(* accepted only on a certificate that a phone in good state made for the  *)
(* nonce of that very session, and a revoked serial no longer than the     *)
(* list is trusted (VerifyChain, StatusList.Check).                        *)
THEOREM DeviceIsGenuineHolds == AttSpec => []DeviceIsGenuine
  <1>1. AttInit => ListInv
      BY AttBounds DEF AttInit, ListInv
  <1>2. AttInit => DeviceInv
      BY DEF AttInit, DeviceInv, DeviceIsGenuine, GenuineDevice, FetchedListHolds, ListedSerialsExpire
  <1>3. DeviceInv => DeviceIsGenuine
      BY DEF DeviceInv
  <1> QED BY <1>1, <1>2, <1>3, ListStep, DeviceStep, PTL DEF AttSpec

(* The list, the challenges and the clock have their types.                *)
THEOREM AttTypes == AttSpec => []AttTypeOK
  <1> DEFINE Clock == mode \in {"fail-open", "fail-closed"} /\ attTime \in 0..MaxAttTime
  <1>1. AttInit => ListInv /\ DeviceInv /\ Clock
      BY AttBounds DEF AttInit, ListInv, DeviceInv, DeviceIsGenuine, GenuineDevice, FetchedListHolds,
                       ListedSerialsExpire
  <1>2. Clock /\ [AttNext]_attVars => Clock'
      BY AttBounds DEF AttNext, attVars, BeginAttest, Attest, CompleteAttest, Publish, AttRestart, AttTick
  <1>3. ListInv /\ DeviceInv /\ Clock => AttTypeOK
      BY DEF ListInv, DeviceInv, AttTypeOK
  <1> QED BY <1>1, <1>2, <1>3, ListStep, DeviceStep, PTL DEF AttSpec

-----------------------------------------------------------------------------
(* What an accepted credential is worth (CredentialCheck).                 *)

AllFields == CredentialFields \cup {"proof"}

(* A recorded method is one of the registry's, done before now.            *)
Recorded(m) ==
  /\ \E p \in registry : p.id = m.id /\ p.strength = m.strength /\ p.lifetime = m.lifetime
  /\ m.at \in Nat /\ m.at <= now

(* An anchor is the name of a method that is recorded and an anchor.       *)
AnchorIn(anchor, methods) ==
  anchor # None => TypeOf(anchor) = "anchor" /\ \E m \in methods : m.id = anchor

(* Everything issued is signed by the issuer over what it says.            *)
IssuedRight(c) ==
  /\ c = [f \in AllFields |-> c[f]]
  /\ c.proof = [key |-> "issuerKey", input |-> canonicalizeWithoutProof(c)]
  /\ c.expires = c.issued + Lifetime /\ c.issued \in Nat
  /\ \A m \in c.methods : Recorded(m) /\ m.at <= c.issued
  /\ AnchorIn(c.anchor, c.methods)

Worth(r) ==
  LET fresh == {m \in r.c.methods : FreshOnItsOwn(m, r.at)}
      supplementary == {m \in fresh : TypeOf(m.id) = "supplementary"}
      window(m) == IF r.p.anchorAge > 0 THEN r.p.anchorAge ELSE m.lifetime
  IN /\ \E some \in SUBSET supplementary : Points(some) >= r.p.points
     /\ r.p.anchor => \E m \in r.c.methods :
          TypeOf(m.id) = "anchor" /\ (window(m) = 0 \/ r.at <= m.at + window(m))
     /\ r.at - r.c.issued <= Lifetime
     /\ \A m \in r.c.methods : m.at <= r.c.issued

IssuedInv ==
  /\ scenario \in DOMAIN Scenarios /\ registry \in Registries(Setting.plugins) /\ now \in Nat
  /\ DOMAIN session = Sessions
  /\ \A s \in Sessions : /\ DOMAIN session[s] = {"methods", "anchor"}
                         /\ \A m \in session[s].methods : Recorded(m)
                         /\ AnchorIn(session[s].anchor, session[s].methods)
  /\ \A c \in issued : IssuedRight(c)

ChecksInv ==
  /\ DOMAIN check = Verifiers
  /\ \A v \in Verifiers :
       /\ check[v].step \in {"status", "evaluate"} =>
            /\ DOMAIN check[v] = {"step", "c", "p", "began"}
            /\ check[v].c \in issued /\ check[v].p \in Setting.policies
       /\ check[v].step = "done" /\ check[v].code = "ok" =>
            check[v].c \in issued /\ Worth(check[v])

(* What the registry holds is consistent and has one plugin of each name.  *)
LEMMA RegistryIs ==
  ASSUME IssuedInv
  PROVE  /\ \A p \in registry : /\ p.lifetime \in Nat /\ p.strength \in Nat
                                /\ TypeOf(p.id) = p.type /\ p.type \in {"anchor", "supplementary"}
                                /\ p.strength < supplementaryStrengthCeiling <=> p.type = "supplementary"
         /\ \A p \in Setting.policies : p.anchorAge \in Nat
  <1>1. /\ registry \subseteq {p \in Setting.plugins : MetadataValidate(p)}
        /\ \A p, q \in registry : p.id = q.id => p = q
      BY DEF IssuedInv, Registries
  <1>2. Setting \in {Scenarios[i] : i \in DOMAIN Scenarios}
      BY DEF IssuedInv, Setting
  <1>3. /\ \A p \in Setting.plugins : p.lifetime \in Nat /\ p.strength \in Nat
        /\ \A p \in Setting.policies : p.anchorAge \in Nat
      BY <1>2, CheckAssumption
  <1>4. ASSUME NEW p \in registry
        PROVE  /\ TypeOf(p.id) = p.type /\ p.type \in {"anchor", "supplementary"}
               /\ p.strength < supplementaryStrengthCeiling <=> p.type = "supplementary"
    <2>1. (CHOOSE m \in registry : m.id = p.id) = p
        BY <1>1
    <2>2. MetadataValidate(p) /\ p.strength \in Nat
        BY <1>1, <1>3
    <2>3. TypeOf(p.id) = p.type
        BY <2>1, Zenon DEF TypeOf
    <2>4. /\ p.type \in {"anchor", "supplementary"}
          /\ p.strength < 50 <=> p.type = "supplementary"
        BY <2>2 DEF MetadataValidate
    <2> QED BY <2>3, <2>4 DEF supplementaryStrengthCeiling
  <1> QED BY <1>1, <1>3, <1>4

(* A change to a credential changes what its proof has to cover.           *)
LEMMA AlteredProof ==
  ASSUME NEW c, c = [f \in AllFields |-> c[f]], NEW d \in Altered(c)
  PROVE  d = [f \in AllFields |-> d[f]] /\ (d.proof = c.proof \/ d.proof = None)
  <1> USE DEF AllFields, CredentialFields
  <1>1. CASE d = [c EXCEPT !.status = None]
      BY <1>1
  <1>2. CASE d = [c EXCEPT !.expires = @ + Lifetime]
      BY <1>2
  <1>3. CASE d = [c EXCEPT !.issuer = "other"]
      BY <1>3
  <1>4. CASE d = [c EXCEPT !.proof = None]
      BY <1>4
  <1>5. ASSUME NEW ms, NEW a, d = [c EXCEPT !.methods = ms, !.anchor = a]
        PROVE  d = [f \in AllFields |-> d[f]] /\ d.proof = c.proof
      BY <1>5
  <1> QED BY <1>1, <1>2, <1>3, <1>4, <1>5 DEF Altered

(* Whatever is presented and verifies is a credential as it was issued.    *)
LEMMA VerifiedIsIssued ==
  ASSUME IssuedInv, NEW c \in Presented, VerifySignature(c)
  PROVE  c \in issued
  <1>1. ASSUME NEW d \in issued, c \in Altered(d)
        PROVE  c \in issued
    <2>1. IssuedRight(d)
        BY DEF IssuedInv
    <2>2. c = [f \in AllFields |-> c[f]] /\ c.proof = d.proof
        BY <1>1, <2>1, AlteredProof DEF IssuedRight, VerifySignature
    <2>3. canonicalizeWithoutProof(c) = canonicalizeWithoutProof(d)
        BY <2>1, <2>2 DEF IssuedRight, VerifySignature
    <2>4. \A f \in CredentialFields : c[f] = d[f]
        BY <2>3 DEF canonicalizeWithoutProof
    <2>5. \A f \in AllFields : c[f] = d[f]
        BY <2>2, <2>4 DEF AllFields
    <2>6. c = d
        BY <2>1, <2>2, <2>5 DEF IssuedRight
    <2> QED BY <2>6
  <1>2. ASSUME NEW d, c = Signed(d, "holderKey")
        PROVE  FALSE
    <2>1. c.proof.key = "holderKey"
        BY <1>2 DEF Signed
    <2> QED BY <2>1 DEF VerifySignature, Resolve
  <1> QED BY <1>1, <1>2 DEF Presented

(* A method of a session or credential has the type its plugin declares.   *)
LEMMA RecordedIs ==
  ASSUME IssuedInv, NEW m, Recorded(m)
  PROVE  /\ m.lifetime \in Nat /\ m.strength \in Nat /\ m.at \in Nat
         /\ m.strength < supplementaryStrengthCeiling => TypeOf(m.id) = "supplementary"
  <1>1. PICK p \in registry : p.id = m.id /\ p.strength = m.strength /\ p.lifetime = m.lifetime
      BY DEF Recorded
  <1> QED BY <1>1, RegistryIs DEF Recorded

(* The codes of an evaluation that is not "ok" are others.                 *)
LEMMA EvaluatedOk ==
  ASSUME NEW c, NEW p, NEW t, Evaluate(c, p, t) = "ok"
  PROVE  /\ ~(t > c.expires)
         /\ ~(p.anchor /\ c.anchor = None)
         /\ AnchorFresh(c, p, t)
         /\ Points(Counting(c, t)) >= p.points
  BY DEF Evaluate

(* A credential as issued that evaluates to "ok" is worth what the policy  *)
(* asks.                                                                   *)
LEMMA EvaluatedIsWorth ==
  ASSUME IssuedInv, NEW c \in issued, NEW p \in Setting.policies, Evaluate(c, p, now) = "ok",
         NEW r, r.c = c, r.p = p, r.at = now
  PROVE  Worth(r)
  <1>0. IssuedRight(c) /\ now \in Nat
      BY DEF IssuedInv
  <1>1. \A m \in c.methods : /\ m.lifetime \in Nat /\ m.strength \in Nat /\ m.at \in Nat
                             /\ m.strength < supplementaryStrengthCeiling
                                  => TypeOf(m.id) = "supplementary"
      BY <1>0, RecordedIs DEF IssuedRight
  <1>2. \E some \in SUBSET {m \in {n \in c.methods : FreshOnItsOwn(n, now)} :
                              TypeOf(m.id) = "supplementary"} : Points(some) >= p.points
    <2>1. Counting(c, now) \in SUBSET {m \in {n \in c.methods : FreshOnItsOwn(n, now)} :
                                         TypeOf(m.id) = "supplementary"}
        BY <1>1 DEF Counting
    <2>2. Points(Counting(c, now)) >= p.points
        BY EvaluatedOk
    <2> QED BY <2>1, <2>2
  <1>3. ASSUME p.anchor
        PROVE  \E m \in c.methods :
                 /\ TypeOf(m.id) = "anchor"
                 /\ LET w == IF p.anchorAge > 0 THEN p.anchorAge ELSE m.lifetime
                    IN w = 0 \/ now <= m.at + w
    <2>1. c.anchor # None /\ TypeOf(c.anchor) = "anchor"
        BY <1>0, <1>3, EvaluatedOk DEF IssuedRight, AnchorIn
    <2>2. PICK m \in c.methods :
            /\ m.id = c.anchor
            /\ AnchorWindow(c, p, m) > 0 => now - m.at <= AnchorWindow(c, p, m)
        BY <2>1, EvaluatedOk DEF AnchorFresh
    <2>3. p.anchorAge \in Nat /\ m.lifetime \in Nat /\ m.at \in Nat
        BY <1>1, RegistryIs
    <2> DEFINE w == IF p.anchorAge > 0 THEN p.anchorAge ELSE m.lifetime
    <2>4. w \in Nat /\ (w > 0 => now - m.at <= w)
        BY <2>2, <2>3 DEF AnchorWindow
    <2> HIDE DEF w
    <2>5. w = 0 \/ now <= m.at + w
        BY <1>0, <2>3, <2>4
    <2> QED BY <2>1, <2>2, <2>5 DEF w
  <1>4. now - c.issued <= Lifetime
    <2>1. ~(now > c.expires)
        BY EvaluatedOk
    <2> QED BY <1>0, <2>1, CheckAssumption DEF IssuedRight
  <1>5. \A m \in c.methods : m.at <= c.issued
      BY <1>0 DEF IssuedRight
  <1> QED BY <1>2, <1>3, <1>4, <1>5 DEF Worth

(* A method that is recorded stays so while time goes on.                  *)
LEMMA RecordedStays ==
  ASSUME NEW m, Recorded(m), now \in Nat, now' \in Nat, now <= now', registry' = registry
  PROVE  Recorded(m)'
  BY DEF Recorded

LEMMA AnchorStays ==
  ASSUME NEW a, NEW ms, AnchorIn(a, ms), registry' = registry
  PROVE  AnchorIn(a, ms)'
  BY DEF AnchorIn, TypeOf

LEMMA IssuedRightStays ==
  ASSUME NEW c, IssuedRight(c), now \in Nat, now' \in Nat, now <= now', registry' = registry
  PROVE  IssuedRight(c)'
  <1>1. \A m \in c.methods : Recorded(m)'
      BY RecordedStays DEF IssuedRight
  <1>2. AnchorIn(c.anchor, c.methods)'
      BY AnchorStays DEF IssuedRight
  <1> QED BY <1>1, <1>2 DEF IssuedRight

(* Where nothing is verified or issued, the invariant stays.               *)
LEMMA IssuedInvStays ==
  ASSUME IssuedInv, UNCHANGED <<scenario, registry, session, issued>>, now' \in Nat, now <= now'
  PROVE  IssuedInv'
  <1>1. \A s \in Sessions : /\ \A m \in session[s].methods : Recorded(m)'
                            /\ AnchorIn(session[s].anchor, session[s].methods)'
      BY RecordedStays, AnchorStays DEF IssuedInv
  <1>2. \A c \in issued : IssuedRight(c)'
      BY IssuedRightStays DEF IssuedInv
  <1> QED BY <1>1, <1>2 DEF IssuedInv, Setting, Registries

LEMMA RecordStep ==
  ASSUME IssuedInv, NEW s \in Sessions, NEW p \in registry, RecordMethodResult(s, p)
  PROVE  IssuedInv'
  <1> DEFINE new == ResultOf(p)
             ms == ResultIn(session[s].methods, p)
             a == IF p.type = "anchor" THEN p.id ELSE session[s].anchor
  <1>1. /\ session' = [session EXCEPT ![s].methods = ms, ![s].anchor = a]
        /\ UNCHANGED <<scenario, registry, now, issued>>
      BY DEF RecordMethodResult
  <1>2. /\ new.id = p.id /\ new.strength = p.strength /\ new.at = now /\ new.lifetime = p.lifetime
      BY DEF ResultOf
  <1>3. ms = {x \in session[s].methods : x.id # p.id} \cup {new}
      BY DEF ResultIn
  <1> HIDE DEF new, ms, a
  <1>4. /\ DOMAIN session' = Sessions
        /\ \A t \in Sessions : DOMAIN session'[t] = {"methods", "anchor"}
        /\ session'[s].methods = ms /\ session'[s].anchor = a
        /\ \A t \in Sessions \ {s} : session'[t] = session[t]
    <2>1. DOMAIN session = Sessions /\ DOMAIN session[s] = {"methods", "anchor"}
        BY DEF IssuedInv
    <2>2. /\ DOMAIN session' = Sessions
          /\ \A t \in Sessions \ {s} : session'[t] = session[t]
          /\ session'[s] = [[session[s] EXCEPT !.methods = ms] EXCEPT !.anchor = a]
        BY <1>1, <2>1
    <2> QED BY <2>1, <2>2 DEF IssuedInv
  <1>5. \A m \in ms : Recorded(m)
    <2>1. Recorded(new)
        BY <1>2 DEF Recorded, IssuedInv
    <2> QED BY <1>3, <2>1 DEF IssuedInv
  <1>6. AnchorIn(a, ms)
    <2> SUFFICES ASSUME a # None PROVE TypeOf(a) = "anchor" /\ \E m \in ms : m.id = a
        BY DEF AnchorIn
    <2>1. CASE p.type = "anchor"
        BY <1>2, <1>3, <2>1, RegistryIs DEF a
    <2>2. CASE p.type # "anchor"
      <3>1. a = session[s].anchor
          BY <2>2 DEF a
      <3>2. TypeOf(a) = "anchor" /\ \E m \in session[s].methods : m.id = a
          BY <3>1 DEF IssuedInv, AnchorIn
      <3>3. a # p.id
          BY <2>2, <3>2, RegistryIs
      <3> QED BY <1>3, <3>2, <3>3
    <2> QED BY <2>1, <2>2
  <1>7. now \in Nat
      BY DEF IssuedInv
  <1>8. \A t \in Sessions : /\ \A m \in session'[t].methods : Recorded(m)'
                            /\ AnchorIn(session[t].anchor, session[t].methods)'
    <2> TAKE t \in Sessions
    <2>1. (\A m \in session'[t].methods : Recorded(m)) /\ AnchorIn(session'[t].anchor, session'[t].methods)
        BY <1>4, <1>5, <1>6 DEF IssuedInv
    <2>2. \A m \in session'[t].methods : Recorded(m)'
        BY <1>1, <2>1 DEF Recorded
    <2>3. AnchorIn(session[t].anchor, session[t].methods)'
        BY <1>1, <2>1 DEF AnchorIn, TypeOf
    <2> QED BY <2>2, <2>3
  <1>9. \A c \in issued : IssuedRight(c)'
      BY <1>1, <1>7, IssuedRightStays DEF IssuedInv
  <1> QED BY <1>1, <1>4, <1>8, <1>9 DEF IssuedInv, Setting, Registries

LEMMA IssueStep ==
  ASSUME IssuedInv, NEW s \in Sessions, NEW slot, Issue(s, slot)
  PROVE  IssuedInv'
  <1> DEFINE body == [id |-> s, issuer |-> "issuer", issued |-> now, expires |-> now + Lifetime,
                      methods |-> session[s].methods, anchor |-> session[s].anchor,
                      nullifier |-> IF s \in Setting.keyed THEN s ELSE None, status |-> slot]
             new == Signed(body, "issuerKey")
  <1>1. issued' = issued \cup {new} /\ UNCHANGED <<scenario, registry, now, session>>
      BY DEF Issue
  <1>2. /\ new = [f \in AllFields |-> new[f]]
        /\ new.proof = [key |-> "issuerKey", input |-> canonicalizeWithoutProof(body)]
        /\ \A f \in CredentialFields : new[f] = body[f]
      BY DEF Signed, AllFields, CredentialFields
  <1>3. canonicalizeWithoutProof(new) = canonicalizeWithoutProof(body)
      BY <1>2 DEF canonicalizeWithoutProof
  <1>4. /\ body.issued = now /\ body.expires = now + Lifetime
        /\ body.methods = session[s].methods /\ body.anchor = session[s].anchor
      OBVIOUS
  <1>5. new.issued = body.issued /\ new.expires = body.expires /\ new.methods = body.methods
        /\ new.anchor = body.anchor
      BY <1>2 DEF CredentialFields
  <1> HIDE DEF new, body
  <1>6. IssuedRight(new)
      BY <1>2, <1>3, <1>4, <1>5 DEF IssuedRight, IssuedInv, Recorded
  <1>7. \A c \in issued' : IssuedRight(c)
      BY <1>1, <1>6 DEF IssuedInv
  <1>8. \A c \in issued' : IssuedRight(c)'
      BY <1>1, <1>7, IssuedRightStays DEF IssuedInv
  <1>9. \A t \in Sessions : /\ \A m \in session[t].methods : Recorded(m)'
                            /\ AnchorIn(session[t].anchor, session[t].methods)'
      BY <1>1, RecordedStays, AnchorStays DEF IssuedInv
  <1> QED BY <1>1, <1>8, <1>9 DEF IssuedInv, Setting, Registries

LEMMA IssuedInvStep == IssuedInv /\ [CheckNext]_vars => IssuedInv'
  <1> SUFFICES ASSUME IssuedInv, [CheckNext]_vars PROVE IssuedInv'
      OBVIOUS
  <1>0. now \in Nat
      BY DEF IssuedInv
  <1>1. ASSUME NEW s \in Sessions, NEW p \in registry, RecordMethodResult(s, p) PROVE IssuedInv'
      BY <1>1, RecordStep
  <1>2. ASSUME NEW s \in Sessions, NEW slot \in Slots, Issue(s, slot) PROVE IssuedInv'
      BY <1>2, IssueStep
  <1>3. CASE CheckTick
      BY <1>0, <1>3, IssuedInvStays DEF CheckTick
  <1>4. ASSUME NEW s, NEW v, NEW c, NEW p,
               RevokeReads(s) \/ RevokeWrites \/ Restart \/ Verify(v, c, p) \/ FetchStatusList(v)
                 \/ EvaluateCheck(v) \/ Done(v) \/ UNCHANGED vars
        PROVE  IssuedInv'
    <2>1. UNCHANGED <<scenario, registry, session, issued, now>>
        BY <1>4 DEF RevokeReads, RevokeWrites, Restart, Verify, FetchStatusList, EvaluateCheck, Done, vars
    <2> QED BY <1>0, <2>1, IssuedInvStays
  <1> QED BY <1>1, <1>2, <1>3, <1>4 DEF CheckNext

(* What is said of one check.                                              *)
CheckRight(k) ==
  /\ k.step \in {"status", "evaluate"} =>
       /\ DOMAIN k = {"step", "c", "p", "began"}
       /\ k.c \in issued /\ k.p \in Setting.policies
  /\ k.step = "done" /\ k.code = "ok" => k.c \in issued /\ Worth(k)

LEMMA ChecksInvStep == IssuedInv /\ ChecksInv /\ [CheckNext]_vars => ChecksInv'
  <1> SUFFICES ASSUME IssuedInv, ChecksInv, [CheckNext]_vars PROVE ChecksInv'
      OBVIOUS
  <1>0. issued \subseteq issued' /\ UNCHANGED <<scenario, registry>>
    <2>1. ASSUME NEW s, NEW p, NEW slot, NEW v, NEW c,
                 RecordMethodResult(s, p) \/ Issue(s, slot) \/ RevokeReads(s) \/ RevokeWrites \/ Restart
                   \/ CheckTick \/ Verify(v, c, p) \/ FetchStatusList(v) \/ EvaluateCheck(v) \/ Done(v)
                   \/ UNCHANGED vars
          PROVE  issued \subseteq issued' /\ UNCHANGED <<scenario, registry>>
        BY <2>1 DEF RecordMethodResult, Issue, RevokeReads, RevokeWrites, Restart, CheckTick, Verify,
                    FetchStatusList, EvaluateCheck, Done, vars
    <2> QED BY <2>1 DEF CheckNext
  <1>1. \A k : CheckRight(k) => CheckRight(k)'
    <2>1. \A k : Worth(k) => Worth(k)'
        BY <1>0 DEF Worth, TypeOf
    <2>2. Setting' = Setting
        BY <1>0 DEF Setting
    <2> QED BY <1>0, <2>1, <2>2 DEF CheckRight
  <1>2. DOMAIN check = Verifiers /\ \A v \in Verifiers : CheckRight(check[v])
      BY DEF ChecksInv, CheckRight
  <1>3. ASSUME DOMAIN check' = Verifiers, \A v \in Verifiers : CheckRight(check[v])'
        PROVE  ChecksInv'
      BY <1>3 DEF ChecksInv, CheckRight
  <1>4. ASSUME check' = check PROVE ChecksInv'
      BY <1>1, <1>2, <1>3, <1>4
  <1>5. ASSUME NEW v \in Verifiers, NEW k, check' = [check EXCEPT ![v] = k], CheckRight(k)
        PROVE  ChecksInv'
    <2>1. \A w \in Verifiers : check'[w] = IF w = v THEN k ELSE check[w]
        BY <1>2, <1>5
    <2>2. \A w \in Verifiers : CheckRight(check'[w])
        BY <1>2, <1>5, <2>1
    <2>3. \A w \in Verifiers : CheckRight(check[w])'
      <3> TAKE w \in Verifiers
      <3>1. CASE w = v
        <4>1. CheckRight(k)' /\ check'[w] = k
            BY <1>1, <1>5, <2>1, <3>1
        <4> QED BY <4>1 DEF CheckRight, Worth
      <3>2. CASE w # v
        <4>1. CheckRight(check[w]) /\ check'[w] = check[w]
            BY <1>2, <2>1, <3>2
        <4>2. Worth(check[w]) => Worth(check[w])'
            BY <1>0, <4>1 DEF Worth, TypeOf
        <4>3. Setting' = Setting
            BY <1>0 DEF Setting
        <4> QED BY <1>0, <4>1, <4>2, <4>3 DEF CheckRight
      <3> QED BY <3>1, <3>2
    <2> QED BY <1>2, <1>3, <1>5, <2>3
  <1>6. ASSUME NEW v \in Verifiers, NEW c \in Presented, NEW p \in Setting.policies, Verify(v, c, p)
        PROVE  ChecksInv'
    <2> DEFINE k == [step |-> "status", c |-> c, p |-> p, began |-> now]
    <2>1. check' = [check EXCEPT ![v] = k] /\ VerifySignature(c)
        BY <1>6 DEF Verify
    <2>2. /\ k.step = "status" /\ k.c = c /\ k.p = p /\ DOMAIN k = {"step", "c", "p", "began"}
        OBVIOUS
    <2> HIDE DEF k
    <2>3. c \in issued
        BY <2>1, VerifiedIsIssued
    <2>4. CheckRight(k)
        BY <2>2, <2>3 DEF CheckRight
    <2> QED BY <1>5, <2>1, <2>4
  <1>7. ASSUME NEW v \in Verifiers, FetchStatusList(v)
        PROVE  ChecksInv'
    <2>0. CheckRight(check[v]) /\ check[v].step = "status"
        BY <1>2, <1>7 DEF FetchStatusList
    <2> DEFINE on == [check[v] EXCEPT !.step = "evaluate"]
    <2>1. CASE check' = [check EXCEPT ![v] = on]
      <3>1. on.step = "evaluate" /\ on.c = check[v].c /\ on.p = check[v].p
            /\ DOMAIN on = {"step", "c", "p", "began"}
          BY <2>0 DEF CheckRight
      <3> HIDE DEF on
      <3>2. CheckRight(on)
          BY <2>0, <3>1 DEF CheckRight
      <3> QED BY <1>5, <2>1, <3>2
    <2>2. ASSUME NEW k, check' = [check EXCEPT ![v] = k], k.step = "done", k.code = "revoked"
          PROVE  ChecksInv'
      <3>1. CheckRight(k)
          BY <2>2 DEF CheckRight
      <3> QED BY <1>5, <2>2, <3>1
    <2>3. \/ check' = [check EXCEPT ![v] = on]
          \/ \E k : check' = [check EXCEPT ![v] = k] /\ k.step = "done" /\ k.code = "revoked"
      <3>1. CASE check' = [check EXCEPT ![v].step = "evaluate"]
          BY <3>1
      <3>2. ASSUME NEW r, check' = [check EXCEPT ![v] =
                      IF Get(r.bits, @.c.status)
                      THEN [step |-> "done", code |-> "revoked", c |-> @.c, p |-> @.p,
                            began |-> @.began, at |-> now]
                      ELSE [@ EXCEPT !.step = "evaluate"]]
            PROVE  \/ check' = [check EXCEPT ![v] = on]
                   \/ \E k : check' = [check EXCEPT ![v] = k] /\ k.step = "done" /\ k.code = "revoked"
        <4> DEFINE k == [step |-> "done", code |-> "revoked", c |-> check[v].c, p |-> check[v].p,
                         began |-> check[v].began, at |-> now]
        <4>1. check' = [check EXCEPT ![v] = k] \/ check' = [check EXCEPT ![v] = on]
            BY <3>2
        <4>2. k.step = "done" /\ k.code = "revoked"
            OBVIOUS
        <4> HIDE DEF k, on
        <4> QED BY <4>1, <4>2
      <3> QED BY <1>7, <3>1, <3>2 DEF FetchStatusList
    <2> QED BY <2>1, <2>2, <2>3
  <1>8. ASSUME NEW v \in Verifiers, EvaluateCheck(v)
        PROVE  ChecksInv'
    <2> DEFINE old == check[v]
               k == [step |-> "done", code |-> Evaluate(old.c, old.p, now), c |-> old.c, p |-> old.p,
                     began |-> old.began, at |-> now]
    <2>1. check' = [check EXCEPT ![v] = k] /\ old.step = "evaluate"
        BY <1>8 DEF EvaluateCheck
    <2>2. old.c \in issued /\ old.p \in Setting.policies
        BY <1>2, <2>1 DEF CheckRight
    <2>3. /\ k.step = "done" /\ k.code = Evaluate(old.c, old.p, now) /\ k.c = old.c /\ k.p = old.p
          /\ k.at = now
        OBVIOUS
    <2> HIDE DEF k, old
    <2>4. CheckRight(k)
        BY <2>2, <2>3, EvaluatedIsWorth DEF CheckRight
    <2> QED BY <1>5, <2>1, <2>4
  <1>9. ASSUME NEW v \in Verifiers, Done(v)
        PROVE  ChecksInv'
    <2>1. check' = [check EXCEPT ![v] = Idle] /\ Idle.step = "idle"
        BY <1>9 DEF Done, Idle
    <2>2. CheckRight(Idle)
        BY <2>1 DEF CheckRight
    <2> QED BY <1>5, <2>1, <2>2
  <1>10. ASSUME NEW s, NEW p, NEW slot,
                RecordMethodResult(s, p) \/ Issue(s, slot) \/ RevokeReads(s) \/ RevokeWrites \/ Restart
                  \/ CheckTick \/ UNCHANGED vars
         PROVE  ChecksInv'
    <2>1. check' = check
        BY <1>10 DEF RecordMethodResult, Issue, RevokeReads, RevokeWrites, Restart, CheckTick, vars
    <2> QED BY <1>4, <2>1
  <1> QED BY <1>6, <1>7, <1>8, <1>9, <1>10 DEF CheckNext

(* For any plugins that the registry takes, policies, sessions, verifiers  *)
(* and interleavings of their checks with issuance and revocation, and     *)
(* whatever a holder changes in a credential: what a verifier accepts was  *)
(* issued as it stands and meets the policy it checked, in terms of the    *)
(* method types the plugins declare (VerifyCredential, policy.Evaluate).   *)
THEOREM AcceptedAsIssuedHolds == CheckSpec => []AcceptedAsIssued
  <1>1. CheckInit => IssuedInv /\ ChecksInv
    <2> SUFFICES ASSUME CheckInit PROVE IssuedInv /\ ChecksInv
        OBVIOUS
    <2>1. \A s \in Sessions : session[s] = [methods |-> {}, anchor |-> None]
        BY DEF CheckInit
    <2>2. IssuedInv
        BY <2>1 DEF CheckInit, IssuedInv, AnchorIn
    <2>3. ChecksInv
        BY DEF CheckInit, ChecksInv, Idle
    <2> QED BY <2>2, <2>3
  <1>2. ChecksInv => AcceptedAsIssued
    <2> SUFFICES ASSUME ChecksInv, NEW v \in Verifiers, check[v].step = "done", check[v].code = "ok"
                 PROVE  check[v].c \in issued /\ Worth(check[v])
        BY DEF AcceptedAsIssued, AcceptedWasIssued, PolicyMet, Results, Worth
    <2> QED BY DEF ChecksInv
  <1> QED BY <1>1, <1>2, IssuedInvStep, ChecksInvStep, PTL DEF CheckSpec

-----------------------------------------------------------------------------
(* The bits of the status list (CredentialCheck): a slot's bit is set      *)
(* exactly when the slot is among those the list was made from.            *)

Weight(k) == 2 ^ (7 - k)
LEMMA Weights ==
  /\ Weight(0) = 128 /\ Weight(1) = 64 /\ Weight(2) = 32 /\ Weight(3) = 16
  /\ Weight(4) = 8 /\ Weight(5) = 4 /\ Weight(6) = 2 /\ Weight(7) = 1
  BY DEF Weight

(* Adding the bits of a byte up, each can be read from the sum.            *)
Byte(f) == (IF f[0] THEN 128 ELSE 0) + (IF f[1] THEN 64 ELSE 0) + (IF f[2] THEN 32 ELSE 0)
           + (IF f[3] THEN 16 ELSE 0) + (IF f[4] THEN 8 ELSE 0) + (IF f[5] THEN 4 ELSE 0)
           + (IF f[6] THEN 2 ELSE 0) + (IF f[7] THEN 1 ELSE 0)

LEMMA BitsOfSum ==
  ASSUME NEW b0 \in {0, 1}, NEW b1 \in {0, 1}, NEW b2 \in {0, 1}, NEW b3 \in {0, 1},
         NEW b4 \in {0, 1}, NEW b5 \in {0, 1}, NEW b6 \in {0, 1}, NEW b7 \in {0, 1}
  PROVE  LET x == 128 * b0 + 64 * b1 + 32 * b2 + 16 * b3 + 8 * b4 + 4 * b5 + 2 * b6 + b7
         IN /\ (x \div 128) % 2 = b0 /\ (x \div 64) % 2 = b1 /\ (x \div 32) % 2 = b2
            /\ (x \div 16) % 2 = b3 /\ (x \div 8) % 2 = b4 /\ (x \div 4) % 2 = b5
            /\ (x \div 2) % 2 = b6 /\ (x \div 1) % 2 = b7
  OBVIOUS

LEMMA BitOfByte ==
  ASSUME NEW f \in [0..7 -> BOOLEAN], NEW k \in 0..7
  PROVE  Byte(f) \in Nat /\ (Bit(Byte(f), k) = 1 <=> f[k])
  <1> DEFINE b(j) == IF f[j] THEN 1 ELSE 0
  <1>1. \A j \in 0..7 : b(j) \in {0, 1}
      OBVIOUS
  <1>2. Byte(f) = 128 * b(0) + 64 * b(1) + 32 * b(2) + 16 * b(3) + 8 * b(4) + 4 * b(5) + 2 * b(6) + b(7)
      BY DEF Byte
  <1>3. /\ (Byte(f) \div 128) % 2 = b(0) /\ (Byte(f) \div 64) % 2 = b(1)
        /\ (Byte(f) \div 32) % 2 = b(2) /\ (Byte(f) \div 16) % 2 = b(3)
        /\ (Byte(f) \div 8) % 2 = b(4) /\ (Byte(f) \div 4) % 2 = b(5)
        /\ (Byte(f) \div 2) % 2 = b(6) /\ (Byte(f) \div 1) % 2 = b(7)
      BY <1>1, <1>2, BitsOfSum
  <1>4. Byte(f) \in Nat
      BY DEF Byte
  <1>5. Bit(Byte(f), k) = b(k)
    <2>1. Bit(Byte(f), k) = (Byte(f) \div Weight(k)) % 2
        BY DEF Bit, Weight
    <2>2. k = 0 \/ k = 1 \/ k = 2 \/ k = 3 \/ k = 4 \/ k = 5 \/ k = 6 \/ k = 7
        OBVIOUS
    <2> HIDE DEF b
    <2> QED BY <1>3, <2>1, <2>2, Weights
  <1> QED BY <1>4, <1>5

(* Setting a bit that is not set adds its weight.                          *)
LEMMA ByteWithBit ==
  ASSUME NEW f \in [0..7 -> BOOLEAN], NEW k \in 0..7, ~f[k]
  PROVE  Byte([f EXCEPT ![k] = TRUE]) = Byte(f) + Weight(k)
  <1>1. k = 0 \/ k = 1 \/ k = 2 \/ k = 3 \/ k = 4 \/ k = 5 \/ k = 6 \/ k = 7
      OBVIOUS
  <1> QED BY <1>1, Weights DEF Byte

(* The bytes after the first n slots: a bit is set for each one revoked.   *)
Marks(slots, n, b) == [k \in 0..7 |-> 8 * b + k < n /\ 8 * b + k \in slots]
BytesUpTo(slots, n) == [b \in Bytes |-> Byte(Marks(slots, n, b))]

LEMMA BytesAre == Bytes = {0, 1} /\ statusListSize = 16
  BY DEF Bytes, statusListSize

LEMMA NoSlots == ASSUME NEW slots PROVE BytesUpTo(slots, 0) = NewBitString
  <1>1. ASSUME NEW b \in Bytes PROVE Byte(Marks(slots, 0, b)) = 0
    <2>1. \A k \in 0..7 : ~(8 * b + k < 0)
      <3>1. b = 0 \/ b = 1
          BY BytesAre
      <3> QED BY <3>1
    <2>2. \A k \in 0..7 : ~Marks(slots, 0, b)[k]
        BY <2>1 DEF Marks
    <2> QED BY <2>2 DEF Byte
  <1> QED BY <1>1 DEF BytesUpTo, NewBitString

LEMMA NextSlot ==
  ASSUME NEW slots, NEW n \in 1..16
  PROVE  BytesUpTo(slots, n) = IF n - 1 \in slots THEN BitSet(BytesUpTo(slots, n - 1), n - 1)
                               ELSE BytesUpTo(slots, n - 1)
  <1> DEFINE c == (n - 1) \div 8
             j == (n - 1) % 8
             old == BytesUpTo(slots, n - 1)
  <1>1. c \in Bytes /\ c \in Int /\ j \in 0..7 /\ 8 * c + j = n - 1
      BY BytesAre
  <1>2. \A b \in Bytes, k \in 0..7 : b \in Int /\ (8 * b + k = n - 1 <=> b = c /\ k = j)
      BY <1>1, BytesAre
  <1> HIDE DEF c, j
  <1>3. \A b \in Bytes : b # c => Marks(slots, n, b) = Marks(slots, n - 1, b)
    <2> SUFFICES ASSUME NEW b \in Bytes, b # c, NEW k \in 0..7
                 PROVE  8 * b + k < n <=> 8 * b + k < n - 1
        BY DEF Marks
    <2>1. 8 * b + k # n - 1 /\ b \in Int
        BY <1>2
    <2> QED BY <2>1
  <1>4. ~Marks(slots, n - 1, c)[j]
    <2>1. ~(8 * c + j < n - 1)
        BY <1>1
    <2> QED BY <1>1, <2>1 DEF Marks
  <1>5. CASE n - 1 \notin slots
    <2>1. Marks(slots, n, c) = Marks(slots, n - 1, c)
      <3> SUFFICES ASSUME NEW k \in 0..7
                   PROVE  8 * c + k < n /\ 8 * c + k \in slots <=> 8 * c + k < n - 1 /\ 8 * c + k \in slots
          BY DEF Marks
      <3>1. 8 * c + k < n <=> 8 * c + k < n - 1 \/ 8 * c + k = n - 1
          BY <1>1, <1>2
      <3>2. 8 * c + k < n - 1 => 8 * c + k < n
          BY <1>1, <1>2
      <3> QED BY <1>5, <3>1, <3>2
    <2> QED BY <1>3, <1>5, <2>1 DEF BytesUpTo
  <1>6. CASE n - 1 \in slots
    <2>1. Marks(slots, n, c) = [Marks(slots, n - 1, c) EXCEPT ![j] = TRUE]
      <3>1. \A k \in 0..7 : k # j => (8 * c + k < n <=> 8 * c + k < n - 1)
        <4> SUFFICES ASSUME NEW k \in 0..7, k # j PROVE 8 * c + k < n <=> 8 * c + k < n - 1
            OBVIOUS
        <4>1. 8 * c + k # n - 1 /\ c \in Int
            BY <1>1, <1>2
        <4> QED BY <4>1
      <3>2. 8 * c + j < n /\ 8 * c + j \in slots
          BY <1>1, <1>6
      <3> QED BY <1>1, <3>1, <3>2 DEF Marks
    <2>2. Marks(slots, n - 1, c) \in [0..7 -> BOOLEAN]
        BY DEF Marks
    <2>3. Byte(Marks(slots, n, c)) = Byte(Marks(slots, n - 1, c)) + Weight(j)
        BY <1>1, <1>4, <2>1, <2>2, ByteWithBit
    <2>4. old[c] = Byte(Marks(slots, n - 1, c)) /\ Bit(old[c], j) # 1
        BY <1>1, <1>4, <2>2, BitOfByte DEF BytesUpTo
    <2>5. BitSet(old, n - 1) = [old EXCEPT ![c] = old[c] + Weight(j)]
        BY <2>4 DEF BitSet, Weight, c, j
    <2>6. BytesUpTo(slots, n) = [old EXCEPT ![c] = old[c] + Weight(j)]
        BY <1>1, <1>3, <2>3, <2>4 DEF BytesUpTo
    <2> QED BY <1>6, <2>5, <2>6
  <1> QED BY <1>5, <1>6

LEMMA ListBitsAre == ASSUME NEW slots PROVE ListBits(slots) = BytesUpTo(slots, 16)
  <1> DEFINE Steps(h) == h = [n \in 0..statusListSize |->
                IF n = 0 THEN NewBitString
                ELSE IF n - 1 \in slots THEN BitSet(h[n - 1], n - 1) ELSE h[n - 1]]
             bits == CHOOSE h : Steps(h)
             known == [n \in 0..statusListSize |-> BytesUpTo(slots, n)]
  <1>1. ListBits(slots) = bits[statusListSize]
      BY DEF ListBits
  <1>2. Steps(known)
    <2>1. \A n \in 0..statusListSize : known[n] =
            IF n = 0 THEN NewBitString
            ELSE IF n - 1 \in slots THEN BitSet(known[n - 1], n - 1) ELSE known[n - 1]
      <3> TAKE n \in 0..statusListSize
      <3>1. CASE n = 0
          BY <3>1, NoSlots
      <3>2. CASE n # 0
        <4>1. n \in 1..16 /\ n - 1 \in 0..statusListSize
            BY <3>2, BytesAre
        <4> QED BY <3>2, <4>1, NextSlot
      <3> QED BY <3>1, <3>2
    <2>2. known = [n \in 0..statusListSize |-> known[n]]
        OBVIOUS
    <2> HIDE DEF known
    <2> QED BY <2>1, <2>2
  <1>3. Steps(bits)
      BY <1>2, Zenon
  <1> HIDE DEF bits, known
  <1>4. \A n \in 0..16 : bits[n] = IF n = 0 THEN NewBitString
                                   ELSE IF n - 1 \in slots THEN BitSet(bits[n - 1], n - 1) ELSE bits[n - 1]
      BY <1>3, BytesAre
  <1> DEFINE Same(n) == bits[n] = BytesUpTo(slots, n)
  <1>5. Same(0)
      BY <1>4, NoSlots
  <1>6. \A n \in 1..16 : Same(n - 1) => Same(n)
    <2> TAKE n \in 1..16
    <2> HAVE Same(n - 1)
    <2>1. bits[n] = IF n - 1 \in slots THEN BitSet(bits[n - 1], n - 1) ELSE bits[n - 1]
        BY <1>4
    <2> QED BY <2>1, NextSlot
  <1> HIDE DEF Same
  <1>7. Same(1) /\ Same(2) /\ Same(3) /\ Same(4)
      BY <1>5, <1>6
  <1>8. Same(5) /\ Same(6) /\ Same(7) /\ Same(8)
      BY <1>6, <1>7
  <1>9. Same(9) /\ Same(10) /\ Same(11) /\ Same(12)
      BY <1>6, <1>8
  <1>10. Same(13) /\ Same(14) /\ Same(15) /\ Same(16)
      BY <1>6, <1>9
  <1> QED BY <1>1, <1>10, BytesAre DEF Same

(* A verifier reads from the list exactly the slots it was made from.      *)
THEOREM ListTellsSlots ==
  ASSUME NEW slots, NEW i \in 0..(statusListSize - 1)
  PROVE  Get(ListBits(slots), i) <=> i \in slots
  <1> DEFINE c == i \div 8
             j == i % 8
  <1>1. i \in Int /\ i < 16 /\ c \in Bytes /\ j \in 0..7 /\ 8 * c + j = i
      BY BytesAre
  <1> HIDE DEF c, j
  <1>2. Marks(slots, 16, c) \in [0..7 -> BOOLEAN] /\ (Marks(slots, 16, c)[j] <=> i \in slots)
      BY <1>1 DEF Marks
  <1>3. ListBits(slots)[c] = Byte(Marks(slots, 16, c))
      BY <1>1, ListBitsAre DEF BytesUpTo
  <1>4. Bit(ListBits(slots)[c], j) = 1 <=> i \in slots
      BY <1>1, <1>2, <1>3, BitOfByte
  <1> QED BY <1>1, <1>4 DEF Get, c, j

-----------------------------------------------------------------------------
(* What the status list says (CredentialCheck).                            *)

(* A slot is one credential's, and what it says is signed.                 *)
SlotsRight ==
  /\ DOMAIN slotOf = Sessions
  /\ \A s \in Sessions : slotOf[s] \in Slots \cup {None}
  /\ \A s, z \in Sessions : slotOf[s] # None /\ slotOf[s] = slotOf[z] => s = z
  /\ \A s \in Sessions : slotOf[s] # None => \E c \in issued : c.id = s
  /\ \A c \in issued : /\ c.id \in Sessions /\ c.issuer = "issuer"
                       /\ c.status = slotOf[c.id] /\ c.status \in Slots

(* The list has only slots whose revocation was asked for, each since a    *)
(* known time; a revocation that was acknowledged is on it; a call that    *)
(* holds the mutex read it as it still is.                                 *)
ListRight ==
  /\ list \subseteq Slots /\ asked \subseteq Sessions
  /\ \A x \in list : \E s \in asked : slotOf[s] = x
  /\ revoking # None => /\ revoking.id \in asked /\ slotOf[revoking.id] # None
                        /\ revoking.list = list
  /\ DOMAIN revokedAt = Sessions
  /\ \A s \in Sessions : slotOf[s] \in list => listedAt[s] \in Nat /\ listedAt[s] <= now
  /\ \A s \in Sessions : revokedAt[s] # None =>
       /\ revokedAt[s] \in Nat /\ revokedAt[s] <= now
       /\ slotOf[s] \in list /\ listedAt[s] <= revokedAt[s]

(* Whoever says until t that the revoked slots are these leaves none out   *)
(* for longer than a cache lives.                                          *)
Timely(t, slots) ==
  \A s \in Sessions : slotOf[s] \in list \ slots => t <= listedAt[s] + CacheTTL
CacheRight ==
  cache # None => /\ cache.slots \subseteq list
                  /\ cache.until \in Nat /\ cache.until <= now + CacheTTL
                  /\ Timely(cache.until, cache.slots)
ResponseRight(r) ==
  /\ r.at \in Nat /\ r.at <= now
  /\ \E slots \in SUBSET list : r.bits = ListBits(slots) /\ Timely(r.at, slots)
ServedRight == \A r \in served : ResponseRight(r)

InTime(k) == revokedAt[k.c.id] # None => k.began <= revokedAt[k.c.id] + CacheTTL + MaxAge
(* What a check has come to.                                               *)
VerdictRight(k) ==
  /\ k.step # "idle" => k.began \in Nat /\ k.began <= now
  /\ k.step = "evaluate" \/ (k.step = "done" /\ k.code = "ok") => k.c \in issued /\ InTime(k)
  /\ k.step = "done" /\ k.code = "revoked" => k.c.id \in asked
  /\ k.step \in {"idle", "status", "evaluate", "done"}
  /\ k.step = "done" => k.code \in EvaluationCodes
VerdictsRight == \A v \in Verifiers : VerdictRight(check[v])

(* What no step takes back.                                                *)
Kept ==
  /\ now \in Nat /\ now' \in Nat /\ now <= now'
  /\ \A s \in Sessions : slotOf[s] # None => slotOf'[s] = slotOf[s]
  /\ list \subseteq list' /\ asked \subseteq asked' /\ issued \subseteq issued'
  /\ \A s \in Sessions : revokedAt'[s] = revokedAt[s] \/ revokedAt'[s] = now'
  /\ \A s \in Sessions : slotOf[s] \in list => listedAt'[s] = listedAt[s]
  /\ \A s \in Sessions : slotOf'[s] \in list' => slotOf[s] \in list \/ listedAt'[s] = now'

(* Issue leaves what is not the session's as it is.                        *)
LEMMA IssuedSlot ==
  ASSUME SlotsRight, NEW s \in Sessions, NEW slot \in Slots, Issue(s, slot)
  PROVE  /\ slotOf[s] = None /\ slotOf'[s] = slot
         /\ \A z \in Sessions : slotOf[z] # slot /\ (z # s => slotOf'[z] = slotOf[z])
         /\ DOMAIN slotOf' = Sessions
  BY DEF SlotsRight, Issue, FreeSlot

LEMMA KeptStep == IssuedInv /\ SlotsRight /\ ListRight /\ [CheckNext]_vars => Kept
  <1> SUFFICES ASSUME IssuedInv, SlotsRight, ListRight, [CheckNext]_vars PROVE Kept
      OBVIOUS
  <1>0. now \in Nat
      BY DEF IssuedInv
  <1>1. ASSUME NEW s \in Sessions, NEW slot \in Slots, Issue(s, slot) PROVE Kept
    <2>1. UNCHANGED <<now, list, listedAt, revokedAt, asked>> /\ issued \subseteq issued'
        BY <1>1 DEF Issue
    <2>2. slot \notin list
        BY <1>1, IssuedSlot DEF ListRight
    <2>3. \A z \in Sessions : slotOf'[z] \in list => slotOf[z] \in list
        BY <1>1, <2>2, IssuedSlot
    <2> QED BY <1>0, <1>1, <2>1, <2>3, IssuedSlot DEF Kept
  <1>2. ASSUME NEW s \in Sessions, RevokeReads(s) PROVE Kept
    <2>1. /\ UNCHANGED <<now, slotOf, list, listedAt, issued>> /\ asked' = asked \cup {s}
          /\ \/ revokedAt' = [revokedAt EXCEPT ![s] = IF revokedAt[s] = None THEN now ELSE revokedAt[s]]
             \/ revokedAt' = revokedAt
        BY <1>2 DEF RevokeReads
    <2>2. \A z \in Sessions : revokedAt'[z] = revokedAt[z] \/ revokedAt'[z] = now
        BY <2>1 DEF ListRight
    <2> QED BY <1>0, <2>1, <2>2 DEF Kept
  <1>3. CASE RevokeWrites
    <2>1. UNCHANGED <<now, slotOf, issued, asked>>
        BY <1>3 DEF RevokeWrites
    <2>2. list \subseteq list'
        BY <1>3 DEF RevokeWrites, RevokedList, ListRight
    <2>3. \A z \in Sessions : revokedAt'[z] = revokedAt[z] \/ revokedAt'[z] = now
        BY <1>3 DEF RevokeWrites, ListRight
    <2>4. \A z \in Sessions : listedAt'[z] = IF slotOf[z] \in list' \ list THEN now ELSE listedAt[z]
        BY <1>3 DEF RevokeWrites
    <2> QED BY <1>0, <2>1, <2>2, <2>3, <2>4 DEF Kept
  <1>4. ASSUME NEW s, NEW v, NEW c, NEW p,
               RecordMethodResult(s, p) \/ Restart \/ Verify(v, c, p) \/ FetchStatusList(v)
                 \/ EvaluateCheck(v) \/ Done(v) \/ UNCHANGED vars
        PROVE  Kept
    <2>1. UNCHANGED <<now, slotOf, issued, list, listedAt, asked, revokedAt>>
        BY <1>4 DEF RecordMethodResult, Restart, Verify, FetchStatusList, EvaluateCheck, Done, vars, storeVars
    <2> QED BY <1>0, <2>1 DEF Kept
  <1>5. CASE CheckTick
      BY <1>0, <1>5 DEF CheckTick, Kept, storeVars
  <1> QED BY <1>1, <1>2, <1>3, <1>4, <1>5 DEF CheckNext

LEMMA SlotsStep == SlotsRight /\ [CheckNext]_vars => SlotsRight'
  <1> SUFFICES ASSUME SlotsRight, [CheckNext]_vars PROVE SlotsRight'
      OBVIOUS
  <1>1. ASSUME NEW s \in Sessions, NEW slot \in Slots, Issue(s, slot) PROVE SlotsRight'
    <2> DEFINE body == [id |-> s, issuer |-> "issuer", issued |-> now, expires |-> now + Lifetime,
                        methods |-> session[s].methods, anchor |-> session[s].anchor,
                        nullifier |-> IF s \in Setting.keyed THEN s ELSE None, status |-> slot]
               new == Signed(body, "issuerKey")
    <2>1. issued' = issued \cup {new} /\ new.id = s /\ new.issuer = "issuer" /\ new.status = slot
        BY <1>1 DEF Issue, Signed, CredentialFields
    <2> HIDE DEF new
    <2>2. \A c \in issued : c.id # s
        BY <1>1 DEF Issue
    <2>3. \A c \in issued' : /\ c.id \in Sessions /\ c.issuer = "issuer"
                             /\ c.status = slotOf'[c.id] /\ c.status \in Slots
        BY <1>1, <2>1, <2>2, IssuedSlot DEF SlotsRight
    <2>4. \A z \in Sessions : slotOf'[z] # None => \E c \in issued' : c.id = z
      <3> SUFFICES ASSUME NEW z \in Sessions, slotOf'[z] # None PROVE \E c \in issued' : c.id = z
          OBVIOUS
      <3>1. CASE z = s
          BY <2>1, <3>1
      <3>2. CASE z # s
          BY <1>1, <2>1, <3>2, IssuedSlot DEF SlotsRight
      <3> QED BY <3>1, <3>2
    <2>5. \A x, z \in Sessions : slotOf'[x] # None /\ slotOf'[x] = slotOf'[z] => x = z
        BY <1>1, IssuedSlot DEF SlotsRight
    <2>6. DOMAIN slotOf' = Sessions /\ \A z \in Sessions : slotOf'[z] \in Slots \cup {None}
        BY <1>1, IssuedSlot DEF SlotsRight
    <2> QED BY <2>3, <2>4, <2>5, <2>6 DEF SlotsRight
  <1>2. ASSUME NEW s, NEW v, NEW c, NEW p,
               RecordMethodResult(s, p) \/ RevokeReads(s) \/ RevokeWrites \/ Restart \/ CheckTick
                 \/ Verify(v, c, p) \/ FetchStatusList(v) \/ EvaluateCheck(v) \/ Done(v) \/ UNCHANGED vars
        PROVE  SlotsRight'
    <2>1. UNCHANGED <<slotOf, issued>>
        BY <1>2 DEF RecordMethodResult, RevokeReads, RevokeWrites, Restart, CheckTick, Verify,
                    FetchStatusList, EvaluateCheck, Done, vars, storeVars
    <2> QED BY <2>1 DEF SlotsRight
  <1> QED BY <1>1, <1>2 DEF CheckNext

LEMMA ListRightStep ==
  IssuedInv /\ SlotsRight /\ ListRight /\ [CheckNext]_vars => ListRight'
  <1> SUFFICES ASSUME IssuedInv, SlotsRight, ListRight, [CheckNext]_vars PROVE ListRight'
      OBVIOUS
  <1>0. now \in Nat /\ None \notin Slots
      BY CheckAssumption DEF IssuedInv
  <1>1. ASSUME NEW s \in Sessions, NEW slot \in Slots, Issue(s, slot) PROVE ListRight'
    <2>1. UNCHANGED <<now, list, listedAt, revoking, revokedAt, asked>>
        BY <1>1 DEF Issue
    <2>6. slot \notin list
        BY <1>1, IssuedSlot DEF ListRight
    <2>7. \A z \in Sessions : slotOf'[z] \in list => slotOf[z] \in list
        BY <1>1, <2>6, IssuedSlot
    <2>2. \A z \in Sessions : slotOf[z] # None => slotOf'[z] = slotOf[z]
        BY <1>1, IssuedSlot
    <2>3. \A x \in list : \E z \in asked : slotOf'[z] = x
        BY <1>0, <2>2 DEF ListRight
    <2>4. revoking # None => slotOf'[revoking.id] = slotOf[revoking.id]
        BY <2>2 DEF ListRight
    <2>5. \A z \in Sessions : revokedAt[z] # None => slotOf'[z] \in list
        BY <1>0, <2>2 DEF ListRight
    <2> QED BY <2>1, <2>3, <2>4, <2>5, <2>7 DEF ListRight
  <1>2. ASSUME NEW s \in Sessions, RevokeReads(s) PROVE ListRight'
    <2>1. UNCHANGED <<now, slotOf, list, listedAt>> /\ asked' = asked \cup {s} /\ slotOf[s] # None
        BY <1>2 DEF RevokeReads
    <2>2. CASE /\ slotOf[s] \in list /\ revoking' = revoking /\ revoking = None
               /\ revokedAt' = [revokedAt EXCEPT ![s] = IF revokedAt[s] = None THEN now ELSE revokedAt[s]]
      <3>1. \A z \in Sessions : revokedAt'[z] = IF z = s /\ revokedAt[s] = None THEN now ELSE revokedAt[z]
          BY <2>2 DEF ListRight
      <3>2. \A z \in Sessions : revokedAt'[z] # None =>
              /\ revokedAt'[z] \in Nat /\ revokedAt'[z] <= now
              /\ slotOf[z] \in list /\ listedAt[z] <= revokedAt'[z]
          BY <1>0, <2>2, <3>1 DEF ListRight
      <3> QED BY <2>1, <2>2, <3>2 DEF ListRight
    <2>3. CASE revoking' = [id |-> s, list |-> list] /\ revokedAt' = revokedAt
      <3>1. revoking'.id = s /\ revoking'.list = list
          BY <2>3
      <3> QED BY <2>1, <2>3, <3>1 DEF ListRight
    <2> QED BY <1>2, <2>2, <2>3 DEF RevokeReads
  <1>3. CASE RevokeWrites
    <2> DEFINE s == revoking.id
    <2>1. /\ UNCHANGED <<now, slotOf, asked>> /\ revoking' = None
          /\ s \in asked /\ s \in Sessions /\ slotOf[s] \in Slots /\ RevokedList(revoking) = list \cup {slotOf[s]}
        BY <1>3 DEF RevokeWrites, RevokedList, ListRight, SlotsRight
    <2>2. list' = list \cup {slotOf[s]} \/ list' = list
        BY <1>3, <2>1 DEF RevokeWrites
    <2>3. \/ list' = list \cup {slotOf[s]} /\ revokedAt' = [revokedAt EXCEPT ![s] = now]
          \/ revokedAt' = revokedAt
        BY <1>3, <2>1 DEF RevokeWrites
    <2> HIDE DEF s
    <2>4. list' \subseteq Slots /\ list \subseteq list' /\ \A x \in list' : \E z \in asked : slotOf[z] = x
        BY <2>1, <2>2 DEF ListRight
    <2>7. \A z \in Sessions : listedAt'[z] = IF slotOf[z] \in list' \ list THEN now ELSE listedAt[z]
        BY <1>3 DEF RevokeWrites
    <2>8. \A z \in Sessions : slotOf[z] \in list' => listedAt'[z] \in Nat /\ listedAt'[z] <= now
        BY <1>0, <2>7 DEF ListRight
    <2>5. \A z \in Sessions : revokedAt'[z] # None =>
            /\ revokedAt'[z] \in Nat /\ revokedAt'[z] <= now
            /\ slotOf[z] \in list' /\ listedAt'[z] <= revokedAt'[z]
      <3> SUFFICES ASSUME NEW z \in Sessions, revokedAt'[z] # None
                   PROVE  /\ revokedAt'[z] \in Nat /\ revokedAt'[z] <= now
                          /\ slotOf[z] \in list' /\ listedAt'[z] <= revokedAt'[z]
          OBVIOUS
      <3>1. CASE revokedAt'[z] = revokedAt[z]
          BY <3>1, <2>4, <2>7 DEF ListRight
      <3>2. CASE z = s /\ list' = list \cup {slotOf[s]} /\ revokedAt'[z] = now
          BY <1>0, <3>2, <2>8
      <3> QED BY <2>3, <3>1, <3>2 DEF ListRight
    <2>6. DOMAIN revokedAt' = Sessions
        BY <2>3 DEF ListRight
    <2> QED BY <2>1, <2>4, <2>5, <2>6, <2>8 DEF ListRight
  <1>4. ASSUME NEW s, NEW v, NEW c, NEW p,
               RecordMethodResult(s, p) \/ Restart \/ Verify(v, c, p) \/ FetchStatusList(v)
                 \/ EvaluateCheck(v) \/ Done(v) \/ UNCHANGED vars
        PROVE  ListRight'
    <2>1. UNCHANGED <<now, slotOf, list, listedAt, revoking, asked, revokedAt>>
        BY <1>4 DEF RecordMethodResult, Restart, Verify, FetchStatusList, EvaluateCheck, Done, vars, storeVars
    <2> QED BY <2>1 DEF ListRight
  <1>5. CASE CheckTick
    <2>1. UNCHANGED <<slotOf, list, listedAt, revoking, asked, revokedAt>> /\ now' = now + 1
        BY <1>5 DEF CheckTick, storeVars
    <2>2. \A s \in Sessions : slotOf'[s] \in list' => listedAt'[s] \in Nat /\ listedAt'[s] <= now'
        BY <1>0, <2>1 DEF ListRight
    <2>3. \A s \in Sessions : revokedAt'[s] # None =>
            /\ revokedAt'[s] \in Nat /\ revokedAt'[s] <= now'
            /\ slotOf'[s] \in list' /\ listedAt'[s] <= revokedAt'[s]
        BY <1>0, <2>1 DEF ListRight
    <2> QED BY <2>1, <2>2, <2>3 DEF ListRight
  <1> QED BY <1>1, <1>2, <1>3, <1>4, <1>5 DEF CheckNext

LEMMA TimelyStays ==
  ASSUME Kept, ListRight, NEW t \in Nat, NEW slots, t <= now + CacheTTL, Timely(t, slots)
  PROVE  Timely(t, slots)'
  <1> SUFFICES ASSUME NEW s \in Sessions, slotOf'[s] \in list' \ slots
               PROVE  t <= listedAt'[s] + CacheTTL
      BY DEF Timely
  <1>1. CacheTTL \in Nat /\ now \in Nat /\ now' \in Nat /\ now <= now' /\ None \notin list
      BY CheckAssumption DEF Kept, ListRight
  <1>2. CASE listedAt'[s] = now'
      BY <1>1, <1>2
  <1>3. CASE slotOf[s] \in list
    <2>1. slotOf'[s] = slotOf[s] /\ listedAt'[s] = listedAt[s]
        BY <1>1, <1>3 DEF Kept
    <2> QED BY <1>3, <2>1 DEF Timely
  <1> QED BY <1>2, <1>3 DEF Kept

LEMMA CacheStays ==
  ASSUME Kept, ListRight, CacheRight, UNCHANGED cache
  PROVE  CacheRight'
  <1> SUFFICES ASSUME cache # None
               PROVE  /\ cache.slots \subseteq list'
                      /\ cache.until \in Nat /\ cache.until <= now' + CacheTTL
                      /\ Timely(cache.until, cache.slots)'
      BY DEF CacheRight, Timely
  <1>1. CacheTTL \in Nat /\ now \in Nat /\ now' \in Nat /\ now <= now' /\ list \subseteq list'
      BY CheckAssumption DEF Kept
  <1>2. PICK t \in Nat, slots \in SUBSET list :
          t = cache.until /\ slots = cache.slots /\ t <= now + CacheTTL /\ Timely(t, slots)
      BY DEF CacheRight
  <1>3. Timely(t, slots)'
      BY <1>2, TimelyStays
  <1>4. Timely(cache.until, cache.slots)'
      BY <1>2, <1>3 DEF Timely
  <1> QED BY <1>1, <1>2, <1>4

LEMMA ResponseStays ==
  ASSUME Kept, ListRight, NEW r, ResponseRight(r)
  PROVE  ResponseRight(r)'
  <1>1. CacheTTL \in Nat /\ now \in Nat /\ now' \in Nat /\ now <= now' /\ list \subseteq list'
      BY CheckAssumption DEF Kept
  <1>2. PICK slots \in SUBSET list : r.bits = ListBits(slots) /\ Timely(r.at, slots)
      BY DEF ResponseRight
  <1>3. r.at \in Nat /\ r.at <= now /\ r.at <= now + CacheTTL /\ r.at <= now'
      BY <1>1 DEF ResponseRight
  <1>4. Timely(r.at, slots)'
      BY <1>2, <1>3, TimelyStays
  <1> QED BY <1>1, <1>2, <1>3, <1>4 DEF ResponseRight

(* What the issuer answers is timely when it is answered.                  *)
LEMMA AnswerIsRight ==
  ASSUME IssuedInv, ListRight, CacheRight, NEW slots, Revoked(slots)
  PROVE  slots \subseteq list /\ Timely(now, slots) /\ now \in Nat
  <1>0. now \in Nat /\ CacheTTL \in Nat
      BY CheckAssumption DEF IssuedInv
  <1>1. CASE slots = list
      BY <1>0, <1>1 DEF ListRight, Timely
  <1>2. CASE Cached /\ slots = cache.slots
    <2>1. cache.slots \subseteq list /\ cache.until \in Nat /\ Timely(cache.until, cache.slots)
          /\ now < cache.until
        BY <1>2 DEF CacheRight, Cached
    <2>2. \A s \in Sessions : slotOf[s] \in list => listedAt[s] \in Nat
        BY DEF ListRight
    <2> QED BY <1>0, <1>2, <2>1, <2>2 DEF Timely
  <1> QED BY <1>1, <1>2 DEF Revoked

LEMMA CacheStep ==
  IssuedInv /\ SlotsRight /\ ListRight /\ CacheRight /\ [CheckNext]_vars => CacheRight'
  <1> SUFFICES ASSUME IssuedInv, SlotsRight, ListRight, CacheRight, [CheckNext]_vars
               PROVE  CacheRight'
      OBVIOUS
  <1>0. Kept /\ now \in Nat /\ CacheTTL \in Nat
      BY KeptStep, CheckAssumption DEF IssuedInv
  <1>1. ASSUME NEW v \in Verifiers, FetchStatusList(v) PROVE CacheRight'
    <2>1. CASE UNCHANGED cache
        BY <1>0, <2>1, CacheStays
    <2>2. CASE cache' = [slots |-> list, until |-> now + CacheTTL]
      <3>1. cache'.slots = list /\ cache'.until = now + CacheTTL
          BY <2>2
      <3>2. UNCHANGED <<now, list, listedAt, slotOf>>
          BY <1>1 DEF FetchStatusList
      <3>3. Timely(now + CacheTTL, list)
          BY DEF ListRight, Timely
      <3>4. Timely(cache.until, cache.slots)'
          BY <3>1, <3>2, <3>3 DEF Timely
      <3> QED BY <1>0, <3>1, <3>2, <3>4 DEF CacheRight
    <2> QED BY <1>1, <2>1, <2>2 DEF FetchStatusList, Revoked
  <1>2. CASE RevokeWrites
    <2>1. cache' = None \/ UNCHANGED cache
        BY <1>2 DEF RevokeWrites
    <2> QED BY <1>0, <2>1, CacheStays DEF CacheRight
  <1>3. CASE Restart
      BY <1>3 DEF Restart, CacheRight
  <1>4. ASSUME NEW s, NEW v, NEW c, NEW p, NEW slot,
               RecordMethodResult(s, p) \/ Issue(s, slot) \/ RevokeReads(s) \/ CheckTick
                 \/ Verify(v, c, p) \/ EvaluateCheck(v) \/ Done(v) \/ UNCHANGED vars
        PROVE  CacheRight'
    <2>1. UNCHANGED cache
        BY <1>4 DEF RecordMethodResult, Issue, RevokeReads, CheckTick, Verify, EvaluateCheck, Done,
                    vars, storeVars
    <2> QED BY <1>0, <2>1, CacheStays
  <1> QED BY <1>1, <1>2, <1>3, <1>4 DEF CheckNext

LEMMA ServedStep ==
  IssuedInv /\ SlotsRight /\ ListRight /\ CacheRight /\ ServedRight /\ [CheckNext]_vars => ServedRight'
  <1> SUFFICES ASSUME IssuedInv, SlotsRight, ListRight, CacheRight, ServedRight, [CheckNext]_vars
               PROVE  ServedRight'
      OBVIOUS
  <1>0. Kept
      BY KeptStep
  <1>1. \A r \in served : ResponseRight(r)'
      BY <1>0, ResponseStays DEF ServedRight
  <1>2. ASSUME NEW v \in Verifiers, FetchStatusList(v) PROVE ServedRight'
    <2>1. CASE UNCHANGED served
        BY <1>1, <2>1 DEF ServedRight
    <2>2. ASSUME NEW slots, Revoked(slots), served' = Usable \cup {Serve(slots)}
          PROVE  ServedRight'
      <3>1. Serve(slots).bits = ListBits(slots) /\ Serve(slots).at = now
          BY DEF Serve
      <3>2. ResponseRight(Serve(slots))
          BY <2>2, <3>1, AnswerIsRight DEF ResponseRight
      <3>3. ResponseRight(Serve(slots))'
        <4> DEFINE r == Serve(slots)
        <4>1. PICK x : x = r
            OBVIOUS
        <4>2. ResponseRight(x)'
            BY <1>0, <3>2, <4>1, ResponseStays
        <4>3. now' = now
            BY <1>2 DEF FetchStatusList
        <4>4. r' = r
            BY <4>3 DEF Serve
        <4> QED BY <4>1, <4>2, <4>4 DEF ResponseRight
      <3>4. now' = now
          BY <1>2 DEF FetchStatusList
      <3> QED BY <1>1, <2>2, <3>3, <3>4 DEF ServedRight, Usable, Serve
    <2> QED BY <1>2, <2>1, <2>2 DEF FetchStatusList
  <1>3. CASE CheckTick
      BY <1>1, <1>3 DEF CheckTick, ServedRight
  <1>4. ASSUME NEW s, NEW v, NEW c, NEW p, NEW slot,
               RecordMethodResult(s, p) \/ Issue(s, slot) \/ RevokeReads(s) \/ RevokeWrites \/ Restart
                 \/ Verify(v, c, p) \/ EvaluateCheck(v) \/ Done(v) \/ UNCHANGED vars
        PROVE  ServedRight'
    <2>1. UNCHANGED served
        BY <1>4 DEF RecordMethodResult, Issue, RevokeReads, RevokeWrites, Restart, Verify, EvaluateCheck,
                    Done, vars, storeVars
    <2> QED BY <1>1, <2>1 DEF ServedRight
  <1> QED BY <1>2, <1>3, <1>4 DEF CheckNext

LEMMA EvaluateCodes ==
  ASSUME NEW c, NEW p, NEW t
  PROVE  Evaluate(c, p, t) \in EvaluationCodes \ {"revoked"}
  BY DEF Evaluate, EvaluationCodes

LEMMA VerdictStays ==
  ASSUME Kept, SlotsRight, NEW k, VerdictRight(k)
  PROVE  VerdictRight(k)'
  <1>1. /\ now \in Nat /\ now' \in Nat /\ now <= now' /\ asked \subseteq asked' /\ issued \subseteq issued'
        /\ CacheTTL \in Nat /\ MaxAge \in Nat
      BY CheckAssumption DEF Kept
  <1>2. k.step # "idle" => k.began \in Nat /\ k.began <= now /\ k.began <= now'
      BY <1>1 DEF VerdictRight
  <1>3. ASSUME k.c \in issued, InTime(k), k.step # "idle" PROVE InTime(k)'
    <2>1. k.c.id \in Sessions
        BY <1>3 DEF SlotsRight
    <2>2. revokedAt'[k.c.id] = revokedAt[k.c.id] \/ revokedAt'[k.c.id] = now'
        BY <2>1 DEF Kept
    <2>3. k.began <= now' + CacheTTL + MaxAge
        BY <1>1, <1>2, <1>3
    <2> QED BY <1>3, <2>2, <2>3 DEF InTime
  <1>4. k.step = "evaluate" \/ (k.step = "done" /\ k.code = "ok") => k.c \in issued' /\ InTime(k)'
      BY <1>1, <1>3 DEF VerdictRight
  <1> QED BY <1>1, <1>2, <1>4 DEF VerdictRight

(* A list that does not have a credential's slot bears the check out.      *)
LEMMA NotListedInTime ==
  ASSUME IssuedInv, SlotsRight, ListRight, NEW r, ResponseRight(r), now - r.at <= MaxAge,
         NEW k, k.c \in issued, k.began \in Nat, k.began <= now
  PROVE  /\ ~Get(r.bits, k.c.status) =>
              /\ InTime(k)
              /\ slotOf[k.c.id] \in list => now <= listedAt[k.c.id] + (CacheTTL + MaxAge)
         /\ Get(r.bits, k.c.status) => k.c.id \in asked /\ slotOf[k.c.id] \in list
  <1>1. /\ now \in Nat /\ CacheTTL \in Nat /\ MaxAge \in Nat /\ r.at \in Nat
        /\ Slots \subseteq 0..(statusListSize - 1) /\ None \notin Slots
      BY CheckAssumption DEF IssuedInv, ResponseRight
  <1>2. k.c.id \in Sessions /\ k.c.status = slotOf[k.c.id] /\ k.c.status \in Slots
      BY DEF SlotsRight
  <1>3. PICK slots \in SUBSET list : r.bits = ListBits(slots) /\ Timely(r.at, slots)
      BY DEF ResponseRight
  <1>4. Get(r.bits, k.c.status) <=> k.c.status \in slots
    <2>1. k.c.status \in 0..(statusListSize - 1)
        BY <1>1, <1>2
    <2>2. Get(ListBits(slots), k.c.status) <=> k.c.status \in slots
        BY <2>1, ListTellsSlots
    <2> QED BY <1>3, <2>2
  <1>5. ASSUME k.c.status \notin slots, slotOf[k.c.id] \in list
        PROVE  now <= listedAt[k.c.id] + (CacheTTL + MaxAge)
    <2>1. r.at <= listedAt[k.c.id] + CacheTTL /\ listedAt[k.c.id] \in Nat
        BY <1>2, <1>3, <1>5 DEF Timely, ListRight
    <2> QED BY <1>1, <2>1
  <1>7. ASSUME k.c.status \notin slots, revokedAt[k.c.id] # None
        PROVE  k.began <= revokedAt[k.c.id] + CacheTTL + MaxAge
    <2>1. /\ slotOf[k.c.id] \in list /\ listedAt[k.c.id] \in Nat /\ revokedAt[k.c.id] \in Nat
          /\ listedAt[k.c.id] <= revokedAt[k.c.id]
        BY <1>2, <1>7 DEF ListRight
    <2> QED BY <1>1, <1>5, <1>7, <2>1
  <1>6. ASSUME k.c.status \in slots PROVE k.c.id \in asked /\ slotOf[k.c.id] \in list
    <2>1. PICK s \in asked : slotOf[s] = k.c.status
        BY <1>3, <1>6 DEF ListRight
    <2>2. s = k.c.id
        BY <1>1, <1>2, <2>1 DEF SlotsRight, ListRight
    <2> QED BY <1>2, <1>3, <1>6, <2>1, <2>2
  <1> QED BY <1>4, <1>5, <1>6, <1>7 DEF InTime

LEMMA VerdictsStep ==
  /\ IssuedInv /\ ChecksInv /\ SlotsRight /\ ListRight /\ CacheRight /\ ServedRight /\ VerdictsRight
  /\ [CheckNext]_vars
  => VerdictsRight'
  <1> SUFFICES ASSUME IssuedInv, ChecksInv, SlotsRight, ListRight, CacheRight, ServedRight,
                      VerdictsRight, [CheckNext]_vars
               PROVE  VerdictsRight'
      OBVIOUS
  <1>0. Kept /\ now \in Nat /\ MaxAge \in Nat /\ DOMAIN check = Verifiers
      BY KeptStep, CheckAssumption DEF IssuedInv, ChecksInv
  <1>1. ASSUME check' = check PROVE VerdictsRight'
    <2> SUFFICES ASSUME NEW w \in Verifiers PROVE VerdictRight(check[w])'
        BY DEF VerdictsRight
    <2>1. PICK k : k = check[w]
        OBVIOUS
    <2>2. VerdictRight(k)'
        BY <1>0, <2>1, VerdictStays DEF VerdictsRight
    <2> QED BY <1>1, <2>1, <2>2 DEF VerdictRight, InTime
  <1>2. ASSUME NEW v \in Verifiers, NEW k, check' = [check EXCEPT ![v] = k], VerdictRight(k)
        PROVE  VerdictsRight'
    <2> SUFFICES ASSUME NEW w \in Verifiers PROVE VerdictRight(check[w])'
        BY DEF VerdictsRight
    <2>1. PICK x : x = IF w = v THEN k ELSE check[w]
        OBVIOUS
    <2>2. check'[w] = x
        BY <1>0, <1>2, <2>1
    <2>3. VerdictRight(x)
        BY <1>2, <2>1 DEF VerdictsRight
    <2>4. VerdictRight(x)'
        BY <1>0, <2>3, VerdictStays
    <2> QED BY <2>2, <2>4 DEF VerdictRight, InTime
  <1>3. ASSUME NEW v \in Verifiers, NEW c, NEW p, Verify(v, c, p) PROVE VerdictsRight'
    <2> DEFINE k == [step |-> "status", c |-> c, p |-> p, began |-> now]
    <2>1. check' = [check EXCEPT ![v] = k]
        BY <1>3 DEF Verify
    <2>2. k.step = "status" /\ k.began = now
        OBVIOUS
    <2> HIDE DEF k
    <2>3. VerdictRight(k)
        BY <1>0, <2>2 DEF VerdictRight
    <2> QED BY <1>2, <2>1, <2>3
  <1>4. ASSUME NEW v \in Verifiers, FetchStatusList(v) PROVE VerdictsRight'
    <2> DEFINE old == check[v]
               on == [old EXCEPT !.step = "evaluate"]
               no == [step |-> "done", code |-> "revoked", c |-> old.c, p |-> old.p,
                      began |-> old.began, at |-> now]
    <2>1. old.step = "status"
        BY <1>4 DEF FetchStatusList
    <2>2. /\ DOMAIN old = {"step", "c", "p", "began"} /\ old.c \in issued
          /\ old.began \in Nat /\ old.began <= now
        BY <2>1 DEF ChecksInv, VerdictsRight, VerdictRight
    <2>3. on.step = "evaluate" /\ on.c = old.c /\ on.began = old.began
        BY <2>2
    <2>4. no.step = "done" /\ no.code = "revoked" /\ no.c = old.c /\ no.began = old.began
        OBVIOUS
    <2>5. old.c.status # None
        BY <2>2, CheckAssumption DEF SlotsRight
    <2>6. PICK r \in Usable \cup {Serve(slots) : slots \in SUBSET Slots} :
            /\ \/ r \in Usable
               \/ \E slots \in SUBSET Slots : Revoked(slots) /\ r = Serve(slots)
            /\ check' = [check EXCEPT ![v] = IF Get(r.bits, old.c.status) THEN no ELSE on]
        BY <1>4, <2>5 DEF FetchStatusList
    <2> HIDE DEF old, on, no
    <2>7. ResponseRight(r) /\ now - r.at <= MaxAge
      <3>1. CASE r \in Usable
          BY <3>1 DEF Usable, ServedRight
      <3>2. ASSUME NEW slots, Revoked(slots), r = Serve(slots)
            PROVE  ResponseRight(r) /\ now - r.at <= MaxAge
        <4>1. r.bits = ListBits(slots) /\ r.at = now
            BY <3>2 DEF Serve
        <4> QED BY <1>0, <3>2, <4>1, AnswerIsRight DEF ResponseRight
      <3> QED BY <2>6, <3>1, <3>2
    <2>8. /\ ~Get(r.bits, old.c.status) => InTime(old)
          /\ Get(r.bits, old.c.status) => old.c.id \in asked
        BY <2>2, <2>7, NotListedInTime
    <2>9. CASE Get(r.bits, old.c.status)
      <3>1. VerdictRight(no)
          BY <2>2, <2>4, <2>8, <2>9 DEF VerdictRight, EvaluationCodes
      <3> QED BY <1>2, <2>6, <2>9, <3>1
    <2>10. CASE ~Get(r.bits, old.c.status)
      <3>1. VerdictRight(on)
          BY <2>2, <2>3, <2>8, <2>10 DEF VerdictRight, InTime
      <3> QED BY <1>2, <2>6, <2>10, <3>1
    <2> QED BY <2>9, <2>10
  <1>5. ASSUME NEW v \in Verifiers, EvaluateCheck(v) PROVE VerdictsRight'
    <2> DEFINE old == check[v]
               k == [step |-> "done", code |-> Evaluate(old.c, old.p, now), c |-> old.c, p |-> old.p,
                     began |-> old.began, at |-> now]
    <2>1. check' = [check EXCEPT ![v] = k] /\ old.step = "evaluate"
        BY <1>5 DEF EvaluateCheck
    <2>2. /\ k.step = "done" /\ k.code = Evaluate(old.c, old.p, now) /\ k.c = old.c /\ k.began = old.began
        OBVIOUS
    <2>3. VerdictRight(old)
        BY DEF VerdictsRight
    <2> HIDE DEF k, old
    <2>4. VerdictRight(k)
        BY <2>1, <2>2, <2>3, EvaluateCodes DEF VerdictRight, InTime
    <2> QED BY <1>2, <2>1, <2>4
  <1>6. ASSUME NEW v \in Verifiers, Done(v) PROVE VerdictsRight'
    <2>1. check' = [check EXCEPT ![v] = Idle] /\ Idle.step = "idle"
        BY <1>6 DEF Done, Idle
    <2> QED BY <1>2, <2>1 DEF VerdictRight
  <1>7. ASSUME NEW s, NEW p, NEW slot,
               RecordMethodResult(s, p) \/ Issue(s, slot) \/ RevokeReads(s) \/ RevokeWrites \/ Restart
                 \/ CheckTick \/ UNCHANGED vars
        PROVE  VerdictsRight'
    <2>1. check' = check
        BY <1>7 DEF RecordMethodResult, Issue, RevokeReads, RevokeWrites, Restart, CheckTick, vars
    <2> QED BY <1>1, <2>1
  <1> QED BY <1>3, <1>4, <1>5, <1>6, <1>7 DEF CheckNext

StatusInv ==
  IssuedInv /\ ChecksInv /\ SlotsRight /\ ListRight /\ CacheRight /\ ServedRight /\ VerdictsRight

LEMMA StatusStarts == CheckInit => StatusInv
  <1> SUFFICES ASSUME CheckInit PROVE StatusInv
      OBVIOUS
  <1>1. \A s \in Sessions : session[s] = [methods |-> {}, anchor |-> None]
      BY DEF CheckInit
  <1>2. IssuedInv
      BY <1>1 DEF CheckInit, IssuedInv, AnchorIn
  <1>3. ChecksInv /\ VerdictsRight
      BY DEF CheckInit, ChecksInv, VerdictsRight, VerdictRight, Idle
  <1>4. SlotsRight /\ ListRight /\ CacheRight /\ ServedRight
      BY CheckAssumption DEF CheckInit, SlotsRight, ListRight, CacheRight, ServedRight
  <1> QED BY <1>2, <1>3, <1>4 DEF StatusInv

LEMMA StatusStep == StatusInv /\ [CheckNext]_vars => StatusInv'
  BY IssuedInvStep, ChecksInvStep, SlotsStep, ListRightStep, CacheStep, ServedStep, VerdictsStep
     DEF StatusInv

(* However many credentials, verifiers and HTTP caches there are, whichever *)
(* store keeps the list, and whenever it restarts or a write of it fails:  *)
(* a check that begins when the caches of the store and of the responses   *)
(* have run out refuses a credential whose revocation was acknowledged,    *)
(* and nobody else's is refused for it (handleAdminRevoke, Revoke,         *)
(* handleStatusList, IsRevoked).                                           *)
THEOREM StatusIsTrueHolds == CheckSpec => []StatusIsTrue
  <1>1. StatusInv => StatusIsTrue
    <2> SUFFICES ASSUME VerdictsRight, NEW v \in Verifiers, check[v].step = "done"
                 PROVE  /\ check[v].code = "ok" /\ revokedAt[check[v].c.id] # None
                             => check[v].began <= revokedAt[check[v].c.id] + CacheTTL + MaxAge
                        /\ check[v].code = "revoked" => check[v].c.id \in asked
        BY DEF StatusInv, StatusIsTrue, RevokedIsSeen, OnlyTheRevoked, Results
    <2>1. VerdictRight(check[v])
        BY DEF VerdictsRight
    <2> QED BY <2>1 DEF VerdictRight, InTime
  <1> QED BY <1>1, StatusStarts, StatusStep, PTL DEF CheckSpec

(* Every step is a step of Revocation, or leaves what it sees alone.       *)
Promised == [Revoke!Next]_<<now, asked, Since, Told, Answers>>

LEMMA AskedStep ==
  ASSUME StatusInv, NEW s \in Sessions, RevokeReads(s)
  PROVE  Promised
  <1>0. now \in Nat /\ None \notin Nat /\ None \notin list
      BY CheckAssumption DEF StatusInv, IssuedInv, ListRight
  <1>1. /\ UNCHANGED <<now, slotOf, list, listedAt, check>> /\ asked' = asked \cup {s} /\ slotOf[s] # None
      BY DEF RevokeReads
  <1>2. Since' = Since /\ Answers' = Answers
      BY <1>1 DEF Since, Answers
  <1>3. CASE /\ slotOf[s] \in list
             /\ revokedAt' = [revokedAt EXCEPT ![s] = IF revokedAt[s] = None THEN now ELSE revokedAt[s]]
    <2>1. PICK z \in asked : slotOf[z] = slotOf[s]
        BY <1>3 DEF StatusInv, ListRight
    <2>2. z = s /\ asked' = asked
        BY <1>1, <2>1 DEF StatusInv, ListRight, SlotsRight
    <2>3. \A x \in Sessions : revokedAt'[x] # None <=> revokedAt[x] # None \/ x = s
        BY <1>0, <1>3 DEF StatusInv, ListRight
    <2>4. Told' = Told \cup {s}
        BY <2>3 DEF Told
    <2>5. Since[s] # None
        BY <1>0, <1>3 DEF Since, StatusInv, ListRight
    <2>6. Revoke!Tell(s)
        BY <1>1, <1>2, <2>2, <2>4, <2>5 DEF Revoke!Tell
    <2> QED BY <2>6 DEF Promised, Revoke!Next
  <1>4. CASE revokedAt' = revokedAt
    <2>1. Told' = Told
        BY <1>4 DEF Told
    <2>2. Revoke!Ask(s)
        BY <1>1, <1>2, <2>1 DEF Revoke!Ask
    <2> QED BY <2>2 DEF Promised, Revoke!Next
  <1> QED BY <1>3, <1>4 DEF RevokeReads

LEMMA ListedStep ==
  ASSUME StatusInv, RevokeWrites
  PROVE  Promised
  <1>0. now \in Nat /\ None \notin Nat /\ None \notin list
      BY CheckAssumption DEF StatusInv, IssuedInv, ListRight
  <1>1. PICK s \in asked :
          /\ s = revoking.id /\ s \in Sessions /\ slotOf[s] \in Slots
          /\ RevokedList(revoking) = list \cup {slotOf[s]}
      BY DEF RevokeWrites, RevokedList, StatusInv, ListRight, SlotsRight
  <1>2. /\ UNCHANGED <<now, slotOf, asked, check>>
        /\ \A z \in Sessions : listedAt'[z] = IF slotOf[z] \in list' \ list THEN now ELSE listedAt[z]
        /\ \/ list' = list \cup {slotOf[s]} /\ revokedAt' = [revokedAt EXCEPT ![s] = now]
           \/ list' \in {list, list \cup {slotOf[s]}} /\ revokedAt' = revokedAt
      BY <1>1 DEF RevokeWrites
  <1>3. Answers' = Answers
      BY <1>2 DEF Answers
  <1>4. Told' = Told \/ (Told' = Told \cup {s} /\ list' = list \cup {slotOf[s]})
      BY <1>0, <1>1, <1>2 DEF Told, StatusInv, ListRight
  <1>5. CASE list' = list
    <2>1. Since' = Since
        BY <1>2, <1>5 DEF Since
    <2>2. CASE Told' = Told
        BY <1>2, <1>3, <2>1, <2>2 DEF Promised
    <2>3. CASE Told' = Told \cup {s} /\ slotOf[s] \in list
      <3>1. Since[s] # None
          BY <1>0, <1>1, <2>3 DEF Since, StatusInv, ListRight
      <3>2. Revoke!Tell(s)
          BY <1>2, <1>3, <2>1, <2>3, <3>1 DEF Revoke!Tell
      <3> QED BY <1>1, <3>2 DEF Promised, Revoke!Next
    <2> QED BY <1>4, <1>5, <2>2, <2>3
  <1>6. CASE list' # list
    <2>1. list' = list \cup {slotOf[s]} /\ slotOf[s] \notin list
        BY <1>2, <1>6
    <2>2. \A z \in Sessions : slotOf[z] \in list' <=> slotOf[z] \in list \/ z = s
        BY <1>1, <2>1, CheckAssumption DEF StatusInv, SlotsRight
    <2>3. Since[s] = None /\ Since' = [Since EXCEPT ![s] = now]
        BY <1>1, <1>2, <2>1, <2>2 DEF Since
    <2>4. Revoke!List(s)
        BY <1>1, <1>2, <1>3, <1>4, <2>3 DEF Revoke!List
    <2> QED BY <1>1, <2>4 DEF Promised, Revoke!Next
  <1> QED BY <1>5, <1>6

(* A check of another step, or none, is nothing that Revocation sees.      *)
LEMMA SameAnswers ==
  ASSUME StatusInv, NEW v \in Verifiers, NEW k, check' = [check EXCEPT ![v] = k],
         \/ k.step \in {"idle", "status"} /\ check[v].step \in {"idle", "status"}
         \/ /\ k.step \in {"evaluate", "done"} /\ check[v].step \in {"evaluate", "done"}
            /\ k.c = check[v].c
            /\ k.step = "done" /\ k.code = "revoked" <=> check[v].step = "done" /\ check[v].code = "revoked"
  PROVE  Answers' = Answers
  <1>1. \A w \in Verifiers : check'[w] = IF w = v THEN k ELSE check[w]
      BY DEF StatusInv, ChecksInv
  <1> QED BY <1>1 DEF Answers

LEMMA AnsweredStep ==
  ASSUME StatusInv, NEW v \in Verifiers, FetchStatusList(v)
  PROVE  Promised
  <1>0. now \in Nat /\ MaxAge \in Nat /\ CacheTTL \in Nat /\ DOMAIN check = Verifiers
      BY CheckAssumption DEF StatusInv, IssuedInv, ChecksInv
  <1> DEFINE old == check[v]
             on == [old EXCEPT !.step = "evaluate"]
             no == [step |-> "done", code |-> "revoked", c |-> old.c, p |-> old.p,
                    began |-> old.began, at |-> now]
  <1>1. UNCHANGED <<now, slotOf, list, listedAt, revokedAt, asked>>
      BY DEF FetchStatusList
  <1>2. Since' = Since /\ Told' = Told
      BY <1>1 DEF Since, Told
  <1>3. old.step = "status"
      BY DEF FetchStatusList
  <1>4. /\ DOMAIN old = {"step", "c", "p", "began"} /\ old.c \in issued
        /\ old.began \in Nat /\ old.began <= now
      BY <1>3 DEF StatusInv, ChecksInv, VerdictsRight, VerdictRight
  <1>5. old.c.status # None /\ old.c.id \in Sessions /\ old.c.status = slotOf[old.c.id]
      BY <1>4, CheckAssumption DEF StatusInv, SlotsRight
  <1>6. PICK r \in Usable \cup {Serve(slots) : slots \in SUBSET Slots} :
          /\ \/ r \in Usable
             \/ \E slots \in SUBSET Slots : Revoked(slots) /\ r = Serve(slots)
          /\ check' = [check EXCEPT ![v] = IF Get(r.bits, old.c.status) THEN no ELSE on]
      BY <1>5 DEF FetchStatusList
  <1>7. ResponseRight(r) /\ now - r.at <= MaxAge
    <2>1. CASE r \in Usable
        BY <2>1 DEF Usable, StatusInv, ServedRight
    <2>2. ASSUME NEW slots, Revoked(slots), r = Serve(slots)
          PROVE  ResponseRight(r) /\ now - r.at <= MaxAge
      <3>1. r.bits = ListBits(slots) /\ r.at = now
          BY <2>2 DEF Serve
      <3> QED BY <1>0, <2>2, <3>1, AnswerIsRight DEF ResponseRight, StatusInv
    <2> QED BY <1>6, <2>1, <2>2
  <1>8. on.step = "evaluate" /\ on.c = old.c
      BY <1>4
  <1>9. no.step = "done" /\ no.code = "revoked" /\ no.c = old.c
      OBVIOUS
  <1> HIDE DEF old, on, no
  <1>10. /\ ~Get(r.bits, old.c.status) =>
              (slotOf[old.c.id] \in list => now <= listedAt[old.c.id] + (CacheTTL + MaxAge))
         /\ Get(r.bits, old.c.status) => slotOf[old.c.id] \in list
      BY <1>4, <1>7, NotListedInTime DEF StatusInv
  <1>11. PICK seen \in BOOLEAN : seen = Get(r.bits, old.c.status)
    <2>1. Get(r.bits, old.c.status) \in BOOLEAN
        BY DEF Get
    <2> QED BY <2>1
  <1>12. PICK k : k = IF seen THEN no ELSE on
      OBVIOUS
  <1>13. check' = [check EXCEPT ![v] = k]
      BY <1>6, <1>11, <1>12
  <1>14. \A w \in Verifiers : check'[w] = IF w = v THEN k ELSE check[w]
      BY <1>0, <1>13
  <1>15. /\ k.step \in {"evaluate", "done"} /\ k.c = old.c
         /\ (k.step = "done" /\ k.code = "revoked") = seen
    <2>1. CASE seen
        BY <1>9, <1>12, <2>1
    <2>2. CASE ~seen
        BY <1>8, <1>12, <2>2
    <2> QED BY <2>1, <2>2
  <1>16. Answers' = [Answers EXCEPT ![v] = [of |-> old.c.id, revoked |-> seen]]
      BY <1>14, <1>15 DEF Answers
  <1>17. Since[old.c.id] = IF slotOf[old.c.id] \in list THEN listedAt[old.c.id] ELSE None
      BY <1>5 DEF Since
  <1>18. slotOf[old.c.id] \in list => listedAt[old.c.id] \in Nat /\ None \notin Nat
      BY <1>5, CheckAssumption DEF StatusInv, ListRight
  <1>19. IF seen THEN Since[old.c.id] # None
         ELSE Since[old.c.id] = None \/ now <= Since[old.c.id] + (CacheTTL + MaxAge)
      BY <1>10, <1>11, <1>17, <1>18
  <1>20. Revoke!Answer(v, old.c.id)
      BY <1>1, <1>2, <1>16, <1>19 DEF Revoke!Answer
  <1> QED BY <1>5, <1>20 DEF Promised, Revoke!Next

LEMMA PromiseStep == StatusInv /\ [CheckNext]_vars => Promised
  <1> SUFFICES ASSUME StatusInv, [CheckNext]_vars PROVE Promised
      OBVIOUS
  <1>0. None \notin list /\ DOMAIN check = Verifiers
      BY CheckAssumption DEF StatusInv, ListRight, ChecksInv
  <1>1. CASE UNCHANGED <<now, asked, Since, Told, Answers>>
      BY <1>1 DEF Promised
  <1>2. ASSUME UNCHANGED <<now, slotOf, list, listedAt, revokedAt, asked>>, Answers' = Answers PROVE Promised
    <2>1. Since' = Since /\ Told' = Told
        BY <1>2 DEF Since, Told
    <2> QED BY <1>1, <1>2, <2>1
  <1>3. ASSUME NEW s \in Sessions, NEW slot \in Slots, Issue(s, slot) PROVE Promised
    <2>1. UNCHANGED <<now, list, listedAt, revokedAt, asked, check>>
        BY <1>3 DEF Issue
    <2>2. slot \notin list /\ slotOf[s] \notin list
        BY <1>0, <1>3, IssuedSlot DEF StatusInv, ListRight
    <2>3. \A z \in Sessions : slotOf'[z] \in list <=> slotOf[z] \in list
        BY <1>3, <2>2, IssuedSlot DEF StatusInv
    <2>4. Since' = Since /\ Told' = Told /\ Answers' = Answers
        BY <2>1, <2>3 DEF Since, Told, Answers
    <2> QED BY <1>1, <2>1, <2>4
  <1>4. ASSUME NEW s, NEW p, RecordMethodResult(s, p) \/ Restart \/ UNCHANGED vars PROVE Promised
    <2>1. UNCHANGED <<now, slotOf, list, listedAt, revokedAt, asked, check>>
        BY <1>4 DEF RecordMethodResult, Restart, vars, storeVars
    <2>2. Answers' = Answers
        BY <2>1 DEF Answers
    <2> QED BY <1>2, <2>1, <2>2
  <1>5. CASE CheckTick
    <2>1. /\ now' = now + 1 /\ UNCHANGED <<slotOf, list, listedAt, revokedAt, asked, check>>
        BY <1>5 DEF CheckTick, storeVars
    <2>2. Since' = Since /\ Told' = Told /\ Answers' = Answers
        BY <2>1 DEF Since, Told, Answers
    <2>3. Revoke!Tick
        BY <2>1, <2>2 DEF Revoke!Tick
    <2> QED BY <2>3 DEF Promised, Revoke!Next
  <1>6. ASSUME NEW v \in Verifiers, NEW c, NEW p, Verify(v, c, p) PROVE Promised
    <2>1. UNCHANGED <<now, slotOf, list, listedAt, revokedAt, asked>> /\ check[v].step = "idle"
        BY <1>6 DEF Verify, storeVars
    <2>2. PICK k : k = [step |-> "status", c |-> c, p |-> p, began |-> now]
        OBVIOUS
    <2>3. check' = [check EXCEPT ![v] = k] /\ k.step = "status"
        BY <1>6, <2>2 DEF Verify
    <2>4. Answers' = Answers
        BY <2>1, <2>3, SameAnswers
    <2> QED BY <1>2, <2>1, <2>4
  <1>7. ASSUME NEW v \in Verifiers, EvaluateCheck(v) PROVE Promised
    <2>1. UNCHANGED <<now, slotOf, list, listedAt, revokedAt, asked>> /\ check[v].step = "evaluate"
        BY <1>7 DEF EvaluateCheck, storeVars
    <2>2. PICK old : old = check[v]
        OBVIOUS
    <2>3. PICK k : k = [step |-> "done", code |-> Evaluate(old.c, old.p, now), c |-> old.c, p |-> old.p,
                        began |-> old.began, at |-> now]
        OBVIOUS
    <2>4. check' = [check EXCEPT ![v] = k]
        BY <1>7, <2>2, <2>3 DEF EvaluateCheck
    <2>5. k.step = "done" /\ k.code # "revoked" /\ k.c = check[v].c
      <3>1. Evaluate(old.c, old.p, now) # "revoked"
          BY EvaluateCodes
      <3> QED BY <2>2, <2>3, <3>1
    <2>6. Answers' = Answers
        BY <2>1, <2>4, <2>5, SameAnswers
    <2> QED BY <1>2, <2>1, <2>6
  <1>8. ASSUME NEW v \in Verifiers, Done(v) PROVE Promised
    <2>1. UNCHANGED <<now, slotOf, list, listedAt, revokedAt, asked>>
        BY <1>8 DEF Done, storeVars
    <2>2. \A w \in Verifiers : check'[w] = IF w = v THEN Idle ELSE check[w]
        BY <1>0, <1>8 DEF Done
    <2>6. check'[v].step = "idle" /\ \A w \in Verifiers \ {v} : check'[w] = check[w]
        BY <2>2 DEF Idle
    <2>3. Answers' = [Answers EXCEPT ![v] = None]
        BY <2>6 DEF Answers
    <2>4. Since' = Since /\ Told' = Told
        BY <2>1 DEF Since, Told
    <2>5. Revoke!Forget(v)
        BY <2>1, <2>3, <2>4 DEF Revoke!Forget
    <2> QED BY <2>5 DEF Promised, Revoke!Next
  <1> QED BY <1>3, <1>4, <1>5, <1>6, <1>7, <1>8, AskedStep, ListedStep, AnsweredStep DEF CheckNext

(* However many credentials, verifiers and HTTP caches there are, whichever *)
(* store keeps the list, and whenever it restarts or a write of it fails   *)
(* or lands unnoticed: store, cache, responses and checks are together one *)
(* list that only grows, by what an operator asked for, and that every     *)
(* check reads at most CacheTTL + MaxAge late (Revoke, Revoked,            *)
(* handleStatusList, IsRevoked).                                           *)
THEOREM CheckImplementsRevocation == CheckSpec => ImplementsRevocation
  <1>1. CheckInit => Revoke!Init
      BY DEF CheckInit, Revoke!Init, Since, Told, Answers, Idle
  <1>2. StatusInv /\ [CheckNext]_vars => [Revoke!Next]_<<now, asked, Since, Told, Answers>>
      BY PromiseStep DEF Promised
  <1> QED BY <1>1, <1>2, StatusStarts, StatusStep, PTL DEF CheckSpec, ImplementsRevocation, Revoke!Spec

(* A method done again replaces its result; there is no empty credential.  *)
OneResultEach ==
  /\ now \in 0..MaxTime
  /\ \A s \in Sessions : \A m, n \in session[s].methods : m.id = n.id => m = n
  /\ \A c \in issued : c.methods # {}

LEMMA OneResultStep == IssuedInv /\ OneResultEach /\ [CheckNext]_vars => OneResultEach'
  <1> SUFFICES ASSUME IssuedInv, OneResultEach, [CheckNext]_vars PROVE OneResultEach'
      OBVIOUS
  <1>1. ASSUME NEW s \in Sessions, NEW p \in registry, RecordMethodResult(s, p) PROVE OneResultEach'
    <2> DEFINE new == ResultOf(p)
               ms == ResultIn(session[s].methods, p)
               a == IF p.type = "anchor" THEN p.id ELSE session[s].anchor
    <2>1. /\ session' = [session EXCEPT ![s].methods = ms, ![s].anchor = a]
          /\ UNCHANGED <<now, issued>>
        BY <1>1 DEF RecordMethodResult
    <2>2. new.id = p.id /\ ms = {x \in session[s].methods : x.id # p.id} \cup {new}
        BY DEF ResultOf, ResultIn
    <2> HIDE DEF new, ms, a
    <2>3. DOMAIN session = Sessions /\ DOMAIN session[s] = {"methods", "anchor"}
        BY DEF IssuedInv
    <2>4. /\ \A t \in Sessions \ {s} : session'[t] = session[t]
          /\ session'[s] = [[session[s] EXCEPT !.methods = ms] EXCEPT !.anchor = a]
        BY <2>1, <2>3
    <2>5. session'[s].methods = ms
        BY <2>3, <2>4
    <2>6. \A m, n \in ms : m.id = n.id => m = n
        BY <2>2 DEF OneResultEach
    <2>7. ASSUME NEW t \in Sessions PROVE \A m, n \in session'[t].methods : m.id = n.id => m = n
      <3>1. CASE t = s
          BY <2>5, <2>6, <3>1
      <3>2. CASE t # s
          BY <2>4, <3>2 DEF OneResultEach
      <3> QED BY <3>1, <3>2
    <2> QED BY <2>1, <2>7 DEF OneResultEach
  <1>2. ASSUME NEW s \in Sessions, NEW slot \in Slots, Issue(s, slot) PROVE OneResultEach'
    <2> DEFINE body == [id |-> s, issuer |-> "issuer", issued |-> now, expires |-> now + Lifetime,
                        methods |-> session[s].methods, anchor |-> session[s].anchor,
                        nullifier |-> IF s \in Setting.keyed THEN s ELSE None, status |-> slot]
               new == Signed(body, "issuerKey")
    <2>1. /\ issued' = issued \cup {new} /\ new.methods = session[s].methods
          /\ session[s].methods # {} /\ UNCHANGED <<now, session>>
        BY <1>2 DEF Issue, Signed, CredentialFields
    <2> HIDE DEF new
    <2> QED BY <2>1 DEF OneResultEach
  <1>3. CASE CheckTick
      BY <1>3, CheckAssumption DEF CheckTick, OneResultEach
  <1>4. ASSUME NEW s, NEW v, NEW c, NEW p,
               RevokeReads(s) \/ RevokeWrites \/ Restart \/ Verify(v, c, p) \/ FetchStatusList(v)
                 \/ EvaluateCheck(v) \/ Done(v) \/ UNCHANGED vars
        PROVE  OneResultEach'
    <2>1. UNCHANGED <<now, session, issued>>
        BY <1>4 DEF RevokeReads, RevokeWrites, Restart, Verify, FetchStatusList, EvaluateCheck, Done, vars
    <2> QED BY <2>1 DEF OneResultEach
  <1> QED BY <1>1, <1>2, <1>3, <1>4 DEF CheckNext

(* Sessions, credentials, the store and the checks have their types; every *)
(* credential handed out is valid and carries the issuer's signature.      *)
THEOREM CheckTypes == CheckSpec => []CheckTypeOK
  <1>1. CheckInit => OneResultEach
    <2> SUFFICES ASSUME CheckInit PROVE OneResultEach
        OBVIOUS
    <2>1. \A s \in Sessions : session[s] = [methods |-> {}, anchor |-> None]
        BY DEF CheckInit
    <2> QED BY <2>1, CheckAssumption DEF CheckInit, OneResultEach
  <1>2. StatusInv /\ [CheckNext]_vars /\ OneResultEach => OneResultEach'
      BY OneResultStep DEF StatusInv
  <1>3. StatusInv /\ OneResultEach => CheckTypeOK
    <2> SUFFICES ASSUME StatusInv, OneResultEach PROVE CheckTypeOK
        OBVIOUS
    <2>1. /\ scenario \in DOMAIN Scenarios /\ registry \in Registries(Setting.plugins)
          /\ now \in 0..MaxTime /\ MaxTime \in Nat /\ CacheTTL \in Nat /\ Lifetime \in Nat \ {0}
        BY CheckAssumption DEF StatusInv, IssuedInv, OneResultEach
    <2>2. \A s \in Sessions : /\ \A m, n \in session[s].methods :
                                   m.at \in 0..now /\ (m.id = n.id => m = n)
                              /\ session[s].anchor # None =>
                                   \E m \in session[s].methods : m.id = session[s].anchor
        BY <2>1 DEF StatusInv, IssuedInv, OneResultEach, Recorded, AnchorIn
    <2>3. ASSUME NEW c \in issued
          PROVE  c = Signed(c, "issuerKey") /\ c.issuer = "issuer" /\ CredentialValidate(c)
                 /\ c.status = slotOf[c.id]
      <3>1. IssuedRight(c)
          BY DEF StatusInv, IssuedInv
      <3>2. c = Signed(c, "issuerKey")
        <4>1. \A f \in AllFields : c[f] = Signed(c, "issuerKey")[f]
            BY <3>1 DEF IssuedRight, AllFields, Signed
        <4> QED BY <3>1, <4>1 DEF IssuedRight, AllFields, Signed
      <3>3. CredentialValidate(c)
          BY <2>1, <3>1 DEF IssuedRight, AnchorIn, CredentialValidate, OneResultEach
      <3> QED BY <3>2, <3>3 DEF StatusInv, SlotsRight
    <2>4. /\ list \subseteq Slots
          /\ cache # None => cache.slots \subseteq Slots /\ cache.until \in 0..(MaxTime + CacheTTL)
          /\ revoking # None => revoking.id \in Sessions
        BY <2>1 DEF StatusInv, ListRight, CacheRight
    <2>5. \A v \in Verifiers : /\ check[v].step \in {"idle", "status", "evaluate", "done"}
                               /\ check[v].step = "done" => check[v].code \in EvaluationCodes
        BY DEF StatusInv, VerdictsRight, VerdictRight
    <2> QED BY <2>1, <2>2, <2>3, <2>4, <2>5 DEF CheckTypeOK
  <1> QED BY <1>1, <1>2, <1>3, StatusStarts, StatusStep, PTL DEF CheckSpec

=============================================================================
