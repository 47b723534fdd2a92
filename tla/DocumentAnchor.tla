--------------------------- MODULE DocumentAnchor ---------------------------
(***************************************************************************)
(* The document anchor (src/methods/document-chip and                      *)
(* src/server/documentanchor.go): passports and identity cards read from   *)
(* their chip, and cards with a signed QR code.                            *)
(*                                                                         *)
(* A key is a value; a signature is the key that made it, and what it      *)
(* covers is the rest of the record it is in.  A file hash is the file.  A *)
(* chip answers an Active Authentication challenge only when it is tapped, *)
(* and its answer can be kept and sent at any time by anyone.              *)
(*                                                                         *)
(* The dual-document check reads the face index, asks whether the document *)
(* is known, and writes, each in a step of its own, under the mutex of its *)
(* method.                                                                 *)
(*                                                                         *)
(* Left out: the encodings (ASN.1, base64, zlib) and their size limits,    *)
(* which algorithm checks a signature, DG14, which only names the hash of  *)
(* an answer, the reasons of a refusal, the in-memory stores of a          *)
(* development server, which a restart empties together with all else.     *)
(***************************************************************************)
EXTENDS Integers, Sequences, FiniteSets

CONSTANTS
  MasterLists,       \* the lists one of which is embedded in the build, by name
  Pinned,            \* fingerprints of the anchors: certificates
  ExtraCertificates, \* DOCUMENT_CHIP_CSCA_PEM, a sequence
  AllowPassiveOnly,
  Chips,             \* what can be read from a chip
  Formats,           \* the QR formats, a sequence
  Cards,             \* QR codes
  FaceOf,            \* whose face the phone sees, for each chip and card
  DocSessions, DocCalls, Nonces,
  challengeTTL,
  Day,               \* a day, in the ticks of the model
  MaxDocTime,           \* bound of the model: time stops here
  MaxResults,        \* bound of the model: successes
  NoneDoc            \* absent

ASSUME DocBounds == challengeTTL \in Nat /\ Day \in Nat /\ MaxDocTime \in Nat /\ MaxResults \in Nat
ASSUME NoneDocIsNone == NoneDoc \notin DocSessions \cup DocCalls \cup Nonces

VARIABLES
  embedded,    \* the list the build has: with it, what Config.Trust holds
  challenge,   \* challengeStore
  taps,        \* the answers chips gave
  docCall,     \* the completions in flight
  faceMu,      \* the mutex of each method: the call that holds it
  faces,       \* the face index
  docReviews,  \* the review queue
  known,       \* identifiers with a seed
  time,
  \* What happened, for the properties.
  began,       \* nonces handed out, with their session
  wins,        \* completions that succeeded on a nonce
  results      \* the successful results

docVars == <<embedded, challenge, taps, docCall, faceMu, faces, docReviews, known, time,
             began, wins, results>>

-----------------------------------------------------------------------------
(* The trust in document signers.                                          *)

sameName(a, b) == a = b

issuersOf(certs, c) ==
  {i \in DOMAIN certs :
    /\ sameName(certs[i].subject, c.issuer)
    /\ c.authKeyId # NoneDoc /\ certs[i].keyId # NoneDoc => c.authKeyId = certs[i].keyId}

CheckSignatureFrom(c, ca) == c.signedWith = ca.key

(* The authorities that issued the certificate, by their places in the     *)
(* list; the first one counts.                                             *)
Chain(certs, c) == {i \in issuersOf(certs, c) : CheckSignatureFrom(c, certs[i])}
Chains(certs, c) == Chain(certs, c) # {}
Earliest(places) == CHOOSE i \in places : \A j \in places : i <= j

Anchors(ml) == SelectSeq(ml.embedded \o ml.listed, LAMBDA c : c \in Pinned)

(* A master list is added when its signer chains to a pinned anchor.       *)
AddMasterList(ml) ==
  /\ Anchors(ml) # <<>>
  /\ Chains(Anchors(ml), ml.signer) /\ ml.signedWith = ml.signer.key

(* The trust store: the list, then the certificates of the operator.      *)
trusted == MasterLists[embedded].listed \o ExtraCertificates

(* VerifySignature: the state that vouches for the chip, or none.          *)
Country(sod) ==
  LET ca == trusted[Earliest(Chain(trusted, sod.dsc))]
  IN IF ~Chains(trusted, sod.dsc) \/ sod.signedWith # sod.dsc.key THEN NoneDoc
     ELSE IF ca.country # NoneDoc THEN ca.country ELSE sod.dsc.country

(* A state that a pinned authority or the operator stands behind signs the *)
(* objects of its own chips only, and lists the key of the chip in them.   *)
ASSUME StatesSignTheirOwn ==
  \A l \in DOMAIN MasterLists, ch \in Chips :
    LET certs == MasterLists[l].listed \o ExtraCertificates
        dsc == ch.sod.dsc
    IN AddMasterList(MasterLists[l]) =>
         /\ DOMAIN certs \subseteq Nat
         /\ \A i \in Chain(certs, dsc) : ch.sod.signedWith = dsc.key =>
              /\ ch.genuine = IF certs[i].country # NoneDoc THEN certs[i].country ELSE dsc.country
              /\ ch.sod.dg15 = ch.key

-----------------------------------------------------------------------------
(* The chip: its security object lists the files of the chip.              *)

ChipExpired(dg1) == time > dg1.expiry + Day

CheckDataGroup(listed, file) == file = listed

(* If the signed object lists DG15, the chip must answer the challenge.    *)
ActiveAuth(r, nonce) ==
  IF r.sod.dg15 # NoneDoc
  THEN /\ r.dg15 # NoneDoc /\ r.sig # NoneDoc
       /\ CheckDataGroup(r.sod.dg15, r.dg15)
       /\ r.sig = [key |-> r.dg15, nonce |-> nonce]
  ELSE AllowPassiveOnly

(* A document number is compared without its fillers.                      *)
ChipIdentifier(country, number) ==
  [kind |-> "chip", of |-> <<country, SelectSeq(number, LAMBDA ch : ch # "<")>>]

ChipVerifies(r, nonce) ==
  /\ CheckDataGroup(r.sod.dg1, r.dg1) /\ ~ChipExpired(r.dg1)
  /\ ActiveAuth(r, nonce)
  /\ Country(r.sod) # NoneDoc

(* What a phone can send: files of chips it has read, and answers it has.  *)
ChipResponses ==
  [sod : {ch.sod : ch \in Chips}, dg1 : {ch.sod.dg1 : ch \in Chips},
   dg15 : {ch.sod.dg15 : ch \in Chips} \cup {NoneDoc}, sig : taps \cup {NoneDoc}]

-----------------------------------------------------------------------------
(* The signed QR code.                                                     *)

detects(f, card) == card.tag \in f.tags

KeyValidAt(cert, signedAt) ==
  signedAt = NoneDoc \/ (signedAt >= cert.notBefore - Day /\ signedAt <= cert.notAfter + Day)

FormatVerify(f, card) ==
  \E cert \in f.certs : KeyValidAt(cert, card.signedAt) /\ card.signedWith = cert.key

(* The formats that verify the card, of those asked for, by their places;  *)
(* the first counts.                                                       *)
QRVerify(card, format) ==
  {i \in DOMAIN Formats : LET f == Formats[i] IN
     format \in {NoneDoc, f.id} /\ detects(f, card) /\ FormatVerify(f, card)}

UniqueKey(f, card) == [kind |-> "qr", of |-> <<f.country, f.document, card.fields>>]

(* The formats of signedqr/formats are layouts of one document: whoever    *)
(* signs a person's card signs it as the same document in each.            *)
ASSUME FormatsOfOneDocument ==
  /\ DOMAIN Formats \subseteq Nat
  /\ \A i, j \in DOMAIN Formats, c, d \in Cards :
       FormatVerify(Formats[i], c) /\ FormatVerify(Formats[j], d) /\ c.fields = d.fields =>
         Formats[i].country = Formats[j].country /\ Formats[i].document = Formats[j].document

-----------------------------------------------------------------------------
(* What a completion in flight can carry.                                  *)

DocIdentifiers ==
  {ChipIdentifier(ch.genuine, ch.sod.dg1.number) : ch \in Chips} \cup
  {UniqueKey(Formats[i], card) : i \in DOMAIN Formats, card \in Cards}
Read == {ch.sod.dg1 : ch \in Chips} \cup {card.fields : card \in Cards}

DocRequests ==
  [at : {"find", "known", "case", "add"}, method : {"chip", "qr"}, session : DocSessions,
   nonce : Nonces \cup {NoneDoc}, id : DocIdentifiers, of : Read,
   face : {FaceOf[x] : x \in Read} \cup {NoneDoc}]

ASSUME NoneDocIsNoRequest == NoneDoc \notin DocRequests

-----------------------------------------------------------------------------
DocInit ==
  /\ embedded \in DOMAIN MasterLists /\ AddMasterList(MasterLists[embedded])
  /\ challenge = [s \in DocSessions |-> NoneDoc] /\ taps = {}
  /\ docCall = [c \in DocCalls |-> NoneDoc] /\ faceMu = [m \in {"chip", "qr"} |-> NoneDoc]
  /\ faces = {} /\ docReviews = {} /\ known = {} /\ time = 0
  /\ began = [n \in Nonces |-> NoneDoc] /\ wins = [n \in Nonces |-> 0] /\ results = {}

(* A challenge replaces the one before; stale ones are swept.              *)
BeginChip(s) ==
  \E n \in Nonces :
    /\ began[n] = NoneDoc
    /\ began' = [began EXCEPT ![n] = s]
    /\ challenge' = [t \in DocSessions |->
         IF t = s THEN [nonce |-> n, at |-> time]
         ELSE IF challenge[t] # NoneDoc /\ time - challenge[t].at > challengeTTL THEN NoneDoc
         ELSE challenge[t]]
    /\ UNCHANGED <<embedded, taps, docCall, faceMu, faces, docReviews, known, time, wins, results>>

(* The chip is held to a phone and signs the challenge it is given.        *)
Tap(ch, n) ==
  /\ began[n] # NoneDoc /\ ch.key # NoneDoc
  /\ taps' = taps \cup {[key |-> ch.key, nonce |-> n]}
  /\ UNCHANGED <<embedded, challenge, docCall, faceMu, faces, docReviews, known, time, began, wins, results>>

Result(call, how) ==
  [method |-> call.method, session |-> call.session, id |-> call.id, of |-> call.of,
   face |-> call.face, how |-> how]

(* The call answers with success and is gone.                              *)
Succeeds(c, call, how) ==
  /\ results' = results \cup {Result(call, how)}
  /\ wins' = IF call.nonce = NoneDoc THEN wins ELSE [wins EXCEPT ![call.nonce] = @ + 1]
  /\ docCall' = [docCall EXCEPT ![c] = NoneDoc]

(* A verified document goes on to the face check; without a template there *)
(* is none.                                                                *)
CheckFace(c, call) ==
  IF call.face = NoneDoc
  THEN Succeeds(c, call, "no template")
  ELSE docCall' = [docCall EXCEPT ![c] = call] /\ UNCHANGED <<wins, results>>

(* Mutation: a challenge is only forgotten when it is swept.               *)
Leave(s) == UNCHANGED challenge

(* take forgets the challenge, whatever the answer.                        *)
Take(s) == challenge' = [challenge EXCEPT ![s] = NoneDoc]

Started == Cardinality(results) + Cardinality({c \in DocCalls : docCall[c] # NoneDoc})

Fresh(e) == e # NoneDoc /\ time - e.at <= challengeTTL

(* faceBind is the phone's own word; with it the person may send a         *)
(* template of the face it saw.  A refusal has taken the challenge.        *)
CompleteChip(c, s) ==
  /\ docCall[c] = NoneDoc /\ Started < MaxResults
  /\ Take(s)
  /\ \/ /\ Fresh(challenge[s])
        /\ \E r \in ChipResponses :
             /\ ChipVerifies(r, challenge[s].nonce)
             /\ \E face \in {FaceOf[r.dg1], NoneDoc} :
                  CheckFace(c, [at |-> "find", method |-> "chip", session |-> s, nonce |-> challenge[s].nonce,
                      id |-> ChipIdentifier(Country(r.sod), r.dg1.number), of |-> r.dg1, face |-> face])
     \/ UNCHANGED <<docCall, wins, results>>
  /\ UNCHANGED <<embedded, taps, faceMu, faces, docReviews, known, time, began>>

CompleteQR(c, s, card, format) ==
  /\ docCall[c] = NoneDoc /\ Started < MaxResults
  /\ LET fits == QRVerify(card, format)
     IN /\ fits # {}
        /\ \E face \in {FaceOf[card.fields], NoneDoc} :
             CheckFace(c, [at |-> "find", method |-> "qr", session |-> s, nonce |-> NoneDoc,
                           id |-> UniqueKey(Formats[Earliest(fits)], card), of |-> card.fields, face |-> face])
  /\ UNCHANGED <<embedded, challenge, taps, faceMu, faces, docReviews, known, time, began>>

-----------------------------------------------------------------------------
(* checkFace, under the mutex.  A store that fails ends the call with an   *)
(* error, whether or not the write landed.                                 *)

Errors(c) ==
  /\ docCall' = [docCall EXCEPT ![c] = NoneDoc]
  /\ faceMu' = [faceMu EXCEPT ![docCall[c].method] = NoneDoc]
  /\ UNCHANGED <<wins, results>>

Turns(c, at) == docCall' = [docCall EXCEPT ![c].at = at] /\ UNCHANGED <<wins, results>>
Releases(c) == faceMu' = [faceMu EXCEPT ![docCall[c].method] = NoneDoc]

(* Mutation: the mutex is not taken.                                       *)
NoMutex(m) == TRUE
Unlocked(m) == faceMu[m] = NoneDoc

(* The mutex is taken and the index read.                                  *)
FindDuplicate(c) ==
  /\ docCall[c] # NoneDoc /\ docCall[c].at = "find"
  /\ LET call == docCall[c]
     IN /\ Unlocked(call.method)
        /\ \/ Errors(c)
           \/ /\ faceMu' = [faceMu EXCEPT ![call.method] = c]
              /\ Turns(c, IF call.face \in faces THEN "known" ELSE "add")
  /\ UNCHANGED <<embedded, challenge, taps, faces, docReviews, known, time, began>>

(* A document that has a seed is a re-enrollment.                          *)
KnownIdentifier(c) ==
  /\ docCall[c] # NoneDoc /\ docCall[c].at = "known"
  /\ \/ Errors(c)
     \/ IF docCall[c].id \in known
        THEN Succeeds(c, docCall[c], "known") /\ Releases(c)
        ELSE Turns(c, "case") /\ UNCHANGED faceMu
  /\ UNCHANGED <<embedded, challenge, taps, faces, docReviews, known, time, began>>

DocCase(call) == [method |-> call.method, session |-> call.session, face |-> call.face]

AddCase(c) ==
  /\ docCall[c] # NoneDoc /\ docCall[c].at = "case"
  /\ \/ Succeeds(c, docCall[c], "flagged") /\ Releases(c) /\ docReviews' = docReviews \cup {DocCase(docCall[c])}
     \/ Errors(c) /\ docReviews' \in {docReviews, docReviews \cup {DocCase(docCall[c])}}
  /\ UNCHANGED <<embedded, challenge, taps, faces, known, time, began>>

AddFace(c) ==
  /\ docCall[c] # NoneDoc /\ docCall[c].at = "add"
  /\ LET face == docCall[c].face
     IN \/ Succeeds(c, docCall[c], "first") /\ Releases(c) /\ faces' = faces \cup {face}
        \/ Errors(c) /\ faces' \in {faces, faces \cup {face}}
  /\ UNCHANGED <<embedded, challenge, taps, docReviews, known, time, began>>

-----------------------------------------------------------------------------
(* A credential is issued on a result: the document has a seed from now on *)
(* (module IdentifierSeeds).                                               *)
BindDocument ==
  \E r \in results :
    /\ known' = known \cup {r.id}
    /\ UNCHANGED <<embedded, challenge, taps, docCall, faceMu, faces, docReviews, time, began, wins, results>>

(* The process restarts: challenges and calls are gone.                    *)
DocRestart ==
  /\ challenge' = [s \in DocSessions |-> NoneDoc] /\ docCall' = [c \in DocCalls |-> NoneDoc]
  /\ faceMu' = [m \in {"chip", "qr"} |-> NoneDoc]
  /\ UNCHANGED <<embedded, taps, faces, docReviews, known, time, began, wins, results>>

DocTick ==
  /\ time < MaxDocTime /\ time' = time + 1
  /\ UNCHANGED <<embedded, challenge, taps, docCall, faceMu, faces, docReviews, known, began, wins, results>>

DocNext ==
  \/ \E s \in DocSessions : BeginChip(s)
  \/ \E ch \in Chips, n \in Nonces : Tap(ch, n)
  \/ \E c \in DocCalls, s \in DocSessions :
       \/ CompleteChip(c, s)
       \/ \E card \in Cards, format \in {NoneDoc} \cup {Formats[i].id : i \in DOMAIN Formats} :
            CompleteQR(c, s, card, format)
  \/ \E c \in DocCalls : FindDuplicate(c) \/ KnownIdentifier(c) \/ AddCase(c) \/ AddFace(c)
  \/ BindDocument \/ DocRestart \/ DocTick

DocSpec == DocInit /\ [][DocNext]_docVars

-----------------------------------------------------------------------------
(* Properties.                                                             *)

DocTypeOK ==
  /\ \A s \in DocSessions : challenge[s] # NoneDoc => challenge[s].nonce \in Nonces /\ challenge[s].at <= time
  /\ \A m \in {"chip", "qr"} : faceMu[m] # NoneDoc =>
       docCall[faceMu[m]] # NoneDoc /\ docCall[faceMu[m]].method = m /\ docCall[faceMu[m]].at # "find"
  /\ \A c \in DocCalls : docCall[c] # NoneDoc => docCall[c] \in DocRequests
  /\ time \in 0..MaxDocTime

(* take: "each challenge answers one completion attempt, so a captured     *)
(* chip response cannot be replayed": however often an answer is sent, and *)
(* from whichever sessions at once, it counts once.                        *)
OneUsePerTap == \A n \in Nonces : wins[n] <= 1

(* A chip result stands for a document its state issued: the number is     *)
(* one that this state gave to this chip, and this very chip was tapped    *)
(* for the session, though files and answers of several chips can be       *)
(* mixed, and other authorities sign objects and lists too.                *)
GenuineDocument ==
  \A r \in results : r.method = "chip" =>
    \E ch \in Chips :
      /\ ch.genuine # NoneDoc /\ ch.sod.dg1 = r.of
      /\ r.id = ChipIdentifier(ch.genuine, ch.sod.dg1.number)
      /\ ch.key # NoneDoc => \E t \in taps : t.key = ch.key /\ began[t.nonce] = r.session

(* "A face that matches an identity enrolled with a different document is  *)
(* flagged for review": of two documents of one person, both presented     *)
(* with a template through one method and neither known before, one is     *)
(* flagged, also when they arrive at once and when writes fail; and what   *)
(* is flagged is in the queue.                                             *)
SecondDocumentFlagged ==
  /\ \A r, q \in results :
       r.method = q.method /\ r.face = q.face /\ r.id # q.id => ~(r.how = "first" /\ q.how = "first")
  /\ \A r \in results : r.how = "flagged" => DocCase(r) \in docReviews

(* One person, one identifier: the cards of one person give the same       *)
(* identifier in every layout, asked for or detected, and cards of         *)
(* different people different ones.                                        *)
OneIdentityPerCard ==
  \A r, q \in results : r.method = "qr" /\ q.method = "qr" => (r.id = q.id <=> r.of = q.of)

(* A document result stands for a document its issuer made, names it by    *)
(* one identifier, and spends the answer of the chip.                      *)
DocumentIsGenuine == OneUsePerTap /\ GenuineDocument /\ OneIdentityPerCard
=============================================================================
