----------------------------- MODULE MCEvidence -----------------------------
(* The evidence people bring, one part per behaviour: manual review, the   *)
(* document anchor and the vouching graph.                                 *)
EXTENDS Review, DocumentAnchor, SocialGraph, TLC
VARIABLE part

(* Three cases and no failure, or two with one failed request.             *)
MCLoads == {[cases |-> 3, failures |-> 0], [cases |-> 2, failures |-> 1]}

(* Certificates: a state with two keys, one of them only in the list it    *)
(* signed, a state without a country in its certificate, and an authority  *)
(* that is nobody's.                                                       *)
Cert(subject, issuer, country, key, keyId, authKeyId, signedWith) ==
  [subject |-> subject, issuer |-> issuer, country |-> country, key |-> key,
   keyId |-> keyId, authKeyId |-> authKeyId, signedWith |-> signedWith]
DE    == Cert("DE CSCA", "DE CSCA", "DE", "de", "id1", NoneDoc, "de")
DEnew == Cert("DE CSCA", "DE CSCA", "DE", "de2", "id2", NoneDoc, "de2")
FR    == Cert("FR CSCA", "FR CSCA", NoneDoc, "fr", NoneDoc, NoneDoc, "fr")
Other == Cert("FR CSCA", "FR CSCA", "FR", "other", NoneDoc, NoneDoc, "other")
ListSigner(key, signedWith) == Cert("list", "DE CSCA", "DE", key, NoneDoc, NoneDoc, signedWith)
MCPinned == {DE}
MCMasterLists ==
  [genuine |-> [embedded |-> <<DE>>, listed |-> <<DEnew, DE, FR>>,
                signer |-> ListSigner("ls", "de"), signedWith |-> "ls"],
   other   |-> [embedded |-> <<Cert("DE CSCA", "DE CSCA", "DE", "other", NoneDoc, NoneDoc, "other")>>,
                listed |-> <<Other>>, signer |-> ListSigner("lo", "other"), signedWith |-> "lo"]]
MCExtra == <<>>

(* Chips: one with fillers in its number, one that expires, one that the   *)
(* other authority signed for the key of the first.                        *)
DocSigner(issuer, country, key, authKeyId, signedWith) ==
  Cert("signer", issuer, country, key, NoneDoc, authKeyId, signedWith)
Chip(dsc, sodKey, number, expiry, key, genuine) ==
  [sod |-> [dsc |-> dsc, signedWith |-> sodKey, dg1 |-> [number |-> number, expiry |-> expiry], dg15 |-> key],
   key |-> key, genuine |-> genuine]
MCChips ==
  {Chip(DocSigner("DE CSCA", "DE", "ds1", "id1", "de"), "ds1", <<"1", "2", "<">>, 2, "chip1", "DE"),
   Chip(DocSigner("FR CSCA", "FR", "ds2", NoneDoc, "fr"), "ds2", <<"1", "2">>, 0, "chip2", "FR"),
   Chip(DocSigner("FR CSCA", "FR", "ds3", NoneDoc, "other"), "ds3", <<"3">>, 2, "chip1", NoneDoc)}

(* QR cards: two layouts of one person's card, a third with an old key.    *)
MCFormats ==
  <<[id |-> "v2", country |-> "IN", document |-> "card", tags |-> {"V2"},
     certs |-> {[key |-> "old", notBefore |-> 0, notAfter |-> 1], [key |-> "new", notBefore |-> 2, notAfter |-> 9]}],
    [id |-> "v1", country |-> "IN", document |-> "card", tags |-> {"0", "1"},
     certs |-> {[key |-> "old", notBefore |-> 0, notAfter |-> 1]}]>>
Card(tag, key, at, who) == [tag |-> tag, signedWith |-> key, signedAt |-> at, fields |-> [person |-> who]]
MCCards == {Card("V2", "new", 2, "p"), Card("0", "old", 1, "p"), Card("V2", "old", 5, "q")}
MCFaceOf == [x \in {ch.sod.dg1 : ch \in MCChips} \cup {card.fields : card \in MCCards} |-> "f"]

(* The parts share their model values, of which a behaviour uses those of  *)
(* one part.                                                               *)
Symmetry == Permutations(DocCalls) \cup Permutations(DocSessions) \cup Permutations(Nonces)

MCInit ==
  /\ part \in {"review", "document", "social"}
  /\ ReviewInit /\ DocInit /\ SocialInit
  /\ part # "review" => load.failures = 0
MCNext ==
  \/ part = "review" /\ ReviewNext /\ UNCHANGED <<part, docVars, socialVars>>
  \/ part = "document" /\ DocNext /\ UNCHANGED <<part, reviewVars, socialVars>>
  \/ part = "social" /\ SocialNext /\ UNCHANGED <<part, reviewVars, docVars>>
MCSpec == MCInit /\ [][MCNext]_<<part, reviewVars, docVars, socialVars>>
=============================================================================
