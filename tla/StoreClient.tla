---------------------------- MODULE StoreClient ----------------------------
(***************************************************************************)
(* What the two store clients do to a collection of documents              *)
(* (pkg/redisclient, pkg/firestoreclient).  A document is a blob with an   *)
(* optional expiry.  One request is atomic at the server; the callers of   *)
(* these operators decide which requests a call makes, in which order, and *)
(* what happens when one fails.  Authentication, connections and wire      *)
(* formats are left out.                                                   *)
(*                                                                         *)
(* The two differ in who drops an expired document: Redis does it itself,  *)
(* with Firestore only Get does, by a second request that deletes whatever *)
(* the document is by then.                                                *)
(***************************************************************************)
EXTENDS Integers

CONSTANT NoDoc       \* no document under this id
Forever == 0         \* no expires_at field, no PX option

Expired(doc, now) == doc.until # Forever /\ now > doc.until

(* A ttl that is not positive means no expiry, not an expired document.    *)
Until(ttl, now) == IF ttl > 0 THEN now + ttl ELSE Forever

RedisSet(docs, id, data, ttl, now) ==
  [docs EXCEPT ![id] = [blob |-> data, until |-> Until(ttl, now)]]
FirestoreSet(docs, id, data, ttl, now) ==
  [docs EXCEPT ![id] = [blob |-> data, until |-> Until(ttl, now)]]

RedisFound(docs, id, now) ==
  docs[id] # NoDoc /\ ~Expired(docs[id], now)
FirestoreFound(docs, id, now) ==
  docs[id] # NoDoc /\ ~Expired(docs[id], now)
(* Firestore's Get goes on to delete the document it found expired.        *)
GetDeletes(docs, id, now) ==
  docs[id] # NoDoc /\ Expired(docs[id], now)

Del(docs, id) == [docs EXCEPT ![id] = NoDoc]

=============================================================================
