--------------------------- MODULE SlotStatements ---------------------------
(***************************************************************************)
(* Slot statements and proofs of double signing.  A wallet signs, for a    *)
(* context and a slot of it (a vote, a round), the digest of one payload.  *)
(* Whoever holds two statements of one key for one slot with different     *)
(* digests has a proof that convicts the key: its holder is revoked.       *)
(*                                                                         *)
(* The message a wallet signs joins scheme, context, slot and digest with  *)
(* line feeds, so contexts and slots are sequences of characters here.     *)
(***************************************************************************)
EXTENDS Sequences, Integers

CONSTANTS
  Wallets,             \* holder keys
  Careful,             \* wallets that sign one payload for a slot
  SlotFields,          \* contexts and slots that anybody may ask about
  Digests,
  maxSlotFieldBytes,
  Newline

ASSUME SlotAssumption ==
  /\ Careful \subseteq Wallets /\ maxSlotFieldBytes \in Nat /\ Newline \notin Digests
  /\ \A v \in SlotFields : v \in Seq({v[i] : i \in DOMAIN v})

VARIABLES
  signatures,          \* [key, message]: every signature made
  payloads,            \* history: what a wallet meant, <<context, slot, digest>>
  convicted            \* keys a proof was accepted against
slotVars == <<signatures, payloads, convicted>>

(* Mutation: a field may hold any characters.                              *)
AnyField(v) == Len(v) \in 1..maxSlotFieldBytes
checkSlotField(v) ==
  Len(v) \in 1..maxSlotFieldBytes /\ \A i \in DOMAIN v : v[i] # Newline
SlotStatementMessage(context, slot, digest) ==
  <<"scheme", Newline>> \o context \o <<Newline>> \o slot \o <<Newline, digest>>

SlotInit == signatures = {} /\ payloads = [w \in Wallets |-> {}] /\ convicted = {}

(* A careful wallet remembers what it signed for a context and slot.       *)
SignSlotStatement(w, context, slot, digest) ==
  /\ checkSlotField(context) /\ checkSlotField(slot)
  /\ w \in Careful => \A p \in payloads[w] : p[1] = context /\ p[2] = slot => p[3] = digest
  /\ signatures' = signatures \cup
       {[key |-> w, message |-> SlotStatementMessage(context, slot, digest)]}
  /\ payloads' = [payloads EXCEPT ![w] = @ \cup {<<context, slot, digest>>}]
  /\ UNCHANGED convicted

Signs(w, context, slot, digest) ==
  [key |-> w, message |-> SlotStatementMessage(context, slot, digest)] \in signatures
EquivocationVerify(w, context, slot, digests) ==
  /\ digests[1] # digests[2]
  /\ checkSlotField(context) /\ checkSlotField(slot)
  /\ \A i \in 1..2 : Signs(w, context, slot, digests[i])
Convict(w, context, slot, digests) ==
  /\ EquivocationVerify(w, context, slot, digests)
  /\ convicted' = convicted \cup {w}
  /\ UNCHANGED <<signatures, payloads>>

SlotNext ==
  \E w \in Wallets, context, slot \in SlotFields :
    \/ \E d \in Digests : SignSlotStatement(w, context, slot, d)
    \/ \E ds \in Digests \X Digests : Convict(w, context, slot, ds)

SlotSpec == SlotInit /\ [][SlotNext]_slotVars

(* Only a wallet that signed two payloads for one slot is ever convicted,  *)
(* whatever statements of its are put together and under whichever context *)
(* and slot (EquivocationProof.Verify).                                    *)
NoFraming ==
  \A w \in convicted : \E p, q \in payloads[w] : p[1] = q[1] /\ p[2] = q[2] /\ p[3] # q[3]
=============================================================================
