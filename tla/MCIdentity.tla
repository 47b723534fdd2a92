----------------------------- MODULE MCIdentity -----------------------------
(* Who a person is to the issuer: the seeds of the identifiers they prove, *)
(* and the people who vouch for them in person.  A behaviour is one of     *)
(* IdentifierSeeds or InPersonVouch.                                       *)
EXTENDS IdentifierSeeds, InPersonVouch, TLC
VARIABLE part

MCInit ==
  /\ part \in {"seeds", "vouches"}
  /\ SeedInit /\ Init
  /\ part # "seeds" => ids = [c \in Calls |-> [k \in IdentifierKinds |-> NoId]]
MCNext ==
  \/ part = "seeds" /\ SeedNext /\ UNCHANGED <<part, vars>>
  \/ part = "vouches" /\ Next /\ UNCHANGED <<part, seedVars>>
MCSpec == MCInit /\ [][MCNext]_<<part, seedVars, vars>>

Symmetry == Permutations(Offers) \cup Permutations(Handlers)
=============================================================================
