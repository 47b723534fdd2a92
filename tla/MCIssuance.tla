----------------------------- MODULE MCIssuance -----------------------------
(* Model-checking instances of Issuance.                                   *)
EXTENDS Issuance, TLC

CONSTANTS h1, n1

(* One holder and its session.                                            *)
OneHolder      == [s \in Sessions |-> h1]
OneHolderSeeds == [s \in Sessions |-> {{n1}}]
OneHolderKey   == [h \in Holders |-> {n1}]

Symmetry == Permutations(Requests) \cup Permutations(Workers) \cup Permutations(Slots)
=============================================================================
