----------------------------- MODULE MCRecovery -----------------------------
(* Model-checking instances of Recovery: oldKey enrolls the face in a      *)
(* session so and has a second session so2; newKey and otherKey are keys   *)
(* the face may move to, from the sessions sn and sm.                      *)
EXTENDS Recovery, TLC

CONSTANTS so, so2, sn, sm, oldKey, newKey, otherKey, face, inbox

MCHolder == [s \in Sessions |-> CASE s \in {so, so2} -> oldKey
                                  [] s = sn -> newKey
                                  [] s = sm -> otherKey]
MCFace   == [s \in Sessions |-> face]
MCProofs == [s \in Sessions |-> {inbox}]

(* Recoveries are interchangeable; so are newKey and otherKey with their   *)
(* sessions, in the instances that have both.                              *)
Symmetry == Permutations(Recoveries)
Swap     == sn :> sm @@ sm :> sn @@ newKey :> otherKey @@ otherKey :> newKey
Stay     == [x \in {sn, sm, newKey, otherKey} |-> x]
FullSymmetry == {p @@ q : p \in Symmetry, q \in {Stay, Swap}}
=============================================================================
