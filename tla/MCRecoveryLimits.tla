-------------------------- MODULE MCRecoveryLimits --------------------------
(* Recovery within one of two limits: two recoveries one after the other,  *)
(* opened by an operator or not; or one, whose old key also issues in its  *)
(* second session, whose holder an operator may revoke and whose requests  *)
(* fail twice.                                                             *)
EXTENDS MCRecovery

Opened == {r \in Recoveries : rec[r].status # "none"}

SeveralRecoveries ==
  pc[so2] = "idle" /\ failures <= 1 /\ bannedFaces = {}

SeveralSessions ==
  /\ now <= 1
  /\ Cardinality(Opened) <= 1 /\ \A r \in Opened : ~ rec[r].operator

(* The second session only issues.                                         *)
WithinLimits ==
  /\ match[so2] = NoFace /\ credited[so2] = NoFace
  /\ SeveralRecoveries \/ SeveralSessions
=============================================================================
