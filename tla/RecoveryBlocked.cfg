CONSTANTS
  so = so
  so2 = so2
  sn = sn
  sm = sm
  oldKey = oldKey
  newKey = newKey
  otherKey = otherKey
  face = face
  inbox = inbox
  Keys = {oldKey, newKey, otherKey}
  Faces = {face}
  Sessions = {so, sn, sm}
  Recoveries = {r1, r2}
  Proofs = {inbox}
  HolderDID <- MCHolder
  FaceOf <- MCFace
  ProofsOf <- MCProofs
  Revouched = {}
  Reviewed = {}
  Revocable = {}
  Delay = 1
  Cooldown = 1
  MaxCancelled = 1
  MaxTime = 2
  MaxFailures = 1
  NoKey = NoKey
  NoFace = NoFace
  NoRecovery = NoRecovery
SPECIFICATION Spec
SYMMETRY FullSymmetry
INVARIANTS
  BlockerIsFindable
CHECK_DEADLOCK FALSE
