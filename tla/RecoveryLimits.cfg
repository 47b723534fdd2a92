CONSTANTS
  so = so
  so2 = so2
  sn = sn
  sm = sm
  oldKey = oldKey
  newKey = newKey
  otherKey = otherKey
  face = face
  inbox = inbox
  Keys = {oldKey, newKey}
  Faces = {face}
  Sessions = {so, so2, sn}
  Recoveries = {r1, r2}
  Proofs = {inbox}
  HolderDID <- MCHolder
  FaceOf <- MCFace
  ProofsOf <- MCProofs
  Revouched = {}
  Reviewed = {sn}
  Revocable = {face}
  Delay = 1
  Cooldown = 2
  MaxCancelled = 1
  MaxTime = 3
  MaxFailures = 2
  NoKey = NoKey
  NoFace = NoFace
  NoRecovery = NoRecovery
SPECIFICATION Spec
CONSTRAINT WithinLimits
SYMMETRY Symmetry
INVARIANTS
  CooldownHolds
  RetiredHoldsNothing
CHECK_DEADLOCK FALSE
