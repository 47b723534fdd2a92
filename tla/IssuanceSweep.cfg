CONSTANTS
  h1 = h1
  n1 = n1
  NoSession = NoSession
  NoHolder = NoHolder
  NoSlot = NoSlot
  NoRequest = NoRequest
  Sessions = {s1}
  Holders = {h1}
  Nullifiers = {n1}
  Slots = {i1, i2}
  Requests = {r1, r2}
  Workers = {w1, w2}
  Reasons = {"equivocation", "recovered"}
  HolderOf <- OneHolder
  SessionSeeds <- OneHolderSeeds
  KeyNullifier <- OneHolderKey
SPECIFICATION Spec
SYMMETRY Symmetry
INVARIANTS
  RevokedHolderHoldsNothing
