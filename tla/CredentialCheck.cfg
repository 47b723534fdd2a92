CONSTANTS
  s1 = s1
  s2 = s2
  Sessions = {s1, s2}
  Verifiers = {v1}
  Scenarios <- MCScenarios
  Slots = {6, 9}
  Lifetime = 3
  CacheTTL = 1
  MaxAge = 1
  MaxTime = 4
  None = None
  Wallets = {w1, w2}
  Careful = {w1}
  SlotFields <- MCSlotFields
  Digests = {d1, d2}
  maxSlotFieldBytes = 3
  Newline = Newline
  Devices <- MCDevices
  Roots <- MCRoots
  RootKeys = {"google"}
  Serials = {"b1"}
  Package = "wallet"
  Signers = {"us"}
  AttSessions = {s1, s2}
  AttNonces = {m1, m2}
  ListMaxAge = 2
  RetryAfter = 1
  MaxAttTime = 3
  NoneAtt = NoneAtt
  f4 = f4
  f5 = f5
  CapSessions = {f1, f2, f3, f4, f5}
  HolderOf <- MCHolderOf
  Reviewed = {f1, f5}
  Issuers = {s1, s2}
  FaceMatchMaxOthers = 1
  Free = Free
  ByteBits = 4
  TemplateBytes = 2
  BlockBits = 3
  ChallengeKinds = {"turn_left", "blink"}
  ChallengeCount = 2
  MinChallengeMS = 1
  MaxChallengeMS = 2
  MinCeremony = 1
  MaxCeremony = 2
  SelfieDeployments <- MCSelfieDeployments
  p1 = p1
  p2 = p2
  SelfieCalls = {s1, s2}
  MaxSelfieTime = 3
  MaxFaces = 2
  MaxSigned = 1
  NoneSelfie = NoneSelfie
SPECIFICATION MCSpec
SYMMETRY Symmetry
INVARIANTS
  AcceptedAsIssued
  StatusIsTrue
  NoFraming
  DeviceIsGenuine
  CapIsKept
  FaceFoundOnce
  CeremonyIsGenuine
PROPERTIES
  ImplementsRevocation
CHECK_DEADLOCK FALSE
