CONSTANTS
  ByteBits = 4
  TemplateBytes = 2
  BlockBits = 3
  ChallengeKinds = {"turn_left", "blink"}
  ChallengeCount = 2
  MinChallengeMS = 1
  MaxChallengeMS = 2
  MinCeremony = 1
  MaxCeremony = 2
  SelfieDeployments <- MCSelfieDeployments
  p1 = p1
  p2 = p2
  SelfieCalls = {k1, k2}
  MaxSelfieTime = 3
  MaxFaces = 2
  MaxSigned = 1
  NoneSelfie = NoneSelfie
SPECIFICATION SelfieSpec
INVARIANTS
  CommitmentsDiffer
CHECK_DEADLOCK FALSE
