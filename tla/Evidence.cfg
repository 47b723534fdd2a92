CONSTANTS
  Keys = {k1}
  Matched = {k1}
  Asked = {"recovery", "other"}
  CaseIds = {1, 2, 3}
  Operators = {c1, c2}
  maxOpenReviews = 2
  reviewApprovalLifetime = 0
  Loads <- MCLoads
  Nothing = Nothing
  MasterLists <- MCMasterLists
  Pinned <- MCPinned
  ExtraCertificates <- MCExtra
  AllowPassiveOnly = TRUE
  Chips <- MCChips
  Formats <- MCFormats
  Cards <- MCCards
  FaceOf <- MCFaceOf
  DocSessions = {s1, s2}
  DocCalls = {c1, c2}
  Nonces = {n1, n2}
  challengeTTL = 0
  Day = 0
  MaxDocTime = 1
  MaxResults = 2
  NoneDoc = NoneDoc
  Seeds = {seed}
  Anchored = {anchor}
  Candidates = {x, y}
  SocialCalls = {c1, c2}
  RequiredVouches = 2
  RequiredScore = 10
  MinVoucherScore = 4
  Full = 8
  MaxSocialCalls = 5
  NoTrust = NoTrust
SPECIFICATION MCSpec
SYMMETRY Symmetry
INVARIANTS
  QueueIsTrue
  DecisionIsCarriedOut
  DocumentIsGenuine
  SecondDocumentFlagged
  RootedInSeeds
  BackersAnswer
CHECK_DEADLOCK FALSE
