CONSTANTS
  phone = phone
  alias = alias
  inbox = inbox
  bogus = bogus
  burner = burner
  Sessions = {s1}
  Phones = {phone, alias, bogus}
  Mails = {inbox, burner}
  Normal <- MCNormal
  Voip = {bogus}
  Disposable = {burner}
  Handlers = {h1, h2}
  Deployments <- MCDeployments
  MaxCodes = 2
  MaxTime = 2
  TTL = 1
  MaxAttempts = 2
  NoInput = NoInput
  NoDoc = NoDoc
  netA = netA
  netB = netB
  addrA1 = addrA1
  addrA2 = addrA2
  addrB = addrB
  proxy = proxy
  Requests <- MCRequests
  TrustedProxyHops = 1
  Block <- MCBlock
  Identifiers <- MCIdentifiers
  Inbox <- MCInbox
  Hints = {hint}
  HintSessions = {d1, d2, d3, d4}
  Callers = {h1, h2}
  Part = 2
  Rate <- MCRate
  Burst <- MCBurst
  SweepEvery = 1
  SweepIdle = 3
  MaxBuckets = 2
  MaxWait = 1
  PerHour = 2
  Hour = 4
  HintMax = 1
  HintWindow = 1
  Tables <- MCTables
  MaxLimitTime = 4
  NoBucket = NoBucket
  email = email
  vouch = vouch
  mail = mail
  Ceremonies = {email, vouch}
  Kinds = {mail}
  NoKind = NoKind
  KindOf <- MCKindOf
  Selfie = {}
  Anchors = {vouch}
  Issuers = {i1, i2}
  NoMethod = NoMethod
  NoCred = NoCred
  ClaimExpires = FALSE
SPECIFICATION MCSpec
SYMMETRY Symmetry
INVARIANTS
  RateBounded
  SendsBounded
  HintsBounded
  GuessesBounded
  ProvenOnce
  NewestCodeStands
  DeliveredIsCoherent
PROPERTIES
  ImplementsIssueOnce
CHECK_DEADLOCK FALSE
