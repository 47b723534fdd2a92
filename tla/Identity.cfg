CONSTANTS
  Calls = {d1, d2}
  Ids = {a, b}
  NoId = NoId
  NoSeed = NoSeed
  People = {v1, v2, c1}
  Anchored = {v1, v2}
  Trusted = {c1}
  Newcomers = {v2, c1}
  Offers = {o1, o2}
  Handlers = {h1, h2}
  Workers = {w1}
  MaxPerPeriod = 1
  Period = 1
  OfferTTL = 1
  ReturnTTL = 1
  KeepFor = 0
  SuspendFor = 1
  VouchValidity = 1
  Required = 2
  MaxAttempts = 1
  MaxTime = 2
  Nobody = Nobody
  NoOffer = NoOffer
SPECIFICATION MCSpec
SYMMETRY Symmetry
INVARIANTS
  SameTopSameSeed
  SeedsStayApart
  DoneBindsAll
  StrikesAccount
  QuotaHolds
  GuessesAreBounded
  AnchorIsEarned
  VouchersPay
CHECK_DEADLOCK FALSE
