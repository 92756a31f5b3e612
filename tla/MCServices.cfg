CONSTANTS
  ann = ann
  bob = bob
  admin = admin
  system = system
  e1 = e1
  dni = dni
  address = address
  native = native
  usd = usd
  toUsd = toUsd
  fromUsd = fromUsd
  p1 = p1
  p2 = p2
  Name = {admin, system, bob}
  Email = {e1}
  AdminName = admin
  SystemName = system
  Blank = Blank
  NoEmail = NoEmail
  MaxUsers = 2
  MaxWrites = 1
  Document = {dni, address}
  REQUIRED_DOCS_FOR <- RequiredDocs
  TopLevel = 3
  Slot = {1, 2}
  Client = {ann}
  max_calls = 2
  Period = 4
  TicksPerSecond = 2
  MaxNow = 7
  MaxHeight = 4
  Owner = {ann, bob}
  Ttl = 2
  MaxClock = 4
  MaxDrafts = 2
  Currency = {native, usd}
  Native = native
  Process = {p1, p2}
  None = None
  FeedPairs <- FeedPairList
  SyncPairs <- FeedPairList
  Pair = {toUsd, fromUsd}
SPECIFICATION Spec
INVARIANTS
  PartsWellFormed
  IndexesAgree
  AdminIsFirst
  LevelEarned
  VerdictStands
  ReviewComplete
  WindowHolds
  RetryAfterExact
  
  DraftSpentOnce
PROPERTIES
  ObligationPersists
  LevelByOne
  Delivered
  Refreshed
CHECK_DEADLOCK FALSE
