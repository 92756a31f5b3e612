\* One process that never dies: everything the in-memory node promises.
CONSTANTS
  p1 = p1
  p2 = p2
  w1 = w1
  w2 = w2
  w3 = w3
  alice = alice
  bob = bob
  native = native
  NoWallet = NoWallet
  Process = {p1}
  MayCrash = FALSE
  WalletId = {w1, w2, w3}
  User = {alice, bob}
  Currency = {native}
  OwnerOf <- TrioOwner
  CurrencyOf <- OneCurrency
  Rates <- NoRates
  Amounts = {1, 2}
  MaxNonce = 2
  MaxAdmitted = 3
  MaxBlocks = 3
SPECIFICATION Spec
INVARIANTS
  NothingLost
  ConfirmedOnce
  LinksHold
PROPERTIES
  BehavesAsInMemory
