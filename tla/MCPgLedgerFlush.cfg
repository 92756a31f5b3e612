\* Two processes: flush() and the transactions admitted meanwhile.
CONSTANTS
  p1 = p1
  p2 = p2
  w1 = w1
  w2 = w2
  w3 = w3
  alice = alice
  bob = bob
  native = native
  NoWallet = NoWallet
  Process = {p1, p2}
  MayCrash = FALSE
  WalletId = {w1, w2}
  User = {alice, bob}
  Currency = {native}
  OwnerOf <- PairOwner
  CurrencyOf <- OneCurrency
  Rates <- NoRates
  Amounts = {1}
  MaxNonce = 1
  MaxAdmitted = 2
  MaxBlocks = 3
SPECIFICATION Spec
INVARIANTS
  NothingLost
