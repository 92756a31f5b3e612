\* Two processes that may die at any step.
CONSTANTS
  p1 = p1
  p2 = p2
  w1 = w1
  w2 = w2
  w3 = w3
  alice = alice
  bob = bob
  native = native
  NoWallet = NoWallet
  Process = {p1, p2}
  MayCrash = TRUE
  WalletId = {w1, w2}
  User = {alice, bob}
  Currency = {native}
  OwnerOf <- PairOwner
  CurrencyOf <- OneCurrency
  Rates <- NoRates
  Amounts = {1}
  MaxNonce = 2
  MaxAdmitted = 3
  MaxBlocks = 3
SPECIFICATION Spec
SYMMETRY Interchangeable
INVARIANTS
  TypeOK
  NoOverdraft
  NonceAdmittedOnce
  BalancesExplained
PROPERTIES
  ChainGrows
