\* BR-WL-08: the supply equals the coinbase amounts. A delta that raises leaves
\* them apart.
CONSTANTS
  w1 = w1
  w2 = w2
  w3 = w3
  alice = alice
  bob = bob
  native = native
  usd = usd
  NoWallet = NoWallet
  WalletId = {w1, w2}
  User = {alice, bob}
  Currency = {native}
  OwnerOf <- PairOwner
  CurrencyOf <- PairNative
  Rates <- NoRates
  Amounts = {1, 2}
  MaxNonce = 2
  MaxPending = 2
  MaxBlocks = 3
SPECIFICATION Spec
INVARIANT
  SupplyConserved
