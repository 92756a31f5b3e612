\* Two currencies and a user with two wallets: conversions with rounding and a
\* fee, and transfers refused after their nonce is reserved.
CONSTANTS
  w1 = w1
  w2 = w2
  w3 = w3
  alice = alice
  bob = bob
  native = native
  usd = usd
  NoWallet = NoWallet
  WalletId = {w1, w2, w3}
  User = {alice, bob}
  Currency = {native, usd}
  OwnerOf <- TrioOwner
  CurrencyOf <- TrioCurrency
  Rates <- SomeRates
  Amounts = {1, 2}
  MaxNonce = 1
  MaxPending = 1
  MaxBlocks = 4
SPECIFICATION Spec
INVARIANTS
  BalancesExplained
