\* Two owners, one currency: overspending, freezes between admission and
\* mining, replays across three blocks.
CONSTANTS
  w1 = w1
  w2 = w2
  w3 = w3
  alice = alice
  bob = bob
  native = native
  usd = usd
  NoWallet = NoWallet
  WalletId = {w1, w2}
  User = {alice, bob}
  Currency = {native}
  OwnerOf <- PairOwner
  CurrencyOf <- PairNative
  Rates <- NoRates
  Amounts = {1, 2}
  MaxNonce = 2
  MaxPending = 2
  MaxBlocks = 3
SPECIFICATION Spec
INVARIANTS
  TypeOK
  NoOverdraft
  ReplayProtected
PROPERTIES
  FrozenFundsStay
  JournalSpec
