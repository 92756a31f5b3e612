---------------------------- MODULE Transactions ----------------------------
(***************************************************************************)
(* The transactions of the simulator, as the handlers build them, and the  *)
(* wallets and currencies they are about.                                  *)
(*                                                                         *)
(* An amount is a whole number of the smallest unit (10^-8).  An id of     *)
(* WalletId stands for a random "w_..." id, so the owner and the currency  *)
(* of the wallet it will name can be fixed beforehand.                     *)
(***************************************************************************)
EXTENDS Integers, Sequences

CONSTANTS
  WalletId,         \* the ids create_wallet can draw
  User,             \* the users who own wallets
  Currency,         \* the currency codes
  OwnerOf,          \* the user each wallet is created for
  CurrencyOf,       \* the currency each wallet is created in
  Rates,            \* the rates posted over time for a pair of currencies
  Amounts,          \* the amounts requested by mints and transfers
  MaxNonce,         \* bound on the nonces clients choose
  NoWallet          \* the empty string in a wallet id field

\* A rate and its fee are decimals: rateNum / rateDen and feeNum / feeDen.
RateRecord == [rateNum : Nat, rateDen : Nat \ {0}, feeNum : Nat, feeDen : Nat \ {0}]

ASSUME ConstantAssumption ==
  /\ NoWallet \notin WalletId
  /\ OwnerOf \in [WalletId -> User]
  /\ CurrencyOf \in [WalletId -> Currency]
  /\ Rates \in [Currency -> [Currency -> SUBSET RateRecord]]
  /\ Amounts \subseteq Nat \ {0}
  /\ MaxNonce \in Nat

-----------------------------------------------------------------------------

Mint == "MINT"      \* COINBASE_SIGNATURE
Ecdsa == "ECDSA"    \* a signature that verifies against the sender's key
Unsigned == ""      \* the signature field of a legacy transaction
None == 0           \* receiver_amount when no conversion took place

Tx == [sender_wallet_id   : WalletId \cup {NoWallet},
       receiver_wallet_id : WalletId \cup {NoWallet},
       amount             : Nat \ {0},
       receiver_amount    : Nat,
       nonce              : Nat,
       signature          : {Mint, Ecdsa, Unsigned}]

MintTx(w, a) ==
  [sender_wallet_id |-> NoWallet, receiver_wallet_id |-> w, amount |-> a,
   receiver_amount |-> None, nonce |-> 0, signature |-> Mint]

SignedTx(s, r, a, net, n) ==
  [sender_wallet_id |-> s, receiver_wallet_id |-> r, amount |-> a,
   receiver_amount |-> net, nonce |-> n, signature |-> Ecdsa]

\* Names and amount of a legacy transaction reach the chain and nothing else.
LegacyTx ==
  [sender_wallet_id |-> NoWallet, receiver_wallet_id |-> NoWallet, amount |-> 1,
   receiver_amount |-> None, nonce |-> 0, signature |-> Unsigned]

\* What a transfer credits to its receiver.
CreditAmount(tx) ==
  IF tx.receiver_amount = None THEN tx.amount ELSE tx.receiver_amount

\* The converted amount, each step rounded down to the smallest unit.
Converted(a, r) ==
  LET gross == (a * r.rateNum) \div r.rateDen
      fee   == (gross * r.feeNum) \div r.feeDen
  IN  gross - fee

\* The values receiver_amount can take: none within a currency, one per rate
\* across currencies, nothing when no rate is posted or the result is not
\* positive.
Quotes(s, r, a) ==
  IF CurrencyOf[s] = CurrencyOf[r]
  THEN {None}
  ELSE {net \in {Converted(a, rate) : rate \in Rates[CurrencyOf[s]][CurrencyOf[r]]} : net > 0}

\* The two kinds apply_block_deltas acts on; it skips the others.
IsCoinbase(tx) == tx.signature = Mint
IsTransfer(tx) ==
  tx.signature # Mint /\ tx.sender_wallet_id # NoWallet /\ tx.receiver_wallet_id # NoWallet
=============================================================================
