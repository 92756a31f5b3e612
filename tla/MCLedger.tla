------------------------------ MODULE MCLedger ------------------------------
(***************************************************************************)
(* Instances of the ledger for TLC.                                        *)
(***************************************************************************)
EXTENDS LedgerAccounting

CONSTANTS w1, w2, w3, alice, bob, native, usd

\* Two users, one currency.
PairOwner == w1 :> alice @@ w2 :> bob
PairNative == w1 :> native @@ w2 :> native

\* alice has a wallet in each of two currencies and bob one in usd.
TrioOwner == w1 :> alice @@ w2 :> bob @@ w3 :> alice
TrioCurrency == w1 :> native @@ w2 :> usd @@ w3 :> usd
TrioNative == [w \in {w1, w2, w3} |-> native]

NoRates == [from \in Currency |-> [to \in Currency |-> {}]]

\* One native is worth 1.5 usd with a fee of one third, and the way back is
\* worth 2/3 with no fee: both round, and the smallest amounts convert to zero.
SomeRates ==
  [from \in Currency |-> [to \in Currency |->
    CASE <<from, to>> = <<native, usd>> -> {[rateNum |-> 3, rateDen |-> 2, feeNum |-> 1, feeDen |-> 3]}
      [] <<from, to>> = <<usd, native>> -> {[rateNum |-> 2, rateDen |-> 3, feeNum |-> 0, feeDen |-> 1]}
      [] OTHER -> {}]]
=============================================================================
