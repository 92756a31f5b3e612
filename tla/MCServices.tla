----------------------------- MODULE MCServices -----------------------------
(***************************************************************************)
(* Instances of Accounts, Kyc, Gateway, Drafts, Treasury and Rates for     *)
(* TLC.  The six share no state: a behaviour runs one of them, chosen at   *)
(* the start, and the others stay in an initial state.                     *)
(***************************************************************************)
EXTENDS Accounts, Kyc, Gateway, Drafts, Treasury, Rates

CONSTANTS
  ann, bob, admin, system, e1, dni, address, native, usd, toUsd, fromUsd, p1, p2

RequiredDocs == [level \in 1..3 |-> IF level = 1 THEN {dni} ELSE {dni, address}]
FeedPairList == <<toUsd, fromUsd>>

VARIABLE part

edgeVars == <<gatewayVars, draftVars, treasuryVars, rateVars>>
servicesVars == <<part, accountsVars, kycVars, edgeVars>>

Init ==
  /\ part \in {"accounts", "kyc", "gateway", "drafts", "treasury", "rates"}
  /\ AccountsInit /\ KycInit /\ GatewayInit /\ DraftsInit /\ TreasuryInit /\ RatesInit
  /\ part # "accounts" => ~durable
  /\ part # "kyc" => ~copies
  /\ part # "treasury" => ~shared
  /\ part # "rates" => provider = BINANCE

Next ==
  /\ UNCHANGED part
  /\ \/ part = "accounts" /\ AccountsNext /\ UNCHANGED <<kycVars, edgeVars>>
     \/ part = "kyc" /\ KycNext /\ UNCHANGED <<accountsVars, edgeVars>>
     \/ /\ UNCHANGED <<accountsVars, kycVars>>
        /\ \/ part = "gateway" /\ GatewayNext /\ UNCHANGED <<draftVars, treasuryVars, rateVars>>
           \/ part = "drafts" /\ DraftsNext /\ UNCHANGED <<gatewayVars, treasuryVars, rateVars>>
           \/ part = "treasury" /\ TreasuryNext /\ UNCHANGED <<gatewayVars, draftVars, rateVars>>
           \/ part = "rates" /\ RatesNext /\ UNCHANGED <<gatewayVars, draftVars, treasuryVars>>

Spec ==
  /\ Init /\ [][Next]_servicesVars
  /\ part = "gateway" => HubFairness
  /\ part = "rates" => RatesFairness

\* The type invariants, and with them what each part keeps in every state
\* about a single record: a code or a password, one treasury wallet of a
\* currency, an audit entry for each rate an administrator put in force.
PartsWellFormed ==
  /\ AccountsTypeOK /\ CodeOrPassword
  /\ KycTypeOK /\ GatewayTypeOK /\ DraftsTypeOK
  /\ TreasuryTypeOK /\ OneTreasury
  /\ RatesTypeOK /\ RatesAudited

\* BlocksDelivered, of the behaviours that run the gateway.
Delivered == part = "gateway" => BlocksDelivered

\* FeedKeepsTrying, of the behaviours that run the rates.
Refreshed == part = "rates" => FeedKeepsTrying
=============================================================================
