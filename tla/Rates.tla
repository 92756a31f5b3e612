------------------------------- MODULE Rates -------------------------------
(***************************************************************************)
(* Exchange rates on PostgreSQL: the handlers of src/api/admin_routes.py,  *)
(* the feed of                                                             *)
(* src/basic-blockchain.py and src/infrastructure/exchange_rate_sync.py,   *)
(* the table of src/infrastructure/postgres_currency_store.py.  (In memory *)
(* no feed starts: its pairs must exist before the server serves.)         *)
(*                                                                         *)
(* The feed fetches and stores one pair after another in a worker thread.  *)
(* The administrator's own sync does the same on the event loop, and holds *)
(* up every other handler and the waking of the feed, but not its thread.  *)
(*                                                                         *)
(* The table of rates is append-only and its last row for a pair is the    *)
(* one in force: the state keeps that row.  The currencies of the pairs    *)
(* exist: a pair that names another one is refused, and none is ever       *)
(* deleted.                                                                *)
(***************************************************************************)
EXTENDS Naturals, Sequences, FiniteSets

CONSTANTS
  FeedPairs,  \* the configured pairs, in order
  SyncPairs,  \* the pairs an administrator syncs, in order
  Pair        \* the pairs of currencies that exist

ASSUME PairsRated == FeedPairs \in Seq(Pair) /\ SyncPairs \in Seq(Pair)

BINANCE == "BINANCE"
CRYPTO_COM == "CRYPTO_COM"
Provider == {BINANCE, CRYPTO_COM}

VARIABLES
  provider,    \* of the feed; never changes
  in_force,    \* pair -> the last row for it; its domain is the pairs with a rate
  feed,        \* the feed: its state and the pairs it has left
  sync,        \* the administrator's sync: its provider and the pairs it has left
  failed       \* history: a handler ended before it wrote to the audit log

rateVars == <<provider, in_force, feed, sync, failed>>

\* by is who stored the row, audited whether the audit log has it: "yes", "no",
\* or "due" while its handler runs.
RateRow == [source : Provider \cup {"MANUAL"}, fee : {"zero", "some"},
            by : {"feed", "admin"}, audited : {"yes", "no", "due"}]

NoSync == [provider |-> "", left |-> <<>>]

\* The pairs of the feed exist before the server starts, or there is no feed.
RatesInit ==
  /\ provider \in Provider
  /\ in_force = [p \in {} |-> {}]
  /\ feed = [state |-> IF FeedPairs = <<>> THEN "off" ELSE "syncing", left |-> FeedPairs]
  /\ sync = NoSync
  /\ failed = FALSE

LoopFree == sync = NoSync

-----------------------------------------------------------------------------
(* Rates *)

Store(pair, row) ==
  in_force' = [x \in DOMAIN in_force \cup {pair} |-> IF x = pair THEN row ELSE in_force[x]]

\* When the process dies or the database fails in between, the rate is in force
\* and the audit log knows nothing of it.
SetExchangeRate(pair, fee, fails) ==
  /\ LoopFree
  /\ Store(pair, [source |-> "MANUAL", fee |-> fee, by |-> "admin",
                  audited |-> IF fails THEN "no" ELSE "yes"])
  /\ failed' = (failed \/ fails)
  /\ UNCHANGED <<provider, feed, sync>>

FetchedRow(source, by, audited) == [source |-> source, fee |-> "zero", by |-> by, audited |-> audited]

\* What ends sync_exchange_rates: "refused" raises ExchangeRateSyncError (no
\* price, or one that is no number; Crypto.com also when it cannot be reached),
\* "raised" anything else (Binance that cannot be reached, an answer of another
\* shape, a price the table refuses, a failing database).
Failure == {"refused", "raised"}

SyncExchangeRatesNow(source) ==
  /\ LoopFree
  /\ sync' = [provider |-> source, left |-> SyncPairs]
  /\ UNCHANGED <<provider, feed, in_force, failed>>

SyncStores ==
  /\ sync.left # <<>>
  /\ Store(Head(sync.left), FetchedRow(sync.provider, "admin", "due"))
  /\ sync' = [sync EXCEPT !.left = Tail(@)]
  /\ UNCHANGED <<provider, feed, failed>>

\* The rows that a handler leaves in force when it ends.
Settled(audited) ==
  in_force' = [p \in DOMAIN in_force |->
    IF in_force[p].audited = "due" THEN [in_force[p] EXCEPT !.audited = audited] ELSE in_force[p]]

\* Mutant: the audit entry is written before the rates are fetched, and names
\* nothing when the loop is done.
SyncEndsSilently ==
  /\ ~LoopFree /\ sync.left = <<>>
  /\ Settled("no")
  /\ sync' = NoSync
  /\ UNCHANGED <<provider, feed, failed>>

SyncEnds ==
  /\ ~LoopFree /\ sync.left = <<>>
  /\ Settled("yes")
  /\ sync' = NoSync
  /\ UNCHANGED <<provider, feed, failed>>

\* The rates stored before the failure stay in force; either way the handler
\* answers with an error and writes nothing to the audit log.
SyncFails ==
  /\ sync.left # <<>>
  /\ Settled("no")
  /\ sync' = NoSync /\ failed' = TRUE
  /\ UNCHANGED <<provider, feed>>

-----------------------------------------------------------------------------
(* The feed *)

FeedStores ==
  /\ feed.state = "syncing" /\ feed.left # <<>>
  /\ Store(Head(feed.left), FetchedRow(provider, "feed", "no"))
  /\ feed' = [feed EXCEPT !.left = Tail(@)]
  /\ UNCHANGED <<provider, sync, failed>>

\* Only ExchangeRateSyncError is caught: anything else ends the loop for good.
AfterFailure(failure) == IF failure = "refused" THEN "done" ELSE "dead"

\* Mutant: after a failure the feed goes on where it stopped.
FeedFailsAndResumes(failure) ==
  /\ feed.state = "syncing" /\ feed.left # <<>>
  /\ feed' = [feed EXCEPT !.state = AfterFailure(failure)]
  /\ UNCHANGED <<provider, sync, in_force, failed>>

FeedFails(failure) ==
  /\ feed.state = "syncing" /\ feed.left # <<>>
  /\ feed' = [state |-> AfterFailure(failure), left |-> <<>>]
  /\ UNCHANGED <<provider, sync, in_force, failed>>

\* Mutant: the error is caught outside the loop, which ends with it.
FeedSleepsUnlessRefused ==
  /\ LoopFree
  /\ feed.state = "syncing" /\ feed.left = <<>>
  /\ feed' = [state |-> "asleep", left |-> <<>>]
  /\ UNCHANGED <<provider, sync, in_force, failed>>

\* The thread is back; the loop sleeps and starts over.
FeedSleeps ==
  /\ LoopFree
  /\ feed.state = "done" \/ (feed.state = "syncing" /\ feed.left = <<>>)
  /\ feed' = [state |-> "asleep", left |-> <<>>]
  /\ UNCHANGED <<provider, sync, in_force, failed>>

FeedWakes ==
  /\ LoopFree
  /\ feed.state = "asleep"
  /\ feed' = [state |-> "syncing", left |-> FeedPairs]
  /\ UNCHANGED <<provider, sync, in_force, failed>>

-----------------------------------------------------------------------------

FeedFetches == FeedStores \/ \E failure \in Failure : FeedFails(failure)
SyncRuns == SyncStores \/ SyncEnds \/ SyncFails

RatesNext ==
  \/ \E pair \in Pair, fee \in {"zero", "some"}, fails \in BOOLEAN : SetExchangeRate(pair, fee, fails)
  \/ \E source \in Provider : SyncExchangeRatesNow(source)
  \/ SyncRuns \/ FeedFetches \/ FeedSleeps \/ FeedWakes

\* A fetch returns or times out after 10 s, in the thread and on the loop.  The
\* loop runs what is ready in turn: the feed's own turn comes although
\* handlers keep arriving.
RatesFairness ==
  /\ WF_rateVars(FeedFetches) /\ WF_rateVars(SyncRuns)
  /\ SF_rateVars(FeedSleeps) /\ SF_rateVars(FeedWakes)

RatesSpec == RatesInit /\ [][RatesNext]_rateVars /\ RatesFairness

-----------------------------------------------------------------------------
(* Properties *)

\* Type invariant; a feed that is not syncing starts over with its first pair.
RatesTypeOK ==
  /\ provider \in Provider
  /\ \A p \in DOMAIN in_force : p \in Pair /\ in_force[p] \in RateRow
  /\ feed.state \in {"off", "syncing", "done", "asleep", "dead"}
  /\ feed.state # "syncing" => feed.left = <<>>
  /\ sync.provider \in Provider \cup {""}
  /\ failed \in BOOLEAN

\* A rate in force that is not the feed's is in the audit log, unless the call
\* that stored it still runs or some call has ended half-way: the feed, storing
\* the same pairs in between, confuses nobody's entry.
RatesAudited ==
  \A p \in DOMAIN in_force :
    in_force[p].by = "admin" =>
      CASE in_force[p].audited = "yes" -> TRUE
        [] in_force[p].audited = "due" -> ~LoopFree
        [] in_force[p].audited = "no"  -> failed

\* A provider that refuses a pair over and over, and administrators that keep
\* the loop busy, do not stop the feed: it sleeps and tries again forever,
\* unless one fetch raised something else.
FeedKeepsTrying ==
  feed.state = "off" \/ \A state \in {"syncing", "asleep"} : []<>(feed.state \in {state, "dead"})
=============================================================================
