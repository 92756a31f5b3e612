# Verification of the basic blockchain simulator

TLA+ models of the simulator, the TLC configurations that check them on small
instances, and theorems that TLAPS proves for every instance. File and line
references are to the repository.

## 1. Inventory

The program is a Quart application (`basic-blockchain.py`) on one asyncio event
loop. Each handler runs without interruption except where it awaits; most of them
await only the request body, as their first or second statement. State is in
memory, or in PostgreSQL when `DATABASE_URL` is set, and then several processes
may share it. Nodes call each other over HTTP, and these calls block the loop.

| Part | State | Operations | What is hard | What makes it correct |
|---|---|---|---|---|
| Wallet ledger: `domain/wallet.py`, `domain/wallet_repository.py`, `api/wallet_routes.py`, `domain/mempool*.py`, `domain/validation.py`, `_mine` | wallets (balance, frozen), nonces, mempool, chain | create, freeze, mint, signed and legacy transactions, mine | admission reads balances that pending transfers will change; deltas that raise half-way through a block | no overdraft, no replay, frozen funds stay, balances explained by the chain |
| Ledger on PostgreSQL: `infrastructure/postgres_*.py` | the same in tables | the same, one database transaction per repository call | interleaving of processes, crashes between transactions | nothing lost, nothing confirmed twice, linked blocks, and all of the above |
| Chain and validation: `domain/blockchain.py` | list of blocks | create_block, validate, replace | which fields are covered by which hash | an edited block is detected, a mined chain is valid |
| Consensus: `domain/consensus.py` | none of its own | resolve | chains arrive field by field, late, or not at all; peers ask each other | longest valid chain; never a shorter or a broken one |
| Propagation: `domain/propagation.py` | none of its own | broadcast_transaction, notify_resolve | loops, timeouts, late deliveries, blocked event loops that wait for each other | at most once, every handler returns |
| Node registry: `domain/node_registry.py`, PostgreSQL twin | set of URLs | add, all | two spellings of one URL, a node that registers itself | a node appears once |
| Accounts and sessions: `domain/auth.py`, `api/auth_*.py` | credentials, JWTs | register, activate, login, change password | bootstrap administrator by a count; tokens outlive the account | one bootstrap administrator; what is taken from a user ends with the token |
| User store: `domain/user_repository.py`, PostgreSQL twin | users, indexes by name and email, roles, audit | profile updates, roles, soft delete | an index changed before a conflict is found | indexes agree with records |
| Roles and permissions: `domain/permissions.py`, `api/permissions.py` | role overrides | grant, revoke, guards | an override that replaces the defaults, roles frozen in a token, two stores that differ on an empty override | nobody gains a permission without a grant |
| Custody and administration: `api/admin_routes.py` | users with their wallets | delete, restore, freeze, adjust roles | awaits after reads; restore undoes unrelated freezes; deaths inside a loop over wallets | a wallet of a closed account is open only if somebody reopened it |
| KYC: `api/kyc_routes.py`, `api/kyc_admin_routes.py` | level, pending review, documents | upload, submit, approve, reject | user read before an await and written after it | levels are earned, and rise one at a time unless a call is overtaken; verdicts stand |
| Currencies and rates: `domain/currency_repository.py`, `infrastructure/exchange_rate_sync.py` | currencies, rate history | set rate, feed thread | a sync that fails half-way, a feed that must go on, two processes that create one treasury | what an administrator put in force is audited, the feed keeps trying, one treasury per currency |
| Wallet drafts: `api/wallet_routes.py` | drafts with a time to live | draft, confirm | expiry against confirmation, a creation that raises | one wallet per draft |
| Rate limiter: `api/rate_limit.py` | timestamps in a window | call | the boundary of the window | at most `max_calls` in any period |
| WebSocket hub: `api/websocket_hub.py` | one queue per client | serve, broadcast | a client that leaves while messages are queued | every connected client gets every event in order |
| Migrations: `migrations/migrate.py` | table of applied versions | run | stops between two files | each file applied once |
| Audit, crypto, HTTP shell | names, no state | | | |

How they interact: a request enters through the HTTP shell, is checked by the JWT
middleware and a permission guard, and calls one service. Submitting a transaction
goes wallet service → wallet store (nonce) → mempool, and for legacy transactions
→ propagation → the peers' `POST /transactions`. Mining goes mempool → chain →
wallet store (deltas) → WebSocket hub → propagation → the peers' `resolve`, which
comes back to the miner as `GET /chain`. The feed thread writes exchange rates
that the wallet service reads at admission. The guard reads overrides from the user
store on every call, and roles only from the token.

`PROJECT.json` lists every component with its status, and under `hazards` each
place that is hard to test with the properties that watch it. A hazard without
properties says why none watches it.

## 2. Modules

| Module | Models | EXTENDS / INSTANCE |
|---|---|---|
| `Transactions` | the transactions handlers build, wallets, rates, conversion | |
| `Ledger` | one node in memory: wallets, admission, mining, deltas | Transactions; `Journal` by INSTANCE |
| `Journal` | abstract: what mempool and chain promise together | |
| `Accounting` | sums over transactions, whichever store keeps balances | Transactions |
| `LedgerAccounting` | the properties of `Ledger` about sums and documents | Ledger, Accounting |
| `PgLedger` | processes on one database | Transactions; `Ledger` by INSTANCE |
| `PgAccounting` | the sums of `PgLedger` | PgLedger, Accounting |
| `Peers` | nodes that call each other: registry, propagation, consensus | |
| `Permissions` | roles, permissions, the default matrix, `has_permission` | |
| `Access` | the guard, tokens, roles, overrides, bans, deletions, freezes | Permissions |
| `Accounts` | registration, activation, passwords, profiles, indexes | |
| `Kyc` | one user's documents, reviews and level | |
| `RateLimiter`, `WebSocketHub` | the window; clients and their queues | |
| `Gateway` | the two ways to mine, behind one and in front of the other | RateLimiter, WebSocketHub |
| `Drafts`, `Treasury`, `Rates` | wallet drafts; currencies and treasury wallets; rates and the feed | |
| `MCLedger`, `MCPgLedger`, `MCPeers`, `MCAccess` | values for TLC | |
| `MCServices` | values for TLC, and a choice of one component | Accounts, Kyc, Gateway, Drafts, Treasury, Rates |
| `TransactionProofs` | lemmas about transactions and their sums | Accounting |
| `LedgerProofs`, `PgLedgerProofs` | theorems about both ledgers | LedgerAccounting, PgAccounting; TransactionProofs |
| `PeersProofs`, `AccessProofs`, `AccountsProofs`, `KycProofs` | theorems about the module they are named for | that module |
| `ServicesProofs` | theorems about the gateway and the drafts, and about `MCServices` | MCServices, AccountsProofs, KycProofs |

Definitions whose comment starts with "Mutant:" are changed forms of the definition
that follows. No specification uses them: each one is a bug the code could have,
and putting it in place of its original breaks the property `PROJECT.json` names
for it. They show that the properties can fail.

### 2.1 Ledger

State. `wallets`, `balance`, `frozen` and `nonces` are `InMemoryWalletStore`;
`mempool` and `chain` are sequences of transactions, in the order of the
lists in the code. `mining` is true while `apply_block_deltas` runs, and
`applied[b]` (a history variable, except for the block being applied) counts the
deltas of block `b` that were applied.

Steps. A handler that does not await between its first read and its last write is one
action: `CreateWallet`, `SetFrozen`, `AdminMint`, `SubmitSigned`, `SubmitLegacy`.
Mining is also one handler but is split: `Mine` up to `create_block`, then one
`ApplyDelta` per transaction, or `AbortDeltas` for the one that raises. No other
action is enabled while `mining` holds, as on the single event loop. The split
lets the properties look at a block that is half applied, which is what stays after
an exception.

Checks, in the order of the code: `BuildTransaction` demands existing unfrozen
wallets, a *mined* balance that covers the amount, a rate for the pair of
currencies and a fresh nonce, which it reserves; only then `AddToMempool`
runs `validate_transaction`, which compares the two *user names*, so a transfer
between two wallets of one user is refused with its nonce used.

Abstraction of data. Amounts are whole numbers of the smallest unit, 10^-8; a
conversion multiplies and rounds down twice as `quantize(ROUND_DOWN)` does. A
signature is one of three values: the coinbase sentinel, one that verifies, none.
Signatures that do not verify are refused before any state changes, and so are
malformed bodies. A wallet id has its owner and currency fixed by constants, since ids
are random and never reused. Every rate posted for a pair may be the one in force.

`Journal` is the abstract specification of mempool and chain: `Admit` one
transaction at the end, `Confirm` everything pending as one block. `JournalSpec`
says the ledger implements it.

### 2.2 PgLedger

Each repository call is one database transaction, except `flush()`, whose SELECT and
DELETE are two steps of one READ COMMITTED transaction that see different rows;
`pc[p]` says which call the handler of process `p` makes next and `job[p]` holds
its local variables. So `POST /transactions/signed` is `CheckTransfer`,
`ReserveNonce`, `InsertPending`, and mining is `ReadLast`, `SelectPending`,
`DeletePending`, `CountBlocks`, `AppendBlock`, then `ApplyDelta` once per
transaction. `AppendBlock` fails on the UNIQUE index when another process wrote that
index first. `credit` and `apply_transfer` lock the rows they read, so one of
them is one step.

`Crash(p)` forgets the job of a process, whatever it was doing, and leaves the
database as it is: between two calls everything is committed. (Inside `flush()` a
crash rolls back its DELETE. The step `DeletePending` commits at once, so a
crash before it deletes nothing and one after it is a crash after the commit.)

With one process and no crash, `BehavesAsInMemory` maps it to `Ledger`: a transaction
counts as pending from the step that decides its admission until the block that
takes it is written (`Pending`), and a process that is in its deltas is a node that is
mining (`Applying`).

### 2.3 Peers

A node runs handlers one at a time on its event loop. `urlopen` blocks it (also
through `wait(futures)`), so `job[n]` is the handler the node is in and
`inbox[n]` the requests that wait. Clients' actions and the serving of requests
need an idle node. A handler calls its peers (`waiting`), is answered by
`ServePost`, `ServeChain`, or by `EndResolve` of the peer that resolves for it
(`origin`), or gives up: `FailCall` is an error or a timeout at any moment, after which
the request is gone or is served later for nobody. At most `MaxAbandoned` of these wait at a
node; equal ones are one.

Nodes are numbers, because `resolve` asks peers in the order of their URLs. A node may
register itself. A block has the hash of its predecessor as the header fields that
matter (with the miner and the index for the timestamp), a Merkle root, and its transactions.
`Fetched` does what `_fetch_chain` does: it keeps four fields and leaves the root
and the transactions at the defaults of the dataclass. The transactions are
legacy ones, the only ones that are broadcast.

### 2.4 Access

`roles`, `role_overrides`, `user_overrides`, `banned` and `deleted` are the user
store, `owner` and `frozen` the wallets, `tokens` the JWTs that have not expired.
`durable` says which store it is; three things differ. In PostgreSQL a role without
a row has no override, while the dictionary keeps an empty set (`WithoutGrant`); the
UPDATE of a restoration matches no row when the user is no longer deleted
(`RestoreTooLate`); and a process may die inside a loop over wallets (`BanDies`,
`SoftDeleteDies`, `RestoreDies`), with the order of the writes of each handler: a ban
and a restoration write the user first, a deletion writes it last.

A handler that awaits its body is two steps: the guard puts a record in `calls`
(`Await`), the rest runs later (`AssignRole`, `RestoreUser`, `CreateWallet`, ...) and
checks nothing that the code does not check again. `restore_user` looks at the user
before the await, so its first half is `AwaitRestore`. `calls` is a bag, since two equal
calls may wait. Handlers without a body are one step. Login hands out a token with
the roles of the moment and checks the ban; nothing checks the deletion.

`bannedAt`, `revokedAt`, `thawed` and `late` are history variables: when something was taken
from a user, and which wallets of a closed account were unfrozen, created, or
missed. Audit entries are counted, because they bound the behaviours.

### 2.5 Accounts

`users`, `by_username`, `by_email`, `creds` and `roles` are the store. In memory a
handler is one step (`Register`, `WritePassword`). In PostgreSQL each database
transaction is: a registration is `InsertUser`, `InsertCredentials`, `CountUsers`
(only a read, of what other processes have done since), `InsertRole`, and `registering`
says which one is next; a password is checked (`CheckPassword`), hashed, and stored
(`StorePassword`), with `writes` in between. `TearIndex` is `update_user` of the
in-memory store when the new user name is taken: it raises after the email index changed,
and `torn` remembers it. A database has its SYSTEM user from the migrations, which the
bootstrap rule counts.

### 2.6 Kyc

`record` is one user's documents, pending review and level. `upload_document` and
`submit_review` look before they await: `Begin` is the first half, and the call holds
either the store's own object (`own`, memory) or a copy. In memory `set_banned`,
`soft_delete_user`, `restore_user` and `update_user` put a new object into the store, and a call
that held the old one then holds a copy, too (`ReplaceRecord`). The administrator's
handlers look after the last await and are one step. In PostgreSQL the process may die
between the two writes of a handler (`dies`). `overtaken` and `died` are history: the
properties say what holds without such an event, and what holds in spite of it.

### 2.7 The smaller parts

`RateLimiter`: `Popped` counts the timestamps that the `while`/`popleft` loop removes, which
end at the first one that is still in the window.

`Gateway`: the limiter, the mining and the broadcast of `POST /mine_block` have no await
between them and are one step; the old `GET /mine_block` passes neither. Time is in half
seconds, so that a whole number of seconds is not the only case. A client's coroutine is at one
of its two awaits (`sending` empty or not), and can be cancelled at both. A client
may stop reading (`Stall`).

`Drafts`: a draft's creation may raise before or after the wallet is committed
(`ConfirmRaises`), and the process may restart, which forgets the drafts.

`Treasury`: in PostgreSQL looking for the wallet and inserting it are two steps of
several processes, and the unique index of V014 refuses the second one.

`Rates`: the feed runs in a worker thread and stores pair after pair, as an
administrator's sync does on the event loop, which therefore serves nobody else. A
fetch is stored, refused (`ExchangeRateSyncError`) or raises something else, which
the feed does not catch. In memory no feed starts, since its pairs must exist first.

## 3. Runs

| Run | Instance | Question | Result |
|---|---|---|---|
| `ledger` | 2 users, 1 currency, amounts 1–2, 2 nonces, 2 pending, 2 blocks mined | can pending transfers overspend, a nonce be replayed, a frozen balance move? | no; implements `Journal` |
| `ledger_currencies` | 3 wallets, 2 currencies, rates that round | can conversion, a freeze or a failing delta create coin, also in a half-applied block? | no |
| `ledger_supply` | 2 users, 1 currency | BR-WL-08, supply equals coinbase amounts | violated |
| `pg_one` | 1 process, no crash, 3 rows | does the PostgreSQL ledger behave as the one in memory? | yes |
| `pg_two` | 2 processes, crashes, 3 rows | what survives races and crashes? | no overdraft, no nonce twice, no half delta, the chain only grows |
| `pg_flush` | 2 processes, no crash | is flush atomic? | violated: rows are deleted unread |
| `peers` | 2 nodes, 1 transaction, chains of 2, 1 abandoned request | do calls stay paired, chains and mempools whole, does every handler return? | yes |
| `peers_longest` | 2 nodes | BR-CS-01, the longest valid chain wins | violated |
| `access` | 2 users, 1 wallet, both stores, tokens of 2 ticks, 3 audited operations, 2 waiting calls, 2 tokens | how long does stale authority last, can a permission appear or a wallet thaw by itself? | less than one token's life; no |
| `access_hot` | the same | the comment in `soft_delete_user`: no hot wallets | violated |
| `services` | one of six components per behaviour, see below | are names, emails, roles, passwords, levels, verdicts, calls in the window, messages, drafts, treasuries and rates what the handlers think they are? | yes, with the exceptions the properties name |
| `accounts_emails` | the accounts of `services` | the comment in `update_user`: the index keeps emails unique | violated |

Bounds, and why they suffice. An overdraft needs two pending transfers against one
balance, hence two pending and amounts 1 and 2. A replay needs a nonce used,
mined and sent again: two nonces and two mined blocks. A freeze must fit between admission
and mining, which any bound allows. The currencies have rates for which the smallest
amount converts to nothing and another one is rounded twice. Races of
`flush`, `append` and `reserve_nonce` are between two processes, and a third would
add no new pair of database transactions. Two nodes that know each other, and
themselves, already form every circle of length one and two: a handler waits for the
handler that waits for it. A late delivery needs one abandoned request. What these bounds
leave open for the ledger is closed by the theorems, which hold for all of them.

In `access` the administrator and one user can ban, delete, promote and restore each other;
two waiting calls are two restorations that both passed their check, or a
restoration and a wallet created meanwhile; three audited operations are a deletion,
its undoing and one more; tokens expire within the run. `services` has the instances of six
components that share no state: 2 registrations with names that include the bootstrap
administrator's and SYSTEM's, one email, an empty one and none; 2 documents, all 4 levels (`TopLevel`
is 3), 2 calls of the user in flight; a window of 4 ticks for 2 calls over 7 ticks, and 4
blocks, so that two windows overlap, with one client (its queue does not depend on
others); 2 drafts of 2 users with a life of 2 ticks; 2 processes that create treasuries;
2 pairs fed by one provider and synced from either. Choosing the component in the initial state
keeps the state space the sum of theirs and not the product.

Bounds are all constants: `MaxNonce`, `MaxPending`, `MaxAdmitted`, `MaxBlocks`,
`MaxAbandoned`, `MaxAudit`, `MaxCalls`, `MaxTokens`, `MaxTime`, `MaxUsers`, `MaxWrites`,
`Slot`, `MaxNow`, `MaxHeight`, `MaxClock`, `MaxDrafts`. They stop the model from starting something, never from finishing it.
TLC checks for deadlock in the runs of the ledgers and of the peers. `access` and `services`
may stop: their bounded clocks and counters run out, and nothing in the code has to go on.

Fairness. The ledgers, `Access`, `Accounts`, `Kyc`, `Drafts` and `Treasury` state none:
everything is driven by requests, and what they promise is safety. `Peers` has one liveness property, `HandlersReturn`, and
assumes that a call does not stay unanswered for ever (`urlopen` has a timeout of 3
or 5 s, so weak fairness of `FailCall`) and that a handler whose calls are over goes
on (weak fairness of `FetchNext`, `EndResolve`, `EndCalls`). It does not assume that
a client asks for anything nor that a peer answers. `HubFairness` is weak fairness of
`Take` and `Send`: the event loop resumes a coroutine whose queue has a message, or
whose socket took one; a client that stalls is exempt, and `Delivered` says so.
`RatesFairness` is weak fairness of the fetches, which time out after 10 s, and strong
fairness of the feed's own turns on the loop: administrators who keep it busy
with syncs disable them again and again, but the loop runs ready callbacks in turn. It does not assume
that a provider ever answers well.

## 4. What the code does that its documents do not say

With a run that shows it:

1. **Supply** (`ledger_supply`). BR-WL-08 says the balances add up to the coinbase
   amounts. A delta that raises ends the loop of `apply_block_deltas` with the block
   already written: the coinbase transactions after it are recorded, not credited.
2. **flush** (`pg_flush`). The release notes of 0.3.0 call it atomic. Under READ
   COMMITTED its DELETE removes rows its SELECT did not see.
3. **Consensus** (`peers_longest`). BR-CS-01 promises the longest valid chain.
   `_fetch_chain` drops the Merkle root, and the validator then refuses every
   chain of a peer: no node ever adopts one. `ChainsLinked` and `ConfirmedStay` hold
   because of that check, and would fail without it (see their mutants).
4. **Hot wallets** (`access_hot`). Deletion freezes the wallets of that moment, and
   neither the guard nor login looks at `deleted_at`: the deleted user opens another one.
5. **Emails** (`accounts_emails`). An update refused for its user name has already
   moved the email in the in-memory index, and the next user may take the email that
   the record still has.

Without a run of their own; each is found in seconds with the change named here:

6. **Validity.** BR-CH-01 calls a chain valid if and only if three rules hold. The
   validator has a fourth, on signatures, and one legacy transaction, an endpoint
   BR-WL-09 keeps, makes a node reject its own chain. (`MCLedgerSupply.cfg` with
   `MinedChainValid` for its invariant.)
7. **flush, twice.** Two miners' SELECTs can return the same rows (BR-PS-06).
   (`MCPgLedgerFlush.cfg` with `ConfirmedOnce`.)
8. **Links.** Two processes that mine at once can write a block that does not name its
   predecessor (BR-BL-06). (`MCPgLedgerFlush.cfg` with `LinksHold`.)
9. **Crash.** A process that dies between `flush` and `append` loses the flushed
   transactions (BR-BL-07). (`MCPgLedgerFlush.cfg` with `MayCrash = TRUE` and one process.)
10. **Upload under review.** BR-KY-06 says no upload is accepted while a review is in
    progress. The check is made before the body is awaited, and a review submitted
    meanwhile does not stop the upload. (`MCServices.cfg` with `NoUploadInReview` as its
    only property.) `LevelEarned` holds all the same: a level is given only
    for documents that were approved.
11. **Levels.** BR-KY-04 says that a review can only target the next level. Two reviews
   submitted from old records break that: the first is approved after the user has passed
   its level, and lowers the user; the second then asks for the level above the one the
   user had, and its approval raises the user by two. With two levels TLC cannot see it;
   the attempt to prove that a level never rises by more than one showed it.
   (`MCServices.cfg` with `[][record'.level <= record.level + 1]_kycVars` as its only property.)
   `LevelByOne` therefore excepts what happens after a call was overtaken.

## 5. Theorems

Everything a passing run checks, but for liveness, is also proved, for every value of the
constants: any sets of wallets, users and currencies, any finite sets of nodes and processes,
any rates and any bounds. The assumptions are those that the modules state about their
constants, and TLC evaluates them on its instances. They say that the bounds are natural
numbers, that the constants have their types (`ConstantAssumption`, `LevelsOrdered`, `PairsRated`,
`LimiterConfigured`, `AccessBounds`), that there is a root user, a native currency, and a
lifetime of tokens of at least a tick (`RootIsUser`, `NativeIsCurrency`, `TtlPositive`), and that
the configured names and the values that stand for *none* are distinct (`NamesConfigured`,
`BlanksApart`, and parts of the others).
Where a theorem needs more, it says so in its statement: `OneProcess`
(`\A p, q \in Process : p = q`) and `~MayCrash`, which are what `pg_one` assumes.

### 5.1 The ledger in memory (`TransactionProofs`, `LedgerProofs`)

| Theorem | Says | Argument |
|---|---|---|
| `TypeCorrect` | `Spec => []TypeOK` | `TypeOK` is inductive. It includes that a wallet not yet created has balance 0 and nonce 0, and that `applied` of the last block is short of its end while `mining` holds: otherwise the next delta would not exist. |
| `NeverOverdrawn` | `Spec => []NoOverdraft` | `NoOverdraft` is inductive relative to `TypeOK`. Only `ApplyDelta` changes balances (`OtherSteps`), and it debits what `CanTransfer` compared (`DeltaEffect`). |
| `FrozenNeverMoves` | `Spec => FrozenFundsStay` | the same two lemmas: a balance that changes belongs to an unfrozen wallet. |
| `BalancesAddUp` | `Spec => []BalancesExplained` | see below; `AllAddressed` is the invariant. |
| `ReplayProtection` | `Spec => []ReplayProtected` | nonces increasing along chain and mempool is not inductive alone: a new nonce exceeds the *recorded* one, so it must be known that every nonce pending or confirmed is at most the recorded one. `NoncesRecorded` adds that. `OneAdmitted` extends the order by one transaction, `AllMined` moves it to the chain, `NothingAdmitted` covers the rest. |
| `ImplementsJournal` | `Spec => JournalSpec` | initial states map to initial states, and each action to `Admit`, `Confirm` or a stutter. |

`BalancesAddUp` is about a recursive function, `SumSeq`. The induction theorems of the library take
an operator, which the provers cannot instantiate, so `LeastNumber` (a set of naturals that is
not empty has a least element, from the well-foundedness of `<`) stands in for them: a fact that
failed somewhere would fail first at some number. With it `SumsExist` shows that the
recursive function exists, and `SumsChange` that adding `d` to one number adds `d` to the sum.
`BlockWritten` and `TransactionApplied` carry this over to blocks: writing a block with nothing
applied changes no sum, applying one transaction adds its `Worth`. The invariant `AllAddressed` says that each
transaction names two wallets, or none, or is a coinbase: a transaction with one wallet
would be worth something and be skipped by `apply_block_deltas`.

### 5.2 The ledger on PostgreSQL (`PgLedgerProofs`)

Any number of processes, which interleave and die at any step:

| Theorem | Says | Argument |
|---|---|---|
| `PgTypeCorrect` | `Spec => []TypeOK` | not inductive alone: `MinersApart` adds that two processes never apply the deltas of one block and that an index from `count()` is at most the next one. |
| `PgNeverOverdrawn` | `Spec => []NoOverdraft` | as in memory, whatever was read before. |
| `WrittenBlocksStay` | `Spec => ChainGrows` | an append at a taken index fails; deltas stop at the end of the block. |
| `NoncesProtect` | `Spec => []NonceAdmittedOnce` | `NoncesTaken`: a transfer about to be inserted has a nonce that the table covers and no row nor other process has. |
| `PgBalancesAddUp` | `Spec => []BalancesExplained` | the lemmas on sums again, for a block anywhere in the chain, since several are applied at once. |

With `OneProcess`:

| Theorem | Says | Argument |
|---|---|---|
| `LoneMinerLinks` | `Spec => []LinksHold`, crashes included | `AtTheEnd`: the block read last is still the last one. |
| `LoneMinerConfirmsOnce` | `Spec => []ConfirmedOnce`, crashes included | `RowsApart`: the rows pending, flushed and confirmed are disjoint, and ids are fresh. |
| `LoneMinerLosesNothing` | `Spec => []NothingLost`, without crashes | `RowsStay`: each step leaves a row somewhere. |
| `LoneProcessIsInMemory` | `Spec => BehavesAsInMemory`, without crashes | a step maps to a step of `Ledger` or to a stutter (`NextMaps`); `FindingsHold` keeps what admission found valid until the row is inserted. |

With two processes the first three are false: findings 2, 7, 8 and 9.

### 5.3 Nodes (`PeersProofs`)

| Theorem | Says | Argument |
|---|---|---|
| `PeersTypeCorrect`, `CallsStayPending` | `Spec => []TypeOK`, `Spec => []CallsPending` | one invariant, `Inv`: a handler's calls and the requests and resolves at its peers are paired, and an abandoned request has lost its caller. |
| `NoChainIsAdopted` | no handler ever holds a chain to adopt | finding 3 for any set of nodes: a fetched block has no Merkle root, so only a genesis block passes, which is never longer. |
| `ChainsStayLinked`, `ConfirmationsStay` | `Spec => []ChainsLinked`, `Spec => ConfirmedStay` | chains grow only by mining, which links. They rest on `NoChainIsAdopted`, and their mutants show that they would fail without it. |
| `PropagatedOnce` | `Spec => []AtMostOnce` | `HeldOnce`: a node that is not its own peer has at most one queued copy of a transaction or one held copy, never both, and none of a transaction nobody submitted. |

### 5.4 Access, accounts, KYC

| Theorem | Says | Argument |
|---|---|---|
| `AccessTypeCorrect` | `AccessSpec => []AccessTypeOK` | inductive, one lemma per group of handlers. That at most `MaxCalls` calls wait is a guard of the model and not part of it. |
| `StaleAuthorityIsShort` | `... => []StaleAuthorityExpires` | `TakenAfterIssue`: a token that grants something its user has no more was issued before it was taken. |
| `ClosedAccountsStayCold` | `... => []ColdUnlessReopened` | inductive relative to the types, one case per handler and one per handler that dies half-way: a closure freezes the user's wallets, but for those a ban that died has missed, which are in `late`. |
| `RevocationsGiveNothing`, `RestoresThawOnce` | `... => AuthorityGrowsByGrants`, `... => RestoreThawsOnce` | action by action. |
| `AccountsTypeCorrect`, `CodeOrPasswordKept` | types; a code or a password | inductive, also in the middle of a registration. |
| `IndexesKept` | `AccountsSpec => []IndexesAgree` | the indexes are inverse to the records, but for what `torn` records. |
| `FirstUserAdmin` | `... => []AdminIsFirst` | `AdminInv`: a registration about to store the ADMIN role is that of user 1, whatever overtakes it. |
| `ObligationStands` | `... => ObligationPersists` | action by action. |
| `KycTypeCorrect` | types of records and calls | a call that holds the store's own object exists in memory only. |
| `LevelsAreEarned` | `KycSpec => []LevelEarned` | `EarnedInv`: the level and the statuses *verified* of the record, of the review in progress and of the copies that calls hold are all vouched for by approvals. |
| `VerdictsStand`, `ReviewsComplete` | `... => []VerdictStands`, `... => []ReviewComplete` | each inductive relative to the types, from `NotOvertaken`: a call that ends without having been overtaken has seen the record as it is. |
| `LevelsByOne` | `... => LevelByOne` | `NextInv`: while no call was overtaken, a review is of the level after the user's, or of the user's own where the process died before it closed the review. |

### 5.5 The smaller parts (`ServicesProofs`)

| Theorem | Says | Argument |
|---|---|---|
| `WindowNeverOverfull` | `GatewaySpec => []WindowHolds` | `LimiterInv`: the timestamps kept are the end of those admitted, and what was popped is out of the window. |
| `RetryAfterIsExact` | `... => []RetryAfterExact` | the same, and arithmetic: the oldest timestamp leaves first. |
| `ClientsHearBlocks` | `... => []BlocksHeard` | `HubInv`: what flows through a queue keeps its order, and what is due is the blocks announced. |
| `DraftsSpentOnce` | `DraftsSpec => []DraftSpentOnce` | `DraftsInv`: a draft that is kept although a wallet was created from it is one whose call raised. |
| `PartsStayWellFormed` | `Spec => []PartsWellFormed` of `MCServices` | each part's own invariant, and that parts do not touch each other's state (`StepsOfParts`); it includes that a currency has one treasury wallet at most, and that rates are audited. |

### 5.6 Only model-checked

Liveness (`HandlersReturn`, `Delivered`, `Refreshed`) and with it everything that needs
`ENABLED`: the prover does not treat them. The runs that expect a violation have
nothing to prove; `NoChainIsAdopted` states the reason for one of them.

The proofs changed the models in four places. `LevelByOne` was false with three levels
(finding 11). `Worth` used a `CASE` with overlapping guards, of which TLC takes the first and the language
any. `AccessTypeOK` does not repeat a bound that is only the model's own. And the
sums, the loop of the rate limiter and the mapping to `Ledger` are defined by functions and
sets that can be reasoned about.

## 6. Not modelled, and the plan

Not modelled at all: cryptography below "verifies or not", proof of work beyond being
a step, JSON, HTTP parsing, logging, metrics, health and documentation assets.
Reading of tables that no property is about (listings, leaderboards, statistics) is left
out. `migrations/migrate.py` is not modelled: it runs before the server, one file per
transaction, and what the other components need of it is the constraints the files
declare, which are where their tables are. The lookup of the guard's user, the requests
of banned users and the forced change of a temporary password are not checks of the code, so
they are not guards here.

What a step hides: `Access` has one process, whose handlers it interleaves at their
awaits; two processes that interleave inside a loop over wallets are not in it. `PgLedger` does
not go below one database transaction, so the row locks of `apply_transfer`, which could
deadlock crosswise, are not seen, nor are amounts beyond 15 digits, which the mempool
table passes through `float`.

Planned, most important first:

1. `Chain`: edits of every field of stored blocks against what validation detects, with the
   Merkle tree as a recursive function.
2. `PgRows`: the row locks of `apply_transfer` and `credit` below one step of `PgLedger`.
3. A theorem on `SupplyConserved` for behaviours in which no delta raises: `BalancesAddUp` summed over
   the wallets.

## 7. Running

    tlc -config MCLedger.cfg MCLedger.tla
    tlapm LedgerProofs.tla

Each of the eight `*Proofs` modules is checked by a call of `tlapm` of its own.

`PROJECT.json` lists every run with its configuration and expected result.
