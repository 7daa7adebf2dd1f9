# Sorokeep in TLA+

Sorokeep is a command line tool and daemon that watches the time to live (TTL)
of Soroban contract entries on Stellar, alerts when it runs low and extends it.
This directory holds TLA+ models of its stateful parts, TLC runs over small
instances, and TLAPS proofs for every size. Paths below are relative to the
repository; the code is under `src/`.

    tlc -config Pool.cfg MCChannelPool.tla      # one run
    tlapm ChannelPool_proofs.tla                # one proof module

## 1. Inventory

The process runs on one JavaScript thread over one SQLite database
(better-sqlite3, synchronous). Code interleaves only at an `await`; CLI commands
are other processes on the same database file. What survives a crash is the
database and the chain.

| Part | State | Operations | Talks to |
|---|---|---|---|
| Daemon loop, `daemon/loop.ts` | `intervalHandle`, `cycleInFlight`, `lastVacuumAt` (module level) | `startDaemon`, `stopDaemon`, ticks, daily `VACUUM`, shutdown | starts cycles |
| Monitor cycle, `core/monitor.ts` | tables `contract_entries`, `alert_configs`, `alerts_fired` | `runMonitorCycle`, `processContract` | RPC; auto-extension; fires and resolves alerts |
| Dispatcher, `alerts/dispatcher.ts` and five channels | `alerts_fired.delivered`, `retry_count`; its snapshot | `deliverPendingAlerts`, `deliverSingleAlert` | HTTP |
| Auto-extension, `core/extension.ts` | `extension_history`, `budget_tracking`, entry rows, locals of each attempt | `runAutoExtensions`, `extendEntries`, `simulateExtension`, `isRateLimited` | RPC, pool, secrets |
| Channel pool, `core/channels.ts` | `inUse`, `waiters`, `cursor` | `acquire`, `release`, `nextFreeSlot` | used by the attempts of one run |
| RPC client, `rpc/client.ts` | window of request times, cached passphrase | reads, simulation, submission with one retry, polling | Stellar RPC |
| Watch and discovery, `core/watch.ts`, `core/discovery.ts` | contract and entry rows, cache timestamp | registration, scans, cache check | RPC |
| Reports, `commands/status.ts`, `commands/check.ts`, `core/status.ts`, `mcp/` | `contracts.last_checked_ledger`, which others write | verdict and exit code, health of a contract | tables only |
| Operators, `commands/guard.ts`, `restore.ts`, `channels.ts`, `core/channels.ts` | `extension_policies`, `channel_accounts`, entry rows | enable, disable, extend once, restore, add and fund accounts | RPC, secrets |
| Secrets, `core/vault.ts`, `resolveSecretKey` | - | what a source stands for | Vault |
| Costs and budgets, `core/costs.ts`, `core/budget.ts`, `core/rent_projection.ts`, repositories | `extension_history`, `cost_daily_snapshots`, `contract_budgets` | daily aggregation, summaries, projections | - |
| Database file, `db/database.ts`, `db/migrator.ts` | schema, `schema_migrations` | open: create, migrate, add columns, rebuild a table | - |
| Backup, `db/backup.ts` | a JSON file | export, import | all tables |
| State diffs, `core/state_diff.ts` | `state_snapshots`, `state_changes` | none that is called | - |
| Logging, configuration, rendering | none that outlives a call | - | - |

How they interact. A tick of the loop runs one cycle: for each contract the
monitor awaits the RPC, writes fresh TTLs, fires or resolves alerts; then all
guarded contracts extend concurrently, sharing the channel pool; then the
dispatcher sends what is pending; then snapshots of costs. (README lists the
phases with delivery before extension; the code extends first.)

What is hard: cycles that overlap when the loop is stopped and started; answers
applied an await after they were computed; a crash between a send and its mark or
between a landed transaction and its row; sends and transactions that time out
and succeed anyway; writes that fail in the middle of a contract; slots handed
over between attempts; budgets and rate limits read before several awaits and
written after them; requests that reserve times in the future while timers fire
late; days that close between a query and the transaction that stores it; a file
that two processes bring up to date at once; an import under a running daemon; a
guard that is disabled while the daemon awaits the ledger. `PROJECT.json` lists
each such hazard with its line.

What makes each part correct, in one line: the loop runs one cycle at a time
and stops when told; alerts are deduplicated, delivered at least once within a
bounded number of attempts, and follow the TTL; channel accounts are exclusive,
never lost, and given out first come first served; what the database says about
extensions is true on the chain, money spent stays within limits, and a low
entry is extended; what is registered of a contract is of one network, is whole
before the cache vouches for it, and is reported with the right TTL in the end; each
instance of the RPC client sends no more metered requests per window than agreed (the
window is kept per instance, so a node that serves several sees more); no extension is
counted twice; a file opens whole or not at all, and a backup brings back what it took;
nothing is signed for a guard that was read as disabled (one that is disabled after the
policy was read is still served), and an account that is marked funded was paid.

## 2. Modules

| Module | What it is |
|---|---|
| `AlertLifecycle` | monitor cycle, alert tables and dispatcher, composed; any number of overlapping cycles |
| `AlertQueue` | abstract specification: an at-least-once queue with bounded attempts |
| `MCAlertLifecycle` | instances of it |
| `AlertLifecycle_proofs` | theorems |
| `ChannelPool` | `ChannelAccountPool` |
| `SlotAllocator` | abstract specification: a first-come, first-served allocator |
| `PoolOrder`, `MCChannelPool` | `ChannelPool` with a history variable that says since when each account is free; instance |
| `ChannelPool_proofs` | theorems, the refinement among them |
| `AutoExtension` | `runAutoExtensions` on a moving chain; composes `ChannelPool` by `INSTANCE` |
| `MCAutoExtension` | instances |
| `AutoExtension_proofs` | theorems |
| `TxSubmit` | the submit methods of the RPC client, a node and a ledger |
| `MCTxSubmit` | instance of it |
| `Watch` | `watchContract`, `discoverStorageKeys` and the daemon's refresh, on the rows of one contract |
| `MCWatch` | instance of it |
| `Watch_proofs` | theorems, and that `Status` implements `Watch` |
| `Status` | extends `Watch`: `last_checked_ledger`, `status`, `check` and the MCP listings |
| `DaemonLoop`, `DaemonLoop_proofs` | timers, guard, start, stop, vacuum, shutdown |
| `RpcLimiter`, `MCRpcLimiter` | `acquireSlot`, `withRateLimit` and the metered methods of the client, in time |
| `RpcClient_proofs` | theorems about `RpcLimiter` and `TxSubmit` |
| `RentProjection` | the forecast as a function |
| `CostLedger`, `MCCostLedger` | history, daily snapshots, summaries, reports; extends `RentProjection` |
| `Backup` | the tables with their foreign keys, export and import beside other writers |
| `Store`, `MCStore` | extends `Backup`: two processes open, use and leave the file |
| `Database_proofs` | theorems about `Store`, `Backup`, `CostLedger` and `RentProjection` |
| `Secrets` | `resolveSecretKey` as a function |
| `Operator`, `MCOperator`, `Operator_proofs` | extends `Secrets`: guard, restore, channels commands beside the daemon |

In every module a step is the code between two awaits, written as one action:
the handler's guards, then all its effects. Definitions whose comment begins with
"Mutant" are deliberate bugs; nothing refers to them except `PROJECT.json`, which
names the property each one breaks.

### AlertLifecycle

`alerts` is the table `alerts_fired` as a function from row identity to
`[resolved, delivered, retry]`; a row is named by the handler execution that
inserted it, its config and its entry. `pc`, `work`, `resp`, `todo` and `sending` are the
locals of each cycle in flight: the contracts still to check, the response about
to be applied, the dispatcher's snapshot, the alert being sent. `received` and
`announced` are what the channels saw.

| Action | Code |
|---|---|
| `StartCycle`, `RpcReplies`, `RpcFails` | `runMonitorCycle`; the await of `getEntryTTLs` |
| `ProcessResponse`, `ProcessAborts` | `processContract` after its await, whole or cut short by a throwing write |
| `StartDelivery`, `BeginSend`, `SendReaches`, `SendSucceeds`, `SendFails`, `MarkFails`, `DeliveryThrows`, `EndCycle` | `deliverPendingAlerts` |
| `ResolutionArrives`, `ResolutionLost` | `deliverSingleAlert`, not awaited |
| `AddConfig`, `RemoveConfig` | `alerts add`, `alerts remove` in another process (the foreign key cascades) |
| `LedgerCloses`, `EntryExtended`, `Crash` | chain, user, process |

An answer that arrives and a send that is reported failed are independent
(`SendReaches`, then `SendFails`): that is a timeout after delivery. Between
`RpcReplies` and `ProcessResponse` the chain moves on and another cycle may write.

### ChannelPool

The three private fields are variables of the same names; `slot` and `asked` are
what the callers hold. `HandOver` is the branch of `release` that calls a waiter's
resolver; the waiter holds its slot from that moment, although its continuation
runs later. The pool lives for one run: `NewPool`.

### AutoExtension

`now`, `until`, `pending`, `landed` are the chain; `known`, `history`, `spent`
the tables; `att` the locals of each attempt, `att[c].at` the await it stands at.
`Checks` is the part of `processContract` that refreshes entry rows. A fault
(`MaxFaults` of them) is any rejected await, a lost transaction, a Vault that does
not answer, polling that ends early, or a crash; each of them may hit anywhere.
The pool is an instance of `ChannelPool`; when a path asks it, and whether it gives back
what it holds, is this module's (`AsksForKey`, `ChannelUnresolved`, `ReturnsSlot`), and
the end of a run asks nothing of the pool: `EndRun` drops it as it is (`PoolIsGone`), so
an account that was not given back would show.
`SimulationFails` follows the code: `client.simulateExtension` reports an error in
its result, which the caller does not look at, and the estimate is 0.

### DaemonLoop

`timers` are the intervals that fire, `intervalHandle` the one the module
remembers. `startDaemon` is two steps, before and after the await of its first
cycle. `settled` and `idle` are history variables that record how politely the
callers behaved, so that one run can say what holds for whom.

### TxSubmit

`call` holds the locals of each call of `submitExtension`,
`submitExtensionWithFeeBump` or `submitRestore`: the await it stands at, the
attempt, the sequence number it built with, the polls so far, its result. `seq`,
`landed` and `failed` are the ledger, `queue` the node; both are external, and what
they do is taken from how the client reads their answers: one queued transaction
per account, others answered `TRY_AGAIN_LATER`, which is no `ERROR` and is therefore
polled like an accepted one; any number but the next refused. `moved` is a history
variable: how often somebody else used the account while a call was under way.
`isBadSeqError` compares the outer result code, so the recovery of
`submitExtensionWithFeeBump` never runs for a fee bump whose inner transaction has
the bad number (`IsBadSeqError`). The class defines `submitRestore` twice; the
second definition, line 797, is the one in effect and the one modelled.

| Action | Code |
|---|---|
| `FetchesAccount`, `SimulationPasses`, `SimulationRefuses` | `buildTx`, simulation, assembling |
| `SendAccepted`, `SendPostponed`, `SendRefused`, `SendRefusedForSeq` | `sendTransaction` and the single recovery |
| `PollSeesSuccess`, `PollSeesFailure`, `PollSeesNothing` | `pollTransaction` |
| `Rejects` | any await that throws; a send may have arrived all the same |
| `LedgerTakes`, `Expires`, `OtherUses` | ledger, node and other users of the account |

### Watch

`contract` is the row of `contracts` (network and stamp), `rows` the table
`contract_entries`, `watch`, `check` and `scan` the locals of the three kinds of
writers. CLI commands are other processes on the same database, so here a step is one
await or one SQL statement. `until` is the chain, on every network. Two histories: a row records
the network its TTL was read from (`of`), and `mixed` says whether watches of two
networks were ever under way together. The node may leave out archived entries, never
live ones (`Answers`).

| Action | Code |
|---|---|
| `WatchRefused`, `WatchCached`, `WatchStarts` | `watchContract` up to its first await |
| `EntriesArrive`, `DeclaredSkipped` | its reads; the keys a contract declares never survive decoding, section 5 |
| `StoresContract`, `StoresEntry`, `Stamps`, `WatchFails` | its statements; a failure anywhere |
| `CheckStarts`, `CheckAnswered`, `CheckStoresEntry`, `CheckFails` | `processContract` without alerts |
| `ScanStarts`, `FootprintArrives`, `ScanEnds` | `discoverStorageKeys`, as `runBatchDiscovery` calls it |

Nothing deletes a contract (`deleteContract` has no caller), so no action does.
An extension made elsewhere is part of `LedgerCloses`: a subset of `Extendable` gets a
new live-until ledger in that ledger.

### Status

`checked` is `last_checked_ledger`, `latest` the ledger of an answer that is under way
to it. `processContract` stores it before the rows, `watchContract` after them, and
both may hold answers older than what is stored, so each step of `Watch` is wrapped in
one that carries the ledger (`WatchReads`, `WatchStoresLedger`, `CheckReads`,
`CheckStoresLedger`, ...). `ContractStatus`, `Health` and `CheckPasses` are what
`getContractStatus`, `list_watched_contracts` and `sorokeep check` make of the rows.

### RpcLimiter

`slots` are the times `acquireSlot` reserved, in order; `started` when each request was
sent; `stage`, `req`, `due` and `tries` the locals of each metered call. The list
`recentRequestTimes` is `Recent`, those slots the filter has not dropped, which needs
that `Date.now()` does not run backwards. A timer fires at its time or up to `MaxLate`
ticks after. Metered calls are `checkHealth`, `getFeeStats`, `getLatestLedger` with its
fallback, the passphrase and polling; reads of entries, simulation and sending do not
pass the limiter.

| Action | Code |
|---|---|
| `Call`, `Reserve`, `Wake` | `withRateLimit`, `acquireSlot`, `sleep` |
| `SingleReplies`, `LedgerReplies`, `LedgerFallsBack`, `PassphraseReplies` | the methods, answered or failed |
| `PollReturns`, `PollPauses`, `PollAgain`, `PollTimesOut` | `pollTransaction` |
| `Tick` | the clock |

### CostLedger and RentProjection

`executed` remembers every extension, `history` those rows the table still has,
`snapshots` the daily table, `rows` what a daemon queried and has not stored.
`AggregateReads` and `AggregateWrites` are the two halves of
`aggregateDailyCostSnapshots`: in one process nothing comes between them, in two
processes everything may. `ImportBackup` deletes history and snapshots by cascade. The
reports are operators: `CostSummary` (calendar days, snapshots and today's rows),
`ExtensionCosts` (rolling hours), `Forecast`. Every sum of XLM
runs over the rows a count counts, and `cost_xlm` is always NULL (section 5), so the
counts stand for the sums. The two SELECTs of a summary, each with a `date('now')` of its
own, are read as one step.

The costs command forecasts a type with the size of one entry. It finds that entry by
the label of an extended row, and discovery gives one label to entries of every type
(`src/core/discovery.ts:195`), so the entry a row is taken for (`ShownAs`) may be of another
type than the row. `SizedBy` follows both loops: the first stores a size under the type
of the entry that was found, the second adds the first entry of a type the first did not
reach. In the instance a persistent and a temporary entry share a label.

### Backup and Store

`db` maps a kind of table to its rows, `seq` is `sqlite_sequence`. Five kinds stand for
all tables: contracts, entries, configs (exported) and history, alerts (not). An export
is one step per table, an import one transaction that clears, cascades, inserts and may
roll back (`Imported`, `Failed`). It takes any of `Files`: the last export of this
database, torn or not, or one of `OtherFiles`, which other databases exported. Ids are kept,
so the history of an id begins anew with the rows of another database: `origin` is the
database that gave the entries in the tables their ids, `source` that of an export
under way, and `crossed` remembers that a monitor held rows when those of another
database took their place. All three are history variables. Two exports of another database count as files of
two: between them it may have given an id that was given here as well. `held` are the rows a monitor
reads before it awaits the node.

`Store` adds the file: `created`, `columns`, `legacy`, `applied`, and `pc`, `todo`, `enforce`
for each process; `enforce` is the `foreign_keys` pragma of its connection. The rebuild
of `alert_configs` is three steps, the pragma, the transaction and the pragma again; the
transaction copies the rows, drops the table, which on a connection that enforces foreign
keys deletes what refers to it, and puts the copy in its place (`Copied`, `Dropped`,
`Rebuilt`).

| Action | Code |
|---|---|
| `InsertContract`, `InsertChild`, `RemoveConfig`, `MonitorReads`, `MonitorWrites` | the writers of the repositories, as the other modules have them |
| `ExportTable`, `Import` | `exportDatabase`, `importDatabase` |
| `Start`, `ExecSchema`, `ReadPending`, `Migrate`, `MigrationsDone`, `Alter`, `Check`, `ForeignKeysOff`, `Rebuild`, `ForeignKeysOn` | `getDatabase`, `Migrator`, `migrateAlertConfigsChannelTypeCheck` |
| `Stop` | the process dies |

### Secrets and Operator

`command` holds the locals of the command each terminal runs, `run` those of the
daemon's cycle; `policy`, `registered`, `funded`, `known` are tables; `now`, `until`,
`masterSeq`, `paid`, `pending`, `fate` the chain. `told` and `unsure` count what the
operators were told of each account. `FieldValue` is `getSecret`'s choice of a field:
a candidate that is present but empty ends the search among the candidates, and the
document is then searched as if it had none.

| Action | Code |
|---|---|
| `GuardDisables`, `GuardStarts`, `GuardResolves`, `GuardUnresolved`, `GuardEnables`, `GuardSimulates` | `commands/guard.ts`, `upsertExtensionPolicy` |
| `RestoreStarts`, `Submits`, `SeesSuccess`, `SeesFailure`, `Refreshes`, `TimesOut`, `GivesUp` | `restoreEntries`, and `extendEntries` of a manual extension |
| `ChannelsAdd`, `FundStarts`, `FundReadsMaster`, `FundSends`, `FundRefused`, `FundMarks`, `FundReports` | `addChannel`, `fundChannels`, `sendPayments` |
| `Checks`, `RunReads`, `RunResolves`, `RunSkips`, `RunSubmits`, `RunPolls`, `RunRecords`, `RunTimesOut`, `RunFails` | `processContract`, `runAutoExtensions` for the contract |
| `LedgerCloses`, `Lands`, `FailsOnChain`, `Expires` | chain |

Two orders of `guard --disable` and `guard --auto-extend` running at once are both
possible: the one that enables decides before it awaits its secret, so it may overwrite
a disable that came after the decision. No document says whose command should win.

## 3. Runs

| Run | Instance and why it suffices | Shows |
|---|---|---|
| `Alert_cycles` | two contracts (one never has to answer), two entries, one config with threshold 2, TTL up to 2, two attempts, one extension, one fault: an alert can be fired, resolved, fired again, abandoned, deleted while sent | no false recovery; the queue refinement; detection, resolution and settling under fairness |
| `Alert_overlap` | two cycles in flight, one entry, two attempts, one fault | deduplication and retry cap, whatever overlaps |
| `Pool` | five contracts, three accounts: two waiters, all release orders, several runs | sound slots, round robin, refinement, no starvation |
| `Ext` | two contracts, three entries, one account, one fault, three ledgers after the first, budget of one fee: one attempt waits for the other, a transaction may land late, be recorded in part or be repeated | every account comes back once on every path, distinct signers, true history, the hourly limit while nothing fails or is archived, low entries are extended |
| `Submit` | two calls on one account, one of them a fee bump, two polls, two transactions of others, one rejected await: the recovery can run, succeed, and fail again, before and after a queued transaction | one landing per call, results are true, every call ends |
| `Watch` | two watches on one network, one with a manual key, a forced one on another network, a daemon, a discovery that finds the key; at most two watches under way; two ledgers: every pair of writers overlaps, entries get archived or extended, the cache expires | the stamp is earned, one network, what is reported converges |
| `Loop` | three `startDaemon` calls and any number of stops; at most two cycles of timers in flight (`MaxInFlight`), enough to overlap | stop is final, progress |
| `Limiter` | two requests per window of two ticks, four calls of different kinds that make up to seven requests, timers one tick late: slots are reserved two windows ahead | rate, no waste, every call ends |
| `Costs` | three days of two moments, two extensions of three entries, two of which share a label, two daemons, one import, one failure, windows of one and two days | no double count, agreement of the reports, the forecast, closed days |
| `Store` | a new and an old file, two processes, two migrations, one contract, two ids, the file of another database with the same id for another entry, one import (of that file or of an own export), one fault | opening keeps rows, ends current, and ends; clean backups restore; ids keep their meaning unless rows of another database replace held ones |
| `Operator` | two terminals, two commands, one entry that is alive or archived, two accounts, one fault | signing, funding, restoring |
| `Ext_budget` | the smallest instance that shows it | a disagreement, section 5 |

Bounds: `MaxTTL`, `MaxExtends`, `MaxFaults`, `MaxLedger`, `MaxNow`, `MaxInFlight`, `MaxMoves`,
`MaxCalls`, `MaxCommands`, `MaxRows`, `MaxImports`, `MaxRestores`, `MaxFailures`, `MaxId`,
`MaxLate`, `Moments` (the row numbers the abstract queue looks at; with fewer than occur the
refinement would fail) and the sizes of the sets; `MaxPolls` and `MaxAttempts` are the code's `maxAttempts`. `MaxRetry` is 5
and `HOURLY_RATE_LIMIT` is 5 in the code; 2 and
1 reach every comparison with them. Deadlock is checked where the system never stops; not in
`DaemonLoop`, where a shutdown ends the process, in `TxSubmit`, `Watch` and `RpcLimiter`,
where every call ends, nor in `CostLedger` and `Store`, where nobody has to write.
In `Watch`, `Extendable` and `MaxNow` bound the chain; `CacheAge` is 1 for 24 hours. The
type invariants (`TypeOK`, `LimiterTypeOK`, `CostTypeOK`, `StatusTypeOK`, `StoreTypeOK`) are in no run: those of
`AlertLifecycle`, `ChannelPool`, `DaemonLoop`, `TxSubmit`, `Watch` and `RpcLimiter` are
proved, the others document the state.

Fairness. Every await settles because the HTTP clients time out: weak fairness
for the steps that follow one (in `TxSubmit`, `Step` of each call; in `RpcLimiter`, `Replies`).
`setInterval` starts cycles again: weak fairness for
`StartCycle`, and in `Operator` for the daemon's steps. Timers fire and time passes: weak fairness
for `TimerFires` and `Tick`. A node that is asked for ever
about a contract answers for ever: strong fairness for `RpcReplies` of that contract (in
`Alert_cycles` only for one of the two contracts). The network takes submitted transactions into ledgers:
weak fairness for `Lands` in `AutoExtension`. A daemon
checks again and again (weak for `CheckBegins`), and what it asks for ever is answered,
and written for every row, for ever (strong for `CheckReads`, `CheckStoresLedger` and
`CheckStores` of each key); watches and discoveries may stop anywhere. A daemon aggregates
at the end of each cycle (weak for both halves in `CostLedger`). A process that stopped is
started again by its supervisor or its user (weak for `Opening` in `Store`). Holders of a slot release it,
since an attempt is a
bounded series of awaits: weak fairness for `Release` in the pool, which `SlotsAreReturned`
and `LowIsExtended` justify in `AutoExtension`. Faults, crashes, users, commands and the passing of ledgers have no
fairness.

## 4. Proofs

Every safety property, action property and refinement that a run checks is also a
theorem, for every value of the constants that satisfies the module's `ASSUME`: the
runs found them true of small instances first. Only liveness is left to TLC. The
inductive invariant behind each, and why it is needed:

- `AlertLifecycle_proofs`. `Deduplication` needs the insert to be guarded in the same
  step as the look-up. `AtLeastOnce`: `reached` implies `received`. `RecoverySound`:
  `resolving` and `announced` are disjoint and both resolved. `RetryCap`, by counting:
  the retries of a row plus the cycles that still hold it undecided never exceed the
  limit by the number of cycles. `QueueImplemented`: every step is a step of
  `AlertQueue` or none. `QueueInv` says that whatever a cycle has taken into its
  snapshot or is sending is still pending when its turn comes, unless its config was
  removed, and that rows belong to configs that exist. That is true of one cycle at a
  time (`Alone`) and false of two, and the theorem says so; a row that was deleted
  never returns, because rows are numbered in the order of their insertion. Here
  `Moments` is all of `Nat`.
- `ChannelPool_proofs`. `PoolInv` adds to the checked invariants that only a
  caller that asked holds a slot, and that queued callers hold none and are queued
  once. The round-robin scan needs that `(cursor + i) % n` reaches every account.
  `PoolImplementsAllocator` maps every step to a step of the allocator.
  `RoundRobinHolds`: `Ahead(s)` is how late the scan reaches an account from the cursor;
  `OrderInv` says that what was handed out since an account is free lies further ahead
  than the account itself, so that the scan comes to the account first. A hand-over
  moves no cursor, but happens only while nothing is free. The theorems take the
  pool's constants as a hypothesis (`PoolConstants`), since `AutoExtension` uses them
  through `INSTANCE`.
- `DaemonLoop_proofs`: types, guard, and three results about polite callers. The
  invariant of `TimerUnique` and `StopHolds` is that no timer is set while a first
  cycle runs; that of `CyclesApart` is that the guard is set whenever a cycle is in
  flight.
- `AutoExtension_proofs`. `HistoryTrue`: hashes are drawn in
  increasing order, and an attempt that polls or records follows the transaction
  it built from its own keys. `BudgetKept`: the value read before the awaits is
  still the stored one when it is charged. `RowsLagBehind`. `SlotsComeBack`: every step
  of an attempt is a step of the pool or leaves it alone (`AttemptUsesPool`), so
  `ChannelPool_proofs`, instantiated with the contracts as callers, gives what the pool
  promises while a run goes on; what the pool cannot know, at which await a holder or a
  waiter stands, is the rest of the invariant, and each exit of an attempt has to
  re-establish it. `UndisturbedSourcesHolds`: while nothing failed, what is in
  flight is the transaction of an attempt that polls it (`SourcesInv`), an attempt
  signs with the slot it holds or with the policy's account (`SignsWithOwn`), and slots
  are exclusive (`SlotsInv`, from the pool). `UndisturbedRateLimitHolds`: while nothing
  failed, every transaction that landed has a row or is that of an attempt about to
  write it (`RateInv`), so the rows counted before the awaits and the one attempt of
  the contract bound what can land in the hour; `LocalsInv` and `NumbersInv` name the
  rows and transactions that are counted.
- `RpcClient_proofs`, submission. `SendInv`: nothing of a call is sent before its stage
  `send` is over, and what was sent is what its locals describe; `LandsOnce` and
  `ReportsTrue` follow. `RecoverInv` bounds how far a call's sequence number lags
  behind the account by the moves of others since, one of them used up by the
  recovery; it rests on `SendInv`, which rules out that the call's own transaction
  moved the account.
- `RpcClient_proofs`, limiter. Slots are reserved in increasing time, any two slots
  `Limit` apart are a window apart, and a request is sent no earlier than its slot and
  no later than `MaxLate` after it: `RateIsKeptHolds`. The step that reserves needs that
  the slots of the window are the last ones: then the blocking one is exactly `Limit`
  before the new one. `SoonServedHolds` adds that a slot in the future was reserved
  exactly a window after the one `Limit` before it; by a least counterexample, the
  blocking slot is as many windows ahead as the slots in the future fill.
- `Watch_proofs`: first what each kind of step does (`WatchEffect`, `CheckEffect`,
  `ScanEffect`), then three invariants. `StoresAnswered`: only answered entries are
  stored. `Isolated`: whoever is about to write does so for the network of the
  registration, and all watches under way are for one network; without the second half
  a watch begun before the registration breaks the first. `Earned`: how far a call has
  read and stored at each stage, and that some call that ended earned the stamp; rows
  only grow, so what it stored stays. `StatusImplementsWatch` carries all of this over to the
  module the run checks.
- `Operator_proofs`. `SignsOnlyEnabledHolds`, although the daemon looks at `enabled` once
  and reads the policy again later: `GuardInv` says that a policy stored as
  disabled has no source, so what the second look finds is enabled or yields no key.
  `FundedIsPaidHolds`: `FundInv` says that the transaction a command waits for is the one
  it built and the only one it is told about, so a success speaks of its own payments.
  `PaidAsReportedHolds` keeps books: what was told and what is owed (commands whose
  payment landed and that have not said so) is paid, and what is paid or may yet be
  (transactions whose command gave up) is told, owed or unsure (`Balanced`). Each step
  moves one command or one transaction from one column to another. The terminals are
  finitely many and none is the daemon.
- `Database_proofs`, opening. `OpenIsCurrentHolds`: `OpenInv` says of each stage what is
  done by then, and lists as pending whatever is not applied; it is inductive because
  no process undoes what another relies on (`OpeningOnlyAdds`). It also says at which
  stages a connection enforces foreign keys: always, but between the two pragmas of the
  rebuild. `OpeningKeepsRowsHolds` rests on that and on the types of the rows: the drop
  then empties one table and no other (`OpeningLosesNothing`), and a copy of all columns
  is exact (`CopyIsExact`).
- `Database_proofs`, backup. `DataInv`: ids are finite sets of numbers not above
  `sqlite_sequence`; within what one database numbered, an id means one entry in the table, in the
  hands of a monitor, in an export under way and in the last backup alike (`MeaningInv`:
  `Seen` says where entries that database `L` numbered are found here, `Foreign` in which
  files of others; without the export and the backup an import could bring back
  another meaning), and no id ahead of `sqlite_sequence` has one already, for the numberings
  in use here (`Used`). An import empties the history, so a history under a wrong id can only
  come from rows held over it, and then from a file of the same numbering, unless
  `crossed`; rows have their contract, in a
  backup as well if nothing was written while it was made (`RestoreInv`), so that the
  foreign keys accept it. The rows of an old file are assumed to be in the
  order SQLite keeps them in (`Orderly`).
- `Database_proofs`, costs. `LedgerInv`: what a daemon read or stored of a day that is over
  counts at most the executed rows of that day, and exactly those of the table unless
  an import came between a query and its transaction. A summary adds counts of
  different days and today's rows: their sets of rows are disjoint, so the sum
  is the size of a union (`CountedByDay`, `SummaryIsBounded`, `SummaryIsExact`).
  `DaysAgainstHours` compares the two kinds of windows. The forecast rests on
  properties of division that rounds up, and on what `SizedBy` finds being an entry of
  the type: of the first loop by the type it stores under, of the second since an active
  type has an entry. `SnapshotSum` is written as the size of a set
  of pairs, so that sums need no recursion.

A theorem may state more than the runs check (`TimerUnique`, `CyclesApart`,
`RowsLagBehind`, `BudgetKept`, `AtLeastOnce`, `NetworkStaysHolds`, `RecoversOnceHolds`,
`LedgerInvHolds`): these invariants were model-checked while they were developed.

Only model-checked: liveness (`BelowIsDetected`, `RecoveryResolves`, `FiredSettles`,
`WaiterServed`, `LowIsExtended`, `KeepsCycling`, `Settles`, `ReportsConverge`,
`EveryCallEnds`, `DaysAreClosed`, `OpensInTheEnd`, `RestoredIsSeen`), which needs fairness and
`ENABLED`, out of the prover's reach; and the disagreement `BudgetEnforced`, which is false.

## 5. Where code and documents disagree

One is shown by a run, `Ext_budget`, and quoted in `PROJECT.json`: the limit of the
`budget` command is written to `contract_budgets`, the extension reads `budget_tracking`,
which nothing writes.

Shown by earlier runs of these models, and still to be seen in them:

- `stopDaemon` resets the guard of a running cycle (`src/daemon/loop.ts:98`), so a restart
  runs a second cycle beside it; `src/daemon/loop.ts:55` says that such a tick is skipped and
  `docs/adr/ADR-004-polling-daemon-architecture.md:38` that this prevents overlapping
  requests. During the first cycle it does not stop at all, and a second `startDaemon` at
  that moment leaks a timer (`TimerUnique` and `SettledStopIsFinal` hold of callers that
  wait for `startDaemon`).
- The hourly limit counts rows of `extension_history` (`src/core/extension.ts:208`), not
  transactions as `src/core/extension.ts:29` says: it admits too many when a transaction lands
  without a row, and too few when one transaction has several entries.
- `channels add` stores no secret, so the slot's secret never resolves
  (`src/core/extension.ts:356`), and concurrent extensions sign with the policy's account;
  `README.md:44` promises concurrent submission without sequence bottlenecks.

Read in the code, without a run.

- Alerts: after a restart of the loop two cycles hold the same
  pending alert, and the second sends it after the first marked it delivered
  (`src/alerts/dispatcher.ts:74`; `README.md:649` says marked alerts are not re-sent).
  `threshold_crossed` may be sent after `alert_resolved` of the same alert, since undelivered
  alerts are sent resolved or not.
- Watch: within 24 hours a second `watch` with other `--storage-keys` reports success and
  registers nothing (`src/core/watch.ts:82`; the comment on `forceRefresh` says that manual
  commands expect a refresh, and none passes it). `getMonitoredKeys` returns values where
  `getEntryTTLs` decodes ledger keys, so keys a contract declares are never
  registered (`src/rpc/client.ts:484`). `watch --storage-keys` passes one string where an
  array is expected, and fails; the option `--no-introspection` is stored under another
  name than the one `watch` reads. The README's footprint discovery "(daemon)" is not run by
  the daemon.
- Check: while `last_checked_ledger` is NULL, as after a watch that was cut short,
  `sorokeep check` prints that all TTLs are safe and exits with 0
  (`src/commands/check.ts:35`), which `CheckPasses` follows; `README.md:340` calls it a one-off
  execution of the monitoring cycle, but it reads the database only.
- Costs: `extendEntries` never stores `cost_xlm`, so every sum of costs is 0 and only counts
  are real. `src/commands/costs.ts:236` speaks of the maximum of the observed sizes; the code takes
  the latest size of the first entry under the label of the newest row, and labels are shared
  between types ("Discovered (footprint)", `src/core/discovery.ts:195`), so the entry may be
  another than the one that was extended. `ForecastIsSound` says what is left: the size
  used was seen at some entry of the type or is the default.
- Database: an import deletes the history, alerts and snapshots of every contract by
  cascade and loses `poll_interval_seconds` (`src/db/backup.ts:21`). It takes the file of
  any database (`src/commands/db.ts:44`, `src/db/backup.ts:106`; `tests/db/backup.test.ts:53` and
  `:100` import one of another), keeps its ids, and does not stop a running daemon: one that
  held rows across the import then records what it saw under ids that name other entries.
  `IdsKeepTheirMeaning` leaves out exactly this (`crossed`); without that premise `Store`
  shows it. The export selects and the import names columns one by one, so a file without a
  column whose `ALTER` was swallowed may be refused; rows have all their columns in `Backup`.
- Database: a `getDatabase` that throws after `new Database` leaves the handle set, and the
  next call in the same process returns it unfinished (`src/db/database.ts:29`). The daemon
  (`src/commands/daemon.ts:38`) and the `db` commands exit when it throws, which is what the
  processes of `Store` do; the MCP server calls it for each request
  (`src/mcp/index.ts:7`, `src/mcp/tools/get-extension-costs.ts:27`) and lives on: its later calls work on a file
  that may lack migrations and columns, and if the copy of the rebuild threw, on a
  connection whose transaction and write lock stay open and whose foreign keys are off.
  That process is not modelled.
- Client: a fee bump whose inner transaction has a bad sequence number is not recovered
  (`src/rpc/client.ts:921`). `submitRestore` is declared twice; the second is in effect. Reads of
  entries, simulation and sending pass the limiter by.
- Loop: an exception of `VACUUM` other than a busy database ends the process (`VacuumThrows`).
- Without a caller: `processStateDiff` (so `history` reads a table nothing writes), the
  resource alert tables and `AlertDispatcher`, `executeWithRetry`, `calculateWaitMs`,
  `upsertChannelAccount`, `deleteChannelAccount`, `refreshBalances`, `upsertBudget`,
  `deleteContract`; `AWSSecretsResolver` is only exported.

## 6. Not modelled, and the plan

Next, in this order:

1. `DaemonCycle`: loop, alerts and extension composed, so that overlap is caused by
   the loop's own actions.
2. Two contracts in `Operator`, so that commands compete with the attempts of several
   policies.

Left out. Formatting of messages and tables, parsing of arguments, completion, logging,
configuration: no state. `inspect`, `core/check.ts` and the decoder: they read the chain,
keep nothing and render. State diffs, AWS secrets, resource alerts, balances of channel
accounts: nothing calls them, so any behaviour given to them would be invented. The introspection
stub returns zeros. The protocols of Vault, of the chat services and of MCP belong to others;
a secret resolves or does not, a send arrives or does not.
