# Verification of bithumb-coin-trader

TLA+ models of the parts of this repository where a mistake costs money or
data, the TLC runs that check them on small instances, and TLAPS proofs that
carry the most important results to every value of the constants. Paths below
are relative to the repository; modules named without a directory are under
`src/bithumb_coin_trader/`.

Everything here was translated from the code. The documents in `docs/` and the
tests were used to find out what the code is supposed to do, never as a source
of a definition.

- [1 The system](#1-the-system)
- [2 The models](#2-the-models)
- [3 What the runs check](#3-what-the-runs-check)
- [4 What is proved](#4-what-is-proved)
- [5 Where code and documents disagree](#5-where-code-and-documents-disagree)
- [6 What is not modelled](#6-what-is-not-modelled)
- [7 How it was built and where it could go](#7-how-it-was-built-and-where-it-could-go)
- [8 Running it](#8-running-it)

## 1 The system

The repository is a spot-trading bot for the Bithumb exchange and the research
machinery around it. Four groups of components keep state that has to survive
concurrency and failure; the rest are computations.

### 1.1 Live trading

| component | state | operations | talks to |
|---|---|---|---|
| order executor (`execution.py`, `state.py`) | `state/live.json`: position, pending order, ambiguity flag | `plan_execution`, `execute`, `reconcile_active_order`, `reconcile_until_terminal` | exchange through the MCP process, fill ledger, state file |
| fill ledger (`fill_ledger.py`) | `state/fill_ledger.jsonl`, append only | `append_order`, `positions`, realised gains by replay | executor writes, daemon reads |
| trading daemon (`scripts/autonomous_trader.py`, `risk.py`) | `state/portfolio.json` and its copy in memory, market rest, recent exits, daemon lock | boot, `recover_pending_order`, `repair_portfolio_invariant`, `reconcile_with_exchange`, position check, `execute_buy`, `execute_sell`, `execute_sell_partial`, accounting | executor, ledger, exchange balances, websocket thread (a reconciliation hint) |
| MCP transport, market scan, AI brain, notifications | none of the account | choose a market, send a call, print | daemon |

The hard part is that *four* descriptions of one position exist - the
exchange's balance, the state file, the fill ledger and the portfolio - and
they are updated one after the other, by a process that may be killed by
`launchd` or fail in the middle, around calls whose answer may be lost while
the order goes through. What makes it correct:

- never two live orders, never one nobody remembers (`NoOrphanOrder`);
- state file, ledger and exchange agree whenever nothing is pending
  (`PositionMatchesExchange`, `LedgerMatchesExchange`);
- a pending order is forgotten only when its trades are booked
  (`ClearedOnlyWhenSettled`);
- every position is watched for its exit (`ManagesWhatItHolds`,
  `PositionIsWatched`), every finished trade counts once
  (`EveryTradeIsScored`), the limits that depend on it hold
  (`LossRestsFirst`, `LockIsEarned`), and the daemon never writes into the
  state file anything the executor would not (`UsesExecutor`).

### 1.2 Market-data collection

| component | state | operations |
|---|---|---|
| collector (`cross_market_collector.py`, `bithumb_websocket.py`) | bounded write queue, current hour, fatal-error flag | websocket producers, one writer with a fence at the hour boundary, shutdown drain |
| raw storage (`microstructure_storage.py`) | one JSONL file and one manifest per feed and hour | append, quarantine, manifest |
| coverage and session evidence (`feed_hour_coverage.py`, `session_evidence.py`) | per-hour counts, frozen hours, journal files | record, freeze at a boundary, freeze at shutdown |
| incremental finalizer (`incremental_finalizer.py`) | `entries/`, `pending.json`, `summary.json`, `transaction.json` | register, mark reused / recomputed / failed, reconcile, finalize the pending tail |
| supervisor (`bounded_supervisor.py`) | child processes, a monotonic deadline, the result file | start, watch, signal, kill, judge |

What makes it correct: an event that entered the queue is counted, still
queued or counted as lost (`NothingAcceptedIsLost`); an hour is closed once and
nothing is added to it afterwards (`ImplementsHourLog`); no hour with data goes
without its journal (`ActiveHoursAreJournalled`); a run that says PASS is whole
(`PassMeansWhole`); a shutdown ends (`StopEndsOrHangs`); the progress files
recover from a crash at any write (`IndexSurvives`, `ImplementsLedger`).

### 1.3 Archive

| component | state | operations |
|---|---|---|
| archive pipeline (`pre_soak_archive.py`, `scripts/manage_pre_soak_archive.py`) | receipt, compressed file, remote object per partition, partition lock | finalize, verify, restore, cleanup |
| closed-hour finalizer (`closed_hour_finalizer.py`) | coverage file and object per slot | archive raw, mark, save, archive and verify the coverage of every feed of an hour |
| scheduler, orchestrator (`archive_scheduler.py`, `archive_cohort.py`, `scripts/orchestrate_closed_hour_archive.py`) | cohort reports, full-scan reports, two flocks | choose the oldest closed hour, finalize it, launch a detached scan |

The interaction is through files: the collector freezes an hour and journals
it, the scheduler finds it by the journal, the pipeline reads raw files and
manifests and deletes the former, the store remembers what was marked. What
makes it correct: raw data is deleted only when it can be had back
(`RestorableWhenGone`); a receipt never claims more than is true
(`StagesAreTrue`, `EligibleIsRestorable`, `CleanedIsKept`); an hour's PASS is
earned, and nothing but a run that met a failed slot takes it back
(`PassIsEarned`, `CompletedStays`); every sound hour is completed in the end,
unless an attempt at its coverage was cut short (`HourCompletes`).

### 1.4 Paper trading and research

`paper.py` keeps a state file and an append-only audit with a pending record
that announces both; no crash may take a decision back or repeat it
(`VerifiesWhenSettled`, `BookGrows`, `EveryDayIsDecided`).
`experiment_runner.py` keeps a hash-chained ledger of trials, reservations that
count against budgets, intents, and the state of a research cycle; a script may
die anywhere, a budget may not be exceeded, and the holdout is handed out once
(`RecoveryAccepts`, `ReadyIsSettled`, `ImplementsTrialBook`, `ResultsAreKept`,
`HoldoutReadOnce`). The simulators, strategies and statistics are
single-threaded numerical computations over recorded data.

## 2 The models

| module | models | extends |
|---|---|---|
| `OrderExecutor` | `execution.py`, `state.py`, the ledger's append, the daemon lock, the exchange | |
| `OrderLifecycle` | abstract: what the order path promises the account | |
| `OrderExecutorInv` | inductive invariant and refinement mapping to `OrderLifecycle` | `OrderExecutor` |
| `OrderExecutorProofs` | theorems | `OrderExecutorInv` |
| `TraderDaemon` | `scripts/autonomous_trader.py` | `OrderExecutor` |
| `TraderDaemonProofs` | theorems: the daemon is an executor; what it manages | `TraderDaemon`, `OrderExecutorProofs` |
| `ArchivePipeline` | `pre_soak_archive.py` | |
| `ArchivePipelineProofs` | theorems | `ArchivePipeline` |
| `FinalizationStore` | `incremental_finalizer.py` | |
| `ProgressLedger` | abstract: indivisible transitions of partitions with their counters | |
| `FinalizationStoreProofs` | theorems | `FinalizationStore` |
| `ClosedHours` | `closed_hour_finalizer.py`, `archive_scheduler.py`, the orchestrator and its full scan | |
| `ClosedHoursProofs` | theorems | `ClosedHours` |
| `CollectorWriter` | `cross_market_collector.py`, the freezing of `feed_hour_coverage.py`, the end of a run in `bounded_supervisor.py` | |
| `HourLog` | abstract: an hour is open, then closed with its counts | |
| `CollectorWriterProofs` | theorems | `CollectorWriter` |
| `PaperLedger` | `paper.py`, the `paper-run` command of `cli.py` | |
| `PaperLedgerProofs` | theorems | `PaperLedger` |
| `ExperimentLedger` | `experiment_runner.py` | |
| `TrialBook` | abstract: the runner's calls as single steps | |
| `ExperimentLedgerProofs` | theorems | `ExperimentLedger` |
| `MC...` | model values and symmetry for TLC, one for each checked module | |

### 2.1 OrderExecutor

One step per persisted write and per call to the exchange, so that a crash or
the exchange can come between any two.

| variable | in the code |
|---|---|
| `bot` | the state file `live.json` (`BotState`); `vol = 0` is `position == "flat"`, `want` is `pending_order_volume`, `untracked` the ambiguity flag, `policy` `position_policy_version` |
| `booked`, `ledgerVol` | the fill ledger: how many trades of each order it holds, the position per market on replay |
| `legacy` | history: the position was there before the ledger existed |
| `orders`, `holding` | the exchange: every order ever sent, the asset balances |
| `lock` | the `flock` on `state/autonomous_trader.lock` |
| `pc`, `snap`, `plan`, `seen` | per process: control point, the state it read, the plan, the terminal report |

`execute` is `PlanExecution` - `Validate` - `CheckOrderChance` -
`PersistActive` (the write-ahead) - `PlaceOrder` - `Accepted` or
`AnswerFails`, `MarkUntracked`. `reconcile_active_order` is `ReadTerminal` -
`AppendFills` - `SaveTerminal`, with `ReconcileRaises` and `AppendRaises` for
its refusals. `Resume` is the caller's handler. Requests arrive late or never
(`Arrive`, `Lose`), orders fill trade by trade (`Fill`) and end `done` or
cancelled with part of their volume.

Abstractions: a volume is a number of units and one unit one trade, since the
ledger's duplicate test is by trade id; prices, fees and the gates of the risk
limits appear only as refusals (`Refuse`), which is sound for safety because a
refusal changes nothing. A client order id is fresh by `uuid4`. A torn last
line of the ledger is a refusal to read it.

### 2.2 TraderDaemon

Adds to the executor the portfolio in memory (`port`) and on disk (`disk`), the
control point of `main` (`at`, `back`: which block called the repair),
`healthy`, the websocket thread's `hint`, the two cooldown files (`rest`,
`exits`) and the ledger's realised gains (`gains`). `opened`, `tally`,
`unrested`, `entered`, `earned` are history variables the properties need and
no action reads.

The loop's blocks in order: `Roll` (new day), `Pending`, `Recover` and its
outcomes, `RepairLong` / `RepairFlat`, `ReconcileAccount`, `TakeHint`,
`Milestone`, `Watch` (the position check), the exits (`BeginSell`,
`BeginHalfSell` and what follows), the entry (`BeginBuy`, `FinishBuy`),
`Periodic`. An exception goes to the block of `main` that catches it (`Raise`).
`Die` kills the process at any point; `Boot` reads the files again.

Abstractions: prices are what the loop decides from - the peak is `zero`,
`near` the entry or `above` it by 1 %, a sale wins or loses (`Lot + 1` or
-1 a unit, so that no total of a position cancels out). Which exit rule fires is a free choice. Reads whose
failure matters are `ReadFault`s, bounded by `MaxReadFaults`. A few writes that
no other actor can see between are one step: `CoolDown` (two cooldown files)
and `SaveSold` (portfolio and exit record).

### 2.3 ArchivePipeline

One partition and several workers. A content stands for a file with its hash,
size and record count; a compressed file or remote object is named by what it
decompresses to. `finalize_artifact` is `VerifySource`, `Compress`,
`VerifyCompressed`, `AssertUnchanged`, `Upload`, `Archive`, `VerifyRemote`,
`VerifyRestore`, `Eligible`, `Settle`, each ending at the file it has just
written; `_cleanup_artifact` is `OpenGates`, `Unlink`, `RecordCleaned`. Any
check that fails goes to `Raise`, which writes the FAILED receipt when
`finalize` surrounds it. `Fault` is a call that fails for its own reasons,
`Crash` the death of a process. The environment changes the raw file
(`Rewrite`), writes its manifest (`WriteManifest`) and uploads something else
under the same key (`RaceWinner`).

Left out: the refusals for files that are still young or active (they leave no
trace), the adapter for version-2 receipts, and `scan`, which only lists.

### 2.4 FinalizationStore

The progress store of the collector's finalizer, used by two processes: a
`Collector` (register, finalize the pending ones, mark complete) and an
`Archiver` (`ClosedHourFinalizer`, which marks REUSED). The variables are the
files - `entry` (`entries/<id>.json`), `pending`, `summary`, `tx`
(`transaction.json`) - and, per process, the call it is in and what of it is
left. Every call takes the lock, recovers (`ReplayPending`, `ReplaySummary`,
`ReplayUnlink`, or `InitSummary`, `InitPending` on fresh files), does its
transition (`WriteIntent`, `WriteEntry`, `WritePending`, `WriteSummary`,
`UnlinkIntent`) and returns; each replaced file is one step, and a crash or a
raising write may come between any two, also inside a recovery. `finalize_pending`
marks an entry FAILED when it, or the mark, raised; what this mark raises ends
the loop (`MarkNext`, `Rescue`). An entry's hash
is the generation that wrote it, which the time stamp in its contents justifies.
`ProgressLedger` is what it promises: partitions that move from one state to
another in one step, with counters that are always theirs; the mapping reads
the files as the next recovery would.

### 2.5 CollectorWriter

A step is what the event loop runs between two awaits: that is where another
task can come in. A producer receives an event (`Receive`) and waits with it
when the queue is full (`Put`); the writer takes one (`WriteItem`), crosses the
hour fence when the clock has (`Fence`, freezing the hour before), registers,
appends and counts; any of its four file operations may fail, which sets the
fatal flag and discards or leaves the queue (`WriteFails`). `main` is
`run_collector` then `_run`: `TimeIsUp` or an interrupt, `Drain`, `Joined` or
`Discard`, `CloseTail` and the shutdown freezes, `Flush`. `Judge` is the
supervisor's verdict. The clock goes by half hours and may be set back
(`SetBack`). `HourLog` is the abstract log: an hour is counted into while open
and closed once with exactly those counts.

### 2.6 ClosedHours

What happens to an hour after it is frozen. The scheduler picks the oldest hour
that is not completed (`Discover`), an operator may run the orchestrator by
hand at any time (`RunByHand`); whoever gets the flock (`Probe`, `Claim`) goes
through the slots - hour and feed - one after the other: gate, raw archive,
mark, coverage file, its compressed file, its object, its verified receipt
(`BeginSlot`, `ArchiveRaw`, `MarkReused`, `SaveCoverage`, `PackCoverage`,
`UploadCoverage`, `VerifyCoverage`), writes the report and launches a detached
scan with its own flock (`LaunchScan`, `SupervisorLocks`, `ScannerReports`,
`ScanTimesOut`, `SupervisorEnds`). A supervisor that is killed leaves its
scanner running (`orphan`). `Seen` is what an hour may show: a gap, no events,
some. The archive of one raw partition is one step here with the outcomes
`ArchivePipeline` allows; the mark is `FinalizationStore`'s.

What a run that comes to a slot again can do to it:

- `ArchiveRaw` may fail over an archived partition as over a new one (its lock
  is held, its receipt or manifest cannot be read), and FAILED coverage then
  replaces the good file; the report follows when the run gets to its end.
- `PackCoverage` returns a verified receipt as it is. A compressed file without
  one (`packed`) is another attempt's: the coverage saved since has its own
  `closed_at_utc`, and the comparison of the two raises at every retry. Two
  attempts at a slot are taken to be a second or more apart, which is what the
  stamp resolves. A run that raises leaves what a run that dies at the same
  point leaves.
- `ScanTimesOut` writes its FAIL whether the scanner has just written its own
  report or not.

Left out: an operator who deletes a raw file of an archived slot
(`manage_pre_soak_archive.py`, cleanup), after which the gate of a rerun finds
it missing and fails. A PASS may stand over a FAILED coverage file when a rerun
ends between the two; so `PassIsEarned` asks for the coverage files when the
PASS is written, and for the receipts, archives and marks as long as it stands.

### 2.7 PaperLedger

`today` is the newest day whose decision can be executed; `state`, `audit`,
`tail` (what follows the last newline) and `pending` are the files. A run
(`Start`) recovers (`RepairTail`, `ReplayState`, `AppendAudit`,
`ReplayUnlink`), then takes the missing days one by one: `Decide` announces,
`SaveState`, `AppendAudit`, `Unlink`. `Fail` is a run that dies or raises
anywhere, `Tear` one that dies inside an append.

Amounts are `Decimal`s of 28 significant digits. The model keeps fewer digits
but the same effect, since the order of two operations is visible in the last
one: amounts are counted in the last place of a small amount, one of `Precision`
or more keeps one place less, and every sum, product and quotient is rounded
half to even to what its result keeps (`Quotient`, `Plus`, `Minus`). `BuyTerms`
and `Sold` take the operations in the order `process` does. Two things are
coarser: a quantity is not rounded by itself but kept as the amount and the
price it was bought at, and the rates are unit fractions.

`Verifies` is what `audit_evidence` asks of a record by computations of its own:
the action, fee, gain, notional, cost and realised sum, what a hold may not
change, the day. What it asks of the cash is `CashAdds`, with the audit's order
of additions and the reserve a buy leaves. The mark prices and the equity it
adds up are not modelled.

### 2.8 ExperimentLedger

The four files of a cycle (`ledger`, `reserved`, `intents`, `cycle`), the flock,
and per script the control point, what it remembers (`entries`, `known`) and
the trial it is at. The constructor is `LoadLedger`, `LoadReservations`, the
first creation of each file, and the recovery of the intents (`Recover`,
`SaveReconciled`, `AbortLost`, `SaveAborted`, `ClearIntent`), all of it without
the flock except the abort; the calls are `ReserveTrial`, `UpdateTrialStatus`,
`Advance`, `ConsumeHoldout` with `HandOut`, and `record_trial` as `WriteIntent`,
`CommitResult`, `CompleteReservation`, `TidyIntent`. `Fault` is a write that
raises, `Crash` the death of a script at any step. `TrialBook` is the book the
files stand for, in which each call is one step.

The code does not keep a constructor from running beside another script's
calls, and the tests construct runners concurrently. So `QuietStart` (a runner
is constructed while no other works) is a constant, not part of the model: with
`FALSE` every interleaving of constructors and calls is there. The run `trials`
has it `TRUE`, which `RecoveryAccepts`, `ReadyIsSettled` and
`ImplementsTrialBook` need. The promises the code keeps however runners are
constructed (`ResultsAreKept`, `HoldoutReadOnce`, the types) are proved without
it; what it breaks then is in section 5.

### 2.9 How the models fit together

`TraderDaemon` extends `OrderExecutor`: the daemon's blocks call the executor's
actions, with the same state file, ledger and exchange. The archive side is
composed by contract, since the product would be out of reach: `CollectorWriter`
delivers journals (`ImplementsHourLog`, `ActiveHoursAreJournalled`), which are
the environment action `Freeze` of `ClosedHours`; its registering and marking
are calls of `FinalizationStore`, whose promise is `ProgressLedger`; and the
archive of an object in `ClosedHours` ends with a verified receipt or raises,
which is what `ArchivePipeline` shows of `finalize_artifact`.

## 3 What the runs check

Bounds are constants of the model and named in its `.cfg`; none is hidden in a
definition.

| run | constants | question | answer | distinct states |
|---|---|---|---|---|
| `executor_safety` | 2 processes, 2 markets, 3 orders, lots of 2 units | Does any order of crashes, restarts, lost answers, late arrivals and partial fills lose an order or part the descriptions of the position? | No, and every step implements `OrderLifecycle` | 57 458 |
| `daemon_crash` | 1 process, 2 markets, 2 orders, lots of 2, 1 crash | Is what recovery, repair and reconciliation rebuild the position really held, every trade scored once, every step one the executor allows? | Yes | 721 644 |
| `daemon_live` | 1 market, 1 order, 1 crash, 1 failed read, a manual sale, fairness | Is every finished order taken over, every position watched again? | Yes, with the exemptions named below | 87 532 |
| `archive` | 2 workers, 2 contents, all commands, one rewrite, fault, crash and foreign upload | Is raw data ever gone that cannot be restored; does a receipt ever say too much? | No | 82 198 |
| `store` | 2 partitions, collector and archiver, 1 crash, 1 fault, generations below 4 | Does the index survive everything; is COMPLETE earned? | Yes, and the files implement `ProgressLedger` | 219 554 |
| `collector` | 2 producers, queue of 2, hours to 3, 4 events, 1 failing write, 1 clock set back, 1 signal, fairness | Is any accepted event lost uncounted, any hour closed twice or left unjournalled, any PASS unearned? Does a stop end? | No; it ends unless its join hangs | 693 467 |
| `collector_join` | 2 events, 1 fault, fairness | Does every shutdown drain? | No: violation | |
| `hours` | 2 hours, the second partial, 2 feeds, scheduler and operator, 1 fault, 1 crash, fairness | Is a PASS earned, what takes it back, is every sound hour completed? | Yes; a run that met a failed slot; yes, unless an attempt at its coverage was cut short | 336 116 |
| `hours_blocked` | first hour partial, no fault, fairness | Is every frozen hour tried? | No: violation | |
| `paper` | 5 days, prices 1 and 4, 2 failures, fairness | Is a decision ever lost, repeated, changed or skipped, does every record but for its cash sums pass the audit? | No; yes | 151 282 |
| `paper_audit` | 3 days, prices 6 and 7, no failure | Does the audit accept what clean runs wrote? | No: violation | |
| `trials` | 2 scripts, one constructed at a time, 3 trials of 2 families, budgets 1 and 2, 1 fault, 2 crashes | Does the recovery account for every death of a script; is a budget exceeded, a result lost, the holdout read twice? | Yes; no | 517 736 |

Between them the passing runs take every action of the eight models. Each
finishes in about three minutes or less.

Why the bounds are enough to meet the interesting cases. *Executor*: two
processes are enough for one to read what another left and for a second to be
refused by the lock; three ids are an entry, its exit and a following entry or
a second partial exit; two units are the smallest volume with a partial fill, a
remainder and a partial exit; two markets are the smallest number where a fill
can be booked in the wrong one. Crashes are not bounded there at all. *Daemon*:
two ids are a buy with its sale, or the two sales of a held position; one crash
at any step followed by a complete recovery is every single-failure scenario.
The liveness run keeps one market and one unit and has the failed read and the
manual sale instead. *Archive*: two contents are the file and the changed file;
two workers meet at the lock. *Store*: two partitions are the one in transition
and one that must not move; four generations allow a registration, two marks
and a completion. *Collector*: the hang of the join needs one event in the
writer's hands and one behind it; four events with a clock that goes back are
what it takes to write into a frozen hour; hour 0 is the hour before the start.
*Hours*: an hour with data and a partial one behind it, which is what the last
hour of a run is; two feeds so that one can fail after the other is done; an
operator and a scheduler for the flock, and for a run over a completed hour; one
fault is one failed call in any of the steps. *Paper*:
five days are a first decision, an entry, an exit and a catch-up of two; at
price 4 after 1 the sale gains, before it loses; the cash covers one order above
the reserve and then one below the maximum; `Precision` lies between the cash
and the order, so that amounts of both sizes are added. *Trials*: two trials of one family
under a family budget of 1, three under a cycle budget of 2.

Every configuration checks deadlock except where the system really stops:
`collector` and `collector_join` (the run ends), the runs of `ClosedHours` (every
hour is completed and nobody has anything left to do) and `paper_audit` (its
last day is decided).

Fairness and why the code has it.

- *Daemon*: `com.bithumb.coin.trader.plist` (lines 13-20) tells `launchd` to
  keep it alive: weak fairness of `Boot`. `main` never leaves its loop, each
  block catches its exceptions: weak fairness of the loop's steps. Strong
  fairness only on what the loop tries again in every round and whose failure
  the model leaves to chance: reading the terminal report, appending to the
  ledger, reading the price. The exchange ends every order it accepted and
  loses or delivers every request. A crash is never fair, and reads may fail
  only `MaxReadFaults` times.
- *Collector*: the event loop runs every task that can go on (weak fairness of
  the writer and of `main`), the supervisor polls (weak fairness of `Judge`).
  Nothing is assumed of producers, clock or signals.
- *Hours*: the scheduler polls for ever, every process that runs goes on: weak
  fairness. The scan supervisor's flock is strongly fair: a probe holds it for
  microseconds, and a supervisor that is refused is started again at the next
  poll. Runs by hand, crashes and faults are not fair.
- *Paper*: `cron` starts the command every hour and a run goes on until it ends:
  weak fairness of `Start` and of a run's steps.

Every property of a passing run has a mutant: a definition changed the way a
plausible bug would change it (`PersistNothing`: no write-ahead; `AllTrades`:
a booked trade is booked again; `CompletesFirst`: the reservation is completed
before the ledger is written; `MayReadFromNowOn`: the holdout stays readable;
and so on). They stand next to the definition they replace, marked `Mutant`,
and TLC finds the property violated with each.

What the liveness properties exempt, because the code gives no such promise:
`PositionIsWatched` a bought position whose balance read failed (no portfolio
tracks it until the 600-round reconciliation) and a holding its owner sold by
hand (the repair then refuses for ever); `HourCompletes` an hour with a gap, an
hour behind one, and an hour with a compressed coverage file whose attempt ended
before its receipt was verified (`Wedged`, which is for ever, section 5); `StopEndsOrHangs` the join that hangs, which
`collector_join` shows to happen.

## 4 What is proved

TLAPS proves, for every number of processes, markets, orders, units, workers,
contents, partitions, producers, events, hours, feeds, days, scripts, trials,
crashes and faults, and every queue size and price:

| theorem | property | condition |
|---|---|---|
| `TypeCorrect`, `DaemonIsSingle`, `NoOrderIsOrphaned`, `PositionIsTrue`, `LedgerIsTrue`, `ClearingIsSettled` | the safety properties of `OrderExecutor` | |
| `ExecutorImplementsLifecycle` | `Spec => Lifecycle!LSpec` | |
| `DaemonUsesExecutor`, `DaemonImplementsExecutor`, `DaemonAccountIsTrue` | the daemon is an executor, so it has the executor's properties | no manual sale |
| `DaemonManagesWhatItHolds`, `BreakEvenIsEarned`, `LossesRestFirst`, `TradesAreScored` | `ManagesWhatItHolds`, `LockIsEarned`, `LossRestsFirst`, `EveryTradeIsScored` | no manual sale, no failed read |
| `DaemonTypeCorrect` | `DaemonTypeOK` | no manual sale, finitely many order ids; reads may fail |
| `NoTradeIsScoredTwice` | the last part of `EveryTradeIsScored`, in memory and on disk | the same |
| `DeletionIsSafe`, `EligibilityIsTrue`, `ReceiptIsTrue`, `ArchiveTypeCorrect` | the safety properties of `ArchivePipeline` | a manifest is written once (`~Remanifest`; not for the types) |
| `CleanedStays` | `CleanedIsKept` | |
| `IndexAlwaysSurvives`, `CorruptAtBirth`, `CompleteEarned`, `StoreImplementsLedger`, `StoreTypeCorrect` | everything checked of `FinalizationStore` | |
| `AcceptedIsConserved`, `HoursAreJournalled`, `PassIsWhole`, `CollectorTypeCorrect` | the safety properties of `CollectorWriter` | |
| `CollectorImplementsHourLog` | `ImplementsHourLog` | |
| `PassEarned`, `CompletedUnlessFailed`, `HoursTypeCorrect` | `PassIsEarned`, `CompletedStays` and the types of `ClosedHours` | |
| `AuditVerifies`, `BookOnlyGrows`, `PaperTypeCorrect` | the safety properties of `PaperLedger` | |
| `HoldoutIsReadOnce`, `ResultsAreNeverLost`, `TrialTypeCorrect` | `HoldoutReadOnce`, `ResultsAreKept` and the types of `ExperimentLedger` | |

The runs of the executor, the archive, the store, the hours and the paper ledger
do not repeat the types proved here. Assumptions on the
constants are named (`ConstantsAssumption`, `ArchiveAssumption`,
`StoreAssumption`, `NoneAssumption`, `CollectorAssumption`, `HoursAssumption`,
`PaperAssumption`, `TrialAssumption`, `NothingAssumption`); TLC evaluates them in every run.

**The executor's invariant.** None of the properties is inductive: that
`SaveTerminal` keeps the position equal to the exchange's needs that what the
process saw of the order is still what the exchange says, that the trades were
booked in between, and that nobody else wrote the state file. `IInv` says it
point by point (`PointHolds`): a process past planning has read the state that
is still on disk and its id is unused; armed, sent or ambiguous, the state file
is exactly the write-ahead; with a terminal report in hand, the order is over
and the report is what the exchange knows. `SingleDaemon` makes these facts
stable, since only the owner of the lock is at such a point. `OrdersAreKnown`
ties an order at the exchange to the state that named it, and `LedgerLag` gives
the ledger's distance from the exchange: the unbooked trades of the pending
order and nothing else. The proof has a lemma per action and, below it, a step
per conjunct of `IInv` the action can disturb. The refinement proof uses the
same invariant: `PersistActive` is `Issue`, `Fill` is `Trade`, `SaveTerminal`
is `Settle`, everything else stutters.

**From the executor to the daemon.** `TraderDaemonProofs` shows that each block
of the loop leaves the executor's variables alone or takes one of its actions.
Two blocks write the state file by themselves: the repair of a long position
(`RepairLong`) and the reconciliation. Both are shown to write what is already
there: the first because by `IInv` the ledger replays to the position the state
file has, the second because without a manual sale the balance cannot differ.
So `DaemonSpec => Spec`, and every theorem of the executor holds of the daemon.
`DaemonInv` adds what the daemon knows of the position: the portfolio in memory tracks the market the state file is long
in whenever the loop is past its checks (`Tracks`, `LoopHolds`), a portfolio
that tracks nothing goes with a flat state (`FlatIsUntracked`), and at each
point of a buy, a sale or a recovery the part that is already written
(`AtWork`). On top of it `LocksAreEarned` says of the portfolio, in memory and
on disk, that one which tracks nothing keeps neither peak nor lock, and that a
lock or a peak 1 % above the entry was earned by the tracked position
(`Earns`). It is inductive because a buy is settled only while nothing is
tracked, which is what a manual sale or a failed read takes away (section 5).

`ScoreInv` is about the money. Nothing in the files says whether a closed trade
has been scored: the daemon finds out by comparing the total it accounted with
the ledger's. So the invariant compares, for the portfolio in memory and for the
one on disk, what they accounted with the ledger's gains and with the tally of
the trades that really closed. `Totalled`: what is not accounted was brought by
units of the tracked position sold since, and once all are sold there is
something, because one profit outweighs all the losses of a position
(`ResultsAreSomething`) - which is what makes the comparison a sound test.
`Scored`: the score is the tally but for a sold-out trade that is still due.
`Closed`: between the accounting and the clearing of the portfolio the totals
are equal, so a repetition adds nothing. `Marked`: a position without entry
stamp, or older than the ledger, is never mistaken for one that has it. A loss
that no rest followed yet is due in both portfolios (`LossIsDue`), so whoever
comes after a crash accounts it again and sets the rest, and since both still
track the position nothing is bought before. The actions that replace a
portfolio (`Accounted`, `Cleared`, `Entered`, `Repaired`) have one lemma each on
what the invariant looks at, and the actions that move it (`BookedSale`,
`EnteredInStep`, `ClearedInStep`...) one on what follows.

`CountInv` bounds what the daemon counts by the orders that are over, which is
what `DaemonTypeOK` says and is not inductive by itself: that a counter is at
most the number of orders does not keep the next step from adding one. It needs
neither `DaemonInv` nor `ScoreInv`, which a failed read breaks, so it holds with
failed reads too: what is left of the control flow is `CallsHold`, that inside a
call a position is sold or none is held, and that an order is settled only
there. Entries are at most the buys that are over (`Buys`), and while a settled
buy is in hand strictly fewer, in memory and on disk (`HandCounted`), because no
portfolio has counted that one: so whichever comes first, the loop or a recovery
after a crash, adds it once. Closed trades are at most the orders with trades in
the ledger (`Booked`), and each of these moved the gains by at most what one
order can bring (`Amounts`). One trade is scored without the ledger, that of a
position older than it: it is sold once (`ImportedOnce`), by an order the ledger
does not have, so wins and losses together still are at most the orders.

That nothing is scored twice is `ScoredOnce`. A failed read may leave a sold
position unaccounted, and a crash takes the portfolio back to what was saved, so
a portfolio's score is not a function of the trades closed. But a trade is
scored only for a market that is sold out and whose gains the portfolio has not
taken over (`Unscored`), and taking them over removes the market from that set:
the score plus the number of these markets never exceeds the trades closed. A
portfolio replaced by one made *from* it, or from the saved one, keeps the bound
(`From`, `FromScored`), and a sale that closes a trade adds one to each side
(`BookedScored`).

**The archive's invariant.** `ArchiveInv` says that each receipt, on disk or in
a worker's memory, *vouches* for the files it names - a recorded compressed
hash is the hash of the compressed file, a remote check means the object has
it, and so on - that each worker at a given point has the facts its next step
relies on, and that compressed and remote object, once they are there, no
longer change. The last is why the safety of the deletion does not need the
partition lock at all: the manifest, the compressed file and the object are each written at most
once, with the content the manifest names. It is also where `~Remanifest` is
needed: with a manifest regenerated over a changed file, the receipt of the
first attempt makes the second content eligible although the object holds the
first one (TLC finds it with `Remanifest = TRUE`).

That a cleaned receipt is kept is another matter, and does need the lock.
`CleanedInv` says that who is past the lock owns it (`Orderly`) and that a
receipt is CLEANED only when the raw file is gone: a worker that comes to a
cleaned partition fails at the comparison with the raw file, outside of the
block that would record a failure, so that only the restore command writes.

**The store's invariant.** A transition is recorded before it is made: while
`transaction.json` is there, the entry it names holds what the record says it
held before or what it will hold after, the summary and the pending list are
those of before or after in the order the five writes go, and a stamp never
occurs twice, which is what lets a recovery tell the two apart. What the next
recovery would make of the files is then a function of them
(`EffectiveSummary`, `EffectiveIds`) that only `WriteEntry` and the COMPLETE
write change - one step of `ProgressLedger` each. The counters are shown to be
the cardinalities of the entries in each state with `FiniteSetTheorems`.

**The collector's invariant.** The counts are sums over hours and producers, so
the module first proves what a sum over a finite set does when one summand
grows by one (`SumGrows`). The induction over the subsets it needs is done as
the choice of a smallest counterexample, since the library's theorem takes an
operator. `CollectorInv` then has one conjunct for each thing an await may
leave half done: what was accepted is counted, queued or lost (`Conserved`), a
queue is empty after an orderly end (`Drained`), the writer does not outlive an
error or the shutdown (`WriterIsGone`), the frozen hours are the journalled ones
and those whose journal failed, with the counts frozen in them (`FilesAgree`),
counts and raw files differ only after a fatal error (`LossIsFatal`), and
completeness is declared only at an orderly end (`VerdictIsEarned`). That a
frozen hour is not counted into again, and so that each step is one of
`HourLog`, rests on the tracker's refusal and not on the clock: the proof holds
however often it is set back.

**The paper ledger's invariant.** The arithmetic enters only through what it
must not do: a sum, a product or a quotient of amounts is an amount whatever the
precision, and a sale divides by a price that is not zero, since what is held
was bought (`Sound`). `Book` is what a recovery would make of the
audit. `PaperInv` says that it is a chain - each record the decision that the
state before it and the price allow, one day after the other (`Chained`,
`Rising`) -, that the state file is its end when nothing is pending, and that
an announced decision is its last record, whichever of state, audit and removal
have been done (`AtPoint`). That the days rise is what lets a recovery tell by
comparing records whether the audit has the announced one already. That each
record passes the audit's own computations is then shown record by record
(`AuditVerifies`); its sums of the cash are not part of it, since the audit
refuses some (section 5).

**The hours' invariant.** The flock of the orchestrator keeps runs apart, so
what a run found of a slot stays true until it writes its report: `Tallied` says
that the slots behind it are all `Earned`, or that one of them is `Marked`,
FAILED in its coverage file, when the run is to fail. That is what
`CompletedUnlessFailed` needs of a run over a completed hour. What a PASS may
rest on as long as it stands is only what no run can take back - receipts,
archives and marks, which grow, and a journal, which is written once
(`PassVouched`) - and not the coverage file, which a later run may replace. A
second flock keeps scans apart, except for an orphan, which is why
`CompletedStays` speaks of hours whose scans are over.

**The runner's invariant.** `ResultsAreNeverLost` holds however runners are
constructed: `record_trial` reads the ledger again under the flock before it
writes, so whoever is about to write the ledger has it as it is in memory and
holds the flock, and no other write touches it - but for a constructor that
found none and creates it, which the property therefore waits for. The holdout
needs even less: only the one who found the cycle authorised and made it
consumed, under the flock, gets to hand it out.

The module also proves `RecoveryAccepts`, `ReadyIsSettled` and
`ImplementsTrialBook` under the assumption `Orderly`: a runner is constructed
only while no other works, scripts have trials of their own, and the writes of a
reservation and of a record do not raise, though a script may die at any of
them. These are theorems about callers that keep to that, and the code makes
nobody keep to it; they are not results about every use, and `PROJECT.json` does
not list them. In such a use whoever acts acts alone (`Alone`), its memory is
what the files say (`MemoryHolds`), each point of the recovery and of
`record_trial` has the facts the next write relies on (`PointHolds`), ledger,
reservations and intents account for each other (`FilesAgree`), and an intent
belongs to a script that is recording it or has to recover before it works again
(`IntentsAreOwned`).

Only model-checked: all liveness properties (fairness and `ENABLED` are beyond
the prover). With failing reads the daemon's types and `NoTradeIsScoredTwice`
are proved; its other invariants are not, nor any with a manual sale: some of
them do not hold then (section 5). Of the runner's recovery and refinement
nothing is proved beyond an orderly use. Otherwise every invariant and every
step property a passing run checks is stated by a theorem.

## 5 Where code and documents disagree

Each is a run that TLC must find violated; the document is quoted in
`PROJECT.json`.

1. `hours_blocked` / `EveryHourIsTried` (`archive_scheduler.py:372`).
   `run_once` always takes the oldest hour that is not completed, and an hour
   that failed never is. The first hour of a run is partial and always fails its
   gate, so it is processed for ever and no later hour ever is.
2. `paper_audit` / `AuditAccepts` (`paper.py:458`). A sale stores
   cash + (gross - fee), lines 641 and 644; the audit computes
   (cash + gross) - fee. At 28 digits the last one can differ: with a buy at
   100 000 000 and a sale at 91 500 000 the code stores ...762 and expects
   ...761, and `verify_audit` raises over files that nothing damaged.
3. `collector_join` / `StopEnds` (`cross_market_collector.py:1084`). The writer
   fails while the shutdown waits in `_write_queue.join()`, with an item behind
   the one that failed. Nobody marks it done, nobody discards it: the join never
   returns, and no hour is closed before the supervisor kills the process.

Seen while modelling, each reproduced with the constants given, and not kept as
a run of its own:

*Trading* (`execution.py`, `scripts/autonomous_trader.py`).

- `PlansAreStorable` is violated with an entry plan that has a position policy
  version (`execution.py:294`): the write-ahead derives a *flat* state that
  carries it, which `BotState` refuses. No policy version above 0 could be
  promoted for entries (`ACTIVE_ENTRY_POLICY_VERSION` is 0 today).
- `LockIsEarned` is violated with `ManualSales = TRUE` (line 1063): the
  long-to-flat branch of the reconciliation forgets `breakeven_locked`, and the
  next position inherits a break-even stop it has not earned.
- `ManagesWhatItHolds` is violated with `MaxReadFaults = 1` (line 1433): a buy
  whose balance read fails is held without a stop until the next periodic
  reconciliation.
- `NoTradeIsForgotten` is violated with `HeldVolumes = {1}`, three ids, one read
  fault and no crash (line 1552): a sale whose balance read fails, followed by a
  buy elsewhere, is never accounted. Before the accounting the loop may also buy
  although the loss should rest the market.
- `DailyCap` is violated with `MaxEntries = 1`, three ids, lots of 1 and a crash
  (line 1159): an entry adopted by the repair is not counted.
- A request lost before it reached the exchange keeps the state pending until an
  operator steps in, as `docs/LIVE_READINESS.md` says it must.

*Archive* (`pre_soak_archive.py`, `closed_hour_finalizer.py`, the orchestrator).

- `BecomesCleaned` is violated with one worker, `Ops = {"finalizeClean"}`, one
  crash and `ArchiveFairSpec` (line 776): a receipt left at RESTORE_VERIFIED is
  not taken further by any finalize. `IsArchived`, for `finalize` alone, holds.
- A crash between `unlink` and the CLEANED receipt leaves the latter unwritten
  for ever (line 695); an exception after `unlink` writes FAILED over an
  eligible receipt; the restore command takes a CLEANED receipt back to
  RESTORE_VERIFIED, which `CleanedIsKept` therefore allows.
- `CoverageIsSealed` is violated with one hour, one feed, `Seen = {"some"}`, one
  fault and `FairHoursSpec` (line 994): an upload of a coverage object fails after
  the object was compressed. The compressed file stays; the retry saves coverage
  with a new `closed_at_utc`, gets the old compressed file back and refuses it,
  now and at every later try. The hour is never completed and, being the oldest,
  holds back all others.
- `CompletedForGood` is violated with the same and one run by hand
  (`closed_hour_finalizer.py:602`): the orchestrator does not ask whether the hour
  is completed; one failing call on an archived partition replaces its
  DATA_PRESENT coverage by FAILED, and the hour's PASS becomes FAIL.
- `PassIsArchived` is violated with the same and no run by hand (line 776): a
  retry of a slot whose FAILED coverage was archived saves DATA_PRESENT, but the
  verified receipt of the first object is returned without a comparison; the hour
  passes and the remote object still says FAILED.
- An hour without any event has no files, so its scan never passes and it is
  never completed; a planned stop exactly at an hour boundary journals the hour
  that has just begun as an empty partial one, with the consequence of item 1.
- A full-scan supervisor that is killed leaves its scanner, and a second scan may
  run beside it (`docs/AWS_72H_SOAK_FAILURE_PLAYBOOK.md`, scenario K, speaks of
  a concurrency of 1). A supervisor that starts during a probe of its flock is
  refused and started again at the next poll.

*Collector* (`cross_market_collector.py`, `feed_hour_coverage.py`).

- With the clock set back over an hour boundary the record is appended to the
  frozen hour's raw file before `WRITER_CLOCK_REGRESSION` is raised, and an hour
  before the start may be frozen as a full one.
- A fence freezes only the hour just before the write: an hour followed by an
  idle one is journalled at shutdown. An hour whose journal cannot be saved
  stays frozen and is never journalled; at shutdown the failure is only logged
  and the run may still pass, so `PassMeansWhole` and
  `ActiveHoursAreJournalled` except such hours (`unsaved`).
- An event held in a blocked `put` at shutdown is dropped and counted nowhere
  (`queue_dropped_events` is never incremented).
- `run_cross_market_collector.py` has no SIGTERM handler, so a SIGTERM ends it
  without the drain that
  `docs/AWS_LONG_RUNNING_COLLECTOR_OPERATOR_RUNBOOK.md:83` describes.

*Progress store* (`incremental_finalizer.py`).

- A first initialisation cut short between its two files (lines 293-299) makes
  the store refuse itself for ever: `CorruptOnlyAtBirth` says that this is the
  only such case.
- A mark that raises after its transition was made is repeated and counted
  again; the archiver marks REUSED again at every retry; the failed counter
  never goes down, so a store with one transient failure can never be COMPLETE;
  and COMPLETE is never taken back by a registration.

*Experiment runner* (`experiment_runner.py`).

- `ReservationsAreDurable` is violated with `QuietStart = FALSE` and nothing
  failing: a script that found no reservations file writes an empty one later,
  without the flock, over another script's reservation, which then no longer
  counts against a budget (`tests/test_experiment_runner.py:403-432` constructs
  five runners at once). A constructor also recovers and saves what it read
  without the flock, so `RecoveryAccepts` does not hold then either, and
  `ReadyIsSettled` and `ImplementsTrialBook` are not claimed: `research_cli verify-ledger` constructs
  a runner and thereby aborts a record in progress.
- With `"complete"` in `FaultyWrites` a retried `record_trial` appends a second
  entry; with `"commit"` followed by a status update to COMPLETED every later
  construction is refused; with `"reserve"` a reservation that was not saved
  stays in memory, is saved by a later call and can exceed a budget.
- `update_trial_status` takes RUNNING to COMPLETED without a result.

*Paper* (`paper.py`, `paper_engine.py`).

- The limit of one entry a day never binds, as no two decisions are executed on
  one day; `paper-run` reads the state before it recovers, which a later run
  makes good.
- `apply_execution_result` applied twice to a filled order books the fills again
  although its module's docstring calls the processing idempotent: the transition
  to FILLED is then a silent no-op whose result is ignored. The engine is not
  modelled.

## 6 What is not modelled

- **`decide_position_exit`**: floating-point price rules; the daemon may exit at
  any time in the model, which covers every rule for the properties stated.
- **An exit that breaks even to the last digit**: `account_ledger_realization`
  takes a total that did not change for one already accounted (line 273) and
  scores no trade; in the model a sold position always gains or loses something.
- **The reconciliation's tolerance and its list of manual holdings**: balances
  within 1 % are equal to the daemon, the model compares them exactly; the list
  of markets whose manual holdings it ignores is empty as shipped.
- **Market scan, AI brain, news, notifications**: no state of the account. The
  model lets any market be chosen.
- **MCP framing**: its outcomes are the environment of the executor.
- **Older trading scripts**: their order path is the executor's.
- **Fill ledger file format**: the torn last line and the field checks are
  refusals to read it. A short write of a line is such a torn line; in the model
  an append that raises has written nothing, and what a torn line does to the
  next reader is the refusal.
- **Collector**: websocket sessions, subscriptions and parsing, session
  segments, qualification and hashes, the metrics file, and the restart of a
  collector over the same storage; a failing append is taken to leave nothing
  behind; `wait_for(get)` and the processing of the item are one step.
- **Raw storage and manifests**: a manifest is given in `ArchivePipeline`;
  quarantine is left out.
- **Supervisor**: the publisher and the scheduler process are an arbitrary
  failure of the run; grace periods, schedule and metrics checks are left out.
- **Orchestrator**: discovery by raw files when there is no journal, dry runs,
  backlog metrics, the direct scan mode. Two slow supervisors or two orphaned
  scanners of an hour are one in the model, and data that really fails the scan
  is not in it.
- **Archive pipeline**: the refusals for files that are still young or active
  (they leave no trace), the adapter for version-2 receipts, `scan`.
- **Paper**: the fill engine, other commands, candle download.
- **Experiment governance**: `trial_ledger`, `scan_ledger`,
  `pit_universe_ledger`, `prospective_dataset` - registers of one process - and
  the statistics.
- **Execution simulators, strategies, validation and audit scripts, statistics,
  dashboard, Terraform, recorded evidence**: by far the most lines of the
  repository. They are single-threaded numerical computations over recorded
  data, or report on it: no state that outlives a call, no concurrency, nothing
  a small integer instance would say anything about. For this reason the
  modelled share of all implementation lines is small (about a tenth) although
  most of the code that keeps durable or shared state is in it.

## 7 How it was built and where it could go

In this order: `OrderExecutor` with its abstract life, invariant and proofs;
`TraderDaemon`; `ArchivePipeline` with its proofs; then `FinalizationStore`,
`PaperLedger`, `ClosedHours`, `CollectorWriter` and `ExperimentLedger`, each
with its abstract specification where there is one, and the proofs of the store,
the hours, the daemon, the runner, the paper ledger and the collector.

What would add most next:

1. `CollectorWriter`: a restart over the same storage.
2. The repairs of section 5 as variants of the models, with the violated
   properties as their checks - the scheduler that skips a failed hour first.
3. `decide_position_exit` as an operator over integer prices, from which the
   daemon's exits are drawn.

## 8 Running it

    tlc -workers 2 -config MCOrderExecutor.cfg MCOrderExecutor
    tlc -workers 2 -config MCDaemonCrash.cfg   MCTraderDaemon
    tlc -workers 2 -config MCDaemonLive.cfg    MCTraderDaemon
    tlc -workers 2 -config MCArchive.cfg       MCArchivePipeline
    tlc -workers 2 -config MCStore.cfg         MCFinalizationStore
    tlc -workers 2 -config MCCollector.cfg     MCCollectorWriter
    tlc -workers 2 -config MCCollectorJoin.cfg MCCollectorWriter
    tlc -workers 2 -config MCHours.cfg         MCClosedHours
    tlc -workers 2 -config MCHoursBlocked.cfg  MCClosedHours
    tlc -workers 2 -config MCPaper.cfg         MCPaperLedger
    tlc -workers 2 -config MCPaperAudit.cfg    MCPaperLedger
    tlc -workers 2 -config MCTrials.cfg        MCExperimentLedger

    for m in *Proofs.tla; do tlapm $m; done

`PROJECT.json` lists every run with its properties, the mutants, the theorems,
the hazards each property is for, and for each definition the source lines it
models.
