# paper-forecast-loop in TLA+

Models of the paper trading and research loop in `src/forecast_loop`, checked
with TLC on small instances. Their safety properties are also proved with TLAPS,
for every instance. Paths are relative to the repository.

## The system

A command line program (`cli.py`) over a directory of JSONL files
(`storage.py`). Every artifact has an id hashed from what makes it the same
artifact; `save_*` appends a line unless the id is there, and a few files
(`forecasts`, `paper_orders`, and in a repair the research artifacts) are
rewritten whole by truncating them. There is no lock, no transaction and no
server: a command is a sequence of file writes that a crash can cut short and
another terminal's command can interleave with, and the next command starts from
whatever is on disk.

| Component | State | Operations | What makes it correct |
|---|---|---|---|
| forecasting loop (`pipeline.py`) | forecasts, scores, reviews, proposals, `last_run_meta.json` | `run_cycle` | one forecast per window, one score per forecast, status agrees with scores, reruns add nothing, mature forecasts settle |
| market data (`providers.py`, `stock_data.py`, `candle_store.py`) | candles in a sliding window | queries by hour | late, missing and expiring candles do not corrupt scoring |
| decision (`decision.py`, `research_gates.py`, `baselines.py`) | decisions, baselines | `decide`, `run-once --also-decide` | rests on the latest evidence; no trade without it or on a broken store |
| operator control (`control.py`) | control events | `operator-control` | a control holds until lifted, by timestamps |
| paper orders (`orders.py`) | orders | `paper-order` | one open order per symbol, one per decision, none against a control |
| portfolio (`portfolio.py`) | orders, fills, portfolio, equity curve | `paper-fill`, `portfolio-snapshot` | a fill is applied once and explained by its files |
| broker side (`risk.py`, `broker_lifecycle.py`, `broker_reconciliation.py`, `execution_safety.py`) | risk snapshots, broker orders, reconciliations, gates | `risk-check`, `broker-order`, `broker-reconcile`, `execution-gate` | what was sent is not sent again; a mismatch is found and stops the gate |
| health (`health.py`, `repair_requests.py`) | repair requests | `health-check`, first thing in every `decide` | every broken reference of any symbol is found, and decisions fail closed |
| storage repair (`maintenance.py`) | active and quarantine files | `repair-storage` | nothing lost, everything that depends on a bad row goes with it |
| retest (`revision_retest*.py`, `experiment_registry.py`, `locked_evaluation.py`, `paper_shadow.py`) | trials, budgets, splits, costs, evaluations, entries, outcomes | plan, execute the next task, each step by hand | planner and executor agree; nothing is promoted on other evidence than its own; a retest ends |
| lineage (`strategy_evolution.py`, `strategy_lineage.py`, `lineage_*.py`, `autopilot.py`) | cards, agendas, autopilot runs, digests | propose, draft, plan, execute, record a run | one answer per outcome; reviews rest on the card's own chain |
| blocker research (`decision_research_*.py`, `backtest.py`, `walk_forward.py`) | agendas, backtests, walk-forwards, event edges | plan, execute the next task | what the plan calls complete is current; evidence that is asked for is made |
| events (`event_*.py`, `market_reaction.py`, `market_derived_events.py`, `source_*.py`) | documents, events, checks, reactions | build, derive | an evaluation's inputs are on file and current |
| SQLite (`sqlite_repository.py`) | database | migrate, compare | no row lost or changed |
| dashboards, digests, notifications | none that is read back | rendering | – |

The loop and the ledger interact only through the files: forecasts and reviews feed the
decision, a decision feeds an order, an order a fill, the portfolio the next
decision, an order a broker order, and its reconciliation the gate; control
events are read when an order is made and when the gate is asked. What a
decision finds missing becomes an agenda, the agenda a plan, the plan evidence,
and the next decision reads it. A health check over everything comes first, so
that one broken reference stops the decisions of every symbol. Repair rewrites
what the research chain has appended.

The hard behaviours are therefore: a crash between two writes (or inside a
rewrite) and the rerun after it; two commands whose reads and writes interleave;
inputs that go backwards (`--now`, control timestamps, a provider's newest
candle) or vanish (a sliding window of candles); planners that must recognise
what executors wrote, by ids that leave out part of the content; and evidence
that goes stale while the next is being made. `PROJECT.json` lists each at its
line.

## Modules

| Module | Models |
|---|---|
| `ForecastCycle` | `ForecastingLoop.run_cycle`, `_run_once`'s meta file, the provider's window |
| `ForecastLifecycle` | the abstract promise: each forecast gets one verdict; a verdict by score is never lost |
| `Control` | the fold over control events and the block reason of an order |
| `PaperTrading` | `decide`, `operator-control`, `paper-order`, `paper-fill`, `portfolio-snapshot`; extends `Control` |
| `BrokerGate` | `broker-order`, `broker-reconcile`, `execution-gate`, read by read; composes them with `PaperTrading` |
| `StorageRepair` | `repair_storage` and the commands that append what it moves |
| `RetestChain` | the retest of a draft card: its plan, its executor and the same steps by hand |
| `Lineage` | revisions, replacements, the lineage plan and executor, the autopilot; composes them with `RetestChain` |
| `Health` | the references between artifacts, which of them the health check follows, and what must agree |
| `ResearchLoop` | decisions, their blockers, the blocker plan and executor, events and evidence, repair requests; extends `Health` |
| `ForecastCycleProofs`, `ForecastCycleUncutProofs`, `PaperTradingProofs`, `StorageRepairProofs`, `BrokerGateProofs`, `LineageProofs`, `ResearchLoopProofs` | theorems about the module they are named for |
| `FiniteLemmas` | lemmas on finite sets that several proofs use: induction as a smallest set or least number, last elements, recursion over subsets |

**ForecastCycle.** One variable per file, the clock and the candles served, and
the memory of the run: `pc` is the code between two writes. `Load` is
`load_forecasts`; the actions of `ScoreLoop` are the returns of
`_score_forecast_if_ready`, in its order, `RecordScore` including the
`save_score` that follows; `ReviewScores` and `Propose` are
`_generate_review` and `_generate_proposal` with their saves; `ReuseForecast`,
`CreateForecast` and `NoForecast` the outcomes of `_create_or_get_forecast`;
`ReplaceForecasts` the rewrite; `WriteMeta` `last_run_meta.json`. `Crash` is
possible between any two of them, `TornReplace` keeps a prefix of the file,
`ProviderError` unwinds into `_write_failed_run_meta`. Abstractions: a candle is
its hour; whether a prediction was right is open, since prices are; the
horizon is any of `Horizons` but the same in all runs, so a forecast's id is its
symbol and anchor; `settled` is history, the inputs of the last completed run until
a dead run rewrites the file; status reasons, which nothing reads, are left out.

**PaperTrading.** One variable per file; each terminal has a `pc` (its next write) and a
`hand` (what it read). A position is the share of equity it is worth, a level
`0..MaxLevel`, and a fill carries a quote, which stands for the quantity and price its
id is made from; money and fees are left out, and with them which of several
evidence-driven actions a decision takes: `Recommended` has every action with the target
and `tradeable` flag the code gives it at a position. The actions `CheckOrder`,
`SeekOrder` and `AppendOrder` split `create_paper_order_from_decision` at its reads, at
`_append_unique`'s look for the id and at its append; `ReadFill`, `MarkFilled`,
`SaveFill`, `SaveSnapshot`, `SavePoint` are the read and the four writes of
`fill_paper_order`. The health check of these commands can only refuse them, so leaving
it out only adds behaviours. The other appends are one step each: nobody else makes
their ids, which have the command's own time or order in them. So is the fold of the
controls with the check of the orders, which no property with two terminals tells apart.
Two history parts carry no behaviour: `booked`, the orders a portfolio has applied, and
`lost`, those whose line a torn rewrite dropped.

**BrokerGate.** The ledger's variables and one per file it adds; `Ledger` is a step
of `PaperTrading` with what the gate later reads of a new decision (`basis`: the
position it was made for and whether its evidence grade suffices). No command
holds a lock, so every file that one reads or appends to is a step, in the code's
order, and what it has read so far is in the terminal's `draft`: `broker-order` is
`CheckBrokerOrder`, `SeekBrokerOrder` (the look of `_append_unique`) and
`AppendBrokerOrder`; `broker-reconcile` reads the broker orders, then the portfolio,
then appends; `execution-gate` reads decision, order, risk, reconciliation, health,
controls, orders and broker orders and then appends (`GateDecision` to `AppendGate`).
The brokers are mocks: a broker order has whatever status the
command line asked for, and what a broker knows of its orders is a file the
operator hands over, here any book of up to `MaxBook` orders, of which some have no
reference (`ExternalBook`). The four
order findings are operators of their own; cash, equity and positions agree with
the latest portfolio or do not. What the risk snapshot says is any severity, because its
drawdown is floating point over files that other commands write. `otherwise`
stands for the gate's checks on files that are not here (the rest of the health
check, the broker's health file, the market calendar). History: `looked`, `began` and
the gate's `controls`, the lengths of the files at those moments.

**StorageRepair.** `active` and `quarantine` hold the rows of the six kinds a
repair moves; `Begin` is everything up to the first write (all the reads, the bad
rows of each kind from the bad ids of the kinds before and those in quarantine
already), then an append and a rewrite per kind. A trial is its id and whether its
evidence carries the right `id_context`, because the id leaves the evidence out;
the right context is that of a pending trial and can only be verified while that
trial is on file. The other artifacts are named by their trial, from which their
ids are made; an autopilot run names any id of each kind, as the command line
allows. The commands that record rows run between repairs. Order within a file
and half-written last lines are left out. History: `recorded`, `torn` (rows a torn
rewrite dropped) and `clean` (repaired and not written since).

**RetestChain.** `store` has a set of rows per file; an id that is a hash is the
record of the hashed fields, or the time of the command when that is hashed too,
so that a field that an id leaves out can differ between two rows that want one id. `Plan` finds
what `revision_retest_plan.py` selects (trial, split, baseline, backtest,
walk-forward, evaluation, entry, outcome), `Done` and `Ready` are its statuses of
the eight tasks, `NextWrites` the appends of each branch of the executor in their
order, and `Run` either makes all of them or dies after the first few. Commands of
the retest follow one another, as one operator's terminal or the executor gives
them; a `decide` of the hourly automation may come at any moment, between two
commands or inside one (`Leaves`): a command that looks at baselines does so before its
first append, so that a decide inside it only adds its own row. The same
steps by hand are actions of their own: with other splits and baselines, without
`--started-at`, without a context. Returns and Sharpe ratios are one flag per
artifact (`beats`), excess returns a level; the windows of a walk-forward are
backtested too, one standing for them all. `Decide` is the hourly decision, of
which the chain reads only the baseline it appends.

**Lineage.** `Verdict` compares the last two outcomes of a lineage; `LineageTask` is the
plan's next task and `LineageWrites` what the executor does of it; proposing the
revision and recording the autopilot run are left to the operator, as the lineage
executor refuses them. `ProposalWrites` is what a proposal appends: the card and its
agenda, or the agenda alone when an earlier proposal died before it. `Cand` is which
agenda a retest's run stands for, `LoopStatus` the status an autopilot run gets. The
store starts with a registered card that has been through a gate and a shadow window,
with all its evidence or with ids that name nothing (`register` and `evaluate` accept
any ids), and in one case with a replacement drafted before replacements had an
archetype.

**Health.** `Schema` is every id-holding field of the artifacts of `models.py` that the
research side uses; `Links` the ones that `health.py` follows, a block each;
`Agreements` the pairs it compares. The schema and the links are stated apart, so that a
field the health check forgets shows (`NoTradeOnABrokenStore` goes over the schema). Two
fields are left alone by the code: a review's `forecast_ids` and a document's
`ingestion_run_id`; and two kinds of rows are passed over, the summaries of replays and
the digests that a later one of the same symbol supersedes. Besides references and
`Agreements` there are the run that its agenda does not name (`Misplaced`, with the
exception for the root of a replacement) and the decision that a run should not stand
for (`Refused`). Findings that are not about references are left out: duplicate ids,
stale forecasts, provider runs, secrets, the dashboard's age and leakage in a research
dataset.

**ResearchLoop.** One symbol with all its files, next to a *backdrop*: a chain of
artifacts of another symbol, one row of each kind, of which a file may be lost or to
which an autopilot run may be added. `Decides` is the health check, the selection of the
evidence (`LatestBacktest`, `LatestWalkForward`, `LatestEdge`), the gate's flags in
their priority and the four that the decision's text shows; `RunOnce` adds the agenda.
`Plans` finds the latest current evidence of each kind, `ExecuteNext` makes the next,
with the appends in order and a crash among them. `ImportCandle`, `DeriveEvents`,
`BuildEvents`, `BuildReactions`, `EvidenceByHand` and `NewScores` bring inputs in, a
command that dies having done the first of its events (moves newest first, reactions by
the hour an event became known); `RewriteDies` tears a file that is written anew with
every row. All events here are of one family and type, so that there is one event edge
(`EdgeInputs`): other families come with imported documents, which are left out. What
evidence turns out to be is any of `Verdicts`; `grade` stands for what the scores and
the risk check say; a position is held, so that there is something to reduce. Times are
even for what is made and odd for what comes in, since the plan compares them; a crash
lets the clock tick.

## Runs

All bounds are in the `.cfg` files. Each run takes up to three minutes with two workers.

| Run | Question and instance |
|---|---|
| `cycle_clean` | do the files agree after every run, and do mature forecasts settle? Two symbols, hours 0..2, horizon 0 or 1, candles that come late, leave gaps and expire; no crash |
| `cycle_faults` | what holds whatever dies: one symbol, hours 0..3, crashes, torn rewrites, backdated runs, provider errors. No double score, duplicate forecast, groundless status or proposal; `ForecastLifecycle` is implemented; a rerun on the same inputs adds nothing |
| `paper_clean` | two symbols, two decisions, two control events at two timestamps in any file order, no fault: orders, fills, portfolio and curve agree between commands, no order line is lost, the folded control state means what was recorded, no order is written against a standing control |
| `paper_faults` | crashes and torn rewrites: one open order per symbol, one order per decision, one fill per order, no unexplained position |
| `broker_gate` | two terminals, two brokers, one order, every interleaving of their reads and appends: a command that looks after an order was sent does not send it again; a reconciliation matches exactly when the two books tell one story; a mismatch or an order at work on file when the gate's command begins stops it, whatever another broker's reconciliation says |
| `repair` | dying repairs and torn rewrites, rows recorded in between, an autopilot run of any ids: nothing lost but torn lines, nothing sound moved, the cascade complete whenever a repair gets through, a second repair idle |
| `research` | a quarantined root card, its revision and its replacement, retested by the executor while decisions append baselines between and inside its calls, with one incident (a command by hand or a crash between two appends) and a missing candle: references resolve, planner and executor agree, a task done stays done, an outcome is answered by one card, which the next proposal leaves with its one agenda whatever died before, a promotion rests on the card's own evidence, and a retest ends in its outcome or where the operator must act |
| `research_loop` | a decision blocked for want of evidence and what is done about it, with two incidents: candles, events, reactions and scores that come in, evidence made by hand, crashes, torn rewrites; or another symbol's file lost and an autopilot run of its recorded. No trade on a broken store, appends never break it, what the plan calls complete is current, the decision rests on it, all evidence asked for is made in the end, a request stands while the store is broken |

Four runs find a counterexample to something the repository says of itself:

- `unscorable_after_score`: README "Forecast States" has `resolved` mean that a
  valid score is recorded. `_score_forecast_if_ready` looks at coverage first
  (`pipeline.py:112`), so after a crash between score and rewrite an expired
  candle makes the scored forecast `unscorable`.
- `two_terminals`: a symbol with an open order "cannot receive a second paper
  order". Two `paper-order` commands at once give it one (`orders.py:99`, `131`).
- `repair_loses_trial`: quarantined trials keep "an auditable copy". A trial
  recorded again with valid evidence has the id of its quarantined predecessor;
  the next repair that rewrites `experiment_trials.jsonl` drops it
  (`maintenance.py:80`) and copies it nowhere.
- `gate_ignores_control`: the gate is to check that "operator controls allow the
  order". It checks the latest decision's action and falls back to the symbol's
  latest order (`execution_safety.py:124`): with a BUY order open, a stop of new
  entries and a SELL decided, it passes the BUY.

**Why the bounds are enough.** *Forecasts.* A forecast needs two candles of history and
lives through open, due and settled within a horizon more, so hours 0..2 give one that
is scored and hours 0..3 two that overlap, two runs in an hour and a review of two
scores. Two symbols are what it takes for one symbol's run to touch another's forecasts.
Crashes are checked with one symbol and without expiry because what they break is within
a forecast's chain of files; `unscorable_after_score` has both, and the theorems below
hold for all symbols and faults together. *Ledger.* Two decisions and two fills are what
an order, its rewrite by the next fill and a second order for its symbol take, and three
portfolios hold the one made up at the start and two fills; with crashes a fourth leaves
room for a mark or a fill done again, and two quotes for doing it at another price. Two
control events are the least that a RESUME, a later cap or an event with an earlier
timestamp needs. *Broker side.* Two terminals to look together, two brokers for one's
match to hide the other's mismatch, two reconciliations for a mismatch to be followed by
a match, books of two orders for a reference given twice or missing; one gate at a time,
whose reads the other terminal's commands fall between; decisions that differ are
`gate_ignores_control`'s matter, and the theorems hold for any of them. *Repair.* Two
trial ids, the pending one and an executed one that is sound or corrupt, with a chain
each and one autopilot run of any ids, reach every step of the cascade;
`repair_loses_trial` has a third id instead of the run, because the active trials are
rewritten only when another bad one is found. *Retest.* Two drafts (a revision and the
replacement that its quarantine calls for), two research windows, so that one can be
locked against the other, two trials in the budget, so that a failed one leaves one, and
two baselines, so that one can reopen the gate (after the last one the decides have
ceased, which is what `ChainAdvances` supposes); one incident at a time, because the
operator's part is to type one wrong thing and the executor's to live with it; candles
at every second time and one gap, so that a shadow window can meet it. *Blockers.* Four
hours with one move and a horizon of two make one event, with the candle before it and
the one at its horizon's end; three candles are the fewest that a backtest is made of,
and the stores start with two of the four candles or with three and all evidence; two
incidents are needed to have an input come in between a crash and the retry. Every
verdict of evidence and every grade occurs. Twelve kinds of files may be lost, such that
every block of the health check follows a reference to one.

The guards name every bound, and deadlock is checked except in `PaperTrading`,
`BrokerGate`, `Lineage` and `ResearchLoop`, which stop at their bounds. The
specifications are instantiated by the `.cfg` files directly: every constant is a
set, a number or a model value. Only `broker_gate` uses symmetry, of terminals and
brokers, and it checks no liveness.

**Fairness.** `ForecastCycle`'s `FairSpec` says that runs for some symbol are started again
and again (README: the loop is run by an hourly automation) and that a started run is
carried on; the liveness run has no crashes. The loop settles every symbol's
forecasts, so it does not matter whose run it is. `Lineage` assumes that the
executor is called every so often and that time passes (`WF_vars(Advance)`), and
nothing of the operator: `ChainAdvances` says where it has to wait for one. It also
supposes, as a premise of the property, that at some time decides bring no new
baseline any more: each opens the gate again, and as long as every hour brings new
scores the code takes no retest to its end.
`ResearchLoop` assumes that `run-once` is called (it is the scheduled command) and
that the executor is called as often; not that anything is repaired, so
`EvidenceArrives` is about stores that stay whole.

## What the models show about the code

Beyond the four disagreements, behaviours that no document excludes and that a
maintainer should know; the exceptions in the properties name them.

- *A gate cut in half.* A crash between `save_locked_evaluation_result` and
  `save_leaderboard_entry` leaves a plan whose gate counts as completed and whose
  shadow task is refused (`leaderboard_entry_missing`), until a new baseline opens
  the gate again or it is run by hand.
- *Two terminals send twice.* `broker-order` looks for an earlier broker order, and
  `_append_unique` for the id, but nothing holds between the look and the append:
  two terminals that both looked first append two rows with one id, and two paper
  orders for one decision come about in the same way. `BrokerOrderOnce` says that
  this is the only way; with one terminal an order is sent once (`SentOnceFromOneTerminal`).
- *Orders without a reference are ignored.* An external order with none of the four id
  fields is dropped before the books are compared (`broker_reconciliation.py:109`,
  `170`) and the reconciliation can be MATCHED, although README (line 756) has unknown
  external orders among what blocks.
- *A gate can pass over what came while it read.* `execution-gate` reads the
  reconciliations before the health check and the broker orders after it; a mismatch
  recorded meanwhile stops only the next gate.
- *A decide inside the gate task* leaves a run that is recorded as executed though the plan
  has the gate open again under the new baseline.
- *An order that no fill is required for* stays CREATED, and its symbol can get no other.
- *Baselines reopen gates.* Every `decide` on changed scores appends a baseline (its
  id has no time, so unchanged scores append none), un-selects the evaluation and
  opens the gate of a retest that was past it.
- *Printed commands that do not complete their task.* The plan's
  `record-experiment-trial` has no `--started-at`: its trial is never valid but has the
  executor's id, so the executor's save is dropped, success is reported and the
  plan is stuck. The printed backtest and walk-forward carry no context and
  complete nothing.
- *A gap right after the entry* makes the offered shadow window incomplete for good.
- *A split of another window* is accepted by `evaluate-leaderboard-gate` typed by hand.
- *The lineage plan calls the revision ready*, and the lineage executor raises
  `unsupported_lineage_research_task_execution` for it. A cross-sample agenda
  asks for a fresh sample but is closed by an autopilot run on the very outcome it
  was opened for.
- *Blocked autopilot runs break health.* `record-research-autopilot-run` keeps them
  by design, and the health check reports them from then on; since it looks at all
  symbols, every decision of every symbol fails closed.
- *`build-events` makes the same story anew* with every run, because the ids
  contain the time; the copies count as samples of an event edge.
- *A walk-forward stays complete* when a candle with an older import time fills a gap
  inside it, while the backtest reopens. With no backtest of the plan's own, a
  decision may rest on one of a walk-forward's inner windows.
- *A torn rewrite of `event_edge_evaluations.jsonl`* leaves decisions that name lost
  ids: they fail closed for good, and `repair-storage` does not cover it.
- *Four blockers.* The agenda asks only for what the decision's text names, so
  evidence behind the fourth waits for the earlier blockers to go; and once no agenda
  asks, nothing is made anew for new candles.
- *A horizon behind.* README has `pending` mean that the window is not over, but with a
  stale provider a run opens a forecast whose window is over and leaves it
  `pending` (`pipeline.py:70`) until a later run settles it.

## Proofs

Every theorem holds for any values of the constants that the named assumptions
allow; `ASSUME`s in a theorem exclude faults, and are needed: dropping one makes the proof
fail, and for most a run shows the counterexample.

`ForecastCycleProofs` (any symbols, hours, horizon, lookback, faults):

- `TypeCorrect`: `Spec => []TypeOK`.
- `AgreementAlways`: the inductive invariant. `ResolvedHasScore` is not inductive:
  during a run the statuses are in memory. `Agreement` adds the same facts of
  `work`, that scores have distinct forecasts, and that keys in `work` are
  distinct. `ResolvedAlwaysScored` and `OneOfEachAlways` follow. It holds with
  torn rewrites too, because a lost forecast that comes back finds its score.
- `LifecycleImplemented`, any fault: `LifecycleInv` adds `Extends`, that the list in
  memory is the file with verdicts kept and new pending forecasts behind, so that
  a step (a torn rewrite too) changes a verdict only as `ForecastLifecycle` lets it.
- `ScoresKeepForecast` (no torn rewrite): every score's forecast is on file.
- `GroundedAlways`, any fault: between the review and the proposal the review in
  memory is on file (`GroundedInv`), so a proposal has a poor review behind it.
- `SingleCandleNeverScoredAlways`: with a horizon of zero the window has one candle,
  by the cardinality of an interval, and no regime.
- `RerunAddsNothingAlways`, an action property, any fault: `RerunInv` says what the last
  completed run has left (no forecast that is due on its inputs, the forecast of its
  hour on file unless there is too little history), and at each `pc` how far the run
  has come towards that; a rerun therefore holds the keys on file and never a fresh one.

`ForecastCycleUncutProofs`, for runs that are not cut short:

- `UnscorableNeverScored` (no crash, torn rewrite or provider failure): `StatusInv`,
  that a scored forecast is `resolved` in the run's memory, and on file between runs.
- `LatestScoresAnsweredAlways` (no crash or provider failure): `AnsweredInv` follows the
  answer from the last new score through review and proposal.
- `MetaAlwaysMatches` (no crash, torn rewrite or backdated run): `TailInv` says that a
  symbol's forecasts are in the order of their anchors and behind its newest
  candle, which an expiring window never takes back.

`PaperTradingProofs`:

- `TypeCorrect`, for any terminals: `TypeInv` ties `hand` to `pc`.
- `OneActiveOrderAlways` and `DecisionOrderedOnceAlways`, one terminal, any fault:
  `OrderInv` says that between the check, the look for the id and the append what was
  found still holds, and that the list to be written back is the file with one order
  marked.
- `BooksSafe` and `BooksTrailAlways`, one terminal, any fault: `BooksInv` follows a
  fill through its four writes (what is marked, filed and booked at each `pc`, or was
  lost to a torn rewrite).
- `ControlMeaningAlways`: the fold of `control.py` against a statement without one, that
  a control holds iff its newest event (by time, then by place in the file) is not
  followed by one that lifts it. By induction over how much has been folded.
- `ControlsStopOrdersAlways`, an action property, one terminal, any fault:
  `CheckedInv` says that until the append the controls let the order in hand pass.
- `OrdersKeptAlways`, one terminal, no torn rewrite: the list to be written back is
  the file's own lines.
- `BooksBalanceAlways`, one terminal, no fault: `BalanceInv` says at each `pc` what
  is missing in which file, and that the curve is the portfolios but the first made up.

`StorageRepairProofs` (any trials, forecasts and ids):

- `TypeCorrect`; `Base`, on which the others rest, says that the repair's memory
  (`doomed`, `kept`) is of rows on file and spares the pending trial.
- `RowsPreserved` (no trial recorded again under its id): `LossInv` says that at every
  stage each active row is kept, doomed or in quarantine already, and is in
  quarantine before the rewrite drops it. `repair_loses_trial` is what
  the assumption excludes.
- `RepairFinishesCascade`: `CascadeInv`, that what a repair spares is sound and names
  nothing bad, by the order of the kinds.
- `RepairIdempotent`: `CleanInv`, that a repaired store dooms nothing.
- `QuarantineDeserved`: `CorruptInv`, that each quarantined or doomed row is corrupt or
  rests on a corrupt trial, or the pending trial was torn off its file.

`BrokerGateProofs` (any terminals, brokers, books up to any `MaxBook`):

- `MatchedIsStory`: the finding lists against the order-by-order statement, on every
  pair of books, so that no book on file can be misjudged (the run checks the books
  the commands leave, each against every list of the broker's). That
  the later of two orders with one reference is compared needs the last element of
  a finite set (`FiniteLemmas`).
- `SentOnce`: `SentInv` says of every terminal on its way to the append that its order was
  not among the lines it looked at, and of every row what its writer had looked at;
  files that only grow keep both. `SentOnceFromOneTerminal` adds that one terminal's look has
  seen all lines (`LookInv`).
- `MismatchAlwaysStops`: `MismatchInv` carries what each read has found along the gate's
  steps, relative to the lengths of the files when it began and when it read, until the
  row is appended: the latest reconciliation read is still the last but for those recorded
  since the command began, and so for the broker orders.

The assumption of one terminal is needed: `two_terminals` is the counterexample.

`LineageProofs` (any drafts, baselines, trials, crashes, commands by hand):

- The invariant is about rows: `Says` is what a row says when it is appended (what it
  points at is on file or among the rows before it; what it was made from agrees), and
  `Agree` relates it to the other rows of its file. A row with both is `Allowed`, and
  `AppendKeeps` shows that files of allowed rows stay so however many of a command's
  writes are made, because the files only grow. What is left is, per command, that
  what it makes of what it read is allowed: one lemma for each stage of the plan.
- `NoDanglingAlways` follows directly. `ReviewOnOwnEvidenceAlways` goes back from the
  autopilot run to outcome, entry, evaluation, trial, backtest and walk-forward, each
  time by what the row says.
- `AnsweredOnceAlways`: that an outcome has one card of each kind is in the invariant;
  `AnswerInv` adds that a revision has one agenda at most, and `ProposalAnswers` makes
  the three cases of `ProposalWrites` (no card, a card without its agenda, both), in
  whatever state dead commands leave the files, end in one of each.
- `TasksStayDoneAlways`, an action property: `PlanAcross` compares the plan before and
  after a step. A retest has one PENDING trial on file and it stays the chosen one; a
  split, a cost model, a result or a walk that was found is found again, or one with
  the same id; the gate and the shadow entry follow the baseline and the window.
- `ExecutorDoesWhatItSaysAlways`, an action property: who can record a retest task is the
  executor of that retest (`WhoRecords`), and then the command's rows precede the record, with
  at most the baseline of a decide besides them. Task
  by task, the row it appends, or the older row with the same id that refuses it, is what the
  plan looks for (`RecordsBasis`, `RecordsEvidence`, `RecordsTrial`, `RecordsGate`). The
  PASSED trial needs `TimelyInv`, that up to the first thing done by hand a retest's trials
  share the start of the PENDING one; after that the property itself has the exception.

`ResearchLoopProofs` (any hours, moves, verdicts, losable files, incidents):

- `InvAlways`: `LinksOK` has two parts, because four files are written anew. What a row
  names in a file that is only appended to is on file (`Lasting`); what it names in
  one that may be cut is, until a rewrite tears (`Passing`). `WalksOK` and `RunsOK` are
  about time: a candle a validation has not seen was imported after it or under an
  old time, and of two backtests of plans the later saw what the earlier did. Commands
  hand over sets of `Legal` writes.
- `CompletedIsCurrentAlways` follows from `WalksOK` and `RunsOK`, `DecisionReadsThePlanAlways`
  (an action property) from the planner's and the decision's choice being the last of
  the same rows.
- `AppendsNeverBreakAlways`: on an untorn store with nothing lost, what `LinksOK` says of
  rows and what the blocks of `Health` ask of them are compared kind by kind.
- `NoTradeOnABrokenStoreAlways`, an action property: that findings are empty must give that no
  field of the schema dangles. `Sound` goes through the schema, field by field: each is
  followed by some block of the health check or is `Unwatched`, and a blocked run is
  found in whichever way it is blocked, whatever file is lost.

Both assume `NoneIsApart`: that the value standing for Python's `None` is not a number,
a row or an id. It is a hypothesis of the theorems and not an `ASSUME`, since it
speaks of all values and TLC cannot evaluate it; TLC's model value satisfies it.

*Induction.* The provers cannot instantiate a theorem with an operator parameter, which the
library's induction rules have. `FiniteLemmas` restates induction with a set: among the
subsets of a finite set, or the numbers, for which a claim fails, there is a smallest
(`SmallestSubset`, `LeastNat`), from which the claim's failure is led to a contradiction. That
is how last elements (`LastElement`, `Greatest`) and folds are handled.

Model-checked only: `MatureForecastSettles`, `ChainAdvances`, `EvidenceArrives` and
`RequestStands`, because liveness and `ENABLED` are
outside of this prover's reach.

## Not modelled

- Prices, returns, regimes, fees, drawdowns and scores as numbers (floating point):
  they are open choices, levels or flags.
- HTTP, CSV, argument parsing, rendering: dashboards, console, digests' text,
  notifications, the automation log, which nothing reads back to act on.
- `replay.py`, which calls the forecasting loop with successive `--now`; the calendar and
  the asset table, which are constant data.
- `sqlite_repository.py`, a second store that only the migration, its export and
  its own check open. Rows are inserted by id, each in a transaction of its own, so a
  migration that dies is finished by the next one; but one that finds an id keeps
  the old payload, so that rows rewritten in JSONL later (a forecast's status, a
  filled order) stay old there.
- Registering cards and agendas by hand with arbitrary text, importing documents
  and macro events, and the source registry.
- Two runs of the loop at once (`pipeline.py:32`), and commands that append during
  a repair (`maintenance.py:134`): each loses what the other wrote, by a rewrite
  from a list read earlier. Half-written last lines (`maintenance.py:428`), below
  the grain of a row.
- That a fill ignores controls (`portfolio.py:58`) and that a stale provider opens
  a window that is over (`pipeline.py:70`) is in the models, but no document forbids
  it, so no property does.

`PROJECT.json` gives the reason for each component. What would come next: a second
run's memory in `ForecastCycle`; and duplicate ids and dataset leakage in `Health`.
