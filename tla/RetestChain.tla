------------------------------ MODULE RetestChain ------------------------------
(***************************************************************************)
(* The retest of a DRAFT strategy card (revision_retest*.py,               *)
(* experiment_registry.py, locked_evaluation.py, paper_shadow.py): a plan  *)
(* read from the artifact files names the next of eight tasks, and the     *)
(* executor does it, one task per call, in commands that append to several *)
(* files and may die between two appends.  The operator may type what the  *)
(* plan prints himself, one command at a time; decide runs every hour, in  *)
(* a process of its own, between commands and inside them.                 *)
(*                                                                         *)
(* An id is a hash of some of a row's fields: it is modelled by the record *)
(* of those fields, or by the time of the command when the time is among   *)
(* them.  One symbol; its candles come every Cadence, with Gaps.           *)
(***************************************************************************)
EXTENDS Integers, Sequences, FiniteSets, TLC, SequencesExt

CONSTANTS
  None,
  Levels,        \* excess returns after costs: 0 is quarantined, 1 fails, more is a profit
  Breaches,      \* of turnover or adverse excursion in a shadow window
  Windows,       \* research windows (train start to holdout end), all before time 1
  Winning,       \* of them, those in which the strategy beats the benchmark
  Edges,         \* whether the hourly decide may find the forecasts' edge positive
  Cadence, Gaps, \* candles are stored at every multiple of Cadence that is not a gap
  MaxTrials,     \* --max-trials
  MaxBaselines, MaxIncidents   \* bounds; an incident is a command given by hand or a crash

ASSUME LevelsAssumption == Levels \subseteq Nat /\ Breaches \subseteq {"turnover", "adverse"}
ASSUME TimeAssumption == Cadence \in Nat \ {0} /\ Windows \subseteq Nat /\ MaxTrials \in Nat

VARIABLES
  store,    \* file |-> its rows
  now,      \* the time of the next command
  byHand, crashes   \* commands given by hand, crashes

vars == <<store, now, byHand, crashes>>

Row(file, id) == CHOOSE r \in store[file] : r.id = id
OnFile(file, id) == \E r \in store[file] : r.id = id
Latest(rows) == IF rows = {} THEN None ELSE CHOOSE r \in rows : \A q \in rows : q.at <= r.at

-----------------------------------------------------------------------------
(* The plan                                                                *)

Drafts == {c \in store.cards : c.basis \in {"revision", "replacement"}}
\* The commands take the latest draft unless told otherwise.
Target == {Latest(Drafts)} \ {None}

PendingTrial(c) ==
  Latest({t \in store.trials : t.id.card = c.id /\ t.id.status = "PENDING" /\ t.id.retest})

\* What makes an artifact evidence for a trial: it is no older than the trial's
\* start, and made for it or for a PENDING trial of its chain.
Fresh(artifact, t) == artifact.at >= t.started
SameChain(p, t) ==
  /\ p.id.status = "PENDING" /\ p.id.retest /\ p.id.card = t.id.card
  /\ p.id.index = t.id.index /\ p.dataset = t.dataset
Contexts(t) == {t.id} \cup {p.id : p \in {q \in store.trials : SameChain(q, t)}}
\* Mutant: any backtest of the window will do.
MutBacktestBelongs(r, t, contexts) == OnFile("runs", r.id)
BacktestBelongs(r, t, contexts) ==
  Fresh(r, t) /\ OnFile("runs", r.id) /\ r.id.context \in contexts
WalkForwardBelongs(w, t, contexts) == Fresh(w, t) /\ w.id.context \in contexts

SplitsOf(dataset) == {s \in store.splits : s.id.dataset = dataset}
LatestSplit(c, dataset) == Latest({s \in SplitsOf(dataset) : s.id.card = c.id})
ReusableSplit(c, dataset) == Latest({s \in SplitsOf(dataset) : s.id.card # c.id})

Valid(c, t) ==
  LET split == LatestSplit(c, t.dataset) IN
  /\ t.id.card = c.id /\ t.id.status = "PASSED" /\ t.id.retest
  /\ split # None /\ OnFile("results", t.id.bt) /\ OnFile("walks", t.id.wf)
  /\ BacktestBelongs(Row("results", t.id.bt), t, Contexts(t))
  /\ WalkForwardBelongs(Row("walks", t.id.wf), t, Contexts(t))
  /\ t.id.bt.window = split.id.window /\ t.id.wf.window = split.id.window
  /\ t.id.bt = t.id.wf.linked
PassedTrial(c) == Latest({t \in store.trials : Valid(c, t)})

\* A valid PASSED trial's own artifacts, or the latest made for the pending one.
SelectedBacktest(passed, pending, split) ==
  IF passed # None THEN Row("results", passed.id.bt)
  ELSE IF split = None \/ pending = None THEN None
  ELSE Latest({r \in store.results :
                 BacktestBelongs(r, pending, {pending.id}) /\ r.id.window = split.id.window})
SelectedWalkForward(passed, pending, split, bt) ==
  IF passed # None THEN Row("walks", passed.id.wf)
  ELSE IF split = None \/ pending = None THEN None
  ELSE Latest({w \in store.walks :
                 /\ WalkForwardBelongs(w, pending, {pending.id})
                 /\ w.id.window = split.id.window
                 /\ bt # None => w.id.linked = bt.id})

EvaluationId(p) ==
  [card |-> p.passed.id.card, trial |-> p.passed.id, split |-> p.split.id, cost |-> p.cost.id,
   baseline |-> p.baseline.id, bt |-> p.bt.id, wf |-> p.wf.id]
LockedEvaluation(p) ==
  IF None \in {p.passed, p.split, p.cost, p.baseline, p.bt, p.wf} THEN None
  ELSE Latest({e \in store.evaluations : e.id = EvaluationId(p)})

\* The plan is found in stages, each a set of one record (so that TLC finds it once).
Trials(c) ==
  {[pending |-> PendingTrial(c), passed |-> PassedTrial(c), cost |-> Latest(store.costs),
    baseline |-> Latest(store.baselines), dataset |-> None, split |-> None, reusable |-> None,
    bt |-> None, wf |-> None, evaluation |-> None, entry |-> None, outcome |-> None]}
\* Mutant: the newest dataset rather than the trial's.
MutPlannedDataset(p) ==
  LET newest == Latest(store.datasets) IN IF newest # None THEN newest.id ELSE None
PlannedDataset(p) ==
  LET newest == Latest(store.datasets) IN
  IF p.passed # None THEN p.passed.dataset
  ELSE IF p.pending # None THEN p.pending.dataset
  ELSE IF newest # None THEN newest.id ELSE None
Basis(c) ==
  {[p EXCEPT !.dataset = PlannedDataset(p), !.split = LatestSplit(c, PlannedDataset(p)),
             !.reusable = ReusableSplit(c, PlannedDataset(p))] : p \in Trials(c)}
Backtested(c) == {[p EXCEPT !.bt = SelectedBacktest(p.passed, p.pending, p.split)] : p \in Basis(c)}
Evidence(c) ==
  {[p EXCEPT !.wf = SelectedWalkForward(p.passed, p.pending, p.split, p.bt)] : p \in Backtested(c)}
Evaluated(c) == {[p EXCEPT !.evaluation = LockedEvaluation(p)] : p \in Evidence(c)}
LatestEntry(evaluation) ==
  IF evaluation = None THEN None ELSE Latest({e \in store.entries : e.id = evaluation.id})
LatestOutcome(entry) ==
  IF entry = None THEN None ELSE Latest({o \in store.outcomes : o.id.entry = entry.id})
Entered(c) == {[p EXCEPT !.entry = LatestEntry(p.evaluation)] : p \in Evaluated(c)}
Plans(c) == {[p EXCEPT !.outcome = LatestOutcome(p.entry)] : p \in Entered(c)}
Plan(c) == CHOOSE p \in Plans(c) : TRUE

\* Tasks and what completes them, in order.
Tasks == <<"scaffold", "lock", "baseline", "backtest", "walk_forward", "passed_trial", "gate", "shadow">>
Done(p, task) ==
  CASE task = "scaffold"     -> p.pending # None \/ p.passed # None
    [] task = "lock"         -> p.split # None /\ p.cost # None
    [] task = "baseline"     -> p.baseline # None
    [] task = "backtest"     -> p.bt # None
    [] task = "walk_forward" -> p.wf # None
    [] task = "passed_trial" -> p.passed # None
    [] task = "gate"         -> p.evaluation # None
    [] task = "shadow"       -> p.outcome # None
NextTask(p) ==
  LET open == {i \in DOMAIN Tasks : ~Done(p, Tasks[i])} IN
  IF open = {} THEN None ELSE Tasks[CHOOSE i \in open : \A j \in open : i <= j]

\* The first two stored candles since the entry are the window the plan offers.
Stored == {t \in 0..now : t % Cadence = 0 /\ t \notin Gaps}
Since(entry) == {t \in Stored : t >= entry.at}
OfferedWindow(entry) ==
  LET first == CHOOSE t \in Since(entry) : \A u \in Since(entry) : t <= u
      rest == Since(entry) \ {first}
  IN  <<first, CHOOSE t \in rest : \A u \in rest : t <= u>>
WindowOffered(entry) == Cardinality(Since(entry)) >= 2
\* Every multiple of the cadence is on file between its ends.
CompleteWindow(w) == \A t \in w[1]..w[2] : t % Cadence = 0 => t \in Stored

(* Rows: what an id is made of, and what a reader looks at                 *)

Dataset == [id |-> now, at |-> now]
Trial(c, index, status, retest, bt, wf, dataset, started) ==
  [id |-> [card |-> c.id, index |-> index, status |-> status, retest |-> retest, bt |-> bt, wf |-> wf],
   at |-> now, dataset |-> dataset, started |-> started]
Budget(c, used) == [id |-> [card |-> c.id, used |-> Cardinality(used)], at |-> now]
Split(c, dataset, window) ==
  [id |-> [card |-> c.id, dataset |-> dataset, window |-> window], at |-> now]
CostModel == [id |-> "default", at |-> now]
Baseline(positive, at) == [id |-> at, at |-> at, positive |-> positive]
BacktestRun(window, context) == [id |-> [window |-> window, context |-> context], at |-> now]
BacktestResult(window, context, beats) ==
  [id |-> [window |-> window, context |-> context], at |-> now, beats |-> beats]
WalkForward(window, context, linked, beats) ==
  [id |-> [window |-> window, context |-> context, linked |-> linked], at |-> now, beats |-> beats]
Evaluation(e, rankable) == [id |-> e, at |-> now, rankable |-> rankable]
Entry(e, rankable) == [id |-> e, at |-> now, rankable |-> rankable]
Outcome(entry, window, excess, action) ==
  [id |-> [entry |-> entry.id, window |-> window, excess |-> excess], at |-> now,
   card |-> entry.id.card, excess |-> excess, action |-> action]
\* The automation run an executor saves last.  (One that changed nothing else is
\* kept once, so that a fruitless call repeated does not make a state of its own.)
AutomationRun(task, card, fruitless) ==
  [id |-> [task |-> task, card |-> card, at |-> IF fruitless THEN 0 ELSE now], at |-> now]

-----------------------------------------------------------------------------
(* What each command appends                                               *)

NextTrialIndex(card) ==
  LET used == {t.id.index : t \in {u \in store.trials : u.id.card = card}} IN
  1 + (IF used = {} THEN 0 ELSE CHOOSE i \in used : \A j \in used : j <= i)
ScaffoldWrites(c, dataset) ==
  IF PendingTrial(c) # None THEN <<>>
  ELSE <<<<"trials", Trial(c, NextTrialIndex(c.id), "PENDING", TRUE, None, None, dataset, now)>>>>
LockWrites(c, dataset, window) ==
  <<<<"splits", Split(c, dataset, window)>>, <<"costs", CostModel>>>>
BaselineWrites(positive) == <<<<"baselines", Baseline(positive, now)>>>>
BacktestWrites(window, context, beats) ==
  <<<<"runs", BacktestRun(window, context)>>, <<"results", BacktestResult(window, context, beats)>>>>
\* A walk-forward backtests the windows inside its own (one stands for them all).
Inner(window) == <<window[2], window[2]>>
\* Mutant: the holdout backtest is not linked.
MutWalkForwardWrites(window, context, bt, beats) ==
  <<<<"walks", WalkForward(window, context, None, beats)>>>>
\* Saved as computed, and again with the holdout backtest linked to it.
WalkForwardWrites(window, context, bt, beats) ==
  BacktestWrites(Inner(window), context, beats)
  \o <<<<"walks", WalkForward(window, context, None, beats)>>,
       <<"walks", WalkForward(window, context, bt, beats)>>>>

\* Indexes that count against the card's budget.
Consumed(card) ==
  {t.id.index : t \in {u \in store.trials :
                         u.id.card = card /\ u.id.status \notin {"PENDING", "BUDGET_ABORTED"}}}
WithinBudget(card, index) == index \in Consumed(card) \/ Cardinality(Consumed(card)) < MaxTrials
\* Mutant: the trial starts when it is recorded.
MutTrialWrites(c, index, status, retest, dataset, bt, wf, started) ==
  <<<<"trials", Trial(c, index, status, retest, bt, wf, dataset, now)>>>>
TrialWrites(c, index, status, retest, dataset, bt, wf, started) ==
  LET recorded == IF WithinBudget(c.id, index) THEN status ELSE "BUDGET_ABORTED"
      used == Consumed(c.id) \cup (IF recorded = status THEN {index} ELSE {})
  IN  <<<<"trials", Trial(c, index, recorded, retest, bt, wf, dataset, started)>>,
        <<"budgets", Budget(c, used)>>>>

\* The hard gate, on the ids it is given.
Aligned(e) ==
  /\ OnFile("trials", e.trial) /\ e.trial.card = e.card /\ e.trial.status = "PASSED"
  /\ OnFile("splits", e.split) /\ e.split.card = e.card
  /\ e.split.dataset = Row("trials", e.trial).dataset
  /\ e.trial.bt = e.bt /\ e.trial.wf = e.wf
Rankable(e) ==
  /\ Aligned(e) /\ OnFile("costs", e.cost)
  /\ OnFile("baselines", e.baseline) /\ Row("baselines", e.baseline).positive
  /\ OnFile("results", e.bt) /\ Row("results", e.bt).beats
  /\ OnFile("walks", e.wf) /\ e.wf.linked = e.bt /\ Row("walks", e.wf).beats
\* Mutant: the entry before the evaluation.
MutGateWrites(e) ==
  <<<<"entries", Entry(e, Rankable(e))>>, <<"evaluations", Evaluation(e, Rankable(e))>>>>
GateWrites(e) ==
  <<<<"evaluations", Evaluation(e, Rankable(e))>>, <<"entries", Entry(e, Rankable(e))>>>>

\* The entry's own blockers, and those of its evaluation.
Unblocked(entry) == entry.rankable /\ Row("evaluations", entry.id).rankable
Action(unblocked, excess, breach) ==
  IF ~unblocked \/ breach = "adverse" \/ excess = 0 THEN "QUARANTINE"
  ELSE IF excess = 1 \/ breach = "turnover" THEN "RETIRE"
  ELSE "PROMOTION_READY"
OutcomeWrites(entry, window, excess, breach) ==
  <<<<"outcomes", Outcome(entry, window, excess, Action(Unblocked(entry), excess, breach))>>>>

-----------------------------------------------------------------------------
(* What a task needs to be ready, and what the executor then appends       *)

ScaffoldReady(p) == p.dataset # None
LockReady(p) ==
  /\ p.pending # None \/ p.passed # None
  /\ p.dataset # None
  /\ p.split # None \/ p.reusable # None
BacktestReady(p) == p.split # None
WalkForwardReady(p) == p.split # None
PassedTrialReady(p) == None \notin {p.pending, p.dataset, p.bt, p.wf} /\ p.wf.id.linked = p.bt.id
GateReady(p) == None \notin {p.passed, p.split, p.cost, p.baseline, p.bt, p.wf}
ShadowReady(p) == p.entry # None /\ WindowOffered(p.entry)
Ready(p) ==
  LET task == NextTask(p) IN
  CASE task = "scaffold"     -> ScaffoldReady(p)
    [] task = "lock"         -> LockReady(p)
    [] task = "baseline"     -> TRUE
    [] task = "backtest"     -> BacktestReady(p)
    [] task = "walk_forward" -> WalkForwardReady(p)
    [] task = "passed_trial" -> PassedTrialReady(p)
    [] task = "gate"         -> GateReady(p)
    [] task = "shadow"       -> ShadowReady(p)
    [] task = None           -> FALSE

Wins(split) == split.id.window[2] \in Winning
ScaffoldTask(c, p) == {ScaffoldWrites(c, p.dataset)}
LockTask(c, p) ==
  LET like == IF p.split # None THEN p.split ELSE p.reusable IN {LockWrites(c, p.dataset, like.id.window)}
BaselineTask == {BaselineWrites(positive) : positive \in BOOLEAN}
BacktestTask(p) == {BacktestWrites(p.split.id.window, p.pending.id, Wins(p.split))}
WalkForwardTask(p) == {WalkForwardWrites(p.split.id.window, p.pending.id, p.bt.id, Wins(p.split))}
PassedTrialTask(c, p) ==
  IF ~WithinBudget(c.id, p.pending.id.index) THEN {}
  ELSE {TrialWrites(c, p.pending.id.index, "PASSED", TRUE, p.dataset, p.bt.id, p.wf.id, p.pending.started)}
GateTask(p) == {GateWrites(EvaluationId(p))}
\* The returns of the offered window are derived from its candles by a backtest.
ShadowTask(p) ==
  LET window == OfferedWindow(p.entry) IN
  IF ~CompleteWindow(window) THEN {}
  ELSE {BacktestWrites(window, None, x > 1) \o OutcomeWrites(p.entry, window, x, b) :
        x \in Levels, b \in Breaches \cup {None}}

NextWrites(c, p) ==
  LET task == NextTask(p) IN
  IF ~Ready(p) THEN {} ELSE
  CASE task = "scaffold"     -> ScaffoldTask(c, p)
    [] task = "lock"         -> LockTask(c, p)
    [] task = "baseline"     -> BaselineTask
    [] task = "backtest"     -> BacktestTask(p)
    [] task = "walk_forward" -> WalkForwardTask(p)
    [] task = "passed_trial" -> PassedTrialTask(c, p)
    [] task = "gate"         -> GateTask(p)
    [] task = "shadow"       -> ShadowTask(p)

-----------------------------------------------------------------------------
(* Commands                                                                *)

\* Appends <<file, row>> in order; a file refuses a row whose id is there.
AppendRow(files, write) ==
  [files EXCEPT ![write[1]] = IF \E r \in @ : r.id = write[2].id THEN @ ELSE @ \cup {write[2]}]
\* decide saves a new baseline: all of it that the chain reads.
Decides(files, at) ==
  /\ Cardinality(files.baselines) < MaxBaselines
  /\ \E positive \in Edges :
       store' = [files EXCEPT !.baselines = @ \cup {Baseline(positive, at)}]
\* What a command leaves when it ends, a decide having come inside it or not.  (The
\* command looks at baselines before its first append: wherever the decide comes, it
\* only adds its row.  One that changes nothing is left out.)
Leaves(files) ==
  /\ files # store
  /\ \/ store' = files /\ now' = now + 1
     \/ Decides(files, now + 1) /\ now' = now + 2
\* A command appends all its writes, or dies after the first few.
Run(writes) ==
  \/ Leaves(FoldLeft(AppendRow, store, writes)) /\ UNCHANGED crashes
  \/ /\ byHand' + crashes < MaxIncidents
     /\ \E k \in 1..Len(writes) - 1 : Leaves(FoldLeft(AppendRow, store, SubSeq(writes, 1, k)))
     /\ crashes' = crashes + 1
Routinely(writes) == UNCHANGED byHand /\ Run(writes)
ByHand(writes) ==
  writes # <<>> /\ byHand + crashes < MaxIncidents /\ byHand' = byHand + 1 /\ Run(writes)

\* With the automation run that closes an executor's call.
Logged(task, card, writes) ==
  Append(writes, <<"automations", AutomationRun(task, card, FoldLeft(AppendRow, store, writes) = store)>>)

\* execute-revision-retest-next-task.
Execute(c, p) ==
  \E writes \in {Logged(NextTask(p), c.id, w) : w \in NextWrites(c, p)} : Routinely(writes)

\* The shadow task with returns given on the command line.
Observe(c, p) ==
  /\ NextTask(p) = "shadow" /\ p.entry # None
  /\ \E x \in Levels, b \in Breaches \cup {None} :
       ByHand(Logged("shadow", c.id, OutcomeWrites(p.entry, <<p.entry.at, now>>, x, b)))

\* decide, or run-once --also-decide, when the scores have changed since the last one.
Decide ==
  /\ Decides(store, now)
  /\ now' = now + 1
  /\ UNCHANGED <<byHand, crashes>>

BuildDataset == ByHand(<<<<"datasets", Dataset>>>>)

ScaffoldByHand(c) ==
  \E d \in store.datasets :
    \/ ByHand(ScaffoldWrites(c, d.id))
    \/ \E w \in Windows : ByHand(ScaffoldWrites(c, d.id) \o LockWrites(c, d.id, <<0, w>>))

\* The printed command without --started-at, or a trial that failed.
TrialByHand(c, p) ==
  \/ /\ NextTask(p) = "passed_trial"
     /\ ByHand(TrialWrites(c, p.pending.id.index, "PASSED", TRUE, p.dataset, p.bt.id, p.wf.id, now))
  \/ ByHand(TrialWrites(c, NextTrialIndex(c.id), "FAILED", FALSE, None, None, None, now))

\* The printed backtest, which carries no context.
BacktestByHand(p) ==
  /\ NextTask(p) = "backtest"
  /\ ByHand(BacktestWrites(p.split.id.window, None, Wins(p.split)))

\* evaluate-leaderboard-gate on a trial and any split and baseline.
GateByHand ==
  \E t \in store.trials, s \in store.splits, b \in store.baselines :
    ByHand(GateWrites([card |-> t.id.card, trial |-> t.id, split |-> s.id, cost |-> "default",
                       baseline |-> b.id, bt |-> t.id.bt, wf |-> t.id.wf]))

\* Time that only passes while it is waited for, up to the second candle.
Wait(p) ==
  /\ NextTask(p) = "shadow" /\ p.entry # None /\ ~WindowOffered(p.entry)
  /\ \E later \in now + 1..now + Cadence : later % Cadence = 0 /\ now' = later
  /\ UNCHANGED <<store, byHand, crashes>>

Advance == \E c \in Target : \E p \in {Plan(c)} : Execute(c, p) \/ Wait(p)
ChainNext ==
  \/ \E c \in Target : \E p \in {Plan(c)} :
       \/ Execute(c, p) \/ Wait(p) \/ Observe(c, p)
       \/ ScaffoldByHand(c) \/ TrialByHand(c, p) \/ BacktestByHand(p)
  \/ Decide \/ BuildDataset \/ GateByHand
=============================================================================
