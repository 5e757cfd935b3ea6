------------------------------- MODULE ResearchLoop -------------------------------
(***************************************************************************)
(* How a decision that is blocked for want of evidence gets it: decide     *)
(* checks the store's health, reads the latest evidence and says what      *)
(* blocks a trade; run-once opens an agenda for what it says; a plan read  *)
(* from the files says which evidence is not current; and an executor      *)
(* makes it, one kind per call (decision.py, research_gates.py,            *)
(* decision_research_*.py, event_edge.py, market_*.py,                     *)
(* event_reliability.py, backtest.py, walk_forward.py).  Meanwhile candles *)
(* and events come in, commands die half way, and files are lost.          *)
(*                                                                         *)
(* One symbol, whose candles are named by their hours.  Next to its files  *)
(* is a chain of artifacts of another symbol, one of each kind: the health *)
(* check looks at all of them.  Inputs are stamped with odd times and what *)
(* is made from them with the even time that follows.                      *)
(***************************************************************************)
EXTENDS Integers, Sequences, FiniteSets, SequencesExt, Health

CONSTANTS
  None,
  Hours, Moves,        \* candles that may come, and those that moved enough to be events
  Horizon, MinCandles, \* hours after an event that are its reaction; candles of a window
  Starts, Full,        \* sets of hours on file at first, and those of a store with all evidence
  Verdicts,            \* what evidence may turn out to be
  Grades,              \* what the forecasts' scores and the risk check may say
  LosableKinds,        \* files that may be lost
  MaxIncidents         \* bound: inputs and crashes

ASSUME VerdictsAssumption == Verdicts \subseteq {"good", "weak", "risky"}
ASSUME GradesAssumption ==
  Grades \subseteq {"stopped", "reduce", "losing", "few", "degraded", "undirected", "directed"}
ASSUME HoursAssumption == Hours \subseteq Nat /\ Moves \subseteq Hours /\ Horizon \in Nat \ {0}
ASSUME CandlesAssumption == MinCandles \in Nat \ {0}
ASSUME StoresAssumption ==
  \A hours \in Starts \cup {Full} : hours \subseteq Hours /\ IsFiniteSet(hours)

VARIABLES
  store,      \* file |-> its rows
  clock,      \* the time of the next command: even
  grade,      \* what the forecasts' scores and the risk check say now
  decision,   \* the latest decision
  expected,   \* the evidence that the latest agenda expects, or None
  requests,   \* repair requests: what was found, and whether one is pending
  lost,       \* the other symbol's file that is lost, or None
  run,        \* the other symbol's autopilot run, or None
  torn,       \* whether a crash ever left a rewritten file short
  left        \* incidents, here and with the other symbol, still to come

Files == {"candles", "documents", "events", "reliability", "reactions", "edges", "runs", "results",
          "walks", "decisions"}

vars == <<store, clock, grade, decision, expected, requests, lost, run, torn, left>>

Stamp == clock + 1
OnFile(file, id) == \E r \in store[file] : r.id = id
Row(file, id) == CHOOSE r \in store[file] : r.id = id
Latest(rows) == IF rows = {} THEN None ELSE CHOOSE r \in rows : \A q \in rows : q.at <= r.at
Highest(times) == CHOOSE t \in times : \A u \in times : u <= t
Lowest(times) == CHOOSE t \in times : \A u \in times : t <= u

-----------------------------------------------------------------------------
(* The health check                                                        *)

\* The other symbol's chain: one row of each kind, whose references all hold, and the
\* digest that the run's supersedes.  The card replaces a second one, which the second
\* agenda names for its lineage and the third for another reason.  Then a second trial,
\* and two decisions that are not to be acted on: one blocked, one to reduce risk.
Named(kind, key) == IF kind = "research_agenda" /\ key # 0 THEN 1 ELSE 0
BackdropRow(kind, key) ==
  [kind |-> kind, id |-> <<kind, key>>,
   refs |-> [field \in DOMAIN Schema[kind] |-> {<<k, Named(kind, key)>> : k \in Schema[kind][field]}],
   refusals |-> CASE key = 0 -> {} [] key = 1 -> {"not_tradeable", "blocked"} [] key = 2 -> {"fail_closed"},
   lineage |-> key = 1, root |-> IF key = 0 THEN {<<"strategy_card", 1>>} ELSE {}]
Others ==
  {<<"experiment_trial", 1>>, <<"strategy_decision", 1>>, <<"strategy_decision", 2>>,
   <<"strategy_card", 1>>, <<"research_agenda", 1>>, <<"research_agenda", 2>>}
Backdrop ==
  {BackdropRow(kind, 0) : kind \in Kinds \ {"research_autopilot_run", "strategy_research_digest"}}
  \cup {BackdropRow(other[1], other[2]) : other \in Others}
Runs == [agenda : 0..2, trial : 0..2, decision : 0..2 \cup {None}]   \* trial 2 is not on file
RunRow(r) ==
  LET row == BackdropRow("research_autopilot_run", 0) IN
  [row EXCEPT !.refs.agenda_id = {<<"research_agenda", r.agenda>>},
              !.refs.experiment_trial_id = {<<"experiment_trial", r.trial>>},
              !.refs.strategy_decision_id =
                 IF r.decision = None THEN {} ELSE {<<"strategy_decision", r.decision>>}]
\* With the run, its symbol's digest.
BackdropRows(l, r) ==
  {row \in Backdrop \cup (IF r = None THEN {}
                          ELSE {RunRow(r), BackdropRow("strategy_research_digest", 0)}) : row.kind # l}
\* (In a set, which TLC makes once.)
BackdropFindings ==
  {[lost |-> l, run |-> r, found |-> FindingsOf(BackdropRows(l, r))] :
     l \in LosableKinds \cup {None}, r \in Runs \cup {None}}
RunBlocked(r) == r.agenda = 2 \/ r.trial # 0 \/ r.decision \in {1, 2}

\* The symbol's own rows.
Refer(kind, keys) == {<<kind, key>> : key \in keys \ {None}}
LoopRow(kind, key, refs) == [kind |-> kind, id |-> <<kind, key>>, refs |-> refs]
LoopRows ==
  {LoopRow("market_candle", c.id, <<>>) : c \in store.candles}
  \cup {LoopRow("source_document", d.id, [source_id |-> {}]) : d \in store.documents}
  \cup {LoopRow("canonical_event", v.id,
          [source_document_ids |-> Refer("source_document", {v.id[1]}),
           primary_document_id |-> Refer("source_document", {v.id[1]})]) : v \in store.events}
  \cup {LoopRow("event_reliability_check", v.id, [event_id |-> Refer("canonical_event", {v.id})]) :
          v \in store.reliability}
  \cup {LoopRow("market_reaction_check", r.id, [event_id |-> Refer("canonical_event", {r.id[1]})]) :
          r \in store.reactions}
  \cup {LoopRow("event_edge_evaluation", e.id,
          [input_event_ids |-> Refer("canonical_event", e.inputs.events),
           input_reaction_check_ids |-> Refer("market_reaction_check", e.inputs.checks),
           input_candle_ids |-> Refer("market_candle", e.inputs.hours)]) : e \in store.edges}
  \cup {LoopRow("backtest_run", b.id, [candle_ids |-> Refer("market_candle", b.hours)]) :
          b \in store.runs}
  \cup {LoopRow("backtest_result", b.id, [backtest_id |-> Refer("backtest_run", {b.id})]) :
          b \in store.results}
  \cup {LoopRow("walk_forward_validation", w.id,
          [backtest_result_ids |-> Refer("backtest_result", {w.inner}),
           window_backtest_result_ids |-> Refer("backtest_result", {w.inner})]) : w \in store.walks}
  \cup {LoopRow("strategy_decision", d.id,
          [backtest_result |-> Refer("backtest_result", {d.id.bt}),
           walk_forward |-> Refer("walk_forward_validation", {d.id.wf}),
           event_edge |-> Refer("event_edge_evaluation", {d.id.ee})]) : d \in store.decisions}

Findings ==
  (UNION {b.found : b \in {x \in BackdropFindings : x.lost = lost /\ x.run = run}})
  \cup (UNION {Missing(rows) : rows \in {LoopRows}})
\* Every check that finds something files a request of its own; requests that found
\* the same and have the same status are one here.
\* Mutant: only what was not asked for before.
MutFiled(findings) ==
  IF findings = {} \/ \E r \in requests : r.found = findings THEN requests
  ELSE requests \cup {[found |-> findings, status |-> "pending"]}
Filed(findings) ==
  IF findings = {} THEN requests ELSE requests \cup {[found |-> findings, status |-> "pending"]}

-----------------------------------------------------------------------------
(* Events, their reactions, and the samples an event edge is made of       *)

CandleHours == {c.id : c \in store.candles}
EventHour(v) == v.id[1]

LatestReaction(v) == Latest({r \in store.reactions : r.id[1] = v.id})
\* An event whose latest reaction passed, with a candle at either end.
Sampled(v) ==
  LET reaction == LatestReaction(v) IN
  reaction # None /\ reaction.passed /\ {EventHour(v), EventHour(v) + Horizon} \subseteq CandleHours
Between(v) == {h \in CandleHours : EventHour(v) <= h /\ h <= EventHour(v) + Horizon}

\* What build-event-edge puts into an evaluation.  (It makes one for each family and
\* type of events; those that are made here are all of one.)
EdgeInputs ==
  LET samples == {v \in store.events : Sampled(v)} IN
  [events |-> {v.id : v \in samples},
   checks |-> {LatestReaction(v).id : v \in samples},
   hours  |-> UNION {Between(v) : v \in samples}]
\* The time of the latest of them.
InputsAt(inputs) ==
  Highest({v.at : v \in {u \in store.events : u.id \in inputs.events}}
          \cup {r.at : r \in {q \in store.reactions : q.id \in inputs.checks}}
          \cup {c.at : c \in {b \in store.candles : b.id \in inputs.hours}})

\* An event that a move made has its hour for an id; one that build-events made from a
\* document has the time of the command too, so that every run makes it anew.
Event(hour, by) == [id |-> <<hour, by>>, at |-> Stamp]
Reaction(event, by, passed) == [id |-> <<event, by>>, at |-> Stamp, passed |-> passed]
Derivable == {m \in Moves : {m - 1, m, m + Horizon} \subseteq CandleHours}
DerivedWrites(m) ==
  <<<<"documents", [id |-> m, at |-> Stamp]>>, <<"events", Event(m, 0)>>,
    <<"reactions", Reaction(<<m, 0>>, 0, TRUE)>>>>
ReliableWrites(d) ==
  <<<<"events", Event(d.id, Stamp)>>, <<"reliability", [id |-> <<d.id, Stamp>>, at |-> Stamp]>>>>
\* Only an event whose documents were found reliable can pass.
ReactionWrite(v, clean) ==
  <<"reactions", Reaction(v.id, Stamp, clean /\ OnFile("reliability", v.id))>>

-----------------------------------------------------------------------------
(* The plan: the latest evidence of each kind that is current              *)

CandlesAt == Highest({c.at : c \in store.candles})
\* Mutant: made since the last candle came, whatever candles it was made from.
MutBacktestCurrent(r) ==
  OnFile("runs", r.id) /\ r.id.context = "blocker" /\ r.at >= CandlesAt
BacktestCurrent(r) ==
  /\ OnFile("runs", r.id) /\ Row("runs", r.id).hours = CandleHours
  /\ r.id.context = "blocker" /\ r.at >= CandlesAt
\* A validation does not say which candles it was made from, only the first and the last.
WalkForwardCurrent(w) ==
  /\ w.first = Lowest(CandleHours) /\ w.last = Highest(CandleHours)
  /\ w.id.context = "blocker" /\ w.at >= CandlesAt
EdgeCurrent(e, inputs) == e.inputs = inputs /\ e.mark >= InputsAt(inputs) /\ e.at >= InputsAt(inputs)

EnoughCandles == Cardinality(CandleHours) >= MinCandles
CurrentEdge(inputs) ==
  IF inputs.events = {} THEN None ELSE Latest({e \in store.edges : EdgeCurrent(e, inputs)})
CurrentBacktest ==
  IF ~EnoughCandles THEN None ELSE Latest({r \in store.results : BacktestCurrent(r)})
CurrentWalkForward ==
  IF ~EnoughCandles THEN None ELSE Latest({w \in store.walks : WalkForwardCurrent(w)})
\* In a set, so that TLC finds it once.
Plans ==
  {[event_edge |-> CurrentEdge(inputs), backtest |-> CurrentBacktest,
    walk_forward |-> CurrentWalkForward, inputs |-> inputs] : inputs \in {EdgeInputs}}

\* The tasks in order; the last one has no command, and never completes.
Tasks == <<"event_edge", "backtest", "walk_forward", "baseline">>
Completed(plan, task) == task # "baseline" /\ plan[task] # None
NextTask(plan) ==
  LET open == {i \in DOMAIN Tasks : Tasks[i] \in expected /\ ~Completed(plan, Tasks[i])} IN
  IF expected = None \/ open = {} THEN None ELSE Tasks[Lowest(open)]
Ready(plan, task) ==
  \/ task = "event_edge" /\ plan.inputs.events # {}
  \/ task \in {"backtest", "walk_forward"} /\ EnoughCandles

\* What the executor makes: of the plan's window, and marked as its own.
EdgeWrites(inputs, verdict) ==
  <<<<"edges", [id |-> clock, at |-> clock, inputs |-> inputs, mark |-> InputsAt(inputs),
                verdict |-> verdict]>>>>
\* Mutant: the result before its run.
MutBacktestWrites(context, at, hours, verdict) ==
  LET id == [context |-> context, at |-> at] IN
  <<<<"results", [id |-> id, at |-> at, verdict |-> verdict]>>,
    <<"runs", [id |-> id, at |-> at, hours |-> hours]>>>>
BacktestWrites(context, at, hours, verdict) ==
  LET id == [context |-> context, at |-> at] IN
  <<<<"runs", [id |-> id, at |-> at, hours |-> hours]>>,
    <<"results", [id |-> id, at |-> at, verdict |-> verdict]>>>>
WindowOf(context) == IF context = "blocker" THEN "window of blocker" ELSE "window of other"
\* First the backtests of its windows, which carry its mark and not a backtest's; they
\* leave out the training candles.
WalkForwardWrites(context, at, verdict) ==
  LET id == [context |-> context, at |-> at]
      inner == [context |-> WindowOf(context), at |-> at]
  IN  Append(BacktestWrites(inner.context, at, CandleHours \ {Lowest(CandleHours)}, verdict),
             <<"walks", [id |-> id, at |-> at, first |-> Lowest(CandleHours),
                         last |-> Highest(CandleHours), hours |-> CandleHours, inner |-> inner,
                         verdict |-> verdict]>>)
\* Mutant: the backtest is not marked.
MutTaskWrites(plan, task, verdict) ==
  CASE task = "event_edge"   -> EdgeWrites(plan.inputs, verdict)
    [] task = "backtest"     -> BacktestWrites("other", clock, CandleHours, verdict)
    [] task = "walk_forward" -> WalkForwardWrites("blocker", clock, verdict)
TaskWrites(plan, task, verdict) ==
  CASE task = "event_edge"   -> EdgeWrites(plan.inputs, verdict)
    [] task = "backtest"     -> BacktestWrites("blocker", clock, CandleHours, verdict)
    [] task = "walk_forward" -> WalkForwardWrites("blocker", clock, verdict)

-----------------------------------------------------------------------------
(* The decision                                                            *)

\* Mutant: the latest, whatever it was made for.
MutLatestBacktest == Latest(store.results)
\* A backtest made for the plan goes before any other.
LatestBacktest ==
  LET marked == {r \in store.results : OnFile("runs", r.id) /\ r.id.context = "blocker"} IN
  Latest(IF marked # {} THEN marked ELSE store.results)
LatestWalkForward == Latest(store.walks)
LatestEdge == Latest(store.edges)

\* What the gate says against evidence that is not there, and against what is.
Against(kind, artifact, weak, risky) ==
  IF artifact = None THEN {<<kind, "missing">>}
  ELSE {<<kind, flag>> : flag \in CASE artifact.verdict = "good" -> {}
                                    [] artifact.verdict = "weak" -> weak
                                    [] artifact.verdict = "risky" -> weak \cup risky}
ScoreFlags ==
  CASE grade = "losing"   -> {<<"baseline", "model_edge_not_positive">>}
    [] grade = "few"      -> {<<"score", "sample_size_too_low">>}
    [] grade = "degraded" -> {<<"recent", "degradation">>}
    [] OTHER              -> {}
GateFlags ==
  Against("event_edge", LatestEdge, {"not_passed", "not_positive"}, {})
  \cup Against("backtest", LatestBacktest, {"not_beating_benchmark"}, {"drawdown_too_high"})
  \cup Against("walk_forward", LatestWalkForward,
               {"excess_return_not_positive", "not_beating_benchmark"}, {"overfit_risk"})
  \cup ScoreFlags
Reduces(flags) ==
  flags \cap {<<"backtest", "drawdown_too_high">>, <<"walk_forward", "overfit_risk">>,
              <<"recent", "degradation">>} # {}

\* The blockers that the decision's text names: the first four.
Priority ==
  <<<<"event_edge", "missing">>, <<"event_edge", "not_passed">>, <<"event_edge", "not_positive">>,
    <<"backtest", "missing">>, <<"backtest", "not_beating_benchmark">>,
    <<"backtest", "drawdown_too_high">>, <<"walk_forward", "missing">>,
    <<"walk_forward", "excess_return_not_positive">>, <<"walk_forward", "not_beating_benchmark">>,
    <<"walk_forward", "overfit_risk">>, <<"baseline", "model_edge_not_positive">>,
    <<"score", "sample_size_too_low">>, <<"recent", "degradation">>>>
Shown(flags) ==
  LET ordered == SelectSeq(Priority, LAMBDA flag : flag \in flags) IN
  ToSet(SubSeq(ordered, 1, IF Len(ordered) < 4 THEN Len(ordered) ELSE 4))

IdOf(artifact) == IF artifact = None THEN None ELSE artifact.id
FailClosed ==
  [closed |-> TRUE, tradeable |-> FALSE, shown |-> {}, bt |-> None, wf |-> None, ee |-> None]
\* A position is held, so that there is a risk to reduce.
Judged(flags) ==
  LET blocked == grade = "losing" \/ (grade \notin {"stopped", "reduce"} /\ flags # {}) IN
  [closed |-> FALSE,
   tradeable |-> \/ grade = "reduce"
                 \/ grade \notin {"stopped", "losing"} /\ Reduces(flags)
                 \/ grade = "directed" /\ flags = {},
   shown |-> IF blocked THEN Shown(flags) ELSE {},
   bt |-> IdOf(LatestBacktest), wf |-> IdOf(LatestWalkForward), ee |-> IdOf(LatestEdge)]
Cites(d) == [bt |-> d.bt, wf |-> d.wf, ee |-> d.ee]

\* What an agenda for these blockers expects.
ExpectedBy(shown) == {flag[1] : flag \in shown}
\* run-once opens an agenda when the decision names a blocker.
OpenAgenda(shown) == expected' = IF shown = {} THEN expected ELSE ExpectedBy(shown)

-----------------------------------------------------------------------------
(* Commands                                                                *)

\* The first of the writes <<file, row>> of a command.
First(writes, k) == {writes[i] : i \in 1..k}
\* A file refuses a row whose id is there.  (No command makes two rows of one id.)
Appended(writes) ==
  [file \in Files |-> store[file] \cup
     {w[2] : w \in {x \in writes : x[1] = file /\ ~OnFile(file, x[2].id)}}]
Spend(what) == left[what] > 0 /\ left' = [left EXCEPT ![what] = @ - 1]

\* A command brings something in; all of it or, once it dies, the first of it.
Bring(writes) ==
  /\ Spend("here") /\ clock' = clock + 2
  /\ store' = Appended(writes) /\ store' # store
  /\ UNCHANGED <<grade, decision, expected, requests, lost, run, torn>>

\* A candle keeps the time of an earlier import if its row says so.
ImportTimes == {0, Stamp}
ImportCandle ==
  \E h \in Hours \ CandleHours, at \in ImportTimes : Bring({<<"candles", [id |-> h, at |-> at]>>})
\* Move after move, the newest first; the last may be done in part.
MovesUpTo(last, k) ==
  (UNION {First(DerivedWrites(m), 3) : m \in {n \in Derivable : n > last}})
  \cup First(DerivedWrites(last), k)
DeriveEvents == \E last \in Derivable, k \in 1..3 : Bring(MovesUpTo(last, k))
\* Documents come in the order of their groups, which may be any.
GroupsUpTo(done, last, k) ==
  (UNION {First(ReliableWrites(d), 2) : d \in done}) \cup First(ReliableWrites(last), k)
BuildEvents ==
  \E done \in SUBSET store.documents, last \in store.documents, k \in 1..2 :
    Bring(GroupsUpTo(done, last, k))
\* Events go by the hour that they became known, and by their ids within one; each may
\* be priced in or not.
BuildReactions ==
  \E done \in SUBSET store.events : \E clean \in SUBSET done :
    /\ \A v \in done : \A u \in store.events : EventHour(u) < EventHour(v) => u \in done
    /\ Bring({ReactionWrite(v, v \in clean) : v \in done})
\* A backtest or a validation that was not made for the plan, such as by the command it prints.
EvidenceByHand ==
  /\ Cardinality(CandleHours) > 1
  /\ \E verdict \in Verdicts :
       \/ \E k \in 1..2 : Bring(First(BacktestWrites("other", Stamp, CandleHours, verdict), k))
       \/ \E k \in 1..3 : Bring(First(WalkForwardWrites("other", Stamp, verdict), k))
NewScores ==
  /\ Spend("here")
  /\ \E g \in Grades \ {grade} : grade' = g
  /\ UNCHANGED <<store, clock, decision, expected, requests, lost, run, torn>>

\* The files that are written anew with each row; a crash leaves the first of them, of
\* the rows of one command any.
Rewritten == {"events", "reliability", "reactions", "edges"}
RewriteDies ==
  /\ Spend("here") /\ clock' = clock + 2
  /\ \E file \in Rewritten : \E kept \in SUBSET store[file] :
       /\ kept # store[file] /\ \A r \in kept, q \in store[file] : q.at < r.at => q \in kept
       /\ store' = [store EXCEPT ![file] = kept]
  /\ torn' = TRUE
  /\ UNCHANGED <<grade, decision, expected, requests, lost, run>>

HealthCheck(findings) ==
  /\ requests' = Filed(findings)
  /\ UNCHANGED <<store, clock, grade, decision, expected, lost, run, torn, left>>

Decides(findings) ==
  /\ requests' = Filed(findings)
  /\ decision' = IF findings # {} THEN FailClosed ELSE Judged(GateFlags)
  /\ store' = [store EXCEPT !.decisions = @ \cup {[id |-> Cites(decision')]}]
Decide(findings) ==
  UNCHANGED <<clock, grade, expected, lost, run, torn, left>> /\ Decides(findings)
\* run-once --also-decide, from the health check on.
RunOnce(findings) ==
  /\ UNCHANGED <<clock, grade, lost, run, torn, left>>
  /\ Decides(findings)
  /\ OpenAgenda(decision'.shown)

\* execute-decision-blocker-research-next-task.
ExecuteNext ==
  /\ UNCHANGED <<grade, decision, expected, requests, lost, run, torn>>
  /\ \E plan \in Plans : \E task \in {NextTask(plan)} :
       /\ Ready(plan, task)
       /\ \E verdict \in Verdicts : \E writes \in {TaskWrites(plan, task, verdict)} :
            \/ store' = Appended(First(writes, Len(writes))) /\ UNCHANGED <<clock, left>>
            \/ /\ Spend("here") /\ clock' = clock + 2
               /\ \E k \in 1..Len(writes) - 1 : store' = Appended(First(writes, k))

\* A request is resolved or ignored, whatever has become of what it was for.
Close ==
  /\ \E r \in requests : requests' = (requests \ {r}) \cup {[r EXCEPT !.status = "closed"]}
  /\ UNCHANGED <<store, clock, grade, decision, expected, lost, run, torn, left>>

LoseFile ==
  /\ lost = None /\ Spend("others")
  /\ \E kind \in LosableKinds : lost' = kind
  /\ UNCHANGED <<store, clock, grade, decision, expected, requests, run, torn>>
RestoreFile ==
  /\ lost # None /\ lost' = None
  /\ UNCHANGED <<store, clock, grade, decision, expected, requests, run, torn, left>>
\* An autopilot run is kept whatever the ids it is given are ids of.
RecordRun ==
  /\ run = None /\ Spend("others")
  /\ \E r \in Runs : run' = r
  /\ UNCHANGED <<store, clock, grade, decision, expected, requests, lost, torn>>

Candles(hours) == {[id |-> h, at |-> 0] : h \in hours}
Empty == [file \in Files |-> {}]
Fresh == [closed |-> FALSE, tradeable |-> FALSE, shown |-> {}, bt |-> None, wf |-> None, ee |-> None]
\* A store that has all the evidence.
MadeFrom(hours, m) ==
  LET id == [context |-> "blocker", at |-> 0]
      inner == [context |-> "window of blocker", at |-> 0]
      inputs == [events |-> {<<m, 0>>}, checks |-> {<<<<m, 0>>, 0>>}, hours |-> {h \in hours : m <= h /\ h <= m + Horizon}]
  IN  [candles |-> Candles(hours), documents |-> {[id |-> m, at |-> 0]},
       events |-> {[id |-> <<m, 0>>, at |-> 0]}, reliability |-> {},
       reactions |-> {[id |-> <<<<m, 0>>, 0>>, at |-> 0, passed |-> TRUE]},
       edges |-> {[id |-> 0, at |-> 0, inputs |-> inputs, mark |-> 0, verdict |-> "good"]},
       runs |-> {[id |-> id, at |-> 0, hours |-> hours], [id |-> inner, at |-> 0, hours |-> hours]},
       results |-> {[id |-> id, at |-> 0, verdict |-> "good"], [id |-> inner, at |-> 0, verdict |-> "good"]},
       walks |-> {[id |-> id, at |-> 0, first |-> Lowest(hours), last |-> Highest(hours), hours |-> hours,
                   inner |-> inner, verdict |-> "good"]},
       decisions |-> {}]
\* A store with some candles, into which the rest will come; or one that has all the
\* evidence, to which more will come, or next to which something will go wrong.
Init ==
  /\ clock = 0 /\ decision = Fresh /\ expected = None /\ requests = {}
  /\ lost = None /\ run = None /\ torn = FALSE
  /\ grade \in Grades
  /\ \/ /\ \E start \in Starts : store = [Empty EXCEPT !.candles = Candles(start)]
        /\ left = [here |-> MaxIncidents, others |-> 0]
     \/ /\ \E m \in Moves : {m - 1, m, m + Horizon} \subseteq Full /\ store = MadeFrom(Full, m)
        /\ \/ left = [here |-> MaxIncidents, others |-> 0]
           \/ grade = "directed" /\ left = [here |-> 0, others |-> 2]
Next ==
  \/ ImportCandle \/ DeriveEvents \/ BuildEvents \/ BuildReactions \/ EvidenceByHand \/ NewScores
  \/ RewriteDies \/ ExecuteNext \/ Close
  \/ \E findings \in {Findings} : HealthCheck(findings) \/ Decide(findings) \/ RunOnce(findings)
  \/ LoseFile \/ RestoreFile \/ RecordRun
\* run-once is scheduled, and the executor is called as often.
Fairness == WF_vars(\E findings \in {Findings} : RunOnce(findings)) /\ WF_vars(ExecuteNext)
Spec == Init /\ [][Next]_vars /\ Fairness

-----------------------------------------------------------------------------
(* Properties                                                              *)

\* The references that the health check leaves alone: a review's forecasts, where a
\* document came from, and those of replay summaries and superseded digests.
Unwatched ==
  {<<"review", "forecast_ids">>, <<"source_document", "ingestion_run_id">>}
  \cup ({"replay_summary"} \X DOMAIN SummaryFields) \cup ({"superseded_digest"} \X DOMAIN DigestFields)
Broken(rows) ==
  \E ids \in {{q.id : q \in rows}} : \E r \in rows : \E field \in DOMAIN r.refs :
    <<r.kind, field>> \notin Unwatched /\ ~(r.refs[field] \subseteq ids)
\* No decision to trade is made on a store in which any symbol's artifact names one
\* that is not there, or in which an autopilot run stands for a trade it was refused
\* (health.py, whatever file was lost; decide and run-once stop at a finding).
NoTradeOnABrokenStore ==
  [][decision' # decision /\ decision'.tradeable
     => /\ ~Broken(BackdropRows(lost, run)) /\ ~Broken(LoopRows)
        /\ run # None => ~RunBlocked(run)]_vars

\* Commands append what is named before what names it, so that no crash breaks the
\* store: something was lost, or a rewritten file was cut short, or an autopilot run
\* was recorded that was blocked.
AppendsNeverBreak ==
  lost = None /\ ~torn /\ (run # None => ~RunBlocked(run)) => Findings = {}

\* Evidence that the plan calls complete was made from the candles that are now on
\* file, and from nothing that has changed since.  (A validation does not say what
\* candles it was made from: one that came in with an old import time is not seen.)
CompletedIsCurrent ==
  \A plan \in Plans :
    /\ plan.backtest # None => Row("runs", plan.backtest.id).hours = CandleHours
    /\ plan.walk_forward # None /\ plan.walk_forward.hours # CandleHours
       => \A h \in CandleHours \ plan.walk_forward.hours : Row("candles", h).at = 0
    /\ plan.event_edge # None
       => \A v \in store.events : Sampled(v) <=> v.id \in plan.event_edge.inputs.events

At(file, id) == IF id = None THEN 0 - 1 ELSE Row(file, id).at
\* A decision reads the very backtest that the plan calls complete, and never an older
\* edge or validation than the one it does (decision.py and decision_research_plan.py
\* each choose for themselves).
DecisionReadsThePlan ==
  [][decision' # decision /\ ~decision'.closed
     => \A plan \in Plans :
          /\ plan.backtest # None => decision'.bt = plan.backtest.id
          /\ plan.walk_forward # None => At("walks", decision'.wf) >= plan.walk_forward.at
          /\ plan.event_edge # None => At("edges", decision'.ee) >= plan.event_edge.at]_vars

Asked == IF expected = None THEN {} ELSE expected \cap {"event_edge", "backtest", "walk_forward"}
WaitsForInputs(plan) ==
  \/ "event_edge" \in Asked /\ plan.inputs.events = {}
  \/ Asked \cap {"backtest", "walk_forward"} # {} /\ ~EnoughCandles
Cited(kind) ==
  CASE kind = "event_edge"   -> At("edges", decision.ee)
    [] kind = "backtest"     -> At("results", decision.bt)
    [] kind = "walk_forward" -> At("walks", decision.wf)
\* If the store stays whole and the inputs are there, all the evidence that the latest
\* agenda asks for is made, each time anew for the inputs that last came, and the
\* decision rests on it.
EvidenceArrives ==
  <>[](\/ Findings # {}
       \/ \E plan \in Plans :
            WaitsForInputs(plan) \/ \A kind \in Asked : plan[kind] # None /\ Cited(kind) >= plan[kind].at)

\* While the store is broken there is a request for what is found, again and again,
\* however often it is closed without a repair.
RequestStands ==
  []<>(Findings = {} \/ [found |-> Findings, status |-> "pending"] \in requests)
=============================================================================
