-------------------------------- MODULE Lineage --------------------------------
(***************************************************************************)
(* What surrounds a retest: an outcome that fails calls for a revision of  *)
(* its card, one that is quarantined for a replacement of its lineage, and *)
(* one that improves for a cross-sample check (strategy_evolution.py,      *)
(* strategy_lineage.py, lineage_*.py); the autopilot records where a chain *)
(* of evidence stands (autopilot.py).  The commands append to the files of *)
(* RetestChain and two more, and are run against each other.               *)
(***************************************************************************)
EXTENDS RetestChain

CONSTANTS
  RootLevels,  \* the root card's excess return
  MaxDrafts, MaxDraftTime   \* bounds: revisions and replacements, legacy ones not counted

Files == {"cards", "trials", "budgets", "datasets", "splits", "costs", "baselines", "runs",
          "results", "walks", "evaluations", "entries", "outcomes", "automations",
          "agendas", "autopilots", "digests"}

\* The root card has been through a gate and a shadow window before: a gate with
\* all its evidence on file, or one asked with ids that name nothing.
RootBacktest == [window |-> <<0, 1>>, context |-> None]
RootWalk == [window |-> <<0, 1>>, context |-> None, linked |-> RootBacktest]
RootTrial == [card |-> 0, index |-> 1, status |-> "PASSED", retest |-> FALSE,
              bt |-> RootBacktest, wf |-> RootWalk]
RootSplit == [card |-> 0, dataset |-> 0, window |-> <<0, 1>>]
RootEvaluation(full) ==
  IF full THEN [card |-> 0, trial |-> RootTrial, split |-> RootSplit, cost |-> "default",
                baseline |-> 0, bt |-> RootBacktest, wf |-> RootWalk]
  ELSE [card |-> 0, trial |-> None, split |-> None, cost |-> None, baseline |-> None,
        bt |-> None, wf |-> None]
Card(id, basis, parent, source, root, archetype) ==
  [id |-> id, at |-> id, basis |-> basis, parent |-> parent, source |-> source, root |-> root,
   archetype |-> archetype]
At0(id) == [id |-> id, at |-> 0]

RootRows(full, excess, breach) ==
  LET e == RootEvaluation(full)
      gated == [id |-> e, at |-> 0, rankable |-> full]
      outcome == Outcome(gated, <<0, 0>>, excess, Action(full, excess, breach))
      whole(rows) == IF full THEN rows ELSE {}
  IN  [f \in Files |->
        CASE f = "cards" -> {Card(0, "registered", None, None, None, TRUE)}
          [] f = "trials" -> whole({[id |-> RootTrial, at |-> 0, dataset |-> 0, started |-> 0]})
          [] f = "datasets" -> {At0(0)}
          [] f = "splits" -> whole({At0(RootSplit)})
          [] f = "costs" -> whole({At0("default")})
          [] f = "baselines" -> whole({[id |-> 0, at |-> 0, positive |-> TRUE]})
          [] f = "runs" -> whole({At0(RootBacktest)})
          [] f = "results" -> whole({[id |-> RootBacktest, at |-> 0, beats |-> TRUE]})
          [] f = "walks" -> whole({[id |-> RootWalk, at |-> 0, beats |-> TRUE]})
          [] f \in {"evaluations", "entries"} -> {gated}
          [] f = "outcomes" -> {outcome}
          [] OTHER -> {}]

\* A legacy replacement was drafted before replacements had an archetype.
Legacy(rows) ==
  LET o == CHOOSE o \in rows.outcomes : TRUE IN
  [rows EXCEPT !.cards = @ \cup {Card(1, "replacement", None, o.id, 0, FALSE)}]
Init ==
  /\ now = 2
  /\ \E full \in BOOLEAN, x \in RootLevels, b \in Breaches \cup {None} :
       LET rows == RootRows(full, x, b) IN
       store \in {rows} \cup (IF full /\ x = 0
                              THEN {Legacy(rows)} ELSE {})
  /\ byHand = 0 /\ crashes = 0

-----------------------------------------------------------------------------
(* The lineage                                                             *)

Top(c) ==
  LET top[d \in store.cards] == IF d.parent = None THEN d ELSE top[Row("cards", d.parent)]
  IN  top[c]
RootOf(c) == IF c.basis = "replacement" THEN Row("cards", c.root) ELSE Top(c)
\* A revision of a replacement is of the replacement's own lineage.
Revisions(root) == {c \in store.cards : c # root /\ Top(c) = root}
Replacements(root) == {c \in store.cards : c.basis = "replacement" /\ c.root = root.id}
Members(root) == {root} \cup Revisions(root) \cup Replacements(root)
Ids(cards) == {c.id : c \in cards}
Outcomes(root) == {o \in store.outcomes : o.card \in Ids(Members(root))}

Verdict(root) ==
  LET last == Latest(Outcomes(root))
      before == Latest(Outcomes(root) \ {last})
  IN  IF last = None THEN "no evidence"
      ELSE IF before = None THEN "watching"
      ELSE IF last.excess > before.excess THEN "better"
      ELSE IF last.excess < before.excess THEN "worse" ELSE "level"
LatestAction(root) == IF Outcomes(root) = {} THEN None ELSE Latest(Outcomes(root)).action

\* The card of the latest autopilot run, or else of the latest artifact.
Anchors ==
  {[at |-> c.at, card |-> c.id] : c \in store.cards}
  \cup {[at |-> t.at, card |-> t.id.card] : t \in store.trials}
  \cup {[at |-> e.at, card |-> e.id.card] : e \in store.evaluations \cup store.entries}
  \cup {[at |-> o.at, card |-> o.card] : o \in store.outcomes}
  \cup {[at |-> a.at, card |-> Latest({c \in store.cards : c.id \in a.id.cards}).id] : a \in store.agendas}
ChainCard ==
  LET run == Latest(store.autopilots) IN
  Row("cards", IF run # None THEN run.id.card ELSE Latest(Anchors).card)

Agenda(basis, cards, verdict, action, outcome) ==
  <<"agendas", [id |-> [basis |-> basis, cards |-> cards, verdict |-> verdict, action |-> action,
                        outcome |-> outcome],
                at |-> now]>>
OfBasis(basis) == {a \in store.agendas : a.id.basis = basis}

-----------------------------------------------------------------------------
(* The lineage's tasks                                                     *)

PlannedRoot ==
  LET agenda == Latest(OfBasis("lineage"))
      named == {c \in store.cards : c.id \in agenda.id.cards}
  IN  RootOf(CHOOSE c \in named : c.parent = None)

ReplacementFor(outcome) == Latest({c \in store.cards : c.basis = "replacement" /\ c.source = outcome})
RevisionsFor(outcome) == {c \in store.cards : c.basis = "revision" /\ c.source = outcome}
CrossSampleCards(root) == {root.id, Latest(Outcomes(root)).card}

\* Accepted as the cross-sample check of the lineage's latest outcome.
AcceptedRun(r, root) ==
  /\ r.id.agenda.basis = "cross_sample"
  /\ r.id.agenda.cards \cap (Ids(Members(root))) # {}
  /\ r.id.card \in Ids(Members(root))
  /\ r.clean /\ r.id.outcome = Latest(Outcomes(root)).id
CrossSampleOpened(root) ==
  \/ \E r \in store.autopilots : AcceptedRun(r, root)
  \/ \E a \in OfBasis("cross_sample") :
       a.id.cards = CrossSampleCards(root) /\ a.id.outcome = Latest(Outcomes(root)).id

RevisionTask(last) == IF RevisionsFor(last.id) = {} THEN "propose_revision" ELSE None
ReplacementTask(last) ==
  LET r == ReplacementFor(last.id) IN
  IF r = None THEN "draft_replacement" ELSE IF ~r.archetype THEN "refresh_replacement" ELSE None
CrossSampleRunTask(root) ==
  IF \E r \in store.autopilots : AcceptedRun(r, root) THEN None ELSE "cross_sample_run"
CrossSampleTask(root) ==
  IF ~CrossSampleOpened(root) THEN "verify_cross_sample" ELSE CrossSampleRunTask(root)

\* None when done; the revision and the autopilot run are left to the operator.
LineageTask(root) ==
  LET last == Latest(Outcomes(root)) IN
  IF last = None THEN "collect_evidence"
  ELSE IF last.action = "QUARANTINE" THEN ReplacementTask(last)
  ELSE CASE Verdict(root) = "worse"  -> RevisionTask(last)
         [] Verdict(root) = "better" -> CrossSampleTask(root)
         [] OTHER                    -> "collect_evidence"

-----------------------------------------------------------------------------
(* Commands                                                                *)

Room == now <= MaxDraftTime /\ Cardinality({c \in Drafts : c.archetype}) < MaxDrafts

Failed(o) == o.action \in {"RETIRE", "QUARANTINE"}
RevisionsIn(files, o) ==
  {c \in files.cards : c.basis = "revision" /\ c.source = o.id /\ c.parent = o.card}
AgendasIn(files, id) == {a \in files.agendas : a.id.basis = "revision" /\ a.id.cards = {id}}
AgendaOf(id, o) == Agenda("revision", {id}, None, None, o.id)
Drafted(o) == <<<<"cards", Card(now, "revision", o.card, o.id, None, TRUE)>>, AgendaOf(now, o)>>
\* Mutant: a revision that is there is left as it is.
MutProposalWrites(o) == IF RevisionsIn(store, o) = {} THEN Drafted(o) ELSE <<>>
\* The card, then its agenda; or what is missing of them.
ProposalWrites(o) ==
  IF RevisionsIn(store, o) = {} THEN Drafted(o)
  ELSE LET c == CHOOSE c \in RevisionsIn(store, o) : TRUE IN
       IF AgendasIn(store, c.id) # {} THEN <<>> ELSE <<AgendaOf(c.id, o)>>
\* propose-strategy-revision.
ProposeRevision ==
  \E o \in store.outcomes :
    Failed(o) /\ (RevisionsIn(store, o) = {} => Room) /\ Routinely(ProposalWrites(o))

Refresh(legacy) == Card(now, "replacement", None, legacy.source, legacy.root, TRUE)

CreateLineageAgenda ==
  LET root == RootOf(ChainCard) IN
  /\ ByHand(<<Agenda("lineage", Ids({root} \cup Revisions(root)), Verdict(root), LatestAction(root), None)>>)

LineageWrites(root, task) ==
  LET last == Latest(Outcomes(root)) IN
  CASE task = "draft_replacement" ->
         <<<<"cards", Card(now, "replacement", None, last.id, root.id, TRUE)>>>>
    [] task = "refresh_replacement" -> <<<<"cards", Refresh(ReplacementFor(last.id))>>>>
    [] task = "verify_cross_sample" ->
         <<Agenda("cross_sample", CrossSampleCards(root), Verdict(root), None, last.id)>>
    [] OTHER -> <<>>
ExecuteLineage ==
  /\ OfBasis("lineage") # {}
  /\ LET root == PlannedRoot
         task == LineageTask(root)
         writes == LineageWrites(root, task)
     IN  /\ writes # <<>>
         /\ writes[1][1] = "cards" => Room
         /\ Routinely(Logged(task, root.id, writes))

-----------------------------------------------------------------------------
(* The autopilot                                                           *)

\* A decision is needed for all but a DRAFT card with an outcome of its own;
\* the commands modelled give none.
NeedsDecision(c, outcome) == c \notin Drafts \/ outcome = None \/ outcome.card # c.id
AgendaNames(agenda, c) ==
  c.id \in agenda.cards \/ (c.basis = "replacement" /\ c.root \in agenda.cards /\ agenda.basis = "lineage")
Blocked(agenda, c, entry, outcome) ==
  \/ NeedsDecision(c, outcome) \/ ~AgendaNames(agenda, c) \/ ~entry.rankable
  \/ entry.id.card # c.id \/ (outcome # None /\ outcome.id.entry # entry.id)
LoopStatus(agenda, c, entry, outcome) ==
  IF Blocked(agenda, c, entry, outcome) THEN "BLOCKED"
  ELSE IF outcome.action = "PROMOTION_READY" THEN "READY_FOR_OPERATOR_REVIEW"
  ELSE IF outcome.action = "QUARANTINE" THEN "QUARANTINED" ELSE "REVISION_REQUIRED"
AutopilotRun(agenda, c, entry, outcome, status, retest) ==
  [id |-> [agenda |-> agenda, card |-> c.id, entry |-> entry.id,
           outcome |-> IF outcome = None THEN None ELSE outcome.id, status |-> status],
   at |-> now, clean |-> status = "READY_FOR_OPERATOR_REVIEW", retest |-> retest]
RunWrite(agenda, c, entry, outcome, retest) ==
  <<"autopilots", AutopilotRun(agenda, c, entry, outcome, LoopStatus(agenda, c, entry, outcome), retest)>>
Digest(c) == [id |-> now, at |-> now, card |-> c.id]

\* Of the agendas that may stand for a retest: cross-sample ones for exactly this
\* card and its root, or the card's own; those that name the source outcome first.
Cand(c) ==
  LET cross == {a \in OfBasis("cross_sample") : a.id.cards = {RootOf(c).id, c.id}}
      own == IF c.basis = "replacement" THEN {a \in OfBasis("lineage") : c.root \in a.id.cards}
             ELSE {a \in OfBasis("revision") : c.id \in a.id.cards}
      named == {a \in own : a.id.outcome = c.source}
  IN  IF cross # {} THEN cross ELSE IF named # {} THEN named ELSE own

\* record-revision-retest-autopilot-run, with the digest it saves after the run.
RecordRetestRun ==
  /\ \E c \in Target : \E p \in {Plan(c)} :
       /\ NextTask(p) = None /\ p.passed # None /\ Cand(c) # {}
       /\ LET write == RunWrite(Latest(Cand(c)).id, c, p.entry, p.outcome, TRUE) IN
          /\ ~OnFile("autopilots", write[2].id)   \* again only what is new
          /\ Routinely(<<write, <<"digests", Digest(c)>>>>)

\* record-research-autopilot-run on an outcome, or an entry without one.
RecordRunByHand ==
  /\ \E a \in store.agendas, e \in store.entries :
     \E o \in {p \in store.outcomes : p.id.entry = e.id} \cup {None} :
       ByHand(<<RunWrite(a.id, Row("cards", e.id.card), e, o, FALSE)>>)

Next ==
  \/ ChainNext
  \/ ProposeRevision \/ CreateLineageAgenda \/ ExecuteLineage \/ RecordRetestRun \/ RecordRunByHand

\* The executor is called every so often, and time passes.
Spec == Init /\ [][Next]_vars /\ WF_vars(Advance)

-----------------------------------------------------------------------------
(* Properties                                                              *)

\* Whatever write a command died after, no row points at one that is not there.
Resolves(file, id) == id = None \/ OnFile(file, id)
NoDangling ==
  /\ \A t \in store.trials :
       Resolves("cards", t.id.card) /\ Resolves("datasets", t.dataset)
       /\ Resolves("results", t.id.bt) /\ Resolves("walks", t.id.wf)
  /\ \A s \in store.splits : Resolves("cards", s.id.card) /\ Resolves("datasets", s.id.dataset)
  /\ \A r \in store.results : Resolves("runs", r.id)
  /\ \A w \in store.walks : Resolves("results", w.id.linked)
  /\ \A e \in store.evaluations : e.rankable =>
       Resolves("trials", e.id.trial) /\ Resolves("splits", e.id.split) /\ Resolves("baselines", e.id.baseline)
  /\ \A e \in store.entries : Resolves("evaluations", e.id)
  /\ \A o \in store.outcomes : Resolves("entries", o.id.entry)
  /\ \A c \in store.cards : Resolves("cards", c.parent) /\ Resolves("outcomes", c.source)
  /\ \A a \in store.agendas : \A id \in a.id.cards : Resolves("cards", id)
  /\ \A r \in store.autopilots : Resolves("agendas", r.id.agenda) /\ Resolves("outcomes", r.id.outcome)

\* The id of the PASSED trial was taken by one recorded by hand, whose start is
\* later than its evidence: the executor's own is refused and never valid.
TakenByHand(p) ==
  byHand > 0 /\ p.pending # None /\ p.bt # None /\ p.wf # None
  /\ OnFile("trials", [p.pending.id EXCEPT !.status = "PASSED", !.bt = p.bt.id, !.wf = p.wf.id])

RetestTasks == {Tasks[i] : i \in DOMAIN Tasks}

\* When the executor has recorded that it did a task, the plan counts the task as
\* done (revision_retest_executor.py 41-190 against revision_retest_plan.py): the
\* trial, artifacts and ids the one writes are those the other looks for.  Two things
\* come between: a PASSED trial recorded by hand before it, and a decide inside the
\* executor's call, whose new baseline opens the gate that the call has passed.
ExecutorDoesWhatItSays ==
  [][\A row \in store'.automations \ store.automations :
       row.id.task \in RetestTasks =>
         \A p \in {Plan(Row("cards", row.id.card))}, q \in {Plan(Row("cards", row.id.card))'} :
           \/ Done(q, row.id.task)
           \/ row.id.task = "passed_trial" /\ TakenByHand(p)
           \/ row.id.task \in {"gate", "shadow"} /\ store'.baselines # store.baselines]_vars

\* A retest goes forward: a task done stays done, except that a new baseline
\* opens the gate and what follows again, and a lock of another window all that
\* rests on the window.
TasksStayDone ==
  [][\A c \in Drafts : \A p \in {Plan(c)}, q \in {Plan(c)'}, i \in DOMAIN Tasks :
       Done(p, Tasks[i]) /\ ~Done(q, Tasks[i]) =>
         \/ Tasks[i] \in {"gate", "shadow"} /\ store'.baselines # store.baselines
         \/ i > 3 /\ store'.splits # store.splits]_vars

\* What the autopilot offers to the operator for promotion after a retest was
\* tested for the very card: its outcome's gate was passed, on a PASSED trial
\* whose backtest and walk-forward were made for that card's retest after it
\* began, on a window locked for the card, and belong together.
ReviewOnOwnEvidence ==
  \A r \in store.autopilots :
    r.retest /\ r.id.status = "READY_FOR_OPERATOR_REVIEW" =>
      LET e == Row("entries", r.id.entry).id IN
      /\ Row("evaluations", e).rankable /\ r.id.outcome.entry = e
      /\ e.card = r.id.card /\ e.trial.card = e.card /\ e.trial.status = "PASSED"
      /\ e.split.card = e.card /\ e.split.window = e.bt.window /\ e.split.window = e.wf.window
      /\ e.trial.bt = e.bt /\ e.trial.wf = e.wf /\ e.wf.linked = e.bt
      /\ \E t \in store.trials :
           /\ t.id.card = e.card /\ t.id.status = "PENDING" /\ t.id.index = e.trial.index
           /\ e.bt.context = t.id /\ e.wf.context = t.id
           /\ Row("results", e.bt).at >= t.started /\ Row("walks", e.wf).at >= t.started

\* One revision, with one agenda.
Answered(files, o) ==
  \E c \in files.cards : RevisionsIn(files, o) = {c} /\ Cardinality(AgendasIn(files, c.id)) = 1
\* An outcome is answered by one revision and one replacement at most, however
\* often and after whichever crash the commands are called again; and wherever a
\* proposal has died, the next call to end leaves the failed outcome with exactly one
\* revision, and that with exactly one agenda (strategy_evolution.py 70-135).
AnsweredOnce ==
  /\ \A c, d \in Drafts :
       c.source = d.source /\ c.basis = d.basis /\ c.archetype = d.archetype => c = d
  /\ \A o \in store.outcomes :
       Failed(o) => Answered(FoldLeft(AppendRow, store, ProposalWrites(o)), o)

\* Once decides bring no new baseline any more (each opens the gate again, and the
\* shadow window starts over), the executor, called again and again, takes the latest
\* draft to its shadow outcome (revision_retest_executor.py 43-192 against
\* revision_retest_plan.py 350-961), or to where the operator must act: no dataset to
\* scaffold with, no window to lock, a spent budget, a trial recorded by hand, a gap
\* in the offered window, or a gate whose process died between the evaluation and its
\* entry.
NeedsOperator(c, p) ==
  CASE NextTask(p) \in {"scaffold", "lock"} -> ~Ready(p)
    [] NextTask(p) = "passed_trial" -> TakenByHand(p) \/ ~WithinBudget(c.id, p.pending.id.index)
    [] NextTask(p) = "shadow"       -> IF p.entry = None THEN crashes > 0
                                       ELSE Ready(p) /\ ~CompleteWindow(OfferedWindow(p.entry))
    [] NextTask(p) = None           -> TRUE
    [] OTHER                        -> FALSE
ChainAdvances ==
  (<>[][store'.baselines = store.baselines]_vars)
    => <>[](\A c \in Target : \A p \in {Plan(c)} : NeedsOperator(c, p))
=============================================================================
