----------------------------- MODULE LineageProofs -----------------------------
(***************************************************************************)
(* Theorems about the research lineage, for any number of drafts,          *)
(* baselines, trials, crashes and commands given by hand.                  *)
(*                                                                         *)
(* The argument is about what a row says when it is appended.  Every       *)
(* command hands its rows, in order, to files that only grow; a row is     *)
(* allowed if what it points at is on file or among the rows before it,    *)
(* and if it agrees with the rows of its own file (Allowed).  What is      *)
(* allowed stays true as the files grow, so a command may be cut short     *)
(* anywhere (AppendKeeps).  What remains is that each command, of what it  *)
(* read, makes only allowed rows.                                          *)
(*                                                                         *)
(* For the action properties the plan is told by its trial, its window and *)
(* its baseline: with these the same, what it found it finds again         *)
(* (PlanAcross), and a row the executor makes has the ids it looks for     *)
(* (RecordsDone).                                                          *)
(***************************************************************************)
EXTENDS Lineage, FiniteLemmas

LineageTasks == {"collect_evidence", "propose_revision", "draft_replacement", "refresh_replacement",
                 "verify_cross_sample", "cross_sample_run"}
\* None is neither a row, which has a time, nor an id, which is a time or a record,
\* nor a task.
NoneIsApart ==
  /\ None \notin Nat \cup RetestTasks \cup LineageTasks
  /\ \A row : row.at \in Nat => row # None
  /\ \A id : id = [window |-> id.window, context |-> id.context] => id # None
  /\ \A id : id = [window |-> id.window, context |-> id.context, linked |-> id.linked] => id # None
  /\ \A id : id = [card |-> id.card, index |-> id.index, status |-> id.status, retest |-> id.retest,
                   bt |-> id.bt, wf |-> id.wf] => id # None

\* A row with the id is in the file, or among the rows appended just before.
Has(files, file, id) == \E r \in files[file] : r.id = id
Found(files, before, file, id) ==
  Has(files, file, id) \/ \E w \in before : w[1] = file /\ w[2].id = id
Optional(files, before, file, id) == id = None \/ Found(files, before, file, id)

\* The ids of results and walks name the PENDING trial they were made for, after it began.
ForTrial(files, context, at) ==
  context = None \/
  /\ \E t \in files["trials"] : t.id = context /\ t.started <= at
  /\ context.status = "PENDING" /\ context.retest /\ context.bt = None /\ context.wf = None

\* A card's retest has been scaffolded.
IsPendingOf(id, card) == id.card = card /\ id.status = "PENDING" /\ id.retest
Scaffolded(files, before, card) ==
  \/ \E t \in files["trials"] : IsPendingOf(t.id, card)
  \/ \E w \in before : w[1] = "trials" /\ IsPendingOf(w[2].id, card)

CardSays(files, before, c) ==
  /\ c.id = c.at /\ c.basis \in {"registered", "revision", "replacement"}
  /\ c.parent # None => c.parent \in Nat /\ c.parent < c.id /\ Found(files, before, "cards", c.parent)
  /\ Optional(files, before, "outcomes", c.source)
  /\ c.basis = "revision" => c.archetype = TRUE /\ c.parent = c.source.entry.card
  /\ c.basis = "replacement" =>
       /\ c.parent = None
       /\ \E q \in files["cards"] : q.id = c.root /\ q.parent = None
  /\ c.basis # "registered" /\ c.archetype => c.id > 1
  /\ ~c.archetype => c.id = 1
TrialSays(files, before, t) ==
  /\ t.id = [card |-> t.id.card, index |-> t.id.index, status |-> t.id.status,
             retest |-> t.id.retest, bt |-> t.id.bt, wf |-> t.id.wf]
  /\ Found(files, before, "cards", t.id.card)
  /\ Optional(files, before, "datasets", t.dataset)
  /\ Optional(files, before, "results", t.id.bt) /\ Optional(files, before, "walks", t.id.wf)
  /\ t.id.bt # None => Has(files, "costs", "default")
  /\ t.id.status = "PENDING" => t.id.retest /\ t.id.bt = None /\ t.id.wf = None
  /\ t.id.retest \in BOOLEAN /\ t.id.index \in Nat /\ t.started \in Nat /\ t.started <= t.at
  /\ t.id.retest /\ t.id.status # "PENDING" =>
       \E q \in files["trials"] :
         IsPendingOf(q.id, t.id.card) /\ q.id.index = t.id.index /\ q.dataset = t.dataset
SplitSays(files, before, s) ==
  /\ Found(files, before, "cards", s.id.card) /\ Optional(files, before, "datasets", s.id.dataset)
  /\ s.id.card # 0 => Scaffolded(files, before, s.id.card)
ResultSays(files, before, r) ==
  /\ r.id = [window |-> r.id.window, context |-> r.id.context]
  /\ Found(files, before, "runs", r.id) /\ ForTrial(files, r.id.context, r.at)
WalkSays(files, before, w) ==
  /\ w.id = [window |-> w.id.window, context |-> w.id.context, linked |-> w.id.linked]
  /\ Optional(files, before, "results", w.id.linked) /\ ForTrial(files, w.id.context, w.at)
  /\ w.id.context # None => Has(files, "results", [window |-> w.id.window, context |-> w.id.context])

\* What a gate was asked about is on file, and will be found again as it was.
Asked(files, e) ==
  /\ Has(files, "cards", e.card)
  /\ \/ e.trial = None
     \/ /\ Has(files, "trials", e.trial) /\ Has(files, "splits", e.split)
        /\ Has(files, "baselines", e.baseline) /\ e.cost = "default"
        /\ e.bt = e.trial.bt /\ e.wf = e.trial.wf
\* It passes the gate: Rankable, of the rows rather than of where they are found.
Passes(files, e) ==
  /\ \E t \in files["trials"] : t.id = e.trial /\ t.dataset = e.split.dataset
  /\ Has(files, "splits", e.split) /\ Has(files, "costs", e.cost)
  /\ \E b \in files["baselines"] : b.id = e.baseline /\ b.positive
  /\ \E r \in files["results"] : r.id = e.bt /\ r.beats
  /\ \E w \in files["walks"] : w.id = e.wf /\ w.beats
  /\ e.trial.card = e.card /\ e.trial.status = "PASSED" /\ e.split.card = e.card
  /\ e.trial.bt = e.bt /\ e.trial.wf = e.wf /\ e.wf.linked = e.bt
GateSays(files, g) == Asked(files, g.id) /\ (g.rankable <=> Passes(files, g.id))

OutcomeSays(files, before, o) ==
  o.card = o.id.entry.card /\ Has(files, "cards", o.card) /\ Found(files, before, "entries", o.id.entry)
AgendaSays(files, before, a) ==
  /\ a.id.cards # {}
  /\ \A id \in a.id.cards : Found(files, before, "cards", id)
  /\ a.id.basis = "lineage" => \E c \in files["cards"] : c.id \in a.id.cards /\ c.parent = None

\* What stands behind an outcome that is offered for promotion after a retest.
Tested(files, id) ==
  LET e == id.entry IN
  /\ \E v \in files["evaluations"] : v.id = e /\ v.rankable
  /\ id.outcome.entry = e /\ e.card = id.card
  /\ e.trial.card = e.card /\ e.trial.status = "PASSED"
  /\ e.split.card = e.card /\ e.split.window = e.bt.window /\ e.split.window = e.wf.window
  /\ e.trial.bt = e.bt /\ e.trial.wf = e.wf /\ e.wf.linked = e.bt
  /\ \E t \in files["trials"] :
       /\ t.id.card = e.card /\ t.id.status = "PENDING" /\ t.id.index = e.trial.index
       /\ e.bt.context = t.id /\ e.wf.context = t.id
       /\ \E r \in files["results"] : r.id = e.bt /\ r.at >= t.started
       /\ \E w \in files["walks"] : w.id = e.wf /\ w.at >= t.started
AutopilotSays(files, before, r) ==
  /\ Has(files, "cards", r.id.card) /\ Has(files, "entries", r.id.entry)
  /\ Optional(files, before, "agendas", r.id.agenda) /\ Optional(files, before, "outcomes", r.id.outcome)
  /\ r.retest /\ r.id.status = "READY_FOR_OPERATOR_REVIEW" => Tested(files, r.id)

Says(files, before, f, r) ==
  /\ f = "cards" => CardSays(files, before, r)
  /\ f = "trials" => TrialSays(files, before, r)
  /\ f = "splits" => SplitSays(files, before, r)
  /\ f = "costs" => r.id = "default"
  /\ f = "baselines" => r.id = r.at
  /\ f = "results" => ResultSays(files, before, r)
  /\ f = "walks" => WalkSays(files, before, r)
  /\ f = "evaluations" => GateSays(files, r)
  /\ f = "entries" => GateSays(files, r) /\ Found(files, before, "evaluations", r.id)
  /\ f = "outcomes" => OutcomeSays(files, before, r)
  /\ f = "agendas" => AgendaSays(files, before, r)
  /\ f = "autopilots" => AutopilotSays(files, before, r)

\* Two rows of a file agree: one draft for an outcome, one PENDING trial for a card,
\* and no trial of a chain starts before it.
Agree(f, q, r) ==
  /\ q.id = r.id => q = r
  /\ f = "cards" /\ "registered" \notin {q.basis, r.basis} =>
       (q.source = r.source /\ q.basis = r.basis /\ q.archetype = r.archetype => q = r)
  /\ f = "trials" /\ q.id.status = "PENDING" /\ r.id.retest
       /\ q.id.card = r.id.card /\ q.id.index = r.id.index => q.started <= r.started
  /\ f = "trials" /\ q.id.status = "PENDING" /\ r.id.status = "PENDING" /\ q.id.card = r.id.card => q = r

FilesOK ==
  /\ DOMAIN store = Files
  /\ \A f \in Files : IsFiniteSet(store[f])
  /\ \A f \in Files : \A r \in store[f] : r.at \in Nat /\ r.at <= now
  /\ \A f \in Files \ {"outcomes"} : \A r \in store[f] : r.at < now
ClockOK == now \in Nat \ {0, 1} /\ byHand \in Nat /\ crashes \in Nat
RowsOK ==
  /\ \A f \in Files : \A r \in store[f] : Says(store, {}, f, r)
  /\ \A f \in Files : \A q, r \in store[f] : Agree(f, q, r)
  /\ \E c \in store.cards : TRUE
Inv == FilesOK /\ ClockOK /\ RowsOK

\* A revision has one agenda at most.
AnswerInv == \A a, b \in OfBasis("revision") : a.id.cards = b.id.cards => a = b

-----------------------------------------------------------------------------
(* Appending a sequence of writes.                                         *)

LEMMA MaxFacts ==
  ASSUME NEW S \in SUBSET Int, IsFiniteSet(S), S # {}
  PROVE  Max(S) \in S /\ \A x \in S : x <= Max(S)
<1>1. \E x \in S : \A y \in S : x >= y
  BY Greatest
<1>2. Max(S) \in S /\ \A y \in S : Max(S) >= y
  BY <1>1 DEF Max
<1> QED BY <1>2

\* The writes are a sequence of pairs of a file and a row.
IsWrites(writes) ==
  /\ \E n \in Nat : DOMAIN writes = 1..n
  /\ \A i \in DOMAIN writes : writes[i][1] \in Files

FoldStep(files, writes, g, T) ==
  IF T = {} THEN files ELSE AppendRow(g[T \ {Max(T)}], writes[Max(T)])
Folds(files, writes, T, g) == g = [U \in SUBSET T |-> FoldStep(files, writes, g, U)]

LEMMA PartFacts ==
  ASSUME NEW writes, IsWrites(writes), NEW T \in SUBSET DOMAIN writes, T # {}
  PROVE  /\ IsFiniteSet(T)
         /\ Max(T) \in T
         /\ \A U \in SUBSET T : Max(T) \in U => Max(U) = Max(T)
<1>1. T \subseteq Int /\ IsFiniteSet(T)
  BY FS_Interval, FS_Subset DEF IsWrites
<1>2. Max(T) \in T /\ \A x \in T : x <= Max(T)
  BY <1>1, MaxFacts
<1>3. ASSUME NEW U \in SUBSET T, Max(T) \in U PROVE Max(U) = Max(T)
  <2>1. U \in SUBSET Int /\ IsFiniteSet(U) /\ U # {}
    BY <1>1, <1>3, FS_Subset
  <2>2. Max(U) \in U /\ \A x \in U : x <= Max(U)
    BY <2>1, MaxFacts
  <2>3. Max(U) \in Int /\ Max(T) \in Int /\ Max(U) <= Max(T) /\ Max(T) <= Max(U)
    BY <1>1, <1>2, <1>3, <2>2
  <2> QED BY <2>3
<1> QED BY <1>1, <1>2, <1>3

\* The recursion by which a command's writes are appended has a solution.
LEMMA FoldExists ==
  ASSUME NEW files, NEW writes, IsWrites(writes)
  PROVE  \E g : Folds(files, writes, DOMAIN writes, g)
<1> DEFINE S == DOMAIN writes
           Bad == {T \in SUBSET S : ~\E g : Folds(files, writes, T, g)}
<1>1. ASSUME NEW T \in Bad, \A U \in Bad : ~(U \subseteq T /\ U # T) PROVE FALSE
  <2>0. T \in SUBSET S /\ ~\E g : Folds(files, writes, T, g)
    BY <1>1
  <2>1. CASE T = {}
    <3> DEFINE g == [U \in SUBSET T |-> files]
    <3>1. Folds(files, writes, T, g)
      BY <2>1 DEF Folds, FoldStep
    <3> QED BY <2>0, <3>1
  <2>2. CASE T # {}
    <3> DEFINE x == Max(T)
    <3>1. x \in T /\ \A U \in SUBSET T : x \in U => Max(U) = x
      BY <2>0, <2>2, PartFacts
    <3> HIDE DEF x
    <3>3. PICK h : Folds(files, writes, T \ {x}, h)
      <4>1. T \ {x} \in SUBSET S /\ T \ {x} \subseteq T /\ T \ {x} # T
        BY <2>0, <3>1
      <4>2. T \ {x} \notin Bad
        BY <1>1, <4>1
      <4> QED BY <4>1, <4>2
    <3> DEFINE g == [U \in SUBSET T |-> IF x \in U THEN AppendRow(h[U \ {x}], writes[x]) ELSE h[U]]
    <3>4. ASSUME NEW U \in SUBSET T PROVE g[U] = FoldStep(files, writes, g, U)
      <4>1. CASE x \in U
        <5>1. U \ {x} \in SUBSET T /\ g[U \ {x}] = h[U \ {x}]
          OBVIOUS
        <5> QED BY <3>1, <4>1, <5>1 DEF FoldStep
      <4>2. CASE x \notin U
        <5>1. U \in SUBSET (T \ {x}) /\ g[U] = h[U]
          BY <4>2
        <5>2. h[U] = FoldStep(files, writes, h, U)
          BY <3>3, <5>1 DEF Folds
        <5>3. CASE U = {}
          BY <5>1, <5>2, <5>3 DEF FoldStep
        <5>4. CASE U # {}
          <6> DEFINE y == Max(U)
          <6>1. U \ {y} \in SUBSET T /\ x \notin U \ {y}
            BY <4>2
          <6> HIDE DEF y
          <6>2. g[U \ {y}] = h[U \ {y}]
            BY <6>1
          <6> QED BY <5>1, <5>2, <5>4, <6>2 DEF FoldStep, y
        <5> QED BY <5>3, <5>4
      <4> QED BY <4>1, <4>2
    <3>5. Folds(files, writes, T, g)
      BY <3>4 DEF Folds
    <3> QED BY <2>0, <3>5
  <2> QED BY <2>1, <2>2
<1>2. Bad \in SUBSET (SUBSET S)
  OBVIOUS
<1>3. IsFiniteSet(S)
  BY FS_Interval DEF IsWrites
<1>4. Bad = {}
  <2> HIDE DEF Bad
  <2> QED BY <1>1, <1>2, <1>3, SmallestSubset
<1>5. S \in SUBSET S /\ S \notin Bad
  BY <1>4
<1> QED BY <1>5

LEMMA FoldIs ==
  ASSUME NEW files, NEW writes, IsWrites(writes)
  PROVE  \E g : /\ Folds(files, writes, DOMAIN writes, g)
               /\ FoldLeft(AppendRow, files, writes) = g[DOMAIN writes]
<1> DEFINE g == CHOOSE g : Folds(files, writes, DOMAIN writes, g)
<1>1. Folds(files, writes, DOMAIN writes, g)
  BY FoldExists
<1>2. FoldLeft(AppendRow, files, writes) = g[DOMAIN writes]
  BY DEF FoldLeft, MapThenFoldSet, Folds, FoldStep
<1> QED BY <1>1, <1>2

UniqueIds(rows) == \A q, r \in rows : q.id = r.id => q = r

\* The files after the writes of T: what was there, and of the writes the rows
\* whose ids were not.
Appended(files, writes, T, g) ==
  /\ DOMAIN g = Files
  /\ \A f \in Files : files[f] \subseteq g[f]
  /\ \A f \in Files : \A r \in g[f] \ files[f] : \E i \in T : writes[i][1] = f /\ writes[i][2] = r
  /\ \A i \in T : Has(g, writes[i][1], writes[i][2].id)
  /\ \A f \in Files : IsFiniteSet(files[f]) => IsFiniteSet(g[f])
  /\ \A f \in Files : UniqueIds(files[f]) => UniqueIds(g[f])

LEMMA AppendOne ==
  ASSUME NEW files, NEW writes, IsWrites(writes), NEW T \in SUBSET DOMAIN writes, NEW x \in T,
         NEW h, Appended(files, writes, T \ {x}, h)
  PROVE  Appended(files, writes, T, AppendRow(h, writes[x]))
<1> DEFINE f == writes[x][1]
           row == writes[x][2]
           new == AppendRow(h, writes[x])
<1>1. f \in Files
  BY DEF IsWrites
<1>2. new = [h EXCEPT ![f] = IF Has(h, f, row.id) THEN h[f] ELSE h[f] \cup {row}]
  BY DEF AppendRow, Has
<1> HIDE DEF new, row, f
<1>3. DOMAIN h = Files
  BY DEF Appended
<1>4. /\ DOMAIN new = Files
      /\ \A e \in Files : e # f => new[e] = h[e]
      /\ Has(h, f, row.id) => new[f] = h[f]
      /\ ~Has(h, f, row.id) => new[f] = h[f] \cup {row}
  BY <1>1, <1>2, <1>3
<1>5. \A e \in Files : h[e] \subseteq new[e]
  BY <1>4
<1>6. \A e \in Files : files[e] \subseteq new[e]
  BY <1>5 DEF Appended
<1>7. ASSUME NEW e \in Files, NEW r \in new[e] \ files[e]
      PROVE  \E i \in T : writes[i][1] = e /\ writes[i][2] = r
  <2>1. CASE r \in h[e]
    BY <2>1, <1>7 DEF Appended
  <2>2. CASE r \notin h[e]
    <3>1. e = f /\ r = row
      BY <1>4, <1>7, <2>2
    <3> QED BY <3>1 DEF f, row
  <2> QED BY <2>1, <2>2
<1>8. ASSUME NEW i \in T PROVE Has(new, writes[i][1], writes[i][2].id)
  <2>1. CASE i = x
    BY <1>1, <1>4, <2>1 DEF Has, f, row
  <2>2. CASE i # x
    <3>1. Has(h, writes[i][1], writes[i][2].id) /\ writes[i][1] \in Files
      BY <2>2 DEF Appended, IsWrites
    <3> QED BY <1>5, <3>1 DEF Has
  <2> QED BY <2>1, <2>2
<1>9. ASSUME NEW e \in Files, IsFiniteSet(files[e]) PROVE IsFiniteSet(new[e])
  <2>1. IsFiniteSet(h[e])
    BY <1>9 DEF Appended
  <2>2. new[e] = h[e] \/ new[e] = h[e] \cup {row}
    BY <1>4
  <2> QED BY <2>1, <2>2, FS_AddElement
<1>10. ASSUME NEW e \in Files, UniqueIds(files[e]) PROVE UniqueIds(new[e])
  <2>1. UniqueIds(h[e])
    BY <1>10 DEF Appended
  <2>2. new[e] = h[e] \/ (e = f /\ ~Has(h, f, row.id) /\ new[e] = h[e] \cup {row})
    BY <1>4
  <2> QED BY <2>1, <2>2 DEF UniqueIds, Has
<1>11. Appended(files, writes, T, new)
  BY <1>4, <1>6, <1>7, <1>8, <1>9, <1>10 DEF Appended
<1> QED BY <1>11 DEF new

LEMMA AppendAll ==
  ASSUME NEW files, DOMAIN files = Files, NEW writes, IsWrites(writes)
  PROVE  Appended(files, writes, DOMAIN writes, FoldLeft(AppendRow, files, writes))
<1> DEFINE S == DOMAIN writes
<1>1. PICK g : Folds(files, writes, S, g) /\ FoldLeft(AppendRow, files, writes) = g[S]
  BY FoldIs
<1> DEFINE Bad == {T \in SUBSET S : ~Appended(files, writes, T, g[T])}
<1>2. ASSUME NEW T \in Bad, \A U \in Bad : ~(U \subseteq T /\ U # T) PROVE FALSE
  <2>0. T \in SUBSET S /\ ~Appended(files, writes, T, g[T])
    BY <1>2
  <2>1. g[T] = FoldStep(files, writes, g, T)
    BY <1>1, <2>0 DEF Folds
  <2>2. CASE T = {}
    BY <2>0, <2>1, <2>2 DEF FoldStep, Appended
  <2>3. CASE T # {}
    <3> DEFINE x == Max(T)
    <3>1. x \in T
      BY <2>0, <2>3, PartFacts
    <3>2. g[T] = AppendRow(g[T \ {x}], writes[x])
      BY <2>1, <2>3 DEF FoldStep
    <3> HIDE DEF x
    <3>3. T \ {x} \in SUBSET S /\ T \ {x} \subseteq T /\ T \ {x} # T
      BY <2>0, <3>1
    <3>4. Appended(files, writes, T \ {x}, g[T \ {x}])
      BY <1>2, <3>3
    <3> HIDE DEF Bad
    <3> QED BY <2>0, <3>1, <3>2, <3>4, AppendOne
  <2> QED BY <2>2, <2>3
<1>3. Bad \in SUBSET (SUBSET S)
  OBVIOUS
<1>4. IsFiniteSet(S)
  BY FS_Interval DEF IsWrites
<1>5. Bad = {}
  <2> HIDE DEF Bad
  <2> QED BY <1>2, <1>3, <1>4, SmallestSubset
<1>6. S \in SUBSET S /\ S \notin Bad
  BY <1>5
<1> QED BY <1>1, <1>6

-----------------------------------------------------------------------------
(* What is allowed when it is appended stays true.                         *)

Before(writes, i) == {writes[j] : j \in {k \in DOMAIN writes : k < i}}
Allowed(files, before, f, r) ==
  /\ r.at = now
  /\ Says(files, before, f, r)
  /\ \A q \in files[f] : q.id # r.id => Agree(f, q, r) /\ Agree(f, r, q)
Legal(writes) ==
  /\ IsWrites(writes)
  /\ \A i \in DOMAIN writes : Allowed(store, Before(writes, i), writes[i][1], writes[i][2])
  /\ \A i, j \in DOMAIN writes :
       writes[i][1] = writes[j][1] /\ writes[i][1] \in {"cards", "trials"} => i = j

\* Files that grew: nothing is gone, and no id is None or that of two rows.
Grown(files, new) ==
  /\ \A f \in Files : files[f] \subseteq new[f] /\ UniqueIds(new[f])
  /\ \A t \in files["trials"] : TrialSays(files, {}, t)
  /\ \A f \in {"trials", "results", "walks"} : \A r \in new[f] : r.id # None

LEMMA FoundGrows ==
  ASSUME NEW files, NEW new, NEW before, Grown(files, new),
         \A w \in before : Has(new, w[1], w[2].id),
         NEW f \in Files, NEW id
  PROVE  /\ Has(files, f, id) => Has(new, f, id)
         /\ Found(files, before, f, id) => Found(new, {}, f, id)
         /\ Optional(files, before, f, id) => Optional(new, {}, f, id)
BY DEF Grown, Has, Found, Optional

\* A gate that was answered would be answered the same at any later time.
LEMMA PassesGrows ==
  ASSUME NEW files, NEW new, Grown(files, new), NEW e, Asked(files, e)
  PROVE  Passes(new, e) <=> Passes(files, e)
<1>files. /\ {"trials", "splits", "costs", "baselines", "results", "walks"} \subseteq Files
          /\ \A f \in Files : files[f] \subseteq new[f] /\ UniqueIds(new[f])
  BY DEF Files, Grown
<1>grow. ASSUME NEW f \in Files, NEW id, Has(files, f, id), NEW r \in new[f], r.id = id
         PROVE  r \in files[f]
  <2>1. PICK q \in files[f] : q.id = id
    BY <1>grow DEF Has
  <2>2. q \in new[f] /\ q = r
    BY <1>grow, <1>files, <2>1 DEF UniqueIds
  <2> QED BY <2>1, <2>2
<1>1. Passes(files, e) => Passes(new, e)
  BY <1>files DEF Passes, Has
<1>2. ASSUME Passes(new, e) PROVE Passes(files, e)
  <2>1. PICK t \in new["trials"] : t.id = e.trial /\ t.dataset = e.split.dataset
    BY <1>2 DEF Passes
  <2>2. PICK b \in new["baselines"] : b.id = e.baseline /\ b.positive
    BY <1>2 DEF Passes
  <2>3. PICK r \in new["results"] : r.id = e.bt /\ r.beats
    BY <1>2 DEF Passes
  <2>4. PICK w \in new["walks"] : w.id = e.wf /\ w.beats
    BY <1>2 DEF Passes
  <2>5. t.id # None /\ r.id # None /\ w.id # None
    BY DEF Grown
  <2>6. /\ Has(files, "trials", e.trial) /\ Has(files, "splits", e.split)
        /\ Has(files, "baselines", e.baseline) /\ e.cost = "default"
        /\ e.bt = e.trial.bt /\ e.wf = e.trial.wf
    BY <2>1, <2>5 DEF Asked
  <2>7. t \in files["trials"]
    BY <1>files, <1>grow, <2>1, <2>6
  <2>8. TrialSays(files, {}, t)
    BY <2>7 DEF Grown
  <2>9. Has(files, "results", e.bt) /\ Has(files, "walks", e.wf) /\ Has(files, "costs", "default")
    BY <2>1, <2>3, <2>4, <2>5, <2>6, <2>8 DEF TrialSays, Optional, Found
  <2>10. b \in files["baselines"] /\ r \in files["results"] /\ w \in files["walks"]
    BY <1>files, <1>grow, <2>2, <2>3, <2>4, <2>6, <2>9
  <2> QED BY <1>2, <2>1, <2>2, <2>3, <2>4, <2>6, <2>7, <2>9, <2>10 DEF Passes
<1> QED BY <1>1, <1>2

LEMMA SaysGrows ==
  ASSUME NEW files, NEW new, NEW before, Grown(files, new),
         \A w \in before : Has(new, w[1], w[2].id),
         NEW f \in Files, NEW r, Says(files, before, f, r)
  PROVE  Says(new, {}, f, r)
<1>1. /\ \A e \in Files : \A id : Has(files, e, id) => Has(new, e, id)
      /\ \A e \in Files : \A id : Found(files, before, e, id) => Found(new, {}, e, id)
      /\ \A e \in Files : \A id : Optional(files, before, e, id) => Optional(new, {}, e, id)
  BY FoundGrows
<1>2. \A e \in Files : files[e] \subseteq new[e]
  BY DEF Grown
<1>3. \A context, at : ForTrial(files, context, at) => ForTrial(new, context, at)
  BY <1>2 DEF ForTrial, Files
<1>scaffolded. ASSUME NEW card, Scaffolded(files, before, card) PROVE Scaffolded(new, {}, card)
  <2>1. "trials" \in Files
    BY DEF Files
  <2>2. \A w \in before : w[1] = "trials" => \E t \in new["trials"] : t.id = w[2].id
    BY DEF Has
  <2> QED BY <1>2, <1>scaffolded, <2>1, <2>2 DEF Scaffolded
<1>4. f = "cards" => CardSays(new, {}, r)
  BY <1>1, <1>2 DEF Says, CardSays, Files
<1>5. f = "trials" => TrialSays(new, {}, r)
  BY <1>1, <1>2 DEF Says, TrialSays, Files
<1>6. f = "splits" => SplitSays(new, {}, r)
  BY <1>1, <1>scaffolded DEF Says, SplitSays, Files
<1>7. f = "results" => ResultSays(new, {}, r)
  BY <1>1, <1>3 DEF Says, ResultSays, Files
<1>8. f = "walks" => WalkSays(new, {}, r)
  BY <1>1, <1>3 DEF Says, WalkSays, Files
<1>9. GateSays(files, r) => GateSays(new, r)
  <2>1. Asked(files, r.id) => Asked(new, r.id)
    BY <1>1 DEF Asked, Files
  <2> QED BY <2>1, PassesGrows DEF GateSays
<1>10. f = "outcomes" => OutcomeSays(new, {}, r)
  BY <1>1 DEF Says, OutcomeSays, Files
<1>11. f = "agendas" => AgendaSays(new, {}, r)
  BY <1>1, <1>2 DEF Says, AgendaSays, Files
<1>12. f = "autopilots" => AutopilotSays(new, {}, r)
  <2>1. Tested(files, r.id) => Tested(new, r.id)
    BY <1>2 DEF Tested, Files
  <2> QED BY <1>1, <2>1 DEF Says, AutopilotSays, Files
<1>13. f = "entries" => Found(new, {}, "evaluations", r.id)
  BY <1>1 DEF Says, Files
<1>14. (f = "costs" => r.id = "default") /\ (f = "baselines" => r.id = r.at)
  BY DEF Says
<1> QED
  BY <1>4, <1>5, <1>6, <1>7, <1>8, <1>9, <1>10, <1>11, <1>12, <1>13, <1>14 DEF Says

\* A decide that comes inside a command adds one baseline to what the command leaves.
LEMMA LeavesFacts ==
  ASSUME Inv, NEW files, DOMAIN files = Files, Leaves(files)
  PROVE  /\ now' \in Nat /\ now' > now /\ DOMAIN store' = Files
         /\ \A f \in Files : files[f] \subseteq store'[f]
         /\ \A f \in Files \ {"baselines"} : store'[f] = files[f]
         /\ \/ store' = files
            \/ \E b : /\ b.id = now + 1 /\ b.at = now + 1 /\ now' = now + 2
                     /\ store'["baselines"] = files["baselines"] \cup {b}
<1>1. now \in Nat /\ "baselines" \in Files
  BY DEF Inv, ClockOK, Files
<1>2. CASE store' = files /\ now' = now + 1
  BY <1>1, <1>2
<1>3. CASE Decides(files, now + 1) /\ now' = now + 2
  <2>1. PICK positive \in Edges :
          store' = [files EXCEPT !.baselines = @ \cup {Baseline(positive, now + 1)}]
    BY <1>3 DEF Decides
  <2> DEFINE b == Baseline(positive, now + 1)
  <2>2. b.id = now + 1 /\ b.at = now + 1
    BY DEF Baseline
  <2> HIDE DEF b
  <2>3. store' = [files EXCEPT !["baselines"] = files["baselines"] \cup {b}]
    BY <2>1 DEF b
  <2> QED BY <1>1, <1>3, <2>2, <2>3
<1> QED BY <1>2, <1>3 DEF Leaves

LEMMA AppendKeeps ==
  ASSUME NoneIsApart, Inv, NEW writes, Legal(writes),
         Leaves(FoldLeft(AppendRow, store, writes)), byHand' \in Nat, crashes' \in Nat
  PROVE  Inv'
<1> DEFINE files == FoldLeft(AppendRow, store, writes)
           Decided(r) == r.id = now + 1 /\ r.at = now + 1 /\ now' = now + 2
<1>files. /\ DOMAIN store = Files
          /\ {"cards", "trials", "results", "walks", "baselines", "outcomes"} \subseteq Files
  BY DEF Inv, FilesOK, Files
<1>now. now \in Nat \ {0, 1}
  BY DEF Inv, ClockOK
<1>0. Appended(store, writes, DOMAIN writes, files)
  BY <1>files, AppendAll DEF Legal
<1>leaves. /\ now' \in Nat /\ now' > now /\ DOMAIN store' = Files
           /\ \A f \in Files : files[f] \subseteq store'[f]
           /\ \A f \in Files \ {"baselines"} : store'[f] = files[f]
           /\ \/ store' = files
              \/ \E b : Decided(b) /\ store'["baselines"] = files["baselines"] \cup {b}
  BY <1>0, LeavesFacts DEF Appended
<1>1. /\ DOMAIN files = Files
      /\ \A f \in Files : store[f] \subseteq files[f]
      /\ \A f \in Files : \A r \in files[f] \ store[f] :
           \E i \in DOMAIN writes : writes[i][1] = f /\ writes[i][2] = r
      /\ \A i \in DOMAIN writes : Has(files, writes[i][1], writes[i][2].id)
      /\ \A f \in Files : IsFiniteSet(store[f]) => IsFiniteSet(files[f])
      /\ \A f \in Files : UniqueIds(store[f]) => UniqueIds(files[f])
  BY <1>0 DEF Appended
<1>added. ASSUME NEW f \in Files, NEW r \in files[f], r \notin store[f]
          PROVE  \E i \in DOMAIN writes :
                   writes[i][1] = f /\ writes[i][2] = r /\ Allowed(store, Before(writes, i), f, r)
  <2>1. PICK i \in DOMAIN writes : writes[i][1] = f /\ writes[i][2] = r
    BY <1>1, <1>added
  <2> QED BY <2>1 DEF Legal
<1>older. \A r \in files["baselines"] : r.id \in Nat /\ r.id <= now
  <2> SUFFICES ASSUME NEW r \in files["baselines"] PROVE r.id \in Nat /\ r.id <= now
    OBVIOUS
  <2>1. CASE r \in store["baselines"]
    BY <1>files, <2>1 DEF Inv, FilesOK, RowsOK, Says
  <2>2. CASE r \notin store["baselines"]
    BY <1>files, <1>added, <1>now, <2>2 DEF Allowed, Says
  <2> QED BY <2>1, <2>2
<1> HIDE DEF files
<1>2. /\ DOMAIN store' = Files
      /\ \A f \in Files : store[f] \subseteq store'[f]
      /\ \A i \in DOMAIN writes : Has(store', writes[i][1], writes[i][2].id)
      /\ \A f \in Files : IsFiniteSet(store[f]) => IsFiniteSet(store'[f])
      /\ \A f \in Files : UniqueIds(store[f]) => UniqueIds(store'[f])
  <2>1. \A i \in DOMAIN writes : Has(store', writes[i][1], writes[i][2].id)
    BY <1>1, <1>leaves DEF Has, Legal, IsWrites
  <2>2. ASSUME NEW f \in Files, IsFiniteSet(store[f]) PROVE IsFiniteSet(store'[f])
    <3>1. IsFiniteSet(files[f])
      BY <1>1, <2>2
    <3>2. store'[f] = files[f] \/ \E b : store'[f] = files[f] \cup {b}
      BY <1>leaves
    <3> QED BY <3>1, <3>2, FS_AddElement
  <2>3. ASSUME NEW f \in Files, UniqueIds(store[f]) PROVE UniqueIds(store'[f])
    <3>1. UniqueIds(files[f])
      BY <1>1, <2>3
    <3>2. CASE store'[f] = files[f]
      BY <3>1, <3>2
    <3>3. CASE f = "baselines" /\ \E b : b.id = now + 1 /\ store'[f] = files[f] \cup {b}
      BY <1>now, <1>older, <3>1, <3>3 DEF UniqueIds
    <3> QED BY <1>leaves, <3>2, <3>3
  <2> QED BY <1>1, <1>leaves, <2>1, <2>2, <2>3
<1>unique. \A f \in Files : UniqueIds(store[f]) /\ UniqueIds(store'[f])
  <2>1. \A f \in Files : UniqueIds(store[f])
    BY DEF Inv, RowsOK, Agree, UniqueIds
  <2> QED BY <1>2, <2>1
<1>new. ASSUME NEW f \in Files, NEW r \in store'[f], r \notin store[f]
        PROVE  \/ f = "baselines" /\ Decided(r)
               \/ \E i \in DOMAIN writes :
                    writes[i][1] = f /\ writes[i][2] = r /\ Allowed(store, Before(writes, i), f, r)
  <2>1. r \in files[f] \/ (f = "baselines" /\ Decided(r))
    BY <1>new, <1>leaves
  <2> QED BY <1>new, <1>added, <2>1
<1> HIDE DEF Decided
<1>3. ASSUME NEW f \in Files, NEW r \in store'[f]
      PROVE  r \in store[f] \/ (r.at \in Nat /\ r.at < now')
  BY <1>new, <1>now, <1>leaves DEF Allowed, Decided
<1>grown. Grown(store, store')
  <2>1. \A t \in store["trials"] : TrialSays(store, {}, t)
    BY <1>files DEF Inv, RowsOK, Says
  <2>2. ASSUME NEW f \in {"trials", "results", "walks"}, NEW r \in store'[f] PROVE r.id # None
    <3>1. f \in Files
      BY <1>files
    <3>2. \E before : Says(store, before, f, r)
      <4>1. CASE r \in store[f]
        BY <3>1, <4>1 DEF Inv, RowsOK
      <4>2. CASE r \notin store[f]
        BY <3>1, <4>2, <1>new DEF Allowed
      <4> QED BY <4>1, <4>2
    <3>3. PICK before : Says(store, before, f, r)
      BY <3>2
    <3> QED BY <3>3 DEF Says, TrialSays, ResultSays, WalkSays, NoneIsApart
  <2> QED BY <1>2, <1>unique, <2>1, <2>2 DEF Grown
<1>says. ASSUME NEW f \in Files, NEW r \in store'[f] PROVE Says(store', {}, f, r)
  <2>1. CASE r \in store[f]
    <3>1. Says(store, {}, f, r)
      BY <2>1 DEF Inv, RowsOK
    <3> QED BY <1>grown, <3>1, SaysGrows
  <2>2. CASE r \notin store[f]
    <3>1. CASE f = "baselines" /\ Decided(r)
      BY <3>1 DEF Decided, Says
    <3>2. CASE \E i \in DOMAIN writes : Allowed(store, Before(writes, i), f, r)
      <4>1. PICK i \in DOMAIN writes : Allowed(store, Before(writes, i), f, r)
        BY <3>2
      <4>2. \A w \in Before(writes, i) : Has(store', w[1], w[2].id)
        BY <1>2 DEF Before
      <4> QED BY <1>grown, <4>1, <4>2, SaysGrows DEF Allowed
    <3> QED BY <1>new, <2>2, <3>1, <3>2
  <2> QED BY <2>1, <2>2
<1>agree. ASSUME NEW f \in Files, NEW q \in store'[f], NEW r \in store'[f] PROVE Agree(f, q, r)
  <2>0. q.id = r.id => q = r
    BY <1>unique DEF UniqueIds
  <2>other. CASE f \notin {"cards", "trials"}
    BY <2>0, <2>other DEF Agree
  <2> SUFFICES ASSUME f \in {"cards", "trials"} PROVE Agree(f, q, r)
    BY <2>other
  <2>1. CASE q \in store[f] /\ r \in store[f]
    BY <2>1 DEF Inv, RowsOK
  <2>2. CASE q \in store[f] /\ r \notin store[f]
    <3>1. q.id # r.id
      BY <2>0, <2>2
    <3> QED BY <1>new, <2>2, <3>1 DEF Allowed
  <2>3. CASE q \notin store[f] /\ r \in store[f]
    <3>1. q.id # r.id
      BY <2>0, <2>3
    <3> QED BY <1>new, <2>3, <3>1 DEF Allowed
  <2>4. CASE q \notin store[f] /\ r \notin store[f]
    <3>1. PICK i \in DOMAIN writes : writes[i][1] = f /\ writes[i][2] = q
      BY <1>new, <2>4
    <3>2. PICK j \in DOMAIN writes : /\ writes[j][1] = f /\ writes[j][2] = r
                                     /\ Says(store, Before(writes, j), f, r)
      BY <1>new, <2>4 DEF Allowed
    <3>3. i = j
      BY <3>1, <3>2 DEF Legal
    <3>4. q = r
      BY <3>1, <3>2, <3>3
    <3>5. f = "trials" => q.started \in Nat
      BY <3>2, <3>4 DEF Says, TrialSays
    <3> QED BY <3>4, <3>5 DEF Agree
  <2> QED BY <2>1, <2>2, <2>3, <2>4
<1>4. FilesOK'
  <2>1. ASSUME NEW f \in Files PROVE IsFiniteSet(store'[f])
    BY <1>2 DEF Inv, FilesOK
  <2>2. ASSUME NEW f \in Files, NEW r \in store'[f]
        PROVE  r.at \in Nat /\ r.at <= now' /\ (f # "outcomes" => r.at < now')
    <3>1. CASE r \in store[f]
      <4>1. r.at \in Nat /\ r.at <= now /\ (f # "outcomes" => r.at < now)
        BY <3>1 DEF Inv, FilesOK
      <4> QED BY <1>now, <1>leaves, <4>1
    <3>2. CASE r \notin store[f]
      <4>1. r.at \in Nat /\ r.at < now'
        BY <1>3, <3>2
      <4> QED BY <1>leaves, <4>1
    <3> QED BY <3>1, <3>2
  <2> QED BY <1>2, <1>files, <2>1, <2>2 DEF FilesOK
<1>5. ClockOK'
  <2>1. now' \in Nat \ {0, 1}
    BY <1>now, <1>leaves
  <2> QED BY <2>1 DEF ClockOK
<1>6. RowsOK'
  <2>1. \E c \in store'["cards"] : TRUE
    BY <1>2, <1>files DEF Inv, RowsOK
  <2> QED BY <1>says, <1>agree, <2>1 DEF RowsOK
<1> QED BY <1>4, <1>5, <1>6 DEF Inv

\* A command that dies early has made a part of its writes.
LEMMA LegalPrefix ==
  ASSUME NEW writes, Legal(writes), NEW k \in 1..Len(writes)
  PROVE  Legal(SubSeq(writes, 1, k))
<1> DEFINE part == SubSeq(writes, 1, k)
<1>1. PICK n \in Nat : DOMAIN writes = 1..n
  BY DEF Legal, IsWrites
<1>2. Len(writes) = n
  BY <1>1
<1>3. DOMAIN part = 1..k /\ k \in 1..n /\ \A i \in 1..k : part[i] = writes[i] /\ i \in 1..n
  BY <1>1, <1>2
<1> HIDE DEF part
<1>4. \A i \in 1..k : Before(part, i) = Before(writes, i)
  <2> SUFFICES ASSUME NEW i \in 1..k PROVE Before(part, i) = Before(writes, i)
    OBVIOUS
  <2>1. {j \in DOMAIN part : j < i} = {j \in DOMAIN writes : j < i}
    BY <1>1, <1>3
  <2>2. \A j \in {m \in DOMAIN part : m < i} : part[j] = writes[j]
    BY <1>3
  <2> QED BY <2>1, <2>2 DEF Before
<1>5. IsWrites(part)
  BY <1>1, <1>3 DEF Legal, IsWrites
<1> QED BY <1>1, <1>3, <1>4, <1>5 DEF Legal, part

\* A command has appended its writes, or the first few of them.
Part(writes, part) == part = writes \/ \E k \in 1..Len(writes) - 1 : part = SubSeq(writes, 1, k)
LEMMA RunIs ==
  ASSUME NEW writes, Legal(writes), Run(writes), crashes \in Nat
  PROVE  \E part : /\ Part(writes, part) /\ Legal(part) /\ Leaves(FoldLeft(AppendRow, store, part))
                   /\ \A i \in DOMAIN part : i \in DOMAIN writes /\ part[i] = writes[i]
                   /\ crashes' \in Nat /\ (crashes' = 0 => part = writes)
<1>1. PICK n \in Nat : DOMAIN writes = 1..n
  BY DEF Legal, IsWrites
<1>2. CASE Leaves(FoldLeft(AppendRow, store, writes)) /\ UNCHANGED crashes
  BY <1>2 DEF Part
<1>3. ASSUME NEW k \in 1..Len(writes) - 1, Leaves(FoldLeft(AppendRow, store, SubSeq(writes, 1, k))),
             crashes' = crashes + 1
      PROVE  /\ Part(writes, SubSeq(writes, 1, k)) /\ Legal(SubSeq(writes, 1, k))
             /\ \A i \in DOMAIN SubSeq(writes, 1, k) :
                  i \in DOMAIN writes /\ SubSeq(writes, 1, k)[i] = writes[i]
  <2>1. Len(writes) = n /\ k \in 1..Len(writes) /\ k \in 1..n
    BY <1>1
  <2>2. Legal(SubSeq(writes, 1, k))
    BY <2>1, LegalPrefix
  <2> QED BY <1>1, <2>1, <2>2 DEF Part
<1>4. CASE \E k \in 1..Len(writes) - 1 :
             Leaves(FoldLeft(AppendRow, store, SubSeq(writes, 1, k))) /\ crashes' = crashes + 1
  <2>1. PICK k \in 1..Len(writes) - 1 :
          Leaves(FoldLeft(AppendRow, store, SubSeq(writes, 1, k))) /\ crashes' = crashes + 1
    BY <1>4
  <2>2. crashes' \in Nat /\ crashes' # 0
    BY <2>1
  <2> QED BY <1>3, <2>1, <2>2
<1> QED BY <1>2, <1>4 DEF Run

LEMMA RunKeeps ==
  ASSUME NoneIsApart, Inv, NEW writes, Legal(writes), Run(writes), byHand' \in Nat
  PROVE  Inv'
<1>1. crashes \in Nat
  BY DEF Inv, ClockOK
<1>2. \E part : Legal(part) /\ Leaves(FoldLeft(AppendRow, store, part)) /\ crashes' \in Nat
  BY <1>1, RunIs, Zenon
<1>3. PICK part : Legal(part) /\ Leaves(FoldLeft(AppendRow, store, part)) /\ crashes' \in Nat
  BY <1>2
<1> QED BY <1>3, AppendKeeps

\* A run, cut short or not, appends rows of its writes, and at most a baseline besides.
LEMMA RunRows ==
  ASSUME Inv, NEW writes, Legal(writes), Run(writes)
  PROVE  /\ \A f \in Files : store[f] \subseteq store'[f]
         /\ \A f \in Files \ {"baselines"} : \A r \in store'[f] \ store[f] :
              \E i \in DOMAIN writes : writes[i][1] = f /\ writes[i][2] = r
<1>1. DOMAIN store = Files /\ crashes \in Nat
  BY DEF Inv, FilesOK, ClockOK
<1>2. PICK part : /\ Legal(part) /\ Leaves(FoldLeft(AppendRow, store, part))
                  /\ \A i \in DOMAIN part : i \in DOMAIN writes /\ part[i] = writes[i]
  BY <1>1, RunIs, Zenon
<1> DEFINE files == FoldLeft(AppendRow, store, part)
<1>3. Appended(store, part, DOMAIN part, files)
  BY <1>1, <1>2, AppendAll DEF Legal
<1> HIDE DEF files
<1>4. /\ DOMAIN files = Files
      /\ \A f \in Files : store[f] \subseteq files[f]
      /\ \A f \in Files : \A r \in files[f] \ store[f] :
           \E i \in DOMAIN part : part[i][1] = f /\ part[i][2] = r
  BY <1>3 DEF Appended
<1>5. /\ \A f \in Files : files[f] \subseteq store'[f]
      /\ \A f \in Files \ {"baselines"} : store'[f] = files[f]
  BY <1>2, <1>4, LeavesFacts DEF files
<1> QED BY <1>2, <1>4, <1>5

\* A file that none of the writes is for is as it was.
LEMMA RunSame ==
  ASSUME Inv, NEW writes, Legal(writes), Run(writes),
         NEW f \in Files \ {"baselines"}, \A i \in DOMAIN writes : writes[i][1] # f
  PROVE  store'[f] = store[f]
BY RunRows

-----------------------------------------------------------------------------
(* What a command reads.                                                   *)

LEMMA RowFacts ==
  ASSUME NEW f, NEW id, OnFile(f, id)
  PROVE  Row(f, id) \in store[f] /\ Row(f, id).id = id
BY DEF OnFile, Row

\* The latest of some rows, or None when there are none.
LEMMA LatestFacts ==
  ASSUME NEW rows, IsFiniteSet(rows), \A r \in rows : r.at \in Nat, NoneIsApart
  PROVE  /\ Latest(rows) = None <=> rows = {}
         /\ Latest(rows) # None => Latest(rows) \in rows /\ \A q \in rows : q.at <= Latest(rows).at
<1>1. CASE rows = {}
  BY <1>1 DEF Latest
<1>2. CASE rows # {}
  <2> DEFINE times == {r.at : r \in rows}
  <2> DEFINE time == [r \in rows |-> r.at]
  <2>1. IsFiniteSet(times) /\ times \in SUBSET Int /\ times # {}
    <3>1. time \in Surjection(rows, times)
      BY DEF Surjection
    <3>2. IsFiniteSet(times)
      BY <3>1, FS_Surjection
    <3> QED BY <1>2, <3>2
  <2>2. PICK t \in times : \A u \in times : t >= u
    BY <2>1, Greatest
  <2>3. \E r \in rows : \A q \in rows : q.at <= r.at
    BY <2>2
  <2>4. Latest(rows) \in rows /\ \A q \in rows : q.at <= Latest(rows).at
    BY <1>2, <2>3 DEF Latest
  <2>5. Latest(rows) # None
    BY <2>4 DEF NoneIsApart
  <2> QED BY <1>2, <2>4, <2>5
<1> QED BY <1>1, <1>2

LEMMA LatestOf ==
  ASSUME Inv, NoneIsApart, NEW f \in Files, NEW rows \in SUBSET store[f]
  PROVE  /\ Latest(rows) = None <=> rows = {}
         /\ Latest(rows) # None =>
              /\ Latest(rows) \in rows /\ Latest(rows) \in store[f] /\ OnFile(f, Latest(rows).id)
              /\ \A q \in rows : q.at <= Latest(rows).at
<1>1. IsFiniteSet(rows) /\ \A r \in rows : r.at \in Nat
  BY FS_Subset DEF Inv, FilesOK
<1>2. /\ Latest(rows) = None <=> rows = {}
      /\ Latest(rows) # None => Latest(rows) \in rows /\ \A q \in rows : q.at <= Latest(rows).at
  BY <1>1, LatestFacts
<1> QED BY <1>2 DEF OnFile

\* How the parts of a plan are found.
PlanIs(c, p) ==
  /\ p.pending = PendingTrial(c) /\ p.passed = PassedTrial(c)
  /\ p.cost = Latest(store.costs) /\ p.baseline = Latest(store.baselines)
  /\ p.dataset = PlannedDataset(p)
  /\ p.split = LatestSplit(c, p.dataset) /\ p.reusable = ReusableSplit(c, p.dataset)
  /\ p.bt = SelectedBacktest(p.passed, p.pending, p.split)
  /\ p.wf = SelectedWalkForward(p.passed, p.pending, p.split, p.bt)
  /\ p.evaluation = LockedEvaluation(p)
  /\ p.entry = LatestEntry(p.evaluation) /\ p.outcome = LatestOutcome(p.entry)

LEMMA PlanParts ==
  ASSUME NEW c
  PROVE  PlanIs(c, Plan(c))
<1>1. PICK trials \in Trials(c) : Trials(c) = {trials}
  BY DEF Trials
<1>2. trials = [pending |-> PendingTrial(c), passed |-> PassedTrial(c), cost |-> Latest(store.costs),
                baseline |-> Latest(store.baselines), dataset |-> None, split |-> None, reusable |-> None,
                bt |-> None, wf |-> None, evaluation |-> None, entry |-> None, outcome |-> None]
  BY DEF Trials
<1> DEFINE dataset == PlannedDataset(trials)
           basis == [trials EXCEPT !.dataset = dataset, !.split = LatestSplit(c, dataset),
                                   !.reusable = ReusableSplit(c, dataset)]
           bt == SelectedBacktest(basis.passed, basis.pending, basis.split)
           tested == [basis EXCEPT !.bt = bt]
           wf == SelectedWalkForward(tested.passed, tested.pending, tested.split, tested.bt)
           evidence == [tested EXCEPT !.wf = wf]
           evaluation == LockedEvaluation(evidence)
           evaluated == [evidence EXCEPT !.evaluation = evaluation]
           entry == LatestEntry(evaluated.evaluation)
           entered == [evaluated EXCEPT !.entry = entry]
           outcome == LatestOutcome(entered.entry)
           plan == [entered EXCEPT !.outcome = outcome]
<1>3. Basis(c) = {basis}
  BY <1>1 DEF Basis
<1>4. Backtested(c) = {tested}
  BY <1>3 DEF Backtested
<1>5. Evidence(c) = {evidence}
  BY <1>4 DEF Evidence
<1>6. Evaluated(c) = {evaluated}
  BY <1>5 DEF Evaluated
<1>7. Entered(c) = {entered}
  BY <1>6 DEF Entered
<1>8. Plans(c) = {plan}
  BY <1>7 DEF Plans
<1>9. Plan(c) = plan
  BY <1>8 DEF Plan
<1> DEFINE Parts == {"pending", "passed", "cost", "baseline", "dataset", "split", "reusable",
                     "bt", "wf", "evaluation", "entry", "outcome"}
<1>10. DOMAIN trials = Parts
  BY <1>2
<1>11. /\ basis = [trials EXCEPT !.dataset = dataset, !.split = LatestSplit(c, dataset),
                               !.reusable = ReusableSplit(c, dataset)]
       /\ tested = [basis EXCEPT !.bt = bt]
       /\ evidence = [tested EXCEPT !.wf = wf]
       /\ evaluated = [evidence EXCEPT !.evaluation = evaluation]
       /\ entered = [evaluated EXCEPT !.entry = entry]
       /\ plan = [entered EXCEPT !.outcome = outcome]
  OBVIOUS
<1>12. /\ dataset = PlannedDataset(trials)
       /\ bt = SelectedBacktest(basis.passed, basis.pending, basis.split)
       /\ wf = SelectedWalkForward(tested.passed, tested.pending, tested.split, tested.bt)
       /\ evaluation = LockedEvaluation(evidence)
       /\ entry = LatestEntry(evaluated.evaluation)
       /\ outcome = LatestOutcome(entered.entry)
  OBVIOUS
<1> HIDE DEF dataset, basis, bt, tested, wf, evidence, evaluation, evaluated, entry, entered, outcome, plan
<1>13. /\ DOMAIN basis = Parts
       /\ \A x \in Parts \ {"dataset", "split", "reusable"} : basis[x] = trials[x]
       /\ basis.dataset = dataset /\ basis.split = LatestSplit(c, dataset)
       /\ basis.reusable = ReusableSplit(c, dataset)
  BY <1>10, <1>11
<1>14. DOMAIN tested = Parts /\ (\A x \in Parts \ {"bt"} : tested[x] = basis[x]) /\ tested.bt = bt
  BY <1>11, <1>13
<1>15. DOMAIN evidence = Parts /\ (\A x \in Parts \ {"wf"} : evidence[x] = tested[x]) /\ evidence.wf = wf
  BY <1>11, <1>14
<1>16. /\ DOMAIN evaluated = Parts /\ (\A x \in Parts \ {"evaluation"} : evaluated[x] = evidence[x])
       /\ evaluated.evaluation = evaluation
  BY <1>11, <1>15
<1>17. /\ DOMAIN entered = Parts /\ (\A x \in Parts \ {"entry"} : entered[x] = evaluated[x])
       /\ entered.entry = entry
  BY <1>11, <1>16
<1>18. (\A x \in Parts \ {"outcome"} : plan[x] = entered[x]) /\ plan.outcome = outcome
  BY <1>11, <1>17
<1>19. /\ plan.pending = trials.pending /\ plan.passed = trials.passed
       /\ plan.cost = trials.cost /\ plan.baseline = trials.baseline
  BY <1>13, <1>14, <1>15, <1>16, <1>17, <1>18
<1>20. plan.dataset = dataset /\ plan.split = LatestSplit(c, dataset) /\ plan.reusable = ReusableSplit(c, dataset)
  BY <1>13, <1>14, <1>15, <1>16, <1>17, <1>18
<1>21. plan.bt = bt /\ plan.wf = wf
  BY <1>14, <1>15, <1>16, <1>17, <1>18
<1>22. plan.evaluation = evaluation /\ plan.entry = entry /\ plan.outcome = outcome
  BY <1>16, <1>17, <1>18
<1>23. dataset = PlannedDataset(plan)
  BY <1>12, <1>19 DEF PlannedDataset
<1>24. bt = SelectedBacktest(plan.passed, plan.pending, plan.split)
  BY <1>12, <1>13, <1>19, <1>20
<1>25. wf = SelectedWalkForward(plan.passed, plan.pending, plan.split, plan.bt)
  BY <1>12, <1>13, <1>14, <1>19, <1>20, <1>21
<1>26. /\ evidence.passed = plan.passed /\ evidence.split = plan.split /\ evidence.cost = plan.cost
       /\ evidence.baseline = plan.baseline /\ evidence.bt = plan.bt /\ evidence.wf = plan.wf
  BY <1>16, <1>17, <1>18
<1>27. evaluation = LockedEvaluation(plan)
  BY <1>12, <1>26 DEF LockedEvaluation, EvaluationId
<1>28. entry = LatestEntry(plan.evaluation) /\ outcome = LatestOutcome(plan.entry)
  BY <1>12, <1>16, <1>17, <1>22
<1> QED BY <1>2, <1>9, <1>19, <1>20, <1>21, <1>22, <1>23, <1>24, <1>25, <1>27, <1>28 DEF PlanIs

\* What the parts of a plan are: rows of their files that belong together, or None.
PlanRows(c, p) ==
  /\ p.pending # None =>
       p.pending \in store["trials"] /\ p.pending.id.card = c.id /\ p.pending.id.status = "PENDING"
  /\ p.passed # None => p.passed \in store["trials"] /\ Valid(c, p.passed) /\ p.dataset = p.passed.dataset
  /\ p.passed # None => p.bt # None /\ p.wf # None
  /\ p.dataset # None => OnFile("datasets", p.dataset)
  /\ p.split # None => /\ p.split \in store["splits"] /\ p.split.id.card = c.id
                       /\ p.split.id.dataset = p.dataset
  /\ p.reusable # None => p.reusable \in store["splits"]
  /\ p.cost # None => p.cost \in store["costs"]
  /\ p.baseline # None => p.baseline \in store["baselines"]
  /\ p.bt # None => p.bt \in store["results"] /\ (p.passed # None => p.bt.id = p.passed.id.bt)
  /\ p.wf # None => p.wf \in store["walks"] /\ (p.passed # None => p.wf.id = p.passed.id.wf)
  /\ p.evaluation # None => /\ p.evaluation \in store["evaluations"] /\ p.evaluation.id = EvaluationId(p)
                            /\ None \notin {p.passed, p.split, p.cost, p.baseline, p.bt, p.wf}
  /\ p.entry # None => p.evaluation # None /\ p.entry \in store["entries"] /\ p.entry.id = p.evaluation.id
  /\ p.outcome # None => p.entry # None /\ p.outcome \in store["outcomes"] /\ p.outcome.id.entry = p.entry.id

LEMMA PlanFacts ==
  ASSUME Inv, NoneIsApart, NEW c
  PROVE  PlanRows(c, Plan(c))
<1> DEFINE p == Plan(c)
<1>is. PlanIs(c, p)
  BY PlanParts
<1> HIDE DEF p
<1>latest. ASSUME NEW f \in Files, NEW rows \in SUBSET store[f], Latest(rows) # None
           PROVE  Latest(rows) \in rows
  BY <1>latest, LatestOf
<1>1. p.pending # None =>
        p.pending \in store["trials"] /\ p.pending.id.card = c.id /\ p.pending.id.status = "PENDING"
  BY <1>is, <1>latest DEF PlanIs, PendingTrial, Files
<1>2. p.passed # None => p.passed \in store["trials"] /\ Valid(c, p.passed)
  BY <1>is, <1>latest DEF PlanIs, PassedTrial, Files
<1>3. p.passed # None => p.dataset = p.passed.dataset
  BY <1>is DEF PlanIs, PlannedDataset
<1>4. p.dataset # None => OnFile("datasets", p.dataset)
  <2>1. \A t \in store["trials"] : t.dataset # None => OnFile("datasets", t.dataset)
    BY DEF Inv, RowsOK, Says, TrialSays, Optional, Found, Has, OnFile, Files
  <2>2. Latest(store.datasets) # None => OnFile("datasets", Latest(store.datasets).id)
    BY LatestOf DEF Files
  <2> QED BY <1>is, <1>1, <1>2, <2>1, <2>2 DEF PlanIs, PlannedDataset
<1>5. p.split # None => p.split \in store["splits"] /\ p.split.id.card = c.id /\ p.split.id.dataset = p.dataset
  BY <1>is, <1>latest DEF PlanIs, LatestSplit, SplitsOf, Files
<1>6. p.reusable # None => p.reusable \in store["splits"]
  BY <1>is, <1>latest DEF PlanIs, ReusableSplit, SplitsOf, Files
<1>7. (p.cost # None => p.cost \in store["costs"]) /\ (p.baseline # None => p.baseline \in store["baselines"])
  BY <1>is, <1>latest DEF PlanIs, Files
<1>row. \A f \in Files : \A r \in store[f] : r # None
  BY DEF Inv, FilesOK, NoneIsApart
<1>8. /\ p.bt # None => p.bt \in store["results"] /\ (p.passed # None => p.bt.id = p.passed.id.bt)
      /\ p.passed # None => p.bt # None
  <2>1. CASE p.passed # None
    <3>1. OnFile("results", p.passed.id.bt) /\ p.bt = Row("results", p.passed.id.bt)
      BY <1>is, <1>2, <2>1 DEF PlanIs, SelectedBacktest, Valid
    <3> QED BY <1>row, <3>1, RowFacts DEF Files
  <2>2. CASE p.passed = None
    BY <1>is, <1>latest, <2>2 DEF PlanIs, SelectedBacktest, Files
  <2> QED BY <2>1, <2>2
<1>9. /\ p.wf # None => p.wf \in store["walks"] /\ (p.passed # None => p.wf.id = p.passed.id.wf)
      /\ p.passed # None => p.wf # None
  <2>1. CASE p.passed # None
    <3>1. OnFile("walks", p.passed.id.wf) /\ p.wf = Row("walks", p.passed.id.wf)
      BY <1>is, <1>2, <2>1 DEF PlanIs, SelectedWalkForward, Valid
    <3> QED BY <1>row, <3>1, RowFacts DEF Files
  <2>2. CASE p.passed = None
    BY <1>is, <1>latest, <2>2 DEF PlanIs, SelectedWalkForward, Files
  <2> QED BY <2>1, <2>2
<1>10. p.evaluation # None => /\ p.evaluation \in store["evaluations"] /\ p.evaluation.id = EvaluationId(p)
                              /\ None \notin {p.passed, p.split, p.cost, p.baseline, p.bt, p.wf}
  BY <1>is, <1>latest DEF PlanIs, LockedEvaluation, Files
<1>11. p.entry # None =>
         p.evaluation # None /\ p.entry \in store["entries"] /\ p.entry.id = p.evaluation.id
  BY <1>is, <1>latest DEF PlanIs, LatestEntry, Files
<1>12. p.outcome # None =>
         p.entry # None /\ p.outcome \in store["outcomes"] /\ p.outcome.id.entry = p.entry.id
  BY <1>is, <1>latest DEF PlanIs, LatestOutcome, Files
<1> QED
  BY <1>1, <1>2, <1>3, <1>4, <1>5, <1>6, <1>7, <1>8, <1>9, <1>10, <1>11, <1>12 DEF PlanRows, p

\* The next task is the first that is not done.
LEMMA NextTaskFacts ==
  ASSUME NEW p, NoneIsApart
  PROVE  /\ \A k \in DOMAIN Tasks :
              NextTask(p) = Tasks[k] => ~Done(p, Tasks[k]) /\ \A j \in 1..k - 1 : Done(p, Tasks[j])
         /\ NextTask(p) = None => \A k \in DOMAIN Tasks : Done(p, Tasks[k])
         /\ NextTask(p) # None => \E k \in DOMAIN Tasks : NextTask(p) = Tasks[k]
<1> DEFINE open == {i \in DOMAIN Tasks : ~Done(p, Tasks[i])}
<1>1. DOMAIN Tasks = 1..8 /\ \A i, j \in 1..8 : Tasks[i] = Tasks[j] => i = j
  BY DEF Tasks
<1>2. CASE open = {}
  BY <1>1, <1>2 DEF NextTask, NoneIsApart, RetestTasks
<1>3. CASE open # {}
  <2>1. \E i \in open : \A j \in open : i <= j
    BY <1>1, <1>3
  <2> DEFINE first == CHOOSE i \in open : \A j \in open : i <= j
  <2>2. first \in open /\ \A j \in open : first <= j
    BY <2>1
  <2>3. NextTask(p) = Tasks[first]
    BY <1>3 DEF NextTask
  <2> HIDE DEF first
  <2>4. Tasks[first] # None
    BY <2>2 DEF NoneIsApart, RetestTasks
  <2>5. ~Done(p, Tasks[first]) /\ \A j \in 1..first - 1 : Done(p, Tasks[j])
    BY <1>1, <2>2
  <2>6. \A k \in DOMAIN Tasks : NextTask(p) = Tasks[k] => k = first
    BY <1>1, <2>2, <2>3
  <2>7. first \in DOMAIN Tasks
    BY <2>2
  <2> QED BY <2>3, <2>4, <2>5, <2>6, <2>7
<1> QED BY <1>2, <1>3

-----------------------------------------------------------------------------
(* Rows that a command may append.                                         *)

LEMMA AllowedSays ==
  ASSUME NEW before, NEW f, f \notin {"cards", "trials"}, NEW r, r.at = now, Says(store, before, f, r)
  PROVE  Allowed(store, before, f, r)
BY DEF Allowed, Agree

LEMMA AllowedPlain ==
  ASSUME NEW before, NEW f \in {"budgets", "datasets", "runs", "automations", "digests"},
         NEW r, r.at = now
  PROVE  Allowed(store, before, f, r)
BY AllowedSays DEF Says

LEMMA AllowedMore ==
  ASSUME NEW before, NEW more, before \subseteq more, NEW f, NEW r, Allowed(store, before, f, r)
  PROVE  Allowed(store, more, f, r)
<1>1. /\ \A e, id : Found(store, before, e, id) => Found(store, more, e, id)
      /\ \A e, id : Optional(store, before, e, id) => Optional(store, more, e, id)
  BY DEF Found, Optional
<1>2. Says(store, more, f, r)
  BY <1>1 DEF Allowed, Says, CardSays, TrialSays, SplitSays, ResultSays, WalkSays, OutcomeSays,
              AgendaSays, AutopilotSays, Scaffolded
<1> QED BY <1>2 DEF Allowed

LEMMA LegalOne ==
  ASSUME NEW f \in Files, NEW r, Allowed(store, {}, f, r)
  PROVE  Legal(<<<<f, r>>>>)
<1> DEFINE writes == <<<<f, r>>>>
<1>1. DOMAIN writes = 1..1 /\ writes[1] = <<f, r>>
  OBVIOUS
<1>2. f = <<f, r>>[1] /\ r = <<f, r>>[2]
  OBVIOUS
<1> HIDE DEF writes
<1>3. IsWrites(writes)
  BY <1>1, <1>2 DEF IsWrites
<1>4. Allowed(store, Before(writes, 1), f, r)
  BY AllowedMore
<1>5. Legal(writes)
  BY <1>1, <1>2, <1>3, <1>4 DEF Legal
<1> QED BY <1>5 DEF writes

\* One more write, which may point at the rows of those before it.
LEMMA LegalMore ==
  ASSUME NEW writes, Legal(writes), NEW f \in Files \ {"cards", "trials"}, NEW r,
         Allowed(store, {writes[i] : i \in DOMAIN writes}, f, r)
  PROVE  Legal(Append(writes, <<f, r>>))
<1> DEFINE S == {writes[i] : i \in DOMAIN writes} \cup {<<f, r>>}
           all == Append(writes, <<f, r>>)
<1>1. PICK n \in Nat : DOMAIN writes = 1..n
  BY DEF Legal, IsWrites
<1>2. Len(writes) = n
  BY <1>1
<1>3. DOMAIN all = 1..n + 1 /\ all[n + 1] = <<f, r>> /\ \A i \in 1..n : all[i] = writes[i]
  BY <1>1, <1>2
<1>4. <<f, r>>[1] = f /\ <<f, r>>[2] = r
  OBVIOUS
<1> HIDE DEF all, S
<1>5. IsWrites(all)
  <2>1. \A i \in 1..n : all[i][1] \in Files
    BY <1>1, <1>3 DEF Legal, IsWrites
  <2>2. \A i \in 1..n + 1 : i \in 1..n \/ i = n + 1
    OBVIOUS
  <2>3. \A i \in 1..n + 1 : all[i][1] \in Files
    BY <1>3, <1>4, <2>1, <2>2
  <2> QED BY <1>3, <2>3 DEF IsWrites
<1>6. ASSUME NEW i \in DOMAIN all PROVE Allowed(store, Before(all, i), all[i][1], all[i][2])
  <2>1. CASE i \in 1..n
    <3>1. Before(writes, i) \subseteq Before(all, i)
      BY <1>1, <1>3 DEF Before
    <3>2. Allowed(store, Before(writes, i), all[i][1], all[i][2])
      BY <1>1, <1>3, <2>1 DEF Legal
    <3> QED BY <3>1, <3>2, AllowedMore
  <2>2. CASE i = n + 1
    <3>1. {writes[j] : j \in DOMAIN writes} \subseteq Before(all, i)
      BY <1>1, <1>3, <2>2 DEF Before
    <3>2. Allowed(store, Before(all, i), f, r)
      BY <3>1, AllowedMore
    <3> QED BY <1>3, <1>4, <2>2, <3>2
  <2> QED BY <1>3, <2>1, <2>2
<1>7. ASSUME NEW i \in DOMAIN all, NEW j \in DOMAIN all,
             all[i][1] = all[j][1], all[i][1] \in {"cards", "trials"}
      PROVE  i = j
  <2>1. i \in 1..n /\ j \in 1..n
    BY <1>3, <1>4, <1>7
  <2> QED BY <1>1, <1>3, <1>7, <2>1 DEF Legal
<1>8. Legal(all)
  BY <1>5, <1>6, <1>7 DEF Legal
<1> QED BY <1>8 DEF all

LEMMA LegalLogged ==
  ASSUME NEW writes, Legal(writes), NEW task, NEW card
  PROVE  Legal(Logged(task, card, writes))
<1> DEFINE row == AutomationRun(task, card, FoldLeft(AppendRow, store, writes) = store)
<1>1. row.at = now
  BY DEF AutomationRun
<1>2. Logged(task, card, writes) = Append(writes, <<"automations", row>>)
  BY DEF Logged
<1> HIDE DEF row
<1> QED BY <1>1, <1>2, AllowedPlain, LegalMore DEF Files

\* Two writes, the second of which may point at the first.
LEMMA LegalTwo ==
  ASSUME NEW f \in Files, NEW r, Allowed(store, {}, f, r),
         NEW g \in Files \ {"cards", "trials"}, NEW q, Allowed(store, {<<f, r>>}, g, q)
  PROVE  Legal(<<<<f, r>>, <<g, q>>>>)
<1>1. Legal(<<<<f, r>>>>)
  BY LegalOne
<1>2. <<<<f, r>>, <<g, q>>>> = Append(<<<<f, r>>>>, <<g, q>>)
  OBVIOUS
<1>3. {<<<<f, r>>>>[i] : i \in DOMAIN <<<<f, r>>>>} = {<<f, r>>}
  OBVIOUS
<1> QED BY <1>1, <1>2, <1>3, LegalMore

LEMMA TimeNow == ASSUME Inv PROVE now \in Nat /\ now > 1
BY DEF Inv, ClockOK

LEMMA BacktestLegal ==
  ASSUME NEW window, NEW context, NEW beats, ForTrial(store, context, now)
  PROVE  Legal(BacktestWrites(window, context, beats))
<1> DEFINE run == BacktestRun(window, context)
           result == BacktestResult(window, context, beats)
<1>1. /\ run.id = result.id /\ run.at = now /\ result.at = now
      /\ result.id = [window |-> window, context |-> context]
  BY DEF BacktestRun, BacktestResult
<1> HIDE DEF run, result
<1>2. Allowed(store, {}, "runs", run)
  BY <1>1, AllowedPlain
<1>3. Says(store, {<<"runs", run>>}, "results", result)
  BY <1>1 DEF Says, ResultSays, Found
<1>4. Allowed(store, {<<"runs", run>>}, "results", result)
  BY <1>1, <1>3, AllowedSays
<1>5. Legal(<<<<"runs", run>>, <<"results", result>>>>)
  BY <1>2, <1>4, LegalTwo DEF Files
<1> QED BY <1>5 DEF BacktestWrites, run, result

LEMMA WalkForwardLegal ==
  ASSUME NEW window, NEW context, NEW bt, NEW beats, ForTrial(store, context, now),
         context # None => Has(store, "results", [window |-> window, context |-> context]),
         bt = None \/ OnFile("results", bt)
  PROVE  Legal(WalkForwardWrites(window, context, bt, beats))
<1> DEFINE walk(linked) == WalkForward(window, context, linked, beats)
<1>1. \A linked : /\ walk(linked).at = now
                  /\ walk(linked).id = [window |-> window, context |-> context, linked |-> linked]
  BY DEF WalkForward
<1>links. \A linked : /\ walk(linked).id.window = window /\ walk(linked).id.context = context
                      /\ walk(linked).id.linked = linked
  BY DEF WalkForward
<1> HIDE DEF walk
<1>2. ASSUME NEW before, NEW linked, linked = None \/ OnFile("results", linked)
      PROVE  Allowed(store, before, "walks", walk(linked))
  <2>1. Says(store, before, "walks", walk(linked))
    BY <1>1, <1>links, <1>2 DEF Says, WalkSays, Optional, Found, Has, OnFile
  <2> QED BY <1>1, <2>1, AllowedSays
<1> DEFINE tested == BacktestWrites(Inner(window), context, beats)
           one == Append(tested, <<"walks", walk(None)>>)
           two == Append(one, <<"walks", walk(bt)>>)
<1>3. Legal(tested) /\ \E a, b : tested = <<a, b>>
  BY BacktestLegal DEF BacktestWrites
<1>4. Legal(one)
  <2> HIDE DEF tested
  <2> QED BY <1>2, <1>3, LegalMore DEF Files
<1>5. Legal(two)
  <2> HIDE DEF one
  <2> QED BY <1>2, <1>4, LegalMore DEF Files
<1>6. tested \o <<<<"walks", walk(None)>>, <<"walks", walk(bt)>>>> = two
  <2> HIDE DEF tested
  <2> QED BY <1>3
<1> QED BY <1>5, <1>6 DEF WalkForwardWrites, walk

LEMMA LockLegal ==
  ASSUME NEW c \in store["cards"], NEW dataset, dataset = None \/ OnFile("datasets", dataset), NEW window
  PROVE  /\ Scaffolded(store, {}, c.id) => Legal(LockWrites(c, dataset, window))
         /\ \A before : /\ Scaffolded(store, before, c.id) =>
                             Allowed(store, before, "splits", Split(c, dataset, window))
                        /\ Allowed(store, before, "costs", CostModel)
<1> DEFINE split == Split(c, dataset, window)
<1>1. split.at = now /\ split.id = [card |-> c.id, dataset |-> dataset, window |-> window]
  BY DEF Split
<1>2. CostModel.at = now /\ CostModel.id = "default"
  BY DEF CostModel
<1> HIDE DEF split
<1>3. ASSUME NEW before, Scaffolded(store, before, c.id) PROVE Allowed(store, before, "splits", split)
  <2>1. Says(store, before, "splits", split)
    BY <1>1, <1>3 DEF Says, SplitSays, Optional, Found, Has, OnFile
  <2> QED BY <1>1, <2>1, AllowedSays
<1>4. ASSUME NEW before PROVE Allowed(store, before, "costs", CostModel)
  <2>1. Says(store, before, "costs", CostModel)
    BY <1>2 DEF Says
  <2> QED BY <1>2, <2>1, AllowedSays
<1>5. ASSUME Scaffolded(store, {}, c.id) PROVE Legal(<<<<"splits", split>>, <<"costs", CostModel>>>>)
  BY <1>3, <1>4, <1>5, LegalTwo DEF Files
<1> QED BY <1>3, <1>4, <1>5 DEF LockWrites, split

\* The index of a new trial is greater than any used for the card.
LEMMA NextIndexFacts ==
  ASSUME Inv, NEW card
  PROVE  /\ NextTrialIndex(card) \in Nat
         /\ \A t \in store["trials"] : t.id.card = card => t.id.index < NextTrialIndex(card)
<1> DEFINE rows == {u \in store.trials : u.id.card = card}
           index == [t \in rows |-> t.id.index]
           used == {t.id.index : t \in rows}
<1>1. \A t \in rows : t.id.index \in Nat
  BY DEF Inv, RowsOK, Says, TrialSays, Files
<1>2. IsFiniteSet(rows)
  BY FS_Subset DEF Inv, FilesOK, Files
<1>3. IsFiniteSet(used)
  <2>1. index \in Surjection(rows, used)
    BY DEF Surjection
  <2> QED BY <1>2, <2>1, FS_Surjection
<1>4. used \in SUBSET Nat
  BY <1>1
<1>5. CASE used = {}
  BY <1>5 DEF NextTrialIndex
<1>6. CASE used # {}
  <2>1. \E i \in used : \A j \in used : i >= j
    <3> HIDE DEF used
    <3> QED BY <1>3, <1>4, <1>6, Greatest
  <2>2. \E i \in used : \A j \in used : j <= i
    BY <1>4, <2>1
  <2> DEFINE last == CHOOSE i \in used : \A j \in used : j <= i
  <2>3. last \in used /\ \A j \in used : j <= last
    BY <2>2
  <2>4. NextTrialIndex(card) = 1 + last
    BY <1>6 DEF NextTrialIndex
  <2> HIDE DEF last
  <2>5. \A t \in store["trials"] : t.id.card = card => t.id.index \in used
    OBVIOUS
  <2> HIDE DEF used
  <2>6. last \in Nat /\ \A i \in used : i \in Nat /\ i < 1 + last
    BY <1>4, <2>3
  <2> QED BY <2>4, <2>5, <2>6
<1> QED BY <1>5, <1>6

\* What is on file of a trial.
LEMMA TrialOnFile ==
  ASSUME Inv, NEW t \in store["trials"]
  PROVE  TrialSays(store, {}, t) /\ t.at \in Nat /\ t.at <= now
BY DEF Inv, RowsOK, FilesOK, Says, Files

LEMMA ScaffoldAllowed ==
  ASSUME Inv, NoneIsApart, NEW c \in store["cards"], PendingTrial(c) = None,
         NEW dataset, dataset = None \/ OnFile("datasets", dataset)
  PROVE  Allowed(store, {}, "trials",
                 Trial(c, NextTrialIndex(c.id), "PENDING", TRUE, None, None, dataset, now))
<1> DEFINE t == Trial(c, NextTrialIndex(c.id), "PENDING", TRUE, None, None, dataset, now)
<1>1. /\ t.at = now /\ t.started = now /\ t.dataset = dataset
      /\ t.id = [card |-> c.id, index |-> NextTrialIndex(c.id), status |-> "PENDING", retest |-> TRUE,
                 bt |-> None, wf |-> None]
  BY DEF Trial
<1> HIDE DEF t
<1>2. /\ t.id.card = c.id /\ t.id.index = NextTrialIndex(c.id) /\ t.id.status = "PENDING"
      /\ t.id.retest /\ t.id.bt = None /\ t.id.wf = None
  BY <1>1
<1>3. Says(store, {}, "trials", t)
  BY <1>1, <1>2, TimeNow, NextIndexFacts DEF Says, TrialSays, Optional, Found, Has, OnFile
<1>4. ASSUME NEW q \in store["trials"] PROVE Agree("trials", q, t) /\ Agree("trials", t, q)
  <2>1. ~(q.id.card = t.id.card /\ q.id.index = t.id.index)
    BY <1>2, NextIndexFacts
  <2>2. q.id # t.id
    BY <2>1
  <2>3. ~(q.id.status = "PENDING" /\ q.id.card = c.id)
    <3> DEFINE pending == {u \in store["trials"] : u.id.card = c.id /\ u.id.status = "PENDING" /\ u.id.retest}
    <3>1. pending = {}
      BY LatestOf DEF PendingTrial, Files
    <3>2. q.id.status = "PENDING" => q.id.retest
      BY TrialOnFile DEF TrialSays
    <3> QED BY <3>1, <3>2
  <2> QED BY <1>2, <2>1, <2>2, <2>3 DEF Agree
<1>5. Allowed(store, {}, "trials", t)
  BY <1>1, <1>3, <1>4 DEF Allowed
<1> QED BY <1>5 DEF t

LEMMA ScaffoldLegal ==
  ASSUME Inv, NoneIsApart, NEW c \in store["cards"],
         NEW dataset, dataset = None \/ OnFile("datasets", dataset)
  PROVE  Legal(ScaffoldWrites(c, dataset))
<1>1. Legal(<<>>)
  BY DEF Legal, IsWrites
<1> QED BY <1>1, ScaffoldAllowed, LegalOne DEF ScaffoldWrites, Files

\* A scaffold that also locks the protocol.
LEMMA ScaffoldLockLegal ==
  ASSUME Inv, NoneIsApart, NEW c \in store["cards"], NEW dataset, OnFile("datasets", dataset), NEW window
  PROVE  Legal(ScaffoldWrites(c, dataset) \o LockWrites(c, dataset, window))
<1> DEFINE w == ScaffoldWrites(c, dataset)
           split == <<"splits", Split(c, dataset, window)>>
           cost == <<"costs", CostModel>>
<1>1. w \o <<split, cost>> = Append(Append(w, split), cost)
  <2>1. w = <<>> \/ \E t : w = <<t>>
    BY DEF ScaffoldWrites
  <2> HIDE DEF w, split, cost
  <2> QED BY <2>1
<1>2. Legal(w)
  BY ScaffoldLegal
<1>scaffolded. Scaffolded(store, {w[i] : i \in DOMAIN w}, c.id)
  <2>1. CASE PendingTrial(c) # None
    <3>1. \E t \in store["trials"] : IsPendingOf(t.id, c.id)
      BY <2>1, LatestOf DEF PendingTrial, IsPendingOf, Files
    <3> QED BY <3>1 DEF Scaffolded
  <2>2. CASE PendingTrial(c) = None
    <3> DEFINE t == Trial(c, NextTrialIndex(c.id), "PENDING", TRUE, None, None, dataset, now)
    <3>1. IsPendingOf(t.id, c.id)
      BY DEF Trial, IsPendingOf
    <3> HIDE DEF t
    <3>2. w = <<<<"trials", t>>>>
      BY <2>2 DEF ScaffoldWrites, t
    <3>3. DOMAIN w = {1} /\ w[1] = <<"trials", t>> /\ w[1][1] = "trials" /\ w[1][2] = t
      BY <3>2
    <3> QED BY <3>1, <3>3 DEF Scaffolded
  <2> QED BY <2>1, <2>2
<1>3. Legal(Append(w, split))
  BY <1>2, <1>scaffolded, LockLegal, LegalMore DEF Files
<1>4. Legal(Append(Append(w, split), cost))
  <2>1. \A before : Allowed(store, before, "costs", CostModel)
    BY LockLegal
  <2> QED BY <1>3, <2>1, LegalMore DEF Files
<1> QED BY <1>1, <1>4 DEF LockWrites

LEMMA PlainLegal ==
  ASSUME NEW f \in {"budgets", "datasets", "runs", "automations", "digests"}, NEW r, r.at = now
  PROVE  Legal(<<<<f, r>>>>)
BY AllowedPlain, LegalOne DEF Files

LEMMA BaselineLegal ==
  ASSUME NEW positive
  PROVE  Legal(<<<<"baselines", Baseline(positive, now)>>>>)
<1>1. Baseline(positive, now).at = now /\ Baseline(positive, now).id = now
  BY DEF Baseline
<1>2. Allowed(store, {}, "baselines", Baseline(positive, now))
  BY <1>1, AllowedSays DEF Says
<1> QED BY <1>2, LegalOne DEF Files

\* A recorded trial does not start before the PENDING one of its chain.
LEMMA TrialLegal ==
  ASSUME Inv, NEW c \in store["cards"], NEW index \in Nat, NEW status \in {"PASSED", "FAILED"},
         NEW retest \in BOOLEAN, NEW dataset, dataset = None \/ OnFile("datasets", dataset),
         NEW bt, bt = None \/ (OnFile("results", bt) /\ OnFile("costs", "default")),
         NEW wf, wf = None \/ OnFile("walks", wf),
         NEW started \in Nat, started <= now,
         retest => \A t \in store["trials"] :
           t.id.status = "PENDING" /\ t.id.card = c.id /\ t.id.index = index => t.started <= started,
         retest => \E q \in store["trials"] :
           IsPendingOf(q.id, c.id) /\ q.id.index = index /\ q.dataset = dataset
  PROVE  Legal(TrialWrites(c, index, status, retest, dataset, bt, wf, started))
<1> DEFINE recorded == IF WithinBudget(c.id, index) THEN status ELSE "BUDGET_ABORTED"
           used == Consumed(c.id) \cup (IF recorded = status THEN {index} ELSE {})
           t == Trial(c, index, recorded, retest, bt, wf, dataset, started)
           budget == Budget(c, used)
<1>1. /\ t.at = now /\ t.started = started /\ t.dataset = dataset
      /\ t.id = [card |-> c.id, index |-> index, status |-> recorded, retest |-> retest,
                 bt |-> bt, wf |-> wf]
  BY DEF Trial
<1>2. budget.at = now
  BY DEF Budget
<1>3. recorded # "PENDING"
  OBVIOUS
<1> HIDE DEF t, recorded, budget
<1>4. /\ t.id.card = c.id /\ t.id.index = index /\ t.id.status = recorded /\ (t.id.retest <=> retest)
      /\ t.id.retest = retest /\ t.id.bt = bt /\ t.id.wf = wf
  BY <1>1
<1>5. Says(store, {}, "trials", t)
  <2>1. t.id = [card |-> t.id.card, index |-> t.id.index, status |-> t.id.status,
                retest |-> t.id.retest, bt |-> t.id.bt, wf |-> t.id.wf]
    BY <1>1, <1>4
  <2>2. Found(store, {}, "cards", t.id.card) /\ Optional(store, {}, "datasets", t.dataset)
    BY <1>1, <1>4 DEF Optional, Found, Has, OnFile
  <2>3. /\ Optional(store, {}, "results", t.id.bt) /\ Optional(store, {}, "walks", t.id.wf)
        /\ t.id.bt # None => Has(store, "costs", "default")
    BY <1>4 DEF Optional, Found, Has, OnFile
  <2>4. t.id.index \in Nat /\ t.started \in Nat /\ t.started <= t.at
    BY <1>1, <1>4
  <2>5. t.id.retest => \E q \in store["trials"] :
          IsPendingOf(q.id, t.id.card) /\ q.id.index = t.id.index /\ q.dataset = t.dataset
    BY <1>1, <1>4
  <2> QED BY <1>3, <1>4, <2>1, <2>2, <2>3, <2>4, <2>5 DEF Says, TrialSays
<1>6. ASSUME NEW q \in store["trials"], q.id # t.id PROVE Agree("trials", q, t) /\ Agree("trials", t, q)
  BY <1>1, <1>3, <1>4, <1>6 DEF Agree
<1>7. Allowed(store, {}, "trials", t)
  BY <1>1, <1>5, <1>6 DEF Allowed
<1>8. Legal(<<<<"trials", t>>, <<"budgets", budget>>>>)
  BY <1>2, <1>7, AllowedPlain, LegalTwo DEF Files
<1> QED BY <1>8 DEF TrialWrites, t, recorded, budget, used

\* The gate's answer is a matter of the rows.
LEMMA RankableIs ==
  ASSUME Inv, NEW e
  PROVE  Rankable(e) <=> Passes(store, e)
<1>1. \A f \in Files : \A id : \A r \in store[f] : r.id = id => OnFile(f, id) /\ Row(f, id) = r
  <2> SUFFICES ASSUME NEW f \in Files, NEW id, NEW r \in store[f], r.id = id
               PROVE  OnFile(f, id) /\ Row(f, id) = r
    OBVIOUS
  <2>1. OnFile(f, id)
    BY DEF OnFile
  <2>2. Row(f, id) \in store[f] /\ Row(f, id).id = r.id
    BY <2>1, RowFacts
  <2> QED BY <2>1, <2>2 DEF Inv, RowsOK, Agree
<1>2. \A f \in Files : \A id : OnFile(f, id) => Row(f, id) \in store[f] /\ Row(f, id).id = id
  BY RowFacts
<1>3. {"trials", "splits", "costs", "baselines", "results", "walks"} \subseteq Files
  BY DEF Files
<1>4. Rankable(e) => Passes(store, e)
  BY <1>2, <1>3 DEF Rankable, Aligned, Passes, OnFile, Has
<1>5. Passes(store, e) => Rankable(e)
  BY <1>1, <1>3 DEF Rankable, Aligned, Passes, OnFile, Has
<1> QED BY <1>4, <1>5

LEMMA GateLegal ==
  ASSUME Inv, NEW e, Asked(store, e)
  PROVE  Legal(GateWrites(e))
<1> DEFINE v == Evaluation(e, Rankable(e))
           entry == Entry(e, Rankable(e))
<1>1. v.at = now /\ v.id = e /\ entry.at = now /\ entry.id = e
  BY DEF Evaluation, Entry
<1>2. (v.rankable <=> Rankable(e)) /\ (entry.rankable <=> Rankable(e))
  BY DEF Evaluation, Entry
<1> HIDE DEF v, entry
<1>3. GateSays(store, v) /\ GateSays(store, entry)
  BY <1>1, <1>2, RankableIs DEF GateSays
<1>4. Allowed(store, {}, "evaluations", v)
  BY <1>1, <1>3, AllowedSays DEF Says
<1>5. Allowed(store, {<<"evaluations", v>>}, "entries", entry)
  <2>1. Found(store, {<<"evaluations", v>>}, "evaluations", entry.id)
    BY <1>1 DEF Found
  <2> QED BY <1>1, <1>3, <2>1, AllowedSays DEF Says
<1>6. Legal(<<<<"evaluations", v>>, <<"entries", entry>>>>)
  BY <1>4, <1>5, LegalTwo DEF Files
<1> QED BY <1>6 DEF GateWrites, v, entry

LEMMA OutcomeAllowed ==
  ASSUME Inv, NEW entry \in store["entries"], NEW window, NEW excess, NEW breach, NEW before
  PROVE  Allowed(store, before, "outcomes", Outcome(entry, window, excess, Action(Unblocked(entry), excess, breach)))
<1> DEFINE o == Outcome(entry, window, excess, Action(Unblocked(entry), excess, breach))
<1>1. o.at = now /\ o.card = entry.id.card /\ o.id.entry = entry.id
  BY DEF Outcome
<1> HIDE DEF o
<1>2. Has(store, "cards", entry.id.card)
  BY DEF Inv, RowsOK, Says, GateSays, Asked, Files
<1>3. Says(store, before, "outcomes", o)
  BY <1>1, <1>2 DEF Says, OutcomeSays, Found, Has
<1>4. Allowed(store, before, "outcomes", o)
  BY <1>1, <1>3, AllowedSays
<1> QED BY <1>4 DEF o

\* The shadow task derives the returns by a backtest, or is given them.
LEMMA ShadowLegal ==
  ASSUME Inv, NEW entry \in store["entries"], NEW window, NEW excess, NEW breach, NEW beats
  PROVE  /\ Legal(OutcomeWrites(entry, window, excess, breach))
         /\ Legal(BacktestWrites(window, None, beats) \o OutcomeWrites(entry, window, excess, breach))
<1> DEFINE o == Outcome(entry, window, excess, Action(Unblocked(entry), excess, breach))
           w == BacktestWrites(window, None, beats)
<1>1. \A before : Allowed(store, before, "outcomes", o)
  BY OutcomeAllowed
<1>2. Legal(w)
  BY BacktestLegal DEF ForTrial
<1>3. \E a, b : w = <<a, b>>
  BY DEF BacktestWrites
<1> HIDE DEF w, o
<1>4. w \o <<<<"outcomes", o>>>> = Append(w, <<"outcomes", o>>)
  BY <1>3
<1>5. Legal(<<<<"outcomes", o>>>>) /\ Legal(Append(w, <<"outcomes", o>>))
  BY <1>1, <1>2, LegalOne, LegalMore DEF Files
<1> QED BY <1>4, <1>5 DEF OutcomeWrites, w, o

-----------------------------------------------------------------------------
(* Writes that have nothing to do with revisions.                          *)

QuietRow(f, r) ==
  /\ f = "cards" => r.basis # "revision"
  /\ f = "agendas" => r.id.basis # "revision"
Quiet(writes) == \A i \in DOMAIN writes : QuietRow(writes[i][1], writes[i][2])
\* The files that every command of the retest appends to but for its automation run.
Elsewhere == Files \ {"cards", "agendas", "automations"}
Within(writes) == \A i \in DOMAIN writes : writes[i][1] \in Elsewhere
\* Nor does it record a task of the retest as done.
Aside(writes) ==
  \A i \in DOMAIN writes : writes[i][1] = "automations" => writes[i][2].id.task \notin RetestTasks

\* Nor starts a trial.
Untried(writes) == \A i \in DOMAIN writes : writes[i][1] # "trials"

LEMMA WithinFacts == ASSUME NEW writes, Within(writes) PROVE Quiet(writes) /\ Aside(writes)
BY DEF Within, Quiet, QuietRow, Aside, Elsewhere

LEMMA QuietMore ==
  ASSUME NEW writes, IsWrites(writes), Quiet(writes), NEW f, NEW r, QuietRow(f, r)
  PROVE  Quiet(Append(writes, <<f, r>>))
<1> DEFINE all == Append(writes, <<f, r>>)
<1>1. PICK n \in Nat : DOMAIN writes = 1..n
  BY DEF IsWrites
<1>2. Len(writes) = n
  BY <1>1
<1>3. DOMAIN all = 1..n + 1 /\ all[n + 1] = <<f, r>> /\ \A i \in 1..n : all[i] = writes[i]
  BY <1>1, <1>2
<1>4. <<f, r>>[1] = f /\ <<f, r>>[2] = r /\ \A i \in 1..n + 1 : i \in 1..n \/ i = n + 1
  OBVIOUS
<1> HIDE DEF all
<1>5. Quiet(all)
  BY <1>1, <1>3, <1>4 DEF Quiet
<1> QED BY <1>5 DEF all

LEMMA QuietOne ==
  ASSUME NEW f, f \notin {"automations", "trials"}, NEW r, QuietRow(f, r)
  PROVE  Quiet(<<<<f, r>>>>) /\ Aside(<<<<f, r>>>>) /\ Untried(<<<<f, r>>>>)
<1> DEFINE writes == <<<<f, r>>>>
<1>1. DOMAIN writes = 1..1 /\ writes[1] = <<f, r>> /\ <<f, r>>[1] = f /\ <<f, r>>[2] = r
  OBVIOUS
<1> HIDE DEF writes
<1>2. Quiet(writes) /\ Aside(writes) /\ Untried(writes)
  BY <1>1 DEF Quiet, Aside, Untried
<1> QED BY <1>2 DEF writes

LEMMA WithinOne ==
  ASSUME NEW f \in Elsewhere, NEW r
  PROVE  Within(<<<<f, r>>>>)
<1> DEFINE writes == <<<<f, r>>>>
<1>1. DOMAIN writes = 1..1 /\ writes[1] = <<f, r>> /\ <<f, r>>[1] = f
  OBVIOUS
<1> HIDE DEF writes
<1>2. Within(writes)
  BY <1>1 DEF Within
<1> QED BY <1>2 DEF writes

LEMMA WithinTwo ==
  ASSUME NEW f \in Elsewhere, NEW r, NEW g \in Elsewhere, NEW q
  PROVE  Within(<<<<f, r>>, <<g, q>>>>)
<1> DEFINE writes == <<<<f, r>>, <<g, q>>>>
<1>1. /\ DOMAIN writes = 1..2 /\ writes[1] = <<f, r>> /\ writes[2] = <<g, q>>
      /\ <<f, r>>[1] = f /\ <<g, q>>[1] = g
  OBVIOUS
<1> HIDE DEF writes
<1>2. Within(writes)
  BY <1>1 DEF Within
<1> QED BY <1>2 DEF writes

LEMMA UntriedTwo ==
  ASSUME NEW f \in Elsewhere \ {"trials"}, NEW r, NEW g \in Elsewhere \ {"trials"}, NEW q
  PROVE  Untried(<<<<f, r>>, <<g, q>>>>)
<1> DEFINE writes == <<<<f, r>>, <<g, q>>>>
<1>1. /\ DOMAIN writes = 1..2 /\ writes[1] = <<f, r>> /\ writes[2] = <<g, q>>
      /\ <<f, r>>[1] = f /\ <<g, q>>[1] = g
  OBVIOUS
<1> HIDE DEF writes
<1>2. Untried(writes)
  BY <1>1 DEF Untried
<1> QED BY <1>2 DEF writes

LEMMA QuietLogged ==
  ASSUME NEW writes, IsWrites(writes), Quiet(writes), NEW task, NEW card
  PROVE  Quiet(Logged(task, card, writes))
<1>1. \A row : QuietRow("automations", row)
  BY DEF QuietRow
<1> QED BY <1>1, QuietMore DEF Logged

LEMMA AsideLogged ==
  ASSUME NEW writes, IsWrites(writes), Aside(writes), Untried(writes),
         NEW task, task \notin RetestTasks, NEW card
  PROVE  Aside(Logged(task, card, writes)) /\ Untried(Logged(task, card, writes))
<1> DEFINE row == AutomationRun(task, card, FoldLeft(AppendRow, store, writes) = store)
           all == Append(writes, <<"automations", row>>)
<1>1. PICK n \in Nat : DOMAIN writes = 1..n
  BY DEF IsWrites
<1>2. Len(writes) = n
  BY <1>1
<1>row. row.id.task = task
  BY DEF AutomationRun
<1> HIDE DEF row
<1>3. DOMAIN all = 1..n + 1 /\ all[n + 1] = <<"automations", row>> /\ \A i \in 1..n : all[i] = writes[i]
  BY <1>1, <1>2
<1>4. <<"automations", row>>[1] = "automations" /\ <<"automations", row>>[2] = row
  OBVIOUS
<1>5. \A i \in 1..n + 1 : i \in 1..n \/ i = n + 1
  OBVIOUS
<1>6. Logged(task, card, writes) = all
  BY DEF Logged, row
<1> HIDE DEF all
<1> QED BY <1>1, <1>row, <1>3, <1>4, <1>5, <1>6 DEF Aside, Untried

LEMMA ChainWithin ==
  /\ \A window, context, beats : Within(BacktestWrites(window, context, beats))
  /\ \A window, context, bt, beats : Within(WalkForwardWrites(window, context, bt, beats))
  /\ \A c, dataset : Within(ScaffoldWrites(c, dataset))
  /\ \A c, dataset, window : Within(LockWrites(c, dataset, window))
  /\ \A c, dataset, window : Within(ScaffoldWrites(c, dataset) \o LockWrites(c, dataset, window))
  /\ \A positive : Within(BaselineWrites(positive))
  /\ \A c, index, status, retest, dataset, bt, wf, started :
       Within(TrialWrites(c, index, status, retest, dataset, bt, wf, started))
  /\ \A e : Within(GateWrites(e))
  /\ \A entry, window, excess, breach : Within(OutcomeWrites(entry, window, excess, breach))
  /\ \A window, beats, entry, w, excess, breach :
       Within(BacktestWrites(window, None, beats) \o OutcomeWrites(entry, w, excess, breach))
<1>files. {"runs", "results", "walks", "trials", "splits", "costs", "baselines", "budgets",
           "evaluations", "entries", "outcomes"} \subseteq Elsewhere
  BY DEF Elsewhere, Files
<1>1. \A f, g \in Elsewhere : \A r, q : Within(<<<<f, r>>, <<g, q>>>>)
  BY WithinTwo
<1>2. \A f \in Elsewhere : \A r : Within(<<<<f, r>>>>)
  BY WithinOne
<1>3. ASSUME NEW f \in Elsewhere, NEW g \in Elsewhere, NEW h \in Elsewhere, NEW r, NEW q, NEW t
      PROVE  Within(<<<<f, r>>, <<g, q>>>> \o <<<<h, t>>>>)
  <2> DEFINE a == <<f, r>>
             b == <<g, q>>
             c == <<h, t>>
  <2>1. a[1] = f /\ b[1] = g /\ c[1] = h
    OBVIOUS
  <2> HIDE DEF a, b, c
  <2> DEFINE w == <<a, b>> \o <<c>>
  <2>2. DOMAIN w = 1..3 /\ \A i \in 1..3 : w[i] = IF i = 1 THEN a ELSE IF i = 2 THEN b ELSE c
    OBVIOUS
  <2>3. \A i \in 1..3 : w[i][1] \in Elsewhere
    BY <2>1, <2>2
  <2> HIDE DEF w
  <2>4. Within(w)
    BY <2>2, <2>3 DEF Within
  <2> QED BY <2>4 DEF a, b, c, w
<1>4. ASSUME NEW f \in Elsewhere, NEW g \in Elsewhere, NEW h \in Elsewhere, NEW r, NEW q, NEW t
      PROVE  Within(<<<<h, t>>>> \o <<<<f, r>>, <<g, q>>>>)
  <2> DEFINE a == <<h, t>>
             b == <<f, r>>
             c == <<g, q>>
  <2>1. a[1] = h /\ b[1] = f /\ c[1] = g
    OBVIOUS
  <2> HIDE DEF a, b, c
  <2> DEFINE w == <<a>> \o <<b, c>>
  <2>2. DOMAIN w = 1..3 /\ \A i \in 1..3 : w[i] = IF i = 1 THEN a ELSE IF i = 2 THEN b ELSE c
    OBVIOUS
  <2>3. \A i \in 1..3 : w[i][1] \in Elsewhere
    BY <2>1, <2>2
  <2> HIDE DEF w
  <2>4. Within(w)
    BY <2>2, <2>3 DEF Within
  <2> QED BY <2>4 DEF a, b, c, w
<1>four. ASSUME NEW f \in Elsewhere, NEW g \in Elsewhere, NEW h \in Elsewhere, NEW r, NEW q, NEW t, NEW u
         PROVE  Within(<<<<f, r>>, <<g, q>>>> \o <<<<h, t>>, <<h, u>>>>)
  <2> DEFINE a == <<f, r>>
             b == <<g, q>>
             c == <<h, t>>
             d == <<h, u>>
  <2>1. a[1] = f /\ b[1] = g /\ c[1] = h /\ d[1] = h
    OBVIOUS
  <2> HIDE DEF a, b, c, d
  <2> DEFINE w == <<a, b>> \o <<c, d>>
  <2>2. DOMAIN w = 1..4 /\ \A i \in 1..4 : w[i] = IF i = 1 THEN a ELSE IF i = 2 THEN b
                                                 ELSE IF i = 3 THEN c ELSE d
    OBVIOUS
  <2>3. \A i \in 1..4 : w[i][1] \in Elsewhere
    BY <2>1, <2>2
  <2> HIDE DEF w
  <2>4. Within(w)
    BY <2>2, <2>3 DEF Within
  <2> QED BY <2>4 DEF a, b, c, d, w
<1>5. /\ \A window, context, beats : Within(BacktestWrites(window, context, beats))
      /\ \A window, context, bt, beats : Within(WalkForwardWrites(window, context, bt, beats))
  BY <1>1, <1>four, <1>files DEF BacktestWrites, WalkForwardWrites
<1>6. Within(<<>>)
  BY DEF Within
<1>7. /\ \A c, dataset : Within(ScaffoldWrites(c, dataset))
      /\ \A c, dataset, window : Within(LockWrites(c, dataset, window))
      /\ \A positive : Within(BaselineWrites(positive))
  BY <1>1, <1>2, <1>6, <1>files DEF ScaffoldWrites, LockWrites, BaselineWrites
<1>8. \A c, dataset, window : Within(ScaffoldWrites(c, dataset) \o LockWrites(c, dataset, window))
  <2> SUFFICES ASSUME NEW c, NEW dataset, NEW window
               PROVE  Within(ScaffoldWrites(c, dataset) \o LockWrites(c, dataset, window))
    OBVIOUS
  <2> DEFINE s == ScaffoldWrites(c, dataset)
             l == LockWrites(c, dataset, window)
  <2>1. \E r, q : l = <<<<"splits", r>>, <<"costs", q>>>>
    BY DEF LockWrites
  <2>2. s = <<>> \/ \E t : s = <<<<"trials", t>>>>
    BY DEF ScaffoldWrites
  <2>3. Within(l)
    BY <1>7
  <2> HIDE DEF s, l
  <2>4. CASE s = <<>>
    <3>1. s \o l = l
      BY <2>1, <2>4
    <3> QED BY <2>3, <3>1 DEF s, l
  <2>5. CASE s # <<>>
    <3>1. Within(s \o l)
      BY <1>4, <1>files, <2>1, <2>2, <2>5
    <3> QED BY <3>1 DEF s, l
  <2> QED BY <2>4, <2>5
<1>9. /\ \A c, index, status, retest, dataset, bt, wf, started :
           Within(TrialWrites(c, index, status, retest, dataset, bt, wf, started))
      /\ \A e : Within(GateWrites(e))
      /\ \A entry, window, excess, breach : Within(OutcomeWrites(entry, window, excess, breach))
  BY <1>1, <1>2, <1>files DEF TrialWrites, GateWrites, OutcomeWrites
<1>10. \A window, beats, entry, w, excess, breach :
         Within(BacktestWrites(window, None, beats) \o OutcomeWrites(entry, w, excess, breach))
  BY <1>3, <1>files DEF BacktestWrites, OutcomeWrites
<1> QED BY <1>5, <1>7, <1>8, <1>9, <1>10

\* Most commands append legal rows that are not about a revision.
Appends(writes) == Legal(writes) /\ Quiet(writes) /\ (Routinely(writes) \/ ByHand(writes))
Command == \E writes : Appends(writes)
\* The commands that record a task of the retest as done, and the others; a trial
\* is recorded by the former or by hand.
Works(c, p, task, w) ==
  /\ c \in Target /\ p = Plan(c) /\ NextTask(p) = task
  /\ \/ w \in NextWrites(c, p) /\ Routinely(Logged(task, c.id, w))
     \/ /\ task = "shadow" /\ p.entry # None
        /\ \E window, x, b : w = OutcomeWrites(p.entry, window, x, b)
        /\ ByHand(Logged(task, c.id, w))
Work == \E c, p, task, w : Works(c, p, task, w) /\ Legal(w) /\ Appends(Logged(task, c.id, w))
Other == \E writes : Appends(writes) /\ Aside(writes) /\ (ByHand(writes) \/ Untried(writes))

LEMMA OtherByHand ==
  \A writes : Legal(writes) /\ Within(writes) /\ ByHand(writes) => Other
BY WithinFacts DEF Other, Appends

-----------------------------------------------------------------------------
(* The commands of the retest chain.                                       *)

LEMMA TargetFacts ==
  ASSUME Inv, NoneIsApart, NEW c \in Target
  PROVE  c \in Drafts /\ c \in store["cards"]
<1>1. Drafts \in SUBSET store["cards"]
  BY DEF Drafts
<1> QED BY <1>1, LatestOf DEF Target, Files

\* There is one PENDING trial of a card.
LEMMA OnePending ==
  ASSUME Inv, NEW q \in store["trials"], NEW r \in store["trials"], NEW card,
         IsPendingOf(q.id, card), IsPendingOf(r.id, card)
  PROVE  q = r
BY DEF Inv, RowsOK, Agree, IsPendingOf, Files

\* Evidence that belongs to a PASSED trial was made for the PENDING one of its chain.
LEMMA ChainEvidence ==
  ASSUME Inv, NoneIsApart, NEW t \in store["trials"], t.id.status = "PASSED", t.id.retest,
         NEW context \in Contexts(t), NEW at, ForTrial(store, context, at)
  PROVE  \E q \in store["trials"] : /\ q.id = context /\ IsPendingOf(q.id, t.id.card)
                                    /\ q.id.index = t.id.index /\ q.dataset = t.dataset
                                    /\ q.started <= t.started
<1>1. t.id # None
  BY TrialOnFile DEF TrialSays, NoneIsApart
<1>2. /\ \A q \in store["trials"] : q.id # None
      /\ context # t.id
  BY <1>1, TrialOnFile DEF ForTrial, TrialSays, NoneIsApart
<1>3. PICK q \in store["trials"] : SameChain(q, t) /\ q.id = context
  BY <1>2 DEF Contexts
<1>4. q.started <= t.started
  BY <1>3 DEF SameChain, Inv, RowsOK, Agree, Files
<1> QED BY <1>3, <1>4 DEF SameChain, IsPendingOf

\* The ids of what a retest makes, on a window, for its PENDING trial.
BacktestFor(q, window) == [window |-> window, context |-> q.id]
WalkFor(q, window) == [window |-> window, context |-> q.id, linked |-> BacktestFor(q, window)]
PassedFor(q, window) == [q.id EXCEPT !.status = "PASSED", !.bt = BacktestFor(q, window), !.wf = WalkFor(q, window)]

\* A PASSED trial that is valid is the one of its card, its PENDING trial and the window.
LEMMA ValidFacts ==
  ASSUME Inv, NoneIsApart, NEW c, NEW t \in store["trials"], Valid(c, t)
  PROVE  \E q \in store["trials"] :
           /\ IsPendingOf(q.id, c.id) /\ q.dataset = t.dataset /\ q.started <= t.started
           /\ LatestSplit(c, t.dataset) # None
           /\ t.id = PassedFor(q, LatestSplit(c, t.dataset).id.window)
<1> DEFINE split == LatestSplit(c, t.dataset)
           r == Row("results", t.id.bt)
           w == Row("walks", t.id.wf)
<1>1. /\ t.id.card = c.id /\ t.id.status = "PASSED" /\ t.id.retest /\ split # None
      /\ OnFile("results", t.id.bt) /\ OnFile("walks", t.id.wf)
      /\ r.id.context \in Contexts(t) /\ w.id.context \in Contexts(t)
      /\ t.id.bt.window = split.id.window /\ t.id.wf.window = split.id.window
      /\ t.id.bt = t.id.wf.linked
  BY DEF Valid, BacktestBelongs, WalkForwardBelongs
<1>2. r \in store["results"] /\ r.id = t.id.bt /\ w \in store["walks"] /\ w.id = t.id.wf
  BY <1>1, RowFacts
<1> HIDE DEF r, w, split
<1>3. ResultSays(store, {}, r) /\ WalkSays(store, {}, w)
  BY <1>2 DEF Inv, RowsOK, Says, Files
<1>4. PICK q \in store["trials"] : /\ q.id = r.id.context /\ IsPendingOf(q.id, t.id.card)
                                   /\ q.id.index = t.id.index /\ q.dataset = t.dataset
                                   /\ q.started <= t.started
  BY <1>1, <1>3, ChainEvidence DEF ResultSays
<1>5. PICK u \in store["trials"] : u.id = w.id.context /\ IsPendingOf(u.id, t.id.card)
  BY <1>1, <1>3, ChainEvidence DEF WalkSays
<1>6. w.id.context = q.id
  BY <1>4, <1>5, OnePending
<1>7. t.id.bt = BacktestFor(q, split.id.window) /\ t.id.wf = WalkFor(q, split.id.window)
  BY <1>1, <1>2, <1>3, <1>4, <1>6 DEF ResultSays, WalkSays, BacktestFor, WalkFor
<1>8. TrialSays(store, {}, t) /\ TrialSays(store, {}, q)
  BY TrialOnFile
<1>9. t.id = PassedFor(q, split.id.window)
  <2>1. q.id.card = t.id.card /\ q.id.index = t.id.index /\ q.id.retest /\ t.id.status = "PASSED"
    BY <1>1, <1>4 DEF IsPendingOf
  <2>2. q.id.retest = t.id.retest
    BY <1>1, <1>8, <2>1 DEF TrialSays
  <2> QED BY <1>7, <1>8, <2>1, <2>2 DEF TrialSays, PassedFor
<1> QED BY <1>1, <1>4, <1>9 DEF split

\* A plan that has a trial has the PENDING one, whose dataset it takes.
LEMMA PlanPending ==
  ASSUME Inv, NoneIsApart, NEW c, NEW p, PlanIs(c, p), p.pending # None \/ p.passed # None
  PROVE  /\ p.pending \in store["trials"] /\ IsPendingOf(p.pending.id, c.id)
         /\ p.pending # None /\ p.dataset = p.pending.dataset
         /\ \A q \in store["trials"] : IsPendingOf(q.id, c.id) => q = p.pending
<1> DEFINE rows == {t \in store["trials"] : t.id.card = c.id /\ t.id.status = "PENDING" /\ t.id.retest}
           valid == {t \in store["trials"] : Valid(c, t)}
<1>1. p.pending = Latest(rows) /\ p.passed = Latest(valid)
  BY DEF PlanIs, PendingTrial, PassedTrial
<1>2. /\ rows \in SUBSET store["trials"] /\ valid \in SUBSET store["trials"]
      /\ "trials" \in Files
  BY DEF Files
<1>3. \A q \in store["trials"] : IsPendingOf(q.id, c.id) => q \in rows
  BY DEF IsPendingOf
<1> HIDE DEF rows, valid
<1>4. ASSUME p.passed # None
      PROVE  \E q \in rows : q.dataset = p.passed.dataset
  <2>1. p.passed \in store["trials"] /\ Valid(c, p.passed)
    BY <1>1, <1>2, <1>4, LatestOf DEF valid
  <2> QED BY <1>3, <2>1, ValidFacts
<1>5. p.pending \in rows /\ p.pending # None
  BY <1>1, <1>2, <1>4, LatestOf
<1>6. p.pending \in store["trials"] /\ IsPendingOf(p.pending.id, c.id)
  BY <1>5 DEF rows, IsPendingOf
<1>7. \A q \in store["trials"] : IsPendingOf(q.id, c.id) => q = p.pending
  BY <1>6, OnePending
<1>8. p.dataset = p.pending.dataset
  <2>1. \A q \in rows : q = p.pending
    BY <1>7 DEF rows, IsPendingOf
  <2>2. p.dataset = IF p.passed # None THEN p.passed.dataset ELSE p.pending.dataset
    BY <1>5 DEF PlanIs, PlannedDataset
  <2> QED BY <1>4, <2>1, <2>2
<1> QED BY <1>5, <1>6, <1>7, <1>8

\* Before there is a PASSED trial, the plan takes the backtest made for the PENDING one.
LEMMA PlanBacktest ==
  ASSUME Inv, NoneIsApart, NEW c, NEW p, PlanIs(c, p), p.passed = None, p.bt # None
  PROVE  /\ p.pending # None /\ p.split # None
         /\ p.bt \in store["results"] /\ p.bt.id = BacktestFor(p.pending, p.split.id.window)
         /\ p.bt.at >= p.pending.started
<1> DEFINE rows == {r \in store["results"] : BacktestBelongs(r, p.pending, {p.pending.id})
                                             /\ r.id.window = p.split.id.window}
<1>1. p.pending # None /\ p.split # None /\ p.bt = Latest(rows)
  BY DEF PlanIs, SelectedBacktest
<1>2. p.bt \in rows
  <2>1. rows \in SUBSET store["results"] /\ "results" \in Files
    BY DEF Files
  <2> HIDE DEF rows
  <2> QED BY <1>1, <2>1, LatestOf
<1>3. /\ p.bt \in store["results"] /\ p.bt.at >= p.pending.started
      /\ p.bt.id.context = p.pending.id /\ p.bt.id.window = p.split.id.window
  BY <1>2 DEF BacktestBelongs, Fresh
<1>4. ResultSays(store, {}, p.bt)
  BY <1>3 DEF Inv, RowsOK, Says, Files
<1> QED BY <1>1, <1>3, <1>4 DEF ResultSays, BacktestFor

\* The plan's first PENDING trial is what its artifacts are made for.
LEMMA PendingFacts ==
  ASSUME Inv, NEW c, NEW p, PlanRows(c, p), p.pending # None
  PROVE  /\ ForTrial(store, p.pending.id, now) /\ Scaffolded(store, {}, c.id)
         /\ p.pending.id.index \in Nat /\ p.pending.started \in Nat /\ p.pending.started <= now
         /\ \A t \in store["trials"] :
              t.id.status = "PENDING" /\ t.id.card = c.id /\ t.id.index = p.pending.id.index
                => t.started <= p.pending.started
<1>1. p.pending \in store["trials"] /\ p.pending.id.card = c.id /\ p.pending.id.status = "PENDING"
  BY DEF PlanRows
<1>2. TrialSays(store, {}, p.pending) /\ p.pending.at \in Nat /\ p.pending.at <= now
  BY <1>1, TrialOnFile
<1>3. p.pending.id.retest /\ p.pending.started \in Nat /\ p.pending.started <= now
  BY <1>1, <1>2, TimeNow DEF TrialSays
<1>4. \A t \in store["trials"] : Agree("trials", t, p.pending)
  BY <1>1 DEF Inv, RowsOK, Files
<1> QED BY <1>1, <1>2, <1>3, <1>4 DEF ForTrial, TrialSays, Agree, Scaffolded, IsPendingOf

\* What is ready is a task of the chain.
LEMMA ReadyTask ==
  ASSUME NoneIsApart, NEW p, Ready(p)
  PROVE  NextTask(p) \in RetestTasks
<1>1. CASE NextTask(p) = None
  <2>1. None \notin {"scaffold", "lock", "baseline", "backtest", "walk_forward", "passed_trial", "gate", "shadow"}
    BY DEF NoneIsApart, RetestTasks, Tasks
  <2> QED BY <1>1, <2>1 DEF Ready
<1>2. CASE NextTask(p) # None
  BY <1>2, NextTaskFacts DEF RetestTasks
<1> QED BY <1>1, <1>2

LEMMA TaskWithin ==
  ASSUME NoneIsApart, NEW c, NEW p, NEW writes \in NextWrites(c, p)
  PROVE  Within(writes)
<1>1. Ready(p)
  BY DEF NextWrites
<1>2. NextTask(p) \in {"scaffold", "lock", "baseline", "backtest", "walk_forward",
                       "passed_trial", "gate", "shadow"}
  BY <1>1, ReadyTask DEF RetestTasks, Tasks
<1>3. CASE NextTask(p) \in {"scaffold", "lock", "baseline", "backtest"}
  BY <1>1, <1>3, ChainWithin DEF NextWrites, ScaffoldTask, LockTask, BaselineTask, BacktestTask
<1>4. CASE NextTask(p) \in {"walk_forward", "passed_trial", "gate"}
  BY <1>1, <1>4, ChainWithin DEF NextWrites, WalkForwardTask, PassedTrialTask, GateTask
<1>5. CASE NextTask(p) = "shadow"
  <2>1. PICK window, x, b, beats :
          writes = BacktestWrites(window, None, beats) \o OutcomeWrites(p.entry, window, x, b)
    BY <1>1, <1>5 DEF NextWrites, ShadowTask
  <2> QED BY <2>1, ChainWithin
<1> QED BY <1>2, <1>3, <1>4, <1>5

LEMMA TaskLegal ==
  ASSUME Inv, NoneIsApart, NEW c \in Target, NEW p, p = Plan(c), NEW writes \in NextWrites(c, p)
  PROVE  Legal(writes)
<1>card. c \in store["cards"]
  BY TargetFacts
<1>rows. PlanRows(c, p)
  BY PlanFacts
<1>is. PlanIs(c, p)
  BY PlanParts
<1>ready. Ready(p)
  BY DEF NextWrites
<1>tasks. DOMAIN Tasks = 1..8 /\ RetestTasks = {"scaffold", "lock", "baseline", "backtest", "walk_forward",
                                              "passed_trial", "gate", "shadow"}
  BY DEF Tasks, RetestTasks
<1>some. NextTask(p) \in RetestTasks
  BY <1>ready, ReadyTask
<1>done. \A k \in 1..8 :
           NextTask(p) = Tasks[k] => ~Done(p, Tasks[k]) /\ \A j \in 1..k - 1 : Done(p, Tasks[j])
  BY <1>tasks, NextTaskFacts
<1>1. CASE NextTask(p) = "scaffold"
  <2>1. writes = ScaffoldWrites(c, p.dataset) /\ p.dataset # None
    BY <1>1, <1>ready DEF NextWrites, ScaffoldTask, Ready, ScaffoldReady
  <2> QED BY <1>card, <1>rows, <2>1, ScaffoldLegal DEF PlanRows
<1>2. CASE NextTask(p) = "lock"
  <2>1. p.dataset # None /\ (\E w : writes = LockWrites(c, p.dataset, w)) /\ (p.pending # None \/ p.passed # None)
    BY <1>2, <1>ready DEF NextWrites, LockTask, Ready, LockReady
  <2>2. Scaffolded(store, {}, c.id)
    BY <1>is, <2>1, PlanPending DEF Scaffolded
  <2> QED BY <1>card, <1>rows, <2>1, <2>2, LockLegal DEF PlanRows
<1>3. CASE NextTask(p) = "baseline"
  <2>1. PICK positive : writes = <<<<"baselines", Baseline(positive, now)>>>>
    BY <1>3 DEF NextWrites, BaselineTask, BaselineWrites
  <2> QED BY <2>1, BaselineLegal
<1>4. CASE NextTask(p) = "backtest"
  <2>1. Tasks[4] = "backtest" /\ Tasks[1] = "scaffold"
    BY DEF Tasks
  <2>2. ~Done(p, "backtest") /\ Done(p, "scaffold")
    BY <1>4, <1>done, <2>1
  <2>3. p.pending # None
    BY <1>rows, <2>2 DEF Done, PlanRows
  <2>4. \E w, b : writes = BacktestWrites(w, p.pending.id, b)
    BY <1>4 DEF NextWrites, BacktestTask
  <2> QED BY <1>rows, <2>3, <2>4, PendingFacts, BacktestLegal
<1>5. CASE NextTask(p) = "walk_forward"
  <2>1. Tasks[5] = "walk_forward" /\ Tasks[1] = "scaffold" /\ Tasks[4] = "backtest"
    BY DEF Tasks
  <2>2. ~Done(p, "walk_forward") /\ Done(p, "scaffold") /\ Done(p, "backtest")
    BY <1>5, <1>done, <2>1
  <2>3. p.pending # None /\ p.bt # None
    BY <1>rows, <2>2 DEF Done, PlanRows
  <2>4. \E b : writes = WalkForwardWrites(p.split.id.window, p.pending.id, p.bt.id, b)
    BY <1>5 DEF NextWrites, WalkForwardTask
  <2>5. OnFile("results", p.bt.id)
    BY <1>rows, <2>3 DEF PlanRows, OnFile
  <2>6. Has(store, "results", BacktestFor(p.pending, p.split.id.window))
    <3>1. p.passed = None
      BY <1>rows, <2>2 DEF Done, PlanRows
    <3>2. p.bt \in store["results"] /\ p.bt.id = BacktestFor(p.pending, p.split.id.window)
      BY <1>is, <2>3, <3>1, PlanBacktest
    <3> QED BY <3>2 DEF Has
  <2> QED BY <1>rows, <2>3, <2>4, <2>5, <2>6, PendingFacts, WalkForwardLegal DEF BacktestFor
<1>6. CASE NextTask(p) = "passed_trial"
  <2>1. Tasks[6] = "passed_trial" /\ Tasks[2] = "lock"
    BY DEF Tasks
  <2>2. Done(p, "lock")
    BY <1>6, <1>done, <2>1
  <2>3. p.cost # None /\ None \notin {p.pending, p.dataset, p.bt, p.wf}
    BY <1>6, <1>ready, <2>2 DEF Done, Ready, PassedTrialReady
  <2>4. OnFile("costs", "default")
    BY <1>rows, <2>3 DEF PlanRows, OnFile, Inv, RowsOK, Says, Files
  <2>5. OnFile("results", p.bt.id) /\ OnFile("walks", p.wf.id) /\ OnFile("datasets", p.dataset)
    BY <1>rows, <2>3 DEF PlanRows, OnFile
  <2>6. writes = TrialWrites(c, p.pending.id.index, "PASSED", TRUE, p.dataset, p.bt.id, p.wf.id,
                             p.pending.started)
    BY <1>6 DEF NextWrites, PassedTrialTask
  <2>7. p.pending \in store["trials"] /\ IsPendingOf(p.pending.id, c.id) /\ p.dataset = p.pending.dataset
    BY <1>is, <2>3, PlanPending
  <2> QED BY <1>card, <1>rows, <2>3, <2>4, <2>5, <2>6, <2>7, PendingFacts, TrialLegal
<1>7. CASE NextTask(p) = "gate"
  <2>1. None \notin {p.passed, p.split, p.cost, p.baseline, p.bt, p.wf}
    BY <1>7, <1>ready DEF Ready, GateReady
  <2>2. writes = GateWrites(EvaluationId(p))
    BY <1>7 DEF NextWrites, GateTask
  <2>3. TrialSays(store, {}, p.passed)
    BY <1>rows, <2>1, TrialOnFile DEF PlanRows
  <2>4. p.cost.id = "default"
    BY <1>rows, <2>1 DEF PlanRows, Inv, RowsOK, Says, Files
  <2>5. Asked(store, EvaluationId(p))
    BY <1>rows, <2>1, <2>3, <2>4 DEF Asked, EvaluationId, PlanRows, TrialSays, Found, Has
  <2> QED BY <2>2, <2>5, GateLegal
<1>8. CASE NextTask(p) = "shadow"
  <2>1. p.entry \in store["entries"]
    BY <1>8, <1>ready, <1>rows DEF Ready, ShadowReady, PlanRows
  <2>2. PICK window, x, b, beats :
          writes = BacktestWrites(window, None, beats) \o OutcomeWrites(p.entry, window, x, b)
    BY <1>8 DEF NextWrites, ShadowTask
  <2> QED BY <2>1, <2>2, ShadowLegal
<1> QED
  BY <1>1, <1>2, <1>3, <1>4, <1>5, <1>6, <1>7, <1>8, <1>some, <1>tasks

LEMMA FoldSingle ==
  ASSUME NEW files, NEW f \in Files, NEW r
  PROVE  FoldLeft(AppendRow, files, <<<<f, r>>>>) = AppendRow(files, <<f, r>>)
<1> DEFINE writes == <<<<f, r>>>>
<1>1. DOMAIN writes = {1} /\ DOMAIN writes = 1..1 /\ writes[1] = <<f, r>> /\ <<f, r>>[1] = f
  OBVIOUS
<1> HIDE DEF writes
<1>2. IsWrites(writes)
  BY <1>1 DEF IsWrites
<1>3. PICK g : Folds(files, writes, {1}, g) /\ FoldLeft(AppendRow, files, writes) = g[{1}]
  BY <1>1, <1>2, FoldIs
<1>4. Max({1}) = 1
  <2>1. Max({1}) \in {1}
    BY <1>1, <1>2, PartFacts
  <2> QED BY <2>1
<1>5. g[{1}] = FoldStep(files, writes, g, {1}) /\ g[{}] = FoldStep(files, writes, g, {})
  BY <1>3 DEF Folds
<1>6. {1} \ {1} = {} /\ {1} # {}
  OBVIOUS
<1>7. g[{1}] = AppendRow(files, writes[1])
  BY <1>4, <1>5, <1>6 DEF FoldStep
<1> QED BY <1>1, <1>3, <1>7 DEF writes

LEMMA FoldNone == FoldLeft(AppendRow, store, <<>>) = store
<1>1. DOMAIN <<>> = 1..0 /\ DOMAIN <<>> = {}
  OBVIOUS
<1>2. IsWrites(<<>>)
  BY <1>1 DEF IsWrites
<1>3. PICK g : Folds(store, <<>>, {}, g) /\ FoldLeft(AppendRow, store, <<>>) = g[{}]
  BY <1>1, <1>2, FoldIs
<1> QED BY <1>3 DEF Folds, FoldStep

LEMMA NothingRuns ==
  ASSUME Run(<<>>)
  PROVE  FALSE
<1>1. 1..Len(<<>>) - 1 = {} /\ ~Leaves(store)
  BY DEF Leaves
<1> QED BY <1>1, FoldNone DEF Run

\* Time passes.
LEMMA WaitKeeps ==
  ASSUME Inv, store' = store, now' \in Nat, now' >= now, UNCHANGED <<byHand, crashes>>
  PROVE  Inv'
<1>1. FilesOK'
  <2>1. now \in Nat
    BY TimeNow
  <2> QED BY <2>1 DEF Inv, FilesOK
<1>2. ClockOK'
  BY DEF Inv, ClockOK
<1>3. RowsOK'
  BY DEF Inv, RowsOK
<1> QED BY <1>1, <1>2, <1>3 DEF Inv

LEMMA ByHandKeeps ==
  ASSUME Inv, NoneIsApart, NEW writes, ByHand(writes), Legal(writes)
  PROVE  Inv'
<1>1. byHand' \in Nat
  BY DEF ByHand, Inv, ClockOK
<1> QED BY <1>1, RunKeeps DEF ByHand

LEMMA RoutinelyKeeps ==
  ASSUME Inv, NoneIsApart, NEW writes, Routinely(writes), Legal(writes)
  PROVE  Inv'
<1>1. byHand' \in Nat
  BY DEF Routinely, Inv, ClockOK
<1> QED BY <1>1, RunKeeps DEF Routinely

LEMMA DecideKeeps ==
  ASSUME Inv, NoneIsApart, Decide
  PROVE  Inv'
<1>1. PICK positive \in Edges : store' = [store EXCEPT !.baselines = @ \cup {Baseline(positive, now)}]
  BY DEF Decide, Decides
<1> DEFINE row == Baseline(positive, now)
           files == FoldLeft(AppendRow, store, <<<<"baselines", row>>>>)
<1>2. row.id = now
  BY DEF Baseline
<1>3. ~\E r \in store["baselines"] : r.id = now
  BY TimeNow DEF Inv, FilesOK, RowsOK, Says, Files
<1>4. store' = AppendRow(store, <<"baselines", row>>)
  BY <1>1, <1>2, <1>3 DEF AppendRow
<1>5. store' = files
  <2>1. "baselines" \in Files
    BY DEF Files
  <2> HIDE DEF row
  <2> QED BY <1>4, <2>1, FoldSingle
<1>6. Legal(<<<<"baselines", row>>>>)
  BY BaselineLegal
<1>7. files # store
  <2>1. row \in store'["baselines"]
    BY <1>1 DEF Inv, FilesOK, Files
  <2> QED BY <1>2, <1>3, <1>5, <2>1
<1>8. Leaves(files) /\ byHand' \in Nat /\ crashes' \in Nat
  <2> HIDE DEF files
  <2> QED BY <1>5, <1>7 DEF Leaves, Decide, Inv, ClockOK
<1> QED BY <1>6, <1>8, AppendKeeps

LEMMA TrialByHandRuns ==
  ASSUME Inv, NoneIsApart, NEW c \in Target, NEW p, p = Plan(c), TrialByHand(c, p)
  PROVE  Other
<1>card. c \in store["cards"]
  BY TargetFacts
<1>rows. PlanRows(c, p)
  BY PlanFacts
<1>now. now \in Nat /\ now <= now
  BY TimeNow
<1>1. CASE /\ NextTask(p) = "passed_trial"
           /\ ByHand(TrialWrites(c, p.pending.id.index, "PASSED", TRUE, p.dataset, p.bt.id, p.wf.id, now))
  <2>1. /\ Tasks[6] = "passed_trial" /\ Tasks[1] = "scaffold" /\ Tasks[2] = "lock"
        /\ Tasks[4] = "backtest" /\ Tasks[5] = "walk_forward" /\ DOMAIN Tasks = 1..8
    BY DEF Tasks
  <2>2. ~Done(p, "passed_trial") /\ \A j \in 1..5 : Done(p, Tasks[j])
    BY <1>1, <2>1, NextTaskFacts
  <2>3. Done(p, "scaffold") /\ Done(p, "lock") /\ Done(p, "backtest") /\ Done(p, "walk_forward")
    BY <2>1, <2>2
  <2>4. p.pending # None /\ p.cost # None /\ p.bt # None /\ p.wf # None
    BY <2>2, <2>3 DEF Done
  <2>5. OnFile("costs", "default")
    BY <1>rows, <2>4 DEF PlanRows, OnFile, Inv, RowsOK, Says, Files
  <2>6. OnFile("results", p.bt.id) /\ OnFile("walks", p.wf.id)
    BY <1>rows, <2>4 DEF PlanRows, OnFile
  <2>7. p.dataset = None \/ OnFile("datasets", p.dataset)
    BY <1>rows DEF PlanRows
  <2>8. /\ p.pending.id.index \in Nat
        /\ \A t \in store["trials"] :
             t.id.status = "PENDING" /\ t.id.card = c.id /\ t.id.index = p.pending.id.index => t.started <= now
    <3>1. /\ p.pending.id.index \in Nat /\ p.pending.started \in Nat /\ p.pending.started <= now
          /\ \A t \in store["trials"] :
               t.id.status = "PENDING" /\ t.id.card = c.id /\ t.id.index = p.pending.id.index
                 => t.started <= p.pending.started
      BY <1>rows, <2>4, PendingFacts
    <3>2. \A t \in store["trials"] : t.started \in Nat
      BY TrialOnFile DEF TrialSays
    <3> QED BY <1>now, <3>1, <3>2
  <2>9. Legal(TrialWrites(c, p.pending.id.index, "PASSED", TRUE, p.dataset, p.bt.id, p.wf.id, now))
    <3>1. PlanIs(c, p)
      BY PlanParts
    <3>2. p.pending \in store["trials"] /\ IsPendingOf(p.pending.id, c.id) /\ p.dataset = p.pending.dataset
      BY <2>4, <3>1, PlanPending
    <3> QED BY <1>card, <1>now, <2>5, <2>6, <2>7, <2>8, <3>2, TrialLegal
  <2> QED BY <1>1, <2>9, ChainWithin, OtherByHand
<1>2. CASE ByHand(TrialWrites(c, NextTrialIndex(c.id), "FAILED", FALSE, None, None, None, now))
  <2>1. NextTrialIndex(c.id) \in Nat
    BY NextIndexFacts
  <2>2. Legal(TrialWrites(c, NextTrialIndex(c.id), "FAILED", FALSE, None, None, None, now))
    BY <1>card, <1>now, <2>1, TrialLegal
  <2> QED BY <1>2, <2>2, ChainWithin, OtherByHand
<1> QED BY <1>1, <1>2 DEF TrialByHand

LEMMA GateByHandRuns ==
  ASSUME Inv, NoneIsApart, GateByHand
  PROVE  Other
<1> DEFINE e(t, s, b) == [card |-> t.id.card, trial |-> t.id, split |-> s.id, cost |-> "default",
                          baseline |-> b.id, bt |-> t.id.bt, wf |-> t.id.wf]
<1>1. PICK t \in store["trials"], s \in store["splits"], b \in store["baselines"] :
        ByHand(GateWrites(e(t, s, b)))
  BY DEF GateByHand
<1>2. TrialSays(store, {}, t)
  BY TrialOnFile
<1>3. Asked(store, e(t, s, b))
  BY <1>2 DEF Asked, TrialSays, Found, Has
<1> QED BY <1>1, <1>3, GateLegal, ChainWithin, OtherByHand

\* What the retest chain does.
LEMMA ChainRuns ==
  ASSUME Inv, NoneIsApart, ChainNext
  PROVE  \/ Work \/ Other \/ Decide
         \/ store' = store /\ UNCHANGED <<byHand, crashes>> /\ now' \in Nat /\ now' >= now
<1>1. ASSUME NEW c \in Target, NEW p, p = Plan(c), Execute(c, p) PROVE Work
  <2>1. PICK w \in NextWrites(c, p) : Routinely(Logged(NextTask(p), c.id, w))
    BY <1>1 DEF Execute
  <2>2. Legal(w) /\ Quiet(w) /\ IsWrites(w)
    BY <1>1, TaskLegal, TaskWithin, WithinFacts DEF Legal
  <2>3. Legal(Logged(NextTask(p), c.id, w)) /\ Quiet(Logged(NextTask(p), c.id, w))
    BY <2>2, LegalLogged, QuietLogged
  <2> QED BY <1>1, <2>1, <2>2, <2>3 DEF Work, Works, Appends
<1>2. ASSUME NEW p, Wait(p)
      PROVE  store' = store /\ UNCHANGED <<byHand, crashes>> /\ now' \in Nat /\ now' >= now
  <2>1. store' = store /\ UNCHANGED <<byHand, crashes>> /\ now' \in now + 1..now + Cadence
    BY <1>2 DEF Wait
  <2>2. now \in Nat /\ Cadence \in Nat
    BY TimeNow, TimeAssumption
  <2>3. now' \in Nat /\ now' >= now
    BY <2>1, <2>2
  <2> QED BY <2>1, <2>3
<1>3. ASSUME NEW c \in Target, NEW p, p = Plan(c), Observe(c, p) PROVE Work
  <2>1. p.entry \in store["entries"]
    BY <1>3, PlanFacts DEF Observe, PlanRows
  <2>2. PICK x, b : ByHand(Logged("shadow", c.id, OutcomeWrites(p.entry, <<p.entry.at, now>>, x, b)))
    BY <1>3 DEF Observe
  <2> DEFINE w == OutcomeWrites(p.entry, <<p.entry.at, now>>, x, b)
  <2>3. Legal(w) /\ Quiet(w)
    BY <2>1, ShadowLegal, ChainWithin, WithinFacts
  <2>parts. /\ w = OutcomeWrites(p.entry, <<p.entry.at, now>>, x, b)
            /\ NextTask(p) = "shadow" /\ p.entry # None
    BY <1>3 DEF Observe
  <2> HIDE DEF w
  <2>4. Legal(Logged("shadow", c.id, w)) /\ Quiet(Logged("shadow", c.id, w))
    BY <2>3, LegalLogged, QuietLogged DEF Legal
  <2>5. ByHand(Logged("shadow", c.id, w))
    BY <2>2 DEF w
  <2>6. Works(c, p, "shadow", w) /\ Appends(Logged("shadow", c.id, w))
    BY <1>3, <2>parts, <2>4, <2>5 DEF Works, Appends
  <2> QED BY <2>3, <2>6 DEF Work
<1>4. ASSUME NEW c \in Target, ScaffoldByHand(c) PROVE Other
  <2>1. c \in store["cards"]
    BY TargetFacts
  <2>2. \A d \in store["datasets"] : OnFile("datasets", d.id)
    BY DEF OnFile
  <2> QED BY <1>4, <2>1, <2>2, ScaffoldLegal, ScaffoldLockLegal, ChainWithin, OtherByHand DEF ScaffoldByHand
<1>5. ASSUME NEW c \in Target, NEW p, p = Plan(c), TrialByHand(c, p) PROVE Other
  BY <1>5, TrialByHandRuns
<1>6. ASSUME NEW p, BacktestByHand(p) PROVE Other
  BY <1>6, BacktestLegal, ChainWithin, OtherByHand DEF BacktestByHand, ForTrial
<1>7. ASSUME BuildDataset PROVE Other
  <2>1. Dataset.at = now
    BY DEF Dataset
  <2>2. Legal(<<<<"datasets", Dataset>>>>)
    BY <2>1, PlainLegal
  <2>3. Within(<<<<"datasets", Dataset>>>>)
    BY WithinOne DEF Elsewhere, Files
  <2> QED BY <1>7, <2>2, <2>3, OtherByHand DEF BuildDataset
<1> QED
  BY <1>1, <1>2, <1>3, <1>4, <1>5, <1>6, <1>7, GateByHandRuns DEF ChainNext

-----------------------------------------------------------------------------
(* The root of a lineage.                                                  *)

LEMMA CardFacts ==
  ASSUME Inv, NEW d \in store["cards"]
  PROVE  /\ CardSays(store, {}, d) /\ d.id \in Nat /\ d.id < now /\ d.at = d.id
         /\ d.parent # None => /\ Row("cards", d.parent) \in store["cards"]
                               /\ Row("cards", d.parent).id = d.parent /\ d.parent < d.id
         /\ \A q \in store["cards"] : q.id = d.id => q = d
<1>1. CardSays(store, {}, d) /\ d.at \in Nat /\ d.at < now /\ \A q \in store["cards"] : q.id = d.id => q = d
  BY DEF Inv, RowsOK, FilesOK, Says, Agree, Files
<1>2. d.id = d.at
  BY <1>1 DEF CardSays
<1>3. ASSUME d.parent # None PROVE OnFile("cards", d.parent) /\ d.parent < d.id
  BY <1>1, <1>3 DEF CardSays, Found, Has, OnFile
<1> QED BY <1>1, <1>2, <1>3, RowFacts

\* A card that names no parent is its own top; another has that of its parent.
TopStep(g, d) == IF d.parent = None THEN d ELSE g[Row("cards", d.parent)]
CardsBelow(n) == {d \in store.cards : d.id < n}
TopsBelow(n, g) == g = [d \in CardsBelow(n) |-> TopStep(g, d)]

LEMMA TopExists ==
  ASSUME Inv, NEW n \in Nat
  PROVE  \E g : TopsBelow(n, g)
<1> DEFINE Bad == {m \in Nat : ~\E g : TopsBelow(m, g)}
<1>1. ASSUME NEW m \in Bad, \A k \in Bad : m <= k PROVE FALSE
  <2>0. m \in Nat /\ ~\E g : TopsBelow(m, g)
    BY <1>1
  <2>1. CASE m = 0
    <3> DEFINE g == [d \in CardsBelow(0) |-> d]
    <3>1. CardsBelow(0) = {}
      BY CardFacts DEF CardsBelow
    <3>2. TopsBelow(0, g)
      BY <3>1 DEF TopsBelow
    <3> QED BY <2>0, <2>1, <3>2
  <2>2. CASE m # 0
    <3>1. m - 1 \in Nat /\ m - 1 \notin Bad
      <4>1. m - 1 \in Nat /\ ~(m <= m - 1)
        BY <2>0, <2>2
      <4> HIDE DEF Bad
      <4> QED BY <1>1, <4>1
    <3>2. PICK h : TopsBelow(m - 1, h)
      BY <3>1
    <3>3. h = [d \in CardsBelow(m - 1) |-> TopStep(h, d)]
      BY <3>2 DEF TopsBelow
    <3> DEFINE g == [d \in CardsBelow(m) |-> TopStep(h, d)]
    <3>4. ASSUME NEW d \in CardsBelow(m) PROVE TopStep(h, d) = TopStep(g, d)
      <4>1. CASE d.parent = None
        BY <4>1 DEF TopStep
      <4>2. CASE d.parent # None
        <5> DEFINE q == Row("cards", d.parent)
        <5>1. d \in store["cards"] /\ d.id < m
          BY DEF CardsBelow
        <5>2. q \in store["cards"] /\ q.id < d.id /\ q.id \in Nat /\ d.id \in Nat
          BY <4>2, <5>1, CardFacts
        <5>3. q \in CardsBelow(m - 1) /\ q \in CardsBelow(m)
          <6> HIDE DEF q
          <6> QED BY <2>0, <5>1, <5>2 DEF CardsBelow
        <5> HIDE DEF q
        <5>4. h[q] = TopStep(h, q) /\ g[q] = TopStep(h, q)
          BY <3>3, <5>3
        <5> QED BY <4>2, <5>4 DEF TopStep, q
      <4> QED BY <4>1, <4>2
    <3>5. TopsBelow(m, g)
      BY <3>4 DEF TopsBelow
    <3> QED BY <2>0, <3>5
  <2> QED BY <2>1, <2>2
<1>2. Bad = {}
  <2> HIDE DEF Bad
  <2>1. Bad \in SUBSET Nat
    BY DEF Bad
  <2> QED BY <1>1, <2>1, LeastNat
<1> QED BY <1>2

LEMMA TopFacts ==
  ASSUME Inv, NEW c \in store["cards"]
  PROVE  Top(c) \in store["cards"] /\ Top(c).parent = None
<1> DEFINE top == CHOOSE top : top = [d \in store.cards |-> IF d.parent = None THEN d ELSE top[Row("cards", d.parent)]]
<1>1. CardsBelow(now) = store.cards
  BY CardFacts DEF CardsBelow
<1>2. \E g : g = [d \in store.cards |-> IF d.parent = None THEN d ELSE g[Row("cards", d.parent)]]
  BY <1>1, TimeNow, TopExists DEF TopsBelow, TopStep
<1>3. top = [d \in store.cards |-> IF d.parent = None THEN d ELSE top[Row("cards", d.parent)]]
  BY <1>2
<1>4. Top(c) = top[c]
  BY DEF Top
<1> HIDE DEF top
<1> DEFINE Rooted(d) == top[d] \in store["cards"] /\ top[d].parent = None
           Bad == {d.id : d \in {e \in store["cards"] : ~Rooted(e)}}
<1>5. ASSUME NEW n \in Bad, \A k \in Bad : n <= k PROVE FALSE
  <2>1. PICK d \in store["cards"] : d.id = n /\ ~Rooted(d)
    BY <1>5
  <2>2. top[d] = IF d.parent = None THEN d ELSE top[Row("cards", d.parent)]
    BY <1>3
  <2>3. d.parent # None
    BY <2>1, <2>2
  <2> DEFINE q == Row("cards", d.parent)
  <2>4. q \in store["cards"] /\ q.id < d.id /\ q.id \in Nat /\ d.id \in Nat
    BY <2>3, CardFacts
  <2>5. ~Rooted(q)
    BY <2>1, <2>2, <2>3
  <2>6. q.id \in Bad
    BY <2>4, <2>5
  <2> HIDE DEF q, Bad
  <2> QED BY <1>5, <2>1, <2>4, <2>6
<1>6. Bad \in SUBSET Nat
  BY CardFacts
<1>7. Bad = {}
  <2> HIDE DEF Bad
  <2> QED BY <1>5, <1>6, LeastNat
<1>8. Rooted(c)
  BY <1>7
<1> QED BY <1>4, <1>8

LEMMA RootFacts ==
  ASSUME Inv, NEW c \in store["cards"]
  PROVE  RootOf(c) \in store["cards"] /\ RootOf(c).parent = None
<1>1. CASE c.basis = "replacement"
  <2>1. PICK q \in store["cards"] : q.id = c.root /\ q.parent = None
    BY <1>1, CardFacts DEF CardSays
  <2>2. OnFile("cards", c.root)
    BY <2>1 DEF OnFile
  <2>3. Row("cards", c.root) = q
    BY <2>1, <2>2, CardFacts, RowFacts
  <2> QED BY <1>1, <2>1, <2>3 DEF RootOf
<1>2. CASE c.basis # "replacement"
  BY <1>2, TopFacts DEF RootOf
<1> QED BY <1>1, <1>2

\* An agenda names cards on file, the last of which is found.
LEMMA AgendaFacts ==
  ASSUME Inv, NoneIsApart, NEW a \in store["agendas"]
  PROVE  /\ OnFile("agendas", a.id)
         /\ OnFile("cards", Latest({c \in store.cards : c.id \in a.id.cards}).id)
         /\ a.id.basis = "lineage" => \E c \in store["cards"] : c.id \in a.id.cards /\ c.parent = None
         /\ \A id \in a.id.cards : OnFile("cards", id) /\ \E c \in store["cards"] : c.id = id
<1> DEFINE named == {c \in store.cards : c.id \in a.id.cards}
<1>1. AgendaSays(store, {}, a)
  BY DEF Inv, RowsOK, Says, Files
<1>2. PICK id \in a.id.cards : Has(store, "cards", id)
  BY <1>1 DEF AgendaSays, Found
<1>3. named # {} /\ named \in SUBSET store["cards"] /\ "cards" \in Files
  BY <1>2 DEF Has, Files
<1>4. OnFile("cards", Latest(named).id)
  <2> HIDE DEF named
  <2> QED BY <1>3, LatestOf
<1> QED BY <1>1, <1>4 DEF OnFile, AgendaSays, Found, Has

LEMMA AnchorFacts ==
  ASSUME Inv, NoneIsApart
  PROVE  /\ IsFiniteSet(Anchors) /\ Anchors # {}
         /\ \A x \in Anchors : x.at \in Nat /\ OnFile("cards", x.card)
<1>files. {"cards", "trials", "evaluations", "entries", "outcomes", "agendas"} \subseteq Files
  BY DEF Files
<1>0. \A f \in Files : IsFiniteSet(store[f]) /\ \A r \in store[f] : r.at \in Nat
  BY DEF Inv, FilesOK
<1> DEFINE gates == store.evaluations \cup store.entries
           card(a) == Latest({c \in store.cards : c.id \in a.id.cards}).id
           A == {[at |-> c.at, card |-> c.id] : c \in store.cards}
           B == {[at |-> t.at, card |-> t.id.card] : t \in store.trials}
           C == {[at |-> e.at, card |-> e.id.card] : e \in gates}
           D == {[at |-> o.at, card |-> o.card] : o \in store.outcomes}
           E == {[at |-> a.at, card |-> card(a)] : a \in store.agendas}
<1>1. Anchors = A \cup B \cup C \cup D \cup E
  BY DEF Anchors
<1>2. IsFiniteSet(A)
  <2> DEFINE f == [c \in store.cards |-> [at |-> c.at, card |-> c.id]]
  <2>1. IsFiniteSet({f[x] : x \in DOMAIN f})
    BY <1>files, <1>0, FiniteImage
  <2> QED BY <2>1
<1>3. IsFiniteSet(B)
  <2> DEFINE f == [t \in store.trials |-> [at |-> t.at, card |-> t.id.card]]
  <2>1. IsFiniteSet({f[x] : x \in DOMAIN f})
    BY <1>files, <1>0, FiniteImage
  <2> QED BY <2>1
<1>4. IsFiniteSet(C)
  <2> DEFINE f == [e \in gates |-> [at |-> e.at, card |-> e.id.card]]
  <2>0. IsFiniteSet(gates)
    BY <1>files, <1>0, FS_Union
  <2>1. IsFiniteSet({f[x] : x \in DOMAIN f})
    BY <2>0, FiniteImage
  <2> QED BY <2>1
<1>5. IsFiniteSet(D)
  <2> DEFINE f == [o \in store.outcomes |-> [at |-> o.at, card |-> o.card]]
  <2>1. IsFiniteSet({f[x] : x \in DOMAIN f})
    BY <1>files, <1>0, FiniteImage
  <2> QED BY <2>1
<1>6. IsFiniteSet(E)
  <2> DEFINE f == [a \in store.agendas |-> [at |-> a.at, card |-> card(a)]]
  <2> HIDE DEF card
  <2>1. IsFiniteSet({f[x] : x \in DOMAIN f})
    BY <1>files, <1>0, FiniteImage
  <2> QED BY <2>1
<1>7. IsFiniteSet(Anchors)
  <2> HIDE DEF A, B, C, D, E
  <2>1. IsFiniteSet(A \cup B)
    BY <1>2, <1>3, FS_Union
  <2>2. IsFiniteSet(A \cup B \cup C)
    BY <1>4, <2>1, FS_Union
  <2>3. IsFiniteSet(A \cup B \cup C \cup D)
    BY <1>5, <2>2, FS_Union
  <2> QED BY <1>1, <1>6, <2>3, FS_Union
<1>8. Anchors # {}
  <2>1. PICK c \in store["cards"] : TRUE
    BY DEF Inv, RowsOK
  <2>2. [at |-> c.at, card |-> c.id] \in A
    OBVIOUS
  <2> QED BY <1>1, <2>2
<1>9. ASSUME NEW x \in Anchors PROVE x.at \in Nat /\ OnFile("cards", x.card)
  <2>1. CASE x \in A
    BY <1>files, <1>0, <2>1 DEF OnFile
  <2>2. CASE x \in B
    <3>1. PICK t \in store["trials"] : x = [at |-> t.at, card |-> t.id.card]
      BY <2>2
    <3> QED BY <3>1, TrialOnFile DEF TrialSays, Found, Has, OnFile
  <2>3. CASE x \in C
    <3>1. PICK e \in gates : x = [at |-> e.at, card |-> e.id.card]
      BY <2>3
    <3>2. e.at \in Nat /\ GateSays(store, e)
      BY <1>files, <1>0 DEF Inv, RowsOK, Says
    <3> QED BY <3>1, <3>2 DEF GateSays, Asked, Has, OnFile
  <2>4. CASE x \in D
    <3>1. PICK o \in store["outcomes"] : x = [at |-> o.at, card |-> o.card]
      BY <2>4
    <3>2. o.at \in Nat /\ OutcomeSays(store, {}, o)
      BY <1>files, <1>0 DEF Inv, RowsOK, Says
    <3> QED BY <3>1, <3>2 DEF OutcomeSays, Has, OnFile
  <2>5. CASE x \in E
    <3>1. PICK a \in store["agendas"] : x = [at |-> a.at, card |-> card(a)]
      BY <2>5
    <3>2. OnFile("cards", card(a)) /\ a.at \in Nat
      BY <1>files, <1>0, AgendaFacts
    <3> QED BY <3>1, <3>2
  <2> QED BY <1>1, <2>1, <2>2, <2>3, <2>4, <2>5
<1> QED BY <1>7, <1>8, <1>9

LEMMA ChainCardFacts ==
  ASSUME Inv, NoneIsApart
  PROVE  ChainCard \in store["cards"]
<1> DEFINE run == Latest(store.autopilots)
<1>1. CASE run # None
  <2>1. run \in store["autopilots"]
    BY <1>1, LatestOf DEF Files
  <2>2. OnFile("cards", run.id.card)
    BY <2>1 DEF Inv, RowsOK, Says, AutopilotSays, Has, OnFile, Files
  <2> QED BY <1>1, <2>2, RowFacts DEF ChainCard
<1>2. CASE run = None
  <2>1. Latest(Anchors) \in Anchors
    BY AnchorFacts, LatestFacts
  <2>2. OnFile("cards", Latest(Anchors).card)
    BY <2>1, AnchorFacts
  <2> QED BY <1>2, <2>2, RowFacts DEF ChainCard
<1> QED BY <1>1, <1>2

LEMMA PlannedRootFacts ==
  ASSUME Inv, NoneIsApart, OfBasis("lineage") # {}
  PROVE  PlannedRoot \in store["cards"] /\ PlannedRoot.parent = None
<1> DEFINE agenda == Latest(OfBasis("lineage"))
           named == {c \in store.cards : c.id \in agenda.id.cards}
           first == CHOOSE c \in named : c.parent = None
<1>1. agenda \in store["agendas"] /\ agenda.id.basis = "lineage"
  <2>1. OfBasis("lineage") \in SUBSET store["agendas"]
    BY DEF OfBasis
  <2>2. agenda \in OfBasis("lineage")
    BY <2>1, LatestOf DEF Files
  <2> QED BY <2>2 DEF OfBasis
<1>2. \E c \in named : c.parent = None
  <2> HIDE DEF agenda
  <2> QED BY <1>1, AgendaFacts
<1>3. first \in store["cards"]
  BY <1>2
<1>4. PlannedRoot = RootOf(first)
  BY DEF PlannedRoot
<1> HIDE DEF first
<1> QED BY <1>3, <1>4, RootFacts

-----------------------------------------------------------------------------
(* The commands of the lineage.                                            *)

\* A draft is for an outcome that no draft of its kind answers yet.
LEMMA DraftAllowed ==
  ASSUME Inv, NEW c, c.id = now, c.at = now, c.archetype,
         c.basis \in {"revision", "replacement"}, Optional(store, {}, "outcomes", c.source),
         c.parent = None \/ OnFile("cards", c.parent),
         c.basis = "revision" => c.parent = c.source.entry.card,
         c.basis = "replacement" =>
           c.parent = None /\ \E q \in store["cards"] : q.id = c.root /\ q.parent = None,
         ~\E q \in store["cards"] : q.basis = c.basis /\ q.source = c.source /\ q.archetype = c.archetype
  PROVE  Allowed(store, {}, "cards", c)
<1>1. ASSUME c.parent # None
      PROVE  c.parent \in Nat /\ c.parent < c.id /\ Found(store, {}, "cards", c.parent)
  <2>1. Row("cards", c.parent) \in store["cards"] /\ Row("cards", c.parent).id = c.parent
    BY <1>1, RowFacts
  <2> QED BY <2>1, CardFacts DEF Found, Has
<1>2. CardSays(store, {}, c)
  BY <1>1, TimeNow DEF CardSays
<1>3. \A q \in store["cards"] : Agree("cards", q, c) \/ q.id = c.id
  BY DEF Agree
<1>4. \A q \in store["cards"] : Agree("cards", c, q) \/ q.id = c.id
  BY DEF Agree
<1> QED BY <1>2, <1>3, <1>4 DEF Allowed, Says

AgendaRow(basis, cards, verdict, action, outcome) ==
  [id |-> [basis |-> basis, cards |-> cards, verdict |-> verdict, action |-> action,
           outcome |-> outcome],
   at |-> now]

LEMMA AgendaParts ==
  ASSUME NEW basis, NEW cards, NEW verdict, NEW action, NEW outcome
  PROVE  /\ Agenda(basis, cards, verdict, action, outcome) =
              <<"agendas", AgendaRow(basis, cards, verdict, action, outcome)>>
         /\ AgendaRow(basis, cards, verdict, action, outcome).at = now
         /\ AgendaRow(basis, cards, verdict, action, outcome).id.basis = basis
         /\ AgendaRow(basis, cards, verdict, action, outcome).id.cards = cards
BY DEF Agenda, AgendaRow

LEMMA AgendaAllowed ==
  ASSUME NEW before, NEW basis, NEW cards, cards # {},
         \A id \in cards : Found(store, before, "cards", id),
         basis = "lineage" => \E c \in store["cards"] : c.id \in cards /\ c.parent = None,
         NEW verdict, NEW action, NEW outcome
  PROVE  Allowed(store, before, "agendas", AgendaRow(basis, cards, verdict, action, outcome))
<1> DEFINE row == AgendaRow(basis, cards, verdict, action, outcome)
<1>1. row.at = now /\ row.id.basis = basis /\ row.id.cards = cards
  BY AgendaParts
<1> HIDE DEF row
<1>2. Allowed(store, before, "agendas", row)
  BY <1>1, AllowedSays DEF Says, AgendaSays
<1> QED BY <1>2 DEF row

\* What a revision is proposed for: an outcome on file, of a card on file.
LEMMA OutcomeFacts ==
  ASSUME Inv, NEW o \in store["outcomes"]
  PROVE  OnFile("outcomes", o.id) /\ OnFile("cards", o.card) /\ o.card = o.id.entry.card
BY DEF Inv, RowsOK, Says, OutcomeSays, Has, OnFile, Files

Revises(o, card, agenda) ==
  /\ card.id = now /\ card.at = now /\ card.basis = "revision" /\ card.source = o.id
  /\ card.parent = o.card /\ agenda.id.basis = "revision" /\ agenda.id.cards = {now}

LEMMA ReviseLegal ==
  ASSUME Inv, NEW o \in store["outcomes"], {c \in RevisionsFor(o.id) : c.parent = o.card} = {}
  PROVE  \E card, agenda :
           /\ <<<<"cards", Card(now, "revision", o.card, o.id, None, TRUE)>>,
                Agenda("revision", {now}, None, None, o.id)>> = <<<<"cards", card>>, <<"agendas", agenda>>>>
           /\ Revises(o, card, agenda)
           /\ Legal(<<<<"cards", card>>, <<"agendas", agenda>>>>)
<1> DEFINE card == Card(now, "revision", o.card, o.id, None, TRUE)
<1>1. /\ card.id = now /\ card.at = now /\ card.basis = "revision" /\ card.parent = o.card
      /\ card.source = o.id /\ card.archetype = TRUE
  BY DEF Card
<1> HIDE DEF card
<1>2. ~\E q \in store["cards"] : q.basis = card.basis /\ q.source = card.source /\ q.archetype = card.archetype
  <2> SUFFICES ASSUME NEW q \in store["cards"], q.basis = "revision", q.source = o.id PROVE FALSE
    BY <1>1
  <2>1. q.parent = o.card
    <3>1. CardSays(store, {}, q)
      BY CardFacts
    <3> QED BY <3>1, OutcomeFacts DEF CardSays
  <2> QED BY <2>1 DEF RevisionsFor
<1>3. Allowed(store, {}, "cards", card)
  <2>1. Optional(store, {}, "outcomes", card.source) /\ card.parent = card.source.entry.card
    BY <1>1, OutcomeFacts DEF Optional, Found, Has, OnFile
  <2> QED BY <1>1, <1>2, <2>1, OutcomeFacts, DraftAllowed
<1> DEFINE row == AgendaRow("revision", {now}, None, None, o.id)
<1>4. /\ Agenda("revision", {now}, None, None, o.id) = <<"agendas", row>>
      /\ row.id.basis = "revision" /\ row.id.cards = {now}
      /\ Allowed(store, {<<"cards", card>>}, "agendas", row)
  <2>1. \A id \in {now} : Found(store, {<<"cards", card>>}, "cards", id)
    BY <1>1 DEF Found
  <2>2. {now} # {} /\ "revision" # "lineage"
    OBVIOUS
  <2>3. Allowed(store, {<<"cards", card>>}, "agendas", row)
    BY <2>1, <2>2, AgendaAllowed, Zenon
  <2> QED BY <2>3, AgendaParts
<1> HIDE DEF row
<1>5. Legal(<<<<"cards", card>>, <<"agendas", row>>>>)
  BY <1>3, <1>4, LegalTwo DEF Files
<1>6. Revises(o, card, row)
  BY <1>1, <1>4 DEF Revises
<1> QED BY <1>4, <1>5, <1>6 DEF card

\* An agenda alone.
LEMMA AgendaLegal ==
  ASSUME Inv, NEW basis, NEW cards, cards # {}, \A id \in cards : OnFile("cards", id),
         basis = "lineage" => \E c \in store["cards"] : c.id \in cards /\ c.parent = None,
         NEW verdict, NEW action, NEW outcome
  PROVE  Legal(<<<<"agendas", AgendaRow(basis, cards, verdict, action, outcome)>>>>)
<1> DEFINE row == AgendaRow(basis, cards, verdict, action, outcome)
<1>1. \A id \in cards : Found(store, {}, "cards", id)
  BY DEF Found, Has, OnFile
<1>2. Allowed(store, {}, "agendas", row)
  BY <1>1, AgendaAllowed, Zenon
<1> HIDE DEF row
<1>3. Legal(<<<<"agendas", row>>>>)
  BY <1>2, LegalOne DEF Files
<1> QED BY <1>3 DEF row

LEMMA LineageAgendaLegal ==
  ASSUME Inv, NEW root \in store["cards"], root.parent = None, NEW verdict, NEW action
  PROVE  \E row :
           /\ Agenda("lineage", Ids({root} \cup Revisions(root)), verdict, action, None) = <<"agendas", row>>
           /\ row.id.basis = "lineage" /\ Legal(<<<<"agendas", row>>>>)
<1> DEFINE cards == Ids({root} \cup Revisions(root))
<1>1. root.id \in cards /\ \A id \in cards : OnFile("cards", id)
  BY DEF Ids, Revisions, OnFile
<1> HIDE DEF cards
<1> DEFINE row == AgendaRow("lineage", cards, verdict, action, None)
<1>2. Legal(<<<<"agendas", row>>>>)
  BY <1>1, AgendaLegal
<1>3. Agenda("lineage", cards, verdict, action, None) = <<"agendas", row>> /\ row.id.basis = "lineage"
  BY AgendaParts
<1> HIDE DEF row
<1> QED BY <1>2, <1>3 DEF cards

\* The row a lineage's task appends: a replacement, or the agenda of a cross-sample check.
ReplacesOrChecks(writes) ==
  \E f, row : /\ writes = <<<<f, row>>>> /\ Legal(<<<<f, row>>>>)
              /\ \/ f = "cards" /\ row.basis = "replacement"
                 \/ f = "agendas" /\ row.id.basis = "cross_sample"
LEMMA LineageLegal ==
  ASSUME Inv, NoneIsApart, NEW root \in store["cards"], root.parent = None,
         NEW task, task = LineageTask(root), LineageWrites(root, task) # <<>>
  PROVE  ReplacesOrChecks(LineageWrites(root, task))
<1> DEFINE last == Latest(Outcomes(root))
           drafted == ReplacementFor(last.id)
<1>last. last # None => last \in store["outcomes"]
  <2>1. Outcomes(root) \in SUBSET store["outcomes"]
    BY DEF Outcomes
  <2> QED BY <2>1, LatestOf DEF Files
<1>none. None \notin LineageTasks
  BY DEF NoneIsApart
<1>tasks. /\ {"draft_replacement", "refresh_replacement", "verify_cross_sample"} \subseteq LineageTasks
         /\ RevisionTask(last) \in {"propose_revision", None}
         /\ CrossSampleRunTask(root) \in {"cross_sample_run", None}
  BY DEF LineageTasks, RevisionTask, CrossSampleRunTask
<1>verify. last = None => task = "collect_evidence"
  BY DEF LineageTask
<1>cross. CrossSampleTask(root) \in {"verify_cross_sample", "cross_sample_run", None}
  BY <1>tasks DEF CrossSampleTask
<1>replace. \/ task \in {"collect_evidence", "propose_revision", "cross_sample_run", "verify_cross_sample", None}
            \/ task = ReplacementTask(last) /\ last # None
  <2>1. CASE last = None
    BY <1>verify, <2>1
  <2>2. CASE last # None /\ last.action = "QUARANTINE"
    BY <2>2 DEF LineageTask
  <2>3. CASE last # None /\ last.action # "QUARANTINE"
    <3>1. task = CASE Verdict(root) = "worse"  -> RevisionTask(last)
                   [] Verdict(root) = "better" -> CrossSampleTask(root)
                   [] OTHER                    -> "collect_evidence"
      BY <2>3 DEF LineageTask
    <3> QED BY <1>tasks, <1>cross, <3>1
  <2> QED BY <2>1, <2>2, <2>3
<1>task. /\ task = "draft_replacement" => last # None /\ drafted = None
         /\ task = "refresh_replacement" => last # None /\ drafted # None /\ ~drafted.archetype
         /\ task = "verify_cross_sample" => last # None
  <2>1. CASE task = "draft_replacement"
    <3>1. last # None /\ ReplacementTask(last) = "draft_replacement"
      BY <1>none, <1>tasks, <1>replace, <2>1
    <3> QED BY <1>none, <1>tasks, <2>1, <3>1 DEF ReplacementTask
  <2>2. CASE task = "refresh_replacement"
    <3>1. last # None /\ ReplacementTask(last) = "refresh_replacement"
      BY <1>none, <1>tasks, <1>replace, <2>2
    <3> QED BY <1>none, <1>tasks, <2>2, <3>1 DEF ReplacementTask
  <2>3. CASE task = "verify_cross_sample"
    BY <1>verify, <2>3
  <2> QED BY <2>1, <2>2, <2>3
<1>rows. {c \in store.cards : c.basis = "replacement" /\ c.source = last.id} \in SUBSET store["cards"]
  OBVIOUS
<1>drafted. /\ drafted = None => ~\E c \in store["cards"] : c.basis = "replacement" /\ c.source = last.id
            /\ drafted # None => /\ drafted \in store["cards"] /\ drafted.basis = "replacement"
                                 /\ drafted.source = last.id
                                 /\ \A c \in store["cards"] :
                                      c.basis = "replacement" /\ c.source = last.id => c.at <= drafted.at
  BY <1>rows, LatestOf DEF ReplacementFor, Files
<1> HIDE DEF last, drafted
<1>1. CASE task = "draft_replacement"
  <2> DEFINE card == Card(now, "replacement", None, last.id, root.id, TRUE)
  <2>1. /\ card.id = now /\ card.at = now /\ card.basis = "replacement" /\ card.parent = None
        /\ card.source = last.id /\ card.root = root.id /\ card.archetype = TRUE
    BY DEF Card
  <2>2. LineageWrites(root, task) = <<<<"cards", card>>>>
    BY <1>1 DEF LineageWrites, last
  <2> HIDE DEF card
  <2>3. Optional(store, {}, "outcomes", card.source)
    BY <1>1, <1>task, <1>last, <2>1 DEF Optional, Found, Has
  <2>4. ~\E q \in store["cards"] : q.basis = card.basis /\ q.source = card.source /\ q.archetype = card.archetype
    BY <1>1, <1>task, <1>drafted, <2>1
  <2>5. Allowed(store, {}, "cards", card)
    BY <2>1, <2>3, <2>4, DraftAllowed
  <2>6. Legal(<<<<"cards", card>>>>)
    BY <2>5, LegalOne DEF Files
  <2> QED BY <2>1, <2>2, <2>6 DEF ReplacesOrChecks
<1>2. CASE task = "refresh_replacement"
  <2> DEFINE card == Card(now, "replacement", None, drafted.source, drafted.root, TRUE)
  <2>1. /\ card.id = now /\ card.at = now /\ card.basis = "replacement" /\ card.parent = None
        /\ card.source = drafted.source /\ card.root = drafted.root /\ card.archetype = TRUE
    BY DEF Card
  <2>2. LineageWrites(root, task) = <<<<"cards", card>>>>
    BY <1>2 DEF LineageWrites, Refresh, last, drafted
  <2> HIDE DEF card
  <2>0. /\ drafted \in store["cards"] /\ drafted.basis = "replacement" /\ drafted.source = last.id
        /\ ~drafted.archetype
    BY <1>2, <1>task, <1>drafted
  <2>3. /\ Optional(store, {}, "outcomes", card.source)
        /\ \E q \in store["cards"] : q.id = card.root /\ q.parent = None
        /\ drafted.id = 1 /\ drafted.at = 1
    <3>1. CardSays(store, {}, drafted) /\ drafted.at = drafted.id
      BY <2>0, CardFacts
    <3> QED BY <2>0, <2>1, <3>1 DEF CardSays
  <2>4. ~\E q \in store["cards"] : q.basis = card.basis /\ q.source = card.source /\ q.archetype = card.archetype
    <3> SUFFICES ASSUME NEW q \in store["cards"], q.basis = "replacement", q.source = last.id, q.archetype
                 PROVE  FALSE
      BY <2>0, <2>1
    <3>1. q.at <= drafted.at
      BY <1>2, <1>task, <1>drafted
    <3>2. q.at = q.id /\ q.id \in Nat /\ q.id > 1
      BY CardFacts DEF CardSays
    <3> QED BY <2>3, <3>1, <3>2
  <2>5. Allowed(store, {}, "cards", card)
    BY <2>1, <2>3, <2>4, DraftAllowed
  <2>6. Legal(<<<<"cards", card>>>>)
    BY <2>5, LegalOne DEF Files
  <2> QED BY <2>1, <2>2, <2>6 DEF ReplacesOrChecks
<1>3. CASE task = "verify_cross_sample"
  <2> DEFINE cards == CrossSampleCards(root)
  <2>1. LineageWrites(root, task) = <<Agenda("cross_sample", cards, Verdict(root), None, last.id)>>
    BY <1>3 DEF LineageWrites, last
  <2>2. cards # {} /\ \A id \in cards : OnFile("cards", id)
    <3>1. OnFile("cards", last.card) /\ OnFile("cards", root.id)
      BY <1>3, <1>task, <1>last, OutcomeFacts DEF OnFile
    <3> QED BY <3>1 DEF CrossSampleCards, last
  <2> HIDE DEF cards
  <2> DEFINE row == AgendaRow("cross_sample", cards, Verdict(root), None, last.id)
  <2>3. "cross_sample" # "lineage"
    OBVIOUS
  <2>4. Legal(<<<<"agendas", row>>>>)
    BY <2>2, <2>3, AgendaLegal, Zenon
  <2>5. Agenda("cross_sample", cards, Verdict(root), None, last.id) = <<"agendas", row>>
        /\ row.id.basis = "cross_sample"
    BY AgendaParts
  <2> HIDE DEF row
  <2> QED BY <2>1, <2>4, <2>5 DEF ReplacesOrChecks
<1>4. CASE task \notin {"draft_replacement", "refresh_replacement", "verify_cross_sample"}
  BY <1>4 DEF LineageWrites
<1> QED BY <1>1, <1>2, <1>3, <1>4

-----------------------------------------------------------------------------
(* The commands of the autopilot.                                          *)

LEMMA TestedFacts ==
  ASSUME Inv, NoneIsApart, NEW c \in Target, NEW p, p = Plan(c), p.passed # None, p.outcome # None,
         p.entry.rankable, NEW id, id.card = c.id, id.entry = p.entry.id, id.outcome = p.outcome.id
  PROVE  Tested(store, id)
<1> DEFINE e == id.entry
           t == p.passed
           r == Row("results", t.id.bt)
           w == Row("walks", t.id.wf)
<1>rows. PlanRows(c, p)
  BY PlanFacts
<1>is. PlanIs(c, p)
  BY PlanParts
<1>1. /\ p.outcome \in store["outcomes"] /\ p.outcome.id.entry = e
      /\ p.entry \in store["entries"] /\ p.evaluation \in store["evaluations"]
      /\ p.entry.id = p.evaluation.id /\ e = EvaluationId(p)
      /\ None \notin {p.passed, p.split, p.cost, p.baseline, p.bt, p.wf}
  BY <1>rows DEF PlanRows
<1>2. /\ e.card = t.id.card /\ e.trial = t.id /\ e.split = p.split.id
      /\ e.bt = p.bt.id /\ e.wf = p.wf.id
  BY <1>1 DEF EvaluationId
<1>3. GateSays(store, p.entry) /\ GateSays(store, p.evaluation)
  BY <1>1 DEF Inv, RowsOK, Says, Files
<1>4. p.evaluation.rankable /\ Passes(store, e)
  BY <1>1, <1>3 DEF GateSays
<1>5. t \in store["trials"] /\ Valid(c, t) /\ p.dataset = t.dataset
  BY <1>1, <1>rows DEF PlanRows
<1>6. p.split.id.card = c.id /\ p.split = LatestSplit(c, t.dataset)
  BY <1>1, <1>rows, <1>is, <1>5 DEF PlanRows, PlanIs
<1>7. /\ t.id.card = c.id /\ t.id.status = "PASSED" /\ t.id.retest
      /\ OnFile("results", t.id.bt) /\ OnFile("walks", t.id.wf)
      /\ Fresh(r, t) /\ r.id.context \in Contexts(t)
      /\ Fresh(w, t) /\ w.id.context \in Contexts(t)
      /\ t.id.bt.window = p.split.id.window /\ t.id.wf.window = p.split.id.window
      /\ t.id.bt = t.id.wf.linked
  BY <1>5, <1>6 DEF Valid, BacktestBelongs, WalkForwardBelongs
<1>8. /\ r \in store["results"] /\ r.id = t.id.bt /\ w \in store["walks"] /\ w.id = t.id.wf
      /\ p.bt.id = t.id.bt /\ p.wf.id = t.id.wf
  BY <1>1, <1>7, <1>rows, RowFacts DEF PlanRows
<1> HIDE DEF r, w, t
<1>9. /\ ForTrial(store, r.id.context, r.at) /\ ForTrial(store, w.id.context, w.at)
      /\ r.at \in Nat /\ w.at \in Nat
  BY <1>8 DEF Inv, RowsOK, FilesOK, Says, ResultSays, WalkSays, Files
<1>10. PICK q \in store["trials"] : /\ q.id = r.id.context /\ IsPendingOf(q.id, t.id.card)
                                    /\ q.id.index = t.id.index /\ q.started <= t.started
  BY <1>5, <1>7, <1>9, ChainEvidence
<1>11. PICK q2 \in store["trials"] : q2.id = w.id.context /\ IsPendingOf(q2.id, t.id.card)
  BY <1>5, <1>7, <1>9, ChainEvidence
<1>12. q.id = q2.id
  BY <1>10, <1>11, OnePending
<1>13. r.at >= q.started /\ w.at >= q.started
  <2>1. q.started \in Nat /\ t.started \in Nat
    BY <1>5, TrialOnFile DEF TrialSays
  <2>2. r.at >= t.started /\ w.at >= t.started
    BY <1>7 DEF Fresh
  <2> QED BY <1>9, <1>10, <2>1, <2>2
<1>14. \E trial \in store["trials"] :
         /\ trial.id.card = e.card /\ trial.id.status = "PENDING" /\ trial.id.index = e.trial.index
         /\ e.bt.context = trial.id /\ e.wf.context = trial.id
         /\ \E row \in store["results"] : row.id = e.bt /\ row.at >= trial.started
         /\ \E row \in store["walks"] : row.id = e.wf /\ row.at >= trial.started
  BY <1>2, <1>8, <1>10, <1>11, <1>12, <1>13 DEF IsPendingOf
<1>15. /\ e.card = id.card /\ e.trial.card = e.card /\ e.trial.status = "PASSED"
       /\ e.split.card = e.card /\ e.split.window = e.bt.window /\ e.split.window = e.wf.window
       /\ e.trial.bt = e.bt /\ e.trial.wf = e.wf /\ e.wf.linked = e.bt
  BY <1>2, <1>6, <1>7, <1>8
<1>16. \E v \in store["evaluations"] : v.id = e /\ v.rankable
  BY <1>1, <1>4
<1> HIDE DEF e
<1> QED BY <1>1, <1>14, <1>15, <1>16 DEF Tested, e

\* A run the autopilot appends, of rows it found.
LEMMA RunAllowed ==
  ASSUME Inv, NoneIsApart, NEW agenda, OnFile("agendas", agenda), NEW c \in store["cards"],
         NEW entry \in store["entries"], NEW outcome, outcome = None \/ outcome \in store["outcomes"],
         NEW retest \in BOOLEAN,
         retest /\ LoopStatus(agenda, c, entry, outcome) = "READY_FOR_OPERATOR_REVIEW" =>
           \A id : id.card = c.id /\ id.entry = entry.id /\ (outcome # None => id.outcome = outcome.id)
                     => Tested(store, id)
  PROVE  \E row : /\ RunWrite(agenda, c, entry, outcome, retest) = <<"autopilots", row>>
                  /\ Allowed(store, {}, "autopilots", row)
<1> DEFINE status == LoopStatus(agenda, c, entry, outcome)
           row == AutopilotRun(agenda, c, entry, outcome, status, retest)
<1>1. /\ row.at = now /\ row.id.agenda = agenda /\ row.id.card = c.id /\ row.id.entry = entry.id
      /\ row.id.outcome = (IF outcome = None THEN None ELSE outcome.id)
      /\ row.id.status = status /\ row.retest = retest
  BY DEF AutopilotRun
<1> HIDE DEF row
<1>2. AutopilotSays(store, {}, row)
  <2>1. Has(store, "cards", row.id.card) /\ Has(store, "entries", row.id.entry)
    BY <1>1 DEF Has
  <2>2. Optional(store, {}, "agendas", row.id.agenda) /\ Optional(store, {}, "outcomes", row.id.outcome)
    BY <1>1 DEF Optional, Found, Has, OnFile
  <2>3. row.retest /\ row.id.status = "READY_FOR_OPERATOR_REVIEW" => Tested(store, row.id)
    BY <1>1
  <2> QED BY <2>1, <2>2, <2>3 DEF AutopilotSays
<1>3. Allowed(store, {}, "autopilots", row)
  BY <1>1, <1>2, AllowedSays DEF Says
<1> QED BY <1>3 DEF RunWrite, row

LEMMA RetestRunRuns ==
  ASSUME Inv, NoneIsApart, RecordRetestRun
  PROVE  \E row, digest :
           /\ Legal(<<<<"autopilots", row>>, <<"digests", digest>>>>)
           /\ Routinely(<<<<"autopilots", row>>, <<"digests", digest>>>>)
<1>0. PICK c \in Target :
        \E p \in {Plan(c)} :
          /\ NextTask(p) = None /\ p.passed # None /\ Cand(c) # {}
          /\ Routinely(<<RunWrite(Latest(Cand(c)).id, c, p.entry, p.outcome, TRUE), <<"digests", Digest(c)>>>>)
  BY DEF RecordRetestRun
<1> DEFINE p == Plan(c)
<1>1. /\ NextTask(p) = None /\ p.passed # None /\ Cand(c) # {}
      /\ Routinely(<<RunWrite(Latest(Cand(c)).id, c, p.entry, p.outcome, TRUE), <<"digests", Digest(c)>>>>)
  BY <1>0
<1> DEFINE agenda == Latest(Cand(c)).id
<1>rows. PlanRows(c, p)
  BY PlanFacts
<1>card. c \in store["cards"]
  BY TargetFacts
<1>plan. p = Plan(c)
  OBVIOUS
<1> HIDE DEF p
<1>2. OnFile("agendas", agenda)
  <2>1. Cand(c) \in SUBSET store["agendas"]
    BY DEF Cand, OfBasis
  <2> QED BY <1>1, <2>1, LatestOf DEF Files
<1>3. p.outcome # None
  <2>1. Tasks[8] = "shadow" /\ 8 \in DOMAIN Tasks
    BY DEF Tasks
  <2>2. Done(p, "shadow")
    BY <1>1, <2>1, NextTaskFacts
  <2> QED BY <2>2 DEF Done
<1>4. p.entry \in store["entries"] /\ p.outcome \in store["outcomes"]
  BY <1>3, <1>rows DEF PlanRows
<1> HIDE DEF agenda
<1>5. ASSUME LoopStatus(agenda, c, p.entry, p.outcome) = "READY_FOR_OPERATOR_REVIEW",
             NEW id, id.card = c.id, id.entry = p.entry.id, id.outcome = p.outcome.id
      PROVE  Tested(store, id)
  <2>1. p.entry.rankable
    BY <1>5 DEF LoopStatus, Blocked
  <2> QED BY <1>1, <1>3, <1>5, <1>plan, <2>1, TestedFacts
<1>6. PICK row : /\ RunWrite(agenda, c, p.entry, p.outcome, TRUE) = <<"autopilots", row>>
                 /\ Allowed(store, {}, "autopilots", row)
  <2>1. TRUE /\ LoopStatus(agenda, c, p.entry, p.outcome) = "READY_FOR_OPERATOR_REVIEW" =>
          \A id : id.card = c.id /\ id.entry = p.entry.id /\ (p.outcome # None => id.outcome = p.outcome.id)
                    => Tested(store, id)
    BY <1>3, <1>5
  <2>2. (p.outcome = None \/ p.outcome \in store["outcomes"]) /\ TRUE \in BOOLEAN
    BY <1>4
  <2> QED BY <1>card, <1>2, <1>4, <2>1, <2>2, RunAllowed, Zenon
<1>7. Allowed(store, {<<"autopilots", row>>}, "digests", Digest(c))
  <2>1. Digest(c).at = now
    BY DEF Digest
  <2> QED BY <2>1, AllowedPlain
<1>8. Legal(<<<<"autopilots", row>>, <<"digests", Digest(c)>>>>)
  BY <1>6, <1>7, LegalTwo DEF Files
<1> QED BY <1>1, <1>6, <1>8 DEF agenda

LEMMA RunByHandRuns ==
  ASSUME Inv, NoneIsApart, RecordRunByHand
  PROVE  \E row : Legal(<<<<"autopilots", row>>>>) /\ ByHand(<<<<"autopilots", row>>>>)
<1>1. PICK a \in store["agendas"], e \in store["entries"], o \in store["outcomes"] \cup {None} :
        ByHand(<<RunWrite(a.id, Row("cards", e.id.card), e, o, FALSE)>>)
  BY DEF RecordRunByHand
<1> DEFINE c == Row("cards", e.id.card)
<1>2. c \in store["cards"]
  <2>1. OnFile("cards", e.id.card)
    BY DEF Inv, RowsOK, Says, GateSays, Asked, Has, OnFile, Files
  <2> QED BY <2>1, RowFacts
<1>3. OnFile("agendas", a.id)
  BY DEF OnFile
<1> HIDE DEF c
<1>4. PICK row : /\ RunWrite(a.id, c, e, o, FALSE) = <<"autopilots", row>>
                 /\ Allowed(store, {}, "autopilots", row)
  BY <1>2, <1>3, RunAllowed
<1>5. Legal(<<<<"autopilots", row>>>>)
  BY <1>4, LegalOne DEF Files
<1> QED BY <1>1, <1>4, <1>5 DEF c

-----------------------------------------------------------------------------
(* Every step.                                                             *)

\* A revision is proposed: with its agenda, or the agenda that is missing.
Revise ==
  \E o \in store["outcomes"] :
    \/ \E card, agenda : /\ Revises(o, card, agenda)
                         /\ Legal(<<<<"cards", card>>, <<"agendas", agenda>>>>)
                         /\ Routinely(<<<<"cards", card>>, <<"agendas", agenda>>>>)
    \/ \E agenda : \E c \in store["cards"] :
         /\ agenda.id.cards = {c.id} /\ \A a \in OfBasis("revision") : a.id.cards # {c.id}
         /\ Legal(<<<<"agendas", agenda>>>>) /\ Routinely(<<<<"agendas", agenda>>>>)

LEMMA ReviseRuns ==
  ASSUME Inv, ProposeRevision
  PROVE  Revise
<1>1. PICK o \in store["outcomes"] : Routinely(ProposalWrites(o))
  BY DEF ProposeRevision
<1>2. CASE RevisionsIn(store, o) = {}
  <2>1. Routinely(Drafted(o))
    BY <1>1, <1>2 DEF ProposalWrites
  <2>2. {c \in RevisionsFor(o.id) : c.parent = o.card} = {}
    BY <1>2 DEF RevisionsIn, RevisionsFor
  <2> QED BY <2>1, <2>2, ReviseLegal DEF Revise, Drafted, AgendaOf
<1>3. CASE RevisionsIn(store, o) # {}
  <2> DEFINE c == CHOOSE c \in RevisionsIn(store, o) : TRUE
  <2>1. c \in store["cards"]
    BY <1>3 DEF RevisionsIn
  <2>2. ProposalWrites(o) = IF AgendasIn(store, c.id) # {} THEN <<>>
                            ELSE <<AgendaOf(c.id, o)>>
    BY <1>3 DEF ProposalWrites
  <2> HIDE DEF c
  <2>3. ProposalWrites(o) # <<>>
    BY <1>1, NothingRuns DEF Routinely
  <2>4. ProposalWrites(o) = <<AgendaOf(c.id, o)>> /\ ~\E a \in OfBasis("revision") : a.id.cards = {c.id}
    BY <2>2, <2>3 DEF AgendasIn, OfBasis
  <2> DEFINE row == AgendaRow("revision", {c.id}, None, None, o.id)
  <2>5. Legal(<<<<"agendas", row>>>>)
    <3>1. "revision" # "lineage" /\ {c.id} # {} /\ \A id \in {c.id} : OnFile("cards", id)
      BY <2>1 DEF OnFile
    <3> QED BY <3>1, AgendaLegal, Zenon
  <2>6. Routinely(<<<<"agendas", row>>>>) /\ row.id.cards = {c.id}
    BY <1>1, <2>4, AgendaParts DEF AgendaOf
  <2> HIDE DEF row
  <2> QED BY <2>1, <2>4, <2>5, <2>6 DEF Revise
<1> QED BY <1>2, <1>3

LEMMA LineageAgendaRuns ==
  ASSUME Inv, NoneIsApart, CreateLineageAgenda
  PROVE  Other
<1> DEFINE root == RootOf(ChainCard)
<1>1. root \in store["cards"] /\ root.parent = None
  BY ChainCardFacts, RootFacts
<1>2. ByHand(<<Agenda("lineage", Ids({root} \cup Revisions(root)), Verdict(root), LatestAction(root), None)>>)
  BY DEF CreateLineageAgenda
<1> HIDE DEF root
<1>3. PICK row :
        /\ Agenda("lineage", Ids({root} \cup Revisions(root)), Verdict(root), LatestAction(root), None)
             = <<"agendas", row>>
        /\ row.id.basis = "lineage" /\ Legal(<<<<"agendas", row>>>>)
  BY <1>1, LineageAgendaLegal
<1>4. Quiet(<<<<"agendas", row>>>>) /\ Aside(<<<<"agendas", row>>>>)
  BY <1>3, QuietOne DEF QuietRow
<1> QED BY <1>2, <1>3, <1>4 DEF Other, Appends

LEMMA ExecuteLineageRuns ==
  ASSUME Inv, NoneIsApart, ExecuteLineage
  PROVE  Other
<1> DEFINE root == PlannedRoot
           task == LineageTask(root)
           writes == LineageWrites(root, task)
<1>1. OfBasis("lineage") # {} /\ writes # <<>> /\ Routinely(Logged(task, root.id, writes))
  BY DEF ExecuteLineage
<1>2. root \in store["cards"] /\ root.parent = None /\ task = LineageTask(root)
  BY <1>1, PlannedRootFacts
<1>3. writes = LineageWrites(root, task)
  OBVIOUS
<1> HIDE DEF root, task, writes
<1>4. ReplacesOrChecks(writes)
  <2>1. LineageWrites(root, task) # <<>>
    BY <1>1, <1>3
  <2>2. ReplacesOrChecks(LineageWrites(root, task))
    BY <1>2, <2>1, LineageLegal
  <2> QED BY <1>3, <2>2
<1>5. Legal(writes) /\ Quiet(writes) /\ Aside(writes) /\ Untried(writes)
  BY <1>4, QuietOne DEF QuietRow, ReplacesOrChecks
<1>6. task \notin RetestTasks
  BY <1>1, <1>3 DEF LineageWrites, RetestTasks, Tasks
<1>7. /\ Legal(Logged(task, root.id, writes)) /\ Quiet(Logged(task, root.id, writes))
      /\ Aside(Logged(task, root.id, writes)) /\ Untried(Logged(task, root.id, writes))
  BY <1>5, <1>6, LegalLogged, QuietLogged, AsideLogged DEF Legal
<1> QED BY <1>1, <1>7 DEF Other, Appends

LEMMA NextRuns ==
  ASSUME Inv, NoneIsApart, [Next]_vars
  PROVE  \/ Work \/ Other \/ Revise \/ Decide
         \/ store' = store /\ UNCHANGED <<byHand, crashes>> /\ now' \in Nat /\ now' >= now
<1>1. CASE ChainNext
  BY <1>1, ChainRuns
<1>2. CASE RecordRetestRun
  <2>1. PICK row, digest : /\ Legal(<<<<"autopilots", row>>, <<"digests", digest>>>>)
                           /\ Routinely(<<<<"autopilots", row>>, <<"digests", digest>>>>)
    BY <1>2, RetestRunRuns
  <2>2. /\ Within(<<<<"autopilots", row>>, <<"digests", digest>>>>)
        /\ Untried(<<<<"autopilots", row>>, <<"digests", digest>>>>)
    BY WithinTwo, UntriedTwo DEF Elsewhere, Files
  <2> QED BY <2>1, <2>2, WithinFacts DEF Other, Appends
<1>3. CASE RecordRunByHand
  <2>1. PICK row : Legal(<<<<"autopilots", row>>>>) /\ ByHand(<<<<"autopilots", row>>>>)
    BY <1>3, RunByHandRuns
  <2>2. Within(<<<<"autopilots", row>>>>)
    BY WithinOne DEF Elsewhere, Files
  <2> QED BY <2>1, <2>2, OtherByHand
<1>4. CASE UNCHANGED vars
  BY <1>4, TimeNow DEF vars
<1> QED
  BY <1>1, <1>2, <1>3, <1>4, ReviseRuns, LineageAgendaRuns, ExecuteLineageRuns DEF Next

LEMMA AnyCommand == Work \/ Other => Command
BY DEF Work, Other, Command

LEMMA CommandKeeps ==
  ASSUME Inv, NoneIsApart, NEW writes, Legal(writes), Routinely(writes) \/ ByHand(writes)
  PROVE  Inv'
<1>1. byHand' \in Nat /\ Run(writes)
  BY DEF Routinely, ByHand, Inv, ClockOK
<1> QED BY <1>1, RunKeeps

LEMMA InvNext ==
  ASSUME Inv, NoneIsApart, [Next]_vars
  PROVE  Inv'
<1>1. CASE Command
  BY <1>1, CommandKeeps DEF Command, Appends
<1>2. CASE Revise
  BY <1>2, CommandKeeps DEF Revise
<1>3. CASE Decide
  BY <1>3, DecideKeeps
<1>4. CASE store' = store /\ UNCHANGED <<byHand, crashes>> /\ now' \in Nat /\ now' >= now
  BY <1>4, WaitKeeps
<1> QED BY <1>1, <1>2, <1>3, <1>4, NextRuns, AnyCommand

-----------------------------------------------------------------------------
(* A revision and its agenda.                                              *)

LEMMA AnswerNext ==
  ASSUME Inv, AnswerInv, NoneIsApart, [Next]_vars
  PROVE  AnswerInv'
<1>files. {"cards", "agendas"} \subseteq Files \ {"baselines"} /\ DOMAIN store = Files
  BY DEF Files, Inv, FilesOK
<1>1. CASE Command
  <2>1. PICK writes : Legal(writes) /\ Quiet(writes) /\ Run(writes)
    BY <1>1 DEF Command, Appends, Routinely, ByHand
  <2>2. /\ store["agendas"] \subseteq store'["agendas"]
        /\ \A r \in store'["agendas"] \ store["agendas"] : r.id.basis # "revision"
    BY <1>files, <2>1, RunRows DEF Quiet, QuietRow
  <2> QED BY <2>2 DEF AnswerInv, OfBasis
<1>2. CASE Revise
  <2>1. PICK o \in store["outcomes"] :
          \/ \E card, agenda : /\ Revises(o, card, agenda)
                               /\ Legal(<<<<"cards", card>>, <<"agendas", agenda>>>>)
                               /\ Routinely(<<<<"cards", card>>, <<"agendas", agenda>>>>)
          \/ \E agenda : \E c \in store["cards"] :
               /\ agenda.id.cards = {c.id} /\ \A a \in OfBasis("revision") : a.id.cards # {c.id}
               /\ Legal(<<<<"agendas", agenda>>>>) /\ Routinely(<<<<"agendas", agenda>>>>)
    BY <1>2 DEF Revise
  <2>2. ASSUME NEW card, NEW agenda, Revises(o, card, agenda),
               Legal(<<<<"cards", card>>, <<"agendas", agenda>>>>),
               Routinely(<<<<"cards", card>>, <<"agendas", agenda>>>>)
        PROVE  AnswerInv'
    <3> DEFINE writes == <<<<"cards", card>>, <<"agendas", agenda>>>>
    <3>1. /\ DOMAIN writes = {1, 2} /\ writes[1][1] = "cards" /\ writes[1][2] = card
          /\ writes[2][1] = "agendas" /\ writes[2][2] = agenda
      OBVIOUS
    <3>2. Legal(writes) /\ Run(writes)
      BY <2>2 DEF Routinely
    <3> HIDE DEF writes
    <3>3. store'["agendas"] \subseteq store["agendas"] \cup {agenda}
      BY <1>files, <3>1, <3>2, RunRows
    <3>old. \A a \in store["agendas"] : \A id \in a.id.cards : id # now
      <4> SUFFICES ASSUME NEW a \in store["agendas"], now \in a.id.cards PROVE FALSE
        OBVIOUS
      <4>1. PICK d \in store["cards"] : d.id = now
        BY DEF Inv, RowsOK, Says, AgendaSays, Found, Has, Files
      <4> QED BY <4>1, CardFacts, TimeNow
    <3>4. agenda.id.cards = {now}
      BY <2>2 DEF Revises
    <3> QED BY <3>3, <3>old, <3>4 DEF AnswerInv, OfBasis
  <2>3. ASSUME NEW agenda, NEW c \in store["cards"], agenda.id.cards = {c.id},
               \A a \in OfBasis("revision") : a.id.cards # {c.id},
               Legal(<<<<"agendas", agenda>>>>), Routinely(<<<<"agendas", agenda>>>>)
        PROVE  AnswerInv'
    <3> DEFINE writes == <<<<"agendas", agenda>>>>
    <3>1. DOMAIN writes = {1} /\ writes[1][1] = "agendas" /\ writes[1][2] = agenda
      OBVIOUS
    <3>2. Legal(writes) /\ Run(writes)
      BY <2>3 DEF Routinely
    <3> HIDE DEF writes
    <3>3. store'["agendas"] \subseteq store["agendas"] \cup {agenda}
      BY <1>files, <3>1, <3>2, RunRows
    <3> QED BY <2>3, <3>3 DEF AnswerInv, OfBasis
  <2> QED BY <2>1, <2>2, <2>3
<1>3. CASE Decide
  <2>1. PICK positive \in Edges : store' = [store EXCEPT !.baselines = @ \cup {Baseline(positive, now)}]
    BY <1>3 DEF Decide, Decides
  <2>2. store'.agendas = store.agendas
    BY <1>files, <2>1
  <2> QED BY <2>2 DEF AnswerInv, OfBasis
<1>4. CASE store' = store
  BY <1>4 DEF AnswerInv, OfBasis
<1> QED BY <1>1, <1>2, <1>3, <1>4, NextRuns, AnyCommand

-----------------------------------------------------------------------------
(* The files at the start.                                                 *)

\* The files of a root card with its gate and outcome; full tells whether the
\* gate's evidence is on file, and others the replacements drafted before.
Start(files, full, card, others, e, gated, outcome) ==
  /\ DOMAIN files = Files
  /\ files["cards"] = {card} \cup others
  /\ files["evaluations"] = {gated} /\ files["entries"] = {gated} /\ files["outcomes"] = {outcome}
  /\ files["datasets"] = {At0(0)}
  /\ files["trials"] = IF full THEN {[id |-> RootTrial, at |-> 0, dataset |-> 0, started |-> 0]} ELSE {}
  /\ files["splits"] = IF full THEN {At0(RootSplit)} ELSE {}
  /\ files["costs"] = IF full THEN {At0("default")} ELSE {}
  /\ files["baselines"] = IF full THEN {[id |-> 0, at |-> 0, positive |-> TRUE]} ELSE {}
  /\ files["runs"] = IF full THEN {At0(RootBacktest)} ELSE {}
  /\ files["results"] = IF full THEN {[id |-> RootBacktest, at |-> 0, beats |-> TRUE]} ELSE {}
  /\ files["walks"] = IF full THEN {[id |-> RootWalk, at |-> 0, beats |-> TRUE]} ELSE {}
  /\ \A f \in {"budgets", "automations", "agendas", "autopilots", "digests"} : files[f] = {}

StartRows(full, card, others, e, gated, outcome) ==
  /\ e = RootEvaluation(full)
  /\ card.id = 0 /\ card.at = 0 /\ card.basis = "registered" /\ card.parent = None
  /\ card.source = None /\ card.archetype = TRUE
  /\ gated.id = e /\ gated.at = 0 /\ gated.rankable = full
  /\ outcome.at = 2 /\ outcome.card = 0 /\ outcome.id.entry = e
  /\ \/ others = {}
     \/ \E d : /\ others = {d} /\ d.id = 1 /\ d.at = 1 /\ d.basis = "replacement" /\ d.parent = None
               /\ d.source = outcome.id /\ d.root = 0 /\ d.archetype = FALSE

LEMMA InitStart ==
  ASSUME Init
  PROVE  /\ now = 2 /\ byHand = 0 /\ crashes = 0
         /\ \E full \in BOOLEAN : \E card, others, e, gated, outcome :
              /\ Start(store, full, card, others, e, gated, outcome)
              /\ StartRows(full, card, others, e, gated, outcome)
<1>1. now = 2 /\ byHand = 0 /\ crashes = 0
  BY DEF Init
<1>2. PICK full \in BOOLEAN, x \in RootLevels, b \in Breaches \cup {None} :
        store = RootRows(full, x, b) \/ store = Legacy(RootRows(full, x, b))
  BY DEF Init
<1> DEFINE rows == RootRows(full, x, b)
           e == RootEvaluation(full)
           gated == [id |-> e, at |-> 0, rankable |-> full]
           outcome == Outcome(gated, <<0, 0>>, x, Action(full, x, b))
           card == Card(0, "registered", None, None, None, TRUE)
           legacy == Card(1, "replacement", None, outcome.id, 0, FALSE)
<1>3. card.id = 0 /\ card.at = 0 /\ card.basis = "registered" /\ card.parent = None
      /\ card.source = None /\ card.archetype = TRUE
  BY DEF Card
<1>4. legacy.id = 1 /\ legacy.at = 1 /\ legacy.basis = "replacement" /\ legacy.parent = None
      /\ legacy.source = outcome.id /\ legacy.root = 0 /\ legacy.archetype = FALSE
  BY DEF Card
<1>5. gated.id = e /\ gated.at = 0 /\ gated.rankable = full
  OBVIOUS
<1>6. e.card = 0
  BY DEF RootEvaluation
<1>7. outcome.at = 2 /\ outcome.card = 0 /\ outcome.id.entry = e
  BY <1>1, <1>6 DEF Outcome
<1>9. Start(rows, full, card, {}, e, gated, outcome)
  <2>1. DOMAIN rows = Files
    BY DEF RootRows
  <2>2. /\ rows["cards"] = {card} /\ rows["evaluations"] = {gated} /\ rows["entries"] = {gated}
        /\ rows["datasets"] = {At0(0)}
    BY DEF RootRows, Files
  <2>3. rows["outcomes"] = {outcome}
    BY DEF RootRows, Files
  <2>4. /\ rows["trials"] = IF full THEN {[id |-> RootTrial, at |-> 0, dataset |-> 0, started |-> 0]} ELSE {}
        /\ rows["splits"] = IF full THEN {At0(RootSplit)} ELSE {}
        /\ rows["costs"] = IF full THEN {At0("default")} ELSE {}
        /\ rows["baselines"] = IF full THEN {[id |-> 0, at |-> 0, positive |-> TRUE]} ELSE {}
    BY DEF RootRows, Files
  <2>5. /\ rows["runs"] = IF full THEN {At0(RootBacktest)} ELSE {}
        /\ rows["results"] = IF full THEN {[id |-> RootBacktest, at |-> 0, beats |-> TRUE]} ELSE {}
        /\ rows["walks"] = IF full THEN {[id |-> RootWalk, at |-> 0, beats |-> TRUE]} ELSE {}
    BY DEF RootRows, Files
  <2>6. \A f \in {"budgets", "automations", "agendas", "autopilots", "digests"} : rows[f] = {}
    BY DEF RootRows, Files
  <2> HIDE DEF rows, e, gated, outcome, card
  <2> QED BY <2>1, <2>2, <2>3, <2>4, <2>5, <2>6 DEF Start
<1> HIDE DEF rows, e, gated, outcome, card
<1>10. CASE store = rows
  <2>1. StartRows(full, card, {}, e, gated, outcome)
    BY <1>3, <1>5, <1>7 DEF StartRows, e
  <2> QED BY <1>1, <1>9, <1>10, <2>1
<1>11. CASE store = Legacy(rows)
  <2>1. rows.outcomes = {outcome} /\ DOMAIN rows = Files /\ "cards" \in Files
    BY <1>9 DEF Start, Files
  <2>2. store = [rows EXCEPT !.cards = @ \cup {legacy}]
    <3>1. (CHOOSE o \in rows.outcomes : TRUE) = outcome
      BY <2>1
    <3> QED BY <1>11, <3>1 DEF Legacy
  <2> HIDE DEF legacy
  <2>3. /\ DOMAIN store = Files /\ store["cards"] = {card} \cup {legacy}
        /\ \A f \in Files \ {"cards"} : store[f] = rows[f]
    BY <1>9, <2>1, <2>2 DEF Start
  <2>4. Start(store, full, card, {legacy}, e, gated, outcome)
    BY <1>9, <2>3 DEF Start, Files
  <2>5. StartRows(full, card, {legacy}, e, gated, outcome)
    BY <1>3, <1>4, <1>5, <1>7 DEF StartRows, e
  <2> QED BY <1>1, <2>4, <2>5
<1> QED BY <1>2, <1>10, <1>11 DEF rows

LEMMA InitInv ==
  ASSUME Init, NoneIsApart
  PROVE  Inv /\ AnswerInv
<1>0. now = 2 /\ byHand = 0 /\ crashes = 0
  BY InitStart
<1>1. PICK full \in BOOLEAN : \E card, others, e, gated, outcome :
        /\ Start(store, full, card, others, e, gated, outcome)
        /\ StartRows(full, card, others, e, gated, outcome)
  BY InitStart
<1>2. PICK card, others, e, gated, outcome :
        /\ Start(store, full, card, others, e, gated, outcome)
        /\ StartRows(full, card, others, e, gated, outcome)
  BY <1>1
<1>start. Start(store, full, card, others, e, gated, outcome)
  BY <1>2
<1>rows. StartRows(full, card, others, e, gated, outcome)
  BY <1>2
<1> DEFINE trial == [id |-> RootTrial, at |-> 0, dataset |-> 0, started |-> 0]
           baseline == [id |-> 0, at |-> 0, positive |-> TRUE]
           result == [id |-> RootBacktest, at |-> 0, beats |-> TRUE]
           walk == [id |-> RootWalk, at |-> 0, beats |-> TRUE]
<1>3. /\ trial.id = RootTrial /\ trial.at = 0 /\ trial.dataset = 0 /\ trial.started = 0
      /\ baseline.id = 0 /\ baseline.at = 0 /\ baseline.positive
      /\ result.id = RootBacktest /\ result.at = 0 /\ result.beats
      /\ walk.id = RootWalk /\ walk.at = 0 /\ walk.beats
  OBVIOUS
<1>4. \A id : At0(id).id = id /\ At0(id).at = 0
  BY DEF At0
<1>5. /\ store["trials"] = (IF full THEN {trial} ELSE {}) /\ store["baselines"] = (IF full THEN {baseline} ELSE {})
      /\ store["results"] = (IF full THEN {result} ELSE {}) /\ store["walks"] = (IF full THEN {walk} ELSE {})
  BY <1>start DEF Start
<1> HIDE DEF trial, baseline, result, walk
<1>6. FilesOK
  <2>1. \A f \in Files : \E x, y : store[f] \subseteq {x, y}
    BY <1>start, <1>rows, <1>5 DEF Start, StartRows, Files
  <2>2. \A f \in Files : IsFiniteSet(store[f])
    <3> SUFFICES ASSUME NEW f \in Files PROVE IsFiniteSet(store[f])
      OBVIOUS
    <3>1. PICK x, y : store[f] \subseteq {x, y}
      BY <2>1
    <3>2. IsFiniteSet({x, y})
      <4>1. IsFiniteSet({x}) /\ {x, y} = {x} \cup {y}
        BY FS_Singleton
      <4> QED BY <4>1, FS_AddElement
    <3> QED BY <3>1, <3>2, FS_Subset
  <2>3. \A f \in Files : \A r \in store[f] : r.at = 0 \/ (f = "cards" /\ r.at = 1) \/ (f = "outcomes" /\ r.at = 2)
    BY <1>start, <1>rows, <1>3, <1>4, <1>5 DEF Start, StartRows, Files
  <2> QED BY <1>0, <1>start, <2>2, <2>3 DEF FilesOK, Start
<1>7. ClockOK
  BY <1>0 DEF ClockOK
<1>8. card \in store["cards"] /\ card.id = 0 /\ card.parent = None
  BY <1>start, <1>rows DEF Start, StartRows
<1>9. \A c \in store["cards"] : CardSays(store, {}, c)
  <2>1. CardSays(store, {}, card)
    BY <1>rows DEF CardSays, StartRows, Optional
  <2>2. ASSUME NEW d \in others PROVE CardSays(store, {}, d)
    <3>1. /\ d.id = 1 /\ d.at = 1 /\ d.basis = "replacement" /\ d.parent = None
          /\ d.source = outcome.id /\ d.root = 0 /\ d.archetype = FALSE
      BY <1>rows, <2>2 DEF StartRows
    <3>2. Optional(store, {}, "outcomes", d.source)
      BY <1>start, <3>1 DEF Optional, Found, Has, Start
    <3> QED BY <1>8, <3>1, <3>2 DEF CardSays
  <2> QED BY <1>start, <2>1, <2>2 DEF Start
<1>10. ASSUME full
       PROVE  /\ TrialSays(store, {}, trial) /\ SplitSays(store, {}, At0(RootSplit))
              /\ ResultSays(store, {}, result) /\ WalkSays(store, {}, walk)
  <2>1. /\ Has(store, "cards", 0) /\ Has(store, "datasets", 0) /\ Has(store, "results", RootBacktest)
        /\ Has(store, "walks", RootWalk) /\ Has(store, "runs", RootBacktest) /\ Has(store, "costs", "default")
    BY <1>start, <1>3, <1>4, <1>5, <1>8, <1>10 DEF Has, Start
  <2>2. /\ RootTrial.card = 0 /\ RootTrial.index = 1 /\ RootTrial.status = "PASSED"
        /\ RootTrial.bt = RootBacktest /\ RootTrial.wf = RootWalk
        /\ RootTrial = [card |-> RootTrial.card, index |-> RootTrial.index, status |-> RootTrial.status,
                        retest |-> RootTrial.retest, bt |-> RootTrial.bt, wf |-> RootTrial.wf]
    BY DEF RootTrial
  <2>3. /\ RootBacktest.context = None /\ RootWalk.context = None /\ RootWalk.linked = RootBacktest
        /\ RootBacktest = [window |-> RootBacktest.window, context |-> RootBacktest.context]
        /\ RootWalk = [window |-> RootWalk.window, context |-> RootWalk.context, linked |-> RootWalk.linked]
    BY DEF RootBacktest, RootWalk
  <2>4. RootSplit.card = 0 /\ RootSplit.dataset = 0
    BY DEF RootSplit
  <2>5. TrialSays(store, {}, trial)
    BY <1>3, <2>1, <2>2 DEF TrialSays, Optional, Found, RootTrial
  <2>6. SplitSays(store, {}, At0(RootSplit))
    BY <1>4, <2>1, <2>4 DEF SplitSays, Optional, Found
  <2>7. ResultSays(store, {}, result)
    BY <1>3, <2>1, <2>3 DEF ResultSays, Found, ForTrial
  <2>8. WalkSays(store, {}, walk)
    BY <1>3, <2>1, <2>3 DEF WalkSays, Optional, Found, ForTrial
  <2> QED BY <2>5, <2>6, <2>7, <2>8
<1>11. GateSays(store, gated)
  <2>1. gated.id = e /\ gated.rankable = full /\ e = RootEvaluation(full)
    BY <1>rows DEF StartRows
  <2>2. CASE full
    <3>1. /\ e.card = 0 /\ e.trial = RootTrial /\ e.split = RootSplit /\ e.cost = "default"
          /\ e.baseline = 0 /\ e.bt = RootBacktest /\ e.wf = RootWalk
      BY <2>1, <2>2 DEF RootEvaluation
    <3>2. /\ RootTrial.card = 0 /\ RootTrial.status = "PASSED" /\ RootTrial.bt = RootBacktest
          /\ RootTrial.wf = RootWalk /\ RootSplit.card = 0 /\ RootSplit.dataset = 0
          /\ RootWalk.linked = RootBacktest
      BY DEF RootTrial, RootSplit, RootWalk
    <3>3. /\ Has(store, "cards", 0) /\ Has(store, "trials", RootTrial) /\ Has(store, "splits", RootSplit)
          /\ Has(store, "baselines", 0) /\ Has(store, "costs", "default")
      BY <1>start, <1>3, <1>4, <1>5, <1>8, <2>2 DEF Has, Start
    <3>4. Asked(store, e)
      BY <3>1, <3>2, <3>3 DEF Asked
    <3>5. trial \in store["trials"] /\ baseline \in store["baselines"] /\ result \in store["results"]
          /\ walk \in store["walks"]
      BY <1>5, <2>2
    <3>6. Passes(store, e)
      BY <1>3, <3>1, <3>2, <3>3, <3>5 DEF Passes
    <3> QED BY <2>1, <2>2, <3>4, <3>6 DEF GateSays
  <2>3. CASE ~full
    <3>1. e.card = 0 /\ e.trial = None
      BY <2>1, <2>3 DEF RootEvaluation
    <3>2. Asked(store, e) /\ ~Passes(store, e)
      BY <1>5, <1>8, <2>3, <3>1 DEF Asked, Has, Passes
    <3> QED BY <2>1, <2>3, <3>2 DEF GateSays
  <2> QED BY <2>2, <2>3
<1>12. OutcomeSays(store, {}, outcome) /\ Found(store, {}, "evaluations", gated.id)
  <2>1. e.card = 0
    BY <1>rows DEF StartRows, RootEvaluation
  <2> QED BY <1>start, <1>rows, <1>8, <2>1 DEF OutcomeSays, Start, StartRows, Has, Found
<1>13. \A f \in Files : \A r \in store[f] : Says(store, {}, f, r)
  <2> SUFFICES ASSUME NEW f \in Files, NEW r \in store[f] PROVE Says(store, {}, f, r)
    OBVIOUS
  <2>1. CASE f \in {"cards", "evaluations", "entries", "outcomes", "datasets", "costs"}
    BY <1>start, <1>4, <1>9, <1>11, <1>12, <2>1 DEF Says, Start
  <2>2. CASE f \in {"trials", "splits", "baselines", "runs", "results", "walks"}
    BY <1>start, <1>3, <1>5, <1>10, <2>2 DEF Says, Start
  <2>3. CASE f \in {"budgets", "automations", "agendas", "autopilots", "digests"}
    BY <1>start, <2>3 DEF Start
  <2> QED BY <2>1, <2>2, <2>3 DEF Files
<1>14. \A f \in Files : \A q, r \in store[f] : Agree(f, q, r)
  <2> SUFFICES ASSUME NEW f \in Files, NEW q \in store[f], NEW r \in store[f] PROVE Agree(f, q, r)
    OBVIOUS
  <2>1. CASE f = "cards"
    BY <1>start, <1>rows, <2>1 DEF Agree, Start, StartRows
  <2>2. CASE f # "cards"
    <3>1. q = r
      BY <1>start, <1>5, <2>2 DEF Start, Files
    <3>2. f = "trials" => q.started = 0
      BY <1>3, <1>5
    <3> QED BY <2>2, <3>1, <3>2 DEF Agree
  <2> QED BY <2>1, <2>2
<1>15. Inv
  BY <1>6, <1>7, <1>8, <1>13, <1>14 DEF Inv, RowsOK
<1>16. AnswerInv
  <2>1. store["agendas"] = {}
    BY <1>start DEF Start
  <2> QED BY <2>1 DEF AnswerInv, OfBasis
<1> QED BY <1>15, <1>16

-----------------------------------------------------------------------------
(* What the plan of a draft says of the files.                             *)

EvaluationFor(p) ==
  [card |-> p.pending.id.card, trial |-> PassedFor(p.pending, p.split.id.window), split |-> p.split.id,
   cost |-> "default", baseline |-> p.baseline.id,
   bt |-> BacktestFor(p.pending, p.split.id.window), wf |-> WalkFor(p.pending, p.split.id.window)]

\* The trial, the window and the baseline of a plan; the rest is whether a row with
\* the id that follows from them is on file.
ReadsBasis(files, c, p) ==
  /\ p.pending # None => /\ p.pending \in files["trials"] /\ IsPendingOf(p.pending.id, c.id)
                         /\ p.dataset = p.pending.dataset
  /\ \A q \in files["trials"] : IsPendingOf(q.id, c.id) => p.pending # None /\ q = p.pending
  /\ p.split = Latest({s \in files["splits"] : s.id.dataset = p.dataset /\ s.id.card = c.id})
  /\ p.split # None => /\ p.split \in files["splits"] /\ p.split.id.card = c.id
                       /\ p.split.id.dataset = p.dataset /\ p.pending # None
  /\ (\E s \in files["splits"] : s.id.card = c.id /\ s.id.dataset = p.dataset) => p.split # None
  /\ p.cost # None <=> files["costs"] # {}
  /\ p.baseline = Latest(files["baselines"])
  /\ p.baseline # None <=> files["baselines"] # {}
ReadsEvidence(files, p) ==
  LET window == p.split.id.window IN
  /\ p.bt # None <=> /\ p.pending # None /\ p.split # None
                     /\ Has(files, "results", BacktestFor(p.pending, window))
  /\ p.bt # None => /\ p.bt \in files["results"] /\ p.bt.id = BacktestFor(p.pending, window)
                    /\ p.bt.at >= p.pending.started
  /\ p.wf # None <=> /\ p.pending # None /\ p.split # None
                     /\ Has(files, "walks", WalkFor(p.pending, window))
  /\ p.wf # None => /\ p.wf \in files["walks"] /\ p.wf.id = WalkFor(p.pending, window)
                    /\ p.wf.at >= p.pending.started /\ p.bt # None
  /\ p.passed # None <=> /\ None \notin {p.pending, p.split, p.bt, p.wf}
                         /\ \E t \in files["trials"] :
                              /\ t.id = PassedFor(p.pending, window) /\ t.dataset = p.dataset
                              /\ p.bt.at >= t.started /\ p.wf.at >= t.started
  /\ p.passed # None => p.passed.id = PassedFor(p.pending, window)
ReadsGate(files, p) ==
  /\ p.evaluation # None <=> /\ None \notin {p.passed, p.cost, p.baseline}
                             /\ Has(files, "evaluations", EvaluationFor(p))
  /\ p.entry # None <=> p.evaluation # None /\ Has(files, "entries", EvaluationFor(p))
  /\ p.entry # None => p.entry.id = EvaluationFor(p)
  /\ p.outcome # None <=> p.entry # None /\ \E o \in files["outcomes"] : o.id.entry = EvaluationFor(p)
Reads(files, c, p) == ReadsBasis(files, c, p) /\ ReadsEvidence(files, p) /\ ReadsGate(files, p)

\* The plan has the PENDING trial of its card, the split, cost model and baseline for it.
LEMMA PlanBasis ==
  ASSUME Inv, NoneIsApart, NEW c, c.id # 0, NEW p, PlanIs(c, p)
  PROVE  ReadsBasis(store, c, p)
<1> DEFINE rows == {t \in store["trials"] : t.id.card = c.id /\ t.id.status = "PENDING" /\ t.id.retest}
           splits == {s \in store["splits"] : s.id.dataset = p.dataset /\ s.id.card = c.id}
<1>files. {"trials", "splits", "costs", "baselines"} \subseteq Files
  BY DEF Files
<1>1. p.pending # None => /\ p.pending \in store["trials"] /\ IsPendingOf(p.pending.id, c.id)
                          /\ p.dataset = p.pending.dataset
  BY PlanPending
<1>2. ASSUME NEW q \in store["trials"], IsPendingOf(q.id, c.id)
      PROVE  p.pending # None /\ q = p.pending
  <2>1. rows # {}
    BY <1>2 DEF IsPendingOf
  <2>2. rows \in SUBSET store["trials"] /\ p.pending = Latest(rows)
    BY DEF PlanIs, PendingTrial
  <2> HIDE DEF rows
  <2>3. p.pending # None
    BY <1>files, <2>1, <2>2, LatestOf
  <2> QED BY <1>2, <2>3, PlanPending
<1>3. p.split = Latest(splits)
  <2>1. splits = {s \in SplitsOf(p.dataset) : s.id.card = c.id}
    BY DEF SplitsOf
  <2> QED BY <2>1 DEF PlanIs, LatestSplit
<1>4. splits \in SUBSET store["splits"]
  OBVIOUS
<1>5. /\ p.split # None => p.split \in splits
      /\ splits # {} => p.split # None
  <2> HIDE DEF splits
  <2> QED BY <1>files, <1>3, <1>4, LatestOf
<1>6. ASSUME p.split # None PROVE p.pending # None
  <2>1. p.split \in store["splits"] /\ p.split.id.card = c.id
    BY <1>5, <1>6
  <2>2. Scaffolded(store, {}, c.id)
    BY <2>1 DEF Inv, RowsOK, Says, SplitSays, Files
  <2> QED BY <1>2, <2>2 DEF Scaffolded
<1>7. /\ p.cost # None <=> store["costs"] # {}
      /\ p.baseline = Latest(store["baselines"])
      /\ p.baseline # None <=> store["baselines"] # {}
  BY <1>files, LatestOf DEF PlanIs
<1> QED BY <1>1, <1>2, <1>3, <1>5, <1>6, <1>7 DEF ReadsBasis

\* A row of a retest is not older than the trial it names.
LEMMA MadeFor ==
  ASSUME Inv, NoneIsApart, NEW q \in store["trials"], NEW window
  PROVE  /\ \A r \in store["results"] : r.id = BacktestFor(q, window) =>
              r.at >= q.started /\ OnFile("runs", r.id) /\ r.id.context = q.id /\ r.id.window = window
         /\ \A w \in store["walks"] : w.id = WalkFor(q, window) =>
              /\ w.at >= q.started /\ w.id.context = q.id /\ w.id.window = window
              /\ w.id.linked = BacktestFor(q, window)
              /\ Has(store, "results", BacktestFor(q, window))
<1>1. q.id # None /\ q.started \in Nat
  BY TrialOnFile DEF TrialSays, NoneIsApart
<1>2. \A t \in store["trials"] : t.id = q.id => t = q
  BY DEF Inv, RowsOK, Agree, Files
<1>3. \A at : ForTrial(store, q.id, at) => q.started <= at
  BY <1>1, <1>2 DEF ForTrial
<1>4. ASSUME NEW r \in store["results"], r.id = BacktestFor(q, window)
      PROVE  r.at >= q.started /\ OnFile("runs", r.id) /\ r.id.context = q.id /\ r.id.window = window
  <2>1. ResultSays(store, {}, r) /\ r.at \in Nat
    BY DEF Inv, RowsOK, FilesOK, Says, Files
  <2>2. r.id.context = q.id /\ r.id.window = window
    BY <1>4 DEF BacktestFor
  <2> QED BY <1>1, <1>3, <2>1, <2>2 DEF ResultSays, Found, Has, OnFile
<1>5. ASSUME NEW w \in store["walks"], w.id = WalkFor(q, window)
      PROVE  /\ w.at >= q.started /\ w.id.context = q.id /\ w.id.window = window
             /\ w.id.linked = BacktestFor(q, window)
             /\ Has(store, "results", BacktestFor(q, window))
  <2>1. WalkSays(store, {}, w) /\ w.at \in Nat
    BY DEF Inv, RowsOK, FilesOK, Says, Files
  <2>2. w.id.context = q.id /\ w.id.window = window /\ w.id.linked = BacktestFor(q, window)
    BY <1>5 DEF WalkFor
  <2> QED BY <1>1, <1>3, <2>1, <2>2 DEF WalkSays, BacktestFor
<1> QED BY <1>4, <1>5

\* The backtest, the walk-forward and the PASSED trial of the plan are those made for its
\* trial, window and baseline, whenever such are on file.
LEMMA PlanEvidence ==
  ASSUME Inv, NoneIsApart, NEW c, c.id # 0, NEW p, PlanIs(c, p), PlanRows(c, p)
  PROVE  ReadsEvidence(store, p)
<1> DEFINE window == p.split.id.window
           q == p.pending
<1>files. {"trials", "results", "walks"} \subseteq Files
  BY DEF Files
<1>basis. ReadsBasis(store, c, p)
  BY PlanBasis
<1>unique. \A f \in Files : \A x, y \in store[f] : x.id = y.id => x = y
  BY DEF Inv, RowsOK, Agree
<1>passed. ASSUME p.passed # None
           PROVE  /\ q # None /\ p.split # None /\ p.passed.id = PassedFor(q, window)
                  /\ p.bt # None /\ p.wf # None
                  /\ p.bt \in store["results"] /\ p.bt.id = BacktestFor(q, window)
                  /\ p.wf \in store["walks"] /\ p.wf.id = WalkFor(q, window)
                  /\ p.passed \in store["trials"] /\ p.passed.dataset = p.dataset
                  /\ p.bt.at >= p.passed.started /\ p.wf.at >= p.passed.started
  <2>1. p.passed \in store["trials"] /\ Valid(c, p.passed) /\ p.dataset = p.passed.dataset
    BY <1>passed DEF PlanRows
  <2>2. p.split = LatestSplit(c, p.passed.dataset)
    BY <2>1 DEF PlanIs
  <2>3. PICK t \in store["trials"] :
          IsPendingOf(t.id, c.id) /\ p.split # None /\ p.passed.id = PassedFor(t, window)
    BY <2>1, <2>2, ValidFacts
  <2>4. q # None /\ t = q
    BY <1>basis, <2>3 DEF ReadsBasis
  <2>5. /\ p.bt \in store["results"] /\ p.bt.id = p.passed.id.bt /\ p.bt # None
        /\ p.wf \in store["walks"] /\ p.wf.id = p.passed.id.wf /\ p.wf # None
    BY <1>passed DEF PlanRows
  <2>6. p.passed.id.bt = BacktestFor(q, window) /\ p.passed.id.wf = WalkFor(q, window)
    <3>1. TrialSays(store, {}, t)
      BY TrialOnFile
    <3> QED BY <2>3, <2>4, <3>1 DEF PassedFor, TrialSays
  <2>7. p.bt.at >= p.passed.started /\ p.wf.at >= p.passed.started
    <3>1. /\ Row("results", p.passed.id.bt).at >= p.passed.started
          /\ Row("walks", p.passed.id.wf).at >= p.passed.started
      BY <2>1 DEF Valid, BacktestBelongs, WalkForwardBelongs, Fresh
    <3>2. p.bt = Row("results", p.passed.id.bt) /\ p.wf = Row("walks", p.passed.id.wf)
      BY <1>passed DEF PlanIs, SelectedBacktest, SelectedWalkForward
    <3> QED BY <3>1, <3>2
  <2> QED BY <2>1, <2>3, <2>4, <2>5, <2>6, <2>7
<1>made. ASSUME q # None
         PROVE  /\ q \in store["trials"] /\ IsPendingOf(q.id, c.id) /\ q.started \in Nat
                /\ p.dataset = q.dataset
                /\ \A r \in store["results"] : r.id = BacktestFor(q, window) =>
                     r.at >= q.started /\ OnFile("runs", r.id) /\ r.id.context = q.id /\ r.id.window = window
                /\ \A w \in store["walks"] : w.id = WalkFor(q, window) =>
                     /\ w.at >= q.started /\ w.id.context = q.id /\ w.id.window = window
                     /\ w.id.linked = BacktestFor(q, window)
                     /\ Has(store, "results", BacktestFor(q, window))
  <2>1. q \in store["trials"] /\ IsPendingOf(q.id, c.id) /\ p.dataset = q.dataset
    BY <1>basis, <1>made DEF ReadsBasis
  <2> HIDE DEF q, window
  <2> QED BY <2>1, TrialOnFile, MadeFor DEF TrialSays
<1>1. ASSUME p.bt # None
      PROVE  /\ q # None /\ p.split # None /\ p.bt \in store["results"]
             /\ p.bt.id = BacktestFor(q, window) /\ p.bt.at >= q.started
  <2>1. CASE p.passed # None
    BY <1>passed, <1>made, <2>1
  <2>2. CASE p.passed = None
    BY <1>1, <2>2, PlanBacktest
  <2> QED BY <2>1, <2>2
<1>2. ASSUME q # None, p.split # None, Has(store, "results", BacktestFor(q, window))
      PROVE  p.bt # None
  <2>1. CASE p.passed # None
    BY <1>passed, <2>1
  <2>2. CASE p.passed = None
    <3> DEFINE rows == {r \in store.results : BacktestBelongs(r, q, {q.id}) /\ r.id.window = window}
    <3>1. p.bt = Latest(rows)
      BY <1>2, <2>2 DEF PlanIs, SelectedBacktest
    <3>2. rows # {}
      BY <1>2, <1>made DEF Has, BacktestBelongs, Fresh
    <3>3. rows \in SUBSET store["results"]
      OBVIOUS
    <3> HIDE DEF rows
    <3> QED BY <1>files, <3>1, <3>2, <3>3, LatestOf
  <2> QED BY <2>1, <2>2
<1>3. ASSUME p.wf # None
      PROVE  /\ q # None /\ p.split # None /\ p.wf \in store["walks"] /\ p.bt # None
             /\ p.wf.id = WalkFor(q, window) /\ p.wf.at >= q.started
  <2>1. CASE p.passed # None
    BY <1>passed, <1>made, <2>1
  <2>2. CASE p.passed = None
    <3> DEFINE rows == {w \in store.walks :
                        /\ WalkForwardBelongs(w, q, {q.id})
                        /\ w.id.window = window
                        /\ p.bt # None => w.id.linked = p.bt.id}
    <3>1. q # None /\ p.split # None /\ p.wf = Latest(rows)
      BY <1>3, <2>2 DEF PlanIs, SelectedWalkForward
    <3>2. p.wf \in rows
      <4>1. rows \in SUBSET store["walks"]
        OBVIOUS
      <4> HIDE DEF rows
      <4> QED BY <1>files, <1>3, <3>1, <4>1, LatestOf
    <3>3. /\ p.wf \in store["walks"] /\ p.wf.at >= q.started /\ p.wf.id.context = q.id
          /\ p.wf.id.window = window /\ (p.bt # None => p.wf.id.linked = p.bt.id)
      BY <3>2 DEF WalkForwardBelongs, Fresh
    <3>4. WalkSays(store, {}, p.wf) /\ q.id # None
      <4>1. TrialSays(store, {}, q)
        BY <1>made, <3>1, TrialOnFile
      <4> QED BY <3>3, <4>1 DEF Inv, RowsOK, Says, Files, TrialSays, NoneIsApart
    <3>5. Has(store, "results", BacktestFor(q, window))
      BY <3>3, <3>4 DEF WalkSays, BacktestFor
    <3>6. p.bt # None
      BY <1>2, <3>1, <3>5
    <3>7. p.wf.id = WalkFor(q, window)
      BY <1>1, <3>3, <3>4, <3>6 DEF WalkSays, WalkFor
    <3> QED BY <3>1, <3>3, <3>6, <3>7
  <2> QED BY <2>1, <2>2
<1>4. ASSUME q # None, p.split # None, Has(store, "walks", WalkFor(q, window))
      PROVE  p.wf # None
  <2>1. CASE p.passed # None
    BY <1>passed, <2>1
  <2>2. CASE p.passed = None
    <3> DEFINE rows == {w \in store.walks :
                        /\ WalkForwardBelongs(w, q, {q.id})
                        /\ w.id.window = window
                        /\ p.bt # None => w.id.linked = p.bt.id}
    <3>1. p.wf = Latest(rows)
      BY <1>4, <2>2 DEF PlanIs, SelectedWalkForward
    <3>2. PICK w \in store["walks"] : w.id = WalkFor(q, window)
      BY <1>4 DEF Has
    <3>3. /\ w.at >= q.started /\ w.id.context = q.id /\ w.id.window = window
          /\ w.id.linked = BacktestFor(q, window)
      BY <1>4, <1>made, <3>2
    <3>4. w \in rows
      BY <1>1, <3>3 DEF WalkForwardBelongs, Fresh
    <3>5. rows \in SUBSET store["walks"]
      OBVIOUS
    <3> HIDE DEF rows
    <3> QED BY <1>files, <3>1, <3>4, <3>5, LatestOf
  <2> QED BY <2>1, <2>2
<1>5. ASSUME None \notin {q, p.split, p.bt, p.wf},
             NEW t \in store["trials"], t.id = PassedFor(q, window), t.dataset = p.dataset,
             p.bt.at >= t.started, p.wf.at >= t.started
      PROVE  p.passed # None
  <2>1. /\ p.bt \in store["results"] /\ p.bt.id = BacktestFor(q, window)
        /\ p.wf \in store["walks"] /\ p.wf.id = WalkFor(q, window)
    BY <1>1, <1>3, <1>5
  <2>2. /\ q \in store["trials"] /\ IsPendingOf(q.id, c.id) /\ p.dataset = q.dataset
        /\ OnFile("runs", p.bt.id) /\ p.bt.id.context = q.id /\ p.wf.id.context = q.id
        /\ p.bt.id.window = window /\ p.wf.id.window = window /\ p.wf.id.linked = p.bt.id
    BY <1>5, <1>made, <2>1
  <2>3. TrialSays(store, {}, q)
    BY <2>2, TrialOnFile
  <2>4. /\ t.id.card = c.id /\ t.id.status = "PASSED" /\ t.id.retest /\ t.id.index = q.id.index
        /\ t.id.bt = p.bt.id /\ t.id.wf = p.wf.id
    BY <1>5, <2>1, <2>2, <2>3 DEF PassedFor, IsPendingOf, TrialSays
  <2>5. /\ OnFile("results", t.id.bt) /\ Row("results", t.id.bt) = p.bt
        /\ OnFile("walks", t.id.wf) /\ Row("walks", t.id.wf) = p.wf
    <3>1. OnFile("results", t.id.bt) /\ OnFile("walks", t.id.wf)
      BY <2>1, <2>4 DEF OnFile
    <3> QED BY <1>files, <1>unique, <2>1, <2>4, <3>1, RowFacts
  <2>6. q.id \in Contexts(t)
    BY <1>5, <2>2, <2>4 DEF Contexts, SameChain, IsPendingOf
  <2>7. LatestSplit(c, t.dataset) = p.split
    BY <1>5 DEF PlanIs
  <2>8. Valid(c, t)
    BY <1>5, <2>2, <2>4, <2>5, <2>6, <2>7 DEF Valid, BacktestBelongs, WalkForwardBelongs, Fresh
  <2> DEFINE valid == {u \in store["trials"] : Valid(c, u)}
  <2>9. p.passed = Latest(valid) /\ t \in valid /\ valid \in SUBSET store["trials"]
    BY <2>8 DEF PlanIs, PassedTrial
  <2> HIDE DEF valid
  <2> QED BY <1>files, <2>9, LatestOf
<1> QED BY <1>passed, <1>1, <1>2, <1>3, <1>4, <1>5, <1>made DEF ReadsEvidence, Has

\* The gate of a plan, by what follows from its trial, window and baseline.
LEMMA GateFor ==
  ASSUME Inv, NoneIsApart, NEW c, NEW p, PlanRows(c, p), ReadsBasis(store, c, p), ReadsEvidence(store, p),
         None \notin {p.passed, p.cost, p.baseline}
  PROVE  /\ None \notin {p.pending, p.split, p.bt, p.wf}
         /\ EvaluationId(p) = EvaluationFor(p)
<1>1. /\ None \notin {p.pending, p.split, p.bt, p.wf}
      /\ p.passed.id = PassedFor(p.pending, p.split.id.window)
      /\ p.bt.id = BacktestFor(p.pending, p.split.id.window)
      /\ p.wf.id = WalkFor(p.pending, p.split.id.window)
  BY DEF ReadsEvidence
<1>2. p.cost.id = "default"
  BY DEF PlanRows, Inv, RowsOK, Says, Files
<1>3. p.passed.id.card = p.pending.id.card
  <2>1. TrialSays(store, {}, p.pending)
    BY <1>1, TrialOnFile DEF ReadsBasis
  <2> QED BY <1>1, <2>1 DEF PassedFor, TrialSays
<1> QED BY <1>1, <1>2, <1>3 DEF EvaluationId, EvaluationFor

\* The plan of a draft is told by what is on file under the ids that it looks for.
LEMMA PlanReads ==
  ASSUME NoneIsApart
  PROVE  \A c, p : Inv /\ c.id # 0 /\ p = Plan(c) => Reads(store, c, p)
<1> SUFFICES ASSUME Inv, NEW c, c.id # 0, NEW p, p = Plan(c) PROVE Reads(store, c, p)
  OBVIOUS
<1>is. PlanIs(c, p)
  BY PlanParts
<1>rows. PlanRows(c, p)
  BY PlanFacts
<1>files. {"evaluations", "entries", "outcomes"} \subseteq Files
  BY DEF Files
<1>1. ReadsBasis(store, c, p) /\ ReadsEvidence(store, p)
  BY <1>is, <1>rows, PlanBasis, PlanEvidence
<1>2. ASSUME None \notin {p.passed, p.cost, p.baseline}
      PROVE  /\ None \notin {p.pending, p.split, p.bt, p.wf}
             /\ EvaluationId(p) = EvaluationFor(p)
  BY <1>rows, <1>1, <1>2, GateFor
<1>3. p.evaluation # None <=> /\ None \notin {p.passed, p.cost, p.baseline}
                              /\ Has(store, "evaluations", EvaluationFor(p))
  <2> DEFINE rows == {e \in store["evaluations"] : e.id = EvaluationId(p)}
  <2>1. CASE None \in {p.passed, p.cost, p.baseline}
    BY <1>is, <2>1 DEF PlanIs, LockedEvaluation
  <2>2. CASE None \notin {p.passed, p.cost, p.baseline}
    <3>1. p.evaluation = Latest(rows)
      BY <1>is, <1>2, <2>2 DEF PlanIs, LockedEvaluation
    <3>2. rows # {} <=> Has(store, "evaluations", EvaluationFor(p))
      BY <1>2, <2>2 DEF Has
    <3>3. rows \in SUBSET store["evaluations"]
      OBVIOUS
    <3> HIDE DEF rows
    <3> QED BY <1>files, <2>2, <3>1, <3>2, <3>3, LatestOf
  <2> QED BY <2>1, <2>2
<1>4. p.evaluation # None => p.evaluation.id = EvaluationFor(p)
  BY <1>2, <1>3, <1>rows DEF PlanRows
<1>5. /\ p.entry # None <=> p.evaluation # None /\ Has(store, "entries", EvaluationFor(p))
      /\ p.entry # None => p.entry.id = EvaluationFor(p)
  <2> DEFINE rows == {e \in store["entries"] : e.id = p.evaluation.id}
  <2>1. CASE p.evaluation = None
    BY <1>is, <2>1 DEF PlanIs, LatestEntry
  <2>2. CASE p.evaluation # None
    <3>1. p.entry = Latest(rows) /\ rows \in SUBSET store["entries"]
      BY <1>is, <2>2 DEF PlanIs, LatestEntry
    <3>2. (rows # {} <=> Has(store, "entries", EvaluationFor(p))) /\ \A e \in rows : e.id = EvaluationFor(p)
      BY <1>4, <2>2 DEF Has
    <3> HIDE DEF rows
    <3> QED BY <1>files, <2>2, <3>1, <3>2, LatestOf
  <2> QED BY <2>1, <2>2
<1>6. p.outcome # None <=> p.entry # None /\ \E o \in store["outcomes"] : o.id.entry = EvaluationFor(p)
  <2> DEFINE rows == {o \in store["outcomes"] : o.id.entry = p.entry.id}
  <2>1. CASE p.entry = None
    BY <1>is, <2>1 DEF PlanIs, LatestOutcome
  <2>2. CASE p.entry # None
    <3>1. p.outcome = Latest(rows) /\ rows \in SUBSET store["outcomes"]
      BY <1>is, <2>2 DEF PlanIs, LatestOutcome
    <3>2. rows # {} <=> \E o \in store["outcomes"] : o.id.entry = EvaluationFor(p)
      BY <1>5, <2>2
    <3> HIDE DEF rows
    <3> QED BY <1>files, <2>2, <3>1, <3>2, LatestOf
  <2> QED BY <2>1, <2>2
<1> QED BY <1>1, <1>3, <1>5, <1>6 DEF Reads, ReadsGate

\* The plan before a step and after one.
Across(c, p, q) ==
  /\ Reads(store, c, p) /\ Reads(store', c, q)
  /\ \A f \in Files : store[f] \subseteq store'[f] /\ UniqueIds(store'[f])

\* A step changes neither the trial nor the dataset of a retest; nor its window, but
\* by a new split.
LEMMA PlanKept ==
  ASSUME NEW c, NEW p, NEW q, Across(c, p, q)
  PROVE  /\ p.pending # None => q.pending = p.pending /\ q.dataset = p.dataset
         /\ p.pending # None /\ store'["splits"] = store["splits"] => q.split = p.split
<1>files. {"trials", "splits"} \subseteq Files
  BY DEF Files
<1>1. ReadsBasis(store, c, p) /\ ReadsBasis(store', c, q)
  BY DEF Across, Reads
<1>2. ASSUME p.pending # None PROVE q.pending = p.pending /\ q.dataset = p.dataset
  <2>1. p.pending \in store'["trials"] /\ IsPendingOf(p.pending.id, c.id) /\ p.dataset = p.pending.dataset
    BY <1>files, <1>1, <1>2 DEF Across, ReadsBasis
  <2>2. q.pending # None /\ q.pending = p.pending
    BY <1>1, <2>1 DEF ReadsBasis
  <2> QED BY <1>1, <2>1, <2>2 DEF ReadsBasis
<1>3. ASSUME p.pending # None, store'["splits"] = store["splits"] PROVE q.split = p.split
  <2>1. q.dataset = p.dataset
    BY <1>2, <1>3
  <2>2. /\ p.split = Latest({s \in store["splits"] : s.id.dataset = p.dataset /\ s.id.card = c.id})
        /\ q.split = Latest({s \in store'["splits"] : s.id.dataset = q.dataset /\ s.id.card = c.id})
    BY <1>1 DEF ReadsBasis
  <2> QED BY <1>3, <2>1, <2>2
<1> QED BY <1>2, <1>3

\* What has been done stays done as long as the window is not locked again.
LEMMA EvidenceKept ==
  ASSUME NEW c, NEW p, NEW q, Across(c, p, q), store'["splits"] = store["splits"]
  PROVE  /\ p.bt # None => q.bt # None
         /\ p.wf # None => q.wf # None
         /\ p.passed # None => q.passed # None
<1>files. {"trials", "results", "walks"} \subseteq Files
  BY DEF Files
<1>1. ReadsBasis(store, c, p) /\ ReadsBasis(store', c, q) /\ ReadsEvidence(store, p) /\ ReadsEvidence(store', q)
  BY DEF Across, Reads
<1>2. p.pending # None => q.pending = p.pending /\ q.dataset = p.dataset /\ q.split = p.split
  BY PlanKept
<1>has. \A f \in Files : \A id : Has(store, f, id) => Has(store', f, id)
  BY DEF Across, Has
<1>3. p.bt # None => q.bt # None
  BY <1>1, <1>2, <1>has, <1>files DEF ReadsEvidence
<1>4. p.wf # None => q.wf # None
  BY <1>1, <1>2, <1>has, <1>files DEF ReadsEvidence
<1>5. ASSUME p.passed # None PROVE q.passed # None
  <2> DEFINE window == p.split.id.window
  <2>1. None \notin {p.pending, p.split, p.bt, p.wf}
    BY <1>1, <1>5 DEF ReadsEvidence
  <2>2. PICK t \in store["trials"] :
          /\ t.id = PassedFor(p.pending, window) /\ t.dataset = p.dataset
          /\ p.bt.at >= t.started /\ p.wf.at >= t.started
    BY <1>1, <1>5 DEF ReadsEvidence
  <2>3. q.bt # None /\ q.wf # None /\ q.pending = p.pending /\ q.dataset = p.dataset /\ q.split = p.split
    BY <1>2, <1>3, <1>4, <2>1
  <2>4. q.bt = p.bt
    <3>1. p.bt \in store["results"] /\ p.bt.id = BacktestFor(p.pending, window)
      BY <1>1, <2>1 DEF ReadsEvidence
    <3>2. q.bt \in store'["results"] /\ q.bt.id = BacktestFor(p.pending, window)
      BY <1>1, <2>3 DEF ReadsEvidence
    <3> QED BY <1>files, <3>1, <3>2 DEF Across, UniqueIds
  <2>5. q.wf = p.wf
    <3>1. p.wf \in store["walks"] /\ p.wf.id = WalkFor(p.pending, window)
      BY <1>1, <2>1 DEF ReadsEvidence
    <3>2. q.wf \in store'["walks"] /\ q.wf.id = WalkFor(p.pending, window)
      BY <1>1, <2>3 DEF ReadsEvidence
    <3> QED BY <1>files, <3>1, <3>2 DEF Across, UniqueIds
  <2>6. t \in store'["trials"]
    BY <1>files, <2>2 DEF Across
  <2> QED BY <1>1, <2>1, <2>2, <2>3, <2>4, <2>5, <2>6 DEF ReadsEvidence
<1> QED BY <1>3, <1>4, <1>5

\* Nothing that a done task rests on is lost between two plans, by each task.
LEMMA TasksKept ==
  ASSUME NEW c, NEW p, NEW q, Across(c, p, q), NEW i \in DOMAIN Tasks,
         Done(p, Tasks[i]), ~Done(q, Tasks[i])
  PROVE  \/ Tasks[i] \in {"gate", "shadow"} /\ store'["baselines"] # store["baselines"]
         \/ i > 3 /\ store'["splits"] # store["splits"]
<1>tasks. /\ DOMAIN Tasks = 1..8
          /\ Tasks[1] = "scaffold" /\ Tasks[2] = "lock" /\ Tasks[3] = "baseline" /\ Tasks[4] = "backtest"
          /\ Tasks[5] = "walk_forward" /\ Tasks[6] = "passed_trial" /\ Tasks[7] = "gate" /\ Tasks[8] = "shadow"
  BY DEF Tasks
<1>files. {"trials", "splits", "costs", "baselines", "evaluations", "entries", "outcomes"} \subseteq Files
  BY DEF Files
<1>1. ReadsBasis(store, c, p) /\ ReadsBasis(store', c, q) /\ ReadsEvidence(store, p) /\ ReadsEvidence(store', q)
  BY DEF Across, Reads
<1>gate. ReadsGate(store, p) /\ ReadsGate(store', q)
  BY DEF Across, Reads
<1>2. \A f \in Files : store[f] \subseteq store'[f]
  BY DEF Across
<1>3. p.pending # None => q.pending = p.pending /\ q.dataset = p.dataset
  BY PlanKept
<1>scaffold. CASE i = 1
  <2>1. p.pending # None
    BY <1>1, <1>scaffold, <1>tasks DEF Done, ReadsEvidence
  <2> QED BY <1>3, <1>scaffold, <1>tasks, <2>1 DEF Done
<1>lock. CASE i = 2
  <2>1. p.split # None /\ p.cost # None
    BY <1>lock, <1>tasks DEF Done
  <2>2. p.split \in store["splits"] /\ p.split.id.card = c.id /\ p.split.id.dataset = q.dataset
    BY <1>1, <1>3, <2>1 DEF ReadsBasis
  <2>3. q.split # None
    BY <1>1, <1>2, <1>files, <2>2 DEF ReadsBasis
  <2>4. q.cost # None
    BY <1>1, <1>2, <1>files, <2>1 DEF ReadsBasis
  <2> QED BY <1>lock, <1>tasks, <2>3, <2>4 DEF Done
<1>baseline. CASE i = 3
  <2>1. q.baseline # None
    BY <1>1, <1>2, <1>files, <1>baseline, <1>tasks DEF Done, ReadsBasis
  <2> QED BY <1>baseline, <1>tasks, <2>1 DEF Done
<1>evidence. CASE i \in {4, 5, 6}
  <2> SUFFICES ASSUME store'["splits"] = store["splits"] PROVE FALSE
    BY <1>evidence
  <2> QED BY <1>evidence, <1>tasks, EvidenceKept DEF Done
<1>late. CASE i \in {7, 8}
  <2> SUFFICES ASSUME store'["splits"] = store["splits"], store'["baselines"] = store["baselines"] PROVE FALSE
    BY <1>late, <1>tasks
  <2>1. p.evaluation # None
    BY <1>gate, <1>late, <1>tasks DEF Done, ReadsGate
  <2>2. None \notin {p.passed, p.cost, p.baseline, p.pending, p.split}
    BY <1>1, <1>gate, <2>1 DEF ReadsGate, ReadsEvidence
  <2>3. q.pending = p.pending /\ q.split = p.split /\ q.baseline = p.baseline
    <3>1. p.baseline = Latest(store["baselines"]) /\ q.baseline = Latest(store'["baselines"])
      BY <1>1 DEF ReadsBasis
    <3> QED BY <1>3, <2>2, <3>1, PlanKept
  <2>4. q.passed # None /\ q.cost # None /\ q.baseline # None
    <3>1. q.cost # None
      BY <1>1, <1>2, <1>files, <2>2 DEF ReadsBasis
    <3> QED BY <2>2, <2>3, <3>1, EvidenceKept
  <2>5. EvaluationFor(q) = EvaluationFor(p)
    BY <2>3 DEF EvaluationFor
  <2>has. \A f \in Files : \A id : Has(store, f, id) => Has(store', f, id)
    BY <1>2 DEF Has
  <2>6. q.evaluation # None
    BY <1>gate, <1>files, <2>1, <2>4, <2>5, <2>has DEF ReadsGate
  <2>7. p.outcome # None => q.outcome # None
    BY <1>gate, <1>files, <1>2, <2>5, <2>6, <2>has DEF ReadsGate
  <2> QED BY <1>late, <1>tasks, <2>6, <2>7 DEF Done
<1> QED BY <1>scaffold, <1>lock, <1>baseline, <1>evidence, <1>late, <1>tasks

\* No step takes a row from a file.
LEMMA FilesGrow ==
  ASSUME Inv, NoneIsApart, [Next]_vars
  PROVE  \A f \in Files : store[f] \subseteq store'[f]
<1>files. DOMAIN store = Files
  BY DEF Inv, FilesOK
<1>1. CASE Command
  BY <1>1, RunRows DEF Command, Appends, Routinely, ByHand
<1>2. CASE Revise
  BY <1>2, RunRows DEF Revise, Routinely
<1>3. CASE Decide
  BY <1>3, <1>files DEF Decide, Decides
<1>4. CASE store' = store
  BY <1>4
<1> QED BY <1>1, <1>2, <1>3, <1>4, NextRuns, AnyCommand

\* What the plan will say after a step.
LEMMA PlanReadsNext ==
  ASSUME NoneIsApart
  PROVE  (\A c, p : Inv /\ c.id # 0 /\ p = Plan(c) => Reads(store, c, p))'
BY PlanReads, PTL

\* Any step is across two plans of a draft.
LEMMA PlanAcross ==
  ASSUME Inv, Inv', NoneIsApart, [Next]_vars, NEW c, c.id # 0
  PROVE  Across(c, Plan(c), Plan(c)')
<1>1. Reads(store, c, Plan(c))
  BY PlanReads
<1>2. \A d, p : Inv' /\ d.id # 0 /\ p = Plan(d)' => Reads(store', d, p)
  BY PlanReadsNext DEF Reads, ReadsBasis, ReadsEvidence, ReadsGate, Has
<1>3. Reads(store', c, Plan(c)')
  BY <1>2
<1>4. \A f \in Files : UniqueIds(store'[f])
  BY DEF Inv, RowsOK, Agree, UniqueIds
<1> QED BY <1>1, <1>3, <1>4, FilesGrow DEF Across

\* A draft is not the first root card.
LEMMA DraftId == ASSUME Inv, NEW c \in Drafts PROVE c.id # 0
<1>1. CardSays(store, {}, c)
  BY DEF Inv, RowsOK, Says, Drafts, Files
<1>2. c.basis # "registered" /\ 0 \in Nat
  BY DEF Drafts
<1> QED BY <1>1, <1>2 DEF CardSays

-----------------------------------------------------------------------------
(* What the executor records, and what the plan then reads.                *)

\* As long as nothing was done by hand, a retest's trial has the start of its
\* PENDING trial.
TimelyInv ==
  byHand = 0 =>
    \A t, q \in store["trials"] :
      t.id.retest /\ t.id.status # "PENDING" /\ IsPendingOf(q.id, t.id.card) => t.started = q.started

\* The rows of a walk-forward: a backtest inside its window, and itself twice.
LEMMA WalkForwardRows ==
  ASSUME NEW window, NEW context, NEW bt, NEW beats
  PROVE  LET w == WalkForwardWrites(window, context, bt, beats) IN
         /\ DOMAIN w = 1..4
         /\ w[1][1] = "runs" /\ w[2][1] = "results" /\ w[3][1] = "walks" /\ w[4][1] = "walks"
         /\ w[4][2] = WalkForward(window, context, bt, beats)
<1>1. PICK run, result : BacktestWrites(Inner(window), context, beats) = <<<<"runs", run>>, <<"results", result>>>>
  BY DEF BacktestWrites
<1> DEFINE bare == WalkForward(window, context, None, beats)
           walk == WalkForward(window, context, bt, beats)
<1> HIDE DEF bare, walk
<1>2. WalkForwardWrites(window, context, bt, beats)
        = <<<<"runs", run>>, <<"results", result>>>> \o <<<<"walks", bare>>, <<"walks", walk>>>>
  BY <1>1 DEF WalkForwardWrites, bare, walk
<1> DEFINE w == <<<<"runs", run>>, <<"results", result>>>> \o <<<<"walks", bare>>, <<"walks", walk>>>>
<1>3. /\ DOMAIN w = 1..4
      /\ w[1] = <<"runs", run>> /\ w[2] = <<"results", result>>
      /\ w[3] = <<"walks", bare>> /\ w[4] = <<"walks", walk>>
  OBVIOUS
<1> HIDE DEF w
<1>4. WalkForwardWrites(window, context, bt, beats) = w
  BY <1>2 DEF w
<1> QED BY <1>3, <1>4 DEF walk

\* A trial that the executor records is a PENDING one where there was none, or has
\* the start of the one there is.
LEMMA TrialWorked ==
  ASSUME Inv, NoneIsApart, NEW c, NEW p, NEW task, NEW w, Works(c, p, task, w), Routinely(Logged(task, c.id, w)),
         byHand = 0, NEW i \in DOMAIN w, w[i][1] = "trials"
  PROVE  LET t == w[i][2] IN
         \/ t.id.status = "PENDING" /\ t.id.card = c.id /\ p.pending = None
         \/ p.pending # None /\ t.id.card = c.id /\ t.started = p.pending.started /\ t.id.status # "PENDING"
<1>1. w \in NextWrites(c, p) /\ NextTask(p) = task /\ Ready(p)
  <2>1. byHand' = byHand
    BY DEF Routinely
  <2>2. ~ByHand(Logged(task, c.id, w))
    BY <2>1 DEF ByHand, Inv, ClockOK
  <2> QED BY <2>2 DEF Works, NextWrites
<1>2. task \in {"scaffold", "lock", "baseline", "backtest", "walk_forward", "passed_trial", "gate", "shadow"}
  BY <1>1, ReadyTask DEF RetestTasks, Tasks
<1>is. PlanIs(c, p)
  BY PlanParts DEF Works
<1>3. CASE task = "scaffold"
  <2>1. w = ScaffoldWrites(c, p.dataset)
    BY <1>1, <1>3 DEF NextWrites, ScaffoldTask
  <2> DEFINE t == Trial(c, NextTrialIndex(c.id), "PENDING", TRUE, None, None, p.dataset, now)
  <2>2. t.id.status = "PENDING" /\ t.id.card = c.id
    BY DEF Trial
  <2>3. PendingTrial(c) = None /\ w = <<<<"trials", t>>>>
    <3>1. CASE PendingTrial(c) # None
      <4>1. w = <<>>
        BY <2>1, <3>1 DEF ScaffoldWrites
      <4> QED BY <4>1
    <3>2. CASE PendingTrial(c) = None
      BY <2>1, <3>2 DEF ScaffoldWrites
    <3> QED BY <3>1, <3>2
  <2> HIDE DEF t
  <2>4. w[i][2] = t
    BY <2>3
  <2> QED BY <1>is, <2>2, <2>3, <2>4 DEF PlanIs
<1>4. CASE task = "passed_trial"
  <2>1. p.pending # None
    BY <1>1, <1>4 DEF Ready, PassedTrialReady
  <2>2. /\ w = TrialWrites(c, p.pending.id.index, "PASSED", TRUE, p.dataset, p.bt.id, p.wf.id, p.pending.started)
        /\ WithinBudget(c.id, p.pending.id.index)
    BY <1>1, <1>4 DEF NextWrites, PassedTrialTask
  <2> DEFINE t == Trial(c, p.pending.id.index, "PASSED", TRUE, p.bt.id, p.wf.id, p.dataset, p.pending.started)
  <2>3. t.id.card = c.id /\ t.started = p.pending.started /\ t.id.status = "PASSED"
    BY DEF Trial
  <2>4. \E b : w = <<<<"trials", t>>, <<"budgets", b>>>>
    BY <2>2 DEF TrialWrites
  <2> HIDE DEF t
  <2>5. w[i][2] = t
    BY <2>4
  <2> QED BY <2>1, <2>3, <2>5
<1>5. CASE task \notin {"scaffold", "passed_trial"}
  <2>1. \A j \in DOMAIN w : w[j][1] # "trials"
    <3>1. CASE task \in {"lock", "baseline", "backtest"}
      BY <1>1, <3>1 DEF NextWrites, LockTask, LockWrites, BaselineTask, BaselineWrites, BacktestTask,
                        BacktestWrites
    <3>2. CASE task = "gate"
      BY <1>1, <3>2 DEF NextWrites, GateTask, GateWrites
    <3>walk. CASE task = "walk_forward"
      <4>1. w = WalkForwardWrites(p.split.id.window, p.pending.id, p.bt.id, Wins(p.split))
        BY <1>1, <3>walk DEF NextWrites, WalkForwardTask
      <4> QED BY <4>1, WalkForwardRows
    <3>3. CASE task = "shadow"
      <4>1. PICK window, x, b, beats : w = BacktestWrites(window, None, beats) \o OutcomeWrites(p.entry, window, x, b)
        BY <1>1, <3>3 DEF NextWrites, ShadowTask
      <4>2. PICK run, result, outcome : /\ BacktestWrites(window, None, beats) = <<<<"runs", run>>, <<"results", result>>>>
                                        /\ OutcomeWrites(p.entry, window, x, b) = <<<<"outcomes", outcome>>>>
        BY DEF BacktestWrites, OutcomeWrites
      <4>3. /\ DOMAIN w = 1..3
            /\ w[1] = <<"runs", run>> /\ w[2] = <<"results", result>> /\ w[3] = <<"outcomes", outcome>>
        BY <4>1, <4>2
      <4> QED BY <4>3
    <3> QED BY <1>2, <1>5, <3>1, <3>2, <3>walk, <3>3
  <2> QED BY <2>1
<1> QED BY <1>3, <1>4, <1>5

\* What is recorded with a command is its writes and, last, the automation run.
LEMMA LoggedRows ==
  ASSUME NEW w, IsWrites(w), NEW task, NEW card
  PROVE  LET all == Logged(task, card, w) IN
         /\ \A i \in DOMAIN w : i \in DOMAIN all /\ all[i] = w[i]
         /\ \A i \in DOMAIN all :
              \/ i \in DOMAIN w
              \/ all[i][1] = "automations" /\ all[i][2].id.task = task /\ all[i][2].id.card = card
         /\ Len(all) \in Nat /\ DOMAIN all = 1..Len(all) /\ DOMAIN w = 1..Len(all) - 1
<1> DEFINE row == AutomationRun(task, card, FoldLeft(AppendRow, store, w) = store)
           all == Append(w, <<"automations", row>>)
<1>1. PICK n \in Nat : DOMAIN w = 1..n
  BY DEF IsWrites
<1>2. Len(w) = n
  BY <1>1
<1>row. row.id.task = task /\ row.id.card = card
  BY DEF AutomationRun
<1> HIDE DEF row
<1>3. DOMAIN all = 1..n + 1 /\ all[n + 1] = <<"automations", row>> /\ \A i \in 1..n : all[i] = w[i]
  BY <1>1, <1>2
<1>4. <<"automations", row>>[1] = "automations" /\ <<"automations", row>>[2] = row
  OBVIOUS
<1>5. \A i \in 1..n + 1 : i \in 1..n \/ i = n + 1
  OBVIOUS
<1>6. Logged(task, card, w) = all
  BY DEF Logged, row
<1>7. Len(all) = n + 1
  BY <1>1, <1>2
<1> HIDE DEF all
<1>8. \A i \in DOMAIN all :
        \/ i \in DOMAIN w
        \/ all[i][1] = "automations" /\ all[i][2].id.task = task /\ all[i][2].id.card = card
  BY <1>1, <1>row, <1>3, <1>4, <1>5
<1>9. (\A i \in DOMAIN w : i \in DOMAIN all /\ all[i] = w[i]) /\ n + 1 \in Nat /\ n + 1 - 1 = n
  BY <1>1, <1>3
<1> QED BY <1>1, <1>3, <1>6, <1>7, <1>8, <1>9

\* What the executor writes for a retest stays within the retest.
LEMMA WorksWithin ==
  ASSUME NEW c, NEW p, NEW task, NEW w, Works(c, p, task, w), NoneIsApart
  PROVE  Within(w)
<1>1. CASE w \in NextWrites(c, p)
  BY <1>1, TaskWithin
<1>2. CASE \E window, x, b : w = OutcomeWrites(p.entry, window, x, b)
  BY <1>2, ChainWithin
<1> QED BY <1>1, <1>2 DEF Works

\* The executor works on a draft on file, of whose plan it read.
LEMMA WorksReads ==
  ASSUME Inv, NoneIsApart, NEW c, NEW p, NEW task, NEW w, Works(c, p, task, w)
  PROVE  c \in Drafts /\ c \in store["cards"] /\ c.id # 0 /\ Reads(store, c, p)
<1>1. c \in Target /\ p = Plan(c)
  BY DEF Works
<1>2. c \in Drafts /\ c \in store["cards"]
  BY <1>1, TargetFacts
<1>3. c.id # 0
  BY <1>2, DraftId
<1> QED BY <1>1, <1>2, <1>3, PlanReads

\* A proposal of a revision neither starts a trial nor records a task.
LEMMA ReviseAside ==
  ASSUME Revise
  PROVE  \E writes : Legal(writes) /\ Routinely(writes) /\ Aside(writes) /\ Untried(writes)
<1>1. ASSUME NEW card, NEW agenda
      PROVE  Aside(<<<<"cards", card>>, <<"agendas", agenda>>>>)
             /\ Untried(<<<<"cards", card>>, <<"agendas", agenda>>>>)
  <2> DEFINE writes == <<<<"cards", card>>, <<"agendas", agenda>>>>
  <2>1. DOMAIN writes = 1..2 /\ writes[1][1] = "cards" /\ writes[2][1] = "agendas"
    OBVIOUS
  <2> HIDE DEF writes
  <2>2. Aside(writes) /\ Untried(writes)
    BY <2>1 DEF Aside, Untried
  <2> QED BY <2>2 DEF writes
<1>2. ASSUME NEW agenda
      PROVE  Aside(<<<<"agendas", agenda>>>>) /\ Untried(<<<<"agendas", agenda>>>>)
  <2> DEFINE writes == <<<<"agendas", agenda>>>>
  <2>1. DOMAIN writes = 1..1 /\ writes[1][1] = "agendas"
    OBVIOUS
  <2> HIDE DEF writes
  <2>2. Aside(writes) /\ Untried(writes)
    BY <2>1 DEF Aside, Untried
  <2> QED BY <2>2 DEF writes
<1> QED BY <1>1, <1>2 DEF Revise

\* Only the executor's PASSED trial could have another start, and it takes the trial's own.
LEMMA TimelyNext ==
  ASSUME Inv, Inv', TimelyInv, NoneIsApart, [Next]_vars
  PROVE  TimelyInv'
<1>files. "trials" \in Files \ {"baselines"}
  BY DEF Files
<1>clock. byHand \in Nat
  BY DEF Inv, ClockOK
\* What a step that appends no trial leaves as it was.
<1>same. ASSUME store'["trials"] = store["trials"], byHand' = 0 => byHand = 0 PROVE TimelyInv'
  BY <1>same DEF TimelyInv
<1>1. CASE Other
  <2>1. PICK writes : Appends(writes) /\ (ByHand(writes) \/ Untried(writes))
    BY <1>1 DEF Other
  <2>2. CASE ByHand(writes)
    <3>1. byHand' # 0
      BY <1>clock, <2>2 DEF ByHand
    <3> QED BY <3>1 DEF TimelyInv
  <2>3. CASE Untried(writes) /\ ~ByHand(writes)
    <3>1. Legal(writes) /\ Run(writes) /\ byHand' = byHand
      BY <2>1, <2>3 DEF Appends, Routinely
    <3>2. store'["trials"] = store["trials"]
      BY <1>files, <2>3, <3>1, RunSame DEF Untried
    <3> QED BY <1>same, <3>1, <3>2
  <2> QED BY <2>1, <2>2, <2>3
<1>2. CASE Revise
  <2>1. PICK writes : Legal(writes) /\ Routinely(writes) /\ Untried(writes)
    BY <1>2, ReviseAside
  <2>2. store'["trials"] = store["trials"] /\ byHand' = byHand
    BY <1>files, <2>1, RunSame DEF Untried, Routinely
  <2> QED BY <1>same, <2>2
<1>3. CASE Decide
  BY <1>3, <1>same DEF Decide, Decides, Inv, FilesOK, Files
<1>4. CASE store' = store /\ UNCHANGED byHand
  BY <1>4, <1>same
<1>5. CASE Work
  <2>1. PICK c, p, task, w : Works(c, p, task, w) /\ Legal(w) /\ Appends(Logged(task, c.id, w))
    BY <1>5 DEF Work
  <2> DEFINE all == Logged(task, c.id, w)
  <2>2. CASE ByHand(all)
    <3>1. byHand' # 0
      BY <1>clock, <2>2 DEF ByHand
    <3> QED BY <3>1 DEF TimelyInv
  <2>3. CASE Routinely(all)
    <3> SUFFICES ASSUME byHand' = 0,
                        NEW t \in store'["trials"], NEW q \in store'["trials"],
                        t.id.retest, t.id.status # "PENDING", IsPendingOf(q.id, t.id.card)
                 PROVE  t.started = q.started
      BY DEF TimelyInv
    <3>1. byHand = 0 /\ Legal(all) /\ Run(all)
      BY <2>1, <2>3 DEF Appends, Routinely
    <3>2. ASSUME NEW r \in store'["trials"] \ store["trials"]
          PROVE  \E i \in DOMAIN w : w[i][1] = "trials" /\ w[i][2] = r
      <4>1. PICK i \in DOMAIN all : all[i][1] = "trials" /\ all[i][2] = r
        BY <1>files, <3>1, <3>2, RunRows
      <4>2. IsWrites(w)
        BY <2>1 DEF Legal
      <4> HIDE DEF all
      <4> QED BY <4>1, <4>2, LoggedRows DEF all
    <3>3. \A i \in DOMAIN w : w[i][1] = "trials" =>
            LET r == w[i][2] IN
            \/ r.id.status = "PENDING" /\ r.id.card = c.id /\ p.pending = None
            \/ p.pending # None /\ r.id.card = c.id /\ r.started = p.pending.started /\ r.id.status # "PENDING"
      BY <2>1, <2>3, <3>1, TrialWorked
    <3>basis. ReadsBasis(store, c, p)
      BY <2>1, WorksReads DEF Reads
    <3>4. CASE t \in store["trials"] /\ q \in store["trials"]
      BY <3>1, <3>4 DEF TimelyInv
    <3>5. CASE q \notin store["trials"]
      <4>1. q.id.card = c.id /\ p.pending = None
        BY <3>2, <3>3, <3>5 DEF IsPendingOf
      <4>2. t.id.card = c.id
        BY <4>1 DEF IsPendingOf
      <4>3. t \in store["trials"]
        BY <3>2, <3>3, <4>1
      <4>4. PICK u \in store["trials"] : IsPendingOf(u.id, c.id)
        BY <4>2, <4>3, TrialOnFile DEF TrialSays
      <4> QED BY <3>basis, <4>1, <4>4 DEF ReadsBasis
    <3>6. CASE t \notin store["trials"] /\ q \in store["trials"]
      <4>1. p.pending # None /\ t.id.card = c.id /\ t.started = p.pending.started
        BY <3>2, <3>3, <3>6
      <4>2. q = p.pending
        BY <3>basis, <3>6, <4>1 DEF ReadsBasis
      <4> QED BY <4>1, <4>2
    <3> QED BY <3>4, <3>5, <3>6
  <2> QED BY <2>1, <2>2, <2>3 DEF Appends
<1> QED BY <1>1, <1>2, <1>3, <1>4, <1>5, NextRuns

\* A task recorded as done: all its writes are on file, and but for a decide's baseline
\* nothing else is new.  (The automation run is the last write: no crash came before it.)
Recorded(w) ==
  /\ \A i \in DOMAIN w : Has(store', w[i][1], w[i][2].id)
  /\ \A f \in Elsewhere \ {"baselines"} : \A r \in store'[f] \ store[f] :
       \E i \in DOMAIN w : w[i][1] = f /\ w[i][2] = r

\* A retest's task is recorded by the executor at work on it, and by then the rows
\* that it made of the task are on file.
LEMMA WhoRecords ==
  ASSUME Inv, NoneIsApart, [Next]_vars,
         NEW row \in store'["automations"] \ store["automations"], row.id.task \in RetestTasks
  PROVE  \E c, p, task, w : /\ Works(c, p, task, w) /\ Legal(w) /\ Recorded(w)
                            /\ row.id.task = task /\ row.id.card = c.id
<1>files. "automations" \in Files \ {"baselines"} /\ DOMAIN store = Files
  BY DEF Files, Inv, FilesOK
<1>aside. ASSUME NEW writes, Legal(writes), Run(writes), Aside(writes) PROVE FALSE
  <2>1. PICK i \in DOMAIN writes : writes[i][1] = "automations" /\ writes[i][2] = row
    BY <1>aside, <1>files, RunRows
  <2> QED BY <1>aside, <2>1 DEF Aside
<1>1. ~Other
  <2> SUFFICES ASSUME NEW writes, Appends(writes), Aside(writes) PROVE FALSE
    BY DEF Other
  <2> QED BY <1>aside DEF Appends, Routinely, ByHand
<1>2. ~Revise
  BY <1>aside, ReviseAside DEF Routinely
<1>3. ~Decide
  BY <1>files DEF Decide, Decides
<1>4. store' # store
  OBVIOUS
<1>5. PICK c, p, task, w : Works(c, p, task, w) /\ Legal(w) /\ Appends(Logged(task, c.id, w))
  BY <1>1, <1>2, <1>3, <1>4, NextRuns DEF Work
<1> DEFINE all == Logged(task, c.id, w)
<1>6. Legal(all) /\ Run(all) /\ Within(w) /\ IsWrites(w) /\ IsWrites(all)
  BY <1>5, WorksWithin DEF Appends, Routinely, ByHand, Legal
<1>7. /\ \A i \in DOMAIN w : i \in DOMAIN all /\ all[i] = w[i]
      /\ \A i \in DOMAIN all :
           \/ i \in DOMAIN w
           \/ all[i][1] = "automations" /\ all[i][2].id.task = task /\ all[i][2].id.card = c.id
      /\ Len(all) \in Nat /\ DOMAIN all = 1..Len(all) /\ DOMAIN w = 1..Len(all) - 1
  BY <1>6, LoggedRows
<1> HIDE DEF all
<1>8. row.id.task = task /\ row.id.card = c.id
  <2>1. PICK i \in DOMAIN all : all[i][1] = "automations" /\ all[i][2] = row
    BY <1>files, <1>6, RunRows
  <2>2. i \notin DOMAIN w
    BY <1>6, <1>7, <2>1 DEF Within, Elsewhere
  <2> QED BY <1>7, <2>1, <2>2
<1>9. Leaves(FoldLeft(AppendRow, store, all))
  <2>1. PICK part : /\ Part(all, part) /\ Legal(part) /\ Leaves(FoldLeft(AppendRow, store, part))
    BY <1>6, RunIs, Zenon DEF Inv, ClockOK
  <2>2. ASSUME NEW k \in 1..Len(all) - 1, part = SubSeq(all, 1, k)
        PROVE  FALSE
    <3>1. k \in 1..Len(all)
      BY <1>7
    <3>2. DOMAIN part = 1..k /\ \A i \in 1..k : part[i] = all[i] /\ i \in DOMAIN w
      BY <1>7, <2>2
    <3> DEFINE files == FoldLeft(AppendRow, store, part)
    <3>3. Appended(store, part, DOMAIN part, files)
      BY <1>files, <2>1, AppendAll DEF Legal
    <3> HIDE DEF files
    <3>4. store'["automations"] = files["automations"]
      BY <1>files, <2>1, <3>3, LeavesFacts DEF Appended, files
    <3>5. PICK i \in 1..k : part[i][1] = "automations"
      BY <1>files, <3>2, <3>3, <3>4 DEF Appended
    <3> QED BY <1>6, <1>7, <3>2, <3>5 DEF Within, Elsewhere
  <2> QED BY <2>1, <2>2 DEF Part
<1> DEFINE files == FoldLeft(AppendRow, store, all)
<1>appended. Appended(store, all, DOMAIN all, files)
  BY <1>files, <1>6, AppendAll
<1> HIDE DEF files
<1>leaves. /\ \A f \in Files : files[f] \subseteq store'[f]
           /\ \A f \in Files \ {"baselines"} : store'[f] = files[f]
  BY <1>9, <1>appended, LeavesFacts DEF Appended, files
<1>10. Recorded(w)
  <2>1. ASSUME NEW i \in DOMAIN w PROVE Has(store', w[i][1], w[i][2].id)
    <3>1. Has(files, w[i][1], w[i][2].id) /\ w[i][1] \in Files
      BY <1>6, <1>7, <1>appended DEF Appended, Within, Elsewhere
    <3> QED BY <1>leaves, <3>1 DEF Has
  <2>2. ASSUME NEW f \in Elsewhere \ {"baselines"}, NEW r \in store'[f] \ store[f]
        PROVE  \E i \in DOMAIN w : w[i][1] = f /\ w[i][2] = r
    <3>1. f \in Files \ {"baselines"} /\ f # "automations"
      BY DEF Elsewhere
    <3>2. PICK i \in DOMAIN all : all[i][1] = f /\ all[i][2] = r
      BY <1>appended, <1>leaves, <3>1 DEF Appended
    <3> QED BY <1>7, <3>1, <3>2
  <2> QED BY <2>1, <2>2 DEF Recorded
<1> QED BY <1>5, <1>8, <1>10

\* What was done before the task.
LEMMA WorksDone ==
  ASSUME Inv, NoneIsApart, NEW c, NEW p, NEW task, NEW w, Works(c, p, task, w)
  PROVE  /\ task \in RetestTasks
         /\ task = "scaffold" => p.pending = None
         /\ task \in {"backtest", "walk_forward"} =>
              p.pending # None /\ p.split # None /\ p.passed = None
         /\ task = "walk_forward" => p.bt # None
         /\ task = "passed_trial" => None \notin {p.pending, p.split, p.bt, p.wf}
         /\ task = "gate" => None \notin {p.passed, p.cost, p.baseline}
         /\ task = "shadow" => p.entry # None
<1>tasks. /\ DOMAIN Tasks = 1..8
          /\ Tasks[1] = "scaffold" /\ Tasks[2] = "lock" /\ Tasks[3] = "baseline" /\ Tasks[4] = "backtest"
          /\ Tasks[5] = "walk_forward" /\ Tasks[6] = "passed_trial" /\ Tasks[7] = "gate" /\ Tasks[8] = "shadow"
  BY DEF Tasks
<1>1. task \in RetestTasks
  <2>1. CASE w \in NextWrites(c, p)
    BY <2>1, ReadyTask DEF NextWrites, Works
  <2>2. CASE task = "shadow"
    BY <1>tasks, <2>2 DEF RetestTasks
  <2> QED BY <2>1, <2>2 DEF Works
<1>2. \A k \in 1..8 : task = Tasks[k] => ~Done(p, Tasks[k]) /\ \A j \in 1..k - 1 : Done(p, Tasks[j])
  BY <1>tasks, NextTaskFacts DEF Works
<1>reads. ReadsBasis(store, c, p) /\ ReadsEvidence(store, p)
  BY WorksReads DEF Reads
<1>open. ~Done(p, task)
  BY <1>1, <1>2, <1>tasks DEF RetestTasks
<1>3. CASE task = "scaffold"
  <2>1. ~Done(p, "scaffold")
    BY <1>open, <1>3
  <2> QED BY <1>1, <1>3, <2>1 DEF Done
<1>pending. ASSUME task \in {"backtest", "walk_forward", "passed_trial"}
            PROVE  p.pending # None /\ p.split # None /\ p.passed = None
  <2>1. Done(p, "scaffold") /\ Done(p, "lock")
    BY <1>2, <1>pending, <1>tasks
  <2>2. ~Done(p, "backtest") \/ ~Done(p, "walk_forward") \/ ~Done(p, "passed_trial")
    BY <1>open, <1>pending
  <2> QED BY <1>reads, <2>1, <2>2 DEF Done, ReadsEvidence
<1>4. CASE task = "backtest"
  BY <1>1, <1>pending, <1>4
<1>5. CASE task = "walk_forward"
  <2>1. Done(p, "backtest")
    BY <1>2, <1>5, <1>tasks
  <2> QED BY <1>1, <1>pending, <1>5, <2>1 DEF Done
<1>6. CASE task = "passed_trial"
  <2>1. Done(p, "backtest") /\ Done(p, "walk_forward")
    BY <1>2, <1>6, <1>tasks
  <2> QED BY <1>1, <1>pending, <1>6, <2>1 DEF Done
<1>7. CASE task = "gate"
  <2>1. Done(p, "lock") /\ Done(p, "baseline") /\ Done(p, "passed_trial")
    BY <1>2, <1>7, <1>tasks
  <2> QED BY <1>1, <1>7, <2>1 DEF Done
<1>8. CASE task = "shadow"
  <2>1. p.entry # None
    BY <1>8 DEF Works, NextWrites, Ready, ShadowReady
  <2> QED BY <1>1, <1>8, <2>1
<1> QED BY <1>1, <1>3, <1>4, <1>5, <1>6, <1>7, <1>8

\* The task of a draft is recorded as done; p was its plan and q is its plan.
Recording(c, p, q, task, w) ==
  Works(c, p, task, w) /\ Legal(w) /\ Recorded(w) /\ Across(c, p, q)

\* What a recorded task leaves alone, and the two plans it is between.
LEMMA RecordingFacts ==
  ASSUME Inv, NoneIsApart, NEW c, NEW p, NEW q, NEW task, NEW w, Recording(c, p, q, task, w)
  PROVE  /\ \A f \in Elsewhere \ {"baselines"} : (\A i \in DOMAIN w : w[i][1] # f) => store'[f] = store[f]
         /\ task # "shadow" => w \in NextWrites(c, p) /\ NextTask(p) = task /\ Ready(p)
         /\ ReadsBasis(store, c, p) /\ ReadsBasis(store', c, q)
         /\ ReadsEvidence(store, p) /\ ReadsEvidence(store', q)
         /\ ReadsGate(store, p) /\ ReadsGate(store', q)
<1>1. \A f \in Elsewhere \ {"baselines"} : (\A i \in DOMAIN w : w[i][1] # f) => store'[f] = store[f]
  <2> SUFFICES ASSUME NEW f \in Elsewhere \ {"baselines"}, \A i \in DOMAIN w : w[i][1] # f PROVE store'[f] = store[f]
    OBVIOUS
  <2>1. f \in Files
    BY DEF Elsewhere
  <2>2. store[f] \subseteq store'[f]
    BY <2>1 DEF Recording, Across
  <2>3. \A r \in store'[f] \ store[f] : FALSE
    BY DEF Recording, Recorded
  <2> QED BY <2>2, <2>3
<1>2. task # "shadow" => w \in NextWrites(c, p) /\ NextTask(p) = task /\ Ready(p)
  BY DEF Recording, Works, NextWrites
<1> QED BY <1>1, <1>2 DEF Recording, Across, Reads

\* The scaffold, the lock and the baseline that were recorded are found.
LEMMA RecordsBasis ==
  ASSUME Inv, NoneIsApart, NEW c, NEW p, NEW q, NEW task, NEW w, Recording(c, p, q, task, w),
         task \in {"scaffold", "lock", "baseline"}
  PROVE  Done(q, task)
<1>facts. /\ w \in NextWrites(c, p) /\ NextTask(p) = task /\ Ready(p)
          /\ ReadsBasis(store, c, p) /\ ReadsBasis(store', c, q) /\ ReadsEvidence(store, p)
  BY RecordingFacts
<1>has. \A i \in DOMAIN w : Has(store', w[i][1], w[i][2].id)
  BY DEF Recording, Recorded
<1>1. CASE task = "scaffold"
  <2>1. p.pending = None
    BY <1>1, WorksDone DEF Recording
  <2>2. PendingTrial(c) = None
    BY <2>1, PlanParts DEF Recording, Works, PlanIs
  <2> DEFINE t == Trial(c, NextTrialIndex(c.id), "PENDING", TRUE, None, None, p.dataset, now)
  <2>3. IsPendingOf(t.id, c.id)
    BY DEF Trial, IsPendingOf
  <2>4. w = <<<<"trials", t>>>>
    BY <1>facts, <1>1, <2>2 DEF NextWrites, ScaffoldTask, ScaffoldWrites
  <2> HIDE DEF t
  <2>5. 1 \in DOMAIN w /\ w[1][1] = "trials" /\ w[1][2] = t
    BY <2>4
  <2>6. Has(store', "trials", t.id)
    BY <1>has, <2>5
  <2>7. q.pending # None
    BY <1>facts, <2>3, <2>6 DEF ReadsBasis, Has
  <2> QED BY <1>1, <2>7 DEF Done
<1>2. CASE task = "lock"
  <2>1. p.pending # None
    <3>1. p.pending # None \/ p.passed # None
      BY <1>facts, <1>2 DEF Ready, LockReady
    <3> QED BY <1>facts, <3>1 DEF ReadsEvidence
  <2>2. q.pending # None /\ q.dataset = p.dataset
    BY <2>1, PlanKept DEF Recording
  <2>3. PICK window : w = LockWrites(c, p.dataset, window)
    BY <1>facts, <1>2 DEF NextWrites, LockTask
  <2> DEFINE s == Split(c, p.dataset, window)
  <2>4. s.id.card = c.id /\ s.id.dataset = p.dataset
    BY DEF Split
  <2>5. w = <<<<"splits", s>>, <<"costs", CostModel>>>>
    BY <2>3 DEF LockWrites
  <2> HIDE DEF s
  <2>6. /\ 1 \in DOMAIN w /\ w[1][1] = "splits" /\ w[1][2] = s
        /\ 2 \in DOMAIN w /\ w[2][1] = "costs"
    BY <2>5
  <2>7. Has(store', "splits", s.id) /\ store'["costs"] # {}
    BY <1>has, <2>6 DEF Has
  <2>8. q.split # None /\ q.cost # None
    BY <1>facts, <2>2, <2>4, <2>7 DEF ReadsBasis, Has
  <2> QED BY <1>2, <2>8 DEF Done
<1>3. CASE task = "baseline"
  <2>1. PICK positive : w = <<<<"baselines", Baseline(positive, now)>>>>
    BY <1>facts, <1>3 DEF NextWrites, BaselineTask, BaselineWrites
  <2> DEFINE b == Baseline(positive, now)
  <2>2. w = <<<<"baselines", b>>>>
    BY <2>1
  <2> HIDE DEF b
  <2>3. 1 \in DOMAIN w /\ w[1][1] = "baselines"
    BY <2>2
  <2>4. store'["baselines"] # {}
    BY <1>has, <2>3 DEF Has
  <2>5. q.baseline # None
    BY <1>facts, <2>4 DEF ReadsBasis
  <2> QED BY <1>3, <2>5 DEF Done
<1> QED BY <1>1, <1>2, <1>3

\* The backtest and the walk-forward that were recorded are found.
LEMMA RecordsEvidence ==
  ASSUME Inv, NoneIsApart, NEW c, NEW p, NEW q, NEW task, NEW w, Recording(c, p, q, task, w),
         task \in {"backtest", "walk_forward"}
  PROVE  Done(q, task)
<1>facts. /\ w \in NextWrites(c, p) /\ NextTask(p) = task /\ Ready(p)
          /\ ReadsBasis(store, c, p) /\ ReadsBasis(store', c, q)
          /\ ReadsEvidence(store, p) /\ ReadsEvidence(store', q)
  BY RecordingFacts
<1>has. \A i \in DOMAIN w : Has(store', w[i][1], w[i][2].id)
  BY DEF Recording, Recorded
<1>old. p.pending # None /\ p.split # None
  BY WorksDone DEF Recording
<1> DEFINE window == p.split.id.window
<1>files. "splits" \in Elsewhere
  BY DEF Elsewhere, Files
<1>kept. ASSUME \A i \in DOMAIN w : w[i][1] # "splits"
         PROVE  q.pending = p.pending /\ q.split = p.split /\ store'["splits"] = store["splits"]
  <2>1. store'["splits"] = store["splits"]
    BY <1>files, <1>kept, RecordingFacts
  <2> QED BY <1>old, <2>1, PlanKept DEF Recording
<1>1. CASE task = "backtest"
  <2>1. w = BacktestWrites(window, p.pending.id, Wins(p.split))
    BY <1>facts, <1>1 DEF NextWrites, BacktestTask
  <2> DEFINE run == BacktestRun(window, p.pending.id)
             result == BacktestResult(window, p.pending.id, Wins(p.split))
  <2>2. w = <<<<"runs", run>>, <<"results", result>>>>
    BY <2>1 DEF BacktestWrites
  <2>3. result.id = BacktestFor(p.pending, window)
    BY DEF BacktestResult, BacktestFor
  <2> HIDE DEF run, result, window
  <2>4. DOMAIN w = 1..2 /\ w[1][1] = "runs" /\ w[2][1] = "results" /\ w[2][2] = result
    BY <2>2
  <2>5. Has(store', "results", BacktestFor(p.pending, window))
    BY <1>has, <2>3, <2>4
  <2>6. \A i \in DOMAIN w : w[i][1] # "splits"
    BY <2>4
  <2>7. q.bt # None
    BY <1>facts, <1>kept, <1>old, <2>5, <2>6 DEF ReadsEvidence, window
  <2> QED BY <1>1, <2>7 DEF Done
<1>2. CASE task = "walk_forward"
  <2>1. w = WalkForwardWrites(window, p.pending.id, p.bt.id, Wins(p.split))
    BY <1>facts, <1>2 DEF NextWrites, WalkForwardTask
  <2> DEFINE walk == WalkForward(window, p.pending.id, p.bt.id, Wins(p.split))
  <2>2. /\ DOMAIN w = 1..4
        /\ w[1][1] = "runs" /\ w[2][1] = "results" /\ w[3][1] = "walks" /\ w[4][1] = "walks"
        /\ w[4][2] = walk
    BY <2>1, WalkForwardRows
  <2>3. p.bt.id = BacktestFor(p.pending, window)
    <3>1. p.bt # None
      BY <1>2, WorksDone DEF Recording
    <3> QED BY <1>facts, <3>1 DEF ReadsEvidence
  <2>4. walk.id = WalkFor(p.pending, window)
    BY <2>3 DEF WalkForward, WalkFor
  <2> HIDE DEF walk, window
  <2>5. 4 \in DOMAIN w /\ \A i \in DOMAIN w : w[i][1] # "splits"
    BY <2>2
  <2>6. Has(store', "walks", WalkFor(p.pending, window))
    BY <1>has, <2>2, <2>4, <2>5
  <2>7. \A i \in DOMAIN w : w[i][1] # "splits"
    BY <2>5
  <2>8. q.wf # None
    BY <1>facts, <1>kept, <1>old, <2>6, <2>7 DEF ReadsEvidence, window
  <2> QED BY <1>2, <2>8 DEF Done
<1> QED BY <1>1, <1>2

\* What the shadow task writes, with the returns of its window or with those it is given.
LEMMA ShadowWrites ==
  ASSUME NoneIsApart, NEW c, NEW p, NEW w, Works(c, p, "shadow", w)
  PROVE  /\ \E k \in DOMAIN w : w[k][1] = "outcomes" /\ w[k][2].id.entry = p.entry.id
         /\ \A i \in DOMAIN w : w[i][1] # "splits"
<1>outcome. ASSUME NEW window, NEW x, NEW b
            PROVE  \E o : /\ OutcomeWrites(p.entry, window, x, b) = <<<<"outcomes", o>>>>
                          /\ o.id.entry = p.entry.id
  <2> DEFINE o == Outcome(p.entry, window, x, Action(Unblocked(p.entry), x, b))
  <2>1. o.id.entry = p.entry.id
    BY DEF Outcome
  <2> HIDE DEF o
  <2>2. OutcomeWrites(p.entry, window, x, b) = <<<<"outcomes", o>>>>
    BY DEF OutcomeWrites, o
  <2> QED BY <2>1, <2>2
<1>1. CASE w \in NextWrites(c, p)
  <2>1. NextTask(p) = "shadow"
    BY DEF Works
  <2>2. PICK window, x, b, beats : w = BacktestWrites(window, None, beats) \o OutcomeWrites(p.entry, window, x, b)
    BY <1>1, <2>1 DEF NextWrites, ShadowTask
  <2>3. PICK run, result : BacktestWrites(window, None, beats) = <<<<"runs", run>>, <<"results", result>>>>
    BY DEF BacktestWrites
  <2>4. PICK o : OutcomeWrites(p.entry, window, x, b) = <<<<"outcomes", o>>>> /\ o.id.entry = p.entry.id
    BY <1>outcome
  <2>5. /\ DOMAIN w = 1..3
        /\ w[1] = <<"runs", run>> /\ w[2] = <<"results", result>> /\ w[3] = <<"outcomes", o>>
    BY <2>2, <2>3, <2>4
  <2>6. 3 \in DOMAIN w /\ w[3][1] = "outcomes" /\ w[3][2] = o
    BY <2>5
  <2> QED BY <2>4, <2>5, <2>6
<1>2. ASSUME NEW window, NEW x, NEW b, w = OutcomeWrites(p.entry, window, x, b)
      PROVE  /\ \E k \in DOMAIN w : w[k][1] = "outcomes" /\ w[k][2].id.entry = p.entry.id
             /\ \A i \in DOMAIN w : w[i][1] # "splits"
  <2>1. PICK o : w = <<<<"outcomes", o>>>> /\ o.id.entry = p.entry.id
    BY <1>2, <1>outcome
  <2>2. DOMAIN w = 1..1 /\ w[1][1] = "outcomes" /\ w[1][2] = o
    BY <2>1
  <2> QED BY <2>1, <2>2
<1> QED BY <1>1, <1>2 DEF Works

\* The id of a trial as a function of its fields' names, to change one of them.
TrialId(card, index, status, retest, bt, wf) ==
  [card |-> card, index |-> index, status |-> status, retest |-> retest, bt |-> bt, wf |-> wf]

\* The id of a trial, field by field.
LEMMA TrialIdFields ==
  \A card, index, status, retest, bt, wf :
    TrialId(card, index, status, retest, bt, wf) =
      [field \in {"card", "index", "status", "retest", "bt", "wf"} |->
         CASE field = "card" -> card [] field = "index" -> index [] field = "status" -> status
           [] field = "retest" -> retest [] field = "bt" -> bt [] OTHER -> wf]
BY DEF TrialId
PassedWith(id, bt, wf) == [id EXCEPT !.status = "PASSED", !.bt = bt, !.wf = wf]

\* The id of the PASSED trial that the executor makes of a PENDING one's.
LEMMA PassedId ==
  ASSUME NEW card, NEW index, NEW old, NEW oldWalk, NEW bt, NEW wf, NEW id, NEW retest,
         id = TrialId(card, index, "PENDING", retest, old, oldWalk)
  PROVE  PassedWith(id, bt, wf) = TrialId(card, index, "PASSED", retest, bt, wf)
<1> DEFINE a == TrialId(card, index, "PASSED", retest, old, oldWalk)
           b == TrialId(card, index, "PASSED", retest, bt, oldWalk)
           c == TrialId(card, index, "PASSED", retest, bt, wf)
<1>1. [id EXCEPT !.status = "PASSED"] = a
  <2>1. \A r, v : [r EXCEPT !.status = v] = [x \in DOMAIN r |-> IF x = "status" THEN v ELSE r[x]]
    OBVIOUS
  <2> QED BY <2>1, TrialIdFields
<1>2. [a EXCEPT !.bt = bt] = b
  <2>1. \A r, v : [r EXCEPT !.bt = v] = [x \in DOMAIN r |-> IF x = "bt" THEN v ELSE r[x]]
    OBVIOUS
  <2> QED BY <2>1, TrialIdFields
<1>3. [b EXCEPT !.wf = wf] = c
  <2>1. \A r, v : [r EXCEPT !.wf = v] = [x \in DOMAIN r |-> IF x = "wf" THEN v ELSE r[x]]
    OBVIOUS
  <2> QED BY <2>1, TrialIdFields
<1> HIDE DEF a, b, c
<1>4. PassedWith(id, bt, wf) = [[[id EXCEPT !.status = "PASSED"] EXCEPT !.bt = bt] EXCEPT !.wf = wf]
  BY DEF PassedWith
<1> QED BY <1>1, <1>2, <1>3, <1>4, Zenon DEF c

\* A PASSED trial with that id, should it be there before, was recorded by hand.
LEMMA RecordsTrial ==
  ASSUME Inv, TimelyInv, NoneIsApart, NEW c, NEW p, NEW q, NEW w, Recording(c, p, q, "passed_trial", w)
  PROVE  Done(q, "passed_trial") \/ TakenByHand(p)
<1>facts. /\ w \in NextWrites(c, p) /\ NextTask(p) = "passed_trial" /\ Ready(p)
          /\ ReadsBasis(store, c, p) /\ ReadsBasis(store', c, q)
          /\ ReadsEvidence(store, p) /\ ReadsEvidence(store', q)
  BY RecordingFacts
<1>has. \A i \in DOMAIN w : Has(store', w[i][1], w[i][2].id)
  BY DEF Recording, Recorded
<1>old. None \notin {p.pending, p.split, p.bt, p.wf}
  BY WorksDone DEF Recording
<1> DEFINE window == p.split.id.window
           id == PassedFor(p.pending, window)
           t == Trial(c, p.pending.id.index, "PASSED", TRUE, p.bt.id, p.wf.id, p.dataset, p.pending.started)
<1>files. {"trials", "splits", "results", "walks"} \subseteq Elsewhere /\ Elsewhere \subseteq Files
  BY DEF Elsewhere, Files
<1>1. /\ p.pending \in store["trials"] /\ IsPendingOf(p.pending.id, c.id) /\ p.dataset = p.pending.dataset
      /\ p.bt \in store["results"] /\ p.bt.id = BacktestFor(p.pending, window) /\ p.bt.at >= p.pending.started
      /\ p.wf \in store["walks"] /\ p.wf.id = WalkFor(p.pending, window) /\ p.wf.at >= p.pending.started
  BY <1>facts, <1>old DEF ReadsBasis, ReadsEvidence
<1>2. TrialSays(store, {}, p.pending)
  BY <1>1, TrialOnFile
<1>3. t.id = id /\ t.dataset = p.dataset /\ t.started = p.pending.started
  <2>1. /\ t.id = TrialId(c.id, p.pending.id.index, "PASSED", TRUE, p.bt.id, p.wf.id)
        /\ t.dataset = p.dataset /\ t.started = p.pending.started
    BY DEF Trial, TrialId
  <2>2. p.pending.id.card = c.id /\ p.pending.id.status = "PENDING" /\ p.pending.id.retest = TRUE
    BY <1>1, <1>2 DEF IsPendingOf, TrialSays
  <2>3. id = PassedWith(p.pending.id, p.bt.id, p.wf.id)
    BY <1>1 DEF PassedFor, PassedWith
  <2> DEFINE pending == p.pending.id
  <2>4. pending = TrialId(c.id, pending.index, "PENDING", pending.retest, pending.bt, pending.wf)
    BY <1>2, <2>2 DEF TrialSays, TrialId
  <2> HIDE DEF pending
  <2>5. PassedWith(pending, p.bt.id, p.wf.id) = TrialId(c.id, pending.index, "PASSED", pending.retest, p.bt.id, p.wf.id)
    BY <2>4, PassedId
  <2>6. id = TrialId(c.id, p.pending.id.index, "PASSED", TRUE, p.bt.id, p.wf.id)
    BY <2>2, <2>3, <2>5 DEF pending
  <2> QED BY <2>1, <2>6
<1>4. id = [p.pending.id EXCEPT !.status = "PASSED", !.bt = p.bt.id, !.wf = p.wf.id]
  BY <1>1 DEF PassedFor
<1>5. id.card = c.id /\ id.status = "PASSED" /\ id.retest
  BY <1>1, <1>2 DEF PassedFor, TrialSays, IsPendingOf
<1>6. \E b : w = <<<<"trials", t>>, <<"budgets", b>>>>
  <2>1. /\ w = TrialWrites(c, p.pending.id.index, "PASSED", TRUE, p.dataset, p.bt.id, p.wf.id, p.pending.started)
        /\ WithinBudget(c.id, p.pending.id.index)
    BY <1>facts DEF NextWrites, PassedTrialTask
  <2> QED BY <2>1 DEF TrialWrites
<1> HIDE DEF t, id, window
<1>7. DOMAIN w = 1..2 /\ w[1][1] = "trials" /\ w[1][2] = t /\ w[2][1] = "budgets"
  BY <1>6
<1>8. PICK u \in store'["trials"] : u.id = id
  BY <1>has, <1>3, <1>7 DEF Has
<1>kept. /\ q.pending = p.pending /\ q.dataset = p.dataset /\ q.split = p.split
         /\ q.bt # None /\ q.wf # None /\ q.bt = p.bt /\ q.wf = p.wf
  <2>1. store'["splits"] = store["splits"]
    BY <1>files, <1>7, RecordingFacts
  <2>2. q.pending = p.pending /\ q.dataset = p.dataset /\ q.split = p.split /\ q.bt # None /\ q.wf # None
    BY <1>old, <2>1, PlanKept, EvidenceKept DEF Recording
  <2>3. /\ q.bt \in store'["results"] /\ q.bt.id = p.bt.id
        /\ q.wf \in store'["walks"] /\ q.wf.id = p.wf.id
    BY <1>facts, <1>1, <2>2 DEF ReadsEvidence, window
  <2>4. p.bt \in store'["results"] /\ p.wf \in store'["walks"]
    BY <1>files, <1>1 DEF Recording, Across
  <2> QED BY <1>files, <2>2, <2>3, <2>4 DEF Recording, Across, UniqueIds
<1>valid. ASSUME u.dataset = p.dataset, u.started = p.pending.started PROVE Done(q, "passed_trial")
  <2>1. q.bt.at >= u.started /\ q.wf.at >= u.started
    BY <1>1, <1>kept, <1>valid
  <2>2. u.id = PassedFor(q.pending, q.split.id.window) /\ u.dataset = q.dataset
    BY <1>8, <1>kept, <1>valid DEF id, window
  <2>3. None \notin {q.pending, q.split, q.bt, q.wf}
    BY <1>kept, <1>old
  <2>4. q.passed # None
    BY <1>facts, <1>8, <2>1, <2>2, <2>3 DEF ReadsEvidence
  <2> QED BY <2>4 DEF Done
<1>9. CASE u \notin store["trials"]
  <2>1. PICK i \in DOMAIN w : w[i][1] = "trials" /\ w[i][2] = u
    BY <1>files, <1>8, <1>9 DEF Recording, Recorded
  <2>2. u = t
    BY <1>7, <2>1
  <2> QED BY <1>3, <1>valid, <2>2
<1>10. CASE u \in store["trials"] /\ byHand = 0
  <2>1. u.started = p.pending.started
    BY <1>1, <1>5, <1>8, <1>10 DEF TimelyInv
  <2>2. u.dataset = p.dataset
    <3>1. PICK v \in store["trials"] : IsPendingOf(v.id, c.id) /\ v.dataset = u.dataset
      BY <1>5, <1>8, <1>10, TrialOnFile DEF TrialSays
    <3> QED BY <1>facts, <1>1, <3>1 DEF ReadsBasis
  <2> QED BY <1>valid, <2>1, <2>2
<1>11. CASE u \in store["trials"] /\ byHand # 0
  <2>1. byHand > 0
    BY <1>11 DEF Inv, ClockOK
  <2>2. OnFile("trials", [p.pending.id EXCEPT !.status = "PASSED", !.bt = p.bt.id, !.wf = p.wf.id])
    BY <1>4, <1>8, <1>11 DEF OnFile
  <2> QED BY <1>old, <2>1, <2>2 DEF TakenByHand
<1> QED BY <1>9, <1>10, <1>11

\* The evaluation, its entry and the shadow outcome that were recorded are found, unless a
\* decide has opened the gate again.
LEMMA RecordsGate ==
  ASSUME Inv, NoneIsApart, NEW c, NEW p, NEW q, NEW task, NEW w, Recording(c, p, q, task, w),
         task \in {"gate", "shadow"}, store'["baselines"] = store["baselines"]
  PROVE  Done(q, task)
<1>facts. /\ task # "shadow" => w \in NextWrites(c, p) /\ NextTask(p) = task
          /\ ReadsBasis(store, c, p) /\ ReadsBasis(store', c, q) /\ ReadsEvidence(store, p)
          /\ ReadsGate(store, p) /\ ReadsGate(store', q)
  BY RecordingFacts
<1>has. \A i \in DOMAIN w : Has(store', w[i][1], w[i][2].id)
  BY DEF Recording, Recorded
<1>files. {"splits", "baselines", "costs", "evaluations", "entries", "outcomes"} \subseteq Elsewhere /\ Elsewhere \subseteq Files
  BY DEF Elsewhere, Files
<1>grow. \A f \in Files : store[f] \subseteq store'[f]
  BY DEF Recording, Across
<1>old. None \notin {p.pending, p.split, p.bt, p.wf, p.passed, p.cost, p.baseline}
  <2>1. None \notin {p.passed, p.cost, p.baseline}
    BY <1>facts, WorksDone DEF Recording, ReadsGate
  <2> QED BY <1>facts, <2>1 DEF ReadsEvidence
<1>kept. ASSUME \A i \in DOMAIN w : w[i][1] # "splits"
         PROVE  /\ None \notin {q.passed, q.cost, q.baseline}
                /\ EvaluationFor(q) = EvaluationFor(p)
  <2>1. store'["splits"] = store["splits"]
    BY <1>files, <1>kept, RecordingFacts
  <2>2. q.pending = p.pending /\ q.split = p.split /\ q.passed # None
    BY <1>old, <2>1, PlanKept, EvidenceKept DEF Recording
  <2>3. q.baseline = p.baseline
    <3>1. p.baseline = Latest(store["baselines"]) /\ q.baseline = Latest(store'["baselines"])
      BY <1>facts DEF ReadsBasis
    <3> QED BY <2>1, <3>1
  <2>4. q.cost # None
    BY <1>facts, <1>files, <1>grow, <1>old DEF ReadsBasis
  <2> QED BY <1>old, <2>2, <2>3, <2>4 DEF EvaluationFor
<1>1. CASE task = "gate"
  <2>1. w = GateWrites(EvaluationId(p))
    BY <1>facts, <1>1 DEF NextWrites, GateTask
  <2>2. EvaluationId(p) = EvaluationFor(p)
    BY <1>facts, <1>old, GateFor, PlanFacts DEF Recording, Works
  <2> DEFINE e == Evaluation(EvaluationFor(p), Rankable(EvaluationFor(p)))
  <2>3. e.id = EvaluationFor(p)
    BY DEF Evaluation
  <2>4. \E r : w = <<<<"evaluations", e>>, <<"entries", r>>>>
    BY <2>1, <2>2 DEF GateWrites
  <2> HIDE DEF e
  <2>5. DOMAIN w = 1..2 /\ w[1][1] = "evaluations" /\ w[1][2] = e /\ w[2][1] = "entries"
    BY <2>4
  <2>6. Has(store', "evaluations", EvaluationFor(p))
    BY <1>has, <2>3, <2>5
  <2>7. \A i \in DOMAIN w : w[i][1] # "splits"
    BY <2>5
  <2>8. q.evaluation # None
    BY <1>facts, <1>kept, <2>6, <2>7 DEF ReadsGate
  <2> QED BY <1>1, <2>8 DEF Done
<1>2. CASE task = "shadow"
  <2>1. p.entry # None
    BY <1>2, WorksDone DEF Recording
  <2>2. \E k \in DOMAIN w : w[k][1] = "outcomes" /\ w[k][2].id.entry = p.entry.id
    BY <1>2, ShadowWrites DEF Recording
  <2>3. \A i \in DOMAIN w : w[i][1] # "splits"
    BY <1>2, ShadowWrites DEF Recording
  <2>4. p.entry.id = EvaluationFor(p) /\ Has(store, "entries", EvaluationFor(p)) /\ Has(store, "evaluations", EvaluationFor(p))
    BY <1>facts, <2>1 DEF ReadsGate
  <2>5. /\ Has(store', "entries", EvaluationFor(p)) /\ Has(store', "evaluations", EvaluationFor(p))
        /\ \E o \in store'["outcomes"] : o.id.entry = EvaluationFor(p)
    BY <1>files, <1>grow, <1>has, <2>2, <2>4 DEF Has
  <2>6. q.outcome # None
    BY <1>facts, <1>kept, <2>3, <2>5 DEF ReadsGate
  <2> QED BY <1>2, <2>6 DEF Done
<1> QED BY <1>1, <1>2

\* The plan of the card a row names, before a step and after one.
LEMMA NamedCard ==
  ASSUME Inv, NEW c \in store["cards"]
  PROVE  Row("cards", c.id) = c
<1>1. OnFile("cards", c.id)
  BY DEF OnFile
<1> QED BY <1>1, RowFacts, CardFacts

\* The same as PlanReads, for a card named by its id.
LEMMA NamedReads ==
  ASSUME NoneIsApart
  PROVE  \A id, c, p : Inv /\ c \in store["cards"] /\ c.id = id /\ id # 0 /\ p = Plan(Row("cards", id)) =>
           Reads(store, c, p)
BY NamedCard, PlanReads

\* And after the step.
LEMMA NamedReadsNext ==
  ASSUME NoneIsApart
  PROVE  (\A id, c, p : Inv /\ c \in store["cards"] /\ c.id = id /\ id # 0 /\ p = Plan(Row("cards", id)) =>
            Reads(store, c, p))'
BY NamedReads, PTL

\* Whatever task of a retest is recorded, it is done for the plan that follows, but for
\* the exceptions of ExecutorDoesWhatItSays.
LEMMA RecordsDone ==
  ASSUME Inv, Inv', TimelyInv, NoneIsApart, [Next]_vars,
         NEW row \in store'["automations"] \ store["automations"], row.id.task \in RetestTasks
  PROVE  \A p \in {Plan(Row("cards", row.id.card))}, q \in {Plan(Row("cards", row.id.card))'} :
           \/ Done(q, row.id.task)
           \/ row.id.task = "passed_trial" /\ TakenByHand(p)
           \/ row.id.task \in {"gate", "shadow"} /\ store'.baselines # store.baselines
<1>1. PICK c, p, task, w : /\ Works(c, p, task, w) /\ Legal(w) /\ Recorded(w)
                           /\ row.id.task = task /\ row.id.card = c.id
  BY WhoRecords
<1>2. c \in store["cards"] /\ c.id # 0 /\ Reads(store, c, p) /\ p = Plan(c)
  BY <1>1, WorksReads DEF Works
<1>3. Plan(Row("cards", row.id.card)) = p
  BY <1>1, <1>2, NamedCard
<1>4. c \in store'["cards"]
  BY <1>2, FilesGrow DEF Files
<1> DEFINE q == Plan(Row("cards", row.id.card))'
<1>5. Reads(store', c, q)
  <2>1. \A id, d, r : Inv' /\ d \in store'["cards"] /\ d.id = id /\ id # 0 /\ r = Plan(Row("cards", id))' =>
          Reads(store', d, r)
    BY NamedReadsNext DEF Reads, ReadsBasis, ReadsEvidence, ReadsGate, Has
  <2> QED BY <1>1, <1>2, <1>4, <2>1
<1>6. \A f \in Files : store[f] \subseteq store'[f] /\ UniqueIds(store'[f])
  BY FilesGrow DEF Inv, RowsOK, Agree, UniqueIds
<1> HIDE DEF q
<1>7. Recording(c, p, q, task, w)
  BY <1>1, <1>2, <1>5, <1>6 DEF Recording, Across
<1>8. task \in {"scaffold", "lock", "baseline", "backtest", "walk_forward", "passed_trial", "gate", "shadow"}
  BY <1>1, WorksDone DEF RetestTasks, Tasks
<1>9. \/ Done(q, task)
      \/ task = "passed_trial" /\ TakenByHand(p)
      \/ task \in {"gate", "shadow"} /\ store'.baselines # store.baselines
  BY <1>7, <1>8, RecordsBasis, RecordsEvidence, RecordsTrial, RecordsGate
<1> QED BY <1>1, <1>3, <1>9 DEF q

-----------------------------------------------------------------------------
(* Theorems.                                                               *)

\* What the rows of the files say, and a revision with its agenda.
LEMMA InvAlways ==
  ASSUME NoneIsApart
  PROVE  Spec => [](Inv /\ AnswerInv)
<1>1. Init => Inv /\ AnswerInv
  BY InitInv
<1>2. Inv /\ AnswerInv /\ [Next]_vars => (Inv /\ AnswerInv)'
  BY InvNext, AnswerNext
<1> QED BY <1>1, <1>2, PTL DEF Spec

\* However many writes a command died after, and however often a command was
\* given by hand between two others: no trial, split, result, walk-forward, gate,
\* entry, outcome, card, agenda or autopilot run names a row that is not on file
\* (storage.py appends one file at a time; nothing in the code looks back).
THEOREM NoDanglingAlways ==
  ASSUME NoneIsApart
  PROVE  Spec => []NoDangling
<1>1. Inv => NoDangling
  <2> SUFFICES ASSUME Inv PROVE NoDangling
    OBVIOUS
  <2>says. \A f \in Files : \A r \in store[f] : Says(store, {}, f, r)
    BY DEF Inv, RowsOK
  <2>found. /\ \A f, id : Found(store, {}, f, id) => Resolves(f, id)
            /\ \A f, id : Optional(store, {}, f, id) => Resolves(f, id)
            /\ \A f, id : Has(store, f, id) => Resolves(f, id)
    BY DEF Found, Optional, Has, Resolves, OnFile
  <2>1. \A t \in store["trials"] :
          /\ Resolves("cards", t.id.card) /\ Resolves("datasets", t.dataset)
          /\ Resolves("results", t.id.bt) /\ Resolves("walks", t.id.wf)
    <3>1. \A t \in store["trials"] : TrialSays(store, {}, t)
      BY TrialOnFile
    <3> QED BY <2>found, <3>1 DEF TrialSays
  <2>2. \A s \in store["splits"] : Resolves("cards", s.id.card) /\ Resolves("datasets", s.id.dataset)
    BY <2>says, <2>found DEF Says, SplitSays, Files
  <2>3. /\ \A r \in store["results"] : Resolves("runs", r.id)
        /\ \A w \in store["walks"] : Resolves("results", w.id.linked)
    BY <2>says, <2>found DEF Says, ResultSays, WalkSays, Files
  <2>4. \A e \in store["evaluations"] : e.rankable =>
          /\ Resolves("trials", e.id.trial) /\ Resolves("splits", e.id.split)
          /\ Resolves("baselines", e.id.baseline)
    <3> SUFFICES ASSUME NEW e \in store["evaluations"], e.rankable
                 PROVE  /\ Resolves("trials", e.id.trial) /\ Resolves("splits", e.id.split)
                        /\ Resolves("baselines", e.id.baseline)
      OBVIOUS
    <3>1. Passes(store, e.id)
      BY <2>says DEF Says, GateSays, Files
    <3>2. Has(store, "trials", e.id.trial) /\ Has(store, "splits", e.id.split) /\ Has(store, "baselines", e.id.baseline)
      BY <3>1 DEF Passes, Has
    <3> QED BY <2>found, <3>2
  <2>5. \A e \in store["entries"] : Resolves("evaluations", e.id)
    BY <2>says, <2>found DEF Says, Files
  <2>6. \A o \in store["outcomes"] : Resolves("entries", o.id.entry)
    BY <2>says, <2>found DEF Says, OutcomeSays, Files
  <2>7. \A c \in store["cards"] : Resolves("cards", c.parent) /\ Resolves("outcomes", c.source)
    <3>1. \A c \in store["cards"] : CardSays(store, {}, c)
      BY <2>says DEF Says, Files
    <3> QED BY <2>found, <3>1 DEF CardSays, Resolves
  <2>8. \A a \in store["agendas"] : \A id \in a.id.cards : Resolves("cards", id)
    BY <2>says, <2>found DEF Says, AgendaSays, Files
  <2>9. \A r \in store["autopilots"] : Resolves("agendas", r.id.agenda) /\ Resolves("outcomes", r.id.outcome)
    BY <2>says, <2>found DEF Says, AutopilotSays, Files
  <2> QED BY <2>1, <2>2, <2>3, <2>4, <2>5, <2>6, <2>7, <2>8, <2>9 DEF NoDangling
<1> QED BY <1>1, InvAlways, PTL

\* A retest's run is offered to the operator for promotion only on evidence of the
\* card's own: a gate that was passed on a PASSED trial of that card, whose backtest
\* and walk-forward belong together and to one PENDING trial of the same index, and
\* are not older than it (revision_retest_autopilot.py takes the plan's word for it).
THEOREM ReviewOnOwnEvidenceAlways ==
  ASSUME NoneIsApart
  PROVE  Spec => []ReviewOnOwnEvidence
<1>1. Inv => ReviewOnOwnEvidence
  <2> SUFFICES ASSUME Inv, NEW r \in store["autopilots"], r.retest, r.id.status = "READY_FOR_OPERATOR_REVIEW"
               PROVE  LET e == Row("entries", r.id.entry).id IN
                      /\ Row("evaluations", e).rankable /\ r.id.outcome.entry = e
                      /\ e.card = r.id.card /\ e.trial.card = e.card /\ e.trial.status = "PASSED"
                      /\ e.split.card = e.card /\ e.split.window = e.bt.window /\ e.split.window = e.wf.window
                      /\ e.trial.bt = e.bt /\ e.trial.wf = e.wf /\ e.wf.linked = e.bt
                      /\ \E t \in store.trials :
                           /\ t.id.card = e.card /\ t.id.status = "PENDING" /\ t.id.index = e.trial.index
                           /\ e.bt.context = t.id /\ e.wf.context = t.id
                           /\ Row("results", e.bt).at >= t.started /\ Row("walks", e.wf).at >= t.started
    BY DEF ReviewOnOwnEvidence
  <2> DEFINE e == r.id.entry
  <2>files. {"entries", "evaluations", "results", "walks", "autopilots"} \subseteq Files
    BY DEF Files
  <2>1. AutopilotSays(store, {}, r)
    BY <2>files DEF Inv, RowsOK, Says
  <2>2. OnFile("entries", e) /\ Tested(store, r.id)
    BY <2>1 DEF AutopilotSays, Has, OnFile
  <2>3. Row("entries", e).id = e
    BY <2>2, RowFacts
  <2>row. ASSUME NEW f \in Files, NEW q \in store[f] PROVE Row(f, q.id) = q
    <3>1. OnFile(f, q.id)
      BY DEF OnFile
    <3>2. Row(f, q.id) \in store[f] /\ Row(f, q.id).id = q.id
      BY <3>1, RowFacts
    <3> QED BY <3>2 DEF Inv, RowsOK, Agree
  <2>4. Row("evaluations", e).rankable
    BY <2>2, <2>row, <2>files DEF Tested
  <2>5. PICK t \in store["trials"] :
          /\ t.id.card = e.card /\ t.id.status = "PENDING" /\ t.id.index = e.trial.index
          /\ e.bt.context = t.id /\ e.wf.context = t.id
          /\ \E q \in store["results"] : q.id = e.bt /\ q.at >= t.started
          /\ \E q \in store["walks"] : q.id = e.wf /\ q.at >= t.started
    BY <2>2 DEF Tested
  <2>6. Row("results", e.bt).at >= t.started /\ Row("walks", e.wf).at >= t.started
    BY <2>5, <2>row, <2>files
  <2>7. /\ r.id.outcome.entry = e /\ e.card = r.id.card /\ e.trial.card = e.card /\ e.trial.status = "PASSED"
        /\ e.split.card = e.card /\ e.split.window = e.bt.window /\ e.split.window = e.wf.window
        /\ e.trial.bt = e.bt /\ e.trial.wf = e.wf /\ e.wf.linked = e.bt
    BY <2>2 DEF Tested
  <2> HIDE DEF e
  <2> QED BY <2>3, <2>4, <2>5, <2>6, <2>7 DEF e
<1> QED BY <1>1, InvAlways, PTL

\* What the next call for a failed outcome leaves, wherever an earlier one died.
LEMMA ProposalAnswers ==
  ASSUME Inv, AnswerInv, NEW o \in store["outcomes"]
  PROVE  Answered(FoldLeft(AppendRow, store, ProposalWrites(o)), o)
<1> DEFINE files == FoldLeft(AppendRow, store, ProposalWrites(o))
<1>fold. files = FoldLeft(AppendRow, store, ProposalWrites(o))
  OBVIOUS
<1> HIDE DEF files
<1> SUFFICES \E c \in files["cards"] :
               /\ {d \in files["cards"] : d.basis = "revision" /\ d.source = o.id /\ d.parent = o.card} = {c}
               /\ \E b : {a \in files["agendas"] : a.id.basis = "revision" /\ a.id.cards = {c.id}} = {b}
  BY <1>fold, FS_Singleton DEF Answered, RevisionsIn, AgendasIn
<1>files. {"cards", "agendas"} \subseteq Files /\ DOMAIN store = Files
  BY DEF Files, Inv, FilesOK
<1>existing. RevisionsIn(store, o) =
      {d \in store["cards"] : d.basis = "revision" /\ d.source = o.id /\ d.parent = o.card}
  BY DEF RevisionsIn
<1>1. CASE RevisionsIn(store, o) = {}
  <2>1. {c \in RevisionsFor(o.id) : c.parent = o.card} = {} /\ ProposalWrites(o) = Drafted(o)
    BY <1>1 DEF RevisionsIn, RevisionsFor, ProposalWrites
  <2>2. PICK card, agenda : /\ Drafted(o) = <<<<"cards", card>>, <<"agendas", agenda>>>>
                            /\ Revises(o, card, agenda)
                            /\ Legal(<<<<"cards", card>>, <<"agendas", agenda>>>>)
    BY <2>1, ReviseLegal DEF Drafted, AgendaOf
  <2> DEFINE writes == <<<<"cards", card>>, <<"agendas", agenda>>>>
  <2>3. /\ DOMAIN writes = {1, 2} /\ writes[1][1] = "cards" /\ writes[1][2] = card
        /\ writes[2][1] = "agendas" /\ writes[2][2] = agenda
    OBVIOUS
  <2>4. files = FoldLeft(AppendRow, store, writes) /\ IsWrites(writes)
    BY <1>fold, <2>1, <2>2 DEF Legal
  <2> HIDE DEF writes
  <2>5. Appended(store, writes, DOMAIN writes, files)
    BY <1>files, <2>4, AppendAll
  <2>6. /\ store["cards"] \subseteq files["cards"] /\ files["cards"] \subseteq store["cards"] \cup {card}
        /\ store["agendas"] \subseteq files["agendas"]
        /\ files["agendas"] \subseteq store["agendas"] \cup {agenda}
        /\ (\E r \in files["cards"] : r.id = card.id) /\ (\E r \in files["agendas"] : r.id = agenda.id)
    BY <1>files, <2>3, <2>5 DEF Appended, Has
  <2>7. /\ card.id = now /\ card.basis = "revision" /\ card.source = o.id /\ card.parent = o.card
        /\ agenda.id.basis = "revision" /\ agenda.id.cards = {now}
    BY <2>2 DEF Revises
  <2>8. \A d \in store["cards"] : d.id # now
    BY CardFacts, TimeNow
  <2>9. \A a \in store["agendas"] : a.id.cards # {now}
    <3> SUFFICES ASSUME NEW a \in store["agendas"], now \in a.id.cards PROVE FALSE
      OBVIOUS
    <3>1. PICK d \in store["cards"] : d.id = now
      BY DEF Inv, RowsOK, Says, AgendaSays, Found, Has, Files
    <3> QED BY <2>8, <3>1
  <2>10. card \in files["cards"] /\ agenda \in files["agendas"]
    <3>1. \A r \in store["agendas"] : r.id # agenda.id
      BY <2>7, <2>9
    <3> QED BY <2>6, <2>7, <2>8, <3>1
  <2>11. {d \in files["cards"] : d.basis = "revision" /\ d.source = o.id /\ d.parent = o.card} = {card}
    BY <1>existing, <1>1, <2>6, <2>7, <2>10
  <2>12. {a \in files["agendas"] : a.id.basis = "revision" /\ a.id.cards = {card.id}} = {agenda}
    BY <2>6, <2>7, <2>9, <2>10
  <2> QED BY <2>10, <2>11, <2>12
<1>2. CASE RevisionsIn(store, o) # {}
  <2> DEFINE c == CHOOSE c \in RevisionsIn(store, o) : TRUE
  <2>1. c \in RevisionsIn(store, o)
    BY <1>2
  <2>2. ProposalWrites(o) = IF AgendasIn(store, c.id) # {} THEN <<>>
                            ELSE <<AgendaOf(c.id, o)>>
    BY <1>2 DEF ProposalWrites
  <2> HIDE DEF c
  <2>3. RevisionsIn(store, o) = {c}
    <3> SUFFICES ASSUME NEW d \in RevisionsIn(store, o) PROVE d = c
      BY <2>1
    <3>1. CardSays(store, {}, c) /\ CardSays(store, {}, d) /\ Agree("cards", c, d)
      BY <1>files, <1>existing, <2>1 DEF Inv, RowsOK, Says
    <3>2. c.archetype = TRUE /\ d.archetype = TRUE
      BY <1>existing, <2>1, <3>1 DEF CardSays
    <3> QED BY <1>existing, <2>1, <3>1, <3>2 DEF Agree
  <2>4. CASE \E a \in OfBasis("revision") : a.id.cards = {c.id}
    <3>1. PICK a \in OfBasis("revision") : a.id.cards = {c.id}
      BY <2>4
    <3>2. files = store
      <4>1. ProposalWrites(o) = <<>>
        BY <2>2, <2>4 DEF AgendasIn, OfBasis
      <4> QED BY <1>fold, <4>1, FoldNone
    <3>3. {b \in store["agendas"] : b.id.basis = "revision" /\ b.id.cards = {c.id}} = {a}
      BY <3>1 DEF AnswerInv, OfBasis
    <3> QED BY <1>existing, <2>1, <2>3, <3>2, <3>3
  <2>5. CASE ~\E a \in OfBasis("revision") : a.id.cards = {c.id}
    <3> DEFINE agenda == AgendaRow("revision", {c.id}, None, None, o.id)
    <3>1. ProposalWrites(o) = <<<<"agendas", agenda>>>>
      BY <2>2, <2>5, AgendaParts DEF AgendaOf, AgendasIn, OfBasis
    <3>2. agenda.id.basis = "revision" /\ agenda.id.cards = {c.id}
      BY AgendaParts
    <3> HIDE DEF agenda
    <3>3. files = AppendRow(store, <<"agendas", agenda>>)
      BY <1>fold, <1>files, <3>1, FoldSingle
    <3>4. \A r \in store["agendas"] : r.id # agenda.id
      BY <2>5, <3>2 DEF OfBasis
    <3>5. files = [store EXCEPT !["agendas"] = store["agendas"] \cup {agenda}]
      BY <1>files, <3>3, <3>4 DEF AppendRow
    <3>6. files["cards"] = store["cards"] /\ files["agendas"] = store["agendas"] \cup {agenda}
      BY <1>files, <3>5
    <3>7. {a \in files["agendas"] : a.id.basis = "revision" /\ a.id.cards = {c.id}} = {agenda}
      BY <2>5, <3>2, <3>6 DEF OfBasis
    <3>8. {d \in files["cards"] : d.basis = "revision" /\ d.source = o.id /\ d.parent = o.card} = {c}
      BY <1>existing, <2>3, <3>6
    <3>9. c \in files["cards"]
      BY <1>existing, <2>1, <3>6
    <3> QED BY <3>7, <3>8, <3>9
  <2> QED BY <2>4, <2>5
<1> QED BY <1>1, <1>2

\* An outcome is answered by one revision and one replacement at most, whatever
\* commands are given and wherever one dies; and in whatever state the dead leave the
\* files, the next proposal to end leaves the failed outcome one revision with one
\* agenda (strategy_evolution.py 70-135 looks for the draft of the outcome first).
THEOREM AnsweredOnceAlways ==
  ASSUME NoneIsApart
  PROVE  Spec => []AnsweredOnce
<1>1. Inv /\ AnswerInv => AnsweredOnce
  <2> SUFFICES ASSUME Inv, AnswerInv PROVE AnsweredOnce
    OBVIOUS
  <2>1. \A c, d \in Drafts :
          c.source = d.source /\ c.basis = d.basis /\ c.archetype = d.archetype => c = d
    BY DEF Inv, RowsOK, Agree, Drafts, Files
  <2> QED BY <2>1, ProposalAnswers DEF AnsweredOnce
<1> QED BY <1>1, InvAlways, PTL

\* A retest goes forward (revision_retest_plan.py 350-961 reads it back from the
\* files on every call): whatever command, crash or hand comes between two calls, a
\* task the plan counted as done is not open again, except that a new baseline opens
\* the gate and what follows, and the lock of another window all that rests on it.
THEOREM TasksStayDoneAlways ==
  ASSUME NoneIsApart
  PROVE  Spec => TasksStayDone
<1>1. Inv /\ Inv' /\ [Next]_vars =>
        [\A c \in Drafts : \A p \in {Plan(c)}, q \in {Plan(c)'}, i \in DOMAIN Tasks :
           Done(p, Tasks[i]) /\ ~Done(q, Tasks[i]) =>
             \/ Tasks[i] \in {"gate", "shadow"} /\ store'.baselines # store.baselines
             \/ i > 3 /\ store'.splits # store.splits]_vars
  <2> SUFFICES ASSUME Inv, Inv', [Next]_vars, NEW c \in Drafts, NEW i \in DOMAIN Tasks,
                      Done(Plan(c), Tasks[i]), ~Done(Plan(c)', Tasks[i])
               PROVE  \/ Tasks[i] \in {"gate", "shadow"} /\ store'.baselines # store.baselines
                      \/ i > 3 /\ store'.splits # store.splits
    OBVIOUS
  <2>1. Across(c, Plan(c), Plan(c)')
    BY DraftId, PlanAcross
  <2> QED BY <2>1, TasksKept
<1> QED BY <1>1, InvAlways, PTL DEF Spec, TasksStayDone

\* Up to the first thing done by hand, no retest has a trial with another start than
\* its PENDING trial.
LEMMA TimelyAlways ==
  ASSUME NoneIsApart
  PROVE  Spec => []TimelyInv
<1>1. Init => TimelyInv
  <2> SUFFICES ASSUME Init PROVE TimelyInv
    OBVIOUS
  <2>1. PICK full, card, others, e, gated, outcome : Start(store, full, card, others, e, gated, outcome)
    BY InitStart
  <2> QED BY <2>1 DEF Start, RootTrial, TimelyInv
<1>2. Inv /\ Inv' /\ TimelyInv /\ [Next]_vars => TimelyInv'
  BY TimelyNext
<1> QED BY <1>1, <1>2, InvAlways, PTL DEF Spec

\* When the executor records that it did a task of a retest, the plan counts the task
\* as done, over any number of baselines, windows and incidents, and with a decide at
\* any point of the executor's call: the trial, the artifacts and the ids that
\* revision_retest_executor.py 41-190 writes are those that revision_retest_plan.py
\* 350-961 looks for.  Two things stand in the way: a PASSED trial that the operator
\* recorded by hand, with the same evidence, before the executor's own, and a decide
\* during the call, whose baseline opens the gate that the call has just passed.
THEOREM ExecutorDoesWhatItSaysAlways ==
  ASSUME NoneIsApart
  PROVE  Spec => ExecutorDoesWhatItSays
<1>1. Inv /\ Inv' /\ TimelyInv /\ [Next]_vars =>
        [\A row \in store'.automations \ store.automations :
           row.id.task \in RetestTasks =>
             \A p \in {Plan(Row("cards", row.id.card))}, q \in {Plan(Row("cards", row.id.card))'} :
               \/ Done(q, row.id.task)
               \/ row.id.task = "passed_trial" /\ TakenByHand(p)
               \/ row.id.task \in {"gate", "shadow"} /\ store'.baselines # store.baselines]_vars
  BY RecordsDone
<1> QED BY <1>1, InvAlways, TimelyAlways, PTL DEF Spec, ExecutorDoesWhatItSays

==============================================================================
