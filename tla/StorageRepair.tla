---------------------------- MODULE StorageRepair ----------------------------
(***************************************************************************)
(* repair-storage (maintenance.py): take the legacy forecasts and the      *)
(* retest trials whose evidence carries the wrong id_context out of the    *)
(* active files, and with the trials every locked evaluation, leaderboard  *)
(* entry, shadow outcome and autopilot run that points at one of them.     *)
(*                                                                         *)
(* One kind after the other is appended to its quarantine file and its     *)
(* active file rewritten, so a crash leaves the cascade half done; what is *)
(* in quarantine already is read back by the next repair to finish it.     *)
(*                                                                         *)
(* An evaluation's, entry's or outcome's id is made from its trial's id,   *)
(* so a chain is named by its trial; an autopilot run names an id of each  *)
(* kind, as given on the command line.  Order within a file is left out.   *)
(***************************************************************************)
EXTENDS Integers, Sequences, FiniteSets

CONSTANTS
  Forecasts, Legacy,   \* forecasts, and those off the hour boundary
  Trials, Pending,     \* ids of retest trials, and of the one yet to be executed
  MaxRuns,             \* bound: autopilot runs ever recorded
  Faults               \* subset of {"crash", "torn_write", "rerecord"}

ASSUME LegacyAssumption == Legacy \subseteq Forecasts
ASSUME PendingAssumption == Pending \in Trials
ASSUME FaultsAssumption == Faults \subseteq {"crash", "torn_write", "rerecord"}

Missing == <<>>        \* Python's None: a run without a shadow outcome
ASSUME MissingAssumption == Missing \notin Trials

\* The files in the order repair_storage deals with them.
Stages == <<"forecast", "trial", "evaluation", "entry", "outcome", "run">>
Kinds == {"forecast", "trial", "evaluation", "entry", "outcome", "run"}
\* The evidence of an executed trial carries the id_context of the pending one,
\* or the wrong one; it is not part of the trial's id.
Trial == [id : Trials, evidence : {"valid", "wrong"}]
Run == [trial : Trials, evaluation : Trials, entry : Trials, outcome : Trials \cup {Missing}]
Rows == [k \in Kinds |-> CASE k = "forecast" -> Forecasts [] k = "trial" -> Trial
                            [] k = "run" -> Run [] OTHER -> Trials]
NoRows == [k \in Kinds |-> {}]
Id(k, x) == IF k = "trial" THEN x.id ELSE x
Ids(rows, k) == {Id(k, x) : x \in rows[k]}

VARIABLES
  active,       \* the rows of each kind's JSONL file
  quarantine,   \* the rows of its file under quarantine/
  doomed,       \* what the repair in progress has decided to move
  kept,         \* and the rows it will write back
  pc,           \* "idle", or the repair's next write
  at,           \* the stage that write belongs to
  recorded,     \* history: every row ever recorded
  torn,         \* history: the rows that torn rewrites dropped
  clean         \* history: a repair has finished and nothing was recorded since

files == <<active, quarantine>>
vars == <<active, quarantine, doomed, kept, pc, at, recorded, torn, clean>>

-----------------------------------------------------------------------------
(* What is wrong, and what points at it                                    *)

\* The ids, with their kinds, that row x of kind k holds.
Refs(k, x) ==
  CASE k = "evaluation" -> {<<"trial", x>>}
    [] k = "entry"      -> {<<"trial", x>>, <<"evaluation", x>>}
    [] k = "outcome"    -> {<<"trial", x>>, <<"evaluation", x>>, <<"entry", x>>}
    [] k = "run"        -> {<<"trial", x.trial>>, <<"evaluation", x.evaluation>>,
                            <<"entry", x.entry>>, <<"outcome", x.outcome>>}
    [] OTHER            -> {}

\* Evidence can be verified only while the pending trial that it names is on file.
MutRotten(k) ==
  CASE k = "forecast" -> Legacy
    [] k = "trial"    -> {x \in Trial : x.id # Pending}
    [] OTHER          -> {}
Rotten(k) ==
  CASE k = "forecast" -> Legacy
    [] k = "trial"    -> {x \in Trial : /\ x.id # Pending
                                        /\ x.evidence = "valid" => Pending \notin Ids(active, "trial")}
    [] OTHER          -> {}
PointsInto(k, x, rows) == \E r \in Refs(k, x) : r[2] \in Ids(rows, r[1])

\* Active rows of kind k that are bad, given the bad ones of the kinds before:
\* an id counts as bad when it is in quarantine already.
MutCondemned(k, bad) ==
  {x \in active[k] : x \in Rotten(k) \/ PointsInto(k, x, bad)}
Condemned(k, bad) ==
  {x \in active[k] : x \in Rotten(k) \/ PointsInto(k, x, bad) \/ PointsInto(k, x, quarantine)}

Judge(bad, k) == [bad EXCEPT ![k] = Condemned(k, bad)]
MutDoomed == LET trials == Judge(Judge(NoRows, "forecast"), "trial")
             IN  [k \in Kinds |-> IF k = "trial" THEN trials[k] ELSE Condemned(k, trials)]
Doomed ==
  LET forecasts   == Judge(NoRows, "forecast")
      trials      == Judge(forecasts, "trial")
      evaluations == Judge(trials, "evaluation")
      entries     == Judge(evaluations, "entry")
      outcomes    == Judge(entries, "outcome")
  IN  Judge(outcomes, "run")

-----------------------------------------------------------------------------
(* repair_storage                                                          *)

Idle == pc = "idle"
Stage == Stages[at]

\* Every file is read before the first is written.  Trials with an id that is in
\* quarantine are not written back.
Begin ==
  /\ Idle
  /\ doomed' = Doomed
  /\ kept' = [k \in Kinds |->
                {x \in active[k] \ Doomed[k] :
                   k = "trial" => x.id \notin Ids(Doomed, k) \cup Ids(quarantine, k)}]
  /\ pc' = "append" /\ at' = 1
  /\ UNCHANGED <<files, recorded, torn, clean>>

\* _append_unique_jsonl and save_*: an id that is there already is skipped.
Unique(k, file, rows) == file \cup {x \in rows : \A y \in file : Id(k, y) # Id(k, x)}

MutNextStage == IF at > Len(Stages) THEN pc' = "report" /\ at' = at ELSE pc' = "append" /\ at' = at + 1
NextStage == IF at = Len(Stages) THEN pc' = "report" /\ at' = at ELSE pc' = "append" /\ at' = at + 1

\* A file with nothing to move is not touched.
SkipStage ==
  /\ pc = "append" /\ doomed[Stage] = {}
  /\ NextStage
  /\ UNCHANGED <<files, doomed, kept, recorded, torn, clean>>

MutAppendQuarantine ==
  /\ pc = "append" /\ doomed[Stage] # {}
  /\ active' = [active EXCEPT ![Stage] = kept[Stage]]
  /\ pc' = "replace"
  /\ UNCHANGED <<quarantine, doomed, kept, at, recorded, torn, clean>>
AppendQuarantine ==
  /\ pc = "append" /\ doomed[Stage] # {}
  /\ quarantine' = [quarantine EXCEPT ![Stage] = Unique(Stage, @, doomed[Stage])]
  /\ pc' = "replace"
  /\ UNCHANGED <<active, doomed, kept, at, recorded, torn, clean>>

ReplaceActive ==
  /\ pc = "replace"
  /\ active' = [active EXCEPT ![Stage] = kept[Stage]]
  /\ NextStage
  /\ UNCHANGED <<quarantine, doomed, kept, recorded, torn, clean>>

\* storage_repair_report.json: counts of what was done.
Stop == pc' = "idle" /\ at' = 1 /\ doomed' = NoRows /\ kept' = NoRows
Report ==
  /\ pc = "report"
  /\ Stop /\ clean' = TRUE
  /\ UNCHANGED <<files, recorded, torn>>

-----------------------------------------------------------------------------
(* Faults                                                                  *)

Crash ==
  /\ "crash" \in Faults /\ ~Idle
  /\ Stop
  /\ UNCHANGED <<files, recorded, torn, clean>>

\* Some of the lines of an append were written.
TornAppend ==
  /\ "crash" \in Faults /\ pc = "append"
  /\ \E done \in SUBSET doomed[Stage] :
       quarantine' = [quarantine EXCEPT ![Stage] = Unique(Stage, @, done)]
  /\ Stop
  /\ UNCHANGED <<active, recorded, torn, clean>>

\* Some of the lines of a rewrite were, the file having been truncated.
TornReplace ==
  /\ "torn_write" \in Faults /\ pc = "replace"
  /\ \E done \in SUBSET kept[Stage] :
       /\ active' = [active EXCEPT ![Stage] = done]
       /\ torn' = [torn EXCEPT ![Stage] = @ \cup (kept[Stage] \ done)]
  /\ Stop
  /\ UNCHANGED <<quarantine, recorded, clean>>

-----------------------------------------------------------------------------
(* The commands that record rows, run between repairs                      *)

Record(rows) ==
  /\ Idle
  /\ active' = [k \in Kinds |-> Unique(k, active[k], rows[k])]
  /\ recorded' = [k \in Kinds |-> recorded[k] \cup active'[k]]
  /\ clean' = FALSE
  /\ UNCHANGED <<quarantine, doomed, kept, pc, at, torn>>
Only(k, x) == [NoRows EXCEPT ![k] = {x}]

\* Evidence can only name a pending trial that was recorded before.  A trial may
\* be recorded again with other evidence.
RecordTrial(x) ==
  /\ IF x.id = Pending THEN x.evidence = "valid"
                       ELSE x.evidence = "valid" => Pending \in Ids(recorded, "trial")
  /\ "rerecord" \in Faults \/ \A y \in recorded["trial"] : y.id = x.id => y = x
  /\ Record(Only("trial", x))

\* The evaluation and its entry are saved even when the trial is not on file:
\* that only blocks them.
EvaluateGate(t) == Record([NoRows EXCEPT !["evaluation"] = {t}, !["entry"] = {t}])
GateDies(t) == "crash" \in Faults /\ Record(Only("evaluation", t))

RecordOutcome(t) ==
  t \in active["entry"] /\ t \in active["evaluation"] /\ Record(Only("outcome", t))

\* Ids that are not on file only block the run.
RecordRun(run) == Cardinality(recorded["run"]) < MaxRuns /\ Record(Only("run", run))

-----------------------------------------------------------------------------
\* The forecasts are those of earlier versions of the program.
Init ==
  /\ active = [NoRows EXCEPT !["forecast"] = Forecasts]
  /\ quarantine = NoRows /\ doomed = NoRows /\ kept = NoRows
  /\ pc = "idle" /\ at = 1
  /\ recorded = active /\ torn = NoRows
  /\ clean = FALSE

Repair == Begin \/ SkipStage \/ AppendQuarantine \/ ReplaceActive \/ Report
Fault == Crash \/ TornAppend \/ TornReplace
RecordSome ==
  \/ \E x \in Trial : RecordTrial(x)
  \/ \E t \in Trials : EvaluateGate(t) \/ GateDies(t) \/ RecordOutcome(t)
  \/ \E run \in Run : RecordRun(run)

Next == Repair \/ Fault \/ RecordSome
Spec == Init /\ [][Next]_vars

-----------------------------------------------------------------------------
(* Properties                                                              *)

RowSets == [Kinds -> SUBSET UNION {Rows[k] : k \in Kinds}]

\* The files and the repair's memory hold rows of their kinds.
TypeOK ==
  /\ \A rows \in {active, quarantine, doomed, kept, recorded, torn} :
       rows \in RowSets /\ \A k \in Kinds : rows[k] \subseteq Rows[k]
  /\ pc \in {"idle", "append", "replace", "report"}
  /\ at \in 1..Len(Stages)
  /\ clean \in BOOLEAN

\* No row is lost, whenever a repair dies: it is in quarantine before it leaves
\* the active file (maintenance.py 124-162; README 450-452: "while preserving an
\* auditable copy"), or a torn rewrite dropped it.
NothingLost == \A k \in Kinds : recorded[k] \subseteq active[k] \cup quarantine[k] \cup torn[k]

\* When a repair is through, the active files are sound: no corrupt trial or
\* legacy forecast and no row that points at one in quarantine, whatever earlier
\* repairs died halfway (maintenance.py 69-116).
CascadeComplete ==
  pc = "report" =>
    \A k \in Kinds : \A x \in active[k] : x \notin Rotten(k) /\ ~PointsInto(k, x, quarantine)

\* A sound chain is never quarantined, and a run only for naming a corrupt one
\* (maintenance.py 253-268, 355-419), unless a torn rewrite dropped the pending
\* trial, without which no evidence can be verified.
WrongIds == {x.id : x \in {y \in recorded["trial"] : y.evidence = "wrong"}}
Suspect(id) == id \in WrongIds \/ Pending \in Ids(torn, "trial")
OnlyCorruptQuarantined ==
  \A k \in Kinds : \A x \in quarantine[k] :
    CASE k = "forecast" -> x \in Legacy
      [] k = "run"      -> \E r \in Refs(k, x) : Suspect(r[2])
      [] OTHER          -> Suspect(Id(k, x))

\* A repair of a store that was repaired and not written since moves nothing.
SecondRepairMovesNothing == [][~Idle /\ clean => UNCHANGED files]_vars
=============================================================================
