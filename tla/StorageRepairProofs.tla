-------------------------- MODULE StorageRepairProofs --------------------------
(***************************************************************************)
(* Theorems about StorageRepair, for every set of forecasts and trials and *)
(* any number of runs, repairs and crashes.                                *)
(***************************************************************************)
EXTENDS StorageRepair, TLAPS

(* The stages and the helpers on rows.                                     *)

LEMMA StagesFacts ==
  /\ Len(Stages) = 6
  /\ \A i \in 1..6 : Stages[i] \in Kinds
  /\ \A i, j \in 1..6 : i # j => Stages[i] # Stages[j]
  /\ \A k \in Kinds : \E i \in 1..6 : Stages[i] = k
BY DEF Stages, Kinds

Typed(rows) == rows \in RowSets /\ \A k \in Kinds : rows[k] \subseteq Rows[k]

LEMMA TypedUpdate ==
  ASSUME NEW rows, Typed(rows), NEW k \in Kinds, NEW S, S \subseteq Rows[k],
         NEW new, new = [rows EXCEPT ![k] = S]
  PROVE  Typed(new) /\ new[k] = S /\ \A j \in Kinds : j # k => new[j] = rows[j]
<1>1. S \subseteq UNION {Rows[j] : j \in Kinds}
  OBVIOUS
<1> QED BY <1>1 DEF Typed, RowSets

LEMMA TypedMap ==
  ASSUME NEW rows, rows = [k \in Kinds |-> rows[k]], \A k \in Kinds : rows[k] \subseteq Rows[k]
  PROVE  Typed(rows)
<1>1. \A k \in Kinds : rows[k] \in SUBSET UNION {Rows[j] : j \in Kinds}
  OBVIOUS
<1> QED BY <1>1 DEF Typed, RowSets

LEMMA NoRowsTyped == Typed(NoRows) /\ \A k \in Kinds : NoRows[k] = {}
BY DEF Typed, NoRows, RowSets

\* Appending without repeating an id adds rows, and every id.
LEMMA UniqueFacts ==
  ASSUME NEW k, NEW file, NEW rows
  PROVE  /\ file \subseteq Unique(k, file, rows)
         /\ Unique(k, file, rows) \subseteq file \cup rows
         /\ \A x \in rows : \E y \in Unique(k, file, rows) : Id(k, y) = Id(k, x)
BY DEF Unique

\* A row only points at kinds that are dealt with before its own.
Earlier(k) ==
  CASE k = "evaluation" -> {"trial"}
    [] k = "entry"      -> {"trial", "evaluation"}
    [] k = "outcome"    -> {"trial", "evaluation", "entry"}
    [] k = "run"        -> {"trial", "evaluation", "entry", "outcome"}
    [] OTHER            -> {}

LEMMA RefsEarlier ==
  ASSUME NEW k \in Kinds, NEW x, NEW r \in Refs(k, x)
  PROVE  r[1] \in Earlier(k) /\ r[1] \in Kinds \ {"forecast", "run"}
<1>1. CASE k = "evaluation"
  BY <1>1 DEF Refs, Earlier, Kinds
<1>2. CASE k = "entry"
  BY <1>2 DEF Refs, Earlier, Kinds
<1>3. CASE k = "outcome"
  BY <1>3 DEF Refs, Earlier, Kinds
<1>4. CASE k = "run"
  BY <1>4 DEF Refs, Earlier, Kinds
<1>5. CASE k \in {"forecast", "trial"}
  BY <1>5 DEF Refs
<1> QED BY <1>1, <1>2, <1>3, <1>4, <1>5 DEF Kinds

\* So what is condemned depends on the bad rows of those kinds alone.
LEMMA CondemnedDepends ==
  ASSUME NEW k \in Kinds, NEW b, NEW c, \A j \in Earlier(k) : b[j] = c[j]
  PROVE  Condemned(k, b) = Condemned(k, c)
<1>1. \A x : PointsInto(k, x, b) <=> PointsInto(k, x, c)
  <2> TAKE x
  <2>1. \A r \in Refs(k, x) : b[r[1]] = c[r[1]]
    BY RefsEarlier
  <2>2. \A r \in Refs(k, x) : Ids(b, r[1]) = Ids(c, r[1])
    BY <2>1 DEF Ids
  <2> QED BY <2>2 DEF PointsInto
<1> QED BY <1>1 DEF Condemned

\* The chain of judgements is a fixed point: each kind is condemned for the ids
\* that the whole chain dooms.
LEMMA DoomedIs ==
  /\ Doomed = [k \in Kinds |-> Doomed[k]]
  /\ \A k \in Kinds : Doomed[k] = Condemned(k, Doomed)
<1> DEFINE d1 == Judge(NoRows, "forecast")
           d2 == Judge(d1, "trial")
           d3 == Judge(d2, "evaluation")
           d4 == Judge(d3, "entry")
           d5 == Judge(d4, "outcome")
           d6 == Judge(d5, "run")
           IsFun(d) == d = [k \in Kinds |-> d[k]]
<1>0. ASSUME NEW d, IsFun(d), NEW k \in Kinds
      PROVE  /\ IsFun(Judge(d, k))
             /\ Judge(d, k)[k] = Condemned(k, d)
             /\ \A j \in Kinds : j # k => Judge(d, k)[j] = d[j]
  BY <1>0 DEF Judge
<1> HIDE DEF IsFun
<1>k. \A k \in {"forecast", "trial", "evaluation", "entry", "outcome", "run"} : k \in Kinds
  BY DEF Kinds
<1>n. IsFun(NoRows)
  BY DEF NoRows, IsFun
<1>1. IsFun(d1) /\ d1["forecast"] = Condemned("forecast", NoRows)
  BY <1>0, <1>k, <1>n
<1>2. IsFun(d2) /\ d2["trial"] = Condemned("trial", d1) /\ d2["forecast"] = d1["forecast"]
  BY <1>0, <1>k, <1>1
<1>3. IsFun(d3) /\ d3["evaluation"] = Condemned("evaluation", d2)
      /\ d3["trial"] = d2["trial"] /\ d3["forecast"] = d2["forecast"]
  BY <1>0, <1>k, <1>2
<1>4. IsFun(d4) /\ d4["entry"] = Condemned("entry", d3) /\ d4["evaluation"] = d3["evaluation"]
      /\ d4["trial"] = d3["trial"] /\ d4["forecast"] = d3["forecast"]
  BY <1>0, <1>k, <1>3
<1>5. IsFun(d5) /\ d5["outcome"] = Condemned("outcome", d4) /\ d5["entry"] = d4["entry"]
      /\ d5["evaluation"] = d4["evaluation"] /\ d5["trial"] = d4["trial"]
      /\ d5["forecast"] = d4["forecast"]
  BY <1>0, <1>k, <1>4
<1>6. IsFun(d6) /\ d6["run"] = Condemned("run", d5) /\ d6["outcome"] = d5["outcome"]
      /\ d6["entry"] = d5["entry"] /\ d6["evaluation"] = d5["evaluation"]
      /\ d6["trial"] = d5["trial"] /\ d6["forecast"] = d5["forecast"]
  BY <1>0, <1>k, <1>5
<1>7. Doomed = d6
  BY DEF Doomed
<1>a. Condemned("forecast", NoRows) = Condemned("forecast", d6)
  BY <1>k, CondemnedDepends DEF Earlier
<1>b. Condemned("trial", d1) = Condemned("trial", d6)
  BY <1>k, CondemnedDepends DEF Earlier
<1> HIDE DEF d1, d2, d3, d4, d5, d6
<1>c. Condemned("evaluation", d2) = Condemned("evaluation", d6)
  <2>1. \A j \in Earlier("evaluation") : d2[j] = d6[j]
    BY <1>3, <1>4, <1>5, <1>6 DEF Earlier
  <2> QED BY <1>k, <2>1, CondemnedDepends
<1>d. Condemned("entry", d3) = Condemned("entry", d6)
  <2>1. \A j \in Earlier("entry") : d3[j] = d6[j]
    BY <1>4, <1>5, <1>6 DEF Earlier
  <2> QED BY <1>k, <2>1, CondemnedDepends
<1>e. Condemned("outcome", d4) = Condemned("outcome", d6)
  <2>1. \A j \in Earlier("outcome") : d4[j] = d6[j]
    BY <1>5, <1>6 DEF Earlier
  <2> QED BY <1>k, <2>1, CondemnedDepends
<1>f. Condemned("run", d5) = Condemned("run", d6)
  <2>1. \A j \in Earlier("run") : d5[j] = d6[j]
    BY <1>6 DEF Earlier
  <2> QED BY <1>k, <2>1, CondemnedDepends
<1>8. \A k \in Kinds : d6[k] = Condemned(k, d6)
  BY <1>1, <1>2, <1>3, <1>4, <1>5, <1>6, <1>a, <1>b, <1>c, <1>d, <1>e, <1>f DEF Kinds
<1> QED BY <1>6, <1>7, <1>8 DEF IsFun

LEMMA DoomedFacts ==
  ASSUME TypeOK
  PROVE  /\ Typed(Doomed)
         /\ \A k \in Kinds : Doomed[k] \subseteq active[k]
         /\ \A k \in Kinds : \A x \in active[k] :
              x \in Doomed[k] <=> \/ x \in Rotten(k)
                                  \/ PointsInto(k, x, Doomed)
                                  \/ PointsInto(k, x, quarantine)
<1> DEFINE D == Doomed
<1>1. D = [k \in Kinds |-> D[k]] /\ \A k \in Kinds : D[k] = Condemned(k, D)
  BY DoomedIs
<1> HIDE DEF D
<1>2. \A k \in Kinds : D[k] \subseteq active[k]
  BY <1>1 DEF Condemned
<1>3. \A k \in Kinds : D[k] \subseteq Rows[k]
  BY <1>2 DEF TypeOK
<1>4. Typed(D)
  BY <1>1, <1>3, TypedMap
<1>5. \A k \in Kinds : \A x \in active[k] :
        x \in D[k] <=> x \in Rotten(k) \/ PointsInto(k, x, D) \/ PointsInto(k, x, quarantine)
  BY <1>1 DEF Condemned
<1> QED BY <1>2, <1>4, <1>5 DEF D

-----------------------------------------------------------------------------
(* What a step does to the rows of one kind.                               *)

LEMMA AtStage == TypeOK => at \in 1..6 /\ Stage \in Kinds
BY StagesFacts DEF TypeOK, Stage

LEMMA TypeOKIs ==
  TypeOK <=> /\ Typed(active) /\ Typed(quarantine) /\ Typed(doomed) /\ Typed(kept)
             /\ Typed(recorded) /\ Typed(torn)
             /\ pc \in {"idle", "append", "replace", "report"}
             /\ at \in 1..6 /\ clean \in BOOLEAN
BY StagesFacts DEF TypeOK, Typed

LEMMA NextStageFacts ==
  ASSUME TypeOK, NextStage
  PROVE  /\ pc' \in {"append", "report"} /\ at' \in 1..6
         /\ \/ pc' = "report" /\ at = 6 /\ at' = at
            \/ pc' = "append" /\ at < 6 /\ at' = at + 1
BY StagesFacts DEF TypeOK, NextStage

LEMMA StopFacts ==
  ASSUME Stop
  PROVE  /\ pc' = "idle" /\ at' = 1 /\ Typed(doomed') /\ Typed(kept')
         /\ \A k \in Kinds : doomed'[k] = {} /\ kept'[k] = {}
BY NoRowsTyped DEF Stop

LEMMA BeginFacts ==
  ASSUME TypeOK, Begin
  PROVE  /\ Typed(doomed') /\ Typed(kept')
         /\ \A k \in Kinds : doomed'[k] = Doomed[k] /\ doomed'[k] \subseteq active[k]
         /\ \A k \in Kinds :
              kept'[k] = {x \in active[k] \ doomed'[k] :
                            k = "trial" => x.id \notin Ids(doomed', k) \cup Ids(quarantine, k)}
<1>1. doomed' = Doomed /\ Typed(doomed') /\ \A k \in Kinds : doomed'[k] \subseteq active[k]
  BY DoomedFacts DEF Begin
<1>2. kept' = [k \in Kinds |-> {x \in active[k] \ doomed'[k] :
                 k = "trial" => x.id \notin Ids(doomed', k) \cup Ids(quarantine, k)}]
  BY <1>1 DEF Begin, Ids
<1>3. \A k \in Kinds : kept'[k] \subseteq Rows[k]
  BY <1>2, TypeOKIs DEF Typed
<1> QED BY <1>1, <1>2, <1>3, TypedMap

LEMMA AppendFacts ==
  ASSUME TypeOK, NEW done, done \subseteq doomed[Stage],
         quarantine' = [quarantine EXCEPT ![Stage] = Unique(Stage, @, done)]
  PROVE  /\ Typed(quarantine')
         /\ \A k \in Kinds : quarantine[k] \subseteq quarantine'[k]
         /\ \A k \in Kinds : quarantine'[k] \subseteq quarantine[k] \cup doomed[k]
         /\ quarantine'[Stage] = Unique(Stage, quarantine[Stage], done)
<1> DEFINE S == Unique(Stage, quarantine[Stage], done)
<1>0. Typed(quarantine) /\ Typed(doomed) /\ Stage \in Kinds
  BY TypeOKIs, AtStage
<1>1. quarantine[Stage] \subseteq S /\ S \subseteq quarantine[Stage] \cup doomed[Stage]
  BY UniqueFacts
<1>2. S \subseteq Rows[Stage]
  BY <1>0, <1>1 DEF Typed
<1>3. quarantine' = [quarantine EXCEPT ![Stage] = S]
  OBVIOUS
<1> HIDE DEF S
<1>4. Typed(quarantine') /\ quarantine'[Stage] = S
      /\ \A k \in Kinds : k # Stage => quarantine'[k] = quarantine[k]
  <2>1. quarantine' = [j \in Kinds |-> quarantine'[j]]
        /\ quarantine'[Stage] = S
        /\ \A k \in Kinds : k # Stage => quarantine'[k] = quarantine[k]
    BY <1>0, <1>3 DEF Typed, RowSets
  <2> QED BY <1>0, <1>2, <2>1, TypedMap DEF Typed
<1>5. \A k \in Kinds : quarantine[k] \subseteq quarantine'[k]
                       /\ quarantine'[k] \subseteq quarantine[k] \cup doomed[k]
  <2> TAKE k \in Kinds
  <2> QED BY <1>1, <1>4
<1> QED BY <1>4, <1>5 DEF S

\* A rewrite of the file of the stage with some of the rows to be kept.
LEMMA RewriteFacts ==
  ASSUME TypeOK, NEW done, done \subseteq kept[Stage],
         active' = [active EXCEPT ![Stage] = done]
  PROVE  /\ Typed(active')
         /\ active'[Stage] = done
         /\ \A k \in Kinds : k # Stage => active'[k] = active[k]
<1>1. Typed(active) /\ Typed(kept) /\ Stage \in Kinds
  BY TypeOKIs, AtStage
<1>2. done \subseteq Rows[Stage]
  BY <1>1 DEF Typed
<1>3. active' = [j \in Kinds |-> active'[j]]
      /\ active'[Stage] = done /\ \A k \in Kinds : k # Stage => active'[k] = active[k]
  BY <1>1 DEF Typed, RowSets
<1> QED BY <1>1, <1>2, <1>3, TypedMap DEF Typed

LEMMA TornFacts ==
  ASSUME TypeOK, NEW done,
         torn' = [torn EXCEPT ![Stage] = @ \cup (kept[Stage] \ done)]
  PROVE  /\ Typed(torn')
         /\ torn'[Stage] = torn[Stage] \cup (kept[Stage] \ done)
         /\ \A k \in Kinds : k # Stage => torn'[k] = torn[k]
<1> DEFINE S == torn[Stage] \cup (kept[Stage] \ done)
<1>1. Typed(torn) /\ Typed(kept) /\ Stage \in Kinds
  BY TypeOKIs, AtStage
<1>2. S \subseteq Rows[Stage]
  BY <1>1 DEF Typed
<1>3. torn' = [torn EXCEPT ![Stage] = S]
  OBVIOUS
<1> HIDE DEF S
<1>4. Typed(torn') /\ torn'[Stage] = S /\ \A k \in Kinds : k # Stage => torn'[k] = torn[k]
  <2>1. torn' = [j \in Kinds |-> torn'[j]]
        /\ torn'[Stage] = S /\ \A k \in Kinds : k # Stage => torn'[k] = torn[k]
    BY <1>1, <1>3 DEF Typed, RowSets
  <2> QED BY <1>1, <1>2, <2>1, TypedMap DEF Typed
<1> QED BY <1>4 DEF S

LEMMA RecordFacts ==
  ASSUME TypeOK, NEW rows, Typed(rows), Record(rows)
  PROVE  /\ Typed(active') /\ Typed(recorded')
         /\ \A k \in Kinds : /\ active[k] \subseteq active'[k]
                             /\ active'[k] \subseteq active[k] \cup rows[k]
                             /\ recorded'[k] = recorded[k] \cup active'[k]
<1>1. Typed(active) /\ Typed(recorded)
  BY TypeOKIs
<1>2. active' = [k \in Kinds |-> Unique(k, active[k], rows[k])]
      /\ recorded' = [k \in Kinds |-> recorded[k] \cup active'[k]]
  BY DEF Record
<1>3. \A k \in Kinds : active[k] \subseteq active'[k] /\ active'[k] \subseteq active[k] \cup rows[k]
  BY <1>2, UniqueFacts
<1>4. \A k \in Kinds : active'[k] \subseteq Rows[k] /\ recorded'[k] \subseteq Rows[k]
  BY <1>1, <1>2, <1>3 DEF Typed
<1> QED BY <1>2, <1>3, <1>4, TypedMap

LEMMA RowsAre ==
  /\ Rows["forecast"] = Forecasts /\ Rows["trial"] = Trial /\ Rows["run"] = Run
  /\ \A k \in {"evaluation", "entry", "outcome"} : Rows[k] = Trials
BY DEF Rows, Kinds

LEMMA OnlyTyped ==
  ASSUME NEW k \in Kinds, NEW x \in Rows[k]
  PROVE  Typed(Only(k, x)) /\ Only(k, x)[k] = {x} /\ \A j \in Kinds : j # k => Only(k, x)[j] = {}
<1>1. {x} \subseteq Rows[k]
  OBVIOUS
<1> QED BY <1>1, NoRowsTyped, TypedUpdate DEF Only

\* Whatever is recorded between repairs is a row of its kind, and of the trials
\* only RecordTrial records any.
LEMMA RecordSomeIs ==
  ASSUME RecordSome
  PROVE  \E rows : /\ Typed(rows) /\ Record(rows)
                   /\ \/ \E x \in Trial : RecordTrial(x) /\ rows["trial"] = {x}
                      \/ rows["trial"] = {}
                   /\ rows["forecast"] = {}
<1>k. \A k \in {"forecast", "trial", "evaluation", "entry", "outcome", "run"} : k \in Kinds
  BY DEF Kinds
<1>1. ASSUME NEW x \in Trial, RecordTrial(x)
      PROVE  /\ Typed(Only("trial", x)) /\ Record(Only("trial", x))
             /\ Only("trial", x)["trial"] = {x} /\ Only("trial", x)["forecast"] = {}
  BY <1>1, <1>k, OnlyTyped, RowsAre DEF RecordTrial
<1>2. ASSUME NEW k \in {"evaluation", "outcome", "run"}, NEW x \in Rows[k]
      PROVE  Typed(Only(k, x)) /\ Only(k, x)["trial"] = {} /\ Only(k, x)["forecast"] = {}
  BY <1>2, <1>k, OnlyTyped
<1>3. ASSUME NEW t \in Trials
      PROVE  LET rows == [NoRows EXCEPT !["evaluation"] = {t}, !["entry"] = {t}]
             IN  Typed(rows) /\ rows["trial"] = {} /\ rows["forecast"] = {}
  <2> DEFINE one == [NoRows EXCEPT !["evaluation"] = {t}]
             two == [one EXCEPT !["entry"] = {t}]
  <2>1. {t} \subseteq Rows["evaluation"] /\ {t} \subseteq Rows["entry"]
    BY RowsAre
  <2>2. Typed(one) /\ one["trial"] = {} /\ one["forecast"] = {}
    BY <1>k, <2>1, NoRowsTyped, TypedUpdate
  <2> HIDE DEF one
  <2>3. Typed(two) /\ two["trial"] = {} /\ two["forecast"] = {}
    BY <1>k, <2>1, <2>2, TypedUpdate
  <2> QED BY <2>3 DEF one
<1>4. CASE \E x \in Trial : RecordTrial(x)
  BY <1>1, <1>4
<1>5. CASE \E t \in Trials : EvaluateGate(t)
  BY <1>3, <1>5 DEF EvaluateGate
<1>6. CASE \E t \in Trials : GateDies(t) \/ RecordOutcome(t)
  BY <1>2, <1>6, RowsAre DEF GateDies, RecordOutcome
<1>7. CASE \E run \in Run : RecordRun(run)
  BY <1>2, <1>7, RowsAre DEF RecordRun
<1> QED BY <1>4, <1>5, <1>6, <1>7 DEF RecordSome

-----------------------------------------------------------------------------
(* Type correctness.                                                       *)

LEMMA TypeInit == Init => TypeOK
<1> SUFFICES ASSUME Init PROVE TypeOK
  OBVIOUS
<1>1. Typed(active)
  <2>1. "forecast" \in Kinds
    BY DEF Kinds
  <2>2. Forecasts \subseteq Rows["forecast"]
    BY RowsAre
  <2>3. active = [NoRows EXCEPT !["forecast"] = Forecasts]
    BY DEF Init
  <2> QED BY <2>1, <2>2, <2>3, NoRowsTyped, TypedUpdate
<1>2. Typed(quarantine) /\ Typed(doomed) /\ Typed(kept) /\ Typed(recorded) /\ Typed(torn)
  BY <1>1, NoRowsTyped DEF Init
<1>3. pc = "idle" /\ at = 1 /\ clean = FALSE
  BY Zenon DEF Init
<1>4. at \in 1..6
  BY <1>3
<1>5. clean \in BOOLEAN /\ pc \in {"idle", "append", "replace", "report"}
  BY <1>3, Zenon
<1> QED BY <1>1, <1>2, <1>4, <1>5, TypeOKIs

LEMMA TypeNext == TypeOK /\ [Next]_vars => TypeOK'
<1> SUFFICES ASSUME TypeOK, [Next]_vars PROVE TypeOK'
  OBVIOUS
<1>goal. TypeOK' <=> /\ Typed(active') /\ Typed(quarantine') /\ Typed(doomed') /\ Typed(kept')
                     /\ Typed(recorded') /\ Typed(torn')
                     /\ pc' \in {"idle", "append", "replace", "report"}
                     /\ at' \in 1..6 /\ clean' \in BOOLEAN
  BY StagesFacts DEF TypeOK, Typed
<1>1. CASE Begin
  BY <1>1, <1>goal, BeginFacts, TypeOKIs DEF Begin, files
<1>2. CASE SkipStage
  BY <1>2, <1>goal, NextStageFacts, TypeOKIs DEF SkipStage, files
<1>3. CASE AppendQuarantine
  <2>1. Typed(quarantine')
    BY <1>3, AppendFacts DEF AppendQuarantine
  <2> QED BY <1>3, <2>1, <1>goal, TypeOKIs DEF AppendQuarantine
<1>4. CASE ReplaceActive
  <2>1. Typed(active')
    BY <1>4, RewriteFacts DEF ReplaceActive
  <2> QED BY <1>4, <2>1, <1>goal, NextStageFacts, TypeOKIs DEF ReplaceActive
<1>5. CASE Report
  BY <1>5, <1>goal, StopFacts, TypeOKIs DEF Report, files
<1>6. CASE Crash
  BY <1>6, <1>goal, StopFacts, TypeOKIs DEF Crash, files
<1>7. CASE TornAppend
  <2>1. Typed(quarantine')
    BY <1>7, AppendFacts DEF TornAppend
  <2> QED BY <1>7, <2>1, <1>goal, StopFacts, TypeOKIs DEF TornAppend
<1>8. CASE TornReplace
  <2>1. PICK done \in SUBSET kept[Stage] :
          /\ active' = [active EXCEPT ![Stage] = done]
          /\ torn' = [torn EXCEPT ![Stage] = @ \cup (kept[Stage] \ done)]
    BY <1>8 DEF TornReplace
  <2>2. Typed(active') /\ Typed(torn')
    BY <2>1, RewriteFacts, TornFacts
  <2> QED BY <1>8, <2>2, <1>goal, StopFacts, TypeOKIs DEF TornReplace
<1>9. CASE RecordSome
  <2>1. PICK rows : Typed(rows) /\ Record(rows)
    BY <1>9, RecordSomeIs
  <2>2. Typed(active') /\ Typed(recorded')
    BY <2>1, RecordFacts
  <2> QED BY <2>1, <2>2, <1>goal, TypeOKIs DEF Record
<1>10. CASE UNCHANGED vars
  BY <1>10, <1>goal, TypeOKIs DEF vars, files
<1> QED BY <1>1, <1>2, <1>3, <1>4, <1>5, <1>6, <1>7, <1>8, <1>9, <1>10 DEF Next, Repair, Fault

\* Every file, and the repair's memory, holds rows of its kind.
THEOREM TypeCorrect == Spec => []TypeOK
BY TypeInit, TypeNext, PTL DEF Spec

-----------------------------------------------------------------------------
(* What the repair knows.  Rows in the files and in its memory were        *)
(* recorded; it writes back rows that are on file, the pending trial       *)
(* always, and moves rows it does not write back.                          *)

Busy == ~Idle
OnFile == \A k \in Kinds : active[k] \cup quarantine[k] \cup doomed[k] \cup kept[k] \subseteq recorded[k]
PendingSpared == \A x \in quarantine["trial"] \cup doomed["trial"] : x.id # Pending
PendingKept == Busy => \A x \in active["trial"] : x.id = Pending => x \in kept["trial"]
KeptOnFile == Busy => \A k \in Kinds : kept[k] \subseteq active[k] /\ kept[k] \cap doomed[k] = {}
Base == TypeOK /\ OnFile /\ PendingSpared /\ PendingKept /\ KeptOnFile

\* A step leaves the repair's memory alone, or ends the repair.
Remembers == UNCHANGED <<doomed, kept>> /\ (Busy' => Busy)
Forgets == ~Busy' /\ \A k \in Kinds : doomed'[k] = {} /\ kept'[k] = {}

\* The files are disturbed in one of these ways.
LEMMA Disturbs ==
  ASSUME TypeOK, [Next]_vars
  PROVE  \/ Begin
         \/ /\ SkipStage \/ Report \/ Crash \/ UNCHANGED vars
            /\ UNCHANGED <<active, quarantine, torn, recorded>>
            /\ Remembers \/ Forgets
         \/ /\ AppendQuarantine \/ TornAppend
            /\ \E done \in SUBSET doomed[Stage] :
                 quarantine' = [quarantine EXCEPT ![Stage] = Unique(Stage, @, done)]
            /\ UNCHANGED <<active, torn, recorded>>
            /\ Busy /\ (Remembers \/ Forgets)
         \/ ReplaceActive /\ Remembers
         \/ TornReplace /\ Forgets
         \/ RecordSome
<1> USE DEF Busy, Idle, Remembers, Forgets
<1>1. CASE AppendQuarantine
  BY <1>1 DEF AppendQuarantine
<1>2. CASE TornAppend
  BY <1>2, StopFacts DEF TornAppend
<1>3. CASE SkipStage
  BY <1>3 DEF SkipStage, files
<1>4. CASE Report
  BY <1>4, StopFacts DEF Report, files
<1>5. CASE Crash
  BY <1>5, StopFacts DEF Crash, files
<1>6. CASE UNCHANGED vars
  BY <1>6 DEF vars, files
<1>7. CASE ReplaceActive
  BY <1>7 DEF ReplaceActive
<1>8. CASE TornReplace
  BY <1>8, StopFacts DEF TornReplace
<1> QED BY <1>1, <1>2, <1>3, <1>4, <1>5, <1>6, <1>7, <1>8 DEF Next, Repair, Fault

LEMMA TrialKind == "trial" \in Kinds /\ Stages[2] = "trial"
BY DEF Kinds, Stages

\* A trial is doomed for its own evidence only, the pending one never.
LEMMA PendingNotDoomed ==
  ASSUME TypeOK
  PROVE  \A x \in Doomed["trial"] : x \in active["trial"] /\ x \in Rotten("trial") /\ x.id # Pending
<1>1. \A x \in Doomed["trial"] : x \in active["trial"]
  BY TrialKind, DoomedFacts
<1>2. \A x, rows : ~PointsInto("trial", x, rows)
  BY DEF PointsInto, Refs
<1>3. \A x \in Doomed["trial"] : x \in Rotten("trial")
  BY <1>1, <1>2, TrialKind, DoomedFacts
<1>4. \A x \in Rotten("trial") : x.id # Pending
  BY DEF Rotten
<1> QED BY <1>1, <1>3, <1>4

LEMMA BaseInit == Init => Base
<1> SUFFICES ASSUME Init PROVE Base
  OBVIOUS
<1>1. pc = "idle" /\ active = recorded /\ quarantine = NoRows /\ doomed = NoRows /\ kept = NoRows
  BY Zenon DEF Init
<1>2. \A k \in Kinds : quarantine[k] = {} /\ doomed[k] = {} /\ kept[k] = {}
  BY <1>1, NoRowsTyped
<1>3. OnFile
  BY <1>1, <1>2 DEF OnFile
<1>4. PendingSpared
  BY <1>2, TrialKind DEF PendingSpared
<1>5. PendingKept /\ KeptOnFile
  BY <1>1 DEF PendingKept, KeptOnFile, Busy, Idle
<1> QED BY <1>3, <1>4, <1>5, TypeInit DEF Base

LEMMA BaseNext == Base /\ [Next]_vars => Base'
<1> SUFFICES ASSUME Base, [Next]_vars PROVE Base'
  OBVIOUS
<1>t. TypeOK /\ TypeOK'
  BY TypeNext DEF Base
<1>s. Stage \in Kinds /\ "trial" \in Kinds
  BY <1>t, AtStage, TrialKind
<1> USE DEF Busy, Idle
<1>1. CASE Begin
  <2>1. \A k \in Kinds : doomed'[k] = Doomed[k] /\ doomed'[k] \subseteq active[k]
    BY <1>1, <1>t, BeginFacts
  <2>2. \A k \in Kinds : kept'[k] = {x \in active[k] \ doomed'[k] :
                            k = "trial" => x.id \notin Ids(doomed', k) \cup Ids(quarantine, k)}
    BY <1>1, <1>t, BeginFacts
  <2>3. UNCHANGED <<active, quarantine, recorded>> /\ pc' = "append"
    BY <1>1 DEF Begin, files
  <2>4. OnFile'
    BY <2>1, <2>2, <2>3 DEF Base, OnFile
  <2>5. PendingSpared'
    BY <1>t, <1>s, <2>1, <2>3, PendingNotDoomed DEF Base, PendingSpared
  <2>6. Pending \notin Ids(doomed', "trial") \cup Ids(quarantine, "trial")
    BY <2>3, <2>5 DEF PendingSpared, Ids, Id
  <2>7. PendingKept'
    <3> SUFFICES ASSUME NEW x \in active["trial"], x.id = Pending PROVE x \in kept'["trial"]
      BY <2>3 DEF PendingKept
    <3>1. x \notin doomed'["trial"]
      BY <2>3, <2>5 DEF PendingSpared
    <3> QED BY <1>s, <2>2, <2>6, <3>1
  <2>8. KeptOnFile'
    BY <2>2, <2>3 DEF KeptOnFile
  <2> QED BY <1>t, <2>4, <2>5, <2>7, <2>8 DEF Base
<1>2. ASSUME UNCHANGED <<active, recorded>>, Remembers \/ Forgets, Busy \/ UNCHANGED quarantine,
             \A k \in Kinds : quarantine'[k] \subseteq quarantine[k] \cup doomed[k]
      PROVE  Base'
  <2>1. CASE Remembers
    <3>1. OnFile' /\ PendingSpared'
      BY <1>2, <1>s, <2>1 DEF Base, OnFile, PendingSpared, Remembers
    <3>2. PendingKept' /\ KeptOnFile'
      BY <1>2, <2>1 DEF Base, PendingKept, KeptOnFile, Remembers
    <3> QED BY <1>t, <3>1, <3>2 DEF Base
  <2>2. CASE Forgets
    <3>1. OnFile' /\ PendingSpared'
      BY <1>2, <1>s, <2>2 DEF Base, OnFile, PendingSpared, Forgets
    <3>2. PendingKept' /\ KeptOnFile'
      BY <2>2 DEF PendingKept, KeptOnFile, Forgets
    <3> QED BY <1>t, <3>1, <3>2 DEF Base
  <2> QED BY <1>2, <2>1, <2>2
<1>3. CASE ReplaceActive /\ Remembers
  <2>1. active'[Stage] = kept[Stage] /\ \A k \in Kinds : k # Stage => active'[k] = active[k]
    BY <1>3, <1>t, RewriteFacts DEF ReplaceActive
  <2>2. UNCHANGED <<quarantine, doomed, kept, recorded>> /\ Busy
    BY <1>3 DEF ReplaceActive
  <2>3. \A k \in Kinds : kept[k] \subseteq active[k] /\ kept[k] \cap doomed[k] = {}
    BY <2>2 DEF Base, KeptOnFile
  <2>4. \A k \in Kinds : active'[k] \subseteq active[k] /\ kept[k] \subseteq active'[k]
    BY <2>1, <2>3
  <2>5. OnFile' /\ PendingSpared' /\ KeptOnFile'
    BY <2>2, <2>3, <2>4 DEF Base, OnFile, PendingSpared, KeptOnFile
  <2>6. PendingKept'
    BY <1>s, <2>2, <2>4 DEF Base, PendingKept
  <2> QED BY <1>t, <2>5, <2>6 DEF Base
<1>4. CASE TornReplace /\ Forgets
  <2>1. PICK done \in SUBSET kept[Stage] : active' = [active EXCEPT ![Stage] = done]
    BY <1>4 DEF TornReplace
  <2>2. active'[Stage] = done /\ \A k \in Kinds : k # Stage => active'[k] = active[k]
    BY <1>t, <2>1, RewriteFacts
  <2>3. UNCHANGED <<quarantine, recorded>> /\ Busy
    BY <1>4 DEF TornReplace
  <2>4. \A k \in Kinds : active'[k] \subseteq active[k]
    BY <2>2, <2>3 DEF Base, KeptOnFile
  <2>5. OnFile' /\ PendingSpared'
    BY <1>4, <1>s, <2>3, <2>4 DEF Base, OnFile, PendingSpared, Forgets
  <2>6. PendingKept' /\ KeptOnFile'
    BY <1>4 DEF PendingKept, KeptOnFile, Forgets
  <2> QED BY <1>t, <2>5, <2>6 DEF Base
<1>5. CASE RecordSome
  <2>1. PICK rows : Typed(rows) /\ Record(rows)
    BY <1>5, RecordSomeIs
  <2>2. \A k \in Kinds : recorded'[k] = recorded[k] \cup active'[k]
    BY <1>t, <2>1, RecordFacts
  <2>3. UNCHANGED <<quarantine, doomed, kept, pc>> /\ ~Busy
    BY <2>1 DEF Record
  <2>4. OnFile' /\ PendingSpared' /\ PendingKept' /\ KeptOnFile'
    BY <2>2, <2>3 DEF Base, OnFile, PendingSpared, PendingKept, KeptOnFile
  <2> QED BY <1>t, <2>4 DEF Base
<1>6. CASE /\ AppendQuarantine \/ TornAppend
           /\ \E done \in SUBSET doomed[Stage] :
                quarantine' = [quarantine EXCEPT ![Stage] = Unique(Stage, @, done)]
           /\ UNCHANGED <<active, torn, recorded>>
           /\ Busy /\ (Remembers \/ Forgets)
  <2>1. \A k \in Kinds : quarantine'[k] \subseteq quarantine[k] \cup doomed[k]
    BY <1>6, <1>t, AppendFacts
  <2> QED BY <1>2, <1>6, <2>1
<1> QED BY <1>t, <1>1, <1>2, <1>3, <1>4, <1>5, <1>6, Disturbs

-----------------------------------------------------------------------------
(* No row is lost, when no trial is recorded again with other evidence.    *)

\* Then an id names one row of its kind, so a row that is neither kept nor
\* doomed is in quarantine already.
OneRowPerTrial == \A x, y \in recorded["trial"] : x.id = y.id => x = y
Accounted ==
  pc \in {"append", "replace"} =>
    \A i \in at..6 : active[Stages[i]] \subseteq
                       kept[Stages[i]] \cup doomed[Stages[i]] \cup quarantine[Stages[i]]
Appended == pc = "replace" => doomed[Stage] \subseteq quarantine[Stage]
LossInv == Base /\ OneRowPerTrial /\ Accounted /\ Appended /\ NothingLost

LEMMA AppendsAll ==
  ASSUME Base, OneRowPerTrial, NEW k \in Kinds, NEW file, NEW rows,
         file \cup rows \subseteq recorded[k]
  PROVE  Unique(k, file, rows) = file \cup rows
<1>1. \A x, y \in recorded[k] : Id(k, x) = Id(k, y) => x = y
  BY DEF OneRowPerTrial, Id
<1> QED BY <1>1 DEF Unique

LEMMA LossInit == Init => LossInv
<1> SUFFICES ASSUME Init PROVE LossInv
  OBVIOUS
<1>1. pc = "idle" /\ active = recorded /\ recorded = [NoRows EXCEPT !["forecast"] = Forecasts]
  BY Zenon DEF Init
<1>2. recorded["trial"] = {}
  BY <1>1, TrialKind, NoRowsTyped DEF NoRows
<1>3. OneRowPerTrial
  BY <1>2 DEF OneRowPerTrial
<1>4. Accounted /\ Appended
  BY <1>1 DEF Accounted, Appended
<1>5. NothingLost
  BY <1>1 DEF NothingLost
<1> QED BY <1>3, <1>4, <1>5, BaseInit DEF LossInv

LEMMA LossNext ==
  ASSUME "rerecord" \notin Faults, LossInv, [Next]_vars
  PROVE  LossInv'
<1>b. Base /\ Base' /\ TypeOK
  BY BaseNext DEF LossInv, Base
<1>s. Stage \in Kinds /\ "trial" \in Kinds /\ at \in 1..6
  BY <1>b, AtStage, TrialKind
<1>u. UNCHANGED recorded => OneRowPerTrial'
  BY DEF LossInv, OneRowPerTrial
<1>1. CASE Begin
  <2>1. \A k \in Kinds : doomed'[k] = Doomed[k] /\ doomed'[k] \subseteq active[k]
    BY <1>1, <1>b, BeginFacts
  <2>2. \A k \in Kinds : kept'[k] = {x \in active[k] \ doomed'[k] :
                            k = "trial" => x.id \notin Ids(doomed', k) \cup Ids(quarantine, k)}
    BY <1>1, <1>b, BeginFacts
  <2>3. UNCHANGED <<active, quarantine, recorded, torn>> /\ pc' = "append"
    BY <1>1 DEF Begin, files
  <2>4. \A k \in Kinds : active[k] \subseteq kept'[k] \cup doomed'[k] \cup quarantine[k]
    <3> SUFFICES ASSUME NEW k \in Kinds, NEW x \in active[k], x \notin kept'[k], x \notin doomed'[k]
                 PROVE  x \in quarantine[k]
      OBVIOUS
    <3>1. k = "trial" /\ x.id \in Ids(doomed', k) \cup Ids(quarantine, k)
      BY <2>2
    <3>2. PICK y \in doomed'[k] \cup quarantine[k] : x.id = y.id
      BY <3>1 DEF Ids, Id
    <3>3. x \in recorded[k] /\ y \in recorded[k]
      BY <2>1, <1>b DEF Base, OnFile
    <3> QED BY <3>1, <3>2, <3>3 DEF LossInv, OneRowPerTrial
  <2>5. Accounted' /\ Appended'
    BY <2>3, <2>4, <1>b, StagesFacts DEF Accounted, Appended, Base, TypeOK
  <2>6. NothingLost'
    BY <2>3 DEF LossInv, NothingLost
  <2> QED BY <1>b, <1>u, <2>3, <2>5, <2>6 DEF LossInv
<1>2. CASE SkipStage
  <2>1. UNCHANGED <<active, quarantine, recorded, torn, doomed, kept>> /\ pc = "append"
        /\ (at' = at \/ at' = at + 1) /\ pc' # "replace" /\ at' \in 1..6
    BY <1>2, <1>b, NextStageFacts DEF SkipStage, files
  <2>2. Accounted' /\ Appended'
    BY <1>s, <2>1 DEF LossInv, Accounted, Appended
  <2>3. NothingLost'
    BY <2>1 DEF LossInv, NothingLost
  <2> QED BY <1>b, <1>u, <2>1, <2>2, <2>3 DEF LossInv
<1>3. CASE AppendQuarantine
  <2>1. /\ \A k \in Kinds : quarantine[k] \subseteq quarantine'[k]
        /\ quarantine'[Stage] = Unique(Stage, quarantine[Stage], doomed[Stage])
    BY <1>3, <1>b, AppendFacts DEF AppendQuarantine
  <2>2. quarantine[Stage] \cup doomed[Stage] \subseteq recorded[Stage]
    BY <1>b, <1>s DEF Base, OnFile
  <2>3. quarantine'[Stage] = quarantine[Stage] \cup doomed[Stage]
    BY <1>b, <1>s, <2>1, <2>2, AppendsAll DEF LossInv
  <2>4. UNCHANGED <<active, recorded, torn, doomed, kept, at>> /\ pc = "append"
    BY <1>3 DEF AppendQuarantine
  <2>5. Appended'
    BY <2>3, <2>4 DEF Appended, Stage
  <2>6. Accounted'
    BY <1>s, <2>1, <2>4, StagesFacts DEF LossInv, Accounted
  <2>7. NothingLost'
    BY <2>1, <2>4 DEF LossInv, NothingLost
  <2> QED BY <1>b, <1>u, <2>4, <2>5, <2>6, <2>7 DEF LossInv
<1>4. CASE ReplaceActive
  <2>1. active'[Stage] = kept[Stage] /\ \A k \in Kinds : k # Stage => active'[k] = active[k]
    BY <1>4, <1>b, RewriteFacts DEF ReplaceActive
  <2>2. UNCHANGED <<quarantine, recorded, torn, doomed, kept>> /\ pc = "replace" /\ pc' # "replace"
        /\ (pc' = "append" => at' = at + 1) /\ at' \in 1..6
    BY <1>4, <1>b, NextStageFacts DEF ReplaceActive
  <2>3. active[Stage] \subseteq kept[Stage] \cup quarantine[Stage]
    BY <1>s, <2>2 DEF LossInv, Accounted, Appended, Stage
  <2>4. NothingLost'
    BY <2>1, <2>2, <2>3 DEF LossInv, NothingLost
  <2>5. \A i \in (at + 1)..6 : active'[Stages[i]] = active[Stages[i]]
    BY <1>s, <2>1, StagesFacts DEF Stage
  <2>6. Accounted'
    BY <1>s, <2>2, <2>5 DEF LossInv, Accounted
  <2>7. Appended'
    BY <2>2 DEF Appended
  <2> QED BY <1>b, <1>u, <2>2, <2>4, <2>6, <2>7 DEF LossInv
<1>5. CASE TornAppend
  <2>1. \A k \in Kinds : quarantine[k] \subseteq quarantine'[k]
    BY <1>5, <1>b, AppendFacts DEF TornAppend
  <2>2. UNCHANGED <<active, recorded, torn>> /\ pc' = "idle"
    BY <1>5, StopFacts DEF TornAppend
  <2> QED BY <1>b, <1>u, <2>1, <2>2 DEF LossInv, NothingLost, Accounted, Appended
<1>6. CASE TornReplace
  <2>1. PICK done \in SUBSET kept[Stage] :
          /\ active' = [active EXCEPT ![Stage] = done]
          /\ torn' = [torn EXCEPT ![Stage] = @ \cup (kept[Stage] \ done)]
    BY <1>6 DEF TornReplace
  <2>2. active'[Stage] = done /\ \A k \in Kinds : k # Stage => active'[k] = active[k]
    BY <1>b, <2>1, RewriteFacts
  <2>3. torn'[Stage] = torn[Stage] \cup (kept[Stage] \ done)
        /\ \A k \in Kinds : k # Stage => torn'[k] = torn[k]
    BY <1>b, <2>1, TornFacts
  <2>4. UNCHANGED <<quarantine, recorded>> /\ pc = "replace" /\ pc' = "idle"
    BY <1>6, StopFacts DEF TornReplace
  <2>5. active[Stage] \subseteq kept[Stage] \cup quarantine[Stage]
    BY <1>s, <2>4 DEF LossInv, Accounted, Appended, Stage
  <2>6. NothingLost'
    BY <2>2, <2>3, <2>4, <2>5 DEF LossInv, NothingLost
  <2> QED BY <1>b, <1>u, <2>4, <2>6 DEF LossInv, Accounted, Appended
<1>7. CASE RecordSome
  <2>1. PICK rows : /\ Typed(rows) /\ Record(rows)
                    /\ \/ \E x \in Trial : RecordTrial(x) /\ rows["trial"] = {x}
                       \/ rows["trial"] = {}
    BY <1>7, RecordSomeIs
  <2>2. \A k \in Kinds : /\ active[k] \subseteq active'[k]
                         /\ active'[k] \subseteq active[k] \cup rows[k]
                         /\ recorded'[k] = recorded[k] \cup active'[k]
    BY <1>b, <2>1, RecordFacts
  <2>3. UNCHANGED <<quarantine, torn>> /\ pc' = "idle"
    BY <2>1 DEF Record, Idle
  <2>4. NothingLost'
    BY <2>2, <2>3 DEF LossInv, NothingLost
  <2>5. recorded'["trial"] \subseteq recorded["trial"] \cup rows["trial"]
    BY <1>b, <1>s, <2>2 DEF Base, OnFile
  <2>6. \A x \in rows["trial"], y \in recorded["trial"] : x.id = y.id => x = y
    BY <2>1 DEF RecordTrial
  <2>7. \A x, y \in rows["trial"] : x = y
    BY <2>1
  <2>8. OneRowPerTrial'
    BY <2>5, <2>6, <2>7 DEF LossInv, OneRowPerTrial
  <2> QED BY <1>b, <2>3, <2>4, <2>8 DEF LossInv, Accounted, Appended
<1>8. CASE Report \/ Crash
  <2>1. UNCHANGED <<active, quarantine, torn, recorded>> /\ pc' = "idle"
    BY <1>8, StopFacts DEF Report, Crash, files
  <2> QED BY <1>b, <1>u, <2>1 DEF LossInv, NothingLost, Accounted, Appended
<1>9. CASE UNCHANGED vars
  BY <1>b, <1>u, <1>9 DEF vars, files, LossInv, NothingLost, Accounted, Appended, Stage
<1> QED BY <1>1, <1>2, <1>3, <1>4, <1>5, <1>6, <1>7, <1>8, <1>9 DEF Next, Repair, Fault

\* Unless a trial is recorded again under its id with other evidence, no crash
\* loses a row: it is on file, in quarantine, or in the unwritten part of a torn
\* rewrite.
THEOREM RowsPreserved ==
  ASSUME "rerecord" \notin Faults
  PROVE  Spec => []NothingLost
<1>1. LossInv /\ [Next]_vars => LossInv'
  BY LossNext
<1>2. LossInv => NothingLost
  BY DEF LossInv
<1> QED BY <1>1, <1>2, LossInit, PTL DEF Spec

-----------------------------------------------------------------------------
(* A repair that is through leaves the active files sound.                 *)

\* The ids that are bad while a repair runs.
Bad(r) == r[2] \in Ids(quarantine, r[1]) \cup Ids(doomed, r[1])
SparedIsSound ==
  Busy => \A k \in Kinds : \A x \in active[k] \ doomed[k] :
            x \notin Rotten(k) /\ \A r \in Refs(k, x) : ~Bad(r)
StageDone ==
  Busy => \A i \in 1..6 : i < at \/ pc = "report" => active[Stages[i]] \cap doomed[Stages[i]] = {}
CascadeInv == Base /\ SparedIsSound /\ StageDone

LEMMA CascadeInit == Init => CascadeInv
<1> SUFFICES ASSUME Init PROVE CascadeInv
  OBVIOUS
<1>1. ~Busy
  BY DEF Init, Busy, Idle
<1> QED BY <1>1, BaseInit DEF CascadeInv, SparedIsSound, StageDone

\* What is rotten depends on the trial file only, and not on the other rows
\* once the pending trial stays.
LEMMA RottenStays ==
  ASSUME NEW k, Pending \in Ids(active, "trial") => Pending \in Ids(active, "trial")'
  PROVE  Rotten(k)' \subseteq Rotten(k)
<1>1. CASE k = "forecast"
  BY <1>1 DEF Rotten
<1>2. CASE k = "trial"
  BY <1>2 DEF Rotten
<1>3. CASE k \notin {"forecast", "trial"}
  BY <1>3 DEF Rotten
<1> QED BY <1>1, <1>2, <1>3

LEMMA CascadeNext == CascadeInv /\ [Next]_vars => CascadeInv'
<1> SUFFICES ASSUME CascadeInv, [Next]_vars PROVE CascadeInv'
  OBVIOUS
<1>b. Base /\ Base' /\ TypeOK
  BY BaseNext DEF CascadeInv, Base
<1>s. Stage \in Kinds /\ "trial" \in Kinds /\ at \in 1..6
  BY <1>b, AtStage, TrialKind
<1>stop. ~Busy' => CascadeInv'
  BY <1>b DEF CascadeInv, SparedIsSound, StageDone
\* While the repair runs it works off what it has decided.
<1>on. ASSUME Busy, UNCHANGED doomed,
              \A k \in Kinds : active'[k] \subseteq active[k],
              \A k \in Kinds : quarantine'[k] \subseteq quarantine[k] \cup doomed[k],
              Pending \in Ids(active, "trial") => Pending \in Ids(active, "trial")'
       PROVE  SparedIsSound'
  <2>1. \A k \in Kinds : Ids(quarantine, k)' \subseteq Ids(quarantine, k) \cup Ids(doomed, k)
    BY <1>on DEF Ids
  <2>2. \A k \in Kinds : Ids(doomed, k)' = Ids(doomed, k)
    BY <1>on DEF Ids
  <2>3. \A k \in Kinds : \A x : \A r \in Refs(k, x) : Bad(r)' => Bad(r)
    BY <2>1, <2>2, RefsEarlier DEF Bad
  <2>4. \A k \in Kinds : \A x : Refs(k, x)' = Refs(k, x)
    BY DEF Refs
  <2> QED BY <1>on, <2>3, <2>4, RottenStays DEF CascadeInv, SparedIsSound
<1>1. CASE Begin
  <2>1. \A k \in Kinds : doomed'[k] = Doomed[k]
    BY <1>1, <1>b, BeginFacts
  <2>2. UNCHANGED <<active, quarantine>> /\ pc' = "append" /\ at' = 1 /\ doomed' = Doomed
    BY <1>1 DEF Begin, files
  <2>3. ASSUME NEW k \in Kinds, NEW x \in active[k], x \notin Doomed[k]
        PROVE  x \notin Rotten(k) /\ ~PointsInto(k, x, Doomed) /\ ~PointsInto(k, x, quarantine)
    BY <1>b, <2>3, DoomedFacts
  <2>4. ASSUME NEW k \in Kinds, NEW x \in active[k], x \notin Doomed[k], NEW r \in Refs(k, x)
        PROVE  r[2] \notin Ids(quarantine, r[1]) \cup Ids(Doomed, r[1])
    BY <2>3, <2>4 DEF PointsInto
  <2>5. \A k : Ids(doomed, k)' = Ids(Doomed, k) /\ Ids(quarantine, k)' = Ids(quarantine, k)
    BY <2>2 DEF Ids
  <2>6. \A k \in Kinds : Rotten(k)' \subseteq Rotten(k)
    BY <2>2, RottenStays DEF Ids
  <2>7. SparedIsSound'
    <3> SUFFICES ASSUME NEW k \in Kinds, NEW x \in active'[k], x \notin doomed'[k]
                 PROVE  x \notin Rotten(k)' /\ \A r \in Refs(k, x) : ~Bad(r)'
      BY DEF SparedIsSound, Refs
    <3>1. x \in active[k] /\ x \notin Doomed[k]
      BY <2>2
    <3> QED BY <2>3, <2>4, <2>5, <2>6, <3>1 DEF Bad
  <2>8. StageDone'
    BY <2>2 DEF StageDone
  <2> QED BY <1>b, <2>7, <2>8 DEF CascadeInv
<1>2. CASE SkipStage
  <2>1. UNCHANGED <<active, quarantine, doomed>> /\ Busy /\ doomed[Stage] = {} /\ pc = "append"
    BY <1>2 DEF SkipStage, files, Busy, Idle
  <2>2. /\ at' \in 1..6
        /\ \/ pc' = "report" /\ at = 6 /\ at' = at
           \/ pc' = "append" /\ at < 6 /\ at' = at + 1
    BY <1>2, <1>b, NextStageFacts DEF SkipStage
  <2>3. SparedIsSound'
    BY <1>on, <2>1 DEF Ids
  <2>4. StageDone'
    BY <1>s, <2>1, <2>2 DEF CascadeInv, StageDone, Stage
  <2> QED BY <1>b, <2>3, <2>4 DEF CascadeInv
<1>3. CASE AppendQuarantine
  <2>1. UNCHANGED <<active, doomed, at>> /\ Busy /\ pc = "append" /\ pc' = "replace"
    BY <1>3 DEF AppendQuarantine, Busy, Idle
  <2>2. \A k \in Kinds : quarantine'[k] \subseteq quarantine[k] \cup doomed[k]
    BY <1>3, <1>b, AppendFacts DEF AppendQuarantine
  <2>3. SparedIsSound'
    BY <1>on, <2>1, <2>2 DEF Ids
  <2>4. StageDone'
    BY <2>1 DEF CascadeInv, StageDone
  <2> QED BY <1>b, <2>3, <2>4 DEF CascadeInv
<1>4. CASE ReplaceActive
  <2>1. active'[Stage] = kept[Stage] /\ \A k \in Kinds : k # Stage => active'[k] = active[k]
    BY <1>4, <1>b, RewriteFacts DEF ReplaceActive
  <2>2. UNCHANGED <<quarantine, doomed, kept>> /\ Busy /\ pc = "replace"
    BY <1>4 DEF ReplaceActive, Busy, Idle
  <2>3. /\ at' \in 1..6
        /\ \/ pc' = "report" /\ at = 6 /\ at' = at
           \/ pc' = "append" /\ at < 6 /\ at' = at + 1
    BY <1>4, <1>b, NextStageFacts DEF ReplaceActive
  <2>4. \A k \in Kinds : kept[k] \subseteq active[k] /\ kept[k] \cap doomed[k] = {}
    BY <1>b, <2>2 DEF Base, KeptOnFile
  <2>5. \A k \in Kinds : kept[k] \subseteq active'[k] /\ active'[k] \subseteq active[k]
    BY <2>1, <2>4
  <2>6. Pending \in Ids(active, "trial") => Pending \in Ids(active, "trial")'
    <3> SUFFICES ASSUME NEW x \in active["trial"], x.id = Pending
                 PROVE  x \in active'["trial"]
      BY DEF Ids, Id
    <3> QED BY <1>b, <1>s, <2>2, <2>5 DEF Base, PendingKept
  <2>7. SparedIsSound'
    BY <1>on, <2>2, <2>5, <2>6
  <2>8. active'[Stage] \cap doomed[Stage] = {}
    BY <1>s, <2>1, <2>4
  <2>9. StageDone'
    <3> SUFFICES ASSUME NEW i \in 1..6, i < at' \/ pc' = "report"
                 PROVE  active'[Stages[i]] \cap doomed[Stages[i]] = {}
      BY <2>2 DEF StageDone
    <3>1. i = at \/ i < at
      BY <1>s, <2>3
    <3>2. CASE i = at
      BY <2>8, <3>2 DEF Stage
    <3>3. CASE i < at
      BY <2>2, <2>5, <3>3, StagesFacts DEF CascadeInv, StageDone
    <3> QED BY <3>1, <3>2, <3>3
  <2> QED BY <1>b, <2>7, <2>9 DEF CascadeInv
<1>5. CASE Report \/ Crash \/ TornAppend \/ TornReplace \/ RecordSome
  <2>1. ~Busy'
    <3>1. CASE RecordSome
      BY <3>1, RecordSomeIs DEF Record, Busy, Idle
    <3>2. CASE Report \/ Crash \/ TornAppend \/ TornReplace
      BY <3>2, StopFacts DEF Report, Crash, TornAppend, TornReplace, Busy, Idle
    <3> QED BY <1>5, <3>1, <3>2
  <2> QED BY <1>stop, <2>1
<1>6. CASE UNCHANGED vars
  BY <1>b, <1>6 DEF vars, files, CascadeInv, SparedIsSound, StageDone, Busy, Idle, Bad, Ids, Rotten
<1> QED BY <1>1, <1>2, <1>3, <1>4, <1>5, <1>6 DEF Next, Repair, Fault

LEMMA CascadeImplies == CascadeInv => CascadeComplete
<1> SUFFICES ASSUME CascadeInv, pc = "report", NEW k \in Kinds, NEW x \in active[k]
             PROVE  x \notin Rotten(k) /\ ~PointsInto(k, x, quarantine)
  BY DEF CascadeComplete
<1>1. Busy
  BY DEF Busy, Idle
<1>2. x \notin doomed[k]
  BY <1>1, StagesFacts DEF CascadeInv, StageDone
<1> QED BY <1>1, <1>2 DEF CascadeInv, SparedIsSound, Bad, PointsInto

\* Whatever earlier repairs died halfway, a repair that gets to its report leaves
\* no corrupt row on file and no row that points at a quarantined one.
THEOREM RepairFinishesCascade == Spec => []CascadeComplete
BY CascadeInit, CascadeNext, CascadeImplies, PTL DEF Spec

-----------------------------------------------------------------------------
(* A store that was repaired and not written since stays as it is.         *)

SoundFiles == \A k \in Kinds : \A x \in active[k] : x \notin Rotten(k) /\ ~PointsInto(k, x, quarantine)
CleanInv ==
  CascadeInv /\ (clean => SoundFiles /\ pc # "replace" /\ \A k \in Kinds : doomed[k] = {})

LEMMA NothingDoomed ==
  ASSUME TypeOK, SoundFiles
  PROVE  \A k \in Kinds : Doomed[k] = {}
<1>1. ASSUME NEW k \in Kinds, \A j \in Earlier(k) : Doomed[j] = {}
      PROVE  Doomed[k] = {}
  <2> SUFFICES ASSUME NEW x \in Doomed[k] PROVE FALSE
    OBVIOUS
  <2>1. x \in active[k] /\ (x \in Rotten(k) \/ PointsInto(k, x, Doomed) \/ PointsInto(k, x, quarantine))
    BY DoomedFacts
  <2>2. PointsInto(k, x, Doomed)
    BY <2>1 DEF SoundFiles
  <2>3. PICK r \in Refs(k, x) : r[2] \in Ids(Doomed, r[1])
    BY <2>2 DEF PointsInto
  <2>4. Doomed[r[1]] = {}
    BY <1>1, RefsEarlier
  <2> QED BY <2>3, <2>4 DEF Ids
<1>k. \A k \in {"forecast", "trial", "evaluation", "entry", "outcome", "run"} : k \in Kinds
  BY DEF Kinds
<1>2. Doomed["forecast"] = {} /\ Doomed["trial"] = {}
  BY <1>1, <1>k DEF Earlier
<1>3. Doomed["evaluation"] = {}
  BY <1>1, <1>2, <1>k DEF Earlier
<1>4. Doomed["entry"] = {}
  BY <1>1, <1>2, <1>3, <1>k DEF Earlier
<1>5. Doomed["outcome"] = {}
  BY <1>1, <1>2, <1>3, <1>4, <1>k DEF Earlier
<1>6. Doomed["run"] = {}
  BY <1>1, <1>2, <1>3, <1>4, <1>5, <1>k DEF Earlier
<1> QED BY <1>2, <1>3, <1>4, <1>5, <1>6 DEF Kinds

LEMMA CleanInit == Init => CleanInv
BY CascadeInit DEF Init, CleanInv

LEMMA CleanNext ==
  CleanInv /\ [Next]_vars => CleanInv' /\ (~Idle /\ clean => UNCHANGED files)
<1> SUFFICES ASSUME CleanInv, [Next]_vars
             PROVE  CleanInv' /\ (~Idle /\ clean => UNCHANGED files)
  OBVIOUS
<1>c. CascadeInv /\ CascadeInv' /\ TypeOK /\ Stage \in Kinds
  BY CascadeNext, AtStage DEF CleanInv, CascadeInv, Base
<1>same. UNCHANGED files => (SoundFiles => SoundFiles')
  BY DEF files, SoundFiles, Rotten, PointsInto, Ids, Refs
<1>1. CASE Begin
  <2>1. clean => \A k \in Kinds : doomed'[k] = {}
    BY <1>1, <1>c, NothingDoomed DEF Begin, CleanInv
  <2> QED BY <1>1, <1>c, <1>same, <2>1 DEF Begin, CleanInv
<1>2. CASE SkipStage
  <2>1. pc' # "replace"
    BY <1>2, <1>c, NextStageFacts DEF SkipStage
  <2> QED BY <1>2, <1>c, <1>same, <2>1 DEF SkipStage, CleanInv
<1>3. CASE AppendQuarantine
  <2>1. ~clean /\ ~clean'
    BY <1>3, <1>c DEF AppendQuarantine, CleanInv
  <2> QED BY <1>c, <2>1 DEF CleanInv
<1>4. CASE ReplaceActive \/ TornReplace
  <2>1. ~clean /\ ~clean'
    BY <1>4 DEF ReplaceActive, TornReplace, CleanInv
  <2> QED BY <1>c, <2>1 DEF CleanInv
<1>5. CASE Report
  <2>1. SoundFiles
    BY <1>5, <1>c, CascadeImplies DEF Report, CascadeComplete, SoundFiles
  <2> QED BY <1>5, <1>c, <1>same, <2>1, StopFacts DEF Report, CleanInv
<1>6. CASE Crash
  BY <1>6, <1>c, <1>same, StopFacts DEF Crash, CleanInv
<1>7. CASE TornAppend
  <2>1. UNCHANGED <<active, clean>> /\ Stop
    BY <1>7 DEF TornAppend
  <2>2. ASSUME clean PROVE UNCHANGED files
    <3>1. PICK done \in SUBSET doomed[Stage] :
            quarantine' = [quarantine EXCEPT ![Stage] = Unique(Stage, @, done)]
      BY <1>7 DEF TornAppend
    <3>2. done = {}
      BY <1>c, <2>2, <3>1 DEF CleanInv
    <3>3. Unique(Stage, quarantine[Stage], done) = quarantine[Stage]
      BY <3>2 DEF Unique
    <3>4. quarantine' = quarantine
      BY <1>c, <3>1, <3>3 DEF TypeOK, RowSets
    <3> QED BY <2>1, <3>4 DEF files
  <2> QED BY <1>c, <1>same, <2>1, <2>2, StopFacts DEF CleanInv
<1>8. CASE RecordSome
  <2>1. ~clean' /\ Idle
    BY <1>8, RecordSomeIs DEF Record
  <2> QED BY <1>c, <2>1 DEF CleanInv
<1>9. CASE UNCHANGED vars
  BY <1>9, <1>c, <1>same DEF vars, files, CleanInv
<1> QED BY <1>1, <1>2, <1>3, <1>4, <1>5, <1>6, <1>7, <1>8, <1>9 DEF Next, Repair, Fault

\* The judgement is the same the second time: a repair of a store that was
\* repaired and not written since moves nothing, also one that dies.
THEOREM RepairIdempotent == Spec => SecondRepairMovesNothing
<1>1. CleanInv /\ [Next]_vars => [~Idle /\ clean => UNCHANGED files]_vars
  BY CleanNext
<1>2. CleanInv /\ [Next]_vars => CleanInv'
  BY CleanNext
<1> QED BY <1>1, <1>2, CleanInit, PTL DEF Spec, SecondRepairMovesNothing

-----------------------------------------------------------------------------
(* What is quarantined deserves it.                                        *)

\* Why row x of kind k may be taken out.
Deserved(k, x) ==
  CASE k = "forecast" -> x \in Legacy
    [] k = "run"      -> \E r \in Refs(k, x) : Suspect(r[2])
    [] OTHER          -> Suspect(Id(k, x))
\* Valid evidence was made while the pending trial was on file, and only a torn
\* rewrite takes that off it.
EvidenceNamesPending ==
  \A x \in recorded["trial"] :
    x.id # Pending /\ x.evidence # "wrong" => Pending \in Ids(recorded, "trial")
PendingStays == \A x \in recorded["trial"] :
                  x.id = Pending => Pending \in Ids(active, "trial") \cup Ids(torn, "trial")
CorruptInv ==
  /\ Base /\ EvidenceNamesPending /\ PendingStays
  /\ \A k \in Kinds : \A x \in quarantine[k] \cup doomed[k] : Deserved(k, x)

LEMMA CorruptInit == Init => CorruptInv
<1> SUFFICES ASSUME Init PROVE CorruptInv
  OBVIOUS
<1>1. recorded = [NoRows EXCEPT !["forecast"] = Forecasts] /\ quarantine = NoRows /\ doomed = NoRows
  BY Zenon DEF Init
<1>2. recorded["trial"] = {} /\ \A k \in Kinds : quarantine[k] = {} /\ doomed[k] = {}
  BY <1>1, TrialKind, NoRowsTyped DEF NoRows
<1> QED BY <1>2, BaseInit DEF CorruptInv, EvidenceNamesPending, PendingStays

LEMMA SuspectStays ==
  ASSUME recorded["trial"] \subseteq recorded'["trial"], torn["trial"] \subseteq torn'["trial"]
  PROVE  \A k, x : Deserved(k, x) => Deserved(k, x)'
<1>1. \A id : Suspect(id) => Suspect(id)'
  BY DEF Suspect, WrongIds, Ids
<1> QED BY <1>1 DEF Deserved, Id, Refs

\* The kinds between the trial and the run: one named by its trial's id.
LEMMA ChainDeserved ==
  ASSUME NEW rows, \A k \in Kinds : \A x \in rows[k] : Deserved(k, x),
         NEW k \in Kinds, NEW x, PointsInto(k, x, rows)
  PROVE  \E r \in Refs(k, x) : Suspect(r[2])
<1>1. PICK r \in Refs(k, x) : r[2] \in Ids(rows, r[1])
  BY DEF PointsInto
<1>2. r[1] \in Kinds \ {"forecast", "run"}
  BY RefsEarlier
<1>3. PICK y \in rows[r[1]] : r[2] = Id(r[1], y)
  BY <1>1 DEF Ids
<1>4. Deserved(r[1], y)
  BY <1>2, <1>3
<1>5. Suspect(r[2])
  BY <1>2, <1>3, <1>4 DEF Deserved
<1> QED BY <1>5

LEMMA RefsOwnId ==
  ASSUME NEW k \in Kinds, k \notin {"forecast", "trial", "run"}, NEW x, NEW r \in Refs(k, x)
  PROVE  r[2] = Id(k, x)
<1>1. CASE k = "evaluation"
  BY <1>1 DEF Refs, Id
<1>2. CASE k = "entry"
  BY <1>2 DEF Refs, Id
<1>3. CASE k = "outcome"
  BY <1>3 DEF Refs, Id
<1> QED BY <1>1, <1>2, <1>3 DEF Kinds

\* So the chain of judgements dooms only what deserves it.
LEMMA DoomedDeserved ==
  ASSUME CorruptInv
  PROVE  \A k \in Kinds : \A x \in Doomed[k] : Deserved(k, x)
<1>b. TypeOK /\ Base
  BY DEF CorruptInv, Base
<1>k. \A k \in {"forecast", "trial", "evaluation", "entry", "outcome", "run"} : k \in Kinds
  BY DEF Kinds
<1>q. \A k \in Kinds : \A x \in quarantine[k] : Deserved(k, x)
  BY DEF CorruptInv
<1>1. \A x \in Doomed["forecast"] : Deserved("forecast", x)
  <2> SUFFICES ASSUME NEW x \in Doomed["forecast"] PROVE x \in Legacy
    BY DEF Deserved
  <2>1. \A rows : ~PointsInto("forecast", x, rows)
    BY DEF PointsInto, Refs
  <2>2. x \in Rotten("forecast")
    BY <1>b, <1>k, <2>1, DoomedFacts
  <2> QED BY <2>2 DEF Rotten
<1>2. \A x \in Doomed["trial"] : Deserved("trial", x)
  <2> SUFFICES ASSUME NEW x \in Doomed["trial"] PROVE Suspect(x.id)
    BY DEF Deserved, Id
  <2>1. x \in active["trial"] /\ x \in Rotten("trial") /\ x.id # Pending
    BY <1>b, PendingNotDoomed
  <2>2. x \in recorded["trial"] /\ x \in Trial
    BY <1>b, <1>k, <2>1, RowsAre DEF Base, OnFile, TypeOK
  <2>3. CASE x.evidence = "wrong"
    BY <2>2, <2>3 DEF Suspect, WrongIds
  <2>4. CASE x.evidence = "valid"
    <3>1. Pending \notin Ids(active, "trial")
      BY <2>1, <2>4 DEF Rotten
    <3>2. Pending \in Ids(recorded, "trial")
      BY <2>1, <2>2, <2>4 DEF CorruptInv, EvidenceNamesPending
    <3>3. Pending \in Ids(torn, "trial")
      BY <3>1, <3>2 DEF CorruptInv, PendingStays, Ids, Id
    <3> QED BY <3>3 DEF Suspect
  <2> QED BY <2>2, <2>3, <2>4 DEF Trial
\* One kind after the other, from the kinds before it.
<1>3. ASSUME NEW k \in Kinds, k \notin {"forecast", "trial"},
             \A j \in Earlier(k) : \A y \in Doomed[j] : Deserved(j, y)
      PROVE  \A x \in Doomed[k] : Deserved(k, x)
  <2> SUFFICES ASSUME NEW x \in Doomed[k] PROVE Deserved(k, x)
    OBVIOUS
  <2> DEFINE early == [j \in Kinds |-> IF j \in Earlier(k) THEN Doomed[j] ELSE {}]
  <2>1. x \in Rotten(k) \/ PointsInto(k, x, Doomed) \/ PointsInto(k, x, quarantine)
    BY <1>b, DoomedFacts
  <2>2. x \notin Rotten(k)
    BY <1>3 DEF Rotten
  <2>3. PointsInto(k, x, Doomed) => PointsInto(k, x, early)
    BY RefsEarlier DEF PointsInto, Ids
  <2>4. \A j \in Kinds : \A y \in early[j] : Deserved(j, y)
    BY <1>3
  <2> HIDE DEF early
  <2>5. \E r \in Refs(k, x) : Suspect(r[2])
    BY <1>q, <2>1, <2>2, <2>3, <2>4, ChainDeserved
  <2> QED BY <1>3, <2>5, RefsOwnId DEF Deserved
<1>4. \A x \in Doomed["evaluation"] : Deserved("evaluation", x)
  BY <1>2, <1>3, <1>k DEF Earlier
<1>5. \A x \in Doomed["entry"] : Deserved("entry", x)
  BY <1>2, <1>3, <1>4, <1>k DEF Earlier
<1>6. \A x \in Doomed["outcome"] : Deserved("outcome", x)
  BY <1>2, <1>3, <1>4, <1>5, <1>k DEF Earlier
<1>7. \A x \in Doomed["run"] : Deserved("run", x)
  BY <1>2, <1>3, <1>4, <1>5, <1>6, <1>k DEF Earlier
<1> QED BY <1>1, <1>2, <1>4, <1>5, <1>6, <1>7 DEF Kinds

LEMMA CorruptNext == CorruptInv /\ [Next]_vars => CorruptInv'
<1> SUFFICES ASSUME CorruptInv, [Next]_vars PROVE CorruptInv'
  OBVIOUS
<1>b. Base /\ Base' /\ TypeOK
  BY BaseNext DEF CorruptInv, Base
<1>s. Stage \in Kinds /\ "trial" \in Kinds
  BY <1>b, AtStage, TrialKind
\* A step that records no row and drops no trial from the files.
<1>same. ASSUME UNCHANGED recorded, torn["trial"] \subseteq torn'["trial"],
                \A x \in active["trial"] : x.id = Pending =>
                  x \in active'["trial"] \/ x \in torn'["trial"],
                \A k \in Kinds : \A x \in quarantine'[k] \cup doomed'[k] : Deserved(k, x)
         PROVE  CorruptInv'
  <2>1. EvidenceNamesPending'
    BY <1>same DEF CorruptInv, EvidenceNamesPending, Ids
  <2>2. PendingStays'
    <3> SUFFICES ASSUME NEW x \in recorded["trial"], x.id = Pending
                 PROVE  Pending \in Ids(active, "trial")' \cup Ids(torn, "trial")'
      BY <1>same DEF PendingStays
    <3>1. \E y \in active["trial"] \cup torn["trial"] : y.id = Pending
      BY DEF CorruptInv, PendingStays, Ids, Id
    <3> QED BY <1>same, <3>1 DEF Ids, Id
  <2>3. \A k, x : Deserved(k, x) => Deserved(k, x)'
    BY <1>same, SuspectStays
  <2> QED BY <1>b, <1>same, <2>1, <2>2, <2>3 DEF CorruptInv
<1>d. \A k \in Kinds : \A x \in quarantine[k] \cup doomed[k] : Deserved(k, x)
  BY DEF CorruptInv
<1>1. CASE Begin
  <2>1. \A k \in Kinds : \A x \in doomed'[k] : Deserved(k, x)
    BY <1>1, <1>b, BeginFacts, DoomedDeserved
  <2> QED BY <1>1, <1>d, <1>same, <2>1 DEF Begin, files
<1>2. CASE /\ UNCHANGED <<active, quarantine, torn, recorded>>
           /\ Remembers \/ Forgets
  BY <1>2, <1>d, <1>same DEF Remembers, Forgets
<1>3. CASE /\ \E done \in SUBSET doomed[Stage] :
                quarantine' = [quarantine EXCEPT ![Stage] = Unique(Stage, @, done)]
           /\ UNCHANGED <<active, torn, recorded>>
           /\ Busy /\ (Remembers \/ Forgets)
  <2>1. \A k \in Kinds : quarantine'[k] \subseteq quarantine[k] \cup doomed[k]
    BY <1>3, <1>b, AppendFacts
  <2>2. \A k \in Kinds : doomed'[k] \subseteq doomed[k]
    BY <1>3 DEF Remembers, Forgets
  <2> QED BY <1>3, <1>d, <1>same, <2>1, <2>2
<1>4. CASE ReplaceActive /\ Remembers
  <2>1. active'[Stage] = kept[Stage] /\ \A k \in Kinds : k # Stage => active'[k] = active[k]
    BY <1>4, <1>b, RewriteFacts DEF ReplaceActive
  <2>2. Busy /\ UNCHANGED <<quarantine, recorded, torn>>
    BY <1>4 DEF ReplaceActive, Busy, Idle
  <2>3. \A x \in active["trial"] : x.id = Pending => x \in active'["trial"]
    BY <1>b, <1>s, <2>1, <2>2 DEF Base, PendingKept
  <2> QED BY <1>4, <1>d, <1>same, <2>2, <2>3 DEF Remembers
<1>5. CASE TornReplace /\ Forgets
  <2>1. PICK done \in SUBSET kept[Stage] :
          /\ active' = [active EXCEPT ![Stage] = done]
          /\ torn' = [torn EXCEPT ![Stage] = @ \cup (kept[Stage] \ done)]
    BY <1>5 DEF TornReplace
  <2>2. active'[Stage] = done /\ \A k \in Kinds : k # Stage => active'[k] = active[k]
    BY <1>b, <2>1, RewriteFacts
  <2>3. torn'[Stage] = torn[Stage] \cup (kept[Stage] \ done)
        /\ \A k \in Kinds : k # Stage => torn'[k] = torn[k]
    BY <1>b, <2>1, TornFacts
  <2>4. Busy /\ UNCHANGED <<quarantine, recorded>>
    BY <1>5 DEF TornReplace, Busy, Idle
  <2>5. \A x \in active["trial"] : x.id = Pending => x \in active'["trial"] \/ x \in torn'["trial"]
    BY <1>b, <1>s, <2>2, <2>3, <2>4 DEF Base, PendingKept
  <2>6. torn["trial"] \subseteq torn'["trial"]
    BY <1>s, <2>3
  <2> QED BY <1>5, <1>d, <1>same, <2>4, <2>5, <2>6 DEF Forgets
<1>6. CASE RecordSome
  <2>1. PICK rows : /\ Typed(rows) /\ Record(rows)
                    /\ \/ \E x \in Trial : RecordTrial(x) /\ rows["trial"] = {x}
                       \/ rows["trial"] = {}
    BY <1>6, RecordSomeIs
  <2>2. /\ active["trial"] \subseteq active'["trial"]
        /\ active'["trial"] \subseteq active["trial"] \cup rows["trial"]
        /\ recorded'["trial"] = recorded["trial"] \cup active'["trial"]
    BY <1>b, <1>s, <2>1, RecordFacts
  <2>3. UNCHANGED <<quarantine, doomed, torn>>
    BY <2>1 DEF Record
  <2>4. recorded'["trial"] \subseteq recorded["trial"] \cup rows["trial"]
    BY <1>b, <1>s, <2>2 DEF Base, OnFile
  <2>5. Ids(recorded, "trial") \subseteq Ids(recorded, "trial")'
    BY <2>2 DEF Ids
  <2>6. \A x \in rows["trial"] :
          x.id # Pending /\ x.evidence # "wrong" => Pending \in Ids(recorded, "trial")
    BY <2>1 DEF RecordTrial, Trial
  <2>7. EvidenceNamesPending'
    BY <2>4, <2>5, <2>6 DEF CorruptInv, EvidenceNamesPending
  <2>8. PendingStays'
    <3> SUFFICES ASSUME NEW x \in recorded'["trial"], x.id = Pending
                 PROVE  Pending \in Ids(active, "trial")' \cup Ids(torn, "trial")'
      BY DEF PendingStays
    <3>1. CASE x \in active'["trial"]
      BY <3>1 DEF Ids, Id
    <3>2. CASE x \in recorded["trial"]
      <4>1. \E y \in active["trial"] \cup torn["trial"] : y.id = Pending
        BY <3>2 DEF CorruptInv, PendingStays, Ids, Id
      <4> QED BY <2>2, <2>3, <4>1 DEF Ids, Id
    <3> QED BY <2>2, <3>1, <3>2
  <2>9. \A k, x : Deserved(k, x) => Deserved(k, x)'
    BY <2>2, <2>3, SuspectStays
  <2> QED BY <1>b, <1>d, <2>3, <2>7, <2>8, <2>9 DEF CorruptInv
<1> QED BY <1>b, <1>1, <1>2, <1>3, <1>4, <1>5, <1>6, Disturbs

\* A sound chain is never quarantined, and a run only for naming a corrupt one,
\* unless a torn rewrite dropped the pending trial.
THEOREM QuarantineDeserved == Spec => []OnlyCorruptQuarantined
<1>1. CorruptInv => OnlyCorruptQuarantined
  BY DEF CorruptInv, OnlyCorruptQuarantined, Deserved
<1> QED BY <1>1, CorruptInit, CorruptNext, PTL DEF Spec
=============================================================================
