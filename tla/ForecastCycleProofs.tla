------------------------- MODULE ForecastCycleProofs -------------------------
(***************************************************************************)
(* Theorems about ForecastCycle, for every set of symbols, every bound and *)
(* every combination of faults unless a theorem says otherwise.            *)
(***************************************************************************)
EXTENDS ForecastCycle, FiniteSetTheorems, TLAPS

(* What the helpers on sequences return. *)

LEMMA AppendNewType ==
  ASSUME NEW S, NEW file \in Seq(S), NEW e \in S
  PROVE  AppendNew(file, e) \in Seq(S)
BY DEF AppendNew

\* An append keeps every line and its place.
LEMMA AppendFacts ==
  ASSUME NEW S, NEW list \in Seq(S), NEW e, NEW file, file = Append(list, e)
  PROVE  /\ DOMAIN file = DOMAIN list \cup {Len(list) + 1}
         /\ \A i \in DOMAIN list : i # Len(list) + 1 /\ file[i] = list[i]
         /\ file[Len(list) + 1] = e
OBVIOUS

\* A torn rewrite leaves a prefix of the list it was writing.
LEMMA PrefixFacts ==
  ASSUME NEW S, NEW list \in Seq(S), NEW n \in 0..(Len(list) - 1),
         NEW file, file = SubSeq(list, 1, n)
  PROVE  DOMAIN file \subseteq DOMAIN list /\ \A i \in DOMAIN file : file[i] = list[i]
OBVIOUS

\* The basis of a review is a sequence of forecast keys.
LEMMA LatestType ==
  ASSUME scores \in Seq(Score)
  PROVE  /\ LatestScores \in Seq(Score)
         /\ Basis(LatestScores) \in Seq(Keys)
         /\ Poor(LatestScores) \in BOOLEAN
<1>1. LatestScores \in Seq(Score)
  BY ReviewAssumption DEF LatestScores
<1>2. Basis(LatestScores) \in Seq(Keys)
  <2> DEFINE list == LatestScores
  <2>1. list \in [1..Len(list) -> Score] /\ Len(list) \in Nat
    BY <1>1
  <2>2. Basis(list) \in [1..Len(list) -> Keys]
    BY <2>1 DEF Basis, Score
  <2> QED BY <2>1, <2>2
<1> QED BY <1>1, <1>2 DEF Poor

-----------------------------------------------------------------------------
(* Type correctness.                                                       *)

LEMMA HourFacts == Hours \subseteq Int /\ Horizons \subseteq Int /\ 0 \in Hours
BY MaxHourAssumption, HorizonAssumption DEF Hours

\* Settling the forecast in hand keeps the memory well typed.
LEMMA SettleType ==
  ASSUME TypeOK, AtForecast, NEW status \in Open \cup Terminal, Settle(status)
  PROVE  /\ work' \in Seq(Forecast)
         /\ Len(work') = Len(work)
         /\ cursor' \in 1..(Len(work') + 1)
<1>1. cursor \in 1..Len(work) /\ work \in [1..Len(work) -> Forecast]
  BY DEF TypeOK, AtForecast
<1>2. work[cursor] \in Forecast
  BY <1>1
<1>3. work' = [work EXCEPT ![cursor] = [work[cursor] EXCEPT !.status = status]]
  BY DEF Settle
<1>4. [work[cursor] EXCEPT !.status = status] \in Forecast
  BY <1>2 DEF Forecast
<1>5. work' \in [1..Len(work) -> Forecast] /\ Len(work) \in Nat
  BY <1>1, <1>3, <1>4 DEF TypeOK
<1>6. work' \in Seq(Forecast) /\ Len(work') = Len(work)
  BY <1>5
<1> QED BY <1>1, <1>6 DEF Settle

LEMMA TypeInit == Init => TypeOK
BY HourFacts DEF Init, TypeOK

\* Every step keeps every variable in its type.
LEMMA TypeNext == TypeOK /\ [Next]_vars => TypeOK'
<1> SUFFICES ASSUME TypeOK, [Next]_vars PROVE TypeOK'
  OBVIOUS
<1>settled. settled' \in Inputs \cup {Nothing}
  <2>1. CASE WriteMeta
    BY <2>1 DEF WriteMeta, inputs, Inputs, TypeOK
  <2>2. CASE ReplaceForecasts \/ TornReplace
    BY <2>2 DEF ReplaceForecasts, TornReplace
  <2>3. CASE ScoreLoop
    BY <2>3 DEF ScoreLoop, SkipTerminal, AwaitHorizon, AwaitData, GiveUpOnGap, AlreadyRecorded,
       GiveUpOnRegime, RecordScore, ScoringDone, Settle, outside, TypeOK
  <2>4. CASE \/ ReviewScores \/ Propose \/ ReuseForecast \/ CreateForecast \/ NoForecast \/ Crash
             \/ ProviderError \/ Tick \/ Backdate \/ \E s \in Symbols : Load(s) \/ Publish(s) \/ Expire(s)
    BY <2>4 DEF ReviewScores, Propose, ReuseForecast, CreateForecast, NoForecast, FinishCreate, Crash,
       ProviderError, Tick, Backdate, Load, Publish, Expire, Between, outside, TypeOK
  <2>5. CASE UNCHANGED vars
    BY <2>5 DEF vars, TypeOK
  <2> QED BY <2>1, <2>2, <2>3, <2>4, <2>5 DEF Next, RunStep, FaultStep
<1> USE <1>settled
<1>load. ASSUME NEW s \in Symbols, Load(s) PROVE TypeOK'
  BY <1>load DEF Load, TypeOK, outside, market, disk
<1>market. ASSUME NEW s \in Symbols, Publish(s) \/ Expire(s) PROVE TypeOK'
  <2>1. candles' \in [Symbols -> SUBSET Hours]
    <3>1. CASE Publish(s)
      <4>1. PICK h \in 0..now : candles' = [candles EXCEPT ![s] = @ \cup {h}]
        BY <3>1 DEF Publish
      <4>2. h \in Hours
        BY <4>1, MaxHourAssumption DEF TypeOK, Hours
      <4> QED BY <4>1, <4>2 DEF TypeOK
    <3>2. CASE Expire(s)
      <4>1. PICK h \in candles[s] : candles' = [candles EXCEPT ![s] = @ \ {h}]
        BY <3>2 DEF Expire
      <4> QED BY <4>1 DEF TypeOK
    <3> QED BY <1>market, <3>1, <3>2
  <2> QED BY <1>market, <2>1 DEF Publish, Expire, Between, TypeOK, disk, memory
<1>clock. CASE Tick \/ Backdate
  <2>1. now' \in Hours
    BY <1>clock, MaxHourAssumption DEF Tick, Backdate, TypeOK, Hours
  <2> QED BY <1>clock, <2>1 DEF Tick, Backdate, Between, TypeOK, disk, memory
<1>settle. ASSUME NEW status \in Open \cup Terminal, AtForecast, Settle(status),
                  scores' \in Seq(Score), fresh' \in Nat
           PROVE TypeOK'
  BY <1>settle, SettleType DEF Settle, AtForecast, TypeOK, outside, market
<1>keep. CASE SkipTerminal \/ AwaitHorizon \/ AwaitData \/ GiveUpOnGap \/ AlreadyRecorded
              \/ GiveUpOnRegime
  <2>1. PICK status \in Open \cup Terminal : AtForecast /\ Settle(status)
    BY <1>keep DEF SkipTerminal, AwaitHorizon, AwaitData, GiveUpOnGap, AlreadyRecorded,
       GiveUpOnRegime, Scorable, OpenInHand, Open, Terminal
  <2>2. scores' \in Seq(Score) /\ fresh' \in Nat
    BY <1>keep DEF SkipTerminal, AwaitHorizon, AwaitData, GiveUpOnGap, AlreadyRecorded,
       GiveUpOnRegime, TypeOK
  <2> QED BY <2>1, <2>2, <1>settle
<1>record. CASE RecordScore
  <2>1. AtForecast /\ InHand.key \in Keys
    <3>1. AtForecast /\ cursor \in 1..Len(work)
      BY <1>record DEF RecordScore, Scorable, OpenInHand, AtForecast, TypeOK
    <3>2. work[cursor] \in Forecast
      BY <3>1 DEF TypeOK
    <3> QED BY <3>1, <3>2 DEF InHand, Forecast
  <2>2. scores' \in Seq(Score)
    BY <1>record, <2>1 DEF RecordScore, Score, TypeOK
  <2>3. Settle("resolved") /\ fresh' \in Nat /\ "resolved" \in Open \cup Terminal
    BY <1>record DEF RecordScore, Terminal, TypeOK
  <2> QED BY <2>1, <2>2, <2>3, <1>settle
<1>done. CASE ScoringDone
  BY <1>done DEF ScoringDone, TypeOK, outside, market, disk, memory
<1>review. CASE ReviewScores
  <2>1. [basis |-> Basis(LatestScores), poor |-> Poor(LatestScores)] \in Review
    BY LatestType DEF Review, TypeOK
  <2>2. reviews' \in Seq(Review) /\ review' \in Review
    BY <1>review, <2>1, AppendNewType DEF ReviewScores, TypeOK
  <2> QED BY <1>review, <2>2 DEF ReviewScores, TypeOK, outside, market
<1>propose. CASE Propose
  <2>1. review.basis \in Seq(Keys)
    BY <1>propose DEF Propose, TypeOK, Review
  <2>2. proposals' \in Seq(Seq(Keys))
    BY <1>propose, <2>1, AppendNewType DEF Propose, TypeOK
  <2> QED BY <1>propose, <2>2 DEF Propose, TypeOK, outside, market, memory
<1>create. CASE ReuseForecast \/ CreateForecast \/ NoForecast
  <2>1. sym \in Symbols
    BY <1>create DEF ReuseForecast, CreateForecast, NoForecast, TypeOK
  <2>2. \A h \in Hours : <<sym, h>> \in Keys
    BY <2>1 DEF Keys
  <2>3. PICK list \in Seq(Forecast), key \in Keys \cup {Nothing} :
          Len(list) >= Len(work) /\ pc = "create" /\ FinishCreate(list, key)
    <3>1. \A h \in Hours : [key |-> <<sym, h>>, status |-> "pending"] \in Forecast
      BY <2>2 DEF Forecast, Open
    <3>2. CASE ReuseForecast
      BY <2>2, <3>2 DEF ReuseForecast, TypeOK
    <3>3. CASE CreateForecast
      <4>1. PICK h \in Hours :
              FinishCreate(Append(work, [key |-> <<sym, h>>, status |-> "pending"]), <<sym, h>>)
        BY <3>3 DEF CreateForecast
      <4> DEFINE list == Append(work, [key |-> <<sym, h>>, status |-> "pending"])
      <4>2. list \in Seq(Forecast) /\ Len(list) >= Len(work)
        BY <3>1 DEF TypeOK
      <4>3. pc = "create"
        BY <3>3 DEF CreateForecast
      <4> HIDE DEF list
      <4> QED BY <2>2, <4>1, <4>2, <4>3 DEF list
    <3>4. CASE NoForecast
      BY <3>4 DEF NoForecast, TypeOK
    <3> QED BY <1>create, <3>2, <3>3, <3>4
  <2> QED BY <2>1, <2>3 DEF FinishCreate, TypeOK, outside, market, disk
<1>replace. CASE ReplaceForecasts
  BY <1>replace DEF ReplaceForecasts, TypeOK, market, memory
<1>forget. ASSUME Forget, UNCHANGED <<market, scores, reviews, proposals>>,
                  forecasts' \in Seq(Forecast),
                  meta' \in [sym : Symbols \cup {Nothing}, forecast : Keys \cup {Nothing}]
           PROVE TypeOK'
  BY <1>forget DEF Forget, TypeOK, market
<1>meta. CASE WriteMeta \/ ProviderError
  <2>1. sym \in Symbols /\ created \in Keys \cup {Nothing}
    BY <1>meta DEF WriteMeta, ProviderError, OpenInHand, AtForecast, TypeOK
  <2> QED BY <1>meta, <2>1, <1>forget DEF WriteMeta, ProviderError, outside, TypeOK
<1>crash. CASE Crash
  BY <1>crash, <1>forget DEF Crash, outside, disk, TypeOK
<1>torn. CASE TornReplace
  <2>1. forecasts' \in Seq(Forecast)
    BY <1>torn DEF TornReplace, TypeOK
  <2> QED BY <1>torn, <2>1, <1>forget DEF TornReplace, TypeOK
<1>stutter. CASE UNCHANGED vars
  BY <1>stutter DEF vars, outside, market, disk, memory, TypeOK
<1> QED
  BY <1>load, <1>market, <1>clock, <1>keep, <1>record, <1>done, <1>review, <1>propose, <1>create,
     <1>replace, <1>meta, <1>crash, <1>torn, <1>stutter
  DEF Next, RunStep, ScoreLoop, FaultStep

\* The files and the run's memory always hold what the dataclasses allow.
THEOREM TypeCorrect == Spec => []TypeOK
BY TypeInit, TypeNext, PTL DEF Spec
-----------------------------------------------------------------------------
(* Scores, statuses and files agree, whatever fault occurs.                *)

NoDuplicateScores == \A i, j \in DOMAIN scores : i # j => scores[i].of # scores[j].of
Backed(list) == \A i \in DOMAIN list : list[i].status = "resolved" => list[i].key \in Scored

\* The strengthening: what holds of the file holds of the list in memory, from
\* which the file is rewritten.
Agreement ==
  /\ TypeOK
  /\ Distinct(forecasts) /\ Distinct(work)
  /\ Backed(forecasts) /\ Backed(work)
  /\ NoDuplicateScores

\* Settling the forecast in hand changes no key, and no status but its own.
LEMMA SettleFacts ==
  ASSUME TypeOK, AtForecast, NEW status, Settle(status)
  PROVE  /\ cursor \in DOMAIN work
         /\ DOMAIN work' = DOMAIN work
         /\ \A i \in DOMAIN work : work'[i].key = work[i].key
         /\ \A i \in DOMAIN work : work'[i].status = IF i = cursor THEN status ELSE work[i].status
<1>1. cursor \in 1..Len(work) /\ DOMAIN work = 1..Len(work)
  BY DEF TypeOK, AtForecast
<1>2. \A i \in DOMAIN work : work[i] \in Forecast
  BY DEF TypeOK
<1>3. work' = [work EXCEPT ![cursor] = [work[cursor] EXCEPT !.status = status]]
  BY DEF Settle
<1> QED BY <1>1, <1>2, <1>3 DEF Forecast

LEMMA AgreementInit == Init => Agreement
BY TypeInit DEF Init, Agreement, Distinct, Backed, NoDuplicateScores

\* A settling step that records no score keeps the agreement, if it calls the
\* forecast resolved only when a score is on disk.
LEMMA SettleAgrees ==
  ASSUME Agreement, TypeOK', AtForecast, NEW status, Settle(status), UNCHANGED scores,
         status = "resolved" => InHand.key \in Scored
  PROVE  Agreement'
<1>1. Distinct(work)' /\ Backed(work)'
  BY SettleFacts DEF Agreement, Distinct, Backed, InHand, Scored
<1>2. UNCHANGED <<forecasts, scores>>
  BY DEF Settle
<1> QED BY <1>1, <1>2 DEF Agreement, Distinct, Backed, NoDuplicateScores, Scored

LEMMA AgreementNext == Agreement /\ [Next]_vars => Agreement'
<1> SUFFICES ASSUME Agreement, [Next]_vars PROVE Agreement'
  OBVIOUS
<1>type. TypeOK /\ TypeOK'
  BY TypeNext DEF Agreement
<1>lists. scores \in Seq(Score) /\ work \in Seq(Forecast)
  BY <1>type DEF TypeOK
<1>same. ASSUME UNCHANGED <<forecasts, scores, work>> PROVE Agreement'
  BY <1>same, <1>type DEF Agreement, Distinct, Backed, NoDuplicateScores, Scored
<1>load. ASSUME NEW s \in Symbols, Load(s) PROVE Agreement'
  BY <1>load, <1>type DEF Load, disk, Agreement, Distinct, Backed, NoDuplicateScores, Scored
<1>skip. CASE SkipTerminal
  <2>1. InHand.status = "resolved" => InHand.key \in Scored
    BY <1>skip, <1>type DEF SkipTerminal, AtForecast, InHand, Agreement, Backed, TypeOK
  <2> QED BY <1>skip, <1>type, <2>1, SettleAgrees DEF SkipTerminal
<1>settle. CASE AwaitHorizon \/ AwaitData \/ GiveUpOnGap \/ AlreadyRecorded \/ GiveUpOnRegime
  BY <1>settle, <1>type, SettleAgrees
  DEF AwaitHorizon, AwaitData, GiveUpOnGap, AlreadyRecorded, GiveUpOnRegime, Scorable, OpenInHand
<1>record. CASE RecordScore
  <2>1. AtForecast /\ Settle("resolved") /\ InHand.key \notin Scored
    BY <1>record DEF RecordScore, Scorable, OpenInHand
  <2>2. PICK h \in {0, 1} : scores' = Append(scores, [of |-> InHand.key, hit |-> h])
    BY <1>record DEF RecordScore
  <2>3. /\ DOMAIN scores' = DOMAIN scores \cup {Len(scores) + 1}
        /\ \A i \in DOMAIN scores : i # Len(scores) + 1 /\ scores'[i] = scores[i]
        /\ scores'[Len(scores) + 1].of = InHand.key
    BY <1>lists, <2>2, AppendFacts
  <2>4. Scored' = Scored \cup {InHand.key}
    BY <2>3 DEF Scored
  <2>5. NoDuplicateScores'
    BY <2>1, <2>3 DEF NoDuplicateScores, Agreement, Scored
  <2>6. Distinct(work)' /\ Backed(work)'
    BY <1>type, <2>1, <2>4, SettleFacts DEF Agreement, Distinct, Backed, InHand
  <2>7. Distinct(forecasts)' /\ Backed(forecasts)'
    BY <2>1, <2>4 DEF Settle, Agreement, Distinct, Backed
  <2> QED BY <1>type, <2>5, <2>6, <2>7 DEF Agreement
<1>create. CASE CreateForecast
  <2>1. PICK h \in Hours : /\ <<sym, h>> \notin Keyed(work)
                           /\ work' = Append(work, [key |-> <<sym, h>>, status |-> "pending"])
    BY <1>create DEF CreateForecast, FinishCreate
  <2>2. /\ DOMAIN work' = DOMAIN work \cup {Len(work) + 1}
        /\ \A i \in DOMAIN work : i # Len(work) + 1 /\ work'[i] = work[i]
        /\ work'[Len(work) + 1] = [key |-> <<sym, h>>, status |-> "pending"]
    BY <1>lists, <2>1, AppendFacts
  <2>3. UNCHANGED <<forecasts, scores>>
    BY <1>create DEF CreateForecast, FinishCreate, disk
  <2>4. Distinct(work)'
    BY <2>1, <2>2 DEF Agreement, Distinct, Keyed
  <2>5. Backed(work)'
    BY <2>2, <2>3 DEF Agreement, Backed, Scored
  <2> QED BY <1>type, <2>3, <2>4, <2>5 DEF Agreement, Distinct, Backed, NoDuplicateScores, Scored
<1>replace. CASE ReplaceForecasts
  BY <1>replace, <1>type
  DEF ReplaceForecasts, memory, Agreement, Distinct, Backed, NoDuplicateScores, Scored
<1>forget. CASE WriteMeta \/ Crash \/ ProviderError
  BY <1>forget, <1>type DEF WriteMeta, Crash, ProviderError, Forget, disk, Agreement, Distinct,
     Backed, NoDuplicateScores, Scored
<1>torn. CASE TornReplace
  <2>1. PICK n \in 0..(Len(work) - 1) : forecasts' = SubSeq(work, 1, n)
    BY <1>torn DEF TornReplace
  <2>2. DOMAIN forecasts' \subseteq DOMAIN work /\ \A i \in DOMAIN forecasts' : forecasts'[i] = work[i]
    BY <1>lists, <2>1, PrefixFacts
  <2>3. work' = <<>> /\ UNCHANGED scores
    BY <1>torn DEF TornReplace, Forget
  <2> QED BY <1>type, <2>2, <2>3 DEF Agreement, Distinct, Backed, NoDuplicateScores, Scored
<1>rest. CASE \/ ScoringDone \/ ReviewScores \/ Propose \/ ReuseForecast \/ NoForecast
              \/ Tick \/ Backdate \/ (\E s \in Symbols : Publish(s) \/ Expire(s))
              \/ UNCHANGED vars
  BY <1>rest, <1>same DEF ScoringDone, ReviewScores, Propose, ReuseForecast, NoForecast,
     FinishCreate, Tick, Backdate, Publish, Expire, Between, vars, disk, memory
<1> QED
  BY <1>load, <1>skip, <1>settle, <1>record, <1>create, <1>replace, <1>forget, <1>torn, <1>rest
  DEF Next, RunStep, ScoreLoop, FaultStep

THEOREM AgreementAlways == Spec => []Agreement
BY AgreementInit, AgreementNext, PTL DEF Spec

\* A forecast the file calls resolved has its score on disk, after any crash,
\* torn rewrite or provider fault.
THEOREM ResolvedAlwaysScored == Spec => []ResolvedHasScore
<1>1. Agreement => ResolvedHasScore
  BY DEF Agreement, Backed, ResolvedHasScore
<1> QED BY <1>1, AgreementAlways, PTL

\* No forecast is on file twice and none is scored twice, ever.
THEOREM OneOfEachAlways == Spec => []OneOfEach
<1>1. Agreement => OneOfEach
  BY DEF Agreement, NoDuplicateScores, OneOfEach
<1> QED BY <1>1, AgreementAlways, PTL
-----------------------------------------------------------------------------
(* The loop implements ForecastLifecycle, torn writes included.            *)

\* The list in memory extends the file: same forecasts at the same places, a
\* verdict on file kept, and at most new pending forecasts behind them.
Extends ==
  /\ pc # "idle" =>
       /\ DOMAIN forecasts \subseteq DOMAIN work
       /\ \A i \in DOMAIN forecasts :
            /\ work[i].key = forecasts[i].key
            /\ forecasts[i].status \in Terminal => work[i].status = forecasts[i].status
       /\ \A i \in DOMAIN work \ DOMAIN forecasts : work[i].status = "pending"
  /\ pc \in {"score", "review", "propose", "create"} => DOMAIN work = DOMAIN forecasts

LifecycleInv == Agreement /\ Extends

LEMMA LifecycleInvInit == Init => LifecycleInv
BY AgreementInit DEF Init, LifecycleInv, Extends

\* A settling step leaves a verdict on file alone, as it only settles open
\* forecasts (or rewrites a terminal status as it is).
LEMMA SettleExtends ==
  ASSUME TypeOK, Extends, AtForecast, NEW status, Settle(status),
         InHand.status \in Terminal => status = InHand.status
  PROVE  Extends'
<1>1. pc = "score" /\ pc' = "score" /\ UNCHANGED forecasts
  BY DEF AtForecast, Settle
<1> QED BY <1>1, SettleFacts DEF Extends, InHand

LEMMA LifecycleInvNext == LifecycleInv /\ [Next]_vars => LifecycleInv'
<1> SUFFICES ASSUME LifecycleInv, [Next]_vars PROVE Extends'
  BY AgreementNext DEF LifecycleInv
<1>type. TypeOK /\ TypeOK' /\ Extends
  BY TypeNext DEF LifecycleInv, Agreement
<1>lists. scores \in Seq(Score) /\ work \in Seq(Forecast)
  BY <1>type DEF TypeOK
<1>load. ASSUME NEW s \in Symbols, Load(s) PROVE Extends'
  BY <1>load DEF Load, disk, Extends
<1>settle. CASE \/ SkipTerminal \/ AwaitHorizon \/ AwaitData \/ GiveUpOnGap \/ AlreadyRecorded
                \/ GiveUpOnRegime \/ RecordScore
  <2>1. PICK status : /\ AtForecast /\ Settle(status)
                      /\ InHand.status \in Terminal => status = InHand.status
    BY <1>settle DEF SkipTerminal, AwaitHorizon, AwaitData, GiveUpOnGap, AlreadyRecorded,
       GiveUpOnRegime, RecordScore, Scorable, OpenInHand
  <2> QED BY <1>type, <2>1, SettleExtends
<1>create. CASE CreateForecast
  <2>1. PICK h \in Hours : work' = Append(work, [key |-> <<sym, h>>, status |-> "pending"])
    BY <1>create DEF CreateForecast, FinishCreate
  <2>2. /\ DOMAIN work' = DOMAIN work \cup {Len(work) + 1}
        /\ \A i \in DOMAIN work : work'[i] = work[i]
        /\ work'[Len(work) + 1].status = "pending"
    BY <1>lists, <2>1, AppendFacts
  <2>3. pc = "create" /\ pc' = "replace" /\ UNCHANGED forecasts
    BY <1>create DEF CreateForecast, FinishCreate, disk
  <2> QED BY <1>type, <2>2, <2>3 DEF Extends
<1>replace. CASE ReplaceForecasts
  BY <1>replace DEF ReplaceForecasts, memory, Extends
<1>forget. CASE WriteMeta \/ Crash \/ TornReplace \/ ProviderError
  BY <1>forget DEF WriteMeta, Crash, TornReplace, ProviderError, Forget, Extends
<1>between. CASE Tick \/ Backdate \/ (\E s \in Symbols : Publish(s) \/ Expire(s))
  BY <1>between DEF Tick, Backdate, Publish, Expire, Between, Extends
<1>rest. CASE ScoringDone \/ ReviewScores \/ Propose \/ ReuseForecast \/ NoForecast
  <2>1. UNCHANGED <<forecasts, work>> /\ pc # "idle"
    BY <1>rest DEF ScoringDone, ReviewScores, Propose, ReuseForecast, NoForecast, FinishCreate,
       disk, memory
  <2>2. pc \in {"score", "review", "propose", "create"}
    BY <1>rest DEF ScoringDone, ReviewScores, Propose, ReuseForecast, NoForecast
  <2> QED BY <1>type, <2>1, <2>2 DEF Extends
<1>stutter. CASE UNCHANGED vars
  BY <1>stutter, <1>type DEF vars, disk, memory, Extends
<1> QED
  BY <1>load, <1>settle, <1>create, <1>replace, <1>forget, <1>between, <1>rest, <1>stutter
  DEF Next, RunStep, ScoreLoop, FaultStep

\* Every verdict is one of the abstract ones, and may stay as it is.
LEMMA VerdictType ==
  \A k \in Keys : Verdict(k) \in Lifecycle!Verdicts /\ Verdict(k) \in Lifecycle!After(Verdict(k))
BY DEF Verdict, Lifecycle!Verdicts, Lifecycle!After

LEMMA VerdictTypeNext == \A k \in Keys : Verdict(k)' \in Lifecycle!Verdicts
BY DEF Verdict, Lifecycle!Verdicts

LEMMA HitsAreScored == HitKeys \subseteq Scored /\ HitKeys' \subseteq Scored'
BY DEF HitKeys, Scored

LEMMA LifecycleRefinesInit == Init => Lifecycle!Init
BY DEF Init, Lifecycle!Init, Verdict, HitKeys, Scored, GivenUp, Keyed

\* The step of one forecast is one the lifecycle allows.
LEMMA VerdictStep ==
  ASSUME LifecycleInv, [Next]_vars, NEW k \in Keys
  PROVE  Verdict(k)' \in Lifecycle!After(Verdict(k))
<1>type. TypeOK /\ TypeOK' /\ Extends /\ Agreement
  BY TypeNext DEF LifecycleInv, Agreement
<1>lists. scores \in Seq(Score) /\ work \in Seq(Forecast)
  BY <1>type DEF TypeOK
<1>same. ASSUME UNCHANGED <<forecasts, scores>>
         PROVE  Verdict(k)' \in Lifecycle!After(Verdict(k))
  <2>1. Verdict(k)' = Verdict(k)
    BY <1>same DEF Verdict, HitKeys, Scored, GivenUp, Keyed
  <2> QED BY <2>1, VerdictType
<1>scored. ASSUME UNCHANGED scores, k \in Scored
           PROVE  Verdict(k)' \in Lifecycle!After(Verdict(k))
  <2>1. Scored' = Scored /\ HitKeys' = HitKeys
    BY <1>scored DEF Scored, HitKeys
  <2>2. Verdict(k)' = Verdict(k)
    BY <1>scored, <2>1 DEF Verdict
  <2> QED BY <2>2, VerdictType
<1>record. CASE RecordScore
  <2>1. AtForecast /\ InHand.key \notin Scored /\ InHand.status \notin Terminal /\ UNCHANGED forecasts
    BY <1>record DEF RecordScore, Scorable, OpenInHand, Settle
  <2>2. PICK h \in {0, 1} : scores' = Append(scores, [of |-> InHand.key, hit |-> h])
    BY <1>record DEF RecordScore
  <2>3. /\ DOMAIN scores' = DOMAIN scores \cup {Len(scores) + 1}
        /\ \A i \in DOMAIN scores : scores'[i] = scores[i] /\ i # Len(scores) + 1
        /\ scores'[Len(scores) + 1] = [of |-> InHand.key, hit |-> h]
    BY <1>lists, <2>2, AppendFacts
  <2>4. Scored' = Scored \cup {InHand.key} /\ HitKeys \subseteq Scored
    BY <2>3 DEF Scored, HitKeys
  <2>5. HitKeys' = HitKeys \cup (IF h = 1 THEN {InHand.key} ELSE {})
    BY <2>3 DEF HitKeys
  <2>6. InHand.key \in Keyed(forecasts) \ GivenUp
    <3>1. cursor \in DOMAIN forecasts /\ forecasts[cursor].key = InHand.key
          /\ forecasts[cursor].status \notin Terminal
      BY <1>record, <1>type, <2>1, SettleFacts
      DEF RecordScore, AtForecast, Extends, InHand
    <3> QED BY <1>type, <3>1 DEF Agreement, Distinct, Keyed, GivenUp, Terminal
  <2>7. Keyed(forecasts)' = Keyed(forecasts) /\ GivenUp' = GivenUp
    BY <2>1 DEF Keyed, GivenUp
  <2>8. CASE k = InHand.key
    <3>1. Verdict(k) = "open" /\ Verdict(k)' \in {"hit", "miss"}
      BY <2>1, <2>4, <2>5, <2>6, <2>8 DEF Verdict
    <3> QED BY <3>1 DEF Lifecycle!After
  <2>9. CASE k # InHand.key
    <3>1. /\ k \in Scored' <=> k \in Scored
          /\ k \in HitKeys' <=> k \in HitKeys
      BY <2>4, <2>5, <2>9
    <3>2. Verdict(k)' = Verdict(k)
      BY <2>7, <3>1 DEF Verdict
    <3> QED BY <3>2, VerdictType
  <2> QED BY <2>8, <2>9
<1>replace. CASE ReplaceForecasts
  <2>1. pc = "replace" /\ forecasts' = work /\ UNCHANGED scores
    BY <1>replace DEF ReplaceForecasts
  <2>2. Scored' = Scored
    BY <2>1 DEF Scored
  <2>3. Keyed(forecasts) \subseteq Keyed(forecasts)'
    BY <1>type, <2>1 DEF Extends, Keyed
  <2>4. GivenUp \subseteq GivenUp' /\ GivenUp' \subseteq Keyed(forecasts)
    BY <1>type, <2>1 DEF Extends, GivenUp, Terminal, Keyed
  <2>5. CASE k \in Scored
    BY <1>scored, <2>1, <2>5
  <2>6. CASE k \in GivenUp \ Scored
    <3>1. Verdict(k) = "unscorable" /\ Verdict(k)' = "unscorable"
      BY <2>2, <2>4, <2>6, HitsAreScored DEF Verdict
    <3> QED BY <3>1 DEF Lifecycle!After
  <2>7. CASE k \in Keyed(forecasts) \ (Scored \cup GivenUp)
    <3>1. Verdict(k) = "open" /\ Verdict(k)' \in {"open", "unscorable"}
      BY <2>2, <2>3, <2>7, HitsAreScored DEF Verdict
    <3> QED BY <3>1 DEF Lifecycle!After
  <2>8. CASE k \notin Keyed(forecasts) \cup Scored
    <3>1. Verdict(k) = "absent" /\ Verdict(k)' \in {"absent", "open"}
      BY <2>2, <2>4, <2>8, HitsAreScored DEF Verdict
    <3> QED BY <3>1 DEF Lifecycle!After
  <2> QED BY <2>5, <2>6, <2>7, <2>8
<1>torn. CASE TornReplace
  <2>1. PICK n \in 0..(Len(work) - 1) : forecasts' = SubSeq(work, 1, n)
    BY <1>torn DEF TornReplace
  <2>2. DOMAIN forecasts' \subseteq DOMAIN work /\ \A i \in DOMAIN forecasts' : forecasts'[i] = work[i]
    BY <1>lists, <2>1, PrefixFacts
  <2>3. pc = "replace" /\ UNCHANGED scores /\ Lifecycle!Lost = {"absent"}
    BY <1>torn DEF TornReplace, Lifecycle!Lost
  <2>4. Scored' = Scored
    BY <2>3 DEF Scored
  <2>5. GivenUp' \subseteq Keyed(forecasts)
    BY <1>type, <2>2, <2>3 DEF Extends, GivenUp, Keyed
  <2>6. CASE k \in Scored
    BY <1>scored, <2>3, <2>6
  <2>7. CASE k \in GivenUp \ Scored
    <3>1. \A i \in DOMAIN forecasts' : forecasts'[i].key = k => forecasts'[i].status = "unscorable"
      <4>1. PICK j \in DOMAIN forecasts : forecasts[j].key = k /\ forecasts[j].status = "unscorable"
        BY <2>7 DEF GivenUp
      <4>2. j \in DOMAIN work /\ work[j].key = k /\ work[j].status = "unscorable"
        BY <1>type, <2>3, <4>1 DEF Extends, Terminal
      <4> QED BY <1>type, <2>2, <4>2 DEF Agreement, Distinct
    <3>2. k \in Keyed(forecasts)' => k \in GivenUp'
      BY <3>1 DEF Keyed, GivenUp
    <3>3. Verdict(k) = "unscorable" /\ Verdict(k)' \in {"unscorable", "absent"}
      BY <2>4, <2>7, <3>2, HitsAreScored DEF Verdict
    <3> QED BY <2>3, <3>3 DEF Lifecycle!After
  <2>8. CASE k \in Keyed(forecasts) \ (Scored \cup GivenUp)
    <3>1. Verdict(k) = "open" /\ Verdict(k)' \in {"open", "unscorable", "absent"}
      BY <2>4, <2>8, HitsAreScored DEF Verdict
    <3> QED BY <2>3, <3>1 DEF Lifecycle!After
  <2>9. CASE k \notin Keyed(forecasts) \cup Scored
    <3>1. k \notin GivenUp
      BY <2>9 DEF GivenUp, Keyed
    <3>2. Verdict(k) = "absent" /\ Verdict(k)' \in {"absent", "open"}
      BY <2>4, <2>5, <2>9, <3>1, HitsAreScored DEF Verdict
    <3> QED BY <3>2 DEF Lifecycle!After
  <2> QED BY <2>6, <2>7, <2>8, <2>9
<1>load. ASSUME NEW s \in Symbols, Load(s) \/ Publish(s) \/ Expire(s)
         PROVE  UNCHANGED <<forecasts, scores>>
  BY <1>load DEF Load, Publish, Expire, Between, disk
<1>loop. CASE SkipTerminal \/ AwaitHorizon \/ AwaitData \/ GiveUpOnGap \/ AlreadyRecorded
              \/ GiveUpOnRegime \/ ScoringDone
  BY <1>loop, <1>same DEF SkipTerminal, AwaitHorizon, AwaitData, GiveUpOnGap, AlreadyRecorded,
     GiveUpOnRegime, ScoringDone, Settle, disk
<1>rest. CASE \/ ReviewScores \/ Propose \/ ReuseForecast \/ CreateForecast \/ NoForecast
              \/ WriteMeta \/ Crash \/ ProviderError \/ Tick \/ Backdate \/ UNCHANGED vars
  BY <1>rest, <1>same DEF ReviewScores, Propose, ReuseForecast, CreateForecast, NoForecast,
     FinishCreate, WriteMeta, Crash, ProviderError, Tick, Backdate, Between, vars, disk
<1> QED
  BY <1>same, <1>load, <1>loop, <1>record, <1>replace, <1>torn, <1>rest
  DEF Next, RunStep, ScoreLoop, FaultStep

\* The loop implements the lifecycle, through crashes, torn rewrites, expiring
\* candles, backdated runs and provider faults: a verdict by score is given once
\* and never lost or changed, and only a torn rewrite loses a forecast.
THEOREM LifecycleImplemented == Spec => ImplementsLifecycle
<1>1. LifecycleInv /\ [Next]_vars => Lifecycle!Next
  <2> SUFFICES ASSUME LifecycleInv, [Next]_vars PROVE Lifecycle!Next
    OBVIOUS
  <2>1. \A k \in Keys : Verdict(k)' \in Lifecycle!After(Verdict(k))
    BY VerdictStep
  <2>2. \A k \in Keys : Verdict(k)' \in Lifecycle!Verdicts
    BY VerdictTypeNext
  <2>3. [k \in Keys |-> Verdict(k)]' = [k \in Keys |-> Verdict(k)']
    OBVIOUS
  <2> QED BY <2>1, <2>2, <2>3 DEF Lifecycle!Next
<1> QED
  BY <1>1, LifecycleInvInit, LifecycleInvNext, LifecycleRefinesInit, PTL
  DEF Spec, ImplementsLifecycle, Lifecycle!Spec
-----------------------------------------------------------------------------
(* Without torn writes, no score outlives its forecast.                    *)

ScoreHasForecast == Scored \subseteq Keyed(forecasts)

LEMMA ScoreHasForecastNext ==
  ASSUME "torn_write" \notin Faults, LifecycleInv, ScoreHasForecast, [Next]_vars
  PROVE  ScoreHasForecast'
<1>type. TypeOK /\ Extends
  BY DEF LifecycleInv, Agreement
<1>same. ASSUME UNCHANGED <<forecasts, scores>> PROVE ScoreHasForecast'
  BY <1>same DEF ScoreHasForecast, Scored, Keyed
<1>record. CASE RecordScore
  <2>1. AtForecast /\ Settle("resolved")
    BY <1>record DEF RecordScore, Scorable, OpenInHand
  <2>2. InHand.key \in Keyed(forecasts)
    BY <1>type, <2>1, SettleFacts DEF AtForecast, Extends, InHand, Keyed
  <2>3. Scored' \subseteq Scored \cup {InHand.key}
    BY <1>record, <1>type DEF RecordScore, Scored, TypeOK
  <2> QED BY <2>1, <2>2, <2>3 DEF Settle, ScoreHasForecast, Keyed
<1>replace. CASE ReplaceForecasts
  <2>1. pc = "replace" /\ forecasts' = work /\ UNCHANGED scores
    BY <1>replace DEF ReplaceForecasts
  <2>2. Keyed(forecasts) \subseteq Keyed(work)
    BY <1>type, <2>1 DEF Extends, Keyed
  <2> QED BY <2>1, <2>2 DEF ScoreHasForecast, Scored, Keyed
<1>torn. CASE TornReplace
  BY <1>torn DEF TornReplace
<1>load. CASE \E s \in Symbols : Load(s) \/ Publish(s) \/ Expire(s)
  BY <1>load, <1>same DEF Load, Publish, Expire, Between, disk
<1>loop. CASE SkipTerminal \/ AwaitHorizon \/ AwaitData \/ GiveUpOnGap \/ AlreadyRecorded
              \/ GiveUpOnRegime \/ ScoringDone
  BY <1>loop, <1>same DEF SkipTerminal, AwaitHorizon, AwaitData, GiveUpOnGap, AlreadyRecorded,
     GiveUpOnRegime, ScoringDone, Settle, disk
<1>rest. CASE \/ ReviewScores \/ Propose \/ ReuseForecast \/ CreateForecast \/ NoForecast
              \/ WriteMeta \/ Crash \/ ProviderError \/ Tick \/ Backdate \/ UNCHANGED vars
  BY <1>rest, <1>same DEF ReviewScores, Propose, ReuseForecast, CreateForecast, NoForecast,
     FinishCreate, WriteMeta, Crash, ProviderError, Tick, Backdate, Between, vars, disk
<1> QED
  BY <1>load, <1>loop, <1>record, <1>replace, <1>torn, <1>rest
  DEF Next, RunStep, ScoreLoop, FaultStep

\* Every score's forecast stays on file, through crashes, expiring candles,
\* backdated runs and provider faults, as long as no rewrite of the forecast
\* file is torn: health.py reports the contrary as score_missing_forecast.
THEOREM ScoresKeepForecast ==
  ASSUME "torn_write" \notin Faults
  PROVE  Spec => []ScoreHasForecast
<1>1. Init => ScoreHasForecast
  BY DEF Init, ScoreHasForecast, Scored, Keyed
<1>2. LifecycleInv /\ ScoreHasForecast /\ [Next]_vars => ScoreHasForecast'
  BY ScoreHasForecastNext
<1> QED BY <1>1, <1>2, LifecycleInvInit, LifecycleInvNext, PTL DEF Spec
-----------------------------------------------------------------------------
(* Proposals and reviews rest on what is on file, whatever fault occurs.   *)

\* The strengthening: between the review and the proposal, the review in the
\* run's memory is on file too.
GroundedInv ==
  /\ TypeOK
  /\ ProposalsGrounded
  /\ pc = "propose" => \E j \in DOMAIN reviews : reviews[j] = review

\* AppendNew keeps every line, adds at most its argument, and leaves that on
\* file.
LEMMA AppendNewFacts ==
  ASSUME NEW S, NEW list \in Seq(S), NEW e \in S, NEW file, file = AppendNew(list, e)
  PROVE  /\ DOMAIN list \subseteq DOMAIN file
         /\ \A i \in DOMAIN list : file[i] = list[i]
         /\ \A i \in DOMAIN file \ DOMAIN list : file[i] = e
         /\ \E i \in DOMAIN file : file[i] = e
<1>1. CASE \E i \in DOMAIN list : list[i] = e
  BY <1>1 DEF AppendNew
<1>2. CASE ~\E i \in DOMAIN list : list[i] = e
  <2>1. file = Append(list, e)
    BY <1>2 DEF AppendNew
  <2>2. /\ DOMAIN file = DOMAIN list \cup {Len(list) + 1}
        /\ \A i \in DOMAIN list : i # Len(list) + 1 /\ file[i] = list[i]
        /\ file[Len(list) + 1] = e
    BY <2>1, AppendFacts
  <2> QED BY <2>2
<1> QED BY <1>1, <1>2

\* A review is of scores on file.
LEMMA LatestScored ==
  ASSUME scores \in Seq(Score)
  PROVE  \A j \in DOMAIN Basis(LatestScores) : Basis(LatestScores)[j] \in Scored
<1> DEFINE first == IF Len(scores) - ReviewWindow + 1 > 1 THEN Len(scores) - ReviewWindow + 1 ELSE 1
<1>1. LatestScores = SubSeq(scores, first, Len(scores))
  BY DEF LatestScores
<1>2. first \in Nat \ {0} /\ Len(scores) \in Nat /\ DOMAIN scores = 1..Len(scores)
  BY ReviewAssumption
<1> HIDE DEF first
<1>3. \A j \in DOMAIN LatestScores :
        j + first - 1 \in DOMAIN scores /\ LatestScores[j] = scores[j + first - 1]
  BY <1>1, <1>2
<1>4. \A j \in DOMAIN LatestScores : LatestScores[j].of \in Scored
  BY <1>3 DEF Scored
<1> QED BY <1>4 DEF Basis

LEMMA GroundedNext == GroundedInv /\ [Next]_vars => GroundedInv'
<1> SUFFICES ASSUME GroundedInv, [Next]_vars
             PROVE  ProposalsGrounded' /\ (pc = "propose" => \E j \in DOMAIN reviews : reviews[j] = review)'
  BY TypeNext DEF GroundedInv
<1>type. TypeOK /\ ProposalsGrounded
  BY DEF GroundedInv
<1>lists. scores \in Seq(Score) /\ reviews \in Seq(Review) /\ proposals \in Seq(Seq(Keys))
  BY <1>type DEF TypeOK
<1>same. ASSUME UNCHANGED <<reviews, proposals>>, Scored \subseteq Scored', pc' # "propose"
         PROVE  ProposalsGrounded' /\ (pc = "propose" => \E j \in DOMAIN reviews : reviews[j] = review)'
  BY <1>same, <1>type DEF ProposalsGrounded
<1>record. CASE RecordScore
  <2>1. pc' # "propose" /\ UNCHANGED <<reviews, proposals>>
    BY <1>record DEF RecordScore, Scorable, OpenInHand, AtForecast, Settle
  <2>2. PICK h \in {0, 1} : scores' = Append(scores, [of |-> InHand.key, hit |-> h])
    BY <1>record DEF RecordScore
  <2>3. Scored \subseteq Scored'
    <3>1. /\ DOMAIN scores' = DOMAIN scores \cup {Len(scores) + 1}
          /\ \A i \in DOMAIN scores : i # Len(scores) + 1 /\ scores'[i] = scores[i]
      BY <1>lists, <2>2, AppendFacts
    <3> QED BY <3>1 DEF Scored
  <2> QED BY <2>1, <2>3, <1>same
<1>review. CASE ReviewScores
  <2> DEFINE r == [basis |-> Basis(LatestScores), poor |-> Poor(LatestScores)]
  <2>1. review' = r /\ reviews' = AppendNew(reviews, r) /\ UNCHANGED <<scores, proposals>>
    BY <1>review DEF ReviewScores
  <2>2. r \in Review
    BY <1>lists, LatestType DEF Review
  <2>3. \A j \in DOMAIN r.basis : r.basis[j] \in Scored
    BY <1>lists, LatestScored
  <2> HIDE DEF r
  <2>4. /\ DOMAIN reviews \subseteq DOMAIN reviews'
        /\ \A i \in DOMAIN reviews : reviews'[i] = reviews[i]
        /\ \A i \in DOMAIN reviews' \ DOMAIN reviews : reviews'[i] = r
        /\ \E i \in DOMAIN reviews' : reviews'[i] = r
    BY <1>lists, <2>1, <2>2, AppendNewFacts
  <2>5. Scored' = Scored
    BY <2>1 DEF Scored
  <2>6. \A i \in DOMAIN proposals' :
          \E j \in DOMAIN reviews' : reviews'[j].basis = proposals'[i] /\ reviews'[j].poor
    BY <2>1, <2>4, <1>type DEF ProposalsGrounded
  <2>7. \A i \in DOMAIN reviews' : \A j \in DOMAIN reviews'[i].basis : reviews'[i].basis[j] \in Scored'
    BY <2>3, <2>4, <2>5, <1>type DEF ProposalsGrounded
  <2> QED BY <2>1, <2>4, <2>6, <2>7 DEF ProposalsGrounded
<1>propose. CASE Propose
  <2>1. /\ pc = "propose" /\ pc' = "create" /\ UNCHANGED <<scores, reviews>>
        /\ proposals' = IF review.poor THEN AppendNew(proposals, review.basis) ELSE proposals
    BY <1>propose DEF Propose
  <2>2. CASE ~review.poor
    BY <2>1, <2>2, <1>same DEF Scored
  <2>3. CASE review.poor
    <3>1. review.basis \in Seq(Keys)
      BY <2>1, <1>type DEF TypeOK, Review
    <3>2. /\ \A i \in DOMAIN proposals : proposals'[i] = proposals[i]
          /\ \A i \in DOMAIN proposals' \ DOMAIN proposals : proposals'[i] = review.basis
      BY <2>1, <2>3, <3>1, <1>lists, AppendNewFacts
    <3>3. PICK k \in DOMAIN reviews : reviews[k] = review
      BY <2>1 DEF GroundedInv
    <3>4. \A i \in DOMAIN proposals' :
            \E j \in DOMAIN reviews' : reviews'[j].basis = proposals'[i] /\ reviews'[j].poor
      BY <2>1, <2>3, <3>2, <3>3, <1>type DEF ProposalsGrounded
    <3> QED BY <2>1, <3>4, <1>type DEF ProposalsGrounded, Scored
  <2> QED BY <2>2, <2>3
<1>settle. CASE SkipTerminal \/ AwaitHorizon \/ AwaitData \/ GiveUpOnGap \/ AlreadyRecorded \/ GiveUpOnRegime
  BY <1>settle, <1>same DEF SkipTerminal, AwaitHorizon, AwaitData, GiveUpOnGap, AlreadyRecorded,
     GiveUpOnRegime, Scorable, OpenInHand, AtForecast, Settle, Scored
<1>load. CASE \E s \in Symbols : Load(s) \/ Publish(s) \/ Expire(s)
  BY <1>load, <1>same DEF Load, Publish, Expire, Between, disk, Scored
<1>rest. CASE \/ ScoringDone \/ ReuseForecast \/ CreateForecast \/ NoForecast
              \/ ReplaceForecasts \/ Tick \/ Backdate
  BY <1>rest, <1>same DEF ScoringDone, ReuseForecast, CreateForecast, NoForecast, FinishCreate,
     ReplaceForecasts, Tick, Backdate, Between, disk, Scored
<1>forget. CASE WriteMeta \/ Crash \/ TornReplace \/ ProviderError
  BY <1>forget, <1>same DEF WriteMeta, Crash, TornReplace, ProviderError, Forget, disk, Scored
<1>stutter. CASE UNCHANGED vars
  BY <1>stutter DEF vars, disk, memory, GroundedInv, ProposalsGrounded, Scored
<1> QED
  BY <1>load, <1>settle, <1>record, <1>review, <1>propose, <1>rest, <1>forget, <1>stutter
  DEF Next, RunStep, ScoreLoop, FaultStep

\* Every proposal answers a poor review on file, and every review is of scores
\* on file, whatever run died where.
THEOREM GroundedAlways == Spec => []ProposalsGrounded
<1>1. Init => GroundedInv
  BY TypeInit DEF Init, GroundedInv, ProposalsGrounded
<1>2. GroundedInv => ProposalsGrounded
  BY DEF GroundedInv
<1> QED BY <1>1, <1>2, GroundedNext, PTL DEF Spec
-----------------------------------------------------------------------------
(* A window of a single candle.                                            *)

LEMMA SingleCandleNext ==
  ASSUME TypeOK, SingleCandleNeverScored, [Next]_vars
  PROVE  SingleCandleNeverScored'
<1>same. ASSUME UNCHANGED <<horizon, scores>> PROVE SingleCandleNeverScored'
  BY <1>same DEF SingleCandleNeverScored
<1>record. CASE RecordScore
  <2>1. AtForecast /\ UNCHANGED horizon /\ Classifiable(Cardinality(Expected(InHand)))
    BY <1>record DEF RecordScore, Scorable, OpenInHand, Settle, outside, market
  <2>2. Start(InHand) \in Int
    <3>1. InHand \in Forecast
      BY <2>1 DEF TypeOK, AtForecast, InHand
    <3> QED BY <3>1, HourFacts DEF Forecast, Keys, Start
  <2>3. ASSUME horizon = 0 PROVE FALSE
    <3>1. Expected(InHand) = {Start(InHand)}
      BY <2>2, <2>3 DEF Expected, End
    <3>2. Cardinality(Expected(InHand)) = 1
      BY <3>1, FS_Singleton
    <3> QED BY <2>1, <3>2 DEF Classifiable
  <2> QED BY <2>1, <2>3 DEF SingleCandleNeverScored
<1>load. CASE \E s \in Symbols : Load(s) \/ Publish(s) \/ Expire(s)
  BY <1>load, <1>same DEF Load, Publish, Expire, Between, disk, outside, market
<1>settle. CASE \/ SkipTerminal \/ AwaitHorizon \/ AwaitData \/ GiveUpOnGap \/ AlreadyRecorded
                \/ GiveUpOnRegime \/ ScoringDone
  BY <1>settle, <1>same DEF SkipTerminal, AwaitHorizon, AwaitData, GiveUpOnGap, AlreadyRecorded,
     GiveUpOnRegime, ScoringDone, Settle, disk, outside, market
<1>rest. CASE \/ ReviewScores \/ Propose \/ ReuseForecast \/ CreateForecast \/ NoForecast
              \/ ReplaceForecasts \/ WriteMeta \/ Crash \/ TornReplace \/ ProviderError
              \/ Tick \/ Backdate \/ UNCHANGED vars
  BY <1>rest, <1>same DEF ReviewScores, Propose, ReuseForecast, CreateForecast, NoForecast,
     FinishCreate, ReplaceForecasts, WriteMeta, Crash, TornReplace, ProviderError, Tick, Backdate,
     Between, vars, disk, outside, market
<1> QED
  BY <1>load, <1>settle, <1>record, <1>rest DEF Next, RunStep, ScoreLoop, FaultStep

\* With a horizon of zero no forecast is ever scored: one candle has no regime.
THEOREM SingleCandleNeverScoredAlways == Spec => []SingleCandleNeverScored
<1>1. Init => SingleCandleNeverScored
  BY DEF Init, SingleCandleNeverScored
<1>2. TypeOK /\ SingleCandleNeverScored /\ [Next]_vars => SingleCandleNeverScored'
  BY SingleCandleNext
<1> QED BY <1>1, <1>2, TypeInit, TypeNext, PTL DEF Spec

-----------------------------------------------------------------------------
(* A rerun on the same inputs.                                             *)

\* A run with these inputs would score the forecast, unless it has been.
DueAt(f, in) ==
  /\ f.status \notin Terminal
  /\ in.now >= End(f)
  /\ \E h \in in.candles[f.key[1]] : h <= in.now /\ h >= End(f)
  /\ Expected(f) \subseteq in.candles[f.key[1]]
  /\ Classifiable(Cardinality(Expected(f)))
Spent(list, in) == \A i \in DOMAIN list : ~DueAt(list[i], in)
\* It would find the forecast of its hour, or too little history to open one.
BoundaryAt(in, h) ==
  /\ h \in in.candles[in.sym] /\ h <= in.now
  /\ \A g \in in.candles[in.sym] : g <= in.now => g <= h
HistoryAt(in, h) ==
  LET past == Cardinality({g \in in.candles[in.sym] : g <= h})
  IN  Classifiable(IF past < Lookback THEN past ELSE Lookback)
Opened(list, in) ==
  \A h \in Hours : BoundaryAt(in, h) /\ HistoryAt(in, h) => <<in.sym, h>> \in Keyed(list)

\* What the last completed run has left for one on the same inputs to do.
NothingLeft == settled \in Inputs => Spent(forecasts, settled) /\ Opened(forecasts, settled)
\* How far a run has come towards it.
Progress ==
  /\ pc = "score" => \A i \in DOMAIN work : i < cursor => ~DueAt(work[i], inputs)
  /\ pc \in {"review", "propose", "create", "replace"} => Spent(work, inputs)
  /\ pc = "replace" => Opened(work, inputs)
  /\ pc = "meta" => settled = Nothing /\ Spent(forecasts, inputs) /\ Opened(forecasts, inputs)
\* A rerun holds the forecasts on file, with new statuses as far as it has come.
Rerun ==
  pc # "idle" /\ settled = inputs =>
    /\ pc \in {"score", "create", "replace"} /\ fresh = 0
    /\ DOMAIN work = DOMAIN forecasts
    /\ \A i \in DOMAIN work : work[i].key = forecasts[i].key
    /\ pc = "score" => \A i \in DOMAIN work : i >= cursor => work[i] = forecasts[i]
RerunInv == TypeOK /\ NothingLeft /\ Progress /\ Rerun

LEMMA InputFacts ==
  ASSUME TypeOK, pc # "idle"
  PROVE  inputs \in Inputs /\ Nothing \notin Inputs
<1>1. inputs \in Inputs
  BY DEF TypeOK, inputs, Inputs
<1>2. \A in \in Inputs : "now" \in DOMAIN in
  BY DEF Inputs
<1>3. "now" \notin DOMAIN Nothing
  BY DEF Nothing
<1> QED BY <1>1, <1>2, <1>3

\* The market as the actions ask about it.
LEMMA AtInputs ==
  ASSUME TypeOK, pc # "idle"
  PROVE  /\ \A h \in Hours : Boundary(sym, h) <=> BoundaryAt(inputs, h)
         /\ \A h \in Hours : EnoughHistory(h) <=> HistoryAt(inputs, h)
         /\ \A h, g \in Hours : Boundary(sym, h) /\ Boundary(sym, g) => h = g
<1>1. sym \in Symbols /\ candles[sym] \subseteq Hours /\ Hours \subseteq Int /\ now \in Hours
  BY HourFacts DEF TypeOK
<1>2. inputs.now = now /\ inputs.candles = candles /\ inputs.sym = sym
  BY DEF inputs
<1>3. \A h \in Hours : Boundary(sym, h) <=> BoundaryAt(inputs, h)
  BY <1>1, <1>2 DEF Boundary, BoundaryAt, Seen
<1>4. \A h \in Hours : EnoughHistory(h) <=> HistoryAt(inputs, h)
  BY <1>1, <1>2 DEF EnoughHistory, HistoryAt
<1>5. \A h, g \in Hours : Boundary(sym, h) /\ Boundary(sym, g) => h = g
  BY <1>1 DEF Boundary, Seen
<1> QED BY <1>3, <1>4, <1>5

\* A forecast that is due is one the loop finds scorable.
LEMMA DueIsScorable ==
  ASSUME TypeOK, AtForecast, DueAt(InHand, inputs)
  PROVE  Scorable /\ Classifiable(Cardinality(Expected(InHand)))
<1>1. inputs.now = now /\ inputs.candles = candles
  BY DEF inputs
<1> QED
  BY <1>1 DEF DueAt, Scorable, OpenInHand, Matured, ReachesEnd, Seen, CoverageComplete

LEMMA ScorableIsDue ==
  ASSUME TypeOK, Scorable, Classifiable(Cardinality(Expected(InHand)))
  PROVE  DueAt(InHand, inputs)
<1>1. inputs.now = now /\ inputs.candles = candles
  BY DEF inputs
<1> QED
  BY <1>1 DEF DueAt, Scorable, OpenInHand, Matured, ReachesEnd, Seen, CoverageComplete

\* A verdict given, or a forecast left open that is not due, is no longer left to do.
LEMMA SettleProgress ==
  ASSUME RerunInv, AtForecast, NEW status, Settle(status),
         status \in Terminal \/ (InHand.status \notin Terminal /\ ~DueAt(InHand, inputs)),
         settled = inputs => fresh' = 0
  PROVE  NothingLeft' /\ Progress' /\ Rerun'
<1>1. pc = "score" /\ pc' = "score" /\ cursor' = cursor + 1 /\ cursor \in Int
  BY DEF AtForecast, Settle, RerunInv, TypeOK
<1>2. UNCHANGED <<forecasts, settled, horizon, now, candles, sym, inputs>>
  BY DEF Settle, outside, market, inputs
<1>3. /\ cursor \in DOMAIN work /\ DOMAIN work' = DOMAIN work /\ DOMAIN work \subseteq Int
      /\ \A i \in DOMAIN work : work'[i].key = work[i].key
      /\ \A i \in DOMAIN work : work'[i].status = IF i = cursor THEN status ELSE work[i].status
      /\ \A i \in DOMAIN work : i # cursor => work'[i] = work[i]
  <2>1. work \in Seq(Forecast) /\ work' = [work EXCEPT ![cursor] = [work[cursor] EXCEPT !.status = status]]
    BY DEF Settle, RerunInv, TypeOK
  <2>2. \A i \in DOMAIN work : i # cursor => work'[i] = work[i]
    BY <2>1
  <2> QED BY <2>1, <2>2, SettleFacts DEF RerunInv
<1>due. \A f : DueAt(f, inputs)' <=> DueAt(f, inputs)
  BY <1>2 DEF DueAt, End, Start, Expected
<1>4. NothingLeft'
  BY <1>2 DEF NothingLeft, Spent, Opened, DueAt, End, Start, Expected, RerunInv
<1>5. ASSUME NEW i \in DOMAIN work', i < cursor' PROVE ~DueAt(work[i], inputs)'
  <2>1. CASE i = cursor
    <3>1. work'[i].key = InHand.key /\ work'[i].status = status
      BY <1>3, <2>1 DEF InHand
    <3>2. status \notin Terminal /\ DueAt(work[i], inputs)' => DueAt(InHand, inputs)
      BY <1>2, <3>1 DEF DueAt, End, Start, Expected
    <3>3. DueAt(work[i], inputs)' => status \notin Terminal
      BY <3>1 DEF DueAt
    <3> QED BY <3>2, <3>3
  <2>2. CASE i # cursor
    <3>1. i \in DOMAIN work /\ i < cursor /\ work'[i] = work[i]
      BY <1>1, <1>3, <1>5, <2>2
    <3>2. DueAt(work[i], inputs)' => DueAt(work[i], inputs)
      BY <1>2, <3>1 DEF DueAt, End, Start, Expected
    <3> QED BY <1>1, <3>1, <3>2 DEF RerunInv, Progress
  <2> QED BY <2>1, <2>2
<1>6. Progress'
  BY <1>1, <1>5 DEF Progress
<1>7. Rerun'
  <2> SUFFICES ASSUME settled = inputs PROVE Rerun'
    BY <1>2 DEF Rerun
  <2>1. /\ fresh' = 0 /\ DOMAIN work = DOMAIN forecasts
        /\ \A i \in DOMAIN work : work[i].key = forecasts[i].key
        /\ \A i \in DOMAIN work : i >= cursor => work[i] = forecasts[i]
    BY <1>1 DEF RerunInv, Rerun
  <2>2. \A i \in DOMAIN work' : i >= cursor' => work'[i] = forecasts'[i]
    BY <1>1, <1>2, <1>3, <2>1
  <2> QED BY <1>1, <1>2, <1>3, <2>1, <2>2 DEF Rerun
<1> QED BY <1>4, <1>6, <1>7

\* Unless the run's memory or the market changes, what is left to do is the same.
LEMMA SameLeft ==
  ASSUME UNCHANGED horizon
  PROVE  /\ \A f, in : DueAt(f, in)' => DueAt(f', in')
         /\ UNCHANGED <<forecasts, settled>> => (NothingLeft => NothingLeft')
BY DEF NothingLeft, Spent, Opened, DueAt, End, Start, Expected

\* The forecast of the hour, when it is opened, is not due: its window is not over
\* for the provider, or has a single candle.
LEMMA OpenedNotDue ==
  ASSUME TypeOK, pc # "idle", NEW h \in Hours, Boundary(sym, h)
  PROVE  ~DueAt([key |-> <<sym, h>>, status |-> "pending"], inputs)
<1> DEFINE f == [key |-> <<sym, h>>, status |-> "pending"]
<1>1. /\ f.key[1] = sym /\ Start(f) = h /\ End(f) = h + horizon /\ Expected(f) = h..(h + horizon)
      /\ inputs.candles = candles /\ inputs.now = now
  BY DEF Start, End, Expected, inputs
<1>2. h \in Int /\ horizon \in Nat /\ sym \in Symbols /\ candles[sym] \subseteq Int
  BY HourFacts, HorizonAssumption DEF TypeOK
<1> HIDE DEF f
<1>3. SUFFICES ASSUME DueAt(f, inputs) PROVE FALSE
  BY DEF f
<1>4. PICK g \in candles[sym] : g <= now /\ g >= h + horizon
  BY <1>1, <1>3 DEF DueAt
<1>5. g <= h
  BY <1>4 DEF Boundary, Seen
<1>6. horizon = 0
  BY <1>2, <1>4, <1>5
<1>7. Expected(f) = {h}
  BY <1>1, <1>2, <1>6
<1>8. Cardinality(Expected(f)) = 1
  BY <1>7, FS_Singleton
<1> QED BY <1>3, <1>8 DEF DueAt, Classifiable

\* A rerun finds nothing to score.
LEMMA RerunScoresNothing ==
  ASSUME RerunInv, RecordScore
  PROVE  settled # inputs
<1>1. DueAt(InHand, inputs)
  BY ScorableIsDue DEF RecordScore, RerunInv
<1>2. pc = "score" /\ cursor \in DOMAIN work /\ cursor \in Int
  BY SettleFacts DEF RecordScore, Scorable, OpenInHand, AtForecast, RerunInv, TypeOK
<1>3. SUFFICES ASSUME settled = inputs PROVE FALSE
  OBVIOUS
<1>4. InHand = forecasts[cursor] /\ cursor \in DOMAIN forecasts
  BY <1>2, <1>3 DEF RerunInv, Rerun, InHand
<1>5. Spent(forecasts, inputs)
  BY <1>2, <1>3, InputFacts DEF RerunInv, NothingLeft
<1> QED BY <1>1, <1>4, <1>5 DEF Spent

LEMMA RerunNext == RerunInv /\ [Next]_vars => RerunInv'
<1> SUFFICES ASSUME RerunInv, [Next]_vars PROVE NothingLeft' /\ Progress' /\ Rerun'
  BY TypeNext DEF RerunInv
<1>type. TypeOK /\ TypeOK' /\ NothingLeft /\ Progress /\ Rerun
  BY TypeNext DEF RerunInv
<1>lists. work \in Seq(Forecast) /\ forecasts \in Seq(Forecast) /\ cursor \in Int
  BY <1>type DEF TypeOK
<1>load. ASSUME NEW s \in Symbols, Load(s) PROVE NothingLeft' /\ Progress' /\ Rerun'
  <2>1. /\ pc' = "score" /\ work' = forecasts /\ cursor' = 1 /\ fresh' = 0
        /\ UNCHANGED <<forecasts, settled, horizon>>
    BY <1>load DEF Load, outside, market, disk
  <2>2. NothingLeft'
    BY <1>type, <2>1, SameLeft
  <2>3. \A i \in DOMAIN work' : i >= 1 /\ ~(i < 1)
    BY <1>lists, <2>1
  <2>4. Progress'
    BY <2>1, <2>3 DEF Progress
  <2>5. Rerun'
    BY <2>1 DEF Rerun
  <2> QED BY <2>2, <2>4, <2>5
<1>skip. CASE SkipTerminal
  <2>1. AtForecast /\ Settle(InHand.status) /\ InHand.status \in Terminal /\ fresh' = fresh
    BY <1>skip DEF SkipTerminal
  <2>2. settled = inputs => fresh' = 0
    BY <1>type, <2>1 DEF Rerun, AtForecast
  <2> QED BY <2>1, <2>2, SettleProgress
<1>settle. CASE AwaitHorizon \/ AwaitData \/ GiveUpOnGap \/ AlreadyRecorded \/ GiveUpOnRegime
  <2>1. PICK status : /\ OpenInHand /\ Settle(status) /\ fresh' = fresh
                      /\ status \in Terminal \/ ~Scorable
    BY <1>settle DEF AwaitHorizon, AwaitData, GiveUpOnGap, AlreadyRecorded, GiveUpOnRegime, Scorable,
       Terminal
  <2>2. AtForecast /\ InHand.status \notin Terminal
    BY <2>1 DEF OpenInHand
  <2>3. settled = inputs => fresh' = 0
    BY <1>type, <2>1, <2>2 DEF Rerun, AtForecast
  <2>4. ~Scorable => ~DueAt(InHand, inputs)
    BY <1>type, <2>2, DueIsScorable
  <2> QED BY <2>1, <2>2, <2>3, <2>4, SettleProgress
<1>record. CASE RecordScore
  <2>1. AtForecast /\ Settle("resolved") /\ "resolved" \in Terminal
    BY <1>record DEF RecordScore, Scorable, OpenInHand, Terminal
  <2>2. settled # inputs
    BY <1>record, RerunScoresNothing
  <2> QED BY <2>1, <2>2, SettleProgress
<1>done. CASE ScoringDone
  <2>1. /\ pc = "score" /\ cursor > Len(work) /\ pc' = IF fresh > 0 THEN "review" ELSE "create"
        /\ UNCHANGED <<forecasts, settled, horizon, work, fresh, inputs>>
    BY <1>done DEF ScoringDone, outside, disk, memory, market, inputs
  <2>2. NothingLeft'
    BY <1>type, <2>1, SameLeft
  <2>3. \A i \in DOMAIN work : i < cursor
    BY <1>lists, <2>1
  <2>4. Spent(work, inputs)
    BY <1>type, <2>1, <2>3 DEF Progress, Spent
  <2>5. Spent(work, inputs)'
    BY <2>1, <2>4 DEF Spent, DueAt, End, Start, Expected
  <2>6. Progress'
    BY <2>1, <2>5 DEF Progress
  <2>7. Rerun'
    BY <1>type, <2>1 DEF Rerun
  <2> QED BY <2>2, <2>6, <2>7
<1>review. CASE ReviewScores \/ Propose
  <2>1. /\ pc \in {"review", "propose"} /\ pc' \in {"propose", "create"}
        /\ UNCHANGED <<forecasts, settled, horizon, work, inputs>>
    BY <1>review DEF ReviewScores, Propose, outside, market, memory, inputs
  <2>2. NothingLeft'
    BY <1>type, <2>1, SameLeft
  <2>3. Spent(work, inputs)'
    BY <1>type, <2>1 DEF Progress, Spent, DueAt, End, Start, Expected
  <2>4. settled # inputs
    BY <1>type, <2>1 DEF Rerun
  <2> QED BY <2>1, <2>2, <2>3, <2>4 DEF Progress, Rerun
<1>create. ASSUME NEW list, NEW key, pc = "create", FinishCreate(list, key),
                  Spent(list, inputs), Opened(list, inputs), settled = inputs => list = work
           PROVE  NothingLeft' /\ Progress' /\ Rerun'
  <2>1. pc' = "replace" /\ work' = list /\ UNCHANGED <<forecasts, settled, horizon, inputs, fresh>>
    BY <1>create DEF FinishCreate, outside, market, disk, inputs
  <2>2. NothingLeft'
    BY <1>type, <2>1, SameLeft
  <2>3. Spent(work, inputs)' /\ Opened(work, inputs)'
    BY <1>create, <2>1 DEF Spent, Opened, Keyed, BoundaryAt, HistoryAt, DueAt, End, Start, Expected
  <2>4. Rerun'
    BY <1>create, <1>type, <2>1 DEF Rerun
  <2> QED BY <2>1, <2>2, <2>3, <2>4 DEF Progress
<1>reuse. CASE ReuseForecast
  <2>1. PICK h \in Hours : Boundary(sym, h) /\ <<sym, h>> \in Keyed(work) /\ FinishCreate(work, <<sym, h>>)
    BY <1>reuse DEF ReuseForecast
  <2>2. pc = "create" /\ inputs.sym = sym
    BY <1>reuse DEF ReuseForecast, inputs
  <2>3. Opened(work, inputs)
    <3>1. \A g \in Hours : BoundaryAt(inputs, g) => g = h
      BY <1>type, <2>1, <2>2, AtInputs
    <3> QED BY <2>1, <2>2, <3>1 DEF Opened
  <2>4. Spent(work, inputs)
    BY <1>type, <2>2 DEF Progress
  <2> QED BY <2>1, <2>2, <2>3, <2>4, <1>create
<1>new. CASE CreateForecast
  <2>1. PICK h \in Hours : /\ Boundary(sym, h) /\ <<sym, h>> \notin Keyed(work) /\ EnoughHistory(h)
                           /\ FinishCreate(Append(work, [key |-> <<sym, h>>, status |-> "pending"]), <<sym, h>>)
    BY <1>new DEF CreateForecast
  <2>2. pc = "create" /\ inputs.sym = sym
    BY <1>new DEF CreateForecast, inputs
  <2> DEFINE f == [key |-> <<sym, h>>, status |-> "pending"]
             list == Append(work, f)
  <2>3. /\ DOMAIN list = DOMAIN work \cup {Len(work) + 1}
        /\ \A i \in DOMAIN work : i # Len(work) + 1 /\ list[i] = work[i]
        /\ list[Len(work) + 1] = f /\ f.key = <<sym, h>>
    BY <1>lists, AppendFacts
  <2>4. ~DueAt(f, inputs)
    BY <1>type, <2>1, <2>2, OpenedNotDue
  <2>5. FinishCreate(list, <<sym, h>>)
    BY <2>1
  <2> HIDE DEF f, list
  <2>6. Spent(list, inputs)
    BY <1>type, <2>2, <2>3, <2>4 DEF Progress, Spent
  <2>7. Opened(list, inputs)
    <3>1. \A g \in Hours : BoundaryAt(inputs, g) => g = h
      BY <1>type, <2>1, <2>2, AtInputs
    <3>2. <<sym, h>> \in Keyed(list)
      BY <2>3 DEF Keyed
    <3> QED BY <2>2, <3>1, <3>2 DEF Opened
  <2>8. settled # inputs
    <3>1. BoundaryAt(inputs, h) /\ HistoryAt(inputs, h)
      BY <1>type, <2>1, <2>2, AtInputs
    <3>2. SUFFICES ASSUME settled = inputs PROVE FALSE
      OBVIOUS
    <3>3. Opened(forecasts, inputs)
      BY <1>type, <2>2, <3>2, InputFacts DEF NothingLeft
    <3>4. <<sym, h>> \in Keyed(forecasts)
      BY <2>2, <3>1, <3>3 DEF Opened
    <3>5. Keyed(forecasts) = Keyed(work)
      BY <1>type, <2>2, <3>2 DEF Rerun, Keyed
    <3> QED BY <2>1, <3>4, <3>5
  <2> QED BY <2>2, <2>5, <2>6, <2>7, <2>8, <1>create
<1>none. CASE NoForecast
  <2>1. pc = "create" /\ FinishCreate(work, Nothing)
        /\ \A h \in Hours : Boundary(sym, h) => ~EnoughHistory(h)
    BY <1>none DEF NoForecast
  <2>2. Opened(work, inputs)
    BY <1>type, <2>1, AtInputs DEF Opened
  <2>3. Spent(work, inputs)
    BY <1>type, <2>1 DEF Progress
  <2> QED BY <2>1, <2>2, <2>3, <1>create
<1>replace. CASE ReplaceForecasts
  <2>1. /\ pc = "replace" /\ pc' = "meta" /\ forecasts' = work /\ settled' = Nothing
        /\ UNCHANGED <<horizon, inputs>>
    BY <1>replace DEF ReplaceForecasts, market, memory, inputs
  <2>2. Nothing \notin Inputs /\ Nothing # inputs
    BY <1>type, <2>1, InputFacts
  <2>3. Spent(forecasts, inputs)' /\ Opened(forecasts, inputs)'
    BY <1>type, <2>1 DEF Progress, Spent, Opened, Keyed, DueAt, End, Start, Expected
  <2>4. NothingLeft'
    BY <2>1, <2>2 DEF NothingLeft, Inputs
  <2> QED BY <2>1, <2>2, <2>3, <2>4 DEF Progress, Rerun
<1>meta. CASE WriteMeta
  <2>1. /\ pc = "meta" /\ pc' = "idle" /\ settled' = inputs
        /\ UNCHANGED <<forecasts, horizon>>
    BY <1>meta DEF WriteMeta, Forget, market
  <2>2. NothingLeft'
    BY <1>type, <2>1 DEF Progress, NothingLeft, Spent, Opened, DueAt, End, Start, Expected
  <2> QED BY <2>1, <2>2 DEF Progress, Rerun
<1>torn. CASE TornReplace
  <2>1. pc = "replace" /\ pc' = "idle" /\ settled' = Nothing
    BY <1>torn DEF TornReplace, Forget
  <2>2. NothingLeft'
    BY <1>type, <2>1, InputFacts DEF NothingLeft, Inputs
  <2> QED BY <2>1, <2>2 DEF Progress, Rerun
<1>idle. CASE Crash \/ ProviderError \/ Tick \/ Backdate \/ \E s \in Symbols : Publish(s) \/ Expire(s)
  <2>1. pc' = "idle" /\ UNCHANGED <<forecasts, settled, horizon>>
    BY <1>idle DEF Crash, ProviderError, Tick, Backdate, Publish, Expire, Forget, Between, outside,
       market, disk
  <2>2. NothingLeft'
    BY <1>type, <2>1, SameLeft
  <2> QED BY <2>1, <2>2 DEF Progress, Rerun
<1>stutter. CASE UNCHANGED vars
  BY <1>stutter, <1>type DEF vars, market, disk, memory, inputs, NothingLeft, Progress, Rerun,
     Spent, Opened, DueAt, End, Start, Expected
<1> QED
  BY <1>load, <1>skip, <1>settle, <1>record, <1>done, <1>review, <1>reuse, <1>new, <1>none,
     <1>replace, <1>meta, <1>torn, <1>idle, <1>stutter
  DEF Next, RunStep, ScoreLoop, FaultStep

\* A rerun on what the last completed run saw adds no forecast, score, review or
\* proposal, whatever fault occurred in between.
THEOREM RerunAddsNothingAlways == Spec => RerunAddsNothing
<1> DEFINE AddsNothing ==
      pc # "idle" /\ settled = inputs
      => /\ Len(forecasts') <= Len(forecasts)
         /\ UNCHANGED <<scores, reviews, proposals>>
<1>1. Init => RerunInv
  BY TypeInit DEF Init, RerunInv, NothingLeft, Progress, Rerun, Nothing, Inputs
<1>2. RerunInv /\ [Next]_vars => RerunInv'
  BY RerunNext
<1>3. RerunInv /\ [Next]_vars => [AddsNothing]_vars
  <2> SUFFICES ASSUME RerunInv, Next, pc # "idle", settled = inputs
               PROVE  Len(forecasts') <= Len(forecasts) /\ UNCHANGED <<scores, reviews, proposals>>
    BY DEF AddsNothing
  <2>1. /\ pc \in {"score", "create", "replace"} /\ Len(work) = Len(forecasts)
        /\ work \in Seq(Forecast) /\ forecasts \in Seq(Forecast)
        /\ fresh = 0
    BY DEF RerunInv, Rerun, TypeOK
  <2>2. ~RecordScore /\ pc # "review" /\ pc # "propose"
    BY <2>1, RerunScoresNothing
  <2>3. CASE UNCHANGED <<forecasts, scores, reviews, proposals>>
    BY <2>1, <2>3
  <2>4. CASE ReplaceForecasts
    BY <2>1, <2>4 DEF ReplaceForecasts
  <2>5. CASE TornReplace
    BY <2>1, <2>5 DEF TornReplace
  <2>6. CASE ScoreLoop
    BY <2>2, <2>3, <2>6 DEF ScoreLoop, SkipTerminal, AwaitHorizon, AwaitData, GiveUpOnGap, AlreadyRecorded,
       GiveUpOnRegime, ScoringDone, Settle, disk
  <2>7. CASE ReviewScores \/ Propose
    BY <2>2, <2>7 DEF ReviewScores, Propose
  <2>8. CASE \/ ReuseForecast \/ CreateForecast \/ NoForecast \/ WriteMeta \/ Crash \/ ProviderError
             \/ Tick \/ Backdate \/ \E s \in Symbols : Load(s) \/ Publish(s) \/ Expire(s)
    BY <2>3, <2>8 DEF ReuseForecast, CreateForecast, NoForecast, FinishCreate, WriteMeta, Crash,
       ProviderError, Tick, Backdate, Load, Publish, Expire, Between, disk
  <2> QED BY <2>4, <2>5, <2>6, <2>7, <2>8 DEF Next, RunStep, FaultStep
<1> QED BY <1>1, <1>2, <1>3, PTL DEF Spec, RerunAddsNothing
=============================================================================
