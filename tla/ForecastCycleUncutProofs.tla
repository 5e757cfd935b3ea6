----------------------- MODULE ForecastCycleUncutProofs -----------------------
(***************************************************************************)
(* What ForecastCycle promises when no run is cut short: the theorems here *)
(* hold for every set of symbols and every bound, without the faults that  *)
(* each of them excludes.                                                  *)
(***************************************************************************)
EXTENDS ForecastCycleProofs

(* Scores and statuses.                                                    *)

\* The strengthening: a score on disk and the status that says so part only
\* while a run is between the two, and then its memory has the status.
Unscored(list) == \A i \in DOMAIN list : list[i].status # "resolved" => list[i].key \notin Scored

StatusInv ==
  /\ LifecycleInv
  /\ ScoreHasForecast
  /\ pc # "idle" => Unscored(work)
  /\ pc = "idle" => Unscored(forecasts)
  /\ pc = "meta" => forecasts = work

\* Settling the forecast in hand without recording a score.
LEMMA SettleUnscored ==
  ASSUME StatusInv, AtForecast, NEW status, Settle(status), UNCHANGED scores,
         InHand.status = "resolved" => status = "resolved"
  PROVE  Unscored(work)'
<1>1. TypeOK /\ pc = "score" /\ Unscored(work)
  BY DEF StatusInv, LifecycleInv, Agreement, AtForecast
<1> QED BY <1>1, SettleFacts DEF Unscored, InHand, Scored

LEMMA StatusNext ==
  ASSUME Faults \cap {"crash", "torn_write", "provider_error"} = {}, StatusInv, [Next]_vars
  PROVE  StatusInv'
<1>inv. LifecycleInv' /\ ScoreHasForecast'
  BY LifecycleInvNext, ScoreHasForecastNext DEF StatusInv
<1>type. TypeOK /\ Agreement /\ Extends
  BY DEF StatusInv, LifecycleInv, Agreement
<1>lists. scores \in Seq(Score) /\ work \in Seq(Forecast)
  BY <1>type DEF TypeOK
<1>load. ASSUME NEW s \in Symbols, Load(s) PROVE StatusInv'
  BY <1>load, <1>inv DEF Load, disk, StatusInv, Unscored, Scored
<1>settle. CASE SkipTerminal \/ AwaitHorizon \/ AwaitData \/ GiveUpOnGap \/ AlreadyRecorded \/ GiveUpOnRegime
  <2>1. PICK status : /\ AtForecast /\ Settle(status) /\ UNCHANGED scores
                      /\ InHand.status = "resolved" => status = "resolved"
    BY <1>settle DEF SkipTerminal, AwaitHorizon, AwaitData, GiveUpOnGap, AlreadyRecorded,
       GiveUpOnRegime, Scorable, OpenInHand, Terminal
  <2>2. Unscored(work)'
    BY <2>1, SettleUnscored
  <2>3. pc' = "score"
    BY <2>1 DEF AtForecast, Settle
  <2> QED BY <2>2, <2>3, <1>inv DEF StatusInv
<1>record. CASE RecordScore
  <2>1. AtForecast /\ Settle("resolved") /\ pc = "score" /\ pc' = "score"
    BY <1>record DEF RecordScore, Scorable, OpenInHand, AtForecast, Settle
  <2>2. PICK h \in {0, 1} : scores' = Append(scores, [of |-> InHand.key, hit |-> h])
    BY <1>record DEF RecordScore
  <2>3. Scored' = Scored \cup {InHand.key}
    <3>1. /\ DOMAIN scores' = DOMAIN scores \cup {Len(scores) + 1}
          /\ \A i \in DOMAIN scores : i # Len(scores) + 1 /\ scores'[i] = scores[i]
          /\ scores'[Len(scores) + 1].of = InHand.key
      BY <1>lists, <2>2, AppendFacts
    <3> QED BY <3>1 DEF Scored
  <2>4. /\ cursor \in DOMAIN work /\ DOMAIN work' = DOMAIN work
        /\ \A i \in DOMAIN work : work'[i].key = work[i].key
        /\ \A i \in DOMAIN work : work'[i].status = IF i = cursor THEN "resolved" ELSE work[i].status
    BY <2>1, <1>type, SettleFacts
  <2>5. \A i \in DOMAIN work : i # cursor => work[i].key # InHand.key
    BY <2>4, <1>type DEF Agreement, Distinct, InHand
  <2>6. Unscored(work)'
    BY <2>1, <2>3, <2>4, <2>5 DEF StatusInv, Unscored
  <2> QED BY <2>1, <2>6, <1>inv DEF StatusInv
<1>create. CASE CreateForecast
  <2>1. PICK h \in Hours : /\ <<sym, h>> \notin Keyed(work)
                           /\ work' = Append(work, [key |-> <<sym, h>>, status |-> "pending"])
    BY <1>create DEF CreateForecast, FinishCreate
  <2>2. /\ DOMAIN work' = DOMAIN work \cup {Len(work) + 1}
        /\ \A i \in DOMAIN work : i # Len(work) + 1 /\ work'[i] = work[i]
        /\ work'[Len(work) + 1] = [key |-> <<sym, h>>, status |-> "pending"]
    BY <1>lists, <2>1, AppendFacts
  <2>3. pc = "create" /\ pc' = "replace" /\ UNCHANGED <<forecasts, scores>>
    BY <1>create DEF CreateForecast, FinishCreate, disk
  <2>4. <<sym, h>> \notin Scored
    BY <2>1, <2>3, <1>type DEF StatusInv, ScoreHasForecast, Extends, Keyed
  <2>5. Unscored(work)'
    BY <2>2, <2>3, <2>4 DEF StatusInv, Unscored, Scored
  <2> QED BY <2>3, <2>5, <1>inv DEF StatusInv
<1>replace. CASE ReplaceForecasts
  BY <1>replace, <1>inv DEF ReplaceForecasts, memory, StatusInv, Unscored, Scored
<1>meta. CASE WriteMeta
  BY <1>meta, <1>inv DEF WriteMeta, Forget, StatusInv, Unscored, Scored
<1>rest. CASE ScoringDone \/ ReviewScores \/ Propose \/ ReuseForecast \/ NoForecast
  <2>1. UNCHANGED <<forecasts, scores, work>> /\ pc # "idle" /\ pc' \notin {"idle", "meta"}
    BY <1>rest DEF ScoringDone, ReviewScores, Propose, ReuseForecast, NoForecast, FinishCreate,
       disk, memory
  <2> QED BY <2>1, <1>inv DEF StatusInv, Unscored, Scored
<1>same. CASE Tick \/ Backdate \/ (\E s \in Symbols : Publish(s) \/ Expire(s)) \/ UNCHANGED vars
  <2>1. UNCHANGED <<forecasts, scores, work, pc>>
    BY <1>same DEF Tick, Backdate, Publish, Expire, Between, vars, disk, memory
  <2> QED BY <2>1, <1>inv DEF StatusInv, Unscored, Scored
<1>none. ~Crash /\ ~TornReplace /\ ~ProviderError
  BY DEF Crash, TornReplace, ProviderError
<1> QED
  BY <1>load, <1>settle, <1>record, <1>create, <1>replace, <1>meta, <1>rest, <1>same, <1>none
  DEF Next, RunStep, ScoreLoop, FaultStep

\* As long as no run is cut short, a forecast with a score is never called
\* unscorable, whatever candles expire or stay missing and however far a run
\* is backdated.
THEOREM UnscorableNeverScored ==
  ASSUME Faults \cap {"crash", "torn_write", "provider_error"} = {}
  PROVE  Spec => []UnscorableHasNoScore
<1>1. Init => StatusInv
  <2>1. Init => LifecycleInv
    BY LifecycleInvInit
  <2> QED BY <2>1 DEF Init, StatusInv, ScoreHasForecast, Unscored, Scored, Keyed
<1>2. StatusInv /\ [Next]_vars => StatusInv'
  BY StatusNext
<1>3. StatusInv => UnscorableHasNoScore
  <2>1. CASE pc = "idle"
    BY <2>1 DEF StatusInv, Unscored, UnscorableHasNoScore
  <2>2. CASE pc # "idle"
    BY <2>2 DEF StatusInv, LifecycleInv, Extends, Terminal, Unscored, UnscorableHasNoScore
  <2> QED BY <2>1, <2>2
<1> QED BY <1>1, <1>2, <1>3, PTL DEF Spec
-----------------------------------------------------------------------------
(* Reviews and proposals.                                                  *)

Answer == [basis |-> Basis(LatestScores), poor |-> Poor(LatestScores)]

Answered ==
  scores # <<>> =>
    \E i \in DOMAIN reviews :
      /\ reviews[i].basis = Basis(LatestScores)
      /\ reviews[i].poor = Poor(LatestScores)
      /\ reviews[i].poor => \E j \in DOMAIN proposals : proposals[j] = reviews[i].basis

\* The strengthening: the newest scores stay answered until a run records
\* one, and are answered again before that run looks for its forecast.
AnsweredInv ==
  /\ TypeOK
  /\ pc \in {"idle", "create", "replace", "meta"} => Answered
  /\ pc = "score" /\ fresh = 0 => Answered
  /\ pc = "propose" => review = Answer /\ \E i \in DOMAIN reviews : reviews[i] = Answer

LEMMA AnsweredNext ==
  ASSUME Faults \cap {"crash", "provider_error"} = {}, AnsweredInv, [Next]_vars
  PROVE  AnsweredInv'
<1>type. TypeOK /\ TypeOK'
  BY TypeNext DEF AnsweredInv
<1>lists. /\ scores \in Seq(Score) /\ reviews \in Seq(Review) /\ proposals \in Seq(Seq(Keys))
          /\ fresh \in Nat
  BY <1>type DEF TypeOK
<1>same. ASSUME UNCHANGED <<scores, reviews, proposals>> PROVE Answered' = Answered
  BY <1>same DEF Answered, LatestScores, Poor, Hits, Basis
<1>load. CASE \E s \in Symbols : Load(s)
  BY <1>load, <1>type, <1>same DEF Load, disk, AnsweredInv
<1>settle. CASE SkipTerminal \/ AwaitHorizon \/ AwaitData \/ GiveUpOnGap \/ AlreadyRecorded \/ GiveUpOnRegime
  <2>1. UNCHANGED <<scores, reviews, proposals, fresh>> /\ pc = "score" /\ pc' = "score"
    BY <1>settle DEF SkipTerminal, AwaitHorizon, AwaitData, GiveUpOnGap, AlreadyRecorded,
       GiveUpOnRegime, Scorable, OpenInHand, AtForecast, Settle
  <2> QED BY <2>1, <1>type, <1>same DEF AnsweredInv
<1>record. CASE RecordScore
  <2>1. fresh' # 0 /\ pc' = "score"
    BY <1>record, <1>lists DEF RecordScore, Scorable, OpenInHand, AtForecast, Settle
  <2> QED BY <2>1, <1>type DEF AnsweredInv
<1>done. CASE ScoringDone
  <2>1. /\ UNCHANGED <<scores, reviews, proposals>> /\ pc = "score"
        /\ pc' = IF fresh > 0 THEN "review" ELSE "create"
    BY <1>done DEF ScoringDone, disk
  <2>2. pc' = "create" => fresh = 0
    BY <2>1, <1>lists
  <2> QED BY <2>1, <2>2, <1>type, <1>same DEF AnsweredInv
<1>review. CASE ReviewScores
  <2>1. /\ review' = Answer /\ reviews' = AppendNew(reviews, Answer)
        /\ UNCHANGED scores /\ pc' = "propose"
    BY <1>review DEF ReviewScores, Answer
  <2>2. Answer \in Review
    BY <1>lists, LatestType DEF Review, Answer
  <2>3. \E i \in DOMAIN reviews' : reviews'[i] = Answer
    BY <2>1, <2>2, <1>lists, AppendNewFacts
  <2>4. Answer' = Answer
    BY <2>1 DEF Answer, LatestScores, Poor, Hits, Basis
  <2> QED BY <2>1, <2>3, <2>4, <1>type DEF AnsweredInv
<1>propose. CASE Propose
  <2>1. /\ pc = "propose" /\ pc' = "create" /\ UNCHANGED <<scores, reviews>>
        /\ proposals' = IF review.poor THEN AppendNew(proposals, review.basis) ELSE proposals
    BY <1>propose DEF Propose
  <2>2. review = Answer
    BY <2>1 DEF AnsweredInv
  <2>3. PICK i \in DOMAIN reviews : reviews[i] = Answer
    BY <2>1 DEF AnsweredInv
  <2>4. ASSUME Answer.poor
        PROVE  \E j \in DOMAIN proposals' : proposals'[j] = Answer.basis
    <3>1. proposals' = AppendNew(proposals, Answer.basis)
      BY <2>1, <2>2, <2>4
    <3>2. Answer.basis \in Seq(Keys)
      BY <1>lists, LatestType DEF Answer
    <3> QED BY <3>1, <3>2, <1>lists, AppendNewFacts
  <2>5. /\ reviews'[i].basis = Basis(LatestScores) /\ reviews'[i].poor = Poor(LatestScores)
        /\ reviews'[i].poor => \E j \in DOMAIN proposals' : proposals'[j] = reviews'[i].basis
    BY <2>1, <2>3, <2>4 DEF Answer
  <2>6. Basis(LatestScores)' = Basis(LatestScores) /\ Poor(LatestScores)' = Poor(LatestScores)
    BY <2>1 DEF LatestScores, Poor, Hits, Basis
  <2>7. Answered'
    BY <2>1, <2>3, <2>5, <2>6 DEF Answered
  <2> QED BY <2>1, <2>7, <1>type DEF AnsweredInv
<1>rest. CASE \/ ReuseForecast \/ CreateForecast \/ NoForecast \/ ReplaceForecasts \/ WriteMeta
  <2>1. /\ UNCHANGED <<scores, reviews, proposals>> /\ pc \in {"create", "replace", "meta"}
        /\ pc' \in {"idle", "replace", "meta"}
    BY <1>rest DEF ReuseForecast, CreateForecast, NoForecast, FinishCreate, ReplaceForecasts,
       WriteMeta, Forget, disk
  <2> QED BY <2>1, <1>type, <1>same DEF AnsweredInv
<1>torn. CASE TornReplace
  <2>1. UNCHANGED <<scores, reviews, proposals>> /\ pc = "replace" /\ pc' = "idle"
    BY <1>torn DEF TornReplace, Forget
  <2> QED BY <2>1, <1>type, <1>same DEF AnsweredInv
<1>between. CASE Tick \/ Backdate \/ (\E s \in Symbols : Publish(s) \/ Expire(s))
  <2>1. UNCHANGED <<scores, reviews, proposals>> /\ pc = "idle" /\ pc' = "idle"
    BY <1>between DEF Tick, Backdate, Publish, Expire, Between, disk
  <2> QED BY <2>1, <1>type, <1>same DEF AnsweredInv
<1>stutter. CASE UNCHANGED vars
  <2>1. UNCHANGED <<scores, reviews, proposals, pc, fresh, review>>
    BY <1>stutter DEF vars, disk, memory
  <2>2. Answer' = Answer
    BY <2>1 DEF Answer, LatestScores, Poor, Hits, Basis
  <2> QED BY <2>1, <2>2, <1>type, <1>same DEF AnsweredInv
<1>none. ~Crash /\ ~ProviderError
  BY DEF Crash, ProviderError
<1> QED
  BY <1>load, <1>settle, <1>record, <1>done, <1>review, <1>propose, <1>rest, <1>torn, <1>between,
     <1>stutter, <1>none
  DEF Next, RunStep, ScoreLoop, FaultStep

\* As long as no run dies or fails before its review, the newest scores have a
\* review between runs, and a poor review its proposal; not even a torn rewrite
\* of the forecasts changes that.
THEOREM LatestScoresAnsweredAlways ==
  ASSUME Faults \cap {"crash", "provider_error"} = {}
  PROVE  Spec => []LatestScoresAnswered
<1>1. Init => AnsweredInv
  BY TypeInit DEF Init, AnsweredInv, Answered
<1>2. AnsweredInv /\ [Next]_vars => AnsweredInv'
  BY AnsweredNext
<1>3. AnsweredInv => LatestScoresAnswered
  BY DEF AnsweredInv, Answered, LatestScoresAnswered, Idle
<1> QED BY <1>1, <1>2, <1>3, PTL DEF Spec
-----------------------------------------------------------------------------
(* last_run_meta.json and the tail of the forecasts.                       *)

\* A symbol's forecasts are on file in the order of their anchors, and the
\* provider has shown a candle of the anchor's hour or a later one.
Ordered(list) ==
  \A i, j \in DOMAIN list :
    i < j /\ list[i].key[1] = list[j].key[1] => list[i].key[2] < list[j].key[2]
Behind(list) ==
  \A i \in DOMAIN list : \E h \in candles[list[i].key[1]] : list[i].key[2] <= h
IsTail(list, s, k) ==
  \E i \in DOMAIN list :
    /\ list[i].key = k /\ k[1] = s
    /\ \A j \in DOMAIN list : list[j].key[1] = s => j <= i

\* The strengthening: from the choice of the forecast to the meta file, it is
\* the last of its symbol, first in memory and then on file.
TailInv ==
  /\ TypeOK
  /\ \A s \in Symbols : \A h \in candles[s] : h <= now
  /\ Ordered(forecasts) /\ Behind(forecasts)
  /\ Ordered(work) /\ Behind(work)
  /\ MetaMatchesTail
  /\ pc = "replace" /\ created # Nothing => IsTail(work, sym, created)
  /\ pc = "meta" /\ created # Nothing => IsTail(forecasts, sym, created)

LEMMA KeyFacts ==
  ASSUME NEW list \in Seq(Forecast), NEW i \in DOMAIN list
  PROVE  /\ list[i].key[1] \in Symbols /\ list[i].key[2] \in Hours /\ list[i].key[2] \in Int
         /\ list[i].key = <<list[i].key[1], list[i].key[2]>>
<1>1. list[i] \in Forecast
  OBVIOUS
<1>2. list[i].key \in Symbols \X Hours
  BY <1>1 DEF Forecast, Keys
<1>3. list[i].key[2] \in Hours
  BY <1>2
<1>4. list[i].key[2] \in Int
  BY <1>3, HourFacts
<1> QED BY <1>2, <1>3, <1>4

\* The forecast of the newest candle is the last of its symbol.
LEMMA BoundaryIsTail ==
  ASSUME TailInv, NEW h \in Hours, Boundary(sym, h), sym \in Symbols,
         NEW i \in DOMAIN work, work[i].key = <<sym, h>>
  PROVE  IsTail(work, sym, <<sym, h>>)
<1>1. SUFFICES ASSUME NEW j \in DOMAIN work, work[j].key[1] = sym PROVE j <= i
  BY DEF IsTail
<1>2. work \in Seq(Forecast) /\ candles[sym] \subseteq Hours
  BY DEF TailInv, TypeOK
<1>3. i \in Int /\ j \in Int
  BY <1>2
<1>4. work[j].key[2] \in Int
  BY <1>2, KeyFacts
<1>5. PICK g \in candles[sym] : work[j].key[2] <= g
  BY <1>1 DEF TailInv, Behind
<1>6. g <= h
  BY <1>5 DEF TailInv, Boundary, Seen
<1>7. work[j].key[2] <= h
  <2>1. g \in Int /\ h \in Int
    BY <1>2, HourFacts
  <2> QED BY <2>1, <1>4, <1>5, <1>6
<1>8. ~ i < j
  <2>1. work[i].key[1] = sym /\ work[i].key[2] = h /\ h \in Int
    <3>1. h \in Int
      BY HourFacts
    <3>2. work[i].key = <<sym, h>>
      OBVIOUS
    <3>3. <<sym, h>>[1] = sym /\ <<sym, h>>[2] = h
      OBVIOUS
    <3> QED BY <3>1, <3>2, <3>3, Zenon
  <2>2. i < j => h < work[j].key[2]
    BY <2>1, <1>1 DEF TailInv, Ordered
  <2> QED BY <2>1, <2>2, <1>4, <1>7
<1> QED BY <1>3, <1>8

LEMMA TailNext ==
  ASSUME Faults \cap {"crash", "torn_write", "backdate"} = {}, TailInv, [Next]_vars
  PROVE  TailInv'
<1>type. TypeOK /\ TypeOK'
  BY TypeNext DEF TailInv
<1>lists. work \in Seq(Forecast) /\ forecasts \in Seq(Forecast)
  BY <1>type DEF TypeOK
<1>load. CASE \E s \in Symbols : Load(s)
  BY <1>load, <1>type
  DEF Load, disk, outside, market, TailInv, Ordered, Behind, MetaMatchesTail, Idle
<1>settle. CASE \/ SkipTerminal \/ AwaitHorizon \/ AwaitData \/ GiveUpOnGap \/ AlreadyRecorded
                \/ GiveUpOnRegime \/ RecordScore
  <2>1. PICK status : AtForecast /\ Settle(status)
    BY <1>settle DEF SkipTerminal, AwaitHorizon, AwaitData, GiveUpOnGap, AlreadyRecorded,
       GiveUpOnRegime, RecordScore, Scorable, OpenInHand
  <2>2. DOMAIN work' = DOMAIN work /\ \A i \in DOMAIN work : work'[i].key = work[i].key
    BY <2>1, <1>type, SettleFacts
  <2>3. UNCHANGED <<now, candles, forecasts>> /\ pc' = "score"
    BY <2>1 DEF AtForecast, Settle, outside, market
  <2>4. Ordered(work)' /\ Behind(work)'
    BY <2>2, <2>3 DEF TailInv, Ordered, Behind
  <2> QED BY <2>3, <2>4, <1>type DEF TailInv, Ordered, Behind, MetaMatchesTail, Idle
<1>steps. CASE ScoringDone \/ ReviewScores \/ Propose
  <2>1. UNCHANGED <<now, candles, forecasts, work>> /\ pc' \in {"review", "propose", "create"}
    BY <1>steps DEF ScoringDone, ReviewScores, Propose, outside, market, disk, memory
  <2> QED BY <2>1, <1>type DEF TailInv, Ordered, Behind, MetaMatchesTail, Idle
<1>reuse. CASE ReuseForecast
  <2>1. PICK h \in Hours : Boundary(sym, h) /\ <<sym, h>> \in Keyed(work) /\ FinishCreate(work, <<sym, h>>)
    BY <1>reuse DEF ReuseForecast
  <2>2. UNCHANGED <<now, candles, forecasts, work, sym>> /\ pc' = "replace" /\ created' = <<sym, h>>
    BY <2>1 DEF FinishCreate, outside, market, disk
  <2>3. sym \in Symbols
    BY <1>reuse, <1>type DEF ReuseForecast, TypeOK
  <2>4. IsTail(work, sym, <<sym, h>>)
    BY <2>1, <2>3, BoundaryIsTail DEF Keyed
  <2>5. IsTail(work, sym, created)'
    BY <2>2, <2>4 DEF IsTail
  <2> QED BY <2>2, <2>5, <1>type DEF TailInv, Ordered, Behind, MetaMatchesTail, Idle
<1>create. CASE CreateForecast
  <2>1. PICK h \in Hours :
          /\ Boundary(sym, h) /\ <<sym, h>> \notin Keyed(work)
          /\ FinishCreate(Append(work, [key |-> <<sym, h>>, status |-> "pending"]), <<sym, h>>)
    BY <1>create DEF CreateForecast
  <2>2. /\ UNCHANGED <<now, candles, forecasts, sym>> /\ pc' = "replace" /\ created' = <<sym, h>>
        /\ work' = Append(work, [key |-> <<sym, h>>, status |-> "pending"])
    BY <2>1 DEF FinishCreate, outside, market, disk
  <2>3. sym \in Symbols /\ candles[sym] \subseteq Hours /\ h \in candles[sym]
    BY <1>create, <1>type, <2>1 DEF CreateForecast, TypeOK, Boundary, Seen
  <2>4. /\ DOMAIN work' = DOMAIN work \cup {Len(work) + 1}
        /\ \A i \in DOMAIN work : i # Len(work) + 1 /\ work'[i] = work[i]
        /\ work'[Len(work) + 1] = [key |-> <<sym, h>>, status |-> "pending"]
    BY <1>lists, <2>2, AppendFacts
  <2>5. DOMAIN work = 1..Len(work) /\ Len(work) \in Nat
    BY <1>lists
  <2>6. \A i \in DOMAIN work : work[i].key[1] = sym => work[i].key[2] < h
    <3> SUFFICES ASSUME NEW i \in DOMAIN work, work[i].key[1] = sym PROVE work[i].key[2] < h
      OBVIOUS
    <3>2. work[i].key[2] \in Hours /\ work[i].key = <<sym, work[i].key[2]>>
      BY <1>lists, KeyFacts
    <3>3. PICK g \in candles[sym] : work[i].key[2] <= g
      BY DEF TailInv, Behind
    <3>4. g <= h
      BY <2>1, <2>3, <3>3 DEF TailInv, Boundary, Seen
    <3>5. work[i].key[2] # h
      BY <2>1, <3>2 DEF Keyed
    <3> QED BY <2>3, <3>2, <3>3, <3>4, <3>5, HourFacts
  <2>7. Ordered(work)'
    BY <2>4, <2>5, <2>6 DEF TailInv, Ordered
  <2>8. Behind(work)'
    BY <2>2, <2>3, <2>4, HourFacts DEF TailInv, Behind
  <2>9. IsTail(work, sym, created)'
    <3>1. Len(work) + 1 \in DOMAIN work' /\ work'[Len(work) + 1].key = <<sym, h>>
      BY <2>4
    <3>2. \A j \in DOMAIN work' : j <= Len(work) + 1
      BY <2>4, <2>5
    <3> QED BY <2>2, <3>1, <3>2 DEF IsTail
  <2> QED BY <2>2, <2>7, <2>8, <2>9, <1>type DEF TailInv, Ordered, Behind, MetaMatchesTail, Idle
<1>nothing. CASE NoForecast
  BY <1>nothing, <1>type DEF NoForecast, FinishCreate, outside, market, disk, TailInv, Ordered,
     Behind, MetaMatchesTail, Idle
<1>replace. CASE ReplaceForecasts
  <2>1. /\ UNCHANGED <<now, candles, work, sym, created>> /\ forecasts' = work
        /\ pc = "replace" /\ pc' = "meta"
    BY <1>replace DEF ReplaceForecasts, market, memory
  <2>2. pc' = "meta" /\ created' # Nothing => IsTail(forecasts, sym, created)'
    BY <2>1 DEF TailInv, IsTail
  <2> QED BY <2>1, <2>2, <1>type DEF TailInv, Ordered, Behind, MetaMatchesTail, Idle
<1>meta. CASE WriteMeta
  <2>1. /\ pc = "meta" /\ pc' = "idle" /\ UNCHANGED <<now, candles, forecasts>> /\ work' = <<>>
        /\ meta' = [sym |-> sym, forecast |-> created]
    BY <1>meta DEF WriteMeta, Forget, market
  <2>2. MetaMatchesTail'
    BY <2>1 DEF TailInv, IsTail, MetaMatchesTail
  <2> QED BY <2>1, <2>2, <1>type DEF TailInv, Ordered, Behind
<1>failed. CASE ProviderError
  BY <1>failed, <1>type DEF ProviderError, Forget, outside, market, TailInv, Ordered, Behind,
     MetaMatchesTail
<1>tick. CASE Tick
  <2>1. UNCHANGED <<candles, disk, pc, memory>> /\ now' = now + 1 /\ pc = "idle"
    BY <1>tick DEF Tick, Between
  <2>2. \A s \in Symbols : \A h \in candles'[s] : h <= now'
    BY <2>1, <1>type, HourFacts DEF TailInv, TypeOK
  <2> QED BY <2>1, <2>2, <1>type DEF disk, memory, TailInv, Ordered, Behind, MetaMatchesTail, Idle
<1>candle. CASE \E s \in Symbols : Publish(s) \/ Expire(s)
  <2>1. UNCHANGED <<now, disk, pc, memory>> /\ pc = "idle"
    BY <1>candle DEF Publish, Expire, Between
  <2>2. \A s \in Symbols : \A h \in candles'[s] : h <= now'
    <3>1. PICK t \in Symbols : Publish(t) \/ Expire(t)
      BY <1>candle
    <3>2. CASE Publish(t)
      <4>1. PICK h \in 0..now : candles' = [candles EXCEPT ![t] = @ \cup {h}]
        BY <3>2 DEF Publish
      <4>2. h <= now
        OBVIOUS
      <4> QED BY <2>1, <4>1, <4>2, <1>type DEF TailInv, TypeOK
    <3>3. CASE Expire(t)
      <4>1. PICK h \in candles[t] : candles' = [candles EXCEPT ![t] = @ \ {h}]
        BY <3>3 DEF Expire
      <4> QED BY <2>1, <4>1, <1>type DEF TailInv, TypeOK
    <3> QED BY <3>1, <3>2, <3>3
  <2>3. \A s \in Symbols : \A h \in candles[s] : \E g \in candles'[s] : h <= g
    <3> SUFFICES ASSUME NEW s \in Symbols, NEW h \in candles[s] PROVE \E g \in candles'[s] : h <= g
      OBVIOUS
    <3>1. h \in Int /\ candles[s] \subseteq Int
      BY <1>type, HourFacts DEF TypeOK
    <3>2. CASE \E t \in Symbols : Publish(t)
      BY <3>1, <3>2, <1>type DEF Publish, TypeOK
    <3>3. CASE \E t \in Symbols : Expire(t)
      <4>1. PICK t \in Symbols : Expire(t)
        BY <3>3
      <4>2. PICK o \in candles[t] : /\ \E g \in candles[t] : g > o
                                    /\ candles' = [candles EXCEPT ![t] = @ \ {o}]
        BY <4>1 DEF Expire
      <4>3. CASE s = t /\ h = o
        BY <3>1, <4>2, <4>3, <1>type DEF TypeOK
      <4>4. CASE ~(s = t /\ h = o)
        BY <3>1, <4>2, <4>4, <1>type DEF TypeOK
      <4> QED BY <4>3, <4>4
    <3> QED BY <1>candle, <3>2, <3>3
  <2>4. \A i \in DOMAIN work : work[i].key[1] \in Symbols /\ work[i].key[2] \in Int
    BY <1>lists, KeyFacts
  <2>5. \A i \in DOMAIN forecasts : forecasts[i].key[1] \in Symbols /\ forecasts[i].key[2] \in Int
    BY <1>lists, KeyFacts
  <2>6. \A s \in Symbols : candles[s] \subseteq Int /\ candles'[s] \subseteq Int
    BY <1>type, HourFacts DEF TypeOK
  <2>7. UNCHANGED <<forecasts, meta, work>>
    BY <2>1 DEF disk, memory
  <2>8. Behind(work)'
    BY <2>3, <2>4, <2>6, <2>7 DEF TailInv, Behind
  <2>9. Behind(forecasts)'
    BY <2>3, <2>5, <2>6, <2>7 DEF TailInv, Behind
  <2> QED BY <2>1, <2>2, <2>7, <2>8, <2>9, <1>type DEF TailInv, Ordered, MetaMatchesTail, Idle
<1>stutter. CASE UNCHANGED vars
  BY <1>stutter, <1>type DEF vars, market, disk, memory, TailInv, Ordered, Behind, IsTail,
     MetaMatchesTail, Idle
<1>none. ~Crash /\ ~TornReplace /\ ~Backdate
  BY DEF Crash, TornReplace, Backdate
<1> QED
  BY <1>load, <1>settle, <1>steps, <1>reuse, <1>create, <1>nothing, <1>replace, <1>meta, <1>failed,
     <1>tick, <1>candle, <1>stutter, <1>none
  DEF Next, RunStep, ScoreLoop, FaultStep

\* With no dead run, torn rewrite or backdated run, the forecast that
\* last_run_meta.json names is the last of its symbol on file, however candles
\* come late, leave gaps or expire: health.py does not block on a mismatch.
THEOREM MetaAlwaysMatches ==
  ASSUME Faults \cap {"crash", "torn_write", "backdate"} = {}
  PROVE  Spec => []MetaMatchesTail
<1>1. Init => TailInv
  <2>1. Init => TypeOK
    BY TypeInit
  <2> QED BY <2>1 DEF Init, TailInv, Ordered, Behind, MetaMatchesTail
<1>2. TailInv /\ [Next]_vars => TailInv'
  BY TailNext
<1>3. TailInv => MetaMatchesTail
  BY DEF TailInv
<1> QED BY <1>1, <1>2, <1>3, PTL DEF Spec
=============================================================================
