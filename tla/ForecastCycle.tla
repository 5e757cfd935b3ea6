---------------------------- MODULE ForecastCycle ----------------------------
(***************************************************************************)
(* One pass of the forecasting loop over the JSONL store, and the crashes, *)
(* provider faults and backdated runs it has to live with.                  *)
(*                                                                         *)
(* pipeline.py ForecastingLoop.run_cycle loads every forecast, settles the *)
(* mature ones, reviews the newest scores, proposes when the review is     *)
(* poor, creates or finds the forecast of the current hour, and only then  *)
(* rewrites the forecast file; cli.py _run_once writes last_run_meta.json  *)
(* after that.  Scores, reviews and proposals are appended on the way, so  *)
(* a crash leaves some files written and some not.  Each action below is   *)
(* the code between two writes, so that every such crash is a state.       *)
(*                                                                         *)
(* Candles are sets of hours (their prices matter only through the regime  *)
(* a window is classified as, and that only through hit or miss, which is  *)
(* left open); a forecast id, the hash of symbol and window, is the pair   *)
(* <<symbol, anchor>>, the horizon being the same for every run.           *)
(***************************************************************************)
EXTENDS Integers, Sequences, FiniteSets

CONSTANTS
  Symbols,            \* the symbols the loop is run for
  MaxHour,            \* bound: hours of market time, 0 .. MaxHour
  Horizons,           \* values of config.horizon_hours
  Lookback,           \* config.lookback_candles
  ReviewWindow,       \* config.review_window_size
  ThresholdTenths,    \* config.proposal_threshold, in tenths
  Faults              \* the faults of this instance

FaultKinds == {"crash", "torn_write", "retention", "backdate", "provider_error"}

ASSUME HorizonAssumption == Horizons \subseteq Nat
ASSUME MaxHourAssumption == MaxHour \in Nat
ASSUME LookbackAssumption == Lookback \in Nat \ {0}
ASSUME ReviewAssumption == /\ ReviewWindow \in Nat \ {0}
                           /\ ThresholdTenths \in 0..10
ASSUME FaultsAssumption == Faults \subseteq FaultKinds

Hours == 0..MaxHour
Keys == Symbols \X Hours
Nothing == <<>>       \* Python's None, for a forecast key or a review

\* The definitions named Mut... are the bugs the properties must catch; no
\* specification uses them.

VARIABLES
  now,          \* the hour a run started now is given (--now, or the clock)
  candles,      \* the candles the provider serves, per symbol
  horizon,      \* the horizon that all runs are given
  forecasts,    \* forecasts.jsonl
  scores,       \* scores.jsonl
  reviews,      \* reviews.jsonl
  proposals,    \* proposals.jsonl: the review each proposal answers
  meta,         \* last_run_meta.json: symbol and key of new_forecast
  pc,           \* where the run is, "idle" between runs
  sym,          \* config.symbol of the run
  work,         \* the forecast list in the run's memory
  cursor,       \* the loop position in that list
  fresh,        \* how many scores this run has recorded
  review,       \* the review this run holds, or Nothing
  created,      \* the key of the forecast this run returns, or Nothing
  settled       \* history only: what the last completed run saw, or Nothing

market == <<now, candles, horizon>>
disk == <<forecasts, scores, reviews, proposals, meta>>
memory == <<sym, work, cursor, fresh, review, created>>
outside == <<market, settled>>
vars == <<market, disk, pc, memory, settled>>
inputs == [now |-> now, candles |-> candles, sym |-> sym]

-----------------------------------------------------------------------------
(* Forecasts, scores and what the provider shows of the market.            *)

Open == {"pending", "waiting_for_data"}
MutTerminal == {"resolved"}
Terminal == {"resolved", "unscorable"}
Forecast == [key : Keys, status : Open \cup Terminal]
Score == [of : Keys, hit : {0, 1}]
Review == [basis : Seq(Keys), poor : BOOLEAN]

Start(f) == f.key[2]
End(f) == Start(f) + horizon
Keyed(list) == {list[i].key : i \in DOMAIN list}
Scored == {scores[i].of : i \in DOMAIN scores}

\* The candles of s up to the run's hour: what get_latest_candle_boundary
\* and get_recent_candles choose from.
Seen(s) == {h \in candles[s] : h <= now}
Boundary(s, h) == h \in Seen(s) /\ \A g \in Seen(s) : g <= h
ReachesEnd(f) == \E h \in Seen(f.key[1]) : h >= End(f)
Expected(f) == Start(f)..End(f)
CoverageComplete(f) == Expected(f) \subseteq candles[f.key[1]]

MutClassifiable(n) == n >= 1

\* _classify_regime has an answer for two candles or more.
Classifiable(n) == n >= 2

\* The newest scores, as many as a review looks at.
LatestScores ==
  LET first == Len(scores) - ReviewWindow + 1
  IN  SubSeq(scores, IF first > 1 THEN first ELSE 1, Len(scores))
Basis(list) == [i \in DOMAIN list |-> list[i].of]
Hits(list) == Cardinality({i \in DOMAIN list : list[i].hit = 1})
Poor(list) == 10 * Hits(list) < ThresholdTenths * Len(list)

\* save_review, save_proposal: append unless the id is there already.
AppendNew(file, e) ==
  IF \E i \in DOMAIN file : file[i] = e THEN file ELSE Append(file, e)

-----------------------------------------------------------------------------
(* The run.                                                                *)

\* Start a run for s: load_forecasts, an empty list of new scores.
Load(s) ==
  /\ pc = "idle"
  /\ pc' = "score"
  /\ sym' = s
  /\ work' = forecasts
  /\ cursor' = 1
  /\ fresh' = 0
  /\ review' = Nothing
  /\ created' = Nothing
  /\ UNCHANGED <<outside, disk>>

\* Leave the forecast at the cursor in the given status and go on.
Settle(status) ==
  /\ work' = [work EXCEPT ![cursor].status = status]
  /\ cursor' = cursor + 1
  /\ UNCHANGED <<outside, forecasts, reviews, proposals, meta, pc, sym, review, created>>

AtForecast == pc = "score" /\ cursor <= Len(work)
InHand == work[cursor]
OpenInHand == AtForecast /\ InHand.status \notin Terminal
Matured == now >= End(InHand)

SkipTerminal ==
  /\ AtForecast
  /\ InHand.status \in Terminal
  /\ Settle(InHand.status)
  /\ UNCHANGED <<scores, fresh>>

MutAwaitHorizon ==
  OpenInHand /\ ~Matured /\ Settle("awaiting_horizon_end") /\ UNCHANGED <<scores, fresh>>

AwaitHorizon ==
  /\ OpenInHand
  /\ ~Matured
  /\ Settle("pending")
  /\ UNCHANGED <<scores, fresh>>

MutAwaitData ==
  OpenInHand /\ Matured /\ Settle("waiting_for_data") /\ UNCHANGED <<scores, fresh>>

AwaitData ==
  /\ OpenInHand
  /\ Matured
  /\ ~ReachesEnd(InHand)
  /\ Settle("waiting_for_data")
  /\ UNCHANGED <<scores, fresh>>

MutGiveUpOnGap ==
  /\ AtForecast
  /\ Matured
  /\ ReachesEnd(InHand)
  /\ ~CoverageComplete(InHand)
  /\ Settle("unscorable")
  /\ UNCHANGED <<scores, fresh>>

\* The provider is past the window's end, so a candle it lacks is not waited for.
GiveUpOnGap ==
  /\ OpenInHand
  /\ Matured
  /\ ReachesEnd(InHand)
  /\ ~CoverageComplete(InHand)
  /\ Settle("unscorable")
  /\ UNCHANGED <<scores, fresh>>

Scorable == OpenInHand /\ Matured /\ ReachesEnd(InHand) /\ CoverageComplete(InHand)

MutAlreadyRecorded ==
  Scorable /\ Settle("resolved") /\ UNCHANGED <<scores, fresh>>

\* A score from a run that died before it rewrote the forecasts.
AlreadyRecorded ==
  /\ Scorable
  /\ InHand.key \in Scored
  /\ Settle("resolved")
  /\ UNCHANGED <<scores, fresh>>

GiveUpOnRegime ==
  /\ Scorable
  /\ InHand.key \notin Scored
  /\ ~Classifiable(Cardinality(Expected(InHand)))
  /\ Settle("unscorable")
  /\ UNCHANGED <<scores, fresh>>

MutRecordScore ==
  /\ Scorable
  /\ Classifiable(Cardinality(Expected(InHand)))
  /\ \E h \in {0, 1} : scores' = Append(scores, [of |-> InHand.key, hit |-> h])
  /\ fresh' = fresh + 1
  /\ Settle("resolved")

\* The score is on disk before the status that says so is.
RecordScore ==
  /\ Scorable
  /\ InHand.key \notin Scored
  /\ Classifiable(Cardinality(Expected(InHand)))
  /\ \E h \in {0, 1} : scores' = Append(scores, [of |-> InHand.key, hit |-> h])
  /\ fresh' = fresh + 1
  /\ Settle("resolved")

MutScoringDone ==
  pc = "score" /\ cursor > Len(work) /\ pc' = "create" /\ UNCHANGED <<outside, disk, memory>>

ScoringDone ==
  /\ pc = "score"
  /\ cursor > Len(work)
  /\ pc' = IF fresh > 0 THEN "review" ELSE "create"
  /\ UNCHANGED <<outside, disk, memory>>

\* _generate_review, reached only with new scores.
ReviewScores ==
  /\ pc = "review"
  /\ LET r == [basis |-> Basis(LatestScores), poor |-> Poor(LatestScores)]
     IN  /\ review' = r
         /\ reviews' = AppendNew(reviews, r)
  /\ pc' = "propose"
  /\ UNCHANGED <<outside, forecasts, scores, proposals, meta, sym, work, cursor, fresh, created>>

MutPropose ==
  /\ pc = "propose"
  /\ proposals' = AppendNew(proposals, review.basis)
  /\ pc' = "create"
  /\ UNCHANGED <<outside, forecasts, scores, reviews, meta, memory>>

\* _generate_proposal: the defensive change a poor review asks for.
Propose ==
  /\ pc = "propose"
  /\ proposals' = IF review.poor THEN AppendNew(proposals, review.basis) ELSE proposals
  /\ pc' = "create"
  /\ UNCHANGED <<outside, forecasts, scores, reviews, meta, memory>>

\* _create_or_get_forecast: its three outcomes.
FinishCreate(list, key) ==
  /\ work' = list
  /\ created' = key
  /\ pc' = "replace"
  /\ UNCHANGED <<outside, disk, sym, cursor, fresh, review>>

ReuseForecast ==
  /\ pc = "create"
  /\ \E h \in Hours : /\ Boundary(sym, h)
                      /\ <<sym, h>> \in Keyed(work)
                      /\ FinishCreate(work, <<sym, h>>)

EnoughHistory(h) ==
  LET past == Cardinality({g \in candles[sym] : g <= h})
  IN  Classifiable(IF past < Lookback THEN past ELSE Lookback)

MutCreateForecast ==
  /\ pc = "create"
  /\ \E h \in Hours :
       /\ Boundary(sym, h)
       /\ EnoughHistory(h)
       /\ FinishCreate(Append(work, [key |-> <<sym, h>>, status |-> "pending"]), <<sym, h>>)

CreateForecast ==
  /\ pc = "create"
  /\ \E h \in Hours :
       /\ Boundary(sym, h)
       /\ <<sym, h>> \notin Keyed(work)
       /\ EnoughHistory(h)
       /\ FinishCreate(Append(work, [key |-> <<sym, h>>, status |-> "pending"]), <<sym, h>>)

NoForecast ==
  /\ pc = "create"
  /\ \A h \in Hours : Boundary(sym, h) => <<sym, h>> \notin Keyed(work) /\ ~EnoughHistory(h)
  /\ FinishCreate(work, Nothing)

ReplaceForecasts ==
  /\ pc = "replace"
  /\ forecasts' = work
  /\ settled' = Nothing
  /\ pc' = "meta"
  /\ UNCHANGED <<market, scores, reviews, proposals, meta, memory>>

\* Memory of a finished or dead run is gone.
Forget ==
  /\ work' = <<>>
  /\ cursor' = 1
  /\ fresh' = 0
  /\ review' = Nothing
  /\ created' = Nothing
  /\ sym' = Nothing
  /\ pc' = "idle"

MutWriteMeta ==
  /\ pc = "meta"
  /\ meta' = [sym |-> sym,
              forecast |-> IF forecasts = <<>> THEN Nothing ELSE forecasts[Len(forecasts)].key]
  /\ settled' = inputs
  /\ Forget
  /\ UNCHANGED <<market, forecasts, scores, reviews, proposals>>

WriteMeta ==
  /\ pc = "meta"
  /\ meta' = [sym |-> sym, forecast |-> created]
  /\ settled' = inputs
  /\ Forget
  /\ UNCHANGED <<market, forecasts, scores, reviews, proposals>>

-----------------------------------------------------------------------------
(* Faults of a run.                                                        *)

\* The process dies between two writes.
Crash ==
  /\ "crash" \in Faults
  /\ pc # "idle"
  /\ Forget
  /\ UNCHANGED <<outside, disk>>

\* It dies inside replace_forecasts: the file was truncated by open("w") and
\* holds only the lines written so far.
TornReplace ==
  /\ "torn_write" \in Faults
  /\ pc = "replace"
  /\ \E n \in 0..(Len(work) - 1) : forecasts' = SubSeq(work, 1, n)
  /\ settled' = Nothing
  /\ Forget
  /\ UNCHANGED <<market, scores, reviews, proposals, meta>>

\* The provider raises; run_cycle unwinds and _write_failed_run_meta records it.
ProviderError ==
  /\ "provider_error" \in Faults
  /\ OpenInHand \/ pc = "create"
  /\ meta' = [sym |-> sym, forecast |-> Nothing]
  /\ Forget
  /\ UNCHANGED <<outside, forecasts, scores, reviews, proposals>>

-----------------------------------------------------------------------------
(* The market between two runs: a run reads the clock once, and the        *)
(* provider's answers are cached for the life of its process.              *)

Between == pc = "idle" /\ UNCHANGED <<horizon, disk, pc, memory, settled>>

Tick ==
  /\ Between
  /\ now < MaxHour
  /\ now' = now + 1
  /\ UNCHANGED candles

\* A candle of an hour that has come appears, late or out of order, but none
\* older than a sliding window still shows.
Publish(s) ==
  /\ Between
  /\ \E h \in 0..now : /\ h \notin candles[s]
                       /\ \/ "retention" \notin Faults \/ candles[s] = {}
                          \/ \E g \in candles[s] : g < h
                       /\ candles' = [candles EXCEPT ![s] = @ \cup {h}]
  /\ UNCHANGED now

\* The provider serves a sliding window: its oldest candle falls out.
Expire(s) ==
  /\ "retention" \in Faults
  /\ Between
  /\ \E h \in candles[s] : /\ \E g \in candles[s] : g > h
                           /\ \A g \in candles[s] : g >= h
                           /\ candles' = [candles EXCEPT ![s] = @ \ {h}]
  /\ UNCHANGED now

\* The next run is given an earlier --now.
Backdate ==
  /\ "backdate" \in Faults
  /\ Between
  /\ now' \in 0..(now - 1)
  /\ UNCHANGED candles

-----------------------------------------------------------------------------
Init ==
  /\ now = 0
  /\ candles = [s \in Symbols |-> {}]
  /\ horizon \in Horizons
  /\ forecasts = <<>>
  /\ scores = <<>>
  /\ reviews = <<>>
  /\ proposals = <<>>
  /\ meta = [sym |-> Nothing, forecast |-> Nothing]
  /\ pc = "idle"
  /\ sym = Nothing
  /\ work = <<>>
  /\ cursor = 1
  /\ fresh = 0
  /\ review = Nothing
  /\ created = Nothing
  /\ settled = Nothing

ScoreLoop ==
  \/ SkipTerminal
  \/ AwaitHorizon
  \/ AwaitData
  \/ GiveUpOnGap
  \/ AlreadyRecorded
  \/ GiveUpOnRegime
  \/ RecordScore
  \/ ScoringDone

RunStep ==
  \/ ScoreLoop
  \/ ReviewScores
  \/ Propose
  \/ ReuseForecast
  \/ CreateForecast
  \/ NoForecast
  \/ ReplaceForecasts
  \/ WriteMeta

FaultStep == Crash \/ TornReplace \/ ProviderError \/ Backdate

Next ==
  \/ \E s \in Symbols : Load(s) \/ Publish(s) \/ Expire(s)
  \/ RunStep
  \/ FaultStep
  \/ Tick

Spec == Init /\ [][Next]_vars

\* The scheduler starts runs for every symbol again and again, and a started
\* run is carried on.
FairSpec == Spec /\ WF_vars(RunStep) /\ WF_vars(\E s \in Symbols : Load(s))
-----------------------------------------------------------------------------
(* What must hold.                                                         *)

Inputs == [now : Hours, candles : [Symbols -> SUBSET Hours], sym : Symbols]

\* The files and the run's memory hold what the code's dataclasses allow.
TypeOK ==
  /\ now \in Hours
  /\ candles \in [Symbols -> SUBSET Hours]
  /\ horizon \in Horizons
  /\ forecasts \in Seq(Forecast)
  /\ scores \in Seq(Score)
  /\ reviews \in Seq(Review)
  /\ proposals \in Seq(Seq(Keys))
  /\ meta \in [sym : Symbols \cup {Nothing}, forecast : Keys \cup {Nothing}]
  /\ pc \in {"idle", "score", "review", "propose", "create", "replace", "meta"}
  /\ sym \in Symbols \cup {Nothing}
  /\ pc # "idle" => sym \in Symbols
  /\ work \in Seq(Forecast)
  /\ cursor \in 1..(Len(work) + 1)
  /\ fresh \in Nat
  /\ review \in Review \cup {Nothing}
  /\ pc = "propose" => review \in Review
  /\ created \in Keys \cup {Nothing}
  /\ settled \in Inputs \cup {Nothing}

Idle == pc = "idle"
Distinct(list) == \A i, j \in DOMAIN list : i # j => list[i].key # list[j].key

\* A forecast the file calls resolved has its score on disk, whatever run
\* died where: the score is saved before the status is.
ResolvedHasScore ==
  \A i \in DOMAIN forecasts :
    forecasts[i].status = "resolved" => forecasts[i].key \in Scored

\* A forecast is given up as unscorable only when no score was recorded for
\* it (README "Forecast States": resolved means a valid score exists).
UnscorableHasNoScore ==
  \A i \in DOMAIN forecasts :
    forecasts[i].status = "unscorable" => forecasts[i].key \notin Scored

\* One line per forecast id and one score per forecast, over any number of
\* reruns of the same hour, crashed or not.
OneOfEach ==
  /\ Distinct(forecasts)
  /\ \A i, j \in DOMAIN scores : i # j => scores[i].of # scores[j].of

\* Between runs, the newest scores have been reviewed and a poor review has
\* been answered by a proposal.
LatestScoresAnswered ==
  Idle /\ scores # <<>> =>
    \E i \in DOMAIN reviews :
      /\ reviews[i].basis = Basis(LatestScores)
      /\ reviews[i].poor = Poor(LatestScores)
      /\ reviews[i].poor => \E j \in DOMAIN proposals : proposals[j] = reviews[i].basis

\* Every proposal answers a poor review on file, and every review is of
\* scores on file.
ProposalsGrounded ==
  /\ \A i \in DOMAIN proposals :
       \E j \in DOMAIN reviews : reviews[j].basis = proposals[i] /\ reviews[j].poor
  /\ \A i \in DOMAIN reviews : \A j \in DOMAIN reviews[i].basis : reviews[i].basis[j] \in Scored

\* Between runs, the forecast named in last_run_meta.json is the last one on
\* file of its symbol: health.py blocks on last_run_meta_mismatch otherwise.
MetaMatchesTail ==
  Idle /\ meta.forecast # Nothing =>
    \E i \in DOMAIN forecasts :
      /\ forecasts[i].key = meta.forecast /\ meta.forecast[1] = meta.sym
      /\ \A j \in DOMAIN forecasts : forecasts[j].key[1] = meta.sym => j <= i

\* A horizon of zero, which --horizon-hours accepts, gives windows of a single
\* candle: their forecasts are given up, never scored.
SingleCandleNeverScored == horizon = 0 => scores = <<>>

\* A forecast whose window is over and passed by the provider is settled in
\* the end, gaps or no gaps.
MatureForecastSettles ==
  \A k \in Keys :
    (\E i \in DOMAIN forecasts : forecasts[i].key = k
                                /\ now >= End(forecasts[i]) /\ ReachesEnd(forecasts[i]))
    ~> (\E i \in DOMAIN forecasts : forecasts[i].key = k /\ forecasts[i].status \in Terminal)

\* README "Idempotency and Rerun Safety": rerunning run-once on what the last
\* completed run saw adds no forecast, score, review or proposal, whatever runs
\* died in between before their rewrite of the forecasts.  (A status may still
\* move from pending to waiting_for_data.)
RerunAddsNothing ==
  [][ pc # "idle" /\ settled = inputs
      => /\ Len(forecasts') <= Len(forecasts)
         /\ UNCHANGED <<scores, reviews, proposals>> ]_vars

\* What the files say of a forecast: a score on disk settles it, whatever its
\* own line says.
HitKeys == {scores[i].of : i \in {j \in DOMAIN scores : scores[j].hit = 1}}
GivenUp == {forecasts[i].key : i \in {j \in DOMAIN forecasts : forecasts[j].status = "unscorable"}}
Verdict(k) ==
  CASE k \in HitKeys -> "hit"
    [] k \in Scored \ HitKeys -> "miss"
    [] k \in GivenUp \ Scored -> "unscorable"
    [] k \in Keyed(forecasts) \ (Scored \cup GivenUp) -> "open"
    [] OTHER -> "absent"

Lifecycle == INSTANCE ForecastLifecycle
               WITH Keys <- Keys, Lossy <- "torn_write" \in Faults,
                    verdict <- [k \in Keys |-> Verdict(k)]

\* Runs, crashes, expiring candles and backdated runs all keep the promise of
\* ForecastLifecycle; a torn rewrite may lose a forecast but no score.
ImplementsLifecycle == Lifecycle!Spec
=============================================================================
