--------------------------------- MODULE Health ---------------------------------
(***************************************************************************)
(* What the health check (health.py) finds in the artifact files, as far   *)
(* as it is about references between artifacts: a row whose reference      *)
(* names no row, and two rows that a third says belong together and that   *)
(* do not agree.  It looks at the rows of every symbol.                    *)
(*                                                                         *)
(* A row is [kind, id, refs]: refs gives each of the fields of its kind    *)
(* that hold ids the set of ids it holds, and an id is <<kind, key>>.  A    *)
(* decision also has refusals, an agenda says whether it is a lineage's,   *)
(* and a card has the root that it replaces, if any.                       *)
(***************************************************************************)
EXTENDS Naturals

-----------------------------------------------------------------------------
(* The artifacts (models.py): kind |-> field |-> the kinds it may name      *)

ForecastSchema ==
  [forecast       |-> <<>>,
   forecast_score |-> [forecast_id |-> {"forecast"}],
   review         |-> [score_ids |-> {"forecast_score"}, forecast_ids |-> {"forecast"}],
   proposal       |-> [review_id |-> {"review"}, score_ids |-> {"forecast_score"}]]
\* The summary of a replay is a kind of its own: the check passes it over.
SummaryFields ==
  [forecast_ids |-> {"forecast"}, scored_forecast_ids |-> {"forecast"},
   score_ids |-> {"forecast_score"}, review_ids |-> {"review"}, proposal_ids |-> {"proposal"}]
SummarySchema ==
  [evaluation_summary |-> SummaryFields, replay_summary |-> SummaryFields,
   baseline_evaluation |-> [forecast_ids |-> {"forecast"}, score_ids |-> {"forecast_score"}]]
DecisionSchema ==
  [strategy_decision |->
     [forecast_ids |-> {"forecast"}, score_ids |-> {"forecast_score"}, review_ids |-> {"review"},
      baseline_ids |-> {"baseline_evaluation"}, backtest_result |-> {"backtest_result"},
      walk_forward |-> {"walk_forward_validation"}, event_edge |-> {"event_edge_evaluation"}]]
DatasetSchema ==
  [research_dataset |->
     [forecast_ids |-> {"forecast"}, score_ids |-> {"forecast_score"},
      row_forecast_ids |-> {"forecast"}, row_score_ids |-> {"forecast_score"}]]
BacktestSchema ==
  [market_candle   |-> <<>>,
   backtest_run    |-> [candle_ids |-> {"market_candle"}],
   backtest_result |-> [backtest_id |-> {"backtest_run"}]]
WalkForwardSchema ==
  [walk_forward_validation |->
     [backtest_result_ids |-> {"backtest_result"},
      window_backtest_result_ids |-> {"backtest_result"}]]
CardSchema ==
  [strategy_card |->
     [parent_card_id |-> {"strategy_card"}, feature_snapshot_ids |-> {"feature_snapshot"},
      backtest_result_ids |-> {"backtest_result"},
      walk_forward_validation_ids |-> {"walk_forward_validation"},
      event_edge_evaluation_ids |-> {"event_edge_evaluation"}]]
TrialSchema ==
  [experiment_budget |-> [strategy_card_id |-> {"strategy_card"}],
   experiment_trial |->
     [strategy_card_id |-> {"strategy_card"}, dataset_id |-> {"research_dataset"},
      backtest_result_id |-> {"backtest_result"},
      walk_forward_validation_id |-> {"walk_forward_validation"},
      event_edge_evaluation_id |-> {"event_edge_evaluation"}]]
SplitSchema ==
  [split_manifest |->
     [strategy_card_id |-> {"strategy_card"}, dataset_id |-> {"research_dataset"}]]
EvaluationSchema ==
  [cost_model_snapshot |-> <<>>,
   locked_evaluation_result |->
     [strategy_card_id |-> {"strategy_card"}, trial_id |-> {"experiment_trial"},
      split_manifest_id |-> {"split_manifest"}, cost_model_id |-> {"cost_model_snapshot"},
      baseline_id |-> {"baseline_evaluation"}, backtest_result_id |-> {"backtest_result"},
      walk_forward_validation_id |-> {"walk_forward_validation"},
      event_edge_evaluation_id |-> {"event_edge_evaluation"}]]
EntrySchema ==
  [leaderboard_entry |->
     [strategy_card_id |-> {"strategy_card"}, trial_id |-> {"experiment_trial"},
      evaluation_id |-> {"locked_evaluation_result"}],
   paper_shadow_outcome |->
     [leaderboard_entry_id |-> {"leaderboard_entry"}, strategy_card_id |-> {"strategy_card"},
      evaluation_id |-> {"locked_evaluation_result"}, trial_id |-> {"experiment_trial"}]]
AgendaSchema ==
  [research_agenda |-> [strategy_card_ids |-> {"strategy_card"}],
   research_autopilot_run |->
     [agenda_id |-> {"research_agenda"}, strategy_card_id |-> {"strategy_card"},
      experiment_trial_id |-> {"experiment_trial"},
      locked_evaluation_id |-> {"locked_evaluation_result"},
      leaderboard_entry_id |-> {"leaderboard_entry"},
      strategy_decision_id |-> {"strategy_decision"},
      paper_shadow_outcome_id |-> {"paper_shadow_outcome"}]]
\* So is a digest that a later one of its symbol has superseded.
DigestFields ==
  [strategy_card_id |-> {"strategy_card"}, lineage_root_card_id |-> {"strategy_card"},
   paper_shadow_outcome_id |-> {"paper_shadow_outcome"},
   autopilot_run_id |-> {"research_autopilot_run"}, decision_id |-> {"strategy_decision"},
   artifact_ids |-> {"backtest_result", "walk_forward_validation", "event_edge_evaluation",
                     "locked_evaluation_result", "leaderboard_entry", "experiment_trial",
                     "research_agenda"}]
DigestSchema == [strategy_research_digest |-> DigestFields, superseded_digest |-> DigestFields]
DocumentSchema ==
  [source_registry_entry |-> <<>>,
   source_document |->
     [source_id |-> {"source_registry_entry"}, ingestion_run_id |-> {"source_ingestion_run"}],
   source_ingestion_run |-> [document_ids |-> {"source_document"}]]
EventSchema ==
  [canonical_event |->
     [source_document_ids |-> {"source_document"}, primary_document_id |-> {"source_document"}],
   event_reliability_check |-> [event_id |-> {"canonical_event"}],
   market_reaction_check |-> [event_id |-> {"canonical_event"}]]
EdgeSchema ==
  [event_edge_evaluation |->
     [input_event_ids |-> {"canonical_event"},
      input_reaction_check_ids |-> {"market_reaction_check"},
      input_candle_ids |-> {"market_candle"}],
   feature_snapshot |->
     [source_document_ids |-> {"source_document"}, event_ids |-> {"canonical_event"}]]
Tables ==
  {ForecastSchema, SummarySchema, DecisionSchema, DatasetSchema, BacktestSchema, WalkForwardSchema,
   CardSchema, TrialSchema, SplitSchema, EvaluationSchema, EntrySchema, AgendaSchema, DigestSchema,
   DocumentSchema, EventSchema, EdgeSchema}
Kinds == UNION {DOMAIN table : table \in Tables}
Schema == [kind \in Kinds |-> (CHOOSE table \in Tables : kind \in DOMAIN table)[kind]]

-----------------------------------------------------------------------------
(* The references that the health check follows (health.py, a block each)  *)

ForecastLinks ==
  {<<"forecast_score", "forecast_id">>, <<"review", "score_ids">>, <<"proposal", "review_id">>,
   <<"proposal", "score_ids">>, <<"baseline_evaluation", "forecast_ids">>,
   <<"baseline_evaluation", "score_ids">>}
DecisionLinks ==
  {"strategy_decision"} \X {"forecast_ids", "score_ids", "review_ids", "baseline_ids"}
DecisionBasisLinks == {"strategy_decision"} \X {"backtest_result", "walk_forward", "event_edge"}
DigestLinks ==
  {"strategy_research_digest"} \X
    {"strategy_card_id", "lineage_root_card_id", "paper_shadow_outcome_id", "autopilot_run_id",
     "decision_id", "artifact_ids"}
SummaryLinks ==
  {"evaluation_summary"} \X
    {"forecast_ids", "scored_forecast_ids", "score_ids", "review_ids", "proposal_ids"}
DatasetLinks ==
  {"research_dataset"} \X {"forecast_ids", "score_ids", "row_forecast_ids", "row_score_ids"}
DocumentLinks ==
  {<<"source_ingestion_run", "document_ids">>, <<"source_document", "source_id">>}
EventLinks ==
  {<<"canonical_event", "source_document_ids">>, <<"canonical_event", "primary_document_id">>,
   <<"event_reliability_check", "event_id">>, <<"market_reaction_check", "event_id">>}
EdgeLinks ==
  ({"event_edge_evaluation"} \X {"input_event_ids", "input_reaction_check_ids", "input_candle_ids"})
  \cup ({"feature_snapshot"} \X {"source_document_ids", "event_ids"})
BacktestLinks ==
  {<<"backtest_result", "backtest_id">>, <<"backtest_run", "candle_ids">>,
   <<"walk_forward_validation", "backtest_result_ids">>,
   <<"walk_forward_validation", "window_backtest_result_ids">>}
CardLinks ==
  {"strategy_card"} \X
    {"parent_card_id", "feature_snapshot_ids", "backtest_result_ids",
     "walk_forward_validation_ids", "event_edge_evaluation_ids"}
TrialLinks ==
  {<<"experiment_budget", "strategy_card_id">>}
  \cup ({"experiment_trial"} \X
          {"strategy_card_id", "dataset_id", "backtest_result_id", "walk_forward_validation_id",
           "event_edge_evaluation_id"})
  \cup ({"split_manifest"} \X {"strategy_card_id", "dataset_id"})
EvaluationLinks ==
  {"locked_evaluation_result"} \X
    {"strategy_card_id", "trial_id", "split_manifest_id", "cost_model_id", "baseline_id",
     "backtest_result_id", "walk_forward_validation_id", "event_edge_evaluation_id"}
EntryLinks == {"leaderboard_entry"} \X {"strategy_card_id", "evaluation_id", "trial_id"}
\* Mutant: an outcome's entry is looked up, and nothing said when it is not there.
MutOutcomeLinks == {"paper_shadow_outcome"} \X {"evaluation_id", "strategy_card_id", "trial_id"}
OutcomeLinks ==
  {"paper_shadow_outcome"} \X
    {"leaderboard_entry_id", "evaluation_id", "strategy_card_id", "trial_id"}
AgendaLinks == {<<"research_agenda", "strategy_card_ids">>}
AutopilotLinks ==
  {"research_autopilot_run"} \X
    {"agenda_id", "strategy_card_id", "experiment_trial_id", "locked_evaluation_id",
     "leaderboard_entry_id", "strategy_decision_id", "paper_shadow_outcome_id"}
Links ==
  ForecastLinks \cup DecisionLinks \cup DecisionBasisLinks \cup DigestLinks \cup SummaryLinks
  \cup DatasetLinks \cup DocumentLinks \cup EventLinks \cup EdgeLinks \cup BacktestLinks
  \cup CardLinks \cup TrialLinks \cup EvaluationLinks \cup EntryLinks \cup OutcomeLinks
  \cup AgendaLinks \cup AutopilotLinks

Ids(rows) == {r.id : r \in rows}
Dangling(r, ids) ==
  {<<r.kind, field>> : field \in
     {f \in DOMAIN r.refs : <<r.kind, f>> \in Links /\ ~(r.refs[f] \subseteq ids)}}
Missing(rows) == UNION {UNION {Dangling(r, ids) : r \in rows} : ids \in {Ids(rows)}}

(* Rows that must agree: what a row names itself, and what a row it names   *)
(* names.                                                                   *)

Agreement(kind, via, own, theirs) == [kind |-> kind, via |-> via, own |-> own, theirs |-> theirs]
OutcomeAgreements ==
  {Agreement("paper_shadow_outcome", "leaderboard_entry_id", field, field) :
     field \in {"evaluation_id", "strategy_card_id", "trial_id"}}
  \cup {Agreement("paper_shadow_outcome", "evaluation_id", field, field) :
          field \in {"strategy_card_id", "trial_id"}}
AutopilotAgreements ==
  {Agreement("research_autopilot_run", via, "strategy_card_id", "strategy_card_id") :
     via \in {"experiment_trial_id", "locked_evaluation_id", "leaderboard_entry_id",
              "paper_shadow_outcome_id"}}
  \cup {Agreement("research_autopilot_run", via, "experiment_trial_id", "trial_id") :
          via \in {"locked_evaluation_id", "leaderboard_entry_id", "paper_shadow_outcome_id"}}
  \cup {Agreement("research_autopilot_run", via, "locked_evaluation_id", "evaluation_id") :
          via \in {"leaderboard_entry_id", "paper_shadow_outcome_id"}}
  \cup {Agreement("research_autopilot_run", "paper_shadow_outcome_id", "leaderboard_entry_id",
                  "leaderboard_entry_id")}
Disagree(rows, a) ==
  \E r \in rows, q \in rows :
    r.kind = a.kind /\ q.id \in r.refs[a.via] /\ ~(r.refs[a.own] \subseteq q.refs[a.theirs])
Mismatched(rows) ==
  {<<a.kind, a.via, a.own>> : a \in {b \in OutcomeAgreements \cup AutopilotAgreements : Disagree(rows, b)}}

\* A run's agenda names its card; an agenda of a lineage may name the root that the
\* card, a replacement, is drafted for.
InAgenda(rows, card, agenda) ==
  \/ card \in agenda.refs.strategy_card_ids
  \/ agenda.lineage /\ \E c \in rows : c.id = card /\ c.root \cap agenda.refs.strategy_card_ids # {}
OutsideAgenda(rows, r) ==
  r.kind = "research_autopilot_run" /\
  \E a \in rows : a.id \in r.refs.agenda_id /\ \E card \in r.refs.strategy_card_id : ~InAgenda(rows, card, a)
Misplaced(rows) ==
  {<<r.kind, "agenda_id", "strategy_card_id">> : r \in {x \in rows : OutsideAgenda(rows, x)}}

\* What speaks against the decision that a run stands for: not tradeable, an action
\* that fails closed, a reason that blocks.
Refused(rows) ==
  {<<"research_autopilot_run", refusal>> : refusal \in
     UNION {q.refusals : q \in {d \in rows : \E r \in rows :
              r.kind = "research_autopilot_run" /\ d.id \in r.refs.strategy_decision_id}}}

FindingsOf(rows) == Missing(rows) \cup Mismatched(rows) \cup Misplaced(rows) \cup Refused(rows)
=============================================================================
