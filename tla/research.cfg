SPECIFICATION Spec
CONSTANTS
  None = None
  RootLevels = {0}
  Levels = {1, 2}
  Breaches = {}
  Windows = {1, 2}
  Winning = {1}
  Edges = {TRUE}
  Cadence = 2
  Gaps = {12}
  MaxTrials = 2
  MaxBaselines = 2
  MaxIncidents = 1
  MaxDrafts = 2
  MaxDraftTime = 4
INVARIANTS NoDangling ReviewOnOwnEvidence AnsweredOnce
PROPERTIES ExecutorDoesWhatItSays TasksStayDone ChainAdvances
CHECK_DEADLOCK FALSE
