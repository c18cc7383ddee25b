CONSTANTS
  None = None
  Requests <- MCRequests
  Answers <- MCAnswers
  Caps = {1, 2, 3}
  MaxRange = 6
  MaxConcurrency = 2
  MaxAttempts = 2
  MaxAutoLimit = 2
  Worst = 9
SPECIFICATION FairSpec
INVARIANTS
  TypeOK
  EverySearchRepresented
  ReasonsAreTrue
  CoverageIsTold
PROPERTIES
  SampleIsEven
  RunEnds
