SPECIFICATION PropertySpec
CONSTANTS
  Place <- NetPlace
  Transition <- NetTransition
  Pre <- NetPre
  Post <- NetPost
  InitialMarking <- NetInitial
  Markings <- NetMarkings
  Hash <- NetHash
  SIZEOF_MARKINGTABLE = 7
  MaxDepth = 4
  Formulas <- NetFormulas
  ProgressMeasure <- NetProgress
INVARIANTS StateInStep PredicateExact GoalsKept DeadlocksKept DeletionKeeps
