SPECIFICATION PropertySpec
CONSTANTS
  Place <- NetPlace
  Transition <- NetTransition
  Pre <- NetPre
  Post <- NetPost
  InitialMarking <- NetInitial
  Markings <- NetMarkings
  Hash <- NetHash
  SIZEOF_MARKINGTABLE = 7
  MaxDepth = 4
  Formulas <- ConjunctionFormulas
  ProgressMeasure <- NetProgress
INVARIANT DeletionAnswers
