SPECIFICATION Spec
CONSTANTS
  Place <- NetPlace
  Transition <- NetTransition
  Pre <- NetPre
  Post <- NetPost
  InitialMarking <- NetInitial
  Markings <- TokenMarkings
  Hash <- NetHash
  SIZEOF_MARKINGTABLE = 7
  Formulas <- NetFormulas
  Weak <- NetWeak
INVARIANTS AnswersExact SearchInStep
PROPERTIES ChecksEnd
