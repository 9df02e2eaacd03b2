SPECIFICATION Spec
CONSTANTS
  Place <- NetPlace
  Transition <- NetTransition
  Pre <- NetPre
  Post <- NetPost
  InitialMarking <- NetInitial
  Markings <- NetMarkings
  Hash <- NetHash
  SIZEOF_MARKINGTABLE = 5
  Attempts <- NetAttempts
  maxdepth = 4
  Goals <- NetGoals
  Leftovers <- Tables
  MaxTries = 3
INVARIANTS PathFires AnswerHonest
