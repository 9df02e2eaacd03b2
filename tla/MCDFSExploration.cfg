SPECIFICATION Spec
CONSTANTS
  Place <- PhilPlace
  Transition <- PhilTransition
  Pre <- PhilPre
  Post <- PhilPost
  InitialMarking <- PhilInitial
  Markings <- PhilMarkings
  getFirelist <- AllEnabledFirelist
  Property <- Properties
  Satisfies <- PhilSatisfies
INVARIANTS StackIsPath ClosedBehind
PROPERTIES DFSKeepsContract
