SPECIFICATION FairSpec
CONSTANTS
  Place <- HubPlace
  Transition <- HubTransition
  Pre <- HubPre
  Post <- HubPost
  InitialMarking <- HubInitial
  Markings <- HubMarkings
  number_of_threads = 3
  getFirelist <- AllEnabledFirelist
  Property <- Properties
  Satisfies <- HubSatisfies
INVARIANTS SearchInvariant SuspensionLedger StackReplays NothingLost CompleteMeansIdle FiringIsLegal
PROPERTIES WokenWithWork KeepsContract
