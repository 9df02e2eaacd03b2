SPECIFICATION Spec
CONSTANTS
  Place <- HubPlace
  Transition <- HubTransition
  Pre <- HubPre
  Post <- HubPost
  InitialMarking <- HubInitial
  Markings <- HubMarkings
  number_of_threads = 2
  getFirelist <- AllEnabledFirelist
  Property <- Late
  Satisfies <- HubSatisfies
INVARIANTS WitnessPathComplete
