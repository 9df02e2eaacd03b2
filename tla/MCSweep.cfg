SPECIFICATION Spec
CONSTANTS
  store_size = 5
  front_offset = 1
  FrontNumbers = {1, 2, 3}
  Place <- SweepPlace
  Transition <- SweepTransition
  Pre <- SweepPre
  Post <- SweepPost
  InitialMarking <- SweepInitial
  Markings <- SweepMarkings
  ProgressMeasure <- SweepMeasure
  Progress <- MarkingValue
  getFirelist <- SweepFirelist
  Arguments <- SweepArguments
INVARIANTS FrontsInvariant MarkingsAtTheirProgress FrontsApart ExtendsAlone HelpersInsideFirst
PROPERTIES KeepsContract Terminates
