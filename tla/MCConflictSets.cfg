SPECIFICATION Spec
CONSTANTS
  Place <- TwoPlaces
  Transition <- ThreeTransitions
INVARIANTS ConflictsExact StackInOrder
PROPERTIES WalkEnds
