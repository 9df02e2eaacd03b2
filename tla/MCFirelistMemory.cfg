SPECIFICATION Spec
CONSTANTS
  t1 = t1
  t2 = t2
  t3 = t3
  c1 = c1
  c2 = c2
  c3 = c3
  c4 = c4
  c5 = c5
  Null = Null
  Free = Free
  Global = Global
  Thread <- Threads
  Cell <- Cells
  Firelist = {"a", "b"}
  SIZEOF_STACKCHUNK = 2
  MaxDepth = 3
SYMMETRY Addresses
INVARIANTS TypeOK OwnedOnce NothingLeaks
PROPERTIES KeepsSequences
