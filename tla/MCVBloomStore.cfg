SPECIFICATION Spec
CONSTANTS
  Thread <- Threads
  Vector <- Vectors
  hash_functions = 3
  Bit <- Bits4
  cur_hash <- TableHash
  Nobody = Nobody
INVARIANTS FilterInvariant
PROPERTIES IsAtomic
