SPECIFICATION Spec
CONSTANTS
  MaxThreads = 2
  Vector <- Vectors
  Bucket <- Buckets
  Hash <- Parity
  MaxCalls = 2
INVARIANTS StoreInvariant CountExact
PROPERTIES IsAtomic
CHECK_DEADLOCK FALSE
