CONSTANTS
  Txs = {t1, t2, t3}
  Amount = 3
  Parts = {1, 2}
  Ops = {"release", "partial", "refund", "dispute", "award", "close", "raise", "lower"}
  MaxOpen = 3
SPECIFICATION Spec
SYMMETRY Symmetry
INVARIANTS
  OnlyStaleReadsLoseCount
PROPERTY
  ContractUnlessStale
