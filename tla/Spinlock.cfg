CONSTANTS
  Cores = {c1, c2, c3}
  NoCore = NoCore
SPECIFICATION FairSpec
INVARIANTS
  MutualExclusion
PROPERTIES
  ImplementsAbstractLock
  SpinMakesProgress
  TrylockReturns
