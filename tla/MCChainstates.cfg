CONSTANTS
    a1 = a1  a2 = a2  a3 = a3  a4 = a4
    b2 = b2  b3 = b3  x3 = x3
    c0 = c0  d0 = d0  c1 = c1  c2 = c2  c3 = c3  c4 = c4
    d1 = d1  None = None
    Base = Base
    Blocks <- MCBlocks
    Parent <- MCParent
    Coins <- MCCoins
    BaseCoins <- MCBaseCoins
    Spends <- MCSpends
    Creates <- MCCreates
    MaxBatchLen = 3
    MaxBatches = 1
    MaxCreated = 3
SPECIFICATION MCSpec
INVARIANTS
    EngineNeverRefuses
    ReadIsOneState
    ExecutesOnCurrentCoins
    StoreAccepts
    SpentAgesAreExact
    AssumedIsValidated
PROPERTIES
    FailedIsFrozen
    BuffersRefine
    StoreRefines
    FlushEnds
    AssumedIsFinalized
