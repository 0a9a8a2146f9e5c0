SPECIFICATION MCSpec
CONSTANTS
    a1 = a1 a2 = a2 a3 = a3 a4 = a4 a5 = a5
    b2 = b2 b3 = b3 b4 = b4 b5 = b5 b6 = b6
    c4 = c4 c5 = c5 c6 = c6
    x = x y = y v = v w = w
    Branches <- MCBranches
    MaxBatch = 2
    Retention = 4
    MinRetained = 2
    Indexes <- MCIndexes
    Choices <- MCChoices
    WriteBack = FALSE
INVARIANTS
    OverlayBatchIsNew
    NodeStoresAgree
    NodeRecovers
    ReindexRecovers
    NoBlockIsLost
    BaseIsOnDisk
    RecoveredIsRight
PROPERTIES
    RefinesBlockStore
    NodeCatchesUp
    ReindexFinishes
