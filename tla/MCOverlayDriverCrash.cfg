SPECIFICATION Spec
CONSTANTS
    a1 = a1 a2 = a2 a3 = a3 a4 = a4
    b2 = b2 b3 = b3 b4 = b4 b5 = b5
    Branches <- MCOneBranch
    MaxBatch = 2
    Retention = 3
    MinRetained = 3
    Indexes = {}
    WriteBack = FALSE
INVARIANT CommitIsAccepted
