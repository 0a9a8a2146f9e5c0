CONSTANTS
    Txs <- MCTxs
    Coinbases <- MCCoinbases
    Ins <- MCIns
    Value <- MCValue
    Final <- MCFinal
    Lock <- MCLock
    Sigops <- MCSigops
    Subsidy = 2
    Maturity = 1
    MaxSigops = 2
    Inputs <- MCInputs
    Genesis <- MCGenesis
    Workers = {p1, p2}
    Pool = {s1, s2}
    WorkSize = 1
    QueueLimit = 1
    a1 = a1  a2 = a2  a3 = a3  a4 = a4  a5 = a5
    b2 = b2  b3 = b3  b4 = b4  e4 = e4  e5 = e5
    c0 = c0  d0 = d0  c1 = c1  c2 = c2  c3 = c3  c4 = c4  c5 = c5
    Base = Base
SPECIFICATION MCSpec
INVARIANTS
    SerialOutcome
    StoreTakesBatches
    OverlayAccepts
    RebaseCountIsExact
    ViewIsUtxoSet
    LinearizationIsSound
    CompareIsExact
PROPERTY
    BatchEnds
