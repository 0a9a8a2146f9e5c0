CONSTANTS
    g = g a1 = a1 a2 = a2 a3 = a3 b1 = b1 b2 = b2 d2 = d2 x1 = x1
    Headers <- MCHeaders
    Genesis = g
    Path <- MCPath
    Time <- MCTime
    Bits <- MCBits
    Version <- MCVersion
    HasPow <- MCHasPow
    WorkOf <- MCWorkOf
    Retarget <- MCRetarget
    PowLimit = 1
    MinVersion <- MCMinVersion
    Checkpoint <- MCCheckpoint
    Params <- MCParams
    MedianSpan = 3
    Interval = 2
    MaxFuture = 2
    MaxTimewarp = 1
    Offsets = {0, 1}
    MaxClock = 2
    MaxResponse = 2
    MaxPending = 1
    MaxEvictions = 2
SPECIFICATION FairSpec
INVARIANTS
    ActiveIsBest
    ReplayFailsOnTimeOnly
    StoreMatchesDag
    ServedIsDurable
PROPERTY Reopens
