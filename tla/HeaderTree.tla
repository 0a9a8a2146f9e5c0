------------------------------ MODULE HeaderTree ------------------------------
(***************************************************************************)
(* The headers a peer can offer, and the contextual rules of                *)
(* HeaderDag::insert_contextual and HeaderDag::insert (src/src/headers.rs)  *)
(* that depend on a header and its ancestors only.  A hash commits to the   *)
(* previous hash, so a header is given together with its path from genesis. *)
(***************************************************************************)
EXTENDS Naturals, Sequences

CONSTANTS
    Headers,        \* headers other than the genesis header
    Genesis,
    Path,           \* the path of every header from genesis, itself included
    Time, Bits, Version,
    HasPow,         \* headers whose hash satisfies their target
    WorkOf,         \* Target::to_work
    Retarget,       \* CompactTarget::from_next_work_required: bits, elapsed -> bits
    PowLimit,       \* max_attainable_target, as bits
    MinVersion,     \* DeploymentConfig::minimum_block_version by height
    Checkpoint,     \* checkpoint_hash: some heights to headers
    Params,         \* testnet4, retargeting, minDifficulty, spacing
    MedianSpan,     \* 11
    Interval,       \* difficulty_adjustment_interval
    MaxFuture,      \* MAX_FUTURE_BLOCK_TIME_SECS
    MaxTimewarp     \* MAX_TIMEWARP_SECS

Known == Headers \cup {Genesis}

Height(h) == Len(Path[h]) - 1
Prev(h) == Path[h][Len(Path[h]) - 1]

ASSUME HeaderAssumption ==
    /\ Genesis \notin Headers
    /\ Path \in [Known -> Seq(Known)]
    /\ Path[Genesis] = <<Genesis>>
    /\ \A h \in Headers : Len(Path[h]) > 1
    /\ \A h \in Known : \A i \in 1 .. Len(Path[h]) :
        Path[Path[h][i]] = SubSeq(Path[h], 1, i)
    /\ Bits \in [Known -> DOMAIN WorkOf]
    /\ \A b \in DOMAIN WorkOf : WorkOf[b] \in Nat

-----------------------------------------------------------------------------

Above(a, b) == IF a > b THEN a - b ELSE 0    \* saturating_sub

\* The element in the middle of the sorted times (times[times.len() / 2]).
Median(times) ==
    LET below(t) == {i \in DOMAIN times : times[i] < t}
        upTo(t) == {i \in DOMAIN times : times[i] <= t}
        Size(S) == Len(SelectSeq([i \in DOMAIN times |-> i], LAMBDA i : i \in S))
    IN  CHOOSE t \in {times[i] : i \in DOMAIN times} :
            Size(below(t)) <= Len(times) \div 2 /\ Len(times) \div 2 < Size(upTo(t))

MedianTimePast(h) ==
    LET p == Path[h]
        from == Above(Len(p), MedianSpan) + 1
    IN  Median([i \in 1 .. (Len(p) - from + 1) |-> Time[p[from + i - 1]]])

ExpectedNextBits(h) ==
    LET p == Prev(h)
        boundary == Path[h][Height(h) - Interval + 1]
        \* past blocks mined at the minimum difficulty, back to the boundary at most
        cursor == CHOOSE i \in 1 .. Len(Path[p]) :
            LET real(j) == (j - 1) % Interval = 0 \/ Bits[Path[p][j]] # PowLimit
            IN  real(i) /\ \A j \in i + 1 .. Len(Path[p]) : ~ real(j)
    IN  IF Height(h) % Interval = 0
        THEN Retarget[IF Params.testnet4 THEN Bits[boundary] ELSE Bits[p],
                      Above(Time[p], Time[boundary])]
        ELSE IF ~ Params.retargeting \/ ~ Params.minDifficulty THEN Bits[p]
        ELSE IF Time[h] > Time[p] + 2 * Params.spacing THEN PowLimit
        ELSE Bits[Path[p][cursor]]

ValidateBip94Time(h) ==
    Params.testnet4 /\ Height(h) % Interval = 0
        => Time[h] >= Above(Time[Prev(h)], MaxTimewarp)

\* last_known_checkpoint_height: no known checkpoint is above the header.
NotBelowCheckpoint(h, known) ==
    \A n \in DOMAIN Checkpoint : Checkpoint[n] \in known => n <= Height(h)

\* What insert_contextual requires of a header, and then insert: anything else is an
\* error.  `adjusted' is the network-adjusted time.
Accepts(h, known, adjusted) ==
    /\ h \notin known
    /\ Prev(h) \in known
    /\ NotBelowCheckpoint(h, known)
    /\ Version[h] >= MinVersion[Height(h)]
    /\ Time[h] > MedianTimePast(Prev(h))
    /\ ValidateBip94Time(h)
    /\ Time[h] <= adjusted + MaxFuture
    /\ Bits[h] = ExpectedNextBits(h)
    /\ Height(h) \in DOMAIN Checkpoint => Checkpoint[Height(h)] = h
    /\ h \in HasPow
=============================================================================
