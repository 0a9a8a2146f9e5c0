-------------------------- MODULE WriteBackProofs --------------------------
(***************************************************************************)
(* What holds of the write-back layer for every block tree, batch length    *)
(* and limit: its buffers always fit the engine below them, whatever its    *)
(* threads do between the steps of one another.                             *)
(***************************************************************************)
EXTENDS WriteBack, BlockTreeProofs

\* The buffer in flight against the engine: a commit that is still to land will be
\* accepted, one that landed is in the engine, and an empty slot holds no buffer.
FlightInv ==
    /\ commit = "none" => flight = Empty
    /\ commit \in {"running", "error"} =>
        /\ flight.blocks # <<>>
        /\ EngineAccepts
    /\ commit = "landed" =>
        /\ eng.tip = LastOr(flight.blocks, eng.tip)
        /\ flight.created \subseteq eng.coins
        /\ eng.coins \cap flight.spent \subseteq flight.created

\* The accepting buffer against what the engine will hold when the buffer in flight
\* has landed.
PendInv ==
    /\ pend.blocks = <<>> => pend = Empty
    /\ Linked(LastOr(flight.blocks, eng.tip), pend.blocks)
    /\ pend.spent \subseteq Lower
    /\ pend.created \cap (Lower \ pend.spent) = {}

\* A read caught between its two steps knows what every buffer holds of its keys.
ReaderInv ==
    rdr.pc = "engine" =>
        /\ pc \in {"exec", "stopped"}
        /\ rdr.unknown \subseteq BufferUnknown
        /\ ReadIsOneState

\* The batch under execution was read from this view, which lacks what it creates.
ExecInv ==
    pc = "exec" =>
        /\ todo \in Batches
        /\ Linked(CurrentTip, todo)
        /\ TxidsUnique(todo)
        /\ CreatedBy(todo) \cap View = {}
        /\ ExecutesOnCurrentCoins

\* What the driver's place in its loop says about the buffers.
DriverInv ==
    /\ pc \in {"wait", "folding", "last", "done"} => pend = Empty
    /\ pc = "done" => commit = "none"
    /\ pc \in {"flush", "wait"} => CurrentTip # Base
    /\ failed => commit = "error" /\ pc \in {"idle", "exec", "stopped", "taper", "flush",
                                              "fold", "final"}
    /\ pc \notin {"start", "stopped"} => pend.batches < 2 * MaxBatches
    /\ LagIsBounded

\* The inductive invariant.
IInv == TypeOK /\ FlightInv /\ PendInv /\ ReaderInv /\ ExecInv /\ DriverInv
-----------------------------------------------------------------------------
(* The layers. *)

\* The view is the accepting buffer applied to the layers below it.
LEMMA ViewOverLower ==
    ASSUME TypeOK
    PROVE  View = (Lower \ pend.spent) \cup pend.created
  BY DEF TypeOK, Buffers, View, BufferCoins, BufferUnknown, Lower

\* Once a commit has landed, the layers below the accepting buffer are the engine.
LEMMA SettledLower ==
    ASSUME FlightInv, commit \in {"none", "landed"}
    PROVE  Lower = eng.coins /\ LastOr(flight.blocks, eng.tip) = eng.tip
<1>1. CASE commit = "none"
  BY <1>1 DEF FlightInv, Lower, Empty, LastOr
<1>2. CASE commit = "landed"
  BY <1>2 DEF FlightInv, Lower
<1> QED
  BY <1>1, <1>2

\* What is read and what may be appended depends on these four alone.
LEMMA SameLayers ==
    ASSUME pend' = pend, flight' = flight,
           eng'.coins = eng.coins, eng'.tip = eng.tip
    PROVE  /\ View' = View /\ CurrentTip' = CurrentTip /\ Lower' = Lower
           /\ BufferUnknown' = BufferUnknown /\ BufferCoins' = BufferCoins
           /\ EngineAccepts => EngineAccepts'
  BY DEF View, CurrentTip, Lower, BufferUnknown, BufferCoins, EngineAccepts

-----------------------------------------------------------------------------
(* Preservation. *)

\* The record of an empty buffer.
LEMMA EmptyIs ==
    /\ Empty \in Buffers /\ Empty.blocks = <<>> /\ Empty.created = {} /\ Empty.spent = {}
    /\ Empty.batches = 0
  BY EmptySeq DEF Empty, Buffers

\* A store just opened over its engine satisfies the invariant.
LEMMA InitIInv == Init => IInv
<1> SUFFICES ASSUME Init PROVE IInv
  OBVIOUS
<1> USE TreeAssumption, LimitsAssumption DEF Init
<1>1. TypeOK
  BY EmptyIs DEF TypeOK, Slots, Steps, NoRead, NoAhead
<1>2. FlightInv
  BY DEF FlightInv
<1>3. PendInv
  BY EmptyIs DEF PendInv, Linked
<1>4. ReaderInv /\ ExecInv
  BY DEF ReaderInv, ExecInv, NoRead
<1>5. DriverInv
  BY EmptyIs DEF DriverInv, LagIsBounded
<1> QED
  BY <1>1, <1>2, <1>3, <1>4, <1>5 DEF IInv

\* Steps of the driver that move no data.
LEMMA MoveIInv ==
    ASSUME IInv, UNCHANGED <<eng, store, driver, reader>>,
           pc' # "exec", pc' # "done", pc' \notin {"wait", "folding", "last"}, pc' \in Steps,
           rdr.pc = "engine" => pc' = "stopped",
           pc' = "flush" => CurrentTip # Base,
           failed => pc' \in {"idle", "stopped", "taper", "flush", "fold", "final"},
           pc' \notin {"start", "stopped"} => pend.batches < 2 * MaxBatches
    PROVE  IInv'
<1> USE DEF IInv, store, driver, reader
<1>1. TypeOK'
  BY DEF TypeOK
<1>2. FlightInv' /\ PendInv'
  BY DEF FlightInv, PendInv, EngineAccepts, Lower
<1>3. ReaderInv' /\ ExecInv'
  BY SameLayers DEF ReaderInv, ReadIsOneState, ExecInv
<1>4. DriverInv'
  BY SameLayers DEF DriverInv, LagIsBounded
<1> QED
  BY <1>1, <1>2, <1>3, <1>4

\* Steps after which nothing is buffered, nothing in flight and nobody reads.
LEMMA ClearedIInv ==
    ASSUME IInv, pend' = Empty, flight' = Empty, commit' = "none", failed' = FALSE,
           rdr'.pc = "idle", pc' \in {"idle", "done", "stopped"}, TypeOK'
    PROVE  IInv'
<1>1. FlightInv'
  BY DEF FlightInv
<1>2. PendInv'
  BY EmptyIs DEF PendInv, Linked
<1>3. ReaderInv' /\ ExecInv'
  BY DEF ReaderInv, ExecInv
<1>4. DriverInv'
  BY EmptyIs, LimitsAssumption DEF DriverInv, LagIsBounded
<1> QED
  BY <1>1, <1>2, <1>3, <1>4 DEF IInv

\* The reader's two steps.
LEMMA ReadBuffersIInv == IInv /\ ReadBuffers => IInv'
<1> SUFFICES ASSUME IInv, ReadBuffers PROVE IInv'
  OBVIOUS
<1> USE DEF IInv, ReadBuffers, store, driver
<1>1. PICK s \in Batches :
        rdr' = [pc |-> "engine", keys |-> ExternalInputs(s),
                found |-> ExternalInputs(s) \cap BufferCoins,
                unknown |-> ExternalInputs(s) \cap BufferUnknown]
  OBVIOUS
<1>2. ExternalInputs(s) \subseteq Coins /\ BufferCoins \subseteq Coins
  BY BatchCoins DEF TypeOK, Buffers, BufferCoins
<1>3. TypeOK'
  BY <1>1, <1>2 DEF TypeOK, BufferUnknown
<1>4. FlightInv' /\ PendInv'
  BY DEF FlightInv, PendInv, EngineAccepts, Lower
<1>5. ReaderInv'
  <2>1. (ExternalInputs(s) \cap BufferCoins)
           \cup ((ExternalInputs(s) \cap BufferUnknown) \cap eng.coins)
        = ExternalInputs(s) \cap View
    BY DEF View
  <2> QED
    BY <1>1, <2>1, SameLayers DEF ReaderInv, ReadIsOneState
<1>6. ExecInv' /\ DriverInv'
  BY SameLayers DEF ExecInv, ExecutesOnCurrentCoins, DriverInv, LagIsBounded
<1> QED
  BY <1>3, <1>4, <1>5, <1>6

\* The second step of get_many ends the read.
LEMMA ReadEngineIInv == IInv /\ ReadEngine => IInv'
<1> SUFFICES ASSUME IInv, ReadEngine PROVE IInv'
  OBVIOUS
<1> USE DEF IInv, ReadEngine, store, driver
<1>1. TypeOK'
  BY DEF TypeOK, NoRead
<1>2. FlightInv' /\ PendInv'
  BY DEF FlightInv, PendInv, EngineAccepts, Lower
<1>3. ReaderInv'
  BY DEF ReaderInv, NoRead
<1>4. ExecInv' /\ DriverInv'
  BY SameLayers DEF ExecInv, ExecutesOnCurrentCoins, DriverInv, LagIsBounded
<1> QED
  BY <1>1, <1>2, <1>3, <1>4

\* A batch is executed on what the view holds of its inputs, read ahead or not.
LEMMA BeginBatchIInv == IInv /\ BeginBatch => IInv'
<1> SUFFICES ASSUME IInv, BeginBatch PROVE IInv'
  OBVIOUS
<1> USE DEF IInv, BeginBatch, store
<1>1. PICK s \in Batches :
        /\ Linked(CurrentTip, s) /\ TxidsUnique(s) /\ CreatedBy(s) \cap View = {}
        /\ todo' = s /\ prevouts' = PrefetchFor(s)
  OBVIOUS
<1>2. PrefetchFor(s) = ExternalInputs(s) \cap View
  BY DEF PrefetchFor, Refreshed, TypeOK
<1>3. TypeOK'
  BY <1>1, <1>2, BatchCoins DEF TypeOK, NoAhead, Steps
<1>4. FlightInv' /\ PendInv'
  BY DEF FlightInv, PendInv, EngineAccepts, Lower
<1>5. ReaderInv'
  BY DEF ReaderInv
<1>6. ExecInv'
  BY <1>1, <1>2, SameLayers DEF ExecInv, ExecutesOnCurrentCoins
<1>7. DriverInv'
  BY SameLayers DEF DriverInv, LagIsBounded
<1> QED
  BY <1>3, <1>4, <1>5, <1>6, <1>7

\* A buffered batch leaves the accepting buffer one the engine will take.
LEMMA FoldedIs ==
    ASSUME IInv, pc = "exec", Valid(prevouts, todo), Acceptable(todo)
    PROVE  /\ Folded(todo) \in Buffers
           /\ Folded(todo).blocks # <<>>
           /\ Linked(LastOr(flight.blocks, eng.tip), Folded(todo).blocks)
           /\ Folded(todo).spent \subseteq Lower
           /\ Folded(todo).created \cap (Lower \ Folded(todo).spent) = {}
           /\ Folded(todo).batches = pend.batches + 1
<1> USE DEF IInv
<1>1. /\ todo \in Seq(Blocks) /\ todo # <<>>
      /\ SpentBy(todo) \subseteq Coins /\ CreatedBy(todo) \subseteq Coins
  BY BatchIsSeq, BatchCoins DEF ExecInv
<1>2. pend.blocks \in Seq(Blocks) /\ pend.created \subseteq Coins /\ pend.spent \subseteq Coins
      /\ pend.batches \in Nat
  BY DEF TypeOK, Buffers
<1>3. Folded(todo) \in Buffers /\ Folded(todo).batches = pend.batches + 1
  BY <1>1, <1>2, ConcatProperties DEF Folded, Buffers
<1>4. pend.blocks \o todo # <<>>
  BY <1>1, <1>2, ConcatProperties, EmptySeq, LenProperties
<1>5. Linked(LastOr(flight.blocks, eng.tip), pend.blocks \o todo)
  BY <1>1, <1>2, LinkedConcat DEF PendInv, ExecInv, CurrentTip
<1>6. View = (Lower \ pend.spent) \cup pend.created
  BY ViewOverLower
<1>7. SpentBy(todo) \ Cancelled(todo) \subseteq Lower \ pend.spent
  <2> SUFFICES ASSUME NEW c \in SpentBy(todo), c \notin Cancelled(todo)
               PROVE  c \in Lower \ pend.spent
    OBVIOUS
  <2>1. c \notin pend.created
    BY DEF Cancelled
  <2>2. PICK i \in DOMAIN todo : c \in Spends[todo[i]]
    BY DEF SpentBy
  <2>3. c \notin CreatedBefore(todo, i)
    BY <2>2 DEF Cancelled
  <2>4. c \in ExternalInputs(todo)
    BY <1>1, <2>2, <2>3 DEF ExternalInputs
  <2>5. c \in View
    BY <2>4 DEF Valid, ExecInv, ExecutesOnCurrentCoins
  <2> QED
    BY <1>6, <2>1, <2>5
<1>8. CreatedBy(todo) \cap (Lower \ pend.spent) = {}
  BY <1>6 DEF ExecInv
<1>9. /\ Folded(todo).spent = pend.spent \cup (SpentBy(todo) \ Cancelled(todo))
      /\ Folded(todo).created = (pend.created \cup CreatedBy(todo)) \ Cancelled(todo)
      /\ Folded(todo).blocks = pend.blocks \o todo
  BY DEF Folded
<1> QED
  BY <1>3, <1>4, <1>5, <1>7, <1>8, <1>9 DEF PendInv

\* buffer preserves the invariant: the buffer may be due, never overdue.
LEMMA BufferBatchIInv == IInv /\ BufferBatch => IInv'
<1> SUFFICES ASSUME IInv, BufferBatch PROVE IInv'
  OBVIOUS
<1> USE LimitsAssumption DEF IInv, BufferBatch, driver, reader
<1> DEFINE p == Folded(todo)
<1>1. /\ p \in Buffers /\ p.blocks # <<>>
      /\ Linked(LastOr(flight.blocks, eng.tip), p.blocks)
      /\ p.spent \subseteq Lower /\ p.created \cap (Lower \ p.spent) = {}
      /\ p.batches = pend.batches + 1 /\ pend.batches \in Nat
  BY FoldedIs DEF TypeOK, Buffers
<1>2. pend' = p
  OBVIOUS
<1>3. pc' = "start" \/ (pc' = "join" /\ p.batches < 2 * MaxBatches)
  <2>1. CASE FlushDue(p)
    BY <1>2, <2>1
  <2>2. CASE ~ FlushDue(p)
    BY <1>1, <1>2, <2>2 DEF FlushDue
  <2> QED
    BY <2>1, <2>2
<1> HIDE DEF p
<1>4. TypeOK'
  BY <1>1, <1>2, <1>3 DEF TypeOK, Steps
<1>5. FlightInv'
  BY DEF FlightInv, EngineAccepts
<1>6. PendInv'
  BY <1>1, <1>2 DEF PendInv, Lower
<1>7. ReaderInv' /\ ExecInv'
  BY <1>3 DEF ReaderInv, ExecInv, WriteLockFree
<1>8. DriverInv'
  BY <1>1, <1>2, <1>3 DEF DriverInv, LagIsBounded
<1> QED
  BY <1>4, <1>5, <1>6, <1>7, <1>8

\* Pruning undo rows touches neither coins nor tip.
LEMMA EndBatchIInv == IInv /\ EndBatch => IInv'
<1> SUFFICES ASSUME IInv, EndBatch PROVE IInv'
  OBVIOUS
<1> USE DEF IInv, EndBatch, store, reader
<1>1. PICK gone \in Prunable : eng' = [eng EXCEPT !.undo = @ \ gone]
  OBVIOUS
<1>2. eng'.coins = eng.coins /\ eng'.tip = eng.tip
      /\ eng' \in [tip : Blocks \cup {Base}, coins : SUBSET Coins, undo : SUBSET Blocks]
  BY <1>1 DEF TypeOK
<1>3. TypeOK'
  BY <1>2 DEF TypeOK, Steps
<1>4. FlightInv' /\ PendInv'
  BY <1>2, SameLayers DEF FlightInv, PendInv
<1>5. ReaderInv' /\ ExecInv'
  BY DEF ReaderInv, ExecInv
<1>6. DriverInv'
  BY DEF DriverInv, LagIsBounded
<1> QED
  BY <1>3, <1>4, <1>5, <1>6

\* A commit that landed, or none, leaves the slot without a trace in the view.
LEMMA SettledStore ==
    ASSUME IInv, commit \in {"none", "landed"}, eng' = eng, pend' = pend, flight' = Empty
    PROVE  /\ Lower' = Lower
           /\ LastOr(flight'.blocks, eng'.tip) = LastOr(flight.blocks, eng.tip)
           /\ CurrentTip' = CurrentTip
<1>1. Lower = eng.coins /\ LastOr(flight.blocks, eng.tip) = eng.tip
  BY SettledLower DEF IInv
<1>2. Lower' = eng.coins /\ LastOr(flight'.blocks, eng'.tip) = eng.tip
  BY EmptyIs DEF Lower, LastOr
<1> QED
  BY <1>1, <1>2 DEF CurrentTip

\* settle takes a commit that landed out of its slot and remembers one that failed.
LEMMA SettleIInv ==
    ASSUME IInv, Settle, UNCHANGED <<eng, pend, driver, reader>>,
           pc' \in {pc, "stopped"},
           pc' \notin {"exec", "wait", "folding", "last", "done", "join", "start"}
    PROVE  IInv'
<1> USE DEF IInv, Settle, driver, reader
<1>1. CASE commit = "landed"
  <2>1. commit' = "none" /\ flight' = Empty /\ failed' = failed
    BY <1>1 DEF Settled, TypeOK
  <2>2. TypeOK'
    BY <2>1, EmptyIs DEF TypeOK, Slots, Steps
  <2>3. FlightInv' /\ PendInv'
    BY <1>1, <2>1, SettledStore DEF FlightInv, PendInv
  <2>4. ReaderInv' /\ ExecInv'
    BY DEF ReaderInv, ExecInv, WriteLockFree
  <2>5. DriverInv'
    BY <1>1, <2>1, SettledStore, EmptyIs, LimitsAssumption DEF DriverInv, LagIsBounded
  <2> QED
    BY <2>2, <2>3, <2>4, <2>5
<1>2. CASE commit = "error"
  <2>1. commit' = "error" /\ flight' = flight /\ failed' = TRUE
    BY <1>2 DEF Settled
  <2>2. TypeOK'
    BY <2>1 DEF TypeOK, Slots, Steps
  <2>3. FlightInv' /\ PendInv'
    BY <1>2, <2>1 DEF FlightInv, PendInv, EngineAccepts, Lower
  <2>4. ReaderInv' /\ ExecInv'
    BY DEF ReaderInv, ExecInv, WriteLockFree
  <2>5. pc' \in {"idle", "exec", "stopped", "taper", "flush", "fold", "final"}
    BY DEF TypeOK, Steps
  <2>6. DriverInv'
    BY <2>1, <2>5, SameLayers DEF DriverInv, LagIsBounded
  <2> QED
    BY <2>2, <2>3, <2>4, <2>6
<1> QED
  BY <1>1, <1>2

\* The accepting buffer changes places with a slot that is free.
LEMMA StartFlushIInv == IInv /\ StartFlush => IInv'
<1> SUFFICES ASSUME IInv, StartFlush PROVE IInv'
  OBVIOUS
<1> USE LimitsAssumption DEF IInv, StartFlush, driver, reader
<1>1. Lower = eng.coins /\ LastOr(flight.blocks, eng.tip) = eng.tip
  BY SettledLower
<1>2. /\ pc \in {"start", "taper", "flush", "fold", "final"}
      /\ pc' \in {"join", "idle", "wait", "folding", "last"}
      /\ pc' = "wait" => pc = "flush"
  BY DEF AfterStart
<1>3. CASE pend.blocks = <<>>
  <2>1. commit' = "none" /\ flight' = Empty /\ pend' = pend /\ pend = Empty
    BY <1>3 DEF PendInv
  <2>2. TypeOK'
    BY <1>2, <2>1, EmptyIs DEF TypeOK, Slots, Steps
  <2>3. FlightInv' /\ PendInv'
    BY <2>1, SettledStore DEF FlightInv, PendInv
  <2>4. ReaderInv' /\ ExecInv'
    BY <1>2 DEF ReaderInv, ExecInv, WriteLockFree
  <2>5. DriverInv'
    BY <1>2, <2>1, SettledStore, EmptyIs DEF DriverInv, LagIsBounded
  <2> QED
    BY <2>2, <2>3, <2>4, <2>5
<1>4. CASE pend.blocks # <<>>
  <2>1. commit' = "running" /\ flight' = pend /\ pend' = Empty /\ eng' = eng
    BY <1>4
  <2>2. TypeOK'
    BY <1>2, <2>1, EmptyIs DEF TypeOK, Slots, Steps
  <2>3. FlightInv'
    BY <1>1, <1>4, <2>1 DEF FlightInv, PendInv, EngineAccepts
  <2>4. PendInv'
    BY <2>1, EmptyIs DEF PendInv, Linked
  <2>5. ReaderInv' /\ ExecInv'
    BY <1>2 DEF ReaderInv, ExecInv, WriteLockFree
  <2>6. CurrentTip' = CurrentTip
    BY <1>1, <1>4, <2>1, EmptyIs DEF CurrentTip, LastOr
  <2>7. DriverInv'
    BY <1>2, <2>1, <2>6, EmptyIs DEF DriverInv, LagIsBounded
  <2> QED
    BY <2>2, <2>3, <2>4, <2>5, <2>7
<1> QED
  BY <1>3, <1>4

\* A commit thread that cannot be spawned leaves the buffer as it was.
LEMMA SpawnFailsIInv == IInv /\ SpawnFails => IInv'
<1> SUFFICES ASSUME IInv, SpawnFails PROVE IInv'
  OBVIOUS
<1> USE LimitsAssumption DEF IInv, SpawnFails, driver, reader
<1>1. TypeOK'
  BY EmptyIs DEF TypeOK, Slots, Steps
<1>2. FlightInv' /\ PendInv'
  BY SettledStore DEF FlightInv, PendInv
<1>3. ReaderInv' /\ ExecInv'
  BY DEF ReaderInv, ExecInv, WriteLockFree
<1>4. DriverInv'
  BY EmptyIs DEF DriverInv, LagIsBounded
<1> QED
  BY <1>1, <1>2, <1>3, <1>4

\* start_flush refusing, or finding a failed commit, moves nothing.
LEMMA StartFlushFailsIInv == IInv /\ StartFlushFails => IInv'
<1> SUFFICES ASSUME IInv, StartFlushFails PROVE IInv'
  OBVIOUS
<1> USE DEF StartFlushFails
<1>1. CASE UNCHANGED store
  BY <1>1, MoveIInv DEF Steps
<1>2. CASE Settle /\ UNCHANGED pend
  BY <1>2, SettleIInv
<1> QED
  BY <1>1, <1>2

\* The wait at the end of flush found its commit in the engine: the tip goes.
LEMMA CommitDisconnectIInv == IInv /\ CommitDisconnect => IInv'
<1> SUFFICES ASSUME IInv, CommitDisconnect PROVE IInv'
  OBVIOUS
<1> USE DEF IInv, CommitDisconnect, driver, reader
<1>1. pend = Empty /\ failed = FALSE /\ rdr.pc = "idle" /\ CurrentTip # Base
  BY DEF DriverInv, ReaderInv, TypeOK
<1>2. eng.tip = CurrentTip
  BY <1>1, SettledLower, EmptyIs DEF CurrentTip, LastOr
<1>3. eng.tip \in Blocks
  BY <1>1, <1>2 DEF TypeOK
<1>4. eng' \in [tip : Blocks \cup {Base}, coins : SUBSET Coins, undo : SUBSET Blocks]
  BY <1>3, TreeAssumption DEF TypeOK
<1>5. TypeOK'
  BY <1>4, EmptyIs DEF TypeOK, Slots, Steps
<1> QED
  BY <1>1, <1>5, ClearedIInv

\* The wait at the end of the last flush leaves nothing behind.
LEMMA FinishIInv == IInv /\ Finish => IInv'
<1> SUFFICES ASSUME IInv, Finish PROVE IInv'
  OBVIOUS
<1> USE DEF IInv, Finish, driver, reader
<1>1. pend = Empty /\ failed = FALSE /\ rdr.pc = "idle"
  BY DEF DriverInv, ReaderInv, TypeOK
<1>2. TypeOK'
  BY EmptyIs DEF TypeOK, Slots, Steps
<1> QED
  BY <1>1, <1>2, ClearedIInv

\* The wait before a rebase leaves nothing behind, and the engine loses only undo rows.
LEMMA RebaseIInv == IInv /\ Rebase => IInv'
<1> SUFFICES ASSUME IInv, Rebase PROVE IInv'
  OBVIOUS
<1> USE DEF IInv, Rebase, driver, reader
<1>1. pend = Empty /\ failed = FALSE /\ rdr.pc = "idle"
  BY DEF DriverInv, ReaderInv, TypeOK
<1>2. eng' \in [tip : Blocks \cup {Base}, coins : SUBSET Coins, undo : SUBSET Blocks]
  BY DEF TypeOK
<1>3. TypeOK'
  BY <1>2, EmptyIs DEF TypeOK, Slots, Steps
<1> QED
  BY <1>1, <1>3, ClearedIInv

\* A compaction keeps the accepting buffer over the engine it fits.
LEMMA CompactIInv == IInv /\ Compact => IInv'
<1> SUFFICES ASSUME IInv, Compact PROVE IInv'
  OBVIOUS
<1> USE LimitsAssumption DEF IInv, Compact, driver, reader
<1>1. TypeOK'
  BY EmptyIs DEF TypeOK, Slots, Steps
<1>2. FlightInv' /\ PendInv'
  BY SettledStore DEF FlightInv, PendInv
<1>3. ReaderInv' /\ ExecInv'
  BY DEF ReaderInv, ExecInv
<1>4. DriverInv'
  BY EmptyIs DEF DriverInv, LagIsBounded
<1> QED
  BY <1>1, <1>2, <1>3, <1>4

\* inner_mut_settled refusing, or finding a failed commit, moves nothing.
LEMMA CompactFailsIInv == IInv /\ CompactFails => IInv'
<1> SUFFICES ASSUME IInv, CompactFails PROVE IInv'
  OBVIOUS
<1> USE DEF CompactFails
<1>1. CASE UNCHANGED store
  BY <1>1, MoveIInv DEF Steps
<1>2. CASE Settle /\ UNCHANGED pend
  BY <1>2, SettleIInv
<1> QED
  BY <1>1, <1>2

\* Opening the engine again starts from what is durable.
LEMMA ReopenIInv == IInv /\ (Reopen \/ Crash) => IInv'
<1> SUFFICES ASSUME IInv, Reopen \/ Crash PROVE IInv'
  OBVIOUS
<1>1. NoRead \in [pc : {"idle", "engine"}, keys : SUBSET Coins,
                   found : SUBSET Coins, unknown : SUBSET Coins]
      /\ NoRead.pc = "idle" /\ NoAhead \in [keys : SUBSET Coins, found : SUBSET Coins]
  BY DEF NoRead, NoAhead
<1>2. rdr' \in {rdr, NoRead} /\ rdr'.pc = "idle"
  BY <1>1 DEF Reopen, Crash
<1>3. TypeOK'
  BY <1>1, <1>2, EmptyIs DEF IInv, TypeOK, Reopen, Crash, Slots, Steps
<1> QED
  BY <1>2, <1>3, ClearedIInv DEF Reopen, Crash

\* A commit lands: the engine becomes what the layers below the accepting buffer
\* were, under a reader as well.
LEMMA CommitLandsIInv == IInv /\ CommitLands => IInv'
<1> SUFFICES ASSUME IInv, CommitLands PROVE IInv'
  OBVIOUS
<1> USE DEF IInv, CommitLands, driver, reader
<1>1. /\ eng'.coins = Lower /\ eng'.tip = LastOr(flight.blocks, eng.tip)
      /\ pend' = pend /\ flight' = flight /\ commit' = "landed"
  BY DEF Lower
<1>2. eng' \in [tip : Blocks \cup {Base}, coins : SUBSET Coins, undo : SUBSET Blocks]
  <2>1. flight.blocks \in Seq(Blocks) /\ eng.tip \in Tips
    BY DEF TypeOK, Buffers, Tips
  <2>2. SetOf(flight.blocks) \subseteq Blocks
    BY <2>1, ElementOfSeq, LenProperties DEF SetOf
  <2>3. LastOr(flight.blocks, eng.tip) \in Blocks \cup {Base}
    BY <2>1, LastOrType DEF Tips
  <2> QED
    BY <2>2, <2>3 DEF TypeOK, Buffers
<1>3. TypeOK'
  BY <1>2 DEF TypeOK, Slots
<1>4. LastOr(flight'.blocks, eng'.tip) = LastOr(flight.blocks, eng.tip)
  BY <1>1 DEF LastOr
<1>5. FlightInv'
  BY <1>1, <1>4 DEF FlightInv, Lower
<1>6. Lower' = Lower
  BY <1>1 DEF Lower
<1>7. View' = View /\ CurrentTip' = CurrentTip /\ BufferUnknown' = BufferUnknown
  BY <1>1, <1>3, <1>4, <1>6, ViewOverLower DEF View, BufferCoins, BufferUnknown, CurrentTip, Lower
<1>8. PendInv'
  BY <1>1, <1>4, <1>6 DEF PendInv
<1>9. ReaderInv'
  <2> SUFFICES ASSUME rdr.pc = "engine" PROVE ReadIsOneState'
    BY <1>7 DEF ReaderInv
  <2>1. rdr.unknown \cap (flight.created \cup flight.spent) = {}
    BY DEF ReaderInv, BufferUnknown
  <2>2. rdr.unknown \cap eng'.coins = rdr.unknown \cap eng.coins
    BY <1>1, <2>1 DEF Lower
  <2> QED
    BY <1>7, <2>2 DEF ReaderInv, ReadIsOneState
<1>10. ExecInv' /\ DriverInv'
  BY <1>1, <1>7 DEF ExecInv, ExecutesOnCurrentCoins, DriverInv, LagIsBounded
<1> QED
  BY <1>3, <1>5, <1>8, <1>9, <1>10

\* A commit that failed is still readable in its slot.
LEMMA CommitErrsIInv == IInv /\ CommitErrs => IInv'
<1> SUFFICES ASSUME IInv, CommitErrs PROVE IInv'
  OBVIOUS
<1> USE DEF IInv, CommitErrs, driver, reader
<1>1. TypeOK'
  BY DEF TypeOK, Slots
<1>2. FlightInv' /\ PendInv'
  BY DEF FlightInv, PendInv, EngineAccepts, Lower
<1>3. ReaderInv' /\ ExecInv'
  BY SameLayers DEF ReaderInv, ReadIsOneState, ExecInv, ExecutesOnCurrentCoins
<1>4. DriverInv'
  BY SameLayers DEF DriverInv, LagIsBounded
<1> QED
  BY <1>1, <1>2, <1>3, <1>4

\* Every step preserves the inductive invariant.
LEMMA NextIInv == IInv /\ [Next]_vars => IInv'
<1> SUFFICES ASSUME IInv, [Next]_vars PROVE IInv'
  OBVIOUS
<1>1. CASE RejectBatch \/ RefuseBatch \/ RefuseDisconnect
  BY <1>1, MoveIInv DEF RejectBatch, RefuseBatch, RefuseDisconnect, Steps
<1>2. CASE Taper \/ BeginDisconnect \/ BeginRebase \/ BeginFinish
  BY <1>2, MoveIInv
     DEF Taper, BeginDisconnect, BeginRebase, BeginFinish, Steps, IInv, ReaderInv, DriverInv, TypeOK
<1>3. CASE Harvest \/ FlushWaitFails
  BY <1>3, SettleIInv DEF Harvest, FlushWaitFails
<1>4. CASE UNCHANGED vars
  <2>1. TypeOK' /\ FlightInv' /\ PendInv'
    BY <1>4 DEF vars, IInv, TypeOK, FlightInv, PendInv, EngineAccepts, Lower
  <2>2. ReaderInv' /\ ExecInv' /\ DriverInv'
    BY <1>4, SameLayers
       DEF vars, IInv, ReaderInv, ReadIsOneState, ExecInv, ExecutesOnCurrentCoins, DriverInv,
           LagIsBounded
  <2> QED
    BY <2>1, <2>2 DEF IInv
<1> QED
  BY <1>1, <1>2, <1>3, <1>4, ReadBuffersIInv, ReadEngineIInv, BeginBatchIInv, BufferBatchIInv,
     EndBatchIInv, StartFlushIInv, StartFlushFailsIInv, SpawnFailsIInv, CommitDisconnectIInv,
     RebaseIInv, CompactIInv, CompactFailsIInv, FinishIInv, ReopenIInv, CommitLandsIInv,
     CommitErrsIInv
     DEF Next, Driver, Reader, Flusher

-----------------------------------------------------------------------------
(* Theorems. *)

\* The state always satisfies the inductive invariant.
THEOREM WriteBackInvariant == Spec => []IInv
<1>1. IInv /\ [Next]_vars => IInv'
  BY NextIInv
<1> QED
  BY InitIInv, <1>1, PTL DEF Spec

\* TypeOK: type correctness of WriteBackChainstate and of the threads around it.
THEOREM TypeCorrect == Spec => []TypeOK
  BY WriteBackInvariant, PTL DEF IInv

\* EngineNeverRefuses: the background commit started by start_flush never meets an
\* engine that refuses what was buffered.
THEOREM CommitsAreAccepted == Spec => []EngineNeverRefuses
<1>1. IInv => EngineNeverRefuses
  BY DEF IInv, FlightInv, EngineNeverRefuses
<1> QED
  BY <1>1, WriteBackInvariant, PTL

\* ReadIsOneState: a get_many overtaken by a landing commit answers from one state.
THEOREM ReadsAreConsistent == Spec => []ReadIsOneState
<1>1. IInv => ReadIsOneState
  BY DEF IInv, ReaderInv, ReadIsOneState
<1> QED
  BY <1>1, WriteBackInvariant, PTL

\* ExecutesOnCurrentCoins: reconcile_prefetch brings what was read ahead up to date.
THEOREM ExecutionIsCurrent == Spec => []ExecutesOnCurrentCoins
<1>1. IInv => ExecutesOnCurrentCoins
  BY DEF IInv, ExecInv, ExecutesOnCurrentCoins
<1> QED
  BY <1>1, WriteBackInvariant, PTL

\* LagIsBounded: buffer waits for a commit rather than outgrow twice max_batches.
THEOREM LagStaysBounded == Spec => []LagIsBounded
<1>1. IInv => LagIsBounded
  BY DEF IInv, DriverInv
<1> QED
  BY <1>1, WriteBackInvariant, PTL

\* DurableWhenReported: flush_pending returns when the engine is at the tip.
THEOREM ReportsAreDurable == Spec => []DurableWhenReported
<1>1. IInv => DurableWhenReported
  <2> SUFFICES ASSUME IInv, pc = "done" PROVE eng.tip = CurrentTip /\ eng.coins = View
    BY DEF DurableWhenReported
  <2>1. pend = Empty /\ commit = "none"
    BY DEF IInv, DriverInv
  <2>2. Lower = eng.coins /\ LastOr(flight.blocks, eng.tip) = eng.tip
    BY <2>1, SettledLower DEF IInv
  <2>3. CurrentTip = eng.tip
    BY <2>1, <2>2, EmptyIs DEF CurrentTip, LastOr
  <2>4. View = eng.coins
    BY <2>1, <2>2, EmptyIs, ViewOverLower DEF IInv
  <2> QED
    BY <2>3, <2>4
<1> QED
  BY <1>1, WriteBackInvariant, PTL

\* FailedIsFrozen: check_failed stands before everything that could change the
\* buffers or the engine.
THEOREM FailureFreezes == Spec => FailedIsFrozen
<1>1. IInv /\ [Next]_vars => [failed /\ failed' => UNCHANGED <<eng, pend, flight>>]_vars
  <2> SUFFICES ASSUME IInv, Next, failed, failed' PROVE UNCHANGED <<eng, pend, flight>>
    OBVIOUS
  <2>1. commit = "error" /\ pc \in {"idle", "exec", "stopped", "taper", "flush",
                                              "fold", "final"}
    BY DEF IInv, DriverInv
  <2> USE <2>1 DEF store, driver, reader
  <2>2. CASE Driver
    BY <2>2
       DEF Driver, BeginBatch, RejectBatch, BufferBatch, RefuseBatch, EndBatch, Harvest, Taper,
           StartFlush, StartFlushFails, SpawnFails, Settle, Settled, BeginDisconnect,
           RefuseDisconnect, FlushWaitFails, CommitDisconnect, BeginRebase, Rebase, Compact,
           CompactFails, BeginFinish, Finish, Reopen
  <2>3. CASE Reader \/ Flusher \/ Crash
    BY <2>3 DEF Reader, ReadBuffers, ReadEngine, Flusher, CommitLands, CommitErrs, Crash
  <2> QED
    BY <2>2, <2>3 DEF Next
<1> QED
  BY <1>1, WriteBackInvariant, PTL DEF Spec, FailedIsFrozen
=============================================================================
