------------------------ MODULE WriteBackRefinement ------------------------
(***************************************************************************)
(* The write-back layer implements Chainstate for every block tree: seen    *)
(* through the layered reads, its buffers, its commit thread, its failures  *)
(* and its crashes are a chainstate that accepts whole batches and loses    *)
(* only a suffix of them.                                                   *)
(***************************************************************************)
EXTENDS WriteBackProofs

\* A commit that has yet to land stands between the engine and the buffer.
Pending == commit \in {"running", "error"}

\* Short sequences.
LEMMA Tuples ==
    ASSUME NEW a, NEW b, NEW c, NEW d
    PROVE  /\ Append(<<a>>, b) = <<a, b>> /\ Append(<<a, b>>, c) = <<a, b, c>>
           /\ [<<a, b>> EXCEPT ![2] = c] = <<a, c>> /\ [<<a, b, c>> EXCEPT ![3] = d] = <<a, b, d>>
           /\ Tail(<<a, b>>) = <<b>> /\ Tail(<<a, b, c>>) = <<b, c>>
           /\ Len(<<a, b>>) = 2 /\ Len(<<a, b, c>>) = 3
<1>1. Append(<<a>>, b) = <<a, b>>
  <2>1. <<a>> \in Seq({a, b}) /\ b \in {a, b} /\ <<a, b>> \in Seq({a, b})
    OBVIOUS
  <2>2. Append(<<a>>, b) \in Seq({a, b}) /\ Len(Append(<<a>>, b)) = 2
    BY <2>1, AppendProperties
  <2>3. \A i \in 1 .. 2 : Append(<<a>>, b)[i] = <<a, b>>[i]
    BY <2>1, AppendProperties
  <2> QED
    BY <2>1, <2>2, <2>3, SeqEqual
<1>2. Append(<<a, b>>, c) = <<a, b, c>>
  <2>1. <<a, b>> \in Seq({a, b, c}) /\ c \in {a, b, c} /\ <<a, b, c>> \in Seq({a, b, c})
    OBVIOUS
  <2>2. Append(<<a, b>>, c) \in Seq({a, b, c}) /\ Len(Append(<<a, b>>, c)) = 3
    BY <2>1, AppendProperties
  <2>3. \A i \in 1 .. 3 : Append(<<a, b>>, c)[i] = <<a, b, c>>[i]
    BY <2>1, AppendProperties
  <2> QED
    BY <2>1, <2>2, <2>3, SeqEqual
<1>3. [<<a, b>> EXCEPT ![2] = c] = <<a, c>> /\ [<<a, b, c>> EXCEPT ![3] = d] = <<a, b, d>>
  OBVIOUS
<1>4. Tail(<<a, b>>) = <<b>> /\ Tail(<<a, b, c>>) = <<b, c>>
  OBVIOUS
<1> QED
  BY <1>1, <1>2, <1>3, <1>4

\* The log by what is pending and what is buffered.
LEMMA LogIs ==
    ASSUME TypeOK
    PROVE  /\ Pending /\ pend.blocks # <<>> => Log = <<Durable, Queued, Newest>>
           /\ Pending /\ pend.blocks = <<>> => Log = <<Durable, Queued>>
           /\ ~ Pending /\ pend.blocks # <<>> => Log = <<Durable, Newest>>
           /\ ~ Pending /\ pend.blocks = <<>> => Log = <<Durable>>
  BY DEF TypeOK, Slots, Log, Pending

\* The view is the accepting buffer over the layers below, in the next state too.
LEMMA ViewOverLowerNext ==
    ASSUME TypeOK'
    PROVE  View' = (Lower' \ pend'.spent) \cup pend'.created
  BY DEF TypeOK, Buffers, View, BufferCoins, BufferUnknown, Lower

\* The same in the next state.
LEMMA LogIsNext ==
    ASSUME TypeOK'
    PROVE  /\ Pending' /\ pend'.blocks # <<>> => Log' = <<Durable', Queued', Newest'>>
           /\ Pending' /\ pend'.blocks = <<>> => Log' = <<Durable', Queued'>>
           /\ ~ Pending' /\ pend'.blocks # <<>> => Log' = <<Durable', Newest'>>
           /\ ~ Pending' /\ pend'.blocks = <<>> => Log' = <<Durable'>>
  BY DEF TypeOK, Slots, Log, Pending

\* The last state of the log is the reported one, the first the durable one.
LEMMA LogEnds ==
    ASSUME IInv
    PROVE  A!Reported = Newest /\ Log[1] = Durable
<1>1. pend.blocks = <<>> => Newest = Queued
  <2>1. pend.blocks = <<>> => pend = Empty
    BY DEF IInv, PendInv
  <2>2. pend = Empty => View = Lower /\ CurrentTip = LastOr(flight.blocks, eng.tip)
    BY EmptyIs, ViewOverLower DEF IInv, CurrentTip, LastOr
  <2> QED
    BY <2>1, <2>2 DEF Newest, Queued
<1>2. ~ Pending => Queued = Durable
  BY SettledLower DEF IInv, TypeOK, Slots, Pending, Queued, Durable
<1>3. \/ Log = <<Durable, Queued, Newest>>
      \/ Log = <<Durable, Newest>>
      \/ Log = <<Newest>> /\ Newest = Durable
  BY <1>1, <1>2, LogIs DEF IInv
<1>4. CASE Log = <<Durable, Queued, Newest>>
  BY <1>4 DEF A!Reported
<1>5. CASE Log = <<Durable, Newest>>
  BY <1>5 DEF A!Reported
<1>6. CASE Log = <<Newest>> /\ Newest = Durable
  BY <1>6 DEF A!Reported
<1> QED
  BY <1>3, <1>4, <1>5, <1>6

\* Steps that leave the layers alone are invisible.
LEMMA SameLog ==
    ASSUME TypeOK, TypeOK', pend' = pend, flight' = flight, commit' = commit,
           eng'.coins = eng.coins, eng'.tip = eng.tip
    PROVE  Log' = Log
<1>1. View' = View /\ CurrentTip' = CurrentTip /\ Lower' = Lower
  BY SameLayers
<1>2. Durable' = Durable /\ Queued' = Queued /\ Newest' = Newest
  BY <1>1 DEF Durable, Queued, Newest
<1> QED
  BY <1>2 DEF Log

\* Taking a commit that landed out of its slot is invisible.
LEMMA SettledLog ==
    ASSUME IInv, IInv', commit \in {"none", "landed"}, commit' = "none",
           eng' = eng, pend' = pend, flight' = Empty
    PROVE  Log' = Log
<1>1. Lower' = Lower /\ CurrentTip' = CurrentTip
  BY SettledStore
<1>2. View' = View
  BY <1>1, ViewOverLower, ViewOverLowerNext DEF IInv
<1>3. Durable' = Durable /\ Newest' = Newest
  BY <1>1, <1>2 DEF Durable, Newest
<1> QED
  BY <1>3 DEF Log

\* The coins left by a buffered batch are those its blocks leave.
LEMMA FoldedCoins ==
    ASSUME IInv, IInv', BufferBatch
    PROVE  View' = CoinsAfter(View, todo)
<1> DEFINE S == SpentBy(todo)
           C == CreatedBy(todo)
           X == Cancelled(todo)
<1>1. View = (Lower \ pend.spent) \cup pend.created
  BY ViewOverLower DEF IInv
<1>2. /\ pend'.spent = pend.spent \cup (S \ X)
      /\ pend'.created = (pend.created \cup C) \ X
  BY DEF BufferBatch, Folded
<1>3. Lower' = Lower
  BY DEF BufferBatch, Lower
<1>4. View' = (Lower \ pend'.spent) \cup pend'.created
  BY <1>3, ViewOverLowerNext DEF IInv
<1>5. X \subseteq S
  BY DEF Cancelled
<1>6. pend.created \cap S \subseteq X
  BY DEF Cancelled
<1>7. C \cap S \subseteq X
  <2> SUFFICES ASSUME NEW c \in C, c \in S PROVE c \in X
    OBVIOUS
  <2>1. PICK i \in DOMAIN todo : c \in Creates[todo[i]]
    BY DEF CreatedBy
  <2>2. PICK j \in DOMAIN todo : c \in Spends[todo[j]]
    BY DEF SpentBy
  <2>3. DOMAIN todo \subseteq Nat /\ \A n \in DOMAIN todo : n >= 1
    <3>1. todo \in Seq(Blocks)
      BY BatchIsSeq DEF IInv, ExecInv, BufferBatch
    <3> QED
      BY <3>1, LenProperties
  <2>4. i < j
    BY <2>1, <2>2, <2>3 DEF IInv, ExecInv, BufferBatch, TxidsUnique
  <2>5. c \in CreatedBefore(todo, j)
    BY <2>1, <2>3, <2>4 DEF CreatedBefore
  <2> QED
    BY <2>2, <2>5 DEF Cancelled
<1>8. X \subseteq pend.created \cup C
  <2> SUFFICES ASSUME NEW c \in X, c \notin pend.created PROVE c \in C
    OBVIOUS
  <2>1. PICK i \in DOMAIN todo : c \in CreatedBefore(todo, i)
    BY DEF Cancelled
  <2>2. PICK j \in 1 .. (i - 1) : c \in Creates[todo[j]]
    BY <2>1 DEF CreatedBefore
  <2>3. j \in DOMAIN todo
    <3>1. todo \in Seq(Blocks)
      BY BatchIsSeq DEF IInv, ExecInv, BufferBatch
    <3> QED
      BY <2>2, <3>1, LenProperties
  <2> QED
    BY <2>2, <2>3 DEF CreatedBy
<1>9. pend.created \cap (Lower \ pend.spent) = {} /\ C \cap View = {}
  BY DEF IInv, PendInv, ExecInv, BufferBatch
<1> HIDE DEF S, C, X
<1>10. View' = (View \cup C) \ S
  BY <1>1, <1>2, <1>4, <1>5, <1>6, <1>7, <1>8, <1>9
<1> QED
  BY <1>10 DEF CoinsAfter, S, C

\* A buffered batch is a Connect.
LEMMA BufferBatchRefines ==
    ASSUME IInv, IInv', BufferBatch
    PROVE  A!Next
<1>1. todo \in Batches /\ todo \in Seq(Blocks) /\ todo # <<>> /\ pend.blocks \in Seq(Blocks)
  BY BatchIsSeq DEF IInv, ExecInv, BufferBatch, TypeOK, Buffers
<1>2. A!Reported = Newest
  BY LogEnds
<1>3. Linked(Newest.tip, todo) /\ Valid(Newest.coins, todo)
  BY DEF IInv, ExecInv, ExecutesOnCurrentCoins, BufferBatch, Newest, Valid
<1>4. pend'.blocks # <<>> /\ CurrentTip' = LastOr(todo, Base)
  <2>1. pend'.blocks = pend.blocks \o todo /\ pend'.blocks # <<>>
    BY FoldedIs DEF BufferBatch, Folded
  <2>2. LastOr(pend'.blocks, Base) = LastOr(todo, Base)
    BY <1>1, <2>1, LastOrConcat DEF LastOr
  <2> QED
    BY <2>1, <2>2 DEF CurrentTip, LastOr
<1>5. Newest' = A!Extended(todo)
  BY <1>2, <1>4, FoldedCoins
     DEF A!Extended, A!State, A!LastOr, A!CoinsAfter, A!CreatedBy, A!SpentBy, Newest, LastOr,
         CoinsAfter, CreatedBy, SpentBy
<1>6. Durable' = Durable /\ Queued' = Queued /\ (Pending' <=> Pending)
  BY DEF BufferBatch, Durable, Queued, Lower, Pending
<1>7. \/ Log' = Append(Log, Newest')
      \/ Len(Log) > 1 /\ Log' = [Log EXCEPT ![Len(Log)] = Newest']
  <2>1. Pending => Log' = <<Durable, Queued, Newest'>>
    BY <1>4, <1>6, LogIsNext DEF IInv
  <2>2. ~ Pending => Log' = <<Durable, Newest'>>
    BY <1>4, <1>6, LogIsNext DEF IInv
  <2>3. CASE Pending /\ pend.blocks # <<>>
    <3>1. Log = <<Durable, Queued, Newest>>
      BY <2>3, LogIs DEF IInv
    <3> QED
      BY <2>1, <2>3, <3>1, Tuples
  <2>4. CASE Pending /\ pend.blocks = <<>>
    <3>1. Log = <<Durable, Queued>>
      BY <2>4, LogIs DEF IInv
    <3> QED
      BY <2>1, <2>4, <3>1, Tuples
  <2>5. CASE ~ Pending /\ pend.blocks # <<>>
    <3>1. Log = <<Durable, Newest>>
      BY <2>5, LogIs DEF IInv
    <3> QED
      BY <2>2, <2>5, <3>1, Tuples
  <2>6. CASE ~ Pending /\ pend.blocks = <<>>
    <3>1. Log = <<Durable>>
      BY <2>6, LogIs DEF IInv
    <3> QED
      BY <2>2, <2>6, <3>1, Tuples
  <2> QED
    BY <2>3, <2>4, <2>5, <2>6
<1>8. A!Connect(todo)
  BY <1>2, <1>3, <1>5, <1>7
     DEF A!Connect, A!Linked, A!Valid, A!ExternalInputs, A!CreatedBefore, Linked, Valid,
         ExternalInputs, CreatedBefore
<1> QED
  BY <1>1, <1>8 DEF A!Next, A!Batches, Batches
\* A commit that lands is a Harden.
LEMMA CommitLandsRefines ==
    ASSUME IInv, IInv', CommitLands
    PROVE  A!Next
<1>1. /\ eng'.coins = Lower /\ eng'.tip = LastOr(flight.blocks, eng.tip)
      /\ pend' = pend /\ flight' = flight
  BY DEF CommitLands, Lower
<1>2. Lower' = Lower
  BY <1>1 DEF Lower
<1>3. LastOr(flight'.blocks, eng'.tip) = LastOr(flight.blocks, eng.tip)
  BY <1>1 DEF LastOr
<1>4. View' = View /\ CurrentTip' = CurrentTip
  BY <1>1, <1>2, <1>3, ViewOverLower, ViewOverLowerNext DEF IInv, CurrentTip
<1>5. Durable' = Queued /\ Newest' = Newest
  BY <1>1, <1>4 DEF Durable, Queued, Newest
<1>6. Pending /\ ~ Pending'
  BY DEF CommitLands, Pending
<1>7. CASE pend.blocks # <<>>
  <2>1. Log = <<Durable, Queued, Newest>> /\ Log' = <<Queued, Newest>>
    BY <1>1, <1>5, <1>6, <1>7, LogIs, LogIsNext DEF IInv
  <2>2. Log' = Tail(Log) /\ Len(Log) = 3
    BY <2>1, Tuples
  <2> QED
    BY <2>2 DEF A!Next, A!Harden
<1>8. CASE pend.blocks = <<>>
  <2>1. Log = <<Durable, Queued>> /\ Log' = <<Queued>>
    BY <1>1, <1>5, <1>6, <1>8, LogIs, LogIsNext DEF IInv
  <2>2. Log' = Tail(Log) /\ Len(Log) = 2
    BY <2>1, Tuples
  <2> QED
    BY <2>2 DEF A!Next, A!Harden
<1> QED
  BY <1>7, <1>8

\* The accepting buffer becoming the buffer in flight is invisible.
LEMMA StartFlushRefines ==
    ASSUME IInv, IInv', StartFlush
    PROVE  Log' = Log
<1>1. CASE pend.blocks = <<>>
  BY <1>1, SettledLog DEF StartFlush
<1>2. CASE pend.blocks # <<>>
  <2>1. /\ eng' = eng /\ flight' = pend /\ pend' = Empty /\ commit' = "running"
        /\ commit \in {"none", "landed"}
    BY <1>2 DEF StartFlush
  <2>2. Lower = eng.coins /\ LastOr(flight.blocks, eng.tip) = eng.tip
    BY <2>1, SettledLower DEF IInv
  <2>3. View = (eng.coins \ pend.spent) \cup pend.created
    BY <2>2, ViewOverLower DEF IInv
  <2>4. Queued' = Newest /\ Durable' = Durable
    BY <2>1, <2>2, <2>3 DEF Queued, Newest, Durable, Lower, CurrentTip
  <2>5. ~ Pending /\ Pending' /\ pend'.blocks = <<>>
    BY <2>1, EmptyIs DEF Pending
  <2> QED
    BY <1>2, <2>4, <2>5, LogIs, LogIsNext DEF IInv
<1> QED
  BY <1>1, <1>2

\* A disconnected tip is a Disconnect.
LEMMA CommitDisconnectRefines ==
    ASSUME IInv, IInv', CommitDisconnect
    PROVE  A!Next
<1>1. pend = Empty /\ CurrentTip # Base
  BY DEF IInv, DriverInv, CommitDisconnect
<1>2. ~ Pending /\ ~ Pending' /\ pend.blocks = <<>> /\ pend'.blocks = <<>>
  BY <1>1, EmptyIs DEF CommitDisconnect, Pending
<1>3. Log = <<Durable>> /\ Log' = <<Durable'>>
  BY <1>2, LogIs, LogIsNext DEF IInv
<1>4. eng.tip = CurrentTip
  BY <1>1, SettledLower, EmptyIs DEF IInv, CommitDisconnect, CurrentTip, LastOr
<1>5. A!Reported = Durable
  BY <1>3 DEF A!Reported
<1>6. Durable' = [tip   |-> Parent[eng.tip],
                  coins |-> (eng.coins \ Creates[eng.tip]) \cup Spends[eng.tip]]
  BY DEF CommitDisconnect, Durable
<1> QED
  BY <1>1, <1>3, <1>4, <1>5, <1>6
     DEF A!Next, A!Disconnect, A!State, A!CoinsBefore, Durable

\* A rebase, which changes neither the tip nor the coins, is invisible.
LEMMA RebaseRefines ==
    ASSUME IInv, IInv', Rebase
    PROVE  Log' = Log
<1>1. pend = Empty
  BY DEF IInv, DriverInv, Rebase
<1>2. ~ Pending /\ ~ Pending' /\ pend.blocks = <<>> /\ pend'.blocks = <<>>
  BY <1>1, EmptyIs DEF Rebase, Pending
<1>3. Log = <<Durable>> /\ Log' = <<Durable'>>
  BY <1>2, LogIs, LogIsNext DEF IInv
<1>4. Durable' = Durable
  BY DEF Rebase, Durable, IInv, TypeOK
<1> QED
  BY <1>3, <1>4

\* Opening the engine again, after a crash or not, is a Crash.
LEMMA ReopenRefines ==
    ASSUME IInv, IInv', Reopen \/ Crash
    PROVE  A!Next
<1>1. ~ Pending' /\ pend'.blocks = <<>> /\ Durable' = Durable
  BY EmptyIs DEF Reopen, Crash, Pending, Durable
<1>2. Log' = <<Durable>>
  BY <1>1, LogIsNext DEF IInv
<1> QED
  BY <1>2, LogEnds DEF A!Next, A!Crash

\* A failed commit is as pending as a running one.
LEMMA CommitErrsRefines ==
    ASSUME IInv, IInv', CommitErrs
    PROVE  Log' = Log
<1>1. View' = View /\ CurrentTip' = CurrentTip /\ Lower' = Lower
  BY SameLayers DEF CommitErrs
<1>2. Durable' = Durable /\ Queued' = Queued /\ Newest' = Newest /\ pend' = pend
  BY <1>1 DEF CommitErrs, Durable, Queued, Newest
<1>3. Pending /\ Pending'
  BY DEF CommitErrs, Pending
<1> QED
  BY <1>2, <1>3, LogIs, LogIsNext DEF IInv

\* settle is invisible.
LEMMA SettleRefines ==
    ASSUME IInv, IInv', Settle, UNCHANGED <<eng, pend>>
    PROVE  Log' = Log
<1>1. CASE commit = "landed"
  BY <1>1, SettledLog DEF Settle, Settled
<1>2. CASE commit = "error"
  BY <1>2, SameLog DEF Settle, Settled, IInv
<1> QED
  BY <1>1, <1>2 DEF Settle

\* Every step is a step of Chainstate or invisible to it.
LEMMA StepRefines == IInv /\ IInv' /\ [Next]_vars => [A!Next]_Log
<1> SUFFICES ASSUME IInv, IInv', [Next]_vars PROVE A!Next \/ Log' = Log
  OBVIOUS
<1>1. CASE \/ BeginBatch \/ RejectBatch \/ RefuseBatch \/ Taper \/ BeginDisconnect
           \/ RefuseDisconnect \/ BeginRebase \/ BeginFinish \/ ReadBuffers \/ ReadEngine
           \/ UNCHANGED vars
  BY <1>1, SameLog
     DEF IInv, store, vars, BeginBatch, RejectBatch, RefuseBatch, Taper, BeginDisconnect,
         RefuseDisconnect, BeginRebase, BeginFinish, ReadBuffers, ReadEngine
<1>2. CASE EndBatch
  <2>1. eng'.coins = eng.coins /\ eng'.tip = eng.tip
    BY <1>2 DEF EndBatch, IInv, TypeOK
  <2> QED
    BY <1>2, <2>1, SameLog DEF EndBatch, IInv, store
<1>3. CASE Harvest \/ FlushWaitFails
  BY <1>3, SettleRefines DEF Harvest, FlushWaitFails
<1>4. CASE StartFlushFails \/ CompactFails
  <2>1. CASE UNCHANGED store
    BY <1>4, <2>1, SameLog DEF StartFlushFails, CompactFails, IInv, store
  <2>2. CASE Settle /\ UNCHANGED pend
    BY <1>4, <2>2, SettleRefines DEF StartFlushFails, CompactFails
  <2> QED
    BY <1>4, <2>1, <2>2 DEF StartFlushFails, CompactFails
<1>5. CASE SpawnFails \/ Compact \/ Finish
  BY <1>5, SettledLog DEF SpawnFails, Compact, Finish
<1> QED
  BY <1>1, <1>2, <1>3, <1>4, <1>5, BufferBatchRefines, CommitLandsRefines, StartFlushRefines,
     CommitDisconnectRefines, RebaseRefines, ReopenRefines, CommitErrsRefines
     DEF Next, Driver, Reader, Flusher

\* RefinesChainstate: WriteBackChainstate keeps the contract of ExecutionChainStore.
THEOREM WriteBackRefinesChainstate == Spec => RefinesChainstate
<1>1. Init => A!Init
  <2> SUFFICES ASSUME Init PROVE A!Init
    OBVIOUS
  <2>1. Log = <<Durable>>
    BY EmptyIs DEF Init, Log
  <2> QED
    BY <2>1 DEF Init, Durable, A!Init, A!State
<1>2. IInv /\ IInv' /\ [Next]_vars => [A!Next]_Log
  BY StepRefines
<1> QED
  BY <1>1, <1>2, WriteBackInvariant, PTL DEF Spec, RefinesChainstate, A!Spec
=============================================================================
