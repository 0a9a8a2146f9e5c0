------------------------------ MODULE WriteBack ------------------------------
(***************************************************************************)
(* The write-back layer over an overlay chainstate                         *)
(* (src/src/write_back_chainstate.rs) together with the three threads that  *)
(* touch it: the catch-up driver, the replay read-ahead of the next batch   *)
(* and the background commit thread.                                       *)
(*                                                                         *)
(* Blocks are accepted into an in-memory buffer, `pend'; a full buffer is   *)
(* moved to `flight' and a background thread commits it to the engine in    *)
(* one transaction.  Reads consult pend, then flight, then the engine.      *)
(*                                                                         *)
(* A coin is its outpoint: a transaction id commits to the output it names. *)
(* Block undo records are represented by the block they belong to.          *)
(***************************************************************************)
EXTENDS BlockTree, FiniteSets

CONSTANTS
    MaxBatches,    \* WriteBackLimits::max_batches
    MaxCreated     \* WriteBackLimits::max_created

ASSUME LimitsAssumption ==
    /\ MaxBatches \in Nat \ {0}
    /\ MaxCreated \in Nat \ {0}

VARIABLES
    eng,       \* the engine's durable state: tip, coins, blocks with an undo row
    pend,      \* the accepting buffer: blocks, coins created, coins spent, batches
    flight,    \* the buffer being committed, still readable
    commit,    \* the in-flight slot: "none", or the state of its thread
    failed,    \* a background commit failed: mutation is refused
    pc,        \* where the driver thread is
    todo,      \* the batch the driver is executing
    prevouts,  \* the external inputs of todo the driver found unspent
    rdr,       \* the read-ahead thread
    ahead      \* the coins the last read-ahead returned

vars == <<eng, pend, flight, commit, failed, pc, todo, prevouts, rdr, ahead>>

store == <<pend, flight, commit, failed>>
driver == <<todo, prevouts>>
reader == <<rdr, ahead>>

Empty == [blocks |-> <<>>, created |-> {}, spent |-> {}, batches |-> 0]
NoRead == [pc |-> "idle", keys |-> {}, found |-> {}, unknown |-> {}]
NoAhead == [keys |-> {}, found |-> {}]

-----------------------------------------------------------------------------
(* The layered view. *)

\* lookup_buffers, over all coins at once: Coin, or Unknown.
BufferCoins ==
    pend.created \cup (flight.created \ pend.spent)
BufferUnknown ==
    Coins \ (pend.created \cup pend.spent \cup flight.created \cup flight.spent)

\* What get answers Some for: the coins the buffers hold and, for the keys no
\* buffer knows, the engine's.
View == BufferCoins \cup (eng.coins \cap BufferUnknown)

\* current_tip: accepting buffer, in-flight buffer, then the engine.
CurrentTip == LastOr(pend.blocks, LastOr(flight.blocks, eng.tip))

\* block_undo: found in either buffer or in the engine.
HasUndo(b) == b \in SetOf(pend.blocks) \cup SetOf(flight.blocks) \cup eng.undo

\* commit_in_progress: the slot is taken by a thread that has not finished.
CommitInProgress == commit = "running"

-----------------------------------------------------------------------------

Init ==
    /\ eng = [tip |-> Base, coins |-> BaseCoins, undo |-> {}]
    /\ pend = Empty
    /\ flight = Empty
    /\ commit = "none"
    /\ failed = FALSE
    /\ pc = "idle"
    /\ todo = <<>>
    /\ prevouts = {}
    /\ rdr = NoRead
    /\ ahead = NoAhead

-----------------------------------------------------------------------------
(* The read-ahead thread: get_many in two steps, under the pending lock. *)

\* While a batch executes, the replay reads the inputs of the batch after it.
\* The buffers are consulted first ...
ReadBuffers ==
    /\ pc = "exec"
    /\ rdr.pc = "idle"
    /\ \E s \in Batches :
        /\ Linked(LastOr(todo, Base), s)
        /\ rdr' = [pc |-> "engine",
                   keys |-> ExternalInputs(s),
                   found |-> ExternalInputs(s) \cap BufferCoins,
                   unknown |-> ExternalInputs(s) \cap BufferUnknown]
    /\ UNCHANGED <<eng, store, pc, driver, ahead>>

\* ... and the keys they do not know are read from the engine.
ReadEngine ==
    /\ rdr.pc = "engine"
    /\ ahead' = [keys |-> rdr.keys,
                 found |-> rdr.found \cup (rdr.unknown \cap eng.coins)]
    /\ rdr' = NoRead
    /\ UNCHANGED <<eng, store, pc, driver>>

\* Mutant of WriteLockFree: get_many releases the pending lock before it reads the
\* engine.
WriteLockAlwaysFree == TRUE

\* A reader between the two steps holds the pending lock for reading, so the
\* driver cannot take it for writing.
WriteLockFree == rdr.pc = "idle"

-----------------------------------------------------------------------------
(* The driver thread. *)

\* Mutant of Refreshed: what was read ahead is used as it is.
AsReadAhead(entries) == entries

\* reconcile_prefetch: coins read ahead are read again before they are used.
Refreshed(entries) == [entries EXCEPT !.found = entries.keys \cap View]

\* The coins a batch is executed on: the refreshed read-ahead when there is one
\* for this batch, a fresh read otherwise.
PrefetchFor(s) ==
    IF ahead.keys = ExternalInputs(s) /\ ahead # NoAhead
    THEN Refreshed(ahead).found
    ELSE ExternalInputs(s) \cap View

\* download_execute_batch takes the next blocks of the selected chain.
BeginBatch ==
    /\ pc = "idle"
    /\ \E s \in Batches :
        /\ Linked(CurrentTip, s)
        /\ TxidsUnique(s)
        /\ CreatedBy(s) \cap View = {}
        /\ todo' = s
        /\ prevouts' = PrefetchFor(s)
    /\ ahead' = NoAhead
    /\ pc' = "exec"
    /\ UNCHANGED <<eng, store, rdr>>

\* A batch that fails execution ends the run; nothing of it was buffered.
RejectBatch ==
    /\ pc = "exec"
    /\ ~ Valid(prevouts, todo)
    /\ pc' = "stopped"
    /\ UNCHANGED <<eng, store, driver, reader>>

\* The checks of buffer, made on the whole batch before it is touched.
Acceptable(s) ==
    /\ Linked(CurrentTip, s)
    /\ \A i, j \in DOMAIN s : i # j => Spends[s[i]] \cap Spends[s[j]] = {}
    /\ SpentBy(s) \cap (pend.spent \cup flight.spent) = {}
    /\ CreatedBy(s) \cap (pend.created \cup flight.created) = {}

\* Coins the batch both finds in the accepting buffer, or creates itself, and
\* spends: the engine never hears of them.
Cancelled(s) ==
    {c \in SpentBy(s) :
        \/ c \in pend.created
        \/ \E i \in DOMAIN s : c \in Spends[s[i]] \cap CreatedBefore(s, i)}

\* Mutant of Folded: coins cancelled in memory still go to the engine as spends.
FoldedWithoutCancelling(s) ==
    [blocks  |-> pend.blocks \o s,
     created |-> (pend.created \cup CreatedBy(s)) \ Cancelled(s),
     spent   |-> pend.spent \cup SpentBy(s),
     batches |-> pend.batches + 1]

Folded(s) ==
    [blocks  |-> pend.blocks \o s,
     created |-> (pend.created \cup CreatedBy(s)) \ Cancelled(s),
     spent   |-> pend.spent \cup (SpentBy(s) \ Cancelled(s)),
     batches |-> pend.batches + 1]

\* Whether buffer goes on to start_flush after accepting a batch.
FlushDue(p) ==
    LET full == Cardinality(p.created) >= MaxCreated
    IN  /\ p.batches >= MaxBatches \/ full
        /\ p.batches >= 2 * MaxBatches \/ full \/ ~ CommitInProgress

\* Mutant of BufferBatch: buffer does not call check_failed.
BufferBatchUnchecked ==
    /\ pc = "exec"
    /\ Valid(prevouts, todo)
    /\ WriteLockFree
    /\ Acceptable(todo)
    /\ pend' = Folded(todo)
    /\ pc' = IF FlushDue(pend') THEN "start" ELSE "join"
    /\ UNCHANGED <<eng, flight, commit, failed, driver, reader>>

\* buffer, up to the point where it releases the lock and calls start_flush.
BufferBatch ==
    /\ pc = "exec"
    /\ Valid(prevouts, todo)
    /\ WriteLockFree
    /\ ~ failed
    /\ Acceptable(todo)
    /\ pend' = Folded(todo)
    /\ pc' = IF FlushDue(pend') THEN "start" ELSE "join"
    /\ UNCHANGED <<eng, flight, commit, failed, driver, reader>>

\* buffer refuses the batch, or the store has failed: the run ends.
RefuseBatch ==
    /\ pc = "exec"
    /\ Valid(prevouts, todo)
    /\ WriteLockFree
    /\ failed \/ ~ Acceptable(todo)
    /\ pc' = "stopped"
    /\ UNCHANGED <<eng, store, driver, reader>>

\* Undo rows prune_block_undos_before may remove: those below a height of the
\* chain, none while a commit holds the engine's writer.
Prunable ==
    IF CommitInProgress THEN {{}}
    ELSE {gone \in SUBSET (eng.undo \ {eng.tip}) :
            \A b \in gone : Parent[b] \in eng.undo => Parent[b] \in gone}

\* The scope that executed the batch joins the read-ahead thread; then undo rows
\* below the retained block ledger are pruned.
EndBatch ==
    /\ pc = "join"
    /\ rdr.pc = "idle"
    /\ \E gone \in Prunable : eng' = [eng EXCEPT !.undo = @ \ gone]
    /\ pc' = "idle"
    /\ todo' = <<>>
    /\ prevouts' = {}
    /\ UNCHANGED <<store, reader>>

\* Mutant of Settled: a failed commit is dropped like one that landed.
SettledRegardless == [slot |-> "none", state |-> Empty]

\* settle: a commit that landed leaves the slot; a failed one stays readable in
\* it and the store refuses mutation from then on.
Settled == [slot |-> IF commit = "landed" THEN "none" ELSE commit,
            state |-> IF commit = "landed" THEN Empty ELSE flight]

\* take_last_flush, or start_flush finding the previous commit in the slot:
\* joins a commit that has finished.
Settle ==
    /\ commit \in {"landed", "error"}
    /\ WriteLockFree
    /\ commit' = Settled.slot
    /\ flight' = Settled.state
    /\ failed' = (failed \/ commit = "error")

Harvest ==
    /\ pc = "idle"
    /\ ~ failed
    /\ Settle
    /\ UNCHANGED <<eng, pend, pc, driver, reader>>

\* The driver tapers its flushes when it nears the end of the chain.
Taper ==
    /\ pc = "idle"
    /\ ~ CommitInProgress
    /\ pc' = "taper"
    /\ UNCHANGED <<eng, store, driver, reader>>

\* Where the driver goes on after start_flush: a flush() that a disconnect, a rebase
\* or the end of the run called waits for the commit.
AfterStart ==
    [start |-> "join", taper |-> "idle", flush |-> "wait", fold |-> "folding",
     final |-> "last"]

\* start_flush refuses once a commit failed, or when the one it waits for did.
StartFlushFails ==
    /\ pc \in DOMAIN AfterStart
    /\ WriteLockFree
    /\ \/ failed /\ UNCHANGED store
       \/ commit = "error" /\ Settle /\ UNCHANGED pend
    /\ pc' = "stopped"
    /\ UNCHANGED <<eng, driver, reader>>

\* Mutant of StartFlush: a commit that landed is never taken out of its slot.
StartFlushWithoutSettling ==
    /\ pc \in DOMAIN AfterStart
    /\ WriteLockFree
    /\ ~ failed
    /\ commit = "none"
    /\ IF pend.blocks = <<>>
       THEN UNCHANGED <<commit, flight, pend>>
       ELSE commit' = "running" /\ flight' = pend /\ pend' = Empty
    /\ pc' = AfterStart[pc]
    /\ UNCHANGED <<eng, failed, driver, reader>>

\* start_flush: waits for the previous commit, moves the accepting buffer to the
\* in-flight slot and starts the thread.
StartFlush ==
    /\ pc \in DOMAIN AfterStart
    /\ WriteLockFree
    /\ ~ failed
    /\ commit \in {"none", "landed"}
    /\ IF pend.blocks = <<>>
       THEN commit' = "none" /\ flight' = Empty /\ UNCHANGED pend
       ELSE commit' = "running" /\ flight' = pend /\ pend' = Empty
    /\ pc' = AfterStart[pc]
    /\ UNCHANGED <<eng, failed, driver, reader>>

\* The commit thread cannot be spawned: the buffer is put back.
SpawnFails ==
    /\ pc \in DOMAIN AfterStart
    /\ WriteLockFree
    /\ ~ failed
    /\ commit \in {"none", "landed"}
    /\ pend.blocks # <<>>
    /\ commit' = "none"
    /\ flight' = Empty
    /\ pc' = "stopped"
    /\ UNCHANGED <<eng, pend, failed, driver, reader>>

\* disconnect_execution_tip up to commit_disconnect, which flushes first.
BeginDisconnect ==
    /\ pc = "idle"
    /\ CurrentTip # Base
    /\ HasUndo(CurrentTip)
    /\ pc' = "flush"
    /\ UNCHANGED <<eng, store, driver, reader>>

\* disconnect_execution_tip refuses the snapshot's block and a missing undo.
RefuseDisconnect ==
    /\ pc = "idle"
    /\ CurrentTip = Base \/ ~ HasUndo(CurrentTip)
    /\ pc' = "stopped"
    /\ UNCHANGED <<eng, store, driver, reader>>

\* The overlay is full enough to be rebased: inner_mut_flushed, which flushes first.
BeginRebase ==
    /\ pc = "idle"
    /\ CurrentTip # Base
    /\ pc' = "fold"
    /\ UNCHANGED <<eng, store, driver, reader>>

\* inner_mut_settled waits for the commit, keeps the accepting buffer and lets the
\* engine compact its file, which leaves its contents alone and may fail.
Compact ==
    /\ pc = "idle"
    /\ ~ failed
    /\ commit \in {"none", "landed"}
    /\ commit' = "none"
    /\ flight' = Empty
    /\ pc' \in {"idle", "stopped"}
    /\ UNCHANGED <<eng, pend, failed, driver, reader>>

\* inner_mut_settled refuses once a commit failed, or when the one it waits for did.
CompactFails ==
    /\ pc = "idle"
    /\ \/ failed /\ UNCHANGED store
       \/ commit = "error" /\ Settle /\ UNCHANGED pend
    /\ pc' = "stopped"
    /\ UNCHANGED <<eng, driver, reader>>

\* The run has reached its ceiling: flush_pending, before it reports its tip.
BeginFinish ==
    /\ pc = "idle"
    /\ pc' = "final"
    /\ UNCHANGED <<eng, store, driver, reader>>

\* The wait at the end of flush() found that its commit failed.
FlushWaitFails ==
    /\ pc \in {"wait", "folding", "last"}
    /\ commit = "error"
    /\ Settle
    /\ pc' = "stopped"
    /\ UNCHANGED <<eng, pend, driver, reader>>

\* The wait at the end of flush(), then the engine's commit_disconnect: the coins
\* the block created go, those it spent return, its undo row is removed.
CommitDisconnect ==
    /\ pc = "wait"
    /\ commit \in {"none", "landed"}
    /\ commit' = "none"
    /\ flight' = Empty
    /\ LET b == eng.tip
       IN  eng' = [tip   |-> Parent[b],
                   coins |-> (eng.coins \ Creates[b]) \cup Spends[b],
                   undo  |-> eng.undo \ {b}]
    /\ pc' = "idle"
    /\ UNCHANGED <<pend, failed, driver, reader>>

\* The wait at the end of flush(), then the engine's rebase_into: its coins are those
\* of a new base and its undo rows are gone.  It can fail before the switch, which
\* leaves the engine as it was, and after it.
Rebase ==
    /\ pc = "folding"
    /\ commit \in {"none", "landed"}
    /\ commit' = "none"
    /\ flight' = Empty
    /\ \/ eng' = [eng EXCEPT !.undo = {}] /\ pc' \in {"idle", "stopped"}
       \/ UNCHANGED eng /\ pc' = "stopped"
    /\ UNCHANGED <<pend, failed, driver, reader>>

\* The wait at the end of the last flush(): the run reports its tip.
Finish ==
    /\ pc = "last"
    /\ commit \in {"none", "landed"}
    /\ commit' = "none"
    /\ flight' = Empty
    /\ pc' = "done"
    /\ UNCHANGED <<eng, pend, failed, driver, reader>>

-----------------------------------------------------------------------------
(* The background commit thread: commit_connect_folded, one transaction. *)

EngineAccepts ==
    /\ Linked(eng.tip, flight.blocks)
    /\ flight.spent \subseteq eng.coins
    /\ flight.created \cap (eng.coins \ flight.spent) = {}

CommitLands ==
    /\ commit = "running"
    /\ EngineAccepts
    /\ eng' = [tip   |-> LastOr(flight.blocks, eng.tip),
               coins |-> (eng.coins \ flight.spent) \cup flight.created,
               undo  |-> eng.undo \cup SetOf(flight.blocks)]
    /\ commit' = "landed"
    /\ UNCHANGED <<pend, flight, failed, pc, driver, reader>>

\* The engine refuses the commit, or the disk does.
CommitErrs ==
    /\ commit = "running"
    /\ commit' = "error"
    /\ UNCHANGED <<eng, pend, flight, failed, pc, driver, reader>>

-----------------------------------------------------------------------------

\* The store is dropped when the run ends, by an error or not; the drop joins the
\* commit thread first.  The next run opens the engine again.
Reopen ==
    /\ pc \in {"stopped", "done"}
    /\ rdr.pc = "idle"
    /\ ~ CommitInProgress
    /\ pc' = "idle"
    /\ pend' = Empty
    /\ flight' = Empty
    /\ commit' = "none"
    /\ failed' = FALSE
    /\ todo' = <<>>
    /\ prevouts' = {}
    /\ ahead' = NoAhead
    /\ UNCHANGED <<eng, rdr>>

\* The process dies at any point; only what the engine committed remains.
Crash ==
    /\ pc' = "idle"
    /\ pend' = Empty
    /\ flight' = Empty
    /\ commit' = "none"
    /\ failed' = FALSE
    /\ todo' = <<>>
    /\ prevouts' = {}
    /\ rdr' = NoRead
    /\ ahead' = NoAhead
    /\ UNCHANGED eng

Driver ==
    \/ BeginBatch \/ RejectBatch \/ BufferBatch \/ RefuseBatch \/ EndBatch
    \/ Harvest \/ Taper \/ StartFlush \/ StartFlushFails \/ SpawnFails
    \/ BeginDisconnect \/ RefuseDisconnect \/ FlushWaitFails \/ CommitDisconnect
    \/ BeginRebase \/ Rebase \/ Compact \/ CompactFails \/ BeginFinish \/ Finish \/ Reopen

Reader == ReadBuffers \/ ReadEngine
Flusher == CommitLands \/ CommitErrs

Next == Driver \/ Reader \/ Flusher \/ Crash

Spec == Init /\ [][Next]_vars

\* The commit thread runs and finishes; a thread that holds or waits for a lock
\* goes on once it can.
Liveness ==
    /\ WF_vars(Flusher)
    /\ WF_vars(ReadEngine)
    /\ WF_vars(StartFlush \/ StartFlushFails \/ SpawnFails)
    /\ WF_vars(EndBatch)
    /\ WF_vars(FlushWaitFails \/ CommitDisconnect \/ Rebase \/ Finish)

FairSpec == Spec /\ Liveness

-----------------------------------------------------------------------------
(* Properties. *)

Slots == {"none", "running", "landed", "error"}
Steps == {"idle", "exec", "start", "taper", "join", "flush", "wait", "fold",
          "folding", "final", "last", "done", "stopped"}
Buffers == [blocks : Seq(Blocks), created : SUBSET Coins, spent : SUBSET Coins,
            batches : Nat]

\* Type correctness of the buffers, the slot, the engine and the threads.
TypeOK ==
    /\ eng \in [tip : Blocks \cup {Base}, coins : SUBSET Coins, undo : SUBSET Blocks]
    /\ pend \in Buffers
    /\ flight \in Buffers
    /\ commit \in Slots
    /\ failed \in BOOLEAN
    /\ pc \in Steps
    /\ todo \in Batches \cup {<<>>}
    /\ prevouts \subseteq Coins
    /\ rdr \in [pc : {"idle", "engine"}, keys : SUBSET Coins,
                found : SUBSET Coins, unknown : SUBSET Coins]
    /\ ahead \in [keys : SUBSET Coins, found : SUBSET Coins]

\* The coins the engine will hold once the in-flight buffer is committed.
Lower == (eng.coins \ flight.spent) \cup flight.created

\* The commit thread never finds the engine in a state that refuses the buffer:
\* it extends the engine's tip, spends only coins the engine has and creates none
\* that it would keep, whatever was buffered while earlier commits ran.
EngineNeverRefuses == commit = "running" => EngineAccepts

\* A get_many caught between the buffers and the engine by a landing commit or by
\* a full buffer changing places still answers from one state, the view: what the
\* buffers told it holds, and the engine is right about every key they left open.
ReadIsOneState ==
    rdr.pc = "engine" =>
        rdr.found \cup (rdr.unknown \cap eng.coins) = rdr.keys \cap View

\* A batch is executed on the coins of the current view, though they were read
\* ahead while the previous batch had yet to be buffered.
ExecutesOnCurrentCoins ==
    pc = "exec" => prevouts = ExternalInputs(todo) \cap View

\* The engine lags the reported tip by at most two buffers of bounded size: twice
\* the batch limit each.
LagIsBounded ==
    /\ pend.batches <= 2 * MaxBatches
    /\ flight.batches <= 2 * MaxBatches

\* A run reports its tip only when the engine is at that tip.
DurableWhenReported == pc = "done" => eng.tip = CurrentTip /\ eng.coins = View

\* Once a commit has failed, nothing reaches the buffers or the engine until the
\* store is opened again.
FailedIsFrozen ==
    [][failed /\ failed' => UNCHANGED <<eng, pend, flight>>]_vars

\* A flush ends: no thread waits for ever for another.
FlushEnds ==
    pc \in {"start", "taper", "flush", "wait", "fold", "folding", "final", "last", "join"}
        ~> pc \in {"idle", "done", "stopped"}

-----------------------------------------------------------------------------
(* Refinement of Chainstate. *)

Durable == [tip |-> eng.tip, coins |-> eng.coins]
Queued == [tip |-> LastOr(flight.blocks, eng.tip), coins |-> Lower]
Newest == [tip |-> CurrentTip, coins |-> View]

\* The accepted states that a crash may fall back to, and the reported one.
Log ==
    CASE commit \in {"running", "error"} /\ pend.blocks # <<>> -> <<Durable, Queued, Newest>>
      [] commit \in {"running", "error"} /\ pend.blocks = <<>> -> <<Durable, Queued>>
      [] commit \in {"none", "landed"} /\ pend.blocks # <<>> -> <<Durable, Newest>>
      [] commit \in {"none", "landed"} /\ pend.blocks = <<>> -> <<Durable>>

A == INSTANCE Chainstate WITH log <- Log

\* Seen through the layered reads, the buffers, the commit thread, failures and
\* crashes are a chainstate that accepts whole batches and loses only a suffix.
RefinesChainstate == A!Spec
=============================================================================
