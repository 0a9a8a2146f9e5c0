---------------------------- MODULE BatchExecution ----------------------------
(***************************************************************************)
(* The batch pipeline of block_execution.rs (connect_active_blocks_inner)  *)
(* with the script-validation pool of blockchain.rs and its bounded queue  *)
(* (script_queue.rs).  A batch of the next blocks is prepared by several   *)
(* threads at once, in any order; each hands the scripts of a block to the *)
(* pool as soon as the block is prepared, and runs them itself when the    *)
(* queue is full.  The executor waits for every script, reports the first  *)
(* failure, and otherwise gives the store one transition per block.        *)
(* Between batches the tip may be disconnected by its undo record.         *)
(*                                                                         *)
(* The thread that executes never carries scripts from one batch to the    *)
(* next: nothing ever adds to script_carry, so it is always empty.         *)
(***************************************************************************)
EXTENDS BlockValidation

CONSTANTS
    Inputs,       \* the chains to execute: [blocks, script]
    Genesis,      \* the coins below the first block
    Workers,      \* the threads that prepare blocks
    Pool,         \* the threads that verify scripts
    WorkSize,     \* checks in a work item
    QueueLimit    \* checks the queue may hold

VARIABLES
    input,        \* the chain, and what its scripts do; chosen once
    coins, tip,   \* the store's coins and execution tip
    undos,        \* the undo records of the executed blocks
    pc,           \* what the executing thread does
    size,         \* blocks in the batch
    plan,         \* what preparing each block of the batch comes to
    claimed,      \* blocks of the batch claimed for preparation
    worker,       \* each preparing thread: the block it has, work to submit
    slots,        \* the prepared blocks
    queue,        \* pending work items, oldest first
    running,      \* the work item each pool thread executes
    owed,         \* results a thread's script batch still waits for
    failures,     \* the failures those results carried
    outcome       \* what the batch returned

store == <<input, coins, tip, undos>>
vars == <<input, coins, tip, undos, pc, size, plan, claimed, worker, slots,
          queue, running, owed, failures, outcome>>

Idle == [block |-> 0, work |-> <<>>]
NoWork == [owner |-> None, jobs |-> <<>>]

Init ==
    /\ input \in Inputs
    /\ coins = Genesis
    /\ tip = 0
    /\ undos = <<>>
    /\ pc = "idle"
    /\ size = 0
    /\ plan = <<>>
    /\ claimed = 0
    /\ worker = [w \in Workers |-> Idle]
    /\ slots = <<>>
    /\ queue = <<>>
    /\ running = [s \in Pool |-> NoWork]
    /\ owed = [w \in Workers |-> 0]
    /\ failures = {}
    /\ outcome = None

-----------------------------------------------------------------------------
(***************************************************************************)
(* The preparing threads.                                                  *)
(***************************************************************************)
\* Phase two for block i reads its own transactions, the versioned view and
\* the prefetched coins, which stay as they are until the batch ends, so what
\* preparing it comes to is fixed once phase one is over.
PreparedAt(versions, blocks, i) ==
    PrepareBlock(BatchVersionView(versions, i, coins), blocks[i], tip + i, i - 1,
                 input.script)

Plan(versions, blocks) == [i \in DOMAIN blocks |-> PreparedAt(versions, blocks, i)]

PlanFor(blocks) == Plan(Versions(blocks, tip), blocks)

\* Phase one: the next n blocks, and the versioned view of what they do.
Start(n) ==
    /\ pc = "idle"
    /\ n > 0
    /\ tip + n <= Len(input.blocks)
    /\ pc' = "prepare"
    /\ size' = n
    /\ plan' = PlanFor(SubSeq(input.blocks, tip + 1, tip + n))
    /\ claimed' = 0
    /\ slots' = [i \in 1 .. n |-> None]
    /\ failures' = {}
    /\ outcome' = None
    /\ UNCHANGED <<store, worker, queue, running, owed>>

\* DeferredScriptBatch::submit cuts the checks into work items.
WorkItems(jobs) ==
    [k \in 1 .. (Len(jobs) + WorkSize - 1) \div WorkSize |->
        SubSeq(jobs, (k - 1) * WorkSize + 1,
               IF k * WorkSize < Len(jobs) THEN k * WorkSize ELSE Len(jobs))]

\* A thread claims the next block, prepares it, and sets its slot.  The
\* scripts of a batch of one block are kept for the executing thread.
Fill(w, i, prepared) ==
    /\ slots' = [slots EXCEPT ![i] = <<prepared>>]
    /\ worker' = [worker EXCEPT ![w] =
            [block |-> i,
             work  |-> IF prepared.failure = None /\ size > 1
                       THEN WorkItems(prepared.jobs) ELSE <<>>]]

Prepare(w) ==
    /\ pc = "prepare"
    /\ worker[w] = Idle
    /\ claimed < size
    /\ claimed' = claimed + 1
    /\ Fill(w, claimed + 1, plan[claimed + 1])
    /\ UNCHANGED <<store, pc, size, plan, queue, running, owed, failures, outcome>>

Pending(q) == FoldLeft(LAMBDA sum, item : sum + Len(item.jobs), 0, q)

Fits(q, jobs) == Pending(q) + Len(jobs) <= QueueLimit

Collect(failure) == failures' = failures \cup ({failure} \ {None})

\* try_push and, when the queue has no room, the fallback of enqueue: the
\* submitting thread executes the item itself.
Enqueue(w, jobs) ==
    \/ /\ Fits(queue, jobs)
       /\ queue' = Append(queue, [owner |-> w, jobs |-> jobs])
       /\ owed' = [owed EXCEPT ![w] = @ + 1]
       /\ UNCHANGED failures
    \/ /\ ~Fits(queue, jobs)
       /\ Collect(ExecuteWork(jobs, input.script))
       /\ UNCHANGED <<queue, owed>>

Submit(w) ==
    /\ worker[w].work # <<>>
    /\ Enqueue(w, Head(worker[w].work))
    /\ worker' = [worker EXCEPT ![w].work = Tail(@)]
    /\ UNCHANGED <<store, pc, size, plan, claimed, slots, running, outcome>>

Submitted(w) ==
    /\ worker[w].block # 0
    /\ worker[w].work = <<>>
    /\ worker' = [worker EXCEPT ![w] = Idle]
    /\ UNCHANGED <<store, pc, size, plan, claimed, slots, queue, running, owed,
                   failures, outcome>>

-----------------------------------------------------------------------------
(***************************************************************************)
(* The pool's threads.                                                     *)
(***************************************************************************)
Pop(s) ==
    /\ running[s] = NoWork
    /\ queue # <<>>
    /\ running' = [running EXCEPT ![s] = Head(queue)]
    /\ queue' = Tail(queue)
    /\ UNCHANGED <<store, pc, size, plan, claimed, worker, slots, owed, failures,
                   outcome>>

\* execute_script_work always sends a result, whatever the jobs do.
Result(s, w, failure) ==
    /\ running' = [running EXCEPT ![s] = NoWork]
    /\ owed' = [owed EXCEPT ![w] = @ - 1]
    /\ Collect(failure)

Execute(s) ==
    /\ running[s] # NoWork
    /\ Result(s, running[s].owner, ExecuteWork(running[s].jobs, input.script))
    /\ UNCHANGED <<store, pc, size, plan, claimed, worker, slots, queue, outcome>>

-----------------------------------------------------------------------------
(***************************************************************************)
(* The executing thread.                                                   *)
(***************************************************************************)
\* The scope that prepares ends when every thread found no block left.
Joined ==
    /\ pc = "prepare"
    /\ claimed = size
    /\ \A w \in Workers : worker[w] = Idle
    /\ pc' = "drain"
    /\ UNCHANGED <<store, size, plan, claimed, worker, slots, queue, running, owed,
                   failures, outcome>>

\* The checks of a batch of one block (verify_deferred_scripts).  Few of them run on this
\* thread, where a panic unwinds out of the executor instead of being returned: it leaves
\* the store as it was, as an error does.
Serial == IF size = 1 /\ slots[1][1].failure = None
          THEN ExecuteWork(slots[1][1].jobs, input.script) ELSE None

\* The first block that could not be prepared.
Failed == SelectInSeq(slots, LAMBDA slot : slot[1].failure # None)

\* A script failure outranks the block that failed only if it is earlier.
Verdict(scripts) ==
    IF Failed = 0 THEN scripts
    ELSE IF scripts # None /\ scripts[1] < Failed - 1 THEN scripts
    ELSE slots[Failed][1].failure

\* drain_script_batches: every result is awaited before anything is decided.
Drained == \A w \in Workers : owed[w] = 0

Drain ==
    /\ pc = "drain"
    /\ Drained
    /\ outcome' = Verdict(FirstOf(failures \cup ({Serial} \ {None})))
    /\ pc' = IF outcome' = None THEN "commit" ELSE "refused"
    /\ UNCHANGED <<store, size, plan, claimed, worker, slots, queue, running, owed,
                   failures>>

Changes(i) == slots[i][1].changes

\* The coins after the first i transitions of the batch.
After(i) == FoldLeft(LAMBDA c, k : Settle(c, Changes(k), tip + k), coins,
                     [k \in 1 .. i |-> k])

TakesAll == \A i \in 1 .. size : Takes(After(i - 1), Changes(i))

Commit ==
    /\ pc = "commit"
    /\ TakesAll
    /\ coins' = After(size)
    /\ tip' = tip + size
    /\ undos' = undos \o [i \in 1 .. size |-> slots[i][1].undos]
    /\ pc' = "idle"
    /\ UNCHANGED <<input, size, plan, claimed, worker, slots, queue, running, owed,
                   failures, outcome>>

\* Mutant of Refuse: the batch is decided again as it is.
RefuseAndRetry ==
    /\ pc = "refused"
    /\ pc' = "drain"
    /\ UNCHANGED <<store, size, plan, claimed, worker, slots, queue, running, owed,
                   failures, outcome>>

\* The batch is given up; the next session starts over from the same tip.
Refuse ==
    /\ pc = "refused"
    /\ pc' = "idle"
    /\ UNCHANGED <<store, size, plan, claimed, worker, slots, queue, running, owed,
                   failures, outcome>>

UndoTakes(records) ==
    \A k \in DOMAIN records :
        UndoIsAccepted(DisconnectBlock(coins, SubSeq(records, k + 1, Len(records))),
                       records[k])

\* disconnect_execution_tip
Disconnect ==
    /\ pc = "idle"
    /\ tip > 0
    /\ UndoTakes(undos[tip])
    /\ coins' = DisconnectBlock(coins, undos[tip])
    /\ tip' = tip - 1
    /\ undos' = SubSeq(undos, 1, tip - 1)
    /\ UNCHANGED <<input, pc, size, plan, claimed, worker, slots, queue, running,
                   owed, failures, outcome>>

Next ==
    \/ \E n \in 1 .. Len(input.blocks) : Start(n)
    \/ \E w \in Workers : Prepare(w)
    \/ \E w \in Workers : Submit(w)
    \/ \E w \in Workers : Submitted(w)
    \/ \E s \in Pool : Pop(s)
    \/ \E s \in Pool : Execute(s)
    \/ Joined
    \/ Drain
    \/ Commit
    \/ Refuse
    \/ Disconnect

Spec == Init /\ [][Next]_vars

\* Every thread runs; the pool's threads are never blocked by another.
Fairness ==
    /\ \A w \in Workers : WF_vars(Prepare(w) \/ Submit(w) \/ Submitted(w))
    /\ \A s \in Pool : WF_vars(Pop(s) \/ Execute(s))
    /\ WF_vars(Joined \/ Drain \/ Commit \/ Refuse)

FairSpec == Spec /\ Fairness

-----------------------------------------------------------------------------
(***************************************************************************)
(* The coins after the blocks below `height`, applied one at a time, and   *)
(* what applying the next n of them in turn would report.                  *)
(***************************************************************************)
Applied(from, start, n) ==
    FoldLeft(LAMBDA c, k : WriteAll(AfterBip30(c, input.blocks[k]),
                                    input.blocks[k].txs, k),
             start, [k \in 1 .. n |-> from + k])

ApplyAt(start, from, k) ==
    ApplyBlock(Applied(from, start, k - 1), input.blocks[from + k], from + k,
               input.script)

SerialFailure(start, from, n) ==
    LET fails == {k \in 1 .. n : ApplyAt(start, from, k).failure # None}
    IN  IF fails = {} THEN None
        ELSE LET k == Min(fails)
                 f == ApplyAt(start, from, k).failure
             IN  <<k - 1, f[2], f[3]>>

Panics == \E t \in Txs : input.script[t] = "panic"

\* The store holds what applying the executed blocks one after another, each
\* written before the next is checked, leaves: neither the order the threads
\* prepared a batch in, nor where the batches were cut, nor a block that was
\* disconnected again shows; and no block whose scripts fail is among them.
SerialResult ==
    pc = "idle" =>
        /\ coins = Applied(0, Genesis, tip)
        /\ SerialFailure(Genesis, 0, tip) = None

\* A batch fails exactly when one of its blocks does, and the failure reported
\* is the one that block-by-block execution meets first (the comment at
\* block_execution.rs:963: "The first failing block wins, exactly as
\* sequential preparation would have reported it").  A panicking verifier is
\* reported as block 0, so with one the batch only has to fail.
FirstFailureWins ==
    /\ pc = "refused" /\ ~Panics => outcome = SerialFailure(coins, tip, size)
    /\ pc = "refused" => SerialFailure(coins, tip, size) # None
    /\ pc = "commit" => SerialFailure(coins, tip, size) = None

\* The store refuses nothing the pipeline hands it, and an undo record never
\* finds a coin it is to restore already there.
StoreNeverRefuses ==
    /\ pc = "commit" => TakesAll
    /\ pc = "idle" /\ tip > 0 => UndoTakes(undos[tip])

\* Every batch ends: a full queue, a failing script and a panicking verifier
\* included, the executing thread gets every result it waits for.
BatchEnds == (pc = "prepare") ~> (pc = "idle")

=============================================================================
