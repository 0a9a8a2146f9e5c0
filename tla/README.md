# rBTC: a verification of its stores, execution, headers and mempool

rBTC is a pruned Bitcoin full node. This directory holds TLA+ modules of the parts of it
that are hardest to test: the stores that must survive a crash at any point, the threads and
buffers between them, the drivers that keep several independently durable stores in step,
the execution of blocks on several threads, the header chain, and the mempool. TLC checks the
modules on small instances; TLAPS proves the results about the chainstates and the overlay's
files for every value of the constants. `PROJECT.json` maps each definition to the lines it
models.

## 1. Inventory

| Part (`src/src/`) | State | Operations that change it | Modelled by |
|---|---|---|---|
| `ledger.rs` | slot files, index, staged segment, two intent files | append, stage, commit_staged, discard_staged, truncate_from, prune, open (recovery) | `BlockStore`, `Ledger` |
| `write_back_chainstate.rs` | accepting buffer, in-flight buffer, commit thread, failed flag | commit_connect_batch, start_flush, harvest, flush_pending, commit_disconnect, rebase, compact, drop | `WriteBack` |
| `chain_store.rs`, the `ExecutionChainStore` contract | tip and coins, reported and durable | connect, disconnect, harden, crash | `Chainstate` |
| `chain_store.rs`, `RedbChainStore` | coin tables, journal, undo rows, tip, spent-age histogram, cached coin count | commit_connect, commit_connect_batch, commit_validation_batch, materialize_validation_deltas, commit_disconnect, prune_block_undos_before, open_with_options | `ChainStore` |
| `node.rs`, `chain_store.rs`, assumed snapshots | marker, validation directory, two tasks, shared status | activate, prepare, claim, poll, finalize, clean up, finalize offline | `AssumedSnapshot` |
| `snapshot_overlay*.rs`, tables | base, overlay, tombstones, undo rows, tip | connect (folded), disconnect, prune, rebase | `Overlay` |
| `snapshot_overlay.rs`, directories | five environment directories, rebase outputs, clean-up guard | rebase, compact, recover_interrupted_swap, open | `OverlaySwap` |
| `node.rs`, peer run | headers, chainstate, ledger, indexes, undo records | sync, rewind, reconcile_ledger, reconcile_auxiliary_indexes, download_execute_batch, offline prune | `Driver`, `NodeDriver` |
| `node.rs`, overlay catch-up and local reindex | the same without indexes, and without a peer | run_overlay_catchup, reindex_from_complete_freezer | `OverlayDriver`, `ReindexDriver` |
| `block_execution.rs`, `blockchain.rs`, `chainstate.rs` | coins, overlay, prepared deltas, undo | connect_active_block, connect_active_blocks, disconnect_execution_tip | `BlockTree`, `BlockValidation`, `BatchExecution` |
| `script_queue.rs`, the script pool | bounded queue, workers, results | try_push, pop, submit, finish_with_order | `BatchExecution` |
| `headers.rs`, `headers/retention.rs`, `header_store.rs` | DAG, active chain, staged batch or eviction, rows | insert, stage, roll back, evict, append_batch, persist_eviction, load_dag | `HeaderTree`, `HeaderDag`, `HeaderSync` |
| `node.rs`, submitted blocks | pending queue, awaiting verdicts | stage_submitted_blocks, settle_submitted_blocks | `HeaderSync` |
| `transaction_admission.rs` | pool, rolling minimum, orphans | admit_package, reconcile, evict, orphans | `TransactionAdmission`, `PeerAdmission` |
| `node.rs`, `transaction_pool_store.rs` | peer's pending transactions, candidate pool, durable pool, disconnected transactions | a pass of admission, rewind, publish | `PeerAdmission` |
| `feerate_diagram.rs`, `feerate_diagram/optimizer.rs` | an order under construction | linearize_with_budget, post_linearize, compare_diagrams | `FeerateDiagram`, `Linearizer` |
| deployments, snapshot files, P2P, peer store, wallet, template, API, tools | | | no, see section 8 |

How the parts meet. A driver syncs headers, rewinds the chainstate to the active chain, stages
the blocks of a batch in the ledger, executes them, gives them to the indexes, and only then
publishes the staged segment. No transaction spans the stores, so every restart has to infer
from their tips where the last run stopped. A catch-up may put the write-back layer over an
overlay chainstate: blocks are then reported before they are durable, and one thread commits
while another reads ahead. A rewind hands the transactions of the disconnected blocks to the
mempool, whose pool is validated anew at the tip that execution reaches. A node that starts
from an assumed snapshot runs the whole machinery twice in one process, and one of the two
finally decides about the other.

What is hard: a crash between any two synced file operations, recovery included; a commit that
fails after later batches were built on it; reads that interleave with the publication and
landing of a buffer; reorganizations while something is staged, validated, served or pooled;
undo records that a lagging index still needs; a batch prepared on several threads that has to
fail as one thread would; rules that were each checked when something else was admitted; bounds
that are met exactly. `PROJECT.json` lists these hazards at their lines.

## 2. The modules

    BlockTree ── Chainstate (abstract) ◁── WriteBack   (TLC and TLAPS)
                                       ◁── ChainStore  (TLC and TLAPS)
                 UTXO set (reference)  ◁── Overlay     (TLC)
    BlockStore (abstract) ◁── Ledger                   (TLC)
         └── Driver ── NodeDriver, OverlayDriver, ReindexDriver
    OverlaySwap  (how Overlay's atomic Rebase is made atomic on disk; TLC and TLAPS)
    AssumedSnapshot  (two chainstates and the decision between them)
    BlockValidation ── BatchExecution   (threads against one block at a time)
    HeaderTree ── HeaderDag ── HeaderSync
    FeerateDiagram ── Linearizer
              └── TransactionAdmission ── PeerAdmission

- **`BlockTree`**: blocks, their parents, the coins each spends and creates, and what makes a
  batch valid on a set of coins, for the chainstates. A coin is an outpoint.
- **`Chainstate`**: the contract. `log[1]` is the durable state and the last element the
  reported one; batches append, become durable in order, and a crash falls back to `log[1]`.
- **`WriteBack`**: `pend` and `flight` are the two buffers, `commit` the slot of the commit
  thread, `pc` the place of the catch-up driver in its loop, `rdr` the read-ahead thread.
  Actions are the calls of the layer, split where a lock is released: the read of the buffers
  and the read of the engine are two steps, and so are starting a commit, its landing and its
  harvest. Reading the buffers holds the `pending` read lock until the engine has answered,
  which `WriteLockFree` expresses.
- **`ChainStore`**: the redb chainstate, one step per durable transaction. `rows` is the
  validation journal, `Net` its fold, and `View` what `get` answers. `mode` is how the store
  was opened; any opening may choose another. A disconnection over a journal is two
  transactions (`BeginRewind`, `Rewind`). `sampled` is a history variable: without retention
  the executor hands over no undo, so a block is covered by the histogram and adds no age.
- **`AssumedSnapshot`**: the active and the validating task of one process. `task` is where
  each is in its pass, `status` the shared `BackgroundValidationState`, `active.marker` the
  durable mark, `val.dir` the validation directory and who made it. A UTXO set is named by the
  block whose chain produced it, so a wrong snapshot is one named by another block. A session
  that fails is retried (`NextPeer`): forever in general, as often as there are candidates for
  the active task with `--once`.
- **`Overlay`**: the three layers and the undo rows, one step per durable transaction, with
  creation heights, because disconnecting decides by them which table a coin returns to.
- **`OverlaySwap`**: the files and directories of a rebase and a compaction, one step per file
  operation, each of which can fail or be the last before a crash.
- **`BlockStore`**, **`Ledger`**: the abstract store of (height, block) pairs with one staged
  segment, and the slot files, index and intents that implement it. Each operation of `Ledger`
  is several steps, `Crash` may follow each, and opening repeats the code's recoveries in order.
- **`Driver`**, **`NodeDriver`**, **`OverlayDriver`**, **`ReindexDriver`**: the shared steps and
  the three loops, over `BlockStore` and a chainstate that is a chain with a durable prefix. An
  index is the chain it represents and the heights whose rollback row it has. `on` is the set
  of indexes the operator started this run with. `OverlayDriver` describes a catch-up on headers
  that may be reorganized. `ReindexDriver` has the output directory too: it is locked, marked as
  the command's own, checked for foreign entries at every later start, verified across the
  stores at the end, and promoted by the removal of its marker.
- **`BlockValidation`**: the checks of one block as operators, twice: `ApplyBlock` writes each
  transaction before the next is checked; `PrepareBlock` writes nothing and reads the blocks
  before it from a versioned view of the batch. Order of the checks, BIP30 with its exception,
  maturity, both kinds of locks, amounts, signature cost, and the undo record are kept.
- **`BatchExecution`**: the threads that prepare, the bounded script queue with its fallback to
  running the work inline, the pool that runs scripts, the join, the drain, the commit and the
  refusal; and the disconnection of blocks executed before. A verifier may panic;
  where the few scripts of a single block run inline, the panic leaves the executor instead of
  being returned, and the model has it leave the store as an error does.
- **`HeaderTree`**, **`HeaderDag`**: what a header must satisfy given its ancestors, and the
  DAG as a value with the operators insert, promote, roll back, evict and refresh.
- **`HeaderSync`**: the DAG in memory, the store's rows, a staged batch or eviction, the
  projection served to peers, submitted blocks with their pending verdicts, the executed chain,
  and a clock. A batch is staged header by header and rolled back header by header.
- **`FeerateDiagram`**, **`Linearizer`**: chunks, diagrams and their comparison, and the search
  for a good order as a state machine whose work allowance may end before any chunk.
- **`TransactionAdmission`**: the pool as a value, with packages, replacement, TRUC, ephemeral
  dust, clusters, eviction with the rolling minimum, and reconciliation with a tip. Limits are by
  count, by virtual size and, for the whole pool, by bytes.
- **`PeerAdmission`**: a pass: transactions are taken from the peer, grouped in packages, tried
  on a copy of the pool, orphans retried, the copy committed to disk and published; with
  blocks, reorganizations, lost sessions and crashes between. A rewind saves the transactions of
  a stale block in the recovery snapshot before it disconnects the block; it goes on without
  them if the ledger has pruned the block, and ends the session if the store refuses them.
- **`BlockTreeProofs`**, **`WriteBackProofs`**, **`WriteBackRefinement`**,
  **`ChainStoreProofs`**, **`OverlaySwapProofs`** hold the theorems (section 6).
- **`MC*`** modules give the constants their values. `MCChainstates`, `MCDrivers` and
  `MCReference` put several specifications side by side: `kind` says which one a behaviour is
  about, and the variables of the others keep an initial value.

Operators introduced as "Mutant of ..." describe plausible mistakes in the code. They are used by no
action: each shows that some property would notice the mistake.

## 3. The runs and what they show

| Run | States | Shows |
|---|---|---|
| `chainstates` | 51,096 | Write-back: `EngineNeverRefuses` (a folded commit always fits the engine), `ReadIsOneState` (a read that straddles a publication or a landing answers from one state), `ExecutesOnCurrentCoins`, `FailedIsFrozen`, `BuffersRefine`, `FlushEnds` (liveness). redb: `StoreAccepts` (no check of a commit, a rollback or an opening refuses what is valid), `SpentAgesAreExact`, `StoreRefines`. Assumed snapshot: `AssumedIsValidated` (the marker goes for a right snapshot only, the evidence not before the marker), `AssumedIsFinalized` (liveness). |
| `drivers` | 629,375 | Ledger: `RecoveredIsRight` (whatever the crashes, a restart recovers committed blocks, the newest ones, and none that was dropped), `RefinesBlockStore` (every operation is atomic). Node: `NodeStoresAgree`, `NodeRecovers`, `NodeCatchesUp` (liveness) with reorganizations, restarts, offline prunes and an index switched on and off. Catch-up: `OverlayBatchIsNew` (on a header chain that grows, no batch is executed at a height the ledger covers). Reindex: `ReindexRecovers` (what is built passes the final verification), `ReindexFinishes` (liveness: it is promoted, refused its output, or was given an index too late). Swap: `NoBlockIsLost`, `BaseIsOnDisk`. |
| `headers` | 587,336 | `ActiveIsBest`: replay, roll-back and eviction lead to the tip that arrival alone gave. `ReplayFailsOnTimeOnly`, `StoreMatchesDag`, `ServedIsDurable`, `Reopens` (liveness). |
| `mempool` | 374,561 | `PoolIsMineable`, `PoolKeepsLimits`, `StoreTakesEveryPool` (the store accepts each pool that a pass commits), `ReplacementsImprove` (the diagram of the whole pool gets strictly better, though the code compares only the clusters it touches), `RewindsComplete` (liveness, for stale blocks whose retained transactions the store takes). |
| `against_reference` | 249,083 | `SerialOutcome`, `StoreTakesBatches`, `BatchEnds` (liveness): threads against execution block by block. `ViewIsUtxoSet`, `OverlayAccepts`, `RebaseCountIsExact`: the layers against the UTXO set. `LinearizationIsSound`, `CompareIsExact`: orders against all orders, verdicts against exact fees. |

`CompareIsExact` needs an argument beside its run, since the code rounds fees between the
points of a diagram down: both diagrams are concave, so where they cross between points the
verdict is already decided at a point of one of them, and there the rounding cannot reverse it.

Three results are narrower than their names. The diagrams of `ReplacementsImprove` are those of
optimal orders, which the linearizer reaches within its allowance; how far it falls short beyond
that is `Linearizer`'s subject. `BatchEnds` has threads that prepare, and therefore submit, and
threads of the pool that only take, so it would not notice an enqueue that blocks: there would
always be someone to take. `RewindsComplete` leaves out a stale block with a transaction
above the standard weight, which consensus allows: the store refuses such a recovery snapshot
(`transaction_pool_store.rs:842`), and the rewind of that block then fails in every session
while the ledger retains it (`RewindRefused`).

Seven further runs end in a counterexample; each checks what a comment or document says:

1. `overlay_catchup_crash` (`CommitIsAccepted`). The catch-up discards what is staged at every
   start. If the crash came between the chainstate's commit and `commit_staged`, the ledger is
   a batch behind for good and refuses the next batch. The comment at `node.rs:12019` expects
   that the batch is downloaded again.
2. `chain_store_count` (`CountIsExact`). `commit_disconnect` leaves the journal's cached coin
   count as it was, and the next checkpoint persists a count derived from it, which
   `visit_utxo_snapshot` refuses (`chain_store.rs:2095`). The comment at `chain_store.rs:56`
   allows the journal only without undo; `node.rs:13485` opens it with undo.
3. `node_reorg_index` (`StaleIndexIsAccepted`). After a reorganization every enabled index is
   above the rewound chainstate, and `validate_index_activation` refuses it before the loop
   that would rewind it. `docs/ARCHITECTURE.md:1733` says that stale projections are
   reconciled on startup. The unit test for this executes the replacement blocks first.
4. `headers_submit` (`ConfirmedIsExecuted`). A submission is confirmed when the active header
   at its height is its own and the execution tip is at that height or above. When the
   submitted block has just replaced a branch that was executed that far, both are true and the
   block has not been executed. The comment at `node.rs:11432` excludes this.
5. `mempool_reorg` (`DisconnectedAreKept`). Each session starts with no disconnected
   transactions in memory and overwrites the recovery snapshot with the ones it has. A crash
   between two disconnections of one reorganization loses those of the first.
   `docs/ARCHITECTURE.md:1705` says that the snapshot closes this window.
6. `assumed_failure` (`FailureEndsService`). A finalization that fails ends a session and not
   the process: without `--once` the active task meets the failed status again with every peer
   and executes nothing. `docs/ARCHITECTURE.md:1510` says that it terminates the service.
7. `reindex_index_restart` (`ReindexResumes`). A local reindex opens the indexes it is asked for
   in its output directory, and the list of entries that it accepts there at the next start has
   no index file (`node.rs:7616`). Interrupted once, it refuses its own output. `README.md:229`
   of the repository says that a crash resumes from the durable execution tip.

Other things were met that no run is about:

- `run_overlay_catchup` cuts its ledger before the loop that disconnects stale tips and not
  after it, so a reorganization leaves the stale blocks in the ledger, which refuses the batch of
  the new branch until a restart has cut them off (`node.rs:12033` calls this state permanently
  stuck). `OverlayBatchIsNew` is therefore checked on one header chain that grows.
- The poll at `node.rs:13721` comes before the rewind loop. If the active tip has just left the
  header chain, `finalize_assumed_snapshot` refuses, and the status is failed for good although
  a later pass would have succeeded. `AssumedIsFinalized` therefore excludes the failed status.
- `sync_headers` replays the store with the local clock (`node.rs:11568`), where
  `header_store.rs:226` asks for the network-adjusted time. A header that was accepted by the
  adjusted time can be refused until the clock has caught up; `Reopens` says that it does.
- In `rebase_with_reopen` the index build can fail after it has published the index and before
  the guard tracks it, and the retry then finds the file in its way (`snapshot_overlay.rs:877`,
  against the comment at 747). `OverlaySwap` has the step, `BuildIndexFails`.
- A store that keeps no undo extends the coverage of its spent-age histogram with blocks that
  add no age, where `docs/ARCHITECTURE.md:180` speaks of exact rows.
- `blockchain.rs:775` says that a script failure of an earlier transaction takes precedence
  over a later failure of another kind. The fee and signature-cost failures are returned without
  running the deferred scripts. Both paths do the same, which is what `SerialOutcome` is about.
- `RedbChainStore::get_many` reads journal and tables in two transactions; `ChainStore` in one.
- Nothing ever puts an entry into `script_carry`, so no scripts are carried over to the next
  batch, and `BatchExecution` has no such step.

## 4. Bounds

- `chainstates`, write-back and redb: a chain of four blocks, a rival branch that carries some
  of the same transactions at other heights, and a block that is invalid because its input is
  spent. One batch fills a buffer (`MaxBatches = 1`), batches have up to three blocks
  (`MaxBatchLen`), so a buffer in flight, a full buffer and a batch under execution coexist, and
  the journal has up to four rows over tables that an earlier mode wrote. `MaxCount = 6` bounds
  the journal's count, which drifts upward (`chain_store_count`).
- `chainstates`, assumed snapshot: a base at height 2 with rival blocks above it, a heavier
  branch that leaves the base out for a while, right and wrong snapshots, clean-up asked for or
  not, `--once` or not, and a validation directory that is absent or somebody else's.
- `drivers`, ledger: two slots, segments of one or two blocks, four heights, two rival blocks of
  a height, and retention 2 or 4 chosen anew at every opening. The ring wraps, retention trims a
  whole segment, a truncation cuts inside one, and either intent can be pending when the ledger
  is opened with another retention. `LedgerAssumption` asks that every retention holds the
  longest segment. Within one opening the ledger refuses a longer one (`ledger.rs:468`, `594`);
  left out is an opening with a retention below a segment that is already there, which takes
  batches of more than 288 blocks and a smaller `--prune-blocks` later.
- `drivers`, the rest: three branches that fork after one and after three blocks, up to height 6,
  retention 4 (3 for catch-up and reindex) and batches of 2. The deeper fork is below the
  retained undo records once enough blocks have been executed, so `RefuseRewind` is reached.
  `MinRetained = 2` plays the part of the 288 blocks that a manual prune keeps. The swap has
  three blocks above the compiled base: enough for a rebase of a rebased base with a compaction
  before, between or after.
- `headers`: seven headers on a testnet-like chain: a branch at the real difficulty, a rival of
  equal work at its second height, and a branch at the minimum difficulty that is higher with
  less work, so that height and work disagree; one checkpoint and one header without proof of
  work. Responses of up to two headers, two evictions, and times that the clock reaches late.
- `mempool`: five setups over seven transactions: a parent below the relay fee with dust that its
  child pays for, and a conflict with it that pays more at a lower rate; the same parent and child
  with a pool of two bytes; a version 3 parent with two children; a pool of one transaction while
  a block with a transaction too heavy for the store goes stale, retained or pruned. A branch of
  two blocks overtakes one and is overtaken. At most one transaction expires in a pass.
- `against_reference`: all chains of three blocks over seven transactions with four
  assignments of script results (a panic among them), two preparing and two script threads, a
  queue of one; ten blocks on three branches for the overlay; all 4-transaction clusters that
  are connected and transitively reduced, with three fee rates.

`MaxBatchLen`, `MaxCount`, `MaxTip`, `MaxHeight`, `MaxSegment`, `MaxClock`, `MaxResponse`, the
trees and the setups bound the models; all other constants are parameters of the program.

## 5. Fairness

- `WriteBack.Liveness`: the commit thread finishes, with success or an error, the reader
  finishes a read it began, and the driver takes the step of the flush it is in. The threads
  are joined and hold no lock while they wait on anything but the engine.
- `NodeDriver.FairSpec`: the driver takes its next step while it can. Each is a call that
  returns, given a peer that answers; one that does not is replaced, which is `Restart`.
  `CatchesUp` promises nothing to a node that is restarted again and again.
- `ReindexDriver.FairSpec`: weak fairness of one sequential loop without a peer.
- `BatchExecution.Fairness`: every preparing thread and every thread of the pool runs, and so
  does the executor. Submitting never blocks: a full queue makes the submitter run the work.
- `HeaderSync.FairSpec`: the clock goes on and the node goes on opening its store. `Reopens`
  promises nothing to a process that keeps being stopped for another reason.
- `PeerAdmission.FairSpec`: the rewind loop takes its next step, without the transactions of a
  block that is no longer retained, or is refused.
- `AssumedSnapshot.Fairness`: both tasks are polled by the runtime. A session may be lost at
  any point and is then begun anew, so the steps of a session need strong fairness: a step
  that is reached again and again is not always where the session is lost. The refusal of a
  session, the clean-up and the end of the process need weak fairness only.

Crashes, failures, new headers, new transactions and operator actions are never fair.

## 6. What is proved

The constants are arbitrary subject to `TreeAssumption` and `LimitsAssumption`, which TLC
evaluates in the run `chainstates`; the proofs about the overlay's files need no assumption.

- **`WriteBackProofs`**: `Spec => []IInv` and from it `TypeOK`, `EngineNeverRefuses`,
  `ReadIsOneState`, `ExecutesOnCurrentCoins`, `LagIsBounded`, `DurableWhenReported` and the
  action property `FailedIsFrozen`. None of these is inductive alone: that the engine accepts
  the buffer in flight follows only from what was true when it was the accepting buffer. So
  `IInv` relates each buffer to what will be below it when it lands (`FlightInv` against the
  engine, `PendInv` against `Lower`, the engine with the flight applied), keeps what a reader
  caught between its steps knows (`ReaderInv`), keeps that the batch under execution was read
  from the present view (`ExecInv`), and ties the driver's place in its loop to the buffers
  (`DriverInv`). The hardest case is `BufferBatch`: folding a batch into the buffer, where a
  coin both created and spent above the engine must be cancelled (`FoldedIs`).
- **`WriteBackRefinement`**: the layer implements `Chainstate`. The mapping puts the engine,
  the flight and the accepting buffer in the log; a commit that lands is `Harden`, a buffered
  batch is `Connect`, reopening after a failure is `Crash`, and the other steps stutter.
- **`ChainStoreProofs`**: the redb chainstate opens again wherever it was stopped
  (`ReopenIsAccepted`), its journal is never refused by the tables and folding it changes
  nothing that can be read (`JournalAlwaysFolds`), and it implements `Chainstate`. What makes
  this inductive is `JournalFits`: the first row that holds a coin spends it exactly when the
  tables have it. A new row meets it because a valid batch spends what `View` has and creates
  what it has not, and for a coin no older row holds `View` is the tables. From it `Net.spent`
  is the set of table coins that some row holds (`NetSpentIs`, with a least row chosen by
  well-foundedness of the naturals). `UndoIsComplete` (an undo row has every coin its block
  spent) makes a rewind the abstract `Disconnect`. The mapping's log has one element: what is
  reported is durable.
- **`BlockTreeProofs`**: the facts about batches both chainstates use.
- **`OverlaySwapProofs`**: for any number of blocks, `TypeOK`, `NeverAmbiguous`,
  `NoBlockIsLost` and `BaseIsOnDisk`. `IInv` says of the *survivors*, the environments that a
  recovery started now would open, that they are sound: at the last executed block, with their
  base files on disk. Each rename moves the soundness from one directory to the next.

## 7. What is only model-checked

- Liveness under fairness: out of the prover's reach.
- What a recursive definition computes: `ViewIsUtxoSet`, `SpentAgesAreExact` and `SerialOutcome`
  (their reference is a fold over the chain, which needs induction over data),
  `LinearizationIsSound`, `CompareIsExact` and everything about the mempool, whose modules use
  recursive operators.
- `StoreAccepts` as a whole: it needs sums of bags.
- Everything about `Ledger`, `Overlay`, the drivers, `AssumedSnapshot` and the headers.

## 8. Not modelled, and why

Left out of the modules above:

- archive encodings and byte-exact retention (every block weighs the same, so the byte bound is
  the block bound), and a number of slots that changes between runs;
- peers that answer wrongly: they end a session or a run;
- the wallet cursor and the explorer's snapshot baseline;
- the tiers, Bloom filters and legacy rows of the redb chainstate; `complete_assumeutxo_validation`,
  the sequential form of the background validation;
- the script interpreter, witness commitments, and the checks of a block that need no coins;
- the arithmetic of a retarget and the proof of work, given functions of `HeaderTree`;
- the flow network of the optimizer: the closure it finds is defined by its maximality;
- the growth of an entry's clusters when a reconciliation meets transactions whose sizes changed:
  sizes are constants of the model;
- requests for announced transactions, the work budget (its end is `Defer`) and rebroadcasting.

Not modelled at all: deployments (a pure function of headers, of which the modules take the
result); snapshot files, the archive format, message encodings, the Tor and I2P line protocols
and the configuration (encodings, input and output); the peer-to-peer sessions and the address
table (no store depends on what they hold, and selection is random); the fee estimator
(statistics); the wallet (a library's, with a cursor that follows like an index); block
templates and merkle proofs (pure functions of the pool); the HTTP API, the publisher and the
stand-alone tools (they read what the others hold).
