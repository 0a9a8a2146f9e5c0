------------------------------- MODULE Driver -------------------------------
(***************************************************************************)
(* What the three block drivers of src/src/node.rs share: a chain of active  *)
(* headers, the chainstate, the block ledger and the optional indexes, each  *)
(* durable by itself and none in one transaction with another, and the batch *)
(* that takes blocks through all of them (download_execute_batch).           *)
(*                                                                           *)
(* A chain is the sequence of its blocks above the genesis or snapshot base: *)
(* a block is a model value and stands for its whole past, so two chains     *)
(* share a block at a height only if they agree below it.  Every block has   *)
(* the same work.  The ledger is the atomic store of BlockStore; the         *)
(* chainstate is what Chainstate promises: a durable prefix of the reported  *)
(* chain, which lags only under write-back.                                  *)
(***************************************************************************)
EXTENDS Naturals, Sequences, FiniteSets

CONSTANTS
    Branches,    \* the header chains that exist on the network, each complete
    MaxBatch,    \* validation_limits.max_blocks_per_batch
    Retention,   \* ledger_retention.max_blocks
    Indexes,     \* the optional indexes that need the spent outputs of a block
    WriteBack,   \* whether the chainstate buffers its commits
    MinRetained  \* newest blocks the ledger always retains

ASSUME DriverAssumption ==
    /\ MaxBatch \in Nat \ {0}
    /\ Retention \in Nat /\ Retention >= MaxBatch
    /\ WriteBack \in BOOLEAN
    /\ MinRetained \in Nat

VARIABLES
    run,       \* the ledger's retained blocks: a set of <<height, block>>
    staged,    \* its staged segment, if any
    active,    \* headers.active chain
    chain,     \* the chainstate: the blocks it has executed
    hard,      \* how many of them a crash leaves
    undo,      \* heights whose block undo the chainstate holds
    idx,       \* the blocks each index represents
    idxUndo,   \* heights whose rollback row each index holds
    on,        \* the indexes this run of the process was started with
    pc         \* where the driver is

store == <<run, staged>>
state == <<chain, hard, undo>>
indexes == <<idx, idxUndo, on>>
vars == <<run, staged, active, chain, hard, undo, idx, idxUndo, on, pc>>

Least(a, b) == IF a <= b THEN a ELSE b
Prefix(s, n) == SubSeq(s, 1, n)
Chains == UNION {{Prefix(b, n) : n \in 0 .. Len(b)} : b \in Branches}
MaxHeight == CHOOSE n \in {Len(b) : b \in Branches} : \A b \in Branches : Len(b) <= n

\* The blocks of a chain from one height to another.
Segment(c, from, to) == [first |-> from, blocks |-> SubSeq(c, from, to)]
AllSegments == UNION {{Segment(c, from, to) : from \in 1 .. to} :
                        <<c, to>> \in {<<b, n>> \in Branches \X (1 .. MaxHeight) : n <= Len(b)}}

L == INSTANCE BlockStore WITH Segments <- AllSegments

\* active_header_at(height) is the chain's last block.
OnActive(c) == c # <<>> => /\ Len(c) <= Len(active)
                           /\ active[Len(c)] = c[Len(c)]

Init ==
    /\ run = {} /\ staged = {}
    /\ active = <<>>
    /\ chain = <<>> /\ hard = 0 /\ undo = {}
    /\ idx = [i \in Indexes |-> <<>>]
    /\ idxUndo = [i \in Indexes |-> {}]
    /\ on = Indexes
    /\ pc = "start"

\* The peer's headers are staged and persisted; more work takes over.
SyncHeaders == active' \in {active} \cup {c \in Chains : Len(c) > Len(active)}

\* commit_connect_batch, durable at once or with the next flush.
Connected(seg) ==
    /\ chain' = chain \o seg.blocks
    /\ undo' = undo \cup (Len(chain) + 1 .. Len(chain) + Len(seg.blocks))
    /\ hard' = IF WriteBack THEN hard ELSE Len(chain')

\* disconnect_execution_tip: takes the undo record, and is durable.
Rewind ==
    /\ pc = "rewind"
    /\ ~ OnActive(chain)
    /\ Len(chain) \in undo
    /\ chain' = Prefix(chain, Len(chain) - 1)
    /\ undo' = undo \ {Len(chain)}
    /\ hard' = Len(chain')
    /\ UNCHANGED <<store, active, indexes, pc>>

-----------------------------------------------------------------------------
(* Recovery: reconcile_ledger, recover_local_reindex_staging. *)

\* Blocks above the chainstate are dropped.
TruncateLedger ==
    /\ pc = "rewind"
    /\ OnActive(chain)
    /\ run' = L!Below(run, Len(chain) + 1)
    /\ pc' = "staging"
    /\ UNCHANGED <<staged, active, state, indexes>>

\* How many staged blocks the chainstate has executed.
Executed(seg) == Least(Len(chain) + 1 - seg.first, Len(seg.blocks))
OnActiveChain(seg) == \A k \in 1 .. Executed(seg) : seg.blocks[k] = active[seg.first + k - 1]
Recoverable(seg) == seg.first <= Len(chain) /\ OnActiveChain(seg)

\* Mutant of DropStaged: a staged segment right above the tip is neither dropped nor
\* recovered.
DropStagedAbove ==
    /\ pc = "staging"
    /\ \E seg \in staged : seg.first > Len(chain) + 1
    /\ staged' = {}
    /\ UNCHANGED <<run, active, state, indexes, pc>>

\* The staged segment was not executed, or is of another branch.
DropStaged ==
    /\ pc = "staging"
    /\ \E seg \in staged : ~ Recoverable(seg)
    /\ staged' = {}
    /\ UNCHANGED <<run, active, state, indexes, pc>>

\* Mutant of RecoverStaged: the executed part is taken off the stage without being
\* published.
RecoverStagedUnpublished ==
    /\ pc = "staging"
    /\ \E seg \in staged : Recoverable(seg)
    /\ staged' = {}
    /\ UNCHANGED <<run, active, state, indexes, pc>>

\* commit_staged(n) of what was executed: all of it is published at once, a part is
\* appended first and taken off the stage in a second step, and what had been
\* appended before is only taken off the stage.  The backfill below the staged
\* segment that comes first finds nothing to do (RecoveryIsAccepted).
RecoverStaged ==
    /\ pc = "staging"
    /\ \E seg \in staged :
        LET n == Executed(seg)
            part == [first |-> seg.first, blocks |-> Prefix(seg.blocks, n)]
        IN  /\ Recoverable(seg)
            /\ \/ /\ run' \in L!Added(run, part)
                  /\ staged' = IF n = Len(seg.blocks) THEN {} ELSE staged
               \/ /\ run # {} /\ L!Tip(run) + 1 = seg.first + n
                  /\ L!Placed(part) \subseteq run
                  /\ staged' = {}
                  /\ UNCHANGED run
    /\ UNCHANGED <<active, state, indexes, pc>>

-----------------------------------------------------------------------------
(* reconcile_auxiliary_indexes.  The explorer is reconciled in the same way, but    *)
(* never prunes its rollback rows, and the transaction index takes no undo record: *)
(* both can follow whenever the indexes here can.                                  *)

\* validate_index_activation, before anything else is done with an index.  A peer has
\* the history, so only an index above the chainstate is refused.
Activated(i) == Len(idx[i]) <= Len(chain)

AtCommon(i) == Len(idx[i]) <= Len(chain) /\ OnActive(idx[i])

RewindIndex(i) ==
    /\ pc = "indexing"
    /\ Activated(i)
    /\ ~ AtCommon(i)
    /\ Len(idx[i]) \in idxUndo[i]
    /\ idx' = [idx EXCEPT ![i] = Prefix(@, Len(@) - 1)]
    /\ idxUndo' = [idxUndo EXCEPT ![i] = @ \ {Len(idx[i])}]
    /\ UNCHANGED <<store, active, state, on, pc>>

\* Blocks come from the ledger or a peer, spent outputs from the chainstate's undo.
CatchUpIndex(i) ==
    /\ pc = "indexing"
    /\ AtCommon(i)
    /\ \E to \in Len(idx[i]) + 1 .. Least(Len(idx[i]) + MaxBatch, Len(chain)) :
        /\ Len(idx[i]) + 1 .. to \subseteq undo
        /\ idx' = [idx EXCEPT ![i] = Prefix(active, to)]
        /\ idxUndo' = [idxUndo EXCEPT ![i] = @ \cup (Len(idx[i]) + 1 .. to)]
    /\ UNCHANGED <<store, active, state, on, pc>>

Ready ==
    /\ pc = "indexing"
    /\ \A i \in on : AtCommon(i) /\ Len(idx[i]) = Len(chain)
    /\ pc' = "ready"
    /\ UNCHANGED <<store, active, state, indexes>>

-----------------------------------------------------------------------------
(* download_execute_batch, execute_local_reindex_batch. *)

\* The next blocks of the active chain are downloaded and staged.
StageBatch ==
    /\ pc = "ready"
    /\ staged = {}
    /\ Len(chain) < Len(active)
    /\ staged' = {Segment(active, Len(chain) + 1,
                          Least(Len(chain) + MaxBatch, Len(active)))}
    /\ pc' = "staged"
    /\ UNCHANGED <<run, active, state, indexes>>

\* The batch executes on the chain it extends.
ConnectBatch ==
    /\ pc = "staged"
    /\ OnActive(chain)
    /\ \E seg \in staged : Connected(seg)
    /\ pc' = "connected"
    /\ UNCHANGED <<store, active, indexes>>

\* index_validated_blocks: each index, in a thread of its own, takes the batch.
IndexBatch(i) ==
    /\ pc = "connected"
    /\ idx[i] # chain
    /\ \E seg \in staged :
        /\ idx[i] = Prefix(chain, seg.first - 1)
        /\ idx' = [idx EXCEPT ![i] = chain]
        /\ idxUndo' = [idxUndo EXCEPT ![i] = @ \cup (seg.first .. Len(chain))]
    /\ UNCHANGED <<store, active, state, on, pc>>

\* Mutant of PublishBatch: the batch is published before the indexes have taken it.
PublishBatchUnindexed ==
    /\ pc = "connected"
    /\ \E seg \in staged : run' \in L!Added(run, seg)
    /\ staged' = {}
    /\ pc' = "published"
    /\ UNCHANGED <<active, state, indexes>>

\* commit_staged, once every index is at the tip.
PublishBatch ==
    /\ pc = "connected"
    /\ \A i \in on : idx[i] = chain
    /\ \E seg \in staged : run' \in L!Added(run, seg)
    /\ staged' = {}
    /\ pc' = "published"
    /\ UNCHANGED <<active, state, indexes>>

\* prune_expired_block_undos and prune_expired_auxiliary_index_undos.
PruneUndos(next) ==
    /\ undo' = IF run = {} THEN undo ELSE {h \in undo : h >= L!First(run)}
    /\ idxUndo' = IF run = {} THEN idxUndo
                  ELSE [i \in Indexes |-> {h \in idxUndo[i] : i \in on => h >= L!First(run)}]
    /\ pc' = next
    /\ UNCHANGED <<store, active, chain, hard, idx, on>>

EndBatch == pc = "published" /\ PruneUndos("ready")

Batch == StageBatch \/ ConnectBatch \/ (\E i \in on : IndexBatch(i))
         \/ PublishBatch \/ EndBatch

-----------------------------------------------------------------------------

\* A write-back commit lands.
Harden ==
    /\ hard < Len(chain)
    /\ hard' \in (hard + 1) .. Len(chain)
    /\ UNCHANGED <<store, active, chain, undo, indexes, pc>>

\* The process dies, or a step of the driver fails and the run is started again
\* with another peer: what is not durable is lost.
Restart ==
    /\ pc # "start"
    /\ chain' = Prefix(chain, hard)
    /\ undo' = {h \in undo : h <= hard}
    /\ pc' = "start"
    /\ UNCHANGED <<store, active, hard, indexes>>

\* validate_manual_prune_indexes: an index that has still to take a block keeps it.
\* The ledger's tip stands for the execution tip.
StrandsNoIndex(r) ==
    \A i \in Indexes :
        /\ Len(idx[i]) <= L!Tip(r)
        /\ Len(idx[i]) < L!Tip(r) => Len(idx[i]) + 1 >= L!First(r)

\* The operator prunes the ledger while no node runs on the directory; the audit that
\* comes first refuses a ledger with a staged segment.
PruneLedger ==
    /\ pc = "start"
    /\ run # {} /\ staged = {}
    /\ \E r \in L!Pruned(run) \ {run} : StrandsNoIndex(r) /\ run' = r
    /\ UNCHANGED <<staged, active, state, indexes, pc>>

-----------------------------------------------------------------------------
(* Properties every driver should have. *)

\* A retained block at a height the chainstate has executed is the block it
\* executed: a stale block read back for its transactions, or served, is never of
\* another branch ("retained stale block at height ... has hash").
RetainedIsExecuted ==
    \A p \in run : p[1] <= Len(chain) => p[2] = chain[p[1]]

\* A new batch finds nothing staged ("staged segment already exists").
StageIsAccepted == pc = "ready" => staged = {}

\* A batch that was executed and indexed can be published: the ledger never refuses
\* it as one that "does not extend ledger tip".
CommitIsAccepted ==
    pc = "connected" => \A seg \in staged : L!Extends(run, seg)

\* The executed part of the staged segment that a restart finds can be published:
\* the ledger ends right below it, or with it.
RecoveryIsAccepted ==
    pc = "staging" =>
        \A seg \in staged :
            Recoverable(seg) =>
                \/ L!Extends(run, seg)
                \/ /\ L!Tip(run) + 1 = seg.first + Executed(seg)
                   /\ \A k \in 1 .. Executed(seg) :
                        <<seg.first + k - 1, seg.blocks[k]>> \in run
=============================================================================
