----------------------------- MODULE MCDrivers -----------------------------
(* The three ways the node drives its stores, each on a small instance: the     *)
(* normal node, the overlay catch-up and the local reindex, which have the      *)
(* variables of Driver in common; the block ledger they take for an atomic      *)
(* store; and the swap of an overlay's environment, which the catch-up calls    *)
(* between runs.  kind says which one a behaviour is about.                     *)
EXTENDS NodeDriver

CONSTANTS a1, a2, a3, a4, a5, b2, b3, b4, b5, b6, c4, c5, c6, x, y, v, w

VARIABLES
    kind,
    output,                                          \* ReindexDriver
    dir, files, cleanup, op, step, executed,         \* OverlaySwap
    file, index, stage, truncate, prune, maxBlocks, at, job, committed   \* Ledger

swapVars == <<dir, files, cleanup, op, step, executed>>
ledgerVars == <<file, index, stage, truncate, prune, maxBlocks, at, job, committed>>
mcVars == <<vars, kind, output, swapVars, ledgerVars>>

\* Three branches: the second parts from the others early, the third late.
MCBranches == {<<a1, a2, a3, a4, a5>>, <<a1, b2, b3, b4, b5, b6>>, <<a1, a2, a3, c4, c5, c6>>}
MCIndexes == {x, y}
\* x is always on, y is switched on and off.
MCChoices == {{x}, {x, y}}

O == INSTANCE OverlayDriver WITH
        Retention <- 3, MinRetained <- 3, Indexes <- {}, WriteBack <- TRUE
R == INSTANCE ReindexDriver WITH Retention <- 3
W == INSTANCE OverlaySwap WITH MaxTip <- 3, pc <- step
\* A ring of two slots, segments of one or two blocks, four heights with two rival blocks.
G == INSTANCE Ledger WITH
        NSlots <- 2, Retentions <- {2, 4}, MaxSegment <- 2, MaxHeight <- 4,
        Variants <- {v, w}, MinKept <- 1, staged <- stage, pc <- at

ASSUME G!LedgerAssumption

-----------------------------------------------------------------------------
MCInit ==
    /\ W!Init
    /\ G!Init
    /\ \/ kind \in {"node", "swap", "ledger"} /\ Init /\ output = {}
       \/ kind = "overlay" /\ O!Init /\ output = {}
       \/ kind = "reindex" /\ R!InitReindex
    /\ kind # "ledger" => maxBlocks = 2

NodeStep == kind = "node" /\ Next /\ UNCHANGED <<kind, output, swapVars, ledgerVars>>
\* The catch-up is given one header chain, which grows: in a reorganization it is stuck
\* (OverlayDriver).
OverlayStep ==
    /\ kind = "overlay" /\ O!Next
    /\ active' \in {Prefix(<<a1, a2, a3, a4, a5>>, n) : n \in 0 .. 5}
    /\ UNCHANGED <<kind, output, swapVars, ledgerVars>>
ReindexStep == kind = "reindex" /\ R!Next /\ UNCHANGED <<kind, swapVars, ledgerVars>>
SwapStep == kind = "swap" /\ W!Next /\ UNCHANGED <<kind, output, vars, ledgerVars>>
LedgerStep == kind = "ledger" /\ G!Next /\ UNCHANGED <<kind, output, vars, swapVars>>

MCNext == NodeStep \/ OverlayStep \/ ReindexStep \/ SwapStep \/ LedgerStep

\* The fairness of each driver.
MCSpec ==
    /\ MCInit /\ [][MCNext]_mcVars
    /\ WF_vars(kind = "node" /\ Sync) /\ WF_vars(kind = "node" /\ Recovery)
    /\ WF_vars(kind = "node" /\ Batch) /\ WF_vars(kind = "node" /\ Refuse)
    /\ WF_<<vars, output>>(kind = "reindex" /\ R!Progress)

-----------------------------------------------------------------------------
(* Properties. *)

\* The stores of a node never contradict each other: what the ledger retains at an
\* executed height is what was executed, a new batch finds nothing staged, and ledger
\* and indexes are at the chainstate's tip whenever batches are taken.
NodeStoresAgree ==
    kind = "node" => RetainedIsExecuted /\ StageIsAccepted /\ ReadyIsConsistent

\* Whatever a crash left, the recovery of a node goes through: the staged segment can be
\* published, and an index that is never switched off still finds the undo records of the
\* blocks it lacks (reconcile_ledger, reconcile_auxiliary_indexes).
NodeRecovers == kind = "node" => RecoveryIsAccepted /\ EnabledIndexesCanFollow

\* The node catches up with the active chain, again and again, unless it keeps being
\* restarted (NodeDriver, CatchesUp).
NodeCatchesUp == kind = "node" => CatchesUp

\* On a header chain that only grows, an overlay catch-up executes no batch at a height its
\* ledger already covers, whatever the write-back buffer lost in a crash
\* (run_overlay_catchup, truncate_from before the loop; OverlayDriver, BatchIsNew).
OverlayBatchIsNew == kind = "overlay" => O!BatchIsNew

\* A local reindex, which has no peer to fetch from, recovers from what it left on disk: its
\* output passes the final verification (recover_local_reindex_staging,
\* finish_local_reindex; ReindexDriver, PromotionIsAccepted).
ReindexRecovers == kind = "reindex" => R!PromotionIsAccepted

\* A local reindex finishes unless it keeps being restarted, is refused its output or is
\* given an index whose undo records are gone (ReindexDriver, Finishes).
ReindexFinishes == kind = "reindex" => R!Finishes

\* "A crash resumes from the durable execution tip": an output that the command owns is
\* taken up again (prepare_reindex_output; ReindexDriver, OwnedIsResumed).
ReindexResumes == kind = "reindex" => R!OwnedIsResumed

\* Wherever a swap was interrupted, the environment that is opened next is at the last
\* committed block (OverlaySwap, NoBlockIsLost).
NoBlockIsLost == W!NoBlockIsLost

\* The files of the base that the opened environment is bound to are there (OverlaySwap,
\* BaseIsOnDisk).
BaseIsOnDisk == W!BaseIsOnDisk

\* A restart of the ledger recovers the newest of the committed blocks and nothing else,
\* wherever the process died (Ledger, RecoveredIsRight).
RecoveredIsRight == kind = "ledger" => G!RecoveredIsRight

\* Through every crash and recovery the ledger is the atomic store that the drivers use
\* (BlockStore; Ledger, RefinesBlockStore).
RefinesBlockStore == G!RefinesBlockStore
=============================================================================
