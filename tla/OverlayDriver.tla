--------------------------- MODULE OverlayDriver ---------------------------
(***************************************************************************)
(* The driver of a snapshot-overlay catch-up (run_overlay_catchup in         *)
(* src/src/node.rs): it opens with the headers it was given, discards what   *)
(* is staged, cuts the ledger above the chainstate, rewinds to the active    *)
(* chain and takes batches until the header tip.  It keeps no index, and the *)
(* chainstate may buffer its commits (WriteBack).                            *)
(***************************************************************************)
EXTENDS Driver

\* Headers are synchronised, then the chainstate and the ledger are opened.
Open ==
    /\ pc = "start"
    /\ SyncHeaders
    /\ pc' = "opened"
    /\ UNCHANGED <<store, state, indexes>>

\* discard_staged.
DiscardStaged ==
    /\ pc = "opened"
    /\ staged' = {}
    /\ pc' = "cut"
    /\ UNCHANGED <<run, active, state, indexes>>

\* Mutant of CutLedger: the ledger is opened as it is.
KeepLedger ==
    /\ pc = "cut"
    /\ pc' = "rewind"
    /\ UNCHANGED <<store, active, state, indexes>>

\* truncate_from(opened_tip + 1), before any rewind.
CutLedger ==
    /\ pc = "cut"
    /\ run' = L!Below(run, Len(chain) + 1)
    /\ pc' = "rewind"
    /\ UNCHANGED <<staged, active, state, indexes>>

\* The tip is on the active chain: the next batch, or the end.
Rewound ==
    /\ pc = "rewind"
    /\ OnActive(chain)
    /\ pc' = IF Len(chain) < Len(active) THEN "ready" ELSE "flush"
    /\ UNCHANGED <<store, active, state, indexes>>

\* download_execute_batch, with which the loop starts again.
OverlayBatch == StageBatch \/ ConnectBatch \/ PublishBatch
                \/ (pc = "published" /\ PruneUndos("rewind"))

\* flush_pending, and the run reports its tip.
Flush ==
    /\ pc = "flush"
    /\ hard' = Len(chain)
    /\ pc' = "done"
    /\ UNCHANGED <<store, active, chain, undo, indexes>>

Progress == Open \/ DiscardStaged \/ CutLedger \/ Rewind \/ Rewound \/ OverlayBatch \/ Flush

Next == Progress \/ (WriteBack /\ Harden) \/ Restart

Spec == Init /\ [][Next]_vars

-----------------------------------------------------------------------------
(* Properties. *)

\* A batch is never executed at a height the ledger already covers, where it could only be
\* refused "from then on": what a crash took from the chainstate's buffer is cut from the
\* ledger before the loop starts.  It holds of a single header chain (one branch): the cut
\* comes before the rewind, so the blocks that a reorganization disconnects stay in the
\* ledger, and CommitIsAccepted fails on the next batch.
BatchIsNew == pc = "connected" => \A seg \in staged, p \in run : p[1] < seg.first
=============================================================================
