----------------------------- MODULE NodeDriver -----------------------------
(***************************************************************************)
(* The driver of a normal node (src/src/node.rs, the 'resync loop of the     *)
(* peer run): after every start and every header change it rewinds the       *)
(* chainstate to the active chain, reconciles the ledger with it, prunes     *)
(* undo records, brings the indexes to the tip, and only then takes batches. *)
(***************************************************************************)
EXTENDS Driver

CONSTANT Choices   \* the sets of indexes the operator may start the node with

ASSUME NodeAssumption == Choices \subseteq SUBSET Indexes

\* Headers are synchronised when the node starts, with some of its indexes enabled,
\* and when it has caught up.
Sync ==
    /\ \/ pc = "start" /\ on' \in Choices
       \/ pc = "ready" /\ Len(chain) >= Len(active) /\ UNCHANGED on
    /\ SyncHeaders
    /\ pc' = "rewind"
    /\ UNCHANGED <<store, state, idx, idxUndo>>

\* stage_submitted_blocks: a submitted block whose header has the most work is the
\* active tip from now on, without a new rewind.
Submit ==
    /\ pc = "ready"
    /\ active' \in {c \in Chains : Len(c) = Len(active) + 1}
    /\ UNCHANGED <<store, state, indexes, pc>>

\* The stale block is read back from the ledger first, and has to be the tip.
RewindTip ==
    /\ \A p \in run : p[1] = Len(chain) => p[2] = chain[Len(chain)]
    /\ Rewind

\* Its undo record has been pruned (MissingUndo): the run ends.
RefuseRewind == pc = "rewind" /\ ~ OnActive(chain) /\ Len(chain) \notin undo /\ Restart

-----------------------------------------------------------------------------
(* reconcile_ledger. *)

\* backfill_ledger(target): the blocks up to the target are fetched from a peer, a
\* window at a time.
Backfilled(target) == target = 0 \/ (run # {} /\ L!Tip(run) >= target)
FillFrom(target) ==
    IF run # {} THEN L!Tip(run) + 1
    ELSE IF target >= Retention THEN target - Retention + 1 ELSE 1
Backfill(target) ==
    /\ ~ Backfilled(target)
    /\ \E to \in FillFrom(target) .. Least(target, FillFrom(target) + MaxBatch - 1) :
        run' \in L!Added(run, Segment(active, FillFrom(target), to))
    /\ UNCHANGED <<staged, active, state, indexes, pc>>

\* Mutant of FillToTip: the backfill does not wait for the staged segment.
FillBeforeRecovery ==
    /\ pc = "staging"
    /\ Backfill(Len(chain))

\* The rest up to the tip.
FillToTip ==
    /\ pc = "staging"
    /\ staged = {}
    /\ Backfill(Len(chain))

Reconciled ==
    /\ pc = "staging"
    /\ staged = {}
    /\ Backfilled(Len(chain))
    /\ PruneUndos("indexing")

-----------------------------------------------------------------------------

Recovery ==
    \/ RewindTip \/ TruncateLedger
    \/ DropStaged \/ RecoverStaged \/ FillToTip \/ Reconciled
    \/ (\E i \in on : RewindIndex(i) \/ CatchUpIndex(i))
    \/ Ready

\* The batch does not extend the chain the chainstate is on: the run ends.
RefuseBatch == pc = "staged" /\ ~ OnActive(chain) /\ Restart

\* An index is above the chainstate, or a rollback row or an undo record that it takes
\* is gone: the run ends.
RefuseIndex ==
    /\ pc = "indexing"
    /\ \E i \in on :
        \/ ~ Activated(i)
        \/ ~ AtCommon(i) /\ Len(idx[i]) \notin idxUndo[i]
        \/ AtCommon(i) /\ Len(idx[i]) < Len(chain) /\ Len(idx[i]) + 1 \notin undo
    /\ Restart

Refuse == RefuseRewind \/ RefuseIndex \/ RefuseBatch

Next == Sync \/ Submit \/ Recovery \/ Batch \/ Refuse \/ Restart \/ PruneLedger

Spec == Init /\ [][Next]_vars

\* The driver keeps going while it has a peer that answers.
FairSpec == Spec /\ WF_vars(Sync) /\ WF_vars(Recovery) /\ WF_vars(Batch) /\ WF_vars(Refuse)

-----------------------------------------------------------------------------
(* Properties. *)

\* When batches are taken, ledger and indexes are exactly at the chainstate's tip.
ReadyIsConsistent ==
    pc \in {"ready", "staged"} =>
        /\ chain # <<>> => run # {} /\ L!Tip(run) = Len(chain)
        /\ \A i \in on : idx[i] = chain

\* An index that is never switched off, and that a crash left behind the chainstate, can
\* be brought to its tip: the undo records of the blocks it lacks have not been pruned.
EnabledIndexesCanFollow ==
    pc = "indexing" =>
        \A i \in on :
            AtCommon(i) /\ (\A s \in Choices : i \in s)
                => Len(idx[i]) + 1 .. Len(chain) \subseteq undo

\* The stale blocks of an index are disconnected with its own rollback rows ("stale
\* projections use their independent undo records"), so a reorganization never leaves an
\* index that the node refuses to start with.
StaleIndexIsAccepted == pc = "indexing" => \A i \in on : Activated(i)

\* The node catches up with the active chain, again and again, unless it keeps
\* being restarted.
CatchesUp ==
    <>[][pc' = "start" => pc = "staged" /\ ~ OnActive(chain)]_vars
        => []<>(pc = "ready" /\ chain = active)
=============================================================================
