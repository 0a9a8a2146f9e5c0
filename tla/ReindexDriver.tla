--------------------------- MODULE ReindexDriver ---------------------------
(***************************************************************************)
(* The driver of a local reindex (reindex_from_complete_freezer in         *)
(* src/src/node.rs): it replays a source ledger into a new chainstate,     *)
(* ledger and indexes in an output directory of its own. Its headers are   *)
(* those of the source and do not change, so it rewinds nothing; it has no *)
(* peer, so what its ledger lacks after a crash can only come from the     *)
(* staged segment.                                                         *)
(***************************************************************************)
EXTENDS Driver

VARIABLE output   \* entries of the output directory: its lock, its owner marker, and
                  \* the file of each index (headers, chainstate, blocks and manifest
                  \* are always allowed and always created after the marker)

reindexVars == <<vars, output>>

InitReindex ==
    /\ active \in Branches
    /\ run = {} /\ staged = {}
    /\ chain = <<>> /\ hard = 0 /\ undo = {}
    /\ idx = [i \in Indexes |-> <<>>]
    /\ idxUndo = [i \in Indexes |-> {}]
    /\ on = {}
    /\ output = {}
    /\ pc = "start"

\* An empty directory is claimed: it is locked first, and then marked.
LockOutput ==
    /\ pc = "start"
    /\ output = {}
    /\ output' = {"lock"}
    /\ pc' = "claimed"
    /\ UNCHANGED <<store, active, state, indexes>>

MarkOutput ==
    /\ pc = "claimed"
    /\ output' = output \cup {"owner"}
    /\ pc' = "prepared"
    /\ UNCHANGED <<store, active, state, indexes>>

\* reject_unowned_reindex_entries: the entries an owned output may have.
Allowed == {"lock", "owner"}
Accepted(entries) == "owner" \in entries /\ entries \subseteq Allowed

\* What an earlier run left is taken up again, or refused.
ReopenOutput ==
    /\ pc = "start"
    /\ output # {}
    /\ pc' = IF Accepted(output) THEN "prepared" ELSE "refused"
    /\ UNCHANGED <<store, active, state, indexes, output>>

\* AuxiliaryIndexes::open creates the file of each index the command line asks for.
OpenIndexes ==
    /\ pc = "prepared"
    /\ on' \in SUBSET Indexes
    /\ output' = output \cup on'
    /\ pc' = "rewind"
    /\ UNCHANGED <<store, active, state, idx, idxUndo>>

\* recover_local_reindex_staging is through; recover_local_reindex_indexes follows.
StagingRecovered ==
    /\ pc = "staging"
    /\ staged = {}
    /\ pc' = "indexing"
    /\ UNCHANGED <<store, active, state, indexes>>

\* verify_freezer_cross_store: the ledger ends at the tip, and every block it retains is
\* of the active chain and has its undo record.
CrossStoreIsClean ==
    /\ chain # <<>> => run # {} /\ L!Tip(run) = Len(chain)
    /\ \A p \in run : p[1] <= Len(active) /\ active[p[1]] = p[2] /\ p[1] \in undo

\* finish_local_reindex: verified, the output loses its marker and is an ordinary data
\* directory.
Finish ==
    /\ pc = "ready"
    /\ chain = active
    /\ CrossStoreIsClean
    /\ \A i \in on : idx[i] = active
    /\ output' = output \ {"owner"}
    /\ pc' = "done"
    /\ UNCHANGED <<store, active, state, indexes>>

\* No index is ever ahead of the chainstate, so there is none to rewind.
Advance ==
    \/ TruncateLedger \/ DropStaged \/ RecoverStaged \/ StagingRecovered
    \/ (\E i \in on : CatchUpIndex(i)) \/ Ready
    \/ Batch

Progress ==
    \/ LockOutput \/ MarkOutput \/ ReopenOutput \/ OpenIndexes
    \/ (Advance /\ UNCHANGED output)
    \/ Finish

Next == Progress \/ (Restart /\ UNCHANGED output)

Spec == InitReindex /\ [][Next]_reindexVars
FairSpec == Spec /\ WF_reindexVars(Progress)

-----------------------------------------------------------------------------
(* Properties. *)

\* Wherever the command was interrupted, what it has built when it reaches the target
\* passes the verification that promotes it: the ledger ends at the tip, although
\* nothing can be fetched to repair it, it retains no block whose undo record was
\* pruned, and no index is behind.
PromotionIsAccepted ==
    pc = "ready" /\ chain = active => CrossStoreIsClean /\ \A i \in on : idx[i] = active

\* An index switched on for an output that was begun without it needs the undo records
\* from the first block on ("cannot resume ... because its execution undo was pruned").
LacksUndo ==
    pc = "indexing" /\ \E i \in on : ~ (Len(idx[i]) + 1 .. Len(chain) \subseteq undo)

\* The reindex finishes, unless it keeps being restarted, is refused its output or was
\* given an index too late.
Finishes ==
    <>[][pc' # "start"]_reindexVars => <>(pc \in {"done", "refused"} \/ LacksUndo)

\* An output that an earlier run of the command owned is taken up again.
OwnedIsResumed == pc = "refused" => "owner" \notin output
=============================================================================
