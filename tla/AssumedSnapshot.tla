-------------------------- MODULE AssumedSnapshot --------------------------
(* A node that serves from an assumed UTXO snapshot while it validates the     *)
(* snapshot from genesis (--background-assumeutxo, node.rs and                  *)
(* chain_store.rs): two tasks of one process, each with its own peers, headers  *)
(* and chainstate.  The validation task replays the chain to the base of the    *)
(* snapshot in a directory of its own and reports through a shared status; the  *)
(* active task polls that status between its passes, compares the two UTXO      *)
(* sets, clears the durable marker and, if asked to, removes the directory.     *)
(* Header chains reorganize under both, sessions fail, and the process may stop *)
(* between any two steps.  A UTXO set is named by the block whose chain         *)
(* produced it.                                                                 *)
EXTENDS Naturals, Sequences

CONSTANTS Blocks,     \* the blocks of the tree
          Genesis,    \* its root
          Path,       \* [Blocks -> Seq(Blocks)]: the chain up to a block, without Genesis
          ChainWork,  \* [Blocks -> Nat]: the work of that chain
          Base,       \* the base block of the snapshot
          Setups,     \* what an operator may start with: records [set, cleanup, once, dir]
          Candidates, \* the peers a node with --once tries before it gives up
          None

VARIABLES setup,      \* the operator's choice; never changes
          best,       \* the tip of the chain the peers serve
          active,     \* the active directory: [headers, tip, marker, origin]
          val,        \* the validation directory: [dir, owned, headers, tip, target]
          task,       \* where each task of the process is
          left,       \* with --once, the peers the active task has not tried yet
          status      \* BackgroundValidationState

vars == <<setup, best, active, val, task, left, status>>

Tasks == {"active", "validation"}
Off == [t \in Tasks |-> "off"]
Running == task["active"] \notin {"off", "claim"}

Height(b) == Len(Path[b])

\* headers.active_header_at(b.height) is b.
OnChain(b, tip) == b = Genesis \/ \E i \in DOMAIN Path[tip] : Path[tip][i] = b

ParentOf(b) == IF Height(b) = 1 THEN Genesis ELSE Path[b][Height(b) - 1]

\* The blocks a batch may end at: above tip on the chain of the headers, and not
\* above the ceiling.
Ahead(tip, headers, ceiling) ==
    {b \in Blocks : /\ OnChain(b, headers) /\ Height(b) > Height(tip)
                    /\ Height(b) <= Height(ceiling)}

Later(headers) == IF ChainWork[best] > ChainWork[headers] THEN best ELSE headers

-----------------------------------------------------------------------------
Init ==
    /\ setup \in Setups
    /\ best \in Blocks
    /\ active = [headers |-> best, tip |-> Genesis, marker |-> None, origin |-> None]
    /\ val = [dir |-> setup.dir, owned |-> FALSE, headers |-> Genesis,
              tip |-> Genesis, target |-> None]
    /\ task = Off
    /\ left = Candidates
    /\ status = "pending"

\* A branch with more work appears.
Announce(b) ==
    /\ ChainWork[b] > ChainWork[best]
    /\ best' = b
    /\ UNCHANGED <<setup, active, val, task, left, status>>

\* --assumeutxo-snapshot: only into a fresh chainstate, at a base on the active
\* header chain; tip, marker and origin appear in one transaction.
Activate ==
    /\ task = Off
    /\ active.tip = Genesis /\ active.marker = None /\ active.origin = None
    /\ OnChain(Base, active.headers)
    /\ active' = [active EXCEPT !.tip = Base, !.origin = Base,
                                !.marker = [base |-> Base, set |-> setup.set]]
    /\ UNCHANGED <<setup, best, val, task, left, status>>

\* prepare_assumeutxo_validation up to the preflight, which leaves a chainstate
\* in the directory; whether the directory was empty is remembered.
Prepare ==
    /\ task = Off
    /\ val' = [val EXCEPT !.dir = "stores",
                          !.owned = @ /\ val.dir = "stores",
                          !.tip = IF val.dir = "stores" THEN @ ELSE Genesis,
                          !.headers = IF val.dir = "stores" THEN @ ELSE Genesis,
                          !.target = IF val.dir = "stores" THEN @ ELSE None]
    /\ task' = [task EXCEPT !["active"] = "claim",
                            !["validation"] = IF val.dir = "stores" THEN "off" ELSE "claim"]
    /\ UNCHANGED <<setup, best, active, left, status>>

\* The rest of it, and the two tasks of run_background_assumeutxo.
Claimable == task["validation"] = "claim"

MayClaim == active.marker # None /\ (val.owned \/ Claimable \/ ~setup.cleanup)

Claim ==
    /\ task["active"] = "claim"
    /\ IF MayClaim
       THEN /\ val' = [val EXCEPT !.owned = @ \/ Claimable]
            /\ task' = [t \in Tasks |-> "open"]
       ELSE task' = Off /\ UNCHANGED val
    /\ left' = Candidates
    /\ status' = "pending"
    /\ UNCHANGED <<setup, best, active>>

\* The process stops, or a task meets a local failure (a full disk), which ends it:
\* only the directories survive.
Crash ==
    /\ task # Off
    /\ task' = Off
    /\ UNCHANGED <<setup, best, active, val, left, status>>

-----------------------------------------------------------------------------
\* The base has no undo, whether its marker is still there or not.
MayDisconnect == active.tip \notin {Genesis, active.origin}

\* A pass of task t cannot go on: the target is not on the validator's active
\* header chain, or the active tip cannot be disconnected.
Refused(t) ==
    /\ task[t] = "step"
    /\ IF t = "validation" THEN ~OnChain(Base, val.headers)
       ELSE ~OnChain(active.tip, active.headers) /\ ~MayDisconnect

\* A session of task t ends with an error: the next candidate is tried.  When none is
\* left run_peer_pool waits and starts over, unless --once was given, which the
\* validator never is: then the task fails, its sibling is aborted and the process ends.
NextPeer(t) ==
    IF t = "active" /\ setup.once
    THEN /\ left' = left - 1
         /\ task' = IF left' = 0 THEN Off ELSE [task EXCEPT ![t] = "open"]
    ELSE task' = [task EXCEPT ![t] = "open"] /\ UNCHANGED left

\* The peer is lost, or the pass is refused.
SessionFails(t) ==
    /\ task[t] \in {"open", "poll", "step", "loop"}
    /\ NextPeer(t)
    /\ UNCHANGED <<setup, best, active, val, status>>

OpenActive ==
    /\ task["active"] = "open"
    /\ active' = [active EXCEPT !.headers = Later(@)]
    /\ task' = [task EXCEPT !["active"] = "poll"]
    /\ UNCHANGED <<setup, best, val, left, status>>

\* The validation task binds its target before anything else.
OpenValidation ==
    /\ task["validation"] = "open"
    /\ val.target \in {None, Base}
    /\ val' = [val EXCEPT !.target = Base, !.headers = Later(@)]
    /\ task' = [task EXCEPT !["validation"] = "step"]
    /\ UNCHANGED <<setup, best, active, left, status>>

RewindValidation ==
    /\ task["validation"] = "step"
    /\ ~Refused("validation")
    /\ IF OnChain(val.tip, val.headers)
       THEN task' = [task EXCEPT !["validation"] = "loop"] /\ UNCHANGED val
       ELSE val' = [val EXCEPT !.tip = ParentOf(@)] /\ UNCHANGED task
    /\ UNCHANGED <<setup, best, active, left, status>>

\* A batch of the validator never passes the target.
Validate(b) ==
    /\ task["validation"] = "loop"
    /\ b \in Ahead(val.tip, val.headers, val.target)
    /\ val' = [val EXCEPT !.tip = b]
    /\ UNCHANGED <<setup, best, active, task, left, status>>

\* Mutant of ValidationDone: the task ends without a word.
ValidationDoneSilently ==
    /\ task["validation"] = "loop"
    /\ val.tip = val.target
    /\ task' = [task EXCEPT !["validation"] = "done"]
    /\ UNCHANGED <<setup, best, active, val, left, status>>

\* The target is reached: the task ends and tells the active one.
ValidationDone ==
    /\ task["validation"] = "loop"
    /\ val.tip = val.target
    /\ task' = [task EXCEPT !["validation"] = "done"]
    /\ status' = "complete"
    /\ UNCHANGED <<setup, best, active, val, left>>

-----------------------------------------------------------------------------
\* Mutant of Finalizable: the coins of the two stores are not compared.
FinalizableUncompared ==
    /\ active.marker # None
    /\ val.tip = active.marker.base
    /\ val.target \in {None, active.marker.base}
    /\ OnChain(active.marker.base, active.headers)
    /\ OnChain(active.tip, active.headers)

\* What RedbChainStore::finalize_assumed_snapshot requires.
Finalizable ==
    /\ active.marker # None
    /\ val.tip = active.marker.base
    /\ val.target \in {None, active.marker.base}
    /\ OnChain(active.marker.base, active.headers)
    /\ OnChain(active.tip, active.headers)
    /\ val.tip = active.marker.set

\* cleanup_completed_validation_dir, which then removes the directory.
Removable ==
    /\ val.owned
    /\ val.target = active.origin
    /\ val.tip = active.origin

Removed == [val EXCEPT !.dir = "removed"]

\* poll_background_validation, once per pass and once per disconnected block.
PollQuiet ==
    /\ task["active"] = "poll"
    /\ status \in {"pending", "finalized"}
    /\ task' = [task EXCEPT !["active"] = "step"]
    /\ UNCHANGED <<setup, best, active, val, left, status>>

PollFailed ==
    /\ task["active"] = "poll"
    /\ \/ status = "failed"
       \/ status = "complete" /\ ~Finalizable
    /\ status' = "failed"
    /\ NextPeer("active")
    /\ UNCHANGED <<setup, best, active, val>>

PollComplete ==
    /\ task["active"] = "poll"
    /\ status = "complete"
    /\ Finalizable
    /\ active' = [active EXCEPT !.marker = None]
    /\ IF setup.cleanup
       THEN task' = [task EXCEPT !["active"] = "cleanup"] /\ UNCHANGED status
       ELSE task' = [task EXCEPT !["active"] = "step"] /\ status' = "finalized"
    /\ UNCHANGED <<setup, best, val, left>>

Cleanup ==
    /\ task["active"] = "cleanup"
    /\ Removable
    /\ val' = Removed
    /\ status' = "finalized"
    /\ task' = [task EXCEPT !["active"] = "step"]
    /\ UNCHANGED <<setup, best, active, left>>

\* The directory holds something else, or the file system refuses.
CleanupFails ==
    /\ task["active"] = "cleanup"
    /\ status' = "failed"
    /\ NextPeer("active")
    /\ UNCHANGED <<setup, best, active, val>>

-----------------------------------------------------------------------------
Rewind ==
    /\ task["active"] = "step"
    /\ ~Refused("active")
    /\ IF OnChain(active.tip, active.headers)
       THEN task' = [task EXCEPT !["active"] = "loop"] /\ UNCHANGED active
       ELSE /\ active' = [active EXCEPT !.tip = ParentOf(@)]
            /\ task' = [task EXCEPT !["active"] = "poll"]
    /\ UNCHANGED <<setup, best, val, left, status>>

Execute(b) ==
    /\ task["active"] = "loop"
    /\ b \in Ahead(active.tip, active.headers, active.headers)
    /\ active' = [active EXCEPT !.tip = b]
    /\ UNCHANGED <<setup, best, val, task, left, status>>

\* Caught up: the next pass starts with the headers of the peer, or, with --once,
\* the task ends.
CaughtUp ==
    /\ task["active"] = "loop"
    /\ active.tip = active.headers
    /\ IF setup.once
       THEN task' = [task EXCEPT !["active"] = "done"] /\ UNCHANGED active
       ELSE /\ task' = [task EXCEPT !["active"] = "poll"]
            /\ active' = [active EXCEPT !.headers = Later(@)]
    /\ UNCHANGED <<setup, best, val, left, status>>

\* finalize_background_if_pending, when both tasks have ended: what the active
\* task did not finalize is finalized, and the directory removed.
Finish ==
    /\ \A t \in Tasks : task[t] = "done"
    /\ active' = [active EXCEPT !.marker = IF Finalizable THEN None ELSE @]
    /\ val' = IF /\ setup.cleanup /\ val.dir = "stores" /\ Removable
                 /\ active'.marker = None
              THEN Removed ELSE val
    /\ task' = Off
    /\ UNCHANGED <<setup, best, left, status>>

\* --finalize-assumeutxo, offline.
FinalizeOffline ==
    /\ task = Off
    /\ val.dir = "stores"
    /\ Finalizable
    /\ active' = [active EXCEPT !.marker = None]
    /\ UNCHANGED <<setup, best, val, task, left, status>>

-----------------------------------------------------------------------------
Next ==
    \/ \E b \in Blocks : Announce(b)
    \/ Activate
    \/ Prepare
    \/ Claim
    \/ Crash
    \/ \E t \in Tasks : SessionFails(t)
    \/ OpenActive
    \/ OpenValidation
    \/ RewindValidation
    \/ \E b \in Blocks : Validate(b)
    \/ ValidationDone
    \/ PollQuiet
    \/ PollFailed
    \/ PollComplete
    \/ Cleanup
    \/ CleanupFails
    \/ Rewind
    \/ \E b \in Blocks : Execute(b)
    \/ CaughtUp
    \/ Finish
    \/ FinalizeOffline

Spec == Init /\ [][Next]_vars

\* Each task is polled by the runtime until it ends, and a session that is tried again
\* and again is not always lost at the same point.
Fairness ==
    /\ SF_vars(OpenActive) /\ SF_vars(PollQuiet \/ PollFailed \/ PollComplete)
    /\ WF_vars(Cleanup \/ CleanupFails) /\ SF_vars(Rewind)
    /\ SF_vars((\E b \in Blocks : Execute(b)) \/ CaughtUp) /\ WF_vars(Finish)
    /\ \A t \in Tasks : WF_vars(Refused(t) /\ SessionFails(t))
    /\ SF_vars(OpenValidation) /\ SF_vars(RewindValidation)
    /\ SF_vars((\E b \in Blocks : Validate(b)) \/ ValidationDone)

FairSpec == Spec /\ Fairness

-----------------------------------------------------------------------------
\* The marker of an assumed snapshot is gone only if the snapshot is the UTXO set
\* that executing the chain up to its base produces, whichever of the active
\* task, the end of the process and the offline command cleared it
\* (finalize_assumed_snapshot).
ClearedOnlyWhenValidated ==
    active.origin # None /\ active.marker = None => setup.set = Base

\* A validation directory is removed only when this node created it in an empty
\* place and the snapshot it vouches for is already finalized in the active
\* store (cleanup_completed_validation_dir): no stop in between loses the
\* evidence or somebody else's files.
EvidenceIsKept ==
    val.dir = "removed" => /\ setup.dir = "absent"
                           /\ active.origin = Base /\ active.marker = None

\* A process that goes on clears the marker once the base stays on the best chain,
\* unless the finalization failed: the validator's report is never lost, however the
\* passes of the two tasks, lost sessions and reorganizations interleave.
EventuallyFinalized ==
    <>[](Running /\ status # "failed" /\ OnChain(Base, best)) => []<>(active.marker = None)

\* A failed finalization ends the process (docs/ARCHITECTURE.md: "a validation or
\* finalization failure aborts and joins active service, terminates the combined
\* service, and leaves resumable state").
FailureEndsService == (Running /\ status = "failed") ~> ~Running
=============================================================================
