---------------------------- MODULE OverlaySwap ----------------------------
(***************************************************************************)
(* How the MDBX overlay engine replaces its environment on disk              *)
(* (src/src/snapshot_overlay.rs): a rebase writes a snapshot and its index   *)
(* for the current tip and an empty environment bound to them, a compaction  *)
(* writes a copy of the environment; either is then swapped in by two        *)
(* directory renames.  Every file operation may fail, and the process may    *)
(* die between any two of them.                                              *)
(*                                                                           *)
(* A directory is the set of environments complete in it, {} or a singleton: *)
(* recovery looks for mdbx.dat, so a directory without it counts as absent.  *)
(* An environment is the height of its base and that of its tip.  Renames    *)
(* are durable in order.  The fingerprint sidecar is left out: it is         *)
(* rewritten or ignored when it is stale.                                    *)
(***************************************************************************)
EXTENDS Naturals, FiniteSets

CONSTANT MaxTip    \* bound: the highest block executed above the compiled base

VARIABLES
    dir,       \* the environment in each directory
    files,     \* <<height, kind>> of the rebase outputs that exist
    cleanup,   \* the outputs RemoveFilesOnDrop would remove
    op,        \* the operation under way
    pc,        \* its next step
    executed   \* history: the tip of the last committed block

vars == <<dir, files, cleanup, op, pc, executed>>

Fresh == [rebase |-> "rebasing", compact |-> "compacting"]
Aside == [rebase |-> "rebased-out", compact |-> "compacted-out"]
Asides == {"rebased-out", "compacted-out"}
Dirs == {"live", "rebasing", "compacting"} \cup Asides
Kinds == {"tmp", "snapshot", "index"}

\* The environment of a directory that has one.
EnvIn(d) == CHOOSE e \in dir[d] : TRUE
Live == EnvIn("live")

\* The base files of an environment are the operator's, or a rebase's outputs.
BaseFilesExist(e) == e.base > 0 => {<<e.base, "snapshot">>, <<e.base, "index">>} \subseteq files

Init ==
    /\ dir = [d \in Dirs |-> {}]
    /\ files = {} /\ cleanup = {}
    /\ op = "none" /\ pc = "boot"
    /\ executed = 0

-----------------------------------------------------------------------------
(* Opening: stored_identity, then open. *)

\* Mutant of Recovered: what is aside is not looked for.
RecoveredAsFound == dir

\* recover_interrupted_swap: an installed environment supersedes what is aside,
\* and without one the only copy set aside is put back.
Recovered ==
    LET present == {d \in Asides : dir[d] # {}}
    IN  CASE dir["live"] # {} -> [d \in Dirs |-> IF d \in Asides THEN {} ELSE dir[d]]
          [] OTHER -> [d \in Dirs |-> CASE d = "live" -> UNION {dir[a] : a \in present}
                                        [] d \in present -> {}
                                        [] OTHER -> dir[d]]

\* It refuses two copies without an installed environment.
Ambiguous == dir["live"] = {} /\ \A d \in Asides : dir[d] # {}

\* stored_identity; without an environment the compiled identity binds a new one.
Boot ==
    /\ pc = "boot"
    /\ ~ Ambiguous
    /\ dir' = IF Recovered["live"] = {}
              THEN [Recovered EXCEPT !["live"] = {[base |-> 0, tip |-> 0]}]
              ELSE Recovered
    /\ pc' = "open"
    /\ UNCHANGED <<files, cleanup, op, executed>>

\* open: the base files must be there and match the bound identity.
Open ==
    /\ pc = "open"
    /\ BaseFilesExist(Live)
    /\ pc' = "idle"
    /\ UNCHANGED <<dir, files, cleanup, op, executed>>

\* A batch is committed to the environment.
Execute ==
    /\ pc = "idle"
    /\ Live.tip < MaxTip
    /\ dir' = [dir EXCEPT !["live"] = {[Live EXCEPT !.tip = @ + 1]}]
    /\ executed' = executed + 1
    /\ UNCHANGED <<files, cleanup, op, pc>>

-----------------------------------------------------------------------------
(* The steps of a rebase and of a compaction. *)

\* An error ends the run: the guard removes what it tracks, the store is dropped
\* and the next run opens it again.
Fail ==
    /\ files' = files \ cleanup
    /\ cleanup' = {}
    /\ op' = "none"
    /\ pc' = "boot"

\* One step of the running operation is done.
Step(from, to) == pc = from /\ pc' = to /\ UNCHANGED <<op, executed>>

BeginCompact ==
    /\ pc = "idle"
    /\ op' = "compact"
    /\ pc' = "clear"
    /\ UNCHANGED <<dir, files, cleanup, executed>>

\* The driver rebases a tip above its base, when the overlay is full enough.
BeginRebase ==
    /\ pc = "idle"
    /\ Live.tip > Live.base
    /\ op' = "rebase"
    /\ pc' = "check"
    /\ UNCHANGED <<dir, files, cleanup, executed>>

\* The snapshot and index of this height must not exist.
CheckOutputs ==
    /\ Step("check", "clear")
    /\ {<<Live.tip, "snapshot">>, <<Live.tip, "index">>} \cap files = {}
    /\ UNCHANGED <<dir, files, cleanup>>

\* clear_aside_copies.
ClearAside ==
    /\ Step("clear", IF op = "rebase" THEN "stage" ELSE "copy")
    /\ dir' = [d \in Dirs |-> IF d \in Asides THEN {} ELSE dir[d]]
    /\ UNCHANGED <<files, cleanup>>

\* The merge is written to a file that this rebase creates.
StageSnapshot ==
    /\ Step("stage", "publish")
    /\ <<Live.tip, "tmp">> \notin files
    /\ files' = files \cup {<<Live.tip, "tmp">>}
    /\ cleanup' = {<<Live.tip, "tmp">>}
    /\ UNCHANGED dir

\* It is renamed to the snapshot, which the guard tracks instead.
PublishSnapshot ==
    /\ Step("publish", "index")
    /\ files' = (files \ {<<Live.tip, "tmp">>}) \cup {<<Live.tip, "snapshot">>}
    /\ cleanup' = {<<Live.tip, "snapshot">>}
    /\ UNCHANGED dir

\* build_core_snapshot_index_with_identity; the index is tracked from then on.
BuildIndex ==
    /\ Step("index", "copy")
    /\ files' = files \cup {<<Live.tip, "index">>}
    /\ cleanup' = cleanup \cup {<<Live.tip, "index">>}
    /\ UNCHANGED dir

\* The index is published and then the build fails: its directory cannot be
\* synchronised, or its sidecar cannot be written.
BuildIndexFails ==
    /\ pc = "index"
    /\ files' = (files \cup {<<Live.tip, "index">>}) \ cleanup
    /\ cleanup' = {}
    /\ op' = "none"
    /\ pc' = "boot"
    /\ UNCHANGED <<dir, executed>>

\* The replacement is built and closed beside the environment.
BuildFresh ==
    /\ Step("copy", "aside")
    /\ dir' = [dir EXCEPT ![Fresh[op]] =
                 {IF op = "rebase" THEN [base |-> Live.tip, tip |-> Live.tip] ELSE Live}]
    /\ UNCHANGED <<files, cleanup>>

\* The environment is closed and set aside.
SetAside ==
    /\ Step("aside", "install")
    /\ dir' = [dir EXCEPT ![Aside[op]] = dir["live"], !["live"] = {}]
    /\ UNCHANGED <<files, cleanup>>

\* The replacement takes its name.
Install ==
    /\ Step("install", "finish")
    /\ dir' = [dir EXCEPT !["live"] = dir[Fresh[op]], ![Fresh[op]] = {}]
    /\ UNCHANGED <<files, cleanup>>

\* The second rename failed: the environment is put back, or that fails too.
RollBack ==
    /\ pc = "install"
    /\ \/ dir' = [dir EXCEPT !["live"] = dir[Aside[op]], ![Aside[op]] = {}]
       \/ UNCHANGED dir
    /\ Fail
    /\ UNCHANGED executed

\* Mutant of Finish: the guard is still armed when the new environment is opened.
FinishArmed ==
    /\ pc = "finish"
    /\ dir' \in {dir, [dir EXCEPT ![Aside[op]] = {}]}
    /\ cleanup' = {}
    /\ op' = "none"
    /\ \/ pc' = "idle" /\ UNCHANGED files
       \/ pc' = "boot" /\ files' = files \ cleanup
    /\ UNCHANGED executed

\* The old environment is removed if it can be, the outputs are kept and the new
\* environment is opened, or the run ends because it cannot be.
Finish ==
    /\ pc = "finish"
    /\ dir' \in {dir, [dir EXCEPT ![Aside[op]] = {}]}
    /\ cleanup' = {}
    /\ op' = "none"
    /\ pc' \in {"idle", "boot"}
    /\ UNCHANGED <<files, executed>>

\* A step before the first rename fails: whichever copies it removed stay removed.
StepFails ==
    /\ pc \in {"check", "clear", "stage", "publish", "index", "copy", "aside"}
    /\ IF pc = "clear"
       THEN \E gone \in SUBSET Asides : dir' = [d \in Dirs |-> IF d \in gone THEN {} ELSE dir[d]]
       ELSE UNCHANGED dir
    /\ Fail
    /\ UNCHANGED executed

\* The process dies: nothing is cleaned up.
Crash ==
    /\ cleanup' = {}
    /\ op' = "none"
    /\ pc' = "boot"
    /\ UNCHANGED <<dir, files, executed>>

Next ==
    \/ Boot \/ Open \/ Execute \/ BeginCompact \/ BeginRebase \/ CheckOutputs \/ ClearAside
    \/ StageSnapshot \/ PublishSnapshot \/ BuildIndex \/ BuildIndexFails \/ BuildFresh
    \/ SetAside \/ Install \/ RollBack \/ Finish \/ StepFails \/ Crash

Spec == Init /\ [][Next]_vars

-----------------------------------------------------------------------------
(* Properties. *)

Envs == [base : Nat, tip : Nat]
Holdings == {{}} \cup {{e} : e \in Envs}

\* Type correctness: a directory holds at most one environment.
TypeOK ==
    /\ dir \in [Dirs -> Holdings]
    /\ files \subseteq (Nat \ {0}) \X Kinds
    /\ cleanup \subseteq (Nat \ {0}) \X Kinds
    /\ op \in {"none", "rebase", "compact"}
    /\ pc \in {"boot", "open", "idle", "check", "clear", "stage", "publish", "index", "copy",
               "aside", "install", "finish"}
    /\ executed \in Nat

\* Wherever a swap was interrupted, the environment that is opened next is at the
\* last committed block: catch-up never restarts from the compiled snapshot.
NoBlockIsLost == pc \in {"open", "idle"} => Live.tip = executed

\* Recovery always knows which copy is current: two set aside and none installed,
\* which it refuses, does not come about.
NeverAmbiguous == ~ Ambiguous

\* The files of the base that the opened environment is bound to are there: the
\* guard over a rebase's outputs never removes files an installed environment needs.
BaseIsOnDisk == pc \in {"open", "idle"} => BaseFilesExist(Live)
=============================================================================
