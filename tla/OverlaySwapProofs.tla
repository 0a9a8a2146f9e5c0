------------------------- MODULE OverlaySwapProofs -------------------------
(***************************************************************************)
(* For every number of blocks: wherever a swap of the overlay environment   *)
(* fails or is cut off by a crash, the environment that is opened next is   *)
(* at the last committed block, and its base files are there.               *)
(***************************************************************************)
EXTENDS OverlaySwap, TLAPS

\* What recovery would open: the installed environment, else the one set aside.
Survivors ==
    IF dir["live"] # {} THEN dir["live"] ELSE dir["rebased-out"] \cup dir["compacted-out"]

\* An environment at the last committed block whose base can be opened.
Sound(e) == e.tip = executed /\ BaseFilesExist(e)

\* What the steps of an operation know about each other.
OpInv ==
    /\ pc \in {"boot", "open", "idle"} => op = "none" /\ cleanup = {}
    /\ pc \in {"check", "stage", "publish", "index"} => op = "rebase"
    /\ pc \in {"clear", "copy", "aside", "install", "finish"} => op # "none"
    /\ op = "compact" => cleanup = {}
    /\ op = "rebase" /\ pc # "finish" =>
        /\ cleanup \subseteq {executed} \X Kinds
        /\ \A e \in Survivors : e.base < executed
    /\ pc = "index" => <<executed, "snapshot">> \in files
    /\ op = "rebase" /\ pc \in {"copy", "aside", "install"} =>
        {<<executed, "snapshot">>, <<executed, "index">>} \subseteq files

\* Where the environments are while an operation runs.
DirInv ==
    /\ dir["live"] = {} => pc \in {"boot", "install"}
    /\ pc \in {"stage", "publish", "index", "copy", "aside"} =>
        dir["rebased-out"] = {} /\ dir["compacted-out"] = {}
    /\ pc \in {"aside", "install"} =>
        dir[Fresh[op]] # {} /\ \A e \in dir[Fresh[op]] : Sound(e)
    /\ pc = "install" => dir["live"] = {} /\ dir[Aside[op]] # {}

\* The inductive invariant: a survivor is sound, there is one unless nothing was
\* ever committed, and recovery can tell which it is.
IInv ==
    /\ TypeOK
    /\ ~ Ambiguous
    /\ \A e \in Survivors : Sound(e)
    /\ Survivors = {} => pc = "boot" /\ executed = 0
    /\ OpInv
    /\ DirInv
-----------------------------------------------------------------------------

\* The installed environment is what Live names.
LEMMA LiveIsInstalled ==
    ASSUME TypeOK, dir["live"] # {}
    PROVE  dir["live"] = {Live} /\ Live \in Envs
<1>1. PICK e \in Envs : dir["live"] = {e}
  BY DEF TypeOK, Holdings, Dirs
<1>2. Live = e
  BY <1>1 DEF Live, EnvIn
<1> QED
  BY <1>1, <1>2

\* What a directory can hold.
LEMMA HoldingsAre ==
    /\ {} \in Holdings
    /\ \A e \in Envs : {e} \in Holdings
    /\ \A h \in Holdings : \A e \in h : e \in Envs
  BY DEF Holdings

\* recover_interrupted_swap leaves the survivor installed and nothing aside.
LEMMA RecoveredIs ==
    ASSUME TypeOK, ~ Ambiguous
    PROVE  /\ Recovered \in [Dirs -> Holdings]
           /\ Recovered["live"] = Survivors
           /\ Recovered["rebased-out"] = {} /\ Recovered["compacted-out"] = {}
<1> USE DEF Dirs, Asides
<1>1. CASE dir["live"] # {}
  BY <1>1, HoldingsAre DEF Recovered, Survivors, TypeOK
<1>2. CASE dir["live"] = {}
  <2> DEFINE present == {d \in Asides : dir[d] # {}}
             found == UNION {dir[a] : a \in present}
  <2>1. found = dir["rebased-out"] \cup dir["compacted-out"]
    OBVIOUS
  <2>2. dir["rebased-out"] = {} \/ dir["compacted-out"] = {}
    BY <1>2 DEF Ambiguous
  <2>3. found = dir["rebased-out"] \/ found = dir["compacted-out"]
    BY <2>1, <2>2
  <2>4. found \in Holdings
    BY <2>3 DEF TypeOK
  <2>5. Recovered = [d \in Dirs |-> CASE d = "live" -> found
                                      [] d \in present -> {}
                                      [] OTHER -> dir[d]]
    BY <1>2 DEF Recovered
  <2> HIDE DEF found
  <2> QED
    BY <1>2, <2>1, <2>4, <2>5, HoldingsAre DEF Survivors, TypeOK
<1> QED
  BY <1>1, <1>2

\* An empty directory satisfies the invariant.
LEMMA InitIInv == Init => IInv
  BY DEF Init, IInv, TypeOK, Holdings, Dirs, Asides, Ambiguous, Survivors, OpInv, DirInv

\* Outside a swap the survivor is the installed environment.
LEMMA InstalledIs ==
    ASSUME IInv, pc \notin {"boot", "install"}
    PROVE  /\ dir["live"] = {Live} /\ Survivors = {Live} /\ Live \in Envs
           /\ Sound(Live) /\ Live.tip = executed
<1>1. dir["live"] = {Live} /\ Live \in Envs
  BY LiveIsInstalled DEF IInv, DirInv
<1>2. Survivors = {Live}
  BY <1>1 DEF Survivors
<1> QED
  BY <1>1, <1>2 DEF IInv, Sound

\* Steps that leave every environment where it is.
LEMMA SameDirs ==
    ASSUME IInv, dir' = dir, executed' = executed, TypeOK', OpInv',
           \A e \in Survivors : BaseFilesExist(e) => BaseFilesExist(e)',
           pc \notin {"boot", "install"} \/ pc' = "boot",
           pc' \notin {"stage", "aside", "install"},
           pc' \in {"publish", "index", "copy"} =>
               dir["rebased-out"] = {} /\ dir["compacted-out"] = {}
    PROVE  IInv'
<1>1. Survivors' = Survivors
  BY DEF Survivors
<1>2. /\ \A e \in Survivors' : Sound(e)'
      /\ Survivors' = {} => pc' = "boot" /\ executed' = 0
  BY <1>1 DEF IInv, Sound
<1>3. ~ Ambiguous' /\ DirInv'
  BY DEF IInv, DirInv, Ambiguous
<1> QED
  BY <1>2, <1>3 DEF IInv

\* An operation that fails removes only files of the block it was rebasing to.
LEMMA FailKeeps ==
    ASSUME IInv, Fail, pc # "finish"
    PROVE  /\ \A e \in Survivors : BaseFilesExist(e) => BaseFilesExist(e)'
           /\ files' \subseteq files /\ cleanup' = {} /\ op' = "none" /\ pc' = "boot"
           /\ OpInv'
<1>1. files' = files \ cleanup /\ cleanup' = {} /\ op' = "none" /\ pc' = "boot"
  BY DEF Fail
<1>2. \A e \in Survivors :
        <<e.base, "snapshot">> \notin cleanup /\ <<e.base, "index">> \notin cleanup
  <2>1. CASE op = "rebase"
    <3>1. \A e \in Survivors : e.base < executed /\ e.base \in Nat /\ executed \in Nat
      <4>1. \A e \in Survivors : e \in Envs
        BY HoldingsAre DEF IInv, TypeOK, Dirs, Asides, Survivors
      <4> QED
        BY <2>1, <4>1 DEF IInv, OpInv, Envs, TypeOK
    <3>2. cleanup \subseteq {executed} \X Kinds
      BY <2>1 DEF IInv, OpInv
    <3> QED
      BY <3>1, <3>2
  <2>2. CASE op # "rebase"
    BY <2>2 DEF IInv, OpInv, TypeOK
  <2> QED
    BY <2>1, <2>2
<1>3. \A e \in Survivors : BaseFilesExist(e) => BaseFilesExist(e)'
  BY <1>1, <1>2 DEF BaseFilesExist
<1>4. OpInv'
  BY <1>1 DEF OpInv
<1> QED
  BY <1>1, <1>3, <1>4

\* Every step preserves the inductive invariant.
LEMMA NextIInv == IInv /\ [Next]_vars => IInv'
<1> SUFFICES ASSUME IInv, [Next]_vars PROVE IInv'
  OBVIOUS
<1> USE DEF IInv
<1>1. CASE Boot
  <2> DEFINE new == [base |-> 0, tip |-> 0]
  <2>1. new \in Envs /\ new.base = 0 /\ new.tip = 0
    BY DEF Envs
  <2> HIDE DEF new
  <2>2. /\ dir' \in [Dirs -> Holdings]
        /\ dir'["live"] = IF Survivors = {} THEN {new} ELSE Survivors
        /\ dir'["rebased-out"] = {} /\ dir'["compacted-out"] = {}
    BY <1>1, <2>1, RecoveredIs, HoldingsAre DEF Boot, Dirs, Asides, new
  <2>3. \A e \in dir'["live"] : Sound(e)
    <3>1. CASE Survivors = {}
      BY <2>1, <2>2, <3>1 DEF Sound, BaseFilesExist
    <3>2. CASE Survivors # {}
      BY <2>2, <3>2
    <3> QED
      BY <3>1, <3>2
  <2>4. pc' = "open" /\ op' = "none" /\ cleanup' = {}
    BY <1>1 DEF Boot, OpInv
  <2>5. files' = files /\ executed' = executed
    BY <1>1 DEF Boot
  <2> QED
    BY <2>2, <2>3, <2>4, <2>5
       DEF TypeOK, Ambiguous, Asides, Survivors, Sound, BaseFilesExist, OpInv, DirInv
<1>2. CASE Open
  <2>1. TypeOK' /\ OpInv'
    BY <1>2 DEF Open, TypeOK, OpInv
  <2> QED
    BY <1>2, <2>1, SameDirs DEF Open, BaseFilesExist
<1>3. CASE Execute
  <2>1. dir["live"] = {Live} /\ Live \in Envs /\ Sound(Live)
    BY <1>3, InstalledIs DEF Execute
  <2> DEFINE new == [Live EXCEPT !.tip = @ + 1]
  <2>2. new \in Envs /\ new.tip = executed + 1 /\ new.base = Live.base
    BY <1>3, <2>1 DEF Execute, Envs, Sound
  <2>3. executed + 1 \in Nat
    BY <1>3, <2>1 DEF Execute, Envs, Sound, TypeOK
  <2> HIDE DEF new
  <2>4. /\ dir' \in [Dirs -> Holdings]
        /\ dir'["live"] = {new}
        /\ \A a \in Asides : dir'[a] = dir[a]
    BY <1>3, <2>2, HoldingsAre DEF Execute, TypeOK, Dirs, Asides, new
  <2>5. UNCHANGED <<files, cleanup, op, pc>> /\ executed' = executed + 1 /\ pc = "idle"
    BY <1>3 DEF Execute
  <2>6. \A e \in {new} : Sound(e)'
    BY <2>1, <2>2, <2>5 DEF Sound, BaseFilesExist
  <2> QED
    BY <2>2, <2>3, <2>4, <2>5, <2>6
       DEF TypeOK, Ambiguous, Asides, Survivors, Sound, BaseFilesExist, OpInv, DirInv
<1>4. CASE BeginCompact
  <2>1. TypeOK' /\ OpInv'
    BY <1>4 DEF BeginCompact, TypeOK, OpInv
  <2> QED
    BY <1>4, <2>1, SameDirs DEF BeginCompact, BaseFilesExist
<1>5. CASE BeginRebase
  <2>1. TypeOK'
    BY <1>5 DEF BeginRebase, TypeOK
  <2>2. Survivors' = {Live} /\ Live.base < executed
    BY <1>5, InstalledIs DEF BeginRebase, Survivors, Envs
  <2>3. OpInv'
    BY <1>5, <2>2 DEF BeginRebase, OpInv
  <2> QED
    BY <1>5, <2>1, <2>3, SameDirs DEF BeginRebase, BaseFilesExist
<1>6. CASE CheckOutputs
  <2>1. TypeOK' /\ OpInv'
    BY <1>6 DEF CheckOutputs, Step, TypeOK, OpInv, Survivors
  <2> QED
    BY <1>6, <2>1, SameDirs DEF CheckOutputs, Step, BaseFilesExist
<1>7. CASE ClearAside
  <2>1. dir["live"] = {Live} /\ Survivors = {Live} /\ Sound(Live)
    BY <1>7, InstalledIs DEF ClearAside, Step
  <2>2. /\ dir' \in [Dirs -> Holdings] /\ dir'["live"] = dir["live"]
        /\ dir'["rebased-out"] = {} /\ dir'["compacted-out"] = {}
    BY <1>7, HoldingsAre DEF ClearAside, TypeOK, Dirs, Asides
  <2>3. UNCHANGED <<files, cleanup, op, executed>> /\ pc = "clear"
        /\ pc' = IF op = "rebase" THEN "stage" ELSE "copy"
    BY <1>7 DEF ClearAside, Step
  <2>4. TypeOK'
    BY <2>2, <2>3 DEF TypeOK
  <2>5. OpInv'
    BY <2>1, <2>2, <2>3 DEF OpInv, TypeOK, Survivors
  <2> QED
    BY <2>1, <2>2, <2>3, <2>4, <2>5 DEF Ambiguous, Asides, Survivors, Sound, BaseFilesExist, DirInv
<1>8. CASE StageSnapshot
  <2>1. Survivors = {Live} /\ Live \in Envs /\ Live.tip = executed /\ Live.base < executed
    BY <1>8, InstalledIs DEF StageSnapshot, Step, OpInv
  <2>2. executed \in Nat \ {0}
    BY <2>1 DEF Envs
  <2>3. TypeOK'
    BY <1>8, <2>1, <2>2 DEF StageSnapshot, Step, TypeOK, Kinds
  <2>4. OpInv'
    BY <1>8, <2>1 DEF StageSnapshot, Step, OpInv, Kinds, Survivors
  <2>5. \A e \in Survivors : BaseFilesExist(e) => BaseFilesExist(e)'
    BY <1>8 DEF StageSnapshot, BaseFilesExist
  <2> QED
    BY <1>8, <2>3, <2>4, <2>5, SameDirs DEF StageSnapshot, Step, DirInv
<1>9. CASE PublishSnapshot
  <2>1. Survivors = {Live} /\ Live \in Envs /\ Live.tip = executed /\ Live.base < executed
    BY <1>9, InstalledIs DEF PublishSnapshot, Step, OpInv
  <2>2. executed \in Nat \ {0}
    BY <2>1 DEF Envs
  <2>3. TypeOK'
    BY <1>9, <2>1, <2>2 DEF PublishSnapshot, Step, TypeOK, Kinds
  <2>4. OpInv'
    BY <1>9, <2>1 DEF PublishSnapshot, Step, OpInv, Kinds, Survivors
  <2>5. \A e \in Survivors : BaseFilesExist(e) => BaseFilesExist(e)'
    BY <1>9 DEF PublishSnapshot, BaseFilesExist
  <2> QED
    BY <1>9, <2>3, <2>4, <2>5, SameDirs DEF PublishSnapshot, Step, DirInv
<1>10. CASE BuildIndex
  <2>1. Survivors = {Live} /\ Live \in Envs /\ Live.tip = executed /\ Live.base < executed
    BY <1>10, InstalledIs DEF BuildIndex, Step, OpInv
  <2>2. executed \in Nat \ {0}
    BY <2>1 DEF Envs
  <2>3. TypeOK'
    BY <1>10, <2>1, <2>2 DEF BuildIndex, Step, TypeOK, Kinds
  <2>4. OpInv'
    BY <1>10, <2>1 DEF BuildIndex, Step, OpInv, Kinds, Survivors
  <2>5. \A e \in Survivors : BaseFilesExist(e) => BaseFilesExist(e)'
    BY <1>10 DEF BuildIndex, BaseFilesExist
  <2> QED
    BY <1>10, <2>3, <2>4, <2>5, SameDirs DEF BuildIndex, Step, DirInv
<1>11. CASE BuildIndexFails
  <2>1. Survivors = {Live} /\ Live \in Envs /\ Live.tip = executed /\ Live.base < executed
        /\ cleanup \subseteq {executed} \X Kinds
    BY <1>11, InstalledIs DEF BuildIndexFails, OpInv
  <2>2. executed \in Nat \ {0}
    BY <2>1 DEF Envs
  <2>3. TypeOK'
    BY <1>11, <2>1, <2>2 DEF BuildIndexFails, TypeOK, Kinds
  <2>4. OpInv'
    BY <1>11 DEF BuildIndexFails, OpInv
  <2>5. \A e \in Survivors : BaseFilesExist(e) => BaseFilesExist(e)'
    BY <1>11, <2>1, <2>2 DEF BuildIndexFails, BaseFilesExist, Envs
  <2> QED
    BY <1>11, <2>3, <2>4, <2>5, SameDirs DEF BuildIndexFails
<1>12. CASE BuildFresh
  <2>1. dir["live"] = {Live} /\ Live \in Envs /\ Sound(Live)
    BY <1>12, InstalledIs DEF BuildFresh, Step
  <2> DEFINE new == IF op = "rebase" THEN [base |-> Live.tip, tip |-> Live.tip] ELSE Live
  <2>2. new \in Envs /\ Sound(new)
    BY <1>12, <2>1 DEF BuildFresh, Step, Envs, Sound, BaseFilesExist, OpInv
  <2> HIDE DEF new
  <2>3. op \in {"rebase", "compact"} /\ Fresh[op] \in {"rebasing", "compacting"}
    BY <1>12 DEF BuildFresh, Step, OpInv, TypeOK, Fresh
  <2>4. /\ dir' \in [Dirs -> Holdings]
        /\ dir'[Fresh[op]] = {new}
        /\ \A d \in Asides \cup {"live"} : dir'[d] = dir[d]
    BY <1>12, <2>2, <2>3, HoldingsAre DEF BuildFresh, TypeOK, Dirs, Asides, new
  <2>5. UNCHANGED <<files, cleanup, op, executed>> /\ pc = "copy" /\ pc' = "aside"
    BY <1>12 DEF BuildFresh, Step
  <2>6. Fresh' = Fresh
    BY DEF Fresh
  <2>7. TypeOK'
    BY <2>4, <2>5 DEF TypeOK
  <2>8. \A e : Sound(e) <=> Sound(e)'
    BY <2>5 DEF Sound, BaseFilesExist
  <2>9. Survivors' = Survivors /\ (Ambiguous <=> Ambiguous')
    BY <2>4 DEF Survivors, Ambiguous, Asides
  <2>10. OpInv'
    BY <2>4, <2>5, <2>9 DEF OpInv
  <2>11. DirInv'
    BY <2>1, <2>2, <2>4, <2>5, <2>6, <2>8 DEF DirInv, Asides
  <2> QED
    BY <2>5, <2>7, <2>8, <2>9, <2>10, <2>11
<1>13. CASE SetAside
  <2>1. dir["live"] = {Live} /\ Survivors = {Live} /\ Live \in Envs /\ Sound(Live)
    BY <1>13, InstalledIs DEF SetAside, Step
  <2>2. /\ op \in {"rebase", "compact"} /\ Aside[op] \in Asides
        /\ Fresh[op] \in {"rebasing", "compacting"}
    BY <1>13 DEF SetAside, Step, OpInv, TypeOK, Fresh, Aside, Asides
  <2>3. /\ dir' \in [Dirs -> Holdings] /\ dir'["live"] = {} /\ dir'[Aside[op]] = {Live}
        /\ \A a \in Asides \ {Aside[op]} : dir'[a] = {}
        /\ dir'[Fresh[op]] = dir[Fresh[op]]
    BY <1>13, <2>1, <2>2, HoldingsAre DEF SetAside, Step, TypeOK, DirInv, Dirs, Asides
  <2>4. UNCHANGED <<files, cleanup, op, executed>> /\ pc = "aside" /\ pc' = "install"
    BY <1>13 DEF SetAside, Step
  <2>5. Survivors' = {Live} /\ ~ Ambiguous'
    BY <2>2, <2>3 DEF Survivors, Ambiguous, Asides
  <2>6. TypeOK'
    BY <2>3, <2>4 DEF TypeOK
  <2>7. OpInv'
    BY <2>1, <2>4, <2>5 DEF OpInv
  <2>8. DirInv' /\ \A e \in Survivors' : Sound(e)'
    BY <2>1, <2>2, <2>3, <2>4, <2>5 DEF DirInv, Sound, BaseFilesExist, Fresh, Aside
  <2> QED
    BY <2>5, <2>6, <2>7, <2>8
<1>14. CASE Install
  <2>1. /\ op \in {"rebase", "compact"}
        /\ Fresh[op] \in {"rebasing", "compacting"}
    BY <1>14 DEF Install, Step, OpInv, TypeOK, Fresh
  <2>2. /\ dir' \in [Dirs -> Holdings] /\ dir'["live"] = dir[Fresh[op]]
        /\ \A a \in Asides : dir'[a] = dir[a]
    BY <1>14, <2>1, HoldingsAre DEF Install, TypeOK, Dirs, Asides
  <2>3. UNCHANGED <<files, cleanup, op, executed>> /\ pc = "install" /\ pc' = "finish"
    BY <1>14 DEF Install, Step
  <2>4. dir[Fresh[op]] # {} /\ \A e \in dir[Fresh[op]] : Sound(e)
    BY <2>3 DEF DirInv
  <2>5. Survivors' = dir[Fresh[op]] /\ ~ Ambiguous'
    BY <2>2, <2>4 DEF Survivors, Ambiguous
  <2>6. TypeOK'
    BY <2>2, <2>3 DEF TypeOK
  <2>7. OpInv' /\ DirInv'
    BY <2>2, <2>3, <2>4 DEF OpInv, DirInv
  <2>8. \A e \in Survivors' : Sound(e)'
    BY <2>3, <2>4, <2>5 DEF Sound, BaseFilesExist
  <2> QED
    BY <2>4, <2>5, <2>6, <2>7, <2>8
<1>15. CASE RollBack
  <2>1. /\ op \in {"rebase", "compact"} /\ Aside[op] \in Asides
        /\ dir["live"] = {} /\ dir[Aside[op]] # {}
    BY <1>15 DEF RollBack, OpInv, DirInv, TypeOK, Aside, Asides
  <2>2. /\ \A e \in Survivors : BaseFilesExist(e) => BaseFilesExist(e)'
        /\ files' \subseteq files /\ cleanup' = {} /\ op' = "none" /\ pc' = "boot"
        /\ executed' = executed
        /\ OpInv'
    BY <1>15, FailKeeps DEF RollBack
  <2>3. Survivors = dir[Aside[op]]
    BY <2>1 DEF Survivors, Ambiguous, Asides
  <2>4. CASE dir' = dir
    <3>1. TypeOK'
      BY <2>2, <2>4 DEF TypeOK
    <3> QED
      BY <2>2, <2>4, <3>1, SameDirs
  <2>5. CASE dir' = [dir EXCEPT !["live"] = dir[Aside[op]], ![Aside[op]] = {}]
    <3>1. dir' \in [Dirs -> Holdings] /\ dir'["live"] = dir[Aside[op]]
      BY <2>1, <2>5, HoldingsAre DEF TypeOK, Dirs, Asides
    <3>2. TypeOK'
      BY <2>2, <3>1 DEF TypeOK
    <3>3. Survivors' = Survivors /\ ~ Ambiguous' /\ DirInv'
      BY <2>1, <2>2, <2>3, <3>1 DEF Survivors, Ambiguous, DirInv
    <3> QED
      BY <2>1, <2>2, <2>3, <3>2, <3>3 DEF Sound
  <2> QED
    BY <1>15, <2>4, <2>5 DEF RollBack
<1>16. CASE Finish
  <2>1. dir["live"] = {Live} /\ Survivors = {Live} /\ Sound(Live)
    BY <1>16, InstalledIs DEF Finish
  <2>2. op \in {"rebase", "compact"} /\ Aside[op] \in Asides
    BY <1>16 DEF Finish, OpInv, TypeOK, Aside, Asides
  <2>3. dir' \in [Dirs -> Holdings] /\ dir'["live"] = {Live}
    BY <1>16, <2>1, <2>2, HoldingsAre DEF Finish, TypeOK, Dirs, Asides
  <2>4. UNCHANGED <<files, executed>> /\ cleanup' = {} /\ op' = "none" /\ pc' \in {"idle", "boot"}
    BY <1>16 DEF Finish
  <2>5. TypeOK' /\ OpInv' /\ DirInv'
    BY <2>3, <2>4 DEF TypeOK, OpInv, DirInv
  <2>6. Survivors' = {Live} /\ ~ Ambiguous'
    BY <2>3 DEF Survivors, Ambiguous
  <2> QED
    BY <2>1, <2>4, <2>5, <2>6 DEF Sound, BaseFilesExist
<1>17. CASE StepFails
  <2>1. dir["live"] = {Live} /\ Survivors = {Live} /\ Sound(Live)
    BY <1>17, InstalledIs DEF StepFails
  <2>2. /\ BaseFilesExist(Live) => \A e \in {Live} : BaseFilesExist(e)'
        /\ files' \subseteq files /\ cleanup' = {} /\ op' = "none" /\ pc' = "boot"
        /\ executed' = executed
        /\ OpInv'
    BY <1>17, <2>1, FailKeeps DEF StepFails
  <2>3. dir' \in [Dirs -> Holdings] /\ dir'["live"] = {Live}
    <3>1. CASE UNCHANGED dir
      BY <2>1, <3>1 DEF TypeOK
    <3>2. CASE \E gone \in SUBSET Asides : dir' = [d \in Dirs |-> IF d \in gone THEN {} ELSE dir[d]]
      BY <2>1, <3>2, HoldingsAre DEF TypeOK, Dirs, Asides
    <3> QED
      BY <1>17, <3>1, <3>2 DEF StepFails
  <2>4. TypeOK' /\ DirInv'
    BY <2>2, <2>3 DEF TypeOK, DirInv
  <2>5. Survivors' = {Live} /\ ~ Ambiguous'
    BY <2>3 DEF Survivors, Ambiguous
  <2> QED
    BY <2>1, <2>2, <2>4, <2>5 DEF Sound
<1>18. CASE Crash
  <2>1. TypeOK' /\ OpInv'
    BY <1>18 DEF Crash, TypeOK, OpInv
  <2> QED
    BY <1>18, <2>1, SameDirs DEF Crash, BaseFilesExist
<1>19. CASE UNCHANGED vars
  BY <1>19 DEF vars, TypeOK, Ambiguous, Survivors, Sound, BaseFilesExist, OpInv, DirInv
<1> QED
  BY <1>1, <1>2, <1>3, <1>4, <1>5, <1>6, <1>7, <1>8, <1>9, <1>10, <1>11, <1>12, <1>13, <1>14,
     <1>15, <1>16, <1>17, <1>18, <1>19
     DEF Next

\* The state always satisfies the inductive invariant.
THEOREM SwapInvariant == Spec => []IInv
<1>1. IInv /\ [Next]_vars => IInv'
  BY NextIInv
<1> QED
  BY InitIInv, <1>1, PTL DEF Spec

\* TypeOK: a directory holds at most one environment, heights stay within the chain.
THEOREM SwapTypeCorrect == Spec => []TypeOK
  BY SwapInvariant, PTL DEF IInv

\* NeverAmbiguous: recover_interrupted_swap always knows which copy is current.
THEOREM RecoveryIsUnambiguous == Spec => []NeverAmbiguous
<1>1. IInv => NeverAmbiguous
  BY DEF IInv, NeverAmbiguous
<1> QED
  BY <1>1, SwapInvariant, PTL

\* NoBlockIsLost: an environment is opened at the last committed block, wherever
\* rebase_with_reopen or compact stopped.
THEOREM SwapLosesNoBlock == Spec => []NoBlockIsLost
<1>1. IInv => NoBlockIsLost
  BY LiveIsInstalled DEF IInv, NoBlockIsLost, DirInv, Survivors, Sound
<1> QED
  BY <1>1, SwapInvariant, PTL

\* BaseIsOnDisk: RemoveFilesOnDrop never removes the base of an opened environment.
THEOREM OpenedBaseIsOnDisk == Spec => []BaseIsOnDisk
<1>1. IInv => BaseIsOnDisk
  BY LiveIsInstalled DEF IInv, BaseIsOnDisk, DirInv, Survivors, Sound
<1> QED
  BY <1>1, SwapInvariant, PTL
=============================================================================
