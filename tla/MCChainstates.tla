---------------------------- MODULE MCChainstates ----------------------------
(* The write-back buffers, the durable chain store with its journal, and the    *)
(* store that serves from an assumed snapshot while a second one validates it,  *)
(* on a small tree of blocks.  kind says which one a behaviour is about; the    *)
(* others keep an initial state.                                                *)
EXTENDS WriteBack, Bags, TLC

CONSTANTS a1, a2, a3, a4, b2, b3, x3, c0, d0, c1, c2, c3, c4, d1, None

VARIABLES
    kind,
    tables, rows, storeUndo, storeTip, ages, mode, count, rewinding, sampled,  \* ChainStore
    setup, best, active, validation, task, left, status                        \* AssumedSnapshot

storeVars == <<tables, rows, storeUndo, storeTip, ages, mode, count, rewinding, sampled>>

assumedVars == <<setup, best, active, validation, task, left, status>>

\* A chain of four blocks and a rival branch that carries some of the same transactions
\* at other heights: c0 is spent by a3 and by b2; c2 is created by a2 and, a block later,
\* by b3; c4 is created by a4 and b2.  x3 spends a coin that a2 spent.
MCBlocks == {a1, a2, a3, a4, b2, b3, x3}
MCParent == (a1 :> Base) @@ (a2 :> a1) @@ (a3 :> a2) @@ (a4 :> a3)
            @@ (b2 :> a1) @@ (b3 :> b2) @@ (x3 :> a2)
MCCoins == {c0, d0, c1, c2, c3, c4}
MCBaseCoins == {c0, d0}
MCSpends == (a1 :> {}) @@ (a2 :> {c1}) @@ (a3 :> {c0, c2}) @@ (a4 :> {c3, d0})
            @@ (b2 :> {c0}) @@ (b3 :> {c1, d0}) @@ (x3 :> {c1})
MCCreates == (a1 :> {c1}) @@ (a2 :> {c2}) @@ (a3 :> {c3}) @@ (a4 :> {c4})
            @@ (b2 :> {c4}) @@ (b3 :> {c2}) @@ (x3 :> {c3})

C == INSTANCE ChainStore WITH
        MaxCount <- 6, base <- tables, undo <- storeUndo, tip <- storeTip

\* The assumed snapshot: base a2 with two blocks above it on rival branches, and a
\* branch that leaves the base out and for a while has the most work.  The coins of the
\* snapshot are those of the base, or of another block.
TreePath == (Base :> <<>>) @@ (a1 :> <<a1>>) @@ (a2 :> <<a1, a2>>) @@ (a3 :> <<a1, a2, a3>>)
            @@ (b3 :> <<a1, a2, b3>>) @@ (d1 :> <<d1>>)
TreeWork == (Base :> 0) @@ (a1 :> 1) @@ (a2 :> 2) @@ (a3 :> 3) @@ (d1 :> 4) @@ (b3 :> 5)
TreeSetups ==
    [set : {a2}, cleanup : BOOLEAN, once : BOOLEAN, dir : {"absent", "stores"}]
    \cup [set : {d1}, cleanup : {TRUE}, once : BOOLEAN, dir : {"absent"}]

S == INSTANCE AssumedSnapshot WITH
        Blocks <- DOMAIN TreePath, Genesis <- Base, Path <- TreePath, ChainWork <- TreeWork,
        Base <- a2, Setups <- TreeSetups, Candidates <- 2, val <- validation

-----------------------------------------------------------------------------
MCInit ==
    /\ kind \in {"write-back", "store", "assumed"}
    /\ Init /\ C!Init /\ S!Init
    /\ kind # "store" => mode = CHOOSE m \in C!Modes : TRUE
    /\ kind # "assumed" => best = Base /\ setup = CHOOSE s \in TreeSetups : TRUE

WriteBackStep == kind = "write-back" /\ Next /\ UNCHANGED <<kind, storeVars, assumedVars>>
StoreStep == kind = "store" /\ C!Next /\ UNCHANGED <<kind, vars, assumedVars>>
AssumedStep == kind = "assumed" /\ S!Next /\ UNCHANGED <<kind, vars, storeVars>>

MCNext == WriteBackStep \/ StoreStep \/ AssumedStep

\* In an initial state the buffers are empty and the tasks off: none of the actions that
\* are fair is enabled, so the fairness of one kind asks nothing of the others.
MCSpec == MCInit /\ [][MCNext]_<<kind, vars, storeVars, assumedVars>> /\ Liveness /\ S!Fairness

-----------------------------------------------------------------------------
(* The reference: the blocks of a chain, and the height at which a coin is made. *)

ChainTo[b \in Blocks \cup {Base}] == IF b = Base THEN <<>> ELSE Append(ChainTo[Parent[b]], b)

BirthHeight(s, c) ==
    IF c \in BaseCoins THEN 0 ELSE CHOOSE h \in DOMAIN s : c \in Creates[s[h]]

-----------------------------------------------------------------------------
(* Properties. *)

\* A batch the executor found valid, a disconnection whose undo row is held, and the
\* opening of what a crash left are never refused by the checks of the durable store:
\* what the journal and the tables hold agrees with what the executor saw through them.
StoreAccepts ==
    kind = "store" => C!CheckpointIsAccepted /\ C!RollbackIsAccepted /\ C!ReopenIsAccepted

\* The histogram covers the chain up to the tip and holds the age of every coin that
\* the chain's blocks spent, each counted once, after any disconnections and
\* reconnections on either path.  Blocks connected by a store that keeps no undo are
\* covered and add no age.
SpentAgesAreExact ==
    LET s == ChainTo[storeTip.block]
        spends == {<<h, c>> \in (1 .. Len(s)) \X Coins : c \in Spends[s[h]] /\ s[h] \in sampled}
    IN  kind = "store" =>
        /\ ages.end = storeTip.height
        /\ ages.table = BagOfAll(LAMBDA q : q[1] - BirthHeight(s, q[2]), SetToBag(spends))

\* Seen through the layered reads, the buffers, the commit thread, failures and crashes
\* are a chainstate that accepts whole batches and loses only a suffix (WriteBack,
\* RefinesChainstate).
BuffersRefine == A!Init /\ [][kind = "write-back" => A!Next]_Log

\* Seen through get, the store is a chainstate that is durable at once (ChainStore,
\* RefinesChainstate).
StoreRefines == C!A!Init /\ [][kind = "store" => C!A!Next]_(C!Log)

\* The marker of an assumed snapshot is cleared for a right snapshot only, and the
\* validator's directory goes only if this node made it and the marker is cleared
\* (finalize_assumed_snapshot, cleanup_completed_validation_dir).
AssumedIsValidated ==
    kind = "assumed" => S!ClearedOnlyWhenValidated /\ S!EvidenceIsKept

\* A process that serves from an assumed snapshot and goes on clears the marker
\* (AssumedSnapshot, EventuallyFinalized).
AssumedIsFinalized == kind = "assumed" => S!EventuallyFinalized

\* A finalization that fails ends the process (AssumedSnapshot, FailureEndsService).
FailureEndsService == kind = "assumed" => S!FailureEndsService
=============================================================================
