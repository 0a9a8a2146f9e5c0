---------------------------- MODULE MCReference ----------------------------
(* Algorithms that are checked against a direct definition of their result, each *)
(* on a small instance: the parallel execution of batches of blocks, the layers   *)
(* of the snapshot overlay, and the linearizer of mempool clusters.  kind says     *)
(* which one a behaviour is about; the others keep an initial state.               *)
EXTENDS MCBatchExecution, TLC

CONSTANTS a1, a2, a3, a4, a5, b2, b3, b4, e4, e5, c0, d0, c1, c2, c3, c4, c5, Base

VARIABLES
    kind,
    base, over, tomb, undo, overTip,                   \* Overlay
    cluster, given, baseline, rest, order, stage       \* Linearizer

overVars == <<base, over, tomb, undo, overTip>>
lineVars == <<cluster, given, baseline, rest, order, stage>>

-----------------------------------------------------------------------------
(* The overlay: a chain of five blocks and two rival branches that carry some of the   *)
(* same transactions at other heights.  c0 is spent by a3 and by b2; c2 is created by  *)
(* a2 and, a block later, by b3; c4 is created by a4, b2 and e4.                       *)

TreeParent == (a1 :> Base) @@ (a2 :> a1) @@ (a3 :> a2) @@ (a4 :> a3) @@ (a5 :> a4)
              @@ (b2 :> a1) @@ (b3 :> b2) @@ (b4 :> b3) @@ (e4 :> a3) @@ (e5 :> e4)
TreeSpends == (a1 :> {}) @@ (a2 :> {c1}) @@ (a3 :> {c0, c2}) @@ (a4 :> {c3, d0}) @@ (a5 :> {c4})
              @@ (b2 :> {c0}) @@ (b3 :> {c1}) @@ (b4 :> {c2, d0}) @@ (e4 :> {d0}) @@ (e5 :> {c3})
TreeCreates == (a1 :> {c1}) @@ (a2 :> {c2}) @@ (a3 :> {c3}) @@ (a4 :> {c4}) @@ (a5 :> {c5})
              @@ (b2 :> {c4}) @@ (b3 :> {c2}) @@ (b4 :> {c3}) @@ (e4 :> {c4}) @@ (e5 :> {c5})

V == INSTANCE Overlay WITH
        Blocks <- DOMAIN TreeParent, Parent <- TreeParent, Spends <- TreeSpends,
        Creates <- TreeCreates, Coins <- {c0, d0, c1, c2, c3, c4, c5},
        BaseCoins <- {c0, d0}, MaxBatchLen <- 3, tip <- overTip

\* The reference: the height of a block and the coins unspent at it.
HeightOf[b \in DOMAIN TreeParent \cup {Base}] ==
    IF b = Base THEN 0 ELSE HeightOf[TreeParent[b]] + 1
UtxoAt[b \in DOMAIN TreeParent \cup {Base}] ==
    IF b = Base THEN {c0, d0} \X {0}
    ELSE {p \in UtxoAt[TreeParent[b]] : p[1] \notin TreeSpends[b]}
         \cup (TreeCreates[b] \X {HeightOf[b]})

-----------------------------------------------------------------------------
(* The linearizer: every connected cluster of four transactions with these fees and     *)
(* sizes, without the parents that are also grandparents, which constrain nothing.      *)

Rates == {[fee |-> 0, size |-> 1], [fee |-> 1, size |-> 1], [fee |-> 4, size |-> 2]}
Families == {<<{}, p, q, r>> : p \in SUBSET {1}, q \in SUBSET {1, 2}, r \in SUBSET {1, 2, 3}}
Connected(f) ==
    \A part \in SUBSET (1 .. 4) \ {{}, 1 .. 4} :
        \E i \in part, j \in 1 .. 4 \ part : i \in f[j] \/ j \in f[i]
Reduced(f) == \A i \in 1 .. 4 : \A k \in f[i] : f[i] \cap f[k] = {}
AllClusters ==
    {[frac |-> f, parents |-> q] :
        f \in [1 .. 4 -> Rates], q \in {f \in Families : Connected(f) /\ Reduced(f)}}

Z == INSTANCE Linearizer WITH Clusters <- AllClusters

-----------------------------------------------------------------------------
MCInit ==
    /\ kind \in {"batch", "overlay", "linearizer"}
    /\ kind # "batch" => input = CHOOSE i \in MCInputs : TRUE
    /\ kind # "linearizer" => cluster = CHOOSE c \in AllClusters : TRUE
    /\ Init /\ V!Init /\ Z!Init

BatchStep == kind = "batch" /\ Next /\ UNCHANGED <<kind, overVars, lineVars>>
OverlayStep == kind = "overlay" /\ V!Next /\ UNCHANGED <<kind, vars, lineVars>>
LinearizerStep == kind = "linearizer" /\ Z!Next /\ UNCHANGED <<kind, vars, overVars>>
LinearizerDone ==
    kind = "linearizer" /\ stage = "done" /\ UNCHANGED <<kind, vars, overVars, lineVars>>

MCNext == BatchStep \/ OverlayStep \/ LinearizerStep \/ LinearizerDone

\* An idle executor has none of its fair actions enabled.
MCSpec == MCInit /\ [][MCNext]_<<kind, vars, overVars, lineVars>> /\ Fairness

-----------------------------------------------------------------------------
(* Properties. *)

\* The store holds what executing the blocks one after another leaves, and a batch fails
\* exactly when block-by-block execution does, with the same failure, whatever the threads'
\* order, the cuts between batches and the disconnections (connect_active_blocks).
SerialOutcome == kind = "batch" => SerialResult /\ FirstFailureWins

\* The store refuses nothing the pipeline hands it (BatchExecution, StoreNeverRefuses).
StoreTakesBatches == kind = "batch" => StoreNeverRefuses

\* A valid batch and a disconnection whose undo row is held are never refused by the
\* overlay's checks on its three tables (connect_mutation, disconnect_mutation).
OverlayAccepts == kind = "overlay" => V!ValidIsCommitted /\ V!DisconnectIsAccepted

\* The count in a rebased snapshot's header is the number of coins merged into it
\* (Overlay, RebaseCountIsExact).
RebaseCountIsExact == kind = "overlay" => V!RebaseCountIsExact

\* The layers answer with the coins left by executing the chain up to the tip one
\* block after the other, each with the height of the block that created it on this
\* chain, after any disconnections, rebases and reconnections.
ViewIsUtxoSet == kind = "overlay" => V!View = UtxoAt[overTip.block]

\* However early the allowance runs out the order is a linearization no worse than the
\* baseline, and when every chunk was proved none is better (linearize_with_budget).
LinearizationIsSound == kind = "linearizer" => Z!NeverWorse /\ Z!OptimalIsBest

\* The verdict on two diagrams is that of their exact fees (Linearizer, CompareIsExact).
CompareIsExact == kind = "linearizer" => Z!CompareIsExact
=============================================================================
