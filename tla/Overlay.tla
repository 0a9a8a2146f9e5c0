------------------------------ MODULE Overlay ------------------------------
(***************************************************************************)
(* The snapshot-overlay chainstate engines (src/src/snapshot_overlay.rs and  *)
(* src/src/snapshot_overlay_redb.rs, which follow the same rules): an        *)
(* immutable base snapshot, a table of the coins created since, a table of   *)
(* tombstones over base coins that are spent, an undo row for each block     *)
(* and a tip, all changed in one durable transaction per call.               *)
(*                                                                           *)
(* A stored coin is <<outpoint, creation height>>.  A rebase is one step     *)
(* here; OverlaySwap is about how it is made one.                            *)
(***************************************************************************)
EXTENDS BlockTree, FiniteSets

VARIABLES
    base,     \* the snapshot: its block and height, and its coins
    over,     \* OVERLAY: coins created above the base
    tomb,     \* TOMBSTONE: outpoints of base coins that are spent
    undo,     \* UNDO: for each block, the coins it spent
    tip       \* META_TIP

vars == <<base, over, tomb, undo, tip>>

Keys(coins) == {p[1] : p \in coins}

\* get: the overlay, then the tombstones, then the base.
View == over \cup {p \in base.coins : p[1] \notin Keys(over) \cup tomb}

Init ==
    /\ base = [block |-> Base, height |-> 0, coins |-> BaseCoins \X {0}]
    /\ over = {} /\ tomb = {} /\ undo = {}
    /\ tip = [block |-> Base, height |-> 0]

-----------------------------------------------------------------------------
(* Connecting a batch. *)

\* The coins block i of the batch creates, at its height.
Made(s, i) == Creates[s[i]] \X {tip.height + i}
MadeBefore(s, i) == UNION {Made(s, j) : j \in 1 .. i - 1}

\* fold_connect_batch: a coin made and spent in the batch is written nowhere.
FoldedSpent(s) == ExternalInputs(s)
\* Mutant of FoldedCreated: a coin made and spent in the batch is written.
FoldedCreatedAll(s) == MadeBefore(s, Len(s) + 1)

FoldedCreated(s) ==
    {p \in MadeBefore(s, Len(s) + 1) : p[1] \notin SpentBy(s) \ ExternalInputs(s)}

\* An outpoint the store can spend or remove: in the overlay, or an untouched one
\* of the base.
Present(key) == key \in Keys(over) \/ (key \notin tomb /\ key \in Keys(base.coins))

\* The checks of connect_mutation; a spent outpoint may be created again.
ConnectAccepts(spent, created) ==
    /\ \A key \in spent : Present(key)
    /\ \A key \in Keys(created) \ spent : ~ Present(key)

\* Mutant of Spend: an overlay coin gets a tombstone too.
SpendWithTombstone(keys) ==
    [over |-> {p \in over : p[1] \notin keys},
     tomb |-> tomb \cup keys]

\* connect_mutation: an overlay coin is deleted, a base coin gets a tombstone.
Spend(keys) ==
    [over |-> {p \in over : p[1] \notin keys},
     tomb |-> tomb \cup (keys \ Keys(over))]

\* Mutant of UndoRow: a spent coin is recorded with the height of its spender.
UndoRowAtSpender(s, i) ==
    [block |-> s[i], spent |-> Spends[s[i]] \X {tip.height + i}]

\* transaction_undos of block i: the coins it spends, as the block found them.
UndoRow(s, i) ==
    [block |-> s[i],
     spent |-> {p \in View \cup MadeBefore(s, i) : p[1] \in Spends[s[i]]}]

\* A batch the executor found valid on the store's coins; transaction ids do not
\* repeat.
Executable(s) ==
    /\ Linked(tip.block, s)
    /\ TxidsUnique(s)
    /\ Valid(Keys(View), s)
    /\ CreatedBy(s) \cap Keys(View) = {}

\* commit_connect_batch and commit_connect_folded.
Connect(s) ==
    /\ Executable(s)
    /\ ConnectAccepts(FoldedSpent(s), FoldedCreated(s))
    /\ over' = Spend(FoldedSpent(s)).over \cup FoldedCreated(s)
    /\ tomb' = Spend(FoldedSpent(s)).tomb
    /\ undo' = {r \in undo : r.block \notin SetOf(s)} \cup {UndoRow(s, i) : i \in DOMAIN s}
    /\ tip' = [block |-> LastOr(s, tip.block), height |-> tip.height + Len(s)]
    /\ UNCHANGED base

-----------------------------------------------------------------------------
(* Disconnecting the tip. *)

\* A restored coin created above the base returns to the overlay, another one only
\* loses its tombstone.
AboveBase(coins) == {p \in coins : p[2] > base.height}

\* The checks of disconnect_mutation.
DisconnectAccepts(removed, restored) ==
    /\ \A key \in removed : Present(key)
    /\ \A p \in restored :
        IF p \in AboveBase(restored) THEN p[1] \notin Keys(Spend(removed).over)
        ELSE p[1] \in Spend(removed).tomb

\* commit_disconnect, with the undo row of the tip's block.
Disconnect(row) ==
    /\ row.block = tip.block
    /\ tip.block # base.block
    /\ DisconnectAccepts(Creates[tip.block], row.spent)
    /\ over' = Spend(Creates[tip.block]).over \cup AboveBase(row.spent)
    /\ tomb' = Spend(Creates[tip.block]).tomb \ Keys(row.spent \ AboveBase(row.spent))
    /\ undo' = undo \ {row}
    /\ tip' = [block |-> Parent[tip.block], height |-> tip.height - 1]
    /\ UNCHANGED base

-----------------------------------------------------------------------------

\* prune_block_undos_before: rows of blocks below a height go.
Prune(gone) ==
    /\ \A r \in gone : r.block # tip.block
    /\ \A r \in gone, q \in undo : q.block = Parent[r.block] => q \in gone
    /\ undo' = undo \ gone
    /\ UNCHANGED <<base, over, tomb, tip>>

\* The coin count a rebase writes into the header of the new snapshot.
RebaseCount == Cardinality(base.coins) - Cardinality(tomb) + Cardinality(over)

\* rebase_into: base coins without a tombstone and overlay coins are merged into the
\* snapshot of the tip; its tables start empty.
Merged == {p \in base.coins : p[1] \notin tomb} \cup over

Rebase ==
    /\ tip.height > base.height
    /\ Merged # {}
    /\ base' = [block |-> tip.block, height |-> tip.height, coins |-> Merged]
    /\ over' = {} /\ tomb' = {} /\ undo' = {}
    /\ UNCHANGED tip

Next ==
    \/ \E s \in Batches : Connect(s)
    \/ \E row \in undo : Disconnect(row)
    \/ \E gone \in SUBSET undo : Prune(gone)
    \/ Rebase

Spec == Init /\ [][Next]_vars

-----------------------------------------------------------------------------
(* Properties. *)

\* A valid batch is never refused by the checks of the commit, which look at three
\* tables, though the executor only saw their layered view.
ValidIsCommitted ==
    \A s \in Batches : Executable(s) => ConnectAccepts(FoldedSpent(s), FoldedCreated(s))

\* A block whose undo row is held can be disconnected: every coin it created is still
\* found, and every coin it spent goes back to the table it came from, also when the
\* coin's base tombstone was set by a block on another branch.
DisconnectIsAccepted ==
    \A row \in undo :
        row.block = tip.block /\ tip.block # base.block
            => DisconnectAccepts(Creates[tip.block], row.spent)

\* The count in a rebased snapshot's header is the number of coins merged into it:
\* tombstones only cover base coins and an overlay coin never repeats a base coin.
RebaseCountIsExact == RebaseCount = Cardinality(Merged)

A == INSTANCE Chainstate WITH log <- <<[tip |-> tip.block, coins |-> Keys(View)]>>

\* Seen through get, the engine is a chainstate that is durable at once.
RefinesChainstate == A!Spec
=============================================================================
