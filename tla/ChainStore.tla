----------------------------- MODULE ChainStore -----------------------------
(***************************************************************************)
(* The unified redb chainstate (RedbChainStore, src/src/chain_store.rs):     *)
(* coin tables, block undo, execution tip and spent-age histogram change in  *)
(* one durable transaction per call.  A store opened for bulk catch-up       *)
(* appends each batch to a journal of net updates instead of changing the    *)
(* coin tables; the journal is read in front of them, folded into them by a  *)
(* materialization, and taken up again by any later opening.                 *)
(*                                                                           *)
(* A stored coin is <<outpoint, creation height>>; the hot and the cold      *)
(* table are one, and the Bloom filters, which only skip journal rows that   *)
(* do not hold a key, are left out.                                          *)
(***************************************************************************)
EXTENDS BlockTree, FiniteSets, Bags

CONSTANT MaxCount    \* bound on the journal's coin count

VARIABLES
    base,       \* the coin tables
    rows,       \* VALIDATION_DELTA_TABLE, oldest row first
    undo,       \* BLOCK_UNDOS: the coins each block spent
    tip,        \* the execution tip
    ages,       \* SPENT_AGE_TABLE and the heights it covers; start 0 is no coverage
    mode,       \* how the store was opened: with the journal, keeping undo
    count,      \* ValidationJournal::utxo_count
    rewinding,  \* commit_disconnect is between its two transactions
    sampled     \* history: the blocks of the chain connected with their undo

vars == <<base, rows, undo, tip, ages, mode, count, rewinding, sampled>>

Keys(coins) == {p[1] : p \in coins}

\* ChainStoreOptions of the ordinary node, of one that catches up beside a background
\* validation, and of a fixed-target validator.
Modes == {[journal |-> FALSE, retain |-> TRUE],
          [journal |-> TRUE, retain |-> TRUE],
          [journal |-> TRUE, retain |-> FALSE]}

NoAges == [start |-> 0, end |-> 0, table |-> EmptyBag]

Init ==
    /\ base = BaseCoins \X {0}
    /\ rows = <<>> /\ undo = {}
    /\ tip = [block |-> Base, height |-> 0]
    /\ ages = NoAges
    /\ mode \in Modes
    /\ count = IF mode.journal THEN Cardinality(base) ELSE 0
    /\ rewinding = FALSE
    /\ sampled = {}

-----------------------------------------------------------------------------
(* The journal. *)

Touched(row) == row.spent \cup Keys(row.made)

\* The fold of materialize_validation_deltas: a key's first update says whether the
\* tables lose a coin, its last one what they get.
Net ==
    [spent |-> {c \in Coins : \E i \in DOMAIN rows :
                    /\ c \in rows[i].spent
                    /\ \A j \in DOMAIN rows : j < i => c \notin Touched(rows[j])},
     made |-> UNION {{p \in rows[i].made :
                        \A j \in DOMAIN rows : j > i => p[1] \notin Touched(rows[j])}
                        : i \in DOMAIN rows}]

\* Mutant of View: the oldest row that holds a key answers for it.
ViewOldest ==
    UNION {{p \in rows[i].made :
                \A j \in DOMAIN rows : j < i => p[1] \notin Touched(rows[j])} : i \in DOMAIN rows}
        \cup {p \in base : \A i \in DOMAIN rows : p[1] \notin Touched(rows[i])}

\* get and get_many: the newest row that holds the key, or else the tables.
View ==
    Net.made \cup {p \in base : \A i \in DOMAIN rows : p[1] \notin Touched(rows[i])}

\* apply_validated_changes_transaction and apply_with_undo_transaction.
ApplyAccepts(spent, made) ==
    /\ spent \subseteq Keys(base)
    /\ Keys(made) \cap Keys(base) \subseteq spent
Applied(spent, made) == {p \in base : p[1] \notin spent} \cup made

-----------------------------------------------------------------------------
(* Connecting a batch. *)

\* The coins block i of the batch creates, at its height.
Made(s, i) == Creates[s[i]] \X {tip.height + i}
MadeBefore(s, i) == UNION {Made(s, j) : j \in 1 .. i - 1}

\* commit_connect_batch: a coin made and spent in the batch is written nowhere.
FoldedSpent(s) == ExternalInputs(s)
FoldedMade(s) ==
    {p \in MadeBefore(s, Len(s) + 1) : p[1] \notin SpentBy(s) \ ExternalInputs(s)}

\* transaction_undos of block i, which the executor leaves empty without retention.
UndoRow(s, i) ==
    [block |-> s[i], height |-> tip.height + i,
     spent |-> {p \in View \cup MadeBefore(s, i) : mode.retain /\ p[1] \in Spends[s[i]]}]

\* spent_age_counts: for each coin the rows spend, the blocks it has lived.
AgesOf(undos) ==
    BagOfAll(LAMBDA q : q[1] - q[2][2], SetToBag(UNION {{r.height} \X r.spent : r \in undos}))

\* A batch the executor found valid on the store's coins; transaction ids do not
\* repeat.
Executable(s) ==
    /\ Linked(tip.block, s)
    /\ TxidsUnique(s)
    /\ Valid(Keys(View), s)
    /\ CreatedBy(s) \cap Keys(View) = {}

\* insert_transaction and connect_spent_ages_transaction.
RecordsAccept(s) ==
    /\ mode.retain => \A r \in undo : r.block \notin SetOf(s)
    /\ ages.start # 0 => ages.end = tip.height

\* What a batch commit writes beside the coins.
Record(s) ==
    /\ RecordsAccept(s)
    /\ undo' = IF mode.retain THEN undo \cup {UndoRow(s, i) : i \in DOMAIN s} ELSE undo
    /\ ages' = [start |-> IF ages.start = 0 THEN tip.height + 1 ELSE ages.start,
                end |-> tip.height + Len(s),
                table |-> ages.table (+) AgesOf({UndoRow(s, i) : i \in DOMAIN s})]
    /\ tip' = [block |-> LastOr(s, tip.block), height |-> tip.height + Len(s)]
    /\ sampled' = IF mode.retain THEN sampled \cup SetOf(s) ELSE sampled \ SetOf(s)

\* commit_connect and commit_connect_batch on a store without a journal.
Connect(s) ==
    /\ ~ mode.journal /\ ~ rewinding
    /\ Executable(s)
    /\ ApplyAccepts(FoldedSpent(s), FoldedMade(s))
    /\ base' = Applied(FoldedSpent(s), FoldedMade(s))
    /\ Record(s)
    /\ UNCHANGED <<rows, mode, count, rewinding>>

\* commit_validation_batch; the coin tables are not looked at.
JournalAccepts(s) == \A i \in DOMAIN rows : rows[i].height # tip.height + Len(s)

NextCount(s) == count + Cardinality(FoldedMade(s)) - Cardinality(FoldedSpent(s))

\* The row of a batch, filed under its last height.
Checkpoint(s) ==
    [height |-> tip.height + Len(s), count |-> NextCount(s),
     spent |-> FoldedSpent(s), made |-> FoldedMade(s)]

ConnectJournal(s) ==
    /\ mode.journal /\ ~ rewinding
    /\ Executable(s)
    /\ JournalAccepts(s)
    /\ Cardinality(FoldedSpent(s)) <= count /\ NextCount(s) \in 0 .. MaxCount
    /\ rows' = Append(rows, Checkpoint(s))
    /\ count' = NextCount(s)
    /\ Record(s)
    /\ UNCHANGED <<base, mode, rewinding>>

-----------------------------------------------------------------------------
(* Folding the journal, taking the tip back, pruning, opening. *)

\* The transaction of materialize_validation_deltas.
FoldJournal ==
    /\ ApplyAccepts(Net.spent, Net.made)
    /\ base' = Applied(Net.spent, Net.made)
    /\ rows' = <<>>

\* materialize_validation_deltas, before a snapshot is finalized.
Materialize ==
    /\ rows # <<>> /\ ~ rewinding
    /\ FoldJournal
    /\ UNCHANGED <<undo, tip, ages, mode, count, rewinding, sampled>>

\* The tip has an undo row and is not what the store started from.
CanRewind(row) == row.block = tip.block /\ tip.block # Base

\* commit_disconnect folds a journal that holds rows in a transaction of its own.
BeginRewind(row) ==
    /\ rows # <<>> /\ ~ rewinding
    /\ CanRewind(row)
    /\ FoldJournal
    /\ rewinding' = TRUE
    /\ UNCHANGED <<undo, tip, ages, mode, count, sampled>>

\* disconnect_spent_ages_transaction.
AgesAccept(row) ==
    ages.start # 0 => ages.end = tip.height /\ AgesOf({row}) \sqsubseteq ages.table

\* Mutant of AgesWithout: the samples of the block stay.
AgesKept(row) ==
    CASE ages.start = 0 -> ages
      [] ages.start = tip.height -> NoAges
      [] OTHER -> [ages EXCEPT !.end = tip.height - 1]

AgesWithout(row) ==
    CASE ages.start = 0 -> ages
      [] ages.start = tip.height -> NoAges
      [] OTHER -> [ages EXCEPT !.end = tip.height - 1, !.table = @ (-) AgesOf({row})]

\* Mutant of Rewind: the undo row of the block stays.
RewindKeepingUndo(row) ==
    /\ rows = <<>>
    /\ CanRewind(row)
    /\ ApplyAccepts(Creates[tip.block], row.spent)
    /\ AgesAccept(row)
    /\ base' = Applied(Creates[tip.block], row.spent)
    /\ ages' = AgesWithout(row)
    /\ tip' = [block |-> Parent[tip.block], height |-> tip.height - 1]
    /\ rewinding' = FALSE
    /\ sampled' = sampled \ {tip.block}
    /\ UNCHANGED <<rows, undo, mode, count>>

\* The second transaction of commit_disconnect, or the only one; the journal's count
\* is not touched.
Rewind(row) ==
    /\ rows = <<>>
    /\ CanRewind(row)
    /\ ApplyAccepts(Creates[tip.block], row.spent)
    /\ AgesAccept(row)
    /\ base' = Applied(Creates[tip.block], row.spent)
    /\ undo' = undo \ {row}
    /\ ages' = AgesWithout(row)
    /\ tip' = [block |-> Parent[tip.block], height |-> tip.height - 1]
    /\ rewinding' = FALSE
    /\ sampled' = sampled \ {tip.block}
    /\ UNCHANGED <<rows, mode, count>>

\* prune_block_undos_before.
Prune(floor) ==
    /\ mode.retain /\ ~ rewinding
    /\ \E r \in undo : r.height < floor
    /\ undo' = {r \in undo : r.height >= floor}
    /\ UNCHANGED <<base, rows, tip, ages, mode, count, rewinding, sampled>>

\* from_database refuses a journal that does not end at the execution tip.
OpenAccepts == rows # <<>> => rows[Len(rows)].height = tip.height

\* open_with_options, after a stop or a crash.  A store that keeps no undo drops the
\* rows it finds; journal rows turn the journal on whatever the options say.
Open(m) ==
    /\ OpenAccepts
    /\ undo' = IF m.retain THEN undo ELSE {}
    /\ mode' = [m EXCEPT !.journal = m.journal \/ rows # <<>>]
    /\ count' = CASE rows # <<>> -> rows[Len(rows)].count
                  [] rows = <<>> /\ m.journal -> Cardinality(base)
                  [] OTHER -> 0
    /\ rewinding' = FALSE
    /\ UNCHANGED <<base, rows, tip, ages, sampled>>

Next ==
    \/ \E s \in Batches : Connect(s) \/ ConnectJournal(s)
    \/ Materialize
    \/ \E row \in undo : BeginRewind(row) \/ Rewind(row)
    \/ \E floor \in 1 .. tip.height : Prune(floor)
    \/ \E m \in Modes : Open(m)

Spec == Init /\ [][Next]_vars

-----------------------------------------------------------------------------
(* Properties. *)

\* A valid batch is never refused by the checks of a commit: the coins it spends are
\* in the tables and those it creates are not, its blocks have no undo row left from
\* an earlier connection, the journal has no row at its height, and the histogram ends
\* where it begins.  The subtraction of the coin count is not among them.
CheckpointIsAccepted ==
    \A s \in Batches :
        Executable(s) /\ ~ rewinding =>
            /\ RecordsAccept(s)
            /\ IF mode.journal THEN JournalAccepts(s)
               ELSE ApplyAccepts(FoldedSpent(s), FoldedMade(s))

\* The tip can be taken back whenever its undo row is held: the journal, whatever
\* batches it is made of, folds into the tables, and then the tables and the histogram
\* hold what commit_disconnect removes.
RollbackIsAccepted ==
    /\ ApplyAccepts(Net.spent, Net.made)
    /\ \A row \in undo :
        rows = <<>> /\ CanRewind(row) =>
            ApplyAccepts(Creates[tip.block], row.spent) /\ AgesAccept(row)

\* The store opens again wherever it is stopped, between the two transactions of a
\* disconnection too: a journal that holds rows ends at the execution tip.
ReopenIsAccepted == OpenAccepts

\* What visit_utxo_snapshot asserts when it has gone through a journal's coins: the
\* count persisted with the newest row is the number of coins there are.
CountIsExact == rows # <<>> => count = Cardinality(View)

Log == <<[tip |-> tip.block, coins |-> Keys(View)]>>

A == INSTANCE Chainstate WITH log <- Log

\* Seen through get, the store is a chainstate that is durable at once: batches and
\* disconnections change tip and coins together, and folding the journal, a crash or an
\* opening in another mode changes neither.
RefinesChainstate == A!Spec
=============================================================================
