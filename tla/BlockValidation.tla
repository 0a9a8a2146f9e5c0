--------------------------- MODULE BlockValidation ---------------------------
(***************************************************************************)
(* How one block is checked against the coins it starts from, twice over:  *)
(* the applying path, which writes every transaction into an overlay       *)
(* before it checks the next one (connect_active_block), and the preparing *)
(* path of the batch pipeline, which writes nothing and reads what the     *)
(* blocks before it do from a versioned view of the whole batch            *)
(* (connect_active_blocks).  Both are operators here; BatchExecution runs  *)
(* the second on several threads and holds it against the first.           *)
(*                                                                         *)
(* A transaction has one output, so the outpoint it creates is named by    *)
(* the transaction.  Its value and whether it is a coinbase follow from    *)
(* that name, so a coin is the height that created it, and Absent stands   *)
(* for no coin.  A block is [txs, rule], its coinbase first; rule says     *)
(* what BIP30 asks at that height.                                         *)
(***************************************************************************)
EXTENDS Integers, Sequences, FiniteSets, SequencesExt, TLC

CONSTANTS
    Txs,          \* the transactions, and the outpoints they create
    Coinbases,    \* those of them that are coinbases
    Ins,          \* the outpoints a transaction spends, in input order
    Value,        \* the value of its output
    Final,        \* its absolute lock: the first height it may appear at
    Lock,         \* its BIP68 lock: blocks between a coin and its spend
    Sigops,       \* its signature-operation cost
    Subsidy, Maturity, MaxSigops

ASSUME ValidationAssumption ==
    /\ Coinbases \subseteq Txs
    /\ Ins \in [Txs -> Seq(Txs)]
    /\ \A t \in Coinbases : Ins[t] = <<>>
    /\ {Subsidy, Maturity, MaxSigops} \subseteq Nat

Absent == -1

(***************************************************************************)
(* The scripts of a transaction pass, fail, or make the verifier panic;    *)
(* `script` is the function that says which.  A check that has been        *)
(* deferred is <<block_order, index, transaction>>, counted from zero as   *)
(* the code does, and a failure is <<block_order, index, reason>>.         *)
(***************************************************************************)
None == <<>>

\* execute_script_work: the first job that fails ends the work item; a panic
\* is contained and reported as (0, 0, WorkerPanicked).
ExecuteWork(jobs, script) ==
    LET i == SelectInSeq(jobs, LAMBDA job : script[job[3]] # "ok")
    IN  IF i = 0 THEN None
        ELSE IF script[jobs[i][3]] = "panic" THEN <<0, 0, "panic">>
        ELSE <<jobs[i][1], jobs[i][2], "script">>

\* The order failures are compared in: (block_order, index).
Before(f, g) == f[1] < g[1] \/ (f[1] = g[1] /\ f[2] < g[2])

FirstOf(failures) ==
    IF failures = {} THEN None
    ELSE CHOOSE f \in failures : \A g \in failures : ~Before(g, f)

-----------------------------------------------------------------------------
(***************************************************************************)
(* One transaction (prepare_transaction_with_context), against a view that *)
(* answers every outpoint with a coin or Absent.                           *)
(***************************************************************************)
InputError(coin, op, t, height) ==
    IF coin = Absent THEN "missing"
    ELSE IF op \in Coinbases /\ height < coin + Maturity THEN "immature"
    ELSE IF Lock[t] > 0 /\ height <= coin + Lock[t] - 1 THEN "relative lock"
    ELSE "none"

SumOf(ops) == FoldLeft(LAMBDA sum, op : sum + Value[op], 0, ops)

TransactionError(view, t, height) ==
    LET bad == SelectInSeq(Ins[t],
                    LAMBDA op : InputError(view[op], op, t, height) # "none")
    IN  IF height < Final[t] THEN "lock time"
        ELSE IF t \in Coinbases THEN "none"
        ELSE IF bad # 0
             THEN InputError(view[Ins[t][bad]], Ins[t][bad], t, height)
        ELSE IF Value[t] > SumOf(Ins[t]) THEN "inflation"
        ELSE "none"

\* The fee a transaction adds and the budget its block has left.
Fee(t) == IF t \in Coinbases THEN 0 ELSE SumOf(Ins[t]) - Value[t]
Fees(txs) == FoldLeft(LAMBDA sum, t : sum + Fee(t), 0, txs)
SigopsOf(txs) == FoldLeft(LAMBDA sum, t : sum + Sigops[t], 0, txs)

\* block_output_collisions: outputs of the block that exist before it.
Collisions(view, txs) == {t \in Range(txs) : view[t] # Absent}

\* The checks a block defers: one for every transaction but its coinbase.
Jobs(txs, order) ==
    [k \in 1 .. Len(txs) - 1 |-> <<order, k, txs[k + 1]>>]

(***************************************************************************)
(* What checking the transactions of a block in turn reports.  Error gives *)
(* the error of transaction k in the state its predecessors leave; scripts *)
(* of the transactions before the failing one are verified first and win,  *)
(* except over the block's signature-operation limit, which returns at     *)
(* once.  An excessive coinbase is noticed last.                           *)
(***************************************************************************)
BlockFailure(txs, order, script, errors) ==
    LET refused == SelectInSeq(errors, LAMBDA e : e # "none")
        costly  == SelectInSeq([k \in DOMAIN txs |-> SubSeq(txs, 1, k)],
                        LAMBDA prefix : SigopsOf(prefix) > MaxSigops)
        Scripts(upto) == ExecuteWork(Jobs(SubSeq(txs, 1, upto), order), script)
        Else(failure, own) == IF failure # None
                              THEN <<order, failure[2], failure[3]>> ELSE own
    IN  IF costly # 0 /\ (refused = 0 \/ costly < refused)
        THEN <<order, costly - 1, "sigops">>
        ELSE IF refused # 0
        THEN Else(Scripts(refused - 1), <<order, refused - 1, errors[refused]>>)
        ELSE IF Value[txs[1]] > Subsidy + Fees(txs)
        THEN Else(Scripts(Len(txs)), <<order, 0, "excess coinbase">>)
        ELSE None

-----------------------------------------------------------------------------
(***************************************************************************)
(* The applying path (validate_active_block_inner): the coins themselves   *)
(* are rewritten transaction by transaction, and the first failure in      *)
(* block order is the one reported.                                        *)
(***************************************************************************)
Without(coins, ops) ==
    [op \in DOMAIN coins |-> IF op \in ops THEN Absent ELSE coins[op]]

Write(coins, t, height) == [Without(coins, Range(Ins[t])) EXCEPT ![t] = height]

WriteAll(coins, txs, height) ==
    FoldLeft(LAMBDA c, t : Write(c, t, height), coins, txs)

\* apply_bip30_rules: the coins a block starts from.
AfterBip30(coins, block) ==
    IF block.rule = "overwrite"
    THEN Without(coins, Collisions(coins, block.txs)) ELSE coins

ApplyFailure(coins, start, block, height, script) ==
    IF block.rule = "enforced" /\ Collisions(coins, block.txs) # {}
    THEN <<0, 0, "bip30">>
    ELSE LET own == BlockFailure(block.txs, 0, script,
                        [k \in DOMAIN block.txs |->
                            TransactionError(
                                WriteAll(start, SubSeq(block.txs, 1, k - 1), height),
                                block.txs[k], height)])
         IN  IF own # None THEN own
             ELSE ExecuteWork(Jobs(block.txs, 0), script)

ApplyBlock(coins, block, height, script) ==
    [failure |-> ApplyFailure(coins, AfterBip30(coins, block), block, height, script),
     coins   |-> WriteAll(AfterBip30(coins, block), block.txs, height)]

-----------------------------------------------------------------------------
(***************************************************************************)
(* The preparing path.  versions[op] lists what the blocks of the batch do *)
(* to op as <<block index, coin>>, each block's creation before its spends *)
(* (phase one of connect_active_blocks_inner).                             *)
(***************************************************************************)
Spenders(txs, op) == SelectSeq(txs, LAMBDA t : op \in Range(Ins[t]))

Entries(txs, op, i, height) ==
    (IF op \in Range(txs) THEN <<<<i, height>>>> ELSE <<>>)
        \o [k \in 1 .. Len(Spenders(txs, op)) |-> <<i, Absent>>]

Versions(blocks, base) ==
    [op \in Txs |-> FlattenSeq([i \in DOMAIN blocks |->
                        Entries(blocks[i].txs, op, i, base + i)])]

\* BatchVersionView: the latest version an earlier block left, or the base.
Lookup(entries, upto, coin) ==
    LET earlier == SelectSeq(entries, LAMBDA e : e[1] < upto)
    IN  IF earlier = <<>> THEN coin ELSE Last(earlier)[2]

BatchVersionView(versions, upto, coins) ==
    [op \in Txs |-> Lookup(versions[op], upto, coins[op])]

(***************************************************************************)
(* PreparedDelta: the block's final word on every key it touched, and the  *)
(* keys it spent that existed before it.                                   *)
(***************************************************************************)
NoDelta == [state |-> <<>>, fromBase |-> {}]

\* Mutant of Spend: every spent key counts as one that existed before the block.
SpendFromBase(delta, op) ==
    [state |-> (op :> Absent) @@ delta.state, fromBase |-> delta.fromBase \cup {op}]

Spend(delta, op) ==
    [state    |-> (op :> Absent) @@ delta.state,
     fromBase |-> IF op \in DOMAIN delta.state THEN delta.fromBase
                  ELSE delta.fromBase \cup {op}]

SpendAll(delta, ops) == FoldLeft(Spend, delta, ops)

Created(delta, t, height) == [delta EXCEPT !.state = (t :> height) @@ @]

Record(delta, t, height) == Created(SpendAll(delta, Ins[t]), t, height)

Recorded(delta, txs, height) ==
    FoldLeft(LAMBDA d, t : Record(d, t, height), delta, txs)

\* BlockPrepareView: what the block resolved so far, over what it starts from.
BlockPrepareView(delta, below) ==
    [op \in Txs |-> IF op \in DOMAIN delta.state THEN delta.state[op] ELSE below[op]]

\* prepare_bip30_rules: the overwritten coins count as spent by the block.
Bip30Delta(below, block) ==
    IF block.rule = "overwrite"
    THEN SpendAll(NoDelta, SetToSeq(Collisions(below, block.txs))) ELSE NoDelta

\* What each transaction of the block is resolved against.
Views(below, delta, txs, height) ==
    [k \in DOMAIN txs |->
        BlockPrepareView(Recorded(delta, SubSeq(txs, 1, k - 1), height), below)]

\* UtxoUndo: the coins a transaction spent and the outpoint it created.
TransactionUndo(view, t) ==
    [spent |-> [op \in Range(Ins[t]) |-> view[op]], created |-> {t}]

\* Mutant of Bip30Undo: the overwritten coins are not recorded.
Bip30UndoNothing(below, delta) == <<>>

Bip30Undo(below, delta) ==
    IF DOMAIN delta.state = {} THEN <<>>
    ELSE <<[spent |-> [op \in DOMAIN delta.state |-> below[op]], created |-> {}]>>

\* net_changes: the keys removed from the state the block started from, and
\* the coins it leaves behind.
NetChanges(delta) ==
    [spent   |-> delta.fromBase,
     created |-> {op \in DOMAIN delta.state : delta.state[op] # Absent}]

Prepared(below, delta, views, block, height, order, script) ==
    [failure |-> IF block.rule = "enforced" /\ Collisions(below, block.txs) # {}
                 THEN <<order, 0, "bip30">>
                 ELSE BlockFailure(block.txs, order, script,
                        [k \in DOMAIN block.txs |->
                            TransactionError(views[k], block.txs[k], height)]),
     changes |-> NetChanges(Recorded(delta, block.txs, height)),
     undos   |-> Bip30Undo(below, delta)
                    \o [k \in DOMAIN block.txs |->
                            TransactionUndo(views[k], block.txs[k])],
     jobs    |-> Jobs(block.txs, order)]

PrepareOver(below, delta, block, height, order, script) ==
    Prepared(below, delta, Views(below, delta, block.txs, height),
             block, height, order, script)

PrepareBlock(below, block, height, order, script) ==
    PrepareOver(below, Bip30Delta(below, block), block, height, order, script)

-----------------------------------------------------------------------------
(***************************************************************************)
(* What the store does with a transition, and how a block is taken back.   *)
(***************************************************************************)
\* commit_connect_batch_owned refuses a spend of a coin it does not have and
\* a creation of one it has.
Takes(coins, changes) ==
    /\ \A op \in changes.spent : coins[op] # Absent
    /\ \A op \in changes.created : coins[op] = Absent \/ op \in changes.spent

Settle(coins, changes, height) ==
    [op \in DOMAIN coins |-> IF op \in changes.created THEN height
                             ELSE IF op \in changes.spent THEN Absent
                             ELSE coins[op]]

\* UtxoOverlay::undo; disconnect_block runs it over the undos in reverse.
UndoIsAccepted(coins, undo) == \A op \in DOMAIN undo.spent : coins[op] = Absent

UndoOne(coins, undo) ==
    [op \in DOMAIN coins |-> IF op \in DOMAIN undo.spent THEN undo.spent[op]
                             ELSE IF op \in undo.created THEN Absent
                             ELSE coins[op]]

DisconnectBlock(coins, undos) == FoldLeft(UndoOne, coins, Reverse(undos))

=============================================================================
