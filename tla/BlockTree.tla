------------------------------ MODULE BlockTree ------------------------------
(***************************************************************************)
(* Blocks as the chainstate sees them: a tree of blocks over a base, each   *)
(* with the net coins it spends and creates (ConnectTransition in           *)
(* src/src/chain_store.rs), and batches of consecutive blocks.  A coin is   *)
(* its outpoint: a transaction id commits to the output it names.           *)
(***************************************************************************)
EXTENDS Naturals, Sequences

CONSTANTS
    Blocks,        \* the blocks a peer can offer, valid and invalid ones
    Base,          \* the block the chainstate starts from
    Parent,        \* the previous block of each block
    Coins,         \* outpoints
    BaseCoins,     \* the coins unspent at Base
    Spends,        \* net coins each block spends
    Creates,       \* net coins each block creates
    MaxBatchLen    \* max_blocks_per_batch

ASSUME TreeAssumption ==
    /\ Base \notin Blocks
    /\ Parent \in [Blocks -> Blocks \cup {Base}]
    /\ BaseCoins \subseteq Coins
    /\ Spends \in [Blocks -> SUBSET Coins]
    /\ Creates \in [Blocks -> SUBSET Coins]
    /\ MaxBatchLen \in Nat \ {0}

Batches == UNION {[1 .. n -> Blocks] : n \in 1 .. MaxBatchLen}

\* The blocks of s follow each other and the first one follows `from'.
Linked(from, s) ==
    \A i \in DOMAIN s : Parent[s[i]] = IF i = 1 THEN from ELSE s[i - 1]

LastOr(s, default) == IF s = <<>> THEN default ELSE s[Len(s)]

SetOf(s) == {s[i] : i \in DOMAIN s}

SpentBy(s) == UNION {Spends[s[i]] : i \in DOMAIN s}
CreatedBy(s) == UNION {Creates[s[i]] : i \in DOMAIN s}
CreatedBefore(s, i) == UNION {Creates[s[j]] : j \in 1 .. (i - 1)}

\* Coins the batch takes from the store: spent, not created earlier in the batch.
ExternalInputs(s) ==
    {c \in Coins : \E i \in DOMAIN s : c \in Spends[s[i]] \ CreatedBefore(s, i)}

\* A transaction id is never repeated and never spent before it exists: a block
\* spends nothing that it or a later block of the batch creates.
TxidsUnique(s) ==
    \A i, j \in DOMAIN s :
        /\ i < j => Creates[s[i]] \cap Creates[s[j]] = {}
        /\ i <= j => Spends[s[i]] \cap Creates[s[j]] = {}

\* The executor's verdict on a batch, given the external inputs that exist:
\* every input exists and is spent once.
Valid(found, s) ==
    /\ ExternalInputs(s) \subseteq found
    /\ \A i, j \in DOMAIN s : i < j => Spends[s[i]] \cap Spends[s[j]] = {}

\* The coins left when a valid batch of unique transactions is applied.
CoinsAfter(coins, s) == (coins \cup CreatedBy(s)) \ SpentBy(s)

\* The coins left when the tip block is taken back.
CoinsBefore(coins, b) == (coins \ Creates[b]) \cup Spends[b]
=============================================================================
