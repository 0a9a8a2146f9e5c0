------------------------ MODULE TransactionAdmission ------------------------
(***************************************************************************)
(* TransactionAdmissionPool (src/src/transaction_admission.rs): the bounded *)
(* local pool, as operators on one value                                    *)
(*     entries   admitted transactions in order of admission                *)
(*     capacity  how many it may hold (max_transactions)                    *)
(*     bytes     how many bytes they may have (max_bytes)                   *)
(*     rolling   the rolling minimum fee rate, decay whether it may decay   *)
(* and on the outputs utxo that the chain at the execution tip leaves       *)
(* unspent.  A transaction is its txid, a number, as the code orders by it. *)
(* Its fee and its sizes are constants: no step changes the script flags, so *)
(* reconcile finds no entry that grew.                                      *)
(***************************************************************************)
EXTENDS Integers, Sequences, FiniteSets, FiniteSetsExt, SequencesExt

CONSTANTS
  Txs,
  Spends, Creates,      \* outputs a transaction spends and creates
  Fee, Vsize, Size,     \* fee, sigop-adjusted virtual size and serialized size
  Truc, Signals,        \* version 3 transactions; the ones that signal BIP125
  Dust,                 \* dust outputs
  Invalid,              \* fail scripts or standardness
  FullRbf,
  MaxPackage,           \* MAX_PACKAGE_TRANSACTIONS
  MaxPackageVsize,      \* MAX_PACKAGE_VBYTES
  MaxCluster,           \* MAX_MEMPOOL_CLUSTER_TRANSACTIONS
  MaxClusterVsize,      \* MAX_MEMPOOL_CLUSTER_VBYTES
  MaxReplacements,      \* MAX_REPLACEMENT_EVICTIONS
  MaxTruc,              \* MAX_TRUC_CONNECTED_TRANSACTIONS
  MaxTrucVsize,         \* MAX_TRUC_VBYTES
  MaxTrucChildVsize,    \* MAX_TRUC_CHILD_VBYTES
  MinRelay, Incremental, SatsPerKvb

D == INSTANCE FeerateDiagram

Parents(t) == {p \in Txs : Spends[t] \cap Creates[p] # {}}
Refusal(why) == [ok |-> FALSE, why |-> why]

\* fee_for_rate
FeeForRate(rate, vsize) ==
    LET fee == (rate * vsize + SatsPerKvb - 1) \div SatsPerKvb
    IN  IF fee = 0 /\ rate > 0 THEN 1 ELSE fee
TotalFee(txs) == MapThenSumSet(LAMBDA t : Fee[t], txs)
TotalVsize(txs) == MapThenSumSet(LAMBDA t : Vsize[t], txs)
SizeOf(list) == FoldLeft(LAMBDA n, t : n + Size[t], 0, list)

\* Everything reached from txs along the edges.
RECURSIVE Grown(_, _)
Grown(txs, edges) ==
    LET more == txs \cup {e[2] : e \in {f \in edges : f[1] \in txs}}
    IN  IF more = txs THEN txs ELSE Grown(more, edges)
Down(pool) == {<<p, t>> \in pool \X pool : p \in Parents(t)}
Up(pool) == {<<t, p>> \in pool \X pool : p \in Parents(t)}
Descendants(pool, txs) == Grown(txs, Down(pool))
AncestorsOf(pool, txs) == Grown(txs, Up(pool))
ClusterOf(pool, t) == Grown({t}, Down(pool) \cup Up(pool))

-----------------------------------------------------------------------------
\* apply_to_overlay: the inputs first, then standardness, fee and scripts; the view is
\* changed only on success.
Apply(view, t, rate) ==
    IF ~ Spends[t] \subseteq view THEN Refusal("missing")
    ELSE IF Creates[t] \cap view # {} \/ t \in Invalid \/ Fee[t] < FeeForRate(rate, Vsize[t])
    THEN Refusal("refused")
    ELSE [ok |-> TRUE, view |-> (view \ Spends[t]) \cup Creates[t]]

\* Mutant of Surviving: an entry whose parent was dropped stays.
SurvivingAlone(entries, utxo) ==
    LET view == utxo \cup UNION {Creates[t] : t \in ToSet(entries)}
    IN  [view |-> view, entries |-> SelectSeq(entries, LAMBDA t : Spends[t] \subseteq view)]

\* The entries that still apply, in order, and the view they leave (reconcile).
Surviving(entries, utxo) ==
    FoldLeft(LAMBDA acc, t :
        LET r == Apply(acc.view, t, 0)
        IN  IF r.ok THEN [view |-> r.view, entries |-> Append(acc.entries, t)] ELSE acc,
        [view |-> utxo, entries |-> <<>>], entries)
Reconcile(pool, utxo) == [pool EXCEPT !.entries = Surviving(pool.entries, utxo).entries]

\* remove_with_descendants
RemoveWithDescendants(pool, roots) ==
    LET gone == Descendants(ToSet(pool.entries), roots \cap ToSet(pool.entries))
    IN  [pool EXCEPT !.entries = SelectSeq(@, LAMBDA t : t \notin gone)]

-----------------------------------------------------------------------------
\* diagram_chunks_for and chunks_for: every cluster among txs is linearized by itself, and
\* the chunks of all of them are taken in order of falling rate.  The linearizer is taken
\* to end within its allowance (Linearizer has the orders it leaves when it does not).
AsCluster(txs) ==
    [frac |-> [t \in txs |-> D!FeeFrac(Fee[t], Vsize[t])],
     parents |-> [t \in txs |-> Parents(t) \cap txs]]
ClusterChunks(txs) ==
    LET c == AsCluster(txs)
    IN  ToSet(D!Chunks(c, D!OptimalOrder(c, txs, CHOOSE o \in D!Orders(c, txs) : TRUE)))
ChunksFor(pool, txs) == UNION {ClusterChunks(ClusterOf(pool, t)) : t \in txs}
Diagram(chunks) ==
    D!Fractions(SetToSortSeq(chunks, LAMBDA a, b : D!RateLess(b.frac, a.frac)))

\* validate_cluster_limits
ClustersFit(pool, txs) ==
    \A cluster \in {ClusterOf(pool, t) : t \in txs} :
        Cardinality(cluster) <= MaxCluster /\ TotalVsize(cluster) <= MaxClusterVsize

\* Mutant of TrucHolds: the other descendants of a parent are not counted.
TrucHoldsForNew(pool, txs) ==
    \A t \in txs :
        /\ \A p \in Parents(t) \cap pool : p \in Truc <=> t \in Truc
        /\ t \in Truc =>
              /\ Vsize[t] <= MaxTrucVsize
              /\ Cardinality(AncestorsOf(pool, {t})) <= MaxTruc
              /\ Cardinality(Descendants(pool, {t})) <= MaxTruc
              /\ Parents(t) \cap pool # {} => Vsize[t] <= MaxTrucChildVsize
              /\ AncestorsOf(pool, {t}) \cup Descendants(pool, {t}) \subseteq Truc

\* validate_truc_policy, validate_truc_parent_descendants
TrucHolds(pool, txs) ==
    \A t \in txs :
        /\ \A p \in Parents(t) \cap pool : p \in Truc <=> t \in Truc
        /\ t \in Truc =>
              /\ Vsize[t] <= MaxTrucVsize
              /\ Cardinality(AncestorsOf(pool, {t})) <= MaxTruc
              /\ \A r \in {t} \cup (Parents(t) \cap pool) :
                    Cardinality(Descendants(pool, {r})) <= MaxTruc
              /\ Parents(t) \cap pool # {} => Vsize[t] <= MaxTrucChildVsize
              /\ AncestorsOf(pool, {t}) \cup Descendants(pool, {t}) \subseteq Truc

\* validate_ephemeral_dust
DustHolds(pool, txs) ==
    \A t \in txs \cup UNION {Parents(u) \cap pool : u \in txs} :
        LET children == {c \in pool : t \in Parents(c)}
        IN  Creates[t] \cap Dust # {} =>
                /\ Fee[t] = 0
                /\ Cardinality(children) <= 1
                /\ \A c \in children : Creates[t] \cap Dust \subseteq Spends[c]

-----------------------------------------------------------------------------
\* truc_sibling_conflicts
SiblingConflicts(pool, txs, direct) ==
    IF Cardinality(txs) # 1 \/ ~ txs \subseteq Truc THEN {}
    ELSE UNION {s \in {{c \in pool \ direct : p \in Parents(c)} :
                          p \in UNION {Parents(t) : t \in txs} \cap pool \cap Truc} :
                    Cardinality(s) = 1}
DirectConflicts(pool, txs) ==
    LET direct == {c \in pool : \E t \in txs : Spends[c] \cap Spends[t] # {}}
    IN  direct \cup SiblingConflicts(pool, txs, direct)

\* transaction_is_replaceable: by itself or through an ancestor.
Replaceable(pool, t) == AncestorsOf(pool, {t}) \cap (Truc \cup Signals) # {}

\* prepare_replacement and validate_replacement_inputs, the conflicts direct given.
MayReplace(pool, txs, direct) ==
    /\ FullRbf \/ \A c \in direct : Replaceable(pool, c)
    /\ MapThenSumSet(LAMBDA c : Cardinality(Descendants(pool, {c})), direct) <= MaxReplacements
    /\ \A t \in txs : Parents(t) \cap pool \subseteq UNION {Parents(c) : c \in direct}
Affected(pool, txs, direct) ==
    UNION {ClusterOf(pool, t) : t \in direct \cup (UNION {Parents(u) : u \in txs} \cap pool)}

\* validate_replacement_fees
ReplacementPays(txs, replaced) ==
    /\ TotalFee(txs) > TotalFee(replaced)
    /\ TotalFee(txs) - TotalFee(replaced) >= FeeForRate(Incremental, TotalVsize(txs))

\* Mutant of ReplacementImproves: paying more is enough.
ReplacementPaysOnly(before, after, txs, direct, replaced) == TRUE

\* The diagram of the affected clusters must be better after the replacement.
ReplacementImproves(before, after, txs, direct, replaced) ==
    LET affected == Affected(before, txs, direct)
    IN  D!Compare(Diagram(ChunksFor(after, (affected \ replaced) \cup txs)),
                  Diagram(ChunksFor(before, affected))) = "better"

-----------------------------------------------------------------------------
\* effective_rolling_minimum_fee_sat_kvb, never below the minimum relay rate.
Floor(pool) ==
    Max({MinRelay, pool.rolling} \cup IF pool.decay /\ pool.rolling # 0 THEN {Incremental} ELSE {})

\* topological_package_order: of the transactions whose parents are placed the lowest txid.
RECURSIVE Ordered(_)
Ordered(txs) ==
    IF txs = {} THEN <<>>
    ELSE LET next == Min({t \in txs : Parents(t) \cap txs = {}})
         IN  <<next>> \o Ordered(txs \ {next})

\* is_child_with_parents_tree: one parent and its child.
ParentAndChild(order) == Len(order) = 2 /\ order[1] \in Parents(order[2])

\* append_ordered_package: every transaction pays the floor by itself, or, for a parent
\* with its child, the child together with a parent that does not.
AppendPackage(view, order, together, floor) ==
    LET One(acc, t) ==
            IF ~ acc.ok THEN acc
            ELSE IF acc.spent \cap Spends[t] # {} THEN Refusal("refused")
            ELSE LET r == Apply(acc.view, t, IF together THEN 0 ELSE floor)
                 IN  IF r.ok THEN [ok |-> TRUE, view |-> r.view, spent |-> acc.spent \cup Spends[t]]
                             ELSE r
        applied == FoldLeft(One, [ok |-> TRUE, view |-> view, spent |-> {}], order)
        sponsored == {t \in ToSet(order) :
                          t = Last(order) \/ Fee[t] < FeeForRate(floor, Vsize[t])}
    IN  IF applied.ok /\ together /\ TotalFee(sponsored) < FeeForRate(floor, TotalVsize(sponsored))
        THEN Refusal("refused") ELSE applied

\* The entries replayed one by one at no fee; the first that fails fails the package.
Replay(entries, utxo) ==
    FoldLeft(LAMBDA acc, t : IF acc.ok THEN Apply(acc.view, t, 0) ELSE acc,
             [ok |-> TRUE, view |-> utxo], entries)

\* evict_to_capacity: the worst chunk no other chunk depends on, first by rate, then by
\* age; not when it holds a newcomer.
Position(pool, chunk) == Min({n \in DOMAIN pool.entries : pool.entries[n] \in chunk.txs})
Leaves(pool, chunks) ==
    {c \in chunks : ~ \E t \in ToSet(pool.entries) \ c.txs : Parents(t) \cap c.txs # {}}
WorseThan(pool, a, b) ==
    \/ D!RateLess(a.frac, b.frac)
    \/ D!SameRate(a.frac, b.frac) /\ Position(pool, a) < Position(pool, b)
WorstOf(pool, leaves) == CHOOSE c \in leaves : ~ \E other \in leaves : WorseThan(pool, other, c)
Worst(pool) ==
    WorstOf(pool, Leaves(pool, ChunksFor(ToSet(pool.entries), ToSet(pool.entries))))

\* track_removed_fee: the floor rises above what was removed.
WithoutChunk(pool, chunk) ==
    LET rate == (chunk.frac.fee * SatsPerKvb) \div chunk.frac.size + Incremental
    IN  [pool EXCEPT !.entries = SelectSeq(@, LAMBDA t : t \notin chunk.txs),
                     !.rolling = Max({@, rate}),
                     !.decay = @ /\ rate <= pool.rolling]

\* Mutant of WithinCapacity: only the transactions are counted.
WithinCount(pool) == Len(pool.entries) <= pool.capacity

WithinCapacity(pool) ==
    Len(pool.entries) <= pool.capacity /\ SizeOf(pool.entries) <= pool.bytes

RECURSIVE EvictToCapacity(_, _)
EvictToCapacity(pool, newcomers) ==
    IF WithinCapacity(pool) THEN [ok |-> TRUE, pool |-> pool]
    ELSE LET worst == Worst(pool)
         IN  IF worst.txs \cap newcomers # {} THEN Refusal("refused")
             ELSE EvictToCapacity(WithoutChunk(pool, worst), newcomers)

\* admit_package_inner, on the new transactions txs of a package.
AdmitNew(pool, txs, utxo) ==
    LET before == ToSet(pool.entries)
        direct == DirectConflicts(before, txs)
        replaced == Descendants(before, direct)
        kept == SelectSeq(pool.entries, LAMBDA t : t \notin replaced)
        order == Ordered(txs)
        base == Replay(kept, utxo)
        added == AppendPackage(base.view, order, ParentAndChild(order) /\ direct = {}, Floor(pool))
        after == ToSet(kept) \cup txs
    IN  IF direct # {} /\ ~ MayReplace(before, txs, direct) THEN Refusal("refused")
        ELSE IF ~ base.ok THEN base
        ELSE IF ~ added.ok THEN added
        ELSE IF /\ TotalVsize(txs) <= MaxPackageVsize
                /\ ClustersFit(after, txs) /\ TrucHolds(after, txs) /\ DustHolds(after, txs)
                /\ direct = {} \/ (/\ ReplacementPays(txs, replaced)
                                   /\ ReplacementImproves(before, after, txs, direct, replaced))
        THEN EvictToCapacity([pool EXCEPT !.entries = kept \o order], txs)
        ELSE Refusal("refused")

\* admit_package_at, on the package as submitted.  What is present already counts toward
\* the bound and is left alone.
AdmitPackage(pool, package, utxo) ==
    LET txs == ToSet(package) \ ToSet(pool.entries)
    IN  IF Len(package) > MaxPackage \/ Len(package) # Cardinality(ToSet(package))
        THEN Refusal("refused")
        ELSE IF txs = {} THEN [ok |-> TRUE, pool |-> pool]
        ELSE AdmitNew(pool, txs, utxo)

-----------------------------------------------------------------------------
\* dependency_packages: a package grows from the last transaction left; the one taken out is
\* replaced by the last (swap_remove).
SwapRemove(seq, n) ==
    IF n = Len(seq) THEN Front(seq) ELSE [Front(seq) EXCEPT ![n] = Last(seq)]
Connected(a, b) == a \in Parents(b) \/ b \in Parents(a)
RECURSIVE GrowPackage(_, _)
GrowPackage(package, rest) ==
    LET related == {n \in DOMAIN rest : \E t \in ToSet(package) : Connected(t, rest[n])}
    IN  IF related = {} THEN [package |-> package, rest |-> rest]
        ELSE GrowPackage(Append(package, rest[Min(related)]), SwapRemove(rest, Min(related)))
RECURSIVE DependencyPackages(_)
DependencyPackages(seq) ==
    IF seq = <<>> THEN <<>>
    ELSE LET grown == GrowPackage(<<Last(seq)>>, Front(seq))
         IN  <<grown.package>> \o DependencyPackages(grown.rest)
=============================================================================
