--------------------------- MODULE PeerAdmission ---------------------------
(***************************************************************************)
(* The admission pipeline of the active peer session (src/src/node.rs,      *)
(* admit_pending_peer_transactions and the loops around it) with the pool   *)
(* (transaction_admission.rs) and its store mempool.redb                    *)
(* (transaction_pool_store.rs).  A pass works on a private copy of the pool: *)
(* the persisted and the disconnected transactions and those of the peer    *)
(* are split into packages and admitted one package a step, then at most     *)
(* one waiting orphan is tried; the result is committed to the store and     *)
(* only then published.  The chain moves underneath: blocks connect, stale   *)
(* blocks are disconnected before the next pass, sessions end and the        *)
(* process crashes.                                                         *)
(***************************************************************************)
EXTENDS TransactionAdmission

CONSTANTS
  Genesis,
  Path,                 \* Path[b]: the blocks from above Genesis to b
  Work,                 \* cumulative work of the header chain to b
  Content,              \* Content[b]: its transactions in order, without the coinbase
  Base,                 \* outputs unspent at Genesis
  MaxPending,           \* bound of the model on what a peer has sent
  MaxOrphans,           \* MAX_ORPHAN_TRANSACTIONS
  MaxParentRequests,    \* MAX_ORPHAN_PARENT_REQUESTS
  Legacy,               \* transactions without a witness
  Heavy,                \* above the standard weight: in blocks, never relayed
  Setups                \* capacities of the pool, the transactions and blocks peers offer,
                        \* and the blocks the ledger still has when they become stale

VARIABLES
  setup,                \* one of Setups
  active,               \* tip of the header chain
  tip,                  \* tip of the executed chain
  pool,                 \* the published pool, lost in a crash
  store,                \* mempool.redb
  pending,              \* received from the peer, not yet taken into a pass
  disc,                 \* transactions of blocks this session disconnected
  stage,                \* "idle", "packages", "commit", "publish" or "again"
  cand,                 \* the private candidate
  todo,                 \* packages the pass has still to admit
  taken,                \* what the pass took from the peer
  grown,                \* parents accepted since orphans were last scheduled
  wants                 \* whether the pass asked for missing parents

chain == <<setup, active, tip>>
pass == <<stage, cand, todo, taken, grown, wants>>
vars == <<chain, pool, store, pending, disc, pass>>

Height(b) == Len(Path[b])
OnPath(a, b) == a = Genesis \/ a \in ToSet(Path[b])
Utxo(b) ==
    LET txs == UNION {ToSet(Content[a]) : a \in ToSet(Path[b])}
    IN  (Base \cup UNION {Creates[t] : t \in txs}) \ UNION {Spends[t] : t \in txs}

NoPool ==
    [capacity |-> setup.capacity, bytes |-> setup.bytes, entries |-> <<>>, rolling |-> 0, decay |-> FALSE,
     observed |-> "none", withheld |-> FALSE,
     orphans |-> {}, work |-> {}, asked |-> {}, rejected |-> {}, confirmed |-> {}]
NoStore == [active |-> <<>>, disconnected |-> <<>>]

Init ==
    /\ setup \in Setups
    /\ active = Genesis /\ tip = Genesis
    /\ pool = NoPool /\ store = NoStore
    /\ pending = <<>> /\ disc = <<>>
    /\ stage = "idle" /\ cand = NoPool /\ todo = <<>> /\ taken = <<>> /\ grown = {} /\ wants = FALSE

-----------------------------------------------------------------------------
\* rebuild_orphan_indexes: work and parent requests survive only for orphans that do.
Orphans(p, left) ==
    [p EXCEPT !.orphans = left,
              !.work = @ \cap left,
              !.asked = @ \cap UNION {Parents(t) : t \in left}]
RemoveOrphans(p, txs) == Orphans(p, p.orphans \ txs)
Knows(p, t) == t \in ToSet(p.entries) \cup p.orphans \cup p.confirmed

\* schedule_orphan_children
Schedule(p, parents) ==
    [p EXCEPT !.asked = @ \ parents,
              !.work = @ \cup {t \in p.orphans : Parents(t) \cap parents \cap ToSet(p.entries) # {}}]

\* observe_chain_tip, then a decay of the floor by some amount once a new block enabled it.
Observe(p) ==
    IF p.observed \notin {"none", tip}
    THEN [p EXCEPT !.observed = tip, !.decay = TRUE, !.rejected = {}]
    ELSE [p EXCEPT !.observed = tip]

\* validate_transactions: parents first, no duplicate, no conflict, none above the standard
\* weight, within the capacity.
Encodable(txs) ==
    /\ Len(txs) <= setup.capacity /\ SizeOf(txs) <= setup.bytes
    /\ ToSet(txs) \cap Heavy = {}
    /\ \A m, n \in DOMAIN txs :
          /\ m # n => txs[m] # txs[n] /\ Spends[txs[m]] \cap Spends[txs[n]] = {}
          /\ txs[m] \in Parents(txs[n]) => m < n

-----------------------------------------------------------------------------
\* The header chain gains work; a session finds out when it synchronizes headers.
NewHeaders ==
    /\ stage = "idle"
    /\ \E b \in setup.blocks : Work[b] > Work[active] /\ active' = b
    /\ UNCHANGED <<setup, tip, pool, store, pending, disc, pass>>

\* The session asks for transactions, and reads what arrived, only at a caught-up tip.
Deliver(t) ==
    /\ stage \in {"idle", "again"} /\ tip = active
    /\ Len(pending) < MaxPending
    /\ pending' = Append(pending, t)
    /\ UNCHANGED <<chain, pool, store, disc, pass>>

\* The end of download_execute_batch: the orphans a block includes or conflicts with go.
Connect ==
    /\ stage = "idle"
    /\ OnPath(tip, active) /\ tip # active
    /\ LET b == Path[active][Height(tip) + 1]
           txs == ToSet(Content[b])
           left == {t \in pool.orphans : ~ \E u \in txs : Spends[u] \cap Spends[t] # {}}
       IN  /\ tip' = b
           /\ pool' = [Orphans(pool, left) EXCEPT !.confirmed = @ \cup txs, !.asked = @ \ txs]
    /\ UNCHANGED <<setup, active, store, pending, disc, pass>>

\* retain_disconnected_block_transactions: in front, the latest fall out.
Retained(list, b) ==
    LET fitting == {l \in Prefixes(Content[b] \o list) :
                       Len(l) <= setup.capacity /\ SizeOf(l) <= setup.bytes}
    IN  CHOOSE l \in fitting : \A other \in fitting : Len(other) <= Len(l)

\* The recovery snapshot that replace_disconnected accepts for the tip, if it does.
Recovery == {list \in {Retained(disc, tip)} : Encodable(list)}

\* disconnect_execution_tip, after which the recently confirmed transactions are forgotten.
Disconnect ==
    /\ tip' = IF Height(tip) = 1 THEN Genesis ELSE Path[tip][Height(tip) - 1]
    /\ pool' = [pool EXCEPT !.confirmed = {}]
    /\ UNCHANGED <<setup, active, pending, pass>>

Stale == stage = "idle" /\ ~ OnPath(tip, active)

\* One round of the rewind loop: the recovery snapshot is committed before the block goes.
Rewind ==
    /\ Stale
    /\ tip \in setup.retained
    /\ disc' \in Recovery
    /\ store' = [store EXCEPT !.disconnected = disc']
    /\ Disconnect

\* The ledger has pruned the stale block: it goes, and its transactions with it.
RewindUnavailable ==
    /\ Stale
    /\ tip \notin setup.retained
    /\ Disconnect
    /\ UNCHANGED <<disc, store>>

\* A crash between the commit of the recovery snapshot and the disconnection.
RewindCrash ==
    /\ Stale
    /\ tip \in setup.retained
    /\ \E list \in Recovery : store' = [store EXCEPT !.disconnected = list]
    /\ disc' = <<>> /\ pending' = <<>> /\ pool' = NoPool
    /\ UNCHANGED <<chain, pass>>

\* Any error ends the session: what it held is gone, and the guard of run_connected_peer
\* removes its orphans.
EndPass(next) ==
    /\ stage' = next
    /\ cand' = NoPool /\ todo' = <<>> /\ taken' = <<>> /\ grown' = {} /\ wants' = FALSE
\* Mutant of SessionEnds: the disconnected transactions outlive the session.
SessionKeepsDisconnected ==
    /\ pool' = RemoveOrphans(pool, pool.orphans)
    /\ pending' = <<>>
    /\ EndPass("idle")
    /\ UNCHANGED <<chain, store, disc>>

SessionEnds ==
    /\ pool' = RemoveOrphans(pool, pool.orphans)
    /\ pending' = <<>> /\ disc' = <<>>
    /\ EndPass("idle")
    /\ UNCHANGED <<chain, store>>

\* The error of a recovery snapshot with a duplicate, a conflict or a heavy transaction.
RewindRefused ==
    /\ Stale
    /\ tip \in setup.retained
    /\ Recovery = {}
    /\ SessionEnds

Crash ==
    /\ pool' = NoPool
    /\ pending' = <<>> /\ disc' = <<>>
    /\ EndPass("idle")
    /\ UNCHANGED <<chain, store>>

-----------------------------------------------------------------------------
AtMostOne(set) == {{}} \cup {{x} : x \in set}

\* The start of a pass, at a caught-up tip: expired transactions go with their descendants,
\* the copy is reconciled with the chain, and everything pending is split into packages.
Begin ==
    /\ stage \in {"idle", "again"} /\ tip = active
    /\ \E expired \in AtMostOne(ToSet(store.active)), aged \in AtMostOne(pool.orphans),
          rate \in {pool.rolling, pool.rolling \div 2} :
          LET stale == Grown(expired, Down(ToSet(store.active)))
              persisted == SelectSeq(store.active, LAMBDA t : t \notin stale)
              recovered == IF disc = <<>> THEN store.disconnected ELSE disc
              start == Observe([pool EXCEPT !.withheld = FALSE])
          IN  /\ rate # pool.rolling => pool.decay /\ pool.observed = tip /\ (2 * rate >= Incremental \/ rate = 0)
              /\ todo' = DependencyPackages(persisted \o recovered \o pending)
              /\ cand' = Orphans(Reconcile(RemoveWithDescendants([start EXCEPT !.rolling = rate], expired),
                                           Utxo(tip)),
                                 pool.orphans \ aged)
    /\ pool' = [pool EXCEPT !.withheld = @ \/ (pool.observed # tip /\ pool.entries # <<>>)]
    /\ taken' = pending /\ pending' = <<>>
    /\ stage' = "packages" /\ grown' = {} /\ wants' = FALSE
    /\ UNCHANGED <<chain, store, disc>>

\* retain_orphans: over the bound random ones fall out.
Retain(p, txs) ==
    LET all == p.orphans \cup (txs \ ToSet(p.entries))
        size == Min({Cardinality(all), MaxOrphans})
    IN  {Orphans(p, left) : left \in {s \in SUBSET all : Cardinality(s) = size}}

\* select_orphan_parent_requests, in txid order.
Ask(p, parents) ==
    LET new == parents \ (p.rejected \cup p.asked)
        room == Max({0, MaxParentRequests - Cardinality(p.asked)})
    IN  [p EXCEPT !.asked = @ \cup {t \in new : Cardinality({u \in new : u < t}) < room}]
Unavailable(p, package, source) ==
    {q \in UNION {Parents(t) : t \in source} \ package :
        /\ ~ Knows(p, q)
        /\ \E t \in source : (Spends[t] \cap Creates[q]) \ Utxo(tip) # {}}

\* What becomes of the candidate p when one package has been tried: the possible results,
\* each with the transactions accepted and whether parents are asked for.
Result(p, accepted, wanted) == [pool |-> p, accepted |-> accepted, wants |-> wanted]
Outcomes(p, r, asked, txs, source, waiting) ==
    LET wanted == asked.asked # p.asked
    IN  IF r.ok
        THEN {Result(RemoveOrphans(r.pool, txs), txs \ ToSet(p.entries), FALSE)}
        ELSE IF r.why # "missing"
        THEN {Result([RemoveOrphans(p, txs) EXCEPT !.rejected = @ \cup (source \cap Legacy)], {}, FALSE)}
        ELSE IF UNION {Parents(t) : t \in source} \cap p.rejected # {}
        THEN {Result([RemoveOrphans(p, source) EXCEPT !.rejected = @ \cup source], {}, FALSE)}
        ELSE IF waiting \/ source = {} THEN {Result(asked, {}, wanted)}
        ELSE {Result(q, {}, wanted) : q \in Retain(asked, source)}
Tried(p, package, waiting) ==
    LET txs == ToSet(package)
        source == IF waiting THEN txs ELSE txs \cap ToSet(taken)
    IN  Outcomes(p, AdmitPackage(p, package, Utxo(tip)), Ask(p, Unavailable(p, txs, source)),
                 txs, source, waiting)

Package ==
    /\ stage = "packages" /\ todo # <<>>
    /\ \E r \in Tried(cand, Head(todo), FALSE) :
          /\ cand' = r.pool
          /\ grown' = grown \cup r.accepted
          /\ wants' = (wants \/ r.wants)
    /\ todo' = Tail(todo)
    /\ UNCHANGED <<chain, pool, store, pending, disc, stage, taken>>

\* The packages are done: the orphans of accepted parents are scheduled, and at most one of
\* those waiting, the lowest txid, is tried by itself.
Scheduled == Schedule(cand, grown)
TryOrphan ==
    /\ stage = "packages" /\ todo = <<>>
    /\ Scheduled.work # {}
    /\ LET next == Min(Scheduled.work)
       IN  \E r \in Tried([Scheduled EXCEPT !.work = @ \ {next}], <<next>>, TRUE) :
              /\ cand' = Schedule(r.pool, r.accepted)
              /\ wants' = (wants \/ r.wants)
    /\ grown' = {} /\ stage' = "commit"
    /\ UNCHANGED <<chain, pool, store, pending, disc, todo, taken>>
NoOrphan ==
    /\ stage = "packages" /\ todo = <<>>
    /\ Scheduled.work = {}
    /\ cand' = Scheduled /\ grown' = {} /\ stage' = "commit"
    /\ UNCHANGED <<chain, pool, store, pending, disc, todo, taken, wants>>

\* replace_and_clear_disconnected_at
Commit ==
    /\ stage = "commit"
    /\ Encodable(cand.entries)
    /\ store' = [active |-> cand.entries, disconnected |-> <<>>]
    /\ stage' = "publish"
    /\ UNCHANGED <<chain, pool, pending, disc, cand, todo, taken, grown, wants>>

\* The pool is replaced.  With orphan work left or parents to fetch the next pass follows
\* at once; otherwise the loop is over and the disconnected transactions are settled.
Publish ==
    /\ stage = "publish"
    /\ pool' = cand
    /\ LET more == cand.work # {} \/ wants
       IN  /\ disc' = IF more THEN disc ELSE <<>>
           /\ EndPass(IF more THEN "again" ELSE "idle")
    /\ UNCHANGED <<chain, store, pending>>

\* The work budget runs out: the copy is dropped and the peer's transactions wait again.
Defer ==
    /\ stage = "packages"
    /\ pending' = taken
    /\ EndPass("idle")
    /\ UNCHANGED <<chain, pool, store, disc>>

Next ==
    \/ NewHeaders \/ Connect \/ Rewind \/ RewindUnavailable \/ RewindCrash \/ RewindRefused
    \/ SessionEnds \/ Crash
    \/ \E t \in setup.txs : Deliver(t)
    \/ Begin \/ Package \/ TryOrphan \/ NoOrphan \/ Commit \/ Publish \/ Defer
Spec == Init /\ [][Next]_vars
FairSpec ==
    Spec /\ WF_vars(Rewind) /\ WF_vars(RewindUnavailable) /\ WF_vars(RewindRefused)

-----------------------------------------------------------------------------
\* What the pool serves at the tip it was validated for can be mined there in its own order:
\* every input is unspent on the chain or created by an earlier entry, and no two entries
\* conflict, through replacements, evictions, expiry, reorganizations and failed passes
\* (admit_package_at, reconcile, require_revalidation).
PoolIsMineable ==
    (pool.observed = tip /\ ~ pool.withheld) => Replay(pool.entries, Utxo(tip)).ok

\* The limits that are checked only around newcomers hold for the whole pool: the version 3
\* topology, ephemeral dust and the capacity (validate_truc_policy, validate_ephemeral_dust,
\* evict_to_capacity).
PoolKeepsLimits ==
    stage = "commit" =>
        /\ WithinCapacity(cand)
        /\ TrucHolds(ToSet(cand.entries), ToSet(cand.entries))
        /\ DustHolds(ToSet(cand.entries), ToSet(cand.entries))

\* mempool.redb never refuses the pool a pass produced, on any chain and after any rewind: no
\* child comes before a parent that was disconnected and admitted again, no duplicate and no
\* conflict, no transaction of a block that was never relayed, and not too many bytes
\* (admit_package_at, validate_transactions).
StoreTakesEveryPool == stage = "commit" => Encodable(cand.entries)

\* A package that takes entries out of the pool for anything but its capacity leaves the
\* whole pool with a strictly better feerate diagram: replacements, those of siblings and of
\* all descendants too, are paid for (prepare_replacement, validate_replacement_fees, the
\* diagram comparison of admit_package_inner).  The diagrams are those of optimal orders.
TotalSize(txs) == MapThenSumSet(LAMBDA t : Size[t], txs)
WholeDiagram(p) == Diagram(ChunksFor(ToSet(p.entries), ToSet(p.entries)))
ReplacementsImprove ==
    [][ LET before == ToSet(cand.entries)
            new == grown' \ grown
            lost == Descendants(before, DirectConflicts(before, new))
        IN  (/\ stage = "packages" /\ stage' = "packages"
             /\ ~ before \subseteq ToSet(cand'.entries)
             /\ Cardinality((before \ lost) \cup new) <= setup.capacity
             /\ TotalSize((before \ lost) \cup new) <= setup.bytes)
            => D!Compare(WholeDiagram(cand'), WholeDiagram(cand)) = "better" ]_vars

\* The execution tip gets back to the active chain when none of the stale blocks that the
\* ledger retains has a heavy transaction: a recovery snapshot that cannot be written because
\* what the session collected repeats or conflicts ends one session, never all of them (the
\* rewind loop, replace_disconnected).
Recoverable(b) == \A a \in ToSet(Path[b]) \cap setup.retained : ToSet(Content[a]) \cap Heavy = {}
RewindsComplete == (~ OnPath(tip, active) /\ Recoverable(tip)) ~> OnPath(tip, active)

\* Until a pass publishes its result, a transaction of a disconnected block stays in the
\* recovery snapshot, unless the new chain has it or the snapshot is full ("This closes the
\* mid-reorg process-failure window").
DisconnectedAreKept ==
    [][ (stage # "commit" /\ Len(store'.disconnected) < setup.capacity)
        => \A t \in ToSet(store.disconnected) \ ToSet(store'.disconnected) :
              \E b \in ToSet(Path[active]) : t \in ToSet(Content[b]) ]_vars
=============================================================================
