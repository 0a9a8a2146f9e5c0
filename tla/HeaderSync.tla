------------------------------ MODULE HeaderSync ------------------------------
(***************************************************************************)
(* The header side of the node: the DAG in memory, the header store         *)
(* (src/src/header_store.rs), headers-first synchronization, submitted      *)
(* blocks and the projection that inbound peers read (sync_headers,         *)
(* stage_submitted_blocks and settle_submitted_blocks in src/src/node.rs),  *)
(* with crashes and a clock.  Execution is the chain it has reached.        *)
(***************************************************************************)
EXTENDS HeaderDag

CONSTANTS
    Offsets,        \* offsets of the network-adjusted time
    MaxClock,       \* bound on the local clock
    MaxResponse,    \* MAX_HEADERS_PER_RESPONSE
    MaxPending,     \* MAX_PENDING_SUBMITTED_BLOCKS
    MaxEvictions    \* max_entries of stage_leaf_evictions

VARIABLES
    rows,       \* the header store: headers in insertion order
    dag,        \* HeaderDag in memory
    stage,      \* StagedHeaderBatch, StagedHeaderEviction or the replay of the store
    pc,         \* what the node does with its headers
    served,     \* inbound_headers
    exec,       \* the executed chain
    drained,    \* the submissions taken from PendingBlockQueue
    batch,      \* prefetched_blocks
    awaiting,   \* awaiting_submissions
    clock

submitVars == <<drained, batch, awaiting>>
vars == <<rows, dag, stage, pc, served, exec, drained, batch, awaiting, clock>>

SetOf(s) == {s[i] : i \in DOMAIN s}
Front(s) == SubSeq(s, 1, Len(s) - 1)
Last(s) == s[Len(s)]
Sequences(S, n) == UNION {[1 .. k -> S] : k \in 1 .. n}
Least(a, b) == IF a < b THEN a ELSE b

Stage(todo, adjusted, from) ==
    [todo |-> todo, done |-> <<>>, tip |-> dag.tip, len |-> Len(dag.chain),
     rebuilt |-> FALSE, adjusted |-> adjusted, from |-> from]
NoStage == [todo |-> <<>>, done |-> <<>>, tip |-> Genesis, len |-> 1,
            rebuilt |-> FALSE, adjusted |-> 0, from |-> "none"]

Init ==
    /\ rows = <<>>
    /\ dag = New
    /\ stage = NoStage
    /\ pc = "closed"
    /\ served = Snapshot(New)
    /\ exec = <<Genesis>>
    /\ drained = <<>> /\ batch = <<>> /\ awaiting = {}
    /\ clock = 0

Tick == clock < MaxClock /\ clock' = clock + 1
        /\ UNCHANGED <<rows, dag, stage, pc, served, exec, submitVars>>

\* The process crashes, or the run ends with an error and the next one starts anew: the
\* store and the executed chain are left.
Stop ==
    /\ pc' = "closed"
    /\ dag' = New /\ stage' = NoStage /\ served' = Snapshot(New)
    /\ drained' = <<>> /\ batch' = <<>> /\ awaiting' = {}
    /\ UNCHANGED <<rows, exec, clock>>

-----------------------------------------------------------------------------
(* Opening: load_dag_with_limit replays the store, with the local clock.     *)

\* Mutant of Open: the time of an earlier start is used again.
OpenWithOldTime ==
    /\ pc = "closed"
    /\ pc' = "loading"
    /\ stage' = Stage(rows, 0, "store")
    /\ UNCHANGED <<rows, dag, served, exec, submitVars, clock>>

Open ==
    /\ pc = "closed"
    /\ pc' = "loading"
    /\ stage' = Stage(rows, clock, "store")
    /\ UNCHANGED <<rows, dag, served, exec, submitVars, clock>>

NextAccepted ==
    stage.todo # <<>> /\ Accepts(Head(stage.todo), Retained(dag), stage.adjusted)
NextRefused ==
    stage.todo # <<>> /\ ~ Accepts(Head(stage.todo), Retained(dag), stage.adjusted)

LoadNext ==
    /\ pc = "loading"
    /\ NextAccepted
    /\ dag' = Insert(dag, Head(stage.todo))
    /\ stage' = [stage EXCEPT !.todo = Tail(@), !.done = Append(@, Head(stage.todo))]
    /\ UNCHANGED <<rows, pc, served, exec, submitVars, clock>>

LoadRefused == pc = "loading" /\ NextRefused /\ Stop

Loaded ==
    /\ pc = "loading"
    /\ stage.todo = <<>>
    /\ pc' = "sync"
    /\ stage' = NoStage
    /\ UNCHANGED <<rows, dag, served, exec, submitVars, clock>>

-----------------------------------------------------------------------------
(* stage_batch_contextual, append_batch, commit, and the rollback when the   *)
(* guard is dropped.                                                          *)

StageNext ==
    /\ pc = "staging"
    /\ NextAccepted
    /\ dag' = Insert(dag, Head(stage.todo))
    /\ stage' = [stage EXCEPT !.todo = Tail(@), !.done = Append(@, Head(stage.todo)),
                              !.rebuilt = @ \/ Rebuilds(dag, Head(stage.todo))]
    /\ UNCHANGED <<rows, pc, served, exec, submitVars, clock>>

\* A header is refused, or the append fails.
Unstage ==
    /\ pc = "staging"
    /\ stage.todo = <<>> \/ NextRefused
    /\ pc' = "rollback"
    /\ UNCHANGED <<rows, dag, stage, served, exec, submitVars, clock>>

RollbackNext ==
    /\ pc = "rollback"
    /\ stage.done # <<>>
    /\ dag' = RemoveRetained(dag, Last(stage.done))
    /\ stage' = [stage EXCEPT !.done = Front(@)]
    /\ UNCHANGED <<rows, pc, served, exec, submitVars, clock>>

\* A peer's batch ends the run; a submission is answered and the next one is taken.
RolledBack ==
    /\ pc = "rollback"
    /\ stage.done = <<>>
    /\ dag' = BackTo(dag, stage)
    /\ stage' = NoStage
    /\ pc' = IF stage.from = "peer" THEN "failed" ELSE "submitting"
    /\ UNCHANGED <<rows, served, exec, submitVars, clock>>

Failed == pc = "failed" /\ Stop

AppendBatch ==
    /\ pc = "staging"
    /\ stage.todo = <<>>
    /\ SetOf(stage.done) \cap SetOf(rows) = {}
    /\ rows' = rows \o stage.done
    /\ pc' = "appended"
    /\ UNCHANGED <<dag, stage, served, exec, submitVars, clock>>

-----------------------------------------------------------------------------
(* sync_headers: a response is any sequence of headers.                      *)

\* unseen_header_suffix
Unseen(response) ==
    LET new == {i \in DOMAIN response : response[i] \notin Retained(dag)}
    IN  IF new = {} THEN <<>>
        ELSE SubSeq(response, CHOOSE i \in new : \A j \in new : i <= j, Len(response))

Receive(response) ==
    /\ pc = "sync"
    /\ Unseen(response) # <<>>
    /\ \A h \in SetOf(Unseen(response)) : h \notin Retained(dag)
    /\ \E offset \in Offsets : stage' = Stage(Unseen(response), clock + offset, "peer")
    /\ pc' = "staging"
    /\ UNCHANGED <<rows, dag, served, exec, submitVars, clock>>

\* commit; a full response (MAX_HEADERS_PER_RESPONSE) is followed by another request.
CommitPeerBatch ==
    /\ pc = "appended"
    /\ stage.from = "peer"
    /\ pc' \in {"synced", "sync"}
    /\ stage' = NoStage
    /\ UNCHANGED <<rows, dag, served, exec, submitVars, clock>>

NothingNew ==
    /\ pc = "sync"
    /\ pc' = "synced"
    /\ UNCHANGED <<rows, dag, stage, served, exec, submitVars, clock>>

Shared(c, d) == {n \in 0 .. Least(Len(c), Len(d)) : SubSeq(c, 1, n) = SubSeq(d, 1, n)}
CommonPrefix(c, d) ==
    SubSeq(c, 1, CHOOSE n \in Shared(c, d) : \A m \in Shared(c, d) : m <= n)

\* The projection is refreshed, and the resync loop rewinds the executed chain.
Resync ==
    /\ pc = "synced"
    /\ served' = Refresh(dag, served)
    /\ exec' = CommonPrefix(exec, dag.chain)
    /\ batch' = <<>> /\ awaiting' = {}
    /\ pc' = "rest"
    /\ UNCHANGED <<rows, dag, stage, drained, clock>>

-----------------------------------------------------------------------------
(* The loop: submissions, their answers, and the next batch.                 *)

\* What API callers and inbound sessions have pushed to PendingBlockQueue since the last
\* drain: nothing, or distinct blocks.
Pending == {q \in Sequences(Headers, MaxPending) \cup {<<>>} :
                \A i, j \in DOMAIN q : q[i] = q[j] => i = j}

Drain ==
    /\ pc = "rest"
    /\ \/ batch = <<>> /\ drained' \in Pending
       \/ batch # <<>> /\ UNCHANGED drained
    /\ pc' = IF drained' = <<>> THEN "settle" ELSE "submitting"
    /\ UNCHANGED <<rows, dag, stage, served, exec, batch, awaiting, clock>>

StageSubmitted ==
    /\ pc = "submitting"
    /\ drained # <<>>
    /\ \E offset \in Offsets : stage' = Stage(<<Head(drained)>>, clock + offset, "submit")
    /\ pc' = "staging"
    /\ drained' = Tail(drained)
    /\ UNCHANGED <<rows, dag, served, exec, batch, awaiting, clock>>

\* commit: the block is handed over when its header is the active tip.
CommitSubmitted ==
    /\ pc = "appended"
    /\ stage.from = "submit"
    /\ LET h == stage.done[1] IN
        IF dag.tip = h
        THEN /\ batch' = Append(batch, h)
             /\ awaiting' = awaiting \cup {[hash |-> h, height |-> dag.info[h].height]}
        ELSE UNCHANGED <<batch, awaiting>>
    /\ pc' = "submitting"
    /\ stage' = NoStage
    /\ UNCHANGED <<rows, dag, served, exec, drained, clock>>

Submitted ==
    /\ pc = "submitting"
    /\ drained = <<>>
    /\ served' = Refresh(dag, served)
    /\ pc' = "settle"
    /\ UNCHANGED <<rows, dag, stage, exec, submitVars, clock>>

\* settle_submitted_blocks, and the comparison of the tips.
Decided(a) == a.height <= Len(exec) - 1
Confirmed(a) ==
    Decided(a) /\ a.height + 1 \in DOMAIN dag.chain /\ dag.chain[a.height + 1] = a.hash

Settle ==
    /\ pc = "settle"
    /\ awaiting' = {a \in awaiting : ~ Decided(a)}
    /\ pc' = IF Len(exec) >= Len(dag.chain) THEN "sync" ELSE "execute"
    /\ UNCHANGED <<rows, dag, stage, served, exec, drained, batch, clock>>

\* download_execute_batch: what was prefetched has to be the start of the batch.
NextHashes == SubSeq(dag.chain, Len(exec) + 1, Len(dag.chain))
BatchMatches ==
    /\ SubSeq(dag.chain, 1, Len(exec)) = exec
    /\ Len(batch) <= Len(NextHashes)
    /\ \A i \in DOMAIN batch : batch[i] = NextHashes[i]

ExecuteBatch ==
    /\ pc = "execute"
    /\ BatchMatches
    /\ \E n \in (Len(exec) + 1) .. Len(dag.chain) :
        /\ exec' = SubSeq(dag.chain, 1, n)
        /\ batch' \in {SubSeq(dag.chain, n + 1, m) :
                m \in {k \in n .. Len(dag.chain) : k >= Len(exec) + Len(batch)}}
    /\ pc' = "rest"
    /\ UNCHANGED <<rows, dag, stage, served, drained, awaiting, clock>>

BatchRefused == pc = "execute" /\ ~ BatchMatches /\ Stop

-----------------------------------------------------------------------------
(* Retention: stage_leaf_evictions and persist_eviction.                     *)

Evict(hashes) ==
    /\ pc = "rest"
    /\ Len(hashes) <= MaxEvictions
    /\ dag' = WithCounts(dag)
    /\ stage' = Stage(hashes, clock, "evict")
    /\ pc' = "evicting"
    /\ UNCHANGED <<rows, served, exec, submitVars, clock>>

NextEvictable == stage.todo # <<>> /\ MayEvict(dag, Head(stage.todo), {Last(exec)})

EvictNext ==
    /\ pc = "evicting"
    /\ NextEvictable
    /\ LET h == Head(stage.todo) IN
        /\ dag' = RemoveRetained(dag, h)
        /\ stage' = [stage EXCEPT !.todo = Tail(@),
                                  !.done = Append(@, [hash |-> h, info |-> dag.info[h]])]
    /\ UNCHANGED <<rows, pc, served, exec, submitVars, clock>>

PersistEviction ==
    /\ pc = "evicting"
    /\ stage.todo = <<>>
    /\ rows' = SelectSeq(rows, LAMBDA h : h \in Retained(dag))
    /\ stage' = NoStage
    /\ pc' = "rest"
    /\ UNCHANGED <<dag, served, exec, submitVars, clock>>

\* Mutant of Unevict: what was evicted before the failure is not restored.
UnevictNothing ==
    /\ pc = "evicting"
    /\ stage.todo = <<>> \/ ~ NextEvictable
    /\ pc' = "rest"
    /\ stage' = NoStage
    /\ UNCHANGED <<rows, dag, served, exec, submitVars, clock>>

\* A header is protected, or the transaction fails.
Unevict ==
    /\ pc = "evicting"
    /\ stage.todo = <<>> \/ ~ NextEvictable
    /\ pc' = "restoring"
    /\ UNCHANGED <<rows, dag, stage, served, exec, submitVars, clock>>

RestoreNext ==
    /\ pc = "restoring"
    /\ stage.done # <<>>
    /\ dag' = RestoreRetained(dag, Last(stage.done).hash, Last(stage.done).info)
    /\ stage' = [stage EXCEPT !.done = Front(@)]
    /\ UNCHANGED <<rows, pc, served, exec, submitVars, clock>>

Restored ==
    /\ pc = "restoring"
    /\ stage.done = <<>>
    /\ stage' = NoStage
    /\ pc' = "rest"
    /\ UNCHANGED <<rows, dag, served, exec, submitVars, clock>>

-----------------------------------------------------------------------------

Loading == Open \/ LoadNext \/ LoadRefused \/ Loaded
Staging == StageNext \/ Unstage \/ RollbackNext \/ RolledBack \/ Failed
           \/ AppendBatch \/ CommitPeerBatch \/ CommitSubmitted
Serving == NothingNew \/ Resync \/ Drain \/ StageSubmitted \/ Submitted
           \/ Settle \/ ExecuteBatch \/ BatchRefused
Evicting == EvictNext \/ PersistEviction \/ Unevict \/ RestoreNext \/ Restored

Next ==
    \/ Loading \/ Staging \/ Serving \/ Evicting
    \/ \E r \in Sequences(Headers, MaxResponse) : Receive(r)
    \/ \E hs \in Sequences(Headers, MaxEvictions) : Evict(hs)
    \/ Tick \/ Stop

Spec == Init /\ [][Next]_vars

\* The clock goes on and the node goes on opening its store.
FairSpec == Spec /\ WF_vars(Tick) /\ WF_vars(Loading)

-----------------------------------------------------------------------------
(* Properties. *)

\* The headers inserted so far, in their order.
Order ==
    <<Genesis>> \o (IF pc = "loading" THEN stage.done
                    ELSE IF pc = "staging" THEN rows \o stage.done ELSE rows)

\* The active chain is the path to the active tip, and the tip is the first header,
\* in the order of the store, among those with the most work: replaying the store, rolling
\* a batch back and evicting side branches all lead to the tip that arrival alone gave.
ActiveIsBest ==
    pc \notin {"closed", "rollback"} =>
        /\ dag.chain = Path[dag.tip]
        /\ \E t \in DOMAIN Order :
            /\ Order[t] = dag.tip
            /\ \A i \in DOMAIN Order :
                Order[i] \in Retained(dag) =>
                    /\ Work(dag, Order[i]) <= Work(dag, dag.tip)
                    /\ i < t => Work(dag, Order[i]) < Work(dag, dag.tip)

\* A stored header is refused at the next start for its time only, never for a parent or
\* a checkpoint that the order of the store, or an eviction, has lost.
ReplayFailsOnTimeOnly ==
    pc = "loading" /\ NextRefused => Time[Head(stage.todo)] > stage.adjusted + MaxFuture

\* The DAG that sync_headers is handed over has exactly the stored headers ("retained
\* header DAG does not match the persistence count" is never reported).
StoreMatchesDag ==
    pc \in {"sync", "synced", "rest", "submitting", "settle", "execute"} =>
        Retained(dag) = SetOf(rows) \cup {Genesis}

\* Inbound peers are served, and blocks are executed, from headers that are in the store;
\* while the node takes batches, what is served is the active chain.
ServedIsDurable ==
    /\ SetOf(served.chain) \cup SetOf(exec) \subseteq SetOf(rows) \cup {Genesis}
    /\ pc \in {"rest", "settle", "execute"} => served = Snapshot(dag)

\* A header accepted by the network-adjusted time can be too far ahead of the local clock
\* that replays the store.  Unless the process keeps being stopped for another reason, it
\* gets past that: the clock catches up and the store opens.
Reopens == <>[][Stop => LoadRefused]_vars => <>[](pc # "closed")

\* "A submission is confirmed only when [...] the execution tip has reached that height":
\* a submitted block that is answered with success has been executed.
ConfirmedIsExecuted == pc = "settle" => \A a \in awaiting : Confirmed(a) => a.hash \in SetOf(exec)
=============================================================================
