----------------------------- MODULE BlockStore -----------------------------
(***************************************************************************)
(* What the pruned block ledger promises its callers (the public interface   *)
(* of src/src/ledger.rs): a run of retained blocks and at most one staged    *)
(* segment, each changed by one atomic step whatever crashes come between.   *)
(* Ledger implements it with slot files, an index and intent files; the      *)
(* drivers that fill the ledger are built on it.                             *)
(***************************************************************************)
EXTENDS Naturals, Sequences

CONSTANTS
    Segments,     \* the segments callers append or stage: [first, blocks]
    MinRetained   \* newest blocks that are never dropped to make room

VARIABLES
    run,     \* retained blocks: a set of <<height, block>>
    staged   \* the staged segment, as a set of at most one

HeightsOf(r) == {p[1] : p \in r}
Tip(r) == CHOOSE h \in HeightsOf(r) : \A k \in HeightsOf(r) : k <= h
First(r) == CHOOSE h \in HeightsOf(r) : \A k \in HeightsOf(r) : h <= k

\* The blocks of a segment with their heights.
Placed(seg) == {<<seg.first + k - 1, seg.blocks[k]>> : k \in DOMAIN seg.blocks}

\* Whether a segment goes right after the retained blocks.
Extends(r, seg) == r # {} => seg.first = Tip(r) + 1

Below(r, h) == {p \in r : p[1] < h}
From(r, h) == {p \in r : p[1] >= h}

\* What can be left of r after its oldest blocks are dropped; the ones from height
\* `keep` on stay.
Trims(r, keep) ==
    {r} \cup {From(r, h) : h \in {k \in HeightsOf(r) :
                                    k <= keep /\ k + MinRetained <= Tip(r) + 1}}

\* append, and commit_staged: the blocks after the segment is added and the oldest
\* ones have made room.
Added(r, seg) ==
    IF Extends(r, seg) THEN Trims(r \cup Placed(seg), seg.first) ELSE {}

\* The oldest blocks can also go before a prune or a truncation, never all of them.
Pruned(r) == IF r = {} THEN {{}} ELSE Trims(r, Tip(r))

Init == run = {} /\ staged = {}

Append1 ==
    /\ UNCHANGED staged
    /\ \E seg \in Segments : run' \in Added(run, seg)

Stage ==
    /\ staged = {}
    /\ \E seg \in Segments : staged' = {seg}
    /\ UNCHANGED run

\* commit_staged of the whole segment.
Publish ==
    /\ \E seg \in staged : run' \in Added(run, seg)
    /\ staged' = {}

\* discard_staged, or the end of a commit_staged that appended a prefix.
Unstage ==
    /\ staged' = {}
    /\ UNCHANGED run

Truncate ==
    /\ UNCHANGED staged
    /\ \E r \in Pruned(run) : \E h \in HeightsOf(r) : run' = Below(r, h)

\* apply_prune_plan.
Prune ==
    /\ run' \in Pruned(run)
    /\ UNCHANGED staged

Next == Prune \/ Unstage \/ Stage \/ Publish \/ Truncate \/ Append1

Spec == Init /\ [][Next]_<<run, staged>>
=============================================================================
