------------------------------ MODULE HeaderDag ------------------------------
(***************************************************************************)
(* HeaderDag (src/src/headers.rs, src/src/headers/retention.rs): the        *)
(* retained headers with their height and work, the active chain, and the   *)
(* count of retained children, as operators on one value.  A header that is *)
(* missing where the code calls expect() is a panic.                        *)
(***************************************************************************)
EXTENDS HeaderTree, FiniteSets

NoCounts == <<>>     \* child_counts is None until the first eviction

\* HeaderDag::new
New == [info |-> [h \in {Genesis} |-> [height |-> 0, work |-> WorkOf[Bits[Genesis]]]],
        chain |-> <<Genesis>>, tip |-> Genesis, counts |-> NoCounts]

Retained(d) == DOMAIN d.info
Work(d, h) == d.info[h].work

\* active_height_of(h).is_some()
IsActive(d, h) == d.info[h].height + 1 \in DOMAIN d.chain /\ d.chain[d.info[h].height + 1] = h

RestoreRetained(d, h, i) ==
    [d EXCEPT !.info = [x \in Retained(d) \cup {h} |-> IF x = h THEN i ELSE d.info[x]],
              !.counts = IF d.counts = NoCounts THEN NoCounts
                         ELSE [d.counts EXCEPT ![Prev(h)] = @ + 1]]

RemoveRetained(d, h) ==
    [d EXCEPT !.info = [x \in Retained(d) \ {h} |-> d.info[x]],
              !.counts = IF d.counts = NoCounts THEN NoCounts
                         ELSE [d.counts EXCEPT ![Prev(h)] = @ - 1]]

\* rebuild_active_chain: walk back from h to the first header that is on the active
\* chain, keep the chain up to it and take the rest from the walk.
OnChain(d, h, i) == i \in DOMAIN d.chain /\ d.chain[i] = Path[h][i]
Rebuild(d, h) ==
    LET p == Path[h]
        fork == CHOOSE i \in 1 .. Len(p) :
            OnChain(d, h, i) /\ \A j \in 1 .. Len(p) : j > i => ~ OnChain(d, h, j)
    IN  [d EXCEPT !.chain = SubSeq(@, 1, fork) \o SubSeq(p, fork + 1, Len(p)), !.tip = h]

\* promote_active_tip
Extends(d, h) == Prev(h) = d.tip /\ d.info[d.tip].height + 1 = Len(d.chain)
Promote(d, h) ==
    IF Extends(d, h) THEN [d EXCEPT !.chain = Append(@, h), !.tip = h] ELSE Rebuild(d, h)

WorkWith(d, h) == Work(d, Prev(h)) + WorkOf[Bits[h]]

\* insert, once the header is accepted
Insert(d, h) ==
    LET e == RestoreRetained(d, h, [height |-> d.info[Prev(h)].height + 1,
                                    work |-> WorkWith(d, h)])
    IN  IF WorkWith(d, h) > Work(d, d.tip) THEN Promote(e, h) ELSE e

\* insertion_rebuilds_active_chain
Rebuilds(d, h) == WorkWith(d, h) > Work(d, d.tip) /\ ~ Extends(d, h)

\* Mutant of BackTo: the chain is cut to its old length also when the batch rebuilt it.
BackToLength(d, stage) == [d EXCEPT !.chain = SubSeq(@, 1, stage.len), !.tip = stage.tip]

\* StagedHeaderBatch::rollback, after the inserted headers have been removed: back to
\* the tip and the chain length of the stage.
BackTo(d, stage) ==
    IF stage.rebuilt THEN Rebuild(d, stage.tip)
    ELSE [d EXCEPT !.chain = SubSeq(@, 1, stage.len), !.tip = stage.tip]

\* The child index is built by the first eviction.
Children(d, p) == {h \in Retained(d) \ {Genesis} : Prev(h) = p}
WithCounts(d) ==
    IF d.counts = NoCounts
    THEN [d EXCEPT !.counts = [p \in Known |-> Cardinality(Children(d, p))]]
    ELSE d

\* Mutant of MayEvict: a header with retained children is not protected.
MayEvictParents(d, h, pinned) == h \in Retained(d) /\ ~ IsActive(d, h) /\ h \notin pinned

\* stage_leaf_evictions refuses what is active, pinned or has children.
MayEvict(d, h, pinned) ==
    /\ h \in Retained(d)
    /\ ~ IsActive(d, h)
    /\ h \notin pinned
    /\ d.counts[h] = 0

\* active_chain_snapshot: what is served to inbound peers.
Snapshot(d) == [info |-> [h \in {d.chain[i] : i \in DOMAIN d.chain} |-> d.info[h]],
                chain |-> d.chain, tip |-> d.tip]

\* Mutant of Refresh: headers are only ever added behind those that are served.
RefreshLonger(d, s) ==
    [info |-> [h \in DOMAIN s.info \cup {d.chain[i] : i \in Len(s.chain) + 1 .. Len(d.chain)} |->
                  d.info[h]],
     chain |-> s.chain \o SubSeq(d.chain, Len(s.chain) + 1, Len(d.chain)),
     tip |-> d.tip]

\* refresh_active_chain_snapshot: only the suffix that differs is replaced.
Refresh(d, s) ==
    LET shorter == IF Len(s.chain) < Len(d.chain) THEN Len(s.chain) ELSE Len(d.chain)
        shared == CHOOSE n \in 0 .. shorter :
            /\ n > 0 => s.chain[n] = d.chain[n]
            /\ \A m \in n + 1 .. shorter : s.chain[m] # d.chain[m]
        dropped == {s.chain[i] : i \in shared + 1 .. Len(s.chain)}
        added == {d.chain[i] : i \in shared + 1 .. Len(d.chain)}
    IN  IF Cardinality(DOMAIN s.info) # Len(s.chain) \/ s.chain[1] # d.chain[1]
        THEN Snapshot(d)
        ELSE [info |-> [h \in (DOMAIN s.info \ dropped) \cup added |->
                            IF h \in added THEN d.info[h] ELSE s.info[h]],
              chain |-> SubSeq(s.chain, 1, shared) \o SubSeq(d.chain, shared + 1, Len(d.chain)),
              tip |-> d.tip]
=============================================================================
