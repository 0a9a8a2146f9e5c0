------------------------------- MODULE Ledger -------------------------------
(***************************************************************************)
(* The pruned block ledger (src/src/ledger.rs): a ring of slot files, each   *)
(* holding a segment of consecutive blocks, an index of the live segments,   *)
(* one staged segment and the two intent files.  Every file-system effect    *)
(* that is synced on its own is a step, and the process can die between any  *)
(* two of them; opening the ledger recovers, and can be cut short as well.   *)
(*                                                                           *)
(* A file is replaced by writing and syncing a temporary and renaming it, so *)
(* it changes in one step; a rename that was not synced when the power fails *)
(* may be undone, which is the state before the step.  Removals that share   *)
(* one sync happen in any order.  A block is a model value; every block      *)
(* weighs the same, so max_bytes is max_blocks.                              *)
(***************************************************************************)
EXTENDS Naturals, Sequences, FiniteSets, SequencesExt

CONSTANTS
    NSlots,       \* LedgerRetention::slots
    Retentions,   \* values max_blocks is configured with, from run to run
    MaxSegment,   \* longest segment that is appended or staged
    MaxHeight,    \* bound: highest block height
    Variants,     \* rival blocks of one height
    MinKept       \* minimum_blocks_preserved of a manual prune

\* What the properties take for granted of the constants: a retention the ledger is
\* opened with holds the longest segment.
LedgerAssumption ==
    /\ NSlots \in Nat \ {0}
    /\ MaxSegment \in Nat \ {0}
    /\ Retentions \subseteq {n \in Nat : n >= MaxSegment}
    /\ MinKept \in Nat \ {0}

VARIABLES
    file,      \* slot |-> segment, for the slot files that exist
    index,     \* ledger-index.json
    staged,    \* the staged segment, if any
    truncate,  \* the height in ledger-truncate, if it exists
    prune,     \* the height in ledger-prune.json, if it exists
    maxBlocks, \* retention the ledger was opened with
    pc,        \* where the operation that holds write_guard is
    job,       \* its argument: a segment, and what follows it
    committed  \* history: blocks the ledger took and was not told to drop

vars == <<file, index, staged, truncate, prune, maxBlocks, pc, job, committed>>
disk == <<file, index, staged, truncate, prune>>

Slots == 0 .. (NSlots - 1)
Heights == 1 .. MaxHeight
BlockRuns == UNION {[1 .. n -> Variants] : n \in 1 .. MaxSegment}
Segments == {s \in [first : Heights, blocks : BlockRuns] :
                s.first + Len(s.blocks) - 1 <= MaxHeight}

NoJob == [first |-> 1, blocks |-> <<>>, partial |-> FALSE]

-----------------------------------------------------------------------------
(* Index entries. *)

Entry(slot, seg) == [slot |-> slot, first |-> seg.first, count |-> Len(seg.blocks)]
End(entry) == entry.first + entry.count
Blocks(entries) == FoldSeq(LAMBDA e, n : n + e.count, 0, entries)
LiveSlots(entries) == {entries[i].slot : i \in DOMAIN entries}
NextSlot(entries) == IF entries = <<>> THEN 0 ELSE (Last(entries).slot + 1) % NSlots

\* The oldest entries go until the retention bound holds.
Trimmed(entries, bound) ==
    LET from == CHOOSE k \in 1 .. (Len(entries) + 1) :
                    /\ Blocks(SubSeq(entries, k, Len(entries))) <= bound
                    /\ \A j \in 1 .. (k - 1) :
                        Blocks(SubSeq(entries, j, Len(entries))) > bound
    IN  SubSeq(entries, from, Len(entries))

\* scan_segments: an entry for each slot file within the bound, taken by height and slot.
Scanned(files, bound) ==
    {Entry(s, files[s]) : s \in {t \in DOMAIN files : Len(files[t].blocks) <= bound}}
ScannedBefore(a, b) == a.first < b.first \/ (a.first = b.first /\ a.slot < b.slot)
FirstScanned(scan) == CHOOSE e \in scan : \A d \in scan \ {e} : ScannedBefore(e, d)

\* The chain from an entry: each next one is the first scanned that starts where
\* the one before ends.  Heights grow, so no slot comes twice.
ChainFrom(entry, scan) ==
    LET chain[e \in scan] ==
            LET next == {d \in scan : d.first = End(e)}
            IN  IF next = {} THEN <<e>> ELSE <<e>> \o chain[FirstScanned(next)]
    IN  chain[entry]

\* best_contiguous_chain: the chain that ends highest, the longest of those, the
\* first of those.
BestChain(scan) ==
    LET chain == [e \in scan |-> ChainFrom(e, scan)]
        end == [e \in scan |-> End(Last(chain[e]))]
        beats(d, e) == \/ end[d] > end[e]
                       \/ /\ end[d] = end[e]
                          /\ Len(chain[d]) > Len(chain[e])
                       \/ /\ end[d] = end[e]
                          /\ Len(chain[d]) = Len(chain[e])
                          /\ ScannedBefore(d, e)
    IN  IF scan = {} THEN <<>>
        ELSE chain[CHOOSE d \in scan : \A e \in scan \ {d} : beats(d, e)]

\* valid_index: consecutive segments in distinct slots, each as it was scanned.
ValidIndex(idx, scan) ==
    /\ \A i \in DOMAIN idx.entries :
        /\ idx.entries[i] \in scan
        /\ i > 1 => idx.entries[i].first = End(idx.entries[i - 1])
    /\ Cardinality(LiveSlots(idx.entries)) = Len(idx.entries)

\* recover_index: the persisted index, extended by segments published after it,
\* or the best chain of the files when it does not match them.
RecoveredIndex(idx, files, bound) ==
    LET scan == Scanned(files, bound)
        entries == IF ValidIndex(idx, scan) /\ idx.entries # <<>>
                   THEN idx.entries \o Tail(ChainFrom(Last(idx.entries), scan))
                   ELSE BestChain(scan)
        kept == Trimmed(entries, bound)
    IN  [next |-> NextSlot(kept), entries |-> kept]

\* The segment apply_truncation leaves of one that starts below h.
Cut(seg, h) == [seg EXCEPT !.blocks = SubSeq(@, 1, h - seg.first)]

\* build_prune_plan: how many whole segments end at or below the target, which
\* keeps MinKept blocks below the tip.
PruneCount(entries, through) ==
    LET tip == End(Last(entries)) - 1
    IN  IF entries = <<>> \/ tip < MinKept THEN 0
        ELSE Cardinality({i \in DOMAIN entries :
                            /\ End(entries[i]) - 1 <= through
                            /\ End(entries[i]) - 1 <= tip - MinKept})

PrunedIndex(idx, through) ==
    [idx EXCEPT !.entries = SubSeq(@, PruneCount(@, through) + 1, Len(@))]

RetainedNext == End(Last(index.entries))
ExtendsTip(seg) == index.entries # <<>> => seg.first = RetainedNext

\* The blocks of a segment with their heights.
Placed(seg) == {<<seg.first + k - 1, seg.blocks[k]>> : k \in DOMAIN seg.blocks}

\* The blocks an index reads from the files, with their heights.
Content(idx, files) ==
    UNION {{<<e.first + k - 1, files[e.slot].blocks[k]>> : k \in 1 .. e.count} :
            e \in {idx.entries[i] : i \in DOMAIN idx.entries}}

-----------------------------------------------------------------------------

Init ==
    /\ file = [s \in {} |-> NoJob]
    /\ index = [next |-> 0, entries |-> <<>>]
    /\ staged = {}
    /\ truncate = {}
    /\ prune = {}
    /\ maxBlocks \in Retentions
    /\ pc = "opening"
    /\ job = NoJob
    /\ committed = {}

-----------------------------------------------------------------------------
(* append_locked and publish_staged_locked. *)

\* A segment takes the next slot of the ring; the index still lists what was there.
PublishTo(seg) ==
    /\ file' = [s \in DOMAIN file \cup {index.next % NSlots} |->
                    IF s = index.next % NSlots
                    THEN [first |-> seg.first, blocks |-> seg.blocks] ELSE file[s]]
    /\ committed' = Content(index, file) \cup Placed(seg)

\* append: a contiguous segment is written and renamed over the next slot.
Append1(seg) ==
    /\ pc = "idle"
    /\ Len(seg.blocks) <= maxBlocks
    /\ ExtendsTip(seg)
    /\ PublishTo(seg)
    /\ job' = [first |-> seg.first, blocks |-> seg.blocks, partial |-> FALSE]
    /\ pc' = "publish"
    /\ UNCHANGED <<index, staged, truncate, prune, maxBlocks>>

\* The index with the job's segment in the slot it took, oldest ones trimmed.
PublishedIndex ==
    LET slot == index.next % NSlots
        others == SelectSeq(index.entries, LAMBDA e : e.slot # slot)
    IN  [next    |-> (slot + 1) % NSlots,
         entries |-> Trimmed(Append(others, Entry(slot, job)), maxBlocks)]

WriteIndex ==
    /\ pc = "publish"
    /\ index' = PublishedIndex
    /\ pc' = "cleanup"
    /\ UNCHANGED <<file, staged, truncate, prune, maxBlocks, job, committed>>

\* Mutant of RemoveSlot: files are removed before the new index is written.
RemoveSlotEarly ==
    /\ pc \in {"publish", "cleanup", "pruned", "settling"}
    /\ \E s \in DOMAIN file \ LiveSlots(index.entries) :
        file' = [t \in DOMAIN file \ {s} |-> file[t]]
    /\ UNCHANGED <<index, staged, truncate, prune, maxBlocks, pc, job, committed>>

\* cleanup_unindexed_slots_locked: one slot file that no index entry names goes.
RemoveSlot ==
    /\ pc \in {"cleanup", "pruned", "settling"}
    /\ \E s \in DOMAIN file \ LiveSlots(index.entries) :
        file' = [t \in DOMAIN file \ {s} |-> file[t]]
    /\ UNCHANGED <<index, staged, truncate, prune, maxBlocks, pc, job, committed>>

AllLive == DOMAIN file \subseteq LiveSlots(index.entries)

\* The last file is gone; a prefix of a staged segment was appended with the rest
\* of the segment still staged.
EndAppend ==
    /\ pc = "cleanup"
    /\ AllLive
    /\ pc' = IF job.partial THEN "unstage" ELSE "idle"
    /\ job' = IF job.partial THEN job ELSE NoJob
    /\ UNCHANGED <<disk, maxBlocks, committed>>

-----------------------------------------------------------------------------
(* Staging. *)

\* Mutant of Stage: a segment that is staged already is replaced.
StageOver ==
    /\ pc = "idle"
    /\ \E seg \in Segments :
        /\ Len(seg.blocks) <= maxBlocks
        /\ index.entries # <<>> => seg.first <= RetainedNext
        /\ staged' = {seg}
    /\ UNCHANGED <<file, index, truncate, prune, maxBlocks, pc, job, committed>>

\* stage: one segment at a time, within the retention.  Its callers stage at or below
\* the height after the tip; whether it extends the tip is checked when it is committed.
Stage ==
    /\ pc = "idle"
    /\ staged = {}
    /\ \E seg \in Segments :
        /\ Len(seg.blocks) <= maxBlocks
        /\ index.entries # <<>> => seg.first <= RetainedNext
        /\ staged' = {seg}
    /\ UNCHANGED <<file, index, truncate, prune, maxBlocks, pc, job, committed>>

\* The retained bytes of the heights of the first n staged blocks are those blocks.
RetainedMatches(seg, n) ==
    \A k \in 1 .. n :
        \E i \in DOMAIN index.entries :
            LET e == index.entries[i]
                h == seg.first + k - 1
            IN  /\ e.first <= h /\ h < End(e)
                /\ file[e.slot].blocks[h - e.first + 1] = seg.blocks[k]

\* commit_staged(n): the whole segment is renamed into the ring ...
CommitWhole ==
    /\ pc = "idle"
    /\ \E seg \in staged :
        /\ ExtendsTip(seg)
        /\ Len(seg.blocks) <= maxBlocks
        /\ PublishTo(seg)
        /\ job' = [first |-> seg.first, blocks |-> seg.blocks, partial |-> FALSE]
    /\ staged' = {}
    /\ pc' = "publish"
    /\ UNCHANGED <<index, truncate, prune, maxBlocks>>

\* ... a shorter prefix is appended as a segment of its own ...
CommitPrefix ==
    /\ pc = "idle"
    /\ \E seg \in staged : \E n \in 1 .. (Len(seg.blocks) - 1) :
        LET part == [first |-> seg.first, blocks |-> SubSeq(seg.blocks, 1, n)]
        IN  /\ ExtendsTip(seg)
            /\ PublishTo(part)
            /\ job' = [first |-> part.first, blocks |-> part.blocks, partial |-> TRUE]
    /\ pc' = "publish"
    /\ UNCHANGED <<index, staged, truncate, prune, maxBlocks>>

\* ... and a prefix that is already the retained tip is only taken off the stage.
CommitAgain ==
    /\ pc = "idle"
    /\ index.entries # <<>>
    /\ \E seg \in staged : \E n \in 1 .. Len(seg.blocks) :
        /\ RetainedNext # seg.first
        /\ seg.first + n = RetainedNext
        /\ RetainedMatches(seg, n)
    /\ pc' = "unstage"
    /\ UNCHANGED <<disk, maxBlocks, job, committed>>

\* The end of commit_staged, or discard_staged.
Unstage ==
    /\ pc \in {"unstage", "idle"}
    /\ staged # {}
    /\ staged' = {}
    /\ pc' = "idle"
    /\ job' = NoJob
    /\ UNCHANGED <<file, index, truncate, prune, maxBlocks, committed>>

-----------------------------------------------------------------------------
(* truncate_from. *)

WriteTruncateIntent ==
    /\ pc = "idle"
    /\ \E h \in Heights :
        /\ truncate' = {h}
        /\ committed' = {p \in Content(index, file) : p[1] < h}
    /\ pc' = "truncating"
    /\ UNCHANGED <<file, index, staged, prune, maxBlocks, job>>

\* Slot files that hold a block at or above the height.
Above(h) == {s \in DOMAIN file : file[s].first + Len(file[s].blocks) > h}

\* apply_truncation on one slot file: removed, or rewritten without the blocks at
\* or above the height.
TruncateSlot ==
    /\ pc \in {"truncating", "retruncating"}
    /\ \E h \in truncate : \E s \in Above(h) :
        file' = IF file[s].first >= h
                THEN [t \in DOMAIN file \ {s} |-> file[t]]
                ELSE [file EXCEPT ![s] = Cut(@, h)]
    /\ UNCHANGED <<index, staged, truncate, prune, maxBlocks, pc, job, committed>>

\* apply_truncation ends with recover_index.
TruncateIndex ==
    /\ pc \in {"truncating", "retruncating"}
    /\ \A h \in truncate : Above(h) = {}
    /\ index' = RecoveredIndex(index, file, maxBlocks)
    /\ pc' = IF pc = "truncating" THEN "truncated" ELSE "retruncated"
    /\ UNCHANGED <<file, staged, truncate, prune, maxBlocks, job, committed>>

ClearTruncateIntent ==
    /\ pc \in {"truncated", "retruncated"}
    /\ truncate' = {}
    /\ pc' = IF pc = "truncated" THEN "idle" ELSE "reprune"
    /\ UNCHANGED <<file, index, staged, prune, maxBlocks, job, committed>>

-----------------------------------------------------------------------------
(* apply_prune_plan. *)

\* The plan's token commits to the index, so a plan is applied to the index it was
\* made from: planning and applying are one step here.
WritePruneIntent ==
    /\ pc = "idle"
    /\ \E h \in Heights :
        /\ PruneCount(index.entries, h) > 0
        /\ prune' = {h}
        /\ committed' = Content(PrunedIndex(index, h), file)
    /\ pc' = "prune"
    /\ UNCHANGED <<file, index, staged, truncate, maxBlocks, job>>

\* apply_pruning writes the shorter index; its files are removed by RemoveSlot.
PruneIndex ==
    /\ pc \in {"prune", "reprune"}
    /\ \E h \in prune :
        /\ index' = PrunedIndex(index, h)
        /\ pc' = IF index' = index THEN "unpruned" ELSE "pruned"
    /\ UNCHANGED <<file, staged, truncate, prune, maxBlocks, job, committed>>

ClearPruneIntent ==
    /\ pc = "unpruned" \/ (pc = "pruned" /\ AllLive)
    /\ prune' = {}
    /\ pc' = "settling"
    /\ UNCHANGED <<file, index, staged, truncate, maxBlocks, job, committed>>

-----------------------------------------------------------------------------
(* Opening. *)

OpenRecoverIndex ==
    /\ pc = "opening"
    /\ index' = RecoveredIndex(index, file, maxBlocks)
    /\ pc' = IF truncate # {} THEN "retruncating" ELSE "reprune"
    /\ UNCHANGED <<file, staged, truncate, prune, maxBlocks, job, committed>>

\* recover_pruning finds no intent.
OpenWithoutPrune ==
    /\ pc = "reprune"
    /\ prune = {}
    /\ pc' = "settling"
    /\ UNCHANGED <<disk, maxBlocks, job, committed>>

\* Every slot file that is not indexed has been removed: the ledger is usable.
Opened ==
    /\ pc = "settling"
    /\ AllLive
    /\ pc' = "idle"
    /\ UNCHANGED <<disk, maxBlocks, job, committed>>

\* The process stops at any point and opens the ledger again, perhaps with another
\* retention.
Crash ==
    /\ pc' = "opening"
    /\ job' = NoJob
    /\ maxBlocks' \in Retentions
    /\ UNCHANGED <<disk, committed>>

\* The rest of an operation, or of an opening, that has begun.
Progress ==
    \/ WriteIndex \/ RemoveSlot \/ EndAppend \/ (pc = "unstage" /\ Unstage)
    \/ TruncateSlot \/ TruncateIndex \/ ClearTruncateIntent
    \/ PruneIndex \/ ClearPruneIntent
    \/ OpenRecoverIndex \/ OpenWithoutPrune \/ Opened

\* Operations that callers begin.
Request ==
    \/ \E seg \in Segments : Append1(seg)
    \/ Stage \/ CommitWhole \/ CommitPrefix \/ CommitAgain
    \/ (pc = "idle" /\ Unstage)
    \/ WriteTruncateIntent \/ WritePruneIntent

Next == Progress \/ Request \/ Crash

Spec == Init /\ [][Next]_vars

-----------------------------------------------------------------------------
(* Properties. *)

\* What the ledger holds: what opening it would recover from the files as they
\* are now, both intents carried out.
Retained ==
    LET first == RecoveredIndex(index, file, maxBlocks)
        cut(h) == [s \in {t \in DOMAIN file : file[t].first < h} |->
                    IF s \in Above(h) THEN Cut(file[s], h) ELSE file[s]]
        files == IF truncate = {} THEN file
                 ELSE cut(CHOOSE h \in truncate : TRUE)
        second == IF truncate = {} THEN first
                  ELSE RecoveredIndex(first, files, maxBlocks)
        third == IF prune = {} THEN second
                 ELSE PrunedIndex(second, CHOOSE h \in prune : TRUE)
    IN  Content(third, files)

\* Whatever crash, retry or recovery came before, a restart recovers committed blocks
\* only, none that was truncated or pruned among them; what it misses is older than
\* everything it recovers, and a prune leaves the newest ones.  Between operations
\* reads answer the same as a restart would, from segments that are consecutive, match
\* their slot files and stay within the retention, and no other slot file is left.
RecoveredIsRight ==
    \A r \in {Retained} :
        /\ r \subseteq committed
        /\ committed # {} => r # {}
        /\ \A p \in committed \ r : \A q \in r : p[1] < q[1]
        /\ prune # {} => Cardinality(r) >= MinKept
        /\ pc = "idle" =>
              /\ ValidIndex(index, Scanned(file, maxBlocks))
              /\ Blocks(index.entries) <= maxBlocks
              /\ AllLive
              /\ Content(index, file) = r

\* What callers see of the ledger is an atomic store: through every crash and
\* recovery each operation takes effect at once or not at all.  The blocks of the
\* store that are still retained are its newest ones (RecoveredIsRight).
B == INSTANCE BlockStore WITH run <- committed, MinRetained <- 1
RefinesBlockStore == B!Spec
=============================================================================
