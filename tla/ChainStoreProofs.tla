-------------------------- MODULE ChainStoreProofs --------------------------
(***************************************************************************)
(* What holds of the redb chainstate for every block tree and batch length: *)
(* its journal always fits the coin tables below it, so that folding it,    *)
(* wherever that happens, changes nothing that can be read.                 *)
(***************************************************************************)
EXTENDS ChainStore, BlockTreeProofs, WellFoundedInduction

Stored == SUBSET (Coins \X Int)

Rows == [height : Int, count : 0 .. MaxCount, spent : SUBSET Coins, made : Stored]

\* Row i is the first to hold coin c.
IsFirst(i, c) ==
    /\ c \in Touched(rows[i])
    /\ \A j \in DOMAIN rows : j < i => c \notin Touched(rows[j])

StoreType ==
    /\ base \in Stored
    /\ rows \in Seq(Rows)
    /\ tip \in [block : Tips, height : Int]

\* The first row that holds a coin spends it exactly when the tables have it.
JournalFits ==
    \A i \in DOMAIN rows : \A c \in Coins :
        IsFirst(i, c) => (c \in rows[i].spent <=> c \in Keys(base))

\* An undo row has every coin its block spent.
UndoIsComplete ==
    \A r \in undo : r.spent \in Stored /\ Keys(r.spent) = Spends[r.block]

\* Rows are held only by a store opened with its journal, and not while a disconnection
\* is between its transactions.
RowsAreOpened == rows # <<>> => mode.journal /\ ~ rewinding

\* The inductive invariant.
IInv == StoreType /\ JournalFits /\ UndoIsComplete /\ RowsAreOpened /\ OpenAccepts

-----------------------------------------------------------------------------
(* The journal over the tables. *)

\* Rows are numbered from one and hold coins.
LEMMA RowsAre ==
    ASSUME StoreType
    PROVE  /\ Len(rows) \in Nat /\ DOMAIN rows = 1 .. Len(rows)
           /\ \A i \in DOMAIN rows :
                /\ rows[i] \in Rows /\ rows[i].spent \subseteq Coins
                /\ rows[i].made \in Stored /\ Touched(rows[i]) \subseteq Coins
<1>1. Len(rows) \in Nat /\ DOMAIN rows = 1 .. Len(rows)
  BY LenProperties DEF StoreType
<1>2. \A i \in DOMAIN rows : rows[i] \in Rows
  BY <1>1, ElementOfSeq DEF StoreType
<1>3. \A i \in DOMAIN rows : rows[i].spent \subseteq Coins /\ rows[i].made \in Stored
  BY <1>2 DEF Rows
<1>4. \A i \in DOMAIN rows : Touched(rows[i]) \subseteq Coins
  BY <1>3 DEF Touched, Keys, Stored
<1> QED
  BY <1>1, <1>2, <1>3, <1>4

\* A coin that some row holds is held by a first row.
LEMMA FirstExists ==
    ASSUME StoreType, NEW c, NEW k \in DOMAIN rows, c \in Touched(rows[k])
    PROVE  \E i \in DOMAIN rows : IsFirst(i, c)
<1> DEFINE H == {i \in DOMAIN rows : c \in Touched(rows[i])}
<1>1. H \subseteq Nat /\ H # {}
  BY RowsAre
<1> HIDE DEF H
<1>2. PICK i \in H : \A j \in H : i <= j
  <2> DEFINE Less == OpToRel(<, Nat)
  <2>1. IsWellFoundedOn(Less, Nat)
    BY NatLessThanWellFounded
  <2>2. \A m, n \in Nat : m < n => <<m, n>> \in Less
    BY DEF OpToRel
  <2> HIDE DEF Less
  <2>3. PICK i \in H : \A j \in H : ~ (<<j, i>> \in Less)
    BY <1>1, <2>1, WFMin
  <2>4. \A j \in H : i <= j
    <3> TAKE j \in H
    <3>1. i \in Nat /\ j \in Nat /\ ~ (j < i)
      BY <1>1, <2>2, <2>3
    <3> QED
      BY <3>1
  <2> QED
    BY <2>3, <2>4
<1>3. \A j \in DOMAIN rows : j < i => c \notin Touched(rows[j])
  BY <1>1, <1>2, RowsAre DEF H
<1> QED
  BY <1>2, <1>3 DEF IsFirst, H

\* The coins the fold removes from the tables are those of the tables that rows hold.
LEMMA NetSpentIs ==
    ASSUME StoreType, JournalFits
    PROVE  Net.spent = {c \in Keys(base) : \E i \in DOMAIN rows : c \in Touched(rows[i])}
<1>0. Keys(base) \subseteq Coins
  BY DEF StoreType, Stored, Keys
<1>1. ASSUME NEW c \in Net.spent
      PROVE  c \in Keys(base) /\ \E i \in DOMAIN rows : c \in Touched(rows[i])
  <2>1. PICK i \in DOMAIN rows : /\ c \in Coins /\ c \in rows[i].spent
                                 /\ \A j \in DOMAIN rows : j < i => c \notin Touched(rows[j])
    BY <1>1 DEF Net
  <2>2. IsFirst(i, c)
    BY <2>1 DEF IsFirst, Touched
  <2> QED
    BY <2>1, <2>2 DEF JournalFits, IsFirst
<1>2. ASSUME NEW c \in Keys(base), NEW k \in DOMAIN rows, c \in Touched(rows[k])
      PROVE  c \in Net.spent
  <2>1. PICK i \in DOMAIN rows : IsFirst(i, c)
    BY <1>2, FirstExists
  <2>2. c \in rows[i].spent /\ c \in Coins
    BY <1>0, <1>2, <2>1 DEF JournalFits
  <2> QED
    BY <2>1, <2>2 DEF Net, IsFirst
<1> QED
  BY <1>1, <1>2

\* What the fold adds to the tables are coins that rows hold.
LEMMA NetMadeIs ==
    ASSUME StoreType
    PROVE  /\ Net.made \in Stored
           /\ \A p \in Net.made : \E i \in DOMAIN rows : p[1] \in Touched(rows[i])
<1>1. ASSUME NEW p \in Net.made
      PROVE  \E i \in DOMAIN rows : p \in rows[i].made
  BY DEF Net
<1>2. \A i \in DOMAIN rows : \A p \in rows[i].made : p[1] \in Touched(rows[i])
  BY DEF Touched, Keys
<1>3. \A i \in DOMAIN rows : rows[i].made \in Stored
  BY RowsAre
<1> QED
  BY <1>1, <1>2, <1>3 DEF Stored

\* What is read are stored coins.
LEMMA ViewType == StoreType => View \in Stored
  BY NetMadeIs DEF View, StoreType, Stored

\* The journal can be folded, and the tables then hold what was read.
LEMMA JournalFolds ==
    ASSUME StoreType, JournalFits
    PROVE  /\ ApplyAccepts(Net.spent, Net.made)
           /\ Applied(Net.spent, Net.made) = View
<1> DEFINE Held(c) == \E i \in DOMAIN rows : c \in Touched(rows[i])
<1>1. Net.spent = {c \in Keys(base) : Held(c)}
  BY NetSpentIs
<1>2. \A p \in Net.made : Held(p[1])
  BY NetMadeIs
<1>3. View = Net.made \cup {p \in base : ~ Held(p[1])}
  BY DEF View
<1> HIDE DEF Held
<1>4. \A p \in base : p[1] \in Keys(base)
  BY DEF Keys
<1>5. Keys(Net.made) \cap Keys(base) \subseteq Net.spent
  BY <1>1, <1>2 DEF Keys
<1> QED
  BY <1>1, <1>3, <1>4, <1>5 DEF ApplyAccepts, Applied

\* An empty journal hides nothing.
LEMMA ViewOfTables == rows = <<>> => View = base
  BY DEF View, Net

LEMMA ViewOfTablesNext == rows' = <<>> => View' = base'
  BY DEF View, Net

\* A new row answers for the coins it holds.
LEMMA ViewOfAppended ==
    ASSUME StoreType, NEW row \in Rows, rows' = Append(rows, row), base' = base
    PROVE  View' = {p \in View : p[1] \notin Touched(row)} \cup row.made
<1> DEFINE n == Len(rows)
<1>1. n \in Nat /\ DOMAIN rows = 1 .. n
  BY RowsAre
<1>2. /\ DOMAIN rows' = 1 .. n + 1 /\ rows'[n + 1] = row
      /\ \A i \in 1 .. n : rows'[i] = rows[i]
  BY AppendProperties, LenProperties DEF StoreType
<1> HIDE DEF n
<1>3. Net'.made = {p \in Net.made : p[1] \notin Touched(row)} \cup row.made
  <2>1. ASSUME NEW p \in Net'.made
        PROVE  p \in row.made \/ (p \in Net.made /\ p[1] \notin Touched(row))
    <3>1. PICK i \in 1 .. n + 1 : /\ p \in rows'[i].made
                                  /\ \A j \in 1 .. n + 1 : j > i => p[1] \notin Touched(rows'[j])
      BY <1>2 DEF Net, Touched
    <3>2. CASE i = n + 1
      BY <1>2, <3>1, <3>2
    <3>3. CASE i \in 1 .. n
      <4>1. p \in rows[i].made /\ p[1] \notin Touched(row)
        BY <1>1, <1>2, <3>1, <3>3
      <4>2. \A j \in 1 .. n : j > i => p[1] \notin Touched(rows[j])
        BY <1>1, <1>2, <3>1, <3>3
      <4> QED
        BY <1>1, <3>3, <4>1, <4>2 DEF Net
    <3> QED
      BY <1>1, <3>1, <3>2, <3>3
  <2>2. ASSUME NEW p \in row.made PROVE p \in Net'.made
    BY <1>1, <1>2, n + 1 \in 1 .. n + 1 DEF Net, Touched
  <2>3. ASSUME NEW p \in Net.made, p[1] \notin Touched(row) PROVE p \in Net'.made
    <3>1. PICK i \in 1 .. n : /\ p \in rows[i].made
                              /\ \A j \in 1 .. n : j > i => p[1] \notin Touched(rows[j])
      BY <1>1 DEF Net
    <3>2. i \in 1 .. n + 1 /\ p \in rows'[i].made
      BY <1>1, <1>2, <3>1
    <3>3. \A j \in 1 .. n + 1 : j > i => p[1] \notin Touched(rows'[j])
      BY <1>1, <1>2, <2>3, <3>1
    <3>4. \A j \in DOMAIN rows' : j > i => p[1] \notin Touched(rows'[j])
      BY <1>2, <3>3
    <3>5. Net'.made = UNION {{q \in rows'[k].made :
                                \A j \in DOMAIN rows' : j > k => q[1] \notin Touched(rows'[j])}
                                : k \in DOMAIN rows'}
      BY DEF Net, Touched
    <3>6. i \in DOMAIN rows'
      BY <1>2, <3>2
    <3> QED
      BY <3>2, <3>4, <3>5, <3>6
  <2> QED
    BY <2>1, <2>2, <2>3
<1>4. \A c : (\A i \in DOMAIN rows' : c \notin Touched(rows'[i]))
                <=> c \notin Touched(row) /\ \A i \in DOMAIN rows : c \notin Touched(rows[i])
  <2> TAKE c
  <2>1. n + 1 \in DOMAIN rows' /\ \A i \in DOMAIN rows : i \in DOMAIN rows'
    BY <1>1, <1>2
  <2>2. \A i \in DOMAIN rows' : i = n + 1 \/ i \in DOMAIN rows
    BY <1>1, <1>2
  <2> QED
    BY <1>1, <1>2, <2>1, <2>2
<1>5. View' = Net'.made \cup {p \in base : \A i \in DOMAIN rows' : p[1] \notin Touched(rows'[i])}
  BY DEF View, Touched
<1> QED
  BY <1>3, <1>4, <1>5 DEF View

-----------------------------------------------------------------------------
(* Batches. *)

\* What a batch writes: coins the store has go, coins it has not come, and the rest is
\* what executing the blocks one by one leaves.
LEMMA FoldedIs ==
    ASSUME StoreType, NEW s \in Batches, Executable(s)
    PROVE  /\ FoldedSpent(s) \subseteq Keys(View) /\ FoldedSpent(s) \subseteq Coins
           /\ FoldedMade(s) \in Stored
           /\ Keys(FoldedMade(s)) \cap Keys(View) = {}
           /\ (Keys(View) \ FoldedSpent(s)) \cup Keys(FoldedMade(s)) = CoinsAfter(Keys(View), s)
<1> DEFINE K == Keys(View)
           E == ExternalInputs(s)
           S == SpentBy(s)
           C == CreatedBy(s)
           M == MadeBefore(s, Len(s) + 1)
<1>1. Len(s) \in Nat /\ DOMAIN s = 1 .. Len(s) /\ \A i \in DOMAIN s : s[i] \in Blocks
  BY BatchIsSeq, LenProperties, ElementOfSeq
<1>2. E \subseteq K /\ C \cap K = {}
  BY DEF Executable, Valid
<1>3. S \subseteq Coins /\ C \subseteq Coins /\ E \subseteq Coins
  BY BatchCoins
<1>4. M \in Stored /\ Keys(M) = C
  <2>1. M = UNION {Creates[s[j]] \X {tip.height + j} : j \in 1 .. Len(s)}
    BY <1>1 DEF MadeBefore, Made
  <2>2. \A j \in 1 .. Len(s) : tip.height + j \in Int /\ Creates[s[j]] \subseteq Coins
    BY <1>1, TreeAssumption DEF StoreType
  <2>3. M \in Stored
    BY <2>1, <2>2 DEF Stored
  <2>4. \A p \in M : p[1] \in C
    BY <1>1, <2>1 DEF CreatedBy
  <2>5. \A c \in C : \E p \in M : p[1] = c
    <3> TAKE c \in C
    <3>1. PICK j \in 1 .. Len(s) : c \in Creates[s[j]]
      BY <1>1 DEF CreatedBy
    <3>2. <<c, tip.height + j>> \in M
      BY <2>1, <3>1
    <3> QED
      BY <3>2
  <2> QED
    BY <2>3, <2>4, <2>5 DEF Keys
<1>5. S \ E \subseteq C
  <2> SUFFICES ASSUME NEW c \in S, c \notin E PROVE c \in C
    OBVIOUS
  <2>1. PICK i \in DOMAIN s : c \in Spends[s[i]]
    BY DEF SpentBy
  <2>2. c \in CreatedBefore(s, i)
    BY <1>3, <2>1 DEF ExternalInputs
  <2>3. PICK j \in 1 .. (i - 1) : c \in Creates[s[j]]
    BY <2>2 DEF CreatedBefore
  <2> QED
    BY <1>1, <2>3 DEF CreatedBy
<1>6. E \subseteq S
  BY DEF ExternalInputs, SpentBy
<1>7. FoldedMade(s) = {p \in M : p[1] \notin S \ E}
  BY DEF FoldedMade
<1>8. Keys(FoldedMade(s)) = C \ (S \ E)
  <2> HIDE DEF M, C, S, E
  <2>1. Keys({p \in M : p[1] \notin S \ E}) = Keys(M) \ (S \ E)
    BY DEF Keys
  <2> QED
    BY <1>4, <1>7, <2>1
<1>9. FoldedMade(s) \in Stored
  BY <1>4, <1>7 DEF Stored
<1> HIDE DEF K, E, S, C, M
<1>10. (K \ E) \cup (C \ (S \ E)) = (K \cup C) \ S
  BY <1>2, <1>5, <1>6
<1> QED
  BY <1>2, <1>3, <1>8, <1>9, <1>10 DEF FoldedSpent, CoinsAfter, K, E, S, C

\* A batch extends the tip to a tip.
LEMMA BatchTip ==
    ASSUME StoreType, NEW s \in Batches
    PROVE  [block |-> LastOr(s, tip.block), height |-> tip.height + Len(s)]
             \in [block : Tips, height : Int]
<1>1. tip.block \in Tips /\ tip.height \in Int
  BY DEF StoreType
<1>2. LastOr(s, tip.block) \in Tips
  BY <1>1, BatchIsSeq, LastOrType
<1>3. Len(s) \in Nat
  BY BatchIsSeq, LenProperties
<1> QED
  BY <1>1, <1>2, <1>3

\* The undo rows a store that keeps undo writes for a valid batch are complete.
LEMMA RecordedUndoIsComplete ==
    ASSUME StoreType, UndoIsComplete, NEW s \in Batches, Executable(s), Record(s)
    PROVE  UndoIsComplete'
<1>1. Len(s) \in Nat /\ DOMAIN s = 1 .. Len(s) /\ \A i \in DOMAIN s : s[i] \in Blocks
  BY BatchIsSeq, LenProperties, ElementOfSeq
<1>2. ExternalInputs(s) \subseteq Keys(View)
  BY DEF Executable, Valid
<1>3. ASSUME NEW i \in DOMAIN s, mode.retain
      PROVE  UndoRow(s, i).spent \in Stored /\ Keys(UndoRow(s, i).spent) = Spends[UndoRow(s, i).block]
  <2> DEFINE R == {p \in View \cup MadeBefore(s, i) : p[1] \in Spends[s[i]]}
  <2>1. UndoRow(s, i).spent = R /\ UndoRow(s, i).block = s[i]
    BY <1>3 DEF UndoRow
  <2>2. MadeBefore(s, i) \in Stored
    <3>1. MadeBefore(s, i) = UNION {Creates[s[j]] \X {tip.height + j} : j \in 1 .. i - 1}
      BY DEF MadeBefore, Made
    <3>2. \A j \in 1 .. i - 1 : tip.height + j \in Int /\ Creates[s[j]] \subseteq Coins
      BY <1>1, TreeAssumption DEF StoreType
    <3> QED
      BY <3>1, <3>2 DEF Stored
  <2>3. R \in Stored
    BY <2>2, ViewType DEF Stored
  <2>4. ASSUME NEW c \in Spends[s[i]] PROVE \E p \in View \cup MadeBefore(s, i) : p[1] = c
    <3>1. CASE c \in CreatedBefore(s, i)
      <4>1. PICK j \in 1 .. i - 1 : c \in Creates[s[j]]
        BY <3>1 DEF CreatedBefore
      <4>2. <<c, tip.height + j>> \in MadeBefore(s, i)
        BY <4>1 DEF MadeBefore, Made
      <4> QED
        BY <4>2
    <3>2. CASE c \notin CreatedBefore(s, i)
      <4>1. c \in ExternalInputs(s)
        BY <1>1, <3>2, TreeAssumption DEF ExternalInputs
      <4> QED
        BY <1>2, <4>1 DEF Keys
    <3> QED
      BY <3>1, <3>2
  <2> QED
    BY <2>1, <2>3, <2>4 DEF Keys
<1>4. ASSUME NEW r \in undo' PROVE r \in undo \/ (mode.retain /\ \E i \in DOMAIN s : r = UndoRow(s, i))
  BY DEF Record
<1> QED
  BY <1>3, <1>4 DEF UndoIsComplete

-----------------------------------------------------------------------------
(* The invariant. *)

\* The store starts with an empty journal.
LEMMA InitHolds == Init => IInv
<1> SUFFICES ASSUME Init PROVE IInv
  OBVIOUS
<1>1. StoreType
  BY TreeAssumption DEF Init, StoreType, Stored, Tips
<1>2. JournalFits /\ UndoIsComplete /\ RowsAreOpened /\ OpenAccepts
  BY DEF Init, JournalFits, UndoIsComplete, RowsAreOpened, OpenAccepts
<1> QED
  BY <1>1, <1>2 DEF IInv

\* A batch written to the tables.
LEMMA ConnectKeeps ==
    ASSUME IInv, NEW s \in Batches, Connect(s)
    PROVE  IInv'
<1> USE DEF IInv
<1>1. rows = <<>> /\ rows' = <<>>
  BY DEF Connect, RowsAreOpened
<1>2. base' \in Stored
  BY FoldedIs DEF Connect, Applied, StoreType, Stored
<1>3. StoreType'
  BY <1>1, <1>2, BatchTip DEF StoreType, Connect, Record
<1>4. UndoIsComplete'
  BY RecordedUndoIsComplete DEF Connect
<1> QED
  BY <1>1, <1>3, <1>4 DEF JournalFits, RowsAreOpened, OpenAccepts

\* A batch written to the journal: a coin no older row holds is one the batch spends
\* exactly when the tables have it.
LEMMA ConnectJournalKeeps ==
    ASSUME IInv, NEW s \in Batches, ConnectJournal(s)
    PROVE  IInv'
<1> USE DEF IInv
<1> DEFINE row == Checkpoint(s)
           n == Len(rows)
<1>1. Executable(s) /\ rows' = Append(rows, row) /\ base' = base /\ Record(s)
  BY DEF ConnectJournal
<1>2. row \in Rows
  <2>1. tip.height + Len(s) \in Int
    BY BatchTip
  <2>2. NextCount(s) \in 0 .. MaxCount
    BY DEF ConnectJournal
  <2> QED
    BY <1>1, <2>1, <2>2, FoldedIs DEF Rows, Checkpoint
<1>3. row.height = tip.height + Len(s) /\ row.spent = FoldedSpent(s) /\ row.made = FoldedMade(s)
  BY DEF Checkpoint
<1> HIDE DEF row
<1>4. n \in Nat /\ DOMAIN rows = 1 .. n
  BY RowsAre
<1>5. /\ rows' \in Seq(Rows) /\ Len(rows') = n + 1 /\ DOMAIN rows' = 1 .. n + 1
      /\ rows'[n + 1] = row /\ \A i \in 1 .. n : rows'[i] = rows[i]
  BY <1>1, <1>2, AppendProperties, LenProperties DEF StoreType
<1> HIDE DEF n
<1>6. StoreType'
  BY <1>1, <1>5, BatchTip DEF StoreType, Record
<1>7. JournalFits'
  <2> SUFFICES ASSUME NEW i \in DOMAIN rows', NEW c \in Coins, IsFirst(i, c)'
               PROVE  c \in rows'[i].spent <=> c \in Keys(base)
    BY <1>1 DEF JournalFits
  <2>1. c \in Touched(rows'[i]) /\ \A j \in 1 .. n + 1 : j < i => c \notin Touched(rows'[j])
    BY <1>5 DEF IsFirst
  <2>2. CASE i \in 1 .. n
    <3>1. IsFirst(i, c)
      BY <1>4, <1>5, <2>1, <2>2 DEF IsFirst
    <3> QED
      BY <1>4, <1>5, <2>2, <3>1 DEF JournalFits
  <2>3. CASE i = n + 1
    <3>1. c \in Touched(row) /\ \A j \in DOMAIN rows : c \notin Touched(rows[j])
      BY <1>4, <1>5, <2>1, <2>3
    <3>2. c \in Keys(View) <=> c \in Keys(base)
      BY <3>1, NetMadeIs DEF View, Keys
    <3>3. FoldedSpent(s) \subseteq Keys(View) /\ Keys(FoldedMade(s)) \cap Keys(View) = {}
      BY <1>1, FoldedIs
    <3> QED
      BY <1>3, <1>5, <2>3, <3>1, <3>2, <3>3 DEF Touched
  <2> QED
    BY <1>4, <1>5, <2>2, <2>3
<1>8. UndoIsComplete'
  BY <1>1, RecordedUndoIsComplete
<1>9. RowsAreOpened' /\ OpenAccepts'
  BY <1>1, <1>3, <1>5 DEF RowsAreOpened, OpenAccepts, ConnectJournal, Record
<1> QED
  BY <1>6, <1>7, <1>8, <1>9

\* Folding the journal leaves tables with what was read.
LEMMA FoldKeeps ==
    ASSUME IInv, FoldJournal, UNCHANGED <<undo, tip>>
    PROVE  IInv' /\ View' = View
<1> USE DEF IInv
<1>1. rows' = <<>> /\ base' = View
  BY JournalFolds DEF FoldJournal
<1>2. StoreType'
  BY <1>1, ViewType DEF StoreType
<1>3. JournalFits' /\ UndoIsComplete' /\ RowsAreOpened' /\ OpenAccepts'
  BY <1>1 DEF JournalFits, UndoIsComplete, RowsAreOpened, OpenAccepts
<1> QED
  BY <1>1, <1>2, <1>3, ViewOfTablesNext

\* The tip block taken back.
LEMMA RewindKeeps ==
    ASSUME IInv, NEW row \in undo, Rewind(row)
    PROVE  IInv'
<1> USE DEF IInv
<1>1. rows = <<>> /\ rows' = <<>>
  BY DEF Rewind
<1>2. row.spent \in Stored
  BY DEF UndoIsComplete
<1>3. base' \in Stored
  BY <1>2 DEF Rewind, Applied, StoreType, Stored
<1>4. tip.block \in Blocks /\ tip.height \in Int
  BY DEF Rewind, CanRewind, StoreType, Tips
<1>5. tip' \in [block : Tips, height : Int]
  BY <1>4, TreeAssumption DEF Rewind, Tips
<1> QED
  BY <1>1, <1>3, <1>5 DEF Rewind, StoreType, JournalFits, UndoIsComplete, RowsAreOpened, OpenAccepts

\* Pruning and opening change neither tables nor journal.
LEMMA OpenKeeps ==
    ASSUME IInv, (\E floor \in 1 .. tip.height : Prune(floor)) \/ (\E m \in Modes : Open(m))
    PROVE  IInv' /\ UNCHANGED <<base, rows, tip>>
<1> USE DEF IInv
<1>1. UNCHANGED <<base, rows, tip>> /\ undo' \subseteq undo
  BY DEF Prune, Open
<1>2. RowsAreOpened'
  <2>1. CASE \E floor \in 1 .. tip.height : Prune(floor)
    BY <2>1 DEF Prune, RowsAreOpened
  <2>2. CASE \E m \in Modes : Open(m)
    <3>1. PICK m \in Modes : Open(m)
      BY <2>2
    <3>2. rows # <<>> => mode'.journal
      BY <3>1 DEF Open, Modes
    <3> QED
      BY <1>1, <3>1, <3>2 DEF Open, RowsAreOpened
  <2> QED
    BY <2>1, <2>2
<1> QED
  BY <1>1, <1>2 DEF StoreType, JournalFits, IsFirst, UndoIsComplete, OpenAccepts

\* Every step keeps the invariant.
LEMMA StepKeeps == IInv /\ [Next]_vars => IInv'
<1> SUFFICES ASSUME IInv, [Next]_vars PROVE IInv'
  OBVIOUS
<1>1. CASE \E s \in Batches : Connect(s) \/ ConnectJournal(s)
  BY <1>1, ConnectKeeps, ConnectJournalKeeps
<1>2. CASE Materialize
  BY <1>2, FoldKeeps DEF Materialize
<1>3. CASE \E row \in undo : BeginRewind(row) \/ Rewind(row)
  BY <1>3, FoldKeeps, RewindKeeps DEF BeginRewind
<1>4. CASE (\E floor \in 1 .. tip.height : Prune(floor)) \/ (\E m \in Modes : Open(m))
  BY <1>4, OpenKeeps
<1>5. CASE UNCHANGED vars
  BY <1>5 DEF vars, IInv, StoreType, JournalFits, IsFirst, UndoIsComplete, RowsAreOpened, OpenAccepts
<1> QED
  BY <1>1, <1>2, <1>3, <1>4, <1>5 DEF Next

\* IInv holds of every reachable store.
THEOREM ChainStoreInvariant == Spec => []IInv
  BY InitHolds, StepKeeps, PTL DEF Spec

\* ReopenIsAccepted: from_database never refuses a store this code wrote, whether it was
\* stopped between two calls or inside a disconnection.
THEOREM ReopenAlwaysAccepted == Spec => []ReopenIsAccepted
<1>1. IInv => ReopenIsAccepted
  BY DEF IInv, ReopenIsAccepted
<1> QED
  BY <1>1, ChainStoreInvariant, PTL

\* What materialize_validation_deltas relies on: the journal, whatever batches it is made
\* of, is accepted by the coin tables, and they then hold what get answered before.
JournalIsFoldable ==
    ApplyAccepts(Net.spent, Net.made) /\ Applied(Net.spent, Net.made) = View

\* JournalIsFoldable: a materialization is never refused and never visible.
THEOREM JournalAlwaysFolds == Spec => []JournalIsFoldable
<1>1. IInv => JournalIsFoldable
  BY JournalFolds DEF IInv, JournalIsFoldable
<1> QED
  BY <1>1, ChainStoreInvariant, PTL

-----------------------------------------------------------------------------
(* The refinement. *)

\* What the store reports.
LEMMA Reports == A!Reported = [tip |-> tip.block, coins |-> Keys(View)] /\ Len(Log) = 1
  BY DEF A!Reported, Log

LEMMA LogNext == Log' = <<[tip |-> tip'.block, coins |-> Keys(View)']>>
  BY DEF Log

\* A batch whose coins are those of the blocks executed one by one is a Connect.
LEMMA BatchRefines ==
    ASSUME NEW s \in Batches, Executable(s), tip'.block = LastOr(s, tip.block),
           s # <<>>, Keys(View)' = CoinsAfter(Keys(View), s)
    PROVE  A!Next
<1>1. A!Batches = Batches /\ LastOr(s, tip.block) = A!LastOr(s, Base)
  BY DEF A!Batches, Batches, LastOr, A!LastOr
<1>2. A!Linked(tip.block, s) /\ A!Valid(Keys(View), s)
  BY DEF Executable, Linked, A!Linked, Valid, A!Valid, ExternalInputs, A!ExternalInputs,
         CreatedBefore, A!CreatedBefore
<1>3. A!CoinsAfter(Keys(View), s) = CoinsAfter(Keys(View), s)
  BY DEF CoinsAfter, A!CoinsAfter, SpentBy, A!SpentBy, CreatedBy, A!CreatedBy
<1>4. Log' = <<A!Extended(s)>>
  BY <1>1, <1>3, Reports, LogNext DEF A!Extended, A!State
<1> QED
  BY <1>1, <1>2, <1>4, Reports DEF A!Next, A!Connect

\* A batch is not empty.
LEMMA BatchNotEmpty == \A s \in Batches : s # <<>>
<1> SUFFICES ASSUME NEW s \in Batches PROVE s # <<>>
  OBVIOUS
<1>1. PICK n \in 1 .. MaxBatchLen : s \in [1 .. n -> Blocks]
  BY DEF Batches
<1>2. 1 \in DOMAIN s
  BY <1>1
<1> QED
  BY <1>2

\* A batch written to the tables is a Connect.
LEMMA ConnectRefines ==
    ASSUME IInv, NEW s \in Batches, Connect(s)
    PROVE  A!Next
<1>1. rows = <<>> /\ rows' = <<>>
  BY DEF Connect, IInv, RowsAreOpened
<1>2. View = base /\ View' = Applied(FoldedSpent(s), FoldedMade(s))
  BY <1>1, ViewOfTables, ViewOfTablesNext DEF Connect
<1>3. Keys(View)' = (Keys(View) \ FoldedSpent(s)) \cup Keys(FoldedMade(s))
  BY <1>2 DEF Applied, Keys
<1> QED
  BY <1>3, FoldedIs, BatchRefines, BatchNotEmpty DEF IInv, Connect, Record

\* A batch written to the journal is a Connect.
LEMMA ConnectJournalRefines ==
    ASSUME IInv, NEW s \in Batches, ConnectJournal(s)
    PROVE  A!Next
<1> DEFINE row == Checkpoint(s)
<1>1. Executable(s) /\ rows' = Append(rows, row) /\ base' = base /\ StoreType
  BY DEF ConnectJournal, IInv
<1>2. row \in Rows
  <2>1. tip.height + Len(s) \in Int
    BY <1>1, BatchTip
  <2>2. NextCount(s) \in 0 .. MaxCount
    BY DEF ConnectJournal
  <2> QED
    BY <1>1, <2>1, <2>2, FoldedIs DEF Rows, Checkpoint
<1>3. row.spent = FoldedSpent(s) /\ row.made = FoldedMade(s)
  BY DEF Checkpoint
<1> HIDE DEF row
<1>4. View' = {p \in View : p[1] \notin Touched(row)} \cup row.made
  BY <1>1, <1>2, ViewOfAppended
<1>5. Keys(View)' = (Keys(View) \ FoldedSpent(s)) \cup Keys(FoldedMade(s))
  BY <1>3, <1>4 DEF Touched, Keys
<1> QED
  BY <1>1, <1>5, FoldedIs, BatchRefines, BatchNotEmpty DEF ConnectJournal, Record

\* The tip block taken back is a Disconnect.
LEMMA RewindRefines ==
    ASSUME IInv, NEW row \in undo, Rewind(row)
    PROVE  A!Next
<1>1. View = base /\ View' = Applied(Creates[tip.block], row.spent)
  BY ViewOfTables, ViewOfTablesNext DEF Rewind
<1>2. Keys(row.spent) = Spends[tip.block] /\ tip.block # Base
  BY DEF IInv, UndoIsComplete, Rewind, CanRewind
<1>3. Keys(View)' = (Keys(View) \ Creates[tip.block]) \cup Spends[tip.block]
  BY <1>1, <1>2 DEF Applied, Keys
<1>4. tip'.block = Parent[tip.block]
  BY DEF Rewind
<1> QED
  BY <1>2, <1>3, <1>4, Reports, LogNext DEF A!Next, A!Disconnect, A!State, A!CoinsBefore

\* Every step is a step of Chainstate or invisible to it.
LEMMA StepRefines == IInv /\ [Next]_vars => [A!Next]_Log
<1> SUFFICES ASSUME IInv, [Next]_vars PROVE A!Next \/ Log' = Log
  OBVIOUS
<1>1. ASSUME View' = View, tip' = tip PROVE Log' = Log
  BY <1>1 DEF Log
<1>2. CASE \E s \in Batches : Connect(s) \/ ConnectJournal(s)
  BY <1>2, ConnectRefines, ConnectJournalRefines
<1>3. CASE Materialize
  BY <1>1, <1>3, FoldKeeps DEF Materialize
<1>4. CASE \E row \in undo : BeginRewind(row) \/ Rewind(row)
  BY <1>1, <1>4, FoldKeeps, RewindRefines DEF BeginRewind
<1>5. ASSUME UNCHANGED <<base, rows, tip>> PROVE Log' = Log
  BY <1>1, <1>5 DEF View, Net
<1>6. CASE (\E floor \in 1 .. tip.height : Prune(floor)) \/ (\E m \in Modes : Open(m))
  BY <1>5, <1>6, OpenKeeps
<1>7. CASE UNCHANGED vars
  BY <1>5, <1>7 DEF vars
<1> QED
  BY <1>2, <1>3, <1>4, <1>6, <1>7 DEF Next

\* RefinesChainstate: RedbChainStore, journal or not, keeps the contract of
\* ExecutionChainStore, and what it reports is durable at once.
THEOREM ChainStoreRefinesChainstate == Spec => RefinesChainstate
<1>1. Init => A!Init
  <2> SUFFICES ASSUME Init PROVE A!Init
    OBVIOUS
  <2>1. View = BaseCoins \X {0}
    BY ViewOfTables DEF Init
  <2>2. \A c \in BaseCoins : <<c, 0>> \in View /\ <<c, 0>>[1] = c
    BY <2>1
  <2>3. \A p \in View : p[1] \in BaseCoins
    BY <2>1
  <2>4. Keys(View) = BaseCoins
    BY <2>2, <2>3 DEF Keys
  <2> QED
    BY <2>4 DEF Init, Log, A!Init, A!State
<1>2. IInv /\ [Next]_vars => [A!Next]_Log
  BY StepRefines
<1> QED
  BY <1>1, <1>2, ChainStoreInvariant, PTL DEF Spec, RefinesChainstate, A!Spec
=============================================================================
