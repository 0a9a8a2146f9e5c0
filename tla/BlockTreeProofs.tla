-------------------------- MODULE BlockTreeProofs --------------------------
(***************************************************************************)
(* Lemmas about batches and sequences of blocks.                            *)
(***************************************************************************)
EXTENDS BlockTree, SequenceTheorems, TLAPS

\* What a tip can be.
Tips == Blocks \cup {Base}

\* A batch is a sequence of blocks with at least one of them.
LEMMA BatchIsSeq ==
    ASSUME NEW s \in Batches
    PROVE  s \in Seq(Blocks) /\ s # <<>>
<1>1. PICK n \in 1 .. MaxBatchLen : s \in [1 .. n -> Blocks]
  BY DEF Batches
<1>2. n \in Nat /\ n > 0
  BY TreeAssumption
<1>3. s \in Seq(Blocks)
  BY <1>1, <1>2, SeqDef
<1>4. s # <<>>
  BY <1>1, <1>2, 1 \in 1 .. n
<1> QED
  BY <1>3, <1>4

\* The last block of two sequences in a row.
LEMMA LastOrConcat ==
    ASSUME NEW s \in Seq(Blocks), NEW t \in Seq(Blocks), NEW f
    PROVE  LastOr(s \o t, f) = LastOr(t, LastOr(s, f))
<1>1. CASE t = <<>>
  BY <1>1, ConcatEmptySeq DEF LastOr
<1>2. CASE t # <<>>
  <2>1. Len(t) \in Nat \ {0} /\ Len(s) \in Nat
    BY <1>2, EmptySeq, LenProperties
  <2>2. s \o t \in Seq(Blocks) /\ Len(s \o t) = Len(s) + Len(t)
    BY ConcatProperties
  <2>3. s \o t # <<>> /\ (s \o t)[Len(s) + Len(t)] = t[Len(t)]
    BY <2>1, <2>2, ConcatProperties, EmptySeq
  <2> QED
    BY <1>2, <2>2, <2>3 DEF LastOr
<1> QED
  BY <1>1, <1>2

\* The tip after a sequence is a block or the base.
LEMMA LastOrType ==
    ASSUME NEW s \in Seq(Blocks), NEW f \in Tips
    PROVE  LastOr(s, f) \in Tips
<1>1. s # <<>> => s[Len(s)] \in Blocks
  BY EmptySeq, LenProperties, ElementOfSeq
<1> QED
  BY <1>1 DEF LastOr, Tips

\* A sequence that follows on from another continues its chain.
LEMMA LinkedConcat ==
    ASSUME NEW f, NEW s \in Seq(Blocks), NEW t \in Seq(Blocks),
           Linked(f, s), Linked(LastOr(s, f), t)
    PROVE  Linked(f, s \o t)
<1> DEFINE u == s \o t
<1>1. /\ u \in Seq(Blocks) /\ Len(u) = Len(s) + Len(t)
      /\ \A i \in 1 .. Len(s) : u[i] = s[i]
      /\ \A i \in 1 .. Len(t) : u[i + Len(s)] = t[i]
  BY ConcatProperties
<1>2. DOMAIN u = 1 .. Len(u) /\ DOMAIN s = 1 .. Len(s) /\ DOMAIN t = 1 .. Len(t)
      /\ Len(s) \in Nat /\ Len(t) \in Nat
  BY <1>1, LenProperties
<1> HIDE DEF u
<1> SUFFICES ASSUME NEW i \in DOMAIN u PROVE Parent[u[i]] = IF i = 1 THEN f ELSE u[i - 1]
  BY DEF Linked, u
<1>3. CASE i <= Len(s)
  BY <1>1, <1>2, <1>3 DEF Linked
<1>4. CASE i > Len(s)
  <2> DEFINE j == i - Len(s)
  <2>1. j \in 1 .. Len(t) /\ u[i] = t[j]
    BY <1>1, <1>2, <1>4
  <2>2. Parent[t[j]] = IF j = 1 THEN LastOr(s, f) ELSE t[j - 1]
    BY <1>2, <2>1 DEF Linked
  <2>3. CASE j = 1
    <3>1. CASE s = <<>>
      BY <2>1, <2>2, <2>3, <3>1, EmptySeq DEF LastOr
    <3>2. CASE s # <<>>
      <4>1. Len(s) \in 1 .. Len(s) /\ i - 1 = Len(s)
        BY <1>2, <2>3, <3>2, EmptySeq
      <4> QED
        BY <1>1, <1>2, <2>1, <2>2, <2>3, <3>2, <4>1 DEF LastOr
    <3> QED
      BY <3>1, <3>2
  <2>4. CASE j # 1
    <3>1. j - 1 \in 1 .. Len(t) /\ i - 1 = (j - 1) + Len(s) /\ i # 1
      BY <1>2, <2>1, <2>4
    <3> QED
      BY <1>1, <2>1, <2>2, <2>4, <3>1
  <2> QED
    BY <2>3, <2>4
<1> QED
  BY <1>2, <1>3, <1>4

\* A batch spends, creates and reads coins.
LEMMA BatchCoins ==
    ASSUME NEW s \in Batches
    PROVE  /\ SpentBy(s) \subseteq Coins /\ CreatedBy(s) \subseteq Coins
           /\ ExternalInputs(s) \subseteq Coins
<1>1. \A i \in DOMAIN s : s[i] \in Blocks
  BY DEF Batches
<1> QED
  BY <1>1, TreeAssumption DEF SpentBy, CreatedBy, ExternalInputs
=============================================================================
