--------------------------- MODULE FeerateDiagram ---------------------------
(***************************************************************************)
(* The feerate diagram of a mempool cluster (src/src/feerate_diagram.rs and  *)
(* feerate_diagram/optimizer.rs).  A cluster c has the transactions         *)
(* DOMAIN c.frac, each with a fee and a virtual size, and c.parents gives   *)
(* the ones it spends from.  Orders are sequences of transactions.          *)
(***************************************************************************)
EXTENDS Integers, Sequences, FiniteSets, FiniteSetsExt, SequencesExt

FeeFrac(fee, size) == [fee |-> fee, size |-> size]
Combined(a, b) == FeeFrac(a.fee + b.fee, a.size + b.size)

\* FeeFrac::feerate_cmp is Less: cross-multiplied, and a zero size is below everything.
RateLess(a, b) ==
    \/ a.size = 0 /\ b.size > 0
    \/ a.size > 0 /\ b.size > 0 /\ a.fee * b.size < b.fee * a.size
SameRate(a, b) == ~ RateLess(a, b) /\ ~ RateLess(b, a)

Members(c) == DOMAIN c.frac
RECURSIVE FractionFor(_, _)
FractionFor(c, txs) ==
    IF txs = {} THEN FeeFrac(0, 0)
    ELSE LET i == CHOOSE i \in txs : TRUE
         IN  Combined(c.frac[i], FractionFor(c, txs \ {i}))

Closed(c, txs, rest) == \A i \in txs : c.parents[i] \cap rest \subseteq txs
Closures(c, rest) == {txs \in SUBSET rest \ {{}} : Closed(c, txs, rest)}

\* A transaction and its ancestors among rest.
RECURSIVE AncestorSet(_, _, _)
AncestorSet(c, i, rest) ==
    {i} \cup UNION {AncestorSet(c, j, rest) : j \in c.parents[i] \cap rest}

Topological(c, order) ==
    \A m, n \in DOMAIN order : order[m] \in c.parents[order[n]] => m < n
RECURSIVE Orders(_, _)
Orders(c, txs) ==
    IF txs = {} THEN {<<>>}
    ELSE UNION {{<<i>> \o order : order \in Orders(c, txs \ {i})} :
                    i \in {j \in txs : c.parents[j] \cap txs = {}}}

-----------------------------------------------------------------------------
\* chunk_linearization_with_members: a transaction joins the chunk before it as long as
\* that chunk pays strictly less.
RECURSIVE Push(_, _)
Push(chunks, chunk) ==
    IF chunks # <<>> /\ RateLess(Last(chunks).frac, chunk.frac)
    THEN Push(Front(chunks), [frac |-> Combined(Last(chunks).frac, chunk.frac),
                              txs |-> Last(chunks).txs \cup chunk.txs])
    ELSE Append(chunks, chunk)
RECURSIVE Chunked(_, _, _)
Chunked(c, chunks, order) ==
    IF order = <<>> THEN chunks
    ELSE Chunked(c, Push(chunks, [frac |-> c.frac[Head(order)], txs |-> {Head(order)}]),
                 Tail(order))
Chunks(c, order) == Chunked(c, <<>>, order)
Fractions(chunks) == [n \in DOMAIN chunks |-> chunks[n].frac]

\* diagram_points
RECURSIVE PointsFrom(_, _)
PointsFrom(point, fracs) ==
    <<point>> \o IF fracs = <<>> THEN <<>>
                 ELSE PointsFrom(Combined(point, Head(fracs)), Tail(fracs))
Points(fracs) == PointsFrom(FeeFrac(0, 0), fracs)

\* Mutant of Between: no interpolation.
BetweenFlat(a, b, at) == a.fee

\* fee_at: the interpolated fee, rounded toward zero.
Between(a, b, at) ==
    IF a.size = b.size THEN Max({a.fee, b.fee})
    ELSE a.fee + ((b.fee - a.fee) * (at - a.size)) \div (b.size - a.size)
FeeAt(points, at) ==
    IF at >= Last(points).size THEN Last(points).fee
    ELSE LET n == Min({m \in 1 .. Len(points) - 1 :
                          at >= points[m].size /\ at <= points[m + 1].size})
         IN  Between(points[n], points[n + 1], at)

\* compare_diagrams
Breakpoints(p, q) == {x.size : x \in ToSet(p) \cup ToSet(q)}
Ahead(p, q, sizes) == \E s \in sizes : FeeAt(p, s) > FeeAt(q, s)
Verdict(ahead, behind) ==
    CASE ahead /\ behind -> "incomparable"
      [] ahead /\ ~ behind -> "better"
      [] ~ ahead /\ behind -> "worse"
      [] ~ ahead /\ ~ behind -> "equal"
ComparePoints(p, q) ==
    Verdict(Ahead(p, q, Breakpoints(p, q)), Ahead(q, p, Breakpoints(p, q)))
Compare(first, second) == ComparePoints(Points(first), Points(second))

-----------------------------------------------------------------------------
\* post_linearize: a group moves before the groups that pay less, and takes the ones it
\* depends on with it; once from the back with the order reversed, once from the front.
Moves(previous, current, reverse) ==
    IF reverse THEN RateLess(current.frac, previous.frac)
               ELSE RateLess(previous.frac, current.frac)
Joined(previous, current) ==
    [txs |-> previous.txs \o current.txs, frac |-> Combined(previous.frac, current.frac),
     needs |-> previous.needs \cup current.needs]
RECURSIVE Settled(_, _, _, _)
Settled(before, current, after, reverse) ==
    IF before = <<>> \/ ~ Moves(Last(before), current, reverse)
    THEN Append(before, current) \o after
    ELSE IF current.needs \cap ToSet(Last(before).txs) # {}
         THEN Settled(Front(before), Joined(Last(before), current), after, reverse)
         ELSE Settled(Front(before), current, <<Last(before)>> \o after, reverse)

Needs(c, i, reverse) ==
    IF reverse THEN {j \in Members(c) : i \in AncestorSet(c, j, Members(c))}
               ELSE AncestorSet(c, i, Members(c))
Pass(c, order, reverse) ==
    LET groups == FoldLeft(LAMBDA gs, i :
                      Settled(gs, [txs |-> <<i>>, frac |-> c.frac[i], needs |-> Needs(c, i, reverse)],
                              <<>>, reverse), <<>>, order)
    IN  FoldLeft(LAMBDA out, g : out \o g.txs, <<>>, groups)
PostLinearize(c, order) == Pass(c, Reverse(Pass(c, Reverse(order), TRUE)), FALSE)

-----------------------------------------------------------------------------
\* maximum_closure: the smallest closure of the greatest weight sum(fee*s - f*size); none
\* when no closure has a positive weight.
Weight(txs, rate) == txs.fee * rate.size - rate.fee * txs.size
MaximumClosure(c, rest, rate) ==
    LET best == Max({0} \cup {Weight(FractionFor(c, txs), rate) : txs \in Closures(c, rest)})
    IN  IF best = 0 THEN {}
        ELSE CHOOSE txs \in Closures(c, rest) :
                /\ Weight(FractionFor(c, txs), rate) = best
                /\ \A other \in Closures(c, rest) :
                      Weight(FractionFor(c, other), rate) = best => txs \subseteq other

\* minimal_chunk: of the inclusion-minimal closures of weight zero the smallest in size,
\* then the one whose last transaction comes first.
MinimalChunk(c, rest, rate) ==
    LET zero == {txs \in Closures(c, rest) : Weight(FractionFor(c, txs), rate) = 0}
        minimal == {txs \in zero : \A other \in zero : other \subseteq txs => other = txs}
        Before(a, b) ==
            LET x == FractionFor(c, a).size
                y == FractionFor(c, b).size
            IN  x < y \/ (x = y /\ Max(a) <= Max(b))
    IN  CHOOSE txs \in minimal : \A other \in minimal : Before(txs, other)

\* optimal_chunk: raise the rate to the closure's until no closure improves on it.
RECURSIVE OptimalChunk(_, _, _)
OptimalChunk(c, rest, rate) ==
    LET improvement == MaximumClosure(c, rest, rate)
    IN  IF improvement = {} THEN MinimalChunk(c, rest, rate)
        ELSE OptimalChunk(c, rest, FractionFor(c, improvement))

\* Mutant of ChunkOrder: parents do not come first.
ChunkOrderByRate(c, chunk) ==
    SetToSortSeq(chunk, LAMBDA i, j : RateLess(c.frac[j], c.frac[i])
                                      \/ (SameRate(c.frac[i], c.frac[j]) /\ i < j))

\* append_chunk_order: highest rate first, then smallest size, then lowest index.
RECURSIVE ChunkOrder(_, _)
ChunkOrder(c, chunk) ==
    IF chunk = {} THEN <<>>
    ELSE LET ready == {i \in chunk : c.parents[i] \cap chunk = {}}
             Sooner(i, j) ==
                 \/ RateLess(c.frac[j], c.frac[i])
                 \/ SameRate(c.frac[i], c.frac[j]) /\ c.frac[i].size < c.frac[j].size
                 \/ SameRate(c.frac[i], c.frac[j]) /\ c.frac[i].size = c.frac[j].size /\ i <= j
             next == CHOOSE i \in ready : \A j \in ready : Sooner(i, j)
         IN  <<next>> \o ChunkOrder(c, chunk \ {next})

\* The order linearize_with_budget returns when its allowance is enough.
RECURSIVE OptimalOrder(_, _, _)
OptimalOrder(c, rest, baseline) ==
    IF rest = {} THEN <<>>
    ELSE LET suffix == SelectSeq(baseline, LAMBDA i : i \in rest)
             chunk == OptimalChunk(c, rest, Chunks(c, suffix)[1].frac)
         IN  ChunkOrder(c, chunk) \o OptimalOrder(c, rest \ chunk, baseline)
=============================================================================
