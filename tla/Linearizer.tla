----------------------------- MODULE Linearizer -----------------------------
(***************************************************************************)
(* Cluster::linearize_with_budget (src/src/feerate_diagram/optimizer.rs),   *)
(* which orders a cluster for replacement and eviction: a baseline, either   *)
(* an earlier order or the ancestor greedy one, is refined and then replaced *)
(* chunk by chunk by chunks of proved greatest density, until the work       *)
(* allowance runs out.                                                      *)
(***************************************************************************)
EXTENDS FeerateDiagram

CONSTANTS Clusters      \* the clusters that occur

VARIABLES
  cluster,
  given,                \* the baseline before it is refined
  baseline,
  rest,                 \* transactions not yet in the order
  order,
  stage                 \* "start", "greedy", "refine", "search" or "done"

lvars == <<cluster, given, baseline, rest, order, stage>>

Init ==
    /\ cluster \in Clusters
    /\ given = <<>> /\ baseline = <<>> /\ order = <<>>
    /\ rest = Members(cluster)
    /\ stage = "start"

\* A previous order counts only if valid_order accepts it.
Reuse ==
    /\ stage = "start"
    /\ given' \in Orders(cluster, Members(cluster))
    /\ stage' = "refine"
    /\ UNCHANGED <<cluster, baseline, rest, order>>

NoPrevious == stage = "start" /\ stage' = "greedy"
              /\ UNCHANGED <<cluster, given, baseline, rest, order>>

\* linearize_ancestors, one round: the best ancestor set, by rate, then by the number of
\* transactions, then by the anchor's index.
BestAnchor(c, left) ==
    LET Set(i) == AncestorSet(c, i, left)
        Rate(i) == FractionFor(c, Set(i))
        Better(i, j) ==
            \/ RateLess(Rate(j), Rate(i))
            \/ SameRate(Rate(i), Rate(j)) /\ Cardinality(Set(i)) < Cardinality(Set(j))
            \/ SameRate(Rate(i), Rate(j)) /\ Cardinality(Set(i)) = Cardinality(Set(j)) /\ i <= j
    IN  CHOOSE i \in left : \A j \in left : Better(i, j)
Greedy ==
    /\ stage = "greedy"
    /\ LET left == Members(cluster) \ ToSet(given)
       IN  IF left = {} THEN stage' = "refine" /\ UNCHANGED given
           ELSE /\ \E block \in Orders(cluster, AncestorSet(cluster, BestAnchor(cluster, left), left)) :
                      given' = given \o block
                /\ UNCHANGED stage
    /\ UNCHANGED <<cluster, baseline, rest, order>>

Refine ==
    /\ stage = "refine"
    /\ baseline' = PostLinearize(cluster, given)
    /\ stage' = "search"
    /\ UNCHANGED <<cluster, given, rest, order>>

Suffix == SelectSeq(baseline, LAMBDA i : i \in rest)
NextChunk ==
    /\ stage = "search" /\ rest # {}
    /\ LET chunk == OptimalChunk(cluster, rest, Chunks(cluster, Suffix)[1].frac)
       IN  /\ order' = order \o ChunkOrder(cluster, chunk)
           /\ rest' = rest \ chunk
    /\ UNCHANGED <<cluster, given, baseline, stage>>

\* The allowance runs out anywhere in the search for the next chunk.
Exhausted ==
    /\ stage = "search" /\ rest # {}
    /\ order' = order \o Suffix
    /\ stage' = "done"
    /\ UNCHANGED <<cluster, given, baseline, rest>>

Finish ==
    /\ stage = "search" /\ rest = {}
    /\ stage' = "done"
    /\ UNCHANGED <<cluster, given, baseline, rest, order>>

Next == Reuse \/ NoPrevious \/ Greedy \/ Refine \/ NextChunk \/ Exhausted \/ Finish
Spec == Init /\ [][Next]_lvars

-----------------------------------------------------------------------------
(* The exact diagram of an order, without rounding: the fee at a size is a fraction. *)
ExactAt(points, at) ==
    IF at >= Last(points).size THEN [num |-> Last(points).fee, den |-> 1]
    ELSE LET n == Max({m \in 1 .. Len(points) - 1 : at >= points[m].size})
             a == points[n]
             b == points[n + 1]
         IN  [num |-> a.fee * (b.size - a.size) + (b.fee - a.fee) * (at - a.size),
              den |-> b.size - a.size]
NowhereBelow(p, q, sizes) ==
    \A s \in sizes : LET x == ExactAt(p, s)
                         y == ExactAt(q, s)
                     IN  x.num * y.den >= y.num * x.den
AtLeast(first, second) ==
    LET p == Points(first)
        q == Points(second)
    IN  NowhereBelow(p, q, Breakpoints(p, q))
Diagram(o) == Fractions(Chunks(cluster, o))

\* However early the work allowance runs out, the result is a topological order of the
\* whole cluster whose diagram is nowhere below that of the baseline ("budget exhaustion
\* cannot worsen a valid input's fee diagram").
NeverWorse ==
    stage = "done" =>
        /\ Topological(cluster, order)
        /\ ToSet(order) = Members(cluster) /\ Len(order) = Cardinality(Members(cluster))
        /\ AtLeast(Diagram(order), Diagram(given))

\* When every chunk was proved, no topological order of the cluster has a diagram that is
\* anywhere above the result's, whatever the baseline was (LinearizationResult::optimal).
OptimalIsBest ==
    (stage = "done" /\ rest = {}) =>
        \A other \in Orders(cluster, Members(cluster)) : AtLeast(Diagram(order), Diagram(other))

\* Without its last transaction the cluster has another diagram, as before or after a
\* replacement.
Rivals == Orders(cluster, Members(cluster) \ {Max(Members(cluster))})

\* The comparison that decides a replacement agrees with the exact diagrams of two sets of
\* transactions: one is called better, worse, equal or incomparable to the other only when
\* it is, although the fee inside a chunk is rounded down (compare_diagrams).
CompareIsExact ==
    stage = "refine" =>
        \A other \in Rivals :
            LET p == Points(Diagram(given))
                q == Points(Diagram(other))
                sizes == Breakpoints(p, q)
                verdict == ComparePoints(p, q)
            IN  /\ verdict \in {"better", "equal"} <=> NowhereBelow(p, q, sizes)
                /\ verdict \in {"worse", "equal"} <=> NowhereBelow(q, p, sizes)
=============================================================================
