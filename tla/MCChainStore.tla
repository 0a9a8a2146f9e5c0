---------------------------- MODULE MCChainStore ----------------------------
(* A small instance of ChainStore: a chain of four blocks and a rival branch    *)
(* that carries some of the same transactions at other heights. *)
EXTENDS ChainStore, TLC

CONSTANTS a1, a2, a3, a4, b2, b3, c0, d0, c1, c2, c3, c4

MCBlocks == {a1, a2, a3, a4, b2, b3}
MCParent == (a1 :> Base) @@ (a2 :> a1) @@ (a3 :> a2) @@ (a4 :> a3)
            @@ (b2 :> a1) @@ (b3 :> b2)
MCCoins == {c0, d0, c1, c2, c3, c4}
MCBaseCoins == {c0, d0}
\* c0 is spent by a3 and by b2; c2 is created by a2 and, a block later, by b3.
MCSpends == (a1 :> {}) @@ (a2 :> {c1}) @@ (a3 :> {c0, c2}) @@ (a4 :> {c3, d0})
            @@ (b2 :> {c0}) @@ (b3 :> {c1, d0})
MCCreates == (a1 :> {c1}) @@ (a2 :> {c2}) @@ (a3 :> {c3}) @@ (a4 :> {c4})
            @@ (b2 :> {c4}) @@ (b3 :> {c2})

=============================================================================
