-------------------------- MODULE MCPeerAdmission --------------------------
(* 1 pays nothing and leaves a dust output, which 2 spends and pays for; 3          *)
(* conflicts with 1 and pays more than both, at a lower rate.  4, 5 and 6 are       *)
(* version 3: a parent and two children of it.  7 is too heavy to be relayed, and   *)
(* only in h1.  a2 overtakes b1 and h1 and is overtaken by b2.                      *)
EXTENDS PeerAdmission

MCTxs == 1 .. 7
MCBlocks == {"g", "a1", "a2", "b1", "b2", "h1"}
\* The count, the bytes or neither limit the pool; the ledger retains the stale blocks, or
\* has pruned the one that holds 7.
Setup(txs, capacity, bytes, blocks, retained) ==
    [txs |-> txs, capacity |-> capacity, bytes |-> bytes, blocks |-> blocks,
     retained |-> retained]
MCSetups ==
    {Setup({1, 2, 3}, 3, 5, {"b1", "a2"}, MCBlocks),
     Setup({1, 2, 4}, 3, 2, {"b1", "a2"}, MCBlocks),
     Setup({4, 5, 6}, 3, 5, {"b1", "a2", "b2"}, MCBlocks),
     Setup({3, 4}, 1, 5, {"h1", "a2"}, MCBlocks),
     Setup({3, 4}, 1, 5, {"h1", "a2"}, MCBlocks \ {"h1"})}
MCReorgSetups == {Setup({4, 5, 6}, 4, 9, {"b1", "a2", "b2"}, MCBlocks)}
MCSpends == <<{"c1"}, {"o1"}, {"c1"}, {"c2"}, {"o4"}, {"p4"}, {"c3"}>>
MCCreates == <<{"o1"}, {"o2"}, {"o3"}, {"o4", "p4"}, {"o5"}, {"o6"}, {"o7"}>>
MCFee == <<0, 6, 11, 2, 2, 6, 5>>
MCVsize == <<1, 1, 4, 1, 1, 1, 5>>
MCSize == <<1, 1, 2, 1, 1, 1, 3>>
MCPath == [b \in MCBlocks |->
    CASE b = "g" -> <<>> [] b = "b1" -> <<"b1">> [] b = "h1" -> <<"h1">> [] b = "b2" -> <<"b1", "b2">>
      [] b = "a1" -> <<"a1">> [] b = "a2" -> <<"a1", "a2">>]
MCWork == [b \in MCBlocks |->
    CASE b \in {"g", "a1"} -> 0 [] b \in {"b1", "h1"} -> 1 [] b = "a2" -> 2 [] b = "b2" -> 3]
MCContent == [b \in MCBlocks |->
    CASE b = "b1" -> <<1, 2>> [] b = "h1" -> <<7>> [] b = "a1" -> <<3>> [] b = "a2" -> <<4>> [] b \in {"g", "b2"} -> <<>>]
=============================================================================
