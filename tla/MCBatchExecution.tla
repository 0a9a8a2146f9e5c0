--------------------------- MODULE MCBatchExecution ---------------------------
(* Chains of three blocks over seven transactions: x is a coin below them, t     *)
(* spends it, u spends t no earlier than the next block, v spends u, perhaps in   *)
(* the same block, and the coinbase c, no earlier than height 2.  The coinbases   *)
(* c and d claim the subsidy, e the fee of t too.                                *)
EXTENDS BatchExecution

MCTxs == {"x", "t", "u", "v", "c", "d", "e"}
MCCoinbases == {"c", "d", "e"}
MCIns == [q \in MCTxs |-> CASE q = "t" -> <<"x">>
                            [] q = "u" -> <<"t">>
                            [] q = "v" -> <<"c", "u">>
                            [] OTHER   -> <<>>]
MCValue == [q \in MCTxs |-> CASE q = "x" -> 4
                              [] q \in {"t", "u", "e"} -> 3
                              [] OTHER -> 2]
MCFinal == [q \in MCTxs |-> IF q = "v" THEN 2 ELSE 0]
MCLock == [q \in MCTxs |-> IF q = "u" THEN 1 ELSE 0]
MCSigops == [q \in MCTxs |-> CASE q = "t" -> 1 [] q = "v" -> 2 [] OTHER -> 0]
MCGenesis == [q \in MCTxs |-> IF q = "x" THEN 0 ELSE Absent]

Bodies == {<<>>, <<"t">>, <<"u">>, <<"v">>, <<"t", "u">>, <<"u", "v">>, <<"t", "v">>}

Once(bodies) ==
    \A q \in {"t", "u", "v"} :
        Cardinality({i \in 1 .. 3 : q \in Range(bodies[i])}) <= 1

MCScripts == {[q \in MCTxs |-> "ok"],
              [q \in MCTxs |-> IF q = "t" THEN "bad" ELSE "ok"],
              [q \in MCTxs |-> IF q \in {"u", "v"} THEN "bad" ELSE "ok"],
              [q \in MCTxs |-> IF q = "u" THEN "panic" ELSE "ok"]}

Chain(cb, bodies, exception) ==
    [i \in 1 .. 3 |-> [txs  |-> <<cb[i]>> \o bodies[i],
                       rule |-> IF i = exception THEN "overwrite" ELSE "enforced"]]

MCInputs ==
    {[blocks |-> Chain(p[1], b, p[2]), script |-> s] :
        p \in {<<<<"c", "d", "e">>, 0>>, <<<<"c", "c", "d">>, 2>>,
               <<<<"c", "d", "c">>, 0>>, <<<<"c", "d", "c">>, 3>>},
        b \in {bodies \in [1 .. 3 -> Bodies] : Once(bodies)},
        s \in MCScripts}

=============================================================================
