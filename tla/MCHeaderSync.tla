---------------------------- MODULE MCHeaderSync ----------------------------
(***************************************************************************)
(* A testnet-like instance: a1-a2-a3 at the real difficulty, a rival d2 of   *)
(* a2, and the branch b1-b2 at the minimum difficulty, higher than a1 with   *)
(* less work.  a3 is a checkpoint and x1 has no proof of work.               *)
(***************************************************************************)
EXTENDS HeaderSync

CONSTANTS g, a1, a2, a3, b1, b2, d2, x1

MCHeaders == {a1, a2, a3, b1, b2, d2, x1}
MCPath == [h \in {g, a1, a2, a3, b1, b2, d2, x1} |->
    CASE h = g -> <<g>> [] h = a1 -> <<g, a1>> [] h = a2 -> <<g, a1, a2>>
      [] h = a3 -> <<g, a1, a2, a3>> [] h = b1 -> <<g, b1>> [] h = b2 -> <<g, b1, b2>>
      [] h = d2 -> <<g, a1, d2>> [] h = x1 -> <<g, x1>>]
MCTime == [h \in DOMAIN MCPath |->
    CASE h = g -> 0 [] h \in {a1, x1} -> 1 [] h \in {a2, d2} -> 2 [] h \in {a3, b1} -> 3
      [] h = b2 -> 4]
MCBits == [h \in DOMAIN MCPath |-> IF h \in {b1, b2} THEN 1 ELSE 2]
MCVersion == [h \in DOMAIN MCPath |-> 1]
MCHasPow == MCHeaders \ {x1}
MCWorkOf == <<1, 3>>
MCRetarget == [b \in 1 .. 2, elapsed \in 0 .. 4 |-> b]
MCMinVersion == [n \in 0 .. 3 |-> 1]
MCCheckpoint == [n \in {3} |-> a3]
MCParams == [testnet4 |-> FALSE, retargeting |-> TRUE, minDifficulty |-> TRUE, spacing |-> 1]
=============================================================================
