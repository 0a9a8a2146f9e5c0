---------------------------- MODULE MCNodeDriver ----------------------------
(* Three branches: the second parts from the others early, the third late. *)
EXTENDS NodeDriver

CONSTANTS a1, a2, a3, a4, a5, b2, b3, b4, b5, b6, c4, c5, c6, x, y

MCBranches == {<<a1, a2, a3, a4, a5>>, <<a1, b2, b3, b4, b5, b6>>, <<a1, a2, a3, c4, c5, c6>>}
MCIndexes == {x, y}
\* x is always on, y is switched on and off.
MCChoices == {{x}, {x, y}}
=============================================================================
