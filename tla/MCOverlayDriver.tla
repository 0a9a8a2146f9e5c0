-------------------------- MODULE MCOverlayDriver --------------------------
EXTENDS OverlayDriver

CONSTANTS a1, a2, a3, a4, b2, b3, b4, b5

MCOneBranch == {<<a1, a2, a3, a4>>}
MCBranches == {<<a1, a2, a3, a4>>, <<a1, b2, b3, b4, b5>>}
=============================================================================
