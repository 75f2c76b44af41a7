------------------------- MODULE MCChainAlterations -------------------------
(***************************************************************************)
(* Instances of ChainAlterations.                                          *)
(***************************************************************************)
EXTENDS ChainAlterations, TLC

CONSTANTS e1, e2

MCEvents == {e1, e2}
MCSymmetry == Permutations(MCEvents)
=============================================================================
