------------------------- MODULE MCApprovalRegistry -------------------------
(***************************************************************************)
(* Instances of ApprovalRegistry.                                          *)
(***************************************************************************)
EXTENDS ApprovalRegistry

CONSTANTS i1, i2, o1, o2

MCIds == {i1, i2}
MCOperators == {o1, o2}

after(n, fallback) == [timeoutSeconds |-> n, approverFallback |-> fallback]

\* A short timeout, one longer than setTimeout can count, and the default of 60.
MCRules == {after(1, "AUTO_ALLOW"), after(61, "AUTO_DENY"), Null}
=============================================================================
