---------------------------- MODULE MCAuditChain ----------------------------
(***************************************************************************)
(* Instances of AuditChain.                                                *)
(***************************************************************************)
EXTENDS AuditChain

CONSTANTS e1, e2, e3, e4

MCEvents == {e1, e2, e3, e4}
=============================================================================
