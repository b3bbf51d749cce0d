---------------------------- MODULE MCAuditChain ----------------------------
(* AuditChain for TLC: the runtime and two command lines. *)
EXTENDS AuditChain

CONSTANTS p1, p2, p3, e1, e2, e3
=============================================================================
