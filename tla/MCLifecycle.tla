---------------------------- MODULE MCLifecycle ----------------------------
(***************************************************************************)
(* Small instances of Lifecycle: one batch, one operator, the runtime, and *)
(* one or two strategies.                                                  *)
(***************************************************************************)
EXTENDS Lifecycle

CONSTANTS i1, i2, c1, c2, batch, human
=============================================================================
