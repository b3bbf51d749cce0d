---------------------------- MODULE AbstractLog ----------------------------
(***************************************************************************)
(* What the audit log promises: one sequence of events that only grows,    *)
(* and an event its append returned is in it.                              *)
(***************************************************************************)
EXTENDS Sequences

CONSTANT Events

VARIABLES
    log,       \* the events in their order
    returned   \* the events whose append has returned

logVars == <<log, returned>>

Extend(e) ==
    /\ e \notin returned
    /\ log' = Append(log, e)
    /\ UNCHANGED returned

\* An append may be stored and never return: its process died.
Return(e) ==
    /\ \E i \in DOMAIN log : log[i] = e
    /\ returned' = returned \cup {e}
    /\ UNCHANGED log

LogInit == log = <<>> /\ returned = {}

LogNext == \E e \in Events : Extend(e) \/ Return(e)

LogSpec == LogInit /\ [][LogNext]_logVars
=============================================================================
