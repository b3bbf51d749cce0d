--------------------------- MODULE AbstractSwitch ---------------------------
(***************************************************************************)
(* What the kill switch promises: trading is released or it is not, each   *)
(* change takes effect in one instant, only an operator releases, and a    *)
(* gate admits an order only while trading is released. A gate may always  *)
(* refuse: every ambiguity resolves toward the halt.                       *)
(***************************************************************************)
CONSTANTS
    Procs,       \* the processes that use the switch
    Operators    \* those of them a human drives

VARIABLES
    released,    \* an operator has released trading and nothing armed since
    answer       \* answer[p]: what the last gate of p answered

vars == <<released, answer>>

Answers == {"none", "admitted", "refused"}

TypeOK == released \in BOOLEAN /\ answer \in [Procs -> Answers]

Init == released = FALSE /\ answer = [p \in Procs |-> "none"]

Arm == released' = FALSE /\ UNCHANGED answer

Release == Operators # {} /\ released' = TRUE /\ UNCHANGED answer

Admit(p) == released /\ answer' = [answer EXCEPT ![p] = "admitted"] /\ UNCHANGED released

Refuse(p) == answer' = [answer EXCEPT ![p] = "refused"] /\ UNCHANGED released

\* p turns to something else, or dies.
Clear(p) == answer' = [answer EXCEPT ![p] = "none"] /\ UNCHANGED released

Next == Arm \/ Release \/ \E p \in Procs : Admit(p) \/ Refuse(p) \/ Clear(p)

Spec == Init /\ [][Next]_vars
=============================================================================
