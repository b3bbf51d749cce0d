---------------------------- MODULE ServiceProofs ----------------------------
(***************************************************************************)
(* Theorems of module Service, for every failure limit, tolerance, burst   *)
(* and number of faults. That the service comes back, and that a hang is   *)
(* found in the end, is liveness and stays with TLC.                       *)
(***************************************************************************)
EXTENDS Service, TLAPS

Beats == {None} \cup [age : 0..Tolerance + 1, error : BOOLEAN]

LEMMA OlderTypes == ASSUME beat \in Beats  PROVE Older \in Beats
<1>1. CASE beat = None  BY <1>1 DEF Older, Beats
<1>2. CASE beat # None
  <2>1. beat \in [age : 0..Tolerance + 1, error : BOOLEAN]  BY <1>2 DEF Beats
  <2>2. Tolerance \in Nat  BY ServiceAssumption
  <2>3. (IF beat.age > Tolerance THEN beat.age ELSE beat.age + 1) \in 0..Tolerance + 1
    BY <2>1, <2>2
  <2> QED  BY <1>2, <2>1, <2>3 DEF Older, Beats
<1> QED  BY <1>1, <1>2

LEMMA BeatenTypes ==
    ASSUME beat \in Beats, NEW ok \in BOOLEAN
    PROVE  Beaten(ok) \in Beats
<1>1. Tolerance \in Nat  BY ServiceAssumption
<1>2. [age |-> 0, error |-> ~ok] \in [age : 0..Tolerance + 1, error : BOOLEAN]  BY <1>1
<1> QED  BY <1>2 DEF Beaten, Beats

\* TypeOK without the heartbeat and the variables that are true or false.
Control ==
    /\ manager \in {"docker", "systemd"} /\ starts \in 0..Burst
    /\ unit \in {"running", "pausing", "failed", "stopped"}
    /\ phase \in {"off", "start", "tick", "sleep", "hung"}
    /\ (phase = "off" <=> unit # "running")
    /\ consecutive \in 0..FailureLimit /\ (phase # "off" => consecutive < FailureLimit)
    /\ faults \in 0..MaxFaults

Flags == succeeded \in BOOLEAN /\ exchange \in BOOLEAN /\ database \in BOOLEAN

LEMMA SplitTypes == TypeOK <=> Control /\ beat \in Beats /\ Flags
BY DEF TypeOK, Control, Flags, Beats

LEMMA ServiceStep == TypeOK /\ [Next]_vars => TypeOK'
<1> SUFFICES ASSUME TypeOK, [Next]_vars  PROVE TypeOK'
  OBVIOUS
<1>1. Control /\ beat \in Beats /\ Flags  BY SplitTypes
<1>2. FailureLimit \in Nat \ {0} /\ Tolerance \in Nat /\ Burst \in Nat /\ MaxFaults \in Nat
  BY ServiceAssumption
<1>3. Control'
  <2> USE <1>1, <1>2 DEF Control, vars, process, world
  <2>1. CASE ManagerStarts
    <3>1. CASE manager = "systemd" /\ starts = Burst  BY <2>1, <3>1 DEF ManagerStarts
    <3>2. CASE ~(manager = "systemd" /\ starts = Burst)  BY <2>1, <3>2 DEF ManagerStarts
    <3> QED  BY <3>1, <3>2
  <2>2. CASE StartSucceeds  BY <2>2 DEF StartSucceeds
  <2>3. CASE StartFails  BY <2>3 DEF StartFails, Exit
  <2>4. CASE TickEnds
    <3>1. consecutive' \in 0..FailureLimit  BY <2>4 DEF TickEnds
    <3>2. CASE TooMany(consecutive')  BY <2>4, <3>1, <3>2 DEF TickEnds, Exit
    <3>3. CASE ~TooMany(consecutive')  BY <2>4, <3>1, <3>3 DEF TickEnds, TooMany
    <3> QED  BY <3>2, <3>3
  <2>5. CASE Wake  BY <2>5 DEF Wake
  <2>6. CASE IntervalPasses  BY <2>6 DEF IntervalPasses
  <2>7. CASE Hangs  BY <2>7 DEF Hangs, Fault
  <2>8. CASE Dies  BY <2>8 DEF Dies, Fault, Exit
  <2>9. CASE OutageBegins  BY <2>9 DEF OutageBegins, Fault
  <2>10. CASE OutageEnds  BY <2>10 DEF OutageEnds
  <2>11. CASE UNCHANGED vars  BY <2>11
  <2> QED
    BY <2>1, <2>2, <2>3, <2>4, <2>5, <2>6, <2>7, <2>8, <2>9, <2>10, <2>11 DEF Next, Runs, Around
<1>4. beat' \in Beats
  <2>1. CASE TickEnds
    <3>1. Works \in BOOLEAN  BY <1>1 DEF Works, Flags
    <3> QED  BY <1>1, <2>1, <3>1, BeatenTypes DEF TickEnds
  <2>2. CASE Wake \/ IntervalPasses  BY <1>1, <2>2, OlderTypes DEF Wake, IntervalPasses
  <2>3. CASE beat' = beat  BY <1>1, <2>3
  <2> QED
    BY <2>1, <2>2, <2>3 DEF Next, Runs, Around, ManagerStarts, StartSucceeds, StartFails, Hangs, Dies,
       OutageBegins, OutageEnds, vars
<1>5. Flags'
  BY <1>1, Zenon DEF Flags, Works, Next, Runs, Around, ManagerStarts, StartSucceeds, StartFails, TickEnds, Wake,
     IntervalPasses, Hangs, Dies, OutageBegins, OutageEnds, vars, process, world
<1> QED  BY <1>3, <1>4, <1>5 DEF TypeOK, Control, Flags, Beats

\* Every variable keeps its type, a process runs exactly while its unit does,
\* and none goes on after FailureLimit ticks that failed in a row
\* (service.run_forever, deploy/atlas.service).
THEOREM ServiceTypeCorrect == Spec => []TypeOK
<1>1. Init => TypeOK
  <2>1. FailureLimit \in Nat \ {0} /\ Tolerance \in Nat /\ Burst \in Nat /\ MaxFaults \in Nat
    BY ServiceAssumption
  <2>2. Init => beat \in Beats /\ Flags  BY DEF Init, Beats, Flags
  <2>3. Init => Control  BY <2>1 DEF Init, Control
  <2> QED  BY <2>2, <2>3, SplitTypes
<1> QED  BY <1>1, ServiceStep, PTL DEF Spec
=============================================================================
