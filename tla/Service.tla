------------------------------- MODULE Service -------------------------------
(***************************************************************************)
(* The running service from outside: the loop that calls the tick, the     *)
(* heartbeat it leaves, the health check that reads it, and the manager    *)
(* that starts the process again.                                          *)
(*                                                                         *)
(* Time is counted in tick intervals, by the age of the heartbeat. Neither *)
(* manager looks at the health check.                                      *)
(***************************************************************************)
EXTENDS Naturals

CONSTANTS
    FailureLimit,  \* stop_after_consecutive_failures
    Tolerance,     \* the age a heartbeat may have, in intervals
    Burst,         \* StartLimitBurst
    MaxFaults,     \* bound: outages, crashes and hangs
    None           \* no heartbeat

ASSUME ServiceAssumption ==
    /\ FailureLimit \in Nat \ {0} /\ Tolerance \in Nat \ {0}
    /\ Burst \in Nat \ {0} /\ MaxFaults \in Nat

VARIABLES
    manager,      \* what started the process
    unit,         \* the manager's view of it
    starts,       \* systemd: starts within StartLimitIntervalSec
    phase,        \* what the process is doing
    consecutive,  \* ticks that failed in a row
    succeeded,    \* some tick of this process succeeded
    beat,         \* the heartbeat row, or None
    exchange,     \* it answers
    database,     \* it takes a transaction
    faults        \* how many there were

process == <<phase, consecutive, succeeded>>
world == <<exchange, database, faults>>
vars == <<manager, unit, starts, process, beat, world>>

-----------------------------------------------------------------------------
(***************************************************************************)
(* The manager                                                             *)
(***************************************************************************)

\* Mutant: a process that says it ended well is left alone (on-failure).
Restarts_OnFailure(code) == code # 0

\* restart: unless-stopped; Restart=always.
Restarts(code) == code \in Nat

\* The process ends.
Exit(code) ==
    /\ phase' = "off"
    /\ unit' = IF Restarts(code) THEN "pausing" ELSE "stopped"

\* systemd refuses a start when there were Burst of them within the interval.
ManagerStarts ==
    /\ unit = "pausing"
    /\ IF manager = "systemd" /\ starts = Burst
       THEN unit' = "failed" /\ UNCHANGED <<starts, process>>
       ELSE /\ unit' = "running" /\ phase' = "start"
            /\ consecutive' = 0 /\ succeeded' = FALSE
            /\ starts' = IF manager = "systemd" THEN starts + 1 ELSE 0
    /\ UNCHANGED <<manager, beat, world>>

-----------------------------------------------------------------------------
(***************************************************************************)
(* The process                                                             *)
(***************************************************************************)

Works == exchange /\ database

\* service.start: recovery needs the exchange and the database, and may take long.
StartSucceeds ==
    /\ phase = "start" /\ Works
    /\ phase' = "tick"
    /\ UNCHANGED <<manager, unit, starts, consecutive, succeeded, beat, world>>

StartFails ==
    /\ phase = "start" /\ ~Works
    /\ Exit(1)
    /\ starts' \in {starts, 0}
    /\ UNCHANGED <<manager, consecutive, succeeded, beat, world>>

\* Mutant: only a tick that succeeds leaves a heartbeat.
Beaten_OnSuccess(ok) == IF ok THEN [age |-> 0, error |-> FALSE] ELSE beat

\* The heartbeat after a tick: its failure is recorded too, if the database takes it.
Beaten(ok) == IF database THEN [age |-> 0, error |-> ~ok] ELSE beat

\* Mutant: one failure more than the limit.
TooMany_Late(failures) == failures > FailureLimit

TooMany(failures) == failures >= FailureLimit

\* 1 if no tick succeeded, else 0.
ExitCode == IF succeeded THEN 0 ELSE 1

\* one_tick returns or raises; only a run of failures ends the loop.
TickEnds ==
    /\ phase = "tick"
    /\ beat' = Beaten(Works)
    /\ succeeded' = (succeeded \/ Works)
    /\ consecutive' = IF Works THEN 0 ELSE consecutive + 1
    /\ IF TooMany(consecutive') THEN Exit(ExitCode) ELSE phase' = "sleep" /\ UNCHANGED unit
    /\ UNCHANGED <<manager, starts, world>>

Older == IF beat = None THEN None
         ELSE [beat EXCEPT !.age = IF beat.age > Tolerance THEN beat.age ELSE beat.age + 1]

\* The interval is longer than the one the manager counts starts in.
Wake ==
    /\ phase = "sleep"
    /\ phase' = "tick" /\ starts' = 0 /\ beat' = Older
    /\ UNCHANGED <<manager, unit, consecutive, succeeded, world>>

-----------------------------------------------------------------------------
(***************************************************************************)
(* Around it                                                               *)
(***************************************************************************)

\* An interval passes in which the loop does not sleep.
IntervalPasses ==
    /\ phase # "sleep" /\ beat # Older
    /\ beat' = Older
    /\ UNCHANGED <<manager, unit, starts, process, world>>

Fault == faults < MaxFaults /\ faults' = faults + 1

\* A tick that waits for an answer that never comes.
Hangs ==
    /\ Fault /\ phase = "tick"
    /\ phase' = "hung"
    /\ UNCHANGED <<manager, unit, starts, consecutive, succeeded, beat, exchange, database>>

\* The process is killed.
Dies ==
    /\ Fault /\ phase # "off"
    /\ Exit(137)
    /\ UNCHANGED <<manager, starts, consecutive, succeeded, beat, exchange, database>>

OutageBegins ==
    /\ Fault /\ Works
    /\ \/ exchange' = FALSE /\ UNCHANGED database
       \/ database' = FALSE /\ UNCHANGED exchange
    /\ UNCHANGED <<manager, unit, starts, process, beat>>

OutageEnds ==
    /\ ~Works
    /\ exchange' = TRUE /\ database' = TRUE
    /\ UNCHANGED <<manager, unit, starts, process, beat, faults>>

-----------------------------------------------------------------------------
\* atlas health: a missing heartbeat is unhealthy, an armed switch is not.
Healthy == beat # None /\ beat.age <= Tolerance

Init ==
    /\ manager \in {"docker", "systemd"} /\ unit = "pausing" /\ starts = 0
    /\ phase = "off" /\ consecutive = 0 /\ succeeded = FALSE
    /\ beat = None /\ exchange = TRUE /\ database = TRUE /\ faults = 0

Runs == ManagerStarts \/ StartSucceeds \/ StartFails \/ TickEnds \/ Wake
Around == IntervalPasses \/ Hangs \/ Dies \/ OutageBegins \/ OutageEnds

Next == Runs \/ Around

Spec == Init /\ [][Next]_vars

\* The manager and the process go on, time passes, and an outage ends.
FairSpec == Spec /\ WF_vars(Runs) /\ WF_vars(IntervalPasses) /\ WF_vars(OutageEnds)

-----------------------------------------------------------------------------
(***************************************************************************)
(* Properties                                                              *)
(***************************************************************************)

\* Every variable has its type; no process goes on after FailureLimit failures in a row.
TypeOK ==
    /\ manager \in {"docker", "systemd"} /\ starts \in 0..Burst
    /\ unit \in {"running", "pausing", "failed", "stopped"}
    /\ phase \in {"off", "start", "tick", "sleep", "hung"}
    /\ (phase = "off" <=> unit # "running")
    /\ consecutive \in 0..FailureLimit /\ (phase # "off" => consecutive < FailureLimit)
    /\ succeeded \in BOOLEAN
    /\ beat \in {None} \cup [age : 0..Tolerance + 1, error : BOOLEAN]
    /\ exchange \in BOOLEAN /\ database \in BOOLEAN /\ faults \in 0..MaxFaults

\* "A process that hangs and one that errors every cycle look identical from
\* outside unless the failure itself is recorded" (AtlasService.tick): the
\* check calls a loop that goes round healthy, however many ticks failed, unless
\* the failures cannot be stored, and it finds a hang in the end.
HangIsTold ==
    /\ [][phase = "tick" /\ phase' = "sleep" /\ database => Healthy']_vars
    /\ phase = "hung" ~> ~Healthy \/ phase # "hung"

Serving == phase = "sleep" /\ consecutive = 0

\* "An unattended trader that dies at 3am should come back" (docker-compose.yml):
\* whatever died, failed or stopped the loop, ticks succeed again, unless a tick
\* hangs or systemd has counted its starts and gives up.
ComesBack ==
    []<>Serving \/ <>[](phase = "hung") \/ <>[](unit = "failed")
=============================================================================
