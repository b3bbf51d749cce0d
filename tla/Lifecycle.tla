----------------------------- MODULE Lifecycle -----------------------------
(***************************************************************************)
(* The life of a strategy: proposed by a research batch, incubated by an   *)
(* operator, promoted by a human, suspended and retired by the runtime.    *)
(* All of them write one row through StrategyRegistry.set_status, which    *)
(* reads the status in one statement and writes it in a later transaction. *)
(*                                                                         *)
(* pc[p] is the next step of process p:                                    *)
(*   research  idle -> find (-> insert) -> judge -> select -> check        *)
(*             -> write -> idle                                            *)
(*   operator  idle -> run (-> begin) -> check -> write -> idle            *)
(*             idle -> approve -> promote -> check -> write -> idle        *)
(*   runtime   idle -> list -> supervise (-> check -> write)* -> idle      *)
(***************************************************************************)
EXTENDS Naturals

CONSTANTS
    Ids,          \* the ids a strategy row may get
    Specs,        \* the specifications research may propose
    Researchers,  \* the research batches
    Operators,    \* the command lines and the human who promotes
    Monitor,      \* the runtime process
    MinDays,      \* the days of observation a promotion needs
    MaxDay,       \* bound: the last day of the run
    MaxCalls,     \* bound: calls of researchers and operators
    MaxCrashes,   \* bound: how often a process dies
    None          \* no id, no specification, no day

Procs == Researchers \cup Operators \cup {Monitor}

ASSUME LifecycleAssumption ==
    /\ Researchers \cap Operators = {} /\ Monitor \notin Researchers \cup Operators
    /\ MinDays \in Nat /\ MaxDay \in Nat /\ MaxCalls \in Nat /\ MaxCrashes \in Nat
    /\ None \notin Ids /\ None \notin Specs /\ None \notin Nat

VARIABLES
    status,    \* status[i]: strategies.status of row i, "absent" without a row
    specOf,    \* specOf[i]: the specification row i was registered for
    verified,  \* the ids with a passing row in verifications
    selected,  \* the ids with a passing row in selection_results
    started,   \* started[i]: incubation_runs.started_at of i, a day
    promoted,  \* the ids with a row in promotions
    fired,     \* fired[i]: what the rules that fire on i's closed trades demand
    day,       \* the date
    pc,        \* pc[p]: the next step of p
    job,       \* job[p]: the strategy p works on, for which specification, and
               \* the status it is about to write
    watched,   \* the ids the tick computed a baseline for
    todo,      \* the ids the tick has still to supervise
    calls,     \* bound: calls so far
    crashes    \* bound: crashes so far

evidence == <<verified, selected, started, promoted>>
rows == <<status, specOf, evidence>>
tick == <<watched, todo>>
world == <<fired, day>>
bounds == <<calls, crashes>>
vars == <<rows, world, pc, job, tick, bounds>>

Statuses == {"CANDIDATE", "VERIFIED", "INCUBATING", "LIVE", "SUSPENDED", "RETIRED", "REJECTED"}
Actions == {"RETIRE", "SUSPEND", "ALERT"}
Pcs == {"idle", "find", "insert", "judge", "select", "run", "begin", "approve", "promote",
        "list", "supervise", "check", "write"}

NoJob == [id |-> None, spec |-> None, want |-> None]
Working == {"judge", "select", "run", "begin", "approve", "promote", "check", "write"}

Job == [id : Ids \cup {None}, spec : Specs \cup {None}, want : Statuses \cup {None}]

TypeOK ==
    /\ status \in [Ids -> Statuses \cup {"absent"}]
    /\ specOf \in [Ids -> Specs \cup {None}]
    /\ verified \subseteq Ids /\ selected \subseteq Ids /\ promoted \subseteq Ids
    /\ started \in [Ids -> Nat \cup {None}]
    /\ fired \in [Ids -> SUBSET Actions]
    /\ day \in Nat
    /\ pc \in [Procs -> Pcs]
    /\ job \in [Procs -> Job]
    /\ \A p \in Procs :
        /\ pc[p] \in Working => job[p].id \in Ids
        /\ pc[p] \in {"find", "insert"} => job[p].spec \in Specs
        /\ pc[p] \in {"check", "write"} => job[p].want \in Statuses
    /\ watched \subseteq Ids /\ todo \subseteq Ids
    /\ calls \in Nat /\ crashes \in Nat

Init ==
    /\ status = [i \in Ids |-> "absent"] /\ specOf = [i \in Ids |-> None]
    /\ verified = {} /\ selected = {} /\ promoted = {}
    /\ started = [i \in Ids |-> None]
    /\ fired = [i \in Ids |-> {}]
    /\ day = 0
    /\ pc = [p \in Procs |-> "idle"] /\ job = [p \in Procs |-> NoJob]
    /\ watched = {} /\ todo = {}
    /\ calls = 0 /\ crashes = 0

Id(p) == job[p].id

\* p goes on with the strategy and the specification it has.
Goto(p, label) == pc' = [pc EXCEPT ![p] = label] /\ UNCHANGED job

Done(p) == pc' = [pc EXCEPT ![p] = "idle"] /\ job' = [job EXCEPT ![p] = NoJob]

\* p is interrupted, and what a tick held is gone.
Stop(p) ==
    /\ Done(p)
    /\ IF p = Monitor THEN watched' = {} /\ todo' = {} ELSE UNCHANGED tick

\* p starts on strategy i.
TakeUp(p, i, label) ==
    /\ pc' = [pc EXCEPT ![p] = label]
    /\ job' = [job EXCEPT ![p].id = i]

\* p calls set_status for the strategy it works on.
SetStatus(p, want) ==
    /\ pc' = [pc EXCEPT ![p] = "check"]
    /\ job' = [job EXCEPT ![p].want = want]

Called == calls < MaxCalls /\ calls' = calls + 1 /\ UNCHANGED crashes

-----------------------------------------------------------------------------
(* ResearchLoop.run_once. Candidates the generator or the schema refuses   *)
(* leave nothing behind and are not modelled.                              *)

Propose(p) ==
    /\ p \in Researchers /\ pc[p] = "idle" /\ Called
    /\ \E c \in Specs : job' = [job EXCEPT ![p].spec = c]
    /\ pc' = [pc EXCEPT ![p] = "find"]
    /\ UNCHANGED <<rows, world, tick>>

\* Mutant: only candidates count as registered.
Registered_Candidates(c) == {i \in Ids : specOf[i] = c /\ status[i] = "CANDIDATE"}

\* The rows a lookup by the hash of specification c returns.
Registered(c) == {i \in Ids : specOf[i] = c}

FindSpec(p) ==
    /\ pc[p] = "find"
    /\ \/ \E i \in Registered(job[p].spec) : TakeUp(p, i, "judge")
       \/ Registered(job[p].spec) = {} /\ Goto(p, "insert")
    /\ UNCHANGED <<rows, world, tick, bounds>>

Register(p) ==
    /\ pc[p] = "insert"
    /\ \E i \in Ids :
        /\ status[i] = "absent"
        /\ status' = [status EXCEPT ![i] = "CANDIDATE"]
        /\ specOf' = [specOf EXCEPT ![i] = job[p].spec]
        /\ TakeUp(p, i, "judge")
    /\ UNCHANGED <<evidence, world, tick, bounds>>

\* Both back-tests are stored with the comparison. A mismatch ends the pass
\* and leaves the status as it is.
Judge(p) ==
    /\ pc[p] = "judge"
    /\ \/ verified' = verified \cup {Id(p)} /\ Goto(p, "select")
       \/ UNCHANGED verified /\ Done(p)
    /\ UNCHANGED <<status, specOf, selected, started, promoted, world, tick, bounds>>

Select(p) ==
    /\ pc[p] = "select"
    /\ \/ selected' = selected \cup {Id(p)} /\ SetStatus(p, "VERIFIED")
       \/ UNCHANGED selected /\ SetStatus(p, "REJECTED")
    /\ UNCHANGED <<status, specOf, verified, started, promoted, world, tick, bounds>>

-----------------------------------------------------------------------------
(* StrategyRegistry.set_status                                             *)

\* RETIRED is terminal for the call that sees it. The ValueError is caught
\* neither in a batch nor in a tick, which ends with it.
CheckStatus(p) ==
    /\ pc[p] = "check"
    /\ IF status[Id(p)] = "RETIRED" /\ job[p].want # "RETIRED"
       THEN Stop(p)
       ELSE Goto(p, "write") /\ UNCHANGED tick
    /\ UNCHANGED <<rows, world, bounds>>

\* The runtime goes on supervising; the others have made their call.
WriteStatus(p) ==
    /\ pc[p] = "write"
    /\ status' = [status EXCEPT ![Id(p)] = job[p].want]
    /\ pc' = [pc EXCEPT ![p] = IF p = Monitor THEN "supervise" ELSE "idle"]
    /\ job' = [job EXCEPT ![p] = NoJob]
    /\ UNCHANGED <<specOf, evidence, world, tick, bounds>>

-----------------------------------------------------------------------------
(* The operator: incubation and promotion.                                 *)

\* Mutant: any strategy may be incubated.
Incubatable_Any(i) == status[i] # "absent"

\* _begin_incubation refuses every other status.
Incubatable(i) == status[i] = "VERIFIED"

BeginIncubation(p) ==
    /\ p \in Operators /\ pc[p] = "idle" /\ Called
    /\ \E i \in Ids : Incubatable(i) /\ TakeUp(p, i, "run")
    /\ UNCHANGED <<rows, world, tick>>

\* IncubationTracker.begin: a run that exists is returned as it is.
FindRun(p) ==
    /\ pc[p] = "run"
    /\ IF started[Id(p)] # None THEN SetStatus(p, "INCUBATING") ELSE Goto(p, "begin")
    /\ UNCHANGED <<rows, world, tick, bounds>>

\* The id is the primary key: a second insertion raises.
InsertRun(p) ==
    /\ pc[p] = "begin"
    /\ IF started[Id(p)] = None
       THEN started' = [started EXCEPT ![Id(p)] = day] /\ SetStatus(p, "INCUBATING")
       ELSE UNCHANGED started /\ Done(p)
    /\ UNCHANGED <<status, specOf, verified, selected, promoted, world, tick, bounds>>

\* Mutant: the days are counted from the first paper signal.
Elapsed_FirstSignal(i) == day

\* elapsed_days: never from the first signal, and zero without a run.
Elapsed(i) == IF started[i] = None THEN 0 ELSE day - started[i]

\* check_divergence and evaluate_promotion: enough days, and the gates on trades,
\* profit factor, drawdown and correlation, which may hold or not.
EvaluatePromotion(p) ==
    /\ p \in Operators /\ pc[p] = "idle" /\ Called
    /\ \E i \in Ids :
        /\ status[i] # "absent" /\ Elapsed(i) >= MinDays
        /\ TakeUp(p, i, "approve")
    /\ UNCHANGED <<rows, world, tick>>

\* PromotionGate.promote with an approver and an eligible decision: anything but
\* an incubating strategy is refused.
Approve(p) ==
    /\ pc[p] = "approve"
    /\ IF status[Id(p)] = "INCUBATING" THEN Goto(p, "promote") ELSE Done(p)
    /\ UNCHANGED <<rows, world, tick, bounds>>

InsertPromotion(p) ==
    /\ pc[p] = "promote"
    /\ promoted' = promoted \cup {Id(p)}
    /\ SetStatus(p, "LIVE")
    /\ UNCHANGED <<status, specOf, verified, selected, started, world, tick, bounds>>

-----------------------------------------------------------------------------
(* The runtime: baselines at the start of a tick, supervision at its end.  *)

Live == {i \in Ids : status[i] = "LIVE"}

\* _tick: the returns and the baseline of every live strategy.
Watch ==
    /\ pc[Monitor] = "idle"
    /\ watched' = Live
    /\ Goto(Monitor, "list")
    /\ UNCHANGED <<rows, world, todo, bounds>>

\* _supervise_all: a live strategy without a baseline is passed over.
ListLive ==
    /\ pc[Monitor] = "list"
    /\ todo' = Live \cap watched
    /\ Goto(Monitor, "supervise")
    /\ UNCHANGED <<rows, world, watched, bounds>>

\* Mutant: the mildest action wins.
Worst_Mildest(demanded) ==
    IF "ALERT" \in demanded \/ demanded = {} THEN "ALERT"
    ELSE IF "SUSPEND" \in demanded THEN "SUSPEND" ELSE "RETIRE"

\* Severity order, not a vote. An alert, and no demand at all, write no status.
Worst(demanded) ==
    IF "RETIRE" \in demanded THEN "RETIRE"
    ELSE IF "SUSPEND" \in demanded THEN "SUSPEND" ELSE "ALERT"

\* Mutant: the action is written for the status.
Outcome_Action(action) == action

\* The status an action leads to.
Outcome(action) == IF action = "RETIRE" THEN "RETIRED" ELSE "SUSPENDED"

Supervise ==
    /\ pc[Monitor] = "supervise"
    /\ \E i \in todo :
        /\ todo' = todo \ {i}
        /\ IF status[i] # "RETIRED" /\ Worst(fired[i]) # "ALERT"
           THEN /\ pc' = [pc EXCEPT ![Monitor] = "check"]
                /\ job' = [job EXCEPT ![Monitor] =
                              [id |-> i, spec |-> None, want |-> Outcome(Worst(fired[i]))]]
           ELSE UNCHANGED <<pc, job>>
    /\ UNCHANGED <<rows, world, watched, bounds>>

SuperviseDone ==
    /\ pc[Monitor] = "supervise" /\ todo = {}
    /\ watched' = {}
    /\ Goto(Monitor, "idle")
    /\ UNCHANGED <<rows, world, todo, bounds>>

-----------------------------------------------------------------------------
(* The rest of the world.                                                  *)

\* A trade of a live strategy closes, and the rules that fire on it change.
TradeCloses ==
    /\ \E i \in Live : \E demanded \in SUBSET Actions :
        fired' = [fired EXCEPT ![i] = demanded]
    /\ UNCHANGED <<rows, day, pc, job, tick, bounds>>

DayPasses ==
    /\ day < MaxDay /\ day' = day + 1
    /\ UNCHANGED <<rows, fired, pc, job, tick, bounds>>

Crash(p) ==
    /\ pc[p] # "idle" /\ crashes < MaxCrashes
    /\ crashes' = crashes + 1
    /\ Stop(p)
    /\ UNCHANGED <<rows, world, calls>>

Research(p) == Propose(p) \/ FindSpec(p) \/ Register(p) \/ Judge(p) \/ Select(p)

Operate(p) ==
    \/ BeginIncubation(p) \/ FindRun(p) \/ InsertRun(p)
    \/ EvaluatePromotion(p) \/ Approve(p) \/ InsertPromotion(p)

Write(p) == CheckStatus(p) \/ WriteStatus(p)

Runtime == Watch \/ ListLive \/ Supervise \/ SuperviseDone \/ Write(Monitor)

Next ==
    \/ \E p \in Procs : Research(p) \/ Operate(p) \/ Write(p) \/ Crash(p)
    \/ Watch \/ ListLive \/ Supervise \/ SuperviseDone
    \/ TradeCloses \/ DayPasses

Spec == Init /\ [][Next]_vars

\* The scheduler repeats the tick; nobody has to propose, incubate or promote.
FairSpec == Spec /\ WF_vars(Runtime)

-----------------------------------------------------------------------------
(* What the code must keep true.                                           *)

\* AI-05 and PROM-01: each status stands on the evidence that leads to it. A
\* strategy that trades, or ever did, passed verification and selection, was
\* incubated, and has a promotion with a name on it, whoever wrote meanwhile.
Backed(i, st) ==
    /\ st \in {"VERIFIED", "INCUBATING", "LIVE", "SUSPENDED", "RETIRED"} =>
        i \in verified /\ i \in selected
    /\ st \in {"INCUBATING", "LIVE", "SUSPENDED", "RETIRED"} => started[i] # None
    /\ st \in {"LIVE", "SUSPENDED", "RETIRED"} => i \in promoted

EvidenceChain == \A i \in Ids : Backed(i, status[i])

\* INC-01: whatever was promoted had been observed for the days it takes, counted
\* from a start that no later call, crash or second process moves.
ObservedBeforePromotion == \A i \in promoted : started[i] # None /\ day >= started[i] + MinDays

\* "Identical rules are the same strategy": one row for one specification, as
\* long as a single batch runs.
OneRowPerSpec ==
    \A i, j \in Ids : specOf[i] # None /\ specOf[i] = specOf[j] => i = j

\* MON-07: a strategy on which a retirement rule keeps firing does not stay live.
FailingStrategyStops ==
    \A i \in Ids : <>[]("RETIRE" \in fired[i]) => []<>(status[i] # "LIVE")
=============================================================================
