--------------------------- MODULE LifecycleProofs ---------------------------
(***************************************************************************)
(* Theorems about Lifecycle, for any number of strategies, batches,        *)
(* operators, calls, crashes and days.                                     *)
(***************************************************************************)
EXTENDS Lifecycle, TLAPS

-----------------------------------------------------------------------------
(* Types                                                                   *)

\* What the steps that only change pc and job must keep: the part of TypeOK on them.
Assigned ==
    /\ pc \in [Procs -> Pcs]
    /\ job \in [Procs -> Job]
    /\ \A p \in Procs :
        /\ pc[p] \in Working => job[p].id \in Ids
        /\ pc[p] \in {"find", "insert"} => job[p].spec \in Specs
        /\ pc[p] \in {"check", "write"} => job[p].want \in Statuses

\* The rest of it.
Stored ==
    /\ status \in [Ids -> Statuses \cup {"absent"}]
    /\ specOf \in [Ids -> Specs \cup {None}]
    /\ verified \subseteq Ids /\ selected \subseteq Ids /\ promoted \subseteq Ids
    /\ started \in [Ids -> Nat \cup {None}]
    /\ fired \in [Ids -> SUBSET Actions]
    /\ day \in Nat
    /\ watched \subseteq Ids /\ todo \subseteq Ids
    /\ calls \in Nat /\ crashes \in Nat

LEMMA TypeParts == TypeOK <=> Assigned /\ Stored
BY DEF TypeOK, Assigned, Stored

\* A process that ends, or goes on to a step with fewer needs, keeps the types.
LEMMA DoneAssigned ==
    ASSUME Assigned, NEW p \in Procs, Done(p)
    PROVE  Assigned'
BY DEF Assigned, Done, NoJob, Job, Pcs, Working, Statuses

LEMMA InitTyped == Init => TypeOK
BY LifecycleAssumption DEF Init, TypeOK, NoJob, Job, Pcs, Working, Statuses, Actions

\* Every step writes a row, a date or a bound of the right kind.
LEMMA NextStored == TypeOK /\ [Next]_vars => Stored'
<1> SUFFICES ASSUME TypeOK, [Next]_vars PROVE Stored'
  OBVIOUS
<1> USE DEF TypeOK, Stored
<1>1. ASSUME NEW p \in Procs, Research(p) PROVE Stored'
  BY <1>1 DEF Research, Propose, FindSpec, Register, Judge, Select, Called, TakeUp, Goto,
    Done, SetStatus, Id, Working, Statuses, rows, evidence, world, tick, bounds
<1>2. ASSUME NEW p \in Procs, Operate(p) PROVE Stored'
  BY <1>2 DEF Operate, BeginIncubation, FindRun, InsertRun, EvaluatePromotion, Approve,
    InsertPromotion, Called, TakeUp, Goto, Done, SetStatus, Id, Working, rows, evidence,
    world, tick, bounds
<1>3. ASSUME NEW p \in Procs, Write(p) PROVE Stored'
  BY <1>3 DEF Write, CheckStatus, WriteStatus, Stop, Goto, Id, Working, rows, evidence,
    world, tick, bounds
<1>4. ASSUME NEW p \in Procs, Crash(p) PROVE Stored'
  BY <1>4 DEF Crash, Stop, rows, evidence, world, tick
<1>5. ASSUME Watch \/ ListLive \/ Supervise \/ SuperviseDone PROVE Stored'
  BY <1>5 DEF Watch, ListLive, Supervise, SuperviseDone, Live, Goto, rows, evidence, world,
    bounds
<1>6. ASSUME TradeCloses \/ DayPasses PROVE Stored'
  BY <1>6 DEF TradeCloses, DayPasses, Live, rows, evidence, tick, bounds
<1>7. CASE UNCHANGED vars
  BY <1>7 DEF vars, rows, evidence, world, tick, bounds
<1>8. QED
  BY <1>1, <1>2, <1>3, <1>4, <1>5, <1>6, <1>7 DEF Next

\* Every step leaves each process with what its next step needs.
LEMMA NextAssigned == TypeOK /\ [Next]_vars => Assigned'
<1> SUFFICES ASSUME TypeOK, [Next]_vars PROVE Assigned'
  OBVIOUS
<1>a. Assigned /\ Monitor \in Procs /\ Researchers \subseteq Procs
  BY TypeParts DEF Procs
<1> USE <1>a DEF Assigned, Job, Pcs, Working
<1>1. ASSUME NEW p \in Procs, Research(p) PROVE Assigned'
  <2>1. CASE Propose(p)
    BY <2>1 DEF Propose
  <2>2. CASE FindSpec(p)
    BY <2>2 DEF FindSpec, TakeUp, Goto, Registered
  <2>3. CASE Register(p)
    BY <2>3 DEF Register, TakeUp
  <2>4. CASE Judge(p)
    BY <2>4, DoneAssigned DEF Judge, Goto
  <2>5. CASE Select(p)
    BY <2>5 DEF Select, SetStatus, Statuses
  <2> QED
    BY <1>1, <2>1, <2>2, <2>3, <2>4, <2>5 DEF Research
<1>2. ASSUME NEW p \in Procs, Operate(p) PROVE Assigned'
  <2>1. CASE BeginIncubation(p)
    BY <2>1 DEF BeginIncubation, TakeUp
  <2>2. CASE FindRun(p)
    BY <2>2 DEF FindRun, SetStatus, Goto, Statuses
  <2>3. CASE InsertRun(p)
    BY <2>3, DoneAssigned DEF InsertRun, SetStatus, Statuses
  <2>4. CASE EvaluatePromotion(p)
    BY <2>4 DEF EvaluatePromotion, TakeUp
  <2>5. CASE Approve(p)
    BY <2>5, DoneAssigned DEF Approve, Goto
  <2>6. CASE InsertPromotion(p)
    BY <2>6 DEF InsertPromotion, SetStatus, Statuses
  <2> QED
    BY <1>2, <2>1, <2>2, <2>3, <2>4, <2>5, <2>6 DEF Operate
<1>3. ASSUME NEW p \in Procs, Write(p) PROVE Assigned'
  <2>1. CASE CheckStatus(p)
    BY <2>1, DoneAssigned DEF CheckStatus, Stop, Goto
  <2>2. CASE WriteStatus(p)
    <3>1. NoJob \in Job
      BY DEF NoJob, Statuses
    <3>2. pc' = [pc EXCEPT ![p] = IF p = Monitor THEN "supervise" ELSE "idle"]
          /\ job' = [job EXCEPT ![p] = NoJob]
      BY <2>2 DEF WriteStatus
    <3> QED
      BY <3>1, <3>2
  <2> QED
    BY <1>3, <2>1, <2>2 DEF Write
<1>4. ASSUME NEW p \in Procs, Crash(p) PROVE Assigned'
  BY <1>4, DoneAssigned DEF Crash, Stop
<1>5. CASE Watch \/ ListLive \/ SuperviseDone
  BY <1>5 DEF Watch, ListLive, SuperviseDone, Goto
<1>6. CASE Supervise
  <2>1. CASE UNCHANGED <<pc, job>>
    BY <2>1
  <2>2. ASSUME NEW i \in todo, NEW want \in {"RETIRED", "SUSPENDED"},
               pc' = [pc EXCEPT ![Monitor] = "check"],
               job' = [job EXCEPT ![Monitor] = [id |-> i, spec |-> None, want |-> want]]
        PROVE  Assigned'
    <3>1. i \in Ids /\ want \in Statuses
      BY DEF TypeOK, Statuses
    <3>2. [id |-> i, spec |-> None, want |-> want] \in Job
      BY <3>1
    <3>3. ASSUME NEW p \in Procs \ {Monitor} PROVE pc'[p] = pc[p] /\ job'[p] = job[p]
      BY <2>2
    <3>4. pc'[Monitor] = "check" /\ job'[Monitor].id \in Ids /\ job'[Monitor].want \in Statuses
      BY <2>2, <3>1
    <3>5. pc' \in [Procs -> Pcs] /\ job' \in [Procs -> Job]
      BY <2>2, <3>2
    <3> QED
      BY <3>3, <3>4, <3>5
  <2> QED
    BY <1>6, <2>1, <2>2 DEF Supervise, Outcome
<1>7. CASE TradeCloses \/ DayPasses \/ UNCHANGED vars
  BY <1>7 DEF TradeCloses, DayPasses, vars
<1>8. QED
  BY <1>1, <1>2, <1>3, <1>4, <1>5, <1>6, <1>7 DEF Next

LEMMA TypeStep == TypeOK /\ [Next]_vars => TypeOK'
BY NextStored, NextAssigned, TypeParts, PTL

LEMMA TypeAlways == Spec => []TypeOK
BY InitTyped, TypeStep, PTL DEF Spec

\* TypeOK: a step always finds the strategy, specification and status it works with,
\* whatever interrupts whom.
THEOREM LifecycleTypeCorrect == Spec => []TypeOK
BY TypeAlways

-----------------------------------------------------------------------------
(* Evidence                                                                *)

\* No step takes evidence back, or moves a start.
Grows ==
    /\ verified \subseteq verified' /\ selected \subseteq selected' /\ promoted \subseteq promoted'
    /\ \A i \in Ids : started[i] # None => started'[i] = started[i]
    /\ \A i \in Ids : started[i] = None => started'[i] \in {None, day}
    /\ day' \in Nat /\ day' >= day

LEMMA EvidenceGrows == TypeOK /\ [Next]_vars => Grows
<1> SUFFICES ASSUME TypeOK, [Next]_vars PROVE Grows
  OBVIOUS
<1> USE DEF TypeOK, Grows
<1>1. ASSUME NEW p \in Procs, Research(p) PROVE Grows
  BY <1>1 DEF Research, Propose, FindSpec, Register, Judge, Select, rows, evidence, world
<1>2. ASSUME NEW p \in Procs, Operate(p) PROVE Grows
  BY <1>2 DEF Operate, BeginIncubation, FindRun, InsertRun, EvaluatePromotion, Approve,
    InsertPromotion, rows, evidence, world
<1>3. ASSUME NEW p \in Procs, Write(p) \/ Crash(p) PROVE Grows
  BY <1>3 DEF Write, CheckStatus, WriteStatus, Crash, rows, evidence, world
<1>4. CASE Watch \/ ListLive \/ Supervise \/ SuperviseDone
  BY <1>4 DEF Watch, ListLive, Supervise, SuperviseDone, rows, evidence, world
<1>5. CASE TradeCloses \/ DayPasses \/ UNCHANGED vars
  BY <1>5 DEF TradeCloses, DayPasses, vars, rows, evidence, world
<1>6. QED
  BY <1>1, <1>2, <1>3, <1>4, <1>5 DEF Next

\* What has been shown of a strategy stays shown.
LEMMA BackedStays ==
    ASSUME Grows, NEW i \in Ids, NEW st, Backed(i, st)
    PROVE  Backed(i, st)'
BY DEF Grows, Backed

LEMMA ElapsedStays ==
    ASSUME TypeOK, Grows, NEW i \in Ids, Elapsed(i) >= MinDays
    PROVE  (Elapsed(i) >= MinDays)'
BY LifecycleAssumption DEF TypeOK, Grows, Elapsed

\* What a process in the middle of a call may rely on.
Holding(p) ==
    /\ pc[p] = "select" => Id(p) \in verified
    /\ pc[p] \in {"run", "begin"} => Backed(Id(p), "VERIFIED")
    /\ pc[p] \in {"approve", "promote"} => Elapsed(Id(p)) >= MinDays
    /\ pc[p] = "promote" => Backed(Id(p), "INCUBATING")
    /\ pc[p] \in {"check", "write"} => Backed(Id(p), job[p].want)

LEMMA HoldingStays ==
    ASSUME TypeOK, Grows, NEW p \in Procs, Holding(p), pc'[p] = pc[p], job'[p] = job[p]
    PROVE  Holding(p)'
<1>1. Id(p)' = Id(p)
  BY DEF Id
<1>2. pc[p] \in Working => Id(p) \in Ids
  BY DEF TypeOK, Id
<1> QED
  BY <1>1, <1>2, BackedStays, ElapsedStays DEF Holding, Working, Grows

WatchInv == \A i \in watched \cup todo : Backed(i, "LIVE")

EvidenceInv ==
    /\ TypeOK
    /\ \A p \in Procs : Holding(p)
    /\ WatchInv
    /\ EvidenceChain
    /\ ObservedBeforePromotion

LEMMA EvidenceInit == Init => EvidenceInv
BY InitTyped, LifecycleAssumption
DEF Init, EvidenceInv, Holding, WatchInv, EvidenceChain, ObservedBeforePromotion, Backed

\* A step by p alone leaves what the others rely on.
LEMMA OthersHold ==
    ASSUME TypeOK, Grows, \A q \in Procs : Holding(q), NEW p \in Procs,
           \A q \in Procs \ {p} : pc'[q] = pc[q] /\ job'[q] = job[q], Holding(p)'
    PROVE  \A q \in Procs : Holding(q)'
BY HoldingStays

\* set_status is called for the strategy the process has been working on.
LEMMA SetStatusSameId ==
    ASSUME TypeOK, NEW p \in Procs, NEW want, SetStatus(p, want)
    PROVE  Id(p)' = Id(p)
BY DEF TypeOK, SetStatus, Id, Job

LEMMA HoldingStep == EvidenceInv /\ [Next]_vars => \A q \in Procs : Holding(q)'
<1> SUFFICES ASSUME EvidenceInv, [Next]_vars PROVE \A q \in Procs : Holding(q)'
  OBVIOUS
<1>a. TypeOK /\ Grows /\ (\A q \in Procs : Holding(q)) /\ WatchInv
  BY EvidenceGrows DEF EvidenceInv
<1>b. pc \in [Procs -> Pcs] /\ job \in [Procs -> Job]
      /\ \A q \in Procs : pc[q] \in Working => Id(q) \in Ids
  BY <1>a DEF TypeOK, Id
<1>c. ASSUME NEW p \in Procs, Done(p) PROVE \A q \in Procs : Holding(q)'
  <2>1. Holding(p)'
    BY <1>b, <1>c DEF Done, Holding
  <2> QED
    BY <1>a, <1>b, <1>c, <2>1, OthersHold DEF Done
<1>d. ASSUME NEW p \in Procs, NEW want \in Statuses, SetStatus(p, want),
             Backed(Id(p), want)', pc[p] \in Working
      PROVE  \A q \in Procs : Holding(q)'
  <2>1. Id(p)' = Id(p) /\ job'[p].want = want /\ pc'[p] = "check"
    BY <1>b, <1>d DEF SetStatus, Id, Job
  <2>2. Holding(p)'
    BY <1>d, <2>1 DEF Holding
  <2> QED
    BY <1>a, <1>b, <1>d, <2>2, OthersHold DEF SetStatus
<1>1. ASSUME NEW p \in Procs, Research(p) PROVE \A q \in Procs : Holding(q)'
  <2>1. CASE Propose(p) \/ FindSpec(p) \/ Register(p)
    <3>1. Holding(p)'
      BY <1>b, <2>1 DEF Propose, FindSpec, Register, TakeUp, Goto, Holding
    <3> QED
      BY <1>a, <1>b, <2>1, <3>1, OthersHold DEF Propose, FindSpec, Register, TakeUp, Goto
  <2>2. CASE Judge(p) /\ ~Done(p)
    <3>1. Holding(p)'
      BY <1>b, <2>2 DEF Judge, Goto, Holding, Id
    <3> QED
      BY <1>a, <1>b, <2>2, <3>1, OthersHold DEF Judge, Goto
  <2>3. CASE Select(p)
    <3>1. pc[p] = "select" /\ Id(p) \in verified
      BY <1>a, <2>3 DEF Select, Holding
    <3>2. CASE SetStatus(p, "VERIFIED") /\ selected' = selected \cup {Id(p)}
      <4>1. Id(p)' = Id(p)
        BY <1>a, <3>2, SetStatusSameId
      <4>2. Backed(Id(p), "VERIFIED")'
        BY <2>3, <3>1, <3>2, <4>1 DEF Select, Backed
      <4> QED
        BY <1>d, <3>1, <3>2, <4>2 DEF Statuses, Working
    <3>3. CASE SetStatus(p, "REJECTED")
      BY <1>d, <3>1, <3>3 DEF Backed, Statuses, Working
    <3> QED
      BY <2>3, <3>2, <3>3 DEF Select
  <2> QED
    BY <1>1, <1>c, <2>1, <2>2, <2>3 DEF Research
<1>2. ASSUME NEW p \in Procs, Operate(p) PROVE \A q \in Procs : Holding(q)'
  <2>1. CASE BeginIncubation(p)
    <3>1. PICK i \in Ids : status[i] = "VERIFIED" /\ TakeUp(p, i, "run")
      BY <2>1 DEF BeginIncubation, Incubatable
    <3>2. Backed(i, "VERIFIED")'
      BY <1>a, <3>1, BackedStays DEF EvidenceInv, EvidenceChain
    <3>3. Id(p)' = i /\ pc'[p] = "run"
      BY <1>b, <3>1 DEF TakeUp, Id, Job
    <3>4. Holding(p)'
      BY <3>2, <3>3 DEF Holding
    <3> QED
      BY <1>a, <1>b, <3>1, <3>4, OthersHold DEF TakeUp
  <2>2. CASE FindRun(p)
    <3>1. pc[p] = "run" /\ Backed(Id(p), "VERIFIED") /\ Id(p) \in Ids
      BY <1>a, <1>b, <2>2 DEF FindRun, Holding, Working
    <3>2. CASE started[Id(p)] # None
      <4>1. Backed(Id(p), "INCUBATING")'
        BY <1>a, <2>2, <3>1, <3>2, SetStatusSameId DEF FindRun, Backed, Grows
      <4> QED
        BY <1>d, <2>2, <3>1, <3>2, <4>1 DEF FindRun, Statuses, Working
    <3>3. CASE started[Id(p)] = None
      <4>1. Id(p)' = Id(p) /\ pc'[p] = "begin"
        BY <1>b, <2>2, <3>3 DEF FindRun, Goto, Id
      <4>2. Holding(p)'
        BY <1>a, <3>1, <4>1, BackedStays DEF Holding
      <4> QED
        BY <1>a, <1>b, <2>2, <3>3, <4>2, OthersHold DEF FindRun, Goto
    <3> QED
      BY <3>2, <3>3
  <2>3. CASE InsertRun(p) /\ ~Done(p)
    <3>1. pc[p] = "begin" /\ Backed(Id(p), "VERIFIED") /\ Id(p) \in Ids
      BY <1>a, <1>b, <2>3 DEF InsertRun, Holding, Working
    <3>2. started' = [started EXCEPT ![Id(p)] = day] /\ SetStatus(p, "INCUBATING")
      BY <2>3 DEF InsertRun
    <3>3. started'[Id(p)] # None
      BY <1>a, <3>1, <3>2, LifecycleAssumption DEF TypeOK
    <3>4. Backed(Id(p), "INCUBATING")'
      BY <1>a, <3>1, <3>2, <3>3, SetStatusSameId DEF Backed, Grows
    <3> QED
      BY <1>d, <3>1, <3>2, <3>4 DEF Statuses, Working
  <2>4. CASE EvaluatePromotion(p)
    <3>1. PICK i \in Ids : Elapsed(i) >= MinDays /\ TakeUp(p, i, "approve")
      BY <2>4 DEF EvaluatePromotion
    <3>2. Id(p)' = i /\ pc'[p] = "approve"
      BY <1>b, <3>1 DEF TakeUp, Id, Job
    <3>3. Holding(p)'
      BY <1>a, <3>1, <3>2, ElapsedStays DEF Holding
    <3> QED
      BY <1>a, <1>b, <3>1, <3>3, OthersHold DEF TakeUp
  <2>5. CASE Approve(p) /\ ~Done(p)
    <3>1. pc[p] = "approve" /\ Id(p) \in Ids /\ status[Id(p)] = "INCUBATING"
          /\ Goto(p, "promote")
      BY <1>b, <2>5 DEF Approve, Working
    <3>2. Backed(Id(p), "INCUBATING")' /\ (Elapsed(Id(p)) >= MinDays)'
      BY <1>a, <1>b, <3>1, BackedStays, ElapsedStays
      DEF Holding, EvidenceInv, EvidenceChain, Goto, Id
    <3>3. Holding(p)'
      BY <1>b, <3>1, <3>2 DEF Holding, Goto
    <3> QED
      BY <1>a, <1>b, <3>1, <3>3, OthersHold DEF Goto
  <2>6. CASE InsertPromotion(p)
    <3>1. pc[p] = "promote" /\ Backed(Id(p), "INCUBATING") /\ Id(p) \in Ids
      BY <1>a, <1>b, <2>6 DEF InsertPromotion, Holding, Working
    <3>2. Backed(Id(p), "LIVE")'
      BY <1>a, <2>6, <3>1, SetStatusSameId DEF InsertPromotion, Backed, Grows
    <3> QED
      BY <1>d, <2>6, <3>1, <3>2 DEF InsertPromotion, Statuses, Working
  <2> QED
    BY <1>2, <1>c, <2>1, <2>2, <2>3, <2>4, <2>5, <2>6 DEF Operate
<1>3. ASSUME NEW p \in Procs, Write(p) \/ Crash(p) PROVE \A q \in Procs : Holding(q)'
  <2>1. CASE CheckStatus(p) /\ ~Done(p)
    <3>1. Goto(p, "write") /\ pc[p] = "check" /\ Id(p) \in Ids
      BY <1>b, <2>1 DEF CheckStatus, Stop, Working
    <3>2. Id(p)' = Id(p) /\ job' = job /\ pc'[p] = "write"
      BY <1>b, <3>1 DEF Goto, Id
    <3>3. Holding(p)'
      BY <1>a, <3>1, <3>2, BackedStays DEF Holding
    <3> QED
      BY <1>a, <1>b, <3>1, <3>3, OthersHold DEF Goto
  <2>2. CASE WriteStatus(p)
    <3>1. Holding(p)'
      BY <1>b, <2>2 DEF WriteStatus, Holding
    <3> QED
      BY <1>a, <1>b, <2>2, <3>1, OthersHold DEF WriteStatus
  <2> QED
    BY <1>3, <1>c, <2>1, <2>2 DEF Write, Crash, CheckStatus, Stop
<1>4. CASE Watch \/ ListLive \/ SuperviseDone
  <2>1. Monitor \in Procs
    BY DEF Procs
  <2>2. Holding(Monitor)'
    BY <1>b, <1>4, <2>1 DEF Watch, ListLive, SuperviseDone, Goto, Holding
  <2> QED
    BY <1>a, <1>b, <1>4, <2>1, <2>2, OthersHold DEF Watch, ListLive, SuperviseDone, Goto
<1>5. CASE Supervise
  <2>1. Monitor \in Procs
    BY DEF Procs
  <2>2. CASE UNCHANGED <<pc, job>>
    BY <1>a, <2>2, HoldingStays
  <2>3. ASSUME NEW i \in todo, NEW want \in {"RETIRED", "SUSPENDED"},
               pc' = [pc EXCEPT ![Monitor] = "check"],
               job' = [job EXCEPT ![Monitor] = [id |-> i, spec |-> None, want |-> want]]
        PROVE  \A q \in Procs : Holding(q)'
    <3>1. Backed(i, want)'
      <4>1. i \in Ids /\ Backed(i, "LIVE")
        BY <1>a DEF WatchInv, TypeOK
      <4>2. Backed(i, want)
        BY <4>1 DEF Backed
      <4> QED
        BY <1>a, <4>1, <4>2, BackedStays
    <3>2. Id(Monitor)' = i /\ job'[Monitor].want = want /\ pc'[Monitor] = "check"
      BY <1>b, <2>1, <2>3 DEF Id
    <3>3. Holding(Monitor)'
      BY <3>1, <3>2 DEF Holding
    <3> QED
      BY <1>a, <1>b, <2>1, <2>3, <3>3, OthersHold
  <2> QED
    BY <1>5, <2>2, <2>3 DEF Supervise, Outcome
<1>6. CASE TradeCloses \/ DayPasses \/ UNCHANGED vars
  BY <1>a, <1>6, HoldingStays DEF TradeCloses, DayPasses, vars
<1>7. QED
  BY <1>1, <1>2, <1>3, <1>4, <1>5, <1>6 DEF Next

\* A tick watches and supervises what was live when it looked.
LEMMA WatchStep == EvidenceInv /\ [Next]_vars => WatchInv'
<1> SUFFICES ASSUME EvidenceInv, [Next]_vars PROVE WatchInv'
  OBVIOUS
<1>a. TypeOK /\ Grows /\ WatchInv /\ EvidenceChain
  BY EvidenceGrows DEF EvidenceInv
<1>1. CASE Watch \/ ListLive
  <2>1. watched' \cup todo' \subseteq Live \cup watched \cup todo
    BY <1>1 DEF Watch, ListLive
  <2>2. \A i \in Live : i \in Ids /\ Backed(i, "LIVE")
    BY <1>a DEF Live, EvidenceChain
  <2> QED
    BY <1>a, <2>1, <2>2, BackedStays DEF WatchInv, TypeOK
<1>2. ASSUME watched' \subseteq watched, todo' \subseteq todo PROVE WatchInv'
  BY <1>a, <1>2, BackedStays DEF WatchInv, TypeOK
<1>3. ASSUME NEW p \in Procs, Research(p) \/ Operate(p) PROVE WatchInv'
  BY <1>2, <1>3 DEF Research, Operate, Propose, FindSpec, Register, Judge, Select,
    BeginIncubation, FindRun, InsertRun, EvaluatePromotion, Approve, InsertPromotion, tick
<1>4. ASSUME NEW p \in Procs, Write(p) \/ Crash(p) PROVE WatchInv'
  BY <1>2, <1>4 DEF Write, CheckStatus, WriteStatus, Crash, Stop, tick
<1>5. CASE Supervise \/ SuperviseDone \/ TradeCloses \/ DayPasses \/ UNCHANGED vars
  BY <1>2, <1>5 DEF Supervise, SuperviseDone, TradeCloses, DayPasses, vars, tick
<1>6. QED
  BY <1>1, <1>3, <1>4, <1>5 DEF Next

\* The two steps that write a status: a registration and the end of set_status.
LEMMA ChainStep == EvidenceInv /\ [Next]_vars => EvidenceChain'
<1> SUFFICES ASSUME EvidenceInv, [Next]_vars PROVE EvidenceChain'
  OBVIOUS
<1>a. TypeOK /\ Grows /\ EvidenceChain /\ (\A q \in Procs : Holding(q))
  BY EvidenceGrows DEF EvidenceInv
<1>1. ASSUME status' = status PROVE EvidenceChain'
  BY <1>1, <1>a, BackedStays DEF EvidenceChain
<1>2. ASSUME NEW i \in Ids, NEW st, status' = [status EXCEPT ![i] = st], Backed(i, st)
      PROVE  EvidenceChain'
  <2>1. status'[i] = st /\ \A j \in Ids \ {i} : status'[j] = status[j]
    BY <1>a, <1>2 DEF TypeOK
  <2>2. \A j \in Ids : Backed(j, status'[j])
    BY <1>a, <1>2, <2>1 DEF EvidenceChain
  <2> QED
    BY <1>a, <2>2, BackedStays DEF EvidenceChain
<1>3. ASSUME NEW p \in Procs, Register(p) PROVE EvidenceChain'
  <2>1. \A i \in Ids : Backed(i, "CANDIDATE")
    BY DEF Backed
  <2> QED
    BY <1>2, <1>3, <2>1 DEF Register
<1>4. ASSUME NEW p \in Procs, WriteStatus(p) PROVE EvidenceChain'
  <2>1. Id(p) \in Ids /\ Backed(Id(p), job[p].want)
    BY <1>a, <1>4 DEF WriteStatus, TypeOK, Holding, Working, Id
  <2> QED
    BY <1>2, <1>4, <2>1 DEF WriteStatus
<1>5. ASSUME NEW p \in Procs, Research(p) \/ Operate(p) PROVE EvidenceChain'
  BY <1>1, <1>3, <1>5 DEF Research, Operate, Propose, FindSpec, Judge, Select,
    BeginIncubation, FindRun, InsertRun, EvaluatePromotion, Approve, InsertPromotion, rows
<1>6. ASSUME NEW p \in Procs, Write(p) \/ Crash(p) PROVE EvidenceChain'
  BY <1>1, <1>4, <1>6 DEF Write, CheckStatus, Crash, rows
<1>7. CASE Watch \/ ListLive \/ Supervise \/ SuperviseDone \/ TradeCloses \/ DayPasses
           \/ UNCHANGED vars
  BY <1>1, <1>7 DEF Watch, ListLive, Supervise, SuperviseDone, TradeCloses, DayPasses,
    vars, rows
<1>8. QED
  BY <1>5, <1>6, <1>7 DEF Next

\* The one step that records a promotion.
LEMMA ObservedStep == EvidenceInv /\ [Next]_vars => ObservedBeforePromotion'
<1> SUFFICES ASSUME EvidenceInv, [Next]_vars PROVE ObservedBeforePromotion'
  OBVIOUS
<1>a. TypeOK /\ Grows /\ ObservedBeforePromotion /\ (\A q \in Procs : Holding(q))
  BY EvidenceGrows DEF EvidenceInv
<1>b. MinDays \in Nat
  BY LifecycleAssumption
<1>1. ASSUME promoted' = promoted PROVE ObservedBeforePromotion'
  BY <1>1, <1>a, <1>b, LifecycleAssumption DEF ObservedBeforePromotion, Grows, TypeOK
<1>2. ASSUME NEW p \in Procs, InsertPromotion(p) PROVE ObservedBeforePromotion'
  <2>1. Id(p) \in Ids /\ started[Id(p)] # None /\ Elapsed(Id(p)) >= MinDays
    BY <1>a, <1>2 DEF InsertPromotion, Holding, Backed, TypeOK, Working, Id
  <2>2. started[Id(p)] \in Nat /\ day >= started[Id(p)] + MinDays
    BY <1>a, <1>b, <2>1 DEF Elapsed, TypeOK
  <2>3. day' = day /\ started' = started /\ promoted' = promoted \cup {Id(p)}
    BY <1>2 DEF InsertPromotion, world
  <2> QED
    BY <1>a, <2>1, <2>2, <2>3 DEF ObservedBeforePromotion
<1>3. ASSUME NEW p \in Procs, Research(p) \/ Operate(p) PROVE ObservedBeforePromotion'
  BY <1>1, <1>2, <1>3 DEF Research, Operate, Propose, FindSpec, Register, Judge, Select,
    BeginIncubation, FindRun, InsertRun, EvaluatePromotion, Approve, rows, evidence
<1>4. ASSUME NEW p \in Procs, Write(p) \/ Crash(p) PROVE ObservedBeforePromotion'
  BY <1>1, <1>4 DEF Write, CheckStatus, WriteStatus, Crash, rows, evidence
<1>5. CASE Watch \/ ListLive \/ Supervise \/ SuperviseDone \/ TradeCloses \/ DayPasses
           \/ UNCHANGED vars
  BY <1>1, <1>5 DEF Watch, ListLive, Supervise, SuperviseDone, TradeCloses, DayPasses,
    vars, rows, evidence
<1>6. QED
  BY <1>3, <1>4, <1>5 DEF Next

LEMMA EvidenceStep == EvidenceInv /\ [Next]_vars => EvidenceInv'
<1> SUFFICES ASSUME EvidenceInv, [Next]_vars PROVE EvidenceInv'
  OBVIOUS
<1>1. TypeOK'
  BY TypeStep DEF EvidenceInv
<1>2. QED
  BY <1>1, HoldingStep, WatchStep, ChainStep, ObservedStep DEF EvidenceInv

LEMMA EvidenceAlways == Spec => []EvidenceInv
BY EvidenceInit, EvidenceStep, PTL DEF Spec

\* EvidenceChain: each status stands on the evidence that leads to it, however the calls
\* of batches, operators and the runtime overlap and wherever they die.
THEOREM EvidenceChainAlways == Spec => []EvidenceChain
<1>1. EvidenceInv => EvidenceChain
  BY DEF EvidenceInv
<1> QED
  BY <1>1, EvidenceAlways, PTL

\* ObservedBeforePromotion: a promotion is recorded MinDays after the recorded start, or
\* later, whoever incubates or promotes again.
THEOREM ObservedBeforePromotionAlways == Spec => []ObservedBeforePromotion
<1>1. EvidenceInv => ObservedBeforePromotion
  BY DEF EvidenceInv
<1> QED
  BY <1>1, EvidenceAlways, PTL

-----------------------------------------------------------------------------
(* Identity                                                                *)

\* While one batch runs, the specification it is about to insert has no row.
RowInv ==
    /\ TypeOK
    /\ \A p \in Procs :
        /\ pc[p] \in {"find", "insert", "judge", "select"} => p \in Researchers
        /\ pc[p] = "insert" => Registered(job[p].spec) = {}
    /\ OneRowPerSpec

LEMMA RowInit == Init => RowInv
BY InitTyped DEF Init, RowInv, OneRowPerSpec

LEMMA RowStep ==
    ASSUME \A a, b \in Researchers : a = b, RowInv, [Next]_vars
    PROVE  RowInv'
<1>a. TypeOK /\ TypeOK'
  BY TypeStep DEF RowInv
<1>b. pc \in [Procs -> Pcs] /\ job \in [Procs -> Job]
  BY <1>a DEF TypeOK
<1>1. ASSUME specOf' = specOf,
             \A p \in Procs :
                \/ pc'[p] = pc[p] /\ job'[p].spec = job[p].spec
                \/ pc'[p] \notin {"find", "insert", "judge", "select"}
                \/ pc'[p] # "insert" /\ p \in Researchers
      PROVE  RowInv'
  BY <1>1, <1>a DEF RowInv, Registered, OneRowPerSpec
<1>2. ASSUME NEW p \in Procs, Propose(p) \/ Judge(p) \/ Select(p) PROVE RowInv'
  BY <1>1, <1>2, <1>b DEF RowInv, Propose, Judge, Select, Done, Goto, SetStatus, rows, Job
<1>3. ASSUME NEW p \in Procs, FindSpec(p) PROVE RowInv'
  <2>1. p \in Researchers /\ specOf' = specOf
    BY <1>3 DEF FindSpec, RowInv, rows
  <2>2. CASE Goto(p, "insert") /\ Registered(job[p].spec) = {}
    BY <1>a, <1>b, <2>1, <2>2 DEF RowInv, Goto, Registered, OneRowPerSpec
  <2>3. ASSUME NEW i \in Ids, TakeUp(p, i, "judge") PROVE RowInv'
    BY <1>1, <1>b, <2>1, <2>3 DEF RowInv, TakeUp, Job
  <2> QED
    BY <1>3, <2>2, <2>3 DEF FindSpec, Registered
<1>4. ASSUME NEW p \in Procs, Register(p) PROVE RowInv'
  <2>1. PICK i \in Ids : /\ specOf' = [specOf EXCEPT ![i] = job[p].spec]
                         /\ TakeUp(p, i, "judge")
    BY <1>4 DEF Register
  <2>2. p \in Researchers /\ Registered(job[p].spec) = {}
    BY <1>4 DEF Register, RowInv
  <2>3. \A q \in Procs \ {p} : pc'[q] = pc[q] /\ pc[q] # "insert"
    BY <1>b, <2>1, <2>2 DEF TakeUp, RowInv
  <2>4. pc'[p] = "judge"
    BY <1>b, <2>1 DEF TakeUp
  <2>5. OneRowPerSpec'
    BY <1>a, <2>1, <2>2 DEF RowInv, OneRowPerSpec, Registered, TypeOK
  <2> QED
    BY <1>a, <2>2, <2>3, <2>4, <2>5 DEF RowInv
<1>5. ASSUME NEW p \in Procs, Operate(p) PROVE RowInv'
  BY <1>1, <1>5, <1>b DEF Operate, BeginIncubation, FindRun, InsertRun, EvaluatePromotion,
    Approve, InsertPromotion, TakeUp, Goto, SetStatus, Done, rows
<1>6. ASSUME NEW p \in Procs, Write(p) \/ Crash(p) PROVE RowInv'
  BY <1>1, <1>6, <1>b DEF Write, CheckStatus, WriteStatus, Crash, Stop, Done, Goto, rows
<1>7. CASE Watch \/ ListLive \/ SuperviseDone
  BY <1>1, <1>7, <1>b DEF Watch, ListLive, SuperviseDone, Goto, rows
<1>8. CASE Supervise
  BY <1>1, <1>8, <1>b DEF Supervise, rows
<1>9. CASE TradeCloses \/ DayPasses \/ UNCHANGED vars
  BY <1>1, <1>9 DEF TradeCloses, DayPasses, vars, rows
<1>10. QED
  BY <1>2, <1>3, <1>4, <1>5, <1>6, <1>7, <1>8, <1>9 DEF Next, Research

\* OneRowPerSpec: with no two batches at once, a specification never gets a second row.
THEOREM OneRowPerSpecAlways ==
    ASSUME \A a, b \in Researchers : a = b
    PROVE  Spec => []OneRowPerSpec
<1>1. RowInv /\ [Next]_vars => RowInv'
  BY RowStep
<1>2. RowInv => OneRowPerSpec
  BY DEF RowInv
<1> QED
  BY <1>1, <1>2, RowInit, PTL DEF Spec
==============================================================================
