----------------------------- MODULE KillSwitch -----------------------------
(***************************************************************************)
(* The kill switch of killswitch.py: one value kept in a database row and  *)
(* in a file, written and read by several processes without a common lock. *)
(*                                                                         *)
(* A writer commits the row, then truncates the shared temporary file,     *)
(* writes it and renames it over the live one. A gate reads the file, then *)
(* the row, and admits only if both say DISARMED. A process may die        *)
(* between any two of these steps, and a commit may fail.                  *)
(***************************************************************************)
EXTENDS Naturals

CONSTANTS
    Procs,       \* the processes that use the switch
    Operators,   \* the command line: only it disarms and initialises
    MaxOps       \* bound: calls of arm, disarm, initialise and the gate

ASSUME SwitchAssumption == Operators \subseteq Procs /\ MaxOps \in Nat

States == {"ARMED", "DISARMED"}

\* What a store holds: nothing, a record, or content that does not parse.
Contents == States \cup {"absent", "empty", "torn"}

\* _read_file and _read_db: None unless there is a record that parses.
Readable(content) == content \in States

VARIABLES
    db,      \* the row of kill_switch_state
    file,    \* the content of the state file
    tmp,     \* the content of the file under the temporary name
    pc,      \* pc[p]: the next step of p
    op,      \* op[p]: the method p called last
    handle,  \* handle[p]: what became of the temporary file p has open
    got,     \* got[p]: what p's gate read from the file
    answer,  \* answer[p]: what p's last gate answered
    alone,   \* history: the writers nobody else has overlapped
    ops      \* bound: calls so far

stores == <<db, file, tmp>>
vars == <<db, file, tmp, pc, op, handle, got, answer, alone, ops>>

Methods == {"arm", "disarm", "initialise", "gate"}
Writing == {"commit", "open", "write", "replace"}
Pcs == {"idle", "init_file", "init_db", "read_file", "read_db"} \cup Writing

TypeOK ==
    /\ db \in States \cup {"absent"} /\ file \in Contents /\ tmp \in Contents
    /\ pc \in [Procs -> Pcs]
    /\ op \in [Procs -> Methods]
    /\ handle \in [Procs -> {"none", "tmp", "live", "gone"}]
    /\ got \in [Procs -> Contents]
    /\ answer \in [Procs -> {"none", "admitted", "refused"}]
    /\ alone \subseteq Procs
    /\ ops \in Nat

Init ==
    /\ db = "absent" /\ file = "absent" /\ tmp = "absent"
    /\ pc = [p \in Procs |-> "idle"]
    /\ op = [p \in Procs |-> "gate"]
    /\ handle = [p \in Procs |-> "none"]
    /\ got = [p \in Procs |-> "absent"]
    /\ answer = [p \in Procs |-> "none"]
    /\ alone = {} /\ ops = 0

Goto(p, label) == pc' = [pc EXCEPT ![p] = label]

\* p calls a method of the switch, whose first step is label.
Call(p, method, label) ==
    /\ pc[p] = "idle" /\ ops < MaxOps
    /\ ops' = ops + 1
    /\ op' = [op EXCEPT ![p] = method]
    /\ Goto(p, label)
    /\ answer' = [answer EXCEPT ![p] = "none"]
    /\ alone' = IF \E q \in Procs : pc[q] # "idle" THEN {} ELSE {p}
    /\ UNCHANGED <<stores, handle, got>>

CallArm(p) == Call(p, "arm", "commit")

CallDisarm(p) == p \in Operators /\ Call(p, "disarm", "commit")

CallInitialise(p) == p \in Operators /\ Call(p, "initialise", "init_file")

CallGate(p) == Call(p, "gate", "read_file")

\* Mutant: the name of the method is recorded instead of the state.
Record_OfMethod(p) == op[p]

\* The state a writing method records.
Record(p) == IF op[p] = "arm" THEN "ARMED" ELSE "DISARMED"

-----------------------------------------------------------------------------
(* initialise: look at both stores, then write as disarm does.             *)

InitReadFile(p) ==
    /\ pc[p] = "init_file"
    /\ Goto(p, IF Readable(file) THEN "idle" ELSE "init_db")
    /\ UNCHANGED <<stores, op, handle, got, answer, alone, ops>>

InitReadDb(p) ==
    /\ pc[p] = "init_db"
    /\ Goto(p, IF Readable(db) THEN "idle" ELSE "commit")
    /\ UNCHANGED <<stores, op, handle, got, answer, alone, ops>>

-----------------------------------------------------------------------------
(* _write_both                                                             *)

Commit(p) ==
    /\ pc[p] = "commit"
    /\ db' = Record(p)
    /\ Goto(p, "open")
    /\ UNCHANGED <<file, tmp, op, handle, got, answer, alone, ops>>

\* The transaction is rolled back (locked, disk full) and the call raises.
CommitFails(p) ==
    /\ pc[p] = "commit"
    /\ Goto(p, "idle")
    /\ UNCHANGED <<stores, op, handle, got, answer, alone, ops>>

\* Mutant: the temporary file is opened without truncating it.
OpenTmp_KeepsOld(p) ==
    /\ pc[p] = "open"
    /\ tmp' = IF tmp = "absent" THEN "empty" ELSE tmp
    /\ handle' = [handle EXCEPT ![p] = "tmp"]
    /\ Goto(p, "write")
    /\ UNCHANGED <<db, file, op, got, answer, alone, ops>>

\* Opening for writing truncates the file that has the name, or creates one.
OpenTmp(p) ==
    /\ pc[p] = "open"
    /\ tmp' = "empty"
    /\ handle' = [handle EXCEPT ![p] = "tmp"]
    /\ Goto(p, "write")
    /\ UNCHANGED <<db, file, op, got, answer, alone, ops>>

\* A record written over another one may leave a rest of it that does not parse.
Written(content, record) == IF content = "empty" THEN {record} ELSE {record, "torn"}

\* The bytes go to the file that was opened, whatever its name is by now.
WriteTmp(p) ==
    /\ pc[p] = "write"
    /\ tmp' \in IF handle[p] = "tmp" THEN Written(tmp, Record(p)) ELSE {tmp}
    /\ file' \in IF handle[p] = "live" THEN Written(file, Record(p)) ELSE {file}
    /\ handle' = [handle EXCEPT ![p] = "none"]
    /\ Goto(p, "replace")
    /\ UNCHANGED <<db, op, got, answer, alone, ops>>

Replace(p) ==
    /\ pc[p] = "replace" /\ tmp # "absent"
    /\ file' = tmp /\ tmp' = "absent"
    /\ handle' = [q \in Procs |->
                    CASE handle[q] = "tmp" -> "live"
                      [] handle[q] = "live" -> "gone"
                      [] OTHER -> handle[q]]
    /\ Goto(p, "idle")
    /\ UNCHANGED <<db, op, got, answer, alone, ops>>

\* Another writer has taken the temporary file away: the call raises.
ReplaceFails(p) ==
    /\ pc[p] = "replace" /\ tmp = "absent"
    /\ Goto(p, "idle")
    /\ UNCHANGED <<stores, op, handle, got, answer, alone, ops>>

-----------------------------------------------------------------------------
(* read_state, as check_can_enter and is_armed call it.                    *)

\* A file that cannot be read counts as one that holds no record.
ReadFile(p) ==
    /\ pc[p] = "read_file"
    /\ \E seen \in {file, "absent"} : got' = [got EXCEPT ![p] = seen]
    /\ Goto(p, "read_db")
    /\ UNCHANGED <<stores, op, handle, answer, alone, ops>>

\* Mutant: the file alone decides.
Effective_FileOnly(fileRecord, dbRecord) ==
    IF Readable(fileRecord) THEN fileRecord ELSE "ARMED"

\* The effective state: DISARMED only if both stores hold just that.
Effective(fileRecord, dbRecord) ==
    IF Readable(fileRecord) /\ Readable(dbRecord) /\ fileRecord = dbRecord
    THEN dbRecord ELSE "ARMED"

ReadDb(p) ==
    /\ pc[p] = "read_db"
    /\ \E seen \in {db, "absent"} :
        answer' = [answer EXCEPT ![p] =
            IF Effective(got[p], seen) = "DISARMED" THEN "admitted" ELSE "refused"]
    /\ Goto(p, "idle")
    /\ UNCHANGED <<stores, op, handle, got, alone, ops>>

-----------------------------------------------------------------------------

\* The process dies; the files it has open are closed.
Crash(p) ==
    /\ pc[p] # "idle"
    /\ Goto(p, "idle")
    /\ handle' = [handle EXCEPT ![p] = "none"]
    /\ answer' = [answer EXCEPT ![p] = "none"]
    /\ UNCHANGED <<stores, op, got, alone, ops>>

Step(p) ==
    \/ InitReadFile(p) \/ InitReadDb(p)
    \/ Commit(p) \/ CommitFails(p) \/ OpenTmp(p) \/ WriteTmp(p)
    \/ Replace(p) \/ ReplaceFails(p)
    \/ ReadFile(p) \/ ReadDb(p)

Next ==
    \E p \in Procs :
        \/ CallArm(p) \/ CallDisarm(p) \/ CallInitialise(p) \/ CallGate(p)
        \/ Step(p) \/ Crash(p)

Spec == Init /\ [][Next]_vars

-----------------------------------------------------------------------------
(* What the code must keep true.                                           *)

\* The commit of the row is the instant at which arming and releasing take
\* effect: a gate that asks after an arm committed, and before a release did,
\* refuses, whatever the file says by then and whoever dies halfway.
Switch == INSTANCE AbstractSwitch WITH released <- (db = "DISARMED")

ImplementsSwitch == Switch!Spec

\* A call that nobody overlapped leaves both stores holding what it wrote: what
\* an earlier crash left under the temporary name never comes back.
SoloWriteAgrees ==
    [][\A p \in Procs : Replace(p) /\ p \in alone => file' = Record(p) /\ db' = Record(p)]_vars

\* Such a call replaces the live file in one step ("atomic on POSIX"): it never
\* leaves half a record in it, wherever it dies.
SoloFileWhole ==
    [][\A p \in Procs : Step(p) /\ p \in alone => file' \in {file} \cup States]_vars

\* Both: such a call passes from one whole record to the next, in both stores.
SoloWriteWhole == SoloWriteAgrees /\ SoloFileWhole
=============================================================================
