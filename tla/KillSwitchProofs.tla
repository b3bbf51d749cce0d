-------------------------- MODULE KillSwitchProofs --------------------------
(***************************************************************************)
(* Theorems of module KillSwitch, for any processes and any number of      *)
(* calls, crashes and failed commits.                                      *)
(***************************************************************************)
EXTENDS KillSwitch, TLAPS

\* Only an operator runs a method that releases, and only a method that writes
\* reaches the writing steps.
WriterInv ==
    \A p \in Procs :
        /\ op[p] \in {"disarm", "initialise"} => p \in Operators
        /\ pc[p] \in Writing => op[p] # "gate"
        /\ pc[p] \in {"init_file", "init_db"} => op[p] = "initialise"

\* While nobody overlaps p, the stores hold what p has written so far.
SoloInv ==
    \A p \in alone :
        /\ \A q \in Procs : q # p => pc[q] = "idle"
        /\ pc[p] \in {"open", "write", "replace"} => db = Record(p)
        /\ pc[p] = "write" => handle[p] = "tmp" /\ tmp = "empty"
        /\ pc[p] = "replace" => tmp = Record(p)

Inv == TypeOK /\ WriterInv /\ SoloInv

-----------------------------------------------------------------------------

LEMMA InitTypes == Init => TypeOK
BY DEF Init, TypeOK, States, Contents, Pcs, Methods

LEMMA TypeStep ==
    ASSUME TypeOK, [Next]_vars
    PROVE  TypeOK'
<1> USE DEF TypeOK, Goto, stores
<1>1. ASSUME NEW p \in Procs, NEW m \in Methods, NEW label \in Pcs, Call(p, m, label)
      PROVE  TypeOK'
  BY <1>1 DEF Call
<1>2. ASSUME NEW p \in Procs, CallArm(p) \/ CallDisarm(p) \/ CallInitialise(p) \/ CallGate(p)
      PROVE  TypeOK'
  BY <1>1, <1>2 DEF CallArm, CallDisarm, CallInitialise, CallGate, Methods, Pcs, Writing
<1> USE DEF Pcs, Writing
<1>3. ASSUME NEW p \in Procs, InitReadFile(p) \/ InitReadDb(p)
      PROVE  TypeOK'
  BY <1>3 DEF InitReadFile, InitReadDb
<1>4. ASSUME NEW p \in Procs, Commit(p) \/ CommitFails(p)
      PROVE  TypeOK'
  BY <1>4 DEF Commit, CommitFails, Record, States
<1>5. ASSUME NEW p \in Procs, OpenTmp(p)
      PROVE  TypeOK'
  BY <1>5 DEF OpenTmp, Contents
<1>6. ASSUME NEW p \in Procs, WriteTmp(p)
      PROVE  TypeOK'
  <2>1. \A c : Written(c, Record(p)) \subseteq Contents
    BY DEF Written, Record, Contents, States
  <2>2. tmp' \in Contents /\ file' \in Contents
    BY <2>1, <1>6 DEF WriteTmp
  <2> QED
    BY <2>2, <1>6 DEF WriteTmp
<1>7. ASSUME NEW p \in Procs, Replace(p) \/ ReplaceFails(p)
      PROVE  TypeOK'
  BY <1>7 DEF Replace, ReplaceFails, Contents
<1>8. ASSUME NEW p \in Procs, ReadFile(p) \/ ReadDb(p)
      PROVE  TypeOK'
  BY <1>8 DEF ReadFile, ReadDb, Contents
<1>9. ASSUME NEW p \in Procs, Crash(p)
      PROVE  TypeOK'
  BY <1>9 DEF Crash
<1>10. CASE UNCHANGED vars
  BY <1>10 DEF vars
<1> QED
  BY <1>2, <1>3, <1>4, <1>5, <1>6, <1>7, <1>8, <1>9, <1>10 DEF Next, Step

LEMMA WriterStep ==
    ASSUME TypeOK, WriterInv, [Next]_vars
    PROVE  WriterInv'
<1> USE DEF TypeOK, WriterInv, Goto, Writing
<1>1. ASSUME NEW p \in Procs, CallArm(p) \/ CallDisarm(p) \/ CallInitialise(p) \/ CallGate(p)
      PROVE  WriterInv'
  BY <1>1 DEF Call, CallArm, CallDisarm, CallInitialise, CallGate
<1>2. ASSUME NEW p \in Procs, InitReadFile(p) \/ InitReadDb(p)
      PROVE  WriterInv'
  BY <1>2 DEF InitReadFile, InitReadDb
<1>3. ASSUME NEW p \in Procs, Commit(p) \/ CommitFails(p) \/ OpenTmp(p) \/ WriteTmp(p)
      PROVE  WriterInv'
  BY <1>3 DEF Commit, CommitFails, OpenTmp, WriteTmp
<1>4. ASSUME NEW p \in Procs, Replace(p) \/ ReplaceFails(p) \/ ReadFile(p) \/ ReadDb(p)
      PROVE  WriterInv'
  BY <1>4 DEF Replace, ReplaceFails, ReadFile, ReadDb
<1>5. ASSUME NEW p \in Procs, Crash(p)
      PROVE  WriterInv'
  BY <1>5 DEF Crash
<1>6. CASE UNCHANGED vars
  BY <1>6 DEF vars
<1> QED
  BY <1>1, <1>2, <1>3, <1>4, <1>5, <1>6 DEF Next, Step

LEMMA SoloStep ==
    ASSUME TypeOK, WriterInv, SoloInv, [Next]_vars
    PROVE  SoloInv'
<1> USE DEF TypeOK, SoloInv, Goto, stores, Record
<1>1. ASSUME NEW p \in Procs, NEW m \in Methods, NEW label, Call(p, m, label),
             label \in {"commit", "init_file", "read_file"}
      PROVE  SoloInv'
  BY <1>1 DEF Call
<1>2. ASSUME NEW p \in Procs, CallArm(p) \/ CallDisarm(p) \/ CallInitialise(p) \/ CallGate(p)
      PROVE  SoloInv'
  BY <1>1, <1>2 DEF CallArm, CallDisarm, CallInitialise, CallGate, Methods
<1>3. ASSUME NEW p \in Procs, InitReadFile(p) \/ InitReadDb(p)
      PROVE  SoloInv'
  BY <1>3 DEF InitReadFile, InitReadDb
<1>4. ASSUME NEW p \in Procs, Commit(p) \/ CommitFails(p)
      PROVE  SoloInv'
  BY <1>4 DEF Commit, CommitFails
<1>5. ASSUME NEW p \in Procs, OpenTmp(p)
      PROVE  SoloInv'
  BY <1>5 DEF OpenTmp
<1>6. ASSUME NEW p \in Procs, WriteTmp(p)
      PROVE  SoloInv'
  BY <1>6 DEF WriteTmp, Written
<1>7. ASSUME NEW p \in Procs, Replace(p) \/ ReplaceFails(p)
      PROVE  SoloInv'
  BY <1>7 DEF Replace, ReplaceFails
<1>8. ASSUME NEW p \in Procs, ReadFile(p) \/ ReadDb(p)
      PROVE  SoloInv'
  BY <1>8 DEF ReadFile, ReadDb
<1>9. ASSUME NEW p \in Procs, Crash(p)
      PROVE  SoloInv'
  BY <1>9 DEF Crash
<1>10. CASE UNCHANGED vars
  BY <1>10 DEF vars
<1> QED
  BY <1>2, <1>3, <1>4, <1>5, <1>6, <1>7, <1>8, <1>9, <1>10 DEF Next, Step

\* The variables keep their types, and the writers their discipline, in every
\* reachable state.
THEOREM SwitchInvariant == Spec => []Inv
<1>1. Init => Inv
  BY InitTypes DEF Init, Inv, WriterInv, SoloInv, Writing
<1>2. Inv /\ [Next]_vars => Inv'
  BY TypeStep, WriterStep, SoloStep DEF Inv
<1> QED
  BY <1>1, <1>2, PTL DEF Spec

\* TypeOK holds in every reachable state.
THEOREM SwitchTypeCorrect == Spec => []TypeOK
<1>1. Inv => TypeOK
  BY DEF Inv
<1> QED
  BY <1>1, SwitchInvariant, PTL

\* A write that nobody overlapped leaves in both stores what it wrote.
THEOREM SoloWriteAgreesAlways == Spec => SoloWriteAgrees
<1>1. Inv /\ [Next]_vars =>
        [\A p \in Procs : Replace(p) /\ p \in alone => file' = Record(p) /\ db' = Record(p)]_vars
  <2> SUFFICES ASSUME Inv, NEW p \in Procs, Replace(p), p \in alone
               PROVE  file' = Record(p) /\ db' = Record(p)
    OBVIOUS
  <2>1. tmp = Record(p) /\ db = Record(p)
    BY DEF Inv, SoloInv, Replace
  <2> QED
    BY <2>1 DEF Replace
<1> QED
  BY <1>1, SwitchInvariant, PTL DEF Spec, SoloWriteAgrees

\* Wherever such a write dies, the live file holds a whole record.
THEOREM SoloFileWholeAlways == Spec => SoloFileWhole
<1>1. Inv /\ [Next]_vars =>
        [\A p \in Procs : Step(p) /\ p \in alone => file' \in {file} \cup States]_vars
  <2> SUFFICES ASSUME Inv, NEW p \in Procs, Step(p), p \in alone
               PROVE  file' \in {file} \cup States
    OBVIOUS
  <2>1. CASE WriteTmp(p)
    BY <2>1 DEF Inv, SoloInv, WriteTmp
  <2>2. CASE Replace(p)
    BY <2>2 DEF Inv, SoloInv, Replace, Record, States
  <2>3. CASE ~WriteTmp(p) /\ ~Replace(p)
    BY <2>3 DEF Step, InitReadFile, InitReadDb, Commit, CommitFails, OpenTmp, ReplaceFails,
                ReadFile, ReadDb, stores
  <2> QED
    BY <2>1, <2>2, <2>3
<1> QED
  BY <1>1, SwitchInvariant, PTL DEF Spec, SoloFileWhole

-----------------------------------------------------------------------------
(* The refinement.                                                         *)

LEMMA SwitchStarts == Init => Switch!Init
BY DEF Init, Switch!Init

LEMMA SwitchMoves ==
    ASSUME Inv, [Next]_vars
    PROVE  [Switch!Next]_(Switch!vars)
<1> USE DEF Switch!Next, Switch!vars
<1>1. ASSUME NEW p \in Procs, NEW m, NEW label, Call(p, m, label)
      PROVE  Switch!Clear(p)
  BY <1>1 DEF Call, stores, Switch!Clear
<1>2. ASSUME NEW p \in Procs, CallArm(p) \/ CallDisarm(p) \/ CallInitialise(p) \/ CallGate(p)
      PROVE  Switch!Next
  BY <1>1, <1>2 DEF CallArm, CallDisarm, CallInitialise, CallGate
<1>3. ASSUME NEW p \in Procs, Commit(p)
      PROVE  Switch!Next
  <2>1. CASE op[p] = "arm"
    BY <1>3, <2>1 DEF Commit, Record, Switch!Arm
  <2>2. CASE op[p] # "arm"
    <3>1. p \in Operators
      BY <1>3, <2>2 DEF Inv, TypeOK, Methods, WriterInv, Writing, Commit
    <3> QED
      BY <1>3, <2>2, <3>1 DEF Commit, Record, Switch!Release
  <2> QED
    BY <2>1, <2>2
<1>4. ASSUME NEW p \in Procs, ReadDb(p)
      PROVE  Switch!Next
  <2>1. PICK seen \in {db, "absent"} :
            answer' = [answer EXCEPT ![p] =
                IF Effective(got[p], seen) = "DISARMED" THEN "admitted" ELSE "refused"]
    BY <1>4 DEF ReadDb
  <2>2. Effective(got[p], seen) = "DISARMED" => db = "DISARMED"
    BY DEF Effective, Readable, States
  <2>3. UNCHANGED db
    BY <1>4 DEF ReadDb, stores
  <2> QED
    BY <2>1, <2>2, <2>3 DEF Switch!Admit, Switch!Refuse
<1>5. ASSUME NEW p \in Procs, Crash(p)
      PROVE  Switch!Next
  BY <1>5 DEF Crash, stores, Switch!Clear
<1>6. ASSUME NEW p \in Procs,
             \/ InitReadFile(p) \/ InitReadDb(p) \/ CommitFails(p) \/ OpenTmp(p)
             \/ WriteTmp(p) \/ Replace(p) \/ ReplaceFails(p) \/ ReadFile(p)
      PROVE  UNCHANGED <<db, answer>>
  BY <1>6 DEF InitReadFile, InitReadDb, CommitFails, OpenTmp, WriteTmp, Replace,
              ReplaceFails, ReadFile, stores
<1>7. CASE UNCHANGED vars
  BY <1>7 DEF vars
<1> QED
  BY <1>2, <1>3, <1>4, <1>5, <1>6, <1>7 DEF Next, Step

\* The two stores implement one switch that changes in an instant: a gate admits
\* only while the committed row releases trading, whatever the file says by then,
\* however writers overlap and whoever dies halfway.
THEOREM SwitchRefinement == Spec => ImplementsSwitch
<1>1. Inv /\ [Next]_vars => [Switch!Next]_(Switch!vars)
  BY SwitchMoves
<1> QED
  BY <1>1, SwitchStarts, SwitchInvariant, PTL DEF Spec, ImplementsSwitch, Switch!Spec

\* Both: a call nobody overlapped passes from one whole record to the next.
THEOREM SoloWriteWholeAlways == Spec => SoloWriteWhole
  BY SoloWriteAgreesAlways, SoloFileWholeAlways DEF SoloWriteWhole
=============================================================================
