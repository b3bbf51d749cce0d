-------------------------- MODULE AuditChainProofs --------------------------
(***************************************************************************)
(* Theorems of module AuditChain, for any number of processes, events and  *)
(* failures.                                                               *)
(***************************************************************************)
EXTENDS AuditChain, TLAPS

Elements(s) == {s[i] : i \in DOMAIN s}

Stored == {rows[i].event : i \in DOMAIN rows}

Locked == {"begun", "read", "inserted", "stuck"}

Chain(rs) == \A i \in DOMAIN rs : rs[i] = Row(i - 1, rs[i].event, PrevOf(rs, i))

\* The committed rows are a chain, and every row is the one its place demands.
RowsInv ==
    /\ rows \in Seq(Elements(rows))
    /\ \A i \in DOMAIN rows :
          rows[i] = Row(i - 1, rows[i].event, PrevOf(rows, i)) /\ rows[i].event \in Events

\* Who is inside a transaction holds the lock, and what it has read and inserted
\* continues the committed rows.
ProcessInv(p) ==
    /\ at[p] \in Locked => lock = p /\ event[p] \in Events /\ event[p] \notin Stored
    /\ at[p] = "committed" => event[p] \in Stored
    /\ at[p] = "read" => head[p] = ChainHead
    /\ at[p] \in {"inserted", "stuck"} =>
          inserted[p] = <<Row(Len(rows), event[p], PrevOf(rows, Len(rows) + 1))>>
    /\ at[p] \notin {"inserted", "stuck"} => inserted[p] = <<>>

TypeInv ==
    /\ lock \in Processes \cup {None}
    /\ at \in [Processes -> Steps]
    /\ event \in [Processes -> Events \cup {None}]
    /\ head \in [Processes -> {head[p] : p \in Processes}]
    /\ \A p \in Processes : head[p].seq \in Nat
    /\ inserted \in [Processes -> {inserted[p] : p \in Processes}]
    /\ returned \subseteq Events /\ returned \subseteq Stored
    /\ failures \in 0..MaxFailures

Inv == RowsInv /\ TypeInv /\ \A p \in Processes : ProcessInv(p)

-----------------------------------------------------------------------------
(***************************************************************************)
(* Rows.                                                                   *)
(***************************************************************************)

LEMMA OwnElements ==
    ASSUME NEW S, NEW s \in Seq(S)
    PROVE  s \in Seq(Elements(s)) /\ Len(s) \in Nat /\ DOMAIN s = 1..Len(s)
BY DEF Elements

\* What one row more makes of a sequence.
LEMMA OneMore ==
    ASSUME NEW S, NEW s \in Seq(S), NEW r
    PROVE  /\ s \o <<r>> \in Seq(S \cup {r})
           /\ Len(s \o <<r>>) = Len(s) + 1
           /\ DOMAIN (s \o <<r>>) = 1..Len(s) + 1
           /\ \A i \in DOMAIN s : (s \o <<r>>)[i] = s[i]
           /\ (s \o <<r>>)[Len(s) + 1] = r
<1>1. s \in Seq(S \cup {r}) /\ <<r>> \in Seq(S \cup {r}) /\ Len(<<r>>) = 1
  OBVIOUS
<1>2. s \o <<r>> \in Seq(S \cup {r})
  BY <1>1
<1>3. Len(s \o <<r>>) = Len(s) + 1 /\ Len(s) \in Nat
  BY <1>1
<1>4. \A i \in DOMAIN s : (s \o <<r>>)[i] = s[i]
  BY <1>1
<1>5. (s \o <<r>>)[Len(s) + 1] = r
  BY <1>1, <1>3
<1> QED
  BY <1>2, <1>3, <1>4, <1>5

\* The head is the hash a next row has to name.
LEMMA HeadIsNext ==
    ASSUME RowsInv
    PROVE  ChainHead = [seq |-> Len(rows), prev |-> PrevOf(rows, Len(rows) + 1)]
<1>1. Len(rows) \in Nat /\ DOMAIN rows = 1..Len(rows)
  BY DEF RowsInv
<1>2. CASE rows = <<>>
  BY <1>2 DEF ChainHead, PrevOf
<1>3. CASE rows # <<>>
  <2>1. Len(rows) \in DOMAIN rows /\ Len(rows) # 0
    BY <1>1, <1>3 DEF RowsInv
  <2>2. rows[Len(rows)] = Row(Len(rows) - 1, rows[Len(rows)].event, PrevOf(rows, Len(rows)))
    BY <2>1 DEF RowsInv
  <2>3. rows[Len(rows)].seq = Len(rows) - 1
    BY <2>2 DEF Row
  <2> QED
    BY <1>1, <1>3, <2>1, <2>3 DEF ChainHead, PrevOf
<1> QED
  BY <1>2, <1>3

\* A chain of such rows verifies.
LEMMA RowsVerify ==
    ASSUME NEW rs, NEW S, rs \in Seq(S), Chain(rs)
    PROVE  Verifies(rs)
BY DEF Verifies, Row, Chain

\* A row that continues the chain leaves a chain.
LEMMA ChainGrows ==
    ASSUME RowsInv, NEW e \in Events, NEW rs,
           rs = rows \o <<Row(Len(rows), e, PrevOf(rows, Len(rows) + 1))>>
    PROVE  /\ Chain(rs)
           /\ rs \in Seq(Elements(rs))
           /\ DOMAIN rs = 1..Len(rows) + 1 /\ Len(rows) \in Nat
           /\ \A i \in DOMAIN rs : rs[i].event \in Events
           /\ \A i \in DOMAIN rows : rs[i] = rows[i]
           /\ rs[Len(rows) + 1].event = e
<1> DEFINE r == Row(Len(rows), e, PrevOf(rows, Len(rows) + 1))
<1> HIDE DEF r
<1>1. /\ rs \in Seq(Elements(rows) \cup {r})
      /\ DOMAIN rs = 1..Len(rows) + 1
      /\ \A i \in DOMAIN rows : rs[i] = rows[i]
      /\ rs[Len(rows) + 1] = r
  BY OneMore DEF RowsInv, r
<1>2. Len(rows) \in Nat /\ DOMAIN rows = 1..Len(rows)
  BY DEF RowsInv
<1> DEFINE S == Elements(rows) \cup {r}
<1> HIDE DEF S
<1>3. rs \in Seq(Elements(rs))
  <2>1. rs \in Seq(S)
    BY <1>1 DEF S
  <2> QED
    BY <2>1, OwnElements
<1>4. r.event = e
  BY DEF r, Row
<1>5. \A i \in 1..Len(rows) + 1 : PrevOf(rs, i) = PrevOf(rows, i)
  <2> SUFFICES ASSUME NEW i \in 1..Len(rows) + 1, i # 1
               PROVE  rs[i - 1] = rows[i - 1]
    BY DEF PrevOf
  <2>1. i - 1 \in DOMAIN rows
    BY <1>2
  <2> QED
    BY <1>1, <2>1
<1>6. ASSUME NEW i \in DOMAIN rs
      PROVE  rs[i] = Row(i - 1, rs[i].event, PrevOf(rs, i)) /\ rs[i].event \in Events
  <2>1. CASE i \in DOMAIN rows
    BY <1>1, <1>2, <1>5, <2>1 DEF RowsInv
  <2>2. CASE i = Len(rows) + 1
    BY <1>1, <1>2, <1>4, <1>5, <2>2 DEF r
  <2> QED
    BY <1>1, <1>2, <2>1, <2>2
<1> QED
  BY <1>1, <1>2, <1>3, <1>4, <1>6 DEF Chain

-----------------------------------------------------------------------------
(***************************************************************************)
(* The invariant.                                                          *)
(***************************************************************************)

LEMMA InitInv == Init => Inv
<1> SUFFICES ASSUME Init PROVE Inv
  OBVIOUS
<1>1. RowsInv
  BY DEF Init, RowsInv
<1>2. TypeInv
  BY AuditAssumption DEF Init, TypeInv, Steps, Stored
<1>3. ASSUME NEW p \in Processes PROVE ProcessInv(p)
  BY DEF Init, ProcessInv, Locked
<1> QED
  BY <1>1, <1>2, <1>3 DEF Inv

\* Rows, type and lock, as one step of p leaves them for everybody else.
LEMMA OthersUndisturbed ==
    ASSUME Inv, NEW p \in Processes, NEW q \in Processes, q # p, UNCHANGED rows,
           at'[q] = at[q], event'[q] = event[q], head'[q] = head[q], inserted'[q] = inserted[q],
           lock = q => lock' = q
    PROVE  ProcessInv(q)'
<1>1. ProcessInv(q)
  BY DEF Inv
<1>2. ChainHead' = ChainHead /\ Stored' = Stored /\ Len(rows') = Len(rows)
      /\ PrevOf(rows', Len(rows') + 1) = PrevOf(rows, Len(rows) + 1)
  BY DEF ChainHead, Stored, PrevOf
<1> QED
  BY <1>1, <1>2 DEF ProcessInv

LEMMA FailureCounted ==
    ASSUME TypeInv, MayFail
    PROVE  failures' \in 0..MaxFailures
<1>1. failures \in 0..MaxFailures /\ failures < MaxFailures /\ failures' = failures + 1
  BY DEF TypeInv, MayFail
<1>2. MaxFailures \in Nat
  BY AuditAssumption
<1> QED
  BY <1>1, <1>2

LEMMA BeginInv ==
    ASSUME Inv, NEW p \in Processes, NEW e \in Events, Begin(p, e)
    PROVE  Inv'
<1> USE DEF Begin, Advance, Free
<1>1. RowsInv' /\ Stored' = Stored
  BY DEF Inv, RowsInv, PrevOf, Stored
<1>2. TypeInv'
  BY <1>1 DEF Inv, TypeInv, Steps
<1>3. ProcessInv(p)'
  <2>1. ProcessInv(p) /\ at'[p] = "begun" /\ event'[p] = e /\ lock' = p /\ inserted' = inserted
    BY DEF Inv, TypeInv
  <2>2. e \notin Stored
    BY DEF Stored
  <2> QED
    BY <1>1, <2>1, <2>2 DEF ProcessInv
<1>4. ASSUME NEW q \in Processes, q # p PROVE ProcessInv(q)'
  <2>1. at'[q] = at[q] /\ event'[q] = event[q] /\ lock # q
    BY <1>4, AuditAssumption DEF Inv, TypeInv
  <2> QED
    BY <1>4, <2>1, OthersUndisturbed
<1> QED
  BY <1>1, <1>2, <1>3, <1>4 DEF Inv

LEMMA ReadHeadInv ==
    ASSUME Inv, NEW p \in Processes, ReadHead(p)
    PROVE  Inv'
<1> USE DEF ReadHead, Advance
<1>1. RowsInv' /\ Stored' = Stored /\ ChainHead' = ChainHead
  BY DEF Inv, RowsInv, PrevOf, Stored, ChainHead
<1>2. TypeInv'
  <2>1. ChainHead.seq \in Nat
    BY HeadIsNext DEF Inv, RowsInv
  <2>2. head' \in [Processes -> {head'[x] : x \in Processes}]
    BY DEF Inv, TypeInv
  <2>3. \A x \in Processes : head'[x].seq \in Nat
    BY <2>1 DEF Inv, TypeInv
  <2> QED
    BY <1>1, <2>2, <2>3 DEF Inv, TypeInv, Steps
<1>3. ProcessInv(p)'
  <2>1. ProcessInv(p) /\ at[p] = "begun" /\ at'[p] = "read" /\ head'[p] = ChainHead
    BY DEF Inv, TypeInv
  <2> QED
    BY <1>1, <2>1 DEF ProcessInv, Locked
<1>4. ASSUME NEW q \in Processes, q # p PROVE ProcessInv(q)'
  BY <1>4, OthersUndisturbed DEF Inv, TypeInv
<1> QED
  BY <1>1, <1>2, <1>3, <1>4 DEF Inv

LEMMA InsertInv ==
    ASSUME Inv, NEW p \in Processes, Insert(p)
    PROVE  Inv'
<1> USE DEF Insert, Advance
<1>1. RowsInv' /\ Stored' = Stored /\ rows' = rows
  BY DEF Inv, RowsInv, PrevOf, Stored
<1>2. TypeInv'
  <2>1. inserted' \in [Processes -> {inserted'[x] : x \in Processes}]
    BY DEF Inv, TypeInv
  <2> QED
    BY <1>1, <2>1 DEF Inv, TypeInv, Steps
<1>3. ProcessInv(p)'
  <2>1. ProcessInv(p) /\ at[p] = "read" /\ at'[p] = "inserted" /\ lock' = lock /\ event' = event
    BY DEF Inv, TypeInv
  <2>2. inserted'[p] = <<Row(head[p].seq, event[p], head[p].prev)>>
    BY DEF Inv, TypeInv
  <2>3. head[p] = [seq |-> Len(rows), prev |-> PrevOf(rows, Len(rows) + 1)]
    BY <2>1, HeadIsNext DEF Inv, ProcessInv
  <2>4. head[p].seq = Len(rows) /\ head[p].prev = PrevOf(rows, Len(rows) + 1)
    BY <2>3
  <2>5. inserted'[p] = <<Row(Len(rows), event[p], PrevOf(rows, Len(rows) + 1))>>
    BY <2>2, <2>4
  <2>6. PrevOf(rows', Len(rows') + 1) = PrevOf(rows, Len(rows) + 1)
    BY <1>1 DEF PrevOf
  <2> QED
    BY <1>1, <2>1, <2>5, <2>6 DEF ProcessInv, Locked
<1>4. ASSUME NEW q \in Processes, q # p PROVE ProcessInv(q)'
  BY <1>4, OthersUndisturbed DEF Inv, TypeInv
<1> QED
  BY <1>1, <1>2, <1>3, <1>4 DEF Inv

\* The three ways an attempt ends without its row being committed by this step,
\* and the answer, which forgets the same.
LEMMA ForgetInv ==
    ASSUME Inv, NEW p \in Processes, UNCHANGED rows, Forgotten(p), Advance(p, "idle"),
           lock' = (IF lock = p THEN None ELSE lock), UNCHANGED head,
           returned' \subseteq Events, returned' \subseteq Stored, failures' \in 0..MaxFailures
    PROVE  Inv'
<1> USE DEF Forgotten, Advance
<1>1. RowsInv' /\ Stored' = Stored
  BY DEF Inv, RowsInv, PrevOf, Stored
<1>2. TypeInv'
  <2>1. inserted' \in [Processes -> {inserted'[x] : x \in Processes}]
    BY DEF Inv, TypeInv
  <2> QED
    BY <1>1, <2>1 DEF Inv, TypeInv, Steps
<1>3. ProcessInv(p)'
  BY DEF Inv, TypeInv, ProcessInv, Locked
<1>4. ASSUME NEW q \in Processes, q # p PROVE ProcessInv(q)'
  BY <1>4, OthersUndisturbed DEF Inv, TypeInv
<1> QED
  BY <1>1, <1>2, <1>3, <1>4 DEF Inv

LEMMA CommitFailsInv ==
    ASSUME Inv, NEW p \in Processes, CommitFails(p)
    PROVE  Inv'
<1> USE DEF CommitFails, Advance
<1>1. RowsInv' /\ Stored' = Stored /\ rows' = rows
  BY DEF Inv, RowsInv, PrevOf, Stored
<1>2. TypeInv'
  <2>1. failures' \in 0..MaxFailures
    BY FailureCounted DEF Inv
  <2> QED
    BY <1>1, <2>1 DEF Inv, TypeInv, Steps
<1>3. ProcessInv(p)'
  <2>1. ProcessInv(p) /\ at[p] = "inserted" /\ at'[p] = "stuck" /\ lock' = lock /\ event' = event
        /\ inserted' = inserted
    BY DEF Inv, TypeInv
  <2>2. PrevOf(rows', Len(rows') + 1) = PrevOf(rows, Len(rows) + 1)
    BY <1>1 DEF PrevOf
  <2> QED
    BY <1>1, <2>1, <2>2 DEF ProcessInv, Locked
<1>4. ASSUME NEW q \in Processes, q # p PROVE ProcessInv(q)'
  BY <1>4, OthersUndisturbed DEF Inv, TypeInv
<1> QED
  BY <1>1, <1>2, <1>3, <1>4 DEF Inv

\* What a commit makes of the committed rows.
LEMMA CommitRows ==
    ASSUME Inv, NEW p \in Processes, Commit(p)
    PROVE  /\ event[p] \in Events /\ event[p] \notin Stored /\ lock = p
           /\ rows' = rows \o <<Row(Len(rows), event[p], PrevOf(rows, Len(rows) + 1))>>
           /\ RowsInv'
           /\ Stored' = Stored \cup {event[p]}
           /\ \A i \in DOMAIN rows : rows'[i] = rows[i]
           /\ DOMAIN rows' = 1..Len(rows) + 1 /\ rows'[Len(rows) + 1].event = event[p]
<1>1. ProcessInv(p) /\ at[p] = "inserted" /\ RowsInv /\ rows' = rows \o inserted[p]
  BY DEF Inv, Commit
<1>2. event[p] \in Events /\ event[p] \notin Stored /\ lock = p
      /\ inserted[p] = <<Row(Len(rows), event[p], PrevOf(rows, Len(rows) + 1))>>
  BY <1>1 DEF ProcessInv, Locked
<1>3. rows' = rows \o <<Row(Len(rows), event[p], PrevOf(rows, Len(rows) + 1))>>
  BY <1>1, <1>2
<1>4. /\ rows' \in Seq(Elements(rows'))
      /\ DOMAIN rows' = 1..Len(rows) + 1 /\ Len(rows) \in Nat
      /\ Chain(rows') /\ \A i \in DOMAIN rows' : rows'[i].event \in Events
      /\ \A i \in DOMAIN rows : rows'[i] = rows[i]
      /\ rows'[Len(rows) + 1].event = event[p]
  <2>1. PICK e \in Events : e = event[p]
    BY <1>2
  <2>2. PICK rs : rs = rows'
    OBVIOUS
  <2>3. rs = rows \o <<Row(Len(rows), e, PrevOf(rows, Len(rows) + 1))>>
    BY <1>3, <2>1, <2>2
  <2>4. RowsInv
    BY <1>1
  <2>5. Chain(rs) /\ rs \in Seq(Elements(rs)) /\ DOMAIN rs = 1..Len(rows) + 1 /\ Len(rows) \in Nat
    BY <2>3, <2>4, ChainGrows
  <2>6. \A i \in DOMAIN rs : rs[i].event \in Events
    BY <2>3, <2>4, ChainGrows
  <2>7. \A i \in DOMAIN rows : rs[i] = rows[i]
    BY <2>3, <2>4, ChainGrows
  <2>8. rs[Len(rows) + 1].event = e
    BY <2>3, <2>4, ChainGrows
  <2> QED
    BY <2>1, <2>2, <2>5, <2>6, <2>7, <2>8
<1>5. RowsInv'
  BY <1>4 DEF RowsInv, Chain
<1>6. DOMAIN rows = 1..Len(rows)
  BY <1>1 DEF RowsInv
<1>7. Stored' = Stored \cup {event[p]}
  <2>1. ASSUME NEW i \in DOMAIN rows' PROVE rows'[i].event \in Stored \cup {event[p]}
    BY <1>4, <1>6 DEF Stored
  <2>2. ASSUME NEW i \in DOMAIN rows PROVE rows[i].event \in Stored'
    <3>1. i \in DOMAIN rows'
      BY <1>4, <1>6
    <3> QED
      BY <1>4, <3>1 DEF Stored
  <2>3. event[p] \in Stored'
    <3>1. Len(rows) + 1 \in DOMAIN rows'
      BY <1>4
    <3> QED
      BY <1>4, <3>1 DEF Stored
  <2> QED
    BY <2>1, <2>2, <2>3 DEF Stored
<1> QED
  BY <1>2, <1>3, <1>4, <1>5, <1>7

LEMMA CommitInv ==
    ASSUME Inv, NEW p \in Processes, Commit(p)
    PROVE  Inv'
<1> USE DEF Commit, Advance
<1>1. /\ event[p] \in Events /\ lock = p /\ RowsInv' /\ Stored' = Stored \cup {event[p]}
  BY CommitRows
<1>2. TypeInv'
  <2>1. inserted' \in [Processes -> {inserted'[x] : x \in Processes}]
    BY DEF Inv, TypeInv
  <2> QED
    BY <1>1, <2>1 DEF Inv, TypeInv, Steps
<1>3. ProcessInv(p)'
  <2>1. at'[p] = "committed" /\ inserted'[p] = <<>> /\ event' = event
    BY DEF Inv, TypeInv
  <2> QED
    BY <1>1, <2>1 DEF ProcessInv, Locked
<1>4. ASSUME NEW q \in Processes, q # p PROVE ProcessInv(q)'
  <2>1. ProcessInv(q) /\ at'[q] = at[q] /\ inserted'[q] = inserted[q] /\ event' = event /\ lock # q
    BY <1>1, <1>4 DEF Inv, TypeInv
  <2>2. at[q] \notin Locked
    BY <2>1 DEF ProcessInv
  <2> QED
    BY <1>1, <2>1, <2>2 DEF ProcessInv, Locked
<1> QED
  BY <1>1, <1>2, <1>3, <1>4 DEF Inv

LEMMA StepInv ==
    ASSUME Inv, [Next]_vars
    PROVE  Inv'
<1>1. ASSUME NEW p \in Processes, Step(p) PROVE Inv'
  <2>1. CASE \E e \in Events : Begin(p, e)
    BY <2>1, BeginInv
  <2>2. CASE ReadHead(p)
    BY <2>2, ReadHeadInv
  <2>3. CASE Insert(p)
    BY <2>3, InsertInv
  <2>4. CASE Commit(p)
    BY <2>4, CommitInv
  <2>5. CASE CommitFails(p)
    BY <2>5, CommitFailsInv
  <2>6. CASE Answer(p)
    <3>1. event[p] \in Events /\ event[p] \in Stored
      BY <2>6 DEF Answer, Answerable, Inv, TypeInv, ProcessInv, RowsInv, Stored
    <3>2. returned' \subseteq Events /\ returned' \subseteq Stored
      BY <2>6, <3>1 DEF Answer, Inv, TypeInv
    <3>3. failures' \in 0..MaxFailures
      BY <2>6 DEF Answer, Inv, TypeInv
    <3> QED
      BY <2>6, <3>2, <3>3, ForgetInv DEF Answer
  <2>7. CASE Rollback(p)
    <3>1. lock = p
      BY <2>7 DEF Rollback, Inv, ProcessInv, Locked
    <3>2. failures' \in 0..MaxFailures
      BY <2>7, FailureCounted DEF Rollback, Inv
    <3>3. returned' \subseteq Events /\ returned' \subseteq Stored
      BY <2>7 DEF Rollback, Inv, TypeInv
    <3> QED
      BY <2>7, <3>1, <3>2, <3>3, ForgetInv DEF Rollback
  <2>8. CASE Crash(p)
    <3>1. failures' \in 0..MaxFailures
      BY <2>8, FailureCounted DEF Crash, Inv
    <3>2. returned' \subseteq Events /\ returned' \subseteq Stored
      BY <2>8 DEF Crash, Inv, TypeInv
    <3> QED
      BY <2>8, <3>1, <3>2, ForgetInv DEF Crash
  <2> QED
    BY <1>1, <2>1, <2>2, <2>3, <2>4, <2>5, <2>6, <2>7, <2>8 DEF Step
<1>2. CASE UNCHANGED vars
  <2>1. UNCHANGED <<rows, lock, at, event, head, inserted, returned, failures>>
    BY <1>2 DEF vars, perProcess
  <2> QED
    <3>1. RowsInv' /\ Stored' = Stored /\ ChainHead' = ChainHead
      BY <2>1 DEF Inv, RowsInv, PrevOf, Stored, ChainHead
    <3>2. TypeInv'
      BY <2>1, <3>1 DEF Inv, TypeInv
    <3>3. ASSUME NEW p \in Processes PROVE ProcessInv(p)'
      <4>1. PrevOf(rows', Len(rows') + 1) = PrevOf(rows, Len(rows) + 1)
        BY <2>1 DEF PrevOf
      <4> QED
        BY <2>1, <3>1, <4>1 DEF Inv, ProcessInv
    <3> QED
      BY <3>1, <3>2, <3>3 DEF Inv
<1> QED
  BY <1>1, <1>2 DEF Next

LEMMA InvAlways == Spec => []Inv
BY InitInv, StepInv, PTL DEF Spec

-----------------------------------------------------------------------------
(***************************************************************************)
(* Theorems                                                                *)
(***************************************************************************)

LEMMA InvTypes == Inv => TypeOK
<1> SUFFICES ASSUME Inv PROVE TypeOK
  OBVIOUS
<1>1. \A i \in DOMAIN rows : rows[i].event \in Events /\ rows[i].seq \in Nat
  <2> SUFFICES ASSUME NEW i \in DOMAIN rows PROVE rows[i].event \in Events /\ rows[i].seq \in Nat
    OBVIOUS
  <2>1. i \in 1..Len(rows) /\ Len(rows) \in Nat
    BY DEF Inv, RowsInv
  <2>2. rows[i] = Row(i - 1, rows[i].event, PrevOf(rows, i)) /\ rows[i].event \in Events
    BY DEF Inv, RowsInv
  <2>3. rows[i].seq = i - 1
    BY <2>2 DEF Row
  <2> QED
    BY <2>1, <2>2, <2>3
<1>2. \A p \in Processes : inserted[p] # <<>> <=> at[p] \in {"inserted", "stuck"}
  BY DEF Inv, ProcessInv
<1> QED
  BY <1>1, <1>2 DEF Inv, TypeInv, TypeOK

\* Every reachable state is well typed, for any number of processes and failures.
THEOREM AuditTypeCorrect == Spec => []TypeOK
BY InvAlways, InvTypes, PTL

LEMMA InvVerifies == Inv => ChainVerifies
<1> SUFFICES ASSUME Inv PROVE ChainVerifies
  OBVIOUS
<1>1. Verifies(rows)
  BY RowsVerify DEF Inv, RowsInv, Chain
<1>2. ASSUME NEW p \in Processes PROVE Verifies(SeenBy(p))
  <2>1. ProcessInv(p) /\ RowsInv
    BY DEF Inv
  <2>2. CASE at[p] \in {"inserted", "stuck"}
    <3>1. SeenBy(p) = rows \o <<Row(Len(rows), event[p], PrevOf(rows, Len(rows) + 1))>>
      BY <2>1, <2>2 DEF ProcessInv, SeenBy
    <3>2. event[p] \in Events
      BY <2>1, <2>2 DEF ProcessInv, Locked
    <3>3. PICK rs : rs = SeenBy(p)
      OBVIOUS
    <3>4. PICK e \in Events : e = event[p]
      BY <3>2
    <3>5. rs = rows \o <<Row(Len(rows), e, PrevOf(rows, Len(rows) + 1))>>
      BY <3>1, <3>3, <3>4
    <3>6. rs \in Seq(Elements(rs))
      BY <2>1, <3>5, ChainGrows
    <3>7. Chain(rs)
      BY <2>1, <3>5, ChainGrows
    <3>8. Verifies(rs)
      BY <3>6, <3>7, RowsVerify
    <3> QED
      BY <3>3, <3>8
  <2>3. CASE at[p] \notin {"inserted", "stuck"}
    <3>1. SeenBy(p) = rows
      BY <2>1, <2>3 DEF ProcessInv, SeenBy, RowsInv
    <3> QED
      BY <1>1, <3>1
  <2> QED
    BY <2>2, <2>3
<1> QED
  BY <1>1, <1>2 DEF ChainVerifies

\* However many processes append, fail, hang in a transaction or die, the chain
\* verifies at every moment, for every reader and for every writer.
THEOREM ChainVerifiesAlways == Spec => []ChainVerifies
BY InvAlways, InvVerifies, PTL

\* A modified event leaves a hash that is not the hash of its row.
LEMMA AlterationBreaks ==
    ASSUME RowsInv, NEW i \in DOMAIN rows, NEW e, [rows EXCEPT ![i].event = e] # rows
    PROVE  ~Verifies([rows EXCEPT ![i].event = e])
<1> DEFINE rs == [rows EXCEPT ![i].event = e]
<1>1. rows[i] = Row(i - 1, rows[i].event, PrevOf(rows, i))
  BY DEF RowsInv
<1>2. rs[i] = [rows[i] EXCEPT !.event = e] /\ DOMAIN rs = DOMAIN rows
  BY DEF RowsInv
<1>3. rs[i].seq = i - 1 /\ rs[i].event = e /\ rs[i].hash = <<i - 1, rows[i].event, PrevOf(rows, i)>>
  BY <1>1, <1>2 DEF Row, Hash
<1>4. rows[i].event # e
  <2> SUFFICES ASSUME rows[i].event = e PROVE FALSE
    OBVIOUS
  <2>1. [rows[i] EXCEPT !.event = e] = rows[i]
    BY <1>1 DEF Row
  <2>2. rs = [rows EXCEPT ![i] = rows[i]]
    BY <1>2, <2>1
  <2>3. rs = rows
    BY <2>2 DEF RowsInv
  <2> QED
    BY <2>3
<1>5. rs[i].hash # Hash(rs[i].seq, rs[i].event, rs[i].prev)
  BY <1>3, <1>4 DEF Hash
<1> QED
  BY <1>2, <1>5 DEF Verifies

\* A row that is gone leaves a gap in the numbers.
LEMMA RemovalBreaks ==
    ASSUME RowsInv, NEW i \in 1..Len(rows) - 1
    PROVE  ~Verifies(RemoveAt(rows, i))
<1> DEFINE S == Elements(rows)
           front == SubSeq(rows, 1, i - 1)
           rest == SubSeq(rows, i + 1, Len(rows))
<1>1. rows \in Seq(S) /\ Len(rows) \in Nat /\ DOMAIN rows = 1..Len(rows) /\ i + 1 \in DOMAIN rows
  BY DEF RowsInv
<1>2. front \in Seq(S) /\ Len(front) = i - 1
  BY <1>1
<1>3. rest \in Seq(S) /\ Len(rest) = Len(rows) - i /\ rest[1] = rows[i + 1]
  BY <1>1
<1>4. RemoveAt(rows, i) = front \o rest
  BY DEF RemoveAt
<1> HIDE DEF S, front, rest
<1>5. (front \o rest)[i] = rows[i + 1] /\ i \in DOMAIN (front \o rest)
  BY <1>1, <1>2, <1>3
<1>6. rows[i + 1].seq = i
  <2>1. rows[i + 1] = Row((i + 1) - 1, rows[i + 1].event, PrevOf(rows, i + 1))
    BY <1>1 DEF RowsInv
  <2> QED
    BY <1>1, <2>1 DEF Row
<1> QED
  BY <1>1, <1>4, <1>5, <1>6 DEF Verifies

LEMMA InvDamage == Inv => DamageIsFound
<1> SUFFICES ASSUME Inv, NEW rs \in Altered \cup Shortened PROVE ~Verifies(rs)
  BY DEF DamageIsFound
<1>1. CASE rs \in Altered
  BY <1>1, AlterationBreaks DEF Altered, Inv
<1>2. CASE rs \in Shortened
  BY <1>2, RemovalBreaks DEF Shortened, Inv
<1> QED
  BY <1>1, <1>2

\* A chain of which one event was modified, or one that is not the last was
\* removed, is refused whatever its length.
THEOREM DamageIsFoundAlways == Spec => []DamageIsFound
BY InvAlways, InvDamage, PTL

-----------------------------------------------------------------------------
(***************************************************************************)
(* The refinement.                                                         *)
(***************************************************************************)

LEMMA InitRefines == Init => Log!LogInit
BY DEF Init, Log!LogInit

\* The log of the committed rows grows by the event that is committed.
LEMMA CommitExtends ==
    ASSUME Inv, NEW p \in Processes, Commit(p), NEW e, e = event[p]
    PROVE  Log!Extend(e)
<1> DEFINE log == [i \in DOMAIN rows |-> rows[i].event]
<1>1. Len(rows) \in Nat /\ DOMAIN rows = 1..Len(rows)
  BY DEF Inv, RowsInv
<1>2. /\ event[p] \in Events /\ event[p] \notin Stored
      /\ \A i \in DOMAIN rows : rows'[i] = rows[i]
      /\ DOMAIN rows' = 1..Len(rows) + 1 /\ rows'[Len(rows) + 1].event = event[p]
  BY CommitRows
<1>3. log \in Seq(Events) /\ Len(log) = Len(rows)
  BY <1>1 DEF Inv, RowsInv
<1>4. log' = Append(log, event[p])
  <2>1. /\ Append(log, event[p]) = [i \in 1..Len(rows) + 1 |->
              IF i = Len(rows) + 1 THEN event[p] ELSE log[i]]
    BY <1>1, <1>2, <1>3
  <2>2. log' = [i \in 1..Len(rows) + 1 |-> rows'[i].event]
    BY <1>2
  <2>3. ASSUME NEW i \in 1..Len(rows) + 1
        PROVE  rows'[i].event = IF i = Len(rows) + 1 THEN event[p] ELSE log[i]
    BY <1>1, <1>2
  <2> QED
    BY <2>1, <2>2, <2>3
<1>5. event[p] \notin returned /\ returned' = returned
  BY <1>2 DEF Inv, TypeInv, Commit
<1> QED
  BY <1>4, <1>5 DEF Log!Extend

\* An answer returns an event of the log.
LEMMA AnswerReturns ==
    ASSUME Inv, NEW p \in Processes, Answer(p), NEW e, e = event[p]
    PROVE  Log!Return(e)
<1>1. event[p] \in Stored
  BY DEF Answer, Answerable, Inv, ProcessInv
<1>2. PICK i \in DOMAIN rows : event[p] = rows[i].event
  BY <1>1 DEF Stored
<1>3. rows' = rows /\ returned' = returned \cup {event[p]}
  BY DEF Answer
<1> QED
  BY <1>2, <1>3 DEF Log!Return

LEMMA StepRefines ==
    ASSUME Inv, [Next]_vars
    PROVE  [Log!LogNext]_(Log!logVars)
<1>1. ASSUME NEW p \in Processes, Commit(p) PROVE Log!LogNext
  <2>1. event[p] \in Events
    BY <1>1, CommitRows
  <2>2. PICK e \in Events : e = event[p]
    BY <2>1
  <2>3. Log!Extend(e)
    BY <1>1, <2>2, CommitExtends
  <2> QED
    BY <2>3 DEF Log!LogNext
<1>2. ASSUME NEW p \in Processes, Answer(p) PROVE Log!LogNext
  <2>1. event[p] \in Events
    BY <1>2 DEF Answer, Answerable, Inv, ProcessInv, RowsInv, Stored
  <2>2. PICK e \in Events : e = event[p]
    BY <2>1
  <2>3. Log!Return(e)
    BY <1>2, <2>2, AnswerReturns
  <2> QED
    BY <2>3 DEF Log!LogNext
<1>3. ASSUME UNCHANGED <<rows, returned>> PROVE UNCHANGED Log!logVars
  BY <1>3 DEF Log!logVars
<1>4. ASSUME NEW p \in Processes, Step(p), ~Commit(p), ~Answer(p)
      PROVE  UNCHANGED <<rows, returned>>
  BY <1>4 DEF Step, Begin, ReadHead, Insert, Rollback, CommitFails, Crash
<1>5. CASE UNCHANGED vars
  BY <1>3, <1>5 DEF vars
<1> QED
  BY <1>1, <1>2, <1>3, <1>4, <1>5 DEF Next

\* The log implements AbstractLog: it grows by one event at a time, nothing in it
\* changes, and an event its append returned is in it for good.
THEOREM AuditRefinement == Spec => ImplementsLog
BY InvAlways, InitRefines, StepRefines, PTL DEF Spec, ImplementsLog, Log!LogSpec
=============================================================================
