----------------------------- MODULE AuditChain -----------------------------
(***************************************************************************)
(* The hash chain of audit events, appended to by several processes, each  *)
(* with its own connection to one database.                                *)
(*                                                                         *)
(* at[p]: idle -> begun -> read -> inserted -> committed -> idle; stuck    *)
(* when a COMMIT failed and its connection was left in the transaction.    *)
(* The hash is taken to be without collisions: it is what it was made of.  *)
(***************************************************************************)
EXTENDS Integers, Sequences, SequencesExt

CONSTANTS
    Processes,   \* the processes that append
    Events,      \* the events: type, payload, actor and time as one value
    MaxFailures, \* bound: statements that fail, and deaths
    None         \* no process, no event

ASSUME AuditAssumption ==
    /\ None \notin Processes /\ None \notin Events
    /\ MaxFailures \in Nat

VARIABLES
    rows,      \* audit_events as committed, by seq
    lock,      \* the process that holds the write lock
    at,        \* the next step of each process
    event,     \* the event each process appends
    head,      \* what _head returned: the next seq and the previous hash
    inserted,  \* the rows each has inserted and not committed: one or none
    returned,  \* the events whose append has returned
    failures   \* bound: failures so far

perProcess == <<at, event, head, inserted>>
vars == <<rows, lock, perProcess, returned, failures>>

GenesisHash == <<>>

\* compute_event_hash.
Hash(seq, e, prev) == <<seq, e, prev>>

Row(seq, e, prev) == [seq |-> seq, event |-> e, prev |-> prev, hash |-> Hash(seq, e, prev)]

Steps == {"idle", "begun", "read", "inserted", "committed", "stuck"}

Advance(p, step) == at' = [at EXCEPT ![p] = step]

MayFail == failures < MaxFailures /\ failures' = failures + 1

-----------------------------------------------------------------------------
(***************************************************************************)
(* AuditLog.append inside Database.transaction                             *)
(***************************************************************************)

\* Mutant: the transaction takes the lock with its first write (BEGIN).
Free_Deferred(p) == TRUE

\* BEGIN IMMEDIATE takes the write lock.
Free(p) == lock = None

\* The same event is never appended twice: its time is part of it.
Begin(p, e) ==
    /\ at[p] = "idle"
    /\ \A q \in Processes : event[q] # e
    /\ \A i \in DOMAIN rows : rows[i].event # e
    /\ Free(p)
    /\ lock' = p
    /\ Advance(p, "begun")
    /\ event' = [event EXCEPT ![p] = e]
    /\ UNCHANGED <<rows, head, inserted, returned, failures>>

\* _head.
ChainHead ==
    IF rows = <<>> THEN [seq |-> 0, prev |-> GenesisHash]
    ELSE [seq |-> rows[Len(rows)].seq + 1, prev |-> rows[Len(rows)].hash]

ReadHead(p) ==
    /\ at[p] = "begun"
    /\ head' = [head EXCEPT ![p] = ChainHead]
    /\ Advance(p, "read")
    /\ UNCHANGED <<rows, lock, event, inserted, returned, failures>>

\* seq is the primary key: a second row of one seq is refused.
Insert(p) ==
    /\ at[p] = "read"
    /\ \A i \in DOMAIN rows : rows[i].seq # head[p].seq
    /\ inserted' = [inserted EXCEPT ![p] = <<Row(head[p].seq, event[p], head[p].prev)>>]
    /\ Advance(p, "inserted")
    /\ UNCHANGED <<rows, lock, event, head, returned, failures>>

\* Mutant: the insertion outlives the transaction.
Forgotten_EventOnly(p) == event' = [event EXCEPT ![p] = None] /\ UNCHANGED inserted

\* What a transaction that did not commit leaves behind.
Forgotten(p) == event' = [event EXCEPT ![p] = None] /\ inserted' = [inserted EXCEPT ![p] = <<>>]

\* An exception inside the transaction: ROLLBACK, and the call raises.
Rollback(p) ==
    /\ at[p] \in {"begun", "read", "inserted"}
    /\ MayFail
    /\ lock' = None
    /\ Forgotten(p)
    /\ Advance(p, "idle")
    /\ UNCHANGED <<rows, head, returned>>

Commit(p) ==
    /\ at[p] = "inserted"
    /\ rows' = rows \o inserted[p]
    /\ inserted' = [inserted EXCEPT ![p] = <<>>]
    /\ lock' = None
    /\ Advance(p, "committed")
    /\ UNCHANGED <<event, head, returned, failures>>

\* COMMIT raises outside the try: no ROLLBACK follows, and the lock stays taken.
CommitFails(p) ==
    /\ at[p] = "inserted"
    /\ MayFail
    /\ Advance(p, "stuck")
    /\ UNCHANGED <<rows, lock, event, head, inserted, returned>>

\* Mutant: the caller has its event before the transaction is committed.
Answerable_Inserted(p) == at[p] \in {"inserted", "committed"}

Answerable(p) == at[p] = "committed"

\* append returns the event.
Answer(p) ==
    /\ Answerable(p)
    /\ returned' = returned \cup {event[p]}
    /\ lock' = IF lock = p THEN None ELSE lock
    /\ Forgotten(p)
    /\ Advance(p, "idle")
    /\ UNCHANGED <<rows, head, failures>>

\* The process dies and is started again: what it had not committed is gone,
\* and so is its lock.
Crash(p) ==
    /\ at[p] # "idle"
    /\ MayFail
    /\ lock' = IF lock = p THEN None ELSE lock
    /\ Forgotten(p)
    /\ Advance(p, "idle")
    /\ UNCHANGED <<rows, head, returned>>

-----------------------------------------------------------------------------
(***************************************************************************)
(* verify_chain                                                            *)
(***************************************************************************)

PrevOf(rs, i) == IF i = 1 THEN GenesisHash ELSE rs[i - 1].hash

\* Mutant: links are followed and contents are not.
Verifies_LinksOnly(rs) ==
    \A i \in DOMAIN rs : rs[i].seq = i - 1 /\ rs[i].prev = PrevOf(rs, i)

\* No gap, no broken link, no content that is not the one hashed.
Verifies(rs) ==
    \A i \in DOMAIN rs :
        /\ rs[i].seq = i - 1
        /\ rs[i].prev = PrevOf(rs, i)
        /\ rs[i].hash = Hash(rs[i].seq, rs[i].event, rs[i].prev)

\* A connection sees what it has inserted itself.
SeenBy(p) == rows \o inserted[p]

-----------------------------------------------------------------------------
Init ==
    /\ rows = <<>> /\ lock = None /\ returned = {} /\ failures = 0
    /\ at = [p \in Processes |-> "idle"]
    /\ event = [p \in Processes |-> None]
    /\ head = [p \in Processes |-> [seq |-> 0, prev |-> GenesisHash]]
    /\ inserted = [p \in Processes |-> <<>>]

Step(p) ==
    \/ \E e \in Events : Begin(p, e)
    \/ ReadHead(p) \/ Insert(p) \/ Commit(p) \/ Answer(p)
    \/ Rollback(p) \/ CommitFails(p) \/ Crash(p)

Next == \E p \in Processes : Step(p)

Spec == Init /\ [][Next]_vars

-----------------------------------------------------------------------------
(***************************************************************************)
(* Properties                                                              *)
(***************************************************************************)

\* Every variable has its type; a lock has a holder inside a transaction.
TypeOK ==
    /\ \A i \in DOMAIN rows : rows[i].event \in Events /\ rows[i].seq \in Nat
    /\ lock \in Processes \cup {None}
    /\ at \in [Processes -> Steps]
    /\ event \in [Processes -> Events \cup {None}]
    /\ \A p \in Processes : head[p].seq \in Nat
    /\ \A p \in Processes : inserted[p] # <<>> <=> at[p] \in {"inserted", "stuck"}
    /\ returned \subseteq Events
    /\ failures \in 0..MaxFailures

\* However many processes append, fail and die, the chain verifies, for a reader
\* and for every writer in the middle of its transaction: no fork, no gap
\* ("concurrent appends cannot produce a forked chain").
ChainVerifies == Verifies(rows) /\ \A p \in Processes : Verifies(SeenBy(p))

\* What one row replaced, or one row missing before the last, makes of a chain.
Altered == {[rows EXCEPT ![i].event = e] : i \in DOMAIN rows, e \in Events \cup {None}} \ {rows}
Shortened == {RemoveAt(rows, i) : i \in 1..Len(rows) - 1}

\* verify_chain refuses every chain of which one event was modified, or one that
\* is not the last was removed.
DamageIsFound == \A rs \in Altered \cup Shortened : ~Verifies(rs)

\* The detailed log implements the abstract one: it only grows, by one event at
\* a time, and what was returned is stored for good.
Log == INSTANCE AbstractLog WITH log <- [i \in DOMAIN rows |-> rows[i].event]
ImplementsLog == Log!LogSpec
=============================================================================
