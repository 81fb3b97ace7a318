------------------------------ MODULE Components ------------------------------
(***************************************************************************)
(* The hardware components of one server: what the client's getters report *)
(* (idrac/client.py) and what the sync jobs make of it (idrac/sync.py,     *)
(* _safe_call, _build_component_rows, _reconcile_components).              *)
(*                                                                         *)
(* Nothing keeps two jobs from syncing one server at once.  Each reads the *)
(* getters one by one, then runs one transaction at READ COMMITTED: rows   *)
(* it wrote are locked until it ends, and it sees what others committed.   *)
(***************************************************************************)
EXTENDS Integers, Sequences, Functions

CONSTANTS
    Keys,           \* component slots: what (component_type, name) identifies
    Rank,           \* Rank[k]: the place of slot k among what the getters report
    Getters,        \* the getters in the order of _COMPONENT_SPECS
    GetterOf,       \* GetterOf[k]: the getter that reports slot k
    Parts,          \* the parts that may be in a slot (serial, model, size...)
    FirmwareOf,     \* FirmwareOf[p]: the firmware version part p runs
    Telling,        \* the parts whose own resource states that version
    None,           \* an empty slot, no row, no version
    Jobs,           \* the sync jobs of this server
    MaxSwaps,       \* bound on hardware changes
    MaxFaults       \* bound on incomplete reads and failing transactions

ASSUME ComponentsAssumption ==
    /\ Rank \in [Keys -> Nat]
    /\ Getters \in Seq(Range(Getters)) /\ GetterOf \in [Keys -> Range(Getters)]
    /\ Telling \subseteq Parts /\ FirmwareOf \in [Parts -> Range(FirmwareOf)]
    /\ None \notin Parts /\ None \notin Parts \X (Range(FirmwareOf) \cup {None})
    /\ MaxSwaps \in Nat /\ MaxFaults \in Nat

VARIABLES
    hw,         \* hw[k]: the part now in slot k
    was,        \* ghost: the parts that have ever been in slot k
    table,      \* the committed DellComponent rows
    job,        \* the state of every sync job
    swaps,      \* hardware changes so far
    faults      \* incomplete reads and failed transactions so far

vars == <<hw, was, table, job, swaps, faults>>

\* What slots hold, and the rows made of it: a part with its firmware or without.
Contents == [Keys -> Parts \cup {None}]
Entries == Parts \X (Range(FirmwareOf) \cup {None})
Rows == [Keys -> Entries \cup {None}]
Empty == [k \in Keys |-> None]
NoWrites == [k \in {} |-> None]

\* left: the getters still to call; report: what those called said; mine: the
\* rows written in the open transaction; victims: the rows it is to delete.
\* clean is a ghost: the job read everything, alone, and nothing changed since.
IdleJob == [pc |-> "idle", left |-> <<>>, report |-> Empty,
            mine |-> NoWrites, victims |-> {}, clean |-> FALSE]

InTransaction == {"upsert", "delete"}
Running(j) == job[j].pc \in {"read"} \cup InTransaction

Reported(j) == {k \in Keys : job[j].report[k] # None}

\* What the resource of a part says of it.
Told(p) == <<p, IF p \in Telling THEN FirmwareOf[p] ELSE None>>

\* The next reported row to write, in the order of the report.
Unwritten(j) == Reported(j) \ DOMAIN job[j].mine
Upcoming(j, k) == k \in Unwritten(j) /\ \A l \in Unwritten(j) : Rank[k] <= Rank[l]

\* Rows another transaction has written and not yet committed.
Locked(j, k) == \E i \in Jobs \ {j} : k \in DOMAIN job[i].mine

\* What j's transaction sees: its own writes over the committed rows.
Seen(j, k) == IF k \in DOMAIN job[j].mine THEN job[j].mine[k] ELSE table[k]

Wrote(j, k, p) == [i \in DOMAIN job[j].mine \cup {k} |->
                        IF i = k THEN p ELSE job[j].mine[i]]

-----------------------------------------------------------------------------
Init ==
    /\ hw \in Contents
    /\ was = [k \in Keys |-> {hw[k]} \ {None}]
    /\ table = Empty
    /\ job = [j \in Jobs |-> IdleJob]
    /\ swaps = 0 /\ faults = 0

\* A part is added, removed or replaced while the server runs.
Swap(k) ==
    /\ swaps < MaxSwaps /\ swaps' = swaps + 1
    /\ \E p \in (Parts \cup {None}) \ {hw[k]} :
          /\ hw' = [hw EXCEPT ![k] = p]
          /\ was' = [was EXCEPT ![k] = @ \cup ({p} \ {None})]
    /\ job' = [j \in Jobs |-> [job[j] EXCEPT !.clean = FALSE]]
    /\ UNCHANGED <<table, faults>>

\* The next sync is due and its job starts fetching the inventory.
Begin(j) ==
    /\ job[j].pc \in {"idle", "done"}
    /\ job' = [i \in Jobs |->
                IF i = j
                THEN [IdleJob EXCEPT !.pc = "read", !.left = Getters,
                                     !.clean = \A h \in Jobs \ {j} : ~Running(h)]
                ELSE [job[i] EXCEPT !.clean = FALSE]]
    /\ UNCHANGED <<hw, was, table, swaps, faults>>

Fault == faults < MaxFaults /\ faults' = faults + 1

\* What is there for the getter whose turn it is, and what it may answer: its
\* errors are logged and swallowed, so part of that or nothing.
Present(j) == {k \in Keys : GetterOf[k] = Head(job[j].left) /\ hw[k] # None}
Answers(j) == SUBSET Present(j)

\* One component getter is called.
Read(j) ==
    /\ job[j].pc = "read" /\ job[j].left # <<>>
    /\ \E got \in Answers(j) :
          /\ \/ got = Present(j) /\ UNCHANGED faults
             \/ got # Present(j) /\ Fault
          /\ job' = [job EXCEPT ![j] =
                [job[j] EXCEPT !.left = Tail(job[j].left),
                    !.report = [k \in Keys |-> IF k \in got THEN Told(hw[k])
                                               ELSE job[j].report[k]],
                    !.clean = job[j].clean /\ got = Present(j)]]
    /\ UNCHANGED <<hw, was, table, swaps>>

\* The slots whose firmware the inventory of versions has to add.
Versioned(j) == {k \in Reported(j) : hw[k] # None}

\* The firmware inventory, by slot; like a getter it may answer in part or not
\* at all.  The transaction begins.
Enter(j) ==
    /\ job[j].pc = "read" /\ job[j].left = <<>>
    /\ \E got \in SUBSET Versioned(j) :
          /\ \/ got = Versioned(j) /\ UNCHANGED faults
             \/ got # Versioned(j) /\ Fault
          /\ job' = [job EXCEPT ![j] =
                [job[j] EXCEPT !.pc = "upsert",
                    !.report = [k \in Keys |->
                        IF k \in got THEN <<job[j].report[k][1], FirmwareOf[hw[k]]>>
                                     ELSE job[j].report[k]],
                    !.clean = job[j].clean /\ got = Versioned(j)]]
    /\ UNCHANGED <<hw, was, table, swaps>>

\* Row k is written as p.
Write(j, k, p) == job' = [job EXCEPT ![j].mine = Wrote(j, k, p)]

\* Mutants: no lock is waited for; an existing row is left as it is.
UpsertUnlocked(j) ==
    /\ job[j].pc = "upsert"
    /\ \E k \in Keys : Upcoming(j, k) /\ Write(j, k, job[j].report[k])
    /\ UNCHANGED <<hw, was, table, swaps, faults>>
UpsertNewOnly(j) ==
    /\ job[j].pc = "upsert"
    /\ \E k \in Keys : /\ Upcoming(j, k) /\ ~Locked(j, k)
                       /\ Write(j, k, IF Seen(j, k) = None THEN job[j].report[k]
                                                            ELSE Seen(j, k))
    /\ UNCHANGED <<hw, was, table, swaps, faults>>

\* update_or_create: waits for the row's lock.
Upsert(j) ==
    /\ job[j].pc = "upsert"
    /\ \E k \in Keys : Upcoming(j, k) /\ ~Locked(j, k) /\ Write(j, k, job[j].report[k])
    /\ UNCHANGED <<hw, was, table, swaps, faults>>

\* Mutants: nothing is deleted; an empty report deletes like any other.
VictimsNever(j) == {k \in Keys : Reported(j) # Reported(j)}
VictimsAlways(j) == {k \in Keys : Seen(j, k) # None /\ k \notin Reported(j)}

\* The rows not reported any more; none when nothing was reported at all.
Victims(j) ==
    {k \in Keys : Reported(j) # {} /\ Seen(j, k) # None /\ k \notin Reported(j)}

\* The SELECT of the deletion.
Prune(j) ==
    /\ job[j].pc = "upsert" /\ Unwritten(j) = {}
    /\ job' = [job EXCEPT ![j].pc = "delete", ![j].victims = Victims(j)]
    /\ UNCHANGED <<hw, was, table, swaps, faults>>

\* Its DELETE, row by row, waiting for each lock.  (The code deletes by id: a row
\* another job deleted and entered anew since the SELECT is spared there.)
Delete(j) ==
    /\ job[j].pc = "delete"
    /\ \E k \in job[j].victims :
          /\ ~Locked(j, k)
          /\ job' = [job EXCEPT ![j] = [job[j] EXCEPT
                        !.mine = Wrote(j, k, None), !.victims = @ \ {k}]]
    /\ UNCHANGED <<hw, was, table, swaps, faults>>

Commit(j) ==
    /\ job[j].pc = "delete" /\ job[j].victims = {}
    /\ table' = [k \in Keys |-> Seen(j, k)]
    /\ job' = [job EXCEPT ![j] = [IdleJob EXCEPT !.pc = "done", !.clean = job[j].clean]]
    /\ UNCHANGED <<hw, was, swaps, faults>>

RolledBack(j) == job' = [job EXCEPT ![j] = IdleJob]

\* The connection or a later stage of the sync fails: what it wrote is rolled back.
Rollback(j) ==
    /\ Running(j) /\ Fault
    /\ RolledBack(j)
    /\ UNCHANGED <<hw, was, table, swaps>>

WaitsFor(j, i) ==
    \/ /\ job[j].pc = "upsert"
       /\ \E k \in DOMAIN job[i].mine : Upcoming(j, k)
    \/ /\ job[j].pc = "delete" /\ job[j].victims # {}
       /\ job[j].victims \subseteq DOMAIN job[i].mine

\* The database breaks a deadlock of two transactions by failing one.
DeadlockVictim(j) ==
    /\ \E i \in Jobs \ {j} : WaitsFor(j, i) /\ WaitsFor(i, j)
    /\ RolledBack(j)
    /\ UNCHANGED <<hw, was, table, swaps, faults>>

Progress(j) ==
    \/ Begin(j) \/ Read(j) \/ Enter(j) \/ Upsert(j) \/ Prune(j) \/ Delete(j)
    \/ Commit(j) \/ DeadlockVictim(j)

Next ==
    \/ \E j \in Jobs : Progress(j) \/ Rollback(j)
    \/ \E k \in Keys : Swap(k)

Spec == Init /\ [][Next]_vars

\* Workers run what they hold, the recurring job keeps syncing the server,
\* and the database finds its deadlocks and grants a lock to who waits for it.
FairSpec ==
    Spec /\ \A j \in Jobs : WF_vars(Progress(j)) /\ SF_vars(Upsert(j) \/ Delete(j))

-----------------------------------------------------------------------------
Writes == UNION {[S -> Entries \cup {None}] : S \in SUBSET Keys}

JobType == [pc : {"idle", "read", "upsert", "delete", "done"}, left : Seq(Range(Getters)),
            report : Rows, mine : Writes, victims : SUBSET Keys, clean : BOOLEAN]

JobsOK ==
    /\ job \in [Jobs -> JobType]
    /\ \A j \in Jobs :
          /\ DOMAIN job[j].mine # {} => job[j].pc \in InTransaction
          /\ \A k \in DOMAIN job[j].mine : ~Locked(j, k)

\* Types; rows are written in transactions only, each by one at a time.
TypeOK ==
    /\ hw \in Contents /\ table \in Rows /\ was \in [Keys -> SUBSET Parts]
    /\ JobsOK
    /\ swaps \in 0..MaxSwaps /\ faults \in 0..MaxFaults

\* The inventory says of every slot what is in it, firmware included.
Full(p) == IF p = None THEN None ELSE <<p, FirmwareOf[p]>>
Mirrored == table = [k \in Keys |-> Full(hw[k])]

\* A sync that read everything, alone, from hardware that stood still leaves
\* exactly that hardware, whatever syncs before it left (sync.py 167-212).
CleanSyncMirrors ==
    \A j \in Jobs : job[j].pc = "done" /\ job[j].clean /\ hw # Empty => Mirrored

\* The inventory keeps its promise (ComponentMirror) through failing getters,
\* rollbacks and overlapping syncs (sync.py 130-136, 203-211).
Mirror == INSTANCE ComponentMirror
    WITH Keys <- Keys, Parts <- Parts, FirmwareOf <- FirmwareOf, None <- None,
         hw <- hw, was <- was, table <- table
KeepsPromise == Mirror!Spec

\* What KeepsPromise rests on: a job has read what was there, writes what it
\* read, and deletes only rows it did not read and only if it read some.
Faithful(r, past) ==
    /\ \A k \in Keys : r.report[k] \in Mirror!Entries(past[k]) \cup {None}
    /\ \A k \in DOMAIN r.mine : r.mine[k] = r.report[k]
    /\ \A k \in r.victims : r.report[k] = None
    /\ r.pc = "delete" => \A k \in Keys : r.report[k] # None => k \in DOMAIN r.mine
    /\ r.report = Empty \/ r.pc = "read" => DOMAIN r.mine = {} /\ r.victims = {}

MirrorInv ==
    /\ \A k \in Keys : hw[k] \in was[k] \cup {None}
    /\ \A j \in Jobs : Faithful(job[j], was)

\* Once the hardware and the getters are stable the inventory is the hardware
\* for good, and no two syncs wait for each other forever (sync.py 167-212).
Converges == <>[](hw = Empty \/ Mirrored)
=============================================================================
