--------------------------- MODULE ComponentsProofs ---------------------------
(* Proofs about Components, for any slots, parts, jobs and bounds: type      *)
(* correctness, that the inventory keeps the promise of ComponentMirror, and *)
(* that a sync which reads everything right and alone mirrors the hardware.  *)
EXTENDS Components, TLAPS

-----------------------------------------------------------------------------
(* Type correctness.                                                         *)

LEMMA Bounds == MaxSwaps \in Nat /\ MaxFaults \in Nat /\ Getters \in Seq(Range(Getters))
BY ComponentsAssumption

LEMMA InitType == Init => TypeOK
<1> SUFFICES ASSUME Init PROVE TypeOK
  OBVIOUS
<1>1. NoWrites \in Writes /\ DOMAIN NoWrites = {}
  <2>1. NoWrites \in [{} -> Entries \cup {None}]
    BY DEF NoWrites
  <2> QED BY <2>1 DEF Writes, NoWrites
<1>2. Empty \in Rows
  BY DEF Empty, Rows
<1>3. IdleJob \in JobType
  BY <1>1, <1>2 DEF IdleJob, JobType
<1>4. was \in [Keys -> SUBSET Parts]
  BY DEF Init, Contents
<1>5. JobsOK
  BY <1>1, <1>3 DEF Init, JobsOK, IdleJob, Locked
<1> QED BY <1>2, <1>4, <1>5, Bounds DEF Init, TypeOK

\* A job replaced by a well-typed one that adds no row others have written.
LEMMA JobReplaced ==
    ASSUME JobsOK, NEW j \in Jobs, NEW r \in JobType,
           job' = [job EXCEPT ![j] = r],
           DOMAIN r.mine # {} => r.pc \in InTransaction,
           \A k \in DOMAIN r.mine \ DOMAIN job[j].mine : ~Locked(j, k)
    PROVE  JobsOK'
<1>1. job' \in [Jobs -> JobType] /\ job'[j] = r /\ \A i \in Jobs \ {j} : job'[i] = job[i]
  BY DEF JobsOK
<1>2. ASSUME NEW i \in Jobs PROVE DOMAIN job'[i].mine # {} => job'[i].pc \in InTransaction
  BY <1>1 DEF JobsOK
<1>3. ASSUME NEW h \in Jobs, NEW i \in Jobs \ {h}, NEW k \in DOMAIN job'[h].mine,
             k \in DOMAIN job'[i].mine
      PROVE  FALSE
  <2>1. CASE h # j /\ i # j
    BY <1>1, <1>3, <2>1 DEF JobsOK, Locked
  <2>2. CASE h = j
    BY <1>1, <1>3, <2>2 DEF JobsOK, Locked
  <2>3. CASE i = j
    BY <1>1, <1>3, <2>3 DEF JobsOK, Locked
  <2> QED BY <2>1, <2>2, <2>3
<1> QED BY <1>1, <1>2, <1>3 DEF JobsOK, Locked

LEMMA IdleJobType == IdleJob \in JobType /\ DOMAIN IdleJob.mine = {}
<1>1. NoWrites \in Writes /\ DOMAIN NoWrites = {}
  <2>1. NoWrites \in [{} -> Entries \cup {None}]
    BY DEF NoWrites
  <2> QED BY <2>1 DEF Writes, NoWrites
<1>2. Empty \in Rows
  BY DEF Empty, Rows
<1> QED BY <1>1, <1>2 DEF IdleJob, JobType

\* One more written row.
LEMMA WroteType ==
    ASSUME TypeOK, NEW j \in Jobs, NEW k \in Keys, NEW p \in Entries \cup {None}
    PROVE  /\ Wrote(j, k, p) \in Writes
           /\ DOMAIN Wrote(j, k, p) = DOMAIN job[j].mine \cup {k}
           /\ Wrote(j, k, p)[k] = p
           /\ \A l \in DOMAIN job[j].mine \ {k} : Wrote(j, k, p)[l] = job[j].mine[l]
<1>1. job[j].mine \in Writes
  BY DEF TypeOK, JobsOK, JobType
<1>2. PICK S \in SUBSET Keys : job[j].mine \in [S -> Entries \cup {None}]
  BY <1>1 DEF Writes
<1>3. DOMAIN job[j].mine = S
  BY <1>2
<1>4. Wrote(j, k, p) \in [S \cup {k} -> Entries \cup {None}]
  BY <1>2, <1>3 DEF Wrote
<1>5. S \cup {k} \in SUBSET Keys
  OBVIOUS
<1>6. Wrote(j, k, p) \in Writes
  BY <1>4, <1>5 DEF Writes
<1>7. DOMAIN Wrote(j, k, p) = DOMAIN job[j].mine \cup {k}
  BY DEF Wrote
<1> QED BY <1>6, <1>7 DEF Wrote

\* What a getter says of a part, and the firmware laid over it, make a row.
LEMMA VersionsNamed == Range(FirmwareOf) = {FirmwareOf[p] : p \in Parts}
BY ComponentsAssumption DEF Range

LEMMA ToldEntry == ASSUME NEW p \in Parts PROVE Told(p) \in Entries
<1>1. FirmwareOf[p] \in Range(FirmwareOf)
  BY VersionsNamed
<1> QED BY <1>1 DEF Told, Entries

LEMMA VersionedEntry ==
    ASSUME TypeOK, NEW j \in Jobs, NEW k \in Versioned(j)
    PROVE  <<job[j].report[k][1], FirmwareOf[hw[k]]>> \in Entries
<1>1. k \in Keys /\ job[j].report[k] # None /\ hw[k] # None
  BY DEF Versioned, Reported
<1>2. hw[k] \in Parts
  BY <1>1 DEF TypeOK, Contents
<1>3. job[j].report[k] \in Entries
  BY <1>1 DEF TypeOK, JobsOK, JobType, Rows
<1>4. FirmwareOf[hw[k]] \in Range(FirmwareOf)
  BY <1>2, VersionsNamed
<1> QED BY <1>3, <1>4 DEF Entries

LEMMA NextType == TypeOK /\ [Next]_vars => TypeOK'
<1> SUFFICES ASSUME TypeOK, [Next]_vars PROVE TypeOK'
  OBVIOUS
<1> USE DEF InTransaction
<1>1. ASSUME NEW k \in Keys, Swap(k) PROVE TypeOK'
  <2>1. hw' \in Contents /\ was' \in [Keys -> SUBSET Parts] /\ table' = table
        /\ swaps' \in 0..MaxSwaps /\ faults' \in 0..MaxFaults
    BY <1>1, Bounds DEF Swap, TypeOK, Contents
  <2>2. job' \in [Jobs -> JobType]
        /\ \A j \in Jobs : job'[j].pc = job[j].pc /\ job'[j].mine = job[j].mine
    <3>1. job' = [j \in Jobs |-> [job[j] EXCEPT !.clean = FALSE]]
      BY <1>1 DEF Swap
    <3>2. ASSUME NEW j \in Jobs
          PROVE  /\ [job[j] EXCEPT !.clean = FALSE] \in JobType
                 /\ [job[j] EXCEPT !.clean = FALSE].pc = job[j].pc
                 /\ [job[j] EXCEPT !.clean = FALSE].mine = job[j].mine
      <4>1. job[j] \in JobType
        BY DEF TypeOK, JobsOK
      <4> QED BY <4>1 DEF JobType
    <3> QED BY <3>1, <3>2
  <2>3. JobsOK'
    BY <2>2 DEF TypeOK, JobsOK, Locked
  <2> QED BY <2>1, <2>2, <2>3 DEF TypeOK
<1>2. ASSUME NEW j \in Jobs, Begin(j) PROVE TypeOK'
  <2>1. job' \in [Jobs -> JobType]
        /\ \A i \in Jobs : \/ job'[i].pc = job[i].pc /\ job'[i].mine = job[i].mine
                           \/ DOMAIN job'[i].mine = {}
    BY <1>2, IdleJobType, Bounds DEF Begin, TypeOK, JobsOK, JobType, IdleJob
  <2>2. JobsOK'
    BY <2>1 DEF TypeOK, JobsOK, Locked
  <2> QED BY <1>2, <2>2 DEF TypeOK, Begin
<1>3. ASSUME NEW j \in Jobs, Read(j) PROVE TypeOK'
  <2>1. PICK got \in Answers(j) :
          LET r == [job[j] EXCEPT !.left = Tail(job[j].left),
                        !.report = [k \in Keys |-> IF k \in got THEN Told(hw[k])
                                                   ELSE job[j].report[k]],
                        !.clean = job[j].clean /\ got = Present(j)]
          IN  job' = [job EXCEPT ![j] = r]
    BY <1>3 DEF Read
  <2> DEFINE r == [job[j] EXCEPT !.left = Tail(job[j].left),
                        !.report = [k \in Keys |-> IF k \in got THEN Told(hw[k])
                                                   ELSE job[j].report[k]],
                        !.clean = job[j].clean /\ got = Present(j)]
  <2>2. Tail(job[j].left) \in Seq(Range(Getters))
    BY <1>3 DEF Read, TypeOK, JobsOK, JobType
  <2>6. \A k \in got : Told(hw[k]) \in Entries
    BY ToldEntry DEF Answers, Present, TypeOK, Contents
  <2>3. [k \in Keys |-> IF k \in got THEN Told(hw[k]) ELSE job[j].report[k]] \in Rows
    BY <2>6 DEF TypeOK, JobsOK, JobType, Rows
  <2>10. job[j] \in JobType
    BY DEF TypeOK, JobsOK
  <2>4. r \in JobType /\ r.mine = job[j].mine /\ r.pc = job[j].pc
    BY <2>2, <2>3, <2>10 DEF JobType
  <2>5. job' = [job EXCEPT ![j] = r]
    BY <2>1
  <2>7. faults' \in 0..MaxFaults
    BY <1>3, Bounds DEF Read, Fault, TypeOK
  <2>8. DOMAIN r.mine # {} => r.pc \in InTransaction
    BY <2>4 DEF TypeOK, JobsOK
  <2> HIDE DEF r
  <2>9. JobsOK'
    BY <2>4, <2>5, <2>8, JobReplaced DEF TypeOK
  <2> QED BY <1>3, <2>7, <2>9 DEF Read, TypeOK
<1>4. ASSUME NEW j \in Jobs, Enter(j) PROVE TypeOK'
  <2> DEFINE full(got) == [k \in Keys |->
                IF k \in got THEN <<job[j].report[k][1], FirmwareOf[hw[k]]>>
                             ELSE job[j].report[k]]
             r(got, c) == [job[j] EXCEPT !.pc = "upsert", !.report = full(got), !.clean = c]
  <2>1. PICK got \in SUBSET Versioned(j) :
          job' = [job EXCEPT ![j] = r(got, job[j].clean /\ got = Versioned(j))]
    BY <1>4 DEF Enter
  <2> DEFINE c == job[j].clean /\ got = Versioned(j)
  <2>2. job[j] \in JobType
    BY DEF TypeOK, JobsOK
  <2>3. full(got) \in Rows
    <3>1. \A k \in got : <<job[j].report[k][1], FirmwareOf[hw[k]]>> \in Entries
      BY VersionedEntry
    <3> QED BY <2>2, <3>1 DEF JobType, Rows
  <2> HIDE DEF full
  <2>4. c \in BOOLEAN
    BY <2>2 DEF JobType
  <2> HIDE DEF c
  <2>5. r(got, c) \in JobType /\ r(got, c).mine = job[j].mine /\ r(got, c).pc = "upsert"
    BY <2>2, <2>3, <2>4 DEF JobType
  <2>6. job' = [job EXCEPT ![j] = r(got, c)]
    BY <2>1 DEF c
  <2>7. faults' \in 0..MaxFaults
    BY <1>4, Bounds DEF Enter, Fault, TypeOK
  <2> HIDE DEF r
  <2>9. JobsOK'
    BY <2>5, <2>6, JobReplaced DEF TypeOK
  <2> QED BY <1>4, <2>7, <2>9 DEF Enter, TypeOK
<1>5. ASSUME NEW j \in Jobs, Upsert(j) PROVE TypeOK'
  <2>1. PICK k \in Keys : Upcoming(j, k) /\ ~Locked(j, k) /\ Write(j, k, job[j].report[k])
    BY <1>5 DEF Upsert
  <2> DEFINE r == [job[j] EXCEPT !.mine = Wrote(j, k, job[j].report[k])]
  <2>2. job[j].report[k] \in Entries \cup {None}
    BY DEF TypeOK, JobsOK, JobType, Rows
  <2>5. /\ Wrote(j, k, job[j].report[k]) \in Writes
        /\ DOMAIN Wrote(j, k, job[j].report[k]) = DOMAIN job[j].mine \cup {k}
    BY <2>2, WroteType
  <2>6. job[j] \in JobType /\ job[j].pc = "upsert"
    BY <1>5 DEF Upsert, TypeOK, JobsOK
  <2>3. r \in JobType /\ r.mine = Wrote(j, k, job[j].report[k]) /\ r.pc = "upsert"
        /\ job' = [job EXCEPT ![j] = r]
    BY <2>1, <2>5, <2>6 DEF Write, JobType
  <2>4. \A l \in DOMAIN r.mine \ DOMAIN job[j].mine : ~Locked(j, l)
    BY <2>1, <2>3, <2>5
  <2> HIDE DEF r
  <2>9. JobsOK'
    BY <2>3, <2>4, JobReplaced DEF TypeOK
  <2> QED BY <1>5, <2>9 DEF Upsert, TypeOK
<1>6. ASSUME NEW j \in Jobs, Prune(j) PROVE TypeOK'
  <2> DEFINE r == [job[j] EXCEPT !.pc = "delete", !.victims = Victims(j)]
  <2>1. Victims(j) \in SUBSET Keys
    BY DEF Victims
  <2>2. r \in JobType /\ r.mine = job[j].mine /\ r.pc = "delete"
        /\ job' = [job EXCEPT ![j] = r]
    BY <1>6, <2>1 DEF Prune, TypeOK, JobsOK, JobType
  <2> HIDE DEF r
  <2>9. JobsOK'
    BY <2>2, JobReplaced DEF TypeOK
  <2> QED BY <1>6, <2>9 DEF Prune, TypeOK
<1>7. ASSUME NEW j \in Jobs, Delete(j) PROVE TypeOK'
  <2>1. PICK k \in job[j].victims :
          /\ ~Locked(j, k)
          /\ job' = [job EXCEPT ![j] = [job[j] EXCEPT
                        !.mine = Wrote(j, k, None), !.victims = job[j].victims \ {k}]]
    BY <1>7 DEF Delete
  <2> DEFINE r == [job[j] EXCEPT !.mine = Wrote(j, k, None),
                                 !.victims = job[j].victims \ {k}]
  <2>2. k \in Keys
    BY DEF TypeOK, JobsOK, JobType
  <2>6. /\ Wrote(j, k, None) \in Writes
        /\ DOMAIN Wrote(j, k, None) = DOMAIN job[j].mine \cup {k}
    BY <2>2, WroteType
  <2>7. job[j] \in JobType /\ job[j].pc = "delete"
    BY <1>7 DEF Delete, TypeOK, JobsOK
  <2>3. r \in JobType /\ r.mine = Wrote(j, k, None) /\ r.pc = "delete"
    BY <2>6, <2>7 DEF JobType
  <2>4. \A l \in DOMAIN r.mine \ DOMAIN job[j].mine : ~Locked(j, l)
    BY <2>1, <2>3, <2>6
  <2>5. job' = [job EXCEPT ![j] = r]
    BY <2>1
  <2> HIDE DEF r
  <2>9. JobsOK'
    BY <2>3, <2>4, <2>5, JobReplaced DEF TypeOK
  <2> QED BY <1>7, <2>9 DEF Delete, TypeOK
<1>8. ASSUME NEW j \in Jobs, Commit(j) PROVE TypeOK'
  <2> DEFINE r == [IdleJob EXCEPT !.pc = "done", !.clean = job[j].clean]
  <2>1. r \in JobType /\ DOMAIN r.mine = {} /\ job' = [job EXCEPT ![j] = r]
    BY <1>8, IdleJobType DEF Commit, TypeOK, JobsOK, JobType, IdleJob
  <2>2. \A k \in Keys : Seen(j, k) \in Entries \cup {None}
    BY DEF Seen, TypeOK, JobsOK, JobType, Writes, Rows
  <2>3. table' \in Rows
    BY <1>8, <2>2 DEF Commit, Rows
  <2> HIDE DEF r
  <2>9. JobsOK'
    BY <2>1, JobReplaced DEF TypeOK
  <2> QED BY <1>8, <2>3, <2>9 DEF Commit, TypeOK
<1>9. ASSUME NEW j \in Jobs, RolledBack(j), UNCHANGED <<hw, was, table, swaps>>,
             faults' \in 0..MaxFaults
      PROVE  TypeOK'
  <2>1. JobsOK'
    BY <1>9, IdleJobType, JobReplaced DEF RolledBack, TypeOK
  <2> QED BY <1>9, <2>1 DEF TypeOK
<1>10. ASSUME NEW j \in Jobs, Rollback(j) \/ DeadlockVictim(j) PROVE TypeOK'
  BY <1>9, <1>10, Bounds DEF Rollback, DeadlockVictim, Fault, TypeOK
<1>11. CASE UNCHANGED vars
  BY <1>11 DEF vars, TypeOK, JobsOK, Locked
<1> QED BY <1>1, <1>2, <1>3, <1>4, <1>5, <1>6, <1>7, <1>8, <1>10, <1>11
        DEF Next, Progress

\* Every reachable state is well-typed, and no two open transactions have
\* written the same row (sync.py 183-198, the database's row locks).
THEOREM TypeCorrect == Spec => []TypeOK
BY InitType, NextType, PTL DEF Spec

-----------------------------------------------------------------------------
(* The inventory keeps its promise: MirrorInv is inductive, and under it     *)
(* every step is one of ComponentMirror or changes nothing it speaks of.     *)

LEMMA InitMirrorInv == Init => MirrorInv
<1> SUFFICES ASSUME Init PROVE MirrorInv
  OBVIOUS
<1>1. ASSUME NEW k \in Keys PROVE hw[k] \in was[k] \cup {None}
  BY DEF Init
<1>2. ASSUME NEW j \in Jobs PROVE Faithful(job[j], was)
  BY DEF Init, Faithful, IdleJob, Empty, NoWrites
<1> QED BY <1>1, <1>2 DEF MirrorInv

LEMMA FaithfulReplaced ==
    ASSUME TypeOK, MirrorInv, NEW j \in Jobs, NEW r, Faithful(r, was),
           job' = [job EXCEPT ![j] = r], hw' = hw, was' = was
    PROVE  MirrorInv'
<1>1. \A i \in Jobs : job'[i] = IF i = j THEN r ELSE job[i]
  BY DEF TypeOK, JobsOK
<1>2. ASSUME NEW i \in Jobs PROVE Faithful(job'[i], was')
  <2>1. CASE i = j
    BY <1>1, <2>1
  <2>2. CASE i # j
    BY <1>1, <2>2 DEF MirrorInv
  <2> QED BY <2>1, <2>2
<1>3. \A k \in Keys : hw'[k] \in was'[k] \cup {None}
  BY DEF MirrorInv
<1> QED BY <1>2, <1>3 DEF MirrorInv

LEMMA RolledBackMirrorInv ==
    ASSUME TypeOK, MirrorInv, NEW j \in Jobs, RolledBack(j), hw' = hw, was' = was
    PROVE  MirrorInv'
<1>1. Faithful(IdleJob, was)
  BY DEF Faithful, IdleJob, Empty, NoWrites
<1> QED BY <1>1, FaithfulReplaced DEF RolledBack

LEMMA NextMirrorInv == TypeOK /\ MirrorInv /\ [Next]_vars => MirrorInv'
<1> SUFFICES ASSUME TypeOK, MirrorInv, [Next]_vars PROVE MirrorInv'
  OBVIOUS
<1>0. ASSUME NEW j \in Jobs PROVE job[j] \in JobType /\ Faithful(job[j], was)
  BY DEF TypeOK, JobsOK, MirrorInv
<1>1. ASSUME NEW k \in Keys, Swap(k) PROVE MirrorInv'
  <2>1. PICK p \in Parts \cup {None} :
          /\ hw' = [hw EXCEPT ![k] = p]
          /\ was' = [was EXCEPT ![k] = was[k] \cup ({p} \ {None})]
    BY <1>1 DEF Swap
  <2>2. \A l \in Keys : was[l] \subseteq was'[l]
    BY <2>1 DEF TypeOK
  <2>3. ASSUME NEW l \in Keys PROVE hw'[l] \in was'[l] \cup {None}
    <3>1. CASE l = k
      BY <2>1, <3>1 DEF TypeOK, Contents
    <3>2. CASE l # k
      BY <2>1, <3>2 DEF TypeOK, Contents, MirrorInv
    <3> QED BY <3>1, <3>2
  <2>5. \A l \in Keys : Mirror!Entries(was[l]) \subseteq Mirror!Entries(was'[l])
    BY <2>2 DEF Mirror!Entries
  <2>4. ASSUME NEW j \in Jobs PROVE Faithful(job'[j], was')
    <3>1. job'[j] = [job[j] EXCEPT !.clean = FALSE]
      BY <1>1 DEF Swap
    <3>2. job[j] \in JobType
      BY <1>0
    <3>3. /\ job'[j].pc = job[j].pc /\ job'[j].report = job[j].report
          /\ job'[j].mine = job[j].mine /\ job'[j].victims = job[j].victims
      BY <3>1, <3>2 DEF JobType
    <3>4. Faithful(job[j], was)
      BY <1>0
    <3>5. \A l \in Keys : job[j].report[l] \in Mirror!Entries(was'[l]) \cup {None}
      BY <2>5, <3>4 DEF Faithful
    <3> QED BY <3>3, <3>4, <3>5 DEF Faithful
  <2> QED BY <2>3, <2>4 DEF MirrorInv
<1>2. ASSUME NEW j \in Jobs, Begin(j) PROVE MirrorInv'
  <2>1. \A i \in Jobs :
          \/ \E c \in BOOLEAN :
                job'[i] = [IdleJob EXCEPT !.pc = "read", !.left = Getters, !.clean = c]
          \/ job'[i] = [job[i] EXCEPT !.clean = FALSE]
    BY <1>2 DEF Begin
  <2>2. ASSUME NEW i \in Jobs PROVE Faithful(job'[i], was)
    <3>1. CASE job'[i] = [job[i] EXCEPT !.clean = FALSE]
      <4>1. job[i] \in JobType
        BY <1>0
      <4>2. /\ job'[i].pc = job[i].pc /\ job'[i].report = job[i].report
            /\ job'[i].mine = job[i].mine /\ job'[i].victims = job[i].victims
        BY <3>1, <4>1 DEF JobType
      <4> QED BY <1>0, <4>2 DEF Faithful
    <3>2. CASE \E c \in BOOLEAN :
                job'[i] = [IdleJob EXCEPT !.pc = "read", !.left = Getters, !.clean = c]
      BY <3>2 DEF Faithful, IdleJob, Empty, NoWrites
    <3> QED BY <2>1, <3>1, <3>2
  <2> QED BY <1>2, <2>2 DEF Begin, MirrorInv
<1>3. ASSUME NEW j \in Jobs, Read(j) PROVE MirrorInv'
  <2> DEFINE seen(got) == [k \in Keys |-> IF k \in got THEN Told(hw[k]) ELSE job[j].report[k]]
             r(got, c) == [job[j] EXCEPT !.left = Tail(job[j].left),
                                !.report = seen(got), !.clean = c]
  <2>1. PICK got \in Answers(j) :
          job' = [job EXCEPT ![j] = r(got, job[j].clean /\ got = Present(j))]
    BY <1>3 DEF Read
  <2> DEFINE c == job[j].clean /\ got = Present(j)
  <2>2. job[j] \in JobType /\ Faithful(job[j], was) /\ job[j].pc = "read"
    BY <1>0, <1>3 DEF Read
  <2>3. /\ r(got, c).pc = "read" /\ r(got, c).report = seen(got)
        /\ r(got, c).mine = job[j].mine /\ r(got, c).victims = job[j].victims
    BY <2>2 DEF JobType
  <2>7. \A k \in got : k \in Keys /\ hw[k] \in was[k]
    BY DEF Answers, Present, MirrorInv
  <2>8. \A k \in got : Told(hw[k]) \in Mirror!Entries(was[k])
    BY <2>7 DEF Told, Mirror!Entries
  <2>4. \A k \in Keys : seen(got)[k] \in Mirror!Entries(was[k]) \cup {None}
    BY <2>2, <2>8 DEF Faithful
  <2>5. DOMAIN job[j].mine = {} /\ job[j].victims = {}
    BY <2>2 DEF Faithful
  <2> HIDE DEF seen
  <2>6. Faithful(r(got, c), was)
    BY <2>3, <2>4, <2>5 DEF Faithful
  <2> HIDE DEF r
  <2> QED BY <1>3, <2>1, <2>6, FaithfulReplaced DEF Read
<1>4. ASSUME NEW j \in Jobs, Enter(j) PROVE MirrorInv'
  <2> DEFINE full(got) == [k \in Keys |->
                IF k \in got THEN <<job[j].report[k][1], FirmwareOf[hw[k]]>>
                             ELSE job[j].report[k]]
             r(got, c) == [job[j] EXCEPT !.pc = "upsert", !.report = full(got), !.clean = c]
  <2>1. PICK got \in SUBSET Versioned(j) :
          job' = [job EXCEPT ![j] = r(got, job[j].clean /\ got = Versioned(j))]
    BY <1>4 DEF Enter
  <2> DEFINE c == job[j].clean /\ got = Versioned(j)
  <2>2. job[j] \in JobType /\ Faithful(job[j], was) /\ job[j].pc = "read"
    BY <1>0, <1>4 DEF Enter
  <2>3. /\ r(got, c).pc = "upsert" /\ r(got, c).report = full(got)
        /\ r(got, c).mine = job[j].mine /\ r(got, c).victims = job[j].victims
    BY <2>2 DEF JobType
  <2>4. ASSUME NEW k \in got
        PROVE  <<job[j].report[k][1], FirmwareOf[hw[k]]>> \in Mirror!Entries(was[k])
    <3>1. k \in Keys /\ job[j].report[k] # None /\ hw[k] # None
      BY DEF Versioned, Reported
    <3>2. hw[k] \in was[k] /\ job[j].report[k] \in Mirror!Entries(was[k])
      BY <2>2, <3>1 DEF MirrorInv, Faithful
    <3>3. job[j].report[k][1] \in was[k]
      BY <3>2 DEF Mirror!Entries
    <3> QED BY <3>2, <3>3 DEF Mirror!Entries
  <2>5. \A k \in Keys : full(got)[k] \in Mirror!Entries(was[k]) \cup {None}
    BY <2>2, <2>4 DEF Faithful
  <2>6. DOMAIN job[j].mine = {} /\ job[j].victims = {}
    BY <2>2 DEF Faithful
  <2> HIDE DEF full
  <2>7. Faithful(r(got, c), was)
    BY <2>3, <2>5, <2>6 DEF Faithful
  <2> HIDE DEF r
  <2> QED BY <1>4, <2>1, <2>7, FaithfulReplaced DEF Enter
<1>5. ASSUME NEW j \in Jobs, Upsert(j) PROVE MirrorInv'
  <2>1. PICK k \in Keys : Upcoming(j, k) /\ Write(j, k, job[j].report[k])
    BY <1>5 DEF Upsert
  <2> DEFINE r == [job[j] EXCEPT !.mine = Wrote(j, k, job[j].report[k])]
  <2>2. job[j] \in JobType /\ Faithful(job[j], was) /\ job[j].pc = "upsert"
    BY <1>0, <1>5 DEF Upsert
  <2>3. /\ r.pc = "upsert" /\ r.report = job[j].report
        /\ r.mine = Wrote(j, k, job[j].report[k]) /\ r.victims = job[j].victims
    BY <2>2 DEF JobType
  <2>4. job[j].report[k] # None
    BY <2>1 DEF Upcoming, Unwritten, Reported
  <2>9. LET w == Wrote(j, k, job[j].report[k])
        IN  /\ DOMAIN w = DOMAIN job[j].mine \cup {k} /\ w[k] = job[j].report[k]
            /\ \A l \in DOMAIN job[j].mine \ {k} : w[l] = job[j].mine[l]
    BY DEF Wrote
  <2>5. \A l \in DOMAIN r.mine : r.mine[l] = job[j].report[l]
    BY <2>2, <2>3, <2>9 DEF Faithful
  <2>6. job[j].report # Empty
    BY <2>4 DEF Empty
  <2>7. job' = [job EXCEPT ![j] = r]
    BY <2>1 DEF Write
  <2> HIDE DEF r
  <2>8. Faithful(r, was)
    BY <2>2, <2>3, <2>5, <2>6 DEF Faithful
  <2> QED BY <1>5, <2>7, <2>8, FaithfulReplaced DEF Upsert
<1>6. ASSUME NEW j \in Jobs, Prune(j) PROVE MirrorInv'
  <2> DEFINE r == [job[j] EXCEPT !.pc = "delete", !.victims = Victims(j)]
  <2>1. job[j] \in JobType /\ Faithful(job[j], was)
    BY <1>0
  <2>2. /\ r.pc = "delete" /\ r.report = job[j].report
        /\ r.mine = job[j].mine /\ r.victims = Victims(j)
    BY <2>1 DEF JobType
  <2>3. \A k \in Keys : job[j].report[k] # None => k \in DOMAIN job[j].mine
    BY <1>6 DEF Prune, Unwritten, Reported
  <2>4. \A k \in Victims(j) : job[j].report[k] = None
    BY DEF Victims, Reported
  <2>5. job[j].report = Empty => Victims(j) = {}
    BY DEF Victims, Reported, Empty
  <2>6. job' = [job EXCEPT ![j] = r]
    BY <1>6 DEF Prune
  <2> HIDE DEF r
  <2>7. Faithful(r, was)
    BY <2>1, <2>2, <2>3, <2>4, <2>5 DEF Faithful
  <2> QED BY <1>6, <2>6, <2>7, FaithfulReplaced DEF Prune
<1>7. ASSUME NEW j \in Jobs, Delete(j) PROVE MirrorInv'
  <2>1. PICK k \in job[j].victims :
          job' = [job EXCEPT ![j] = [job[j] EXCEPT
                        !.mine = Wrote(j, k, None), !.victims = job[j].victims \ {k}]]
    BY <1>7 DEF Delete
  <2> DEFINE r == [job[j] EXCEPT !.mine = Wrote(j, k, None),
                                 !.victims = job[j].victims \ {k}]
  <2>2. job[j] \in JobType /\ Faithful(job[j], was) /\ job[j].pc = "delete"
    BY <1>0, <1>7 DEF Delete
  <2>3. k \in Keys /\ job[j].report[k] = None
    BY <2>2 DEF JobType, Faithful
  <2>4. /\ r.pc = "delete" /\ r.report = job[j].report
        /\ r.mine = Wrote(j, k, None) /\ r.victims = job[j].victims \ {k}
    BY <2>2 DEF JobType
  <2>0. LET w == Wrote(j, k, None)
        IN  /\ DOMAIN w = DOMAIN job[j].mine \cup {k} /\ w[k] = None
            /\ \A l \in DOMAIN job[j].mine \ {k} : w[l] = job[j].mine[l]
    BY DEF Wrote
  <2>5. \A l \in DOMAIN r.mine : r.mine[l] = job[j].report[l]
    BY <2>2, <2>3, <2>4, <2>0 DEF Faithful
  <2>6. DOMAIN r.mine = DOMAIN job[j].mine \cup {k}
    BY <2>4, <2>0
  <2>7. job[j].report # Empty
    BY <2>2 DEF Faithful
  <2>8. job' = [job EXCEPT ![j] = r]
    BY <2>1
  <2> HIDE DEF r
  <2>9. Faithful(r, was)
    BY <2>2, <2>4, <2>5, <2>6, <2>7 DEF Faithful
  <2> QED BY <1>7, <2>8, <2>9, FaithfulReplaced DEF Delete
<1>8. ASSUME NEW j \in Jobs, Commit(j) PROVE MirrorInv'
  <2> DEFINE r == [IdleJob EXCEPT !.pc = "done", !.clean = job[j].clean]
  <2>1. Faithful(r, was)
    BY DEF Faithful, IdleJob, Empty, NoWrites
  <2>2. job' = [job EXCEPT ![j] = r]
    BY <1>8 DEF Commit
  <2> HIDE DEF r
  <2> QED BY <1>8, <2>1, <2>2, FaithfulReplaced DEF Commit
<1>9. ASSUME NEW j \in Jobs, Rollback(j) \/ DeadlockVictim(j) PROVE MirrorInv'
  BY <1>9, RolledBackMirrorInv DEF Rollback, DeadlockVictim
<1>10. CASE UNCHANGED vars
  BY <1>10 DEF vars, MirrorInv, Faithful
<1> QED BY <1>1, <1>2, <1>3, <1>4, <1>5, <1>6, <1>7, <1>8, <1>9, <1>10
        DEF Next, Progress

\* A transaction that commits is an Update: it leaves what parts have been
\* there, and if it deletes anything it has written what it read.
LEMMA CommitUpdates ==
    ASSUME TypeOK, TypeOK', MirrorInv, NEW j \in Jobs, Commit(j)
    PROVE  Mirror!Update
<1>1. Faithful(job[j], was) /\ job[j].pc = "delete"
  BY DEF MirrorInv, Commit
<1>2. table' = [k \in Keys |-> Seen(j, k)]
  BY DEF Commit
<1>3. \A k \in Keys : table'[k] = IF k \in DOMAIN job[j].mine THEN job[j].report[k]
                                                              ELSE table[k]
  BY <1>1, <1>2 DEF Faithful, Seen
<1>4. \A k \in Keys : table'[k] \in {table[k], None} \cup Mirror!Entries(was[k])
  BY <1>1, <1>3 DEF Faithful
<1>5. ASSUME table # Empty PROVE table' # Empty
  <2>1. CASE job[j].report = Empty
    <3>1. \A k \in Keys : table'[k] = table[k]
      BY <1>1, <1>3, <2>1 DEF Faithful
    <3> QED BY <1>5, <3>1 DEF TypeOK, Rows
  <2>2. CASE job[j].report # Empty
    <3>1. job[j].report \in Rows
      BY DEF TypeOK, JobsOK, JobType
    <3>2. PICK k \in Keys : job[j].report[k] # None
      BY <2>2, <3>1 DEF Empty, Rows
    <3>3. table'[k] # None
      BY <1>1, <1>3, <3>2 DEF Faithful
    <3> QED BY <3>3 DEF Empty
  <2> QED BY <2>1, <2>2
<1>6. table' \in [Keys -> Mirror!Entries(Parts) \cup {None}]
  <2>1. Entries = Mirror!Entries(Parts)
    BY VersionsNamed DEF Entries, Mirror!Entries
  <2> QED BY <2>1 DEF TypeOK, Rows
<1> QED BY <1>4, <1>5, <1>6 DEF Commit, Mirror!Update, Mirror!Empty, Empty

LEMMA InitMirrors == Init => Mirror!Init
BY DEF Init, Mirror!Init, Mirror!Contents, Mirror!Empty, Contents, Empty

LEMMA NextMirrors ==
    TypeOK /\ TypeOK' /\ MirrorInv /\ [Next]_vars => [Mirror!Next]_(Mirror!vars)
<1> SUFFICES ASSUME TypeOK, TypeOK', MirrorInv, [Next]_vars
             PROVE  Mirror!Next \/ UNCHANGED <<hw, was, table>>
  BY DEF Mirror!vars
<1>1. ASSUME NEW k \in Keys, Swap(k) PROVE Mirror!Next
  BY <1>1 DEF Swap, Mirror!Next, Mirror!Swap
<1>2. ASSUME NEW j \in Jobs, Commit(j) PROVE Mirror!Next
  BY <1>2, CommitUpdates DEF Mirror!Next
<1>3. ASSUME NEW j \in Jobs,
             \/ Begin(j) \/ Read(j) \/ Enter(j) \/ Upsert(j) \/ Prune(j) \/ Delete(j)
             \/ DeadlockVictim(j) \/ Rollback(j)
      PROVE  UNCHANGED <<hw, was, table>>
  BY <1>3 DEF Begin, Read, Enter, Upsert, Prune, Delete, DeadlockVictim, Rollback
<1>4. CASE UNCHANGED vars
  BY <1>4 DEF vars
<1> QED BY <1>1, <1>2, <1>3, <1>4 DEF Next, Progress

\* Whatever getters fail, transactions are rolled back and jobs overlap, the
\* inventory never holds a part that was not there and is never emptied
\* (sync.py 130-136, 203-211).
THEOREM PromiseKept == Spec => KeepsPromise
<1>1. Init => TypeOK /\ MirrorInv
  BY InitType, InitMirrorInv
<1>2. TypeOK /\ MirrorInv /\ [Next]_vars => (TypeOK /\ MirrorInv)'
  BY NextType, NextMirrorInv
<1>3. TypeOK /\ TypeOK' /\ MirrorInv /\ [Next]_vars => [Mirror!Next]_(Mirror!vars)
  BY NextMirrors
<1> QED BY <1>1, <1>2, <1>3, InitMirrors, PTL DEF Spec, KeepsPromise, Mirror!Spec
-----------------------------------------------------------------------------
(* A sync that nothing disturbed leaves the hardware: CleanInv is inductive. *)

\* No job but j runs.
Alone(j) == \A h \in Jobs \ {j} : ~Running(h)

\* What the getters called so far said is what is there, and what is there is
\* in the report or the getter that reports it is still to be called.
ReadRight(r) ==
    \A k \in Keys :
        /\ r.report[k] # None => hw[k] # None /\ r.report[k] = Told(hw[k])
        /\ r.report[k] = None /\ hw[k] # None => GetterOf[k] \in Range(r.left)

ReadAll(r) == \A k \in Keys : r.report[k] = Full(hw[k])

\* Every row the report does not have is deleted already or will be.
Doomed(j) ==
    Reported(j) # {} =>
        \A k \in Keys : job[j].report[k] = None =>
            k \in job[j].victims \/ Seen(j, k) = None

\* A clean job is alone, has what is there, and once done has left just that.
Clean(j) ==
    /\ job[j].pc # "idle" /\ Alone(j)
    /\ job[j].pc = "read" => ReadRight(job[j])
    /\ job[j].pc \in InTransaction => ReadAll(job[j])
    /\ job[j].pc = "delete" => Doomed(j)
    /\ job[j].pc = "done" /\ hw # Empty => Mirrored

CleanInv == \A j \in Jobs : job[j].clean => Clean(j)

LEMMA InitCleanInv == Init => CleanInv
BY DEF Init, CleanInv, IdleJob

LEMMA HeadAndTail ==
    ASSUME NEW S, NEW s \in Seq(S), s # <<>>
    PROVE  Range(s) = {Head(s)} \cup Range(Tail(s))
<1>1. Len(s) \in Nat /\ Len(s) >= 1 /\ DOMAIN s = 1..Len(s)
  OBVIOUS
<1>2. /\ Len(Tail(s)) = Len(s) - 1 /\ DOMAIN Tail(s) = 1..Len(Tail(s))
      /\ \A i \in 1..Len(Tail(s)) : Tail(s)[i] = s[i + 1]
  BY <1>1
<1>3. Head(s) = s[1]
  BY <1>1
<1>4. ASSUME NEW i \in 1..Len(s) PROVE s[i] \in {Head(s)} \cup Range(Tail(s))
  <2>1. CASE i = 1
    BY <1>3, <2>1
  <2>2. CASE i # 1
    <3>1. i - 1 \in 1..Len(Tail(s)) /\ Tail(s)[i - 1] = s[i]
      BY <1>1, <1>2, <2>2
    <3> QED BY <1>2, <3>1 DEF Range
  <2> QED BY <2>1, <2>2
<1>5. ASSUME NEW i \in 1..Len(Tail(s)) PROVE Tail(s)[i] \in Range(s)
  <2>1. i + 1 \in 1..Len(s) /\ Tail(s)[i] = s[i + 1]
    BY <1>1, <1>2
  <2> QED BY <1>1, <2>1 DEF Range
<1>6. Head(s) \in Range(s)
  BY <1>1, <1>3 DEF Range
<1>7. \A x \in Range(s) : \E i \in 1..Len(s) : x = s[i]
  BY <1>1 DEF Range
<1>8. \A x \in Range(Tail(s)) : \E i \in 1..Len(Tail(s)) : x = Tail(s)[i]
  BY <1>2 DEF Range
<1> QED BY <1>4, <1>5, <1>6, <1>7, <1>8

\* A part is told from an empty slot, by its resource and by a full report.
LEMMA PartsAreTold ==
    ASSUME NEW p \in Parts PROVE p # None /\ Told(p) # None /\ Full(p) # None
<1>1. FirmwareOf[p] \in Range(FirmwareOf)
  BY VersionsNamed
<1>2. Told(p) \in Parts \X (Range(FirmwareOf) \cup {None})
  BY <1>1 DEF Told
<1>3. p # None
  BY ComponentsAssumption
<1>4. Full(p) \in Parts \X (Range(FirmwareOf) \cup {None})
  BY <1>1, <1>3 DEF Full
<1> QED BY <1>2, <1>3, <1>4, ComponentsAssumption

\* A step of a running job leaves no other job clean; if it is clean itself
\* after the step it was before.
LEMMA CleanReplaced ==
    ASSUME TypeOK, CleanInv, NEW j \in Jobs, Running(j), NEW r,
           job' = [job EXCEPT ![j] = r], r.clean => job[j].clean,
           r.clean => Clean(j)'
    PROVE  CleanInv'
<1>1. job'[j] = r /\ \A i \in Jobs \ {j} : job'[i] = job[i]
  BY DEF TypeOK, JobsOK
<1>2. ASSUME NEW i \in Jobs \ {j} PROVE ~job[i].clean
  BY DEF CleanInv, Clean, Alone
<1> QED BY <1>1, <1>2 DEF CleanInv

\* While it runs a clean job stays alone.
LEMMA StaysAlone ==
    ASSUME TypeOK, CleanInv, NEW j \in Jobs, job[j].clean, NEW r,
           job' = [job EXCEPT ![j] = r]
    PROVE  Alone(j)'
<1>1. \A i \in Jobs \ {j} : job'[i] = job[i]
  BY DEF TypeOK, JobsOK
<1> QED BY <1>1 DEF CleanInv, Clean, Alone, Running

LEMMA NextCleanInv == TypeOK /\ MirrorInv /\ CleanInv /\ [Next]_vars => CleanInv'
<1> SUFFICES ASSUME TypeOK, MirrorInv, CleanInv, [Next]_vars PROVE CleanInv'
  OBVIOUS
<1>0. ASSUME NEW j \in Jobs
      PROVE  job[j] \in JobType /\ Faithful(job[j], was) /\ (job[j].clean => Clean(j))
  BY DEF TypeOK, JobsOK, MirrorInv, CleanInv
<1>1. ASSUME NEW k \in Keys, Swap(k) PROVE CleanInv'
  <2>1. ASSUME NEW j \in Jobs PROVE ~job'[j].clean
    BY <1>0, <1>1 DEF Swap, JobType
  <2> QED BY <2>1 DEF CleanInv
<1>2. ASSUME NEW j \in Jobs, Begin(j) PROVE CleanInv'
  <2>1. \A i \in Jobs \ {j} : job'[i] = [job[i] EXCEPT !.clean = FALSE]
    BY <1>2 DEF Begin
  <2>2. \A i \in Jobs \ {j} : job'[i].pc = job[i].pc /\ job'[i].clean = FALSE
    BY <1>0, <2>1 DEF JobType
  <2>3. job'[j] = [IdleJob EXCEPT !.pc = "read", !.left = Getters,
                                  !.clean = \A h \in Jobs \ {j} : ~Running(h)]
    BY <1>2 DEF Begin
  <2>4. /\ job'[j].pc = "read" /\ job'[j].left = Getters /\ job'[j].report = Empty
        /\ job'[j].clean => \A h \in Jobs \ {j} : ~Running(h)
    BY <2>3 DEF IdleJob
  <2>5. ASSUME job'[j].clean PROVE Clean(j)'
    <3>1. Alone(j)'
      BY <2>2, <2>4, <2>5 DEF Alone, Running
    <3>2. ReadRight(job[j])'
      BY <2>4, ComponentsAssumption DEF ReadRight, Empty
    <3> QED BY <2>4, <3>1, <3>2 DEF Clean, InTransaction
  <2> QED BY <2>2, <2>5 DEF CleanInv
<1>3. ASSUME NEW j \in Jobs, Read(j) PROVE CleanInv'
  <2> DEFINE seen(got) == [k \in Keys |-> IF k \in got THEN Told(hw[k]) ELSE job[j].report[k]]
             r(got, c) == [job[j] EXCEPT !.left = Tail(job[j].left),
                                !.report = seen(got), !.clean = c]
  <2>1. PICK got \in Answers(j) :
          job' = [job EXCEPT ![j] = r(got, job[j].clean /\ got = Present(j))]
    BY <1>3 DEF Read
  <2> DEFINE c == job[j].clean /\ got = Present(j)
  <2>2. job[j] \in JobType /\ job[j].pc = "read" /\ job[j].left # <<>> /\ hw' = hw
    BY <1>0, <1>3 DEF Read
  <2>3. /\ r(got, c).pc = "read" /\ r(got, c).report = seen(got)
        /\ r(got, c).left = Tail(job[j].left) /\ r(got, c).clean = c
    BY <2>2 DEF JobType
  <2>4. ASSUME c PROVE ReadRight(r(got, c))
    <3>1. ReadRight(job[j]) /\ got = Present(j)
      BY <1>0, <2>2, <2>4 DEF Clean
    <3>2. Range(job[j].left) = {Head(job[j].left)} \cup Range(Tail(job[j].left))
      BY <2>2, HeadAndTail DEF JobType
    <3>3. ASSUME NEW k \in Keys
          PROVE  /\ seen(got)[k] # None => hw[k] # None /\ seen(got)[k] = Told(hw[k])
                 /\ seen(got)[k] = None /\ hw[k] # None
                        => GetterOf[k] \in Range(Tail(job[j].left))
      <4>1. CASE k \in got
        <5>1. hw[k] \in Parts
          BY <3>1, <4>1 DEF Present, TypeOK, Contents
        <5> QED BY <4>1, <5>1, PartsAreTold
      <4>2. CASE k \notin got
        BY <3>1, <3>2, <4>2 DEF Present, ReadRight
      <4> QED BY <4>1, <4>2
    <3> HIDE DEF seen, r, c
    <3> QED BY <2>3, <3>3 DEF ReadRight
  <2> HIDE DEF seen, c
  <2>5. job' = [job EXCEPT ![j] = r(got, c)]
    BY <2>1 DEF c
  <2> HIDE DEF r
  <2>6. job'[j] = r(got, c)
    BY <2>5 DEF TypeOK, JobsOK
  <2>7. c => job[j].clean
    BY DEF c
  <2>8. ASSUME c PROVE Clean(j)'
    <3>1. Alone(j)'
      BY <2>5, <2>7, <2>8, StaysAlone
    <3>2. ReadRight(r(got, c)) /\ ReadRight(job[j])' <=> ReadRight(r(got, c))
      BY <2>2, <2>4, <2>6, <2>8 DEF ReadRight
    <3> QED BY <2>3, <2>6, <3>1, <3>2, <2>4, <2>8 DEF Clean, InTransaction
  <2> QED BY <2>2, <2>3, <2>5, <2>7, <2>8, CleanReplaced DEF Running
<1>4. ASSUME NEW j \in Jobs, Enter(j) PROVE CleanInv'
  <2> DEFINE full(got) == [k \in Keys |->
                IF k \in got THEN <<job[j].report[k][1], FirmwareOf[hw[k]]>>
                             ELSE job[j].report[k]]
             r(got, c) == [job[j] EXCEPT !.pc = "upsert", !.report = full(got), !.clean = c]
  <2>1. PICK got \in SUBSET Versioned(j) :
          job' = [job EXCEPT ![j] = r(got, job[j].clean /\ got = Versioned(j))]
    BY <1>4 DEF Enter
  <2> DEFINE c == job[j].clean /\ got = Versioned(j)
  <2>2. job[j] \in JobType /\ job[j].pc = "read" /\ job[j].left = <<>> /\ hw' = hw
    BY <1>0, <1>4 DEF Enter
  <2>3. r(got, c).pc = "upsert" /\ r(got, c).report = full(got) /\ r(got, c).clean = c
    BY <2>2 DEF JobType
  <2>4. ASSUME c, NEW k \in Keys PROVE full(got)[k] = Full(hw[k])
    <3>1. ReadRight(job[j]) /\ got = Versioned(j)
      BY <1>0, <2>2, <2>4 DEF Clean
    <3>2. CASE job[j].report[k] # None
      <4>1. hw[k] # None /\ job[j].report[k] = Told(hw[k]) /\ k \in got
        BY <3>1, <3>2 DEF ReadRight, Versioned, Reported
      <4> QED BY <4>1 DEF Told, Full
    <3>3. CASE job[j].report[k] = None
      <4>1. k \notin got
        BY <3>1, <3>3 DEF Versioned, Reported
      <4>2. GetterOf[k] \notin Range(job[j].left)
        BY <2>2 DEF Range
      <4> QED BY <3>1, <3>3, <4>1, <4>2 DEF ReadRight, Full
    <3> QED BY <3>2, <3>3
  <2> HIDE DEF full, c
  <2>5. job' = [job EXCEPT ![j] = r(got, c)]
    BY <2>1 DEF c
  <2> HIDE DEF r
  <2>6. job'[j] = r(got, c)
    BY <2>5 DEF TypeOK, JobsOK
  <2>7. c => job[j].clean
    BY DEF c
  <2>8. ASSUME c PROVE Clean(j)'
    <3>1. Alone(j)'
      BY <2>5, <2>7, <2>8, StaysAlone
    <3>2. ReadAll(job[j])'
      BY <2>2, <2>3, <2>4, <2>6, <2>8 DEF ReadAll, Full
    <3> QED BY <2>3, <2>6, <3>1, <3>2 DEF Clean
  <2> QED BY <2>2, <2>3, <2>5, <2>7, <2>8, CleanReplaced DEF Running
<1>5. ASSUME NEW j \in Jobs, Upsert(j) PROVE CleanInv'
  <2>1. PICK k \in Keys : job' = [job EXCEPT ![j] = [job[j] EXCEPT
                                    !.mine = Wrote(j, k, job[j].report[k])]]
    BY <1>5 DEF Upsert, Write
  <2> DEFINE r == [job[j] EXCEPT !.mine = Wrote(j, k, job[j].report[k])]
  <2>2. job[j] \in JobType /\ job[j].pc = "upsert" /\ hw' = hw
    BY <1>0, <1>5 DEF Upsert
  <2>3. r.pc = "upsert" /\ r.report = job[j].report /\ r.clean = job[j].clean
    BY <2>2 DEF JobType
  <2>5. job' = [job EXCEPT ![j] = r]
    BY <2>1
  <2> HIDE DEF r
  <2>6. job'[j] = r
    BY <2>5 DEF TypeOK, JobsOK
  <2>8. ASSUME job[j].clean PROVE Clean(j)'
    <3>1. Alone(j)'
      BY <2>5, <2>8, StaysAlone
    <3>2. ReadAll(job[j])
      BY <1>0, <2>2, <2>8 DEF Clean, InTransaction
    <3>3. ReadAll(job[j])'
      BY <2>2, <2>3, <2>6, <3>2 DEF ReadAll, Full
    <3> QED BY <2>3, <2>6, <3>1, <3>3 DEF Clean
  <2> QED BY <2>2, <2>3, <2>5, <2>8, CleanReplaced DEF Running, InTransaction
<1>6. ASSUME NEW j \in Jobs, Prune(j) PROVE CleanInv'
  <2> DEFINE r == [job[j] EXCEPT !.pc = "delete", !.victims = Victims(j)]
  <2>2. job[j] \in JobType /\ job[j].pc = "upsert" /\ hw' = hw /\ table' = table
    BY <1>0, <1>6 DEF Prune
  <2>3. /\ r.pc = "delete" /\ r.report = job[j].report /\ r.clean = job[j].clean
        /\ r.mine = job[j].mine /\ r.victims = Victims(j)
    BY <2>2 DEF JobType
  <2>5. job' = [job EXCEPT ![j] = r]
    BY <1>6 DEF Prune
  <2> HIDE DEF r
  <2>6. job'[j] = r
    BY <2>5 DEF TypeOK, JobsOK
  <2>8. ASSUME job[j].clean PROVE Clean(j)'
    <3>1. Alone(j)'
      BY <2>5, <2>8, StaysAlone
    <3>2. ReadAll(job[j])
      BY <1>0, <2>2, <2>8 DEF Clean, InTransaction
    <3>3. ReadAll(job[j])'
      BY <2>2, <2>3, <2>6, <3>2 DEF ReadAll, Full
    <3>4. Doomed(j)'
      BY <2>2, <2>3, <2>6 DEF Doomed, Victims, Reported, Seen
    <3> QED BY <2>3, <2>6, <3>1, <3>3, <3>4 DEF Clean
  <2> QED BY <2>2, <2>3, <2>5, <2>8, CleanReplaced DEF Running, InTransaction
<1>7. ASSUME NEW j \in Jobs, Delete(j) PROVE CleanInv'
  <2>1. PICK k \in job[j].victims :
          job' = [job EXCEPT ![j] = [job[j] EXCEPT
                        !.mine = Wrote(j, k, None), !.victims = job[j].victims \ {k}]]
    BY <1>7 DEF Delete
  <2> DEFINE r == [job[j] EXCEPT !.mine = Wrote(j, k, None),
                                 !.victims = job[j].victims \ {k}]
  <2>2. job[j] \in JobType /\ job[j].pc = "delete" /\ hw' = hw /\ table' = table
    BY <1>0, <1>7 DEF Delete
  <2>3. /\ r.pc = "delete" /\ r.report = job[j].report /\ r.clean = job[j].clean
        /\ r.mine = Wrote(j, k, None) /\ r.victims = job[j].victims \ {k}
    BY <2>2 DEF JobType
  <2>4. LET w == Wrote(j, k, None)
        IN  /\ DOMAIN w = DOMAIN job[j].mine \cup {k} /\ w[k] = None
            /\ \A l \in DOMAIN job[j].mine \ {k} : w[l] = job[j].mine[l]
    BY DEF Wrote
  <2>5. job' = [job EXCEPT ![j] = r]
    BY <2>1
  <2> HIDE DEF r
  <2>6. job'[j] = r
    BY <2>5 DEF TypeOK, JobsOK
  <2>8. ASSUME job[j].clean PROVE Clean(j)'
    <3>1. Alone(j)'
      BY <2>5, <2>8, StaysAlone
    <3>2. ReadAll(job[j]) /\ Doomed(j)
      BY <1>0, <2>2, <2>8 DEF Clean, InTransaction
    <3>3. ReadAll(job[j])'
      BY <2>2, <2>3, <2>6, <3>2 DEF ReadAll, Full
    <3>4. \A l \in Keys : Seen(j, l)' = IF l = k THEN None ELSE Seen(j, l)
      BY <2>2, <2>3, <2>4, <2>6 DEF Seen
    <3>5. Doomed(j)'
      BY <2>3, <2>6, <3>2, <3>4 DEF Doomed, Reported
    <3> QED BY <2>3, <2>6, <3>1, <3>3, <3>5 DEF Clean
  <2> QED BY <2>2, <2>3, <2>5, <2>8, CleanReplaced DEF Running, InTransaction
<1>8. ASSUME NEW j \in Jobs, Commit(j) PROVE CleanInv'
  <2> DEFINE r == [IdleJob EXCEPT !.pc = "done", !.clean = job[j].clean]
  <2>2. /\ job[j] \in JobType /\ job[j].pc = "delete" /\ hw' = hw
        /\ table' = [k \in Keys |-> Seen(j, k)] /\ job[j].victims = {}
    BY <1>0, <1>8 DEF Commit
  <2>3. r.pc = "done" /\ r.clean = job[j].clean
    BY DEF IdleJob
  <2>5. job' = [job EXCEPT ![j] = r]
    BY <1>8 DEF Commit
  <2> HIDE DEF r
  <2>6. job'[j] = r
    BY <2>5 DEF TypeOK, JobsOK
  <2>8. ASSUME job[j].clean PROVE Clean(j)'
    <3>1. Alone(j)'
      BY <2>5, <2>8, StaysAlone
    <3>2. ReadAll(job[j]) /\ Doomed(j) /\ Faithful(job[j], was)
      BY <1>0, <2>2, <2>8 DEF Clean, InTransaction
    <3>3. ASSUME hw # Empty PROVE Mirrored'
      <4>1. PICK k \in Keys : hw[k] # None
        BY <3>3 DEF TypeOK, Contents, Empty
      <4>2. hw[k] \in Parts
        BY <4>1 DEF TypeOK, Contents
      <4>3. k \in Reported(j)
        BY <3>2, <4>2, PartsAreTold DEF ReadAll, Reported
      <4>4. ASSUME NEW l \in Keys PROVE Seen(j, l) = Full(hw[l])
        <5>1. CASE job[j].report[l] # None
          BY <2>2, <3>2, <5>1 DEF Faithful, Seen, ReadAll
        <5>2. CASE job[j].report[l] = None
          BY <2>2, <3>2, <4>3, <5>2 DEF Doomed, ReadAll
        <5> QED BY <5>1, <5>2
      <4> QED BY <2>2, <4>4 DEF Mirrored, Full
    <3> QED BY <2>2, <2>3, <2>6, <3>1, <3>3 DEF Clean, InTransaction, Empty
  <2> QED BY <2>2, <2>3, <2>5, <2>8, CleanReplaced DEF Running, InTransaction
<1>9. ASSUME NEW j \in Jobs, Rollback(j) \/ DeadlockVictim(j) PROVE CleanInv'
  <2>1. Running(j) /\ job' = [job EXCEPT ![j] = IdleJob] /\ ~IdleJob.clean
    BY <1>9 DEF Rollback, DeadlockVictim, RolledBack, WaitsFor, Running, InTransaction, IdleJob
  <2> QED BY <2>1, CleanReplaced
<1>10. CASE UNCHANGED vars
  BY <1>10 DEF vars, CleanInv, Clean, Alone, Running, ReadRight, ReadAll, Doomed,
               Reported, Seen, Mirrored, Full
<1> QED BY <1>1, <1>2, <1>3, <1>4, <1>5, <1>6, <1>7, <1>8, <1>9, <1>10
        DEF Next, Progress

LEMMA CleanMirrors == CleanInv => CleanSyncMirrors
BY DEF CleanInv, Clean, CleanSyncMirrors

\* A sync that read everything, alone, from hardware that stood still leaves
\* exactly that hardware, whatever syncs before it left (sync.py 167-212).
THEOREM CleanSyncsMirror == Spec => []CleanSyncMirrors
<1>1. Init => TypeOK /\ MirrorInv /\ CleanInv
  BY InitType, InitMirrorInv, InitCleanInv
<1>2. TypeOK /\ MirrorInv /\ CleanInv /\ [Next]_vars => (TypeOK /\ MirrorInv /\ CleanInv)'
  BY NextType, NextMirrorInv, NextCleanInv
<1> QED BY <1>1, <1>2, CleanMirrors, PTL DEF Spec
=============================================================================
