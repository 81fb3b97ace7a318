-------------------------- MODULE ServerSyncProofs --------------------------
(***************************************************************************)
(* Theorems about ServerSync, for every set of jobs, imports and edit      *)
(* requests, every budget and every stage duration.                        *)
(***************************************************************************)
EXTENDS ServerSync, FiniteSetTheorems, TLAPS

-----------------------------------------------------------------------------
(* Type correctness.                                                       *)

\* A new version number is a number: only finitely many edits have ended.
LEMMA EditedNat == ASSUME TypeOK PROVE Cardinality(edited) \in Nat
BY ConstantsAssumption, FS_Subset, FS_CardinalityType DEF TypeOK

\* Where a job's step leaves its record well-typed.
LEMMA StepType ==
    ASSUME NEW j \in Jobs, NEW pc \in PCs, NEW t2 \in Nat, NEW cut \in BOOLEAN,
           TypeOK, Step(j, pc, t2, cut)
    PROVE  jobs' \in [Jobs -> JobType]
<1> DEFINE armed == jobs[j].armed /\ t2 < Budget
           new == [jobs[j] EXCEPT !.pc = pc, !.t = t2,
                                  !.cut = jobs[j].cut \/ cut, !.armed = armed]
<1>1. jobs[j] \in JobType
  BY DEF TypeOK
<1>2. (jobs[j].cut \/ cut) \in BOOLEAN /\ armed \in BOOLEAN
  BY Zenon
<1> HIDE DEF armed
<1>3. new \in JobType
  BY <1>1, <1>2 DEF JobType
<1>4. jobs' = [jobs EXCEPT ![j] = new]
  BY Zenon DEF Step, armed
<1> HIDE DEF new
<1> QED BY <1>3, <1>4 DEF TypeOK

LEMMA EndType ==
    ASSUME NEW j \in Jobs, NEW pc \in PCs, NEW marked \in BOOLEAN,
           TypeOK, End(j, pc, marked)
    PROVE  jobs' \in [Jobs -> JobType]
BY DEF TypeOK, End, JobType, IdleJob, UserPart, NoRow, UserParts

LEMMA LaterType ==
    ASSUME NEW t \in Nat, NEW d \in Durations PROVE Later(t, d) \in Nat
BY ConstantsAssumption DEF Later

LEMMA RacedType ==
    ASSUME TypeOK,
           \/ \E who : UserChangeRaces(who)
           \/ VerdictRaces
           \/ UNCHANGED raced
    PROVE  raced' \in [user : BOOLEAN, verdict : BOOLEAN]
BY DEF TypeOK, UserChangeRaces, VerdictRaces

LEMMA NewRowType ==
    ASSUME NEW pk \in Nat, NEW conf \in Nat, NEW confirmed \in BOOLEAN
    PROVE  /\ NewRow(pk, conf, confirmed) \in RowType
           /\ UserPart(NewRow(pk, conf, confirmed)) \in UserParts
BY DEF NewRow, NoRow, RowType, UserPart, UserParts, Statuses

LEMMA NoRowType == NoRow \in RowType /\ UserPart(NoRow) \in UserParts
BY DEF NoRow, RowType, UserPart, UserParts, Statuses

LEMMA UserPartType == ASSUME NEW r \in RowType PROVE UserPart(r) \in UserParts
BY DEF RowType, UserPart, UserParts

LEMMA StageNames ==
    /\ \A pc \in Stages : StageAfter[pc] \in PCs /\ StageAfter[pc] \in Working
    /\ {"idle", "queued", "done", "errored", "killed", "sysinfo", "commit",
        "closing", "check", "marking"} \subseteq PCs
BY DEF Stages, StageAfter, PCs, Active, Working

LEMMA JobFacts ==
    ASSUME TypeOK, NEW j \in Jobs
    PROVE  /\ jobs[j].pc \in PCs /\ jobs[j].mem \in UserParts
           /\ jobs[j].t \in Nat /\ jobs[j].start \in Nat
           /\ jobs[j].armed \in BOOLEAN /\ jobs[j].cut \in BOOLEAN
           /\ jobs[j].marked \in BOOLEAN
           /\ \A d \in Durations : Later(jobs[j].t, d) \in Nat
BY LaterType DEF TypeOK, JobType

\* A job starts with the copy of the row it was given.
LEMMA BeganType ==
    ASSUME TypeOK, NEW j \in Jobs, NEW mem \in UserParts, NEW t0 \in Nat,
           NEW armed \in BOOLEAN,
           jobs' = [jobs EXCEPT ![j] = [jobs[j] EXCEPT
                        !.pc = "sysinfo", !.mem = mem,
                        !.t = t0, !.start = t0, !.armed = armed]]
    PROVE  jobs' \in [Jobs -> JobType]
BY StageNames DEF TypeOK, JobType

LEMMA TypeStep == TypeOK /\ [Next]_vars => TypeOK'
<1> SUFFICES ASSUME TypeOK, [Next]_vars PROVE TypeOK'
  OBVIOUS
<1> USE DEF TypeOK
<1>1. ASSUME NEW j \in SyncJobs, Enqueue(j) PROVE TypeOK'
  <2>1. row.pk \in Nat /\ j \in Jobs
    BY DEF RowType, Jobs
  <2> DEFINE mem == [jobs[j].mem EXCEPT !.pk = row.pk]
             new == [jobs[j] EXCEPT !.pc = "queued", !.mem = mem]
  <2>a. mem \in UserParts
    BY <2>1, JobFacts DEF UserParts
  <2>b. new \in JobType
    BY <2>1, <2>a, StageNames DEF JobType
  <2>c. jobs' = [jobs EXCEPT ![j] = new]
    BY <1>1, <2>1 DEF Enqueue, JobType
  <2>2. jobs' \in [Jobs -> JobType]
    BY <2>b, <2>c
  <2> QED BY <1>1, <2>2 DEF Enqueue
<1>2. ASSUME NEW i \in Imports, ImportStart(i) PROVE TypeOK'
  <2> UNCHANGED <<form, edited>>
    BY <1>2 DEF ImportStart
  <2> DEFINE Began(r, t0, armed) ==
               jobs' = [jobs EXCEPT ![i] = [jobs[i] EXCEPT
                            !.pc = "sysinfo", !.mem = UserPart(r),
                            !.t = t0, !.start = t0, !.armed = armed]]
  <2>1. PICK t0 \in 0..(Budget - 1), armed \in BOOLEAN :
          \/ Began(row, t0, armed) /\ UNCHANGED <<row, rows, intent, raced>>
          \/ /\ \E confirmed \in BOOLEAN :
                   /\ row' = NewRow(rows + 1, 0, confirmed)
                   /\ intent' = UserPart(NewRow(rows + 1, 0, confirmed))
                   /\ Began(NewRow(rows + 1, 0, confirmed), t0, armed)
             /\ rows' = rows + 1
             /\ UserChangeRaces({})
    BY <1>2 DEF ImportStart
  <2>2. i \in Jobs /\ t0 \in Nat
    BY ConstantsAssumption DEF Jobs
  <2>3. CASE Began(row, t0, armed) /\ UNCHANGED <<row, rows, intent, raced>>
    BY <2>2, <2>3, UserPartType, BeganType
  <2>4. ASSUME NEW confirmed \in BOOLEAN,
               row' = NewRow(rows + 1, 0, confirmed),
               intent' = UserPart(NewRow(rows + 1, 0, confirmed)),
               Began(NewRow(rows + 1, 0, confirmed), t0, armed),
               rows' = rows + 1, UserChangeRaces({})
        PROVE  TypeOK'
    <3>a. rows + 1 \in Nat /\ 0 \in Nat
      OBVIOUS
    <3>1. row' \in RowType /\ intent' \in UserParts /\ rows' \in Nat
      BY <2>4, <3>a, NewRowType
    <3>2. jobs' \in [Jobs -> JobType]
      BY <2>4, <2>2, <3>a, NewRowType, BeganType
    <3> QED BY <2>4, <3>1, <3>2, RacedType
  <2> QED BY <2>1, <2>3, <2>4
<1>3. ASSUME NEW j \in Jobs, Start(j) PROVE TypeOK'
  <2> UNCHANGED <<row, form, rows, edited, intent, raced>>
    BY <1>3 DEF Start
  <2>1. CASE row.pk = jobs[j].mem.pk
    <3>1. PICK d \in StartDelays :
            jobs' = [jobs EXCEPT ![j] = [jobs[j] EXCEPT
                !.pc = "sysinfo", !.mem = UserPart(row), !.t = d, !.start = d]]
      BY <1>3, <2>1 DEF Start
    <3>2. d \in Nat /\ UserPart(row) \in UserParts
      BY UserPartType, ConstantsAssumption
    <3>3. jobs' \in [Jobs -> JobType]
      BY <3>1, <3>2, StageNames DEF JobType
    <3> QED BY <3>3
  <2>2. CASE row.pk # jobs[j].mem.pk
    BY <1>3, <2>2, EndType, StageNames DEF Start
  <2> QED BY <2>1, <2>2
<1>4. ASSUME NEW j \in Jobs, Work(j) PROVE TypeOK'
  <2> UNCHANGED <<row, form, rows, edited, intent, raced>>
    BY <1>4 DEF Work
  <2>1. PICK d \in Durations :
          \/ Step(j, StageAfter[jobs[j].pc], Later(jobs[j].t, d), FALSE)
          \/ Step(j, StageAfter[jobs[j].pc], Later(jobs[j].t, d), TRUE)
          \/ Step(j, "marking", Later(jobs[j].t, d), FALSE)
    BY <1>4 DEF Work
  <2>2. StageAfter[jobs[j].pc] \in PCs /\ "marking" \in PCs
    BY <1>4, StageNames DEF Work
  <2>3. jobs' \in [Jobs -> JobType]
    BY <2>1, <2>2, JobFacts, StepType
  <2> QED BY <2>3
<1>5. ASSUME NEW j \in Jobs, Commit(j) PROVE TypeOK'
  <2> UNCHANGED <<form, rows, edited, intent>>
    BY <1>5 DEF Commit
  <2>1. PICK d \in Durations :
          /\ \/ Step(j, "closing", Later(jobs[j].t, d), FALSE)
             \/ Step(j, "marking", Later(jobs[j].t, d), FALSE)
          /\ \/ /\ row' = [pk |-> jobs[j].mem.pk, conf |-> jobs[j].mem.conf,
                           confirmed |-> jobs[j].mem.confirmed,
                           status |-> "synced",
                           truncated |-> jobs[j].cut, by |-> j]
                /\ VerdictRaces
             \/ UNCHANGED <<row, raced>>
    BY <1>5 DEF Commit
  <2>2. row' \in RowType
    BY <2>1, JobFacts DEF RowType, UserParts, Statuses
  <2>3. jobs' \in [Jobs -> JobType]
    BY <2>1, JobFacts, StepType, StageNames
  <2>4. raced' \in [user : BOOLEAN, verdict : BOOLEAN]
    BY <2>1, RacedType
  <2> QED BY <2>2, <2>3, <2>4
<1>6. ASSUME NEW j \in Jobs, Closing(j) PROVE TypeOK'
  <2> UNCHANGED <<row, form, rows, edited, intent, raced>>
    BY <1>6 DEF Closing
  <2>1. PICK d \in Durations :
          \/ Step(j, "check", Later(jobs[j].t, d), FALSE)
          \/ Step(j, "marking", Later(jobs[j].t, d), FALSE)
          \/ End(j, "done", FALSE)
          \/ End(j, "errored", FALSE)
    BY <1>6 DEF Closing
  <2>2. jobs' \in [Jobs -> JobType]
    BY <2>1, JobFacts, StepType, EndType, StageNames
  <2> QED BY <2>2
<1>7. ASSUME NEW j \in Jobs, Check(j) PROVE TypeOK'
  <2> UNCHANGED <<row, form, rows, edited, intent, raced>>
    BY <1>7 DEF Check
  <2>1. \/ jobs' = [jobs EXCEPT ![j].pc = "marking"]
        \/ End(j, "done", FALSE)
        \/ End(j, "errored", FALSE)
    BY <1>7 DEF Check
  <2>2. jobs' \in [Jobs -> JobType]
    BY <2>1, EndType, StageNames DEF JobType
  <2> QED BY <2>2
<1>8. ASSUME NEW j \in Jobs, MarkFailed(j) PROVE TypeOK'
  <2> UNCHANGED <<form, rows, edited, intent>>
    BY <1>8 DEF MarkFailed
  <2>1. row' \in RowType
    BY <1>8 DEF MarkFailed, MarkedRow, RowType, Statuses
  <2>2. jobs' \in [Jobs -> JobType]
    BY <1>8, EndType, StageNames DEF MarkFailed
  <2>3. raced' \in [user : BOOLEAN, verdict : BOOLEAN]
    BY <1>8, RacedType DEF MarkFailed
  <2> QED BY <2>1, <2>2, <2>3
<1>9. ASSUME NEW j \in Jobs, Kill(j) PROVE TypeOK'
  <2>1. jobs' \in [Jobs -> JobType]
    BY <1>9, EndType, StageNames DEF Kill
  <2> QED BY <1>9, <2>1 DEF Kill
<1>10. ASSUME NEW e \in Editors, EditOpen(e) PROVE TypeOK'
  BY <1>10 DEF EditOpen
<1>11. ASSUME NEW e \in Editors, EditSave(e) PROVE TypeOK'
  <2>1. form' \in [Editors -> RowType] /\ edited' \subseteq Editors
    BY <1>11, NoRowType DEF EditSave
  <2>2. CASE CanSave(form[e].pk)
    <3>1. PICK conf \in {form[e].conf, Cardinality(edited) + 1} :
            /\ row' = [form[e] EXCEPT !.conf = conf]
            /\ intent' = [intent EXCEPT !.pk = form[e].pk, !.conf = conf]
            /\ UserChangeRaces({e})
      BY <1>11, <2>2 DEF EditSave
    <3>2. form[e] \in RowType /\ conf \in Nat
      BY EditedNat DEF RowType
    <3>3. row' \in RowType /\ intent' \in UserParts
      BY <3>1, <3>2 DEF RowType, UserParts
    <3>4. raced' \in [user : BOOLEAN, verdict : BOOLEAN]
      BY <3>1, RacedType
    <3> QED BY <1>11, <2>1, <3>3, <3>4 DEF EditSave
  <2>3. CASE ~CanSave(form[e].pk)
    BY <1>11, <2>1, <2>3 DEF EditSave
  <2> QED BY <2>2, <2>3
<1>12. CASE UserCreate
  <2>1. rows + 1 \in Nat /\ 0 \in Nat /\ TRUE \in BOOLEAN
    OBVIOUS
  <2>2. row' \in RowType /\ intent' \in UserParts
    BY <1>12, <2>1, NewRowType DEF UserCreate
  <2>3. raced' \in [user : BOOLEAN, verdict : BOOLEAN]
    BY <1>12, RacedType DEF UserCreate
  <2> QED BY <1>12, <2>1, <2>2, <2>3 DEF UserCreate
<1>13. CASE SiteReview
  <2>1. row' \in RowType /\ intent' \in UserParts
    BY <1>13 DEF SiteReview, RowType, UserParts
  <2>2. raced' \in [user : BOOLEAN, verdict : BOOLEAN]
    BY <1>13, RacedType DEF SiteReview
  <2> QED BY <1>13, <2>1, <2>2 DEF SiteReview
<1>14. CASE Delete
  BY <1>14, NoRowType, RacedType DEF Delete
<1>15. CASE UNCHANGED vars
  BY <1>15 DEF vars
<1> HIDE DEF TypeOK
<1> QED
  BY <1>1, <1>2, <1>3, <1>4, <1>5, <1>6, <1>7, <1>8, <1>9, <1>10, <1>11,
     <1>12, <1>13, <1>14, <1>15 DEF Next, Progress, Jobs

\* Every reachable state of the row, the jobs and the requests is well-typed,
\* whatever the interleaving (sync.py, jobs.py, forms.py).
THEOREM TypeCorrect == Spec => []TypeOK
<1>1. Init => TypeOK
  <2> SUFFICES ASSUME Init PROVE TypeOK
    OBVIOUS
  <2>1. IdleJob \in JobType
    BY NoRowType, StageNames DEF IdleJob, JobType
  <2> QED BY <2>1, NoRowType DEF Init, TypeOK
<1> QED BY <1>1, TypeStep, PTL DEF Spec

-----------------------------------------------------------------------------
(* No lost user change outside a read-modify-write window.                 *)

\* Only its own steps change a job, and a job enters its window from outside
\* it only in Start and ImportStart.
LEMMA StepWindow ==
    ASSUME TypeOK, NEW j \in Jobs, NEW pc, NEW t2, NEW cut, Step(j, pc, t2, cut)
    PROVE  /\ \A k \in Jobs \ {j} : jobs'[k] = jobs[k]
           /\ jobs'[j].pc = pc /\ jobs'[j].mem = jobs[j].mem
           /\ jobs'[j].t = t2 /\ jobs'[j].start = jobs[j].start
           /\ jobs'[j].cut = (jobs[j].cut \/ cut)
           /\ jobs'[j].armed = (jobs[j].armed /\ t2 < Budget)
           /\ jobs'[j].marked = jobs[j].marked
BY DEF Step, TypeOK, JobType

LEMMA EndWindow ==
    ASSUME TypeOK, NEW j \in Jobs, NEW pc, NEW marked, End(j, pc, marked)
    PROVE  /\ \A k \in Jobs \ {j} : jobs'[k] = jobs[k]
           /\ jobs'[j].pc = pc /\ jobs'[j].cut = jobs[j].cut
           /\ jobs'[j].marked = marked
BY DEF End, TypeOK, JobType, IdleJob

LEMMA PCNames ==
    /\ \A pc \in {"idle", "queued", "closing", "check", "marking", "done", "errored", "killed"} :
          pc \notin Working
    /\ \A pc \in Stages : pc \in Working /\ StageAfter[pc] \in Working
    /\ "sysinfo" \in Working /\ "commit" \in Working
BY DEF Working, Stages, StageAfter

LEMMA NoRowClosed == NoRow.pk = 0
BY DEF NoRow

\* A step that leaves row, forms and ghosts alone, and moves one job without
\* letting it into the window, keeps the invariant.
LEMMA QuietStep ==
    ASSUME TypeOK, IntentInv, NEW j \in Jobs,
           \A k \in Jobs \ {j} : jobs'[k] = jobs[k],
           jobs'[j].pc \in Working => jobs[j].pc \in Working /\ jobs'[j].mem = jobs[j].mem,
           UNCHANGED <<row, form, intent, raced>>
    PROVE  IntentInv'
BY DEF IntentInv, SyncWindow, EditWindow

LEMMA IntentStep == TypeOK /\ IntentInv /\ [Next]_vars => IntentInv'
<1> SUFFICES ASSUME TypeOK, IntentInv, [Next]_vars PROVE IntentInv'
  OBVIOUS
<1>1. ASSUME NEW j \in SyncJobs, Enqueue(j) PROVE IntentInv'
  <2>1. j \in Jobs /\ jobs'[j].pc = "queued" /\ \A k \in Jobs \ {j} : jobs'[k] = jobs[k]
    BY <1>1 DEF Enqueue, TypeOK, JobType, Jobs
  <2> QED BY <1>1, <2>1, PCNames, QuietStep DEF Enqueue
<1>2. ASSUME NEW i \in Imports, ImportStart(i) PROVE IntentInv'
  <2> DEFINE Began(r, t0, armed) ==
               jobs' = [jobs EXCEPT ![i] = [jobs[i] EXCEPT
                            !.pc = "sysinfo", !.mem = UserPart(r),
                            !.t = t0, !.start = t0, !.armed = armed]]
  <2>1. i \in Jobs /\ form' = form
    BY <1>2 DEF ImportStart, Jobs
  <2>2. ASSUME NEW r, NEW t0, NEW armed, Began(r, t0, armed)
        PROVE  jobs'[i].mem = UserPart(r) /\ \A k \in Jobs \ {i} : jobs'[k] = jobs[k]
    BY <2>1, <2>2 DEF TypeOK, JobType
  <2> HIDE DEF Began
  <2>3. PICK t0 \in 0..(Budget - 1), armed \in BOOLEAN :
          \/ Began(row, t0, armed) /\ UNCHANGED <<row, intent, raced>>
          \/ \E new : /\ row' = new /\ intent' = UserPart(new)
                      /\ Began(new, t0, armed) /\ UserChangeRaces({})
    BY <1>2 DEF ImportStart, Began
  <2>4. CASE Began(row, t0, armed) /\ UNCHANGED <<row, intent, raced>>
    <3>1. jobs'[i].mem = UserPart(row) /\ \A k \in Jobs \ {i} : jobs'[k] = jobs[k]
      BY <2>2, <2>4
    <3> QED BY <2>1, <2>4, <3>1 DEF IntentInv, SyncWindow, EditWindow
  <2>5. ASSUME NEW new, row' = new, intent' = UserPart(new),
               Began(new, t0, armed), UserChangeRaces({})
        PROVE  IntentInv'
    <3>1. jobs'[i].mem = intent' /\ \A k \in Jobs \ {i} : jobs'[k] = jobs[k]
      BY <2>2, <2>5
    <3>2. ~raced'.user => /\ \A k \in Jobs : ~SyncWindow(k)
                          /\ \A e \in Editors : ~EditWindow(e)
      BY <2>5 DEF UserChangeRaces, TypeOK
    <3> QED BY <2>1, <2>5, <3>1, <3>2 DEF IntentInv, SyncWindow, EditWindow
  <2> QED BY <2>3, <2>4, <2>5
<1>3. ASSUME NEW j \in Jobs, Start(j) PROVE IntentInv'
  <2>1. CASE row.pk = jobs[j].mem.pk
    <3>1. jobs'[j].mem = UserPart(row) /\ \A k \in Jobs \ {j} : jobs'[k] = jobs[k]
      BY <1>3, <2>1 DEF Start, TypeOK, JobType
    <3> QED BY <1>3, <3>1 DEF Start, IntentInv, SyncWindow, EditWindow
  <2>2. CASE row.pk # jobs[j].mem.pk
    <3>1. jobs'[j].pc = "errored" /\ \A k \in Jobs \ {j} : jobs'[k] = jobs[k]
      BY <1>3, <2>2, EndWindow DEF Start
    <3>2. jobs'[j].pc \notin Working
      BY <3>1, PCNames
    <3> QED BY <1>3, <3>1, <3>2, QuietStep DEF Start
  <2> QED BY <2>1, <2>2
<1>4. ASSUME NEW j \in Jobs, Work(j) PROVE IntentInv'
  <2>1. PICK pc, t2, cut : Step(j, pc, t2, cut)
    BY <1>4 DEF Work
  <2>2. jobs[j].pc \in Working
    BY <1>4, PCNames DEF Work
  <2> QED BY <1>4, <2>1, <2>2, StepWindow, QuietStep DEF Work
<1>5. ASSUME NEW j \in Jobs, Commit(j) PROVE IntentInv'
  <2>1. PICK pc \in {"closing", "marking"} : \E t2 : Step(j, pc, t2, FALSE)
    BY <1>5 DEF Commit
  <2>2. jobs'[j].pc \notin Working /\ \A k \in Jobs \ {j} : jobs'[k] = jobs[k]
    BY <2>1, StepWindow DEF Working, Stages
  <2>3. CASE UNCHANGED <<row, raced>>
    BY <1>5, <2>2, <2>3, QuietStep DEF Commit
  <2>4. CASE ~ UNCHANGED <<row, raced>>
    <3>1. /\ row' = [pk |-> jobs[j].mem.pk, conf |-> jobs[j].mem.conf,
                     confirmed |-> jobs[j].mem.confirmed,
                     status |-> "synced", truncated |-> jobs[j].cut, by |-> j]
          /\ VerdictRaces
      BY <1>5, <2>4 DEF Commit
    <3>2. UserPart(row') = jobs[j].mem
      BY <3>1, JobFacts DEF UserPart, UserParts
    <3>3. raced'.user = raced.user /\ jobs[j].pc \in Working
      BY <1>5, <3>1, PCNames DEF VerdictRaces, TypeOK, Commit
    <3> QED BY <1>5, <2>2, <3>2, <3>3 DEF Commit, IntentInv, SyncWindow, EditWindow
  <2> QED BY <2>3, <2>4
<1>6. ASSUME NEW j \in Jobs, Closing(j) PROVE IntentInv'
  <2>1. \/ \E pc \in {"check", "marking"} : \E t2 : Step(j, pc, t2, FALSE)
        \/ \E pc \in {"done", "errored"} : End(j, pc, FALSE)
    BY <1>6 DEF Closing
  <2>2. jobs'[j].pc \notin Working /\ \A k \in Jobs \ {j} : jobs'[k] = jobs[k]
    <3>1. CASE \E pc \in {"check", "marking"} : \E t2 : Step(j, pc, t2, FALSE)
      BY <3>1, StepWindow DEF Working, Stages
    <3>2. CASE \E pc \in {"done", "errored"} : End(j, pc, FALSE)
      BY <3>2, EndWindow DEF Working, Stages
    <3> QED BY <2>1, <3>1, <3>2
  <2> QED BY <1>6, <2>2, QuietStep DEF Closing
<1>7. ASSUME NEW j \in Jobs, Check(j) PROVE IntentInv'
  <2>1. \/ jobs' = [jobs EXCEPT ![j].pc = "marking"]
        \/ \E pc \in {"done", "errored"} : End(j, pc, FALSE)
    BY <1>7 DEF Check
  <2>2. jobs'[j].pc \notin Working /\ \A k \in Jobs \ {j} : jobs'[k] = jobs[k]
    <3>1. CASE jobs' = [jobs EXCEPT ![j].pc = "marking"]
      BY <3>1 DEF TypeOK, JobType, Working, Stages
    <3>2. CASE \E pc \in {"done", "errored"} : End(j, pc, FALSE)
      BY <3>2, EndWindow DEF Working, Stages
    <3> QED BY <2>1, <3>1, <3>2
  <2> QED BY <1>7, <2>2, QuietStep DEF Check
<1>8. ASSUME NEW j \in Jobs, MarkFailed(j) PROVE IntentInv'
  <2>1. jobs'[j].pc \notin Working /\ \A k \in Jobs \ {j} : jobs'[k] = jobs[k]
    BY <1>8, EndWindow, PCNames DEF MarkFailed
  <2>2. UserPart(row') = UserPart(row) /\ raced'.user = raced.user
    BY <1>8 DEF MarkFailed, MarkedRow, VerdictRaces, UserPart, TypeOK, RowType
  <2> QED BY <1>8, <2>1, <2>2 DEF MarkFailed, IntentInv, SyncWindow, EditWindow
<1>9. ASSUME NEW j \in Jobs, Kill(j) PROVE IntentInv'
  BY <1>9, EndWindow, PCNames, QuietStep DEF Kill
<1>10. ASSUME NEW e \in Editors, EditOpen(e) PROVE IntentInv'
  BY <1>10 DEF EditOpen, IntentInv, SyncWindow, EditWindow, TypeOK
<1>11. ASSUME NEW e \in Editors, EditSave(e) PROVE IntentInv'
  <2>1. form'[e].pk = 0 /\ \A f \in Editors \ {e} : form'[f] = form[f]
    BY <1>11, NoRowClosed DEF EditSave, TypeOK
  <2>2. CASE CanSave(form[e].pk)
    <3>1. PICK conf \in {form[e].conf, Cardinality(edited) + 1} :
            /\ row' = [form[e] EXCEPT !.conf = conf]
            /\ intent' = [intent EXCEPT !.pk = form[e].pk, !.conf = conf]
            /\ UserChangeRaces({e})
      BY <1>11, <2>2 DEF EditSave
    <3>2. ~raced'.user => /\ ~raced.user
                          /\ \A j \in Jobs : ~SyncWindow(j)
                          /\ \A f \in Editors \ {e} : ~EditWindow(f)
      BY <3>1 DEF UserChangeRaces, TypeOK
    <3>3. ~raced'.user => UserPart(row') = intent'
      <4> SUFFICES ASSUME ~raced'.user PROVE UserPart(row') = intent'
        OBVIOUS
      <4>1. form[e] \in RowType /\ intent \in UserParts
        BY DEF TypeOK
      <4>2. UserPart(form[e]) = intent
        BY <1>11, <3>2 DEF EditSave, IntentInv
      <4>3. intent.confirmed = form[e].confirmed
        BY <4>2 DEF UserPart
      <4>4. intent' = [pk |-> form[e].pk, conf |-> conf, confirmed |-> form[e].confirmed]
        BY <3>1, <4>1, <4>3 DEF UserParts
      <4>5. /\ row'.pk = form[e].pk /\ row'.conf = conf
            /\ row'.confirmed = form[e].confirmed
        BY <3>1, <4>1 DEF RowType
      <4> QED BY <4>4, <4>5 DEF UserPart
    <3> QED BY <1>11, <2>1, <3>2, <3>3 DEF EditSave, IntentInv, SyncWindow, EditWindow
  <2>3. CASE ~CanSave(form[e].pk)
    BY <1>11, <2>1, <2>3 DEF EditSave, IntentInv, SyncWindow, EditWindow
  <2> QED BY <2>2, <2>3
<1>12. CASE UserCreate
  BY <1>12 DEF UserCreate, IntentInv, SyncWindow, EditWindow, UserChangeRaces, TypeOK
<1>13. CASE SiteReview
  <2>1. UserPart(row) = intent => UserPart(row') = intent'
    <3>1. row \in RowType /\ intent \in UserParts
      BY DEF TypeOK
    <3>2. /\ row'.pk = row.pk /\ row'.conf = row.conf /\ row'.confirmed = TRUE
          /\ intent' = [pk |-> intent.pk, conf |-> intent.conf, confirmed |-> TRUE]
      BY <1>13, <3>1 DEF SiteReview, RowType, UserParts
    <3> SUFFICES ASSUME UserPart(row) = intent PROVE UserPart(row') = intent'
      OBVIOUS
    <3>3. intent.pk = row.pk /\ intent.conf = row.conf
      BY DEF UserPart
    <3> QED BY <3>2, <3>3 DEF UserPart
  <2> QED BY <1>13, <2>1
          DEF SiteReview, IntentInv, SyncWindow, EditWindow, UserChangeRaces, TypeOK
<1>14. CASE Delete
  BY <1>14 DEF Delete, IntentInv, SyncWindow, EditWindow, UserChangeRaces, TypeOK
<1>15. CASE UNCHANGED vars
  BY <1>15 DEF vars, IntentInv, SyncWindow, EditWindow
<1> QED
  BY <1>1, <1>2, <1>3, <1>4, <1>5, <1>6, <1>7, <1>8, <1>9, <1>10, <1>11,
     <1>12, <1>13, <1>14, <1>15 DEF Next, Progress, Jobs

\* A user's change is lost only inside a read-modify-write window of a sync
\* or of another edit: queued jobs, jobs past their save, and jobs marking
\* themselves failed never touch it (sync.py 874-884, 954; jobs.py 58).
THEOREM IntentIsKept == Spec => []IntentKept
<1>1. Init => IntentInv
  BY PCNames DEF Init, IntentInv, SyncWindow, EditWindow, IdleJob, NoRow
<1>2. IntentInv => IntentKept
  BY DEF IntentInv, IntentKept
<1> QED BY <1>1, <1>2, TypeCorrect, IntentStep, PTL DEF Spec

-----------------------------------------------------------------------------
(* No truncated inventory left "synced" by a sync job that ran to its end. *)

\* A job outside its active part keeps nothing but its outcome, so its clock
\* facts are those of the last line of Clock.
LEMMA EndClock ==
    ASSUME TypeOK, NEW j \in Jobs, NEW pc \in {"errored", "killed", "done"},
           NEW marked, End(j, pc, marked),
           pc = "done" /\ PromptStart => ~jobs[j].cut
    PROVE  Clock(j)'
BY EndWindow DEF Clock, Active, Working, Stages, PromptStart

\* An active step keeps the clock facts: a cut needs the alarm, and the alarm
\* needs the budget.
LEMMA StepClock ==
    ASSUME TypeOK, NEW j \in Jobs, Clock(j), jobs[j].pc \in Active,
           NEW pc \in Active, NEW d \in Durations, NEW cut \in BOOLEAN,
           cut => Fires(j, Later(jobs[j].t, d)),
           Step(j, pc, Later(jobs[j].t, d), cut)
    PROVE  Clock(j)'
<1> DEFINE t2 == Later(jobs[j].t, d)
<1>1. t2 \in Nat /\ (jobs[j].t >= Budget => t2 >= Budget)
  BY JobFacts, ConstantsAssumption DEF Later
<1>2. /\ jobs'[j].pc = pc /\ jobs'[j].t = t2 /\ jobs'[j].start = jobs[j].start
      /\ jobs'[j].cut = (jobs[j].cut \/ cut)
      /\ jobs'[j].armed = (jobs[j].armed /\ t2 < Budget)
  BY StepWindow
<1>3. cut => t2 >= Budget
  BY DEF Fires
<1> HIDE DEF t2
<1>4. jobs[j].armed \in BOOLEAN /\ jobs[j].cut \in BOOLEAN
  BY JobFacts
<1>5. pc \notin {"idle", "queued", "done"}
  BY DEF Active, Working, Stages
<1>6. t2 < Budget <=> ~(t2 >= Budget)
  BY <1>1, ConstantsAssumption
<1>7. jobs'[j].cut => ~jobs'[j].armed
  BY <1>2, <1>3, <1>4, <1>6 DEF Clock
<1>8. ~jobs'[j].armed => jobs'[j].t >= Budget
  BY <1>1, <1>2, <1>4, <1>6 DEF Clock
<1>9. PromptStart => jobs'[j].start <= Slack
  BY <1>2 DEF Clock
<1>10. PromptStart' <=> PromptStart
  BY DEF PromptStart
<1> QED BY <1>2, <1>5, <1>7, <1>8, <1>9, <1>10 DEF Clock

\* An overrun that was swallowed is always seen by the elapsed-time check.
LEMMA CutIsOverdue ==
    ASSUME TypeOK, NEW j \in Jobs, Clock(j), jobs[j].pc = "check",
           jobs[j].cut, PromptStart
    PROVE  Overdue(j)
<1>1. jobs[j].t >= Budget /\ jobs[j].start <= Slack
  BY DEF Clock, Active, Working, Stages
<1> QED BY <1>1, JobFacts, ConstantsAssumption DEF Overdue

\* Moving a job without disturbing the row keeps every row's verdict traced
\* and honest, if the job keeps its cut and stays open when it was.
LEMMA QuietVerdict ==
    ASSUME VerdictInv, NEW j \in Jobs,
           \A k \in Jobs \ {j} : jobs'[k] = jobs[k],
           jobs[j].cut => jobs'[j].cut,
           j \in SyncJobs => Clock(j)',
           j \in Imports \/ ~PromptStart \/
              (jobs[j].cut /\ VerdictOpen(j) => VerdictOpen(j)'),
           UNCHANGED <<row, form>>, raced.verdict => raced'.verdict,
           raced.verdict \in BOOLEAN
    PROVE  VerdictInv'
<1>1. \A k \in SyncJobs : Clock(k)'
  BY DEF VerdictInv, Clock, Jobs, PromptStart
<1>2. ASSUME NEW r, Traced(r) PROVE Traced(r)'
  BY <1>2 DEF Traced
<1>3. ASSUME NEW r, Traced(r), PromptStart, VerdictHonest(r) PROVE VerdictHonest(r)'
  BY <1>3 DEF VerdictHonest, Traced, VerdictOpen
<1>4. PromptStart' <=> PromptStart
  BY DEF PromptStart
<1>5. Traced(row)' /\ (VerdictHonest(row) /\ PromptStart => VerdictHonest(row)')
  BY <1>2, <1>3 DEF VerdictInv, Traced, VerdictHonest, VerdictOpen
<1>6. \A e \in Editors :
         /\ Traced(form[e])' /\ (EditWindow(e)' \/ (form[e] = NoRow)')
         /\ VerdictHonest(form[e]) /\ PromptStart => VerdictHonest(form[e])'
  BY <1>2, <1>3 DEF VerdictInv, EditWindow, Traced, VerdictHonest, VerdictOpen
<1> QED BY <1>1, <1>4, <1>5, <1>6 DEF VerdictInv

\* A user's request moves verdicts between the row and the forms, or drops
\* them; it makes none.
LEMMA UserVerdict ==
    ASSUME VerdictInv, jobs' = jobs, raced'.verdict = raced.verdict,
           \/ ~row'.truncated
           \/ \E r \in {row} \cup {form[e] : e \in Editors} :
                 /\ row'.truncated = r.truncated /\ row'.by = r.by
                 /\ row'.status = r.status,
           \A e \in Editors : \/ form'[e] = form[e]
                              \/ form'[e] = NoRow
                              \/ form'[e] = row /\ row.pk # 0
    PROVE  VerdictInv'
<1>1. PromptStart' <=> PromptStart
  BY DEF PromptStart
<1>2. \A j \in SyncJobs : Clock(j)'
  BY DEF VerdictInv, Clock, PromptStart
<1>3. ASSUME NEW r \in {row} \cup {form[e] : e \in Editors}
      PROVE  /\ Traced(r)
             /\ PromptStart /\ ~raced.verdict => VerdictHonest(r)
  BY <1>3 DEF VerdictInv
<1>4. Traced(row)' /\ (PromptStart /\ ~raced.verdict => VerdictHonest(row)')
  BY <1>3 DEF Traced, VerdictHonest, VerdictOpen
<1>5. ASSUME NEW e \in Editors
      PROVE  /\ Traced(form[e])' /\ (EditWindow(e) \/ form[e] = NoRow)'
             /\ PromptStart /\ ~raced.verdict => VerdictHonest(form[e])'
  <2>1. CASE form'[e] = NoRow
    BY <2>1 DEF NoRow, Traced, VerdictHonest
  <2>2. CASE form'[e] = form[e]
    BY <1>3, <2>2 DEF Traced, VerdictHonest, VerdictOpen, EditWindow, VerdictInv
  <2>3. CASE form'[e] = row /\ row.pk # 0
    BY <1>3, <2>3 DEF Traced, VerdictHonest, VerdictOpen, EditWindow
  <2> QED BY <2>1, <2>2, <2>3
<1> QED BY <1>1, <1>2, <1>4, <1>5 DEF VerdictInv

\* A verdict is either written while no edit request is open, or counts as a
\* race from then on.
LEMMA NewVerdict ==
    ASSUME TypeOK, VerdictInv, NEW j \in Jobs,
           \A k \in Jobs \ {j} : jobs'[k] = jobs[k],
           jobs[j].cut => jobs'[j].cut,
           j \in SyncJobs => Clock(j)',
           Traced(row)', PromptStart => VerdictHonest(row)',
           form' = form, VerdictRaces
    PROVE  VerdictInv'
<1>1. \A k \in SyncJobs : Clock(k)'
  BY DEF VerdictInv, Clock, Jobs, PromptStart
<1>2. \A e \in Editors : Traced(form[e])' /\ (EditWindow(e) \/ form[e] = NoRow)'
  BY DEF VerdictInv, EditWindow, Traced
<1>3. ~raced'.verdict => \A e \in Editors : form[e] = NoRow
  BY DEF VerdictInv, VerdictRaces, TypeOK
<1>4. ASSUME NEW e \in Editors, form[e] = NoRow PROVE VerdictHonest(form[e])'
  BY <1>4 DEF VerdictHonest, NoRow
<1>5. PromptStart' <=> PromptStart
  BY DEF PromptStart
<1> QED BY <1>1, <1>2, <1>3, <1>4, <1>5 DEF VerdictInv

LEMMA VerdictStep == TypeOK /\ VerdictInv /\ [Next]_vars => VerdictInv'
<1> SUFFICES ASSUME TypeOK, VerdictInv, [Next]_vars PROVE VerdictInv'
  OBVIOUS
<1>a. raced.verdict \in BOOLEAN /\ \A who : UserChangeRaces(who) => raced'.verdict = raced.verdict
  BY DEF TypeOK, UserChangeRaces
<1>b. \A j \in Jobs : jobs[j].cut \in BOOLEAN
  BY JobFacts
<1>c. ASSUME NEW j \in Jobs PROVE
        /\ jobs[j].pc \in Working \cup {"idle", "queued", "done"} => ~VerdictOpen(j)
        /\ jobs[j].pc \in {"closing", "check", "marking"} => VerdictOpen(j)
  BY DEF VerdictOpen, Working, Stages
<1>d. \A j \in SyncJobs : Clock(j)
  BY DEF VerdictInv
<1>1. ASSUME NEW j \in SyncJobs, Enqueue(j) PROVE VerdictInv'
  <2>1. /\ j \in Jobs /\ jobs'[j].pc = "queued" /\ jobs'[j].cut = jobs[j].cut
        /\ jobs'[j].armed = jobs[j].armed
        /\ \A k \in Jobs \ {j} : jobs'[k] = jobs[k]
    BY <1>1 DEF Enqueue, TypeOK, JobType, Jobs
  <2>2. Clock(j)' /\ ~jobs[j].cut
    BY <1>1, <2>1, <1>d DEF Enqueue, Clock, Active, Working, Stages
  <2>3. UNCHANGED <<row, form, raced>>
    BY <1>1 DEF Enqueue
  <2> QED BY <2>1, <2>2, <2>3, <1>a, QuietVerdict
<1>2. ASSUME NEW i \in Imports, ImportStart(i) PROVE VerdictInv'
  <2> DEFINE Began == jobs'[i].pc = "sysinfo" /\ jobs'[i].cut = jobs[i].cut
  <2>1. /\ i \in Jobs /\ i \notin SyncJobs /\ form' = form
        /\ \A k \in Jobs \ {i} : jobs'[k] = jobs[k]
        /\ jobs'[i].cut = jobs[i].cut
    <3>1. i \in Jobs /\ i \notin SyncJobs
      BY ConstantsAssumption DEF Jobs
    <3>2. PICK mem, t0, armed :
            jobs' = [jobs EXCEPT ![i] = [jobs[i] EXCEPT
                        !.pc = "sysinfo", !.mem = mem,
                        !.t = t0, !.start = t0, !.armed = armed]]
      BY <1>2 DEF ImportStart
    <3> QED BY <1>2, <3>1, <3>2 DEF ImportStart, TypeOK, JobType
  <2>2. \/ UNCHANGED <<row, raced>>
        \/ \E confirmed \in BOOLEAN :
              /\ row' = NewRow(rows + 1, 0, confirmed)
              /\ UserChangeRaces({})
    BY <1>2 DEF ImportStart
  <2>3. CASE UNCHANGED <<row, raced>>
    BY <2>1, <2>3, <1>a, QuietVerdict
  <2>4. ASSUME NEW confirmed \in BOOLEAN,
               row' = NewRow(rows + 1, 0, confirmed), UserChangeRaces({})
        PROVE  VerdictInv'
    <3>1. ~row'.truncated
      BY <2>4 DEF NewRow, NoRow
    <3>2. \A k \in SyncJobs : Clock(k)'
      BY <2>1 DEF VerdictInv, Clock, Jobs, PromptStart
    <3>3. \A e \in Editors : Traced(form[e])' /\ (EditWindow(e) \/ form[e] = NoRow)'
      BY <2>1 DEF VerdictInv, EditWindow, Traced
    <3>4. ASSUME NEW e \in Editors, VerdictHonest(form[e]) PROVE VerdictHonest(form[e])'
      BY <2>1, <3>4 DEF VerdictInv, VerdictHonest, VerdictOpen, Traced
    <3>5. Traced(row)' /\ VerdictHonest(row)'
      BY <3>1 DEF Traced, VerdictHonest
    <3>6. PromptStart' <=> PromptStart
      BY DEF PromptStart
    <3> QED BY <3>2, <3>3, <3>4, <3>5, <3>6, <2>4, <1>a DEF VerdictInv
  <2> QED BY <2>2, <2>3, <2>4
<1>3. ASSUME NEW j \in Jobs, Start(j) PROVE VerdictInv'
  <2>1. UNCHANGED <<row, form, raced>> /\ jobs[j].pc = "queued"
    BY <1>3 DEF Start
  <2>2. CASE row.pk = jobs[j].mem.pk
    <3>1. PICK d \in StartDelays :
            jobs' = [jobs EXCEPT ![j] = [jobs[j] EXCEPT
                !.pc = "sysinfo", !.mem = UserPart(row), !.t = d, !.start = d]]
      BY <1>3, <2>2 DEF Start
    <3>2. /\ \A k \in Jobs \ {j} : jobs'[k] = jobs[k]
          /\ jobs'[j].pc = "sysinfo" /\ jobs'[j].start = d
          /\ jobs'[j].cut = jobs[j].cut /\ jobs'[j].armed = jobs[j].armed
      BY <3>1 DEF TypeOK, JobType
    <3>3. j \in SyncJobs => Clock(j)'
      BY <2>1, <3>2, <1>d DEF Clock, PromptStart, Active, Working, Stages
    <3> QED BY <2>1, <3>2, <3>3, <1>a, <1>c, QuietVerdict
  <2>3. CASE row.pk # jobs[j].mem.pk
    <3>1. End(j, "errored", FALSE)
      BY <1>3, <2>3 DEF Start
    <3>2. Clock(j)'
      BY <3>1, EndClock
    <3> QED BY <2>1, <3>1, <3>2, <1>a, <1>c, EndWindow, QuietVerdict
  <2> QED BY <2>2, <2>3
<1>4. ASSUME NEW j \in Jobs, Work(j) PROVE VerdictInv'
  <2>1. UNCHANGED <<row, form, raced>> /\ jobs[j].pc \in Working /\ jobs[j].pc \in Active
    BY <1>4 DEF Work, Working, Active
  <2>2. PICK d \in Durations, pc \in Active, cut \in BOOLEAN :
          /\ cut => Fires(j, Later(jobs[j].t, d))
          /\ Step(j, pc, Later(jobs[j].t, d), cut)
    BY <1>4, PCNames DEF Work, Active
  <2>3. j \in SyncJobs => Clock(j)'
    BY <2>1, <2>2, <1>d, StepClock
  <2>4. /\ \A k \in Jobs \ {j} : jobs'[k] = jobs[k]
        /\ jobs[j].cut => jobs'[j].cut
    BY <2>2, StepWindow
  <2> QED BY <2>1, <2>3, <2>4, <1>a, <1>c, QuietVerdict
<1>5. ASSUME NEW j \in Jobs, Commit(j) PROVE VerdictInv'
  <2>1. form' = form /\ jobs[j].pc \in Working /\ jobs[j].pc \in Active
    BY <1>5 DEF Commit, Working, Active
  <2>2. PICK d \in Durations, pc \in {"closing", "marking"} :
          /\ Step(j, pc, Later(jobs[j].t, d), FALSE)
          /\ \/ UNCHANGED <<row, raced>>
             \/ /\ row'.truncated = jobs[j].cut /\ row'.by = j
                /\ VerdictRaces
    <3>1. PICK d \in Durations :
            \/ /\ row' = [pk |-> jobs[j].mem.pk, conf |-> jobs[j].mem.conf,
                          confirmed |-> jobs[j].mem.confirmed,
                          status |-> "synced",
                          truncated |-> jobs[j].cut, by |-> j]
               /\ VerdictRaces
               /\ \/ Step(j, "closing", Later(jobs[j].t, d), FALSE)
                  \/ Step(j, "marking", Later(jobs[j].t, d), FALSE)
            \/ Step(j, "marking", Later(jobs[j].t, d), FALSE) /\ UNCHANGED <<row, raced>>
      BY <1>5 DEF Commit
    <3>a. ASSUME NEW pk, NEW conf, NEW confirmed, NEW cut,
                 row' = [pk |-> pk, conf |-> conf, confirmed |-> confirmed,
                         status |-> "synced", truncated |-> cut, by |-> j]
          PROVE  row'.truncated = cut /\ row'.by = j
      BY <3>a
    <3>2. UNCHANGED <<row, raced>> \/ (row'.truncated = jobs[j].cut /\ row'.by = j /\ VerdictRaces)
      BY <3>1, <3>a, Zenon
    <3>3. \E pc \in {"closing", "marking"} : Step(j, pc, Later(jobs[j].t, d), FALSE)
      BY <3>1
    <3> QED BY <3>2, <3>3
  <2>3. j \in SyncJobs => Clock(j)'
    BY <2>1, <2>2, <1>d, StepClock DEF Active
  <2>4. /\ \A k \in Jobs \ {j} : jobs'[k] = jobs[k]
        /\ jobs'[j].cut = jobs[j].cut
        /\ jobs'[j].pc \in {"closing", "marking"}
    BY <2>2, StepWindow, <1>b
  <2>5. CASE UNCHANGED <<row, raced>>
    BY <2>1, <2>3, <2>4, <2>5, <1>a, <1>c, QuietVerdict
  <2>6. CASE row'.truncated = jobs[j].cut /\ row'.by = j /\ VerdictRaces
    <3>1. Traced(row)' /\ VerdictHonest(row)'
      BY <2>4, <2>6 DEF Traced, VerdictHonest, VerdictOpen
    <3> QED BY <2>1, <2>3, <2>4, <2>6, <3>1, NewVerdict
  <2> QED BY <2>2, <2>5, <2>6
<1>6. ASSUME NEW j \in Jobs, Closing(j) PROVE VerdictInv'
  <2>1. UNCHANGED <<row, form, raced>> /\ jobs[j].pc \in Active
    BY <1>6 DEF Closing, Active
  <2>2. CASE \E pc \in {"check", "marking"}, d \in Durations :
                 Step(j, pc, Later(jobs[j].t, d), FALSE)
    <3>1. PICK pc \in {"check", "marking"}, d \in Durations :
                 Step(j, pc, Later(jobs[j].t, d), FALSE)
      BY <2>2
    <3>2. j \in SyncJobs => Clock(j)'
      BY <2>1, <3>1, <1>d, StepClock DEF Active
    <3>3. /\ \A k \in Jobs \ {j} : jobs'[k] = jobs[k]
          /\ jobs'[j].cut = jobs[j].cut /\ jobs'[j].pc \in {"check", "marking"}
      BY <3>1, StepWindow, <1>b
    <3>4. VerdictOpen(j)'
      BY <3>3 DEF VerdictOpen
    <3> QED BY <2>1, <3>2, <3>3, <3>4, <1>a, QuietVerdict
  <2>3. CASE End(j, "errored", FALSE)
    <3>1. Clock(j)' /\ VerdictOpen(j)'
      BY <2>3, EndClock, EndWindow DEF VerdictOpen
    <3> QED BY <2>1, <2>3, <3>1, <1>a, EndWindow, QuietVerdict
  <2>4. CASE j \notin SyncJobs /\ End(j, "done", FALSE)
    <3>1. j \in Imports
      BY <2>4 DEF Jobs
    <3> QED BY <2>1, <2>4, <3>1, <1>a, EndWindow, QuietVerdict
  <2> QED BY <1>6, <2>2, <2>3, <2>4 DEF Closing
<1>7. ASSUME NEW j \in Jobs, Check(j) PROVE VerdictInv'
  <2>1. UNCHANGED <<row, form, raced>> /\ jobs[j].pc = "check"
    BY <1>7 DEF Check
  <2>2. CASE Overdue(j)
    <3>1. /\ \A k \in Jobs \ {j} : jobs'[k] = jobs[k]
          /\ jobs'[j].pc = "marking" /\ jobs'[j].cut = jobs[j].cut
          /\ jobs'[j].armed = jobs[j].armed /\ jobs'[j].t = jobs[j].t
          /\ jobs'[j].start = jobs[j].start
      BY <1>7, <2>2 DEF Check, TypeOK, JobType
    <3>2. j \in SyncJobs => Clock(j)'
      BY <2>1, <3>1, <1>d DEF Clock, Active, Working, Stages, PromptStart
    <3>3. VerdictOpen(j)'
      BY <3>1 DEF VerdictOpen
    <3> QED BY <2>1, <3>1, <3>2, <3>3, <1>a, QuietVerdict
  <2>3. CASE ~Overdue(j)
    <3>1. PICK pc \in {"done", "errored"} : End(j, pc, FALSE)
      BY <1>7, <2>3 DEF Check
    <3>2. j \in SyncJobs /\ PromptStart => ~jobs[j].cut
      BY <2>1, <2>3, <1>d, CutIsOverdue
    <3>3. j \in SyncJobs => Clock(j)'
      BY <3>1, <3>2, EndClock
    <3> QED BY <2>1, <3>1, <3>2, <3>3, <1>a, EndWindow, QuietVerdict DEF Jobs
  <2> QED BY <2>2, <2>3
<1>8. ASSUME NEW j \in Jobs, MarkFailed(j) PROVE VerdictInv'
  <2>1. form' = form
    BY <1>8 DEF MarkFailed
  <2>2. PICK marked \in BOOLEAN :
          /\ End(j, "errored", marked)
          /\ \/ ~marked /\ UNCHANGED <<row, raced>>
             \/ row' = [row EXCEPT !.status = "failed"] /\ VerdictRaces
    BY <1>8 DEF MarkFailed, MarkedRow
  <2>3. Clock(j)'
    BY <2>2, EndClock
  <2>4. /\ \A k \in Jobs \ {j} : jobs'[k] = jobs[k]
        /\ jobs'[j].cut = jobs[j].cut
        /\ jobs'[j].pc = "errored" /\ jobs'[j].marked = marked
    BY <2>2, EndWindow
  <2>5. CASE ~marked /\ UNCHANGED <<row, raced>>
    <3>1. VerdictOpen(j)'
      BY <2>4, <2>5 DEF VerdictOpen
    <3> QED BY <2>1, <2>3, <2>4, <2>5, <3>1, <1>a, QuietVerdict
  <2>6. CASE row' = [row EXCEPT !.status = "failed"] /\ VerdictRaces
    <3>1. row'.status = "failed" /\ row'.truncated = row.truncated /\ row'.by = row.by
      BY <2>6 DEF TypeOK, RowType
    <3>2. Traced(row)' /\ VerdictHonest(row)'
      BY <2>4, <3>1 DEF VerdictInv, Traced, VerdictHonest
    <3> QED BY <2>1, <2>3, <2>4, <2>6, <3>2, NewVerdict
  <2> QED BY <2>2, <2>5, <2>6
<1>9. ASSUME NEW j \in Jobs, Kill(j) PROVE VerdictInv'
  <2>1. End(j, "killed", FALSE) /\ UNCHANGED <<row, form, raced>>
    BY <1>9 DEF Kill
  <2>2. Clock(j)' /\ VerdictOpen(j)'
    BY <2>1, EndClock, EndWindow DEF VerdictOpen
  <2> QED BY <2>1, <2>2, <1>a, EndWindow, QuietVerdict
<1>10. ASSUME NEW e \in Editors, EditOpen(e) PROVE VerdictInv'
  BY <1>10, UserVerdict DEF EditOpen, Live, TypeOK
<1>11. ASSUME NEW e \in Editors, EditSave(e) PROVE VerdictInv'
  <2>1. \A f \in Editors : form'[f] = form[f] \/ form'[f] = NoRow
    BY <1>11 DEF EditSave, TypeOK
  <2>2. jobs' = jobs /\ raced'.verdict = raced.verdict
    <3>1. jobs' = jobs /\ (raced' = raced \/ UserChangeRaces({e}))
      BY <1>11 DEF EditSave
    <3> QED BY <3>1, <1>a
  <2>3. \E r \in {row} \cup {form[f] : f \in Editors} :
           /\ row'.truncated = r.truncated /\ row'.by = r.by /\ row'.status = r.status
    <3>1. CASE CanSave(form[e].pk)
      <4>1. PICK conf : row' = [form[e] EXCEPT !.conf = conf]
        BY <1>11, <3>1 DEF EditSave
      <4>2. form[e] \in RowType
        BY DEF TypeOK
      <4> QED BY <4>1, <4>2 DEF RowType
    <3>2. CASE ~CanSave(form[e].pk)
      BY <1>11, <3>2 DEF EditSave
    <3> QED BY <3>1, <3>2
  <2> QED BY <2>1, <2>2, <2>3, UserVerdict
<1>12. CASE UserCreate
  <2>1. ~row'.truncated
    BY <1>12 DEF UserCreate, NewRow, NoRow
  <2> QED BY <1>12, <2>1, <1>a, UserVerdict DEF UserCreate
<1>13. CASE SiteReview
  <2>1. row'.truncated = row.truncated /\ row'.by = row.by /\ row'.status = row.status
    BY <1>13 DEF SiteReview, TypeOK, RowType
  <2> QED BY <1>13, <2>1, <1>a, UserVerdict DEF SiteReview
<1>14. CASE Delete
  <2>1. ~row'.truncated
    BY <1>14 DEF Delete, NoRow
  <2> QED BY <1>14, <2>1, <1>a, UserVerdict DEF Delete
<1>15. CASE UNCHANGED vars
  BY <1>15, UserVerdict DEF vars
<1> QED
  BY <1>1, <1>2, <1>3, <1>4, <1>5, <1>6, <1>7, <1>8, <1>9, <1>10, <1>11,
     <1>12, <1>13, <1>14, <1>15 DEF Next, Progress, Jobs

LEMMA VerdictInvariant == Spec => []VerdictInv
<1>1. Init => VerdictInv
  BY DEF Init, VerdictInv, Clock, Traced, VerdictHonest, EditWindow, IdleJob, NoRow,
         Jobs, Active, Working, Stages
<1> QED BY <1>1, TypeCorrect, VerdictStep, PTL DEF Spec

\* However jobs, imports, edits, deletions, kills and failing saves interleave,
\* and whatever stages the alarm lands in, a truncated inventory is "synced"
\* only by an import, by a job still on its way to the elapsed-time check, or
\* by a job that was killed or kept from saving (jobs.py 65-78) -- provided the
\* clock is read within Slack of arming the alarm, and no edit request was
\* open across a verdict.
THEOREM TruncatedIsNeverSynced == Spec => []TruncatedNeverSynced
<1>1. VerdictInv => TruncatedNeverSynced
  BY DEF VerdictInv, TruncatedNeverSynced
<1> QED BY <1>1, VerdictInvariant, PTL

\* A sync job that NetBox shows as completed lost nothing to the alarm
\* (jobs.py 65-78).
THEOREM DoneIsComplete == Spec => []DoneMeansComplete
<1>1. VerdictInv => DoneMeansComplete
  BY DEF VerdictInv, DoneMeansComplete, Clock
<1> QED BY <1>1, VerdictInvariant, PTL

-----------------------------------------------------------------------------
(* The row implements ServerRow.                                           *)

Crossed == raced.user \/ raced.verdict

LEMMA ActiveNames ==
    /\ Working \subseteq Active /\ Stages \subseteq Active
    /\ {"sysinfo", "commit", "closing", "check", "marking"} \subseteq Active
    /\ \A pc \in {"done", "errored", "killed"} : pc \notin Active \cup {"queued"}
BY DEF Active, Working, Stages

\* One job moves, and nothing a form or the row says changes.
LEMMA MovedJob ==
    ASSUME RowInv, NEW j \in Jobs, \A k \in Jobs \ {j} : jobs'[k] = jobs[k],
           jobs'[j].pc \in Active \cup {"queued"} => jobs'[j].mem.pk # 0,
           \/ UNCHANGED <<row, form, raced>>
           \/ VerdictRaces /\ UNCHANGED form /\ raced \in [user : BOOLEAN, verdict : BOOLEAN]
    PROVE  RowInv'
BY DEF RowInv, EditWindow, VerdictRaces

\* A user's change: no other form stays open without its being a crossing.
LEMMA ChangedRow ==
    ASSUME TypeOK, RowInv, NEW who, UserChangeRaces(who),
           \A e \in Editors \ who : form'[e] = form[e],
           \A e \in who : form'[e] = NoRow,
           \A j \in Jobs : jobs'[j].pc \in Active \cup {"queued"} => jobs'[j].mem.pk # 0
    PROVE  RowInv'
<1>1. raced' = [raced EXCEPT !.user =
                   \/ raced.user
                   \/ \E j \in Jobs : SyncWindow(j)
                   \/ \E e \in Editors \ who : EditWindow(e)]
  BY DEF UserChangeRaces
<1>2. raced \in [user : BOOLEAN, verdict : BOOLEAN]
  BY DEF TypeOK
<1>3. ~raced'.user => \A e \in Editors \ who : ~EditWindow(e)
  BY <1>1, <1>2
<1>4. \A e \in who : form'[e].pk = 0
  BY NoRowClosed
<1> QED BY <1>3, <1>4 DEF RowInv, EditWindow

LEMMA RowStep == TypeOK /\ RowInv /\ [Next]_vars => RowInv'
<1> SUFFICES ASSUME TypeOK, RowInv, [Next]_vars PROVE RowInv'
  OBVIOUS
<1>1. raced \in [user : BOOLEAN, verdict : BOOLEAN] /\ jobs \in [Jobs -> JobType]
      /\ row \in RowType /\ rows \in Nat /\ form \in [Editors -> RowType]
  BY DEF TypeOK
<1>2. \A j \in Jobs : jobs[j].pc \in Active \cup {"queued"} => jobs[j].mem.pk # 0
  BY DEF RowInv
<1>3. ASSUME NEW j \in SyncJobs, Enqueue(j) PROVE RowInv'
  <2>1. j \in Jobs /\ jobs'[j].mem.pk = row.pk /\ \A k \in Jobs \ {j} : jobs'[k] = jobs[k]
    BY <1>1, <1>3 DEF Enqueue, JobType, UserParts, Jobs
  <2>2. row.pk # 0 /\ UNCHANGED <<row, form, raced>>
    BY <1>3 DEF Enqueue, Live
  <2> QED BY <2>1, <2>2, MovedJob
<1>4. ASSUME NEW i \in Imports, ImportStart(i) PROVE RowInv'
  <2> DEFINE Began(r, t0, armed) ==
               jobs' = [jobs EXCEPT ![i] = [jobs[i] EXCEPT
                            !.pc = "sysinfo", !.mem = UserPart(r),
                            !.t = t0, !.start = t0, !.armed = armed]]
  <2>1. PICK t0 \in 0..(Budget - 1), armed \in BOOLEAN :
          \/ Live /\ Began(row, t0, armed) /\ UNCHANGED <<row, rows, intent, raced>>
          \/ \E confirmed \in BOOLEAN :
                Began(NewRow(rows + 1, 0, confirmed), t0, armed) /\ UserChangeRaces({})
    BY <1>4 DEF ImportStart
  <2>2. i \in Jobs /\ UNCHANGED form
    BY <1>4 DEF Jobs, ImportStart
  <2>3. CASE Live /\ Began(row, t0, armed) /\ UNCHANGED <<row, rows, intent, raced>>
    <3>1. jobs'[i].mem.pk = row.pk /\ \A k \in Jobs \ {i} : jobs'[k] = jobs[k]
      BY <1>1, <2>2, <2>3 DEF JobType, UserPart
    <3> QED BY <2>2, <2>3, <3>1, MovedJob DEF Live
  <2>4. ASSUME NEW confirmed \in BOOLEAN,
               Began(NewRow(rows + 1, 0, confirmed), t0, armed), UserChangeRaces({})
        PROVE  RowInv'
    <3>1. jobs'[i].mem = UserPart(NewRow(rows + 1, 0, confirmed))
          /\ \A k \in Jobs \ {i} : jobs'[k] = jobs[k]
      BY <1>1, <2>2, <2>4 DEF JobType
    <3>2. jobs'[i].mem.pk = rows + 1 /\ rows + 1 # 0
      BY <1>1, <3>1 DEF UserPart, NewRow, NoRow
    <3>3. \A j \in Jobs : jobs'[j].pc \in Active \cup {"queued"} => jobs'[j].mem.pk # 0
      BY <1>2, <3>1, <3>2
    <3> QED BY <2>2, <2>4, <3>3, ChangedRow
  <2> QED BY <2>1, <2>3, <2>4
<1>5. ASSUME NEW j \in Jobs, Start(j) PROVE RowInv'
  <2>1. UNCHANGED <<row, form, raced>> /\ jobs[j].pc = "queued"
    BY <1>5 DEF Start
  <2>2. CASE row.pk = jobs[j].mem.pk
    <3>1. jobs'[j].mem = UserPart(row) /\ \A k \in Jobs \ {j} : jobs'[k] = jobs[k]
      BY <1>1, <1>5, <2>2 DEF Start, JobType
    <3>2. jobs'[j].mem.pk = row.pk
      BY <3>1 DEF UserPart
    <3>3. jobs'[j].mem.pk # 0
      BY <1>2, <2>1, <2>2, <3>2
    <3> QED BY <2>1, <3>1, <3>3, MovedJob
  <2>3. CASE row.pk # jobs[j].mem.pk
    <3>1. End(j, "errored", FALSE)
      BY <1>5, <2>3 DEF Start
    <3>2. jobs'[j].pc = "errored" /\ \A k \in Jobs \ {j} : jobs'[k] = jobs[k]
      BY <3>1, EndWindow
    <3>3. jobs'[j].pc \notin Active \cup {"queued"}
      BY <3>2, ActiveNames
    <3> QED BY <2>1, <3>2, <3>3, MovedJob
  <2> QED BY <2>2, <2>3
<1>6. ASSUME NEW j \in Jobs, jobs[j].pc \in Active, NEW pc, NEW t2, NEW cut, Step(j, pc, t2, cut),
             UNCHANGED form, VerdictRaces \/ UNCHANGED <<row, raced>>
      PROVE  RowInv'
  <2>1. jobs'[j].mem.pk # 0 /\ \A k \in Jobs \ {j} : jobs'[k] = jobs[k]
    BY <1>2, <1>6, StepWindow
  <2> QED BY <1>1, <1>6, <2>1, MovedJob
<1>7. ASSUME NEW j \in Jobs, NEW pc \in {"done", "errored", "killed"}, NEW marked,
             End(j, pc, marked), UNCHANGED form, VerdictRaces \/ UNCHANGED <<row, raced>>
      PROVE  RowInv'
  <2>1. jobs'[j].pc \notin Active \cup {"queued"} /\ \A k \in Jobs \ {j} : jobs'[k] = jobs[k]
    BY <1>7, EndWindow, ActiveNames
  <2> QED BY <1>1, <1>7, <2>1, MovedJob
<1>8. ASSUME NEW j \in Jobs, Work(j) PROVE RowInv'
  <2>1. jobs[j].pc \in Active /\ UNCHANGED <<row, form, raced>>
        /\ \E pc, t2, cut : Step(j, pc, t2, cut)
    BY <1>8, ActiveNames DEF Work
  <2> QED BY <1>6, <2>1
<1>9. ASSUME NEW j \in Jobs, Commit(j) PROVE RowInv'
  <2>1. jobs[j].pc \in Active /\ UNCHANGED form /\ (VerdictRaces \/ UNCHANGED <<row, raced>>)
        /\ \E pc, t2, cut : Step(j, pc, t2, cut)
    BY <1>9, ActiveNames DEF Commit
  <2> QED BY <1>6, <2>1
<1>10. ASSUME NEW j \in Jobs, Closing(j) PROVE RowInv'
  <2>1. jobs[j].pc \in Active /\ UNCHANGED <<row, form, raced>>
        /\ \/ \E pc, t2, cut : Step(j, pc, t2, cut)
           \/ End(j, "done", FALSE) \/ End(j, "errored", FALSE)
    BY <1>10, ActiveNames DEF Closing
  <2> QED BY <1>6, <1>7, <2>1
<1>11. ASSUME NEW j \in Jobs, Check(j) PROVE RowInv'
  <2>1. jobs[j].pc \in Active /\ UNCHANGED <<row, form, raced>>
        /\ \/ jobs' = [jobs EXCEPT ![j].pc = "marking"]
           \/ End(j, "done", FALSE) \/ End(j, "errored", FALSE)
    BY <1>11, ActiveNames DEF Check
  <2>2. CASE jobs' = [jobs EXCEPT ![j].pc = "marking"]
    <3>1. jobs'[j].mem = jobs[j].mem /\ \A k \in Jobs \ {j} : jobs'[k] = jobs[k]
      BY <1>1, <2>2 DEF JobType
    <3>2. jobs'[j].mem.pk # 0
      BY <1>2, <2>1, <3>1
    <3> QED BY <2>1, <3>1, <3>2, MovedJob
  <2> QED BY <1>7, <2>1, <2>2
<1>12. ASSUME NEW j \in Jobs, MarkFailed(j) PROVE RowInv'
  <2>1. UNCHANGED form /\ (VerdictRaces \/ UNCHANGED <<row, raced>>)
        /\ (End(j, "errored", TRUE) \/ End(j, "errored", FALSE))
    BY <1>12 DEF MarkFailed
  <2> QED BY <1>7, <2>1
<1>13. ASSUME NEW j \in Jobs, Kill(j) PROVE RowInv'
  BY <1>7, <1>13 DEF Kill
<1>14. ASSUME NEW e \in Editors, EditOpen(e) PROVE RowInv'
  <2>1. form' = [form EXCEPT ![e] = row] /\ UNCHANGED <<row, jobs, raced>>
    BY <1>14 DEF EditOpen
  <2>2. form'[e] = row /\ \A f \in Editors \ {e} : form'[f] = form[f]
    BY <1>1, <2>1
  <2> QED BY <2>1, <2>2 DEF RowInv, EditWindow
<1>15. ASSUME NEW e \in Editors, EditSave(e) PROVE RowInv'
  <2>1. form'[e] = NoRow /\ (\A f \in Editors \ {e} : form'[f] = form[f]) /\ UNCHANGED jobs
    BY <1>1, <1>15 DEF EditSave
  <2>2. CASE UserChangeRaces({e})
    BY <1>2, <2>1, <2>2, ChangedRow
  <2>3. CASE UNCHANGED <<row, raced>>
    BY <2>1, <2>3, NoRowClosed DEF RowInv, EditWindow
  <2> QED BY <1>15, <2>2, <2>3 DEF EditSave
<1>16. CASE UserCreate \/ SiteReview \/ Delete
  <2>1. UserChangeRaces({}) /\ UNCHANGED <<jobs, form>>
    BY <1>16 DEF UserCreate, SiteReview, Delete
  <2> QED BY <1>2, <2>1, ChangedRow
<1>17. CASE UNCHANGED vars
  BY <1>17 DEF vars, RowInv, EditWindow
<1> QED
  BY <1>3, <1>4, <1>5, <1>8, <1>9, <1>10, <1>11, <1>12, <1>13, <1>14, <1>15, <1>16, <1>17
  DEF Next, Progress, Jobs

-----------------------------------------------------------------------------
\* A crossing is never taken back, and once there has been one anything typed
\* is a step of ServerRow.
LEMMA CrossedSteps ==
    ASSUME TypeOK, TypeOK',
           (\E who : UserChangeRaces(who)) \/ VerdictRaces \/ UNCHANGED raced
    PROVE  /\ Crossed => Crossed'
           /\ Crossed => Row!Next
<1>1. Crossed => Crossed'
  BY DEF TypeOK, UserChangeRaces, VerdictRaces, Crossed
<1>2. UserPart(row)' \in UserParts /\ row'.status \in Statuses
  BY UserPartType DEF TypeOK, RowType, UserPart
<1> QED BY <1>1, <1>2 DEF Row!Next, Row!Verdicts, Statuses, Crossed

\* What a step may do while nothing has been crossed.
LEMMA OneHalf ==
    ASSUME TypeOK, TypeOK', ~Crossed,
           \/ row'.status = IF row'.pk = row.pk THEN row.status ELSE "new"
           \/ /\ row.pk # 0 /\ UserPart(row)' = UserPart(row)
              /\ row'.status \in {"synced", "failed"}
    PROVE  Row!Next
<1>1. UserPart(row)' \in UserParts
  BY UserPartType DEF TypeOK, RowType, UserPart
<1>2. UserPart(row)'.pk = row'.pk /\ UserPart(row).pk = row.pk /\ UserPart(NoRow).pk = 0
  BY DEF UserPart, NoRow
<1>3. Crossed' \in BOOLEAN
  BY DEF Crossed
<1>4. CASE row'.status = IF row'.pk = row.pk THEN row.status ELSE "new"
  <2>1. Row!Change
    BY <1>1, <1>2, <1>4 DEF Row!Change
  <2> QED BY <1>3, <2>1 DEF Row!Next, Crossed
<1>5. CASE /\ row.pk # 0 /\ UserPart(row)' = UserPart(row)
           /\ row'.status \in {"synced", "failed"}
  <2>1. Row!Verdict
    BY <1>2, <1>5 DEF Row!Verdict, Row!Verdicts
  <2> QED BY <1>3, <2>1 DEF Row!Next, Crossed
<1> QED BY <1>4, <1>5

LEMMA RowSame == UNCHANGED <<row, raced>> => UNCHANGED Row!vars
BY DEF Row!vars, UserPart

LEMMA RowImplements ==
    TypeOK /\ TypeOK' /\ IntentInv /\ RowInv /\ [Next]_vars => [Row!Next]_(Row!vars)
<1> SUFFICES ASSUME TypeOK, TypeOK', IntentInv, RowInv, [Next]_vars
             PROVE  [Row!Next]_(Row!vars)
  OBVIOUS
<1>1. row \in RowType /\ rows \in Nat /\ jobs \in [Jobs -> JobType] /\ form \in [Editors -> RowType]
      /\ intent \in UserParts
  BY DEF TypeOK
<1>2. CASE UNCHANGED <<row, raced>>
  BY <1>2, RowSame
<1>3. ASSUME NEW j \in Jobs, jobs[j].pc = "commit", VerdictRaces,
             row' = [pk |-> jobs[j].mem.pk, conf |-> jobs[j].mem.conf,
                     confirmed |-> jobs[j].mem.confirmed,
                     status |-> "synced", truncated |-> jobs[j].cut, by |-> j]
      PROVE  Row!Next
  <2>1. CASE ~Crossed
    <3>1. jobs[j].mem = UserPart(row) /\ jobs[j].mem.pk # 0
      BY <1>3, <2>1, PCNames, ActiveNames DEF IntentInv, RowInv, SyncWindow, Crossed
    <3>2. UserPart(row)' = UserPart(row) /\ row.pk # 0 /\ row'.status = "synced"
      BY <1>3, <3>1 DEF UserPart
    <3> QED BY <2>1, <3>2, OneHalf
  <2>2. CASE Crossed
    BY <1>3, <2>2, CrossedSteps
  <2> QED BY <2>1, <2>2
<1>4. ASSUME NEW j \in Jobs, jobs[j].pc = "marking", row.pk = jobs[j].mem.pk,
             row' = MarkedRow(j), VerdictRaces
      PROVE  Row!Next
  <2>1. CASE ~Crossed
    <3>1. row.pk # 0
      BY <1>4, ActiveNames DEF RowInv
    <3>2. UserPart(row)' = UserPart(row) /\ row'.status = "failed"
      BY <1>1, <1>4 DEF UserPart, MarkedRow, RowType
    <3> QED BY <2>1, <3>1, <3>2, OneHalf
  <2>2. CASE Crossed
    BY <1>4, <2>2, CrossedSteps
  <2> QED BY <2>1, <2>2
<1>5. ASSUME NEW who, UserChangeRaces(who),
             ~Crossed => row'.status = IF row'.pk = row.pk THEN row.status ELSE "new"
      PROVE  Row!Next
  <2>1. CASE ~Crossed
    BY <1>5, <2>1, OneHalf
  <2>2. CASE Crossed
    BY <1>5, <2>2, CrossedSteps
  <2> QED BY <2>1, <2>2
<1>6. ASSUME NEW pk \in Nat \ {0}, NEW confirmed \in BOOLEAN,
             row' = NewRow(pk, 0, confirmed), ~Live
      PROVE  row'.status = IF row'.pk = row.pk THEN row.status ELSE "new"
  BY <1>6 DEF NewRow, NoRow, Live
<1>7. rows + 1 \in Nat \ {0}
  BY <1>1
<1>8. ASSUME NEW i \in Imports, ImportStart(i) PROVE [Row!Next]_(Row!vars)
  <2>1. \/ UNCHANGED <<row, raced>>
        \/ /\ ~Live /\ UserChangeRaces({})
           /\ \E confirmed \in BOOLEAN : row' = NewRow(rows + 1, 0, confirmed)
    BY <1>8 DEF ImportStart
  <2> QED BY <1>2, <1>5, <1>6, <1>7, <2>1
<1>9. ASSUME NEW j \in Jobs, Commit(j) PROVE [Row!Next]_(Row!vars)
  BY <1>2, <1>3, <1>9 DEF Commit
<1>10. ASSUME NEW j \in Jobs, MarkFailed(j) PROVE [Row!Next]_(Row!vars)
  BY <1>2, <1>4, <1>10 DEF MarkFailed
<1>11. ASSUME NEW e \in Editors, EditSave(e) PROVE [Row!Next]_(Row!vars)
  <2>1. CASE CanSave(form[e].pk)
    <3>1. PICK conf : row' = [form[e] EXCEPT !.conf = conf] /\ UserChangeRaces({e})
      BY <1>11, <2>1 DEF EditSave
    <3>2. row'.pk = form[e].pk /\ row'.status = form[e].status
      BY <1>1, <3>1 DEF RowType
    <3>3. EditWindow(e)
      BY <1>11 DEF EditSave
    <3>4. ~Crossed => UserPart(form[e]) = UserPart(row) /\ form[e].status = row.status
      BY <3>3 DEF IntentInv, RowInv, Crossed
    <3>5. ~Crossed => form[e].pk = row.pk
      BY <3>4 DEF UserPart
    <3> QED BY <1>5, <3>1, <3>2, <3>4, <3>5
  <2>2. CASE ~CanSave(form[e].pk)
    BY <1>2, <1>11, <2>2 DEF EditSave
  <2> QED BY <2>1, <2>2
<1>12. CASE UserCreate
  BY <1>5, <1>6, <1>7, <1>12 DEF UserCreate
<1>13. CASE SiteReview
  <2>1. row'.pk = row.pk /\ row'.status = row.status /\ UserChangeRaces({})
    BY <1>1, <1>13 DEF SiteReview, RowType
  <2> QED BY <1>5, <2>1
<1>14. CASE Delete
  <2>1. row'.pk = 0 /\ row'.status = "new" /\ row.pk # 0 /\ UserChangeRaces({})
    BY <1>14 DEF Delete, NoRow, Live
  <2> QED BY <1>5, <2>1
<1>15. CASE UNCHANGED vars
  BY <1>2, <1>15 DEF vars
<1>16. ASSUME NEW j \in Jobs, Enqueue(j) \/ Start(j) \/ Work(j) \/ Closing(j) \/ Check(j) \/ Kill(j)
       PROVE  [Row!Next]_(Row!vars)
  BY <1>2, <1>16 DEF Enqueue, Start, Work, Closing, Check, Kill
<1>17. ASSUME NEW e \in Editors, EditOpen(e) PROVE [Row!Next]_(Row!vars)
  BY <1>2, <1>17 DEF EditOpen
<1> QED
  BY <1>8, <1>9, <1>10, <1>11, <1>12, <1>13, <1>14, <1>15, <1>16, <1>17
  DEF Next, Progress, Jobs

\* However many jobs and edits read, work and save the whole row without a
\* lock, it behaves as if each had it for itself as long as nobody changes it
\* under another: no verdict undoes an edit or a deletion, no edit undoes a
\* verdict (sync.py 874-884, 954; jobs.py 58; forms.py 171-175).
THEOREM RowKeepsPromise == Spec => RowPromise
<1>1. Init => IntentInv /\ RowInv
  BY PCNames, ActiveNames
  DEF Init, IntentInv, RowInv, SyncWindow, EditWindow, IdleJob, NoRow, Active, Working, Stages
<1>2. TypeOK /\ IntentInv /\ RowInv /\ [Next]_vars => (IntentInv /\ RowInv)'
  BY IntentStep, RowStep
<1>3. TypeOK /\ TypeOK' /\ IntentInv /\ RowInv /\ [Next]_vars => [Row!Next]_(Row!vars)
  BY RowImplements
<1>4. Init => Row!Init
  BY DEF Init, Row!Init, NoRow
<1> QED BY <1>1, <1>2, <1>3, <1>4, TypeCorrect, PTL DEF Spec, RowPromise, Row!Spec
=============================================================================
