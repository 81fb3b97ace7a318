----------------------------- MODULE ServerSync -----------------------------
(***************************************************************************)
(* One DellServer row of NetBox and everything that writes it: the         *)
(* background sync jobs (jobs.py, idrac/sync.py), the imports of the       *)
(* discovery job that reuse sync_server with their own client              *)
(* (idrac/discovery.py), and the web requests of the users: create, edit,  *)
(* site review, delete (forms.py, views.py).                               *)
(*                                                                         *)
(* The row has two halves.  Users own one (the address and credentials,    *)
(* abstracted to a version number conf, and site_confirmed); the sync owns *)
(* the other (sync_status and the inventory).  Both the sync and the edit  *)
(* form read the whole row, work, and save the whole row, with no lock and *)
(* no version check, and RQ interrupts a job once, at any point, by        *)
(* raising JobTimeoutException, which most of the code it can land in      *)
(* swallows.                                                               *)
(***************************************************************************)
EXTENDS Integers, FiniteSets

CONSTANTS
    SyncJobs,       \* DellSyncJobs: from the sync views, the API or the fleet job
    Imports,        \* calls of sync_server by discovery jobs, for this device
    Editors,        \* web requests that edit the row through DellServerForm
    UserOps,        \* which other user requests may happen: "create", "review", "delete"
    Budget,         \* the RQ job timeout (sync_job_timeout)
    Slack,          \* tolerance of the elapsed-time check (jobs.py: budget - 1)
    StartDelays,    \* time between arming the RQ alarm and reading the clock in run()
    Durations,      \* how long one stage may take
    Horizon,        \* a job's clock saturates here
    MaxRows,        \* bound on the rows ever created (primary keys 1..MaxRows)
    DbFaults,       \* TRUE: a save of the FAILED status may fail on its own
    Crashes         \* TRUE: a worker may be killed at any point

Jobs == SyncJobs \cup Imports

ASSUME ConstantsAssumption ==
    /\ SyncJobs \cap Imports = {} /\ IsFiniteSet(Editors)
    /\ Budget \in Nat \ {0} /\ Slack \in 0..Budget
    /\ StartDelays \subseteq 0..(Budget - 1)
    /\ Durations \subseteq Nat
    /\ Horizon \in Nat /\ Horizon >= Budget + Slack
    /\ MaxRows \in Nat
    /\ DbFaults \in BOOLEAN /\ Crashes \in BOOLEAN
    /\ "none" \notin Jobs

VARIABLES
    row,        \* the DellServer row; pk = 0 when the device has none
    jobs,       \* the state of every background job
    form,       \* form[e]: the instance an edit request has read; pk = 0 when idle
    rows,       \* primary keys handed out so far
    edited,     \* the edit requests that have ended
    intent,     \* ghost: the user-owned half as users last left it
    raced       \* ghost: which read-modify-write windows were crossed

vars == <<row, jobs, form, rows, edited, intent, raced>>

-----------------------------------------------------------------------------
(* The row and its two halves.                                             *)

Statuses == {"new", "synced", "failed"}

\* truncated and by are ghosts: whether the inventory behind this status was
\* cut by the alarm, and the job that last saved the whole row.
NoRow == [pk |-> 0, conf |-> 0, confirmed |-> FALSE,
          status |-> "new", truncated |-> FALSE, by |-> "none"]

NewRow(pk, conf, confirmed) ==
    [NoRow EXCEPT !.pk = pk, !.conf = conf, !.confirmed = confirmed]

UserPart(r) == [pk |-> r.pk, conf |-> r.conf, confirmed |-> r.confirmed]

\* Model.save() of an instance with this primary key: an UPDATE when the row
\* is there, an INSERT when it is gone, refused (device is one-to-one) when
\* the device has got another row meanwhile.
CanSave(pk) == row.pk \in {0, pk}

Live == row.pk # 0

-----------------------------------------------------------------------------
(* The jobs.                                                               *)

Stages == {"sysinfo", "inventory", "device", "adapters"}
Working == Stages \cup {"commit"}
Active == Working \cup {"closing", "check", "marking"}
PCs == Active \cup {"idle", "queued", "done", "errored", "killed"}

StageAfter == [sysinfo |-> "inventory", inventory |-> "device",
               device |-> "adapters", adapters |-> "commit"]

\* Stages whose own errors reach sync_server's handler: connecting, and the
\* database work of the transaction.  The getters and _update_device swallow
\* theirs.
Failing == {"sysinfo", "adapters"}

IdleJob == [pc |-> "idle", mem |-> UserPart(NoRow), t |-> 0, start |-> 0,
            armed |-> TRUE, cut |-> FALSE, marked |-> FALSE]

Later(t, d) == IF t + d > Horizon THEN Horizon ELSE t + d

\* The alarm is delivered once, during the step in which the clock reaches
\* the budget.
Fires(j, t2) == jobs[j].armed /\ t2 >= Budget

\* Mutant: the full budget, without the slack.
OverdueNoSlack(j) == jobs[j].t - jobs[j].start >= Budget

\* run() compares the time since it read the clock with the budget.
Overdue(j) == jobs[j].t - jobs[j].start >= Budget - Slack

\* j moves on to pc at time t2; the alarm, if it came, is spent.
Step(j, pc, t2, cut) ==
    jobs' = [jobs EXCEPT ![j] =
                [jobs[j] EXCEPT !.pc = pc, !.t = t2,
                                !.cut = jobs[j].cut \/ cut,
                                !.armed = jobs[j].armed /\ t2 < Budget]]

\* j ends: only its outcome is kept.
End(j, pc, marked) ==
    jobs' = [jobs EXCEPT ![j] =
                [IdleJob EXCEPT !.pc = pc, !.cut = jobs[j].cut, !.marked = marked]]

\* A job that has read the row and not yet saved it, and an edit request
\* likewise.
SyncWindow(j) == jobs[j].pc \in Working
EditWindow(e) == form[e].pk # 0

UserChangeRaces(who) ==
    raced' = [raced EXCEPT !.user =
                \/ @
                \/ \E j \in Jobs : SyncWindow(j)
                \/ \E e \in Editors \ who : EditWindow(e)]

VerdictRaces ==
    raced' = [raced EXCEPT !.verdict = @ \/ \E e \in Editors : EditWindow(e)]

-----------------------------------------------------------------------------
Init ==
    /\ row = NoRow
    /\ jobs = [j \in Jobs |-> IdleJob]
    /\ form = [e \in Editors |-> NoRow]
    /\ rows = 0
    /\ edited = {}
    /\ intent = UserPart(NoRow)
    /\ raced = [user |-> FALSE, verdict |-> FALSE]

\* DellServerSyncView, BulkSync, the API action or DellSyncAllJob queue a job
\* for the row they found.  Nothing prevents several jobs for one server.
Enqueue(j) ==
    /\ jobs[j].pc = "idle" /\ Live
    /\ jobs' = [jobs EXCEPT ![j].pc = "queued", ![j].mem.pk = row.pk]
    /\ UNCHANGED <<row, form, rows, edited, intent, raced>>

\* A worker picks the job up, arms the alarm, and run() reads self.job.object
\* and the clock.  With the row gone, job.object is None: sync_server and
\* _mark_failed both trip over it and the job ends errored.
Start(j) ==
    /\ jobs[j].pc = "queued"
    /\ IF row.pk = jobs[j].mem.pk
       THEN \E d \in StartDelays :
                jobs' = [jobs EXCEPT ![j] = [jobs[j] EXCEPT
                    !.pc = "sysinfo", !.mem = UserPart(row), !.t = d, !.start = d]]
       ELSE End(j, "errored", FALSE)
    /\ UNCHANGED <<row, form, rows, edited, intent, raced>>

\* discover_range reaches this device's target some time after its own alarm
\* was armed (or has already gone off in an earlier target), and
\* get_or_create finds the row or creates it; site_confirmed is FALSE when
\* the device was created too.
ImportStart(i) ==
    /\ jobs[i].pc = "idle"
    /\ \E t0 \in 0..(Budget - 1), armed \in BOOLEAN :
          LET Began(r) == jobs' = [jobs EXCEPT ![i] = [jobs[i] EXCEPT
                              !.pc = "sysinfo", !.mem = UserPart(r),
                              !.t = t0, !.start = t0, !.armed = armed]]
          IN  \/ Live /\ Began(row) /\ UNCHANGED <<row, rows, intent, raced>>
              \/ /\ ~Live /\ rows < MaxRows
                 /\ \E confirmed \in BOOLEAN :
                       LET new == NewRow(rows + 1, 0, confirmed)
                       IN  /\ row' = new /\ intent' = UserPart(new)
                           /\ Began(new)
                 /\ rows' = rows + 1
                 /\ UserChangeRaces({})
    /\ UNCHANGED <<form, edited>>

\* One stage of sync_server before the whole-row save.  An alarm inside it is
\* swallowed by a getter or a best-effort try (the data is cut short and the
\* sync goes on), or reaches the handler.
Work(j) ==
    /\ jobs[j].pc \in Stages
    /\ \E d \in Durations :
          LET t2 == Later(jobs[j].t, d)
              next == StageAfter[jobs[j].pc]
          IN  \/ ~Fires(j, t2) /\ Step(j, next, t2, FALSE)
              \/ Fires(j, t2) /\ Step(j, next, t2, TRUE)
              \/ /\ Fires(j, t2) \/ jobs[j].pc \in Failing
                 /\ Step(j, "marking", t2, FALSE)
    /\ UNCHANGED <<row, form, rows, edited, intent, raced>>

\* server.save() and the COMMIT: the row as loaded, with the verdict.
Commit(j) ==
    /\ jobs[j].pc = "commit"
    /\ \E d \in Durations :
          LET t2 == Later(jobs[j].t, d)
          IN  \/ /\ CanSave(jobs[j].mem.pk)
                 /\ row' = [pk |-> jobs[j].mem.pk, conf |-> jobs[j].mem.conf,
                            confirmed |-> jobs[j].mem.confirmed,
                            status |-> "synced",
                            truncated |-> jobs[j].cut, by |-> j]
                 /\ VerdictRaces
                 /\ \/ ~Fires(j, t2) /\ Step(j, "closing", t2, FALSE)
                    \/ Fires(j, t2) /\ Step(j, "marking", t2, FALSE)
              \/ Step(j, "marking", t2, FALSE) /\ UNCHANGED <<row, raced>>
    /\ UNCHANGED <<form, rows, edited, intent>>

\* What follows the transaction: the summary, still under the handler, and
\* client.close(), which suppresses everything; an alarm may also escape the
\* finally block.
Closing(j) ==
    /\ jobs[j].pc = "closing"
    /\ \E d \in Durations :
          LET t2 == Later(jobs[j].t, d)
          IN  \/ IF j \in SyncJobs THEN Step(j, "check", t2, FALSE)
                                   ELSE End(j, "done", FALSE)
              \/ Fires(j, t2) /\ (Step(j, "marking", t2, FALSE) \/ End(j, "errored", FALSE))
    /\ UNCHANGED <<row, form, rows, edited, intent, raced>>

\* Mutant: an overrun is only logged.
CheckOnlyLogs(j) ==
    /\ jobs[j].pc = "check"
    /\ End(j, "done", FALSE)
    /\ UNCHANGED <<row, form, rows, edited, intent, raced>>

\* DellSyncJob.run after sync_server returned: overdue jobs are marked failed,
\* the others store their summary (an alarm there is swallowed, or escapes
\* just outside the try).
Check(j) ==
    /\ jobs[j].pc = "check"
    /\ IF Overdue(j)
       THEN jobs' = [jobs EXCEPT ![j].pc = "marking"]
       ELSE \E d \in Durations :
               \/ End(j, "done", FALSE)
               \/ Fires(j, Later(jobs[j].t, d)) /\ End(j, "errored", FALSE)
    /\ UNCHANGED <<row, form, rows, edited, intent, raced>>

\* Mutants: the whole row is saved; an unknown status is; nothing is.
MarkedRowFullSave(j) ==
    [row EXCEPT !.status = "failed", !.conf = jobs[j].mem.conf,
                !.confirmed = jobs[j].mem.confirmed]
MarkedRowBadChoice(j) == [row EXCEPT !.status = "errored"]
MarkedRowForgotten(j) == row

\* The row as _mark_failed leaves it: update_fields names only the verdict.
MarkedRow(j) == [row EXCEPT !.status = "failed"]

\* _mark_failed: a partial save, whose own failure is logged and swallowed;
\* then the error propagates and the job ends errored.
MarkFailed(j) ==
    /\ jobs[j].pc = "marking"
    /\ \/ /\ row.pk = jobs[j].mem.pk
          /\ row' = MarkedRow(j)
          /\ VerdictRaces
          /\ End(j, "errored", TRUE)
       \/ /\ \/ row.pk # jobs[j].mem.pk
             \/ DbFaults
             \/ \E d \in Durations : Fires(j, Later(jobs[j].t, d))
          /\ End(j, "errored", FALSE)
          /\ UNCHANGED <<row, raced>>
    /\ UNCHANGED <<form, rows, edited, intent>>

\* The work horse is killed: a deployment, an OOM kill, or RQ's own SIGKILL
\* of a horse that outlived its timeout.
Kill(j) ==
    /\ Crashes /\ jobs[j].pc \in Active
    /\ End(j, "killed", FALSE)
    /\ UNCHANGED <<row, form, rows, edited, intent, raced>>

-----------------------------------------------------------------------------
(* The users' requests.                                                    *)

\* DellServerForm or the API create the row of a device that has none.
UserCreate ==
    /\ "create" \in UserOps /\ ~Live /\ rows < MaxRows
    /\ row' = NewRow(rows + 1, 0, TRUE)
    /\ rows' = rows + 1
    /\ intent' = UserPart(row')
    /\ UserChangeRaces({})
    /\ UNCHANGED <<jobs, form, edited>>

\* The edit view or the API reads the row ...
EditOpen(e) ==
    /\ e \notin edited /\ ~EditWindow(e) /\ Live
    /\ form' = [form EXCEPT ![e] = row]
    /\ UNCHANGED <<row, jobs, rows, edited, intent, raced>>

\* ... and saves all of it, with new values in the user's fields; a blank
\* password keeps the stored one, so an edit may also change nothing.
EditSave(e) ==
    /\ EditWindow(e)
    /\ IF CanSave(form[e].pk)
       THEN \E conf \in {form[e].conf, Cardinality(edited) + 1} :
               /\ row' = [form[e] EXCEPT !.conf = conf]
               /\ intent' = [intent EXCEPT !.pk = form[e].pk, !.conf = conf]
               /\ UserChangeRaces({e})
       ELSE UNCHANGED <<row, intent, raced>>
    /\ form' = [form EXCEPT ![e] = NoRow]
    /\ edited' = edited \cup {e}
    /\ UNCHANGED <<jobs, rows>>

\* DellServerSiteReviewView.post: only a pending row, only that column.
SiteReview ==
    /\ "review" \in UserOps /\ Live /\ ~row.confirmed
    /\ row' = [row EXCEPT !.confirmed = TRUE]
    /\ intent' = [intent EXCEPT !.confirmed = TRUE]
    /\ UserChangeRaces({})
    /\ UNCHANGED <<jobs, form, rows, edited>>

\* The delete views and the API.
Delete ==
    /\ "delete" \in UserOps /\ Live
    /\ row' = NoRow
    /\ intent' = UserPart(NoRow)
    /\ UserChangeRaces({})
    /\ UNCHANGED <<jobs, form, rows, edited>>

-----------------------------------------------------------------------------
Progress(j) == Start(j) \/ Work(j) \/ Commit(j) \/ Closing(j) \/ Check(j) \/ MarkFailed(j)

Next ==
    \/ \E j \in SyncJobs : Enqueue(j)
    \/ \E i \in Imports : ImportStart(i)
    \/ \E j \in Jobs : Progress(j) \/ Kill(j)
    \/ \E e \in Editors : EditOpen(e) \/ EditSave(e)
    \/ UserCreate \/ SiteReview \/ Delete

Spec == Init /\ [][Next]_vars

\* Workers keep running the jobs they hold and pick up the queued ones.
FairSpec == Spec /\ \A j \in Jobs : WF_vars(Progress(j))

-----------------------------------------------------------------------------
UserParts == [pk : Nat, conf : Nat, confirmed : BOOLEAN]

RowType == [pk : Nat, conf : Nat, confirmed : BOOLEAN,
            status : Statuses, truncated : BOOLEAN, by : Jobs \cup {"none"}]

JobType == [pc : PCs, mem : UserParts, t : Nat, start : Nat,
            armed : BOOLEAN, cut : BOOLEAN, marked : BOOLEAN]

\* Every variable has its type, and the keys in use have been handed out.
TypeOK ==
    /\ row \in RowType
    /\ jobs \in [Jobs -> JobType]
    /\ form \in [Editors -> RowType]
    /\ rows \in Nat
    /\ edited \subseteq Editors
    /\ intent \in UserParts
    /\ raced \in [user : BOOLEAN, verdict : BOOLEAN]

\* What users entered, confirmed or deleted stays so, unless the change fell
\* between the read and the whole-row save of a sync or of another edit
\* (sync.py 954, jobs.py 58): not while a job is queued, closes its client,
\* checks its clock or marks itself failed.
IntentKept == ~raced.user => UserPart(row) = intent

\* The elapsed-time check is only as good as the gap between arming the alarm
\* and reading the clock.
PromptStart == \A d \in StartDelays : d <= Slack

\* A job that may still turn its verdict into FAILED, or was kept from it.
VerdictOpen(j) ==
    \/ jobs[j].pc \in {"closing", "check", "marking", "killed"}
    \/ jobs[j].pc = "errored" /\ ~jobs[j].marked

VerdictHonest(r) ==
    r.status = "synced" /\ r.truncated => r.by \in Imports \/ VerdictOpen(r.by)

\* An inventory cut short by the job timeout is not left "synced" by a sync
\* job that ran to its end, however the two full-row writers and the jobs
\* interleave, unless an edit request was open across a verdict (jobs.py
\* 65-78).
TruncatedNeverSynced == PromptStart /\ ~raced.verdict => VerdictHonest(row)

\* A sync job NetBox shows as completed collected everything: the alarm was
\* not swallowed anywhere on its way (jobs.py 65-78).
DoneMeansComplete ==
    PromptStart => \A j \in SyncJobs : jobs[j].pc = "done" => ~jobs[j].cut

\* A truncated "synced" is always corrected by the job that caused it, unless
\* that job was killed or kept from saving.
OverrunCorrected ==
    \A j \in SyncJobs :
        (row.by = j /\ row.truncated /\ row.status = "synced" /\ PromptStart)
            ~> \/ row.by # j \/ row.status = "failed" \/ raced.verdict
               \/ jobs[j].pc = "killed"
               \/ jobs[j].pc = "errored" /\ ~jobs[j].marked

\* Saving the whole row with no lock and no version check does no harm while no
\* window is crossed: the row implements ServerRow (sync.py 954, jobs.py 58).
Row == INSTANCE ServerRow WITH
          UserParts <- UserParts, Absent <- UserPart(NoRow),
          user <- UserPart(row), status <- row.status,
          crossed <- raced.user \/ raced.verdict
RowPromise == Row!Spec

-----------------------------------------------------------------------------
(* The inductive strengthenings of the safety properties.                  *)

\* Nobody inside a read-modify-write window holds anything but the intent.
IntentInv ==
    ~raced.user =>
        /\ UserPart(row) = intent
        /\ \A j \in Jobs : SyncWindow(j) => jobs[j].mem = intent
        /\ \A e \in Editors : EditWindow(e) => UserPart(form[e]) = intent

\* A spent alarm means the budget is spent, and a cut means a spent alarm.
Clock(j) ==
    /\ jobs[j].pc \in Active =>
          /\ jobs[j].cut => ~jobs[j].armed
          /\ ~jobs[j].armed => jobs[j].t >= Budget
          /\ PromptStart => jobs[j].start <= Slack
    /\ jobs[j].pc \in {"idle", "queued"} => jobs[j].armed /\ ~jobs[j].cut
    /\ jobs[j].pc = "done" /\ PromptStart => ~jobs[j].cut

Traced(r) == r.truncated => r.by \in Jobs /\ jobs[r.by].cut

VerdictInv ==
    /\ \A j \in SyncJobs : Clock(j)
    /\ Traced(row)
    /\ \A e \in Editors : Traced(form[e]) /\ (EditWindow(e) \/ form[e] = NoRow)
    /\ PromptStart /\ ~raced.verdict =>
          VerdictHonest(row) /\ \A e \in Editors : VerdictHonest(form[e])

\* Once read, a row is somebody's; and while no window is crossed an open form
\* holds the verdict the row has.
RowInv ==
    /\ \A j \in Jobs : jobs[j].pc \in Active \cup {"queued"} => jobs[j].mem.pk # 0
    /\ ~raced.user /\ ~raced.verdict =>
          \A e \in Editors : EditWindow(e) => form[e].status = row.status

-----------------------------------------------------------------------------
(* What the repository's own texts claim, stated as they claim it.         *)

\* A confirmed site stays confirmed until discovery creates a new row
\* (models.py 65-72).
ConfirmationKept == intent.confirmed => row.confirmed

\* CHANGELOG 0.3.6: a sync that overran its timeout is not reported synced
\* once the job that ran it has ended.
OverrunNotSynced ==
    row.status = "synced" /\ row.truncated =>
        jobs[row.by].pc \notin {"done", "errored"}
=============================================================================
