------------------------------- MODULE Ledger -------------------------------
(***************************************************************************)
(* The shared SQLite ledger of engineering-mcp as a set of transactions.   *)
(*                                                                         *)
(* Every handler of lifecycle.ts ends in one BEGIN IMMEDIATE ... COMMIT    *)
(* (Store.transact), so a transaction is one atomic step; a handler's      *)
(* reads before it are parameters here (a revision, a git snapshot), and   *)
(* Next lets each take any value, so a stale read is one of the choices.   *)
(* The modules Checkpoint, Dispatch and C2C run the processes that issue   *)
(* these transactions and instantiate this module for them.                *)
(*                                                                         *)
(* A trigger of store.ts that repeats a guard of every handler it fences   *)
(* appears once, as that guard.  A trigger or index that is the only thing *)
(* in the way of a write is a conjunct of the write.                       *)
(***************************************************************************)
EXTENDS Integers, FiniteSets

CONSTANTS
  Tasks,          \* task ids, fresh UUIDs in the code
  TypeOf,         \* the type a task is created with; no update changes it
  Runs,           \* dispatch_runs ids; a run also names its runner process
  Workers,        \* JUNIOR and PRINCIPAL server processes
  RoleOf,         \* the role a worker process was started with
  Commits,        \* commits made by anyone but the checkpoint protocol
  MaxRevision,    \* bound on the revision counter of each task
  None            \* SQL NULL

Types == {"IMPLEMENTATION", "DIAGNOSIS"}
WorkerRoles == {"JUNIOR", "PRINCIPAL"}

\* A runner process draws a random execution instance id and is started for
\* one run, so the run stands for that id; a server process has its own.
Instances == Workers \cup Runs

\* UNIQUE (task_id, producer_revision) identifies a checkpoint; its commit is
\* a function of the durable intent, so the same pair stands for the commit.
CheckpointIds == UNION {{t} \X (1..MaxRevision[t]) : t \in Tasks}

AllCommits == Commits \cup CheckpointIds

\* inspectRepo: the head, and whether the worktree is clean on the branch the
\* task names (requireCleanBaseline and the branch comparison together).
Snapshots == [head : AllCommits, clean : BOOLEAN]

ASSUME LedgerAssumption ==
  /\ IsFiniteSet(Tasks)
  /\ TypeOf \in [Tasks -> Types]
  /\ RoleOf \in [Workers -> WorkerRoles]
  /\ MaxRevision \in [Tasks -> Nat]
  /\ Workers \cap Runs = {}
  /\ None \notin Instances
  /\ None \notin AllCommits
  /\ Commits \cap CheckpointIds = {}

VARIABLES
  tasks,          \* table tasks, with the claim recorded in task_events
  runs,           \* table dispatch_runs, with its C2C delegation receipt
  checkpoints     \* table task_checkpoints

ledger == <<tasks, runs, checkpoints>>

-----------------------------------------------------------------------------

TaskStatuses == {"READY", "RUNNING", "BLOCKED", "FAILED", "CANCELLED",
                 "COMPLETED", "CLOSED"}
RunStatuses == {"launching", "running", "completed", "blocked", "failed"}
CheckpointStates == {"PREPARED", "GIT_APPLIED", "FINALIZING", "FINALIZED"}
Purposes == {"RESUME", "REVIEW"}

RESUMABLE == {"BLOCKED", "FAILED", "COMPLETED"}
CANCELLABLE == {"READY", "RUNNING", "BLOCKED", "FAILED", "COMPLETED"}
\* Faulty: a blocked task may be closed.
CLOSABLEWithBlocked == {"COMPLETED", "FAILED", "CANCELLED", "BLOCKED"}
CLOSABLE == {"COMPLETED", "FAILED", "CANCELLED"}

\* rowid is the insertion order; claimedBy the execution instance in the last
\* `claimed' event; resultBy the instance whose report stored the result.
TaskRow ==
  [status : TaskStatuses \cup {"ABSENT"}, rowid : Nat, rev : Nat,
   inst : Instances \cup {None}, base : AllCommits \cup {None},
   source : CheckpointIds \cup {None},
   claimedBy : Instances \cup {None}, resultBy : Instances \cup {None}]

\* accepted is the revision of the accepted plan a C2C delegation receipt
\* binds the run to, and 0 for a run of delegate_task.
RunRow == [status : RunStatuses \cup {"absent"},
           task : Tasks \cup {None}, accepted : Nat]

CheckpointRow == [state : CheckpointStates \cup {"ABSENT"},
                  purpose : Purposes \cup {None},
                  prior : AllCommits \cup {None}]

NoTask == [status |-> "ABSENT", rowid |-> 0, rev |-> 0, inst |-> None,
           base |-> None, source |-> None, claimedBy |-> None,
           resultBy |-> None]
NoRun == [status |-> "absent", task |-> None, accepted |-> 0]
NoCheckpoint == [state |-> "ABSENT", purpose |-> None, prior |-> None]

Init ==
  /\ tasks = [t \in Tasks |-> NoTask]
  /\ runs = [r \in Runs |-> NoRun]
  /\ checkpoints = [c \in CheckpointIds |-> NoCheckpoint]

-----------------------------------------------------------------------------
(* Queries of Store *)

Inserted == {t \in Tasks : tasks[t].status # "ABSENT"}

Running(t) == tasks[t].status = "RUNNING"

NoTaskRunning == \A t \in Tasks : ~Running(t)

Active(r) == runs[r].status \in {"launching", "running"}

ActiveFor(r, t) == Active(r) /\ runs[r].task = t

NoActiveRun == \A r \in Runs : ~Active(r)

NoActiveRunFor(t) == \A r \in Runs : ~ActiveFor(r, t)

IsC2C(r) == runs[r].accepted # 0

Unfinished(c) ==
  checkpoints[c].state \in {"PREPARED", "GIT_APPLIED", "FINALIZING"}

Finalized(c) == checkpoints[c].state = "FINALIZED"

\* requireNoRepositoryCheckpoint, and the four checkpoint_fence triggers.
NoRepositoryCheckpoint == \A c \in CheckpointIds : ~Unfinished(c)

\* getActiveC2CDelegationIntentForTask
Reserved(t) == \E r \in Runs : ActiveFor(r, t) /\ IsC2C(r)

\* requireCheckpointRecoveryExclusive
RecoveryExclusive(c) ==
  /\ Unfinished(c)
  /\ \A d \in CheckpointIds : Unfinished(d) => d = c
  /\ NoTaskRunning
  /\ NoActiveRun

\* The checkpoint requireCheckpointBaselineIntegrity finds for a task: the
\* finalized one whose commit is the task's base.
OwnCheckpoint(t) ==
  {c \in CheckpointIds : c[1] = t /\ Finalized(c) /\ tasks[t].base = c}

ClaimBaseline(git, base) == git.clean /\ git.head = base

RoleOfInstance(i) == IF i \in Runs THEN "JUNIOR" ELSE RoleOf[i]

\* canClaimTaskType and typeForWorker
CanClaim(i, t) ==
  \/ RoleOfInstance(i) = "JUNIOR" /\ TypeOf[t] = "IMPLEMENTATION"
  \/ RoleOfInstance(i) = "PRINCIPAL" /\ TypeOf[t] = "DIAGNOSIS"

-----------------------------------------------------------------------------
(* Row writes *)

\* updateTask, always one revision on.
UpdateTask(t, row) ==
  /\ tasks[t].rev < MaxRevision[t]
  /\ tasks' = [tasks EXCEPT ![t] = [row EXCEPT !.rev = tasks[t].rev + 1]]

\* updateDispatchRun by the run's own runner, in the transaction of its claim
\* or report; index one_active_dispatch_per_task guards a write that activates.
\* A server process has no run to write.
UpdateRunOf(i, t, status) ==
  IF i \in Runs
  THEN /\ status \in {"launching", "running"}
             => \A r \in Runs : ActiveFor(r, t) => r = i
       /\ runs' = [runs EXCEPT ![i].status = status]
  ELSE UNCHANGED runs

\* Faulty: a status the CHECK of dispatch_runs does not list.
FailActiveRunsOfAsCancelled(t) ==
  runs' = [r \in Runs |->
             IF ActiveFor(r, t) THEN [runs[r] EXCEPT !.status = "cancelled"]
                                ELSE runs[r]]

\* failActiveDispatchForTask
FailActiveRunsOf(t) ==
  runs' = [r \in Runs |->
             IF ActiveFor(r, t) THEN [runs[r] EXCEPT !.status = "failed"]
                                ELSE runs[r]]

\* A row of insertTask: READY at revision 1.
FreshTask(base, source) ==
  [status |-> "READY", rowid |-> Cardinality(Inserted) + 1, rev |-> 1,
   inst |-> None, base |-> base, source |-> source,
   claimedBy |-> None, resultBy |-> None]

Claimed(t, i) ==
  [tasks[t] EXCEPT !.status = "RUNNING", !.inst = i, !.claimedBy = i]

-----------------------------------------------------------------------------
(* Task lifecycle, lifecycle.ts *)

CreateTask(t, git) ==
  /\ tasks[t].status = "ABSENT"
  /\ NoRepositoryCheckpoint
  /\ git.clean
  /\ MaxRevision[t] >= 1
  /\ tasks' = [tasks EXCEPT ![t] = FreshTask(git.head, None)]
  /\ UNCHANGED <<runs, checkpoints>>

\* A REVIEW checkpoint is handed over: the diagnosis starts at its commit.
CreateDiagnosisFromCheckpoint(t, c, git) ==
  /\ tasks[t].status = "ABSENT"
  /\ TypeOf[t] = "DIAGNOSIS"
  /\ NoRepositoryCheckpoint
  /\ Finalized(c)
  /\ checkpoints[c].purpose = "REVIEW"
  /\ TypeOf[c[1]] = "IMPLEMENTATION"
  /\ tasks[c[1]].status = "COMPLETED"
  /\ tasks[c[1]].rev = c[2] + 1
  /\ tasks[c[1]].base = c
  /\ ClaimBaseline(git, c)
  /\ tasks' = [tasks EXCEPT ![t] = FreshTask(c, c)]
  /\ UNCHANGED <<runs, checkpoints>>

\* claim_task by a server process, or by the runner of a delegated run, which
\* writes its dispatch row to `running' in the same transaction.
ClaimTask(t, i, rev, git) ==
  /\ NoRepositoryCheckpoint
  /\ ~Reserved(t)
  /\ tasks[t].rev = rev
  /\ tasks[t].status = "READY"
  /\ CanClaim(i, t)
  /\ i \in Runs => runs[i].task = t /\ ~IsC2C(i)
  /\ ClaimBaseline(git, tasks[t].base)
  /\ NoTaskRunning
  /\ UpdateTask(t, Claimed(t, i))
  /\ UpdateRunOf(i, t, "running")
  /\ UNCHANGED checkpoints

\* Faulty: selects with getNextReady, which does not see reservations.
ClaimNextTaskReserved(t, i, git) ==
  /\ i \in Workers
  /\ NoRepositoryCheckpoint
  /\ NoTaskRunning
  /\ tasks[t].status = "READY"
  /\ CanClaim(i, t)
  /\ ClaimBaseline(git, tasks[t].base)
  /\ UpdateTask(t, Claimed(t, i))
  /\ UNCHANGED <<runs, checkpoints>>

\* Faulty: does not look for a RUNNING task.
ClaimNextTaskAlways(t, i, git) ==
  /\ i \in Workers
  /\ NoRepositoryCheckpoint
  /\ tasks[t].status = "READY"
  /\ CanClaim(i, t)
  /\ ~Reserved(t)
  /\ ClaimBaseline(git, tasks[t].base)
  /\ UpdateTask(t, Claimed(t, i))
  /\ UNCHANGED <<runs, checkpoints>>

\* claim_next_task: the oldest READY unreserved task of the worker's type, and
\* only that one (an unsuitable baseline is an error, not a reason to skip).
ClaimNextTask(t, i, git) ==
  LET candidates == {u \in Tasks : /\ tasks[u].status = "READY"
                                   /\ CanClaim(i, u)
                                   /\ ~Reserved(u)}
  IN  /\ i \in Workers
      /\ NoRepositoryCheckpoint
      /\ NoTaskRunning
      /\ t \in candidates
      /\ \A u \in candidates : tasks[t].rowid <= tasks[u].rowid
      /\ ClaimBaseline(git, tasks[t].base)
      /\ UpdateTask(t, Claimed(t, i))
      /\ UNCHANGED <<runs, checkpoints>>

\* Faulty: the execution owner is not compared.
ReportResultByAnyone(t, i, rev, outcome) ==
  /\ NoRepositoryCheckpoint
  /\ tasks[t].rev = rev
  /\ Running(t)
  /\ UpdateTask(t, [tasks[t] EXCEPT !.status = outcome, !.inst = None,
                                    !.resultBy = i])
  /\ UpdateRunOf(i, t, "completed")
  /\ UNCHANGED checkpoints

\* report_result; outcome completed or failed.  A runner passes its dispatch
\* row with the matching terminal status.
ReportResult(t, i, rev, outcome) ==
  /\ NoRepositoryCheckpoint
  /\ tasks[t].rev = rev
  /\ tasks[t].inst = i
  /\ Running(t)
  /\ UpdateTask(t, [tasks[t] EXCEPT !.status = outcome, !.inst = None,
                                    !.resultBy = i])
  /\ UpdateRunOf(i, t, "completed")
  /\ UNCHANGED checkpoints

ReportBlocked(t, i, rev) ==
  /\ NoRepositoryCheckpoint
  /\ tasks[t].rev = rev
  /\ tasks[t].inst = i
  /\ Running(t)
  /\ UpdateTask(t, [tasks[t] EXCEPT !.status = "BLOCKED", !.inst = None])
  /\ UpdateRunOf(i, t, "blocked")
  /\ UNCHANGED checkpoints

RecoverTask(t, rev) ==
  /\ NoRepositoryCheckpoint
  /\ tasks[t].rev = rev
  /\ Running(t)
  /\ UpdateTask(t, [tasks[t] EXCEPT !.status = "BLOCKED", !.inst = None])
  /\ FailActiveRunsOf(t)
  /\ UNCHANGED checkpoints

\* Faulty: the status is not compared with RESUMABLE.
ResumeAnyTask(t, rev, git) ==
  /\ NoRepositoryCheckpoint
  /\ tasks[t].rev = rev
  /\ tasks[t].status \in RESUMABLE \cup {"READY"}
  /\ git.clean
  /\ UpdateTask(t, [tasks[t] EXCEPT !.status = "READY", !.inst = None,
                                    !.base = git.head, !.resultBy = None])
  /\ UNCHANGED <<runs, checkpoints>>

\* Resuming onto a checkpoint needs a RESUME checkpoint at HEAD; without one
\* the task is rebased onto whatever HEAD the snapshot saw.
ResumeTask(t, rev, git) ==
  /\ NoRepositoryCheckpoint
  /\ tasks[t].rev = rev
  /\ tasks[t].status \in RESUMABLE
  /\ git.clean
  /\ \A c \in OwnCheckpoint(t) :
       checkpoints[c].purpose = "RESUME" /\ git.head = c
  /\ UpdateTask(t, [tasks[t] EXCEPT !.status = "READY", !.inst = None,
                                    !.base = git.head, !.resultBy = None])
  /\ UNCHANGED <<runs, checkpoints>>

\* Faulty: cancellation ignores the repository checkpoint.
CancelTaskUnfenced(t, rev) ==
  /\ tasks[t].rev = rev
  /\ tasks[t].status \in CANCELLABLE
  /\ UpdateTask(t, [tasks[t] EXCEPT !.status = "CANCELLED", !.inst = None])
  /\ FailActiveRunsOf(t)
  /\ UNCHANGED checkpoints

CancelTask(t, rev) ==
  /\ NoRepositoryCheckpoint
  /\ tasks[t].rev = rev
  /\ tasks[t].status \in CANCELLABLE
  /\ UpdateTask(t, [tasks[t] EXCEPT !.status = "CANCELLED", !.inst = None])
  /\ FailActiveRunsOf(t)
  /\ UNCHANGED checkpoints

CloseTask(t, rev) ==
  /\ NoRepositoryCheckpoint
  /\ tasks[t].rev = rev
  /\ tasks[t].status \in CLOSABLE
  /\ UpdateTask(t, [tasks[t] EXCEPT !.status = "CLOSED", !.inst = None])
  /\ UNCHANGED <<runs, checkpoints>>

-----------------------------------------------------------------------------
(* The transactions of checkpointTask, in the order it issues them *)

PurposeFits(purpose, status) ==
  \/ purpose = "RESUME" /\ status \in {"BLOCKED", "FAILED"}
  \/ purpose = "REVIEW" /\ status = "COMPLETED"

PrepareCheckpoint(t, rev, purpose) ==
  /\ NoRepositoryCheckpoint
  /\ tasks[t].rev = rev
  /\ TypeOf[t] = "IMPLEMENTATION"
  /\ PurposeFits(purpose, tasks[t].status)
  /\ NoTaskRunning
  /\ NoActiveRun
  /\ <<t, rev>> \in CheckpointIds
  /\ checkpoints[<<t, rev>>].state = "ABSENT"
  /\ checkpoints' = [checkpoints EXCEPT ![<<t, rev>>] =
                       [state |-> "PREPARED", purpose |-> purpose,
                        prior |-> tasks[t].base]]
  /\ UNCHANGED <<tasks, runs>>

\* Faulty: no CHECK ties the state to the presence of a commit.
RecordGitAppliedLate(c) ==
  /\ checkpoints[c].state # "ABSENT"
  /\ checkpoints' = [checkpoints EXCEPT ![c].state = "GIT_APPLIED"]
  /\ UNCHANGED <<tasks, runs>>

\* The exclusivity test runs before this transaction, not in it; what refuses
\* a late writer is the CHECK that a row with a commit is not GIT_APPLIED.
RecordGitApplied(c) ==
  /\ checkpoints[c].state \in {"PREPARED", "GIT_APPLIED"}
  /\ checkpoints' = [checkpoints EXCEPT ![c].state = "GIT_APPLIED"]
  /\ UNCHANGED <<tasks, runs>>

\* One transaction moves the row to FINALIZING and the task to its new base;
\* trigger checkpoint_fence_update passes the task only at the producer revision.
FinalizeTask(c) ==
  /\ RecoveryExclusive(c)
  /\ checkpoints[c].state = "GIT_APPLIED"
  /\ tasks[c[1]].rev = c[2]
  /\ checkpoints' = [checkpoints EXCEPT ![c].state = "FINALIZING"]
  /\ UpdateTask(c[1], [tasks[c[1]] EXCEPT !.base = c])
  /\ UNCHANGED runs

MarkFinalized(c) ==
  /\ RecoveryExclusive(c)
  /\ checkpoints[c].state = "FINALIZING"
  /\ checkpoints' = [checkpoints EXCEPT ![c].state = "FINALIZED"]
  /\ UNCHANGED <<tasks, runs>>

\* The process that marked c FINALIZED no longer finds the worktree as it left
\* it and takes the mark back.  Nothing is tested: only index
\* one_unfinished_checkpoint stands in the way.
ReopenCheckpoint(c) ==
  /\ checkpoints[c].state \in {"FINALIZING", "FINALIZED"}
  /\ \A d \in CheckpointIds : Unfinished(d) => d = c
  /\ checkpoints' = [checkpoints EXCEPT ![c].state = "FINALIZING"]
  /\ UNCHANGED <<tasks, runs>>

-----------------------------------------------------------------------------
(* dispatch_runs rows *)

\* Faulty: the checkpoint fence is tested before the transaction only.
InsertRunUnfenced(r, t) ==
  /\ runs[r].status = "absent"
  /\ t \in Inserted
  /\ NoActiveRunFor(t)
  /\ runs' = [runs EXCEPT ![r] = [status |-> "launching", task |-> t,
                                  accepted |-> 0]]
  /\ UNCHANGED <<tasks, checkpoints>>

\* delegateTask tests the task before this transaction, so nothing about the
\* task is certain in it but that it exists.
InsertRun(r, t) ==
  /\ runs[r].status = "absent"
  /\ t \in Inserted
  /\ NoRepositoryCheckpoint
  /\ NoActiveRunFor(t)
  /\ runs' = [runs EXCEPT ![r] = [status |-> "launching", task |-> t,
                                  accepted |-> 0]]
  /\ UNCHANGED <<tasks, checkpoints>>

\* createAcceptedDispatchIntent tests the task in the transaction.
InsertC2CRun(r, t, accepted) ==
  /\ runs[r].status = "absent"
  /\ TypeOf[t] = "IMPLEMENTATION"
  /\ tasks[t].status = "READY"
  /\ tasks[t].rev = accepted
  /\ NoRepositoryCheckpoint
  /\ NoActiveRunFor(t)
  /\ runs' = [runs EXCEPT ![r] = [status |-> "launching", task |-> t,
                                  accepted |-> accepted]]
  /\ UNCHANGED <<tasks, checkpoints>>

\* updateDispatchRun outside a lifecycle transaction, by the dispatcher or by
\* the runner's error path: it writes back a row read earlier, so any status
\* may come with it.
OverwriteRun(r, status) ==
  /\ runs[r].status # "absent"
  /\ ~IsC2C(r)
  /\ NoRepositoryCheckpoint
  /\ status \in {"launching", "running"}
       => \A s \in Runs : ActiveFor(s, runs[r].task) => s = r
  /\ runs' = [runs EXCEPT ![r].status = status]
  /\ UNCHANGED <<tasks, checkpoints>>

ClaimC2CDispatchTask(r, git) ==
  LET t == runs[r].task IN
  /\ runs[r].status = "launching"
  /\ IsC2C(r)
  /\ NoRepositoryCheckpoint
  /\ tasks[t].rev = runs[r].accepted
  /\ TypeOf[t] = "IMPLEMENTATION"
  /\ tasks[t].status = "READY"
  /\ ClaimBaseline(git, tasks[t].base)
  /\ NoTaskRunning
  /\ UpdateTask(t, Claimed(t, r))
  /\ UpdateRunOf(r, t, "running")
  /\ UNCHANGED checkpoints

FailC2CDispatchBeforeClaim(r) ==
  LET t == runs[r].task IN
  /\ runs[r].status = "launching"
  /\ IsC2C(r)
  /\ NoRepositoryCheckpoint
  /\ tasks[t].rev = runs[r].accepted
  /\ tasks[t].status = "READY"
  /\ runs' = [runs EXCEPT ![r].status = "failed"]
  /\ UNCHANGED <<tasks, checkpoints>>

-----------------------------------------------------------------------------

\* What inspectRepo can show: a checkpoint commit only once it is planned.
SeenSnapshots ==
  {git \in Snapshots :
     git.head \in CheckpointIds => checkpoints[git.head].state # "ABSENT"}

\* The only snapshot a claim of t accepts.
AtBase(t) == [head |-> tasks[t].base, clean |-> TRUE]

\* A transaction that expects another revision is refused and changes nothing,
\* so only the current one is passed.
TaskStep ==
  \E t \in Tasks :
    LET rev == tasks[t].rev IN
    \/ \E git \in SeenSnapshots : CreateTask(t, git)
    \/ \E c \in CheckpointIds :
         CreateDiagnosisFromCheckpoint(t, c, [head |-> c, clean |-> TRUE])
    \/ \E i \in Instances : ClaimTask(t, i, rev, AtBase(t))
    \/ \E i \in Workers : ClaimNextTask(t, i, AtBase(t))
    \/ \E i \in Instances, outcome \in {"COMPLETED", "FAILED"} :
         ReportResult(t, i, rev, outcome)
    \/ \E i \in Instances : ReportBlocked(t, i, rev)
    \/ RecoverTask(t, rev)
    \/ \E git \in SeenSnapshots : ResumeTask(t, rev, git)
    \/ CancelTask(t, rev)
    \/ CloseTask(t, rev)

CheckpointStep ==
  \/ \E t \in Tasks, p \in Purposes : PrepareCheckpoint(t, tasks[t].rev, p)
  \/ \E c \in CheckpointIds :
       \/ RecordGitApplied(c)
       \/ FinalizeTask(c)
       \/ MarkFinalized(c)
       \/ ReopenCheckpoint(c)

RunStep ==
  \E r \in Runs :
    \/ \E t \in Tasks : InsertRun(r, t)
    \/ \E t \in Tasks : InsertC2CRun(r, t, tasks[t].rev)
    \/ \E status \in RunStatuses : OverwriteRun(r, status)
    \/ ClaimC2CDispatchTask(r, AtBase(runs[r].task))
    \/ FailC2CDispatchBeforeClaim(r)

Next == CheckpointStep \/ RunStep \/ TaskStep

Spec == Init /\ [][Next]_ledger

-----------------------------------------------------------------------------
(* Properties *)

\* The rows are what the CHECKs of the schema admit.
TypeOK ==
  /\ tasks \in [Tasks -> TaskRow]
  /\ runs \in [Runs -> RunRow]
  /\ checkpoints \in [CheckpointIds -> CheckpointRow]

\* At most one task of the repository executes, whichever of the five ways to
\* claim, report, recover, resume and cancel got it there, and execution has
\* an owner exactly while the task is RUNNING.
SingleExecution ==
  /\ \A t, u \in Tasks : Running(t) /\ Running(u) => t = u
  /\ \A t \in Tasks : Running(t) <=> tasks[t].inst # None

\* A checkpoint intent whose commit is not yet recorded has the repository to
\* itself: nothing executes, no run is launching or running, and no second
\* intent is open, although the tests for that are made before, not in, the
\* transactions that advance it.
IntentExclusive ==
  \A c \in CheckpointIds :
    checkpoints[c].state \in {"PREPARED", "GIT_APPLIED"} =>
      /\ NoTaskRunning
      /\ NoActiveRun
      /\ \A d \in CheckpointIds : Unfinished(d) => d = c

\* The intent and its task stay in step: while the commit is not recorded the
\* task is where it was when the intent was planned, and once it is the task
\* has passed the producer revision.  A finalization retried by another
\* process therefore never advances a task twice.
IntentPinsTask ==
  \A c \in CheckpointIds :
    LET row == checkpoints[c]  task == tasks[c[1]] IN
    /\ row.state \in {"PREPARED", "GIT_APPLIED"} =>
         /\ task.rev = c[2]
         /\ task.base = row.prior
         /\ PurposeFits(row.purpose, task.status)
    /\ row.state \in {"FINALIZING", "FINALIZED"} => task.rev > c[2]

\* A C2C delegation reserves its task: from the moment the dispatch intent is
\* durable until a runner claims it the task stays READY at the accepted
\* revision, and while the run is running the task executes under it.
ReservationHolds ==
  \A r \in Runs :
    LET task == tasks[runs[r].task] IN
    IsC2C(r) =>
      /\ runs[r].status = "launching" =>
           task.status = "READY" /\ task.rev = runs[r].accepted
      /\ runs[r].status = "running" =>
           /\ task.status = "RUNNING"
           /\ task.inst = r
           /\ task.rev = runs[r].accepted + 1

\* A stored result comes from the execution that last claimed the task: a
\* worker that was recovered, cancelled or replaced cannot leave one behind.
ResultFromClaimant ==
  \A t \in Tasks :
    /\ tasks[t].status \in {"COMPLETED", "FAILED"} =>
         /\ tasks[t].resultBy = tasks[t].claimedBy
         /\ tasks[t].resultBy # None
    /\ tasks[t].status \in {"READY", "RUNNING", "BLOCKED"} =>
         tasks[t].resultBy = None

\* A task has at most one active run.
OneActiveRunPerTask ==
  \A r, s \in Runs : Active(r) /\ Active(s) /\ runs[r].task = runs[s].task
                       => r = s

\* Bookkeeping the invariants above rest on: the owner of an execution is the
\* instance its last claim recorded; a runner executes only the task of its
\* own run; a row that was never inserted has no revision.
ClaimRecorded ==
  /\ \A t \in Tasks :
       /\ Running(t) => tasks[t].claimedBy = tasks[t].inst
       /\ tasks[t].inst \in Runs =>
            /\ runs[tasks[t].inst].status # "absent"
            /\ runs[tasks[t].inst].task = t
       /\ tasks[t].status = "ABSENT" => tasks[t].rev = 0
  /\ \A r \in Runs : runs[r].status # "absent" => runs[r].task \in Tasks

\* A step keeps the intent of checkpoint c and, once recorded, its commit.
Kept(c) ==
  LET old == checkpoints[c]  new == checkpoints'[c] IN
  /\ old.state # "ABSENT" =>
       /\ new.state # "ABSENT"
       /\ new.purpose = old.purpose
       /\ new.prior = old.prior
  /\ old.state \in {"FINALIZING", "FINALIZED"} =>
       new.state \in {"FINALIZING", "FINALIZED"}

\* A recorded checkpoint is never forgotten: a row is never removed, its
\* purpose and prior base never change, and once its commit is recorded the
\* commit stays recorded.
CheckpointProgress == [][\A c \in CheckpointIds : Kept(c)]_checkpoints

\* How a step may move the base of task t.
BaseMove(t) ==
  LET old == tasks[t]  new == tasks'[t] IN
  old.base # new.base =>
    \/ old.status = "ABSENT"
    \/ old.status \in RESUMABLE /\ new.status = "READY"
    \/ /\ old.status \in RESUMABLE
       /\ new.status = old.status
       /\ new.base = <<t, old.rev>>
       /\ checkpoints'[new.base].state = "FINALIZING"

\* The commit a worker is measured against does not move under it: the base
\* of a task changes only when it is created, resumed from rest, or moved by
\* its own checkpoint, never while it is READY or RUNNING.
BaseIsPinned == [][\A t \in Tasks : BaseMove(t)]_tasks

\* The ledger implements the abstract lifecycle: whichever handlers interleave,
\* a task walks the status machine and execution is one lock.
Executor == IF \E t \in Tasks : Running(t)
            THEN CHOOSE t \in Tasks : Running(t)
            ELSE None

Abstract == INSTANCE Lifecycle
  WITH status <- [t \in Tasks |-> tasks[t].status], executor <- Executor

ImplementsLifecycle == Abstract!Spec

=============================================================================
