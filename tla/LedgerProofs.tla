---------------------------- MODULE LedgerProofs ----------------------------
(***************************************************************************)
(* Safety of Ledger for every set of tasks, runs, workers and commits and  *)
(* every revision bound.  TypeOK is inductive by itself; the invariants    *)
(* about execution, checkpoint intents, reservations and results need each *)
(* other and are proved together as IInv.                                  *)
(***************************************************************************)
EXTENDS Ledger, FiniteSetTheorems, TLAPS

-----------------------------------------------------------------------------
(* Rows *)

\* The row counter of an insert is a number.
LEMMA InsertedCount == Cardinality(Inserted) \in Nat
  <1>1. Inserted \subseteq Tasks
    BY DEF Inserted
  <1>2. IsFiniteSet(Inserted)
    BY <1>1, FS_Subset, LedgerAssumption
  <1> QED
    BY <1>2, FS_CardinalityType

\* A row insertTask writes is well typed.
LEMMA FreshTaskType ==
  ASSUME NEW base \in AllCommits, NEW source \in CheckpointIds \cup {None}
  PROVE  FreshTask(base, source) \in TaskRow
  <1>1. Cardinality(Inserted) + 1 \in Nat
    BY InsertedCount
  <1> QED
    BY <1>1 DEF FreshTask, TaskRow, TaskStatuses

\* A claimed row is well typed.
LEMMA ClaimedType ==
  ASSUME TypeOK, NEW t \in Tasks, NEW i \in Instances
  PROVE  Claimed(t, i) \in TaskRow
  BY DEF TypeOK, Claimed, TaskRow, TaskStatuses

\* So is one updateTask writes, if the row it is given is.
LEMMA UpdateTaskType ==
  ASSUME TypeOK, NEW t \in Tasks, NEW row \in TaskRow, UpdateTask(t, row)
  PROVE  tasks' \in [Tasks -> TaskRow]
  <1>1. tasks[t].rev \in Nat
    BY DEF TypeOK, TaskRow
  <1>2. \A n \in Nat : [row EXCEPT !.rev = n] \in TaskRow
    BY DEF TaskRow
  <1> QED
    BY <1>1, <1>2 DEF TypeOK, UpdateTask

\* A runner's write of its own dispatch row is well typed.
LEMMA UpdateRunOfType ==
  ASSUME TypeOK, NEW i \in Instances, NEW t \in Tasks,
         NEW status \in RunStatuses, UpdateRunOf(i, t, status)
  PROVE  runs' \in [Runs -> RunRow]
  BY DEF TypeOK, UpdateRunOf, RunRow

\* Failing the active runs of a task leaves well-typed rows.
LEMMA FailActiveRunsOfType ==
  ASSUME TypeOK, NEW t \in Tasks, FailActiveRunsOf(t)
  PROVE  runs' \in [Runs -> RunRow]
  BY DEF TypeOK, FailActiveRunsOf, RunRow, RunStatuses

\* A checkpoint id is a task and a revision within the bound.
LEMMA CheckpointIdParts ==
  ASSUME NEW c \in CheckpointIds
  PROVE  /\ c = <<c[1], c[2]>>
         /\ c[1] \in Tasks
         /\ c[2] \in 1..MaxRevision[c[1]]
         /\ c[2] \in Nat
  BY DEF CheckpointIds

-----------------------------------------------------------------------------
(* Type correctness *)

\* The empty ledger is well typed.
LEMMA InitTypeOK == Init => TypeOK
  BY DEF Init, TypeOK, NoTask, NoRun, NoCheckpoint, TaskRow, RunRow,
         CheckpointRow, TaskStatuses, RunStatuses, CheckpointStates

\* Every handler of lifecycle.ts keeps the rows well typed.
LEMMA TaskStepTypeOK == TypeOK /\ TaskStep => TypeOK'
  <1> SUFFICES ASSUME TypeOK, TaskStep PROVE TypeOK'
    OBVIOUS
  <1>1. ASSUME NEW t \in Tasks, NEW git \in Snapshots, CreateTask(t, git)
        PROVE  TypeOK'
    BY <1>1, FreshTaskType DEF CreateTask, TypeOK, Snapshots
  <1>2. ASSUME NEW t \in Tasks, NEW c \in CheckpointIds, NEW git \in Snapshots,
               CreateDiagnosisFromCheckpoint(t, c, git)
        PROVE  TypeOK'
    BY <1>2, FreshTaskType DEF CreateDiagnosisFromCheckpoint, TypeOK, AllCommits
  <1>3. ASSUME NEW t \in Tasks, NEW i \in Instances,
               ClaimTask(t, i, tasks[t].rev, AtBase(t))
        PROVE  TypeOK'
    BY <1>3, ClaimedType, UpdateTaskType, UpdateRunOfType
       DEF ClaimTask, TypeOK, RunStatuses
  <1>4. ASSUME NEW t \in Tasks, NEW i \in Workers, ClaimNextTask(t, i, AtBase(t))
        PROVE  TypeOK'
    BY <1>4, ClaimedType, UpdateTaskType DEF ClaimNextTask, TypeOK, Instances
  <1>5. ASSUME NEW t \in Tasks, NEW i \in Instances,
               NEW outcome \in {"COMPLETED", "FAILED"},
               ReportResult(t, i, tasks[t].rev, outcome)
        PROVE  TypeOK'
    <2>1. [tasks[t] EXCEPT !.status = outcome, !.inst = None, !.resultBy = i]
            \in TaskRow
      BY DEF TypeOK, TaskRow, TaskStatuses
    <2> QED
      BY <1>5, <2>1, UpdateTaskType, UpdateRunOfType
         DEF ReportResult, TypeOK, RunStatuses
  <1>6. ASSUME NEW t \in Tasks, NEW i \in Instances,
               ReportBlocked(t, i, tasks[t].rev)
        PROVE  TypeOK'
    <2>1. [tasks[t] EXCEPT !.status = "BLOCKED", !.inst = None] \in TaskRow
      BY DEF TypeOK, TaskRow, TaskStatuses
    <2> QED
      BY <1>6, <2>1, UpdateTaskType, UpdateRunOfType
         DEF ReportBlocked, TypeOK, RunStatuses
  <1>7. ASSUME NEW t \in Tasks, RecoverTask(t, tasks[t].rev)
        PROVE  TypeOK'
    <2>1. [tasks[t] EXCEPT !.status = "BLOCKED", !.inst = None] \in TaskRow
      BY DEF TypeOK, TaskRow, TaskStatuses
    <2> QED
      BY <1>7, <2>1, UpdateTaskType, FailActiveRunsOfType DEF RecoverTask, TypeOK
  <1>8. ASSUME NEW t \in Tasks, NEW git \in Snapshots,
               ResumeTask(t, tasks[t].rev, git)
        PROVE  TypeOK'
    <2>1. [tasks[t] EXCEPT !.status = "READY", !.inst = None,
                           !.base = git.head, !.resultBy = None] \in TaskRow
      BY DEF TypeOK, TaskRow, TaskStatuses, Snapshots
    <2> QED
      BY <1>8, <2>1, UpdateTaskType DEF ResumeTask, TypeOK
  <1>9. ASSUME NEW t \in Tasks, CancelTask(t, tasks[t].rev)
        PROVE  TypeOK'
    <2>1. [tasks[t] EXCEPT !.status = "CANCELLED", !.inst = None] \in TaskRow
      BY DEF TypeOK, TaskRow, TaskStatuses
    <2> QED
      BY <1>9, <2>1, UpdateTaskType, FailActiveRunsOfType DEF CancelTask, TypeOK
  <1>10. ASSUME NEW t \in Tasks, CloseTask(t, tasks[t].rev)
         PROVE  TypeOK'
    <2>1. [tasks[t] EXCEPT !.status = "CLOSED", !.inst = None] \in TaskRow
      BY DEF TypeOK, TaskRow, TaskStatuses
    <2> QED
      BY <1>10, <2>1, UpdateTaskType DEF CloseTask, TypeOK
  <1>11. \A c \in CheckpointIds : [head |-> c, clean |-> TRUE] \in Snapshots
    BY DEF Snapshots, AllCommits
  <1> QED
    BY <1>1, <1>2, <1>3, <1>4, <1>5, <1>6, <1>7, <1>8, <1>9, <1>10, <1>11
       DEF TaskStep, SeenSnapshots

\* So do the transactions of checkpointTask.
LEMMA CheckpointStepTypeOK == TypeOK /\ CheckpointStep => TypeOK'
  <1> SUFFICES ASSUME TypeOK, CheckpointStep PROVE TypeOK'
    OBVIOUS
  <1>1. ASSUME NEW t \in Tasks, NEW p \in Purposes,
               PrepareCheckpoint(t, tasks[t].rev, p)
        PROVE  TypeOK'
    <2>1. [state |-> "PREPARED", purpose |-> p, prior |-> tasks[t].base]
            \in CheckpointRow
      BY DEF TypeOK, TaskRow, CheckpointRow, CheckpointStates
    <2> QED
      BY <1>1, <2>1 DEF PrepareCheckpoint, TypeOK
  <1>2. ASSUME NEW c \in CheckpointIds, RecordGitApplied(c)
        PROVE  TypeOK'
    BY <1>2 DEF RecordGitApplied, TypeOK, CheckpointRow, CheckpointStates
  <1>3. ASSUME NEW c \in CheckpointIds, FinalizeTask(c)
        PROVE  TypeOK'
    <2>1. c[1] \in Tasks
      BY CheckpointIdParts
    <2>2. [tasks[c[1]] EXCEPT !.base = c] \in TaskRow
      BY <2>1 DEF TypeOK, TaskRow, AllCommits
    <2>3. tasks' \in [Tasks -> TaskRow]
      BY <1>3, <2>1, <2>2, UpdateTaskType DEF FinalizeTask
    <2> QED
      BY <1>3, <2>3 DEF FinalizeTask, TypeOK, CheckpointRow, CheckpointStates
  <1>4. ASSUME NEW c \in CheckpointIds, MarkFinalized(c) \/ ReopenCheckpoint(c)
        PROVE  TypeOK'
    BY <1>4 DEF MarkFinalized, ReopenCheckpoint, TypeOK, CheckpointRow,
                CheckpointStates
  <1> QED
    BY <1>1, <1>2, <1>3, <1>4 DEF CheckpointStep

\* So do the writes of dispatch_runs.
LEMMA RunStepTypeOK == TypeOK /\ RunStep => TypeOK'
  <1> SUFFICES ASSUME TypeOK, NEW r \in Runs, RunStep PROVE TypeOK'
    BY DEF RunStep
  <1>1. ASSUME NEW s \in Runs, NEW t \in Tasks,
               InsertRun(s, t) \/ InsertC2CRun(s, t, tasks[t].rev)
        PROVE  TypeOK'
    <2>1. tasks[t].rev \in Nat
      BY DEF TypeOK, TaskRow
    <2>2. \A n \in Nat : [status |-> "launching", task |-> t, accepted |-> n]
                           \in RunRow
      BY DEF RunRow, RunStatuses
    <2> QED
      BY <1>1, <2>1, <2>2 DEF InsertRun, InsertC2CRun, TypeOK
  <1>2. ASSUME NEW s \in Runs, NEW status \in RunStatuses,
               OverwriteRun(s, status)
        PROVE  TypeOK'
    BY <1>2 DEF OverwriteRun, TypeOK, RunRow
  <1>3. ASSUME NEW s \in Runs, ClaimC2CDispatchTask(s, AtBase(runs[s].task))
        PROVE  TypeOK'
    <2> DEFINE t == runs[s].task
    <2>1. UpdateTask(t, Claimed(t, s)) /\ UpdateRunOf(s, t, "running")
          /\ UNCHANGED checkpoints
      BY <1>3 DEF ClaimC2CDispatchTask
    <2>2. runs' \in [Runs -> RunRow]
      BY <2>1 DEF UpdateRunOf, TypeOK, RunRow, RunStatuses
    <2>3. tasks' \in [Tasks -> TaskRow]
      <3>1. CASE t \in Tasks
        BY <2>1, <3>1, ClaimedType, UpdateTaskType DEF Instances
      <3>2. CASE t \notin Tasks
        <4>1. ASSUME NEW x, NEW v, x \notin Tasks
              PROVE  [tasks EXCEPT ![x] = v] = tasks
          BY <4>1 DEF TypeOK
        <4> QED
          BY <2>1, <3>2, <4>1 DEF UpdateTask, TypeOK
      <3> QED
        BY <3>1, <3>2
    <2> QED
      BY <2>1, <2>2, <2>3 DEF TypeOK
  <1>4. ASSUME NEW s \in Runs, FailC2CDispatchBeforeClaim(s)
        PROVE  TypeOK'
    BY <1>4 DEF FailC2CDispatchBeforeClaim, TypeOK, RunRow, RunStatuses
  <1> QED
    BY <1>1, <1>2, <1>3, <1>4 DEF RunStep

\* Every reachable ledger is well typed, for every value of the constants.
THEOREM TypeCorrect == Spec => []TypeOK
  <1>1. TypeOK /\ [Next]_ledger => TypeOK'
    <2>1. TypeOK /\ UNCHANGED ledger => TypeOK'
      BY DEF TypeOK, ledger
    <2> QED
      BY <2>1, TaskStepTypeOK, CheckpointStepTypeOK, RunStepTypeOK DEF Next
  <1> QED
    BY <1>1, InitTypeOK, PTL DEF Spec

-----------------------------------------------------------------------------
(* What one updateTask leaves behind *)

\* updateTask writes one row, one revision on, and no other.
LEMMA UpdatedTask ==
  ASSUME TypeOK, NEW t \in Tasks, NEW row \in TaskRow, UpdateTask(t, row)
  PROVE  /\ \A u \in Tasks : u # t => tasks'[u] = tasks[u]
         /\ tasks'[t] = [row EXCEPT !.rev = tasks[t].rev + 1]
         /\ tasks'[t].status = row.status
         /\ tasks'[t].inst = row.inst
         /\ tasks'[t].base = row.base
         /\ tasks'[t].claimedBy = row.claimedBy
         /\ tasks'[t].resultBy = row.resultBy
         /\ tasks'[t].rev = tasks[t].rev + 1
  BY DEF TypeOK, UpdateTask, TaskRow

\* The invariants need each other: a reservation holds only because nothing
\* executes beside it, an intent only because no claim passes its fence.
IInv ==
  /\ TypeOK
  /\ SingleExecution
  /\ IntentExclusive
  /\ IntentPinsTask
  /\ ReservationHolds
  /\ OneActiveRunPerTask
  /\ ResultFromClaimant
  /\ ClaimRecorded

\* What a claim changes.
LEMMA ClaimEffect ==
  ASSUME TypeOK, NEW t \in Tasks, NEW i \in Instances,
         UpdateTask(t, Claimed(t, i))
  PROVE  /\ \A u \in Tasks : u # t => tasks'[u] = tasks[u]
         /\ tasks'[t].status = "RUNNING"
         /\ tasks'[t].inst = i
         /\ tasks'[t].base = tasks[t].base
         /\ tasks'[t].claimedBy = i
         /\ tasks'[t].resultBy = tasks[t].resultBy
         /\ tasks'[t].rev = tasks[t].rev + 1
  <1> DEFINE row == Claimed(t, i)
  <1>1. tasks[t] \in TaskRow
    BY DEF TypeOK
  <1>2. row \in TaskRow
    BY ClaimedType
  <1>3. /\ row.status = "RUNNING"
        /\ row.inst = i
        /\ row.base = tasks[t].base
        /\ row.claimedBy = i
        /\ row.resultBy = tasks[t].resultBy
    BY <1>1 DEF TaskRow, Claimed
  <1> HIDE DEF row
  <1> QED
    BY <1>2, <1>3, UpdatedTask DEF row

\* What an insert changes.
LEMMA CreateEffect ==
  ASSUME TypeOK, NEW t \in Tasks, NEW b \in AllCommits, NEW s \in CheckpointIds \cup {None},
         tasks' = [tasks EXCEPT ![t] = FreshTask(b, s)]
  PROVE  /\ \A u \in Tasks : u # t => tasks'[u] = tasks[u]
         /\ tasks'[t].status = "READY"
         /\ tasks'[t].inst = None
         /\ tasks'[t].base = b
         /\ tasks'[t].resultBy = None
         /\ tasks'[t].rev = 1
  BY DEF TypeOK, FreshTask

\* What a report of a result changes.
LEMMA ReportEffect ==
  ASSUME TypeOK, NEW t \in Tasks, NEW i \in Instances,
         NEW st \in {"COMPLETED", "FAILED"},
         UpdateTask(t, [tasks[t] EXCEPT !.status = st, !.inst = None, !.resultBy = i])
  PROVE  /\ \A u \in Tasks : u # t => tasks'[u] = tasks[u]
         /\ tasks'[t].status = st
         /\ tasks'[t].inst = None
         /\ tasks'[t].base = tasks[t].base
         /\ tasks'[t].claimedBy = tasks[t].claimedBy
         /\ tasks'[t].resultBy = i
         /\ tasks'[t].rev = tasks[t].rev + 1
  <1> DEFINE row == [tasks[t] EXCEPT !.status = st, !.inst = None,
                                   !.resultBy = i]
  <1>1. tasks[t] \in TaskRow
    BY DEF TypeOK
  <1>2. row \in TaskRow
    BY <1>1 DEF TaskRow, TaskStatuses
  <1>3. /\ row.status = st
        /\ row.inst = None
        /\ row.base = tasks[t].base
        /\ row.claimedBy = tasks[t].claimedBy
        /\ row.resultBy = i
    BY <1>1 DEF TaskRow
  <1> HIDE DEF row
  <1> QED
    BY <1>2, <1>3, UpdatedTask DEF row

\* What blocking, recovering, cancelling and closing change.
LEMMA RestEffect ==
  ASSUME TypeOK, NEW t \in Tasks, NEW st \in TaskStatuses,
         UpdateTask(t, [tasks[t] EXCEPT !.status = st, !.inst = None])
  PROVE  /\ \A u \in Tasks : u # t => tasks'[u] = tasks[u]
         /\ tasks'[t].status = st
         /\ tasks'[t].inst = None
         /\ tasks'[t].base = tasks[t].base
         /\ tasks'[t].claimedBy = tasks[t].claimedBy
         /\ tasks'[t].resultBy = tasks[t].resultBy
         /\ tasks'[t].rev = tasks[t].rev + 1
  <1> DEFINE row == [tasks[t] EXCEPT !.status = st, !.inst = None]
  <1>1. tasks[t] \in TaskRow
    BY DEF TypeOK
  <1>2. row \in TaskRow
    BY <1>1 DEF TaskRow
  <1>3. /\ row.status = st
        /\ row.inst = None
        /\ row.base = tasks[t].base
        /\ row.claimedBy = tasks[t].claimedBy
        /\ row.resultBy = tasks[t].resultBy
    BY <1>1 DEF TaskRow
  <1> HIDE DEF row
  <1> QED
    BY <1>2, <1>3, UpdatedTask DEF row

\* What a resumption changes.
LEMMA ResumeEffect ==
  ASSUME TypeOK, NEW t \in Tasks, NEW git \in Snapshots,
         UpdateTask(t, [tasks[t] EXCEPT !.status = "READY", !.inst = None,
                                    !.base = git.head, !.resultBy = None])
  PROVE  /\ \A u \in Tasks : u # t => tasks'[u] = tasks[u]
         /\ tasks'[t].status = "READY"
         /\ tasks'[t].inst = None
         /\ tasks'[t].base = git.head
         /\ tasks'[t].resultBy = None
         /\ tasks'[t].rev = tasks[t].rev + 1
  <1> DEFINE row == [tasks[t] EXCEPT !.status = "READY", !.inst = None,
                                   !.base = git.head, !.resultBy = None]
  <1>1. tasks[t] \in TaskRow
    BY DEF TypeOK
  <1>2. row \in TaskRow
    BY <1>1 DEF TaskRow, TaskStatuses, Snapshots
  <1>3. /\ row.status = "READY"
        /\ row.inst = None
        /\ row.base = git.head
        /\ row.resultBy = None
    BY <1>1 DEF TaskRow
  <1> HIDE DEF row
  <1> QED
    BY <1>2, <1>3, UpdatedTask DEF row

\* What the finalization of a checkpoint changes in its task.
LEMMA RebaseEffect ==
  ASSUME TypeOK, NEW t \in Tasks, NEW c \in CheckpointIds,
         UpdateTask(t, [tasks[t] EXCEPT !.base = c])
  PROVE  /\ \A u \in Tasks : u # t => tasks'[u] = tasks[u]
         /\ tasks'[t].status = tasks[t].status
         /\ tasks'[t].inst = tasks[t].inst
         /\ tasks'[t].base = c
         /\ tasks'[t].claimedBy = tasks[t].claimedBy
         /\ tasks'[t].resultBy = tasks[t].resultBy
         /\ tasks'[t].rev = tasks[t].rev + 1
  <1> DEFINE row == [tasks[t] EXCEPT !.base = c]
  <1>1. tasks[t] \in TaskRow
    BY DEF TypeOK
  <1>2. row \in TaskRow
    BY <1>1 DEF TaskRow, AllCommits
  <1>3. /\ row.status = tasks[t].status
        /\ row.inst = tasks[t].inst
        /\ row.base = c
        /\ row.claimedBy = tasks[t].claimedBy
        /\ row.resultBy = tasks[t].resultBy
    BY <1>1 DEF TaskRow
  <1> HIDE DEF row
  <1> QED
    BY <1>2, <1>3, UpdatedTask DEF row

-----------------------------------------------------------------------------
(* Conjuncts a family of steps cannot disturb *)

\* A transaction that passes the repository fence leaves no intent to break.
LEMMA FencedStep ==
  ASSUME IInv, TypeOK', NoRepositoryCheckpoint, UNCHANGED checkpoints,
         \A t \in Tasks : tasks'[t].rev >= tasks[t].rev
  PROVE  IntentExclusive' /\ IntentPinsTask'
  <1>1. \A c \in CheckpointIds :
          checkpoints'[c].state \notin {"PREPARED", "GIT_APPLIED", "FINALIZING"}
    BY DEF NoRepositoryCheckpoint, Unfinished
  <1>2. IntentExclusive'
    BY <1>1 DEF IntentExclusive
  <1>3. ASSUME NEW c \in CheckpointIds, checkpoints'[c].state = "FINALIZED"
        PROVE  tasks'[c[1]].rev > c[2]
    <2>1. c[1] \in Tasks /\ c[2] \in Nat
      BY CheckpointIdParts
    <2>2. tasks[c[1]].rev > c[2]
      BY <1>3 DEF IInv, IntentPinsTask
    <2>3. tasks'[c[1]].rev >= tasks[c[1]].rev
      BY <2>1
    <2>4. tasks[c[1]].rev \in Nat /\ tasks'[c[1]].rev \in Nat
      BY <2>1 DEF IInv, TypeOK, TaskRow
    <2> QED
      BY <2>1, <2>2, <2>3, <2>4
  <1>4. IntentPinsTask'
    BY <1>1, <1>3 DEF IntentPinsTask
  <1> QED
    BY <1>2, <1>4

\* So does one that leaves the tasks alone.
LEMMA FencedRunStep ==
  ASSUME IInv, TypeOK', NoRepositoryCheckpoint, UNCHANGED <<tasks, checkpoints>>
  PROVE  /\ IntentExclusive' /\ IntentPinsTask'
         /\ SingleExecution' /\ ResultFromClaimant'
  <1>1. \A t \in Tasks : tasks'[t].rev >= tasks[t].rev
    BY DEF IInv, TypeOK, TaskRow
  <1>2. SingleExecution' /\ ResultFromClaimant'
    BY DEF IInv, SingleExecution, ResultFromClaimant, Running
  <1> QED
    BY <1>1, <1>2, FencedStep

-----------------------------------------------------------------------------
(* A claim, by whichever of the three handlers *)

\* A claim keeps every invariant: the lock was free, and a reserved task goes
\* to the run that reserves it.
LEMMA ClaimKeeps ==
  ASSUME IInv, TypeOK', NEW t \in Tasks, NEW i \in Instances,
         NoRepositoryCheckpoint, NoTaskRunning, tasks[t].status = "READY",
         i \in Runs => runs[i].task = t,
         \A r \in Runs : ActiveFor(r, t) /\ IsC2C(r) => r = i,
         i \in Runs /\ IsC2C(i) => runs[i].accepted = tasks[t].rev,
         UpdateTask(t, Claimed(t, i)), UpdateRunOf(i, t, "running"),
         UNCHANGED checkpoints
  PROVE  IInv'
  <1>1. /\ \A u \in Tasks : u # t => tasks'[u] = tasks[u]
        /\ tasks'[t].status = "RUNNING"
        /\ tasks'[t].inst = i
        /\ tasks'[t].claimedBy = i
        /\ tasks'[t].resultBy = tasks[t].resultBy
        /\ tasks'[t].rev = tasks[t].rev + 1
    BY ClaimEffect DEF IInv
  <1>2. tasks[t].rev \in Nat /\ \A u \in Tasks : tasks[u].rev \in Nat
    BY DEF IInv, TypeOK, TaskRow
  <1>3. i # None
    BY LedgerAssumption
  <1>4. \A r \in Runs : /\ runs'[r].task = runs[r].task
                        /\ runs'[r].accepted = runs[r].accepted
                        /\ r # i => runs'[r] = runs[r]
                        /\ r = i => runs'[r].status = "running"
    BY DEF UpdateRunOf, IInv, TypeOK, RunRow
  <1>5. SingleExecution'
    BY <1>1, <1>3 DEF IInv, SingleExecution, NoTaskRunning, Running
  <1>6. IntentExclusive' /\ IntentPinsTask'
    BY <1>1, <1>2, FencedStep
  <1>7. ReservationHolds'
    <2> SUFFICES ASSUME NEW r \in Runs, IsC2C(r)'
                 PROVE  (/\ runs[r].status = "launching" =>
                              /\ tasks[runs[r].task].status = "READY"
                              /\ tasks[runs[r].task].rev = runs[r].accepted
                         /\ runs[r].status = "running" =>
                              /\ tasks[runs[r].task].status = "RUNNING"
                              /\ tasks[runs[r].task].inst = r
                              /\ tasks[runs[r].task].rev = runs[r].accepted + 1)'
      BY DEF ReservationHolds
    <2>1. CASE r = i
      BY <1>1, <1>4, <2>1 DEF IsC2C
    <2>2. CASE r # i /\ Active(r)
      <3>1. runs[r].task \in Tasks /\ runs[r].task # t
        BY <1>4, <2>2 DEF IInv, ClaimRecorded, Active, ActiveFor, IsC2C
      <3> QED
        BY <1>1, <1>4, <2>2, <3>1 DEF IInv, ReservationHolds, IsC2C
    <2>3. CASE r # i /\ ~Active(r)
      BY <1>4, <2>3 DEF Active
    <2> QED
      BY <2>1, <2>2, <2>3
  <1>8. OneActiveRunPerTask'
    BY <1>4 DEF IInv, OneActiveRunPerTask, Active, ActiveFor, UpdateRunOf
  <1>9. ResultFromClaimant'
    BY <1>1 DEF IInv, ResultFromClaimant
  <1>10. ClaimRecorded'
    BY <1>1, <1>4 DEF IInv, ClaimRecorded, Running
  <1> QED
    BY <1>5, <1>6, <1>7, <1>8, <1>9, <1>10 DEF IInv

-----------------------------------------------------------------------------
(* A step that takes a task out of execution or moves it at rest *)

\* Runs may end, and nothing else happens to them.
RunsOnlyEnd ==
  \A r \in Runs :
    /\ runs'[r].task = runs[r].task
    /\ runs'[r].accepted = runs[r].accepted
    /\ \/ runs'[r].status = runs[r].status
       \/ /\ runs[r].status # "absent"
          /\ runs'[r].status \in {"completed", "blocked", "failed"}

\* Such a step keeps every invariant, provided no C2C run of the task stays
\* active and a stored result names the instance of the last claim.
LEMMA RestKeeps ==
  ASSUME IInv, TypeOK', NEW t \in Tasks,
         NoRepositoryCheckpoint, UNCHANGED checkpoints,
         \A u \in Tasks : u # t => tasks'[u] = tasks[u],
         tasks'[t].status \notin {"RUNNING", "ABSENT"},
         tasks'[t].inst = None,
         tasks'[t].rev >= tasks[t].rev,
         RunsOnlyEnd,
         \A r \in Runs : IsC2C(r) => ~ActiveFor(r, t)',
         /\ tasks'[t].status \in {"COMPLETED", "FAILED"} =>
              /\ tasks'[t].resultBy = tasks'[t].claimedBy
              /\ tasks'[t].resultBy # None
         /\ tasks'[t].status \in {"READY", "BLOCKED"} => tasks'[t].resultBy = None
  PROVE  IInv'
  <1>1. \A u \in Tasks : tasks'[u].rev >= tasks[u].rev
    BY DEF IInv, TypeOK, TaskRow
  <1>2. IntentExclusive' /\ IntentPinsTask'
    BY <1>1, FencedStep
  <1>3. SingleExecution'
    BY DEF IInv, SingleExecution, Running
  <1>4. ReservationHolds'
    <2> SUFFICES ASSUME NEW r \in Runs, IsC2C(r)', Active(r)'
                 PROVE  (/\ runs[r].status = "launching" =>
                              /\ tasks[runs[r].task].status = "READY"
                              /\ tasks[runs[r].task].rev = runs[r].accepted
                         /\ runs[r].status = "running" =>
                              /\ tasks[runs[r].task].status = "RUNNING"
                              /\ tasks[runs[r].task].inst = r
                              /\ tasks[runs[r].task].rev = runs[r].accepted + 1)'
      BY DEF ReservationHolds, Active
    <2>1. IsC2C(r) /\ Active(r) /\ runs'[r].status = runs[r].status
      BY DEF RunsOnlyEnd, IsC2C, Active
    <2>2. runs[r].task # t
      BY <2>1 DEF RunsOnlyEnd, ActiveFor, Active
    <2>3. runs[r].task \in Tasks
      BY <2>1 DEF IInv, ClaimRecorded, Active
    <2> QED
      BY <2>1, <2>2, <2>3 DEF IInv, ReservationHolds, RunsOnlyEnd
  <1>5. OneActiveRunPerTask'
    BY DEF IInv, OneActiveRunPerTask, RunsOnlyEnd, Active
  <1>6. ResultFromClaimant'
    BY DEF IInv, ResultFromClaimant
  <1>7. ClaimRecorded'
    BY LedgerAssumption DEF IInv, ClaimRecorded, RunsOnlyEnd, Running, Instances
  <1> QED
    BY <1>2, <1>3, <1>4, <1>5, <1>6, <1>7 DEF IInv

\* A delegated C2C run holds its task READY or RUNNING under it.
LEMMA ReservedTask ==
  ASSUME IInv, NEW t \in Tasks, NEW r \in Runs, IsC2C(r), ActiveFor(r, t)
  PROVE  \/ tasks[t].status = "READY"
         \/ tasks[t].status = "RUNNING" /\ tasks[t].inst = r
  BY DEF IInv, ReservationHolds, ActiveFor, Active

\* A report of the executing instance ends its own run, if it has one.
LEMMA ReportEndsRun ==
  ASSUME IInv, NEW t \in Tasks, NEW i \in Instances, tasks[t].inst = i,
         Running(t), NEW st \in {"completed", "blocked"}, UpdateRunOf(i, t, st)
  PROVE  /\ RunsOnlyEnd
         /\ \A r \in Runs : IsC2C(r) => ~ActiveFor(r, t)'
  <1>1. RunsOnlyEnd
    BY DEF UpdateRunOf, RunsOnlyEnd, IInv, TypeOK, RunRow, ClaimRecorded
  <1>2. ASSUME NEW r \in Runs, IsC2C(r), ActiveFor(r, t)'
        PROVE  FALSE
    <2>1. ActiveFor(r, t)
      BY <1>1, <1>2 DEF RunsOnlyEnd, ActiveFor, Active
    <2>2. r = i
      BY <1>2, <2>1, ReservedTask DEF Running
    <2> QED
      BY <1>2, <2>2 DEF UpdateRunOf, ActiveFor, Active, IInv, TypeOK, RunRow
  <1> QED
    BY <1>1, <1>2

\* Recovering or cancelling a task ends all its runs.
LEMMA FailEndsRuns ==
  ASSUME IInv, NEW t \in Tasks, FailActiveRunsOf(t)
  PROVE  /\ RunsOnlyEnd
         /\ \A r \in Runs : IsC2C(r) => ~ActiveFor(r, t)'
  BY DEF FailActiveRunsOf, RunsOnlyEnd, ActiveFor, Active, IInv, TypeOK, RunRow

-----------------------------------------------------------------------------
(* One lemma for each part of Next *)

\* The handlers of lifecycle.ts.
LEMMA TaskStepKeeps == IInv /\ TaskStep => IInv'
  <1> SUFFICES ASSUME IInv, TaskStep PROVE IInv'
    OBVIOUS
  <1>1. TypeOK'
    BY TaskStepTypeOK DEF IInv
  <1>2. \A t \in Tasks : tasks[t].rev \in Nat
    BY DEF IInv, TypeOK, TaskRow
  <1>3. ASSUME NEW t \in Tasks, NEW b \in AllCommits,
               NEW s \in CheckpointIds \cup {None},
               tasks[t].status = "ABSENT", NoRepositoryCheckpoint,
               tasks' = [tasks EXCEPT ![t] = FreshTask(b, s)],
               UNCHANGED <<runs, checkpoints>>
        PROVE  IInv'
    <2>1. /\ \A u \in Tasks : u # t => tasks'[u] = tasks[u]
          /\ tasks'[t].status = "READY"
          /\ tasks'[t].inst = None
          /\ tasks'[t].resultBy = None
          /\ tasks'[t].rev = 1
      BY <1>3, CreateEffect DEF IInv
    <2>2. tasks[t].rev = 0
      BY <1>3 DEF IInv, ClaimRecorded
    <2>3. \A r \in Runs : IsC2C(r) => ~ActiveFor(r, t)
      BY <1>3, ReservedTask
    <2>4. \A r \in Runs : IsC2C(r) => ~ActiveFor(r, t)'
      BY <1>3, <2>3 DEF ActiveFor, Active
    <2>5. RunsOnlyEnd
      BY <1>3 DEF RunsOnlyEnd
    <2> QED
      BY <1>1, <1>3, <2>1, <2>2, <2>4, <2>5, RestKeeps
  <1>4. ASSUME NEW t \in Tasks, NEW i \in Instances,
               ClaimTask(t, i, tasks[t].rev, AtBase(t))
        PROVE  IInv'
    BY <1>1, <1>4, ClaimKeeps DEF ClaimTask, Reserved
  <1>5. ASSUME NEW t \in Tasks, NEW i \in Workers, ClaimNextTask(t, i, AtBase(t))
        PROVE  IInv'
    <2>1. i \notin Runs /\ i \in Instances
      BY LedgerAssumption DEF Instances
    <2>2. UpdateRunOf(i, t, "running")
      BY <1>5, <2>1 DEF ClaimNextTask, UpdateRunOf
    <2> QED
      BY <1>1, <1>5, <2>1, <2>2, ClaimKeeps DEF ClaimNextTask, Reserved
  <1>6. ASSUME NEW t \in Tasks, NEW i \in Instances,
               NEW outcome \in {"COMPLETED", "FAILED"},
               ReportResult(t, i, tasks[t].rev, outcome)
        PROVE  IInv'
    <2>1. /\ \A u \in Tasks : u # t => tasks'[u] = tasks[u]
          /\ tasks'[t].status = outcome
          /\ tasks'[t].inst = None
          /\ tasks'[t].claimedBy = tasks[t].claimedBy
          /\ tasks'[t].resultBy = i
          /\ tasks'[t].rev = tasks[t].rev + 1
      BY <1>6, ReportEffect DEF ReportResult, IInv
    <2>2. tasks[t].claimedBy = i /\ i # None
      BY <1>6, LedgerAssumption DEF ReportResult, IInv, ClaimRecorded
    <2>3. RunsOnlyEnd /\ \A r \in Runs : IsC2C(r) => ~ActiveFor(r, t)'
      BY <1>6, ReportEndsRun DEF ReportResult
    <2> QED
      BY <1>1, <1>2, <1>6, <2>1, <2>2, <2>3, RestKeeps DEF ReportResult
  <1>7. ASSUME NEW t \in Tasks, NEW i \in Instances,
               ReportBlocked(t, i, tasks[t].rev)
        PROVE  IInv'
    <2>1. /\ \A u \in Tasks : u # t => tasks'[u] = tasks[u]
          /\ tasks'[t].status = "BLOCKED"
          /\ tasks'[t].inst = None
          /\ tasks'[t].resultBy = tasks[t].resultBy
          /\ tasks'[t].rev = tasks[t].rev + 1
      BY <1>7, RestEffect DEF ReportBlocked, IInv, TaskStatuses
    <2>2. tasks[t].resultBy = None
      BY <1>7 DEF ReportBlocked, IInv, ResultFromClaimant, Running
    <2>3. RunsOnlyEnd /\ \A r \in Runs : IsC2C(r) => ~ActiveFor(r, t)'
      BY <1>7, ReportEndsRun DEF ReportBlocked
    <2> QED
      BY <1>1, <1>2, <1>7, <2>1, <2>2, <2>3, RestKeeps DEF ReportBlocked
  <1>8. ASSUME NEW t \in Tasks, RecoverTask(t, tasks[t].rev)
        PROVE  IInv'
    <2>1. /\ \A u \in Tasks : u # t => tasks'[u] = tasks[u]
          /\ tasks'[t].status = "BLOCKED"
          /\ tasks'[t].inst = None
          /\ tasks'[t].resultBy = tasks[t].resultBy
          /\ tasks'[t].rev = tasks[t].rev + 1
      BY <1>8, RestEffect DEF RecoverTask, IInv, TaskStatuses
    <2>2. tasks[t].resultBy = None
      BY <1>8 DEF RecoverTask, IInv, ResultFromClaimant, Running
    <2>3. RunsOnlyEnd /\ \A r \in Runs : IsC2C(r) => ~ActiveFor(r, t)'
      BY <1>8, FailEndsRuns DEF RecoverTask
    <2> QED
      BY <1>1, <1>2, <1>8, <2>1, <2>2, <2>3, RestKeeps DEF RecoverTask
  <1>9. ASSUME NEW t \in Tasks, NEW git \in Snapshots,
               ResumeTask(t, tasks[t].rev, git)
        PROVE  IInv'
    <2>1. /\ \A u \in Tasks : u # t => tasks'[u] = tasks[u]
          /\ tasks'[t].status = "READY"
          /\ tasks'[t].inst = None
          /\ tasks'[t].resultBy = None
          /\ tasks'[t].rev = tasks[t].rev + 1
      BY <1>9, ResumeEffect DEF ResumeTask, IInv
    <2>2. \A r \in Runs : IsC2C(r) => ~ActiveFor(r, t)
      BY <1>9, ReservedTask DEF ResumeTask, RESUMABLE
    <2>3. RunsOnlyEnd /\ \A r \in Runs : IsC2C(r) => ~ActiveFor(r, t)'
      BY <1>9, <2>2 DEF ResumeTask, RunsOnlyEnd, ActiveFor, Active
    <2> QED
      BY <1>1, <1>2, <1>9, <2>1, <2>3, RestKeeps DEF ResumeTask
  <1>10. ASSUME NEW t \in Tasks, CancelTask(t, tasks[t].rev)
         PROVE  IInv'
    <2>1. /\ \A u \in Tasks : u # t => tasks'[u] = tasks[u]
          /\ tasks'[t].status = "CANCELLED"
          /\ tasks'[t].inst = None
          /\ tasks'[t].rev = tasks[t].rev + 1
      BY <1>10, RestEffect DEF CancelTask, IInv, TaskStatuses
    <2>2. RunsOnlyEnd /\ \A r \in Runs : IsC2C(r) => ~ActiveFor(r, t)'
      BY <1>10, FailEndsRuns DEF CancelTask
    <2> QED
      BY <1>1, <1>2, <1>10, <2>1, <2>2, RestKeeps DEF CancelTask
  <1>11. ASSUME NEW t \in Tasks, CloseTask(t, tasks[t].rev)
         PROVE  IInv'
    <2>1. /\ \A u \in Tasks : u # t => tasks'[u] = tasks[u]
          /\ tasks'[t].status = "CLOSED"
          /\ tasks'[t].inst = None
          /\ tasks'[t].rev = tasks[t].rev + 1
      BY <1>11, RestEffect DEF CloseTask, IInv, TaskStatuses
    <2>2. \A r \in Runs : IsC2C(r) => ~ActiveFor(r, t)
      BY <1>11, ReservedTask DEF CloseTask, CLOSABLE
    <2>3. RunsOnlyEnd /\ \A r \in Runs : IsC2C(r) => ~ActiveFor(r, t)'
      BY <1>11, <2>2 DEF CloseTask, RunsOnlyEnd, ActiveFor, Active
    <2> QED
      BY <1>1, <1>2, <1>11, <2>1, <2>3, RestKeeps DEF CloseTask
  <1>12. ASSUME NEW t \in Tasks, NEW git \in SeenSnapshots, CreateTask(t, git)
         PROVE  IInv'
    BY <1>3, <1>12 DEF CreateTask, SeenSnapshots, Snapshots
  <1>13. ASSUME NEW t \in Tasks, NEW c \in CheckpointIds,
                CreateDiagnosisFromCheckpoint(t, c, [head |-> c, clean |-> TRUE])
         PROVE  IInv'
    BY <1>3, <1>13 DEF CreateDiagnosisFromCheckpoint, AllCommits
  <1> QED
    BY <1>4, <1>5, <1>6, <1>7, <1>8, <1>9, <1>10, <1>11, <1>12, <1>13
       DEF TaskStep, SeenSnapshots

\* What a checkpoint transaction that leaves tasks and runs alone must keep.
LEMMA CheckpointRowKeeps ==
  ASSUME IInv, TypeOK', UNCHANGED <<tasks, runs>>
  PROVE  /\ SingleExecution' /\ ReservationHolds' /\ OneActiveRunPerTask'
         /\ ResultFromClaimant' /\ ClaimRecorded'
  BY DEF IInv, SingleExecution, ReservationHolds, OneActiveRunPerTask,
         ResultFromClaimant, ClaimRecorded, Running, Active, IsC2C

\* The transactions of checkpointTask.
LEMMA CheckpointStepKeeps == IInv /\ CheckpointStep => IInv'
  <1> SUFFICES ASSUME IInv, CheckpointStep PROVE IInv'
    OBVIOUS
  <1>1. TypeOK'
    BY CheckpointStepTypeOK DEF IInv
  <1>2. ASSUME NEW t \in Tasks, NEW p \in Purposes,
               PrepareCheckpoint(t, tasks[t].rev, p)
        PROVE  IInv'
    <2> DEFINE c == <<t, tasks[t].rev>>
    <2>1. /\ c \in CheckpointIds
          /\ c[1] = t /\ c[2] = tasks[t].rev
          /\ checkpoints'[c].state = "PREPARED"
          /\ checkpoints'[c].purpose = p
          /\ checkpoints'[c].prior = tasks[t].base
          /\ \A d \in CheckpointIds : d # c => checkpoints'[d] = checkpoints[d]
          /\ UNCHANGED <<tasks, runs>>
          /\ NoTaskRunning /\ NoActiveRun
          /\ PurposeFits(p, tasks[t].status)
          /\ \A d \in CheckpointIds : ~Unfinished(d)
      BY <1>2 DEF PrepareCheckpoint, IInv, TypeOK, NoRepositoryCheckpoint
    <2> HIDE DEF c
    <2>2. IntentExclusive'
      BY <2>1 DEF IntentExclusive, Unfinished, NoTaskRunning, NoActiveRun,
                  Running, Active
    <2>3. IntentPinsTask'
      BY <2>1 DEF IInv, IntentPinsTask, Unfinished, PurposeFits
    <2> QED
      BY <1>1, <2>1, <2>2, <2>3, CheckpointRowKeeps DEF IInv
  <1>3. ASSUME NEW c \in CheckpointIds, RecordGitApplied(c)
        PROVE  IInv'
    <2>1. /\ checkpoints'[c] = [checkpoints[c] EXCEPT !.state = "GIT_APPLIED"]
          /\ checkpoints[c].state \in {"PREPARED", "GIT_APPLIED"}
          /\ checkpoints'[c].state = "GIT_APPLIED"
          /\ checkpoints'[c].purpose = checkpoints[c].purpose
          /\ checkpoints'[c].prior = checkpoints[c].prior
          /\ \A d \in CheckpointIds : d # c => checkpoints'[d] = checkpoints[d]
          /\ UNCHANGED <<tasks, runs>>
      BY <1>3 DEF RecordGitApplied, IInv, TypeOK, CheckpointRow
    <2>2. IntentExclusive'
      BY <2>1 DEF IInv, IntentExclusive, Unfinished, NoTaskRunning, NoActiveRun,
                  Running, Active
    <2>3. IntentPinsTask'
      BY <2>1 DEF IInv, IntentPinsTask, PurposeFits
    <2> QED
      BY <1>1, <2>1, <2>2, <2>3, CheckpointRowKeeps DEF IInv
  <1>4. ASSUME NEW c \in CheckpointIds, FinalizeTask(c)
        PROVE  IInv'
    <2>1. c[1] \in Tasks /\ c[2] \in Nat
      BY CheckpointIdParts
    <2>2. /\ \A u \in Tasks : u # c[1] => tasks'[u] = tasks[u]
          /\ tasks'[c[1]].status = tasks[c[1]].status
          /\ tasks'[c[1]].inst = tasks[c[1]].inst
          /\ tasks'[c[1]].claimedBy = tasks[c[1]].claimedBy
          /\ tasks'[c[1]].resultBy = tasks[c[1]].resultBy
          /\ tasks'[c[1]].rev = tasks[c[1]].rev + 1
      BY <1>4, <2>1, RebaseEffect DEF FinalizeTask, IInv
    <2>3. /\ tasks[c[1]].rev = c[2]
          /\ checkpoints'[c].state = "FINALIZING"
          /\ \A d \in CheckpointIds : d # c => checkpoints'[d] = checkpoints[d]
          /\ \A d \in CheckpointIds : Unfinished(d) => d = c
          /\ NoActiveRun
          /\ runs' = runs
      BY <1>4 DEF FinalizeTask, RecoveryExclusive, IInv, TypeOK, CheckpointRow
    <2>4. SingleExecution'
      BY <2>2 DEF IInv, SingleExecution, Running
    <2>5. IntentExclusive'
      BY <2>3 DEF IntentExclusive, Unfinished
    <2>6. IntentPinsTask'
      <3>1. ASSUME NEW d \in CheckpointIds,
                   checkpoints'[d].state \in {"FINALIZING", "FINALIZED"}
            PROVE  tasks'[d[1]].rev > d[2]
        <4>1. d[1] \in Tasks /\ d[2] \in Nat
          BY CheckpointIdParts
        <4>2. tasks[d[1]].rev \in Nat
          BY <4>1 DEF IInv, TypeOK, TaskRow
        <4>3. CASE d = c
          BY <2>1, <2>2, <2>3, <4>2, <4>3
        <4>4. CASE d # c
          <5>1. tasks[d[1]].rev > d[2]
            BY <2>3, <3>1, <4>4 DEF IInv, IntentPinsTask
          <5> QED
            BY <2>2, <4>1, <4>2, <5>1
        <4> QED
          BY <4>3, <4>4
      <3>2. \A d \in CheckpointIds :
              checkpoints'[d].state \notin {"PREPARED", "GIT_APPLIED"}
        BY <2>3 DEF Unfinished
      <3> QED
        BY <3>1, <3>2 DEF IntentPinsTask
    <2>7. ReservationHolds' /\ OneActiveRunPerTask'
      BY <2>3 DEF ReservationHolds, OneActiveRunPerTask, NoActiveRun, Active
    <2>8. ResultFromClaimant'
      BY <2>2 DEF IInv, ResultFromClaimant
    <2>9. ClaimRecorded'
      <3>1. tasks[c[1]].status # "ABSENT"
        BY <1>4, <2>1, <2>3 DEF FinalizeTask, IInv, IntentPinsTask, PurposeFits
      <3> QED
        BY <2>2, <2>3, <3>1 DEF IInv, ClaimRecorded, Running
    <2> QED
      BY <1>1, <2>4, <2>5, <2>6, <2>7, <2>8, <2>9 DEF IInv
  <1>5. ASSUME NEW c \in CheckpointIds, MarkFinalized(c) \/ ReopenCheckpoint(c)
        PROVE  IInv'
    <2>1. /\ checkpoints[c].state \in {"FINALIZING", "FINALIZED"}
          /\ checkpoints'[c].state \in {"FINALIZING", "FINALIZED"}
          /\ \A d \in CheckpointIds : d # c => checkpoints'[d] = checkpoints[d]
          /\ \A d \in CheckpointIds : Unfinished(d) => d = c
          /\ UNCHANGED <<tasks, runs>>
      BY <1>5 DEF MarkFinalized, ReopenCheckpoint, RecoveryExclusive, IInv,
                  TypeOK, CheckpointRow
    <2>2. IntentExclusive'
      BY <2>1 DEF IntentExclusive, Unfinished
    <2>3. IntentPinsTask'
      BY <2>1 DEF IInv, IntentPinsTask, Unfinished
    <2> QED
      BY <1>1, <2>1, <2>2, <2>3, CheckpointRowKeeps DEF IInv
  <1> QED
    BY <1>2, <1>3, <1>4, <1>5 DEF CheckpointStep

\* The writes of dispatch_runs.
LEMMA RunStepKeeps == IInv /\ RunStep => IInv'
  <1> SUFFICES ASSUME IInv, RunStep PROVE IInv'
    OBVIOUS
  <1>1. TypeOK'
    BY RunStepTypeOK DEF IInv
  <1>2. ASSUME NEW r \in Runs, NEW t \in Tasks, NEW n \in Nat,
               runs[r].status = "absent", NoActiveRunFor(t),
               NoRepositoryCheckpoint, UNCHANGED <<tasks, checkpoints>>,
               n # 0 => tasks[t].status = "READY" /\ tasks[t].rev = n,
               runs' = [runs EXCEPT ![r] = [status |-> "launching", task |-> t,
                                            accepted |-> n]]
        PROVE  IInv'
    <2>1. /\ runs'[r] = [status |-> "launching", task |-> t, accepted |-> n]
          /\ \A s \in Runs : s # r => runs'[s] = runs[s]
      BY <1>2 DEF IInv, TypeOK
    <2>2. ReservationHolds'
      BY <1>2, <2>1 DEF IInv, ReservationHolds, IsC2C
    <2>3. OneActiveRunPerTask'
      BY <1>2, <2>1 DEF IInv, OneActiveRunPerTask, Active, NoActiveRunFor, ActiveFor
    <2>4. ClaimRecorded'
      BY <1>2, <2>1 DEF IInv, ClaimRecorded, Running
    <2> QED
      BY <1>1, <1>2, <2>2, <2>3, <2>4, FencedRunStep DEF IInv
  <1>3. ASSUME NEW r \in Runs, NEW t \in Tasks, InsertRun(r, t)
        PROVE  IInv'
    BY <1>2, <1>3 DEF InsertRun
  <1>4. ASSUME NEW r \in Runs, NEW t \in Tasks, InsertC2CRun(r, t, tasks[t].rev)
        PROVE  IInv'
    <2>1. tasks[t].rev \in Nat
      BY DEF IInv, TypeOK, TaskRow
    <2> QED
      BY <1>2, <1>4, <2>1 DEF InsertC2CRun
  <1>5. ASSUME NEW r \in Runs, NEW status \in RunStatuses, OverwriteRun(r, status)
        PROVE  IInv'
    <2>1. /\ runs'[r].status = status
          /\ runs'[r].task = runs[r].task
          /\ runs'[r].accepted = runs[r].accepted
          /\ \A s \in Runs : s # r => runs'[s] = runs[s]
          /\ status # "absent"
      BY <1>5 DEF OverwriteRun, IInv, TypeOK, RunRow, RunStatuses
    <2>2. ReservationHolds'
      BY <1>5, <2>1 DEF OverwriteRun, IInv, ReservationHolds, IsC2C
    <2>3. OneActiveRunPerTask'
      BY <1>5, <2>1 DEF OverwriteRun, IInv, OneActiveRunPerTask, Active, ActiveFor
    <2>4. ClaimRecorded'
      BY <1>5, <2>1 DEF OverwriteRun, IInv, ClaimRecorded, Running
    <2> QED
      BY <1>1, <1>5, <2>2, <2>3, <2>4, FencedRunStep DEF IInv, OverwriteRun
  <1>6. ASSUME NEW r \in Runs, ClaimC2CDispatchTask(r, AtBase(runs[r].task))
        PROVE  IInv'
    <2> DEFINE t == runs[r].task
    <2>1. t \in Tasks /\ r \in Instances
      BY <1>6 DEF ClaimC2CDispatchTask, IInv, ClaimRecorded, Instances
    <2>2. \A s \in Runs : ActiveFor(s, t) /\ IsC2C(s) => s = r
      BY <1>6 DEF ClaimC2CDispatchTask, IInv, OneActiveRunPerTask, ActiveFor, Active
    <2> QED
      BY <1>1, <1>6, <2>1, <2>2, ClaimKeeps DEF ClaimC2CDispatchTask
  <1>7. ASSUME NEW r \in Runs, FailC2CDispatchBeforeClaim(r)
        PROVE  IInv'
    <2>1. /\ runs'[r].status = "failed"
          /\ runs'[r].task = runs[r].task
          /\ runs[r].status = "launching"
          /\ \A s \in Runs : s # r => runs'[s] = runs[s]
      BY <1>7 DEF FailC2CDispatchBeforeClaim, IInv, TypeOK, RunRow
    <2>2. ReservationHolds'
      BY <1>7, <2>1 DEF FailC2CDispatchBeforeClaim, IInv, ReservationHolds, IsC2C
    <2>3. OneActiveRunPerTask'
      BY <2>1 DEF IInv, OneActiveRunPerTask, Active
    <2>4. ClaimRecorded'
      BY <1>7, <2>1 DEF FailC2CDispatchBeforeClaim, IInv, ClaimRecorded, Running
    <2> QED
      BY <1>1, <1>7, <2>2, <2>3, <2>4, FencedRunStep
         DEF IInv, FailC2CDispatchBeforeClaim
  <1> QED
    BY <1>3, <1>4, <1>5, <1>6, <1>7 DEF RunStep

\* The empty ledger.
LEMMA InitIInv == Init => IInv
  <1> SUFFICES ASSUME Init PROVE IInv
    OBVIOUS
  <1>1. TypeOK
    BY InitTypeOK
  <1>2. /\ \A t \in Tasks : tasks[t] = NoTask
        /\ \A r \in Runs : runs[r] = NoRun
        /\ \A c \in CheckpointIds : checkpoints[c] = NoCheckpoint
    BY DEF Init
  <1>3. SingleExecution /\ ResultFromClaimant
    BY <1>2 DEF SingleExecution, ResultFromClaimant, NoTask, Running
  <1>4. IntentExclusive /\ IntentPinsTask
    BY <1>2 DEF IntentExclusive, IntentPinsTask, NoCheckpoint
  <1>5. ReservationHolds /\ OneActiveRunPerTask
    BY <1>2 DEF ReservationHolds, OneActiveRunPerTask, NoRun, Active
  <1>6. ClaimRecorded
    BY <1>2, LedgerAssumption DEF ClaimRecorded, NoTask, NoRun, Running, Instances
  <1> QED
    BY <1>1, <1>3, <1>4, <1>5, <1>6 DEF IInv

\* No transaction breaks them.
LEMMA NextIInv == IInv /\ [Next]_ledger => IInv'
  <1>1. IInv /\ UNCHANGED ledger => IInv'
    BY DEF IInv, ledger, TypeOK, SingleExecution, IntentExclusive, IntentPinsTask,
           ReservationHolds, OneActiveRunPerTask, ResultFromClaimant,
           ClaimRecorded, Running, Active, IsC2C, Unfinished, NoTaskRunning,
           NoActiveRun, PurposeFits
  <1> QED
    BY <1>1, TaskStepKeeps, CheckpointStepKeeps, RunStepKeeps DEF Next

\* The invariants of the ledger hold together in every reachable state.
THEOREM Safety == Spec => []IInv
  BY InitIInv, NextIInv, PTL DEF Spec

-----------------------------------------------------------------------------
(* The parts of IInv the runs check *)

\* No two tasks ever execute at once.
COROLLARY SingleExecutionHolds == Spec => []SingleExecution
  <1>1. IInv => SingleExecution
    BY DEF IInv
  <1> QED
    BY <1>1, Safety, PTL

\* An intent without a recorded commit has the repository to itself.
COROLLARY IntentExclusiveHolds == Spec => []IntentExclusive
  <1>1. IInv => IntentExclusive
    BY DEF IInv
  <1> QED
    BY <1>1, Safety, PTL

\* An intent and its task stay in step across retries of the finalization.
COROLLARY IntentPinsTaskHolds == Spec => []IntentPinsTask
  <1>1. IInv => IntentPinsTask
    BY DEF IInv
  <1> QED
    BY <1>1, Safety, PTL

\* A C2C delegation keeps its task reserved until its runner claims it.
COROLLARY ReservationHoldsAlways == Spec => []ReservationHolds
  <1>1. IInv => ReservationHolds
    BY DEF IInv
  <1> QED
    BY <1>1, Safety, PTL

\* A stored result was reported by the instance of the last claim.
COROLLARY ResultFromClaimantHolds == Spec => []ResultFromClaimant
  <1>1. IInv => ResultFromClaimant
    BY DEF IInv
  <1> QED
    BY <1>1, Safety, PTL

\* A task never has two active runs.
COROLLARY OneActiveRunPerTaskHolds == Spec => []OneActiveRunPerTask
  <1>1. IInv => OneActiveRunPerTask
    BY DEF IInv
  <1> QED
    BY <1>1, Safety, PTL

-----------------------------------------------------------------------------
(* Action properties *)

\* A recorded checkpoint is never forgotten and its commit stays recorded.
THEOREM CheckpointProgressHolds == Spec => CheckpointProgress
  <1>1. TypeOK /\ [Next]_ledger => [\A c \in CheckpointIds : Kept(c)]_checkpoints
    <2> SUFFICES ASSUME TypeOK, [Next]_ledger, NEW c \in CheckpointIds,
                        checkpoints' # checkpoints
                 PROVE  Kept(c)
      OBVIOUS
    <2>1. CheckpointStep
      BY DEF Next, ledger, TaskStep, RunStep, CreateTask,
         CreateDiagnosisFromCheckpoint, ClaimTask, ClaimNextTask, ReportResult,
         ReportBlocked, RecoverTask, ResumeTask, CancelTask, CloseTask,
         InsertRun, InsertC2CRun, OverwriteRun, ClaimC2CDispatchTask,
         FailC2CDispatchBeforeClaim
    <2>2. ASSUME NEW t \in Tasks, NEW p \in Purposes,
                 PrepareCheckpoint(t, tasks[t].rev, p)
          PROVE  Kept(c)
      BY <2>2 DEF PrepareCheckpoint, Kept, TypeOK
    <2>3. ASSUME NEW d \in CheckpointIds,
                 \/ RecordGitApplied(d) \/ FinalizeTask(d)
                 \/ MarkFinalized(d) \/ ReopenCheckpoint(d)
          PROVE  Kept(c)
      BY <2>3 DEF RecordGitApplied, FinalizeTask, MarkFinalized,
         ReopenCheckpoint, Kept, TypeOK, CheckpointRow
    <2> QED
      BY <2>1, <2>2, <2>3 DEF CheckpointStep
  <1> QED
    BY <1>1, TypeCorrect, PTL DEF Spec, CheckpointProgress

\* The base of a task moves only on creation, resumption and finalization.
THEOREM BaseIsPinnedHolds == Spec => BaseIsPinned
  <1>1. IInv /\ [Next]_ledger => [\A t \in Tasks : BaseMove(t)]_tasks
    <2> SUFFICES ASSUME IInv, [Next]_ledger, NEW t \in Tasks,
                        tasks'[t].base # tasks[t].base
                 PROVE  BaseMove(t)
      BY DEF BaseMove
    <2>1. ASSUME NEW u \in Tasks, NEW b \in AllCommits,
                 NEW s \in CheckpointIds \cup {None}, tasks[u].status = "ABSENT",
                 tasks' = [tasks EXCEPT ![u] = FreshTask(b, s)]
          PROVE  BaseMove(t)
      BY <2>1, CreateEffect DEF BaseMove, IInv
    <2>2. ASSUME NEW u \in Tasks, NEW i \in Instances, UpdateTask(u, Claimed(u, i))
          PROVE  FALSE
      BY <2>2, ClaimEffect DEF IInv
    <2>3. ASSUME NEW u \in Tasks, NEW st \in TaskStatuses,
                 UpdateTask(u, [tasks[u] EXCEPT !.status = st, !.inst = None])
          PROVE  FALSE
      BY <2>3, RestEffect DEF IInv
    <2>4. CASE TaskStep
      <3>1. ASSUME NEW u \in Tasks, NEW git \in SeenSnapshots, CreateTask(u, git)
            PROVE  BaseMove(t)
        BY <2>1, <3>1 DEF CreateTask, SeenSnapshots, Snapshots
      <3>2. ASSUME NEW u \in Tasks, NEW c \in CheckpointIds,
                   CreateDiagnosisFromCheckpoint(u, c, [head |-> c, clean |-> TRUE])
            PROVE  BaseMove(t)
        BY <2>1, <3>2 DEF CreateDiagnosisFromCheckpoint, AllCommits
      <3>3. ASSUME NEW u \in Tasks, NEW i \in Instances,
                   ClaimTask(u, i, tasks[u].rev, AtBase(u))
            PROVE  FALSE
        BY <2>2, <3>3 DEF ClaimTask
      <3>4. ASSUME NEW u \in Tasks, NEW i \in Workers,
                   ClaimNextTask(u, i, AtBase(u))
            PROVE  FALSE
        BY <2>2, <3>4 DEF ClaimNextTask, Instances
      <3>5. ASSUME NEW u \in Tasks, NEW i \in Instances,
                   NEW outcome \in {"COMPLETED", "FAILED"},
                   ReportResult(u, i, tasks[u].rev, outcome)
            PROVE  FALSE
        BY <3>5, ReportEffect DEF ReportResult, IInv
      <3>6. ASSUME NEW u \in Tasks,
                   \/ \E i \in Instances : ReportBlocked(u, i, tasks[u].rev)
                   \/ RecoverTask(u, tasks[u].rev)
                   \/ CancelTask(u, tasks[u].rev)
                   \/ CloseTask(u, tasks[u].rev)
            PROVE  FALSE
        BY <2>3, <3>6 DEF ReportBlocked, RecoverTask, CancelTask, CloseTask,
           TaskStatuses
      <3>7. ASSUME NEW u \in Tasks, NEW git \in SeenSnapshots,
                   ResumeTask(u, tasks[u].rev, git)
            PROVE  BaseMove(t)
        BY <3>7, ResumeEffect DEF ResumeTask, IInv, SeenSnapshots, BaseMove
      <3> QED
        BY <2>4, <3>1, <3>2, <3>3, <3>4, <3>5, <3>6, <3>7 DEF TaskStep
    <2>5. CASE CheckpointStep
      <3>1. PICK c \in CheckpointIds : FinalizeTask(c)
        BY <2>5 DEF CheckpointStep, PrepareCheckpoint, RecordGitApplied,
           MarkFinalized, ReopenCheckpoint
      <3>2. c[1] \in Tasks /\ c = <<c[1], c[2]>>
        BY CheckpointIdParts
      <3>3. /\ \A u \in Tasks : u # c[1] => tasks'[u] = tasks[u]
            /\ tasks'[c[1]].status = tasks[c[1]].status
            /\ tasks'[c[1]].base = c
        BY <3>1, <3>2, RebaseEffect DEF FinalizeTask, IInv
      <3>4. checkpoints'[c].state = "FINALIZING" /\ tasks[c[1]].rev = c[2]
        BY <3>1 DEF FinalizeTask, IInv, TypeOK, CheckpointRow
      <3>5. tasks[c[1]].status \in RESUMABLE
        BY <3>1 DEF FinalizeTask, IInv, IntentPinsTask, PurposeFits, RESUMABLE
      <3> QED
        BY <3>2, <3>3, <3>4, <3>5 DEF BaseMove
    <2>6. CASE RunStep
      <3>1. PICK r \in Runs : ClaimC2CDispatchTask(r, AtBase(runs[r].task))
        BY <2>6 DEF RunStep, InsertRun, InsertC2CRun, OverwriteRun,
           FailC2CDispatchBeforeClaim
      <3>2. runs[r].task \in Tasks /\ r \in Instances
        BY <3>1 DEF ClaimC2CDispatchTask, IInv, ClaimRecorded, Instances
      <3> QED
        BY <2>2, <3>1, <3>2 DEF ClaimC2CDispatchTask
    <2>7. CASE UNCHANGED ledger
      BY <2>7 DEF ledger
    <2> QED
      BY <2>4, <2>5, <2>6, <2>7 DEF Next
  <1> QED
    BY <1>1, Safety, PTL DEF Spec, BaseIsPinned

-----------------------------------------------------------------------------
(* For the modules whose processes issue these transactions *)

\* A run that delegation created keeps its task and its accepted plan.
RunStays(r) ==
  runs[r].status # "absent" =>
    /\ runs'[r].status # "absent"
    /\ runs'[r].task = runs[r].task
    /\ runs'[r].accepted = runs[r].accepted

LEMMA RunsStay == TypeOK /\ [Next]_ledger => \A r \in Runs : RunStays(r)
  <1> SUFFICES ASSUME TypeOK, [Next]_ledger, NEW r \in Runs PROVE RunStays(r)
    OBVIOUS
  <1>1. CASE UNCHANGED runs
    BY <1>1 DEF RunStays
  <1>2. ASSUME NEW i, NEW t, NEW st \in RunStatuses, UpdateRunOf(i, t, st)
        PROVE  RunStays(r)
    BY <1>2 DEF UpdateRunOf, RunStays, TypeOK, RunRow, RunStatuses
  <1>3. ASSUME NEW t, FailActiveRunsOf(t)
        PROVE  RunStays(r)
    BY <1>3 DEF FailActiveRunsOf, RunStays, TypeOK, RunRow
  <1>4. {"running", "completed", "blocked"} \subseteq RunStatuses
    BY DEF RunStatuses
  <1>5. CASE TaskStep
    BY <1>1, <1>2, <1>3, <1>4, <1>5
       DEF TaskStep, CreateTask, CreateDiagnosisFromCheckpoint, ClaimTask,
           ClaimNextTask, ReportResult, ReportBlocked, RecoverTask, ResumeTask,
           CancelTask, CloseTask
  <1>6. CASE CheckpointStep
    BY <1>1, <1>6 DEF CheckpointStep, PrepareCheckpoint, RecordGitApplied,
       FinalizeTask, MarkFinalized, ReopenCheckpoint
  <1>7. CASE RunStep
    <2>1. ASSUME NEW s \in Runs, NEW t \in Tasks,
                 InsertRun(s, t) \/ InsertC2CRun(s, t, tasks[t].rev)
          PROVE  RunStays(r)
      BY <2>1 DEF InsertRun, InsertC2CRun, RunStays, TypeOK, RunRow
    <2>2. ASSUME NEW s \in Runs,
                 \/ \E st \in RunStatuses : OverwriteRun(s, st)
                 \/ FailC2CDispatchBeforeClaim(s)
          PROVE  RunStays(r)
      BY <2>2 DEF OverwriteRun, FailC2CDispatchBeforeClaim, RunStays, TypeOK,
         RunRow, RunStatuses
    <2>3. ASSUME NEW s \in Runs, ClaimC2CDispatchTask(s, AtBase(runs[s].task))
          PROVE  RunStays(r)
      BY <1>2, <1>4, <2>3 DEF ClaimC2CDispatchTask
    <2> QED
      BY <1>7, <2>1, <2>2, <2>3 DEF RunStep
  <1> QED
    BY <1>1, <1>5, <1>6, <1>7 DEF Next, ledger

\* What a step may do to the owner and the base of task t.
OwnerMove(t) ==
  LET old == tasks[t]  new == tasks'[t] IN
  \/ new = old
  \/ /\ new.inst = None
     /\ \/ old.status # "ABSENT" /\ new.base = old.base
        \/ \E git \in SeenSnapshots : new.base = git.head
        \/ \E c \in CheckpointIds : Finalized(c) /\ new.base = c
  \/ /\ old.status # "ABSENT"
     /\ new.base = old.base
     /\ new.inst \in Runs => runs'[new.inst].status = "running"
  \/ /\ new.inst = old.inst
     /\ new.base \in CheckpointIds
     /\ checkpoints'[new.base].state = "FINALIZING"

LEMMA OwnerMoves == IInv /\ [Next]_ledger => \A t \in Tasks : OwnerMove(t)
  <1> SUFFICES ASSUME IInv, [Next]_ledger, NEW t \in Tasks PROVE OwnerMove(t)
    OBVIOUS
  <1>1. CASE UNCHANGED tasks
    BY <1>1 DEF OwnerMove
  <1>2. ASSUME NEW u \in Tasks, NEW b \in AllCommits,
               NEW s \in CheckpointIds \cup {None},
               tasks' = [tasks EXCEPT ![u] = FreshTask(b, s)],
               \/ \E git \in SeenSnapshots : b = git.head
               \/ b \in CheckpointIds /\ Finalized(b)
        PROVE  OwnerMove(t)
    <2>1. /\ \A v \in Tasks : v # u => tasks'[v] = tasks[v]
          /\ tasks'[u].inst = None
          /\ tasks'[u].base = b
      BY <1>2, CreateEffect DEF IInv
    <2> QED
      BY <1>2, <2>1 DEF OwnerMove
  <1>3. ASSUME NEW u \in Tasks, NEW i \in Instances, tasks[u].status = "READY",
               UpdateTask(u, Claimed(u, i)), UpdateRunOf(i, u, "running")
        PROVE  OwnerMove(t)
    <2>1. i \in Runs => runs'[i].status = "running"
      BY <1>3 DEF UpdateRunOf, IInv, TypeOK, RunRow
    <2> QED
      BY <1>3, <2>1, ClaimEffect DEF OwnerMove, IInv
  <1>4. ASSUME NEW u \in Tasks, NEW i \in Instances,
               NEW outcome \in {"COMPLETED", "FAILED"},
               ReportResult(u, i, tasks[u].rev, outcome)
        PROVE  OwnerMove(t)
    BY <1>4, ReportEffect DEF ReportResult, Running, OwnerMove, IInv
  <1>5. ASSUME NEW u \in Tasks,
               \/ \E i \in Instances : ReportBlocked(u, i, tasks[u].rev)
               \/ RecoverTask(u, tasks[u].rev)
               \/ CancelTask(u, tasks[u].rev)
               \/ CloseTask(u, tasks[u].rev)
        PROVE  OwnerMove(t)
    <2>1. tasks[u].status # "ABSENT"
      BY <1>5 DEF ReportBlocked, RecoverTask, CancelTask, CloseTask, Running,
         CANCELLABLE, CLOSABLE
    <2>2. ASSUME NEW st \in TaskStatuses,
                 UpdateTask(u, [tasks[u] EXCEPT !.status = st, !.inst = None])
          PROVE  OwnerMove(t)
      BY <2>1, <2>2, RestEffect DEF OwnerMove, IInv
    <2> QED
      BY <1>5, <2>2 DEF ReportBlocked, RecoverTask, CancelTask, CloseTask,
         TaskStatuses
  <1>6. ASSUME NEW u \in Tasks, NEW git \in SeenSnapshots,
               ResumeTask(u, tasks[u].rev, git)
        PROVE  OwnerMove(t)
    BY <1>6, ResumeEffect DEF ResumeTask, SeenSnapshots, OwnerMove, IInv
  <1>7. ASSUME NEW c \in CheckpointIds, FinalizeTask(c)
        PROVE  OwnerMove(t)
    <2>1. c[1] \in Tasks /\ checkpoints'[c].state = "FINALIZING"
      BY <1>7, CheckpointIdParts DEF FinalizeTask, IInv, TypeOK, CheckpointRow
    <2> QED
      BY <1>7, <2>1, RebaseEffect DEF FinalizeTask, OwnerMove, IInv
  <1>8. CASE TaskStep
    <2>1. ASSUME NEW u \in Tasks, NEW git \in SeenSnapshots, CreateTask(u, git)
          PROVE  OwnerMove(t)
      BY <1>2, <2>1 DEF CreateTask, SeenSnapshots, Snapshots
    <2>2. ASSUME NEW u \in Tasks, NEW c \in CheckpointIds,
                 CreateDiagnosisFromCheckpoint(u, c, [head |-> c, clean |-> TRUE])
          PROVE  OwnerMove(t)
      BY <1>2, <2>2 DEF CreateDiagnosisFromCheckpoint, AllCommits
    <2>3. ASSUME NEW u \in Tasks, NEW i \in Instances,
                 ClaimTask(u, i, tasks[u].rev, AtBase(u))
          PROVE  OwnerMove(t)
      BY <1>3, <2>3 DEF ClaimTask
    <2>4. ASSUME NEW u \in Tasks, NEW i \in Workers, ClaimNextTask(u, i, AtBase(u))
          PROVE  OwnerMove(t)
      <3>1. i \in Instances /\ UpdateRunOf(i, u, "running")
        BY <2>4, LedgerAssumption DEF ClaimNextTask, UpdateRunOf, Instances
      <3> QED
        BY <1>3, <2>4, <3>1 DEF ClaimNextTask
    <2> QED
      BY <1>4, <1>5, <1>6, <1>8, <2>1, <2>2, <2>3, <2>4 DEF TaskStep
  <1>9. CASE CheckpointStep
    BY <1>1, <1>7, <1>9 DEF CheckpointStep, PrepareCheckpoint, RecordGitApplied,
       MarkFinalized, ReopenCheckpoint
  <1>10. CASE RunStep
    <2>1. ASSUME NEW r \in Runs, ClaimC2CDispatchTask(r, AtBase(runs[r].task))
          PROVE  OwnerMove(t)
      <3>1. runs[r].task \in Tasks /\ r \in Instances
        BY <2>1 DEF ClaimC2CDispatchTask, IInv, ClaimRecorded, Instances
      <3> QED
        BY <1>3, <2>1, <3>1 DEF ClaimC2CDispatchTask
    <2> QED
      BY <1>1, <1>10, <2>1 DEF RunStep, InsertRun, InsertC2CRun, OverwriteRun,
         FailC2CDispatchBeforeClaim
  <1> QED
    BY <1>1, <1>8, <1>9, <1>10 DEF Next, ledger

\* The base of a task is a commit of the branch or a planned checkpoint.
Planned(base) ==
  /\ base \in AllCommits
  /\ base \in CheckpointIds => checkpoints[base].state # "ABSENT"

BasesArePlanned ==
  \A t \in Tasks : tasks[t].status # "ABSENT" => Planned(tasks[t].base)

LEMMA BasesStayPlanned ==
  IInv /\ BasesArePlanned /\ [Next]_ledger => BasesArePlanned'
  <1> SUFFICES ASSUME IInv, BasesArePlanned, [Next]_ledger, NEW t \in Tasks,
                      tasks'[t].status # "ABSENT"
               PROVE  Planned(tasks[t].base)'
    BY DEF BasesArePlanned
  <1>1. \A c \in CheckpointIds :
          checkpoints[c].state # "ABSENT" => checkpoints'[c].state # "ABSENT"
    <2>1. CASE CheckpointStep
      BY <2>1 DEF CheckpointStep, PrepareCheckpoint, RecordGitApplied,
         FinalizeTask, MarkFinalized, ReopenCheckpoint, IInv, TypeOK, CheckpointRow
    <2>2. CASE UNCHANGED checkpoints
      BY <2>2
    <2> QED
      BY <2>1, <2>2 DEF Next, ledger, TaskStep, RunStep, CreateTask,
         CreateDiagnosisFromCheckpoint, ClaimTask, ClaimNextTask, ReportResult,
         ReportBlocked, RecoverTask, ResumeTask, CancelTask, CloseTask, InsertRun,
         InsertC2CRun, OverwriteRun, ClaimC2CDispatchTask, FailC2CDispatchBeforeClaim
  <1>2. \A base : Planned(base) => Planned(base)'
    BY <1>1 DEF Planned
  <1>3. \A git \in SeenSnapshots : Planned(git.head)
    BY DEF SeenSnapshots, Snapshots, Planned
  <1>4. \A c \in CheckpointIds : Finalized(c) => Planned(c)
    BY DEF Finalized, Planned, AllCommits
  <1>5. OwnerMove(t)
    BY OwnerMoves
  <1>6. tasks'[t].base \in CheckpointIds /\ checkpoints'[tasks'[t].base].state = "FINALIZING"
          => Planned(tasks[t].base)'
    BY DEF Planned, AllCommits
  <1> QED
    BY <1>2, <1>3, <1>4, <1>5, <1>6 DEF OwnerMove, BasesArePlanned

\* A C2C run that owns a task shows it: its row is running.
C2COwnersRun ==
  \A t \in Tasks, r \in Runs :
    IsC2C(r) /\ tasks[t].inst = r => runs[r].status = "running"

LEMMA C2COwnersStay == IInv /\ C2COwnersRun /\ [Next]_ledger => C2COwnersRun'
  <1> SUFFICES ASSUME IInv, C2COwnersRun, [Next]_ledger, NEW t \in Tasks,
                      NEW r \in Runs, IsC2C(r)', tasks'[t].inst = r,
                      runs'[r].status # "running"
               PROVE  FALSE
    BY DEF C2COwnersRun
  <1>1. OwnerMove(t) /\ r # None
    BY OwnerMoves, LedgerAssumption DEF Instances
  <1>2. tasks[t].inst = r
    BY <1>1 DEF OwnerMove
  <1>3. runs[r].status # "absent" /\ runs[r].task = t /\ Running(t)
    BY <1>1, <1>2 DEF IInv, ClaimRecorded, SingleExecution
  <1>4. RunStays(r)
    BY RunsStay DEF IInv
  <1>5. IsC2C(r) /\ runs[r].status = "running"
    BY <1>2, <1>3, <1>4 DEF RunStays, IsC2C, C2COwnersRun
  <1>6. ASSUME NEW u \in Tasks, tasks[u].inst = r, tasks'[u].inst = None
        PROVE  FALSE
    BY <1>1, <1>3, <1>6 DEF IInv, ClaimRecorded
  <1>7. ASSUME NEW i, NEW u \in Tasks, NEW st, UpdateRunOf(i, u, st),
               tasks[u].inst = i
        PROVE  i = r
    BY <1>5, <1>7 DEF UpdateRunOf, IInv, TypeOK
  <1>8. CASE TaskStep
    <2>1. ASSUME NEW u \in Tasks, FailActiveRunsOf(u) PROVE u = t
      BY <1>3, <1>5, <2>1 DEF FailActiveRunsOf, ActiveFor
    <2>2. ASSUME NEW u \in Tasks, NEW i \in Instances, UpdateRunOf(i, u, "running")
          PROVE  FALSE
      BY <1>5, <2>2 DEF UpdateRunOf, IInv, TypeOK, RunRow
    <2>3. ASSUME NEW u \in Tasks,
                 RecoverTask(u, tasks[u].rev) \/ CancelTask(u, tasks[u].rev)
          PROVE  FALSE
      <3>1. u = t
        BY <2>1, <2>3 DEF RecoverTask, CancelTask
      <3>2. tasks'[u].inst = None
        BY <2>3, RestEffect DEF RecoverTask, CancelTask, IInv, TaskStatuses
      <3> QED
        BY <1>2, <1>6, <3>1, <3>2
    <2>4. ASSUME NEW u \in Tasks, NEW i \in Instances,
                 \/ \E st \in {"COMPLETED", "FAILED"} :
                      ReportResult(u, i, tasks[u].rev, st)
                 \/ ReportBlocked(u, i, tasks[u].rev)
          PROVE  FALSE
      <3>1. i = r /\ tasks[u].inst = i
        BY <1>7, <2>4 DEF ReportResult, ReportBlocked
      <3>2. tasks'[u].inst = None
        BY <2>4, RestEffect, ReportEffect DEF ReportResult, ReportBlocked, IInv,
           TaskStatuses
      <3> QED
        BY <1>6, <3>1, <3>2
    <2> QED
      BY <1>5, <1>8, <2>2, <2>3, <2>4 DEF TaskStep, CreateTask,
         CreateDiagnosisFromCheckpoint, ClaimTask, ClaimNextTask, ResumeTask,
         CloseTask
  <1>9. CASE RunStep
    <2>1. ASSUME NEW s \in Runs,
                 \/ \E u \in Tasks : InsertRun(s, u) \/ InsertC2CRun(s, u, tasks[u].rev)
                 \/ \E st \in RunStatuses : OverwriteRun(s, st)
                 \/ FailC2CDispatchBeforeClaim(s)
          PROVE  runs'[r] = runs[r]
      BY <1>3, <1>5, <2>1 DEF InsertRun, InsertC2CRun, OverwriteRun,
         FailC2CDispatchBeforeClaim, IInv, TypeOK, RunRow
    <2>2. ASSUME NEW s \in Runs, ClaimC2CDispatchTask(s, AtBase(runs[s].task))
          PROVE  FALSE
      BY <1>5, <2>2 DEF ClaimC2CDispatchTask, UpdateRunOf, IInv, TypeOK, RunRow
    <2> QED
      BY <1>5, <1>9, <2>1, <2>2 DEF RunStep
  <1> QED
    BY <1>5, <1>8, <1>9 DEF Next, ledger, CheckpointStep, PrepareCheckpoint,
       RecordGitApplied, FinalizeTask, MarkFinalized, ReopenCheckpoint

\* All of it is inductive, so a module whose steps are transactions has it.
LInv == IInv /\ BasesArePlanned /\ C2COwnersRun

LEMMA InitLInv == Init => LInv
  <1>1. Init => BasesArePlanned
    BY DEF Init, BasesArePlanned, NoTask
  <1>2. Init => C2COwnersRun
    BY DEF Init, C2COwnersRun, IsC2C, NoRun
  <1> QED
    BY <1>1, <1>2, InitIInv DEF LInv

LEMMA StepKeepsLInv == LInv /\ [Next]_ledger => LInv'
  BY NextIInv, BasesStayPlanned, C2COwnersStay DEF LInv

-----------------------------------------------------------------------------
(* Refinement of Lifecycle *)

\* The executor of the abstract lifecycle is the RUNNING task, if there is one.
LEMMA ExecutorIs ==
  ASSUME SingleExecution
  PROVE  /\ \A t \in Tasks : Running(t) => Executor = t
         /\ NoTaskRunning => Executor = None
  BY DEF SingleExecution, Executor, NoTaskRunning

\* A step that changes one task at most is a Move of the abstract lifecycle.
LEMMA StatusMoves ==
  ASSUME NEW t \in Tasks, \A u \in Tasks : u # t => tasks'[u] = tasks[u]
  PROVE  [u \in Tasks |-> tasks'[u].status]
           = [[u \in Tasks |-> tasks[u].status] EXCEPT ![t] = tasks'[t].status]
  OBVIOUS

\* The transitions of a task that do not take the lock.
MayFollow(old, new) ==
  \/ old = new
  \/ old = "ABSENT" /\ new = "READY"
  \/ old = "RUNNING" /\ new \in {"COMPLETED", "FAILED", "BLOCKED", "CANCELLED"}
  \/ old \in {"BLOCKED", "FAILED", "COMPLETED"} /\ new \in {"READY", "CANCELLED"}
  \/ old = "READY" /\ new = "CANCELLED"
  \/ old \in {"COMPLETED", "FAILED", "CANCELLED"} /\ new = "CLOSED"

\* What a step of the ledger does to the statuses, if it does anything.
Steps(t) ==
  /\ \A u \in Tasks : u # t => tasks'[u] = tasks[u]
  /\ \/ MayFollow(tasks[t].status, tasks'[t].status)
     \/ /\ tasks[t].status = "READY"
        /\ tasks'[t].status = "RUNNING"
        /\ NoTaskRunning

\* Such a step is a step of the abstract lifecycle, or a stutter.
LEMMA StepsRefine ==
  ASSUME SingleExecution, SingleExecution', NEW t \in Tasks, Steps(t)
  PROVE  [Abstract!Next]_(Abstract!lifecycle)
  <1> DEFINE status == [u \in Tasks |-> tasks[u].status]
             statusNext == [u \in Tasks |-> tasks'[u].status]
  <1>1. statusNext = [status EXCEPT ![t] = tasks'[t].status]
    BY StatusMoves DEF Steps
  <1>2. status[t] = tasks[t].status
    OBVIOUS
  <1>3. /\ Running(t) => Executor = t
        /\ NoTaskRunning => Executor = None
    BY ExecutorIs
  <1>4. /\ Running(t)' => Executor' = t
        /\ NoTaskRunning' => Executor' = None
    BY DEF SingleExecution, Executor, NoTaskRunning, Running
  <1>5. CASE tasks'[t].status = tasks[t].status
    <2>1. \A u \in Tasks : Running(u)' <=> Running(u)
      BY <1>5 DEF Steps, MayFollow, Running
    <2>2. Executor' = Executor
      BY <2>1 DEF Executor
    <2>3. statusNext = status
      BY <1>5 DEF Steps
    <2> QED
      BY <2>2, <2>3 DEF Abstract!lifecycle
  <1>6. CASE tasks'[t].status # tasks[t].status
    <2>1. \A u \in Tasks : u # t => (Running(u)' <=> Running(u))
      BY DEF Steps, MayFollow, Running
    <2>2. CASE ~Running(t) /\ ~Running(t)'
      <3>1. Executor' = Executor
        BY <2>1, <2>2 DEF Executor
      <3>2. Abstract!Open(t) \/ Abstract!Rework(t) \/ Abstract!Drop(t)
            \/ Abstract!Retire(t)
        BY <1>1, <1>2, <1>6, <2>2, <3>1
           DEF Steps, MayFollow, Running, Abstract!Open, Abstract!Rework, Abstract!Drop,
               Abstract!Retire, Abstract!Move
      <3> QED
        BY <3>2 DEF Abstract!Next
    <2>3. CASE Running(t) /\ ~Running(t)'
      <3>1. \A u \in Tasks : ~Running(u)'
        BY <2>1, <2>3 DEF SingleExecution
      <3>2. Executor = t /\ Executor' = None
        BY <1>3, <1>4, <2>3, <3>1 DEF NoTaskRunning
      <3>3. \E to \in {"COMPLETED", "FAILED", "BLOCKED", "CANCELLED"} :
              Abstract!Stop(t, to)
        BY <1>1, <1>2, <1>6, <2>3, <3>2
           DEF Steps, MayFollow, Running, Abstract!Stop, Abstract!Move
      <3> QED
        BY <3>3 DEF Abstract!Next
    <2>4. CASE Running(t)'
      <3>1. tasks[t].status = "READY" /\ NoTaskRunning
        BY <1>6, <2>4 DEF Steps, MayFollow, Running
      <3>2. Executor = None /\ Executor' = t
        BY <1>3, <1>4, <2>4, <3>1
      <3>3. Abstract!Start(t)
        BY <1>1, <1>2, <2>4, <3>1, <3>2
           DEF Running, Abstract!Start, Abstract!Move
      <3> QED
        BY <3>3 DEF Abstract!Next
    <2> QED
      BY <2>2, <2>3, <2>4
  <1> QED
    BY <1>5, <1>6

\* Every step of the ledger is one.
LEMMA NextSteps ==
  ASSUME IInv, Next
  PROVE  tasks' = tasks \/ \E t \in Tasks : Steps(t)
  <1>1. ASSUME NEW t \in Tasks, NEW b \in AllCommits,
               NEW s \in CheckpointIds \cup {None}, tasks[t].status = "ABSENT",
               tasks' = [tasks EXCEPT ![t] = FreshTask(b, s)]
        PROVE  Steps(t)
    BY <1>1, CreateEffect DEF Steps, MayFollow, IInv
  <1>2. ASSUME NEW t \in Tasks, NEW i \in Instances, tasks[t].status = "READY",
               NoTaskRunning, UpdateTask(t, Claimed(t, i))
        PROVE  Steps(t)
    BY <1>2, ClaimEffect DEF Steps, MayFollow, IInv
  <1>3. CASE TaskStep
    <2>1. ASSUME NEW t \in Tasks, NEW git \in SeenSnapshots, CreateTask(t, git)
          PROVE  Steps(t)
      BY <1>1, <2>1 DEF CreateTask, SeenSnapshots, Snapshots
    <2>2. ASSUME NEW t \in Tasks, NEW c \in CheckpointIds,
                 CreateDiagnosisFromCheckpoint(t, c, [head |-> c, clean |-> TRUE])
          PROVE  Steps(t)
      BY <1>1, <2>2 DEF CreateDiagnosisFromCheckpoint, AllCommits
    <2>3. ASSUME NEW t \in Tasks, NEW i \in Instances,
                 \/ ClaimTask(t, i, tasks[t].rev, AtBase(t))
                 \/ i \in Workers /\ ClaimNextTask(t, i, AtBase(t))
          PROVE  Steps(t)
      BY <1>2, <2>3 DEF ClaimTask, ClaimNextTask
    <2>4. ASSUME NEW t \in Tasks, NEW i \in Instances,
                 NEW outcome \in {"COMPLETED", "FAILED"},
                 ReportResult(t, i, tasks[t].rev, outcome)
          PROVE  Steps(t)
      BY <2>4, ReportEffect DEF ReportResult, Steps, MayFollow, Running, IInv
    <2>5. ASSUME NEW t \in Tasks,
                 \/ \E i \in Instances : ReportBlocked(t, i, tasks[t].rev)
                 \/ RecoverTask(t, tasks[t].rev)
          PROVE  Steps(t)
      BY <2>5, RestEffect DEF ReportBlocked, RecoverTask, Steps, MayFollow, Running, IInv,
         TaskStatuses
    <2>6. ASSUME NEW t \in Tasks, CancelTask(t, tasks[t].rev)
          PROVE  Steps(t)
      BY <2>6, RestEffect DEF CancelTask, CANCELLABLE, Steps, MayFollow, IInv, TaskStatuses
    <2>7. ASSUME NEW t \in Tasks, CloseTask(t, tasks[t].rev)
          PROVE  Steps(t)
      BY <2>7, RestEffect DEF CloseTask, CLOSABLE, Steps, MayFollow, IInv, TaskStatuses
    <2>8. ASSUME NEW t \in Tasks, NEW git \in SeenSnapshots,
                 ResumeTask(t, tasks[t].rev, git)
          PROVE  Steps(t)
      BY <2>8, ResumeEffect DEF ResumeTask, RESUMABLE, SeenSnapshots, Steps, MayFollow, IInv
    <2> QED
      BY <1>3, <2>1, <2>2, <2>3, <2>4, <2>5, <2>6, <2>7, <2>8
         DEF TaskStep, Instances
  <1>4. CASE CheckpointStep
    <2>1. ASSUME NEW c \in CheckpointIds, FinalizeTask(c)
          PROVE  c[1] \in Tasks /\ Steps(c[1])
      BY <2>1, CheckpointIdParts, RebaseEffect DEF FinalizeTask, Steps, MayFollow, IInv
    <2> QED
      BY <1>4, <2>1 DEF CheckpointStep, PrepareCheckpoint, RecordGitApplied,
         MarkFinalized, ReopenCheckpoint
  <1>5. CASE RunStep
    <2>1. ASSUME NEW r \in Runs, ClaimC2CDispatchTask(r, AtBase(runs[r].task))
          PROVE  runs[r].task \in Tasks /\ Steps(runs[r].task)
      <3>1. runs[r].task \in Tasks /\ r \in Instances
        BY <2>1 DEF ClaimC2CDispatchTask, IInv, ClaimRecorded, Instances
      <3> QED
        BY <1>2, <2>1, <3>1 DEF ClaimC2CDispatchTask
    <2> QED
      BY <1>5, <2>1 DEF RunStep, InsertRun, InsertC2CRun, OverwriteRun,
         FailC2CDispatchBeforeClaim
  <1> QED
    BY <1>3, <1>4, <1>5 DEF Next

\* The ledger implements the abstract lifecycle.
THEOREM Refinement == Spec => ImplementsLifecycle
  <1>1. Init => Abstract!Init
    <2> SUFFICES ASSUME Init PROVE Abstract!Init
      OBVIOUS
    <2>1. \A t \in Tasks : tasks[t].status = "ABSENT"
      BY DEF Init, NoTask
    <2>2. Executor = None
      BY <2>1 DEF Executor, Running
    <2> QED
      BY <2>1, <2>2 DEF Abstract!Init
  <1>2. IInv /\ IInv' /\ [Next]_ledger => [Abstract!Next]_(Abstract!lifecycle)
    <2> SUFFICES ASSUME IInv, IInv', [Next]_ledger
                 PROVE  [Abstract!Next]_(Abstract!lifecycle)
      OBVIOUS
    <2>1. CASE tasks' = tasks
      BY <2>1 DEF Abstract!lifecycle, Executor, Running
    <2>2. CASE \E t \in Tasks : Steps(t)
      BY <2>2, StepsRefine DEF IInv
    <2>3. CASE UNCHANGED ledger
      BY <2>1, <2>3 DEF ledger
    <2> QED
      BY <2>1, <2>2, <2>3, NextSteps
  <1> QED
    BY <1>1, <1>2, Safety, PTL DEF Spec, ImplementsLifecycle, Abstract!Spec

=============================================================================
