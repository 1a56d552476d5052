--------------------------- MODULE EvidenceProofs ---------------------------
(***************************************************************************)
(* What bindExecution answers, for every set of tasks, runs, workers and   *)
(* commits.  Every transaction of Evidence is one of Ledger, so the ledger *)
(* keeps the invariant IInv of LedgerProofs; EInv adds what the log says   *)
(* of the tasks (Dated), of the executions (Paired) and of their dispatch  *)
(* rows (RunsFollow).                                                      *)
(***************************************************************************)
EXTENDS Evidence, LedgerProofs

-----------------------------------------------------------------------------
(* The invariant *)

IsClaim(e) == e.kind = "claimed"

\* The execution that claim e began is still going on.
Executing(e) ==
  LET task == tasks[e.task] IN
  task.status = "RUNNING" /\ task.rev = e.rev /\ task.inst = e.inst

Over(t) == tasks[t].status \in {"CANCELLED", "CLOSED"}

\* An event is of a revision its task has had, and no two are of the same; the
\* one of the current revision says how the task is; a REVIEW checkpoint is of
\* a revision at which the task completed, and starts at the base it had.
Dated ==
  /\ log \subseteq Event
  /\ \A e \in log : e.rev <= tasks[e.task].rev
  /\ \A e, f \in log : e.task = f.task /\ e.rev = f.rev => e = f
  /\ \A e \in log :
       e.rev = tasks[e.task].rev =>
         /\ e.to = tasks[e.task].status
         /\ e.to = "COMPLETED" => e.kind = "result" /\ e.base = tasks[e.task].base
  /\ \A c \in CheckpointIds :
       checkpoints[c].state # "ABSENT" /\ checkpoints[c].purpose = "REVIEW" =>
         \A e \in log :
           e.task = c[1] /\ e.rev = c[2] =>
             e.kind = "result" /\ e.to = "COMPLETED" /\ e.base = checkpoints[c].prior

\* Event f is of the claim whose execution event e ends.
Begins(f, e) ==
  /\ IsClaim(f) /\ f.task = e.task /\ f.inst = e.inst
  /\ f.rev \in Nat /\ e.rev = f.rev + 1
  /\ e.kind # "recovered" => e.producer = f.rev

\* Every end has its claim one revision before, and an execution that has no
\* end is still going on or was cancelled.
Paired ==
  /\ \A e \in log :
       /\ e.inst \in Instances
       /\ e.actor = IF e.kind = "recovered" THEN "OWNER" ELSE RoleOfInstance(e.inst)
       /\ IsClaim(e) => RoleOfInstance(e.inst) = ExpectedWorkerRole(e.task)
       /\ ~IsClaim(e) => e.to # "RUNNING" /\ \E f \in log : Begins(f, e)
  /\ \A t \in Tasks : Running(t) => \E e \in log : IsClaim(e) /\ e.task = t /\ Executing(e)
  /\ \A e \in log : IsClaim(e) => Executing(e) \/ Terminals(e) # {} \/ Over(e.task)

\* The dispatch row of an execution, in step with its claim e.
RowFollows(e) ==
  LET run == runs[e.inst] IN
  /\ run.task = e.task
  /\ run.status \in {"running", "completed", "blocked", "failed"}
  /\ run.status = "running" => Executing(e)
  /\ run.status \in {"completed", "blocked"} => Terminals(e) # {}
  /\ \A end \in Terminals(e) : run.status \in DispatchStatuses(end)

\* A run is claimed with once, and got past `launching' by that or failed.
RunsFollow ==
  /\ \A e \in log : IsClaim(e) /\ e.inst \in Runs => RowFollows(e)
  /\ \A e, f \in log : IsClaim(e) /\ IsClaim(f) /\ e.inst = f.inst /\ e.inst \in Runs => e = f
  /\ \A r \in Runs :
       runs[r].status \in {"running", "completed", "blocked"} =>
         \E e \in log : IsClaim(e) /\ e.inst = r

EInv == IInv /\ Dated /\ Paired /\ RunsFollow

-----------------------------------------------------------------------------
(* Every transaction is one of the ledger *)

LEMMA StepOfLedger == ENext => Next
<1> SUFFICES ASSUME ENext PROVE Next
  OBVIOUS
<1>1. ASSUME NEW t \in Tasks, NEW i \in Instances, Claim(t, i) PROVE Next
  <2>1. CASE ClaimTask(t, i, tasks[t].rev, AtBase(t))
    BY <2>1 DEF Next, TaskStep
  <2>2. CASE ClaimNextTask(t, i, AtBase(t))
    BY <2>2 DEF Next, TaskStep, ClaimNextTask
  <2>3. CASE i \in Runs /\ runs[i].task = t /\ ClaimC2CDispatchTask(i, AtBase(t))
    BY <2>3 DEF Next, RunStep
  <2> QED BY <1>1, <2>1, <2>2, <2>3 DEF Claim
<1>2. ASSUME NEW t \in Tasks, NEW i \in Instances, NEW outcome \in {"COMPLETED", "FAILED"},
             Report(t, i, outcome)
      PROVE  Next
  BY <1>2 DEF Report, Next, TaskStep
<1>3. ASSUME NEW t \in Tasks, NEW i \in Instances, Block(t, i) PROVE Next
  BY <1>3 DEF Block, Next, TaskStep
<1>4. ASSUME NEW t \in Tasks, Recover(t) PROVE Next
  BY <1>4 DEF Recover, Next, TaskStep
<1>5. ASSUME NEW t \in Tasks, Unread(t) PROVE Next
  BY <1>5 DEF Unread, Next, TaskStep
<1>6. ASSUME NEW r \in Runs, RunTransaction(r) PROVE Next
  BY <1>6 DEF RunTransaction, FailRun, Next, RunStep, RunStatuses
<1>7. CASE CheckpointTransaction
  BY <1>7 DEF CheckpointTransaction, Next
<1> QED BY <1>1, <1>2, <1>3, <1>4, <1>5, <1>6, <1>7 DEF ENext

\* With the log forgotten it is the ledger: what LedgerProofs proves of Ledger
\* holds here as well, the abstract lifecycle included.
THEOREM EvidenceIsOfLedger == ESpec => Spec
<1>1. EInit => Init
  BY DEF EInit
<1>2. [ENext]_evidence => [Next]_ledger
  BY StepOfLedger DEF evidence, ledger
<1> QED BY <1>1, <1>2, PTL DEF ESpec, Spec

LEMMA LedgerKept == IInv /\ [ENext]_evidence => IInv'
<1>1. IInv /\ UNCHANGED ledger => IInv'
  BY DEF IInv, ledger, TypeOK, SingleExecution, IntentExclusive, IntentPinsTask,
         ReservationHolds, OneActiveRunPerTask, ResultFromClaimant, ClaimRecorded, Running,
         Active, IsC2C, Unfinished, NoTaskRunning, NoActiveRun, PurposeFits
<1>2. UNCHANGED evidence => UNCHANGED ledger
  BY DEF evidence, ledger
<1> QED BY <1>1, <1>2, StepOfLedger, TaskStepKeeps, CheckpointStepKeeps, RunStepKeeps DEF Next

LEMMA EInvInit == EInit => EInv
<1> SUFFICES ASSUME EInit PROVE EInv
  OBVIOUS
<1>1. IInv /\ log = {}
  BY InitIInv DEF EInit
<1>2. \A t \in Tasks : ~Running(t)
  BY DEF EInit, Init, NoTask, Running
<1>3. \A r \in Runs : runs[r].status = "absent"
  BY DEF EInit, Init, NoRun
<1> QED BY <1>1, <1>2, <1>3 DEF EInv, Dated, Paired, RunsFollow

-----------------------------------------------------------------------------
(* Steps that log nothing *)

\* A task that moves, moves a revision on; it does not begin to execute, and if
\* it did execute it is cancelled and its runs fail.
TaskMoves(t) ==
  \/ tasks'[t] = tasks[t]
  \/ /\ tasks'[t].rev > tasks[t].rev
     /\ tasks'[t].status # "RUNNING"
     /\ Running(t) => /\ tasks'[t].status = "CANCELLED"
                      /\ \A r \in Runs : ActiveFor(r, t) => runs'[r].status = "failed"
     /\ Over(t) => tasks'[t].status \in {"CANCELLED", "CLOSED"}

RunMoves(r) ==
  \/ runs'[r] = runs[r]
  \/ runs[r].status = "absent" /\ runs'[r].status = "launching"
  \/ Active(r) /\ runs'[r].status = "failed" /\ runs'[r].task = runs[r].task

CheckpointMoves(c) ==
  LET old == checkpoints[c]  new == checkpoints'[c]  task == tasks[c[1]] IN
  new.state # "ABSENT" /\ new.purpose = "REVIEW" =>
    \/ old.state # "ABSENT" /\ old.purpose = "REVIEW" /\ new.prior = old.prior
    \/ c[2] = task.rev /\ task.status = "COMPLETED" /\ new.prior = task.base

Quiet ==
  /\ log' = log
  /\ \A t \in Tasks : TaskMoves(t)
  /\ \A r \in Runs : RunMoves(r)
  /\ \A c \in CheckpointIds : CheckpointMoves(c)

LEMMA QuietUnread ==
  ASSUME IInv, NEW t \in Tasks, Unread(t)
  PROVE  Quiet
<1>0. TypeOK
  BY DEF IInv
<1>1. log' = log
  BY DEF Unread
<1>2. ASSUME NEW b \in AllCommits, NEW s \in CheckpointIds \cup {None},
             tasks[t].status = "ABSENT",
             tasks' = [tasks EXCEPT ![t] = FreshTask(b, s)], UNCHANGED <<runs, checkpoints>>
      PROVE  Quiet
  <2>1. tasks[t].rev = 0
    BY <1>2 DEF IInv, ClaimRecorded
  <2>2. /\ \A u \in Tasks : u # t => tasks'[u] = tasks[u]
        /\ tasks'[t].status = "READY" /\ tasks'[t].rev = 1
    BY <1>0, <1>2, CreateEffect
  <2> QED BY <1>1, <1>2, <2>1, <2>2
      DEF Quiet, TaskMoves, RunMoves, CheckpointMoves, Running, Over
<1>3. ASSUME NEW git \in Snapshots, CreateTask(t, git) PROVE Quiet
  BY <1>2, <1>3 DEF CreateTask, Snapshots
<1>4. ASSUME NEW c \in CheckpointIds, NEW git, CreateDiagnosisFromCheckpoint(t, c, git)
      PROVE  Quiet
  BY <1>2, <1>4 DEF CreateDiagnosisFromCheckpoint, AllCommits
<1>5. tasks[t].rev \in Nat
  BY <1>0 DEF TypeOK, TaskRow
<1>6. ASSUME NEW git \in Snapshots, ResumeTask(t, tasks[t].rev, git) PROVE Quiet
  <2>1. /\ \A u \in Tasks : u # t => tasks'[u] = tasks[u]
        /\ tasks'[t].status = "READY" /\ tasks'[t].rev = tasks[t].rev + 1
    BY <1>0, <1>6, ResumeEffect DEF ResumeTask
  <2> QED BY <1>1, <1>5, <1>6, <2>1
      DEF ResumeTask, RESUMABLE, Quiet, TaskMoves, RunMoves, CheckpointMoves, Running, Over
<1>7. CASE CancelTask(t, tasks[t].rev)
  <2>1. /\ \A u \in Tasks : u # t => tasks'[u] = tasks[u]
        /\ tasks'[t].status = "CANCELLED" /\ tasks'[t].rev = tasks[t].rev + 1
    BY <1>0, <1>7, RestEffect DEF CancelTask, TaskStatuses
  <2>2. \A r \in Runs : /\ RunMoves(r)
                        /\ ActiveFor(r, t) => runs'[r].status = "failed"
    BY <1>0, <1>7 DEF CancelTask, FailActiveRunsOf, RunMoves, ActiveFor, TypeOK, RunRow
  <2> QED BY <1>1, <1>5, <1>7, <2>1, <2>2
      DEF CancelTask, Quiet, TaskMoves, CheckpointMoves
<1>8. CASE CloseTask(t, tasks[t].rev)
  <2>1. /\ \A u \in Tasks : u # t => tasks'[u] = tasks[u]
        /\ tasks'[t].status = "CLOSED" /\ tasks'[t].rev = tasks[t].rev + 1
    BY <1>0, <1>8, RestEffect DEF CloseTask, TaskStatuses
  <2> QED BY <1>1, <1>5, <1>8, <2>1
      DEF CloseTask, CLOSABLE, Quiet, TaskMoves, RunMoves, CheckpointMoves, Running
<1> QED BY <1>3, <1>4, <1>6, <1>7, <1>8 DEF Unread, SeenSnapshots

LEMMA QuietRun ==
  ASSUME IInv, NEW r \in Runs, RunTransaction(r)
  PROVE  Quiet
<1>1. tasks' = tasks /\ checkpoints' = checkpoints /\ log' = log
  BY DEF RunTransaction, InsertRun, InsertC2CRun, FailRun, OverwriteRun,
         FailC2CDispatchBeforeClaim
<1>2. \A s \in Runs : RunMoves(s)
  BY DEF RunTransaction, InsertRun, InsertC2CRun, FailRun, OverwriteRun,
         FailC2CDispatchBeforeClaim, RunMoves, Active, IInv, TypeOK, RunRow
<1> QED BY <1>1, <1>2 DEF Quiet, TaskMoves, CheckpointMoves

LEMMA QuietCheckpoint ==
  ASSUME IInv, CheckpointTransaction
  PROVE  Quiet
<1>1. log' = log /\ runs' = runs
  BY DEF CheckpointTransaction, CheckpointStep, PrepareCheckpoint, RecordGitApplied,
         FinalizeTask, MarkFinalized, ReopenCheckpoint
<1>2. ASSUME NEW t \in Tasks, NEW p \in Purposes, PrepareCheckpoint(t, tasks[t].rev, p)
      PROVE  Quiet
  <2>1. \A c \in CheckpointIds : CheckpointMoves(c)
    BY <1>2 DEF PrepareCheckpoint, PurposeFits, CheckpointMoves, IInv, TypeOK
  <2> QED BY <1>1, <1>2, <2>1 DEF PrepareCheckpoint, Quiet, TaskMoves, RunMoves
<1>3. ASSUME NEW c \in CheckpointIds,
             \/ RecordGitApplied(c) \/ FinalizeTask(c) \/ MarkFinalized(c)
             \/ ReopenCheckpoint(c)
      PROVE  Quiet
  <2>1. \A d \in CheckpointIds : CheckpointMoves(d)
    BY <1>3 DEF RecordGitApplied, FinalizeTask, MarkFinalized, ReopenCheckpoint,
                CheckpointMoves, IInv, TypeOK, CheckpointRow
  <2>2. \A t \in Tasks : TaskMoves(t)
    <3>1. CASE tasks' = tasks
      BY <3>1 DEF TaskMoves
    <3>2. CASE FinalizeTask(c)
      <4>1. c[1] \in Tasks
        BY CheckpointIdParts
      <4>2. /\ \A u \in Tasks : u # c[1] => tasks'[u] = tasks[u]
            /\ tasks'[c[1]].status = tasks[c[1]].status
            /\ tasks'[c[1]].rev = tasks[c[1]].rev + 1
        BY <3>2, <4>1, RebaseEffect DEF FinalizeTask, IInv
      <4>3. tasks[c[1]].rev \in Nat
        BY <4>1 DEF IInv, TypeOK, TaskRow
      <4>4. ~Running(c[1])
        BY <3>2, <4>1 DEF FinalizeTask, RecoveryExclusive, NoTaskRunning
      <4> QED BY <4>1, <4>2, <4>3, <4>4 DEF TaskMoves, Running, Over
    <3> QED BY <1>3, <3>1, <3>2 DEF RecordGitApplied, MarkFinalized, ReopenCheckpoint
  <2> QED BY <1>1, <2>1, <2>2 DEF Quiet, RunMoves
<1> QED BY <1>2, <1>3 DEF CheckpointTransaction, CheckpointStep

LEMMA QuietKeeps ==
  ASSUME EInv, IInv', Quiet
  PROVE  EInv'
<1>0. log' = log /\ log \subseteq Event
  BY DEF Quiet, EInv, Dated
<1>1. \A e \in log : /\ e.task \in Tasks /\ e.rev \in Nat
                     /\ tasks[e.task].rev \in Nat /\ tasks'[e.task].rev \in Nat
                     /\ e.rev <= tasks[e.task].rev /\ TaskMoves(e.task)
  BY <1>0 DEF Quiet, EInv, Dated, Event, IInv, TypeOK, TaskRow
<1>2. \A e \in log : Terminals(e)' = Terminals(e)
  BY <1>0 DEF Terminals
<1>3. Dated'
  <2>1. \A e \in log : /\ e.rev <= tasks'[e.task].rev
                       /\ e.rev = tasks'[e.task].rev => tasks'[e.task] = tasks[e.task]
    BY <1>1 DEF TaskMoves
  <2>2. \A e \in log :
          e.rev = tasks'[e.task].rev =>
            /\ e.to = tasks'[e.task].status
            /\ e.to = "COMPLETED" => e.kind = "result" /\ e.base = tasks'[e.task].base
    BY <2>1 DEF EInv, Dated
  <2>3. ASSUME NEW c \in CheckpointIds, NEW e \in log,
               checkpoints'[c].state # "ABSENT", checkpoints'[c].purpose = "REVIEW",
               e.task = c[1], e.rev = c[2]
        PROVE  e.kind = "result" /\ e.to = "COMPLETED" /\ e.base = checkpoints'[c].prior
    BY <2>3 DEF Quiet, CheckpointMoves, EInv, Dated
  <2> QED BY <1>0, <2>1, <2>2, <2>3 DEF EInv, Dated
<1>4. \A e \in log : Executing(e) => Executing(e)' \/ Over(e.task)'
  BY <1>1 DEF TaskMoves, Executing, Over, Running
<1>5. Paired'
  <2>1. ASSUME NEW t \in Tasks, Running(t)'
        PROVE  \E e \in log : IsClaim(e) /\ e.task = t /\ Executing(e)'
    <3>1. tasks'[t] = tasks[t]
      BY <2>1 DEF Quiet, TaskMoves, Running
    <3> QED BY <2>1, <3>1 DEF EInv, Paired, Running, Executing
  <2>2. \A e \in log : Over(e.task) => Over(e.task)'
    BY <1>1 DEF TaskMoves, Over
  <2>3. \A e \in log : IsClaim(e) => Executing(e)' \/ Terminals(e)' # {} \/ Over(e.task)'
    BY <1>2, <1>4, <2>2 DEF EInv, Paired
  <2> QED BY <1>0, <2>1, <2>3 DEF EInv, Paired
<1>6. RunsFollow'
  <2>1. ASSUME NEW e \in log, IsClaim(e), e.inst \in Runs PROVE RowFollows(e)'
    <3>1. RowFollows(e) /\ RunMoves(e.inst)
      BY <2>1 DEF EInv, RunsFollow, Quiet
    <3>2. runs'[e.inst].task = e.task
          /\ runs'[e.inst].status \in {"running", "completed", "blocked", "failed"}
      BY <3>1 DEF RowFollows, RunMoves
    <3>3. ASSUME runs'[e.inst].status = "running" PROVE Executing(e)'
      <4>1. runs'[e.inst] = runs[e.inst]
        BY <3>1, <3>3 DEF RunMoves
      <4>2. Executing(e) /\ ActiveFor(e.inst, e.task)
        BY <3>1, <3>3, <4>1 DEF RowFollows, ActiveFor, Active
      <4>3. tasks'[e.task] = tasks[e.task]
        BY <1>1, <2>1, <3>3, <4>2 DEF TaskMoves, Executing, Running
      <4> QED BY <4>2, <4>3 DEF Executing
    <3>4. runs'[e.inst].status \in {"completed", "blocked"} => Terminals(e)' # {}
      BY <1>2, <3>1 DEF RowFollows, RunMoves
    <3>5. ASSUME NEW end \in Terminals(e)'
          PROVE  runs'[e.inst].status \in DispatchStatuses(end)
      <4>1. end \in Terminals(e)
        BY <1>2, <3>5
      <4>2. ~Executing(e)
        BY <1>1, <4>1 DEF Executing, Terminals
      <4>3. runs'[e.inst] = runs[e.inst]
        BY <3>1, <4>2 DEF RowFollows, RunMoves, Active
      <4> QED BY <3>1, <4>1, <4>3 DEF RowFollows
    <3> QED BY <3>2, <3>3, <3>4, <3>5 DEF RowFollows
  <2>2. ASSUME NEW r \in Runs, runs'[r].status \in {"running", "completed", "blocked"}
        PROVE  \E e \in log : IsClaim(e) /\ e.inst = r
    <3>1. runs'[r] = runs[r]
      BY <2>2 DEF Quiet, RunMoves
    <3> QED BY <2>2, <3>1 DEF EInv, RunsFollow
  <2> QED BY <1>0, <2>1, <2>2 DEF EInv, RunsFollow
<1> QED BY <1>3, <1>5, <1>6 DEF EInv

-----------------------------------------------------------------------------
(* Steps that log one event *)

Logged(t, ev) ==
  /\ log' = log \cup {ev}
  /\ ev \in Event /\ ev.inst \in Instances
  /\ ev.task = t /\ ev.rev = tasks[t].rev + 1
  /\ \A u \in Tasks : u # t => tasks'[u] = tasks[u]
  /\ tasks'[t].rev = ev.rev /\ tasks'[t].status = ev.to
  /\ tasks'[t].base = tasks[t].base
  /\ ev.to = "COMPLETED" => ev.kind = "result" /\ ev.base = tasks[t].base
  /\ checkpoints' = checkpoints

\* The new event is the first of its revision.
LEMMA LoggedDates ==
  ASSUME EInv, NEW t \in Tasks, NEW ev, Logged(t, ev)
  PROVE  /\ Dated'
         /\ \A e \in log : e.task = t => e.rev < ev.rev
         /\ ev \notin log
         /\ \A e \in log : e.task = t /\ e.rev = tasks[t].rev + 1 => FALSE
<1>1. /\ tasks[t].rev \in Nat
      /\ \A e \in log : /\ e.task \in Tasks /\ e.rev \in Nat
                        /\ e.rev <= tasks[e.task].rev /\ tasks[e.task].rev \in Nat
  BY DEF EInv, Dated, Event, IInv, TypeOK, TaskRow
<1>2. \A e \in log : e.task = t => e.rev < ev.rev
  BY <1>1 DEF Logged
<1>3. ev \notin log
  BY <1>1, <1>2 DEF Logged
<1>4. log' \subseteq Event
  BY DEF Logged, EInv, Dated
<1>5. \A e \in log' : e.rev <= tasks'[e.task].rev
  BY <1>1, <1>2 DEF Logged
<1>6. \A e, f \in log' : e.task = f.task /\ e.rev = f.rev => e = f
  BY <1>2, <1>1 DEF Logged, EInv, Dated
<1>7. \A e \in log' :
        e.rev = tasks'[e.task].rev =>
          /\ e.to = tasks'[e.task].status
          /\ e.to = "COMPLETED" => e.kind = "result" /\ e.base = tasks'[e.task].base
  <2>1. ASSUME NEW e \in log, e.rev = tasks'[e.task].rev
        PROVE  tasks'[e.task] = tasks[e.task]
    BY <1>1, <1>2, <2>1 DEF Logged
  <2>2. \A e \in log :
          e.rev = tasks'[e.task].rev =>
            /\ e.to = tasks'[e.task].status
            /\ e.to = "COMPLETED" => e.kind = "result" /\ e.base = tasks'[e.task].base
    BY <2>1 DEF EInv, Dated
  <2> QED BY <2>2 DEF Logged
<1>8. ASSUME NEW c \in CheckpointIds, NEW e \in log',
             checkpoints'[c].state # "ABSENT", checkpoints'[c].purpose = "REVIEW",
             e.task = c[1], e.rev = c[2]
      PROVE  e.kind = "result" /\ e.to = "COMPLETED" /\ e.base = checkpoints'[c].prior
  <2>1. c[1] \in Tasks /\ c[2] \in Nat
    BY CheckpointIdParts
  <2>2. checkpoints'[c] = checkpoints[c] /\ checkpoints[c] \in CheckpointRow
    BY DEF Logged, EInv, IInv, TypeOK
  <2>3. c[2] <= tasks[c[1]].rev
    <3>1. tasks[c[1]].rev \in Nat
      BY <2>1 DEF EInv, IInv, TypeOK, TaskRow
    <3> QED BY <1>8, <2>1, <2>2, <3>1
        DEF EInv, IInv, IntentPinsTask, CheckpointRow, CheckpointStates
  <2>4. e # ev
    BY <1>1, <1>8, <2>1, <2>3 DEF Logged
  <2> QED BY <1>8, <2>2, <2>4 DEF Logged, EInv, Dated
<1>9. Dated'
  BY <1>4, <1>5, <1>6, <1>7, <1>8 DEF Dated
<1> QED BY <1>1, <1>2, <1>3, <1>9 DEF Logged

\* What the executions of the other tasks make of the step: nothing.
LEMMA OtherTasks ==
  ASSUME EInv, NEW t \in Tasks, NEW ev, Logged(t, ev), NEW e \in log, e.task # t
  PROVE  /\ Executing(e)' = Executing(e) /\ Over(e.task)' = Over(e.task)
         /\ Terminals(e)' = Terminals(e)
<1>1. e.task \in Tasks
  BY DEF EInv, Dated, Event
<1>2. tasks'[e.task] = tasks[e.task]
  BY <1>1 DEF Logged
<1> QED BY <1>2 DEF Executing, Over, Terminals, Logged

-----------------------------------------------------------------------------
(* Claims *)

Began(t, i, ev) ==
  /\ Logged(t, ev)
  /\ ev.kind = "claimed" /\ ev.inst = i /\ ev.to = "RUNNING"
  /\ ev.actor = RoleOfInstance(i) /\ RoleOfInstance(i) = ExpectedWorkerRole(t)
  /\ tasks'[t].inst = i
  /\ NoTaskRunning /\ tasks[t].status = "READY"
  /\ \A r \in Runs :
       IF r = i THEN /\ runs[r].status = "launching" /\ runs[r].task = t
                     /\ runs'[r].status = "running" /\ runs'[r].task = t
                ELSE runs'[r] = runs[r]

LEMMA ClaimBegins ==
  ASSUME IInv, NEW t \in Tasks, NEW i \in Instances, Claim(t, i)
  PROVE  \E ev : Began(t, i, ev)
<1> DEFINE ev == [task |-> t, rev |-> tasks[t].rev + 1, kind |-> "claimed",
                  actor |-> RoleOfInstance(i), inst |-> i, to |-> "RUNNING",
                  producer |-> 0, base |-> None]
<1>1. /\ UpdateTask(t, Claimed(t, i)) /\ checkpoints' = checkpoints
      /\ NoTaskRunning /\ tasks[t].status = "READY"
      /\ log' = log \cup {ev}
  BY DEF Claim, Append, ClaimTask, ClaimNextTask, ClaimC2CDispatchTask
<1>2. /\ \A u \in Tasks : u # t => tasks'[u] = tasks[u]
      /\ tasks'[t].status = "RUNNING" /\ tasks'[t].inst = i
      /\ tasks'[t].base = tasks[t].base /\ tasks'[t].rev = tasks[t].rev + 1
  BY <1>1, ClaimEffect DEF IInv
<1>3. RoleOfInstance(i) \in WorkerRoles /\ RoleOfInstance(i) = ExpectedWorkerRole(t)
  <2>1. RoleOfInstance(i) \in WorkerRoles
    BY LedgerAssumption DEF RoleOfInstance, Instances, WorkerRoles
  <2>2. CanClaim(i, t) => RoleOfInstance(i) = ExpectedWorkerRole(t)
    BY DEF CanClaim, ExpectedWorkerRole
  <2>3. ClaimNextTask(t, i, AtBase(t)) => CanClaim(i, t)
    BY DEF ClaimNextTask
  <2>4. ClaimTask(t, i, tasks[t].rev, AtBase(t)) => CanClaim(i, t)
    BY DEF ClaimTask
  <2>5. ClaimC2CDispatchTask(i, AtBase(t)) /\ i \in Runs /\ runs[i].task = t => CanClaim(i, t)
    BY DEF ClaimC2CDispatchTask, CanClaim, RoleOfInstance
  <2> QED BY <2>1, <2>2, <2>3, <2>4, <2>5 DEF Claim
<1>4. ev \in Event
  <2>1. tasks[t].rev + 1 \in Nat
    BY DEF IInv, TypeOK, TaskRow
  <2> QED BY <1>3, <2>1 DEF Event, Kinds, TaskStatuses
<1>5. Logged(t, ev)
  BY <1>1, <1>2, <1>4 DEF Logged
<1>6. \A r \in Runs :
        IF r = i THEN /\ runs[r].status = "launching" /\ runs[r].task = t
                      /\ runs'[r].status = "running" /\ runs'[r].task = t
                 ELSE runs'[r] = runs[r]
  <2>1. CASE i \in Runs
    <3>1. runs[i].status = "launching" /\ runs[i].task = t /\ UpdateRunOf(i, t, "running")
      BY <2>1, LedgerAssumption DEF Claim, ClaimTask, ClaimNextTask, ClaimC2CDispatchTask
    <3> QED BY <2>1, <3>1 DEF UpdateRunOf, IInv, TypeOK, RunRow
  <2>2. CASE i \notin Runs
    BY <2>2 DEF Claim, ClaimTask, ClaimNextTask, UpdateRunOf
  <2> QED BY <2>1, <2>2
<1> HIDE DEF ev
<1>7. Began(t, i, ev)
  BY <1>1, <1>2, <1>3, <1>5, <1>6 DEF Began, ev
<1> QED BY <1>7

LEMMA ClaimKeepsEvidence ==
  ASSUME EInv, IInv', NEW t \in Tasks, NEW i \in Instances, NEW ev, Began(t, i, ev)
  PROVE  EInv'
<1>0. Logged(t, ev) /\ log' = log \cup {ev} /\ ev \notin log
  BY LoggedDates DEF Began, Logged
<1>1. Dated'
  BY <1>0, LoggedDates
<1>2. \A e \in log : ~Executing(e) /\ Terminals(e)' = Terminals(e)
                    /\ (Over(e.task) => Over(e.task)')
  <2>1. \A e \in log : e.task \in Tasks
    BY DEF EInv, Dated, Event
  <2>2. \A e \in log : Terminals(e)' = Terminals(e)
    BY <1>0 DEF Began, Terminals
  <2> QED BY <2>1, <2>2 DEF Began, Logged, Executing, NoTaskRunning, Running, Over
<1>3. Terminals(ev)' = {} /\ Executing(ev)'
  <2>1. Executing(ev)'
    BY DEF Began, Logged, Executing
  <2>2. \A e \in log' : e.task = t => e.rev # ev.rev + 1
    <3>1. ev.rev \in Nat /\ \A e \in log : e.rev \in Nat
      BY DEF Began, Logged, EInv, Dated, Event
    <3>2. \A e \in log : e.task = t => e.rev < ev.rev
      BY <1>0, LoggedDates
    <3> QED BY <1>0, <3>1, <3>2
  <2> QED BY <2>1, <2>2 DEF Terminals, Began, Logged
<1>4. Paired'
  <2>1. \A e \in log' :
          /\ e.inst \in Instances
          /\ e.actor = IF e.kind = "recovered" THEN "OWNER" ELSE RoleOfInstance(e.inst)
          /\ IsClaim(e) => RoleOfInstance(e.inst) = ExpectedWorkerRole(e.task)
    BY <1>0 DEF EInv, Paired, Began, Logged
  <2>2. \A e \in log' : ~IsClaim(e) => e.to # "RUNNING" /\ \E f \in log' : Begins(f, e)
    BY <1>0 DEF EInv, Paired, Began, IsClaim
  <2>3. ASSUME NEW u \in Tasks, Running(u)'
        PROVE  \E e \in log' : IsClaim(e) /\ e.task = u /\ Executing(e)'
    <3>1. u = t
      BY <2>3 DEF Began, Logged, NoTaskRunning, Running
    <3> QED BY <1>0, <1>3, <3>1 DEF Began, Logged, IsClaim
  <2>4. \A e \in log' : IsClaim(e) => Executing(e)' \/ Terminals(e)' # {} \/ Over(e.task)'
    BY <1>0, <1>2, <1>3 DEF EInv, Paired
  <2> QED BY <2>1, <2>2, <2>3, <2>4 DEF Paired
<1>5. \A e \in log : IsClaim(e) /\ e.inst \in Runs => e.inst # i
  BY DEF EInv, RunsFollow, RowFollows, Began
<1>6. RunsFollow'
  <2>1. ASSUME NEW e \in log', IsClaim(e), e.inst \in Runs PROVE RowFollows(e)'
    <3>1. CASE e = ev
      BY <1>3, <2>1, <3>1 DEF RowFollows, Began, Logged
    <3>2. CASE e \in log
      <4>1. runs'[e.inst] = runs[e.inst] /\ RowFollows(e) /\ runs[e.inst].status # "running"
        BY <1>2, <1>5, <2>1, <3>2 DEF Began, EInv, RunsFollow, RowFollows
      <4>2. Terminals(e)' = Terminals(e)
        BY <1>2, <3>2
      <4> QED BY <4>1, <4>2 DEF RowFollows
    <3> QED BY <1>0, <3>1, <3>2
  <2>2. \A e, f \in log' :
          IsClaim(e) /\ IsClaim(f) /\ e.inst = f.inst /\ e.inst \in Runs => e = f
    BY <1>0, <1>5 DEF EInv, RunsFollow, Began
  <2>3. ASSUME NEW r \in Runs, runs'[r].status \in {"running", "completed", "blocked"}
        PROVE  \E e \in log' : IsClaim(e) /\ e.inst = r
    BY <1>0, <2>3 DEF EInv, RunsFollow, Began, IsClaim
  <2> QED BY <2>1, <2>2, <2>3 DEF RunsFollow
<1> QED BY <1>1, <1>4, <1>6 DEF EInv

-----------------------------------------------------------------------------
(* Reports, blockers and recoveries *)

Ended(t, i, ev) ==
  /\ Logged(t, ev)
  /\ ev.kind \in {"result", "blocked", "recovered"} /\ ev.inst = i
  /\ ev.actor = IF ev.kind = "recovered" THEN "OWNER" ELSE RoleOfInstance(i)
  /\ ev.kind # "recovered" => ev.producer = tasks[t].rev
  /\ ev.to # "RUNNING"
  /\ Running(t) /\ tasks[t].inst = i
  /\ \A r \in Runs :
       IF r = i
       THEN /\ runs'[r].task = runs[r].task
            /\ runs[r].status \in {"running", "failed"} /\ runs[r].task = t =>
                 /\ runs'[r].status \in DispatchStatuses(ev)
                 /\ runs'[r].status \in {"completed", "blocked", "failed"}
       ELSE \/ runs'[r] = runs[r]
            \/ Active(r) /\ runs'[r].status = "failed" /\ runs'[r].task = runs[r].task

LEMMA ReportEnds ==
  ASSUME IInv, NEW t \in Tasks, NEW i \in Instances,
         NEW outcome \in {"COMPLETED", "FAILED"}, Report(t, i, outcome)
  PROVE  \E ev : Ended(t, i, ev)
<1> DEFINE ev == [task |-> t, rev |-> tasks[t].rev + 1, kind |-> "result",
                  actor |-> RoleOfInstance(i), inst |-> i, to |-> outcome,
                  producer |-> tasks[t].rev, base |-> tasks[t].base]
<1>1. /\ Running(t) /\ tasks[t].inst = i /\ checkpoints' = checkpoints
      /\ UpdateTask(t, [tasks[t] EXCEPT !.status = outcome, !.inst = None, !.resultBy = i])
      /\ UpdateRunOf(i, t, "completed")
      /\ i \in Runs => runs[i].status = "running" /\ outcome = "COMPLETED"
      /\ log' = log \cup {ev}
  BY DEF Report, ReportResult, AppendReport
<1>2. /\ \A u \in Tasks : u # t => tasks'[u] = tasks[u]
      /\ tasks'[t].status = outcome /\ tasks'[t].base = tasks[t].base
      /\ tasks'[t].rev = tasks[t].rev + 1
  BY <1>1, ReportEffect DEF IInv
<1>3. ev \in Event
  <2>1. tasks[t].rev \in Nat /\ tasks[t].rev + 1 \in Nat /\ tasks[t].base \in AllCommits \cup {None}
    BY DEF IInv, TypeOK, TaskRow
  <2>2. RoleOfInstance(i) \in WorkerRoles
    BY LedgerAssumption DEF RoleOfInstance, Instances, WorkerRoles
  <2> QED BY <2>1, <2>2 DEF Event, Kinds, TaskStatuses
<1>4. Logged(t, ev)
  BY <1>1, <1>2, <1>3 DEF Logged
<1>5. \A r \in Runs :
        IF r = i THEN /\ runs'[r].task = runs[r].task
                      /\ runs'[r].status = "completed" /\ outcome = "COMPLETED"
                 ELSE runs'[r] = runs[r]
  BY <1>1 DEF UpdateRunOf, IInv, TypeOK, RunRow
<1>6. outcome = "COMPLETED" => DispatchStatuses(ev) = {"completed"}
  BY DEF DispatchStatuses
<1> HIDE DEF ev
<1>7. Ended(t, i, ev)
  BY <1>1, <1>4, <1>5, <1>6 DEF Ended, ev
<1> QED BY <1>7

LEMMA BlockEnds ==
  ASSUME IInv, NEW t \in Tasks, NEW i \in Instances, Block(t, i)
  PROVE  \E ev : Ended(t, i, ev)
<1> DEFINE ev == [task |-> t, rev |-> tasks[t].rev + 1, kind |-> "blocked",
                  actor |-> RoleOfInstance(i), inst |-> i, to |-> "BLOCKED",
                  producer |-> tasks[t].rev, base |-> tasks[t].base]
<1>1. /\ Running(t) /\ tasks[t].inst = i /\ checkpoints' = checkpoints
      /\ UpdateTask(t, [tasks[t] EXCEPT !.status = "BLOCKED", !.inst = None])
      /\ UpdateRunOf(i, t, "blocked")
      /\ log' = log \cup {ev}
  BY DEF Block, ReportBlocked, AppendReport
<1>2. /\ \A u \in Tasks : u # t => tasks'[u] = tasks[u]
      /\ tasks'[t].status = "BLOCKED" /\ tasks'[t].base = tasks[t].base
      /\ tasks'[t].rev = tasks[t].rev + 1
  BY <1>1, RestEffect DEF IInv, TaskStatuses
<1>3. ev \in Event
  <2>1. tasks[t].rev \in Nat /\ tasks[t].rev + 1 \in Nat /\ tasks[t].base \in AllCommits \cup {None}
    BY DEF IInv, TypeOK, TaskRow
  <2>2. RoleOfInstance(i) \in WorkerRoles
    BY LedgerAssumption DEF RoleOfInstance, Instances, WorkerRoles
  <2> QED BY <2>1, <2>2 DEF Event, Kinds, TaskStatuses
<1>4. Logged(t, ev)
  BY <1>1, <1>2, <1>3 DEF Logged
<1>5. \A r \in Runs :
        IF r = i THEN runs'[r].task = runs[r].task /\ runs'[r].status = "blocked"
                 ELSE runs'[r] = runs[r]
  BY <1>1 DEF UpdateRunOf, IInv, TypeOK, RunRow
<1>6. DispatchStatuses(ev) = {"blocked", "failed"}
  BY DEF DispatchStatuses
<1> HIDE DEF ev
<1>7. Ended(t, i, ev)
  BY <1>1, <1>4, <1>5, <1>6 DEF Ended, ev
<1> QED BY <1>7

LEMMA RecoverEnds ==
  ASSUME IInv, NEW t \in Tasks, Recover(t)
  PROVE  \E ev : Ended(t, tasks[t].inst, ev) /\ tasks[t].inst \in Instances
<1> DEFINE i == tasks[t].inst
           ev == [task |-> t, rev |-> tasks[t].rev + 1, kind |-> "recovered",
                  actor |-> "OWNER", inst |-> i, to |-> "BLOCKED",
                  producer |-> 0, base |-> None]
<1>1. /\ Running(t) /\ checkpoints' = checkpoints /\ FailActiveRunsOf(t)
      /\ UpdateTask(t, [tasks[t] EXCEPT !.status = "BLOCKED", !.inst = None])
      /\ log' = log \cup {ev}
  BY DEF Recover, RecoverTask, Append
<1>2. /\ \A u \in Tasks : u # t => tasks'[u] = tasks[u]
      /\ tasks'[t].status = "BLOCKED" /\ tasks'[t].base = tasks[t].base
      /\ tasks'[t].rev = tasks[t].rev + 1
  BY <1>1, RestEffect DEF IInv, TaskStatuses
<1>3. i \in Instances
  BY <1>1 DEF IInv, SingleExecution, TypeOK, TaskRow
<1>4. ev \in Event
  <2>1. tasks[t].rev \in Nat /\ tasks[t].rev + 1 \in Nat
    BY DEF IInv, TypeOK, TaskRow
  <2> QED BY <1>3, <2>1 DEF Event, Kinds, TaskStatuses
<1>5. Logged(t, ev)
  BY <1>1, <1>2, <1>3, <1>4 DEF Logged
<1>6. \A r \in Runs : IF ActiveFor(r, t) THEN /\ runs'[r].task = runs[r].task
                                             /\ runs'[r].status = "failed"
                                        ELSE runs'[r] = runs[r]
  BY <1>1 DEF FailActiveRunsOf, IInv, TypeOK, RunRow
<1>7. DispatchStatuses(ev) = {"blocked", "failed"}
  BY DEF DispatchStatuses
<1> HIDE DEF ev, i
<1>8. Ended(t, i, ev)
  BY <1>1, <1>5, <1>6, <1>7 DEF Ended, ev, i, ActiveFor, Active
<1> QED BY <1>3, <1>8 DEF i

LEMMA EndKeepsEvidence ==
  ASSUME EInv, IInv', NEW t \in Tasks, NEW i \in Instances, NEW ev, Ended(t, i, ev)
  PROVE  EInv'
<1>0. Logged(t, ev) /\ log' = log \cup {ev} /\ ev \notin log /\ ~IsClaim(ev)
  BY LoggedDates DEF Ended, Logged, IsClaim
<1>1. Dated'
  BY <1>0, LoggedDates
<1>n. tasks[t].rev \in Nat /\ \A e \in log : e.rev \in Nat /\ e.task \in Tasks
  BY DEF EInv, Dated, Event, IInv, TypeOK, TaskRow
<1>2. PICK own \in log : IsClaim(own) /\ own.task = t /\ Executing(own)
  BY DEF Ended, EInv, Paired
<1>3. own.inst = i /\ own.rev = tasks[t].rev /\ Begins(own, ev)
  BY <1>2, <1>n DEF Executing, Ended, Logged, Begins
<1>4. Terminals(own) = {} /\ Terminals(own)' = {ev}
  <2>1. \A e \in log : e.task = t => e.rev # own.rev + 1
    BY <1>0, <1>3, LoggedDates
  <2> QED BY <1>0, <1>2, <1>3, <2>1 DEF Terminals, Ended, Logged, IsClaim
<1>5. \A e \in log : IsClaim(e) /\ Executing(e) => e = own
  <2>1. \A e \in log : Executing(e) => e.task = t
    BY <1>n DEF Executing, Ended, EInv, IInv, SingleExecution, Running
  <2>2. \A e \in log : Executing(e) => e.task = own.task /\ e.rev = own.rev
    BY <1>2, <2>1 DEF Executing
  <2>3. \A e \in log : e.task = own.task /\ e.rev = own.rev => e = own
    BY <1>2 DEF EInv, Dated
  <2> QED BY <2>2, <2>3
<1>6. \A e \in log : IsClaim(e) /\ e # own => Terminals(e)' = Terminals(e)
  <2>1. ASSUME NEW e \in log, IsClaim(e), e # own PROVE ~(ev.task = e.task /\ ev.rev = e.rev + 1)
    BY <1>0, <1>2, <1>3, <1>n, <2>1 DEF Logged, EInv, Dated
  <2> QED BY <1>0, <2>1 DEF Terminals
<1>7. \A e \in log : Over(e.task) => Over(e.task)'
  BY <1>0, <1>n DEF Over, Ended, Logged, Running
<1>8. Paired'
  <2>1. \A e \in log' :
          /\ e.inst \in Instances
          /\ e.actor = IF e.kind = "recovered" THEN "OWNER" ELSE RoleOfInstance(e.inst)
          /\ IsClaim(e) => RoleOfInstance(e.inst) = ExpectedWorkerRole(e.task)
    BY <1>0 DEF EInv, Paired, Ended, Logged
  <2>2. \A e \in log' : ~IsClaim(e) => e.to # "RUNNING" /\ \E f \in log' : Begins(f, e)
    BY <1>0, <1>3 DEF EInv, Paired, Ended
  <2>3. \A u \in Tasks : ~Running(u)'
    BY DEF Ended, Logged, EInv, IInv, SingleExecution, Running
  <2>4. \A e \in log' : IsClaim(e) => Terminals(e)' # {} \/ Over(e.task)'
    BY <1>0, <1>4, <1>5, <1>6, <1>7 DEF EInv, Paired
  <2> QED BY <2>1, <2>2, <2>3, <2>4 DEF Paired
<1>9. RunsFollow'
  <2>1. ASSUME NEW e \in log', IsClaim(e), e.inst \in Runs PROVE RowFollows(e)'
    <3>0. e \in log /\ RowFollows(e)
      BY <1>0, <2>1 DEF EInv, RunsFollow
    <3>1. CASE e = own
      <4>1. e.inst = i /\ runs[i].task = t /\ e.task = t
        BY <1>2, <1>3, <3>0, <3>1 DEF RowFollows
      <4>2. runs[i].status \in {"running", "failed"}
        BY <1>4, <3>0, <3>1, <4>1 DEF RowFollows
      <4> QED BY <1>4, <2>1, <3>1, <4>1, <4>2 DEF RowFollows, Ended
    <3>2. CASE e # own
      <4>1. e.inst # i
        BY <1>2, <1>3, <2>1, <3>0, <3>2 DEF EInv, RunsFollow
      <4>2. runs[e.inst].status # "running" /\ Terminals(e)' = Terminals(e)
        BY <1>5, <1>6, <2>1, <3>0, <3>2 DEF RowFollows
      <4>3. runs'[e.inst] = runs[e.inst]
        BY <2>1, <3>0, <4>1, <4>2 DEF RowFollows, Ended, Active
      <4> QED BY <3>0, <4>2, <4>3 DEF RowFollows
    <3> QED BY <3>1, <3>2
  <2>2. ASSUME NEW r \in Runs, runs'[r].status \in {"running", "completed", "blocked"}
        PROVE  \E e \in log' : IsClaim(e) /\ e.inst = r
    <3>1. CASE r = i
      BY <1>0, <1>2, <1>3, <3>1
    <3>2. CASE r # i
      BY <1>0, <2>2, <3>2 DEF Ended, EInv, RunsFollow
    <3> QED BY <3>1, <3>2
  <2>3. \A e, f \in log' :
          IsClaim(e) /\ IsClaim(f) /\ e.inst = f.inst /\ e.inst \in Runs => e = f
    BY <1>0 DEF EInv, RunsFollow
  <2> QED BY <2>1, <2>2, <2>3 DEF RunsFollow
<1> QED BY <1>1, <1>8, <1>9 DEF EInv

LEMMA EInvNext == EInv /\ [ENext]_evidence => EInv'
<1> SUFFICES ASSUME EInv, [ENext]_evidence PROVE EInv'
  OBVIOUS
<1>0. IInv /\ IInv'
  BY LedgerKept DEF EInv
<1>1. CASE UNCHANGED evidence
  <2>1. Quiet
    BY <1>1 DEF evidence, Quiet, TaskMoves, RunMoves, CheckpointMoves
  <2> QED BY <1>0, <2>1, QuietKeeps
<1>2. ASSUME NEW t \in Tasks, NEW i \in Instances, Claim(t, i) PROVE EInv'
  BY <1>0, <1>2, ClaimBegins, ClaimKeepsEvidence
<1>3. ASSUME NEW t \in Tasks, NEW i \in Instances,
             NEW outcome \in {"COMPLETED", "FAILED"}, Report(t, i, outcome)
      PROVE  EInv'
  BY <1>0, <1>3, ReportEnds, EndKeepsEvidence
<1>4. ASSUME NEW t \in Tasks, NEW i \in Instances, Block(t, i) PROVE EInv'
  BY <1>0, <1>4, BlockEnds, EndKeepsEvidence
<1>5. ASSUME NEW t \in Tasks, Recover(t) PROVE EInv'
  BY <1>0, <1>5, RecoverEnds, EndKeepsEvidence
<1>6. ASSUME NEW t \in Tasks, Unread(t) PROVE EInv'
  BY <1>0, <1>6, QuietUnread, QuietKeeps
<1>7. ASSUME NEW r \in Runs, RunTransaction(r) PROVE EInv'
  BY <1>0, <1>7, QuietRun, QuietKeeps
<1>8. CASE CheckpointTransaction
  BY <1>0, <1>8, QuietCheckpoint, QuietKeeps
<1> QED BY <1>1, <1>2, <1>3, <1>4, <1>5, <1>6, <1>7, <1>8 DEF ENext

LEMMA Evident == ESpec => []EInv
BY EInvInit, EInvNext, PTL DEF ESpec

-----------------------------------------------------------------------------
(* What bindExecution answers *)

\* The rows and the events are what the schema admits.
THEOREM LogTypeCorrect == ESpec => []LogTypeOK
<1>1. EInv => LogTypeOK
  BY DEF EInv, IInv, Dated, LogTypeOK
<1> QED BY <1>1, Evident, PTL

\* The end that is bound to an execution is its own.
LEMMA BoundEnd ==
  ASSUME EInv, NEW t \in Tasks, NEW i \in Instances, NEW claim, NEW end, NEW status,
         Binds(t, i, status, claim, end)
  PROVE  /\ claim \in log /\ IsClaim(claim) /\ claim.task = t /\ claim.inst = i
         /\ end \in log /\ end.task = t /\ end.rev = claim.rev + 1 /\ ~IsClaim(end)
         /\ Begins(claim, end)
<1>1. /\ claim \in log /\ IsClaim(claim) /\ claim.task = t /\ claim.inst = i
      /\ end \in log /\ end.task = t /\ end.rev = claim.rev + 1 /\ ~IsClaim(end)
  BY DEF Binds, Claims, Terminals, IsClaim
<1>2. PICK f \in log : Begins(f, end)
  BY <1>1 DEF EInv, Paired
<1>3. claim.rev \in Nat
  BY <1>1 DEF EInv, Dated, Event
<1>4. f.rev = claim.rev /\ f.task = claim.task
  BY <1>1, <1>2, <1>3 DEF Begins
<1>5. f = claim
  BY <1>1, <1>4 DEF EInv, Dated
<1> QED BY <1>1, <1>2, <1>5

\* An execution is never credited with the end of another.
THEOREM NothingIsMisattributedHolds == ESpec => []NothingIsMisattributed
<1>1. EInv => NothingIsMisattributed
  <2> SUFFICES ASSUME EInv, NEW claim \in log, NEW end \in log,
                      Binds(claim.task, claim.inst, None, claim, end)
               PROVE  end.inst = claim.inst
    BY DEF NothingIsMisattributed
  <2>1. claim.task \in Tasks /\ claim.inst \in Instances
    BY DEF EInv, Dated, Paired, Event
  <2> QED BY <2>1, BoundEnd DEF Begins
<1> QED BY <1>1, Evident, PTL

\* The REVIEW snapshot bound to an execution is of its completed result.
THEOREM ReviewIsOfResultHolds == ESpec => []ReviewIsOfResult
<1>1. EInv => ReviewIsOfResult
  <2> SUFFICES ASSUME EInv, NEW end \in log, NEW c \in ReviewOf(end)
               PROVE  /\ end.kind = "result" /\ end.to = "COMPLETED"
                      /\ checkpoints[c].prior = end.base
    BY DEF ReviewIsOfResult
  <2>1. /\ c \in CheckpointIds /\ end.task = c[1] /\ end.rev = c[2]
        /\ checkpoints[c].state # "ABSENT" /\ checkpoints[c].purpose = "REVIEW"
    BY DEF ReviewOf, Finalized
  <2> QED BY <2>1 DEF EInv, Dated
<1> QED BY <1>1, Evident, PTL

\* Ends do not come later: what is found of an execution is all there will be.
LEMMA TerminalIsOne ==
  ASSUME EInv, NEW claim \in log, NEW end \in Terminals(claim)
  PROVE  Terminals(claim) = {end}
BY DEF EInv, Dated, Terminals

LEMMA ClaimEnds ==
  ASSUME EInv, NEW claim \in log, IsClaim(claim), NEW end \in Terminals(claim),
         NEW status, Claims(claim.task, claim.inst) = {claim},
         Admitted(claim.task, status), status # None => status \in DispatchStatuses(end)
  PROVE  Binds(claim.task, claim.inst, status, claim, end)
<1>1. end \in log /\ ~IsClaim(end) /\ end.task = claim.task /\ end.rev = claim.rev + 1
  BY DEF Terminals, IsClaim
<1>2. PICK f \in log : Begins(f, end)
  BY <1>1 DEF EInv, Paired
<1>3. claim.rev \in Nat
  BY DEF EInv, Dated, Event
<1>4. f = claim
  BY <1>1, <1>2, <1>3 DEF Begins, EInv, Dated
<1>5. /\ claim.actor = RoleOfInstance(claim.inst)
      /\ claim.actor = ExpectedWorkerRole(claim.task)
      /\ end.actor = IF end.kind = "recovered" THEN "OWNER" ELSE claim.actor
  BY <1>1, <1>2, <1>4 DEF EInv, Paired, IsClaim, Begins
<1>6. Agrees(claim, end, status)
  BY <1>2, <1>4, <1>5 DEF Agrees, Begins
<1> QED BY <1>5, <1>6, TerminalIsOne DEF Binds

\* Only an IMPLEMENTATION task is executed by a runner.
LEMMA RunIsOfImplementation ==
  ASSUME EInv, NEW claim \in log, IsClaim(claim), claim.inst \in Runs
  PROVE  TypeOf[claim.task] = "IMPLEMENTATION"
BY DEF EInv, Paired, RoleOfInstance, ExpectedWorkerRole

\* bindExecution refuses no execution that its server process claimed once.
THEOREM NothingIsRejectedHolds == ESpec => []NothingIsRejected
<1>1. EInv => NothingIsRejected
  <2> SUFFICES ASSUME EInv PROVE NothingIsRejected
    OBVIOUS
  <2>1. ASSUME NEW claim \in log, claim.kind = "claimed",
               Claims(claim.task, claim.inst) = {claim},
               NEW status \in StatusesSeen(claim.inst)
        PROVE  \/ Unavailable(claim.task, claim.inst, status, claim)
               \/ \E end \in log : Binds(claim.task, claim.inst, status, claim, end)
    <3>1. IsClaim(claim) /\ claim.actor = ExpectedWorkerRole(claim.task)
      BY <2>1 DEF IsClaim, EInv, Paired
    <3>2. status # None => claim.inst \in Runs /\ status = runs[claim.inst].status
      BY <2>1 DEF StatusesSeen
    <3>3. Admitted(claim.task, status)
      BY <3>1, <3>2, RunIsOfImplementation DEF Admitted
    <3>4. status # None => RowFollows(claim)
      BY <3>1, <3>2 DEF EInv, RunsFollow
    <3>5. CASE Terminals(claim) = {}
      <4>1. status # None => status \notin {"completed", "blocked"}
        BY <3>2, <3>4, <3>5 DEF RowFollows
      <4> QED BY <2>1, <3>1, <3>3, <3>5, <4>1 DEF Unavailable
    <3>6. ASSUME NEW end \in Terminals(claim)
          PROVE  \E e \in log : Binds(claim.task, claim.inst, status, claim, e)
      <4>1. status # None => status \in DispatchStatuses(end)
        BY <3>2, <3>4 DEF RowFollows
      <4>2. end \in log
        BY DEF Terminals
      <4> QED BY <2>1, <3>1, <3>3, <4>1, <4>2, ClaimEnds
    <3> QED BY <3>5, <3>6
  <2>2. ASSUME NEW r \in Runs, runs[r].status # "absent"
        PROVE  \/ \E e \in log : Claims(runs[r].task, r) = {e}
               \/ FailedBeforeClaim(r)
               \/ NotClaimedYet(r)
    <3>1. CASE HasRunner(r)
      <4>1. PICK e \in log : IsClaim(e) /\ e.inst = r
        BY <3>1 DEF HasRunner, IsClaim
      <4>2. e.task = runs[r].task
        BY <4>1 DEF EInv, RunsFollow, RowFollows
      <4>3. \A f \in log : IsClaim(f) /\ f.inst = r => f = e
        BY <4>1 DEF EInv, RunsFollow
      <4>4. Claims(runs[r].task, r) = {e}
        BY <4>1, <4>2, <4>3 DEF Claims, IsClaim
      <4> QED BY <4>4
    <3>2. CASE ~HasRunner(r)
      <4>1. runs[r].status \in {"launching", "failed"}
        BY <2>2, <3>2 DEF HasRunner, IsClaim, EInv, RunsFollow, IInv, TypeOK, RunRow, RunStatuses
      <4> QED BY <3>2, <4>1 DEF FailedBeforeClaim, NotClaimedYet
    <3> QED BY <3>1, <3>2
  <2> QED BY <2>1, <2>2 DEF NothingIsRejected
<1> QED BY <1>1, Evident, PTL

\* The summary of an execution never contradicts the ledger.
THEOREM SummaryIsTrueHolds == ESpec => []SummaryIsTrue
<1>1. EInv => SummaryIsTrue
  <2> SUFFICES ASSUME EInv, NEW claim \in log, claim.kind = "claimed",
                      Claims(claim.task, claim.inst) = {claim}
               PROVE  LET t == claim.task  i == claim.inst  task == tasks[t] IN
                      /\ Outcome(t, i) = "RUNNING" =>
                           \/ task.status = "RUNNING" /\ task.inst = i /\ task.rev = claim.rev
                           \/ task.status \in {"CANCELLED", "CLOSED"}
                      /\ Outcome(t, i) # "RUNNING" /\ task.rev = claim.rev + 1 =>
                           task.status = Outcome(t, i)
    BY DEF SummaryIsTrue
  <2> DEFINE t == claim.task
             i == claim.inst
  <2>1. IsClaim(claim) /\ t \in Tasks /\ i \in Instances /\ claim.rev \in Nat
    BY DEF IsClaim, EInv, Dated, Paired, Event
  <2>2. CASE Terminals(claim) = {}
    <3>1. Outcome(t, i) = "RUNNING"
      BY <2>2 DEF Outcome, Binds
    <3> QED BY <2>1, <2>2, <3>1 DEF EInv, Paired, Executing, Over
  <2>3. ASSUME NEW end \in Terminals(claim)
        PROVE  /\ Outcome(t, i) = end.to
               /\ end.to # "RUNNING"
               /\ tasks[t].rev = claim.rev + 1 => tasks[t].status = end.to
    <3>1. end \in log /\ end.task = t /\ end.rev = claim.rev + 1 /\ ~IsClaim(end)
      BY DEF Terminals, IsClaim
    <3>2. Binds(t, i, None, claim, end)
      BY <2>1, ClaimEnds DEF Admitted
    <3>3. \A c, e \in log : Binds(t, i, None, c, e) => e = end
      BY <3>2 DEF Binds
    <3>4. (CHOOSE e \in log : \E c \in log : Binds(t, i, None, c, e)) = end
      BY <3>1, <3>2, <3>3
    <3>5. Outcome(t, i) = end.to
      BY <3>1, <3>2, <3>4 DEF Outcome
    <3>6. end.to # "RUNNING" /\ (tasks[t].rev = claim.rev + 1 => tasks[t].status = end.to)
      BY <2>1, <3>1 DEF EInv, Dated, Paired
    <3> QED BY <3>5, <3>6
  <2> QED BY <2>2, <2>3
<1> QED BY <1>1, Evident, PTL

LEMMA LogGrows == [ENext]_evidence => log \subseteq log'
BY DEF ENext, evidence, Claim, Report, Block, Recover, Unread, RunTransaction,
       CheckpointTransaction, Append, AppendReport

\* An answer that names the end of an execution is final.
THEOREM EvidenceStaysHolds == ESpec => EvidenceStays
<1> DEFINE Stays == \A claim, end \in log :
       LET t == claim.task  i == claim.inst IN
       /\ Binds(t, i, None, claim, end) =>
            \/ Binds(t, i, None, claim, end)'
            \/ i \in Workers /\ Claims(t, i)' # {claim}
       /\ i \in Runs /\ Binds(t, i, runs[i].status, claim, end) =>
            Binds(t, i, runs[i].status, claim, end)'
<1>1. EInv /\ EInv' /\ [ENext]_evidence => Stays
  <2> SUFFICES ASSUME EInv, EInv', [ENext]_evidence, NEW claim \in log, NEW end \in log,
                      NEW status, Binds(claim.task, claim.inst, status, claim, end)
               PROVE  /\ \/ Binds(claim.task, claim.inst, None, claim, end)'
                         \/ claim.inst \in Workers /\ Claims(claim.task, claim.inst)' # {claim}
                      /\ claim.inst \in Runs =>
                           Binds(claim.task, claim.inst, runs[claim.inst].status, claim, end)'
    OBVIOUS
  <2> DEFINE t == claim.task
             i == claim.inst
  <2>1. claim \in log' /\ end \in log'
    BY LogGrows
  <2>2. IsClaim(claim) /\ claim.task \in Tasks /\ claim.inst \in Instances
    BY DEF Binds, Claims, IsClaim, EInv, Dated, Paired, Event
  <2>3. Terminals(claim)' = {end}
    BY <2>1 DEF Binds, Terminals, EInv, Dated
  <2>4. claim.actor = ExpectedWorkerRole(t) /\ Agrees(claim, end, None)
    BY DEF Binds, Agrees
  <2>5. ASSUME Claims(t, i)' = {claim} PROVE Binds(t, i, None, claim, end)'
    BY <2>3, <2>4, <2>5 DEF Binds, Admitted, Agrees, ExpectedWorkerRole
  <2>6. ASSUME i \in Runs
        PROVE  Claims(t, i)' = {claim} /\ Binds(t, i, runs[i].status, claim, end)'
    <3>1. Claims(t, i)' = {claim}
      BY <2>1, <2>2, <2>6 DEF Claims, IsClaim, EInv, RunsFollow
    <3>2. runs'[i].status \in DispatchStatuses(end)
      BY <2>1, <2>2, <2>3, <2>6 DEF EInv, RunsFollow, RowFollows
    <3>3. TypeOf[t] = "IMPLEMENTATION"
      BY <2>2, <2>6, RunIsOfImplementation
    <3> QED BY <2>3, <2>4, <3>1, <3>2, <3>3
        DEF Binds, Admitted, Agrees, ExpectedWorkerRole, DispatchStatuses
  <2> QED BY <2>2, <2>5, <2>6 DEF Instances
<1>2. EInv /\ EInv' /\ [ENext]_evidence => [Stays]_evidence
  BY <1>1
<1>3. ESpec => [][Stays]_evidence
  BY <1>2, Evident, PTL DEF ESpec
<1> QED BY <1>3 DEF EvidenceStays

=============================================================================
