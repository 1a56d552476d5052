-------------------------- MODULE CheckpointProofs --------------------------
(***************************************************************************)
(* Safety of Checkpoint for every set of tasks, runs, OWNER processes,     *)
(* workers and commits, wherever a process crashes and whatever is written *)
(* in the worktree.  What the ledger promises is taken from LedgerProofs:  *)
(* each step is one of its transactions.  What is left is between the      *)
(* ledger and Git, of which a process sees now the one and now the other.  *)
(***************************************************************************)
EXTENDS Checkpoint, TLAPS

P == INSTANCE LedgerProofs

-----------------------------------------------------------------------------
(* The ledger *)

\* LedgerProofs speaks of the same transactions ...
LEMMA SameLedger ==
  /\ P!LedgerAssumption
  /\ L!Init => P!Init
  /\ L!Next => P!Next
<1>1. P!LedgerAssumption
  BY CheckpointAssumption
     DEF L!LedgerAssumption, P!LedgerAssumption, L!Types, P!Types,
         L!WorkerRoles, P!WorkerRoles, L!Instances, P!Instances, L!AllCommits,
         P!AllCommits, L!CheckpointIds, P!CheckpointIds, L!IsFiniteSet,
         P!IsFiniteSet
<1>2. L!Init => P!Init
  BY DEF L!Init, P!Init, L!NoTask, P!NoTask, L!NoRun, P!NoRun, L!NoCheckpoint,
         P!NoCheckpoint, L!CheckpointIds, P!CheckpointIds
<1>3. L!TaskStep => P!TaskStep
  BY DEF L!TaskStep, P!TaskStep, L!CreateTask, P!CreateTask,
         L!CreateDiagnosisFromCheckpoint, P!CreateDiagnosisFromCheckpoint,
         L!ClaimTask, P!ClaimTask, L!ClaimNextTask, P!ClaimNextTask,
         L!ReportResult, P!ReportResult, L!ReportBlocked, P!ReportBlocked,
         L!RecoverTask, P!RecoverTask, L!ResumeTask, P!ResumeTask,
         L!CancelTask, P!CancelTask, L!CloseTask, P!CloseTask, L!UpdateTask,
         P!UpdateTask, L!UpdateRunOf, P!UpdateRunOf, L!FailActiveRunsOf,
         P!FailActiveRunsOf, L!FreshTask, P!FreshTask, L!Claimed, P!Claimed,
         L!NoRepositoryCheckpoint, P!NoRepositoryCheckpoint, L!NoTaskRunning,
         P!NoTaskRunning, L!Running, P!Running, L!Reserved, P!Reserved,
         L!ActiveFor, P!ActiveFor, L!Active, P!Active, L!IsC2C, P!IsC2C,
         L!Unfinished, P!Unfinished, L!Finalized, P!Finalized, L!Inserted,
         P!Inserted, L!Cardinality, P!Cardinality, L!OwnCheckpoint,
         P!OwnCheckpoint, L!CanClaim, P!CanClaim, L!RoleOfInstance,
         P!RoleOfInstance, L!ClaimBaseline, P!ClaimBaseline, L!AtBase,
         P!AtBase, L!SeenSnapshots, P!SeenSnapshots, L!Snapshots, P!Snapshots,
         L!AllCommits, P!AllCommits, L!CheckpointIds, P!CheckpointIds,
         L!Instances, P!Instances, L!RESUMABLE, P!RESUMABLE, L!CANCELLABLE,
         P!CANCELLABLE, L!CLOSABLE, P!CLOSABLE
<1>4. L!CheckpointStep => P!CheckpointStep
  BY DEF L!CheckpointStep, P!CheckpointStep, L!PrepareCheckpoint,
         P!PrepareCheckpoint, L!RecordGitApplied, P!RecordGitApplied,
         L!FinalizeTask, P!FinalizeTask, L!MarkFinalized, P!MarkFinalized,
         L!ReopenCheckpoint, P!ReopenCheckpoint, L!RecoveryExclusive,
         P!RecoveryExclusive, L!UpdateTask, P!UpdateTask,
         L!NoRepositoryCheckpoint, P!NoRepositoryCheckpoint, L!NoTaskRunning,
         P!NoTaskRunning, L!NoActiveRun, P!NoActiveRun, L!Running, P!Running,
         L!Active, P!Active, L!Unfinished, P!Unfinished, L!PurposeFits,
         P!PurposeFits, L!Purposes, P!Purposes, L!CheckpointIds,
         P!CheckpointIds
<1>5. L!RunStep => P!RunStep
  BY DEF L!RunStep, P!RunStep, L!InsertRun, P!InsertRun, L!InsertC2CRun,
         P!InsertC2CRun, L!OverwriteRun, P!OverwriteRun,
         L!ClaimC2CDispatchTask, P!ClaimC2CDispatchTask,
         L!FailC2CDispatchBeforeClaim, P!FailC2CDispatchBeforeClaim,
         L!UpdateTask, P!UpdateTask, L!UpdateRunOf, P!UpdateRunOf, L!Claimed,
         P!Claimed, L!NoRepositoryCheckpoint, P!NoRepositoryCheckpoint,
         L!NoTaskRunning, P!NoTaskRunning, L!Running, P!Running,
         L!NoActiveRunFor, P!NoActiveRunFor, L!ActiveFor, P!ActiveFor,
         L!Active, P!Active, L!IsC2C, P!IsC2C, L!Unfinished, P!Unfinished,
         L!Inserted, P!Inserted, L!ClaimBaseline, P!ClaimBaseline, L!AtBase,
         P!AtBase, L!RunStatuses, P!RunStatuses, L!CheckpointIds,
         P!CheckpointIds
<1> QED
  BY <1>1, <1>2, <1>3, <1>4, <1>5 DEF L!Next, P!Next

\* ... so that a step of this module keeps what it proves of them.
LEMMA LedgerKeeps ==
  ASSUME P!LInv, [L!Next]_ledger
  PROVE  P!LInv' /\ L!TypeOK'
<1>1. [P!Next]_P!ledger
  BY SameLedger DEF ledger, P!ledger
<1>2. P!LInv'
  BY <1>1, SameLedger, P!StepKeepsLInv
<1>3. P!TypeOK' => L!TypeOK'
  BY DEF L!TypeOK, P!TypeOK, L!TaskRow, P!TaskRow, L!RunRow, P!RunRow,
         L!CheckpointRow, P!CheckpointRow, L!TaskStatuses, P!TaskStatuses,
         L!RunStatuses, P!RunStatuses, L!CheckpointStates, P!CheckpointStates,
         L!CheckpointIds, P!CheckpointIds, L!Instances, P!Instances,
         L!AllCommits, P!AllCommits, L!Purposes, P!Purposes
<1> QED BY <1>2, <1>3 DEF P!LInv, P!IInv

\* A checkpoint id is a task and a revision, and none of the other commits.
LEMMA CheckpointIdParts ==
  ASSUME NEW c \in L!CheckpointIds
  PROVE  c[1] \in Tasks /\ c \notin Commits /\ c # None
<1>1. PICK t \in Tasks : c \in {t} \X (1..MaxRevision[t])
  BY DEF L!CheckpointIds
<1>2. c[1] = t
  BY <1>1
<1> QED BY <1>2, CheckpointAssumption DEF L!LedgerAssumption, L!AllCommits

-----------------------------------------------------------------------------
(* The inductive invariant *)

\* The places of a call whose commit is on the branch, and has its ref.
PastBranch == {"branch", "index", "applied", "recorded", "finalize", "verify",
               "mark", "confirm", "reopen"}
PastRef == PastBranch \cup {"ref"}

\* What a call relies on, whatever happened since it looked: its intent stays
\* durable, the ref of its commit stays, and so does its commit on the branch,
\* of which a snapshot shows one.
Relied ==
  /\ \A o \in Owners :
       /\ op[o].pc \notin {"idle", "planned"} => checkpoints[op[o].c].state # "ABSENT"
       /\ op[o].pc \in PastRef => op[o].c \in repo.refs
       /\ op[o].pc \in PastBranch => op[o].c \in repo.line
  /\ \A p \in Clients : seen[p] # None => seen[p].head \in repo.line

\* The branch never comes back to a commit.  An intent is planned on a commit of
\* the branch, and once its own commit follows, HEAD is past both: a late
\* update-ref of an intent that is done finds another value than it expects.
LineIsKept ==
  /\ repo.head \in repo.line
  /\ \A k \in Commits : k \in repo.line => content[k] # None
  /\ \A c \in L!CheckpointIds :
       /\ checkpoints[c].state # "ABSENT"
            => checkpoints[c].prior \in repo.line \cup {None}
       /\ c \in repo.line => c \in repo.refs /\ repo.head # checkpoints[c].prior

IInv == P!LInv /\ TypeOK /\ GitFollowsIntent /\ BaseIsHeld /\ Relied /\ LineIsKept

\* A snapshot taken earlier is one that inspectRepo could take now.
LEMMA SeenIsSeen ==
  ASSUME IInv, NEW p \in Clients, seen[p] # None
  PROVE  seen[p] \in L!SeenSnapshots
<1>1. seen[p] \in L!Snapshots /\ seen[p].head \in repo.line
  BY DEF IInv, TypeOK, Relied
<1>2. ASSUME seen[p].head \in L!CheckpointIds
      PROVE  checkpoints[seen[p].head].state # "ABSENT"
  BY <1>1, <1>2 DEF IInv, LineIsKept, GitFollowsIntent
<1> QED BY <1>1, <1>2 DEF L!SeenSnapshots

-----------------------------------------------------------------------------
(* Each step is a transaction of the ledger *)

\* The steps of a process that leave the ledger alone.
LEMMA QuietSteps ==
  /\ \A o \in Owners :
       \/ Call(o) \/ CheckPlan(o) \/ WriteRef(o) \/ MoveBranch(o) \/ ReadTree(o)
       \/ VerifyApplied(o) \/ ReadState(o) \/ VerifyFinal(o) \/ Confirm(o)
       \/ Throw(o) \/ Crash(o)
       => UNCHANGED ledger
  /\ \A p \in Clients : Look(p) \/ Forget(p) => UNCHANGED ledger
  /\ \A w \in Workers, tree \in Trees : Work(w, tree) => UNCHANGED ledger
  /\ \A w \in Workers, k \in Commits : CommitWork(w, k) => UNCHANGED ledger
  /\ Unclaimed => UNCHANGED ledger
<1>1. ASSUME NEW o \in Owners, Call(o) PROVE UNCHANGED ledger
  BY <1>1 DEF Call, Plan, Retry
<1>2. ASSUME NEW o \in Owners,
             \/ CheckPlan(o) \/ WriteRef(o) \/ MoveBranch(o) \/ ReadTree(o)
             \/ VerifyApplied(o) \/ ReadState(o) \/ VerifyFinal(o) \/ Confirm(o)
             \/ Throw(o) \/ Crash(o)
      PROVE  UNCHANGED ledger
  BY <1>2 DEF CheckPlan, WriteRef, MoveBranch, ReadTree, VerifyApplied, ReadState,
     VerifyFinal, Confirm, Throw, Crash
<1>3. \A p \in Clients : Look(p) \/ Forget(p) => UNCHANGED ledger
  BY DEF Look, Forget
<1>4. /\ \A w \in Workers, tree \in Trees : Work(w, tree) => UNCHANGED ledger
      /\ \A w \in Workers, k \in Commits : CommitWork(w, k) => UNCHANGED ledger
      /\ Unclaimed => UNCHANGED ledger
  BY DEF Work, CommitWork, Unclaimed, Edit, Commit, WriteFiles, CommitFiles
<1> QED BY <1>1, <1>2, <1>3, <1>4

LEMMA StepsAreTransactions ==
  ASSUME IInv, [Next]_vars
  PROVE  [L!Next]_ledger
<1>1. ASSUME NEW o \in Owners, op[o].pc # "idle" PROVE op[o].c \in L!CheckpointIds
  BY <1>1 DEF IInv, TypeOK
<1>2. ASSUME NEW o \in Owners, Prepare(o) PROVE L!Next
  <2>1. PICK c \in L!CheckpointIds, p \in L!Purposes :
          c = op[o].c /\ p = op[o].purpose
    BY <1>2 DEF Prepare, At, IInv, TypeOK
  <2>2. L!PrepareCheckpoint(c[1], c[2], p) /\ c[1] \in Tasks
    BY <1>2, <2>1, CheckpointIdParts DEF Prepare
  <2>3. c[2] = tasks[c[1]].rev
    BY <2>2 DEF L!PrepareCheckpoint
  <2> QED BY <2>2, <2>3 DEF L!CheckpointStep, L!Next
<1>3. ASSUME NEW o \in Owners,
             RecordApplied(o) \/ Finalize(o) \/ MarkFinalized(o) \/ Reopen(o)
      PROVE  L!Next
  <2>1. op[o].c \in L!CheckpointIds
    BY <1>1, <1>3 DEF RecordApplied, Finalize, MarkFinalized, Reopen, At
  <2> QED BY <1>3, <2>1 DEF RecordApplied, Finalize, MarkFinalized, Reopen,
             L!CheckpointStep, L!Next
<1>4. ASSUME NEW o \in Owners, NEW t \in Tasks, Create(o, t) \/ Resume(o, t)
      PROVE  L!Next
  <2>1. o \in Clients /\ seen[o] # None
    BY <1>4 DEF Create, Resume, Clients
  <2>2. seen[o] \in L!SeenSnapshots
    BY <2>1, SeenIsSeen
  <2> QED BY <1>4, <2>2 DEF Create, Resume, L!TaskStep, L!Next
<1>5. ASSUME NEW w \in Workers, NEW t \in Tasks, Claim(w, t) PROVE L!Next
  <2>1. L!ClaimTask(t, w, tasks[t].rev, seen[w]) /\ w \in L!Instances
    BY <1>5 DEF Claim, L!Instances
  <2>2. seen[w] \in L!Snapshots
    BY <1>5 DEF Claim, IInv, TypeOK, Clients
  <2>3. seen[w].clean /\ seen[w].head = tasks[t].base
    BY <2>1 DEF L!ClaimTask, L!ClaimBaseline
  <2>4. seen[w] = L!AtBase(t)
    BY <2>2, <2>3 DEF L!Snapshots, L!AtBase
  <2> QED BY <2>1, <2>4 DEF L!TaskStep, L!Next
<1>6. ASSUME NEW w \in Workers, NEW t \in Tasks, Report(w, t) PROVE L!Next
  BY <1>6 DEF Report, L!Instances, L!TaskStep, L!Next
<1>7. ASSUME NEW o \in Owners, NEW t \in Tasks, Recover(o, t) \/ Cancel(o, t)
      PROVE  L!Next
  BY <1>7 DEF Recover, Cancel, L!TaskStep, L!Next
<1>8. CASE UNCHANGED vars
  BY <1>8 DEF vars
<1> QED BY <1>2, <1>3, <1>4, <1>5, <1>6, <1>7, <1>8, QuietSteps
        DEF Next, OwnerStep, Step, ClientStep

-----------------------------------------------------------------------------
(* What a step does to the rows *)

Recorded == {"GIT_APPLIED", "FINALIZING", "FINALIZED"}

\* An intent stays durable, on the base its task had when it was planned, and its
\* commit is recorded by a call that put it on the branch.
StatesGrow ==
  \A c \in L!CheckpointIds :
    /\ checkpoints[c].state # "ABSENT"
         => /\ checkpoints'[c].state # "ABSENT"
            /\ checkpoints'[c].prior = checkpoints[c].prior
    /\ checkpoints[c].state = "ABSENT" /\ checkpoints'[c].state # "ABSENT"
         => checkpoints'[c].prior = tasks[c[1]].base
    /\ checkpoints'[c].state \in Recorded
         => checkpoints[c].state \in Recorded \/ c \in repo.refs \cap repo.line

LEMMA StepStates ==
  ASSUME IInv, [Next]_vars
  PROVE  StatesGrow
<1>1. CASE UNCHANGED checkpoints
  BY <1>1 DEF StatesGrow
<1>2. ASSUME NEW o \in Owners, Prepare(o) PROVE StatesGrow
  BY <1>2 DEF Prepare, L!PrepareCheckpoint, IInv, TypeOK, L!TypeOK, L!CheckpointRow,
     Recorded, StatesGrow
<1>3. ASSUME NEW o \in Owners,
             RecordApplied(o) \/ Finalize(o) \/ MarkFinalized(o) \/ Reopen(o)
      PROVE  StatesGrow
  <2>1. PICK c : c = op[o].c
    OBVIOUS
  <2>2. /\ c \in L!CheckpointIds /\ c \in repo.refs \cap repo.line
        /\ checkpoints[c].state # "ABSENT"
    BY <1>3, <2>1 DEF RecordApplied, Finalize, MarkFinalized, Reopen, At, IInv,
       TypeOK, Relied, PastRef, PastBranch
  <2>3. PICK s \in Recorded : checkpoints' = [checkpoints EXCEPT ![c].state = s]
    BY <1>3, <2>1 DEF RecordApplied, Finalize, MarkFinalized, Reopen,
       L!RecordGitApplied, L!FinalizeTask, L!MarkFinalized, L!ReopenCheckpoint,
       Recorded
  <2>4. /\ checkpoints'[c].state = s /\ checkpoints'[c].prior = checkpoints[c].prior
        /\ \A d \in L!CheckpointIds : d # c => checkpoints'[d] = checkpoints[d]
    BY <2>2, <2>3 DEF IInv, TypeOK, L!TypeOK, L!CheckpointRow
  <2> QED BY <2>2, <2>4 DEF Recorded, StatesGrow
<1>4. ASSUME NEW o \in Owners, NEW t \in Tasks,
             Create(o, t) \/ Resume(o, t) \/ Recover(o, t) \/ Cancel(o, t)
      PROVE  UNCHANGED checkpoints
  BY <1>4 DEF Create, Resume, Recover, Cancel, L!CreateTask, L!ResumeTask,
     L!RecoverTask, L!CancelTask
<1>5. ASSUME NEW w \in Workers, NEW t \in Tasks, Claim(w, t) \/ Report(w, t)
      PROVE  UNCHANGED checkpoints
  BY <1>5 DEF Claim, Report, L!ClaimTask, L!ReportBlocked, L!ReportResult
<1>6. CASE UNCHANGED vars
  BY <1>1, <1>6 DEF vars, ledger
<1>7. UNCHANGED ledger => UNCHANGED checkpoints
  BY DEF ledger
<1> QED BY <1>1, <1>2, <1>3, <1>4, <1>5, <1>6, <1>7, QuietSteps
        DEF Next, OwnerStep, Step, ClientStep

\* A task gets a new base from a snapshot or from the commit of its checkpoint,
\* which is a commit of the branch.
BasesMove ==
  \A t \in Tasks :
    tasks'[t].base # tasks[t].base => tasks'[t].base \in repo.line

LEMMA StepBases ==
  ASSUME IInv, [Next]_vars
  PROVE  BasesMove
<1>1. CASE UNCHANGED tasks
  BY <1>1 DEF BasesMove
<1>2. ASSUME NEW t \in Tasks, NEW row \in L!TaskRow, L!UpdateTask(t, row),
             row.base # tasks[t].base => row.base \in repo.line
      PROVE  BasesMove
  <2>1. tasks'[t].base = row.base
    BY <1>2 DEF L!UpdateTask, IInv, TypeOK, L!TypeOK, L!TaskRow
  <2>2. \A u \in Tasks : u # t => tasks'[u] = tasks[u]
    BY <1>2 DEF L!UpdateTask, IInv, TypeOK, L!TypeOK
  <2> QED BY <1>2, <2>1, <2>2 DEF BasesMove
<1>3. ASSUME NEW o \in Owners, NEW t \in Tasks, Create(o, t) PROVE BasesMove
  <2>1. o \in Clients /\ seen[o] # None
    BY <1>3 DEF Create, Clients
  <2>2. seen[o].head \in repo.line
    BY <2>1 DEF IInv, Relied
  <2>3. tasks' = [tasks EXCEPT ![t] = L!FreshTask(seen[o].head, None)]
    BY <1>3 DEF Create, L!CreateTask
  <2>4. L!FreshTask(seen[o].head, None).base = seen[o].head
    BY DEF L!FreshTask
  <2> QED BY <2>2, <2>3, <2>4 DEF IInv, TypeOK, L!TypeOK, BasesMove
<1>4. ASSUME NEW o \in Owners, NEW t \in Tasks, Resume(o, t) PROVE BasesMove
  <2>1. o \in Clients /\ seen[o] # None
    BY <1>4 DEF Resume, Clients
  <2>2. seen[o].head \in repo.line /\ seen[o].head \in L!AllCommits
    BY <2>1 DEF IInv, Relied, TypeOK, L!Snapshots
  <2> DEFINE row == [tasks[t] EXCEPT !.status = "READY", !.inst = None,
                                     !.base = seen[o].head, !.resultBy = None]
  <2>3. L!UpdateTask(t, row)
    BY <1>4 DEF Resume, L!ResumeTask
  <2>4. tasks[t] \in L!TaskRow
    BY DEF IInv, TypeOK, L!TypeOK
  <2>5. row \in L!TaskRow /\ row.base = seen[o].head
    BY <2>2, <2>4 DEF L!TaskRow, L!TaskStatuses
  <2> HIDE DEF row
  <2> QED BY <1>2, <2>2, <2>3, <2>5
<1>5. ASSUME NEW w \in Workers, NEW t \in Tasks, Claim(w, t) PROVE BasesMove
  <2>1. L!UpdateTask(t, L!Claimed(t, w)) /\ w \in L!Instances
    BY <1>5 DEF Claim, L!ClaimTask, L!Instances
  <2>2. tasks[t] \in L!TaskRow
    BY DEF IInv, TypeOK, L!TypeOK
  <2>3. /\ L!Claimed(t, w) \in L!TaskRow
        /\ L!Claimed(t, w).base = tasks[t].base
    BY <2>1, <2>2 DEF L!Claimed, L!TaskRow, L!TaskStatuses
  <2> QED BY <1>2, <2>1, <2>3
<1>6. ASSUME NEW w \in Workers, NEW t \in Tasks, Report(w, t) PROVE BasesMove
  <2>1. PICK s \in L!TaskStatuses, i \in L!Instances \cup {None} :
          L!UpdateTask(t, [tasks[t] EXCEPT !.status = s, !.inst = None,
                                           !.resultBy = i])
    <3>1. tasks[t].resultBy \in L!Instances \cup {None}
      BY DEF IInv, TypeOK, L!TypeOK, L!TaskRow
    <3>2. CASE L!ReportBlocked(t, w, tasks[t].rev)
      <4>1. [tasks[t] EXCEPT !.status = "BLOCKED", !.inst = None]
              = [tasks[t] EXCEPT !.status = "BLOCKED", !.inst = None,
                                 !.resultBy = tasks[t].resultBy]
        BY DEF IInv, TypeOK, L!TypeOK, L!TaskRow
      <4> QED BY <3>1, <3>2, <4>1 DEF L!ReportBlocked, L!TaskStatuses
    <3>3. CASE \E outcome \in {"COMPLETED", "FAILED"} :
                 L!ReportResult(t, w, tasks[t].rev, outcome)
      BY <3>3 DEF L!ReportResult, L!TaskStatuses, L!Instances
    <3> QED BY <1>6, <3>2, <3>3 DEF Report
  <2> DEFINE row == [tasks[t] EXCEPT !.status = s, !.inst = None, !.resultBy = i]
  <2>2. tasks[t] \in L!TaskRow
    BY DEF IInv, TypeOK, L!TypeOK
  <2>3. row \in L!TaskRow /\ row.base = tasks[t].base
    BY <2>2 DEF L!TaskRow
  <2>4. L!UpdateTask(t, row)
    BY <2>1
  <2> HIDE DEF row
  <2> QED BY <1>2, <2>3, <2>4
<1>11. ASSUME NEW o \in Owners, NEW t \in Tasks, Recover(o, t) \/ Cancel(o, t)
       PROVE  BasesMove
  <2>1. PICK s \in {"BLOCKED", "CANCELLED"} :
          L!UpdateTask(t, [tasks[t] EXCEPT !.status = s, !.inst = None])
    BY <1>11 DEF Recover, Cancel, L!RecoverTask, L!CancelTask
  <2> DEFINE row == [tasks[t] EXCEPT !.status = s, !.inst = None]
  <2>2. tasks[t] \in L!TaskRow
    BY DEF IInv, TypeOK, L!TypeOK
  <2>3. row \in L!TaskRow /\ row.base = tasks[t].base
    BY <2>2 DEF L!TaskRow, L!TaskStatuses
  <2>4. L!UpdateTask(t, row)
    BY <2>1
  <2> HIDE DEF row
  <2> QED BY <1>2, <2>3, <2>4
<1>7. ASSUME NEW o \in Owners, Finalize(o) PROVE BasesMove
  <2>1. PICK c \in L!CheckpointIds : c = op[o].c /\ c \in repo.line
    BY <1>7 DEF Finalize, At, IInv, TypeOK, Relied, PastBranch
  <2> DEFINE row == [tasks[c[1]] EXCEPT !.base = c]
  <2>2. L!UpdateTask(c[1], row) /\ c[1] \in Tasks
    BY <1>7, <2>1, CheckpointIdParts DEF Finalize, L!FinalizeTask
  <2>3. tasks[c[1]] \in L!TaskRow
    BY <2>2 DEF IInv, TypeOK, L!TypeOK
  <2>4. row \in L!TaskRow /\ row.base = c
    BY <2>3 DEF L!TaskRow, L!AllCommits
  <2> HIDE DEF row
  <2> QED BY <1>2, <2>1, <2>2, <2>4
<1>8. ASSUME NEW o \in Owners,
             Prepare(o) \/ RecordApplied(o) \/ MarkFinalized(o) \/ Reopen(o)
      PROVE  UNCHANGED tasks
  BY <1>8 DEF Prepare, RecordApplied, MarkFinalized, Reopen, L!PrepareCheckpoint,
     L!RecordGitApplied, L!MarkFinalized, L!ReopenCheckpoint
<1>9. CASE UNCHANGED vars
  BY <1>1, <1>9 DEF vars, ledger
<1>10. UNCHANGED ledger => UNCHANGED tasks
  BY DEF ledger
<1> QED BY <1>1, <1>3, <1>4, <1>5, <1>6, <1>7, <1>8, <1>9, <1>10, <1>11,
           QuietSteps
        DEF Next, OwnerStep, Step, ClientStep

-----------------------------------------------------------------------------
(* What a step does to Git *)

\* Git keeps its refs and the commits of its branch, which only goes to a new
\* commit, and to that of a checkpoint only where an intent leads.
GitMoves ==
  /\ repo' \in [head : L!AllCommits, index : L!AllCommits, work : Trees,
                line : SUBSET L!AllCommits, refs : SUBSET L!CheckpointIds]
  /\ repo.refs \subseteq repo'.refs
  /\ repo'.line = repo.line \cup {repo'.head}
  /\ repo'.head # repo.head => repo'.head \notin repo.line
  /\ \A c \in repo'.refs : c \in repo.refs \/ checkpoints[c].state # "ABSENT"
  /\ \A c \in L!CheckpointIds :
       /\ repo'.head = c \/ repo'.index = c => c \in repo.refs
       /\ repo.head # c /\ repo'.head = c => repo.head = checkpoints[c].prior

LEMMA StepGit ==
  ASSUME IInv, [Next]_vars
  PROVE  GitMoves
<1> USE DEF IInv, TypeOK, LineIsKept
<1>1. ASSUME UNCHANGED repo PROVE GitMoves
  BY <1>1 DEF GitMoves, GitFollowsIntent
<1>2. ASSUME NEW o \in Owners, NEW c, c = op[o].c,
             WriteRef(o) \/ MoveBranch(o) \/ ReadTree(o)
      PROVE  GitMoves
  <2>1. /\ c \in L!CheckpointIds
        /\ checkpoints[c].state # "ABSENT"
        /\ ~At(o, "commit") => c \in repo.refs
    BY <1>2 DEF WriteRef, MoveBranch, ReadTree, At, Relied, PastRef, PastBranch
  <2>2. CASE WriteRef(o)
    <3>1. repo' = [repo EXCEPT !.refs = @ \cup {c}]
      BY <1>2, <2>2 DEF WriteRef
    <3> QED BY <2>1, <3>1 DEF GitMoves, GitFollowsIntent
  <2>3. CASE MoveBranch(o)
    <3>1. /\ repo' = [repo EXCEPT !.head = c, !.line = @ \cup {c}]
          /\ c \in repo.refs
          /\ repo.head \in {checkpoints[c].prior, c}
      BY <1>2, <2>1, <2>3 DEF MoveBranch, At
    <3>2. repo.head # c => c \notin repo.line
      BY <2>1, <3>1
    <3> QED BY <2>1, <3>1, <3>2 DEF GitMoves, GitFollowsIntent, L!AllCommits
  <2>4. CASE ReadTree(o)
    <3>1. repo' = [repo EXCEPT !.index = c] /\ c \in repo.refs
      BY <1>2, <2>1, <2>4 DEF ReadTree, At
    <3> QED BY <2>1, <3>1 DEF GitMoves, GitFollowsIntent, L!AllCommits
  <2> QED BY <1>2, <2>2, <2>3, <2>4
<1>3. ASSUME NEW tree \in Trees, repo' = [repo EXCEPT !.work = tree] PROVE GitMoves
  BY <1>3 DEF GitMoves, GitFollowsIntent
<1>4. ASSUME NEW k \in Commits, CommitFiles(k) PROVE GitMoves
  <2>1. k \notin L!CheckpointIds /\ k \in L!AllCommits
    BY CheckpointIdParts DEF L!AllCommits
  <2>2. repo' = [repo EXCEPT !.head = k, !.line = @ \cup {k}, !.index = k]
        /\ k \notin repo.line
    BY <1>4 DEF CommitFiles
  <2> QED BY <2>1, <2>2 DEF GitMoves, GitFollowsIntent
<1>5. ASSUME NEW o \in Owners,
             \/ Call(o) \/ Prepare(o) \/ CheckPlan(o) \/ VerifyApplied(o)
             \/ RecordApplied(o) \/ ReadState(o) \/ Finalize(o) \/ VerifyFinal(o)
             \/ MarkFinalized(o) \/ Confirm(o) \/ Reopen(o) \/ Throw(o) \/ Crash(o)
      PROVE  UNCHANGED repo
  BY <1>5 DEF git, Call, Plan, Retry, Prepare, CheckPlan, VerifyApplied,
     RecordApplied, ReadState, Finalize, VerifyFinal, MarkFinalized, Confirm, Reopen,
     Throw, Crash
<1>6. ASSUME NEW p \in Clients, Look(p) \/ Forget(p) PROVE UNCHANGED repo
  BY <1>6 DEF git, Look, Forget
<1>7. ASSUME NEW p, NEW t \in Tasks,
             \/ Create(p, t) \/ Resume(p, t) \/ Recover(p, t) \/ Cancel(p, t)
             \/ Claim(p, t) \/ Report(p, t)
      PROVE  UNCHANGED repo
  BY <1>7 DEF git, Create, Resume, Recover, Cancel, Claim, Report
<1>8. ASSUME NEW w, NEW tree \in Trees, Work(w, tree) \/ Edit(tree) PROVE GitMoves
  BY <1>3, <1>8 DEF Work, Edit, WriteFiles
<1>9. ASSUME NEW w, NEW k \in Commits, CommitWork(w, k) \/ Commit(k) PROVE GitMoves
  BY <1>4, <1>9 DEF CommitWork, Commit
<1>10. CASE UNCHANGED vars
  BY <1>1, <1>10 DEF vars, git
<1> QED BY <1>1, <1>2, <1>5, <1>6, <1>7, <1>8, <1>9, <1>10
        DEF Next, OwnerStep, Step, ClientStep, Unclaimed

\* HEAD gets to a commit that is no checkpoint by somebody committing it.
LEMMA HeadOfCommit ==
  ASSUME IInv, [Next]_vars, NEW k \in Commits, repo'.head = k, repo.head # k
  PROVE  CommitFiles(k)
<1> USE DEF IInv, TypeOK
<1>1. ASSUME NEW o \in Owners, OwnerStep(o) PROVE FALSE
  <2>1. CASE MoveBranch(o)
    <3>1. op[o].c \in L!CheckpointIds /\ repo'.head = op[o].c
      BY <2>1 DEF MoveBranch, At
    <3> QED BY <3>1, CheckpointIdParts
  <2>2. CASE ~MoveBranch(o)
    <3>1. repo'.head = repo.head
      BY <1>1, <2>2 DEF git, OwnerStep, Step, Call, Plan, Retry, Prepare, CheckPlan,
         WriteRef, ReadTree, VerifyApplied, RecordApplied, ReadState, Finalize,
         VerifyFinal, MarkFinalized, Confirm, Reopen, Throw, Crash
    <3> QED BY <3>1
  <2> QED BY <2>1, <2>2
<1>2. ASSUME NEW l \in Commits, CommitFiles(l) PROVE CommitFiles(k)
  <2>1. repo'.head = l
    BY <1>2 DEF CommitFiles
  <2> QED BY <1>2, <2>1
<1>3. ASSUME NEW tree \in Trees, WriteFiles(tree) PROVE FALSE
  BY <1>3 DEF WriteFiles
<1>4. ASSUME UNCHANGED repo PROVE FALSE
  BY <1>4
<1>5. CASE ClientStep
  BY <1>2, <1>3, <1>4, <1>5
     DEF git, ClientStep, Look, Forget, Create, Resume, Recover, Cancel, Claim, Report,
         Work, CommitWork
<1>6. CASE Unclaimed
  BY <1>2, <1>3, <1>6 DEF Unclaimed, Edit, Commit
<1>7. CASE UNCHANGED vars
  BY <1>4, <1>7 DEF vars, git
<1> QED BY <1>1, <1>5, <1>6, <1>7 DEF Next

\* The trees of commits stay trees, and a new commit has one.
LEMMA StepTrees ==
  ASSUME IInv, [Next]_vars
  PROVE  /\ plan' \in [L!CheckpointIds -> Trees \cup {None}]
         /\ content' \in [Commits -> Trees \cup {None}]
         /\ \A k \in Commits : k \in repo'.line => content'[k] # None
<1> USE DEF IInv, TypeOK
<1>1. ASSUME NEW o \in Owners, Prepare(o)
      PROVE  plan' \in [L!CheckpointIds -> Trees \cup {None}]
  <2>1. op[o].tree \in Trees
    BY <1>1 DEF Prepare, At
  <2> QED BY <1>1, <2>1 DEF Prepare
<1>2. ASSUME NEW k \in Commits, CommitFiles(k)
      PROVE  /\ content' \in [Commits -> Trees \cup {None}]
             /\ \A l \in Commits : l \in repo'.line => content'[l] # None
  <2>1. /\ repo'.line = repo.line \cup {k}
        /\ content' = [content EXCEPT ![k] = repo.work]
        /\ repo.work \in Trees
    BY <1>2 DEF CommitFiles
  <2> QED BY <2>1, CheckpointAssumption DEF LineIsKept
<1>3. /\ UNCHANGED plan \/ \E o \in Owners : Prepare(o)
      /\ UNCHANGED content \/ \E k \in Commits : CommitFiles(k)
  <2>1. ASSUME NEW o \in Owners, OwnerStep(o)
        PROVE  UNCHANGED content /\ (UNCHANGED plan \/ Prepare(o))
    BY <2>1 DEF git, OwnerStep, Step, Call, Plan, Retry, Prepare, CheckPlan,
       WriteRef, MoveBranch, ReadTree, VerifyApplied, RecordApplied, ReadState,
       Finalize, VerifyFinal, MarkFinalized, Confirm, Reopen, Throw, Crash
  <2>5. ASSUME NEW tree \in Trees, WriteFiles(tree) PROVE UNCHANGED <<plan, content>>
    BY <2>5 DEF WriteFiles
  <2>6. ASSUME NEW k \in Commits, CommitFiles(k) PROVE UNCHANGED plan
    BY <2>6 DEF CommitFiles
  <2>2. CASE ClientStep
    BY <2>2, <2>5, <2>6
       DEF git, ClientStep, Look, Forget, Create, Resume, Recover, Cancel, Claim, Report,
           Work, CommitWork
  <2>3. CASE Unclaimed
    BY <2>3, <2>5, <2>6 DEF Unclaimed, Edit, Commit
  <2>4. CASE UNCHANGED vars
    BY <2>4 DEF vars, git
  <2> QED BY <2>1, <2>2, <2>3, <2>4 DEF Next
<1>4. ASSUME NEW k \in Commits, UNCHANGED content, k \in repo'.line
      PROVE  content'[k] # None
  <2>1. k \in repo.line
    <3>1. CASE repo'.head = k /\ repo.head # k
      <4>1. content'[k] \in Trees /\ content[k] = None
        BY <3>1, HeadOfCommit DEF CommitFiles
      <4> QED BY <1>4, <4>1, CheckpointAssumption
    <3>2. CASE repo'.head # k \/ repo.head = k
      BY <1>4, <3>2, StepGit DEF GitMoves, LineIsKept
    <3> QED BY <3>1, <3>2
  <2> QED BY <1>4, <2>1 DEF LineIsKept
<1> QED BY <1>1, <1>2, <1>3, <1>4

-----------------------------------------------------------------------------
(* What a step does to the calls *)

\* A call is typed, its intent is durable and its commit has the ref and is on
\* the branch when it should.
OpOK(x) ==
  /\ x \in Calls
  /\ x.pc # "idle" => x.c \in L!CheckpointIds
  /\ x.pc = "planned" => x.purpose \in L!Purposes /\ x.tree \in Trees
  /\ x.pc \notin {"idle", "planned"} => checkpoints[x.c].state # "ABSENT"
  /\ x.pc \in PastRef => x.c \in repo.refs
  /\ x.pc \in PastBranch => x.c \in repo.line

OpsOK == op = [o \in Owners |-> op[o]] /\ \A o \in Owners : OpOK(op[o])

LEMMA OpsAreOK == TypeOK /\ Relied => OpsOK
BY DEF TypeOK, Relied, OpsOK, OpOK

LEMMA OpKept ==
  ASSUME StatesGrow, GitMoves, NEW x, OpOK(x)
  PROVE  OpOK(x)'
BY DEF StatesGrow, GitMoves, OpOK, PastRef, PastBranch

LEMMA OpWritten ==
  ASSUME OpsOK, StatesGrow, GitMoves, NEW o \in Owners, NEW x, OpOK(x)',
         op' = [op EXCEPT ![o] = x]
  PROVE  OpsOK'
<1>1. \A u \in Owners : op'[u] = IF u = o THEN x ELSE op[u]
  BY DEF OpsOK
<1>2. op' = [u \in Owners |-> op'[u]]
  BY DEF OpsOK
<1>3. ASSUME NEW u \in Owners PROVE OpOK(op[u])'
  <2>1. CASE u = o
    BY <1>1, <2>1 DEF OpOK
  <2>2. CASE u # o
    <3>1. op'[u] = op[u] /\ OpOK(op[u])
      BY <1>1, <2>2 DEF OpsOK
    <3>2. PICK y : y = op[u]
      OBVIOUS
    <3>3. OpOK(y)'
      BY <3>1, <3>2, OpKept
    <3> QED BY <3>1, <3>2, <3>3 DEF OpOK
  <2> QED BY <2>1, <2>2
<1> QED BY <1>2, <1>3 DEF OpsOK

LEMMA StepOps ==
  ASSUME IInv, [Next]_vars
  PROVE  OpsOK'
<1>1. OpsOK /\ StatesGrow /\ GitMoves
  BY OpsAreOK, StepStates, StepGit DEF IInv
<1>2. ASSUME UNCHANGED op PROVE OpsOK'
  <2>1. ASSUME NEW u \in Owners PROVE OpOK(op[u])'
    <3>1. PICK y : y = op[u] /\ OpOK(y)
      BY <1>1 DEF OpsOK
    <3>2. OpOK(y)'
      BY <1>1, <3>1, OpKept
    <3> QED BY <1>2, <3>1, <3>2 DEF OpOK
  <2> QED BY <1>1, <1>2, <2>1 DEF OpsOK
<1>3. ASSUME NEW o \in Owners, Return(o) PROVE OpsOK'
  <2>1. OpOK(Idle)'
    BY DEF OpOK, Idle, Calls, PastRef, PastBranch
  <2> QED BY <1>1, <1>3, <2>1, OpWritten DEF Return
<1>4. ASSUME NEW o \in Owners, op[o].pc \in PastRef, NEW pc \in PastBranch,
             op[o].c \in repo'.line, Goto(o, pc)
      PROVE  OpsOK'
  <2>1. PICK x : x = [op[o] EXCEPT !.pc = pc]
    OBVIOUS
  <2>2. OpOK(op[o])
    BY <1>1 DEF OpsOK
  <2>3. /\ x \in Calls /\ x.pc = pc /\ x.c = op[o].c
        /\ x.c \in L!CheckpointIds /\ x.c \in repo.refs
        /\ checkpoints[x.c].state # "ABSENT"
    BY <1>4, <2>1, <2>2 DEF OpOK, Calls, PastRef, PastBranch
  <2>4. /\ x.c \in repo'.refs /\ x.c \in repo'.line
        /\ checkpoints'[x.c].state # "ABSENT"
    BY <1>1, <1>4, <2>3 DEF StatesGrow, GitMoves
  <2>5. OpOK(x)'
    BY <2>3, <2>4 DEF OpOK, PastRef, PastBranch
  <2>6. op' = [op EXCEPT ![o] = x]
    BY <1>4, <2>1 DEF Goto
  <2> QED BY <1>1, <2>5, <2>6, OpWritten
<1>5. ASSUME NEW o \in Owners, NEW t \in Tasks, NEW p \in L!Purposes, Plan(o, t, p)
      PROVE  OpsOK'
  <2>1. PICK x : x = [pc |-> "planned", c |-> <<t, tasks[t].rev>>, purpose |-> p,
                      tree |-> repo.work, hadRef |-> FALSE]
    OBVIOUS
  <2>2. <<t, tasks[t].rev>> \in L!CheckpointIds /\ repo.work \in Trees
    BY <1>5 DEF Plan, IInv, TypeOK
  <2>3. OpOK(x)
    BY <2>1, <2>2 DEF OpOK, Calls, PastRef, PastBranch
  <2>4. op' = [op EXCEPT ![o] = x]
    BY <1>5, <2>1 DEF Plan
  <2> QED BY <1>1, <2>3, <2>4, OpKept, OpWritten
<1>6. ASSUME NEW o \in Owners, NEW c \in L!CheckpointIds,
             checkpoints'[c].state # "ABSENT",
             NEW pc \in {"intent", "verify"},
             pc = "verify" => c \in repo'.refs \cap repo'.line,
             op' = [op EXCEPT ![o] = [Idle EXCEPT !.pc = pc, !.c = c]]
      PROVE  OpsOK'
  <2>1. PICK x : x = [Idle EXCEPT !.pc = pc, !.c = c]
    OBVIOUS
  <2>2. x \in Calls /\ x.pc = pc /\ x.c = c
    BY <2>1 DEF Idle, Calls
  <2>3. OpOK(x)'
    BY <1>6, <2>2 DEF OpOK, PastRef, PastBranch
  <2> QED BY <1>1, <1>6, <2>1, <2>3, OpWritten
<1>7. ASSUME NEW o \in Owners, Prepare(o) PROVE OpsOK'
  <2>1. PICK c \in L!CheckpointIds : c = op[o].c
    BY <1>7 DEF Prepare, At, IInv, TypeOK
  <2>2. checkpoints'[c].state # "ABSENT"
    <3>1. L!PrepareCheckpoint(c[1], c[2], op[o].purpose) /\ c = <<c[1], c[2]>>
      BY <1>7, <2>1, SameLedger, P!CheckpointIdParts
         DEF Prepare, L!CheckpointIds, P!CheckpointIds
    <3> QED BY <3>1 DEF L!PrepareCheckpoint, IInv, TypeOK, L!TypeOK
  <2>3. op' = [op EXCEPT ![o] = [Idle EXCEPT !.pc = "intent", !.c = c]]
    BY <1>7, <2>1 DEF Prepare
  <2> QED BY <1>6, <2>2, <2>3
<1>8. ASSUME NEW o \in Owners, NEW c \in L!CheckpointIds, Retry(o, c) PROVE OpsOK'
  <2>1. PICK pc \in {"intent", "verify"} :
          /\ pc = "verify" => checkpoints[c].state = "FINALIZING"
          /\ op' = [op EXCEPT ![o] = [Idle EXCEPT !.pc = pc, !.c = c]]
    <3>1. CASE checkpoints[c].state = "FINALIZING"
      BY <1>8, <3>1 DEF Retry
    <3>2. CASE checkpoints[c].state # "FINALIZING"
      BY <1>8, <3>2 DEF Retry
    <3> QED BY <3>1, <3>2
  <2>2. checkpoints'[c].state # "ABSENT"
    BY <1>1, <1>8 DEF Retry, L!RecoveryExclusive, L!Unfinished, StatesGrow
  <2>3. pc = "verify" => c \in repo'.refs \cap repo'.line
    BY <1>1, <2>1 DEF IInv, GitFollowsIntent, GitMoves
  <2> QED BY <1>6, <2>1, <2>2, <2>3
<1>9. ASSUME NEW o \in Owners, CheckPlan(o) PROVE OpsOK'
  <2>1. PICK x : x = [op[o] EXCEPT !.pc = "commit", !.hadRef = op[o].c \in repo.refs]
    OBVIOUS
  <2>2. OpOK(op[o]) /\ op[o].pc = "intent"
    BY <1>1, <1>9 DEF OpsOK, CheckPlan, At
  <2>3. x \in Calls /\ x.pc = "commit" /\ x.c = op[o].c
    <3>1. (op[o].c \in repo.refs) \in BOOLEAN
      OBVIOUS
    <3> QED BY <2>1, <2>2, <3>1 DEF OpOK, Calls
  <2>4. OpOK(x)
    BY <2>2, <2>3 DEF OpOK, PastRef, PastBranch
  <2>5. op' = [op EXCEPT ![o] = x]
    BY <1>9, <2>1 DEF CheckPlan
  <2> QED BY <1>1, <2>4, <2>5, OpKept, OpWritten
<1>10. ASSUME NEW o \in Owners, WriteRef(o) PROVE OpsOK'
  <2>1. PICK x : x = [op[o] EXCEPT !.pc = "ref"]
    OBVIOUS
  <2>2. OpOK(op[o]) /\ op[o].pc = "commit"
    BY <1>1, <1>10 DEF OpsOK, WriteRef, At
  <2>3. /\ x \in Calls /\ x.pc = "ref" /\ x.c = op[o].c
        /\ x.c \in L!CheckpointIds /\ checkpoints[x.c].state # "ABSENT"
    BY <2>1, <2>2 DEF OpOK, Calls
  <2>4. x.c \in repo'.refs
    BY <1>10, <2>3 DEF WriteRef, IInv, TypeOK
  <2>5. OpOK(x)'
    BY <1>1, <2>3, <2>4 DEF OpOK, StatesGrow, PastBranch
  <2>6. op' = [op EXCEPT ![o] = x]
    BY <1>10, <2>1 DEF WriteRef, Goto
  <2> QED BY <1>1, <2>5, <2>6, OpWritten
<1>11. ASSUME NEW o \in Owners,
              \/ MoveBranch(o) \/ ReadTree(o) \/ VerifyApplied(o) \/ RecordApplied(o)
              \/ Finalize(o) \/ VerifyFinal(o) \/ MarkFinalized(o)
       PROVE  OpsOK'
  <2>1. op[o].c \in repo'.line
    <3>1. CASE MoveBranch(o)
      <4>1. repo' = [repo EXCEPT !.head = op[o].c, !.line = @ \cup {op[o].c}]
        BY <3>1 DEF MoveBranch
      <4> QED BY <4>1 DEF IInv, TypeOK
    <3>2. CASE ~MoveBranch(o)
      BY <1>1, <1>11, <3>2 DEF OpsOK, OpOK, GitMoves, ReadTree, VerifyApplied,
         RecordApplied, Finalize, VerifyFinal, MarkFinalized, At, PastBranch
    <3> QED BY <3>1, <3>2
  <2> QED BY <1>4, <1>11, <2>1 DEF MoveBranch, ReadTree, VerifyApplied,
             RecordApplied, Finalize, VerifyFinal, MarkFinalized, At, PastRef,
             PastBranch
<1>12. ASSUME NEW o \in Owners, ReadState(o) PROVE OpsOK'
  <2>1. \E pc \in {"verify", "finalize"} : Goto(o, pc)
    BY <1>12 DEF ReadState
  <2>2. op[o].pc \in PastBranch /\ op[o].c \in repo'.line
    BY <1>1, <1>12 DEF OpsOK, OpOK, GitMoves, ReadState, At, PastBranch
  <2> QED BY <1>4, <2>1, <2>2 DEF PastRef, PastBranch
<1>13. ASSUME NEW o \in Owners, Confirm(o) PROVE OpsOK'
  <2>1. op[o].pc \in PastBranch /\ op[o].c \in repo'.line
    BY <1>1, <1>13 DEF OpsOK, OpOK, GitMoves, Confirm, At, PastBranch
  <2> QED BY <1>3, <1>4, <1>13, <2>1 DEF Confirm, PastRef, PastBranch
<1>14. ASSUME NEW o \in Owners, Reopen(o) \/ Throw(o) \/ Crash(o) PROVE OpsOK'
  BY <1>3, <1>14 DEF Reopen, Throw, Crash
<1>15. CASE ClientStep
  BY <1>2, <1>15 DEF ClientStep, Look, Forget, Create, Resume, Recover, Cancel, Claim,
     Report, Work, CommitWork, WriteFiles, CommitFiles
<1>16. CASE Unclaimed
  BY <1>2, <1>16 DEF Unclaimed, Edit, Commit, WriteFiles, CommitFiles
<1>17. CASE UNCHANGED vars
  BY <1>2, <1>17 DEF vars
<1> QED BY <1>5, <1>7, <1>8, <1>9, <1>10, <1>11, <1>12, <1>13, <1>14, <1>15, <1>16,
           <1>17
        DEF Next, OwnerStep, Call, Step

\* A snapshot is of a commit of the branch when it is taken, and stays so.
SeenOK ==
  /\ seen \in [Clients -> L!Snapshots \cup {None}]
  /\ \A p \in Clients : seen[p] # None => seen[p].head \in repo.line

LEMMA StepSeen ==
  ASSUME IInv, [Next]_vars
  PROVE  SeenOK'
<1>1. SeenOK /\ repo.line \subseteq repo'.line
  BY StepGit DEF IInv, TypeOK, Relied, SeenOK, GitMoves
<1>2. ASSUME UNCHANGED seen PROVE SeenOK'
  BY <1>1, <1>2 DEF SeenOK
<1>3. ASSUME NEW p \in Clients, Done(p) PROVE SeenOK'
  BY <1>1, <1>3 DEF SeenOK, Done
<1>4. ASSUME NEW p \in Clients, Look(p) PROVE SeenOK'
  <2>1. PICK shot : shot = Snapshot
    OBVIOUS
  <2>2. repo.head \in repo.line /\ repo.head \in L!AllCommits
    BY DEF IInv, TypeOK, LineIsKept
  <2>3. Clean \in BOOLEAN
    BY DEF Clean
  <2>4. shot \in L!Snapshots /\ shot.head = repo.head
    BY <2>1, <2>2, <2>3 DEF Snapshot, L!Snapshots
  <2>5. shot.head \in repo'.line
    BY <1>1, <2>2, <2>4
  <2>6. seen' = [seen EXCEPT ![p] = shot]
    BY <1>4, <2>1 DEF Look
  <2> QED BY <1>1, <2>4, <2>5, <2>6 DEF SeenOK
<1>5. ASSUME NEW p \in Clients, Forget(p) PROVE SeenOK'
  BY <1>3, <1>5 DEF Forget
<1>6. ASSUME NEW o \in Owners, NEW t \in Tasks,
             Create(o, t) \/ Resume(o, t) \/ Recover(o, t)
      PROVE  SeenOK'
  BY <1>3, <1>6 DEF Create, Resume, Recover, Clients
<1>7. ASSUME NEW w \in Workers, NEW t \in Tasks, Claim(w, t) PROVE SeenOK'
  BY <1>3, <1>7 DEF Claim, Clients
<1>8. ASSUME NEW p, \/ \E t \in Tasks : Report(p, t) \/ Cancel(p, t)
                    \/ \E tree \in Trees : Work(p, tree)
                    \/ \E k \in Commits : CommitWork(p, k)
      PROVE  UNCHANGED seen
  BY <1>8 DEF Report, Cancel, Work, CommitWork, WriteFiles, CommitFiles
<1>9. ASSUME NEW o \in Owners, OwnerStep(o) PROVE UNCHANGED seen
  BY <1>9 DEF Others, OwnerStep, Step, Call, Plan, Retry, Prepare, CheckPlan,
     WriteRef, MoveBranch, ReadTree, VerifyApplied, RecordApplied, ReadState,
     Finalize, VerifyFinal, MarkFinalized, Confirm, Reopen, Throw, Crash
<1>10. Unclaimed => UNCHANGED seen
  BY DEF Unclaimed, Edit, Commit, WriteFiles, CommitFiles
<1>11. UNCHANGED vars => UNCHANGED seen
  BY DEF vars
<1> QED BY <1>2, <1>4, <1>5, <1>6, <1>7, <1>8, <1>9, <1>10, <1>11
        DEF Next, ClientStep

\* Edits are counted, never uncounted.
LEMMA StepEdits ==
  ASSUME IInv, [Next]_vars, edits' = 0
  PROVE  edits' = edits
<1>1. edits \in Nat
  BY CheckpointAssumption DEF IInv, TypeOK
<1>2. edits' = edits \/ edits' = edits + 1
  <2>1. ASSUME NEW o \in Owners, OwnerStep(o) PROVE UNCHANGED edits
    BY <2>1 DEF Others, OwnerStep, Step, Call, Plan, Retry, Prepare, CheckPlan,
       WriteRef, MoveBranch, ReadTree, VerifyApplied, RecordApplied, ReadState,
       Finalize, VerifyFinal, MarkFinalized, Confirm, Reopen, Throw, Crash
  <2>2. ClientStep => UNCHANGED edits
    BY DEF ClientStep, Look, Forget, Create, Resume, Recover, Cancel, Claim,
     Report, Work, CommitWork, WriteFiles, CommitFiles
  <2>3. Unclaimed => edits' = edits + 1
    BY DEF Unclaimed, Edit, Commit, WriteFiles, CommitFiles
  <2>4. UNCHANGED vars => UNCHANGED edits
    BY DEF vars
  <2> QED BY <2>1, <2>2, <2>3, <2>4 DEF Next
<1> QED BY <1>1, <1>2

\* The bounds on crashes and edits hold.
LEMMA StepCounters ==
  ASSUME IInv, [Next]_vars
  PROVE  crashes' \in 0..MaxCrashes /\ edits' \in 0..MaxEdits
<1>1. /\ crashes \in 0..MaxCrashes /\ edits \in 0..MaxEdits
      /\ MaxCrashes \in Nat /\ MaxEdits \in Nat
  BY CheckpointAssumption DEF IInv, TypeOK
<1>2. ASSUME NEW o \in Owners, Crash(o)
      PROVE  crashes' \in 0..MaxCrashes /\ edits' \in 0..MaxEdits
  BY <1>1, <1>2 DEF Crash
<1>3. ASSUME NEW o \in Owners, Call(o) \/ Step(o) \/ Throw(o)
      PROVE  UNCHANGED <<crashes, edits>>
  BY <1>3 DEF Others, Step, Call, Plan, Retry, Prepare, CheckPlan, WriteRef,
     MoveBranch, ReadTree, VerifyApplied, RecordApplied, ReadState, Finalize,
     VerifyFinal, MarkFinalized, Confirm, Reopen, Throw
<1>4. ClientStep => UNCHANGED <<crashes, edits>>
  BY DEF ClientStep, Look, Forget, Create, Resume, Recover, Cancel, Claim,
     Report, Work, CommitWork, WriteFiles, CommitFiles
<1>5. ASSUME Unclaimed PROVE crashes' \in 0..MaxCrashes /\ edits' \in 0..MaxEdits
  <2>1. UNCHANGED crashes /\ edits < MaxEdits /\ edits' = edits + 1
    BY <1>5 DEF Unclaimed, Edit, Commit, WriteFiles, CommitFiles
  <2> QED BY <1>1, <2>1
<1>6. UNCHANGED vars => UNCHANGED <<crashes, edits>>
  BY DEF vars
<1> QED BY <1>1, <1>2, <1>3, <1>4, <1>5, <1>6 DEF Next, OwnerStep

-----------------------------------------------------------------------------
(* What a step does beside an intent *)

\* What LedgerProofs shows of an intent whose commit is not recorded.
LEMMA IntentIsExclusive ==
  ASSUME IInv, NEW c \in L!CheckpointIds,
         checkpoints[c].state \in {"PREPARED", "GIT_APPLIED"}
  PROVE  /\ L!NoTaskRunning
         /\ \A d \in L!CheckpointIds : L!Unfinished(d) => d = c
BY DEF IInv, P!LInv, P!IInv, P!IntentExclusive, P!CheckpointIds, L!CheckpointIds,
   P!NoTaskRunning, L!NoTaskRunning, P!Running, L!Running, P!Unfinished,
   L!Unfinished

\* No claim is held that its worker could write by; the update-ref of another checkpoint is
\* late, and its commit was followed by others.
LEMMA StepHoldsGit ==
  ASSUME IInv, [Next]_vars, NEW c \in L!CheckpointIds,
         checkpoints[c].state \in {"PREPARED", "GIT_APPLIED"}, edits' = edits
  PROVE  /\ repo'.work = repo.work
         /\ \/ repo'.head = repo.head
            \/ repo.head = checkpoints[c].prior /\ repo'.head = c
<1>1. ASSUME NEW o \in Owners, MoveBranch(o), repo'.head # repo.head
      PROVE  repo'.work = repo.work /\ repo.head = checkpoints[c].prior
             /\ repo'.head = c
  <2>1. PICK d \in L!CheckpointIds : d = op[o].c /\ checkpoints[d].state # "ABSENT"
    BY <1>1 DEF IInv, TypeOK, Relied, MoveBranch, At
  <2>2. /\ repo' = [repo EXCEPT !.head = d, !.line = @ \cup {d}]
        /\ repo.head \in {checkpoints[d].prior, d}
    BY <1>1, <2>1 DEF MoveBranch
  <2>3. repo'.work = repo.work /\ repo'.head = d /\ repo.head = checkpoints[d].prior
    BY <1>1, <2>2 DEF IInv, TypeOK
  <2>4. d \notin repo.line
    BY <2>3 DEF IInv, LineIsKept
  <2>5. checkpoints[d].state \notin {"GIT_APPLIED", "FINALIZING", "FINALIZED"}
    BY <2>4 DEF IInv, GitFollowsIntent
  <2>6. L!Unfinished(d)
    BY <2>1, <2>5 DEF IInv, TypeOK, L!TypeOK, L!CheckpointRow, L!CheckpointStates,
       L!Unfinished
  <2>7. d = c
    BY <2>6, IntentIsExclusive
  <2> QED BY <2>3, <2>7
<1>2. ASSUME NEW o \in Owners, OwnerStep(o), repo'.head = repo.head
      PROVE  repo'.work = repo.work
  BY <1>2 DEF git, OwnerStep, Step, Call, Plan, Retry, Prepare, CheckPlan, WriteRef,
     MoveBranch, ReadTree, VerifyApplied, RecordApplied, ReadState, Finalize,
     VerifyFinal, MarkFinalized, Confirm, Reopen, Throw, Crash, IInv, TypeOK
<1>3. ASSUME NEW o \in Owners, OwnerStep(o), ~MoveBranch(o)
      PROVE  repo'.head = repo.head
  BY <1>3 DEF git, OwnerStep, Step, Call, Plan, Retry, Prepare, CheckPlan, WriteRef,
     ReadTree, VerifyApplied, RecordApplied, ReadState, Finalize, VerifyFinal,
     MarkFinalized, Confirm, Reopen, Throw, Crash, IInv, TypeOK
<1>4. ASSUME NEW w, Executes(w) PROVE FALSE
  BY <1>4, IntentIsExclusive DEF Executes, L!NoTaskRunning
<1>5. ASSUME ClientStep PROVE UNCHANGED repo
  BY <1>4, <1>5 DEF git, ClientStep, Look, Forget, Create, Resume, Recover, Cancel,
     Claim, Report, Work, CommitWork
<1>6. ~Unclaimed
  <2>1. edits \in Int
    BY CheckpointAssumption DEF IInv, TypeOK
  <2>2. Unclaimed => edits' = edits + 1
    BY DEF Unclaimed, Edit, Commit, WriteFiles, CommitFiles
  <2> QED BY <2>1, <2>2
<1>7. CASE UNCHANGED vars
  BY <1>7 DEF vars, git
<1> QED BY <1>1, <1>2, <1>3, <1>5, <1>6, <1>7 DEF Next

\* Only Prepare writes an intent that was not there, of the plan it took.
LEMMA StepPrepares ==
  ASSUME IInv, [Next]_vars, NEW c \in L!CheckpointIds,
         checkpoints'[c].state = "PREPARED"
  PROVE  \/ checkpoints'[c] = checkpoints[c] /\ plan'[c] = plan[c]
         \/ \E o \in Owners : Prepare(o) /\ op[o].c = c
<1> USE DEF IInv, TypeOK, L!TypeOK
<1>1. ASSUME NEW o \in Owners, Prepare(o), op[o].c # c
      PROVE  checkpoints'[c] = checkpoints[c] /\ plan'[c] = plan[c]
  <2>1. PICK d \in L!CheckpointIds : d = op[o].c
    BY <1>1 DEF Prepare, At
  <2>2. d = <<d[1], d[2]>> /\ d # c
    BY <1>1, <2>1, SameLedger, P!CheckpointIdParts
       DEF L!CheckpointIds, P!CheckpointIds
  <2>3. /\ L!PrepareCheckpoint(d[1], d[2], op[o].purpose)
        /\ plan' = [plan EXCEPT ![d] = op[o].tree]
    BY <1>1, <2>1 DEF Prepare
  <2> QED BY <2>2, <2>3 DEF L!PrepareCheckpoint
<1>2. ASSUME NEW o \in Owners,
             RecordApplied(o) \/ Finalize(o) \/ MarkFinalized(o) \/ Reopen(o)
      PROVE  checkpoints'[c] = checkpoints[c] /\ plan'[c] = plan[c]
  <2>1. PICK d \in L!CheckpointIds : d = op[o].c
    BY <1>2 DEF RecordApplied, Finalize, MarkFinalized, Reopen, At
  <2>2. PICK st \in Recorded :
          checkpoints' = [checkpoints EXCEPT ![d].state = st]
    BY <1>2, <2>1 DEF RecordApplied, Finalize, MarkFinalized, Reopen,
       L!RecordGitApplied, L!FinalizeTask, L!MarkFinalized, L!ReopenCheckpoint,
       Recorded
  <2>3. checkpoints'[d].state = st /\ st # "PREPARED"
    BY <2>2 DEF L!CheckpointRow, Recorded
  <2>4. UNCHANGED plan
    BY <1>2 DEF git, RecordApplied, Finalize, MarkFinalized, Reopen
  <2> QED BY <2>2, <2>3, <2>4
<1>3. ASSUME NEW o \in Owners,
             \/ Call(o) \/ CheckPlan(o) \/ WriteRef(o) \/ MoveBranch(o)
             \/ ReadTree(o) \/ VerifyApplied(o) \/ ReadState(o) \/ VerifyFinal(o)
             \/ Confirm(o) \/ Throw(o) \/ Crash(o)
      PROVE  UNCHANGED <<checkpoints, plan>>
  BY <1>3 DEF ledger, git, Call, Plan, Retry, CheckPlan, WriteRef, MoveBranch,
     ReadTree, VerifyApplied, ReadState, VerifyFinal, Confirm, Throw, Crash
<1>4. ASSUME NEW o \in Owners, NEW t \in Tasks,
             Create(o, t) \/ Resume(o, t) \/ Recover(o, t) \/ Cancel(o, t)
      PROVE  UNCHANGED <<checkpoints, plan>>
  BY <1>4 DEF git, Create, Resume, Recover, Cancel, L!CreateTask, L!ResumeTask,
     L!RecoverTask, L!CancelTask
<1>5. ASSUME NEW w \in Workers,
             \/ \E t \in Tasks : Claim(w, t) \/ Report(w, t)
             \/ \E tree \in Trees : Work(w, tree)
             \/ \E k \in Commits : CommitWork(w, k)
      PROVE  UNCHANGED <<checkpoints, plan>>
  BY <1>5 DEF ledger, git, Claim, Report, Work, CommitWork, WriteFiles, CommitFiles,
     L!ClaimTask, L!ReportBlocked, L!ReportResult
<1>6. ASSUME NEW p \in Clients, Look(p) \/ Forget(p)
      PROVE  UNCHANGED <<checkpoints, plan>>
  BY <1>6 DEF ledger, git, Look, Forget
<1>7. Unclaimed \/ UNCHANGED vars => UNCHANGED <<checkpoints, plan>>
  BY DEF ledger, git, vars, Unclaimed, Edit, Commit, WriteFiles, CommitFiles
<1> QED BY <1>1, <1>2, <1>3, <1>4, <1>5, <1>6, <1>7
        DEF Next, OwnerStep, Step, ClientStep

\* Every claim is refused beside an unfinished intent, and no run is inserted by
\* these processes.
LEMMA StepKeepsIdle ==
  ASSUME IInv, [Next]_vars, ~L!NoRepositoryCheckpoint,
         L!NoTaskRunning, L!NoActiveRun
  PROVE  L!NoTaskRunning' /\ L!NoActiveRun'
<1> USE DEF L!NoTaskRunning, L!NoActiveRun, L!Running, L!Active
<1>1. ASSUME UNCHANGED <<tasks, runs>> PROVE L!NoTaskRunning' /\ L!NoActiveRun'
  BY <1>1
<1>2. ASSUME NEW o \in Owners, Finalize(o) PROVE L!NoTaskRunning' /\ L!NoActiveRun'
  <2>1. PICK d \in L!CheckpointIds : d = op[o].c
    BY <1>2 DEF Finalize, At, IInv, TypeOK
  <2>2. /\ UNCHANGED runs
        /\ tasks' = [tasks EXCEPT ![d[1]] = [[tasks[d[1]] EXCEPT !.base = d]
                                             EXCEPT !.rev = tasks[d[1]].rev + 1]]
    BY <1>2, <2>1 DEF Finalize, L!FinalizeTask, L!UpdateTask
  <2>3. \A t \in Tasks : tasks'[t].status = tasks[t].status
    BY <2>2 DEF IInv, TypeOK, L!TypeOK, L!TaskRow
  <2> QED BY <2>2, <2>3
<1>3. ASSUME NEW o \in Owners,
             Prepare(o) \/ RecordApplied(o) \/ MarkFinalized(o) \/ Reopen(o)
      PROVE  UNCHANGED <<tasks, runs>>
  BY <1>3 DEF Prepare, RecordApplied, MarkFinalized, Reopen, L!PrepareCheckpoint,
     L!RecordGitApplied, L!MarkFinalized, L!ReopenCheckpoint
<1>4. ASSUME NEW p, NEW t \in Tasks,
             \/ Create(p, t) \/ Resume(p, t) \/ Recover(p, t) \/ Cancel(p, t)
             \/ Claim(p, t) \/ Report(p, t)
      PROVE  FALSE
  BY <1>4 DEF Create, Resume, Recover, Cancel, Claim, Report, L!CreateTask,
     L!ResumeTask, L!RecoverTask, L!CancelTask, L!ClaimTask, L!ReportBlocked,
     L!ReportResult
<1>5. UNCHANGED ledger \/ UNCHANGED vars => UNCHANGED <<tasks, runs>>
  BY DEF ledger, vars
<1> QED BY <1>1, <1>2, <1>3, <1>4, <1>5, QuietSteps
        DEF Next, OwnerStep, Step, ClientStep

\* An intent is unfinished because it was, or is planned or reopened.
LEMMA StepUnfinished ==
  ASSUME IInv, [Next]_vars, NEW c \in L!CheckpointIds,
         L!Unfinished(c)', ~L!Unfinished(c)
  PROVE  \/ L!NoTaskRunning /\ L!NoActiveRun /\ UNCHANGED <<tasks, runs>>
         \/ \E o \in Owners : Reopen(o)
<1>1. ASSUME UNCHANGED checkpoints PROVE FALSE
  BY <1>1 DEF L!Unfinished
<1>2. ASSUME NEW o \in Owners, Prepare(o)
      PROVE  L!NoTaskRunning /\ L!NoActiveRun /\ UNCHANGED <<tasks, runs>>
  BY <1>2 DEF Prepare, L!PrepareCheckpoint
<1>3. ASSUME NEW o \in Owners, RecordApplied(o) \/ Finalize(o) \/ MarkFinalized(o)
      PROVE  FALSE
  <2>1. PICK d \in L!CheckpointIds : d = op[o].c
    BY <1>3 DEF RecordApplied, Finalize, MarkFinalized, At, IInv, TypeOK
  <2>2. L!Unfinished(d)
    BY <1>3, <2>1 DEF RecordApplied, Finalize, MarkFinalized, L!RecordGitApplied,
       L!FinalizeTask, L!MarkFinalized, L!RecoveryExclusive, L!Unfinished
  <2>3. \E st : checkpoints' = [checkpoints EXCEPT ![d].state = st]
    BY <1>3, <2>1 DEF RecordApplied, Finalize, MarkFinalized, L!RecordGitApplied,
       L!FinalizeTask, L!MarkFinalized
  <2>4. checkpoints'[c] = checkpoints[c]
    BY <2>2, <2>3 DEF IInv, TypeOK, L!TypeOK
  <2> QED BY <2>4 DEF L!Unfinished
<1>4. ASSUME NEW p, NEW t \in Tasks,
             \/ Create(p, t) \/ Resume(p, t) \/ Recover(p, t) \/ Cancel(p, t)
             \/ Claim(p, t) \/ Report(p, t)
      PROVE  UNCHANGED checkpoints
  BY <1>4 DEF Create, Resume, Recover, Cancel, Claim, Report, L!CreateTask,
     L!ResumeTask, L!RecoverTask, L!CancelTask, L!ClaimTask, L!ReportBlocked,
     L!ReportResult
<1>5. UNCHANGED ledger \/ UNCHANGED vars => UNCHANGED checkpoints
  BY DEF ledger, vars
<1> QED BY <1>1, <1>2, <1>3, <1>4, <1>5, QuietSteps
        DEF Next, OwnerStep, Step, ClientStep

-----------------------------------------------------------------------------
(* Theorems *)

LEMMA InitIInv == Init => IInv
<1> SUFFICES ASSUME Init PROVE IInv
  OBVIOUS
<1>1. P!LInv
  BY SameLedger, P!InitLInv DEF Init
<1>2. L!TypeOK
  BY <1>1 DEF P!LInv, P!IInv, L!TypeOK, P!TypeOK, L!TaskRow, P!TaskRow, L!RunRow,
     P!RunRow, L!CheckpointRow, P!CheckpointRow, L!TaskStatuses,
     P!TaskStatuses, L!RunStatuses, P!RunStatuses, L!CheckpointStates,
     P!CheckpointStates, L!CheckpointIds, P!CheckpointIds, L!Instances,
     P!Instances, L!AllCommits, P!AllCommits, L!Purposes, P!Purposes
<1>3. TypeOK
  BY <1>2, CheckpointAssumption DEF Init, TypeOK, Idle, Calls, L!AllCommits
<1>4. GitFollowsIntent
  BY CheckpointIdParts, CheckpointAssumption
     DEF Init, GitFollowsIntent, L!Init, L!NoCheckpoint
<1>5. BaseIsHeld
  BY DEF Init, BaseIsHeld, L!Init, L!NoTask
<1>6. Relied
  BY DEF Init, Relied, Idle, PastRef, PastBranch
<1>7. LineIsKept
  BY CheckpointIdParts, CheckpointAssumption
     DEF Init, LineIsKept, L!Init, L!NoCheckpoint
<1> QED BY <1>1, <1>3, <1>4, <1>5, <1>6, <1>7 DEF IInv

LEMMA NextIInv == IInv /\ [Next]_vars => IInv'
<1> SUFFICES ASSUME IInv, [Next]_vars PROVE IInv'
  OBVIOUS
<1>1. P!LInv' /\ L!TypeOK'
  BY StepsAreTransactions, LedgerKeeps DEF IInv
<1>2. StatesGrow /\ BasesMove /\ GitMoves
  BY StepStates, StepBases, StepGit
<1>3. OpsOK' /\ SeenOK'
  BY StepOps, StepSeen
<1>4. TypeOK'
  BY <1>1, <1>2, <1>3, StepTrees, StepCounters DEF TypeOK, OpsOK, OpOK, SeenOK, GitMoves
<1>5. GitFollowsIntent'
  <2>1. ASSUME NEW c \in L!CheckpointIds, c \in repo'.refs
        PROVE  checkpoints'[c].state # "ABSENT"
    BY <1>2, <2>1 DEF IInv, GitFollowsIntent, GitMoves, StatesGrow
  <2>2. ASSUME NEW c \in L!CheckpointIds, repo'.head = c \/ repo'.index = c
        PROVE  c \in repo'.refs
    BY <1>2, <2>2 DEF GitMoves
  <2>3. ASSUME NEW c \in L!CheckpointIds, checkpoints'[c].state \in Recorded
        PROVE  c \in repo'.refs /\ c \in repo'.line
    BY <1>2, <2>3 DEF IInv, GitFollowsIntent, GitMoves, StatesGrow, Recorded
  <2> QED BY <2>1, <2>2, <2>3 DEF GitFollowsIntent, Recorded
<1>6. LineIsKept'
  <2>1. repo'.head \in repo'.line
    BY <1>2 DEF GitMoves
  <2>2. \A k \in Commits : k \in repo'.line => content'[k] # None
    BY StepTrees
  <2>3. ASSUME NEW c \in L!CheckpointIds, checkpoints'[c].state # "ABSENT"
        PROVE  checkpoints'[c].prior \in repo'.line \cup {None}
    <3>1. CASE checkpoints[c].state # "ABSENT"
      BY <1>2, <3>1 DEF IInv, LineIsKept, StatesGrow, GitMoves
    <3>2. CASE checkpoints[c].state = "ABSENT"
      <4>1. c[1] \in Tasks /\ checkpoints'[c].prior = tasks[c[1]].base
        BY <1>2, <2>3, <3>2, CheckpointIdParts DEF StatesGrow
      <4> QED BY <1>2, <4>1 DEF IInv, BaseIsHeld, GitMoves
    <3> QED BY <3>1, <3>2
  <2>4. ASSUME NEW c \in L!CheckpointIds, c \in repo'.line
        PROVE  c \in repo'.refs /\ repo'.head # checkpoints'[c].prior
    <3>1. c \in repo.refs /\ (c \in repo.line => repo.head # checkpoints[c].prior)
      <4>1. CASE c \in repo.line
        BY <4>1 DEF IInv, LineIsKept
      <4>2. CASE c \notin repo.line
        BY <1>2, <2>4, <4>2 DEF GitMoves
      <4> QED BY <4>1, <4>2
    <3>2. /\ checkpoints'[c].prior = checkpoints[c].prior
          /\ checkpoints[c].prior \in repo.line \cup {None}
      BY <1>2, <3>1 DEF IInv, GitFollowsIntent, LineIsKept, StatesGrow
    <3>3. repo'.head # None
      BY <1>4, CheckpointAssumption DEF TypeOK, L!LedgerAssumption
    <3>4. CASE repo'.head = repo.head
      BY <1>2, <2>4, <3>1, <3>2, <3>4 DEF GitMoves, IInv, LineIsKept
    <3>5. CASE repo'.head # repo.head
      BY <1>2, <3>1, <3>2, <3>3, <3>5 DEF GitMoves
    <3> QED BY <3>1, <3>4, <3>5
  <2> QED BY <2>1, <2>2, <2>3, <2>4 DEF LineIsKept
<1>7. BaseIsHeld'
  BY <1>2, <1>6 DEF IInv, BaseIsHeld, BasesMove, GitMoves, LineIsKept
<1>8. Relied'
  BY <1>3 DEF OpsOK, OpOK, SeenOK, Relied
<1> QED BY <1>1, <1>4, <1>5, <1>6, <1>7, <1>8 DEF IInv

LEMMA Safety == Spec => []IInv
BY InitIInv, NextIInv, PTL DEF Spec

\* The ledger, the repository, the calls and the snapshots stay well typed.
THEOREM TypeCorrect == Spec => []TypeOK
<1>1. IInv => TypeOK
  BY DEF IInv
<1> QED BY <1>1, Safety, PTL

\* Wherever processes crash, no ref and no branch is at a checkpoint commit
\* without a durable intent, and no commit is recorded that is not on the branch
\* and held by its ref.
THEOREM GitFollowsIntentHolds == Spec => []GitFollowsIntent
<1>1. IInv => GitFollowsIntent
  BY DEF IInv
<1> QED BY <1>1, Safety, PTL

\* The base of a task is a commit of the branch, and a checkpoint commit has its
\* ref as well.
THEOREM BaseIsHeldHolds == Spec => []BaseIsHeld
<1>1. IInv => BaseIsHeld
  BY DEF IInv
<1> QED BY <1>1, Safety, PTL

\* A checkpoint never takes back a branch that others have moved on.
THEOREM BranchMovesHolds == Spec => BranchMoves
<1> DEFINE Move == \A c \in L!CheckpointIds :
                     repo.head # c /\ repo'.head = c => repo.head = checkpoints[c].prior
<1>1. IInv /\ [Next]_vars => [Move]_repo
  BY StepGit DEF GitMoves
<1> QED BY <1>1, Safety, PTL DEF Spec, BranchMoves

\* Until the commit of an intent is recorded, no file of the worktree changes beside
\* it and the branch goes nowhere but from its prior base to its commit, except by
\* those who write without a claim, harnesses that outlived theirs included.
THEOREM IntentHoldsGitHolds == Spec => IntentHoldsGit
<1> DEFINE Held == \A c \in L!CheckpointIds :
                     checkpoints[c].state \in {"PREPARED", "GIT_APPLIED"} /\ edits' = edits =>
                       /\ repo'.work = repo.work
                       /\ repo.head = checkpoints[c].prior /\ repo'.head = c
<1>1. IInv /\ [Next]_vars => [Held]_<<repo.head, repo.work>>
  BY StepHoldsGit
<1> QED BY <1>1, Safety, PTL DEF Spec, IntentHoldsGit

\* Calls, crashes and retries only do what Ledger allows, so that everything
\* proved of Ledger holds of them.
THEOREM Refinement == Spec => ImplementsLedger
<1>1. Init => L!Init
  BY DEF Init
<1>2. IInv /\ [Next]_vars => [L!Next]_L!ledger
  BY StepsAreTransactions DEF ledger, L!ledger
<1> QED BY <1>1, <1>2, Safety, PTL DEF Spec, ImplementsLedger, L!Spec

\* CheckpointFence shows that an exact retry can be shut out by an execution.
\* There is one step that does it: the mark taken back after the last look at Git
\* (lifecycle.ts:1014), whatever the tasks, the processes and the crashes.
THEOREM OnlyReopenBlocksRetry ==
  Spec => [][RetryMayProceed /\ ~RetryMayProceed' => \E o \in Owners : Reopen(o)]_vars
<1> DEFINE Blamed == RetryMayProceed /\ ~RetryMayProceed' => \E o \in Owners : Reopen(o)
<1>1. ASSUME IInv, [Next]_vars, RetryMayProceed, ~(\E o \in Owners : Reopen(o)),
             NEW c \in L!CheckpointIds, L!Unfinished(c)'
      PROVE  L!NoTaskRunning' /\ L!NoActiveRun'
  <2>1. CASE L!Unfinished(c)
    BY <1>1, <2>1, StepKeepsIdle DEF RetryMayProceed, L!NoRepositoryCheckpoint
  <2>2. CASE ~L!Unfinished(c)
    <3>1. L!NoTaskRunning /\ L!NoActiveRun /\ UNCHANGED <<tasks, runs>>
      BY <1>1, <2>2, StepUnfinished
    <3> QED BY <3>1 DEF L!NoTaskRunning, L!NoActiveRun, L!Running, L!Active
  <2> QED BY <2>1, <2>2
<1>2. IInv /\ [Next]_vars => [Blamed]_vars
  BY <1>1 DEF RetryMayProceed
<1> QED BY <1>2, Safety, PTL DEF Spec

\* CheckpointPair shows a prepared intent whose commit can never be put on the
\* branch.  One step does it: the transaction of an intent that was planned on a
\* HEAD which the branch has left since (lifecycle.ts:904 does not look again).
THEOREM OnlyStalePlanStrands ==
  Spec => [][PreparedCanConverge /\ ~PreparedCanConverge' =>
               \E o \in Owners :
                 /\ Prepare(o)
                 /\ repo.head # tasks[op[o].c[1]].base]_vars
<1> DEFINE Blamed == PreparedCanConverge /\ ~PreparedCanConverge' =>
                       \E o \in Owners :
                         /\ Prepare(o)
                         /\ repo.head # tasks[op[o].c[1]].base
<1>1. ASSUME IInv, [Next]_vars, PreparedCanConverge,
             \A o \in Owners : Prepare(o) => repo.head = tasks[op[o].c[1]].base,
             NEW c \in L!CheckpointIds, checkpoints'[c].state = "PREPARED",
             repo'.work = plan'[c], edits' = 0
      PROVE  repo'.head \in {checkpoints'[c].prior, c}
  <2>1. CASE \E o \in Owners : Prepare(o) /\ op[o].c = c
    <3>1. PICK o \in Owners : Prepare(o) /\ op[o].c = c
      BY <2>1
    <3>2. c = <<c[1], c[2]>>
      BY SameLedger, P!CheckpointIdParts DEF L!CheckpointIds, P!CheckpointIds
    <3>3. L!PrepareCheckpoint(c[1], c[2], op[o].purpose) /\ UNCHANGED repo
      BY <3>1 DEF Prepare
    <3>4. checkpoints'[c].prior = tasks[c[1]].base
      <4>1. PICK row : row = [state |-> "PREPARED", purpose |-> op[o].purpose,
                              prior |-> tasks[c[1]].base]
        OBVIOUS
      <4>2. checkpoints' = [checkpoints EXCEPT ![c] = row]
        BY <3>2, <3>3, <4>1 DEF L!PrepareCheckpoint
      <4>3. checkpoints'[c] = row
        BY <1>1, <4>2 DEF IInv, TypeOK, L!TypeOK
      <4> QED BY <4>1, <4>3
    <3>5. repo.head = tasks[c[1]].base
      BY <1>1, <3>1
    <3> QED BY <3>3, <3>4, <3>5
  <2>2. CASE checkpoints'[c] = checkpoints[c] /\ plan'[c] = plan[c]
    <3>1. edits' = edits
      BY <1>1, StepEdits
    <3>2. /\ repo'.work = repo.work
          /\ \/ repo'.head = repo.head
             \/ repo.head = checkpoints[c].prior /\ repo'.head = c
      BY <1>1, <2>2, <3>1, StepHoldsGit
    <3> QED BY <1>1, <2>2, <3>1, <3>2 DEF PreparedCanConverge
  <2> QED BY <1>1, <2>1, <2>2, StepPrepares
<1>2. IInv /\ [Next]_vars => [Blamed]_vars
  BY <1>1 DEF PreparedCanConverge
<1> QED BY <1>2, Safety, PTL DEF Spec

\* The invariants of Ledger hold of the ledger of these processes, wherever they
\* crash and however many retry: one executor, an intent that has the repository
\* to itself and keeps its task in place, reservations kept, results of the
\* claimant.
THEOREM LedgerStaysSafe ==
  Spec => [](/\ L!SingleExecution
             /\ L!IntentExclusive
             /\ L!IntentPinsTask
             /\ L!ReservationHolds
             /\ L!ResultFromClaimant)
<1>1. P!SingleExecution => L!SingleExecution
  BY DEF L!SingleExecution, P!SingleExecution, L!Running, P!Running
<1>2. P!IntentExclusive => L!IntentExclusive
  BY DEF L!IntentExclusive, P!IntentExclusive, L!NoTaskRunning, P!NoTaskRunning,
         L!Running, P!Running, L!NoActiveRun, P!NoActiveRun, L!Active, P!Active,
         L!Unfinished, P!Unfinished, L!CheckpointIds, P!CheckpointIds
<1>3. P!IntentPinsTask => L!IntentPinsTask
  BY DEF L!IntentPinsTask, P!IntentPinsTask, L!PurposeFits, P!PurposeFits,
         L!CheckpointIds, P!CheckpointIds
<1>4. P!ReservationHolds => L!ReservationHolds
  BY DEF L!ReservationHolds, P!ReservationHolds, L!IsC2C, P!IsC2C
<1>5. P!ResultFromClaimant => L!ResultFromClaimant
  BY DEF L!ResultFromClaimant, P!ResultFromClaimant
<1>6. IInv => P!IInv
  BY DEF IInv, P!LInv
<1>7. P!IInv => /\ P!SingleExecution
                /\ P!IntentExclusive
                /\ P!IntentPinsTask
                /\ P!ReservationHolds
                /\ P!ResultFromClaimant
  BY DEF P!IInv
<1> QED BY <1>1, <1>2, <1>3, <1>4, <1>5, <1>6, <1>7, Safety, PTL

=============================================================================
