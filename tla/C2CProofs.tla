------------------------------ MODULE C2CProofs ------------------------------
(***************************************************************************)
(* Safety of C2C for every set of requests, controllers, attempts, tasks   *)
(* and runs, whatever is replayed and wherever a process stops.  What the  *)
(* ledger promises is taken from LedgerProofs: each step is one of its     *)
(* transactions.  What is left is the chain of receipts from a run back to *)
(* the one plan it was accepted for, and the attempts that race for it.    *)
(***************************************************************************)
EXTENDS C2C, FiniteSetTheorems, TLAPS

P == INSTANCE LedgerProofs

-----------------------------------------------------------------------------
(* The ledger *)

\* LedgerProofs speaks of the same transactions ...
LEMMA SameLedger ==
  /\ P!LedgerAssumption
  /\ L!Init => P!Init
  /\ L!Next => P!Next
<1>1. P!LedgerAssumption
  BY C2CAssumption
     DEF L!LedgerAssumption, P!LedgerAssumption, L!Types, P!Types,
         L!WorkerRoles, P!WorkerRoles, L!Instances, P!Instances, L!AllCommits,
         P!AllCommits, L!CheckpointIds, P!CheckpointIds, L!IsFiniteSet,
         P!IsFiniteSet
<1>2. L!Init => P!Init
  BY DEF L!Init, P!Init, L!NoTask, P!NoTask, L!NoRun, P!NoRun, L!NoCheckpoint,
         P!NoCheckpoint, L!CheckpointIds, P!CheckpointIds
<1>3. L!TaskStep => P!TaskStep
  BY DEF L!TaskStep, P!TaskStep, L!CreateTask, P!CreateTask,
         L!CreateDiagnosisFromCheckpoint, P!CreateDiagnosisFromCheckpoint,
         L!ClaimTask, P!ClaimTask, L!ClaimNextTask, P!ClaimNextTask,
         L!ReportResult, P!ReportResult, L!ReportBlocked, P!ReportBlocked,
         L!RecoverTask, P!RecoverTask, L!ResumeTask, P!ResumeTask,
         L!CancelTask, P!CancelTask, L!CloseTask, P!CloseTask, L!UpdateTask,
         P!UpdateTask, L!UpdateRunOf, P!UpdateRunOf, L!FailActiveRunsOf,
         P!FailActiveRunsOf, L!FreshTask, P!FreshTask, L!Claimed, P!Claimed,
         L!NoRepositoryCheckpoint, P!NoRepositoryCheckpoint, L!NoTaskRunning,
         P!NoTaskRunning, L!Running, P!Running, L!Reserved, P!Reserved,
         L!ActiveFor, P!ActiveFor, L!Active, P!Active, L!IsC2C, P!IsC2C,
         L!Unfinished, P!Unfinished, L!Finalized, P!Finalized, L!Inserted,
         P!Inserted, L!Cardinality, P!Cardinality, L!OwnCheckpoint,
         P!OwnCheckpoint, L!CanClaim, P!CanClaim, L!RoleOfInstance,
         P!RoleOfInstance, L!ClaimBaseline, P!ClaimBaseline, L!AtBase,
         P!AtBase, L!SeenSnapshots, P!SeenSnapshots, L!Snapshots, P!Snapshots,
         L!AllCommits, P!AllCommits, L!CheckpointIds, P!CheckpointIds,
         L!Instances, P!Instances, L!RESUMABLE, P!RESUMABLE, L!CANCELLABLE,
         P!CANCELLABLE, L!CLOSABLE, P!CLOSABLE
<1>4. L!CheckpointStep => P!CheckpointStep
  BY DEF L!CheckpointStep, P!CheckpointStep, L!PrepareCheckpoint,
         P!PrepareCheckpoint, L!RecordGitApplied, P!RecordGitApplied,
         L!FinalizeTask, P!FinalizeTask, L!MarkFinalized, P!MarkFinalized,
         L!ReopenCheckpoint, P!ReopenCheckpoint, L!RecoveryExclusive,
         P!RecoveryExclusive, L!UpdateTask, P!UpdateTask,
         L!NoRepositoryCheckpoint, P!NoRepositoryCheckpoint, L!NoTaskRunning,
         P!NoTaskRunning, L!NoActiveRun, P!NoActiveRun, L!Running, P!Running,
         L!Active, P!Active, L!Unfinished, P!Unfinished, L!PurposeFits,
         P!PurposeFits, L!Purposes, P!Purposes, L!CheckpointIds,
         P!CheckpointIds
<1>5. L!RunStep => P!RunStep
  BY DEF L!RunStep, P!RunStep, L!InsertRun, P!InsertRun, L!InsertC2CRun,
         P!InsertC2CRun, L!OverwriteRun, P!OverwriteRun,
         L!ClaimC2CDispatchTask, P!ClaimC2CDispatchTask,
         L!FailC2CDispatchBeforeClaim, P!FailC2CDispatchBeforeClaim,
         L!UpdateTask, P!UpdateTask, L!UpdateRunOf, P!UpdateRunOf, L!Claimed,
         P!Claimed, L!NoRepositoryCheckpoint, P!NoRepositoryCheckpoint,
         L!NoTaskRunning, P!NoTaskRunning, L!Running, P!Running,
         L!NoActiveRunFor, P!NoActiveRunFor, L!ActiveFor, P!ActiveFor,
         L!Active, P!Active, L!IsC2C, P!IsC2C, L!Unfinished, P!Unfinished,
         L!Inserted, P!Inserted, L!ClaimBaseline, P!ClaimBaseline, L!AtBase,
         P!AtBase, L!RunStatuses, P!RunStatuses, L!CheckpointIds,
         P!CheckpointIds
<1> QED
  BY <1>1, <1>2, <1>3, <1>4, <1>5 DEF L!Next, P!Next

\* ... so that what it proves of one of them holds of a step of this module.
LEMMA LedgerKeeps ==
  ASSUME P!LInv, [L!Next]_ledger
  PROVE  /\ P!LInv'
         /\ L!TypeOK'
         /\ \A r \in Runs :
              runs[r].status # "absent" => /\ runs'[r].status # "absent"
                                           /\ runs'[r].task = runs[r].task
                                           /\ runs'[r].accepted = runs[r].accepted
<1>1. [P!Next]_P!ledger
  BY SameLedger DEF ledger, P!ledger
<1>2. P!LInv'
  BY <1>1, SameLedger, P!StepKeepsLInv
<1>3. P!TypeOK
  BY DEF P!LInv, P!IInv
<1>4. \A r \in Runs : P!RunStays(r)
  BY <1>1, <1>3, SameLedger, P!RunsStay
<1>5. P!TypeOK' => L!TypeOK'
  BY DEF L!TypeOK, P!TypeOK, L!TaskRow, P!TaskRow, L!RunRow, P!RunRow,
         L!CheckpointRow, P!CheckpointRow, L!TaskStatuses, P!TaskStatuses,
         L!RunStatuses, P!RunStatuses, L!CheckpointStates, P!CheckpointStates,
         L!CheckpointIds, P!CheckpointIds, L!Instances, P!Instances,
         L!AllCommits, P!AllCommits, L!Purposes, P!Purposes
<1> QED BY <1>2, <1>4, <1>5 DEF P!RunStays, P!LInv, P!IInv

LEMMA LedgerHas ==
  ASSUME P!LInv
  PROVE  /\ \A t \in Tasks : tasks[t].status # "ABSENT"
                               => L!AtBase(t) \in L!SeenSnapshots
         /\ \A t \in Tasks, r \in Runs :
              L!IsC2C(r) /\ tasks[t].inst = r =>
                /\ runs[r].status = "running"
                /\ runs[r].task = t
                /\ tasks[t].rev = runs[r].accepted + 1
<1>1. ASSUME NEW t \in Tasks, tasks[t].status # "ABSENT"
      PROVE  L!AtBase(t) \in L!SeenSnapshots
  BY <1>1 DEF P!LInv, P!BasesArePlanned, P!Planned, P!AllCommits,
     P!CheckpointIds, L!AllCommits, L!CheckpointIds, L!AtBase,
     L!SeenSnapshots, L!Snapshots
<1>2. ASSUME NEW t \in Tasks, NEW r \in Runs, L!IsC2C(r), tasks[t].inst = r
      PROVE  /\ runs[r].status = "running"
             /\ runs[r].task = t
             /\ tasks[t].rev = runs[r].accepted + 1
  BY <1>2 DEF P!LInv, P!IInv, P!C2COwnersRun, P!ClaimRecorded,
     P!ReservationHolds, P!IsC2C, L!IsC2C
<1> QED BY <1>1, <1>2

-----------------------------------------------------------------------------
(* The inductive invariant *)

\* A receipt names the one before it, and none is named twice: an acceptance
\* is of an evaluated plan, which has no other, a delegation is of an
\* acceptance, which has no other, and of a run, which has no other.
Chained ==
  /\ \A m \in MessageIds : evaluations[m] # None => evaluations[m].id = m
  /\ \A c \in AcceptanceIds :
       acceptances[c] # None => evaluations[acceptances[c]] # None
  /\ \A c, e \in AcceptanceIds :
       acceptances[c] # None /\ acceptances[c] = acceptances[e] => c = e
  /\ \A d \in DelegationIds :
       Delegated(d) => acceptances[delegations[d].acceptance] # None
  /\ \A d, e \in DelegationIds :
       /\ Delegated(d)
       /\ Delegated(e)
       /\ \/ delegations[d].acceptance = delegations[e].acceptance
          \/ delegations[d].run = delegations[e].run
       => d = e

\* The plan a delegation goes back to.
PlanBehind(d) == PlanOfAcceptance(delegations[d].acceptance)

\* Its run is of that plan's task, at that plan's revision.
Bound ==
  \A d \in DelegationIds :
    Delegated(d) =>
      /\ runs[delegations[d].run].status # "absent"
      /\ runs[delegations[d].run].task = PlanBehind(d).task
      /\ runs[delegations[d].run].accepted = PlanBehind(d).rev

HasReceipt(r) == \E d \in DelegationIds : Delegated(d) /\ delegations[d].run = r

\* What the receipts say of the request of a call that got past a phase.
Known(c) ==
  /\ c.pc \notin {"idle", "evaluate"} => ExactReplay(c.req.plan)
  /\ c.pc \notin {"idle", "evaluate", "accept"}
       => acceptances[c.req.acceptance] = c.req.plan.id

\* Controllers and attempts work on runs with a receipt, and an attempt that
\* executes is the one that claimed.
Placed ==
  /\ \A o \in Controllers :
       /\ call[o].pc \in {"read", "launch"} => HasReceipt(call[o].run)
       /\ Known(call[o])
  /\ \A a \in Attempts :
       /\ attempt[a].pc # "off" => HasReceipt(attempt[a].run)
       /\ Executes(a) => claimant[attempt[a].run] = a

\* The receipts of delegation d are those of request q.
SentAs(q, d) ==
  /\ q.delegation = d
  /\ q.acceptance = delegations[d].acceptance
  /\ q.profile = delegations[d].profile
  /\ acceptances[q.acceptance] = q.plan.id
  /\ ExactReplay(q.plan)

\* A request stands behind every delegation, and a delegation behind every C2C
\* run.
Sent ==
  /\ \A d \in DelegationIds : Delegated(d) => \E q \in Requests : SentAs(q, d)
  /\ \A r \in Runs : L!IsC2C(r) => HasReceipt(r)

IInv == P!LInv /\ TypeOK /\ Chained /\ Bound /\ Placed /\ Sent

-----------------------------------------------------------------------------
(* Receipts *)

\* The acceptance and the plan a delegation goes back to are there.
LEMMA PlanIsThere ==
  ASSUME TypeOK, Chained, NEW c \in AcceptanceIds, acceptances[c] # None
  PROVE  /\ acceptances[c] \in MessageIds
         /\ PlanOfAcceptance(c) \in Plans
         /\ PlanOfAcceptance(c).task \in Tasks
         /\ PlanOfAcceptance(c).rev \in Nat \ {0}
<1>1. acceptances[c] \in MessageIds
  BY DEF TypeOK
<1>2. PlanOfAcceptance(c) \in Plans
  BY <1>1 DEF PlanOfAcceptance, TypeOK, Chained
<1> QED BY <1>1, <1>2, C2CAssumption

\* The plan of a run with a receipt is the one behind its receipt.
LEMMA PlanOfRun ==
  ASSUME TypeOK, Chained, Bound, NEW r, HasReceipt(r)
  PROVE  /\ r \in Runs
         /\ runs[r].status # "absent"
         /\ L!IsC2C(r)
         /\ PlanOf(r) \in Plans
         /\ PlanOf(r).task \in Tasks
         /\ runs[r].task = PlanOf(r).task
         /\ runs[r].accepted = PlanOf(r).rev
<1>1. PICK d \in DelegationIds : Delegated(d) /\ delegations[d].run = r
  BY DEF HasReceipt
<1>2. delegations[d].run \in Runs /\ delegations[d].acceptance \in AcceptanceIds
  BY <1>1 DEF TypeOK, Delegated
<1>3. DelegationOf(r) = d
  <2>1. \A e \in DelegationIds : Delegated(e) /\ delegations[e].run = r => e = d
    BY <1>1 DEF Chained
  <2> QED BY <1>1, <2>1 DEF DelegationOf
<1>4. PlanOf(r) = PlanBehind(d)
  BY <1>3 DEF PlanOf, PlanBehind
<1>5. /\ PlanBehind(d) \in Plans
      /\ PlanBehind(d).task \in Tasks
      /\ PlanBehind(d).rev \in Nat \ {0}
  BY <1>1, <1>2, PlanIsThere DEF Chained, PlanBehind
<1>6. /\ runs[r].status # "absent"
      /\ runs[r].task = PlanBehind(d).task
      /\ runs[r].accepted = PlanBehind(d).rev
  BY <1>1 DEF Bound
<1> QED BY <1>1, <1>2, <1>4, <1>5, <1>6 DEF L!IsC2C

\* What was written to the receipt tables stays there.
ReceiptsGrow ==
  /\ \A m \in MessageIds :
       evaluations[m] # None => evaluations'[m] = evaluations[m]
  /\ \A c \in AcceptanceIds :
       acceptances[c] # None => acceptances'[c] = acceptances[c]
  /\ \A d \in DelegationIds :
       delegations[d] # NoDelegation => delegations'[d] = delegations[d]

LEMMA EvaluateReceipts ==
  ASSUME TypeOK, Chained, NEW o \in Controllers, Evaluate(o)
  PROVE  ReceiptsGrow /\ Chained'
<1> DEFINE p == call[o].req.plan
<1>1. /\ p \in Plans /\ p.id \in MessageIds /\ p # None
  BY C2CAssumption DEF Evaluate, At, TypeOK, Plans, MessageIds
<1>2. /\ evaluations' = [evaluations EXCEPT ![p.id] = p]
      /\ evaluations[p.id] \in {p, None}
      /\ UNCHANGED <<acceptances, delegations>>
  BY DEF Evaluate, Evaluable, ExactReplay
<1> HIDE DEF p
<1>3. \A m \in MessageIds : evaluations'[m] = IF m = p.id THEN p ELSE evaluations[m]
  BY <1>2 DEF TypeOK
<1>4. ReceiptsGrow
  BY <1>1, <1>2, <1>3 DEF ReceiptsGrow
<1>5. Chained'
  <2>1. \A m \in MessageIds : evaluations'[m] # None => evaluations'[m].id = m
    BY <1>1, <1>3 DEF Chained
  <2>2. \A c \in AcceptanceIds : acceptances[c] # None => evaluations'[acceptances[c]] # None
    BY <1>1, <1>3 DEF Chained, TypeOK
  <2> QED BY <1>2, <2>1, <2>2 DEF Chained, Delegated
<1> QED BY <1>4, <1>5

LEMMA AcceptReceipts ==
  ASSUME TypeOK, Chained, NEW o \in Controllers, Accept(o)
  PROVE  ReceiptsGrow /\ Chained'
<1> DEFINE p == call[o].req.plan
           c == call[o].req.acceptance
<1>1. /\ p \in Plans /\ p.id \in MessageIds /\ p # None
      /\ c \in AcceptanceIds
  BY C2CAssumption DEF Accept, At, TypeOK, Plans, MessageIds, AcceptanceIds
<1>2. /\ acceptances' = [acceptances EXCEPT ![c] = p.id]
      /\ evaluations[p.id] = p
      /\ \/ acceptances[c] = p.id
         \/ /\ acceptances[c] = None
            /\ \A other \in AcceptanceIds : acceptances[other] # p.id
      /\ UNCHANGED <<evaluations, delegations>>
  BY DEF Accept, ExactReplay
<1> HIDE DEF p, c
<1>3. \A e \in AcceptanceIds : acceptances'[e] = IF e = c THEN p.id ELSE acceptances[e]
  BY <1>2 DEF TypeOK
<1>4. p.id # None
  BY <1>1, C2CAssumption
<1>5. ReceiptsGrow
  BY <1>1, <1>2, <1>3 DEF ReceiptsGrow
<1>6. Chained'
  <2>1. \A e \in AcceptanceIds : acceptances'[e] # None => evaluations[acceptances'[e]] # None
    BY <1>1, <1>2, <1>3 DEF Chained
  <2>2. \A b, e \in AcceptanceIds :
          acceptances'[b] # None /\ acceptances'[b] = acceptances'[e] => b = e
    BY <1>1, <1>2, <1>3, <1>4 DEF Chained
  <2>3. \A d \in DelegationIds :
          Delegated(d) => acceptances'[delegations[d].acceptance] # None
    <3>1. \A d \in DelegationIds : Delegated(d) => delegations[d].acceptance \in AcceptanceIds
      BY DEF TypeOK, Delegated
    <3> QED BY <1>3, <1>4, <3>1 DEF Chained
  <2> QED BY <1>2, <2>1, <2>2, <2>3 DEF Chained, Delegated
<1> QED BY <1>5, <1>6

\* What a delegation writes.
LEMMA DelegateEffect ==
  ASSUME TypeOK, NEW o \in Controllers, NEW r \in Runs, Delegate(o, r)
  PROVE  LET q == call[o].req
             row == [acceptance |-> q.acceptance, run |-> r, profile |-> q.profile] IN
         /\ q.delegation \in DelegationIds
         /\ q.acceptance \in AcceptanceIds
         /\ q.profile \in Profiles
         /\ acceptances[q.acceptance] # None
         /\ delegations[q.delegation] = NoDelegation
         /\ \A d \in DelegationIds :
              delegations'[d] = IF d = q.delegation THEN row ELSE delegations[d]
         /\ row # NoDelegation
         /\ \A d \in DelegationIds : delegations[d].acceptance # q.acceptance
         /\ runs[r].status = "absent"
         /\ L!InsertC2CRun(r, PlanOfAcceptance(q.acceptance).task,
                           PlanOfAcceptance(q.acceptance).rev)
         /\ UNCHANGED <<evaluations, acceptances>>
<1> DEFINE q == call[o].req
           row == [acceptance |-> q.acceptance, run |-> r, profile |-> q.profile]
<1>1. q \in Requests
  BY DEF Delegate, At, TypeOK
<1>2. /\ q.delegation \in DelegationIds
      /\ q.acceptance \in AcceptanceIds
      /\ q.profile \in Profiles
  BY <1>1 DEF DelegationIds, AcceptanceIds, Profiles
<1>3. row.acceptance = q.acceptance /\ NoDelegation.acceptance = None
  BY DEF NoDelegation
<1>4. row # NoDelegation
  BY <1>2, <1>3, C2CAssumption
<1>5. /\ delegations' = [delegations EXCEPT ![q.delegation] = row]
      /\ delegations[q.delegation] = NoDelegation
      /\ acceptances[q.acceptance] # None
      /\ \A d \in DelegationIds : delegations[d].acceptance # q.acceptance
      /\ L!InsertC2CRun(r, PlanOfAcceptance(q.acceptance).task,
                        PlanOfAcceptance(q.acceptance).rev)
      /\ UNCHANGED <<evaluations, acceptances>>
  BY DEF Delegate, Delegated
<1>6. runs[r].status = "absent"
  BY <1>5 DEF L!InsertC2CRun
<1>7. \A d \in DelegationIds :
        delegations'[d] = IF d = q.delegation THEN row ELSE delegations[d]
  BY <1>5 DEF TypeOK
<1> QED BY <1>2, <1>4, <1>5, <1>6, <1>7

LEMMA DelegateReceipts ==
  ASSUME TypeOK, Chained, Bound, NEW o \in Controllers, NEW r \in Runs, Delegate(o, r)
  PROVE  ReceiptsGrow /\ Chained'
<1> DEFINE q == call[o].req
           row == [acceptance |-> q.acceptance, run |-> r, profile |-> q.profile]
<1>1. /\ q.delegation \in DelegationIds
      /\ q.acceptance \in AcceptanceIds
      /\ acceptances[q.acceptance] # None
      /\ delegations[q.delegation] = NoDelegation
      /\ \A d \in DelegationIds :
           delegations'[d] = IF d = q.delegation THEN row ELSE delegations[d]
      /\ \A d \in DelegationIds : delegations[d].acceptance # q.acceptance
      /\ runs[r].status = "absent"
      /\ UNCHANGED <<evaluations, acceptances>>
  BY DelegateEffect
<1>2. row.acceptance = q.acceptance /\ row.run = r
  OBVIOUS
<1> HIDE DEF q, row
<1>3. ReceiptsGrow
  BY <1>1 DEF ReceiptsGrow
<1>4. \A d \in DelegationIds : Delegated(d) => delegations[d].run # r
  BY <1>1 DEF Bound
<1>5. \A d \in DelegationIds :
        delegations'[d] # NoDelegation => acceptances[delegations'[d].acceptance] # None
  BY <1>1, <1>2 DEF Chained, Delegated
<1>6. \A d, e \in DelegationIds :
        /\ delegations'[d] # NoDelegation
        /\ delegations'[e] # NoDelegation
        /\ \/ delegations'[d].acceptance = delegations'[e].acceptance
           \/ delegations'[d].run = delegations'[e].run
        => d = e
  BY <1>1, <1>2, <1>4 DEF Chained, Delegated
<1> QED BY <1>1, <1>3, <1>5, <1>6 DEF Chained, Delegated

\* The other steps leave the tables alone.
LEMMA StepReceipts ==
  ASSUME TypeOK, Chained, Bound, [Next]_vars
  PROVE  ReceiptsGrow /\ Chained'
<1>1. CASE UNCHANGED receipts
  BY <1>1 DEF receipts, ReceiptsGrow, Chained, Delegated
<1>2. CASE \E o \in Controllers :
             \/ Evaluate(o) \/ Accept(o)
             \/ \E r \in Runs : Delegate(o, r)
  BY <1>2, EvaluateReceipts, AcceptReceipts, DelegateReceipts
<1>3. CASE UNCHANGED vars
  BY <1>1, <1>3 DEF vars
<1>4. ASSUME NEW o \in Controllers,
             \/ \E q \in Requests : Receive(o, q)
             \/ Preflight(o) \/ DelegateReplay(o) \/ ReadRun(o) \/ AnswerOnly(o)
             \/ Spawn(o) \/ Reject(o) \/ SpawnFails(o) \/ ControllerCrash(o)
      PROVE  UNCHANGED receipts
  BY <1>4 DEF Receive, Preflight, DelegateReplay, ReadRun, AnswerOnly, Spawn,
     Reject, SpawnFails, ControllerCrash
<1>5. ASSUME NEW a \in Attempts,
             \/ AttemptStep(a) \/ Finish(a) \/ Report(a) \/ AttemptThrow(a)
             \/ AttemptDies(a)
      PROVE  UNCHANGED receipts
  BY <1>5 DEF AttemptStep, Begin, VerifyFails, Claim, Finish, Report,
     AttemptThrow, AttemptDies, Rest
<1>6. ASSUME NEW t \in Tasks,
             \/ OwnerStep(t)
             \/ \E w \in Workers : WorkerStep(w, t)
             \/ \E r \in Runs : Rival(r, t)
      PROVE  UNCHANGED receipts
  BY <1>6 DEF OwnerStep, WorkerStep, Rival, Others
<1> QED BY <1>1, <1>2, <1>3, <1>4, <1>5, <1>6 DEF Next, Phase

-----------------------------------------------------------------------------
(* Each step is a transaction of the ledger *)

LEMMA StepsAreTransactions ==
  ASSUME IInv, [Next]_vars
  PROVE  [L!Next]_ledger
<1>1. CASE UNCHANGED ledger
  BY <1>1
<1>2. ASSUME NEW o \in Controllers, NEW r \in Runs, Delegate(o, r) PROVE L!Next
  <2> DEFINE plan == PlanOfAcceptance(call[o].req.acceptance)
  <2>1. L!InsertC2CRun(r, plan.task, plan.rev) /\ plan.task \in Tasks
    BY <1>2, DelegateEffect, PlanIsThere DEF IInv
  <2>2. plan.rev = tasks[plan.task].rev
    BY <2>1 DEF L!InsertC2CRun
  <2> QED BY <2>1, <2>2 DEF L!RunStep, L!Next
<1>3. ASSUME NEW a \in Attempts, Claim(a) \/ VerifyFails(a)
      PROVE  L!Next \/ UNCHANGED ledger
  <2>1. attempt[a].run \in Runs
    BY <1>3 DEF Claim, VerifyFails, Is, IInv, TypeOK
  <2> QED BY <1>3, <2>1 DEF Claim, VerifyFails, L!RunStep, L!Next
<1>4. ASSUME NEW a \in Attempts, Report(a) PROVE L!Next
  <2> DEFINE r == attempt[a].run
             t == PlanOf(r).task
             rev == PlanOf(r).rev + 1
  <2>1. r \in Runs /\ t \in Tasks
    BY <1>4, PlanOfRun DEF Report, Is, IInv, Placed
  <2>2. r \in L!Instances
    BY <2>1 DEF L!Instances
  <2>3. \/ L!ReportResult(t, r, rev, "COMPLETED") \/ L!ReportBlocked(t, r, rev)
    BY <1>4 DEF Report
  <2> HIDE DEF r, t, rev
  <2>4. rev = tasks[t].rev
    BY <2>3 DEF L!ReportResult, L!ReportBlocked
  <2> QED BY <2>1, <2>2, <2>3, <2>4 DEF L!TaskStep, L!Next
<1>5. ASSUME NEW t \in Tasks, OwnerStep(t) PROVE L!Next
  <2>1. ASSUME NEW k \in Commits, L!CreateTask(t, [head |-> k, clean |-> TRUE])
        PROVE  L!Next
    <3>1. k \notin L!CheckpointIds
      BY C2CAssumption, L!LedgerAssumption
    <3>2. [head |-> k, clean |-> TRUE] \in L!SeenSnapshots
      BY <3>1 DEF L!SeenSnapshots, L!Snapshots, L!AllCommits
    <3> QED BY <2>1, <3>2 DEF L!TaskStep, L!Next
  <2>2. CASE L!RecoverTask(t, tasks[t].rev) \/ L!CancelTask(t, tasks[t].rev)
    BY <2>2 DEF L!TaskStep, L!Next
  <2>3. CASE L!ResumeTask(t, tasks[t].rev, L!AtBase(t))
    <3>1. tasks[t].status # "ABSENT"
      BY <2>3 DEF L!ResumeTask, L!RESUMABLE
    <3>2. L!AtBase(t) \in L!SeenSnapshots
      BY <3>1, LedgerHas DEF IInv
    <3> QED BY <2>3, <3>2 DEF L!TaskStep, L!Next
  <2> QED BY <1>5, <2>1, <2>2, <2>3 DEF OwnerStep
<1>6. ASSUME NEW t \in Tasks, NEW w \in Workers, WorkerStep(w, t) PROVE L!Next
  BY <1>6 DEF WorkerStep, L!Instances, L!TaskStep, L!Next
<1>7. ASSUME NEW t \in Tasks, NEW r \in Runs, Rival(r, t) PROVE L!Next
  BY <1>7 DEF Rival, L!RunStatuses, L!RunStep, L!Next
<1>8. ASSUME NEW o \in Controllers,
             \/ \E q \in Requests : Receive(o, q)
             \/ Evaluate(o) \/ Accept(o)
             \/ Preflight(o) \/ DelegateReplay(o) \/ ReadRun(o) \/ AnswerOnly(o)
             \/ Spawn(o) \/ Reject(o) \/ SpawnFails(o) \/ ControllerCrash(o)
      PROVE  UNCHANGED ledger
  BY <1>8 DEF Receive, Evaluate, Accept, Preflight, DelegateReplay, ReadRun,
     AnswerOnly, Spawn, Reject, SpawnFails, ControllerCrash
<1>9. ASSUME NEW a \in Attempts,
             Begin(a) \/ Finish(a) \/ AttemptThrow(a) \/ AttemptDies(a)
      PROVE  UNCHANGED ledger
  BY <1>9 DEF Begin, Finish, AttemptThrow, AttemptDies
<1>10. CASE UNCHANGED vars
  BY <1>10 DEF vars
<1> QED BY <1>2, <1>3, <1>4, <1>5, <1>6, <1>7, <1>8, <1>9, <1>10
        DEF Next, Phase, AttemptStep

-----------------------------------------------------------------------------
(* The other parts of the invariant *)

LEMMA StepBound ==
  ASSUME IInv, [Next]_vars
  PROVE  Bound'
<1>1. /\ ReceiptsGrow
      /\ \A r \in Runs :
           runs[r].status # "absent" => /\ runs'[r].status # "absent"
                                        /\ runs'[r].task = runs[r].task
                                        /\ runs'[r].accepted = runs[r].accepted
  BY StepReceipts, StepsAreTransactions, LedgerKeeps DEF IInv
<1>2. ASSUME NEW c \in AcceptanceIds, acceptances[c] # None
      PROVE  PlanOfAcceptance(c)' = PlanOfAcceptance(c)
  BY <1>1, <1>2 DEF ReceiptsGrow, PlanOfAcceptance, IInv, Chained, TypeOK
<1>3. ASSUME NEW d \in DelegationIds, Delegated(d)
      PROVE  /\ runs'[delegations'[d].run].status # "absent"
             /\ runs'[delegations'[d].run].task = PlanBehind(d)'.task
             /\ runs'[delegations'[d].run].accepted = PlanBehind(d)'.rev
  <2>1. delegations'[d] = delegations[d]
    BY <1>1, <1>3 DEF ReceiptsGrow, Delegated
  <2>2. /\ delegations[d].run \in Runs /\ delegations[d].acceptance \in AcceptanceIds
        /\ acceptances[delegations[d].acceptance] # None
    BY <1>3 DEF IInv, TypeOK, Delegated, Chained
  <2>3. PlanBehind(d)' = PlanBehind(d)
    BY <1>2, <2>1, <2>2 DEF PlanBehind
  <2> QED BY <1>1, <1>3, <2>1, <2>2, <2>3 DEF IInv, Bound
<1>4. CASE UNCHANGED delegations
  BY <1>3, <1>4 DEF Bound, Delegated
<1>5. ASSUME NEW o \in Controllers, NEW r \in Runs, Delegate(o, r)
      PROVE  Bound'
  <2>1. PICK e \in DelegationIds, c \in AcceptanceIds :
          /\ acceptances[c] # None
          /\ delegations'[e].acceptance = c
          /\ delegations'[e].run = r
          /\ \A d \in DelegationIds : d # e => delegations'[d] = delegations[d]
          /\ L!InsertC2CRun(r, PlanOfAcceptance(c).task, PlanOfAcceptance(c).rev)
    <3> DEFINE q == call[o].req
               row == [acceptance |-> q.acceptance, run |-> r, profile |-> q.profile]
    <3>1. /\ q.delegation \in DelegationIds
          /\ q.acceptance \in AcceptanceIds
          /\ acceptances[q.acceptance] # None
          /\ \A d \in DelegationIds :
               delegations'[d] = IF d = q.delegation THEN row ELSE delegations[d]
          /\ L!InsertC2CRun(r, PlanOfAcceptance(q.acceptance).task,
                            PlanOfAcceptance(q.acceptance).rev)
      BY <1>5, DelegateEffect DEF IInv
    <3>2. row.acceptance = q.acceptance /\ row.run = r
      OBVIOUS
    <3> HIDE DEF q, row
    <3> QED BY <3>1, <3>2
  <2> DEFINE plan == PlanOfAcceptance(c)
  <2>2. /\ runs'[r].status # "absent"
        /\ runs'[r].task = plan.task
        /\ runs'[r].accepted = plan.rev
    <3>1. runs \in [Runs -> L!RunRow]
      BY DEF IInv, TypeOK, L!TypeOK
    <3> QED BY <2>1, <3>1 DEF L!InsertC2CRun
  <2>3. PlanBehind(e)' = plan
    BY <1>2, <2>1 DEF PlanBehind
  <2> HIDE DEF plan
  <2>4. ASSUME NEW d \in DelegationIds, Delegated(d)'
        PROVE  /\ runs'[delegations'[d].run].status # "absent"
               /\ runs'[delegations'[d].run].task = PlanBehind(d)'.task
               /\ runs'[delegations'[d].run].accepted = PlanBehind(d)'.rev
    <3>1. CASE d = e
      BY <2>1, <2>2, <2>3, <3>1
    <3>2. CASE d # e
      BY <1>3, <2>1, <2>4, <3>2 DEF Delegated
    <3> QED BY <3>1, <3>2
  <2> QED BY <2>4 DEF Bound
<1>6. \/ UNCHANGED delegations
      \/ \E o \in Controllers, r \in Runs : Delegate(o, r)
  BY DEF vars, receipts, Next, Phase, Receive, Evaluate, Accept, Preflight, DelegateReplay,
     ReadRun, AnswerOnly, Spawn, Reject, SpawnFails, ControllerCrash, AttemptStep,
     Begin, VerifyFails, Claim, Finish, Report, AttemptThrow, AttemptDies, Rest,
     OwnerStep, WorkerStep, Rival, Others
<1> QED BY <1>4, <1>5, <1>6

\* A receipt that is there stays there.
LEMMA ReceiptKept ==
  ASSUME ReceiptsGrow, NEW r, HasReceipt(r)
  PROVE  HasReceipt(r)'
BY DEF ReceiptsGrow, HasReceipt, Delegated

\* And so does what it says of a request.
LEMMA KnownKept ==
  ASSUME ReceiptsGrow, NEW q \in Requests
  PROVE  /\ ExactReplay(q.plan) => ExactReplay(q.plan)'
         /\ acceptances[q.acceptance] = q.plan.id => acceptances'[q.acceptance] = q.plan.id
<1>1. q.plan \in Plans /\ q.plan.id \in MessageIds /\ q.acceptance \in AcceptanceIds
  BY DEF Plans, MessageIds, AcceptanceIds
<1>2. q.plan # None /\ q.plan.id # None
  BY <1>1, C2CAssumption
<1> QED BY <1>1, <1>2 DEF ReceiptsGrow, ExactReplay

\* A call is typed, and has a receipt where it needs one.
CallOK(c) ==
  /\ c \in Calls
  /\ c.pc # "idle" => c.req \in Requests
  /\ c.pc \in {"read", "launch"} => c.run \in Runs /\ HasReceipt(c.run)
  /\ Known(c)

CallsOK == call = [o \in Controllers |-> call[o]] /\ \A o \in Controllers : CallOK(call[o])

LEMMA CallsAreOK == TypeOK /\ Placed => CallsOK
BY DEF TypeOK, Placed, CallsOK, CallOK

\* A step that gives controller o a call that is in order keeps the others so.
LEMMA CallWritten ==
  ASSUME CallsOK, ReceiptsGrow, NEW o \in Controllers, NEW c, CallOK(c)',
         call' = [call EXCEPT ![o] = c]
  PROVE  CallsOK'
<1>1. \A u \in Controllers : call'[u] = IF u = o THEN c ELSE call[u]
  BY DEF CallsOK
<1>2. call' = [u \in Controllers |-> call'[u]]
  BY DEF CallsOK
<1>3. ASSUME NEW u \in Controllers PROVE CallOK(call[u])'
  BY <1>1, ReceiptKept, KnownKept DEF CallsOK, CallOK, Known
<1> QED BY <1>2, <1>3 DEF CallsOK

LEMMA CallsKept ==
  ASSUME CallsOK, ReceiptsGrow, UNCHANGED call
  PROVE  CallsOK'
BY ReceiptKept, KnownKept DEF CallsOK, CallOK, Known

LEMMA StepCalls ==
  ASSUME IInv, [Next]_vars
  PROVE  CallsOK'
<1>1. CallsOK /\ ReceiptsGrow /\ L!TypeOK
  BY CallsAreOK, StepReceipts DEF IInv, TypeOK
<1>2. CASE UNCHANGED call
  BY <1>1, <1>2, CallsKept
<1>3. ASSUME NEW o \in Controllers, Return(o) PROVE CallsOK'
  <2>1. CallOK(NoCall)'
    BY DEF CallOK, Known, NoCall, Calls
  <2> QED BY <1>1, <1>3, <2>1, CallWritten DEF Return
<1>4. ASSUME NEW o \in Controllers, call[o].pc # "idle",
             NEW pc \in {"accept", "preflight", "delegate"},
             NEW found \in BOOLEAN,
             evaluations'[call[o].req.plan.id] = call[o].req.plan,
             pc # "accept" => acceptances'[call[o].req.acceptance] = call[o].req.plan.id,
             call' = [call EXCEPT ![o] = [call[o] EXCEPT !.pc = pc, !.found = found]]
      PROVE  CallsOK'
  <2>1. PICK c : c = [call[o] EXCEPT !.pc = pc, !.found = found]
    OBVIOUS
  <2>2. CallOK(call[o])
    BY <1>1 DEF CallsOK
  <2>3. c \in Calls /\ c.pc = pc /\ c.req = call[o].req
    BY <2>1, <2>2 DEF CallOK, Calls
  <2>4. CallOK(c)'
    BY <1>4, <2>2, <2>3 DEF CallOK, Known, ExactReplay
  <2> QED BY <1>1, <1>4, <2>1, <2>4, CallWritten
<1>5. ASSUME NEW o \in Controllers, NEW q \in Requests, Receive(o, q) PROVE CallsOK'
  <2> DEFINE c == [NoCall EXCEPT !.pc = "evaluate", !.req = q]
  <2>1. c \in Calls /\ c.pc = "evaluate" /\ c.req = q
    BY DEF NoCall, Calls
  <2>2. call' = [call EXCEPT ![o] = c]
    BY <1>5 DEF Receive
  <2> HIDE DEF c
  <2>3. CallOK(c)'
    BY <2>1 DEF CallOK, Known
  <2> QED BY <1>1, <2>2, <2>3, CallWritten
<1>6. ASSUME NEW o \in Controllers, Evaluate(o) \/ Accept(o) PROVE CallsOK'
  <2>1. call[o] \in Calls /\ call[o].found \in BOOLEAN
    BY <1>1 DEF CallsOK, CallOK, Calls
  <2>2. /\ call[o].pc \in {"evaluate", "accept"}
        /\ call[o].req \in Requests
        /\ call[o].req.plan \in Plans /\ call[o].req.plan.id \in MessageIds
        /\ call[o].req.acceptance \in AcceptanceIds
    BY <1>1, <1>6 DEF Evaluate, Accept, At, CallsOK, CallOK, Plans, MessageIds, AcceptanceIds
  <2>3. CASE Evaluate(o)
    <3>1. call' = [call EXCEPT ![o] = [call[o] EXCEPT !.pc = "accept", !.found = call[o].found]]
      BY <2>1, <2>3 DEF Evaluate, Goto, Calls
    <3>2. evaluations'[call[o].req.plan.id] = call[o].req.plan
      BY <2>2, <2>3 DEF Evaluate, IInv, TypeOK
    <3> QED BY <1>4, <2>1, <2>2, <3>1, <3>2
  <2>4. CASE Accept(o)
    <3>1. call' = [call EXCEPT ![o] = [call[o] EXCEPT !.pc = "preflight", !.found = call[o].found]]
      BY <2>1, <2>4 DEF Accept, Goto, Calls
    <3>2. /\ evaluations'[call[o].req.plan.id] = call[o].req.plan
          /\ acceptances'[call[o].req.acceptance] = call[o].req.plan.id
      BY <2>2, <2>4 DEF Accept, ExactReplay, IInv, TypeOK
    <3> QED BY <1>4, <2>1, <2>2, <3>1, <3>2
  <2> QED BY <1>6, <2>3, <2>4
<1>7. ASSUME NEW o \in Controllers, Preflight(o) PROVE CallsOK'
  <2> DEFINE found == Delegated(call[o].req.delegation)
  <2>1. found \in BOOLEAN
    BY DEF Delegated
  <2>2. \/ call' = [call EXCEPT ![o] = [call[o] EXCEPT !.pc = "delegate", !.found = found]]
        \/ Return(o)
    BY <1>7 DEF Preflight
  <2> HIDE DEF found
  <2>3. /\ evaluations'[call[o].req.plan.id] = call[o].req.plan
        /\ acceptances'[call[o].req.acceptance] = call[o].req.plan.id
    BY <1>1, <1>7 DEF Preflight, receipts, At, CallsOK, CallOK, Known, ExactReplay
  <2> QED BY <1>3, <1>4, <1>7, <2>1, <2>2, <2>3 DEF Preflight, At
<1>8. ASSUME NEW o \in Controllers, At(o, "delegate"), NEW r \in Runs, HasReceipt(r)',
             call' = [call EXCEPT ![o] = [call[o] EXCEPT !.pc = "read", !.run = r]]
      PROVE  CallsOK'
  <2>1. PICK c : c = [call[o] EXCEPT !.pc = "read", !.run = r]
    OBVIOUS
  <2>2. CallOK(call[o])
    BY <1>1 DEF CallsOK
  <2>3. c \in Calls /\ c.pc = "read" /\ c.req = call[o].req /\ c.run = r
    BY <2>1, <2>2 DEF CallOK, Calls
  <2>4. CallOK(c)'
    BY <1>1, <1>8, <2>2, <2>3, KnownKept DEF CallOK, Known, At
  <2> QED BY <1>1, <1>8, <2>1, <2>4, CallWritten
<1>9. ASSUME NEW o \in Controllers, DelegateReplay(o) PROVE CallsOK'
  <2>1. PICK d \in DelegationIds :
          /\ d = call[o].req.delegation
          /\ delegations[d].acceptance \in AcceptanceIds
    BY <1>9 DEF DelegateReplay, At, IInv, TypeOK, DelegationIds, AcceptanceIds
  <2>2. Delegated(d)
    BY <2>1, C2CAssumption DEF Delegated, NoDelegation
  <2>3. PICK r \in Runs : r = delegations[d].run
    BY <2>2 DEF IInv, TypeOK, Delegated
  <2>4. HasReceipt(r)'
    BY <1>1, <2>2, <2>3, ReceiptKept DEF HasReceipt
  <2>5. call' = [call EXCEPT ![o] = [call[o] EXCEPT !.pc = "read", !.run = r]]
    BY <1>9, <2>1, <2>3 DEF DelegateReplay
  <2> QED BY <1>8, <1>9, <2>4, <2>5 DEF DelegateReplay
<1>10. ASSUME NEW o \in Controllers, NEW r \in Runs, Delegate(o, r) PROVE CallsOK'
  <2>1. HasReceipt(r)'
    <3> DEFINE q == call[o].req
               row == [acceptance |-> q.acceptance, run |-> r, profile |-> q.profile]
    <3>1. /\ q.delegation \in DelegationIds
          /\ \A d \in DelegationIds :
               delegations'[d] = IF d = q.delegation THEN row ELSE delegations[d]
          /\ row # NoDelegation
      BY <1>10, DelegateEffect DEF IInv
    <3>2. row.run = r
      OBVIOUS
    <3> HIDE DEF row, q
    <3> QED BY <3>1, <3>2 DEF HasReceipt, Delegated
  <2>2. call' = [call EXCEPT ![o] = [call[o] EXCEPT !.pc = "read", !.run = r]]
    BY <1>10 DEF Delegate
  <2> QED BY <1>8, <1>10, <2>1, <2>2 DEF Delegate
<1>11. ASSUME NEW o \in Controllers, ReadRun(o) PROVE CallsOK'
  <2>1. PICK c : c = [call[o] EXCEPT !.pc = "launch", !.seen = runs[call[o].run].status]
    OBVIOUS
  <2>2. CallOK(call[o]) /\ call[o].pc = "read"
    BY <1>1, <1>11 DEF CallsOK, ReadRun, At
  <2>3. runs[call[o].run].status \in L!RunStatuses \cup {"absent"}
    BY <1>1, <2>2 DEF CallOK, L!TypeOK, L!RunRow
  <2>4. /\ c \in Calls /\ c.pc = "launch" /\ c.req = call[o].req
        /\ c.run = call[o].run
    BY <2>1, <2>2, <2>3 DEF CallOK, Calls
  <2>5. c.run \in Runs /\ HasReceipt(c.run)
    BY <2>2, <2>4 DEF CallOK
  <2>6. CallOK(c)'
    BY <1>1, <2>2, <2>4, <2>5, ReceiptKept, KnownKept DEF CallOK, Known
  <2>7. call' = [call EXCEPT ![o] = c]
    BY <1>11, <2>1 DEF ReadRun
  <2> QED BY <1>1, <2>6, <2>7, CallWritten
<1>12. ASSUME NEW o \in Controllers,
              \/ AnswerOnly(o) \/ Spawn(o) \/ Reject(o) \/ SpawnFails(o)
              \/ ControllerCrash(o)
       PROVE  CallsOK'
  BY <1>3, <1>12 DEF AnswerOnly, Spawn, Reject, SpawnFails, ControllerCrash
<1>13. ASSUME NEW a \in Attempts,
              \/ AttemptStep(a) \/ Finish(a) \/ Report(a) \/ AttemptThrow(a)
              \/ AttemptDies(a)
       PROVE  UNCHANGED call
  BY <1>13 DEF AttemptStep, Begin, VerifyFails, Claim, Finish, Report,
     AttemptThrow, AttemptDies, Rest
<1>14. ASSUME NEW t \in Tasks,
              \/ OwnerStep(t)
              \/ \E w \in Workers : WorkerStep(w, t)
              \/ \E r \in Runs : Rival(r, t)
       PROVE  UNCHANGED call
  BY <1>14 DEF OwnerStep, WorkerStep, Rival, Others
<1>15. CASE UNCHANGED vars
  BY <1>2, <1>15 DEF vars
<1> QED BY <1>2, <1>5, <1>6, <1>7, <1>9, <1>10, <1>11, <1>12, <1>13, <1>14, <1>15
        DEF Next, Phase

\* An attempt is typed, works on a run with a receipt, and executes only what
\* it claimed.
AttemptTypes == [pc : {"off", "start", "verify", "execute", "report", "gone"},
                 run : Runs \cup {None}]

AttemptOK(a, x) ==
  /\ x \in AttemptTypes
  /\ x.pc # "off" => x.run \in Runs /\ HasReceipt(x.run)
  /\ x.pc \in {"execute", "report"} => claimant[x.run] = a

AttemptsOK ==
  /\ claimant \in [Runs -> Attempts \cup {None}]
  /\ attempt = [a \in Attempts |-> attempt[a]]
  /\ \A a \in Attempts : AttemptOK(a, attempt[a])

LEMMA AttemptsAreOK == TypeOK /\ Placed => AttemptsOK
BY DEF TypeOK, Placed, Executes, Is, AttemptsOK, AttemptOK, AttemptTypes

LEMMA AttemptWritten ==
  ASSUME AttemptsOK, ReceiptsGrow, NEW a \in Attempts, NEW x, AttemptOK(a, x)',
         claimant' \in [Runs -> Attempts \cup {None}],
         \A r \in Runs : claimant[r] # None => claimant'[r] = claimant[r],
         attempt' = [attempt EXCEPT ![a] = x]
  PROVE  AttemptsOK'
<1>1. \A b \in Attempts : attempt'[b] = IF b = a THEN x ELSE attempt[b]
  BY DEF AttemptsOK
<1>2. attempt' = [b \in Attempts |-> attempt'[b]]
  BY DEF AttemptsOK
<1>3. ASSUME NEW b \in Attempts, b # a PROVE AttemptOK(b, attempt[b])'
  <2>1. AttemptOK(b, attempt[b]) /\ attempt'[b] = attempt[b] /\ b # None
    BY <1>1, <1>3, C2CAssumption DEF AttemptsOK
  <2> QED BY <2>1, ReceiptKept DEF AttemptOK
<1>4. ASSUME NEW b \in Attempts PROVE AttemptOK(b, attempt[b])'
  BY <1>1, <1>3 DEF AttemptOK
<1> QED BY <1>2, <1>4 DEF AttemptsOK

LEMMA AttemptsKept ==
  ASSUME AttemptsOK, ReceiptsGrow, UNCHANGED <<attempt, claimant>>
  PROVE  AttemptsOK'
<1>1. ASSUME NEW b \in Attempts PROVE AttemptOK(b, attempt[b])'
  BY ReceiptKept DEF AttemptsOK, AttemptOK
<1> QED BY <1>1 DEF AttemptsOK

LEMMA StepAttempts ==
  ASSUME IInv, [Next]_vars
  PROVE  AttemptsOK'
<1>1. AttemptsOK /\ ReceiptsGrow
  BY AttemptsAreOK, StepReceipts DEF IInv
<1>2. CASE UNCHANGED <<attempt, claimant>>
  BY <1>1, <1>2, AttemptsKept
<1>3. ASSUME NEW a \in Attempts, attempt[a].pc # "off",
             NEW pc \in {"verify", "report", "gone"},
             pc = "report" => claimant[attempt[a].run] = a,
             Turn(a, pc), UNCHANGED claimant
      PROVE  AttemptsOK'
  <2>1. PICK x : x = [attempt[a] EXCEPT !.pc = pc]
    OBVIOUS
  <2>2. AttemptOK(a, attempt[a])
    BY <1>1 DEF AttemptsOK
  <2>3. x \in AttemptTypes /\ x.pc = pc /\ x.run = attempt[a].run
    BY <2>1, <2>2 DEF AttemptOK, AttemptTypes
  <2>4. AttemptOK(a, x)'
    BY <1>1, <1>3, <2>2, <2>3, ReceiptKept DEF AttemptOK
  <2>5. attempt' = [attempt EXCEPT ![a] = x]
    BY <1>3, <2>1 DEF Turn
  <2> QED BY <1>1, <1>3, <2>4, <2>5, AttemptWritten DEF AttemptsOK
<1>4. ASSUME NEW a \in Attempts, attempt[a].pc # "off", End(a), UNCHANGED claimant
      PROVE  AttemptsOK'
  <2>1. CASE claimant[attempt[a].run] = a
    <3>1. Turn(a, "gone")
      BY <1>4, <2>1 DEF End, Turn
    <3> QED BY <1>3, <1>4, <3>1
  <2>2. CASE claimant[attempt[a].run] # a
    <3>1. attempt' = [attempt EXCEPT ![a] = NoAttempt]
      BY <1>4, <2>2 DEF End
    <3>2. AttemptOK(a, NoAttempt)'
      BY DEF AttemptOK, AttemptTypes, NoAttempt
    <3> QED BY <1>1, <1>4, <3>1, <3>2, AttemptWritten DEF AttemptsOK
  <2> QED BY <2>1, <2>2
<1>5. ASSUME NEW a \in Attempts, NEW r \in Runs, HasReceipt(r), UNCHANGED claimant,
             attempt' = [attempt EXCEPT ![a] = [pc |-> "start", run |-> r]]
      PROVE  AttemptsOK'
  <2>1. PICK x : x = [pc |-> "start", run |-> r]
    OBVIOUS
  <2>2. x \in AttemptTypes /\ x.pc = "start" /\ x.run = r
    BY <2>1 DEF AttemptTypes
  <2>3. AttemptOK(a, x)'
    BY <1>1, <1>5, <2>2, ReceiptKept DEF AttemptOK
  <2> QED BY <1>1, <1>5, <2>1, <2>3, AttemptWritten DEF AttemptsOK
<1>6. ASSUME NEW o \in Controllers, Spawn(o) PROVE AttemptsOK'
  <2>1. PICK r \in Runs : r = call[o].run /\ HasReceipt(r)
    BY <1>6 DEF Spawn, At, IInv, TypeOK, Placed
  <2> QED BY <1>5, <1>6, <2>1 DEF Spawn
<1>7. ASSUME NEW a \in Attempts, Claim(a) PROVE AttemptsOK'
  <2>1. AttemptOK(a, attempt[a]) /\ attempt[a].pc = "verify"
    BY <1>1, <1>7 DEF AttemptsOK, Claim, Is
  <2>2. PICK r \in Runs : r = attempt[a].run
    BY <2>1 DEF AttemptOK
  <2>3. PICK x : x = [attempt[a] EXCEPT !.pc = "execute"]
    OBVIOUS
  <2>4. /\ x \in AttemptTypes /\ x.pc = "execute" /\ x.run = r
        /\ HasReceipt(r)
    BY <2>1, <2>2, <2>3 DEF AttemptOK, AttemptTypes
  <2>5. /\ claimant[r] = None
        /\ claimant' = [claimant EXCEPT ![r] = a]
        /\ attempt' = [attempt EXCEPT ![a] = x]
    BY <1>7, <2>2, <2>3 DEF Claim, Turn
  <2>6. claimant' \in [Runs -> Attempts \cup {None}] /\ claimant'[r] = a
    BY <1>1, <2>5 DEF AttemptsOK
  <2>7. \A s \in Runs : claimant[s] # None => claimant'[s] = claimant[s]
    BY <1>1, <2>5 DEF AttemptsOK
  <2>8. AttemptOK(a, x)'
    BY <1>1, <2>4, <2>6, ReceiptKept DEF AttemptOK
  <2> QED BY <1>1, <2>5, <2>6, <2>7, <2>8, AttemptWritten
<1>8. ASSUME NEW a \in Attempts, Begin(a) PROVE AttemptsOK'
  BY <1>3, <1>8 DEF Begin, Is
<1>9. ASSUME NEW a \in Attempts, Finish(a) PROVE AttemptsOK'
  BY <1>3, <1>9 DEF Finish, Is
<1>10. ASSUME NEW a \in Attempts,
              VerifyFails(a) \/ Report(a) \/ AttemptThrow(a) \/ AttemptDies(a)
       PROVE  AttemptsOK'
  BY <1>4, <1>10 DEF VerifyFails, Report, AttemptThrow, AttemptDies, Is
<1>11. ASSUME NEW o \in Controllers,
              \/ \E q \in Requests : Receive(o, q)
              \/ Evaluate(o) \/ Accept(o) \/ Preflight(o) \/ DelegateReplay(o)
              \/ \E r \in Runs : Delegate(o, r)
              \/ ReadRun(o) \/ AnswerOnly(o) \/ Reject(o) \/ SpawnFails(o)
              \/ ControllerCrash(o)
       PROVE  UNCHANGED <<attempt, claimant>>
  BY <1>11 DEF Receive, Evaluate, Accept, Preflight, DelegateReplay, Delegate,
     ReadRun, AnswerOnly, Reject, SpawnFails, ControllerCrash, Physical
<1>12. ASSUME NEW t \in Tasks,
              \/ OwnerStep(t)
              \/ \E w \in Workers : WorkerStep(w, t)
              \/ \E r \in Runs : Rival(r, t)
       PROVE  UNCHANGED <<attempt, claimant>>
  BY <1>12 DEF OwnerStep, WorkerStep, Rival, Others, Physical
<1>13. CASE UNCHANGED vars
  BY <1>2, <1>13 DEF vars
<1> QED BY <1>2, <1>6, <1>7, <1>8, <1>9, <1>10, <1>11, <1>12, <1>13
        DEF Next, Phase, AttemptStep

\* No transaction but the insertion of a C2C run gives a run an accepted revision.
LEMMA AcceptedKept ==
  ASSUME IInv, [Next]_vars, \A o \in Controllers, r \in Runs : ~Delegate(o, r),
         NEW r \in Runs
  PROVE  runs'[r].accepted \in {runs[r].accepted, 0}
<1>1. runs \in [Runs -> L!RunRow]
  BY DEF IInv, TypeOK, L!TypeOK
<1>2. ASSUME NEW i, NEW t, NEW status, L!UpdateRunOf(i, t, status)
      PROVE  runs'[r].accepted = runs[r].accepted
  BY <1>1, <1>2 DEF L!UpdateRunOf, L!RunRow
<1>3. ASSUME NEW t, L!FailActiveRunsOf(t)
      PROVE  runs'[r].accepted = runs[r].accepted
  BY <1>1, <1>3 DEF L!FailActiveRunsOf, L!RunRow
<1>4. ASSUME NEW a \in Attempts, Claim(a) \/ VerifyFails(a) \/ Report(a)
      PROVE  runs'[r].accepted = runs[r].accepted
  <2>1. CASE Claim(a)
    BY <1>2, <2>1 DEF Claim, L!ClaimC2CDispatchTask
  <2>2. CASE VerifyFails(a)
    BY <1>1, <2>2 DEF VerifyFails, L!FailC2CDispatchBeforeClaim, ledger, L!RunRow
  <2>3. CASE Report(a)
    BY <1>2, <2>3 DEF Report, L!ReportResult, L!ReportBlocked
  <2> QED BY <1>4, <2>1, <2>2, <2>3
<1>5. ASSUME NEW t \in Tasks,
             \/ OwnerStep(t)
             \/ \E w \in Workers : WorkerStep(w, t)
             \/ \E q \in Runs : Rival(q, t)
      PROVE  runs'[r].accepted \in {runs[r].accepted, 0}
  <2>1. CASE OwnerStep(t)
    BY <1>3, <2>1 DEF OwnerStep, L!CreateTask, L!RecoverTask, L!CancelTask, L!ResumeTask
  <2>2. ASSUME NEW w \in Workers, WorkerStep(w, t) PROVE runs'[r].accepted = runs[r].accepted
    BY <1>2, <2>2 DEF WorkerStep, L!ClaimTask, L!ClaimNextTask, L!ReportBlocked
  <2>3. ASSUME NEW q \in Runs, Rival(q, t) PROVE runs'[r].accepted \in {runs[r].accepted, 0}
    BY <1>1, <2>3 DEF Rival, L!InsertRun, L!OverwriteRun, L!RunRow
  <2> QED BY <1>5, <2>1, <2>2, <2>3
<1>6. ASSUME NEW o \in Controllers,
             \/ \E q \in Requests : Receive(o, q)
             \/ Evaluate(o) \/ Accept(o)
             \/ Preflight(o) \/ DelegateReplay(o) \/ ReadRun(o) \/ AnswerOnly(o)
             \/ Spawn(o) \/ Reject(o) \/ SpawnFails(o) \/ ControllerCrash(o)
      PROVE  UNCHANGED runs
  BY <1>6 DEF ledger, Receive, Evaluate, Accept, Preflight, DelegateReplay, ReadRun,
     AnswerOnly, Spawn, Reject, SpawnFails, ControllerCrash
<1>7. ASSUME NEW a \in Attempts,
             Begin(a) \/ Finish(a) \/ AttemptThrow(a) \/ AttemptDies(a)
      PROVE  UNCHANGED runs
  BY <1>7 DEF ledger, Begin, Finish, AttemptThrow, AttemptDies
<1>8. CASE UNCHANGED vars
  BY <1>8 DEF vars, ledger
<1> QED BY <1>4, <1>5, <1>6, <1>7, <1>8 DEF Next, Phase, AttemptStep

LEMMA StepSent ==
  ASSUME IInv, [Next]_vars
  PROVE  Sent'
<1>1. ReceiptsGrow /\ CallsOK
  BY StepReceipts, CallsAreOK DEF IInv
<1>2. ASSUME NEW d \in DelegationIds, Delegated(d)
      PROVE  Delegated(d)' /\ \E q \in Requests : SentAs(q, d)'
  <2>1. PICK q \in Requests : SentAs(q, d)
    BY <1>2 DEF IInv, Sent
  <2>2. delegations'[d] = delegations[d]
    BY <1>1, <1>2 DEF ReceiptsGrow, Delegated
  <2> QED BY <1>1, <1>2, <2>1, <2>2, KnownKept DEF SentAs, Delegated
<1>3. ASSUME NEW r \in Runs, HasReceipt(r) PROVE HasReceipt(r)'
  BY <1>1, <1>3, ReceiptKept
<1>4. CASE \A o \in Controllers, r \in Runs : ~Delegate(o, r)
  <2>1. UNCHANGED delegations
    BY <1>4 DEF vars, receipts, Next, Phase, Receive, Evaluate, Accept, Preflight,
       DelegateReplay, ReadRun, AnswerOnly, Spawn, Reject, SpawnFails, ControllerCrash,
       AttemptStep, Begin, VerifyFails, Claim, Finish, Report, AttemptThrow, AttemptDies,
       Rest, OwnerStep, WorkerStep, Rival, Others
  <2>2. \A r \in Runs : L!IsC2C(r)' => L!IsC2C(r)
    BY <1>4, AcceptedKept DEF L!IsC2C
  <2> QED BY <1>2, <1>3, <2>1, <2>2 DEF IInv, Sent, Delegated
<1>5. ASSUME NEW o \in Controllers, NEW r \in Runs, Delegate(o, r) PROVE Sent'
  <2>1. PICK q \in Requests : q = call[o].req
    BY <1>5 DEF Delegate, At, IInv, TypeOK
  <2>2. ExactReplay(q.plan) /\ acceptances[q.acceptance] = q.plan.id
    BY <1>1, <1>5, <2>1 DEF Delegate, At, CallsOK, CallOK, Known
  <2>3. /\ q.delegation \in DelegationIds
        /\ delegations'[q.delegation].acceptance = q.acceptance
        /\ delegations'[q.delegation].run = r
        /\ delegations'[q.delegation].profile = q.profile
        /\ delegations'[q.delegation] # NoDelegation
        /\ \A d \in DelegationIds : d # q.delegation => delegations'[d] = delegations[d]
        /\ UNCHANGED <<evaluations, acceptances>>
    <3> DEFINE row == [acceptance |-> q.acceptance, run |-> r, profile |-> q.profile]
    <3>1. /\ q.delegation \in DelegationIds
          /\ \A d \in DelegationIds :
               delegations'[d] = IF d = q.delegation THEN row ELSE delegations[d]
          /\ row # NoDelegation
          /\ UNCHANGED <<evaluations, acceptances>>
      BY <1>5, <2>1, DelegateEffect DEF IInv
    <3>2. row.acceptance = q.acceptance /\ row.run = r /\ row.profile = q.profile
      OBVIOUS
    <3> HIDE DEF row
    <3> QED BY <3>1, <3>2
  <2>4. SentAs(q, q.delegation)'
    BY <2>2, <2>3 DEF SentAs, ExactReplay
  <2>5. \A s \in Runs \ {r} : runs'[s] = runs[s]
    BY <1>5 DEF Delegate, IInv, TypeOK, L!TypeOK, L!InsertC2CRun
  <2>6. HasReceipt(r)'
    BY <2>3 DEF HasReceipt, Delegated
  <2>7. ASSUME NEW d \in DelegationIds, Delegated(d)' PROVE \E p \in Requests : SentAs(p, d)'
    BY <1>2, <2>3, <2>4, <2>7 DEF Delegated
  <2>8. ASSUME NEW s \in Runs, L!IsC2C(s)' PROVE HasReceipt(s)'
    BY <1>3, <2>5, <2>6, <2>8 DEF IInv, Sent, L!IsC2C
  <2> QED BY <2>7, <2>8 DEF Sent
<1> QED BY <1>4, <1>5

\* The tables keep their types, and the bound on failures holds.
LEMMA StepTables ==
  ASSUME IInv, [Next]_vars
  PROVE  /\ evaluations' \in [MessageIds -> Plans \cup {None}]
         /\ acceptances' \in [AcceptanceIds -> MessageIds \cup {None}]
         /\ delegations' \in [DelegationIds ->
              [acceptance : AcceptanceIds, run : Runs, profile : Profiles]
                \cup {NoDelegation}]
         /\ failures' \in 0..MaxFailures
<1> USE DEF IInv, TypeOK
<1>1. ASSUME NEW o \in Controllers, Evaluate(o)
      PROVE  evaluations' \in [MessageIds -> Plans \cup {None}]
  <2>1. call[o].req.plan \in Plans /\ call[o].req.plan.id \in MessageIds
    BY <1>1 DEF Evaluate, At, Plans, MessageIds
  <2> QED BY <1>1, <2>1 DEF Evaluate
<1>2. ASSUME NEW o \in Controllers, Accept(o)
      PROVE  acceptances' \in [AcceptanceIds -> MessageIds \cup {None}]
  <2>1. call[o].req.plan \in Plans /\ call[o].req.plan.id \in MessageIds
    BY <1>2 DEF Accept, At, Plans, MessageIds
  <2> QED BY <1>2, <2>1 DEF Accept
<1>3. ASSUME NEW o \in Controllers, NEW r \in Runs, Delegate(o, r)
      PROVE  delegations' \in [DelegationIds ->
               [acceptance : AcceptanceIds, run : Runs, profile : Profiles]
                 \cup {NoDelegation}]
  <2>1. /\ call[o].req.delegation \in DelegationIds
        /\ call[o].req.acceptance \in AcceptanceIds
        /\ call[o].req.profile \in Profiles
    BY <1>3, DelegateEffect
  <2> QED BY <1>3, <2>1 DEF Delegate
<1>4. failures' \in 0..MaxFailures
  <2>1. ASSUME failures < MaxFailures, failures' = failures + 1
        PROVE  failures' \in 0..MaxFailures
    BY <2>1, C2CAssumption
  <2>2. ASSUME NEW o \in Controllers, SpawnFails(o) \/ ControllerCrash(o)
        PROVE  failures' \in 0..MaxFailures
    BY <2>1, <2>2 DEF SpawnFails, ControllerCrash
  <2>3. ASSUME NEW a \in Attempts, AttemptDies(a)
        PROVE  failures' \in 0..MaxFailures
    BY <2>1, <2>3 DEF AttemptDies
  <2>4. ASSUME NEW o \in Controllers,
               \/ \E q \in Requests : Receive(o, q)
               \/ Phase(o) \/ Reject(o)
        PROVE  failures' = failures
    BY <2>4 DEF Phase, Receive, Evaluate, Accept, Preflight, DelegateReplay,
       Delegate, ReadRun, AnswerOnly, Spawn, Reject
  <2>5. ASSUME NEW a \in Attempts,
               AttemptStep(a) \/ Finish(a) \/ Report(a) \/ AttemptThrow(a)
        PROVE  failures' = failures
    BY <2>5 DEF AttemptStep, Begin, VerifyFails, Claim, Finish, Report,
       AttemptThrow
  <2>6. ASSUME NEW t \in Tasks,
               \/ OwnerStep(t)
               \/ \E w \in Workers : WorkerStep(w, t)
               \/ \E r \in Runs : Rival(r, t)
        PROVE  failures' = failures
    BY <2>6 DEF OwnerStep, WorkerStep, Rival, Others
  <2>7. CASE UNCHANGED vars
    BY <2>7 DEF vars
  <2> QED BY <2>2, <2>3, <2>4, <2>5, <2>6, <2>7 DEF Next
<1>5. /\ UNCHANGED evaluations \/ \E o \in Controllers : Evaluate(o)
      /\ UNCHANGED acceptances \/ \E o \in Controllers : Accept(o)
      /\ UNCHANGED delegations \/ \E o \in Controllers, r \in Runs : Delegate(o, r)
  BY DEF vars, receipts, Next, Phase, Receive, Evaluate, Accept, Preflight,
     DelegateReplay, Delegate, ReadRun, AnswerOnly, Spawn, Reject, SpawnFails,
     ControllerCrash, AttemptStep, Begin, VerifyFails, Claim, Finish, Report,
     AttemptThrow, AttemptDies, Rest, OwnerStep, WorkerStep, Rival, Others
<1> QED BY <1>1, <1>2, <1>3, <1>4, <1>5

-----------------------------------------------------------------------------
(* Theorems *)

LEMMA InitIInv == Init => IInv
<1> SUFFICES ASSUME Init PROVE IInv
  OBVIOUS
<1>1. P!LInv
  BY SameLedger, P!InitLInv DEF Init
<1>2. L!TypeOK
  BY <1>1 DEF P!LInv, P!IInv, L!TypeOK, P!TypeOK, L!TaskRow, P!TaskRow, L!RunRow,
     P!RunRow, L!CheckpointRow, P!CheckpointRow, L!TaskStatuses,
     P!TaskStatuses, L!RunStatuses, P!RunStatuses, L!CheckpointStates,
     P!CheckpointStates, L!CheckpointIds, P!CheckpointIds, L!Instances,
     P!Instances, L!AllCommits, P!AllCommits, L!Purposes, P!Purposes
<1>3. TypeOK
  BY <1>2, C2CAssumption DEF Init, TypeOK, NoCall, NoAttempt, Calls
<1>4. \A d \in DelegationIds : ~Delegated(d)
  BY DEF Init, Delegated
<1>5. Chained /\ Bound
  BY <1>4 DEF Init, Chained, Bound
<1>6. Placed
  BY DEF Init, Placed, Known, NoCall, NoAttempt, Executes, Is
<1>7. Sent
  BY <1>4 DEF Init, L!Init, L!NoRun, L!IsC2C, Sent
<1> QED BY <1>1, <1>3, <1>5, <1>6, <1>7 DEF IInv

LEMMA NextIInv == IInv /\ [Next]_vars => IInv'
<1> SUFFICES ASSUME IInv, [Next]_vars PROVE IInv'
  OBVIOUS
<1>1. P!LInv' /\ L!TypeOK'
  BY StepsAreTransactions, LedgerKeeps DEF IInv
<1>2. Chained' /\ Bound'
  BY StepReceipts, StepBound DEF IInv
<1>3. CallsOK' /\ AttemptsOK'
  BY StepCalls, StepAttempts
<1>4. TypeOK'
  BY <1>1, <1>3, StepTables DEF TypeOK, CallsOK, CallOK, AttemptsOK, AttemptOK, AttemptTypes
<1>5. Placed'
  BY <1>3 DEF Placed, CallsOK, CallOK, AttemptsOK, AttemptOK, Executes, Is
<1> QED BY <1>1, <1>2, <1>4, <1>5, StepSent DEF IInv

LEMMA Safety == Spec => []IInv
BY InitIInv, NextIInv, PTL DEF Spec

\* The ledger, the receipts, the calls and the attempts stay well typed.
THEOREM TypeCorrect == Spec => []TypeOK
<1>1. IInv => TypeOK
  BY DEF IInv
<1> QED BY <1>1, Safety, PTL

\* A plan is dispatched at most once, under whichever command ids it is sent.
THEOREM PlanRunsOnceHolds == Spec => []PlanRunsOnce
<1>1. IInv => PlanRunsOnce
  <2> SUFFICES ASSUME IInv, NEW m \in MessageIds
               PROVE  Cardinality(RunsOfPlan(m)) <= 1
    BY DEF PlanRunsOnce
  <2>1. ASSUME NEW r \in RunsOfPlan(m), NEW s \in RunsOfPlan(m) PROVE r = s
    <3>1. PICK d \in DelegationIds, e \in DelegationIds :
            /\ Delegated(d) /\ acceptances[delegations[d].acceptance] = m
            /\ Delegated(e) /\ acceptances[delegations[e].acceptance] = m
            /\ r = delegations[d].run /\ s = delegations[e].run
      BY DEF RunsOfPlan
    <3>2. /\ delegations[d].acceptance \in AcceptanceIds
          /\ delegations[e].acceptance \in AcceptanceIds
      BY <3>1 DEF IInv, TypeOK, Delegated
    <3>3. d = e
      BY <3>1, <3>2 DEF IInv, Chained
    <3> QED BY <3>1, <3>3
  <2>2. CASE RunsOfPlan(m) = {}
    BY <2>2, FS_EmptySet
  <2>3. ASSUME NEW r \in RunsOfPlan(m) PROVE Cardinality(RunsOfPlan(m)) <= 1
    <3>1. RunsOfPlan(m) = {r}
      BY <2>1
    <3>2. Cardinality({r}) = 1
      BY FS_Singleton
    <3> QED BY <3>1, <3>2
  <2> QED BY <2>2, <2>3
<1> QED BY <1>1, Safety, PTL

\* Of the attempts started for a run one executes, and the task it has is one
\* revision past the plan.
THEOREM OneAttemptExecutesHolds == Spec => []OneAttemptExecutes
<1>1. IInv => OneAttemptExecutes
  <2> SUFFICES ASSUME IInv, NEW a \in Attempts, Executes(a)
               PROVE  LET r == attempt[a].run  plan == PlanOf(r) IN
                      /\ claimant[r] = a
                      /\ tasks[plan.task].inst = r =>
                           /\ runs[r].status = "running"
                           /\ tasks[plan.task].rev = plan.rev + 1
    BY DEF OneAttemptExecutes
  <2> DEFINE r == attempt[a].run
  <2>1. HasReceipt(r) /\ claimant[r] = a
    BY DEF IInv, Placed, Executes, Is
  <2>2. /\ r \in Runs /\ L!IsC2C(r) /\ PlanOf(r).task \in Tasks
        /\ runs[r].accepted = PlanOf(r).rev
    BY <2>1, PlanOfRun DEF IInv
  <2> QED BY <2>1, <2>2, LedgerHas DEF IInv
<1> QED BY <1>1, Safety, PTL

\* Request q passes every comparison that executeC2CPlan makes on its way to
\* the launch of run r: nothing was written that refuses the exact request.
Passes(q, r) ==
  /\ q.plan.task \in L!Inserted
  /\ ExactReplay(q.plan)
  /\ acceptances[q.acceptance] = q.plan.id
  /\ delegations[q.delegation] =
       [acceptance |-> q.acceptance, run |-> r, profile |-> q.profile]
  /\ tasks[q.plan.task].status = "READY"
  /\ tasks[q.plan.task].rev = q.plan.rev

\* What LaunchEnds rests on, in every state and with no fairness: as long as a
\* dispatch is launching, and its task reserved, there is a request whose exact
\* repetition leads to a launch of it.  No crash, rival request, claim,
\* recovery or cancellation leaves a reservation that nobody can use up.
ReplayIsOpen ==
  \A r \in Runs :
    runs[r].status = "launching" /\ L!IsC2C(r) => \E q \in Requests : Passes(q, r)

\* A launching dispatch can be launched by the request that made it.
THEOREM ReplayIsOpenHolds == Spec => []ReplayIsOpen
<1>1. IInv => ReplayIsOpen
  <2> SUFFICES ASSUME IInv, NEW r \in Runs, runs[r].status = "launching", L!IsC2C(r)
               PROVE  \E q \in Requests : Passes(q, r)
    BY DEF ReplayIsOpen
  <2>1. PICK d \in DelegationIds : Delegated(d) /\ delegations[d].run = r
    BY DEF IInv, Sent, HasReceipt
  <2>2. PICK q \in Requests : SentAs(q, d)
    BY <2>1 DEF IInv, Sent
  <2>3. delegations[d] = [acceptance |-> q.acceptance, run |-> r, profile |-> q.profile]
    BY <2>1, <2>2 DEF IInv, TypeOK, Delegated, SentAs
  <2>4. PlanBehind(d) = q.plan
    BY <2>2 DEF PlanBehind, PlanOfAcceptance, SentAs, ExactReplay
  <2>5. runs[r].task = q.plan.task /\ runs[r].accepted = q.plan.rev
    BY <2>1, <2>4 DEF IInv, Bound
  <2>6. tasks[runs[r].task].status = "READY" /\ tasks[runs[r].task].rev = runs[r].accepted
    BY DEF IInv, P!LInv, P!IInv, P!ReservationHolds, P!IsC2C, L!IsC2C
  <2>7. q.plan.task \in L!Inserted
    <3>1. q.plan.task \in Tasks
      BY C2CAssumption DEF Plans
    <3> QED BY <2>5, <2>6, <3>1 DEF L!Inserted
  <2> QED BY <2>2, <2>3, <2>5, <2>6, <2>7 DEF Passes, SentAs
<1> QED BY <1>1, Safety, PTL

\* A receipt is never rewritten.
THEOREM ReceiptsStayHolds == Spec => ReceiptsStay
<1> DEFINE Stay == /\ \A m \in MessageIds :
                        evaluations[m] # None => evaluations'[m] = evaluations[m]
                   /\ \A c \in AcceptanceIds :
                        acceptances[c] # None => acceptances'[c] = acceptances[c]
                   /\ \A d \in DelegationIds :
                        Delegated(d) => delegations'[d] = delegations[d]
<1>1. IInv /\ [Next]_vars => [Stay]_receipts
  BY StepReceipts DEF IInv, ReceiptsGrow, Delegated
<1> QED BY <1>1, Safety, PTL DEF Spec, ReceiptsStay

\* Controllers and attempts only do what Ledger allows, so that everything
\* proved of Ledger holds of them, whichever of them stop.
THEOREM Refinement == Spec => ImplementsLedger
<1>1. Init => L!Init
  BY DEF Init
<1>2. IInv /\ [Next]_vars => [L!Next]_L!ledger
  BY StepsAreTransactions DEF ledger, L!ledger
<1> QED BY <1>1, <1>2, Safety, PTL DEF Spec, ImplementsLedger, L!Spec

\* The invariants of Ledger hold of the ledger of rival controllers and attempts,
\* whichever of them stop: one executor, no run beside a checkpoint intent, a
\* reserved task that nobody else takes, results of the run that claimed the task.
THEOREM LedgerStaysSafe ==
  Spec => [](/\ L!SingleExecution
             /\ L!IntentExclusive
             /\ L!IntentPinsTask
             /\ L!ReservationHolds
             /\ L!ResultFromClaimant)
<1>1. P!SingleExecution => L!SingleExecution
  BY DEF L!SingleExecution, P!SingleExecution, L!Running, P!Running
<1>2. P!IntentExclusive => L!IntentExclusive
  BY DEF L!IntentExclusive, P!IntentExclusive, L!NoTaskRunning, P!NoTaskRunning,
         L!Running, P!Running, L!NoActiveRun, P!NoActiveRun, L!Active, P!Active,
         L!Unfinished, P!Unfinished, L!CheckpointIds, P!CheckpointIds
<1>3. P!IntentPinsTask => L!IntentPinsTask
  BY DEF L!IntentPinsTask, P!IntentPinsTask, L!PurposeFits, P!PurposeFits,
         L!CheckpointIds, P!CheckpointIds
<1>4. P!ReservationHolds => L!ReservationHolds
  BY DEF L!ReservationHolds, P!ReservationHolds, L!IsC2C, P!IsC2C
<1>5. P!ResultFromClaimant => L!ResultFromClaimant
  BY DEF L!ResultFromClaimant, P!ResultFromClaimant
<1>6. IInv => P!IInv
  BY DEF IInv, P!LInv
<1>7. P!IInv => /\ P!SingleExecution
                /\ P!IntentExclusive
                /\ P!IntentPinsTask
                /\ P!ReservationHolds
                /\ P!ResultFromClaimant
  BY DEF P!IInv
<1> QED BY <1>1, <1>2, <1>3, <1>4, <1>5, <1>6, <1>7, Safety, PTL

=============================================================================
