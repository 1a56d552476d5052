--------------------------------- MODULE C2C ---------------------------------
(***************************************************************************)
(* execute_c2c_plan as the processes that run it: controllers that replay  *)
(* a request through evaluation, acceptance, delegation and launch, each   *)
(* phase a transaction of its own with a durable receipt; and the physical *)
(* runner attempts they spawn, any number of which may race for the one    *)
(* claim of a dispatch.  A controller or an attempt may stop after any     *)
(* step, and a caller whose response is lost sends the request again.      *)
(*                                                                         *)
(* The ledger names an execution by its run; claimant says which attempt   *)
(* that is.  Git stays at the base of the tasks here.                      *)
(***************************************************************************)
EXTENDS Integers, FiniteSets

CONSTANTS
  Tasks, TypeOf, Runs, Workers, RoleOf, Commits, MaxRevision, None,
  Requests,     \* the requests that callers send
  Controllers,  \* OWNER processes with the C2C controller, or calls of one
  Attempts,     \* runner processes; one that never claimed is replaced
  MaxFailures   \* bound on crashes, failed spawns and attempts that die early

\* A plan is its whole content, which its digest stands for.
Plan(id, task, rev) == [id |-> id, task |-> task, rev |-> rev]

Request(plan, acceptance, delegation, profile) ==
  [plan |-> plan, acceptance |-> acceptance, delegation |-> delegation,
   profile |-> profile]

Plans == {q.plan : q \in Requests}
MessageIds == {p.id : p \in Plans}
AcceptanceIds == {q.acceptance : q \in Requests}
DelegationIds == {q.delegation : q \in Requests}
Profiles == {q.profile : q \in Requests}

VARIABLES
  tasks, runs, checkpoints,   \* the ledger
  evaluations,  \* table c2c_evaluation_receipts
  acceptances,  \* table c2c_plan_acceptance_receipts
  delegations,  \* table c2c_delegation_receipts
  call,         \* where each controller is in executeC2CPlan
  attempt,      \* where each runner process is in runC2CWorkerRunner
  claimant,     \* runner_instance_id of each run: the attempt that claimed it
  failures

L == INSTANCE Ledger

ASSUME C2CAssumption ==
  /\ L!LedgerAssumption
  /\ \A p \in Plans : p = Plan(p.id, p.task, p.rev)
                      /\ p.task \in Tasks /\ p.rev \in Nat \ {0}
  /\ \A q \in Requests :
       q = Request(q.plan, q.acceptance, q.delegation, q.profile)
  /\ None \notin Plans \cup MessageIds \cup AcceptanceIds \cup Attempts
  /\ MaxFailures \in Nat

ledger == <<tasks, runs, checkpoints>>
receipts == <<evaluations, acceptances, delegations>>
vars == <<ledger, receipts, call, attempt, claimant, failures>>

\* found is whether the preflight saw a receipt, run the run of the receipt
\* and seen its status as the launch read it.
NoCall == [pc |-> "idle", req |-> None, found |-> FALSE, run |-> None,
           seen |-> "absent"]
NoAttempt == [pc |-> "off", run |-> None]
NoDelegation == [acceptance |-> None, run |-> None, profile |-> None]

Init ==
  /\ L!Init
  /\ evaluations = [m \in MessageIds |-> None]
  /\ acceptances = [c \in AcceptanceIds |-> None]
  /\ delegations = [d \in DelegationIds |-> NoDelegation]
  /\ call = [o \in Controllers |-> NoCall]
  /\ attempt = [a \in Attempts |-> NoAttempt]
  /\ claimant = [r \in Runs |-> None]
  /\ failures = 0

-----------------------------------------------------------------------------
(* Queries *)

Delegated(d) == delegations[d] # NoDelegation

\* The joins of the receipt tables.
PlanOfAcceptance(c) == evaluations[acceptances[c]]

DelegationOf(r) ==
  CHOOSE d \in DelegationIds : Delegated(d) /\ delegations[d].run = r

PlanOf(r) == PlanOfAcceptance(delegations[DelegationOf(r)].acceptance)

\* checkDuplicateIdentity: the message id was evaluated with this content.
ExactReplay(p) == evaluations[p.id] = p

\* evaluateC2CMessage: an exact replay passes whatever became of the task, a
\* fresh message must name its current revision.
Evaluable(p) ==
  \/ ExactReplay(p)
  \/ evaluations[p.id] = None /\ tasks[p.task].rev = p.rev

At(o, pc) == call[o].pc = pc

Goto(o, pc) == call' = [call EXCEPT ![o].pc = pc]

Return(o) == call' = [call EXCEPT ![o] = NoCall]

Physical == <<attempt, claimant>>

-----------------------------------------------------------------------------
(* executeC2CPlan of controller o *)

Receive(o, q) ==
  /\ At(o, "idle")
  /\ call' = [call EXCEPT ![o] = [NoCall EXCEPT !.pc = "evaluate", !.req = q]]
  /\ UNCHANGED <<ledger, receipts, Physical, failures>>

\* durableEvaluateC2CMessage
Evaluate(o) ==
  LET p == call[o].req.plan IN
  /\ At(o, "evaluate")
  /\ p.task \in L!Inserted
  /\ Evaluable(p)
  /\ evaluations' = [evaluations EXCEPT ![p.id] = p]
  /\ Goto(o, "accept")
  /\ UNCHANGED <<ledger, acceptances, delegations, Physical, failures>>

\* Faulty: only the command id is looked up.
AcceptAgain(o) ==
  LET p == call[o].req.plan  c == call[o].req.acceptance IN
  /\ At(o, "accept")
  /\ ExactReplay(p)
  /\ \/ acceptances[c] = p.id
     \/ /\ acceptances[c] = None
        /\ tasks[p.task].status = "READY"
        /\ tasks[p.task].rev = p.rev
  /\ acceptances' = [acceptances EXCEPT ![c] = p.id]
  /\ Goto(o, "preflight")
  /\ UNCHANGED <<ledger, evaluations, delegations, Physical, failures>>

\* acceptEvaluatedPlan
Accept(o) ==
  LET p == call[o].req.plan  c == call[o].req.acceptance IN
  /\ At(o, "accept")
  /\ ExactReplay(p)
  /\ \/ acceptances[c] = p.id
     \/ /\ acceptances[c] = None
        /\ \A other \in AcceptanceIds : acceptances[other] # p.id
        /\ tasks[p.task].status = "READY"
        /\ tasks[p.task].rev = p.rev
  /\ acceptances' = [acceptances EXCEPT ![c] = p.id]
  /\ Goto(o, "preflight")
  /\ UNCHANGED <<ledger, evaluations, delegations, Physical, failures>>

\* createAcceptedDispatchIntent before its transaction: without a receipt the
\* launch target is built, which fails for an unknown or changed profile.
Preflight(o) ==
  LET found == Delegated(call[o].req.delegation) IN
  /\ At(o, "preflight")
  /\ \/ call' = [call EXCEPT ![o].pc = "delegate", ![o].found = found]
     \/ ~found /\ Return(o)
  /\ UNCHANGED <<ledger, receipts, Physical, failures>>

\* Its transaction: the receipt of an exact replay ...
DelegateReplay(o) ==
  LET q == call[o].req  row == delegations[q.delegation] IN
  /\ At(o, "delegate")
  /\ row = [acceptance |-> q.acceptance, run |-> row.run, profile |-> q.profile]
  /\ call' = [call EXCEPT ![o].pc = "read", ![o].run = row.run]
  /\ UNCHANGED <<ledger, receipts, Physical, failures>>

\* Faulty: a delegation whose run failed may be replaced.
DelegateOverFailed(o, r) ==
  LET q == call[o].req  plan == PlanOfAcceptance(q.acceptance)
      old == delegations[q.delegation].run IN
  /\ At(o, "delegate")
  /\ acceptances[q.acceptance] # None
  /\ Delegated(q.delegation) => runs[old].status = "failed"
  /\ L!InsertC2CRun(r, plan.task, plan.rev)
  /\ delegations' = [delegations EXCEPT ![q.delegation] =
       [acceptance |-> q.acceptance, run |-> r, profile |-> q.profile]]
  /\ call' = [call EXCEPT ![o].pc = "read", ![o].run = r]
  /\ UNCHANGED <<evaluations, acceptances, Physical, failures>>

\* Faulty: the task may have moved on since the acceptance.
DelegateStale(o, r) ==
  LET q == call[o].req  plan == PlanOfAcceptance(q.acceptance) IN
  /\ At(o, "delegate")
  /\ ~call[o].found
  /\ ~Delegated(q.delegation)
  /\ acceptances[q.acceptance] # None
  /\ \A d \in DelegationIds : delegations[d].acceptance # q.acceptance
  /\ L!NoActiveRunFor(plan.task)
  /\ runs[r].status = "absent"
  /\ runs' = [runs EXCEPT ![r] = [status |-> "launching", task |-> plan.task,
                                  accepted |-> plan.rev]]
  /\ delegations' = [delegations EXCEPT ![q.delegation] =
       [acceptance |-> q.acceptance, run |-> r, profile |-> q.profile]]
  /\ call' = [call EXCEPT ![o].pc = "read", ![o].run = r]
  /\ UNCHANGED <<tasks, checkpoints, evaluations, acceptances>>
  /\ UNCHANGED <<Physical, failures>>

\* ... or a dispatch row and a receipt, which consumes the acceptance.
Delegate(o, r) ==
  LET q == call[o].req  plan == PlanOfAcceptance(q.acceptance) IN
  /\ At(o, "delegate")
  /\ ~call[o].found
  /\ ~Delegated(q.delegation)
  /\ acceptances[q.acceptance] # None
  /\ \A d \in DelegationIds : delegations[d].acceptance # q.acceptance
  /\ L!InsertC2CRun(r, plan.task, plan.rev)
  /\ delegations' = [delegations EXCEPT ![q.delegation] =
       [acceptance |-> q.acceptance, run |-> r, profile |-> q.profile]]
  /\ call' = [call EXCEPT ![o].pc = "read", ![o].run = r]
  /\ UNCHANGED <<evaluations, acceptances, Physical, failures>>

\* launchControlledC2CWorker reads the dispatch row, ...
ReadRun(o) ==
  /\ At(o, "read")
  /\ call' = [call EXCEPT ![o].pc = "launch",
                          ![o].seen = runs[call[o].run].status]
  /\ UNCHANGED <<ledger, receipts, Physical, failures>>

\* ... then the task, without a transaction around the two, and compares.
AlreadyClaimed(o) ==
  LET task == tasks[PlanOf(call[o].run).task] IN
  call[o].seen = "running" /\ task.status = "RUNNING" /\ task.inst = call[o].run

Terminal(o) == call[o].seen \in {"completed", "blocked", "failed"}

Launchable(o) ==
  LET plan == PlanOf(call[o].run)  task == tasks[plan.task] IN
  call[o].seen = "launching" /\ task.status = "READY" /\ task.rev = plan.rev

AnswerOnly(o) ==
  /\ At(o, "launch")
  /\ AlreadyClaimed(o) \/ Terminal(o)
  /\ Return(o)
  /\ UNCHANGED <<ledger, receipts, Physical, failures>>

\* Faulty: a dispatch is launched by the call that created it.
SpawnOnce(o) ==
  /\ At(o, "launch")
  /\ Launchable(o)
  /\ \/ /\ ~call[o].found
        /\ \E a \in Attempts :
             /\ attempt[a].pc = "off"
             /\ attempt' = [attempt EXCEPT ![a] = [pc |-> "start",
                                                   run |-> call[o].run]]
     \/ call[o].found /\ UNCHANGED attempt
  /\ Return(o)
  /\ UNCHANGED <<ledger, receipts, claimant, failures>>

Spawn(o) ==
  /\ At(o, "launch")
  /\ Launchable(o)
  /\ \E a \in Attempts :
       /\ attempt[a].pc = "off"
       /\ attempt' = [attempt EXCEPT ![a] = [pc |-> "start",
                                             run |-> call[o].run]]
  /\ Return(o)
  /\ UNCHANGED <<ledger, receipts, claimant, failures>>

\* The operating system refuses the process: an observation, not an outcome.
SpawnFails(o) ==
  /\ At(o, "launch")
  /\ Launchable(o)
  /\ failures < MaxFailures
  /\ failures' = failures + 1
  /\ Return(o)
  /\ UNCHANGED <<ledger, receipts, Physical>>

Phase(o) ==
  \/ Evaluate(o) \/ Accept(o) \/ Preflight(o) \/ DelegateReplay(o)
  \/ \E r \in Runs : Delegate(o, r)
  \/ ReadRun(o) \/ AnswerOnly(o) \/ Spawn(o)

\* A rejection, or the exception for a launch state that makes no sense.
Reject(o) ==
  /\ ~At(o, "idle")
  /\ At(o, "launch") => ~Launchable(o)
  /\ ~ENABLED Phase(o)
  /\ Return(o)
  /\ UNCHANGED <<ledger, receipts, Physical, failures>>

ControllerCrash(o) ==
  /\ ~At(o, "idle")
  /\ failures < MaxFailures
  /\ failures' = failures + 1
  /\ Return(o)
  /\ UNCHANGED <<ledger, receipts, Physical>>

-----------------------------------------------------------------------------
(* runC2CWorkerRunner of attempt a *)

Is(a, pc) == attempt[a].pc = pc

Turn(a, pc) == attempt' = [attempt EXCEPT ![a].pc = pc]

\* A process that claimed keeps its identity; another one is started in the
\* place of one that did not.
End(a) ==
  attempt' = [attempt EXCEPT ![a] = IF claimant[attempt[a].run] = a
                                    THEN [@ EXCEPT !.pc = "gone"]
                                    ELSE NoAttempt]

Rest == UNCHANGED <<receipts, call>>

\* The reads before the claim: the dispatch row, then the task.
Begin(a) ==
  LET r == attempt[a].run  plan == PlanOf(r) IN
  /\ Is(a, "start")
  /\ runs[r].status = "launching"
  /\ claimant[r] = None
  /\ tasks[plan.task].status = "READY"
  /\ tasks[plan.task].rev = plan.rev
  /\ Turn(a, "verify")
  /\ UNCHANGED <<ledger, claimant, failures>> /\ Rest

\* The stored launch target no longer verifies; whatever another process did
\* in the meantime is left as it is.
VerifyFails(a) ==
  LET r == attempt[a].run IN
  /\ Is(a, "verify")
  /\ IF ENABLED L!FailC2CDispatchBeforeClaim(r)
     THEN L!FailC2CDispatchBeforeClaim(r)
     ELSE UNCHANGED ledger
  /\ End(a)
  /\ UNCHANGED <<claimant, failures>> /\ Rest

\* Faulty: a run that is already running is taken for the attempt's own.
ClaimOrJoin(a) ==
  LET r == attempt[a].run IN
  /\ Is(a, "verify")
  /\ \/ /\ L!ClaimC2CDispatchTask(r, L!AtBase(runs[r].task))
        /\ claimant' = [claimant EXCEPT ![r] = a]
     \/ runs[r].status = "running" /\ UNCHANGED <<ledger, claimant>>
  /\ Turn(a, "execute")
  /\ UNCHANGED failures /\ Rest

\* It verifies, and the attempt claims for the run.
Claim(a) ==
  LET r == attempt[a].run IN
  /\ Is(a, "verify")
  /\ claimant[r] = None
  /\ L!ClaimC2CDispatchTask(r, L!AtBase(runs[r].task))
  /\ claimant' = [claimant EXCEPT ![r] = a]
  /\ Turn(a, "execute")
  /\ UNCHANGED failures /\ Rest

\* runClaimedWorkerExecution: the harness is done, the row is still its own ...
Finish(a) ==
  LET r == attempt[a].run IN
  /\ Is(a, "execute")
  /\ runs[r].status = "running"
  /\ claimant[r] = a
  /\ Turn(a, "report")
  /\ UNCHANGED <<ledger, claimant, failures>> /\ Rest

\* ... and it reports at the revision of its claim.
Report(a) ==
  LET r == attempt[a].run  plan == PlanOf(r) IN
  /\ Is(a, "report")
  /\ claimant[r] = a
  /\ \/ L!ReportResult(plan.task, r, plan.rev + 1, "COMPLETED")
     \/ L!ReportBlocked(plan.task, r, plan.rev + 1)
  /\ End(a)
  /\ UNCHANGED <<claimant, failures>> /\ Rest

AttemptStep(a) == Begin(a) \/ VerifyFails(a) \/ Claim(a)

\* A refusal is thrown out of the process and changes nothing durable.
AttemptThrow(a) ==
  /\ \/ Is(a, "start") \/ Is(a, "verify")
     \/ Is(a, "execute") \/ Is(a, "report")
  /\ ~ENABLED (AttemptStep(a) \/ Finish(a) \/ Report(a))
  /\ End(a)
  /\ UNCHANGED <<ledger, claimant, failures>> /\ Rest

AttemptDies(a) ==
  /\ attempt[a].pc \notin {"off", "gone"}
  /\ failures < MaxFailures
  /\ failures' = failures + 1
  /\ End(a)
  /\ UNCHANGED <<ledger, claimant>> /\ Rest

-----------------------------------------------------------------------------
(* The other users of the ledger *)

Others == UNCHANGED <<receipts, call, Physical, failures>>

OwnerStep(t) ==
  /\ \/ \E k \in Commits : L!CreateTask(t, [head |-> k, clean |-> TRUE])
     \/ L!RecoverTask(t, tasks[t].rev)
     \/ L!CancelTask(t, tasks[t].rev)
     \/ L!ResumeTask(t, tasks[t].rev, L!AtBase(t))
  /\ Others

WorkerStep(w, t) ==
  /\ \/ L!ClaimTask(t, w, tasks[t].rev, L!AtBase(t))
     \/ L!ClaimNextTask(t, w, L!AtBase(t))
     \/ L!ReportBlocked(t, w, tasks[t].rev)
  /\ Others

\* delegate_task for the same task; Dispatch has what follows.
Rival(r, t) ==
  /\ \/ tasks[t].status = "READY" /\ L!InsertRun(r, t)
     \/ L!Active(r) /\ L!OverwriteRun(r, "failed")
  /\ Others

Next ==
  \/ \E o \in Controllers :
       \/ \E q \in Requests : Receive(o, q)
       \/ Phase(o) \/ Reject(o) \/ SpawnFails(o) \/ ControllerCrash(o)
  \/ \E a \in Attempts :
       \/ AttemptStep(a) \/ Finish(a) \/ Report(a)
       \/ AttemptThrow(a) \/ AttemptDies(a)
  \/ \E t \in Tasks :
       \/ OwnerStep(t)
       \/ \E w \in Workers : WorkerStep(w, t)
       \/ \E r \in Runs : Rival(r, t)

Spec == Init /\ [][Next]_vars

\* A call or an attempt that does not fail goes on up to its claim (its harness
\* may then execute for ever), and a caller without a response sends the exact
\* request again, the only retry the private contract authorizes.
FairSpec ==
  /\ Spec
  /\ \A o \in Controllers : WF_vars(Phase(o) \/ Reject(o))
  /\ \A a \in Attempts : WF_vars(AttemptStep(a) \/ AttemptThrow(a))
  /\ \A q \in Requests : SF_vars(\E o \in Controllers : Receive(o, q))

-----------------------------------------------------------------------------
(* Properties *)

Calls == [pc : {"idle", "evaluate", "accept", "preflight", "delegate", "read",
                "launch"},
          req : Requests \cup {None}, found : BOOLEAN,
          run : Runs \cup {None}, seen : L!RunStatuses \cup {"absent"}]

TypeOK ==
  /\ L!TypeOK
  /\ evaluations \in [MessageIds -> Plans \cup {None}]
  /\ acceptances \in [AcceptanceIds -> MessageIds \cup {None}]
  /\ delegations \in [DelegationIds ->
       [acceptance : AcceptanceIds, run : Runs, profile : Profiles]
         \cup {NoDelegation}]
  /\ call \in [Controllers -> Calls]
  /\ \A o \in Controllers :
       /\ call[o].pc # "idle" => call[o].req \in Requests
       /\ call[o].pc \in {"read", "launch"} => call[o].run \in Runs
  /\ attempt \in [Attempts ->
       [pc : {"off", "start", "verify", "execute", "report", "gone"},
        run : Runs \cup {None}]]
  /\ \A a \in Attempts : attempt[a].pc # "off" => attempt[a].run \in Runs
  /\ claimant \in [Runs -> Attempts \cup {None}]
  /\ failures \in 0..MaxFailures

\* The runs whose receipts go back to the plan of message m.
RunsOfPlan(m) ==
  {delegations[d].run : d \in {e \in DelegationIds :
     Delegated(e) /\ acceptances[delegations[e].acceptance] = m}}

\* A plan is dispatched at most once, whichever command ids it is sent with
\* and whatever became of the first dispatch: retrying it needs a new plan.
PlanRunsOnce == \A m \in MessageIds : Cardinality(RunsOfPlan(m)) <= 1

\* A receipt is never rewritten, so exact replays of a request, by any
\* controller and after any lost response, name the same run.
ReceiptsStay ==
  [][/\ \A m \in MessageIds :
          evaluations[m] # None => evaluations'[m] = evaluations[m]
     /\ \A c \in AcceptanceIds :
          acceptances[c] # None => acceptances'[c] = acceptances[c]
     /\ \A d \in DelegationIds :
          Delegated(d) => delegations'[d] = delegations[d]]_receipts

Executes(a) == Is(a, "execute") \/ Is(a, "report")

\* However many attempts are started for a run, one executes, and while it has
\* the task its run is running and the task is one revision past the plan.
OneAttemptExecutes ==
  \A a \in Attempts :
    Executes(a) =>
      LET r == attempt[a].run  plan == PlanOf(r) IN
      /\ claimant[r] = a
      /\ tasks[plan.task].inst = r =>
           runs[r].status = "running" /\ tasks[plan.task].rev = plan.rev + 1

\* Controllers and attempts only ever do what the ledger allows.
ImplementsLedger == L!Spec

\* A dispatch does not stay launching, and its task reserved, because a
\* response, a controller or an attempt was lost.
LaunchEnds ==
  \A r \in Runs :
    runs[r].status = "launching" /\ L!IsC2C(r) ~> runs[r].status # "launching"

=============================================================================
