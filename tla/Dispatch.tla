------------------------------ MODULE Dispatch ------------------------------
(***************************************************************************)
(* delegate_task as the processes that run it: the OWNER process that      *)
(* inserts a dispatch row, spawns a runner and writes the row back with    *)
(* the runner's pid; the runner that claims, executes and reports; the     *)
(* child-process events and the runner's error path that mark the row      *)
(* failed; and the OWNER and a server JUNIOR acting on the same task.      *)
(*                                                                         *)
(* A run id names the dispatcher call that drew it, the runner started for *)
(* it and that runner's execution instance.  Git stays at the base of the  *)
(* tasks here; Checkpoint moves it.                                        *)
(***************************************************************************)
EXTENDS Integers, FiniteSets

CONSTANTS
  Tasks, TypeOf, Runs, Workers, RoleOf, Commits, MaxRevision, None,
  MaxDispatcherCrashes   \* bound on crashes of dispatching OWNER processes

VARIABLES
  tasks, runs, checkpoints,   \* the ledger
  bound,       \* whether runner_instance_id of a run is set
  dispatcher,  \* the delegateTask call of each run
  runner,      \* the runner process of each run
  reports,     \* the report event a runner committed for its run
  crashes

L == INSTANCE Ledger

ASSUME DispatchAssumption ==
  /\ MaxDispatcherCrashes \in Nat
  /\ L!LedgerAssumption

ledger == <<tasks, runs, checkpoints>>
vars == <<ledger, bound, dispatcher, runner, reports, crashes>>

\* seen and seenBound are the columns of the row the call read last.
NoCall == [pc |-> "idle", task |-> None, rev |-> 0,
           seen |-> "absent", seenBound |-> FALSE]

Init ==
  /\ L!Init
  /\ bound = [r \in Runs |-> FALSE]
  /\ dispatcher = [r \in Runs |-> NoCall]
  /\ runner = [r \in Runs |-> "off"]
  /\ reports = [r \in Runs |-> "none"]
  /\ crashes = 0

-----------------------------------------------------------------------------
(* delegateTask, in an OWNER process *)

DGoto(r, pc) == dispatcher' = [dispatcher EXCEPT ![r].pc = pc]

RGoto(r, pc) == runner' = [runner EXCEPT ![r] = pc]

\* The checks of delegateTask, before its transaction.
Check(r, t) ==
  /\ dispatcher[r].pc = "idle"
  /\ L!NoRepositoryCheckpoint
  /\ tasks[t].status = "READY"
  /\ L!NoActiveRunFor(t)
  /\ dispatcher' = [dispatcher EXCEPT ![r].pc = "checked", ![r].task = t,
                                      ![r].rev = tasks[t].rev]
  /\ UNCHANGED <<ledger, bound, runner, reports, crashes>>

Insert(r) ==
  /\ dispatcher[r].pc = "checked"
  /\ L!InsertRun(r, dispatcher[r].task)
  /\ DGoto(r, "inserted")
  /\ UNCHANGED <<bound, runner, reports, crashes>>

\* The runner process starts, or the operating system refuses it.
Spawn(r) ==
  /\ dispatcher[r].pc = "inserted"
  /\ DGoto(r, "spawned")
  /\ RGoto(r, "start") \/ RGoto(r, "refused")
  /\ UNCHANGED <<ledger, bound, reports, crashes>>

ReadRow(r) ==
  /\ dispatcher[r].pc = "spawned"
  /\ dispatcher' = [dispatcher EXCEPT ![r].pc = "read",
                                      ![r].seen = runs[r].status,
                                      ![r].seenBound = bound[r]]
  /\ UNCHANGED <<ledger, bound, runner, reports, crashes>>

\* The whole row is written back with the pid, outside a transaction.
WritePid(r) ==
  /\ dispatcher[r].pc = "read"
  /\ L!OverwriteRun(r, dispatcher[r].seen)
  /\ bound' = [bound EXCEPT ![r] = dispatcher[r].seenBound]
  /\ DGoto(r, "attached")
  /\ UNCHANGED <<runner, reports, crashes>>

\* The handler of the child's `error' event, in a transaction.  A write that is
\* refused, by a fence of a checkpoint or because the database is busy, is
\* swallowed; the child counts as closed then and its `close' event follows.
ChildError(r) ==
  /\ dispatcher[r].pc = "attached"
  /\ runner[r] = "refused"
  /\ \/ L!Active(r) /\ L!OverwriteRun(r, "failed")
     \/ UNCHANGED ledger
  /\ DGoto(r, "errored")
  /\ UNCHANGED <<bound, runner, reports, crashes>>

Closed(r) ==
  \/ dispatcher[r].pc = "attached" /\ runner[r] = "gone"
  \/ dispatcher[r].pc = "errored"

\* Faulty: the row the call read before is taken for the current one.
ChildCloseSeen(r) ==
  /\ Closed(r)
  /\ DGoto(r, IF dispatcher[r].seen = "running" THEN "close" ELSE "down")
  /\ UNCHANGED <<ledger, bound, runner, reports, crashes>>

\* Faulty: the end of the wait is taken for the end of the child.
ChildCloseOnTimeout(r) ==
  /\ dispatcher[r].pc \in {"attached", "errored"}
  /\ DGoto(r, IF L!Active(r) THEN "close" ELSE "down")
  /\ UNCHANGED <<ledger, bound, runner, reports, crashes>>

\* The handler of its `close' event, which reads the row ...
ChildClose(r) ==
  /\ Closed(r)
  /\ DGoto(r, IF L!Active(r) THEN "close" ELSE "down")
  /\ UNCHANGED <<ledger, bound, runner, reports, crashes>>

\* ... and writes it back failed.
WriteClose(r) ==
  /\ dispatcher[r].pc = "close"
  /\ L!OverwriteRun(r, "failed")
  /\ DGoto(r, "down")
  /\ UNCHANGED <<bound, runner, reports, crashes>>

\* It tries once: when its read or its write is refused, the row stays as it is
\* and nothing in this process looks at it again.
SwallowClose(r) ==
  /\ Closed(r) \/ dispatcher[r].pc = "close"
  /\ DGoto(r, "swallowed")
  /\ UNCHANGED <<ledger, bound, runner, reports, crashes>>

DispatcherStep(r) ==
  \/ Insert(r) \/ Spawn(r) \/ ReadRow(r) \/ WritePid(r)
  \/ ChildError(r) \/ ChildClose(r) \/ WriteClose(r) \/ SwallowClose(r)

\* A statement the database refuses, or a manifest or a process that cannot be
\* made, ends the call before its handlers are attached.
DispatcherThrow(r) ==
  /\ dispatcher[r].pc \in {"checked", "inserted", "spawned", "read"}
  /\ DGoto(r, "threw")
  /\ UNCHANGED <<ledger, bound, runner, reports, crashes>>

DispatcherCrash(r) ==
  /\ dispatcher[r].pc \notin {"idle", "down", "threw", "swallowed", "crashed"}
  /\ crashes < MaxDispatcherCrashes
  /\ crashes' = crashes + 1
  /\ DGoto(r, "crashed")
  /\ UNCHANGED <<ledger, bound, runner, reports>>

-----------------------------------------------------------------------------
(* runWorkerRunner, in the runner process *)

\* It reads its dispatch row and its task before it claims.
Begin(r) ==
  LET t == dispatcher[r].task IN
  /\ runner[r] = "start"
  /\ runs[r].status = "launching"
  /\ tasks[t].status = "READY"
  /\ tasks[t].rev = dispatcher[r].rev
  /\ RGoto(r, "claim")
  /\ UNCHANGED <<ledger, bound, dispatcher, reports, crashes>>

\* Faulty: claims the task at whatever revision it is.
ClaimAnyRevision(r) ==
  LET t == dispatcher[r].task IN
  /\ runner[r] = "claim"
  /\ L!ClaimTask(t, r, tasks[t].rev, L!AtBase(t))
  /\ bound' = [bound EXCEPT ![r] = TRUE]
  /\ RGoto(r, "execute")
  /\ UNCHANGED <<dispatcher, reports, crashes>>

\* Faulty: the row is not part of the claim's transaction.
ClaimWithoutRow(r) ==
  LET t == dispatcher[r].task IN
  /\ runner[r] = "claim"
  /\ tasks[t].rev = dispatcher[r].rev
  /\ tasks[t].status = "READY"
  /\ L!NoTaskRunning
  /\ L!UpdateTask(t, L!Claimed(t, r))
  /\ RGoto(r, "execute")
  /\ UNCHANGED <<runs, checkpoints, bound, dispatcher, reports, crashes>>

\* It claims at the revision it was delegated, and its row is part of that.
Claim(r) ==
  LET t == dispatcher[r].task IN
  /\ runner[r] = "claim"
  /\ L!ClaimTask(t, r, dispatcher[r].rev, L!AtBase(t))
  /\ bound' = [bound EXCEPT ![r] = TRUE]
  /\ RGoto(r, "execute")
  /\ UNCHANGED <<dispatcher, reports, crashes>>

\* The harness is done, and the row still says this runner runs it.
Finish(r) ==
  /\ runner[r] = "execute"
  /\ runs[r].status = "running"
  /\ bound[r]
  /\ RGoto(r, "report")
  /\ UNCHANGED <<ledger, bound, dispatcher, reports, crashes>>

\* The revision of the claim.
Report(r) ==
  LET t == dispatcher[r].task  rev == dispatcher[r].rev + 1 IN
  /\ runner[r] = "report"
  /\ \/ /\ L!ReportResult(t, r, rev, "COMPLETED")
        /\ reports' = [reports EXCEPT ![r] = "completed"]
     \/ /\ L!ReportBlocked(t, r, rev)
        /\ reports' = [reports EXCEPT ![r] = "blocked"]
  /\ RGoto(r, "gone")
  /\ UNCHANGED <<bound, dispatcher, crashes>>

\* A refusal of the ledger, a baseline that does not fit or a file that cannot
\* be observed is thrown to the entry point, which reads the row ...
RunnerThrow(r) ==
  /\ runner[r] \in {"start", "claim", "execute", "report"}
  /\ RGoto(r, "throw")
  /\ UNCHANGED <<ledger, bound, dispatcher, reports, crashes>>

Catch(r) ==
  /\ runner[r] = "throw"
  /\ RGoto(r, IF L!Active(r) THEN "fail" ELSE "gone")
  /\ UNCHANGED <<ledger, bound, dispatcher, reports, crashes>>

\* Faulty: a run whose task was refused to it is called blocked.
WriteFailAsBlocked(r) ==
  /\ runner[r] = "fail"
  /\ L!OverwriteRun(r, "blocked")
  /\ RGoto(r, "gone")
  /\ UNCHANGED <<bound, dispatcher, reports, crashes>>

\* ... and writes it back failed.  (Refused, it ends the runner as a crash does.)
WriteFail(r) ==
  /\ runner[r] = "fail"
  /\ L!OverwriteRun(r, "failed")
  /\ RGoto(r, "gone")
  /\ UNCHANGED <<bound, dispatcher, reports, crashes>>

RunnerStep(r) ==
  \/ Begin(r) \/ Claim(r) \/ Finish(r) \/ Report(r)
  \/ RunnerThrow(r) \/ Catch(r) \/ WriteFail(r)

Alive(r) == runner[r] \notin {"off", "refused", "gone"}

RunnerCrash(r) ==
  /\ Alive(r)
  /\ RGoto(r, "gone")
  /\ UNCHANGED <<ledger, bound, dispatcher, reports, crashes>>

-----------------------------------------------------------------------------
(* The OWNER and a server worker *)

Others == UNCHANGED <<bound, dispatcher, runner, reports, crashes>>

OwnerStep(t) ==
  /\ \/ \E k \in Commits : L!CreateTask(t, [head |-> k, clean |-> TRUE])
     \/ L!RecoverTask(t, tasks[t].rev)
     \/ L!CancelTask(t, tasks[t].rev)
     \/ L!ResumeTask(t, tasks[t].rev, L!AtBase(t))
  /\ Others

WorkerStep(w, t) ==
  /\ \/ L!ClaimTask(t, w, tasks[t].rev, L!AtBase(t))
     \/ L!ReportBlocked(t, w, tasks[t].rev)
  /\ Others

Next ==
  \/ \E r \in Runs :
       \/ \E t \in Tasks : Check(r, t)
       \/ DispatcherStep(r) \/ DispatcherThrow(r) \/ DispatcherCrash(r)
       \/ RunnerStep(r) \/ RunnerCrash(r)
  \/ \E t \in Tasks : OwnerStep(t) \/ \E w \in Workers : WorkerStep(w, t)

Spec == Init /\ [][Next]_vars

\* A call of delegateTask runs on while its process lives, and the operating
\* system delivers the exit of a child; whether the database accepts what a
\* handler writes is not assumed.  Nothing is assumed of the runner: its harness
\* may execute for ever.
FairSpec ==
  Spec /\ \A r \in Runs : WF_vars(DispatcherStep(r) \/ DispatcherThrow(r))

-----------------------------------------------------------------------------
(* Properties *)

\* What a delegateTask call knows.
Calls ==
  [pc : {"idle", "checked", "inserted", "spawned", "read", "attached", "errored",
         "close", "down", "threw", "swallowed", "crashed"},
   task : Tasks \cup {None}, rev : Nat,
   seen : L!RunStatuses \cup {"absent"}, seenBound : BOOLEAN]

\* ImplementsLedger carries the types of the rows over.
TypeOK ==
  /\ bound \in [Runs -> BOOLEAN]
  /\ dispatcher \in [Runs -> Calls]
  /\ runner \in [Runs -> {"off", "refused", "start", "claim", "execute",
                          "report", "throw", "fail", "gone"}]
  /\ reports \in [Runs -> {"none", "completed", "blocked"}]

\* The processes only ever do what the ledger allows.
ImplementsLedger == L!Spec

\* While a runner executes or reports on a task it owns in the ledger its run is
\* active, whatever the dispatcher wrote over the row: a checkpoint and a
\* second delegation both rely on seeing it.
ExecutionIsVisible ==
  \A r \in Runs :
    runner[r] \in {"execute", "report"} /\ tasks[dispatcher[r].task].inst = r
      => L!Active(r)

\* A run that is shown as completed or blocked has committed that report; no
\* event handler, stale write or recovery makes one up.
OutcomeIsEarned ==
  \A r \in Runs :
    runs[r].status \in {"completed", "blocked"} => reports[r] = runs[r].status

\* A runner that was recovered, and whose task was given to another run, never
\* executes under the new delegation.
ExecutesOwnDelegation ==
  \A r \in Runs :
    runner[r] \in {"execute", "report"} /\ tasks[dispatcher[r].task].inst = r
      => tasks[dispatcher[r].task].rev = dispatcher[r].rev + 1

Orphaned(r) ==
  /\ dispatcher[r].pc \in {"spawned", "read", "attached", "errored", "close"}
  /\ ~Alive(r)
  /\ L!Active(r)

\* The call that watches over r stopped early: its process crashed, it threw
\* before its handlers were attached, or a handler was refused its read or write.
Abandoned(r) == dispatcher[r].pc \in {"crashed", "threw", "swallowed"}

\* A run whose runner is gone does not stay active, even when the pid is
\* written over a row that was already terminal, unless its dispatcher crashed
\* or the database refused one of its statements.
OrphanEnds ==
  \A r \in Runs : Orphaned(r) ~> ~L!Active(r) \/ Abandoned(r)

\* What evidence/binding.ts:324 asserts of every completed result it binds:
\* the dispatch row of the run that reported it is completed.
OutcomeIsShown ==
  \A r \in Runs : reports[r] = "completed" => runs[r].status = "completed"

=============================================================================
