------------------------------ MODULE Evidence ------------------------------
(***************************************************************************)
(* The execution evidence of evidence/binding.ts: who did what, read back  *)
(* from the event log, the dispatch rows and the checkpoints of one task.  *)
(*                                                                         *)
(* The ledger names the execution only in its `claimed' event.  How it     *)
(* ended is found by revision arithmetic (the transition one revision      *)
(* after the claim), so the answer is right only because of what all the   *)
(* other transactions can and cannot do in between.  The module adds to    *)
(* every transaction of Ledger the events bindExecution reads, and states  *)
(* what bindExecution answers in every reachable state.                    *)
(*                                                                         *)
(* Ledger lets any process pass any stale value; here the processes keep   *)
(* to what their code does: a runner claims once, from the launching row   *)
(* it was started for, and reports while that row is running, never the    *)
(* outcome `failed'; a run leaves its active status only by becoming       *)
(* failed.  (The pid write that can put an older row back is left out: it  *)
(* is the finding of run DispatchLostUpdate.)                              *)
(***************************************************************************)
EXTENDS Ledger

VARIABLE
  log             \* table task_events, the kinds bindExecution reads

evidence == <<tasks, runs, checkpoints, log>>

Kinds == {"claimed", "result", "blocked", "recovered"}

\* inst is in the detail of a claimed and of a recovery event; the log does not
\* hold it for a report, where it is kept to compare answers with.  producer
\* and base are the server-authoritative evidence of a report.
Event ==
  [task : Tasks, rev : Nat, kind : Kinds,
   actor : WorkerRoles \cup {"OWNER"}, inst : Instances \cup {None},
   to : TaskStatuses, producer : Nat, base : AllCommits \cup {None}]

-----------------------------------------------------------------------------
(* What the transactions write to the log *)

Append(t, kind, actor, i, to) ==
  log' = log \cup
    {[task |-> t, rev |-> tasks[t].rev + 1, kind |-> kind, actor |-> actor,
      inst |-> i, to |-> to, producer |-> 0, base |-> None]}

\* Faulty: the evidence names the revision the report leaves behind.
AppendReportLate(t, kind, i, to) ==
  log' = log \cup
    {[task |-> t, rev |-> tasks[t].rev + 1, kind |-> kind,
      actor |-> RoleOfInstance(i), inst |-> i, to |-> to,
      producer |-> tasks[t].rev + 1, base |-> tasks[t].base]}

\* authoritativeEvidence is taken of the task before the transition.
AppendReport(t, kind, i, to) ==
  log' = log \cup
    {[task |-> t, rev |-> tasks[t].rev + 1, kind |-> kind,
      actor |-> RoleOfInstance(i), inst |-> i, to |-> to,
      producer |-> tasks[t].rev, base |-> tasks[t].base]}

-----------------------------------------------------------------------------
(* The transactions, with the events they append *)

EInit == Init /\ log = {}

Claim(t, i) ==
  /\ i \in Runs => runs[i].status = "launching"
  /\ \/ ClaimTask(t, i, tasks[t].rev, AtBase(t))
     \/ ClaimNextTask(t, i, AtBase(t))
     \/ /\ i \in Runs
        /\ runs[i].task = t
        /\ ClaimC2CDispatchTask(i, AtBase(t))
  /\ Append(t, "claimed", RoleOfInstance(i), i, "RUNNING")

Report(t, i, outcome) ==
  /\ i \in Runs => runs[i].status = "running" /\ outcome = "COMPLETED"
  /\ ReportResult(t, i, tasks[t].rev, outcome)
  /\ AppendReport(t, "result", i, outcome)

Block(t, i) ==
  /\ i \in Runs => runs[i].status = "running"
  /\ ReportBlocked(t, i, tasks[t].rev)
  /\ AppendReport(t, "blocked", i, "BLOCKED")

\* Faulty: the recovery leaves no event.
RecoverSilently(t) ==
  /\ RecoverTask(t, tasks[t].rev)
  /\ UNCHANGED log

Recover(t) ==
  /\ RecoverTask(t, tasks[t].rev)
  /\ Append(t, "recovered", "OWNER", tasks[t].inst, "BLOCKED")

\* Transitions whose events bindExecution skips.
Unread(t) ==
  /\ \/ \E git \in SeenSnapshots : CreateTask(t, git)
     \/ \E c \in CheckpointIds :
          CreateDiagnosisFromCheckpoint(t, c, [head |-> c, clean |-> TRUE])
     \/ \E git \in SeenSnapshots : ResumeTask(t, tasks[t].rev, git)
     \/ CancelTask(t, tasks[t].rev)
     \/ CloseTask(t, tasks[t].rev)
  /\ UNCHANGED log

\* The runner or its dispatcher gives an active run up.
FailRun(r) == Active(r) /\ OverwriteRun(r, "failed")

RunTransaction(r) ==
  /\ \/ \E t \in Tasks : InsertRun(r, t) \/ InsertC2CRun(r, t, tasks[t].rev)
     \/ FailRun(r)
     \/ FailC2CDispatchBeforeClaim(r)
  /\ UNCHANGED log

CheckpointTransaction == CheckpointStep /\ UNCHANGED log

ENext ==
  \/ \E t \in Tasks :
       \/ \E i \in Instances :
            \/ Claim(t, i)
            \/ \E outcome \in {"COMPLETED", "FAILED"} : Report(t, i, outcome)
            \/ Block(t, i)
       \/ Recover(t)
       \/ Unread(t)
  \/ \E r \in Runs : RunTransaction(r)
  \/ CheckpointTransaction

ESpec == EInit /\ [][ENext]_evidence

-----------------------------------------------------------------------------
(* bindExecution.  status is that of the dispatch in the snapshot, or None. *)

Claims(t, i) ==
  {e \in log : e.task = t /\ e.kind = "claimed" /\ e.inst = i}

\* Faulty: any later transition counts as the end of the execution.
TerminalsAfter(claim) ==
  {e \in log : /\ e.task = claim.task
               /\ e.kind # "claimed"
               /\ e.rev > claim.rev}

Terminals(claim) ==
  {e \in log : /\ e.task = claim.task
               /\ e.kind # "claimed"
               /\ e.rev = claim.rev + 1}

ExpectedWorkerRole(t) ==
  IF TypeOf[t] = "IMPLEMENTATION" THEN "JUNIOR" ELSE "PRINCIPAL"

\* The dispatch statuses parseTerminalEvent admits for a terminal event.
DispatchStatuses(end) ==
  CASE end.kind # "result"    -> {"blocked", "failed"}
    [] end.to = "COMPLETED"   -> {"completed"}
    [] OTHER                  -> {"failed"}

\* parseTerminalEvent; a recovery carries no server-authoritative evidence.
Agrees(claim, end, status) ==
  /\ end.actor = IF end.kind = "recovered" THEN "OWNER" ELSE claim.actor
  /\ end.kind # "recovered" => end.producer = claim.rev
  /\ status # None => status \in DispatchStatuses(end)

\* requireSnapshotTaskIntegrity: no dispatch row goes with a diagnosis.
Admitted(t, status) == status # None => TypeOf[t] = "IMPLEMENTATION"

Binds(t, i, status, claim, end) ==
  /\ Admitted(t, status)
  /\ Claims(t, i) = {claim}
  /\ claim.actor = ExpectedWorkerRole(t)
  /\ Terminals(claim) = {end}
  /\ Agrees(claim, end, status)

Unavailable(t, i, status, claim) ==
  /\ Admitted(t, status)
  /\ Claims(t, i) = {claim}
  /\ claim.actor = ExpectedWorkerRole(t)
  /\ Terminals(claim) = {}
  /\ status # None => status \notin {"completed", "blocked"}

\* runner_instance_id of a run is written by the transaction of its claim.
HasRunner(r) == \E e \in log : e.kind = "claimed" /\ e.inst = r

\* The answers to a selector that names a run no runner has claimed with.
FailedBeforeClaim(r) == ~HasRunner(r) /\ runs[r].status = "failed"
NotClaimedYet(r) == ~HasRunner(r) /\ runs[r].status = "launching"

\* Faulty: any checkpoint of the revision counts.
ReviewOfAnyPurpose(end) ==
  {c \in CheckpointIds : c = <<end.task, end.rev>> /\ Finalized(c)}

\* bindReviewCheckpoint; only finalized rows are checkpoints of a snapshot.
ReviewOf(end) ==
  {c \in CheckpointIds : /\ c = <<end.task, end.rev>>
                         /\ Finalized(c)
                         /\ checkpoints[c].purpose = "REVIEW"}

\* A snapshot may carry the dispatch of the execution or leave it out.
StatusesSeen(i) == IF i \in Runs THEN {None, runs[i].status} ELSE {None}

\* The lifecycle outcome of executionSummary for an execution that claimed.
Outcome(t, i) ==
  IF \E claim, end \in log : Binds(t, i, None, claim, end)
  THEN (CHOOSE end \in log : \E claim \in log :
          Binds(t, i, None, claim, end)).to
  ELSE "RUNNING"

-----------------------------------------------------------------------------
(* Properties *)

LogTypeOK == TypeOK /\ log \subseteq Event

\* An execution is never credited with the end of another: the transition that
\* bindExecution finds one revision after a claim was reported by the instance
\* that claimed, or is the OWNER's recovery of that instance.
NothingIsMisattributed ==
  \A claim, end \in log :
    Binds(claim.task, claim.inst, None, claim, end) => end.inst = claim.inst

\* The REVIEW snapshot bound to an execution is of its completed result, and
\* starts at the commit that the execution's own evidence names as its base.
ReviewIsOfResult ==
  \A claim, end \in log :
    Binds(claim.task, claim.inst, None, claim, end) =>
      \A c \in ReviewOf(end) :
        /\ end.kind = "result"
        /\ end.to = "COMPLETED"
        /\ checkpoints[c].prior = end.base

\* bindExecution refuses nothing this ledger wrote, except the instance of a
\* server process that claimed the same task twice: every other execution is
\* bound or still without an end, with its dispatch row in the snapshot and
\* without, and a run of an IMPLEMENTATION task has an answer as well.
\* (delegate_task does not ask for the type; a run of a diagnosis has none.)
NothingIsRejected ==
  /\ \A claim \in log :
       LET t == claim.task  i == claim.inst IN
       claim.kind = "claimed" /\ Claims(t, i) = {claim} =>
         \A status \in StatusesSeen(i) :
           \/ Unavailable(t, i, status, claim)
           \/ \E end \in log : Binds(t, i, status, claim, end)
  /\ \A r \in Runs :
       runs[r].status # "absent" /\ Admitted(runs[r].task, runs[r].status) =>
         \/ \E e \in log : Claims(runs[r].task, r) = {e}
         \/ FailedBeforeClaim(r)
         \/ NotClaimedYet(r)

\* The summary never contradicts the ledger: RUNNING means that the instance
\* still has the task, at the revision of its claim, or that it was cancelled
\* (no report got lost), and any other outcome is the status the task has
\* until its next transition.
SummaryIsTrue ==
  \A claim \in log :
    LET t == claim.task  i == claim.inst  task == tasks[t] IN
    claim.kind = "claimed" /\ Claims(t, i) = {claim} =>
      /\ Outcome(t, i) = "RUNNING" =>
           \/ task.status = "RUNNING" /\ task.inst = i /\ task.rev = claim.rev
           \/ task.status \in {"CANCELLED", "CLOSED"}
      /\ Outcome(t, i) # "RUNNING" /\ task.rev = claim.rev + 1 =>
           task.status = Outcome(t, i)

\* An answer that names the end of an execution is final: no later transaction
\* changes it, with the dispatch row in the snapshot or without, unless the
\* same server process claims the task again and the answer becomes ambiguous.
EvidenceStays ==
  [][\A claim, end \in log :
       LET t == claim.task  i == claim.inst IN
       /\ Binds(t, i, None, claim, end) =>
            \/ Binds(t, i, None, claim, end)'
            \/ i \in Workers /\ Claims(t, i)' # {claim}
       /\ i \in Runs /\ Binds(t, i, runs[i].status, claim, end) =>
            Binds(t, i, runs[i].status, claim, end)']_evidence

=============================================================================
