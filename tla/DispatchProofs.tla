--------------------------- MODULE DispatchProofs ---------------------------
(***************************************************************************)
(* Safety of Dispatch for every set of tasks, runs and workers: whatever   *)
(* the dispatchers, the runners, the OWNER and the servers interleave, and *)
(* wherever a process crashes.  The columns a dispatcher read and will     *)
(* write back are part of the inductive invariant: its whole difficulty is *)
(* that a stale row must not hide an execution or undo a report.           *)
(***************************************************************************)
EXTENDS Dispatch, TLAPS

-----------------------------------------------------------------------------
(* The rows of the ledger *)

\* A row has the columns of a task.  (Ledger!TypeOK also says that rowid is a
\* number, which nothing here depends on.)
IsTask(row) ==
  row \in [status : {row.status}, rowid : {row.rowid}, rev : {row.rev},
           inst : {row.inst}, base : {row.base}, source : {row.source},
           claimedBy : {row.claimedBy}, resultBy : {row.resultBy}]

Rows ==
  /\ tasks = [t \in Tasks |-> tasks[t]]
  /\ \A t \in Tasks : IsTask(tasks[t]) /\ tasks[t].rev \in Nat
  /\ runs \in [Runs -> L!RunRow]

\* A step that writes the row of t, and no other row of a task.
Writes(t) ==
  /\ tasks' = [u \in Tasks |-> tasks'[u]]
  /\ \A u \in Tasks \ {t} : tasks'[u] = tasks[u]
  /\ IsTask(tasks'[t])
  /\ tasks'[t].status # "ABSENT"

\* It takes an inserted task one revision on, and leaves it owned by inst.
Moves(t, inst) ==
  /\ Writes(t)
  /\ tasks[t].status # "ABSENT"
  /\ tasks'[t].rev = tasks[t].rev + 1
  /\ tasks'[t].inst = inst
  /\ tasks'[t].base = tasks[t].base

\* An update of a row takes its task one revision on.
LEMMA UpdatedTask ==
  ASSUME Rows, NEW t \in Tasks, NEW row, IsTask(row), L!UpdateTask(t, row),
         row.status # "ABSENT", tasks[t].status # "ABSENT",
         row.base = tasks[t].base
  PROVE  Moves(t, row.inst)
<1>1. tasks' = [tasks EXCEPT ![t] = [row EXCEPT !.rev = tasks[t].rev + 1]]
  BY DEF L!UpdateTask
<1>2. /\ tasks' = [u \in Tasks |-> tasks'[u]]
      /\ \A u \in Tasks \ {t} : tasks'[u] = tasks[u]
      /\ tasks'[t] = [row EXCEPT !.rev = tasks[t].rev + 1]
  BY <1>1 DEF Rows
<1>3. /\ tasks'[t].status = row.status
      /\ tasks'[t].rev = tasks[t].rev + 1
      /\ tasks'[t].inst = row.inst
      /\ tasks'[t].base = row.base
  BY <1>2 DEF IsTask
<1>4. IsTask(tasks'[t])
  BY <1>2 DEF IsTask
<1> QED BY <1>2, <1>3, <1>4 DEF Moves, Writes

\* The row of run r gets a status and keeps its task and its plan.
Marks(r, status) ==
  /\ runs' \in [Runs -> L!RunRow]
  /\ \A s \in Runs \ {r} : runs'[s] = runs[s]
  /\ runs'[r].status = status
  /\ runs'[r].task = runs[r].task

LEMMA ClaimEffect ==
  ASSUME Rows, NEW t \in Tasks, NEW i, NEW rev, L!ClaimTask(t, i, rev, L!AtBase(t))
  PROVE  /\ Moves(t, i)
         /\ tasks[t].rev = rev
         /\ i \in Runs => runs[i].task = t /\ Marks(i, "running")
         /\ i \notin Runs => UNCHANGED runs
<1>1. /\ tasks[t].rev = rev /\ tasks[t].status = "READY"
      /\ L!UpdateTask(t, L!Claimed(t, i))
      /\ L!UpdateRunOf(i, t, "running")
      /\ i \in Runs => runs[i].task = t
  BY DEF L!ClaimTask
<1>2. IsTask(tasks[t])
  BY DEF Rows
<1>3. IsTask(L!Claimed(t, i)) /\ L!Claimed(t, i).inst = i
        /\ L!Claimed(t, i).status = "RUNNING" /\ L!Claimed(t, i).base = tasks[t].base
  BY <1>2 DEF IsTask, L!Claimed
<1>4. Moves(t, i)
  BY <1>1, <1>3, UpdatedTask
<1>5. i \in Runs => Marks(i, "running")
  BY <1>1 DEF L!UpdateRunOf, Marks, Rows, L!RunRow, L!RunStatuses
<1>6. i \notin Runs => UNCHANGED runs
  BY <1>1 DEF L!UpdateRunOf
<1> QED BY <1>1, <1>4, <1>5, <1>6

LEMMA ReportEffect ==
  ASSUME Rows, NEW t \in Tasks, NEW i, NEW rev, NEW shown,
         \/ L!ReportResult(t, i, rev, "COMPLETED") /\ shown = "completed"
         \/ L!ReportBlocked(t, i, rev) /\ shown = "blocked"
  PROVE  /\ Moves(t, None)
         /\ tasks[t].inst = i
         /\ i \in Runs => Marks(i, shown)
         /\ i \notin Runs => UNCHANGED runs
<1>0. IsTask(tasks[t])
  BY DEF Rows
<1>1. PICK row : /\ L!UpdateTask(t, row)
                 /\ IsTask(row)
                 /\ row.inst = None
                 /\ row.base = tasks[t].base
                 /\ row.status # "ABSENT"
  <2>1. CASE L!ReportResult(t, i, rev, "COMPLETED")
    <3> DEFINE new == [tasks[t] EXCEPT !.status = "COMPLETED", !.inst = None, !.resultBy = i]
    <3>1. L!UpdateTask(t, new)
      BY <2>1 DEF L!ReportResult
    <3>2. /\ IsTask(new)
          /\ new.inst = None
          /\ new.base = tasks[t].base
          /\ new.status # "ABSENT"
      BY <1>0 DEF IsTask
    <3> HIDE DEF new
    <3> QED BY <3>1, <3>2
  <2>2. CASE L!ReportBlocked(t, i, rev)
    <3> DEFINE new == [tasks[t] EXCEPT !.status = "BLOCKED", !.inst = None]
    <3>1. L!UpdateTask(t, new)
      BY <2>2 DEF L!ReportBlocked
    <3>2. /\ IsTask(new)
          /\ new.inst = None
          /\ new.base = tasks[t].base
          /\ new.status # "ABSENT"
      BY <1>0 DEF IsTask
    <3> HIDE DEF new
    <3> QED BY <3>1, <3>2
  <2> QED BY <2>1, <2>2
<1>3. tasks[t].inst = i /\ tasks[t].status = "RUNNING" /\ L!UpdateRunOf(i, t, shown)
        /\ shown \in {"completed", "blocked"}
  BY DEF L!ReportResult, L!ReportBlocked, L!Running
<1>4. Moves(t, None)
  BY <1>1, <1>3, UpdatedTask
<1>5. i \in Runs => Marks(i, shown)
  BY <1>3 DEF L!UpdateRunOf, Marks, Rows, L!RunRow, L!RunStatuses
<1>6. i \notin Runs => UNCHANGED runs
  BY <1>3 DEF L!UpdateRunOf
<1> QED BY <1>3, <1>4, <1>5, <1>6

\* What recovery, cancellation and resumption have in common: the task is
\* owned by nobody, and its active runs have failed or there were none ...
LEMMA RestEffect ==
  ASSUME Rows, NEW t \in Tasks, NEW rev,
         \/ L!RecoverTask(t, rev) \/ L!CancelTask(t, rev)
         \/ L!ResumeTask(t, rev, L!AtBase(t))
  PROVE  Moves(t, None)
<1>0. IsTask(tasks[t])
  BY DEF Rows
<1>1. PICK row : /\ L!UpdateTask(t, row)
                 /\ IsTask(row)
                 /\ row.inst = None
                 /\ row.base = tasks[t].base
                 /\ row.status # "ABSENT"
  <2>1. CASE L!RecoverTask(t, rev)
    <3> DEFINE new == [tasks[t] EXCEPT !.status = "BLOCKED", !.inst = None]
    <3>1. L!UpdateTask(t, new)
      BY <2>1 DEF L!RecoverTask
    <3>2. /\ IsTask(new)
          /\ new.inst = None
          /\ new.base = tasks[t].base
          /\ new.status # "ABSENT"
      BY <1>0 DEF IsTask
    <3> HIDE DEF new
    <3> QED BY <3>1, <3>2
  <2>2. CASE L!CancelTask(t, rev)
    <3> DEFINE new == [tasks[t] EXCEPT !.status = "CANCELLED", !.inst = None]
    <3>1. L!UpdateTask(t, new)
      BY <2>2 DEF L!CancelTask
    <3>2. /\ IsTask(new)
          /\ new.inst = None
          /\ new.base = tasks[t].base
          /\ new.status # "ABSENT"
      BY <1>0 DEF IsTask
    <3> HIDE DEF new
    <3> QED BY <3>1, <3>2
  <2>3. CASE L!ResumeTask(t, rev, L!AtBase(t))
    <3> DEFINE new == [tasks[t] EXCEPT !.status = "READY", !.inst = None,
                                       !.base = tasks[t].base, !.resultBy = None]
    <3>1. L!UpdateTask(t, new)
      BY <2>3 DEF L!ResumeTask, L!AtBase
    <3>2. /\ IsTask(new)
          /\ new.inst = None
          /\ new.base = tasks[t].base
          /\ new.status # "ABSENT"
      BY <1>0 DEF IsTask
    <3> HIDE DEF new
    <3> QED BY <3>1, <3>2
  <2> QED BY <2>1, <2>2, <2>3
<1>3. tasks[t].status \in L!CANCELLABLE
  BY DEF L!RecoverTask, L!Running, L!CancelTask, L!ResumeTask, L!RESUMABLE, L!CANCELLABLE
<1>4. tasks[t].status # "ABSENT"
  BY <1>3 DEF L!CANCELLABLE
<1> QED BY <1>1, <1>4, UpdatedTask

\* ... and the runs of other tasks are as they were.
LEMMA RestRuns ==
  ASSUME Rows, NEW t \in Tasks, NEW rev,
         \/ L!RecoverTask(t, rev) \/ L!CancelTask(t, rev)
         \/ L!ResumeTask(t, rev, L!AtBase(t))
  PROVE  /\ runs' \in [Runs -> L!RunRow]
         /\ \A r \in Runs : /\ runs'[r].task = runs[r].task
                            /\ runs[r].task # t => runs'[r] = runs[r]
                            /\ runs'[r] = runs[r] \/ (runs'[r].status = "failed" /\ L!Active(r))
<1>1. CASE UNCHANGED runs
  BY <1>1 DEF Rows
<1>2. CASE L!FailActiveRunsOf(t)
  BY <1>2 DEF L!FailActiveRunsOf, L!ActiveFor, L!Active, Rows, L!RunRow, L!RunStatuses
<1> QED BY <1>1, <1>2 DEF L!RecoverTask, L!CancelTask, L!ResumeTask

LEMMA CreateEffect ==
  ASSUME Rows, NEW t \in Tasks, NEW k \in Commits,
         L!CreateTask(t, [head |-> k, clean |-> TRUE])
  PROVE  /\ Writes(t)
         /\ tasks[t].status = "ABSENT"
         /\ tasks'[t].rev = 1
         /\ tasks'[t].inst = None
         /\ tasks'[t].base = k
         /\ UNCHANGED runs
<1>1. tasks' = [tasks EXCEPT ![t] = L!FreshTask(k, None)]
        /\ tasks[t].status = "ABSENT" /\ UNCHANGED runs
  BY DEF L!CreateTask
<1>2. /\ tasks' = [u \in Tasks |-> tasks'[u]]
      /\ \A u \in Tasks \ {t} : tasks'[u] = tasks[u]
      /\ tasks'[t] = L!FreshTask(k, None)
  BY <1>1 DEF Rows
<1> QED BY <1>1, <1>2 DEF L!FreshTask, IsTask, Writes

\* The two writes of a dispatch row outside the ledger's task transactions.
LEMMA InsertEffect ==
  ASSUME Rows, NEW r \in Runs, NEW t \in Tasks, L!InsertRun(r, t)
  PROVE  /\ runs' \in [Runs -> L!RunRow]
         /\ \A s \in Runs \ {r} : runs'[s] = runs[s]
         /\ runs[r].status = "absent"
         /\ runs'[r].status = "launching"
         /\ runs'[r].task = t
         /\ UNCHANGED tasks
BY DEF L!InsertRun, Rows, L!RunRow, L!RunStatuses

LEMMA OverwriteEffect ==
  ASSUME Rows, NEW r \in Runs, NEW status \in L!RunStatuses, L!OverwriteRun(r, status)
  PROVE  /\ Marks(r, status)
         /\ runs[r].status # "absent"
         /\ UNCHANGED tasks
BY DEF L!OverwriteRun, Rows, Marks, L!RunRow, L!RunStatuses

-----------------------------------------------------------------------------
(* The inductive invariant *)

\* A row was branched off a commit of somebody else's.
Bases == \A t \in Tasks : tasks[t].status # "ABSENT" => tasks[t].base \in Commits

\* Where the call and the runner of r are, and what is in the ledger by then.
Staged(r) ==
  LET call == dispatcher[r] IN
  /\ call.pc # "idle" =>
       /\ call.task \in Tasks
       /\ tasks[call.task].status # "ABSENT"
       /\ call.rev <= tasks[call.task].rev
  /\ call.pc \in {"idle", "checked"} => runs[r].status = "absent"
  /\ call.pc = "inserted" => runner[r] = "off"
  /\ call.pc = "read" => call.seen # "absent"
  /\ call.pc = "close" => runner[r] \in {"gone", "refused"}
  /\ call.pc = "errored" => runner[r] = "refused"
  /\ IF runs[r].status = "absent"
     THEN call.pc \in {"idle", "checked", "threw", "crashed"} /\ runner[r] = "off"
     ELSE runs[r].task = call.task

\* The runner of r executes its task, or nothing has happened to the task that
\* would refuse it the claim.
Entitled(r) ==
  LET call == dispatcher[r] IN
  /\ runs[r].status # "absent"
  /\ \/ runner[r] \in {"off", "start", "claim"} /\ tasks[call.task].rev = call.rev
     \/ runner[r] \in {"execute", "report"} /\ tasks[call.task].inst = r

\* The row of such a run is active, and so is the copy of it that its
\* dispatcher is about to write back.
Visible(r) ==
  Entitled(r) =>
    /\ L!Active(r)
    /\ dispatcher[r].pc = "read" => dispatcher[r].seen \in {"launching", "running"}

\* A report is the last thing a runner does; the row, and the copy of it, show
\* the report that was made.
Earned(r) ==
  /\ reports[r] # "none" => runner[r] = "gone"
  /\ runs[r].status \in {"completed", "blocked"} => reports[r] = runs[r].status
  /\ dispatcher[r].pc = "read" /\ dispatcher[r].seen \in {"completed", "blocked"}
       => reports[r] = dispatcher[r].seen

\* What r owns it claimed, at the revision it was delegated.
Owns(r) ==
  \A t \in Tasks : tasks[t].inst = r =>
    /\ dispatcher[r].task = t
    /\ tasks[t].rev = dispatcher[r].rev + 1
    /\ runner[r] \in {"execute", "report", "throw", "fail", "gone"}

\* A handler that is about to mark r failed found it active when its runner was
\* gone, and no report comes after that; a copy that is not active is the row.
Settled(r) ==
  /\ dispatcher[r].pc = "close" => runs[r].status \notin {"completed", "blocked"}
  /\ dispatcher[r].pc = "read"
       => dispatcher[r].seen \in {"launching", "running", runs[r].status}

Sound(r) == Staged(r) /\ Visible(r) /\ Earned(r) /\ Owns(r) /\ Settled(r)

IInv == TypeOK /\ Rows /\ Bases /\ \A r \in Runs : Sound(r)

-----------------------------------------------------------------------------
(* What the others do to run q *)

\* The call, the runner and the report of q stay where they are.
Idle(q) ==
  /\ dispatcher'[q] = dispatcher[q]
  /\ runner'[q] = runner[q]
  /\ reports'[q] = reports[q]

\* No task comes into the possession of q, and if its row changes, it fails
\* together with a move of its task.
Foreign(q) ==
  /\ \A t \in Tasks :
       /\ tasks[t].status # "ABSENT" => /\ tasks'[t].status # "ABSENT"
                                        /\ tasks[t].rev <= tasks'[t].rev
       /\ tasks'[t].inst = q => tasks[t].inst = q /\ tasks'[t].rev = tasks[t].rev
  /\ \/ runs'[q] = runs[q]
     \/ /\ runs'[q].status = "failed"
        /\ L!Active(q)
        /\ runs'[q].task = runs[q].task
        /\ tasks'[runs[q].task].inst # q
        /\ tasks[runs[q].task].rev < tasks'[runs[q].task].rev

LEMMA ForeignKeeps ==
  ASSUME TypeOK, Rows, Rows', NEW q \in Runs, Sound(q), Idle(q), Foreign(q)
  PROVE  Sound(q)'
<1> USE DEF Idle
<1>1. /\ dispatcher[q] \in Calls
      /\ \A t \in Tasks : tasks[t].rev \in Nat /\ tasks'[t].rev \in Nat
      /\ dispatcher[q].rev \in Nat
  BY DEF TypeOK, Rows, Calls
<1>2. Staged(q)'
  BY <1>1 DEF Sound, Staged, Foreign, L!Active
<1>3. Visible(q)'
  <2>1. SUFFICES ASSUME Entitled(q)'
                 PROVE  /\ L!Active(q)'
                        /\ dispatcher[q].pc = "read" => dispatcher[q].seen \in {"launching", "running"}
    BY DEF Visible
  <2>2. /\ runs[q].status # "absent" /\ runs[q].task = dispatcher[q].task
        /\ dispatcher[q].task \in Tasks
        /\ dispatcher[q].rev <= tasks[dispatcher[q].task].rev
        /\ tasks[dispatcher[q].task].rev <= tasks'[dispatcher[q].task].rev
    BY <2>1 DEF Entitled, Foreign, Sound, Staged, L!Active
  <2>3. runs'[q] = runs[q]
    BY <1>1, <2>1, <2>2 DEF Entitled, Foreign
  <2>4. Entitled(q)
    BY <1>1, <2>1, <2>2 DEF Entitled, Foreign
  <2> QED BY <2>3, <2>4 DEF Sound, Visible, L!Active
<1>4. Earned(q)'
  BY DEF Sound, Earned, Foreign
<1>5. Owns(q)'
  BY DEF Sound, Owns, Foreign
<1>6. Settled(q)'
  BY DEF Sound, Settled, Foreign, L!Active
<1> QED BY <1>2, <1>3, <1>4, <1>5, <1>6 DEF Sound

\* A move of a task is foreign to every run it does not make the owner.
LEMMA MovesAreForeign ==
  ASSUME Rows, NEW t \in Tasks, NEW inst, Moves(t, inst),
         NEW q \in Runs, inst # q, runs'[q] = runs[q]
  PROVE  Foreign(q)
BY DEF Rows, Moves, Writes, Foreign

\* The types of the rows, and the bases, after a move.
LEMMA MovesKeep ==
  ASSUME Rows, Bases, NEW t \in Tasks, NEW inst, Moves(t, inst),
         runs' \in [Runs -> L!RunRow]
  PROVE  Rows' /\ Bases'
BY DEF Rows, Moves, Writes, Bases

LEMMA SameTasks ==
  ASSUME Rows, Bases, UNCHANGED tasks, runs' \in [Runs -> L!RunRow]
  PROVE  /\ Rows' /\ Bases'
         /\ \A q \in Runs : runs'[q] = runs[q] => Foreign(q)
BY DEF Rows, Bases, Foreign

\* How a step of the call or the runner of r is shown to keep IInv.
LEMMA OwnStep ==
  ASSUME IInv, NEW r \in Runs, TypeOK', Rows', Bases', Sound(r)',
         \A q \in Runs \ {r} : Idle(q) /\ Foreign(q)
  PROVE  IInv'
<1>1. ASSUME NEW q \in Runs, q # r PROVE Sound(q)'
  BY <1>1, ForeignKeeps DEF IInv
<1> QED BY <1>1 DEF IInv

-----------------------------------------------------------------------------
(* delegateTask *)

LEMMA OthersIdle ==
  ASSUME TypeOK, NEW r \in Runs,
         \/ UNCHANGED dispatcher
         \/ \E d : dispatcher' = [dispatcher EXCEPT ![r] = d],
         UNCHANGED runner \/ \E pc : RGoto(r, pc),
         UNCHANGED reports \/ \E e : reports' = [reports EXCEPT ![r] = e]
  PROVE  \A q \in Runs \ {r} : Idle(q)
BY DEF TypeOK, RGoto, Idle

LEMMA CheckKeeps ==
  ASSUME IInv, NEW r \in Runs, NEW t \in Tasks, Check(r, t)
  PROVE  IInv'
<1> DEFINE call == [dispatcher[r] EXCEPT !.pc = "checked", !.task = t, !.rev = tasks[t].rev]
<1>1. /\ dispatcher[r].pc = "idle" /\ tasks[t].status = "READY"
      /\ dispatcher' = [dispatcher EXCEPT ![r] = call]
      /\ UNCHANGED <<tasks, runs, bound, runner, reports>>
  BY DEF Check, ledger
<1>2. dispatcher[r] \in Calls /\ tasks[t].rev \in Nat
  BY DEF IInv, TypeOK, Rows
<1>3. /\ call \in Calls
      /\ call.pc = "checked" /\ call.task = t /\ call.rev = tasks[t].rev
  BY <1>2 DEF Calls
<1> HIDE DEF call
<1>4. dispatcher'[r] = call /\ TypeOK'
  BY <1>1, <1>3 DEF IInv, TypeOK
<1>5. Rows' /\ Bases' /\ \A q \in Runs : Foreign(q)
  BY <1>1, SameTasks DEF IInv, Rows
<1>6. Sound(r) /\ runs[r].status = "absent" /\ runner[r] = "off"
  BY <1>1 DEF IInv, Sound, Staged
<1>7. Staged(r)'
  BY <1>1, <1>2, <1>3, <1>4, <1>6 DEF Staged
<1>8. Visible(r)' /\ Earned(r)' /\ Owns(r)' /\ Settled(r)'
  BY <1>1, <1>3, <1>4, <1>6 DEF Sound, Visible, Entitled, Earned, Owns, Settled
<1> QED BY <1>1, <1>4, <1>5, <1>7, <1>8, OthersIdle, OwnStep DEF IInv, Sound

\* The other fields of a call that goes to another pc are what they were.
LEMMA GoesTo ==
  ASSUME TypeOK, NEW r \in Runs, NEW pc, DGoto(r, pc),
         pc \in {"inserted", "spawned", "attached", "errored", "close", "down", "threw",
                 "swallowed", "crashed"}
  PROVE  /\ dispatcher' \in [Runs -> Calls]
         /\ dispatcher'[r].pc = pc
         /\ dispatcher'[r].task = dispatcher[r].task
         /\ dispatcher'[r].rev = dispatcher[r].rev
         /\ dispatcher'[r].seen = dispatcher[r].seen
         /\ \A q \in Runs \ {r} : dispatcher'[q] = dispatcher[q]
BY DEF TypeOK, DGoto, Calls

LEMMA InsertKeeps ==
  ASSUME IInv, NEW r \in Runs, Insert(r)
  PROVE  IInv'
<1> DEFINE t == dispatcher[r].task
<1>1. /\ dispatcher[r].pc = "checked" /\ L!InsertRun(r, t) /\ DGoto(r, "inserted")
      /\ UNCHANGED <<bound, runner, reports>>
  BY DEF Insert
<1>2. Sound(r) /\ t \in Tasks /\ runs[r].status = "absent" /\ runner[r] = "off"
  BY <1>1 DEF IInv, Sound, Staged
<1>3. /\ runs' \in [Runs -> L!RunRow]
      /\ \A s \in Runs \ {r} : runs'[s] = runs[s]
      /\ runs'[r].status = "launching" /\ runs'[r].task = t
      /\ UNCHANGED tasks
  BY <1>1, <1>2, InsertEffect DEF IInv
<1>4. TypeOK'
  BY <1>1, GoesTo DEF IInv, TypeOK
<1>5. Rows' /\ Bases' /\ \A q \in Runs \ {r} : Idle(q) /\ Foreign(q)
  BY <1>1, <1>3, SameTasks, OthersIdle, GoesTo DEF IInv, Idle
<1>6. /\ dispatcher'[r].pc = "inserted" /\ dispatcher'[r].task = t
      /\ dispatcher'[r].rev = dispatcher[r].rev
  BY <1>1, GoesTo DEF IInv
<1>7. Staged(r)' /\ Earned(r)' /\ Owns(r)' /\ Settled(r)'
  BY <1>1, <1>2, <1>3, <1>6 DEF Sound, Staged, Earned, Owns, Settled
<1>8. Visible(r)'
  BY <1>3, <1>6 DEF Visible, L!Active
<1> QED BY <1>4, <1>5, <1>7, <1>8, OwnStep DEF Sound

LEMMA SpawnKeeps ==
  ASSUME IInv, NEW r \in Runs, Spawn(r)
  PROVE  IInv'
<1>1. /\ dispatcher[r].pc = "inserted" /\ DGoto(r, "spawned")
      /\ RGoto(r, "start") \/ RGoto(r, "refused")
      /\ UNCHANGED <<tasks, runs, bound, reports>>
  BY DEF Spawn, ledger
<1>2. Sound(r) /\ runner[r] = "off"
  BY <1>1 DEF IInv, Sound, Staged
<1>3. TypeOK' /\ runner'[r] \in {"start", "refused"}
        /\ \A q \in Runs \ {r} : runner'[q] = runner[q]
  BY <1>1, GoesTo DEF IInv, TypeOK, RGoto
<1>4. Rows' /\ Bases' /\ \A q \in Runs \ {r} : Idle(q) /\ Foreign(q)
  BY <1>1, <1>3, SameTasks, GoesTo DEF IInv, Idle, Rows
<1>5. /\ dispatcher'[r].pc = "spawned" /\ dispatcher'[r].task = dispatcher[r].task
      /\ dispatcher'[r].rev = dispatcher[r].rev
  BY <1>1, GoesTo DEF IInv
<1>6. Staged(r)'
  BY <1>1, <1>2, <1>3, <1>5 DEF Sound, Staged
<1>7. Earned(r)' /\ Owns(r)' /\ Settled(r)'
  BY <1>1, <1>2, <1>3, <1>5 DEF Sound, Staged, Earned, Owns, Settled
<1>8. Visible(r)'
  BY <1>1, <1>2, <1>3, <1>5 DEF Sound, Visible, Entitled, L!Active
<1> QED BY <1>3, <1>4, <1>6, <1>7, <1>8, OwnStep DEF Sound

LEMMA ReadRowKeeps ==
  ASSUME IInv, NEW r \in Runs, ReadRow(r)
  PROVE  IInv'
<1> DEFINE call == [dispatcher[r] EXCEPT !.pc = "read", !.seen = runs[r].status,
                                         !.seenBound = bound[r]]
<1>1. /\ dispatcher[r].pc = "spawned"
      /\ dispatcher' = [dispatcher EXCEPT ![r] = call]
      /\ UNCHANGED <<tasks, runs, bound, runner, reports>>
  BY DEF ReadRow, ledger
<1>2. dispatcher[r] \in Calls /\ runs[r] \in L!RunRow /\ bound[r] \in BOOLEAN
  BY DEF IInv, TypeOK, Rows
<1>3. /\ call \in Calls
      /\ call.pc = "read" /\ call.task = dispatcher[r].task
      /\ call.rev = dispatcher[r].rev /\ call.seen = runs[r].status
  BY <1>2 DEF Calls, L!RunRow
<1> HIDE DEF call
<1>4. dispatcher'[r] = call /\ TypeOK'
  BY <1>1, <1>3 DEF IInv, TypeOK
<1>5. Rows' /\ Bases' /\ \A q \in Runs : Foreign(q)
  BY <1>1, SameTasks DEF IInv, Rows
<1>6. Sound(r) /\ runs[r].status # "absent"
  BY <1>1 DEF IInv, Sound, Staged
<1>7. Staged(r)' /\ Earned(r)' /\ Owns(r)' /\ Settled(r)'
  BY <1>1, <1>3, <1>4, <1>6 DEF Sound, Staged, Earned, Owns, Settled
<1>8. Visible(r)'
  BY <1>1, <1>3, <1>4, <1>6 DEF Sound, Visible, Entitled, L!Active
<1> QED BY <1>1, <1>4, <1>5, <1>7, <1>8, OthersIdle, OwnStep DEF IInv, Sound

\* A row that is written with a status keeps every part of Sound that status
\* is fit for; the call goes to pc, the runner to step.
LEMMA MarkKeeps ==
  ASSUME IInv, NEW r \in Runs, NEW pc, NEW status \in L!RunStatuses,
         Marks(r, status), runs[r].status # "absent",
         UNCHANGED <<tasks, reports>>, TypeOK',
         \A q \in Runs \ {r} : Idle(q),
         runner'[r] = runner[r] \/ (Alive(r) /\ runner'[r] = "gone"),
         /\ dispatcher'[r].pc = pc
         /\ dispatcher'[r].task = dispatcher[r].task
         /\ dispatcher'[r].rev = dispatcher[r].rev
         /\ dispatcher'[r].seen = dispatcher[r].seen,
         \/ dispatcher'[r] = dispatcher[r]
         \/ pc \in {"attached", "down"}
         \/ pc = "errored" /\ runner'[r] = "refused",
         dispatcher[r].pc # "idle",
         status \in {"completed", "blocked"} => reports[r] = status,
         Entitled(r)' => status \in {"launching", "running"},
         Settled(r)'
  PROVE  IInv'
<1>1. Sound(r)
  BY DEF IInv
<1>2. Rows' /\ Bases' /\ \A q \in Runs \ {r} : Foreign(q)
  BY SameTasks DEF IInv, Marks
<1>3. Staged(r)'
  BY <1>1 DEF Sound, Staged, Marks, Alive, L!RunStatuses
<1>4. Earned(r)'
  BY <1>1 DEF Sound, Staged, Earned, Marks
<1>5. Owns(r)'
  BY <1>1 DEF Sound, Owns
<1>6. Visible(r)'
  <2>1. ASSUME Entitled(r)', dispatcher'[r].pc = "read"
        PROVE  dispatcher[r].seen \in {"launching", "running"}
    BY <1>1, <2>1 DEF Sound, Visible, Entitled, Marks
  <2> QED BY <2>1 DEF Visible, Marks, L!Active
<1> QED BY <1>2, <1>3, <1>4, <1>5, <1>6, OwnStep DEF Sound

LEMMA WritePidKeeps ==
  ASSUME IInv, NEW r \in Runs, WritePid(r)
  PROVE  IInv'
<1>1. /\ dispatcher[r].pc = "read" /\ L!OverwriteRun(r, dispatcher[r].seen)
      /\ bound' = [bound EXCEPT ![r] = dispatcher[r].seenBound]
      /\ DGoto(r, "attached") /\ UNCHANGED <<runner, reports>>
  BY DEF WritePid
<1>2. Sound(r) /\ dispatcher[r] \in Calls /\ dispatcher[r].seen \in L!RunStatuses
  BY <1>1 DEF IInv, TypeOK, Sound, Staged, Calls
<1>3. Marks(r, dispatcher[r].seen) /\ runs[r].status # "absent" /\ UNCHANGED tasks
  BY <1>1, <1>2, OverwriteEffect DEF IInv
<1>4. dispatcher[r].seenBound \in BOOLEAN
  BY <1>2 DEF Calls
<1>5. TypeOK' /\ \A q \in Runs \ {r} : Idle(q)
  BY <1>1, <1>4, GoesTo DEF IInv, TypeOK, Idle
<1>6. Entitled(r)' => Entitled(r)
  BY <1>1, <1>3, GoesTo DEF IInv, Entitled
<1>7. Settled(r)'
  BY <1>1, GoesTo DEF IInv, Settled
<1> QED BY <1>1, <1>2, <1>3, <1>5, <1>6, <1>7, GoesTo, MarkKeeps
        DEF IInv, Sound, Visible, Earned

\* A handler of a child process that is gone or never was marks the run failed.
LEMMA HandlerKeeps ==
  ASSUME IInv, NEW r \in Runs, L!OverwriteRun(r, "failed"),
         NEW pc, DGoto(r, pc), pc = "down" \/ (pc = "errored" /\ runner[r] = "refused"),
         dispatcher[r].pc # "idle", runner[r] \in {"refused", "gone"},
         UNCHANGED <<bound, runner, reports>>
  PROVE  IInv'
<1>1. "failed" \in L!RunStatuses
  BY DEF L!RunStatuses
<1>2. Marks(r, "failed") /\ runs[r].status # "absent" /\ UNCHANGED tasks
  BY <1>1, OverwriteEffect DEF IInv
<1>3. TypeOK' /\ \A q \in Runs \ {r} : Idle(q)
  BY GoesTo DEF IInv, TypeOK, Idle
<1>4. ~Entitled(r)' /\ Settled(r)'
  BY GoesTo DEF IInv, Entitled, Settled
<1> QED BY <1>1, <1>2, <1>3, <1>4, GoesTo, MarkKeeps DEF IInv

\* A step of the call that writes nothing.
LEMMA CallMovesOn ==
  ASSUME IInv, NEW r \in Runs, NEW pc, DGoto(r, pc),
         UNCHANGED <<tasks, runs, bound, runner, reports>>,
         \/ pc \in {"threw", "crashed"} /\ dispatcher[r].pc # "idle"
         \/ pc \in {"down", "swallowed"} /\ dispatcher[r].pc \in {"attached", "errored", "close"}
         \/ pc = "errored" /\ runner[r] = "refused" /\ dispatcher[r].pc = "attached"
         \/ /\ pc = "close" /\ runner[r] \in {"gone", "refused"} /\ L!Active(r)
            /\ dispatcher[r].pc \in {"attached", "errored"}
  PROVE  IInv'
<1>1. Sound(r)
  BY DEF IInv
<1>2. TypeOK' /\ \A q \in Runs \ {r} : Idle(q)
  BY GoesTo DEF IInv, TypeOK, Idle
<1>3. Rows' /\ Bases' /\ \A q \in Runs : Foreign(q)
  BY SameTasks DEF IInv, Rows
<1>4. /\ dispatcher'[r].pc = pc /\ dispatcher'[r].task = dispatcher[r].task
      /\ dispatcher'[r].rev = dispatcher[r].rev
  BY GoesTo DEF IInv
<1>5. Staged(r)'
  BY <1>1, <1>4 DEF Sound, Staged
<1>6. Visible(r)' /\ Earned(r)' /\ Owns(r)' /\ Settled(r)'
  BY <1>1, <1>4 DEF Sound, Visible, Entitled, Earned, Owns, Settled, L!Active
<1> QED BY <1>2, <1>3, <1>5, <1>6, OwnStep DEF Sound

LEMMA DispatcherKeeps ==
  ASSUME IInv, NEW r \in Runs,
         DispatcherStep(r) \/ DispatcherThrow(r) \/ DispatcherCrash(r)
  PROVE  IInv'
<1>1. CASE Insert(r)
  BY <1>1, InsertKeeps
<1>2. CASE Spawn(r)
  BY <1>2, SpawnKeeps
<1>3. CASE ReadRow(r)
  BY <1>3, ReadRowKeeps
<1>4. CASE WritePid(r)
  BY <1>4, WritePidKeeps
<1>5. CASE ChildError(r)
  <2>1. CASE L!OverwriteRun(r, "failed")
    BY <1>5, <2>1, HandlerKeeps DEF ChildError
  <2>2. CASE UNCHANGED ledger
    BY <1>5, <2>2, CallMovesOn DEF ChildError, ledger
  <2> QED BY <1>5, <2>1, <2>2 DEF ChildError
<1>6. CASE ChildClose(r)
  <2>1. dispatcher[r].pc = "errored" => runner[r] = "refused"
    BY DEF IInv, Sound, Staged
  <2> QED BY <1>6, <2>1, CallMovesOn DEF ChildClose, Closed, ledger
<1>7. CASE WriteClose(r)
  <2>1. runner[r] \in {"gone", "refused"}
    BY <1>7 DEF WriteClose, IInv, Sound, Staged
  <2>2. /\ L!OverwriteRun(r, "failed") /\ DGoto(r, "down") /\ dispatcher[r].pc = "close"
        /\ UNCHANGED <<bound, runner, reports>>
    BY <1>7 DEF WriteClose
  <2> QED BY <2>1, <2>2, HandlerKeeps
<1>8. CASE DispatcherThrow(r)
  BY <1>8, CallMovesOn DEF DispatcherThrow, ledger
<1>10. CASE SwallowClose(r)
  BY <1>10, CallMovesOn DEF SwallowClose, Closed, ledger
<1>9. CASE DispatcherCrash(r)
  BY <1>9, CallMovesOn DEF DispatcherCrash, ledger
<1> QED BY <1>1, <1>2, <1>3, <1>4, <1>5, <1>6, <1>7, <1>8, <1>9, <1>10
        DEF DispatcherStep


-----------------------------------------------------------------------------
(* runWorkerRunner *)

LEMMA RunnerGoes ==
  ASSUME TypeOK, NEW r \in Runs, NEW step, RGoto(r, step)
  PROVE  runner'[r] = step /\ \A q \in Runs \ {r} : runner'[q] = runner[q]
BY DEF TypeOK, RGoto

\* The runner of a call that has inserted its row.
LEMMA Started ==
  ASSUME IInv, NEW r \in Runs, runner[r] # "off"
  PROVE  /\ Sound(r)
         /\ dispatcher[r].pc \notin {"idle", "checked"}
         /\ dispatcher[r].task \in Tasks
         /\ runs[r].status # "absent"
         /\ runs[r].task = dispatcher[r].task
BY DEF IInv, Sound, Staged

\* A step of the runner that writes nothing.  What it may do then it might do
\* before.
LEMMA RunnerMovesOn ==
  ASSUME IInv, NEW r \in Runs,
         NEW step \in {"claim", "report", "throw", "fail", "gone"}, RGoto(r, step),
         UNCHANGED <<tasks, runs, bound, dispatcher, reports>>,
         Alive(r),
         runner[r] \in {"start", "claim"} => \A t \in Tasks : tasks[t].inst # r,
         step = "claim" => runner[r] = "start",
         step = "report" => runner[r] = "execute"
  PROVE  IInv'
<1>1. Sound(r) /\ dispatcher[r].pc \notin {"idle", "checked"} /\ runs[r].status # "absent"
  BY Started DEF Alive
<1>2. runner'[r] = step /\ \A q \in Runs \ {r} : runner'[q] = runner[q]
  BY RunnerGoes DEF IInv
<1>3. TypeOK' /\ \A q \in Runs \ {r} : Idle(q)
  BY <1>2 DEF IInv, TypeOK, RGoto, Idle
<1>4. Rows' /\ Bases' /\ \A q \in Runs : Foreign(q)
  BY SameTasks DEF IInv, Rows
<1>5. Staged(r)'
  BY <1>1, <1>2 DEF Sound, Staged, Alive
<1>6. Visible(r)'
  BY <1>1, <1>2 DEF Sound, Visible, Entitled, L!Active
<1>7. Earned(r)'
  BY <1>1, <1>2 DEF Alive, Sound, Earned
<1>8. Owns(r)' /\ Settled(r)'
  BY <1>1, <1>2 DEF Sound, Owns, Settled
<1> QED BY <1>3, <1>4, <1>5, <1>6, <1>7, <1>8, OwnStep DEF Sound

\* A runner that has not claimed owns nothing.
LEMMA Unclaimed ==
  ASSUME IInv, NEW r \in Runs, runner[r] \in {"off", "start", "claim", "refused"}
  PROVE  \A t \in Tasks : tasks[t].inst # r
BY DEF IInv, Sound, Owns

LEMMA ClaimKeeps ==
  ASSUME IInv, NEW r \in Runs, Claim(r)
  PROVE  IInv'
<1> DEFINE t == dispatcher[r].task
<1>1. /\ runner[r] = "claim"
      /\ L!ClaimTask(t, r, dispatcher[r].rev, L!AtBase(t))
      /\ bound' = [bound EXCEPT ![r] = TRUE]
      /\ RGoto(r, "execute")
      /\ UNCHANGED <<dispatcher, reports>>
  BY DEF Claim
<1>2. /\ Sound(r) /\ dispatcher[r].pc \notin {"idle", "checked"}
      /\ t \in Tasks /\ runs[r].status # "absent" /\ runs[r].task = t
      /\ \A u \in Tasks : tasks[u].inst # r
  BY <1>1, Started, Unclaimed
<1> HIDE DEF t
<1>3. Moves(t, r) /\ tasks[t].rev = dispatcher[r].rev /\ Marks(r, "running")
  BY <1>1, <1>2, ClaimEffect DEF IInv
<1>4. runner'[r] = "execute" /\ \A q \in Runs \ {r} : runner'[q] = runner[q]
  BY <1>1, RunnerGoes DEF IInv
<1>5. TypeOK' /\ \A q \in Runs \ {r} : Idle(q)
  BY <1>1, <1>4 DEF IInv, TypeOK, RGoto, Idle
<1>6. Rows' /\ Bases' /\ \A q \in Runs \ {r} : Foreign(q)
  BY <1>2, <1>3, MovesAreForeign, MovesKeep DEF IInv, Marks
<1>7. dispatcher[r].rev \in Nat /\ tasks'[t].rev = dispatcher[r].rev + 1 /\ tasks'[t].inst = r
        /\ tasks'[t].status # "ABSENT"
        /\ \A u \in Tasks \ {t} : tasks'[u] = tasks[u]
  BY <1>3 DEF IInv, TypeOK, Calls, Moves, Writes
<1>8. Staged(r)'
  BY <1>1, <1>2, <1>3, <1>4, <1>7 DEF t, Sound, Staged, Marks
<1>9. Entitled(r)
  BY <1>1, <1>2, <1>3 DEF t, Entitled
<1>10. Visible(r)'
  BY <1>1, <1>2, <1>3, <1>9 DEF Sound, Visible, Marks, L!Active
<1>11. Earned(r)'
  BY <1>1, <1>2, <1>3, <1>4 DEF Sound, Earned, Marks
<1>12. Owns(r)'
  BY <1>1, <1>2, <1>4, <1>7 DEF t, Owns
<1>13. Settled(r)'
  BY <1>1, <1>2, <1>3, <1>9 DEF Sound, Staged, Visible, Settled, Marks
<1> QED BY <1>5, <1>6, <1>8, <1>10, <1>11, <1>12, <1>13, OwnStep DEF Sound

LEMMA ReportKeeps ==
  ASSUME IInv, NEW r \in Runs, Report(r)
  PROVE  IInv'
<1> DEFINE t == dispatcher[r].task
<1>1. PICK shown \in {"completed", "blocked"} :
        /\ runner[r] = "report"
        /\ \/ L!ReportResult(t, r, dispatcher[r].rev + 1, "COMPLETED") /\ shown = "completed"
           \/ L!ReportBlocked(t, r, dispatcher[r].rev + 1) /\ shown = "blocked"
        /\ reports' = [reports EXCEPT ![r] = shown]
        /\ RGoto(r, "gone")
        /\ UNCHANGED <<bound, dispatcher>>
  BY DEF Report
<1>2. /\ Sound(r) /\ dispatcher[r].pc \notin {"idle", "checked"}
      /\ t \in Tasks /\ runs[r].status # "absent" /\ runs[r].task = t
  BY <1>1, Started
<1> HIDE DEF t
<1>3. Moves(t, None) /\ Marks(r, shown) /\ tasks[t].inst = r
  <2>1. Rows
    BY DEF IInv
  <2> DEFINE rev == dispatcher[r].rev + 1
  <2>2. \/ L!ReportResult(t, r, rev, "COMPLETED") /\ shown = "completed"
        \/ L!ReportBlocked(t, r, rev) /\ shown = "blocked"
    BY <1>1
  <2> HIDE DEF rev
  <2> QED BY <1>2, <2>1, <2>2, ReportEffect
<1>4. runner'[r] = "gone" /\ \A q \in Runs \ {r} : runner'[q] = runner[q]
  BY <1>1, RunnerGoes DEF IInv
<1>5. /\ TypeOK' /\ reports'[r] = shown
      /\ \A q \in Runs \ {r} : Idle(q)
  BY <1>1, <1>4 DEF IInv, TypeOK, RGoto, Idle
<1>6. \A q \in Runs : None # q
  BY DispatchAssumption, L!LedgerAssumption DEF L!Instances
<1>7. Rows' /\ Bases' /\ \A q \in Runs \ {r} : Foreign(q)
  BY <1>2, <1>3, <1>6, MovesAreForeign, MovesKeep DEF IInv, Marks
<1>8. dispatcher[r].rev \in Nat /\ tasks[t].rev \in Nat
        /\ tasks'[t].rev = tasks[t].rev + 1 /\ tasks'[t].inst = None
        /\ tasks'[t].status # "ABSENT"
        /\ \A u \in Tasks \ {t} : tasks'[u] = tasks[u]
  BY <1>2, <1>3 DEF IInv, TypeOK, Rows, Calls, Moves, Writes
<1>9. Staged(r)'
  BY <1>1, <1>2, <1>3, <1>4, <1>8 DEF t, Sound, Staged, Marks
<1>10. Visible(r)'
  BY <1>4 DEF Visible, Entitled
<1>11. Earned(r)'
  <2>1. reports[r] = "none"
    BY <1>1, <1>2 DEF Sound, Earned
  <2> QED BY <1>1, <1>2, <1>3, <1>4, <1>5, <2>1 DEF Sound, Earned, Marks
<1>12. Owns(r)'
  BY <1>1, <1>2, <1>4, <1>6, <1>8 DEF t, Sound, Owns
<1>13. Settled(r)'
  <2>1. Entitled(r)
    BY <1>1, <1>2, <1>3 DEF t, Entitled
  <2> QED BY <1>1, <1>2, <2>1 DEF Sound, Staged, Visible, Settled
<1> QED BY <1>5, <1>7, <1>9, <1>10, <1>11, <1>12, <1>13, OwnStep DEF Sound

LEMMA WriteFailKeeps ==
  ASSUME IInv, NEW r \in Runs, WriteFail(r)
  PROVE  IInv'
<1>1. /\ runner[r] = "fail" /\ L!OverwriteRun(r, "failed") /\ RGoto(r, "gone")
      /\ UNCHANGED <<bound, dispatcher, reports>>
  BY DEF WriteFail
<1>2. "failed" \in L!RunStatuses
  BY DEF L!RunStatuses
<1>3. Marks(r, "failed") /\ runs[r].status # "absent" /\ UNCHANGED tasks
  BY <1>1, <1>2, OverwriteEffect DEF IInv
<1>4. runner'[r] = "gone" /\ \A q \in Runs \ {r} : runner'[q] = runner[q]
  BY <1>1, RunnerGoes DEF IInv
<1>5. TypeOK' /\ \A q \in Runs \ {r} : Idle(q)
  BY <1>1, <1>4 DEF IInv, TypeOK, RGoto, Idle
<1>6. ~Entitled(r)' /\ dispatcher[r].pc # "idle"
  BY <1>1, <1>4, Started DEF Entitled
<1>7. Settled(r)'
  <2>1. runs[r] \in L!RunRow /\ Sound(r)
    BY <1>1, Started DEF IInv, Rows
  <2>2. runs[r].status \in {"launching", "running", "failed"}
    BY <1>1, <1>3, <2>1 DEF Sound, Earned, L!RunRow, L!RunStatuses
  <2> QED BY <1>1, <1>3, <2>1, <2>2 DEF Sound, Settled, Marks
<1> QED BY <1>1, <1>2, <1>3, <1>4, <1>5, <1>6, <1>7, MarkKeeps DEF Alive

LEMMA RunnerKeeps ==
  ASSUME IInv, NEW r \in Runs, RunnerStep(r) \/ RunnerCrash(r)
  PROVE  IInv'
<1>1. CASE Begin(r)
  BY <1>1, RunnerMovesOn, Unclaimed DEF Alive, Begin, ledger
<1>2. CASE Claim(r)
  BY <1>2, ClaimKeeps
<1>3. CASE Finish(r)
  BY <1>3, RunnerMovesOn DEF Alive, Finish, ledger
<1>4. CASE Report(r)
  BY <1>4, ReportKeeps
<1>5. CASE RunnerThrow(r)
  BY <1>5, RunnerMovesOn, Unclaimed DEF Alive, RunnerThrow, ledger
<1>6. CASE Catch(r)
  BY <1>6, RunnerMovesOn DEF Alive, Catch, ledger
<1>7. CASE WriteFail(r)
  BY <1>7, WriteFailKeeps
<1>8. CASE RunnerCrash(r)
  BY <1>8, RunnerMovesOn, Unclaimed DEF RunnerCrash, Alive, ledger
<1> QED BY <1>1, <1>2, <1>3, <1>4, <1>5, <1>6, <1>7, <1>8 DEF RunnerStep

-----------------------------------------------------------------------------
(* The OWNER and a server worker *)

LEMMA OthersKeep ==
  ASSUME IInv, Rows', Bases', Others, \A q \in Runs : Foreign(q)
  PROVE  IInv'
<1>1. TypeOK'
  BY DEF IInv, Others, TypeOK
<1>2. ASSUME NEW q \in Runs PROVE Sound(q)'
  <2>1. Idle(q)
    BY DEF Others, Idle
  <2> QED BY <2>1, ForeignKeeps DEF IInv
<1> QED BY <1>1, <1>2 DEF IInv

LEMMA OwnerKeeps ==
  ASSUME IInv, NEW t \in Tasks, OwnerStep(t)
  PROVE  IInv'
<1>0. \A q \in Runs : None # q
  BY DispatchAssumption, L!LedgerAssumption DEF L!Instances
<1>1. ASSUME NEW k \in Commits, L!CreateTask(t, [head |-> k, clean |-> TRUE]) PROVE IInv'
  <2>1. /\ Writes(t) /\ tasks[t].status = "ABSENT" /\ tasks'[t].rev = 1
        /\ tasks'[t].inst = None /\ tasks'[t].base = k /\ UNCHANGED runs
    BY <1>1, CreateEffect DEF IInv
  <2>2. Rows' /\ Bases'
    BY <2>1 DEF IInv, Rows, Bases, Writes
  <2>3. \A q \in Runs : Foreign(q)
    BY <1>0, <2>1 DEF IInv, Rows, Foreign, Writes
  <2> QED BY <2>2, <2>3, OthersKeep DEF OwnerStep
<1>2. ASSUME \/ L!RecoverTask(t, tasks[t].rev) \/ L!CancelTask(t, tasks[t].rev)
             \/ L!ResumeTask(t, tasks[t].rev, L!AtBase(t))
      PROVE  IInv'
  <2>1. /\ Moves(t, None)
        /\ runs' \in [Runs -> L!RunRow]
        /\ \A r \in Runs : /\ runs'[r].task = runs[r].task
                           /\ runs[r].task # t => runs'[r] = runs[r]
                           /\ runs'[r] = runs[r] \/ (runs'[r].status = "failed" /\ L!Active(r))
    BY <1>2, RestEffect, RestRuns DEF IInv
  <2>2. Rows' /\ Bases'
    BY <2>1, MovesKeep DEF IInv
  <2>3. ASSUME NEW q \in Runs PROVE Foreign(q)
    <3>1. CASE runs'[q] = runs[q]
      BY <1>0, <2>1, <3>1, MovesAreForeign DEF IInv
    <3>2. CASE runs'[q] # runs[q]
      <4>1. runs[q].task = t /\ runs'[q].status = "failed" /\ L!Active(q)
        BY <2>1, <3>2
      <4> QED BY <1>0, <2>1, <4>1 DEF IInv, Rows, Moves, Writes, Foreign
    <3> QED BY <3>1, <3>2
  <2> QED BY <2>2, <2>3, OthersKeep DEF OwnerStep
<1> QED BY <1>1, <1>2 DEF OwnerStep

LEMMA WorkerKeeps ==
  ASSUME IInv, NEW t \in Tasks, NEW w \in Workers, WorkerStep(w, t)
  PROVE  IInv'
<1>1. w \notin Runs /\ \A q \in Runs : None # q
  BY DispatchAssumption, L!LedgerAssumption DEF L!Instances
<1>2. (Moves(t, w) \/ Moves(t, None)) /\ UNCHANGED runs
  <2>1. CASE L!ClaimTask(t, w, tasks[t].rev, L!AtBase(t))
    BY <1>1, <2>1, ClaimEffect DEF IInv
  <2>2. CASE L!ReportBlocked(t, w, tasks[t].rev)
    BY <1>1, <2>2, ReportEffect DEF IInv
  <2> QED BY <2>1, <2>2 DEF WorkerStep
<1>3. Rows' /\ Bases'
  BY <1>2, MovesKeep DEF IInv, Rows
<1>4. \A q \in Runs : Foreign(q)
  BY <1>1, <1>2, MovesAreForeign DEF IInv
<1> QED BY <1>3, <1>4, OthersKeep DEF WorkerStep

-----------------------------------------------------------------------------
(* Theorems *)

LEMMA InitIInv == Init => IInv
<1> SUFFICES ASSUME Init PROVE IInv
  OBVIOUS
<1>1. /\ tasks = [t \in Tasks |-> L!NoTask] /\ runs = [r \in Runs |-> L!NoRun]
  BY DEF Init, L!Init
<1>2. TypeOK
  BY DEF Init, NoCall, TypeOK, Calls
<1>3. IsTask(L!NoTask) /\ L!NoTask.rev = 0 /\ L!NoTask.status = "ABSENT" /\ L!NoTask.inst = None
  BY DEF L!NoTask, IsTask
<1>4. L!NoRun \in L!RunRow /\ L!NoRun.status = "absent"
  BY DEF L!NoRun, L!RunRow
<1>5. Rows /\ Bases
  BY <1>1, <1>3, <1>4 DEF Rows, Bases
<1>6. \A q \in Runs : None # q
  BY DispatchAssumption, L!LedgerAssumption DEF L!Instances
<1>7. ASSUME NEW r \in Runs PROVE Sound(r)
  <2>1. /\ dispatcher[r].pc = "idle" /\ runner[r] = "off" /\ reports[r] = "none"
        /\ runs[r].status = "absent" /\ \A t \in Tasks : tasks[t].inst # r
    BY <1>1, <1>3, <1>4, <1>6 DEF Init, NoCall
  <2> QED BY <2>1 DEF Sound, Staged, Visible, Entitled, Earned, Owns, Settled
<1> QED BY <1>2, <1>5, <1>7 DEF IInv

LEMMA NextIInv == IInv /\ [Next]_vars => IInv'
<1> SUFFICES ASSUME IInv, [Next]_vars PROVE IInv'
  OBVIOUS
<1>1. CASE UNCHANGED vars
  <2>1. Others /\ Rows' /\ Bases' /\ \A q \in Runs : Foreign(q)
    BY <1>1, SameTasks DEF vars, ledger, Others, IInv, Rows
  <2> QED BY <2>1, OthersKeep
<1>2. CASE Next
  <2>1. CASE \E r \in Runs : \E t \in Tasks : Check(r, t)
    BY <2>1, CheckKeeps
  <2>2. CASE \E r \in Runs : DispatcherStep(r) \/ DispatcherThrow(r) \/ DispatcherCrash(r)
    BY <2>2, DispatcherKeeps
  <2>3. CASE \E r \in Runs : RunnerStep(r) \/ RunnerCrash(r)
    BY <2>3, RunnerKeeps
  <2>4. CASE \E t \in Tasks : OwnerStep(t)
    BY <2>4, OwnerKeeps
  <2>5. CASE \E t \in Tasks, w \in Workers : WorkerStep(w, t)
    BY <2>5, WorkerKeeps
  <2> QED BY <1>2, <2>1, <2>2, <2>3, <2>4, <2>5 DEF Next
<1> QED BY <1>1, <1>2

LEMMA Safety == Spec => []IInv
BY InitIInv, NextIInv, PTL DEF Spec

\* The calls, runners and reports stay what the code can make of them.
THEOREM TypeCorrect == Spec => []TypeOK
<1>1. IInv => TypeOK
  BY DEF IInv
<1> QED BY <1>1, Safety, PTL

\* While a runner executes on the ledger's authority its run is active: no
\* stale row of a dispatcher and no handler of a child process hides it.
THEOREM ExecutionIsVisibleHolds == Spec => []ExecutionIsVisible
<1>1. IInv => ExecutionIsVisible
  <2> SUFFICES ASSUME IInv, NEW r \in Runs, runner[r] \in {"execute", "report"},
                      tasks[dispatcher[r].task].inst = r
               PROVE  L!Active(r)
    BY DEF ExecutionIsVisible
  <2>1. Sound(r) /\ runs[r].status # "absent"
    BY Started
  <2> QED BY <2>1 DEF Sound, Visible, Entitled
<1> QED BY <1>1, Safety, PTL

\* A run shown as completed or blocked has committed that report.
THEOREM OutcomeIsEarnedHolds == Spec => []OutcomeIsEarned
<1>1. IInv => OutcomeIsEarned
  BY DEF IInv, Sound, Earned, OutcomeIsEarned
<1> QED BY <1>1, Safety, PTL

\* A runner never executes under the delegation of another run.
THEOREM ExecutesOwnDelegationHolds == Spec => []ExecutesOwnDelegation
<1>1. IInv => ExecutesOwnDelegation
  <2> SUFFICES ASSUME IInv, NEW r \in Runs, runner[r] \in {"execute", "report"},
                      tasks[dispatcher[r].task].inst = r
               PROVE  tasks[dispatcher[r].task].rev = dispatcher[r].rev + 1
    BY DEF ExecutesOwnDelegation
  <2>1. Sound(r) /\ dispatcher[r].task \in Tasks
    BY Started
  <2> QED BY <2>1 DEF Sound, Owns
<1> QED BY <1>1, Safety, PTL


-----------------------------------------------------------------------------
(* What takes a shown outcome back *)

\* A row that shows an outcome is left alone by every step but the write of the
\* pid, and is active again after that one.
LEMMA StepShows ==
  ASSUME IInv, [Next]_vars, NEW r \in Runs, runs[r].status \in {"completed", "blocked"},
         runs'[r].status # runs[r].status
  PROVE  WritePid(r) /\ L!Active(r)'
<1>1. Sound(r) /\ Rows /\ ~L!Active(r) /\ runner[r] = "gone"
  BY DEF IInv, Sound, Earned, L!Active
<1>2. ASSUME NEW q \in Runs, NEW t \in Tasks, Check(q, t) PROVE FALSE
  BY <1>2 DEF Check, ledger
<1>3. ASSUME NEW q \in Runs, DispatcherStep(q) PROVE q = r /\ WritePid(r)
  <2>1. CASE Insert(q)
    <3>1. dispatcher[q].task \in Tasks
      BY <2>1 DEF Insert, IInv, Sound, Staged
    <3> QED BY <1>1, <2>1, <3>1, InsertEffect DEF Insert
  <2>2. ASSUME NEW status \in L!RunStatuses, L!OverwriteRun(q, status) PROVE q = r
    BY <1>1, <2>2, OverwriteEffect DEF Marks
  <2>3. CASE WritePid(q)
    <3>1. dispatcher[q].seen \in L!RunStatuses
      BY <2>3 DEF WritePid, IInv, TypeOK, Sound, Staged, Calls
    <3> QED BY <2>2, <2>3, <3>1 DEF WritePid
  <2>4. "failed" \in L!RunStatuses
    BY DEF L!RunStatuses
  <2>5. CASE ChildError(q)
    BY <1>1, <2>2, <2>4, <2>5 DEF ChildError, ledger
  <2>6. CASE WriteClose(q)
    BY <1>1, <2>2, <2>4, <2>6 DEF WriteClose, Sound, Settled
  <2> QED BY <1>3, <2>1, <2>3, <2>5, <2>6
          DEF DispatcherStep, Spawn, ReadRow, ChildClose, SwallowClose, ledger
<1>4. ASSUME NEW q \in Runs, RunnerStep(q) PROVE FALSE
  <2>1. CASE q = r
    BY <1>1, <1>4, <2>1
       DEF RunnerStep, Begin, Claim, Finish, Report, RunnerThrow, Catch, WriteFail
  <2>2. CASE q # r
    <3>1. runner[q] # "off" => dispatcher[q].task \in Tasks
      BY Started
    <3>2. CASE Claim(q)
      BY <1>1, <2>2, <3>1, <3>2, ClaimEffect DEF Claim, Marks
    <3>3. CASE Report(q)
      <4>1. PICK shown, rev :
              \/ L!ReportResult(dispatcher[q].task, q, rev, "COMPLETED") /\ shown = "completed"
              \/ L!ReportBlocked(dispatcher[q].task, q, rev) /\ shown = "blocked"
        BY <3>3 DEF Report
      <4>2. dispatcher[q].task \in Tasks
        BY <3>1, <3>3 DEF Report
      <4>3. Marks(q, shown)
        BY <1>1, <4>1, <4>2, ReportEffect
      <4> QED BY <2>2, <4>3 DEF Marks
    <3>4. CASE WriteFail(q)
      <4>1. "failed" \in L!RunStatuses
        BY DEF L!RunStatuses
      <4> QED BY <1>1, <2>2, <3>4, <4>1, OverwriteEffect DEF WriteFail, Marks
    <3> QED BY <1>4, <3>2, <3>3, <3>4 DEF RunnerStep, Begin, Finish, RunnerThrow, Catch, ledger
  <2> QED BY <2>1, <2>2
<1>5. ASSUME NEW t \in Tasks, OwnerStep(t) PROVE FALSE
  <2>1. ASSUME NEW k \in Commits, L!CreateTask(t, [head |-> k, clean |-> TRUE]) PROVE FALSE
    BY <2>1 DEF L!CreateTask
  <2>2. ASSUME \/ L!RecoverTask(t, tasks[t].rev) \/ L!CancelTask(t, tasks[t].rev)
               \/ L!ResumeTask(t, tasks[t].rev, L!AtBase(t))
        PROVE  FALSE
    BY <1>1, <2>2, RestRuns
  <2> QED BY <1>5, <2>1, <2>2 DEF OwnerStep
<1>6. ASSUME NEW t \in Tasks, NEW w \in Workers, WorkerStep(w, t) PROVE FALSE
  <2>1. w \notin Runs
    BY DispatchAssumption, L!LedgerAssumption DEF L!Instances
  <2>2. CASE L!ClaimTask(t, w, tasks[t].rev, L!AtBase(t))
    BY <1>1, <2>1, <2>2, ClaimEffect
  <2>3. CASE L!ReportBlocked(t, w, tasks[t].rev)
    BY <1>1, <2>1, <2>3, ReportEffect
  <2> QED BY <1>6, <2>2, <2>3 DEF WorkerStep
<1>7. WritePid(r)
  <2>1. CASE UNCHANGED vars
    BY <2>1 DEF vars, ledger
  <2>2. CASE Next
    BY <1>2, <1>3, <1>4, <1>5, <1>6, <2>2
       DEF Next, DispatcherThrow, DispatcherCrash, RunnerCrash, ledger
  <2> QED BY <2>1, <2>2
<1>8. L!Active(r)'
  <2>1. dispatcher[r].pc = "read" /\ dispatcher[r].seen \in L!RunStatuses
    BY <1>1, <1>7 DEF WritePid, IInv, TypeOK, Sound, Staged, Calls
  <2>2. runs'[r].status = dispatcher[r].seen
    BY <1>1, <1>7, <2>1, OverwriteEffect DEF WritePid, Marks
  <2> QED BY <1>1, <2>1, <2>2 DEF Sound, Settled, L!Active
<1> QED BY <1>7, <1>8

\* A report is shown by the transaction that commits it.
LEMMA StepReports ==
  ASSUME IInv, [Next]_vars, NEW r \in Runs, reports'[r] = "completed", reports[r] # "completed"
  PROVE  runs'[r].status = "completed"
<1>1. PICK q \in Runs : Report(q)
  BY DEF Next, DispatcherStep, DispatcherThrow, DispatcherCrash, RunnerStep, RunnerCrash,
         Check, Insert, Spawn, ReadRow, WritePid, ChildError, ChildClose, WriteClose, SwallowClose,
         Begin, Claim, Finish, RunnerThrow, Catch, WriteFail, OwnerStep, WorkerStep, Others,
         vars
<1>2. q = r /\ runner[r] = "report"
  BY <1>1 DEF Report, IInv, TypeOK
<1>3. L!ReportResult(dispatcher[r].task, r, dispatcher[r].rev + 1, "COMPLETED")
  BY <1>1, <1>2 DEF Report, IInv, TypeOK
<1>4. dispatcher[r].task \in Tasks
  BY <1>2, Started
<1> DEFINE rev == dispatcher[r].rev + 1
<1>5. L!ReportResult(dispatcher[r].task, r, rev, "COMPLETED")
  BY <1>3
<1> HIDE DEF rev
<1>6. Marks(r, "completed")
  <2>1. Rows
    BY DEF IInv
  <2> QED BY <1>4, <1>5, <2>1, ReportEffect
<1> QED BY <1>6 DEF Marks

\* DispatchLostUpdate shows a completed run that is not shown as such.  One
\* step can do that, whatever interleaves and whoever crashes: the row that is
\* written back with the pid of the runner (dispatcher.ts:147).  Neither an event
\* handler of the child, nor the error path of the runner, nor a recovery takes an
\* outcome back, and the run of the reported task is active again afterwards.
THEOREM OnlyPidWriteHidesReport ==
  Spec => [][OutcomeIsShown /\ ~OutcomeIsShown' =>
               \E r \in Runs : /\ WritePid(r)
                               /\ reports[r] = "completed"
                               /\ L!Active(r)']_vars
<1> DEFINE Blamed == OutcomeIsShown /\ ~OutcomeIsShown' =>
                       \E r \in Runs : /\ WritePid(r)
                                       /\ reports[r] = "completed"
                                       /\ L!Active(r)'
<1>1. ASSUME IInv, [Next]_vars, OutcomeIsShown,
             NEW r \in Runs, reports'[r] = "completed", runs'[r].status # "completed"
      PROVE  WritePid(r) /\ reports[r] = "completed" /\ L!Active(r)'
  <2>1. reports[r] = "completed"
    BY <1>1, StepReports
  <2>2. runs[r].status = "completed"
    BY <1>1, <2>1 DEF OutcomeIsShown
  <2> QED BY <1>1, <2>1, <2>2, StepShows
<1>2. IInv /\ [Next]_vars => [Blamed]_vars
  BY <1>1 DEF OutcomeIsShown
<1> QED BY <1>2, Safety, PTL DEF Spec
-----------------------------------------------------------------------------
(* The ledger *)

\* The statuses these processes write are the ones of the schema; the baseline
\* they claim and resume from is a commit.
LEMMA StepsAreTransactions ==
  ASSUME IInv, [Next]_vars
  PROVE  [L!Next]_ledger
<1>1. CASE UNCHANGED ledger
  BY <1>1
<1>2. ASSUME NEW r \in Runs, Insert(r) PROVE L!Next
  <2>1. dispatcher[r].task \in Tasks
    BY <1>2 DEF Insert, IInv, Sound, Staged
  <2> QED BY <1>2, <2>1 DEF Insert, L!RunStep, L!Next
<1>3. ASSUME NEW r \in Runs, NEW status \in L!RunStatuses, L!OverwriteRun(r, status)
      PROVE  L!Next
  BY <1>3 DEF L!RunStep, L!Next
<1>4. {"failed"} \subseteq L!RunStatuses
  BY DEF L!RunStatuses
<1>5. ASSUME NEW r \in Runs, WritePid(r) PROVE L!Next
  <2>1. dispatcher[r].seen \in L!RunStatuses
    BY <1>5 DEF WritePid, IInv, TypeOK, Calls, Sound, Staged
  <2> QED BY <1>3, <1>5, <2>1 DEF WritePid
<1>6. ASSUME NEW r \in Runs, ChildError(r) \/ WriteClose(r) \/ WriteFail(r)
      PROVE  L!Next \/ UNCHANGED ledger
  BY <1>3, <1>4, <1>6 DEF ChildError, WriteClose, WriteFail
<1>7. ASSUME NEW t \in Tasks, NEW i \in L!Instances, NEW rev,
             L!ClaimTask(t, i, rev, L!AtBase(t))
      PROVE  L!Next
  <2>1. rev = tasks[t].rev
    BY <1>7 DEF L!ClaimTask
  <2> QED BY <1>7, <2>1 DEF L!TaskStep, L!Next
<1>8. ASSUME NEW t \in Tasks, NEW i \in L!Instances, NEW rev,
             L!ReportResult(t, i, rev, "COMPLETED") \/ L!ReportBlocked(t, i, rev)
      PROVE  L!Next
  <2>1. rev = tasks[t].rev
    BY <1>8 DEF L!ReportResult, L!ReportBlocked
  <2> QED BY <1>8, <2>1 DEF L!TaskStep, L!Next
<1>9. \A x \in Runs \cup Workers : x \in L!Instances
  BY DEF L!Instances
<1>10. ASSUME NEW r \in Runs, Claim(r) \/ Report(r) PROVE L!Next
  <2>1. dispatcher[r].task \in Tasks
    BY <1>10, Started DEF Claim, Report
  <2>2. CASE Claim(r)
    BY <1>7, <1>9, <2>1, <2>2 DEF Claim
  <2>3. CASE Report(r)
    <3> DEFINE rev == dispatcher[r].rev + 1
    <3>1. \/ L!ReportResult(dispatcher[r].task, r, rev, "COMPLETED")
          \/ L!ReportBlocked(dispatcher[r].task, r, rev)
      BY <2>3 DEF Report
    <3> HIDE DEF rev
    <3> QED BY <1>8, <1>9, <2>1, <3>1
  <2> QED BY <1>10, <2>2, <2>3
<1>11. ASSUME NEW t \in Tasks, OwnerStep(t) PROVE L!Next
  <2>1. ASSUME NEW k \in Commits PROVE [head |-> k, clean |-> TRUE] \in L!SeenSnapshots
    <3>1. k \notin L!CheckpointIds
      BY DispatchAssumption, L!LedgerAssumption
    <3> QED BY <3>1 DEF L!SeenSnapshots, L!Snapshots, L!AllCommits
  <2>2. ASSUME NEW k \in Commits, L!CreateTask(t, [head |-> k, clean |-> TRUE]) PROVE L!Next
    BY <2>1, <2>2 DEF L!TaskStep, L!Next
  <2>3. CASE L!RecoverTask(t, tasks[t].rev) \/ L!CancelTask(t, tasks[t].rev)
    BY <2>3 DEF L!TaskStep, L!Next
  <2>4. CASE L!ResumeTask(t, tasks[t].rev, L!AtBase(t))
    <3>1. tasks[t].base \in Commits
      BY <2>4 DEF L!ResumeTask, L!RESUMABLE, IInv, Bases
    <3>2. L!AtBase(t) \in L!SeenSnapshots
      BY <2>1, <3>1 DEF L!AtBase
    <3> QED BY <2>4, <3>2 DEF L!TaskStep, L!Next
  <2> QED BY <1>11, <2>2, <2>3, <2>4 DEF OwnerStep
<1>12. ASSUME NEW t \in Tasks, NEW w \in Workers, WorkerStep(w, t) PROVE L!Next
  BY <1>7, <1>8, <1>9, <1>12 DEF WorkerStep
<1>13. ASSUME NEW r \in Runs,
              \/ \E t \in Tasks : Check(r, t)
              \/ Spawn(r) \/ ReadRow(r) \/ ChildClose(r) \/ SwallowClose(r)
              \/ DispatcherThrow(r) \/ DispatcherCrash(r)
              \/ Begin(r) \/ Finish(r) \/ RunnerThrow(r) \/ Catch(r) \/ RunnerCrash(r)
       PROVE  UNCHANGED ledger
  BY <1>13 DEF Check, Spawn, ReadRow, ChildClose, SwallowClose, DispatcherThrow, DispatcherCrash,
               Begin, Finish, RunnerThrow, Catch, RunnerCrash
<1>14. CASE UNCHANGED vars
  BY <1>14 DEF vars
<1>15. CASE \E r \in Runs : DispatcherStep(r) \/ RunnerStep(r)
  BY <1>2, <1>5, <1>6, <1>10, <1>13, <1>15 DEF DispatcherStep, RunnerStep
<1> QED BY <1>11, <1>12, <1>13, <1>14, <1>15 DEF Next

\* The processes of a delegation only do what Ledger allows: every invariant
\* proved of Ledger holds of them, whichever of them crash.
THEOREM Refinement == Spec => ImplementsLedger
<1>1. Init => L!Init
  BY DEF Init
<1>2. IInv /\ [Next]_vars => [L!Next]_L!ledger
  BY StepsAreTransactions DEF ledger, L!ledger
<1> QED BY <1>1, <1>2, Safety, PTL DEF Spec, ImplementsLedger, L!Spec

=============================================================================
