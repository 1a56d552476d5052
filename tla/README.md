# engineering-mcp in TLA+

`engineering-mcp` is an MCP server through which one OWNER, JUNIOR and PRINCIPAL
workers, and the runner processes the server starts share the work on one Git
repository.  Their shared state is a SQLite *ledger*.  Nothing else coordinates
them: any number of server and runner processes open the same file, every
handler ends in one `BEGIN IMMEDIATE ... COMMIT`, and what they read before it
may be out of date by then.  This directory models the ledger and the protocols
built on it, how its file is opened and migrated, how its log is read back as
evidence, and how the outcome of a run is judged; it model-checks them, and proves
what matters most of them.

Paths below are relative to the repository (`src/lifecycle.ts`, `README.md`).

## 1. Inventory

| Component | State | Operations | What makes it correct | Model |
|---|---|---|---|---|
| **Ledger**: `store.ts`, `lifecycle.ts`, `role.ts` | tables `tasks`, `task_events`, `dispatch_runs`, `task_checkpoints` with their CHECKs, unique indexes and triggers | create, claim (targeted, next), report, report blocked, recover, resume, cancel, close; dispatch and checkpoint row writes | one execution per repository; results come from the claimant; a checkpoint intent excludes everything else; a C2C reservation holds; a base moves only at rest | `Ledger`, `Lifecycle` |
| **Checkpoint protocol**: `checkpointTask`, `git.ts` | the intent row; branch, index, worktree, checkpoint refs | plan, prepare, commit-tree, refs, index, record, finalize, mark, confirm, reopen; retries | Git never runs ahead of the intent; the branch of a person is never taken back; every intent is finalized | `Checkpoint` |
| **Delegation**: `dispatcher.ts`, `worker-runner*.ts` | dispatch row, child process, its events | check, insert, spawn, write pid, child error and close; claim, execute, report, throw | the run of an execution is visible; a shown outcome was reported; an orphaned run ends | `Dispatch` |
| **C2C bridge**: `c2c/`, `commands/plan-acceptance.ts`, `commands/delegation-intent.ts`, `c2c-launch-controller.ts`, `c2c-worker-runner*.ts` | evaluation, acceptance and delegation receipts; the runner instance of a run | evaluate, accept, delegate, launch; attempt: verify, claim, report | a plan is dispatched once; receipts never change; one attempt executes; a lost response does not leave a task reserved | `C2C` |
| **Safe Configure transaction**: `configure.ts` | the host configuration file; proposal and backup artifacts beside it | preview, apply, apply again | nobody's file loses its last name; a proposal is active only with the bytes it replaced in a backup; the same plan again completes what a crash left | `Configure` (apply) |
| **Evidence**: `evidence/` | none (a pure function of a snapshot of ledger rows); the events every transaction appends | bind an execution, bind a review checkpoint, summarise | an execution is credited with its own end; nothing the ledger wrote is refused; an answer that names an end is final | `Evidence` |
| **Migration and writer generation**: `store.ts` | schema version, repository binding, `writer_generation` of each row, triggers, receipt tables | open, migrate, bind, close; the writes of old and new releases | a migrated file is whole; old connections are fenced out; the repository is final; an old file can be opened | `Migration` |
| **Result classification, harness adapters**: `worker-runner*.ts`, `adapters/` | the runner's observations; the run directory, the pipe of the child | inspect, claim, list ignored files, spawn, collect, look at HEAD, status and ignored files, report | nothing a harness did is hidden except behind index flags; a result is believed only from its own harness and within scope | `Harness` |
| **Scope**: `scope.ts` | none | is a path allowed | a forbidden entry wins | `Harness` |
| **Launch specifications, durable targets** | none | hashing, argument construction | string functions | not modelled: their verdict is a choice in the models |
| **MCP server, tools, CLI, profiles, repository resolution** | none of their own | parse, call a handler, format | input and output | not modelled, except the order "Git snapshot, then handler" of `tools.ts`, which `Checkpoint` has |

How they interact.  `tools.ts` inspects Git and calls a lifecycle handler.
`checkpointTask` alternates ledger transactions and Git commands.
`delegateTask` inserts a dispatch row, spawns a runner and listens to its
events; the runner calls the claim and report handlers with its dispatch row as
a parameter, so that both rows change in one transaction.  `executeC2CPlan`
goes through four phases, each its own transaction, and spawns runners too.
Everything meets in three tables.  Safe Configure stands apart: it changes the
configuration file of a host program, and its only shared state is the directory
of that file.

What is hard here: processes interleave between any two transactions; a
snapshot or a row read before a transaction is used in it; processes crash
between Git and ledger; a caller repeats a request whose answer was lost;
dispatch rows are written back whole from an earlier read; releases of two
schemas have one file open; a harness changes what the runner will look at; the
log is read long after it was written, by arithmetic on revisions.  `PROJECT.json` lists
each hazard at its line with the properties that would catch it.

## 2. Modules

```
Lifecycle        abstract: a status machine per task and one execution lock
   ^ refines
Ledger           every ledger transaction as an atomic action
   ^ refines (each INSTANCEs Ledger and calls its actions)
Checkpoint       checkpointTask as crashing, retrying processes over Git
Dispatch         delegateTask and its runner as processes
C2C              execute_c2c_plan and its runner attempts as processes

Evidence         Ledger with its event log, and what is read back from it (EXTENDS Ledger)

Migration        opening and migrating the file that holds the ledger
Harness          one runner, its harness and the worktree between them
Configure        one plan applied by crashing, repeated processes; no ledger

LedgerProofs, CheckpointProofs, DispatchProofs, C2CProofs, EvidenceProofs,
MigrationProofs, HarnessProofs, ConfigureProofs
                 theorems about the module of that name
MC*              instances for TLC
```

### Ledger

`tasks`, `runs` and `checkpoints` are the three tables as functions from ids to
rows.  A row keeps the columns the guards read.  Three columns are not columns
in the code: `rowid` is the insertion order that `claim_next_task` sorts by
(`created_at, rowid`), `claimedBy` the instance in the last `claimed` event of
`task_events`, and `resultBy` the instance whose report stored the result.

* One action per transaction.  Its guard is the conjunction of the checks made
  *inside* the transaction and of the CHECKs, indexes and triggers that would
  abort it.  A check made before the transaction is left out here and is a
  separate, earlier step in the module of the process that makes it.
* What a handler was told or read before (a revision, a Git snapshot) is a
  parameter.  `Next` passes any snapshot that `inspectRepo` could have shown,
  so a stale one is among the choices.  It passes only the current revision,
  since a transaction that expects another is refused and changes nothing.
* A runner process draws a random execution instance id and serves one run, so
  the run stands for that id.
* `UNIQUE (task_id, producer_revision)` identifies a checkpoint, and its commit
  is a function of the durable intent (same tree, parent, message and dates), so
  the pair `<<task, revision>>` names the row, the ref and the commit.

The actions named `...Unfenced`, `...ByAnyone` and so on, marked *Faulty*, are
not part of `Next`.  Each is an action as a plausible bug would have it; with
the bug in place of the original, the property that is about it fails.

### Lifecycle

What callers rely on: READY, RUNNING and the rest as a graph, and one lock.
`Ledger!ImplementsLifecycle` maps `executor` to the RUNNING task.

### Checkpoint

`op[o]` is where OWNER call `o` is in `checkpointTask`; `repo` is the branch head
and the commits the branch went through (`line`), the index, the worktree and the
checkpoint refs; `plan` is
`expected_tree`; `seen` is the snapshot a client holds between `inspectRepo` and
its transaction.  A step is one Git command or one transaction together with the
reads right before it; between any two steps the process may crash, another
OWNER may retry the same intent, resume, recover or cancel, and a worker may claim
or report.  `Throw` is a step whose guard fails: the exception leaves the call and
changes nothing.  Scope, gitlinks and tree construction become the choice of a tree.

Two kinds of writers use the worktree.  The harness of an execution that holds a
claim edits and commits while it does (`Work`, `CommitWork`).  Everybody else edits
and commits at any time (`Edit`, `Commit`, counted by `edits`): people, and a harness
that lives on after its task was reported, recovered or cancelled, since those
operations free the claim and stop no process (`README.md:498`).

### Dispatch

`dispatcher[r]` is the call of `delegateTask` that drew run `r`, `runner[r]` its
child process, `bound[r]` whether `runner_instance_id` is set.  The dispatcher
writes the row it read before back over the current one (`ReadRow`, `WritePid`);
the `error` handler is a transaction (`ChildError`), the `close` handler and the
runner's error path are a read and a write (`ChildClose`/`WriteClose`,
`Catch`/`WriteFail`), as in the code.  `reports` is a history variable: what the
runner committed.

A statement of the call may be refused or a process not be made: `DispatcherThrow`
leaves the call before its handlers are attached.  The two handlers try once and
swallow a refusal: `ChildError` may change nothing and the `close` event follows it,
and `SwallowClose` leaves the row as it is for good.

### C2C

`call[o]` walks the four phases of controller `o`; `attempt[a]` is a runner
process, any number of which may be started for one run; `claimant[r]` is
`runner_instance_id`.  A plan is its whole content, so that comparing digests is
comparing plans.  `Requests` are what callers send: the exact request again,
the same plan under other command ids, the same delegation with another
profile, and a later plan for the same task.  Only PLAN messages of the OWNER
are modelled, because no operation of the server evaluates any other.

### Configure

`proc[p]` is where process `p` is in `applyConfigurePlanIdentity`; `target`,
`proposed` and `backups` are the directory entries, and `file` the bytes and the
descriptor behind them, since an installed proposal and its artifact are hard
links to one file.  Bytes are the class that hashes tell apart (SOURCE, PROPOSED,
EXTERNAL), a Windows descriptor is the one the configuration had or another.

* A step is one file-system call that changes something, or one look at the
  target or at the artifacts.  The target is read before the artifacts are
  scanned, and captured after it is read again, as in the code.  Two looks of
  which the second only concerns artifacts of the process itself are one step
  (the captured file and the scan after it; the descriptor read back and the
  target read after it).
* The names of artifacts are random, so that a new one is any that is free.
* `existing` is `source_state` of the plan.  An existing file is changed on
  Windows only, by the steps modelled; a first install has none of the steps on
  descriptors and backups.
* `Throw` is any refusal: it changes no file, and the plan may be applied again.
* `tampered` is a history variable: another program wrote to the path while the
  file there was also a backup, which it is after it was captured by mistake and
  put back by a hard link.
* Other programs replace, edit or delete the file at the path at any time.
  Artifacts are left alone: what a program that edits them gets is manual
  recovery.

### Evidence

`log` is the part of `task_events` that `bindExecution` reads: claims, results,
blocks and recoveries, each with the revision it led to, its actor, the instance
in its detail and the server-authoritative evidence of a report.  Every action
is a transaction of `Ledger` together with its event; the operators below them
(`Claims`, `Terminals`, `Agrees`, `Binds`, `Unavailable`, `ReviewOf`, `Outcome`)
are the steps of `bindExecution` and `executionSummary`, on the rows and events
of the moment.  A snapshot is read in one transaction, with the dispatch row or
without (`StatusesSeen`).

* `Ledger` lets anybody pass any stale value.  Here a process keeps to what its
  code does: a runner claims once, from its launching row, and reports while the
  row is running; a run leaves an active status only by becoming failed.  The
  write of the pid that can put an older row back is left out: it is the finding
  `DispatchLostUpdate`, and `evidence/binding.ts:324` then refuses the execution.
* The instance of a report is not in the log.  It is kept in the event to compare
  answers with, and no operator of `bindExecution` reads it.

### Migration

`version`, `bound`, `fence`, `guarded` and `receipts` are what a file says of
itself: `user_version`, the root in `ledger_metadata`, the step its
writer-protocol triggers ask for, whether the execution and repository triggers
exist, and which receipt tables do.  A row keeps its generation, its root, and
whether it has an owner.

* A trigger admits an update only if the generation moves by the step of the
  release that installed it; SQL comparisons with NULL refuse nothing, as in
  SQLite (`UpdatePasses`).
* `Open` is one transaction, from any version.  Every branch of
  `migrateAndValidate` is a disjunct; a refused open leaves the file alone.
* `Old` processes speak one of V1 to V11 and keep writing on connections opened
  before the migration.  The repository does not hold their source: what they
  write is taken from the migrations, which say what was missing, and from the
  fixtures of the tests (external in the map).
* The C2C receipts themselves are not written here.  What matters for opening is
  that the tables are there.

### Harness

`tree` is the worktree, `commits` and `head` are the commits, `message` what lies
where results are read from, and `run[r]` the dispatch row and what the runner
knows.  A step of the runner is one command: `inspectRepo`, the claim, the
listing of ignored files, the spawn, the read of the result, `rev-parse`,
`git status`, the second listing, the report.  Between any two of them a live
harness writes, commits or moves HEAD, and so may others: people, background
processes, and a harness left behind by a runner that crashed or whose task was
recovered.

* A path has one of a few contents, and one path is the ignore rules, so that a
  harness can hide and show others by writing it.
* Of the index the model has `flags`, the files marked `skip-worktree` or
  `assume-unchanged`, by the harness or by others, before or during a run: `git
  status` does not look at a tracked file that is flagged (`ChangedFiles`).  What is
  staged is left out: it lists a path in addition, never instead.  `unseen` is a
  history field, the files flagged when `git status` ran.
* A content stands for what Git compares: clean filters, `core.fileMode`, the
  `ignore` setting of submodules and the rest of `.git/config` are those of the
  beginning.
* The adapters differ in where a result lies (`Slot`), what is removed before the
  harness starts (`Emptied`) and how a start can fail.  A result is well formed,
  malformed or missing; it carries the run that wrote it, which no step reads.
* `wrote` and `alone` are history variables: which files stand as the harness
  left them, and whether others wrote between the runner's three looks.  What
  they write then may be missed or blamed on the harness, and no command could
  tell.
* Claims, reports and recoveries are reduced to the dispatch row; `Dispatch` and
  `Ledger` have them in full.

## 3. Properties and runs

All runs are in `PROJECT.json`; bounds are in the `.cfg` files and `MC*.tla`.

| Run | Instance | Properties | What it shows |
|---|---|---|---|
| `LedgerRivals` | implementation task to revision 5, diagnosis task to 3, two runs, a JUNIOR, a PRINCIPAL | `TypeOK`, `ResultFromClaimant`, `SingleExecution`, `IntentExclusive`, `IntentPinsTask`, `ReservationHolds`, `CheckpointProgress`, `BaseIsPinned`, `ImplementsLifecycle` | claimants, delegations, reservations and checkpoints compete for one repository and none gets past another; results come from the last claimant, bases move only at rest, and the ledger is the abstract lifecycle |
| `CheckpointCrash` | one task to revision 4, two OWNERs, one crash, a second commit, one edit or commit without a claim, fair | `GitFollowsIntent`, `BaseIsHeld`, `BranchMoves`, `IntentHoldsGit`, `Converges`, `ImplementsLedger` | a crash or a rival between any two steps leaves Git behind the intent, which claim holders and other calls leave the worktree and the branch to; no late process takes a branch back; retries complete the intent unless somebody without a claim interfered; every step is a ledger transaction |
| `DispatchRaces` | one task to revision 5, two runs, a JUNIOR, one dispatcher crash, fair | `ExecutionIsVisible`, `OutcomeIsEarned`, `ExecutesOwnDelegation`, `ImplementsLedger`, `OrphanEnds` | across recovery, resumption and a second claim a runner works only for its own delegation, visibly; every step is a ledger transaction; a run whose runner is gone ends, unless its dispatcher crashed or was refused a statement |
| `C2CRaces` | two controllers, two attempts, two runs, a JUNIOR, three requests, one failure, to revision 5 | `PlanRunsOnce`, `ReceiptsStay`, `OneAttemptExecutes` | replays, rival command ids and racing attempts yield one dispatch and one execution per plan |
| `C2CReplay` | one controller, two attempts, fair | `ImplementsLedger`, `LaunchEnds` | every step is a ledger transaction, and a dispatch does not stay launching while its caller repeats the request |
| `ConfigureCrash` | two processes, three artifact names, two crashes or foreign changes, an existing file or none, fair | `NothingIsLost`, `SourceIsKept`, `Converges` | whatever crashes and whoever writes to the path, no file loses its last name and no proposal is active without its backup; undisturbed, the proposal is active in the end |
| `EvidenceLog` | an implementation and a diagnosis task to revisions 6 and 3, two runs, a JUNIOR, a PRINCIPAL | `NothingIsMisattributed`, `ReviewIsOfResult`, `NothingIsRejected`, `SummaryIsTrue`, `EvidenceStays` | in every state the log can be read in, `bindExecution` credits an execution with its own end, refuses nothing, and never takes an answer back |
| `MigrationOpen` | releases 1, 3, 5 to 11 in two processes, two processes of this release, two repositories, two tasks, a run | `MigratedIsWhole`, `UpgradeIsOpen`, `OldWritersAreFenced`, `BindingStays` | whatever an old release left or still tries, a migrated file is whole, closed to it, and stays with its repository; and it can be opened |
| `HarnessRuns` | two runs with a scope each, an adapter for each place results lie in, three paths of which one holds the ignore rules, two writes, one commit | `OnlyFlagsHide`, `ScopeIsEnforced`, `ResultIsOwn` | nothing a harness changed escapes the report except behind a flag of the index, and none is believed with another such change outside its scope or with another run's result |
| `CheckpointFence`, `CheckpointPair`, `DispatchLostUpdate` | small | one each | the findings of section 6 |

Deadlock is not checked: revisions are bounded, and a quiet system is a
legitimate end (every task CLOSED, no request open).  A Configure process may be
refused for ever, and a migrated file needs no further step.

A `TypeOK` is checked where it says more than the types of rows: in `LedgerRivals`,
where a CHECK could be got wrong.  Those of the other modules are proved
(section 5).

### Bounds

* `MaxRevision` bounds every task's revision counter, and thereby everything
  else.  A whole round is create (1), claim (2), report or recover (3),
  checkpoint (4), resume (5), claim (6).  3 is enough for a claim and its end,
  4 for a checkpoint or a resumption, 5 or 6 for a second execution, which is
  where stale runners, stale plans and old checkpoints could do harm.
* Two tasks, two runs, two OWNERs or controllers, two attempts: each property
  compares at most two of them.  The theorems of section 5 have no such bound.
* Checkpoint: `MaxCrashes = 1` beside two OWNERs: a call that crashes and a call
  that is stalled for good leave the same, so that a third call meets what two
  crashes leave.  `MaxEdits = 1`: the mutants and findings show that one foreign
  change is enough to reach the dirty, moved and committed cases.  `Converges` is
  checked with one task and room for one checkpoint.  With more it does not hold,
  for three reasons: the findings `CheckpointFence` and `CheckpointPair`, and the
  late `read-tree` of section 4.
* `MaxDispatcherCrashes = 1` of Dispatch and `MaxFaults = 2` of Configure count
  likewise.
* `MaxFailures = 1` in C2C counts controller crashes, refused spawns and attempts
  that die.  An attempt slot whose process never claimed is used again, so that
  the number of processes over a behaviour is not bounded by `Attempts`; one that
  claimed keeps its slot, because its identity is durable.
* Configure: two processes race for each step and a third would repeat what the
  second does; at most one proposal is created by each of two processes and a
  crash may come between, and two captures by the plan and one of a foreign file
  need three backup names.  `MaxFaults = 2` is two crashes, two foreign changes, or
  one of each: every branch of the recovery is reached, the source bytes come back
  under another descriptor, and a restored file is edited.  A third change, which
  `tampered` is about, is left to the proof of `SourceIsKept`.
* Evidence: a second claim of one task by the same server process, or by another
  after a recovery, needs two rounds; revision 6 has both with a checkpoint in
  between or none, and each of the two executions may be delegated or not.
* Migration: two old and two new processes, so that one of each can hold a
  connection while the other opens the file, in the same repository or in
  another.  `MaxGeneration = 16` leaves room for four current writes to a row.
  V2 and V4 have the columns, for what is modelled, of V1 or V3, and are covered
  by the theorems.
* Harness: a hidden change takes a write to the rules, or a flag, and a write to
  another path, which are the two writes; a run reads the result of an earlier one after a
  second spawn, which two runs reach.
* Symmetry is used in runs that check only safety (`RunSymmetry`,
  `ProcessSymmetry`), over ids that only equality distinguishes.

### Fairness

Liveness needs fairness only of code that does not wait for anybody.

* `Checkpoint!FairSpec`: weak fairness of an OWNER process, which goes on with what
  it is in the middle of: a step of its call, the exception that ends it (a call
  never blocks: SQLite waits with a busy timeout and then throws), or the return of
  a tool call that looked at Git; and strong fairness of the retry: every lifecycle call names the unfinished checkpoint and the only
  thing an OWNER can do about it is the exact retry.  Strong, because a retry is
  refused at times while another process works on the same intent.
* `Dispatch!FairSpec`: weak fairness of the dispatching process while it lives
  (the operating system reports the exit of a child).  That the database accepts what
  a handler writes is not assumed: it tries once, and a refusal ends it.  Nothing is
  assumed of a runner: a harness may run for ever.
* `C2C!FairSpec`: weak fairness of a controller call and of an attempt up to its
  claim, and strong fairness of sending each request: a caller without an answer
  sends the exact request again, which is the one retry the private contract
  authorizes.  Nothing is assumed of a harness.
* `Configure!FairSpec`: weak fairness of a process's steps and refusals (there is
  no lock to wait for), and of beginning again: the plan is applied until it is
  reported as applied, and applying it further must change nothing.

## 4. Hazards

`PROJECT.json` lists them with the properties that cover each.  Those without a
property say why: the code leaves the case to the operator by design (a
dispatcher that dies with its handlers, a handler that is refused its one write, an
old release that inserts an intent),
no document says which of two behaviours is meant, or the case is open:

* `claim_task` judges a Git snapshot taken before its transaction, although
  `README.md:236` calls its baseline check atomic; a task may start away from its
  base.
* `read-tree` compares nothing (`git.ts:381`): a call that was stalled right after
  its branch update takes the index back to its own commit when the branch has gone
  on.  The worktree and the branch are not touched (`IntentHoldsGit`), but the
  checkpoint of another call then fails its verification until somebody resets the
  index.
* Nobody withdraws an intent.  A person, or a harness that was left behind by a
  recovery or a cancellation, blocks it by an edit of the worktree or a move of the
  branch until that is undone.  `IntentHoldsGit` says that those who write without a
  claim are the only ones: no claim is held beside an intent, and no call, however
  late, does it.
* A change to a tracked file that is flagged `skip-worktree` or `assume-unchanged` is
  in no listing the runner makes (`git.ts:49`), so that it is neither reported nor held
  against the scope.  Nothing in the code looks at the flags; `OnlyFlagsHide` and
  `ScopeIsEnforced` say that this is the only such way.
* A manifest with a fixed result path may hand a run the result of an earlier one
  (`generic-cli-adapter.ts:182`); `ResultIsOwn` speaks of the others.
* A handler of the child's events that is refused its write, or a dispatcher that
  throws or dies, leaves the run active.  The OWNER ends it by recovering or
  cancelling its task, unless the pid was written over the row of a task that is
  cancelled already: that run no operation ends.
* `launchControlledC2CWorker` reads the dispatch and the task in two reads, and
  answers a legal replay with an error when an attempt claims in between.
* With two processes of one Configure plan, a file that another program recreates
  after the first capture is captured by the second process, and the first then
  installs its proposal, whereas `docs/host-setup.md:123` says the file is
  preserved and apply fails closed.  Its bytes survive under the name of a backup
  (`NothingIsLost`).
* Foreign bytes that Configure captured are put back by a hard link, so that file
  and backup are one.  A program that then writes the source bytes into it makes a
  SOURCE backup, on which a process may count, and unmakes it by writing again; the
  proposal is then installed with no backup of the source.  `SourceIsKept` speaks of
  the time before such an edit; `docs/host-setup.md:152` calls the backup a distinct
  recovery object.
* `delegate_task` does not ask for the type of a task; a runner started for a
  diagnosis is refused when it claims, and `bindExecution` refuses that run.
* `executionSummary` goes on saying RUNNING of an execution whose task was
  cancelled (`evidence/projection.ts:130`).  `SummaryIsTrue` allows exactly that.

## 5. Proofs

### Ledger

`LedgerProofs.tla` proves for every set of tasks, runs, workers and commits and
every revision bound, from `LedgerAssumption` alone (the id sets are disjoint and
`Tasks` is finite):

| Theorem | States |
|---|---|
| `TypeCorrect` | `Spec => []TypeOK` |
| `Safety` | `Spec => []IInv` |
| `SingleExecutionHolds`, `IntentExclusiveHolds`, `IntentPinsTaskHolds`, `ReservationHoldsAlways`, `ResultFromClaimantHolds` | the invariants of the run `LedgerRivals` |
| `OneActiveRunPerTaskHolds` | a task has one active run, on which the reservation rests |
| `CheckpointProgressHolds`, `BaseIsPinnedHolds` | the action properties |
| `Refinement` | `Spec => ImplementsLifecycle` |

`TypeOK` is inductive.  Of the rest no single one is, and `IInv` is their
conjunction with `ClaimRecorded`.  Why each is needed by another:

* A result comes from the claimant because `report_result` compares the execution
  owner, and the owner is the last claimant only by `ClaimRecorded`.
* A reservation (`launching` at the accepted revision) survives the claims of
  others because both claim operations look for one, survives a checkpoint
  because an intent needs "no active run" (`IntentExclusive` gives the converse
  for runs inserted later), and survives another run because the task has one
  active run (`OneActiveRunPerTask`).
* An intent pins its task because every task write tests the fence; the one that
  does not, `FinalizeTask`, moves it by exactly the step the intent allows, and
  `ReopenCheckpoint`, which tests nothing, only leads back to FINALIZING, of
  which `IntentExclusive` deliberately says nothing (see `CheckpointFence`).
* `RecordGitApplied` tests exclusivity before its transaction.  The invariant
  holds nevertheless, as the CHECK of the row refuses a late writer.
* `SingleExecution` gives the refinement its lock: `Executor` is *the* RUNNING
  task, and a report or a cancellation frees it.

The proof has one step per action and, under it, one per conjunct the action can
disturb; lemmas about the row writes (`UpdateTask`, `UpdateRunOf`,
`FailActiveRunsOf`, `FreshTask`) come first.  Since `Checkpoint`, `Dispatch` and
`C2C` are proved to implement `Ledger`, what is proved of `Ledger` holds of the
ledger of their processes.

Its last section is for them.  `LInv` adds to `IInv` what only shows once a
process issues the transactions: the base of a task is a commit of the branch or
a planned checkpoint (a later snapshot is one `inspectRepo` can take), and a C2C
run that owns a task is running.  `StepKeepsLInv` says that any step of `Ledger`
keeps it.  `CheckpointProofs` and `C2CProofs` instantiate `LedgerProofs` as `P`,
show that each of their steps is a step of `Ledger` (`StepsAreTransactions`), and
have the ledger's share of their invariants from there (`LedgerKeeps`).

### Checkpoint

`CheckpointProofs.tla` proves `TypeCorrect`, `GitFollowsIntentHolds`,
`BaseIsHeldHolds`, `BranchMovesHolds`, `IntentHoldsGitHolds`, `Refinement`
(`Spec => ImplementsLedger`) and `LedgerStaysSafe` (the invariants of `Ledger`) for every set of tasks, runs, OWNER processes, workers,
trees and commits and every number of crashes and edits, from `CheckpointAssumption`
(`LedgerAssumption`, a root commit with a tree, and bounds that are numbers).

Neither `GitFollowsIntent` nor `BaseIsHeld` is inductive: a call acts on what it
saw some steps ago.  Two more invariants carry the proof.

* `Relied` says what remains true of what a call saw, whatever happens in between:
  the intent of a call that went past planning stays durable, the ref of a call that
  went past `update-ref` stays, so does its commit on the branch once it moved there,
  and the commit a client's snapshot shows stays on the branch.  It is kept because
  intents, refs and the line of the branch only grow (`StatesGrow`, `GitMoves`)
  however many retries and other writers interleave.
* `LineIsKept` says that the branch never comes back to a commit: an intent is
  planned on a commit of the branch, and when its own commit is on the branch, HEAD is
  past both.  So a call of a finished checkpoint that is still about to update the
  branch finds another value than it expects, for ever.

The base of a task is held since it comes from a snapshot or from the commit of a call
at `finalize` (`BasesMove`).  `BranchMoves` needs only that nobody but `MoveBranch`
takes the branch to a checkpoint commit, which it does from the prior base alone.
`IntentHoldsGit` also needs the ledger's share (`IntentIsExclusive`: beside an intent
no task runs, so no harness with a claim writes) and `LineIsKept` (no other call moves
the branch).  It speaks of the steps that leave `edits` alone: whoever has no claim is
not kept out, and the property does not say so.

Two theorems complement the findings of section 6.  A counterexample shows one way a
property fails; they show that there is no other.  `OnlyReopenBlocksRetry`: a step
after which an exact retry is shut out by a running task or an active run is
`Reopen` of its own checkpoint.  `OnlyStalePlanStrands`: a step after which an intent
can never be applied, while nobody without a claim interferes, is `Prepare` of a plan whose HEAD
the branch has left.  So a repair has one place each: were HEAD compared when the
intent is made durable, and no mark taken back, both properties would be invariants.

### Dispatch

`DispatchProofs.tla` proves `TypeCorrect`, `ExecutionIsVisibleHolds`,
`OutcomeIsEarnedHolds`, `ExecutesOwnDelegationHolds` and `Refinement`
(`Spec => ImplementsLedger`) for every set of tasks, runs and workers and every
number of crashes, from `LedgerAssumption` and `MaxDispatcherCrashes \in Nat`.  A
dispatcher writes back a row it read earlier, so the invariant speaks of the row and
of the copy of it that is still to be written:

* `Staged` ties the place of the call and of its runner to what the ledger holds: no
  runner without a row, a task at or past the revision of the delegation.
* `Visible` makes the row active, and the copy too, from the moment its runner may
  still claim (not only once it executes) until it has reported: a copy read before
  the claim would otherwise hide the execution when it is written back.
* `Settled`: the row a handler is about to mark failed is not that of a reported
  outcome, and a copy that is not active is still the row.
* `Earned`: a report is the last thing a runner does, and both row and copy show the
  report that was made or none.
* `Owns`: what a run owns it claimed at the revision of its delegation.  The claim
  compares that revision and every transaction of the task moves it on, so that
  "claimed by me" and "one revision after my delegation" stay the same.

`OnlyPidWriteHidesReport` complements the finding of run `DispatchLostUpdate`: the
one step after which a reported outcome is no longer shown is the write of the whole
row with the pid (`dispatcher.ts:147`), and the run of that task is active again.
`Settled` is what clears the handlers of the child, the error path of the runner and
the recovery of the same.

The refinement maps each transaction of a process to the action of `Ledger` it
calls, and every other step to a stutter, so that the theorems of `LedgerProofs`
hold of the ledger of `Dispatch`.

### C2C

`C2CProofs.tla` proves `TypeCorrect`, `PlanRunsOnceHolds`, `OneAttemptExecutesHolds`,
`ReceiptsStayHolds`, `ReplayIsOpenHolds`, `Refinement` (`Spec => ImplementsLedger`)
and `LedgerStaysSafe` (the invariants of `Ledger`) for every set of requests,
controllers, attempts, tasks and runs and every number of failures, from
`C2CAssumption` (`LedgerAssumption`, plans that name a task and a revision of at
least 1, and a `None` that is nobody's id).

* `Chained`: a delegation goes back to one acceptance and it to one evaluated plan,
  and nothing on the way is used twice.  That is `PlanRunsOnce`, and it is kept since
  receipts only grow (`ReceiptsGrow`).
* `Bound`: the run of a delegation has the task and the revision of that plan for
  ever, as no transaction of `Ledger` rewrites either (`RunsStay`).
* `Placed`: a call that reads or launches and an attempt that started have a run with
  a receipt, so that `PlanOf` is what its receipts say; an attempt that executes is
  the claimant, of which a run has one.
* `Known`: what a call has passed is recorded as its request says.  `Sent`: behind every
  delegation there is a request whose receipts these are, and behind every C2C run a
  delegation.
* What `OneAttemptExecutes` says of the task (its run is running, it is one revision
  past the plan) is `LInv` of the ledger, read through `Bound`.

`ReplayIsOpen` is what `LaunchEnds` rests on: in every state, with no fairness, a
launching dispatch has a request whose exact repetition passes each comparison up to
the launch.  It follows from `Sent` and the reservation (`LInv`): no crash, rival
request, claim or recovery leaves a reservation that nobody can use up.  That the
request is repeated, and so that the launch ends, is left to TLC and its fairness.

### Evidence

`EvidenceProofs.tla` extends `LedgerProofs`: `EvidenceIsOfLedger` shows that
adding the log leaves only steps of `Ledger`, so that `IInv` holds of it, and
`EInv` adds three parts.

* `Dated`: an event is not later than the revision of its task, no two events of
  a task have one revision, the last one agrees with the row, and a REVIEW
  checkpoint is of the completed result at its revision.  This is what makes "one
  revision after the claim" a question with at most one answer, and that answer
  final.
* `Paired`: an event that ends an execution comes right after the claim it ends,
  by the same instance; a claim has its end, or its task is at the revision of the
  claim, or cancelled.  Revision arithmetic is right because of it.
* `RunsFollow`: a run claims once, is running only while its claim has no end, and
  then has a status its end admits.  `NothingIsRejected` and `EvidenceStays` need
  it for the snapshots that carry the dispatch row.

From it: `NothingIsMisattributedHolds`, `ReviewIsOfResultHolds`,
`NothingIsRejectedHolds`, `SummaryIsTrueHolds`, `EvidenceStaysHolds`, and
`LogTypeCorrect`.

### Migration

`MigrationProofs.tla` proves `TypeCorrect`, `MigratedIsWholeHolds`,
`OldWritersAreFencedHolds`, `BindingStaysHolds` and `UpgradeIsOpenHolds` for all sets of processes,
releases, repositories, tasks and runs.  `MigratedIsWhole` is not inductive
alone: the invariant adds that an empty file has version 0, that the execution
triggers exist before the migration exactly from V5 on and then already keep
`ExecutionRowsValid` (which the migrations from V8 on do not look at again), and
that an intent is of a task that exists.  That old writers are fenced is then
arithmetic: no release before this one moves a generation by 4, so with the
current triggers in place each of its writes is refused.

`UpgradeIsOpen` says that no refusal of `migrateAndValidate` shuts out a file that an
older release wrote.  It needs `OldIsReadable`: until a process of this release opens
the file, only the older release has it open, and that keeps the rows in the shape the
migrations ask for: an owner exactly while RUNNING (none at all in V1), a
generation once there is the column.  `Accepts...` are the conditions under which each
branch of `Open` commits; the theorem derives them from the invariant.

### Harness

`HarnessProofs.tla` proves `TypeCorrect`, `OnlyFlagsHideHolds`,
`ScopeIsEnforcedHolds` and `ResultIsOwnHolds` for all sets of paths, contents,
ignore rules and scopes.  The invariant says that, unless others wrote between the
looks of the runner, HEAD is still at the base when `git status` runs, what it
listed is still so when the ignored files are listed, and the report then covers
the harness except for the files flagged at that moment (`LooksAgree`); `LooksCover`
shows that the looks together miss no other file that is not as the run found it.  A run without an error has the result of a
harness that exited, and what lies in a place of its own was written by its own
harness (`AnswerIsOwn`).

### Configure

`ConfigureProofs.tla` proves `TypeCorrect`, `NothingIsLostHolds` and
`SourceIsKeptHolds` for every number of processes, artifact names, foreign files and
faults, from `ConfigureAssumption` (the kinds of files are disjoint).

* Nothing is lost because every file a process writes to is an artifact, artifacts
  are never removed or replaced, a capture takes a free name, and a link needs a
  free path.  The invariant is that what a process holds is still an artifact.
* The source is kept because what a process read of the backups stays true
  (`Informed`): a SOURCE backup is changed only through a restored file
  (`tampered`), or by a process that writes a proposal, and that proposal is in
  nobody else's hands and has no other name (`Alone`) since the scan of every other
  process refuses while it is half written.  From the moment a proposal has a name
  outside `proposed`, there is a SOURCE backup (`Replaced`).  As long as no other
  program interfered, the original is the only file with the source bytes, so that
  every descriptor a process agrees on is the one it had (`Undisturbed`).

### What stays with TLC

Liveness under fairness: `Converges` of `Checkpoint` and of `Configure`,
`OrphanEnds`, `LaunchEnds`.  Every other property of a passing run is a theorem.

## 6. Findings

* `CheckpointFence`: a checkpoint that was FINALIZED is put back to FINALIZING
  when the last look at Git fails, even if the task was resumed and claimed in
  between.  Then a RUNNING task stands behind the fence; neither it, nor the
  OWNER, nor the exact retry can proceed, whereas `README.md:231` says the retry
  may.
* `DispatchLostUpdate`: the pid is written over the row of a runner that already
  reported; the run of a COMPLETED task is then launching, and later failed.

* `CheckpointPair`: two OWNER processes plan checkpoints of two tasks with the same
  base.  The first finishes, and the second makes its intent durable for a base that
  HEAD has left: the transaction (`lifecycle.ts:904`) compares the rows it depends on
  again, but not HEAD.  `applyGitCheckpoint` refuses that intent for ever
  (`git.ts:337`), nothing withdraws it, and it fences every other lifecycle write,
  whereas `docs/architecture.md:62` says the prepared operation converges.

The further observations of this kind have no run and are listed with the hazards
(section 4).

## 7. Not modelled

The in-process delegation mode that tests use; message states of C2C that no
operation evaluates; wording, formatting and audit payloads; the strings behind
scopes and paths; file hashing, prompts and launch arguments; the index of Git
while a harness works, except its flags; the configuration of Git; snapshots of evidence that no ledger wrote; the source of
older releases; profile and repository resolution; the server, tool and command
line front ends, which parse, call a handler and format.  Of Configure: the
preview, the rendering of TOML and the plan token (a plan is given and its bytes
have a known hash), plans that change nothing, the refusal of existing files
outside Windows, the parent directory, and the capability probes, which touch
only files of their own.  Time is not
modelled: a `wait_timeout` only ends the caller's wait, and SQLite's busy timeout
is a refusal.  SQLite and Git commands, file moves and hard links are taken as atomic.

## 8. Plan

1. *(done)* `Lifecycle`, `Ledger`, `LedgerProofs`: the shared state first, since
   every protocol is a user of it.
2. *(done)* `Checkpoint`, `Dispatch`, `C2C`: the processes, each refining `Ledger`.
3. *(done)* `Configure`: apply as processes over files, with crashes and other
   writers.
4. *(done)* `Evidence`: the log and what is read back from it, on every history of
   `Ledger`.
5. *(done)* `Migration`: releases on one file and the fencing triggers.
6. *(done)* `Harness`: how the outcome of a run is judged.
7. *(done)* Proofs: of `Ledger`, then of each process module and of its refinement
   of `Ledger`, then of `Evidence`, `Migration`, `Harness` and `Configure`.
8. Open: the source of older releases (their writes in `Migration` are taken
   from the migrations and the test fixtures), and profile and repository resolution, which
   decide by string and file-system rules rather than by state.
