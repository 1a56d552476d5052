----------------------------- MODULE Migration -----------------------------
(***************************************************************************)
(* Opening the ledger file (Store.open, migrateAndValidate) while processes *)
(* of an older release have it open and go on writing.                     *)
(*                                                                         *)
(* Every row of tasks, task_events and dispatch_runs carries the           *)
(* writer_generation of its last writer, and triggers admit a write only   *)
(* if it moves the generation by the step of the release that installed    *)
(* them.  A migration replaces the triggers, so writers of the old step    *)
(* are refused from then on, even on connections opened before.            *)
(*                                                                         *)
(* The releases before this one are not in src/; what they write is taken  *)
(* from the migrations and from the fixtures of the tests.                 *)
(***************************************************************************)
EXTENDS Integers

CONSTANTS
  Tasks,
  Runs,
  Old,            \* processes of the older release
  New,            \* processes of this release
  Home,           \* the repository each process works in
  Releases,       \* the schema versions the older release may have
  MaxGeneration,  \* bound on the generations of rows
  None            \* SQL NULL

Processes == Old \cup New
Roots == {Home[p] : p \in Processes}

SCHEMA_VERSION == 12
WRITER_PROTOCOL_GENERATION == 4

ASSUME MigrationAssumption ==
  /\ Old \cap New = {}
  /\ Releases \subseteq 1..(SCHEMA_VERSION - 1)
  /\ MaxGeneration \in Nat /\ MaxGeneration >= WRITER_PROTOCOL_GENERATION
  /\ None \notin Processes \cup Roots \cup Int

VARIABLES
  release,        \* the older release, as the schema version it speaks
  version,        \* PRAGMA user_version of the file
  bound,          \* repository_root in ledger_metadata
  tasks,
  runs,
  intent,         \* the unfinished checkpoint intent: its writer and task
  fence,          \* per table, the step its writer-protocol triggers ask for
  guarded,        \* the execution and repository triggers on tasks exist
  receipts,       \* the C2C receipt tables that exist
  open            \* processes with a connection

vars == <<release, version, bound, tasks, runs, intent, fence, guarded,
          receipts, open>>

Tables == {"tasks", "task_events", "dispatch_runs"}
ReceiptTables == {"evaluation", "acceptance", "delegation"}

Generations == (0..MaxGeneration) \cup {None}

TaskRow == [status : {"ABSENT", "READY", "RUNNING", "BLOCKED"},
            owner : Processes \cup {None}, gen : Generations,
            root : Roots \cup {None}]
RunRow == [status : {"absent", "launching", "failed"},
           task : Tasks \cup {None}, gen : Generations]

NoTask == [status |-> "ABSENT", owner |-> None, gen |-> None, root |-> None]
NoRun == [status |-> "absent", task |-> None, gen |-> None]

Inserted == {t \in Tasks : tasks[t].status # "ABSENT"}
Started == {r \in Runs : runs[r].status # "absent"}

-----------------------------------------------------------------------------
(* Writers *)

Speaks(p) == IF p \in New THEN SCHEMA_VERSION ELSE release

\* What a release adds to the generation of a row it updates, and gives a row
\* it inserts; 0 where its schema has no such column.  V5 introduced it for
\* tasks, V7 for the other two.
Step(v, table) ==
  CASE v = SCHEMA_VERSION               -> WRITER_PROTOCOL_GENERATION
    [] v \in 8..11                      -> 3
    [] v = 7                            -> 2
    [] v \in 5..6 /\ table = "tasks"    -> 1
    [] OTHER                            -> 0

FenceOf(v) == [table \in Tables |-> Step(v, table)]

\* A row inserted without the column gets NULL in tasks, 1 in the others.
InsertedGen(p, table) ==
  LET step == Step(Speaks(p), table) IN
  IF step # 0 THEN step ELSE IF table = "tasks" THEN None ELSE 1

UpdatedGen(p, table, gen) ==
  IF gen = None THEN None ELSE gen + Step(Speaks(p), table)

\* The writer_protocol triggers; a comparison with NULL refuses nothing.
InsertPasses(p, table) ==
  fence[table] = 0 \/ InsertedGen(p, table) = fence[table]

UpdatePasses(p, table, gen) ==
  LET new == UpdatedGen(p, table, gen) IN
  \/ fence[table] = 0
  \/ new # None /\ (gen = None \/ new = gen + fence[table])

\* The execution and repository triggers, and those of an unfinished intent.
GuardsPass(row) ==
  /\ guarded => /\ row.status = "RUNNING" <=> row.owner # None
                /\ row.root = bound
  /\ intent = None

\* Each transaction of a task appends one event, and fails with it.
WriteTask(p, t, status, owner) ==
  LET row == [tasks[t] EXCEPT !.status = status, !.owner = owner,
                              !.gen = UpdatedGen(p, "tasks", tasks[t].gen)]
  IN  /\ p \in open
      /\ UpdatePasses(p, "tasks", tasks[t].gen)
      /\ InsertPasses(p, "task_events")
      /\ row.gen \in Generations
      /\ tasks' = [tasks EXCEPT ![t] = row]
      /\ GuardsPass(row)

CreateTask(p, t) ==
  LET row == [status |-> "READY", owner |-> None, root |-> Home[p],
              gen |-> InsertedGen(p, "tasks")]
  IN  /\ p \in open
      /\ tasks[t].status = "ABSENT"
      /\ InsertPasses(p, "tasks")
      /\ InsertPasses(p, "task_events")
      /\ GuardsPass(row)
      /\ tasks' = [tasks EXCEPT ![t] = row]
      /\ UNCHANGED <<release, version, bound, runs, intent, fence, guarded,
                     receipts, open>>

\* V1 has no column for the owner.
OwnerOf(p) == IF Speaks(p) = 1 THEN None ELSE p

ClaimTask(p, t) ==
  /\ tasks[t].status = "READY"
  /\ \A u \in Tasks : tasks[u].status # "RUNNING"
  /\ WriteTask(p, t, "RUNNING", OwnerOf(p))
  /\ UNCHANGED <<release, version, bound, runs, intent, fence, guarded,
                 receipts, open>>

ReportBlocked(p, t) ==
  /\ tasks[t].status = "RUNNING"
  /\ tasks[t].owner = OwnerOf(p)
  /\ WriteTask(p, t, "BLOCKED", None)
  /\ UNCHANGED <<release, version, bound, runs, intent, fence, guarded,
                 receipts, open>>

ResumeTask(p, t) ==
  /\ tasks[t].status = "BLOCKED"
  /\ WriteTask(p, t, "READY", None)
  /\ UNCHANGED <<release, version, bound, runs, intent, fence, guarded,
                 receipts, open>>

ActiveRunsOf(t) == {r \in Runs : runs[r].status = "launching" /\ runs[r].task = t}

\* Recovery by an OWNER of this release, whoever runs the task, fails its run.
RecoverTask(p, t) ==
  /\ p \in New
  /\ tasks[t].status = "RUNNING"
  /\ WriteTask(p, t, "BLOCKED", None)
  /\ \A r \in ActiveRunsOf(t) :
       UpdatePasses(p, "dispatch_runs", runs[r].gen)
       /\ UpdatedGen(p, "dispatch_runs", runs[r].gen) \in Generations
  /\ runs' = [r \in Runs |->
       IF r \in ActiveRunsOf(t)
       THEN [runs[r] EXCEPT !.status = "failed",
               !.gen = UpdatedGen(p, "dispatch_runs", runs[r].gen)]
       ELSE runs[r]]
  /\ UNCHANGED <<release, version, bound, intent, fence, guarded, receipts,
                 open>>

\* dispatch_runs exist from V6 on.
InsertRun(p, r, t) ==
  /\ p \in open
  /\ Speaks(p) >= 6
  /\ runs[r].status = "absent"
  /\ tasks[t].status = "READY"
  /\ ActiveRunsOf(t) = {}
  /\ intent = None
  /\ InsertPasses(p, "dispatch_runs")
  /\ runs' = [runs EXCEPT ![r] =
       [status |-> "launching", task |-> t,
        gen |-> InsertedGen(p, "dispatch_runs")]]
  /\ UNCHANGED <<release, version, bound, tasks, intent, fence, guarded,
                 receipts, open>>

FailRun(p, r) ==
  /\ p \in open
  /\ Speaks(p) >= 6
  /\ runs[r].status = "launching"
  /\ intent = None
  /\ UpdatePasses(p, "dispatch_runs", runs[r].gen)
  /\ UpdatedGen(p, "dispatch_runs", runs[r].gen) \in Generations
  /\ runs' = [runs EXCEPT ![r].status = "failed",
                ![r].gen = UpdatedGen(p, "dispatch_runs", runs[r].gen)]
  /\ UNCHANGED <<release, version, bound, tasks, intent, fence, guarded,
                 receipts, open>>

\* The checkpoint intent is inserted alone: no task row, no event, and
\* task_checkpoints has no generation.  The table exists from V8 on.
PrepareCheckpoint(p, t) ==
  /\ p \in open
  /\ Speaks(p) >= 8
  /\ tasks[t].status = "BLOCKED"
  /\ \A u \in Tasks : tasks[u].status # "RUNNING"
  /\ \A r \in Runs : runs[r].status # "launching"
  /\ intent = None
  /\ intent' = [by |-> p, task |-> t]
  /\ UNCHANGED <<release, version, bound, tasks, runs, fence, guarded,
                 receipts, open>>

\* Any OWNER may retry the request; the end of it writes a task and an event,
\* which the intent's own fence lets through.
FinishCheckpoint(p, t) ==
  LET gen == UpdatedGen(p, "tasks", tasks[t].gen) IN
  /\ p \in open
  /\ Speaks(p) >= 8
  /\ intent # None
  /\ intent.task = t
  /\ UpdatePasses(p, "tasks", tasks[t].gen)
  /\ InsertPasses(p, "task_events")
  /\ gen \in Generations
  /\ tasks' = [tasks EXCEPT ![t].gen = gen]
  /\ intent' = None
  /\ UNCHANGED <<release, version, bound, runs, fence, guarded, receipts,
                 open>>

-----------------------------------------------------------------------------
(* Opening the file *)

\* Faulty: the root that is asked for replaces the one in the metadata.
BindingAsAsked(repo) == IF repo = None THEN {bound} \ {None} ELSE {repo}

\* requireRepositoryBinding, or the test that replaces it without a root: what
\* the binding is afterwards, or nothing if the open is refused.
Binding(repo) ==
  CASE bound # None /\ repo \in {bound, None}                  -> {bound}
    [] bound = None /\ repo # None
       /\ \A t \in Inserted : tasks[t].root = repo             -> {repo}
    [] OTHER                                                   -> {}

\* validateTaskRepositoryRoots
RootsAre(root) == \A t \in Inserted : tasks[t].root = root

\* validateExecutionInvariantRows
ExecutionRowsValid ==
  \A t \in Tasks : tasks[t].status = "RUNNING" <=> tasks[t].owner # None

\* validateWriterGenerationRows
GenerationRowsValid == \A t \in Inserted : tasks[t].gen # None

\* Faulty: CREATE TRIGGER IF NOT EXISTS without the DROP before it keeps the
\* triggers that are there.
ReinstallKeepingOld ==
  fence' = [table \in Tables |-> IF fence[table] # 0 THEN fence[table]
                                 ELSE WRITER_PROTOCOL_GENERATION]

\* reinstallCurrentWriterProtocolTriggers and the same steps of V1 to V7.
ReinstallTriggers == fence' = FenceOf(SCHEMA_VERSION)

\* A new file; without a root it stays unbound.
CreateSchema(repo) ==
  /\ version = 0
  /\ bound' = repo
  /\ UNCHANGED <<tasks, runs>>
  /\ ReinstallTriggers

\* Faulty: the owner of a RUNNING task is not asked for.
AcceptsV1ToV7Unchecked(repo) ==
  /\ version \in 1..7
  /\ \E root \in Binding(repo) : RootsAre(root)

AcceptsV1ToV7(repo) ==
  /\ version \in 1..7
  /\ version = 1 => \A t \in Tasks : tasks[t].status # "RUNNING"
  /\ \E root \in Binding(repo) : RootsAre(root)
  /\ ExecutionRowsValid

\* Rows from before the column are given generation 1; those of dispatch_runs
\* and task_events get it as the default of the new column.
MigrateFromV1ToV7(repo) ==
  /\ AcceptsV1ToV7(repo)
  /\ bound' \in Binding(repo)
  /\ tasks' = [t \in Tasks |-> IF t \in Inserted /\ tasks[t].gen = None
                               THEN [tasks[t] EXCEPT !.gen = 1]
                               ELSE tasks[t]]
  /\ UNCHANGED runs
  /\ ReinstallTriggers

\* The receipt tables a release from V8 on is expected to have.
ReceiptsOf(v) ==
  {table \in ReceiptTables :
     \/ table = "evaluation" /\ v >= 9
     \/ table = "acceptance" /\ v >= 10
     \/ table = "delegation" /\ v >= 11}

\* Faulty: the receipt tables are validated before they are created.
AcceptsV8ToV11Early(repo) ==
  /\ version \in 8..11
  /\ \E root \in Binding(repo) : RootsAre(root)
  /\ GenerationRowsValid
  /\ receipts = ReceiptTables

\* Each release's own receipt tables are validated, the later ones created.
AcceptsV8ToV11(repo) ==
  /\ version \in 8..11
  /\ \E root \in Binding(repo) : RootsAre(root)
  /\ GenerationRowsValid
  /\ ReceiptsOf(version) \subseteq receipts

MigrateFromV8ToV11(repo) ==
  /\ AcceptsV8ToV11(repo)
  /\ bound' \in Binding(repo)
  /\ UNCHANGED <<tasks, runs>>
  /\ ReinstallTriggers

OpenCurrent(repo) ==
  /\ version = SCHEMA_VERSION
  /\ \E root \in Binding(repo) : bound' = root /\ RootsAre(root)
  /\ GenerationRowsValid
  /\ receipts = ReceiptTables
  /\ UNCHANGED <<tasks, runs, fence>>

\* Store.open, with the repository or without.  All of it is one IMMEDIATE
\* transaction, so a refused open leaves the file as it was.
Open(p, repo) ==
  /\ p \in New \ open
  /\ \/ CreateSchema(repo)
     \/ MigrateFromV1ToV7(repo)
     \/ MigrateFromV8ToV11(repo)
     \/ OpenCurrent(repo)
  /\ version' = SCHEMA_VERSION
  /\ guarded' = TRUE
  /\ receipts' = ReceiptTables
  /\ open' = open \cup {p}
  /\ UNCHANGED <<release, intent>>

\* Store.bindRepository
BindRepository(p) ==
  /\ p \in New \cap open
  /\ \E root \in Binding(Home[p]) : bound' = root
  /\ UNCHANGED <<release, version, tasks, runs, intent, fence, guarded,
                 receipts, open>>

\* An older release opens only its own schema, or makes it.  V1 does not bind.
OpenOld(p) ==
  /\ p \in Old \ open
  /\ version \in {0, release}
  /\ version' = release
  /\ IF release < 3 THEN UNCHANGED bound
                    ELSE bound \in {None, Home[p]} /\ bound' = Home[p]
  /\ fence' = FenceOf(release)
  /\ guarded' = (release >= 5)
  /\ receipts' = ReceiptsOf(release)
  /\ open' = open \cup {p}
  /\ UNCHANGED <<release, tasks, runs, intent>>

Close(p) ==
  /\ p \in open
  /\ open' = open \ {p}
  /\ UNCHANGED <<release, version, bound, tasks, runs, intent, fence, guarded,
                 receipts>>

-----------------------------------------------------------------------------

Init ==
  /\ release \in Releases
  /\ version = 0
  /\ bound = None
  /\ tasks = [t \in Tasks |-> NoTask]
  /\ runs = [r \in Runs |-> NoRun]
  /\ intent = None
  /\ fence = [table \in Tables |-> 0]
  /\ guarded = FALSE
  /\ receipts = {}
  /\ open = {}

Next ==
  \E p \in Processes :
    \/ \E t \in Tasks :
         \/ CreateTask(p, t)
         \/ ClaimTask(p, t)
         \/ ReportBlocked(p, t)
         \/ ResumeTask(p, t)
         \/ RecoverTask(p, t)
         \/ PrepareCheckpoint(p, t)
         \/ FinishCheckpoint(p, t)
    \/ \E r \in Runs :
         \/ \E t \in Tasks : InsertRun(p, r, t)
         \/ FailRun(p, r)
    \/ \E repo \in {Home[p], None} : Open(p, repo)
    \/ BindRepository(p)
    \/ OpenOld(p)
    \/ Close(p)

Spec == Init /\ [][Next]_vars

-----------------------------------------------------------------------------
(* Properties *)

TypeOK ==
  /\ release \in Releases
  /\ version \in {0, release, SCHEMA_VERSION}
  /\ bound \in Roots \cup {None}
  /\ tasks \in [Tasks -> TaskRow]
  /\ runs \in [Runs -> RunRow]
  /\ intent \in [by : Processes, task : Tasks] \cup {None}
  /\ fence \in [Tables -> 0..WRITER_PROTOCOL_GENERATION]
  /\ guarded \in BOOLEAN
  /\ receipts \subseteq ReceiptTables
  /\ open \subseteq Processes

\* Whatever the old release left in the file and wrote while it was opened,
\* once a process of this release has opened it every row is one that a
\* current writer may change (it has a generation, its root is the bound one,
\* it has an owner exactly while RUNNING), all triggers ask for the current
\* step and all tables are there: no task is left that nobody can move.
MigratedIsWhole ==
  version = SCHEMA_VERSION =>
    /\ fence = FenceOf(SCHEMA_VERSION)
    /\ guarded
    /\ receipts = ReceiptTables
    /\ GenerationRowsValid
    /\ ExecutionRowsValid
    /\ RootsAre(bound)

\* The row was not written, or inserted or updated with the current step.
WrittenByCurrent(gen, new, absent) ==
  new = IF absent THEN WRITER_PROTOCOL_GENERATION
                  ELSE gen + WRITER_PROTOCOL_GENERATION

\* After the migration no writer of an older release changes a task or a run,
\* however long its connection has been open: each change moves the generation
\* by the current step.
OldWritersAreFenced ==
  [][version = SCHEMA_VERSION =>
       /\ \A t \in Tasks :
            tasks'[t] # tasks[t] =>
              WrittenByCurrent(tasks[t].gen, tasks'[t].gen, t \notin Inserted)
       /\ \A r \in Runs :
            runs'[r] # runs[r] =>
              WrittenByCurrent(runs[r].gen, runs'[r].gen, r \notin Started)
    ]_vars

\* A ledger belongs to one repository for good: no open, migration or late
\* binding, by any process, moves it to another.
BindingStays == [][bound # None => bound' = bound]_vars

\* What an older release wrote in one repository can be opened there: only a
\* task that runs under V1, which records no owner, has to be stopped before.
\* (Past what a migration accepts, Open only assigns.)
UpgradeIsOpen ==
  \A p \in New \ open :
    /\ version \in 1..(SCHEMA_VERSION - 1)
    /\ bound \in {None, Home[p]}
    /\ RootsAre(Home[p])
    /\ version = 1 => \A t \in Tasks : tasks[t].status # "RUNNING"
    => AcceptsV1ToV7(Home[p]) \/ AcceptsV8ToV11(Home[p])

=============================================================================
