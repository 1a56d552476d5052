-------------------------- MODULE MigrationProofs --------------------------
(* Proofs about Migration: for any older release, tasks, runs, processes and
   repositories, a migrated file is whole, writers of the older release are
   refused, and the file never changes its repository.                    *)
EXTENDS Migration, TLAPS

-----------------------------------------------------------------------------
(* Steps of the generation *)

LEMMA Steps ==
  /\ \A v \in 1..SCHEMA_VERSION, table \in Tables :
       Step(v, table) \in 0..WRITER_PROTOCOL_GENERATION
  /\ \A table \in Tables : FenceOf(SCHEMA_VERSION)[table] = WRITER_PROTOCOL_GENERATION
  /\ \A v \in 1..SCHEMA_VERSION : FenceOf(v) \in [Tables -> 0..WRITER_PROTOCOL_GENERATION]
BY DEF Step, FenceOf, SCHEMA_VERSION, WRITER_PROTOCOL_GENERATION, Tables

LEMMA Spoken ==
  ASSUME TypeOK, NEW p \in Processes
  PROVE  Speaks(p) \in 1..SCHEMA_VERSION
BY MigrationAssumption DEF TypeOK, Speaks, SCHEMA_VERSION

LEMMA InsertedGens ==
  ASSUME TypeOK, NEW p \in Processes, NEW table \in Tables
  PROVE  /\ InsertedGen(p, table) \in Generations
         /\ table # "tasks" => InsertedGen(p, table) # None
<1>1. Step(Speaks(p), table) \in 0..WRITER_PROTOCOL_GENERATION
  BY Steps, Spoken
<1>2. 1 \in 0..MaxGeneration /\ 0..WRITER_PROTOCOL_GENERATION \subseteq 0..MaxGeneration
  BY MigrationAssumption DEF WRITER_PROTOCOL_GENERATION
<1>3. \A n \in 0..MaxGeneration : n # None
  BY MigrationAssumption
<1> QED BY <1>1, <1>2, <1>3 DEF InsertedGen, Generations

\* Where triggers ask for the current step, a write they admit takes it.
LEMMA Admitted ==
  ASSUME TypeOK, fence = FenceOf(SCHEMA_VERSION), NEW p \in Processes, NEW table \in Tables,
         NEW gen \in Generations
  PROVE  /\ InsertPasses(p, table) => InsertedGen(p, table) = WRITER_PROTOCOL_GENERATION
         /\ UpdatePasses(p, table, gen) =>
              /\ UpdatedGen(p, table, gen) # None
              /\ UpdatedGen(p, table, gen) = gen + WRITER_PROTOCOL_GENERATION
<1>1. fence[table] = WRITER_PROTOCOL_GENERATION /\ fence[table] # 0
  BY Steps DEF WRITER_PROTOCOL_GENERATION
<1>2. gen = None => UpdatedGen(p, table, gen) = None
  BY DEF UpdatedGen
<1> QED BY <1>1, <1>2 DEF InsertPasses, UpdatePasses

-----------------------------------------------------------------------------
(* Types *)

LEMMA TypeInit == Init => TypeOK
<1> SUFFICES ASSUME Init PROVE TypeOK
  OBVIOUS
<1>1. NoTask \in TaskRow /\ NoRun \in RunRow
  BY DEF NoTask, NoRun, TaskRow, RunRow, Generations
<1>2. tasks \in [Tasks -> TaskRow] /\ runs \in [Runs -> RunRow]
  BY <1>1 DEF Init
<1>3. fence \in [Tables -> 0..WRITER_PROTOCOL_GENERATION]
  BY DEF Init, WRITER_PROTOCOL_GENERATION
<1> QED BY <1>2, <1>3 DEF Init, TypeOK

\* What a write may make of a task.
LEMMA WrittenTask ==
  ASSUME TypeOK, NEW p \in Processes, NEW t \in Tasks,
         NEW status \in {"READY", "RUNNING", "BLOCKED"},
         NEW owner \in Processes \cup {None}, WriteTask(p, t, status, owner)
  PROVE  tasks' \in [Tasks -> TaskRow]
BY DEF WriteTask, TypeOK, TaskRow

LEMMA BindingType ==
  ASSUME TypeOK, NEW repo \in Roots \cup {None}, NEW root \in Binding(repo)
  PROVE  root \in Roots /\ (bound # None => root = bound) /\ (bound = None => RootsAre(root))
BY DEF Binding, TypeOK, RootsAre

\* An open binds the file to one root, if it is not refused.
LEMMA OneBinding ==
  ASSUME NEW repo, NEW root \in Binding(repo), NEW other \in Binding(repo)
  PROVE  root = other
BY DEF Binding

LEMMA TypeNext == TypeOK /\ [Next]_vars => TypeOK'
<1> SUFFICES ASSUME TypeOK, [Next]_vars PROVE TypeOK'
  OBVIOUS
<1>0. CASE UNCHANGED vars
  BY <1>0 DEF vars, TypeOK
<1>1. ASSUME NEW p \in Processes, NEW t \in Tasks, CreateTask(p, t) PROVE TypeOK'
  <2>1. [status |-> "READY", owner |-> None, root |-> Home[p],
         gen |-> InsertedGen(p, "tasks")] \in TaskRow
    BY InsertedGens DEF TaskRow, Tables, Roots
  <2> QED BY <1>1, <2>1 DEF CreateTask, TypeOK
<1>2. ASSUME NEW p \in Processes, NEW t \in Tasks, ClaimTask(p, t) PROVE TypeOK'
  <2>1. tasks' \in [Tasks -> TaskRow]
    BY <1>2, WrittenTask DEF ClaimTask, OwnerOf
  <2> QED BY <1>2, <2>1 DEF ClaimTask, TypeOK
<1>3. ASSUME NEW p \in Processes, NEW t \in Tasks, ReportBlocked(p, t) PROVE TypeOK'
  <2>1. tasks' \in [Tasks -> TaskRow]
    BY <1>3, WrittenTask DEF ReportBlocked
  <2> QED BY <1>3, <2>1 DEF ReportBlocked, TypeOK
<1>4. ASSUME NEW p \in Processes, NEW t \in Tasks, ResumeTask(p, t) PROVE TypeOK'
  <2>1. tasks' \in [Tasks -> TaskRow]
    BY <1>4, WrittenTask DEF ResumeTask
  <2> QED BY <1>4, <2>1 DEF ResumeTask, TypeOK
<1>5. ASSUME NEW p \in Processes, NEW t \in Tasks, RecoverTask(p, t) PROVE TypeOK'
  <2>1. tasks' \in [Tasks -> TaskRow]
    BY <1>5, WrittenTask DEF RecoverTask
  <2>2. runs' \in [Runs -> RunRow]
    BY <1>5 DEF RecoverTask, TypeOK, RunRow
  <2> QED BY <1>5, <2>1, <2>2 DEF RecoverTask, TypeOK
<1>6. ASSUME NEW p \in Processes, NEW r \in Runs, NEW t \in Tasks, InsertRun(p, r, t)
      PROVE  TypeOK'
  <2>1. [status |-> "launching", task |-> t, gen |-> InsertedGen(p, "dispatch_runs")]
          \in RunRow
    BY InsertedGens DEF RunRow, Tables
  <2> QED BY <1>6, <2>1 DEF InsertRun, TypeOK
<1>7. ASSUME NEW p \in Processes, NEW r \in Runs, FailRun(p, r) PROVE TypeOK'
  BY <1>7 DEF FailRun, TypeOK, RunRow
<1>8. ASSUME NEW p \in Processes, NEW t \in Tasks, PrepareCheckpoint(p, t) PROVE TypeOK'
  BY <1>8 DEF PrepareCheckpoint, TypeOK
<1>9. ASSUME NEW p \in Processes, NEW t \in Tasks, FinishCheckpoint(p, t) PROVE TypeOK'
  BY <1>9 DEF FinishCheckpoint, TypeOK, TaskRow
<1>10. ASSUME NEW p \in Processes, NEW repo \in {Home[p], None}, Open(p, repo) PROVE TypeOK'
  <2>0. repo \in Roots \cup {None} /\ SCHEMA_VERSION \in 1..SCHEMA_VERSION
    BY DEF Roots, SCHEMA_VERSION
  <2>1. bound' \in Roots \cup {None}
    BY <1>10, <2>0, BindingType
      DEF Open, CreateSchema, MigrateFromV1ToV7, MigrateFromV8ToV11, OpenCurrent
  <2>2. fence' \in [Tables -> 0..WRITER_PROTOCOL_GENERATION]
    BY <1>10, <2>0, Steps
      DEF Open, CreateSchema, MigrateFromV1ToV7, MigrateFromV8ToV11, OpenCurrent,
          ReinstallTriggers, TypeOK
  <2>3. tasks' \in [Tasks -> TaskRow] /\ runs' = runs
    <3>1. 1 \in Generations
      BY MigrationAssumption DEF Generations, WRITER_PROTOCOL_GENERATION
    <3> QED BY <1>10, <3>1
        DEF Open, CreateSchema, MigrateFromV1ToV7, MigrateFromV8ToV11, OpenCurrent, TypeOK,
            TaskRow
  <2> QED BY <1>10, <2>1, <2>2, <2>3 DEF Open, TypeOK
<1>11. ASSUME NEW p \in Processes, BindRepository(p) PROVE TypeOK'
  <2>1. Home[p] \in Roots \cup {None}
    BY DEF Roots
  <2> QED BY <1>11, <2>1, BindingType DEF BindRepository, TypeOK
<1>12. ASSUME NEW p \in Processes, OpenOld(p) PROVE TypeOK'
  <2>1. release \in 1..SCHEMA_VERSION
    BY MigrationAssumption DEF TypeOK, SCHEMA_VERSION
  <2> QED BY <1>12, <2>1, Steps DEF OpenOld, TypeOK, Roots, ReceiptsOf
<1>13. ASSUME NEW p \in Processes, Close(p) PROVE TypeOK'
  BY <1>13 DEF Close, TypeOK
<1> QED BY <1>0, <1>1, <1>2, <1>3, <1>4, <1>5, <1>6, <1>7, <1>8, <1>9, <1>10, <1>11, <1>12,
           <1>13 DEF Next

\* The rows and the metadata are what the schemas of both releases admit.
THEOREM TypeCorrect == Spec => []TypeOK
BY TypeInit, TypeNext, PTL DEF Spec

-----------------------------------------------------------------------------
(* The invariant: what holds before the file is migrated as well *)

IInv ==
  /\ TypeOK
  /\ MigratedIsWhole
  /\ version = 0 => open = {} /\ bound = None /\ tasks = [t \in Tasks |-> NoTask]
  /\ version = release => guarded = (release >= 5)
  /\ guarded => ExecutionRowsValid
  /\ intent # None => intent.task \in Inserted

LEMMA Older == TypeOK => release # SCHEMA_VERSION /\ release # 0
BY MigrationAssumption DEF TypeOK, SCHEMA_VERSION

LEMMA IInvInit == Init => IInv
<1> SUFFICES ASSUME Init PROVE IInv
  OBVIOUS
<1>1. TypeOK
  BY TypeInit
<1> QED BY <1>1, Older DEF Init, IInv, MigratedIsWhole, SCHEMA_VERSION

\* What a write by a process that has the file open does to the rest: nothing
\* but the row changes, and in a migrated file the row takes the current step.
LEMMA WriteKeeps ==
  ASSUME IInv, NEW p \in Processes, NEW t \in Tasks,
         NEW status \in {"READY", "RUNNING", "BLOCKED"},
         NEW owner \in Processes \cup {None}, WriteTask(p, t, status, owner),
         tasks[t].status # "ABSENT",
         UNCHANGED <<release, version, bound, intent, fence, guarded, receipts, open>>, TypeOK'
  PROVE  /\ IInv'
         /\ version = SCHEMA_VERSION =>
              \A u \in Tasks : tasks'[u] # tasks[u] =>
                u \in Inserted /\ tasks'[u].gen = tasks[u].gen + WRITER_PROTOCOL_GENERATION
<1> DEFINE row == [tasks[t] EXCEPT !.status = status, !.owner = owner,
                                   !.gen = UpdatedGen(p, "tasks", tasks[t].gen)]
<1>1. tasks' = [tasks EXCEPT ![t] = row] /\ GuardsPass(row)
      /\ UpdatePasses(p, "tasks", tasks[t].gen) /\ p \in open
  BY DEF WriteTask
<1>2. version # 0
  BY <1>1 DEF IInv
<1>3. row.status = status /\ row.owner = owner /\ row.root = tasks[t].root
      /\ row.gen = UpdatedGen(p, "tasks", tasks[t].gen)
  BY DEF IInv, TypeOK, TaskRow
<1>4. \A u \in Tasks : tasks'[u] = IF u = t THEN row ELSE tasks[u]
  BY <1>1 DEF IInv, TypeOK
<1>5. guarded => (status = "RUNNING" <=> owner # None) /\ row.root = bound
  BY <1>1, <1>3 DEF GuardsPass
<1>6. guarded' => ExecutionRowsValid'
  BY <1>3, <1>4, <1>5 DEF IInv, ExecutionRowsValid
<1>7. Inserted' = Inserted /\ t \in Inserted /\ Inserted \subseteq Tasks
  BY <1>3, <1>4 DEF Inserted
<1>8. version = SCHEMA_VERSION =>
        row.gen # None /\ row.gen = tasks[t].gen + WRITER_PROTOCOL_GENERATION
  <2>1. tasks[t].gen \in Generations /\ "tasks" \in Tables
    BY DEF IInv, TypeOK, TaskRow, Tables
  <2> QED BY <1>1, <1>3, <2>1, Admitted DEF IInv, MigratedIsWhole
<1>9. MigratedIsWhole'
  <2> SUFFICES ASSUME version = SCHEMA_VERSION PROVE MigratedIsWhole'
    BY DEF MigratedIsWhole
  <2>1. GenerationRowsValid'
    BY <1>4, <1>7, <1>8 DEF IInv, MigratedIsWhole, GenerationRowsValid
  <2>2. RootsAre(bound)'
    BY <1>3, <1>4, <1>7 DEF IInv, MigratedIsWhole, RootsAre
  <2> QED BY <1>6, <2>1, <2>2 DEF IInv, MigratedIsWhole
<1> QED BY <1>2, <1>4, <1>6, <1>7, <1>8, <1>9 DEF IInv

\* No step but the ones that open the file touches a migrated one's schema.
Fenced ==
  version = SCHEMA_VERSION =>
    /\ \A t \in Tasks :
         tasks'[t] # tasks[t] =>
           WrittenByCurrent(tasks[t].gen, tasks'[t].gen, t \notin Inserted)
    /\ \A r \in Runs :
         runs'[r] # runs[r] =>
           WrittenByCurrent(runs[r].gen, runs'[r].gen, r \notin Started)

\* A step that leaves the tasks and the schema alone keeps the invariant.
LEMMA RunsKeep ==
  ASSUME IInv, TypeOK', UNCHANGED <<release, version, bound, tasks, fence, guarded, receipts>>,
         open' \subseteq open, intent' # None => intent'.task \in Inserted
  PROVE  IInv'
BY DEF IInv, MigratedIsWhole, GenerationRowsValid, ExecutionRowsValid, RootsAre, Inserted

LEMMA Updates ==
  ASSUME IInv, version = SCHEMA_VERSION, NEW p \in Processes, NEW r \in Runs,
         UpdatePasses(p, "dispatch_runs", runs[r].gen)
  PROVE  UpdatedGen(p, "dispatch_runs", runs[r].gen) = runs[r].gen + WRITER_PROTOCOL_GENERATION
<1>1. runs[r].gen \in Generations /\ "dispatch_runs" \in Tables
  BY DEF IInv, TypeOK, RunRow, Tables
<1> QED BY <1>1, Admitted DEF IInv, MigratedIsWhole

LEMMA OpenKeeps ==
  ASSUME IInv, TypeOK', NEW p \in Processes, NEW repo \in Roots \cup {None}, Open(p, repo)
  PROVE  /\ IInv'
         /\ version = SCHEMA_VERSION => UNCHANGED <<tasks, runs>>
         /\ bound # None => bound' = bound
<1> USE DEF IInv
<1>0. version' = SCHEMA_VERSION /\ guarded' /\ receipts' = ReceiptTables /\ release' = release
      /\ intent' = intent /\ release # SCHEMA_VERSION /\ SCHEMA_VERSION # 0
  BY Older DEF Open, SCHEMA_VERSION
<1> SUFFICES /\ fence' = FenceOf(SCHEMA_VERSION)
             /\ GenerationRowsValid' /\ ExecutionRowsValid' /\ RootsAre(bound)'
             /\ Inserted' = Inserted
             /\ version = SCHEMA_VERSION => UNCHANGED <<tasks, runs>>
             /\ bound # None => bound' = bound
  BY <1>0 DEF MigratedIsWhole
<1>1. CASE CreateSchema(repo)
  <2>1. \A t \in Tasks : tasks'[t] = NoTask
    BY <1>1 DEF CreateSchema
  <2>2. Inserted' = {} /\ Inserted = {} /\ ExecutionRowsValid'
    BY <1>1, <2>1 DEF CreateSchema, Inserted, ExecutionRowsValid, NoTask
  <2> QED BY <1>1, <2>2
      DEF CreateSchema, ReinstallTriggers, GenerationRowsValid, RootsAre, SCHEMA_VERSION
<1>2. CASE MigrateFromV1ToV7(repo)
  <2>1. PICK root \in Binding(repo) : bound' = root /\ RootsAre(root)
    BY <1>2, OneBinding DEF MigrateFromV1ToV7, AcceptsV1ToV7
  <2>2. \A t \in Tasks : /\ tasks'[t].status = tasks[t].status
                         /\ tasks'[t].owner = tasks[t].owner
                         /\ tasks'[t].root = tasks[t].root
                         /\ t \in Inserted => tasks'[t].gen # None
    <3>1. 1 # None
      BY MigrationAssumption
    <3> QED BY <1>2, <3>1 DEF MigrateFromV1ToV7, TypeOK, TaskRow
  <2>3. Inserted' = Inserted
    BY <2>2 DEF Inserted
  <2>4. ExecutionRowsValid'
    BY <1>2, <2>2 DEF MigrateFromV1ToV7, AcceptsV1ToV7, ExecutionRowsValid
  <2>5. RootsAre(bound)' /\ GenerationRowsValid'
    BY <2>1, <2>2, <2>3 DEF RootsAre, GenerationRowsValid, Inserted
  <2> QED BY <1>2, <2>1, <2>3, <2>4, <2>5, BindingType
      DEF MigrateFromV1ToV7, AcceptsV1ToV7, ReinstallTriggers, SCHEMA_VERSION
<1>3. CASE MigrateFromV8ToV11(repo)
  <2>1. PICK root \in Binding(repo) : bound' = root /\ RootsAre(root)
    BY <1>3, OneBinding DEF MigrateFromV8ToV11, AcceptsV8ToV11
  <2>2. tasks' = tasks /\ runs' = runs /\ Inserted' = Inserted
    BY <1>3 DEF MigrateFromV8ToV11, Inserted
  <2>3. guarded
    BY <1>3, MigrationAssumption DEF MigrateFromV8ToV11, AcceptsV8ToV11, TypeOK, SCHEMA_VERSION
  <2> QED BY <1>3, <2>1, <2>2, <2>3, BindingType
      DEF MigrateFromV8ToV11, AcceptsV8ToV11, ReinstallTriggers, RootsAre, GenerationRowsValid,
          ExecutionRowsValid, SCHEMA_VERSION
<1>4. CASE OpenCurrent(repo)
  <2>1. PICK root \in Binding(repo) : bound' = root /\ RootsAre(root)
    BY <1>4 DEF OpenCurrent
  <2>2. tasks' = tasks /\ runs' = runs /\ Inserted' = Inserted /\ fence' = fence
    BY <1>4 DEF OpenCurrent, Inserted
  <2> QED BY <1>4, <2>1, <2>2, BindingType
      DEF OpenCurrent, MigratedIsWhole, RootsAre, GenerationRowsValid, ExecutionRowsValid
<1> QED BY <1>1, <1>2, <1>3, <1>4 DEF Open

\* One step keeps the invariant, the fence and the binding.
LEMMA IInvNext ==
  IInv /\ [Next]_vars => IInv' /\ Fenced /\ (bound # None => bound' = bound)
<1> SUFFICES ASSUME IInv, [Next]_vars
             PROVE  IInv' /\ Fenced /\ (bound # None => bound' = bound)
  OBVIOUS
<1>t. TypeOK /\ TypeOK'
  BY TypeNext DEF IInv
<1>0. CASE UNCHANGED vars
  BY <1>0, <1>t, RunsKeep DEF vars, Fenced, IInv
<1>1. ASSUME NEW p \in Processes, NEW t \in Tasks, CreateTask(p, t)
      PROVE  IInv' /\ Fenced /\ bound' = bound
  <2> DEFINE row == [status |-> "READY", owner |-> None, root |-> Home[p],
                     gen |-> InsertedGen(p, "tasks")]
  <2>1. tasks' = [tasks EXCEPT ![t] = row] /\ t \notin Inserted /\ GuardsPass(row)
        /\ InsertPasses(p, "tasks") /\ p \in open
        /\ UNCHANGED <<release, version, bound, runs, intent, fence, guarded, receipts, open>>
    BY <1>1 DEF CreateTask, Inserted
  <2>2. \A u \in Tasks : tasks'[u] = IF u = t THEN row ELSE tasks[u]
    BY <2>1 DEF IInv, TypeOK
  <2>3. version # 0 /\ Inserted' = Inserted \cup {t}
    BY <2>1, <2>2 DEF IInv, Inserted
  <2>4. guarded => row.root = bound
    BY <2>1 DEF GuardsPass
  <2>5. guarded' => ExecutionRowsValid'
    BY <2>1, <2>2 DEF IInv, ExecutionRowsValid
  <2>6. version = SCHEMA_VERSION =>
          InsertedGen(p, "tasks") = WRITER_PROTOCOL_GENERATION
          /\ InsertedGen(p, "tasks") # None
    <3>1. "tasks" \in Tables /\ 0 \in Generations /\ WRITER_PROTOCOL_GENERATION # None
      BY MigrationAssumption DEF Tables, Generations, WRITER_PROTOCOL_GENERATION
    <3> QED BY <2>1, <3>1, Admitted DEF IInv, MigratedIsWhole
  <2>7. MigratedIsWhole'
    BY <2>1, <2>2, <2>3, <2>4, <2>5, <2>6
      DEF IInv, MigratedIsWhole, GenerationRowsValid, RootsAre
  <2>8. Fenced
    BY <2>1, <2>2, <2>6 DEF Fenced, WrittenByCurrent
  <2> QED BY <1>t, <2>1, <2>3, <2>5, <2>7, <2>8 DEF IInv
<1>2. ASSUME NEW p \in Processes, NEW t \in Tasks, ClaimTask(p, t)
      PROVE  IInv' /\ Fenced /\ bound' = bound
  BY <1>2, <1>t, WriteKeeps DEF ClaimTask, OwnerOf, Fenced, WrittenByCurrent
<1>3. ASSUME NEW p \in Processes, NEW t \in Tasks, ReportBlocked(p, t)
      PROVE  IInv' /\ Fenced /\ bound' = bound
  BY <1>3, <1>t, WriteKeeps DEF ReportBlocked, Fenced, WrittenByCurrent
<1>4. ASSUME NEW p \in Processes, NEW t \in Tasks, ResumeTask(p, t)
      PROVE  IInv' /\ Fenced /\ bound' = bound
  BY <1>4, <1>t, WriteKeeps DEF ResumeTask, Fenced, WrittenByCurrent
<1>5. ASSUME NEW p \in Processes, NEW t \in Tasks, RecoverTask(p, t)
      PROVE  IInv' /\ Fenced /\ bound' = bound
  <2>1. UNCHANGED <<release, version, bound, intent, fence, guarded, receipts, open>>
        /\ WriteTask(p, t, "BLOCKED", None) /\ tasks[t].status # "ABSENT"
    BY <1>5 DEF RecoverTask
  <2>2. /\ IInv'
        /\ version = SCHEMA_VERSION =>
             \A u \in Tasks : tasks'[u] # tasks[u] =>
               u \in Inserted /\ tasks'[u].gen = tasks[u].gen + WRITER_PROTOCOL_GENERATION
    BY <2>1, <1>t, WriteKeeps
  <2>3. ASSUME version = SCHEMA_VERSION, NEW r \in Runs, runs'[r] # runs[r]
        PROVE  WrittenByCurrent(runs[r].gen, runs'[r].gen, r \notin Started)
    <3>1. r \in ActiveRunsOf(t) /\ runs'[r].gen = UpdatedGen(p, "dispatch_runs", runs[r].gen)
      BY <1>5, <2>3 DEF RecoverTask, IInv, TypeOK, RunRow
    <3>2. r \in Started /\ UpdatePasses(p, "dispatch_runs", runs[r].gen)
      BY <1>5, <3>1 DEF RecoverTask, ActiveRunsOf, Started
    <3> QED BY <2>3, <3>1, <3>2, Updates DEF WrittenByCurrent
  <2> QED BY <2>1, <2>2, <2>3 DEF Fenced, WrittenByCurrent
<1>6. ASSUME NEW p \in Processes, NEW r \in Runs, NEW t \in Tasks, InsertRun(p, r, t)
      PROVE  IInv' /\ Fenced /\ bound' = bound
  <2>1. IInv'
    BY <1>6, <1>t, RunsKeep DEF InsertRun, IInv
  <2>2. \A q \in Runs : runs'[q] # runs[q] =>
          q = r /\ q \notin Started /\ runs'[q].gen = InsertedGen(p, "dispatch_runs")
    BY <1>6 DEF InsertRun, IInv, TypeOK, Started
  <2>3. version = SCHEMA_VERSION =>
          InsertedGen(p, "dispatch_runs") = WRITER_PROTOCOL_GENERATION
    <3>1. "dispatch_runs" \in Tables /\ 0 \in Generations
      BY MigrationAssumption DEF Tables, Generations
    <3> QED BY <1>6, <3>1, Admitted DEF InsertRun, IInv, MigratedIsWhole
  <2> QED BY <1>6, <2>1, <2>2, <2>3 DEF InsertRun, Fenced, WrittenByCurrent
<1>7. ASSUME NEW p \in Processes, NEW r \in Runs, FailRun(p, r)
      PROVE  IInv' /\ Fenced /\ bound' = bound
  <2>1. IInv'
    BY <1>7, <1>t, RunsKeep DEF FailRun, IInv
  <2>2. \A q \in Runs : runs'[q] # runs[q] =>
          q = r /\ q \in Started
          /\ runs'[q].gen = UpdatedGen(p, "dispatch_runs", runs[r].gen)
    BY <1>7 DEF FailRun, IInv, TypeOK, RunRow, Started
  <2> QED BY <1>7, <2>1, <2>2, Updates DEF FailRun, Fenced, WrittenByCurrent
<1>8. ASSUME NEW p \in Processes, NEW t \in Tasks, PrepareCheckpoint(p, t)
      PROVE  IInv' /\ Fenced /\ bound' = bound
  <2>1. intent'.task = t /\ t \in Inserted
    BY <1>8 DEF PrepareCheckpoint, Inserted
  <2> QED BY <1>8, <2>1, <1>t, RunsKeep DEF PrepareCheckpoint, Fenced
<1>9. ASSUME NEW p \in Processes, NEW t \in Tasks, FinishCheckpoint(p, t)
      PROVE  IInv' /\ Fenced /\ bound' = bound
  <2> DEFINE gen == UpdatedGen(p, "tasks", tasks[t].gen)
  <2>1. UNCHANGED <<release, version, bound, runs, fence, guarded, receipts, open>>
        /\ p \in open /\ UpdatePasses(p, "tasks", tasks[t].gen) /\ intent' = None
        /\ t \in Inserted
    BY <1>9 DEF FinishCheckpoint, IInv
  <2>2. \A u \in Tasks : /\ tasks'[u].status = tasks[u].status
                         /\ tasks'[u].owner = tasks[u].owner
                         /\ tasks'[u].root = tasks[u].root
                         /\ tasks'[u].gen = IF u = t THEN gen ELSE tasks[u].gen
                         /\ tasks'[u] # tasks[u] => u = t
    BY <1>9 DEF FinishCheckpoint, IInv, TypeOK, TaskRow
  <2>3. version = SCHEMA_VERSION =>
          gen # None /\ gen = tasks[t].gen + WRITER_PROTOCOL_GENERATION
    <3>1. tasks[t].gen \in Generations /\ "tasks" \in Tables
      BY DEF IInv, TypeOK, TaskRow, Tables
    <3> QED BY <2>1, <3>1, Admitted DEF IInv, MigratedIsWhole
  <2>4. Inserted' = Inserted /\ Inserted \subseteq Tasks /\ version # 0 /\ t \in Tasks
    BY <2>1, <2>2 DEF Inserted, IInv
  <2>5. ExecutionRowsValid => ExecutionRowsValid'
    BY <2>2 DEF ExecutionRowsValid
  <2>6. version = SCHEMA_VERSION => GenerationRowsValid' /\ RootsAre(bound)'
    BY <2>1, <2>2, <2>3, <2>4 DEF IInv, MigratedIsWhole, GenerationRowsValid, RootsAre
  <2>7. MigratedIsWhole'
    BY <2>1, <2>5, <2>6 DEF IInv, MigratedIsWhole
  <2>8. Fenced
    BY <2>1, <2>2, <2>3 DEF Fenced, WrittenByCurrent
  <2> QED BY <1>t, <2>1, <2>4, <2>5, <2>7, <2>8 DEF IInv
<1>10. ASSUME NEW p \in Processes, NEW repo \in {Home[p], None}, Open(p, repo)
       PROVE  IInv' /\ Fenced /\ (bound # None => bound' = bound)
  <2>1. repo \in Roots \cup {None}
    BY DEF Roots
  <2> QED BY <1>10, <1>t, <2>1, OpenKeeps DEF Fenced
<1>11. ASSUME NEW p \in Processes, BindRepository(p)
       PROVE  IInv' /\ Fenced /\ (bound # None => bound' = bound)
  <2>1. PICK root \in Binding(Home[p]) : bound' = root
    BY <1>11 DEF BindRepository
  <2>2. (bound # None => bound' = bound) /\ (bound = None => RootsAre(bound'))
    BY <1>t, <2>1, BindingType DEF Roots
  <2>3. version # 0
    BY <1>11 DEF BindRepository, IInv
  <2> QED BY <1>11, <1>t, <2>2, <2>3
      DEF BindRepository, IInv, Fenced, MigratedIsWhole, RootsAre, GenerationRowsValid,
          ExecutionRowsValid, Inserted
<1>12. ASSUME NEW p \in Processes, OpenOld(p)
       PROVE  IInv' /\ Fenced /\ (bound # None => bound' = bound)
  <2>1. UNCHANGED <<release, tasks, runs>> /\ version' = release
        /\ guarded' = (release >= 5) /\ version \in {0, release}
    BY <1>12 DEF OpenOld
  <2>2. release # SCHEMA_VERSION /\ release # 0
    BY <1>t, Older
  <2>3. (guarded' => ExecutionRowsValid') /\ Inserted' = Inserted /\ intent' = intent
    BY <1>12, <2>1 DEF OpenOld, IInv, ExecutionRowsValid, NoTask, Inserted
  <2>4. bound # None => bound' = bound
    BY <1>12 DEF OpenOld
  <2> QED BY <1>t, <2>1, <2>2, <2>3, <2>4 DEF IInv, Fenced, MigratedIsWhole
<1>13. ASSUME NEW p \in Processes, Close(p) PROVE IInv' /\ Fenced /\ bound' = bound
  BY <1>13, <1>t, RunsKeep DEF Close, Fenced, IInv
<1> QED BY <1>0, <1>1, <1>2, <1>3, <1>4, <1>5, <1>6, <1>7, <1>8, <1>9, <1>10, <1>11, <1>12,
           <1>13 DEF Next

LEMMA Invariance == Spec => []IInv
BY IInvInit, IInvNext, PTL DEF Spec

-----------------------------------------------------------------------------

\* Whatever an older release left in the file, once a process of this release
\* has opened it every row is one a current writer may change.
THEOREM MigratedIsWholeHolds == Spec => []MigratedIsWhole
<1>1. IInv => MigratedIsWhole
  BY DEF IInv
<1> QED BY <1>1, Invariance, PTL

\* In a migrated file every change of a task or a run moves its generation by
\* the current step: no process of an older release writes one.
THEOREM OldWritersAreFencedHolds == Spec => OldWritersAreFenced
<1>1. IInv /\ [Next]_vars => [Fenced]_vars
  BY IInvNext
<1>2. Spec => [][Fenced]_vars
  BY <1>1, Invariance, PTL DEF Spec
<1> QED BY <1>2 DEF OldWritersAreFenced, Fenced

\* A ledger that is bound to a repository is never moved to another.
THEOREM BindingStaysHolds == Spec => BindingStays
<1>1. IInv /\ [Next]_vars => [bound # None => bound' = bound]_vars
  BY IInvNext
<1>2. Spec => [][bound # None => bound' = bound]_vars
  BY <1>1, Invariance, PTL DEF Spec
<1> QED BY <1>2 DEF BindingStays

-----------------------------------------------------------------------------
(* A file of the older release *)

\* Until a process of this release opens it only the older one has the file
\* open, and that keeps the rows in the shape the migrations expect: an owner
\* exactly while RUNNING (none at all in V1), and a generation once the column
\* is there.
OldIsReadable ==
  version = release =>
    /\ open \subseteq Old
    /\ release # 1 => ExecutionRowsValid
    /\ release = 1 => \A t \in Tasks : tasks[t].owner = None
    /\ release >= 8 => GenerationRowsValid
    /\ ReceiptsOf(release) \subseteq receipts

\* A step that leaves the tasks, the schema and the receipts alone, or only
\* closes connections.
LEMMA ReadableKept ==
  ASSUME OldIsReadable, UNCHANGED <<release, version, tasks, receipts>>, open' \subseteq open
  PROVE  OldIsReadable'
BY DEF OldIsReadable, ExecutionRowsValid, GenerationRowsValid, Inserted, ReceiptsOf

\* A write by a process of the older release: the owner is as it should be
\* under that release, and a generation stays one.
LEMMA WriteKeepsReadable ==
  ASSUME IInv, OldIsReadable, NEW p \in Processes, NEW t \in Tasks,
         NEW status \in {"READY", "RUNNING", "BLOCKED"},
         NEW owner \in Processes \cup {None}, WriteTask(p, t, status, owner),
         tasks[t].status # "ABSENT",
         version = release =>
           IF release = 1 THEN owner = None ELSE status = "RUNNING" <=> owner # None,
         UNCHANGED <<release, version, receipts, open>>
  PROVE  OldIsReadable'
<1> DEFINE row == [tasks[t] EXCEPT !.status = status, !.owner = owner,
                                   !.gen = UpdatedGen(p, "tasks", tasks[t].gen)]
<1>1. tasks' = [tasks EXCEPT ![t] = row]
  BY DEF WriteTask
<1>2. row.status = status /\ row.owner = owner
      /\ row.gen = UpdatedGen(p, "tasks", tasks[t].gen)
  BY DEF IInv, TypeOK, TaskRow
<1>3. \A u \in Tasks : tasks'[u] = IF u = t THEN row ELSE tasks[u]
  BY <1>1 DEF IInv, TypeOK
<1>4. Inserted' = Inserted /\ t \in Inserted
  BY <1>2, <1>3 DEF Inserted
<1>5. tasks[t].gen # None => row.gen # None
  <2>1. tasks[t].gen \in Generations /\ "tasks" \in Tables /\ Speaks(p) \in 1..SCHEMA_VERSION
    BY Spoken DEF IInv, TypeOK, TaskRow, Tables
  <2>2. Step(Speaks(p), "tasks") \in 0..WRITER_PROTOCOL_GENERATION
    BY <2>1, Steps
  <2>3. ASSUME tasks[t].gen # None PROVE tasks[t].gen + Step(Speaks(p), "tasks") \in Int
    BY <2>1, <2>2, <2>3 DEF Generations, WRITER_PROTOCOL_GENERATION
  <2> QED BY <1>2, <2>3, MigrationAssumption DEF UpdatedGen
<1>6. version = release /\ release # 1 => ExecutionRowsValid'
  BY <1>2, <1>3 DEF OldIsReadable, ExecutionRowsValid
<1>7. version = release /\ release = 1 => \A u \in Tasks : tasks'[u].owner = None
  BY <1>2, <1>3 DEF OldIsReadable
<1>8. GenerationRowsValid => GenerationRowsValid'
  BY <1>3, <1>4, <1>5 DEF GenerationRowsValid, Inserted
<1> QED BY <1>6, <1>7, <1>8 DEF OldIsReadable, ReceiptsOf

LEMMA ReadableInit == Init => OldIsReadable
<1> SUFFICES ASSUME Init PROVE OldIsReadable
  OBVIOUS
<1>1. version # release
  BY TypeInit, Older DEF Init
<1> QED BY <1>1 DEF OldIsReadable

LEMMA ReadableNext == IInv /\ OldIsReadable /\ [Next]_vars => OldIsReadable'
<1> SUFFICES ASSUME IInv, OldIsReadable, [Next]_vars PROVE OldIsReadable'
  OBVIOUS
<1>0. CASE UNCHANGED vars
  BY <1>0, ReadableKept DEF vars
<1>t. TypeOK
  BY DEF IInv
<1>o. \A p \in open : version = release => Speaks(p) = release /\ (OwnerOf(p) = None <=> release = 1)
  BY MigrationAssumption, <1>t DEF OldIsReadable, Speaks, OwnerOf, TypeOK, Processes
<1>1. ASSUME NEW p \in Processes, NEW t \in Tasks, CreateTask(p, t) PROVE OldIsReadable'
  <2> DEFINE row == [status |-> "READY", owner |-> None, root |-> Home[p],
                     gen |-> InsertedGen(p, "tasks")]
  <2>1. tasks' = [tasks EXCEPT ![t] = row] /\ p \in open
        /\ UNCHANGED <<release, version, receipts, open>>
    BY <1>1 DEF CreateTask
  <2>2. \A u \in Tasks : tasks'[u] = IF u = t THEN row ELSE tasks[u]
    BY <2>1, <1>t DEF TypeOK
  <2>3. version = release /\ release >= 8 => row.gen # None
    <3>1. version = release /\ release >= 8 => Step(Speaks(p), "tasks") = 3
      BY <2>1, <1>o, <1>t, MigrationAssumption DEF Step, TypeOK, SCHEMA_VERSION
    <3>2. 3 # None
      BY MigrationAssumption
    <3> QED BY <3>1, <3>2 DEF InsertedGen
  <2> QED BY <2>1, <2>2, <2>3
      DEF OldIsReadable, ExecutionRowsValid, GenerationRowsValid, Inserted, ReceiptsOf
<1>2. ASSUME NEW p \in Processes, NEW t \in Tasks, ClaimTask(p, t) PROVE OldIsReadable'
  <2>1. p \in open /\ WriteTask(p, t, "RUNNING", OwnerOf(p)) /\ tasks[t].status # "ABSENT"
        /\ UNCHANGED <<release, version, receipts, open>> /\ OwnerOf(p) \in Processes \cup {None}
    BY <1>2 DEF ClaimTask, WriteTask, OwnerOf
  <2> QED BY <2>1, <1>o, WriteKeepsReadable
<1>3. ASSUME NEW p \in Processes, NEW t \in Tasks, ReportBlocked(p, t) PROVE OldIsReadable'
  BY <1>3, WriteKeepsReadable DEF ReportBlocked
<1>4. ASSUME NEW p \in Processes, NEW t \in Tasks, ResumeTask(p, t) PROVE OldIsReadable'
  BY <1>4, WriteKeepsReadable DEF ResumeTask
<1>5. ASSUME NEW p \in Processes, NEW t \in Tasks, RecoverTask(p, t) PROVE OldIsReadable'
  BY <1>5, WriteKeepsReadable DEF RecoverTask
<1>6. ASSUME NEW p \in Processes, NEW r \in Runs, NEW t \in Tasks, InsertRun(p, r, t)
      PROVE  OldIsReadable'
  BY <1>6, ReadableKept DEF InsertRun
<1>7. ASSUME NEW p \in Processes, NEW r \in Runs, FailRun(p, r) PROVE OldIsReadable'
  BY <1>7, ReadableKept DEF FailRun
<1>8. ASSUME NEW p \in Processes, NEW t \in Tasks, PrepareCheckpoint(p, t) PROVE OldIsReadable'
  BY <1>8, ReadableKept DEF PrepareCheckpoint
<1>9. ASSUME NEW p \in Processes, NEW t \in Tasks, FinishCheckpoint(p, t) PROVE OldIsReadable'
  <2>1. UNCHANGED <<release, version, receipts, open>> /\ p \in open
        /\ Speaks(p) >= 8
    BY <1>9 DEF FinishCheckpoint
  <2>2. \A u \in Tasks : /\ tasks'[u].status = tasks[u].status
                         /\ tasks'[u].owner = tasks[u].owner
                         /\ tasks'[u].gen = IF u = t THEN UpdatedGen(p, "tasks", tasks[t].gen)
                                                     ELSE tasks[u].gen
    BY <1>9, <1>t DEF FinishCheckpoint, TypeOK, TaskRow
  <2>3. tasks[t].gen # None => UpdatedGen(p, "tasks", tasks[t].gen) # None
    <3>1. tasks[t].gen \in Generations /\ Step(Speaks(p), "tasks") \in 0..WRITER_PROTOCOL_GENERATION
      BY <1>t, Steps, Spoken DEF TypeOK, TaskRow, Tables
    <3>2. ASSUME tasks[t].gen # None PROVE tasks[t].gen + Step(Speaks(p), "tasks") \in Int
      BY <3>1, <3>2 DEF Generations, WRITER_PROTOCOL_GENERATION
    <3> QED BY <3>2, MigrationAssumption DEF UpdatedGen
  <2> QED BY <2>1, <2>2, <2>3
      DEF OldIsReadable, ExecutionRowsValid, GenerationRowsValid, Inserted, ReceiptsOf
<1>10. ASSUME NEW p \in Processes, NEW repo \in {Home[p], None}, Open(p, repo)
       PROVE  OldIsReadable'
  BY <1>10, <1>t, Older DEF Open, OldIsReadable
<1>11. ASSUME NEW p \in Processes, BindRepository(p) PROVE OldIsReadable'
  BY <1>11, ReadableKept DEF BindRepository
<1>12. ASSUME NEW p \in Processes, OpenOld(p) PROVE OldIsReadable'
  <2>1. UNCHANGED <<release, tasks>> /\ version' = release /\ version \in {0, release}
        /\ receipts' = ReceiptsOf(release) /\ open' = open \cup {p} /\ p \in Old
    BY <1>12 DEF OpenOld
  <2>2. CASE version = 0
    <3>1. open = {} /\ \A t \in Tasks : tasks[t] = NoTask
      BY <2>2 DEF IInv
    <3> QED BY <2>1, <3>1
        DEF OldIsReadable, ExecutionRowsValid, GenerationRowsValid, Inserted, ReceiptsOf, NoTask
  <2>3. CASE version = release
    BY <2>1, <2>3
      DEF OldIsReadable, ExecutionRowsValid, GenerationRowsValid, Inserted, ReceiptsOf
  <2> QED BY <2>1, <2>2, <2>3
<1>13. ASSUME NEW p \in Processes, Close(p) PROVE OldIsReadable'
  BY <1>13, ReadableKept DEF Close
<1> QED BY <1>0, <1>1, <1>2, <1>3, <1>4, <1>5, <1>6, <1>7, <1>8, <1>9, <1>10, <1>11, <1>12,
           <1>13 DEF Next

\* Whatever an older release wrote in one repository, a process of this release
\* that works there can open it, but for a task that runs under V1.
THEOREM UpgradeIsOpenHolds == Spec => []UpgradeIsOpen
<1>1. IInv /\ OldIsReadable => UpgradeIsOpen
  <2> SUFFICES ASSUME IInv, OldIsReadable, NEW p \in New \ open,
                      version \in 1..(SCHEMA_VERSION - 1), bound \in {None, Home[p]},
                      RootsAre(Home[p]),
                      version = 1 => \A t \in Tasks : tasks[t].status # "RUNNING"
               PROVE  AcceptsV1ToV7(Home[p]) \/ AcceptsV8ToV11(Home[p])
    BY DEF UpgradeIsOpen
  <2>1. version = release /\ release \in 1..11
    BY MigrationAssumption DEF IInv, TypeOK, SCHEMA_VERSION
  <2>2. Home[p] \in Binding(Home[p])
    <3>1. Home[p] # None
      BY MigrationAssumption DEF Roots, Processes
    <3> QED BY <3>1 DEF Binding, RootsAre
  <2>3. ExecutionRowsValid
    BY <2>1 DEF OldIsReadable, ExecutionRowsValid
  <2>4. CASE release \in 1..7
    BY <2>1, <2>2, <2>3, <2>4 DEF AcceptsV1ToV7
  <2>5. CASE release \in 8..11
    BY <2>1, <2>2, <2>5 DEF AcceptsV8ToV11, OldIsReadable
  <2> QED BY <2>1, <2>4, <2>5
<1>2. Spec => []OldIsReadable
  BY ReadableInit, ReadableNext, Invariance, PTL DEF Spec
<1> QED BY <1>1, <1>2, Invariance, PTL

=============================================================================
