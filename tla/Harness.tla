------------------------------ MODULE Harness ------------------------------
(* How the outcome of a delegated run is decided: the runner
   (src/orchestration/worker-runner.ts) starts a harness through one of the
   adapters (src/adapters/), reads the result the harness left, looks for
   itself at HEAD, at git status and at the ignored files of the worktree it
   was given, and only then reports.

   The steps of the runner are the commands it runs: between any two of them
   the worktree may change, by the harness while it lives, by one that its
   runner left behind when it crashed or was recovered, by people and by
   background processes ("others").  Files are paths with one of a few
   contents; one path holds the ignore rules, so a harness may hide and show
   other paths by writing it, and flags of the index tell git status not to
   look at a tracked file at all.  Claims, reports and recoveries are transactions
   of Ledger and are reduced here to the status of the dispatch row.       *)
EXTENDS Naturals

CONSTANTS
  Runs,          \* dispatch runs of IMPLEMENTATION tasks of one repository
  Paths,         \* files of the worktree
  Content,       \* what the file at a path may hold, None if it may be missing
  Rules,         \* the path of the ignore rules
  IgnoredUnder,  \* the paths ignored, by the content of Rules
  Under,         \* the paths a scope entry contains: itself and what is below
  AllowedScope,  \* the entries a run may change
  ForbiddenScope,
  AdaptersOf,    \* where the adapter of a run may take the result from
  Root,          \* the files at the first commit
  Present,       \* the files of the worktree, with those that are ignored
  Flagged,       \* the paths with an index flag, as in a sparse checkout
  MaxCommits,    \* bound on commits after it
  MaxWrites,     \* bound on writes to the worktree and to flags
  None           \* no file, no result, nobody

\* What may lie in a worktree or a commit.
Files == [Paths -> (UNION {Content[p] : p \in Paths}) \cup {None}]

Adapters == {"stdout", "run_dir", "last_message", "fixed"}

ASSUME HarnessAssumption ==
  /\ Rules \in Paths
  /\ None \notin Runs
  /\ "fixed" \notin Runs
  /\ IgnoredUnder \in [Content[Rules] -> SUBSET Paths]
  /\ Under \in [DOMAIN Under -> SUBSET Paths]
  /\ AllowedScope \in [Runs -> SUBSET DOMAIN Under]
  /\ ForbiddenScope \in [Runs -> SUBSET DOMAIN Under]
  /\ AdaptersOf \in [Runs -> SUBSET Adapters]
  /\ Root \in Files
  /\ Present \in Files
  /\ Flagged \subseteq Paths
  /\ MaxCommits \in Nat
  /\ MaxWrites \in Nat

VARIABLES
  tree,      \* the files of the worktree
  head,      \* the commit at HEAD
  commits,   \* the files of each commit made so far
  flags,     \* the paths with the index flag skip-worktree or assume-unchanged
  message,   \* what lies where results are read from
  run,       \* the dispatch row and the runner of each run
  writes     \* writes so far

vars == <<tree, head, commits, flags, message, run, writes>>

repo == <<head, commits, flags>>

files == <<tree, writes>>

-----------------------------------------------------------------------------
(* What Git answers *)

\* A path is ignored when the rules of the worktree say so; Git applies them
\* only to paths that are not in HEAD.  (Of the index only the flags are
\* modelled: git status lists a staged path in addition, never instead.)
InHead(p) == commits[head][p]

Untracked(p) == InHead(p) = None

Ignored(p) == Untracked(p) /\ p \in IgnoredUnder[tree[Rules]]

\* The tracked files that Git takes for unchanged without looking.
Unwatched == {p \in flags : ~Untracked(p)}

\* changedFilesFromRepo: git status -uall lists what differs from HEAD, except
\* what is ignored or flagged.
ChangedFiles ==
  {p \in Paths : tree[p] # InHead(p) /\ ~Ignored(p) /\ p \notin Unwatched}

\* ignoredFileSnapshot: the ignored files with their content.
IgnoredFiles == [p \in Paths |-> IF Ignored(p) THEN tree[p] ELSE None]

\* Faulty: looks for the files of the second listing only.
DifferingAfter(before, after) ==
  {p \in Paths : after[p] # None /\ before[p] # after[p]}

\* The paths whose entry is not the same in two such listings.
Differing(before, after) == {p \in Paths : before[p] # after[p]}

\* isPathAllowedByScope: a forbidden entry wins over an allowed one.
isAllowedFile(r, p) ==
  /\ \E entry \in AllowedScope[r] : p \in Under[entry]
  /\ ~\E entry \in ForbiddenScope[r] : p \in Under[entry]

-----------------------------------------------------------------------------
(* Results *)

\* A result as the schemas accept it, by the run that wrote it; the
\* worker may classify what blocked it.
Result == [by : Runs, outcome : {"completed", "blocked"}]

Garbage(r) == [by |-> r, outcome |-> "malformed"]

\* Where the result of run r is read from: the pipe of its own child, a file
\* of its own run directory, or the path a manifest fixes for all runs.
Slots == Runs \cup {"fixed"}

\* Faulty: every file is looked for where the manifest of one run has it.
SharedSlot(r) == IF run[r].adapter = "stdout" THEN r ELSE "fixed"

Slot(r) == IF run[r].adapter = "fixed" THEN "fixed" ELSE r

\* The fields of run:
\*   adapter   where the result is taken from
\* of the dispatch row,
\*   status    launching, running, completed, blocked or failed
\*   reason    why it was blocked
\* of its runner,
\*   pc        where its runner is
\* and what the runner knows, which ends with it,
\*   harness   off, alive, exited or failed
\*   base      HEAD when the runner inspected the repository
\*   clean     whether git status was empty then
\*   before    the ignored files before the harness
\*   answer    the outcome of the adapter: completed, blocked or none
\*   error     the error code of adapter, process and protocol
\*   moved     HEAD was not at the base afterwards
\*   changed   the paths observed as changed
\*   unseen    the files git status was told not to look at (history)
\*   by        whose result the adapter took (history)
\*   wrote     the files whose last write was by its harness (history)
\*   alone     nobody else wrote between the runner's observations (history)
NoFiles == [p \in Paths |-> None]

NotStarted(adapter) ==
  [adapter |-> adapter, status |-> "launching", reason |-> "none", pc |-> "start",
   harness |-> "off", base |-> 0, clean |-> FALSE, before |-> NoFiles,
   answer |-> "none", error |-> "none", moved |-> FALSE, changed |-> {}, unseen |-> {},
   by |-> None, wrote |-> {}, alone |-> TRUE]

\* The row is all that is left of run r when its runner ends.
Ended(r, status, reason) ==
  [NotStarted(run[r].adapter) EXCEPT
     !.status = status, !.reason = reason, !.pc = "gone"]

Init ==
  /\ tree = Present
  /\ head = 0
  /\ commits = [k \in {0} |-> Root]
  /\ flags = Flagged
  /\ message = [s \in Slots |-> None]
  /\ \E adapter \in [Runs -> Adapters] :
       /\ \A r \in Runs : adapter[r] \in AdaptersOf[r]
       /\ run = [r \in Runs |-> NotStarted(adapter[r])]
  /\ writes = 0

-----------------------------------------------------------------------------
(* The runner *)

At(r, pc) == run[r].pc = pc

\* The runs whose worktree observations are under way.
Observing == {r \in Runs : run[r].pc \in {"status", "ignored"}}

Disturbed == [r \in Runs |-> IF r \in Observing
                              THEN [run[r] EXCEPT !.alone = FALSE]
                              ELSE run[r]]

\* The file at p was written by who, which is None for others.
WrittenBy(who, p) ==
  [r \in Runs |-> [Disturbed[r] EXCEPT !.wrote =
                      IF r = who THEN @ \cup {p} ELSE @ \ {p}]]

\* worker-runner-entry.ts looks at the repository before it calls the runner.
Inspect(r) ==
  /\ At(r, "start")
  /\ run' = [run EXCEPT ![r].pc = "claim", ![r].base = head,
                        ![r].clean = ChangedFiles = {}]
  /\ UNCHANGED <<repo, files, message>>

\* claimTask: the snapshot is clean and at the base of the task, and no other
\* task of the repository executes.
ClaimTask(r) ==
  /\ At(r, "claim")
  /\ run[r].status = "launching"
  /\ run[r].clean
  /\ \A s \in Runs : run[s].status # "running"
  /\ run' = [run EXCEPT ![r].pc = "before", ![r].status = "running"]
  /\ UNCHANGED <<repo, files, message>>

\* The files git does not track are listed after the claim.
ListIgnoredBefore(r) ==
  /\ At(r, "before")
  /\ run' = [run EXCEPT ![r].pc = "spawn", ![r].before = IgnoredFiles]
  /\ UNCHANGED <<repo, files, message>>

\* The adapters for a last-message file remove the one that may be there; a
\* pipe is new.  Nothing removes the file a manifest names.
Emptied(r) ==
  IF run[r].adapter \in {"last_message", "stdout"}
  THEN [message EXCEPT ![Slot(r)] = None]
  ELSE message

Spawn(r) ==
  /\ At(r, "spawn")
  /\ message' = Emptied(r)
  /\ run' = [run EXCEPT ![r].pc = "wait", ![r].harness = "alive"]
  /\ UNCHANGED <<repo, files>>

\* The process cannot be started or, for the adapters of a durable launch
\* specification, its executable is not the accepted one.
StartFailures(r) ==
  {"WORKER_PROCESS_FAILED"} \cup
  IF run[r].adapter = "last_message" THEN {"CODEX_ARTIFACT_MISMATCH"} ELSE {}

Block(r, code) ==
  run' = [run EXCEPT ![r].pc = "head", ![r].answer = "blocked", ![r].error = code]

SpawnFails(r) ==
  /\ At(r, "spawn")
  /\ \E code \in StartFailures(r) : Block(r, code)
  /\ UNCHANGED <<repo, files, message>>

\* The process has closed.  Its exit code decides before its result is looked
\* at; a result that is missing or malformed is a protocol failure.  Nobody
\* looks again at what only this run reads.
Collect(r) ==
  LET result == message[Slot(r)] IN
  /\ At(r, "wait")
  /\ run[r].harness # "alive"
  /\ IF run[r].harness = "failed" THEN Block(r, "WORKER_PROCESS_FAILED")
     ELSE IF result = None \/ result \notin Result THEN Block(r, "WORKER_PROTOCOL_FAILURE")
     ELSE run' = [run EXCEPT ![r].pc = "head", ![r].answer = result.outcome,
                             ![r].by = result.by]
  /\ message' = IF Slot(r) = r THEN [message EXCEPT ![r] = None] ELSE message
  /\ UNCHANGED <<repo, files>>

\* inspectRepo: is HEAD where the claim found it?
LookAtHead(r) ==
  /\ At(r, "head")
  /\ run' = [run EXCEPT ![r].pc = "status",
                        ![r].moved = head # run[r].base]
  /\ UNCHANGED <<repo, files, message>>

LookAtStatus(r) ==
  /\ At(r, "status")
  /\ run' = [run EXCEPT ![r].pc = "ignored", ![r].changed = ChangedFiles,
                        ![r].unseen = Unwatched]
  /\ UNCHANGED <<repo, files, message>>

ListIgnoredAfter(r) ==
  /\ At(r, "ignored")
  /\ run' = [run EXCEPT ![r].pc = "report",
                        ![r].changed = @ \cup Differing(run[r].before, IgnoredFiles)]
  /\ UNCHANGED <<repo, files, message>>

\* Faulty: a worker that says it is blocked is not looked at.
ErrorCodeOfCompleted(r) ==
  IF run[r].answer = "blocked" THEN run[r].error
  ELSE IF run[r].moved THEN "UNEXPECTED_HEAD_CHANGE"
  ELSE IF \E p \in run[r].changed : ~isAllowedFile(r, p) THEN "SCOPE_VIOLATION"
  ELSE "none"

\* What the runner saw overrules what the adapter said.
ErrorCode(r) ==
  IF run[r].moved THEN "UNEXPECTED_HEAD_CHANGE"
  ELSE IF \E p \in run[r].changed : ~isAllowedFile(r, p) THEN "SCOPE_VIOLATION"
  ELSE run[r].error

\* blockerForError; "WORKER" stands for the worker's own classification.
Reason(code) ==
  CASE code = "SCOPE_VIOLATION" -> "SCOPE_CONFLICT"
    [] code = "UNEXPECTED_HEAD_CHANGE" -> "REPOSITORY_DIVERGED"
    [] code \in {"WORKER_PROCESS_FAILED", "WORKER_PROTOCOL_FAILURE",
                 "CODEX_ARTIFACT_MISMATCH"} -> "TOOL_FAILURE"
    [] OTHER -> "WORKER"

\* The report and the end of the row are one transaction, for the owner of the
\* row only.
Report(r) ==
  /\ At(r, "report")
  /\ run[r].status = "running"
  /\ run' = [run EXCEPT ![r] =
       IF run[r].answer = "completed" /\ ErrorCode(r) = "none"
       THEN Ended(r, "completed", "none")
       ELSE Ended(r, "blocked", Reason(ErrorCode(r)))]
  /\ UNCHANGED <<repo, files, message>>

\* A claim that is refused, a git command or a file that cannot be read, a row
\* that is not this runner's any more: the entry ends a row that is active.
Throw(r) ==
  /\ run[r].pc \in {"claim", "before", "head", "status", "ignored", "report"}
  /\ run' = [run EXCEPT ![r] =
       Ended(r, IF @.status \in {"launching", "running"} THEN "failed" ELSE @.status, "none")]
  /\ UNCHANGED <<repo, files, message>>

\* The runner crashes.
Crash(r) ==
  /\ run[r].pc \notin {"start", "gone"}
  /\ run' = [run EXCEPT ![r] = Ended(r, @.status, "none")]
  /\ UNCHANGED <<repo, files, message>>

\* The dispatcher or the OWNER ends the run.  A runner that lives on throws
\* when it finds that the row is not its own, having changed nothing, and its
\* harness writes as others do.
Recover(r) ==
  /\ run[r].status = "running"
  /\ run' = [run EXCEPT ![r] = Ended(r, "failed", "none")]
  /\ UNCHANGED <<repo, files, message>>

-----------------------------------------------------------------------------
(* Harnesses, people and background processes *)

\* A harness works while its runner waits for it; one that outlives its runner
\* writes as others do.
Alive(r) == At(r, "wait") /\ run[r].harness = "alive"

PutFile(p, c, who) ==
  /\ writes < MaxWrites
  /\ writes' = writes + 1
  /\ tree' = [tree EXCEPT ![p] = c]
  /\ run' = WrittenBy(who, p)
  /\ UNCHANGED <<repo, message>>

Write(r, p, c) == Alive(r) /\ PutFile(p, c, r)

Meddle(p, c) == PutFile(p, c, None)

\* git add --all and git commit; what is flagged is committed as it was.
CommitAll ==
  \E k \in (1 .. MaxCommits) \ DOMAIN commits :
    /\ head' = k
    /\ commits' = [j \in DOMAIN commits \cup {k} |->
         IF j = k THEN [p \in Paths |-> IF Ignored(p) THEN None
                                         ELSE IF p \in Unwatched THEN InHead(p)
                                         ELSE tree[p]]
         ELSE commits[j]]
    /\ run' = Disturbed
    /\ UNCHANGED <<files, flags, message>>

CommitWork(r) == Alive(r) /\ CommitAll

CommitByOwner == CommitAll

\* git reset to another commit, with or without the flags of what stays
Reset(r) ==
  /\ Alive(r)
  /\ head' \in DOMAIN commits \ {head}
  /\ flags' \in SUBSET flags
  /\ run' = Disturbed
  /\ UNCHANGED <<commits, files, message>>

\* git update-index --skip-worktree or --assume-unchanged, or its opposite, or
\* what a sparse checkout does of itself
FlagFile(p) ==
  /\ ~Untracked(p)
  /\ writes < MaxWrites
  /\ writes' = writes + 1
  /\ flags' \in {flags \cup {p}, flags \ {p}} \ {flags}
  /\ run' = Disturbed
  /\ UNCHANGED <<head, commits, tree, message>>

Flag(r, p) == Alive(r) /\ FlagFile(p)

FlagByOthers(p) == FlagFile(p)

\* The harness ends, with a last result or without one.
Exit(r) ==
  /\ Alive(r)
  /\ \E how \in {"exited", "failed"} :
       /\ run' = [run EXCEPT ![r].harness = how]
       /\ \/ \E m \in {x \in Result : x.by = r} \cup {Garbage(r)} :
               message' = [message EXCEPT ![Slot(r)] = m]
          \/ UNCHANGED message
  /\ UNCHANGED <<repo, files>>

\* The OWNER throws away what a run left, as far as Git shows it, for the next
\* task.
Discard ==
  /\ \A r \in Runs : run[r].status # "running"
  /\ tree' = [p \in Paths |-> IF Ignored(p) \/ p \in Unwatched THEN tree[p]
                              ELSE InHead(p)]
  /\ run' = Disturbed
  /\ UNCHANGED <<repo, writes, message>>

Runner(r) ==
  \/ Inspect(r) \/ ClaimTask(r) \/ ListIgnoredBefore(r)
  \/ Spawn(r) \/ SpawnFails(r) \/ Collect(r)
  \/ LookAtHead(r) \/ LookAtStatus(r) \/ ListIgnoredAfter(r) \/ Report(r)
  \/ Throw(r) \/ Crash(r)

Worker(r) ==
  \/ \E p \in Paths : \E c \in Content[p] \ {tree[p]} : Write(r, p, c)
  \/ \E p \in Paths : Flag(r, p)
  \/ CommitWork(r) \/ Reset(r) \/ Exit(r)

Others ==
  \/ \E p \in Paths : \E c \in Content[p] \ {tree[p]} : Meddle(p, c)
  \/ \E p \in Paths : FlagByOthers(p)
  \/ CommitByOwner \/ Discard

Next ==
  \/ \E r \in Runs : Runner(r) \/ Worker(r) \/ Recover(r)
  \/ Others

Spec == Init /\ [][Next]_vars

-----------------------------------------------------------------------------
(* Properties *)

ErrorCodes ==
  {"WORKER_PROCESS_FAILED", "WORKER_PROTOCOL_FAILURE", "CODEX_ARTIFACT_MISMATCH"}

Reasons == {"SCOPE_CONFLICT", "REPOSITORY_DIVERGED", "TOOL_FAILURE", "WORKER"}

Messages == [by : Runs, outcome : {"completed", "blocked", "malformed"}]

RunState ==
  [adapter : Adapters,
   status : {"launching", "running", "completed", "blocked", "failed"},
   reason : Reasons \cup {"none"},
   pc : {"start", "claim", "before", "spawn", "wait", "head", "status",
         "ignored", "report", "gone"},
   harness : {"off", "alive", "exited", "failed"},
   base : DOMAIN commits,
   clean : BOOLEAN,
   before : Files,
   answer : {"none", "completed", "blocked"},
   error : ErrorCodes \cup {"none"},
   moved : BOOLEAN,
   changed : SUBSET Paths,
   unseen : SUBSET Paths,
   by : Runs \cup {None},
   wrote : SUBSET Paths,
   alone : BOOLEAN]

TypeOK ==
  /\ tree \in Files
  /\ head \in DOMAIN commits
  /\ DOMAIN commits \subseteq 0 .. MaxCommits
  /\ \A k \in DOMAIN commits : commits[k] \in Files
  /\ flags \in SUBSET Paths
  /\ message \in [Slots -> Messages \cup {None}]
  /\ run \in [Runs -> RunState]
  /\ writes \in 0 .. MaxWrites

\* The content run r found at path p: at the base for a tracked file, before
\* the harness for one that was ignored.
Found(r, p) ==
  LET atBase == commits[run[r].base][p] IN
  IF atBase # None THEN atBase ELSE run[r].before[p]

\* The files that stand as the harness of run r wrote them.
Wrote(r) == {p \in run[r].wrote : tree[p] # Found(r, p)}

\* The flags of the index are the one way to hide a change: whatever a harness
\* did to ignore rules, to ignored files and to commits, every file that stands
\* as it wrote it is among the changed files of the report or was flagged when
\* git status ran, if HEAD is at the base and nobody else wrote between the three
\* looks of the runner.
OnlyFlagsHide ==
  \A r \in Runs :
    At(r, "report") /\ ~run[r].moved /\ run[r].alone
      => Wrote(r) \subseteq run[r].changed \cup run[r].unseen

\* A run is completed, or blocked for the reason the worker gives.
Accepted(r) == run[r].status = "completed" \/ run[r].reason = "WORKER"

\* A harness is believed only if it ended well and left alone the commit and,
\* as far as git status was allowed to look and nobody else wrote meanwhile,
\* every file outside the scope.
ScopeIsEnforced ==
  [][\A r \in Runs :
       ~Accepted(r) /\ Accepted(r)' =>
         /\ run[r].harness = "exited"
         /\ ~run[r].moved
         /\ run[r].alone =>
              \A p \in Wrote(r) \ run[r].unseen : isAllowedFile(r, p)]_run

\* The result a run is completed or blocked by is that of its own harness, not
\* one that an earlier run left, unless the manifest fixes one path for all.
ResultIsOwn ==
  [][\A r \in Runs :
       ~Accepted(r) /\ Accepted(r)' /\ run[r].adapter # "fixed" => run[r].by = r]_run

=============================================================================
