----------------------------- MODULE Checkpoint -----------------------------
(***************************************************************************)
(* checkpoint_task as the processes that run it: a durable intent, Git     *)
(* commands, and the transactions that record them, any of which may be    *)
(* the last thing a process does.  Retries and other OWNER processes work  *)
(* on the same intent, while workers claim, edit and report, and others    *)
(* write in the same worktree: people, and the harness of a worker whose   *)
(* claim ended in a report, a recovery or a cancellation, which revoke its *)
(* authority over the ledger and do not stop its process.                  *)
(*                                                                         *)
(* The transactions are those of Ledger; a read of the ledger or of Git    *)
(* that the code makes on the way is a guard of the step it precedes.      *)
(* A refused step throws, which leaves what is durable.                    *)
(***************************************************************************)
EXTENDS Integers, FiniteSets

CONSTANTS
  Tasks, TypeOf, Runs, Workers, RoleOf, Commits, MaxRevision, None,
  Owners,         \* OWNER server processes, or calls of one
  Root,           \* the commit the repository starts at
  Trees,          \* contents of the worktree
  RootTree,       \* the content of Root
  MaxCrashes,     \* bound on crashes of OWNER processes
  MaxEdits        \* bound on edits by anyone but a worker that holds a claim

VARIABLES
  tasks, runs, checkpoints,   \* the ledger
  plan,      \* expected_tree of each intent, which its commit holds
  content,   \* the tree of each commit that is no checkpoint
  repo,      \* HEAD and commits of the branch, index, worktree, checkpoint refs
  op,        \* where each OWNER process is in checkpointTask
  seen,      \* the snapshot a client took before its transaction
  crashes,   \* crashes so far
  edits      \* edits so far by anyone but a worker that holds a claim

L == INSTANCE Ledger

ASSUME CheckpointAssumption ==
  /\ L!LedgerAssumption
  /\ Root \in Commits
  /\ RootTree \in Trees
  /\ MaxCrashes \in Nat
  /\ MaxEdits \in Nat
  /\ None \notin Trees
  /\ Owners \cap Workers = {}

ledger == <<tasks, runs, checkpoints>>
git == <<plan, content, repo>>
vars == <<ledger, git, op, seen, crashes, edits>>

Clients == Owners \cup Workers

Idle == [pc |-> "idle", c |-> None, purpose |-> None, tree |-> None,
         hadRef |-> FALSE]

Init ==
  /\ L!Init
  /\ plan = [c \in L!CheckpointIds |-> None]
  /\ content = [k \in Commits |-> IF k = Root THEN RootTree ELSE None]
  /\ repo = [head |-> Root, index |-> Root, work |-> RootTree,
             line |-> {Root}, refs |-> {}]
  /\ op = [o \in Owners |-> Idle]
  /\ seen = [p \in Clients |-> None]
  /\ crashes = 0
  /\ edits = 0

-----------------------------------------------------------------------------
(* Git *)

TreeOf(k) == IF k \in L!CheckpointIds THEN plan[k] ELSE content[k]

Clean == repo.work = TreeOf(repo.head) /\ TreeOf(repo.index) = TreeOf(repo.head)

\* inspectRepo
Snapshot == [head |-> repo.head, clean |-> Clean]

\* verifyGitCheckpointIdentity; a commit is the one its intent describes.
Verified(c) == repo.head = c /\ Clean /\ c \in repo.refs

\* requireCheckpointBaselineIntegrity
BaselineIntact(t) == \A c \in L!OwnCheckpoint(t) : Verified(c)

-----------------------------------------------------------------------------
(* checkpointTask of OWNER process o *)

At(o, pc) == op[o].pc = pc

Goto(o, pc) == op' = [op EXCEPT ![o].pc = pc]

Return(o) == op' = [op EXCEPT ![o] = Idle]

Others == UNCHANGED <<seen, crashes, edits>>

\* Faulty: Git is touched before the intent is durable.
PlanAndCommit(o, t, purpose) ==
  LET c == <<t, tasks[t].rev>> IN
  /\ At(o, "idle")
  /\ c \in L!CheckpointIds
  /\ checkpoints[c].state = "ABSENT"
  /\ L!NoRepositoryCheckpoint
  /\ L!PurposeFits(purpose, tasks[t].status)
  /\ repo.head = tasks[t].base
  /\ op' = [op EXCEPT ![o] = [pc |-> "commit", c |-> c, purpose |-> purpose,
                              tree |-> repo.work, hadRef |-> FALSE]]
  /\ UNCHANGED <<ledger, git>> /\ Others

\* No intent yet: the checks and planGitCheckpoint, before the transaction.
Plan(o, t, purpose) ==
  LET c == <<t, tasks[t].rev>> IN
  /\ At(o, "idle")
  /\ c \in L!CheckpointIds
  /\ checkpoints[c].state = "ABSENT"
  /\ L!NoRepositoryCheckpoint
  /\ TypeOf[t] = "IMPLEMENTATION"
  /\ L!PurposeFits(purpose, tasks[t].status)
  /\ L!NoTaskRunning
  /\ L!NoActiveRun
  /\ repo.head = tasks[t].base
  /\ repo.work # TreeOf(tasks[t].base)
  /\ op' = [op EXCEPT ![o] = [pc |-> "planned", c |-> c, purpose |-> purpose,
                              tree |-> repo.work, hadRef |-> FALSE]]
  /\ UNCHANGED <<ledger, git>> /\ Others

Prepare(o) ==
  LET c == op[o].c IN
  /\ At(o, "planned")
  /\ L!PrepareCheckpoint(c[1], c[2], op[o].purpose)
  /\ plan' = [plan EXCEPT ![c] = op[o].tree]
  /\ op' = [op EXCEPT ![o] = [Idle EXCEPT !.pc = "intent", !.c = c]]
  /\ UNCHANGED <<content, repo>> /\ Others

\* Faulty: takes any intent for one whose commit is applied.
RetryAssumesApplied(o, c) ==
  /\ At(o, "idle")
  /\ L!RecoveryExclusive(c)
  /\ op' = [op EXCEPT ![o] = [Idle EXCEPT !.pc = "applied", !.c = c]]
  /\ UNCHANGED <<ledger, git>> /\ Others

\* The exact retry of an unfinished intent, from where its row says it is.
Retry(o, c) ==
  LET finalizing == checkpoints[c].state = "FINALIZING" IN
  /\ At(o, "idle")
  /\ L!RecoveryExclusive(c)
  /\ finalizing => /\ Verified(c)
                   /\ tasks[c[1]].rev = c[2] + 1
                   /\ tasks[c[1]].base = c
  /\ op' = [op EXCEPT ![o] = [Idle EXCEPT !.pc = IF finalizing THEN "verify"
                                                 ELSE "intent",
                                          !.c = c]]
  /\ UNCHANGED <<ledger, git>> /\ Others

\* Faulty: a ref left by an earlier attempt does not excuse a moved HEAD.
CheckPlanAtPrior(o) ==
  LET c == op[o].c IN
  /\ At(o, "intent")
  /\ L!RecoveryExclusive(c)
  /\ repo.head = checkpoints[c].prior
  /\ repo.work = plan[c]
  /\ op' = [op EXCEPT ![o].pc = "commit", ![o].hadRef = c \in repo.refs]
  /\ UNCHANGED <<ledger, git>> /\ Others

\* Entry of applyGitCheckpoint, after the second exclusivity test.
CheckPlan(o) ==
  LET c == op[o].c IN
  /\ At(o, "intent")
  /\ L!RecoveryExclusive(c)
  /\ repo.head = checkpoints[c].prior \/ c \in repo.refs
  /\ repo.work = plan[c]
  /\ op' = [op EXCEPT ![o].pc = "commit", ![o].hadRef = c \in repo.refs]
  /\ UNCHANGED <<ledger, git>> /\ Others

\* commit-tree yields the same commit each time; update-ref creates the ref
\* only where there was none.
WriteRef(o) ==
  LET c == op[o].c IN
  /\ At(o, "commit")
  /\ ~op[o].hadRef => c \notin repo.refs
  /\ repo' = [repo EXCEPT !.refs = @ \cup {c}]
  /\ Goto(o, "ref")
  /\ UNCHANGED <<ledger, plan, content>> /\ Others

\* Faulty: update-ref is not told the value it replaces.
MoveBranchForced(o) ==
  /\ At(o, "ref")
  /\ repo' = [repo EXCEPT !.head = op[o].c, !.line = @ \cup {op[o].c}]
  /\ Goto(o, "branch")
  /\ UNCHANGED <<ledger, plan, content>> /\ Others

\* update-ref of the branch, from the prior base only.
MoveBranch(o) ==
  LET c == op[o].c IN
  /\ At(o, "ref")
  /\ repo.head \in {checkpoints[c].prior, c}
  /\ repo' = [repo EXCEPT !.head = c, !.line = @ \cup {c}]
  /\ Goto(o, "branch")
  /\ UNCHANGED <<ledger, plan, content>> /\ Others

\* Faulty: read-tree -u --reset takes the worktree along.
ReadTreeReset(o) ==
  /\ At(o, "branch")
  /\ repo' = [repo EXCEPT !.index = op[o].c, !.work = TreeOf(op[o].c)]
  /\ Goto(o, "index")
  /\ UNCHANGED <<ledger, plan, content>> /\ Others

\* Nothing is compared: a late process takes the index back.
ReadTree(o) ==
  /\ At(o, "branch")
  /\ repo' = [repo EXCEPT !.index = op[o].c]
  /\ Goto(o, "index")
  /\ UNCHANGED <<ledger, plan, content>> /\ Others

VerifyApplied(o) ==
  /\ At(o, "index")
  /\ Verified(op[o].c)
  /\ L!RecoveryExclusive(op[o].c)
  /\ Goto(o, "applied")
  /\ UNCHANGED <<ledger, git>> /\ Others

\* Faulty: a late writer puts the row back.
RecordAppliedLate(o) ==
  /\ At(o, "applied")
  /\ checkpoints' = [checkpoints EXCEPT ![op[o].c].state = "GIT_APPLIED"]
  /\ UNCHANGED <<tasks, runs>>
  /\ Goto(o, "recorded")
  /\ UNCHANGED git /\ Others

RecordApplied(o) ==
  /\ At(o, "applied")
  /\ L!RecordGitApplied(op[o].c)
  /\ Goto(o, "recorded")
  /\ UNCHANGED git /\ Others

\* Another process may have finalized the task since.
ReadState(o) ==
  LET c == op[o].c  finalizing == checkpoints[c].state = "FINALIZING" IN
  /\ At(o, "recorded")
  /\ L!RecoveryExclusive(c)
  /\ finalizing => tasks[c[1]].rev = c[2] + 1 /\ tasks[c[1]].base = c
  /\ Goto(o, IF finalizing THEN "verify" ELSE "finalize")
  /\ UNCHANGED <<ledger, git>> /\ Others

Finalize(o) ==
  /\ At(o, "finalize")
  /\ L!FinalizeTask(op[o].c)
  /\ Goto(o, "verify")
  /\ UNCHANGED git /\ Others

VerifyFinal(o) ==
  /\ At(o, "verify")
  /\ L!RecoveryExclusive(op[o].c)
  /\ Verified(op[o].c)
  /\ Goto(o, "mark")
  /\ UNCHANGED <<ledger, git>> /\ Others

MarkFinalized(o) ==
  /\ At(o, "mark")
  /\ L!MarkFinalized(op[o].c)
  /\ Goto(o, "confirm")
  /\ UNCHANGED git /\ Others

\* The last look at Git, after the mark is committed.
Confirm(o) ==
  /\ At(o, "confirm")
  /\ IF Verified(op[o].c) THEN Return(o) ELSE Goto(o, "reopen")
  /\ UNCHANGED <<ledger, git>> /\ Others

Reopen(o) ==
  /\ At(o, "reopen")
  /\ L!ReopenCheckpoint(op[o].c)
  /\ Return(o)
  /\ UNCHANGED git /\ Others

\* The calls an OWNER makes, and the steps a call takes by itself.
Call(o) ==
  /\ seen[o] = None
  /\ \/ \E t \in Tasks, p \in L!Purposes : Plan(o, t, p)
     \/ \E c \in L!CheckpointIds : Retry(o, c)

Step(o) ==
  \/ Prepare(o) \/ CheckPlan(o) \/ WriteRef(o) \/ MoveBranch(o)
  \/ ReadTree(o) \/ VerifyApplied(o) \/ RecordApplied(o) \/ ReadState(o)
  \/ Finalize(o) \/ VerifyFinal(o) \/ MarkFinalized(o) \/ Confirm(o)
  \/ Reopen(o)

Throw(o) ==
  /\ ~At(o, "idle")
  /\ ~ENABLED Step(o)
  /\ Return(o)
  /\ UNCHANGED <<ledger, git>> /\ Others

Crash(o) ==
  /\ ~At(o, "idle")
  /\ crashes < MaxCrashes
  /\ crashes' = crashes + 1
  /\ Return(o)
  /\ UNCHANGED <<ledger, git, seen, edits>>

-----------------------------------------------------------------------------
(* The other users of the ledger and of the worktree *)

\* A tool call inspects the repository before the transaction it ends in.
Look(p) ==
  /\ seen[p] = None
  /\ p \in Owners => At(p, "idle")
  /\ seen' = [seen EXCEPT ![p] = Snapshot]
  /\ UNCHANGED <<ledger, git, op, crashes, edits>>

Done(p) == seen' = [seen EXCEPT ![p] = None]

Create(o, t) ==
  /\ seen[o] # None
  /\ L!CreateTask(t, seen[o])
  /\ Done(o)
  /\ UNCHANGED <<git, op, crashes, edits>>

Resume(o, t) ==
  /\ seen[o] # None
  /\ L!ResumeTask(t, tasks[t].rev, seen[o])
  /\ BaselineIntact(t)
  /\ Done(o)
  /\ UNCHANGED <<git, op, crashes, edits>>

Claim(w, t) ==
  /\ seen[w] # None
  /\ L!ClaimTask(t, w, tasks[t].rev, seen[w])
  /\ BaselineIntact(t)
  /\ Done(w)
  /\ UNCHANGED <<git, op, crashes, edits>>

\* The call is refused, or was only an inspection.
Forget(p) ==
  /\ seen[p] # None
  /\ Done(p)
  /\ UNCHANGED <<ledger, git, op, crashes, edits>>

Report(w, t) ==
  /\ \/ L!ReportBlocked(t, w, tasks[t].rev)
     \/ \E outcome \in {"COMPLETED", "FAILED"} :
          L!ReportResult(t, w, tasks[t].rev, outcome)
  /\ UNCHANGED <<git, op, seen, crashes, edits>>

\* recover_task inspects the repository too, and compares only its identity.
Recover(o, t) ==
  /\ seen[o] # None
  /\ L!RecoverTask(t, tasks[t].rev)
  /\ Done(o)
  /\ UNCHANGED <<git, op, crashes, edits>>

Cancel(o, t) ==
  /\ At(o, "idle")
  /\ seen[o] = None
  /\ L!CancelTask(t, tasks[t].rev)
  /\ UNCHANGED <<git, op, seen, crashes, edits>>

WriteFiles(tree) ==
  /\ repo' = [repo EXCEPT !.work = tree]
  /\ UNCHANGED <<ledger, plan, content, op, seen, crashes>>

CommitFiles(k) ==
  /\ content[k] = None
  /\ content' = [content EXCEPT ![k] = repo.work]
  /\ repo' = [repo EXCEPT !.head = k, !.line = @ \cup {k}, !.index = k]
  /\ UNCHANGED <<ledger, plan, op, seen, crashes>>

Executes(w) == \E t \in Tasks : L!Running(t) /\ tasks[t].inst = w

\* The harness of a worker that holds a claim writes files, or commits them.
Work(w, tree) == Executes(w) /\ WriteFiles(tree) /\ UNCHANGED edits

CommitWork(w, k) == Executes(w) /\ CommitFiles(k) /\ UNCHANGED edits

\* Somebody else does: people, or a harness that lives on without a claim.
\* Nothing in the code stops either, at any time.
Edit(tree) ==
  /\ edits < MaxEdits
  /\ edits' = edits + 1
  /\ WriteFiles(tree)

Commit(k) ==
  /\ edits < MaxEdits
  /\ edits' = edits + 1
  /\ CommitFiles(k)

OwnerStep(o) == Call(o) \/ Step(o) \/ Throw(o) \/ Crash(o)

ClientStep ==
  \/ \E p \in Clients : Look(p) \/ Forget(p)
  \/ \E o \in Owners, t \in Tasks :
       Create(o, t) \/ Resume(o, t) \/ Recover(o, t) \/ Cancel(o, t)
  \/ \E w \in Workers, t \in Tasks : Claim(w, t) \/ Report(w, t)
  \/ \E w \in Workers : \/ \E tree \in Trees : Work(w, tree)
                        \/ \E k \in Commits : CommitWork(w, k)

Unclaimed == (\E tree \in Trees : Edit(tree)) \/ (\E k \in Commits : Commit(k))

Next == (\E o \in Owners : OwnerStep(o)) \/ ClientStep \/ Unclaimed

Spec == Init /\ [][Next]_vars

\* A call runs to its end unless its process crashes (it never waits), and an
\* OWNER who is told of an unfinished checkpoint, as every lifecycle call is,
\* retries it sooner or later.
FairSpec ==
  /\ Spec
  /\ \A o \in Owners :
       /\ WF_vars(Step(o) \/ Throw(o) \/ Forget(o))
       /\ SF_vars(seen[o] = None /\ \E c \in L!CheckpointIds : Retry(o, c))

-----------------------------------------------------------------------------
(* Properties *)

Calls == [pc : {"idle", "planned", "intent", "commit", "ref", "branch", "index",
                "applied", "recorded", "finalize", "verify", "mark", "confirm",
                "reopen"},
          c : L!CheckpointIds \cup {None}, purpose : L!Purposes \cup {None},
          tree : Trees \cup {None}, hadRef : BOOLEAN]

TypeOK ==
  /\ L!TypeOK
  /\ plan \in [L!CheckpointIds -> Trees \cup {None}]
  /\ content \in [Commits -> Trees \cup {None}]
  /\ repo \in [head : L!AllCommits, index : L!AllCommits, work : Trees,
               line : SUBSET L!AllCommits, refs : SUBSET L!CheckpointIds]
  /\ op \in [Owners -> Calls]
  /\ \A o \in Owners :
       /\ op[o].pc # "idle" => op[o].c \in L!CheckpointIds
       /\ op[o].pc = "planned" => op[o].purpose \in L!Purposes /\ op[o].tree \in Trees
  /\ seen \in [Clients -> L!Snapshots \cup {None}]
  /\ crashes \in 0..MaxCrashes
  /\ edits \in 0..MaxEdits

\* Whatever a crash leaves behind, neither store runs ahead of the other: a
\* ref or a branch at a checkpoint commit has a durable intent, and a ledger
\* row that counts the commit as applied has it on the branch, with the ref that
\* keeps it alive.
GitFollowsIntent ==
  \A c \in L!CheckpointIds :
    /\ c \in repo.refs => checkpoints[c].state # "ABSENT"
    /\ repo.head = c \/ repo.index = c => c \in repo.refs
    /\ checkpoints[c].state \in {"GIT_APPLIED", "FINALIZING", "FINALIZED"}
         => c \in repo.refs /\ c \in repo.line

\* A task's base is a commit of the branch, and a checkpoint commit has its ref
\* as well: no garbage collection takes what a task started from.
BaseIsHeld ==
  \A t \in Tasks :
    LET base == tasks[t].base IN
    base # None => /\ base \in repo.line
                   /\ base \in L!CheckpointIds => base \in repo.refs

\* A checkpoint takes the branch from the commit its intent was planned on to
\* its own commit, whoever retries it and however late: a branch that others
\* have moved on is never taken back.
BranchMoves ==
  [][\A c \in L!CheckpointIds :
       repo.head # c /\ repo'.head = c => repo.head = checkpoints[c].prior]_repo

\* Until its commit is recorded no execution that holds a claim and no call of
\* this checkpoint or of another, however late, changes a file or takes the branch
\* anywhere but from the prior base to the intent's commit.  So a retry finds them
\* as the attempt before left them, except for what is done without a claim: by
\* people, or by a harness that outlived its report, recovery or cancellation
\* (README.md:498).  Nothing keeps these out, and what they did is not undone.
IntentHoldsGit ==
  [][\A c \in L!CheckpointIds :
       checkpoints[c].state \in {"PREPARED", "GIT_APPLIED"} /\ edits' = edits =>
         /\ repo'.work = repo.work
         /\ repo.head = checkpoints[c].prior /\ repo'.head = c
    ]_<<repo.head, repo.work>>

\* Every step of the processes is a transaction of Ledger or leaves it alone,
\* so what holds of Ledger holds of checkpointTask under crashes and retries.
ImplementsLedger == L!Spec

\* If nobody without a claim touches the worktree, an intent is finalized in the end,
\* wherever its processes crashed and however many of them retry it.
Converges ==
  ~L!NoRepositoryCheckpoint /\ edits = 0 ~> L!NoRepositoryCheckpoint \/ edits > 0

\* What docs/architecture.md:62 says of a prepared operation, that it converges:
\* its commit can still be put on the branch, of which nobody else made another
\* use.
PreparedCanConverge ==
  \A c \in L!CheckpointIds :
    checkpoints[c].state = "PREPARED" /\ repo.work = plan[c] /\ edits = 0
      => repo.head \in {checkpoints[c].prior, c}

\* What README.md:231 promises of an unfinished checkpoint: the exact retry
\* may proceed, so nothing executes and no dispatch is active beside it.
RetryMayProceed ==
  \A c \in L!CheckpointIds : L!Unfinished(c) => L!NoTaskRunning /\ L!NoActiveRun

=============================================================================
