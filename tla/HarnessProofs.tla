--------------------------- MODULE HarnessProofs ---------------------------
(* Proofs about Harness: for any worktree, rules, scopes, adapters and number
   of runs, what a runner reports covers what its harness changed except for
   tracked files with an index flag, and only an execution that is in order is
   believed.                                                              *)
EXTENDS Harness, TLAPS

-----------------------------------------------------------------------------
(* Types *)

LEMMA NoFilesIsFiles == NoFiles \in Files
BY DEF NoFiles, Files

LEMMA EndedType ==
  ASSUME TypeOK, NEW r \in Runs,
         NEW status \in {"launching", "running", "completed", "blocked", "failed"},
         NEW reason \in Reasons \cup {"none"}, 0 \in DOMAIN commits
  PROVE  Ended(r, status, reason) \in RunState
BY NoFilesIsFiles DEF Ended, NotStarted, TypeOK, RunState

LEMMA EndedFields ==
  ASSUME NEW r \in Runs, NEW status, NEW reason
  PROVE  /\ Ended(r, status, reason).pc = "gone"
         /\ Ended(r, status, reason).adapter = run[r].adapter
         /\ Ended(r, status, reason).status = status
         /\ Ended(r, status, reason).reason = reason
BY DEF Ended, NotStarted

\* The first commit is never forgotten.
Kept == 0 \in DOMAIN commits

LEMMA GitTypes ==
  ASSUME TypeOK
  PROVE  /\ ChangedFiles \subseteq Paths
         /\ IgnoredFiles \in Files
         /\ Unwatched \subseteq Paths
         /\ \A f, g : Differing(f, g) \subseteq Paths
         /\ [p \in Paths |-> IF Ignored(p) THEN None
                             ELSE IF p \in Unwatched THEN InHead(p)
                             ELSE tree[p]] \in Files
         /\ [p \in Paths |-> IF Ignored(p) \/ p \in Unwatched THEN tree[p]
                             ELSE InHead(p)] \in Files
BY DEF TypeOK, Files, ChangedFiles, Unwatched, IgnoredFiles, Differing, InHead

LEMMA DisturbedType ==
  ASSUME TypeOK
  PROVE  /\ Disturbed \in [Runs -> RunState]
         /\ \A who : \A p \in Paths : WrittenBy(who, p) \in [Runs -> RunState]
<1>1. ASSUME NEW r \in Runs PROVE Disturbed[r] \in RunState
  <2>1. run[r] \in RunState
    BY DEF TypeOK
  <2>2. [run[r] EXCEPT !.alone = FALSE] \in RunState
    BY <2>1 DEF RunState
  <2> QED BY <2>1, <2>2 DEF Disturbed
<1>2. ASSUME NEW who, NEW p \in Paths, NEW r \in Runs
      PROVE  [Disturbed[r] EXCEPT !.wrote = IF r = who THEN @ \cup {p} ELSE @ \ {p}]
               \in RunState
  BY <1>1 DEF RunState
<1>3. Disturbed = [r \in Runs |-> Disturbed[r]]
  BY DEF Disturbed
<1> QED BY <1>1, <1>2, <1>3 DEF WrittenBy

LEMMA BlockType ==
  ASSUME TypeOK, NEW r \in Runs, NEW code \in ErrorCodes, Block(r, code)
  PROVE  run' \in [Runs -> RunState]
<1>1. run[r] \in RunState
  BY DEF TypeOK
<1>2. [run[r] EXCEPT !.pc = "head", !.answer = "blocked", !.error = code] \in RunState
  BY <1>1 DEF RunState
<1>3. run' = [run EXCEPT ![r] =
               [run[r] EXCEPT !.pc = "head", !.answer = "blocked", !.error = code]]
  BY DEF Block, TypeOK
<1> QED BY <1>2, <1>3 DEF TypeOK

LEMMA TypeInit == Init => TypeOK /\ Kept
<1> SUFFICES ASSUME Init PROVE TypeOK /\ Kept
  OBVIOUS
<1> QED
BY HarnessAssumption, NoFilesIsFiles
  DEF Init, TypeOK, RunState, NotStarted, Files, Slots, Kept
LEMMA TypeNext == TypeOK /\ Kept /\ [Next]_vars => TypeOK' /\ Kept'
<1> SUFFICES ASSUME TypeOK, Kept, [Next]_vars PROVE TypeOK' /\ Kept'
  OBVIOUS
<1> USE DEF Kept
<1>a. RunState' = RunState /\ run' \in [Runs -> RunState] /\ commits' = commits
        /\ tree' \in Files /\ head' \in DOMAIN commits /\ flags' \in SUBSET Paths
        /\ message' \in [Slots -> Messages \cup {None}] /\ writes' \in 0 .. MaxWrites
        => TypeOK' /\ Kept'
  BY DEF TypeOK, Slots
<1>b. commits' = commits => RunState' = RunState
  BY DEF RunState
<1>0. ASSUME UNCHANGED vars PROVE TypeOK' /\ Kept'
  BY <1>0, <1>a, <1>b DEF vars, TypeOK
<1>1. ASSUME NEW r \in Runs, Runner(r) PROVE TypeOK' /\ Kept'
  <2>0. run[r] \in RunState
    BY DEF TypeOK
  <2>1. CASE Inspect(r)
    BY <2>0, <2>1, <1>a, <1>b DEF Inspect, TypeOK, RunState, repo, files
  <2>2. CASE ClaimTask(r)
    BY <2>0, <2>2, <1>a, <1>b DEF ClaimTask, TypeOK, RunState, repo, files
  <2>3. CASE ListIgnoredBefore(r)
    <3>1. PICK listed \in Files :
            run' = [run EXCEPT ![r].pc = "spawn", ![r].before = listed]
      BY <2>3, GitTypes DEF ListIgnoredBefore
    <3>2. run' \in [Runs -> RunState]
      BY <2>0, <3>1 DEF TypeOK, RunState
    <3> QED BY <2>3, <3>2, <1>a, <1>b DEF ListIgnoredBefore, TypeOK, repo, files
  <2>4. CASE Spawn(r)
    <3>1. message' \in [Slots -> Messages \cup {None}]
      BY <2>4 DEF Spawn, Emptied, TypeOK
    <3>2. run' \in [Runs -> RunState]
      BY <2>0, <2>4 DEF Spawn, TypeOK, RunState
    <3> QED BY <2>4, <3>1, <3>2, <1>a, <1>b DEF Spawn, TypeOK, repo, files
  <2>5. CASE SpawnFails(r)
    <3>1. StartFailures(r) \subseteq ErrorCodes
      BY DEF StartFailures, ErrorCodes
    <3>2. run' \in [Runs -> RunState]
      BY <2>5, <3>1, BlockType DEF SpawnFails
    <3> QED BY <2>5, <3>2, <1>a, <1>b DEF SpawnFails, TypeOK, repo, files
  <2>6. CASE Collect(r)
    <3> DEFINE result == message[Slot(r)]
    <3>1. \/ \E code \in ErrorCodes : Block(r, code)
          \/ /\ result \in Result
             /\ run' = [run EXCEPT ![r].pc = "head", ![r].answer = result.outcome,
                                   ![r].by = result.by]
      BY <2>6 DEF Collect, ErrorCodes
    <3>2. run' \in [Runs -> RunState]
      BY <3>1, <2>0, BlockType DEF Result, TypeOK, RunState
    <3>3. message' \in [Slots -> Messages \cup {None}]
      BY <2>6 DEF Collect, TypeOK
    <3> QED BY <2>6, <3>2, <3>3, <1>a, <1>b DEF Collect, TypeOK, repo, files
  <2>7. CASE LookAtHead(r)
    <3> DEFINE moved == head # run[r].base
    <3>1. moved \in BOOLEAN
      OBVIOUS
    <3>2. run' = [run EXCEPT ![r].pc = "status", ![r].moved = moved]
      BY <2>7 DEF LookAtHead
    <3> HIDE DEF moved
    <3>3. run' \in [Runs -> RunState]
      BY <2>0, <3>1, <3>2 DEF TypeOK, RunState
    <3> QED BY <2>7, <3>3, <1>a, <1>b DEF LookAtHead, TypeOK, repo, files
  <2>8. CASE LookAtStatus(r)
    <3>1. PICK seen \in SUBSET Paths, flagged \in SUBSET Paths :
            run' = [run EXCEPT ![r].pc = "ignored", ![r].changed = seen,
                               ![r].unseen = flagged]
      BY <2>8, GitTypes DEF LookAtStatus, Unwatched, TypeOK
    <3>2. run' \in [Runs -> RunState]
      BY <2>0, <3>1 DEF TypeOK, RunState
    <3> QED BY <2>8, <3>2, <1>a, <1>b DEF LookAtStatus, TypeOK, repo, files
  <2>9. CASE ListIgnoredAfter(r)
    <3>1. PICK seen \in SUBSET Paths :
            run' = [run EXCEPT ![r].pc = "report", ![r].changed = seen]
      <4>1. run[r].changed \cup Differing(run[r].before, IgnoredFiles) \in SUBSET Paths
        BY <2>0 DEF RunState, Differing
      <4> QED BY <2>9, <4>1 DEF ListIgnoredAfter
    <3>2. run' \in [Runs -> RunState]
      BY <2>0, <3>1 DEF TypeOK, RunState
    <3> QED BY <2>9, <3>2, <1>a, <1>b DEF ListIgnoredAfter, TypeOK, repo, files
  <2>10. CASE Report(r)
    <3>1. Reason(ErrorCode(r)) \in Reasons
      BY DEF Reason, Reasons
    <3> QED BY <2>10, <3>1, <1>a, <1>b, EndedType DEF Report, TypeOK, repo, files
  <2>11. CASE Throw(r)
    <3>1. run[r].status \in {"launching", "running", "completed", "blocked", "failed"}
      BY <2>0 DEF RunState
    <3> QED BY <2>11, <3>1, <1>a, <1>b, EndedType DEF Throw, TypeOK, repo, files
  <2>12. CASE Crash(r)
    <3>1. run[r].status \in {"launching", "running", "completed", "blocked", "failed"}
      BY <2>0 DEF RunState
    <3> QED BY <2>12, <3>1, <1>a, <1>b, EndedType DEF Crash, TypeOK, repo, files
  <2> QED BY <1>1, <2>1, <2>2, <2>3, <2>4, <2>5, <2>6, <2>7, <2>8, <2>9, <2>10,
             <2>11, <2>12 DEF Runner
<1>2. ASSUME NEW r \in Runs, Recover(r) PROVE TypeOK' /\ Kept'
  BY <1>2, <1>a, <1>b, EndedType DEF Recover, TypeOK, repo, files
<1>3. ASSUME NEW who, NEW p \in Paths, NEW c \in Content[p], PutFile(p, c, who)
      PROVE  TypeOK' /\ Kept'
  <2>1. c \in (UNION {Content[q] : q \in Paths}) \cup {None}
    OBVIOUS
  <2>2. tree' \in Files
    BY <1>3, <2>1 DEF PutFile, TypeOK, Files
  <2>3. writes' \in 0 .. MaxWrites
    BY <1>3, HarnessAssumption DEF PutFile, TypeOK
  <2> QED BY <1>3, <2>2, <2>3, <1>a, <1>b, DisturbedType DEF PutFile, TypeOK, repo
<1>4. ASSUME CommitAll PROVE TypeOK' /\ Kept'
  <2>1. PICK k \in (1 .. MaxCommits) \ DOMAIN commits :
          /\ head' = k
          /\ commits' = [j \in DOMAIN commits \cup {k} |->
               IF j = k THEN [p \in Paths |-> IF Ignored(p) THEN None
                                               ELSE IF p \in Unwatched THEN InHead(p)
                                               ELSE tree[p]]
               ELSE commits[j]]
          /\ run' = Disturbed
          /\ UNCHANGED <<files, flags, message>>
    BY <1>4 DEF CommitAll
  <2>2. DOMAIN commits \subseteq DOMAIN commits' /\ DOMAIN commits' \subseteq 0 .. MaxCommits
    BY <2>1, HarnessAssumption DEF TypeOK
  <2>3. \A j \in DOMAIN commits' : commits'[j] \in Files
    BY <2>1, GitTypes DEF TypeOK
  <2>4. RunState \subseteq RunState'
    BY <2>2 DEF RunState
  <2>5. run' \in [Runs -> RunState']
    BY <2>1, <2>4, DisturbedType
  <2> QED BY <2>1, <2>2, <2>3, <2>5 DEF TypeOK, files, Slots
<1>5. ASSUME NEW r \in Runs, Reset(r) PROVE TypeOK' /\ Kept'
  BY <1>5, <1>a, <1>b, DisturbedType DEF Reset, TypeOK, files
<1>6. ASSUME NEW r \in Runs, Exit(r) PROVE TypeOK' /\ Kept'
  <2>0. run[r] \in RunState
    BY DEF TypeOK
  <2>1. run' \in [Runs -> RunState]
    BY <2>0, <1>6 DEF Exit, TypeOK, RunState
  <2>2. message' \in [Slots -> Messages \cup {None}]
    BY <1>6 DEF Exit, TypeOK, Messages, Result, Garbage
  <2> QED BY <1>6, <2>1, <2>2, <1>a, <1>b DEF Exit, TypeOK, repo, files
<1>7. ASSUME Discard PROVE TypeOK' /\ Kept'
  BY <1>7, <1>a, <1>b, DisturbedType, GitTypes DEF Discard, TypeOK, repo
<1>8. ASSUME NEW p \in Paths, FlagFile(p) PROVE TypeOK' /\ Kept'
  <2>1. writes' \in 0 .. MaxWrites
    BY <1>8, HarnessAssumption DEF FlagFile, TypeOK
  <2> QED BY <1>8, <2>1, <1>a, <1>b, DisturbedType DEF FlagFile, TypeOK
<1> QED
  BY <1>0, <1>1, <1>2, <1>3, <1>4, <1>5, <1>6, <1>7, <1>8
     DEF Next, Worker, Others, Write, Meddle, CommitWork, CommitByOwner, Flag,
         FlagByOthers

\* The rows, results, worktrees and commits stay what the schemas and Git admit.
THEOREM TypeCorrect == Spec => []TypeOK
<1>1. Init => TypeOK /\ Kept
  BY TypeInit
<1>2. (TypeOK /\ Kept) /\ [Next]_vars => (TypeOK /\ Kept)'
  BY TypeNext
<1> QED BY <1>1, <1>2, PTL DEF Spec

-----------------------------------------------------------------------------
(* What a runner knows, and how far it can rely on it *)

Past == {"before", "spawn", "wait", "head", "status", "ignored", "report"}

Looking == {"head", "status", "ignored", "report"}

\* A runner past its claim has its row running, and waits for a process.
RowIsHeld(r) ==
  /\ run[r].pc \in Past => run[r].status = "running"
  /\ run[r].pc = "wait" => run[r].harness # "off"

\* A run without an error has the result of a harness that exited, its own if
\* nothing else writes where it is read.
AnswerIsOwn(r) ==
  /\ run[r].pc \in Looking /\ run[r].error = "none" =>
       /\ run[r].harness = "exited"
       /\ run[r].adapter # "fixed" => run[r].by = r
  /\ run[r].adapter # "fixed" /\ message[r] # None => message[r].by = r

Undisturbed(r, pc) == run[r].pc = pc /\ run[r].alone /\ ~run[r].moved

\* Undisturbed, the second look still sees the commit the first one saw, the
\* third what the second one listed or was told not to look at, and the report
\* covers the harness up to that.
LooksAgree(r) ==
  /\ Undisturbed(r, "status") => head = run[r].base
  /\ Undisturbed(r, "ignored") => /\ head = run[r].base
                                 /\ run[r].changed = ChangedFiles
                                 /\ run[r].unseen = Unwatched
  /\ Undisturbed(r, "report") => Wrote(r) \subseteq run[r].changed \cup run[r].unseen

IInv ==
  /\ TypeOK /\ Kept
  /\ \A r \in Runs : RowIsHeld(r) /\ AnswerIsOwn(r) /\ LooksAgree(r)

\* The three looks together cover every file that is not as it was found, but
\* for those that are flagged.
LEMMA LooksCover ==
  ASSUME TypeOK, NEW r \in Runs, head = run[r].base
  PROVE  Wrote(r) \subseteq
           ChangedFiles \cup Differing(run[r].before, IgnoredFiles) \cup Unwatched
<1> SUFFICES ASSUME NEW p \in Wrote(r), p \notin ChangedFiles, p \notin Unwatched
             PROVE  p \in Differing(run[r].before, IgnoredFiles)
  OBVIOUS
<1>1. p \in Paths /\ tree[p] # Found(r, p)
  BY DEF Wrote, TypeOK, RunState
<1>2. tree[p] = InHead(p) \/ Ignored(p)
  BY <1>1 DEF ChangedFiles
<1>3. InHead(p) = commits[run[r].base][p]
  BY DEF InHead
<1>4. InHead(p) = None
  BY <1>1, <1>2, <1>3 DEF Found, Ignored, Untracked
<1>5. tree[p] # run[r].before[p]
  BY <1>1, <1>3, <1>4 DEF Found
<1>6. IgnoredFiles[p] = tree[p]
  BY <1>1, <1>2, <1>4 DEF IgnoredFiles
<1> QED BY <1>1, <1>5, <1>6 DEF Differing

LEMMA IInvInit == Init => IInv
<1> SUFFICES ASSUME Init PROVE IInv
  OBVIOUS
<1>1. TypeOK /\ Kept
  BY TypeInit
<1>2. ASSUME NEW r \in Runs PROVE run[r].pc = "start" /\ message[r] = None
  BY DEF Init, NotStarted, Slots
<1>3. ASSUME NEW r \in Runs PROVE RowIsHeld(r) /\ AnswerIsOwn(r) /\ LooksAgree(r)
  BY <1>2 DEF RowIsHeld, AnswerIsOwn, LooksAgree, Undisturbed, Past, Looking
<1> QED BY <1>1, <1>3 DEF IInv

\* What the invariant says of run r depends on r's own fields, on what lies
\* where only r reads, and on the worktree.
LEMMA Frame ==
  ASSUME IInv, NEW r \in Runs, run'[r] = run[r], message'[r] = message[r],
         UNCHANGED <<tree, head, commits, flags>>
  PROVE  (RowIsHeld(r) /\ AnswerIsOwn(r) /\ LooksAgree(r))'
<1>1. ChangedFiles' = ChangedFiles /\ Unwatched' = Unwatched
  BY DEF ChangedFiles, Unwatched, InHead, Ignored, Untracked
<1>2. Wrote(r)' = Wrote(r)
  BY DEF Wrote, Found
<1> QED BY <1>1, <1>2 DEF IInv, RowIsHeld, AnswerIsOwn, LooksAgree, Undisturbed

\* A runner that has ended, or has not come to its looks, relies on nothing.
LEMMA Idle ==
  ASSUME NEW r \in Runs, run'[r].pc \notin Looking,
         run'[r].pc \in Past => run'[r].status = "running",
         run'[r].pc = "wait" => run'[r].harness # "off",
         run'[r].adapter # "fixed" /\ message'[r] # None => message'[r].by = r
  PROVE  (RowIsHeld(r) /\ AnswerIsOwn(r) /\ LooksAgree(r))'
BY DEF RowIsHeld, AnswerIsOwn, LooksAgree, Undisturbed, Past, Looking

\* Where only one run reads, no other run writes.
LEMMA OwnSlot ==
  ASSUME TypeOK, NEW q \in Runs, NEW r \in Runs, Slot(q) = r
  PROVE  q = r /\ run[q].adapter # "fixed"
BY HarnessAssumption DEF Slot


Sound(r) == RowIsHeld(r) /\ AnswerIsOwn(r) /\ LooksAgree(r)

LEMMA RunnerKeepsSound ==
  ASSUME IInv, NEW q \in Runs, NEW r \in Runs, Runner(q) \/ Recover(q)
  PROVE  Sound(r)'
<1> USE DEF Sound
<1>0. TypeOK /\ run[q] \in RunState /\ run \in [Runs -> RunState]
        /\ message \in [Slots -> Messages \cup {None}]
  BY DEF IInv, TypeOK
<1>1. UNCHANGED <<tree, head, commits, flags>>
  BY DEF Runner, Inspect, ClaimTask, ListIgnoredBefore, Spawn, SpawnFails, Collect,
         LookAtHead, LookAtStatus, ListIgnoredAfter, Report, Throw, Crash, Recover,
         repo, files
<1>2. message'[r] = message[r] \/ message'[r] = None
  BY <1>0
    DEF Runner, Inspect, ClaimTask, ListIgnoredBefore, Spawn, Emptied, SpawnFails, Collect,
        LookAtHead, LookAtStatus, ListIgnoredAfter, Report, Throw, Crash, Recover, Slots
<1>3. AnswerIsOwn(r)!2 /\ RowIsHeld(r) /\ AnswerIsOwn(r) /\ LooksAgree(r)
  BY DEF IInv, AnswerIsOwn
<1>4. CASE q # r
  <2>1. run'[r] = run[r]
    BY <1>0, <1>4
      DEF Runner, Inspect, ClaimTask, ListIgnoredBefore, Spawn, SpawnFails, Block, Collect,
          LookAtHead, LookAtStatus, ListIgnoredAfter, Report, Throw, Crash, Recover
  <2>2. message'[r] = message[r]
    BY <1>0, <1>4, OwnSlot
      DEF Runner, Inspect, ClaimTask, ListIgnoredBefore, Spawn, Emptied, SpawnFails, Collect,
          LookAtHead, LookAtStatus, ListIgnoredAfter, Report, Throw, Crash, Recover, Slots
  <2> QED BY <1>1, <2>1, <2>2, Frame
<1>5. CASE q = r
  <2>1. CASE Inspect(r) \/ ClaimTask(r) \/ ListIgnoredBefore(r) \/ Spawn(r)
    <3>1. run'[r].pc \notin Looking /\ run'[r].adapter = run[r].adapter
            /\ (run'[r].pc \in Past => run'[r].status = "running")
            /\ (run'[r].pc = "wait" => run'[r].harness # "off")
      BY <1>0, <1>3, <1>5, <2>1
        DEF RunState, Inspect, ClaimTask, ListIgnoredBefore, Spawn, At, RowIsHeld, Past,
            Looking
    <3> QED BY <1>2, <1>3, <3>1, Idle DEF AnswerIsOwn
  <2>2. CASE Report(r) \/ Throw(r) \/ Crash(r) \/ Recover(r)
    <3>1. run'[r].pc = "gone" /\ run'[r].adapter = run[r].adapter
      BY <1>0, <2>2, EndedFields DEF Report, Throw, Crash, Recover
    <3>2. /\ run'[r].pc \notin Looking
          /\ run'[r].pc \notin Past
          /\ run'[r].pc # "wait"
      BY <3>1 DEF Past, Looking
    <3>3. run'[r].adapter # "fixed" /\ message'[r] # None => message'[r].by = r
      BY <1>2, <1>3, <3>1 DEF AnswerIsOwn
    <3> QED BY <3>2, <3>3, Idle
  <2>3. CASE SpawnFails(r)
    <3>1. run'[r].pc = "head" /\ run'[r].adapter = run[r].adapter
            /\ run'[r].status = "running" /\ run'[r].error # "none"
      BY <1>0, <1>3, <2>3
        DEF RunState, SpawnFails, StartFailures, Block, At, RowIsHeld, Past
    <3> QED BY <1>2, <1>3, <3>1 DEF AnswerIsOwn, RowIsHeld, LooksAgree, Undisturbed
  <2>4. CASE Collect(r)
    <3>1. run'[r].pc = "head" /\ run'[r].adapter = run[r].adapter
            /\ run'[r].status = "running"
      BY <1>0, <1>3, <2>4 DEF RunState, Collect, Block, At, RowIsHeld, Past
    <3>2. run'[r].error = "none" =>
            /\ run'[r].harness = "exited"
            /\ run[r].adapter # "fixed" => run'[r].by = r
      <4>1. CASE \/ run[r].harness = "failed"
                 \/ message[Slot(r)] = None \/ message[Slot(r)] \notin Result
        BY <1>0, <2>4, <4>1 DEF RunState, Collect, Block
      <4>2. CASE ~\/ run[r].harness = "failed"
                  \/ message[Slot(r)] = None \/ message[Slot(r)] \notin Result
        <5>1. run'[r].harness = run[r].harness /\ run[r].harness \notin {"alive", "failed"}
                /\ run'[r].by = message[Slot(r)].by
          BY <1>0, <2>4, <4>2 DEF RunState, Collect
        <5>2. run[r].harness # "off"
          BY <2>4, <1>3 DEF Collect, At, RowIsHeld
        <5> QED BY <1>0, <1>3, <1>5, <4>2, <5>1, <5>2 DEF RunState, Slot, AnswerIsOwn
      <4> QED BY <4>1, <4>2
    <3> QED BY <1>2, <1>3, <3>1, <3>2 DEF AnswerIsOwn, RowIsHeld, LooksAgree, Undisturbed
  <2>5. ASSUME LookAtHead(r) \/ LookAtStatus(r) \/ ListIgnoredAfter(r)
        PROVE  RowIsHeld(r)' /\ AnswerIsOwn(r)'
    BY <1>0, <1>3, <1>5, <2>5, <1>2
      DEF RunState, LookAtHead, LookAtStatus, ListIgnoredAfter, At, RowIsHeld, AnswerIsOwn,
          Past, Looking
  <2>6. CASE LookAtHead(r)
    BY <1>0, <1>1, <2>5, <2>6 DEF RunState, LookAtHead, LooksAgree, Undisturbed
  <2>7. CASE LookAtStatus(r)
    <3>1. ChangedFiles' = ChangedFiles /\ Unwatched' = Unwatched
      BY <1>1 DEF ChangedFiles, Unwatched, InHead, Ignored, Untracked
    <3> QED BY <1>0, <1>1, <1>3, <2>5, <2>7, <3>1
        DEF RunState, LookAtStatus, At, LooksAgree, Undisturbed
  <2>8. CASE ListIgnoredAfter(r)
    <3>1. Wrote(r)' = Wrote(r)
      BY <1>0, <1>1, <2>8 DEF RunState, ListIgnoredAfter, Wrote, Found
    <3>2. Undisturbed(r, "report")' => Undisturbed(r, "ignored")
      BY <1>0, <2>8 DEF RunState, ListIgnoredAfter, At, Undisturbed
    <3>3. run'[r].pc = "report"
            /\ run'[r].changed = run[r].changed \cup Differing(run[r].before, IgnoredFiles)
            /\ run'[r].unseen = run[r].unseen
      BY <1>0, <2>8 DEF RunState, ListIgnoredAfter
    <3>4. ASSUME Undisturbed(r, "report")'
          PROVE  Wrote(r)' \subseteq run'[r].changed \cup run'[r].unseen
      <4>1. /\ head = run[r].base
            /\ run[r].changed = ChangedFiles
            /\ run[r].unseen = Unwatched
        BY <1>3, <3>2, <3>4 DEF LooksAgree
      <4> QED BY <1>0, <3>1, <3>3, <4>1, LooksCover
    <3>5. LooksAgree(r)'
      BY <3>3, <3>4 DEF LooksAgree, Undisturbed
    <3> QED BY <2>5, <2>8, <3>5
  <2> QED BY <1>5, <2>1, <2>2, <2>3, <2>4, <2>6, <2>7, <2>8 DEF Runner
<1> QED BY <1>4, <1>5

\* A write tells a runner that looks, and changes nothing else it knows.
LEMMA DisturbedFields ==
  ASSUME TypeOK, NEW r \in Runs, NEW d,
         d = Disturbed[r] \/ \E wrote : d = [Disturbed[r] EXCEPT !.wrote = wrote]
  PROVE  /\ d.pc = run[r].pc
         /\ d.status = run[r].status
         /\ d.reason = run[r].reason
         /\ d.adapter = run[r].adapter
         /\ d.harness = run[r].harness
         /\ d.error = run[r].error
         /\ d.by = run[r].by
         /\ d.base = run[r].base
         /\ d.before = run[r].before
         /\ d.moved = run[r].moved
         /\ d.changed = run[r].changed
         /\ d.unseen = run[r].unseen
         /\ run[r].pc \in {"status", "ignored"} => ~d.alone
         /\ d.alone => run[r].alone
<1>1. run[r] \in RunState
  BY DEF TypeOK
<1>2. CASE r \in Observing
  <2>1. Disturbed[r] = [run[r] EXCEPT !.alone = FALSE]
    BY <1>2 DEF Disturbed
  <2>2. CASE d = Disturbed[r]
    BY <1>1, <2>1, <2>2 DEF RunState
  <2>3. CASE \E wrote : d = [Disturbed[r] EXCEPT !.wrote = wrote]
    <3>1. PICK wrote : d = [[run[r] EXCEPT !.alone = FALSE] EXCEPT !.wrote = wrote]
      BY <2>1, <2>3
    <3> QED BY <1>1, <3>1 DEF RunState
  <2> QED BY <2>2, <2>3
<1>3. CASE r \notin Observing
  <2>1. Disturbed[r] = run[r] /\ run[r].pc \notin {"status", "ignored"}
    BY <1>3 DEF Disturbed, Observing
  <2>2. CASE d = Disturbed[r]
    BY <2>1, <2>2
  <2>3. CASE \E wrote : d = [Disturbed[r] EXCEPT !.wrote = wrote]
    <3>1. PICK wrote : d = [run[r] EXCEPT !.wrote = wrote]
      BY <2>1, <2>3
    <3> QED BY <1>1, <2>1, <3>1 DEF RunState
  <2> QED BY <2>2, <2>3
<1> QED BY <1>2, <1>3

LEMMA WorktreeKeepsSound ==
  ASSUME IInv, NEW r \in Runs,
         \/ \E who, c : \E p \in Paths : (who \in Runs => Alive(who)) /\ PutFile(p, c, who)
         \/ CommitAll
         \/ \E q \in Runs : Reset(q)
         \/ Discard
         \/ \E p \in Paths : FlagFile(p)
  PROVE  Sound(r)'
<1> USE DEF Sound
<1>0. TypeOK /\ run[r] \in RunState /\ message' = message
  BY DEF IInv, TypeOK, PutFile, CommitAll, Reset, Discard, FlagFile
<1>1. RowIsHeld(r) /\ AnswerIsOwn(r) /\ LooksAgree(r)
  BY DEF IInv
<1>2. /\ run'[r].pc = run[r].pc
      /\ run'[r].status = run[r].status
      /\ run'[r].adapter = run[r].adapter
      /\ run'[r].harness = run[r].harness
      /\ run'[r].error = run[r].error
      /\ run'[r].by = run[r].by
      /\ run'[r].base = run[r].base
      /\ run'[r].before = run[r].before
      /\ run'[r].moved = run[r].moved
      /\ run'[r].changed = run[r].changed
      /\ run'[r].unseen = run[r].unseen
      /\ run[r].pc \in {"status", "ignored"} => ~run'[r].alone
      /\ run'[r].alone => run[r].alone
  <2>1. \/ run'[r] = Disturbed[r]
        \/ \E wrote : run'[r] = [Disturbed[r] EXCEPT !.wrote = wrote]
    BY DEF PutFile, CommitAll, Reset, Discard, FlagFile, WrittenBy
  <2>2. Disturbed[r] \in RunState
    BY <1>0, DisturbedType DEF TypeOK
  <2> DEFINE old == Disturbed[r]
  <2>3. PICK wrote : run'[r] = [old EXCEPT !.wrote = wrote]
    <3>1. old = [old EXCEPT !.wrote = old.wrote]
      BY <2>2 DEF RunState
    <3> QED BY <2>1, <3>1
  <2> HIDE DEF old
  <2>4. old \in RunState
    BY <2>2 DEF old
  <2>5. /\ run'[r].pc = old.pc
        /\ run'[r].status = old.status
        /\ run'[r].adapter = old.adapter
        /\ run'[r].harness = old.harness
        /\ run'[r].error = old.error
        /\ run'[r].by = old.by
        /\ run'[r].base = old.base
        /\ run'[r].before = old.before
        /\ run'[r].moved = old.moved
        /\ run'[r].changed = old.changed
        /\ run'[r].unseen = old.unseen
        /\ run'[r].alone = old.alone
    BY <2>3, <2>4 DEF RunState
  <2> QED BY <1>0, <2>5, DisturbedFields DEF old
<1>3. RowIsHeld(r)' /\ AnswerIsOwn(r)'
  BY <1>0, <1>1, <1>2 DEF RowIsHeld, AnswerIsOwn
<1>4. ~Undisturbed(r, "status")' /\ ~Undisturbed(r, "ignored")'
  BY <1>2 DEF Undisturbed
<1>5. ASSUME Undisturbed(r, "report")'
      PROVE  Wrote(r)' \subseteq run'[r].changed \cup run'[r].unseen
  <2>1. Wrote(r) \subseteq run[r].changed \cup run[r].unseen
    BY <1>1, <1>2, <1>5 DEF LooksAgree, Undisturbed
  <2>2. run[r].pc = "report"
    BY <1>2, <1>5 DEF Undisturbed
  <2>3. run[r].base \in DOMAIN commits
    BY <1>0 DEF RunState
  <2>4. CASE \E who, c : \E p \in Paths : (who \in Runs => Alive(who)) /\ PutFile(p, c, who)
    <3>0. PICK who, c : \E p \in Paths : (who \in Runs => Alive(who)) /\ PutFile(p, c, who)
      BY <2>4
    <3>1. PICK p \in Paths : (who \in Runs => Alive(who)) /\ PutFile(p, c, who)
      BY <3>0
    <3>2. who # r
      BY <3>1, <2>2 DEF Alive, At
    <3>3. run'[r].wrote = run[r].wrote \ {p} /\ run[r].wrote \subseteq Paths
      BY <1>0, <3>1, <3>2 DEF RunState, PutFile, WrittenBy, Disturbed
    <3>4. \A x \in Paths \ {p} : tree'[x] = tree[x]
      BY <1>0, <3>1 DEF PutFile, TypeOK, Files
    <3>5. \A x : Found(r, x)' = Found(r, x)
      BY <1>2, <3>1 DEF PutFile, repo, Found
    <3>6. Wrote(r)' \subseteq Wrote(r)
      BY <3>3, <3>4, <3>5 DEF Wrote
    <3> QED BY <1>2, <2>1, <3>6
  <2>5. CASE CommitAll
    <3>1. tree' = tree /\ run'[r].wrote = run[r].wrote
            /\ commits'[run[r].base] = commits[run[r].base]
      BY <1>0, <2>3, <2>5 DEF RunState, CommitAll, files, Disturbed
    <3>2. Wrote(r)' = Wrote(r)
      BY <1>2, <3>1 DEF Wrote, Found
    <3> QED BY <1>2, <2>1, <3>2
  <2>6. CASE \E q \in Runs : Reset(q)
    <3>1. tree' = tree /\ run'[r].wrote = run[r].wrote /\ commits' = commits
      BY <1>0, <2>6 DEF RunState, Reset, files, Disturbed
    <3>2. Wrote(r)' = Wrote(r)
      BY <1>2, <3>1 DEF Wrote, Found
    <3> QED BY <1>2, <2>1, <3>2
  <2>7. CASE Discard
    BY <1>1, <2>2, <2>7 DEF Discard, RowIsHeld, Past
  <2>8. CASE \E p \in Paths : FlagFile(p)
    <3>1. tree' = tree /\ run'[r].wrote = run[r].wrote /\ commits' = commits
      BY <1>0, <2>8 DEF RunState, FlagFile, Disturbed
    <3>2. Wrote(r)' = Wrote(r)
      BY <1>2, <3>1 DEF Wrote, Found
    <3> QED BY <1>2, <2>1, <3>2
  <2> QED BY <2>4, <2>5, <2>6, <2>7, <2>8
<1>6. LooksAgree(r)'
  BY <1>4, <1>5 DEF LooksAgree
<1> QED BY <1>3, <1>6

LEMMA ExitKeepsSound ==
  ASSUME IInv, NEW q \in Runs, NEW r \in Runs, Exit(q)
  PROVE  Sound(r)'
<1> USE DEF Sound
<1>0. TypeOK /\ run[q] \in RunState /\ run \in [Runs -> RunState]
        /\ message \in [Slots -> Messages \cup {None}]
        /\ RowIsHeld(r) /\ AnswerIsOwn(r) /\ LooksAgree(r)
  BY DEF IInv, TypeOK
<1>1. CASE q # r
  <2>1. run'[r] = run[r] /\ UNCHANGED <<tree, head, commits, flags>>
    BY <1>0, <1>1 DEF Exit, repo, files
  <2>2. message'[r] = message[r]
    BY <1>0, <1>1, OwnSlot DEF Exit, Slots
  <2> QED BY <2>1, <2>2, Frame
<1>2. CASE q = r
  <2>1. /\ run'[r].pc = "wait"
        /\ run'[r].status = "running"
        /\ run'[r].harness # "off"
        /\ run'[r].adapter = run[r].adapter
    BY <1>0, <1>2 DEF RunState, Exit, Alive, At, RowIsHeld, Past
  <2>2. run'[r].adapter # "fixed" /\ message'[r] # None => message'[r].by = r
    BY <1>0, <1>2, <2>1 DEF Exit, Slot, Slots, Result, Garbage, AnswerIsOwn
  <2> QED BY <2>1, <2>2, Idle DEF Looking
<1> QED BY <1>1, <1>2

LEMMA IInvNext == IInv /\ [Next]_vars => IInv'
<1> SUFFICES ASSUME IInv, [Next]_vars PROVE IInv'
  OBVIOUS
<1>1. TypeOK' /\ Kept'
  BY TypeNext DEF IInv
<1>2. ASSUME NEW r \in Runs PROVE Sound(r)'
  <2>1. CASE UNCHANGED vars
    BY <2>1, Frame DEF vars, Sound
  <2>2. CASE \E q \in Runs : Runner(q) \/ Recover(q)
    BY <2>2, RunnerKeepsSound
  <2>3. CASE (\E q \in Runs : Worker(q)) \/ Others
    BY <2>3, HarnessAssumption, WorktreeKeepsSound, ExitKeepsSound
      DEF Worker, Others, Write, Meddle, CommitWork, CommitByOwner, Flag, FlagByOthers
  <2> QED BY <2>1, <2>2, <2>3 DEF Next
<1> QED BY <1>1, <1>2 DEF IInv, Sound

-----------------------------------------------------------------------------
(* Theorems *)

LEMMA Safety == Spec => []IInv
BY IInvInit, IInvNext, PTL DEF Spec

\* Whatever a harness does to ignore rules, to ignored files, to index flags and
\* to commits, the changed files of an undisturbed report cover what it wrote,
\* except for tracked files that were flagged when git status ran.
THEOREM OnlyFlagsHideHolds == Spec => []OnlyFlagsHide
<1>1. IInv => OnlyFlagsHide
  BY DEF IInv, LooksAgree, Undisturbed, OnlyFlagsHide, At
<1> QED BY <1>1, Safety, PTL

\* Only a report makes an execution believed.
LEMMA AcceptedByReport ==
  ASSUME TypeOK, [Next]_vars, NEW r \in Runs, ~Accepted(r), Accepted(r)'
  PROVE  Report(r)
<1>0. run[r] \in RunState /\ run \in [Runs -> RunState]
  BY DEF TypeOK
<1>1. \/ run'[r].status = "completed" /\ run[r].status # "completed"
      \/ run'[r].reason = "WORKER" /\ run[r].reason # "WORKER"
  BY DEF Accepted
<1>2. CASE UNCHANGED vars
  BY <1>1, <1>2 DEF vars
<1>3. ASSUME NEW q \in Runs, Runner(q) \/ Recover(q), ~(q = r /\ Report(r)) PROVE FALSE
  <2>1. CASE q # r
    <3>1. run'[r] = run[r]
      BY <1>0, <1>3, <2>1
        DEF Runner, Inspect, ClaimTask, ListIgnoredBefore, Spawn, SpawnFails, Block, Collect,
            LookAtHead, LookAtStatus, ListIgnoredAfter, Report, Throw, Crash, Recover
    <3> QED BY <1>1, <3>1
  <2>2. CASE q = r /\ (Throw(r) \/ Crash(r) \/ Recover(r))
    <3>1. run'[r].reason = "none"
            /\ (run'[r].status = "completed" => run[r].status = "completed")
      BY <1>0, <2>2, EndedFields DEF Throw, Crash, Recover
    <3> QED BY <1>1, <3>1
  <2>3. CASE q = r /\ ~(Throw(r) \/ Crash(r) \/ Recover(r))
    <3>1. run'[r].reason = run[r].reason
            /\ (run'[r].status = "completed" => run[r].status = "completed")
      BY <1>0, <1>3, <2>3
        DEF RunState, Runner, Inspect, ClaimTask, ListIgnoredBefore, Spawn, SpawnFails, Block,
            Collect, LookAtHead, LookAtStatus, ListIgnoredAfter
    <3> QED BY <1>1, <3>1
  <2> QED BY <2>1, <2>2, <2>3
<1>4. ASSUME \/ \E who, c : \E p \in Paths : PutFile(p, c, who)
             \/ CommitAll
             \/ \E q \in Runs : Reset(q) \/ Exit(q)
             \/ Discard
             \/ \E p \in Paths : FlagFile(p)
      PROVE  FALSE
  <2>1. \/ run'[r] = Disturbed[r]
        \/ \E wrote : run'[r] = [Disturbed[r] EXCEPT !.wrote = wrote]
        \/ \E how : run'[r] = [run[r] EXCEPT !.harness = how]
        \/ run'[r] = run[r]
    BY <1>0, <1>4 DEF PutFile, CommitAll, Reset, Exit, Discard, FlagFile, WrittenBy
  <2>2. ASSUME NEW how, run'[r] = [run[r] EXCEPT !.harness = how]
        PROVE  run'[r].status = run[r].status /\ run'[r].reason = run[r].reason
    BY <1>0, <2>2 DEF RunState
  <2>3. run'[r].status = run[r].status /\ run'[r].reason = run[r].reason
    BY <2>1, <2>2, DisturbedFields
  <2> QED BY <1>1, <2>3
<1> QED BY <1>2, <1>3, <1>4
     DEF Next, Worker, Others, Write, Meddle, CommitWork, CommitByOwner, Flag,
         FlagByOthers

\* What a report that believes the worker is made of.
LEMMA Believed ==
  ASSUME IInv, NEW r \in Runs, Report(r), Accepted(r)'
  PROVE  run[r].error = "none" /\ ErrorCode(r) = "none"
<1>0. run[r] \in RunState /\ run \in [Runs -> RunState]
  BY DEF IInv, TypeOK
<1>1. \/ run[r].answer = "completed" /\ ErrorCode(r) = "none"
      \/ run'[r].status = "blocked" /\ run'[r].reason = Reason(ErrorCode(r))
  BY <1>0, EndedFields DEF Report
<1>2. ErrorCode(r) \in ErrorCodes \cup {"none", "UNEXPECTED_HEAD_CHANGE", "SCOPE_VIOLATION"}
  BY <1>0 DEF ErrorCode, RunState
<1>3. ErrorCode(r) = "none"
  BY <1>1, <1>2 DEF Accepted, Reason, ErrorCodes
<1> QED BY <1>3 DEF ErrorCode

\* A harness is believed only if it exited, left HEAD at the base and, as far
\* as an undisturbed runner sees, every file outside the scope alone: what it does
\* not see are tracked files that were flagged when git status ran.
THEOREM ScopeIsEnforcedHolds == Spec => ScopeIsEnforced
<1>1. ASSUME IInv, [Next]_vars, NEW r \in Runs, ~Accepted(r), Accepted(r)'
      PROVE  /\ run[r].harness = "exited"
             /\ ~run[r].moved
             /\ run[r].alone =>
                  \A p \in Wrote(r) \ run[r].unseen : isAllowedFile(r, p)
  <2>1. Report(r)
    BY <1>1, AcceptedByReport DEF IInv
  <2>2. run[r].error = "none" /\ ErrorCode(r) = "none"
    BY <1>1, <2>1, Believed
  <2>3. ~run[r].moved /\ ~\E p \in run[r].changed : ~isAllowedFile(r, p)
    BY <2>2 DEF ErrorCode
  <2>4. AnswerIsOwn(r) /\ LooksAgree(r) /\ run[r].pc = "report"
    BY <1>1, <2>1 DEF IInv, Report, At
  <2>5. run[r].harness = "exited"
    BY <2>2, <2>4 DEF AnswerIsOwn, Looking
  <2>6. run[r].alone => Wrote(r) \subseteq run[r].changed \cup run[r].unseen
    BY <2>3, <2>4 DEF LooksAgree, Undisturbed
  <2> QED BY <2>3, <2>5, <2>6
<1>2. IInv /\ [Next]_vars =>
        [\A r \in Runs :
           ~Accepted(r) /\ Accepted(r)' =>
             /\ run[r].harness = "exited"
             /\ ~run[r].moved
             /\ run[r].alone =>
                  \A p \in Wrote(r) \ run[r].unseen : isAllowedFile(r, p)]_run
  BY <1>1
<1> QED BY <1>2, Safety, PTL DEF Spec, ScopeIsEnforced

\* The result that an execution is believed for is its own.
THEOREM ResultIsOwnHolds == Spec => ResultIsOwn
<1>1. ASSUME IInv, [Next]_vars, NEW r \in Runs,
             ~Accepted(r), Accepted(r)', run[r].adapter # "fixed"
      PROVE  run[r].by = r
  <2>1. Report(r)
    BY <1>1, AcceptedByReport DEF IInv
  <2>2. run[r].error = "none"
    BY <1>1, <2>1, Believed
  <2> QED BY <1>1, <2>1, <2>2 DEF IInv, Report, At, AnswerIsOwn, Looking
<1>2. IInv /\ [Next]_vars =>
        [\A r \in Runs :
           ~Accepted(r) /\ Accepted(r)' /\ run[r].adapter # "fixed" => run[r].by = r]_run
  BY <1>1
<1> QED BY <1>2, Safety, PTL DEF Spec, ResultIsOwn

=============================================================================
