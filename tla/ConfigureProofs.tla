-------------------------- MODULE ConfigureProofs --------------------------
(***************************************************************************)
(* No file is lost, and the source of an active proposal is kept, for      *)
(* every number of processes, names, crashes and edits.                    *)
(*                                                                         *)
(* The invariant of the first says what a process may still write to: the  *)
(* proposal it holds keeps a name among the artifacts, which are never     *)
(* removed or replaced, and so does what it captured.  The invariant of    *)
(* the second says that what a process read of the backups stays true      *)
(* while other processes run, so that it may act on it steps later.        *)
(***************************************************************************)
EXTENDS Configure, TLAPS

-----------------------------------------------------------------------------
(* The inductive invariant *)

\* The files that have an artifact for a name.
Artifacts == proposed \cup {f \in Files : \E b \in Names : backups[b] = f}

WithProposal ==
  {"write", "rescan", "authorize", "apply", "reread", "capture", "captured",
   "lost", "source", "install", "reauthorize", "link"}

\* What a process holds is there for it to use.
Holds(me) ==
  /\ me.pc \in WithProposal => me.proposal \in Artifacts
  /\ me.pc \in {"captured", "restore"} => me.captured \in Names /\ backups[me.captured] # None
  /\ me.pc \in {"apply", "reauthorize"} => me.auth \in Descriptors

Held == \A p \in Procs : Holds(proc[p])

IInv == TypeOK /\ Held /\ NothingIsLost

\* Artifacts are only added.
ArtifactsStay ==
  /\ proposed \subseteq proposed'
  /\ \A b \in Names : backups[b] # None => backups'[b] = backups[b]

\* A step of a process, whether it crashes or not.
Calm == UNCHANGED <<existing, discarded, tampered, edits>> /\ crashes' \in Nat

LEMMA FilesAre == /\ None \notin Files /\ Names \subseteq Files
                  /\ Foreign \subseteq Files /\ Original \in Files
BY ConfigureAssumption DEF Files

LEMMA LinkedIs ==
  ASSUME TypeOK, NEW f \in Files
  PROVE  Linked(f) <=> f = target \/ f \in Artifacts
BY DEF Linked, Artifacts

LEMMA StayingArtifacts ==
  ASSUME TypeOK, ArtifactsStay
  PROVE  Artifacts \subseteq Artifacts'
BY FilesAre DEF TypeOK, ArtifactsStay, Artifacts

\* While artifacts stay, so does what the processes hold.
LEMMA StayHeld ==
  ASSUME TypeOK, ArtifactsStay, NEW me, Holds(me)
  PROVE  Holds(me)'
BY StayingArtifacts DEF Holds, ArtifactsStay

\* One process turns to me.
LEMMA Turn ==
  ASSUME IInv, ArtifactsStay, NEW p \in Procs, NEW me \in ProcState, Holds(me)',
         proc' = [proc EXCEPT ![p] = me]
  PROVE  proc' \in [Procs -> ProcState] /\ Held'
<1>1. \A q \in Procs : q # p => proc'[q] = proc[q]
  BY DEF IInv, TypeOK
<1>2. proc'[p] = me
  BY DEF IInv, TypeOK
<1>3. \A q \in Procs : q # p => Holds(proc[q])'
  BY StayHeld DEF IInv, Held, Holds
<1> QED BY <1>1, <1>2, <1>3 DEF IInv, TypeOK, Held, Holds

\* A step of a process that only reads keeps the invariant if what the process
\* then holds is there.
LEMMA ReadingKeeps ==
  ASSUME IInv, NEW p \in Procs, NEW me \in ProcState, Holds(me),
         proc' = [proc EXCEPT ![p] = me], UNCHANGED disk, Calm
  PROVE  IInv'
<1>1. ArtifactsStay
  BY DEF ArtifactsStay, disk
<1>2. Holds(me)'
  BY DEF Holds, Artifacts, disk
<1>3. proc' \in [Procs -> ProcState] /\ Held'
  BY <1>1, <1>2, Turn
<1> QED BY <1>3 DEF IInv, TypeOK, NothingIsLost, Linked, disk, Calm

LEMMA IdleHolds == Idle \in ProcState /\ Holds(Idle)
BY DEF Idle, ProcState, Holds, WithProposal

LEMMA ActiveType == TypeOK => Active \in Classes \cup {"MISSING", "none"}
BY FilesAre DEF TypeOK, Active, Class

\* The backups of a class are files.
LEMMA BackupFiles ==
  ASSUME TypeOK, NEW class, NEW b \in Backups(class)
  PROVE  b \in Names /\ backups[b] # None /\ backups[b] \in Artifacts
BY DEF TypeOK, Backups, Artifacts

LEMMA ReadsKeep ==
  ASSUME IInv, NEW p \in Procs,
         \/ Begin(p) \/ FindSource(p) \/ Read(p) \/ ScanRestore(p) \/ ScanApplied(p)
         \/ ScanInstall(p) \/ ScanCreate(p) \/ ScanReuse(p) \/ Rescan(p)
         \/ Authorize(p) \/ Reread(p) \/ CaptureFails(p) \/ Converge(p) \/ Judge(p)
         \/ TakeSource(p) \/ Agree(p) \/ LinkFails(p) \/ Confirm(p)
         \/ Throw(p) \/ Crash(p)
  PROVE  IInv'
<1> DEFINE me == proc[p]
<1>0. me \in ProcState /\ Holds(me) /\ TypeOK
  BY DEF IInv, TypeOK, Held
<1>1. ASSUME Reading, NEW new \in ProcState, Holds(new), proc' = [proc EXCEPT ![p] = new]
      PROVE  IInv'
  BY <1>0, <1>1, ReadingKeeps DEF Reading, Others, Calm, TypeOK
\* Only the place in the transaction changes.
<1>2. ASSUME Reading, Goto(p, "read") \/ Goto(p, "find") \/ Goto(p, "create")
                      \/ Goto(p, "confirm")
      PROVE  IInv'
  <2>1. PICK pc \in {"read", "find", "create", "confirm"} : Goto(p, pc)
    BY <1>2
  <2> DEFINE new == [me EXCEPT !.pc = pc]
  <2>2. new \in ProcState /\ new.pc = pc
    BY <1>0 DEF ProcState
  <2>3. proc' = [proc EXCEPT ![p] = new]
    BY <2>1 DEF Goto
  <2> HIDE DEF new
  <2>4. Holds(new)
    BY <2>2 DEF Holds, WithProposal
  <2> QED BY <1>1, <1>2, <2>2, <2>3, <2>4
<1>3. ASSUME Reading, me.pc \in WithProposal,
             NEW pc \in {"capture", "source", "lost", "link"}, Goto(p, pc)
      PROVE  IInv'
  <2> DEFINE new == [me EXCEPT !.pc = pc]
  <2>1. new \in ProcState /\ new.pc = pc /\ new.proposal = me.proposal
    BY <1>0, <1>3 DEF ProcState
  <2>2. proc' = [proc EXCEPT ![p] = new]
    BY <1>3 DEF Goto
  <2> HIDE DEF new
  <2>3. Holds(new)
    BY <1>0, <1>3, <2>1 DEF Holds
  <2> QED BY <1>1, <1>3, <2>1, <2>2, <2>3
<1>4. CASE Begin(p) \/ FindSource(p) \/ ScanCreate(p) \/ LinkFails(p)
  BY <1>2, <1>4 DEF Begin, FindSource, ScanCreate, LinkFails
<1>5. CASE Read(p)
  <2> DEFINE new == [me EXCEPT !.pc = "scan", !.current = Active]
  <2>1. new \in ProcState /\ new.pc = "scan"
    BY <1>0, ActiveType DEF ProcState
  <2>2. Reading /\ proc' = [proc EXCEPT ![p] = new]
    BY <1>5 DEF Read
  <2> HIDE DEF new
  <2>3. Holds(new)
    BY <2>1 DEF Holds, WithProposal
  <2> QED BY <1>1, <2>1, <2>2, <2>3
<1>6. ASSUME Reading, NEW class, NEW b \in Backups(class), NEW pc \in {"restore", "captured"},
             pc = "captured" => me.pc \in WithProposal,
             proc' = [proc EXCEPT ![p].pc = pc, ![p].captured = b]
      PROVE  IInv'
  <2> DEFINE new == [me EXCEPT !.pc = pc, !.captured = b]
  <2>1. b \in Names /\ backups[b] # None
    BY <1>0, BackupFiles
  <2>2. new \in ProcState /\ new.pc = pc /\ new.captured = b /\ new.proposal = me.proposal
    BY <1>0, <2>1 DEF ProcState
  <2>3. proc' = [proc EXCEPT ![p] = new]
    BY <1>6
  <2> HIDE DEF new
  <2>4. Holds(new)
    BY <1>0, <1>6, <2>1, <2>2 DEF Holds, WithProposal
  <2> QED BY <1>1, <1>6, <2>2, <2>3, <2>4
<1>7. CASE ScanRestore(p)
  BY <1>6, <1>7 DEF ScanRestore
<1>8. ASSUME Reading, NEW auth \in Descriptors \cup {None},
             proc' = [proc EXCEPT ![p].pc = "confirm", ![p].auth = auth]
      PROVE  IInv'
  <2> DEFINE new == [me EXCEPT !.pc = "confirm", !.auth = auth]
  <2>1. new \in ProcState /\ new.pc = "confirm"
    BY <1>0 DEF ProcState
  <2>2. proc' = [proc EXCEPT ![p] = new]
    BY <1>8
  <2> HIDE DEF new
  <2>3. Holds(new)
    BY <2>1 DEF Holds, WithProposal
  <2> QED BY <1>1, <1>8, <2>1, <2>2, <2>3
<1>9. CASE ScanApplied(p)
  <2>1. PICK auth \in Descriptors \cup {None} :
          proc' = [proc EXCEPT ![p].pc = "confirm", ![p].auth = auth]
    BY <1>9 DEF ScanApplied
  <2> QED BY <1>8, <1>9, <2>1 DEF ScanApplied
\* A proposal is taken, which is an artifact.
<1>10. ASSUME Reading, NEW f \in Artifacts, NEW pc \in {"install", "authorize"},
              proc' = [proc EXCEPT ![p].pc = pc, ![p].proposal = f,
                                   ![p].sources = Backups("SOURCE")]
       PROVE  IInv'
  <2> DEFINE new == [me EXCEPT !.pc = pc, !.proposal = f, !.sources = Backups("SOURCE")]
  <2>1. f \in Files /\ Backups("SOURCE") \in SUBSET Names
    BY <1>0, FilesAre DEF Artifacts, Backups, TypeOK
  <2>2. new \in ProcState /\ new.pc = pc /\ new.proposal = f
    BY <1>0, <2>1 DEF ProcState
  <2>3. proc' = [proc EXCEPT ![p] = new]
    BY <1>10
  <2> HIDE DEF new
  <2>4. Holds(new)
    BY <1>10, <2>2 DEF Holds, WithProposal
  <2> QED BY <1>1, <1>10, <2>2, <2>3, <2>4
<1>11. CASE ScanInstall(p)
  <2>1. PICK f \in ProvenProposals :
          proc' = [proc EXCEPT ![p].pc = "install", ![p].proposal = f,
                               ![p].sources = Backups("SOURCE")]
    BY <1>11 DEF ScanInstall
  <2>2. f \in Artifacts /\ Reading
    BY <1>0, <1>11, BackupFiles DEF ProvenProposals, Artifacts, Backups, ScanInstall
  <2> QED BY <1>10, <2>1, <2>2
<1>12. CASE ScanReuse(p)
  <2>1. PICK n \in proposed :
          proc' = [proc EXCEPT ![p].pc = "authorize", ![p].proposal = n,
                               ![p].sources = Backups("SOURCE")]
    BY <1>12 DEF ScanReuse
  <2>2. n \in Artifacts /\ Reading
    BY <1>12 DEF Artifacts, ScanReuse
  <2> QED BY <1>10, <2>1, <2>2
<1>13. ASSUME Reading, me.pc \in WithProposal, NEW pc \in {"install", "authorize"},
              proc' = [proc EXCEPT ![p].pc = pc, ![p].sources = Backups("SOURCE")]
       PROVE  IInv'
  <2> DEFINE new == [me EXCEPT !.pc = pc, !.sources = Backups("SOURCE")]
  <2>1. Backups("SOURCE") \in SUBSET Names
    BY DEF Backups
  <2>2. new \in ProcState /\ new.pc = pc /\ new.proposal = me.proposal
    BY <1>0, <2>1 DEF ProcState
  <2>3. proc' = [proc EXCEPT ![p] = new]
    BY <1>13
  <2> HIDE DEF new
  <2>4. Holds(new)
    BY <1>0, <1>13, <2>2 DEF Holds
  <2> QED BY <1>1, <1>13, <2>2, <2>3, <2>4
<1>14. CASE Rescan(p)
  <2> DEFINE pc == IF existing THEN "authorize" ELSE "install"
  <2>1. /\ pc \in {"install", "authorize"} /\ Reading /\ me.pc \in WithProposal
        /\ proc' = [proc EXCEPT ![p].pc = pc, ![p].sources = Backups("SOURCE")]
    BY <1>14 DEF Rescan, At, WithProposal
  <2> HIDE DEF pc
  <2> QED BY <1>13, <2>1
<1>15. CASE TakeSource(p)
  BY <1>13, <1>15 DEF TakeSource, At, WithProposal
<1>16. ASSUME Reading, me.pc \in WithProposal, NEW auth \in Descriptors,
              NEW pc \in {"apply", "reauthorize"},
              proc' = [proc EXCEPT ![p].pc = pc, ![p].auth = auth]
       PROVE  IInv'
  <2> DEFINE new == [me EXCEPT !.pc = pc, !.auth = auth]
  <2>1. new \in ProcState /\ new.pc = pc /\ new.proposal = me.proposal /\ new.auth = auth
    BY <1>0 DEF ProcState
  <2>2. proc' = [proc EXCEPT ![p] = new]
    BY <1>16
  <2> HIDE DEF new
  <2>3. Holds(new)
    BY <1>0, <1>16, <2>1 DEF Holds
  <2> QED BY <1>1, <1>16, <2>1, <2>2, <2>3
<1>17. CASE Authorize(p)
  <2>1. PICK auth \in Descriptors : proc' = [proc EXCEPT ![p].pc = "apply", ![p].auth = auth]
    BY <1>17 DEF Authorize
  <2>2. Reading /\ me.pc \in WithProposal
    BY <1>17 DEF Authorize, At, WithProposal
  <2> QED BY <1>16, <2>1, <2>2
<1>18. CASE Reread(p)
  <2> DEFINE pc == IF Active = "SOURCE" THEN "capture" ELSE "source"
  <2>1. pc \in {"capture", "source"} /\ Reading /\ Goto(p, pc) /\ me.pc \in WithProposal
    BY <1>18 DEF Reread, At, WithProposal
  <2> HIDE DEF pc
  <2> QED BY <1>3, <2>1
<1>19. CASE CaptureFails(p)
  BY <1>3, <1>19 DEF CaptureFails, At, WithProposal
<1>20. CASE Converge(p)
  <2>0. me.pc \in WithProposal /\ Reading
    BY <1>20 DEF Converge, At, WithProposal
  <2>1. \/ \E auth \in Descriptors \cup {None} :
             proc' = [proc EXCEPT ![p].pc = "confirm", ![p].auth = auth]
        \/ \E class \in {"SOURCE", "PROPOSED"} : \E b \in Backups(class) :
             proc' = [proc EXCEPT ![p].pc = "captured", ![p].captured = b]
    BY <1>20 DEF Converge
  <2> QED BY <1>6, <1>8, <2>0, <2>1
<1>21. CASE Judge(p)
  <2> DEFINE f == backups[me.captured]
  <2>0. /\ me.pc = "captured" /\ me.pc \in WithProposal /\ Reading
        /\ me.captured \in Names /\ f # None /\ f \in Artifacts
    BY <1>0, <1>21 DEF Judge, At, Holds, TypeOK, Artifacts, WithProposal
  <2>1. CASE Goto(p, "source")
    BY <1>3, <2>0, <2>1
  <2>2. CASE proc' = [proc EXCEPT ![p].pc = "install", ![p].proposal = f,
                                  ![p].sources = Backups("SOURCE")]
    BY <1>10, <2>0, <2>2
  <2>3. CASE Goto(p, "restore")
    <3> DEFINE new == [me EXCEPT !.pc = "restore"]
    <3>1. new \in ProcState /\ new.pc = "restore" /\ new.captured = me.captured
      BY <1>0 DEF ProcState
    <3>2. proc' = [proc EXCEPT ![p] = new]
      BY <2>3 DEF Goto
    <3> HIDE DEF new
    <3>3. Holds(new)
      BY <2>0, <3>1 DEF Holds, WithProposal
    <3> QED BY <1>1, <2>0, <3>1, <3>2, <3>3
  <2> QED BY <1>21, <2>1, <2>2, <2>3 DEF Judge
<1>22. CASE Agree(p)
  <2>0. me.pc \in WithProposal /\ Reading
    BY <1>22 DEF Agree, At, WithProposal
  <2>1. \/ Goto(p, "link")
        \/ \E auth \in Descriptors :
             proc' = [proc EXCEPT ![p].pc = "reauthorize", ![p].auth = auth]
    BY <1>22 DEF Agree
  <2> QED BY <1>3, <1>16, <2>0, <2>1
<1>23. CASE Confirm(p) \/ Throw(p) \/ Crash(p)
  <2>1. proc' = [proc EXCEPT ![p] = Idle] /\ UNCHANGED disk /\ Calm
    BY <1>0, <1>23 DEF Confirm, Throw, Crash, Return, Reading, Others, Calm, TypeOK
  <2> QED BY <2>1, IdleHolds, ReadingKeeps
<1> QED BY <1>4, <1>5, <1>7, <1>9, <1>11, <1>12, <1>14, <1>15, <1>17, <1>18, <1>19,
           <1>20, <1>21, <1>22, <1>23

\* A name is found where there is one.
LEMMA UnusedIs ==
  ASSUME NEW used, \E n \in Names : n \notin used
  PROVE  Unused(used) \in Names /\ Unused(used) \notin used
BY DEF Unused

LEMMA WritesKeep ==
  ASSUME IInv, NEW p \in Procs,
         Create(p) \/ Write(p) \/ Apply(p) \/ Capture(p) \/ Restore(p)
         \/ Reauthorize(p) \/ Link(p)
  PROVE  IInv'
<1> DEFINE me == proc[p]
<1>0. me \in ProcState /\ Holds(me) /\ TypeOK
  BY DEF IInv, TypeOK, Held
<1>1. CASE Create(p)
  <2> DEFINE n == Unused(proposed)
             made == [class |-> "EXTERNAL", auth |-> "inherited"]
  <2>1. n \in Names /\ n \in Files
    BY <1>0, <1>1, UnusedIs, FilesAre DEF Create, TypeOK
  <2>2. [me EXCEPT !.pc = "write", !.proposal = n] \in ProcState
    BY <1>0, <2>1 DEF ProcState
  <2>3. PICK new \in ProcState : new = [me EXCEPT !.pc = "write", !.proposal = n]
    BY <2>2
  <2>4. /\ proposed' = proposed \cup {n}
        /\ file' = [file EXCEPT ![n] = made]
        /\ proc' = [proc EXCEPT ![p] = new]
        /\ UNCHANGED <<target, backups>> /\ Others
    BY <1>1, <2>3 DEF Create
  <2>5. ArtifactsStay
    BY <2>4 DEF ArtifactsStay
  <2>6. new.pc = "write" /\ new.proposal = n /\ new.proposal \in Artifacts'
    BY <1>0, <2>4, <2>3 DEF ProcState, Artifacts
  <2>7. Holds(new)'
    BY <2>6 DEF Holds, WithProposal
  <2>8. proc' \in [Procs -> ProcState] /\ Held'
    BY <2>4, <2>5, <2>7, Turn
  <2>9. made \in [class : Classes \cup {"none"}, auth : Descriptors]
    BY DEF Classes, Descriptors
  <2>10. file' \in [Files -> [class : Classes \cup {"none"}, auth : Descriptors]]
    BY <1>0, <2>4, <2>9 DEF TypeOK
  <2>11. TypeOK'
    BY <1>0, <2>1, <2>4, <2>8, <2>10 DEF TypeOK, Others
  <2>12. NothingIsLost'
    <3> SUFFICES ASSUME NEW f \in Files, (file[f] # NoFile)'
                 PROVE  f \in discarded' \/ Linked(f)'
      BY DEF NothingIsLost
    <3>1. CASE f = n
      BY <2>4, <3>1 DEF Linked
    <3>2. CASE f # n
      <4>1. file[f] # NoFile
        BY <1>0, <2>4, <3>2 DEF TypeOK, NoFile
      <4> QED BY <2>4, <4>1 DEF IInv, NothingIsLost, Linked, Others
    <3> QED BY <3>1, <3>2
  <2> QED BY <2>8, <2>11, <2>12 DEF IInv
<1>2. ASSUME NEW f \in Artifacts, NEW new \in ProcState, NEW value,
             value \in [class : Classes \cup {"none"}, auth : Descriptors],
             new.pc \in {"rescan", "reread", "link"}, new.proposal \in Artifacts,
             file' = [file EXCEPT ![f] = value],
             proc' = [proc EXCEPT ![p] = new],
             UNCHANGED <<target, proposed, backups>>, Others
      PROVE  IInv'
  <2>1. ArtifactsStay /\ f \in Files /\ Artifacts' = Artifacts
    BY <1>0, <1>2, FilesAre DEF ArtifactsStay, Artifacts, TypeOK
  <2>2. Holds(new)'
    BY <1>2, <2>1 DEF Holds, WithProposal
  <2>3. proc' \in [Procs -> ProcState] /\ Held'
    BY <1>2, <2>1, <2>2, Turn
  <2>4. TypeOK'
    BY <1>0, <1>2, <2>1, <2>3 DEF TypeOK, Others
  <2>5. NothingIsLost'
    <3> SUFFICES ASSUME NEW g \in Files, (file[g] # NoFile)'
                 PROVE  g \in discarded' \/ Linked(g)'
      BY DEF NothingIsLost
    <3>1. CASE g = f
      <4>1. Linked(f)
        BY <1>0, <2>1, LinkedIs, <1>2
      <4> QED BY <1>2, <3>1, <4>1 DEF Linked
    <3>2. CASE g # f
      <4>1. file[g] # NoFile
        BY <1>0, <1>2, <3>2 DEF TypeOK, NoFile
      <4> QED BY <1>2, <4>1 DEF IInv, NothingIsLost, Linked, Others
    <3> QED BY <3>1, <3>2
  <2> QED BY <2>3, <2>4, <2>5 DEF IInv
<1>3. me.pc \in WithProposal =>
        me.proposal \in Artifacts /\ me.proposal \in Files
        /\ file[me.proposal] \in [class : Classes \cup {"none"}, auth : Descriptors]
  BY <1>0, FilesAre DEF Holds, Artifacts, TypeOK
<1>4. CASE Write(p)
  <2> DEFINE new == [me EXCEPT !.pc = "rescan"]
             value == [file[me.proposal] EXCEPT !.class = "PROPOSED"]
  <2>1. me.pc = "write"
    BY <1>4 DEF Write, At
  <2>2. me.proposal \in Artifacts
    BY <1>3, <2>1 DEF WithProposal
  <2>3. value \in [class : Classes \cup {"none"}, auth : Descriptors]
    BY <1>3, <2>1 DEF Classes, WithProposal
  <2>4. new \in ProcState /\ new.pc = "rescan" /\ new.proposal \in Artifacts
    BY <1>0, <2>2 DEF ProcState
  <2>5. /\ file' = [file EXCEPT ![me.proposal] = value]
        /\ proc' = [proc EXCEPT ![p] = new]
        /\ UNCHANGED <<target, proposed, backups>> /\ Others
    BY <1>4 DEF Write, Goto
  <2> HIDE DEF value, new
  <2> QED BY <1>2, <2>2, <2>3, <2>4, <2>5
<1>5. CASE Apply(p) \/ Reauthorize(p)
  <2> DEFINE pc == IF me.pc = "apply" THEN "reread" ELSE "link"
             new == [me EXCEPT !.pc = pc]
             value == [file[me.proposal] EXCEPT !.auth = me.auth]
  <2>1. me.pc \in {"apply", "reauthorize"}
    BY <1>5 DEF Apply, Reauthorize, At
  <2>2. me.proposal \in Artifacts /\ me.auth \in Descriptors
    BY <1>0, <1>3, <2>1 DEF WithProposal, Holds
  <2>3. value \in [class : Classes \cup {"none"}, auth : Descriptors]
    BY <1>3, <2>1, <2>2 DEF WithProposal
  <2>4. pc \in {"reread", "link"}
    OBVIOUS
  <2>5. new \in ProcState /\ new.pc \in {"reread", "link"} /\ new.proposal \in Artifacts
    BY <1>0, <2>2, <2>4 DEF ProcState
  <2>6. /\ file' = [file EXCEPT ![me.proposal] = value]
        /\ proc' = [proc EXCEPT ![p] = new]
        /\ UNCHANGED <<target, proposed, backups>> /\ Others
    BY <1>5 DEF Apply, Reauthorize, At, Goto
  <2> HIDE DEF value, new
  <2> QED BY <1>2, <2>2, <2>3, <2>5, <2>6
<1>6. CASE Capture(p)
  <2>1. PICK b \in Names : b = Unused({n \in Names : backups[n] # None})
    BY <1>6, UnusedIs DEF Capture
  <2>2. [me EXCEPT !.pc = "captured", !.captured = b] \in ProcState
    BY <1>0 DEF ProcState
  <2>3. PICK new \in ProcState : new = [me EXCEPT !.pc = "captured", !.captured = b]
    BY <2>2
  <2>4. b \in Names /\ backups[b] = None
    BY <1>6, <2>1, UnusedIs DEF Capture
  <2>5. /\ me.pc = "capture" /\ target # None
        /\ backups' = [backups EXCEPT ![b] = target]
        /\ target' = None
        /\ proc' = [proc EXCEPT ![p] = new]
        /\ UNCHANGED <<proposed, file>> /\ Others
    BY <1>6, <2>1, <2>3 DEF Capture, At
  <2>6. target \in Files /\ backups'[b] = target /\ \A c \in Names : c # b => backups'[c] = backups[c]
    BY <1>0, <2>4, <2>5 DEF TypeOK
  <2>7. ArtifactsStay
    BY <2>4, <2>5, <2>6 DEF ArtifactsStay
  <2>8. new.pc = "captured" /\ new.captured = b /\ new.proposal \in Artifacts'
    BY <1>0, <1>3, <2>5, <2>7, <2>3, StayingArtifacts DEF WithProposal, ProcState
  <2>9. new.captured \in Names /\ backups'[new.captured] # None
    BY <2>4, <2>5, <2>6, <2>8
  <2>10. Holds(new)'
    BY <2>8, <2>9 DEF Holds
  <2>11. proc' \in [Procs -> ProcState] /\ Held'
    BY <2>5, <2>7, <2>10, Turn
  <2>12. TypeOK'
    BY <1>0, <2>5, <2>6, <2>11 DEF TypeOK, Others
  <2>13. NothingIsLost'
    BY <2>4, <2>5, <2>6, <2>7 DEF IInv, NothingIsLost, Linked, ArtifactsStay, Others
  <2> QED BY <2>11, <2>12, <2>13 DEF IInv
<1>7. ASSUME NEW f \in Artifacts, NEW new \in ProcState, Holds(new),
             target = None, target' = f,
             proc' = [proc EXCEPT ![p] = new],
             UNCHANGED <<file, proposed, backups>>, Others
      PROVE  IInv'
  <2>1. ArtifactsStay /\ f \in Files /\ Artifacts' = Artifacts
    BY <1>0, <1>7, FilesAre DEF ArtifactsStay, Artifacts, TypeOK
  <2>2. Holds(new)'
    BY <1>7, <2>1 DEF Holds
  <2>3. proc' \in [Procs -> ProcState] /\ Held'
    BY <1>7, <2>1, <2>2, Turn
  <2>4. TypeOK'
    BY <1>0, <1>7, <2>1, <2>3 DEF TypeOK, Others
  <2>5. NothingIsLost'
    BY <1>7, <2>1, FilesAre DEF IInv, NothingIsLost, Linked, Others
  <2> QED BY <2>3, <2>4, <2>5 DEF IInv
<1>8. CASE Restore(p)
  <2>1. /\ me.pc = "restore" /\ target = None /\ target' = backups[me.captured]
        /\ proc' = [proc EXCEPT ![p] = Idle]
        /\ UNCHANGED <<file, proposed, backups>> /\ Others
    BY <1>8 DEF Restore, At, Return
  <2>2. backups[me.captured] \in Artifacts
    BY <1>0, <2>1 DEF Holds, TypeOK, Artifacts
  <2> QED BY <1>7, <2>1, <2>2, IdleHolds
<1>9. CASE Link(p)
  <2> DEFINE new == [me EXCEPT !.pc = "confirm"]
  <2>1. /\ me.pc = "link" /\ target = None /\ target' = me.proposal
        /\ proc' = [proc EXCEPT ![p] = new]
        /\ UNCHANGED <<file, proposed, backups>> /\ Others
    BY <1>9 DEF Link, Linkable, At, Goto
  <2>2. me.proposal \in Artifacts
    BY <1>3, <2>1 DEF WithProposal
  <2>3. new \in ProcState /\ Holds(new)
    BY <1>0 DEF ProcState, Holds, WithProposal
  <2> QED BY <1>7, <2>1, <2>2, <2>3
<1> QED BY <1>1, <1>4, <1>5, <1>6, <1>8, <1>9

\* What other programs do leaves processes and artifacts alone.
LEMMA OthersKeep ==
  ASSUME IInv, OtherPrograms
  PROVE  IInv'
<1>0. TypeOK /\ NothingIsLost
  BY DEF IInv
<1>1. UNCHANGED <<proposed, backups, proc>>
  BY DEF OtherPrograms, Replace, EditInPlace, Delete
<1>2. ArtifactsStay
  BY <1>1 DEF ArtifactsStay
<1>3. Held'
  BY <1>1, <1>2, StayHeld DEF IInv, Held, Holds, Artifacts
<1>4. ASSUME NEW class \in {"SOURCE", "EXTERNAL"}, EditInPlace(class)
      PROVE  TypeOK' /\ NothingIsLost'
  <2>1. target \in Files /\ file[target] \in [class : Classes \cup {"none"}, auth : Descriptors]
    BY <1>0, <1>4 DEF TypeOK, EditInPlace
  <2>2. [file[target] EXCEPT !.class = class] \in [class : Classes \cup {"none"}, auth : Descriptors]
    BY <2>1 DEF Classes
  <2>3. file' \in [Files -> [class : Classes \cup {"none"}, auth : Descriptors]]
    BY <1>0, <1>4, <2>1, <2>2 DEF TypeOK, EditInPlace
  <2>4. tampered' \in BOOLEAN
    BY <1>0, <1>4 DEF EditInPlace, TypeOK
  <2>5. TypeOK'
    BY <1>0, <1>1, <1>4, <2>3, <2>4 DEF TypeOK, EditInPlace, Edited
  <2>6. NothingIsLost'
    BY <1>0, <1>1, <1>4 DEF NothingIsLost, Linked, EditInPlace, TypeOK
  <2> QED BY <2>5, <2>6
<1>5. ASSUME NEW class \in {"SOURCE", "EXTERNAL"}, NEW f \in Foreign, Replace(f, class)
      PROVE  TypeOK' /\ NothingIsLost'
  <2>1. f \in Files
    BY FilesAre
  <2>2. [class |-> class, auth |-> "inherited"] \in [class : Classes \cup {"none"}, auth : Descriptors]
    BY DEF Classes, Descriptors
  <2>3. TypeOK'
    BY <1>0, <1>1, <1>5, <2>1, <2>2 DEF TypeOK, Replace, Edited
  <2>4. NothingIsLost'
    BY <1>0, <1>1, <1>5, <2>1, FilesAre DEF NothingIsLost, Linked, Replace, TypeOK
  <2> QED BY <2>3, <2>4
<1>6. ASSUME Delete
      PROVE  TypeOK' /\ NothingIsLost'
  BY <1>0, <1>1, <1>6 DEF NothingIsLost, Linked, Delete, TypeOK, Edited
<1> QED BY <1>3, <1>4, <1>5, <1>6 DEF OtherPrograms, IInv

LEMMA Start == Init => IInv
<1> SUFFICES ASSUME Init PROVE IInv
  OBVIOUS
<1>1. TypeOK
  BY FilesAre, IdleHolds DEF Init, TypeOK, NoFile, Classes, Descriptors
<1>2. Held
  BY IdleHolds DEF Init, Held
<1>3. NothingIsLost
  BY FilesAre DEF Init, NothingIsLost, Linked, NoFile
<1> QED BY <1>1, <1>2, <1>3 DEF IInv

LEMMA NextKeeps == IInv /\ [Next]_vars => IInv'
<1> SUFFICES ASSUME IInv, [Next]_vars PROVE IInv'
  OBVIOUS
<1>1. ASSUME NEW p \in Procs, Begin(p) \/ Step(p) \/ Throw(p) \/ Crash(p)
      PROVE  IInv'
  BY <1>1, ReadsKeep, WritesKeep DEF Step
<1>2. CASE UNCHANGED vars
  BY <1>2 DEF IInv, TypeOK, Held, Holds, Artifacts, NothingIsLost, Linked, vars, disk
<1> QED BY <1>1, <1>2, OthersKeep DEF Next

\* Processes, files and artifacts stay of their types.
THEOREM TypeCorrect == Spec => []TypeOK
<1>1. IInv => TypeOK
  BY DEF IInv
<1> QED BY <1>1, Start, NextKeeps, PTL DEF Spec

\* applyConfigureTransaction never removes the last name of a file, however
\* many processes apply the plan and whatever other programs do at the path.
THEOREM NothingIsLostHolds == Spec => []NothingIsLost
<1>1. IInv => NothingIsLost
  BY DEF IInv
<1> QED BY <1>1, Start, NextKeeps, PTL DEF Spec

-----------------------------------------------------------------------------
(* The source is kept: a backup with the source bytes stays one, unless    *)
(* another program writes to a file that was restored.                     *)

InPlace(f) == f = target \/ \E b \in Names : backups[b] = f

\* What a process knows of the backups is still so.
Informed(me) ==
  /\ ~tampered => me.sources \subseteq Backups("SOURCE")
  /\ existing /\ me.pc \in {"reauthorize", "link"} =>
       me.sources # {} /\ me.auth \in Descriptors
  /\ existing /\ edits = 0 =>
       /\ me.auth \in {None, "kept"}
       /\ me.pc \in WithProposal => me.proposal # Original

AllInformed == \A p \in Procs : Informed(proc[p])

\* A proposal that is being written is in nobody else's hands.
Alone(p) ==
  LET n == proc[p].proposal IN
  /\ n \in proposed /\ ~InPlace(n) /\ file[n].class # "PROPOSED"
  /\ \A q \in Procs \ {p} : proc[q].pc \in WithProposal => proc[q].proposal # n

WrittenAlone == \A p \in Procs : proc[p].pc = "write" => Alone(p)

Named == \A n \in Names : InPlace(n) => n \in proposed

Counted == edits = 0 => ~tampered

\* No proposal took the place of a configuration that is not backed up.
Replaced ==
  existing /\ ~tampered /\ (\E n \in Names : InPlace(n)) => Backups("SOURCE") # {}

\* What the files are as long as no other program has changed one.
Undisturbed ==
  existing /\ edits = 0 =>
    /\ file[Original] = [class |-> "SOURCE", auth |-> "kept"]
    /\ \A f \in Files : file[f].class = "SOURCE" => f = Original
    /\ \A f \in Files : InPlace(f) =>
         f = Original \/ (f \in Names /\ file[f].auth = "kept")

Disk == Named /\ Counted /\ Replaced /\ Undisturbed

KInv == IInv /\ AllInformed /\ WrittenAlone /\ Disk

\* The backups of the source stay, and what other programs have done too.
SourcesStay ==
  /\ ~tampered' => ~tampered /\ Backups("SOURCE") \subseteq Backups("SOURCE")'
  /\ edits' = 0 => edits = 0
  /\ existing' = existing

\* While the source backups stay, what a process knows of them does.
LEMMA StayingSources ==
  ASSUME SourcesStay, NEW me, Informed(me)
  PROVE  Informed(me)'
BY DEF SourcesStay, Informed

\* The files that are source backups, and their descriptor.
LEMMA SourceAuth ==
  ASSUME TypeOK, Undisturbed, existing, edits = 0, NEW b \in Backups("SOURCE")
  PROVE  backups[b] = Original /\ file[backups[b]].auth = "kept"
BY FilesAre DEF TypeOK, Undisturbed, Backups, Class

LEMMA InformedTurn ==
  ASSUME KInv, SourcesStay, NEW p \in Procs, NEW me \in ProcState, Informed(me)',
         proc' = [proc EXCEPT ![p] = me]
  PROVE  AllInformed'
<1>1. \A q \in Procs : q # p => proc'[q] = proc[q] /\ Informed(proc[q])'
  BY StayingSources DEF KInv, IInv, TypeOK, AllInformed, Informed
<1>2. proc'[p] = me
  BY DEF KInv, IInv, TypeOK
<1> QED BY <1>1, <1>2 DEF AllInformed, Informed

\* What is left of WrittenAlone when process p turns to me, which writes nothing.
LEMMA AloneTurn ==
  ASSUME KInv, NEW p \in Procs, NEW me \in ProcState, me.pc # "write",
         proc' = [proc EXCEPT ![p] = me],
         proposed \subseteq proposed',
         \A q \in Procs \ {p} : proc[q].pc = "write" =>
           /\ ~InPlace(proc[q].proposal)'
           /\ file'[proc[q].proposal].class = file[proc[q].proposal].class
           /\ me.pc \in WithProposal => me.proposal # proc[q].proposal
  PROVE  WrittenAlone'
<1>1. proc'[p] = me /\ \A q \in Procs : q # p => proc'[q] = proc[q]
  BY DEF KInv, IInv, TypeOK
<1> SUFFICES ASSUME NEW q \in Procs, proc'[q].pc = "write"
             PROVE  Alone(q)'
  BY DEF WrittenAlone
<1>2. q # p /\ proc'[q] = proc[q] /\ Alone(q)
  BY <1>1 DEF KInv, WrittenAlone
<1>3. ~InPlace(proc[q].proposal)'
  BY <1>2
<1>4. proc'[q].proposal \in proposed' /\ file'[proc'[q].proposal].class # "PROPOSED"
  BY <1>2 DEF Alone
<1>5. ASSUME NEW r \in Procs \ {q}, proc'[r].pc \in WithProposal
      PROVE  proc'[r].proposal # proc'[q].proposal
  BY <1>1, <1>2, <1>5 DEF Alone
<1> QED BY <1>3, <1>4, <1>5 DEF Alone

\* Reads.  What a process takes for its proposal is not being written: either
\* all proposals are whole or it has a backup for a name.
LEMMA ReadingInforms ==
  ASSUME KInv, NEW p \in Procs, NEW me \in ProcState, Informed(me), me.pc # "write",
         proc' = [proc EXCEPT ![p] = me], UNCHANGED disk, Calm,
         me.pc \in WithProposal =>
           \/ proc[p].pc \in WithProposal /\ me.proposal = proc[p].proposal
           \/ ProposalsIntact
           \/ InPlace(me.proposal)
  PROVE  (AllInformed /\ WrittenAlone /\ Disk)'
<1>1. SourcesStay
  BY DEF SourcesStay, disk, Calm, Backups, Class
<1>2. Informed(me)'
  BY <1>1, StayingSources
<1>3. AllInformed'
  BY <1>1, <1>2, InformedTurn
<1>4. Disk'
  BY DEF KInv, Disk, Named, Counted, Replaced, Undisturbed, InPlace, Backups, Class, disk, Calm
<1>5. ASSUME NEW q \in Procs \ {p}, proc[q].pc = "write"
      PROVE  /\ ~InPlace(proc[q].proposal)'
             /\ me.pc \in WithProposal => me.proposal # proc[q].proposal
  <2>1. Alone(q)
    BY <1>5 DEF KInv, WrittenAlone
  <2>2. ~InPlace(proc[q].proposal)'
    BY <2>1 DEF Alone, InPlace, disk
  <2>3. ~ProposalsIntact
    BY <2>1, FilesAre DEF Alone, ProposalsIntact, Class, KInv, IInv, TypeOK
  <2> QED BY <2>1, <2>2, <2>3 DEF Alone
<1>6. WrittenAlone'
  BY <1>5, AloneTurn DEF disk
<1> QED BY <1>3, <1>4, <1>6

\* A consensus of source backups is on the descriptor of the configuration.
LEMMA ConsensusKept ==
  ASSUME TypeOK, Undisturbed, existing, edits = 0, NEW auth,
         NEW sources \in SUBSET Backups("SOURCE"), Consensus(sources, auth)
  PROVE  auth = "kept"
BY SourceAuth DEF Consensus

LEMMA ReadsInform ==
  ASSUME KInv, NEW p \in Procs,
         \/ Begin(p) \/ FindSource(p) \/ Read(p) \/ ScanRestore(p) \/ ScanApplied(p)
         \/ ScanInstall(p) \/ ScanCreate(p) \/ ScanReuse(p) \/ Rescan(p)
         \/ Authorize(p) \/ Reread(p) \/ CaptureFails(p) \/ Converge(p) \/ Judge(p)
         \/ TakeSource(p) \/ Agree(p) \/ LinkFails(p) \/ Confirm(p)
         \/ Throw(p) \/ Crash(p)
  PROVE  (AllInformed /\ WrittenAlone /\ Disk)'
<1> DEFINE me == proc[p]
<1>0. /\ me \in ProcState /\ Informed(me) /\ Holds(me)
      /\ TypeOK /\ Undisturbed /\ Counted
  BY DEF KInv, IInv, TypeOK, AllInformed, Held, Disk
<1>1. ASSUME Reading, NEW new \in ProcState, new.pc # "write", Informed(new),
             proc' = [proc EXCEPT ![p] = new],
             new.pc \in WithProposal =>
               \/ me.pc \in WithProposal /\ new.proposal = me.proposal
               \/ ProposalsIntact
               \/ InPlace(new.proposal)
      PROVE  (AllInformed /\ WrittenAlone /\ Disk)'
  BY <1>0, <1>1, ReadingInforms DEF Reading, Others, Calm, TypeOK
\* Nothing but the place in the transaction changes, and what was captured.
<1>2. ASSUME Reading, NEW new \in ProcState,
             new.pc \notin {"write", "reauthorize"}, new.pc = "link" => ~existing,
             new.pc \in WithProposal => me.pc \in WithProposal,
             new.sources = me.sources, new.auth = me.auth, new.proposal = me.proposal,
             proc' = [proc EXCEPT ![p] = new]
      PROVE  (AllInformed /\ WrittenAlone /\ Disk)'
  <2>1. Informed(new)
    BY <1>0, <1>2 DEF Informed
  <2> QED BY <1>1, <1>2, <2>1
<1>3. ASSUME Reading, NEW pc,
             pc \in {"find", "read", "create", "capture", "source", "lost", "restore",
                    "link", "confirm"},
             pc = "link" => ~existing,
             pc \in {"capture", "source", "lost", "link"} => me.pc \in WithProposal,
             Goto(p, pc)
      PROVE  (AllInformed /\ WrittenAlone /\ Disk)'
  <2> DEFINE new == [me EXCEPT !.pc = pc]
  <2>1. new \in ProcState /\ new.pc = pc /\ new.sources = me.sources
        /\ new.auth = me.auth /\ new.proposal = me.proposal
    BY <1>0, <1>3 DEF ProcState
  <2>2. proc' = [proc EXCEPT ![p] = new]
    BY <1>3 DEF Goto
  <2>3. pc \in WithProposal => me.pc \in WithProposal
    BY <1>3 DEF WithProposal
  <2> HIDE DEF new
  <2> QED BY <1>2, <1>3, <2>1, <2>2, <2>3
<1>4. CASE Begin(p)
  <2> DEFINE pc == IF existing /\ Active # "SOURCE" THEN "find" ELSE "read"
  <2>1. pc \in {"find", "read"} /\ Reading /\ Goto(p, pc)
    BY <1>4 DEF Begin
  <2> HIDE DEF pc
  <2> QED BY <1>3, <2>1
<1>5. CASE FindSource(p)
  BY <1>3, <1>5 DEF FindSource
<1>6. CASE Read(p)
  <2> DEFINE new == [me EXCEPT !.pc = "scan", !.current = Active]
  <2>1. new \in ProcState /\ new.pc = "scan" /\ new.sources = me.sources
        /\ new.auth = me.auth /\ new.proposal = me.proposal
    BY <1>0, ActiveType DEF ProcState
  <2>2. Reading /\ proc' = [proc EXCEPT ![p] = new]
    BY <1>6 DEF Read
  <2> HIDE DEF new
  <2> QED BY <1>2, <2>1, <2>2 DEF WithProposal
<1>7. ASSUME Reading, NEW b \in Names, NEW pc \in {"restore", "captured"},
             pc = "captured" => me.pc \in WithProposal,
             proc' = [proc EXCEPT ![p].pc = pc, ![p].captured = b]
      PROVE  (AllInformed /\ WrittenAlone /\ Disk)'
  <2> DEFINE new == [me EXCEPT !.pc = pc, !.captured = b]
  <2>1. new \in ProcState /\ new.pc = pc /\ new.sources = me.sources
        /\ new.auth = me.auth /\ new.proposal = me.proposal
    BY <1>0 DEF ProcState
  <2>2. proc' = [proc EXCEPT ![p] = new]
    BY <1>7
  <2> HIDE DEF new
  <2> QED BY <1>2, <1>7, <2>1, <2>2 DEF WithProposal
<1>8. CASE ScanRestore(p)
  BY <1>7, <1>8 DEF ScanRestore, Backups
<1>9. ASSUME Reading, NEW auth \in Descriptors \cup {None},
             auth = None \/ Consensus(Backups("SOURCE"), auth),
             proc' = [proc EXCEPT ![p].pc = "confirm", ![p].auth = auth]
      PROVE  (AllInformed /\ WrittenAlone /\ Disk)'
  <2> DEFINE new == [me EXCEPT !.pc = "confirm", !.auth = auth]
  <2>1. new \in ProcState /\ new.pc = "confirm" /\ new.sources = me.sources /\ new.auth = auth
    BY <1>0 DEF ProcState
  <2>2. existing /\ edits = 0 => auth \in {None, "kept"}
    BY <1>0, <1>9, ConsensusKept
  <2>3. proc' = [proc EXCEPT ![p] = new]
    BY <1>9
  <2> HIDE DEF new
  <2>4. Informed(new)
    BY <1>0, <2>1, <2>2 DEF Informed, WithProposal
  <2> QED BY <1>1, <1>9, <2>1, <2>3, <2>4 DEF WithProposal
<1>10. CASE ScanApplied(p)
  <2>1. PICK auth \in Descriptors \cup {None} :
          /\ auth = None \/ Consensus(Backups("SOURCE"), auth)
          /\ proc' = [proc EXCEPT ![p].pc = "confirm", ![p].auth = auth]
    BY <1>10 DEF ScanApplied
  <2> QED BY <1>9, <1>10, <2>1 DEF ScanApplied
<1>11. ASSUME Reading, NEW f \in Files, NEW pc \in {"install", "authorize"},
              existing /\ edits = 0 => f # Original,
              \/ me.pc \in WithProposal /\ f = me.proposal
              \/ ProposalsIntact
              \/ InPlace(f),
              proc' = [proc EXCEPT ![p].pc = pc, ![p].proposal = f,
                                   ![p].sources = Backups("SOURCE")]
       PROVE  (AllInformed /\ WrittenAlone /\ Disk)'
  <2> DEFINE new == [me EXCEPT !.pc = pc, !.proposal = f, !.sources = Backups("SOURCE")]
  <2>0. Backups("SOURCE") \in SUBSET Names
    BY DEF Backups
  <2>1. new \in ProcState /\ new.pc = pc /\ new.sources = Backups("SOURCE")
        /\ new.auth = me.auth /\ new.proposal = f
    BY <1>0, <2>0 DEF ProcState
  <2>2. proc' = [proc EXCEPT ![p] = new]
    BY <1>11
  <2> HIDE DEF new
  <2>3. Informed(new)
    BY <1>0, <1>11, <2>1 DEF Informed
  <2> QED BY <1>1, <1>11, <2>1, <2>2, <2>3
<1>12. Original \notin proposed
  BY <1>0, ConfigureAssumption DEF TypeOK
<1>13. ASSUME NEW b \in Names, existing, edits = 0, Class(backups[b]) = "PROPOSED"
       PROVE  backups[b] # Original
  BY <1>0, <1>13, FilesAre DEF Undisturbed, Class
<1>14. CASE ScanInstall(p)
  <2>1. PICK f \in ProvenProposals :
          proc' = [proc EXCEPT ![p].pc = "install", ![p].proposal = f,
                               ![p].sources = Backups("SOURCE")]
    BY <1>14 DEF ScanInstall
  <2>2. Reading /\ ProposalsIntact
    BY <1>14 DEF ScanInstall, Scanned
  <2>3. f \in Files
    BY <1>0, BackupFiles, FilesAre DEF ProvenProposals, Backups, TypeOK
  <2>4. existing /\ edits = 0 => f # Original
    BY <1>12, <1>13 DEF ProvenProposals, Backups
  <2> QED BY <1>11, <2>1, <2>2, <2>3, <2>4
<1>15. CASE ScanCreate(p)
  BY <1>3, <1>15 DEF ScanCreate
<1>16. CASE ScanReuse(p)
  <2>1. PICK n \in proposed :
          proc' = [proc EXCEPT ![p].pc = "authorize", ![p].proposal = n,
                               ![p].sources = Backups("SOURCE")]
    BY <1>16 DEF ScanReuse
  <2>2. Reading /\ ProposalsIntact /\ n \in Files /\ n # Original
    BY <1>0, <1>12, <1>16, FilesAre DEF ScanReuse, Scanned, TypeOK
  <2> QED BY <1>11, <2>1, <2>2
<1>17. ASSUME Reading, me.pc \in WithProposal, NEW pc \in {"install", "authorize"},
              proc' = [proc EXCEPT ![p].pc = pc, ![p].sources = Backups("SOURCE")]
       PROVE  (AllInformed /\ WrittenAlone /\ Disk)'
  <2> DEFINE new == [me EXCEPT !.pc = pc, !.sources = Backups("SOURCE")]
  <2>0. Backups("SOURCE") \in SUBSET Names
    BY DEF Backups
  <2>1. new \in ProcState /\ new.pc = pc /\ new.sources = Backups("SOURCE")
        /\ new.auth = me.auth /\ new.proposal = me.proposal
    BY <1>0, <2>0 DEF ProcState
  <2>2. proc' = [proc EXCEPT ![p] = new]
    BY <1>17
  <2> HIDE DEF new
  <2>3. Informed(new)
    BY <1>0, <1>17, <2>1 DEF Informed
  <2> QED BY <1>1, <1>17, <2>1, <2>2, <2>3
<1>18. CASE Rescan(p)
  <2> DEFINE pc == IF existing THEN "authorize" ELSE "install"
  <2>1. /\ pc \in {"install", "authorize"} /\ Reading /\ me.pc \in WithProposal
        /\ proc' = [proc EXCEPT ![p].pc = pc, ![p].sources = Backups("SOURCE")]
    BY <1>18 DEF Rescan, At, WithProposal
  <2> HIDE DEF pc
  <2> QED BY <1>17, <2>1
<1>19. CASE TakeSource(p)
  BY <1>17, <1>19 DEF TakeSource, At, WithProposal
\* A descriptor is taken from a consensus of backups, or from the target.
<1>20. ASSUME Reading, me.pc \in WithProposal, NEW auth \in Descriptors,
              NEW pc \in {"apply", "reauthorize"},
              pc = "reauthorize" => me.sources # {},
              existing /\ edits = 0 => auth = "kept",
              proc' = [proc EXCEPT ![p].pc = pc, ![p].auth = auth]
       PROVE  (AllInformed /\ WrittenAlone /\ Disk)'
  <2> DEFINE new == [me EXCEPT !.pc = pc, !.auth = auth]
  <2>1. new \in ProcState /\ new.pc = pc /\ new.sources = me.sources
        /\ new.auth = auth /\ new.proposal = me.proposal
    BY <1>0 DEF ProcState
  <2>2. proc' = [proc EXCEPT ![p] = new]
    BY <1>20
  <2> HIDE DEF new
  <2>3. Informed(new)
    BY <1>0, <1>20, <2>1 DEF Informed
  <2> QED BY <1>1, <1>20, <2>1, <2>2, <2>3
<1>21. ASSUME existing, edits = 0, NEW auth, Consensus(me.sources, auth)
       PROVE  auth = "kept"
  <2>1. me.sources \in SUBSET Backups("SOURCE")
    BY <1>0, <1>21 DEF Informed, Counted
  <2> QED BY <1>0, <1>21, <2>1, ConsensusKept
<1>22. CASE Authorize(p)
  <2>1. PICK auth \in Descriptors :
          /\ IF me.current = "MISSING" THEN Consensus(me.sources, auth)
             ELSE target # None /\ file[target].auth = auth
          /\ proc' = [proc EXCEPT ![p].pc = "apply", ![p].auth = auth]
    BY <1>22 DEF Authorize
  <2>2. existing /\ edits = 0 => auth = "kept"
    <3> SUFFICES ASSUME existing, edits = 0, ~(me.current = "MISSING")
                 PROVE  auth = "kept"
      BY <1>21, <2>1
    <3>1. target \in Files /\ InPlace(target)
      BY <1>0, <2>1 DEF TypeOK, InPlace
    <3>2. target = Original \/ (target \in Names /\ file[target].auth = "kept")
      BY <1>0, <3>1 DEF Undisturbed
    <3> QED BY <1>0, <2>1, <3>2 DEF Undisturbed
  <2>3. Reading /\ me.pc \in WithProposal
    BY <1>22 DEF Authorize, At, WithProposal
  <2> QED BY <1>20, <2>1, <2>2, <2>3
<1>23. CASE Reread(p)
  <2> DEFINE pc == IF Active = "SOURCE" THEN "capture" ELSE "source"
  <2>1. pc \in {"capture", "source"} /\ Reading /\ Goto(p, pc) /\ me.pc \in WithProposal
    BY <1>23 DEF Reread, At, WithProposal
  <2> HIDE DEF pc
  <2> QED BY <1>3, <2>1
<1>24. CASE CaptureFails(p)
  BY <1>3, <1>24 DEF CaptureFails, At, WithProposal
<1>25. CASE Converge(p)
  <2>0. me.pc \in WithProposal /\ Reading
    BY <1>25 DEF Converge, At, WithProposal
  <2>1. \/ \E auth \in Descriptors \cup {None} :
             /\ auth = None \/ Consensus(Backups("SOURCE"), auth)
             /\ proc' = [proc EXCEPT ![p].pc = "confirm", ![p].auth = auth]
        \/ \E b \in Names :
             proc' = [proc EXCEPT ![p].pc = "captured", ![p].captured = b]
    BY <1>25 DEF Converge, Backups
  <2> QED BY <1>7, <1>9, <2>0, <2>1
<1>26. CASE Judge(p)
  <2> DEFINE f == backups[me.captured]
  <2>0. /\ me.pc \in WithProposal /\ Reading
        /\ me.captured \in Names /\ f # None /\ f \in Files /\ InPlace(f)
    BY <1>0, <1>26 DEF Judge, At, Holds, TypeOK, InPlace, WithProposal
  <2>1. CASE Goto(p, "source") \/ Goto(p, "restore")
    BY <1>3, <2>0, <2>1
  <2>2. CASE /\ Class(f) = "PROPOSED"
             /\ proc' = [proc EXCEPT ![p].pc = "install", ![p].proposal = f,
                                     ![p].sources = Backups("SOURCE")]
    BY <1>11, <1>13, <2>0, <2>2
  <2> QED BY <1>26, <2>1, <2>2 DEF Judge
<1>27. CASE Agree(p)
  <2>0. me.pc \in WithProposal /\ Reading
    BY <1>27 DEF Agree, At, WithProposal
  <2>1. CASE ~existing /\ Goto(p, "link")
    BY <1>3, <2>0, <2>1
  <2>2. CASE \E auth \in Descriptors :
               /\ Consensus(me.sources, auth)
               /\ proc' = [proc EXCEPT ![p].pc = "reauthorize", ![p].auth = auth]
    <3>1. PICK auth \in Descriptors :
            /\ Consensus(me.sources, auth)
            /\ proc' = [proc EXCEPT ![p].pc = "reauthorize", ![p].auth = auth]
      BY <2>2
    <3>2. me.sources # {}
      BY <3>1 DEF Consensus
    <3> QED BY <1>20, <1>21, <2>0, <3>1, <3>2
  <2> QED BY <1>27, <2>1, <2>2 DEF Agree
<1>28. CASE LinkFails(p)
  BY <1>3, <1>28 DEF LinkFails
<1>29. CASE Confirm(p) \/ Throw(p) \/ Crash(p)
  <2>1. proc' = [proc EXCEPT ![p] = Idle] /\ UNCHANGED disk /\ Calm
    BY <1>0, <1>29 DEF Confirm, Throw, Crash, Return, Reading, Others, Calm, TypeOK
  <2>2. Idle \in ProcState /\ Informed(Idle) /\ Idle.pc = "idle"
    BY IdleHolds DEF Idle, Informed, WithProposal
  <2> QED BY <2>1, <2>2, ReadingInforms DEF WithProposal
<1> QED BY <1>4, <1>5, <1>6, <1>8, <1>10, <1>14, <1>15, <1>16, <1>18, <1>19, <1>22,
           <1>23, <1>24, <1>25, <1>26, <1>27, <1>28, <1>29

LEMMA WritesInform ==
  ASSUME KInv, NEW p \in Procs,
         Create(p) \/ Write(p) \/ Apply(p) \/ Capture(p) \/ Restore(p)
         \/ Reauthorize(p) \/ Link(p)
  PROVE  (AllInformed /\ WrittenAlone /\ Disk)'
<1> DEFINE me == proc[p]
<1>0. /\ me \in ProcState /\ Informed(me) /\ Holds(me)
      /\ TypeOK /\ Named /\ Counted /\ Replaced /\ Undisturbed
  BY DEF KInv, IInv, TypeOK, AllInformed, Held, Disk
<1>1. me.pc \in WithProposal =>
        /\ me.proposal \in Files
        /\ me.proposal \in proposed \/ InPlace(me.proposal)
  BY <1>0, FilesAre DEF Holds, Artifacts, InPlace, TypeOK
\* Where a proposal is being written.
<1>2. ASSUME NEW q \in Procs \ {p}, proc[q].pc = "write"
      PROVE  /\ proc[q].proposal \in proposed /\ proc[q].proposal \in Names
             /\ proc[q].proposal # target
             /\ \A b \in Names : backups[b] # proc[q].proposal
             /\ me.pc \in WithProposal => me.proposal # proc[q].proposal
  BY <1>0, <1>2 DEF KInv, WrittenAlone, Alone, InPlace, TypeOK
\* Whatever p goes on to, it has the sources and the descriptor it had.
<1>3. ASSUME NEW new \in ProcState,
             new.pc \in {"write", "rescan", "reread", "captured", "link", "confirm"},
             new.sources = me.sources, new.auth = me.auth,
             new.pc \in WithProposal => new.proposal # Original,
             new.pc = "link" => me.pc = "reauthorize",
             proc' = [proc EXCEPT ![p] = new], SourcesStay
      PROVE  AllInformed'
  <2>1. Informed(new)
    BY <1>0, <1>3 DEF Informed
  <2> QED BY <1>3, <2>1, StayingSources, InformedTurn
<1>4. CASE Create(p)
  <2>1. PICK n \in Names : n = Unused(proposed) /\ n \notin proposed
    BY <1>0, <1>4, UnusedIs DEF Create, TypeOK
  <2>2. [me EXCEPT !.pc = "write", !.proposal = n] \in ProcState
    BY <1>0, FilesAre DEF ProcState
  <2>3. PICK new \in ProcState : new = [me EXCEPT !.pc = "write", !.proposal = n]
    BY <2>2
  <2>4. new.pc = "write" /\ new.proposal = n /\ new.sources = me.sources /\ new.auth = me.auth
    BY <1>0, <2>3 DEF ProcState
  <2>5. /\ proposed' = proposed \cup {n}
        /\ file' = [file EXCEPT ![n] = [class |-> "EXTERNAL", auth |-> "inherited"]]
        /\ proc' = [proc EXCEPT ![p] = new]
        /\ UNCHANGED <<target, backups>> /\ Others
    BY <1>4, <2>1, <2>3 DEF Create
  <2>6. n \in Files /\ n # Original /\ ~InPlace(n)
    BY <1>0, <2>1, FilesAre, ConfigureAssumption DEF Named
  <2>7. /\ file'[n].class = "EXTERNAL"
        /\ \A f \in Files : f # n => file'[f] = file[f]
    BY <1>0, <2>5, <2>6 DEF TypeOK
  <2>8. Backups("SOURCE")' = Backups("SOURCE")
    BY <1>0, <2>5, <2>6, <2>7 DEF Backups, Class, InPlace, TypeOK
  <2>9. AllInformed'
    BY <1>3, <2>4, <2>5, <2>6, <2>8 DEF SourcesStay, Others
  <2>10. \A q \in Procs : q # p => proc'[q] = proc[q]
    BY <1>0, <2>5 DEF TypeOK
  <2>11. Alone(p)'
    <3>1. proc'[p].proposal = n
      BY <1>0, <2>4, <2>5 DEF TypeOK
    <3>2. ~InPlace(proc[p].proposal)'
      BY <2>5, <2>6, <3>1 DEF InPlace
    <3>3. ASSUME NEW q \in Procs \ {p}, proc[q].pc \in WithProposal
          PROVE  proc[q].proposal # n
      BY <2>1, <2>6, <3>3, FilesAre DEF KInv, IInv, Held, Holds, Artifacts, InPlace
    <3> QED BY <2>5, <2>7, <2>10, <3>1, <3>2, <3>3 DEF Alone
  <2>12. ASSUME NEW q \in Procs \ {p}, proc[q].pc = "write"
         PROVE  Alone(q)'
    <3>1. Alone(q) /\ proc[q].proposal \in proposed /\ proc[q].proposal \in Files
      BY <1>0, <2>12, FilesAre DEF KInv, WrittenAlone, Alone, TypeOK
    <3>2. proc'[q] = proc[q] /\ proc'[p] = new
      BY <1>0, <2>5, <2>10 DEF TypeOK
    <3>3. ~InPlace(proc[q].proposal)'
      BY <2>5, <3>1, <3>2 DEF Alone, InPlace
    <3>4. file'[proc'[q].proposal].class # "PROPOSED" /\ proc'[q].proposal \in proposed'
      BY <2>1, <2>5, <2>7, <3>1, <3>2 DEF Alone
    <3>5. \A r \in Procs \ {q} : proc'[r].pc \in WithProposal => proc'[r].proposal # proc'[q].proposal
      BY <2>1, <2>4, <2>10, <3>1, <3>2 DEF Alone
    <3> QED BY <3>3, <3>4, <3>5 DEF Alone
  <2>13. WrittenAlone'
    BY <2>10, <2>11, <2>12 DEF WrittenAlone
  <2>14. Named' /\ Counted' /\ Replaced'
    BY <1>0, <2>5, <2>8 DEF Named, Counted, Replaced, InPlace, Others
  <2>15. Undisturbed'
    BY <1>0, <2>5, <2>6, <2>7, FilesAre DEF Undisturbed, InPlace, Others
  <2> QED BY <2>9, <2>13, <2>14, <2>15 DEF Disk
\* The class of a proposal that is not in place may change, its descriptor where
\* it is in place only to what it has to be.
<1>5. ASSUME me.pc \in WithProposal, NEW new \in ProcState,
             new.pc \in {"rescan", "reread", "link"}, new.proposal = me.proposal,
             new.sources = me.sources, new.auth = me.auth,
             new.pc = "link" => me.pc = "reauthorize",
             proc' = [proc EXCEPT ![p] = new],
             \A g \in Files \ {me.proposal} : file'[g] = file[g],
             \/ ~InPlace(me.proposal) /\ file'[me.proposal].class # "SOURCE"
             \/ /\ file'[me.proposal].class = file[me.proposal].class
                /\ existing /\ edits = 0 => file'[me.proposal].auth = "kept",
             UNCHANGED <<target, proposed, backups>>, Others
      PROVE  (AllInformed /\ WrittenAlone /\ Disk)'
  <2> DEFINE f == me.proposal
  <2>1. f \in Files
    BY <1>1, <1>5
  <2>2. \A g \in Files : g # f => file'[g] = file[g]
    BY <1>5
  <2>3. ASSUME NEW g \in Files, InPlace(g)
        PROVE  file'[g].class = file[g].class
    BY <1>5, <2>2, <2>3
  <2>4. Backups("SOURCE")' = Backups("SOURCE")
    BY <1>0, <1>5, <2>3 DEF Backups, Class, InPlace, TypeOK
  <2>5. existing /\ edits = 0 => f # Original
    BY <1>0, <1>5 DEF Informed
  <2>6. SourcesStay
    BY <1>5, <2>4 DEF SourcesStay, Others
  <2>7. Informed(new)
    BY <1>0, <1>5, <2>5 DEF Informed
  <2>8. AllInformed'
    BY <1>5, <2>6, <2>7, StayingSources, InformedTurn
  <2>9. ASSUME NEW q \in Procs \ {p}, proc[q].pc = "write"
        PROVE  /\ ~InPlace(proc[q].proposal)'
               /\ file'[proc[q].proposal].class = file[proc[q].proposal].class
               /\ new.proposal # proc[q].proposal
    <3>1. proc'[q] = proc[q]
      BY <1>0, <1>5 DEF TypeOK
    <3>2. ~InPlace(proc[q].proposal)'
      BY <1>2, <1>5, <2>9, <3>1 DEF InPlace
    <3> QED BY <1>2, <1>5, <2>2, <2>9, <3>2, FilesAre
  <2>10. WrittenAlone'
    BY <1>5, <2>9, AloneTurn
  <2>11. Named' /\ Counted' /\ Replaced'
    BY <1>0, <1>5, <2>4 DEF Named, Counted, Replaced, InPlace, Others
  <2>12. Undisturbed'
    <3> SUFFICES ASSUME existing, edits = 0
                 PROVE  Undisturbed'
      BY <1>5 DEF Undisturbed, Others
    <3>1. f # Original /\ file[f].class # "SOURCE"
      BY <1>0, <2>1, <2>5 DEF Undisturbed
    <3>2. file'[Original] = [class |-> "SOURCE", auth |-> "kept"]
      BY <1>0, <2>2, <3>1, FilesAre DEF Undisturbed
    <3>3. \A g \in Files : file'[g].class = "SOURCE" => g = Original
      BY <1>0, <1>5, <2>2, <3>1 DEF Undisturbed
    <3>4. ASSUME NEW g \in Files, InPlace(g)
          PROVE  g = Original \/ (g \in Names /\ file'[g].auth = "kept")
      BY <1>0, <1>5, <2>2, <3>4 DEF Undisturbed
    <3>5. \A g \in Files : InPlace(g)' => InPlace(g)
      BY <1>5 DEF InPlace
    <3> QED BY <3>2, <3>3, <3>4, <3>5 DEF Undisturbed
  <2> QED BY <2>8, <2>10, <2>11, <2>12 DEF Disk
<1>6. me.pc \in WithProposal =>
        file[me.proposal] = [class |-> file[me.proposal].class, auth |-> file[me.proposal].auth]
  BY <1>0, <1>1 DEF TypeOK
<1>7. CASE Write(p)
  <2>1. [me EXCEPT !.pc = "rescan"] \in ProcState
    BY <1>0 DEF ProcState
  <2>2. PICK new \in ProcState : new = [me EXCEPT !.pc = "rescan"]
    BY <2>1
  <2>3. new.pc = "rescan" /\ new.proposal = me.proposal /\ new.sources = me.sources /\ new.auth = me.auth
    BY <1>0, <2>2 DEF ProcState
  <2>4. me.pc = "write" /\ me.pc \in WithProposal
    BY <1>7 DEF Write, At, WithProposal
  <2>5. /\ file' = [file EXCEPT ![me.proposal].class = "PROPOSED"]
        /\ proc' = [proc EXCEPT ![p] = new]
        /\ UNCHANGED <<target, proposed, backups>> /\ Others
    BY <1>7, <2>2 DEF Write, Goto
  <2>6. /\ \A g \in Files \ {me.proposal} : file'[g] = file[g]
        /\ file'[me.proposal].class = "PROPOSED"
    BY <1>0, <1>1, <1>6, <2>4, <2>5 DEF TypeOK
  <2>7. ~InPlace(me.proposal)
    BY <2>4 DEF KInv, WrittenAlone, Alone
  <2> QED BY <1>5, <2>3, <2>4, <2>5, <2>6, <2>7
<1>8. CASE Apply(p) \/ Reauthorize(p)
  <2> DEFINE pc == IF me.pc = "apply" THEN "reread" ELSE "link"
  <2>1. [me EXCEPT !.pc = pc] \in ProcState
    BY <1>0 DEF ProcState
  <2>2. PICK new \in ProcState : new = [me EXCEPT !.pc = pc]
    BY <2>1
  <2>3. new.pc = pc /\ new.proposal = me.proposal /\ new.sources = me.sources /\ new.auth = me.auth
    BY <1>0, <2>2 DEF ProcState
  <2>4. me.pc \in {"apply", "reauthorize"} /\ me.pc \in WithProposal
    BY <1>8 DEF Apply, Reauthorize, At, WithProposal
  <2>5. /\ file' = [file EXCEPT ![me.proposal].auth = me.auth]
        /\ proc' = [proc EXCEPT ![p] = new]
        /\ UNCHANGED <<target, proposed, backups>> /\ Others
    BY <1>8, <2>2 DEF Apply, Reauthorize, At, Goto
  <2>6. /\ \A g \in Files \ {me.proposal} : file'[g] = file[g]
        /\ file'[me.proposal].class = file[me.proposal].class
        /\ file'[me.proposal].auth = me.auth
    BY <1>0, <1>1, <1>6, <2>4, <2>5 DEF TypeOK
  <2>7. existing /\ edits = 0 => me.auth = "kept"
    BY <1>0, <2>4, ConfigureAssumption DEF Informed, Holds, Descriptors
  <2>8. new.pc \in {"reread", "link"} /\ (new.pc = "link" => me.pc = "reauthorize")
    BY <2>3, <2>4
  <2> HIDE DEF pc
  <2> QED BY <1>5, <2>3, <2>4, <2>5, <2>6, <2>7, <2>8
<1>9. CASE Capture(p)
  <2>1. PICK b \in Names : b = Unused({n \in Names : backups[n] # None}) /\ backups[b] = None
    BY <1>9, UnusedIs DEF Capture
  <2>2. [me EXCEPT !.pc = "captured", !.captured = b] \in ProcState
    BY <1>0 DEF ProcState
  <2>3. PICK new \in ProcState : new = [me EXCEPT !.pc = "captured", !.captured = b]
    BY <2>2
  <2>4. /\ new.pc = "captured" /\ new.proposal = me.proposal
        /\ new.sources = me.sources /\ new.auth = me.auth
    BY <1>0, <2>3 DEF ProcState
  <2>5. /\ me.pc \in WithProposal /\ target # None /\ target \in Files
        /\ backups' = [backups EXCEPT ![b] = target] /\ target' = None
        /\ proc' = [proc EXCEPT ![p] = new]
        /\ UNCHANGED <<proposed, file>> /\ Others
    BY <1>0, <1>9, <2>1, <2>3 DEF Capture, At, WithProposal, TypeOK
  <2>6. backups'[b] = target /\ \A c \in Names : c # b => backups'[c] = backups[c]
    BY <1>0, <2>5 DEF TypeOK
  <2>7. \A f \in Files : InPlace(f)' <=> InPlace(f)
    BY <1>0, <2>1, <2>5, <2>6, FilesAre DEF InPlace
  <2>8. Backups("SOURCE") \subseteq Backups("SOURCE")'
    BY <2>1, <2>5, <2>6 DEF Backups, Class
  <2>9. new.pc \in WithProposal /\ (existing /\ edits = 0 => new.proposal # Original)
    BY <1>0, <2>4, <2>5 DEF Informed, WithProposal
  <2>10. Informed(new)
    BY <1>0, <2>4, <2>9 DEF Informed
  <2>11. SourcesStay
    BY <2>5, <2>8 DEF SourcesStay, Others
  <2>12. AllInformed'
    BY <2>5, <2>10, <2>11, StayingSources, InformedTurn
  <2>13. ASSUME NEW q \in Procs \ {p}, proc[q].pc = "write"
         PROVE  /\ ~InPlace(proc[q].proposal)'
                /\ new.proposal # proc[q].proposal
    <3>1. proc'[q] = proc[q]
      BY <1>0, <2>5 DEF TypeOK
    <3>2. ~InPlace(proc[q].proposal)'
      BY <1>0, <1>2, <2>5, <2>6, <2>13, <3>1, FilesAre DEF InPlace
    <3> QED BY <1>2, <2>4, <2>5, <2>13, <3>2
  <2>14. WrittenAlone'
    BY <2>4, <2>5, <2>13, AloneTurn
  <2>15. Disk'
    BY <1>0, <2>5, <2>7, <2>8, FilesAre DEF Disk, Named, Counted, Replaced, Undisturbed, Others
  <2> QED BY <2>12, <2>14, <2>15
\* A link gives a name to a file that is in place, or to a proposal.
<1>10. ASSUME NEW f \in Files, NEW new \in ProcState, Informed(new),
              new.pc \in {"idle", "confirm"},
              target = None, target' = f, proc' = [proc EXCEPT ![p] = new],
              \A q \in Procs \ {p} : proc[q].pc = "write" => f # proc[q].proposal,
              f \in proposed \/ InPlace(f),
              existing /\ ~tampered /\ f \in Names => Backups("SOURCE") # {},
              existing /\ edits = 0 => f = Original \/ (f \in Names /\ file[f].auth = "kept"),
              UNCHANGED <<file, proposed, backups>>, Others
       PROVE  (AllInformed /\ WrittenAlone /\ Disk)'
  <2>1. Backups("SOURCE")' = Backups("SOURCE")
    BY <1>10 DEF Backups, Class
  <2>2. SourcesStay
    BY <1>10, <2>1 DEF SourcesStay, Others
  <2>3. AllInformed'
    BY <1>10, <2>2, StayingSources, InformedTurn
  <2>4. ASSUME NEW q \in Procs \ {p}, proc[q].pc = "write"
        PROVE  ~InPlace(proc[q].proposal)'
    <3>1. proc'[q] = proc[q]
      BY <1>0, <1>10 DEF TypeOK
    <3> QED BY <1>2, <1>10, <2>4, <3>1 DEF InPlace
  <2>5. WrittenAlone'
    BY <1>10, <2>4, AloneTurn DEF WithProposal
  <2>6. \A g \in Files : InPlace(g)' => InPlace(g) \/ g = f
    BY <1>10 DEF InPlace
  <2>7. Named'
    BY <1>0, <1>10, <2>6, FilesAre DEF Named
  <2>8. Counted' /\ Replaced'
    BY <1>0, <1>10, <2>1, <2>6, FilesAre DEF Counted, Replaced, Others
  <2>9. Undisturbed'
    BY <1>0, <1>10, <2>6 DEF Undisturbed, Others
  <2> QED BY <2>3, <2>5, <2>7, <2>8, <2>9 DEF Disk
<1>11. CASE Restore(p)
  <2> DEFINE f == backups[me.captured]
  <2>1. /\ me.pc = "restore" /\ target = None /\ target' = f
        /\ proc' = [proc EXCEPT ![p] = Idle]
        /\ UNCHANGED <<file, proposed, backups>> /\ Others
    BY <1>11 DEF Restore, At, Return
  <2>2. me.captured \in Names /\ f \in Files /\ InPlace(f)
    BY <1>0, <2>1 DEF Holds, TypeOK, InPlace
  <2>3. Idle \in ProcState /\ Informed(Idle) /\ Idle.pc = "idle"
    BY IdleHolds DEF Idle, Informed, WithProposal
  <2>4. \A q \in Procs \ {p} : proc[q].pc = "write" => f # proc[q].proposal
    BY <1>2, <2>2
  <2>5. existing /\ ~tampered /\ f \in Names => Backups("SOURCE") # {}
    BY <1>0, <2>2 DEF Replaced
  <2>6. existing /\ edits = 0 => f = Original \/ (f \in Names /\ file[f].auth = "kept")
    BY <1>0, <2>2 DEF Undisturbed
  <2> QED BY <1>10, <2>1, <2>2, <2>3, <2>4, <2>5, <2>6
<1>12. CASE Link(p)
  <2> DEFINE f == me.proposal
             new == [me EXCEPT !.pc = "confirm"]
  <2>1. /\ me.pc = "link" /\ target = None /\ target' = f
        /\ existing => me.auth \in {None, file[f].auth}
        /\ proc' = [proc EXCEPT ![p] = new]
        /\ UNCHANGED <<file, proposed, backups>> /\ Others
    BY <1>12 DEF Link, Linkable, At, Goto
  <2>2. me.pc \in WithProposal
    BY <2>1 DEF WithProposal
  <2>3. new \in ProcState /\ new.pc = "confirm" /\ new.sources = me.sources /\ new.auth = me.auth
    BY <1>0 DEF ProcState
  <2> HIDE DEF new
  <2>4. Informed(new)
    BY <1>0, <2>3 DEF Informed, WithProposal
  <2>5. f \in Files /\ (f \in proposed \/ InPlace(f))
    BY <1>1, <2>2
  <2>6. \A q \in Procs \ {p} : proc[q].pc = "write" => f # proc[q].proposal
    BY <1>2, <2>2
  <2>7. existing /\ ~tampered => Backups("SOURCE") # {}
    BY <1>0, <2>1 DEF Informed
  <2>8. existing /\ edits = 0 => f = Original \/ (f \in Names /\ file[f].auth = "kept")
    <3> SUFFICES ASSUME existing, edits = 0 PROVE f \in Names /\ file[f].auth = "kept"
      OBVIOUS
    <3>1. f # Original
      BY <1>0, <2>2 DEF Informed
    <3>2. f \in Names
      BY <1>0, <2>5, <3>1 DEF Undisturbed, TypeOK
    <3>3. me.auth = "kept" /\ me.auth # None
      BY <1>0, <2>1, ConfigureAssumption DEF Informed, Descriptors
    <3> QED BY <2>1, <3>2, <3>3
  <2> QED BY <1>10, <2>1, <2>3, <2>4, <2>5, <2>6, <2>7, <2>8
<1> QED BY <1>4, <1>7, <1>8, <1>9, <1>11, <1>12

\* Other programs bring no proposal into play, and take the source bytes from a
\* backup only through a file that was restored.
LEMMA OthersInform ==
  ASSUME KInv, OtherPrograms
  PROVE  (AllInformed /\ WrittenAlone /\ Disk)'
<1>0. TypeOK /\ Named /\ Counted /\ Replaced
  BY DEF KInv, IInv, Disk
<1>1. UNCHANGED <<existing, proposed, backups, proc>> /\ edits' # 0
  BY <1>0 DEF OtherPrograms, Replace, EditInPlace, Delete, Edited, TypeOK
<1>2. ASSUME ~tampered'
      PROVE  ~tampered /\ Backups("SOURCE") \subseteq Backups("SOURCE")'
  <2>1. ASSUME NEW class, EditInPlace(class)
        PROVE  ~tampered /\ Backups("SOURCE") \subseteq Backups("SOURCE")'
    BY <1>0, <1>2, <2>1 DEF EditInPlace, Backups, Class, TypeOK
  <2>2. ASSUME NEW class, NEW f \in Foreign, Replace(f, class)
        PROVE  ~tampered /\ Backups("SOURCE") \subseteq Backups("SOURCE")'
    BY <1>0, <1>2, <2>2, FilesAre DEF Replace, Backups, Class, TypeOK, NoFile
  <2>3. ASSUME Delete
        PROVE  ~tampered /\ Backups("SOURCE") \subseteq Backups("SOURCE")'
    BY <1>2, <2>3 DEF Delete, Backups, Class
  <2> QED BY <2>1, <2>2, <2>3 DEF OtherPrograms
<1>3. SourcesStay
  BY <1>1, <1>2 DEF SourcesStay
<1>4. AllInformed'
  BY <1>1, <1>3, StayingSources DEF KInv, AllInformed, Informed
<1>5. target' \in Foreign \cup {target, None}
  BY DEF OtherPrograms, Replace, EditInPlace, Delete
<1>6. \A n \in Names : InPlace(n)' => InPlace(n)
  BY <1>1, <1>5, FilesAre, ConfigureAssumption DEF InPlace
<1>7. ASSUME NEW n \in Names, ~InPlace(n)
      PROVE  file'[n] = file[n]
  BY <1>0, <1>7, FilesAre, ConfigureAssumption
     DEF OtherPrograms, Replace, EditInPlace, Delete, InPlace, TypeOK
<1>8. ASSUME NEW p \in Procs, proc[p].pc = "write"
      PROVE  Alone(p)'
  <2>1. Alone(p) /\ proc[p].proposal \in Names
    BY <1>0, <1>8 DEF KInv, WrittenAlone, Alone, TypeOK
  <2>2. ~InPlace(proc[p].proposal)'
    BY <1>1, <1>5, <2>1, FilesAre, ConfigureAssumption DEF Alone, InPlace
  <2> QED BY <1>1, <1>7, <2>1, <2>2 DEF Alone
<1>9. WrittenAlone'
  BY <1>1, <1>8 DEF WrittenAlone
<1>10. Disk'
  BY <1>0, <1>1, <1>2, <1>6 DEF Disk, Named, Counted, Replaced, Undisturbed
<1> QED BY <1>4, <1>9, <1>10

LEMMA KeptStart == Init => KInv
<1> SUFFICES ASSUME Init PROVE KInv
  OBVIOUS
<1>1. IInv
  BY Start
<1>2. AllInformed /\ WrittenAlone
  BY DEF Init, AllInformed, Informed, WrittenAlone, Idle, WithProposal
<1>3. Named /\ Replaced /\ Counted
  BY FilesAre, ConfigureAssumption DEF Init, Named, Replaced, Counted, InPlace
<1>4. Undisturbed
  BY FilesAre DEF Init, Undisturbed, InPlace, NoFile
<1> QED BY <1>1, <1>2, <1>3, <1>4 DEF KInv, Disk

LEMMA KeptNext == KInv /\ [Next]_vars => KInv'
<1> SUFFICES ASSUME KInv, [Next]_vars PROVE KInv'
  OBVIOUS
<1>1. IInv'
  BY NextKeeps DEF KInv
<1>2. ASSUME NEW p \in Procs, Begin(p) \/ Step(p) \/ Throw(p) \/ Crash(p)
      PROVE  (AllInformed /\ WrittenAlone /\ Disk)'
  BY <1>2, ReadsInform, WritesInform DEF Step
<1>3. CASE UNCHANGED vars
  <2>1. SourcesStay
    BY <1>3 DEF SourcesStay, Backups, Class, vars, disk
  <2>2. AllInformed'
    BY <1>3, <2>1, StayingSources DEF KInv, AllInformed, Informed, vars
  <2>3. WrittenAlone'
    BY <1>3 DEF KInv, WrittenAlone, Alone, InPlace, vars, disk
  <2>4. Disk'
    BY <1>3 DEF KInv, Disk, Named, Counted, Replaced, Undisturbed, InPlace, Backups,
                Class, vars, disk
  <2> QED BY <1>1, <2>2, <2>3, <2>4 DEF KInv
<1> QED BY <1>1, <1>2, <1>3, OthersInform DEF Next, KInv

\* Where configure --apply made a proposal active in the place of an existing
\* configuration, the bytes it replaced are in a backup with their descriptor.
THEOREM SourceIsKeptHolds == Spec => []SourceIsKept
<1>1. ASSUME KInv
      PROVE  SourceIsKept
  <2>0. TypeOK /\ Replaced /\ Undisturbed /\ Counted
    BY <1>1 DEF KInv, IInv, Disk
  <2> SUFFICES ASSUME existing, ~tampered, target \in Names
               PROVE  \E b \in Backups("SOURCE") :
                        edits = 0 => file[backups[b]].auth = file[target].auth
    BY DEF SourceIsKept
  <2>1. PICK b \in Backups("SOURCE") : TRUE
    BY <2>0 DEF Replaced, InPlace
  <2>2. ASSUME edits = 0
        PROVE  file[backups[b]].auth = file[target].auth
    BY <2>0, <2>1, <2>2, SourceAuth, FilesAre, ConfigureAssumption DEF Undisturbed, InPlace
  <2> QED BY <2>1, <2>2
<1> QED BY <1>1, KeptStart, KeptNext, PTL DEF Spec

=============================================================================
