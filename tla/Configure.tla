------------------------------ MODULE Configure ------------------------------
(***************************************************************************)
(* configure --apply of one immutable plan: the file-system steps of       *)
(* applyConfigurePlanIdentity as processes that run them at the same time, *)
(* crash between any two of them and are started again with the same plan, *)
(* while other programs replace, edit or delete the configuration file.    *)
(* There is no lock and no journal: what a retry knows is the bytes of the *)
(* target and of the artifacts beside it.                                  *)
(*                                                                         *)
(* Files have an identity of their own (the inode): an installed proposal  *)
(* and its artifact are two names of one file.  Only the class that hashes *)
(* tell apart is kept of its bytes, and of a Windows security descriptor   *)
(* whether it is the one the configuration had.  An existing configuration *)
(* is changed on Windows only, so the steps for one are those of Windows.  *)
(***************************************************************************)
EXTENDS Integers, FiniteSets

CONSTANTS
  Procs,        \* processes that apply the plan
  Names,        \* random parts of artifact names
  Original,     \* the file the plan was previewed on
  Foreign,      \* files other programs put in its place
  None,
  MaxFaults     \* bound on crashes and I/O errors of Procs and what other
                \* programs do, together

\* The proposal of name n is a new file, which the name stands for.
Files == {Original} \cup Names \cup Foreign

ASSUME ConfigureAssumption ==
  /\ Original \notin Names \cup Foreign
  /\ Names \cap Foreign = {}
  /\ None \notin Files \cup {"kept", "inherited"}
  /\ MaxFaults \in Nat

VARIABLES
  existing,   \* source_state of the plan: whether there was a file at preview
  target,     \* the file at the configuration path
  proposed,   \* the names of the proposal artifacts
  backups,    \* the file at each backup artifact
  file,       \* class of the bytes and descriptor of each file
  proc,       \* where each process is in the transaction
  discarded,  \* the files other programs took from the configuration path
  tampered,   \* whether they changed a restored file, which is its backup too
  crashes, edits

disk == <<target, proposed, backups, file>>
vars == <<existing, disk, proc, discarded, tampered, crashes, edits>>

Classes == {"SOURCE", "PROPOSED", "EXTERNAL"}
Descriptors == {"kept", "inherited"}

NoFile == [class |-> "none", auth |-> "inherited"]

\* current is the class of the target as last read; sources the SOURCE backups
\* of the last scan; auth the descriptor the proposal must have.
Idle == [pc |-> "idle", current |-> "none", proposal |-> None, sources |-> {},
         captured |-> None, auth |-> None]

Init ==
  /\ existing \in BOOLEAN
  /\ target = IF existing THEN Original ELSE None
  /\ proposed = {}
  /\ backups = [b \in Names |-> None]
  /\ file = [f \in Files |-> IF f = Original /\ existing
                             THEN [class |-> "SOURCE", auth |-> "kept"]
                             ELSE NoFile]
  /\ proc = [p \in Procs |-> Idle]
  /\ discarded = {}
  /\ tampered = FALSE
  /\ crashes = 0
  /\ edits = 0

-----------------------------------------------------------------------------
(* readCurrent, scanTransactionArtifacts and classifyArtifact *)

Class(f) == IF f = None THEN "MISSING" ELSE file[f].class

Active == Class(target)

Backups(class) == {b \in Names : backups[b] # None /\ Class(backups[b]) = class}

\* requireExpectedArtifacts: no proposal is half written or edited.
ProposalsIntact == \A n \in proposed : Class(n) = "PROPOSED"

\* The files from which a missing target may be installed.
ProvenProposals == proposed \cup {backups[b] : b \in Backups("PROPOSED")}

\* requireSourceAuthorizationConsensus over a non-empty set of backups.
Consensus(sources, auth) ==
  sources # {} /\ \A b \in sources : file[backups[b]].auth = auth

\* Names are drawn at random and scanned in the order of their text, so that
\* which one is free does not matter, and the first of a scan may be any.
Unused(used) == CHOOSE n \in Names : n \notin used

At(p, pc) == proc[p].pc = pc

Goto(p, pc) == proc' = [proc EXCEPT ![p].pc = pc]

Return(p) == proc' = [proc EXCEPT ![p] = Idle]

Others == UNCHANGED <<existing, discarded, tampered, crashes, edits>>

Reading == UNCHANGED disk /\ Others

-----------------------------------------------------------------------------
(* sourceBytesForPlan *)

\* Faulty: the source bytes are only looked for at the configuration path.
BeginAtTarget(p) ==
  /\ At(p, "idle")
  /\ existing => Active = "SOURCE"
  /\ Goto(p, "read")
  /\ Reading

Begin(p) ==
  /\ At(p, "idle")
  /\ Goto(p, IF existing /\ Active # "SOURCE" THEN "find" ELSE "read")
  /\ Reading

\* The source bytes are read from a backup.
FindSource(p) ==
  /\ At(p, "find")
  /\ \E auth \in Descriptors : Consensus(Backups("SOURCE"), auth)
  /\ Goto(p, "read")
  /\ Reading

-----------------------------------------------------------------------------
(* applyConfigureTransaction *)

Read(p) ==
  /\ At(p, "read")
  /\ proc' = [proc EXCEPT ![p].pc = "scan", ![p].current = Active]
  /\ Reading

\* What the class of the target says, once the artifacts are scanned.
Scanned(p, current) ==
  /\ At(p, "scan")
  /\ ProposalsIntact
  /\ proc[p].current = current

NoExternalBackup == Backups("EXTERNAL") = {}

\* One external file was captured, and nothing else: it is put back.
ScanRestore(p) ==
  /\ Scanned(p, "MISSING")
  /\ Cardinality(Backups("EXTERNAL")) = 1
  /\ Backups("SOURCE") \cup Backups("PROPOSED") = {}
  /\ \E b \in Backups("EXTERNAL") :
       proc' = [proc EXCEPT ![p].pc = "restore", ![p].captured = b]
  /\ Reading

\* Already applied; the descriptor is compared if there is one to keep.
ScanApplied(p) ==
  /\ Scanned(p, "PROPOSED")
  /\ NoExternalBackup
  /\ \E auth \in Descriptors \cup {None} :
       /\ IF Backups("SOURCE") = {} THEN ~existing /\ auth = None
                                    ELSE Consensus(Backups("SOURCE"), auth)
       /\ proc' = [proc EXCEPT ![p].pc = "confirm", ![p].auth = auth]
  /\ Reading

\* A proposal is at hand and the target is missing.
ScanInstall(p) ==
  /\ Scanned(p, "MISSING")
  /\ NoExternalBackup
  /\ \E f \in ProvenProposals :
       proc' = [proc EXCEPT ![p].pc = "install", ![p].proposal = f,
                            ![p].sources = Backups("SOURCE")]
  /\ Reading

\* A proposal is needed: the target is the source, or it is missing and either
\* expected to be or captured.
ScanCreate(p) ==
  /\ \/ Scanned(p, "SOURCE") /\ existing
     \/ /\ Scanned(p, "MISSING")
        /\ ProvenProposals = {}
        /\ existing <=> Backups("SOURCE") # {}
  /\ NoExternalBackup
  /\ proposed = {}
  /\ Goto(p, "create")
  /\ Reading

ScanReuse(p) ==
  /\ Scanned(p, "SOURCE")
  /\ existing
  /\ NoExternalBackup
  /\ \E n \in proposed :
       proc' = [proc EXCEPT ![p].pc = "authorize", ![p].proposal = n,
                            ![p].sources = Backups("SOURCE")]
  /\ Reading

\* writeExclusiveFile creates the file, ...
Create(p) ==
  LET n == Unused(proposed) IN
  /\ At(p, "create")
  /\ proposed # Names
  /\ proposed' = proposed \cup {n}
  /\ file' = [file EXCEPT ![n] = [class |-> "EXTERNAL", auth |-> "inherited"]]
  /\ proc' = [proc EXCEPT ![p].pc = "write", ![p].proposal = n]
  /\ UNCHANGED <<target, backups>> /\ Others

\* ... then writes it and flushes it.
Write(p) ==
  /\ At(p, "write")
  /\ file' = [file EXCEPT ![proc[p].proposal].class = "PROPOSED"]
  /\ Goto(p, "rescan")
  /\ UNCHANGED <<target, proposed, backups>> /\ Others

\* A first install has no descriptor to copy and nothing to capture.
Rescan(p) ==
  /\ At(p, "rescan")
  /\ ProposalsIntact
  /\ proc' = [proc EXCEPT ![p].pc = IF existing THEN "authorize" ELSE "install",
                          ![p].sources = Backups("SOURCE")]
  /\ Reading

\* preserveWindowsAuthorization reads the descriptor of the target, or of the
\* backups where the target was missing, ...
Authorize(p) ==
  /\ At(p, "authorize")
  /\ \E auth \in Descriptors :
       /\ IF proc[p].current = "MISSING" THEN Consensus(proc[p].sources, auth)
          ELSE target # None /\ file[target].auth = auth
       /\ proc' = [proc EXCEPT ![p].pc = "apply", ![p].auth = auth]
  /\ Reading

\* ... and writes it to the proposal.
Apply(p) ==
  /\ At(p, "apply")
  /\ file' = [file EXCEPT ![proc[p].proposal].auth = proc[p].auth]
  /\ Goto(p, "reread")
  /\ UNCHANGED <<target, proposed, backups>> /\ Others

\* The descriptor is read back, and the target is read again: a source is
\* captured, anything else is left to the scan before the installation.
Reread(p) ==
  /\ At(p, "reread")
  /\ file[proc[p].proposal].auth = proc[p].auth
  /\ Goto(p, IF Active = "SOURCE" THEN "capture" ELSE "source")
  /\ Reading

\* Faulty: the backup name has no random part and the move overwrites it.
CaptureOver(p) ==
  LET b == Unused({}) IN
  /\ At(p, "capture")
  /\ target # None
  /\ backups' = [backups EXCEPT ![b] = target]
  /\ target' = None
  /\ proc' = [proc EXCEPT ![p].pc = "captured", ![p].captured = b]
  /\ UNCHANGED <<proposed, file>> /\ Others

\* captureTargetNoOverwrite moves whatever is at the path by now.
Capture(p) ==
  LET b == Unused({n \in Names : backups[n] # None}) IN
  /\ At(p, "capture")
  /\ target # None
  /\ \E n \in Names : backups[n] = None
  /\ backups' = [backups EXCEPT ![b] = target]
  /\ target' = None
  /\ proc' = [proc EXCEPT ![p].pc = "captured", ![p].captured = b]
  /\ UNCHANGED <<proposed, file>> /\ Others

CaptureFails(p) ==
  /\ At(p, "capture")
  /\ target = None
  /\ Goto(p, "lost")
  /\ Reading

\* Another process of the plan was faster: its capture is taken for this one's,
\* or its installation is.
Converge(p) ==
  /\ At(p, "lost")
  /\ \/ /\ Active = "PROPOSED"
        /\ \E auth \in Descriptors \cup {None} :
             /\ IF Backups("SOURCE") = {} THEN auth = None
                                          ELSE Consensus(Backups("SOURCE"), auth)
             /\ proc' = [proc EXCEPT ![p].pc = "confirm", ![p].auth = auth]
     \/ /\ Active = "MISSING"
        /\ \E b \in IF Backups("SOURCE") # {} THEN Backups("SOURCE")
                                              ELSE Backups("PROPOSED") :
             proc' = [proc EXCEPT ![p].pc = "captured", ![p].captured = b]
  /\ Reading

\* What was captured: the source with its descriptor, the proposal another
\* process had installed, or bytes nobody expected.
Judge(p) ==
  LET f == backups[proc[p].captured] IN
  /\ At(p, "captured")
  /\ \/ /\ Class(f) = "SOURCE"
        /\ file[f].auth = proc[p].auth
        /\ Goto(p, "source")
     \/ /\ Class(f) = "PROPOSED"
        /\ proc' = [proc EXCEPT ![p].pc = "install", ![p].proposal = f,
                                ![p].sources = Backups("SOURCE")]
     \/ /\ Class(f) = "EXTERNAL"
        /\ Backups("SOURCE") \cup Backups("PROPOSED") = {}
        /\ Goto(p, "restore")
  /\ Reading

\* A hard link puts the captured bytes back if the path is free, and the call
\* fails either way.
Restore(p) ==
  /\ At(p, "restore")
  /\ target = None
  /\ target' = backups[proc[p].captured]
  /\ Return(p)
  /\ UNCHANGED <<proposed, backups, file>> /\ Others

TakeSource(p) ==
  /\ At(p, "source")
  /\ Backups("SOURCE") # {}
  /\ proc' = [proc EXCEPT ![p].pc = "install", ![p].sources = Backups("SOURCE")]
  /\ Reading

-----------------------------------------------------------------------------
(* installProvenProposal *)

\* Faulty: where there is no backup there is nothing to agree with.
AgreeUnproven(p) ==
  /\ At(p, "install")
  /\ \/ /\ proc[p].sources = {}
        /\ proc' = [proc EXCEPT ![p].pc = "link", ![p].auth = None]
     \/ \E auth \in Descriptors :
          /\ Consensus(proc[p].sources, auth)
          /\ proc' = [proc EXCEPT ![p].pc = "reauthorize", ![p].auth = auth]
  /\ Reading

\* A proposal for an existing file is not installed without its backup.
Agree(p) ==
  /\ At(p, "install")
  /\ \/ ~existing /\ proc[p].sources = {} /\ Goto(p, "link")
     \/ \E auth \in Descriptors :
          /\ Consensus(proc[p].sources, auth)
          /\ proc' = [proc EXCEPT ![p].pc = "reauthorize", ![p].auth = auth]
  /\ Reading

Reauthorize(p) ==
  /\ At(p, "reauthorize")
  /\ file' = [file EXCEPT ![proc[p].proposal].auth = proc[p].auth]
  /\ Goto(p, "link")
  /\ UNCHANGED <<target, proposed, backups>> /\ Others

\* The hard link is made if the path is free; with a descriptor to keep, from
\* the handle through which bytes and descriptor were verified.
Linkable(p) ==
  LET f == proc[p].proposal IN
  /\ target = None
  /\ existing => Class(f) = "PROPOSED" /\ proc[p].auth \in {None, file[f].auth}

Link(p) ==
  /\ At(p, "link")
  /\ Linkable(p)
  /\ target' = proc[p].proposal
  /\ Goto(p, "confirm")
  /\ UNCHANGED <<proposed, backups, file>> /\ Others

LinkFails(p) ==
  /\ At(p, "link")
  /\ ~Linkable(p)
  /\ Active = "PROPOSED"
  /\ Goto(p, "confirm")
  /\ Reading

\* validateInstalledSemantics and requireInstalledAuthorization
Confirm(p) ==
  /\ At(p, "confirm")
  /\ Active = "PROPOSED"
  /\ proc[p].auth # None => file[target].auth = proc[p].auth
  /\ Return(p)
  /\ Reading

Step(p) ==
  \/ FindSource(p) \/ Read(p) \/ ScanRestore(p) \/ ScanApplied(p)
  \/ ScanInstall(p) \/ ScanCreate(p) \/ ScanReuse(p) \/ Create(p) \/ Write(p)
  \/ Rescan(p) \/ Authorize(p) \/ Apply(p) \/ Reread(p) \/ Capture(p)
  \/ CaptureFails(p) \/ Converge(p) \/ Judge(p) \/ Restore(p) \/ TakeSource(p)
  \/ Agree(p) \/ Reauthorize(p) \/ Link(p) \/ LinkFails(p) \/ Confirm(p)

\* Every refusal leaves all files where they are.
Throw(p) ==
  /\ ~At(p, "idle")
  /\ ~ENABLED Step(p)
  /\ Return(p)
  /\ Reading

Crash(p) ==
  /\ ~At(p, "idle")
  /\ crashes + edits < MaxFaults
  /\ crashes' = crashes + 1
  /\ Return(p)
  /\ UNCHANGED <<disk, existing, discarded, tampered, edits>>

-----------------------------------------------------------------------------
(* Other programs at the configuration path *)

Edited == crashes + edits < MaxFaults /\ edits' = edits + 1

\* The path gets a new file, whose bytes may be the old ones put back.
Replace(f, class) ==
  /\ Edited
  /\ file[f] = NoFile
  /\ file' = [file EXCEPT ![f] = [class |-> class, auth |-> "inherited"]]
  /\ target' = f
  /\ discarded' = discarded \cup ({target} \ {None})
  /\ UNCHANGED <<existing, proposed, backups, proc, tampered, crashes>>

\* A file that was restored is a second name of its backup: a program that
\* writes to it changes the backup.
EditInPlace(class) ==
  /\ Edited
  /\ target # None
  /\ file' = [file EXCEPT ![target].class = class]
  /\ tampered' = (tampered \/ \E b \in Names : backups[b] = target)
  /\ UNCHANGED <<existing, target, proposed, backups, proc, discarded, crashes>>

Delete ==
  /\ Edited
  /\ target # None
  /\ target' = None
  /\ discarded' = discarded \cup {target}
  /\ UNCHANGED <<existing, proposed, backups, file, proc, tampered, crashes>>

OtherPrograms ==
  \/ \E class \in {"SOURCE", "EXTERNAL"} :
       EditInPlace(class) \/ \E f \in Foreign : Replace(f, class)
  \/ Delete

Next ==
  \/ \E p \in Procs : Begin(p) \/ Step(p) \/ Throw(p) \/ Crash(p)
  \/ OtherPrograms

Spec == Init /\ [][Next]_vars

\* A process runs on while it lives, and the plan is applied again until it is
\* reported as applied, which further calls do not change.
FairSpec ==
  /\ Spec
  /\ \A p \in Procs : WF_vars(Begin(p)) /\ WF_vars(Step(p) \/ Throw(p))

-----------------------------------------------------------------------------
(* Properties *)

ProcState ==
  [pc : {"idle", "find", "read", "scan", "create", "write", "rescan",
         "authorize", "apply", "reread", "capture", "captured", "lost",
         "restore", "source", "install", "reauthorize", "link", "confirm"},
   current : Classes \cup {"MISSING", "none"}, proposal : Files \cup {None},
   sources : SUBSET Names, captured : Names \cup {None},
   auth : Descriptors \cup {None}]

TypeOK ==
  /\ existing \in BOOLEAN
  /\ target \in Files \cup {None}
  /\ proposed \subseteq Names
  /\ backups \in [Names -> Files \cup {None}]
  /\ file \in [Files -> [class : Classes \cup {"none"}, auth : Descriptors]]
  /\ proc \in [Procs -> ProcState]
  /\ discarded \subseteq Files
  /\ tampered \in BOOLEAN
  /\ crashes \in Nat /\ edits \in Nat

Linked(f) == f = target \/ f \in proposed \/ \E b \in Names : backups[b] = f

\* Whatever processes and other programs do at the path, no file but one that
\* those programs discarded loses its last name.
NothingIsLost ==
  \A f \in Files : file[f] # NoFile => f \in discarded \/ Linked(f)

\* Where a proposal is active in the place of a configuration, the bytes it
\* replaced are in a backup, and it has the descriptor of that backup unless
\* another program brought a second one into play.  A file that was captured by
\* mistake and restored by link is its own backup, so that a later edit in place
\* reaches the backup: from then on the bytes of a source may be gone.
SourceIsKept ==
  existing /\ ~tampered /\ target \in Names /\ Active = "PROPOSED" =>
    \E b \in Backups("SOURCE") :
      edits = 0 => file[backups[b]].auth = file[target].auth

HalfWritten == \E n \in proposed : Class(n) # "PROPOSED"

\* If no other program interferes, the proposal is active in the end and stays
\* so, wherever processes crashed and however many apply the plan; only a
\* proposal that a crash left half written keeps every retry out.
Settled == edits > 0 \/ HalfWritten \/ Active = "PROPOSED"

Converges == <>[]Settled

=============================================================================
