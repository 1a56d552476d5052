------------------------------ MODULE Lifecycle ------------------------------
(***************************************************************************)
(* What the ledger promises its callers, without revisions, runs or        *)
(* checkpoints: every task walks one status machine, and the right to      *)
(* execute is a single lock for the whole repository that a task must give *)
(* back before any task can take it again.                                 *)
(***************************************************************************)
CONSTANTS Tasks, None

VARIABLES
  status,   \* where each task stands
  executor  \* the task that executes, or None

lifecycle == <<status, executor>>

Init ==
  /\ status = [t \in Tasks |-> "ABSENT"]
  /\ executor = None

Move(t, from, to) ==
  /\ status[t] \in from
  /\ status' = [status EXCEPT ![t] = to]

Open(t) == Move(t, {"ABSENT"}, "READY") /\ UNCHANGED executor

\* Execution starts only from READY and only when nobody executes.
Start(t) ==
  /\ Move(t, {"READY"}, "RUNNING")
  /\ executor = None
  /\ executor' = t

\* It ends in one of four ways and frees the lock.
Stop(t, to) ==
  /\ Move(t, {"RUNNING"}, to)
  /\ executor = t
  /\ executor' = None

Rework(t) == Move(t, {"BLOCKED", "FAILED", "COMPLETED"}, "READY")
             /\ UNCHANGED executor

Drop(t) == Move(t, {"READY", "BLOCKED", "FAILED", "COMPLETED"}, "CANCELLED")
           /\ UNCHANGED executor

Retire(t) == Move(t, {"COMPLETED", "FAILED", "CANCELLED"}, "CLOSED")
             /\ UNCHANGED executor

Next ==
  \E t \in Tasks :
    \/ Open(t)
    \/ Start(t)
    \/ \E to \in {"COMPLETED", "FAILED", "BLOCKED", "CANCELLED"} : Stop(t, to)
    \/ Rework(t)
    \/ Drop(t)
    \/ Retire(t)

Spec == Init /\ [][Next]_lifecycle

=============================================================================
