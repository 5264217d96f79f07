--------------------------- MODULE TaskLifecycle ---------------------------
(***************************************************************************)
(* What a queue promises about each task: the lifecycle of TaskStatus in   *)
(* crates/ledger-worker/src/queue/mod.rs.  A step may move several tasks   *)
(* (one pull can end several expired leases), each along one arc.          *)
(***************************************************************************)
EXTENDS Integers

CONSTANTS Tasks, MaxAttempts

VARIABLES status, charges

Statuses == {"Absent", "Queued", "Leased", "Taken", "Failed", "Cancelled", "Done"}

\* Statuses in which a worker or a caller holds the task.
Held == {"Leased", "Taken"}

LifecycleInit ==
    /\ status = [t \in Tasks |-> "Absent"]
    /\ charges = [t \in Tasks |-> 0]

\* Arcs that charge nothing.
FreeArc(from, to) ==
    \/ from = to
    \/ from = "Absent" /\ to = "Queued"
    \/ from = "Queued" /\ to \in {"Leased", "Taken", "Cancelled"}
    \/ from = "Leased" /\ to \in {"Taken", "Done", "Cancelled"}

\* Arcs that charge one attempt; n is the charge count after the step.  A held
\* task whose budget remains is offered again (and may be leased at once).
ChargedArc(from, to, n) ==
    /\ from \in Held
    /\ IF n >= MaxAttempts THEN to = "Failed"
       ELSE to = "Queued" \/ (from = "Leased" /\ to = "Leased")

Move(t) ==
    \/ FreeArc(status[t], status'[t]) /\ charges'[t] = charges[t]
    \/ ChargedArc(status[t], status'[t], charges'[t]) /\ charges'[t] = charges[t] + 1

LifecycleNext ==
    /\ status' \in [Tasks -> Statuses]
    /\ charges' \in [Tasks -> Nat]
    /\ \A t \in Tasks : Move(t)

LifecycleSpec == LifecycleInit /\ [][LifecycleNext]_<<status, charges>>
=============================================================================
