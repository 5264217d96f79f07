--------------------------- MODULE TaskExecution ---------------------------
(***************************************************************************)
(* What a worker makes of one task: execute_task, task_identity and        *)
(* workload_for in crates/ledger-worker/src/worker.rs, and the two ways a  *)
(* task comes into being: the push of a queue-file line and                *)
(* task_from_dispatch in crates/ledger-worker/src/transport.rs.            *)
(*                                                                         *)
(* A digest is what was hashed: the digest of a run config is the config,  *)
(* the execution identity is the pair of the workload and the config (the  *)
(* rest of it is the same for every task of one worker).                   *)
(***************************************************************************)
EXTENDS Naturals

CONSTANTS
    Simulated,      \* per run config, what campaign and simulation do: "ok", "err" or "panic"
    Unencodable,    \* the run configs the canonical encoder refuses
    Workloads,      \* the workload names workload_for knows ("kv")
    BuildComplete,  \* the worker was built with complete identity data
    NoDigest,       \* an absent hash or identity
    Malformed       \* a field of a dispatch that does not decode

ASSUME DigestAssumption ==
    /\ NoDigest \notin DOMAIN Simulated
    /\ Malformed # NoDigest /\ Malformed \notin DOMAIN Simulated
    /\ Malformed \notin Workloads \X DOMAIN Simulated

Task(config, workload, hash, pin) ==
    [run_config |-> config, workload |-> workload, run_config_hash |-> hash, execution_identity |-> pin]

run_config_hash(config) == IF config \in Unencodable THEN NoDigest ELSE config

task_identity(task) == IF BuildComplete THEN <<task.workload, task.run_config>> ELSE NoDigest

InvalidConfig(task) == run_config_hash(task.run_config) = NoDigest

HashMismatch(task) == task.run_config_hash \notin {NoDigest, run_config_hash(task.run_config)}

\* A pinned identity needs an assembled one, and the same.
IdentityRefused(task) ==
    task.execution_identity # NoDigest /\ task.execution_identity # task_identity(task)

UnknownWorkload(task) == task.workload \notin Workloads

\* The gates come before the campaign and the run: a refused task is never simulated.
execute_task(task) ==
    IF InvalidConfig(task) \/ HashMismatch(task) \/ IdentityRefused(task) \/ UnknownWorkload(task)
    THEN "err"
    ELSE Simulated[task.run_config]

\* A task as push leaves it: the hash is recomputed whatever the line said.
task_from_line(line) == Task(line.run_config, line.workload, run_config_hash(line.run_config), line.execution_identity)

\* A dispatch with a field over its bound or one that does not decode is invalid.
ValidDispatch(d) ==
    /\ ~d.oversized
    /\ d.hash # Malformed
    /\ d.run_config # Malformed
    /\ d.execution_identity # Malformed

task_from_dispatch(d) == Task(d.run_config, d.workload, d.hash, d.execution_identity)
=============================================================================
