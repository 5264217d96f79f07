----------------------------- MODULE RtRuntime -----------------------------
(***************************************************************************)
(* The runtime facade of ldgr-rt (runtime.rs, net.rs): run binds a handle   *)
(* to the calling thread and runs a program, whose tasks exchange messages  *)
(* over an in-process network.  Under the default build a receive checks    *)
(* the queue and, finding nothing, waits for a notification; a send queues  *)
(* its message and then notifies every waiter.  The network is shared by    *)
(* reference and may be used by several threads: the steps that its lock    *)
(* separates interleave.                                                   *)
(***************************************************************************)
EXTENDS Naturals, Sequences, FiniteSets

CONSTANTS
    Tasks,           \* the tasks of the program
    actor_of,        \* the actor each task sends and receives as
    Links,           \* the directed links that may be partitioned
    MAX_SENDS,       \* bound on the messages of one task
    Builds,          \* feature sets: "tokio" (default), "sim" (sim-link), "ipc" (sim)
    MAX_RUN_CALLS,   \* bound on the calls of run and run_named
    NoRun

VARIABLES
    task,            \* of each task: pc, ticket, sent and got
    queue,           \* SharedNet: messages [from, to], oldest first
    partitions,      \* SharedNet: the partitioned links
    build,           \* the feature set of this build
    run,             \* the run in progress: its number, or NoRun
    main_done,       \* its program has returned
    current_run,         \* CURRENT: the run whose handle the thread holds, or NoRun
    calls            \* calls of run so far

netVars == <<task, queue, partitions>>
runVars == <<build, run, main_done, current_run, calls>>
rtVars == <<netVars, runVars>>

\* A task is at "run" between calls, "notify" inside a send and "wait"
\* inside a receive; its ticket is its Notified future: "none", "armed"
\* or "fired".
FreshTasks == [t \in Tasks |-> [pc |-> "run", ticket |-> "none", sent |-> 0]]

RtInit ==
    /\ task = FreshTasks /\ queue = <<>> /\ partitions = {}
    /\ build \in Builds
    /\ run = NoRun /\ main_done = FALSE /\ current_run = NoRun /\ calls = 0

--------------------------------------------------------------------------
\* run, run_named and run_main.  A program is a closure or a name, and a name
\* is registered or not.
Programs == {"closure", "named", "unknown"}

\* into_program, into_workload: what the build cannot run is refused.
refused(program) ==
    IF build = "ipc" THEN program = "closure" ELSE program = "unknown"

run_refused ==
    /\ run = NoRun /\ calls < MAX_RUN_CALLS
    /\ \E program \in Programs : refused(program)
    /\ calls' = calls + 1
    /\ UNCHANGED <<netVars, build, run, main_done, current_run>>

\* A fresh network and, in the builds that run the program here, the handle.
run_start ==
    /\ run = NoRun /\ calls < MAX_RUN_CALLS
    /\ \E program \in Programs : ~refused(program)
    /\ calls' = calls + 1 /\ run' = calls + 1 /\ main_done' = FALSE
    /\ current_run' = IF build = "ipc" THEN current_run ELSE calls + 1
    /\ task' = FreshTasks /\ queue' = <<>> /\ partitions' = {}
    /\ UNCHANGED build

\* The program returns; its wrapper under sim-link clears the handle.
program_returns ==
    /\ run # NoRun /\ build # "ipc" /\ ~main_done
    /\ main_done' = TRUE
    /\ current_run' = IF build = "sim" THEN NoRun ELSE current_run
    /\ UNCHANGED <<netVars, build, run, calls>>

\* run returns its result.  A simulation may end blocked, its program unfinished.
run_ok ==
    /\ run # NoRun /\ (build = "tokio" => main_done)
    /\ run' = NoRun
    /\ current_run' = IF build = "ipc" THEN current_run ELSE NoRun
    /\ UNCHANGED <<netVars, build, main_done, calls>>

\* A simulation or the engine fails: the error returns at once.
run_error ==
    /\ run # NoRun /\ build # "tokio"
    /\ run' = NoRun
    /\ UNCHANGED <<netVars, build, main_done, current_run, calls>>

--------------------------------------------------------------------------
\* The tasks and their network, in the default build.
Live == build = "tokio" /\ run # NoRun /\ ~main_done

\* Conn::send: a partitioned link refuses, any other queues the message.
Conn_send(t) ==
    /\ Live /\ task[t].pc = "run" /\ task[t].sent < MAX_SENDS
    /\ \E to \in {actor_of[u] : u \in Tasks} :
         IF <<actor_of[t], to>> \in partitions
         THEN task' = [task EXCEPT ![t].sent = @ + 1] /\ UNCHANGED queue
         ELSE /\ task' = [task EXCEPT ![t].pc = "notify", ![t].sent = @ + 1]
              /\ queue' = Append(queue, [from |-> actor_of[t], to |-> to])
    /\ UNCHANGED <<partitions, runVars>>

\* Mutated notify_waiters: one waiter is notified.
notify_waiters_one(t) ==
    /\ Live /\ task[t].pc = "notify"
    /\ LET waiters == {u \in Tasks : task[u].ticket = "armed"}
       IN  \E w \in IF waiters = {} THEN {t} ELSE waiters :
             task' = [[task EXCEPT ![t].pc = "run"] EXCEPT ![w].ticket = IF w = t THEN @ ELSE "fired"]
    /\ UNCHANGED <<queue, partitions, runVars>>

\* notify_waiters fires every ticket that exists.
notify_waiters(t) ==
    /\ Live /\ task[t].pc = "notify"
    /\ task' = [u \in Tasks |->
                  IF u = t THEN [task[t] EXCEPT !.pc = "run"]
                  ELSE IF task[u].ticket = "armed" THEN [task[u] EXCEPT !.ticket = "fired"]
                  ELSE task[u]]
    /\ UNCHANGED <<queue, partitions, runVars>>

Addressed(actor) == {i \in DOMAIN queue : queue[i].to = actor}
Without(q, i) == SubSeq(q, 1, i - 1) \o SubSeq(q, i + 1, Len(q))

\* recv_for: the oldest message to the actor.
recv_for(t) ==
    LET mine  == Addressed(actor_of[t])
        first == CHOOSE i \in mine : \A j \in mine : i <= j
    IN  /\ mine # {}
        /\ task' = [task EXCEPT ![t].pc = "run", ![t].ticket = "none"]
        /\ queue' = Without(queue, first)

\* Nothing queued: the ticket is taken before the lock is released.
net_recv_empty(t) ==
    /\ Addressed(actor_of[t]) = {}
    /\ task' = [task EXCEPT ![t].pc = "wait", ![t].ticket = "armed"]
    /\ UNCHANGED queue

\* net_recv, and its next round after a notification.
net_recv(t) ==
    /\ Live
    /\ \/ task[t].pc = "run"
       \/ task[t].pc = "wait" /\ task[t].ticket = "fired"
    /\ recv_for(t) \/ net_recv_empty(t)
    /\ UNCHANGED <<partitions, runVars>>

\* Conn::recv takes the oldest message of one link, or nothing.
Conn_recv(t) ==
    /\ Live /\ task[t].pc = "run"
    /\ \E from \in {actor_of[u] : u \in Tasks} :
         LET mine  == {i \in Addressed(actor_of[t]) : queue[i].from = from}
             first == CHOOSE i \in mine : \A j \in mine : i <= j
         IN  /\ mine # {}
             /\ queue' = Without(queue, first)
    /\ UNCHANGED <<task, partitions, runVars>>

partition ==
    /\ Live
    /\ \E link \in Links \ partitions : partitions' = partitions \cup {link}
    /\ UNCHANGED <<task, queue, runVars>>

RtNext ==
    \/ run_refused \/ run_start \/ program_returns \/ run_ok \/ run_error \/ partition
    \/ \E t \in Tasks : Conn_send(t) \/ notify_waiters(t) \/ net_recv(t) \/ Conn_recv(t)

RtSpec == RtInit /\ [][RtNext]_rtVars

--------------------------------------------------------------------------
\* No wakeup is lost: while a message to its actor is queued, a receive that
\* waits has been notified, or the sender is about to notify it.
NoLostWakeup ==
    \A t \in Tasks :
        task[t].ticket = "armed" /\ Addressed(actor_of[t]) # {}
          => \E u \in Tasks : task[u].pc = "notify"

=============================================================================
