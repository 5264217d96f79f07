----------------------------- MODULE EngineHost -----------------------------
(***************************************************************************)
(* The engine process of ldgr-rt (ipc.rs): a caller spawns the engine as a  *)
(* child on a socket in a private directory, polls until it accepts, sends  *)
(* requests, each over a connection of its own, and tears everything down.  *)
(* The child is `ledger rt-server` (ledger-cli, rt_server.rs): it binds the *)
(* socket and serves one connection after the other.  The child may be slow *)
(* or die at any moment; the caller only trusts its own clocks.  A thread   *)
(* drains the child's stderr up to a cap and then closes it, after which    *)
(* the next line that the child writes there kills it.                     *)
(***************************************************************************)
EXTENDS Naturals, Sequences, FiniteSets

CONSTANTS
    Requests,        \* what run_workload may be called with
    MAX_RUNS,       \* bound on the calls of run_workload
    RETRIES,         \* attempts of connect_with_retry
    MAX_ATTEMPTS,    \* MAX_IPC_ATTEMPTS, scaled down
    SOCKET_DIR_ATTEMPTS,
    MAX_INBOUND_ATTEMPTS,
    STEPS_NEEDED,    \* steps that the workload takes
    CAPTURE,         \* STDERR_CAPTURE_CAP, in lines
    Nothing

ASSUME HostAssumption == RETRIES \in Nat

VARIABLES
    caller,              \* where the caller is
    call,            \* the call in progress: number, request and connection attempts left
    returned,        \* what the calls returned, in order
    failure,         \* why spawn failed, or Nothing
    dir, socket,     \* the private directory and the socket file exist
    child,           \* "none", "running", "exited" (not yet waited for) or "reaped"
    phase,           \* the engine: "start", "accept", "read" or "reply"
    conns,           \* connections the engine has not closed, the first being served
    stderr           \* [lines, drain]: lines written, and the state of the drain thread

hostVars == <<caller, call, returned, failure, dir, socket, child, phase, conns, stderr>>

callerVars == <<caller, call, returned, failure>>
processVars == <<child, phase, conns, stderr>>

HostInit ==
    /\ caller = "idle" /\ call = [number |-> 0, request |-> Nothing, tries |-> 0]
    /\ returned = <<>> /\ failure = Nothing
    /\ dir = FALSE /\ socket = FALSE
    /\ child = "none" /\ phase = "start" /\ conns = <<>>
    /\ stderr = [lines |-> 0, drain |-> "off"]

Accepts == child = "running" /\ socket /\ phase # "start"

--------------------------------------------------------------------------
\* The caller: spawn and spawn_in.

\* The path of the engine: given, or configured, or an error.
resolve_engine_path == {Nothing, "EngineNotConfigured", "MissingEngine"}

\* A candidate that exists is left alone and the next one is tried; any other
\* error, and too many collisions, give up.
prepare_socket_dir_with ==
    {IF collisions = SOCKET_DIR_ATTEMPTS THEN "SocketSetup" ELSE Nothing :
        collisions \in 0..SOCKET_DIR_ATTEMPTS}

\* A directory whose mode or owner is not the caller's is removed again.
create_private_dir_checked == {Nothing, "SocketSetup"}

spawn ==
    /\ caller = "idle"
    /\ \E error \in resolve_engine_path \cup prepare_socket_dir_with \cup create_private_dir_checked :
         /\ failure' = error
         /\ dir' = (error = Nothing)
         /\ caller' = IF error = Nothing THEN "exec" ELSE "returned"
    /\ UNCHANGED <<call, returned, socket, processVars>>

\* Command::spawn: when it fails, the error leaves the directory behind.
exec ==
    /\ caller = "exec"
    /\ socket' = FALSE
    /\ \/ /\ child' = "running" /\ caller' = "poll"
          /\ UNCHANGED failure
       \/ /\ failure' = "Exec" /\ caller' = "returned"
          /\ UNCHANGED child
    /\ UNCHANGED <<call, returned, dir, phase, conns, stderr>>

\* The probe connects and is dropped; stderr goes to the drain thread.
poll_connected ==
    /\ caller = "poll" /\ Accepts
    /\ caller' = "ready"
    /\ conns' = Append(conns, [number |-> 0, open |-> FALSE, line |-> Nothing, answer |-> Nothing])
    /\ stderr' = [stderr EXCEPT !.drain = "on"]
    /\ UNCHANGED <<call, returned, failure, dir, socket, child, phase>>

\* try_wait reaps a child that is gone already.
poll_exited ==
    /\ caller = "poll" /\ child = "exited"
    /\ child' = "reaped" /\ failure' = "ExitedEarly" /\ caller' = "clean"
    /\ UNCHANGED <<call, returned, dir, socket, phase, conns, stderr>>

poll_expired ==
    /\ caller = "poll"
    /\ failure' = "Timeout" /\ caller' = "kill"
    /\ UNCHANGED <<call, returned, dir, socket, processVars>>

--------------------------------------------------------------------------
\* The caller: run_workload_with_steps, request and connect_with_retry.

IpcError(why) == [error |-> why, tail |-> FALSE, roots |-> <<>>]

Returns(outcome) ==
    /\ caller' = "ready"
    /\ returned' = Append(returned, outcome)

\* attach_tail: what the drain thread has published, which it does at the end.
attach_tail(reply) == [reply EXCEPT !.tail = stderr.drain = "closed"]

validate_workload_request(request) ==
    request.attempts \in 1..MAX_ATTEMPTS /\ request.steps > 0

\* parse_run_response and the error field that comes before it.
parse_run_response(reply) ==
    IF reply.error # Nothing THEN attach_tail(reply)
    ELSE IF reply.roots = <<>> THEN IpcError("Protocol")
    ELSE IF Len(reply.roots) > MAX_ATTEMPTS THEN IpcError("CounterBounds")
    ELSE reply

run_workload ==
    /\ caller = "ready" /\ call.number < MAX_RUNS
    /\ \E request \in Requests :
         /\ call' = [number |-> call.number + 1, request |-> request, tries |-> RETRIES]
         /\ IF validate_workload_request(request) THEN caller' = "connect" /\ UNCHANGED returned
            ELSE Returns(IpcError("CounterBounds"))
    /\ UNCHANGED <<failure, dir, socket, processVars>>

\* The connection is made and the request line is written.
connect_ok ==
    /\ caller = "connect" /\ Accepts
    /\ caller' = "read"
    /\ conns' = Append(conns, [number |-> call.number, open |-> TRUE,
                               line |-> call.request, answer |-> Nothing])
    /\ UNCHANGED <<call, returned, failure, dir, socket, child, phase, stderr>>

\* Mutated connect_retry: the attempts are not counted.
connect_retry_forever ==
    /\ caller = "connect" /\ ~Accepts
    /\ UNCHANGED hostVars

connect_retry ==
    /\ caller = "connect" /\ ~Accepts
    /\ IF call.tries > 1 THEN call' = [call EXCEPT !.tries = @ - 1] /\ UNCHANGED <<caller, returned>>
       ELSE Returns(IpcError("Connect")) /\ UNCHANGED call
    /\ UNCHANGED <<failure, dir, socket, processVars>>

Mine(conn) == conn.number = call.number
MyConns == {i \in DOMAIN conns : Mine(conns[i])}

\* The caller's end of its connection is dropped when request returns.
Hangup == conns' = [i \in DOMAIN conns |-> IF Mine(conns[i]) THEN [conns[i] EXCEPT !.open = FALSE]
                                           ELSE conns[i]]

\* Mutated read_answer: any answer that has arrived is taken.
read_answer_any ==
    /\ caller = "read"
    /\ \E i \in DOMAIN conns : conns[i].answer # Nothing /\ Returns(parse_run_response(conns[i].answer))
    /\ Hangup
    /\ UNCHANGED <<call, failure, dir, socket, child, phase, stderr>>

read_answer ==
    /\ caller = "read"
    /\ \E i \in MyConns : conns[i].answer # Nothing /\ Returns(parse_run_response(conns[i].answer))
    /\ Hangup
    /\ UNCHANGED <<call, failure, dir, socket, child, phase, stderr>>

\* The engine closed the connection without an answer.
read_closed ==
    /\ caller = "read" /\ MyConns = {}
    /\ Returns(IpcError("Protocol"))
    /\ UNCHANGED <<call, failure, dir, socket, processVars>>

\* The read timeout.
read_expired ==
    /\ caller = "read" /\ \E i \in MyConns : conns[i].answer = Nothing
    /\ Returns(IpcError("Io"))
    /\ Hangup
    /\ UNCHANGED <<call, failure, dir, socket, child, phase, stderr>>

\* Drop: the child is killed and waited for, then the files are removed.
drop_engine ==
    /\ caller = "ready"
    /\ caller' = "kill"
    /\ UNCHANGED <<call, returned, failure, dir, socket, processVars>>

\* Mutated kill: the child is signalled but not waited for.
kill_only ==
    /\ caller = "kill"
    /\ caller' = "clean"
    /\ UNCHANGED <<call, returned, failure, dir, socket, processVars>>

kill ==
    /\ caller = "kill"
    /\ child' = "reaped" /\ conns' = <<>>
    /\ stderr' = [stderr EXCEPT !.drain = IF @ = "on" THEN "closed" ELSE @]
    /\ caller' = "clean"
    /\ UNCHANGED <<call, returned, failure, dir, socket, phase>>

clean ==
    /\ caller = "clean"
    /\ socket' = FALSE /\ dir' = FALSE
    /\ caller' = "returned"
    /\ UNCHANGED <<call, returned, failure, processVars>>

--------------------------------------------------------------------------
\* The engine.

Running == child = "running"

\* Its process ends: the socket file stays, the connections do not.
engine_exit ==
    /\ Running
    /\ child' = "exited" /\ conns' = <<>>
    /\ stderr' = [stderr EXCEPT !.drain = IF @ = "on" THEN "closed" ELSE @]
    /\ UNCHANGED <<callerVars, dir, socket, phase>>

\* A line to stderr: the drain closes at its cap, a write after that is fatal.
Logs(next, rest) ==
    IF stderr.drain = "closed"
    THEN child' = "exited" /\ conns' = <<>> /\ UNCHANGED <<phase, stderr>>
    ELSE /\ stderr' = [lines |-> stderr.lines + 1,
                       drain |-> IF stderr.drain = "on" /\ stderr.lines + 1 >= CAPTURE
                                 THEN "closed" ELSE stderr.drain]
         /\ phase' = next /\ conns' = rest
         /\ UNCHANGED child

\* A stale socket is removed, the directory is made again if it is gone.
engine_bind ==
    /\ Running /\ phase = "start"
    /\ dir' = TRUE /\ socket' = TRUE
    /\ Logs("accept", conns)
    /\ UNCHANGED callerVars

engine_accept ==
    /\ Running /\ phase = "accept" /\ conns # <<>>
    /\ phase' = "read"
    /\ UNCHANGED <<callerVars, dir, socket, child, conns, stderr>>

\* The end of the stream: on to the next connection.
engine_eof ==
    /\ Running /\ phase = "read" /\ conns[1].line = Nothing /\ ~conns[1].open
    /\ phase' = "accept" /\ conns' = Tail(conns)
    /\ UNCHANGED <<callerVars, dir, socket, child, stderr>>

\* The engine's own read timeout: the connection is dropped.
engine_stalled ==
    /\ Running /\ phase = "read" /\ conns[1].line = Nothing /\ conns[1].open
    /\ Logs("accept", Tail(conns))
    /\ UNCHANGED <<callerVars, dir, socket>>

\* run_kv: one root for each attempt; with several attempts the number of the
\* attempt replaces the first part of the seed.  A root stands for its seed.
run_kv(request) ==
    IF request.steps < STEPS_NEEDED THEN IpcError("StepLimit")
    ELSE
    [error |-> Nothing, tail |-> FALSE,
     roots |-> [i \in 1..request.attempts |->
                   IF request.attempts > 1 THEN <<i - 1, request.seed[2]>> ELSE request.seed]]

run_workload_named(request) ==
    IF request.workload = "kv" THEN run_kv(request) ELSE IpcError("UnknownWorkload")

\* parse_run_request: the server's own, wider bound on the attempts.
parse_run_request(request) == request.attempts <= MAX_INBOUND_ATTEMPTS

handle_request(request) ==
    IF parse_run_request(request) THEN run_workload_named(request) ELSE IpcError("Protocol")

\* handle_client: the answer is written, unless the caller has hung up.
engine_reply ==
    /\ Running /\ phase = "read" /\ conns[1].line # Nothing
    /\ IF conns[1].open
       THEN /\ conns' = [conns EXCEPT ![1].answer = handle_request(conns[1].line), ![1].line = Nothing]
            /\ UNCHANGED <<child, phase, stderr>>
       ELSE Logs("accept", Tail(conns))
    /\ UNCHANGED <<callerVars, dir, socket>>

Caller ==
    \/ spawn \/ exec \/ poll_connected \/ poll_exited \/ poll_expired
    \/ connect_ok \/ connect_retry \/ read_answer \/ read_closed \/ read_expired \/ kill \/ clean

Engine == engine_exit \/ engine_bind \/ engine_accept \/ engine_eof \/ engine_stalled \/ engine_reply

HostNext == Caller \/ run_workload \/ drop_engine \/ Engine

\* The caller's steps and its clocks go on; nothing is assumed of the engine.
HostSpec == HostInit /\ [][HostNext]_hostVars /\ WF_hostVars(Caller)

--------------------------------------------------------------------------
\* Nothing is left behind: when the caller is through, with or without an
\* error, no engine runs or waits to be reaped, and its socket and directory
\* are gone, whatever the engine was doing meanwhile; the one exception is an
\* engine that could not be started, which leaves the empty directory.
NothingLeftBehind ==
    caller = "returned" =>
        /\ child \in {"none", "reaped"} /\ ~socket
        /\ dir => failure = "Exec"

\* An answer is the answer to its own request, with one root per attempt,
\* although the engine may still be busy with requests given up long ago.
AnswersMatch ==
    [][\A n \in DOMAIN returned' \ DOMAIN returned :
          returned'[n].error \notin {"CounterBounds", "Connect", "Protocol", "Io"}
            => [returned'[n] EXCEPT !.tail = FALSE] = handle_request(call'.request)]_hostVars

\* Every call returns although the engine may hang or die.
CallerReturns == caller \notin {"idle", "ready", "returned"} ~> caller \in {"ready", "returned"}
=============================================================================
