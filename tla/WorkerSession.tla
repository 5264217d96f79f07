--------------------------- MODULE WorkerSession ---------------------------
(***************************************************************************)
(* The control-plane session of a worker: run_control_plane in             *)
(* crates/ledger-worker/src/main.rs with the functions of                  *)
(* crates/ledger-worker/src/transport.rs.                                  *)
(*                                                                         *)
(* The control plane is external: it may put any message on the inbound    *)
(* stream at any time, take uploads from the bounded outbound channel, and *)
(* break the stream.  The worker reads one message at a time and runs an   *)
(* assigned task to its end before it reads the next.                      *)
(***************************************************************************)
EXTENDS Sequences, FiniteSets, TaskExecution

CONSTANTS
    Ids,            \* task ids
    Dispatches,     \* the dispatches the control plane may assign, each with its task_id
    Capacity,       \* slots of the mpsc request channel (32 in open_session)
    MaxMessages,    \* bound: messages the control plane sends in one session
    MaxBeats,       \* bound: interval heartbeats sent during one execution
    NoTask

ASSUME SessionAssumption ==
    /\ Capacity \in Nat \ {0} /\ MaxMessages \in Nat /\ MaxBeats \in Nat
    /\ NoTask \notin Ids

\* A dispatch names a task and carries the bytes of a hash, and its run config
\* either does not decode or is one.
ASSUME DispatchAssumption ==
    \A d \in Dispatches :
        /\ d.task_id \in Ids /\ d.oversized \in BOOLEAN
        /\ d.hash # NoDigest
        /\ d.run_config = Malformed \/ d.run_config \in DOMAIN Simulated

VARIABLES
    place,         \* where run_control_plane is
    inbound,    \* responses received and not yet read
    sent,       \* how many responses the control plane has sent
    outbound,   \* requests sent and not yet taken from the channel
    in_flight,  \* the in_flight set
    assigned,    \* the task being run
    job,        \* what is to be executed for it
    beats,      \* interval heartbeats of the assigned execution
    up,         \* the stream is alive
    \* history, for the properties
    owed,       \* the assignments and cancels read, per task, in order
    answers     \* the result uploads sent, per task, in order

workerVars == <<place, outbound, in_flight, assigned, job, beats>>
historyVars == <<owed, answers>>
sessionVars == <<workerVars, inbound, sent, up, historyVars>>

Assign(d) == [kind |-> "assign", task |-> d.task_id, dispatch |-> d]
Cancel(t) == [kind |-> "cancel", task |-> t]
SessionAck(accepted) == [kind |-> "session_ack", accepted |-> accepted]
HeartbeatAck == [kind |-> "heartbeat_ack"]

Responses ==
    {Assign(d) : d \in Dispatches} \cup {Cancel(t) : t \in Ids}
    \cup {SessionAck(a) : a \in BOOLEAN} \cup {HeartbeatAck}

Result(t, ok) == [kind |-> "result", task |-> t, ok |-> ok]
HeartbeatOf(t) == [kind |-> "heartbeat", task |-> t]
Hello == [kind |-> "hello"]

\* open_session: the channel is up and the hello is still to be sent.
SessionInit ==
    /\ place = "hello"
    /\ inbound = <<>> /\ sent = 0 /\ outbound = <<>>
    /\ in_flight = {} /\ assigned = NoTask /\ job = NoTask /\ beats = 0
    /\ up = TRUE
    /\ owed = [t \in Ids |-> <<>>] /\ answers = [t \in Ids |-> <<>>]

-----------------------------------------------------------------------------
(* The control plane.                                                      *)

Respond ==
    /\ up
    /\ place # "hello"
    /\ sent < MaxMessages
    /\ \E m \in Responses : inbound' = Append(inbound, m)
    /\ sent' = sent + 1
    /\ UNCHANGED <<workerVars, up, historyVars>>

TakeRequest ==
    /\ outbound # <<>>
    /\ outbound' = Tail(outbound)
    /\ UNCHANGED <<place, in_flight, assigned, job, beats, inbound, sent, up, historyVars>>

\* The stream ends or breaks; requests still in the channel are lost.
Disconnect ==
    /\ up
    /\ up' = FALSE
    /\ outbound' = <<>>
    /\ UNCHANGED <<place, in_flight, assigned, job, beats, inbound, sent, historyVars>>

-----------------------------------------------------------------------------
(* The worker.                                                             *)

\* tx.send(m).await: waits for a slot, fails when the receiver is gone.
send(m) ==
    /\ up
    /\ Len(outbound) < Capacity
    /\ outbound' = Append(outbound, m)

answer(t, ok) ==
    /\ send(Result(t, ok))
    /\ answers' = [answers EXCEPT ![t] = Append(@, ok)]

SendHello ==
    /\ place = "hello"
    /\ send(Hello)
    /\ place' = "ack"
    /\ UNCHANGED <<in_flight, assigned, job, beats, inbound, sent, up, historyVars>>

\* A send that fails ends the session: RequestChannelClosed.  Only an invalid or
\* duplicate dispatch logs the failed upload and goes on reading.
SendFails ==
    /\ ~up
    /\ place \in {"hello", "first_beat", "running", "upload_ok", "upload_err", "cancel"}
    /\ place' = "closed"
    /\ in_flight' = {}
    /\ assigned' = NoTask /\ job' = NoTask
    /\ UNCHANGED <<outbound, beats, inbound, sent, up, historyVars>>

\* The first inbound message must be an accepting session ack.
ReadAck ==
    /\ place = "ack"
    /\ inbound # <<>>
    /\ inbound' = Tail(inbound)
    /\ place' = IF Head(inbound) = SessionAck(TRUE) THEN "ready" ELSE "closed"
    /\ UNCHANGED <<outbound, in_flight, assigned, job, beats, sent, up, historyVars>>

\* next_response finds the stream ended or broken, with or without reading first
\* what was received before.
ReadEnd ==
    /\ place \in {"ack", "ready"}
    /\ ~up
    /\ place' = "closed"
    /\ UNCHANGED <<outbound, in_flight, assigned, job, beats, inbound, sent, up, historyVars>>

\* An assignment read in the loop: a malformed dispatch or a task already in
\* flight is answered with a failure, anything else starts executing.
ReadAssign ==
    /\ place = "ready"
    /\ inbound # <<>>
    /\ Head(inbound).kind = "assign"
    /\ inbound' = Tail(inbound)
    /\ LET m == Head(inbound) IN
        /\ owed' = [owed EXCEPT ![m.task] = Append(@, m)]
        /\ assigned' = m.task
        /\ IF ValidDispatch(m.dispatch) /\ m.task \notin in_flight
           THEN /\ in_flight' = in_flight \cup {m.task}
                /\ job' = task_from_dispatch(m.dispatch)
                /\ place' = "first_beat"
           ELSE /\ place' = "reject"
                /\ UNCHANGED <<in_flight, job>>
    /\ beats' = 0
    /\ UNCHANGED <<outbound, sent, up, answers>>

\* Mutated Reject: an invalid dispatch is dropped without an answer.
Reject_silent ==
    /\ place = "reject"
    /\ place' = "ready"
    /\ assigned' = NoTask /\ job' = NoTask
    /\ UNCHANGED <<outbound, answers, in_flight, beats, inbound, sent, up, owed>>

\* upload_failure for a dispatch that is not run; a failed send is only logged.
Reject ==
    /\ place = "reject"
    /\ \/ answer(assigned, FALSE)
       \/ ~up /\ UNCHANGED <<outbound, answers>>
    /\ place' = "ready"
    /\ assigned' = NoTask /\ job' = NoTask
    /\ UNCHANGED <<in_flight, beats, inbound, sent, up, owed>>

\* run_assigned_task spawns the execution and sends a heartbeat at once.
FirstBeat ==
    /\ place = "first_beat"
    /\ send(HeartbeatOf(assigned))
    /\ place' = "running"
    /\ UNCHANGED <<in_flight, assigned, job, beats, inbound, sent, up, historyVars>>

\* The interval branch of the select! (biased: a due tick wins over completion).
Beat ==
    /\ place = "running"
    /\ beats < MaxBeats
    /\ send(HeartbeatOf(assigned))
    /\ beats' = beats + 1
    /\ UNCHANGED <<place, in_flight, assigned, job, inbound, sent, up, historyVars>>

\* The execution ended: with a result, or with an error or a panic.
Finish ==
    /\ place = "running"
    /\ place' = IF execute_task(job) = "ok" THEN "upload_ok" ELSE "upload_err"
    /\ UNCHANGED <<outbound, in_flight, assigned, job, beats, inbound, sent, up, historyVars>>

\* The result or the failure is uploaded, and the task leaves in_flight; the
\* certificate is then published best-effort, which changes no session state.
Upload ==
    /\ \/ place = "upload_ok" /\ answer(assigned, TRUE)
       \/ place = "upload_err" /\ answer(assigned, FALSE)
    /\ in_flight' = in_flight \ {assigned}
    /\ place' = "ready"
    /\ assigned' = NoTask /\ job' = NoTask
    /\ UNCHANGED <<beats, inbound, sent, up, owed>>

\* Mutated ReadCancel: a cancel of a task that is not running is left unread.
ReadCancel_waits ==
    /\ place = "ready"
    /\ inbound # <<>>
    /\ Head(inbound).kind = "cancel"
    /\ Head(inbound).task \in in_flight
    /\ inbound' = Tail(inbound)
    /\ owed' = [owed EXCEPT ![Head(inbound).task] = Append(@, Head(inbound))]
    /\ assigned' = Head(inbound).task
    /\ place' = "cancel"
    /\ UNCHANGED <<outbound, in_flight, job, beats, sent, up, answers>>

\* A cancel read in the loop.
ReadCancel ==
    /\ place = "ready"
    /\ inbound # <<>>
    /\ Head(inbound).kind = "cancel"
    /\ inbound' = Tail(inbound)
    /\ owed' = [owed EXCEPT ![Head(inbound).task] = Append(@, Head(inbound))]
    /\ assigned' = Head(inbound).task
    /\ place' = "cancel"
    /\ UNCHANGED <<outbound, in_flight, job, beats, sent, up, answers>>

\* handle_cancel uploads a failure for the task, whatever state it is in.
UploadCancelled ==
    /\ place = "cancel"
    /\ answer(assigned, FALSE)
    /\ place' = "ready"
    /\ assigned' = NoTask /\ job' = NoTask
    /\ UNCHANGED <<in_flight, beats, inbound, sent, up, owed>>

\* HeartbeatOf acks, and session acks after the first, are ignored.
ReadOther ==
    /\ place = "ready"
    /\ inbound # <<>>
    /\ Head(inbound).kind \in {"heartbeat_ack", "session_ack"}
    /\ inbound' = Tail(inbound)
    /\ UNCHANGED <<workerVars, sent, up, historyVars>>

WorkerNext ==
    \/ SendHello \/ SendFails \/ ReadAck \/ ReadEnd \/ ReadAssign \/ Reject
    \/ FirstBeat \/ Beat \/ Finish \/ Upload
    \/ ReadCancel \/ UploadCancelled \/ ReadOther

SessionNext == Respond \/ TakeRequest \/ Disconnect \/ WorkerNext

\* The worker keeps taking steps (MaxBeats stands for the end of an execution,
\* which max_steps bounds), and the control plane (or
\* the transport) keeps draining the request channel of a live stream.
SessionFairness ==
    /\ WF_sessionVars(WorkerNext)
    /\ WF_sessionVars(TakeRequest)

SessionSpec == SessionInit /\ [][SessionNext]_sessionVars /\ SessionFairness

-----------------------------------------------------------------------------
(* What the session guarantees.                                            *)

Busy == {"reject", "first_beat", "running", "upload_ok", "upload_err", "cancel"}

\* What the control plane may expect an ok for: a well-formed dispatch whose hash is
\* the hash of its config, whose pinned identity, if any, is the identity of this
\* worker running it, and whose simulation succeeds.
Deserving(d) ==
    /\ ~d.oversized
    /\ d.run_config \in DOMAIN Simulated \ Unencodable /\ d.hash = d.run_config
    /\ d.execution_identity # NoDigest =>
           BuildComplete /\ d.execution_identity = <<d.workload, d.run_config>>
    /\ d.workload \in Workloads
    /\ Simulated[d.run_config] = "ok"

\* While the stream lives, every assignment and cancel the worker has read is
\* answered by exactly one result upload, in the order they were read, except the
\* one it is working on; and the upload is an ok exactly for a deserving dispatch.
AnsweredOnce ==
    up => \A t \in Ids :
        place # "closed" =>
            /\ Len(owed[t]) = Len(answers[t]) + IF place \in Busy /\ assigned = t THEN 1 ELSE 0
            /\ \A i \in DOMAIN answers[t] :
                answers[t][i] <=> owed[t][i].kind = "assign" /\ Deserving(owed[t][i].dispatch)

\* Everything the worker receives is worked off or the session is over: no send
\* waits forever on a full channel, and the loop always returns to reading.
EventuallyIdle ==
    (inbound # <<>> \/ place \in Busy)
        ~> (place = "closed" \/ (inbound = <<>> /\ place = "ready"))
=============================================================================
