# A TLA+ specification of ldgr

ldgr is a deterministic simulation testing platform: programs run against a
simulated world, every effect lands in a content-addressed causal journal, and
campaigns search schedules and faults for violations. This directory holds TLA+
specifications of the parts of it that are hard to test, the TLC models that
check them on small instances, and TLAPS proofs of the properties that matter
most for every instance. `PROJECT.json` is the index: components, runs, the
source lines behind each definition, findings, hazards and theorems.

## The system

| Part | Source (under `src/crates/`) | Modules |
| --- | --- | --- |
| Task queue, worker loop, execution of a task, artifact sinks | `ledger-worker/src/queue/`, `main.rs`, `worker.rs`, `artifact.rs` | `TaskLifecycle`, `TaskQueue`, `TaskExecution`, `WorkerDrain` |
| Control-plane session | `ledger-worker/src/main.rs`, `transport.rs` | `WorkerSession` |
| Causal journal | `ledger-journal/src/dag.rs`, `clock.rs` | `JournalDag` |
| Segment store, persistent journal, snapshots | `ledger-journal/src/segment/`, `archive.rs`, `retention.rs`, `persistent.rs`, `snapshot*.rs` | `SegmentStore`, `PersistentJournal` |
| Executor, virtual time, simulated network | `ledger-sim/src/executor/`, `time.rs`, `net.rs` | `SimNet`, `Executor` |
| Scheduler, replay, DPOR | `ledger-sim/src/scheduler.rs`, `runtime.rs`, `dpor.rs` | `Scheduler` |
| Simulated filesystem, storage effects, journal monitor | `ledger-sim/src/simfs.rs`, `executor/storage.rs`, `ledger-journal/src/monitor.rs` | `ByteFs`, `SimFs`, `StorageEffects` |
| Fault scenario language and its bridge | `ledger-faultspec/src/`, `ledger-explorer/src/faultspec_bridge.rs` | `FaultSpec` |
| Program runtime, effect session, engine process | `ldgr-rt/src/`, `rt-server/src/` | `RtRuntime`, `EngineSession`, `EngineHost` |
| Durable workflows | `ledger-flow/src/workflow.rs` | `Workflow` |
| Formats and codecs | `ledger-format/src/`, `ledger-sim/src/config_canonical.rs`, the codecs of the other crates | `Cbor`, `EntryCodec`, `WireCodec`, `DurableCodec`, `ConfigCodec` |
| Fault solvers, campaigns, minimizer, oracles, certificates | `ledger-explorer/src/` | `FaultCuts`, `FaultSolver`, `Certificates`, `Minimizer`, `Feedback`, `Campaigns`, `Oracles` |

Everything that happens in a simulated run goes through the executor, which asks
the scheduler for decisions, the network for deliveries and the filesystem for
bytes, and appends an entry to the causal journal for each. Campaigns run the
executor again and again, read the journal of a violation, and compute from it
the faults to inject next. Workers run campaigns as tasks. A program under test
either links the runtime or speaks the effect protocol with an engine process.

What makes it hard: crashes between two file operations and I/O errors at each of
them; forks that share immutable state; leases that expire while their holder
still works; messages that arrive while a task runs; decisions that must be
replayable; timers and messages racing at quiescence; answers that come after
their call has timed out; caches, manifests and memo tables that are stale when
they are used; encoders and decoders that are written separately. The `hazards`
list of `PROJECT.json` names each one at its line, with the properties that cover
it.

## Modules

Worker:

* `TaskLifecycle` - what a queue promises of each task: the arcs of `TaskStatus`
  and what each costs.
* `TaskQueue` - `InMemoryQueue`, one action per method. A task is its id, the
  `Vec`s of finished tasks are counts, a lease deadline is kept as time left.
* `TaskExecution` - what `execute_task` makes of a task: its gates in the order of
  the code. The digest of a value is the value.
* `WorkerDrain` - the standalone loop and the library entry point `run_one` over
  `TaskQueue`: the queue file, the tick, one pulled task at a time, the heartbeat
  and the completion branch of the `select!`, panics, publication through the
  artifact sink, ctrl-c. With the driver `direct` a host calls the queue itself.
* `WorkerSession` - the control-plane session: one inbound message is read at a
  time, the request channel is bounded, the stream may break anywhere.

Journal and storage:

* `JournalDag` - the in-memory DAG. An entry is a record that contains its parents,
  as its hash does.
* `SegmentStore` - the on-disk store. Each file operation that a crash or an error
  can separate from the next is a step; `pc` says which comes next.
* `PersistentJournal` - the journal facade over `SegmentStore`: memory, snapshots,
  rollback, fork and open.

Simulator:

* `SimNet`, `Executor` - the network and the run loop over it. `phase` is the place
  in an iteration; a poll executes one instruction of a task's program, or, for an
  async task, all up to an await that has to wait.
* `Scheduler` - policies, strict and lenient replay and the DPOR driver over
  `Executor`.
* `ByteFs`, `SimFs` - what a filesystem promises (bytes per file, of which an earlier
  state is saved) and the simulated one (maps of ranges that writes trim and split,
  the durable copy, the crash operators), which implements it.
* `StorageEffects` - the storage calls of tasks over `SimFs` with scheduled and swarm
  faults, the journal they write and the monitor that audits it.
* `FaultSpec` - scenarios, from lines of tokens to the faults of a run.

Runtime:

* `RtRuntime` - `run` and its variants, and the in-process network whose receivers
  wait for notifications.
* `EngineSession` - the effect session between shim and server.
* `EngineHost` - the engine process: spawn, socket, requests with their timeouts,
  teardown, and an engine that may hang, die, stall or answer late.
* `Workflow` - durable workflows: `resume` step by step, with a failure or a crash
  between any two.

Formats: `Cbor` is the byte layer; `EntryCodec`, `WireCodec` and `DurableCodec` are
tables of fields, one in the order the encoder writes and one in the order the
decoder reads; `ConfigCodec` works on value trees, across builds.

Explorer: `FaultCuts` is the pure part of fault injection (derivations, clauses,
hitting sets, both MaxSAT engines), checked against its definition; `FaultSolver`
adds caches, resume and saved state; `Certificates` issues and validates;
`Minimizer` is delta debugging with its memo and the slices; `Feedback` and
`Campaigns` are the searches; `Oracles` the verdicts.

The `MC` modules give the constants their values. A run composes several components
of a family, one at work at a time (`part`), or together where they interact
(queue and loop, executor and scheduler, filesystem and effects).

## What the runs check

| Run | Bounds | Shows |
| --- | --- | --- |
| `worker` | 4 tasks (2 that complete, one that fails, one that panics), 2 attempts, lease of 1 tick; session: 2 ids, 4 messages, channel of 1 | each task in one place, on its lifecycle's arcs; the loop owns the lease of the task it runs and drains the queue; one answer per assignment or cancel; the session returns to reading |
| `journal_tiers` | 3 entries, batches of up to 2, seal at 2 or forced, warm and cold, fork, manifest, snapshots, a crash at each step | memory is store; tiers lose nothing and settle; it reopens unless torn |
| `storage` | 2 actors, 2 views, 2 entries per actor; 3 entries with an error at any step | one clock component tells causality; views are isolated; errors lose no sealed segment |
| `executor` | 2 tasks, programs of 2 instructions or async operations, 6 steps, plain, faulty and reordering configurations; replays and forced decisions | no wakeup lost or doubled, every message accounted for, honest outcomes, strict replays exact, DPOR explores the racing alternatives, every run ends |
| `simfs` | 2 files of 3 bytes, 3 writes, 1 torn or damaged write; 2 tasks with one fault class; scenarios of up to 3 blocks | ranges behave as bytes; reads name the writes they saw; journals retell storage and the monitor is exact; scenarios compile to the faults they name or are refused |
| `runtime` | 2 clients, 3 and 1 effects; 5 requests, 3 runs, 2 retries; 3 tasks; 4 plans of up to 3 steps, 3 failures | both ends of a session agree; calls return with their own answer and leave nothing behind; no wakeup is lost; a recovered workflow agrees with its journal, performs effects in order and completes |
| `formats` | samples of every codec, every byte changed to each of 10 marks, every cut; all strings of 3 bytes over 23 heads | encodings read back; strict decoders accept only what encoders write; cut logs yield prefixes |
| `explorer` | every journal of up to 4 entries; solver calls over 2 configurations; minimizations of up to 3 positions; 3 attempts | cuts are minimal and cheapest; certificates sound; minimization ends one-minimal; schedules follow feedback; reports are about runs that were made; oracles exact |

The bounds are the smallest at which every action fires and each hazard has room
to happen: two segments and one more to be kept by the warm tier's tail, a batch
that crosses a seal, a duplicate assignment while another task waits, a freeze
with and without a second view, an answer that arrives after its call gave up.

The runs `journal_stale_manifest`, `journal_torn_archive`, `executor_blocked` and
`solver_stale_cache` end in a violation: each states what a comment or a test of the
repository says and shows an execution of the code that does otherwise (see
`findings`).

## Fairness

`WorkerDrain` and `WorkerSession` assume that the process keeps running and that
an execution ends (`max_steps` bounds every run); the request channel of a live
stream is drained. `PersistentJournal` assumes that whoever finds the journal
closed tries to open it, and tries again after an error. `Executor` and `Minimizer`
assume that their loops run, nothing of the scheduler or of the oracle.
`EngineSession` assumes that server and client threads run, and that the server
drops a silent connection; `EngineHost` only that the caller's thread and clocks do.
`Workflow` assumes that its owner recovers it after a crash, attaches a plan and
resumes it after an error. Nothing is assumed of the control plane's messages, of
crashes or of errors. The safety properties use no fairness.

## Abstractions

* Entries, payloads and hashes are values that are equal exactly when their
  content is, except in the format modules, whose subject is the bytes.
* `SegmentStore`: temporary files are never read after a crash and are left out. A
  crash keeps every write that returned, except that any suffix of the unsynced
  WAL may be lost. A partial last frame is what `last_complete_frame_end` drops.
  The passing journal runs exclude the cases of the findings by name (`mishaps`,
  `Untorn`), so that they say what holds otherwise.
* `PersistentJournal` has one actor, so an entry is its place in a chain.
* `JournalDag`: `MaxSeq` bounds the entries of an actor, `Threshold` stands for
  `OVERLAY_THRESHOLD`. A view is dropped only while another one lives.
* `Executor`: links share one configuration, whose base delay is part of the delay of
  a send; entries keep their kind and the message they are about; instructions that
  touch neither network nor time are one, `Local`. Every draw from the seed tree is a
  choice, except those of the Random policy, which a replay repeats.
* `Workflow`: an entry's first parent is the actor's previous entry, because the
  journal puts the actor's head first; the value of an effect tells which one it was.
  `astray` remembers that a plan was attached in which the step in progress is not the
  next one; the properties are about workflows to which that never happened, and
  `MaxEffects` bounds how long the others are followed.
* `SimFs`: a byte is named by its write and place; rejected calls change nothing and are
  left out; `SCALAR` stands for the 8 bytes of an appended value. The
  `sim-fs-journaling` feature, off by default, is not modelled.
* Time in the queue is relative and saturates at `Horizon`.
* Formats: digests have 2 bytes, limits are small, which `CborError` a rejection
  carries is left out. JSON floats are exact.
* Explorer: a run is a function of its configuration, chosen when it is first made and
  kept; ids are ordered as hashes are; the budgets of the unbounded walks are not
  reached.

## What is proved

For every value of the constants that satisfies the named assumptions of the modules.

`TaskQueueProofs`: the inductive invariant is the type invariant with `OneSlot`,
`AttemptBudget` and the fact that a task that never ran was never charged. The queue's
sequence operations need lemmas on removal and on the order in which expired leases
return. The action properties `ReleaseIsCharged` and `TerminalIsFinal` and the
refinement of `TaskLifecycle` follow from it step by step.

`WorkerDrainProofs`: every step of the loop is a step of the queue or leaves it alone
(`DrainRefinesQueue`), so the queue's theorems hold under the loop. `OwnedLeases` needs
in addition which task each program counter holds and that a publication is for a task
whose lease has ended.

`WorkerSessionProofs`: `AnsweredOnce` counts answers against what deserved one. The
invariant relates the messages read, the one in hand, the task in flight and the
answers sent, at each program counter; reading appends to the first, so a message is
counted when it is read and answered before the next is.

`JournalDagProofs`: the inductive invariant `Good` says that each view is closed under
parents, that clocks are the merge of the parents' clocks plus one, that sequence
numbers are dense up to the head, and that views agree on their common entries;
sharing the base is only safe because a freeze needs an exclusive owner. From it
follow that one clock component tells causality, that the DAG is acyclic, and that
views are isolated.

`RuntimeProofs`: for the engine process, `NothingLeftBehind` needs that a socket
directory or a process exists only between the steps that make and remove it, and
`AnswersMatch` that every answer on a connection is the answer to the request line
written to that connection, and that a call reads its own connection only. For the
in-process network, `NoLostWakeup` needs that only a task inside a receive holds an
armed ticket, so that a notifying sender leaves no armed ticket behind; removing a
message never gives a receiver a reason to wake.

`WorkflowProofs`: as long as `astray` is false, the journal alternates begins and ends,
has one begin per step, and each end holds the value of an effect of its step
(`Shaped`); what the running workflow has counted is what recovery would read
(`Agrees`); and a step in progress is the first step of the plan that is not completed
(`GoesOn`). While resume runs, what was appended since its scan is about steps it has
handled (`AtStep`), so the scan is not stale for the steps to come: a pending step has
no begin, and a step in progress has the last one. `RecoveryAgrees` and `EffectsInOrder`
follow. The completed steps are an enumeration of a set of places, so that recovery is
reasoned about by the rank of a place instead of by recursion.

`EngineConnectionProofs`, `EngineSessionProofs`: the invariant of `HistoriesAgree` says of
each connection, for every place it can have at the server (queued, in its handshake,
served, gone), which frames may be in flight: a served request is the client's last call,
sent when every answer had been read, and the answer to a waiting call is the result of
the last effect applied, the only one the client may not know of. The first module shows that each step of either end keeps this
for one connection, and that the backend has appended as many entries as the history
weighs; the second that a step in one connection leaves the others alone, because the
server serves one at a time and a connection waits in the backlog at most once.

Only model-checked. Everything about liveness: fairness is out of the prover's reach.
The formats, cuts, oracles and minimization: what recursive definitions compute. The
segment store, the executor and the filesystem with its effects: their invariants are
checked on the bounds above only.

## Where the code departs from its comments

Besides the findings, the models contain behaviour that departs from what a comment
says or that a reader would not expect. No property forbids it; where a hazard
concerns it, the hazard says so.

* Worker: a panicked execution bypasses `route_failure`. A duplicate assignment or a
  cancel that arrives while its task runs is read after it. `--drain-once` starts from an
  empty queue and uses the no-op sink. A push recomputes the configuration hash, so a
  mismatch is only met by dispatches.
* Journal: snapshot appends can tear as archive appends do, and a snapshot can be ahead
  of the WAL. Memory and store drift apart after a WAL write that fails or a batch that
  is rejected. A failed seal followed by another loses frames that only the WAL held.
  Fault flags are lost by a reload without a manifest. The audit does not notice that an
  entry nobody refers to was removed (the coverage check does), and reports the read of
  a missing file as a parent mismatch on a correct run.
* Executor: under a reorder window the message served may differ from the recorded cause
  of the wake. A refusal is journaled as a Block entry. A cancelled sleep leaves
  `timer_fired` set. Runs with async tasks are not replayed. DPOR's last clocks miss the
  Wake entries at the start of a step.
* Storage: an unsynced rename survives a crash, a torn write persists nothing, and the
  resident budget can be exceeded. A crash drops the write that a later scheduled tear
  names; the run then fails closed.
* Fault scenarios: `delay a->b 50`, without a unit, is a delay of zero; faults that target
  a block carry synthetic hashes.
* Runtime: an effect refused by the shim uses up a sequence number. `run_with_sim` leaves
  the thread's handle bound after an error. Attempts after the first replace 8 bytes of
  the seed. A workflow whose plan is replaced after a crash inside a step may pair that
  step's end with another entry, and then runs the step on every resume.
* Formats: the entry encoder writes clocks and masks that the decoder refuses;
  `MAX_CANONICAL_VALUE_DEPTH` counts nodes; the configuration encoder does not enforce
  `MAX_DNS_NAME_LEN`; the identity decoder accepts unsorted input digests.
* Explorer: an escalation asked for in round 0 is lost; a Recv hypothesis whose Send is
  suppressed gives an empty schedule; ddmin never tries the empty set; the shared memo
  does not report a finding again; `solve_with_support` keeps its claim of a minimum for
  opaque support; a witness cap below the number of witnesses yields a statement that
  validation refuses; the greedy incumbent ignores the bound on cardinality.

## Not modelled

Parsing of queue files and command lines, generated bindings, host mechanisms (seccomp,
the preload shim), the WASI binding, reference workloads, the lint and workspace
automation hold no state that a model would tell apart, or belong to the host. The OTel
adapters, spawning of simulated tasks, coverage counters, the random streams and the
simulation backends other than the one behind the effect session are left for later.
