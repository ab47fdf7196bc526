# dbgflow in TLA+

A verification project for dbgflow, a Windows service that gives MCP clients
debugging sessions (DbgEng workers), reverse-engineering sessions (an IDA
supervisor), profiling and time-travel recordings. The models are translated
from the Rust source under `crates/`; `PROJECT.json` names the lines behind
every definition.

Modelled are the debug side from the session manager down to the worker process
and the DbgEng backend inside it, the two layers of the IDA side, profile jobs
with the pass over their trace, time-travel recordings, the launch of child
processes, and the server with its event streams.

| Module | Models | Proofs | Instances |
|---|---|---|---|
| `SessionManager` | debug sessions, worker registry | `SessionManagerProofs` | `MCSession*.cfg` |
| `SessionLifecycle`, `SessionRefinement` | what clients may rely on in a debug session; the manager implements it | `SessionManagerProofs` | `MCSession_calls.cfg` |
| `WorkerProtocol` | one worker process and its pipes | `WorkerProtocolProofs` | `MCWorker_protocol.cfg` |
| `DbgEngBackend` | the debug engine's sessions inside a worker | `DbgEngBackendProofs` | `MCBackend_sessions.cfg` |
| `IdaSupervisor` | requests to the IDA supervisor process | `IdaSupervisorProofs` | `MCSupervisor_requests.cfg` |
| `IdaSessionManager` | IDA sessions over an abstract supervisor | `IdaSessionManagerProofs` | `MCIda_calls.cfg` |
| `ProfileManager` | profile jobs, the job slot, the life of a trace session | `ProfilingProofs` | `MCProfile_jobs.cfg` |
| `EtwProcessor` | attribution of trace records to the target | `ProfilingProofs` | `MCEtw_trace.cfg` |
| `TtdRecording` | time-travel recordings, the job slot | `TtdRecordingProofs` | `MCTtd_jobs.cfg` |
| `ProcessLaunch` | identities and handles of child processes | `ServerProcessProofs` | `MCLaunch_two.cfg` |
| `McpServer` | service, HTTP, dispatch, session updates | `ServerProcessProofs` | `MCServer_clients.cfg` |

## Inventory

| Component | State it keeps | Operations | What makes it hard, what makes it correct |
|---|---|---|---|
| Debug session manager (`dbgflow-debug/session/manager.rs`) | map of sessions; map of operation locks; subscribers | `create_session`, `close_session`, `eval`, `query`, `list`; threads for startup, close and monitoring | Five kinds of threads over four mutexes, state copied out of a critical section and written back in a later one. One user of a worker at a time; a close ends, and for good; one record per command; one session on offer per target |
| Worker registry (`worker_registry.rs`) | registered workers, cancel requests | `get`, `insert`, `remove`, `kill_once` | `kill_once` kills outside its mutex; a removal forgets the cancel request |
| Worker client and worker loop (`worker.rs`) | child process, pipes, request counter | requests with events, close with timeout, kill, Drop; in the child: read, handle, answer | requests without timeout, a close whose reply comes late, a process that dies or resists. Each request reads its own frames; a close ends and leaves no process |
| DbgEng backend (`backend/dbgeng/mod.rs`) | open sessions, pending startups, engine lock | open, execute, cancel, close | a cancel racing the installation of the interrupt, a close timeout while the engine is busy. A failed open leaves no process; a canceled startup and a close end |
| Update stream (`manager.rs`, `mcp.rs`, `http.rs`) | list of channels | notify, subscribe, SSE loop | updates between the response headers and the subscription are lost. After it none is; a client that left is dropped |
| IDA session manager (`dbgflow-reverse/ida/manager.rs`) | sessions, database ids, operation locks | create, close with save, tool calls, health refresh | check-then-insert on create under a create lock, health refresh without lock that overwrites a close. Calls of a session are serial; a Ready session has its database; closed is closed |
| IDA supervisor client (`ida/worker.rs`) | child process, pending requests, reader thread | request, timeout, restart, kill | a request that registers after the reader has drained the map; a timeout that kills the successor. Every request gets its own answer and returns, unless the process stops reading; a process that hangs can be killed |
| Profiling (`dbgflow-trace/profile`) | active job, started collectors | start collectors, run the target, stop, clean up | one of several collectors failing; the slot must always be given back |
| ETW pass (`profile/native_etw.rs`) | outstanding packets, paths, modules, waiting stacks | one handler per kind of record | addresses are reused, records get lost, completions and stacks come apart from their row. Every row has its own completion, the last name of its open, its image; every record is accounted for |
| TTD recording (`dbgflow-trace/ttd`) | active job, recorder process | run, stop on timeout, find artifacts | a timeout that races the recorder's exit, a stop that goes by name or reaches everything. No recorder outlives its slot; no stop ends another recording; the status tells the truth |
| Process launch (`dbgflow-common/process.rs`) | handles of the server | resolve identity, prepare handles, create, fall back | concurrent launches share one handle table, and inheritable handles with it. A child gets its own handles and no others; nothing leaks on any path |
| HTTP, MCP dispatch, service (`dbgflow-mcp`) | listener, connections, stop signal | accept, read, route, call, answer, stream, stop | a thread per connection, clients that stop in the middle, a stop at any point. A client that stalls holds its own thread only, every other connection is served to its end; an error means no effect; a stop ends the process |
| Configuration, proxy, artifacts, ids | files | parse, write | sequential |

How they interact: an HTTP thread calls a manager through the tool registry
and blocks until it returns. The debug manager starts threads of its own and
talks to one worker process per session through a pipe; execution events come
back through the pipe while `eval` waits and are applied to the sessions map.
The IDA manager talks to one supervisor process that all sessions share.
Managers report changes to SSE streams through channels.

The modules are composed by what they assume of each other: `SessionManager`
sees a worker through the trait `SessionWorker`, whose promises (a close returns,
a kill ends requests) are properties of `WorkerProtocol`; `IdaSessionManager`
sees the supervisor through the trait `IdaSupervisor`, where a request returns a
result or an error (`OwnAnswer`, and `RequestReturns` with its exception), and
states safety only, so that a request that never returns is a behaviour of it
like any other; `McpServer` assumes that tools return.

Every module has a type invariant. It is a theorem of its own (`TypeCorrect`),
or the first conjunct of an invariant that a run checks. Two modules of proofs are
about two specifications each, which share no variable: `ProfilingProofs` about
the jobs and the pass over their trace, `ServerProcessProofs` about the server and
the children it starts. There the names of the second specification are
`EtwSpec`, `EtwInit`, ... and `LaunchSpec`, `LaunchInit`, ...

`PROJECT.json` lists the hazards of this code line by line, with the
properties that look for each.

## SessionManager

### What it models

`SessionManager.tla` has one variable per field of the shared state and one
per thread-local that survives a critical section.

| Variables | Code |
|---|---|
| `state`, `target`, `current`, `last`, `opStatus` | `Session` in the sessions map: `state`, `target`, `current_operation`, `last_operation` |
| `lock` | the per-session operation lock and its holder; `<<"missing">>` before `create_session` inserts it |
| `reg`, `cancel` | `WorkerRegistryState`: `workers`, `cancel_requested` |
| `proc` | the worker process, seen through the trait `SessionWorker` |
| `startup`, `monitor` | the startup and monitor threads of a session |
| `pc`, `cs`, `cop`, `hw`, `snap`, `fin` | a client call: where it is, its session, its command id, `has_worker`, the state it is going to store, how the command ended |
| `kpc`, `ks` | the close thread that a call has spawned |
| `opSession`, `sent`, `records` | audit trail: whose command, was it sent, how many lines in `commands.jsonl` |
| `abandoned` | history: sessions that `close_session` made Closed while an `eval` held the lock |

An action is a critical section: what a thread does between two acquisitions
of the sessions mutex, the registry mutex or the operation lock. Calls that
leave the process (spawn, kill, close, a request) are steps of their own,
because other threads run meanwhile.

| Actions | Code |
|---|---|
| `CreateSession`, `CreateLocks` | `create_session_with_context`: get-or-create and insert, then the lock and the startup thread |
| `CloseSession`, `CloseNothing`, `CloseMark`, `CloseCancel`, `CloseKill`, `CloseSpawn` | `close_session` up to its return |
| `CloserLock` ... `CloserFinish` | the close thread that got the lock |
| `CloserTimeout` ... `CloserTimeoutFinish` | the close thread after ten seconds without the lock |
| `StartupLock` ... `StartupFailUpdate` | `spawn_worker_startup`, `finish_worker_startup` |
| `EvalEmpty`, `Eval`, `EvalLock`, `EvalQuery`, `EvalWorker`, `EvalStart`, `EvalSend`, `EvalRequery`, `EvalFinish` | `eval`, `start_operation`, `finish_operation` |
| `EvalEvent`, `EvalReply`, `EvalFail` | what comes back through the pipe; the order of events is the one in `execute_with_output_on_error` of the DbgEng backend |
| `MonitorPoll`, `MonitorRemove` | `spawn_worker_monitor`, `mark_worker_unavailable` |
| `WorkerCrash`, `DropWorker` | the process dies; the last `Arc` of a worker is dropped |

Left out, because no property depends on it: error texts, warnings,
timestamps, backend ids, transcripts and audit events other than command
records, poisoned mutexes, and `query_session`/`list_sessions`, which only
read. A `create_session` that is rejected or that finds a reusable session
changes nothing and is not a step.

Merged steps: the second removal in `finish_worker_close` happens with the
update of the session (in the timeout path, with the removal before it), since
only the startup thread inserts, and it holds the operation lock;
`is_cancel_requested` is read with the removal that follows; a command record
is counted in the step that decides to write it. A close request that timed
out keeps a reference to its worker in its request thread; the model does not,
which matters only where a kill has failed as well.

Bounds: a client has at most one close thread at a time; every `create_session`
uses up a member of `Sessions`, every `eval` one of `Ops`.

### Runs

| Run | Instance | Checks |
|---|---|---|
| `sessions` | 2 sessions of one target, 2 clients, 1 command, kill and poll may fail | `ClosingHasCloser`, `ImplementsLifecycle` |
| `sessions_live` | 1 session, 2 clients, 2 commands, kill works, fairness | `SerialExecution`, `OperationInv`, `CloseIsFinal`, `CloseTerminates`, `DeadWorkerNoticed` |
| `leak` | 1 session, 2 clients, 1 command | `ClosedIsCleaned`, violated |

`OperationInv` is the bookkeeping of commands in three parts
(`AtMostOneRecord`, `CurrentIsRunning`, `OperationEnds`): four kinds of threads
may end a command, and between them it is ended, and once. That a target has one
session on offer is part of `ImplementsLifecycle`.

Two clients are enough for every pair of calls to overlap, and each may have a
close thread running besides its call, so four threads of calls compete with
startup and monitor; with two commands a session has a finished operation when
the next one starts. Sessions meet only in `create_session`, so only `sessions`
has two of them; it is cut off where both have a worker (`OneWorker`), since a
session whose startup is pending is already reusable, closable and able to time
out. Clients, commands and sessions are interchangeable in Next, in the safety
properties and in the lifecycle, so `sessions` uses symmetry; `sessions_live`
does not.

`leak` shows a statement of the documentation that the code does not keep: a
closed session is cleaned up. `has_worker` is read, startup registers the
worker and finishes, then the session is marked Closed: the worker stays.

Also seen, and not kept as runs:

* a close with neither worker nor operation in sight makes a session Closed
  while `eval` is on its way to the worker; after a second `create_session` the
  command's event turns it back to Running (manager.rs:805);
* a close between the state check of `eval` and `start_operation`: the command
  is sent and no record of it is made (manager.rs:870);
* a command that ends the debuggee makes its session Closed while the worker
  lives on, and `close_session` refuses a Closed session (manager.rs:809, 313),
  so nothing cleans the worker up before the server exits;
* after a Closed event a failing request leaves `current_operation` and the
  Running status behind (manager.rs:928).

The properties of the passing runs name these cases as exceptions (`abandoned`,
"outside of Closed") and show that there are no others.

### What clients may rely on

`SessionLifecycle.tla` states the promise without threads, locks or a registry:
a session is created only while no other of its target is on offer, it opens,
serves and ends and never serves again, it has one worker that starts once and
ends once, and the worker has one user at a time, commands only after an open
that succeeded. `SessionRefinement.tla` maps the manager to it: `phase` is a
reading of `state` (`PhaseOf`), `worker` is `proc`, `users` are the threads with
a request under way. A session that `close_session` made Closed under a running
`eval` is "given up" in the abstraction, the one way in which the first finding
above shows: nothing is promised of its state any more, its worker still has one
user at a time. `ImplementsLifecycle` is checked as a property of `sessions`.

### Fairness

`FairSpec` assumes that threads are scheduled (`WF` for each thread's steps)
and that a mutex that is free is handed over. It assumes nothing of clients
and nothing of a worker that is alive: an answer is only fair once the process
has exited and its pipe is at its end (`request_with_event_sink` waits without
a timeout). The close thread's timeout is a step of a fair thread: its loop
polls the lock and the clock.

### Proofs

`SessionManagerProofs.tla` proves six theorems for all `Sessions`, `Targets`,
`Clients` and `Ops`, assuming only that `NoSession`, `NoTarget` and `NoOp` are
no members (`ConstantsAssumption`):

* `TypeCorrect`: `Spec => []TypeOK`
* `Serial`: `Spec => []SerialExecution`
* `ClosingIsOwned`: `Spec => []ClosingHasCloser`
* `CloseNotUndone`: `Spec => CloseIsFinal`
* `BooksBalance`: `Spec => []OperationInv`
* `Refines`: `Spec => ImplementsLifecycle`

None of the properties is inductive. For the first four, `IndInv` adds

* `CallInv`: a thread at work has a session, a call that closes has no close
  thread yet;
* `LockInv`: the lock is held by exactly the thread whose program counter is
  between acquisition and release; `Serial` follows from it;
* `NewInv`: between the two critical sections of `create_session` nobody else
  works on the session, since its lock cannot be found;
* `SnapInv`: the state that `eval` carries across critical sections; a Closing
  it re-read is only followed by Closing, Closed or Error, so storing it back
  starts no close without a closer;
* `OpenInv`: an `eval` that is past its check meets a Closed session only if
  the session was abandoned.

The proof that a step keeps `IndInv` goes conjunct by conjunct, each split by
the threads of `Next`. `StateStep` and `EndingStep` isolate how a session's
state may change at all (only `CloseMark` makes it Closing, only `EvalEvent`
takes it out of an ending state); `ClosingIsOwned` and `CloseNotUndone` rest on
them.

`BooksBalance` rests on a second invariant, `BookInv`, kept by every step that
keeps `IndInv`:

* `IdInv`: a command id is used by one call, and what is known of it belongs to
  the session it was issued for;
* `StartInv`: no command gets past the state check of a session whose startup is
  not over, so startup ends no command;
* `PendingInv`: an operation that is not over is the last one of its session and
  has no record yet: this is why ending it writes the first one;
* `EarlierInv`, `CurrentInv`: an `eval` that has passed its check finds no older
  operation pending, and what is current is its own;
* `ErrorInv`, `EndedInv`: when another thread has ended the operation of an
  `eval`, that `eval` finds the session Closing or in Error, where
  `finish_operation` leaves the record alone.

There is a lemma per kind of step: `BookFrame` for steps that leave the books
alone, `BookEnds` for the three places that call `finalize_canceled_operation`,
one for each step of `eval`.

`Refines` shows that every step of `Next` is a step of `SessionLifecycle` or
stutters under the mapping of `SessionRefinement`. Three more invariants say what
the mapping needs and the others do not give: `OpeningInv` (a session that is
opening has `create_session` as its current operation, and nothing opens it
again: `CloseMark` never gives up a session that is opening, no stored snapshot
takes one back there), `SpawnedInv` (whoever refers to a worker refers to one
that was spawned, and startup spawns it once), `WatchedInv` (no monitor before
the end of startup). The lemmas `MapPhase`, `MapUse`, `MapRelease`, `MapExit`,
`MapSpawn` and `MapCreate` prove one abstract step each from what a concrete step
did to the mapped values; `UsersUnderLock` reads the users of a worker off the
operation lock; then there is one lemma per thread (`MapClient`, `MapAnswer`,
`MapCloser`, `MapStartup`, `MapMonitor`).

Model-checked only: `CloseTerminates` and `DeadWorkerNoticed`, which need
fairness.

## WorkerProtocol

### What it models

`ProcessSessionWorker` and `run_session_worker_stdio` in `session/worker.rs`: one
worker process, its stdin and stdout, and the calls the session manager makes:
one create, executes after it one at a time, closes at any time after it, kills
at any time. A request takes `request_lock`, writes a line and reads lines until
its response; `close` runs its request in a thread of its own, waits for it for
a while, then for the exit of the process, and kills what is left.

| Variables | Code |
|---|---|
| `call`, `req` | a call and its request: in `close` they are two threads |
| `requestLock`, `childLock`, `nextId` | the fields of `ProcessSessionWorker` |
| `stdin`, `stdout`, `worker` | the pipes, the process with its `WorkerRuntime` |
| `owner` | what is left of the `Arc`: its last release runs `Drop` |
| `emitted`, `failures` | bounds: events, lines that are no frame, system calls that fail |
| `answered` | history: requests the worker answered with a result |

| Actions | Code |
|---|---|
| `Request`, `Receive` | `create_session`, `execute`: `request_with_event_sink` |
| `LockRequest`, `WriteRequest`, `ReadLine`, `ReadEof` | the body of a request, wherever it runs |
| `Close`, `CloseTimeout`, `WaitForExitOrKill` | `close` and its timeouts |
| `Kill`, `KillStart`, `KillWait` | `kill`, also as the end of a close |
| `Release`, `Drop` | the last reference goes |
| `WorkerTake`, `WorkerEvent`, `WorkerGarbage`, `WorkerRespond`, `Die` | the worker's loop; it may die at any point |

Left out: log frames, which the reader skips, and the answer with id 0 that the
worker gives to a line it cannot parse, since the server writes none.

### Run

`worker`: 2 executes, 1 close, 1 event, 1 line that is no frame, 1 failing system
call, fairness. Two executes and a close give a request behind another, with a
close thread waiting for the lock; one failure suffices for every single call
that may fail.

* `PipeInv` (`TypeOK`, `OwnResult`, `OwnFrames`): a request succeeds on its own response; as long as no
  stray line broke the sequence it reads only its own frames. After a stray line
  the pipe stays off by one: the request that read it has failed, its response
  is still to come and is what the next request reads and refuses.
* `CloseLeavesNoProcess`, `WorkerEnds` (`CloseReturns`, `CloseFreesRequests`,
  `DropEndsProcess`): a close returns whatever the worker does, leaves no process,
  and its kill ends the read of a request thread that nobody waits for any more;
  the drop of the last reference ends the process too.

Fairness: threads of the server run and their timeouts pass, a terminated
process exits. Nothing is assumed of a worker that is not terminated, nor of
when the manager calls.

### Proofs

`WorkerProtocolProofs.tla` proves `RequestsKeptApart` (`PipeInv`) and
`CloseEndsProcess` (`CloseLeavesNoProcess`) for every set of executes and closes
and every bound on events, stray lines and failures; `ProtocolAssumption` keeps
the names of the calls apart. `IndInv` adds to the types

* `RequestOf`: a request holds `request_lock` from its check of the process to
  its last line, has an id smaller than the next one once it has written, and a
  result only if the worker answered that id; `IdsDiffer`: no two share an id;
* `CallOf`: how far a call, its request and its kill have got, and that a close
  that is over has seen the process exit or a system call fail;
* `AnswerInv`, `HandlingInv`: what is answered is in the history, a process that
  is gone handles nothing;
* `SequenceInv`: as long as every line is a frame, all that is on the two pipes
  belongs to the request that reads, and is in one of three places: on stdin,
  with the worker, or answered by the last line of stdout. `OwnFrames` alone is
  not inductive: it does not see that the previous request has read all of its
  answer.

Model-checked only: `WorkerEnds`, which is liveness.

## DbgEngBackend

### What it models

`backend/dbgeng/mod.rs`, inside a worker: a thread per session that opens the
target and then serves commands; `global_dbgeng_lock` around every use of the
engine; startups that can be canceled; a close that waits ten seconds.

| Variables | Code |
|---|---|
| `create`, `exec`, `close` | calls of `create_session`, `execute`, `close_session` |
| `thread`, `queue` | the place of `worker_main`, its command channel |
| `pending`, `sessions` | `pending_startups`, the sessions map |
| `cancel` | `StartupCancellation` and the call of `cancel_startup` |
| `engineLock` | `global_dbgeng_lock` |
| `interrupt`, `process` | external: an interrupt the engine keeps; the process it launched |
| `unkillable` | history: processes that could not be terminated |

| Actions | Code |
|---|---|
| `CreateSession`, `CreateReceive`, `CreateInsert` | `create_session` |
| `CheckCanceled` ... `Cleanup` | `worker_main` up to its readiness: `LaunchTarget`, `OpenTarget`, `CheckAgain`, `FirstEvent` or `WaitInterrupted`, the cleanup of a failed open |
| `Cancel`, `CancelInterrupt`, `CancelSession` | `cancel_startup`: the flag, then the interrupt if it is installed |
| `TakeCommand`, `LockForCommand`, `ExecuteWide`, `NextEvent`, `EndSession`, `Leave` | the command loop |
| `Execute`, `ExecuteDropped` | `execute` |
| `Close` ... `CloseJoin` | `close_session` with its timeout |

The engine is external: a command and `WaitForEvent` may take for ever, an
interrupt ends the present wait or, since the engine keeps it, the next one; setting
it may fail, and then `cancel_startup` fails (`pc = "failed"`).

### Run

`backend`: 2 sessions, of which one is canceled, commanded and closed and the
other competes for the engine lock (`Used`), 2 closers, fairness.
`SessionInv` (`TypeOK`, `FailedOpenLeavesNoProcess`, `MapFollowsThreads`),
`CancelEndsStartup`, `CloseReturns`.

`CancelEndsStartup` is about cancels that returned success: when `SetInterrupt` fails,
the request is noted but the wait for the first event has no other end.

Also seen: a cancel of a startup that waits for the engine lock takes effect only
when the lock is free, which a wait without end of another session prevents; a
cancel that loses against a success may interrupt the first command; of two
closers of one session the second may report "session not found" for a close that
succeeds. In the program a worker process opens one session and never cancels, so
these concern other users of the backend.

Fairness: threads run, the engine answers every call but `WaitForEvent` and a
command.

### Proofs

`DbgEngBackendProofs.tla` proves `SessionsFollowCalls` (`SessionInv`) and
`EngineExclusion` (`EngineIsExclusive`: one thread at a time is inside the engine,
and a lock that is taken has a thread inside) for every set of sessions and
closers. For each session the invariant says how far `create_session` and the
session's thread have got together (`CreateOf`), what the launched process is at
each place of the startup (`ProcessOf`), that the command in hand is the first of
the queue and that the closes in the queue are of this session (`QueueOf`), that
a thread that served only ends because of a close (`EndOf`), and that exactly the
places inside the engine hold the lock (`EngineOf`); for each close, that its
session was open and that it is out of the map once removed (`CloserOf`).
`OneSession` is the frame: a step of one session leaves the others' facts alone.
Model-checked only: `CancelEndsStartup`, `CloseReturns` (liveness).

## IdaSupervisor

### What it models

`ProcessIdaSupervisor` in `ida/worker.rs`. The supervisor process is started by
the first request that finds none, under the state mutex; requests then share
its stdin and are told apart by a request id; a reader thread takes responses
from stdout to the channel that waits in the pending map; a request that waits
too long removes itself from the map and kills the process. A start makes a new
*generation* of process, stdin, id counter, pending map and reader, and the
model keeps all of them, since a request may still hold an old one.

| Variables | Code |
|---|---|
| `guard`, `sup` | the mutex `state` and the `SupervisorProcess` in it |
| `child`, `apending` | `active_child`, `active_pending`, each with a mutex of its own |
| `proc`, `reader`, `nextId`, `pending`, `stdin`, `written` | one generation: process, reader thread, `next_request_id`, pending map, holder of the mutex of its stdin, requests in the pipe or at work |
| `pc`, `call`, `gen`, `rid`, `rx`, `got`, `kchild` | a request: where it is, its number, its clones of stdin and pending, its id, its channel, what it was sent, the child its kill took |

| Actions | Code |
|---|---|
| `Request`, `CheckAlive`, `ClearChild`, `ClearPending`, `Spawn`, `SetChild`, `SetPending`, `SetState` | `request_blocking` under the state mutex: `ensure_started_locked`, `clear_active_child` |
| `Insert`, `LockStdin`, `Write`, `Receive`, `Timeout` | the rest of `request_blocking`; the mutex of stdin is held from `LockStdin` to `Write` |
| `KillTake`, `KillProcess`, `KillPending`, `KillState` | `kill`, one mutex after the other, ending with `try_lock` |
| `ReaderReply`, `ReaderEnd` | `read_supervisor_stdout` |
| `ProcessExit` | external: the process dies or ends |

Left out: the content of requests and results, `has_exited`, which nothing
calls, poisoned mutexes. All callers pass a timeout (`call_management_tool`
replaces a missing one by 120 s), so the branch of `request_blocking` without a
timeout is not taken. A reply may come in any order, from a process that is
already dead, and after its request has given up.

### Runs

| Run | Instance | Checks |
|---|---|---|
| `ida_requests` | 2 clients, 3 calls, polling and writing may fail (`OsMayFail`), the first process may refuse to be killed (`Stubborn`), fairness | `OwnAnswer`, `WaitingIsPending`, `HungCanBeKilled`, `RequestReturns` |

`MaxCalls` bounds the calls and with them the generations and request ids (a
call starts at most one process). Three calls are enough for a request whose
kill overlaps the start of a second process and the use of it by another
call. When all calls are used up the system stops, hence no deadlock check.

`RequestReturns` has one exception, which the code makes. The write to the pipe comes
before the wait with the timeout, and has none (ida/worker.rs:223-237): a supervisor
that is alive and does not read its full pipe holds the writer, and behind the mutex
of stdin every later request, and if none of them has got past its write there is no
timeout that would kill it. `RequestReturns` states this as its only exception: a request
that never returns is, from some time on, in or behind such a write, and nobody who
is past the write waits for the same process. A supervisor that hangs
but reads, writes garbage or dies frees everybody.

Also seen: a kill that has taken the old child and is late with its last step
removes from `state` a supervisor that another request has started meanwhile
(ida/worker.rs:588), and the next request starts one more while that one still
serves. Such a process goes away once the last request lets go of its stdin,
since the loop of the stdio server ends with its input.

### Fairness

Threads are scheduled, and a timeout passes (`WF` of each client's steps), except in a
write to a live process (`InPipe`), which takes as long as the process likes. A
reader at the end of the output of an exited process notices. No fairness for the
process: it may hang or never answer.

### Proofs

`IdaSupervisorProofs.tla` proves `TypeCorrect`, `NoCrosstalk` (`OwnAnswer`),
`NoLostResponse` (`WaitingIsPending`) and `HungIsKillable` (`HungCanBeKilled`) for
every set of clients and every `MaxCalls`. The inductive invariant adds to the
types (`PartsTypeOK`: all but the holders of the stdin mutexes, on which nothing else
depends)

* `GuardInv`: who starts or chooses a process holds the state mutex;
* `CountInv`: ids are counted by calls, so that an id is never used up;
* `IdInv`: two requests to one generation have different ids, smaller than the
  next one;
* `PendingInv`: the pending map holds exactly the registered requests that have
  not been told anything, each under its own id;
* `WrittenInv`: what is in the pipe under the id of an active request is that
  request, which is why a late reply cannot reach a later request;
* `AnswerInv`: only registered requests have been answered.

The lemmas follow what steps have in common: `PlainInd` (a step without an
id), `TakeInd` (an id is taken), `FailInd` (a map is drained), `LeaveInd` (a
request leaves the map).

`HungIsKillable` needs `KillInv` besides: whoever starts a process has found
`state` empty, so that the `active_child` it overwrites is not the one in use; and
what `kill` takes out of `active_child` it holds until the process is dead.
Model-checked only: `RequestReturns` (liveness).

## IdaSessionManager

### What it models

`ida/manager.rs` over the trait `IdaSupervisor`. `create_session` runs under the
create lock, and from the insertion of the session on under the session's
operation lock too; `close_session_with_save` and `call_upstream_tool` run under
the operation lock. `refresh_session_health` is called by all of them and by
`get_session` and `list_sessions`, and takes no lock: it reads the session, asks
the supervisor, and writes the session later.

| Variables | Code |
|---|---|
| `state`, `target`, `dbid` | `ReverseSession` in the sessions map |
| `bound` | the map `database_ids` |
| `createLock`, `opLock` | `create_lock`, `operation_locks` and their holders |
| `listed` | external: the databases that are open in the supervisor, named after the session they were opened for (`preferred_session_id`) |
| `pc`, `ses`, `tgt`, `ret`, `want`, `prev`, `save` | a call: where it is, its session and target, what follows its refresh, the database id it holds, `previous_state`, the `save` argument |
| `dirty`, `restored`, `closed` | history: sessions changed since their last save, given back by a failed close, closed |

| Actions | Code |
|---|---|
| `CreateLookup` ... `CreateDone` | `create_session_with_context` |
| `GetSession`, `RefreshRead`, `RefreshList`, `RefreshGone`, `GetDone` | `get_session`, `list_sessions`, `refresh_session_health` |
| `Close`, `CloseCheck`, `CloseMark`, `Save`, `CloseRestore`, `CloseUnbind`, `CloseFinish` | `close_session_with_save` |
| `Tool`, `ToolCheck`, `ToolCall` | `call_upstream_tool` |
| `UpstreamLoses` | external: idle TTL, a worker or the supervisor dies |

An `idb_open` of a file that is open returns the database that is there, as the
vendored server does; after an error the database may be open or not. A
`create_session` that is rejected or that finds a reusable session changes
nothing and is not a step. The refresh at the very end of a close finds the
session terminal and is part of `CloseFinish`. Warnings, health records and
artifacts are left out except for the early return when an output cannot be
written, possible for the sessions in `Frail`.

### Runs

| Run | Instance | Checks |
|---|---|---|
| `ida_calls` | 2 sessions of one target, 2 clients, outputs of one session may fail | `ReadyIsBound`, `ClosedNeverServes`, `DetachedIsSaved`, `OneReusablePerTarget`, `ClosingHasCloser`, `LocksAreHeld` |

Two clients make every pair of operations overlap; a second session is needed
only for what `create_session` decides. A session is never used again, so two of
one target cover a session and its successor. `LocksAreHeld` says that a lock
that is taken has a call that still runs and will give it back: no path, early
returns included, returns with a lock. `SerialCalls` is proved for every instance
and not run; a lock that is not exclusive shows in `DetachedIsSaved`.

Also seen, and not kept as runs:

* a create during the save of a close gets the database that is still open; the
  save fails, the old session is Ready again (manager.rs:380), and two sessions
  with separate operation locks use one worker, which the README's "routes
  different IDA sessions to separate upstream workers" does not say;
* a refresh that began before a close ends after it and turns Closed into Error
  (manager.rs:656). `ClosedNeverServes` shows that this is as bad as it gets;
* a close whose output cannot be written leaves the session in Closing until the
  close is repeated (`ClosingHasCloser` has that exception);
* a session whose open failed has no database and can never be closed.

### Proofs

`IdaSessionManagerProofs.tla` proves `TypeOK`, `SerialCalls` and the six properties
of the run for every set of sessions, targets and clients. `IndInv` adds

* `LockInv`: a call holds the operation lock (the create lock) of its session
  from the acquisition to its end, its refreshes included, and `ret` tells who
  is closing;
* `OpenInv`: until `OpenReady` a session is Starting and without a database, and
  a refresh under way never belongs to a session that is still Starting;
* `BoundInv`: `database_ids` and `database_id` agree except between the two
  writes of the holder of the operation lock; only a session that is past its
  open has a database;
* `CloseInv`: the state that a failed close restores was Ready, Closing or
  Error, never Starting or Closed, and the database is still bound when it is
  restored;
* `ReuseInv`: what `create_session` found under the create lock stays true until
  it inserts.

The refresh, which takes no lock, is harmless for these invariants because it
only ever writes Error. There is one lemma per action, in each one step per
conjunct. `NoLockLeaks` (`LocksAreHeld`) needs the converse of `LockInv`, that
whoever holds a lock is between taking it and giving it back (`HeldInv`), with one
lemma per operation.

## ProfileManager

### What it models

`run_profile` in `profile/manager.rs`, the slot in `job.rs`, the target runner
in `profile/target.rs`, and start, stop and cleanup of the native ETW collector.
A job is one call. It takes the slot or is refused, creates its artifacts,
starts the collectors in the order of the request, launches the target, polls
until the target has exited or the deadline has passed, stops the collectors in
reverse order and returns a result; every early return stops what was started.

| Variables | Code |
|---|---|
| `active` | `SingleActiveJob::active` |
| `pc`, `req`, `started`, `exit`, `stopError`, `completed`, `outcome` | locals of `run_profile`: request, `started_collectors`, `target_exit`, `stop_error`, `collector_results`, what is returned |
| `processed` | collectors whose `stop` had a pid for post-processing |
| `trace`, `proc` | external: ETW sessions that run, the target process |
| `tried` | history: sessions for which `stop_trace_session` was called |

| Actions | Code |
|---|---|
| `Start`, `CreateArtifacts`, `StartCollector`, `StartCollectorFails`, `UndoCollector`, `UndoDone` | `run_profile_with_context` up to the launch, `stop_started_collectors_for_start_failure`, `finish_failed_profile` |
| `Launch`, `Wait`, `TargetExits` | `launch_and_wait`, `ProfileTargetEventSink`, the target |
| `StopCollector`, `Finish` | the rest of `run_profile_with_context` |

`reject_duplicate_collectors` and the default collector make a request a
non-empty sequence of distinct kinds. The server offers one kind today; the code
is written for several, and so is the model: with one kind `UndoCollector` never
fires. A target that timed out keeps running, as documented; one that exits with 259
(STILL_ACTIVE) reads as running until the deadline, so `Wait` may report an ended
target as timed out. Events, metadata
content, warnings and post-processing itself are left out.

### Run

`profile`: 2 jobs, 2 kinds, fairness; `StrayWasTried`, `CleanResult`,
`CompletedIsProcessed`, `SlotReturned` (`TargetObserved` and `SlotIsOwned` are
proved and not run). Jobs meet only in the slot, so two of them cover a job and one
that waits for it or follows it; two kinds give a collector that was started
before the one that fails. A job id is used once, so the run ends when both
jobs are done (no deadlock check). Fairness: the thread of a call is scheduled;
nothing is assumed of the target.

`StrayWasTried` is the design note "All paths after successful ETW start must try
to stop collection". It is what the code gives and no more: on the start-failure
path, and when stack tracing cannot be enabled, the stop is tried once and a
failure leaves the session running; elsewhere cleanup tries again.

### Proofs

`ProfilingProofs.tla` proves the five safety properties and `TypeOK` for
every set of jobs and every finite set of kinds. `IndInv` adds, for each job,
`BeforeInv` (nothing was stopped before the launch), `TraceInv` (a session runs
for a collector in `started_collectors`, or its stop was tried) and `StopInv`
(as long as no stop failed the sessions are those of the collectors still to be
stopped, and the others were processed). `LiveGrows` and `LiveShrinks` are the
facts about pushing and popping `started_collectors`; `LiveShrinks` needs that
the kinds of a request are distinct. `Frame` covers the jobs that take no part in
a step. Model-checked only: `SlotReturned`.

## EtwProcessor

### What it models

`EtwProcessor` in `profile/native_etw.rs`, the pass over a trace after a profile
job, with the kernel that writes the records beside it. The kernel reuses the
addresses of request packets, file objects and images for the target and for
every other process; a record may be lost; a stack names the timestamp of the
record it belongs to, and may come before or after it.

| Variables | Code |
|---|---|
| `rows` | `lifecycle_events` and `file_io_events`, in one sequence |
| `pending_file_irps`, `ignored_file_irps` | rows that wait for a completion; packets whose completion is not wanted |
| `file_paths_by_pointer`, `modules` | what is known of objects and addresses |
| `pending_stacks` | stacks that wait for their row, by timestamp |
| `matched_op_end`, `unmatched_op_end`, `reused_irp`, `stack_walks`, ... | the counters of the summary |
| `workload`, `clock`, `written`, `lost`, `named`, `io`, `file`, `image`, `seen` | external: the kernel |

An action is one record: the kernel's step and the handler of the processor, with
everything it calls, in one. `FileOperation`, `NameFile`, `Complete`, `LoadImage`,
`UnloadImage`, `Lifecycle` and `WalkStack` are the kinds of records; `AddFileRow`,
`TakePendingStacks`, the path cache and `resolve_stack_address` are operators
named after the methods. A row carries what the kernel knew about it; only the
properties read that.

A record may name a file by its object, which is one open of the file, by its key,
which all opens of the file share, or by both; a create comes before there is a key.
The cache has both under one map. A path comes with a create, with a directory
enumeration or notification (`"dir"`), and with the records that only name a file
(`NameFile`: file_name, file_create_name, file_delete_name, file_rundown), which have
no request packet and may hit any pointer. Each of them overwrites what the cache
has; a cleanup and a close remove it. `"read"` stands for all other operations.
`file` follows an open of a file in the kernel, with the last name that records of
its opener gave to it.

### Run

`etw`: 1 request packet, 1 object, 1 key, 2 paths, 2 images at one base, 2 threads, 1
record that names a file after its open (`MaxNamed`), both limits of waiting stacks 2.
A trace is about files or about stacks (`workload`). One about files has 9 records, or
6 when it loses one (`MaxLossy`); an open, its completion, a cleanup, its completion, a
close, its completion, an open of another path at the same address, its completion
and a use are nine, so the reuse of an object is in it, after a close, after an open that
failed and by another process, and so is a packet that changes hands. One about stacks
has 5 records over 3 timestamps, of which one may be lost: stacks at more timestamps
than may wait. More objects are left to the theorems: records of one object touch
another only through the key.

* `Accounting` (`EtwTypeOK`, `IoAccounting`, `StackAccounting`, `PendingBounded`): whatever was lost, every
  row and every stack is accounted for, and what waits is bounded;
* `OwnCompletion`: in a trace that lost nothing, each operation has its own
  completion, missed or waiting for none;
* `PathIsReal`: in a trace that lost nothing, an operation on a file that the target
  opened has the last name the target's records gave to this open of the file: the
  path it was opened with, unless a directory or name record gave it another. It never
  has the name of an earlier file at the same address;
* `FrameIsReal`: an address belongs to the image that was mapped then, also when
  an unload was lost.

`PathIsReal` does not say that a row has the path its file was opened with, because the
code does not promise it: `cache_file_path` takes the path of any record
(`native_etw.rs:1039`, `:1546`). After a directory enumeration with a name or pattern,
or a name record, later rows of that open have that name until the cleanup.

Also seen: when a completion is lost, the completion of another process that has
the packet next is merged into the row, hence "lost nothing" above; the path of
an object that the target inherited may be a stale one, and so may that of an
operation after the cleanup, which is looked up by key; a stack may attach to
another thread's row of the same timestamp; stacks still waiting at the end are
not in the count of dropped ones. Left out: decoding of records, image sizes, the
text of the summary. That the address of a key is never that of an object as well is
assumed (`KeysAssumption`).

### Proofs

`ProfilingProofs.tla` proves all four properties for traces of any length over any
sets of packets, objects, keys, paths, images and threads: `SummaryAddsUp`
(`Accounting`), `CompletionsAreOwn` (`OwnCompletion`), `PathsAreReal`
(`PathIsReal`) and `FramesAreReal` (`FrameIsReal`). Assumed are that there is a
thread, that target and other process differ, that objects and keys are different
addresses, that `None` is no address, path or image, and that the limits are positive, as the constants of the code are.

None of the four is inductive; `EtwIndInv` adds what relates the processor's maps
to the kernel:

* `KernelInv`, `RowsInv`: a packet in use has the number of a record that was
  written; rows are typed and not from the future, what waits points into them;
* `IoInv`, `StackInv`: the two accounts, with finite sets; only stacks of the
  target wait, each under its own timestamp, so a new row of that timestamp takes
  all of them (`TakePendingStacksInd`) and no stack is lost with them;
* `OwnInv`: the row that a packet waits for is the operation the kernel serves with
  it, so a packet that starts a new operation is not waited for;
* `PathInv`: the cache has, under the object, the last name of every file that the
  target has open, as long as nothing was lost: a record of another process never
  reaches the cache, one that names a key leaves the objects alone, and an open has a
  path of its own. A file that is cleaned up may be out of it;
* `FrameInv`: modules are in the order of their loads, each row with a known image
  has a module of its time after which only later ones were loaded (`Framed`), and
  the last module is the image at the base address if its load was seen. Lost
  unloads leave earlier modules open; that the last load wins resolves them.

Every step is a record. `NextRecord` reduces the kernel's actions to a record that
was written, and what it tells of files (`IoStep`) and of the image (`ImageStep`);
`ProcessCases` reduces the handlers to four: skip, lifecycle row, file record,
stack. The invariant is then shown part by part. The number of waiting stacks is
the size of a set of places (`Slots`), of which a step removes or adds a part: no
induction over timestamps is needed. Nothing of this component is only
model-checked.

## TtdRecording

### What it models

`record_ttd` in `ttd/mod.rs`, the other user of the job slot. It takes the slot,
runs `TTD.exe` until it exits or the deadline passes, kills it, runs
`TTD.exe -stop` for the target it had, and reports what it finds. Both runs of the
tool are `run_ttd_process`.

| Variables | Code |
|---|---|
| `active` | `SingleActiveJob::active` |
| `call` | locals of `record_ttd_with_context`, one job per call |
| `proc` | the two `TTD.exe` processes of a job, exit code, what a stop was told to stop |
| `tracing`, `file` | external: the target is traced, by a part of TTD that survives the tool; its trace file |
| `failed`, `struck` | history: tools that could not be polled, killed or waited for; recordings ended by the stop of another job |

| Actions | Code |
|---|---|
| `Start`, `InitializeArtifacts`, `Collect` | `record_ttd_with_context` |
| `Spawn`, `PollExit`, `PollError`, `PollDeadline`, `Kill`, `Wait` | `run_ttd_process`, once for each tool |
| `TracingBegins`, `TargetExits`, `StopActs`, `ToolExits` | external: the target and the tools |

A stop goes by process id, by file name, or reaches everything that is recorded
(`Reached`). The name is the file name of the request's executable (`ttd_stop_target`);
which recordings run under it is the tool's affair. The result "recorder_stop_skipped" is unreachable
(`StopHasTarget`). A recorder that exits with 259 reads as still running, so it is
reported as timed out.

### Run

`ttd`: 2 jobs, 1 file name (so that a stop by name may reach the other job), tools
of one job may resist (`Frail`), fairness of the threads of calls, nothing assumed
of the tools or the target. `ProcessInv` (`TypeOK`, `SlotCoversProcesses`,
`StopHasTarget`), `NoCrossStop`, `StatusIsTrue`, `SlotReturned`. A job is one call, so the run
ends when both are done (no deadlock check).

### Proofs

`TtdRecordingProofs.tla` proves `ProcessesCovered` (`ProcessInv`), `NoStrayStop`
(`NoCrossStop`) and `StatusTrue` (`StatusIsTrue`) for every set of jobs, names and
frail jobs. `SlotInv` ties the slot to the one call under way; for each job,
`TargetOf` says that its target was validated, and so is something to stop,
`ProcessOf` that a process that is running is being polled or about to be killed
or resisted, `TraceOf` how the trace file follows the tracing and the recorder,
`StatusOf` what a status says about them. `NoCrossStop` then holds because the
slot is held until the stop is over, so that what a stop reaches belongs to its
own job or to one whose tools resisted. Model-checked only: `SlotReturned`
(liveness).

## ProcessLaunch

### What it models

`spawn_process` in `dbgflow-common/process.rs`, in concurrent threads of one
server. A launch resolves the identity for the child (the peer's session, the
active session, or the server's own, with a fallback), prepares three standard
handles, takes the inherit flag off its own pipe ends, creates the process with
a list of handles, and tries again under the server's identity when that fails.

| Variables | Code |
|---|---|
| `call` | locals of `windows_spawn_process` |
| `handles`, `inheritable` | the server's handle table and the inherit flags in it |
| `child`, `audit` | the process with the handles it inherited; its `ProcessLaunchAudit` |

| Actions | Code |
|---|---|
| `Start` | request and identity resolution |
| `PrepareInput`, `PrepareOutput`, `PrepareError`, `Protect` | `PreparedStdio`, `set_handle_not_inheritable` |
| `CreateProcess` | creation with the handle list; closes what only the child needs, or what was prepared |
| `ChildExits`, `DropChild` | the child ends; `ManagedChild` is dropped |

Every step may fail. A handle is named by its launch and its purpose.

### Run

`launch`: 2 launches, of which one may elevate; `LaunchInv`. Its parts
`PipesEndWithChild` and
`ChildHoldsItsOwn` are about the moment between the creation of a pipe and the
removal of its inherit flag, when another launch creates its process: the handle
list is what keeps the pipe out of it. `NoHandleLeaks` and `FallbackIsTold` hold on
every path of failures. Not modelled: the environment block, the quoting of the
command line, the lookup of a TCP peer, the branch for other systems, a pipe for
standard error (no caller asks for one), and the token of the requested identity,
which is held, without a handle that can be inherited, until a fallback has been
tried.

### Proofs

`ServerProcessProofs.tla` proves `LaunchCorrect` (`LaunchInv`) for every set of
concurrent launches. `Held` is what the server holds for a launch at each of its
steps, and `HandleInv` says that the handle table is exactly that: no failure at
any step leaves more, none closes what is still needed. `ResultInv` ties child and
result together; `IdentityInv` says that an identity other than the requested one
has a reason, and that the audit is the identity of the attempt that succeeded.
`OneLaunch` is the frame for the launches that take no part in a step.

## McpServer

### What it models

The process of the service (`service.rs`), its HTTP server (`http.rs`), the
dispatch of a message to a tool (`mcp.rs`, `tools/registry.rs`), and the way of a
session update to event streams (`manager.rs`).

| Variables | Code |
|---|---|
| `server`, `signal`, `failed` | `run_service`, `run_http`; the stop channel; an error of `run_http` |
| `conn`, `client`, `request`, `answer`, `ran` | a connection's thread; the client: up, stalling (`slow`), no longer sending (`silent`) or gone; what it sent and gets, tools run |
| `changed`, `version` | a session's changes; a change not yet announced |
| `subscribers`, `updates`, `told` | `event_subscribers`, the channels, what a client knows |

| Actions | Code |
|---|---|
| `ReportRunning`, `Bind`, `PollShutdown`, `Accept`, `AcceptNone`, `AcceptFails`, `ReportStopped`, `Exit`, `Control` | service and accept loop |
| `HandleConnection`, `WriteResponse` | `handle_connection`: read, route, answer |
| `CallTool`, `ToolReturns` | `handle_message`, `ToolRegistry::call` |
| `WriteHeaders`, `Subscribe`, `SendUpdate` | `handle_mcp_sse` |
| `ObserverChanges`, `Announce` | threads of the session manager, `notify_session_updated` |
| `Connect`, `Leave`, `Stall`, `Resume`, `StopSending`, `WriteFails` | external: clients, and the system that reports them gone |

A request is the record of the facts the code asks about it (how far it can be
read, origin, method and path, content type, what its body decodes to), and what is answered is
computed from it by the same sequence of checks.

A client that is up sends its request to the end and reads what it is sent. A slow
one sends a byte now and then, or does not read: what the thread does next may
still happen (buffers) or not. A silent one has stopped in the middle of its
request, which ends with the read timeout.

### Run

`server`: 1 stream, 1 post, 1 thread of the manager, 1 session that changes twice,
fairness; `ServerInv`, `Informed`, `Served`, `StopEnds`.

`ServerInv` is `TypeOK`, `UpdateReaches` and `ErrorMeansNoEffect`.
`UpdateReaches` and `Informed`: from the registration of its receiver on
a stream misses no change. `ErrorMeansNoEffect`: what is answered with an error
ran no tool. `Served`: connections and the threads of streams whose clients left
come to their end; the one exception is a connection whose own client keeps
stalling, so that a client can hold its own thread and no other. `StopEnds`: a stop
ends the process, whatever the clients do. Two changes give two
updates in one channel and a change between the reading of one and the next; more
sessions are left to the theorem. The process may end, hence no
deadlock check.

Also seen: a change between the response headers and the registration
(http.rs:205) is lost for that client, so its notification is only promised from
the registration on; `handle_message` runs the tool of a message without id
before it refuses it, and only the HTTP layer, which does not pass such messages
on, prevents that; a stop cuts running tool calls off with the process; the
service reports Running before the listener is bound. `CONNECTION_READ_TIMEOUT` is
set on the socket (http.rs:70) and so bounds each read, not the request: the header
loop has no deadline (http.rs:426-439), and there is no write timeout at all
(http.rs:490-507), so a client that sends a byte every few seconds, or does not
read its response, keeps its thread. TLC shows it when the exception is
left out of `Served`. The channel of an event stream is unbounded, so such a client
also lets updates pile up; the model has no memory to run out of.

Fairness: threads run; a tool returns (the subject of the other modules); the
system reports a client that is gone to whoever keeps writing to it. A step that
reads from or writes to a stalling client (`HeldByClient`) is not fair. Clients are not
fair either: they may stall, resume, stop sending and leave at any time, or
never. The `Disconnected` arm of the stream loop and the 405 for a
`GET /mcp` are unreachable.

### Proofs

`ServerProcessProofs.tla` proves `AnswersAreTrue` (`ServerInv`) for every number of
streams, posts, threads, sessions and changes. `ServerIndInv` adds `AnswerInv` (a
tool is run only by a thread whose answer is going to be its result, and only a
client of the event stream comes to be a subscriber) and `WayInv`: what a
subscribed client does not know of a session is in its channel, or a thread holds a
change of that session that it has not announced yet. `UpdateReaches` follows, and
is not inductive itself, because it does not say where a change is between two
steps. `OutcomeFacts` is the lemma about the sequence of checks from `read_request`
to `call_tool`: an outcome that runs a tool replies with its result. Here it
matters that `handle_mcp_post` lets no message without id through to
`handle_message`, as noted above. Model-checked only: `Informed`, `Served`,
`StopEnds` (liveness).

## Plan

All components with state of their own are modelled, and every invariant, every
action property and the refinement that a run checks is also proved for every value
of the constants, except `ClosedIsCleaned`, which the code violates.

Model-checked only, because it is out of the prover's reach: liveness
(`CloseTerminates`, `DeadWorkerNoticed`, `RequestReturns`, `SlotReturned`,
`WorkerEnds`, `CancelEndsStartup`, `CloseReturns`, `Informed`, `Served`,
`StopEnds`), which needs fairness and ENABLED.

What could be modelled next: image sizes and several base addresses in
`EtwProcessor`, the environment block of a child in `ProcessLaunch`.

## Not modelled

* configuration and command line, proxy environment: sequential computations
  without state after the start;
* audit formatting, target validation, IDA runtime discovery, ids, time, logging:
  no control of their own; where their failure matters it is a branch of the
  component that calls them;
* the artifact store: file output; whether a record was written is counted where
  it is written;
* installation and removal of the service, and the scripts around them: sequences
  of operating-system calls by an administrator;
* the vendored IDA server, the debug engine, ETW and `TTD.exe` themselves: external,
  seen through their callers.
