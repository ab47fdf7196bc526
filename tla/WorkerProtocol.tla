--------------------------- MODULE WorkerProtocol ---------------------------
(***************************************************************************)
(* One debug worker process and the protocol on its two pipes              *)
(* (crates/dbgflow-debug/src/session/worker.rs).  The server side is       *)
(* ProcessSessionWorker: calls of create_session, execute, close and kill, *)
(* each request serialised by request_lock, close with a request thread    *)
(* and two timeouts.  The worker side is run_session_worker_stdio.  The    *)
(* session manager makes one create call, executes after it one at a time, *)
(* closes at any time after it and kills at any time.                      *)
(***************************************************************************)
EXTENDS Integers, Sequences

CONSTANTS
    Executes, Closes,   \* ids of the execute and of the close calls
    MaxEvents,          \* bound: state change events the worker reports
    MaxGarbage,         \* bound: lines on stdout that are no frame
    MaxFailures         \* bound: operating system calls that fail

ASSUME ProtocolAssumption ==
    /\ {"create", "kill", "none"} \cap (Executes \cup Closes) = {}
    /\ Executes \cap Closes = {}
    /\ MaxEvents \in Nat /\ MaxGarbage \in Nat /\ MaxFailures \in Nat

VARIABLES
    call,         \* per call, its place, its result and what follows its kill
    req,          \* per call, its request: place, id and result
    requestLock,  \* the call whose request holds request_lock
    childLock,    \* the call that holds the child's mutex while it waits
    nextId,       \* next_request_id
    stdin, stdout,
    worker,       \* the process and its WorkerRuntime
    owner,        \* what is left of the Arc that the session manager holds
    emitted,      \* events and garbage so far
    failures,     \* operating system calls that failed so far
    answered      \* history: ids the worker answered with a result

vars == <<call, req, requestLock, childLock, nextId, stdin, stdout, worker,
          owner, emitted, failures, answered>>
pipes == <<stdin, stdout>>
bounds == <<emitted, failures>>

Calls == {"create", "kill"} \cup Executes \cup Closes
None == "none"
NoId == -1
Results == {"created", "executed", "closed", "error"}

Expected(c) ==
    IF c = "create" THEN "created" ELSE IF c \in Executes THEN "executed" ELSE "closed"
Method(c) ==
    IF c = "create" THEN "create_session" ELSE IF c \in Executes THEN "execute" ELSE "close_session"

CallStates == [pc : {"idle", "recv", "kill", "wait", "exit", "done"},
               result : {None, "ok", "err"}, after : {None, "again", "result", "err"}]
Requests == [pc : {None, "lock", "write", "read", "done"},
             id : Nat \cup {NoId}, result : Results \cup {None}]
Methods == {"create_session", "execute", "close_session"}
Lines == [kind : {"event", "response", "garbage"}, id : Nat, result : Results \cup {None}]
WorkerStates == [state : {"running", "stopping", "terminating", "exited"},
                 session : BOOLEAN, handling : Nat \cup {NoId}, method : Methods \cup {None}]

\* Calls, requests, locks, frames on the pipes, the worker and the bounds.
TypeOK ==
    /\ call \in [Calls -> CallStates]
    /\ req \in [Calls -> Requests]
    /\ requestLock \in Calls \cup {None} /\ childLock \in Calls \cup {None}
    /\ nextId \in Nat
    /\ stdin \in Seq([id : Nat, method : Methods])
    /\ stdout \in Seq(Lines)
    /\ worker \in WorkerStates
    /\ owner \in {"held", "released", "dropped"}
    /\ emitted \in [event : 0..MaxEvents, garbage : 0..MaxGarbage]
    /\ failures \in 0..MaxFailures
    /\ answered \in SUBSET Nat

Init ==
    /\ call = [c \in Calls |-> [pc |-> "idle", result |-> None, after |-> None]]
    /\ req = [c \in Calls |-> [pc |-> None, id |-> NoId, result |-> None]]
    /\ requestLock = None /\ childLock = None /\ nextId = 0
    /\ stdin = <<>> /\ stdout = <<>>
    /\ worker = [state |-> "running", session |-> FALSE, handling |-> NoId,
                 method |-> None]
    /\ owner = "held"
    /\ emitted = [event |-> 0, garbage |-> 0]
    /\ failures = 0
    /\ answered = {}

Exited == worker.state = "exited"
Active(c) == call[c].pc \notin {"idle", "done"}
Fail == failures < MaxFailures /\ failures' = failures + 1

\* The calls that the session manager makes.
MayCall(c) ==
    /\ owner = "held" /\ call[c].pc = "idle"
    /\ c \in Executes \cup Closes => call["create"].result = "ok"
    /\ c \in Executes => \A d \in Executes : ~Active(d)

-----------------------------------------------------------------------------
(* Calls *)

Return(c, result) ==
    call' = [call EXCEPT ![c].pc = "done", ![c].result = result]

KillThen(c, after) ==
    call' = [call EXCEPT ![c].pc = "kill", ![c].after = after]

SendRequest(c) ==
    /\ req' = [req EXCEPT ![c].pc = "lock"]
    /\ call' = [call EXCEPT ![c].pc = "recv"]

\* create_session, execute: the request runs in the caller's thread.
Request(c) ==
    /\ c \in Executes \cup {"create"} /\ MayCall(c)
    /\ SendRequest(c)
    /\ UNCHANGED <<requestLock, childLock, nextId, pipes, worker, owner, bounds, answered>>

\* close polls the process, then hands its request to a thread of its own.
Close(c) ==
    /\ c \in Closes /\ MayCall(c) /\ childLock = None
    /\ \/ Exited /\ Return(c, "ok") /\ UNCHANGED <<req, failures>>
       \/ Fail /\ Return(c, "err") /\ UNCHANGED req
       \/ ~Exited /\ SendRequest(c) /\ UNCHANGED failures
    /\ UNCHANGED <<requestLock, childLock, nextId, pipes, worker, owner, emitted, answered>>

Kill ==
    /\ MayCall("kill")
    /\ KillThen("kill", "result")
    /\ UNCHANGED <<req, requestLock, childLock, nextId, pipes, worker, owner, bounds, answered>>

\* The result reaches the caller.  (Mutant: a failed close does not kill.)
ReceiveNoKill(c) ==
    /\ call[c].pc = "recv" /\ req[c].pc = "done"
    /\ IF req[c].result = Expected(c) /\ c \in Closes
         THEN call' = [call EXCEPT ![c].pc = "exit"]
         ELSE Return(c, IF req[c].result = Expected(c) THEN "ok" ELSE "err")
    /\ UNCHANGED <<req, requestLock, childLock, nextId, pipes, worker, owner, bounds, answered>>
Receive(c) ==
    /\ call[c].pc = "recv" /\ req[c].pc = "done"
    /\ IF c \in Closes
         THEN IF req[c].result = Expected(c)
                THEN call' = [call EXCEPT ![c].pc = "exit"]
                ELSE KillThen(c, "err")
         ELSE Return(c, IF req[c].result = Expected(c) THEN "ok" ELSE "err")
    /\ UNCHANGED <<req, requestLock, childLock, nextId, pipes, worker, owner, bounds, answered>>

\* CLOSE_REQUEST_TIMEOUT: kill, and once more in close's own error branch.
\* (Mutants: the timeout only returns an error; it runs from the write of the
\* request.)
CloseTimeoutFromWrite(c) ==
    /\ c \in Closes /\ call[c].pc = "recv" /\ req[c].id # NoId
    /\ KillThen(c, "again")
    /\ UNCHANGED <<req, requestLock, childLock, nextId, pipes, worker, owner, bounds, answered>>
CloseTimeout(c) ==
    /\ c \in Closes /\ call[c].pc = "recv"
    /\ KillThen(c, "again")
    /\ UNCHANGED <<req, requestLock, childLock, nextId, pipes, worker, owner, bounds, answered>>

\* wait_for_exit_or_kill, with EXIT_WAIT_TIMEOUT.
WaitForExitOrKill(c) ==
    /\ call[c].pc = "exit" /\ childLock = None
    /\ \/ Exited /\ Return(c, "ok") /\ UNCHANGED failures
       \/ Fail /\ Return(c, "err")
       \/ ~Exited /\ KillThen(c, "result") /\ UNCHANGED failures
    /\ UNCHANGED <<req, requestLock, childLock, nextId, pipes, worker, owner, emitted, answered>>

-----------------------------------------------------------------------------
(* kill, under the mutex of the child *)

KillResult(c, result) ==
    CASE call[c].after = "again" -> KillThen(c, "err")
      [] call[c].after = "err" -> Return(c, "err")
      [] OTHER -> Return(c, result)

KillStart(c) ==
    /\ call[c].pc = "kill" /\ childLock = None
    /\ \/ /\ Exited /\ KillResult(c, "ok")
          /\ UNCHANGED <<childLock, worker, failures>>
       \/ /\ Fail /\ KillResult(c, "err")
          /\ UNCHANGED <<childLock, worker>>
       \/ /\ ~Exited
          /\ childLock' = c
          /\ worker' = [worker EXCEPT !.state = "terminating"]
          /\ call' = [call EXCEPT ![c].pc = "wait"]
          /\ UNCHANGED failures
    /\ UNCHANGED <<req, requestLock, nextId, pipes, owner, emitted, answered>>

KillWait(c) ==
    /\ call[c].pc = "wait"
    /\ \/ Exited /\ KillResult(c, "ok") /\ UNCHANGED failures
       \/ Fail /\ KillResult(c, "err")
    /\ childLock' = None
    /\ UNCHANGED <<req, requestLock, nextId, pipes, worker, owner, emitted, answered>>

-----------------------------------------------------------------------------
(* request_with_event_sink, in the thread of the request *)

Finish(c, result) ==
    /\ req' = [req EXCEPT ![c].pc = "done", ![c].result = result]
    /\ requestLock' = None

\* request_lock, then has_exited.  (Mutant: no request_lock.)
LockRequestUnlocked(c) ==
    /\ req[c].pc = "lock" /\ childLock = None /\ ~Exited
    /\ req' = [req EXCEPT ![c].pc = "write"]
    /\ UNCHANGED requestLock /\ UNCHANGED failures
    /\ UNCHANGED <<call, childLock, nextId, pipes, worker, owner, emitted, answered>>
LockRequest(c) ==
    /\ req[c].pc = "lock" /\ requestLock = None /\ childLock = None
    /\ \/ Exited /\ Finish(c, "error") /\ UNCHANGED failures
       \/ Fail /\ Finish(c, "error")
       \/ /\ ~Exited
          /\ req' = [req EXCEPT ![c].pc = "write"]
          /\ requestLock' = c /\ UNCHANGED failures
    /\ UNCHANGED <<call, childLock, nextId, pipes, worker, owner, emitted, answered>>

\* The write fails once the process has gone.
WriteRequest(c) ==
    /\ req[c].pc = "write"
    /\ nextId' = nextId + 1
    /\ IF Exited
         THEN Finish(c, "error") /\ UNCHANGED stdin
         ELSE /\ stdin' = Append(stdin, [id |-> nextId, method |-> Method(c)])
              /\ req' = [req EXCEPT ![c].pc = "read", ![c].id = nextId]
              /\ UNCHANGED requestLock
    /\ UNCHANGED <<call, childLock, stdout, worker, owner, bounds, answered>>

\* One line of stdout.
ReadLine(c) ==
    /\ req[c].pc = "read" /\ stdout # <<>>
    /\ LET frame == Head(stdout) IN
       CASE frame.kind = "event" ->
              UNCHANGED <<req, requestLock>>   \* for the event sink
         [] frame.kind = "garbage" ->
              Finish(c, "error")
         [] OTHER ->
              Finish(c, IF frame.id = req[c].id THEN frame.result ELSE "error")
    /\ stdout' = Tail(stdout)
    /\ UNCHANGED <<call, childLock, nextId, stdin, worker, owner, bounds, answered>>

ReadEof(c) ==
    /\ req[c].pc = "read" /\ stdout = <<>> /\ Exited
    /\ Finish(c, "error")
    /\ UNCHANGED <<call, childLock, nextId, pipes, worker, owner, bounds, answered>>

-----------------------------------------------------------------------------
(* The last reference: the manager's own and those of the request threads *)

Release ==
    /\ owner = "held" /\ \A c \in Calls : ~Active(c)
    /\ call["create"].pc = "done" \/ call["kill"].pc = "done"
    /\ owner' = "released"
    /\ UNCHANGED <<call, req, requestLock, childLock, nextId, pipes, worker, bounds, answered>>

\* ProcessSessionWorkerInner::drop.
Drop ==
    /\ owner = "released" /\ \A c \in Calls : req[c].pc \in {None, "done"}
    /\ owner' = "dropped"
    /\ \/ Exited /\ UNCHANGED <<worker, failures>>
       \/ Fail /\ UNCHANGED worker
       \/ /\ ~Exited /\ UNCHANGED failures
          /\ worker' = [worker EXCEPT !.state = "terminating"]
    /\ UNCHANGED <<call, req, requestLock, childLock, nextId, pipes, emitted, answered>>

-----------------------------------------------------------------------------
(* The worker process: run_session_worker_stdio and WorkerRuntime::handle *)

Serving == worker.state = "running"

WorkerTake ==
    /\ Serving /\ worker.handling = NoId /\ stdin # <<>>
    /\ worker' = [worker EXCEPT !.handling = Head(stdin).id, !.method = Head(stdin).method]
    /\ stdin' = Tail(stdin)
    /\ UNCHANGED <<call, req, requestLock, childLock, nextId, stdout, owner, bounds, answered>>

Frame(kind, id, result) == [kind |-> kind, id |-> id, result |-> result]

\* A command changes the execution state of the target.
WorkerEvent ==
    /\ Serving /\ worker.method = "execute" /\ worker.session
    /\ emitted.event < MaxEvents
    /\ emitted' = [emitted EXCEPT !.event = @ + 1]
    /\ stdout' = Append(stdout, Frame("event", worker.handling, None))
    /\ UNCHANGED <<call, req, requestLock, childLock, nextId, stdin, worker, owner,
                   failures, answered>>

\* A module loaded into the worker writes to its stdout (external).
WorkerGarbage ==
    /\ Serving /\ worker.handling # NoId /\ emitted.garbage < MaxGarbage
    /\ emitted' = [emitted EXCEPT !.garbage = @ + 1]
    /\ stdout' = Append(stdout, Frame("garbage", worker.handling, None))
    /\ UNCHANGED <<call, req, requestLock, childLock, nextId, stdin, worker, owner,
                   failures, answered>>

\* handle: the results a request may have and whether the loop ends after it.
handle ==
    CASE worker.method = "create_session" ->
           IF worker.session THEN {<<"error", TRUE>>} ELSE {<<"created", FALSE>>, <<"error", TRUE>>}
      [] worker.method = "execute" ->
           IF worker.session THEN {<<"executed", FALSE>>, <<"error", FALSE>>} ELSE {<<"error", TRUE>>}
      [] OTHER ->
           {<<"closed", TRUE>>} \cup (IF worker.session THEN {<<"error", TRUE>>} ELSE {})

WorkerRespond ==
    /\ Serving /\ worker.handling # NoId
    /\ \E r \in handle :
          /\ stdout' = Append(stdout, Frame("response", worker.handling, r[1]))
          /\ worker' = [state |-> IF r[2] THEN "stopping" ELSE "running",
                        session |-> \/ r[1] = "created"
                                    \/ worker.session /\ worker.method # "close_session",
                        handling |-> NoId, method |-> None]
          /\ answered' = IF r[1] = "error" THEN answered ELSE answered \cup {worker.handling}
    /\ UNCHANGED <<call, req, requestLock, childLock, nextId, stdin, owner, bounds>>

\* The process dies at any moment, surely once it is terminated.
Die ==
    /\ ~Exited
    /\ worker' = [worker EXCEPT !.state = "exited", !.handling = NoId, !.method = None]
    /\ UNCHANGED <<call, req, requestLock, childLock, nextId, pipes, owner, bounds, answered>>

-----------------------------------------------------------------------------
Caller(c) ==
    \/ Request(c) \/ Close(c) \/ Receive(c) \/ CloseTimeout(c)
    \/ WaitForExitOrKill(c) \/ KillStart(c) \/ KillWait(c)
Requester(c) == LockRequest(c) \/ WriteRequest(c) \/ ReadLine(c) \/ ReadEof(c)
Worker == WorkerTake \/ WorkerEvent \/ WorkerGarbage \/ WorkerRespond \/ Die

Next ==
    \/ \E c \in Calls : Caller(c) \/ Requester(c)
    \/ Kill \/ Release \/ Drop \/ Worker

Spec == Init /\ [][Next]_vars

\* Threads of the server run, their timeouts pass, and a terminated process
\* exits.  Nothing is assumed of a worker that is not terminated, nor of when
\* the manager calls or releases.
Fairness ==
    /\ \A c \in Calls :
          /\ WF_vars(Receive(c) \/ CloseTimeout(c) \/ WaitForExitOrKill(c))
          /\ WF_vars(KillStart(c)) /\ WF_vars(KillWait(c))
          /\ WF_vars(LockRequest(c))
          /\ WF_vars(WriteRequest(c) \/ ReadLine(c) \/ ReadEof(c))
    /\ WF_vars(Drop)
    /\ WF_vars(worker.state = "terminating" /\ Die)

FairSpec == Spec /\ Fairness

-----------------------------------------------------------------------------
(* Properties *)

\* A call that succeeds does so on the result the worker gave to that very
\* request, whatever was left on stdout by requests that failed before it
\* (worker.rs, the comparison of response ids).
OwnResult ==
    \A c \in Calls \ Closes : call[c].result = "ok" /\ c # "kill" => req[c].id \in answered

\* Unless a line that is no frame broke the sequence, a request reads only
\* frames of its own: its event sink gets no event of another command and its
\* response is not taken by another request (worker.rs, request_lock held until
\* the response is read, also by a thread that its caller gave up on).
OwnFrames ==
    emitted.garbage = 0 =>
        \A c \in Calls : req[c].pc = "read" =>
            \A i \in DOMAIN stdout : stdout[i].id = req[c].id

\* Requests are kept apart on the pipes, whoever gave up on one before.
PipeInv == TypeOK /\ OwnResult /\ OwnFrames

\* After close has returned there is no worker process, unless an operating
\* system call failed; when it returned Ok there is none in any case.
CloseLeavesNoProcess ==
    \A c \in Closes :
        call[c].pc = "done" /\ (call[c].result = "ok" \/ failures = 0) => Exited

\* Every close returns, also behind an execute that never ends, also when the
\* worker does not answer it or does not exit.
CloseReturns == \A c \in Closes : Active(c) ~> call[c].pc = "done"

\* Once a close has returned, every request ends and lets go of request_lock:
\* the kill ends the read of a request thread that its caller gave up on.
CloseFreesRequests ==
    \A c \in Closes :
        call[c].pc = "done" /\ failures = 0 ~>
            failures > 0 \/ \A d \in Calls : req[d].pc \in {None, "done"}

\* Once nobody refers to the worker its process ends, closed or not.
DropEndsProcess == owner # "held" /\ failures = 0 ~> failures > 0 \/ Exited

\* What was begun ends: the close, the requests behind it, the process.
WorkerEnds == CloseReturns /\ CloseFreesRequests /\ DropEndsProcess
=============================================================================
