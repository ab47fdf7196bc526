---------------------------- MODULE DbgEngBackend ----------------------------
(***************************************************************************)
(* The DbgEng backend inside a worker process                              *)
(* (crates/dbgflow-debug/src/backend/dbgeng/mod.rs): a thread per session  *)
(* that opens the target and then serves commands, one lock around every   *)
(* use of the engine, startups that can be canceled, and a close that      *)
(* waits 10 seconds for its reply.  The engine is external: WaitForEvent   *)
(* and a command may take forever; an interrupt ends the present or, being *)
(* kept by the engine, the next WaitForEvent.                              *)
(***************************************************************************)
EXTENDS Naturals, Sequences

CONSTANTS
    Sessions,   \* backend session ids, one per call of create_session
    Closers,    \* calls of close_session
    Used,       \* bound: the sessions that are canceled, run commands and are
                \*   closed; the others open and compete for the engine lock
    NoSession

ASSUME BackendAssumption == NoSession \notin Sessions /\ Used \subseteq Sessions

VARIABLES
    create,     \* per session, the call of create_session
    thread,     \* per session, the place of worker_main
    pending,    \* pending_startups
    sessions,   \* the sessions map
    cancel,     \* per session, StartupCancellation and the call of cancel_startup
    interrupt,  \* sessions whose engine keeps an interrupt (external)
    engineLock, \* global_dbgeng_lock
    queue,      \* per session, the commands sent to its thread
    exec,       \* per session, the call of execute
    close,      \* per closer, the call of close_session
    process,    \* per session, the process it launched (external)
    unkillable  \* history: sessions whose process could not be terminated

vars == <<create, thread, pending, sessions, cancel, interrupt,
          engineLock, queue, exec, close, process, unkillable>>

Startup == {"check", "lock", "engine", "install", "open", "check2", "wait", "cleanup"}
Places == Startup \cup {"none", "serve", "execlock", "exec", "execwait",
                        "closelock", "leaving", "gone"}
Outcome == {"none", "ok", "err"}

Creates == [pc : {"idle", "recv", "insert", "done"}, init : Outcome, result : Outcome]
Cancels == [requested : BOOLEAN, installed : BOOLEAN,
            pc : {"idle", "interrupt", "done", "failed"}]
Executes == [pc : {"idle", "recv", "done"}, result : Outcome]
Closes == [pc : {"idle", "recv", "remove", "join", "done"},
           session : Sessions \cup {NoSession}, reply : Outcome, result : Outcome]

\* Calls, threads, maps, the lock and what the operating system keeps.
TypeOK ==
    /\ create \in [Sessions -> Creates]
    /\ thread \in [Sessions -> Places]
    /\ pending \subseteq Sessions /\ sessions \subseteq Sessions
    /\ cancel \in [Sessions -> Cancels]
    /\ interrupt \subseteq Sessions
    /\ engineLock \in Sessions \cup {NoSession}
    /\ queue \in [Sessions -> Seq({"execute"} \cup Closers)]
    /\ exec \in [Sessions -> Executes]
    /\ close \in [Closers -> Closes]
    /\ process \in [Sessions -> {"none", "suspended", "running", "dead"}]
    /\ unkillable \subseteq Sessions

Init ==
    /\ create = [s \in Sessions |-> [pc |-> "idle", init |-> "none", result |-> "none"]]
    /\ thread = [s \in Sessions |-> "none"]
    /\ pending = {} /\ sessions = {}
    /\ cancel = [s \in Sessions |-> [requested |-> FALSE, installed |-> FALSE, pc |-> "idle"]]
    /\ interrupt = {}
    /\ engineLock = NoSession
    /\ queue = [s \in Sessions |-> <<>>]
    /\ exec = [s \in Sessions |-> [pc |-> "idle", result |-> "none"]]
    /\ close = [c \in Closers |-> [pc |-> "idle", session |-> NoSession,
                                   reply |-> "none", result |-> "none"]]
    /\ process = [s \in Sessions |-> "none"]
    /\ unkillable = {}

calls == <<create, exec, close>>
system == <<process, unkillable>>

Goto(s, place) == thread' = [thread EXCEPT ![s] = place]
Unlock == engineLock' = NoSession

-----------------------------------------------------------------------------
(* create_session: the caller *)

CreateSession(s) ==
    /\ create[s].pc = "idle"
    /\ create' = [create EXCEPT ![s].pc = "recv"]
    /\ pending' = pending \cup {s}
    /\ Goto(s, "check")
    /\ UNCHANGED <<sessions, cancel, interrupt, engineLock, queue, exec, close, system>>

CreateReceive(s) ==
    /\ create[s].pc = "recv" /\ create[s].init # "none"
    /\ pending' = pending \ {s}
    /\ create' = IF create[s].init = "ok"
                   THEN [create EXCEPT ![s].pc = "insert"]
                   ELSE [create EXCEPT ![s].pc = "done", ![s].result = "err"]
    /\ UNCHANGED <<thread, sessions, cancel, interrupt, engineLock, queue,
                   exec, close, system>>

CreateInsert(s) ==
    /\ create[s].pc = "insert"
    /\ sessions' = sessions \cup {s}
    /\ create' = [create EXCEPT ![s].pc = "done", ![s].result = create[s].init]
    /\ UNCHANGED <<thread, pending, cancel, interrupt, engineLock, queue,
                   exec, close, system>>

-----------------------------------------------------------------------------
(* cancel_startup and cancel_session *)

\* StartupCancellation::cancel, under its mutex.  (Mutant: the interrupt is
\* read first, the request is noted when the mutex is taken again.)
CancelReadsFirst(s) ==
    /\ s \in pending \cap Used /\ cancel[s].pc = "idle"
    /\ cancel' = [cancel EXCEPT ![s].pc = IF cancel[s].installed THEN "interrupt" ELSE "done"]
    /\ UNCHANGED <<thread, pending, sessions, interrupt, engineLock, queue,
                   calls, system>>
Cancel(s) ==
    /\ s \in pending \cap Used /\ cancel[s].pc = "idle"
    /\ cancel' = [cancel EXCEPT ![s].requested = TRUE,
                                ![s].pc = IF cancel[s].installed THEN "interrupt" ELSE "done"]
    /\ UNCHANGED <<thread, pending, sessions, interrupt, engineLock, queue,
                   calls, system>>

\* SetInterrupt may fail, and the request stays noted.
CancelInterrupt(s) ==
    /\ cancel[s].pc = "interrupt"
    /\ \/ /\ interrupt' = interrupt \cup {s}
          /\ cancel' = [cancel EXCEPT ![s].pc = "done", ![s].requested = TRUE]
       \/ /\ UNCHANGED interrupt
          /\ cancel' = [cancel EXCEPT ![s].pc = "failed", ![s].requested = TRUE]
    /\ UNCHANGED <<thread, pending, sessions, engineLock, queue, calls, system>>

\* A SetInterrupt that fails here changes nothing.
CancelSession(s) ==
    /\ s \in sessions \cap Used
    /\ interrupt' = interrupt \cup {s}
    /\ UNCHANGED <<thread, pending, sessions, cancel, engineLock, queue,
                   calls, system>>

-----------------------------------------------------------------------------
(* worker_main: open_target *)

\* The thread ends and its queue is dropped with it.
InitFails(s) ==
    /\ create' = [create EXCEPT ![s].init = "err"]
    /\ Goto(s, "gone")

CheckCanceled(s) ==
    /\ thread[s] = "check"
    /\ IF cancel[s].requested THEN InitFails(s) ELSE Goto(s, "lock") /\ UNCHANGED create
    /\ UNCHANGED <<pending, sessions, cancel, interrupt, engineLock, queue,
                   exec, close, system>>

LockEngine(s) ==
    /\ thread[s] = "lock" /\ engineLock = NoSession
    /\ engineLock' = s /\ Goto(s, "engine")
    /\ UNCHANGED <<pending, sessions, cancel, interrupt, queue, calls, system>>

\* resolve_dbgeng, LoadedDbgEng::load, debug_create, set_symbol_path_wide.
LoadEngine(s) ==
    /\ thread[s] = "engine"
    /\ \/ Goto(s, "install") /\ UNCHANGED <<create, engineLock>>
       \/ InitFails(s) /\ Unlock
    /\ UNCHANGED <<pending, sessions, cancel, interrupt, queue, exec, close, system>>

InstallInterrupt(s) ==
    /\ thread[s] = "install"
    /\ cancel' = [cancel EXCEPT ![s].installed = TRUE]
    /\ IF cancel[s].requested
         THEN InitFails(s) /\ Unlock
         ELSE Goto(s, "open") /\ UNCHANGED <<create, engineLock>>
    /\ UNCHANGED <<pending, sessions, interrupt, queue, exec, close, system>>

\* terminate may fail, of a process that has been launched.
Terminate(s) ==
    \/ process' = [process EXCEPT ![s] = "dead"] /\ UNCHANGED unkillable
    \/ unkillable' = unkillable \cup {s} /\ UNCHANGED process

\* create_suspended_process, attach_process, resume: a process that was not
\* attached or not resumed is killed when LaunchedProcess is dropped, a
\* resumed one belongs to the session.
LaunchTarget(s) ==
    \/ Goto(s, "cleanup") /\ UNCHANGED system
    \/ Goto(s, "check2") /\ process' = [process EXCEPT ![s] = "running"] /\ UNCHANGED unkillable
    \/ Goto(s, "cleanup") /\ process' = [process EXCEPT ![s] = "dead"] /\ UNCHANGED unkillable
    \/ Goto(s, "cleanup") /\ process' = [process EXCEPT ![s] = "suspended"]
                          /\ unkillable' = unkillable \cup {s}

\* SetOutputCallbacksWide, check_canceled, then by the kind of the target, which
\* matters here only: a dump, a process to attach to, or one to launch.
OpenTarget(s) ==
    /\ thread[s] = "open"
    /\ \/ Goto(s, "cleanup") /\ UNCHANGED system
       \/ /\ ~cancel[s].requested
          /\ \/ LaunchTarget(s)
             \/ Goto(s, "check2") /\ UNCHANGED system
    /\ UNCHANGED <<pending, sessions, cancel, interrupt, engineLock, queue, calls>>

CheckAgain(s) ==
    /\ thread[s] = "check2"
    /\ Goto(s, IF cancel[s].requested THEN "cleanup" ELSE "wait")
    /\ UNCHANGED <<pending, sessions, cancel, interrupt, engineLock, queue,
                   calls, system>>

\* WaitForEvent with no timeout: the first event, or an error.
FirstEvent(s) ==
    /\ thread[s] = "wait"
    /\ \/ /\ Goto(s, "serve") /\ Unlock
          /\ create' = [create EXCEPT ![s].init = "ok"]
       \/ Goto(s, "cleanup") /\ UNCHANGED <<create, engineLock>>
    /\ UNCHANGED <<pending, sessions, cancel, interrupt, queue, exec, close, system>>

WaitInterrupted(s) ==
    /\ thread[s] = "wait" /\ s \in interrupt
    /\ interrupt' = interrupt \ {s}
    /\ Goto(s, "cleanup")
    /\ UNCHANGED <<pending, sessions, cancel, engineLock, queue, calls, system>>

\* cleanup_open_target_failure: a launched process is terminated before the
\* engine lets go of it.  (Mutant: it is not.)
CleanupDetaches(s) ==
    /\ thread[s] = "cleanup"
    /\ UNCHANGED system
    /\ InitFails(s) /\ Unlock
    /\ UNCHANGED <<pending, sessions, cancel, interrupt, queue, exec, close>>
Cleanup(s) ==
    /\ thread[s] = "cleanup"
    /\ IF process[s] = "running" THEN Terminate(s) ELSE UNCHANGED system
    /\ InitFails(s) /\ Unlock
    /\ UNCHANGED <<pending, sessions, cancel, interrupt, queue, exec, close>>

-----------------------------------------------------------------------------
(* worker_main: commands *)

TakeCommand(s) ==
    /\ thread[s] = "serve" /\ queue[s] # <<>>
    /\ Goto(s, IF Head(queue[s]) = "execute" THEN "execlock" ELSE "closelock")
    /\ UNCHANGED <<pending, sessions, cancel, interrupt, engineLock, queue,
                   calls, system>>

LockForCommand(s) ==
    /\ thread[s] = "execlock" /\ engineLock = NoSession
    /\ engineLock' = s /\ Goto(s, "exec")
    /\ UNCHANGED <<pending, sessions, cancel, interrupt, queue, calls, system>>

Reply(s, result) ==
    /\ exec' = [exec EXCEPT ![s].pc = "done", ![s].result = result]
    /\ queue' = [queue EXCEPT ![s] = Tail(@)]
    /\ Goto(s, "serve") /\ Unlock

\* ExecuteWide fails, leaves the target stopped or gone, or sets it running.
ExecuteWide(s) ==
    /\ thread[s] = "exec"
    /\ \/ \E result \in {"ok", "err"} : Reply(s, result)
       \/ Goto(s, "execwait") /\ UNCHANGED <<exec, queue, engineLock>>
    /\ UNCHANGED <<pending, sessions, cancel, interrupt, create, close, system>>

\* wait_for_execution_event: an event, the end of the target, an error.
NextEvent(s) ==
    /\ thread[s] = "execwait"
    /\ \E result \in {"ok", "err"} : Reply(s, result)
    /\ interrupt' \in {interrupt, interrupt \ {s}}
    /\ UNCHANGED <<pending, sessions, cancel, create, close, system>>

\* EndSession leaves the target running; then the reply, and the thread ends.
EndSession(s) ==
    /\ thread[s] = "closelock" /\ engineLock = NoSession
    /\ \E result \in {"ok", "err"} :
          close' = [close EXCEPT ![Head(queue[s])].reply =
                       IF close[Head(queue[s])].pc = "recv" THEN result ELSE @]
    /\ queue' = [queue EXCEPT ![s] = Tail(@)]
    /\ Goto(s, "leaving")
    /\ UNCHANGED <<pending, sessions, cancel, interrupt, engineLock, create, exec, system>>

Leave(s) ==
    /\ thread[s] = "leaving"
    /\ Goto(s, "gone")
    /\ UNCHANGED <<pending, sessions, cancel, interrupt, engineLock, queue,
                   calls, system>>

-----------------------------------------------------------------------------
(* execute and close_session: the callers *)

Execute(s) ==
    /\ s \in sessions \cap Used /\ exec[s].pc = "idle"
    /\ IF thread[s] = "gone"
         THEN exec' = [exec EXCEPT ![s] = [pc |-> "done", result |-> "err"]] /\ UNCHANGED queue
         ELSE /\ exec' = [exec EXCEPT ![s].pc = "recv"]
              /\ queue' = [queue EXCEPT ![s] = Append(@, "execute")]
    /\ UNCHANGED <<thread, pending, sessions, cancel, interrupt, engineLock,
                   create, close, system>>

\* The thread has gone with the command in its queue.
ExecuteDropped(s) ==
    /\ exec[s].pc = "recv" /\ thread[s] = "gone"
    /\ exec' = [exec EXCEPT ![s] = [pc |-> "done", result |-> "err"]]
    /\ UNCHANGED <<thread, pending, sessions, cancel, interrupt, engineLock,
                   queue, create, close, system>>

\* A session that is not in the map is refused: not a step.
Close(c, s) ==
    /\ s \in sessions \cap Used /\ close[c].pc = "idle"
    /\ IF thread[s] = "gone"
         THEN /\ close' = [close EXCEPT ![c] = [pc |-> "remove", session |-> s,
                                                reply |-> "err", result |-> "none"]]
              /\ UNCHANGED queue
         ELSE /\ close' = [close EXCEPT ![c] = [pc |-> "recv", session |-> s,
                                                reply |-> "none", result |-> "none"]]
              /\ queue' = [queue EXCEPT ![s] = Append(@, c)]
    /\ UNCHANGED <<thread, pending, sessions, cancel, interrupt, engineLock,
                   create, exec, system>>

CloseReceive(c) ==
    /\ close[c].pc = "recv" /\ close[c].reply # "none"
    /\ close' = [close EXCEPT ![c].pc = "remove"]
    /\ UNCHANGED <<thread, pending, sessions, cancel, interrupt, engineLock,
                   queue, create, exec, system>>

\* CLOSE_REPLY_TIMEOUT, or the thread ended without a reply: the handle is
\* forgotten.  (Mutant: there is no timeout.)
CloseDisconnected(c) ==
    /\ close[c].pc = "recv" /\ close[c].reply = "none"
    /\ thread[close[c].session] = "gone"
    /\ close' = [close EXCEPT ![c].pc = "done", ![c].result = "err"]
    /\ sessions' = sessions \ {close[c].session}
    /\ UNCHANGED <<thread, pending, cancel, interrupt, engineLock, queue,
                   create, exec, system>>
CloseTimeout(c) ==
    /\ close[c].pc = "recv" /\ close[c].reply = "none"
    /\ close' = [close EXCEPT ![c].pc = "done", ![c].result = "err"]
    /\ sessions' = sessions \ {close[c].session}
    /\ UNCHANGED <<thread, pending, cancel, interrupt, engineLock, queue,
                   create, exec, system>>

\* remove_worker_handle, which another closer may have done.
CloseRemove(c) ==
    /\ close[c].pc = "remove"
    /\ sessions' = sessions \ {close[c].session}
    /\ close' = IF close[c].session \in sessions
                  THEN [close EXCEPT ![c].pc = "join"]
                  ELSE [close EXCEPT ![c].pc = "done", ![c].result = "err"]
    /\ UNCHANGED <<thread, pending, cancel, interrupt, engineLock, queue,
                   create, exec, system>>

CloseJoin(c) ==
    /\ close[c].pc = "join" /\ thread[close[c].session] = "gone"
    /\ close' = [close EXCEPT ![c].pc = "done", ![c].result = close[c].reply]
    /\ UNCHANGED <<thread, pending, sessions, cancel, interrupt, engineLock,
                   queue, create, exec, system>>

-----------------------------------------------------------------------------
Open(s) ==
    \/ CheckCanceled(s) \/ LockEngine(s) \/ LoadEngine(s) \/ InstallInterrupt(s)
    \/ OpenTarget(s) \/ CheckAgain(s) \/ WaitInterrupted(s) \/ Cleanup(s)
Serve(s) == TakeCommand(s) \/ LockForCommand(s) \/ EndSession(s) \/ Leave(s)
Caller(s) ==
    \/ CreateReceive(s) \/ CreateInsert(s) \/ CancelInterrupt(s) \/ ExecuteDropped(s)
Closer(c) == CloseReceive(c) \/ CloseTimeout(c) \/ CloseRemove(c) \/ CloseJoin(c)

Next ==
    \/ \E s \in Sessions :
          \/ CreateSession(s) \/ Open(s) \/ FirstEvent(s) \/ Serve(s) \/ ExecuteWide(s) \/ NextEvent(s)
          \/ Caller(s) \/ Cancel(s) \/ CancelSession(s) \/ Execute(s)
          \/ \E c \in Closers : Close(c, s)
    \/ \E c \in Closers : Closer(c)

Spec == Init /\ [][Next]_vars

\* Threads run, and the engine answers every call but WaitForEvent and a
\* command.
Fairness ==
    /\ \A s \in Sessions : WF_vars(Open(s)) /\ WF_vars(Serve(s)) /\ WF_vars(Caller(s))
    /\ \A c \in Closers : WF_vars(Closer(c))

FairSpec == Spec /\ Fairness

-----------------------------------------------------------------------------
(* Properties *)

\* A create_session that failed leaves no process behind, neither suspended nor
\* running, wherever it failed and however it was canceled, unless the process
\* could not be terminated (mod.rs, LaunchedProcess::drop and
\* cleanup_open_target_failure).
FailedOpenLeavesNoProcess ==
    \A s \in Sessions :
        create[s].result = "err" /\ s \notin unkillable => process[s] \in {"none", "dead"}

\* The sessions map holds a session from when its startup succeeded until a
\* close of it returned, whatever that close returned, and until a close
\* begins the session has a thread that serves it (mod.rs, create_session and
\* close_session).
MapFollowsThreads ==
    /\ \A s \in sessions :
          /\ create[s].result = "ok"
          /\ thread[s] \in {"leaving", "gone"} =>
                \E c \in Closers : close[c].session = s /\ close[c].pc # "done"
    /\ \A c \in Closers : close[c].pc = "done" => close[c].session \notin sessions

\* What exists of a session (process, thread, entry in the map) is what its
\* calls of create_session and close_session said.
SessionInv == TypeOK /\ FailedOpenLeavesNoProcess /\ MapFollowsThreads

\* A startup whose cancel returned success ends, however the cancel meets the
\* installation of the interrupt and the wait for the first event, unless it is
\* still queueing for the engine lock (mod.rs, StartupCancellation).
CancelEndsStartup ==
    \A s \in Sessions :
        cancel[s].pc = "done" ~>
            create[s].pc = "done" \/ (thread[s] = "lock" /\ engineLock # NoSession)

\* Every close returns, also when the session's thread never comes back from
\* the engine.
CloseReturns == \A c \in Closers : close[c].pc # "idle" ~> close[c].pc = "done"
=============================================================================
