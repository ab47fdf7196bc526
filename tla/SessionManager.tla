--------------------------- MODULE SessionManager ---------------------------
(***************************************************************************)
(* The debug session manager (crates/dbgflow-debug/src/session): the       *)
(* session table, the per-session operation lock, the worker registry, and *)
(* the threads that share them:                                            *)
(*                                                                         *)
(*   - one thread per MCP call (Clients): create_session, close_session,   *)
(*     eval;                                                               *)
(*   - one startup thread per session (spawn_worker_startup);              *)
(*   - one close thread per accepted close_session (spawned by a client);  *)
(*   - one monitor thread per started session (spawn_worker_monitor).      *)
(*                                                                         *)
(* One action is one critical section of the code: what happens between    *)
(* two acquisitions of the sessions mutex, the registry mutex or the       *)
(* operation lock.  The worker is seen through the SessionWorker trait: a  *)
(* process that is alive or has exited, whose calls return Ok or Err.      *)
(***************************************************************************)
EXTENDS Naturals

CONSTANTS
    Sessions,    \* session ids; one is used up by every session created
    Targets,     \* validated (canonical) debug targets
    Clients,     \* threads that serve MCP calls
    Ops,         \* command ids; one is used up by every eval call (bound)
    NoOp, NoSession, NoTarget,
    OsMayFail    \* may terminating or polling a worker process fail?

ASSUME ConstantsAssumption ==
    /\ NoOp \notin Ops
    /\ NoSession \notin Sessions
    /\ NoTarget \notin Targets
    /\ OsMayFail \in BOOLEAN

VARIABLES
    \* -- the sessions map: Arc<Mutex<HashMap<SessionId, Session>>>
    state,       \* Session.state, "Absent" before the session is inserted
    target,      \* Session.target
    current,     \* Session.current_operation
    last,        \* Session.last_operation (its command id)
    opStatus,    \* OperationSummary.status, by command id
    \* -- operation_locks
    lock,        \* holder of the operation lock; <<"missing">> before insert
    \* -- WorkerRegistry
    reg,         \* workers.contains_key
    cancel,      \* cancel_requested.contains
    \* -- the worker process of the session
    proc,
    \* -- threads
    startup,     \* pc of the startup thread
    monitor,     \* pc of the monitor thread
    pc, cs, cop, \* pc of a client call, its session, its command id
    hw,          \* close_session: has_worker as read
    snap,        \* eval: the state to store, read or received earlier
    fin,         \* eval: how the operation ends
    kpc, ks,     \* pc and session of the close thread a client spawned
    \* -- audit trail and history
    opSession,   \* the session a command id was issued for
    sent,        \* command ids handed to a worker
    records,     \* number of commands.jsonl records, by command id
    abandoned    \* sessions that close_session made Closed under a running eval

sessionVars == <<state, target, current, last, opStatus>>
regVars     == <<reg, cancel>>
clientVars  == <<pc, cs, cop, hw, snap, fin>>
closerVars  == <<kpc, ks>>
auditVars   == <<opSession, sent, records>>
vars == <<sessionVars, lock, regVars, proc, startup, monitor, clientVars,
          closerVars, auditVars, abandoned>>

-----------------------------------------------------------------------------
(* Types *)

SessionState == {"Created", "Starting", "Ready", "Break", "Running",
                 "Closing", "Closed", "Error"}
OperationStatus == {"Running", "CancelRequested", "Canceled", "Finished",
                    "Failed"}
ExecutionState == {"Break", "Running", "Closed"}

is_terminal(st) == st \in {"Closed", "Error"}
is_reusable(st) == st \in {"Created", "Starting", "Ready", "Break", "Running"}

EvalLocked == {"eval_query", "eval_worker", "eval_start", "eval_send",
               "eval_wait", "eval_ran", "eval_last", "eval_requery",
               "eval_finish"}
ClientPC == {"idle", "create_locks", "close_mark", "close_cancel",
             "close_kill", "close_spawn", "eval_lock"} \cup EvalLocked
StartupHolds == {"spawn", "insert", "check", "cancel", "kill", "create",
                 "finish", "spawn_monitor", "late_closing", "late_terminal",
                 "close_closing", "close_terminal", "close_ok", "close_err",
                 "fail_remove", "fail_kill", "fail_update"}
StartupPC == {"off", "lock", "done"} \cup StartupHolds
CloserLocked == {"remove", "close_worker", "finish_ok", "finish_err"}
CloserPC == {"idle", "wait", "timeout_cancel", "timeout_kill",
             "timeout_remove", "timeout_finish"} \cup CloserLocked
Holder == {<<"missing">>, <<"free">>, <<"startup">>}
            \cup ({"eval", "closer"} \X Clients)

SessionTypeOK ==
    /\ state \in [Sessions -> SessionState \cup {"Absent"}]
    /\ target \in [Sessions -> Targets \cup {NoTarget}]
    /\ current \in [Sessions -> {"none", "create_session", "eval"}]
    /\ last \in [Sessions -> Ops \cup {NoOp}]
    /\ opStatus \in [Ops -> OperationStatus \cup {"None"}]
WorkerTypeOK ==
    /\ lock \in [Sessions -> Holder]
    /\ reg \in [Sessions -> BOOLEAN]
    /\ cancel \in [Sessions -> BOOLEAN]
    /\ proc \in [Sessions -> {"none", "alive", "exited"}]
    /\ startup \in [Sessions -> StartupPC]
    /\ monitor \in [Sessions -> {"off", "poll", "remove", "done"}]
ClientTypeOK ==
    /\ pc \in [Clients -> ClientPC]
    /\ cs \in [Clients -> Sessions \cup {NoSession}]
    /\ cop \in [Clients -> Ops \cup {NoOp}]
    /\ hw \in [Clients -> BOOLEAN]
    /\ snap \in [Clients -> SessionState \cup {"Absent"}]
    /\ fin \in [Clients -> {"Finished", "Failed", "Lost"}]
CloserTypeOK ==
    /\ kpc \in [Clients -> CloserPC]
    /\ ks \in [Clients -> Sessions \cup {NoSession}]
AuditTypeOK ==
    /\ opSession \in [Ops -> Sessions \cup {NoSession}]
    /\ sent \in SUBSET Ops
    /\ records \in [Ops -> Nat]
    /\ abandoned \in SUBSET Sessions

\* The shape of the state, by owner.
TypeOK ==
    /\ SessionTypeOK
    /\ WorkerTypeOK
    /\ ClientTypeOK
    /\ CloserTypeOK
    /\ AuditTypeOK

Init ==
    /\ state = [s \in Sessions |-> "Absent"]
    /\ target = [s \in Sessions |-> NoTarget]
    /\ current = [s \in Sessions |-> "none"]
    /\ last = [s \in Sessions |-> NoOp]
    /\ opStatus = [o \in Ops |-> "None"]
    /\ lock = [s \in Sessions |-> <<"missing">>]
    /\ reg = [s \in Sessions |-> FALSE]
    /\ cancel = [s \in Sessions |-> FALSE]
    /\ proc = [s \in Sessions |-> "none"]
    /\ startup = [s \in Sessions |-> "off"]
    /\ monitor = [s \in Sessions |-> "off"]
    /\ pc = [c \in Clients |-> "idle"]
    /\ cs = [c \in Clients |-> NoSession]
    /\ cop = [c \in Clients |-> NoOp]
    /\ hw = [c \in Clients |-> FALSE]
    /\ snap = [c \in Clients |-> "Absent"]
    /\ fin = [c \in Clients |-> "Failed"]
    /\ kpc = [c \in Clients |-> "idle"]
    /\ ks = [c \in Clients |-> NoSession]
    /\ opSession = [o \in Ops |-> NoSession]
    /\ sent = {}
    /\ records = [o \in Ops |-> 0]
    /\ abandoned = {}
-----------------------------------------------------------------------------
(* Pieces shared by several threads *)

\* A client call returns; its locals are forgotten.
Return(c) ==
    /\ pc' = [pc EXCEPT ![c] = "idle"]
    /\ cs' = [cs EXCEPT ![c] = NoSession]
    /\ cop' = [cop EXCEPT ![c] = NoOp]
    /\ hw' = [hw EXCEPT ![c] = FALSE]
    /\ snap' = [snap EXCEPT ![c] = "Absent"]
    /\ fin' = [fin EXCEPT ![c] = "Failed"]

\* Taking the operation lock of a session.
\* (Mutant: the lock is not exclusive.)
lock_operation_shared(s, holder) == lock' = [lock EXCEPT ![s] = holder]
lock_operation(s, holder) ==
    /\ lock[s] = <<"free">>
    /\ lock' = [lock EXCEPT ![s] = holder]

\* WorkerRegistry::remove
remove_worker(s) ==
    /\ reg' = [reg EXCEPT ![s] = FALSE]
    /\ cancel' = [cancel EXCEPT ![s] = FALSE]

\* The registry half of WorkerRegistry::kill_once: does the caller go on to
\* kill?  The kill itself runs after the registry mutex is released.
kill_once_hits(s) == ~cancel[s] /\ reg[s]
kill_once(s) ==
    cancel' = IF kill_once_hits(s) THEN [cancel EXCEPT ![s] = TRUE] ELSE cancel

\* SessionWorker::kill: terminates and waits, or reports an error.
kill(s) ==
    \/ proc' = [proc EXCEPT ![s] = "exited"]
    \/ OsMayFail /\ proc[s] = "alive" /\ UNCHANGED proc

\* SessionWorker::close: Ok means that the process is gone; on Err it was
\* killed, as far as the OS allows, or could not even be polled.
close_ok(s) == proc' = [proc EXCEPT ![s] = "exited"]
close_err(s) ==
    \/ proc[s] = "alive" /\ kill(s)
    \/ OsMayFail /\ UNCHANGED proc

\* finalize_canceled_operation, and the command record its callers write
\* when it finalizes an operation.
finalize_canceled_operation(s, status) ==
    IF /\ last[s] # NoOp
       /\ opStatus[last[s]] \in {"Running", "CancelRequested"}
    THEN /\ opStatus' = [opStatus EXCEPT ![last[s]] = status]
         /\ records' = [records EXCEPT ![last[s]] = @ + 1]
    ELSE UNCHANGED <<opStatus, records>>

\* The critical section of finish_worker_close on the sessions map.
finish_worker_close(s, ok) ==
    /\ finalize_canceled_operation(s, IF ok THEN "Canceled" ELSE "Failed")
    /\ state' = [state EXCEPT ![s] = IF ok THEN "Closed" ELSE "Error"]
    /\ current' = [current EXCEPT ![s] = "none"]
    /\ UNCHANGED <<target, last, opSession, sent>>

-----------------------------------------------------------------------------
(* create_session *)

\* The sessions create_session would return for a target.
reusable(t) == {r \in Sessions : target[r] = t /\ is_reusable(state[r])}

\* Get-or-create under the sessions mutex.  A reusable session of the target
\* is returned as it is, so that branch changes nothing and is not a step.
CreateSession(c, t, s) ==
    /\ pc[c] = "idle"
    /\ state[s] = "Absent"
    /\ reusable(t) = {}
    /\ state' = [state EXCEPT ![s] = "Starting"]
    /\ target' = [target EXCEPT ![s] = t]
    /\ current' = [current EXCEPT ![s] = "create_session"]
    /\ pc' = [pc EXCEPT ![c] = "create_locks"]
    /\ cs' = [cs EXCEPT ![c] = s]
    /\ UNCHANGED <<last, opStatus, lock, regVars, proc, startup, monitor,
                   cop, hw, snap, fin, closerVars, auditVars, abandoned>>

\* The operation lock is inserted in a second critical section; then the
\* startup thread is spawned.
CreateLocks(c) ==
    /\ pc[c] = "create_locks"
    /\ lock' = [lock EXCEPT ![cs[c]] = <<"free">>]
    /\ startup' = [startup EXCEPT ![cs[c]] = "lock"]
    /\ Return(c)
    /\ UNCHANGED <<sessionVars, regVars, proc, monitor, closerVars, auditVars,
                   abandoned>>

-----------------------------------------------------------------------------
(* close_session *)

\* Looks up the operation lock (absent: SessionNotFound) and reads has_worker
\* before it takes the sessions mutex.  Bound: one close thread per client.
CloseSession(c, s) ==
    /\ pc[c] = "idle"
    /\ kpc[c] = "idle"
    /\ lock[s] # <<"missing">>
    /\ pc' = [pc EXCEPT ![c] = "close_mark"]
    /\ cs' = [cs EXCEPT ![c] = s]
    /\ hw' = [hw EXCEPT ![c] = reg[s]]
    /\ UNCHANGED <<sessionVars, lock, regVars, proc, startup, monitor, cop,
                   snap, fin, closerVars, auditVars, abandoned>>

\* Closed: Err(SessionClosed); Closing: Ok(session).  Nothing else happens.
CloseNothing(c) ==
    /\ pc[c] = "close_mark"
    /\ state[cs[c]] \in {"Closed", "Closing"}
    /\ Return(c)
    /\ UNCHANGED <<sessionVars, lock, regVars, proc, startup, monitor,
                   closerVars, auditVars, abandoned>>

CloseMark(c) ==
    LET s == cs[c]
        should_cancel == current[s] # "none"
    IN  /\ pc[c] = "close_mark"
        /\ state[s] \notin {"Closed", "Closing"}
        /\ state' = [state EXCEPT ![s] =
                        IF hw[c] \/ should_cancel THEN "Closing" ELSE "Closed"]
        /\ current' = [current EXCEPT ![s] = "none"]
        /\ opStatus' = IF /\ should_cancel
                          /\ last[s] # NoOp
                          /\ opStatus[last[s]] = "Running"
                       THEN [opStatus EXCEPT ![last[s]] = "CancelRequested"]
                       ELSE opStatus
        /\ \/ /\ should_cancel \/ hw[c]
              /\ pc' = [pc EXCEPT ![c] = IF should_cancel THEN "close_cancel"
                                                          ELSE "close_spawn"]
              /\ UNCHANGED <<cs, cop, hw, snap, fin>>
              /\ UNCHANGED abandoned
           \/ /\ ~(should_cancel \/ hw[c])
              /\ Return(c)
              /\ abandoned' = IF \E d \in Clients : lock[s] = <<"eval", d>>
                              THEN abandoned \cup {s} ELSE abandoned
        /\ UNCHANGED <<target, last, lock, regVars, proc, startup,
                       monitor, closerVars, auditVars>>

CloseCancel(c) ==
    /\ pc[c] = "close_cancel"
    /\ kill_once(cs[c])
    /\ pc' = [pc EXCEPT ![c] = IF kill_once_hits(cs[c]) THEN "close_kill"
                                                        ELSE "close_spawn"]
    /\ UNCHANGED <<sessionVars, lock, reg, proc, startup, monitor, cs, cop, hw,
                   snap, fin, closerVars, auditVars, abandoned>>

CloseKill(c) ==
    /\ pc[c] = "close_kill"
    /\ kill(cs[c])
    /\ pc' = [pc EXCEPT ![c] = "close_spawn"]
    /\ UNCHANGED <<sessionVars, lock, regVars, startup, monitor, cs, cop, hw,
                   snap, fin, closerVars, auditVars, abandoned>>

\* The close thread.  (Mutant: only spawned if there was a worker.)
CloseSpawnForWorker(c) ==
    /\ pc[c] = "close_spawn"
    /\ kpc' = IF hw[c] THEN [kpc EXCEPT ![c] = "wait"] ELSE kpc
    /\ ks' = IF hw[c] THEN [ks EXCEPT ![c] = cs[c]] ELSE ks
    /\ Return(c)
    /\ UNCHANGED <<sessionVars, lock, regVars, proc, startup, monitor,
                   auditVars, abandoned>>
CloseSpawn(c) ==
    /\ pc[c] = "close_spawn"
    /\ kpc' = [kpc EXCEPT ![c] = "wait"]
    /\ ks' = [ks EXCEPT ![c] = cs[c]]
    /\ Return(c)
    /\ UNCHANGED <<sessionVars, lock, regVars, proc, startup, monitor,
                   auditVars, abandoned>>

-----------------------------------------------------------------------------
(* The close thread *)

KGoto(c, label) == kpc' = [kpc EXCEPT ![c] = label] /\ UNCHANGED ks
KExit(c) ==
    /\ kpc' = [kpc EXCEPT ![c] = "idle"]
    /\ ks' = [ks EXCEPT ![c] = NoSession]

CloserLock(c) ==
    /\ kpc[c] = "wait"
    /\ lock_operation(ks[c], <<"closer", c>>)
    /\ KGoto(c, "remove")
    /\ UNCHANGED <<sessionVars, regVars, proc, startup, monitor, clientVars,
                   auditVars, abandoned>>

CloserRemove(c) ==
    /\ kpc[c] = "remove"
    /\ remove_worker(ks[c])
    /\ KGoto(c, IF reg[ks[c]] THEN "close_worker" ELSE "finish_ok")
    /\ UNCHANGED <<sessionVars, lock, proc, startup, monitor, clientVars,
                   auditVars, abandoned>>

CloserCloseWorker(c) ==
    /\ kpc[c] = "close_worker"
    /\ \/ close_ok(ks[c]) /\ KGoto(c, "finish_ok")
       \/ close_err(ks[c]) /\ KGoto(c, "finish_err")
    /\ UNCHANGED <<sessionVars, lock, regVars, startup, monitor, clientVars,
                   auditVars, abandoned>>

CloserFinish(c) ==
    /\ kpc[c] \in {"finish_ok", "finish_err"}
    /\ remove_worker(ks[c])
    /\ finish_worker_close(ks[c], kpc[c] = "finish_ok")
    /\ lock' = [lock EXCEPT ![ks[c]] = <<"free">>]
    /\ KExit(c)
    /\ UNCHANGED <<proc, startup, monitor, clientVars, abandoned>>

\* CLOSE_OPERATION_WAIT_TIMEOUT passed and the lock is still held.
\* (Mutant: the close thread blocks on the lock.)
CloserNeverTimesOut(c) == FALSE /\ UNCHANGED vars
CloserTimeout(c) ==
    /\ kpc[c] = "wait"
    /\ lock[ks[c]] # <<"free">>
    /\ KGoto(c, "timeout_cancel")
    /\ UNCHANGED <<sessionVars, lock, regVars, proc, startup, monitor,
                   clientVars, auditVars, abandoned>>

CloserTimeoutCancel(c) ==
    /\ kpc[c] = "timeout_cancel"
    /\ kill_once(ks[c])
    /\ KGoto(c, IF kill_once_hits(ks[c]) THEN "timeout_kill"
                                         ELSE "timeout_remove")
    /\ UNCHANGED <<sessionVars, lock, reg, proc, startup, monitor, clientVars,
                   auditVars, abandoned>>

CloserTimeoutKill(c) ==
    /\ kpc[c] = "timeout_kill"
    /\ kill(ks[c])
    /\ KGoto(c, "timeout_remove")
    /\ UNCHANGED <<sessionVars, lock, regVars, startup, monitor, clientVars,
                   auditVars, abandoned>>

CloserTimeoutRemove(c) ==
    /\ kpc[c] = "timeout_remove"
    /\ remove_worker(ks[c])
    /\ KGoto(c, "timeout_finish")
    /\ UNCHANGED <<sessionVars, lock, proc, startup, monitor, clientVars,
                   auditVars, abandoned>>

CloserTimeoutFinish(c) ==
    /\ kpc[c] = "timeout_finish"
    /\ finish_worker_close(ks[c], FALSE)
    /\ KExit(c)
    /\ UNCHANGED <<lock, regVars, proc, startup, monitor, clientVars, abandoned>>

-----------------------------------------------------------------------------
(* The startup thread *)

SGoto(s, label) == startup' = [startup EXCEPT ![s] = label]

\* The thread ends and drops the operation guard.
SExit(s) ==
    /\ startup' = [startup EXCEPT ![s] = "done"]
    /\ lock' = [lock EXCEPT ![s] = <<"free">>]

StartupLock(s) ==
    /\ startup[s] = "lock"
    /\ lock_operation(s, <<"startup">>)
    /\ SGoto(s, "spawn")
    /\ UNCHANGED <<sessionVars, regVars, proc, monitor, clientVars, closerVars,
                   auditVars, abandoned>>

StartupSpawn(s) ==
    /\ startup[s] = "spawn"
    /\ \/ proc' = [proc EXCEPT ![s] = "alive"] /\ SGoto(s, "insert")
       \/ UNCHANGED proc /\ SGoto(s, "fail_remove")
    /\ UNCHANGED <<sessionVars, lock, regVars, monitor, clientVars, closerVars,
                   auditVars, abandoned>>

StartupInsert(s) ==
    /\ startup[s] = "insert"
    /\ reg' = [reg EXCEPT ![s] = TRUE]
    /\ cancel' = [cancel EXCEPT ![s] = FALSE]
    /\ SGoto(s, "check")
    /\ UNCHANGED <<sessionVars, lock, proc, monitor, clientVars, closerVars,
                   auditVars, abandoned>>

\* session_is_closing_or_terminal: was the session closed meanwhile?
\* (Mutant: only a close that has finished is noticed.)
StartupCheckTerminal(s) ==
    /\ startup[s] = "check"
    /\ SGoto(s, IF is_terminal(state[s]) THEN "cancel" ELSE "create")
    /\ UNCHANGED <<sessionVars, lock, regVars, proc, monitor, clientVars,
                   closerVars, auditVars, abandoned>>
StartupCheck(s) ==
    /\ startup[s] = "check"
    /\ SGoto(s, IF state[s] = "Closing" \/ is_terminal(state[s])
                THEN "cancel" ELSE "create")
    /\ UNCHANGED <<sessionVars, lock, regVars, proc, monitor, clientVars,
                   closerVars, auditVars, abandoned>>

StartupCancel(s) ==
    /\ startup[s] = "cancel"
    /\ kill_once(s)
    /\ SGoto(s, IF kill_once_hits(s) THEN "kill" ELSE "close_ok")
    /\ UNCHANGED <<sessionVars, lock, reg, proc, monitor, clientVars,
                   closerVars, auditVars, abandoned>>

StartupKill(s) ==
    /\ startup[s] = "kill"
    /\ kill(s)
    /\ SGoto(s, "close_ok")
    /\ UNCHANGED <<sessionVars, lock, regVars, monitor, clientVars, closerVars,
                   auditVars, abandoned>>

\* The worker answers create_session, or the request fails (the worker's
\* error, a broken pipe, the end of its output).  A reply that was written
\* before the worker died is still read.
StartupCreate(s) ==
    /\ startup[s] = "create"
    /\ SGoto(s, "finish") \/ SGoto(s, "fail_remove")
    /\ UNCHANGED <<sessionVars, lock, regVars, proc, monitor, clientVars,
                   closerVars, auditVars, abandoned>>

\* finish_worker_startup(Ok): the session is ready unless it was closed.
StartupFinish(s) ==
    /\ startup[s] = "finish"
    /\ \/ /\ state[s] = "Closing"
          /\ SGoto(s, "late_closing")
          /\ UNCHANGED sessionVars
       \/ /\ is_terminal(state[s])
          /\ SGoto(s, "late_terminal")
          /\ UNCHANGED sessionVars
       \/ /\ state[s] # "Closing" /\ ~is_terminal(state[s])
          /\ state' = [state EXCEPT ![s] = "Break"]  \* state_for_target
          /\ current' = [current EXCEPT ![s] = "none"]
          /\ SGoto(s, "spawn_monitor")
          /\ UNCHANGED <<target, last, opStatus>>
    /\ UNCHANGED <<lock, regVars, proc, monitor, clientVars, closerVars,
                   auditVars, abandoned>>

\* (Mutant: no monitor is started.)
StartupNoMonitor(s) ==
    /\ startup[s] = "spawn_monitor"
    /\ SExit(s)
    /\ UNCHANGED <<sessionVars, regVars, proc, monitor, clientVars, closerVars,
                   auditVars, abandoned>>
StartupSpawnMonitor(s) ==
    /\ startup[s] = "spawn_monitor"
    /\ monitor' = IF reg[s] THEN [monitor EXCEPT ![s] = "poll"] ELSE monitor
    /\ SExit(s)
    /\ UNCHANGED <<sessionVars, regVars, proc, clientVars, closerVars,
                   auditVars, abandoned>>

\* should_close_worker: the worker leaves the registry; it is closed unless
\* a kill was already requested or somebody else removed it.  The read of
\* is_cancel_requested is one step with the removal: a kill_once between the
\* two only kills a worker that this thread is about to close.
StartupLateRemove(s) ==
    LET must_close == ~cancel[s] /\ reg[s]
    IN  /\ startup[s] \in {"late_closing", "late_terminal"}
        /\ remove_worker(s)
        /\ \/ must_close /\ startup[s] = "late_closing"
              /\ SGoto(s, "close_closing") /\ UNCHANGED lock
           \/ must_close /\ startup[s] = "late_terminal"
              /\ SGoto(s, "close_terminal") /\ UNCHANGED lock
           \/ ~must_close /\ startup[s] = "late_closing"
              /\ SGoto(s, "close_ok") /\ UNCHANGED lock
           \/ ~must_close /\ startup[s] = "late_terminal" /\ SExit(s)
        /\ UNCHANGED <<sessionVars, proc, monitor, clientVars, closerVars,
                       auditVars, abandoned>>

StartupLateClose(s) ==
    /\ \/ /\ startup[s] = "close_closing"
          /\ \/ close_ok(s) /\ SGoto(s, "close_ok")
             \/ close_err(s) /\ SGoto(s, "close_err")
          /\ UNCHANGED lock
       \/ /\ startup[s] = "close_terminal"
          /\ close_ok(s) \/ close_err(s)
          /\ SExit(s)
    /\ UNCHANGED <<sessionVars, regVars, monitor, clientVars, closerVars,
                   auditVars, abandoned>>

StartupFinishClose(s) ==
    /\ startup[s] \in {"close_ok", "close_err"}
    /\ remove_worker(s)
    /\ finish_worker_close(s, startup[s] = "close_ok")
    /\ SExit(s)
    /\ UNCHANGED <<proc, monitor, clientVars, closerVars, abandoned>>

\* finish_worker_startup(Err): a worker that nobody is killing is killed.
StartupFailRemove(s) ==
    /\ startup[s] = "fail_remove"
    /\ remove_worker(s)
    /\ SGoto(s, IF reg[s] /\ ~cancel[s] THEN "fail_kill" ELSE "fail_update")
    /\ UNCHANGED <<sessionVars, lock, proc, monitor, clientVars, closerVars,
                   auditVars, abandoned>>

StartupFailKill(s) ==
    /\ startup[s] = "fail_kill"
    /\ kill(s)
    /\ SGoto(s, "fail_update")
    /\ UNCHANGED <<sessionVars, lock, regVars, monitor, clientVars, closerVars,
                   auditVars, abandoned>>

StartupFailUpdate(s) ==
    /\ startup[s] = "fail_update"
    /\ IF is_terminal(state[s])
       THEN UNCHANGED sessionVars
       ELSE /\ state' = [state EXCEPT ![s] = IF state[s] = "Closing"
                                             THEN "Closed" ELSE "Error"]
            /\ current' = [current EXCEPT ![s] = "none"]
            /\ UNCHANGED <<target, last, opStatus>>
    /\ SExit(s)
    /\ UNCHANGED <<regVars, proc, monitor, clientVars, closerVars, auditVars,
                   abandoned>>

-----------------------------------------------------------------------------
(* eval *)

Goto(c, label) == pc' = [pc EXCEPT ![c] = label]

\* audit_rejected_eval writes a command record; then the call returns.
Reject(c) ==
    /\ records' = [records EXCEPT ![cop[c]] = @ + 1]
    /\ Return(c)

\* eval is called with a fresh command id.  An empty command is rejected
\* before the operation lock is looked up.
EvalEmpty(c, s, o) ==
    /\ pc[c] = "idle"
    /\ state[s] # "Absent"
    /\ opSession[o] = NoSession
    /\ opSession' = [opSession EXCEPT ![o] = s]
    /\ records' = [records EXCEPT ![o] = @ + 1]
    /\ UNCHANGED <<sessionVars, lock, regVars, proc, startup, monitor,
                   clientVars, closerVars, sent, abandoned>>

Eval(c, s, o) ==
    /\ pc[c] = "idle"
    /\ lock[s] # <<"missing">>
    /\ opSession[o] = NoSession
    /\ opSession' = [opSession EXCEPT ![o] = s]
    /\ cs' = [cs EXCEPT ![c] = s]
    /\ cop' = [cop EXCEPT ![c] = o]
    /\ Goto(c, "eval_lock")
    /\ UNCHANGED <<sessionVars, lock, regVars, proc, startup, monitor, hw, snap,
                   fin, closerVars, sent, records, abandoned>>

EvalLock(c) ==
    /\ pc[c] = "eval_lock"
    /\ lock_operation(cs[c], <<"eval", c>>)
    /\ Goto(c, "eval_query")
    /\ UNCHANGED <<sessionVars, regVars, proc, startup, monitor, cs, cop, hw,
                   snap, fin, closerVars, auditVars, abandoned>>

\* Only a session at a prompt takes commands.  The state is read here and
\* stored back by start_operation.
EvalQuery(c) ==
    /\ pc[c] = "eval_query"
    /\ \/ /\ state[cs[c]] \in {"Ready", "Break"}
          /\ snap' = [snap EXCEPT ![c] = state[cs[c]]]
          /\ Goto(c, "eval_worker")
          /\ UNCHANGED <<lock, cs, cop, hw, fin, records>>
       \/ /\ state[cs[c]] \notin {"Ready", "Break"}
          /\ Reject(c)
          /\ lock' = [lock EXCEPT ![cs[c]] = <<"free">>]
    /\ UNCHANGED <<sessionVars, regVars, proc, startup, monitor, closerVars,
                   opSession, sent, abandoned>>

EvalWorker(c) ==
    /\ pc[c] = "eval_worker"
    /\ \/ /\ reg[cs[c]]
          /\ Goto(c, "eval_start")
          /\ UNCHANGED <<lock, cs, cop, hw, snap, fin, records>>
       \/ /\ ~reg[cs[c]]
          /\ Reject(c)
          /\ lock' = [lock EXCEPT ![cs[c]] = <<"free">>]
    /\ UNCHANGED <<sessionVars, regVars, proc, startup, monitor, closerVars,
                   opSession, sent, abandoned>>

\* start_operation.  A session that is Closing or terminal by now is left
\* alone, but Ok is returned all the same and eval goes on.
EvalStart(c) ==
    LET s == cs[c]
    IN  /\ pc[c] = "eval_start"
        /\ IF is_terminal(state[s]) \/ state[s] = "Closing"
           THEN UNCHANGED sessionVars
           ELSE /\ state' = [state EXCEPT ![s] = snap[c]]
                /\ current' = [current EXCEPT ![s] = "eval"]
                /\ last' = [last EXCEPT ![s] = cop[c]]
                /\ opStatus' = [opStatus EXCEPT ![cop[c]] = "Running"]
                /\ UNCHANGED target
        /\ Goto(c, "eval_send")
        /\ UNCHANGED <<lock, regVars, proc, startup, monitor, cs, cop, hw, snap,
                       fin, closerVars, auditVars, abandoned>>

\* request_with_event_sink: a worker that is alive gets the command.
EvalSend(c) ==
    /\ pc[c] = "eval_send"
    /\ proc[cs[c]] = "alive"
    /\ sent' = sent \cup {cop[c]}
    /\ Goto(c, "eval_wait")
    /\ UNCHANGED <<sessionVars, lock, regVars, proc, startup, monitor, cs, cop,
                   hw, snap, fin, closerVars, opSession, records, abandoned>>

\* apply_backend_execution_event, called by the event sink while eval waits:
\* Closing and Error are kept, Closed is not.
apply_backend_execution_event(s, e) ==
    IF state[s] \in {"Closing", "Error"}
    THEN UNCHANGED sessionVars
    ELSE /\ state' = [state EXCEPT ![s] = e]
         /\ UNCHANGED <<target, current, last, opStatus>>

\* What DbgEng's execute reports before it answers: nothing, or Closed, or
\* Running and then the state in which the wait for an event ended.  What
\* was written before the worker died is still read.
EvalEvent(c) ==
    /\ \/ /\ pc[c] = "eval_wait"
          /\ apply_backend_execution_event(cs[c], "Running")
          /\ Goto(c, "eval_ran")
          /\ UNCHANGED snap
       \/ \E e \in ExecutionState :
             /\ \/ pc[c] = "eval_wait" /\ e = "Closed"
                \/ pc[c] = "eval_ran"
             /\ apply_backend_execution_event(cs[c], e)
             /\ snap' = [snap EXCEPT ![c] = e]
             /\ Goto(c, "eval_last")
    /\ UNCHANGED <<lock, regVars, proc, startup, monitor, cs, cop, hw, fin,
                   closerVars, auditVars, abandoned>>

\* The final_state a reply may carry, given the events before it; "None"
\* is an execution status that the worker does not report.
FinalState(c) ==
    CASE pc[c] = "eval_wait" -> {"Break", "None"}
      [] pc[c] = "eval_ran"  -> {"None"}
      [] OTHER               -> {snap[c]}

\* The worker answers; the output is written to its artifact file, or that
\* fails, in which case the operation ends without a command record.
EvalReply(c) ==
    /\ pc[c] \in {"eval_wait", "eval_ran", "eval_last"}
    /\ \/ \E f \in FinalState(c) :
             /\ snap' = IF f = "None" THEN snap ELSE [snap EXCEPT ![c] = f]
             /\ fin' = [fin EXCEPT ![c] = "Finished"]
             /\ Goto(c, IF f = "None" THEN "eval_requery" ELSE "eval_finish")
       \/ /\ snap' = [snap EXCEPT ![c] = "Error"]
          /\ fin' = [fin EXCEPT ![c] = "Lost"]
          /\ Goto(c, "eval_finish")
    /\ UNCHANGED <<sessionVars, lock, regVars, proc, startup, monitor, cs, cop,
                   hw, closerVars, auditVars, abandoned>>

\* The request fails: the worker is found dead, its output ends, or it
\* answers with an error.
EvalFail(c) ==
    /\ \/ pc[c] \in {"eval_wait", "eval_ran", "eval_last"}
       \/ pc[c] = "eval_send" /\ (proc[cs[c]] = "exited" \/ OsMayFail)
    /\ snap' = [snap EXCEPT ![c] = "Error"]
    /\ fin' = [fin EXCEPT ![c] = "Failed"]
    /\ Goto(c, "eval_finish")
    /\ UNCHANGED <<sessionVars, lock, regVars, proc, startup, monitor, cs, cop,
                   hw, closerVars, auditVars, abandoned>>

\* Without a final_state, the state found now is stored back in a moment.
EvalRequery(c) ==
    /\ pc[c] = "eval_requery"
    /\ snap' = [snap EXCEPT ![c] = state[cs[c]]]
    /\ Goto(c, "eval_finish")
    /\ UNCHANGED <<sessionVars, lock, regVars, proc, startup, monitor, cs, cop,
                   hw, fin, closerVars, auditVars, abandoned>>

\* finish_operation(st, status) takes effect unless the session was closed;
\* a session that the backend reported Closed still takes its last command.
\* (Mutant: a close that is under way does not count.)
finish_operation_ignores_closing(s, st, status) ==
    is_terminal(state[s]) => /\ state[s] = "Closed"
                             /\ st = "Closed"
                             /\ status = "Finished"
finish_operation_applies(s, st, status) ==
    /\ state[s] # "Closing"
    /\ is_terminal(state[s]) => /\ state[s] = "Closed"
                                /\ st = "Closed"
                                /\ status = "Finished"

\* finish_operation, and the command record when it took effect.
EvalFinish(c) ==
    LET s == cs[c]
        status == IF fin[c] = "Finished" THEN "Finished" ELSE "Failed"
    IN  /\ pc[c] = "eval_finish"
        /\ IF finish_operation_applies(s, snap[c], status)
           THEN /\ state' = [state EXCEPT ![s] = snap[c]]
                /\ current' = [current EXCEPT ![s] = "none"]
                /\ opStatus' = IF last[s] = NoOp THEN opStatus
                               ELSE [opStatus EXCEPT ![last[s]] = status]
                /\ records' = IF fin[c] = "Lost" THEN records
                              ELSE [records EXCEPT ![cop[c]] = @ + 1]
                /\ UNCHANGED <<target, last>>
           ELSE UNCHANGED <<sessionVars, records>>
        /\ lock' = [lock EXCEPT ![s] = <<"free">>]
        /\ Return(c)
        /\ UNCHANGED <<regVars, proc, startup, monitor, closerVars, opSession,
                       sent, abandoned>>

-----------------------------------------------------------------------------
(* The monitor thread and the worker process *)

\* What mark_worker_unavailable does to a session that is not closed.
\* (Mutants: the operation is not ended; it stays the current one.)
mark_without_finalize(s) ==
    /\ state' = [state EXCEPT ![s] = "Error"]
    /\ current' = [current EXCEPT ![s] = "none"]
    /\ UNCHANGED <<target, last, opStatus, records>>
mark_worker_unavailable(s) ==
    /\ finalize_canceled_operation(s, "Failed")
    /\ state' = [state EXCEPT ![s] = "Error"]
    /\ current' = [current EXCEPT ![s] = "none"]
    /\ UNCHANGED <<target, last>>

\* The monitor finds the worker gone, or cannot poll it.
MonitorPoll(s) ==
    /\ monitor[s] = "poll"
    /\ proc[s] = "exited" \/ OsMayFail
    /\ IF state[s] = "Closing" \/ is_terminal(state[s])
       THEN /\ monitor' = [monitor EXCEPT ![s] = "done"]
            /\ UNCHANGED <<sessionVars, records>>
       ELSE /\ mark_worker_unavailable(s)
            /\ monitor' = [monitor EXCEPT ![s] = "remove"]
    /\ UNCHANGED <<lock, regVars, proc, startup, clientVars, closerVars,
                   opSession, sent, abandoned>>

MonitorRemove(s) ==
    /\ monitor[s] = "remove"
    /\ remove_worker(s)
    /\ monitor' = [monitor EXCEPT ![s] = "done"]
    /\ UNCHANGED <<sessionVars, lock, proc, startup, clientVars, closerVars,
                   auditVars, abandoned>>

\* The worker process dies on its own.
WorkerCrash(s) ==
    /\ proc[s] = "alive"
    /\ proc' = [proc EXCEPT ![s] = "exited"]
    /\ UNCHANGED <<sessionVars, lock, regVars, startup, monitor, clientVars,
                   closerVars, auditVars, abandoned>>

\* Who has an Arc of the worker: the registry, and the threads that cloned
\* it or got it from a removal.
Referenced(s) ==
    \/ reg[s]
    \/ startup[s] \in StartupHolds
    \/ monitor[s] \in {"poll", "remove"}
    \/ \E c \in Clients :
          \/ cs[c] = s /\ pc[c] = "close_kill"
          \/ cs[c] = s /\ pc[c] \in EvalLocked \ {"eval_query", "eval_worker"}
          \/ ks[c] = s /\ kpc[c] \in {"close_worker", "timeout_kill"}

\* Dropping the last reference terminates a worker that is still running.
DropWorker(s) ==
    /\ proc[s] = "alive"
    /\ ~Referenced(s)
    /\ proc' = [proc EXCEPT ![s] = "exited"]
    /\ UNCHANGED <<sessionVars, lock, regVars, startup, monitor, clientVars,
                   closerVars, auditVars, abandoned>>

-----------------------------------------------------------------------------
(* The specification *)

ClientStep(c) ==
    \/ CreateLocks(c)
    \/ CloseNothing(c) \/ CloseMark(c) \/ CloseCancel(c) \/ CloseKill(c)
    \/ CloseSpawn(c)
    \/ EvalLock(c) \/ EvalQuery(c) \/ EvalWorker(c) \/ EvalStart(c)
    \/ EvalSend(c) \/ EvalRequery(c) \/ EvalFinish(c)

EvalAnswer(c) == EvalEvent(c) \/ EvalReply(c) \/ EvalFail(c)

CloserStep(c) ==
    \/ CloserLock(c) \/ CloserRemove(c) \/ CloserCloseWorker(c)
    \/ CloserFinish(c) \/ CloserTimeout(c) \/ CloserTimeoutCancel(c)
    \/ CloserTimeoutKill(c) \/ CloserTimeoutRemove(c)
    \/ CloserTimeoutFinish(c)

StartupStep(s) ==
    \/ StartupLock(s) \/ StartupSpawn(s) \/ StartupInsert(s)
    \/ StartupCheck(s) \/ StartupCancel(s) \/ StartupKill(s)
    \/ StartupFinish(s) \/ StartupSpawnMonitor(s) \/ StartupLateRemove(s)
    \/ StartupLateClose(s) \/ StartupFinishClose(s) \/ StartupFailRemove(s)
    \/ StartupFailKill(s) \/ StartupFailUpdate(s)

MonitorStep(s) == MonitorPoll(s) \/ MonitorRemove(s)

Next ==
    \/ \E c \in Clients :
          \/ \E s \in Sessions :
                \/ \E t \in Targets : CreateSession(c, t, s)
                \/ CloseSession(c, s)
                \/ \E o \in Ops : EvalEmpty(c, s, o) \/ Eval(c, s, o)
          \/ ClientStep(c) \/ EvalAnswer(c) \/ CloserStep(c)
    \/ \E s \in Sessions :
          \/ StartupStep(s) \/ StartupCreate(s) \/ MonitorStep(s)
          \/ WorkerCrash(s) \/ DropWorker(s)

\* Threads are scheduled and mutexes are handed over.  Nobody has to call,
\* and a worker that is alive may take forever to answer: only once it has
\* exited does the end of its output end the request.
Fairness ==
    /\ \A c \in Clients :
          /\ WF_vars(ClientStep(c))
          /\ WF_vars(CloserStep(c))
          /\ WF_vars(EvalAnswer(c) /\ proc[cs[c]] = "exited")
    /\ \A s \in Sessions :
          /\ WF_vars(StartupStep(s))
          /\ WF_vars(StartupCreate(s) /\ proc[s] = "exited")
          /\ WF_vars(MonitorStep(s))
          /\ WF_vars(DropWorker(s))

Spec == Init /\ [][Next]_vars
FairSpec == Spec /\ Fairness

-----------------------------------------------------------------------------
(* Properties *)

\* A command or the opening of the target is with the worker, or the worker
\* is being closed in an orderly way: what must never overlap.
Executing(c, s) ==
    cs[c] = s /\ pc[c] \in {"eval_wait", "eval_ran", "eval_last"}
Opening(s) == startup[s] \in {"create", "close_closing", "close_terminal"}
ClosingWorker(c, s) == ks[c] = s /\ kpc[c] = "close_worker"

\* The worker of a session is used by one thread at a time: eval, startup
\* and the close thread exclude each other through the operation lock
\* (GOALS.md G1, "commands of a session are executed serially").
SerialExecution ==
    \A s \in Sessions :
        /\ \A c, d \in Clients :
              /\ Executing(c, s) /\ Executing(d, s) => c = d
              /\ ~(Executing(c, s) /\ ClosingWorker(d, s))
              /\ ClosingWorker(c, s) /\ ClosingWorker(d, s) => c = d
        /\ Opening(s) =>
              \A c \in Clients : ~Executing(c, s) /\ ~ClosingWorker(c, s)

\* A session that shows Closing has a close call or a close thread at work
\* on it: no interleaving of close_session, the close timeout, startup and
\* eval leaves a session in Closing with nobody left to finish it.
ClosingHasCloser ==
    \A s \in Sessions : state[s] = "Closing" =>
        \E c \in Clients :
            \/ cs[c] = s /\ pc[c] \in {"close_cancel", "close_kill", "close_spawn"}
            \/ ks[c] = s /\ kpc[c] # "idle"

\* A command gets at most one record in commands.jsonl, whoever ends it:
\* eval itself, the close thread, the startup thread or the monitor, unless
\* the session was closed under that eval.
AtMostOneRecord ==
    \A o \in Ops : records[o] > 1 => opSession[o] \in abandoned

\* The operation shown as current is one that an eval call is running,
\* outside of Closed.
CurrentIsRunning ==
    \A s \in Sessions :
        current[s] = "eval" /\ state[s] # "Closed" =>
            \E c \in Clients : cs[c] = s /\ cop[c] = last[s]
                              /\ pc[c] \in EvalLocked

\* An operation that shows Running or CancelRequested has an eval call or a
\* pending close that will end it, outside of Closed.
OperationEnds ==
    \A o \in Ops :
        opStatus[o] \in {"Running", "CancelRequested"} =>
            \/ state[opSession[o]] \in {"Closing", "Closed"}
            \/ \E c \in Clients : cop[c] = o /\ pc[c] \in EvalLocked

\* The bookkeeping of commands, whichever of eval, close, startup and monitor
\* ends one: it is ended, once, and what is shown of it has a call behind it.
OperationInv == AtMostOneRecord /\ CurrentIsRunning /\ OperationEnds

\* close_session and a failure cannot be undone: whatever a startup, an
\* eval or the monitor had read before, the session never serves again.
CloseIsFinal ==
    [][\A s \in Sessions :
          /\ state[s] \in {"Closing", "Error"} =>
                state'[s] \in {"Closing", "Closed", "Error"}
          /\ state[s] = "Closed" /\ s \notin abandoned =>
                state'[s] \in {"Closed", "Error"}]_vars

\* A close comes to an end, and the worker and the startup thread with it,
\* even if the worker never answers.
CloseTerminates ==
    \A s \in Sessions :
        /\ state[s] = "Closing" ~> state[s] \in {"Closed", "Error"}
        /\ state[s] = "Closing" ~> proc[s] # "alive" /\ startup[s] = "done"

\* A session whose worker died stops being offered for reuse, for good:
\* startup, eval or the monitor notices.  (Except for a session closed under
\* a running eval: nobody watches a worker whose close was given up.)
DeadWorkerNoticed ==
    \A s \in Sessions :
        proc[s] = "exited" ~> [](s \in abandoned \/ ~is_reusable(state[s]))

-----------------------------------------------------------------------------
(* What the documentation says and the code does not keep *)

\* GOALS.md G4, "every session can be closed and cleaned up": close_session
\* refuses a Closed session, so a Closed session that no thread works on
\* has no worker left to clean up.
Leaked(s) ==
    /\ state[s] = "Closed" /\ startup[s] = "done" /\ monitor[s] # "remove"
    /\ \A c \in Clients : cs[c] # s /\ ks[c] # s
    /\ reg[s] /\ proc[s] = "alive"
ClosedIsCleaned == \A s \in Sessions : ~Leaked(s)
=============================================================================
