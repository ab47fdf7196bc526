------------------------ MODULE SessionManagerProofs ------------------------
(***************************************************************************)
(* Theorems about SessionManager, for any sets of sessions, targets,       *)
(* clients and command ids:                                                *)
(*                                                                         *)
(*   TypeCorrect     every variable keeps its type;                        *)
(*   Serial          the operation lock makes the uses of a worker serial; *)
(*   ClosingIsOwned  a session in Closing has somebody who will finish it; *)
(*   CloseNotUndone  a close or a failure is never undone;                 *)
(*   BooksBalance    a command has one record, and a call that will end it;*)
(*   Refines         the manager implements SessionLifecycle.              *)
(*                                                                         *)
(* The inductive invariant IndInv adds to the first four who holds which   *)
(* lock (LockInv), what a thread's locals say about the shared state       *)
(* (CallInv, SnapInv), that the two critical sections of create_session are*)
(* safe (NewInv), and that an eval can only meet a Closed session if the   *)
(* close gave up on it (OpenInv).  BookInv does the same for the books, and*)
(* OpeningInv, SpawnedInv and WatchedInv say what the refinement needs of  *)
(* sessions that are opening, of workers and of monitors.                  *)
(***************************************************************************)
EXTENDS SessionRefinement, TLAPS

\* A thread at work has a session; a client that is in close_session has no
\* close thread yet.
CallInv ==
    \A c \in Clients :
        /\ pc[c] = "idle" => cs[c] = NoSession
        /\ pc[c] # "idle" => cs[c] \in Sessions
        /\ pc[c] \in EvalLocked \cup {"eval_lock"} => cop[c] \in Ops
        /\ kpc[c] = "idle" => ks[c] = NoSession
        /\ kpc[c] # "idle" => ks[c] \in Sessions
        /\ pc[c] \in {"close_mark", "close_cancel", "close_kill", "close_spawn"}
              => kpc[c] = "idle"

\* The operation lock is held by exactly the thread that is between its
\* acquisition and its release.
LockInv ==
    \A s \in Sessions :
        /\ lock[s] = <<"startup">> <=> startup[s] \in StartupHolds
        /\ \A c \in Clients :
             /\ lock[s] = <<"eval", c>> <=> cs[c] = s /\ pc[c] \in EvalLocked
             /\ lock[s] = <<"closer", c>> <=>
                    ks[c] = s /\ kpc[c] \in CloserLocked

\* Nobody works on a session before its lock is in the map, except the one
\* call that created it.
NewInv ==
    /\ \A s \in Sessions :
         /\ state[s] = "Absent" =>
              lock[s] = <<"missing">> /\ \A c \in Clients : cs[c] # s
         /\ lock[s] = <<"missing">> =>
              /\ startup[s] = "off"
              /\ \A c \in Clients :
                    ks[c] # s /\ (cs[c] = s => pc[c] = "create_locks")
    /\ \A c \in Clients : pc[c] = "create_locks" =>
         /\ lock[cs[c]] = <<"missing">>
         /\ \A d \in Clients :
               pc[d] = "create_locks" /\ cs[d] = cs[c] => c = d

\* The state eval carries from one critical section to the next: what it
\* stores can neither undo a close nor start one.
SnapInv ==
    \A c \in Clients :
        /\ pc[c] \in {"eval_worker", "eval_start"} =>
              snap[c] \in {"Ready", "Break"}
        /\ pc[c] = "eval_last" => snap[c] \in ExecutionState
        /\ pc[c] = "eval_finish" =>
              /\ snap[c] # "Absent"
              /\ snap[c] = "Closing" =>
                    state[cs[c]] \in {"Closing", "Closed", "Error"}

\* An eval that has passed its state check and has not seen the last event
\* of its command.
EvalOpen == {"eval_worker", "eval_start", "eval_send", "eval_wait", "eval_ran"}

\* Such an eval holds the operation lock, so only a close_session that saw
\* neither a worker nor an operation can have made its session Closed.
OpenInv ==
    \A c \in Clients :
        pc[c] \in EvalOpen /\ state[cs[c]] = "Closed" => cs[c] \in abandoned

IndInv ==
    /\ TypeOK
    /\ CallInv
    /\ LockInv
    /\ NewInv
    /\ SnapInv
    /\ OpenInv
    /\ ClosingHasCloser

-----------------------------------------------------------------------------
(* Types *)

\* The sessions map keeps its shape: every stored state, status and
\* operation is one the code can store.
LEMMA SessionTypeStep ==
    ASSUME TypeOK, CallInv, [Next]_vars
    PROVE  SessionTypeOK'
  <1> USE DEF SessionTypeOK, SessionState, sessionVars, TypeOK
  <1>1. CASE UNCHANGED vars
    BY <1>1 DEF vars
  <1>2. ASSUME NEW c \in Clients, NEW s \in Sessions, NEW t \in Targets,
               CreateSession(c, t, s)
        PROVE  SessionTypeOK'
    BY <1>2 DEF CreateSession
  <1>3. ASSUME NEW c \in Clients, NEW s \in Sessions,
               \/ CloseSession(c, s)
               \/ \E o \in Ops : EvalEmpty(c, s, o) \/ Eval(c, s, o)
        PROVE  SessionTypeOK'
    BY <1>3 DEF CloseSession, EvalEmpty, Eval
  <1>4. ASSUME NEW c \in Clients, ClientStep(c) PROVE SessionTypeOK'
    <2>1. CASE CloseMark(c)
      BY <2>1 DEF CloseMark, OperationStatus
    <2>2. CASE EvalStart(c)
      BY <2>2 DEF EvalStart, ClientTypeOK, OperationStatus
    <2>3. CASE EvalFinish(c)
      BY <2>3 DEF EvalFinish, ClientTypeOK, OperationStatus
    <2> QED
      BY <1>4, <2>1, <2>2, <2>3
      DEF ClientStep, CreateLocks, CloseNothing, CloseCancel, CloseKill,
          CloseSpawn, EvalLock, EvalQuery, EvalWorker, EvalSend, EvalRequery
  <1>5. ASSUME NEW c \in Clients, EvalAnswer(c) PROVE SessionTypeOK'
    BY <1>5 DEF EvalAnswer, EvalEvent, EvalReply, EvalFail,
                apply_backend_execution_event, ExecutionState
  <1>6. ASSUME NEW c \in Clients, CloserStep(c) PROVE SessionTypeOK'
    <2>1. CASE CloserFinish(c) \/ CloserTimeoutFinish(c)
      BY <2>1 DEF CloserFinish, CloserTimeoutFinish, finish_worker_close,
                  finalize_canceled_operation, OperationStatus
    <2> QED
      BY <1>6, <2>1
      DEF CloserStep, CloserLock, CloserRemove, CloserCloseWorker,
          CloserTimeout, CloserTimeoutCancel, CloserTimeoutKill,
          CloserTimeoutRemove
  <1>7. ASSUME NEW s \in Sessions, StartupStep(s) PROVE SessionTypeOK'
    <2>1. CASE StartupFinishClose(s)
      BY <2>1 DEF StartupFinishClose, finish_worker_close,
                  finalize_canceled_operation, OperationStatus
    <2>2. CASE StartupFinish(s) \/ StartupFailUpdate(s)
      BY <2>2 DEF StartupFinish, StartupFailUpdate
    <2> QED
      BY <1>7, <2>1, <2>2
      DEF StartupStep, StartupLock, StartupSpawn, StartupInsert, StartupCheck,
          StartupCancel, StartupKill, StartupSpawnMonitor, StartupLateRemove,
          StartupLateClose, StartupFailRemove, StartupFailKill
  <1>8. ASSUME NEW s \in Sessions,
               StartupCreate(s) \/ WorkerCrash(s) \/ DropWorker(s)
        PROVE  SessionTypeOK'
    BY <1>8 DEF StartupCreate, WorkerCrash, DropWorker
  <1>9. ASSUME NEW s \in Sessions, MonitorStep(s) PROVE SessionTypeOK'
    BY <1>9 DEF MonitorStep, MonitorPoll, MonitorRemove,
                mark_worker_unavailable, finalize_canceled_operation,
                OperationStatus
  <1> QED
    BY <1>1, <1>2, <1>3, <1>4, <1>5, <1>6, <1>7, <1>8, <1>9 DEF Next

\* The possible holders of an operation lock.
LEMMA Holders ==
    /\ <<"missing">> \in Holder /\ <<"free">> \in Holder
    /\ <<"startup">> \in Holder
    /\ \A c \in Clients : <<"eval", c>> \in Holder /\ <<"closer", c>> \in Holder
  BY DEF Holder

\* The operation locks, the worker registry, the worker processes and the
\* program counters of the startup and monitor threads keep their shape.
LEMMA WorkerTypeStep ==
    ASSUME TypeOK, [Next]_vars
    PROVE  WorkerTypeOK'
  <1> USE Holders
      DEF WorkerTypeOK, TypeOK, regVars, kill, kill_once, remove_worker,
          lock_operation, close_ok, close_err
  <1>1. CASE UNCHANGED vars
    BY <1>1 DEF vars
  <1>2. ASSUME NEW c \in Clients, NEW s \in Sessions,
               \/ \E t \in Targets : CreateSession(c, t, s)
               \/ CloseSession(c, s)
               \/ \E o \in Ops : EvalEmpty(c, s, o) \/ Eval(c, s, o)
        PROVE  WorkerTypeOK'
    BY <1>2 DEF CreateSession, CloseSession, EvalEmpty, Eval
  <1>3. ASSUME NEW c \in Clients, ClientStep(c) PROVE WorkerTypeOK'
    <2>1. CASE CreateLocks(c)
      BY <2>1 DEF CreateLocks, StartupPC
    <2>2. CASE EvalLock(c) \/ EvalQuery(c) \/ EvalWorker(c) \/ EvalFinish(c)
      BY <2>2 DEF EvalLock, EvalQuery, EvalWorker, EvalFinish
    <2> QED
      BY <1>3, <2>1, <2>2
      DEF ClientStep, CloseNothing, CloseMark, CloseCancel, CloseKill,
          CloseSpawn, EvalStart, EvalSend, EvalRequery
  <1>4. ASSUME NEW c \in Clients, EvalAnswer(c) PROVE WorkerTypeOK'
    BY <1>4 DEF EvalAnswer, EvalEvent, EvalReply, EvalFail
  <1>5. ASSUME NEW c \in Clients, CloserStep(c) PROVE WorkerTypeOK'
    <2>1. CASE CloserLock(c)
      BY <2>1 DEF CloserLock
    <2>2. CASE CloserRemove(c) \/ CloserTimeoutRemove(c)
      BY <2>2 DEF CloserRemove, CloserTimeoutRemove
    <2>3. CASE CloserCloseWorker(c) \/ CloserTimeoutKill(c)
      BY <2>3 DEF CloserCloseWorker, CloserTimeoutKill
    <2>4. CASE CloserFinish(c)
      BY <2>4 DEF CloserFinish
    <2>5. CASE CloserTimeoutCancel(c)
      BY <2>5 DEF CloserTimeoutCancel
    <2> QED
      BY <1>5, <2>1, <2>2, <2>3, <2>4, <2>5
      DEF CloserStep, CloserTimeout, CloserTimeoutFinish
  <1>6. ASSUME NEW s \in Sessions, StartupStep(s) \/ StartupCreate(s)
        PROVE  WorkerTypeOK'
    <2> USE DEF SGoto, SExit, StartupPC, StartupHolds
    <2>1. CASE \/ StartupLock(s) \/ StartupSpawn(s) \/ StartupInsert(s)
               \/ StartupCheck(s) \/ StartupCancel(s) \/ StartupKill(s)
      BY <2>1 DEF StartupLock, StartupSpawn, StartupInsert, StartupCheck,
                  StartupCancel, StartupKill
    <2>2. CASE StartupCreate(s) \/ StartupFinish(s) \/ StartupSpawnMonitor(s)
      BY <2>2 DEF StartupCreate, StartupFinish, StartupSpawnMonitor
    <2>3. CASE StartupLateRemove(s)
      BY <2>3 DEF StartupLateRemove
    <2>4. CASE StartupLateClose(s)
      BY <2>4 DEF StartupLateClose
    <2>5. CASE StartupFinishClose(s)
      BY <2>5 DEF StartupFinishClose
    <2>6. CASE \/ StartupFailRemove(s) \/ StartupFailKill(s)
               \/ StartupFailUpdate(s)
      BY <2>6 DEF StartupFailRemove, StartupFailKill, StartupFailUpdate
    <2> QED
      BY <1>6, <2>1, <2>2, <2>3, <2>4, <2>5, <2>6 DEF StartupStep
  <1>7. ASSUME NEW s \in Sessions,
               MonitorStep(s) \/ WorkerCrash(s) \/ DropWorker(s)
        PROVE  WorkerTypeOK'
    BY <1>7 DEF MonitorStep, MonitorPoll, MonitorRemove, WorkerCrash, DropWorker
  <1> QED
    BY <1>1, <1>2, <1>3, <1>4, <1>5, <1>6, <1>7 DEF Next

\* The locals of a client call keep their shape.
LEMMA ClientTypeStep ==
    ASSUME TypeOK, CallInv, [Next]_vars
    PROVE  ClientTypeOK'
  <1> USE DEF ClientTypeOK, TypeOK, clientVars, Return, Goto, Reject, ClientPC,
              EvalLocked
  <1>1. CASE UNCHANGED vars
    BY <1>1 DEF vars
  <1>2. ASSUME NEW c \in Clients, NEW s \in Sessions,
               \/ \E t \in Targets : CreateSession(c, t, s)
               \/ CloseSession(c, s)
               \/ \E o \in Ops : EvalEmpty(c, s, o) \/ Eval(c, s, o)
        PROVE  ClientTypeOK'
    BY <1>2 DEF CreateSession, CloseSession, EvalEmpty, Eval, WorkerTypeOK
  <1>3. ASSUME NEW c \in Clients, ClientStep(c) PROVE ClientTypeOK'
    <2>1. CASE EvalQuery(c) \/ EvalRequery(c)
      <3>1. state[cs[c]] \in SessionState \cup {"Absent"}
        BY <2>1 DEF EvalQuery, EvalRequery, CallInv, SessionTypeOK
      <3> QED
        BY <2>1, <3>1 DEF EvalQuery, EvalRequery
    <2>2. CASE CreateLocks(c) \/ CloseNothing(c) \/ CloseMark(c)
      BY <2>2 DEF CreateLocks, CloseNothing, CloseMark
    <2>3. CASE CloseCancel(c) \/ CloseKill(c) \/ CloseSpawn(c)
      BY <2>3 DEF CloseCancel, CloseKill, CloseSpawn
    <2>4. CASE \/ EvalLock(c) \/ EvalWorker(c) \/ EvalStart(c)
               \/ EvalSend(c) \/ EvalFinish(c)
      BY <2>4 DEF EvalLock, EvalWorker, EvalStart, EvalSend, EvalFinish
    <2> QED
      BY <1>3, <2>1, <2>2, <2>3, <2>4 DEF ClientStep
  <1>4. ASSUME NEW c \in Clients, EvalAnswer(c) PROVE ClientTypeOK'
    BY <1>4 DEF EvalAnswer, EvalEvent, EvalReply, EvalFail, ExecutionState,
                FinalState, SessionState
  <1>5. ASSUME NEW c \in Clients, CloserStep(c) PROVE ClientTypeOK'
    BY <1>5
    DEF CloserStep, CloserLock, CloserRemove, CloserCloseWorker, CloserFinish,
        CloserTimeout, CloserTimeoutCancel, CloserTimeoutKill,
        CloserTimeoutRemove, CloserTimeoutFinish
  <1>6. ASSUME NEW s \in Sessions, StartupStep(s) \/ StartupCreate(s)
        PROVE  ClientTypeOK'
    BY <1>6
    DEF StartupStep, StartupLock, StartupSpawn, StartupInsert, StartupCheck,
        StartupCancel, StartupKill, StartupCreate, StartupFinish,
        StartupSpawnMonitor, StartupLateRemove, StartupLateClose,
        StartupFinishClose, StartupFailRemove, StartupFailKill,
        StartupFailUpdate
  <1>7. ASSUME NEW s \in Sessions,
               MonitorStep(s) \/ WorkerCrash(s) \/ DropWorker(s)
        PROVE  ClientTypeOK'
    BY <1>7 DEF MonitorStep, MonitorPoll, MonitorRemove, WorkerCrash, DropWorker
  <1> QED
    BY <1>1, <1>2, <1>3, <1>4, <1>5, <1>6, <1>7 DEF Next

\* The close threads keep their shape.
LEMMA CloserTypeStep ==
    ASSUME TypeOK, CallInv, [Next]_vars
    PROVE  CloserTypeOK'
  <1> USE DEF CloserTypeOK, TypeOK, closerVars, KGoto, KExit
  <1>1. CASE UNCHANGED vars
    BY <1>1 DEF vars
  <1>2. ASSUME NEW c \in Clients, NEW s \in Sessions,
               \/ \E t \in Targets : CreateSession(c, t, s)
               \/ CloseSession(c, s)
               \/ \E o \in Ops : EvalEmpty(c, s, o) \/ Eval(c, s, o)
        PROVE  CloserTypeOK'
    BY <1>2 DEF CreateSession, CloseSession, EvalEmpty, Eval
  <1>3. ASSUME NEW c \in Clients, ClientStep(c) PROVE CloserTypeOK'
    <2>1. CASE CloseSpawn(c)
      BY <2>1 DEF CloseSpawn, CallInv, CloserPC
    <2> QED
      BY <1>3, <2>1
      DEF ClientStep, CreateLocks, CloseNothing, CloseMark, CloseCancel,
          CloseKill, EvalLock, EvalQuery, EvalWorker, EvalStart, EvalSend,
          EvalRequery, EvalFinish
  <1>4. ASSUME NEW c \in Clients, EvalAnswer(c) PROVE CloserTypeOK'
    BY <1>4 DEF EvalAnswer, EvalEvent, EvalReply, EvalFail
  <1>5. ASSUME NEW c \in Clients, CloserStep(c) PROVE CloserTypeOK'
    BY <1>5
    DEF CloserStep, CloserPC, CloserLocked, CloserLock, CloserRemove,
        CloserCloseWorker, CloserFinish, CloserTimeout, CloserTimeoutCancel,
        CloserTimeoutKill, CloserTimeoutRemove, CloserTimeoutFinish
  <1>6. ASSUME NEW s \in Sessions, StartupStep(s) \/ StartupCreate(s)
        PROVE  CloserTypeOK'
    BY <1>6
    DEF StartupStep, StartupLock, StartupSpawn, StartupInsert, StartupCheck,
        StartupCancel, StartupKill, StartupCreate, StartupFinish,
        StartupSpawnMonitor, StartupLateRemove, StartupLateClose,
        StartupFinishClose, StartupFailRemove, StartupFailKill,
        StartupFailUpdate
  <1>7. ASSUME NEW s \in Sessions,
               MonitorStep(s) \/ WorkerCrash(s) \/ DropWorker(s)
        PROVE  CloserTypeOK'
    BY <1>7 DEF MonitorStep, MonitorPoll, MonitorRemove, WorkerCrash, DropWorker
  <1> QED
    BY <1>1, <1>2, <1>3, <1>4, <1>5, <1>6, <1>7 DEF Next

\* The audit trail keeps its shape: records are only ever added.
LEMMA AuditTypeStep ==
    ASSUME TypeOK, CallInv, [Next]_vars
    PROVE  AuditTypeOK'
  <1> USE DEF AuditTypeOK, TypeOK, auditVars, finish_worker_close,
              finalize_canceled_operation
  <1>1. CASE UNCHANGED vars
    BY <1>1 DEF vars
  <1>2. ASSUME NEW c \in Clients, NEW s \in Sessions,
               \/ \E t \in Targets : CreateSession(c, t, s)
               \/ CloseSession(c, s)
               \/ \E o \in Ops : EvalEmpty(c, s, o) \/ Eval(c, s, o)
        PROVE  AuditTypeOK'
    BY <1>2 DEF CreateSession, CloseSession, EvalEmpty, Eval
  <1>3. ASSUME NEW c \in Clients, ClientStep(c) PROVE AuditTypeOK'
    <2>1. CASE CloseMark(c)
      BY <2>1 DEF CloseMark, CallInv
    <2>2. CASE EvalQuery(c) \/ EvalWorker(c)
      BY <2>2 DEF EvalQuery, EvalWorker, Reject
    <2>3. CASE EvalSend(c)
      <3>1. cop[c] \in Ops
        BY <2>3 DEF EvalSend, CallInv, EvalLocked
      <3> QED
        BY <2>3, <3>1 DEF EvalSend
    <2>4. CASE EvalFinish(c)
      BY <2>4 DEF EvalFinish
    <2> QED
      BY <1>3, <2>1, <2>2, <2>3, <2>4
      DEF ClientStep, CreateLocks, CloseNothing, CloseCancel, CloseKill,
          CloseSpawn, EvalLock, EvalStart, EvalRequery
  <1>4. ASSUME NEW c \in Clients, EvalAnswer(c) PROVE AuditTypeOK'
    BY <1>4 DEF EvalAnswer, EvalEvent, EvalReply, EvalFail
  <1>5. ASSUME NEW c \in Clients, CloserStep(c) PROVE AuditTypeOK'
    BY <1>5
    DEF CloserStep, CloserLock, CloserRemove, CloserCloseWorker, CloserFinish,
        CloserTimeout, CloserTimeoutCancel, CloserTimeoutKill,
        CloserTimeoutRemove, CloserTimeoutFinish
  <1>6. ASSUME NEW s \in Sessions, StartupStep(s) \/ StartupCreate(s)
        PROVE  AuditTypeOK'
    BY <1>6
    DEF StartupStep, StartupLock, StartupSpawn, StartupInsert, StartupCheck,
        StartupCancel, StartupKill, StartupCreate, StartupFinish,
        StartupSpawnMonitor, StartupLateRemove, StartupLateClose,
        StartupFinishClose, StartupFailRemove, StartupFailKill,
        StartupFailUpdate
  <1>7. ASSUME NEW s \in Sessions,
               MonitorStep(s) \/ WorkerCrash(s) \/ DropWorker(s)
        PROVE  AuditTypeOK'
    BY <1>7 DEF MonitorStep, MonitorPoll, MonitorRemove, WorkerCrash,
                DropWorker, mark_worker_unavailable
  <1> QED
    BY <1>1, <1>2, <1>3, <1>4, <1>5, <1>6, <1>7 DEF Next

-----------------------------------------------------------------------------
(* The locals of the threads *)

\* A call that starts takes a session, a call that returns gives it back;
\* the same for a close thread.
LEMMA CallStep ==
    ASSUME TypeOK, CallInv, [Next]_vars
    PROVE  CallInv'
  <1> USE DEF CallInv, TypeOK, ClientTypeOK, CloserTypeOK, clientVars,
              closerVars, Return, Goto, Reject, KGoto, KExit, EvalLocked
  <1>1. CASE UNCHANGED vars
    BY <1>1 DEF vars
  <1>2. ASSUME NEW c \in Clients, NEW s \in Sessions,
               \/ \E t \in Targets : CreateSession(c, t, s)
               \/ CloseSession(c, s)
               \/ \E o \in Ops : EvalEmpty(c, s, o) \/ Eval(c, s, o)
        PROVE  CallInv'
    BY <1>2 DEF CreateSession, CloseSession, EvalEmpty, Eval
  <1>3. ASSUME NEW c \in Clients, ClientStep(c) PROVE CallInv'
    <2>1. CASE CreateLocks(c) \/ CloseNothing(c) \/ CloseMark(c)
      BY <2>1 DEF CreateLocks, CloseNothing, CloseMark
    <2>2. CASE CloseCancel(c) \/ CloseKill(c) \/ CloseSpawn(c)
      BY <2>2 DEF CloseCancel, CloseKill, CloseSpawn
    <2>3. CASE EvalLock(c) \/ EvalQuery(c) \/ EvalWorker(c)
      BY <2>3 DEF EvalLock, EvalQuery, EvalWorker
    <2>4. CASE EvalStart(c) \/ EvalSend(c) \/ EvalRequery(c) \/ EvalFinish(c)
      BY <2>4 DEF EvalStart, EvalSend, EvalRequery, EvalFinish
    <2> QED
      BY <1>3, <2>1, <2>2, <2>3, <2>4 DEF ClientStep
  <1>4. ASSUME NEW c \in Clients, EvalAnswer(c) PROVE CallInv'
    BY <1>4 DEF EvalAnswer, EvalEvent, EvalReply, EvalFail
  <1>5. ASSUME NEW c \in Clients, CloserStep(c) PROVE CallInv'
    <2>1. CASE CloserFinish(c) \/ CloserTimeoutFinish(c)
      BY <2>1 DEF CloserFinish, CloserTimeoutFinish
    <2>2. CASE CloserLock(c) \/ CloserRemove(c) \/ CloserCloseWorker(c)
      BY <2>2 DEF CloserLock, CloserRemove, CloserCloseWorker
    <2>3. CASE \/ CloserTimeout(c) \/ CloserTimeoutCancel(c)
               \/ CloserTimeoutKill(c) \/ CloserTimeoutRemove(c)
      BY <2>3 DEF CloserTimeout, CloserTimeoutCancel, CloserTimeoutKill,
                  CloserTimeoutRemove
    <2> QED
      BY <1>5, <2>1, <2>2, <2>3 DEF CloserStep
  <1>6. ASSUME NEW s \in Sessions, StartupStep(s) \/ StartupCreate(s)
        PROVE  CallInv'
    BY <1>6
    DEF StartupStep, StartupLock, StartupSpawn, StartupInsert, StartupCheck,
        StartupCancel, StartupKill, StartupCreate, StartupFinish,
        StartupSpawnMonitor, StartupLateRemove, StartupLateClose,
        StartupFinishClose, StartupFailRemove, StartupFailKill,
        StartupFailUpdate
  <1>7. ASSUME NEW s \in Sessions,
               MonitorStep(s) \/ WorkerCrash(s) \/ DropWorker(s)
        PROVE  CallInv'
    BY <1>7 DEF MonitorStep, MonitorPoll, MonitorRemove, WorkerCrash, DropWorker
  <1> QED
    BY <1>1, <1>2, <1>3, <1>4, <1>5, <1>6, <1>7 DEF Next

\* Initially nobody is at work and no session exists.
LEMMA InitInv == Init => IndInv
  <1> SUFFICES ASSUME Init PROVE IndInv
    OBVIOUS
  <1> USE DEF Init
  <1>1. TypeOK
    <2>1. SessionTypeOK
      BY DEF SessionTypeOK
    <2>2. WorkerTypeOK
      BY Holders DEF WorkerTypeOK, StartupPC
    <2>3. ClientTypeOK
      BY DEF ClientTypeOK, ClientPC
    <2>4. CloserTypeOK
      BY DEF CloserTypeOK, CloserPC
    <2>5. AuditTypeOK
      BY DEF AuditTypeOK
    <2> QED
      BY <2>1, <2>2, <2>3, <2>4, <2>5 DEF TypeOK
  <1>2. CallInv
    BY DEF CallInv, EvalLocked
  <1>3. LockInv
    BY ConstantsAssumption DEF LockInv, EvalLocked, StartupHolds, CloserLocked
  <1>4. NewInv
    BY ConstantsAssumption DEF NewInv
  <1>5. SnapInv
    BY DEF SnapInv
  <1>6. OpenInv
    BY DEF OpenInv, EvalOpen
  <1>7. ClosingHasCloser
    BY DEF ClosingHasCloser
  <1> QED
    BY <1>1, <1>2, <1>3, <1>4, <1>5, <1>6, <1>7 DEF IndInv

-----------------------------------------------------------------------------
(* The operation lock *)

\* Holders are told apart by their kind and their thread.
LEMMA DistinctHolders ==
    /\ <<"free">> # <<"missing">>
    /\ <<"free">> # <<"startup">>
    /\ <<"missing">> # <<"startup">>
    /\ \A c : /\ <<"eval", c>> # <<"free">> /\ <<"closer", c>> # <<"free">>
              /\ <<"eval", c>> # <<"missing">> /\ <<"closer", c>> # <<"missing">>
              /\ <<"eval", c>> # <<"startup">> /\ <<"closer", c>> # <<"startup">>
    /\ \A c, d : /\ <<"eval", c>> # <<"closer", d>>
                 /\ <<"eval", c>> = <<"eval", d>> => c = d
                 /\ <<"closer", c>> = <<"closer", d>> => c = d
  OBVIOUS

\* A thread that moves on without touching the lock: it holds the lock
\* before and after, or neither.
LEMMA ClientMoves ==
    ASSUME LockInv, ClientTypeOK, NEW c \in Clients,
           UNCHANGED <<lock, startup, kpc, ks>>,
           \A d \in Clients \ {c} : pc'[d] = pc[d] /\ cs'[d] = cs[d],
           \/ pc[c] \in EvalLocked /\ pc'[c] \in EvalLocked /\ cs'[c] = cs[c]
           \/ pc[c] \notin EvalLocked /\ pc'[c] \notin EvalLocked
    PROVE  LockInv'
  BY DEF LockInv
LEMMA CloserMoves ==
    ASSUME LockInv, CloserTypeOK, NEW c \in Clients,
           UNCHANGED <<lock, startup, pc, cs>>,
           \A d \in Clients \ {c} : kpc'[d] = kpc[d] /\ ks'[d] = ks[d],
           \/ kpc[c] \in CloserLocked /\ kpc'[c] \in CloserLocked
              /\ ks'[c] = ks[c]
           \/ kpc[c] \notin CloserLocked /\ kpc'[c] \notin CloserLocked
    PROVE  LockInv'
  BY DEF LockInv
LEMMA StartupMoves ==
    ASSUME LockInv, NEW s \in Sessions,
           UNCHANGED <<lock, pc, cs, kpc, ks>>,
           \A r \in Sessions \ {s} : startup'[r] = startup[r],
           startup[s] \in StartupHolds /\ startup'[s] \in StartupHolds
    PROVE  LockInv'
  BY DEF LockInv

\* A thread that takes a free lock, or gives back the lock that it holds.
LEMMA ClientTakes ==
    ASSUME LockInv, WorkerTypeOK, NEW c \in Clients, NEW s \in Sessions,
           UNCHANGED <<startup, kpc, ks>>,
           \A d \in Clients \ {c} : pc'[d] = pc[d] /\ cs'[d] = cs[d],
           \/ /\ lock[s] = <<"free">>
              /\ pc[c] \notin EvalLocked
              /\ lock' = [lock EXCEPT ![s] = <<"eval", c>>]
              /\ pc'[c] \in EvalLocked /\ cs'[c] = s
           \/ /\ pc[c] \in EvalLocked /\ cs[c] = s
              /\ lock' = [lock EXCEPT ![s] = <<"free">>]
              /\ pc'[c] \notin EvalLocked
    PROVE  LockInv'
  BY DistinctHolders DEF LockInv, WorkerTypeOK
LEMMA CloserTakes ==
    ASSUME LockInv, WorkerTypeOK, NEW c \in Clients, NEW s \in Sessions,
           UNCHANGED <<startup, pc, cs>>,
           \A d \in Clients \ {c} : kpc'[d] = kpc[d] /\ ks'[d] = ks[d],
           \/ /\ lock[s] = <<"free">>
              /\ kpc[c] \notin CloserLocked
              /\ lock' = [lock EXCEPT ![s] = <<"closer", c>>]
              /\ kpc'[c] \in CloserLocked /\ ks'[c] = s
           \/ /\ kpc[c] \in CloserLocked /\ ks[c] = s
              /\ lock' = [lock EXCEPT ![s] = <<"free">>]
              /\ kpc'[c] \notin CloserLocked
    PROVE  LockInv'
  BY DistinctHolders DEF LockInv, WorkerTypeOK
LEMMA StartupTakes ==
    ASSUME LockInv, WorkerTypeOK, NEW s \in Sessions,
           UNCHANGED <<pc, cs, kpc, ks>>,
           \A r \in Sessions \ {s} : startup'[r] = startup[r],
           \/ /\ lock[s] = <<"free">>
              /\ lock' = [lock EXCEPT ![s] = <<"startup">>]
              /\ startup'[s] \in StartupHolds
           \/ /\ startup[s] \in StartupHolds
              /\ lock' = [lock EXCEPT ![s] = <<"free">>]
              /\ startup'[s] \notin StartupHolds
    PROVE  LockInv'
  BY DistinctHolders DEF LockInv, WorkerTypeOK

\* Every acquisition finds the lock free and every release is by its holder.
LEMMA LockStep ==
    ASSUME TypeOK, CallInv, LockInv, NewInv, [Next]_vars
    PROVE  LockInv'
  <1> USE DEF TypeOK, clientVars, closerVars
  <1>1. CASE UNCHANGED vars
    BY <1>1 DEF vars, LockInv
  <1>2. ASSUME NEW c \in Clients, NEW s \in Sessions,
               \/ \E t \in Targets : CreateSession(c, t, s)
               \/ CloseSession(c, s)
               \/ \E o \in Ops : EvalEmpty(c, s, o) \/ Eval(c, s, o)
        PROVE  LockInv'
    BY <1>2, ClientMoves
    DEF CreateSession, CloseSession, EvalEmpty, Eval, Goto, EvalLocked,
        ClientTypeOK
  <1>3. ASSUME NEW c \in Clients, ClientStep(c) PROVE LockInv'
    <2> USE DEF EvalLocked, Return, Goto, ClientTypeOK
    <2>1. CASE CreateLocks(c)
      <3> DEFINE s == cs[c]
      <3>1. s \in Sessions /\ lock[s] = <<"missing">> /\ startup[s] = "off"
        BY <2>1 DEF CreateLocks, NewInv, CallInv
      <3>2. \A d \in Clients :
              /\ ks[d] # s
              /\ ~(cs[d] = s /\ pc[d] \in EvalLocked)
              /\ ~(cs'[d] = s /\ pc'[d] \in EvalLocked)
        BY <2>1, <3>1 DEF CreateLocks, NewInv
      <3>3. \A r \in Sessions : (lock'[r] = <<"startup">>
                                  <=> startup'[r] \in StartupHolds)
        BY <2>1, <3>1, DistinctHolders
        DEF CreateLocks, LockInv, StartupHolds, WorkerTypeOK
      <3>4. \A r \in Sessions, d \in Clients :
              /\ lock'[r] = <<"eval", d>>
                   <=> cs'[d] = r /\ pc'[d] \in EvalLocked
              /\ lock'[r] = <<"closer", d>>
                   <=> ks'[d] = r /\ kpc'[d] \in CloserLocked
        <4> TAKE r \in Sessions, d \in Clients
        <4>1. CASE r = s
          BY <2>1, <3>1, <3>2, <4>1, DistinctHolders
          DEF CreateLocks, WorkerTypeOK
        <4>2. CASE r # s
          BY <2>1, <3>1, <4>2, ConstantsAssumption
          DEF CreateLocks, LockInv, WorkerTypeOK
        <4> QED
          BY <4>1, <4>2
      <3> QED
        BY <3>3, <3>4 DEF LockInv
    <2>2. CASE CloseNothing(c) \/ CloseMark(c)
      BY <2>2, ClientMoves DEF CloseNothing, CloseMark
    <2>3. CASE CloseCancel(c) \/ CloseKill(c)
      BY <2>3, ClientMoves DEF CloseCancel, CloseKill
    <2>4. CASE CloseSpawn(c)
      BY <2>4 DEF CloseSpawn, CallInv, CloserLocked, LockInv, CloserTypeOK
    <2>5. CASE EvalLock(c)
      BY <2>5, ClientTakes DEF EvalLock, lock_operation, CallInv
    <2>6. CASE EvalQuery(c) \/ EvalWorker(c)
      <3>1. /\ cs[c] \in Sessions
            /\ pc[c] \in EvalLocked
            /\ UNCHANGED <<startup, kpc, ks>>
        BY <2>6 DEF EvalQuery, EvalWorker, CallInv
      <3>2. CASE lock' = lock /\ pc'[c] \in EvalLocked /\ cs' = cs
                 /\ \A d \in Clients \ {c} : pc'[d] = pc[d]
        BY <3>1, <3>2, ClientMoves
      <3>3. CASE Return(c) /\ lock' = [lock EXCEPT ![cs[c]] = <<"free">>]
        BY <3>1, <3>3, ClientTakes
      <3> QED
        BY <2>6, <3>2, <3>3 DEF EvalQuery, EvalWorker, Reject
    <2>7. CASE EvalStart(c) \/ EvalSend(c) \/ EvalRequery(c)
      BY <2>7, ClientMoves DEF EvalStart, EvalSend, EvalRequery
    <2>8. CASE EvalFinish(c)
      BY <2>8, ClientTakes DEF EvalFinish, CallInv
    <2> QED
      BY <1>3, <2>1, <2>2, <2>3, <2>4, <2>5, <2>6, <2>7, <2>8
      DEF ClientStep
  <1>4. ASSUME NEW c \in Clients, EvalAnswer(c) PROVE LockInv'
    BY <1>4, ClientMoves
    DEF EvalAnswer, EvalEvent, EvalReply, EvalFail, Goto, EvalLocked,
        ClientTypeOK
  <1>5. ASSUME NEW c \in Clients, CloserStep(c) PROVE LockInv'
    <2> USE DEF CloserLocked, KGoto, KExit, CloserTypeOK
    <2>1. CASE CloserLock(c)
      BY <2>1, CloserTakes DEF CloserLock, lock_operation, CallInv
    <2>2. CASE CloserRemove(c) \/ CloserCloseWorker(c)
      BY <2>2, CloserMoves DEF CloserRemove, CloserCloseWorker
    <2>3. CASE CloserFinish(c)
      BY <2>3, CloserTakes DEF CloserFinish, CallInv
    <2>4. CASE \/ CloserTimeout(c) \/ CloserTimeoutCancel(c)
               \/ CloserTimeoutKill(c) \/ CloserTimeoutRemove(c)
               \/ CloserTimeoutFinish(c)
      BY <2>4, CloserMoves
      DEF CloserTimeout, CloserTimeoutCancel, CloserTimeoutKill,
          CloserTimeoutRemove, CloserTimeoutFinish
    <2> QED
      BY <1>5, <2>1, <2>2, <2>3, <2>4 DEF CloserStep
  <1>6. ASSUME NEW s \in Sessions, StartupStep(s) \/ StartupCreate(s)
        PROVE  LockInv'
    <2> USE DEF StartupHolds, SGoto, SExit, WorkerTypeOK
    <2>1. CASE StartupLock(s)
      BY <2>1, StartupTakes DEF StartupLock, lock_operation
    <2>2. CASE \/ StartupSpawn(s) \/ StartupInsert(s) \/ StartupCheck(s)
               \/ StartupCancel(s) \/ StartupKill(s) \/ StartupCreate(s)
      BY <2>2, StartupMoves
      DEF StartupSpawn, StartupInsert, StartupCheck, StartupCancel,
          StartupKill, StartupCreate
    <2>3. CASE \/ StartupFinish(s) \/ StartupFailRemove(s)
               \/ StartupFailKill(s)
      BY <2>3, StartupMoves
      DEF StartupFinish, StartupFailRemove, StartupFailKill
    <2>4. CASE StartupLateRemove(s) \/ StartupLateClose(s)
      <3>1. CASE lock' = lock /\ startup'[s] \in StartupHolds
        BY <2>4, <3>1, StartupMoves DEF StartupLateRemove, StartupLateClose
      <3>2. CASE SExit(s)
        BY <2>4, <3>2, StartupTakes DEF StartupLateRemove, StartupLateClose
      <3> QED
        BY <2>4, <3>1, <3>2 DEF StartupLateRemove, StartupLateClose
    <2>5. CASE \/ StartupSpawnMonitor(s) \/ StartupFinishClose(s)
               \/ StartupFailUpdate(s)
      BY <2>5, StartupTakes
      DEF StartupSpawnMonitor, StartupFinishClose, StartupFailUpdate
    <2> QED
      BY <1>6, <2>1, <2>2, <2>3, <2>4, <2>5 DEF StartupStep
  <1>7. ASSUME NEW s \in Sessions,
               MonitorStep(s) \/ WorkerCrash(s) \/ DropWorker(s)
        PROVE  LockInv'
    BY <1>7 DEF MonitorStep, MonitorPoll, MonitorRemove, WorkerCrash,
                DropWorker, LockInv
  <1> QED
    BY <1>1, <1>2, <1>3, <1>4, <1>5, <1>6, <1>7 DEF Next

-----------------------------------------------------------------------------
(* How the state of a session may change *)

\* The states a close or a failure leads to.
Ending == {"Closing", "Closed", "Error"}

\* Nothing makes a session absent again, and only close_session makes it
\* Closing.
LEMMA StateStep ==
    ASSUME TypeOK, CallInv, SnapInv, [Next]_vars, NEW r \in Sessions
    PROVE  /\ state'[r] = "Absent" => state[r] = "Absent"
           /\ state'[r] = "Closing" /\ state[r] # "Closing" =>
                 \E c \in Clients : CloseMark(c) /\ cs[c] = r
  <1> DEFINE Goal == /\ state'[r] = "Absent" => state[r] = "Absent"
                     /\ state'[r] = "Closing" /\ state[r] # "Closing" =>
                          \E c \in Clients : CloseMark(c) /\ cs[c] = r
  <1> USE DEF TypeOK, SessionTypeOK, sessionVars
  <1>1. CASE UNCHANGED vars
    BY <1>1 DEF vars
  <1>2. ASSUME NEW c \in Clients, NEW s \in Sessions,
               \/ \E t \in Targets : CreateSession(c, t, s)
               \/ CloseSession(c, s)
               \/ \E o \in Ops : EvalEmpty(c, s, o) \/ Eval(c, s, o)
        PROVE  Goal
    BY <1>2 DEF CreateSession, CloseSession, EvalEmpty, Eval
  <1>3. ASSUME NEW c \in Clients, ClientStep(c) PROVE Goal
    <2>1. CASE CloseMark(c)
      <3>1. CASE cs[c] = r
        <4>1. state'[r] # "Absent"
          BY <2>1, <3>1 DEF CloseMark
        <4> QED
          BY <2>1, <3>1, <4>1
      <3>2. CASE cs[c] # r
        BY <2>1, <3>2 DEF CloseMark
      <3> QED
        BY <3>1, <3>2
    <2>2. CASE EvalStart(c)
      BY <2>2 DEF EvalStart, SnapInv
    <2>3. CASE EvalFinish(c)
      BY <2>3 DEF EvalFinish, SnapInv, finish_operation_applies, is_terminal
    <2> QED
      BY <1>3, <2>1, <2>2, <2>3
      DEF ClientStep, CreateLocks, CloseNothing, CloseCancel, CloseKill,
          CloseSpawn, EvalLock, EvalQuery, EvalWorker, EvalSend, EvalRequery
  <1>4. ASSUME NEW c \in Clients, EvalAnswer(c) PROVE Goal
    BY <1>4 DEF EvalAnswer, EvalEvent, EvalReply, EvalFail,
                apply_backend_execution_event, ExecutionState
  <1>5. ASSUME NEW c \in Clients, CloserStep(c) PROVE Goal
    <2>1. CASE CloserFinish(c) \/ CloserTimeoutFinish(c)
      BY <2>1 DEF CloserFinish, CloserTimeoutFinish, finish_worker_close
    <2> QED
      BY <1>5, <2>1
      DEF CloserStep, CloserLock, CloserRemove, CloserCloseWorker,
          CloserTimeout, CloserTimeoutCancel, CloserTimeoutKill,
          CloserTimeoutRemove
  <1>6. ASSUME NEW s \in Sessions, StartupStep(s) \/ StartupCreate(s)
        PROVE  Goal
    <2>1. CASE StartupFinishClose(s)
      BY <2>1 DEF StartupFinishClose, finish_worker_close
    <2>2. CASE StartupFinish(s) \/ StartupFailUpdate(s)
      BY <2>2 DEF StartupFinish, StartupFailUpdate
    <2> QED
      BY <1>6, <2>1, <2>2
      DEF StartupStep, StartupLock, StartupSpawn, StartupInsert, StartupCheck,
          StartupCancel, StartupKill, StartupCreate, StartupSpawnMonitor,
          StartupLateRemove, StartupLateClose, StartupFailRemove,
          StartupFailKill
  <1>7. ASSUME NEW s \in Sessions,
               MonitorStep(s) \/ WorkerCrash(s) \/ DropWorker(s)
        PROVE  Goal
    BY <1>7 DEF MonitorStep, MonitorPoll, MonitorRemove, WorkerCrash,
                DropWorker, mark_worker_unavailable
  <1> QED
    BY <1>1, <1>2, <1>3, <1>4, <1>5, <1>6, <1>7 DEF Next

\* Only the eval that holds the operation lock can take a session out of
\* an ending state, by an event.
LEMMA EndingStep ==
    ASSUME TypeOK, CallInv, SnapInv, [Next]_vars, NEW r \in Sessions,
           state[r] \in Ending, state'[r] \notin Ending
    PROVE  \E c \in Clients : EvalEvent(c) /\ cs[c] = r
  <1> DEFINE Goal == \E c \in Clients : EvalEvent(c) /\ cs[c] = r
  <1> USE DEF TypeOK, SessionTypeOK, sessionVars, Ending, is_terminal
  <1>1. CASE UNCHANGED vars
    BY <1>1 DEF vars
  <1>2. ASSUME NEW c \in Clients, NEW s \in Sessions,
               \/ \E t \in Targets : CreateSession(c, t, s)
               \/ CloseSession(c, s)
               \/ \E o \in Ops : EvalEmpty(c, s, o) \/ Eval(c, s, o)
        PROVE  Goal
    BY <1>2 DEF CreateSession, CloseSession, EvalEmpty, Eval
  <1>3. ASSUME NEW c \in Clients, ClientStep(c) PROVE Goal
    <2>1. CASE CloseMark(c)
      BY <2>1 DEF CloseMark
    <2>2. CASE EvalStart(c)
      BY <2>2 DEF EvalStart
    <2>3. CASE EvalFinish(c)
      BY <2>3 DEF EvalFinish, finish_operation_applies
    <2> QED
      BY <1>3, <2>1, <2>2, <2>3
      DEF ClientStep, CreateLocks, CloseNothing, CloseCancel, CloseKill,
          CloseSpawn, EvalLock, EvalQuery, EvalWorker, EvalSend, EvalRequery
  <1>4. ASSUME NEW c \in Clients, EvalAnswer(c) PROVE Goal
    <2>1. CASE EvalEvent(c)
      <3>1. cs[c] = r
        BY <2>1 DEF EvalEvent, apply_backend_execution_event
      <3> QED
        BY <2>1, <3>1
    <2> QED
      BY <1>4, <2>1 DEF EvalAnswer, EvalReply, EvalFail
  <1>5. ASSUME NEW c \in Clients, CloserStep(c) PROVE Goal
    <2>1. CASE CloserFinish(c) \/ CloserTimeoutFinish(c)
      BY <2>1 DEF CloserFinish, CloserTimeoutFinish, finish_worker_close
    <2> QED
      BY <1>5, <2>1
      DEF CloserStep, CloserLock, CloserRemove, CloserCloseWorker,
          CloserTimeout, CloserTimeoutCancel, CloserTimeoutKill,
          CloserTimeoutRemove
  <1>6. ASSUME NEW s \in Sessions, StartupStep(s) \/ StartupCreate(s)
        PROVE  Goal
    <2>1. CASE StartupFinishClose(s)
      BY <2>1 DEF StartupFinishClose, finish_worker_close
    <2>2. CASE StartupFinish(s) \/ StartupFailUpdate(s)
      BY <2>2 DEF StartupFinish, StartupFailUpdate
    <2> QED
      BY <1>6, <2>1, <2>2
      DEF StartupStep, StartupLock, StartupSpawn, StartupInsert, StartupCheck,
          StartupCancel, StartupKill, StartupCreate, StartupSpawnMonitor,
          StartupLateRemove, StartupLateClose, StartupFailRemove,
          StartupFailKill
  <1>7. ASSUME NEW s \in Sessions,
               MonitorStep(s) \/ WorkerCrash(s) \/ DropWorker(s)
        PROVE  Goal
    BY <1>7 DEF MonitorStep, MonitorPoll, MonitorRemove, WorkerCrash,
                DropWorker, mark_worker_unavailable
  <1> QED
    BY <1>1, <1>2, <1>3, <1>4, <1>5, <1>6, <1>7 DEF Next

-----------------------------------------------------------------------------
(* Sessions that are being created *)

\* A step keeps NewInv if it inserts no session and no lock, and if the
\* calls and close threads that it starts are for sessions with a lock.
LEMMA NewFrame ==
    ASSUME NewInv, CallInv, ClientTypeOK, CloserTypeOK,
           \A r \in Sessions : state'[r] = "Absent" => state[r] = "Absent",
           \A r \in Sessions : lock'[r] = <<"missing">> <=> lock[r] = <<"missing">>,
           \A r \in Sessions : lock[r] = <<"missing">> => startup'[r] = startup[r],
           \A d \in Clients :
              \/ cs'[d] = cs[d] /\ (pc'[d] = "create_locks" <=> pc[d] = "create_locks")
              \/ cs'[d] = NoSession /\ pc'[d] = "idle"
              \/ /\ cs'[d] \in Sessions /\ lock[cs'[d]] # <<"missing">>
                 /\ pc'[d] # "create_locks",
           \A d \in Clients :
              \/ ks'[d] = ks[d]
              \/ ks'[d] = NoSession
              \/ lock[ks'[d]] # <<"missing">>
    PROVE  NewInv'
  <1>1. ASSUME NEW r \in Sessions, state'[r] = "Absent"
        PROVE  lock'[r] = <<"missing">> /\ \A c \in Clients : cs'[c] # r
    BY <1>1, ConstantsAssumption DEF NewInv
  <1>2. ASSUME NEW r \in Sessions, lock'[r] = <<"missing">>
        PROVE  /\ startup'[r] = "off"
               /\ \A c \in Clients :
                     ks'[c] # r /\ (cs'[c] = r => pc'[c] = "create_locks")
    BY <1>2, ConstantsAssumption DEF NewInv
  <1>3. ASSUME NEW c \in Clients, pc'[c] = "create_locks"
        PROVE  /\ lock'[cs'[c]] = <<"missing">>
               /\ \A d \in Clients :
                     pc'[d] = "create_locks" /\ cs'[d] = cs'[c] => c = d
    <2>1. \A d \in Clients : pc'[d] = "create_locks" =>
            cs'[d] = cs[d] /\ pc[d] = "create_locks" /\ cs[d] \in Sessions
      BY DEF CallInv
    <2>2. lock'[cs'[c]] = <<"missing">>
      <3>1. cs'[c] = cs[c] /\ pc[c] = "create_locks" /\ cs[c] \in Sessions
        BY <1>3, <2>1
      <3>2. lock[cs[c]] = <<"missing">>
        BY <3>1 DEF NewInv
      <3>3. lock'[cs[c]] = <<"missing">>
        BY <3>1, <3>2
      <3> QED
        BY <3>1, <3>3
    <2>3. ASSUME NEW d \in Clients, pc'[d] = "create_locks", cs'[d] = cs'[c]
          PROVE  c = d
      BY <1>3, <2>1, <2>3 DEF NewInv
    <2> QED
      BY <2>2, <2>3
  <1> QED
    BY <1>1, <1>2, <1>3 DEF NewInv

\* Between the two critical sections of create_session nobody else can find
\* the session's lock, so no other call and no thread works on it.
LEMMA NewStep ==
    ASSUME TypeOK, CallInv, LockInv, NewInv, SnapInv, [Next]_vars
    PROVE  NewInv'
  <1>0. \A r \in Sessions : state'[r] = "Absent" => state[r] = "Absent"
    BY StateStep
  <1> USE <1>0, DistinctHolders DEF TypeOK, clientVars, closerVars
  <1>1. CASE UNCHANGED vars
    BY <1>1 DEF vars, NewInv
  <1>2. ASSUME NEW c \in Clients, NEW s \in Sessions, NEW t \in Targets,
               CreateSession(c, t, s)
        PROVE  NewInv'
    BY <1>2 DEF CreateSession, NewInv, SessionTypeOK, ClientTypeOK, CallInv
  <1>3. ASSUME NEW c \in Clients, NEW s \in Sessions,
               \/ CloseSession(c, s)
               \/ \E o \in Ops : EvalEmpty(c, s, o) \/ Eval(c, s, o)
        PROVE  NewInv'
    BY <1>3, NewFrame DEF CloseSession, EvalEmpty, Eval, Goto, ClientTypeOK
  <1>4. ASSUME NEW c \in Clients, ClientStep(c) PROVE NewInv'
    <2> USE DEF Return, Goto, ClientTypeOK
    <2>0. CASE pc[c] # "create_locks"
      <3>1. cs[c] \in Sessions /\ lock[cs[c]] # <<"missing">>
        BY <1>4, <2>0
        DEF ClientStep, CreateLocks, CloseNothing, CloseMark, CloseCancel,
            CloseKill, CloseSpawn, EvalLock, EvalQuery, EvalWorker, EvalStart,
            EvalSend, EvalRequery, EvalFinish, CallInv, NewInv
      <3>2. CASE CloseNothing(c) \/ CloseMark(c) \/ CloseCancel(c) \/ CloseKill(c)
        BY <3>2, NewFrame DEF CloseNothing, CloseMark, CloseCancel, CloseKill
      <3>3. CASE CloseSpawn(c)
        BY <3>1, <3>3, NewFrame DEF CloseSpawn, CloserTypeOK
      <3>4. CASE EvalLock(c)
        BY <3>1, <3>4, NewFrame DEF EvalLock, lock_operation, WorkerTypeOK
      <3>5. CASE EvalQuery(c) \/ EvalWorker(c)
        BY <3>1, <3>5, NewFrame DEF EvalQuery, EvalWorker, Reject, WorkerTypeOK
      <3>6. CASE EvalStart(c) \/ EvalSend(c) \/ EvalRequery(c)
        BY <3>6, NewFrame DEF EvalStart, EvalSend, EvalRequery
      <3>7. CASE EvalFinish(c)
        BY <3>1, <3>7, NewFrame DEF EvalFinish, WorkerTypeOK
      <3> QED
        BY <1>4, <2>0, <3>2, <3>3, <3>4, <3>5, <3>6, <3>7
        DEF ClientStep, CreateLocks
    <2>1. CASE CreateLocks(c)
      <3>1. cs[c] \in Sessions /\ lock[cs[c]] = <<"missing">>
            /\ state[cs[c]] # "Absent"
        BY <2>1 DEF CreateLocks, CallInv, NewInv
      <3> QED
        BY <2>1, <3>1, ConstantsAssumption
        DEF CreateLocks, NewInv, WorkerTypeOK, CallInv, sessionVars
    <2> QED
      BY <1>4, <2>0, <2>1
      DEF ClientStep, CloseNothing, CloseMark, CloseCancel, CloseKill,
          CloseSpawn, EvalLock, EvalQuery, EvalWorker, EvalStart, EvalSend,
          EvalRequery, EvalFinish
  <1>5. ASSUME NEW c \in Clients, EvalAnswer(c) PROVE NewInv'
    BY <1>5, NewFrame DEF EvalAnswer, EvalEvent, EvalReply, EvalFail, Goto,
                          ClientTypeOK
  <1>6. ASSUME NEW c \in Clients, CloserStep(c) PROVE NewInv'
    <2> USE DEF KGoto, KExit, CloserTypeOK
    <2>1. ks[c] \in Sessions /\ lock[ks[c]] # <<"missing">>
      BY <1>6
      DEF CloserStep, CloserLock, CloserRemove, CloserCloseWorker,
          CloserFinish, CloserTimeout, CloserTimeoutCancel, CloserTimeoutKill,
          CloserTimeoutRemove, CloserTimeoutFinish, CallInv, NewInv
    <2>2. CASE CloserLock(c) \/ CloserFinish(c)
      BY <2>1, <2>2, NewFrame
      DEF CloserLock, CloserFinish, lock_operation, WorkerTypeOK
    <2>3. CASE CloserTimeoutFinish(c)
      BY <2>3, NewFrame DEF CloserTimeoutFinish
    <2> QED
      BY <1>6, <2>2, <2>3, NewFrame
      DEF CloserStep, CloserRemove, CloserCloseWorker, CloserTimeout,
          CloserTimeoutCancel, CloserTimeoutKill, CloserTimeoutRemove
  <1>7. ASSUME NEW s \in Sessions, StartupStep(s) \/ StartupCreate(s)
        PROVE  NewInv'
    <2>1. lock[s] # <<"missing">>
      BY <1>7
      DEF StartupStep, StartupLock, StartupSpawn, StartupInsert, StartupCheck,
          StartupCancel, StartupKill, StartupCreate, StartupFinish,
          StartupSpawnMonitor, StartupLateRemove, StartupLateClose,
          StartupFinishClose, StartupFailRemove, StartupFailKill,
          StartupFailUpdate, NewInv
    <2>2. /\ UNCHANGED <<pc, cs, kpc, ks>>
          /\ \A r \in Sessions \ {s} :
                lock'[r] = lock[r] /\ startup'[r] = startup[r]
          /\ lock'[s] # <<"missing">>
      BY <1>7, <2>1
      DEF StartupStep, StartupLock, StartupSpawn, StartupInsert, StartupCheck,
          StartupCancel, StartupKill, StartupCreate, StartupFinish,
          StartupSpawnMonitor, StartupLateRemove, StartupLateClose,
          StartupFinishClose, StartupFailRemove, StartupFailKill,
          StartupFailUpdate, SGoto, SExit, lock_operation,
          WorkerTypeOK
    <2> QED
      BY <2>1, <2>2, NewFrame
  <1>8. ASSUME NEW s \in Sessions,
               MonitorStep(s) \/ WorkerCrash(s) \/ DropWorker(s)
        PROVE  NewInv'
    BY <1>8, NewFrame DEF MonitorStep, MonitorPoll, MonitorRemove,
                          WorkerCrash, DropWorker
  <1> QED
    BY <1>1, <1>2, <1>3, <1>4, <1>5, <1>6, <1>7, <1>8 DEF Next

-----------------------------------------------------------------------------
(* The state that eval carries *)

\* Two evals that hold the operation lock of a session are the same.
LEMMA OneEval ==
    ASSUME LockInv, NEW c \in Clients, NEW d \in Clients, cs[c] \in Sessions,
           pc[c] \in EvalLocked, pc[d] \in EvalLocked, cs[c] = cs[d]
    PROVE  c = d
  BY DistinctHolders DEF LockInv

\* What a client has read stays usable: its own steps choose the snapshot,
\* and a Closing that it read is only followed by Closed or Error.
LEMMA SnapStep ==
    ASSUME TypeOK, CallInv, LockInv, NewInv, SnapInv, [Next]_vars
    PROVE  SnapInv'
  <1> DEFINE Read(d) ==
        /\ pc[d] \in {"eval_worker", "eval_start"} =>
              snap[d] \in {"Ready", "Break"}
        /\ pc[d] = "eval_last" => snap[d] \in ExecutionState
        /\ pc[d] = "eval_finish" =>
              /\ snap[d] # "Absent"
              /\ snap[d] = "Closing" => state[cs[d]] \in Ending
  <1> USE DEF TypeOK, ClientTypeOK
  <1>1. SUFFICES ASSUME NEW d \in Clients PROVE Read(d)'
    BY DEF SnapInv, Ending
  <1>2. Read(d)
    BY DEF SnapInv, Ending
  <1>3. CASE pc'[d] = pc[d] /\ cs'[d] = cs[d] /\ snap'[d] = snap[d]
    <2>1. CASE pc[d] = "eval_finish" /\ snap[d] = "Closing"
      <3>1. cs[d] \in Sessions /\ state[cs[d]] \in Ending
        BY <1>2, <2>1 DEF CallInv
      <3>2. ASSUME NEW c \in Clients, EvalEvent(c), cs[c] = cs[d] PROVE FALSE
        BY <2>1, <3>1, <3>2, OneEval DEF EvalEvent, EvalLocked
      <3>3. state'[cs[d]] \in Ending
        BY <3>1, <3>2, EndingStep
      <3> QED
        BY <1>3, <2>1, <3>3
    <2> QED
      BY <1>2, <1>3, <2>1
  <1>4. CASE ~(pc'[d] = pc[d] /\ cs'[d] = cs[d] /\ snap'[d] = snap[d])
    <2> USE <1>4 DEF clientVars, Return, Goto
    <2>1. CASE UNCHANGED vars
      BY <2>1 DEF vars
    <2>2. ASSUME NEW c \in Clients, NEW s \in Sessions,
                 \/ \E t \in Targets : CreateSession(c, t, s)
                 \/ CloseSession(c, s)
                 \/ \E o \in Ops : EvalEmpty(c, s, o) \/ Eval(c, s, o)
          PROVE  Read(d)'
      BY <2>2 DEF CreateSession, CloseSession, EvalEmpty, Eval
    <2>3. ASSUME NEW c \in Clients, ClientStep(c) PROVE Read(d)'
      <3>1. CASE EvalQuery(c)
        BY <2>3, <3>1 DEF EvalQuery, Reject
      <3>2. CASE EvalWorker(c)
        BY <1>2, <3>2 DEF EvalWorker, Reject
      <3>3. CASE EvalRequery(c)
        <4>1. c = d /\ cs[d] \in Sessions /\ state[cs[d]] # "Absent"
          BY <3>3 DEF EvalRequery, CallInv, NewInv
        <4> QED
          BY <3>3, <4>1 DEF EvalRequery, Ending, sessionVars
      <3> QED
        BY <2>3, <3>1, <3>2, <3>3
        DEF ClientStep, CreateLocks, CloseNothing, CloseMark, CloseCancel,
            CloseKill, CloseSpawn, EvalLock, EvalStart, EvalSend, EvalFinish
    <2>4. ASSUME NEW c \in Clients, EvalAnswer(c) PROVE Read(d)'
      <3>1. CASE EvalEvent(c)
        BY <3>1 DEF EvalEvent
      <3>2. CASE EvalReply(c)
        BY <1>2, <3>2 DEF EvalReply, FinalState, ExecutionState
      <3>3. CASE EvalFail(c)
        BY <3>3 DEF EvalFail
      <3> QED
        BY <2>4, <3>1, <3>2, <3>3 DEF EvalAnswer
    <2>5. ASSUME NEW c \in Clients, CloserStep(c) PROVE Read(d)'
      BY <2>5
      DEF CloserStep, CloserLock, CloserRemove, CloserCloseWorker, CloserFinish,
          CloserTimeout, CloserTimeoutCancel, CloserTimeoutKill,
          CloserTimeoutRemove, CloserTimeoutFinish
    <2>6. ASSUME NEW s \in Sessions, StartupStep(s) \/ StartupCreate(s)
          PROVE  Read(d)'
      BY <2>6
      DEF StartupStep, StartupLock, StartupSpawn, StartupInsert, StartupCheck,
          StartupCancel, StartupKill, StartupCreate, StartupFinish,
          StartupSpawnMonitor, StartupLateRemove, StartupLateClose,
          StartupFinishClose, StartupFailRemove, StartupFailKill,
          StartupFailUpdate
    <2>7. ASSUME NEW s \in Sessions,
                 MonitorStep(s) \/ WorkerCrash(s) \/ DropWorker(s)
          PROVE  Read(d)'
      BY <2>7 DEF MonitorStep, MonitorPoll, MonitorRemove, WorkerCrash,
                  DropWorker
    <2> QED
      BY <2>1, <2>2, <2>3, <2>4, <2>5, <2>6, <2>7 DEF Next
  <1> QED
    BY <1>3, <1>4

-----------------------------------------------------------------------------
(* Closed under a running eval *)

\* While an eval holds the operation lock, only its own last event and a
\* close_session that abandons the session can make the session Closed.
LEMMA ClosedStep ==
    ASSUME TypeOK, CallInv, LockInv, SnapInv, [Next]_vars,
           NEW d \in Clients, pc[d] \in EvalOpen,
           state[cs[d]] # "Closed", state'[cs[d]] = "Closed"
    PROVE  cs[d] \in abandoned' \/ pc'[d] \notin EvalOpen
  <1> DEFINE r == cs[d]
             Goal == r \in abandoned' \/ pc'[d] \notin EvalOpen
  <1>0. r \in Sessions /\ lock[r] = <<"eval", d>>
    BY DEF CallInv, LockInv, EvalOpen, EvalLocked
  <1> USE <1>0 DEF TypeOK, SessionTypeOK, sessionVars
  <1>1. CASE UNCHANGED vars
    BY <1>1 DEF vars
  <1>2. ASSUME NEW c \in Clients, NEW s \in Sessions,
               \/ \E t \in Targets : CreateSession(c, t, s)
               \/ CloseSession(c, s)
               \/ \E o \in Ops : EvalEmpty(c, s, o) \/ Eval(c, s, o)
        PROVE  Goal
    BY <1>2 DEF CreateSession, CloseSession, EvalEmpty, Eval
  <1>3. ASSUME NEW c \in Clients, ClientStep(c) PROVE Goal
    <2>1. CASE CloseMark(c)
      BY <2>1 DEF CloseMark
    <2>2. CASE EvalStart(c)
      BY <2>2 DEF EvalStart, SnapInv
    <2>3. CASE EvalFinish(c)
      <3>1. cs[c] = r
        BY <2>3 DEF EvalFinish
      <3>2. c = d
        BY <2>3, <3>1, OneEval DEF EvalFinish, EvalOpen, EvalLocked
      <3> QED
        BY <2>3, <3>2 DEF EvalFinish, EvalOpen
    <2> QED
      BY <1>3, <2>1, <2>2, <2>3
      DEF ClientStep, CreateLocks, CloseNothing, CloseCancel, CloseKill,
          CloseSpawn, EvalLock, EvalQuery, EvalWorker, EvalSend, EvalRequery
  <1>4. ASSUME NEW c \in Clients, EvalAnswer(c) PROVE Goal
    <2>1. CASE EvalEvent(c)
      <3>1. cs[c] = r
        BY <2>1 DEF EvalEvent, apply_backend_execution_event
      <3>2. c = d
        BY <2>1, <3>1, OneEval DEF EvalEvent, EvalOpen, EvalLocked
      <3> QED
        BY <2>1, <3>2 DEF EvalEvent, EvalOpen, Goto, ClientTypeOK,
                          apply_backend_execution_event
    <2> QED
      BY <1>4, <2>1 DEF EvalAnswer, EvalReply, EvalFail
  <1>5. ASSUME NEW c \in Clients, CloserStep(c) PROVE Goal
    <2>1. CASE CloserFinish(c)
      <3>1. ks[c] \in Sessions /\ lock[ks[c]] = <<"closer", c>>
        BY <2>1 DEF CloserFinish, CallInv, LockInv, CloserLocked
      <3>2. ks[c] # r
        BY <3>1, DistinctHolders
      <3> QED
        BY <2>1, <3>2 DEF CloserFinish, finish_worker_close
    <2>2. CASE CloserTimeoutFinish(c)
      BY <2>2 DEF CloserTimeoutFinish, finish_worker_close
    <2> QED
      BY <1>5, <2>1, <2>2
      DEF CloserStep, CloserLock, CloserRemove, CloserCloseWorker,
          CloserTimeout, CloserTimeoutCancel, CloserTimeoutKill,
          CloserTimeoutRemove
  <1>6. ASSUME NEW s \in Sessions, StartupStep(s) \/ StartupCreate(s)
        PROVE  Goal
    <2>1. CASE StartupFinishClose(s) \/ StartupFailUpdate(s)
      <3>1. lock[s] = <<"startup">>
        BY <2>1 DEF StartupFinishClose, StartupFailUpdate, LockInv, StartupHolds
      <3>2. s # r
        BY <3>1, DistinctHolders
      <3> QED
        BY <2>1, <3>2 DEF StartupFinishClose, StartupFailUpdate,
                          finish_worker_close
    <2>2. CASE StartupFinish(s)
      BY <2>2 DEF StartupFinish
    <2> QED
      BY <1>6, <2>1, <2>2
      DEF StartupStep, StartupLock, StartupSpawn, StartupInsert, StartupCheck,
          StartupCancel, StartupKill, StartupCreate, StartupSpawnMonitor,
          StartupLateRemove, StartupLateClose, StartupFailRemove,
          StartupFailKill
  <1>7. ASSUME NEW s \in Sessions,
               MonitorStep(s) \/ WorkerCrash(s) \/ DropWorker(s)
        PROVE  Goal
    BY <1>7 DEF MonitorStep, MonitorPoll, MonitorRemove, WorkerCrash,
                DropWorker, mark_worker_unavailable
  <1> QED
    BY <1>1, <1>2, <1>3, <1>4, <1>5, <1>6, <1>7 DEF Next

\* A session that was abandoned stays so.
LEMMA AbandonedGrows ==
    ASSUME [Next]_vars
    PROVE  abandoned \subseteq abandoned'
  <1>1. CASE UNCHANGED vars
    BY <1>1 DEF vars
  <1>2. ASSUME NEW c \in Clients, NEW s \in Sessions,
               \/ \E t \in Targets : CreateSession(c, t, s)
               \/ CloseSession(c, s)
               \/ \E o \in Ops : EvalEmpty(c, s, o) \/ Eval(c, s, o)
        PROVE  abandoned \subseteq abandoned'
    BY <1>2 DEF CreateSession, CloseSession, EvalEmpty, Eval
  <1>3. ASSUME NEW c \in Clients, ClientStep(c) \/ EvalAnswer(c)
        PROVE  abandoned \subseteq abandoned'
    BY <1>3
    DEF ClientStep, CreateLocks, CloseNothing, CloseMark, CloseCancel,
        CloseKill, CloseSpawn, EvalLock, EvalQuery, EvalWorker, EvalStart,
        EvalSend, EvalRequery, EvalFinish, EvalAnswer, EvalEvent, EvalReply,
        EvalFail
  <1>4. ASSUME NEW c \in Clients, CloserStep(c)
        PROVE  abandoned \subseteq abandoned'
    BY <1>4
    DEF CloserStep, CloserLock, CloserRemove, CloserCloseWorker, CloserFinish,
        CloserTimeout, CloserTimeoutCancel, CloserTimeoutKill,
        CloserTimeoutRemove, CloserTimeoutFinish
  <1>5. ASSUME NEW s \in Sessions, StartupStep(s) \/ StartupCreate(s)
        PROVE  abandoned \subseteq abandoned'
    BY <1>5
    DEF StartupStep, StartupLock, StartupSpawn, StartupInsert, StartupCheck,
        StartupCancel, StartupKill, StartupCreate, StartupFinish,
        StartupSpawnMonitor, StartupLateRemove, StartupLateClose,
        StartupFinishClose, StartupFailRemove, StartupFailKill,
        StartupFailUpdate
  <1>6. ASSUME NEW s \in Sessions,
               MonitorStep(s) \/ WorkerCrash(s) \/ DropWorker(s)
        PROVE  abandoned \subseteq abandoned'
    BY <1>6 DEF MonitorStep, MonitorPoll, MonitorRemove, WorkerCrash,
                DropWorker
  <1> QED
    BY <1>1, <1>2, <1>3, <1>4, <1>5, <1>6 DEF Next

\* Only a step of its own takes a call there, and the step that does so has
\* just found the session at a prompt.
LEMMA EntersOpen ==
    ASSUME TypeOK, [Next]_vars, NEW d \in Clients,
           ~(pc[d] \in EvalOpen /\ cs'[d] = cs[d]), pc'[d] \in EvalOpen
    PROVE  state'[cs'[d]] # "Closed"
  <1> USE DEF TypeOK, ClientTypeOK, clientVars, Return, Goto
  <1>1. CASE UNCHANGED vars
    BY <1>1 DEF vars
  <1>2. ASSUME NEW c \in Clients, NEW s \in Sessions,
               \/ \E t \in Targets : CreateSession(c, t, s)
               \/ CloseSession(c, s)
               \/ \E o \in Ops : EvalEmpty(c, s, o) \/ Eval(c, s, o)
        PROVE  state'[cs'[d]] # "Closed"
    BY <1>2 DEF CreateSession, CloseSession, EvalEmpty, Eval, EvalOpen
  <1>3. ASSUME NEW c \in Clients, ClientStep(c)
        PROVE  state'[cs'[d]] # "Closed"
    <2>1. CASE EvalQuery(c)
      BY <2>1 DEF EvalQuery, Reject, EvalOpen, sessionVars
    <2>2. CASE EvalWorker(c)
      BY <2>2 DEF EvalWorker, Reject, EvalOpen
    <2>3. CASE EvalStart(c) \/ EvalSend(c)
      BY <2>3 DEF EvalStart, EvalSend, EvalOpen
    <2>4. CASE EvalRequery(c) \/ EvalFinish(c) \/ EvalLock(c)
      BY <2>4 DEF EvalRequery, EvalFinish, EvalLock, EvalOpen
    <2> QED
      BY <1>3, <2>1, <2>2, <2>3, <2>4
      DEF ClientStep, CreateLocks, CloseNothing, CloseMark, CloseCancel,
          CloseKill, CloseSpawn, EvalOpen
  <1>4. ASSUME NEW c \in Clients, EvalAnswer(c)
        PROVE  state'[cs'[d]] # "Closed"
    BY <1>4 DEF EvalAnswer, EvalEvent, EvalReply, EvalFail, EvalOpen
  <1>5. ASSUME NEW c \in Clients, CloserStep(c)
        PROVE  state'[cs'[d]] # "Closed"
    BY <1>5
    DEF CloserStep, CloserLock, CloserRemove, CloserCloseWorker, CloserFinish,
        CloserTimeout, CloserTimeoutCancel, CloserTimeoutKill,
        CloserTimeoutRemove, CloserTimeoutFinish
  <1>6. ASSUME NEW s \in Sessions, StartupStep(s) \/ StartupCreate(s)
        PROVE  state'[cs'[d]] # "Closed"
    BY <1>6
    DEF StartupStep, StartupLock, StartupSpawn, StartupInsert, StartupCheck,
        StartupCancel, StartupKill, StartupCreate, StartupFinish,
        StartupSpawnMonitor, StartupLateRemove, StartupLateClose,
        StartupFinishClose, StartupFailRemove, StartupFailKill,
        StartupFailUpdate
  <1>7. ASSUME NEW s \in Sessions,
               MonitorStep(s) \/ WorkerCrash(s) \/ DropWorker(s)
        PROVE  state'[cs'[d]] # "Closed"
    BY <1>7 DEF MonitorStep, MonitorPoll, MonitorRemove, WorkerCrash,
                DropWorker
  <1> QED
    BY <1>1, <1>2, <1>3, <1>4, <1>5, <1>6, <1>7 DEF Next

\* An eval enters the dangerous part only from a prompt, and ClosedStep
\* covers the time it spends there.
LEMMA OpenStep ==
    ASSUME TypeOK, CallInv, LockInv, SnapInv, OpenInv, [Next]_vars
    PROVE  OpenInv'
  <1> SUFFICES ASSUME NEW d \in Clients, pc'[d] \in EvalOpen,
                      state'[cs'[d]] = "Closed"
               PROVE  cs'[d] \in abandoned'
    BY DEF OpenInv
  <1>1. CASE pc[d] \in EvalOpen /\ cs'[d] = cs[d] /\ state[cs[d]] # "Closed"
    BY <1>1, ClosedStep
  <1>2. abandoned \subseteq abandoned'
    BY AbandonedGrows
  <1>3. CASE pc[d] \in EvalOpen /\ cs'[d] = cs[d] /\ state[cs[d]] = "Closed"
    BY <1>2, <1>3 DEF OpenInv
  <1>4. CASE ~(pc[d] \in EvalOpen /\ cs'[d] = cs[d])
    BY <1>4, EntersOpen
  <1> QED
    BY <1>1, <1>3, <1>4

-----------------------------------------------------------------------------
(* Closing *)

\* Who is going to finish the close of a session.
ClosesFor(c, s) ==
    \/ cs[c] = s /\ pc[c] \in {"close_cancel", "close_kill", "close_spawn"}
    \/ ks[c] = s /\ kpc[c] # "idle"

\* Who closes a session goes on closing it until the session has left
\* Closing.
LEMMA CloserStays ==
    ASSUME TypeOK, CallInv, [Next]_vars, NEW r \in Sessions, NEW w \in Clients,
           ClosesFor(w, r), state'[r] = "Closing"
    PROVE  ClosesFor(w, r)'
  <1> USE DEF ClosesFor, TypeOK, ClientTypeOK, CloserTypeOK, clientVars,
              closerVars, Return, Goto, KGoto, KExit
  <1>1. CASE UNCHANGED vars
    BY <1>1 DEF vars
  <1>2. ASSUME NEW c \in Clients, NEW s \in Sessions,
               \/ \E t \in Targets : CreateSession(c, t, s)
               \/ CloseSession(c, s)
               \/ \E o \in Ops : EvalEmpty(c, s, o) \/ Eval(c, s, o)
        PROVE  ClosesFor(w, r)'
    BY <1>2 DEF CreateSession, CloseSession, EvalEmpty, Eval
  <1>3. ASSUME NEW c \in Clients, ClientStep(c) PROVE ClosesFor(w, r)'
    <2>1. CASE CloseSpawn(c)
      BY <2>1 DEF CloseSpawn, CallInv
    <2>2. CASE CreateLocks(c) \/ CloseNothing(c) \/ CloseMark(c)
      BY <2>2 DEF CreateLocks, CloseNothing, CloseMark
    <2>3. CASE CloseCancel(c) \/ CloseKill(c)
      BY <2>3 DEF CloseCancel, CloseKill
    <2>4. CASE EvalLock(c) \/ EvalQuery(c) \/ EvalWorker(c)
      BY <2>4 DEF EvalLock, EvalQuery, EvalWorker, Reject
    <2>5. CASE EvalStart(c) \/ EvalSend(c) \/ EvalRequery(c) \/ EvalFinish(c)
      BY <2>5 DEF EvalStart, EvalSend, EvalRequery, EvalFinish
    <2> QED
      BY <1>3, <2>1, <2>2, <2>3, <2>4, <2>5 DEF ClientStep
  <1>4. ASSUME NEW c \in Clients, EvalAnswer(c) PROVE ClosesFor(w, r)'
    BY <1>4 DEF EvalAnswer, EvalEvent, EvalReply, EvalFail
  <1>5. ASSUME NEW c \in Clients, CloserStep(c) PROVE ClosesFor(w, r)'
    <2>1. CASE CloserFinish(c) \/ CloserTimeoutFinish(c)
      <3>1. ks[c] \in Sessions /\ state'[ks[c]] # "Closing"
        BY <2>1
        DEF CloserFinish, CloserTimeoutFinish, finish_worker_close, CallInv,
            SessionTypeOK
      <3>2. ~(c = w /\ ks[w] = r)
        BY <3>1
      <3> QED
        BY <2>1, <3>2 DEF CloserFinish, CloserTimeoutFinish
    <2>2. CASE CloserLock(c) \/ CloserRemove(c) \/ CloserCloseWorker(c)
      BY <2>2 DEF CloserLock, CloserRemove, CloserCloseWorker
    <2>3. CASE \/ CloserTimeout(c) \/ CloserTimeoutCancel(c)
               \/ CloserTimeoutKill(c) \/ CloserTimeoutRemove(c)
      BY <2>3 DEF CloserTimeout, CloserTimeoutCancel, CloserTimeoutKill,
                  CloserTimeoutRemove
    <2> QED
      BY <1>5, <2>1, <2>2, <2>3 DEF CloserStep
  <1>6. ASSUME NEW s \in Sessions, StartupStep(s) \/ StartupCreate(s)
        PROVE  ClosesFor(w, r)'
    BY <1>6
    DEF StartupStep, StartupLock, StartupSpawn, StartupInsert, StartupCheck,
        StartupCancel, StartupKill, StartupCreate, StartupFinish,
        StartupSpawnMonitor, StartupLateRemove, StartupLateClose,
        StartupFinishClose, StartupFailRemove, StartupFailKill,
        StartupFailUpdate
  <1>7. ASSUME NEW s \in Sessions,
               MonitorStep(s) \/ WorkerCrash(s) \/ DropWorker(s)
        PROVE  ClosesFor(w, r)'
    BY <1>7 DEF MonitorStep, MonitorPoll, MonitorRemove, WorkerCrash, DropWorker
  <1> QED
    BY <1>1, <1>2, <1>3, <1>4, <1>5, <1>6, <1>7 DEF Next

\* A session becomes Closing in the hands of a close_session call, and stays
\* in somebody's hands.
LEMMA ClosingStep ==
    ASSUME TypeOK, CallInv, SnapInv, ClosingHasCloser, [Next]_vars
    PROVE  ClosingHasCloser'
  <1> SUFFICES ASSUME NEW r \in Sessions, state'[r] = "Closing"
               PROVE  \E c \in Clients : ClosesFor(c, r)'
    BY DEF ClosingHasCloser, ClosesFor
  <1>1. CASE state[r] = "Closing"
    <2>1. PICK w \in Clients : ClosesFor(w, r)
      BY <1>1 DEF ClosingHasCloser, ClosesFor
    <2> QED
      BY <2>1, CloserStays
  <1>2. CASE state[r] # "Closing"
    <2>1. PICK c \in Clients : CloseMark(c) /\ cs[c] = r
      BY <1>2, StateStep
    <2>2. hw[c] \/ current[r] # "none"
      BY <2>1 DEF CloseMark, TypeOK, SessionTypeOK
    <2>3. ClosesFor(c, r)'
      BY <2>1, <2>2 DEF CloseMark, ClosesFor, TypeOK, ClientTypeOK
    <2> QED
      BY <2>3
  <1> QED
    BY <1>1, <1>2

-----------------------------------------------------------------------------
(* The theorems *)

\* IndInv is inductive.
LEMMA IndStep == IndInv /\ [Next]_vars => IndInv'
  <1> SUFFICES ASSUME IndInv, [Next]_vars PROVE IndInv'
    OBVIOUS
  <1> USE DEF IndInv
  <1>1. TypeOK'
    BY SessionTypeStep, WorkerTypeStep, ClientTypeStep, CloserTypeStep,
       AuditTypeStep DEF TypeOK
  <1>2. CallInv' /\ LockInv'
    BY CallStep, LockStep
  <1>3. NewInv' /\ SnapInv'
    BY NewStep, SnapStep
  <1>4. OpenInv' /\ ClosingHasCloser'
    BY OpenStep, ClosingStep
  <1> QED
    BY <1>1, <1>2, <1>3, <1>4

LEMMA Invariant == Spec => []IndInv
  BY InitInv, IndStep, PTL DEF Spec

\* Every variable keeps its type, whatever the calls, threads and workers do.
THEOREM TypeCorrect == Spec => []TypeOK
  <1>1. IndInv => TypeOK
    BY DEF IndInv
  <1> QED
    BY Invariant, <1>1, PTL

\* The worker of a session is never used by two threads at once.
THEOREM Serial == Spec => []SerialExecution
  <1>1. IndInv => SerialExecution
    <2> SUFFICES ASSUME LockInv, NEW s \in Sessions
                 PROVE  /\ \A c, d \in Clients :
                             /\ Executing(c, s) /\ Executing(d, s) => c = d
                             /\ ~(Executing(c, s) /\ ClosingWorker(d, s))
                             /\ ClosingWorker(c, s) /\ ClosingWorker(d, s) => c = d
                        /\ Opening(s) => \A c \in Clients :
                              ~Executing(c, s) /\ ~ClosingWorker(c, s)
      BY DEF IndInv, SerialExecution
    <2>1. \A c \in Clients : Executing(c, s) => lock[s] = <<"eval", c>>
      BY DEF LockInv, Executing, EvalLocked
    <2>2. \A c \in Clients : ClosingWorker(c, s) => lock[s] = <<"closer", c>>
      BY DEF LockInv, ClosingWorker, CloserLocked
    <2>3. Opening(s) => lock[s] = <<"startup">>
      BY DEF LockInv, Opening, StartupHolds
    <2> QED
      BY <2>1, <2>2, <2>3, DistinctHolders
  <1> QED
    BY Invariant, <1>1, PTL

\* A session in Closing always has a close call or a close thread that is
\* going to finish it.
THEOREM ClosingIsOwned == Spec => []ClosingHasCloser
  <1>1. IndInv => ClosingHasCloser
    BY DEF IndInv
  <1> QED
    BY Invariant, <1>1, PTL

\* Neither a stale snapshot of eval, nor a late startup, nor a backend event
\* takes a session out of Closing, Error or Closed, unless close_session
\* made it Closed under a running eval.
THEOREM CloseNotUndone == Spec => CloseIsFinal
  <1> DEFINE Final == \A s \in Sessions :
        /\ state[s] \in {"Closing", "Error"} =>
              state'[s] \in {"Closing", "Closed", "Error"}
        /\ state[s] = "Closed" /\ s \notin abandoned =>
              state'[s] \in {"Closed", "Error"}
  <1>1. IndInv /\ [Next]_vars => [Final]_vars
    <2> SUFFICES ASSUME TypeOK, CallInv, LockInv, SnapInv, OpenInv,
                        [Next]_vars, NEW s \in Sessions
                 PROVE  /\ state[s] \in {"Closing", "Error"} =>
                              state'[s] \in {"Closing", "Closed", "Error"}
                        /\ state[s] = "Closed" /\ s \notin abandoned =>
                              state'[s] \in {"Closed", "Error"}
      BY DEF IndInv
    <2>1. ASSUME NEW c \in Clients, EvalEvent(c), cs[c] = s
          PROVE  /\ state[s] \in {"Closing", "Error"} => state'[s] = state[s]
                 /\ state[s] = "Closed" => s \in abandoned
      BY <2>1 DEF EvalEvent, apply_backend_execution_event, sessionVars,
                  OpenInv, EvalOpen
    <2>2. state[s] \in {"Closing", "Error"} => state'[s] \in Ending
      BY <2>1, EndingStep DEF Ending
    <2>3. state[s] = "Closed" /\ s \notin abandoned => state'[s] \in Ending
      BY <2>1, EndingStep DEF Ending
    <2>4. state[s] = "Closed" => state'[s] # "Closing"
      BY StateStep DEF CloseMark
    <2> QED
      BY <2>2, <2>3, <2>4 DEF Ending
  <1> QED
    BY Invariant, <1>1, PTL DEF Spec, CloseIsFinal
-----------------------------------------------------------------------------
(* The bookkeeping of commands *)

Pending == {"Running", "CancelRequested"}

\* Before start_operation a command has left no trace.
EvalFresh == {"eval_lock", "eval_query", "eval_worker", "eval_start"}

\* A command id belongs to one call, and the traces of it to one session.
IdInv ==
    /\ \A c \in Clients :
         /\ cop[c] # NoOp => /\ pc[c] \in EvalLocked \cup {"eval_lock"}
                             /\ opSession[cop[c]] = cs[c]
         /\ \A d \in Clients : cop[c] = cop[d] /\ cop[c] # NoOp => c = d
         /\ pc[c] \in EvalFresh =>
               /\ opStatus[cop[c]] = "None" /\ records[cop[c]] = 0
               /\ last[cs[c]] # cop[c]
    /\ \A o \in Ops : opSession[o] = NoSession =>
         opStatus[o] = "None" /\ records[o] = 0
    /\ \A s \in Sessions : last[s] # NoOp => opSession[last[s]] = s

\* No command reaches a session whose startup is not over: the session is not
\* at a prompt before that.
StartInv ==
    \A s \in Sessions : startup[s] # "done" =>
        /\ last[s] = NoOp
        /\ \A c \in Clients :
              cs[c] = s => pc[c] \notin EvalLocked \ {"eval_query"}
        /\ startup[s] # "spawn_monitor" =>
              state[s] \notin {"Ready", "Break", "Running"}

\* An operation that is not over is the last one of its session, and no
\* record of it was written.
PendingInv ==
    \A o \in Ops : opStatus[o] \in Pending =>
        /\ opSession[o] \in Sessions
        /\ last[opSession[o]] = o
        /\ records[o] = 0

\* The operation that was last when a call began is over once the call has
\* passed its state check.
EarlierInv ==
    \A c \in Clients : pc[c] \in EvalLocked \ {"eval_query"} =>
        LET o == last[cs[c]]
        IN  o # NoOp /\ o # cop[c] => opStatus[o] \notin Pending

\* What is current in a session that a call has locked is the call's own.
CurrentInv ==
    /\ \A s \in Sessions :
         state[s] \in {"Closing", "Error"} => current[s] = "none"
    /\ \A c \in Clients :
         pc[c] \in EvalLocked \ {"eval_query"} /\ current[cs[c]] = "eval" =>
             last[cs[c]] = cop[c]

\* A failed session has no operation that is not over.
ErrorInv ==
    \A s \in Sessions :
        state[s] = "Error" /\ last[s] # NoOp => opStatus[last[s]] \notin Pending

\* When another thread has ended the operation of a call, finish_operation
\* finds the session Closing or failed and leaves the record alone.
EndedInv ==
    \A c \in Clients : pc[c] \in EvalLocked /\ records[cop[c]] > 0 =>
        state[cs[c]] \in {"Closing", "Error"} \/ cs[c] \in abandoned

BookInv ==
    /\ IdInv
    /\ StartInv
    /\ PendingInv
    /\ EarlierInv
    /\ CurrentInv
    /\ ErrorInv
    /\ EndedInv
    /\ OperationInv

EvalCalls == EvalLocked \cup {"eval_lock"}
EvalPast == EvalLocked \ {"eval_query"}

\* A call that is not an eval, before and after the step.
OutsideEval(d) ==
    pc[d] \notin EvalCalls /\ pc'[d] \notin EvalCalls /\ cop'[d] = cop[d]

\* An eval that goes on with its command.
WithinEval(d) ==
    /\ pc[d] \in EvalCalls /\ pc'[d] \in EvalCalls
    /\ cop'[d] = cop[d] /\ cs'[d] = cs[d]
    /\ pc'[d] \in EvalFresh => pc[d] \in EvalFresh
    /\ pc[d] \in EvalLocked => pc'[d] \in EvalLocked
    /\ pc'[d] \in EvalPast => pc[d] \in EvalPast

\* The startup thread only moves forward.
StartupForward ==
    \A s \in Sessions :
        /\ startup'[s] # "done" => startup[s] # "done"
        /\ startup[s] = "spawn_monitor" => startup'[s] \in {"spawn_monitor", "done"}

\* Steps that leave the books alone.
LEMMA BookFrame ==
    ASSUME TypeOK, CallInv, BookInv, StartupForward,
           UNCHANGED <<state, current, last, opStatus, opSession, records>>,
           abandoned \subseteq abandoned',
           \A d \in Clients : OutsideEval(d) \/ WithinEval(d)
    PROVE  BookInv'
  <1> USE DEF BookInv, EvalCalls, EvalPast, EvalFresh, EvalLocked, OutsideEval,
              WithinEval
  <1>1. \A d \in Clients : pc'[d] \in EvalCalls =>
            pc[d] \in EvalCalls /\ cop'[d] = cop[d] /\ cs'[d] = cs[d] /\ cop[d] \in Ops
    BY DEF CallInv
  <1>2. IdInv'
    BY <1>1 DEF IdInv
  <1>3. StartInv'
    BY <1>1 DEF StartInv, StartupForward
  <1>4. PendingInv' /\ ErrorInv'
    BY DEF PendingInv, ErrorInv
  <1>5. EarlierInv'
    BY <1>1 DEF EarlierInv
  <1>6. CurrentInv'
    BY <1>1 DEF CurrentInv
  <1>7. EndedInv'
    BY <1>1 DEF EndedInv, IdInv
  <1>8. OperationInv'
    <2>1. AtMostOneRecord'
      BY DEF OperationInv, AtMostOneRecord
    <2>2. CurrentIsRunning'
      BY DEF OperationInv, CurrentIsRunning
    <2>3. OperationEnds'
      BY DEF OperationInv, OperationEnds
    <2> QED
      BY <2>1, <2>2, <2>3 DEF OperationInv
  <1> QED
    BY <1>2, <1>3, <1>4, <1>5, <1>6, <1>7, <1>8

\* Ending a session: its operation is finalized if it was pending, nothing is
\* current any more.  Whoever makes the session Closed holds its lock.
LEMMA BookEnds ==
    ASSUME TypeOK, CallInv, BookInv, StartupForward, NEW s \in Sessions,
           NEW st \in {"Closed", "Error"}, NEW status \in {"Canceled", "Failed"},
           finalize_canceled_operation(s, status),
           state' = [state EXCEPT ![s] = st],
           current' = [current EXCEPT ![s] = "none"],
           UNCHANGED <<last, opSession, clientVars, abandoned>>,
           st = "Closed" => \A c \in Clients : cs[c] = s => pc[c] \notin EvalLocked
    PROVE  BookInv'
  <1> USE DEF BookInv
  <1>1. /\ UNCHANGED <<pc, cs, cop, last, opSession, abandoned>>
        /\ state'[s] = st /\ current'[s] = "none"
        /\ \A r \in Sessions : r # s => state'[r] = state[r] /\ current'[r] = current[r]
    BY DEF clientVars, TypeOK, SessionTypeOK
  <1>2. \A o \in Ops :
          \/ opStatus'[o] = opStatus[o] /\ records'[o] = records[o]
          \/ /\ opStatus[o] \in Pending /\ last[s] = o
             /\ opStatus'[o] = status /\ records'[o] = 1 /\ records[o] = 0
    BY DEF finalize_canceled_operation, Pending, PendingInv, TypeOK, SessionTypeOK,
           AuditTypeOK
  <1>3. last[s] # NoOp => opStatus'[last[s]] \notin Pending
    BY DEF finalize_canceled_operation, Pending, TypeOK, SessionTypeOK
  <1>4. \A c \in Clients : pc[c] \in EvalCalls => cop[c] \in Ops /\ cs[c] \in Sessions
    BY DEF CallInv, EvalCalls, EvalLocked
  <1>5. \A r \in Sessions : last[r] # NoOp => last[r] \in Ops /\ opSession[last[r]] = r
    BY DEF IdInv, TypeOK, SessionTypeOK
  <1>6. status \notin Pending /\ status # "None" /\ \A o \in Ops : records[o] \in Nat
    BY DEF Pending, TypeOK, AuditTypeOK
  <1>7. IdInv'
    <2>1. \A c \in Clients : pc[c] \in EvalFresh =>
             /\ opStatus'[cop[c]] = "None" /\ records'[cop[c]] = 0
             /\ last[cs[c]] # cop[c]
      BY <1>2, <1>4 DEF IdInv, EvalFresh, EvalCalls, EvalLocked, Pending
    <2>2. \A o \in Ops : opSession[o] = NoSession =>
             opStatus'[o] = "None" /\ records'[o] = 0
      BY <1>2 DEF IdInv, Pending
    <2> QED
      BY <1>1, <2>1, <2>2 DEF IdInv
  <1>8. StartInv'
    BY <1>1 DEF StartInv, StartupForward
  <1>9. PendingInv'
    BY <1>1, <1>2, <1>6 DEF PendingInv
  <1>10. EarlierInv'
    <2> SUFFICES ASSUME NEW c \in Clients, pc[c] \in EvalPast, last[cs[c]] # NoOp,
                        last[cs[c]] # cop[c]
                 PROVE  opStatus'[last[cs[c]]] \notin Pending
      BY <1>1 DEF EarlierInv, EvalPast
    <2>1. opStatus[last[cs[c]]] \notin Pending
      BY DEF EarlierInv, EvalPast
    <2>2. last[cs[c]] \in Ops
      BY <1>4, <1>5 DEF EvalPast, EvalCalls
    <2> QED
      BY <2>1, <2>2, <1>2
  <1>11. CurrentInv'
    <2>1. \A r \in Sessions :
             state'[r] \in {"Closing", "Error"} => current'[r] = "none"
      BY <1>1 DEF CurrentInv
    <2>2. \A c \in Clients : pc[c] \in EvalPast /\ current'[cs[c]] = "eval" =>
             last[cs[c]] = cop[c]
      BY <1>1, <1>4 DEF CurrentInv, EvalPast, EvalCalls
    <2> QED
      BY <1>1, <2>1, <2>2 DEF CurrentInv, EvalPast
  <1>12. ErrorInv'
    BY <1>1, <1>2, <1>3, <1>5 DEF ErrorInv
  <1>13. EndedInv'
    <2> SUFFICES ASSUME NEW c \in Clients, pc[c] \in EvalLocked,
                        records'[cop[c]] > 0
                 PROVE  state'[cs[c]] \in {"Closing", "Error"} \/ cs[c] \in abandoned
      BY <1>1 DEF EndedInv
    <2>1. cop[c] \in Ops /\ cs[c] \in Sessions
      BY <1>4 DEF EvalCalls
    <2>2. CASE cs[c] = s
      BY <1>1, <2>2
    <2>3. CASE cs[c] # s
      <3>1. last[s] # cop[c]
        BY <1>5, <2>1, <2>3, ConstantsAssumption DEF IdInv
      <3>2. records'[cop[c]] = records[cop[c]]
        BY <1>2, <2>1, <3>1
      <3> QED
        BY <1>1, <2>1, <2>3, <3>2 DEF EndedInv
    <2> QED
      BY <2>2, <2>3
  <1>14. OperationInv'
    <2>1. AtMostOneRecord'
      <3> SUFFICES ASSUME NEW o \in Ops, records'[o] > 1
                   PROVE  opSession[o] \in abandoned
        BY <1>1 DEF AtMostOneRecord
      <3> QED
        BY <1>2, <1>6 DEF OperationInv, AtMostOneRecord
    <2>2. CurrentIsRunning'
      BY <1>1 DEF OperationInv, CurrentIsRunning
    <2>3. OperationEnds'
      <3> SUFFICES ASSUME NEW o \in Ops, opStatus'[o] \in Pending
                   PROVE  \/ state'[opSession[o]] \in {"Closing", "Closed"}
                          \/ \E c \in Clients : cop[c] = o /\ pc[c] \in EvalLocked
        BY <1>1 DEF OperationEnds, Pending
      <3>1. opStatus[o] \in Pending /\ last[s] # o
        BY <1>2, <1>3, <1>6, ConstantsAssumption
      <3>2. opSession[o] \in Sessions /\ opSession[o] # s
        BY <3>1 DEF PendingInv
      <3> QED
        BY <1>1, <3>1, <3>2 DEF OperationInv, OperationEnds, Pending
    <2> QED
      BY <2>1, <2>2, <2>3 DEF OperationInv
  <1> QED
    BY <1>7, <1>8, <1>9, <1>10, <1>11, <1>12, <1>13, <1>14

\* What the books say about the ids that calls and sessions hold.
LEMMA BookIds ==
    ASSUME TypeOK, CallInv, IdInv
    PROVE  /\ \A c \in Clients : pc[c] \in EvalCalls => cop[c] \in Ops /\ cs[c] \in Sessions
           /\ \A c \in Clients : pc[c] \notin EvalCalls => cop[c] = NoOp
           /\ \A r \in Sessions : last[r] # NoOp => last[r] \in Ops /\ opSession[last[r]] = r
           /\ \A o \in Ops : records[o] \in Nat /\ o # NoOp
  BY ConstantsAssumption DEF CallInv, EvalCalls, EvalLocked, IdInv, TypeOK, SessionTypeOK,
         AuditTypeOK, ClientTypeOK

\* A new session has no operation yet.
LEMMA BookCreate ==
    ASSUME IndInv, BookInv, NEW c \in Clients, NEW s \in Sessions,
           NEW t \in Targets, CreateSession(c, t, s)
    PROVE  BookInv'
  <1> USE DEF BookInv, IndInv
  <1>1. /\ UNCHANGED <<last, opStatus, opSession, records, cop, startup, abandoned>>
        /\ state'[s] = "Starting" /\ current'[s] = "create_session"
        /\ \A r \in Sessions : r # s => state'[r] = state[r] /\ current'[r] = current[r]
        /\ pc'[c] = "create_locks" /\ pc[c] = "idle"
        /\ \A d \in Clients : d # c => pc'[d] = pc[d] /\ cs'[d] = cs[d]
    BY DEF CreateSession, auditVars, TypeOK, SessionTypeOK, ClientTypeOK
  <1>2. \A d \in Clients : pc'[d] \in EvalCalls =>
          d # c /\ pc'[d] = pc[d] /\ cs'[d] = cs[d] /\ cs[d] \in Sessions \ {s} /\ cop[d] \in Ops
    BY <1>1 DEF CreateSession, NewInv, CallInv, EvalCalls, EvalLocked
  <1>3. cop[c] = NoOp
    BY <1>1, BookIds DEF EvalCalls, EvalLocked
  <1>4. last[s] = NoOp
    BY DEF CreateSession, NewInv, StartInv
  <1>5. IdInv'
    BY <1>1, <1>2, <1>3, <1>4 DEF IdInv, EvalFresh, EvalCalls
  <1>6. StartInv'
    BY <1>1, <1>2 DEF StartInv, EvalCalls, EvalLocked
  <1>7. PendingInv' /\ ErrorInv'
    BY <1>1 DEF PendingInv, ErrorInv
  <1>8. EarlierInv'
    BY <1>1, <1>2 DEF EarlierInv, EvalCalls
  <1>9. CurrentInv'
    BY <1>1, <1>2 DEF CurrentInv, EvalCalls
  <1>10. EndedInv'
    BY <1>1, <1>2 DEF EndedInv, EvalCalls
  <1>11. OperationInv'
    <2>1. AtMostOneRecord'
      BY <1>1 DEF OperationInv, AtMostOneRecord
    <2>2. CurrentIsRunning'
      BY <1>1 DEF OperationInv, CurrentIsRunning, EvalLocked
    <2>3. OperationEnds'
      <3> SUFFICES ASSUME NEW o \in Ops, opStatus[o] \in Pending
                   PROVE  \/ state'[opSession[o]] \in {"Closing", "Closed"}
                          \/ \E d \in Clients : cop'[d] = o /\ pc'[d] \in EvalLocked
        BY <1>1 DEF OperationEnds, Pending
      <3>1. opSession[o] \in Sessions \ {s}
        BY <1>4, BookIds DEF PendingInv
      <3> QED
        BY <1>1, <3>1 DEF OperationInv, OperationEnds, EvalLocked, Pending
    <2> QED
      BY <2>1, <2>2, <2>3 DEF OperationInv
  <1> QED
    BY <1>5, <1>6, <1>7, <1>8, <1>9, <1>10, <1>11

\* eval takes a fresh command id, of which nothing is in the books.
LEMMA BookEval ==
    ASSUME IndInv, BookInv, NEW c \in Clients, NEW s \in Sessions, NEW o \in Ops,
           Eval(c, s, o)
    PROVE  BookInv'
  <1> USE DEF BookInv, IndInv
  <1>1. /\ UNCHANGED <<state, current, last, opStatus, records, startup, abandoned>>
        /\ pc'[c] = "eval_lock" /\ pc[c] = "idle" /\ cs'[c] = s /\ cop'[c] = o
        /\ opSession'[o] = s /\ opSession[o] = NoSession
        /\ \A d \in Clients : d # c => pc'[d] = pc[d] /\ cs'[d] = cs[d] /\ cop'[d] = cop[d]
        /\ \A p \in Ops : p # o => opSession'[p] = opSession[p]
    BY DEF Eval, Goto, sessionVars, TypeOK, AuditTypeOK, ClientTypeOK
  <1>2. opStatus[o] = "None" /\ records[o] = 0
    BY <1>1 DEF IdInv
  <1>3. \A r \in Sessions : last[r] # o
    BY <1>1, BookIds, ConstantsAssumption
  <1>4. \A d \in Clients : pc'[d] \in EvalLocked => d # c /\ pc[d] = pc'[d]
    BY <1>1 DEF EvalLocked
  <1>5. \A d \in Clients : cop[d] # o
    BY <1>1, BookIds, ConstantsAssumption DEF IdInv
  <1>6. IdInv'
    <2>1. ASSUME NEW d \in Clients
          PROVE  /\ cop'[d] # NoOp => /\ pc'[d] \in EvalLocked \cup {"eval_lock"}
                                      /\ opSession'[cop'[d]] = cs'[d]
                 /\ \A e \in Clients : cop'[d] = cop'[e] /\ cop'[d] # NoOp => d = e
                 /\ pc'[d] \in EvalFresh =>
                       /\ opStatus[cop'[d]] = "None" /\ records[cop'[d]] = 0
                       /\ last[cs'[d]] # cop'[d]
      BY <1>1, <1>2, <1>3, <1>5, BookIds DEF IdInv, EvalCalls, EvalFresh
    <2>2. \A p \in Ops : opSession'[p] = NoSession =>
             opStatus[p] = "None" /\ records[p] = 0
      BY <1>1, ConstantsAssumption DEF IdInv
    <2>3. \A r \in Sessions : last[r] # NoOp => opSession'[last[r]] = r
      BY <1>1, <1>3, BookIds
    <2> QED
      BY <1>1, <2>1, <2>2, <2>3 DEF IdInv
  <1>7. StartInv'
    BY <1>1, <1>4 DEF StartInv
  <1>8. PendingInv' /\ ErrorInv'
    BY <1>1, <1>2 DEF PendingInv, ErrorInv, Pending
  <1>9. EarlierInv'
    BY <1>1, <1>4 DEF EarlierInv
  <1>10. CurrentInv'
    BY <1>1, <1>4 DEF CurrentInv
  <1>11. EndedInv'
    BY <1>1, <1>4 DEF EndedInv
  <1>12. OperationInv'
    <2>1. AtMostOneRecord'
      BY <1>1, <1>2 DEF OperationInv, AtMostOneRecord
    <2>2. CurrentIsRunning'
      BY <1>1, <1>4 DEF OperationInv, CurrentIsRunning, EvalLocked
    <2>3. OperationEnds'
      BY <1>1, <1>2 DEF OperationInv, OperationEnds, EvalLocked
    <2> QED
      BY <2>1, <2>2, <2>3 DEF OperationInv
  <1> QED
    BY <1>6, <1>7, <1>8, <1>9, <1>10, <1>11, <1>12

\* An empty command leaves one record and nothing else.
LEMMA BookEmpty ==
    ASSUME IndInv, BookInv, NEW c \in Clients, NEW s \in Sessions, NEW o \in Ops,
           EvalEmpty(c, s, o)
    PROVE  BookInv'
  <1> USE DEF BookInv, IndInv
  <1>1. /\ UNCHANGED <<state, current, last, opStatus, startup, abandoned, pc, cs, cop>>
        /\ opSession'[o] = s /\ opSession[o] = NoSession
        /\ records[o] = 0 /\ records'[o] = 1 /\ opStatus[o] = "None"
        /\ \A p \in Ops : p # o => opSession'[p] = opSession[p] /\ records'[p] = records[p]
    BY DEF EvalEmpty, sessionVars, clientVars, TypeOK, AuditTypeOK, IdInv
  <1>2. \A r \in Sessions : last[r] # o
    BY <1>1, BookIds, ConstantsAssumption
  <1>3. \A d \in Clients : cop[d] # o
    BY <1>1, BookIds, ConstantsAssumption DEF IdInv
  <1>4. IdInv'
    <2>1. ASSUME NEW d \in Clients
          PROVE  /\ cop[d] # NoOp => opSession'[cop[d]] = cs[d]
                 /\ pc[d] \in EvalFresh => records'[cop[d]] = 0
      BY <1>1, <1>3, BookIds DEF IdInv, EvalCalls, EvalFresh, EvalLocked
    <2>2. \A p \in Ops : opSession'[p] = NoSession => records'[p] = 0 /\ opStatus[p] = "None"
      BY <1>1, ConstantsAssumption DEF IdInv
    <2>3. \A r \in Sessions : last[r] # NoOp => opSession'[last[r]] = r
      BY <1>1, <1>2, BookIds
    <2> QED
      BY <1>1, <2>1, <2>2, <2>3 DEF IdInv
  <1>5. StartInv' /\ CurrentInv' /\ EarlierInv'
    BY <1>1 DEF StartInv, CurrentInv, EarlierInv
  <1>6. PendingInv' /\ ErrorInv'
    BY <1>1 DEF PendingInv, ErrorInv, Pending
  <1>7. EndedInv'
    BY <1>1, <1>3, BookIds DEF EndedInv, EvalCalls
  <1>8. OperationInv'
    BY <1>1 DEF OperationInv, AtMostOneRecord, CurrentIsRunning, OperationEnds
  <1> QED
    BY <1>4, <1>5, <1>6, <1>7, <1>8

\* close_session asks for the operation to be canceled, or finds none.
LEMMA BookCloseMark ==
    ASSUME IndInv, BookInv, NEW c \in Clients, CloseMark(c)
    PROVE  BookInv'
  <1> DEFINE s == cs[c]
  <1> USE DEF BookInv, IndInv
  <1>1. /\ s \in Sessions /\ pc[c] = "close_mark"
        /\ state[s] \notin {"Closed", "Closing"}
    BY DEF CloseMark, CallInv
  <1>2. /\ UNCHANGED <<last, opSession, records, startup>>
        /\ current'[s] = "none" /\ state'[s] \in {"Closing", "Closed"}
        /\ \A r \in Sessions : r # s => state'[r] = state[r] /\ current'[r] = current[r]
    BY <1>1 DEF CloseMark, auditVars, TypeOK, SessionTypeOK
  <1>3. /\ cop'[c] = NoOp /\ pc'[c] \notin EvalCalls /\ cop[c] = NoOp
        /\ \A d \in Clients : d # c => pc'[d] = pc[d] /\ cs'[d] = cs[d] /\ cop'[d] = cop[d]
    <2>1. cop[c] = NoOp
      BY <1>1, BookIds DEF EvalCalls, EvalLocked
    <2> QED
      BY <1>1, <2>1 DEF CloseMark, Return, TypeOK, ClientTypeOK, EvalCalls, EvalLocked
  <1>4. \A o \in Ops :
          \/ opStatus'[o] = opStatus[o]
          \/ opStatus[o] = "Running" /\ opStatus'[o] = "CancelRequested" /\ last[s] = o
    BY DEF CloseMark, TypeOK, SessionTypeOK
  <1>5. \A d \in Clients : pc'[d] \in EvalCalls =>
          d # c /\ pc[d] \in EvalCalls /\ pc'[d] = pc[d] /\ cs'[d] = cs[d]
            /\ cop'[d] = cop[d] /\ cop[d] \in Ops /\ cs[d] \in Sessions
    BY <1>3, BookIds
  <1>6. \A d \in Clients : pc[d] \in EvalCalls =>
          d # c /\ pc'[d] = pc[d] /\ cs'[d] = cs[d] /\ cop'[d] = cop[d]
    BY <1>1, <1>3 DEF EvalCalls, EvalLocked
  <1>7. \/ abandoned' = abandoned /\ state'[s] = "Closing"
        \/ /\ state'[s] = "Closed"
           /\ abandoned' = IF \E d \in Clients : lock[s] = <<"eval", d>>
                           THEN abandoned \cup {s} ELSE abandoned
    BY <1>1 DEF CloseMark, TypeOK, SessionTypeOK
  <1>8. abandoned \subseteq abandoned'
    BY <1>7
  <1>9. IdInv'
    <2>1. \A d \in Clients : cop'[d] # NoOp =>
            d # c /\ pc'[d] = pc[d] /\ cs'[d] = cs[d] /\ cop'[d] = cop[d]
      BY <1>3
    <2>2. \A d \in Clients : pc'[d] \in EvalFresh => opStatus'[cop'[d]] = "None"
      BY <1>4, <1>5 DEF IdInv, EvalFresh, EvalCalls, EvalLocked
    <2>3. \A o \in Ops : opSession[o] = NoSession => opStatus'[o] = "None"
      BY <1>4 DEF IdInv
    <2>4. \A d \in Clients :
            /\ cop'[d] # NoOp => /\ pc'[d] \in EvalLocked \cup {"eval_lock"}
                                 /\ opSession[cop'[d]] = cs'[d]
            /\ \A e \in Clients : cop'[d] = cop'[e] /\ cop'[d] # NoOp => d = e
      BY <2>1 DEF IdInv
    <2>5. \A d \in Clients : pc'[d] \in EvalFresh =>
            records[cop'[d]] = 0 /\ last[cs'[d]] # cop'[d]
      BY <1>5 DEF IdInv, EvalFresh, EvalCalls, EvalLocked
    <2> QED
      BY <1>2, <2>2, <2>3, <2>4, <2>5 DEF IdInv
  <1>10. StartInv'
    BY <1>2, <1>5 DEF StartInv, EvalCalls
  <1>11. PendingInv'
    BY <1>2, <1>4 DEF PendingInv, Pending
  <1>12. EarlierInv'
    <2> SUFFICES ASSUME NEW d \in Clients, pc'[d] \in EvalPast, last[cs'[d]] # NoOp,
                        last[cs'[d]] # cop'[d]
                 PROVE  opStatus'[last[cs'[d]]] \notin Pending
      BY <1>2 DEF EarlierInv, EvalPast
    <2>1. opStatus[last[cs[d]]] \notin Pending /\ cs'[d] = cs[d] /\ last[cs[d]] \in Ops
      BY <1>5, BookIds DEF EarlierInv, EvalPast, EvalCalls
    <2> QED
      BY <2>1, <1>4 DEF Pending
  <1>13. CurrentInv'
    <2>1. \A d \in Clients : pc'[d] \in EvalPast /\ current'[cs'[d]] = "eval" =>
             last[cs'[d]] = cop'[d]
      BY <1>2, <1>5 DEF CurrentInv, EvalPast, EvalCalls
    <2> QED
      BY <1>2, <2>1 DEF CurrentInv, EvalPast
  <1>14. ErrorInv'
    BY <1>2, <1>4, BookIds DEF ErrorInv, Pending
  <1>15. EndedInv'
    <2> SUFFICES ASSUME NEW d \in Clients, pc'[d] \in EvalLocked,
                        records[cop[d]] > 0, cs'[d] = cs[d], pc[d] \in EvalLocked
                 PROVE  state'[cs[d]] \in {"Closing", "Error"} \/ cs[d] \in abandoned'
      BY <1>2, <1>5 DEF EndedInv, EvalCalls
    <2>1. CASE cs[d] # s
      BY <1>2, <1>5, <1>8, <2>1 DEF EndedInv, EvalCalls
    <2>2. CASE cs[d] = s
      <3>1. lock[s] = <<"eval", d>>
        BY <1>1, <2>2 DEF LockInv
      <3> QED
        BY <1>7, <2>2, <3>1
    <2> QED
      BY <2>1, <2>2
  <1>16. OperationInv'
    <2>1. AtMostOneRecord'
      BY <1>2, <1>8 DEF OperationInv, AtMostOneRecord
    <2>2. CurrentIsRunning'
      BY <1>2, <1>6 DEF OperationInv, CurrentIsRunning, EvalCalls
    <2>3. OperationEnds'
      <3> SUFFICES ASSUME NEW o \in Ops, opStatus'[o] \in Pending
                   PROVE  \/ state'[opSession[o]] \in {"Closing", "Closed"}
                          \/ \E d \in Clients : cop'[d] = o /\ pc'[d] \in EvalLocked
        BY <1>2 DEF OperationEnds, Pending
      <3>1. opStatus[o] \in Pending /\ opSession[o] \in Sessions
        BY <1>4 DEF Pending, PendingInv
      <3> QED
        BY <1>2, <1>6, <3>1 DEF OperationInv, OperationEnds, Pending, EvalCalls
    <2> QED
      BY <2>1, <2>2, <2>3 DEF OperationInv
  <1> QED
    BY <1>9, <1>10, <1>11, <1>12, <1>13, <1>14, <1>15, <1>16

\* A rejected command leaves one record.
LEMMA BookReject ==
    ASSUME IndInv, BookInv, NEW c \in Clients, pc[c] \in EvalFresh, Reject(c),
           UNCHANGED <<state, current, last, opStatus, opSession, startup, abandoned>>
    PROVE  BookInv'
  <1> USE DEF BookInv, IndInv
  <1>1. /\ pc[c] \in EvalCalls /\ cop[c] \in Ops
        /\ records[cop[c]] = 0 /\ records'[cop[c]] = 1
        /\ opStatus[cop[c]] = "None" /\ last[cs[c]] # cop[c]
        /\ \A p \in Ops : p # cop[c] => records'[p] = records[p]
    BY BookIds DEF Reject, IdInv, EvalFresh, EvalCalls, EvalLocked, TypeOK, AuditTypeOK
  <1>2. /\ cop'[c] = NoOp /\ pc'[c] = "idle"
        /\ \A d \in Clients : d # c => pc'[d] = pc[d] /\ cs'[d] = cs[d] /\ cop'[d] = cop[d]
    BY DEF Reject, Return, TypeOK, ClientTypeOK
  <1>3. \A d \in Clients : pc'[d] \in EvalCalls =>
          /\ d # c /\ pc[d] \in EvalCalls /\ pc'[d] = pc[d] /\ cs'[d] = cs[d]
          /\ cop'[d] = cop[d] /\ cop[d] \in Ops /\ cop[d] # cop[c]
          /\ records'[cop[d]] = records[cop[d]]
    BY <1>1, <1>2, BookIds DEF EvalCalls, EvalLocked, IdInv
  <1>4. IdInv'
    <2>1. \A d \in Clients :
            /\ cop'[d] # NoOp => /\ pc'[d] \in EvalLocked \cup {"eval_lock"}
                                 /\ opSession[cop'[d]] = cs'[d]
            /\ \A e \in Clients : cop'[d] = cop'[e] /\ cop'[d] # NoOp => d = e
      BY <1>2 DEF IdInv
    <2>2. \A d \in Clients : pc'[d] \in EvalFresh =>
            opStatus[cop'[d]] = "None" /\ records'[cop'[d]] = 0 /\ last[cs'[d]] # cop'[d]
      BY <1>3 DEF IdInv, EvalFresh, EvalCalls, EvalLocked
    <2>3. opSession[cop[c]] # NoSession
      BY <1>1, BookIds, ConstantsAssumption DEF IdInv
    <2>4. \A o \in Ops : opSession[o] = NoSession => records'[o] = 0
      BY <1>1, <2>3 DEF IdInv
    <2> QED
      BY <2>1, <2>2, <2>4 DEF IdInv
  <1>5. StartInv' /\ CurrentInv' /\ EarlierInv'
    BY <1>3 DEF StartInv, CurrentInv, EarlierInv, EvalCalls
  <1>6. PendingInv' /\ ErrorInv'
    BY <1>1 DEF PendingInv, ErrorInv, Pending
  <1>7. EndedInv'
    BY <1>3 DEF EndedInv, EvalCalls
  <1>8. OperationInv'
    <2>1. AtMostOneRecord'
      BY <1>1 DEF OperationInv, AtMostOneRecord
    <2>2. CurrentIsRunning'
      <3> SUFFICES ASSUME NEW r \in Sessions, current[r] = "eval", state[r] # "Closed"
                   PROVE  \E d \in Clients : cs'[d] = r /\ cop'[d] = last[r]
                                             /\ pc'[d] \in EvalLocked
        BY DEF CurrentIsRunning
      <3>1. PICK d \in Clients : cs[d] = r /\ cop[d] = last[r] /\ pc[d] \in EvalLocked
        BY DEF OperationInv, CurrentIsRunning
      <3>2. d # c
        BY <1>1, <3>1
      <3> QED
        BY <1>2, <3>1, <3>2
    <2>3. OperationEnds'
      BY <1>1, <1>2 DEF OperationInv, OperationEnds
    <2> QED
      BY <2>1, <2>2, <2>3 DEF OperationInv
  <1> QED
    BY <1>4, <1>5, <1>6, <1>7, <1>8

\* At a prompt no operation is pending and none is current: the call that
\* finds the session there is alone with it.
LEMMA BookQuery ==
    ASSUME IndInv, BookInv, NEW c \in Clients, pc[c] = "eval_query",
           state[cs[c]] \in {"Ready", "Break"}, Goto(c, "eval_worker"),
           UNCHANGED <<state, current, last, opStatus, opSession, records, startup,
                       abandoned, cs, cop>>
    PROVE  BookInv'
  <1> DEFINE s == cs[c]
  <1> USE DEF BookInv, IndInv
  <1>1. s \in Sessions /\ cop[c] \in Ops /\ pc[c] \in EvalLocked /\ last[s] # cop[c]
    BY BookIds DEF EvalCalls, EvalLocked, IdInv, EvalFresh
  <1>2. pc'[c] = "eval_worker" /\ \A d \in Clients : d # c => pc'[d] = pc[d]
    BY DEF Goto, TypeOK, ClientTypeOK
  <1>3. last[s] # NoOp => opStatus[last[s]] \notin Pending
    <2> SUFFICES ASSUME last[s] # NoOp, opStatus[last[s]] \in Pending PROVE FALSE
      OBVIOUS
    <2>1. last[s] \in Ops /\ opSession[last[s]] = s
      BY <1>1, BookIds
    <2>2. PICK d \in Clients : cop[d] = last[s] /\ pc[d] \in EvalLocked
      BY <2>1 DEF OperationInv, OperationEnds, Pending
    <2>3. cs[d] = s
      BY <2>1, <2>2, ConstantsAssumption DEF IdInv
    <2> QED
      BY <1>1, <2>2, <2>3, OneEval
  <1>4. current[s] # "eval"
    BY <1>1, OneEval DEF OperationInv, CurrentIsRunning
  <1>5. startup[s] = "done"
    <2>1. startup[s] \notin StartupHolds
      BY <1>1, DistinctHolders DEF LockInv
    <2> QED
      BY <1>1, <2>1 DEF StartInv, StartupHolds
  <1>6. IdInv'
    BY <1>1, <1>2 DEF IdInv, EvalFresh, EvalLocked
  <1>7. StartInv'
    BY <1>2, <1>5 DEF StartInv
  <1>8. PendingInv' /\ ErrorInv'
    BY DEF PendingInv, ErrorInv
  <1>9. EarlierInv'
    BY <1>2, <1>3 DEF EarlierInv
  <1>10. CurrentInv'
    BY <1>2, <1>4 DEF CurrentInv
  <1>11. EndedInv'
    BY <1>1, <1>2 DEF EndedInv
  <1>12. OperationInv'
    <2>1. AtMostOneRecord'
      BY DEF OperationInv, AtMostOneRecord
    <2>2. CurrentIsRunning'
      BY <1>1, <1>2 DEF OperationInv, CurrentIsRunning, EvalLocked
    <2>3. OperationEnds'
      BY <1>1, <1>2 DEF OperationInv, OperationEnds, EvalLocked
    <2> QED
      BY <2>1, <2>2, <2>3 DEF OperationInv
  <1> QED
    BY <1>6, <1>7, <1>8, <1>9, <1>10, <1>11, <1>12

\* start_operation enters the command in the books, or finds the session
\* closed and leaves them alone.
LEMMA BookStart ==
    ASSUME IndInv, BookInv, NEW c \in Clients, EvalStart(c)
    PROVE  BookInv'
  <1> DEFINE s == cs[c]
             o == cop[c]
  <1> USE DEF BookInv, IndInv
  <1>1. /\ s \in Sessions /\ o \in Ops /\ pc[c] = "eval_start" /\ last[s] # o
        /\ opStatus[o] = "None" /\ records[o] = 0 /\ opSession[o] = s
        /\ snap[c] \in {"Ready", "Break"} /\ o # NoOp
    BY BookIds DEF EvalStart, EvalCalls, EvalLocked, IdInv, EvalFresh, SnapInv
  <1>2. /\ UNCHANGED <<cs, cop, startup, opSession, records, abandoned>>
        /\ pc'[c] = "eval_send" /\ \A d \in Clients : d # c => pc'[d] = pc[d]
    BY DEF EvalStart, Goto, auditVars, TypeOK, ClientTypeOK
  <1>3. startup[s] = "done"
    BY <1>1 DEF StartInv, EvalLocked
  <1>4. CASE is_terminal(state[s]) \/ state[s] = "Closing"
    <2>1. UNCHANGED <<state, current, last, opStatus>>
      BY <1>4 DEF EvalStart, sessionVars
    <2>2. \A d \in Clients : OutsideEval(d) \/ WithinEval(d)
      BY <1>1, <1>2
      DEF OutsideEval, WithinEval, EvalCalls, EvalLocked, EvalPast, EvalFresh
    <2> QED
      BY <1>2, <2>1, <2>2, BookFrame DEF StartupForward
  <1>5. CASE ~(is_terminal(state[s]) \/ state[s] = "Closing")
    <2>1. /\ state'[s] = snap[c] /\ current'[s] = "eval" /\ last'[s] = o
          /\ opStatus'[o] = "Running"
          /\ \A r \in Sessions : r # s =>
                state'[r] = state[r] /\ current'[r] = current[r] /\ last'[r] = last[r]
          /\ \A p \in Ops : p # o => opStatus'[p] = opStatus[p]
      BY <1>1, <1>5 DEF EvalStart, TypeOK, SessionTypeOK
    <2>2. \A d \in Clients : d # c => cop[d] # o
      BY <1>1 DEF IdInv
    <2>3. \A d \in Clients : pc'[d] \in EvalLocked /\ cs[d] = s => d = c
      BY <1>1, <1>2, OneEval DEF EvalLocked
    <2>4. \A r \in Sessions : last[r] # o
      BY <1>1, BookIds
    <2>5. \A r \in Sessions : last'[r] # NoOp => last'[r] \in Ops /\ opSession[last'[r]] = r
      BY <1>1, <2>1, BookIds
    <2>6. IdInv'
      <3>1. \A d \in Clients :
              cop[d] # NoOp => pc'[d] \in EvalLocked \cup {"eval_lock"}
        BY <1>2 DEF IdInv, EvalLocked
      <3>2. \A d \in Clients : pc'[d] \in EvalFresh =>
              /\ d # c /\ pc[d] \in EvalFresh /\ cop[d] \in Ops /\ cs[d] \in Sessions
        BY <1>2, BookIds DEF EvalFresh, EvalCalls, EvalLocked
      <3>3. \A d \in Clients : pc'[d] \in EvalFresh =>
              opStatus'[cop[d]] = "None" /\ records[cop[d]] = 0 /\ last'[cs[d]] # cop[d]
        BY <2>1, <2>2, <3>2 DEF IdInv
      <3>4. \A p \in Ops : opSession[p] = NoSession =>
              opStatus'[p] = "None" /\ records[p] = 0
        BY <1>1, <2>1, ConstantsAssumption DEF IdInv
      <3> QED
        BY <1>2, <2>5, <3>1, <3>3, <3>4 DEF IdInv
    <2>7. StartInv'
      BY <1>2, <1>3, <2>1 DEF StartInv
    <2>8. PendingInv'
      <3> SUFFICES ASSUME NEW p \in Ops, opStatus'[p] \in Pending
                   PROVE  /\ opSession[p] \in Sessions
                          /\ last'[opSession[p]] = p /\ records[p] = 0
        BY <1>2 DEF PendingInv
      <3>1. CASE p = o
        BY <1>1, <2>1, <3>1
      <3>2. CASE p # o
        <4>1. opStatus[p] \in Pending
          BY <2>1, <3>2
        <4>2. opSession[p] \in Sessions /\ last[opSession[p]] = p /\ records[p] = 0
          BY <4>1 DEF PendingInv
        <4>3. opSession[p] # s
          BY <1>1, <3>2, <4>1, <4>2, BookIds DEF EarlierInv, EvalLocked
        <4> QED
          BY <2>1, <4>2, <4>3
      <3> QED
        BY <3>1, <3>2
    <2>9. EarlierInv'
      <3> SUFFICES ASSUME NEW d \in Clients, pc'[d] \in EvalPast, last'[cs[d]] # NoOp,
                          last'[cs[d]] # cop[d]
                   PROVE  opStatus'[last'[cs[d]]] \notin Pending
        BY <1>2 DEF EarlierInv, EvalPast
      <3>1. d # c
        BY <2>1
      <3>2. pc[d] \in EvalPast /\ cs[d] \in Sessions /\ cs[d] # s
        BY <1>2, <2>3, <3>1, BookIds DEF EvalPast, EvalCalls
      <3>3. opStatus[last[cs[d]]] \notin Pending /\ last[cs[d]] \in Ops /\ last[cs[d]] # o
        BY <2>1, <2>4, <3>2, BookIds DEF EarlierInv, EvalPast
      <3> QED
        BY <2>1, <3>2, <3>3
    <2>10. CurrentInv'
      <3>1. \A r \in Sessions :
              state'[r] \in {"Closing", "Error"} => current'[r] = "none"
        BY <1>1, <2>1 DEF CurrentInv
      <3>2. \A d \in Clients : pc'[d] \in EvalPast /\ current'[cs[d]] = "eval" =>
              last'[cs[d]] = cop[d]
        <4> SUFFICES ASSUME NEW d \in Clients, pc'[d] \in EvalPast,
                            current'[cs[d]] = "eval"
                     PROVE  last'[cs[d]] = cop[d]
          OBVIOUS
        <4>1. CASE d = c
          BY <2>1, <4>1
        <4>2. CASE d # c
          <5>1. pc[d] \in EvalPast /\ cs[d] \in Sessions /\ cs[d] # s
            BY <1>2, <2>3, <4>2, BookIds DEF EvalPast, EvalCalls
          <5> QED
            BY <2>1, <5>1 DEF CurrentInv, EvalPast
        <4> QED
          BY <4>1, <4>2
      <3> QED
        BY <1>2, <3>1, <3>2 DEF CurrentInv, EvalPast
    <2>11. ErrorInv'
      <3> SUFFICES ASSUME NEW r \in Sessions, state'[r] = "Error", last'[r] # NoOp
                   PROVE  opStatus'[last'[r]] \notin Pending
        BY DEF ErrorInv
      <3>1. r # s
        BY <1>1, <2>1
      <3>2. last[r] \in Ops /\ last[r] # o /\ opStatus[last[r]] \notin Pending
        BY <2>1, <2>4, <3>1, BookIds DEF ErrorInv
      <3> QED
        BY <2>1, <3>1, <3>2
    <2>12. EndedInv'
      <3> SUFFICES ASSUME NEW d \in Clients, pc'[d] \in EvalLocked, records[cop[d]] > 0
                   PROVE  state'[cs[d]] \in {"Closing", "Error"} \/ cs[d] \in abandoned
        BY <1>2 DEF EndedInv
      <3>1. d # c
        BY <1>1
      <3>2. pc[d] \in EvalLocked /\ cs[d] \in Sessions /\ cs[d] # s
        BY <1>2, <2>3, <3>1, BookIds DEF EvalCalls
      <3> QED
        BY <2>1, <3>2 DEF EndedInv
    <2>13. OperationInv'
      <3>1. AtMostOneRecord'
        BY <1>2 DEF OperationInv, AtMostOneRecord
      <3>2. CurrentIsRunning'
        BY <1>2, <2>1 DEF OperationInv, CurrentIsRunning, EvalLocked
      <3>3. OperationEnds'
        <4> SUFFICES ASSUME NEW p \in Ops, opStatus'[p] \in Pending
                     PROVE  \/ state'[opSession[p]] \in {"Closing", "Closed"}
                            \/ \E d \in Clients : cop[d] = p /\ pc'[d] \in EvalLocked
          BY <1>2 DEF OperationEnds, Pending
        <4>1. CASE p = o
          BY <1>2, <4>1 DEF EvalLocked
        <4>2. CASE p # o
          <5>1. opStatus[p] \in Pending /\ opSession[p] \in Sessions
            BY <2>1, <4>2 DEF PendingInv
          <5>2. opSession[p] # s
            BY <2>1, <2>8, <4>2, <1>2 DEF PendingInv
          <5> QED
            BY <1>2, <2>1, <5>1, <5>2 DEF OperationInv, OperationEnds, Pending, EvalLocked
        <4> QED
          BY <4>1, <4>2
      <3> QED
        BY <3>1, <3>2, <3>3 DEF OperationInv
    <2> QED
      BY <2>6, <2>7, <2>8, <2>9, <2>10, <2>11, <2>12, <2>13
  <1> QED
    BY <1>4, <1>5

\* An event changes the state of a session whose lock the call holds, and
\* neither a close nor a failure.
LEMMA BookEvent ==
    ASSUME IndInv, BookInv, NEW c \in Clients, EvalEvent(c)
    PROVE  BookInv'
  <1> DEFINE s == cs[c]
  <1> USE DEF BookInv, IndInv
  <1>1. s \in Sessions /\ pc[c] \in {"eval_wait", "eval_ran"} /\ cop[c] \in Ops
    BY BookIds DEF EvalEvent, EvalCalls, EvalLocked
  <1>2. /\ UNCHANGED <<current, last, opStatus, cs, cop, startup, opSession, records,
                       abandoned>>
        /\ pc'[c] \in {"eval_ran", "eval_last"}
        /\ \A d \in Clients : d # c => pc'[d] = pc[d]
    BY DEF EvalEvent, Goto, apply_backend_execution_event, sessionVars, auditVars,
           TypeOK, ClientTypeOK
  <1>3. /\ \/ state'[s] = state[s]
           \/ state[s] \notin {"Closing", "Error"} /\ state'[s] \in ExecutionState
        /\ \A r \in Sessions : r # s => state'[r] = state[r]
    BY <1>1 DEF EvalEvent, apply_backend_execution_event, sessionVars, TypeOK,
                SessionTypeOK, ExecutionState
  <1>4. startup[s] = "done"
    BY <1>1 DEF StartInv, EvalLocked
  <1>5. \A d \in Clients :
          /\ pc'[d] \in EvalLocked <=> pc[d] \in EvalLocked
          /\ pc'[d] \in EvalPast <=> pc[d] \in EvalPast
          /\ pc'[d] \in EvalCalls <=> pc[d] \in EvalCalls
          /\ pc'[d] \in EvalFresh <=> pc[d] \in EvalFresh
    BY <1>1, <1>2 DEF EvalLocked, EvalPast, EvalFresh, EvalCalls
  <1>6. IdInv'
    BY <1>2, <1>5 DEF IdInv, EvalCalls
  <1>7. StartInv'
    BY <1>2, <1>3, <1>4, <1>5 DEF StartInv, EvalPast
  <1>8. PendingInv' /\ EarlierInv'
    BY <1>2, <1>5 DEF PendingInv, EarlierInv, EvalPast
  <1>9. CurrentInv' /\ ErrorInv'
    BY <1>2, <1>3, <1>5 DEF CurrentInv, ErrorInv, EvalPast, ExecutionState
  <1>10. EndedInv'
    <2> SUFFICES ASSUME NEW d \in Clients, pc[d] \in EvalLocked, records[cop[d]] > 0
                 PROVE  state'[cs[d]] \in {"Closing", "Error"} \/ cs[d] \in abandoned
      BY <1>2, <1>5 DEF EndedInv
    <2> QED
      BY <1>3, BookIds DEF EndedInv, EvalCalls
  <1>11. OperationInv'
    <2>1. AtMostOneRecord'
      BY <1>2 DEF OperationInv, AtMostOneRecord
    <2>2. CurrentIsRunning'
      <3> SUFFICES ASSUME NEW r \in Sessions, current[r] = "eval", state'[r] # "Closed"
                   PROVE  \E d \in Clients : cs[d] = r /\ cop[d] = last[r]
                                             /\ pc[d] \in EvalLocked
        BY <1>2, <1>5 DEF CurrentIsRunning
      <3>1. CASE r # s
        BY <1>3, <3>1 DEF OperationInv, CurrentIsRunning
      <3>2. CASE r = s
        BY <1>1, <3>2 DEF CurrentInv, EvalLocked
      <3> QED
        BY <3>1, <3>2
    <2>3. OperationEnds'
      <3> SUFFICES ASSUME NEW o \in Ops, opStatus[o] \in Pending
                   PROVE  \/ state'[opSession[o]] \in {"Closing", "Closed"}
                          \/ \E d \in Clients : cop[d] = o /\ pc[d] \in EvalLocked
        BY <1>2, <1>5 DEF OperationEnds, Pending
      <3>1. opSession[o] \in Sessions /\ last[opSession[o]] = o /\ o # NoOp
        BY BookIds DEF PendingInv
      <3>2. CASE opSession[o] # s
        BY <1>3, <3>1, <3>2 DEF OperationInv, OperationEnds, Pending
      <3>3. CASE opSession[o] = s
        BY <1>1, <3>1, <3>3 DEF EarlierInv, EvalLocked
      <3> QED
        BY <3>2, <3>3
    <2> QED
      BY <2>1, <2>2, <2>3 DEF OperationInv
  <1> QED
    BY <1>6, <1>7, <1>8, <1>9, <1>10, <1>11

\* finish_operation ends the command of the call, unless another thread did.
LEMMA BookFinish ==
    ASSUME IndInv, BookInv, NEW c \in Clients, EvalFinish(c)
    PROVE  BookInv'
  <1> DEFINE s == cs[c]
             o == cop[c]
             status == IF fin[c] = "Finished" THEN "Finished" ELSE "Failed"
  <1> USE DEF BookInv, IndInv
  <1>1. /\ s \in Sessions /\ o \in Ops /\ pc[c] = "eval_finish" /\ opSession[o] = s
        /\ pc[c] \in EvalPast /\ o # NoOp /\ status \in {"Finished", "Failed"}
    BY BookIds DEF EvalFinish, EvalCalls, EvalLocked, EvalPast, IdInv
  <1>2. /\ UNCHANGED <<last, opSession, startup, abandoned>>
        /\ pc'[c] = "idle" /\ cop'[c] = NoOp
        /\ \A d \in Clients : d # c => pc'[d] = pc[d] /\ cs'[d] = cs[d] /\ cop'[d] = cop[d]
    BY DEF EvalFinish, Return, sessionVars, TypeOK, ClientTypeOK
  <1>3. \A d \in Clients : pc'[d] \in EvalCalls =>
          /\ d # c /\ pc[d] \in EvalCalls /\ pc'[d] = pc[d] /\ cs'[d] = cs[d]
          /\ cop'[d] = cop[d] /\ cop[d] \in Ops /\ cop[d] # o /\ cs[d] \in Sessions
    BY <1>1, <1>2, BookIds DEF EvalCalls, EvalLocked, IdInv
  <1>4. \A d \in Clients : pc'[d] \in EvalLocked => cs[d] # s
    BY <1>1, <1>3, OneEval DEF EvalPast, EvalCalls
  <1>5. \A p \in Ops : opSession[p] = s /\ opStatus[p] \in Pending => p = o
    BY <1>1, BookIds DEF PendingInv, EarlierInv, EvalPast
  <1>6. \A d \in Clients : pc[d] \in EvalLocked /\ d # c => pc'[d] \in EvalLocked
    BY <1>2
  <1>7. startup[s] = "done"
    BY <1>1 DEF StartInv, EvalPast
  <1>8. \A d \in Clients :
          /\ cop'[d] # NoOp => /\ pc'[d] \in EvalLocked \cup {"eval_lock"}
                               /\ opSession[cop'[d]] = cs'[d]
          /\ \A e \in Clients : cop'[d] = cop'[e] /\ cop'[d] # NoOp => d = e
    BY <1>2 DEF IdInv
  <1>9. ASSUME ~finish_operation_applies(s, snap[c], status) PROVE BookInv'
    <2>1. UNCHANGED <<state, current, opStatus, records>>
      BY <1>9 DEF EvalFinish, sessionVars
    <2>2. state[s] \in {"Closing", "Closed", "Error"}
      BY <1>9 DEF finish_operation_applies, is_terminal
    <2>3. IdInv'
      <3>1. \A d \in Clients : pc'[d] \in EvalFresh =>
              opStatus[cop'[d]] = "None" /\ records[cop'[d]] = 0 /\ last[cs'[d]] # cop'[d]
        BY <1>3 DEF IdInv, EvalFresh, EvalCalls, EvalLocked
      <3> QED
        BY <1>2, <1>8, <2>1, <3>1 DEF IdInv
    <2>4. StartInv' /\ PendingInv' /\ ErrorInv'
      BY <1>2, <1>3, <2>1 DEF StartInv, PendingInv, ErrorInv, EvalCalls
    <2>5. EarlierInv' /\ CurrentInv' /\ EndedInv'
      BY <1>2, <1>3, <2>1 DEF EarlierInv, CurrentInv, EndedInv, EvalCalls
    <2>6. CurrentIsRunning'
      <3> SUFFICES ASSUME NEW r \in Sessions, current[r] = "eval", state[r] # "Closed"
                   PROVE  \E d \in Clients : cs'[d] = r /\ cop'[d] = last[r]
                                             /\ pc'[d] \in EvalLocked
        BY <1>2, <2>1 DEF CurrentIsRunning
      <3>1. r # s
        BY <2>2 DEF CurrentInv
      <3>2. PICK d \in Clients : cs[d] = r /\ cop[d] = last[r] /\ pc[d] \in EvalLocked
        BY DEF OperationInv, CurrentIsRunning
      <3> QED
        BY <1>2, <3>1, <3>2
    <2>7. OperationEnds'
      <3> SUFFICES ASSUME NEW p \in Ops, opStatus[p] \in Pending
                   PROVE  \/ state[opSession[p]] \in {"Closing", "Closed"}
                          \/ \E d \in Clients : cop'[d] = p /\ pc'[d] \in EvalLocked
        BY <1>2, <2>1 DEF OperationEnds, Pending
      <3>1. CASE opSession[p] = s
        BY <1>1, <2>2, <3>1, BookIds DEF ErrorInv, PendingInv
      <3>2. CASE opSession[p] # s
        <4>1. p # o
          BY <1>1, <3>2
        <4> QED
          BY <1>2, <4>1 DEF OperationInv, OperationEnds, Pending
      <3> QED
        BY <3>1, <3>2
    <2>8. AtMostOneRecord'
      BY <1>2, <2>1 DEF OperationInv, AtMostOneRecord
    <2> QED
      BY <2>3, <2>4, <2>5, <2>6, <2>7, <2>8 DEF OperationInv
  <1>10. ASSUME finish_operation_applies(s, snap[c], status) PROVE BookInv'
    <2>1. /\ state'[s] = snap[c] /\ current'[s] = "none"
          /\ \A r \in Sessions : r # s => state'[r] = state[r] /\ current'[r] = current[r]
          /\ \A p \in Ops : p # last[s] => opStatus'[p] = opStatus[p]
          /\ last[s] # NoOp => opStatus'[last[s]] = status
          /\ \A p \in Ops : p # o => records'[p] = records[p]
          /\ records'[o] \in {records[o], records[o] + 1}
      BY <1>1, <1>10, BookIds DEF EvalFinish, TypeOK, SessionTypeOK, AuditTypeOK
    <2>2. state[s] \notin {"Closing", "Error"}
      BY <1>10 DEF finish_operation_applies, is_terminal
    <2>3. \A p \in Ops : opStatus'[p] \in Pending =>
            opStatus[p] \in Pending /\ p # o /\ opSession[p] # s
      <3> SUFFICES ASSUME NEW p \in Ops, opStatus'[p] \in Pending
                   PROVE  opStatus[p] \in Pending /\ p # o /\ opSession[p] # s
        OBVIOUS
      <3>1. p # last[s]
        BY <1>1, <2>1, BookIds DEF Pending
      <3>2. opStatus[p] \in Pending
        BY <2>1, <3>1
      <3> QED
        BY <1>1, <3>1, <3>2 DEF PendingInv
    <2>4. IdInv'
      <3>1. \A d \in Clients : pc'[d] \in EvalFresh =>
              opStatus'[cop'[d]] = "None" /\ records'[cop'[d]] = 0 /\ last[cs'[d]] # cop'[d]
        <4> SUFFICES ASSUME NEW d \in Clients, pc'[d] \in EvalFresh
                     PROVE  /\ opStatus'[cop[d]] = "None" /\ records'[cop[d]] = 0
                            /\ last[cs[d]] # cop[d] /\ cop'[d] = cop[d] /\ cs'[d] = cs[d]
          OBVIOUS
        <4>1. /\ d # c /\ pc[d] \in EvalFresh /\ cop[d] \in Ops /\ cop[d] # o
              /\ cop'[d] = cop[d] /\ cs'[d] = cs[d]
          BY <1>3 DEF EvalFresh, EvalCalls, EvalLocked
        <4>2. opSession[cop[d]] = cs[d] /\ last[cs[d]] # cop[d]
              /\ opStatus[cop[d]] = "None" /\ records[cop[d]] = 0
          BY <4>1, BookIds DEF IdInv
        <4>3. last[s] # cop[d]
          BY <1>1, <4>1, <4>2, BookIds
        <4> QED
          BY <2>1, <4>1, <4>2, <4>3
      <3>2. \A p \in Ops : opSession[p] = NoSession =>
              opStatus'[p] = "None" /\ records'[p] = 0
        BY <1>1, <2>1, BookIds, ConstantsAssumption DEF IdInv
      <3> QED
        BY <1>2, <1>8, <3>1, <3>2 DEF IdInv
    <2>5. StartInv'
      BY <1>2, <1>3, <1>7, <2>1 DEF StartInv, EvalCalls
    <2>6. PendingInv'
      BY <1>2, <2>1, <2>3 DEF PendingInv
    <2>7. EarlierInv'
      <3> SUFFICES ASSUME NEW d \in Clients, pc'[d] \in EvalPast, last[cs'[d]] # NoOp,
                          last[cs'[d]] # cop'[d]
                   PROVE  opStatus'[last[cs'[d]]] \notin Pending
        BY <1>2 DEF EarlierInv, EvalPast
      <3>1. pc[d] \in EvalPast /\ cs'[d] = cs[d] /\ cop'[d] = cop[d] /\ cs[d] \in Sessions
        BY <1>3 DEF EvalPast, EvalCalls
      <3>2. last[cs[d]] \in Ops /\ opStatus[last[cs[d]]] \notin Pending
        BY <3>1, BookIds DEF EarlierInv, EvalPast
      <3> QED
        BY <2>3, <3>1, <3>2
    <2>8. CurrentInv'
      BY <1>2, <1>3, <2>1 DEF CurrentInv, EvalCalls
    <2>9. ErrorInv'
      <3> SUFFICES ASSUME NEW r \in Sessions, state'[r] = "Error", last[r] # NoOp,
                          opStatus'[last[r]] \in Pending
                   PROVE  FALSE
        BY <1>2 DEF ErrorInv
      <3>1. last[r] \in Ops /\ opSession[last[r]] = r
        BY BookIds
      <3>2. r # s /\ opStatus[last[r]] \in Pending
        BY <2>3, <3>1
      <3> QED
        BY <2>1, <3>2 DEF ErrorInv
    <2>10. EndedInv'
      BY <1>2, <1>3, <1>4, <2>1 DEF EndedInv, EvalCalls
    <2>11. CurrentIsRunning'
      <3> SUFFICES ASSUME NEW r \in Sessions, current'[r] = "eval", state'[r] # "Closed"
                   PROVE  \E d \in Clients : cs'[d] = r /\ cop'[d] = last[r]
                                             /\ pc'[d] \in EvalLocked
        BY <1>2 DEF CurrentIsRunning
      <3>1. r # s /\ current[r] = "eval" /\ state[r] # "Closed"
        BY <2>1
      <3>2. PICK d \in Clients : cs[d] = r /\ cop[d] = last[r] /\ pc[d] \in EvalLocked
        BY <3>1 DEF OperationInv, CurrentIsRunning
      <3> QED
        BY <1>2, <3>1, <3>2
    <2>12. OperationEnds'
      <3> SUFFICES ASSUME NEW p \in Ops, opStatus'[p] \in Pending
                   PROVE  \/ state'[opSession[p]] \in {"Closing", "Closed"}
                          \/ \E d \in Clients : cop'[d] = p /\ pc'[d] \in EvalLocked
        BY <1>2 DEF OperationEnds, Pending
      <3>1. opStatus[p] \in Pending /\ p # o /\ opSession[p] \in Sessions \ {s}
        BY <2>3 DEF PendingInv
      <3> QED
        BY <1>2, <2>1, <3>1 DEF OperationInv, OperationEnds, Pending
    <2>13. AtMostOneRecord'
      <3> SUFFICES ASSUME NEW p \in Ops, records'[p] > 1
                   PROVE  opSession[p] \in abandoned
        BY <1>2 DEF AtMostOneRecord
      <3>1. CASE p # o
        BY <2>1, <3>1 DEF OperationInv, AtMostOneRecord
      <3>2. CASE p = o
        BY <1>1, <2>1, <2>2, <3>2, BookIds DEF EndedInv, EvalPast
      <3> QED
        BY <3>1, <3>2
    <2> QED
      BY <2>4, <2>5, <2>6, <2>7, <2>8, <2>9, <2>10, <2>11, <2>12, <2>13 DEF OperationInv
  <1> QED
    BY <1>9, <1>10

\* A startup that succeeds puts its session at the prompt.
LEMMA BookStartup ==
    ASSUME IndInv, BookInv, NEW s \in Sessions, startup[s] = "finish",
           state' = [state EXCEPT ![s] = "Break"],
           current' = [current EXCEPT ![s] = "none"], SGoto(s, "spawn_monitor"),
           state[s] # "Closing", ~is_terminal(state[s]),
           UNCHANGED <<last, opStatus, opSession, records, clientVars, abandoned>>
    PROVE  BookInv'
  <1> USE DEF BookInv, IndInv
  <1>1. /\ UNCHANGED <<pc, cs, cop>>
        /\ state'[s] = "Break" /\ current'[s] = "none" /\ startup'[s] = "spawn_monitor"
        /\ \A r \in Sessions : r # s => /\ state'[r] = state[r] /\ current'[r] = current[r]
                                        /\ startup'[r] = startup[r]
    BY DEF clientVars, SGoto, TypeOK, SessionTypeOK, WorkerTypeOK
  <1>2. last[s] = NoOp
    BY DEF StartInv
  <1>3. \A d \in Clients : pc[d] \in EvalLocked => cs[d] \in Sessions \ {s}
    BY DistinctHolders, BookIds DEF LockInv, StartupHolds, EvalCalls
  <1>4. IdInv' /\ PendingInv' /\ EarlierInv'
    BY <1>1 DEF IdInv, PendingInv, EarlierInv
  <1>5. StartInv'
    BY <1>1, <1>2, <1>3 DEF StartInv
  <1>6. CurrentInv' /\ ErrorInv' /\ EndedInv'
    BY <1>1, <1>3 DEF CurrentInv, ErrorInv, EndedInv
  <1>7. AtMostOneRecord' /\ CurrentIsRunning'
    BY <1>1 DEF OperationInv, AtMostOneRecord, CurrentIsRunning
  <1>8. OperationEnds'
    <2> SUFFICES ASSUME NEW o \in Ops, opStatus[o] \in Pending
                 PROVE  \/ state'[opSession[o]] \in {"Closing", "Closed"}
                        \/ \E d \in Clients : cop[d] = o /\ pc[d] \in EvalLocked
      BY <1>1 DEF OperationEnds, Pending
    <2>1. opSession[o] \in Sessions \ {s}
      BY <1>2, BookIds DEF PendingInv
    <2> QED
      BY <1>1, <2>1 DEF OperationInv, OperationEnds, Pending
  <1> QED
    BY <1>4, <1>5, <1>6, <1>7, <1>8 DEF OperationInv

\* Every step keeps the books: most leave them alone (BookFrame), five end a
\* session (BookEnds), the rest have their own lemma.
LEMMA BookStep ==
    ASSUME IndInv, BookInv, [Next]_vars
    PROVE  BookInv'
  <1> USE DEF IndInv
  <1> DEFINE Quiet == /\ StartupForward /\ abandoned \subseteq abandoned'
                      /\ UNCHANGED <<state, current, last, opStatus, opSession, records>>
                      /\ \A d \in Clients : OutsideEval(d) \/ WithinEval(d)
  <1>0. Quiet => BookInv'
    BY BookFrame
  <1> HIDE DEF Quiet
  <1>1. CASE UNCHANGED vars
    <2>1. Quiet
      BY <1>1
      DEF Quiet, vars, sessionVars, auditVars, clientVars, StartupForward, OutsideEval,
          WithinEval
    <2> QED
      BY <1>0, <2>1
  <1>2. ASSUME NEW c \in Clients, NEW s \in Sessions,
               \/ \E t \in Targets : CreateSession(c, t, s)
               \/ CloseSession(c, s)
               \/ \E o \in Ops : EvalEmpty(c, s, o) \/ Eval(c, s, o)
        PROVE  BookInv'
    <2>1. CASE CloseSession(c, s)
      <3>1. Quiet
        BY <2>1
        DEF Quiet, CloseSession, sessionVars, auditVars, StartupForward, OutsideEval,
            WithinEval, EvalCalls, EvalLocked, EvalPast, EvalFresh, TypeOK, ClientTypeOK
      <3> QED
        BY <1>0, <3>1
    <2> QED
      BY <1>2, <2>1, BookCreate, BookEval, BookEmpty
  <1>3. ASSUME NEW c \in Clients, ClientStep(c) PROVE BookInv'
    <2>1. CASE CreateLocks(c) \/ CloseNothing(c) \/ CloseSpawn(c)
      <3>1. cop[c] = NoOp
        BY <2>1, BookIds
        DEF CreateLocks, CloseNothing, CloseSpawn, EvalCalls, EvalLocked, BookInv
      <3>2. \A s \in Sessions : startup[s] = "spawn_monitor" => lock[s] = <<"startup">>
        BY DEF LockInv, StartupHolds
      <3>3. Quiet
        BY <2>1, <3>1, <3>2, DistinctHolders
        DEF Quiet, CreateLocks, CloseNothing, CloseSpawn, sessionVars, auditVars, Return,
            StartupForward, OutsideEval, WithinEval, EvalCalls, EvalLocked, EvalPast,
            EvalFresh, TypeOK, ClientTypeOK, WorkerTypeOK, NewInv
      <3> QED
        BY <1>0, <3>3
    <2>2. CASE CloseCancel(c) \/ CloseKill(c)
      <3>1. Quiet
        BY <2>2
        DEF Quiet, CloseCancel, CloseKill, sessionVars, auditVars, StartupForward,
            OutsideEval, WithinEval, EvalCalls, EvalLocked, EvalPast, EvalFresh, TypeOK,
            ClientTypeOK
      <3> QED
        BY <1>0, <3>1
    <2>3. CASE EvalLock(c) \/ EvalSend(c) \/ EvalRequery(c)
      <3>1. Quiet
        BY <2>3
        DEF Quiet, EvalLock, EvalSend, EvalRequery, Goto, sessionVars, auditVars,
            StartupForward, OutsideEval, WithinEval, EvalCalls, EvalLocked, EvalPast,
            EvalFresh, TypeOK, ClientTypeOK
      <3> QED
        BY <1>0, <3>1
    <2>4. CASE EvalQuery(c)
      <3>1. CASE state[cs[c]] \in {"Ready", "Break"}
        BY <2>4, <3>1, BookQuery DEF EvalQuery, sessionVars
      <3>2. CASE state[cs[c]] \notin {"Ready", "Break"}
        BY <2>4, <3>2, BookReject DEF EvalQuery, sessionVars, EvalFresh
      <3> QED
        BY <3>1, <3>2
    <2>5. CASE EvalWorker(c)
      <3>1. CASE reg[cs[c]]
        <4>1. Quiet
          BY <2>5, <3>1
          DEF Quiet, EvalWorker, Goto, sessionVars, StartupForward, OutsideEval,
              WithinEval, EvalCalls, EvalLocked, EvalPast, EvalFresh, TypeOK, ClientTypeOK
        <4> QED
          BY <1>0, <4>1
      <3>2. CASE ~reg[cs[c]]
        BY <2>5, <3>2, BookReject DEF EvalWorker, sessionVars, EvalFresh
      <3> QED
        BY <3>1, <3>2
    <2> QED
      BY <1>3, <2>1, <2>2, <2>3, <2>4, <2>5, BookCloseMark, BookStart, BookFinish
      DEF ClientStep
  <1>4. ASSUME NEW c \in Clients, EvalAnswer(c) PROVE BookInv'
    <2>1. CASE EvalReply(c) \/ EvalFail(c)
      <3>1. Quiet
        BY <2>1
        DEF Quiet, EvalReply, EvalFail, Goto, sessionVars, auditVars, StartupForward,
            OutsideEval, WithinEval, EvalCalls, EvalLocked, EvalPast, EvalFresh, TypeOK,
            ClientTypeOK
      <3> QED
        BY <1>0, <3>1
    <2> QED
      BY <1>4, <2>1, BookEvent DEF EvalAnswer
  <1>5. ASSUME NEW c \in Clients, CloserStep(c) PROVE BookInv'
    <2>1. CASE CloserFinish(c)
      <3>1. ks[c] \in Sessions /\ lock[ks[c]] = <<"closer", c>>
        BY <2>1 DEF CloserFinish, CallInv, LockInv, CloserLocked
      <3>2. \A d \in Clients : cs[d] = ks[c] => pc[d] \notin EvalLocked
        BY <3>1, DistinctHolders DEF LockInv
      <3>3. StartupForward
        BY <2>1 DEF CloserFinish, StartupForward
      <3> QED
        BY <2>1, <3>1, <3>2, <3>3, BookEnds DEF CloserFinish, finish_worker_close
    <2>2. CASE CloserTimeoutFinish(c)
      <3>1. ks[c] \in Sessions /\ StartupForward
        BY <2>2 DEF CloserTimeoutFinish, CallInv, StartupForward
      <3> QED
        BY <2>2, <3>1, BookEnds DEF CloserTimeoutFinish, finish_worker_close
    <2>3. CASE ~(CloserFinish(c) \/ CloserTimeoutFinish(c))
      <3>1. Quiet
        BY <1>5, <2>3
        DEF Quiet, CloserStep, CloserLock, CloserRemove, CloserCloseWorker, CloserTimeout,
            CloserTimeoutCancel, CloserTimeoutKill, CloserTimeoutRemove, sessionVars,
            auditVars, clientVars, StartupForward, OutsideEval, WithinEval
      <3> QED
        BY <1>0, <3>1
    <2> QED
      BY <2>1, <2>2, <2>3
  <1>6. ASSUME NEW s \in Sessions, StartupStep(s) \/ StartupCreate(s) PROVE BookInv'
    <2> USE DEF StartupForward, SGoto, SExit, TypeOK, WorkerTypeOK
    <2>1. \A d \in Clients : startup[s] \in StartupHolds /\ cs[d] = s => pc[d] \notin EvalLocked
      BY DistinctHolders DEF LockInv
    <2>2. CASE StartupFinish(s)
      <3>1. CASE state[s] = "Closing" \/ is_terminal(state[s])
        <4>1. Quiet
          BY <2>2, <3>1
          DEF Quiet, StartupFinish, sessionVars, auditVars, clientVars, OutsideEval,
              WithinEval
        <4> QED
          BY <1>0, <4>1
      <3>2. CASE ~(state[s] = "Closing" \/ is_terminal(state[s]))
        BY <2>2, <3>2, BookStartup DEF StartupFinish, auditVars
      <3> QED
        BY <3>1, <3>2
    <2>3. CASE StartupFinishClose(s)
      <3>1. StartupForward
        BY <2>3 DEF StartupFinishClose
      <3>2. startup[s] \in StartupHolds
        BY <2>3 DEF StartupFinishClose, StartupHolds
      <3> QED
        BY <2>1, <2>3, <3>1, <3>2, BookEnds DEF StartupFinishClose, finish_worker_close
    <2>4. CASE StartupFailUpdate(s)
      <3>1. CASE is_terminal(state[s])
        <4>1. Quiet
          BY <2>4, <3>1
          DEF Quiet, StartupFailUpdate, sessionVars, auditVars, clientVars, OutsideEval,
              WithinEval
        <4> QED
          BY <1>0, <4>1
      <3>2. CASE ~is_terminal(state[s])
        <4>1. finalize_canceled_operation(s, "Failed")
          BY <2>4, <3>2
          DEF StartupFailUpdate, finalize_canceled_operation, BookInv, StartInv, auditVars
        <4>2. startup[s] \in StartupHolds /\ StartupForward
          BY <2>4 DEF StartupFailUpdate, StartupHolds
        <4> QED
          BY <2>1, <2>4, <3>2, <4>1, <4>2, BookEnds DEF StartupFailUpdate, auditVars
      <3> QED
        BY <3>1, <3>2
    <2>5. CASE \/ StartupLock(s) \/ StartupSpawn(s) \/ StartupInsert(s) \/ StartupCheck(s)
               \/ StartupCancel(s) \/ StartupKill(s) \/ StartupCreate(s)
      <3>1. Quiet
        BY <2>5
        DEF Quiet, StartupLock, StartupSpawn, StartupInsert, StartupCheck, StartupCancel,
            StartupKill, StartupCreate, sessionVars, auditVars, clientVars, OutsideEval,
            WithinEval
      <3> QED
        BY <1>0, <3>1
    <2>6. CASE \/ StartupSpawnMonitor(s) \/ StartupLateRemove(s) \/ StartupLateClose(s)
               \/ StartupFailRemove(s) \/ StartupFailKill(s)
      <3>1. Quiet
        BY <2>6
        DEF Quiet, StartupSpawnMonitor, StartupLateRemove, StartupLateClose,
            StartupFailRemove, StartupFailKill, sessionVars, auditVars, clientVars,
            OutsideEval, WithinEval
      <3> QED
        BY <1>0, <3>1
    <2> QED
      BY <1>6, <2>2, <2>3, <2>4, <2>5, <2>6 DEF StartupStep
  <1>7. ASSUME NEW s \in Sessions, MonitorStep(s) \/ WorkerCrash(s) \/ DropWorker(s)
        PROVE  BookInv'
    <2>1. CASE MonitorPoll(s) /\ ~(state[s] = "Closing" \/ is_terminal(state[s]))
      <3>1. StartupForward
        BY <2>1 DEF MonitorPoll, StartupForward
      <3> QED
        BY <2>1, <3>1, BookEnds DEF MonitorPoll, mark_worker_unavailable
    <2>2. CASE ~(MonitorPoll(s) /\ ~(state[s] = "Closing" \/ is_terminal(state[s])))
      <3>1. Quiet
        BY <1>7, <2>2
        DEF Quiet, MonitorStep, MonitorPoll, MonitorRemove, WorkerCrash, DropWorker,
            sessionVars, auditVars, clientVars, StartupForward, OutsideEval, WithinEval
      <3> QED
        BY <1>0, <3>1
    <2> QED
      BY <2>1, <2>2
  <1> QED
    BY <1>1, <1>2, <1>3, <1>4, <1>5, <1>6, <1>7 DEF Next

LEMMA BookInit == Init => BookInv
  <1> SUFFICES ASSUME Init PROVE BookInv
    OBVIOUS
  <1> USE DEF Init, EvalLocked
  <1>1. IdInv /\ StartInv /\ PendingInv
    BY DEF IdInv, StartInv, PendingInv, EvalFresh, Pending
  <1>2. EarlierInv /\ CurrentInv /\ ErrorInv /\ EndedInv
    BY DEF EarlierInv, CurrentInv, ErrorInv, EndedInv
  <1>3. OperationInv
    BY DEF OperationInv, AtMostOneRecord, CurrentIsRunning, OperationEnds
  <1> QED
    BY <1>1, <1>2, <1>3 DEF BookInv

\* The bookkeeping of commands: whichever of eval, the close thread, startup
\* and the monitor ends an operation, it is ended, recorded at most once, and
\* what a session shows as current or pending has a call behind it.
THEOREM BooksBalance == Spec => []OperationInv
  <1>1. Init => BookInv
    BY BookInit
  <1>2. IndInv /\ BookInv /\ [Next]_vars => BookInv'
    BY BookStep
  <1>3. BookInv => OperationInv
    BY DEF BookInv
  <1> QED
    BY Invariant, <1>1, <1>2, <1>3, PTL DEF Spec

-----------------------------------------------------------------------------
(* The manager implements SessionLifecycle *)

\* A startup thread that has an answer of its worker, or is past it.
Answered == {"late_closing", "late_terminal", "close_closing", "close_terminal",
             "spawn_monitor", "done"}

\* A session is opening until startup, a close or a failure has ended that, and
\* nothing opens it again.
OpeningInv ==
    /\ \A s \in Sessions :
         /\ state[s] \in {"Created", "Starting"} => current[s] = "create_session"
         /\ startup[s] \in Answered => state[s] \notin {"Created", "Starting"}
         /\ s \in abandoned => state[s] # "Absent"
         /\ s \in abandoned /\ startup[s] # "done" => state[s] \in Ending
    /\ \A c \in Clients :
         pc[c] = "eval_finish" => snap[c] \notin {"Created", "Starting"}

\* Startup threads that hold a worker they have spawned.
StartupOwns == {"insert", "check", "cancel", "kill", "create", "finish", "fail_kill",
                "close_closing", "close_terminal"}

\* Whoever refers to a worker refers to one that was spawned; it is spawned once.
SpawnedInv ==
    /\ \A s \in Sessions :
         /\ reg[s] => proc[s] # "none"
         /\ startup[s] \in StartupOwns => proc[s] # "none"
         /\ startup[s] \in {"off", "lock", "spawn"} => proc[s] = "none"
    /\ \A c \in Clients :
         /\ pc[c] = "close_kill" => proc[cs[c]] # "none"
         /\ kpc[c] \in {"close_worker", "timeout_kill"} => proc[ks[c]] # "none"

\* Steps after which nobody refers to more than before.
LEMMA SpawnedFrame ==
    ASSUME SpawnedInv, CallInv,
           \A s \in Sessions :
              /\ proc[s] # "none" => proc'[s] # "none"
              /\ reg'[s] => reg[s] \/ proc[s] # "none"
              /\ startup'[s] \in StartupOwns =>
                    startup[s] \in StartupOwns \/ proc'[s] # "none"
              /\ startup'[s] \in {"off", "lock", "spawn"} =>
                    /\ startup[s] \in {"off", "lock", "spawn"}
                    /\ proc'[s] = proc[s] \/ proc[s] # "none",
           \A d \in Clients :
              /\ pc'[d] = "close_kill" => pc[d] = "close_kill" /\ cs'[d] = cs[d]
              /\ kpc'[d] \in {"close_worker", "timeout_kill"} =>
                    kpc[d] \in {"close_worker", "timeout_kill"} /\ ks'[d] = ks[d]
    PROVE  SpawnedInv'
  BY DEF SpawnedInv, CallInv

\* References to workers come from the registry, and the registry gets its
\* workers from the startup thread that spawned them.
LEMMA SpawnedStep ==
    ASSUME IndInv, SpawnedInv, [Next]_vars
    PROVE  SpawnedInv'
  <1> DEFINE Workers(s) ==
               /\ proc[s] # "none" => proc'[s] # "none"
               /\ reg'[s] => reg[s] \/ proc[s] # "none"
               /\ startup'[s] \in StartupOwns =>
                     startup[s] \in StartupOwns \/ proc'[s] # "none"
               /\ startup'[s] \in {"off", "lock", "spawn"} =>
                     /\ startup[s] \in {"off", "lock", "spawn"}
                     /\ proc'[s] = proc[s] \/ proc[s] # "none"
             Callers(d) ==
               /\ pc'[d] = "close_kill" => pc[d] = "close_kill" /\ cs'[d] = cs[d]
               /\ kpc'[d] \in {"close_worker", "timeout_kill"} =>
                     kpc[d] \in {"close_worker", "timeout_kill"} /\ ks'[d] = ks[d]
             Quiet == /\ \A s \in Sessions : Workers(s)
                      /\ \A d \in Clients : Callers(d)
  <1>0. Quiet => SpawnedInv'
    BY SpawnedFrame DEF IndInv
  <1> USE DEF IndInv, TypeOK, regVars, Goto, KGoto, KExit, Return, Reject
  <1>1. CASE UNCHANGED vars
    <2>1. Quiet
      BY <1>1 DEF vars, clientVars, closerVars
    <2> QED
      BY <2>1, <1>0
  <1>2. ASSUME NEW c \in Clients, NEW s \in Sessions,
               \/ \E t \in Targets : CreateSession(c, t, s)
               \/ CloseSession(c, s)
               \/ \E o \in Ops : EvalEmpty(c, s, o) \/ Eval(c, s, o)
        PROVE  SpawnedInv'
    <2>1. Quiet
      BY <1>2 DEF CreateSession, CloseSession, EvalEmpty, Eval, clientVars, closerVars, ClientTypeOK
    <2> QED
      BY <2>1, <1>0
  <1>3. ASSUME NEW c \in Clients, ClientStep(c) PROVE SpawnedInv'
    <2> USE DEF clientVars, closerVars, ClientTypeOK, CloserTypeOK, WorkerTypeOK
    <2>1. CASE CreateLocks(c)
      <3>1. startup[cs[c]] = "off" /\ cs[c] \in Sessions
        BY <2>1 DEF CreateLocks, NewInv, CallInv
      <3> QED
        BY <2>1, <3>1 DEF CreateLocks, SpawnedInv, StartupOwns
    <2>2. CASE CloseCancel(c)
      <3>1. cs[c] \in Sessions
        BY <2>2 DEF CloseCancel, CallInv
      <3> QED
        BY <2>2, <3>1 DEF CloseCancel, kill_once, kill_once_hits, SpawnedInv
    <2>3. CASE CloseKill(c)
      <3>1. cs[c] \in Sessions /\ proc[cs[c]] # "none"
        BY <2>3 DEF CloseKill, CallInv, SpawnedInv
      <3> QED
        <4>1. Quiet
          BY <2>3, <3>1 DEF CloseKill, kill
        <4> QED
          BY <4>1, <1>0
    <2>4. CASE CloseNothing(c) \/ CloseMark(c) \/ CloseSpawn(c)
      <3>1. Quiet
        BY <2>4 DEF CloseNothing, CloseMark, CloseSpawn
      <3> QED
        BY <3>1, <1>0
    <2>5. CASE EvalLock(c) \/ EvalQuery(c) \/ EvalWorker(c)
      <3>1. Quiet
        BY <2>5 DEF EvalLock, EvalQuery, EvalWorker
      <3> QED
        BY <3>1, <1>0
    <2>6. CASE EvalStart(c) \/ EvalSend(c) \/ EvalRequery(c) \/ EvalFinish(c)
      <3>1. Quiet
        BY <2>6 DEF EvalStart, EvalSend, EvalRequery, EvalFinish
      <3> QED
        BY <3>1, <1>0
    <2> QED
      BY <1>3, <2>1, <2>2, <2>3, <2>4, <2>5, <2>6 DEF ClientStep
  <1>4. ASSUME NEW c \in Clients, EvalAnswer(c) PROVE SpawnedInv'
    <2>1. Quiet
      BY <1>4 DEF EvalAnswer, EvalEvent, EvalReply, EvalFail, closerVars, ClientTypeOK
    <2> QED
      BY <2>1, <1>0
  <1>5. ASSUME NEW c \in Clients, CloserStep(c) PROVE SpawnedInv'
    <2> USE DEF clientVars, closerVars, CloserTypeOK, WorkerTypeOK
    <2>1. CASE CloserRemove(c)
      <3>1. ks[c] \in Sessions
        BY <2>1 DEF CloserRemove, CallInv
      <3> QED
        BY <2>1, <3>1 DEF CloserRemove, remove_worker, SpawnedInv
    <2>2. CASE CloserTimeoutCancel(c)
      <3>1. ks[c] \in Sessions
        BY <2>2 DEF CloserTimeoutCancel, CallInv
      <3> QED
        BY <2>2, <3>1 DEF CloserTimeoutCancel, kill_once, kill_once_hits, SpawnedInv
    <2>3. CASE CloserCloseWorker(c) \/ CloserTimeoutKill(c)
      <3>1. ks[c] \in Sessions /\ proc[ks[c]] # "none"
        BY <2>3 DEF CloserCloseWorker, CloserTimeoutKill, CallInv, SpawnedInv
      <3> QED
        <4>1. Quiet
          BY <2>3, <3>1 DEF CloserCloseWorker, CloserTimeoutKill, kill, close_ok, close_err
        <4> QED
          BY <4>1, <1>0
    <2>4. CASE \/ CloserLock(c) \/ CloserFinish(c) \/ CloserTimeout(c)
               \/ CloserTimeoutRemove(c) \/ CloserTimeoutFinish(c)
      <3>1. Quiet
        BY <2>4 DEF CloserLock, CloserFinish, CloserTimeout, CloserTimeoutRemove,
          CloserTimeoutFinish, remove_worker, lock_operation
      <3> QED
        BY <3>1, <1>0
    <2> QED
      BY <1>5, <2>1, <2>2, <2>3, <2>4 DEF CloserStep
  <1>6. ASSUME NEW s \in Sessions, StartupStep(s) \/ StartupCreate(s) PROVE SpawnedInv'
    <2> USE DEF clientVars, closerVars, WorkerTypeOK, SGoto, SExit
    <2>1. CASE StartupLock(s) \/ StartupSpawn(s) \/ StartupInsert(s) \/ StartupCheck(s)
      <3>1. startup[s] \in {"insert", "check"} => proc[s] # "none"
        BY DEF SpawnedInv, StartupOwns
      <3>2. Quiet
        BY <2>1, <3>1 DEF StartupLock, StartupSpawn, StartupInsert, StartupCheck,
                          lock_operation, StartupOwns
      <3> QED
        BY <1>0, <3>2
    <2>2. CASE StartupCancel(s) \/ StartupKill(s) \/ StartupCreate(s) \/ StartupFinish(s)
      <3>1. startup[s] \in StartupOwns => proc[s] # "none"
        BY DEF SpawnedInv
      <3>2. Quiet
        BY <2>2, <3>1 DEF StartupCancel, StartupKill, StartupCreate, StartupFinish,
                          kill, kill_once, kill_once_hits, StartupOwns
      <3> QED
        BY <1>0, <3>2
    <2>3. CASE StartupSpawnMonitor(s) \/ StartupLateRemove(s)
      <3>1. reg[s] => proc[s] # "none"
        BY DEF SpawnedInv
      <3>2. Quiet
        BY <2>3, <3>1 DEF StartupSpawnMonitor, StartupLateRemove, remove_worker, StartupOwns
      <3> QED
        BY <1>0, <3>2
    <2>4. CASE StartupLateClose(s) \/ StartupFinishClose(s)
      <3>1. Quiet
        BY <2>4 DEF StartupLateClose, StartupFinishClose, close_ok, close_err, kill,
                    remove_worker, StartupOwns
      <3> QED
        BY <1>0, <3>1
    <2>5. CASE StartupFailRemove(s) \/ StartupFailKill(s) \/ StartupFailUpdate(s)
      <3>1. reg[s] => proc[s] # "none"
        BY DEF SpawnedInv
      <3>2. Quiet
        BY <2>5, <3>1 DEF StartupFailRemove, StartupFailKill, StartupFailUpdate,
                          remove_worker, kill, StartupOwns
      <3> QED
        BY <1>0, <3>2
    <2> QED
      BY <1>6, <2>1, <2>2, <2>3, <2>4, <2>5 DEF StartupStep
  <1>7. ASSUME NEW s \in Sessions, MonitorStep(s) \/ WorkerCrash(s) \/ DropWorker(s)
        PROVE  SpawnedInv'
    <2>1. Quiet
      BY <1>7 DEF MonitorStep, MonitorPoll, MonitorRemove, WorkerCrash, DropWorker, remove_worker,
                  clientVars, closerVars, WorkerTypeOK
    <2> QED
      BY <2>1, <1>0
  <1> QED
    BY <1>1, <1>2, <1>3, <1>4, <1>5, <1>6, <1>7 DEF Next

\* Steps that store no state that opens a session.
LEMMA OpeningFrame ==
    ASSUME OpeningInv, TypeOK, CallInv, abandoned' = abandoned,
           \A s \in Sessions :
              \/ state'[s] = state[s] /\ current'[s] = current[s]
              \/ state'[s] \notin {"Created", "Starting", "Absent"},
           \A s \in Sessions : startup'[s] \in Answered => startup[s] \in Answered,
           \A s \in Sessions : startup'[s] # "done" => startup[s] # "done",
           \A s \in Sessions : s \in abandoned /\ startup'[s] # "done"
                                  /\ state[s] \in Ending => state'[s] \in Ending,
           \A c \in Clients : pc'[c] = "eval_finish" =>
              pc[c] = "eval_finish" /\ snap'[c] = snap[c]
    PROVE  OpeningInv'
  BY DEF OpeningInv

\* What eval stores is never the state of a session that is opening, and
\* startup has left that state behind when it has its answer.
LEMMA OpeningStep ==
    ASSUME IndInv, BookInv, OpeningInv, [Next]_vars
    PROVE  OpeningInv'
  <1> DEFINE Stores(s) ==
               /\ \/ state'[s] = state[s] /\ current'[s] = current[s]
                  \/ state'[s] \notin {"Created", "Starting", "Absent"}
               /\ startup'[s] \in Answered => startup[s] \in Answered
               /\ startup'[s] # "done" => startup[s] # "done"
               /\ startup'[s] # "done" /\ state[s] \in Ending => state'[s] \in Ending
             Carries(d) ==
               pc'[d] = "eval_finish" => pc[d] = "eval_finish" /\ snap'[d] = snap[d]
             Quiet == /\ \A s \in Sessions : Stores(s)
                      /\ \A d \in Clients : Carries(d)
                      /\ UNCHANGED abandoned
  <1>0. Quiet => OpeningInv'
    BY OpeningFrame DEF IndInv
  <1> USE DEF IndInv, TypeOK, SessionTypeOK, ClientTypeOK, sessionVars, clientVars, Goto,
              Return, Reject
  <1>1. CASE UNCHANGED vars
    <2>1. Quiet
      BY <1>1 DEF vars
    <2> QED
      BY <1>0, <2>1
  <1>2. ASSUME NEW c \in Clients, NEW s \in Sessions,
               \/ \E t \in Targets : CreateSession(c, t, s)
               \/ CloseSession(c, s)
               \/ \E o \in Ops : EvalEmpty(c, s, o) \/ Eval(c, s, o)
        PROVE  OpeningInv'
    <2>1. ASSUME NEW t \in Targets, CreateSession(c, t, s) PROVE OpeningInv'
      <3>1. startup[s] = "off" /\ s \notin abandoned
        BY <2>1 DEF CreateSession, NewInv, OpeningInv
      <3> QED
        BY <2>1, <3>1 DEF CreateSession, OpeningInv, Answered
    <2>2. CASE CloseSession(c, s) \/ \E o \in Ops : EvalEmpty(c, s, o) \/ Eval(c, s, o)
      <3>1. Quiet
        BY <2>2 DEF CloseSession, EvalEmpty, Eval
      <3> QED
        BY <1>0, <3>1
    <2> QED
      BY <1>2, <2>1, <2>2
  <1>3. ASSUME NEW c \in Clients, ClientStep(c) PROVE OpeningInv'
    <2>1. CASE CreateLocks(c)
      <3>1. cs[c] \in Sessions /\ startup[cs[c]] = "off"
        BY <2>1 DEF CreateLocks, NewInv, CallInv
      <3>2. Quiet
        BY <2>1, <3>1 DEF CreateLocks, WorkerTypeOK, Answered
      <3> QED
        BY <1>0, <3>2
    <2>2. CASE CloseNothing(c) \/ CloseCancel(c) \/ CloseKill(c) \/ CloseSpawn(c)
      <3>1. Quiet
        BY <2>2 DEF CloseNothing, CloseCancel, CloseKill, CloseSpawn
      <3> QED
        BY <1>0, <3>1
    <2>3. CASE CloseMark(c)
      <3>1. cs[c] \in Sessions
        BY <2>3 DEF CloseMark, CallInv
      <3>2. /\ state'[cs[c]] \in {"Closing", "Closed"}
            /\ \A r \in Sessions : r # cs[c] =>
                  /\ state'[r] = state[r] /\ current'[r] = current[r]
                  /\ r \in abandoned' => r \in abandoned
            /\ startup' = startup
            /\ \A d \in Clients : Carries(d)
        BY <2>3, <3>1 DEF CloseMark
      <3> QED
        BY <3>1, <3>2 DEF OpeningInv, Ending
    <2>4. CASE EvalLock(c) \/ EvalQuery(c) \/ EvalWorker(c) \/ EvalSend(c)
      <3>1. Quiet
        BY <2>4 DEF EvalLock, EvalQuery, EvalWorker, EvalSend
      <3> QED
        BY <1>0, <3>1
    <2>5. CASE EvalStart(c)
      <3>1. cs[c] \in Sessions /\ snap[c] \in {"Ready", "Break"} /\ startup[cs[c]] = "done"
        BY <2>5 DEF EvalStart, CallInv, SnapInv, BookInv, StartInv, EvalLocked
      <3>2. Quiet
        BY <2>5, <3>1 DEF EvalStart
      <3> QED
        BY <1>0, <3>2
    <2>6. CASE EvalRequery(c)
      <3>1. cs[c] \in Sessions /\ startup[cs[c]] = "done"
        BY <2>6 DEF EvalRequery, CallInv, BookInv, StartInv, EvalLocked
      <3>2. state[cs[c]] \notin {"Created", "Starting"}
        BY <3>1 DEF OpeningInv, Answered
      <3> QED
        BY <2>6, <3>2 DEF EvalRequery, OpeningInv
    <2>7. CASE EvalFinish(c)
      <3>1. cs[c] \in Sessions /\ startup[cs[c]] = "done"
        BY <2>7 DEF EvalFinish, CallInv, BookInv, StartInv, EvalLocked
      <3>2. snap[c] \notin {"Created", "Starting", "Absent"}
        BY <2>7 DEF EvalFinish, SnapInv, OpeningInv
      <3>3. Quiet
        BY <2>7, <3>1, <3>2 DEF EvalFinish
      <3> QED
        BY <1>0, <3>3
    <2> QED
      BY <1>3, <2>1, <2>2, <2>3, <2>4, <2>5, <2>6, <2>7 DEF ClientStep
  <1>4. ASSUME NEW c \in Clients, EvalAnswer(c) PROVE OpeningInv'
    <2>1. CASE EvalEvent(c)
      <3>1. cs[c] \in Sessions /\ startup[cs[c]] = "done"
        BY <2>1 DEF EvalEvent, CallInv, BookInv, StartInv, EvalLocked
      <3>2. Quiet
        BY <2>1, <3>1 DEF EvalEvent, apply_backend_execution_event, ExecutionState
      <3> QED
        BY <1>0, <3>2
    <2>2. CASE EvalReply(c) \/ EvalFail(c)
      <3>1. pc'[c] = "eval_finish" => snap'[c] \notin {"Created", "Starting"}
        BY <2>2 DEF EvalReply, EvalFail, FinalState, SnapInv, ExecutionState
      <3>2. /\ UNCHANGED <<state, current, startup, abandoned>>
            /\ \A d \in Clients : d # c => Carries(d)
        BY <2>2 DEF EvalReply, EvalFail
      <3> QED
        BY <3>1, <3>2 DEF OpeningInv
    <2> QED
      BY <1>4, <2>1, <2>2 DEF EvalAnswer
  <1>5. ASSUME NEW c \in Clients, CloserStep(c) PROVE OpeningInv'
    <2>1. CASE CloserFinish(c) \/ CloserTimeoutFinish(c)
      <3>1. ks[c] \in Sessions
        BY <2>1 DEF CloserFinish, CloserTimeoutFinish, CallInv
      <3>2. Quiet
        BY <2>1, <3>1 DEF CloserFinish, CloserTimeoutFinish, finish_worker_close, Ending
      <3> QED
        BY <1>0, <3>2
    <2>2. CASE ~(CloserFinish(c) \/ CloserTimeoutFinish(c))
      <3>1. Quiet
        BY <1>5, <2>2
        DEF CloserStep, CloserLock, CloserRemove, CloserCloseWorker, CloserTimeout,
            CloserTimeoutCancel, CloserTimeoutKill, CloserTimeoutRemove
      <3> QED
        BY <1>0, <3>1
    <2> QED
      BY <2>1, <2>2
  <1>6. ASSUME NEW s \in Sessions, StartupStep(s) \/ StartupCreate(s) PROVE OpeningInv'
    <2> USE DEF WorkerTypeOK, SGoto, SExit, Answered
    <2>1. CASE StartupLock(s) \/ StartupSpawn(s) \/ StartupInsert(s) \/ StartupCheck(s)
      <3>1. Quiet
        BY <2>1 DEF StartupLock, StartupSpawn, StartupInsert, StartupCheck
      <3> QED
        BY <1>0, <3>1
    <2>2. CASE StartupCancel(s) \/ StartupKill(s) \/ StartupCreate(s)
      <3>1. Quiet
        BY <2>2 DEF StartupCancel, StartupKill, StartupCreate
      <3> QED
        BY <1>0, <3>1
    <2>3. CASE StartupFinish(s)
      <3>1. /\ \A r \in Sessions : r # s =>
                  state'[r] = state[r] /\ current'[r] = current[r] /\ startup'[r] = startup[r]
            /\ UNCHANGED <<pc, snap, abandoned>> /\ startup[s] = "finish"
        BY <2>3 DEF StartupFinish
      <3>2. /\ state'[s] \notin {"Created", "Starting", "Absent"}
            /\ state[s] \in Ending => state'[s] \in Ending
        BY <2>3 DEF StartupFinish, is_terminal, Ending
      <3> QED
        BY <3>1, <3>2 DEF OpeningInv
    <2>4. CASE StartupSpawnMonitor(s) \/ StartupLateRemove(s) \/ StartupLateClose(s)
      <3>1. CASE startup[s] \in Answered
        <4>1. Quiet
          BY <2>4, <3>1 DEF StartupSpawnMonitor, StartupLateRemove, StartupLateClose
        <4> QED
          BY <1>0, <4>1
      <3>2. CASE startup'[s] \notin Answered
        <4>1. Quiet
          BY <2>4, <3>2 DEF StartupSpawnMonitor, StartupLateRemove, StartupLateClose
        <4> QED
          BY <1>0, <4>1
      <3> QED
        BY <2>4, <3>1, <3>2 DEF StartupSpawnMonitor, StartupLateRemove, StartupLateClose
    <2>5. CASE StartupFinishClose(s) \/ StartupFailUpdate(s)
      <3>1. /\ \A r \in Sessions : r # s =>
                  state'[r] = state[r] /\ current'[r] = current[r] /\ startup'[r] = startup[r]
            /\ UNCHANGED <<pc, snap, abandoned>>
        BY <2>5 DEF StartupFinishClose, StartupFailUpdate, finish_worker_close
      <3>2. state'[s] \in Ending
        BY <2>5 DEF StartupFinishClose, StartupFailUpdate, finish_worker_close, is_terminal,
                    Ending
      <3> QED
        BY <3>1, <3>2 DEF OpeningInv, Ending
    <2>6. CASE StartupFailRemove(s) \/ StartupFailKill(s)
      <3>1. Quiet
        BY <2>6 DEF StartupFailRemove, StartupFailKill
      <3> QED
        BY <1>0, <3>1
    <2> QED
      BY <1>6, <2>1, <2>2, <2>3, <2>4, <2>5, <2>6 DEF StartupStep
  <1>7. ASSUME NEW s \in Sessions, MonitorStep(s) \/ WorkerCrash(s) \/ DropWorker(s)
        PROVE  OpeningInv'
    <2>1. Quiet
      BY <1>7 DEF MonitorStep, MonitorPoll, MonitorRemove, WorkerCrash, DropWorker,
                  mark_worker_unavailable, Ending
    <2> QED
      BY <1>0, <2>1
  <1> QED
    BY <1>1, <1>2, <1>3, <1>4, <1>5, <1>6, <1>7 DEF Next

\* The phase of a session depends on its state and on whether it was given up.
LEMMA PhaseSame ==
    ASSUME NEW s \in Sessions, state'[s] = state[s], s \in abandoned' <=> s \in abandoned
    PROVE  PhaseOf(s)' = PhaseOf(s)
  BY DEF PhaseOf

\* PhaseOf, case by case.
LEMMA PhaseCases ==
    ASSUME NEW s \in Sessions
    PROVE  /\ s \in abandoned => PhaseOf(s) = "given up"
           /\ s \notin abandoned =>
                /\ state[s] = "Absent" => PhaseOf(s) = "none"
                /\ state[s] \in {"Created", "Starting"} => PhaseOf(s) = "opening"
                /\ state[s] \in {"Ready", "Break", "Running"} => PhaseOf(s) = "serving"
                /\ state[s] = "Closing" => PhaseOf(s) = "closing"
                /\ state[s] = "Closed" => PhaseOf(s) = "closed"
                /\ state[s] = "Error" => PhaseOf(s) = "failed"
  BY DEF PhaseOf

LEMMA PhaseCasesPrime ==
    ASSUME NEW s \in Sessions
    PROVE  /\ s \in abandoned' => PhaseOf(s)' = "given up"
           /\ s \notin abandoned' =>
                /\ state'[s] \in {"Created", "Starting"} => PhaseOf(s)' = "opening"
                /\ state'[s] \in {"Ready", "Break", "Running"} => PhaseOf(s)' = "serving"
                /\ state'[s] = "Closing" => PhaseOf(s)' = "closing"
                /\ state'[s] = "Closed" => PhaseOf(s)' = "closed"
                /\ state'[s] = "Error" => PhaseOf(s)' = "failed"
  BY DEF PhaseOf

\* A step that no client can see.
Unseen(s) == PhaseOf(s)' = PhaseOf(s) /\ WorkerUsers(s)' = WorkerUsers(s)

LifecycleStep == [Lifecycle!Next]_(Lifecycle!vars)

LEMMA MapStutter ==
    ASSUME UNCHANGED <<target, proc>>, \A s \in Sessions : Unseen(s)
    PROVE  LifecycleStep
  BY DEF Unseen, LifecycleStep, Lifecycle!vars

\* The one-way life of a session.
Moves(p, q) ==
    \/ p = q
    \/ p = "opening" /\ q = "serving"
    \/ p \in {"opening", "serving", "failed"} /\ q = "closing"
    \/ p \in {"opening", "serving", "closing", "closed", "failed"} /\ q \in {"closed", "failed"}
    \/ p \in {"serving", "failed"} /\ q = "given up"

LEMMA MapPhase ==
    ASSUME NEW s \in Sessions, UNCHANGED <<target, proc>>,
           \A r \in Sessions : r # s => Unseen(r),
           WorkerUsers(s)' = WorkerUsers(s), Moves(PhaseOf(s), PhaseOf(s)')
    PROVE  LifecycleStep
  <1> DEFINE P == [r \in Sessions |-> PhaseOf(r)]
             U == [r \in Sessions |-> WorkerUsers(r)]
             Q == [r \in Sessions |-> PhaseOf(r)']
  <1>1. Q = [P EXCEPT ![s] = Q[s]]
    BY DEF Unseen
  <1>2. [r \in Sessions |-> WorkerUsers(r)'] = U
    BY DEF Unseen
  <1>3. Lifecycle!Become(s, PhaseOf(s)')
    BY <1>1, <1>2 DEF Lifecycle!Become
  <1>4. P[s] = PhaseOf(s)
    OBVIOUS
  <1>5. CASE PhaseOf(s)' = PhaseOf(s)
    BY <1>5, MapStutter DEF Unseen
  <1>6. CASE PhaseOf(s)' # PhaseOf(s)
    <2>1. Lifecycle!Serve(s) \/ Lifecycle!Close(s) \/ Lifecycle!End(s) \/ Lifecycle!GiveUp(s)
      BY <1>3, <1>4, <1>6
      DEF Moves, Lifecycle!Serve, Lifecycle!Close, Lifecycle!End, Lifecycle!GiveUp,
          Lifecycle!OnOffer, Lifecycle!Over
    <2> QED
      BY <2>1 DEF Lifecycle!Next, LifecycleStep
  <1> QED
    BY <1>5, <1>6

\* The worker ends, and perhaps its user's request with it.
LEMMA MapExit ==
    ASSUME NEW s \in Sessions, UNCHANGED target, proc[s] # "none",
           proc \in [Sessions -> {"none", "alive", "exited"}],
           proc' = [proc EXCEPT ![s] = "exited"],
           \A r \in Sessions : PhaseOf(r)' = PhaseOf(r),
           \A r \in Sessions : r # s => Unseen(r),
           Unseen(s) \/ WorkerUsers(s)' = {}
    PROVE  LifecycleStep
  <1> DEFINE P == [r \in Sessions |-> PhaseOf(r)]
             U == [r \in Sessions |-> WorkerUsers(r)]
             V == [r \in Sessions |-> WorkerUsers(r)']
  <1>1. [r \in Sessions |-> PhaseOf(r)'] = P
    OBVIOUS
  <1>2. V = U \/ V = [U EXCEPT ![s] = {}]
    BY DEF Unseen
  <1>3. Lifecycle!Exit(s)
    BY <1>1, <1>2 DEF Lifecycle!Exit
  <1> QED
    BY <1>3 DEF Lifecycle!Next, LifecycleStep

\* A thread gets the worker for itself.
LEMMA MapUse ==
    ASSUME NEW s \in Sessions, UNCHANGED <<target, proc>>,
           NEW u, WorkerUsers(s) = {}, WorkerUsers(s)' = {u}, proc[s] # "none",
           u \in {<<"open">>, <<"close">>} \cup {<<"command", c>> : c \in Clients}
                   \cup {<<"close", c>> : c \in Clients},
           u = <<"open">> => PhaseOf(s) = "opening",
           u \in {<<"command", c>> : c \in Clients} => PhaseOf(s) \notin {"none", "opening"},
           \A r \in Sessions : PhaseOf(r)' = PhaseOf(r),
           \A r \in Sessions : r # s => Unseen(r)
    PROVE  LifecycleStep
  <1> DEFINE P == [r \in Sessions |-> PhaseOf(r)]
             U == [r \in Sessions |-> WorkerUsers(r)]
             V == [r \in Sessions |-> WorkerUsers(r)']
  <1>1. [r \in Sessions |-> PhaseOf(r)'] = P /\ P[s] = PhaseOf(s) /\ U[s] = {}
    OBVIOUS
  <1>2. V = [U EXCEPT ![s] = {u}]
    BY DEF Unseen
  <1>3. Lifecycle!Use(s, u)
    BY <1>1, <1>2 DEF Lifecycle!Use
  <1> QED
    BY <1>3 DEF Lifecycle!Next, LifecycleStep

\* A request ends.
LEMMA MapRelease ==
    ASSUME NEW s \in Sessions, UNCHANGED <<target, proc>>,
           WorkerUsers(s) # {}, WorkerUsers(s)' = {},
           \A r \in Sessions : PhaseOf(r)' = PhaseOf(r),
           \A r \in Sessions : r # s => Unseen(r)
    PROVE  LifecycleStep
  <1> DEFINE P == [r \in Sessions |-> PhaseOf(r)]
             U == [r \in Sessions |-> WorkerUsers(r)]
             V == [r \in Sessions |-> WorkerUsers(r)']
  <1>1. [r \in Sessions |-> PhaseOf(r)'] = P /\ U[s] # {}
    OBVIOUS
  <1>2. V = [U EXCEPT ![s] = {}]
    BY DEF Unseen
  <1>3. Lifecycle!Release(s)
    BY <1>1, <1>2 DEF Lifecycle!Release
  <1> QED
    BY <1>3 DEF Lifecycle!Next, LifecycleStep

\* A thread between acquiring and releasing the operation lock is the only
\* possible user of the worker.
LEMMA UsersUnderLock ==
    ASSUME LockInv, NEW s \in Sessions
    PROVE  /\ \A c \in Clients : lock[s] = <<"eval", c>> =>
                WorkerUsers(s) = IF Executing(c, s) THEN {<<"command", c>>} ELSE {}
           /\ \A c \in Clients : lock[s] = <<"closer", c>> =>
                WorkerUsers(s) = IF ClosingWorker(c, s) THEN {<<"close", c>>} ELSE {}
           /\ lock[s] = <<"startup">> =>
                WorkerUsers(s) = IF startup[s] = "create" THEN {<<"open">>}
                                 ELSE IF startup[s] \in {"close_closing", "close_terminal"}
                                      THEN {<<"close">>} ELSE {}
           /\ lock[s] \in {<<"free">>, <<"missing">>} => WorkerUsers(s) = {}
  <1>1. \A c \in Clients : Executing(c, s) => lock[s] = <<"eval", c>>
    BY DEF LockInv, Executing, EvalLocked
  <1>2. \A c \in Clients : ClosingWorker(c, s) => lock[s] = <<"closer", c>>
    BY DEF LockInv, ClosingWorker, CloserLocked
  <1>3. startup[s] \in {"create", "close_closing", "close_terminal"} =>
          lock[s] = <<"startup">>
    BY DEF LockInv, StartupHolds
  <1>4. ASSUME NEW c \in Clients, lock[s] = <<"eval", c>>
        PROVE  WorkerUsers(s) = IF Executing(c, s) THEN {<<"command", c>>} ELSE {}
    <2>1. \A d \in Clients : ~ClosingWorker(d, s) /\ (Executing(d, s) => d = c)
      BY <1>1, <1>2, <1>4, DistinctHolders
    <2> QED
      BY <1>3, <1>4, <2>1, DistinctHolders DEF WorkerUsers
  <1>5. ASSUME NEW c \in Clients, lock[s] = <<"closer", c>>
        PROVE  WorkerUsers(s) = IF ClosingWorker(c, s) THEN {<<"close", c>>} ELSE {}
    <2>1. \A d \in Clients : ~Executing(d, s) /\ (ClosingWorker(d, s) => d = c)
      BY <1>1, <1>2, <1>5, DistinctHolders
    <2> QED
      BY <1>3, <1>5, <2>1, DistinctHolders DEF WorkerUsers
  <1>6. ASSUME lock[s] = <<"startup">>
        PROVE  WorkerUsers(s) = IF startup[s] = "create" THEN {<<"open">>}
                                ELSE IF startup[s] \in {"close_closing", "close_terminal"}
                                     THEN {<<"close">>} ELSE {}
    <2>1. \A d \in Clients : ~Executing(d, s) /\ ~ClosingWorker(d, s)
      BY <1>1, <1>2, <1>6, DistinctHolders
    <2> QED
      BY <2>1 DEF WorkerUsers
  <1>7. ASSUME lock[s] \in {<<"free">>, <<"missing">>} PROVE WorkerUsers(s) = {}
    <2>1. \A d \in Clients : ~Executing(d, s) /\ ~ClosingWorker(d, s)
      BY <1>1, <1>2, <1>7, DistinctHolders
    <2> QED
      BY <1>3, <1>7, <2>1, DistinctHolders DEF WorkerUsers
  <1> QED
    BY <1>4, <1>5, <1>6, <1>7

\* Who uses the worker of a session is the same before and after the step.
SameUsers(s) ==
    /\ \A d \in Clients : /\ Executing(d, s)' <=> Executing(d, s)
                          /\ ClosingWorker(d, s)' <=> ClosingWorker(d, s)
    /\ startup'[s] = "create" <=> startup[s] = "create"
    /\ startup'[s] \in {"close_closing", "close_terminal"} <=>
          startup[s] \in {"close_closing", "close_terminal"}

LEMMA UsersSame ==
    ASSUME NEW s \in Sessions, SameUsers(s)
    PROVE  WorkerUsers(s)' = WorkerUsers(s)
  <1>1. {d \in Clients : Executing(d, s)'} = {d \in Clients : Executing(d, s)}
    BY DEF SameUsers
  <1>2. {d \in Clients : ClosingWorker(d, s)'} = {d \in Clients : ClosingWorker(d, s)}
    BY DEF SameUsers
  <1> QED
    BY <1>1, <1>2 DEF WorkerUsers, SameUsers

\* The user after a step.
LEMMA UsersAfter ==
    ASSUME NEW s \in Sessions
    PROVE  /\ (\A d \in Clients : ~Executing(d, s)' /\ ~ClosingWorker(d, s)') =>
                 /\ startup'[s] = "create" => WorkerUsers(s)' = {<<"open">>}
                 /\ startup'[s] \in {"close_closing", "close_terminal"} =>
                       WorkerUsers(s)' = {<<"close">>}
                 /\ startup'[s] \notin {"create", "close_closing", "close_terminal"} =>
                       WorkerUsers(s)' = {}
           /\ \A c \in Clients :
                 /\ \A d \in Clients : (Executing(d, s)' <=> d = c) /\ ~ClosingWorker(d, s)'
                 /\ startup'[s] \notin {"create", "close_closing", "close_terminal"}
                 => WorkerUsers(s)' = {<<"command", c>>}
           /\ \A c \in Clients :
                 /\ \A d \in Clients : ~Executing(d, s)' /\ (ClosingWorker(d, s)' <=> d = c)
                 /\ startup'[s] \notin {"create", "close_closing", "close_terminal"}
                 => WorkerUsers(s)' = {<<"close", c>>}
  BY DEF WorkerUsers

\* Steps that change neither a state, nor a process, nor a user.
LEMMA MapQuiet ==
    ASSUME UNCHANGED <<state, target, abandoned, proc>>,
           \A s \in Sessions : SameUsers(s)
    PROVE  LifecycleStep
  BY MapStutter, UsersSame, PhaseSame DEF Unseen

\* Steps that change the state of one session.
LEMMA MapState ==
    ASSUME NEW s \in Sessions, UNCHANGED <<target, proc>>,
           \A r \in Sessions : r # s =>
               state'[r] = state[r] /\ (r \in abandoned' <=> r \in abandoned),
           \A r \in Sessions : SameUsers(r),
           Moves(PhaseOf(s), PhaseOf(s)')
    PROVE  LifecycleStep
  <1>1. \A r \in Sessions : r # s => Unseen(r)
    BY UsersSame, PhaseSame DEF Unseen
  <1>2. WorkerUsers(s)' = WorkerUsers(s)
    BY UsersSame
  <1> QED
    BY <1>1, <1>2, MapPhase

\* Steps that end a worker, or fail to.
LEMMA MapKill ==
    ASSUME TypeOK, NEW s \in Sessions, kill(s), proc[s] # "none",
           UNCHANGED <<state, target, abandoned>>,
           \A r \in Sessions : SameUsers(r)
    PROVE  LifecycleStep
  <1>1. \A r \in Sessions : Unseen(r)
    BY UsersSame, PhaseSame DEF Unseen
  <1>2. CASE proc' = [proc EXCEPT ![s] = "exited"]
    BY <1>1, <1>2, MapExit DEF Unseen, TypeOK, WorkerTypeOK
  <1>3. CASE proc' = proc
    BY <1>1, <1>3, MapStutter
  <1> QED
    BY <1>2, <1>3 DEF kill

\* The orderly close of a worker returns: the user is gone, and the worker as
\* far as the operating system allows.
LEMMA MapClosed ==
    ASSUME TypeOK, NEW s \in Sessions, close_ok(s) \/ close_err(s), proc[s] # "none",
           UNCHANGED <<state, target, abandoned>>,
           WorkerUsers(s) # {}, WorkerUsers(s)' = {},
           \A r \in Sessions : r # s => SameUsers(r)
    PROVE  LifecycleStep
  <1>1. \A r \in Sessions : PhaseOf(r)' = PhaseOf(r)
    BY PhaseSame
  <1>2. \A r \in Sessions : r # s => Unseen(r)
    BY <1>1, UsersSame DEF Unseen
  <1>3. CASE proc' = [proc EXCEPT ![s] = "exited"]
    BY <1>1, <1>2, <1>3, MapExit DEF TypeOK, WorkerTypeOK
  <1>4. CASE proc' = proc
    BY <1>1, <1>2, <1>4, MapRelease
  <1> QED
    BY <1>3, <1>4 DEF kill, close_ok, close_err

\* create_session: a session is added for a target that has none on offer.
LEMMA MapCreate ==
    ASSUME IndInv, OpeningInv, NEW c \in Clients, NEW s \in Sessions, NEW t \in Targets,
           CreateSession(c, t, s)
    PROVE  LifecycleStep
  <1> USE DEF IndInv
  <1> DEFINE P == [r \in Sessions |-> PhaseOf(r)]
             U == [r \in Sessions |-> WorkerUsers(r)]
  <1>1. UNCHANGED <<proc, startup, abandoned>> /\ target' = [target EXCEPT ![s] = t]
    BY DEF CreateSession
  <1>2. \A r \in Sessions : SameUsers(r)
    BY DEF CreateSession, SameUsers, Executing, ClosingWorker, closerVars, TypeOK,
           ClientTypeOK
  <1>3. \A r \in Sessions : WorkerUsers(r)' = WorkerUsers(r)
    BY <1>2, UsersSame
  <1>4. s \notin abandoned /\ state[s] = "Absent" /\ state'[s] = "Starting"
    BY DEF CreateSession, OpeningInv, TypeOK, SessionTypeOK
  <1>5. PhaseOf(s) = "none" /\ PhaseOf(s)' = "opening"
    BY <1>1, <1>4, PhaseCases, PhaseCasesPrime
  <1>6. \A r \in Sessions : r # s => PhaseOf(r)' = PhaseOf(r)
    BY <1>1, PhaseSame DEF CreateSession, TypeOK, SessionTypeOK
  <1>7. \A r \in Sessions : target[r] = t => PhaseOf(r) \notin {"opening", "serving"}
    BY DEF CreateSession, reusable, is_reusable, PhaseOf
  <1>8. [r \in Sessions |-> PhaseOf(r)'] = [P EXCEPT ![s] = "opening"]
    BY <1>5, <1>6
  <1>9. [r \in Sessions |-> WorkerUsers(r)'] = U
    BY <1>3
  <1>10. Lifecycle!Create(s, t)
    BY <1>1, <1>5, <1>7, <1>8, <1>9 DEF Lifecycle!Create, Lifecycle!OnOffer
  <1> QED
    BY <1>10 DEF Lifecycle!Next, LifecycleStep

\* Startup spawns the worker, once.
LEMMA MapSpawn ==
    ASSUME IndInv, OpeningInv, SpawnedInv, NEW s \in Sessions, StartupSpawn(s)
    PROVE  LifecycleStep
  <1> USE DEF IndInv
  <1>1. /\ \A r \in Sessions : SameUsers(r)
        /\ UNCHANGED <<state, target, abandoned>> /\ startup[s] = "spawn"
    BY DEF StartupSpawn, SGoto, SameUsers, Executing, ClosingWorker, clientVars, closerVars,
           sessionVars, TypeOK, WorkerTypeOK
  <1>2. \A r \in Sessions : Unseen(r)
    BY <1>1, UsersSame, PhaseSame DEF Unseen
  <1>3. CASE proc' = proc
    BY <1>1, <1>2, <1>3, MapStutter
  <1>4. CASE proc' = [proc EXCEPT ![s] = "alive"]
    <2>1. proc[s] = "none" /\ state[s] # "Absent"
      BY <1>1 DEF SpawnedInv, NewInv
    <2>2. PhaseOf(s) # "none"
      BY <2>1 DEF PhaseOf
    <2>3. /\ [r \in Sessions |-> PhaseOf(r)'] = [r \in Sessions |-> PhaseOf(r)]
          /\ [r \in Sessions |-> WorkerUsers(r)'] = [r \in Sessions |-> WorkerUsers(r)]
      BY <1>2 DEF Unseen
    <2>4. Lifecycle!Spawn(s)
      BY <1>1, <1>4, <2>1, <2>2, <2>3 DEF Lifecycle!Spawn
    <2> QED
      BY <2>4 DEF Lifecycle!Next, LifecycleStep
  <1> QED
    BY <1>3, <1>4 DEF StartupSpawn

\* A session has no monitor before its startup is over.
WatchedInv ==
    \A s \in Sessions : startup[s] # "done" => monitor[s] = "off"

LEMMA WatchedStep ==
    ASSUME IndInv, WatchedInv, [Next]_vars
    PROVE  WatchedInv'
  <1> USE DEF IndInv, TypeOK, WorkerTypeOK
  <1>1. CASE UNCHANGED vars
    BY <1>1 DEF vars, WatchedInv
  <1>2. ASSUME NEW c \in Clients, NEW s \in Sessions,
               \/ \E t \in Targets : CreateSession(c, t, s)
               \/ CloseSession(c, s)
               \/ \E o \in Ops : EvalEmpty(c, s, o) \/ Eval(c, s, o)
        PROVE  WatchedInv'
    BY <1>2 DEF CreateSession, CloseSession, EvalEmpty, Eval, WatchedInv
  <1>3. ASSUME NEW c \in Clients, ClientStep(c) PROVE WatchedInv'
    <2>1. CASE CreateLocks(c)
      <3>1. cs[c] \in Sessions /\ startup[cs[c]] = "off"
        BY <2>1 DEF CreateLocks, CallInv, NewInv
      <3> QED
        BY <2>1, <3>1 DEF CreateLocks, WatchedInv
    <2>2. CASE ~CreateLocks(c)
      <3>1. UNCHANGED <<startup, monitor>>
        BY <1>3, <2>2
        DEF ClientStep, CloseNothing, CloseMark, CloseCancel, CloseKill, CloseSpawn, EvalLock,
            EvalQuery, EvalWorker, EvalStart, EvalSend, EvalRequery, EvalFinish
      <3> QED
        BY <3>1 DEF WatchedInv
    <2> QED
      BY <2>1, <2>2
  <1>4. ASSUME NEW c \in Clients, EvalAnswer(c) \/ CloserStep(c) PROVE WatchedInv'
    <2>1. UNCHANGED <<startup, monitor>>
      BY <1>4
      DEF EvalAnswer, EvalEvent, EvalReply, EvalFail, CloserStep, CloserLock, CloserRemove,
          CloserCloseWorker, CloserFinish, CloserTimeout, CloserTimeoutCancel,
          CloserTimeoutKill, CloserTimeoutRemove, CloserTimeoutFinish
    <2> QED
      BY <2>1 DEF WatchedInv
  <1>5. ASSUME NEW s \in Sessions, StartupStep(s) \/ StartupCreate(s) PROVE WatchedInv'
    <2> USE DEF SGoto, SExit
    <2>1. CASE StartupSpawnMonitor(s)
      BY <2>1 DEF StartupSpawnMonitor, WatchedInv
    <2>2. CASE ~StartupSpawnMonitor(s)
      <3>1. /\ UNCHANGED monitor /\ startup[s] # "done"
            /\ \A r \in Sessions : r # s => startup'[r] = startup[r]
        BY <1>5, <2>2
        DEF StartupStep, StartupLock, StartupSpawn, StartupInsert, StartupCheck,
            StartupCancel, StartupKill, StartupCreate, StartupFinish, StartupLateRemove,
            StartupLateClose, StartupFinishClose, StartupFailRemove, StartupFailKill,
            StartupFailUpdate
      <3> QED
        BY <3>1 DEF WatchedInv
    <2> QED
      BY <2>1, <2>2
  <1>6. ASSUME NEW s \in Sessions, MonitorStep(s) \/ WorkerCrash(s) \/ DropWorker(s)
        PROVE  WatchedInv'
    BY <1>6 DEF MonitorStep, MonitorPoll, MonitorRemove, WorkerCrash, DropWorker, WatchedInv
  <1> QED
    BY <1>1, <1>2, <1>3, <1>4, <1>5, <1>6 DEF Next

LifeInv == IndInv /\ BookInv /\ OpeningInv /\ SpawnedInv /\ WatchedInv

\* The steps of client calls other than eval's use of the worker.
LEMMA MapClient ==
    ASSUME LifeInv, NEW c \in Clients, ClientStep(c)
    PROVE  LifecycleStep
  <1> USE DEF LifeInv, IndInv, TypeOK, ClientTypeOK, sessionVars, clientVars, closerVars,
              Goto, Return, Reject, SameUsers, Executing, ClosingWorker
  <1>1. CASE CreateLocks(c)
    <2>1. cs[c] \in Sessions /\ startup[cs[c]] = "off"
      BY <1>1 DEF CreateLocks, CallInv, NewInv
    <2>2. UNCHANGED <<state, target, abandoned, proc>> /\ \A s \in Sessions : SameUsers(s)
      BY <1>1, <2>1 DEF CreateLocks, WorkerTypeOK
    <2> QED
      BY <2>2, MapQuiet
  <1>2. CASE \/ CloseNothing(c) \/ CloseCancel(c) \/ CloseSpawn(c)
             \/ EvalLock(c) \/ EvalQuery(c) \/ EvalWorker(c) \/ EvalRequery(c)
    <2>1. UNCHANGED <<state, target, abandoned, proc>>
      BY <1>2 DEF CloseNothing, CloseCancel, CloseSpawn, EvalLock, EvalQuery, EvalWorker,
                  EvalRequery
    <2>2. CASE CloseNothing(c) \/ CloseCancel(c) \/ CloseSpawn(c)
      <3>1. \A s \in Sessions : SameUsers(s)
        BY <2>2 DEF CloseNothing, CloseCancel, CloseSpawn, CallInv, CloserTypeOK
      <3> QED
        BY <2>1, <3>1, MapQuiet
    <2>3. CASE EvalLock(c) \/ EvalQuery(c) \/ EvalWorker(c) \/ EvalRequery(c)
      <3>1. \A s \in Sessions : SameUsers(s)
        BY <2>3 DEF EvalLock, EvalQuery, EvalWorker, EvalRequery
      <3> QED
        BY <2>1, <3>1, MapQuiet
    <2> QED
      BY <1>2, <2>2, <2>3
  <1>3. CASE CloseKill(c)
    <2>1. cs[c] \in Sessions /\ proc[cs[c]] # "none" /\ kill(cs[c])
      BY <1>3 DEF CloseKill, CallInv, SpawnedInv
    <2>2. UNCHANGED <<state, target, abandoned>> /\ \A s \in Sessions : SameUsers(s)
      BY <1>3 DEF CloseKill
    <2> QED
      BY <2>1, <2>2, MapKill
  <1>4. CASE CloseMark(c)
    <2>0. PICK s \in Sessions : s = cs[c]
      BY <1>4 DEF CloseMark, CallInv
    <2> USE <2>0
    <2>1. state[s] \notin {"Absent", "Closed", "Closing"}
      BY <1>4 DEF CloseMark, CallInv, NewInv
    <2>2. /\ UNCHANGED <<target, proc>>
          /\ \A r \in Sessions : r # s =>
                state'[r] = state[r] /\ (r \in abandoned' <=> r \in abandoned)
      BY <1>4, <2>1 DEF CloseMark, SessionTypeOK
    <2>3. \A r \in Sessions : SameUsers(r)
      BY <1>4 DEF CloseMark
    <2>4. Moves(PhaseOf(s), PhaseOf(s)')
      <3>1. CASE s \in abandoned
        <4>1. s \in abandoned'
          BY <1>4, <3>1 DEF CloseMark
        <4> QED
          BY <2>1, <3>1, <4>1, PhaseCases, PhaseCasesPrime DEF Moves
      <3>2. CASE s \notin abandoned /\ s \notin abandoned'
        <4>1. state'[s] \in {"Closing", "Closed"}
          BY <1>4, <2>1 DEF CloseMark, SessionTypeOK
        <4>2. PhaseOf(s) \in {"opening", "serving", "failed"}
          BY <2>1, <3>2, PhaseCases DEF SessionTypeOK, SessionState
        <4>3. PhaseOf(s)' \in {"closing", "closed"}
          BY <2>1, <3>2, <4>1, PhaseCasesPrime
        <4> QED
          BY <4>2, <4>3 DEF Moves
      <3>3. CASE s \notin abandoned /\ s \in abandoned'
        <4>1. current[s] = "none"
          BY <1>4, <3>3 DEF CloseMark
        <4>2. state[s] \notin {"Created", "Starting"}
          BY <2>1, <4>1 DEF OpeningInv
        <4>3. PhaseOf(s) \in {"serving", "failed"}
          BY <2>1, <3>3, <4>2, PhaseCases DEF SessionTypeOK, SessionState
        <4> QED
          BY <2>1, <3>3, <4>3, PhaseCasesPrime DEF Moves
      <3> QED
        BY <3>1, <3>2, <3>3
    <2> QED
      BY <2>1, <2>2, <2>3, <2>4, MapState
  <1>5. CASE EvalStart(c) \/ EvalFinish(c)
    <2>0. PICK s \in Sessions : s = cs[c]
      BY <1>5 DEF EvalStart, EvalFinish, CallInv
    <2> USE <2>0
    <2>1. startup[s] = "done" /\ state[s] # "Absent"
      BY <1>5 DEF EvalStart, EvalFinish, CallInv, NewInv, BookInv, StartInv, EvalLocked
    <2>2. state[s] \notin {"Created", "Starting"}
      BY <2>1 DEF OpeningInv, Answered
    <2>3. /\ UNCHANGED <<target, proc, abandoned>>
          /\ \A r \in Sessions : r # s => state'[r] = state[r]
      BY <1>5, <2>1 DEF EvalStart, EvalFinish, SessionTypeOK
    <2>4. \A r \in Sessions : SameUsers(r)
      BY <1>5 DEF EvalStart, EvalFinish
    <2>5. \/ state'[s] = state[s]
          \/ /\ state[s] \in {"Ready", "Break", "Running"}
             /\ state'[s] \in {"Ready", "Break", "Running", "Closed", "Error"}
      <3>1. CASE EvalStart(c)
        <4>1. snap[c] \in {"Ready", "Break"}
          BY <3>1 DEF EvalStart, SnapInv
        <4> QED
          BY <2>1, <2>2, <3>1, <4>1 DEF EvalStart, SessionTypeOK, SessionState, is_terminal
      <3>2. CASE EvalFinish(c)
        <4>1. /\ snap[c] \in SessionState \ {"Created", "Starting"}
              /\ snap[c] = "Closing" => state[s] \in Ending
          BY <3>2 DEF EvalFinish, SnapInv, OpeningInv, Ending
        <4> QED
          BY <2>1, <2>2, <3>2, <4>1 DEF EvalFinish, SessionTypeOK, SessionState,
                      is_terminal, finish_operation_applies, Ending
      <3> QED
        BY <1>5, <3>1, <3>2
    <2>6. Moves(PhaseOf(s), PhaseOf(s)')
      BY <2>1, <2>3, <2>5, PhaseSame, PhaseCases, PhaseCasesPrime DEF Moves
    <2> QED
      BY <2>1, <2>3, <2>4, <2>6, MapState
  <1>6. CASE EvalSend(c)
    <2>0. PICK s \in Sessions : s = cs[c]
      BY <1>6 DEF EvalSend, CallInv
    <2> USE <2>0
    <2>1. /\ startup[s] = "done" /\ state[s] # "Absent" /\ proc[s] = "alive"
          /\ lock[s] = <<"eval", c>> /\ ~Executing(c, s)
      BY <1>6
      DEF EvalSend, CallInv, NewInv, BookInv, StartInv, EvalLocked, LockInv
    <2>2. state[s] \notin {"Created", "Starting"}
      BY <2>1 DEF OpeningInv, Answered
    <2>3. PhaseOf(s) \notin {"none", "opening"}
      BY <2>1, <2>2 DEF PhaseOf
    <2>4. WorkerUsers(s) = {}
      BY <2>1, UsersUnderLock
    <2>5. /\ UNCHANGED <<state, target, proc, abandoned, startup, kpc, ks, cs>>
          /\ pc'[c] = "eval_wait" /\ \A d \in Clients : d # c => pc'[d] = pc[d]
      BY <1>6 DEF EvalSend
    <2>6. \A d \in Clients : ~ClosingWorker(d, s) /\ (d # c => ~Executing(d, s))
      BY <2>1, DistinctHolders DEF LockInv, EvalLocked, CloserLocked
    <2>7. \A d \in Clients : (Executing(d, s)' <=> d = c) /\ ~ClosingWorker(d, s)'
      BY <2>5, <2>6
    <2>8. WorkerUsers(s)' = {<<"command", c>>}
      BY <2>1, <2>5, <2>7, UsersAfter
    <2>9. \A r \in Sessions : r # s => SameUsers(r)
      BY <2>5
    <2>10. \A r \in Sessions : PhaseOf(r)' = PhaseOf(r)
      BY <2>5, PhaseSame
    <2>11. \A r \in Sessions : r # s => Unseen(r)
      BY <2>9, <2>10, UsersSame DEF Unseen
    <2> QED
      BY <2>1, <2>3, <2>4, <2>5, <2>8, <2>10, <2>11, MapUse
  <1> QED
    BY <1>1, <1>2, <1>3, <1>4, <1>5, <1>6 DEF ClientStep

\* What comes back from the worker while eval waits.
LEMMA MapAnswer ==
    ASSUME LifeInv, NEW c \in Clients, EvalAnswer(c)
    PROVE  LifecycleStep
  <1> USE DEF LifeInv, IndInv, TypeOK, ClientTypeOK, sessionVars, closerVars, Goto, SameUsers,
              Executing, ClosingWorker
  <1>1. PICK s \in Sessions : s = cs[c]
    BY DEF EvalAnswer, EvalEvent, EvalReply, EvalFail, CallInv
  <1>2. /\ UNCHANGED <<target, proc, abandoned, startup, kpc, ks, cs>>
        /\ \A d \in Clients : d # c => pc'[d] = pc[d]
    BY DEF EvalAnswer, EvalEvent, EvalReply, EvalFail, apply_backend_execution_event
  <1>3. \A r \in Sessions : r # s => SameUsers(r)
    BY <1>1, <1>2
  <1>4. CASE EvalEvent(c)
    <2>1. startup[s] = "done" /\ state[s] # "Absent" /\ pc[c] \in {"eval_wait", "eval_ran"}
      BY <1>1, <1>4 DEF EvalEvent, NewInv, BookInv, StartInv, EvalLocked
    <2>2. state[s] \notin {"Created", "Starting"}
      BY <2>1 DEF OpeningInv, Answered
    <2>3. state[s] = "Closed" => s \in abandoned
      BY <1>1, <2>1 DEF OpenInv, EvalOpen
    <2>4. /\ \/ state'[s] = state[s]
             \/ state[s] \notin {"Closing", "Error"} /\ state'[s] \in ExecutionState
          /\ \A r \in Sessions : r # s => state'[r] = state[r]
      BY <1>1, <1>4 DEF EvalEvent, apply_backend_execution_event, SessionTypeOK,
                        ExecutionState
    <2>5. SameUsers(s)
      BY <1>2, <1>4, <2>1 DEF EvalEvent
    <2>6. Moves(PhaseOf(s), PhaseOf(s)')
      <3>1. CASE s \in abandoned \/ state'[s] = state[s]
        BY <1>2, <3>1, PhaseSame, PhaseCases, PhaseCasesPrime DEF Moves
      <3>2. CASE s \notin abandoned /\ state'[s] # state[s]
        <4>1. state[s] \in {"Ready", "Break", "Running"}
          BY <2>1, <2>2, <2>3, <2>4, <3>2 DEF SessionTypeOK, SessionState
        <4> QED
          BY <1>2, <2>4, <3>2, <4>1, PhaseCases, PhaseCasesPrime DEF Moves, ExecutionState
      <3> QED
        BY <3>1, <3>2
    <2> QED
      BY <1>2, <1>3, <2>4, <2>5, <2>6, MapState
  <1>5. CASE EvalReply(c) \/ EvalFail(c)
    <2>1. UNCHANGED state /\ pc'[c] \in {"eval_requery", "eval_finish"}
      BY <1>5 DEF EvalReply, EvalFail
    <2>2. CASE ~Executing(c, s)
      <3>1. SameUsers(s)
        BY <1>2, <2>1, <2>2
      <3> QED
        BY <1>2, <1>3, <2>1, <3>1, MapQuiet
    <2>3. CASE Executing(c, s)
      <3>1. lock[s] = <<"eval", c>>
        BY <2>3 DEF LockInv, EvalLocked
      <3>2. WorkerUsers(s) # {}
        BY <2>3, <3>1, UsersUnderLock
      <3>3. /\ \A d \in Clients : ~ClosingWorker(d, s) /\ (d # c => ~Executing(d, s))
            /\ startup[s] \notin {"create", "close_closing", "close_terminal"}
        BY <3>1, DistinctHolders DEF LockInv, EvalLocked, CloserLocked, StartupHolds
      <3>4. \A d \in Clients : ~Executing(d, s)' /\ ~ClosingWorker(d, s)'
        BY <1>2, <2>1, <3>3
      <3>5. WorkerUsers(s)' = {}
        BY <1>2, <3>3, <3>4, UsersAfter
      <3>6. \A r \in Sessions : PhaseOf(r)' = PhaseOf(r)
        BY <1>2, <2>1, PhaseSame
      <3>7. \A r \in Sessions : r # s => Unseen(r)
        BY <1>3, <3>6, UsersSame DEF Unseen
      <3> QED
        BY <1>2, <3>2, <3>5, <3>6, <3>7, MapRelease
    <2> QED
      BY <2>2, <2>3
  <1> QED
    BY <1>4, <1>5 DEF EvalAnswer

\* The end of a session, by a close thread, startup or the monitor.
LEMMA MapEnd ==
    ASSUME LifeInv, NEW s \in Sessions, state[s] # "Absent",
           NEW st \in {"Closed", "Error"}, state' = [state EXCEPT ![s] = st],
           UNCHANGED <<target, proc, abandoned>>, \A r \in Sessions : SameUsers(r)
    PROVE  LifecycleStep
  <1>1. /\ state'[s] = st /\ state[s] \in SessionState
        /\ \A r \in Sessions : r # s => state'[r] = state[r]
    BY DEF LifeInv, IndInv, TypeOK, SessionTypeOK
  <1>2. Moves(PhaseOf(s), PhaseOf(s)')
    <2>1. CASE s \in abandoned
      BY <2>1, PhaseCases, PhaseCasesPrime DEF Moves
    <2>2. CASE s \notin abandoned
      BY <1>1, <2>2, PhaseCases, PhaseCasesPrime DEF Moves, SessionState
    <2> QED
      BY <2>1, <2>2
  <1> QED
    BY <1>1, <1>2, MapState

\* The close thread.
LEMMA MapCloser ==
    ASSUME LifeInv, NEW c \in Clients, CloserStep(c)
    PROVE  LifecycleStep
  <1> USE DEF LifeInv, IndInv, TypeOK, CloserTypeOK, sessionVars, clientVars, closerVars, KGoto,
              KExit, SameUsers, Executing, ClosingWorker
  <1>1. PICK s \in Sessions : s = ks[c]
    BY DEF CloserStep, CloserLock, CloserRemove, CloserCloseWorker, CloserFinish,
           CloserTimeout, CloserTimeoutCancel, CloserTimeoutKill, CloserTimeoutRemove,
           CloserTimeoutFinish, CallInv
  <1>2. state[s] # "Absent"
    BY <1>1 DEF NewInv
  <1>3. CASE \/ CloserLock(c) \/ CloserTimeout(c) \/ CloserTimeoutCancel(c)
             \/ CloserTimeoutRemove(c)
    <2>1. UNCHANGED <<state, target, abandoned, proc>> /\ \A r \in Sessions : SameUsers(r)
      BY <1>3 DEF CloserLock, CloserTimeout, CloserTimeoutCancel, CloserTimeoutRemove
    <2> QED
      BY <2>1, MapQuiet
  <1>4. CASE CloserFinish(c) \/ CloserTimeoutFinish(c)
    <2>1. UNCHANGED <<target, abandoned, proc>> /\ \A r \in Sessions : SameUsers(r)
      BY <1>4 DEF CloserFinish, CloserTimeoutFinish, finish_worker_close
    <2>2. \E st \in {"Closed", "Error"} : state' = [state EXCEPT ![s] = st]
      BY <1>1, <1>4 DEF CloserFinish, CloserTimeoutFinish, finish_worker_close
    <2>3. PICK st \in {"Closed", "Error"} : state' = [state EXCEPT ![s] = st]
      BY <2>2
    <2> HIDE DEF LifeInv, SameUsers
    <2> QED
      BY <1>2, <2>1, <2>3, MapEnd
  <1>5. CASE CloserTimeoutKill(c)
    <2>1. UNCHANGED <<state, target, abandoned>> /\ \A r \in Sessions : SameUsers(r)
      BY <1>5 DEF CloserTimeoutKill
    <2>2. proc[s] # "none" /\ kill(s)
      BY <1>1, <1>5 DEF CloserTimeoutKill, SpawnedInv
    <2> QED
      BY <2>1, <2>2, MapKill
  <1>6. CASE CloserRemove(c) \/ CloserCloseWorker(c)
    <2>1. lock[s] = <<"closer", c>>
      BY <1>1, <1>6 DEF CloserRemove, CloserCloseWorker, LockInv, CloserLocked
    <2>2. /\ \A d \in Clients : ~Executing(d, s) /\ (d # c => ~ClosingWorker(d, s))
          /\ startup[s] \notin {"create", "close_closing", "close_terminal"}
      BY <2>1, DistinctHolders DEF LockInv, EvalLocked, CloserLocked, StartupHolds
    <2>3. /\ UNCHANGED <<state, target, abandoned, startup, pc, cs, ks>>
          /\ \A d \in Clients : d # c => kpc'[d] = kpc[d]
      BY <1>6 DEF CloserRemove, CloserCloseWorker
    <2>4. \A r \in Sessions : r # s => SameUsers(r)
      BY <1>1, <2>3
    <2>5. \A r \in Sessions : PhaseOf(r)' = PhaseOf(r)
      BY <2>3, PhaseSame
    <2>6. \A r \in Sessions : r # s => Unseen(r)
      BY <2>4, <2>5, UsersSame DEF Unseen
    <2>7. CASE CloserRemove(c)
      <3>1. UNCHANGED proc /\ kpc[c] = "remove"
        BY <2>7 DEF CloserRemove
      <3>2. WorkerUsers(s) = {}
        BY <2>1, <3>1, UsersUnderLock
      <3>3. CASE reg[s]
        <4>1. kpc'[c] = "close_worker"
          BY <1>1, <2>7, <3>3 DEF CloserRemove
        <4>2. \A d \in Clients : ~Executing(d, s)' /\ (ClosingWorker(d, s)' <=> d = c)
          BY <1>1, <2>2, <2>3, <4>1
        <4>3. WorkerUsers(s)' = {<<"close", c>>}
          BY <2>2, <2>3, <4>2, UsersAfter
        <4>4. <<"close", c>> # <<"open">> /\ \A d \in Clients : <<"close", c>> # <<"command", d>>
          OBVIOUS
        <4>5. proc[s] # "none"
          BY <3>3 DEF SpawnedInv
        <4> QED
          BY <2>3, <2>5, <2>6, <3>1, <3>2, <4>3, <4>4, <4>5, MapUse
      <3>4. CASE ~reg[s]
        <4>1. SameUsers(s)
          BY <1>1, <2>3, <2>7, <3>1, <3>4 DEF CloserRemove
        <4> QED
          BY <2>3, <2>4, <3>1, <4>1, MapQuiet
      <3> QED
        BY <3>3, <3>4
    <2>8. CASE CloserCloseWorker(c)
      <3>1. ClosingWorker(c, s) /\ kpc'[c] # "close_worker" /\ proc[s] # "none"
        BY <1>1, <2>8 DEF CloserCloseWorker, SpawnedInv
      <3>2. WorkerUsers(s) # {}
        BY <2>1, <3>1, UsersUnderLock
      <3>3. \A d \in Clients : ~Executing(d, s)' /\ ~ClosingWorker(d, s)'
        BY <2>2, <2>3, <3>1
      <3>4. WorkerUsers(s)' = {}
        BY <2>2, <2>3, <3>3, UsersAfter
      <3>5. close_ok(s) \/ close_err(s)
        BY <1>1, <2>8 DEF CloserCloseWorker
      <3> QED
        BY <2>3, <2>4, <3>1, <3>2, <3>4, <3>5, MapClosed
    <2> QED
      BY <1>6, <2>7, <2>8
  <1> QED
    BY <1>3, <1>4, <1>5, <1>6 DEF CloserStep

\* The startup thread, from the spawn of the worker to the end of a failed or
\* overtaken start.
LEMMA MapStartup ==
    ASSUME LifeInv, NEW s \in Sessions, StartupStep(s) \/ StartupCreate(s)
    PROVE  LifecycleStep
  <1> USE DEF LifeInv, IndInv, TypeOK, WorkerTypeOK, sessionVars, clientVars, closerVars,
              SGoto, SExit
  <1>1. /\ UNCHANGED <<target, abandoned, pc, cs, kpc, ks>>
        /\ \A r \in Sessions : r # s => startup'[r] = startup[r]
    BY DEF StartupStep, StartupLock, StartupSpawn, StartupInsert, StartupCheck,
           StartupCancel, StartupKill, StartupCreate, StartupFinish, StartupSpawnMonitor,
           StartupLateRemove, StartupLateClose, StartupFinishClose, StartupFailRemove,
           StartupFailKill, StartupFailUpdate, finish_worker_close
  <1>2. \A r \in Sessions, d \in Clients :
           /\ Executing(d, r)' <=> Executing(d, r)
           /\ ClosingWorker(d, r)' <=> ClosingWorker(d, r)
    BY <1>1 DEF Executing, ClosingWorker
  <1>3. \A r \in Sessions : r # s => SameUsers(r)
    BY <1>1, <1>2 DEF SameUsers
  <1>4. ASSUME startup[s] \notin {"create", "close_closing", "close_terminal"},
               startup'[s] \notin {"create", "close_closing", "close_terminal"}
        PROVE  \A r \in Sessions : SameUsers(r)
    BY <1>2, <1>3, <1>4 DEF SameUsers
  <1>5. startup[s] \in StartupHolds =>
           /\ lock[s] = <<"startup">>
           /\ state[s] # "Absent"
           /\ \A d \in Clients : ~Executing(d, s) /\ ~ClosingWorker(d, s)
    BY DistinctHolders DEF LockInv, NewInv, Executing, ClosingWorker, EvalLocked,
                           CloserLocked, StartupHolds
  <1>6. CASE \/ StartupLock(s) \/ StartupInsert(s) \/ StartupCancel(s)
             \/ StartupSpawnMonitor(s) \/ StartupFailRemove(s)
    <2>1. /\ UNCHANGED <<state, proc>>
          /\ startup[s] \notin {"create", "close_closing", "close_terminal"}
          /\ startup'[s] \notin {"create", "close_closing", "close_terminal"}
      BY <1>6 DEF StartupLock, StartupInsert, StartupCancel, StartupSpawnMonitor,
                  StartupFailRemove
    <2> QED
      BY <1>1, <1>4, <2>1, MapQuiet
  <1>7. CASE StartupSpawn(s)
    BY <1>7, MapSpawn
  <1>8. CASE StartupKill(s) \/ StartupFailKill(s)
    <2>1. /\ kill(s) /\ UNCHANGED state /\ proc[s] # "none"
          /\ startup[s] \notin {"create", "close_closing", "close_terminal"}
          /\ startup'[s] \notin {"create", "close_closing", "close_terminal"}
      BY <1>8 DEF StartupKill, StartupFailKill, SpawnedInv, StartupOwns
    <2> QED
      BY <1>1, <1>4, <2>1, MapKill
  <1>9. ASSUME UNCHANGED state
        PROVE  /\ \A r \in Sessions : PhaseOf(r)' = PhaseOf(r)
               /\ \A r \in Sessions : r # s => Unseen(r)
    BY <1>1, <1>3, <1>9, PhaseSame, UsersSame DEF Unseen
  <1>10. CASE StartupCheck(s)
    <2>1. UNCHANGED <<state, proc>> /\ startup[s] = "check" /\ proc[s] # "none"
      BY <1>10 DEF StartupCheck, SpawnedInv, StartupOwns
    <2>2. CASE startup'[s] = "cancel"
      BY <1>1, <1>4, <2>1, <2>2, MapQuiet
    <2>3. CASE startup'[s] = "create" /\ state[s] \notin Ending
      <3>1. WorkerUsers(s) = {}
        BY <1>5, <2>1, UsersUnderLock DEF StartupHolds
      <3>2. WorkerUsers(s)' = {<<"open">>}
        BY <1>2, <1>5, <2>1, <2>3, UsersAfter DEF StartupHolds
      <3>3. s \notin abandoned /\ state[s] \in {"Created", "Starting"}
        BY <1>5, <2>1, <2>3
        DEF OpeningInv, BookInv, StartInv, StartupHolds, SessionTypeOK, SessionState, Ending
      <3>4. PhaseOf(s) = "opening"
        BY <3>3, PhaseCases
      <3>5. \A d \in Clients : <<"open">> # <<"command", d>>
        OBVIOUS
      <3> QED
        BY <1>1, <1>9, <2>1, <3>1, <3>2, <3>4, <3>5, MapUse
    <2> QED
      BY <1>10, <2>2, <2>3 DEF StartupCheck, is_terminal, Ending
  <1>11. CASE StartupCreate(s)
    <2>1. /\ UNCHANGED <<state, proc>> /\ startup[s] = "create"
          /\ startup'[s] \in {"finish", "fail_remove"}
      BY <1>11 DEF StartupCreate
    <2>2. WorkerUsers(s) # {}
      BY <1>5, <2>1, UsersUnderLock DEF StartupHolds
    <2>3. WorkerUsers(s)' = {}
      BY <1>2, <1>5, <2>1, UsersAfter DEF StartupHolds
    <2> QED
      BY <1>1, <1>9, <2>1, <2>2, <2>3, MapRelease
  <1>12. CASE StartupFinish(s)
    <2>1. /\ UNCHANGED proc /\ startup[s] = "finish"
          /\ startup'[s] \in {"late_closing", "late_terminal", "spawn_monitor"}
      BY <1>12 DEF StartupFinish
    <2>2. \A r \in Sessions : SameUsers(r)
      BY <1>4, <2>1
    <2>3. CASE UNCHANGED state
      BY <1>1, <2>1, <2>2, <2>3, MapQuiet
    <2>4. CASE state[s] \notin Ending /\ state' = [state EXCEPT ![s] = "Break"]
      <3>1. s \notin abandoned /\ state[s] \in {"Created", "Starting"}
        BY <1>5, <2>1, <2>4
        DEF OpeningInv, BookInv, StartInv, StartupHolds, SessionTypeOK, SessionState, Ending
      <3>2. state'[s] = "Break" /\ \A r \in Sessions : r # s => state'[r] = state[r]
        BY <2>4 DEF SessionTypeOK
      <3>3. Moves(PhaseOf(s), PhaseOf(s)')
        BY <1>1, <3>1, <3>2, PhaseCases, PhaseCasesPrime DEF Moves
      <3> QED
        BY <1>1, <2>1, <2>2, <3>2, <3>3, MapState
    <2> QED
      BY <1>12, <2>3, <2>4 DEF StartupFinish, is_terminal, Ending
  <1>13. CASE StartupLateRemove(s)
    <2>1. UNCHANGED <<state, proc>> /\ startup[s] \in {"late_closing", "late_terminal"}
      BY <1>13 DEF StartupLateRemove
    <2>2. CASE startup'[s] \notin {"close_closing", "close_terminal"}
      <3>1. startup'[s] # "create"
        BY <1>13 DEF StartupLateRemove
      <3> QED
        BY <1>1, <1>4, <2>1, <2>2, <3>1, MapQuiet
    <2>3. CASE startup'[s] \in {"close_closing", "close_terminal"}
      <3>1. proc[s] # "none"
        BY <1>13, <2>1, <2>3 DEF StartupLateRemove, SpawnedInv
      <3>2. WorkerUsers(s) = {}
        BY <1>5, <2>1, UsersUnderLock DEF StartupHolds
      <3>3. WorkerUsers(s)' = {<<"close">>}
        BY <1>2, <1>5, <2>1, <2>3, UsersAfter DEF StartupHolds
      <3>4. /\ <<"close">> # <<"open">>
            /\ \A d \in Clients : <<"close">> # <<"command", d>>
        OBVIOUS
      <3> QED
        BY <1>1, <1>9, <2>1, <3>1, <3>2, <3>3, <3>4, MapUse
    <2> QED
      BY <2>2, <2>3
  <1>14. CASE StartupLateClose(s)
    <2>1. /\ UNCHANGED state /\ (close_ok(s) \/ close_err(s))
          /\ startup[s] \in {"close_closing", "close_terminal"}
          /\ startup'[s] \in {"close_ok", "close_err", "done"} /\ proc[s] # "none"
      BY <1>14 DEF StartupLateClose, SpawnedInv, StartupOwns
    <2>2. WorkerUsers(s) # {}
      BY <1>5, <2>1, UsersUnderLock DEF StartupHolds
    <2>3. WorkerUsers(s)' = {}
      BY <1>2, <1>5, <2>1, UsersAfter DEF StartupHolds
    <2> QED
      BY <1>1, <1>3, <2>1, <2>2, <2>3, MapClosed
  <1>15. CASE StartupFinishClose(s) \/ StartupFailUpdate(s)
    <2>1. /\ UNCHANGED proc /\ startup[s] \in {"close_ok", "close_err", "fail_update"}
          /\ startup'[s] = "done"
      BY <1>15 DEF StartupFinishClose, StartupFailUpdate
    <2>2. \A r \in Sessions : SameUsers(r)
      BY <1>4, <2>1
    <2>3. CASE UNCHANGED state
      BY <1>1, <2>1, <2>2, <2>3, MapQuiet
    <2>4. CASE \E st \in {"Closed", "Error"} : state' = [state EXCEPT ![s] = st]
      <3>1. PICK st \in {"Closed", "Error"} : state' = [state EXCEPT ![s] = st]
        BY <2>4
      <3>2. state[s] # "Absent"
        BY <1>5, <2>1 DEF StartupHolds
      <3> HIDE DEF LifeInv
      <3> QED
        BY <1>1, <2>1, <2>2, <3>1, <3>2, MapEnd
    <2> QED
      BY <1>15, <2>3, <2>4 DEF StartupFinishClose, StartupFailUpdate, finish_worker_close
  <1> QED
    BY <1>6, <1>7, <1>8, <1>10, <1>11, <1>12, <1>13, <1>14, <1>15 DEF StartupStep

\* The monitor thread, and the end of a worker process.
LEMMA MapMonitor ==
    ASSUME LifeInv, NEW s \in Sessions, MonitorStep(s) \/ WorkerCrash(s) \/ DropWorker(s)
    PROVE  LifecycleStep
  <1>1. /\ UNCHANGED <<target, abandoned>> /\ UNCHANGED startup
        /\ \A r \in Sessions : SameUsers(r)
    BY DEF MonitorStep, MonitorPoll, MonitorRemove, WorkerCrash, DropWorker, sessionVars,
           mark_worker_unavailable, clientVars, closerVars, SameUsers, Executing,
           ClosingWorker
  <1>2. CASE MonitorStep(s)
    <2>1. UNCHANGED proc /\ (UNCHANGED state \/ state' = [state EXCEPT ![s] = "Error"])
      BY <1>2 DEF MonitorStep, MonitorPoll, MonitorRemove, mark_worker_unavailable,
                  sessionVars
    <2>2. CASE UNCHANGED state
      BY <1>1, <2>1, <2>2, MapQuiet
    <2>3. CASE state' = [state EXCEPT ![s] = "Error"]
      <3>1. CASE state[s] # "Absent"
        BY <1>1, <2>1, <2>3, <3>1, MapEnd
      <3>2. CASE state[s] = "Absent"
        <4>1. monitor[s] \notin {"poll", "remove"}
          BY <3>2 DEF LifeInv, IndInv, NewInv, WatchedInv
        <4> QED
          BY <1>2, <2>3, <3>2, <4>1 DEF MonitorStep, MonitorPoll, MonitorRemove, sessionVars
      <3> QED
        BY <3>1, <3>2
    <2> QED
      BY <2>1, <2>2, <2>3
  <1>3. CASE WorkerCrash(s) \/ DropWorker(s)
    <2>1. /\ UNCHANGED state /\ proc[s] # "none" /\ proc' = [proc EXCEPT ![s] = "exited"]
          /\ proc \in [Sessions -> {"none", "alive", "exited"}]
      BY <1>3 DEF WorkerCrash, DropWorker, sessionVars, LifeInv, IndInv, TypeOK, WorkerTypeOK
    <2>2. \A r \in Sessions : Unseen(r)
      BY <1>1, <2>1, PhaseSame, UsersSame DEF Unseen
    <2> QED
      BY <1>1, <2>1, <2>2, MapExit DEF Unseen
  <1> QED
    BY <1>2, <1>3

\* Every step of the manager is a step of the lifecycle, or none.
LEMMA MapStep ==
    ASSUME LifeInv, [Next]_vars
    PROVE  LifecycleStep
  <1>1. CASE UNCHANGED vars
    <2>1. UNCHANGED <<state, target, abandoned, proc, startup, pc, cs, kpc, ks>>
      BY <1>1 DEF vars, sessionVars, clientVars, closerVars
    <2>2. \A s \in Sessions : SameUsers(s)
      BY <2>1 DEF SameUsers, Executing, ClosingWorker
    <2> QED
      BY <2>1, <2>2, MapQuiet
  <1>2. ASSUME NEW c \in Clients, NEW s \in Sessions,
               CloseSession(c, s) \/ \E o \in Ops : EvalEmpty(c, s, o) \/ Eval(c, s, o)
        PROVE  LifecycleStep
    <2>1. UNCHANGED <<state, target, abandoned, proc>>
      BY <1>2 DEF CloseSession, EvalEmpty, Eval, sessionVars
    <2>2. /\ UNCHANGED <<startup, kpc, ks>>
          /\ pc[c] \notin {"eval_wait", "eval_ran", "eval_last"}
          /\ pc'[c] \notin {"eval_wait", "eval_ran", "eval_last"}
          /\ \A d \in Clients : d # c => pc'[d] = pc[d] /\ cs'[d] = cs[d]
      BY <1>2 DEF CloseSession, EvalEmpty, Eval, Goto, clientVars, closerVars, LifeInv, IndInv,
                  TypeOK, ClientTypeOK
    <2>3. \A r \in Sessions : SameUsers(r)
      BY <2>2 DEF SameUsers, Executing, ClosingWorker
    <2> QED
      BY <2>1, <2>3, MapQuiet
  <1>3. ASSUME NEW c \in Clients, NEW s \in Sessions, NEW t \in Targets, CreateSession(c, t, s)
        PROVE  LifecycleStep
    BY <1>3, MapCreate DEF LifeInv
  <1>4. ASSUME NEW c \in Clients, ClientStep(c) \/ EvalAnswer(c) \/ CloserStep(c)
        PROVE  LifecycleStep
    BY <1>4, MapClient, MapAnswer, MapCloser
  <1>5. ASSUME NEW s \in Sessions,
               \/ StartupStep(s) \/ StartupCreate(s) \/ MonitorStep(s)
               \/ WorkerCrash(s) \/ DropWorker(s)
        PROVE  LifecycleStep
    BY <1>5, MapStartup, MapMonitor
  <1> QED
    BY <1>1, <1>2, <1>3, <1>4, <1>5 DEF Next

\* The lifecycle starts with the manager: no session, no worker, no user.
LEMMA MapInit == Init => Lifecycle!Init
  <1> SUFFICES ASSUME Init PROVE Lifecycle!Init
    OBVIOUS
  <1>1. \A s \in Sessions : PhaseOf(s) = "none"
    BY PhaseCases DEF Init
  <1>2. \A s \in Sessions : WorkerUsers(s) = {}
    <2>1. \A s \in Sessions, c \in Clients : ~Executing(c, s) /\ ~ClosingWorker(c, s)
      BY DEF Init, Executing, ClosingWorker
    <2> QED
      BY <2>1 DEF Init, WorkerUsers
  <1> QED
    BY <1>1, <1>2 DEF Init, Lifecycle!Init

\* The manager, with its threads, its locks and its registry, implements the
\* lifecycle that SessionLifecycle promises: create_session makes a session of
\* a target only while none is on offer, a session opens, serves and ends and
\* never serves again, its worker is spawned once, and the open request, the
\* commands and the orderly close have the worker one at a time.
THEOREM Refines == Spec => ImplementsLifecycle
  <1>1. Init => BookInv
    BY BookInit
  <1>2. Init => OpeningInv /\ SpawnedInv /\ WatchedInv
    BY DEF Init, OpeningInv, Answered, SpawnedInv, StartupOwns, WatchedInv
  <1>3. IndInv /\ BookInv /\ [Next]_vars => BookInv'
    BY BookStep
  <1>4. IndInv /\ BookInv /\ OpeningInv /\ [Next]_vars => OpeningInv'
    BY OpeningStep
  <1>5. IndInv /\ SpawnedInv /\ [Next]_vars => SpawnedInv'
    BY SpawnedStep
  <1>6. IndInv /\ WatchedInv /\ [Next]_vars => WatchedInv'
    BY WatchedStep
  <1>7. IndInv /\ BookInv /\ OpeningInv /\ SpawnedInv /\ WatchedInv /\ [Next]_vars =>
           [Lifecycle!Next]_(Lifecycle!vars)
    BY MapStep DEF LifeInv, LifecycleStep
  <1>8. Init => Lifecycle!Init
    BY MapInit
  <1> QED
    BY Invariant, <1>1, <1>2, <1>3, <1>4, <1>5, <1>6, <1>7, <1>8, PTL
    DEF Spec, ImplementsLifecycle, Lifecycle!Spec
=============================================================================
