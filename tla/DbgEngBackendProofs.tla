------------------------- MODULE DbgEngBackendProofs -------------------------
(* The DbgEng backend: the process, the thread and the map entry of every     *)
(* session follow its calls, and one thread at a time uses the engine.        *)
EXTENDS DbgEngBackend, SequenceTheorems, TLAPS

\* How far create_session and the session's thread have got agree.
CreateOf(s) ==
    /\ create[s].pc = "idle" <=> thread[s] = "none"
    /\ thread[s] \in Startup => create[s].pc = "recv" /\ create[s].init = "none"
    /\ thread[s] \in Places \ (Startup \cup {"none", "gone"}) => create[s].init = "ok"
    /\ thread[s] = "gone" => create[s].init # "none"
    /\ create[s].pc = "idle" => create[s].init = "none"
    /\ create[s].pc = "insert" => create[s].init = "ok"
    /\ create[s].pc = "done" => create[s].result = create[s].init /\ create[s].init # "none"
    /\ create[s].pc # "done" => create[s].result = "none"
    /\ s \in sessions => create[s].result = "ok"

\* The launched process, by how far the startup has got.
ProcessOf(s) ==
    /\ thread[s] \in {"none", "check", "lock", "engine", "install", "open"} => process[s] = "none"
    /\ thread[s] \in {"check2", "wait"} => process[s] \in {"none", "running"}
    /\ thread[s] = "cleanup" /\ s \notin unkillable => process[s] # "suspended"
    /\ create[s].init = "err" /\ s \notin unkillable => process[s] \in {"none", "dead"}

\* The command in hand is the first of the queue, and the queue holds closes
\* of this session only.
QueueOf(s) ==
    /\ thread[s] \in {"execlock", "exec", "execwait", "closelock"} => queue[s] # <<>>
    /\ thread[s] = "closelock" => Head(queue[s]) # "execute"
    /\ \A i \in 1 .. Len(queue[s]) :
          queue[s][i] # "execute" => close[queue[s][i]].session = s

\* A thread that served has ended because of a close.
EndOf(s) ==
    thread[s] \in {"leaving", "gone"} /\ create[s].init = "ok" =>
        \E c \in Closers : close[c].session = s

\* The places at which a thread uses the engine.
InEngine == {"engine", "install", "open", "check2", "wait", "cleanup", "exec", "execwait"}

EngineOf(s) == thread[s] \in InEngine <=> engineLock = s

SessionOf(s) == CreateOf(s) /\ ProcessOf(s) /\ QueueOf(s) /\ EndOf(s) /\ EngineOf(s)

\* A close is of a session that was in the map; one that has removed the
\* handle leaves it out.
CloserOf(c) ==
    /\ close[c].pc = "idle" => close[c].session = NoSession
    /\ close[c].pc # "idle" => close[c].session \in Sessions
    /\ close[c].session \in Sessions => create[close[c].session].result = "ok"
    /\ close[c].pc \in {"join", "done"} => close[c].session \notin sessions

IndInv ==
    /\ TypeOK
    /\ \A s \in Sessions : SessionOf(s)
    /\ \A c \in Closers : CloserOf(c)

\* One thread at a time uses the engine, of all the sessions of the process,
\* and no path out of the engine leaves the lock taken (mod.rs,
\* global_dbgeng_lock).
EngineIsExclusive ==
    /\ \A s, t \in Sessions : thread[s] \in InEngine /\ thread[t] \in InEngine => s = t
    /\ engineLock # NoSession => thread[engineLock] \in InEngine

-----------------------------------------------------------------------------
(* The steps *)

LEMMA InitInd == Init => IndInv
<1> SUFFICES ASSUME Init PROVE IndInv
    OBVIOUS
<1> USE DEF Init
<1>1. TypeOK
    BY DEF TypeOK, Creates, Cancels, Executes, Closes, Outcome, Places, Startup
<1>2. ASSUME NEW s \in Sessions PROVE SessionOf(s)
    BY BackendAssumption
    DEF SessionOf, CreateOf, ProcessOf, QueueOf, EndOf, EngineOf, InEngine, Places, Startup
<1>3. ASSUME NEW c \in Closers PROVE CloserOf(c)
    BY BackendAssumption DEF CloserOf
<1> QED
    BY <1>1, <1>2, <1>3 DEF IndInv

\* A step of one session's thread or of its create_session, cancel or execute:
\* the map, the other sessions and the closes stay as they are.
LEMMA OneSession ==
    ASSUME IndInv, TypeOK', NEW s \in Sessions, SessionOf(s)',
           sessions' = sessions,
           \A t \in Sessions \ {s} :
               /\ create'[t] = create[t] /\ thread'[t] = thread[t]
               /\ queue'[t] = queue[t] /\ process'[t] = process[t]
               /\ t \in unkillable' <=> t \in unkillable,
           \A c \in Closers : close'[c].pc = close[c].pc /\ close'[c].session = close[c].session,
           create[s].result = "ok" => create'[s].result = "ok",
           engineLock' = engineLock \/ {engineLock, engineLock'} \subseteq {s, NoSession}
    PROVE  IndInv'
<1>1. ASSUME NEW t \in Sessions, t # s PROVE SessionOf(t)'
  <2>0. SessionOf(t) /\ TypeOK
    BY <1>1 DEF IndInv
  <2>1. CreateOf(t)' /\ ProcessOf(t)'
    BY <1>1, <2>0 DEF SessionOf, CreateOf, ProcessOf
  <2>2. QueueOf(t)'
    <3>1. queue[t] \in Seq({"execute"} \cup Closers)
      BY <2>0 DEF TypeOK
    <3>2. \A i \in 1 .. Len(queue[t]) : queue[t][i] \in {"execute"} \cup Closers
      BY <3>1
    <3> QED
      BY <1>1, <2>0, <3>1, <3>2 DEF SessionOf, QueueOf
  <2>3. EndOf(t)'
    BY <1>1, <2>0 DEF SessionOf, EndOf
  <2>4. EngineOf(t)'
    BY <1>1, <2>0, BackendAssumption DEF SessionOf, EngineOf
  <2> QED
    BY <2>1, <2>2, <2>3, <2>4 DEF SessionOf
<1>2. ASSUME NEW c \in Closers PROVE CloserOf(c)'
    BY <1>2 DEF IndInv, CloserOf
<1> QED
    BY <1>1, <1>2 DEF IndInv

\* What a step of the caller or of the thread has to show of its own session.
LEMMA CreateInd ==
    ASSUME IndInv, NEW s \in Sessions, CreateSession(s) \/ CreateReceive(s)
    PROVE  IndInv'
<1> USE DEF Goto, calls, system
<1>0. TypeOK /\ SessionOf(s) /\ create[s] \in Creates
    BY DEF IndInv, TypeOK
<1>1. CASE CreateSession(s)
  <2>1. create' = [create EXCEPT ![s] = [create[s] EXCEPT !.pc = "recv"]]
    BY <1>0, <1>1 DEF CreateSession, TypeOK
  <2>2. TypeOK'
    <3>1. [create[s] EXCEPT !.pc = "recv"] \in Creates
      BY <1>0 DEF Creates
    <3>2. create' \in [Sessions -> Creates]
      BY <1>0, <2>1, <3>1 DEF TypeOK
    <3> QED
      BY <1>0, <1>1, <3>2 DEF CreateSession, TypeOK, Places, Startup
  <2>3. SessionOf(s)'
    BY <1>0, <1>1, <2>1 DEF CreateSession, TypeOK, Creates, Places, Startup, SessionOf,
       CreateOf, ProcessOf, QueueOf, EndOf, EngineOf, InEngine
  <2> QED
    BY <1>0, <1>1, <2>1, <2>2, <2>3, OneSession DEF CreateSession, TypeOK, Creates
<1>2. CASE CreateReceive(s)
  <2>1. create' = [create EXCEPT ![s] = IF create[s].init = "ok"
                                          THEN [create[s] EXCEPT !.pc = "insert"]
                                          ELSE [create[s] EXCEPT !.pc = "done", !.result = "err"]]
    BY <1>0, <1>2 DEF CreateReceive, TypeOK
  <2>2. TypeOK'
    BY <1>0, <1>2, <2>1 DEF CreateReceive, TypeOK, Creates, Outcome
  <2>3. SessionOf(s)'
    BY <1>0, <1>2, <2>1 DEF CreateReceive, TypeOK, Creates, Outcome, SessionOf,
       CreateOf, ProcessOf, QueueOf, EndOf, EngineOf
  <2> QED
    BY <1>0, <1>2, <2>1, <2>2, <2>3, OneSession DEF CreateReceive, TypeOK, Creates, SessionOf, CreateOf
<1> QED
    BY <1>1, <1>2

\* create_session enters the session in the map when no close can know it.
LEMMA InsertInd ==
    ASSUME IndInv, NEW s \in Sessions, CreateInsert(s)
    PROVE  IndInv'
<1> USE DEF CreateInsert, system
<1>0. TypeOK /\ SessionOf(s) /\ create[s] \in Creates
    BY DEF IndInv, TypeOK
<1>1. create' = [create EXCEPT ![s] = [create[s] EXCEPT !.pc = "done", !.result = create[s].init]]
    BY <1>0 DEF TypeOK
<1>2. TypeOK'
    BY <1>0, <1>1 DEF TypeOK, Creates, Outcome
<1>3. ASSUME NEW t \in Sessions PROVE SessionOf(t)'
  <2>1. SessionOf(t)
    BY <1>3 DEF IndInv
  <2> QED
    BY <1>0, <1>1, <2>1 DEF TypeOK, Creates, SessionOf, CreateOf, ProcessOf, QueueOf, EndOf, EngineOf
<1>4. ASSUME NEW c \in Closers PROVE CloserOf(c)'
  <2>1. CloserOf(c) /\ create[s].result = "none"
    BY <1>0, <1>4 DEF IndInv, SessionOf, CreateOf
  <2>2. close[c].session # s
    BY <2>1 DEF CloserOf
  <2> QED
    BY <1>0, <1>1, <2>1, <2>2 DEF TypeOK, CloserOf, Creates
<1> QED
    BY <1>2, <1>3, <1>4 DEF IndInv

LEMMA CancelInd ==
    ASSUME IndInv, NEW s \in Sessions, Cancel(s) \/ CancelInterrupt(s) \/ CancelSession(s)
    PROVE  IndInv'
<1> USE DEF calls, system
<1>0. TypeOK /\ SessionOf(s) /\ cancel[s] \in Cancels
    BY DEF IndInv, TypeOK
<1>1. UNCHANGED <<thread, pending, sessions, engineLock, queue, calls, system>>
    BY DEF Cancel, CancelInterrupt, CancelSession
<1>2. TypeOK'
  <2>1. CASE Cancel(s)
    <3>1. cancel' = [cancel EXCEPT ![s] = [cancel[s] EXCEPT !.requested = TRUE,
                        !.pc = IF cancel[s].installed THEN "interrupt" ELSE "done"]]
      BY <1>0, <2>1 DEF Cancel, TypeOK
    <3>2. cancel'[s] \in Cancels
      BY <1>0, <3>1 DEF TypeOK, Cancels
    <3> QED
      BY <1>0, <1>1, <2>1, <3>1, <3>2 DEF Cancel, TypeOK
  <2>2. CASE CancelInterrupt(s)
    <3>1. PICK end \in {"done", "failed"} :
              cancel' = [cancel EXCEPT ![s] = [cancel[s] EXCEPT !.requested = TRUE, !.pc = end]]
      BY <1>0, <2>2 DEF CancelInterrupt, TypeOK, Cancels
    <3>2. cancel'[s] \in Cancels
      BY <1>0, <3>1 DEF TypeOK, Cancels
    <3> QED
      BY <1>0, <1>1, <2>2, <3>1, <3>2 DEF CancelInterrupt, TypeOK
  <2>3. CASE CancelSession(s)
    BY <1>0, <1>1, <2>3 DEF CancelSession, TypeOK
  <2> QED
    BY <2>1, <2>2, <2>3
<1>3. SessionOf(s)'
    BY <1>0, <1>1 DEF SessionOf, CreateOf, ProcessOf, QueueOf, EndOf, EngineOf
<1> QED
    BY <1>0, <1>1, <1>2, <1>3, OneSession

\* A step of open_target: it goes on, it fails and the thread ends, or the
\* first event has come and the thread serves.
LEMMA StartupStep ==
    ASSUME IndInv, NEW s \in Sessions, NEW p \in Places,
           thread[s] \in Startup, thread' = [thread EXCEPT ![s] = p],
           \/ p \in Startup /\ create' = create
           \/ p = "gone" /\ create' = [create EXCEPT ![s].init = "err"]
           \/ p = "serve" /\ create' = [create EXCEPT ![s].init = "ok"],
           UNCHANGED <<pending, sessions, queue, exec, close>>,
           cancel' \in [Sessions -> Cancels], interrupt' \subseteq Sessions,
           process' \in [Sessions -> {"none", "suspended", "running", "dead"}],
           unkillable' \subseteq Sessions,
           \A t \in Sessions \ {s} :
               process'[t] = process[t] /\ (t \in unkillable' <=> t \in unkillable),
           engineLock' = engineLock \/ (engineLock' \in {s, NoSession}
                                          /\ engineLock \in {s, NoSession}),
           EngineOf(s)', ProcessOf(s)'
    PROVE  IndInv'
<1>0. TypeOK /\ SessionOf(s) /\ create[s] \in Creates
    BY DEF IndInv, TypeOK
<1>1. create[s].pc = "recv" /\ create[s].init = "none" /\ create[s].result = "none"
    BY <1>0 DEF SessionOf, CreateOf
<1>2. /\ create'[s] \in Creates /\ create'[s].pc = "recv" /\ create'[s].result = "none"
      /\ create'[s].init = (CASE p \in Startup -> "none" [] p = "gone" -> "err" [] p = "serve" -> "ok")
      /\ create' \in [Sessions -> Creates]
      /\ \A t \in Sessions \ {s} : create'[t] = create[t]
  <2>1. CASE p \in Startup /\ create' = create
    BY <1>0, <1>1, <2>1 DEF TypeOK, Startup
  <2>2. CASE p = "gone" /\ create' = [create EXCEPT ![s].init = "err"]
    <3>1. create' = [create EXCEPT ![s] = [create[s] EXCEPT !.init = "err"]]
      BY <1>0, <2>2 DEF TypeOK
    <3>2. [create[s] EXCEPT !.init = "err"] \in Creates
      BY <1>0 DEF Creates, Outcome
    <3> QED
      BY <1>0, <1>1, <2>2, <3>1, <3>2 DEF TypeOK, Creates, Startup
  <2>3. CASE p = "serve" /\ create' = [create EXCEPT ![s].init = "ok"]
    <3>1. create' = [create EXCEPT ![s] = [create[s] EXCEPT !.init = "ok"]]
      BY <1>0, <2>3 DEF TypeOK
    <3>2. [create[s] EXCEPT !.init = "ok"] \in Creates
      BY <1>0 DEF Creates, Outcome
    <3> QED
      BY <1>0, <1>1, <2>3, <3>1, <3>2 DEF TypeOK, Creates, Startup
  <2> QED
    BY <2>1, <2>2, <2>3
<1>3. TypeOK'
  <2>1. thread' \in [Sessions -> Places]
    BY <1>0 DEF TypeOK
  <2>2. engineLock' \in Sessions \cup {NoSession}
    BY <1>0 DEF TypeOK
  <2> QED
    BY <1>0, <1>2, <2>1, <2>2 DEF TypeOK
<1>4. p \in Startup \cup {"gone", "serve"} /\ thread'[s] = p
    BY <1>0 DEF TypeOK
<1>5. CreateOf(s)'
    BY <1>0, <1>1, <1>2, <1>4 DEF SessionOf, CreateOf, Startup, Places
<1>6. QueueOf(s)' /\ EndOf(s)'
    BY <1>0, <1>1, <1>2, <1>4 DEF SessionOf, QueueOf, EndOf, Startup
<1>7. \A t \in Sessions \ {s} : thread'[t] = thread[t]
    BY <1>0 DEF TypeOK
<1> QED
    BY <1>0, <1>1, <1>2, <1>3, <1>5, <1>6, <1>7, OneSession DEF SessionOf

LEMMA OpenInd ==
    ASSUME IndInv, NEW s \in Sessions, Open(s) \/ FirstEvent(s)
    PROVE  IndInv'
<1> USE DEF Goto, Unlock, InitFails, calls, system
<1>0. TypeOK /\ SessionOf(s)
    BY DEF IndInv
<1>a. Startup \subseteq Places /\ "gone" \in Places /\ "serve" \in Places
    BY DEF Startup, Places
<1>b. /\ cancel \in [Sessions -> Cancels] /\ interrupt \subseteq Sessions
      /\ process \in [Sessions -> {"none", "suspended", "running", "dead"}]
      /\ unkillable \subseteq Sessions /\ engineLock \in Sessions \cup {NoSession}
      /\ thread \in [Sessions -> Places] /\ create \in [Sessions -> Creates]
      /\ create[s] \in Creates
    BY <1>0 DEF TypeOK
<1>c. EngineOf(s) /\ ProcessOf(s) /\ s # NoSession
    BY <1>0, BackendAssumption DEF SessionOf
<1>d. thread[s] \in Startup => create[s].init = "none"
    BY <1>0 DEF SessionOf, CreateOf
<1> USE DEF EngineOf, ProcessOf, InEngine, Startup, Creates
<1>1. CASE CheckCanceled(s)
  <2>1. CASE cancel[s].requested
    BY <1>1, <2>1, <1>a, <1>b, <1>c, <1>d, StartupStep DEF CheckCanceled
  <2>2. CASE ~cancel[s].requested
    BY <1>1, <2>2, <1>a, <1>b, <1>c, <1>d, StartupStep DEF CheckCanceled
  <2> QED
    BY <2>1, <2>2
<1>2. CASE LockEngine(s)
    BY <1>2, <1>a, <1>b, <1>c, <1>d, StartupStep DEF LockEngine
<1>3. CASE LoadEngine(s)
  <2>1. CASE Goto(s, "install") /\ UNCHANGED <<create, engineLock>>
    BY <1>3, <2>1, <1>a, <1>b, <1>c, <1>d, StartupStep DEF LoadEngine
  <2>2. CASE InitFails(s) /\ Unlock
    BY <1>3, <2>2, <1>a, <1>b, <1>c, <1>d, StartupStep DEF LoadEngine
  <2> QED
    BY <1>3, <2>1, <2>2 DEF LoadEngine
<1>4. CASE InstallInterrupt(s)
  <2>0. cancel' \in [Sessions -> Cancels]
    <3>1. cancel' = [cancel EXCEPT ![s] = [cancel[s] EXCEPT !.installed = TRUE]]
      BY <1>4, <1>b DEF InstallInterrupt
    <3>2. cancel'[s] \in Cancels
      BY <1>b, <3>1 DEF Cancels
    <3> QED
      BY <1>b, <3>1, <3>2
  <2>1. CASE cancel[s].requested
    BY <1>4, <2>0, <2>1, <1>a, <1>b, <1>c, <1>d, StartupStep DEF InstallInterrupt
  <2>2. CASE ~cancel[s].requested
    <3>1. thread[s] = "install" /\ thread' = [thread EXCEPT ![s] = "open"] /\ create' = create
      BY <1>4, <2>2 DEF InstallInterrupt
    <3>2. EngineOf(s)' /\ ProcessOf(s)'
      BY <1>4, <2>2, <3>1, <1>b, <1>c, <1>d DEF InstallInterrupt
    <3> QED
      BY <1>4, <2>0, <2>2, <3>1, <3>2, <1>a, <1>b, StartupStep DEF InstallInterrupt
  <2> QED
    BY <2>1, <2>2
<1>5. CASE OpenTarget(s)
  <2>0. process[s] = "none" /\ engineLock = s
    BY <1>5, <1>c DEF OpenTarget
  <2>1. CASE Goto(s, "cleanup") /\ UNCHANGED system
    BY <1>5, <2>0, <2>1, <1>a, <1>b, <1>c, <1>d, StartupStep DEF OpenTarget
  <2>2. CASE Goto(s, "check2") /\ UNCHANGED system
    BY <1>5, <2>0, <2>2, <1>a, <1>b, <1>c, <1>d, StartupStep DEF OpenTarget
  <2>3. CASE Goto(s, "check2") /\ process' = [process EXCEPT ![s] = "running"] /\ UNCHANGED unkillable
    BY <1>5, <2>0, <2>3, <1>a, <1>b, <1>c, <1>d, StartupStep DEF OpenTarget
  <2>4. CASE Goto(s, "cleanup") /\ process' = [process EXCEPT ![s] = "dead"] /\ UNCHANGED unkillable
    BY <1>5, <2>0, <2>4, <1>a, <1>b, <1>c, <1>d, StartupStep DEF OpenTarget
  <2>5. CASE /\ Goto(s, "cleanup") /\ process' = [process EXCEPT ![s] = "suspended"]
             /\ unkillable' = unkillable \cup {s}
    BY <1>5, <2>0, <2>5, <1>a, <1>b, <1>c, <1>d, StartupStep DEF OpenTarget
  <2> QED
    BY <1>5, <2>1, <2>2, <2>3, <2>4, <2>5 DEF OpenTarget, LaunchTarget
<1>6. CASE CheckAgain(s)
  <2>1. CASE cancel[s].requested
    BY <1>6, <2>1, <1>a, <1>b, <1>c, <1>d, StartupStep DEF CheckAgain
  <2>2. CASE ~cancel[s].requested
    BY <1>6, <2>2, <1>a, <1>b, <1>c, <1>d, StartupStep DEF CheckAgain
  <2> QED
    BY <2>1, <2>2
<1>7. CASE WaitInterrupted(s)
    BY <1>7, <1>a, <1>b, <1>c, <1>d, StartupStep DEF WaitInterrupted
<1>8. CASE Cleanup(s)
  <2>0. engineLock = s
    BY <1>8, <1>c DEF Cleanup
  <2>1. CASE process[s] = "running" /\ process' = [process EXCEPT ![s] = "dead"] /\ UNCHANGED unkillable
    BY <1>8, <2>0, <2>1, <1>a, <1>b, <1>c, <1>d, StartupStep DEF Cleanup
  <2>2. CASE process[s] = "running" /\ unkillable' = unkillable \cup {s} /\ UNCHANGED process
    BY <1>8, <2>0, <2>2, <1>a, <1>b, <1>c, <1>d, StartupStep DEF Cleanup
  <2>3. CASE process[s] # "running" /\ UNCHANGED system
    BY <1>8, <2>0, <2>3, <1>a, <1>b, <1>c, <1>d, StartupStep DEF Cleanup
  <2> QED
    BY <1>8, <2>1, <2>2, <2>3 DEF Cleanup, Terminate
<1>9. CASE FirstEvent(s)
  <2>1. CASE Goto(s, "serve") /\ Unlock /\ create' = [create EXCEPT ![s].init = "ok"]
    BY <1>9, <2>1, <1>a, <1>b, <1>c, <1>d, StartupStep DEF FirstEvent
  <2>2. CASE Goto(s, "cleanup") /\ UNCHANGED <<create, engineLock>>
    BY <1>9, <2>2, <1>a, <1>b, <1>c, <1>d, StartupStep DEF FirstEvent
  <2> QED
    BY <1>9, <2>1, <2>2 DEF FirstEvent
<1> QED
    BY <1>1, <1>2, <1>3, <1>4, <1>5, <1>6, <1>7, <1>8, <1>9 DEF Open

-----------------------------------------------------------------------------
(* Commands and closes *)

\* One more command in a queue: the head stays what it was.
LEMMA Queued ==
    ASSUME NEW S, NEW q \in Seq(S), NEW e \in S
    PROVE  /\ Append(q, e) \in Seq(S) /\ Append(q, e) # <<>>
           /\ Len(Append(q, e)) = Len(q) + 1 /\ Len(q) \in Nat
           /\ \A i \in 1 .. Len(q) : Append(q, e)[i] = q[i]
           /\ Append(q, e)[Len(q) + 1] = e
           /\ q # <<>> => Head(Append(q, e)) = Head(q)
<1>1. /\ Append(q, e) \in Seq(S) /\ Append(q, e) # <<>>
      /\ Len(Append(q, e)) = Len(q) + 1
      /\ \A i \in 1 .. Len(q) : Append(q, e)[i] = q[i]
      /\ Append(q, e)[Len(q) + 1] = e
    BY AppendProperties
<1>2. Len(q) \in Nat /\ (q # <<>> => 1 \in 1 .. Len(q))
    BY LenProperties, EmptySeq
<1>3. q # <<>> => Append(q, e)[1] = q[1]
    BY <1>1, <1>2
<1>4. Head(q) = q[1] /\ Head(Append(q, e)) = Append(q, e)[1]
    BY <1>1
<1> QED
    BY <1>1, <1>2, <1>3, <1>4

LEMMA ServeInd ==
    ASSUME IndInv, NEW s \in Sessions, TakeCommand(s) \/ LockForCommand(s) \/ Leave(s)
    PROVE  IndInv'
<1> USE DEF Goto, calls, system
<1>0. TypeOK /\ SessionOf(s) /\ s # NoSession
    BY BackendAssumption DEF IndInv
<1>1. UNCHANGED <<pending, sessions, cancel, interrupt, queue, calls, system>>
    BY DEF TakeCommand, LockForCommand, Leave
<1>2. PICK p \in Places : thread' = [thread EXCEPT ![s] = p]
    BY DEF TakeCommand, LockForCommand, Leave, Places
<1>3. TypeOK'
  <2>1. engineLock' \in Sessions \cup {NoSession}
    BY <1>0 DEF TakeCommand, LockForCommand, Leave, TypeOK
  <2>2. thread' \in [Sessions -> Places]
    BY <1>0, <1>2 DEF TypeOK
  <2> QED
    BY <1>0, <1>1, <2>1, <2>2 DEF TypeOK
<1>4. SessionOf(s)'
  <2> USE <1>0, <1>1 DEF TypeOK, SessionOf, CreateOf, ProcessOf, QueueOf, EndOf, EngineOf,
                         InEngine, Startup, Places
  <2>1. CASE TakeCommand(s)
    <3>1. CASE Head(queue[s]) = "execute"
      BY <2>1, <3>1 DEF TakeCommand
    <3>2. CASE Head(queue[s]) # "execute"
      BY <2>1, <3>2 DEF TakeCommand
    <3> QED
      BY <3>1, <3>2
  <2>2. CASE LockForCommand(s)
    BY <2>2 DEF LockForCommand
  <2>3. CASE Leave(s)
    BY <2>3 DEF Leave
  <2> QED
    BY <2>1, <2>2, <2>3
<1>5. engineLock' = engineLock \/ {engineLock, engineLock'} \subseteq {s, NoSession}
    BY DEF TakeCommand, LockForCommand, Leave
<1> QED
    BY <1>0, <1>1, <1>2, <1>3, <1>4, <1>5, OneSession DEF TypeOK

\* execute, its answer, and its end when the thread has gone.
LEMMA ExecuteInd ==
    ASSUME IndInv, NEW s \in Sessions,
           ExecuteWide(s) \/ NextEvent(s) \/ Execute(s) \/ ExecuteDropped(s)
    PROVE  IndInv'
<1> USE DEF Goto, Unlock, calls, system
<1>0. TypeOK /\ SessionOf(s) /\ s # NoSession
    BY BackendAssumption DEF IndInv
<1>1. UNCHANGED <<pending, sessions, cancel, create, close, system>>
    BY DEF ExecuteWide, NextEvent, Execute, ExecuteDropped
<1> DEFINE S == {"execute"} \cup Closers
           q == queue[s]
<1>q. q \in Seq(S) /\ exec[s] \in Executes
    BY <1>0 DEF TypeOK
<1>2. CASE \E result \in {"ok", "err"} :
              Reply(s, result) /\ thread[s] \in {"exec", "execwait"} /\ interrupt' \subseteq interrupt
  <2> PICK result \in {"ok", "err"} :
              Reply(s, result) /\ thread[s] \in {"exec", "execwait"} /\ interrupt' \subseteq interrupt
    BY <1>2
  <2>1. q # <<>> /\ engineLock = s
    BY <1>0 DEF SessionOf, QueueOf, EngineOf, InEngine
  <2>2. /\ Tail(q) \in Seq(S) /\ Len(Tail(q)) = Len(q) - 1 /\ Len(q) \in Nat
        /\ \A i \in 1 .. Len(Tail(q)) : Tail(q)[i] = q[i + 1]
    BY <1>q, <2>1, HeadTailProperties, LenProperties
  <2>3. exec' \in [Sessions -> Executes]
    <3>1. exec' = [exec EXCEPT ![s] = [exec[s] EXCEPT !.pc = "done", !.result = result]]
      BY <1>0 DEF Reply, TypeOK
    <3>2. exec'[s] \in Executes
      BY <1>0, <1>q, <3>1 DEF TypeOK, Executes, Outcome
    <3> QED
      BY <1>0, <3>1, <3>2 DEF TypeOK
  <2>4. thread' = [thread EXCEPT ![s] = "serve"] /\ "serve" \in Places
    BY DEF Reply, Places
  <2>5. queue' = [queue EXCEPT ![s] = Tail(q)]
    BY DEF Reply
  <2>6. TypeOK'
    BY <1>0, <1>1, <2>2, <2>3, <2>4, <2>5 DEF TypeOK, Reply
  <2>7. QueueOf(s)'
    <3>1. queue'[s] = Tail(q) /\ thread'[s] = "serve"
      BY <1>0, <2>4, <2>5 DEF TypeOK
    <3>2. ASSUME NEW i \in 1 .. Len(Tail(q)), Tail(q)[i] # "execute"
          PROVE  close[Tail(q)[i]].session = s
      <4>1. i + 1 \in 1 .. Len(q) /\ Tail(q)[i] = q[i + 1]
        BY <2>2
      <4> QED
        BY <1>0, <3>2, <4>1 DEF SessionOf, QueueOf
    <3> QED
      BY <1>1, <3>1, <3>2 DEF QueueOf
  <2>8. SessionOf(s)'
    BY <1>0, <1>1, <2>1, <2>4, <2>7 DEF TypeOK, Reply, SessionOf, CreateOf, ProcessOf, EndOf,
       EngineOf, InEngine, Startup, Places
  <2> QED
    BY <1>0, <1>1, <2>1, <2>4, <2>5, <2>6, <2>8, OneSession DEF TypeOK, Reply
<1>3. CASE ExecuteWide(s) /\ Goto(s, "execwait") /\ UNCHANGED <<exec, queue, engineLock>>
  <2>1. TypeOK' /\ thread[s] = "exec"
    BY <1>0, <1>1, <1>3 DEF ExecuteWide, TypeOK, Places
  <2>2. SessionOf(s)'
    BY <1>0, <1>1, <1>3, <2>1 DEF TypeOK, SessionOf, CreateOf, ProcessOf, QueueOf, EndOf,
       EngineOf, InEngine, Startup, Places
  <2> QED
    BY <1>0, <1>1, <1>3, <2>1, <2>2, OneSession DEF TypeOK
<1>4. CASE Execute(s) /\ thread[s] # "gone"
  <2>1. queue' = [queue EXCEPT ![s] = Append(q, "execute")] /\ UNCHANGED <<thread, interrupt, engineLock>>
    BY <1>4 DEF Execute
  <2>2. exec' = [exec EXCEPT ![s] = [exec[s] EXCEPT !.pc = "recv"]]
    BY <1>0, <1>4 DEF Execute, TypeOK
  <2>3. [exec[s] EXCEPT !.pc = "recv"] \in Executes
    BY <1>q DEF Executes
  <2>4. /\ Append(q, "execute") \in Seq(S) /\ Append(q, "execute") # <<>>
        /\ Len(Append(q, "execute")) = Len(q) + 1 /\ Len(q) \in Nat
        /\ \A i \in 1 .. Len(q) : Append(q, "execute")[i] = q[i]
        /\ Append(q, "execute")[Len(q) + 1] = "execute"
        /\ q # <<>> => Head(Append(q, "execute")) = Head(q)
    <3>1. "execute" \in S
      OBVIOUS
    <3> QED
      BY ONLY <1>q, <3>1, Queued
  <2>5. TypeOK'
    BY <1>0, <1>1, <2>1, <2>2, <2>3, <2>4 DEF TypeOK
  <2>6. QueueOf(s)'
    <3>1. queue'[s] = Append(q, "execute")
      BY <1>0, <2>1 DEF TypeOK
    <3>2. ASSUME NEW i \in 1 .. Len(queue'[s]), queue'[s][i] # "execute"
          PROVE  close[queue'[s][i]].session = s
      BY <1>0, <2>4, <3>1, <3>2 DEF SessionOf, QueueOf
    <3> QED
      BY <1>0, <1>1, <2>1, <2>4, <3>1, <3>2 DEF SessionOf, QueueOf
  <2>7. SessionOf(s)'
    BY <1>0, <1>1, <2>1, <2>6 DEF SessionOf, CreateOf, ProcessOf, EndOf, EngineOf
  <2> QED
    BY <1>0, <1>1, <2>1, <2>5, <2>7, OneSession DEF TypeOK
<1>5. CASE (Execute(s) /\ thread[s] = "gone") \/ ExecuteDropped(s)
  <2>1. /\ exec' = [exec EXCEPT ![s] = [pc |-> "done", result |-> "err"]]
        /\ UNCHANGED <<queue, thread, interrupt, engineLock>>
    BY <1>5 DEF Execute, ExecuteDropped
  <2>2. TypeOK'
    BY <1>0, <1>1, <2>1 DEF TypeOK, Executes, Outcome
  <2>3. SessionOf(s)'
    BY <1>0, <1>1, <2>1 DEF SessionOf, CreateOf, ProcessOf, QueueOf, EndOf, EngineOf
  <2> QED
    BY <1>0, <1>1, <2>1, <2>2, <2>3, OneSession
<1> QED
  <2>1. CASE ExecuteWide(s)
    BY <1>2, <1>3, <2>1 DEF ExecuteWide
  <2>2. CASE NextEvent(s)
    BY <1>2, <2>2 DEF NextEvent
  <2> QED
    BY <1>4, <1>5, <2>1, <2>2

\* The thread ends the session for the close in hand and leaves.
LEMMA EndInd ==
    ASSUME IndInv, NEW s \in Sessions, EndSession(s)
    PROVE  IndInv'
<1> USE DEF EndSession, Goto, system
<1> DEFINE S == {"execute"} \cup Closers
           q == queue[s]
           c == Head(q)
<1>0. TypeOK /\ SessionOf(s) /\ q \in Seq(S) /\ q # <<>>
    BY DEF IndInv, TypeOK, SessionOf, QueueOf
<1>1. /\ c \in S /\ c = q[1] /\ Tail(q) \in Seq(S) /\ Len(Tail(q)) = Len(q) - 1
      /\ \A i \in 1 .. Len(Tail(q)) : Tail(q)[i] = q[i + 1]
      /\ Len(q) \in Nat \ {0}
    BY <1>0, HeadTailProperties, LenProperties, EmptySeq
<1>2. c \in Closers /\ close[c].session = s
  <2>1. q[1] # "execute" /\ 1 \in 1 .. Len(q)
    BY <1>0, <1>1 DEF SessionOf, QueueOf
  <2> QED
    BY <1>0, <1>1, <2>1 DEF SessionOf, QueueOf
<1>3. close[c] \in Closes
    BY <1>0, <1>2 DEF TypeOK
<1>4. PICK reply \in Outcome : close' = [close EXCEPT ![c] = [close[c] EXCEPT !.reply = reply]]
  <2>1. PICK result \in {"ok", "err"} : close' = [close EXCEPT ![c].reply =
                       IF close[c].pc = "recv" THEN result ELSE @]
    OBVIOUS
  <2>2. close' = [close EXCEPT ![c] = [close[c] EXCEPT !.reply =
                       IF close[c].pc = "recv" THEN result ELSE close[c].reply]]
    BY <1>0, <1>2, <2>1 DEF TypeOK
  <2>3. (IF close[c].pc = "recv" THEN result ELSE close[c].reply) \in Outcome
    BY <1>3 DEF Closes, Outcome
  <2> QED
    BY <2>2, <2>3
<1>5. [close[c] EXCEPT !.reply = reply] \in Closes
    BY <1>3 DEF Closes
<1>6. close' \in [Closers -> Closes]
    BY <1>0, <1>2, <1>4, <1>5 DEF TypeOK
<1>7. \A d \in Closers : close'[d].pc = close[d].pc /\ close'[d].session = close[d].session
    BY <1>0, <1>2, <1>3, <1>4 DEF TypeOK, Closes
<1>8. TypeOK'
    BY <1>0, <1>1, <1>6 DEF TypeOK, Places
<1>9. QueueOf(s)'
  <2>1. queue'[s] = Tail(q) /\ thread'[s] = "leaving"
    BY <1>0 DEF TypeOK
  <2>2. ASSUME NEW i \in 1 .. Len(Tail(q)), Tail(q)[i] # "execute"
        PROVE  close'[Tail(q)[i]].session = s
    <3>1. i + 1 \in 1 .. Len(q) /\ Tail(q)[i] = q[i + 1] /\ q[i + 1] \in S
      BY <1>0, <1>1, ElementOfSeq
    <3> QED
      BY <1>0, <1>7, <2>2, <3>1 DEF SessionOf, QueueOf
  <2> QED
    BY <2>1, <2>2 DEF QueueOf
<1>10. SessionOf(s)'
  <2>1. EndOf(s)'
    BY <1>2, <1>7 DEF EndOf
  <2> QED
    BY <1>0, <1>9, <2>1 DEF TypeOK, SessionOf, CreateOf, ProcessOf, EngineOf, InEngine, Startup, Places
<1> QED
    BY <1>0, <1>7, <1>8, <1>10, OneSession DEF TypeOK

\* A close, up to when it removes the handle: it is of a session of the map.
LEMMA CloseInd ==
    ASSUME IndInv, NEW s \in Sessions, NEW c \in Closers, Close(c, s)
    PROVE  IndInv'
<1> USE DEF Close, system
<1> DEFINE S == {"execute"} \cup Closers
           q == queue[s]
<1>0. TypeOK /\ SessionOf(s) /\ CloserOf(c) /\ q \in Seq(S) /\ s \in sessions /\ close[c].pc = "idle"
    BY DEF IndInv, TypeOK
<1>1. create[s].result = "ok" /\ close[c].session = NoSession
    BY <1>0 DEF SessionOf, CreateOf, CloserOf
<1>2. PICK p \in {"remove", "recv"}, reply \in {"err", "none"} :
         close' = [close EXCEPT ![c] = [pc |-> p, session |-> s, reply |-> reply, result |-> "none"]]
    OBVIOUS
<1>3. /\ close' \in [Closers -> Closes]
      /\ close'[c].session = s /\ close'[c].pc \in {"remove", "recv"}
      /\ \A d \in Closers \ {c} : close'[d] = close[d]
    BY <1>0, <1>2 DEF TypeOK, Closes, Outcome
<1>4. /\ queue' \in [Sessions -> Seq(S)]
      /\ \A t \in Sessions \ {s} : queue'[t] = queue[t]
      /\ queue'[s] = q \/ queue'[s] = Append(q, c)
  <2>1. Append(q, c) \in Seq(S)
    BY <1>0, AppendProperties
  <2>2. queue' = queue \/ queue' = [queue EXCEPT ![s] = Append(q, c)]
    OBVIOUS
  <2>3. queue \in [Sessions -> Seq(S)]
    BY <1>0 DEF TypeOK
  <2> QED
    BY <2>1, <2>2, <2>3
<1>5. TypeOK'
    BY <1>0, <1>3, <1>4 DEF TypeOK
<1>6. ASSUME NEW t \in Sessions PROVE SessionOf(t)'
  <2>1. SessionOf(t) /\ t # NoSession
    BY <1>6, BackendAssumption DEF IndInv
  <2>2. CreateOf(t)' /\ ProcessOf(t)' /\ EngineOf(t)'
    BY <2>1 DEF SessionOf, CreateOf, ProcessOf, EngineOf
  <2>3. EndOf(t)'
    BY <1>1, <1>3, <2>1 DEF SessionOf, EndOf
  <2>4. QueueOf(t)'
    <3>1. ASSUME NEW i \in 1 .. Len(queue[t]), queue[t][i] # "execute"
          PROVE  queue[t][i] \in Closers /\ close'[queue[t][i]].session = t
      <4>1. queue[t] \in Seq(S)
        BY <1>0 DEF TypeOK
      <4>2. queue[t][i] \in S
        BY <4>1, ElementOfSeq
      <4>3. close[queue[t][i]].session = t
        BY <2>1, <3>1 DEF SessionOf, QueueOf
      <4> QED
        BY <1>1, <1>3, <2>1, <3>1, <4>2, <4>3
    <3>2. CASE queue'[t] = queue[t]
      BY <2>1, <3>1, <3>2 DEF SessionOf, QueueOf
    <3>3. CASE t = s /\ queue'[s] = Append(q, c)
      <4>1. /\ Append(q, c) # <<>> /\ Len(Append(q, c)) = Len(q) + 1 /\ Len(q) \in Nat
            /\ \A i \in 1 .. Len(q) : Append(q, c)[i] = q[i]
            /\ Append(q, c)[Len(q) + 1] = c
            /\ q # <<>> => Head(Append(q, c)) = Head(q)
        BY <1>0, Queued
      <4>2. \A i \in 1 .. Len(Append(q, c)) : i \in 1 .. Len(q) \/ i = Len(q) + 1
        BY <4>1
      <4>3. \A i \in 1 .. Len(Append(q, c)) :
               Append(q, c)[i] # "execute" => close'[Append(q, c)[i]].session = s
        BY <1>3, <3>1, <3>3, <4>1, <4>2
      <4> QED
        BY <2>1, <3>3, <4>1, <4>3 DEF SessionOf, QueueOf
    <3> QED
      BY <1>4, <3>2, <3>3
  <2> QED
    BY <2>2, <2>3, <2>4 DEF SessionOf
<1>7. ASSUME NEW d \in Closers PROVE CloserOf(d)'
  <2>1. CASE d = c
    BY <1>1, <1>3, <2>1 DEF CloserOf
  <2>2. CASE d # c
    BY <1>3, <1>7, <2>2 DEF IndInv, CloserOf
  <2> QED
    BY <2>1, <2>2
<1> QED
    BY <1>5, <1>6, <1>7 DEF IndInv

\* The steps of a close under way: its reply or its timeout, the removal of
\* the handle, the join.
LEMMA CloserInd ==
    ASSUME IndInv, NEW c \in Closers, Closer(c)
    PROVE  IndInv'
<1> USE DEF system
<1>0. TypeOK /\ CloserOf(c) /\ close[c] \in Closes /\ close[c].session \in Sessions
    BY DEF IndInv, TypeOK, CloserOf, Closer, CloseReceive, CloseTimeout, CloseRemove, CloseJoin
<1>1. UNCHANGED <<thread, pending, cancel, interrupt, engineLock, queue, create, exec, system>>
    BY DEF Closer, CloseReceive, CloseTimeout, CloseRemove, CloseJoin
<1>2. /\ sessions' \in {sessions, sessions \ {close[c].session}}
      /\ \E p \in {"remove", "join", "done"}, result \in Outcome :
            /\ close' = [close EXCEPT ![c] = [close[c] EXCEPT !.pc = p, !.result = result]]
            /\ p # "remove" => close[c].session \notin sessions'
  <2>0. close[c].result \in Outcome /\ close[c].reply \in Outcome /\ "err" \in Outcome
    BY <1>0 DEF Closes, Outcome
  <2>1. CASE CloseReceive(c)
    <3>1. close' = [close EXCEPT ![c] = [close[c] EXCEPT !.pc = "remove", !.result = close[c].result]]
      BY <1>0, <2>1 DEF CloseReceive, TypeOK, Closes
    <3> QED
      BY <2>0, <2>1, <3>1 DEF CloseReceive
  <2>2. CASE CloseTimeout(c)
    <3>1. close' = [close EXCEPT ![c] = [close[c] EXCEPT !.pc = "done", !.result = "err"]]
      BY <1>0, <2>2 DEF CloseTimeout, TypeOK
    <3> QED
      BY <2>0, <2>2, <3>1 DEF CloseTimeout
  <2>3. CASE CloseRemove(c)
    <3>1. CASE close[c].session \in sessions
      <4>1. close' = [close EXCEPT ![c] = [close[c] EXCEPT !.pc = "join", !.result = close[c].result]]
        BY <1>0, <2>3, <3>1 DEF CloseRemove, TypeOK, Closes
      <4> QED
        BY <2>0, <2>3, <4>1 DEF CloseRemove
    <3>2. CASE close[c].session \notin sessions
      <4>1. close' = [close EXCEPT ![c] = [close[c] EXCEPT !.pc = "done", !.result = "err"]]
        BY <1>0, <2>3, <3>2 DEF CloseRemove, TypeOK
      <4> QED
        BY <2>0, <2>3, <4>1 DEF CloseRemove
    <3> QED
      BY <3>1, <3>2
  <2>4. CASE CloseJoin(c)
    <3>1. close' = [close EXCEPT ![c] = [close[c] EXCEPT !.pc = "done", !.result = close[c].reply]]
      BY <1>0, <2>4 DEF CloseJoin, TypeOK
    <3> QED
      BY <1>0, <2>0, <2>4, <3>1 DEF CloseJoin, CloserOf
  <2> QED
    BY <2>1, <2>2, <2>3, <2>4 DEF Closer
<1>3. /\ \A d \in Closers : close'[d].session = close[d].session
      /\ \A d \in Closers \ {c} : close'[d] = close[d]
      /\ close'[c].pc \in {"remove", "join", "done"}
      /\ close'[c].pc # "remove" => close[c].session \notin sessions'
      /\ close' \in [Closers -> Closes]
  <2> PICK p \in {"remove", "join", "done"}, result \in Outcome :
            /\ close' = [close EXCEPT ![c] = [close[c] EXCEPT !.pc = p, !.result = result]]
            /\ p # "remove" => close[c].session \notin sessions'
    BY <1>2
  <2>1. [close[c] EXCEPT !.pc = p, !.result = result] \in Closes
    BY <1>0 DEF Closes
  <2> QED
    BY <1>0, <2>1 DEF TypeOK, Closes
<1>4. TypeOK'
    BY <1>0, <1>1, <1>2, <1>3 DEF TypeOK
<1>5. ASSUME NEW t \in Sessions PROVE SessionOf(t)'
  <2>0. SessionOf(t) /\ queue[t] \in Seq({"execute"} \cup Closers)
    BY <1>0, <1>5 DEF IndInv, TypeOK
  <2>1. QueueOf(t)'
    <3>1. \A i \in 1 .. Len(queue[t]) : queue[t][i] \in {"execute"} \cup Closers
      BY <2>0, ElementOfSeq
    <3> QED
      BY <1>1, <1>3, <2>0, <3>1 DEF SessionOf, QueueOf
  <2> QED
    BY <1>1, <1>2, <1>3, <2>0, <2>1 DEF SessionOf, CreateOf, ProcessOf, EndOf, EngineOf
<1>6. ASSUME NEW d \in Closers PROVE CloserOf(d)'
  <2>1. CloserOf(d)
    BY <1>6 DEF IndInv
  <2> QED
    BY <1>0, <1>1, <1>2, <1>3, <2>1 DEF CloserOf
<1> QED
    BY <1>4, <1>5, <1>6 DEF IndInv

-----------------------------------------------------------------------------
(* Theorems *)

LEMMA NextInd == IndInv /\ [Next]_vars => IndInv'
<1> SUFFICES ASSUME IndInv, [Next]_vars PROVE IndInv'
    OBVIOUS
<1>1. CASE UNCHANGED vars
    BY <1>1 DEF vars, IndInv, TypeOK, SessionOf, CreateOf, ProcessOf, QueueOf, EndOf, EngineOf, CloserOf
<1>2. ASSUME NEW s \in Sessions,
             \/ CreateSession(s) \/ Open(s) \/ FirstEvent(s) \/ Serve(s) \/ ExecuteWide(s)
             \/ NextEvent(s) \/ Caller(s) \/ Cancel(s) \/ CancelSession(s) \/ Execute(s)
             \/ \E c \in Closers : Close(c, s)
      PROVE  IndInv'
    BY <1>2, CreateInd, InsertInd, CancelInd, OpenInd, ServeInd, ExecuteInd, EndInd, CloseInd
    DEF Serve, Caller
<1>3. ASSUME NEW c \in Closers, Closer(c) PROVE IndInv'
    BY <1>3, CloserInd
<1> QED
    BY <1>1, <1>2, <1>3 DEF Next

\* The inductive invariant: how far each session's create_session, its thread,
\* its process, its queue and the closes of it have got, and who holds the
\* engine lock.
THEOREM Invariance == Spec => []IndInv
BY InitInd, NextInd, PTL DEF Spec

LEMMA IndSession == IndInv => SessionInv
<1> SUFFICES ASSUME IndInv PROVE SessionInv
    OBVIOUS
<1>1. FailedOpenLeavesNoProcess
  <2> SUFFICES ASSUME NEW s \in Sessions, create[s].result = "err", s \notin unkillable
               PROVE  process[s] \in {"none", "dead"}
    BY DEF FailedOpenLeavesNoProcess
  <2>1. CreateOf(s) /\ ProcessOf(s)
    BY DEF IndInv, SessionOf
  <2> QED
    BY <2>1 DEF CreateOf, ProcessOf
<1>2. \A c \in Closers : close[c].pc = "done" => close[c].session \notin sessions
    BY DEF IndInv, CloserOf
<1>3. ASSUME NEW s \in sessions
      PROVE  /\ create[s].result = "ok"
             /\ thread[s] \in {"leaving", "gone"} =>
                   \E c \in Closers : close[c].session = s /\ close[c].pc # "done"
  <2>1. s \in Sessions
    BY DEF IndInv, TypeOK
  <2>2. CreateOf(s) /\ EndOf(s)
    BY <2>1 DEF IndInv, SessionOf
  <2>3. create[s].result = "ok" /\ create[s].init = "ok"
    BY <2>2 DEF CreateOf
  <2> QED
    BY <1>2, <2>2, <2>3 DEF EndOf
<1> QED
    BY <1>1, <1>2, <1>3 DEF SessionInv, MapFollowsThreads, IndInv

\* A failed create_session leaves no process, the map holds a session from its
\* startup to the end of a close of it, and a session in the map whose thread
\* has ended is being closed, for any number of sessions and closes (mod.rs,
\* create_session, open_target and close_session).
THEOREM SessionsFollowCalls == Spec => []SessionInv
BY Invariance, IndSession, PTL

LEMMA IndEngine == IndInv => EngineIsExclusive
BY BackendAssumption DEF IndInv, TypeOK, SessionOf, EngineOf, EngineIsExclusive

\* One thread at a time uses the engine, and every way out of open_target and
\* execute has given the lock back (mod.rs, global_dbgeng_lock).
THEOREM EngineExclusion == Spec => []EngineIsExclusive
BY Invariance, IndEngine, PTL
=============================================================================
