------------------------- MODULE TtdRecordingProofs -------------------------
(* Recordings: no TTD process outside of the slot of its job, no stop that   *)
(* ends somebody else's recording, and a status that is true.                *)
EXTENDS TtdRecording, TLAPS

\* The slot belongs to the one call that is under way.
SlotInv == \A j \in Jobs : active = j <=> call[j].pc \notin {"idle", "done"}

\* A call under way has a target that was validated, and so something to tell
\* TTD.exe -stop; only a recorder that timed out is followed by a stop.
TargetOf(j) ==
    /\ call[j].pc \notin {"idle", "done"} =>
          call[j].target \in Targets /\ validate_ttd_target(call[j].target)
    /\ call[j].tool = "stop" => call[j].stop # "none" /\ call[j].timedOut

\* A process that is running is being polled or about to be killed, or the
\* operating system failed on it.  No tool runs before it is spawned.
ProcessOf(j) ==
    /\ \A t \in Tools : Running(j, t) /\ t \notin failed[j] =>
          call[j].tool = t /\ call[j].pc \in {"poll", "kill"}
    /\ \/ call[j].pc \in {"idle", "artifacts"}
       \/ call[j].pc = "spawn" /\ call[j].tool = "record"
       => proc[j]["record"].state = "none"
    /\ call[j].pc # "done" /\ call[j].tool = "record" => proc[j]["stop"].state = "none"
    /\ call[j].pc = "collect" /\ call[j].tool = "record" /\ ~call[j].runError =>
          proc[j]["record"].state = "exited" /\ proc[j]["record"].code = call[j].code

\* The trace file follows the tracing, and a recorder that ended with success
\* has ended after it.
TraceOf(j) ==
    /\ proc[j]["record"].state = "none" => tracing[j] = "none"
    /\ proc[j]["record"].code = 0 =>
          proc[j]["record"].state = "exited" /\ tracing[j] \in NotTraced
    /\ proc[j]["record"].state = "exited" => proc[j]["record"].code # NoCode
    /\ tracing[j] = "none" => file[j] = "none"
    /\ tracing[j] = "off" => file[j] = "complete"

StatusOf(j) ==
    /\ call[j].status # "none" => call[j].pc = "done"
    /\ call[j].status = "Completed" => proc[j]["record"].code = 0 /\ file[j] = "complete"
    /\ call[j].status = "Failed" /\ ~call[j].runError =>
          proc[j]["record"].state = "exited" /\ proc[j]["stop"].state = "none"

JobInv(j) == TargetOf(j) /\ ProcessOf(j) /\ TraceOf(j) /\ StatusOf(j)

IndInv ==
    /\ TypeOK
    /\ SlotInv
    /\ \A j \in Jobs : JobInv(j)
    /\ NoCrossStop

LEMMA InitInd == Init => IndInv
<1> SUFFICES ASSUME Init PROVE IndInv
    OBVIOUS
<1> USE RecordingAssumption DEF Init, Idle, NotStarted, Process
<1>1. TypeOK
  <2>1. Idle \in Calls
    BY DEF Calls, PC, Tools, StopTargets, Status
  <2>2. NotStarted \in Processes
    BY DEF Processes, StopTargets
  <2> HIDE DEF Idle, NotStarted
  <2> QED
    BY <2>1, <2>2 DEF TypeOK, NotTraced, Tools
<1>2. SlotInv /\ NoCrossStop
    BY DEF SlotInv, NoCrossStop
<1>3. ASSUME NEW j \in Jobs PROVE JobInv(j)
  <2>1. call[j] = Idle /\ \A t \in Tools : proc[j][t] = NotStarted
    OBVIOUS
  <2> QED
    BY <2>1 DEF JobInv, TargetOf, ProcessOf, TraceOf, StatusOf, Running, Tools,
                NotTraced, NoCode
<1> QED
    BY <1>1, <1>2, <1>3 DEF IndInv

\* A step that concerns one job, and the others only through the slot.
LEMMA OneJob ==
    ASSUME IndInv, TypeOK', NEW j \in Jobs,
           \A i \in Jobs \ {j} :
               /\ call'[i] = call[i] /\ proc'[i] = proc[i] /\ tracing'[i] = tracing[i]
               /\ file'[i] = file[i] /\ failed'[i] = failed[i]
               /\ active' = i <=> active = i,
           active' = j <=> call'[j].pc \notin {"idle", "done"},
           failed[j] \subseteq failed'[j], struck' = struck, JobInv(j)'
    PROVE  IndInv'
<1>1. SlotInv'
    BY DEF IndInv, SlotInv
<1>2. ASSUME NEW i \in Jobs PROVE JobInv(i)'
  <2>1. CASE i = j
    BY <2>1
  <2>2. CASE i # j
    <3>1. JobInv(i)
      BY DEF IndInv
    <3> QED
      BY <2>2, <3>1 DEF JobInv, TargetOf, ProcessOf, TraceOf, StatusOf, Running
  <2> QED
    BY <2>1, <2>2
<1>3. NoCrossStop'
  <2>1. \A p \in struck : p[1] \in Jobs /\ p[2] \in Jobs
    BY DEF IndInv, TypeOK
  <2>2. \A i \in Jobs : failed[i] \subseteq failed'[i]
    OBVIOUS
  <2> QED
    BY <2>1, <2>2 DEF IndInv, NoCrossStop
<1> QED
    BY <1>1, <1>2, <1>3 DEF IndInv

\* Facts about one job of a state that satisfies the invariant.
LEMMA JobFacts ==
    ASSUME IndInv, NEW j \in Jobs
    PROVE  /\ TypeOK /\ call[j] \in Calls
           /\ \A t \in Tools : proc[j][t] \in Processes
           /\ active = j <=> call[j].pc \notin {"idle", "done"}
           /\ TargetOf(j) /\ ProcessOf(j) /\ TraceOf(j) /\ StatusOf(j)
BY DEF IndInv, SlotInv, JobInv, TypeOK

\* A call moves on between two places under way and touches nothing else.
LEMMA CallMoves ==
    ASSUME IndInv, NEW j \in Jobs, NEW c \in Calls,
           call' = [call EXCEPT ![j] = c],
           call[j].pc \notin {"idle", "done"} /\ c.pc \notin {"idle", "done"},
           c.status = call[j].status,
           UNCHANGED <<active, proc, tracing, file, struck>>,
           failed' \in [Jobs -> SUBSET Tools], failed[j] \subseteq failed'[j],
           \A i \in Jobs \ {j} : failed'[i] = failed[i],
           TargetOf(j)', ProcessOf(j)'
    PROVE  IndInv'
<1>1. /\ TypeOK /\ call[j] \in Calls /\ TraceOf(j) /\ StatusOf(j)
      /\ active = j
    BY JobFacts
<1>2. call'[j] = c /\ \A i \in Jobs \ {j} : call'[i] = call[i]
    BY <1>1 DEF TypeOK
<1>3. TypeOK'
    BY <1>1 DEF TypeOK
<1>4. TraceOf(j)' /\ StatusOf(j)'
    BY <1>1, <1>2 DEF TraceOf, StatusOf
<1> QED
    BY <1>1, <1>2, <1>3, <1>4, OneJob DEF JobInv

-----------------------------------------------------------------------------
(* From the request to the recorder, and the return *)

LEMMA StartInd ==
    ASSUME IndInv, NEW j \in Jobs, NEW t \in Targets, Start(j, t)
    PROVE  IndInv'
<1>1. /\ TypeOK /\ call[j] \in Calls /\ active = NoJob /\ call[j].pc = "idle"
      /\ TargetOf(j) /\ ProcessOf(j) /\ TraceOf(j) /\ StatusOf(j)
    BY JobFacts DEF Start
<1>2. call'[j] = [call[j] EXCEPT !.pc = "artifacts", !.target = t]
    BY <1>1 DEF Start, TypeOK
<1>3. /\ call'[j].pc = "artifacts" /\ call'[j].target = t
      /\ call'[j].tool = call[j].tool /\ call'[j].stop = call[j].stop
      /\ call'[j].timedOut = call[j].timedOut /\ call'[j].runError = call[j].runError
      /\ call'[j].code = call[j].code /\ call'[j].status = call[j].status
    BY <1>1, <1>2 DEF Calls
<1>4. call'[j] \in Calls
    BY <1>1, <1>2 DEF Calls, PC
<1>5. /\ call' \in [Jobs -> Calls] /\ active' = j
      /\ \A i \in Jobs \ {j} : call'[i] = call[i]
      /\ UNCHANGED <<proc, tracing, file, failed, struck>>
    BY <1>1, <1>4 DEF Start, TypeOK
<1>6. TypeOK'
    BY <1>1, <1>5 DEF TypeOK
<1>7. TargetOf(j)'
    BY <1>1, <1>3 DEF TargetOf, Start
<1>8. ProcessOf(j)' /\ TraceOf(j)' /\ StatusOf(j)'
    BY <1>1, <1>3, <1>5 DEF ProcessOf, TraceOf, StatusOf, Running
<1> QED
    BY <1>1, <1>3, <1>5, <1>6, <1>7, <1>8, OneJob, RecordingAssumption DEF JobInv

\* Every return frees the slot and leaves the processes as they are, which is
\* none that is running unless the operating system failed on it.
LEMMA ReturnInd ==
    ASSUME IndInv, NEW j \in Jobs, call[j].pc \in {"artifacts", "collect"},
           NEW status \in Status, Return(j, status),
           UNCHANGED <<proc, tracing, file, failed, struck>>,
           status = "Completed" => proc[j]["record"].code = 0 /\ file[j] = "complete",
           status = "Failed" /\ ~call[j].runError =>
               proc[j]["record"].state = "exited" /\ proc[j]["stop"].state = "none"
    PROVE  IndInv'
<1>1. /\ TypeOK /\ call[j] \in Calls /\ active = j
      /\ ProcessOf(j) /\ TraceOf(j)
    BY JobFacts
<1>2. call'[j] = [Idle EXCEPT !.pc = "done", !.status = status, !.runError = call[j].runError]
    BY <1>1 DEF Return, TypeOK
<1>3. /\ call'[j].pc = "done" /\ call'[j].status = status /\ call'[j].tool = "record"
      /\ call'[j].runError = call[j].runError
    BY <1>2 DEF Idle
<1>4. call'[j] \in Calls
  <2>1. Idle \in Calls /\ call[j].runError \in BOOLEAN
    BY <1>1 DEF Idle, Calls, PC, Tools, StopTargets, Status
  <2> HIDE DEF Idle
  <2> QED
    BY <1>2, <2>1 DEF Calls, PC
<1>5. /\ call' \in [Jobs -> Calls] /\ active' = NoJob
      /\ \A i \in Jobs \ {j} : call'[i] = call[i]
    BY <1>1, <1>4 DEF Return, TypeOK
<1>6. TypeOK'
    BY <1>1, <1>5 DEF TypeOK
<1>7. TargetOf(j)' /\ ProcessOf(j)' /\ TraceOf(j)' /\ StatusOf(j)'
    BY <1>1, <1>3 DEF TargetOf, ProcessOf, TraceOf, StatusOf, Running
<1> QED
    BY <1>1, <1>3, <1>5, <1>6, <1>7, OneJob, RecordingAssumption DEF JobInv

LEMMA ArtifactsInd ==
    ASSUME IndInv, NEW j \in Jobs, InitializeArtifacts(j)
    PROVE  IndInv'
<1>0. /\ TypeOK /\ call[j] \in Calls /\ call[j].pc = "artifacts"
      /\ TargetOf(j) /\ ProcessOf(j)
    BY JobFacts DEF InitializeArtifacts
<1>1. CASE Return(j, "Err")
    BY <1>0, <1>1, ReturnInd DEF InitializeArtifacts, Status
<1>2. CASE call' = [call EXCEPT ![j].pc = "spawn"] /\ UNCHANGED active
  <2>1. PICK c \in Calls : c = [call[j] EXCEPT !.pc = "spawn"]
    BY <1>0 DEF Calls, PC
  <2>2. call' = [call EXCEPT ![j] = c] /\ call'[j] = c
    BY <1>0, <1>2, <2>1 DEF TypeOK
  <2>3. /\ c.pc = "spawn" /\ c.target = call[j].target /\ c.tool = call[j].tool
        /\ c.stop = call[j].stop /\ c.timedOut = call[j].timedOut
        /\ c.status = call[j].status
    BY <1>0, <2>1 DEF Calls
  <2>4. UNCHANGED <<proc, tracing, file, failed, struck>>
    BY DEF InitializeArtifacts
  <2>5. TargetOf(j)' /\ ProcessOf(j)'
    BY <1>0, <2>2, <2>3, <2>4 DEF TargetOf, ProcessOf, Running
  <2>6. failed' \in [Jobs -> SUBSET Tools]
    BY <1>0, <2>4 DEF TypeOK
  <2> QED
    BY <1>0, <1>2, <2>2, <2>3, <2>4, <2>5, <2>6, CallMoves
<1> QED
    BY <1>1, <1>2 DEF InitializeArtifacts

-----------------------------------------------------------------------------
(* run_ttd_process *)

\* There always is a stop for a target that was validated.
LEMMA StopTarget ==
    ASSUME NEW t \in Targets, validate_ttd_target(t), NEW known \in BOOLEAN
    PROVE  ttd_stop_target(t, known) \in StopTargets \ {"none"}
<1>1. t.kind \in {"launch", "attach", "monitor"}
    BY DEF Targets
<1>2. CASE t.kind = "launch"
    BY <1>2, RecordingAssumption DEF ttd_stop_target, validate_ttd_target, StopTargets, Targets
<1>3. CASE t.kind = "attach"
    BY <1>3 DEF ttd_stop_target, StopTargets
<1>4. CASE t.kind = "monitor"
    BY <1>4 DEF ttd_stop_target, StopTargets
<1> QED
    BY <1>1, <1>2, <1>3, <1>4

\* An error of either tool: a recorder leaves a run_error, and no process is
\* left running unless the operating system failed on it.
LEMMA ToolErrorInd ==
    ASSUME IndInv, NEW j \in Jobs, call[j].pc \in {"spawn", "poll"}, ToolError(j),
           UNCHANGED <<active, proc, tracing, file, struck>>,
           failed' \in [Jobs -> SUBSET Tools], failed[j] \subseteq failed'[j],
           \A i \in Jobs \ {j} : failed'[i] = failed[i],
           Running(j, call[j].tool) => call[j].tool \in failed'[j]
    PROVE  IndInv'
<1>0. TypeOK /\ call[j] \in Calls /\ TargetOf(j) /\ ProcessOf(j)
    BY JobFacts
<1>1. PICK c \in Calls :
         c = [call[j] EXCEPT !.pc = "collect",
                             !.runError = call[j].runError \/ call[j].tool = "record"]
    BY <1>0 DEF Calls, PC
<1>2. call' = [call EXCEPT ![j] = c] /\ call'[j] = c
    BY <1>0, <1>1 DEF ToolError, TypeOK
<1>3. /\ c.pc = "collect" /\ c.target = call[j].target /\ c.tool = call[j].tool
      /\ c.stop = call[j].stop /\ c.timedOut = call[j].timedOut
      /\ c.status = call[j].status
      /\ c.tool = "record" => c.runError
    BY <1>0, <1>1 DEF Calls
<1>4. TargetOf(j)' /\ ProcessOf(j)'
    BY <1>0, <1>2, <1>3 DEF TargetOf, ProcessOf, Running
<1> QED
    BY <1>2, <1>3, <1>4, CallMoves

\* The result of a tool: a stop leads to the end, as does a recorder that
\* exited by itself; one that was killed is followed by a stop.
LEMMA ExitedInd ==
    ASSUME IndInv, NEW j \in Jobs, call[j].pc \in {"poll", "wait"},
           NEW code \in ExitCodes \cup {NoCode}, NEW timedOut \in BOOLEAN,
           Exited(j, code, timedOut),
           UNCHANGED <<active, proc, tracing, file, struck>>,
           failed' \in [Jobs -> SUBSET Tools], failed[j] \subseteq failed'[j],
           \A i \in Jobs \ {j} : failed'[i] = failed[i],
           Running(j, call[j].tool) => call[j].tool \in failed'[j],
           ~timedOut => /\ proc[j][call[j].tool].state = "exited"
                        /\ proc[j][call[j].tool].code = code
    PROVE  IndInv'
<1>0. TypeOK /\ call[j] \in Calls /\ TargetOf(j) /\ ProcessOf(j)
    BY JobFacts
<1>t. call[j].tool \in Tools
    BY <1>0 DEF Calls
<1>1. CASE call[j].tool = "stop"
  <2>1. PICK c \in Calls : c = [call[j] EXCEPT !.pc = "collect"]
    BY <1>0 DEF Calls, PC
  <2>2. call' = [call EXCEPT ![j] = c] /\ call'[j] = c
    BY <1>0, <1>1, <2>1 DEF Exited, TypeOK
  <2>3. /\ c.pc = "collect" /\ c.target = call[j].target /\ c.tool = "stop"
        /\ c.stop = call[j].stop /\ c.timedOut = call[j].timedOut
        /\ c.status = call[j].status
    BY <1>0, <1>1, <2>1 DEF Calls
  <2>4. TargetOf(j)' /\ ProcessOf(j)'
    BY <1>0, <1>1, <2>2, <2>3 DEF TargetOf, ProcessOf, Running
  <2> QED
    BY <2>2, <2>3, <2>4, CallMoves
<1>2. CASE call[j].tool = "record" /\ ~timedOut
  <2>1. PICK c \in Calls : c = [call[j] EXCEPT !.pc = "collect", !.code = code]
    BY <1>0 DEF Calls, PC
  <2>2. call' = [call EXCEPT ![j] = c] /\ call'[j] = c
    BY <1>0, <1>2, <2>1 DEF Exited, TypeOK
  <2>3. /\ c.pc = "collect" /\ c.target = call[j].target /\ c.tool = "record"
        /\ c.stop = call[j].stop /\ c.timedOut = call[j].timedOut
        /\ c.status = call[j].status /\ c.code = code
    BY <1>0, <1>2, <2>1 DEF Calls
  <2>4. TargetOf(j)' /\ ProcessOf(j)'
    BY <1>0, <1>2, <2>2, <2>3 DEF TargetOf, ProcessOf, Running
  <2> QED
    BY <2>2, <2>3, <2>4, CallMoves
<1>3. CASE call[j].tool = "record" /\ timedOut
  <2>0. PICK known \in BOOLEAN :
           call' = [call EXCEPT ![j].pc = "spawn", ![j].tool = "stop",
                                ![j].code = code, ![j].timedOut = TRUE,
                                ![j].stop = ttd_stop_target(call[j].target, known)]
    BY <1>3 DEF Exited
  <2>1. ttd_stop_target(call[j].target, known) \in StopTargets \ {"none"}
    BY <1>0, StopTarget DEF TargetOf
  <2>2. PICK c \in Calls :
           c = [call[j] EXCEPT !.pc = "spawn", !.tool = "stop", !.code = code,
                               !.timedOut = TRUE,
                               !.stop = ttd_stop_target(call[j].target, known)]
    BY <1>0, <2>1 DEF Calls, PC, Tools
  <2>3. call' = [call EXCEPT ![j] = c] /\ call'[j] = c
    BY <1>0, <2>0, <2>2 DEF TypeOK
  <2>4. /\ c.pc = "spawn" /\ c.target = call[j].target /\ c.tool = "stop"
        /\ c.stop # "none" /\ c.timedOut /\ c.status = call[j].status
    BY <1>0, <2>1, <2>2 DEF Calls
  <2>5. TargetOf(j)'
    BY <1>0, <2>3, <2>4 DEF TargetOf
  <2>6. ProcessOf(j)'
    BY <1>0, <1>3, <2>3, <2>4 DEF ProcessOf, Running, Tools
  <2> QED
    BY <2>3, <2>4, <2>5, <2>6, CallMoves
<1> QED
    BY <1>t, <1>1, <1>2, <1>3 DEF Tools

\* A process of a job changes, and with it perhaps the place of its call.
LEMMA ProcMoves ==
    ASSUME IndInv, NEW j \in Jobs, NEW t \in Tools, NEW p \in Processes,
           proc' = [proc EXCEPT ![j][t] = p],
           call' \in [Jobs -> Calls], call'[j].pc \in {"idle", "done"} <=> call[j].pc \in {"idle", "done"},
           \A i \in Jobs \ {j} : call'[i] = call[i],
           UNCHANGED <<active, tracing, file, failed, struck>>,
           TargetOf(j)', ProcessOf(j)', TraceOf(j)', StatusOf(j)'
    PROVE  IndInv'
<1>0. TypeOK /\ (active = j <=> call[j].pc \notin {"idle", "done"})
    BY JobFacts
<1>1. TypeOK'
    BY <1>0 DEF TypeOK
<1>2. \A i \in Jobs \ {j} : proc'[i] = proc[i]
    BY <1>0 DEF TypeOK
<1> QED
    BY <1>0, <1>1, <1>2, OneJob DEF JobInv

LEMMA SpawnInd ==
    ASSUME IndInv, NEW j \in Jobs, Spawn(j)
    PROVE  IndInv'
<1>0. /\ TypeOK /\ call[j] \in Calls /\ TargetOf(j) /\ ProcessOf(j) /\ TraceOf(j)
      /\ StatusOf(j) /\ call[j].pc = "spawn" /\ call[j].tool \in Tools
      /\ \A u \in Tools : proc[j][u] \in Processes
    BY JobFacts DEF Spawn, Calls
<1>1. CASE ToolError(j) /\ UNCHANGED proc
  <2>1. Running(j, call[j].tool) => call[j].tool \in failed[j]
    BY <1>0 DEF ProcessOf
  <2> QED
    BY <1>0, <1>1, <2>1, ToolErrorInd DEF Spawn, TypeOK
<1>2. CASE /\ proc' = [proc EXCEPT ![j][call[j].tool] =
                                      Process("running", NoCode, call[j].stop)]
           /\ call' = [call EXCEPT ![j].pc = "poll"]
  <2>1. PICK p \in Processes : p = Process("running", NoCode, call[j].stop)
    BY <1>0 DEF Processes, Process, Calls
  <2>2. p.state = "running" /\ p.code = NoCode
    BY <2>1 DEF Process
  <2>3. /\ proc'[j][call[j].tool] = p
        /\ \A u \in Tools \ {call[j].tool} : proc'[j][u] = proc[j][u]
    BY <1>0, <1>2, <2>1 DEF TypeOK
  <2>4. call'[j] = [call[j] EXCEPT !.pc = "poll"]
    BY <1>0, <1>2 DEF TypeOK
  <2>5. /\ call'[j].pc = "poll" /\ call'[j].target = call[j].target
        /\ call'[j].tool = call[j].tool /\ call'[j].stop = call[j].stop
        /\ call'[j].timedOut = call[j].timedOut /\ call'[j].status = call[j].status
        /\ call'[j] \in Calls
    BY <1>0, <2>4 DEF Calls, PC
  <2>6. /\ call' \in [Jobs -> Calls] /\ \A i \in Jobs \ {j} : call'[i] = call[i]
        /\ UNCHANGED <<active, tracing, file, failed, struck>>
    BY <1>0, <1>2, <2>5 DEF Spawn, TypeOK
  <2>7. TargetOf(j)'
    BY <1>0, <2>5 DEF TargetOf
  <2>8. ProcessOf(j)'
    BY <1>0, <2>2, <2>3, <2>5, <2>6 DEF ProcessOf, Running, Tools
  <2>9. TraceOf(j)'
    BY <1>0, <2>2, <2>3, <2>6 DEF TraceOf, ProcessOf, Tools, NoCode
  <2>10. StatusOf(j)'
    BY <1>0, <2>5 DEF StatusOf
  <2>11. proc' = [proc EXCEPT ![j][call[j].tool] = p]
    BY <1>2, <2>1
  <2> QED
    BY <1>0, <2>5, <2>6, <2>7, <2>8, <2>9, <2>10, <2>11, ProcMoves
<1> QED
    BY <1>1, <1>2 DEF Spawn

\* Polling: the exit, an error, the deadline.
LEMMA PollInd ==
    ASSUME IndInv, NEW j \in Jobs, PollExit(j) \/ PollError(j) \/ PollDeadline(j)
    PROVE  IndInv'
<1>0. /\ TypeOK /\ call[j] \in Calls /\ TargetOf(j) /\ ProcessOf(j) /\ call[j].pc = "poll"
      /\ call[j].tool \in Tools /\ \A u \in Tools : proc[j][u] \in Processes
      /\ failed \in [Jobs -> SUBSET Tools]
    BY JobFacts DEF PollExit, PollError, PollDeadline, Calls, TypeOK
<1>1. CASE PollExit(j)
  <2>1. /\ proc[j][call[j].tool].state = "exited"
        /\ Exited(j, proc[j][call[j].tool].code, FALSE)
        /\ UNCHANGED <<active, proc, tracing, file, failed, struck>>
    BY <1>1 DEF PollExit, try_wait
  <2>2. proc[j][call[j].tool].code \in ExitCodes \cup {NoCode}
    BY <1>0 DEF Processes
  <2>3. ~Running(j, call[j].tool)
    BY <2>1 DEF Running
  <2> QED
    BY <1>0, <2>1, <2>2, <2>3, ExitedInd
<1>2. CASE PollError(j)
  <2>1. /\ ToolError(j) /\ failed' = [failed EXCEPT ![j] = @ \cup {call[j].tool}]
        /\ UNCHANGED <<active, proc, tracing, file, struck>>
    BY <1>2 DEF PollError
  <2>2. /\ failed' \in [Jobs -> SUBSET Tools] /\ failed[j] \subseteq failed'[j]
        /\ call[j].tool \in failed'[j] /\ \A i \in Jobs \ {j} : failed'[i] = failed[i]
    BY <1>0, <2>1
  <2> QED
    BY <1>0, <2>1, <2>2, ToolErrorInd
<1>3. CASE PollDeadline(j)
  <2>1. PICK c \in Calls : c = [call[j] EXCEPT !.pc = "kill"]
    BY <1>0 DEF Calls, PC
  <2>2. /\ call' = [call EXCEPT ![j] = c] /\ call'[j] = c
        /\ UNCHANGED <<active, proc, tracing, file, failed, struck>>
    BY <1>0, <1>3, <2>1 DEF PollDeadline, TypeOK
  <2>3. /\ c.pc = "kill" /\ c.target = call[j].target /\ c.tool = call[j].tool
        /\ c.stop = call[j].stop /\ c.timedOut = call[j].timedOut
        /\ c.status = call[j].status
    BY <1>0, <2>1 DEF Calls
  <2>4. TargetOf(j)' /\ ProcessOf(j)'
    BY <1>0, <2>2, <2>3 DEF TargetOf, ProcessOf, Running
  <2> QED
    BY <1>0, <2>2, <2>3, <2>4, CallMoves
<1> QED
    BY <1>1, <1>2, <1>3

\* The kill at the deadline: afterwards the process has exited, or the
\* operating system refused.
LEMMA KillInd ==
    ASSUME IndInv, NEW j \in Jobs, Kill(j)
    PROVE  IndInv'
<1> DEFINE t == call[j].tool
<1>0. /\ TypeOK /\ call[j] \in Calls /\ TargetOf(j) /\ ProcessOf(j) /\ TraceOf(j)
      /\ StatusOf(j) /\ call[j].pc = "kill" /\ t \in Tools
      /\ \A u \in Tools : proc[j][u] \in Processes
      /\ failed \in [Jobs -> SUBSET Tools]
    BY JobFacts DEF Kill, Calls, TypeOK
<1>1. PICK c \in Calls : c = [call[j] EXCEPT !.pc = "wait"]
    BY <1>0 DEF Calls, PC
<1>2. /\ call' = [call EXCEPT ![j] = c] /\ call'[j] = c
      /\ UNCHANGED <<active, tracing, file, struck>>
    BY <1>0, <1>1 DEF Kill, TypeOK
<1>3. /\ c.pc = "wait" /\ c.target = call[j].target /\ c.tool = t
      /\ c.stop = call[j].stop /\ c.timedOut = call[j].timedOut
      /\ c.status = call[j].status
    BY <1>0, <1>1 DEF Calls
<1>4. TargetOf(j)'
    BY <1>0, <1>2, <1>3 DEF TargetOf
<1>5. CASE Running(j, t) /\ proc' = [proc EXCEPT ![j][t] = Process("exited", 1, "none")]
           /\ UNCHANGED failed
  <2>1. PICK p \in Processes : p = Process("exited", 1, "none")
    BY DEF Processes, Process, ExitCodes, StopTargets
  <2>2. p.state = "exited" /\ p.code = 1
    BY <2>1 DEF Process
  <2>3. proc' = [proc EXCEPT ![j][t] = p]
    BY <1>5, <2>1
  <2>4. proc'[j][t] = p /\ \A u \in Tools \ {t} : proc'[j][u] = proc[j][u]
    BY <1>0, <2>3 DEF TypeOK
  <2>5. ProcessOf(j)'
    BY <1>0, <1>2, <1>3, <1>5, <2>2, <2>4 DEF ProcessOf, Running, Tools
  <2>6. TraceOf(j)' /\ StatusOf(j)'
    BY <1>0, <1>2, <1>3, <1>5, <2>2, <2>4 DEF TraceOf, StatusOf, Running, Tools, NoCode
  <2>7. /\ call' \in [Jobs -> Calls]
        /\ \A i \in Jobs \ {j} : call'[i] = call[i]
    BY <1>0, <1>2 DEF TypeOK
  <2> HIDE DEF t
  <2> QED
    BY <1>0, <1>2, <1>3, <1>4, <1>5, <2>3, <2>5, <2>6, <2>7, ProcMoves
<1>6. CASE /\ UNCHANGED proc
           /\ \/ ~Running(j, t) /\ UNCHANGED failed
              \/ failed' = [failed EXCEPT ![j] = @ \cup {t}]
  <2>1. /\ failed' \in [Jobs -> SUBSET Tools] /\ failed[j] \subseteq failed'[j]
        /\ Running(j, t) => t \in failed'[j]
        /\ \A i \in Jobs \ {j} : failed'[i] = failed[i]
    BY <1>0, <1>6
  <2>2. ProcessOf(j)'
    BY <1>0, <1>2, <1>3, <1>6, <2>1 DEF ProcessOf, Running
  <2> QED
    BY <1>0, <1>2, <1>3, <1>4, <1>6, <2>1, <2>2, CallMoves
<1> QED
    BY <1>5, <1>6 DEF Kill

\* Waiting after the kill.
LEMMA WaitInd ==
    ASSUME IndInv, NEW j \in Jobs, Wait(j)
    PROVE  IndInv'
<1> DEFINE p == proc[j][call[j].tool]
<1>0. /\ TypeOK /\ call[j] \in Calls /\ call[j].pc = "wait" /\ call[j].tool \in Tools
      /\ p \in Processes /\ failed \in [Jobs -> SUBSET Tools]
      /\ UNCHANGED <<active, proc, tracing, file, struck>>
    BY JobFacts DEF Wait, Calls, TypeOK
<1>1. CASE /\ p.state = "exited" /\ UNCHANGED failed
           /\ Exited(j, IF p.code = StillActive THEN NoCode ELSE p.code, TRUE)
  <2>1. (IF p.code = StillActive THEN NoCode ELSE p.code) \in ExitCodes \cup {NoCode}
    BY <1>0 DEF Processes
  <2>2. ~Running(j, call[j].tool)
    BY <1>1 DEF Running
  <2> QED
    BY <1>0, <1>1, <2>1, <2>2, ExitedInd
<1>2. CASE Exited(j, NoCode, TRUE) /\ failed' = [failed EXCEPT ![j] = @ \cup {call[j].tool}]
  <2>1. /\ failed' \in [Jobs -> SUBSET Tools] /\ failed[j] \subseteq failed'[j]
        /\ call[j].tool \in failed'[j] /\ \A i \in Jobs \ {j} : failed'[i] = failed[i]
    BY <1>0, <1>2
  <2> QED
    BY <1>0, <1>2, <2>1, ExitedInd
<1> QED
    BY <1>1, <1>2 DEF Wait

-----------------------------------------------------------------------------
(* The result *)

\* A recording is Completed only on the word of a recorder that ended with
\* success, after the tracing.
LEMMA CollectInd ==
    ASSUME IndInv, NEW j \in Jobs, Collect(j)
    PROVE  IndInv'
<1>0. /\ TypeOK /\ call[j] \in Calls /\ TargetOf(j) /\ ProcessOf(j) /\ TraceOf(j)
      /\ call[j].pc = "collect" /\ call[j].tool \in Tools
      /\ UNCHANGED <<proc, tracing, file, failed, struck>>
    BY JobFacts DEF Collect, Calls
<1>1. PICK status \in {result_status(j), "Err"} : Return(j, status)
    BY DEF Collect
<1>2. result_status(j) \in Status
    BY DEF result_status, Status
<1>3. ASSUME ~call[j].runError, result_status(j) \in {"Completed", "Failed"}
      PROVE  /\ ~call[j].timedOut
             /\ result_status(j) = "Completed" =>
                    call[j].code \in {0, NoCode} /\ file[j] # "none"
    BY <1>3 DEF result_status
<1>4. ASSUME ~call[j].runError, ~call[j].timedOut
      PROVE  /\ proc[j]["record"].state = "exited" /\ proc[j]["record"].code = call[j].code
             /\ proc[j]["stop"].state = "none"
    BY <1>0, <1>4 DEF TargetOf, ProcessOf, Tools
<1>5. result_status(j) = "Completed" => ~call[j].runError
    BY DEF result_status
<1>6. result_status(j) = "Completed" => proc[j]["record"].code = 0 /\ file[j] = "complete"
    BY <1>0, <1>3, <1>4, <1>5 DEF TraceOf, NotTraced
<1>7. result_status(j) = "Failed" /\ ~call[j].runError =>
          proc[j]["record"].state = "exited" /\ proc[j]["stop"].state = "none"
    BY <1>3, <1>4
<1>8. status \in Status
    BY <1>2 DEF Status
<1> QED
    BY <1>0, <1>1, <1>6, <1>7, <1>8, ReturnInd

-----------------------------------------------------------------------------
(* TTD.exe and the target *)

LEMMA ToolExitsInd ==
    ASSUME IndInv, NEW j \in Jobs, NEW t \in Tools, NEW code \in ExitCodes,
           ToolExits(j, t, code)
    PROVE  IndInv'
<1>0. /\ TypeOK /\ call[j] \in Calls /\ TargetOf(j) /\ ProcessOf(j) /\ TraceOf(j)
      /\ StatusOf(j) /\ call \in [Jobs -> Calls]
    BY JobFacts DEF TypeOK
<1>1. PICK p \in Processes : p = Process("exited", code, "none")
    BY DEF Processes, Process, StopTargets
<1>2. p.state = "exited" /\ p.code = code
    BY <1>1 DEF Process
<1>3. /\ proc[j][t].state = "running" /\ proc' = [proc EXCEPT ![j][t] = p]
      /\ t = "record" /\ code = 0 => tracing[j] \in NotTraced
      /\ UNCHANGED <<active, call, tracing, file, failed, struck>>
    BY <1>1 DEF ToolExits, Running
<1>4. proc'[j][t] = p /\ \A u \in Tools \ {t} : proc'[j][u] = proc[j][u]
    BY <1>0, <1>3 DEF TypeOK
<1>5. TargetOf(j)'
    BY <1>0, <1>3 DEF TargetOf
<1>6. ProcessOf(j)'
    BY <1>0, <1>2, <1>3, <1>4 DEF ProcessOf, Running, Tools
<1>7. TraceOf(j)'
  <2>1. code # NoCode
    BY DEF ExitCodes, StillActive, NoCode
  <2> QED
    BY <1>0, <1>2, <1>3, <1>4, <2>1 DEF TraceOf, Tools
<1>8. StatusOf(j)'
    BY <1>0, <1>2, <1>3, <1>4 DEF StatusOf, TraceOf, Tools
<1> QED
    BY <1>0, <1>3, <1>5, <1>6, <1>7, <1>8, ProcMoves

LEMMA TracingBeginsInd ==
    ASSUME IndInv, NEW j \in Jobs, TracingBegins(j)
    PROVE  IndInv'
<1>0. /\ TypeOK /\ TargetOf(j) /\ ProcessOf(j) /\ TraceOf(j) /\ StatusOf(j)
      /\ active = j <=> call[j].pc \notin {"idle", "done"}
    BY JobFacts
<1>1. PICK n \in Names : tracing' = [tracing EXCEPT ![j] = n]
    BY DEF TracingBegins
<1>2. /\ proc[j]["record"].state = "running"
      /\ file' = [file EXCEPT ![j] = "partial"]
      /\ UNCHANGED <<active, call, proc, failed, struck>>
    BY DEF TracingBegins, Running
<1>3. /\ tracing'[j] = n /\ file'[j] = "partial"
      /\ \A i \in Jobs \ {j} : tracing'[i] = tracing[i] /\ file'[i] = file[i]
    BY <1>0, <1>1, <1>2 DEF TypeOK
<1>4. TypeOK'
    BY <1>0, <1>1, <1>2 DEF TypeOK
<1>5. TargetOf(j)' /\ ProcessOf(j)'
    BY <1>0, <1>2 DEF TargetOf, ProcessOf, Running
<1>6. TraceOf(j)' /\ StatusOf(j)'
    BY <1>0, <1>2, <1>3, RecordingAssumption DEF TraceOf, StatusOf
<1> QED
    BY <1>0, <1>2, <1>3, <1>4, <1>5, <1>6, OneJob DEF JobInv

\* Tracing ends for jobs that are traced: their files are whole.
LEMMA TracingEndsInd ==
    ASSUME IndInv, NEW S \in SUBSET Jobs, TracingEnds(S),
           \A i \in S : tracing[i] \notin NotTraced,
           UNCHANGED <<active, call, proc, failed>>,
           struck' \in SUBSET (Jobs \X Jobs), NoCrossStop'
    PROVE  IndInv'
<1>0. TypeOK
    BY DEF IndInv
<1>1. TypeOK'
    BY <1>0 DEF TypeOK, TracingEnds, NotTraced
<1>2. SlotInv'
    BY DEF IndInv, SlotInv
<1>3. ASSUME NEW j \in Jobs PROVE JobInv(j)'
  <2>1. TargetOf(j) /\ ProcessOf(j) /\ TraceOf(j) /\ StatusOf(j)
    BY JobFacts
  <2>2. TargetOf(j)' /\ ProcessOf(j)'
    BY <2>1 DEF TargetOf, ProcessOf, Running
  <2>3. /\ tracing'[j] = IF j \in S THEN "off" ELSE tracing[j]
        /\ file'[j] = IF j \in S THEN "complete" ELSE file[j]
    BY DEF TracingEnds
  <2>4. TraceOf(j)' /\ StatusOf(j)'
    BY <2>1, <2>3 DEF TraceOf, StatusOf, NotTraced
  <2> QED
    BY <2>2, <2>4 DEF JobInv
<1> QED
    BY <1>1, <1>2, <1>3 DEF IndInv

\* A stop, by name or of everything: while it is in the hands of its job no
\* other job is under way, and a job that has not begun is not traced.
LEMMA StopActsInd ==
    ASSUME IndInv, NEW j \in Jobs, StopActs(j)
    PROVE  IndInv'
<1>0. TypeOK /\ ProcessOf(j) /\ SlotInv /\ NoCrossStop
    BY JobFacts DEF IndInv
<1>1. /\ Running(j, "stop") /\ TracingEnds(Reached(j))
      /\ UNCHANGED <<active, call, proc, failed>>
    BY DEF StopActs
<1>2. Reached(j) \in SUBSET Jobs /\ \A i \in Reached(j) : tracing[i] \notin NotTraced
    BY DEF Reached
<1>3. struck' \in SUBSET (Jobs \X Jobs)
    BY <1>0, <1>2 DEF StopActs, TypeOK
<1>4. NoCrossStop'
  <2> SUFFICES ASSUME NEW i \in Reached(j), i # j, call[i].pc # "done"
               PROVE  "stop" \in failed[j]
    BY <1>0, <1>1 DEF NoCrossStop, StopActs
  <2>1. TraceOf(i) /\ ProcessOf(i) /\ i \in Jobs
    BY <1>2, JobFacts
  <2>2. call[i].pc # "idle"
    BY <1>2, <2>1 DEF TraceOf, ProcessOf, NotTraced
  <2>3. active = i
    BY <1>0, <2>1, <2>2 DEF SlotInv
  <2>4. "stop" \notin failed[j] => active = j
    BY <1>0, <1>1 DEF ProcessOf, SlotInv, Tools
  <2> QED
    BY <2>3, <2>4
<1> QED
    BY <1>1, <1>2, <1>3, <1>4, TracingEndsInd

LEMMA TargetExitsInd ==
    ASSUME IndInv, NEW j \in Jobs, TargetExits(j)
    PROVE  IndInv'
<1>1. /\ {j} \in SUBSET Jobs /\ TracingEnds({j})
      /\ \A i \in {j} : tracing[i] \notin NotTraced
      /\ UNCHANGED <<active, call, proc, failed, struck>>
    BY DEF TargetExits
<1>2. struck' \in SUBSET (Jobs \X Jobs) /\ NoCrossStop'
    BY <1>1 DEF IndInv, TypeOK, NoCrossStop
<1> QED
    BY <1>1, <1>2, TracingEndsInd

-----------------------------------------------------------------------------

\* Every step of a call, of TTD.exe and of a target keeps the invariant.
LEMMA NextInd == IndInv /\ [Next]_vars => IndInv'
<1> SUFFICES ASSUME IndInv, [Next]_vars PROVE IndInv'
    OBVIOUS
<1>1. ASSUME NEW j \in Jobs, CallStep(j) PROVE IndInv'
    BY <1>1, ArtifactsInd, SpawnInd, PollInd, KillInd, WaitInd, CollectInd DEF CallStep
<1>2. ASSUME NEW j \in Jobs, NEW c \in ExitCodes,
             ToolExits(j, "record", c) \/ ToolExits(j, "stop", 0)
      PROVE  IndInv'
    BY <1>2, ToolExitsInd DEF Tools, ExitCodes
<1>3. CASE UNCHANGED vars
  <2>1. UNCHANGED <<active, call, proc, tracing, file, failed, struck>>
    BY <1>3 DEF vars
  <2>2. TypeOK' /\ SlotInv' /\ NoCrossStop'
    BY <2>1 DEF IndInv, TypeOK, SlotInv, NoCrossStop
  <2>3. ASSUME NEW j \in Jobs PROVE JobInv(j)'
    <3>1. JobInv(j)
      BY DEF IndInv
    <3> QED
      BY <2>1, <3>1 DEF JobInv, TargetOf, ProcessOf, TraceOf, StatusOf, Running
  <2> QED
    BY <2>2, <2>3 DEF IndInv
<1> QED
    BY <1>1, <1>2, <1>3, StartInd, TracingBeginsInd, TargetExitsInd, StopActsInd
       DEF Next, ExitCodes

\* The inductive invariant holds in every reachable state.
THEOREM Invariance == Spec => []IndInv
    BY InitInd, NextInd, PTL DEF Spec

\* record_ttd and run_ttd_process: no return leaves a TTD process behind that
\* the operating system let it poll, kill and wait for, and a recording that
\* timed out always has something to stop.
THEOREM ProcessesCovered == Spec => []ProcessInv
<1>1. IndInv => ProcessInv
  <2> SUFFICES ASSUME IndInv PROVE ProcessInv
    OBVIOUS
  <2>1. TypeOK /\ SlotInv /\ \A j \in Jobs : TargetOf(j) /\ ProcessOf(j)
    BY DEF IndInv, JobInv
  <2>2. SlotCoversProcesses
    BY <2>1 DEF SlotCoversProcesses, SlotInv, ProcessOf
  <2>3. StopHasTarget
    BY <2>1 DEF StopHasTarget, TargetOf
  <2> QED
    BY <2>1, <2>2, <2>3 DEF ProcessInv
<1> QED
    BY <1>1, Invariance, PTL

\* ttd_stop_target: a stop by name, or of everything, ends no other recording
\* in progress, because the slot is held until the stop is over.
THEOREM NoStrayStop == Spec => []NoCrossStop
<1>1. IndInv => NoCrossStop
    BY DEF IndInv
<1> QED
    BY <1>1, Invariance, PTL

\* result_status: Completed and Failed say what became of the recorder and of
\* its trace.
THEOREM StatusTrue == Spec => []StatusIsTrue
<1>1. IndInv => StatusIsTrue
    BY DEF IndInv, JobInv, StatusOf, StatusIsTrue
<1> QED
    BY <1>1, Invariance, PTL
=============================================================================
