---------------------------- MODULE TtdRecording ----------------------------
(***************************************************************************)
(* Time-travel recordings (crates/dbgflow-trace/src/ttd): record_ttd holds *)
(* the single job slot, runs TTD.exe until it exits or the timeout passes, *)
(* after a timeout runs TTD.exe -stop, and reports what it finds in the    *)
(* traces directory.  Both runs are run_ttd_process: spawn, poll, and at   *)
(* the deadline kill and wait.  The target is traced by the operating      *)
(* system side of TTD, which survives the process that started it.         *)
(***************************************************************************)
EXTENDS Naturals

CONSTANTS
    Jobs,     \* recording ids, one per call of record_ttd
    Names,    \* file names of executables
    NoJob, NoName,
    Frail     \* jobs whose TTD processes may resist polling, killing, waiting

ASSUME RecordingAssumption ==
    /\ NoJob \notin Jobs /\ Frail \subseteq Jobs
    /\ NoName \notin Names /\ Names \cap {"none", "off", "process", "all"} = {}

VARIABLES
    active,   \* SingleActiveJob::active
    call,     \* per job, the locals of record_ttd_with_context
    proc,     \* per job and tool, the TTD.exe process, its exit code and what
              \*   a stop is told to stop
    tracing,  \* per job, the name of its target while it is traced (external)
    file,     \* per job, its .run file (external)
    failed,   \* history: tools on which an operating system call failed
    struck    \* history: <<i, j>>, the stop of i ended the tracing of j, a
              \*   recording that was in progress

vars == <<active, call, proc, tracing, file, failed, struck>>

Tools == {"record", "stop"}   \* the two invocations of run_ttd_process
StillActive == 259            \* STILL_ACTIVE_EXIT
ExitCodes == {0, 1, StillActive}
NoCode == 1000                \* None

\* TtdTarget; a launched path without a file name is one that is no file.
Targets ==
    [kind : {"launch"}, name : Names \cup {NoName}, pid : {0}]
        \cup [kind : {"attach"}, name : {NoName}, pid : {0, 1}]
        \cup [kind : {"monitor"}, name : Names, pid : {0}]
NoTarget == [kind |-> "none", name |-> NoName, pid |-> 0]

StopTargets == {"none", "process", "all"} \cup Names
PC == {"idle", "artifacts", "spawn", "poll", "kill", "wait", "collect", "done"}
Status == {"none", "Err", "Completed", "TimedOut", "Failed"}
Idle == [pc |-> "idle", target |-> NoTarget, tool |-> "record",
         stop |-> "none", timedOut |-> FALSE, code |-> NoCode,
         runError |-> FALSE, status |-> "none"]
Process(state, code, stop) == [state |-> state, code |-> code, stop |-> stop]
NotStarted == Process("none", NoCode, "none")
NotTraced == {"none", "off"}   \* not yet, no more

Calls == [pc : PC, target : Targets \cup {NoTarget}, tool : Tools,
          stop : StopTargets, timedOut : BOOLEAN, code : ExitCodes \cup {NoCode},
          runError : BOOLEAN, status : Status]
Processes == [state : {"none", "running", "exited"}, code : ExitCodes \cup {NoCode},
              stop : StopTargets]

\* The slot, the calls, the processes and what the operating system keeps.
TypeOK ==
    /\ active \in Jobs \cup {NoJob}
    /\ call \in [Jobs -> Calls]
    /\ proc \in [Jobs -> [Tools -> Processes]]
    /\ tracing \in [Jobs -> Names \cup NotTraced]
    /\ file \in [Jobs -> {"none", "partial", "complete"}]
    /\ failed \in [Jobs -> SUBSET Tools]
    /\ struck \in SUBSET (Jobs \X Jobs)

Init ==
    /\ active = NoJob
    /\ call = [j \in Jobs |-> Idle]
    /\ proc = [j \in Jobs |-> [t \in Tools |-> NotStarted]]
    /\ tracing = [j \in Jobs |-> "none"]
    /\ file = [j \in Jobs |-> "none"]
    /\ failed = [j \in Jobs |-> {}]
    /\ struck = {}

Running(j, t) == proc[j][t].state = "running"

-----------------------------------------------------------------------------
(* Validation and the stop target *)

validate_ttd_target(t) ==
    CASE t.kind = "launch" -> t.name # NoName
      [] t.kind = "attach" -> t.pid > 0
      [] OTHER -> TRUE

\* What TTD.exe -stop is told to stop: every recording, a process, or all
\* processes of a name.
ttd_stop_target(t, pidKnown) ==
    IF t.kind = "monitor" THEN "all"
    ELSE IF t.kind = "attach" \/ pidKnown THEN "process"
    ELSE IF t.name # NoName THEN t.name ELSE "none"

\* The recordings that a stop of job j reaches (external).
Reached(j) ==
    {i \in Jobs :
        /\ tracing[i] \notin NotTraced
        /\ \/ i = j
           \/ proc[j]["stop"].stop = "all"
           \/ proc[j]["stop"].stop = tracing[i]}

-----------------------------------------------------------------------------
(* record_ttd: from the request to the recorder *)

\* A request that is invalid or finds the slot taken is refused: not a step.
\* (Mutant: the slot is not looked at.)
StartAnyway(j, t) ==
    /\ call[j].pc = "idle" /\ validate_ttd_target(t)
    /\ active' = j
    /\ call' = [call EXCEPT ![j].pc = "artifacts", ![j].target = t]
    /\ UNCHANGED <<proc, tracing, file, failed, struck>>
Start(j, t) ==
    /\ call[j].pc = "idle" /\ validate_ttd_target(t)
    /\ active = NoJob /\ active' = j
    /\ call' = [call EXCEPT ![j].pc = "artifacts", ![j].target = t]
    /\ UNCHANGED <<proc, tracing, file, failed, struck>>

\* Every return drops the guard, which frees the slot if it is its own.
Return(j, status) ==
    /\ call' = [call EXCEPT ![j] = [Idle EXCEPT !.pc = "done", !.status = status,
                                                !.runError = call[j].runError]]
    /\ active' = IF active = j THEN NoJob ELSE active

InitializeArtifacts(j) ==
    /\ call[j].pc = "artifacts"
    /\ \/ call' = [call EXCEPT ![j].pc = "spawn"] /\ UNCHANGED active
       \/ Return(j, "Err")
    /\ UNCHANGED <<proc, tracing, file, failed, struck>>

-----------------------------------------------------------------------------
(* run_ttd_process *)

\* What record_ttd does with the result of either invocation.  A recorder that
\* was killed is followed by the stop; its output may name the process that it
\* recorded (parse_first_recorded_pid).
Exited(j, code, timedOut) ==
    \/ call[j].tool = "stop" /\ call' = [call EXCEPT ![j].pc = "collect"]
    \/ /\ call[j].tool = "record" /\ ~timedOut
       /\ call' = [call EXCEPT ![j].pc = "collect", ![j].code = code]
    \/ /\ call[j].tool = "record" /\ timedOut
       /\ \E pidKnown \in {b \in BOOLEAN : b => tracing[j] # "none"} :
             call' = [call EXCEPT
                         ![j].pc = "spawn", ![j].tool = "stop",
                         ![j].code = code, ![j].timedOut = TRUE,
                         ![j].stop = ttd_stop_target(call[j].target, pidKnown)]
ToolError(j) ==
    call' = [call EXCEPT ![j].pc = "collect",
                         ![j].runError = @ \/ call[j].tool = "record"]

\* A stop with no target is skipped.
Spawn(j) ==
    /\ call[j].pc = "spawn"
    /\ \/ /\ call[j].tool = "stop" => call[j].stop # "none"
          /\ proc' = [proc EXCEPT ![j][call[j].tool] =
                                    Process("running", NoCode, call[j].stop)]
          /\ call' = [call EXCEPT ![j].pc = "poll"]
       \/ ToolError(j) /\ UNCHANGED proc
    /\ UNCHANGED <<active, tracing, file, failed, struck>>

\* try_wait reports an exit, unless the exit code is the one that the
\* operating system uses for a process that has not exited.
try_wait(j) ==
    LET p == proc[j][call[j].tool]
    IN  p.state = "exited" /\ p.code # StillActive

PollExit(j) ==
    /\ call[j].pc = "poll" /\ try_wait(j)
    /\ Exited(j, proc[j][call[j].tool].code, FALSE)
    /\ UNCHANGED <<active, proc, tracing, file, failed, struck>>

\* An error of try_wait returns at once; the process is let go.
PollError(j) ==
    /\ call[j].pc = "poll" /\ j \in Frail
    /\ ToolError(j)
    /\ failed' = [failed EXCEPT ![j] = @ \cup {call[j].tool}]
    /\ UNCHANGED <<active, proc, tracing, file, struck>>

\* (Mutant: the deadline moves with every poll.)
PollForever(j) == FALSE /\ PollExit(j)
PollDeadline(j) ==
    /\ call[j].pc = "poll" /\ ~try_wait(j)
    /\ call' = [call EXCEPT ![j].pc = "kill"]
    /\ UNCHANGED <<active, proc, tracing, file, failed, struck>>

\* The process may have exited since it was polled; an error is ignored.
\* (Mutant: the process is left to itself at the deadline.)
KillSkipped(j) ==
    /\ call[j].pc = "kill"
    /\ Exited(j, NoCode, TRUE)
    /\ UNCHANGED <<active, proc, tracing, file, failed, struck>>
Kill(j) ==
    /\ call[j].pc = "kill"
    /\ LET t == call[j].tool
       IN  \/ /\ proc' = IF Running(j, t)
                         THEN [proc EXCEPT ![j][t] = Process("exited", 1, "none")]
                         ELSE proc
              /\ UNCHANGED failed
           \/ /\ j \in Frail /\ Running(j, t)
              /\ failed' = [failed EXCEPT ![j] = @ \cup {t}]
              /\ UNCHANGED proc
    /\ call' = [call EXCEPT ![j].pc = "wait"]
    /\ UNCHANGED <<active, tracing, file, struck>>

\* Waiting has no timeout, and ends with the process or with an error.
Wait(j) ==
    /\ call[j].pc = "wait"
    /\ LET p == proc[j][call[j].tool]
       IN  \/ /\ p.state = "exited"
              /\ Exited(j, IF p.code = StillActive THEN NoCode ELSE p.code, TRUE)
              /\ UNCHANGED failed
           \/ /\ j \in Frail
              /\ Exited(j, NoCode, TRUE)
              /\ failed' = [failed EXCEPT ![j] = @ \cup {call[j].tool}]
    /\ UNCHANGED <<active, proc, tracing, file, struck>>

-----------------------------------------------------------------------------
(* The result *)

\* (Mutant: a trace is taken for a success, whatever the exit code.)
result_status_by_trace(j) ==
    IF call[j].runError THEN "Failed"
    ELSE IF call[j].timedOut THEN "TimedOut"
    ELSE IF file[j] = "none" THEN "Failed" ELSE "Completed"
result_status(j) ==
    IF call[j].runError THEN "Failed"
    ELSE IF call[j].timedOut THEN "TimedOut"
    ELSE IF call[j].code \notin {0, NoCode} \/ file[j] = "none"
         THEN "Failed" ELSE "Completed"

\* discover_ttd_artifacts or write_metadata may fail.
Collect(j) ==
    /\ call[j].pc = "collect"
    /\ \E status \in {result_status(j), "Err"} : Return(j, status)
    /\ UNCHANGED <<proc, tracing, file, failed, struck>>

-----------------------------------------------------------------------------
(* TTD.exe and the target (external) *)

TracingBegins(j) ==
    /\ Running(j, "record") /\ tracing[j] = "none"
    /\ \E n \in Names : tracing' = [tracing EXCEPT ![j] = n]
    /\ file' = [file EXCEPT ![j] = "partial"]
    /\ UNCHANGED <<active, call, proc, failed, struck>>

TracingEnds(S) ==
    /\ tracing' = [j \in Jobs |-> IF j \in S THEN "off" ELSE tracing[j]]
    /\ file' = [j \in Jobs |-> IF j \in S THEN "complete" ELSE file[j]]

TargetExits(j) ==
    /\ tracing[j] \notin NotTraced /\ TracingEnds({j})
    /\ UNCHANGED <<active, call, proc, failed, struck>>

StopActs(j) ==
    /\ Running(j, "stop") /\ Reached(j) # {} /\ TracingEnds(Reached(j))
    /\ struck' = struck \cup {<<j, i>> : i \in {k \in Reached(j) \ {j} :
                                               call[k].pc # "done"}}
    /\ UNCHANGED <<active, call, proc, failed>>

\* The recorder reports success only when nothing is traced any more.
ToolExits(j, t, code) ==
    /\ Running(j, t)
    /\ t = "record" /\ code = 0 => tracing[j] \in NotTraced
    /\ proc' = [proc EXCEPT ![j][t] = Process("exited", code, "none")]
    /\ UNCHANGED <<active, call, tracing, file, failed, struck>>

-----------------------------------------------------------------------------
(* The specification *)

CallStep(j) ==
    \/ InitializeArtifacts(j) \/ Spawn(j) \/ PollExit(j) \/ PollError(j)
    \/ PollDeadline(j) \/ Kill(j) \/ Wait(j) \/ Collect(j)

Next ==
    \E j \in Jobs :
        \/ \E t \in Targets : Start(j, t)
        \/ CallStep(j)
        \/ TracingBegins(j) \/ TargetExits(j) \/ StopActs(j)
        \/ \E c \in ExitCodes : ToolExits(j, "record", c)
        \/ ToolExits(j, "stop", 0)

\* The thread of a call is scheduled and its clock advances.  Nothing is
\* assumed of TTD.exe or of the target.
Spec == Init /\ [][Next]_vars
FairSpec == Spec /\ \A j \in Jobs : WF_vars(CallStep(j))

-----------------------------------------------------------------------------
(* Properties *)

\* A TTD process runs outside of the slot of its job only if the operating
\* system refused to poll, kill or wait for it: no return of record_ttd just
\* leaves one behind.  At most one recorder runs otherwise.
SlotCoversProcesses ==
    \A j \in Jobs, t \in Tools : Running(j, t) /\ active # j => t \in failed[j]

\* The stop of a recording, which may go by name or reach everything that is
\* recorded, ends no other recording that is in progress, unless the stop
\* tool itself got out of hand.
NoCrossStop == \A p \in struck : "stop" \in failed[p[1]] \/ "record" \in failed[p[2]]

\* A recording that timed out was told to stop: there always is a target for
\* the stop, and only a failure to start the tool leaves it out.
StopHasTarget ==
    \A j \in Jobs : call[j].tool = "stop" => call[j].stop # "none"

\* The processes of a job, as record_ttd starts, stops and leaves them.
ProcessInv == TypeOK /\ SlotCoversProcesses /\ StopHasTarget

\* What the status says is so.  Completed: the recorder ended by itself with
\* success, and its trace is whole.  Failed without an error of the operating
\* system: the recorder has ended, and not by the hand of record_ttd.
StatusIsTrue ==
    \A j \in Jobs :
        LET r == proc[j]["record"]
        IN  /\ call[j].status = "Completed" => r.code = 0 /\ file[j] = "complete"
            /\ call[j].status = "Failed" /\ ~call[j].runError =>
                    r.state = "exited" /\ proc[j]["stop"].state = "none"

\* The slot is given back, however long the target runs, unless the recorder
\* cannot be killed.
SlotReturned ==
    \A j \in Jobs : active = j ~> active # j \/ failed[j] # {}
=============================================================================
