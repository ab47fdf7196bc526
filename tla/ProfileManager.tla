--------------------------- MODULE ProfileManager ---------------------------
(***************************************************************************)
(* Profile jobs (crates/dbgflow-trace/src/profile): run_profile owns the   *)
(* single job slot from its start to its return, starts the collectors of  *)
(* the request in order, launches the target, waits for its exit or the    *)
(* timeout, and stops the collectors in reverse order.  ETW sessions are   *)
(* objects of the operating system: one that is not stopped goes on.       *)
(***************************************************************************)
EXTENDS Naturals, Sequences, FiniteSets

CONSTANTS
    Jobs,    \* profile ids, one per call of run_profile
    Kinds,   \* collector kinds; NativeEtw is the only one the server offers
    NoJob

ASSUME ConstantsAssumption == NoJob \notin Jobs /\ IsFiniteSet(Kinds)

VARIABLES
    active,      \* SingleActiveJob::active
    pc, req,     \* of a job: where it is, its collectors
    started,     \*   how many of them are in started_collectors
    exit,        \*   target_exit
    stopError,   \*   stop_error is set
    completed,   \*   collectors with status Completed in collector_results
    processed,   \*   collectors that knew the target when they processed their trace
    outcome,     \*   what run_profile returned
    trace,       \*   its ETW sessions that run
    tried,       \*   ETW sessions that it tried to stop
    proc         \*   its target process

jobVars == <<req, started, exit, stopError, completed, processed, outcome>>
vars == <<active, pc, jobVars, trace, tried, proc>>

\* reject_duplicate_collectors, and a request without collectors gets the
\* default one.
Requests ==
    {q \in UNION {[1..m -> Kinds] : m \in 1..Cardinality(Kinds)} :
        \A a, b \in DOMAIN q : q[a] = q[b] => a = b}
Collectors(j) == {req[j][i] : i \in DOMAIN req[j]}

PC == {"idle", "artifacts", "start", "undo", "wait", "stop", "done"}
Status == {"none", "Err", "Completed", "TimedOut", "Failed"}
NoOutcome == [status |-> "none", error |-> FALSE]

\* The shape of the slot, the jobs and what they keep of their collectors.
TypeOK ==
    /\ active \in Jobs \cup {NoJob}
    /\ pc \in [Jobs -> PC]
    /\ req \in [Jobs -> Requests \cup {<<>>}]
    /\ started \in [Jobs -> Nat]
    /\ exit \in [Jobs -> {"none", "Exited", "TimedOut", "Error"}]
    /\ stopError \in [Jobs -> BOOLEAN]
    /\ outcome \in [Jobs -> [status : Status, error : BOOLEAN]]
    /\ proc \in [Jobs -> {"none", "running", "ended"}]
    /\ completed \in [Jobs -> SUBSET Kinds]
    /\ processed \in [Jobs -> SUBSET Kinds]
    /\ trace \in [Jobs -> SUBSET Kinds]
    /\ tried \in [Jobs -> SUBSET Kinds]
    /\ \A j \in Jobs : started[j] <= Len(req[j])

Init ==
    /\ active = NoJob
    /\ pc = [j \in Jobs |-> "idle"]
    /\ req = [j \in Jobs |-> <<>>]
    /\ started = [j \in Jobs |-> 0]
    /\ exit = [j \in Jobs |-> "none"]
    /\ stopError = [j \in Jobs |-> FALSE]
    /\ completed = [j \in Jobs |-> {}]
    /\ processed = [j \in Jobs |-> {}]
    /\ outcome = [j \in Jobs |-> NoOutcome]
    /\ trace = [j \in Jobs |-> {}]
    /\ tried = [j \in Jobs |-> {}]
    /\ proc = [j \in Jobs |-> "none"]

-----------------------------------------------------------------------------
(* SingleActiveJob *)

\* A job that finds the slot taken is refused: not a step.
start_job(j) ==
    /\ active = NoJob
    /\ active' = j

\* The guard gives the slot back if it is still that of its job.
drop_guard(j) == active' = IF active = j THEN NoJob ELSE active

Return(j, status, error) ==
    /\ pc' = [pc EXCEPT ![j] = "done"]
    /\ outcome' = [outcome EXCEPT ![j] = [status |-> status, error |-> error]]
    /\ drop_guard(j)

-----------------------------------------------------------------------------
(* NativeEtwCollector *)

Trace(j, ks) == trace' = [trace EXCEPT ![j] = ks]
Tried(j, k) == tried' = [tried EXCEPT ![j] = @ \cup {k}]

\* start_trace_session fails: StartTraceW does, or stack tracing cannot be
\* enabled and the session is stopped again, which may fail.  Its name is not
\* kept, so that cleanup finds nothing to stop.
start_trace_session_fails(j, k) ==
    \/ UNCHANGED <<trace, tried>>
    \/ Tried(j, k) /\ \E left \in SUBSET {k} : Trace(j, trace[j] \cup left)

\* stop: the session ends and its trace is post-processed if a pid is known,
\* by target_started or else from the caller.
\* (Mutant: the pid of target_started is not kept.)
collector_stop_unnotified(j, k, pid) ==
    /\ Trace(j, trace[j] \ {k}) /\ Tried(j, k)
    /\ completed' = [completed EXCEPT ![j] = @ \cup {k}]
    /\ processed' = IF pid THEN [processed EXCEPT ![j] = @ \cup {k}] ELSE processed
collector_stop(j, k, pid) ==
    /\ Trace(j, trace[j] \ {k}) /\ Tried(j, k)
    /\ completed' = [completed EXCEPT ![j] = @ \cup {k}]
    /\ processed' = IF proc[j] # "none" \/ pid
                    THEN [processed EXCEPT ![j] = @ \cup {k}]
                    ELSE processed

\* stop_trace_session fails.  With cleanup it is tried once more.
collector_stop_fails(j, k) == Tried(j, k) /\ UNCHANGED trace
cleanup(j, k) == \E left \in SUBSET {k} : Trace(j, (trace[j] \ {k}) \cup left)

-----------------------------------------------------------------------------
(* run_profile *)

Start(j, q) ==
    /\ pc[j] = "idle"
    /\ start_job(j)
    /\ pc' = [pc EXCEPT ![j] = "artifacts"]
    /\ req' = [req EXCEPT ![j] = q]
    /\ UNCHANGED <<started, exit, stopError, completed, processed, outcome,
                   trace, tried, proc>>

\* The profile directory and the empty output files.
CreateArtifacts(j) ==
    /\ pc[j] = "artifacts"
    /\ \/ pc' = [pc EXCEPT ![j] = "start"] /\ UNCHANGED <<active, outcome>>
       \/ Return(j, "Err", TRUE)
    /\ UNCHANGED <<req, started, exit, stopError, completed, processed,
                   trace, tried, proc>>

StartCollector(j) ==
    /\ pc[j] = "start" /\ started[j] < Len(req[j])
    /\ Trace(j, trace[j] \cup {req[j][started[j] + 1]})
    /\ started' = [started EXCEPT ![j] = @ + 1]
    /\ UNCHANGED <<active, pc, req, exit, stopError, completed, processed,
                   outcome, tried, proc>>

\* Its directory cannot be made, it cannot be created, or start fails.
StartCollectorFails(j) ==
    /\ pc[j] = "start" /\ started[j] < Len(req[j])
    /\ start_trace_session_fails(j, req[j][started[j] + 1])
    /\ pc' = [pc EXCEPT ![j] = "undo"]
    /\ UNCHANGED <<active, jobVars, proc>>

\* stop_started_collectors_for_start_failure.
\* (Mutant: they are dropped, not stopped.)
UndoNothing(j) ==
    /\ pc[j] = "undo" /\ started[j] > 0
    /\ started' = [started EXCEPT ![j] = 0]
    /\ UNCHANGED <<active, pc, req, exit, stopError, completed, processed,
                   outcome, trace, tried, proc>>
UndoCollector(j) ==
    /\ pc[j] = "undo" /\ started[j] > 0
    /\ LET k == req[j][started[j]]
       IN  \/ collector_stop(j, k, FALSE)
           \/ collector_stop_fails(j, k) /\ UNCHANGED <<completed, processed>>
    /\ started' = [started EXCEPT ![j] = @ - 1]
    /\ UNCHANGED <<active, pc, req, exit, stopError, outcome, proc>>

\* finish_failed_profile.
UndoDone(j) ==
    /\ pc[j] = "undo" /\ started[j] = 0
    /\ Return(j, "Err", TRUE)
    /\ UNCHANGED <<req, started, exit, stopError, completed, processed,
                   trace, tried, proc>>

\* launch_and_wait: the target is spawned and target_started tells every
\* collector its pid, or it is not spawned.
Launch(j) ==
    /\ pc[j] = "start" /\ started[j] = Len(req[j])
    /\ \/ /\ proc' = [proc EXCEPT ![j] = "running"]
          /\ pc' = [pc EXCEPT ![j] = "wait"]
          /\ UNCHANGED exit
       \/ /\ exit' = [exit EXCEPT ![j] = "Error"]
          /\ pc' = [pc EXCEPT ![j] = "stop"]
          /\ UNCHANGED proc
    /\ UNCHANGED <<active, req, started, stopError, completed, processed,
                   outcome, trace, tried>>

\* The loop around try_wait, which may fail: at the deadline at the latest it
\* ends.  A target that timed out is left running.
\* (Mutant: there is no deadline.)
WaitForExit(j) ==
    /\ pc[j] = "wait" /\ proc[j] = "ended"
    /\ exit' = [exit EXCEPT ![j] = "Exited"]
    /\ pc' = [pc EXCEPT ![j] = "stop"]
    /\ UNCHANGED <<active, req, started, stopError, completed, processed,
                   outcome, trace, tried, proc>>
\* A target that exits with STILL_ACTIVE is taken to be running.
Wait(j) ==
    /\ pc[j] = "wait"
    /\ \E e \in {"Error", "TimedOut"} \cup {x \in {"Exited"} : proc[j] = "ended"} :
          exit' = [exit EXCEPT ![j] = e]
    /\ pc' = [pc EXCEPT ![j] = "stop"]
    /\ UNCHANGED <<active, req, started, stopError, completed, processed,
                   outcome, trace, tried, proc>>

TargetExits(j) ==
    /\ proc[j] = "running"
    /\ proc' = [proc EXCEPT ![j] = "ended"]
    /\ UNCHANGED <<active, pc, jobVars, trace, tried>>

\* stop of the collector that was started last, and cleanup if it fails.
\* (Mutant: an earlier stop error is forgotten.)
StopCollectorForgets(j) ==
    /\ pc[j] = "stop" /\ started[j] > 0
    /\ LET k == req[j][started[j]]
       IN  \/ /\ collector_stop(j, k, exit[j] # "Error")
              /\ stopError' = [stopError EXCEPT ![j] = FALSE]
           \/ /\ Tried(j, k) /\ cleanup(j, k)
              /\ stopError' = [stopError EXCEPT ![j] = TRUE]
              /\ UNCHANGED <<completed, processed>>
    /\ started' = [started EXCEPT ![j] = @ - 1]
    /\ UNCHANGED <<active, pc, req, exit, outcome, proc>>
StopCollector(j) ==
    /\ pc[j] = "stop" /\ started[j] > 0
    /\ LET k == req[j][started[j]]
       IN  \/ /\ collector_stop(j, k, exit[j] # "Error")
              /\ UNCHANGED stopError
           \/ /\ Tried(j, k) /\ cleanup(j, k)
              /\ stopError' = [stopError EXCEPT ![j] = TRUE]
              /\ UNCHANGED <<completed, processed>>
    /\ started' = [started EXCEPT ![j] = @ - 1]
    /\ UNCHANGED <<active, pc, req, exit, outcome, proc>>

\* The result, if the metadata can be written.
Finish(j) ==
    /\ pc[j] = "stop" /\ started[j] = 0
    /\ \/ Return(j, CASE exit[j] = "Exited" -> "Completed"
                      [] exit[j] = "TimedOut" -> "TimedOut"
                      [] OTHER -> "Failed",
                 stopError[j] \/ exit[j] = "Error")
       \/ Return(j, "Err", TRUE)
    /\ UNCHANGED <<req, started, exit, stopError, completed, processed,
                   trace, tried, proc>>

-----------------------------------------------------------------------------
(* The specification *)

JobStep(j) ==
    \/ CreateArtifacts(j) \/ StartCollector(j) \/ StartCollectorFails(j)
    \/ UndoCollector(j) \/ UndoDone(j) \/ Launch(j) \/ Wait(j)
    \/ StopCollector(j) \/ Finish(j)

Next ==
    \E j \in Jobs :
        \/ \E q \in Requests : Start(j, q)
        \/ JobStep(j) \/ TargetExits(j)

\* The thread of a call is scheduled; Wait needs no exit of the target.
Spec == Init /\ [][Next]_vars
FairSpec == Spec /\ \A j \in Jobs : WF_vars(JobStep(j))

-----------------------------------------------------------------------------
(* Properties *)

\* Every path after a start tries to stop collection: an ETW session that
\* runs for a job that is over is one whose stop was tried and failed.  Two
\* jobs collect at once only then.
StrayWasTried == \A j \in Jobs : active # j => trace[j] \subseteq tried[j]

\* The target runs under observation from its launch to the end of the wait:
\* all collectors of the request were started, none was stopped.
TargetObserved == \A j \in Jobs : pc[j] = "wait" => trace[j] = Collectors(j)

\* A result without an error is complete: the target ran, every session ended
\* and every trace was handed to post-processing with the pid of the target.
CleanResult ==
    \A j \in Jobs :
        outcome[j].status \in {"Completed", "TimedOut", "Failed"} /\ ~outcome[j].error =>
            /\ trace[j] = {} /\ processed[j] = Collectors(j)
            /\ outcome[j].status = "Completed" => proc[j] = "ended"

\* A collector that is reported as Completed has processed its trace for the
\* target if there was one, even if the wait for the target failed.
CompletedIsProcessed ==
    \A j \in Jobs : proc[j] # "none" => completed[j] \subseteq processed[j]

\* The slot belongs to the one job that is in progress, on every path.
SlotIsOwned ==
    \A j \in Jobs : active = j <=> pc[j] \notin {"idle", "done"}

\* The slot is given back, whatever fails and however long the target runs.
SlotReturned == \A j \in Jobs : active = j ~> active = NoJob
=============================================================================
