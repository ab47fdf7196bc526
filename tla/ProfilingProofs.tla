----------------------------- MODULE ProfilingProofs -----------------------------
(* Profiling.  The first part is about the jobs: the slot, the trace         *)
(* sessions of a job that is over, and the completeness of a result without  *)
(* an error, for any number of jobs and collector kinds.  The second part is *)
(* about the collector that processes the trace of such a job: the accounts  *)
(* of its summary and what it attributes to the target, for traces of any    *)
(* length, any sets of packets, objects, paths and images, and any losses.   *)
EXTENDS ProfileManager, EtwProcessor, FiniteSetTheorems, WellFoundedInduction, TLAPS

\* The collectors in started_collectors, and those that are out of it again.
Live(j) == {req[j][i] : i \in 1..started[j]}
Stopped(j) == {req[j][i] : i \in (started[j] + 1)..Len(req[j])}

\* Up to the launch of the target nothing was stopped.
BeforeInv(j) ==
    /\ pc[j] \in {"idle", "artifacts", "start", "undo"} =>
          proc[j] = "none" /\ processed[j] = {} /\ exit[j] = "none"
    /\ pc[j] \in {"idle", "artifacts", "start", "wait"} =>
          completed[j] = {} /\ processed[j] = {} /\ ~stopError[j]
    /\ pc[j] \in {"idle", "artifacts"} => started[j] = 0
    /\ pc[j] = "wait" => started[j] = Len(req[j]) /\ proc[j] # "none"

\* A trace session runs for a collector that is started or whose stop failed.
TraceInv(j) ==
    /\ trace[j] \subseteq tried[j] \cup Live(j)
    /\ pc[j] \in {"idle", "artifacts", "start", "wait"} => trace[j] = Live(j)
    /\ pc[j] \in {"idle", "done"} => started[j] = 0

\* While the collectors are stopped, and no stop failed.
StopInv(j) ==
    pc[j] = "stop" =>
        /\ exit[j] \in {"Exited", "TimedOut", "Error"}
        /\ exit[j] = "Exited" => proc[j] = "ended"
        /\ exit[j] # "Error" => proc[j] # "none"
        /\ ~stopError[j] => trace[j] = Live(j)
        /\ ~stopError[j] /\ exit[j] # "Error" => processed[j] = Stopped(j)

\* The part of a job in CompletedIsProcessed and in CleanResult.
ResultInv(j) ==
    /\ proc[j] # "none" => completed[j] \subseteq processed[j]
    /\ outcome[j].status # "none" => pc[j] = "done"
    /\ outcome[j].status \in {"Completed", "TimedOut", "Failed"} /\ ~outcome[j].error =>
          /\ trace[j] = {} /\ processed[j] = Collectors(j)
          /\ outcome[j].status = "Completed" => proc[j] = "ended"

JobInv(j) == BeforeInv(j) /\ TraceInv(j) /\ StopInv(j) /\ ResultInv(j)

IndInv ==
    /\ TypeOK
    /\ SlotIsOwned
    /\ \A j \in Jobs : JobInv(j)

-----------------------------------------------------------------------------
(* Requests and the collectors of a job *)

\* A request is a sequence of distinct collector kinds.
LEMMA ReqFacts ==
    ASSUME NEW q \in Requests \cup {<<>>}
    PROVE  /\ q \in Seq(Kinds)
           /\ \A a, b \in 1..Len(q) : q[a] = q[b] => a = b
<1>1. CASE q = <<>>
    BY <1>1
<1>2. CASE q \in Requests
  <2>1. Cardinality(Kinds) \in Nat
    BY ConstantsAssumption, FS_CardinalityType
  <2>2. PICK m \in 1..Cardinality(Kinds) : q \in [1..m -> Kinds]
    BY <1>2 DEF Requests
  <2>3. q \in Seq(Kinds) /\ Len(q) = m
    BY <2>1, <2>2
  <2> QED
    BY <1>2, <2>2, <2>3 DEF Requests
<1> QED
    BY <1>1, <1>2

\* No collector left, all of them, and the one on top of started_collectors.
LEMMA LiveFacts ==
    ASSUME TypeOK, NEW j \in Jobs
    PROVE  /\ started[j] = 0 => Live(j) = {} /\ Stopped(j) = Collectors(j)
           /\ started[j] = Len(req[j]) => Live(j) = Collectors(j) /\ Stopped(j) = {}
           /\ started[j] > 0 => req[j][started[j]] \in Kinds
           /\ started[j] < Len(req[j]) => req[j][started[j] + 1] \in Kinds
<1>1. req[j] \in Seq(Kinds) /\ Len(req[j]) \in Nat /\ DOMAIN req[j] = 1..Len(req[j])
    BY ReqFacts DEF TypeOK
<1>2. started[j] \in Nat /\ started[j] <= Len(req[j])
    BY DEF TypeOK
<1> QED
    BY <1>1, <1>2 DEF Live, Stopped, Collectors

\* started_collectors.push.
LEMMA LiveGrows ==
    ASSUME TypeOK, NEW j \in Jobs, started[j] < Len(req[j]), req' = req,
           started'[j] = started[j] + 1
    PROVE  Live(j)' = Live(j) \cup {req[j][started[j] + 1]}
<1>1. started[j] \in Nat
    BY DEF TypeOK
<1> QED
    BY <1>1 DEF Live

\* started_collectors.pop, or the loop in reverse order.
LEMMA LiveShrinks ==
    ASSUME TypeOK, NEW j \in Jobs, started[j] > 0, req' = req,
           started'[j] = started[j] - 1
    PROVE  /\ Live(j)' = Live(j) \ {req[j][started[j]]}
           /\ Stopped(j)' = Stopped(j) \cup {req[j][started[j]]}
<1>1. started[j] \in Nat /\ started[j] <= Len(req[j]) /\ Len(req[j]) \in Nat
    BY ReqFacts DEF TypeOK
<1>2. \A a, b \in 1..Len(req[j]) : req[j][a] = req[j][b] => a = b
    BY ReqFacts DEF TypeOK
<1>3. Live(j)' = Live(j) \ {req[j][started[j]]}
    BY <1>1, <1>2 DEF Live
<1>4. Stopped(j)' = Stopped(j) \cup {req[j][started[j]]}
    BY <1>1 DEF Stopped
<1> QED
    BY <1>3, <1>4

\* A job that takes no part in a step.
LEMMA Frame ==
    ASSUME NEW j \in Jobs, JobInv(j),
           pc'[j] = pc[j], req'[j] = req[j], started'[j] = started[j],
           exit'[j] = exit[j], stopError'[j] = stopError[j],
           completed'[j] = completed[j], processed'[j] = processed[j],
           outcome'[j] = outcome[j], trace'[j] = trace[j],
           tried'[j] = tried[j], proc'[j] = proc[j]
    PROVE  JobInv(j)'
<1>1. Live(j)' = Live(j) /\ Stopped(j)' = Stopped(j) /\ Collectors(j)' = Collectors(j)
    BY DEF Live, Stopped, Collectors
<1> QED
    BY <1>1 DEF JobInv, BeforeInv, TraceInv, StopInv, ResultInv

-----------------------------------------------------------------------------
(* The steps of a job *)

\* run_profile takes the slot: the job has no collector yet.
LEMMA StartInd ==
    ASSUME IndInv, NEW j \in Jobs, NEW q \in Requests, Start(j, q)
    PROVE  IndInv'
<1> USE ConstantsAssumption DEF IndInv, Start, start_job
<1>1. TypeOK'
  <2>1. /\ req' \in [Jobs -> Requests \cup {<<>>}]
        /\ \A i \in Jobs : started[i] <= Len(req'[i])
    BY ReqFacts DEF TypeOK, BeforeInv, JobInv
  <2> QED
    BY <2>1 DEF TypeOK, PC
<1>2. SlotIsOwned'
    BY DEF TypeOK, SlotIsOwned
<1>3. ASSUME NEW i \in Jobs \ {j} PROVE JobInv(i)'
    BY Frame
<1>4. Live(j)' = {} /\ Live(j) = {}
    BY DEF Live, BeforeInv, JobInv
<1>5. JobInv(j)'
  <2>1. BeforeInv(j)'
    BY DEF BeforeInv, JobInv
  <2>2. TraceInv(j)'
    BY <1>4 DEF TraceInv, JobInv
  <2>3. StopInv(j)'
    BY DEF StopInv, JobInv
  <2>4. ResultInv(j)'
    BY DEF ResultInv, JobInv
  <2> QED
    BY <2>1, <2>2, <2>3, <2>4 DEF JobInv
<1> QED
    BY <1>1, <1>2, <1>3, <1>5

\* The directory and the output files of the job, or an early return.
LEMMA CreateArtifactsInd ==
    ASSUME IndInv, NEW j \in Jobs, CreateArtifacts(j)
    PROVE  IndInv'
<1> USE ConstantsAssumption DEF IndInv, CreateArtifacts, drop_guard, Return
<1>1. TypeOK'
  <2>1. CASE pc' = [pc EXCEPT ![j] = "start"] /\ UNCHANGED <<active, outcome>>
    BY <2>1 DEF TypeOK, PC
  <2>2. CASE Return(j, "Err", TRUE)
    BY <2>2 DEF TypeOK, PC, Status
  <2> QED
    BY <2>1, <2>2
<1>2. SlotIsOwned'
    BY DEF TypeOK, SlotIsOwned
<1>3. ASSUME NEW i \in Jobs \ {j} PROVE JobInv(i)'
    BY Frame DEF TypeOK
<1>4. Live(j)' = Live(j) /\ Stopped(j)' = Stopped(j) /\ Collectors(j)' = Collectors(j)
    BY DEF Live, Stopped, Collectors
<1>5. JobInv(j)'
  <2>1. BeforeInv(j)'
    BY DEF TypeOK, BeforeInv, JobInv
  <2>2. TraceInv(j)'
    BY <1>4 DEF BeforeInv, TraceInv, JobInv
  <2>3. StopInv(j)'
    BY DEF TypeOK, StopInv, JobInv
  <2>4. ResultInv(j)'
    BY <1>4 DEF TypeOK, ResultInv, JobInv
  <2> QED
    BY <2>1, <2>2, <2>3, <2>4 DEF JobInv
<1> QED
    BY <1>1, <1>2, <1>3, <1>5

\* A collector starts: its ETW session is one of a live collector.
LEMMA StartCollectorInd ==
    ASSUME IndInv, NEW j \in Jobs, StartCollector(j)
    PROVE  IndInv'
<1> USE ConstantsAssumption DEF IndInv, StartCollector, Trace
<1>1. TypeOK'
    BY LiveFacts DEF TypeOK
<1>2. SlotIsOwned'
    BY DEF SlotIsOwned
<1>3. ASSUME NEW i \in Jobs \ {j} PROVE JobInv(i)'
    BY Frame
<1>4. Live(j)' = Live(j) \cup {req[j][started[j] + 1]}
    BY LiveGrows DEF TypeOK
<1>5. JobInv(j)'
  <2>1. BeforeInv(j)'
    BY DEF BeforeInv, JobInv
  <2>2. TraceInv(j)'
    BY <1>4 DEF TypeOK, TraceInv, JobInv
  <2>3. StopInv(j)'
    BY DEF StopInv, JobInv
  <2>4. ResultInv(j)'
    BY DEF ResultInv, JobInv
  <2> QED
    BY <2>1, <2>2, <2>3, <2>4 DEF JobInv
<1> QED
    BY <1>1, <1>2, <1>3, <1>5

\* A collector that cannot be started leaves at most a session that it tried
\* to stop.
LEMMA StartCollectorFailsInd ==
    ASSUME IndInv, NEW j \in Jobs, StartCollectorFails(j)
    PROVE  IndInv'
<1> USE ConstantsAssumption DEF IndInv, StartCollectorFails, Trace, Tried,
        start_trace_session_fails, jobVars
<1>1. TypeOK'
  <2>1. req[j][started[j] + 1] \in Kinds
    BY LiveFacts
  <2>2. trace' \in [Jobs -> SUBSET Kinds] /\ tried' \in [Jobs -> SUBSET Kinds]
    <3>1. CASE UNCHANGED <<trace, tried>>
      BY <3>1 DEF TypeOK
    <3>2. CASE /\ Tried(j, req[j][started[j] + 1])
               /\ \E left \in SUBSET {req[j][started[j] + 1]} :
                     Trace(j, trace[j] \cup left)
      BY <2>1, <3>2 DEF TypeOK
    <3> QED
      BY <3>1, <3>2
  <2> QED
    BY <2>1, <2>2 DEF TypeOK, PC
<1>2. SlotIsOwned'
    BY DEF SlotIsOwned
<1>3. ASSUME NEW i \in Jobs \ {j} PROVE JobInv(i)'
    BY Frame DEF TypeOK
<1>4. Live(j)' = Live(j) /\ Stopped(j)' = Stopped(j) /\ Collectors(j)' = Collectors(j)
    BY DEF Live, Stopped, Collectors
<1>5. JobInv(j)'
  <2>1. BeforeInv(j)'
    BY DEF BeforeInv, JobInv
  <2>2. TraceInv(j)'
    BY <1>4 DEF TypeOK, TraceInv, JobInv
  <2>3. StopInv(j)'
    BY DEF StopInv, JobInv
  <2>4. ResultInv(j)'
    BY DEF ResultInv, JobInv
  <2> QED
    BY <2>1, <2>2, <2>3, <2>4 DEF JobInv
<1> QED
    BY <1>1, <1>2, <1>3, <1>5

\* stop_started_collectors_for_start_failure stops the last collector.
LEMMA UndoCollectorInd ==
    ASSUME IndInv, NEW j \in Jobs, UndoCollector(j)
    PROVE  IndInv'
<1> USE ConstantsAssumption DEF IndInv, UndoCollector, Trace, Tried,
        collector_stop, collector_stop_fails
<1>1. TypeOK'
  <2>1. req[j][started[j]] \in Kinds
    BY LiveFacts
  <2>2. started' \in [Jobs -> Nat] /\ started'[j] <= Len(req[j])
    BY ReqFacts DEF TypeOK
  <2>3. CASE collector_stop(j, req[j][started[j]], FALSE)
    BY <2>1, <2>2, <2>3 DEF TypeOK
  <2>4. CASE /\ collector_stop_fails(j, req[j][started[j]])
             /\ UNCHANGED <<completed, processed>>
    BY <2>1, <2>2, <2>4 DEF TypeOK
  <2> QED
    BY <2>1, <2>2, <2>3, <2>4
<1>2. SlotIsOwned'
    BY DEF SlotIsOwned
<1>3. ASSUME NEW i \in Jobs \ {j} PROVE JobInv(i)'
    BY Frame DEF TypeOK
<1>4. /\ Live(j)' = Live(j) \ {req[j][started[j]]}
      /\ Stopped(j)' = Stopped(j) \cup {req[j][started[j]]}
      /\ Collectors(j)' = Collectors(j)
  <2>1. Collectors(j)' = Collectors(j)
    BY DEF Collectors
  <2> QED
    BY <2>1, LiveShrinks DEF TypeOK
<1>5. JobInv(j)'
  <2>1. BeforeInv(j)'
    BY DEF BeforeInv, JobInv
  <2>2. TraceInv(j)'
    BY <1>4 DEF TypeOK, TraceInv, JobInv
  <2>3. StopInv(j)'
    BY DEF StopInv, JobInv
  <2>4. ResultInv(j)'
    BY DEF TypeOK, ResultInv, JobInv
  <2> QED
    BY <2>1, <2>2, <2>3, <2>4 DEF JobInv
<1> QED
    BY <1>1, <1>2, <1>3, <1>5

\* finish_failed_profile: no collector is left.
LEMMA UndoDoneInd ==
    ASSUME IndInv, NEW j \in Jobs, UndoDone(j)
    PROVE  IndInv'
<1> USE ConstantsAssumption DEF IndInv, UndoDone, drop_guard, Return
<1>1. TypeOK'
    BY DEF TypeOK, PC, Status
<1>2. SlotIsOwned'
    BY DEF TypeOK, SlotIsOwned
<1>3. ASSUME NEW i \in Jobs \ {j} PROVE JobInv(i)'
    BY Frame
<1>4. Live(j)' = Live(j) /\ Stopped(j)' = Stopped(j) /\ Collectors(j)' = Collectors(j)
    BY DEF Live, Stopped, Collectors
<1>5. JobInv(j)'
  <2>1. BeforeInv(j)'
    BY DEF BeforeInv, JobInv
  <2>2. TraceInv(j)'
    BY <1>4 DEF TraceInv, JobInv
  <2>3. StopInv(j)'
    BY DEF StopInv, JobInv
  <2>4. ResultInv(j)'
    BY DEF TypeOK, ResultInv, JobInv
  <2> QED
    BY <2>1, <2>2, <2>3, <2>4 DEF JobInv
<1> QED
    BY <1>1, <1>2, <1>3, <1>5

\* The target is launched when every collector runs.
LEMMA LaunchInd ==
    ASSUME IndInv, NEW j \in Jobs, Launch(j)
    PROVE  IndInv'
<1> USE ConstantsAssumption DEF IndInv, Launch
<1>1. TypeOK'
    BY DEF TypeOK, PC
<1>2. SlotIsOwned'
    BY DEF TypeOK, SlotIsOwned
<1>3. ASSUME NEW i \in Jobs \ {j} PROVE JobInv(i)'
    BY Frame DEF TypeOK
<1>4. Live(j)' = Live(j) /\ Stopped(j)' = Stopped(j) /\ Collectors(j)' = Collectors(j)
    BY DEF Live, Stopped, Collectors
<1>5. JobInv(j)'
  <2>1. BeforeInv(j)'
    BY DEF TypeOK, BeforeInv, JobInv
  <2>2. TraceInv(j)'
    BY <1>4 DEF TypeOK, TraceInv, JobInv
  <2>3. StopInv(j)'
    BY <1>4 DEF TypeOK, TraceInv, StopInv, JobInv
  <2>4. ResultInv(j)'
    BY DEF BeforeInv, ResultInv, JobInv
  <2> QED
    BY <2>1, <2>2, <2>3, <2>4 DEF JobInv
<1> QED
    BY <1>1, <1>2, <1>3, <1>5

\* The target has exited, or the deadline has passed.
LEMMA WaitInd ==
    ASSUME IndInv, NEW j \in Jobs, Wait(j)
    PROVE  IndInv'
<1> USE ConstantsAssumption DEF IndInv, Wait
<1>1. TypeOK'
    BY DEF TypeOK, PC
<1>2. SlotIsOwned'
    BY DEF SlotIsOwned
<1>3. ASSUME NEW i \in Jobs \ {j} PROVE JobInv(i)'
    BY Frame
<1>4. Live(j)' = Live(j) /\ Stopped(j)' = Stopped(j) /\ Collectors(j)' = Collectors(j)
    BY DEF Live, Stopped, Collectors
<1>5. JobInv(j)'
  <2>1. BeforeInv(j)'
    BY DEF BeforeInv, JobInv
  <2>2. TraceInv(j)'
    BY <1>4 DEF TraceInv, JobInv
  <2>3. StopInv(j)'
    <3>1. /\ exit'[j] \in {"Exited", "TimedOut", "Error"}
          /\ exit'[j] = "Exited" => proc[j] = "ended"
      BY DEF TypeOK
    <3>2. processed[j] = Stopped(j)
      BY LiveFacts DEF JobInv, BeforeInv
    <3> QED
      BY <1>4, <3>1, <3>2 DEF BeforeInv, TraceInv, StopInv, JobInv
  <2>4. ResultInv(j)'
    BY DEF ResultInv, JobInv
  <2> QED
    BY <2>1, <2>2, <2>3, <2>4 DEF JobInv
<1> QED
    BY <1>1, <1>2, <1>3, <1>5

\* The exit of a target only changes its process.
LEMMA TargetExitsInd ==
    ASSUME IndInv, NEW j \in Jobs, TargetExits(j)
    PROVE  IndInv'
<1> USE ConstantsAssumption DEF IndInv, TargetExits, jobVars
<1>1. TypeOK'
    BY DEF TypeOK
<1>2. SlotIsOwned'
    BY DEF SlotIsOwned
<1>3. ASSUME NEW i \in Jobs \ {j} PROVE JobInv(i)'
    BY Frame
<1>4. Live(j)' = Live(j) /\ Stopped(j)' = Stopped(j) /\ Collectors(j)' = Collectors(j)
    BY DEF Live, Stopped, Collectors
<1>5. JobInv(j)'
  <2>1. BeforeInv(j)'
    BY DEF BeforeInv, JobInv
  <2>2. TraceInv(j)'
    BY <1>4 DEF TraceInv, JobInv
  <2>3. StopInv(j)'
    BY <1>4 DEF StopInv, JobInv
  <2>4. ResultInv(j)'
    BY <1>4 DEF ResultInv, JobInv
  <2> QED
    BY <2>1, <2>2, <2>3, <2>4 DEF JobInv
<1> QED
    BY <1>1, <1>2, <1>3, <1>5

\* The last collector is stopped, or its stop error is remembered.
LEMMA StopCollectorInd ==
    ASSUME IndInv, NEW j \in Jobs, StopCollector(j)
    PROVE  IndInv'
<1> USE ConstantsAssumption DEF IndInv, StopCollector, Trace, Tried,
        collector_stop, cleanup
<1>1. TypeOK'
  <2>1. req[j][started[j]] \in Kinds
    BY LiveFacts
  <2>2. started' \in [Jobs -> Nat] /\ started'[j] <= Len(req[j])
    BY ReqFacts DEF TypeOK
  <2>3. CASE /\ collector_stop(j, req[j][started[j]], exit[j] # "Error")
             /\ UNCHANGED stopError
    BY <2>1, <2>2, <2>3 DEF TypeOK
  <2>4. CASE /\ Tried(j, req[j][started[j]]) /\ cleanup(j, req[j][started[j]])
             /\ stopError' = [stopError EXCEPT ![j] = TRUE]
             /\ UNCHANGED <<completed, processed>>
    BY <2>1, <2>2, <2>4 DEF TypeOK
  <2> QED
    BY <2>1, <2>2, <2>3, <2>4
<1>2. SlotIsOwned'
    BY DEF SlotIsOwned
<1>3. ASSUME NEW i \in Jobs \ {j} PROVE JobInv(i)'
    BY Frame DEF TypeOK
<1>4. /\ Live(j)' = Live(j) \ {req[j][started[j]]}
      /\ Stopped(j)' = Stopped(j) \cup {req[j][started[j]]}
      /\ Collectors(j)' = Collectors(j)
  <2>1. Collectors(j)' = Collectors(j)
    BY DEF Collectors
  <2> QED
    BY <2>1, LiveShrinks DEF TypeOK
<1>5. JobInv(j)'
  <2>1. BeforeInv(j)'
    BY DEF BeforeInv, JobInv
  <2>2. TraceInv(j)'
    BY <1>4 DEF TypeOK, TraceInv, JobInv
  <2>3. StopInv(j)'
    BY <1>4 DEF TypeOK, StopInv, JobInv
  <2>4. ResultInv(j)'
    BY DEF TypeOK, ResultInv, JobInv
  <2> QED
    BY <2>1, <2>2, <2>3, <2>4 DEF JobInv
<1> QED
    BY <1>1, <1>2, <1>3, <1>5

\* The result: without an error no stop failed, and the target ran.
LEMMA FinishInd ==
    ASSUME IndInv, NEW j \in Jobs, Finish(j)
    PROVE  IndInv'
<1> USE ConstantsAssumption DEF IndInv, Finish, drop_guard, Return
<1>1. TypeOK'
  <2>1. PICK st \in Status, er \in BOOLEAN : Return(j, st, er)
    BY DEF Status
  <2> QED
    BY <2>1 DEF TypeOK, PC
<1>2. SlotIsOwned'
  <2>1. pc' = [pc EXCEPT ![j] = "done"]
        /\ active' = IF active = j THEN NoJob ELSE active
    OBVIOUS
  <2> QED
    BY <2>1 DEF TypeOK, SlotIsOwned
<1>3. ASSUME NEW i \in Jobs \ {j} PROVE JobInv(i)'
    BY Frame DEF TypeOK
<1>4. Live(j)' = Live(j) /\ Stopped(j)' = Stopped(j) /\ Collectors(j)' = Collectors(j)
    BY DEF Live, Stopped, Collectors
<1>5. JobInv(j)'
  <2>1. BeforeInv(j)'
    BY DEF TypeOK, BeforeInv, JobInv
  <2>2. TraceInv(j)'
    BY <1>4 DEF TypeOK, TraceInv, JobInv
  <2>3. StopInv(j)'
    BY DEF TypeOK, StopInv, JobInv
  <2>4. ResultInv(j)'
    <3>1. CASE Return(j, "Err", TRUE)
      BY <3>1 DEF TypeOK, JobInv, ResultInv
    <3>2. CASE ~Return(j, "Err", TRUE)
      <4>1. /\ outcome'[j].status = "Completed" => exit[j] = "Exited"
            /\ outcome'[j].error = (stopError[j] \/ exit[j] = "Error")
        BY <3>2 DEF JobInv
      <4>2. ~outcome'[j].error => trace[j] = {} /\ processed[j] = Collectors(j)
        BY <4>1, LiveFacts DEF JobInv, StopInv
      <4> QED
        BY <1>4, <4>1, <4>2 DEF TypeOK, JobInv, StopInv, ResultInv
    <3> QED
      BY <3>1, <3>2
  <2> QED
    BY <2>1, <2>2, <2>3, <2>4 DEF JobInv
<1> QED
    BY <1>1, <1>2, <1>3, <1>5

-----------------------------------------------------------------------------
(* The theorems *)

\* Before the first call the slot is free and no collector runs.
LEMMA InitInd == Init => IndInv
<1> SUFFICES ASSUME Init PROVE IndInv
    OBVIOUS
<1> USE ConstantsAssumption DEF Init
<1>1. TypeOK
    BY DEF TypeOK, PC, Status, NoOutcome
<1>2. SlotIsOwned
    BY DEF SlotIsOwned
<1>3. ASSUME NEW j \in Jobs PROVE JobInv(j)
  <2>1. Live(j) = {}
    BY DEF Live
  <2> QED
    BY <2>1 DEF JobInv, BeforeInv, TraceInv, StopInv, ResultInv, NoOutcome
<1> QED
    BY <1>1, <1>2, <1>3 DEF IndInv

\* Every step of a job or of a target keeps the invariant.
LEMMA NextInd == IndInv /\ [Next]_vars => IndInv'
<1> SUFFICES ASSUME IndInv, [Next]_vars PROVE IndInv'
    OBVIOUS
<1>1. ASSUME NEW j \in Jobs, NEW q \in Requests, Start(j, q) PROVE IndInv'
    BY <1>1, StartInd
<1>2. ASSUME NEW j \in Jobs, JobStep(j) PROVE IndInv'
    BY <1>2, CreateArtifactsInd, StartCollectorInd, StartCollectorFailsInd,
       UndoCollectorInd, UndoDoneInd, LaunchInd, WaitInd, StopCollectorInd,
       FinishInd DEF JobStep
<1>3. ASSUME NEW j \in Jobs, TargetExits(j) PROVE IndInv'
    BY <1>3, TargetExitsInd
<1>4. CASE UNCHANGED vars
  <2>1. TypeOK' /\ SlotIsOwned'
    BY <1>4 DEF IndInv, vars, jobVars, TypeOK, SlotIsOwned
  <2>2. ASSUME NEW j \in Jobs PROVE JobInv(j)'
    BY <1>4, Frame DEF IndInv, vars, jobVars
  <2> QED
    BY <2>1, <2>2 DEF IndInv
<1> QED
    BY <1>1, <1>2, <1>3, <1>4 DEF Next

\* The inductive invariant holds in every reachable state.
THEOREM Invariance == Spec => []IndInv
<1> QED
    BY InitInd, NextInd, PTL DEF Spec

\* The slot, the jobs and their collectors keep their types
\* (crates/dbgflow-trace/src/profile/manager.rs as a whole).
THEOREM TypeCorrect == Spec => []TypeOK
<1>1. IndInv => TypeOK
    BY DEF IndInv
<1> QED
    BY <1>1, Invariance, PTL

\* SingleActiveJob: the slot belongs to the one job in progress.
THEOREM OneJob == Spec => []SlotIsOwned
<1>1. IndInv => SlotIsOwned
    BY DEF IndInv
<1> QED
    BY <1>1, Invariance, PTL

\* run_profile: an ETW session outlives its job only if its stop failed.
THEOREM StopsAreTried == Spec => []StrayWasTried
<1>1. IndInv => StrayWasTried
  <2> SUFFICES ASSUME IndInv, NEW j \in Jobs, active # j
               PROVE  trace[j] \subseteq tried[j]
    BY DEF StrayWasTried
  <2>1. pc[j] \in {"idle", "done"}
    BY DEF IndInv, TypeOK, PC, SlotIsOwned
  <2>2. Live(j) = {}
    BY <2>1, LiveFacts DEF IndInv, JobInv, TraceInv
  <2> QED
    BY <2>2 DEF IndInv, JobInv, TraceInv
<1> QED
    BY <1>1, Invariance, PTL

\* run_profile: the target runs while all collectors of the request do.
THEOREM AllObserve == Spec => []TargetObserved
<1>1. IndInv => TargetObserved
    BY LiveFacts DEF IndInv, JobInv, BeforeInv, TraceInv, TargetObserved
<1> QED
    BY <1>1, Invariance, PTL

\* stop_error: a result without an error is complete.
THEOREM ErrorFreeIsComplete == Spec => []CleanResult
<1>1. IndInv => CleanResult
    BY DEF IndInv, JobInv, ResultInv, CleanResult
<1> QED
    BY <1>1, Invariance, PTL

\* target_started: the pid is known to every collector that stops.
THEOREM PidReachesCollectors == Spec => []CompletedIsProcessed
<1>1. IndInv => CompletedIsProcessed
    BY DEF IndInv, JobInv, ResultInv, CompletedIsProcessed
<1> QED
    BY <1>1, Invariance, PTL

-----------------------------------------------------------------------------
(* The processor of a trace. *)

FileKinds == {"create", "read", "dir", "cleanup", "close"}
FileRows == {"create", "read", "dir", "cleanup", "name"}
LifeKinds == {"image_load", "image_unload", "lifecycle"}

RowRecords ==
    [kind : FileRows \cup LifeKinds, ts : Times,
     thread : Threads, irp : Irps \cup {None}, path : Paths \cup {None},
     done : Nat, op : Nat, real_path : Paths \cup {None},
     real_image : Images \cup {None}]
StackRecords == [ts : Times, pid : {Target}, thread : Threads]
ModuleRecords ==
    [name : Images, loaded_at : Times, unloaded_at : Times \cup {None}]

IoRecords == [op : Nat, kind : FileKinds \cup {"none"}, pid : {Target, Other},
              object : Objects \cup {None}]
FileRecords == [path : Paths \cup {None}, pid : {Target, Other},
                key : Keys \cup {None}, state : {"free", "open", "cleaned"}]

\* The kernel: an operation has the number of its record, which was written.
KernelInv ==
    /\ workload \in {"files", "stacks"} /\ seen \in BOOLEAN
    /\ written \in 0..MaxRecords[workload] /\ clock \in Times /\ lost \in 0..MaxLost
    /\ named \in 0..MaxNamed
    /\ event_sets \subseteq {"process", "file_io"}
    /\ io \in [Irps -> IoRecords]
    /\ \A i \in Irps : io[i] = NoIo \/ (io[i].op \in 1..written /\ io[i].object \in Objects)
    /\ file \in [Objects -> FileRecords]
    /\ image \in [name : Images \cup {None}, since : Times]
    /\ image.since <= clock

\* The rows come from records that were written, and what points into them.
RowsOK ==
    /\ rows \in Seq(RowRecords)
    /\ \A k \in DOMAIN rows : /\ rows[k].op \in 1..written
                              /\ rows[k].done <= written
                              /\ rows[k].ts <= clock

RowsInv ==
    /\ RowsOK
    /\ pending_file_irps \in [Irps -> 0..Len(rows)]
    /\ ignored_file_irps \subseteq Irps
    /\ file_paths_by_pointer \in [Pointers -> Paths \cup {None}]
    /\ matched_op_end \in 0..written /\ unmatched_op_end \in 0..written
    /\ reused_irp \in 0..written

WaitingIrps == {i \in Irps : pending_file_irps[i] # 0}
IoInv == IsFiniteSet(WaitingIrps) /\ IoAccounting

\* Only stacks of the target wait, each at its own time.
StackTypes ==
    /\ pending_stacks \in [Times -> Seq(StackRecords)]
    /\ \A t \in Times : \A n \in DOMAIN pending_stacks[t] : pending_stacks[t][n].ts = t

StackInv ==
    /\ StackTypes
    /\ stack_walks \in 0..written
    /\ matched_stack_walks \in Nat /\ dropped_stack_walks \in Nat
    /\ StackAccounting
    /\ PendingBounded

\* Without file rows nothing waits.
OwnInv ==
    /\ OwnCompletion
    /\ "file_io" \notin event_sets => \A i \in Irps : pending_file_irps[i] = 0

\* The cache knows every file that the target has open.
PathInv ==
    /\ PathIsReal
    /\ lost = 0 /\ "file_io" \in event_sets =>
          \A o \in Objects :
              file[o].pid = Target /\ file[o].state = "open" =>
                  file_paths_by_pointer[o] = file[o].path

\* The module that a row is in: it was mapped at the time of the row, and
\* every later one was mapped later.
Framed(mods, row, j) ==
    /\ mods[j].name = row.real_image
    /\ mods[j].loaded_at <= row.ts
    /\ mods[j].unloaded_at # None => row.ts <= mods[j].unloaded_at
    /\ \A m \in DOMAIN mods : m > j => mods[m].loaded_at > row.ts

FrameInv ==
    /\ modules \in Seq(ModuleRecords)
    /\ \A j, m \in DOMAIN modules : j < m => modules[j].loaded_at < modules[m].loaded_at
    /\ \A j \in DOMAIN modules : modules[j].loaded_at <= image.since
    /\ \A k \in DOMAIN rows : rows[k].real_image # None =>
          /\ \E j \in DOMAIN modules : Framed(modules, rows[k], j)
          /\ image.name = None => rows[k].ts <= image.since
    /\ seen /\ image.name # None =>
          /\ modules # <<>>
          /\ modules[Len(modules)].name = image.name
          /\ modules[Len(modules)].unloaded_at = None

EtwIndInv == KernelInv /\ RowsInv /\ IoInv /\ StackInv /\ OwnInv /\ PathInv /\ FrameInv

-----------------------------------------------------------------------------
(* Numbers, cardinalities and sequences. *)

LEMMA BoundFacts ==
    /\ MaxTime \in Nat /\ MaxLost \in Nat /\ MaxNamed \in Nat /\ Times \subseteq Nat /\ IsFiniteSet(Times)
    /\ MAX_PENDING_STACK_TIMESTAMPS \in Nat \ {0}
    /\ MAX_PENDING_STACKS_PER_TIMESTAMP \in Nat \ {0}
    /\ \A w \in {"files", "stacks"} : MaxRecords[w] \in Nat
<1>1. MaxTime \in Nat /\ MaxLost \in Nat /\ MaxNamed \in Nat
    BY BoundAssumption
<1>2. IsFiniteSet(Times)
    BY <1>1, FS_Interval DEF Times
<1> QED
    BY <1>1, <1>2, BoundAssumption DEF Times

\* A set of numbers has a least one, and Min chooses it.
LEMMA MinIsLeast ==
    ASSUME NEW S \in SUBSET Nat, S # {}
    PROVE  Min(S) \in S
<1> DEFINE Less == {p \in Nat \X Nat : p[1] < p[2]}
<1>1. OpToRel(<, Nat) = Less
    BY DEF OpToRel
<1>2. IsWellFoundedOn(Less, Nat)
    BY <1>1, NatLessThanWellFounded
<1> HIDE DEF Less
<1>3. PICK x \in S : \A y \in S : ~(<<y, x>> \in Less)
    BY <1>2, WFMin
<1>4. ASSUME NEW y \in S PROVE x <= y
  <2>1. <<y, x>> \in Nat \X Nat /\ <<y, x>>[1] = y /\ <<y, x>>[2] = x
    OBVIOUS
  <2>2. ~(<<y, x>>[1] < <<y, x>>[2])
    BY <1>3, <2>1 DEF Less
  <2> QED
    BY <2>1, <2>2
<1> QED
    BY <1>3, <1>4 DEF Min

LEMMA DisjointUnion ==
    ASSUME NEW A, NEW B, IsFiniteSet(A), IsFiniteSet(B), A \cap B = {}
    PROVE  /\ IsFiniteSet(A \cup B)
           /\ Cardinality(A \cup B) = Cardinality(A) + Cardinality(B)
           /\ Cardinality(A) \in Nat /\ Cardinality(B) \in Nat
<1>1. Cardinality(A \cap B) = 0
    BY FS_EmptySet
<1>2. Cardinality(A) \in Nat /\ Cardinality(B) \in Nat
    BY FS_CardinalityType
<1>3. /\ IsFiniteSet(A \cup B)
      /\ Cardinality(A \cup B) = Cardinality(A) + Cardinality(B) - Cardinality(A \cap B)
    BY FS_Union
<1> QED
    BY <1>1, <1>2, <1>3

LEMMA AppendFacts ==
    ASSUME NEW S, NEW s \in Seq(S), NEW e \in S
    PROVE  /\ Append(s, e) \in Seq(S) /\ Len(s) \in Nat
           /\ DOMAIN s = 1..Len(s) /\ Len(Append(s, e)) = Len(s) + 1
           /\ DOMAIN Append(s, e) = 1..(Len(s) + 1)
           /\ DOMAIN Append(s, e) = DOMAIN s \cup {Len(s) + 1}
           /\ Len(s) + 1 \notin DOMAIN s
           /\ Append(s, e)[Len(s) + 1] = e
           /\ \A k \in DOMAIN s : Append(s, e)[k] = s[k]
OBVIOUS

-----------------------------------------------------------------------------
(* Stacks that wait. *)

\* Where the stacks wait that StacksAt counts.
Slots(T) == UNION {{t} \X DOMAIN pending_stacks[t] : t \in T}

LEMMA SlotMember ==
    ASSUME NEW T
    PROVE  \A x : x \in Slots(T) <=>
               \E t \in T : \E n \in DOMAIN pending_stacks[t] : x = <<t, n>>
BY DEF Slots

LEMMA SlotsFinite ==
    ASSUME StackTypes, PendingBounded, NEW T \in SUBSET Times
    PROVE  IsFiniteSet(Slots(T))
<1> DEFINE M == MAX_PENDING_STACKS_PER_TIMESTAMP
<1>0. IsFiniteSet(1..M)
    BY BoundFacts, FS_Interval
<1>1. IsFiniteSet(Times \X (1..M))
    BY <1>0, BoundFacts, FS_Product
<1>2. ASSUME NEW x \in Slots(T) PROVE x \in Times \X (1..M)
  <2>1. PICK t \in T : \E n \in DOMAIN pending_stacks[t] : x = <<t, n>>
    BY SlotMember
  <2>2. PICK n \in DOMAIN pending_stacks[t] : x = <<t, n>>
    BY <2>1
  <2>3. pending_stacks[t] \in Seq(StackRecords) /\ Len(pending_stacks[t]) <= M
    BY DEF StackTypes, PendingBounded
  <2>4. n \in 1..M
    BY <2>3, BoundFacts
  <2> QED
    BY <2>2, <2>4
<1> QED
    BY <1>1, <1>2, FS_Subset

\* Times where nothing waits do not count.
LEMMA SlotsOfPending ==
    ASSUME NEW T \in SUBSET Times, PendingTimes \subseteq T, StackTypes
    PROVE  Slots(PendingTimes) = Slots(T)
<1>1. \A t \in T \ PendingTimes : pending_stacks[t] = <<>>
    BY DEF PendingTimes
<1>2. \A t \in T \ PendingTimes : DOMAIN pending_stacks[t] = {}
    BY <1>1
<1>3. ASSUME NEW x PROVE x \in Slots(PendingTimes) <=> x \in Slots(T)
    BY <1>2, SlotMember
<1> QED
    BY <1>3

LEMMA PendingTimesFinite ==
    /\ IsFiniteSet(PendingTimes) /\ Cardinality(PendingTimes) \in Nat
    /\ PendingTimes \subseteq Times
<1>1. PendingTimes \subseteq Times
    BY DEF PendingTimes
<1> QED
    BY <1>1, BoundFacts, FS_Subset, FS_CardinalityType

LEMMA SlotsNow ==
    StackTypes /\ PendingBounded =>
        IsFiniteSet(Slots(Times)) /\ Slots(PendingTimes) = Slots(Times)
BY SlotsFinite, SlotsOfPending, PendingTimesFinite

LEMMA SlotsPrimed ==
    StackTypes' /\ PendingBounded' =>
        (IsFiniteSet(Slots(Times)) /\ Slots(PendingTimes) = Slots(Times))'
BY SlotsNow, PTL

\* Slots after a step, like SlotMember, SlotsFinite and SlotsOfPending before it.
LEMMA SlotsAfter ==
    ASSUME StackTypes', PendingBounded'
    PROVE  /\ IsFiniteSet(Slots(Times)') /\ Slots(PendingTimes)' = Slots(Times)'
           /\ \A x : x \in Slots(Times)' <=>
                 \E t \in Times : \E n \in DOMAIN pending_stacks'[t] : x = <<t, n>>
<1>1. \A x : x \in Slots(Times)' <=>
           \E t \in Times : \E n \in DOMAIN pending_stacks'[t] : x = <<t, n>>
    BY DEF Slots
<1> QED
    BY <1>1, SlotsPrimed

\* prune_pending_stacks_before counts what it drops, and all stacks that wait
\* for the time of a new row go to it.
LEMMA TakePendingStacksInd ==
    ASSUME StackInv, RowsInv, NEW ts \in Times, TakePendingStacks(ts, rows'),
           Len(rows') # Len(rows) => \E k \in DOMAIN rows' : rows'[k].ts = ts,
           written' = written + 1, written \in Nat
    PROVE  StackInv'
<1> DEFINE old == PendingBefore(ts)
           now == IF Len(rows') = Len(rows) THEN {} ELSE {ts}
           waited == {n \in DOMAIN pending_stacks[ts] :
                         attach_stack_walk_event(pending_stacks[ts][n], rows')}
<1>0. /\ StackTypes /\ PendingBounded /\ StackAccounting
      /\ stack_walks \in 0..written
      /\ matched_stack_walks \in Nat /\ dropped_stack_walks \in Nat
    BY DEF StackInv, StackTypes
<1>1. /\ pending_stacks' = [t \in Times |-> IF t \in old \cup now THEN <<>>
                                           ELSE pending_stacks[t]]
      /\ dropped_stack_walks' = dropped_stack_walks + Cardinality(Slots(old))
      /\ matched_stack_walks' =
             matched_stack_walks + (IF now = {} THEN 0 ELSE Cardinality(waited))
      /\ stack_walks' = stack_walks
    BY DEF TakePendingStacks, StacksAt, Slots
<1>2. old \subseteq Times /\ now \subseteq Times /\ ts \notin old
    BY BoundFacts DEF PendingBefore, PendingTimes
<1> HIDE DEF old
<1>3. StackTypes'
    BY <1>0, <1>1 DEF StackTypes
<1>4. PendingBounded'
  <2>1. PendingTimes' \subseteq PendingTimes
    BY <1>1 DEF PendingTimes
  <2>2. Cardinality(PendingTimes') <= Cardinality(PendingTimes) /\ Cardinality(PendingTimes') \in Nat
    BY <2>1, PendingTimesFinite, FS_Subset, FS_CardinalityType
  <2>3. ASSUME NEW t \in Times
        PROVE  Len(pending_stacks'[t]) <= MAX_PENDING_STACKS_PER_TIMESTAMP
    BY <1>0, <1>1, BoundFacts DEF PendingBounded
  <2> QED
    BY <1>0, <2>2, <2>3, PendingTimesFinite, BoundFacts DEF PendingBounded
<1>5. Slots(PendingTimes) = Slots(Times)
    BY <1>0, SlotsOfPending, PendingTimesFinite
<1>6. /\ IsFiniteSet(Slots(old)) /\ IsFiniteSet(Slots(now)) /\ IsFiniteSet(Slots(Times)')
      /\ Slots(PendingTimes)' = Slots(Times)'
    BY <1>0, <1>2, <1>3, <1>4, SlotsFinite, SlotsAfter
<1>7. Slots(Times) = (Slots(old) \cup Slots(now)) \cup Slots(Times)'
  <2>1. ASSUME NEW t \in Times, NEW n
        PROVE  n \in DOMAIN pending_stacks'[t] <=>
                   t \notin old \cup now /\ n \in DOMAIN pending_stacks[t]
    BY <1>1
  <2>2. ASSUME NEW x PROVE x \in Slots(Times)' <=>
             \E t \in Times : \E n \in DOMAIN pending_stacks[t] :
                 t \notin old \cup now /\ x = <<t, n>>
    BY <1>3, <1>4, <2>1, SlotsAfter
  <2>3. ASSUME NEW x
        PROVE  x \in Slots(Times) <=> x \in (Slots(old) \cup Slots(now)) \cup Slots(Times)'
    BY <1>2, <2>2, SlotMember
  <2> QED
    BY <2>3
<1>8. Slots(old) \cap Slots(now) = {} /\ (Slots(old) \cup Slots(now)) \cap Slots(Times)' = {}
  <2>1. ASSUME NEW x \in Slots(old), x \in Slots(now) PROVE FALSE
    BY <1>2, <2>1, SlotMember
  <2>2. ASSUME NEW x \in Slots(Times)', x \in Slots(old) \cup Slots(now) PROVE FALSE
    <3>1. PICK t \in Times : \E n \in DOMAIN pending_stacks'[t] : x = <<t, n>>
      BY <1>3, <1>4, SlotsAfter
    <3>2. t \notin old \cup now
      BY <1>1, <3>1
    <3> QED
      BY <2>2, <3>1, <3>2, SlotMember
  <2> QED
    BY <2>1, <2>2
<1>9. Cardinality(Slots(now)) = IF now = {} THEN 0 ELSE Cardinality(waited)
  <2>1. CASE now = {}
    <3>1. Slots(now) = {}
      BY <2>1 DEF Slots
    <3> QED
      BY <2>1, <3>1, FS_EmptySet
  <2>2. CASE now = {ts} /\ now # {}
    <3>1. waited = DOMAIN pending_stacks[ts]
      <4>1. PICK k \in DOMAIN rows' : rows'[k].ts = ts
        BY <2>2
      <4>2. ASSUME NEW n \in DOMAIN pending_stacks[ts]
            PROVE  attach_stack_walk_event(pending_stacks[ts][n], rows')
        <5>1. pending_stacks[ts][n] \in StackRecords /\ pending_stacks[ts][n].ts = ts
          BY <1>0 DEF StackTypes
        <5>2. pending_stacks[ts][n].pid = Target
          BY <5>1 DEF StackRecords
        <5> QED
          BY <4>1, <5>1, <5>2 DEF attach_stack_walk_event
      <4> QED
        BY <4>2
    <3>2. Slots(now) = {ts} \X DOMAIN pending_stacks[ts]
      BY <2>2 DEF Slots
    <3>3. IsFiniteSet(DOMAIN pending_stacks[ts])
      BY <1>0, FS_Interval DEF StackTypes
    <3>4. IsFiniteSet({ts}) /\ Cardinality({ts}) = 1
      BY FS_Singleton
    <3>5. Cardinality(Slots(now)) = 1 * Cardinality(DOMAIN pending_stacks[ts])
      BY <3>2, <3>3, <3>4, FS_Product
    <3>6. Cardinality(DOMAIN pending_stacks[ts]) \in Nat
      BY <3>3, FS_CardinalityType
    <3> HIDE DEF now, waited
    <3> QED
      BY <2>2, <3>1, <3>5, <3>6
  <2> QED
    BY <2>1, <2>2
<1> HIDE DEF now, waited
<1>10. /\ Cardinality(Slots(Times)) =
              Cardinality(Slots(old)) + Cardinality(Slots(now)) + Cardinality(Slots(Times)')
       /\ Cardinality(Slots(old)) \in Nat /\ Cardinality(Slots(now)) \in Nat
       /\ Cardinality(Slots(Times)') \in Nat
  <2> DEFINE C == Slots(old) \cup Slots(now)
  <2>1. /\ IsFiniteSet(C) /\ Cardinality(C) = Cardinality(Slots(old)) + Cardinality(Slots(now))
        /\ Cardinality(Slots(old)) \in Nat /\ Cardinality(Slots(now)) \in Nat
    BY <1>6, <1>8, DisjointUnion
  <2> HIDE DEF C
  <2>2. /\ Cardinality(C \cup Slots(Times)') = Cardinality(C) + Cardinality(Slots(Times)')
        /\ Cardinality(Slots(Times)') \in Nat
    BY <1>6, <1>8, <2>1, DisjointUnion DEF C
  <2> QED
    BY <1>7, <2>1, <2>2 DEF C
<1>11. matched_stack_walks' = matched_stack_walks + Cardinality(Slots(now))
    BY <1>1, <1>9
<1>12. StackAccounting'
  <2>1. stack_walks = matched_stack_walks + dropped_stack_walks + Cardinality(Slots(Times))
    BY <1>0, <1>5 DEF StackAccounting, StacksAt, Slots
  <2>2. stack_walks' = matched_stack_walks' + dropped_stack_walks' + Cardinality(Slots(Times)')
    BY <1>0, <1>1, <1>10, <1>11, <2>1
  <2> QED
    BY <1>6, <2>2 DEF StackAccounting, StacksAt, Slots
<1> QED
    BY <1>0, <1>1, <1>3, <1>4, <1>10, <1>12, <1>11 DEF StackInv, StackTypes

\* A stack that is attached or dropped at once.
LEMMA StackCounted ==
    ASSUME StackInv, written' = written + 1, written \in Nat,
           pending_stacks' = pending_stacks, stack_walks' = stack_walks + 1,
           \/ /\ matched_stack_walks' = matched_stack_walks + 1
              /\ dropped_stack_walks' = dropped_stack_walks
           \/ /\ matched_stack_walks' = matched_stack_walks
              /\ dropped_stack_walks' = dropped_stack_walks + 1
    PROVE  StackInv'
<1>0. /\ StackTypes /\ PendingBounded
      /\ stack_walks = matched_stack_walks + dropped_stack_walks + Cardinality(Slots(PendingTimes))
      /\ stack_walks \in 0..written
      /\ matched_stack_walks \in Nat /\ dropped_stack_walks \in Nat
    BY DEF StackInv, StackTypes, StackAccounting, StacksAt, Slots
<1>1. StackTypes' /\ PendingBounded'
    BY <1>0 DEF StackTypes, PendingBounded, PendingTimes
<1>2. Slots(PendingTimes)' = Slots(PendingTimes)
    BY DEF Slots, PendingTimes
<1>3. Cardinality(Slots(PendingTimes)) \in Nat
    BY <1>0, SlotsFinite, PendingTimesFinite, FS_CardinalityType
<1>4. StackAccounting'
  <2>1. stack_walks' = matched_stack_walks' + dropped_stack_walks'
                           + Cardinality(Slots(PendingTimes)')
    BY <1>0, <1>2, <1>3
  <2> QED
    BY <2>1 DEF StackAccounting, StacksAt, Slots
<1> QED
    BY <1>0, <1>1, <1>4 DEF StackInv, StackTypes

LEMMA QueuedSum ==
    ASSUME NEW w \in Nat, NEW m \in Nat, NEW d \in Nat, NEW o \in Nat, NEW a \in Nat,
           NEW b \in Nat, w = m + d + a, o + b = a + 1
    PROVE  w + 1 = m + (d + o) + b
OBVIOUS

\* A stack that waits, after the stacks of the oldest time were dropped when
\* there are too many times.
LEMMA StackQueued ==
    ASSUME StackInv, written' = written + 1, written \in Nat,
           NEW stack \in StackRecords, NEW oldest \in SUBSET PendingTimes,
           oldest = IF /\ pending_stacks[stack.ts] = <<>>
                       /\ Cardinality(PendingTimes) >= MAX_PENDING_STACK_TIMESTAMPS
                    THEN {Min(PendingTimes)} ELSE {},
           Len(pending_stacks[stack.ts]) < MAX_PENDING_STACKS_PER_TIMESTAMP,
           stack.ts \notin oldest,
           pending_stacks' = [t \in Times |->
               IF t \in oldest THEN <<>>
               ELSE IF t = stack.ts THEN Append(pending_stacks[t], stack)
               ELSE pending_stacks[t]],
           stack_walks' = stack_walks + 1, matched_stack_walks' = matched_stack_walks,
           dropped_stack_walks' = dropped_stack_walks + Cardinality(Slots(oldest))
    PROVE  StackInv'
<1> DEFINE ts == stack.ts
           new == <<ts, Len(pending_stacks[ts]) + 1>>
<1>0. /\ StackTypes /\ PendingBounded
      /\ stack_walks = matched_stack_walks + dropped_stack_walks + Cardinality(Slots(PendingTimes))
      /\ stack_walks \in 0..written
      /\ matched_stack_walks \in Nat /\ dropped_stack_walks \in Nat
    BY DEF StackInv, StackTypes, StackAccounting, StacksAt, Slots
<1>1. ts \in Times /\ pending_stacks[ts] \in Seq(StackRecords)
    BY <1>0 DEF StackTypes, StackRecords
<1>2. /\ Append(pending_stacks[ts], stack) \in Seq(StackRecords)
      /\ Len(pending_stacks[ts]) \in Nat
      /\ Len(Append(pending_stacks[ts], stack)) = Len(pending_stacks[ts]) + 1
      /\ DOMAIN Append(pending_stacks[ts], stack)
             = DOMAIN pending_stacks[ts] \cup {Len(pending_stacks[ts]) + 1}
      /\ Len(pending_stacks[ts]) + 1 \notin DOMAIN pending_stacks[ts]
      /\ Append(pending_stacks[ts], stack)[Len(pending_stacks[ts]) + 1] = stack
      /\ \A k \in DOMAIN pending_stacks[ts] :
             Append(pending_stacks[ts], stack)[k] = pending_stacks[ts][k]
    BY <1>1, AppendFacts
<1>3. /\ pending_stacks'[ts] = Append(pending_stacks[ts], stack)
      /\ \A t \in Times : /\ t \in oldest => pending_stacks'[t] = <<>>
                          /\ t \notin oldest \cup {ts} => pending_stacks'[t] = pending_stacks[t]
    BY <1>1
<1>4. StackTypes'
  <2>1. pending_stacks' \in [Times -> Seq(StackRecords)]
    BY <1>0, <1>1, <1>2, <1>3 DEF StackTypes
  <2>2. ASSUME NEW t \in Times, NEW n \in DOMAIN pending_stacks'[t]
        PROVE  pending_stacks'[t][n].ts = t
    <3>1. CASE t = ts
      BY <1>0, <1>2, <1>3, <3>1 DEF StackTypes
    <3>2. CASE t # ts
      BY <1>0, <1>3, <3>2 DEF StackTypes
    <3> QED
      BY <3>1, <3>2
  <2> QED
    BY <2>1, <2>2 DEF StackTypes
<1>5. PendingBounded'
  <2>1. \A t \in Times : Len(pending_stacks'[t]) <= MAX_PENDING_STACKS_PER_TIMESTAMP
    BY <1>0, <1>2, <1>3, BoundFacts DEF PendingBounded
  <2>2. pending_stacks'[ts] # <<>>
    BY <1>2, <1>3
  <2>3. PendingTimes' = (PendingTimes \ oldest) \cup {ts}
    BY <1>1, <1>3, <2>2 DEF PendingTimes
  <2> DEFINE PT == PendingTimes
  <2>4. IsFiniteSet(PT) /\ Cardinality(PT) \in Nat /\ Cardinality(PT) <= MAX_PENDING_STACK_TIMESTAMPS
    BY <1>0, PendingTimesFinite DEF PendingBounded
  <2>5. ts \in PT <=> pending_stacks[ts] # <<>>
    BY <1>1 DEF PendingTimes
  <2> HIDE DEF PT
  <2>6. ASSUME oldest = {}
        PROVE  Cardinality(PendingTimes') <= MAX_PENDING_STACK_TIMESTAMPS
    <3>1. CASE ts \in PT
      <4>1. PendingTimes' = PT
        BY <2>3, <2>6, <3>1 DEF PT
      <4> QED
        BY <2>4, <4>1
    <3>2. CASE ts \notin PT
      <4>1. ~(Cardinality(PT) >= MAX_PENDING_STACK_TIMESTAMPS)
        BY <2>5, <2>6, <3>2 DEF PT
      <4>2. Cardinality(PT \cup {ts}) = Cardinality(PT) + 1
        BY <2>4, <3>2, FS_AddElement
      <4>3. PendingTimes' = PT \cup {ts}
        BY <2>3, <2>6 DEF PT
      <4> QED
        BY <2>4, <4>1, <4>2, <4>3, BoundFacts
    <3> QED
      BY <3>1, <3>2
  <2>7. ASSUME oldest # {}
        PROVE  Cardinality(PendingTimes') <= MAX_PENDING_STACK_TIMESTAMPS
    <3>1. oldest = {Min(PT)} /\ Min(PT) \in PT /\ ts \notin PT
      BY <2>5, <2>7 DEF PT
    <3>2. IsFiniteSet(PT \ {Min(PT)}) /\ Cardinality(PT \ {Min(PT)}) = Cardinality(PT) - 1
      BY <2>4, <3>1, FS_RemoveElement
    <3>3. Cardinality((PT \ {Min(PT)}) \cup {ts}) = Cardinality(PT \ {Min(PT)}) + 1
      BY <3>1, <3>2, FS_AddElement
    <3>4. PendingTimes' = (PT \ {Min(PT)}) \cup {ts}
      BY <2>3, <3>1 DEF PT
    <3> QED
      BY <2>4, <3>2, <3>3, <3>4
  <2> QED
    BY <2>1, <2>6, <2>7 DEF PendingBounded
<1>6. oldest \subseteq Times /\ Slots(PendingTimes) = Slots(Times)
    BY <1>0, SlotsOfPending, PendingTimesFinite
<1>7. /\ IsFiniteSet(Slots(oldest)) /\ IsFiniteSet(Slots(Times)) /\ IsFiniteSet(Slots(Times)')
      /\ Slots(PendingTimes)' = Slots(Times)'
    BY <1>0, <1>4, <1>5, <1>6, SlotsFinite, SlotsAfter
<1>8. Slots(oldest) \cup Slots(Times)' = Slots(Times) \cup {new}
  <2>1. ASSUME NEW x, NEW t \in Times, NEW n \in DOMAIN pending_stacks'[t], x = <<t, n>>
        PROVE  x \in Slots(Times) \cup {new}
    <3>1. CASE t = ts
      BY <1>1, <1>2, <1>3, <2>1, <3>1, SlotMember
    <3>2. CASE t # ts /\ t \notin oldest
      BY <1>3, <2>1, <3>2, SlotMember
    <3>3. CASE t \in oldest
      BY <1>3, <3>3
    <3> QED
      BY <3>1, <3>2, <3>3
  <2>2. ASSUME NEW x, NEW t \in Times, NEW n \in DOMAIN pending_stacks[t], x = <<t, n>>
        PROVE  x \in Slots(oldest) \cup Slots(Times)'
    <3>0. \A m \in DOMAIN pending_stacks'[t] : <<t, m>> \in Slots(Times)'
      BY <1>4, <1>5, SlotsAfter
    <3>1. CASE t = ts
      BY <1>2, <1>3, <2>2, <3>0, <3>1
    <3>2. CASE t # ts /\ t \notin oldest
      BY <1>3, <2>2, <3>0, <3>2
    <3>3. CASE t \in oldest
      BY <2>2, <3>3, SlotMember
    <3> QED
      BY <3>1, <3>2, <3>3
  <2>3. new \in Slots(Times)'
    BY <1>1, <1>2, <1>3, <1>4, <1>5, SlotsAfter
  <2>4. Slots(oldest) \subseteq Slots(Times)
    BY <1>6, SlotMember
  <2>5. \A x \in Slots(Times)' : x \in Slots(Times) \cup {new}
    BY <1>4, <1>5, <2>1, SlotsAfter
  <2>6. \A x \in Slots(Times) : x \in Slots(oldest) \cup Slots(Times)'
    BY <2>2, SlotMember
  <2> HIDE DEF new
  <2> QED
    BY <2>3, <2>4, <2>5, <2>6
<1>9. new \notin Slots(Times) /\ Slots(oldest) \cap Slots(Times)' = {}
  <2>1. new \notin Slots(Times)
    BY <1>2, SlotMember
  <2>2. ASSUME NEW x \in Slots(oldest), x \in Slots(Times)' PROVE FALSE
    <3>1. PICK t \in oldest : \E n \in DOMAIN pending_stacks[t] : x = <<t, n>>
      BY SlotMember
    <3>2. PICK u \in Times : \E n \in DOMAIN pending_stacks'[u] : x = <<u, n>>
      BY <1>4, <1>5, <2>2, SlotsAfter
    <3>3. u = t
      BY <3>1, <3>2
    <3> QED
      BY <1>3, <3>2, <3>3
  <2> QED
    BY <2>1, <2>2
<1> HIDE DEF new, ts
<1>10. /\ Cardinality(Slots(oldest)) + Cardinality(Slots(Times)') = Cardinality(Slots(Times)) + 1
       /\ Cardinality(Slots(oldest)) \in Nat /\ Cardinality(Slots(Times)) \in Nat
       /\ Cardinality(Slots(Times)') \in Nat
  <2>1. /\ Cardinality(Slots(oldest) \cup Slots(Times)')
               = Cardinality(Slots(oldest)) + Cardinality(Slots(Times)')
        /\ Cardinality(Slots(oldest)) \in Nat /\ Cardinality(Slots(Times)') \in Nat
    BY <1>7, <1>9, DisjointUnion
  <2>2. Cardinality(Slots(Times) \cup {new}) = Cardinality(Slots(Times)) + 1
    BY <1>7, <1>9, FS_AddElement
  <2>3. Cardinality(Slots(Times)) \in Nat
    BY <1>7, FS_CardinalityType
  <2> QED
    BY <1>8, <2>1, <2>2, <2>3
<1>11. StackAccounting'
  <2>1. stack_walks = matched_stack_walks + dropped_stack_walks + Cardinality(Slots(Times))
    BY <1>0, <1>6
  <2>2. stack_walks + 1 = matched_stack_walks
            + (dropped_stack_walks + Cardinality(Slots(oldest))) + Cardinality(Slots(Times)')
    <3> DEFINE O == Cardinality(Slots(oldest))
               A == Cardinality(Slots(Times))
               B == Cardinality(Slots(Times)')
    <3>1. /\ stack_walks \in Nat /\ O \in Nat /\ A \in Nat /\ B \in Nat
          /\ stack_walks = matched_stack_walks + dropped_stack_walks + A /\ O + B = A + 1
      BY <1>0, <1>10, <2>1
    <3> HIDE DEF O, A, B
    <3>2. stack_walks + 1 = matched_stack_walks + (dropped_stack_walks + O) + B
      BY <1>0, <3>1, QueuedSum
    <3> QED
      BY <3>2 DEF O, B
  <2> QED
    BY <1>7, <2>2 DEF StackAccounting, StacksAt, Slots
<1>12. /\ stack_walks + 1 \in 0..(written + 1)
       /\ dropped_stack_walks + Cardinality(Slots(oldest)) \in Nat
    BY <1>0, <1>10
<1> QED
    BY <1>0, <1>4, <1>5, <1>11, <1>12 DEF StackInv, StackTypes

\* process_stack_walk_event, whatever becomes of the stack.
LEMMA StackWalkInd ==
    ASSUME StackInv, written' = written + 1, written \in Nat,
           NEW stack \in [ts : Times, pid : {Target, Other}, thread : Threads],
           process_stack_walk_event(stack)
    PROVE  StackInv'
<1> DEFINE full == /\ pending_stacks[stack.ts] = <<>>
                   /\ Cardinality(PendingTimes) >= MAX_PENDING_STACK_TIMESTAMPS
           oldest == IF full THEN {Min(PendingTimes)} ELSE {}
           crowded == Len(pending_stacks[stack.ts])
                          >= MAX_PENDING_STACKS_PER_TIMESTAMP
<1>0. StackTypes /\ stack.ts \in Times /\ pending_stacks[stack.ts] \in Seq(StackRecords)
    BY DEF StackInv, StackTypes
<1>1. stack_walks' = stack_walks + 1
    BY DEF process_stack_walk_event
<1>2. CASE attach_stack_walk_event(stack, rows)
    BY <1>1, <1>2, StackCounted DEF process_stack_walk_event
<1>3. CASE ~attach_stack_walk_event(stack, rows) /\ stack.pid # Target
    BY <1>1, <1>3, StackCounted
       DEF process_stack_walk_event, cache_pending_stack_walk_event
<1>4. CASE ~attach_stack_walk_event(stack, rows) /\ stack.pid = Target
  <2>0. /\ matched_stack_walks' = matched_stack_walks
        /\ pending_stacks' = [t \in Times |->
               CASE t \in oldest -> <<>>
                 [] t = stack.ts /\ ~crowded -> Append(pending_stacks[t], stack)
                 [] OTHER -> pending_stacks[t]]
        /\ dropped_stack_walks' = dropped_stack_walks + StacksAt(oldest)
                                      + (IF crowded THEN 1 ELSE 0)
    BY <1>4 DEF process_stack_walk_event, cache_pending_stack_walk_event
  <2>1. StacksAt(oldest) = Cardinality(Slots(oldest))
    BY DEF StacksAt, Slots
  <2>2. dropped_stack_walks \in Nat
    BY DEF StackInv, StackTypes
  <2>3. CASE crowded
    <3>1. pending_stacks[stack.ts] # <<>>
      BY <1>0, <2>3, BoundFacts
    <3>2. oldest = {}
      BY <3>1
    <3>3. pending_stacks' = pending_stacks
      BY <1>0, <2>0, <2>3, <3>2 DEF StackTypes
    <3>4. Slots(oldest) = {}
      BY <3>2 DEF Slots
    <3>5. dropped_stack_walks' = dropped_stack_walks + 0 + 1
      BY <2>0, <2>1, <2>3, <3>4, FS_EmptySet
    <3> QED
      BY <1>1, <2>0, <2>2, <3>3, <3>5, StackCounted
  <2>4. CASE ~crowded
    <3>1. full => PendingTimes # {}
      <4>1. PendingTimes = {} => Cardinality(PendingTimes) = 0
        BY FS_EmptySet
      <4> QED
        BY <4>1, BoundFacts
    <3>2. full => Min(PendingTimes) \in PendingTimes
      BY <3>1, PendingTimesFinite, BoundFacts, MinIsLeast
    <3>3. oldest \in SUBSET PendingTimes /\ stack.ts \notin oldest
      BY <3>2 DEF PendingTimes
    <3>4. pending_stacks' = [t \in Times |->
               IF t \in oldest THEN <<>>
               ELSE IF t = stack.ts THEN Append(pending_stacks[t], stack)
               ELSE pending_stacks[t]]
      <4> HIDE DEF oldest, crowded
      <4> QED
        BY <2>0, <2>4, <3>3
    <3>5. dropped_stack_walks' = dropped_stack_walks + Cardinality(Slots(oldest))
      <4>1. IsFiniteSet(Slots(oldest))
        BY <1>0, <3>3, SlotsFinite, PendingTimesFinite DEF StackInv, StackTypes
      <4>2. Cardinality(Slots(oldest)) \in Nat
        BY <4>1, FS_CardinalityType
      <4>3. dropped_stack_walks' = dropped_stack_walks + Cardinality(Slots(oldest)) + 0
        BY <2>0, <2>1, <2>4
      <4> QED
        BY <2>2, <4>2, <4>3
    <3>6. stack \in StackRecords
      BY <1>4 DEF StackRecords
    <3>7. Len(pending_stacks[stack.ts]) < MAX_PENDING_STACKS_PER_TIMESTAMP
      BY <1>0, <2>4, BoundFacts
    <3> QED
      BY <1>1, <2>0, <3>3, <3>4, <3>5, <3>6, <3>7, StackQueued
  <2> QED
    BY <2>3, <2>4
<1> QED
    BY <1>2, <1>3, <1>4

-----------------------------------------------------------------------------
(* Records. *)

GoodRecord(rec) ==
    /\ rec.kind \in FileKinds \cup LifeKinds \cup {"name", "op_end", "stack_walk"}
    /\ rec.ts \in Times /\ clock <= rec.ts /\ rec.of \in Times
    /\ rec.pid \in {Target, Other} /\ rec.thread \in Threads
    /\ rec.op \in 1..(written + 1)
    /\ rec.real_path \in Paths \cup {None} /\ rec.real_image \in Images \cup {None}
    /\ rec.kind \in FileKinds =>
          /\ rec.irp \in Irps /\ rec.object \in Objects /\ rec.key \in Keys \cup {None}
          /\ rec.path \in Paths \cup {None}
    /\ rec.kind = "name" =>
          /\ rec.irp = None /\ rec.object \in Pointers /\ rec.key = None
          /\ rec.path \in Paths /\ rec.real_path = None
    /\ rec.kind = "op_end" => rec.irp \in Irps
    /\ rec.kind \in LifeKinds => rec.irp = None /\ rec.real_path = None
    /\ rec.kind = "image_load" => rec.name \in Images

\* What the processor does with a record, by its kind.
Skips(rec) ==
    /\ UNCHANGED procVars
    /\ \/ rec.kind \in LifeKinds /\ rec.pid # Target
       \/ /\ rec.kind \in FileKinds \cup {"name", "op_end"}
          /\ "file_io" \notin event_sets \/ ~file_io_event_matches_target(rec)

AddsLife(rec) ==
    /\ rec.kind \in LifeKinds /\ rec.pid = Target
    /\ rows' = IF "process" \in event_sets THEN Append(rows, Row(rec, None)) ELSE rows
    /\ modules' = CASE rec.kind = "image_load" -> record_module_load(rec)
                     [] rec.kind = "image_unload" -> record_module_unload(rec)
                     [] OTHER -> modules
    /\ TakePendingStacks(rec.ts, rows')
    /\ UNCHANGED ioVars

TakesFile(rec) ==
    /\ "file_io" \in event_sets /\ file_io_event_matches_target(rec)
    /\ \/ rec.kind = "op_end" /\ merge_file_io_completion(rec)
       \/ rec.kind = "close" /\ ignore_file_io_close(rec)
       \/ rec.kind \in FileRows /\ AddFileRow(rec)
    /\ TakePendingStacks(rec.ts, rows')
    /\ UNCHANGED modules

TakesStack(rec) ==
    /\ rec.kind = "stack_walk"
    /\ process_stack_walk_event([ts |-> rec.of, pid |-> rec.pid, thread |-> rec.thread])

LEMMA ProcessCases ==
    ASSUME NEW rec, GoodRecord(rec), process_record(rec)
    PROVE  Skips(rec) \/ AddsLife(rec) \/ TakesFile(rec) \/ TakesStack(rec)
<1>1. CASE rec.kind = "stack_walk"
    BY <1>1 DEF process_record, TakesStack
<1>2. CASE rec.kind \in LifeKinds
  <2>1. process_lifecycle_event(rec)
    BY <1>2 DEF process_record, LifeKinds
  <2>2. CASE rec.pid # Target
    BY <1>2, <2>1, <2>2 DEF process_lifecycle_event, Skips
  <2>3. CASE rec.pid = Target
    BY <1>2, <2>1, <2>3 DEF process_lifecycle_event, AddsLife
  <2> QED
    BY <2>2, <2>3
<1>3. CASE rec.kind \in FileKinds \cup {"name", "op_end"}
  <2>1. IF "file_io" \in event_sets THEN process_file_io_event(rec) ELSE UNCHANGED procVars
    BY <1>3 DEF process_record, FileKinds
  <2>2. CASE "file_io" \notin event_sets \/ ~file_io_event_matches_target(rec)
    BY <1>3, <2>1, <2>2 DEF process_file_io_event, Skips
  <2>3. CASE "file_io" \in event_sets /\ file_io_event_matches_target(rec)
    BY <1>3, <2>1, <2>3 DEF process_file_io_event, TakesFile, FileKinds, FileRows
  <2> QED
    BY <2>2, <2>3
<1> QED
    BY <1>1, <1>2, <1>3 DEF GoodRecord

-----------------------------------------------------------------------------
(* The kernel. *)

\* When the next record may be written, and by whom.
LEMMA NextFacts ==
    ASSUME KernelInv
    PROVE  /\ \A ts \in NextTime : ts \in Times /\ clock <= ts
           /\ \A th \in RunningThreads : th \in Threads
           /\ clock \in Nat /\ written \in Nat
<1>1. clock \in Nat /\ written \in Nat
    BY BoundFacts DEF KernelInv
<1>2. ASSUME NEW ts \in NextTime PROVE ts \in Times /\ clock <= ts
    BY <1>1, BoundFacts DEF KernelInv, NextTime, Times
<1>3. (CHOOSE th \in Threads : TRUE) \in Threads
    BY ThreadsAssumption
<1>4. ASSUME NEW th \in RunningThreads PROVE th \in Threads
    BY <1>3, <1>4 DEF RunningThreads
<1> QED
    BY <1>1, <1>2, <1>4

\* A record as it is before the fields of its kind are filled in.
LEMMA RecordFacts ==
    ASSUME KernelInv, NEW kind, NEW ts \in Times, clock <= ts, NEW p \in {Target, Other},
           NEW th \in Threads
    PROVE  LET r == Record(kind, ts, p, th)
           IN  /\ r.kind = kind /\ r.ts = ts /\ r.of = ts /\ r.pid = p /\ r.thread = th
               /\ r.irp = None /\ r.key = None /\ r.path = None /\ r.real_path = None /\ r.op = written + 1
               /\ r.real_image = (IF seen THEN image.name ELSE None)
               /\ r.real_image \in Images \cup {None}
               /\ r.op \in 1..(written + 1)
<1>1. written \in Nat /\ image.name \in Images \cup {None}
    BY NextFacts DEF KernelInv
<1> QED
    BY <1>1 DEF Record

LEMMA WriteFacts ==
    ASSUME KernelInv, NEW rec, GoodRecord(rec), Write(rec)
    PROVE  /\ workload' = workload /\ event_sets' = event_sets /\ seen' \in BOOLEAN
           /\ written' = written + 1 /\ written \in Nat /\ written' \in 0..MaxRecords[workload]
           /\ clock' = rec.ts /\ clock' \in Times /\ clock <= clock' /\ lost' \in 0..MaxLost
           /\ named' \in 0..MaxNamed
           /\ \/ process_record(rec) /\ lost' = lost /\ seen' = (seen \/ rec.kind = "image_load")
              \/ UNCHANGED procVars /\ lost' = lost + 1 /\ lost' # 0
                 /\ seen' = (seen /\ rec.kind # "image_load")
<1>1. written \in Nat /\ MaxRecords[workload] \in Nat /\ lost \in Nat /\ seen \in BOOLEAN
    BY NextFacts, BoundFacts DEF KernelInv
<1>2. workload' = workload /\ event_sets' = event_sets /\ written' = written + 1
      /\ clock' = rec.ts /\ clock' \in Times /\ clock <= clock'
    BY DEF Write, GoodRecord
<1>3. written' \in 0..MaxRecords[workload] /\ named' \in 0..MaxNamed
  <2>1. named \in Nat /\ MaxNamed \in Nat
    BY BoundFacts DEF KernelInv
  <2>2. named' \in Nat /\ named' <= MaxNamed
    BY <2>1 DEF Write
  <2> QED
    BY <1>1, <1>2, <2>1, <2>2 DEF Write
<1>4. CASE process_record(rec) /\ UNCHANGED lost /\ seen' = (seen \/ rec.kind = "image_load")
    BY <1>1, <1>2, <1>3, <1>4 DEF KernelInv
<1>5. CASE /\ lost < MaxLost /\ lost' = lost + 1 /\ UNCHANGED procVars
           /\ seen' = (seen /\ rec.kind # "image_load")
  <2>1. lost' \in 0..MaxLost /\ lost' # 0
    BY <1>1, <1>5, BoundFacts
  <2> QED
    BY <1>1, <1>2, <1>3, <1>5, <2>1
<1> QED
    BY <1>4, <1>5 DEF Write

\* The invariant of the kernel after a record, but for what the actions change.
LEMMA KernelAfter ==
    ASSUME KernelInv, NEW rec, GoodRecord(rec), Write(rec),
           io' \in [Irps -> IoRecords],
           \A i \in Irps : io'[i] = NoIo \/ (io'[i].op \in 1..(written + 1) /\ io'[i].object \in Objects),
           file' \in [Objects -> FileRecords],
           image' = image \/ image' \in [name : Images \cup {None}, since : {rec.ts}]
    PROVE  KernelInv'
<1>1. /\ workload' = workload /\ event_sets' = event_sets /\ seen' \in BOOLEAN
      /\ written' = written + 1 /\ written' \in 0..MaxRecords[workload]
      /\ clock' = rec.ts /\ clock' \in Times /\ clock <= clock' /\ lost' \in 0..MaxLost
      /\ named' \in 0..MaxNamed
    BY WriteFacts
<1>2. image' \in [name : Images \cup {None}, since : Times] /\ image'.since <= clock'
  <2>1. CASE image' = image
    <3>1. image.since \in Nat /\ clock \in Nat /\ clock' \in Nat /\ image.since <= clock
      BY <1>1, BoundFacts DEF KernelInv
    <3> QED
      BY <1>1, <2>1, <3>1 DEF KernelInv
  <2>2. CASE image' \in [name : Images \cup {None}, since : {rec.ts}]
    BY <1>1, <2>2, BoundFacts
  <2> QED
    BY <2>1, <2>2
<1> QED
    BY <1>1, <1>2 DEF KernelInv, IoRecords, FileRecords

LEMMA NoIoFacts == NoIo \in IoRecords /\ NoFile \in FileRecords
BY DEF NoIo, NoFile, IoRecords, FileRecords

\* The facts about a record of a file operation.
IsOperation(rec, p, kind, i, o, key, path) ==
    /\ rec.kind = kind /\ rec.pid = p /\ rec.irp = i /\ rec.object = o /\ rec.path = path
    /\ rec.key = IF kind = "create" THEN None ELSE key
    /\ rec.op = written + 1
    /\ rec.real_path = IF p = file'[o].pid /\ file[o].state # "cleaned"
                       THEN file'[o].path ELSE None
    /\ rec.real_image = IF seen THEN image.name ELSE None

LEMMA FileOperationFacts ==
    ASSUME KernelInv, NEW p \in {Target, Other}, NEW kind \in FileKinds, NEW i \in Irps,
           NEW o \in Objects, NEW key \in Keys, NEW path \in Paths \cup {None},
           FileOperation(p, kind, i, o, key, path)
    PROVE  \E rec : /\ GoodRecord(rec) /\ Write(rec) /\ KernelInv'
                    /\ IsOperation(rec, p, kind, i, o, key, path)
<1>1. Operation(p, kind, i, o, key, path) /\ image' = image
    BY DEF FileOperation
<1>2. /\ io[i] = NoIo
      /\ io' = [io EXCEPT ![i] = [op |-> written + 1, kind |-> kind, pid |-> p, object |-> o]]
    BY <1>1 DEF Operation
<1>3. file \in [Objects -> FileRecords] /\ io \in [Irps -> IoRecords] /\ written \in Nat
    BY NextFacts DEF KernelInv, FileRecords, IoRecords
<1>4. file' \in [Objects -> FileRecords]
  <2>1. CASE kind = "create"
    BY <1>1, <1>3, <2>1 DEF Operation, FileRecords
  <2>2. CASE kind = "read"
    BY <1>1, <1>3, <2>2 DEF Operation
  <2>3. CASE kind = "cleanup"
    BY <1>1, <1>3, <2>3 DEF Operation, FileRecords
  <2>4. CASE kind = "close"
    BY <1>1, <1>3, <2>4, NoIoFacts DEF Operation
  <2>5. CASE kind = "dir"
    BY <1>1, <1>3, <2>5 DEF Operation, FileRecords
  <2> QED
    BY <2>1, <2>2, <2>3, <2>4, <2>5 DEF FileKinds
<1>5. /\ io' \in [Irps -> IoRecords]
      /\ \A j \in Irps : io'[j] = NoIo \/ (io'[j].op \in 1..(written + 1) /\ io'[j].object \in Objects)
  <2>1. [op |-> written + 1, kind |-> kind, pid |-> p, object |-> o] \in IoRecords
    BY <1>3 DEF IoRecords
  <2> QED
    BY <1>2, <1>3, <2>1 DEF KernelInv
<1>6. PICK ts \in NextTime, th \in RunningThreads :
          Write([Record(kind, ts, p, th) EXCEPT
                    !.irp = i, !.object = o, !.path = path,
                    !.key = IF kind = "create" THEN None ELSE key,
                    !.real_path = IF p = file'[o].pid /\ file[o].state # "cleaned"
                                  THEN file'[o].path ELSE None])
    BY DEF FileOperation
<1> DEFINE real == IF p = file'[o].pid /\ file[o].state # "cleaned"
                   THEN file'[o].path ELSE None
           known == IF kind = "create" THEN None ELSE key
           r == Record(kind, ts, p, th)
           rec == [r EXCEPT !.irp = i, !.object = o, !.path = path, !.key = known,
                            !.real_path = real]
<1>7. real \in Paths \cup {None} /\ known \in Keys \cup {None}
    BY <1>4 DEF FileRecords
<1>8. /\ r.kind = kind /\ r.ts = ts /\ r.of = ts /\ r.pid = p /\ r.thread = th
      /\ r.op = written + 1
      /\ r.real_image = (IF seen THEN image.name ELSE None)
      /\ r.real_image \in Images \cup {None}
      /\ r.op \in 1..(written + 1) /\ ts \in Times /\ clock <= ts /\ th \in Threads
    BY NextFacts, RecordFacts
<1>9. /\ rec.kind = kind /\ rec.ts = ts /\ rec.of = ts /\ rec.pid = p /\ rec.thread = th
      /\ rec.op = written + 1 /\ rec.real_image = r.real_image
      /\ rec.irp = i /\ rec.object = o /\ rec.path = path /\ rec.real_path = real
      /\ rec.key = known
    BY <1>8 DEF Record
<1>10. Write(rec)
    BY <1>6
<1> HIDE DEF rec, r, real, known
<1>11. GoodRecord(rec)
    BY <1>7, <1>8, <1>9 DEF GoodRecord, FileKinds, LifeKinds
<1>12. KernelInv'
    BY <1>1, <1>4, <1>5, <1>10, <1>11, KernelAfter
<1>13. IsOperation(rec, p, kind, i, o, key, path)
    BY <1>8, <1>9 DEF IsOperation, real, known
<1> QED
    BY <1>10, <1>11, <1>12, <1>13

IsCompletion(rec, i) ==
    /\ rec.kind = "op_end" /\ rec.irp = i /\ rec.op = io[i].op
    /\ io[i] # NoIo /\ io' = [io EXCEPT ![i] = NoIo]
    /\ file' = file \/ file' = [file EXCEPT ![io[i].object] = NoFile]

LEMMA CompleteFacts ==
    ASSUME KernelInv, NEW i \in Irps, NEW p \in {Target, Other}, Complete(i, p)
    PROVE  \E rec : /\ GoodRecord(rec) /\ Write(rec) /\ KernelInv' /\ IsCompletion(rec, i)
                    /\ rec.real_image = IF seen THEN image.name ELSE None
<1>1. /\ io[i] # NoIo /\ io' = [io EXCEPT ![i] = NoIo] /\ image' = image
      /\ file' = file \/ file' = [file EXCEPT ![io[i].object] = NoFile]
    BY DEF Complete
<1>2. /\ file \in [Objects -> FileRecords] /\ io \in [Irps -> IoRecords] /\ written \in Nat
      /\ io[i].op \in 1..written /\ io[i].object \in Objects
    BY <1>1, NextFacts DEF KernelInv, FileRecords, IoRecords
<1>3. file' \in [Objects -> FileRecords]
    BY <1>1, <1>2, NoIoFacts
<1>4. /\ io' \in [Irps -> IoRecords]
      /\ \A j \in Irps : io'[j] = NoIo \/ (io'[j].op \in 1..(written + 1) /\ io'[j].object \in Objects)
    BY <1>1, <1>2, NoIoFacts DEF KernelInv
<1>5. PICK ts \in NextTime, th \in RunningThreads :
          Write([Record("op_end", ts, p, th) EXCEPT !.irp = i, !.op = io[i].op])
    BY DEF Complete
<1> DEFINE r == Record("op_end", ts, p, th)
           rec == [r EXCEPT !.irp = i, !.op = io[i].op]
<1>6. /\ r.kind = "op_end" /\ r.ts = ts /\ r.of = ts /\ r.pid = p /\ r.thread = th
      /\ r.real_path = None
      /\ r.real_image = (IF seen THEN image.name ELSE None)
      /\ r.real_image \in Images \cup {None} /\ ts \in Times /\ clock <= ts /\ th \in Threads
    BY NextFacts, RecordFacts
<1>7. /\ rec.kind = "op_end" /\ rec.ts = ts /\ rec.of = ts /\ rec.pid = p /\ rec.thread = th
      /\ rec.op = io[i].op /\ rec.real_image = r.real_image /\ rec.irp = i
      /\ rec.real_path = None
    BY <1>6 DEF Record
<1>8. Write(rec)
    BY <1>5
<1> HIDE DEF rec, r
<1>9. rec.op \in 1..(written + 1)
    BY <1>2, <1>7
<1>10. GoodRecord(rec)
    BY <1>6, <1>7, <1>9 DEF GoodRecord, FileKinds, LifeKinds
<1>11. KernelInv'
    BY <1>1, <1>3, <1>4, <1>8, <1>10, KernelAfter
<1> QED
    BY <1>1, <1>6, <1>7, <1>8, <1>10, <1>11 DEF IsCompletion

\* The facts about a record that only names a file.
IsNaming(rec, p, q, path) ==
    /\ rec.kind = "name" /\ rec.pid = p /\ rec.object = q /\ rec.path = path
    /\ rec.irp = None /\ rec.key = None /\ rec.real_path = None
    /\ rec.real_image = (IF seen THEN image.name ELSE None)
    /\ io' = io
    /\ file' = [o \in Objects |->
                  IF o = q /\ file[o].state = "open" /\ file[o].pid = p
                  THEN [file[o] EXCEPT !.path = path] ELSE file[o]]

LEMMA NameFacts ==
    ASSUME KernelInv, NEW p \in {Target, Other}, NEW q \in Pointers, NEW path \in Paths,
           NameFile(p, q, path)
    PROVE  \E rec : GoodRecord(rec) /\ Write(rec) /\ KernelInv' /\ IsNaming(rec, p, q, path)
<1>1. /\ io' = io /\ image' = image
      /\ file' = [o \in Objects |->
                    IF o = q /\ file[o].state = "open" /\ file[o].pid = p
                    THEN [file[o] EXCEPT !.path = path] ELSE file[o]]
    BY DEF NameFile
<1>2. /\ file \in [Objects -> FileRecords] /\ io \in [Irps -> IoRecords] /\ written \in Nat
      /\ \A i \in Irps : io[i] = NoIo \/ (io[i].op \in 1..written /\ io[i].object \in Objects)
    BY NextFacts DEF KernelInv, FileRecords, IoRecords
<1>3. file' \in [Objects -> FileRecords]
  <2>1. ASSUME NEW o \in Objects
        PROVE  file[o] \in FileRecords /\ [file[o] EXCEPT !.path = path] \in FileRecords
    BY <1>2 DEF FileRecords
  <2> QED
    BY <1>1, <2>1
<1>4. \A i \in Irps : io'[i] = NoIo \/ (io'[i].op \in 1..(written + 1) /\ io'[i].object \in Objects)
    BY <1>1, <1>2
<1>5. PICK ts \in NextTime, th \in RunningThreads :
          Write([Record("name", ts, p, th) EXCEPT !.object = q, !.path = path])
    BY DEF NameFile
<1> DEFINE r == Record("name", ts, p, th)
           rec == [r EXCEPT !.object = q, !.path = path]
<1>6. /\ r.kind = "name" /\ r.ts = ts /\ r.of = ts /\ r.pid = p /\ r.thread = th
      /\ r.irp = None /\ r.key = None /\ r.real_path = None /\ r.op \in 1..(written + 1)
      /\ r.real_image = (IF seen THEN image.name ELSE None)
      /\ r.real_image \in Images \cup {None} /\ ts \in Times /\ clock <= ts /\ th \in Threads
    BY NextFacts, RecordFacts
<1>7. /\ rec.kind = "name" /\ rec.ts = ts /\ rec.of = ts /\ rec.pid = p /\ rec.thread = th
      /\ rec.op = r.op /\ rec.real_image = r.real_image /\ rec.irp = None
      /\ rec.key = None /\ rec.real_path = None /\ rec.object = q /\ rec.path = path
    BY <1>6 DEF Record
<1>8. Write(rec)
    BY <1>5
<1> HIDE DEF rec, r
<1>9. GoodRecord(rec)
    BY <1>6, <1>7 DEF GoodRecord, FileKinds, LifeKinds
<1>10. KernelInv'
    BY <1>1, <1>2, <1>3, <1>4, <1>8, <1>9, KernelAfter
<1>11. IsNaming(rec, p, q, path)
    BY <1>1, <1>6, <1>7 DEF IsNaming
<1> QED
    BY <1>8, <1>9, <1>10, <1>11

\* What a record tells of the image at the base address.
ImageStep(rec) ==
    \/ /\ rec.kind = "image_load" /\ rec.pid = Target
       /\ image.name = None /\ image.since < rec.ts
       /\ image' = [name |-> rec.name, since |-> rec.ts] /\ rec.real_image = rec.name
    \/ /\ rec.kind = "image_unload" /\ rec.pid = Target
       /\ image' = [name |-> None, since |-> rec.ts]
       /\ rec.real_image = IF seen THEN image.name ELSE None
    \/ /\ rec.kind \notin {"image_load", "image_unload"}
       /\ image' = image
       /\ rec.real_image = IF seen THEN image.name ELSE None

\* What a record tells of files and their operations.
IoStep(rec) ==
    \/ \E p \in {Target, Other}, kind \in FileKinds, i \in Irps, o \in Objects, key \in Keys,
          path \in Paths \cup {None} :
          Operation(p, kind, i, o, key, path) /\ IsOperation(rec, p, kind, i, o, key, path)
    \/ \E p \in {Target, Other}, q \in Pointers, path \in Paths : IsNaming(rec, p, q, path)
    \/ \E i \in Irps : IsCompletion(rec, i)
    \/ rec.kind \in LifeKinds \cup {"stack_walk"} /\ UNCHANGED <<io, file>>

LEMMA QuietFacts ==
    ASSUME KernelInv, UNCHANGED <<io, file>>, NEW rec, GoodRecord(rec), Write(rec), ImageStep(rec),
           rec.kind \in LifeKinds \cup {"stack_walk"}
    PROVE  KernelInv' /\ IoStep(rec)
<1>1. /\ io' \in [Irps -> IoRecords] /\ file' \in [Objects -> FileRecords]
      /\ \A i \in Irps : io'[i] = NoIo \/ (io'[i].op \in 1..(written + 1) /\ io'[i].object \in Objects)
    BY NextFacts DEF KernelInv, IoRecords, FileRecords
<1>2. image' = image \/ image' \in [name : Images \cup {None}, since : {rec.ts}]
    BY DEF ImageStep, GoodRecord
<1> QED
    BY <1>1, <1>2, KernelAfter DEF IoStep

LEMMA NextRecord ==
    ASSUME KernelInv, EtwNext
    PROVE  \E rec : GoodRecord(rec) /\ Write(rec) /\ KernelInv' /\ IoStep(rec) /\ ImageStep(rec)
<1>1. ASSUME NEW p \in {Target, Other}, NEW i \in Irps, NEW o \in Objects, NEW kind \in FileKinds,
             NEW key \in Keys, NEW path \in Paths \cup {None}, FileOperation(p, kind, i, o, key, path)
      PROVE  \E rec : GoodRecord(rec) /\ Write(rec) /\ KernelInv' /\ IoStep(rec) /\ ImageStep(rec)
  <2>1. PICK rec : /\ GoodRecord(rec) /\ Write(rec) /\ KernelInv'
                   /\ IsOperation(rec, p, kind, i, o, key, path)
    BY <1>1, FileOperationFacts
  <2>2. Operation(p, kind, i, o, key, path) /\ image' = image
    BY <1>1 DEF FileOperation
  <2>3. IoStep(rec)
    BY <2>1, <2>2 DEF IoStep
  <2>4. ImageStep(rec)
    BY <2>1, <2>2 DEF ImageStep, IsOperation, FileKinds
  <2> QED
    BY <2>1, <2>3, <2>4
<1>2. ASSUME NEW i \in Irps, NEW p \in {Target, Other}, Complete(i, p)
      PROVE  \E rec : GoodRecord(rec) /\ Write(rec) /\ KernelInv' /\ IoStep(rec) /\ ImageStep(rec)
  <2>1. PICK rec : /\ GoodRecord(rec) /\ Write(rec) /\ KernelInv' /\ IsCompletion(rec, i)
                   /\ rec.real_image = IF seen THEN image.name ELSE None
    BY <1>2, CompleteFacts
  <2>2. image' = image
    BY <1>2 DEF Complete
  <2>3. IoStep(rec) /\ ImageStep(rec)
    BY <2>1, <2>2 DEF IoStep, ImageStep, IsCompletion
  <2> QED
    BY <2>1, <2>3
<1>3. ASSUME NEW n \in Images, LoadImage(n)
      PROVE  \E rec : GoodRecord(rec) /\ Write(rec) /\ KernelInv' /\ IoStep(rec) /\ ImageStep(rec)
  <2>1. PICK ts \in NextTime, th \in RunningThreads :
            /\ ts > image.since /\ image' = [name |-> n, since |-> ts]
            /\ Write([Record("image_load", ts, Target, th) EXCEPT !.name = n, !.real_image = n])
    BY <1>3 DEF LoadImage
  <2> DEFINE r == Record("image_load", ts, Target, th)
             rec == [r EXCEPT !.name = n, !.real_image = n]
  <2>2. /\ r.kind = "image_load" /\ r.ts = ts /\ r.of = ts /\ r.pid = Target /\ r.thread = th
        /\ r.irp = None /\ r.real_path = None
        /\ r.op \in 1..(written + 1) /\ ts \in Times /\ clock <= ts /\ th \in Threads
    <3>1. ts \in Times /\ clock <= ts /\ th \in Threads
      BY NextFacts
    <3> QED
      BY <3>1, RecordFacts
  <2>3. /\ rec.kind = "image_load" /\ rec.ts = ts /\ rec.of = ts /\ rec.pid = Target
        /\ rec.thread = th /\ rec.irp = None /\ rec.real_path = None /\ rec.op = r.op
        /\ rec.name = n /\ rec.real_image = n
    BY <2>2 DEF Record
  <2>4. Write(rec)
    BY <2>1
  <2> HIDE DEF rec, r
  <2>5. GoodRecord(rec)
    BY <2>2, <2>3 DEF GoodRecord, LifeKinds, FileKinds
  <2>6. ImageStep(rec) /\ UNCHANGED <<io, file>> /\ rec.kind \in LifeKinds
    <3>1. image.since \in Nat /\ ts \in Nat
      BY <2>2, BoundFacts DEF KernelInv
    <3> QED
      BY <1>3, <2>1, <2>3, <3>1 DEF LoadImage, ImageStep, LifeKinds
  <2> QED
    BY <2>4, <2>5, <2>6, QuietFacts
<1>4. ASSUME NEW kind \in {"image_unload", "lifecycle", "stack_walk"}, NEW p \in {Target, Other},
             NEW ts \in Times, clock <= ts, NEW th \in RunningThreads, NEW of \in Times,
             Write([Record(kind, ts, p, th) EXCEPT !.of = of]), UNCHANGED <<io, file>>,
             \/ kind = "image_unload" /\ p = Target /\ image' = [name |-> None, since |-> ts]
             \/ kind # "image_unload" /\ image' = image
      PROVE  \E rec : GoodRecord(rec) /\ Write(rec) /\ KernelInv' /\ IoStep(rec) /\ ImageStep(rec)
  <2> DEFINE r == Record(kind, ts, p, th)
             rec == [r EXCEPT !.of = of]
  <2>1. /\ r.kind = kind /\ r.ts = ts /\ r.pid = p /\ r.thread = th
        /\ r.irp = None /\ r.real_path = None /\ r.op \in 1..(written + 1)
        /\ r.real_image = (IF seen THEN image.name ELSE None)
        /\ r.real_image \in Images \cup {None} /\ th \in Threads
    BY <1>4, NextFacts, RecordFacts
  <2>2. /\ rec.kind = kind /\ rec.ts = ts /\ rec.of = of /\ rec.pid = p /\ rec.thread = th
        /\ rec.irp = None /\ rec.real_path = None /\ rec.op = r.op
        /\ rec.real_image = r.real_image
    BY <2>1 DEF Record
  <2>3. Write(rec)
    BY <1>4
  <2> HIDE DEF rec, r
  <2>4. GoodRecord(rec)
    BY <1>4, <2>1, <2>2 DEF GoodRecord, LifeKinds, FileKinds
  <2>5. ImageStep(rec) /\ rec.kind \in LifeKinds \cup {"stack_walk"}
    BY <1>4, <2>1, <2>2 DEF ImageStep, LifeKinds
  <2> QED
    BY <1>4, <2>3, <2>4, <2>5, QuietFacts
<1>5. ASSUME NEW kind \in {"image_unload", "lifecycle"}, NEW ts, NEW p, NEW th
      PROVE  Record(kind, ts, p, th) = [Record(kind, ts, p, th) EXCEPT !.of = ts]
    BY DEF Record
<1>6. CASE UnloadImage
  <2>1. PICK ts \in NextTime, th \in RunningThreads :
            /\ image' = [name |-> None, since |-> ts]
            /\ Write(Record("image_unload", ts, Target, th))
    BY <1>6 DEF UnloadImage
  <2>2. /\ Write([Record("image_unload", ts, Target, th) EXCEPT !.of = ts])
        /\ UNCHANGED <<io, file>> /\ ts \in Times /\ clock <= ts
    BY <1>5, <1>6, <2>1, NextFacts DEF UnloadImage
  <2> QED
    BY <1>4, <2>1, <2>2
<1>7. ASSUME NEW p \in {Target, Other}, Lifecycle(p)
      PROVE  \E rec : GoodRecord(rec) /\ Write(rec) /\ KernelInv' /\ IoStep(rec) /\ ImageStep(rec)
  <2>1. PICK ts \in NextTime, th \in RunningThreads : Write(Record("lifecycle", ts, p, th))
    BY <1>7 DEF Lifecycle
  <2>2. /\ Write([Record("lifecycle", ts, p, th) EXCEPT !.of = ts])
        /\ UNCHANGED <<io, file, image>> /\ ts \in Times /\ clock <= ts
    BY <1>5, <1>7, <2>1, NextFacts DEF Lifecycle
  <2> QED
    BY <1>4, <2>1, <2>2
<1>8. ASSUME NEW p \in {Target, Other}, NEW ts \in Times, WalkStack(p, ts)
      PROVE  \E rec : GoodRecord(rec) /\ Write(rec) /\ KernelInv' /\ IoStep(rec) /\ ImageStep(rec)
  <2>1. PICK th \in RunningThreads : Write([Record("stack_walk", clock, p, th) EXCEPT !.of = ts])
    BY <1>8 DEF WalkStack
  <2>2. UNCHANGED <<io, file, image>> /\ clock \in Times /\ clock <= clock
    BY <1>8, NextFacts DEF WalkStack, KernelInv
  <2> QED
    BY <1>4, <2>1, <2>2
<1>9. ASSUME NEW p \in {Target, Other}, NEW q \in Pointers, NEW path \in Paths,
             NameFile(p, q, path)
      PROVE  \E rec : GoodRecord(rec) /\ Write(rec) /\ KernelInv' /\ IoStep(rec) /\ ImageStep(rec)
  <2>1. PICK rec : GoodRecord(rec) /\ Write(rec) /\ KernelInv' /\ IsNaming(rec, p, q, path)
    BY <1>9, NameFacts
  <2>2. image' = image
    BY <1>9 DEF NameFile
  <2>3. IoStep(rec)
    BY <2>1 DEF IoStep
  <2>4. ImageStep(rec)
    BY <2>1, <2>2 DEF ImageStep, IsNaming
  <2> QED
    BY <2>1, <2>3, <2>4
<1> QED
    BY <1>1, <1>2, <1>3, <1>6, <1>7, <1>8, <1>9 DEF EtwNext, FileKinds

-----------------------------------------------------------------------------
(* Rows. *)

RowKinds == FileRows \cup LifeKinds

LEMMA RowFacts ==
    ASSUME NEW rec, GoodRecord(rec), rec.kind \in RowKinds, NEW path \in Paths \cup {None}
    PROVE  LET r == Row(rec, path)
           IN  /\ r \in RowRecords /\ r.ts = rec.ts /\ r.op = rec.op /\ r.done = 0
               /\ r.irp = rec.irp /\ r.path = path /\ r.real_path = rec.real_path
               /\ r.real_image = rec.real_image
<1>1. /\ rec.ts \in Times /\ rec.thread \in Threads /\ rec.op \in Nat
      /\ rec.irp \in Irps \cup {None}
      /\ rec.real_path \in Paths \cup {None} /\ rec.real_image \in Images \cup {None}
    BY DEF GoodRecord, RowKinds, LifeKinds, FileKinds, FileRows
<1> QED
    BY <1>1 DEF Row, RowRecords, RowKinds

LEMMA RowTypes ==
    ASSUME RowsOK, NEW k \in DOMAIN rows
    PROVE  /\ rows[k] \in RowRecords /\ rows[k].ts \in Nat /\ rows[k].done \in Nat
           /\ rows[k].done <= written /\ rows[k].ts <= clock /\ rows[k].op \in 1..written
<1>1. rows[k] \in RowRecords /\ rows[k].done <= written /\ rows[k].ts <= clock
      /\ rows[k].op \in 1..written
    BY DEF RowsOK
<1>2. rows[k].ts \in Times /\ rows[k].done \in Nat
    BY <1>1 DEF RowRecords
<1> QED
    BY <1>1, <1>2, BoundFacts

\* A row is added.
LEMMA RowAdded ==
    ASSUME KernelInv, RowsOK, NEW rec, GoodRecord(rec), rec.kind \in RowKinds,
           NEW path \in Paths \cup {None}, written' = written + 1, clock' = rec.ts,
           rows' = Append(rows, Row(rec, path))
    PROVE  /\ RowsOK' /\ Len(rows) \in Nat /\ Len(rows') = Len(rows) + 1
           /\ DOMAIN rows = 1..Len(rows)
           /\ DOMAIN rows' = DOMAIN rows \cup {Len(rows) + 1} /\ Len(rows) + 1 \notin DOMAIN rows
           /\ rows'[Len(rows) + 1] = Row(rec, path)
           /\ \A k \in DOMAIN rows : rows'[k] = rows[k]
<1>1. Row(rec, path) \in RowRecords
    BY RowFacts
<1>2. /\ rows' \in Seq(RowRecords) /\ Len(rows) \in Nat /\ Len(rows') = Len(rows) + 1
      /\ DOMAIN rows = 1..Len(rows)
      /\ DOMAIN rows' = DOMAIN rows \cup {Len(rows) + 1} /\ Len(rows) + 1 \notin DOMAIN rows
      /\ rows'[Len(rows) + 1] = Row(rec, path)
      /\ \A k \in DOMAIN rows : rows'[k] = rows[k]
    BY <1>1, AppendFacts DEF RowsOK
<1>3. ASSUME NEW k \in DOMAIN rows'
      PROVE  rows'[k].op \in 1..written' /\ rows'[k].done <= written' /\ rows'[k].ts <= clock'
  <2>1. written \in Nat /\ clock \in Nat /\ clock <= clock' /\ clock' \in Nat
    BY NextFacts, BoundFacts DEF GoodRecord
  <2>2. CASE k \in DOMAIN rows
    <3>1. /\ rows[k].ts \in Nat /\ rows[k].done \in Nat
          /\ rows[k].done <= written /\ rows[k].ts <= clock /\ rows[k].op \in 1..written
      BY <2>2, RowTypes
    <3> QED
      BY <1>2, <2>1, <2>2, <3>1
  <2>3. CASE k = Len(rows) + 1
    BY <1>2, <2>1, <2>3, RowFacts DEF GoodRecord
  <2> QED
    BY <1>2, <2>2, <2>3
<1> QED
    BY <1>2, <1>3 DEF RowsOK

\* The completion of a row is filled in.
LEMMA RowCompleted ==
    ASSUME KernelInv, RowsOK, NEW rec, GoodRecord(rec), NEW k \in DOMAIN rows,
           written' = written + 1, clock' = rec.ts,
           rows' = [rows EXCEPT ![k].done = rec.op]
    PROVE  /\ RowsOK' /\ Len(rows') = Len(rows) /\ DOMAIN rows' = DOMAIN rows
           /\ rows'[k].done = rec.op
           /\ \A j \in DOMAIN rows : j # k => rows'[j] = rows[j]
           /\ \A j \in DOMAIN rows :
                 /\ rows'[j].irp = rows[j].irp /\ rows'[j].op = rows[j].op
                 /\ rows'[j].ts = rows[j].ts /\ rows'[j].path = rows[j].path
                 /\ rows'[j].real_path = rows[j].real_path
                 /\ rows'[j].real_image = rows[j].real_image
<1>1. rows \in Seq(RowRecords) /\ rows[k] \in RowRecords /\ rec.op \in Nat
    BY DEF RowsOK, GoodRecord
<1> DEFINE new == [rows[k] EXCEPT !.done = rec.op]
<1>2. /\ new \in RowRecords /\ new.done = rec.op /\ new.irp = rows[k].irp
      /\ new.op = rows[k].op /\ new.ts = rows[k].ts /\ new.path = rows[k].path
      /\ new.real_path = rows[k].real_path /\ new.real_image = rows[k].real_image
    BY <1>1 DEF RowRecords
<1>3. rows' = [rows EXCEPT ![k] = new]
    BY <1>1
<1> HIDE DEF new
<1>4. /\ rows' \in Seq(RowRecords) /\ Len(rows') = Len(rows) /\ DOMAIN rows' = DOMAIN rows
      /\ rows'[k] = new /\ \A j \in DOMAIN rows : j # k => rows'[j] = rows[j]
    BY <1>1, <1>2, <1>3
<1>5. ASSUME NEW j \in DOMAIN rows'
      PROVE  rows'[j].op \in 1..written' /\ rows'[j].done <= written' /\ rows'[j].ts <= clock'
  <2>1. /\ written \in Nat /\ clock \in Nat /\ clock <= clock' /\ clock' \in Nat
        /\ rec.op \in 1..(written + 1)
    BY NextFacts, BoundFacts DEF GoodRecord
  <2>2. /\ rows[j].ts \in Nat /\ rows[j].done \in Nat
        /\ rows[j].done <= written /\ rows[j].ts <= clock /\ rows[j].op \in 1..written
    BY <1>4, RowTypes
  <2>3. CASE j = k
    <3>1. /\ rows'[j].op \in 1..written /\ rows'[j].done \in 1..(written + 1)
          /\ rows'[j].ts \in Nat /\ rows'[j].ts <= clock
      BY <1>2, <1>4, <2>1, <2>2, <2>3
    <3> QED
      BY <2>1, <3>1
  <2>4. CASE j # k
    BY <1>4, <2>1, <2>2, <2>4
  <2> QED
    BY <2>3, <2>4
<1> QED
    BY <1>2, <1>4, <1>5 DEF RowsOK

LEMMA RowsKept ==
    ASSUME KernelInv, RowsOK, NEW rec, GoodRecord(rec), written' = written + 1, clock' = rec.ts,
           rows' = rows
    PROVE  RowsOK'
<1>1. written \in Nat /\ clock \in Nat /\ clock <= clock' /\ clock' \in Nat
    BY NextFacts, BoundFacts DEF GoodRecord
<1>2. \A k \in DOMAIN rows :
          /\ rows[k].ts \in Nat /\ rows[k].done \in Nat
          /\ rows[k].done <= written /\ rows[k].ts <= clock /\ rows[k].op \in 1..written
    BY RowTypes
<1> QED
    BY <1>1, <1>2 DEF RowsOK

\* The path of a file row, and the cache after it.
LEMMA CacheFacts ==
    ASSUME RowsInv, NEW rec, GoodRecord(rec), rec.kind \in FileRows \cup {"close"}
    PROVE  LET cache == cache_file_path(rec)
           IN  /\ cache \in [Pointers -> Paths \cup {None}]
               /\ resolve_file_path(cache, rec) \in Paths \cup {None}
               /\ remove_file_path(cache, rec) \in [Pointers -> Paths \cup {None}]
               /\ remove_file_path(file_paths_by_pointer, rec) \in [Pointers -> Paths \cup {None}]
               /\ rec.irp \in Irps \cup {None} /\ rec.object \in Pointers
               /\ rec.key \in Keys \cup {None}
<1>1. /\ rec.irp \in Irps \cup {None} /\ rec.object \in Pointers /\ rec.key \in Keys \cup {None}
      /\ rec.path \in Paths \cup {None}
    BY DEF GoodRecord, FileRows, FileKinds, Pointers
<1>2. file_paths_by_pointer \in [Pointers -> Paths \cup {None}]
    BY DEF RowsInv, RowsOK
<1>3. ASSUME NEW f \in [Pointers -> Paths \cup {None}], NEW path \in Paths \cup {None}
      PROVE  PathsWith(f, rec, path) \in [Pointers -> Paths \cup {None}]
    BY DEF PathsWith
<1> DEFINE cache == cache_file_path(rec)
<1>4. cache \in [Pointers -> Paths \cup {None}]
    BY <1>1, <1>2, <1>3 DEF cache_file_path
<1> HIDE DEF cache
<1>5. resolve_file_path(cache, rec) \in Paths \cup {None}
  <2>1. cache[rec.object] \in Paths \cup {None}
    BY <1>1, <1>4
  <2>2. rec.key \in Keys => cache[rec.key] \in Paths \cup {None}
    BY <1>4 DEF Pointers
  <2> QED
    BY <1>1, <2>1, <2>2 DEF resolve_file_path
<1>6. /\ remove_file_path(cache, rec) \in [Pointers -> Paths \cup {None}]
      /\ remove_file_path(file_paths_by_pointer, rec) \in [Pointers -> Paths \cup {None}]
    BY <1>2, <1>3, <1>4 DEF remove_file_path
<1> QED
    BY <1>1, <1>4, <1>5, <1>6 DEF cache

\* Rows, pointers and counters, whatever the processor does with a record.
LEMMA RowsInvAfter ==
    ASSUME KernelInv, RowsInv, NEW rec, GoodRecord(rec), written' = written + 1, clock' = rec.ts,
           UNCHANGED procVars \/ AddsLife(rec) \/ TakesFile(rec) \/ TakesStack(rec)
    PROVE  RowsInv'
<1>0. /\ RowsOK /\ written \in Nat
      /\ pending_file_irps \in [Irps -> 0..Len(rows)] /\ ignored_file_irps \subseteq Irps
      /\ file_paths_by_pointer \in [Pointers -> Paths \cup {None}]
      /\ matched_op_end \in 0..written /\ unmatched_op_end \in 0..written
      /\ reused_irp \in 0..written /\ Len(rows) \in Nat
      /\ \A i \in Irps : pending_file_irps[i] # 0 => pending_file_irps[i] \in DOMAIN rows
    BY NextFacts DEF RowsInv, RowsOK
<1>1. CASE rows' = rows /\ UNCHANGED ioVars
    BY <1>0, <1>1, RowsKept DEF RowsInv, RowsOK, ioVars
<1>2. CASE AddsLife(rec) /\ rows' # rows
  <2>1. rows' = Append(rows, Row(rec, None)) /\ UNCHANGED ioVars /\ rec.kind \in RowKinds
    BY <1>2 DEF AddsLife, RowKinds
  <2>2. RowsOK' /\ Len(rows') = Len(rows) + 1
    BY <1>0, <2>1, RowAdded
  <2>3. pending_file_irps \in [Irps -> 0..Len(rows')]
    BY <1>0, <2>2
  <2> QED
    BY <1>0, <2>1, <2>2, <2>3 DEF RowsInv, RowsOK, ioVars
<1>3. CASE TakesFile(rec) /\ rec.kind = "op_end"
  <2>1. merge_file_io_completion(rec) /\ rec.irp \in Irps
    BY <1>3 DEF TakesFile, FileRows, GoodRecord
  <2>2. CASE pending_file_irps[rec.irp] # 0
    <3>1. RowsOK' /\ Len(rows') = Len(rows)
      BY <1>0, <2>1, <2>2, RowCompleted DEF merge_file_io_completion
    <3> QED
      BY <1>0, <2>1, <2>2, <3>1 DEF merge_file_io_completion, RowsInv, RowsOK
  <2>3. CASE pending_file_irps[rec.irp] = 0
    <3>1. RowsOK' /\ rows' = rows
      BY <1>0, <2>1, <2>3, RowsKept DEF merge_file_io_completion
    <3> QED
      BY <1>0, <2>1, <2>3, <3>1 DEF merge_file_io_completion, RowsInv, RowsOK
  <2> QED
    BY <2>2, <2>3
<1>4. CASE TakesFile(rec) /\ rec.kind = "close"
  <2>1. ignore_file_io_close(rec) /\ rec.irp \in Irps
    BY <1>4 DEF TakesFile, GoodRecord, FileKinds, FileRows
  <2>2. RowsOK' /\ rows' = rows
    BY <1>0, <2>1, RowsKept DEF ignore_file_io_close
  <2>3. file_paths_by_pointer' \in [Pointers -> Paths \cup {None}]
    BY <1>4, <2>1, CacheFacts DEF ignore_file_io_close
  <2> QED
    BY <1>0, <2>1, <2>2, <2>3 DEF ignore_file_io_close, RowsInv, RowsOK
<1>5. CASE TakesFile(rec) /\ rec.kind \in FileRows
  <2>1. AddFileRow(rec) /\ rec.kind \in RowKinds
    BY <1>5 DEF TakesFile, RowKinds, FileRows
  <2> DEFINE cache == cache_file_path(rec)
             path == resolve_file_path(cache, rec)
  <2>2. /\ cache \in [Pointers -> Paths \cup {None}] /\ path \in Paths \cup {None}
        /\ remove_file_path(cache, rec) \in [Pointers -> Paths \cup {None}]
    BY <1>5, CacheFacts
  <2>3. /\ rows' = Append(rows, Row(rec, path))
        /\ pending_file_irps' = [i \in Irps |-> IF i = rec.irp THEN Len(rows) + 1
                                                              ELSE pending_file_irps[i]]
        /\ reused_irp' = IF rec.irp \in Irps /\ pending_file_irps[rec.irp] # 0
                         THEN reused_irp + 1 ELSE reused_irp
        /\ file_paths_by_pointer' \in [Pointers -> Paths \cup {None}]
        /\ UNCHANGED <<ignored_file_irps, matched_op_end, unmatched_op_end>>
    BY <2>1, <2>2 DEF AddFileRow
  <2> HIDE DEF cache, path
  <2>4. RowsOK' /\ Len(rows') = Len(rows) + 1
    BY <1>0, <2>1, <2>2, <2>3, RowAdded
  <2>5. pending_file_irps' \in [Irps -> 0..Len(rows')]
    <3>1. 0..Len(rows) \subseteq 0..(Len(rows) + 1) /\ Len(rows) + 1 \in 0..(Len(rows) + 1)
      BY <1>0
    <3>2. ASSUME NEW i \in Irps PROVE pending_file_irps'[i] \in 0..(Len(rows) + 1)
      BY <1>0, <2>3, <3>1
    <3> QED
      BY <1>0, <2>3, <2>4, <3>2
  <2>6. reused_irp' \in 0..written'
    BY <1>0, <2>3
  <2> QED
    BY <1>0, <2>3, <2>4, <2>5, <2>6 DEF RowsInv, RowsOK
<1>6. CASE TakesStack(rec)
    BY <1>1, <1>6 DEF TakesStack, process_stack_walk_event
<1>7. AddsLife(rec) => UNCHANGED ioVars
    BY DEF AddsLife
<1>8. UNCHANGED procVars => rows' = rows /\ UNCHANGED ioVars
    BY DEF procVars
<1>9. TakesFile(rec) => rec.kind \in {"op_end", "close"} \cup FileRows
    BY DEF TakesFile
<1> QED
    BY <1>1, <1>2, <1>3, <1>4, <1>5, <1>6, <1>7, <1>8, <1>9

-----------------------------------------------------------------------------
(* Request packets. *)

\* The rows that a packet is named in.
IrpRows == {k \in DOMAIN rows : rows[k].irp # None}

LEMMA IoFacts ==
    ASSUME RowsInv, IoInv
    PROVE  /\ IsFiniteSet(WaitingIrps) /\ IsFiniteSet(IrpRows)
           /\ Cardinality(WaitingIrps) \in Nat /\ Cardinality(IrpRows) \in Nat
           /\ Cardinality(IrpRows) = matched_op_end + reused_irp + Cardinality(WaitingIrps)
           /\ matched_op_end \in Nat /\ reused_irp \in Nat /\ Len(rows) \in Nat
           /\ DOMAIN rows = 1..Len(rows)
           /\ pending_file_irps \in [Irps -> 0..Len(rows)]
<1>1. /\ Len(rows) \in Nat /\ DOMAIN rows = 1..Len(rows)
      /\ pending_file_irps \in [Irps -> 0..Len(rows)]
      /\ matched_op_end \in Nat /\ reused_irp \in Nat
    BY DEF RowsInv, RowsOK
<1>2. IsFiniteSet(DOMAIN rows)
    BY <1>1, FS_Interval
<1>3. IsFiniteSet(IrpRows) /\ IsFiniteSet(WaitingIrps)
    BY <1>2, FS_Subset DEF IrpRows, IoInv
<1>4. Cardinality(IrpRows) = matched_op_end + reused_irp + Cardinality(WaitingIrps)
    BY DEF IoInv, IoAccounting, IrpRows, WaitingIrps
<1> QED
    BY <1>1, <1>3, <1>4, FS_CardinalityType

\* The set of waiting packets when one begins to wait, or no longer waits.
LEMMA WaitingAfter ==
    ASSUME RowsInv, IoInv, NEW i \in Irps, NEW n \in Nat,
           pending_file_irps' = [pending_file_irps EXCEPT ![i] = n]
    PROVE  /\ IsFiniteSet(WaitingIrps') /\ Cardinality(WaitingIrps') \in Nat
           /\ n = 0 => Cardinality(WaitingIrps') = Cardinality(WaitingIrps)
                            - (IF pending_file_irps[i] # 0 THEN 1 ELSE 0)
           /\ n # 0 => Cardinality(WaitingIrps') = Cardinality(WaitingIrps)
                            + (IF pending_file_irps[i] # 0 THEN 0 ELSE 1)
<1>0. IsFiniteSet(WaitingIrps) /\ Cardinality(WaitingIrps) \in Nat
      /\ pending_file_irps \in [Irps -> 0..Len(rows)]
    BY IoFacts
<1>1. i \in WaitingIrps <=> pending_file_irps[i] # 0
    BY DEF WaitingIrps
<1>2. CASE n = 0
  <2>1. WaitingIrps' = WaitingIrps \ {i}
    BY <1>0, <1>2 DEF WaitingIrps
  <2>2. /\ IsFiniteSet(WaitingIrps')
        /\ Cardinality(WaitingIrps') = IF i \in WaitingIrps THEN Cardinality(WaitingIrps) - 1
                                      ELSE Cardinality(WaitingIrps)
    BY <1>0, <2>1, FS_RemoveElement
  <2>3. Cardinality(WaitingIrps') \in Nat
    BY <2>2, FS_CardinalityType
  <2> QED
    BY <1>0, <1>1, <1>2, <2>2, <2>3
<1>3. CASE n # 0
  <2>1. WaitingIrps' = WaitingIrps \cup {i}
    BY <1>0, <1>3 DEF WaitingIrps
  <2>2. /\ IsFiniteSet(WaitingIrps')
        /\ Cardinality(WaitingIrps') = IF i \in WaitingIrps THEN Cardinality(WaitingIrps)
                                      ELSE Cardinality(WaitingIrps) + 1
    BY <1>0, <2>1, FS_AddElement
  <2>3. Cardinality(WaitingIrps') \in Nat
    BY <2>2, FS_CardinalityType
  <2> QED
    BY <1>0, <1>1, <1>3, <2>2, <2>3
<1> QED
    BY <1>2, <1>3

LEMMA IoInvAfter ==
    ASSUME KernelInv, RowsInv, IoInv, NEW rec, GoodRecord(rec), written' = written + 1,
           clock' = rec.ts,
           UNCHANGED procVars \/ AddsLife(rec) \/ TakesFile(rec) \/ TakesStack(rec)
    PROVE  IoInv'
<1>0. /\ IsFiniteSet(WaitingIrps) /\ IsFiniteSet(IrpRows)
      /\ Cardinality(WaitingIrps) \in Nat /\ Cardinality(IrpRows) \in Nat
      /\ Cardinality(IrpRows) = matched_op_end + reused_irp + Cardinality(WaitingIrps)
      /\ matched_op_end \in Nat /\ reused_irp \in Nat /\ Len(rows) \in Nat
      /\ DOMAIN rows = 1..Len(rows) /\ pending_file_irps \in [Irps -> 0..Len(rows)]
      /\ RowsOK
    BY IoFacts DEF RowsInv, RowsOK
<1>1. ASSUME IsFiniteSet(WaitingIrps'),
             Cardinality(IrpRows') = matched_op_end' + reused_irp' + Cardinality(WaitingIrps')
      PROVE  IoInv'
    BY <1>1 DEF IoInv, IoAccounting, IrpRows, WaitingIrps
<1>2. CASE IrpRows' = IrpRows /\ UNCHANGED ioVars
  <2>1. WaitingIrps' = WaitingIrps /\ matched_op_end' = matched_op_end /\ reused_irp' = reused_irp
    BY <1>2 DEF WaitingIrps, ioVars
  <2> QED
    BY <1>0, <1>1, <1>2, <2>1
<1>3. CASE rows' = rows /\ UNCHANGED ioVars
  <2>1. IrpRows' = IrpRows
    BY <1>3 DEF IrpRows
  <2> QED
    BY <1>2, <1>3, <2>1
<1>4. CASE AddsLife(rec) /\ rows' # rows
  <2>1. /\ rows' = Append(rows, Row(rec, None)) /\ UNCHANGED ioVars /\ rec.kind \in RowKinds
        /\ rec.irp = None
    BY <1>4 DEF AddsLife, RowKinds, GoodRecord
  <2>2. /\ DOMAIN rows' = DOMAIN rows \cup {Len(rows) + 1}
        /\ rows'[Len(rows) + 1] = Row(rec, None)
        /\ \A k \in DOMAIN rows : rows'[k] = rows[k]
    BY <1>0, <2>1, RowAdded
  <2>3. rows'[Len(rows) + 1].irp = None
    BY <2>1, <2>2, RowFacts
  <2>4. IrpRows' = IrpRows
    BY <2>2, <2>3 DEF IrpRows
  <2> QED
    BY <1>2, <2>1, <2>4
<1>5. CASE TakesFile(rec) /\ rec.kind = "op_end"
  <2>1. merge_file_io_completion(rec) /\ rec.irp \in Irps
    BY <1>5 DEF TakesFile, FileRows, GoodRecord
  <2>2. CASE pending_file_irps[rec.irp] # 0
    <3> DEFINE k == pending_file_irps[rec.irp]
    <3>1. k \in DOMAIN rows
      BY <1>0, <2>1, <2>2
    <3>2. /\ rows' = [rows EXCEPT ![k].done = rec.op] /\ matched_op_end' = matched_op_end + 1
          /\ pending_file_irps' = [pending_file_irps EXCEPT ![rec.irp] = 0]
          /\ reused_irp' = reused_irp
      BY <2>1, <2>2 DEF merge_file_io_completion
    <3>3. DOMAIN rows' = DOMAIN rows /\ \A j \in DOMAIN rows : rows'[j].irp = rows[j].irp
      BY <1>0, <3>1, <3>2, RowCompleted
    <3>4. IrpRows' = IrpRows
      BY <3>3 DEF IrpRows
    <3>5. /\ IsFiniteSet(WaitingIrps') /\ Cardinality(WaitingIrps') \in Nat
          /\ Cardinality(WaitingIrps') = Cardinality(WaitingIrps) - 1
      BY <2>1, <2>2, <3>2, WaitingAfter
    <3>6. Cardinality(IrpRows') = matched_op_end' + reused_irp' + Cardinality(WaitingIrps')
      BY <1>0, <3>2, <3>4, <3>5
    <3> QED
      BY <1>1, <3>5, <3>6
  <2>3. CASE pending_file_irps[rec.irp] = 0
    <3>1. IrpRows' = IrpRows /\ WaitingIrps' = WaitingIrps
          /\ matched_op_end' = matched_op_end /\ reused_irp' = reused_irp
      BY <2>1, <2>3 DEF merge_file_io_completion, IrpRows, WaitingIrps
    <3> QED
      BY <1>0, <1>1, <3>1
  <2> QED
    BY <2>2, <2>3
<1>6. CASE TakesFile(rec) /\ rec.kind = "close"
  <2>1. ignore_file_io_close(rec) /\ rec.irp \in Irps
    BY <1>6 DEF TakesFile, GoodRecord, FileKinds, FileRows
  <2>2. IrpRows' = IrpRows /\ matched_op_end' = matched_op_end
    BY <2>1 DEF ignore_file_io_close, IrpRows
  <2>3. /\ IsFiniteSet(WaitingIrps') /\ Cardinality(WaitingIrps') \in Nat
        /\ Cardinality(WaitingIrps') = Cardinality(WaitingIrps)
               - (IF pending_file_irps[rec.irp] # 0 THEN 1 ELSE 0)
    BY <2>1, WaitingAfter DEF ignore_file_io_close
  <2>4. reused_irp' = reused_irp + (IF pending_file_irps[rec.irp] # 0 THEN 1 ELSE 0)
    BY <1>0, <2>1 DEF ignore_file_io_close
  <2>5. Cardinality(IrpRows') = matched_op_end' + reused_irp' + Cardinality(WaitingIrps')
    BY <1>0, <2>2, <2>3, <2>4
  <2> QED
    BY <1>1, <2>3, <2>5
<1>7. CASE TakesFile(rec) /\ rec.kind \in FileRows
  <2>1. AddFileRow(rec) /\ rec.kind \in RowKinds /\ rec.irp \in Irps \cup {None}
    BY <1>7, CacheFacts DEF TakesFile, RowKinds, FileRows
  <2>2. PICK path \in Paths \cup {None} : rows' = Append(rows, Row(rec, path))
    BY <1>7, <2>1, CacheFacts DEF AddFileRow
  <2>3. /\ DOMAIN rows' = DOMAIN rows \cup {Len(rows) + 1} /\ Len(rows) + 1 \notin DOMAIN rows
        /\ rows'[Len(rows) + 1] = Row(rec, path)
        /\ \A k \in DOMAIN rows : rows'[k] = rows[k]
    BY <1>0, <2>1, <2>2, RowAdded
  <2>4. rows'[Len(rows) + 1].irp = rec.irp
    BY <2>1, <2>3, RowFacts
  <2>5. /\ pending_file_irps' = [i \in Irps |-> IF i = rec.irp THEN Len(rows) + 1
                                                              ELSE pending_file_irps[i]]
        /\ reused_irp' = IF rec.irp \in Irps /\ pending_file_irps[rec.irp] # 0
                         THEN reused_irp + 1 ELSE reused_irp
        /\ matched_op_end' = matched_op_end
    BY <2>1 DEF AddFileRow
  <2>6. CASE rec.irp \in Irps
    <3>1. IrpRows' = IrpRows \cup {Len(rows) + 1} /\ Len(rows) + 1 \notin IrpRows
      BY <2>3, <2>4, <2>6, NoneAssumption DEF IrpRows
    <3>2. Cardinality(IrpRows') = Cardinality(IrpRows) + 1
      BY <1>0, <3>1, FS_AddElement
    <3>3. /\ pending_file_irps' = [pending_file_irps EXCEPT ![rec.irp] = Len(rows) + 1]
          /\ Len(rows) + 1 \in Nat /\ Len(rows) + 1 # 0
      <4> DEFINE n == Len(rows) + 1
      <4>1. n \in Nat /\ n # 0
        BY <1>0
      <4>2. /\ pending_file_irps \in [Irps -> 0..Len(rows)]
            /\ pending_file_irps' = [i \in Irps |-> IF i = rec.irp THEN n ELSE pending_file_irps[i]]
        BY <1>0, <2>5
      <4> HIDE DEF n
      <4>3. pending_file_irps' = [pending_file_irps EXCEPT ![rec.irp] = n]
        BY <2>6, <4>2
      <4> QED
        BY <4>1, <4>3 DEF n
    <3>4. /\ IsFiniteSet(WaitingIrps') /\ Cardinality(WaitingIrps') \in Nat
          /\ Cardinality(WaitingIrps') = Cardinality(WaitingIrps)
                 + (IF pending_file_irps[rec.irp] # 0 THEN 0 ELSE 1)
      BY <2>6, <3>3, WaitingAfter
    <3>5. Cardinality(IrpRows') = matched_op_end' + reused_irp' + Cardinality(WaitingIrps')
      BY <1>0, <2>5, <2>6, <3>2, <3>4
    <3> QED
      BY <1>1, <3>4, <3>5
  <2>7. CASE rec.irp = None
    <3>1. IrpRows' = IrpRows
      BY <2>3, <2>4, <2>7 DEF IrpRows
    <3>2. pending_file_irps' = pending_file_irps /\ reused_irp' = reused_irp
      BY <1>0, <2>5, <2>7, NoneAssumption
    <3>3. WaitingIrps' = WaitingIrps
      BY <3>2 DEF WaitingIrps
    <3> QED
      BY <1>0, <1>1, <2>5, <3>1, <3>2, <3>3
  <2> QED
    BY <2>1, <2>6, <2>7
<1>8. TakesStack(rec) => rows' = rows /\ UNCHANGED ioVars
    BY DEF TakesStack, process_stack_walk_event
<1>9. AddsLife(rec) => UNCHANGED ioVars
    BY DEF AddsLife
<1>10. UNCHANGED procVars => rows' = rows /\ UNCHANGED ioVars
    BY DEF procVars
<1>11. TakesFile(rec) => rec.kind \in {"op_end", "close"} \cup FileRows
    BY DEF TakesFile
<1> QED
    BY <1>3, <1>4, <1>5, <1>6, <1>7, <1>8, <1>9, <1>10, <1>11

-----------------------------------------------------------------------------
(* Stacks, whatever the processor does with a record. *)

LEMMA StacksKept ==
    ASSUME StackInv, UNCHANGED stackVars, written' = written + 1, written \in Nat
    PROVE  StackInv'
<1>1. /\ pending_stacks' = pending_stacks /\ stack_walks' = stack_walks
      /\ matched_stack_walks' = matched_stack_walks
      /\ dropped_stack_walks' = dropped_stack_walks
    BY DEF stackVars
<1>2. stack_walks' \in 0..written'
    BY <1>1 DEF StackInv, StackTypes
<1>3. PendingTimes' = PendingTimes
    BY <1>1 DEF PendingTimes
<1>4. StacksAt(PendingTimes)' = StacksAt(PendingTimes)
    BY <1>1, <1>3 DEF StacksAt
<1> QED
    BY <1>1, <1>2, <1>3, <1>4 DEF StackInv, StackTypes, StackAccounting, PendingBounded

\* A row is added for the record, or the number of rows stays.
LEMMA NewRowTime ==
    ASSUME KernelInv, RowsInv, NEW rec, GoodRecord(rec), written' = written + 1,
           clock' = rec.ts, AddsLife(rec) \/ TakesFile(rec)
    PROVE  Len(rows') # Len(rows) => \E k \in DOMAIN rows' : rows'[k].ts = rec.ts
<1>0. RowsOK /\ pending_file_irps \in [Irps -> 0..Len(rows)]
    BY DEF RowsInv, RowsOK
<1>1. ASSUME NEW path \in Paths \cup {None}, rec.kind \in RowKinds,
             rows' = Append(rows, Row(rec, path))
      PROVE  \E k \in DOMAIN rows' : rows'[k].ts = rec.ts
    BY <1>0, <1>1, RowAdded, RowFacts
<1>2. CASE AddsLife(rec)
    BY <1>1, <1>2 DEF AddsLife, RowKinds
<1>3. CASE TakesFile(rec) /\ rec.kind = "op_end"
  <2>1. merge_file_io_completion(rec) /\ rec.irp \in Irps
    BY <1>3 DEF TakesFile, FileRows, GoodRecord
  <2>2. CASE pending_file_irps[rec.irp] # 0
    <3>1. /\ pending_file_irps[rec.irp] \in DOMAIN rows
          /\ rows' = [rows EXCEPT ![pending_file_irps[rec.irp]].done = rec.op]
      BY <1>0, <2>1, <2>2 DEF merge_file_io_completion, RowsOK
    <3> QED
      BY <1>0, <3>1, RowCompleted
  <2>3. CASE pending_file_irps[rec.irp] = 0
    BY <2>1, <2>3 DEF merge_file_io_completion
  <2> QED
    BY <2>2, <2>3
<1>4. CASE TakesFile(rec) /\ rec.kind = "close"
    BY <1>4 DEF TakesFile, FileRows, ignore_file_io_close
<1>5. CASE TakesFile(rec) /\ rec.kind \in FileRows
  <2>1. AddFileRow(rec) /\ rec.kind \in RowKinds
    BY <1>5 DEF TakesFile, FileRows, RowKinds
  <2>2. PICK path \in Paths \cup {None} : rows' = Append(rows, Row(rec, path))
    BY <1>5, <2>1, CacheFacts DEF AddFileRow
  <2> QED
    BY <1>1, <2>1, <2>2
<1> QED
    BY <1>2, <1>3, <1>4, <1>5 DEF TakesFile

LEMMA StackInvAfter ==
    ASSUME KernelInv, RowsInv, StackInv, NEW rec, GoodRecord(rec), written' = written + 1,
           clock' = rec.ts,
           UNCHANGED procVars \/ AddsLife(rec) \/ TakesFile(rec) \/ TakesStack(rec)
    PROVE  StackInv'
<1>0. written \in Nat /\ rec.ts \in Times
    BY NextFacts DEF GoodRecord
<1>1. CASE UNCHANGED procVars
    BY <1>0, <1>1, StacksKept DEF procVars
<1>2. CASE AddsLife(rec) \/ TakesFile(rec)
  <2>1. TakePendingStacks(rec.ts, rows')
    BY <1>2 DEF AddsLife, TakesFile
  <2>2. Len(rows') # Len(rows) => \E k \in DOMAIN rows' : rows'[k].ts = rec.ts
    BY <1>2, NewRowTime
  <2> QED
    BY <1>0, <2>1, <2>2, TakePendingStacksInd
<1>3. CASE TakesStack(rec)
  <2>1. [ts |-> rec.of, pid |-> rec.pid, thread |-> rec.thread]
            \in [ts : Times, pid : {Target, Other}, thread : Threads]
    BY DEF GoodRecord
  <2> QED
    BY <1>0, <1>3, <2>1, StackWalkInd DEF TakesStack
<1> QED
    BY <1>1, <1>2, <1>3

-----------------------------------------------------------------------------
(* Completions. *)

\* A packet waits for the operation that the kernel serves with it.
Waits ==
    /\ \A k \in DOMAIN rows : rows[k].done \in {0, rows[k].op}
    /\ \A i \in Irps : pending_file_irps[i] # 0 => io[i].op = rows[pending_file_irps[i]].op

\* A packet that starts an operation is not waited for.
LEMMA OperationWaits ==
    ASSUME KernelInv, RowsInv, Waits, NEW p \in {Target, Other}, NEW kind \in FileKinds,
           NEW i \in Irps, NEW o \in Objects, NEW key \in Keys, NEW path \in Paths \cup {None},
           NEW rec,
           GoodRecord(rec), written' = written + 1, clock' = rec.ts,
           Operation(p, kind, i, o, key, path), IsOperation(rec, p, kind, i, o, key, path),
           UNCHANGED procVars \/ TakesFile(rec)
    PROVE  Waits'
<1>0. /\ RowsOK /\ pending_file_irps \in [Irps -> 0..Len(rows)] /\ Len(rows) \in Nat
      /\ DOMAIN rows = 1..Len(rows) /\ io \in [Irps -> IoRecords]
    BY DEF RowsInv, RowsOK, KernelInv, IoRecords
<1>1. /\ io[i] = NoIo /\ rec.op = written + 1 /\ rec.irp = i /\ rec.kind = kind
      /\ io' = [io EXCEPT ![i] = [op |-> written + 1, kind |-> kind, pid |-> p, object |-> o]]
    BY DEF Operation, IsOperation
<1>2. io'[i].op = rec.op /\ \A j \in Irps : j # i => io'[j] = io[j]
    BY <1>0, <1>1
<1>3. pending_file_irps[i] = 0
  <2>1. SUFFICES ASSUME pending_file_irps[i] # 0 PROVE FALSE
    OBVIOUS
  <2>2. pending_file_irps[i] \in DOMAIN rows
    BY <1>0, <2>1
  <2>3. rows[pending_file_irps[i]].op \in 1..written /\ written \in Nat
    BY <1>0, <2>2, RowTypes, NextFacts
  <2>4. io[i].op = 0
    BY <1>1 DEF NoIo
  <2> QED
    BY <2>1, <2>3, <2>4 DEF Waits
<1>4. CASE UNCHANGED procVars
    BY <1>2, <1>3, <1>4 DEF Waits, procVars, ioVars
<1>5. CASE TakesFile(rec) /\ kind = "close"
  <2>1. rows' = rows /\ pending_file_irps' = [pending_file_irps EXCEPT ![i] = 0]
    BY <1>1, <1>5 DEF TakesFile, FileRows, ignore_file_io_close
  <2> QED
    BY <1>0, <1>2, <2>1 DEF Waits
<1>6. CASE TakesFile(rec) /\ kind # "close"
  <2>1. AddFileRow(rec) /\ rec.kind \in RowKinds /\ rec.kind \in FileRows
    BY <1>1, <1>6 DEF TakesFile, FileKinds, FileRows, RowKinds
  <2>2. pending_file_irps' = [pending_file_irps EXCEPT ![i] = Len(rows) + 1]
    BY <1>0, <1>1, <2>1 DEF AddFileRow
  <2>3. PICK q \in Paths \cup {None} : rows' = Append(rows, Row(rec, q))
    BY <2>1, CacheFacts DEF AddFileRow
  <2>4. /\ DOMAIN rows' = DOMAIN rows \cup {Len(rows) + 1} /\ Len(rows) + 1 \notin DOMAIN rows
        /\ rows'[Len(rows) + 1] = Row(rec, q)
        /\ \A k \in DOMAIN rows : rows'[k] = rows[k]
    BY <1>0, <2>1, <2>3, RowAdded
  <2>5. rows'[Len(rows) + 1].done = 0 /\ rows'[Len(rows) + 1].op = rec.op
    BY <2>1, <2>4, RowFacts
  <2>6. \A k \in DOMAIN rows' : rows'[k].done \in {0, rows'[k].op}
    BY <2>4, <2>5 DEF Waits
  <2>7. ASSUME NEW j \in Irps, pending_file_irps'[j] # 0
        PROVE  io'[j].op = rows'[pending_file_irps'[j]].op
    <3>1. CASE j = i
      BY <1>0, <1>2, <2>2, <2>5, <3>1
    <3>2. CASE j # i
      <4>1. pending_file_irps'[j] = pending_file_irps[j] /\ pending_file_irps[j] \in DOMAIN rows
        BY <1>0, <2>2, <2>7, <3>2
      <4> QED
        BY <1>2, <2>4, <2>7, <3>2, <4>1 DEF Waits
    <3> QED
      BY <3>1, <3>2
  <2> QED
    BY <2>6, <2>7 DEF Waits
<1> QED
    BY <1>4, <1>5, <1>6

\* A completion ends the wait for its packet, with the operation's own number.
LEMMA CompletionWaits ==
    ASSUME KernelInv, RowsInv, Waits, NEW i \in Irps, NEW rec, GoodRecord(rec),
           written' = written + 1, clock' = rec.ts, IsCompletion(rec, i),
           \/ UNCHANGED procVars /\ pending_file_irps[i] = 0
           \/ TakesFile(rec)
    PROVE  Waits'
<1>0. /\ RowsOK /\ pending_file_irps \in [Irps -> 0..Len(rows)] /\ Len(rows) \in Nat
      /\ DOMAIN rows = 1..Len(rows) /\ io \in [Irps -> IoRecords]
    BY DEF RowsInv, RowsOK, KernelInv, IoRecords
<1>1. /\ rec.op = io[i].op /\ rec.irp = i /\ rec.kind = "op_end"
      /\ \A j \in Irps : j # i => io'[j] = io[j]
    BY <1>0 DEF IsCompletion
<1>2. CASE UNCHANGED procVars /\ pending_file_irps[i] = 0
    BY <1>1, <1>2 DEF Waits, procVars, ioVars
<1>3. CASE TakesFile(rec)
  <2>1. merge_file_io_completion(rec)
    BY <1>1, <1>3 DEF TakesFile, FileRows
  <2>2. CASE pending_file_irps[i] = 0
    BY <1>1, <2>1, <2>2 DEF Waits, merge_file_io_completion
  <2>3. CASE pending_file_irps[i] # 0
    <3> DEFINE k == pending_file_irps[i]
    <3>1. k \in DOMAIN rows /\ rec.op = rows[k].op
      BY <1>0, <1>1, <2>3 DEF Waits
    <3>2. /\ rows' = [rows EXCEPT ![k].done = rec.op]
          /\ pending_file_irps' = [pending_file_irps EXCEPT ![i] = 0]
      BY <1>1, <2>1, <2>3 DEF merge_file_io_completion
    <3> HIDE DEF k
    <3>3. /\ DOMAIN rows' = DOMAIN rows /\ rows'[k].done = rec.op
          /\ \A j \in DOMAIN rows : j # k => rows'[j] = rows[j]
          /\ \A j \in DOMAIN rows : rows'[j].op = rows[j].op
      BY <1>0, <3>1, <3>2, RowCompleted
    <3>4. \A j \in DOMAIN rows' : rows'[j].done \in {0, rows'[j].op}
      BY <3>1, <3>3 DEF Waits
    <3>5. ASSUME NEW j \in Irps, pending_file_irps'[j] # 0
          PROVE  io'[j].op = rows'[pending_file_irps'[j]].op
      <4>1. j # i /\ pending_file_irps'[j] = pending_file_irps[j]
            /\ pending_file_irps[j] \in DOMAIN rows
        BY <1>0, <3>2, <3>5
      <4> QED
        BY <1>1, <3>3, <3>5, <4>1 DEF Waits
    <3> QED
      BY <3>4, <3>5 DEF Waits
  <2> QED
    BY <2>2, <2>3
<1> QED
    BY <1>2, <1>3

\* Any other record leaves packets alone.
LEMMA QuietWaits ==
    ASSUME KernelInv, RowsInv, Waits, NEW rec, GoodRecord(rec), written' = written + 1,
           clock' = rec.ts, io' = io,
           \/ UNCHANGED procVars
           \/ AddsLife(rec)
           \/ TakesStack(rec)
           \/ TakesFile(rec) /\ rec.kind = "name"
    PROVE  Waits'
<1>0. /\ RowsOK /\ pending_file_irps \in [Irps -> 0..Len(rows)] /\ Len(rows) \in Nat
      /\ DOMAIN rows = 1..Len(rows)
    BY DEF RowsInv, RowsOK
<1>1. /\ pending_file_irps' = pending_file_irps
      /\ rows' = rows \/ (rec.kind \in RowKinds
                          /\ \E q \in Paths \cup {None} : rows' = Append(rows, Row(rec, q)))
  <2>1. CASE TakesFile(rec) /\ rec.kind = "name"
    <3>1. AddFileRow(rec) /\ rec.irp = None /\ rec.kind \in FileRows
      BY <2>1 DEF TakesFile, GoodRecord, FileRows
    <3>2. pending_file_irps' = pending_file_irps
      BY <1>0, <3>1, NoneAssumption DEF AddFileRow
    <3> QED
      BY <3>1, <3>2, CacheFacts DEF AddFileRow, RowKinds
  <2>2. CASE AddsLife(rec)
    BY <2>2 DEF AddsLife, ioVars, RowKinds
  <2> QED
    BY <2>1, <2>2 DEF procVars, ioVars, TakesStack, process_stack_walk_event
<1>2. CASE rows' = rows
    BY <1>1, <1>2 DEF Waits
<1>3. CASE rows' # rows
  <2>1. PICK q \in Paths \cup {None} : rows' = Append(rows, Row(rec, q)) /\ rec.kind \in RowKinds
    BY <1>1, <1>3
  <2>2. /\ DOMAIN rows' = DOMAIN rows \cup {Len(rows) + 1}
        /\ rows'[Len(rows) + 1] = Row(rec, q)
        /\ \A k \in DOMAIN rows : rows'[k] = rows[k]
    BY <1>0, <2>1, RowAdded
  <2>3. rows'[Len(rows) + 1].done = 0
    BY <2>1, <2>2, RowFacts
  <2>4. \A j \in Irps : pending_file_irps[j] # 0 => pending_file_irps[j] \in DOMAIN rows
    BY <1>0
  <2> QED
    BY <1>1, <2>2, <2>3, <2>4 DEF Waits
<1> QED
    BY <1>2, <1>3

LEMMA OwnInvAfter ==
    ASSUME KernelInv, RowsInv, OwnInv, NEW rec, GoodRecord(rec), Write(rec), IoStep(rec)
    PROVE  OwnInv'
<1>0. /\ event_sets' = event_sets /\ written' = written + 1 /\ clock' = rec.ts
      /\ \/ process_record(rec) /\ lost' = lost
         \/ UNCHANGED procVars /\ lost' # 0
    BY WriteFacts
<1>1. \/ UNCHANGED procVars /\ lost' # 0
      \/ lost' = lost /\ (Skips(rec) \/ AddsLife(rec) \/ TakesFile(rec) \/ TakesStack(rec))
    BY <1>0, ProcessCases
<1>2. "file_io" \notin event_sets' => \A i \in Irps : pending_file_irps'[i] = 0
  <2>1. "file_io" \notin event_sets => pending_file_irps' = pending_file_irps
    BY <1>1 DEF Skips, AddsLife, TakesFile, TakesStack, procVars, ioVars, process_stack_walk_event
  <2> QED
    BY <1>0, <2>1 DEF OwnInv
<1>3. ASSUME lost' = 0 PROVE Waits'
  <2>1. Waits /\ (Skips(rec) \/ AddsLife(rec) \/ TakesFile(rec) \/ TakesStack(rec))
    BY <1>1, <1>3 DEF OwnInv, OwnCompletion, Waits
  <2>2. ASSUME NEW p \in {Target, Other}, NEW kind \in FileKinds, NEW i \in Irps,
               NEW o \in Objects, NEW key \in Keys, NEW path \in Paths \cup {None},
               Operation(p, kind, i, o, key, path), IsOperation(rec, p, kind, i, o, key, path)
        PROVE  Waits'
    <3>1. rec.kind \in FileKinds
      BY <2>2 DEF IsOperation
    <3>2. UNCHANGED procVars \/ TakesFile(rec)
      BY <2>1, <3>1 DEF Skips, AddsLife, TakesStack, FileKinds, LifeKinds
    <3> QED
      BY <1>0, <2>1, <2>2, <3>2, OperationWaits
  <2>3. ASSUME NEW i \in Irps, IsCompletion(rec, i) PROVE Waits'
    <3>1. rec.kind = "op_end" /\ rec.irp = i
      BY <2>3 DEF IsCompletion
    <3>2. \/ UNCHANGED procVars /\ pending_file_irps[i] = 0
          \/ TakesFile(rec)
      BY <2>1, <3>1 DEF Skips, AddsLife, TakesStack, LifeKinds, OwnInv,
                        file_io_event_matches_target
    <3> QED
      BY <1>0, <2>1, <2>3, <3>2, CompletionWaits
  <2>4. CASE rec.kind \in LifeKinds \cup {"stack_walk"} /\ UNCHANGED <<io, file>>
    <3>1. UNCHANGED procVars \/ AddsLife(rec) \/ TakesStack(rec)
      BY <2>1, <2>4 DEF Skips, TakesFile, LifeKinds, FileRows
    <3> QED
      BY <1>0, <2>1, <2>4, <3>1, QuietWaits
  <2>5. ASSUME NEW p \in {Target, Other}, NEW q \in Pointers, NEW path \in Paths,
               IsNaming(rec, p, q, path)
        PROVE  Waits'
    <3>1. rec.kind = "name" /\ io' = io
      BY <2>5 DEF IsNaming
    <3>2. UNCHANGED procVars \/ TakesFile(rec)
      BY <2>1, <3>1 DEF Skips, AddsLife, TakesStack, LifeKinds
    <3> QED
      BY <1>0, <2>1, <3>1, <3>2, QuietWaits
  <2> QED
    BY <2>2, <2>3, <2>4, <2>5 DEF IoStep
<1> QED
    BY <1>2, <1>3 DEF OwnInv, OwnCompletion, Waits

-----------------------------------------------------------------------------
(* Paths. *)

RealPaths == \A k \in DOMAIN rows :
    rows[k].real_path # None => rows[k].path = rows[k].real_path
Cached == \A o \in Objects :
    file[o].pid = Target /\ file[o].state = "open" => file_paths_by_pointer[o] = file[o].path

\* Only operations of the target are rows, and their path is the cached one.
LEMMA OperationPaths ==
    ASSUME KernelInv, RowsInv, RealPaths, Cached, NEW p \in {Target, Other},
           NEW kind \in FileKinds, NEW i \in Irps, NEW o \in Objects, NEW key \in Keys,
           NEW path \in Paths \cup {None}, NEW rec, GoodRecord(rec), written' = written + 1,
           clock' = rec.ts, Operation(p, kind, i, o, key, path),
           IsOperation(rec, p, kind, i, o, key, path),
           (UNCHANGED procVars /\ p # Target) \/ TakesFile(rec)
    PROVE  RealPaths' /\ Cached'
<1>0. /\ RowsOK /\ file_paths_by_pointer \in [Pointers -> Paths \cup {None}]
      /\ file \in [Objects -> FileRecords]
    BY DEF RowsInv, RowsOK, KernelInv, FileRecords
<1>1. /\ rec.irp = i /\ rec.object = o /\ rec.kind = kind /\ rec.path = path /\ rec.pid = p
      /\ rec.key \in {None, key}
      /\ rec.real_path = IF p = file'[o].pid /\ file[o].state # "cleaned"
                         THEN file'[o].path ELSE None
    BY DEF IsOperation
<1>2. \A q \in Objects : q # o => file'[q] = file[q]
    BY <1>0 DEF Operation, FileKinds
<1>3. \A q \in Objects : q # o => q \notin {rec.object, rec.key} /\ q \in Pointers
    BY <1>1, NoneAssumption, KeysAssumption DEF Pointers
<1>4. CASE UNCHANGED procVars /\ p # Target
  <2>1. rows' = rows /\ file_paths_by_pointer' = file_paths_by_pointer
    BY <1>4 DEF procVars, ioVars
  <2>2. file'[o].pid = Target /\ file'[o].state = "open" =>
            file[o].pid = Target /\ file[o].state = "open" /\ file'[o].path = file[o].path
    <3>1. CASE kind = "create"
      BY <1>0, <1>4, <3>1 DEF Operation
    <3>2. CASE kind = "read"
      BY <3>2 DEF Operation
    <3>3. CASE kind = "cleanup"
      BY <1>0, <3>3 DEF Operation, FileRecords
    <3>4. CASE kind = "close"
      BY <1>0, <3>4 DEF Operation, NoFile
    <3>5. CASE kind = "dir"
      BY <1>0, <1>4, <3>5 DEF Operation, FileRecords
    <3> QED
      BY <3>1, <3>2, <3>3, <3>4, <3>5 DEF FileKinds
  <2> QED
    BY <1>2, <2>1, <2>2 DEF RealPaths, Cached
<1>5. CASE TakesFile(rec) /\ kind = "close"
  <2>1. rows' = rows
    BY <1>1, <1>5 DEF TakesFile, FileRows, ignore_file_io_close
  <2>2. file'[o].state = "free"
    BY <1>0, <1>5 DEF Operation, NoFile
  <2>3. file_paths_by_pointer' = remove_file_path(file_paths_by_pointer, rec)
    BY <1>1, <1>5 DEF TakesFile, FileRows, ignore_file_io_close
  <2>4. \A q \in Objects : q # o => file_paths_by_pointer'[q] = file_paths_by_pointer[q]
    BY <1>0, <1>3, <2>3 DEF remove_file_path, PathsWith
  <2> QED
    BY <1>2, <2>1, <2>2, <2>4 DEF RealPaths, Cached
<1>6. CASE TakesFile(rec) /\ kind # "close"
  <2>1. AddFileRow(rec) /\ rec.kind \in RowKinds /\ rec.kind \in FileRows
    BY <1>1, <1>6 DEF TakesFile, FileKinds, FileRows, RowKinds
  <2>2. p = Target
    BY <1>1, <1>6 DEF TakesFile, file_io_event_matches_target, FileKinds
  <2> DEFINE cache == cache_file_path(rec)
             shown == resolve_file_path(cache, rec)
  <2>3. /\ cache \in [Pointers -> Paths \cup {None}] /\ shown \in Paths \cup {None}
    BY <2>1, CacheFacts
  <2>4. /\ \A q \in Objects : q # o => cache[q] = file_paths_by_pointer[q]
        /\ cache[o] = IF path = None THEN file_paths_by_pointer[o] ELSE path
    BY <1>0, <1>1, <1>3 DEF cache_file_path, PathsWith, Pointers
  <2>5. /\ rows' = Append(rows, Row(rec, shown))
        /\ file_paths_by_pointer' = IF kind = "cleanup" THEN remove_file_path(cache, rec)
                                                        ELSE cache
    BY <1>1, <2>1 DEF AddFileRow
  <2> HIDE DEF cache
  <2>6. cache[o] # None => shown = cache[o]
    BY <1>1, <2>4 DEF resolve_file_path
  <2> HIDE DEF shown
  <2>7. \A q \in Objects : q # o => file_paths_by_pointer'[q] = file_paths_by_pointer[q]
    <3>1. \A q \in Objects : q # o => remove_file_path(cache, rec)[q] = cache[q]
      BY <1>3, <2>3 DEF remove_file_path, PathsWith
    <3> QED
      BY <2>4, <2>5, <3>1
  <2>8. /\ file'[o].pid = Target /\ file[o].state # "cleaned" => cache[o] = file'[o].path
        /\ kind = "cleanup" => file'[o].state # "open"
        /\ file'[o].state = "open" => file[o].state # "cleaned"
    <3>0. file[o] \in FileRecords
      BY <1>0
    <3>1. CASE kind = "create"
      BY <1>0, <2>4, <3>1 DEF Operation, NoFile
    <3>2. CASE kind = "read"
      BY <2>4, <3>0, <3>2 DEF Operation, Cached, FileRecords
    <3>3. CASE kind = "cleanup"
      <4>1. /\ file[o].state = "open" /\ path = None
            /\ file' = [file EXCEPT ![o].state = "cleaned"]
        BY <3>3 DEF Operation
      <4>2. /\ file'[o].path = file[o].path /\ file'[o].state = "cleaned"
            /\ file'[o].pid = file[o].pid
        BY <1>0, <4>1 DEF FileRecords
      <4> QED
        BY <2>4, <4>1, <4>2 DEF Cached
    <3>4. CASE kind = "dir"
      <4>1. /\ file[o].state = "open"
            /\ file' = [file EXCEPT ![o].path =
                           IF path # None /\ file[o].pid = p THEN path ELSE @]
        BY <3>4 DEF Operation
      <4>2. /\ file'[o].state = "open" /\ file'[o].pid = file[o].pid
            /\ file'[o].path = IF path # None /\ file[o].pid = p THEN path ELSE file[o].path
        BY <1>0, <4>1 DEF FileRecords
      <4>3. file[o].pid = Target => file_paths_by_pointer[o] = file[o].path
        BY <4>1 DEF Cached
      <4> QED
        BY <2>2, <2>4, <3>4, <4>1, <4>2, <4>3
    <3> QED
      BY <1>6, <3>1, <3>2, <3>3, <3>4 DEF FileKinds
  <2>9. /\ DOMAIN rows' = DOMAIN rows \cup {Len(rows) + 1}
        /\ rows'[Len(rows) + 1] = Row(rec, shown)
        /\ \A k \in DOMAIN rows : rows'[k] = rows[k]
    BY <1>0, <2>1, <2>3, <2>5, RowAdded
  <2>10. rows'[Len(rows) + 1].path = shown /\ rows'[Len(rows) + 1].real_path = rec.real_path
    BY <2>1, <2>3, <2>9, RowFacts
  <2>11. rec.real_path # None => shown = rec.real_path
    BY <1>1, <2>2, <2>6, <2>8
  <2>12. RealPaths'
    BY <2>9, <2>10, <2>11 DEF RealPaths
  <2>13. ASSUME NEW q \in Objects, file'[q].pid = Target, file'[q].state = "open"
         PROVE  file_paths_by_pointer'[q] = file'[q].path
    <3>1. CASE q = o
      BY <2>5, <2>8, <2>13, <3>1
    <3>2. CASE q # o
      BY <1>2, <2>7, <2>13, <3>2 DEF Cached
    <3> QED
      BY <3>1, <3>2
  <2> QED
    BY <2>12, <2>13 DEF Cached
<1> QED
    BY <1>4, <1>5, <1>6

\* A record that names the pointer of an open file renames it in the cache.
LEMMA NamePaths ==
    ASSUME KernelInv, RowsInv, RealPaths, Cached, NEW p \in {Target, Other},
           NEW q \in Pointers, NEW path \in Paths, NEW rec, GoodRecord(rec),
           written' = written + 1, clock' = rec.ts, IsNaming(rec, p, q, path),
           (UNCHANGED procVars /\ p # Target) \/ TakesFile(rec)
    PROVE  RealPaths' /\ Cached'
<1>0. /\ RowsOK /\ file_paths_by_pointer \in [Pointers -> Paths \cup {None}]
      /\ file \in [Objects -> FileRecords]
    BY DEF RowsInv, RowsOK, KernelInv, FileRecords
<1>1. /\ rec.object = q /\ rec.kind = "name" /\ rec.path = path /\ rec.pid = p
      /\ rec.key = None /\ rec.real_path = None /\ path # None
    BY NoneAssumption DEF IsNaming
<1>2. ASSUME NEW o \in Objects
      PROVE  /\ file'[o].pid = file[o].pid /\ file'[o].state = file[o].state
             /\ file'[o].path = IF o = q /\ file[o].state = "open" /\ file[o].pid = p
                                THEN path ELSE file[o].path
  <2>1. file'[o] = IF o = q /\ file[o].state = "open" /\ file[o].pid = p
                   THEN [file[o] EXCEPT !.path = path] ELSE file[o]
    BY DEF IsNaming
  <2>2. file[o] \in FileRecords
    BY <1>0
  <2> QED
    BY <2>1, <2>2 DEF FileRecords
<1>3. CASE UNCHANGED procVars /\ p # Target
  <2>1. rows' = rows /\ file_paths_by_pointer' = file_paths_by_pointer
    BY <1>3 DEF procVars, ioVars
  <2> QED
    BY <1>2, <1>3, <2>1 DEF RealPaths, Cached
<1>4. CASE TakesFile(rec)
  <2>1. AddFileRow(rec) /\ rec.kind \in RowKinds /\ rec.kind \in FileRows
    BY <1>1, <1>4 DEF TakesFile, FileRows, RowKinds
  <2>2. p = Target
    BY <1>1, <1>4 DEF TakesFile, file_io_event_matches_target
  <2>3. PICK shown \in Paths \cup {None} : rows' = Append(rows, Row(rec, shown))
    BY <2>1, CacheFacts DEF AddFileRow
  <2>4. /\ DOMAIN rows' = DOMAIN rows \cup {Len(rows) + 1}
        /\ rows'[Len(rows) + 1] = Row(rec, shown)
        /\ \A k \in DOMAIN rows : rows'[k] = rows[k]
    BY <1>0, <2>1, <2>3, RowAdded
  <2>5. rows'[Len(rows) + 1].real_path = None
    BY <1>1, <2>1, <2>4, RowFacts
  <2>6. RealPaths'
    BY <2>4, <2>5 DEF RealPaths
  <2>7. file_paths_by_pointer' = PathsWith(file_paths_by_pointer, rec, path)
    BY <1>1, <2>1 DEF AddFileRow, cache_file_path
  <2>8. ASSUME NEW o \in Objects
        PROVE  file_paths_by_pointer'[o] = IF o = q THEN path ELSE file_paths_by_pointer[o]
    BY <1>0, <1>1, <2>7, NoneAssumption DEF PathsWith, Pointers
  <2>9. Cached'
    BY <1>2, <2>2, <2>8 DEF Cached
  <2> QED
    BY <2>6, <2>9
<1> QED
    BY <1>3, <1>4

\* Completions and other records change neither paths nor the cache.
LEMMA OtherPaths ==
    ASSUME KernelInv, RowsInv, RealPaths, NEW rec, GoodRecord(rec), written' = written + 1,
           clock' = rec.ts,
           \/ UNCHANGED procVars
           \/ AddsLife(rec)
           \/ TakesStack(rec)
           \/ TakesFile(rec) /\ rec.kind = "op_end"
    PROVE  RealPaths' /\ file_paths_by_pointer' = file_paths_by_pointer
<1>0. RowsOK /\ pending_file_irps \in [Irps -> 0..Len(rows)]
    BY DEF RowsInv, RowsOK
<1>1. CASE TakesFile(rec) /\ rec.kind = "op_end"
  <2>1. merge_file_io_completion(rec) /\ rec.irp \in Irps
    BY <1>1 DEF TakesFile, FileRows, GoodRecord
  <2>2. CASE pending_file_irps[rec.irp] = 0
    BY <2>1, <2>2 DEF merge_file_io_completion, RealPaths
  <2>3. CASE pending_file_irps[rec.irp] # 0
    <3>1. /\ pending_file_irps[rec.irp] \in DOMAIN rows
          /\ rows' = [rows EXCEPT ![pending_file_irps[rec.irp]].done = rec.op]
          /\ file_paths_by_pointer' = file_paths_by_pointer
      BY <1>0, <2>1, <2>3 DEF merge_file_io_completion, RowsOK
    <3>2. /\ DOMAIN rows' = DOMAIN rows
          /\ \A j \in DOMAIN rows : /\ rows'[j].path = rows[j].path
                                    /\ rows'[j].real_path = rows[j].real_path
      BY <1>0, <3>1, RowCompleted
    <3> QED
      BY <3>1, <3>2 DEF RealPaths
  <2> QED
    BY <2>2, <2>3
<1>2. CASE AddsLife(rec) /\ rows' # rows
  <2>1. /\ rows' = Append(rows, Row(rec, None)) /\ rec.kind \in RowKinds
        /\ rec.real_path = None /\ file_paths_by_pointer' = file_paths_by_pointer
    BY <1>2 DEF AddsLife, RowKinds, GoodRecord, ioVars
  <2>2. /\ DOMAIN rows' = DOMAIN rows \cup {Len(rows) + 1}
        /\ rows'[Len(rows) + 1] = Row(rec, None)
        /\ \A k \in DOMAIN rows : rows'[k] = rows[k]
    BY <1>0, <2>1, RowAdded
  <2>3. rows'[Len(rows) + 1].real_path = None
    BY <2>1, <2>2, RowFacts
  <2> QED
    BY <2>1, <2>2, <2>3 DEF RealPaths
<1>3. CASE UNCHANGED procVars
    BY <1>3 DEF procVars, ioVars, RealPaths
<1>4. CASE TakesStack(rec)
    BY <1>4 DEF TakesStack, process_stack_walk_event, ioVars, RealPaths
<1>5. CASE AddsLife(rec) /\ rows' = rows
    BY <1>5 DEF AddsLife, ioVars, RealPaths
<1> QED
    BY <1>1, <1>2, <1>3, <1>4, <1>5

LEMMA PathInvAfter ==
    ASSUME KernelInv, RowsInv, PathInv, NEW rec, GoodRecord(rec), Write(rec), IoStep(rec)
    PROVE  PathInv'
<1>0. /\ event_sets' = event_sets /\ written' = written + 1 /\ clock' = rec.ts
      /\ \/ process_record(rec) /\ lost' = lost
         \/ UNCHANGED procVars /\ lost' # 0
    BY WriteFacts
<1>1. \/ UNCHANGED procVars /\ lost' # 0
      \/ lost' = lost /\ (Skips(rec) \/ AddsLife(rec) \/ TakesFile(rec) \/ TakesStack(rec))
    BY <1>0, ProcessCases
<1>2. ASSUME lost' = 0
      PROVE  RealPaths' /\ ("file_io" \in event_sets => Cached')
  <2>1. /\ RealPaths /\ ("file_io" \in event_sets => Cached)
        /\ Skips(rec) \/ AddsLife(rec) \/ TakesFile(rec) \/ TakesStack(rec)
    BY <1>1, <1>2 DEF PathInv, PathIsReal, RealPaths, Cached
  <2>2. ASSUME NEW p \in {Target, Other}, NEW kind \in FileKinds, NEW i \in Irps,
               NEW o \in Objects, NEW key \in Keys, NEW path \in Paths \cup {None},
               Operation(p, kind, i, o, key, path), IsOperation(rec, p, kind, i, o, key, path)
        PROVE  RealPaths' /\ ("file_io" \in event_sets => Cached')
    <3>1. rec.kind = kind /\ rec.kind \in FileKinds /\ rec.pid = p
      BY <2>2 DEF IsOperation
    <3>2. Skips(rec) \/ TakesFile(rec)
      BY <2>1, <3>1 DEF AddsLife, TakesStack, FileKinds, LifeKinds
    <3>3. CASE "file_io" \notin event_sets
      <4>1. UNCHANGED procVars
        BY <3>2, <3>3 DEF Skips, TakesFile
      <4> QED
        BY <2>1, <3>3, <4>1 DEF procVars, RealPaths
    <3>4. CASE "file_io" \in event_sets
      <4>1. Skips(rec) => UNCHANGED procVars /\ p # Target
        BY <3>1, <3>4 DEF Skips, file_io_event_matches_target, LifeKinds, FileKinds
      <4> QED
        BY <1>0, <2>1, <2>2, <3>2, <3>4, <4>1, OperationPaths
    <3> QED
      BY <3>3, <3>4
  <2>3. ASSUME NEW i \in Irps, IsCompletion(rec, i)
        PROVE  RealPaths' /\ ("file_io" \in event_sets => Cached')
    <3>1. rec.kind = "op_end" /\ io[i] # NoIo
      BY <2>3 DEF IsCompletion
    <3>2. UNCHANGED procVars \/ TakesFile(rec)
      BY <2>1, <3>1 DEF Skips, AddsLife, TakesStack, LifeKinds
    <3>3. RealPaths' /\ file_paths_by_pointer' = file_paths_by_pointer
      BY <1>0, <2>1, <3>1, <3>2, OtherPaths
    <3>4. ASSUME NEW o \in Objects, file'[o].state = "open" PROVE file'[o] = file[o]
      <4>1. file \in [Objects -> FileRecords] /\ NoFile.state # "open"
        BY DEF KernelInv, FileRecords, NoFile
      <4> QED
        BY <2>3, <3>4, <4>1 DEF IsCompletion
    <3> QED
      BY <2>1, <3>3, <3>4 DEF Cached
  <2>4. CASE rec.kind \in LifeKinds \cup {"stack_walk"} /\ UNCHANGED <<io, file>>
    <3>1. UNCHANGED procVars \/ AddsLife(rec) \/ TakesStack(rec)
      BY <2>1, <2>4 DEF Skips, TakesFile, LifeKinds, FileRows
    <3>2. RealPaths' /\ file_paths_by_pointer' = file_paths_by_pointer
      BY <1>0, <2>1, <3>1, OtherPaths
    <3> QED
      BY <2>1, <2>4, <3>2 DEF Cached
  <2>5. ASSUME NEW p \in {Target, Other}, NEW q \in Pointers, NEW path \in Paths,
               IsNaming(rec, p, q, path)
        PROVE  RealPaths' /\ ("file_io" \in event_sets => Cached')
    <3>1. rec.kind = "name" /\ rec.pid = p
      BY <2>5 DEF IsNaming
    <3>2. Skips(rec) \/ TakesFile(rec)
      BY <2>1, <3>1 DEF AddsLife, TakesStack, LifeKinds
    <3>3. CASE "file_io" \notin event_sets
      <4>1. UNCHANGED procVars
        BY <3>2, <3>3 DEF Skips, TakesFile
      <4> QED
        BY <2>1, <3>3, <4>1 DEF procVars, RealPaths
    <3>4. CASE "file_io" \in event_sets
      <4>1. Skips(rec) => UNCHANGED procVars /\ p # Target
        BY <3>1, <3>4 DEF Skips, file_io_event_matches_target, LifeKinds
      <4> QED
        BY <1>0, <2>1, <2>5, <3>2, <3>4, <4>1, NamePaths
    <3> QED
      BY <3>3, <3>4
  <2> QED
    BY <2>2, <2>3, <2>4, <2>5 DEF IoStep
<1> QED
    BY <1>0, <1>2 DEF PathInv, PathIsReal, RealPaths, Cached

-----------------------------------------------------------------------------
(* Images. *)

\* A row keeps its time and image, and a new one has those of its record.
LEMMA RowsAfter ==
    ASSUME KernelInv, RowsInv, NEW rec, GoodRecord(rec), written' = written + 1, clock' = rec.ts,
           UNCHANGED procVars \/ AddsLife(rec) \/ TakesFile(rec) \/ TakesStack(rec),
           NEW k \in DOMAIN rows'
    PROVE  \/ /\ k \in DOMAIN rows /\ rows'[k].ts = rows[k].ts
              /\ rows'[k].real_image = rows[k].real_image
           \/ /\ rows'[k].ts = rec.ts /\ rows'[k].real_image = rec.real_image
              /\ AddsLife(rec) \/ TakesFile(rec)
<1>0. RowsOK /\ pending_file_irps \in [Irps -> 0..Len(rows)]
    BY DEF RowsInv, RowsOK
<1>1. CASE rows' = rows
    BY <1>1
<1>2. ASSUME NEW path \in Paths \cup {None}, rec.kind \in RowKinds,
             rows' = Append(rows, Row(rec, path))
      PROVE  \/ /\ k \in DOMAIN rows /\ rows'[k] = rows[k]
             \/ rows'[k].ts = rec.ts /\ rows'[k].real_image = rec.real_image
    BY <1>0, <1>2, RowAdded, RowFacts
<1>3. CASE AddsLife(rec)
    BY <1>1, <1>2, <1>3 DEF AddsLife, RowKinds
<1>4. CASE TakesFile(rec) /\ rec.kind = "op_end"
  <2>1. merge_file_io_completion(rec) /\ rec.irp \in Irps
    BY <1>4 DEF TakesFile, FileRows, GoodRecord
  <2>2. CASE pending_file_irps[rec.irp] = 0
    BY <1>1, <2>1, <2>2 DEF merge_file_io_completion
  <2>3. CASE pending_file_irps[rec.irp] # 0
    <3>1. /\ pending_file_irps[rec.irp] \in DOMAIN rows
          /\ rows' = [rows EXCEPT ![pending_file_irps[rec.irp]].done = rec.op]
      BY <1>0, <2>1, <2>3 DEF merge_file_io_completion, RowsOK
    <3> QED
      BY <1>0, <3>1, RowCompleted
  <2> QED
    BY <2>2, <2>3
<1>5. CASE TakesFile(rec) /\ rec.kind \in FileRows
  <2>1. AddFileRow(rec) /\ rec.kind \in RowKinds
    BY <1>5 DEF TakesFile, FileRows, RowKinds
  <2>2. PICK path \in Paths \cup {None} : rows' = Append(rows, Row(rec, path))
    BY <1>5, <2>1, CacheFacts DEF AddFileRow
  <2> QED
    BY <1>2, <1>5, <2>1, <2>2
<1>6. CASE TakesFile(rec) /\ rec.kind = "close"
    BY <1>1, <1>6 DEF TakesFile, FileRows, ignore_file_io_close
<1>7. CASE UNCHANGED procVars
    BY <1>1, <1>7 DEF procVars
<1>8. CASE TakesStack(rec)
    BY <1>1, <1>8 DEF TakesStack, process_stack_walk_event
<1>9. TakesFile(rec) => rec.kind \in {"op_end", "close"} \cup FileRows
    BY DEF TakesFile
<1> QED
    BY <1>3, <1>4, <1>5, <1>6, <1>7, <1>8, <1>9

\* Times, as numbers.
LEMMA FrameTypes ==
    ASSUME KernelInv, RowsInv, FrameInv, NEW rec, GoodRecord(rec)
    PROVE  /\ image.since \in Nat /\ clock \in Nat /\ rec.ts \in Nat
           /\ image.since <= clock /\ clock <= rec.ts
           /\ modules \in Seq(ModuleRecords) /\ Len(modules) \in Nat
           /\ DOMAIN modules = 1..Len(modules)
           /\ \A j \in DOMAIN modules :
                 modules[j] \in ModuleRecords /\ modules[j].loaded_at \in Nat
           /\ \A k \in DOMAIN rows : rows[k].ts \in Nat /\ rows[k].ts <= clock
<1>1. /\ image.since \in Times /\ image.since <= clock /\ clock \in Times /\ rec.ts \in Times
      /\ clock <= rec.ts /\ modules \in Seq(ModuleRecords) /\ RowsOK
    BY DEF KernelInv, FrameInv, GoodRecord, RowsInv, RowsOK
<1>2. \A j \in DOMAIN modules : modules[j] \in ModuleRecords
    BY <1>1
<1>3. \A j \in DOMAIN modules : modules[j].loaded_at \in Times
    BY <1>2 DEF ModuleRecords
<1>4. Len(modules) \in Nat /\ DOMAIN modules = 1..Len(modules)
    BY <1>1
<1>5. \A k \in DOMAIN rows : rows[k].ts \in Nat /\ rows[k].ts <= clock
    BY <1>1, RowTypes
<1> QED
    BY <1>1, <1>2, <1>3, <1>4, <1>5, BoundFacts

\* The image at the base address is the last module, while its load was seen.
LEMMA LastModule ==
    ASSUME KernelInv, RowsInv, FrameInv, NEW rec, GoodRecord(rec), seen, image.name # None
    PROVE  /\ Len(modules) \in DOMAIN modules
           /\ modules[Len(modules)].name = image.name
           /\ modules[Len(modules)].loaded_at <= rec.ts
           /\ modules[Len(modules)].unloaded_at = None
<1>1. /\ modules # <<>> /\ modules[Len(modules)].name = image.name
      /\ modules[Len(modules)].unloaded_at = None
      /\ \A j \in DOMAIN modules : modules[j].loaded_at <= image.since
    BY DEF FrameInv
<1>2. /\ image.since \in Nat /\ clock \in Nat /\ rec.ts \in Nat
      /\ image.since <= clock /\ clock <= rec.ts
      /\ modules \in Seq(ModuleRecords) /\ Len(modules) \in Nat
      /\ DOMAIN modules = 1..Len(modules)
      /\ \A j \in DOMAIN modules : modules[j].loaded_at \in Nat
    BY FrameTypes
<1>3. Len(modules) \in DOMAIN modules
    BY <1>1, <1>2
<1> QED
    BY <1>1, <1>2, <1>3

\* The modules stay, and so does the image or it is unmapped.
LEMMA ModulesKept ==
    ASSUME KernelInv, RowsInv, FrameInv, NEW rec, GoodRecord(rec), written' = written + 1,
           clock' = rec.ts, modules' = modules, image' = image, seen' = seen,
           rec.real_image = IF seen THEN image.name ELSE None,
           UNCHANGED procVars \/ AddsLife(rec) \/ TakesFile(rec) \/ TakesStack(rec)
    PROVE  FrameInv'
<1>1. ASSUME NEW k \in DOMAIN rows', rows'[k].real_image # None
      PROVE  /\ \E j \in DOMAIN modules' : Framed(modules', rows'[k], j)
             /\ image'.name = None => rows'[k].ts <= image'.since
  <2>1. CASE /\ k \in DOMAIN rows /\ rows'[k].ts = rows[k].ts
             /\ rows'[k].real_image = rows[k].real_image
    <3>1. PICK j \in DOMAIN modules : Framed(modules, rows[k], j)
      BY <1>1, <2>1 DEF FrameInv
    <3>2. Framed(modules', rows'[k], j)
      BY <2>1, <3>1 DEF Framed
    <3> QED
      BY <1>1, <2>1, <3>2 DEF FrameInv
  <2>2. CASE rows'[k].ts = rec.ts /\ rows'[k].real_image = rec.real_image
    <3>1. seen /\ image.name # None /\ rec.real_image = image.name
      BY <1>1, <2>2
    <3>2. /\ Len(modules) \in DOMAIN modules /\ modules[Len(modules)].name = image.name
          /\ modules[Len(modules)].loaded_at <= rec.ts
          /\ modules[Len(modules)].unloaded_at = None
      BY <3>1, LastModule
    <3>3. \A m \in DOMAIN modules : ~(m > Len(modules))
      BY FrameTypes
    <3>4. Framed(modules', rows'[k], Len(modules))
      BY <2>2, <3>1, <3>2, <3>3 DEF Framed
    <3> QED
      BY <3>1, <3>2, <3>4
  <2> QED
    BY <2>1, <2>2, RowsAfter
<1> QED
    BY <1>1 DEF FrameInv

\* An image is mapped: its module is the last one if the record was not lost.
LEMMA ModuleLoaded ==
    ASSUME KernelInv, RowsInv, FrameInv, NEW rec, GoodRecord(rec), written' = written + 1,
           clock' = rec.ts, rec.kind = "image_load", image.name = None, image.since < rec.ts,
           image' = [name |-> rec.name, since |-> rec.ts], rec.real_image = rec.name,
           AddsLife(rec)
    PROVE  FrameInv'
<1> DEFINE new == [name |-> rec.name, loaded_at |-> rec.ts, unloaded_at |-> None]
           n == Len(modules) + 1
<1>1. modules' = Append(modules, new)
    BY DEF AddsLife, record_module_load
<1>2. new \in ModuleRecords /\ rec.name # None
    BY NoneAssumption DEF GoodRecord, ModuleRecords
<1>3. new.name = rec.name /\ new.loaded_at = rec.ts /\ new.unloaded_at = None
    OBVIOUS
<1> HIDE DEF new
<1>4. /\ image.since \in Nat /\ clock \in Nat /\ rec.ts \in Nat
      /\ image.since <= clock /\ clock <= rec.ts
      /\ modules \in Seq(ModuleRecords) /\ Len(modules) \in Nat
      /\ DOMAIN modules = 1..Len(modules)
      /\ \A j \in DOMAIN modules : modules[j].loaded_at \in Nat
      /\ \A k \in DOMAIN rows : rows[k].ts \in Nat
    BY FrameTypes
<1>5. /\ modules' \in Seq(ModuleRecords) /\ Len(modules') = n
      /\ DOMAIN modules' = DOMAIN modules \cup {n} /\ modules'[n] = new
      /\ \A j \in DOMAIN modules : modules'[j] = modules[j] /\ j < n
    BY <1>1, <1>2, <1>4, AppendFacts
<1>6. \A j \in DOMAIN modules : modules[j].loaded_at <= image.since
    BY DEF FrameInv
<1>7. \A j \in DOMAIN modules' : modules'[j].loaded_at <= image'.since
    BY <1>3, <1>4, <1>5, <1>6
<1>8. ASSUME NEW j \in DOMAIN modules', NEW m \in DOMAIN modules', j < m
      PROVE  modules'[j].loaded_at < modules'[m].loaded_at
  <2>1. j \in DOMAIN modules
    BY <1>4, <1>5, <1>8
  <2>2. CASE m \in DOMAIN modules
    BY <1>5, <1>8, <2>1, <2>2 DEF FrameInv
  <2>3. CASE m = n
    <3>1. modules[j].loaded_at <= image.since /\ modules[j].loaded_at \in Nat
      BY <1>4, <1>6, <2>1
    <3> QED
      BY <1>3, <1>4, <1>5, <2>1, <2>3, <3>1
  <2> QED
    BY <1>5, <2>2, <2>3
<1>9. ASSUME NEW k \in DOMAIN rows', rows'[k].real_image # None
      PROVE  \E j \in DOMAIN modules' : Framed(modules', rows'[k], j)
  <2>1. CASE /\ k \in DOMAIN rows /\ rows'[k].ts = rows[k].ts
             /\ rows'[k].real_image = rows[k].real_image
    <3>1. PICK j \in DOMAIN modules : Framed(modules, rows[k], j)
      BY <1>9, <2>1 DEF FrameInv
    <3>2. rows[k].ts <= image.since
      BY <1>9, <2>1 DEF FrameInv
    <3>3. new.loaded_at > rows[k].ts
      BY <1>3, <1>4, <2>1, <3>2
    <3>4. \A m \in DOMAIN modules' : m > j => modules'[m].loaded_at > rows[k].ts
      BY <1>5, <3>1, <3>3 DEF Framed
    <3>5. Framed(modules', rows'[k], j)
      BY <1>5, <2>1, <3>1, <3>4 DEF Framed
    <3> QED
      BY <1>5, <3>5
  <2>2. CASE rows'[k].ts = rec.ts /\ rows'[k].real_image = rec.real_image
    <3>1. \A m \in DOMAIN modules' : ~(m > n)
      BY <1>4, <1>5
    <3>2. rec.ts <= rec.ts
      BY <1>4
    <3>3. Framed(modules', rows'[k], n)
      BY <1>3, <1>5, <2>2, <3>1, <3>2 DEF Framed
    <3> QED
      BY <1>5, <3>3
  <2> QED
    BY <2>1, <2>2, RowsAfter
<1>10. /\ modules' # <<>> /\ modules'[Len(modules')].name = image'.name
       /\ modules'[Len(modules')].unloaded_at = None /\ image'.name # None
    BY <1>2, <1>3, <1>4, <1>5
<1> QED
    BY <1>5, <1>7, <1>8, <1>9, <1>10 DEF FrameInv

\* An image is unmapped: some open module is closed at that time.
LEMMA ModuleUnloaded ==
    ASSUME KernelInv, RowsInv, FrameInv, NEW rec, GoodRecord(rec), written' = written + 1,
           clock' = rec.ts, image' = [name |-> None, since |-> rec.ts],
           rec.real_image = IF seen THEN image.name ELSE None,
           UNCHANGED procVars \/ AddsLife(rec),
           modules' = modules \/ \E x : modules' = [modules EXCEPT ![x].unloaded_at = rec.ts]
    PROVE  FrameInv'
<1>1. /\ image.since \in Nat /\ clock \in Nat /\ rec.ts \in Nat /\ rec.ts \in Times
      /\ image.since <= clock /\ clock <= rec.ts
      /\ modules \in Seq(ModuleRecords) /\ Len(modules) \in Nat
      /\ DOMAIN modules = 1..Len(modules)
      /\ \A j \in DOMAIN modules :
            modules[j] \in ModuleRecords /\ modules[j].loaded_at \in Nat
      /\ \A k \in DOMAIN rows : rows[k].ts \in Nat /\ rows[k].ts <= clock
    BY FrameTypes DEF GoodRecord
<1>2. /\ modules' \in Seq(ModuleRecords) /\ DOMAIN modules' = DOMAIN modules
      /\ \A j \in DOMAIN modules :
            /\ modules'[j].name = modules[j].name
            /\ modules'[j].loaded_at = modules[j].loaded_at
            /\ modules'[j].unloaded_at \in {modules[j].unloaded_at, rec.ts}
  <2>1. CASE modules' = modules
    BY <1>1, <2>1
  <2>2. ASSUME NEW x, modules' = [modules EXCEPT ![x].unloaded_at = rec.ts]
        PROVE  /\ modules' \in Seq(ModuleRecords) /\ DOMAIN modules' = DOMAIN modules
               /\ \A j \in DOMAIN modules :
                     /\ modules'[j].name = modules[j].name
                     /\ modules'[j].loaded_at = modules[j].loaded_at
                     /\ modules'[j].unloaded_at \in {modules[j].unloaded_at, rec.ts}
    <3>1. CASE x \in DOMAIN modules
      <4> DEFINE new == [modules[x] EXCEPT !.unloaded_at = rec.ts]
      <4>1. /\ new \in ModuleRecords /\ new.name = modules[x].name
            /\ new.loaded_at = modules[x].loaded_at /\ new.unloaded_at = rec.ts
        BY <1>1, <3>1 DEF ModuleRecords
      <4>2. modules' = [modules EXCEPT ![x] = new]
        BY <1>1, <2>2, <3>1
      <4> HIDE DEF new
      <4> QED
        BY <1>1, <3>1, <4>1, <4>2
    <3>2. CASE x \notin DOMAIN modules
      <4>1. modules' = modules
        BY <1>1, <2>2, <3>2
      <4> QED
        BY <1>1, <4>1
    <3> QED
      BY <3>1, <3>2
  <2> QED
    BY <2>1, <2>2
<1>3. \A j \in DOMAIN modules' : modules'[j].loaded_at <= image'.since
  <2>1. \A j \in DOMAIN modules : modules[j].loaded_at <= image.since
    BY DEF FrameInv
  <2> QED
    BY <1>1, <1>2, <2>1
<1>4. \A j, m \in DOMAIN modules' : j < m => modules'[j].loaded_at < modules'[m].loaded_at
    BY <1>2 DEF FrameInv
<1>5. ASSUME NEW k \in DOMAIN rows', rows'[k].real_image # None
      PROVE  (\E j \in DOMAIN modules' : Framed(modules', rows'[k], j)) /\ rows'[k].ts <= image'.since
  <2>1. CASE /\ k \in DOMAIN rows /\ rows'[k].ts = rows[k].ts
             /\ rows'[k].real_image = rows[k].real_image
    <3>1. PICK j \in DOMAIN modules : Framed(modules, rows[k], j)
      BY <1>5, <2>1 DEF FrameInv
    <3>2. rows[k].ts <= rec.ts
      BY <1>1, <2>1
    <3>3. Framed(modules', rows'[k], j)
      BY <1>2, <2>1, <3>1, <3>2 DEF Framed
    <3> QED
      BY <1>2, <2>1, <3>2, <3>3
  <2>2. CASE rows'[k].ts = rec.ts /\ rows'[k].real_image = rec.real_image
    <3>1. seen /\ image.name # None /\ rec.real_image = image.name
      BY <1>5, <2>2
    <3>2. /\ Len(modules) \in DOMAIN modules /\ modules[Len(modules)].name = image.name
          /\ modules[Len(modules)].loaded_at <= rec.ts
          /\ modules[Len(modules)].unloaded_at = None
      BY <3>1, LastModule
    <3>3. (\A m \in DOMAIN modules : ~(m > Len(modules))) /\ rec.ts <= rec.ts
      BY <1>1
    <3>4. /\ modules'[Len(modules)].unloaded_at # None =>
                rows'[k].ts <= modules'[Len(modules)].unloaded_at
          /\ modules'[Len(modules)].loaded_at <= rows'[k].ts
          /\ modules'[Len(modules)].name = rows'[k].real_image
      BY <1>2, <2>2, <3>1, <3>2, <3>3
    <3>5. \E j \in DOMAIN modules' : Framed(modules', rows'[k], j)
      BY <1>2, <3>2, <3>3, <3>4 DEF Framed
    <3> QED
      BY <2>2, <3>3, <3>5
  <2> QED
    BY <2>1, <2>2, RowsAfter
<1> QED
    BY <1>2, <1>3, <1>4, <1>5 DEF FrameInv

LEMMA FrameInvAfter ==
    ASSUME KernelInv, RowsInv, FrameInv, NEW rec, GoodRecord(rec), Write(rec), ImageStep(rec)
    PROVE  FrameInv'
<1>0. /\ written' = written + 1 /\ clock' = rec.ts /\ seen \in BOOLEAN
      /\ \/ process_record(rec) /\ seen' = (seen \/ rec.kind = "image_load")
         \/ UNCHANGED procVars /\ seen' = (seen /\ rec.kind # "image_load")
    BY WriteFacts DEF KernelInv
<1>1. \/ /\ Skips(rec) \/ AddsLife(rec) \/ TakesFile(rec) \/ TakesStack(rec)
         /\ seen' = (seen \/ rec.kind = "image_load")
      \/ UNCHANGED procVars /\ seen' = (seen /\ rec.kind # "image_load")
    BY <1>0, ProcessCases
<1>2. UNCHANGED procVars => modules' = modules /\ rows' = rows
    BY DEF procVars
<1>3. CASE /\ rec.kind = "image_load" /\ rec.pid = Target
           /\ image.name = None /\ image.since < rec.ts
           /\ image' = [name |-> rec.name, since |-> rec.ts] /\ rec.real_image = rec.name
  <2>1. CASE UNCHANGED procVars /\ seen' = FALSE
    <3>1. rec.name # None
      BY <1>3, NoneAssumption DEF GoodRecord
    <3>2. \A j \in DOMAIN modules : modules[j].loaded_at <= rec.ts
      <4>1. \A j \in DOMAIN modules :
                modules[j].loaded_at <= image.since /\ modules[j].loaded_at \in Nat
        BY FrameTypes DEF FrameInv
      <4>2. image.since \in Nat /\ rec.ts \in Nat
        BY FrameTypes
      <4> QED
        BY <1>3, <4>1, <4>2
    <3> QED
      BY <1>2, <1>3, <2>1, <3>1, <3>2 DEF FrameInv
  <2>2. CASE AddsLife(rec)
    BY <1>0, <1>3, <2>2, ModuleLoaded
  <2> QED
    BY <1>1, <1>3, <2>1, <2>2 DEF Skips, TakesFile, TakesStack, LifeKinds, FileKinds, FileRows
<1>4. CASE /\ rec.kind = "image_unload" /\ rec.pid = Target
           /\ image' = [name |-> None, since |-> rec.ts]
           /\ rec.real_image = IF seen THEN image.name ELSE None
  <2>1. UNCHANGED procVars \/ AddsLife(rec)
    BY <1>1, <1>4 DEF Skips, TakesFile, TakesStack, LifeKinds, FileKinds, FileRows
  <2>2. modules' = modules \/ \E x : modules' = [modules EXCEPT ![x].unloaded_at = rec.ts]
    <3>1. CASE AddsLife(rec)
      BY <1>4, <3>1 DEF AddsLife, record_module_unload
    <3> QED
      BY <1>2, <2>1, <3>1
  <2> QED
    BY <1>0, <1>4, <2>1, <2>2, ModuleUnloaded
<1>5. CASE /\ rec.kind \notin {"image_load", "image_unload"}
           /\ image' = image
           /\ rec.real_image = IF seen THEN image.name ELSE None
  <2>1. UNCHANGED procVars \/ AddsLife(rec) \/ TakesFile(rec) \/ TakesStack(rec)
    BY <1>1 DEF Skips
  <2>2. seen' = seen
    BY <1>0, <1>5
  <2>3. modules' = modules
    BY <1>2, <1>5, <2>1 DEF AddsLife, TakesFile, TakesStack, process_stack_walk_event
  <2> QED
    BY <1>0, <1>5, <2>1, <2>2, <2>3, ModulesKept
<1> QED
    BY <1>3, <1>4, <1>5 DEF ImageStep

-----------------------------------------------------------------------------
(* The invariant. *)

LEMMA EtwInitInd == EtwInit => EtwIndInv
<1> SUFFICES ASSUME EtwInit PROVE EtwIndInv
    OBVIOUS
<1>0. MaxRecords[workload] \in Nat /\ 0 \in Times /\ written \in Nat /\ written = 0
    BY BoundFacts DEF EtwInit, Times
<1>1. KernelInv
  <2>1. io \in [Irps -> IoRecords] /\ file \in [Objects -> FileRecords]
        /\ \A i \in Irps : io[i] = NoIo
    BY NoIoFacts DEF EtwInit
  <2>2. image \in [name : Images \cup {None}, since : Times] /\ image.since = 0
    BY <1>0 DEF EtwInit, NoImage
  <2>3. /\ workload \in {"files", "stacks"} /\ seen \in BOOLEAN
        /\ event_sets \subseteq {"process", "file_io"} /\ clock = 0 /\ lost = 0 /\ named = 0
    BY DEF EtwInit
  <2>4. /\ written \in 0..MaxRecords[workload] /\ clock \in Times /\ lost \in 0..MaxLost
        /\ named \in 0..MaxNamed /\ image.since <= clock
    BY <1>0, <2>2, <2>3, BoundFacts
  <2> QED
    BY <2>1, <2>2, <2>3, <2>4 DEF KernelInv, IoRecords, FileRecords
<1>2. RowsInv
  <2>1. rows = <<>> /\ Len(rows) = 0 /\ rows \in Seq(RowRecords) /\ DOMAIN rows = {}
    BY DEF EtwInit
  <2> QED
    BY <1>0, <2>1 DEF EtwInit, RowsInv, RowsOK
<1>3. IoInv
  <2>1. WaitingIrps = {} /\ {k \in DOMAIN rows : rows[k].irp # None} = {}
    BY DEF EtwInit, WaitingIrps
  <2>2. IsFiniteSet({}) /\ Cardinality({}) = 0
    BY FS_EmptySet
  <2>3. matched_op_end = 0 /\ reused_irp = 0 /\ 0 = 0 + 0 + 0
    BY DEF EtwInit
  <2> QED
    BY <2>1, <2>2, <2>3 DEF IoInv, IoAccounting, WaitingIrps
<1>4. StackInv
  <2>1. pending_stacks \in [Times -> Seq(StackRecords)] /\ PendingTimes = {}
        /\ \A t \in Times : DOMAIN pending_stacks[t] = {} /\ Len(pending_stacks[t]) = 0
    BY DEF EtwInit, PendingTimes
  <2>2. Cardinality(PendingTimes) = 0 /\ StacksAt(PendingTimes) = 0
    <3>1. UNION {{t} \X DOMAIN pending_stacks[t] : t \in PendingTimes} = {}
      BY <2>1
    <3> QED
      BY <2>1, <3>1, FS_EmptySet DEF StacksAt
  <2> QED
    BY <1>0, <2>1, <2>2, BoundFacts DEF EtwInit, StackInv, StackTypes, StackAccounting, PendingBounded
<1>5. OwnInv /\ PathInv /\ FrameInv
    BY PidAssumption DEF EtwInit, OwnInv, OwnCompletion, PathInv, PathIsReal, FrameInv, NoFile, NoImage
<1> QED
    BY <1>1, <1>2, <1>3, <1>4, <1>5 DEF EtwIndInv

LEMMA EtwNextInd == EtwIndInv /\ [EtwNext]_etwVars => EtwIndInv'
<1> SUFFICES ASSUME EtwIndInv, [EtwNext]_etwVars PROVE EtwIndInv'
    OBVIOUS
<1> USE DEF EtwIndInv
<1>1. CASE EtwNext
  <2>1. PICK rec : GoodRecord(rec) /\ Write(rec) /\ KernelInv' /\ IoStep(rec) /\ ImageStep(rec)
    BY <1>1, NextRecord
  <2>2. /\ written' = written + 1 /\ clock' = rec.ts
        /\ UNCHANGED procVars \/ process_record(rec)
    BY <2>1, WriteFacts
  <2>3. UNCHANGED procVars \/ AddsLife(rec) \/ TakesFile(rec) \/ TakesStack(rec)
    BY <2>1, <2>2, ProcessCases DEF Skips
  <2>4. RowsInv' /\ IoInv' /\ StackInv'
    BY <2>1, <2>2, <2>3, RowsInvAfter, IoInvAfter, StackInvAfter
  <2>5. OwnInv' /\ PathInv' /\ FrameInv'
    BY <2>1, OwnInvAfter, PathInvAfter, FrameInvAfter
  <2> QED
    BY <2>1, <2>4, <2>5
<1>2. CASE UNCHANGED etwVars
  <2>1. KernelInv' /\ RowsInv'
    BY <1>2 DEF etwVars, kernelVars, procVars, ioVars, KernelInv, RowsInv, RowsOK
  <2>2. IoInv'
    BY <1>2 DEF etwVars, procVars, ioVars, IoInv, IoAccounting, WaitingIrps
  <2>3. StackInv'
    BY <1>2 DEF etwVars, kernelVars, procVars, stackVars, StackInv, StackTypes, StackAccounting,
                PendingBounded, StacksAt, PendingTimes
  <2>4. OwnInv' /\ PathInv'
    BY <1>2 DEF etwVars, kernelVars, procVars, ioVars, OwnInv, OwnCompletion, PathInv, PathIsReal
  <2>5. FrameInv'
    BY <1>2 DEF etwVars, kernelVars, procVars, FrameInv
  <2> QED
    BY <2>1, <2>2, <2>3, <2>4, <2>5
<1> QED
    BY <1>1, <1>2

\* What EtwProcessor keeps between two records: its maps agree with the packets,
\* files and images of the kernel as far as the trace lost nothing, and its
\* counters with what waits (process_record and what it calls).
THEOREM EtwInvariance == EtwSpec => []EtwIndInv
BY EtwInitInd, EtwNextInd, PTL DEF EtwSpec

LEMMA EtwTypes == EtwIndInv => EtwTypeOK
<1> SUFFICES ASSUME EtwIndInv PROVE EtwTypeOK
    OBVIOUS
<1>1. KernelInv /\ RowsInv /\ StackInv /\ RowsOK
    BY DEF EtwIndInv, RowsInv, RowsOK
<1>2. written \in 0..MaxRecords[workload] /\ MaxRecords[workload] \in Nat /\ written \in Nat
    BY <1>1, BoundFacts DEF KernelInv
<1>3. ASSUME NEW k \in DOMAIN rows
      PROVE  /\ rows[k].ts \in Times /\ rows[k].thread \in Threads
             /\ rows[k].path \in Paths \cup {None}
             /\ rows[k].done \in 0..MaxRecords[workload]
             /\ rows[k].kind \in {"create", "read", "dir", "cleanup", "name",
                                  "image_load", "image_unload", "lifecycle"}
  <2>1. rows[k] \in RowRecords /\ rows[k].done \in Nat /\ rows[k].done <= written
    BY <1>1, RowTypes
  <2>2. rows[k].done \in 0..MaxRecords[workload]
    BY <1>2, <2>1
  <2> QED
    BY <2>1, <2>2 DEF RowRecords, FileRows, LifeKinds
<1>4. {matched_op_end, unmatched_op_end, reused_irp, stack_walks}
          \subseteq 0..MaxRecords[workload]
    BY <1>1, <1>2 DEF RowsInv, RowsOK, StackInv, StackTypes
<1>5. {matched_stack_walks, dropped_stack_walks} \subseteq 0..MaxRecords[workload]
  <2>1. StackTypes /\ PendingBounded
    BY <1>1 DEF StackInv, StackTypes
  <2>2. Cardinality(Slots(PendingTimes)) \in Nat
    BY <2>1, SlotsFinite, PendingTimesFinite, FS_CardinalityType
  <2>3. stack_walks = matched_stack_walks + dropped_stack_walks + Cardinality(Slots(PendingTimes))
    BY <1>1 DEF StackInv, StackTypes, StackAccounting, StacksAt, Slots
  <2>4. matched_stack_walks \in Nat /\ dropped_stack_walks \in Nat /\ stack_walks \in 0..written
    BY <1>1 DEF StackInv, StackTypes
  <2> QED
    BY <1>2, <2>2, <2>3, <2>4
<1>6. \A t \in Times : \A q \in Range(pending_stacks[t]) : q.ts = t
    BY <1>1 DEF StackInv, StackTypes, Range
<1> QED
    BY <1>1, <1>3, <1>4, <1>5, <1>6 DEF EtwTypeOK, KernelInv, RowsInv, RowsOK

\* The summary of a trace accounts for every file row and every stack record,
\* and what waits stays within its limits (finish, prune_pending_stacks_before,
\* cache_pending_stack_walk_event), for traces of any length and any losses.
THEOREM SummaryAddsUp == EtwSpec => []Accounting
<1>1. EtwIndInv => Accounting
    BY EtwTypes DEF EtwIndInv, IoInv, StackInv, StackTypes, Accounting
<1> QED
    BY <1>1, EtwInvariance, PTL

\* An operation gets its own completion or none, however packets are reused
\* (merge_file_io_completion, ignore_file_io_close).
THEOREM CompletionsAreOwn == EtwSpec => []OwnCompletion
<1>1. EtwIndInv => OwnCompletion
    BY DEF EtwIndInv, OwnInv
<1> QED
    BY <1>1, EtwInvariance, PTL

\* The path of an operation is the last name the target's records gave to this
\* open of the file, never one of an earlier file at the same address, for
\* traces of any length and however directory and name records overwrite the
\* cache (cache_file_path, remove_file_path, resolve_file_path).
THEOREM PathsAreReal == EtwSpec => []PathIsReal
<1>1. EtwIndInv => PathIsReal
    BY DEF EtwIndInv, PathInv
<1> QED
    BY <1>1, EtwInvariance, PTL

\* An address resolves to the image that was mapped at that time
\* (record_module_load, record_module_unload, resolve_stack_address).
THEOREM FramesAreReal == EtwSpec => []FrameIsReal
<1>1. ASSUME EtwIndInv, NEW k \in DOMAIN rows, rows[k].real_image # None
      PROVE  resolve_stack_address(rows[k].ts) = rows[k].real_image
  <2> DEFINE at == {m \in DOMAIN modules : contains_at(modules[m], rows[k].ts)}
             best == {m \in at : \A j \in at : modules[j].loaded_at <= modules[m].loaded_at}
  <2>1. PICK j \in DOMAIN modules : Framed(modules, rows[k], j)
    BY <1>1 DEF EtwIndInv, FrameInv
  <2>2. /\ modules \in Seq(ModuleRecords) /\ j \in Nat /\ DOMAIN modules \subseteq Nat
        /\ \A m \in DOMAIN modules : modules[m].loaded_at \in Nat
        /\ rows[k].ts \in Nat
        /\ \A i, m \in DOMAIN modules : i < m => modules[i].loaded_at < modules[m].loaded_at
    <3>1. /\ RowsOK /\ modules \in Seq(ModuleRecords)
          /\ \A i, m \in DOMAIN modules : i < m => modules[i].loaded_at < modules[m].loaded_at
      BY <1>1 DEF EtwIndInv, RowsInv, RowsOK, FrameInv
    <3>2. \A m \in DOMAIN modules : modules[m] \in ModuleRecords
      BY <3>1
    <3>3. \A m \in DOMAIN modules : modules[m].loaded_at \in Times
      BY <3>2 DEF ModuleRecords
    <3>4. DOMAIN modules \subseteq Nat
      BY <3>1
    <3> QED
      BY <3>1, <3>3, <3>4, RowTypes, BoundFacts
  <2>3. j \in at
    BY <2>1, <2>2 DEF Framed, contains_at
  <2>4. ASSUME NEW m \in at PROVE m = j \/ modules[m].loaded_at < modules[j].loaded_at
    <3>1. m \in DOMAIN modules /\ rows[k].ts >= modules[m].loaded_at
      BY DEF contains_at
    <3>2. ~(m > j)
      <4>1. m > j => modules[m].loaded_at > rows[k].ts
        BY <2>1, <3>1 DEF Framed
      <4>2. modules[m].loaded_at \in Nat /\ rows[k].ts \in Nat
        BY <2>2, <3>1
      <4> QED
        BY <3>1, <4>1, <4>2
    <3>3. m \in Nat
      BY <2>2, <3>1
    <3> QED
      BY <2>2, <3>1, <3>2, <3>3
  <2>5. best = {j}
    <3>1. j \in best
      <4>1. ASSUME NEW m \in at PROVE modules[m].loaded_at <= modules[j].loaded_at
        <5>1. modules[m].loaded_at \in Nat /\ modules[j].loaded_at \in Nat
          BY <2>2
        <5> QED
          BY <2>4, <5>1
      <4> QED
        BY <2>3, <4>1
    <3>2. ASSUME NEW m \in best PROVE m = j
      <4>1. modules[m].loaded_at \in Nat /\ modules[j].loaded_at \in Nat
            /\ modules[j].loaded_at <= modules[m].loaded_at
        BY <2>2, <2>3
      <4> QED
        BY <2>4, <4>1
    <3> HIDE DEF best
    <3> QED
      BY <3>1, <3>2
  <2>6. Max(best) = j
    <3>1. j >= j
      BY <2>2
    <3> QED
      BY <2>5, <3>1 DEF Max
  <2>7. resolve_stack_address(rows[k].ts) = modules[Max(best)].name
    BY <2>3 DEF resolve_stack_address
  <2> QED
    BY <2>1, <2>6, <2>7 DEF Framed
<1>2. EtwIndInv => FrameIsReal
    BY <1>1 DEF FrameIsReal
<1> QED
    BY <1>2, EtwInvariance, PTL
==================================================================================
