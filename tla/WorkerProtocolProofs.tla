------------------------ MODULE WorkerProtocolProofs -------------------------
(* The debug worker's protocol: requests are kept apart on the pipes, and a    *)
(* close that has returned leaves no process.                                  *)
EXTENDS WorkerProtocol, SequenceTheorems, TLAPS

\* A request and request_lock: it holds the lock from has_exited to its last
\* line, has its id once it has written, and a result other than an error only
\* if the worker answered that id.
RequestOf(c) ==
    /\ req[c].pc \in {"write", "read"} <=> requestLock = c
    /\ req[c].pc \in {None, "lock", "write"} => req[c].id = NoId
    /\ req[c].pc = "read" => req[c].id \in Nat
    /\ req[c].id # NoId => req[c].id < nextId
    /\ req[c].pc # "done" => req[c].result = None
    /\ req[c].result \notin {None, "error"} => req[c].id \in answered

\* No two requests share an id.
IdsDiffer ==
    \A c, d \in Calls : req[c].id = req[d].id /\ req[c].id # NoId => c = d

\* A call, its request and its kill: which calls get how far, what a success
\* rests on, and what has become of the process when a close is over.
CallOf(c) ==
    /\ call[c].pc = "idle" => req[c].pc = None
    /\ call[c].pc = "exit" => c \in Closes
    /\ call[c].pc \in {"kill", "wait"} => c \in Closes \cup {"kill"}
    /\ call[c].pc = "recv" => c # "kill"
    /\ call[c].pc # "done" => call[c].result = None
    /\ c \notin Closes \cup {"kill"} /\ call[c].result = "ok" => req[c].result = Expected(c)
    /\ c \in Closes /\ call[c].pc = "done" =>
          /\ call[c].result = "ok" => Exited
          /\ failures = 0 => Exited

\* A response with a result is in the history.
AnswerInv ==
    \A i \in 1 .. Len(stdout) :
        stdout[i].kind = "response" =>
            stdout[i].result # None /\ (stdout[i].result # "error" => stdout[i].id \in answered)

\* A process that has gone handles nothing.
HandlingInv ==
    /\ worker.handling = NoId <=> worker.method = None
    /\ Exited => worker.handling = NoId

\* While every line is a frame, what is on the pipes and in the worker's hands
\* belongs to the request that reads, in one of three places: still on stdin,
\* with the worker, or answered by the last line of stdout.
QuietInv ==
    (\A c \in Calls : req[c].pc # "read") =>
        stdout = <<>> /\ worker.handling = NoId /\ (stdin = <<>> \/ Exited)
OwnInv(id) ==
    /\ \A i \in 1 .. Len(stdin) : stdin[i].id = id
    /\ \A i \in 1 .. Len(stdout) : stdout[i].id = id /\ stdout[i].kind # "garbage"
    /\ worker.handling \in {NoId, id}
    /\ stdin # <<>> => Len(stdin) = 1 /\ worker.handling = NoId /\ stdout = <<>>
    /\ \A i \in 1 .. Len(stdout) :
          stdout[i].kind = "response" =>
              i = Len(stdout) /\ stdin = <<>> /\ worker.handling = NoId
SequenceInv ==
    emitted.garbage = 0 =>
        QuietInv /\ \A c \in Calls : req[c].pc = "read" => OwnInv(req[c].id)

IndInv ==
    /\ TypeOK
    /\ \A c \in Calls : RequestOf(c) /\ CallOf(c)
    /\ IdsDiffer
    /\ AnswerInv
    /\ HandlingInv
    /\ SequenceInv

-----------------------------------------------------------------------------
(* Calls *)

LEMMA InitInd == Init => IndInv
<1> SUFFICES ASSUME Init PROVE IndInv
    OBVIOUS
<1> USE DEF Init
<1>0. NoId \notin Nat /\ stdin \in Seq([id : Nat, method : Methods]) /\ stdout \in Seq(Lines)
    BY DEF NoId
<1>1. TypeOK
    BY <1>0, ProtocolAssumption DEF TypeOK, CallStates, Requests, WorkerStates, Results, None
<1>2. ASSUME NEW c \in Calls PROVE RequestOf(c) /\ CallOf(c)
    BY ProtocolAssumption DEF RequestOf, CallOf, Calls, None
<1>3. IdsDiffer /\ AnswerInv /\ HandlingInv /\ SequenceInv
    BY DEF IdsDiffer, AnswerInv, HandlingInv, SequenceInv, QuietInv, OwnInv, None, Exited
<1> QED
    BY <1>1, <1>2, <1>3 DEF IndInv

\* A step of a call: nothing on the pipes moves, and a request comes to be at
\* most when the call was idle.
LEMMA CallerStep ==
    ASSUME IndInv, NEW c \in Calls, NEW new \in CallStates,
           call' = [call EXCEPT ![c] = new],
           \/ req' = req
           \/ call[c].pc = "idle" /\ req' = [req EXCEPT ![c].pc = "lock"],
           \/ worker' = worker
           \/ ~Exited /\ worker' = [worker EXCEPT !.state = "terminating"],
           failures' \in 0..MaxFailures, failures' = 0 => failures = 0,
           childLock' \in Calls \cup {None},
           UNCHANGED <<requestLock, nextId, pipes, owner, emitted, answered>>,
           CallOf(c)'
    PROVE  IndInv'
<1> USE DEF pipes
<1>0. TypeOK /\ CallOf(c) /\ RequestOf(c) /\ req[c] \in Requests /\ worker \in WorkerStates
    BY DEF IndInv, TypeOK
<1>1. /\ worker'.handling = worker.handling /\ worker'.method = worker.method
      /\ Exited' <=> Exited
      /\ worker' \in WorkerStates
  <2>1. CASE worker' = worker
    BY <1>0, <2>1 DEF Exited
  <2>2. CASE ~Exited /\ worker' = [worker EXCEPT !.state = "terminating"]
    BY <1>0, <2>2 DEF Exited, WorkerStates
  <2> QED
    BY <2>1, <2>2
<1>2. /\ \A d \in Calls : /\ req'[d].id = req[d].id /\ req'[d].result = req[d].result
                          /\ req'[d].pc = req[d].pc \/ (req[d].pc = None /\ req'[d].pc = "lock" /\ d = c)
      /\ req' \in [Calls -> Requests]
  <2>1. CASE req' = req
    BY <1>0, <2>1 DEF TypeOK
  <2>2. CASE call[c].pc = "idle" /\ req' = [req EXCEPT ![c].pc = "lock"]
    <3>1. req' = [req EXCEPT ![c] = [req[c] EXCEPT !.pc = "lock"]] /\ req[c].pc = None
      BY <1>0, <2>2 DEF TypeOK, CallOf
    <3>2. [req[c] EXCEPT !.pc = "lock"] \in Requests
      BY <1>0 DEF Requests
    <3> QED
      BY <1>0, <3>1, <3>2 DEF TypeOK, Requests
  <2> QED
    BY <2>1, <2>2
<1>3. TypeOK'
  <2>1. call' \in [Calls -> CallStates]
    BY <1>0 DEF TypeOK
  <2> QED
    BY <1>0, <1>1, <1>2, <2>1 DEF TypeOK
<1>4. ASSUME NEW d \in Calls PROVE RequestOf(d)' /\ CallOf(d)'
  <2>0. RequestOf(d) /\ CallOf(d)
    BY <1>4 DEF IndInv
  <2>1. RequestOf(d)'
    BY <1>2, <2>0 DEF RequestOf, None
  <2>2. CASE d # c
    <3>1. call'[d] = call[d] /\ req'[d].pc = req[d].pc
      BY <1>0, <1>2, <2>2 DEF TypeOK
    <3>2. req'[d].result = req[d].result /\ Expected(d)' = Expected(d)
      BY <1>2 DEF Expected
    <3>3. (Exited' <=> Exited) /\ (failures' = 0 => failures = 0)
      BY <1>1
    <3> QED
      BY <2>0, <2>1, <3>1, <3>2, <3>3 DEF CallOf
  <2> QED
    BY <2>1, <2>2
<1>5. IdsDiffer' /\ AnswerInv' /\ HandlingInv'
    BY <1>1, <1>2 DEF IndInv, IdsDiffer, AnswerInv, HandlingInv
<1>6. SequenceInv'
  <2>1. \A d \in Calls : req'[d].pc = "read" <=> req[d].pc = "read"
    BY <1>2 DEF None
  <2>2. \A id : OwnInv(id)' <=> OwnInv(id)
    BY <1>1 DEF OwnInv
  <2>3. QuietInv' <=> QuietInv
    BY <1>1, <2>1 DEF QuietInv
  <2> QED
    BY <1>2, <2>1, <2>2, <2>3 DEF IndInv, SequenceInv
<1> QED
    BY <1>3, <1>4, <1>5, <1>6 DEF IndInv

\* What a call that returns, goes on to kill or sends its request becomes.
LEMMA CallSteps ==
    ASSUME TypeOK, NEW c \in Calls
    PROVE  /\ \A r \in {"ok", "err"} : Return(c, r) =>
                 \E new \in CallStates : /\ call' = [call EXCEPT ![c] = new]
                                         /\ new.pc = "done" /\ new.result = r
           /\ \A a \in {"again", "result", "err"} : KillThen(c, a) =>
                 \E new \in CallStates : /\ call' = [call EXCEPT ![c] = new]
                                         /\ new.pc = "kill" /\ new.result = call[c].result
           /\ \A p \in {"recv", "exit", "wait"} : call' = [call EXCEPT ![c].pc = p] =>
                 \E new \in CallStates : /\ call' = [call EXCEPT ![c] = new]
                                         /\ new.pc = p /\ new.result = call[c].result
<1>0. call[c] \in CallStates
    BY DEF TypeOK
<1>1. ASSUME NEW r \in {"ok", "err"}, Return(c, r)
      PROVE  \E new \in CallStates : /\ call' = [call EXCEPT ![c] = new]
                                     /\ new.pc = "done" /\ new.result = r
  <2> DEFINE new == [call[c] EXCEPT !.pc = "done", !.result = r]
  <2>1. new \in CallStates /\ new.pc = "done" /\ new.result = r
    BY <1>0 DEF CallStates
  <2>2. call' = [call EXCEPT ![c] = new]
    BY <1>1 DEF Return, TypeOK
  <2> QED
    BY <2>1, <2>2
<1>2. ASSUME NEW a \in {"again", "result", "err"}, KillThen(c, a)
      PROVE  \E new \in CallStates : /\ call' = [call EXCEPT ![c] = new]
                                     /\ new.pc = "kill" /\ new.result = call[c].result
  <2> DEFINE new == [call[c] EXCEPT !.pc = "kill", !.after = a]
  <2>1. new \in CallStates /\ new.pc = "kill" /\ new.result = call[c].result
    BY <1>0 DEF CallStates
  <2>2. call' = [call EXCEPT ![c] = new]
    BY <1>2 DEF KillThen, TypeOK
  <2> QED
    BY <2>1, <2>2
<1>3. ASSUME NEW p \in {"recv", "exit", "wait"}, call' = [call EXCEPT ![c].pc = p]
      PROVE  \E new \in CallStates : /\ call' = [call EXCEPT ![c] = new]
                                     /\ new.pc = p /\ new.result = call[c].result
  <2> DEFINE new == [call[c] EXCEPT !.pc = p]
  <2>1. new \in CallStates /\ new.pc = p /\ new.result = call[c].result
    BY <1>0 DEF CallStates
  <2>2. call' = [call EXCEPT ![c] = new]
    BY <1>3 DEF TypeOK
  <2> QED
    BY <2>1, <2>2
<1> QED
    BY <1>1, <1>2, <1>3

\* The result of a kill: the process has gone, or a call has failed.
LEMMA KillResultStep ==
    ASSUME TypeOK, NEW c \in Calls, NEW r \in {"ok", "err"}, KillResult(c, r)
    PROVE  \E new \in CallStates :
              /\ call' = [call EXCEPT ![c] = new]
              /\ \/ new.pc = "kill" /\ new.result = call[c].result
                 \/ new.pc = "done" /\ new.result \in {r, "err"}
<1>1. CASE call[c].after = "again"
    BY <1>1, CallSteps DEF KillResult
<1>2. CASE call[c].after = "err"
    BY <1>2, CallSteps DEF KillResult
<1>3. CASE call[c].after \notin {"again", "err"}
    BY <1>3, CallSteps DEF KillResult
<1> QED
    BY <1>1, <1>2, <1>3

\* The steps of a call that make a request, close, receive or give up.
LEMMA CallerInd ==
    ASSUME IndInv, NEW c \in Calls,
           Request(c) \/ Close(c) \/ Receive(c) \/ CloseTimeout(c) \/ WaitForExitOrKill(c)
    PROVE  IndInv'
<1> USE DEF bounds
<1>0. /\ TypeOK /\ CallOf(c) /\ RequestOf(c) /\ failures \in 0..MaxFailures /\ MaxFailures \in Nat
      /\ childLock \in Calls \cup {None} /\ call \in [Calls -> CallStates]
      /\ req[c] \in Requests /\ req \in [Calls -> Requests]
    BY ProtocolAssumption DEF IndInv, TypeOK
<1>a. failures' = failures \/ Fail =>
         failures' \in 0..MaxFailures /\ (failures' = 0 => failures = 0)
    BY <1>0 DEF Fail
<1>b. "kill" \notin Closes /\ "create" \notin Closes /\ "kill" \notin Executes /\ Executes \cap Closes = {}
    BY ProtocolAssumption
<1> USE DEF CallOf
<1>1. CASE Request(c)
  <2>1. call' = [call EXCEPT ![c].pc = "recv"] /\ call[c].pc = "idle" /\ c \notin Closes /\ c # "kill"
    BY <1>1, <1>b DEF Request, SendRequest, MayCall
  <2>2. PICK new \in CallStates : /\ call' = [call EXCEPT ![c] = new]
                                  /\ new.pc = "recv" /\ new.result = call[c].result
    BY <1>0, <2>1, CallSteps
  <2>3. CallOf(c)'
    BY <1>0, <2>1, <2>2 DEF None
  <2> QED
    BY <1>0, <1>1, <1>a, <2>1, <2>2, <2>3, CallerStep DEF Request, SendRequest
<1>2. CASE Close(c)
  <2>0. c \in Closes /\ call[c].pc = "idle" /\ c # "kill"
    BY <1>2, <1>b DEF Close, MayCall
  <2>1. CASE Exited /\ Return(c, "ok") /\ UNCHANGED <<req, failures>>
    <3>1. PICK new \in CallStates : /\ call' = [call EXCEPT ![c] = new]
                                    /\ new.pc = "done" /\ new.result = "ok"
      BY <1>0, <2>1, CallSteps
    <3>2. CallOf(c)'
      BY <1>0, <1>2, <2>0, <2>1, <3>1 DEF Close, Exited, None
    <3> QED
      BY <1>0, <1>2, <1>a, <2>1, <3>1, <3>2, CallerStep DEF Close
  <2>2. CASE Fail /\ Return(c, "err") /\ UNCHANGED req
    <3>1. PICK new \in CallStates : /\ call' = [call EXCEPT ![c] = new]
                                    /\ new.pc = "done" /\ new.result = "err"
      BY <1>0, <2>2, CallSteps
    <3>2. CallOf(c)'
      BY <1>0, <2>0, <2>2, <3>1 DEF Fail, None
    <3> QED
      BY <1>0, <1>2, <1>a, <2>2, <3>1, <3>2, CallerStep DEF Close
  <2>3. CASE ~Exited /\ SendRequest(c) /\ UNCHANGED failures
    <3>1. PICK new \in CallStates : /\ call' = [call EXCEPT ![c] = new]
                                    /\ new.pc = "recv" /\ new.result = call[c].result
      BY <1>0, <2>3, CallSteps DEF SendRequest
    <3>2. CallOf(c)'
      BY <1>0, <2>0, <3>1 DEF None
    <3> QED
      BY <1>0, <1>2, <1>a, <2>0, <2>3, <3>1, <3>2, CallerStep DEF Close, SendRequest
  <2> QED
    BY <1>2, <2>1, <2>2, <2>3 DEF Close
<1>3. CASE Receive(c)
  <2>0. c # "kill" /\ call[c].pc = "recv" /\ req[c].pc = "done"
    BY <1>0, <1>3 DEF Receive
  <2>1. CASE c \in Closes /\ req[c].result = Expected(c)
    <3>1. PICK new \in CallStates : /\ call' = [call EXCEPT ![c] = new]
                                    /\ new.pc = "exit" /\ new.result = call[c].result
      BY <1>0, <1>3, <2>1, CallSteps DEF Receive
    <3>2. CallOf(c)'
      BY <1>0, <2>0, <2>1, <3>1
    <3> QED
      BY <1>0, <1>3, <1>a, <3>1, <3>2, CallerStep DEF Receive
  <2>2. CASE c \in Closes /\ req[c].result # Expected(c)
    <3>1. PICK new \in CallStates : /\ call' = [call EXCEPT ![c] = new]
                                    /\ new.pc = "kill" /\ new.result = call[c].result
      BY <1>0, <1>3, <2>2, CallSteps DEF Receive
    <3>2. CallOf(c)'
      BY <1>0, <2>0, <2>2, <3>1
    <3> QED
      BY <1>0, <1>3, <1>a, <3>1, <3>2, CallerStep DEF Receive
  <2>3. CASE c \notin Closes
    <3>1. PICK r \in {"ok", "err"} : Return(c, r) /\ (r = "ok" => req[c].result = Expected(c))
      BY <1>3, <2>3 DEF Receive
    <3>2. PICK new \in CallStates : /\ call' = [call EXCEPT ![c] = new]
                                    /\ new.pc = "done" /\ new.result = r
      BY <1>0, <3>1, CallSteps
    <3>3. CallOf(c)'
      BY <1>0, <1>3, <2>0, <2>3, <3>1, <3>2 DEF Receive, Expected
    <3> QED
      BY <1>0, <1>3, <1>a, <3>2, <3>3, CallerStep DEF Receive
  <2> QED
    BY <2>1, <2>2, <2>3
<1>4. CASE CloseTimeout(c)
  <2>1. PICK new \in CallStates : /\ call' = [call EXCEPT ![c] = new]
                                  /\ new.pc = "kill" /\ new.result = call[c].result
    BY <1>0, <1>4, CallSteps DEF CloseTimeout
  <2>2. CallOf(c)'
    BY <1>0, <1>4, <1>b, <2>1 DEF CloseTimeout, None
  <2> QED
    BY <1>0, <1>4, <1>a, <2>1, <2>2, CallerStep DEF CloseTimeout
<1>5. CASE WaitForExitOrKill(c)
  <2>0. c \in Closes /\ call[c].pc = "exit" /\ c # "kill"
    BY <1>0, <1>5, <1>b DEF WaitForExitOrKill
  <2>1. CASE Exited /\ Return(c, "ok") /\ UNCHANGED failures
    <3>1. PICK new \in CallStates : /\ call' = [call EXCEPT ![c] = new]
                                    /\ new.pc = "done" /\ new.result = "ok"
      BY <1>0, <2>1, CallSteps
    <3>2. CallOf(c)'
      BY <1>0, <1>5, <2>0, <2>1, <3>1 DEF WaitForExitOrKill, Exited
    <3> QED
      BY <1>0, <1>5, <1>a, <2>1, <3>1, <3>2, CallerStep DEF WaitForExitOrKill
  <2>2. CASE Fail /\ Return(c, "err")
    <3>1. PICK new \in CallStates : /\ call' = [call EXCEPT ![c] = new]
                                    /\ new.pc = "done" /\ new.result = "err"
      BY <1>0, <2>2, CallSteps
    <3>2. CallOf(c)'
      BY <1>0, <2>0, <2>2, <3>1 DEF Fail
    <3> QED
      BY <1>0, <1>5, <1>a, <2>2, <3>1, <3>2, CallerStep DEF WaitForExitOrKill
  <2>3. CASE ~Exited /\ KillThen(c, "result") /\ UNCHANGED failures
    <3>1. PICK new \in CallStates : /\ call' = [call EXCEPT ![c] = new]
                                    /\ new.pc = "kill" /\ new.result = call[c].result
      BY <1>0, <2>3, CallSteps
    <3>2. CallOf(c)'
      BY <1>0, <2>0, <3>1
    <3> QED
      BY <1>0, <1>5, <1>a, <2>3, <3>1, <3>2, CallerStep DEF WaitForExitOrKill
  <2> QED
    BY <1>5, <2>1, <2>2, <2>3 DEF WaitForExitOrKill
<1> QED
    BY <1>1, <1>2, <1>3, <1>4, <1>5

\* kill, whoever calls it: it comes back when the process has gone or an
\* operating system call has failed.
LEMMA KillInd ==
    ASSUME IndInv, NEW c \in Calls,
           KillStart(c) \/ KillWait(c) \/ (c = "kill" /\ Kill)
    PROVE  IndInv'
<1> USE DEF bounds
<1>0. /\ TypeOK /\ CallOf(c) /\ RequestOf(c) /\ failures \in 0..MaxFailures /\ MaxFailures \in Nat
      /\ childLock \in Calls \cup {None} /\ call \in [Calls -> CallStates]
    BY ProtocolAssumption DEF IndInv, TypeOK
<1>a. failures' = failures \/ Fail =>
         failures' \in 0..MaxFailures /\ (failures' = 0 => failures = 0)
    BY <1>0 DEF Fail
<1>b. "kill" \notin Closes
    BY ProtocolAssumption
<1> USE DEF CallOf
<1>1. CASE c = "kill" /\ Kill
  <2>1. PICK new \in CallStates : /\ call' = [call EXCEPT ![c] = new]
                                  /\ new.pc = "kill" /\ new.result = call[c].result
    BY <1>0, <1>1, CallSteps DEF Kill
  <2>2. CallOf(c)'
    BY <1>0, <1>1, <1>b, <2>1 DEF Kill, MayCall
  <2> QED
    BY <1>0, <1>1, <1>a, <2>1, <2>2, CallerStep DEF Kill
<1>2. CASE KillStart(c) /\ call' = [call EXCEPT ![c].pc = "wait"] /\ ~Exited /\ childLock' = c
                        /\ worker' = [worker EXCEPT !.state = "terminating"] /\ failures' = failures
  <2>1. PICK new \in CallStates : /\ call' = [call EXCEPT ![c] = new]
                                  /\ new.pc = "wait" /\ new.result = call[c].result
    BY <1>0, <1>2, CallSteps
  <2>2. CallOf(c)'
    BY <1>0, <1>2, <2>1 DEF KillStart
  <2> QED
    BY <1>0, <1>2, <1>a, <2>1, <2>2, CallerStep DEF KillStart
<1>3. ASSUME NEW r \in {"ok", "err"}, KillResult(c, r),
             \/ r = "ok" /\ Exited /\ UNCHANGED failures
             \/ r = "err" /\ Fail,
             call[c].pc \in {"kill", "wait"}, childLock' \in {childLock, None},
             UNCHANGED <<req, requestLock, nextId, pipes, worker, owner, emitted, answered>>
      PROVE  IndInv'
  <2>1. PICK new \in CallStates :
              /\ call' = [call EXCEPT ![c] = new]
              /\ \/ new.pc = "kill" /\ new.result = call[c].result
                 \/ new.pc = "done" /\ new.result \in {r, "err"}
    BY <1>0, <1>3, KillResultStep
  <2>2. call'[c] = new /\ req' = req /\ call[c].result = None /\ c \in Closes \cup {"kill"}
    BY <1>0, <1>3, <2>1
  <2>3. r = "ok" => Exited'
    BY <1>3 DEF Exited, Fail
  <2>4. failures' = 0 => Exited'
    BY <1>0, <1>3 DEF Fail, Exited
  <2>5. CallOf(c)'
    <3>1. CASE new.pc = "kill" /\ new.result = call[c].result
      BY <2>2, <3>1
    <3>2. CASE new.pc = "done" /\ new.result \in {r, "err"}
      BY <1>3, <2>2, <2>3, <2>4, <3>2
    <3> QED
      BY <2>1, <3>1, <3>2
  <2> QED
    BY <1>0, <1>3, <1>a, <2>1, <2>5, CallerStep DEF Fail
<1>4. CASE KillStart(c)
    BY <1>2, <1>3, <1>4 DEF KillStart
<1>5. CASE KillWait(c)
    BY <1>3, <1>5 DEF KillWait
<1> QED
    BY <1>1, <1>4, <1>5

-----------------------------------------------------------------------------
(* Requests *)

\* A step of the thread of a request: the request moves on, the lock is its
\* own or free, and it keeps its id or takes the next one.
LEMMA RequestStep ==
    ASSUME IndInv, NEW c \in Calls, NEW new \in Requests,
           req' = [req EXCEPT ![c] = new],
           req[c].pc \in {"lock", "write", "read"}, new.pc \in {"write", "read", "done"},
           requestLock \in {c, None}, requestLock' \in {c, None},
           nextId' \in Nat, nextId' >= nextId,
           \/ new.id = req[c].id
           \/ new.id = nextId /\ nextId' = nextId + 1,
           failures' \in 0..MaxFailures, failures' = 0 => failures = 0,
           UNCHANGED <<call, childLock, worker, owner, emitted, answered>>,
           stdin' \in Seq([id : Nat, method : Methods]), stdout' \in Seq(Lines),
           RequestOf(c)', AnswerInv', SequenceInv'
    PROVE  IndInv'
<1>0. TypeOK /\ CallOf(c) /\ RequestOf(c) /\ req[c] \in Requests /\ nextId \in Nat /\ None \notin Calls
    BY ProtocolAssumption DEF IndInv, TypeOK, Calls, None
<1>1. req'[c] = new /\ \A d \in Calls \ {c} : req'[d] = req[d]
    BY <1>0 DEF TypeOK
<1>2. TypeOK'
  <2>1. req' \in [Calls -> Requests]
    BY <1>0 DEF TypeOK
  <2> QED
    BY <1>0, <2>1 DEF TypeOK
<1>3. ASSUME NEW d \in Calls PROVE RequestOf(d)'
  <2>1. CASE d # c
    <3>1. RequestOf(d) /\ req'[d] = req[d] /\ requestLock # d /\ requestLock' # d /\ req[d] \in Requests
      BY <1>0, <1>1, <1>3, <2>1 DEF IndInv, TypeOK
    <3>2. req[d].id # NoId => req[d].id < nextId'
      BY <1>0, <3>1 DEF RequestOf, Requests
    <3> QED
      BY <3>1, <3>2 DEF RequestOf
  <2> QED
    BY <2>1
<1>4. ASSUME NEW d \in Calls PROVE CallOf(d)'
  <2>0. CallOf(d)
    BY <1>4 DEF IndInv
  <2>e. Expected(d)' = Expected(d) /\ Expected(d) # None /\ (Exited' <=> Exited)
    BY DEF Expected, Exited, None
  <2>1. CASE d # c
    BY <1>1, <2>0, <2>1, <2>e DEF CallOf
  <2>2. CASE d = c
    <3>1. req[c].result = None /\ req[c].pc # None
      BY <1>0 DEF RequestOf, None
    <3> QED
      BY <2>0, <2>2, <2>e, <3>1 DEF CallOf
  <2> QED
    BY <2>1, <2>2
<1>5. IdsDiffer'
  <2>1. \A d \in Calls : req[d].id # NoId => req[d].id < nextId /\ req[d].id \in Nat
    BY DEF IndInv, RequestOf, TypeOK, Requests
  <2>2. IdsDiffer
    BY DEF IndInv
  <2>3. CASE new.id = req[c].id
    <3>1. \A d \in Calls : req'[d].id = req[d].id
      BY <1>1, <2>3
    <3> QED
      BY <2>2, <3>1 DEF IdsDiffer
  <2>4. CASE new.id = nextId
    <3>0. NoId # nextId /\ \A n \in Nat : n < nextId => n # nextId
      BY <1>0 DEF NoId
    <3>1. \A d \in Calls \ {c} : req'[d].id = req[d].id /\ req'[d].id # nextId
      BY <1>1, <2>1, <3>0
    <3> QED
      BY <1>1, <2>2, <2>4, <3>1 DEF IdsDiffer
  <2> QED
    BY <2>3, <2>4
<1>6. HandlingInv'
    BY DEF IndInv, HandlingInv, Exited
<1> QED
    BY <1>2, <1>3, <1>4, <1>5, <1>6 DEF IndInv

\* A request that ends lets go of the lock.
LEMMA FinishStep ==
    ASSUME TypeOK, NEW c \in Calls, NEW r \in Results, Finish(c, r)
    PROVE  \E new \in Requests :
              /\ req' = [req EXCEPT ![c] = new] /\ requestLock' = None
              /\ new.pc = "done" /\ new.result = r /\ new.id = req[c].id
<1> DEFINE new == [req[c] EXCEPT !.pc = "done", !.result = r]
<1>0. req[c] \in Requests
    BY DEF TypeOK
<1>1. new \in Requests /\ new.pc = "done" /\ new.result = r /\ new.id = req[c].id
    BY <1>0 DEF Requests
<1>2. req' = [req EXCEPT ![c] = new] /\ requestLock' = None
    BY DEF Finish, TypeOK
<1> QED
    BY <1>1, <1>2

\* While a request holds the lock no other reads.
LEMMA LockFacts ==
    ASSUME IndInv, NEW c \in Calls
    PROVE  /\ req[c].pc \in {"write", "read"} => requestLock = c
           /\ requestLock \in {c, None} => \A d \in Calls \ {c} : req[d].pc \notin {"write", "read"}
           /\ None \notin Calls
           /\ req[c] \in Requests
BY ProtocolAssumption DEF IndInv, RequestOf, TypeOK, Calls, None

LEMMA LockInd ==
    ASSUME IndInv, NEW c \in Calls, LockRequest(c)
    PROVE  IndInv'
<1> USE DEF pipes
<1>0. /\ TypeOK /\ RequestOf(c) /\ SequenceInv /\ AnswerInv
      /\ failures \in 0..MaxFailures /\ MaxFailures \in Nat /\ nextId \in Nat
      /\ stdin \in Seq([id : Nat, method : Methods]) /\ stdout \in Seq(Lines)
    BY ProtocolAssumption DEF IndInv, TypeOK
<1>1. /\ req[c].pc = "lock" /\ requestLock = None /\ req[c].id = NoId /\ req[c].result = None
      /\ None \notin Calls /\ req[c] \in Requests
      /\ UNCHANGED <<call, childLock, nextId, stdin, stdout, worker, owner, emitted, answered>>
    BY <1>0, LockFacts DEF LockRequest, RequestOf
<1>2. /\ failures' \in 0..MaxFailures /\ (failures' = 0 => failures = 0)
    BY <1>0 DEF LockRequest, Fail
<1>3. PICK new \in Requests :
         /\ req' = [req EXCEPT ![c] = new] /\ new.id = NoId
         /\ \/ new.pc = "done" /\ new.result = "error" /\ requestLock' = None
            \/ new.pc = "write" /\ new.result = None /\ requestLock' = c
  <2>1. CASE Finish(c, "error")
    BY <1>0, <1>1, <2>1, FinishStep DEF Results
  <2>2. CASE req' = [req EXCEPT ![c].pc = "write"] /\ requestLock' = c
    <3> DEFINE new == [req[c] EXCEPT !.pc = "write"]
    <3>1. new \in Requests /\ new.pc = "write" /\ new.id = NoId /\ new.result = None
      BY <1>1 DEF Requests
    <3>2. req' = [req EXCEPT ![c] = new]
      BY <1>0, <2>2 DEF TypeOK
    <3> QED
      BY <2>2, <3>1, <3>2
  <2> QED
    BY <2>1, <2>2 DEF LockRequest
<1>4. req'[c] = new /\ \A d \in Calls \ {c} : req'[d] = req[d]
    BY <1>0, <1>3 DEF TypeOK
<1>5. RequestOf(c)'
    BY <1>1, <1>3, <1>4 DEF RequestOf, None, NoId
<1>6. AnswerInv'
    BY <1>0, <1>1 DEF AnswerInv
<1>7. SequenceInv'
  <2>1. \A d \in Calls : /\ req'[d].pc = "read" <=> req[d].pc = "read"
                         /\ req[d].pc = "read" => req'[d].id = req[d].id
    BY <1>1, <1>3, <1>4
  <2>2. \A id : OwnInv(id)' <=> OwnInv(id)
    BY <1>1 DEF OwnInv
  <2>3. QuietInv' <=> QuietInv
    BY <1>1, <2>1 DEF QuietInv, Exited
  <2> QED
    BY <1>0, <1>1, <2>1, <2>2, <2>3 DEF SequenceInv
<1>8. nextId' \in Nat /\ nextId' >= nextId /\ new.id = req[c].id
    BY <1>0, <1>1, <1>3
<1>9. /\ requestLock \in {c, None} /\ requestLock' \in {c, None}
      /\ new.pc \in {"write", "read", "done"} /\ req[c].pc \in {"lock", "write", "read"}
      /\ stdin' \in Seq([id : Nat, method : Methods]) /\ stdout' \in Seq(Lines)
    BY <1>0, <1>1, <1>3
<1> QED
    BY <1>1, <1>2, <1>3, <1>5, <1>6, <1>7, <1>8, <1>9, RequestStep

\* The request is written when nothing else is on the pipes.
LEMMA WriteInd ==
    ASSUME IndInv, NEW c \in Calls, WriteRequest(c)
    PROVE  IndInv'
<1> USE DEF bounds
<1> DEFINE line == [id |-> nextId, method |-> Method(c)]
<1>0. /\ TypeOK /\ RequestOf(c) /\ SequenceInv /\ AnswerInv
      /\ failures \in 0..MaxFailures /\ nextId \in Nat
      /\ stdin \in Seq([id : Nat, method : Methods]) /\ stdout \in Seq(Lines)
    BY DEF IndInv, TypeOK
<1>1. /\ req[c].pc = "write" /\ requestLock = c /\ req[c].id = NoId /\ req[c].result = None
      /\ None \notin Calls /\ req[c] \in Requests /\ nextId' = nextId + 1
      /\ UNCHANGED <<call, childLock, stdout, worker, owner, emitted, failures, answered>>
    BY <1>0, LockFacts DEF WriteRequest, RequestOf
<1>2. \A d \in Calls : req[d].pc # "read"
    BY <1>1, LockFacts
<1>3. AnswerInv'
    BY <1>0, <1>1 DEF AnswerInv
<1>4. CASE Exited
  <2>1. PICK new \in Requests :
         /\ req' = [req EXCEPT ![c] = new] /\ requestLock' = None
         /\ new.pc = "done" /\ new.result = "error" /\ new.id = NoId
    BY <1>0, <1>1, <1>4, FinishStep DEF WriteRequest, Results
  <2>2. stdin' = stdin /\ req'[c] = new /\ \A d \in Calls \ {c} : req'[d] = req[d]
    BY <1>0, <1>4, <2>1 DEF WriteRequest, TypeOK
  <2>3. RequestOf(c)'
    BY <1>1, <2>1, <2>2 DEF RequestOf, None, NoId
  <2>4. SequenceInv'
    BY <1>0, <1>1, <1>2, <2>1, <2>2 DEF SequenceInv, QuietInv, Exited
  <2>5. nextId' \in Nat /\ nextId' >= nextId /\ new.id = req[c].id
    BY <1>0, <1>1, <2>1
  <2>6. failures' \in 0..MaxFailures /\ (failures' = 0 => failures = 0)
    BY <1>0, <1>1
  <2>7. /\ requestLock \in {c, None} /\ requestLock' \in {c, None}
        /\ new.pc \in {"write", "read", "done"} /\ req[c].pc \in {"lock", "write", "read"}
        /\ stdin' \in Seq([id : Nat, method : Methods]) /\ stdout' \in Seq(Lines)
    BY <1>0, <1>1, <2>1, <2>2
  <2> QED
    BY <1>1, <1>3, <2>1, <2>3, <2>4, <2>5, <2>6, <2>7, RequestStep
<1>5. CASE ~Exited
  <2> DEFINE new == [req[c] EXCEPT !.pc = "read", !.id = nextId]
  <2>1. new \in Requests /\ new.pc = "read" /\ new.id = nextId /\ new.result = None
    BY <1>0, <1>1 DEF Requests
  <2>2. req' = [req EXCEPT ![c] = new] /\ requestLock' = c /\ stdin' = Append(stdin, line)
    BY <1>0, <1>1, <1>5 DEF WriteRequest, TypeOK
  <2>3. req'[c] = new /\ \A d \in Calls \ {c} : req'[d] = req[d]
    BY <1>0, <2>2 DEF TypeOK
  <2>4. RequestOf(c)'
    BY <1>0, <1>1, <2>1, <2>2, <2>3 DEF RequestOf, None, NoId
  <2>5. line \in [id : Nat, method : Methods] /\ stdin' \in Seq([id : Nat, method : Methods])
    <3>1. line \in [id : Nat, method : Methods]
      BY <1>0 DEF Method, Methods
    <3> QED
      BY <1>0, <2>2, <3>1, AppendProperties
  <2>6. SequenceInv'
    <3>0. PICK id \in Nat : id = nextId
      BY <1>0
    <3> SUFFICES ASSUME emitted.garbage = 0
                 PROVE  OwnInv(id)'
      <4>1. \A d \in Calls : req'[d].pc = "read" => d = c
        BY <1>2, <2>3
      <4>2. req'[c].pc = "read" /\ req'[c].id = id
        BY <2>1, <2>3, <3>0
      <4>3. QuietInv'
        BY <4>2 DEF QuietInv
      <4> HIDE DEF new
      <4> QED
        BY <1>1, <4>1, <4>2, <4>3 DEF SequenceInv, OwnInv
    <3>1. stdout = <<>> /\ worker.handling = NoId /\ stdin = <<>>
      BY <1>0, <1>2, <1>5 DEF SequenceInv, QuietInv
    <3>2. stdin' = <<line>> /\ Len(stdin') = 1 /\ stdin'[1].id = id
      BY <2>2, <3>0, <3>1
    <3>3. Len(stdout') = 0 /\ stdout' = <<>> /\ worker' = worker
      BY <1>1, <3>1
    <3> QED
      BY <3>1, <3>2, <3>3 DEF OwnInv
  <2>7. nextId' \in Nat /\ nextId' >= nextId /\ nextId' = nextId + 1
    BY <1>0, <1>1
  <2>8. failures' \in 0..MaxFailures /\ (failures' = 0 => failures = 0)
    BY <1>0, <1>1
  <2>9. /\ requestLock \in {c, None} /\ requestLock' \in {c, None}
        /\ new.pc \in {"write", "read", "done"} /\ req[c].pc \in {"lock", "write", "read"}
        /\ stdout' \in Seq(Lines)
    BY <1>0, <1>1, <2>1, <2>2
  <2> HIDE DEF new, line
  <2> QED
    BY <1>1, <1>3, <2>1, <2>2, <2>4, <2>5, <2>6, <2>7, <2>8, <2>9, RequestStep
<1> QED
    BY <1>4, <1>5

\* What is behind the first line of stdout.
LEMMA TailFacts ==
    ASSUME IndInv, stdout # <<>>
    PROVE  /\ Head(stdout) \in Lines /\ Head(stdout) = stdout[1] /\ 1 \in 1 .. Len(stdout)
           /\ Tail(stdout) \in Seq(Lines)
           /\ Len(stdout) \in Nat /\ Len(Tail(stdout)) = Len(stdout) - 1
           /\ \A i \in 1 .. Len(Tail(stdout)) :
                 i + 1 \in 1 .. Len(stdout) /\ Tail(stdout)[i] = stdout[i + 1]
<1>0. stdout \in Seq(Lines)
    BY DEF IndInv, TypeOK
<1>1. /\ Head(stdout) \in Lines /\ Tail(stdout) \in Seq(Lines)
      /\ Len(Tail(stdout)) = Len(stdout) - 1
      /\ \A i \in 1 .. Len(Tail(stdout)) : Tail(stdout)[i] = stdout[i + 1]
    BY <1>0, HeadTailProperties
<1>2. Len(stdout) \in Nat \ {0}
    BY <1>0, EmptySeq
<1>3. Head(stdout) = stdout[1]
    BY <1>0
<1> QED
    BY <1>1, <1>2, <1>3

\* A line is read by the request that holds the lock; its response is the
\* last line there is.
LEMMA ReadInd ==
    ASSUME IndInv, NEW c \in Calls, ReadLine(c)
    PROVE  IndInv'
<1> USE DEF bounds
<1> DEFINE frame == Head(stdout)
<1>0. /\ TypeOK /\ RequestOf(c) /\ SequenceInv /\ AnswerInv
      /\ failures \in 0..MaxFailures /\ nextId \in Nat
      /\ stdin \in Seq([id : Nat, method : Methods]) /\ stdout \in Seq(Lines)
    BY DEF IndInv, TypeOK
<1>1. /\ req[c].pc = "read" /\ requestLock = c /\ req[c].id \in Nat /\ req[c].result = None
      /\ req[c].id < nextId
      /\ None \notin Calls /\ req[c] \in Requests /\ stdout # <<>> /\ stdout' = Tail(stdout)
      /\ UNCHANGED <<call, childLock, nextId, stdin, worker, owner, emitted, failures, answered>>
    BY <1>0, LockFacts DEF ReadLine, RequestOf, NoId
<1>2. /\ frame \in Lines /\ frame = stdout[1] /\ 1 \in 1 .. Len(stdout)
      /\ Tail(stdout) \in Seq(Lines)
      /\ Len(stdout) \in Nat /\ Len(Tail(stdout)) = Len(stdout) - 1
      /\ \A i \in 1 .. Len(Tail(stdout)) :
            i + 1 \in 1 .. Len(stdout) /\ Tail(stdout)[i] = stdout[i + 1]
    BY <1>1, TailFacts
<1>3. AnswerInv'
    BY <1>0, <1>1, <1>2 DEF AnswerInv
<1>4. \A d \in Calls \ {c} : req[d].pc # "read"
    BY <1>1, LockFacts
<1>5. ASSUME NEW new \in Requests, req' = [req EXCEPT ![c] = new],
             new.id = req[c].id, new.pc \in {"read", "done"}, requestLock' \in {c, None},
             RequestOf(c)', SequenceInv'
      PROVE  IndInv'
  <2>1. nextId' \in Nat /\ nextId' >= nextId
    BY <1>0, <1>1
  <2>2. failures' \in 0..MaxFailures /\ (failures' = 0 => failures = 0)
    BY <1>0, <1>1
  <2>3. /\ requestLock \in {c, None}
        /\ new.pc \in {"write", "read", "done"} /\ req[c].pc \in {"lock", "write", "read"}
        /\ stdin' \in Seq([id : Nat, method : Methods]) /\ stdout' \in Seq(Lines)
    BY <1>0, <1>1, <1>2, <1>5
  <2> QED
    BY <1>1, <1>3, <1>5, <2>1, <2>2, <2>3, RequestStep
<1>6. CASE frame.kind = "event"
  <2>1. req' = req /\ requestLock' = requestLock
    BY <1>6 DEF ReadLine
  <2>2. req' = [req EXCEPT ![c] = req[c]]
    BY <1>0, <2>1 DEF TypeOK
  <2>3. RequestOf(c)'
    BY <1>0, <1>1, <2>1 DEF RequestOf
  <2>4. SequenceInv'
    <3> SUFFICES ASSUME emitted.garbage = 0 PROVE OwnInv(req[c].id)'
      <4>1. \A d \in Calls : req'[d].pc = "read" => d = c
        BY <1>4, <2>1
      <4>2. QuietInv'
        BY <1>1, <2>1 DEF QuietInv
      <4> QED
        BY <1>1, <4>1, <4>2 DEF SequenceInv
    <3>1. OwnInv(req[c].id)
      BY <1>0, <1>1 DEF SequenceInv
    <3>2. stdin = <<>>
      BY <1>1, <3>1 DEF OwnInv
    <3>3. \A i \in 1 .. Len(stdout') :
             /\ stdout'[i].id = req[c].id /\ stdout'[i].kind # "garbage"
             /\ stdout'[i].kind = "response" => i = Len(stdout') /\ worker.handling = NoId
      <4> TAKE i \in 1 .. Len(stdout')
      <4>1. i + 1 \in 1 .. Len(stdout) /\ stdout'[i] = stdout[i + 1]
        BY <1>1, <1>2
      <4>2. /\ stdout[i + 1].id = req[c].id /\ stdout[i + 1].kind # "garbage"
            /\ stdout[i + 1].kind = "response" => i + 1 = Len(stdout) /\ worker.handling = NoId
        BY <3>1, <4>1 DEF OwnInv
      <4>3. Len(stdout') = Len(stdout) - 1 /\ Len(stdout) \in Nat /\ i \in Int
        BY <1>1, <1>2
      <4> QED
        BY <4>1, <4>2, <4>3
    <3> QED
      BY <1>1, <2>1, <3>1, <3>2, <3>3 DEF OwnInv
  <2> QED
    BY <1>1, <1>5, <2>1, <2>2, <2>3, <2>4
<1>7. ASSUME NEW r \in Results, Finish(c, r), frame.kind # "event",
             r # "error" => frame.kind = "response" /\ frame.id = req[c].id /\ frame.result = r
      PROVE  IndInv'
  <2>1. PICK new \in Requests :
              /\ req' = [req EXCEPT ![c] = new] /\ requestLock' = None
              /\ new.pc = "done" /\ new.result = r /\ new.id = req[c].id
    BY <1>0, <1>7, FinishStep
  <2>2. req'[c] = new /\ \A d \in Calls \ {c} : req'[d] = req[d]
    BY <1>0, <2>1 DEF TypeOK
  <2>3. r # "error" => req[c].id \in answered
    BY <1>0, <1>2, <1>7 DEF AnswerInv
  <2>4. RequestOf(c)'
    BY <1>1, <2>1, <2>2, <2>3 DEF RequestOf, None, NoId
  <2>5. SequenceInv'
    <3> SUFFICES ASSUME emitted.garbage = 0
                 PROVE  stdout' = <<>> /\ worker.handling = NoId /\ stdin = <<>>
      <4>1. \A d \in Calls : req'[d].pc # "read"
        BY <1>4, <2>1, <2>2
      <4> QED
        BY <1>1, <4>1 DEF SequenceInv, QuietInv
    <3>1. OwnInv(req[c].id)
      BY <1>0, <1>1 DEF SequenceInv
    <3>2. frame.kind = "response"
      BY <1>2, <1>7, <3>1 DEF OwnInv, Lines
    <3>3. Len(stdout) = 1 /\ stdin = <<>> /\ worker.handling = NoId
      BY <1>2, <3>1, <3>2 DEF OwnInv
    <3>4. Len(Tail(stdout)) = 0
      BY <1>2, <3>3
    <3> QED
      BY <1>1, <1>2, <3>3, <3>4, EmptySeq
  <2> QED
    BY <1>5, <2>1, <2>4, <2>5
<1>8. CASE frame.kind = "garbage"
    BY <1>7, <1>8 DEF ReadLine, Results
<1>9. CASE frame.kind = "response"
  <2>1. frame.result # None /\ frame.result \in Results
    BY <1>0, <1>2, <1>9 DEF AnswerInv, Lines
  <2>2. CASE frame.id = req[c].id
    <3>1. Finish(c, frame.result)
      BY <1>9, <2>2 DEF ReadLine
    <3>2. frame.kind # "event"
      BY <1>9
    <3> QED
      BY <1>7, <1>9, <2>1, <2>2, <3>1, <3>2
  <2>3. CASE frame.id # req[c].id
    BY <1>7, <1>9, <2>3 DEF ReadLine, Results
  <2> QED
    BY <2>2, <2>3
<1> QED
    BY <1>2, <1>6, <1>8, <1>9 DEF Lines

\* The end of stdout, once the process has gone.
LEMMA EofInd ==
    ASSUME IndInv, NEW c \in Calls, ReadEof(c)
    PROVE  IndInv'
<1> USE DEF bounds, pipes
<1>0. /\ TypeOK /\ RequestOf(c) /\ SequenceInv /\ AnswerInv
      /\ failures \in 0..MaxFailures /\ nextId \in Nat
      /\ stdin \in Seq([id : Nat, method : Methods]) /\ stdout \in Seq(Lines)
    BY DEF IndInv, TypeOK
<1>1. /\ req[c].pc = "read" /\ requestLock = c /\ req[c].id \in Nat /\ req[c].id < nextId
      /\ None \notin Calls /\ req[c] \in Requests /\ stdout = <<>> /\ Exited
      /\ UNCHANGED <<call, childLock, nextId, stdin, stdout, worker, owner, emitted, failures, answered>>
    BY <1>0, LockFacts DEF ReadEof, RequestOf, NoId
<1>2. PICK new \in Requests :
            /\ req' = [req EXCEPT ![c] = new] /\ requestLock' = None
            /\ new.pc = "done" /\ new.result = "error" /\ new.id = req[c].id
    BY <1>0, FinishStep DEF ReadEof, Results
<1>3. req'[c] = new /\ \A d \in Calls \ {c} : req'[d] = req[d]
    BY <1>0, <1>2 DEF TypeOK
<1>4. RequestOf(c)'
    BY <1>1, <1>2, <1>3 DEF RequestOf, None, NoId
<1>5. AnswerInv'
    BY <1>0, <1>1 DEF AnswerInv
<1>6. SequenceInv'
  <2>1. \A d \in Calls : req'[d].pc # "read"
    BY <1>1, <1>2, <1>3, LockFacts
  <2>2. worker.handling = NoId
    BY <1>1 DEF IndInv, HandlingInv
  <2> QED
    BY <1>1, <2>1, <2>2 DEF SequenceInv, QuietInv, Exited
<1>7. nextId' \in Nat /\ nextId' >= nextId
    BY <1>0, <1>1
<1>8. failures' \in 0..MaxFailures /\ (failures' = 0 => failures = 0)
    BY <1>0, <1>1
<1>9. /\ requestLock \in {c, None} /\ requestLock' \in {c, None}
      /\ new.pc \in {"write", "read", "done"} /\ req[c].pc \in {"lock", "write", "read"}
      /\ stdin' \in Seq([id : Nat, method : Methods]) /\ stdout' \in Seq(Lines)
    BY <1>0, <1>1, <1>2
<1> QED
    BY <1>1, <1>2, <1>4, <1>5, <1>6, <1>7, <1>8, <1>9, RequestStep

-----------------------------------------------------------------------------
(* The worker, and the last reference *)

\* A step of the process or of its last owner: calls and requests stay as they
\* are, a process that has gone stays so, and nothing answered is forgotten.
LEMMA WorkerStep ==
    ASSUME IndInv, UNCHANGED <<call, req, requestLock, childLock, nextId>>,
           Exited => Exited', answered \subseteq answered', answered' \subseteq Nat,
           owner' \in {"held", "released", "dropped"},
           emitted' \in [event : 0..MaxEvents, garbage : 0..MaxGarbage],
           failures' \in 0..MaxFailures, failures' = 0 => failures = 0,
           worker' \in WorkerStates,
           stdin' \in Seq([id : Nat, method : Methods]), stdout' \in Seq(Lines),
           AnswerInv', HandlingInv', SequenceInv'
    PROVE  IndInv'
<1>0. TypeOK
    BY DEF IndInv
<1>1. TypeOK'
    BY <1>0 DEF TypeOK
<1>2. ASSUME NEW c \in Calls PROVE RequestOf(c)' /\ CallOf(c)'
  <2>1. RequestOf(c) /\ CallOf(c)
    BY <1>2 DEF IndInv
  <2>2. RequestOf(c)'
    BY <2>1 DEF RequestOf
  <2>3. Expected(c)' = Expected(c)
    BY DEF Expected
  <2>4. CallOf(c)'
    BY <2>1, <2>3 DEF CallOf
  <2> QED
    BY <2>2, <2>4
<1>3. IdsDiffer'
    BY DEF IndInv, IdsDiffer
<1> QED
    BY <1>1, <1>2, <1>3 DEF IndInv

\* The frames of the worker: each is the last line of stdout.
LEMMA AppendFacts ==
    ASSUME IndInv, NEW line \in Lines, stdout' = Append(stdout, line)
    PROVE  /\ stdout' \in Seq(Lines) /\ stdout' # <<>>
           /\ Len(stdout) \in Nat /\ Len(stdout') = Len(stdout) + 1
           /\ \A i \in 1 .. Len(stdout') :
                 \/ i \in 1 .. Len(stdout) /\ stdout'[i] = stdout[i]
                 \/ i = Len(stdout') /\ stdout'[i] = line
<1>0. stdout \in Seq(Lines)
    BY DEF IndInv, TypeOK
<1>1. /\ stdout' \in Seq(Lines) /\ stdout' # <<>> /\ Len(stdout') = Len(stdout) + 1
      /\ \A i \in 1 .. Len(stdout) : stdout'[i] = stdout[i]
      /\ stdout'[Len(stdout) + 1] = line
    BY <1>0, AppendProperties
<1>2. Len(stdout) \in Nat
    BY <1>0, LenProperties
<1> QED
    BY <1>1, <1>2

\* A line that the worker writes while it handles a request is that request's.
LEMMA LineInd ==
    ASSUME IndInv, NEW line \in Lines, stdout' = Append(stdout, line),
           worker.handling # NoId, line.id = worker.handling,
           UNCHANGED <<call, req, requestLock, childLock, nextId, stdin, owner, failures>>,
           worker' \in WorkerStates, HandlingInv', Exited => Exited',
           answered \subseteq answered', answered' \subseteq Nat,
           emitted' \in [event : 0..MaxEvents, garbage : 0..MaxGarbage],
           emitted'.garbage = 0 => emitted.garbage = 0 /\ line.kind # "garbage",
           line.kind = "response" => /\ worker'.handling = NoId
                                     /\ line.result # None
                                     /\ line.result # "error" => line.id \in answered',
           line.kind # "response" => worker'.handling = worker.handling
    PROVE  IndInv'
<1>0. /\ TypeOK /\ AnswerInv /\ SequenceInv /\ failures \in 0..MaxFailures
      /\ stdin \in Seq([id : Nat, method : Methods]) /\ owner \in {"held", "released", "dropped"}
    BY DEF IndInv, TypeOK
<1>1. /\ stdout' \in Seq(Lines) /\ stdout' # <<>>
      /\ Len(stdout) \in Nat /\ Len(stdout') = Len(stdout) + 1
      /\ \A i \in 1 .. Len(stdout') :
            \/ i \in 1 .. Len(stdout) /\ stdout'[i] = stdout[i]
            \/ i = Len(stdout') /\ stdout'[i] = line
    BY AppendFacts
<1>2. AnswerInv'
    BY <1>0, <1>1 DEF AnswerInv
<1>3. SequenceInv'
  <2> SUFFICES ASSUME emitted'.garbage = 0 PROVE QuietInv' /\ \A c \in Calls : req'[c].pc = "read" => OwnInv(req[c].id)'
    BY DEF SequenceInv
  <2>0. emitted.garbage = 0 /\ line.kind # "garbage"
    OBVIOUS
  <2>1. QuietInv /\ \A c \in Calls : req[c].pc = "read" => OwnInv(req[c].id)
    BY <1>0, <2>0 DEF SequenceInv
  <2>2. \E c \in Calls : req[c].pc = "read"
    BY <2>1 DEF QuietInv
  <2>3. QuietInv'
    BY <2>2 DEF QuietInv
  <2>4. ASSUME NEW c \in Calls, req'[c].pc = "read" PROVE OwnInv(req[c].id)'
    <3>1. OwnInv(req[c].id) /\ req' = req /\ stdin' = stdin
      BY <2>1, <2>4
    <3>2. stdin = <<>> /\ worker.handling = req[c].id
      BY <3>1 DEF OwnInv
    <3>3. \A i \in 1 .. Len(stdout) : stdout[i].id = req[c].id /\ stdout[i].kind = "event"
      <4>1. \A i \in 1 .. Len(stdout) : stdout[i].kind \in {"event", "response", "garbage"}
        <5>1. \A i \in 1 .. Len(stdout) : stdout[i] \in Lines
          BY <1>0, ElementOfSeq DEF TypeOK
        <5> QED
          BY <5>1 DEF Lines
      <4> QED
        BY <3>1, <4>1 DEF OwnInv
    <3>4. worker'.handling \in {NoId, req[c].id}
      BY <3>2 DEF Lines
    <3>5. \A i \in 1 .. Len(stdout') :
             /\ stdout'[i].id = req[c].id /\ stdout'[i].kind # "garbage"
             /\ stdout'[i].kind = "response" => i = Len(stdout') /\ worker'.handling = NoId
      <4> TAKE i \in 1 .. Len(stdout')
      <4>1. CASE i \in 1 .. Len(stdout) /\ stdout'[i] = stdout[i]
        BY <3>3, <4>1
      <4>2. CASE i = Len(stdout') /\ stdout'[i] = line
        BY <2>0, <3>2, <4>2
      <4> QED
        BY <1>1, <4>1, <4>2
    <3> QED
      BY <3>1, <3>2, <3>4, <3>5 DEF OwnInv
  <2> QED
    BY <2>3, <2>4
<1> QED
    BY <1>0, <1>1, <1>2, <1>3, WorkerStep

\* handle answers every request.
LEMMA HandleResults == \A r \in handle : r[1] \in Results
<1>0. \A x \in Results, b \in BOOLEAN : \A r : r = <<x, b>> => r[1] \in Results
    OBVIOUS
<1>1. CASE worker.method = "create_session"
  <2>1. handle = IF worker.session THEN {<<"error", TRUE>>}
                 ELSE {<<"created", FALSE>>, <<"error", TRUE>>}
    BY <1>1 DEF handle
  <2>2. handle \subseteq {<<"created", FALSE>>, <<"error", TRUE>>}
    BY <2>1, Zenon
  <2> QED
    BY <1>0, <2>2, Zenon DEF Results
<1>2. CASE worker.method = "execute"
  <2>1. handle = IF worker.session THEN {<<"executed", FALSE>>, <<"error", FALSE>>}
                 ELSE {<<"error", TRUE>>}
    BY <1>2 DEF handle
  <2>2. handle \subseteq {<<"executed", FALSE>>, <<"error", FALSE>>, <<"error", TRUE>>}
    BY <2>1, Zenon
  <2> QED
    BY <1>0, <2>2, Zenon DEF Results
<1>3. CASE worker.method \notin {"create_session", "execute"}
  <2>1. handle = {<<"closed", TRUE>>} \cup (IF worker.session THEN {<<"error", TRUE>>} ELSE {})
    BY <1>3 DEF handle
  <2>2. handle \subseteq {<<"closed", TRUE>>, <<"error", TRUE>>}
    BY <2>1, Zenon
  <2> QED
    BY <1>0, <2>2, Zenon DEF Results
<1> QED
    BY <1>1, <1>2, <1>3

LEMMA WorkerInd ==
    ASSUME IndInv, WorkerTake \/ WorkerEvent \/ WorkerGarbage \/ WorkerRespond
    PROVE  IndInv'
<1> USE DEF bounds, Serving
<1>0. /\ TypeOK /\ AnswerInv /\ SequenceInv /\ HandlingInv /\ worker \in WorkerStates
      /\ emitted \in [event : 0..MaxEvents, garbage : 0..MaxGarbage]
      /\ failures \in 0..MaxFailures /\ answered \subseteq Nat
      /\ stdin \in Seq([id : Nat, method : Methods]) /\ stdout \in Seq(Lines)
      /\ owner \in {"held", "released", "dropped"}
      /\ MaxEvents \in Nat /\ MaxGarbage \in Nat
    BY ProtocolAssumption DEF IndInv, TypeOK
<1>1. worker.state = "running" /\ ~Exited
    BY DEF WorkerTake, WorkerEvent, WorkerGarbage, WorkerRespond, Exited
<1>2. CASE WorkerTake
  <2> DEFINE head == Head(stdin)
  <2>1. /\ stdin # <<>> /\ worker.handling = NoId /\ stdin' = Tail(stdin)
        /\ worker' = [worker EXCEPT !.handling = head.id, !.method = head.method]
        /\ UNCHANGED <<call, req, requestLock, childLock, nextId, stdout, owner, emitted, failures, answered>>
    BY <1>2 DEF WorkerTake
  <2>2. /\ head \in [id : Nat, method : Methods] /\ head = stdin[1]
        /\ stdin' \in Seq([id : Nat, method : Methods]) /\ Len(stdin') = Len(stdin) - 1
        /\ Len(stdin) \in Nat \ {0}
    <3>1. /\ head \in [id : Nat, method : Methods]
          /\ Tail(stdin) \in Seq([id : Nat, method : Methods]) /\ Len(Tail(stdin)) = Len(stdin) - 1
      BY <1>0, <2>1, HeadTailProperties
    <3>2. Len(stdin) \in Nat \ {0}
      BY <1>0, <2>1, EmptySeq
    <3>3. head = stdin[1]
      BY <1>0
    <3> QED
      BY <2>1, <3>1, <3>2, <3>3
  <2>3. head.id \in Nat /\ head.method \in Methods /\ head.id # NoId /\ head.method # None
    BY <2>2 DEF NoId, Methods, None
  <2>4. /\ worker' \in WorkerStates /\ worker'.handling = head.id /\ worker'.method = head.method
        /\ worker'.state = "running"
    BY <1>0, <1>1, <2>1, <2>3 DEF WorkerStates
  <2>5. HandlingInv' /\ (Exited => Exited')
    BY <1>1, <2>3, <2>4 DEF HandlingInv, Exited
  <2>6. AnswerInv'
    BY <1>0, <2>1 DEF AnswerInv
  <2>7. SequenceInv'
    <3> HIDE DEF head
    <3> SUFFICES ASSUME emitted'.garbage = 0
                 PROVE  QuietInv' /\ \A c \in Calls : req'[c].pc = "read" => OwnInv(req[c].id)'
      BY DEF SequenceInv
    <3>1. QuietInv /\ \A c \in Calls : req[c].pc = "read" => OwnInv(req[c].id)
      BY <1>0, <2>1 DEF SequenceInv
    <3>2. QuietInv'
      <4>1. \E c \in Calls : req[c].pc = "read"
        BY <1>1, <2>1, <3>1 DEF QuietInv
      <4> QED
        BY <2>1, <4>1 DEF QuietInv
    <3>3. ASSUME NEW c \in Calls, req'[c].pc = "read" PROVE OwnInv(req[c].id)'
      <4>1. OwnInv(req[c].id) /\ req' = req /\ stdout' = stdout
        BY <2>1, <3>1, <3>3
      <4>2. Len(stdin) = 1 /\ stdout = <<>> /\ stdin[1].id = req[c].id
        BY <2>1, <2>2, <4>1 DEF OwnInv
      <4>3. stdin' = <<>> /\ Len(stdin') = 0 /\ Len(stdout') = 0 /\ worker'.handling = req[c].id
        BY <2>2, <2>4, <4>1, <4>2, EmptySeq
      <4> QED
        BY <4>1, <4>2, <4>3 DEF OwnInv
    <3> QED
      BY <3>2, <3>3
  <2>8. failures' \in 0..MaxFailures /\ (failures' = 0 => failures = 0) /\ emitted' = emitted
    BY <1>0, <2>1
  <2> HIDE DEF head
  <2> QED
    BY <1>0, <2>1, <2>2, <2>4, <2>5, <2>6, <2>7, <2>8, WorkerStep
<1>3. CASE WorkerEvent
  <2> DEFINE line == Frame("event", worker.handling, None)
  <2>1. worker.handling # NoId
    BY <1>0, <1>3 DEF WorkerEvent, HandlingInv, None
  <2>2. line \in Lines /\ line.id = worker.handling /\ line.kind = "event"
    BY <1>0, <2>1 DEF Frame, Lines, WorkerStates
  <2>3. /\ emitted' \in [event : 0..MaxEvents, garbage : 0..MaxGarbage]
        /\ emitted'.garbage = emitted.garbage
    BY <1>0, <1>3 DEF WorkerEvent
  <2>4. HandlingInv' /\ (Exited => Exited') /\ worker' = worker
    BY <1>0, <1>3 DEF WorkerEvent, HandlingInv, Exited
  <2>5. /\ stdout' = Append(stdout, line)
        /\ UNCHANGED <<call, req, requestLock, childLock, nextId, stdin, owner, failures, answered>>
    BY <1>3 DEF WorkerEvent
  <2> HIDE DEF line
  <2> QED
    BY <1>0, <2>1, <2>2, <2>3, <2>4, <2>5, LineInd
<1>4. CASE WorkerGarbage
  <2> DEFINE line == Frame("garbage", worker.handling, None)
  <2>1. worker.handling # NoId
    BY <1>4 DEF WorkerGarbage
  <2>2. line \in Lines /\ line.id = worker.handling /\ line.kind = "garbage"
    BY <1>0, <2>1 DEF Frame, Lines, WorkerStates
  <2>3. /\ emitted' \in [event : 0..MaxEvents, garbage : 0..MaxGarbage]
        /\ emitted'.garbage # 0
    BY <1>0, <1>4 DEF WorkerGarbage
  <2>4. HandlingInv' /\ (Exited => Exited') /\ worker' = worker
    BY <1>0, <1>4 DEF WorkerGarbage, HandlingInv, Exited
  <2>5. /\ stdout' = Append(stdout, line)
        /\ UNCHANGED <<call, req, requestLock, childLock, nextId, stdin, owner, failures, answered>>
    BY <1>4 DEF WorkerGarbage
  <2> HIDE DEF line
  <2> QED
    BY <1>0, <2>1, <2>2, <2>3, <2>4, <2>5, LineInd
<1>5. CASE WorkerRespond
  <2>1. worker.handling # NoId /\ worker.handling \in Nat
    BY <1>0, <1>5 DEF WorkerRespond, WorkerStates
  <2>2. PICK r \in handle :
          /\ stdout' = Append(stdout, Frame("response", worker.handling, r[1]))
          /\ worker' = [state |-> IF r[2] THEN "stopping" ELSE "running",
                        session |-> \/ r[1] = "created"
                                    \/ worker.session /\ worker.method # "close_session",
                        handling |-> NoId, method |-> None]
          /\ answered' = IF r[1] = "error" THEN answered ELSE answered \cup {worker.handling}
    BY <1>5 DEF WorkerRespond
  <2>3. r[1] \in Results /\ r[1] # None
    <3>1. r[1] \in Results
      BY HandleResults
    <3> QED
      BY <3>1 DEF Results, None
  <2> DEFINE line == Frame("response", worker.handling, r[1])
  <2>4. /\ line \in Lines /\ line.id = worker.handling /\ line.kind = "response"
        /\ line.result = r[1]
    BY <2>1, <2>3 DEF Frame, Lines
  <2>5. /\ worker' \in WorkerStates /\ worker'.handling = NoId /\ worker'.method = None
        /\ worker'.state # "exited"
    BY <1>0, <2>2 DEF WorkerStates
  <2>6. HandlingInv' /\ (Exited => Exited')
    BY <1>1, <2>5 DEF HandlingInv, Exited
  <2>7. /\ answered \subseteq answered' /\ answered' \subseteq Nat
        /\ line.result # "error" => line.id \in answered'
    BY <1>0, <2>1, <2>2, <2>4
  <2>8. UNCHANGED <<call, req, requestLock, childLock, nextId, stdin, owner, failures, emitted>>
    BY <1>5 DEF WorkerRespond
  <2>9. stdout' = Append(stdout, line)
    BY <2>2
  <2> HIDE DEF line
  <2> QED
    BY <1>0, <2>1, <2>3, <2>4, <2>5, <2>6, <2>7, <2>8, <2>9, LineInd
<1> QED
    BY <1>2, <1>3, <1>4, <1>5

\* The end of the process, and of the references to it.
LEMMA EndInd ==
    ASSUME IndInv, Die \/ Release \/ Drop
    PROVE  IndInv'
<1> USE DEF bounds, pipes
<1>0. /\ TypeOK /\ AnswerInv /\ SequenceInv /\ HandlingInv /\ worker \in WorkerStates
      /\ emitted \in [event : 0..MaxEvents, garbage : 0..MaxGarbage]
      /\ failures \in 0..MaxFailures /\ answered \subseteq Nat
      /\ stdin \in Seq([id : Nat, method : Methods]) /\ stdout \in Seq(Lines)
      /\ owner \in {"held", "released", "dropped"} /\ MaxFailures \in Nat
    BY ProtocolAssumption DEF IndInv, TypeOK
<1>1. /\ UNCHANGED <<call, req, requestLock, childLock, nextId, stdin, stdout, emitted, answered>>
      /\ owner' \in {"held", "released", "dropped"}
      /\ failures' \in 0..MaxFailures /\ (failures' = 0 => failures = 0)
    BY <1>0 DEF Die, Release, Drop, Fail
<1>2. /\ worker' \in WorkerStates /\ HandlingInv'
      /\ Exited => Exited'
      /\ worker'.handling \in {worker.handling, NoId}
  <2>1. CASE worker' = worker
    BY <1>0, <2>1 DEF HandlingInv, Exited
  <2>2. CASE ~Exited /\ worker' = [worker EXCEPT !.state = "terminating"]
    <3>1. /\ worker' \in WorkerStates /\ worker'.handling = worker.handling
          /\ worker'.method = worker.method /\ worker'.state = "terminating"
      BY <1>0, <2>2 DEF WorkerStates
    <3> QED
      BY <1>0, <2>2, <3>1 DEF HandlingInv, Exited
  <2>3. CASE worker' = [worker EXCEPT !.state = "exited", !.handling = NoId, !.method = None]
    <3>1. /\ worker' \in WorkerStates /\ worker'.handling = NoId
          /\ worker'.method = None /\ worker'.state = "exited"
      BY <1>0, <2>3 DEF WorkerStates
    <3> QED
      BY <3>1 DEF HandlingInv, Exited
  <2> QED
    BY <2>1, <2>2, <2>3 DEF Die, Release, Drop
<1>3. AnswerInv'
    BY <1>0, <1>1 DEF AnswerInv
<1>4. SequenceInv'
  <2>1. QuietInv => QuietInv'
    BY <1>1, <1>2 DEF QuietInv
  <2>2. \A c \in Calls : OwnInv(req[c].id) => OwnInv(req[c].id)'
    BY <1>1, <1>2 DEF OwnInv
  <2> QED
    BY <1>0, <1>1, <2>1, <2>2 DEF SequenceInv
<1> QED
    BY <1>0, <1>1, <1>2, <1>3, <1>4, WorkerStep

-----------------------------------------------------------------------------
(* Theorems *)

LEMMA NextInd == IndInv /\ [Next]_vars => IndInv'
<1> SUFFICES ASSUME IndInv, [Next]_vars PROVE IndInv'
    OBVIOUS
<1>1. CASE UNCHANGED vars
    BY <1>1 DEF vars, IndInv, TypeOK, RequestOf, CallOf, Expected, IdsDiffer, AnswerInv, HandlingInv,
       SequenceInv, QuietInv, OwnInv, Exited
<1>2. ASSUME NEW c \in Calls, Caller(c) PROVE IndInv'
    BY <1>2, CallerInd, KillInd DEF Caller
<1>3. ASSUME NEW c \in Calls, Requester(c) PROVE IndInv'
    BY <1>3, LockInd, WriteInd, ReadInd, EofInd DEF Requester
<1>4. CASE Kill
    BY <1>4, KillInd DEF Calls
<1>5. CASE Release \/ Drop \/ Worker
    BY <1>5, WorkerInd, EndInd DEF Worker
<1> QED
    BY <1>1, <1>2, <1>3, <1>4, <1>5 DEF Next

\* The inductive invariant: each request and request_lock, each call and its
\* kill, and where the one request under way is on the pipes.
THEOREM Invariance == Spec => []IndInv
BY InitInd, NextInd, PTL DEF Spec

LEMMA IndPipes == IndInv => PipeInv
<1> SUFFICES ASSUME IndInv PROVE PipeInv
    OBVIOUS
<1>1. OwnResult
  <2> SUFFICES ASSUME NEW c \in Calls \ Closes, call[c].result = "ok", c # "kill"
               PROVE  req[c].id \in answered
    BY DEF OwnResult
  <2>1. RequestOf(c) /\ CallOf(c)
    BY DEF IndInv
  <2>2. req[c].result = Expected(c) /\ Expected(c) \notin {None, "error"}
    BY <2>1 DEF CallOf, Expected, None
  <2> QED
    BY <2>1, <2>2 DEF RequestOf
<1>2. OwnFrames
  <2>1. DOMAIN stdout = 1 .. Len(stdout)
    BY LenProperties DEF IndInv, TypeOK
  <2> QED
    BY <2>1 DEF IndInv, SequenceInv, OwnInv, OwnFrames
<1> QED
    BY <1>1, <1>2 DEF IndInv, PipeInv

\* A call succeeds only on the worker's answer to its own request, and while
\* every line is a frame a request reads only its own frames, for any number
\* of executes, closes, events and failures (worker.rs,
\* request_with_event_sink).
THEOREM RequestsKeptApart == Spec => []PipeInv
BY Invariance, IndPipes, PTL

LEMMA IndClose == IndInv => CloseLeavesNoProcess
BY DEF IndInv, CallOf, CloseLeavesNoProcess, Calls

\* A close that returned Ok, or returned while no operating system call had
\* failed, leaves no worker process, whichever of its paths it took and
\* whoever else closes, kills or executes (worker.rs, close and kill).
THEOREM CloseEndsProcess == Spec => []CloseLeavesNoProcess
BY Invariance, IndClose, PTL
=============================================================================
