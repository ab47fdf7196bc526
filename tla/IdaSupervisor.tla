--------------------------- MODULE IdaSupervisor ----------------------------
(***************************************************************************)
(* The client of the ida-pro-mcp supervisor process                        *)
(* (crates/dbgflow-reverse/src/ida/worker.rs, ProcessIdaSupervisor): the   *)
(* process is started lazily under the state mutex, requests share its     *)
(* stdin, one reader thread per process hands the responses out through    *)
(* the pending map, and a request that times out kills the process.        *)
(*                                                                         *)
(* Every start makes a new generation of process, stdin, pending map and   *)
(* reader.  active_child and active_pending are guarded by mutexes of      *)
(* their own, so kill interleaves with a start that holds the state mutex. *)
(***************************************************************************)
EXTENDS Naturals

CONSTANTS
    Clients,     \* threads that issue requests
    NoClient,
    MaxCalls,    \* bound: requests issued in all
    OsMayFail,   \* may polling or writing to a live process fail?
    Stubborn     \* the processes that may refuse to be killed

ASSUME ConstantsAssumption ==
    /\ NoClient \notin Clients
    /\ MaxCalls \in Nat
    /\ OsMayFail \in BOOLEAN
    /\ Stubborn \subseteq Nat

Gens == 1..MaxCalls   \* a request starts at most one process; 0 is None
Ids == 1..MaxCalls
Calls == 1..MaxCalls

VARIABLES
    guard,       \* holder of the state mutex
    sup,         \* state: the generation in it
    child,       \* active_child
    apending,    \* active_pending
    proc,        \* the process of a generation
    reader,      \* its reader thread
    nextId,      \* its next_request_id
    pending,     \* its pending map: request id -> waiting client
    stdin,       \* holder of the mutex of its stdin
    written,     \* requests in its stdin or being worked on: id and call
    calls,       \* calls issued so far
    pc, call,    \* of a client: where it is, the number of its call,
    gen, rid,    \*   the process and the request id it uses,
    rx, got,     \*   its response channel and the call that was answered,
    kchild       \*   kill: the child it took

handleVars == <<guard, sup, child, apending>>
genVars == <<proc, reader, nextId, pending, stdin, written>>
clientVars == <<calls, pc, call, gen, rid, rx, got, kchild>>
vars == <<handleVars, genVars, clientVars>>

StartPC == {"check", "clear_child", "clear_pending", "spawn", "set_child",
            "set_pending", "set_state"}
KillPC == {"kill_take", "kill_process", "kill_pending", "kill_state"}
PC == {"idle", "insert", "write", "writing", "wait"} \cup StartPC \cup KillPC

HandleTypeOK ==
    /\ guard \in Clients \cup {NoClient}
    /\ sup \in Gens \cup {0}
    /\ child \in Gens \cup {0}
    /\ apending \in Gens \cup {0}
GenTypeOK ==
    /\ proc \in [Gens -> {"none", "alive", "exited"}]
    /\ reader \in [Gens -> {"off", "reading", "done"}]
    /\ nextId \in [Gens -> Nat]
    /\ pending \in [Gens -> [Ids -> Clients \cup {NoClient}]]
    /\ written \in [Gens -> SUBSET (Ids \X Calls)]
ClientTypeOK ==
    /\ calls \in 0..MaxCalls
    /\ pc \in [Clients -> PC]
    /\ call \in [Clients -> Calls \cup {0}]
    /\ gen \in [Clients -> Gens \cup {0}]
    /\ rid \in [Clients -> Ids \cup {0}]
    /\ rx \in [Clients -> {"empty", "reply", "failed"}]
    /\ got \in [Clients -> Calls \cup {0}]
    /\ kchild \in [Clients -> Gens \cup {0}]

StdinTypeOK == stdin \in [Gens -> Clients \cup {NoClient}]

\* The shape of the handles, of the generations and of the callers.
TypeOK == HandleTypeOK /\ GenTypeOK /\ ClientTypeOK /\ StdinTypeOK

Init ==
    /\ guard = NoClient
    /\ sup = 0 /\ child = 0 /\ apending = 0
    /\ proc = [g \in Gens |-> "none"]
    /\ reader = [g \in Gens |-> "off"]
    /\ nextId = [g \in Gens |-> 1]
    /\ pending = [g \in Gens |-> [i \in Ids |-> NoClient]]
    /\ stdin = [g \in Gens |-> NoClient]
    /\ written = [g \in Gens |-> {}]
    /\ calls = 0
    /\ pc = [c \in Clients |-> "idle"]
    /\ call = [c \in Clients |-> 0]
    /\ gen = [c \in Clients |-> 0]
    /\ rid = [c \in Clients |-> 0]
    /\ rx = [c \in Clients |-> "empty"]
    /\ got = [c \in Clients |-> 0]
    /\ kchild = [c \in Clients |-> 0]

-----------------------------------------------------------------------------
(* Pieces *)

Goto(c, label) ==
    /\ pc' = [pc EXCEPT ![c] = label]
    /\ UNCHANGED <<calls, call, gen, rid, rx, got, kchild>>

\* request_blocking returns and drops its clones of stdin and pending.
Return(c) ==
    /\ pc' = [pc EXCEPT ![c] = "idle"]
    /\ call' = [call EXCEPT ![c] = 0]
    /\ gen' = [gen EXCEPT ![c] = 0]
    /\ rid' = [rid EXCEPT ![c] = 0]
    /\ rx' = [rx EXCEPT ![c] = "empty"]
    /\ got' = [got EXCEPT ![c] = 0]
    /\ kchild' = [kchild EXCEPT ![c] = 0]
    /\ UNCHANGED calls

\* The request takes the next id of the process and leaves the state mutex.
\* (Mutants: the id 1 that request() puts in is not replaced; two ids are
\* taken.)
take_constant_id(c, g) ==
    /\ UNCHANGED nextId
    /\ gen' = [gen EXCEPT ![c] = g]
    /\ rid' = [rid EXCEPT ![c] = 1]
    /\ pc' = [pc EXCEPT ![c] = "insert"]
    /\ UNCHANGED <<calls, call, rx, got, kchild>>
take_request_id(c, g) ==
    /\ nextId' = [nextId EXCEPT ![g] = @ + 1]
    /\ gen' = [gen EXCEPT ![c] = g]
    /\ rid' = [rid EXCEPT ![c] = nextId[g]]
    /\ pc' = [pc EXCEPT ![c] = "insert"]
    /\ UNCHANGED <<calls, call, rx, got, kchild>>

\* fail_pending: the map is drained, every waiting client gets an error.
\* (Mutant: the map is cleared and nobody is told.)
clear_pending(g) ==
    /\ pending' = [pending EXCEPT ![g] = [i \in Ids |-> NoClient]]
    /\ UNCHANGED rx
fail_pending(g) ==
    /\ pending' = [pending EXCEPT ![g] = [i \in Ids |-> NoClient]]
    /\ rx' = [c \in Clients |->
                 IF \E i \in Ids : pending[g][i] = c THEN "failed" ELSE rx[c]]

-----------------------------------------------------------------------------
(* request_blocking and ensure_started_locked *)

\* A request takes the state mutex.
Request(c) ==
    /\ pc[c] = "idle"
    /\ calls < MaxCalls
    /\ guard = NoClient
    /\ guard' = c
    /\ calls' = calls + 1
    /\ call' = [call EXCEPT ![c] = calls + 1]
    /\ pc' = [pc EXCEPT ![c] = "check"]
    /\ UNCHANGED <<sup, child, apending, genVars, gen, rid, rx, got, kchild>>

\* try_wait on the process in state: it is alive and is used, it has exited
\* and is forgotten, there is none, or the poll fails.
CheckAlive(c) ==
    /\ pc[c] = "check"
    /\ \/ /\ sup # 0 /\ proc[sup] = "alive"
          /\ guard' = NoClient
          /\ take_request_id(c, sup)
          /\ UNCHANGED sup
       \/ /\ sup # 0 /\ proc[sup] # "alive"
          /\ sup' = 0
          /\ Goto(c, "clear_child")
          /\ UNCHANGED <<guard, nextId>>
       \/ /\ sup = 0
          /\ Goto(c, "spawn")
          /\ UNCHANGED <<guard, sup, nextId>>
       \/ /\ sup # 0 /\ OsMayFail
          /\ guard' = NoClient
          /\ Return(c)
          /\ UNCHANGED <<sup, nextId>>
    /\ UNCHANGED <<child, apending, proc, reader, pending, stdin, written>>

\* clear_active_child, one mutex after the other.
ClearChild(c) ==
    /\ pc[c] = "clear_child"
    /\ child' = 0
    /\ Goto(c, "clear_pending")
    /\ UNCHANGED <<guard, sup, apending, genVars>>

ClearPending(c) ==
    /\ pc[c] = "clear_pending"
    /\ apending' = 0
    /\ Goto(c, "spawn")
    /\ UNCHANGED <<guard, sup, child, genVars>>

\* The process is started, or finding the runtime, writing the profile or
\* spawning fails.
Spawn(c) ==
    /\ pc[c] = "spawn"
    /\ \/ \E g \in Gens :
             /\ proc[g] = "none"
             /\ \A h \in 1..(g - 1) : proc[h] # "none"
             /\ proc' = [proc EXCEPT ![g] = "alive"]
             /\ gen' = [gen EXCEPT ![c] = g]
             /\ pc' = [pc EXCEPT ![c] = "set_child"]
          /\ UNCHANGED <<guard, calls, call, rid, rx, got, kchild>>
       \/ /\ guard' = NoClient
          /\ Return(c)
          /\ UNCHANGED proc
    /\ UNCHANGED <<sup, child, apending, reader, nextId, pending, stdin,
                   written>>

\* (Mutant: the new process is not made the one to kill.)
SetNoChild(c) ==
    /\ pc[c] = "set_child"
    /\ Goto(c, "set_pending")
    /\ UNCHANGED <<guard, sup, child, apending, genVars>>
SetChild(c) ==
    /\ pc[c] = "set_child"
    /\ child' = gen[c]
    /\ Goto(c, "set_pending")
    /\ UNCHANGED <<guard, sup, apending, genVars>>

SetPending(c) ==
    /\ pc[c] = "set_pending"
    /\ apending' = gen[c]
    /\ Goto(c, "set_state")
    /\ UNCHANGED <<guard, sup, child, genVars>>

\* The reader thread is spawned and the process is put into state.
SetState(c) ==
    /\ pc[c] = "set_state"
    /\ reader' = [reader EXCEPT ![gen[c]] = "reading"]
    /\ sup' = gen[c]
    /\ guard' = NoClient
    /\ take_request_id(c, gen[c])
    /\ UNCHANGED <<child, apending, proc, pending, stdin, written>>

Insert(c) ==
    /\ pc[c] = "insert"
    /\ pending' = [pending EXCEPT ![gen[c]][rid[c]] = c]
    /\ Goto(c, "write")
    /\ UNCHANGED <<handleVars, proc, reader, nextId, stdin, written>>

\* A request waits for the stdin mutex of its process, without a timeout.
LockStdin(c) ==
    /\ pc[c] = "write"
    /\ stdin[gen[c]] = NoClient
    /\ stdin' = [stdin EXCEPT ![gen[c]] = c]
    /\ Goto(c, "writing")
    /\ UNCHANGED <<handleVars, proc, reader, nextId, pending, written>>

\* The request is written under the mutex; if that fails it is taken out of
\* the pending map again.  The write has no timeout either: as long as the
\* process lives and does not read its full pipe, the step is not taken, and
\* no fairness is assumed of it (see Fairness).
Write(c) ==
    LET g == gen[c]
    IN  /\ pc[c] = "writing"
        /\ stdin' = [stdin EXCEPT ![g] = NoClient]
        /\ \/ /\ proc[g] = "alive"
              /\ written' = [written EXCEPT ![g] = @ \cup {<<rid[c], call[c]>>}]
              /\ Goto(c, "wait")
              /\ UNCHANGED pending
           \/ /\ proc[g] # "alive" \/ OsMayFail
              /\ pending' = [pending EXCEPT ![g][rid[c]] = NoClient]
              /\ Return(c)
              /\ UNCHANGED written
        /\ UNCHANGED <<handleVars, proc, reader, nextId>>

\* recv_timeout yields what was sent.
Receive(c) ==
    /\ pc[c] = "wait"
    /\ rx[c] # "empty"
    /\ Return(c)
    /\ UNCHANGED <<handleVars, genVars>>

\* recv_timeout times out: the request gives up its place and kills.
\* (Mutant: it waits for ever.)
NoTimeout(c) == FALSE /\ UNCHANGED vars
Timeout(c) ==
    /\ pc[c] = "wait"
    /\ rx[c] = "empty"
    /\ pending' = [pending EXCEPT ![gen[c]][rid[c]] = NoClient]
    /\ Goto(c, "kill_take")
    /\ UNCHANGED <<handleVars, proc, reader, nextId, stdin, written>>

-----------------------------------------------------------------------------
(* kill *)

KillTake(c) ==
    /\ pc[c] = "kill_take"
    /\ child' = 0
    /\ kchild' = [kchild EXCEPT ![c] = child]
    /\ pc' = [pc EXCEPT ![c] = IF child = 0 THEN "kill_pending"
                                            ELSE "kill_process"]
    /\ UNCHANGED <<guard, sup, apending, genVars, calls, call, gen, rid, rx, got>>

\* An error of the poll or of the kill ends kill, and with it the request.
KillProcess(c) ==
    /\ pc[c] = "kill_process"
    /\ \/ /\ proc' = [proc EXCEPT ![kchild[c]] = "exited"]
          /\ pc' = [pc EXCEPT ![c] = "kill_pending"]
          /\ kchild' = [kchild EXCEPT ![c] = 0]
          /\ UNCHANGED <<calls, call, gen, rid, rx, got>>
       \/ /\ kchild[c] \in Stubborn
          /\ Return(c)
          /\ UNCHANGED proc
    /\ UNCHANGED <<handleVars, reader, nextId, pending, stdin, written>>

\* active_pending is taken and drained.
KillPending(c) ==
    /\ pc[c] = "kill_pending"
    /\ apending' = 0
    /\ IF apending = 0 THEN UNCHANGED <<pending, rx>> ELSE fail_pending(apending)
    /\ pc' = [pc EXCEPT ![c] = "kill_state"]
    /\ UNCHANGED <<guard, sup, child, proc, reader, nextId, stdin, written,
                   calls, call, gen, rid, got, kchild>>

\* try_lock: whoever holds the state mutex keeps what is in it.
KillState(c) ==
    /\ pc[c] = "kill_state"
    /\ sup' = IF guard = NoClient THEN 0 ELSE sup
    /\ Return(c)
    /\ UNCHANGED <<guard, child, apending, genVars>>

-----------------------------------------------------------------------------
(* The reader thread and the process *)

\* read_supervisor_stdout: a response goes to the client that waits for its
\* id; nobody waits for a late one.  What the process wrote before it died is
\* still read.
ReaderReply(g) ==
    \E w \in written[g] :
        /\ reader[g] = "reading"
        /\ written' = [written EXCEPT ![g] = @ \ {w}]
        /\ pending' = [pending EXCEPT ![g][w[1]] = NoClient]
        /\ LET c == pending[g][w[1]]
           IN  IF c = NoClient THEN UNCHANGED <<rx, got>>
               ELSE /\ rx' = [rx EXCEPT ![c] = "reply"]
                    /\ got' = [got EXCEPT ![c] = w[2]]
        /\ UNCHANGED <<handleVars, proc, reader, nextId, stdin, calls, pc, call,
                       gen, rid, kchild>>

\* The end of the output, a read error or a line that does not parse ends
\* the reader, even if the process lives on.
ReaderEnd(g) ==
    /\ reader[g] = "reading"
    /\ reader' = [reader EXCEPT ![g] = "done"]
    /\ fail_pending(g)
    /\ UNCHANGED <<handleVars, proc, nextId, stdin, written, calls, pc, call,
                   gen, rid, got, kchild>>

\* The process dies, or ends because its stdin was closed.
ProcessExit(g) ==
    /\ proc[g] = "alive"
    /\ proc' = [proc EXCEPT ![g] = "exited"]
    /\ UNCHANGED <<handleVars, reader, nextId, pending, stdin, written,
                   clientVars>>

-----------------------------------------------------------------------------
(* The specification *)

ClientStep(c) ==
    \/ CheckAlive(c) \/ ClearChild(c) \/ ClearPending(c) \/ Spawn(c)
    \/ SetChild(c) \/ SetPending(c) \/ SetState(c)
    \/ Insert(c) \/ LockStdin(c) \/ Write(c) \/ Receive(c) \/ Timeout(c)
    \/ KillTake(c) \/ KillProcess(c) \/ KillPending(c) \/ KillState(c)

Next ==
    \/ \E c \in Clients : Request(c) \/ ClientStep(c)
    \/ \E g \in Gens : ReaderReply(g) \/ ReaderEnd(g) \/ ProcessExit(g)

\* A write to a live process, which takes as long as the process likes.
InPipe(c) == pc[c] = "writing" /\ proc[gen[c]] = "alive"

\* Threads are scheduled; a timeout passes if nothing comes.  Nothing is
\* assumed of the supervisor: it may stop reading, and then a write to it
\* ends only with the process.
Fairness ==
    /\ \A c \in Clients : WF_vars(~InPipe(c) /\ ClientStep(c))
    /\ \A g \in Gens : WF_vars(ReaderEnd(g) /\ proc[g] = "exited")

Spec == Init /\ [][Next]_vars
FairSpec == Spec /\ Fairness

-----------------------------------------------------------------------------
(* Properties *)

\* No crosstalk: a response that a request receives is the response to that
\* request, whatever was timed out, killed and restarted before.
OwnAnswer == \A c \in Clients : rx[c] = "reply" => got[c] = call[c]

\* No response is lost: a request that is waiting and has not been answered
\* is in the pending map of its process, where the reader finds it.
WaitingIsPending ==
    \A c \in Clients :
        pc[c] = "wait" /\ rx[c] = "empty" => pending[gen[c]][rid[c]] = c

\* A supervisor that hangs can be killed by a timeout: the process in use is
\* the one that kill will find, or somebody is about to kill it, unless the
\* operating system refuses to kill it.
HungCanBeKilled ==
    sup \notin Stubborn \cup {0} /\ proc[sup] = "alive" =>
        child = sup \/ \E c \in Clients : kchild[c] = sup

\* A request that is in, or behind, a write to a live process.
BehindPipe(c) ==
    /\ pc[c] \in {"write", "writing"}
    /\ \E d \in Clients : InPipe(d) /\ gen[d] = gen[c]

\* Every request returns, also if the supervisor does not answer, writes
\* garbage, or dies at any point, with one exception: a live supervisor that
\* stops reading its stdin can hold the requests that write to it, for ever,
\* since only the wait for the response has a timeout.  It holds them only as
\* long as no request that is past its write waits for that process: the
\* timeout of one would kill it and free all.
RequestReturns ==
    \A c \in Clients :
        \/ []<>(pc[c] = "idle")
        \/ <>[](BehindPipe(c) /\ \A d \in Clients :
                   gen[d] = gen[c] => pc[d] \in {"insert", "write", "writing"})

=============================================================================
