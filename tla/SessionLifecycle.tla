-------------------------- MODULE SessionLifecycle --------------------------
(***************************************************************************)
(* What the debug session manager promises of a session, without threads,  *)
(* locks or a registry:                                                    *)
(*                                                                         *)
(*   - get-or-create: a session is created for a target only while no      *)
(*     other session of that target is on offer;                           *)
(*   - one way: a session opens, serves and ends; it never serves again;   *)
(*   - one worker, which starts once and ends once;                        *)
(*   - one user: the open request, a command or the orderly close has the  *)
(*     worker for itself, and commands only follow an open that succeeded. *)
(*                                                                         *)
(* A session that is closed while a command is between its checks and its  *)
(* first trace is given up: what the manager shows of it afterwards is not *)
(* promised, but its worker is still used by one user at a time.           *)
(***************************************************************************)
CONSTANTS
    Sessions, Targets, NoTarget,
    Opens, Commands, Closes   \* the requests a worker gets

VARIABLES
    phase,     \* where a session is in its life
    target,    \* the target it was created for
    worker,    \* its worker process
    users      \* who has a request with the worker

vars == <<phase, target, worker, users>>

Over == {"closing", "closed", "failed"}
OnOffer == {"opening", "serving"}

Init ==
    /\ phase = [s \in Sessions |-> "none"]
    /\ target = [s \in Sessions |-> NoTarget]
    /\ worker = [s \in Sessions |-> "none"]
    /\ users = [s \in Sessions |-> {}]

Become(s, p) ==
    /\ phase' = [phase EXCEPT ![s] = p]
    /\ UNCHANGED <<target, worker, users>>

Create(s, t) ==
    /\ phase[s] = "none"
    /\ \A r \in Sessions : target[r] = t => phase[r] \notin OnOffer
    /\ phase' = [phase EXCEPT ![s] = "opening"]
    /\ target' = [target EXCEPT ![s] = t]
    /\ UNCHANGED <<worker, users>>

Serve(s) == phase[s] = "opening" /\ Become(s, "serving")

Close(s) == phase[s] \in OnOffer \cup {"failed"} /\ Become(s, "closing")

\* The session ends: closed in the end, or at once, or failed.
End(s) ==
    /\ phase[s] \in OnOffer \cup Over
    /\ Become(s, "closed") \/ Become(s, "failed")

GiveUp(s) == phase[s] \in {"serving", "failed"} /\ Become(s, "given up")

Spawn(s) ==
    /\ worker[s] = "none" /\ phase[s] # "none"
    /\ worker' = [worker EXCEPT ![s] = "alive"]
    /\ UNCHANGED <<phase, target, users>>

\* The worker ends on its own or is killed, perhaps by its only user, whose
\* request ends with it.
Exit(s) ==
    /\ worker[s] # "none"
    /\ worker' = [worker EXCEPT ![s] = "exited"]
    /\ \/ UNCHANGED users
       \/ users' = [users EXCEPT ![s] = {}]
    /\ UNCHANGED <<phase, target>>

Use(s, u) ==
    /\ users[s] = {}
    /\ worker[s] # "none"
    /\ u \in Opens => phase[s] = "opening"
    /\ u \in Commands => phase[s] \notin {"none", "opening"}
    /\ users' = [users EXCEPT ![s] = {u}]
    /\ UNCHANGED <<phase, target, worker>>

Release(s) ==
    /\ users[s] # {}
    /\ users' = [users EXCEPT ![s] = {}]
    /\ UNCHANGED <<phase, target, worker>>

Next ==
    \E s \in Sessions :
        \/ \E t \in Targets : Create(s, t)
        \/ Serve(s) \/ Close(s) \/ End(s) \/ GiveUp(s)
        \/ Spawn(s) \/ Exit(s)
        \/ \E u \in Opens \cup Commands \cup Closes : Use(s, u)
        \/ Release(s)

Spec == Init /\ [][Next]_vars
=============================================================================
