---------------------------- MODULE ProcessLaunch ----------------------------
(***************************************************************************)
(* Launching child processes (crates/dbgflow-common/src/process.rs,        *)
(* windows_impl): concurrent calls of spawn_process in the threads of one  *)
(* server.  Each resolves the identity its child is to run under, prepares *)
(* the child's three standard handles, creates the process, and falls back *)
(* to the server's own identity when that fails.  Handles that are marked  *)
(* inheritable are visible to every process creation of the server; a      *)
(* handle list restricts what a child gets.                                *)
(***************************************************************************)
EXTENDS Naturals, FiniteSets

CONSTANTS
    Launches,     \* calls of spawn_process
    MayElevate    \* launches whose configuration says elevate_if_admin

ASSUME LaunchAssumption == MayElevate \subseteq Launches

VARIABLES
    call,         \* per launch, the locals of windows_spawn_process
    handles,      \* the handle table of the server
    inheritable,  \* the handles in it that are marked inheritable
    child,        \* per launch, the process and the handles it inherited
    audit         \* per launch, the ProcessLaunchAudit of the ManagedChild

launchVars == <<call, handles, inheritable, child, audit>>

Identities == {"CurrentProcess", "McpPeerSession", "ActiveInteractiveSession"}
Fallbacks == {"CurrentProcess", "ActiveInteractiveSession"}
Stdio == {"Null", "Piped"}   \* File is opened and duplicated as NUL is

\* A resolved identity: whose token, elevated or not, and the reason why it is
\* not the one requested.
Identity(source, elevated, reason) ==
    [source |-> source, elevated |-> elevated, reason |-> reason]
CurrentProcess(reason) == Identity("CurrentProcess", FALSE, reason)

\* The child's ends of stdin, stdout and stderr, the server's ends of the
\* pipes, the files that were duplicated, and what CreateProcess returns.
Ends == {"in", "out", "err", "pipe_in", "pipe_out", "file_in", "file_out",
         "file_err", "process", "thread"}
Handle(l, end) == <<l, end>>
HandlesOf(l) == {h \in handles : h[1] = l}
ChildEnds(l) == {Handle(l, "in"), Handle(l, "out"), Handle(l, "err")}
ServerEnds(l) == {Handle(l, "pipe_in"), Handle(l, "pipe_out")}

Config == [child_identity : Identities, fallback_child_identity : Fallbacks]
Idle == [pc |-> "idle", stdin |-> "Null", stdout |-> "Null",
         requested |-> "CurrentProcess", identity |-> CurrentProcess(FALSE),
         result |-> "none"]
Alive == "alive"

Audits == [source : Identities, elevated : BOOLEAN, reason : BOOLEAN]
Calls == [pc : {"idle", "in", "protect_in", "out", "protect_out", "err", "create",
                "done", "dropped"},
          stdin : Stdio, stdout : Stdio, requested : Identities,
          identity : Audits, result : {"none", "ok", "err"}]

\* Calls, the handle table, the children and their audits.
LaunchTypeOK ==
    /\ call \in [Launches -> Calls]
    /\ handles \subseteq Launches \X Ends /\ inheritable \subseteq handles
    /\ child \in [Launches -> [state : {"none", Alive, "exited"},
                               holds : SUBSET (Launches \X Ends)]]
    /\ audit \in [Launches -> Audits]

LaunchInit ==
    /\ call = [l \in Launches |-> Idle]
    /\ handles = {} /\ inheritable = {}
    /\ child = [l \in Launches |-> [state |-> "none", holds |-> {}]]
    /\ audit = [l \in Launches |-> CurrentProcess(FALSE)]

-----------------------------------------------------------------------------
(* Identity.  The tokens that WTSQueryUserToken yields, and a linked token,  *)
(* are the operating system's to grant (external).                           *)

token_for_session(l, source, reason) ==
    {Identity(source, elevated, reason) : elevated \in IF l \in MayElevate THEN BOOLEAN ELSE {FALSE}}

resolve_fallback_identity(l, fallback) ==
    {CurrentProcess(TRUE)} \cup
        (IF fallback = "CurrentProcess" THEN {}
         ELSE token_for_session(l, "ActiveInteractiveSession", TRUE))

\* The identities that a request may resolve to: its own token, or the fallback.
resolve_user_identity(l, config) ==
    IF config.child_identity = "CurrentProcess"
      THEN {CurrentProcess(FALSE)}
      ELSE token_for_session(l, config.child_identity, FALSE)
             \cup resolve_fallback_identity(l, config.fallback_child_identity)

Start(l, config, stdin, stdout) ==
    /\ call[l].pc = "idle"
    /\ \E identity \in resolve_user_identity(l, config) :
          call' = [call EXCEPT ![l] = [pc |-> "in", stdin |-> stdin, stdout |-> stdout,
                                       requested |-> config.child_identity,
                                       identity |-> identity, result |-> "none"]]
    /\ UNCHANGED <<handles, inheritable, child, audit>>

-----------------------------------------------------------------------------
(* create_process_with_optional_token *)

Goto(l, pc) == call' = [call EXCEPT ![l].pc = pc]

\* An error return drops every guard and file of the attempt.  The attempt with
\* a token is followed by one with the server's identity.
Fail(l) ==
    /\ handles' = {h \in handles : h[1] # l}
    /\ inheritable' = inheritable \cap handles'
    /\ call' = IF call[l].identity.source # "CurrentProcess"
                 THEN [call EXCEPT ![l].pc = "in", ![l].identity = CurrentProcess(TRUE)]
                 ELSE [call EXCEPT ![l].pc = "done", ![l].result = "err"]

\* create_pipe_pair makes both ends inheritable; a file is opened and its
\* duplicate is.
OpenPipe(l, end, pipe) ==
    /\ handles' = handles \cup {Handle(l, end), Handle(l, pipe)}
    /\ inheritable' = inheritable \cup {Handle(l, end), Handle(l, pipe)}
OpenFile(l, end, file) ==
    /\ handles' = handles \cup {Handle(l, end), Handle(l, file)}
    /\ inheritable' = inheritable \cup {Handle(l, end)}

PrepareInput(l) ==
    /\ call[l].pc = "in"
    /\ \/ Fail(l)
       \/ call[l].stdin = "Piped" /\ OpenPipe(l, "in", "pipe_in") /\ Goto(l, "protect_in")
       \/ call[l].stdin = "Null" /\ OpenFile(l, "in", "file_in") /\ Goto(l, "out")
    /\ UNCHANGED <<child, audit>>

PrepareOutput(l) ==
    /\ call[l].pc = "out"
    /\ \/ Fail(l)
       \/ call[l].stdout = "Piped" /\ OpenPipe(l, "out", "pipe_out") /\ Goto(l, "protect_out")
       \/ call[l].stdout = "Null" /\ OpenFile(l, "out", "file_out") /\ Goto(l, "err")
    /\ UNCHANGED <<child, audit>>

PrepareError(l) ==
    /\ call[l].pc = "err"
    /\ \/ Fail(l)
       \/ OpenFile(l, "err", "file_err") /\ Goto(l, "create")
    /\ UNCHANGED <<child, audit>>

\* set_handle_not_inheritable, on the server's end of a pipe.
Protect(l) ==
    /\ call[l].pc \in {"protect_in", "protect_out"}
    /\ \/ Fail(l)
       \/ /\ inheritable' = inheritable \ ServerEnds(l)
          /\ Goto(l, IF call[l].pc = "protect_in" THEN "out" ELSE "err")
          /\ UNCHANGED handles
    /\ UNCHANGED <<child, audit>>

\* What the child gets: the inheritable handles on the list.
\* (Mutant: no PROC_THREAD_ATTRIBUTE_HANDLE_LIST.)
InheritAll(l) == inheritable
Inherit(l) == ChildEnds(l) \cap inheritable

\* CreateProcess, with the attribute list and the environment block before it.
\* On success the server keeps its ends of the pipes and the process.
Keep(l) ==
    {h \in handles : h[1] = l => h \in ServerEnds(l)}
        \cup {Handle(l, "process"), Handle(l, "thread")}
CreateProcess(l) ==
    /\ call[l].pc = "create"
    /\ \/ Fail(l) /\ UNCHANGED <<child, audit>>
       \/ /\ child' = [child EXCEPT ![l] = [state |-> Alive, holds |-> Inherit(l)]]
          /\ audit' = [audit EXCEPT ![l] = call[l].identity]
          /\ handles' = Keep(l)
          /\ inheritable' = inheritable \cap handles'
          /\ call' = [call EXCEPT ![l].pc = "done", ![l].result = "ok"]

-----------------------------------------------------------------------------
(* Afterwards *)

\* The process ends, by itself or by kill; its handles go with it.
ChildExits(l) ==
    /\ child[l].state = Alive
    /\ child' = [child EXCEPT ![l].state = "exited", ![l].holds = {}]
    /\ UNCHANGED <<call, handles, inheritable, audit>>

\* The ManagedChild and the pipes taken from it are dropped: the process lives
\* on if nobody killed it.
DropChild(l) ==
    /\ call[l].pc = "done" /\ call[l].result = "ok"
    /\ Goto(l, "dropped")
    /\ handles' = {h \in handles : h[1] # l}
    /\ inheritable' = inheritable \cap handles'
    /\ UNCHANGED <<child, audit>>

Step(l) ==
    PrepareInput(l) \/ PrepareOutput(l) \/ PrepareError(l) \/ Protect(l) \/ CreateProcess(l)
LaunchNext ==
    \E l \in Launches :
        \/ \E config \in Config, stdin \in Stdio, stdout \in Stdio :
              Start(l, config, stdin, stdout)
        \/ Step(l) \/ ChildExits(l) \/ DropChild(l)

LaunchSpec == LaunchInit /\ [][LaunchNext]_launchVars

-----------------------------------------------------------------------------
(* Properties *)

\* When a child has exited, nobody holds its end of stdout or stdin any more,
\* whatever else was launched meanwhile: the server's read of the pipe ends
\* (process.rs, the handle list and the guards of PreparedStdio).
PipesEndWithChild ==
    \A l \in Launches :
        child[l].state = "exited" =>
            /\ ChildEnds(l) \cap handles = {}
            /\ \A m \in Launches : ChildEnds(l) \cap child[m].holds = {}

\* No child holds a handle of another launch or a server's end of a pipe, also
\* when its creation fell between the creation of that pipe and
\* set_handle_not_inheritable.
ChildHoldsItsOwn == \A l \in Launches : child[l].holds \subseteq ChildEnds(l)

\* Between calls the server holds the process, its thread and its own pipe
\* ends of the children it manages, and nothing of launches that failed or were
\* dropped, at whichever step and attempt they failed.
NoHandleLeaks ==
    \A l \in Launches :
        /\ call[l].pc \in {"idle", "dropped"} \/ call[l].result = "err" => HandlesOf(l) = {}
        /\ call[l].pc = "done" /\ call[l].result = "ok" =>
              HandlesOf(l) =
                  {Handle(l, "process"), Handle(l, "thread")}
                    \cup (IF call[l].stdin = "Piped" THEN {Handle(l, "pipe_in")} ELSE {})
                    \cup (IF call[l].stdout = "Piped" THEN {Handle(l, "pipe_out")} ELSE {})

\* A child that does not run under the identity requested has an audit that
\* says why, also when CreateProcessAsUserW failed after the token was found,
\* and only a token of a configuration that allows it is elevated.
FallbackIsTold ==
    \A l \in Launches : child[l].state # "none" =>
        /\ audit[l].source # call[l].requested => audit[l].reason
        /\ audit[l].elevated => l \in MayElevate /\ audit[l].source # "CurrentProcess"

\* Whatever fails and whatever else is launched meanwhile, every handle is with
\* its child, with the server as long as it manages the child, or closed, and
\* the audit tells who the child runs as.
LaunchInv ==
    /\ LaunchTypeOK
    /\ PipesEndWithChild
    /\ ChildHoldsItsOwn
    /\ NoHandleLeaks
    /\ FallbackIsTold
=============================================================================
