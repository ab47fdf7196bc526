-------------------------- MODULE SessionRefinement -------------------------
(***************************************************************************)
(* The session manager implements SessionLifecycle.                        *)
(***************************************************************************)
EXTENDS SessionManager

\* The users of a worker: a call with a request under way.
WorkerUsers(s) ==
    {<<"command", c>> : c \in {d \in Clients : Executing(d, s)}}
    \cup {<<"close", c>> : c \in {d \in Clients : ClosingWorker(d, s)}}
    \cup (IF startup[s] = "create" THEN {<<"open">>} ELSE {})
    \cup (IF startup[s] \in {"close_closing", "close_terminal"}
          THEN {<<"close">>} ELSE {})

PhaseOf(s) ==
    IF s \in abandoned THEN "given up"
    ELSE CASE state[s] = "Absent"                       -> "none"
           [] state[s] \in {"Created", "Starting"}      -> "opening"
           [] state[s] \in {"Ready", "Break", "Running"} -> "serving"
           [] state[s] = "Closing"                      -> "closing"
           [] state[s] = "Closed"                       -> "closed"
           [] OTHER                                     -> "failed"

Lifecycle == INSTANCE SessionLifecycle WITH
    Commands <- {<<"command", c>> : c \in Clients},
    Opens <- {<<"open">>},
    Closes <- {<<"close">>} \cup {<<"close", c>> : c \in Clients},
    phase <- [s \in Sessions |-> PhaseOf(s)],
    worker <- proc,
    users <- [s \in Sessions |-> WorkerUsers(s)]

\* Every behaviour of the manager's threads is a behaviour of the promised
\* lifecycle: get-or-create, a one-way life, one worker, one user at a time.
ImplementsLifecycle == Lifecycle!Spec
=============================================================================
