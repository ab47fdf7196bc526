----------------------------- MODULE McpServer ------------------------------
(***************************************************************************)
(* The HTTP server of dbgflow-mcp (http.rs), run by the Windows service    *)
(* process (service.rs), the dispatch of a JSON-RPC message to a tool      *)
(* (mcp.rs, tools/registry.rs) and the path of a session update from the   *)
(* thread that changes a session to the clients that hold an event stream  *)
(* open (session/manager.rs).                                              *)
(*                                                                         *)
(* Each accepted connection has a thread of its own and carries one        *)
(* request.  A request is a record of the facts the code asks about it; a  *)
(* session is its number of changes so far.                                *)
(***************************************************************************)
EXTENDS Naturals, Sequences, Functions

CONSTANTS
    Streams,      \* connections whose client sends anything but a POST
    Posts,        \* connections whose client sends a POST /mcp
    Observers,    \* threads of the session manager that no request drives
    Sessions,
    NoSession,
    MaxChanges    \* bound: changes of a session

ASSUME StreamsAssumption == Streams \cap Posts = {}
ASSUME SessionAssumption == NoSession \notin Sessions
ASSUME MaxChangesAssumption == MaxChanges \in Nat

Conns == Streams \cup Posts

VARIABLES
    server,       \* where the service process is
    signal,       \* shutdown_tx: "held", then "sent" and "received"
    failed,       \* run_http returned an error
    conn,         \* where the thread of a connection is
    client,       \* the client's end: "up", "slow", "silent" or "gone"
    request,      \* what the client sent
    answer,       \* what the thread will write as the response
    ran,          \* tools run for this connection
    changed,      \* the session a thread has changed and not yet announced
    version,      \* changes of each session so far
    subscribers,  \* event_subscribers: the sending ends
    updates,      \* the receiving end of each event stream
    told          \* what the client of a stream knows of each session

vars == <<server, signal, failed, conn, client, request, answer, ran,
          changed, version, subscribers, updates, told>>

connVars == <<conn, client, request, answer, ran, told>>
busVars == <<changed, version, subscribers, updates>>

-----------------------------------------------------------------------------
(* Requests. *)

\* The tool a tools/call names: parameters that do not decode, a name or
\* arguments the registry refuses, a tool that only reads, one that may
\* change a session.
Tools == {"undecodable", "refused", "query", "change"}

Message(kind, version2, id, method, result, tool) ==
    [kind |-> kind, version2 |-> version2, id |-> id, method |-> method,
     result |-> result, tool |-> tool]

\* Of the other methods some have a result; one that is not known, or whose
\* handler fails (resources/read of a session that does not exist), has none.
NoMessage == Message("none", FALSE, "absent", "absent", FALSE, "none")

Messages ==
    {[NoMessage EXCEPT !.kind = k] : k \in {"unparsable", "not_object"}}
    \cup
    {m \in [kind : {"object"}, version2 : BOOLEAN,
            id : {"absent", "valid", "invalid"},
            method : {"absent", "not_string", "notifications/initialized",
                      "tools/call", "answered", "rejected"},
            result : BOOLEAN, tool : Tools \cup {"none"}] :
        /\ m.result => m.method = "absent"
        /\ m.method = "tools/call" <=> m.tool # "none"
        /\ ~m.version2 \/ m.id = "invalid" => m.tool = "change"}

Request(read, origin, target, json, body) ==
    [read |-> read, origin |-> origin, target |-> target, json |-> json,
     body |-> body]

NoRequest == Request("short", "none", "other", FALSE, NoMessage)

\* What each kind of client may send: a request that does not arrive whole or
\* is malformed, one from a page of another site, a good one.
RequestsOf(c) ==
    IF c \in Posts
    THEN {Request("whole", "local", "post", TRUE, m) : m \in Messages}
         \cup {Request("short", "none", "post", FALSE, NoMessage),
               Request("whole", "none", "post", FALSE, NoMessage),
               Request("whole", "foreign", "post", TRUE,
                       Message("object", TRUE, "valid", "tools/call", FALSE,
                               "change"))}
    ELSE {NoRequest, [NoRequest EXCEPT !.read = "malformed"]}
         \cup {Request("whole", o, t, FALSE, NoMessage) :
                  o \in {"none", "foreign"}, t \in {"sse", "healthz", "other"}}

Requests == {NoRequest} \cup UNION {RequestsOf(c) : c \in Conns}

-----------------------------------------------------------------------------
(* What is answered.  An outcome is the HTTP status, the JSON-RPC reply and *)
(* whether a tool is run before the reply is written.                       *)

Outcome(status, reply, runs) ==
    [status |-> status, reply |-> reply, runs |-> runs]

NoOutcome == Outcome(0, "none", FALSE)

origin_is_allowed(r) == r.origin # "foreign"

is_mcp_sse_request(r) == r.target = "sse"

is_jsonrpc_notification(m) == m.method # "absent" /\ m.id = "absent"

is_jsonrpc_response(m) == m.method = "absent" /\ m.id # "absent" /\ m.result

\* tools/call: a call the registry refuses is a protocol error, one that
\* fails while it runs is a result that says so.
call_tool(m) ==
    IF m.tool \in {"undecodable", "refused"}
    THEN Outcome(200, "error", FALSE)
    ELSE Outcome(200, "result", TRUE)

\* A message without an id is dispatched like any other and only then
\* refused; of the notifications only initialized is answered by nothing.
handle_message(m) ==
    LET dispatched ==
            CASE m.method = "tools/call" -> call_tool(m)
              [] m.method = "answered"   -> Outcome(200, "result", FALSE)
              [] OTHER                   -> Outcome(200, "error", FALSE)
    IN  IF \/ m.kind = "not_object"
           \/ ~m.version2
           \/ m.id = "invalid"
           \/ m.method \in {"absent", "not_string"}
        THEN Outcome(200, "error", FALSE)
        ELSE IF m.method = "notifications/initialized"
          THEN Outcome(202, "none", FALSE)
        ELSE IF m.id = "absent" THEN [dispatched EXCEPT !.reply = "error"]
        ELSE dispatched

\* Mutant: notifications are passed on like requests.
handle_mcp_post_all(r) ==
    IF ~r.json THEN Outcome(415, "none", FALSE)
    ELSE IF r.body.kind = "unparsable" THEN Outcome(400, "none", FALSE)
    ELSE IF is_jsonrpc_response(r.body) THEN Outcome(202, "none", FALSE)
    ELSE handle_message(r.body)

handle_mcp_post(r) ==
    IF ~r.json THEN Outcome(415, "none", FALSE)
    ELSE IF r.body.kind = "unparsable" THEN Outcome(400, "none", FALSE)
    ELSE IF is_jsonrpc_response(r.body) \/ is_jsonrpc_notification(r.body)
      THEN Outcome(202, "none", FALSE)
    ELSE handle_message(r.body)

route_request(r) ==
    IF ~origin_is_allowed(r) THEN Outcome(403, "none", FALSE)
    ELSE CASE r.target = "healthz" -> Outcome(200, "none", FALSE)
           [] r.target = "post" -> handle_mcp_post(r)
           [] OTHER -> Outcome(404, "none", FALSE)

-----------------------------------------------------------------------------
Init ==
    /\ server = "starting"
    /\ signal = "held"
    /\ failed = FALSE
    /\ conn = [c \in Conns |-> "idle"]
    /\ client = [c \in Conns |-> "up"]
    /\ request = [c \in Conns |-> NoRequest]
    /\ answer = [c \in Conns |-> NoOutcome]
    /\ ran = [c \in Conns |-> 0]
    /\ changed = [t \in Conns \cup Observers |-> NoSession]
    /\ version = [s \in Sessions |-> 0]
    /\ subscribers = {}
    /\ updates = [c \in Conns |-> <<>>]
    /\ told = [c \in Conns |-> [s \in Sessions |-> 0]]

-----------------------------------------------------------------------------
(* The service process: it reports Running, binds, and polls. *)

Accepting == server \in {"running", "poll", "accept"}

\* A status that cannot be reported ends run_service, here and at the stop.
ReportRunning ==
    /\ server = "starting"
    /\ server' \in {"running", "stopped"}
    /\ UNCHANGED <<signal, failed, connVars, busVars>>

\* Mutant: the loop starts with a fresh channel, and a stop that came before
\* it is lost.
BindAfresh ==
    /\ server = "running"
    /\ \/ server' = "poll" /\ UNCHANGED failed
       \/ server' = "stop_pending" /\ failed' = TRUE
    /\ signal' = IF signal = "sent" THEN "received" ELSE signal
    /\ UNCHANGED <<connVars, busVars>>

Bind ==
    /\ server = "running"
    /\ \/ server' = "poll" /\ UNCHANGED failed
       \/ server' = "stop_pending" /\ failed' = TRUE
    /\ UNCHANGED <<signal, connVars, busVars>>

\* Stop and Shutdown from the service manager, while the process reports
\* that it accepts them: the first one takes the sender.
Control ==
    /\ Accepting
    /\ signal = "held"
    /\ signal' = "sent"
    /\ UNCHANGED <<server, failed, connVars, busVars>>

\* The listener is dropped when run_http returns: what waits to be accepted
\* is reset.
DropListener ==
    /\ conn' = [c \in Conns |-> IF conn[c] = "backlog" THEN "done"
                                                       ELSE conn[c]]
    /\ client' = [c \in Conns |-> IF conn[c] = "backlog" THEN "gone"
                                                         ELSE client[c]]
    /\ UNCHANGED <<request, answer, ran, told>>

PollShutdown ==
    /\ server = "poll"
    /\ IF signal = "sent"
       THEN /\ server' = "stop_pending"
            /\ signal' = "received"
            /\ DropListener
       ELSE /\ server' = "accept"
            /\ UNCHANGED <<signal, connVars>>
    /\ UNCHANGED <<failed, busVars>>

Accept(c) ==
    /\ server = "accept"
    /\ conn[c] = "backlog"
    /\ conn' = [conn EXCEPT ![c] = "reading"]
    /\ server' = "poll"
    /\ UNCHANGED <<signal, failed, client, request, answer, ran, told,
                   busVars>>

\* Nobody waits, or accept fails with an error that ends the loop.
AcceptNone ==
    /\ server = "accept"
    /\ \A c \in Conns : conn[c] # "backlog"
    /\ server' = "poll"
    /\ UNCHANGED <<signal, failed, connVars, busVars>>

AcceptFails ==
    /\ server = "accept"
    /\ server' = "stop_pending"
    /\ failed' = TRUE
    /\ DropListener
    /\ UNCHANGED <<signal, busVars>>

\* StopPending and Stopped are reported, or one of them fails; either way
\* run_service is over, and the process ends and its threads with it.
ReportStopped ==
    /\ server = "stop_pending"
    /\ server' = "stopped"
    /\ UNCHANGED <<signal, failed, connVars, busVars>>

Exit ==
    /\ server = "stopped"
    /\ server' = "exited"
    /\ conn' = [c \in Conns |-> "done"]
    /\ client' = [c \in Conns |-> "gone"]
    /\ changed' = [t \in Conns \cup Observers |-> NoSession]
    /\ subscribers' = {}
    /\ updates' = [c \in Conns |-> <<>>]
    /\ UNCHANGED <<signal, failed, request, answer, ran, told, version>>

-----------------------------------------------------------------------------
(* Clients. *)

Connect(c) ==
    /\ server \in {"poll", "accept"}
    /\ conn[c] = "idle"
    /\ conn' = [conn EXCEPT ![c] = "backlog"]
    /\ UNCHANGED <<server, signal, failed, client, request, answer, ran, told,
                   busVars>>

\* The client closes its end, stalls (it sends its request a byte at a time,
\* or does not read what it is sent) for a while or for ever, or stops sending
\* in the middle of its request.
Turn(c, from, to) ==
    /\ conn[c] \notin {"idle", "done"}
    /\ client[c] \in from
    /\ client' = [client EXCEPT ![c] = to]
    /\ UNCHANGED <<server, signal, failed, conn, request, answer, ran,
                   told, busVars>>

Leave(c) == Turn(c, {"up", "slow", "silent"}, "gone")
Stall(c) == Turn(c, {"up"}, "slow")
Resume(c) == Turn(c, {"slow"}, "up")
StopSending(c) == conn[c] = "reading" /\ Turn(c, {"up", "slow"}, "silent")

-----------------------------------------------------------------------------
(* The thread of a connection reads what the client sent.  A request that   *)
(* stays incomplete ends with the read timeout, a client that left with an  *)
(* error.  The timeout is one of each read: a client that sends a byte now  *)
(* and then is read from for ever.                                          *)

read_request(r) ==
    IF r.read = "short" THEN Outcome(408, "none", FALSE)
    ELSE IF r.read = "malformed" THEN Outcome(400, "none", FALSE)
    ELSE IF is_mcp_sse_request(r)
      THEN IF origin_is_allowed(r) THEN NoOutcome ELSE Outcome(403, "none", FALSE)
    ELSE route_request(r)

\* What there is to read in the end: all of a request if the client goes on
\* sending, a part of one if it does not, either if it left.
\* (Mutant: a read waits for ever, so a silent client never has its request
\* come to an end.)
ArrivesUntimed(c) ==
    {r \in RequestsOf(c) : /\ r.read = "short" => client[c] = "gone"
                           /\ client[c] # "silent"}
Arrives(c) ==
    {r \in RequestsOf(c) : /\ r.read = "short" => client[c] \in {"silent", "gone"}
                           /\ client[c] = "silent" => r.read = "short"}

HandleConnection(c) ==
    /\ conn[c] = "reading"
    /\ \E r \in Arrives(c) :
           LET out == read_request(r)
           IN  /\ conn' = [conn EXCEPT ![c] =
                              CASE out = NoOutcome -> "headers"
                                [] out.runs -> "calling"
                                [] OTHER -> "respond"]
               /\ answer' = [answer EXCEPT ![c] = out]
               /\ request' = [request EXCEPT ![c] = IF out.runs THEN r ELSE @]
    /\ UNCHANGED <<server, signal, failed, client, ran, told, busVars>>

\* The response is written, to the end or until the client is gone.  Nothing
\* bounds the time that a client takes to read it.
WriteResponse(c) ==
    /\ conn[c] = "respond"
    /\ conn' = [conn EXCEPT ![c] = "done"]
    /\ request' = [request EXCEPT ![c] = NoRequest]
    /\ answer' = [answer EXCEPT ![c] = NoOutcome]
    /\ ran' = [ran EXCEPT ![c] = 0]
    /\ UNCHANGED <<server, signal, failed, client, told, busVars>>

-----------------------------------------------------------------------------
(* A session changes in one critical section and is announced in another.   *)

ChangeSession(t, s) ==
    /\ version[s] < MaxChanges
    /\ version' = [version EXCEPT ![s] = @ + 1]
    /\ changed' = [changed EXCEPT ![t] = s]

\* Mutant: the channel holds nothing, and an update is lost that finds its
\* thread at another one or held by its client.
notify_rendezvous(s) ==
    LET live == {c \in subscribers : conn[c] = "stream"}
        waiting == {c \in live : updates[c] = <<>> /\ client[c] # "slow"}
    IN  /\ subscribers' = live
        /\ updates' = [c \in Conns |-> IF c \in waiting
                                       THEN Append(updates[c], s)
                                       ELSE updates[c]]

\* The sender of a receiver that is gone fails and is removed.
notify_session_updated(s) ==
    LET live == {c \in subscribers : conn[c] = "stream"}
    IN  /\ subscribers' = live
        /\ updates' = [c \in Conns |-> IF c \in live
                                       THEN Append(updates[c], s)
                                       ELSE updates[c]]

\* The tool of a request: it changes a session and announces it, or returns,
\* with a value or an error, without a change.
CallTool(c) ==
    /\ conn[c] = "calling"
    /\ changed[c] = NoSession
    /\ ran[c] = 0
    /\ request[c].body.tool = "change"
    /\ \E s \in Sessions : ChangeSession(c, s)
    /\ ran' = [ran EXCEPT ![c] = 1]
    /\ UNCHANGED <<server, signal, failed, conn, client, request, answer,
                   subscribers, updates, told>>

ToolReturns(c) ==
    /\ conn[c] = "calling"
    /\ changed[c] = NoSession
    /\ conn' = [conn EXCEPT ![c] = "respond"]
    /\ ran' = [ran EXCEPT ![c] = 1]
    /\ \E reply \in {answer[c].reply}
                    \cup (IF answer[c].reply = "result" THEN {"tool_error"}
                                                        ELSE {}) :
           answer' = [answer EXCEPT ![c].reply = reply]
    /\ UNCHANGED <<server, signal, failed, client, request, told,
                   busVars>>

ObserverChanges(t) ==
    /\ server # "exited"
    /\ changed[t] = NoSession
    /\ \E s \in Sessions : ChangeSession(t, s)
    /\ UNCHANGED <<server, signal, failed, connVars, subscribers, updates>>

Announce(t) ==
    /\ changed[t] # NoSession
    /\ notify_session_updated(changed[t])
    /\ changed' = [changed EXCEPT ![t] = NoSession]
    /\ UNCHANGED <<server, signal, failed, connVars, version>>

-----------------------------------------------------------------------------
(* An event stream: the headers are written, then the receiver is created. *)

WriteHeaders(c) ==
    /\ conn[c] = "headers"
    /\ conn' = [conn EXCEPT ![c] = IF client[c] = "gone" THEN "done"
                                                         ELSE "register"]
    /\ UNCHANGED <<server, signal, failed, client, request, answer, ran,
                   told, busVars>>

Subscribe(c) ==
    /\ conn[c] = "register"
    /\ conn' = [conn EXCEPT ![c] = "stream"]
    /\ subscribers' = subscribers \cup {c}
    /\ told' = [told EXCEPT ![c] = version]
    /\ UNCHANGED <<server, signal, failed, client, request, answer, ran,
                   changed, version, updates>>

\* An update is written.  A client that gets it reads the session and finds
\* all changes so far, a slow one when it gets to it.  One that left may still
\* have it accepted by the connection.
SendUpdate(c) ==
    /\ conn[c] = "stream"
    /\ updates[c] # <<>>
    /\ updates' = [updates EXCEPT ![c] = Tail(@)]
    /\ LET s == Head(updates[c])
       IN  told' = IF client[c] = "gone"
                   THEN told ELSE [told EXCEPT ![c][s] = version[s]]
    /\ UNCHANGED <<server, signal, failed, conn, client, request, answer,
                   ran, changed, version, subscribers>>

\* An update or, every 30 seconds without one, a keepalive cannot be written.
WriteFails(c) ==
    /\ conn[c] = "stream"
    /\ client[c] = "gone"
    /\ conn' = [conn EXCEPT ![c] = "done"]
    /\ updates' = [updates EXCEPT ![c] = <<>>]
    /\ UNCHANGED <<server, signal, failed, client, request, answer, ran,
                   told, changed, version, subscribers>>

-----------------------------------------------------------------------------
ServerStep ==
    \/ ReportRunning \/ Bind \/ PollShutdown \/ AcceptNone
    \/ (\E c \in Conns : Accept(c))
    \/ ReportStopped \/ Exit

ConnStep(c) ==
    \/ HandleConnection(c) \/ WriteResponse(c) \/ ToolReturns(c)
    \/ WriteHeaders(c) \/ Subscribe(c) \/ SendUpdate(c)

Next ==
    \/ ServerStep
    \/ Control \/ AcceptFails
    \/ \E c \in Conns : \/ Connect(c) \/ Leave(c) \/ Stall(c) \/ Resume(c)
                        \/ StopSending(c)
                        \/ ConnStep(c) \/ CallTool(c) \/ WriteFails(c)
    \/ \E t \in Observers : ObserverChanges(t)
    \/ \E t \in Conns \cup Observers : Announce(t)

Spec == Init /\ [][Next]_vars

\* A thread that reads from or writes to a client that stalls.
HeldByClient(c) ==
    client[c] = "slow" /\ conn[c] \in {"reading", "respond", "headers", "stream"}

\* The threads of the process run, as long as their client does not hold them;
\* a tool returns (what bounds it is the subject of the other modules) and the
\* system reports a client that is gone to whoever keeps writing to it.
FairSpec ==
    /\ Spec
    /\ WF_vars(ServerStep)
    /\ \A c \in Conns : /\ WF_vars(~HeldByClient(c) /\ ConnStep(c))
                         /\ WF_vars(WriteFails(c))
    /\ \A t \in Conns \cup Observers : WF_vars(Announce(t))

-----------------------------------------------------------------------------
TypeOK ==
    /\ server \in {"starting", "running", "poll", "accept", "stop_pending",
                   "stopped", "exited"}
    /\ signal \in {"held", "sent", "received"}
    /\ failed \in BOOLEAN
    /\ conn \in [Conns -> {"idle", "backlog", "reading", "calling", "respond",
                           "headers", "register", "stream", "done"}]
    /\ client \in [Conns -> {"up", "slow", "silent", "gone"}]
    /\ request \in [Conns -> Requests]
    /\ answer \in [Conns -> [status : Nat, runs : BOOLEAN,
                   reply : {"none", "result", "error", "tool_error"}]]
    /\ ran \in [Conns -> {0, 1}]
    /\ changed \in [Conns \cup Observers -> Sessions \cup {NoSession}]
    /\ version \in [Sessions -> 0..MaxChanges]
    /\ subscribers \subseteq Streams
    /\ updates \in [Conns -> Seq(Sessions)]
    /\ told \in [Conns -> [Sessions -> 0..MaxChanges]]

\* No change of a session is lost on the way to an open event stream: once
\* its receiver is registered (http.rs, handle_mcp_sse), whatever the client
\* does not know of a session is announced by an update that is still in its
\* channel, or by a thread between the change and notify_session_updated.
UpdateReaches ==
    \A c \in Conns, s \in Sessions :
        conn[c] = "stream" /\ client[c] # "gone" /\ told[c][s] < version[s] =>
            \/ s \in Range(updates[c])
            \/ s \in Range(changed)

\* A JSON-RPC error means that nothing was done: no message that is answered
\* with an error, and none that is not answered by a reply at all, has run a
\* tool, although handle_message runs the tool of a message without id before
\* it refuses the message.
ErrorMeansNoEffect ==
    \A c \in Conns :
        conn[c] \in {"calling", "respond"} /\ ran[c] = 1 =>
            answer[c].reply \in {"result", "tool_error"}

\* What a client is told agrees with what was done.
ServerInv == TypeOK /\ UpdateReaches /\ ErrorMeansNoEffect

\* A client that stalls again and again, or once and for ever.
KeepsStalling(c) == []<>(client[c] = "slow")

\* The client of an open stream catches up with every change of a session,
\* or leaves, or the server ends (handle_mcp_sse, notify_session_updated),
\* unless the client itself does not read.
Informed ==
    \A c \in Streams, s \in Sessions :
        \/ KeepsStalling(c)
        \/ (conn[c] = "stream" /\ told[c][s] < version[s]) ~>
              (told[c][s] = version[s] \/ client[c] = "gone")

\* Every connection is accepted and served to its end or becomes an event
\* stream, whatever the clients of the others do, and also when its own client
\* sends half a request (CONNECTION_READ_TIMEOUT).  Only a client that keeps
\* stalling holds its thread, and no other: no deadline bounds read_request as
\* a whole, nor write_response.  The thread of a stream whose client left ends,
\* without waiting for a session to change: the keepalive finds it
\* (handle_mcp_sse).
Served ==
    \A c \in Conns :
        /\ \/ KeepsStalling(c)
           \/ (conn[c] \in {"backlog", "reading"}) ~> (conn[c] \in {"stream", "done"})
        /\ (conn[c] = "stream" /\ client[c] = "gone") ~> (conn[c] = "done")

\* A stop that the service manager delivers, at whatever point of the start
\* or of the accept loop, ends the process (register_control_handler,
\* run_http, run_service).
StopEnds == (signal = "sent") ~> (server = "exited")
=============================================================================
