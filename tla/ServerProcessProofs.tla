------------------------- MODULE ServerProcessProofs -------------------------
(* The server process: what it answers its clients and tells the subscribers  *)
(* of session updates (McpServer), and the children it starts (ProcessLaunch). *)
(* The two specifications share no variable and are proved one after the      *)
(* other, for any number of connections, threads, sessions and launches.      *)
EXTENDS McpServer, ProcessLaunch, TLAPS

(***************************************************************************)
(* Answers and session updates.                                            *)
(***************************************************************************)
Outcomes == [status : Nat, runs : BOOLEAN,
             reply : {"none", "result", "error", "tool_error"}]

\* A tool is run only for a message that is answered with its result, and only
\* in a thread that is calling it; the thread of a POST never becomes a stream.
AnswerOf(c) ==
    /\ conn[c] \notin {"calling", "respond", "done"} => ran[c] = 0
    /\ conn[c] = "calling" => answer[c].reply = "result"
    /\ conn[c] = "respond" /\ ran[c] = 1 =>
          answer[c].reply \in {"result", "tool_error"}
    /\ conn[c] \in {"headers", "register", "stream"} => c \in Streams
    /\ conn[c] = "stream" => c \in subscribers

AnswerInv == \A c \in Conns : AnswerOf(c)

\* What the client of c does not know of s is on its way.
OnItsWay(c, s) ==
    conn[c] = "stream" /\ client[c] # "gone" /\ told[c][s] < version[s] =>
        \/ \E n \in DOMAIN updates[c] : updates[c][n] = s
        \/ \E t \in Conns \cup Observers : changed[t] = s

WayInv == \A c \in Conns, s \in Sessions : OnItsWay(c, s)

ServerIndInv == TypeOK /\ AnswerInv /\ WayInv

-----------------------------------------------------------------------------
\* What read_request decides about a request of this client.
LEMMA OutcomeFacts ==
    ASSUME NEW c \in Conns, NEW r \in RequestsOf(c)
    PROVE  LET out == read_request(r)
           IN  /\ out \in Outcomes
               /\ out = NoOutcome => c \in Streams
               /\ out.runs => out.reply = "result"
<1>1. c \notin Streams => r.target = "post"
  <2>1. SUFFICES ASSUME c \notin Streams PROVE r.target = "post"
    OBVIOUS
  <2>2. c \in Posts
    BY <2>1 DEF Conns
  <2> QED
    BY <2>2 DEF RequestsOf, Request, Message
<1>2. \A m : /\ call_tool(m) \in Outcomes /\ call_tool(m) # NoOutcome
             /\ call_tool(m).runs => call_tool(m).reply = "result"
    BY DEF call_tool, Outcome, Outcomes, NoOutcome
<1>3. \A m : LET out == handle_message(m)
             IN  /\ out \in Outcomes /\ out # NoOutcome
                 /\ out.runs => /\ m.method = "tools/call"
                                /\ m.id # "absent" => out.reply = "result"
  <2> TAKE m
  <2> DEFINE d == CASE m.method = "tools/call" -> call_tool(m)
                    [] m.method = "answered"   -> Outcome(200, "result", FALSE)
                    [] OTHER                   -> Outcome(200, "error", FALSE)
  <2>1. /\ d \in Outcomes /\ d # NoOutcome
        /\ d.runs => m.method = "tools/call" /\ d.reply = "result"
    BY <1>2 DEF Outcome, Outcomes, NoOutcome
  <2>2. [d EXCEPT !.reply = "error"] \in Outcomes /\ [d EXCEPT !.reply = "error"].runs = d.runs
        /\ [d EXCEPT !.reply = "error"] # NoOutcome
    BY <2>1 DEF Outcome, Outcomes, NoOutcome
  <2>3. \/ handle_message(m) = Outcome(200, "error", FALSE)
        \/ handle_message(m) = Outcome(202, "none", FALSE)
        \/ handle_message(m) = [d EXCEPT !.reply = "error"] /\ m.id = "absent"
        \/ handle_message(m) = d
    BY Zenon DEF handle_message
  <2> HIDE DEF d
  <2>4. CASE \E n \in {200, 202}, e \in {"error", "none"} :
                handle_message(m) = Outcome(n, e, FALSE)
    BY <2>4 DEF Outcome, Outcomes, NoOutcome
  <2>5. CASE handle_message(m) = [d EXCEPT !.reply = "error"] /\ m.id = "absent"
    BY <2>1, <2>2, <2>5
  <2>6. CASE handle_message(m) = d
    BY <2>1, <2>6
  <2> QED
    BY <2>3, <2>4, <2>5, <2>6
<1>4. LET out == handle_mcp_post(r)
      IN  /\ out \in Outcomes /\ out # NoOutcome
          /\ out.runs => out.reply = "result"
  <2>1. CASE handle_mcp_post(r) = handle_message(r.body)
             /\ ~is_jsonrpc_notification(r.body)
    BY <1>3, <2>1 DEF is_jsonrpc_notification
  <2>2. CASE \E n \in {415, 400, 202} : handle_mcp_post(r) = Outcome(n, "none", FALSE)
    BY <2>2 DEF Outcome, Outcomes, NoOutcome
  <2> QED
    BY <2>1, <2>2 DEF handle_mcp_post, Outcome
<1>5. LET out == route_request(r)
      IN  /\ out \in Outcomes /\ out # NoOutcome
          /\ out.runs => out.reply = "result"
  <2>1. CASE route_request(r) = handle_mcp_post(r)
    BY <1>4, <2>1
  <2>2. CASE \E n \in {403, 200, 404} : route_request(r) = Outcome(n, "none", FALSE)
    BY <2>2 DEF Outcome, Outcomes, NoOutcome
  <2> QED
    BY <2>1, <2>2 DEF route_request, Outcome
<1>6. \/ read_request(r) = NoOutcome /\ r.target = "sse"
      \/ \E n \in {408, 400, 403} : read_request(r) = Outcome(n, "none", FALSE)
      \/ read_request(r) = route_request(r)
    BY DEF read_request, is_mcp_sse_request, Outcome
<1>7. CASE read_request(r) = NoOutcome /\ r.target = "sse"
    BY <1>1, <1>7 DEF Outcome, Outcomes, NoOutcome
<1>8. CASE \E n \in {408, 400, 403} : read_request(r) = Outcome(n, "none", FALSE)
    BY <1>8 DEF Outcome, Outcomes, NoOutcome
<1>9. CASE read_request(r) = route_request(r)
    BY <1>5, <1>9
<1> QED
    BY <1>6, <1>7, <1>8, <1>9

-----------------------------------------------------------------------------
LEMMA ServerInitInd == Init => ServerIndInv
<1> SUFFICES ASSUME Init PROVE ServerIndInv
    OBVIOUS
<1>1. NoRequest \in Requests
    BY DEF Requests
<1>2. NoOutcome \in Outcomes
    BY DEF NoOutcome, Outcome, Outcomes
<1>3. TypeOK
  <2>1. request \in [Conns -> Requests] /\ answer \in [Conns -> Outcomes]
    BY <1>1, <1>2 DEF Init
  <2>2. /\ version \in [Sessions -> 0..MaxChanges]
        /\ told \in [Conns -> [Sessions -> 0..MaxChanges]]
    BY MaxChangesAssumption DEF Init
  <2>3. /\ conn \in [Conns -> {"idle"}] /\ client \in [Conns -> {"up"}]
        /\ ran \in [Conns -> {0, 1}] /\ updates \in [Conns -> Seq(Sessions)]
        /\ changed \in [Conns \cup Observers -> Sessions \cup {NoSession}]
    BY DEF Init
  <2> QED
    BY <2>1, <2>2, <2>3 DEF Init, TypeOK, Outcomes
<1>4. AnswerInv /\ WayInv
    BY DEF Init, AnswerInv, AnswerOf, WayInv, OnItsWay
<1> QED
    BY <1>3, <1>4 DEF ServerIndInv

\* The types of what belongs to one connection.
LEMMA ConnFacts ==
    ASSUME TypeOK, NEW c \in Conns
    PROVE  /\ answer[c] \in Outcomes /\ request[c] \in Requests
           /\ updates[c] \in Seq(Sessions)
           /\ told[c] \in [Sessions -> 0..MaxChanges]
BY DEF TypeOK, Outcomes

\* A step that leaves sessions, channels and streams alone: no connection
\* becomes a stream, and no client comes back.
LEMMA ConnStepInd ==
    ASSUME ServerIndInv, TypeOK', AnswerInv',
           UNCHANGED <<changed, version, updates, told>>,
           \A c \in Conns : conn'[c] = "stream" => conn[c] = "stream",
           \A c \in Conns : client[c] = "gone" => client'[c] = "gone"
    PROVE  ServerIndInv'
BY DEF ServerIndInv, WayInv, OnItsWay

LEMMA DropListenerInd ==
    ASSUME ServerIndInv, DropListener, UNCHANGED busVars,
           server' \in {"stop_pending"}, signal' \in {"held", "sent", "received"},
           failed' \in BOOLEAN
    PROVE  ServerIndInv'
<1>1. TypeOK'
    BY DEF ServerIndInv, TypeOK, DropListener, busVars
<1>2. AnswerInv'
    BY DEF ServerIndInv, TypeOK, AnswerInv, AnswerOf, DropListener, busVars
<1> QED
    BY <1>1, <1>2, ConnStepInd DEF DropListener, busVars, ServerIndInv, TypeOK

LEMMA ServerStepInd ==
    ASSUME ServerIndInv, ReportRunning \/ Bind \/ Control \/ PollShutdown \/ AcceptNone
                   \/ AcceptFails \/ ReportStopped
    PROVE  ServerIndInv'
<1>1. CASE /\ UNCHANGED <<connVars, busVars>>
           /\ TypeOK'
  <2>1. AnswerInv'
    BY <1>1 DEF ServerIndInv, AnswerInv, AnswerOf, connVars, busVars
  <2> QED
    BY <1>1, <2>1, ConnStepInd DEF connVars, busVars
<1>2. ReportRunning \/ Bind \/ Control \/ AcceptNone \/ ReportStopped =>
         TypeOK' /\ UNCHANGED <<connVars, busVars>>
    BY DEF ServerIndInv, TypeOK, ReportRunning, Bind, Control, AcceptNone, ReportStopped,
           connVars, busVars
<1>3. CASE PollShutdown
  <2>1. CASE signal = "sent"
    BY <1>3, <2>1, DropListenerInd DEF PollShutdown, ServerIndInv, TypeOK, busVars
  <2>2. CASE signal # "sent"
    BY <1>1, <1>3, <2>2 DEF PollShutdown, ServerIndInv, TypeOK, connVars, busVars
  <2> QED
    BY <2>1, <2>2
<1>4. CASE AcceptFails
    BY <1>4, DropListenerInd DEF AcceptFails, ServerIndInv, TypeOK, busVars
<1> QED
    BY <1>1, <1>2, <1>3, <1>4

LEMMA ExitInd == ServerIndInv /\ Exit => ServerIndInv'
<1> SUFFICES ASSUME ServerIndInv, Exit PROVE ServerIndInv'
    OBVIOUS
<1>1. TypeOK'
    BY DEF ServerIndInv, TypeOK, Exit
<1>2. AnswerInv' /\ WayInv'
    BY DEF Exit, AnswerInv, AnswerOf, WayInv, OnItsWay
<1> QED
    BY <1>1, <1>2 DEF ServerIndInv

\* A connection whose thread touches only what is its own and no session.
LEMMA OneConn ==
    ASSUME ServerIndInv, TypeOK', NEW c \in Conns,
           UNCHANGED <<changed, version, updates, told, subscribers>>,
           \A d \in Conns \ {c} :
               /\ conn'[d] = conn[d] /\ client'[d] = client[d]
               /\ answer'[d] = answer[d] /\ ran'[d] = ran[d],
           conn'[c] = "stream" => conn[c] = "stream",
           client[c] = "gone" => client'[c] = "gone",
           AnswerOf(c)'
    PROVE  ServerIndInv'
<1>1. AnswerInv'
    BY DEF ServerIndInv, AnswerInv, AnswerOf
<1> QED
    BY <1>1, ConnStepInd

LEMMA ConnInd ==
    ASSUME ServerIndInv, NEW c \in Conns,
           Accept(c) \/ Connect(c) \/ Leave(c) \/ Stall(c) \/ Resume(c)
               \/ StopSending(c) \/ WriteResponse(c) \/ ToolReturns(c) \/ WriteHeaders(c)
    PROVE  ServerIndInv'
<1>0. TypeOK /\ AnswerOf(c) /\ answer[c] \in Outcomes
    BY ConnFacts DEF ServerIndInv, AnswerInv
<1>1. CASE Accept(c)
    BY <1>0, <1>1, OneConn DEF Accept, TypeOK, AnswerOf, busVars
<1>2. CASE Connect(c)
    BY <1>0, <1>2, OneConn DEF Connect, TypeOK, AnswerOf, busVars
<1>3. CASE Leave(c) \/ Stall(c) \/ Resume(c) \/ StopSending(c)
  <2>1. PICK to \in {"up", "slow", "silent", "gone"} :
            /\ client' = [client EXCEPT ![c] = to]
            /\ client[c] # "gone"
            /\ UNCHANGED <<server, signal, failed, conn, request, answer, ran,
                           told, busVars>>
    BY <1>3 DEF Leave, Stall, Resume, StopSending, Turn
  <2> QED
    BY <1>0, <2>1, OneConn DEF TypeOK, AnswerOf, busVars
<1>4. CASE WriteResponse(c)
  <2>1. NoRequest \in Requests /\ NoOutcome \in Outcomes
    BY DEF Requests, NoOutcome, Outcome, Outcomes
  <2>2. TypeOK'
    BY <1>0, <1>4, <2>1 DEF WriteResponse, TypeOK, Outcomes, busVars
  <2> QED
    BY <1>0, <1>4, <2>2, OneConn DEF WriteResponse, TypeOK, AnswerOf, busVars
<1>5. CASE ToolReturns(c)
  <2>1. PICK reply \in {"result", "tool_error"} :
            answer' = [answer EXCEPT ![c].reply = reply]
    BY <1>0, <1>5 DEF ToolReturns, AnswerOf
  <2>2. [answer[c] EXCEPT !.reply = reply] \in Outcomes
    BY <1>0 DEF Outcomes
  <2>3. answer' = [answer EXCEPT ![c] = [answer[c] EXCEPT !.reply = reply]]
    BY <1>0, <2>1 DEF TypeOK
  <2>4. /\ answer' \in [Conns -> Outcomes] /\ answer'[c].reply = reply
        /\ \A d \in Conns \ {c} : answer'[d] = answer[d]
    BY <1>0, <2>2, <2>3 DEF TypeOK, Outcomes
  <2>5. TypeOK'
    BY <1>0, <1>5, <2>4 DEF ToolReturns, TypeOK, Outcomes, busVars
  <2> QED
    BY <1>0, <1>5, <2>4, <2>5, OneConn DEF ToolReturns, TypeOK, AnswerOf, busVars
<1>6. CASE WriteHeaders(c)
    BY <1>0, <1>6, OneConn DEF WriteHeaders, TypeOK, AnswerOf, busVars
<1> QED
    BY <1>1, <1>2, <1>3, <1>4, <1>5, <1>6

LEMMA HandleConnectionInd ==
    ASSUME ServerIndInv, NEW c \in Conns, HandleConnection(c)
    PROVE  ServerIndInv'
<1>0. TypeOK /\ AnswerOf(c)
    BY DEF ServerIndInv, AnswerInv
<1>1. PICK r \in RequestsOf(c) :
          LET out == read_request(r)
          IN  /\ conn' = [conn EXCEPT ![c] =
                             CASE out = NoOutcome -> "headers"
                               [] out.runs -> "calling"
                               [] OTHER -> "respond"]
              /\ answer' = [answer EXCEPT ![c] = out]
              /\ request' = [request EXCEPT ![c] = IF out.runs THEN r ELSE @]
    BY DEF HandleConnection, Arrives
<1> DEFINE out == read_request(r)
<1>2. /\ out \in Outcomes
      /\ out = NoOutcome => c \in Streams
      /\ out.runs => out.reply = "result"
    BY OutcomeFacts
<1>3. out = NoOutcome => ~out.runs
    BY DEF NoOutcome, Outcome
<1>4. /\ conn[c] = "reading"
      /\ UNCHANGED <<server, signal, failed, client, ran, told, busVars>>
    BY DEF HandleConnection
<1> HIDE DEF out
<1>5. PICK k \in {"headers", "calling", "respond"} :
          /\ conn' = [conn EXCEPT ![c] = k]
          /\ k = "headers" => out = NoOutcome
          /\ k = "calling" => out.runs
    BY <1>1, <1>3 DEF out
<1>6. r \in Requests
    BY DEF Requests
<1>7. TypeOK'
    BY <1>0, <1>1, <1>2, <1>4, <1>5, <1>6 DEF TypeOK, Outcomes, busVars, out
<1>8. answer' = [answer EXCEPT ![c] = out]
    BY <1>1 DEF out
<1>9. AnswerOf(c)'
    BY <1>0, <1>2, <1>4, <1>5, <1>8 DEF TypeOK, AnswerOf, busVars
<1> QED
    BY <1>0, <1>4, <1>5, <1>7, <1>8, <1>9, OneConn DEF TypeOK, busVars

-----------------------------------------------------------------------------
\* A thread that had nothing to announce changes a session: no announcement
\* is overwritten, and the change is held by the thread.
LEMMA ChangeSessionInd ==
    ASSUME ServerIndInv, NEW t \in Conns \cup Observers, NEW s \in Sessions,
           changed[t] = NoSession, ChangeSession(t, s),
           UNCHANGED <<server, signal, failed, conn, client, request, answer,
                       subscribers, updates, told>>,
           ran' \in [Conns -> {0, 1}], AnswerInv'
    PROVE  ServerIndInv'
<1>0. TypeOK /\ WayInv
    BY DEF ServerIndInv
<1>1. TypeOK'
    BY <1>0, MaxChangesAssumption DEF TypeOK, ChangeSession
<1>2. /\ changed'[t] = s
      /\ \A u \in Conns \cup Observers : u # t => changed'[u] = changed[u]
      /\ \A z \in Sessions : z # s => version'[z] = version[z]
    BY <1>0 DEF TypeOK, ChangeSession
<1>3. ASSUME NEW d \in Conns, NEW z \in Sessions PROVE OnItsWay(d, z)'
  <2>1. CASE z = s
    BY <1>2, <2>1 DEF OnItsWay
  <2>2. CASE z # s
    <3>1. OnItsWay(d, z)
      BY <1>0 DEF WayInv
    <3>2. \A u \in Conns \cup Observers : changed[u] = z => changed'[u] = z
      BY <1>2, SessionAssumption
    <3> QED
      BY <1>2, <2>2, <3>1, <3>2 DEF OnItsWay
  <2> QED
    BY <2>1, <2>2
<1> QED
    BY <1>1, <1>3 DEF ServerIndInv, WayInv

LEMMA CallToolInd ==
    ASSUME ServerIndInv, NEW c \in Conns, CallTool(c)
    PROVE  ServerIndInv'
<1>1. PICK s \in Sessions : ChangeSession(c, s)
    BY DEF CallTool
<1>2. ran' \in [Conns -> {0, 1}] /\ AnswerInv'
    BY DEF CallTool, ServerIndInv, TypeOK, AnswerInv, AnswerOf
<1> QED
    BY <1>1, <1>2, ChangeSessionInd DEF CallTool

LEMMA ObserverChangesInd ==
    ASSUME ServerIndInv, NEW t \in Observers, ObserverChanges(t)
    PROVE  ServerIndInv'
<1>1. PICK s \in Sessions : ChangeSession(t, s)
    BY DEF ObserverChanges
<1>2. ran' \in [Conns -> {0, 1}] /\ AnswerInv'
    BY DEF ObserverChanges, ServerIndInv, TypeOK, AnswerInv, AnswerOf, connVars
<1> QED
    BY <1>1, <1>2, ChangeSessionInd DEF ObserverChanges, connVars

\* An announcement reaches the channel of every stream: notify_session_updated
\* removes only the senders whose receiver is gone.
LEMMA AnnounceInd ==
    ASSUME ServerIndInv, NEW t \in Conns \cup Observers, Announce(t)
    PROVE  ServerIndInv'
<1> DEFINE s == changed[t]
           live == {c \in subscribers : conn[c] = "stream"}
<1>0. TypeOK /\ AnswerInv /\ WayInv
    BY DEF ServerIndInv
<1>1. s \in Sessions
    BY <1>0 DEF Announce, TypeOK
<1>2. /\ subscribers' = live
      /\ updates' = [c \in Conns |-> IF c \in live THEN Append(updates[c], s)
                                                   ELSE updates[c]]
      /\ changed' = [changed EXCEPT ![t] = NoSession]
      /\ UNCHANGED <<server, signal, failed, conn, client, request, answer, ran,
                     told, version>>
    BY DEF Announce, notify_session_updated, connVars
<1> HIDE DEF s
<1>3. \A c \in Conns : updates[c] \in Seq(Sessions) /\ Append(updates[c], s) \in Seq(Sessions)
    BY <1>0, <1>1 DEF TypeOK
<1>4. TypeOK'
  <2>1. updates' \in [Conns -> Seq(Sessions)]
    BY <1>2, <1>3
  <2> QED
    BY <1>0, <1>2, <2>1 DEF TypeOK
<1>5. AnswerInv'
    BY <1>0, <1>2 DEF AnswerInv, AnswerOf
<1>6. ASSUME NEW c \in Conns, NEW z \in Sessions, conn'[c] = "stream",
             client'[c] # "gone", told'[c][z] < version'[z]
      PROVE  \/ \E n \in DOMAIN updates'[c] : updates'[c][n] = z
             \/ \E u \in Conns \cup Observers : changed'[u] = z
  <2>1. updates'[c] = Append(updates[c], s)
    BY <1>0, <1>2, <1>6 DEF AnswerInv, AnswerOf
  <2>2. /\ DOMAIN updates[c] = 1..Len(updates[c]) /\ Len(updates[c]) \in Nat
        /\ DOMAIN updates'[c] = 1..(Len(updates[c]) + 1)
        /\ updates'[c][Len(updates[c]) + 1] = s
        /\ \A n \in DOMAIN updates[c] : updates'[c][n] = updates[c][n]
    BY <1>1, <1>3, <2>1
  <2>3. CASE z = s
    BY <2>2, <2>3
  <2>4. CASE \E n \in DOMAIN updates[c] : updates[c][n] = z
    BY <2>2, <2>4
  <2>5. CASE z # s /\ \E u \in Conns \cup Observers : changed[u] = z
    <3>1. PICK u \in Conns \cup Observers : changed[u] = z
      BY <2>5
    <3>2. changed'[u] = z
      BY <1>0, <1>2, <2>5, <3>1 DEF TypeOK, s
    <3> QED
      BY <3>2
  <2>6. \/ \E n \in DOMAIN updates[c] : updates[c][n] = z
        \/ \E u \in Conns \cup Observers : changed[u] = z
    BY <1>0, <1>2, <1>6 DEF WayInv, OnItsWay
  <2> QED
    BY <2>3, <2>4, <2>5, <2>6
<1> QED
    BY <1>4, <1>5, <1>6 DEF ServerIndInv, WayInv, OnItsWay

\* Event streams.
LEMMA SubscribeInd ==
    ASSUME ServerIndInv, NEW c \in Conns, Subscribe(c)
    PROVE  ServerIndInv'
<1>0. TypeOK /\ AnswerInv /\ WayInv /\ AnswerOf(c)
    BY DEF ServerIndInv, AnswerInv
<1>1. c \in Streams
    BY <1>0 DEF Subscribe, AnswerOf
<1>2. TypeOK'
    BY <1>0, <1>1 DEF TypeOK, Subscribe
<1>3. AnswerInv'
    BY <1>0, <1>1 DEF TypeOK, Subscribe, AnswerInv, AnswerOf
<1>4. ASSUME NEW d \in Conns, NEW s \in Sessions PROVE OnItsWay(d, s)'
  <2>1. CASE d = c
    <3>1. told'[c][s] = version[s] /\ version' = version /\ version[s] \in Int
      BY <1>0, MaxChangesAssumption DEF TypeOK, Subscribe
    <3> QED
      BY <2>1, <3>1 DEF OnItsWay
  <2>2. CASE d # c
    <3>1. OnItsWay(d, s)
      BY <1>0 DEF WayInv
    <3> QED
      BY <1>0, <2>2, <3>1 DEF TypeOK, Subscribe, OnItsWay
  <2> QED
    BY <2>1, <2>2
<1> QED
    BY <1>2, <1>3, <1>4 DEF ServerIndInv, WayInv

LEMMA SendUpdateInd ==
    ASSUME ServerIndInv, NEW c \in Conns, SendUpdate(c)
    PROVE  ServerIndInv'
<1> DEFINE h == Head(updates[c])
           n == Len(updates[c])
<1>0. TypeOK /\ AnswerInv /\ WayInv
    BY DEF ServerIndInv
<1>1. /\ conn[c] = "stream" /\ updates[c] # <<>>
      /\ updates' = [updates EXCEPT ![c] = Tail(updates[c])]
      /\ told' = IF client[c] = "gone" THEN told ELSE [told EXCEPT ![c][h] = version[h]]
      /\ UNCHANGED <<server, signal, failed, conn, client, request, answer,
                     ran, changed, version, subscribers>>
    BY <1>0 DEF SendUpdate, TypeOK
<1>2. updates[c] \in Seq(Sessions) /\ told[c] \in [Sessions -> 0..MaxChanges]
    BY <1>0, ConnFacts
<1>3. /\ h \in Sessions /\ Tail(updates[c]) \in Seq(Sessions)
      /\ n \in Nat \ {0} /\ DOMAIN updates[c] = 1..n /\ updates[c][1] = h
      /\ DOMAIN Tail(updates[c]) = 1..(n - 1)
      /\ \A k \in 1..(n - 1) : Tail(updates[c])[k] = updates[c][k + 1]
    BY <1>1, <1>2
<1> HIDE DEF h, n
<1>4. TypeOK'
  <2>1. updates' \in [Conns -> Seq(Sessions)]
    BY <1>0, <1>1, <1>3 DEF TypeOK
  <2>2. told' \in [Conns -> [Sessions -> 0..MaxChanges]]
    BY <1>0, <1>1, <1>2, <1>3 DEF TypeOK
  <2> QED
    BY <1>0, <1>1, <2>1, <2>2 DEF TypeOK
<1>5. AnswerInv'
    BY <1>0, <1>1 DEF AnswerInv, AnswerOf
<1>6. ASSUME NEW d \in Conns, NEW s \in Sessions PROVE OnItsWay(d, s)'
  <2>0. OnItsWay(d, s)
    BY <1>0 DEF WayInv
  <2>1. CASE d # c
    BY <1>0, <1>1, <2>0, <2>1 DEF TypeOK, OnItsWay
  <2>2. CASE d = c /\ client[c] = "gone"
    BY <1>1, <2>2 DEF OnItsWay
  <2>3. CASE d = c /\ client[c] # "gone" /\ s = h
    <3>1. told'[c][s] = version[s] /\ version[s] \in Int
      BY <1>0, <1>1, <1>2, <2>3, MaxChangesAssumption DEF TypeOK
    <3> QED
      BY <1>1, <2>3, <3>1 DEF OnItsWay
  <2>4. CASE d = c /\ client[c] # "gone" /\ s # h
    <3>1. told'[c][s] = told[c][s] /\ updates'[c] = Tail(updates[c])
      BY <1>0, <1>1, <1>2, <2>4 DEF TypeOK
    <3>2. ASSUME NEW k \in DOMAIN updates[c], updates[c][k] = s
          PROVE  \E j \in DOMAIN updates'[c] : updates'[c][j] = s
      <4>1. k \in 2..n
        BY <1>3, <2>4, <3>2
      <4>2. k - 1 \in 1..(n - 1) /\ (k - 1) + 1 = k
        BY <1>3, <4>1
      <4>3. Tail(updates[c])[k - 1] = updates[c][k]
        BY <1>3, <4>2
      <4> QED
        BY <1>3, <3>1, <3>2, <4>2, <4>3
    <3> QED
      BY <1>1, <2>0, <2>4, <3>1, <3>2 DEF OnItsWay
  <2> QED
    BY <1>0, <2>1, <2>2, <2>3, <2>4 DEF TypeOK
<1> QED
    BY <1>4, <1>5, <1>6 DEF ServerIndInv, WayInv

LEMMA WriteFailsInd ==
    ASSUME ServerIndInv, NEW c \in Conns, WriteFails(c)
    PROVE  ServerIndInv'
<1>0. TypeOK /\ AnswerInv /\ WayInv
    BY DEF ServerIndInv
<1>1. TypeOK'
    BY <1>0 DEF TypeOK, WriteFails
<1>2. AnswerInv'
    BY <1>0 DEF TypeOK, AnswerInv, AnswerOf, WriteFails
<1>3. ASSUME NEW d \in Conns, NEW s \in Sessions PROVE OnItsWay(d, s)'
  <2>1. OnItsWay(d, s)
    BY <1>0 DEF WayInv
  <2>2. CASE d = c
    BY <1>0, <2>2 DEF TypeOK, OnItsWay, WriteFails
  <2>3. CASE d # c
    BY <1>0, <2>1, <2>3 DEF TypeOK, OnItsWay, WriteFails
  <2> QED
    BY <2>2, <2>3
<1> QED
    BY <1>1, <1>2, <1>3 DEF ServerIndInv, WayInv

-----------------------------------------------------------------------------
LEMMA ServerNextInd == ServerIndInv /\ [Next]_vars => ServerIndInv'
<1> SUFFICES ASSUME ServerIndInv, [Next]_vars PROVE ServerIndInv'
    OBVIOUS
<1>1. CASE UNCHANGED vars
    BY <1>1 DEF vars, ServerIndInv, TypeOK, AnswerInv, AnswerOf, WayInv, OnItsWay
<1>2. CASE ServerStep \/ Control \/ AcceptFails
    BY <1>2, ServerStepInd, ExitInd, ConnInd DEF ServerStep
<1>3. ASSUME NEW c \in Conns,
             Connect(c) \/ Leave(c) \/ Stall(c) \/ Resume(c) \/ StopSending(c)
                 \/ ConnStep(c) \/ CallTool(c) \/ WriteFails(c)
      PROVE  ServerIndInv'
    BY <1>3, ConnInd, HandleConnectionInd, SubscribeInd, SendUpdateInd, CallToolInd,
       WriteFailsInd DEF ConnStep
<1>4. CASE \E t \in Observers : ObserverChanges(t)
    BY <1>4, ObserverChangesInd
<1>5. CASE \E t \in Conns \cup Observers : Announce(t)
    BY <1>5, AnnounceInd
<1> QED
    BY <1>1, <1>2, <1>3, <1>4, <1>5 DEF Next

\* What the threads of the server keep between their steps: who may become an
\* event stream, whose answer is a result, and that whatever a client of a
\* stream does not know is in its channel or with a thread (http.rs).
THEOREM ServerInvariance == Spec => []ServerIndInv
BY ServerInitInd, ServerNextInd, PTL DEF Spec

\* No change of a session is lost on the way to an open event stream, and a
\* JSON-RPC error means that no tool was run, for any number of connections,
\* threads, sessions and changes (handle_mcp_sse, notify_session_updated,
\* handle_message).
THEOREM AnswersAreTrue == Spec => []ServerInv
<1>1. ServerIndInv => ServerInv
  <2> SUFFICES ASSUME ServerIndInv PROVE ServerInv
    OBVIOUS
  <2>1. TypeOK /\ DOMAIN changed = Conns \cup Observers
    BY DEF ServerIndInv, TypeOK
  <2>2. UpdateReaches
    BY <2>1 DEF ServerIndInv, WayInv, OnItsWay, UpdateReaches, Range
  <2>3. ErrorMeansNoEffect
    BY DEF ServerIndInv, AnswerInv, AnswerOf, ErrorMeansNoEffect
  <2> QED
    BY <2>1, <2>2, <2>3 DEF ServerInv
<1> QED
  BY <1>1, ServerInvariance, PTL

(***************************************************************************)
(* Launching child processes: every handle with its owner, and an audit    *)
(* that tells who the child runs as, whatever fails at whichever step.     *)
(***************************************************************************)
\* The handles that the server holds for a launch, step by step: the child's
\* and the server's ends while they are prepared, afterwards the process and
\* the server's ends of the pipes.
Held(l) ==
    LET c == call[l]
        upTo(pcs, ends) == IF c.pc \in pcs THEN ends ELSE {}
    IN  upTo({"protect_in", "out", "protect_out", "err", "create"},
             {"in", IF c.stdin = "Piped" THEN "pipe_in" ELSE "file_in"})
        \cup upTo({"protect_out", "err", "create"},
                  {"out", IF c.stdout = "Piped" THEN "pipe_out" ELSE "file_out"})
        \cup upTo({"create"}, {"err", "file_err"})
        \cup IF c.pc = "done" /\ c.result = "ok"
             THEN {"process", "thread"}
                    \cup (IF c.stdin = "Piped" THEN {"pipe_in"} ELSE {})
                    \cup (IF c.stdout = "Piped" THEN {"pipe_out"} ELSE {})
             ELSE {}

HandleInv ==
    \A l \in Launches, e \in Ends : Handle(l, e) \in handles <=> e \in Held(l)

\* A launch has a result when it is over; only one that succeeded has a
\* process, and a process that has exited holds nothing.
ResultOf(l) ==
    /\ call[l].result = "none" <=> call[l].pc \notin {"done", "dropped"}
    /\ call[l].pc = "dropped" => call[l].result = "ok"
    /\ child[l].state # "none" => call[l].result = "ok"
    /\ child[l].state = "exited" => child[l].holds = {}
ResultInv == \A l \in Launches : ResultOf(l)

\* The identity of the attempt under way is the one requested or has a reason,
\* and the audit of a child is the identity of the attempt that succeeded.
IdentityOf(l) ==
    /\ call[l].identity.source # call[l].requested => call[l].identity.reason
    /\ call[l].identity.elevated =>
          l \in MayElevate /\ call[l].identity.source # "CurrentProcess"
    /\ child[l].state # "none" => audit[l] = call[l].identity
IdentityInv == \A l \in Launches : IdentityOf(l)

LaunchIndInv ==
    /\ LaunchTypeOK
    /\ HandleInv
    /\ ResultInv
    /\ IdentityInv
    /\ ChildHoldsItsOwn

-----------------------------------------------------------------------------
(* Handles *)

\* A handle is known by its launch and its end.
LEMMA HandleFacts ==
    /\ \A l, e : Handle(l, e)[1] = l
    /\ \A l, m, e, f : Handle(l, e) = Handle(m, f) <=> l = m /\ e = f
    /\ \A h \in Launches \X Ends : \E l \in Launches, e \in Ends : h = Handle(l, e)
BY DEF Handle

\* What the server holds of a launch is what Held says, no more and no less.
LEMMA HeldIsAll ==
    ASSUME LaunchTypeOK, HandleInv, NEW l \in Launches
    PROVE  HandlesOf(l) = {Handle(l, e) : e \in Held(l)}
<1>1. Held(l) \subseteq Ends
    BY DEF Held, Ends
<1>2. ASSUME NEW h \in HandlesOf(l) PROVE \E e \in Held(l) : h = Handle(l, e)
  <2>1. h \in handles /\ h \in Launches \X Ends /\ h[1] = l
    BY <1>2 DEF HandlesOf, LaunchTypeOK
  <2> QED
    BY <2>1, HandleFacts DEF HandleInv
<1>3. ASSUME NEW e \in Held(l) PROVE Handle(l, e) \in HandlesOf(l)
    BY <1>1, <1>3, HandleFacts DEF HandleInv, HandlesOf
<1> QED
    BY <1>2, <1>3

-----------------------------------------------------------------------------
(* The steps *)

LEMMA LaunchInitInd == LaunchInit => LaunchIndInv
<1> SUFFICES ASSUME LaunchInit PROVE LaunchIndInv
    OBVIOUS
<1> USE DEF LaunchInit, Idle, CurrentProcess, Identity
<1>1. LaunchTypeOK
    BY DEF LaunchTypeOK, Calls, Audits, Stdio, Identities, Alive
<1>2. HandleInv
    BY DEF HandleInv, Held
<1>3. ResultInv /\ IdentityInv /\ ChildHoldsItsOwn
    BY DEF ResultInv, ResultOf, IdentityInv, IdentityOf, ChildHoldsItsOwn
<1> QED
    BY <1>1, <1>2, <1>3 DEF LaunchIndInv

\* A step of one launch: the handles and the process of the others are theirs.
LEMMA OneLaunch ==
    ASSUME LaunchIndInv, LaunchTypeOK', NEW l \in Launches,
           \A m \in Launches \ {l} :
               /\ call'[m] = call[m] /\ child'[m] = child[m] /\ audit'[m] = audit[m]
               /\ \A e \in Ends : Handle(m, e) \in handles' <=> Handle(m, e) \in handles,
           \A e \in Ends : Handle(l, e) \in handles' <=> e \in Held(l)',
           ResultOf(l)', IdentityOf(l)', child'[l].holds \subseteq ChildEnds(l)
    PROVE  LaunchIndInv'
<1>1. HandleInv'
  <2> SUFFICES ASSUME NEW m \in Launches, NEW e \in Ends, m # l
               PROVE  Handle(m, e) \in handles' <=> e \in Held(m)'
    BY DEF HandleInv
  <2>1. Held(m)' = Held(m)
    BY DEF Held
  <2> QED
    BY <2>1 DEF LaunchIndInv, HandleInv
<1>2. ResultInv' /\ IdentityInv'
  <2> SUFFICES ASSUME NEW m \in Launches, m # l PROVE ResultOf(m)' /\ IdentityOf(m)'
    BY DEF ResultInv, IdentityInv
  <2>1. ResultOf(m) /\ IdentityOf(m)
    BY DEF LaunchIndInv, ResultInv, IdentityInv
  <2> QED
    BY <2>1 DEF ResultOf, IdentityOf
<1>3. ChildHoldsItsOwn'
    BY DEF LaunchIndInv, ChildHoldsItsOwn, ChildEnds
<1> QED
    BY <1>1, <1>2, <1>3 DEF LaunchIndInv

\* The identity that a call resolves is the one requested, or it has a reason;
\* only a configuration that allows it yields an elevated token.
LEMMA ResolvedIdentity ==
    ASSUME NEW l \in Launches, NEW config \in Config,
           NEW identity \in resolve_user_identity(l, config)
    PROVE  /\ identity \in Audits
           /\ identity.source # config.child_identity => identity.reason
           /\ identity.elevated =>
                 l \in MayElevate /\ identity.source # "CurrentProcess"
<1>1. \E source \in Identities, elevated \in BOOLEAN, reason \in BOOLEAN :
         /\ identity = Identity(source, elevated, reason)
         /\ source # config.child_identity => reason = TRUE
         /\ elevated = TRUE => l \in MayElevate /\ source # "CurrentProcess"
  <2>0. config.child_identity \in Identities
    BY DEF Config
  <2>1. CASE identity = CurrentProcess(FALSE) /\ config.child_identity = "CurrentProcess"
    BY <2>1 DEF CurrentProcess, Identities
  <2>2. CASE identity = CurrentProcess(TRUE)
    BY <2>2 DEF CurrentProcess, Identities
  <2>3. CASE /\ identity \in token_for_session(l, config.child_identity, FALSE)
             /\ config.child_identity # "CurrentProcess"
    BY <2>0, <2>3 DEF token_for_session
  <2>4. CASE identity \in token_for_session(l, "ActiveInteractiveSession", TRUE)
    BY <2>4 DEF token_for_session, Identities
  <2> QED
    BY <2>1, <2>2, <2>3, <2>4 DEF resolve_user_identity, resolve_fallback_identity
<1>2. PICK source \in Identities, elevated \in BOOLEAN, reason \in BOOLEAN :
         /\ identity = Identity(source, elevated, reason)
         /\ source # config.child_identity => reason = TRUE
         /\ elevated = TRUE => l \in MayElevate /\ source # "CurrentProcess"
    BY <1>1
<1>3. identity.source = source /\ identity.elevated = elevated /\ identity.reason = reason
    BY <1>2 DEF Identity
<1> QED
    BY <1>2, <1>3 DEF Identity, Audits

\* A call resolves its identity and holds nothing yet.
LEMMA StartInd ==
    ASSUME LaunchIndInv, NEW l \in Launches, NEW config \in Config,
           NEW stdin \in Stdio, NEW stdout \in Stdio, Start(l, config, stdin, stdout)
    PROVE  LaunchIndInv'
<1>1. PICK identity \in resolve_user_identity(l, config) :
         call' = [call EXCEPT ![l] = [pc |-> "in", stdin |-> stdin, stdout |-> stdout,
                                      requested |-> config.child_identity,
                                      identity |-> identity, result |-> "none"]]
    BY DEF Start
<1>2. /\ call[l].pc = "idle" /\ UNCHANGED <<handles, inheritable, child, audit>>
      /\ LaunchTypeOK /\ HandleInv /\ ResultOf(l) /\ child[l].holds \subseteq ChildEnds(l)
    BY DEF Start, LaunchIndInv, ResultInv, ChildHoldsItsOwn
<1>3. LaunchTypeOK'
  <2>1. config.child_identity \in Identities
    BY DEF Config
  <2> QED
    BY <1>1, <1>2, <2>1, ResolvedIdentity DEF LaunchTypeOK, Calls
<1>4. call'[l] = [pc |-> "in", stdin |-> stdin, stdout |-> stdout,
                  requested |-> config.child_identity,
                  identity |-> identity, result |-> "none"]
    BY <1>1, <1>2 DEF LaunchTypeOK
<1>5. child[l].state = "none"
    BY <1>2 DEF ResultOf
<1>6. ResultOf(l)' /\ IdentityOf(l)'
    BY <1>2, <1>4, <1>5, ResolvedIdentity DEF ResultOf, IdentityOf
<1>7. Held(l)' = {} /\ Held(l) = {}
    BY <1>2, <1>4 DEF Held
<1> QED
    BY <1>1, <1>2, <1>3, <1>6, <1>7, OneLaunch DEF HandleInv, LaunchTypeOK

\* An error at any step closes all handles of the attempt; the attempt with the
\* server's identity that follows one with a token has a reason.
LEMMA FailInd ==
    ASSUME LaunchIndInv, NEW l \in Launches, call[l].pc \notin {"idle", "done", "dropped"},
           Fail(l), UNCHANGED <<child, audit>>
    PROVE  LaunchIndInv'
<1>1. LaunchTypeOK /\ HandleInv /\ ResultOf(l) /\ IdentityOf(l)
    BY DEF LaunchIndInv, ResultInv, IdentityInv
<1>2. \/ /\ call' = [call EXCEPT ![l].pc = "in", ![l].identity = CurrentProcess(TRUE)]
         /\ call'[l].pc = "in" /\ call'[l].result = "none"
         /\ call'[l].identity = CurrentProcess(TRUE)
      \/ /\ call' = [call EXCEPT ![l].pc = "done", ![l].result = "err"]
         /\ call'[l].pc = "done" /\ call'[l].result = "err"
         /\ call'[l].identity = call[l].identity /\ call'[l].requested = call[l].requested
    BY <1>1 DEF Fail, LaunchTypeOK, Calls, ResultOf
<1>3. LaunchTypeOK'
  <2>1. CurrentProcess(TRUE) \in Audits
    BY DEF Audits, CurrentProcess, Identity, Identities
  <2>2. handles' \subseteq handles /\ inheritable' \subseteq handles'
    BY DEF Fail
  <2>3. call'[l] \in Calls
    <3>1. \/ call'[l] = [call[l] EXCEPT !.pc = "in", !.identity = CurrentProcess(TRUE)]
          \/ call'[l] = [call[l] EXCEPT !.pc = "done", !.result = "err"]
      BY <1>1, <1>2 DEF LaunchTypeOK
    <3>2. call[l] \in Calls
      BY <1>1 DEF LaunchTypeOK
    <3> QED
      BY <2>1, <3>1, <3>2 DEF Calls
  <2>4. call' \in [Launches -> Calls]
    BY <1>1, <1>2, <2>3 DEF LaunchTypeOK
  <2> QED
    BY <1>1, <2>2, <2>4 DEF LaunchTypeOK
<1>4. \A m \in Launches \ {l} : call'[m] = call[m]
    BY <1>1, <1>2 DEF LaunchTypeOK
<1>5. \A m \in Launches, e \in Ends :
         Handle(m, e) \in handles' <=> Handle(m, e) \in handles /\ m # l
    BY HandleFacts DEF Fail
<1>6. Held(l)' = {}
    BY <1>2 DEF Held
<1>7. child[l].state = "none" /\ child'[l] = child[l] /\ ResultOf(l)'
    BY <1>1, <1>2 DEF ResultOf
<1>8. IdentityOf(l)'
    BY <1>1, <1>2, <1>7 DEF IdentityOf, CurrentProcess, Identity
<1>9. child'[l].holds \subseteq ChildEnds(l)
    BY DEF LaunchIndInv, ChildHoldsItsOwn
<1> QED
    BY <1>3, <1>4, <1>5, <1>6, <1>7, <1>8, <1>9, OneLaunch

\* A step that only moves the program counter of a launch.
LEMMA GotoFacts ==
    ASSUME LaunchTypeOK, NEW l \in Launches,
           NEW label \in {"in", "protect_in", "out", "protect_out", "err", "create",
                          "done", "dropped"},
           Goto(l, label)
    PROVE  /\ call' \in [Launches -> Calls]
           /\ call'[l].pc = label
           /\ call'[l].stdin = call[l].stdin /\ call'[l].stdout = call[l].stdout
           /\ call'[l].requested = call[l].requested
           /\ call'[l].identity = call[l].identity
           /\ call'[l].result = call[l].result
           /\ \A m \in Launches \ {l} : call'[m] = call[m]
<1>1. call[l] \in Calls
    BY DEF LaunchTypeOK
<1>2. [call[l] EXCEPT !.pc = label] \in Calls
    BY <1>1 DEF Calls
<1>3. call'[l] = [call[l] EXCEPT !.pc = label]
    BY DEF LaunchTypeOK, Goto
<1>4. call' \in [Launches -> Calls] /\ \A m \in Launches \ {l} : call'[m] = call[m]
    BY <1>2 DEF LaunchTypeOK, Goto
<1> QED
    BY <1>1, <1>3, <1>4 DEF Calls

Opened(l, ends) == {Handle(l, e) : e \in ends}

\* A step of the preparation that opens and protects the right handles.
LEMMA PrepareInd ==
    ASSUME LaunchIndInv, NEW l \in Launches, call[l].pc \notin {"done", "dropped"},
           NEW label \in {"protect_in", "out", "protect_out", "err", "create"},
           Goto(l, label), UNCHANGED <<child, audit>>,
           NEW opened \in SUBSET Ends,
           handles' = handles \cup Opened(l, opened),
           inheritable' \subseteq handles',
           Held(l)' = Held(l) \cup opened
    PROVE  LaunchIndInv'
<1>1. LaunchTypeOK /\ HandleInv /\ ResultOf(l) /\ IdentityOf(l)
    BY DEF LaunchIndInv, ResultInv, IdentityInv
<1>2. /\ call' \in [Launches -> Calls]
      /\ \A m \in Launches \ {l} : call'[m] = call[m]
    BY <1>1, GotoFacts
<1>3. LaunchTypeOK'
  <2>1. handles' \subseteq Launches \X Ends
    BY <1>1 DEF LaunchTypeOK, Handle, Opened
  <2> QED
    BY <1>1, <1>2, <2>1 DEF LaunchTypeOK
<1>4. /\ call'[l].pc = label /\ call'[l].result = call[l].result
      /\ call'[l].identity = call[l].identity /\ call'[l].requested = call[l].requested
    BY <1>1, GotoFacts
<1>5. ResultOf(l)' /\ IdentityOf(l)'
    BY <1>1, <1>4 DEF ResultOf, IdentityOf
<1>6. \A m \in Launches, e \in Ends :
         Handle(m, e) \in handles' <=> Handle(m, e) \in handles \/ (m = l /\ e \in opened)
    BY HandleFacts DEF Opened
<1>7. \A e \in Ends : Handle(l, e) \in handles' <=> e \in Held(l)'
    BY <1>1, <1>6 DEF HandleInv
<1>8. child'[l].holds \subseteq ChildEnds(l)
    BY DEF LaunchIndInv, ChildHoldsItsOwn
<1> QED
    BY <1>2, <1>3, <1>5, <1>6, <1>7, <1>8, OneLaunch

\* PreparedStdio, handle by handle, and set_handle_not_inheritable.
LEMMA StdioInd ==
    ASSUME LaunchIndInv, NEW l \in Launches,
           PrepareInput(l) \/ PrepareOutput(l) \/ PrepareError(l) \/ Protect(l)
    PROVE  LaunchIndInv'
<1>0. LaunchTypeOK /\ call[l] \in Calls
    BY DEF LaunchIndInv, LaunchTypeOK
<1>f. CASE Fail(l) /\ UNCHANGED <<child, audit>>
  <2>1. call[l].pc \notin {"idle", "done", "dropped"}
    BY DEF PrepareInput, PrepareOutput, PrepareError, Protect
  <2> QED
    BY <1>f, <2>1, FailInd
<1> DEFINE Opens(end, other, label) ==
        /\ handles' = handles \cup {Handle(l, end), Handle(l, other)}
        /\ inheritable' \subseteq inheritable \cup {Handle(l, end), Handle(l, other)}
        /\ Goto(l, label) /\ UNCHANGED <<child, audit>>
<1>o. ASSUME NEW end \in Ends, NEW other \in Ends, call[l].pc \notin {"done", "dropped"},
             NEW label \in {"protect_in", "out", "protect_out", "err", "create"},
             Opens(end, other, label), Held(l)' = Held(l) \cup {end, other}
      PROVE  LaunchIndInv'
  <2>1. handles' = handles \cup Opened(l, {end, other})
    BY <1>o DEF Opened
  <2>2. inheritable' \subseteq handles'
    BY <1>0, <1>o DEF LaunchTypeOK
  <2> HIDE DEF Opens
  <2>3. Goto(l, label) /\ UNCHANGED <<child, audit>>
    BY <1>o DEF Opens
  <2> DEFINE opened == {end, other}
  <2>4. opened \in SUBSET Ends
    OBVIOUS
  <2>5. handles' = handles \cup Opened(l, opened) /\ Held(l)' = Held(l) \cup opened
    BY <1>o, <2>1
  <2>6. call[l].pc \notin {"done", "dropped"}
    BY <1>o
  <2> HIDE DEF opened
  <2> QED
    BY <2>2, <2>3, <2>4, <2>5, <2>6, PrepareInd
<1>1. CASE PrepareInput(l)
  <2>1. CASE call[l].stdin = "Piped" /\ Opens("in", "pipe_in", "protect_in")
    <3>1. Held(l)' = Held(l) \cup {"in", "pipe_in"}
      BY <1>0, <1>1, <2>1, GotoFacts DEF PrepareInput, Held
    <3> QED
      BY <1>1, <1>o, <2>1, <3>1 DEF PrepareInput, Ends
  <2>2. CASE call[l].stdin = "Null" /\ Opens("in", "file_in", "out")
    <3>1. Held(l)' = Held(l) \cup {"in", "file_in"}
      BY <1>0, <1>1, <2>2, GotoFacts DEF PrepareInput, Held
    <3> QED
      BY <1>1, <1>o, <2>2, <3>1 DEF PrepareInput, Ends
  <2> QED
    BY <1>1, <1>f, <2>1, <2>2 DEF PrepareInput, OpenPipe, OpenFile
<1>2. CASE PrepareOutput(l)
  <2>1. CASE call[l].stdout = "Piped" /\ Opens("out", "pipe_out", "protect_out")
    <3>1. Held(l)' = Held(l) \cup {"out", "pipe_out"}
      BY <1>0, <1>2, <2>1, GotoFacts DEF PrepareOutput, Held
    <3> QED
      BY <1>2, <1>o, <2>1, <3>1 DEF PrepareOutput, Ends
  <2>2. CASE call[l].stdout = "Null" /\ Opens("out", "file_out", "err")
    <3>1. Held(l)' = Held(l) \cup {"out", "file_out"}
      BY <1>0, <1>2, <2>2, GotoFacts DEF PrepareOutput, Held
    <3> QED
      BY <1>2, <1>o, <2>2, <3>1 DEF PrepareOutput, Ends
  <2> QED
    BY <1>2, <1>f, <2>1, <2>2 DEF PrepareOutput, OpenPipe, OpenFile
<1>3. CASE PrepareError(l)
  <2>1. CASE Opens("err", "file_err", "create")
    <3>1. Held(l)' = Held(l) \cup {"err", "file_err"}
      BY <1>0, <1>3, <2>1, GotoFacts DEF PrepareError, Held
    <3> QED
      BY <1>3, <1>o, <2>1, <3>1 DEF PrepareError, Ends
  <2> QED
    BY <1>3, <1>f, <2>1 DEF PrepareError, OpenFile
<1>4. CASE Protect(l)
  <2>1. CASE /\ inheritable' = inheritable \ ServerEnds(l) /\ UNCHANGED <<handles, child, audit>>
             /\ Goto(l, IF call[l].pc = "protect_in" THEN "out" ELSE "err")
    <3>1. PICK label \in {"out", "err"} :
             /\ Goto(l, label)
             /\ call[l].pc = "protect_in" <=> label = "out"
      BY <2>1
    <3>2. Held(l)' = Held(l) \cup {}
      BY <1>0, <1>4, <3>1, GotoFacts DEF Protect, Held
    <3>3. handles' = handles \cup Opened(l, {}) /\ inheritable' \subseteq handles'
      BY <1>0, <2>1 DEF LaunchTypeOK, Opened
    <3> QED
      BY <1>4, <2>1, <3>1, <3>2, <3>3, PrepareInd DEF Protect
  <2> QED
    BY <1>4, <1>f, <2>1 DEF Protect
<1> QED
    BY <1>1, <1>2, <1>3, <1>4

\* CreateProcess: the child gets its three ends, the server closes them and
\* keeps its own, and the audit is the identity of this attempt.
LEMMA CreateInd ==
    ASSUME LaunchIndInv, NEW l \in Launches, CreateProcess(l)
    PROVE  LaunchIndInv'
<1>0. /\ LaunchTypeOK /\ HandleInv /\ ResultOf(l) /\ IdentityOf(l)
      /\ call[l] \in Calls /\ call[l].pc = "create"
    BY DEF LaunchIndInv, LaunchTypeOK, ResultInv, IdentityInv, CreateProcess
<1>1. CASE Fail(l) /\ UNCHANGED <<child, audit>>
    BY <1>0, <1>1, FailInd
<1>2. CASE /\ child' = [child EXCEPT ![l] = [state |-> Alive, holds |-> Inherit(l)]]
           /\ audit' = [audit EXCEPT ![l] = call[l].identity]
           /\ handles' = Keep(l)
           /\ inheritable' = inheritable \cap handles'
           /\ call' = [call EXCEPT ![l].pc = "done", ![l].result = "ok"]
  <2>1. call'[l] = [call[l] EXCEPT !.pc = "done", !.result = "ok"]
    BY <1>0, <1>2 DEF LaunchTypeOK
  <2>2. /\ call'[l].pc = "done" /\ call'[l].result = "ok"
        /\ call'[l].stdin = call[l].stdin /\ call'[l].stdout = call[l].stdout
        /\ call'[l].requested = call[l].requested
        /\ call'[l].identity = call[l].identity
    BY <1>0, <2>1 DEF Calls
  <2>3. call'[l] \in Calls
    BY <1>0, <2>1 DEF Calls
  <2>4. child'[l].state = Alive /\ child'[l].holds = Inherit(l) /\ audit'[l] = call[l].identity
    BY <1>0, <1>2 DEF LaunchTypeOK
  <2>5. Inherit(l) \subseteq ChildEnds(l)
    BY DEF Inherit
  <2>6. LaunchTypeOK'
    <3>1. call' \in [Launches -> Calls]
      BY <1>0, <1>2, <2>3 DEF LaunchTypeOK
    <3>2. audit' \in [Launches -> Audits]
      BY <1>0, <1>2 DEF LaunchTypeOK, Calls
    <3>3. handles' \subseteq Launches \X Ends /\ inheritable' \subseteq handles'
      BY <1>0, <1>2 DEF LaunchTypeOK, Keep, Handle, Ends
    <3>4. Inherit(l) \in SUBSET (Launches \X Ends)
      BY DEF Inherit, ChildEnds, Handle, Ends
    <3>5. child' \in [Launches -> [state : {"none", Alive, "exited"},
                                    holds : SUBSET (Launches \X Ends)]]
      BY <1>0, <1>2, <3>4 DEF LaunchTypeOK
    <3> QED
      BY <3>1, <3>2, <3>3, <3>5 DEF LaunchTypeOK
  <2>7. ResultOf(l)' /\ IdentityOf(l)'
    BY <1>0, <2>2, <2>4 DEF ResultOf, IdentityOf, Alive
  <2>8. \A m \in Launches \ {l} :
           /\ call'[m] = call[m] /\ child'[m] = child[m] /\ audit'[m] = audit[m]
           /\ \A e \in Ends : Handle(m, e) \in handles' <=> Handle(m, e) \in handles
    BY <1>0, <1>2, HandleFacts DEF LaunchTypeOK, Keep
  <2>9. \A e \in Ends :
           Handle(l, e) \in handles' <=>
              \/ e \in {"process", "thread"}
              \/ e \in {"pipe_in", "pipe_out"} /\ Handle(l, e) \in handles
    BY <1>2, HandleFacts DEF Keep, ServerEnds
  <2>10. \A e \in {"pipe_in", "pipe_out"} : e \in Ends /\ (e \in Held(l) <=> e \in Held(l)')
    BY <1>0, <2>2 DEF Held, Ends
  <2>11. \A e \in Held(l)' : e \in {"process", "thread", "pipe_in", "pipe_out"}
    BY <2>2 DEF Held
  <2>12. {"process", "thread"} \subseteq Held(l)'
    BY <2>2 DEF Held
  <2>13. \A e \in Ends : Handle(l, e) \in handles' <=> e \in Held(l)'
    BY <1>0, <2>9, <2>10, <2>11, <2>12 DEF HandleInv
  <2> QED
    BY <2>4, <2>5, <2>6, <2>7, <2>8, <2>13, OneLaunch
<1> QED
    BY <1>1, <1>2 DEF CreateProcess

\* A process that exits takes its handles with it.
LEMMA ChildExitInd ==
    ASSUME LaunchIndInv, NEW l \in Launches, ChildExits(l)
    PROVE  LaunchIndInv'
<1>0. LaunchTypeOK /\ HandleInv /\ ResultOf(l) /\ IdentityOf(l)
    BY DEF LaunchIndInv, ResultInv, IdentityInv
<1>1. /\ child[l].state = Alive
      /\ child'[l] = [child[l] EXCEPT !.state = "exited", !.holds = {}]
      /\ UNCHANGED <<call, handles, inheritable, audit>>
    BY <1>0 DEF ChildExits, LaunchTypeOK
<1>2. child'[l].state = "exited" /\ child'[l].holds = {}
    BY <1>0, <1>1 DEF LaunchTypeOK
<1>3. LaunchTypeOK'
  <2>1. child'[l] \in [state : {"none", Alive, "exited"}, holds : SUBSET (Launches \X Ends)]
    <3>1. child[l] \in [state : {"none", Alive, "exited"}, holds : SUBSET (Launches \X Ends)]
      BY <1>0 DEF LaunchTypeOK
    <3>2. child'[l] = [state |-> "exited", holds |-> {}]
      BY <1>1, <3>1
    <3> QED
      BY <3>2
  <2>2. child' \in [Launches -> [state : {"none", Alive, "exited"},
                                 holds : SUBSET (Launches \X Ends)]]
    BY <1>0, <2>1 DEF ChildExits, LaunchTypeOK
  <2> QED
    BY <1>0, <1>1, <2>2 DEF LaunchTypeOK
<1>4. ResultOf(l)' /\ IdentityOf(l)'
    BY <1>0, <1>1, <1>2 DEF ResultOf, IdentityOf, Alive
<1>5. \A m \in Launches \ {l} : child'[m] = child[m]
    BY <1>0 DEF ChildExits, LaunchTypeOK
<1>6. Held(l)' = Held(l)
    BY <1>1 DEF Held
<1> QED
    BY <1>0, <1>1, <1>2, <1>3, <1>4, <1>5, <1>6, OneLaunch DEF HandleInv

\* The ManagedChild is dropped with everything the server held of it.
LEMMA DropInd ==
    ASSUME LaunchIndInv, NEW l \in Launches, DropChild(l)
    PROVE  LaunchIndInv'
<1>0. LaunchTypeOK /\ ResultOf(l) /\ IdentityOf(l) /\ child[l].holds \subseteq ChildEnds(l)
    BY DEF LaunchIndInv, ResultInv, IdentityInv, ChildHoldsItsOwn
<1>1. /\ call[l].pc = "done" /\ call[l].result = "ok" /\ Goto(l, "dropped")
      /\ handles' \subseteq handles /\ inheritable' \subseteq handles'
      /\ UNCHANGED <<child, audit>>
    BY DEF DropChild
<1>2. LaunchTypeOK'
    BY <1>0, <1>1, GotoFacts DEF LaunchTypeOK
<1>3. ResultOf(l)' /\ IdentityOf(l)'
    BY <1>0, <1>1, GotoFacts DEF ResultOf, IdentityOf
<1>4. \A m \in Launches, e \in Ends :
         Handle(m, e) \in handles' <=> Handle(m, e) \in handles /\ m # l
    BY HandleFacts DEF DropChild
<1>5. Held(l)' = {}
    BY <1>0, <1>1, GotoFacts DEF Held
<1>6. \A m \in Launches \ {l} : call'[m] = call[m]
    BY <1>0, <1>1, GotoFacts
<1> QED
    BY <1>0, <1>1, <1>2, <1>3, <1>4, <1>5, <1>6, OneLaunch

\* Every step of every launch keeps the invariant.
LEMMA LaunchNextInd == LaunchIndInv /\ [LaunchNext]_launchVars => LaunchIndInv'
<1> SUFFICES ASSUME LaunchIndInv, [LaunchNext]_launchVars PROVE LaunchIndInv'
    OBVIOUS
<1>1. ASSUME NEW l \in Launches, Step(l) PROVE LaunchIndInv'
    BY <1>1, StdioInd, CreateInd DEF Step
<1>2. CASE UNCHANGED launchVars
  <2>1. UNCHANGED <<call, handles, inheritable, child, audit>>
    BY <1>2 DEF launchVars
  <2>2. LaunchTypeOK' /\ ChildHoldsItsOwn'
    BY <2>1 DEF LaunchIndInv, LaunchTypeOK, ChildHoldsItsOwn, ChildEnds
  <2>3. HandleInv' /\ ResultInv' /\ IdentityInv'
    BY <2>1 DEF LaunchIndInv, HandleInv, Held, ResultInv, ResultOf, IdentityInv, IdentityOf
  <2> QED
    BY <2>2, <2>3 DEF LaunchIndInv
<1> QED
    BY <1>1, <1>2, StartInd, ChildExitInd, DropInd DEF LaunchNext

-----------------------------------------------------------------------------

\* The inductive invariant holds in every reachable state.
THEOREM LaunchInvariance == LaunchSpec => []LaunchIndInv
    BY LaunchInitInd, LaunchNextInd, PTL DEF LaunchSpec

\* What the inductive invariant says of handles that are left over.
LEMMA LaunchIndSuffices == LaunchIndInv => LaunchInv
<1> SUFFICES ASSUME LaunchIndInv PROVE LaunchInv
    OBVIOUS
<1>0. LaunchTypeOK /\ HandleInv /\ ResultInv /\ IdentityInv /\ ChildHoldsItsOwn
    BY DEF LaunchIndInv
<1>1. PipesEndWithChild
  <2> SUFFICES ASSUME NEW l \in Launches, child[l].state = "exited"
               PROVE  /\ ChildEnds(l) \cap handles = {}
                      /\ \A m \in Launches : ChildEnds(l) \cap child[m].holds = {}
    BY DEF PipesEndWithChild
  <2>1. call[l].result = "ok" /\ call[l].pc \in {"done", "dropped"} /\ child[l].holds = {}
    BY <1>0 DEF ResultInv, ResultOf
  <2>2. \A e \in {"in", "out", "err"} : e \in Ends /\ e \notin Held(l)
    BY <2>1 DEF Held, Ends
  <2>3. ChildEnds(l) \cap handles = {}
    BY <1>0, <2>2 DEF HandleInv, ChildEnds
  <2>4. ASSUME NEW m \in Launches PROVE ChildEnds(l) \cap child[m].holds = {}
    BY <1>0, <2>1, HandleFacts DEF ChildHoldsItsOwn, ChildEnds
  <2> QED
    BY <2>3, <2>4
<1>2. NoHandleLeaks
  <2> SUFFICES ASSUME NEW l \in Launches
               PROVE  /\ call[l].pc \in {"idle", "dropped"} \/ call[l].result = "err" =>
                            HandlesOf(l) = {}
                      /\ call[l].pc = "done" /\ call[l].result = "ok" =>
                            HandlesOf(l) =
                              {Handle(l, "process"), Handle(l, "thread")}
                                \cup (IF call[l].stdin = "Piped"
                                        THEN {Handle(l, "pipe_in")} ELSE {})
                                \cup (IF call[l].stdout = "Piped"
                                        THEN {Handle(l, "pipe_out")} ELSE {})
    BY DEF NoHandleLeaks
  <2>1. HandlesOf(l) = Opened(l, Held(l))
    BY <1>0, HeldIsAll DEF Opened
  <2>2. CASE call[l].pc \in {"idle", "dropped"} \/ call[l].result = "err"
    <3>1. call[l].pc \in {"idle", "done", "dropped"} /\ ~(call[l].pc = "done" /\ call[l].result = "ok")
      BY <1>0, <2>2 DEF ResultInv, ResultOf
    <3>2. Held(l) = {}
      BY <3>1 DEF Held
    <3> QED
      BY <2>1, <2>2, <3>1, <3>2 DEF Opened
  <2>3. CASE call[l].pc = "done" /\ call[l].result = "ok"
    <3>1. Held(l) = {"process", "thread"}
                      \cup (IF call[l].stdin = "Piped" THEN {"pipe_in"} ELSE {})
                      \cup (IF call[l].stdout = "Piped" THEN {"pipe_out"} ELSE {})
      BY <2>3 DEF Held
    <3> QED
      BY <2>1, <2>3, <3>1 DEF Opened
  <2> QED
    BY <2>2, <2>3
<1>3. FallbackIsTold
    BY <1>0 DEF FallbackIsTold, IdentityInv, IdentityOf
<1> QED
    BY <1>0, <1>1, <1>2, <1>3 DEF LaunchInv

\* spawn_process, whatever fails at whichever attempt and whatever else is
\* launched meanwhile: every handle is with its child, with the server as long
\* as it manages the child, or closed, no child holds the end of another one's
\* pipe, and the audit tells who the child runs as.
THEOREM LaunchCorrect == LaunchSpec => []LaunchInv
    BY LaunchIndSuffices, LaunchInvariance, PTL
=============================================================================
