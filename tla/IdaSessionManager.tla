------------------------- MODULE IdaSessionManager --------------------------
(***************************************************************************)
(* The IDA session manager (crates/dbgflow-reverse/src/ida/manager.rs):    *)
(* create_session under the create lock, close_session and tool calls      *)
(* under the operation lock of the session, and the health refresh, which  *)
(* takes neither: it reads the session, asks the supervisor what databases *)
(* are open, and writes the session later.                                 *)
(*                                                                         *)
(* The supervisor is seen through the IdaSupervisor trait.  A database is  *)
(* named after the session it was opened for (preferred_session_id); for a *)
(* file that is open already, idb_open returns the existing database.      *)
(***************************************************************************)
EXTENDS Naturals

CONSTANTS
    Sessions,          \* reverse session ids, one used up by every create
    Targets,           \* validated targets
    Clients,           \* threads that serve MCP calls
    NoClient, NoTarget, NoDb, NoSession,
    Frail              \* sessions whose output artifacts may fail to be written

ASSUME ConstantsAssumption ==
    /\ NoClient \notin Clients
    /\ NoTarget \notin Targets
    /\ NoDb \notin Sessions
    /\ NoSession \notin Sessions
    /\ Frail \subseteq Sessions

VARIABLES
    state, target, dbid,   \* ReverseSession: state, target, database_id
    bound,                 \* database_ids
    createLock, opLock,    \* holders of create_lock and operation_locks
    listed,                \* databases open in the supervisor
    pc, ses,               \* of a client: where it is, its session,
    tgt, ret, want,        \*   its target, what follows a refresh, its database,
    prev, save,            \*   close: previous_state, the save flag
    dirty,                 \* sessions with changes since their last idb_save
    restored, closed       \* sessions a failed close re-opened, or that closed

sessionVars == <<state, target, dbid, bound>>
lockVars == <<createLock, opLock>>
clientVars == <<pc, ses, tgt, ret, want, prev, save>>
historyVars == <<dirty, restored, closed>>
vars == <<sessionVars, lockVars, listed, clientVars, historyVars>>

ReverseSessionState == {"Starting", "Ready", "Closing", "Closed", "Error"}
is_reusable(st) == st \in {"Starting", "Ready"}
is_terminal(st) == st \in {"Closed", "Error"}

RefreshPC == {"refresh", "refresh_list", "refresh_gone"}
AfterRefresh == {"get_done", "create_done", "close_check", "close_mark", "tool_check"}
PC == {"idle", "create_insert", "open_lock", "open", "open_bind", "open_ready",
       "open_fail", "save", "close_restore", "close_unbind", "close_finish",
       "tool"} \cup RefreshPC \cup AfterRefresh

\* Where a caller has a database id, a String and no Option, in its hands.
HasDatabase == {"open_bind", "open_ready", "refresh_list", "refresh_gone"}

\* The shape of the session table, the locks and the callers.
TypeOK ==
    /\ state \in [Sessions -> ReverseSessionState \cup {"Absent"}]
    /\ target \in [Sessions -> Targets \cup {NoTarget}]
    /\ dbid \in [Sessions -> Sessions \cup {NoDb}]
    /\ bound \in [Sessions -> Sessions \cup {NoDb}]
    /\ createLock \in Clients \cup {NoClient}
    /\ opLock \in [Sessions -> Clients \cup {NoClient}]
    /\ listed \in SUBSET Sessions
    /\ pc \in [Clients -> PC]
    /\ ses \in [Clients -> Sessions \cup {NoSession}]
    /\ tgt \in [Clients -> Targets \cup {NoTarget}]
    /\ ret \in [Clients -> AfterRefresh]
    /\ want \in [Clients -> Sessions \cup {NoDb}]
    /\ prev \in [Clients -> ReverseSessionState \cup {"Absent"}]
    /\ save \in [Clients -> BOOLEAN]
    /\ dirty \in SUBSET Sessions
    /\ restored \in SUBSET Sessions
    /\ closed \in SUBSET Sessions
    /\ \A c \in Clients :
          /\ pc[c] \notin {"idle", "create_insert"} => ses[c] \in Sessions
          /\ pc[c] \in HasDatabase => want[c] \in Sessions

Init ==
    /\ state = [s \in Sessions |-> "Absent"]
    /\ target = [s \in Sessions |-> NoTarget]
    /\ dbid = [s \in Sessions |-> NoDb]
    /\ bound = [s \in Sessions |-> NoDb]
    /\ createLock = NoClient
    /\ opLock = [s \in Sessions |-> NoClient]
    /\ listed = {}
    /\ pc = [c \in Clients |-> "idle"]
    /\ ses = [c \in Clients |-> NoSession]
    /\ tgt = [c \in Clients |-> NoTarget]
    /\ ret = [c \in Clients |-> "get_done"]
    /\ want = [c \in Clients |-> NoDb]
    /\ prev = [c \in Clients |-> "Absent"]
    /\ save = [c \in Clients |-> FALSE]
    /\ dirty = {} /\ restored = {} /\ closed = {}

-----------------------------------------------------------------------------
(* Pieces *)

Goto(c, label) ==
    /\ pc' = [pc EXCEPT ![c] = label]
    /\ UNCHANGED <<ses, tgt, ret, want, prev, save>>

\* A call of get_session inside of an operation: what follows it.
Refresh(c, label) ==
    /\ pc' = [pc EXCEPT ![c] = "refresh"]
    /\ ret' = [ret EXCEPT ![c] = label]
    /\ UNCHANGED <<ses, tgt, want, save>>

Return(c) ==
    /\ pc' = [pc EXCEPT ![c] = "idle"]
    /\ ses' = [ses EXCEPT ![c] = NoSession]
    /\ tgt' = [tgt EXCEPT ![c] = NoTarget]
    /\ ret' = [ret EXCEPT ![c] = "get_done"]
    /\ want' = [want EXCEPT ![c] = NoDb]
    /\ prev' = [prev EXCEPT ![c] = "Absent"]
    /\ save' = [save EXCEPT ![c] = FALSE]

\* The operation guard is dropped.
\* (Mutant: it is not.)
keep_operation_lock(s) == UNCHANGED opLock
unlock_operation(s) == opLock' = [opLock EXCEPT ![s] = NoClient]

\* (Mutant: the operation lock is not exclusive.)
lock_operation_shared(c, s) == opLock' = [opLock EXCEPT ![s] = c]
lock_operation(c, s) ==
    /\ opLock[s] = NoClient
    /\ opLock' = [opLock EXCEPT ![s] = c]

-----------------------------------------------------------------------------
(* create_session *)

reusable_session_for_target(t) ==
    {s \in Sessions : target[s] = t /\ is_reusable(state[s])}

\* The lookup.  A reusable session is returned as it is: not a step.
\* (Mutant: without the create lock.)
LookupUnlocked(c, t) ==
    /\ pc[c] = "idle"
    /\ reusable_session_for_target(t) = {}
    /\ pc' = [pc EXCEPT ![c] = "create_insert"]
    /\ tgt' = [tgt EXCEPT ![c] = t]
    /\ UNCHANGED <<sessionVars, createLock, opLock, listed, ses, ret, want,
                   prev, save, historyVars>>
CreateLookup(c, t) ==
    /\ pc[c] = "idle"
    /\ createLock = NoClient
    /\ reusable_session_for_target(t) = {}
    /\ createLock' = c
    /\ pc' = [pc EXCEPT ![c] = "create_insert"]
    /\ tgt' = [tgt EXCEPT ![c] = t]
    /\ UNCHANGED <<sessionVars, opLock, listed, ses, ret, want, prev, save,
                   historyVars>>

\* initialize_session_audit, which may fail, and insert_session.  Bound: the
\* supply of session ids.
CreateInsert(c) ==
    /\ pc[c] = "create_insert"
    /\ \/ \E s \in Sessions :
             /\ state[s] = "Absent"
             /\ state' = [state EXCEPT ![s] = "Starting"]
             /\ target' = [target EXCEPT ![s] = tgt[c]]
             /\ ses' = [ses EXCEPT ![c] = s]
             /\ pc' = [pc EXCEPT ![c] = "open_lock"]
             /\ UNCHANGED <<createLock, tgt, ret, want, prev, save>>
       \/ /\ Frail # {} \/ \A s \in Sessions : state[s] # "Absent"
          /\ createLock' = NoClient
          /\ Return(c)
          /\ UNCHANGED <<state, target>>
    /\ UNCHANGED <<dbid, bound, opLock, listed, historyVars>>

OpenLock(c) ==
    /\ pc[c] = "open_lock"
    /\ lock_operation(c, ses[c])
    /\ Goto(c, "open")
    /\ UNCHANGED <<sessionVars, createLock, listed, historyVars>>

\* supervisor.open_session: the database that is open for the file, or a new
\* one, or an error, after which the database may be open all the same.
Open(c) ==
    LET same == {r \in listed : target[r] = target[ses[c]]}
    IN  /\ pc[c] = "open"
        /\ \/ \E d \in IF same = {} THEN {ses[c]} ELSE same :
                 /\ listed' = listed \cup {d}
                 /\ \/ /\ want' = [want EXCEPT ![c] = d]
                       /\ pc' = [pc EXCEPT ![c] = "open_bind"]
                       /\ UNCHANGED <<ses, tgt, ret, prev, save>>
                    \/ Goto(c, "open_fail")
           \/ Goto(c, "open_fail") /\ UNCHANGED listed
        /\ UNCHANGED <<sessionVars, lockVars, historyVars>>

OpenBind(c) ==
    /\ pc[c] = "open_bind"
    /\ bound' = [bound EXCEPT ![ses[c]] = want[c]]
    /\ Goto(c, "open_ready")
    /\ UNCHANGED <<state, target, dbid, lockVars, listed, historyVars>>

OpenReady(c) ==
    /\ pc[c] = "open_ready"
    /\ state' = [state EXCEPT ![ses[c]] = "Ready"]
    /\ dbid' = [dbid EXCEPT ![ses[c]] = want[c]]
    /\ Refresh(c, "create_done")
    /\ UNCHANGED <<target, bound, lockVars, listed, prev, historyVars>>

OpenFail(c) ==
    /\ pc[c] = "open_fail"
    /\ state' = [state EXCEPT ![ses[c]] = "Error"]
    /\ createLock' = NoClient
    /\ unlock_operation(ses[c])
    /\ Return(c)
    /\ UNCHANGED <<target, dbid, bound, listed, historyVars>>

CreateDone(c) ==
    /\ pc[c] = "create_done"
    /\ createLock' = NoClient
    /\ unlock_operation(ses[c])
    /\ Return(c)
    /\ UNCHANGED <<sessionVars, listed, historyVars>>

-----------------------------------------------------------------------------
(* get_session and refresh_session_health *)

\* get_session, or list_sessions on its way through the ids.
GetSession(c, s) ==
    /\ pc[c] = "idle"
    /\ state[s] # "Absent"
    /\ pc' = [pc EXCEPT ![c] = "refresh"]
    /\ ses' = [ses EXCEPT ![c] = s]
    /\ UNCHANGED <<sessionVars, lockVars, listed, tgt, ret, want, prev, save,
                   historyVars>>

\* A terminal session, or one without a database, is left as it is.
RefreshRead(c) ==
    LET s == ses[c]
    IN  /\ pc[c] = "refresh"
        /\ IF is_terminal(state[s]) \/ dbid[s] = NoDb
           THEN Goto(c, ret[c])
           ELSE /\ pc' = [pc EXCEPT ![c] = "refresh_list"]
                /\ want' = [want EXCEPT ![c] = dbid[s]]
                /\ UNCHANGED <<ses, tgt, ret, prev, save>>
        /\ UNCHANGED <<sessionVars, lockVars, listed, historyVars>>

\* supervisor.list_sessions; if it lists the database or fails, only health
\* fields of the session are written.
\* (Mutant: a listed database makes the session Ready.)
RefreshListRevives(c) ==
    /\ pc[c] = "refresh_list"
    /\ \/ want[c] \notin listed /\ Goto(c, "refresh_gone") /\ UNCHANGED state
       \/ /\ want[c] \in listed
          /\ state' = [state EXCEPT ![ses[c]] = "Ready"]
          /\ Goto(c, ret[c])
    /\ UNCHANGED <<target, dbid, bound, lockVars, listed, historyVars>>
RefreshList(c) ==
    /\ pc[c] = "refresh_list"
    /\ \/ want[c] \notin listed /\ Goto(c, "refresh_gone")
       \/ Goto(c, ret[c])
    /\ UNCHANGED <<sessionVars, lockVars, listed, historyVars>>

RefreshGone(c) ==
    /\ pc[c] = "refresh_gone"
    /\ state' = [state EXCEPT ![ses[c]] = "Error"]
    /\ Goto(c, ret[c])
    /\ UNCHANGED <<target, dbid, bound, lockVars, listed, historyVars>>

GetDone(c) ==
    /\ pc[c] = "get_done"
    /\ Return(c)
    /\ UNCHANGED <<sessionVars, lockVars, listed, historyVars>>

-----------------------------------------------------------------------------
(* close_session_with_save *)

Close(c, s, sv) ==
    /\ pc[c] = "idle"
    /\ state[s] # "Absent"
    /\ lock_operation(c, s)
    /\ pc' = [pc EXCEPT ![c] = "refresh"]
    /\ ses' = [ses EXCEPT ![c] = s]
    /\ ret' = [ret EXCEPT ![c] = "close_check"]
    /\ save' = [save EXCEPT ![c] = sv]
    /\ UNCHANGED <<sessionVars, createLock, listed, tgt, want, prev, historyVars>>

\* SessionClosed, or "not bound to an upstream database", or on to Closing
\* through a second get_session in update_session_state.
\* (Mutant: the database id is taken out of the map here.)
CloseCheckTakes(c) ==
    LET s == ses[c]
    IN  /\ pc[c] = "close_check"
        /\ IF state[s] = "Closed" \/ bound[s] = NoDb
           THEN Return(c) /\ unlock_operation(s) /\ UNCHANGED bound
           ELSE /\ Refresh(c, "close_mark")
                /\ prev' = [prev EXCEPT ![c] = state[s]]
                /\ bound' = [bound EXCEPT ![s] = NoDb]
                /\ UNCHANGED opLock
        /\ UNCHANGED <<state, target, dbid, createLock, listed, historyVars>>
CloseCheck(c) ==
    LET s == ses[c]
    IN  /\ pc[c] = "close_check"
        /\ IF state[s] = "Closed" \/ bound[s] = NoDb
           THEN Return(c) /\ unlock_operation(s)
           ELSE /\ Refresh(c, "close_mark")
                /\ prev' = [prev EXCEPT ![c] = state[s]]
                /\ UNCHANGED opLock
        /\ UNCHANGED <<sessionVars, createLock, listed, historyVars>>

CloseMark(c) ==
    /\ pc[c] = "close_mark"
    /\ state' = [state EXCEPT ![ses[c]] = "Closing"]
    /\ Goto(c, IF save[c] THEN "save" ELSE "close_unbind")
    /\ UNCHANGED <<target, dbid, bound, lockVars, listed, historyVars>>

\* idb_save succeeds, fails, or its output cannot be written, which ends the
\* call at once.
Save(c) ==
    LET s == ses[c]
        written == /\ bound[s] \in listed
                   /\ dirty' = dirty \ {s}
    IN  /\ pc[c] = "save"
        /\ \/ written /\ Goto(c, "close_unbind") /\ UNCHANGED opLock
           \/ UNCHANGED dirty /\ Goto(c, "close_restore") /\ UNCHANGED opLock
           \/ /\ s \in Frail
              /\ written \/ UNCHANGED dirty
              /\ Return(c) /\ unlock_operation(s)
        /\ UNCHANGED <<sessionVars, createLock, listed, restored, closed>>

\* (Mutant: a failed save does not give the session back.)
CloseGiveUp(c) ==
    /\ pc[c] = "close_restore"
    /\ Return(c) /\ unlock_operation(ses[c])
    /\ UNCHANGED <<sessionVars, createLock, listed, historyVars>>
CloseRestore(c) ==
    LET s == ses[c]
    IN  /\ pc[c] = "close_restore"
        /\ state' = [state EXCEPT ![s] = prev[c]]
        /\ restored' = restored \cup {s}
        /\ Return(c) /\ unlock_operation(s)
        /\ UNCHANGED <<target, dbid, bound, createLock, listed, dirty, closed>>

CloseUnbind(c) ==
    /\ pc[c] = "close_unbind"
    /\ bound' = [bound EXCEPT ![ses[c]] = NoDb]
    /\ Goto(c, "close_finish")
    /\ UNCHANGED <<state, target, dbid, lockVars, listed, historyVars>>

\* The get_session that ends the call finds the session terminal.
CloseFinish(c) ==
    LET s == ses[c]
    IN  /\ pc[c] = "close_finish"
        /\ state' = [state EXCEPT ![s] = "Closed"]
        /\ dbid' = [dbid EXCEPT ![s] = NoDb]
        /\ closed' = closed \cup {s}
        /\ Return(c) /\ unlock_operation(s)
        /\ UNCHANGED <<target, bound, createLock, listed, dirty, restored>>

-----------------------------------------------------------------------------
(* call_upstream_tool *)

Tool(c, s) ==
    /\ pc[c] = "idle"
    /\ state[s] # "Absent"
    /\ lock_operation(c, s)
    /\ pc' = [pc EXCEPT ![c] = "refresh"]
    /\ ses' = [ses EXCEPT ![c] = s]
    /\ ret' = [ret EXCEPT ![c] = "tool_check"]
    /\ UNCHANGED <<sessionVars, createLock, listed, tgt, want, prev, save,
                   historyVars>>

\* ensure_ready and database_id.
ToolCheck(c) ==
    LET s == ses[c]
    IN  /\ pc[c] = "tool_check"
        /\ IF state[s] = "Ready" /\ bound[s] # NoDb
           THEN Goto(c, "tool") /\ UNCHANGED opLock
           ELSE Return(c) /\ unlock_operation(s)
        /\ UNCHANGED <<sessionVars, createLock, listed, historyVars>>

\* The tool runs and may change the database, or fails.
ToolCall(c) ==
    LET s == ses[c]
    IN  /\ pc[c] = "tool"
        /\ \/ bound[s] \in listed /\ dirty' = dirty \cup {s}
           \/ UNCHANGED dirty
        /\ Return(c) /\ unlock_operation(s)
        /\ UNCHANGED <<sessionVars, createLock, listed, restored, closed>>

\* Databases leave the supervisor: idle TTL, a worker or the whole
\* supervisor dies or is killed.
UpstreamLoses ==
    /\ \E gone \in SUBSET listed :
          gone # {} /\ listed' = listed \ gone
    /\ UNCHANGED <<sessionVars, lockVars, clientVars, historyVars>>

-----------------------------------------------------------------------------
(* The specification *)

ClientStep(c) ==
    \/ CreateInsert(c) \/ OpenLock(c) \/ Open(c) \/ OpenBind(c)
    \/ OpenReady(c) \/ OpenFail(c) \/ CreateDone(c)
    \/ RefreshRead(c) \/ RefreshList(c) \/ RefreshGone(c) \/ GetDone(c)
    \/ CloseCheck(c) \/ CloseMark(c) \/ Save(c) \/ CloseRestore(c)
    \/ CloseUnbind(c) \/ CloseFinish(c) \/ ToolCheck(c) \/ ToolCall(c)

Next ==
    \/ \E c \in Clients :
          \/ \E t \in Targets : CreateLookup(c, t)
          \/ \E s \in Sessions :
                \/ GetSession(c, s) \/ Tool(c, s)
                \/ \E sv \in BOOLEAN : Close(c, s, sv)
          \/ ClientStep(c)
    \/ UpstreamLoses

Spec == Init /\ [][Next]_vars

-----------------------------------------------------------------------------
(* Properties *)

\* Calls within a reverse session are serialized: open, save and tools of
\* one session are never with the supervisor at the same time.
SerialCalls ==
    \A c, d \in Clients :
        /\ pc[c] \in {"open", "save", "tool"} /\ pc[d] \in {"open", "save", "tool"}
        /\ ses[c] = ses[d]
        => c = d

\* A session that is offered as Ready is bound to the database it shows, in
\* spite of closes that are rolled back and refreshes that come late.
ReadyIsBound ==
    \A s \in Sessions :
        state[s] = "Ready" => bound[s] # NoDb /\ bound[s] = dbid[s]

\* A session that was closed never serves again: no refresh, retry or
\* rolled-back close brings it back to Starting, Ready or Closing.
ClosedNeverServes ==
    \A s \in closed : is_terminal(state[s]) /\ bound[s] = NoDb

\* A close that was asked to save detaches only if no tool call of the
\* session has run since the save.
DetachedIsSaved ==
    \A c \in Clients :
        pc[c] \in {"close_unbind", "close_finish"} /\ save[c] => ses[c] \notin dirty

\* Concurrent creates: a target has one reusable session, unless a failed
\* close re-opened one.
OneReusablePerTarget ==
    \A s, r \in Sessions :
        /\ s # r /\ target[s] = target[r]
        /\ is_reusable(state[s]) /\ is_reusable(state[r])
        => s \in restored \/ r \in restored

\* A session that shows Closing is being closed, if its outputs can be
\* written: no failed save, late refresh or second close leaves it behind.
Unowned(s) ==
    state[s] = "Closing" /\ \A c \in Clients : ses[c] = s => ret[c] # "close_mark"
ClosingHasCloser == \A s \in Sessions \ Frail : ~Unowned(s)

\* No error path leaks a lock, and nobody waits in a circle: a held lock
\* belongs to a call under way, and the holder of an operation lock waits
\* for no other lock.
LocksAreHeld ==
    /\ \A s \in Sessions : \A c \in Clients :
          opLock[s] = c =>
              ses[c] = s /\ pc[c] \notin {"idle", "create_insert", "open_lock"}
    /\ createLock # NoClient =>
          pc[createLock] # "idle" /\ ret[createLock] \in {"get_done", "create_done"}
=============================================================================
