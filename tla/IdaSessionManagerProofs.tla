---------------------- MODULE IdaSessionManagerProofs -----------------------
(* IDA sessions: serial calls, no session Ready without its database, no     *)
(* way back from closed, nothing detached that was not saved.                *)
EXTENDS IdaSessionManager, TLAPS

\* A client that holds the operation lock of its session: from the lock to
\* the end of open, close and tool calls, their health refreshes included.
Owns(c) ==
    \/ pc[c] \in {"open", "open_bind", "open_ready", "open_fail", "create_done",
                  "close_check", "close_mark", "save", "close_restore",
                  "close_unbind", "close_finish", "tool_check", "tool"}
    \/ pc[c] \in RefreshPC /\ ret[c] # "get_done"

\* A client inside of create_session.
Creates(c) ==
    \/ pc[c] \in {"create_insert", "open_lock", "open", "open_bind",
                  "open_ready", "open_fail", "create_done"}
    \/ pc[c] \in RefreshPC /\ ret[c] = "create_done"

\* A client between database_id and the end of close_session.
Closes(c) ==
    \/ pc[c] \in {"close_mark", "save", "close_restore", "close_unbind",
                  "close_finish"}
    \/ pc[c] \in RefreshPC /\ ret[c] = "close_mark"

LockInv ==
    \A c \in Clients :
        /\ Owns(c) => opLock[ses[c]] = c
        /\ Creates(c) => createLock = c
        /\ pc[c] = "idle" => ret[c] = "get_done"
        /\ Closes(c) <=> ret[c] = "close_mark"

\* Before OpenReady a session is Starting and has no database; one whose
\* health is being refreshed is past that.
OpenInv ==
    \A c \in Clients :
        /\ pc[c] \in {"open_lock", "open", "open_bind", "open_fail"} =>
              bound[ses[c]] = NoDb
        /\ pc[c] \in {"open_lock", "open", "open_bind", "open_fail",
                      "open_ready"} =>
              state[ses[c]] = "Starting" /\ dbid[ses[c]] = NoDb
        /\ pc[c] = "open_ready" => bound[ses[c]] = want[c]
        /\ pc[c] \in {"refresh_list", "refresh_gone"} =>
              state[ses[c]] \notin {"Absent", "Starting"}

\* database_ids and the database_id of the session differ only while the
\* holder of the operation lock is between its two writes.
BoundInv ==
    \A s \in Sessions :
        /\ \/ bound[s] = dbid[s]
           \/ \E c \in Clients :
                 ses[c] = s /\ pc[c] \in {"open_ready", "close_finish"}
        /\ dbid[s] # NoDb => state[s] \in {"Ready", "Closing", "Error"}
        /\ state[s] = "Absent" => bound[s] = NoDb

\* While a session is being closed its database is known until it is
\* detached, and the state to go back to is one that had a database.
CloseInv ==
    \A c \in Clients :
        /\ Closes(c) =>
              /\ prev[c] \in {"Ready", "Closing", "Error"}
              /\ ses[c] \notin Frail => prev[c] # "Closing"
              /\ pc[c] # "close_finish" =>
                    bound[ses[c]] # NoDb /\ bound[ses[c]] = dbid[ses[c]]
        /\ pc[c] \in {"save", "close_restore", "close_unbind", "close_finish"} =>
              state[ses[c]] \in {"Closing", "Error"}
        /\ pc[c] = "close_finish" => bound[ses[c]] = NoDb

\* What create_session found out under the create lock stays true.
ReuseInv ==
    /\ OneReusablePerTarget
    /\ \A c \in Clients : pc[c] = "create_insert" =>
          \A s \in reusable_session_for_target(tgt[c]) : s \in restored

IndInv ==
    /\ TypeOK
    /\ LockInv
    /\ OpenInv
    /\ BoundInv
    /\ CloseInv
    /\ ReuseInv
    /\ ReadyIsBound
    /\ ClosedNeverServes
    /\ DetachedIsSaved
    /\ ClosingHasCloser

\* The lookup of create_session: the create lock is free, so nobody else is
\* between lookup and insert.
LEMMA CreateLookupInd ==
    ASSUME IndInv, NEW c \in Clients, NEW t \in Targets, CreateLookup(c, t)
    PROVE  IndInv'
<1> USE ConstantsAssumption DEF IndInv, CreateLookup, sessionVars,
        historyVars
<1>1. TypeOK'
    BY DEF TypeOK, PC, HasDatabase
<1>2. LockInv'
    BY DEF LockInv, Owns, Creates, Closes
<1>3. OpenInv'
    BY DEF OpenInv
<1>4. BoundInv'
    BY DEF BoundInv
<1>5. CloseInv'
    BY DEF RefreshPC, CloseInv, Closes
<1>6. ReuseInv'
    BY DEF TypeOK, ReuseInv, OneReusablePerTarget,
           reusable_session_for_target
<1>7. ReadyIsBound'
    BY DEF ReadyIsBound
<1>8. ClosedNeverServes'
    BY DEF ClosedNeverServes
<1>9. DetachedIsSaved'
    BY DEF DetachedIsSaved
<1>10. ClosingHasCloser'
    BY DEF ClosingHasCloser, Unowned
<1> QED
    BY <1>1, <1>2, <1>3, <1>4, <1>5, <1>6, <1>7, <1>8, <1>9, <1>10

\* insert_session under the create lock: the new session is the only one of
\* its target on offer.
LEMMA CreateInsertInd ==
    ASSUME IndInv, NEW c \in Clients, CreateInsert(c)
    PROVE  IndInv'
<1> USE ConstantsAssumption DEF IndInv, CreateInsert, Return, historyVars
<1>1. TypeOK'
  <2>1. CASE \E s \in Sessions :
              /\ state' = [state EXCEPT ![s] = "Starting"]
              /\ target' = [target EXCEPT ![s] = tgt[c]]
              /\ ses' = [ses EXCEPT ![c] = s]
              /\ pc' = [pc EXCEPT ![c] = "open_lock"]
              /\ UNCHANGED <<createLock, tgt, ret, want, prev, save>>
    BY <2>1 DEF TypeOK, PC, ReverseSessionState, HasDatabase
  <2>2. CASE /\ createLock' = NoClient /\ Return(c)
             /\ UNCHANGED <<state, target>>
    BY <2>2 DEF TypeOK, PC, AfterRefresh, HasDatabase
  <2> QED
    BY <2>1, <2>2
<1>2. LockInv'
    BY DEF TypeOK, RefreshPC, LockInv, Owns, Creates, Closes
<1>3. OpenInv'
    BY DEF TypeOK, OpenInv, BoundInv
<1>4. BoundInv'
    BY DEF TypeOK, BoundInv
<1>5. CloseInv'
    BY DEF TypeOK, RefreshPC, CloseInv, Closes
<1>6. ReuseInv'
    BY DEF TypeOK, PC, AfterRefresh, LockInv, ReuseInv, OneReusablePerTarget,
           reusable_session_for_target, Creates
<1>7. ReadyIsBound'
    BY DEF TypeOK, ReadyIsBound
<1>8. ClosedNeverServes'
    BY DEF TypeOK, ClosedNeverServes, is_terminal
<1>9. DetachedIsSaved'
    BY DEF TypeOK, DetachedIsSaved
<1>10. ClosingHasCloser'
    BY DEF TypeOK, RefreshPC, LockInv, ClosingHasCloser, Unowned, Closes
<1> QED
    BY <1>1, <1>2, <1>3, <1>4, <1>5, <1>6, <1>7, <1>8, <1>9, <1>10

\* create_session takes the operation lock of the session it inserted.
LEMMA OpenLockInd ==
    ASSUME IndInv, NEW c \in Clients, OpenLock(c)
    PROVE  IndInv'
<1> USE ConstantsAssumption DEF IndInv, OpenLock, Goto, lock_operation,
        sessionVars, historyVars
<1>1. TypeOK'
    BY DEF TypeOK, PC, HasDatabase
<1>2. LockInv'
    BY DEF TypeOK, LockInv, Owns, Creates, Closes
<1>3. OpenInv'
    BY DEF OpenInv
<1>4. BoundInv'
    BY DEF BoundInv
<1>5. CloseInv'
    BY DEF RefreshPC, CloseInv, Closes
<1>6. ReuseInv'
    BY DEF ReuseInv, OneReusablePerTarget, reusable_session_for_target
<1>7. ReadyIsBound'
    BY DEF ReadyIsBound
<1>8. ClosedNeverServes'
    BY DEF ClosedNeverServes
<1>9. DetachedIsSaved'
    BY DEF DetachedIsSaved
<1>10. ClosingHasCloser'
    BY DEF ClosingHasCloser, Unowned
<1> QED
    BY <1>1, <1>2, <1>3, <1>4, <1>5, <1>6, <1>7, <1>8, <1>9, <1>10

\* idb_open: only the supervisor changes; a database id is at hand afterwards.
LEMMA OpenInd ==
    ASSUME IndInv, NEW c \in Clients, Open(c)
    PROVE  IndInv'
<1> USE ConstantsAssumption DEF IndInv, Open, Goto, sessionVars, lockVars,
        historyVars
<1>1. TypeOK'
    BY DEF TypeOK, PC, HasDatabase
<1>2. LockInv'
    BY DEF TypeOK, RefreshPC, LockInv, Owns, Creates, Closes
<1>3. OpenInv'
    BY DEF TypeOK, OpenInv
<1>4. BoundInv'
    BY DEF TypeOK, BoundInv
<1>5. CloseInv'
    BY DEF TypeOK, RefreshPC, CloseInv, Closes
<1>6. ReuseInv'
    BY DEF TypeOK, ReuseInv, OneReusablePerTarget,
           reusable_session_for_target
<1>7. ReadyIsBound'
    BY DEF ReadyIsBound
<1>8. ClosedNeverServes'
    BY DEF ClosedNeverServes
<1>9. DetachedIsSaved'
    BY DEF TypeOK, DetachedIsSaved
<1>10. ClosingHasCloser'
    BY DEF ClosingHasCloser, Unowned
<1> QED
    BY <1>1, <1>2, <1>3, <1>4, <1>5, <1>6, <1>7, <1>8, <1>9, <1>10

\* The database goes into database_ids before the session shows it.
LEMMA OpenBindInd ==
    ASSUME IndInv, NEW c \in Clients, OpenBind(c)
    PROVE  IndInv'
<1> USE ConstantsAssumption DEF IndInv, OpenBind, Goto, lockVars, historyVars
<1>1. TypeOK'
    BY DEF TypeOK, PC, HasDatabase
<1>2. LockInv'
    BY DEF RefreshPC, LockInv, Owns, Creates, Closes
<1>3. OpenInv'
    BY DEF TypeOK, LockInv, OpenInv, Creates
<1>4. BoundInv'
    BY DEF TypeOK, OpenInv, BoundInv
<1>5. CloseInv'
    BY DEF RefreshPC, LockInv, CloseInv, Owns, Closes
<1>6. ReuseInv'
    BY DEF ReuseInv, OneReusablePerTarget, reusable_session_for_target
<1>7. ReadyIsBound'
    BY DEF OpenInv, ReadyIsBound
<1>8. ClosedNeverServes'
    BY DEF OpenInv, ClosedNeverServes, is_terminal
<1>9. DetachedIsSaved'
    BY DEF DetachedIsSaved
<1>10. ClosingHasCloser'
    BY DEF ClosingHasCloser, Unowned
<1> QED
    BY <1>1, <1>2, <1>3, <1>4, <1>5, <1>6, <1>7, <1>8, <1>9, <1>10

\* The session becomes Ready with the database that it is bound to.
LEMMA OpenReadyInd ==
    ASSUME IndInv, NEW c \in Clients, OpenReady(c)
    PROVE  IndInv'
<1> USE ConstantsAssumption DEF IndInv, OpenReady, Refresh, lockVars,
        historyVars
<1>1. TypeOK'
    BY SMTT(60) DEF TypeOK, PC, RefreshPC, AfterRefresh, ReverseSessionState,
           HasDatabase
<1>2. LockInv'
    BY DEF TypeOK, LockInv, Owns, Creates, Closes
<1>3. OpenInv'
    BY DEF TypeOK, HasDatabase, LockInv, OpenInv, Owns
<1>4. BoundInv'
    BY DEF TypeOK, OpenInv, BoundInv
<1>5. CloseInv'
    BY DEF TypeOK, LockInv, CloseInv, Owns, Closes
<1>6. ReuseInv'
    BY DEF OpenInv, ReuseInv, OneReusablePerTarget,
           reusable_session_for_target, is_reusable
<1>7. ReadyIsBound'
    BY DEF TypeOK, HasDatabase, OpenInv, ReadyIsBound
<1>8. ClosedNeverServes'
    BY DEF TypeOK, HasDatabase, OpenInv, ClosedNeverServes
<1>9. DetachedIsSaved'
    BY DEF DetachedIsSaved
<1>10. ClosingHasCloser'
    BY DEF TypeOK, ClosingHasCloser, Unowned
<1> QED
    BY <1>1, <1>2, <1>3, <1>4, <1>5, <1>6, <1>7, <1>8, <1>9, <1>10

\* A failed open: the session is in Error, both locks are given back.
LEMMA OpenFailInd ==
    ASSUME IndInv, NEW c \in Clients, OpenFail(c)
    PROVE  IndInv'
<1> USE ConstantsAssumption DEF IndInv, OpenFail, Return, unlock_operation,
        historyVars
<1>1. TypeOK'
    BY DEF TypeOK, PC, AfterRefresh, ReverseSessionState, HasDatabase
<1>2. LockInv'
    BY DEF TypeOK, LockInv, Owns, Creates, Closes
<1>3. OpenInv'
    BY DEF TypeOK, LockInv, OpenInv, Creates
<1>4. BoundInv'
    BY DEF BoundInv
<1>5. CloseInv'
    BY DEF TypeOK, CloseInv, Closes
<1>6. ReuseInv'
    BY DEF ReuseInv, OneReusablePerTarget, reusable_session_for_target,
           is_reusable
<1>7. ReadyIsBound'
    BY DEF ReadyIsBound
<1>8. ClosedNeverServes'
    BY DEF ClosedNeverServes, is_terminal
<1>9. DetachedIsSaved'
    BY DEF DetachedIsSaved
<1>10. ClosingHasCloser'
    BY DEF TypeOK, ClosingHasCloser, Unowned
<1> QED
    BY <1>1, <1>2, <1>3, <1>4, <1>5, <1>6, <1>7, <1>8, <1>9, <1>10

\* create_session returns and gives both locks back.
LEMMA CreateDoneInd ==
    ASSUME IndInv, NEW c \in Clients, CreateDone(c)
    PROVE  IndInv'
<1> USE ConstantsAssumption DEF IndInv, CreateDone, Return, unlock_operation,
        sessionVars, historyVars
<1>1. TypeOK'
    BY DEF TypeOK, PC, AfterRefresh, HasDatabase
<1>2. LockInv'
    BY DEF TypeOK, LockInv, Owns, Creates, Closes
<1>3. OpenInv'
    BY DEF OpenInv
<1>4. BoundInv'
    BY DEF BoundInv
<1>5. CloseInv'
    BY DEF TypeOK, CloseInv, Closes
<1>6. ReuseInv'
    BY DEF ReuseInv, OneReusablePerTarget, reusable_session_for_target
<1>7. ReadyIsBound'
    BY DEF ReadyIsBound
<1>8. ClosedNeverServes'
    BY DEF ClosedNeverServes
<1>9. DetachedIsSaved'
    BY DEF DetachedIsSaved
<1>10. ClosingHasCloser'
    BY DEF RefreshPC, LockInv, ClosingHasCloser, Unowned, Closes
<1> QED
    BY <1>1, <1>2, <1>3, <1>4, <1>5, <1>6, <1>7, <1>8, <1>9, <1>10

\* get_session from outside: no lock is taken.
LEMMA GetSessionInd ==
    ASSUME IndInv, NEW c \in Clients, NEW s \in Sessions, GetSession(c, s)
    PROVE  IndInv'
<1> USE ConstantsAssumption DEF IndInv, GetSession, sessionVars, lockVars,
        historyVars
<1>1. TypeOK'
    BY DEF TypeOK, PC, RefreshPC, HasDatabase
<1>2. LockInv'
    BY DEF LockInv, Owns, Creates, Closes
<1>3. OpenInv'
    BY DEF OpenInv
<1>4. BoundInv'
    BY DEF BoundInv
<1>5. CloseInv'
    BY DEF LockInv, CloseInv, Closes
<1>6. ReuseInv'
    BY DEF ReuseInv, OneReusablePerTarget, reusable_session_for_target
<1>7. ReadyIsBound'
    BY DEF ReadyIsBound
<1>8. ClosedNeverServes'
    BY DEF ClosedNeverServes
<1>9. DetachedIsSaved'
    BY DEF DetachedIsSaved
<1>10. ClosingHasCloser'
    BY DEF LockInv, ClosingHasCloser, Unowned
<1> QED
    BY <1>1, <1>2, <1>3, <1>4, <1>5, <1>6, <1>7, <1>8, <1>9, <1>10

\* refresh_session_health reads the session.
LEMMA RefreshReadInd ==
    ASSUME IndInv, NEW c \in Clients, RefreshRead(c)
    PROVE  IndInv'
<1> USE ConstantsAssumption DEF IndInv, RefreshRead, Goto, sessionVars,
        lockVars, historyVars
<1>1. TypeOK'
    BY DEF TypeOK, PC, RefreshPC, AfterRefresh, HasDatabase
<1>2. LockInv'
    BY DEF TypeOK, RefreshPC, AfterRefresh, LockInv, Owns, Creates, Closes
<1>3. OpenInv'
    BY DEF TypeOK, AfterRefresh, OpenInv, BoundInv
<1>4. BoundInv'
    BY DEF TypeOK, BoundInv
<1>5. CloseInv'
    BY DEF TypeOK, PC, AfterRefresh, CloseInv, Closes
<1>6. ReuseInv'
    BY DEF TypeOK, AfterRefresh, ReuseInv, OneReusablePerTarget,
           reusable_session_for_target
<1>7. ReadyIsBound'
    BY DEF ReadyIsBound
<1>8. ClosedNeverServes'
    BY DEF ClosedNeverServes
<1>9. DetachedIsSaved'
    BY DEF TypeOK, AfterRefresh, DetachedIsSaved
<1>10. ClosingHasCloser'
    BY DEF ClosingHasCloser, Unowned
<1> QED
    BY <1>1, <1>2, <1>3, <1>4, <1>5, <1>6, <1>7, <1>8, <1>9, <1>10

\* refresh_session_health has its answer and writes health fields only.
LEMMA RefreshListInd ==
    ASSUME IndInv, NEW c \in Clients, RefreshList(c)
    PROVE  IndInv'
<1> USE ConstantsAssumption DEF IndInv, RefreshList, Goto, sessionVars,
        lockVars, historyVars
<1>1. TypeOK'
    BY DEF TypeOK, PC, RefreshPC, HasDatabase
<1>2. LockInv'
    BY DEF TypeOK, RefreshPC, AfterRefresh, LockInv, Owns, Creates, Closes
<1>3. OpenInv'
    BY DEF TypeOK, AfterRefresh, OpenInv
<1>4. BoundInv'
    BY DEF TypeOK, BoundInv
<1>5. CloseInv'
    BY DEF TypeOK, PC, AfterRefresh, CloseInv, Closes
<1>6. ReuseInv'
    BY DEF TypeOK, AfterRefresh, ReuseInv, OneReusablePerTarget,
           reusable_session_for_target
<1>7. ReadyIsBound'
    BY DEF ReadyIsBound
<1>8. ClosedNeverServes'
    BY DEF ClosedNeverServes
<1>9. DetachedIsSaved'
    BY DEF TypeOK, AfterRefresh, DetachedIsSaved
<1>10. ClosingHasCloser'
    BY DEF ClosingHasCloser, Unowned
<1> QED
    BY <1>1, <1>2, <1>3, <1>4, <1>5, <1>6, <1>7, <1>8, <1>9, <1>10

\* refresh_session_health marks a lost session: the state becomes Error,
\* whatever happened to the session in between.
LEMMA RefreshGoneInd ==
    ASSUME IndInv, NEW c \in Clients, RefreshGone(c)
    PROVE  IndInv'
<1> USE ConstantsAssumption DEF IndInv, RefreshGone, Goto, lockVars,
        historyVars
<1>1. TypeOK'
    BY DEF TypeOK, PC, ReverseSessionState, HasDatabase
<1>2. LockInv'
    BY DEF TypeOK, PC, AfterRefresh, LockInv, Owns, Creates, Closes
<1>3. OpenInv'
    BY DEF TypeOK, AfterRefresh, OpenInv
<1>4. BoundInv'
    BY DEF BoundInv
<1>5. CloseInv'
    BY DEF TypeOK, PC, AfterRefresh, CloseInv, Closes
<1>6. ReuseInv'
    BY DEF TypeOK, AfterRefresh, ReuseInv, OneReusablePerTarget,
           reusable_session_for_target, is_reusable
<1>7. ReadyIsBound'
    BY DEF ReadyIsBound
<1>8. ClosedNeverServes'
    BY DEF ClosedNeverServes, is_terminal
<1>9. DetachedIsSaved'
    BY DEF TypeOK, AfterRefresh, DetachedIsSaved
<1>10. ClosingHasCloser'
    BY DEF ClosingHasCloser, Unowned
<1> QED
    BY <1>1, <1>2, <1>3, <1>4, <1>5, <1>6, <1>7, <1>8, <1>9, <1>10

\* get_session returns.
LEMMA GetDoneInd ==
    ASSUME IndInv, NEW c \in Clients, GetDone(c)
    PROVE  IndInv'
<1> USE ConstantsAssumption DEF IndInv, GetDone, Return, sessionVars,
        lockVars, historyVars
<1>1. TypeOK'
    BY DEF TypeOK, PC, RefreshPC, HasDatabase
<1>2. LockInv'
    BY DEF TypeOK, LockInv, Owns, Creates, Closes
<1>3. OpenInv'
    BY DEF OpenInv
<1>4. BoundInv'
    BY DEF BoundInv
<1>5. CloseInv'
    BY DEF TypeOK, CloseInv, Closes
<1>6. ReuseInv'
    BY DEF ReuseInv, OneReusablePerTarget, reusable_session_for_target
<1>7. ReadyIsBound'
    BY DEF ReadyIsBound
<1>8. ClosedNeverServes'
    BY DEF ClosedNeverServes
<1>9. DetachedIsSaved'
    BY DEF DetachedIsSaved
<1>10. ClosingHasCloser'
    BY DEF RefreshPC, LockInv, ClosingHasCloser, Unowned, Closes
<1> QED
    BY <1>1, <1>2, <1>3, <1>4, <1>5, <1>6, <1>7, <1>8, <1>9, <1>10

\* close_session_with_save takes the operation lock.
LEMMA CloseInd ==
    ASSUME IndInv, NEW c \in Clients, NEW s \in Sessions, NEW sv \in BOOLEAN,
           Close(c, s, sv)
    PROVE  IndInv'
<1> USE ConstantsAssumption DEF IndInv, Close, lock_operation, sessionVars,
        historyVars
<1>1. TypeOK'
    BY DEF TypeOK, PC, RefreshPC, AfterRefresh, HasDatabase
<1>2. LockInv'
    BY DEF TypeOK, LockInv, Owns, Creates, Closes
<1>3. OpenInv'
    BY DEF OpenInv
<1>4. BoundInv'
    BY DEF BoundInv
<1>5. CloseInv'
    BY DEF TypeOK, CloseInv, Closes
<1>6. ReuseInv'
    BY DEF ReuseInv, OneReusablePerTarget, reusable_session_for_target
<1>7. ReadyIsBound'
    BY DEF ReadyIsBound
<1>8. ClosedNeverServes'
    BY DEF ClosedNeverServes
<1>9. DetachedIsSaved'
    BY DEF DetachedIsSaved
<1>10. ClosingHasCloser'
    BY DEF LockInv, ClosingHasCloser, Unowned
<1> QED
    BY <1>1, <1>2, <1>3, <1>4, <1>5, <1>6, <1>7, <1>8, <1>9, <1>10

\* close_session_with_save finds a database, or ends.
LEMMA CloseCheckInd ==
    ASSUME IndInv, NEW c \in Clients, CloseCheck(c)
    PROVE  IndInv'
<1> USE ConstantsAssumption DEF IndInv, CloseCheck, Refresh, Return,
        unlock_operation, sessionVars, historyVars
<1>1. TypeOK'
  <2>1. CASE Return(c) /\ unlock_operation(ses[c])
    BY <2>1 DEF TypeOK, PC, AfterRefresh, HasDatabase
  <2>2. CASE /\ Refresh(c, "close_mark") /\ UNCHANGED opLock
             /\ prev' = [prev EXCEPT ![c] = state[ses[c]]]
    BY <2>2 DEF TypeOK, PC, RefreshPC, AfterRefresh, HasDatabase
  <2> QED
    BY <2>1, <2>2
<1>2. LockInv'
    BY DEF TypeOK, RefreshPC, LockInv, Owns, Creates, Closes
<1>3. OpenInv'
    BY DEF TypeOK, OpenInv
<1>4. BoundInv'
    BY DEF TypeOK, BoundInv
<1>5. CloseInv'
    BY DEF TypeOK, RefreshPC, LockInv, BoundInv, CloseInv, ClosingHasCloser,
           Unowned, Owns, Closes
<1>6. ReuseInv'
    BY DEF TypeOK, ReuseInv, OneReusablePerTarget,
           reusable_session_for_target
<1>7. ReadyIsBound'
    BY DEF ReadyIsBound
<1>8. ClosedNeverServes'
    BY DEF ClosedNeverServes
<1>9. DetachedIsSaved'
    BY DEF TypeOK, DetachedIsSaved
<1>10. ClosingHasCloser'
    BY DEF TypeOK, RefreshPC, LockInv, ClosingHasCloser, Unowned, Closes
<1> QED
    BY <1>1, <1>2, <1>3, <1>4, <1>5, <1>6, <1>7, <1>8, <1>9, <1>10

\* The session becomes Closing: its caller holds the operation lock.
LEMMA CloseMarkInd ==
    ASSUME IndInv, NEW c \in Clients, CloseMark(c)
    PROVE  IndInv'
<1> USE ConstantsAssumption DEF IndInv, CloseMark, Goto, lockVars,
        historyVars
<1>1. TypeOK'
    BY DEF TypeOK, PC, ReverseSessionState, HasDatabase
<1>2. LockInv'
    BY DEF LockInv, Owns, Creates, Closes
<1>3. OpenInv'
    BY DEF OpenInv, CloseInv, Closes
<1>4. BoundInv'
    BY DEF BoundInv
<1>5. CloseInv'
    BY DEF TypeOK, CloseInv, Closes
<1>6. ReuseInv'
    BY DEF ReuseInv, OneReusablePerTarget, reusable_session_for_target,
           is_reusable
<1>7. ReadyIsBound'
    BY DEF ReadyIsBound
<1>8. ClosedNeverServes'
    BY DEF CloseInv, ClosedNeverServes, Closes
<1>9. DetachedIsSaved'
    BY DEF DetachedIsSaved
<1>10. ClosingHasCloser'
    BY DEF LockInv, ClosingHasCloser, Unowned, Closes
<1> QED
    BY <1>1, <1>2, <1>3, <1>4, <1>5, <1>6, <1>7, <1>8, <1>9, <1>10

\* idb_save: afterwards nothing is dirty, or the call is on its way out.
LEMMA SaveInd ==
    ASSUME IndInv, NEW c \in Clients, Save(c)
    PROVE  IndInv'
<1> USE ConstantsAssumption DEF IndInv, Save, Goto, Return, unlock_operation,
        sessionVars
<1>1. TypeOK'
  <2>1. CASE /\ Goto(c, "close_unbind") /\ UNCHANGED opLock
             /\ dirty' = dirty \ {ses[c]}
    BY <2>1 DEF TypeOK, PC, HasDatabase
  <2>2. CASE Goto(c, "close_restore") /\ UNCHANGED <<opLock, dirty>>
    BY <2>2 DEF TypeOK, PC, HasDatabase
  <2>3. CASE /\ Return(c) /\ unlock_operation(ses[c])
             /\ dirty' \in {dirty, dirty \ {ses[c]}}
    BY <2>3 DEF TypeOK, PC, AfterRefresh, HasDatabase
  <2> QED
    BY <2>1, <2>2, <2>3
<1>2. LockInv'
    BY DEF TypeOK, RefreshPC, LockInv, Owns, Creates, Closes
<1>3. OpenInv'
    BY DEF TypeOK, OpenInv
<1>4. BoundInv'
    BY DEF TypeOK, BoundInv
<1>5. CloseInv'
    BY DEF TypeOK, CloseInv, Closes
<1>6. ReuseInv'
    BY DEF TypeOK, ReuseInv, OneReusablePerTarget,
           reusable_session_for_target
<1>7. ReadyIsBound'
    BY DEF ReadyIsBound
<1>8. ClosedNeverServes'
    BY DEF ClosedNeverServes
<1>9. DetachedIsSaved'
    BY DEF TypeOK, DetachedIsSaved
<1>10. ClosingHasCloser'
  <2>1. CASE UNCHANGED <<ses, ret>>
    BY <2>1 DEF ClosingHasCloser, Unowned
  <2>2. CASE ses[c] \in Frail /\ Return(c)
    BY <2>2 DEF TypeOK, ClosingHasCloser, Unowned
  <2> QED
    BY <2>1, <2>2
<1> QED
    BY <1>1, <1>2, <1>3, <1>4, <1>5, <1>6, <1>7, <1>8, <1>9, <1>10

\* A close whose save failed gives the session its previous state back; the
\* database is still bound to it.
LEMMA CloseRestoreInd ==
    ASSUME IndInv, NEW c \in Clients, CloseRestore(c)
    PROVE  IndInv'
<1> USE ConstantsAssumption DEF IndInv, CloseRestore, Return,
        unlock_operation
<1>1. TypeOK'
    BY DEF TypeOK, PC, AfterRefresh, HasDatabase
<1>2. LockInv'
    BY DEF TypeOK, LockInv, Owns, Creates, Closes
<1>3. OpenInv'
    BY DEF OpenInv, CloseInv, Closes
<1>4. BoundInv'
    BY DEF BoundInv, CloseInv, Closes
<1>5. CloseInv'
    BY DEF TypeOK, LockInv, CloseInv, Owns, Closes
<1>6. ReuseInv'
    BY DEF ReuseInv, OneReusablePerTarget, reusable_session_for_target
<1>7. ReadyIsBound'
    BY DEF CloseInv, ReadyIsBound, Closes
<1>8. ClosedNeverServes'
    BY DEF CloseInv, ClosedNeverServes, Closes
<1>9. DetachedIsSaved'
    BY DEF DetachedIsSaved
<1>10. ClosingHasCloser'
    BY DEF TypeOK, CloseInv, ClosingHasCloser, Unowned, Closes
<1> QED
    BY <1>1, <1>2, <1>3, <1>4, <1>5, <1>6, <1>7, <1>8, <1>9, <1>10

\* The database is detached after the save.
LEMMA CloseUnbindInd ==
    ASSUME IndInv, NEW c \in Clients, CloseUnbind(c)
    PROVE  IndInv'
<1> USE ConstantsAssumption DEF IndInv, CloseUnbind, Goto, lockVars,
        historyVars
<1>1. TypeOK'
    BY DEF TypeOK, PC, HasDatabase
<1>2. LockInv'
    BY DEF LockInv, Owns, Creates, Closes
<1>3. OpenInv'
    BY DEF LockInv, OpenInv, Owns
<1>4. BoundInv'
    BY DEF TypeOK, BoundInv
<1>5. CloseInv'
    BY DEF TypeOK, LockInv, CloseInv, Owns, Closes
<1>6. ReuseInv'
    BY DEF ReuseInv, OneReusablePerTarget, reusable_session_for_target
<1>7. ReadyIsBound'
    BY DEF CloseInv, ReadyIsBound
<1>8. ClosedNeverServes'
    BY DEF ClosedNeverServes
<1>9. DetachedIsSaved'
    BY DEF DetachedIsSaved
<1>10. ClosingHasCloser'
    BY DEF ClosingHasCloser, Unowned
<1> QED
    BY <1>1, <1>2, <1>3, <1>4, <1>5, <1>6, <1>7, <1>8, <1>9, <1>10

\* The session becomes Closed and no longer shows a database.
LEMMA CloseFinishInd ==
    ASSUME IndInv, NEW c \in Clients, CloseFinish(c)
    PROVE  IndInv'
<1> USE ConstantsAssumption DEF IndInv, CloseFinish, Return, unlock_operation
<1>1. TypeOK'
    BY DEF TypeOK, PC, AfterRefresh, ReverseSessionState, HasDatabase
<1>2. LockInv'
    BY DEF TypeOK, LockInv, Owns, Creates, Closes
<1>3. OpenInv'
    BY DEF OpenInv, CloseInv
<1>4. BoundInv'
    BY DEF TypeOK, BoundInv, CloseInv
<1>5. CloseInv'
    BY DEF TypeOK, LockInv, CloseInv, Owns, Closes
<1>6. ReuseInv'
    BY DEF ReuseInv, OneReusablePerTarget, reusable_session_for_target,
           is_reusable
<1>7. ReadyIsBound'
    BY DEF TypeOK, ReadyIsBound
<1>8. ClosedNeverServes'
    BY DEF TypeOK, CloseInv, ClosedNeverServes, is_terminal
<1>9. DetachedIsSaved'
    BY DEF TypeOK, DetachedIsSaved
<1>10. ClosingHasCloser'
    BY DEF TypeOK, ClosingHasCloser, Unowned
<1> QED
    BY <1>1, <1>2, <1>3, <1>4, <1>5, <1>6, <1>7, <1>8, <1>9, <1>10

\* call_upstream_tool takes the operation lock.
LEMMA ToolInd ==
    ASSUME IndInv, NEW c \in Clients, NEW s \in Sessions, Tool(c, s)
    PROVE  IndInv'
<1> USE ConstantsAssumption DEF IndInv, Tool, lock_operation, sessionVars,
        historyVars
<1>1. TypeOK'
    BY DEF TypeOK, PC, RefreshPC, AfterRefresh, HasDatabase
<1>2. LockInv'
    BY DEF TypeOK, LockInv, Owns, Creates, Closes
<1>3. OpenInv'
    BY DEF OpenInv
<1>4. BoundInv'
    BY DEF BoundInv
<1>5. CloseInv'
    BY DEF TypeOK, CloseInv, Closes
<1>6. ReuseInv'
    BY DEF ReuseInv, OneReusablePerTarget, reusable_session_for_target
<1>7. ReadyIsBound'
    BY DEF ReadyIsBound
<1>8. ClosedNeverServes'
    BY DEF ClosedNeverServes
<1>9. DetachedIsSaved'
    BY DEF DetachedIsSaved
<1>10. ClosingHasCloser'
    BY DEF LockInv, ClosingHasCloser, Unowned
<1> QED
    BY <1>1, <1>2, <1>3, <1>4, <1>5, <1>6, <1>7, <1>8, <1>9, <1>10

\* call_upstream_tool finds a Ready session, or ends.
LEMMA ToolCheckInd ==
    ASSUME IndInv, NEW c \in Clients, ToolCheck(c)
    PROVE  IndInv'
<1> USE ConstantsAssumption DEF IndInv, ToolCheck, Goto, Return,
        unlock_operation, sessionVars, historyVars
<1>1. TypeOK'
  <2>1. CASE Goto(c, "tool") /\ UNCHANGED opLock
    BY <2>1 DEF TypeOK, PC, HasDatabase
  <2>2. CASE Return(c) /\ unlock_operation(ses[c])
    BY <2>2 DEF TypeOK, PC, AfterRefresh, HasDatabase
  <2> QED
    BY <2>1, <2>2
<1>2. LockInv'
    BY DEF TypeOK, RefreshPC, LockInv, Owns, Creates, Closes
<1>3. OpenInv'
    BY DEF TypeOK, OpenInv
<1>4. BoundInv'
    BY DEF TypeOK, BoundInv
<1>5. CloseInv'
    BY DEF TypeOK, RefreshPC, CloseInv, Closes
<1>6. ReuseInv'
    BY DEF TypeOK, ReuseInv, OneReusablePerTarget,
           reusable_session_for_target
<1>7. ReadyIsBound'
    BY DEF ReadyIsBound
<1>8. ClosedNeverServes'
    BY DEF ClosedNeverServes
<1>9. DetachedIsSaved'
    BY DEF TypeOK, DetachedIsSaved
<1>10. ClosingHasCloser'
    BY DEF TypeOK, RefreshPC, LockInv, ClosingHasCloser, Unowned, Closes
<1> QED
    BY <1>1, <1>2, <1>3, <1>4, <1>5, <1>6, <1>7, <1>8, <1>9, <1>10

\* A tool runs under the operation lock, so nobody saves the session.
LEMMA ToolCallInd ==
    ASSUME IndInv, NEW c \in Clients, ToolCall(c)
    PROVE  IndInv'
<1> USE ConstantsAssumption DEF IndInv, ToolCall, Return, unlock_operation,
        sessionVars
<1>1. TypeOK'
    BY DEF TypeOK, PC, AfterRefresh, HasDatabase
<1>2. LockInv'
    BY DEF TypeOK, LockInv, Owns, Creates, Closes
<1>3. OpenInv'
    BY DEF OpenInv
<1>4. BoundInv'
    BY DEF BoundInv
<1>5. CloseInv'
    BY DEF TypeOK, CloseInv, Closes
<1>6. ReuseInv'
    BY DEF ReuseInv, OneReusablePerTarget, reusable_session_for_target
<1>7. ReadyIsBound'
    BY DEF ReadyIsBound
<1>8. ClosedNeverServes'
    BY DEF ClosedNeverServes
<1>9. DetachedIsSaved'
    BY DEF LockInv, DetachedIsSaved, Owns
<1>10. ClosingHasCloser'
    BY DEF RefreshPC, LockInv, ClosingHasCloser, Unowned, Closes
<1> QED
    BY <1>1, <1>2, <1>3, <1>4, <1>5, <1>6, <1>7, <1>8, <1>9, <1>10

\* Before the first call there is no session and nobody holds a lock.
LEMMA InitInd == Init => IndInv
<1> SUFFICES ASSUME Init PROVE IndInv
    OBVIOUS
<1> USE ConstantsAssumption DEF Init
<1>1. TypeOK
    BY DEF TypeOK, PC, AfterRefresh, HasDatabase
<1>2. LockInv /\ OpenInv /\ BoundInv
    BY DEF LockInv, OpenInv, BoundInv, Owns, Creates, Closes, RefreshPC
<1>3. CloseInv /\ ReuseInv
    BY DEF CloseInv, ReuseInv, OneReusablePerTarget, is_reusable, Closes,
           RefreshPC
<1>4. ReadyIsBound /\ ClosedNeverServes /\ DetachedIsSaved /\ ClosingHasCloser
    BY DEF ReadyIsBound, ClosedNeverServes, DetachedIsSaved, ClosingHasCloser,
           Unowned
<1> QED
    BY <1>1, <1>2, <1>3, <1>4 DEF IndInv

\* Databases that disappear from the supervisor change nothing in the manager.
LEMMA QuietInd ==
    ASSUME IndInv, listed' \in SUBSET Sessions,
           UNCHANGED <<sessionVars, lockVars, clientVars, historyVars>>
    PROVE  IndInv'
<1> USE DEF IndInv, sessionVars, lockVars, clientVars, historyVars
<1>1. TypeOK'
    BY DEF TypeOK
<1>2. LockInv' /\ OpenInv' /\ BoundInv' /\ CloseInv'
    BY DEF LockInv, OpenInv, BoundInv, CloseInv, Owns, Creates, Closes
<1>3. ReuseInv'
    BY DEF ReuseInv, OneReusablePerTarget, reusable_session_for_target
<1>4. ReadyIsBound' /\ ClosedNeverServes' /\ DetachedIsSaved' /\ ClosingHasCloser'
    BY DEF ReadyIsBound, ClosedNeverServes, DetachedIsSaved, ClosingHasCloser,
           Unowned
<1> QED
    BY <1>1, <1>2, <1>3, <1>4

\* Every step of a call and of the supervisor keeps the invariant.
LEMMA NextInd == IndInv /\ [Next]_vars => IndInv'
<1> SUFFICES ASSUME IndInv, [Next]_vars PROVE IndInv'
    OBVIOUS
<1>1. ASSUME NEW c \in Clients, NEW t \in Targets, CreateLookup(c, t)
      PROVE  IndInv'
    BY <1>1, CreateLookupInd
<1>2. ASSUME NEW c \in Clients, NEW s \in Sessions, GetSession(c, s)
      PROVE  IndInv'
    BY <1>2, GetSessionInd
<1>3. ASSUME NEW c \in Clients, NEW s \in Sessions, Tool(c, s)
      PROVE  IndInv'
    BY <1>3, ToolInd
<1>4. ASSUME NEW c \in Clients, NEW s \in Sessions, NEW sv \in BOOLEAN,
             Close(c, s, sv)
      PROVE  IndInv'
    BY <1>4, CloseInd
<1>5. ASSUME NEW c \in Clients, ClientStep(c)
      PROVE  IndInv'
  <2>1. CASE \/ CreateInsert(c) \/ OpenLock(c) \/ Open(c) \/ OpenBind(c)
             \/ OpenReady(c) \/ OpenFail(c) \/ CreateDone(c)
    BY <2>1, CreateInsertInd, OpenLockInd, OpenInd, OpenBindInd, OpenReadyInd,
       OpenFailInd, CreateDoneInd
  <2>2. CASE RefreshRead(c) \/ RefreshList(c) \/ RefreshGone(c) \/ GetDone(c)
    BY <2>2, RefreshReadInd, RefreshListInd, RefreshGoneInd, GetDoneInd
  <2>3. CASE \/ CloseCheck(c) \/ CloseMark(c) \/ Save(c) \/ CloseRestore(c)
             \/ CloseUnbind(c) \/ CloseFinish(c)
    BY <2>3, CloseCheckInd, CloseMarkInd, SaveInd, CloseRestoreInd,
       CloseUnbindInd, CloseFinishInd
  <2>4. CASE ToolCheck(c) \/ ToolCall(c)
    BY <2>4, ToolCheckInd, ToolCallInd
  <2> QED
    BY <1>5, <2>1, <2>2, <2>3, <2>4 DEF ClientStep
<1>6. CASE UpstreamLoses
  <2>1. listed' \in SUBSET Sessions
    BY <1>6 DEF UpstreamLoses, IndInv, TypeOK
  <2> QED
    BY <1>6, <2>1, QuietInd DEF UpstreamLoses
<1>7. CASE UNCHANGED vars
  <2>1. listed' \in SUBSET Sessions
    BY <1>7 DEF vars, IndInv, TypeOK
  <2> QED
    BY <1>7, <2>1, QuietInd DEF vars
<1> QED
    BY <1>1, <1>2, <1>3, <1>4, <1>5, <1>6, <1>7 DEF Next

\* The inductive invariant holds in every reachable state of the manager.
THEOREM Invariance == Spec => []IndInv
<1> QED
    BY InitInd, NextInd, PTL DEF Spec

\* The session table, the locks and the callers keep their types
\* (crates/dbgflow-reverse/src/ida/manager.rs as a whole).
THEOREM TypeCorrect == Spec => []TypeOK
<1>1. IndInv => TypeOK
    BY DEF IndInv
<1> QED
    BY <1>1, Invariance, PTL

\* operation_lock: open, save and tool calls of one session never overlap.
THEOREM Serial == Spec => []SerialCalls
<1>1. IndInv => SerialCalls
    BY DEF IndInv, LockInv, Owns, SerialCalls
<1> QED
    BY <1>1, Invariance, PTL

\* create, close and the unlocked health refresh: a session that is shown as
\* Ready is bound to the database it shows.
THEOREM ReadyHasDatabase == Spec => []ReadyIsBound
<1>1. IndInv => ReadyIsBound
    BY DEF IndInv
<1> QED
    BY <1>1, Invariance, PTL

\* close_session_with_save: a session that was closed stays terminal and
\* without a database.
THEOREM ClosedIsOver == Spec => []ClosedNeverServes
<1>1. IndInv => ClosedNeverServes
    BY DEF IndInv
<1> QED
    BY <1>1, Invariance, PTL

\* close_session_with_save: no tool call between the save and the detach.
THEOREM SavedBeforeDetach == Spec => []DetachedIsSaved
<1>1. IndInv => DetachedIsSaved
    BY DEF IndInv
<1> QED
    BY <1>1, Invariance, PTL

\* create_lock: a target has one session on offer, unless a failed close gave
\* one back.
THEOREM OneOnOffer == Spec => []OneReusablePerTarget
<1>1. IndInv => OneReusablePerTarget
    BY DEF IndInv, ReuseInv
<1> QED
    BY <1>1, Invariance, PTL

\* close_session_with_save: a session in Closing is being closed, if outputs
\* can be written.
THEOREM ClosingIsOwned == Spec => []ClosingHasCloser
<1>1. IndInv => ClosingHasCloser
    BY DEF IndInv
<1> QED
    BY <1>1, Invariance, PTL

-----------------------------------------------------------------------------
(* Locks are given back *)

\* The converse of LockInv: whoever holds a lock is between taking it and
\* giving it back.
HeldInv ==
    /\ \A s \in Sessions, c \in Clients :
          opLock[s] = c => ses[c] = s /\ Owns(c)
    /\ \A c \in Clients : createLock = c => Creates(c)
    /\ \A c \in Clients : Creates(c) => ret[c] \in {"get_done", "create_done"}

\* create_session: the create lock from the lookup, the operation lock from
\* open_lock, and both back on every return.
LEMMA CreateHeld ==
    ASSUME IndInv, HeldInv, NEW c \in Clients,
           \/ \E t \in Targets : CreateLookup(c, t)
           \/ CreateInsert(c) \/ OpenLock(c) \/ Open(c) \/ OpenBind(c)
           \/ OpenReady(c) \/ OpenFail(c) \/ CreateDone(c)
    PROVE  HeldInv'
<1> USE ConstantsAssumption DEF IndInv, HeldInv, TypeOK, LockInv, Owns, Creates, RefreshPC,
        lockVars, Goto, Return, Refresh
<1>1. CASE \E t \in Targets : CreateLookup(c, t)
    BY <1>1 DEF CreateLookup
<1>2. CASE CreateInsert(c)
    BY <1>2 DEF CreateInsert
<1>3. CASE OpenLock(c)
    BY <1>3 DEF OpenLock, lock_operation
<1>4. CASE Open(c)
    BY <1>4 DEF Open
<1>5. CASE OpenBind(c)
    BY <1>5 DEF OpenBind
<1>6. CASE OpenReady(c)
    BY <1>6 DEF OpenReady
<1>7. CASE OpenFail(c)
    BY <1>7 DEF OpenFail, unlock_operation
<1>8. CASE CreateDone(c)
    BY <1>8 DEF CreateDone, unlock_operation
<1> QED
    BY <1>1, <1>2, <1>3, <1>4, <1>5, <1>6, <1>7, <1>8

\* get_session and the refresh take no lock; one inside of an operation goes
\* back to it with the lock still held.
LEMMA RefreshHeld ==
    ASSUME IndInv, HeldInv, NEW c \in Clients,
           \/ \E s \in Sessions : GetSession(c, s)
           \/ RefreshRead(c) \/ RefreshList(c) \/ RefreshGone(c) \/ GetDone(c)
    PROVE  HeldInv'
<1> USE ConstantsAssumption DEF IndInv, HeldInv, TypeOK, LockInv, Owns, Creates, RefreshPC,
        AfterRefresh, lockVars, Goto, Return
<1>1. CASE \E s \in Sessions : GetSession(c, s)
    BY <1>1 DEF GetSession
<1>2. CASE RefreshRead(c)
    BY <1>2 DEF RefreshRead
<1>3. CASE RefreshList(c)
    BY <1>3 DEF RefreshList
<1>4. CASE RefreshGone(c)
    BY <1>4 DEF RefreshGone
<1>5. CASE GetDone(c)
    BY <1>5 DEF GetDone
<1> QED
    BY <1>1, <1>2, <1>3, <1>4, <1>5

\* close_session_with_save and call_upstream_tool: the operation guard is
\* dropped on every return.
LEMMA OperationHeld ==
    ASSUME IndInv, HeldInv, NEW c \in Clients,
           \/ \E s \in Sessions, sv \in BOOLEAN : Close(c, s, sv)
           \/ \E s \in Sessions : Tool(c, s)
           \/ CloseCheck(c) \/ CloseMark(c) \/ Save(c) \/ CloseRestore(c)
           \/ CloseUnbind(c) \/ CloseFinish(c) \/ ToolCheck(c) \/ ToolCall(c)
    PROVE  HeldInv'
<1> USE ConstantsAssumption DEF IndInv, HeldInv, TypeOK, LockInv, Owns, Creates, RefreshPC,
        lockVars, Goto, Return, Refresh, lock_operation, unlock_operation
<1>1. CASE \E s \in Sessions, sv \in BOOLEAN : Close(c, s, sv)
    BY <1>1 DEF Close
<1>2. CASE \E s \in Sessions : Tool(c, s)
    BY <1>2 DEF Tool
<1>3. CASE CloseCheck(c)
    BY <1>3 DEF CloseCheck
<1>4. CASE CloseMark(c)
    BY <1>4 DEF CloseMark
<1>5. CASE Save(c)
    BY <1>5 DEF Save
<1>6. CASE CloseRestore(c)
    BY <1>6 DEF CloseRestore
<1>7. CASE CloseUnbind(c)
    BY <1>7 DEF CloseUnbind
<1>8. CASE CloseFinish(c)
    BY <1>8 DEF CloseFinish
<1>9. CASE ToolCheck(c)
    BY <1>9 DEF ToolCheck
<1>10. CASE ToolCall(c)
    BY <1>10 DEF ToolCall
<1> QED
    BY <1>1, <1>2, <1>3, <1>4, <1>5, <1>6, <1>7, <1>8, <1>9, <1>10

\* Every step keeps who holds what.
LEMMA NextHeld == IndInv /\ HeldInv /\ [Next]_vars => HeldInv'
<1> SUFFICES ASSUME IndInv, HeldInv, [Next]_vars PROVE HeldInv'
    OBVIOUS
<1>1. CASE UpstreamLoses \/ UNCHANGED vars
    BY <1>1 DEF UpstreamLoses, vars, lockVars, clientVars, HeldInv, Owns, Creates
<1>2. ASSUME NEW c \in Clients, ClientStep(c)
      PROVE  HeldInv'
    BY <1>2, CreateHeld, RefreshHeld, OperationHeld DEF ClientStep
<1>3. ASSUME NEW c \in Clients,
             \/ \E t \in Targets : CreateLookup(c, t)
             \/ \E s \in Sessions :
                   \/ GetSession(c, s) \/ Tool(c, s)
                   \/ \E sv \in BOOLEAN : Close(c, s, sv)
      PROVE  HeldInv'
    BY <1>3, CreateHeld, RefreshHeld, OperationHeld
<1> QED
    BY <1>1, <1>2, <1>3 DEF Next

\* create_lock and operation_lock: no error return of create_session,
\* close_session_with_save or call_upstream_tool leaves a lock behind, and the
\* holder of an operation lock is never one that still waits for a lock, so
\* nobody waits in a circle.
THEOREM NoLockLeaks == Spec => []LocksAreHeld
<1>1. Init => HeldInv
    BY ConstantsAssumption DEF Init, HeldInv, Creates, RefreshPC
<1>2. TypeOK /\ HeldInv => LocksAreHeld
    BY DEF TypeOK, HeldInv, LocksAreHeld, Owns, Creates, RefreshPC
<1> QED
    BY <1>1, <1>2, NextHeld, Invariance, TypeCorrect, PTL DEF Spec
=============================================================================
