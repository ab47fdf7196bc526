------------------------ MODULE IdaSupervisorProofs -------------------------
(* Requests to the IDA supervisor: no crosstalk, no lost response, and no    *)
(* process that a timeout cannot kill.                                       *)
EXTENDS IdaSupervisor, TLAPS

USE DEF Gens, Ids, Calls

\* The shape of everything but the holders of the stdin mutexes, which no other
\* part of the state depends on.
PartsTypeOK == HandleTypeOK /\ GenTypeOK /\ ClientTypeOK

\* The client that is starting or choosing a process holds the state mutex,
\* and one that has started a process knows which.
GuardInv ==
    \A c \in Clients :
        /\ pc[c] \in StartPC => guard = c /\ call[c] \in Calls
        /\ pc[c] \in {"set_child", "set_pending", "set_state"} => gen[c] \in Gens

\* Ids are counted: a process gives out at most one for every call.
CountInv ==
    \A g \in Gens :
        /\ nextId[g] >= 1
        /\ nextId[g] <= calls + 1
        /\ guard # NoClient => nextId[g] <= calls

\* A call that has taken an id, and until when.
Active(c) == pc[c] \in {"insert", "write", "writing", "wait"}

\* Ids of concurrent requests to a process are distinct and given out.
IdInv ==
    /\ \A c \in Clients : Active(c) =>
          /\ gen[c] \in Gens /\ rid[c] \in Ids /\ call[c] \in Calls
          /\ rid[c] < nextId[gen[c]]
    /\ \A c, d \in Clients :
          Active(c) /\ Active(d) /\ gen[c] = gen[d] /\ rid[c] = rid[d] => c = d

\* The pending map holds the requests that were registered and have not been
\* answered, each under its own id, and only these.
Registered(c) == pc[c] \in {"write", "writing", "wait"}
PendingInv ==
    /\ \A g \in Gens, i \in Ids : pending[g][i] # NoClient =>
          /\ Registered(pending[g][i])
          /\ gen[pending[g][i]] = g
          /\ rid[pending[g][i]] = i
          /\ rx[pending[g][i]] = "empty"
    /\ \A c \in Clients :
          Registered(c) /\ rx[c] = "empty" => pending[gen[c]][rid[c]] = c

\* What is in the pipe under the id of a request is that request.
WrittenInv ==
    \A g \in Gens : \A w \in written[g] :
        /\ w[1] < nextId[g]
        /\ \A c \in Clients :
              Active(c) /\ gen[c] = g /\ rid[c] = w[1] => w[2] = call[c]

\* Only a registered request has been answered, and by its own answer.
AnswerInv ==
    \A c \in Clients :
        /\ rx[c] # "empty" => Registered(c)
        /\ rx[c] = "reply" => got[c] = call[c]

IndInv ==
    /\ PartsTypeOK
    /\ GuardInv
    /\ CountInv
    /\ IdInv
    /\ PendingInv
    /\ WrittenInv
    /\ AnswerInv

\* Before the first request nothing is started, registered or written.
LEMMA InitInd == Init => IndInv
<1> SUFFICES ASSUME Init PROVE IndInv
    OBVIOUS
<1> USE ConstantsAssumption DEF Init
<1>1. PartsTypeOK
    BY DEF PartsTypeOK, HandleTypeOK, GenTypeOK, ClientTypeOK, PC
<1>2. GuardInv /\ CountInv
    BY DEF GuardInv, CountInv, StartPC
<1>3. IdInv /\ PendingInv /\ WrittenInv /\ AnswerInv
    BY DEF IdInv, PendingInv, WrittenInv, AnswerInv, Active, Registered
<1> QED
    BY <1>1, <1>2, <1>3 DEF IndInv

\* A request takes the state mutex; the number of its call pays for an id.
LEMMA RequestInd ==
    ASSUME IndInv, NEW c \in Clients, Request(c)
    PROVE  IndInv'
<1> USE ConstantsAssumption DEF IndInv, Request
<1>1. PartsTypeOK'
    BY DEF PartsTypeOK, HandleTypeOK, GenTypeOK, ClientTypeOK, PC, StartPC, genVars
<1>2. GuardInv' /\ CountInv'
    BY DEF GuardInv, CountInv, StartPC, PartsTypeOK, HandleTypeOK, ClientTypeOK,
           GenTypeOK, genVars
<1>3. IdInv'
    BY DEF IdInv, Active, PartsTypeOK, ClientTypeOK, genVars
<1>4. PendingInv'
    BY DEF PendingInv, Registered, PartsTypeOK, ClientTypeOK, GenTypeOK, genVars
<1>5. WrittenInv' /\ AnswerInv'
    BY DEF WrittenInv, AnswerInv, Active, Registered, PartsTypeOK, ClientTypeOK,
           genVars
<1> QED
    BY <1>1, <1>2, <1>3, <1>4, <1>5

\* A client that is not registered goes on to a place where it needs no id.
LEMMA PlainInd ==
    ASSUME IndInv, NEW c \in Clients, ~Active(c),
           NEW label \in PC \ {"insert", "write", "writing", "wait"},
           pc' = [pc EXCEPT ![c] = label],
           label \in StartPC => pc[c] \in StartPC /\ call'[c] = call[c],
           label \in {"set_child", "set_pending", "set_state"} =>
               gen'[c] \in Gens,
           HandleTypeOK', GenTypeOK', ClientTypeOK',
           UNCHANGED <<nextId, pending, written, calls>>,
           \/ guard' = guard
           \/ guard = c /\ guard' = NoClient /\ label \notin StartPC,
           rx'[c] = "empty",
           \A d \in Clients \ {c} :
               /\ rx'[d] = rx[d] /\ got'[d] = got[d]
               /\ call'[d] = call[d] /\ gen'[d] = gen[d] /\ rid'[d] = rid[d]
    PROVE  IndInv'
<1> USE ConstantsAssumption
<1>0. /\ PartsTypeOK
      /\ \A d \in Clients : pc'[d] = IF d = c THEN label ELSE pc[d]
    BY DEF IndInv, PartsTypeOK, ClientTypeOK
<1>1. PartsTypeOK'
    BY DEF PartsTypeOK
<1>2. GuardInv'
    BY <1>0 DEF IndInv, GuardInv, StartPC
<1>3. CountInv'
    BY DEF IndInv, CountInv
<1>4. IdInv'
    BY <1>0 DEF IndInv, IdInv, Active
<1>5. PendingInv'
  <2>1. ~Registered(c) /\ ~Registered(c)'
    BY <1>0 DEF Active, Registered
  <2>2. \A d \in Clients \ {c} : Registered(d)' <=> Registered(d)
    BY <1>0 DEF Registered
  <2>3. \A g \in Gens, i \in Ids : pending[g][i] \in Clients \cup {NoClient}
    BY <1>0 DEF PartsTypeOK, GenTypeOK
  <2> QED
    BY <2>1, <2>2, <2>3 DEF IndInv, PendingInv
<1>6. WrittenInv'
    BY <1>0 DEF IndInv, WrittenInv, Active
<1>7. AnswerInv'
    BY <1>0 DEF IndInv, AnswerInv, Registered
<1> QED
    BY <1>1, <1>2, <1>3, <1>4, <1>5, <1>6, <1>7 DEF IndInv

\* A client takes a request id of a process and leaves the state mutex.
LEMMA TakeInd ==
    ASSUME IndInv, NEW c \in Clients, NEW g \in Gens, pc[c] \in StartPC,
           take_request_id(c, g), guard' = NoClient,
           HandleTypeOK', UNCHANGED <<pending, written>>,
           proc' \in [Gens -> {"none", "alive", "exited"}],
           reader' \in [Gens -> {"off", "reading", "done"}]
    PROVE  IndInv'
<1> USE ConstantsAssumption DEF take_request_id
<1>0. /\ PartsTypeOK /\ guard = c /\ nextId[g] \in Ids /\ rx[c] = "empty"
      /\ ~Active(c) /\ call[c] \in Calls
  <2>1. PartsTypeOK /\ guard = c /\ call[c] \in Calls
    BY DEF IndInv, GuardInv
  <2>2. ~Active(c) /\ rx[c] = "empty"
    BY DEF IndInv, AnswerInv, Registered, Active, StartPC
  <2>3. calls \in 0..MaxCalls /\ nextId[g] \in Nat
    BY <2>1 DEF PartsTypeOK, GenTypeOK, ClientTypeOK
  <2>4. nextId[g] >= 1 /\ nextId[g] <= calls
    BY <2>1 DEF IndInv, CountInv
  <2> QED
    BY <2>1, <2>2, <2>3, <2>4
<1>1. \A d \in Clients :
        /\ pc'[d] = IF d = c THEN "insert" ELSE pc[d]
        /\ gen'[d] = IF d = c THEN g ELSE gen[d]
        /\ rid'[d] = IF d = c THEN nextId[g] ELSE rid[d]
    BY <1>0 DEF PartsTypeOK, ClientTypeOK
<1>2. \A h \in Gens : nextId'[h] = IF h = g THEN nextId[g] + 1 ELSE nextId[h]
    BY <1>0 DEF PartsTypeOK, GenTypeOK
<1>3. PartsTypeOK'
  <2>1. GenTypeOK'
    BY <1>0 DEF PartsTypeOK, GenTypeOK
  <2>2. ClientTypeOK'
    BY <1>0 DEF PartsTypeOK, ClientTypeOK, PC
  <2> QED
    BY <2>1, <2>2 DEF PartsTypeOK
<1>4. GuardInv'
    BY <1>0, <1>1 DEF IndInv, GuardInv, StartPC
<1>5. CountInv'
  <2>1. calls \in Nat /\ calls' = calls /\ \A h \in Gens : nextId[h] \in Nat
    BY <1>0 DEF PartsTypeOK, GenTypeOK, ClientTypeOK
  <2>2. \A h \in Gens : nextId[h] >= 1 /\ nextId[h] <= calls
    BY <1>0 DEF IndInv, CountInv
  <2> QED
    BY <1>2, <2>1, <2>2 DEF CountInv
<1>6. IdInv'
  <2>1. \A h \in Gens : nextId[h] \in Nat /\ nextId'[h] >= nextId[h]
    BY <1>0, <1>2 DEF PartsTypeOK, GenTypeOK
  <2>2. \A d \in Clients \ {c} : Active(d)' <=> Active(d)
    BY <1>1 DEF Active
  <2>3. ASSUME NEW d \in Clients, Active(d)'
        PROVE  /\ gen'[d] \in Gens /\ rid'[d] \in Ids /\ call'[d] \in Calls
               /\ rid'[d] < nextId'[gen'[d]]
    <3>1. CASE d = c
        BY <3>1, <1>0, <1>1, <1>2, <2>1
    <3>2. CASE d # c
      <4>1. /\ gen[d] \in Gens /\ rid[d] \in Ids /\ call[d] \in Calls
            /\ rid[d] < nextId[gen[d]]
        BY <2>2, <2>3, <3>2 DEF IndInv, IdInv
      <4> QED
        BY <4>1, <3>2, <1>1, <2>1
    <3> QED
        BY <3>1, <3>2
  <2>4. ASSUME NEW d \in Clients, NEW e \in Clients, Active(d)', Active(e)',
               gen'[d] = gen'[e], rid'[d] = rid'[e]
        PROVE  d = e
    <3>1. CASE d # c /\ e # c
        BY <3>1, <2>2, <2>4, <1>1 DEF IndInv, IdInv
    <3>2. ASSUME NEW x \in Clients \ {c}, Active(x), gen[x] = g
          PROVE  rid[x] # nextId[g]
        BY <3>2, <2>1 DEF IndInv, IdInv
    <3> QED
        BY <3>1, <3>2, <2>2, <2>4, <1>1
  <2> QED
    BY <2>3, <2>4 DEF IdInv
<1>7. PendingInv'
  <2>1. ~Registered(c) /\ ~Registered(c)'
    BY <1>0, <1>1 DEF Active, Registered
  <2>2. \A d \in Clients \ {c} : Registered(d)' <=> Registered(d)
    BY <1>1 DEF Registered
  <2>3. \A h \in Gens, i \in Ids : pending[h][i] \in Clients \cup {NoClient}
    BY <1>0 DEF PartsTypeOK, GenTypeOK
  <2> QED
    BY <2>1, <2>2, <2>3, <1>1 DEF IndInv, PendingInv
<1>8. WrittenInv'
  <2>1. \A d \in Clients \ {c} : Active(d)' <=> Active(d)
    BY <1>1 DEF Active
  <2>2. \A h \in Gens : \A w \in written[h] : w[1] \in Ids /\ w[2] \in Calls
    BY <1>0 DEF PartsTypeOK, GenTypeOK
  <2>3. \A h \in Gens : nextId[h] \in Nat
    BY <1>0 DEF PartsTypeOK, GenTypeOK
  <2> QED
    BY <2>1, <2>2, <2>3, <1>1, <1>2 DEF IndInv, WrittenInv
<1>9. AnswerInv'
    BY <1>0, <1>1 DEF IndInv, AnswerInv, Registered
<1> QED
    BY <1>3, <1>4, <1>5, <1>6, <1>7, <1>8, <1>9 DEF IndInv

\* The pending map of a process is drained into errors.
LEMMA FailInd ==
    ASSUME IndInv, NEW g \in Gens, fail_pending(g),
           HandleTypeOK', guard' = guard,
           UNCHANGED <<proc, nextId, written, calls, call, gen, rid, got,
                       kchild>>,
           reader' \in [Gens -> {"off", "reading", "done"}],
           pc' \in [Clients -> PC],
           \A c \in Clients :
               \/ pc'[c] = pc[c]
               \/ pc[c] = "kill_pending" /\ pc'[c] = "kill_state"
    PROVE  IndInv'
<1> USE ConstantsAssumption
<1>0. PartsTypeOK
    BY DEF IndInv
<1>1. /\ \A h \in Gens, i \in Ids :
            pending'[h][i] = IF h = g THEN NoClient ELSE pending[h][i]
      /\ pending' \in [Gens -> [Ids -> Clients \cup {NoClient}]]
    BY <1>0 DEF PartsTypeOK, GenTypeOK, fail_pending
<1>2. /\ \A c \in Clients :
            rx'[c] = IF \E i \in Ids : pending[g][i] = c THEN "failed" ELSE rx[c]
      /\ rx' \in [Clients -> {"empty", "reply", "failed"}]
    BY <1>0 DEF PartsTypeOK, ClientTypeOK, fail_pending
<1>3. PartsTypeOK'
    BY <1>0, <1>1, <1>2 DEF PartsTypeOK, GenTypeOK, ClientTypeOK
<1>4. GuardInv' /\ CountInv'
    BY DEF IndInv, GuardInv, CountInv, StartPC
<1>5. \A c \in Clients :
        (Active(c)' <=> Active(c)) /\ (Registered(c)' <=> Registered(c))
    BY DEF Active, Registered
<1>6. IdInv' /\ WrittenInv'
    BY <1>5 DEF IndInv, IdInv, WrittenInv
<1>7. PendingInv'
  <2>1. \A h \in Gens, i \in Ids : pending[h][i] \in Clients \cup {NoClient}
    BY <1>0 DEF PartsTypeOK, GenTypeOK
  <2>2. ASSUME NEW h \in Gens, NEW i \in Ids, NEW x \in Clients,
               pending'[h][i] = x
        PROVE  /\ Registered(x)' /\ gen'[x] = h /\ rid'[x] = i
               /\ rx'[x] = "empty"
    <3>1. h # g /\ pending[h][i] = x
        BY <2>1, <2>2, <1>1
    <3>2. Registered(x) /\ gen[x] = h /\ rid[x] = i /\ rx[x] = "empty"
        BY <3>1, <2>2 DEF IndInv, PendingInv
    <3>3. ~ \E j \in Ids : pending[g][j] = x
        BY <3>1, <3>2 DEF IndInv, PendingInv
    <3> QED
        BY <3>1, <3>2, <3>3, <1>2, <1>5
  <2>3. ASSUME NEW c \in Clients, Registered(c)', rx'[c] = "empty"
        PROVE  pending'[gen'[c]][rid'[c]] = c
    <3>1. Registered(c) /\ rx[c] = "empty" /\ ~ \E i \in Ids : pending[g][i] = c
        BY <2>3, <1>2, <1>5
    <3>2. pending[gen[c]][rid[c]] = c
        BY <3>1 DEF IndInv, PendingInv
    <3>3. gen[c] \in Gens /\ rid[c] \in Ids
        BY <3>1 DEF IndInv, IdInv, Active, Registered
    <3> QED
        BY <3>1, <3>2, <3>3, <1>1
  <2> QED
    BY <2>2, <2>3, <1>1 DEF PendingInv
<1>8. AnswerInv'
  <2>1. ASSUME NEW c \in Clients, NEW i \in Ids, pending[g][i] = c
        PROVE  Registered(c)
    BY <2>1 DEF IndInv, PendingInv
  <2> QED
    BY <2>1, <1>2, <1>5 DEF IndInv, AnswerInv
<1> QED
    BY <1>3, <1>4, <1>6, <1>7, <1>8 DEF IndInv

\* A request leaves the pending map on its own account.
LEMMA LeaveInd ==
    ASSUME IndInv, NEW c \in Clients, Registered(c),
           NEW label \in {"idle", "kill_take"},
           pc' = [pc EXCEPT ![c] = label],
           pending' = [pending EXCEPT ![gen[c]][rid[c]] = NoClient],
           UNCHANGED <<handleVars, proc, reader, nextId, written, calls>>,
           ClientTypeOK', rx'[c] = "empty",
           \A d \in Clients \ {c} :
               /\ rx'[d] = rx[d] /\ got'[d] = got[d]
               /\ call'[d] = call[d] /\ gen'[d] = gen[d] /\ rid'[d] = rid[d]
    PROVE  IndInv'
<1> USE ConstantsAssumption
<1>0. /\ PartsTypeOK /\ Active(c) /\ gen[c] \in Gens /\ rid[c] \in Ids
      /\ \A d \in Clients : pc'[d] = IF d = c THEN label ELSE pc[d]
    BY DEF IndInv, IdInv, Active, Registered, PartsTypeOK, ClientTypeOK
<1>1. /\ \A h \in Gens, i \in Ids :
            pending'[h][i] = IF h = gen[c] /\ i = rid[c] THEN NoClient
                                                         ELSE pending[h][i]
      /\ pending' \in [Gens -> [Ids -> Clients \cup {NoClient}]]
    BY <1>0 DEF PartsTypeOK, GenTypeOK
<1>2. PartsTypeOK'
    BY <1>0, <1>1 DEF PartsTypeOK, GenTypeOK, HandleTypeOK, handleVars
<1>3. GuardInv' /\ CountInv'
    BY <1>0 DEF IndInv, GuardInv, CountInv, StartPC, handleVars
<1>4. IdInv' /\ WrittenInv' /\ AnswerInv'
    BY <1>0 DEF IndInv, IdInv, WrittenInv, AnswerInv, Active, Registered
<1>5. PendingInv'
  <2>1. \A h \in Gens, i \in Ids : pending[h][i] \in Clients \cup {NoClient}
    BY <1>0 DEF PartsTypeOK, GenTypeOK
  <2>2. ~Registered(c)' /\ \A d \in Clients \ {c} : Registered(d)' <=> Registered(d)
    BY <1>0 DEF Registered
  <2>3. ASSUME NEW h \in Gens, NEW i \in Ids, NEW x \in Clients,
               pending'[h][i] = x
        PROVE  /\ Registered(x)' /\ gen'[x] = h /\ rid'[x] = i
               /\ rx'[x] = "empty"
    <3>1. pending[h][i] = x /\ ~(h = gen[c] /\ i = rid[c])
        BY <2>1, <2>3, <1>1
    <3>2. Registered(x) /\ gen[x] = h /\ rid[x] = i /\ rx[x] = "empty"
        BY <3>1, <2>3 DEF IndInv, PendingInv
    <3> QED
        BY <3>1, <3>2, <2>2
  <2>4. ASSUME NEW d \in Clients, Registered(d)', rx'[d] = "empty"
        PROVE  pending'[gen'[d]][rid'[d]] = d
    <3>1. d # c /\ Registered(d) /\ rx[d] = "empty"
        BY <2>2, <2>4
    <3>2. pending[gen[d]][rid[d]] = d /\ gen[d] \in Gens /\ rid[d] \in Ids
        BY <3>1 DEF IndInv, PendingInv, IdInv, Active, Registered
    <3>3. ~(gen[d] = gen[c] /\ rid[d] = rid[c])
        BY <3>1, <1>0 DEF IndInv, IdInv, Active, Registered
    <3> QED
        BY <3>1, <3>2, <3>3, <1>1
  <2>5. \A h \in Gens, i \in Ids : pending'[h][i] \in Clients \cup {NoClient}
    BY <1>1
  <2> QED
    BY <2>3, <2>4, <2>5 DEF PendingInv
<1> QED
    BY <1>2, <1>3, <1>4, <1>5 DEF IndInv

\* A request enters the pending map under its id, which nobody else uses.
LEMMA InsertInd ==
    ASSUME IndInv, NEW c \in Clients, Insert(c)
    PROVE  IndInv'
<1> USE ConstantsAssumption
<1>0. /\ PartsTypeOK /\ Active(c) /\ gen[c] \in Gens /\ rid[c] \in Ids
      /\ ~Registered(c) /\ rx[c] = "empty"
    BY DEF IndInv, IdInv, AnswerInv, Active, Registered, Insert
<1>1. /\ \A d \in Clients : pc'[d] = IF d = c THEN "write" ELSE pc[d]
      /\ pc' \in [Clients -> PC]
    BY <1>0 DEF PartsTypeOK, ClientTypeOK, PC, Insert, Goto
<1>2. /\ \A h \in Gens, i \in Ids :
            pending'[h][i] = IF h = gen[c] /\ i = rid[c] THEN c
                                                         ELSE pending[h][i]
      /\ pending' \in [Gens -> [Ids -> Clients \cup {NoClient}]]
    BY <1>0 DEF PartsTypeOK, GenTypeOK, Insert
<1>3. UNCHANGED <<guard, sup, child, apending, proc, reader, nextId, written,
                  calls, call, gen, rid, rx, got, kchild>>
    BY DEF Insert, Goto, handleVars
<1>4. PartsTypeOK'
    BY <1>0, <1>1, <1>2, <1>3 DEF PartsTypeOK, HandleTypeOK, GenTypeOK, ClientTypeOK
<1>5. GuardInv' /\ CountInv'
    BY <1>1, <1>3 DEF IndInv, GuardInv, CountInv, StartPC
<1>6. \A d \in Clients :
        /\ Active(d)' <=> Active(d)
        /\ Registered(d)' <=> Registered(d) \/ d = c
    BY <1>0, <1>1 DEF Active, Registered
<1>7. IdInv' /\ WrittenInv' /\ AnswerInv'
    BY <1>3, <1>6 DEF IndInv, IdInv, WrittenInv, AnswerInv
<1>8. PendingInv'
  <2>1. ASSUME NEW h \in Gens, NEW i \in Ids, NEW x \in Clients,
               pending'[h][i] = x
        PROVE  /\ Registered(x)' /\ gen'[x] = h /\ rid'[x] = i
               /\ rx'[x] = "empty"
    <3>1. CASE h = gen[c] /\ i = rid[c]
        BY <3>1, <2>1, <1>0, <1>2, <1>3, <1>6
    <3>2. CASE ~(h = gen[c] /\ i = rid[c])
      <4>1. pending[h][i] = x
        BY <3>2, <2>1, <1>2
      <4>2. Registered(x) /\ gen[x] = h /\ rid[x] = i /\ rx[x] = "empty"
        BY <4>1 DEF IndInv, PendingInv
      <4> QED
        BY <4>2, <1>3, <1>6
    <3> QED
        BY <3>1, <3>2
  <2>2. ASSUME NEW d \in Clients, Registered(d)', rx'[d] = "empty"
        PROVE  pending'[gen'[d]][rid'[d]] = d
    <3>1. CASE d = c
        BY <3>1, <1>0, <1>2, <1>3
    <3>2. CASE d # c
      <4>1. Registered(d) /\ rx[d] = "empty"
        BY <3>2, <2>2, <1>3, <1>6
      <4>2. pending[gen[d]][rid[d]] = d /\ gen[d] \in Gens /\ rid[d] \in Ids
        BY <4>1 DEF IndInv, PendingInv, IdInv, Active, Registered
      <4>3. ~(gen[d] = gen[c] /\ rid[d] = rid[c])
        BY <4>1, <3>2, <1>0 DEF IndInv, IdInv, Active, Registered
      <4> QED
        BY <4>2, <4>3, <1>2, <1>3
    <3> QED
        BY <3>1, <3>2
  <2> QED
    BY <2>1, <2>2, <1>2 DEF PendingInv
<1> QED
    BY <1>4, <1>5, <1>7, <1>8 DEF IndInv

\* A request that has the stdin mutex is still registered under its id.
LEMMA LockInd ==
    ASSUME IndInv, NEW c \in Clients, LockStdin(c)
    PROVE  IndInv'
<1>0. PartsTypeOK /\ pc[c] = "write"
    BY DEF IndInv, LockStdin
<1>1. /\ \A d \in Clients : pc'[d] = IF d = c THEN "writing" ELSE pc[d]
      /\ pc' \in [Clients -> PC]
    BY <1>0 DEF PartsTypeOK, ClientTypeOK, PC, LockStdin, Goto
<1>2. UNCHANGED <<guard, sup, child, apending, proc, reader, nextId, pending,
                  written, calls, call, gen, rid, rx, got, kchild>>
    BY DEF LockStdin, Goto, handleVars
<1>3. PartsTypeOK'
    BY <1>0, <1>1, <1>2 DEF PartsTypeOK, HandleTypeOK, GenTypeOK, ClientTypeOK
<1>4. GuardInv' /\ CountInv'
    BY <1>1, <1>2 DEF IndInv, GuardInv, CountInv, StartPC
<1>5. \A d \in Clients :
        (Active(d)' <=> Active(d)) /\ (Registered(d)' <=> Registered(d))
    BY <1>0, <1>1 DEF Active, Registered
<1>6. IdInv' /\ WrittenInv' /\ AnswerInv'
    BY <1>2, <1>5 DEF IndInv, IdInv, WrittenInv, AnswerInv
<1>7. PendingInv'
  <2>1. \A h \in Gens, i \in Ids : pending[h][i] \in Clients \cup {NoClient}
    BY <1>0 DEF PartsTypeOK, GenTypeOK
  <2> QED
    BY <2>1, <1>2, <1>5 DEF IndInv, PendingInv
<1> QED
    BY <1>3, <1>4, <1>6, <1>7 DEF IndInv

\* The request goes into the pipe under its id.
LEMMA SentInd ==
    ASSUME IndInv, NEW c \in Clients, pc[c] = "writing", Goto(c, "wait"),
           written' = [written EXCEPT ![gen[c]] = @ \cup {<<rid[c], call[c]>>}],
           UNCHANGED <<handleVars, proc, reader, nextId, pending>>
    PROVE  IndInv'
<1> USE ConstantsAssumption
<1>0. /\ PartsTypeOK /\ Active(c) /\ gen[c] \in Gens /\ rid[c] \in Ids
      /\ call[c] \in Calls /\ rid[c] < nextId[gen[c]]
    BY DEF IndInv, IdInv, Active
<1>1. /\ \A d \in Clients : pc'[d] = IF d = c THEN "wait" ELSE pc[d]
      /\ pc' \in [Clients -> PC]
    BY <1>0 DEF PartsTypeOK, ClientTypeOK, PC, Goto
<1>2. /\ \A h \in Gens : written'[h] =
            IF h = gen[c] THEN written[h] \cup {<<rid[c], call[c]>>} ELSE written[h]
      /\ written' \in [Gens -> SUBSET (Ids \X Calls)]
  <2>1. written \in [Gens -> SUBSET (Ids \X Calls)]
    BY <1>0 DEF PartsTypeOK, GenTypeOK
  <2>2. <<rid[c], call[c]>> \in Ids \X Calls
    BY <1>0
  <2> HIDE DEF Gens, Ids, Calls
  <2> QED
    BY <2>1, <2>2, <1>0
<1>3. UNCHANGED <<guard, sup, child, apending, calls, call, gen, rid, rx, got,
                  kchild>>
    BY DEF Goto, handleVars
<1>4. PartsTypeOK'
    BY <1>0, <1>1, <1>2, <1>3 DEF PartsTypeOK, HandleTypeOK, GenTypeOK, ClientTypeOK
<1>5. GuardInv' /\ CountInv'
    BY <1>1, <1>3 DEF IndInv, GuardInv, CountInv, StartPC
<1>6. \A d \in Clients :
        (Active(d)' <=> Active(d)) /\ (Registered(d)' <=> Registered(d))
    BY <1>1 DEF Active, Registered
<1>7. IdInv' /\ AnswerInv'
    BY <1>3, <1>6 DEF IndInv, IdInv, AnswerInv
<1>8. PendingInv'
  <2>1. \A h \in Gens, i \in Ids : pending[h][i] \in Clients \cup {NoClient}
    BY <1>0 DEF PartsTypeOK, GenTypeOK
  <2> QED
    BY <2>1, <1>3, <1>6 DEF IndInv, PendingInv
<1>9. WrittenInv'
  <2>1. ASSUME NEW h \in Gens, NEW w \in written'[h]
        PROVE  /\ w[1] < nextId'[h]
               /\ \A d \in Clients :
                     Active(d)' /\ gen'[d] = h /\ rid'[d] = w[1] => w[2] = call'[d]
    <3>1. CASE w \in written[h]
        BY <3>1, <1>3, <1>6 DEF IndInv, WrittenInv
    <3>2. CASE w \notin written[h]
      <4>1. h = gen[c] /\ w = <<rid[c], call[c]>>
        BY <3>2, <2>1, <1>2
      <4>2. ASSUME NEW d \in Clients, Active(d)', gen'[d] = h, rid'[d] = w[1]
            PROVE  d = c
        BY <4>1, <4>2, <1>0, <1>3, <1>6 DEF IndInv, IdInv
      <4> QED
        BY <4>1, <4>2, <1>0, <1>3
    <3> QED
        BY <3>1, <3>2
  <2> QED
    BY <2>1 DEF WrittenInv
<1> QED
    BY <1>4, <1>5, <1>7, <1>8, <1>9 DEF IndInv

\* An answered request returns: it is no longer in the pending map.
LEMMA ReceiveInd ==
    ASSUME IndInv, NEW c \in Clients, Receive(c)
    PROVE  IndInv'
<1> USE ConstantsAssumption DEF Receive, Return, handleVars, genVars
<1>0. PartsTypeOK
    BY DEF IndInv
<1>1. \A d \in Clients :
        /\ pc'[d] = IF d = c THEN "idle" ELSE pc[d]
        /\ rx'[d] = IF d = c THEN "empty" ELSE rx[d]
        /\ got'[d] = IF d = c THEN 0 ELSE got[d]
        /\ call'[d] = IF d = c THEN 0 ELSE call[d]
        /\ gen'[d] = IF d = c THEN 0 ELSE gen[d]
        /\ rid'[d] = IF d = c THEN 0 ELSE rid[d]
    BY <1>0 DEF PartsTypeOK, ClientTypeOK
<1>2. PartsTypeOK'
    BY <1>0 DEF PartsTypeOK, HandleTypeOK, GenTypeOK, ClientTypeOK, PC
<1>3. GuardInv' /\ CountInv'
    BY <1>1 DEF IndInv, GuardInv, CountInv, StartPC
<1>4. ~Active(c)' /\ ~Registered(c)'
    BY <1>1 DEF Active, Registered
<1>5. \A d \in Clients \ {c} :
        (Active(d)' <=> Active(d)) /\ (Registered(d)' <=> Registered(d))
    BY <1>1 DEF Active, Registered
<1>6. IdInv' /\ WrittenInv' /\ AnswerInv'
    BY <1>1, <1>4, <1>5 DEF IndInv, IdInv, WrittenInv, AnswerInv
<1>7. PendingInv'
  <2>1. \A h \in Gens, i \in Ids :
          pending[h][i] \in Clients \cup {NoClient} /\ pending[h][i] # c
    BY <1>0 DEF IndInv, PendingInv, PartsTypeOK, GenTypeOK
  <2> QED
    BY <2>1, <1>1, <1>4, <1>5 DEF IndInv, PendingInv
<1> QED
    BY <1>2, <1>3, <1>6, <1>7 DEF IndInv

\* The reader hands a response to the request that waits under its id.
LEMMA ReplyInd ==
    ASSUME IndInv, NEW g \in Gens, ReaderReply(g)
    PROVE  IndInv'
<1> USE ConstantsAssumption
<1>0. PartsTypeOK
    BY DEF IndInv
<1> PICK w \in written[g] :
        /\ written' = [written EXCEPT ![g] = @ \ {w}]
        /\ pending' = [pending EXCEPT ![g][w[1]] = NoClient]
        /\ IF pending[g][w[1]] = NoClient THEN UNCHANGED <<rx, got>>
           ELSE /\ rx' = [rx EXCEPT ![pending[g][w[1]]] = "reply"]
                /\ got' = [got EXCEPT ![pending[g][w[1]]] = w[2]]
        /\ UNCHANGED <<handleVars, proc, reader, nextId, calls, pc, call, gen,
                       rid, kchild>>
    BY DEF ReaderReply
<1>1. w[1] \in Ids /\ w[2] \in Calls
    BY <1>0 DEF PartsTypeOK, GenTypeOK
<1>2. /\ \A h \in Gens, i \in Ids :
            pending'[h][i] = IF h = g /\ i = w[1] THEN NoClient ELSE pending[h][i]
      /\ pending' \in [Gens -> [Ids -> Clients \cup {NoClient}]]
    BY <1>0, <1>1 DEF PartsTypeOK, GenTypeOK
<1>3. /\ \A d \in Clients :
            /\ rx'[d] = IF pending[g][w[1]] = d THEN "reply" ELSE rx[d]
            /\ got'[d] = IF pending[g][w[1]] = d THEN w[2] ELSE got[d]
      /\ rx' \in [Clients -> {"empty", "reply", "failed"}]
      /\ got' \in [Clients -> Calls \cup {0}]
  <2>1. pending[g][w[1]] \in Clients \cup {NoClient}
    BY <1>0, <1>1 DEF PartsTypeOK, GenTypeOK
  <2>2. CASE pending[g][w[1]] = NoClient
    BY <2>2, <1>0 DEF PartsTypeOK, ClientTypeOK
  <2>3. CASE pending[g][w[1]] # NoClient
    BY <2>1, <2>3, <1>0, <1>1 DEF PartsTypeOK, ClientTypeOK
  <2> QED
    BY <2>2, <2>3
<1>4. /\ \A h \in Gens : written'[h] \subseteq written[h]
      /\ written' \in [Gens -> SUBSET (Ids \X Calls)]
    BY <1>0 DEF PartsTypeOK, GenTypeOK
<1>5. PartsTypeOK'
    BY <1>0, <1>2, <1>3, <1>4
    DEF PartsTypeOK, HandleTypeOK, GenTypeOK, ClientTypeOK, handleVars
<1>6. GuardInv' /\ CountInv'
    BY DEF IndInv, GuardInv, CountInv, StartPC, handleVars
<1>7. \A d \in Clients :
        (Active(d)' <=> Active(d)) /\ (Registered(d)' <=> Registered(d))
    BY DEF Active, Registered
<1>8. IdInv' /\ WrittenInv'
    BY <1>4, <1>7 DEF IndInv, IdInv, WrittenInv
<1>9. PendingInv'
  <2>1. ASSUME NEW h \in Gens, NEW i \in Ids, NEW x \in Clients,
               pending'[h][i] = x
        PROVE  /\ Registered(x)' /\ gen'[x] = h /\ rid'[x] = i
               /\ rx'[x] = "empty"
    <3>1. pending[h][i] = x /\ ~(h = g /\ i = w[1])
        BY <2>1, <1>2
    <3>2. Registered(x) /\ gen[x] = h /\ rid[x] = i /\ rx[x] = "empty"
        BY <3>1 DEF IndInv, PendingInv
    <3>3. pending[g][w[1]] # x
        BY <3>1, <3>2, <1>1 DEF IndInv, PendingInv
    <3> QED
        BY <3>2, <3>3, <1>3, <1>7
  <2>2. ASSUME NEW d \in Clients, Registered(d)', rx'[d] = "empty"
        PROVE  pending'[gen'[d]][rid'[d]] = d
    <3>1. Registered(d) /\ rx[d] = "empty" /\ pending[g][w[1]] # d
        BY <2>2, <1>3, <1>7
    <3>2. pending[gen[d]][rid[d]] = d /\ gen[d] \in Gens /\ rid[d] \in Ids
        BY <3>1 DEF IndInv, PendingInv, IdInv, Active, Registered
    <3> QED
        BY <3>1, <3>2, <1>2
  <2> QED
    BY <2>1, <2>2, <1>2 DEF PendingInv
<1>10. AnswerInv'
  <2>1. ASSUME NEW d \in Clients, pending[g][w[1]] = d
        PROVE  Registered(d) /\ w[2] = call[d]
    <3>1. Registered(d) /\ gen[d] = g /\ rid[d] = w[1]
        BY <2>1, <1>1 DEF IndInv, PendingInv
    <3> QED
        BY <3>1 DEF IndInv, WrittenInv, Active, Registered
  <2> QED
    BY <2>1, <1>3, <1>7 DEF IndInv, AnswerInv
<1> QED
    BY <1>5, <1>6, <1>8, <1>9, <1>10 DEF IndInv

\* The steps of a client, one by one.
LEMMA ClientInd ==
    ASSUME IndInv, NEW c \in Clients, ClientStep(c)
    PROVE  IndInv'
<1> USE ConstantsAssumption
<1>0. PartsTypeOK /\ HandleTypeOK /\ GenTypeOK /\ ClientTypeOK
    BY DEF IndInv, PartsTypeOK
<1>r. ASSUME Return(c), ~Active(c), HandleTypeOK', GenTypeOK',
             UNCHANGED <<nextId, pending, written>>,
             guard' = guard \/ (guard = c /\ guard' = NoClient)
      PROVE  IndInv'
  <2>1. ClientTypeOK'
    BY <1>0, <1>r DEF ClientTypeOK, Return, PC
  <2>2. /\ rx'[c] = "empty"
        /\ \A d \in Clients \ {c} :
              /\ rx'[d] = rx[d] /\ got'[d] = got[d]
              /\ call'[d] = call[d] /\ gen'[d] = gen[d] /\ rid'[d] = rid[d]
    BY <1>0, <1>r DEF ClientTypeOK, Return
  <2>3. "idle" \in PC \ {"insert", "write", "writing", "wait"} /\ "idle" \notin StartPC
    BY DEF PC, StartPC
  <2>4. pc' = [pc EXCEPT ![c] = "idle"] /\ calls' = calls
    BY <1>r DEF Return
  <2> QED
    BY <2>1, <2>2, <2>3, <2>4, <1>r, PlainInd
<1>g. ASSUME NEW label \in PC \ {"insert", "write", "writing", "wait"}, Goto(c, label),
             ~Active(c), HandleTypeOK', UNCHANGED <<guard, genVars>>,
             label \in StartPC => pc[c] \in StartPC,
             label \in {"set_child", "set_pending", "set_state"} =>
                 gen[c] \in Gens
      PROVE  IndInv'
  <2>1. ClientTypeOK' /\ GenTypeOK'
    BY <1>0, <1>g DEF ClientTypeOK, GenTypeOK, Goto, genVars
  <2>2. rx[c] = "empty"
    BY <1>0, <1>g DEF IndInv, AnswerInv, Active, Registered
  <2>3. /\ pc' = [pc EXCEPT ![c] = label]
        /\ UNCHANGED <<calls, call, gen, rid, rx, got, nextId, pending, written>>
    BY <1>g DEF Goto, genVars
  <2> QED
    BY <2>1, <2>2, <2>3, <1>g, PlainInd
<1>1. CASE CheckAlive(c)
  <2>1. pc[c] = "check" /\ guard = c /\ ~Active(c) /\ pc[c] \in StartPC
    BY <1>1 DEF CheckAlive, IndInv, GuardInv, StartPC, Active
  <2>2. /\ HandleTypeOK' /\ UNCHANGED <<proc, reader, pending, stdin, written>>
    BY <1>0, <1>1 DEF CheckAlive, HandleTypeOK, Goto
  <2>3. CASE guard' = NoClient /\ sup # 0 /\ take_request_id(c, sup)
    BY <2>1, <2>2, <2>3, <1>0, TakeInd DEF HandleTypeOK, GenTypeOK
  <2>4. CASE Goto(c, "clear_child") /\ UNCHANGED <<guard, nextId>>
    BY <2>1, <2>2, <2>4, <1>g DEF PC, StartPC, genVars
  <2>5. CASE Goto(c, "spawn") /\ UNCHANGED <<guard, nextId>>
    BY <2>1, <2>2, <2>5, <1>g DEF PC, StartPC, genVars
  <2>6. CASE guard' = NoClient /\ Return(c) /\ UNCHANGED nextId
    BY <2>1, <2>2, <2>6, <1>0, <1>r DEF GenTypeOK
  <2> QED
    BY <2>3, <2>4, <2>5, <2>6, <1>1 DEF CheckAlive
<1>2. CASE ClearChild(c) \/ ClearPending(c)
  <2>1. /\ pc[c] \in StartPC /\ ~Active(c) /\ UNCHANGED <<guard, genVars>>
        /\ HandleTypeOK'
    BY <1>0, <1>2 DEF ClearChild, ClearPending, StartPC, Active, HandleTypeOK
  <2> QED
    BY <2>1, <1>2, <1>g DEF ClearChild, ClearPending, PC, StartPC
<1>3. CASE Spawn(c)
  <2>1. pc[c] = "spawn" /\ guard = c /\ call[c] \in Calls /\ ~Active(c)
    BY <1>3 DEF Spawn, IndInv, GuardInv, StartPC, Active
  <2>2. /\ UNCHANGED <<sup, child, apending, reader, nextId, pending, written>>
        /\ rx[c] = "empty"
    BY <1>3, <2>1 DEF Spawn, IndInv, AnswerInv, Registered
  <2>3. ASSUME NEW g \in Gens, proc' = [proc EXCEPT ![g] = "alive"],
               gen' = [gen EXCEPT ![c] = g],
               pc' = [pc EXCEPT ![c] = "set_child"],
               UNCHANGED <<guard, calls, call, rid, rx, got, kchild>>
        PROVE  IndInv'
    <3>1. HandleTypeOK' /\ GenTypeOK'
        BY <1>0, <2>2, <2>3 DEF HandleTypeOK, GenTypeOK
    <3>2. ClientTypeOK'
        BY <1>0, <2>3 DEF ClientTypeOK, PC, StartPC
    <3>3. gen'[c] = g /\ \A d \in Clients \ {c} : gen'[d] = gen[d]
        BY <1>0, <2>3 DEF ClientTypeOK
    <3>4. "set_child" \in PC \ {"insert", "write", "writing", "wait"} /\ pc[c] \in StartPC
        BY <2>1 DEF PC, StartPC
    <3> QED
        BY <3>1, <3>2, <3>3, <3>4, <2>1, <2>2, <2>3, PlainInd
  <2>4. CASE guard' = NoClient /\ Return(c) /\ UNCHANGED proc
    <3>1. HandleTypeOK' /\ GenTypeOK'
        BY <1>0, <2>2, <2>4 DEF HandleTypeOK, GenTypeOK
    <3> QED
        BY <3>1, <2>1, <2>2, <2>4, <1>r
  <2> QED
    BY <2>3, <2>4, <1>3 DEF Spawn
<1>4. CASE SetChild(c) \/ SetPending(c)
  <2>1. /\ pc[c] \in StartPC /\ ~Active(c) /\ UNCHANGED <<guard, genVars>>
        /\ gen[c] \in Gens /\ HandleTypeOK'
    BY <1>0, <1>4 DEF SetChild, SetPending, StartPC, Active, HandleTypeOK,
                      IndInv, GuardInv
  <2> QED
    BY <2>1, <1>4, <1>g DEF SetChild, SetPending, PC, StartPC
<1>5. CASE SetState(c)
  <2>1. pc[c] \in StartPC /\ gen[c] \in Gens
    BY <1>5 DEF SetState, StartPC, IndInv, GuardInv
  <2>2. HandleTypeOK'
    BY <1>0, <1>5, <2>1 DEF SetState, HandleTypeOK
  <2>3. /\ proc' \in [Gens -> {"none", "alive", "exited"}]
        /\ reader' \in [Gens -> {"off", "reading", "done"}]
    BY <1>0, <1>5, <2>1 DEF SetState, GenTypeOK
  <2> QED
    BY <1>5, <2>1, <2>2, <2>3, TakeInd DEF SetState
<1>6. CASE Insert(c)
    BY <1>6, InsertInd
<1>l. CASE LockStdin(c)
    BY <1>l, LockInd
<1>7. CASE Write(c)
  <2>1. CASE written' = [written EXCEPT ![gen[c]] = @ \cup {<<rid[c], call[c]>>}]
             /\ Goto(c, "wait") /\ UNCHANGED pending
    BY <2>1, <1>7, SentInd DEF Write
  <2>2. CASE pending' = [pending EXCEPT ![gen[c]][rid[c]] = NoClient]
             /\ Return(c) /\ UNCHANGED written
    <3>1. Registered(c) /\ UNCHANGED <<handleVars, proc, reader, nextId>>
        BY <1>7 DEF Write, Registered
    <3>2. ClientTypeOK'
        BY <1>0, <2>2 DEF ClientTypeOK, Return, PC
    <3>3. /\ rx'[c] = "empty"
          /\ \A d \in Clients \ {c} :
                /\ rx'[d] = rx[d] /\ got'[d] = got[d]
                /\ call'[d] = call[d] /\ gen'[d] = gen[d] /\ rid'[d] = rid[d]
        BY <1>0, <2>2 DEF ClientTypeOK, Return
    <3>4. pc' = [pc EXCEPT ![c] = "idle"] /\ calls' = calls
        BY <2>2 DEF Return
    <3> QED
        BY <3>1, <3>2, <3>3, <3>4, <2>2, LeaveInd
  <2> QED
    BY <2>1, <2>2, <1>7 DEF Write
<1>8. CASE Receive(c)
    BY <1>8, ReceiveInd
<1>9. CASE Timeout(c)
  <2>1. Registered(c) /\ rx[c] = "empty" /\ Goto(c, "kill_take")
    BY <1>9 DEF Timeout, Registered
  <2>2. ClientTypeOK'
    BY <1>0, <2>1 DEF ClientTypeOK, Goto, PC, KillPC
  <2> QED
    BY <2>1, <2>2, <1>9, LeaveInd DEF Timeout, Goto
<1>10. CASE KillTake(c)
  <2>1. /\ pc[c] = "kill_take" /\ ~Active(c) /\ rx[c] = "empty"
        /\ UNCHANGED <<guard, genVars, calls, call, gen, rid, rx, got>>
    BY <1>10 DEF KillTake, Active, IndInv, AnswerInv, Registered
  <2>2. PICK label \in {"kill_pending", "kill_process"} :
            pc' = [pc EXCEPT ![c] = label]
    BY <1>10 DEF KillTake
  <2>3. HandleTypeOK' /\ GenTypeOK'
    BY <1>0, <1>10 DEF KillTake, HandleTypeOK, GenTypeOK, genVars
  <2>4. ClientTypeOK'
    BY <1>0, <1>10, <2>1 DEF KillTake, HandleTypeOK, ClientTypeOK, PC, KillPC
  <2>5. label \in PC \ {"insert", "write", "writing", "wait"} /\ label \notin StartPC
    BY DEF PC, KillPC, StartPC
  <2> QED
    BY <2>1, <2>2, <2>3, <2>4, <2>5, PlainInd DEF genVars, StartPC
<1>11. CASE KillProcess(c)
  <2>1. /\ pc[c] = "kill_process" /\ ~Active(c) /\ rx[c] = "empty"
        /\ UNCHANGED <<handleVars, reader, nextId, pending, written>>
    BY <1>11 DEF KillProcess, Active, IndInv, AnswerInv, Registered
  <2>2. HandleTypeOK'
    BY <1>0, <2>1 DEF HandleTypeOK, handleVars
  <2>3. GenTypeOK'
    BY <1>0, <1>11 DEF KillProcess, GenTypeOK
  <2>4. CASE pc' = [pc EXCEPT ![c] = "kill_pending"]
             /\ kchild' = [kchild EXCEPT ![c] = 0]
             /\ UNCHANGED <<calls, call, gen, rid, rx, got>>
    <3>1. ClientTypeOK'
        BY <1>0, <2>4 DEF ClientTypeOK, PC, KillPC
    <3>2. /\ "kill_pending" \in PC \ {"insert", "write", "writing", "wait"}
          /\ "kill_pending" \notin StartPC
        BY DEF PC, KillPC, StartPC
    <3> QED
        BY <3>1, <3>2, <2>1, <2>2, <2>3, <2>4, PlainInd DEF handleVars
  <2>5. CASE Return(c)
    BY <2>1, <2>2, <2>3, <2>5, <1>r DEF handleVars
  <2> QED
    BY <2>4, <2>5, <1>11 DEF KillProcess
<1>12. CASE KillPending(c)
  <2>1. /\ pc[c] = "kill_pending" /\ ~Active(c) /\ rx[c] = "empty"
        /\ pc' = [pc EXCEPT ![c] = "kill_state"]
        /\ UNCHANGED <<guard, sup, child, proc, reader, nextId, written, calls,
                       call, gen, rid, got, kchild>>
    BY <1>12 DEF KillPending, Active, IndInv, AnswerInv, Registered
  <2>2. HandleTypeOK'
    BY <1>0, <1>12 DEF KillPending, HandleTypeOK
  <2>3. CASE apending = 0
    <3>1. UNCHANGED <<pending, rx>>
        BY <1>12, <2>3 DEF KillPending
    <3>2. GenTypeOK' /\ ClientTypeOK'
        BY <1>0, <2>1, <3>1 DEF GenTypeOK, ClientTypeOK, PC, KillPC
    <3>3. /\ "kill_state" \in PC \ {"insert", "write", "writing", "wait"}
          /\ "kill_state" \notin StartPC
        BY DEF PC, KillPC, StartPC
    <3> QED
        BY <3>1, <3>2, <3>3, <2>1, <2>2, PlainInd
  <2>4. CASE apending # 0
    <3>1. apending \in Gens /\ fail_pending(apending)
        BY <1>0, <1>12, <2>4 DEF KillPending, HandleTypeOK
    <3>2. /\ pc' \in [Clients -> PC]
          /\ \A d \in Clients :
                \/ pc'[d] = pc[d]
                \/ pc[d] = "kill_pending" /\ pc'[d] = "kill_state"
        BY <1>0, <2>1 DEF ClientTypeOK, PC, KillPC
    <3>3. reader' \in [Gens -> {"off", "reading", "done"}]
        BY <1>0, <2>1 DEF GenTypeOK
    <3> QED
        BY <3>1, <3>2, <3>3, <2>1, <2>2, FailInd
  <2> QED
    BY <2>3, <2>4
<1>13. CASE KillState(c)
  <2>1. ~Active(c) /\ Return(c) /\ UNCHANGED <<guard, child, apending, genVars>>
    BY <1>13 DEF KillState, Active
  <2>2. HandleTypeOK' /\ GenTypeOK'
    BY <1>0, <1>13 DEF KillState, HandleTypeOK, GenTypeOK, genVars
  <2> QED
    BY <2>1, <2>2, <1>r DEF genVars
<1> QED
    BY <1>1, <1>2, <1>3, <1>4, <1>5, <1>6, <1>l, <1>7, <1>8, <1>9, <1>10,
       <1>11, <1>12, <1>13 DEF ClientStep

\* The steps of the reader threads and of the processes.
LEMMA ProcessInd ==
    ASSUME IndInv, NEW g \in Gens,
           ReaderReply(g) \/ ReaderEnd(g) \/ ProcessExit(g)
    PROVE  IndInv'
<1> USE ConstantsAssumption
<1>0. HandleTypeOK /\ GenTypeOK /\ ClientTypeOK
    BY DEF IndInv, PartsTypeOK
<1>1. CASE ReaderReply(g)
    BY <1>1, ReplyInd
<1>2. CASE ReaderEnd(g)
  <2>1. /\ HandleTypeOK' /\ guard' = guard
        /\ reader' \in [Gens -> {"off", "reading", "done"}]
        /\ pc' \in [Clients -> PC]
    BY <1>0, <1>2 DEF ReaderEnd, HandleTypeOK, GenTypeOK, ClientTypeOK, handleVars
  <2> QED
    BY <2>1, <1>2, FailInd DEF ReaderEnd
<1>3. CASE ProcessExit(g)
  <2>1. UNCHANGED <<handleVars, reader, nextId, pending, written, clientVars>>
    BY <1>3 DEF ProcessExit
  <2>2. PartsTypeOK'
    BY <1>0, <1>3 DEF ProcessExit, PartsTypeOK, HandleTypeOK, GenTypeOK,
                      ClientTypeOK, handleVars, clientVars
  <2>3. GuardInv' /\ CountInv' /\ IdInv'
    BY <2>1 DEF IndInv, GuardInv, CountInv, IdInv, Active, handleVars, clientVars
  <2>4. PendingInv' /\ WrittenInv' /\ AnswerInv'
    BY <2>1 DEF IndInv, PendingInv, WrittenInv, AnswerInv, Active, Registered,
                handleVars, clientVars
  <2> QED
    BY <2>2, <2>3, <2>4 DEF IndInv
<1> QED
    BY <1>1, <1>2, <1>3

\* Every step of a request, of a reader or of a process keeps the invariant.
LEMMA NextInd == IndInv /\ [Next]_vars => IndInv'
<1> SUFFICES ASSUME IndInv, [Next]_vars PROVE IndInv'
    OBVIOUS
<1>1. CASE UNCHANGED vars
  <2>1. UNCHANGED <<guard, sup, child, apending, proc, reader, nextId, pending,
                    written, calls, pc, call, gen, rid, rx, got, kchild>>
    BY <1>1 DEF vars, handleVars, genVars, clientVars
  <2>2. PartsTypeOK'
    BY <2>1 DEF IndInv, PartsTypeOK, HandleTypeOK, GenTypeOK, ClientTypeOK
  <2>3. GuardInv' /\ CountInv' /\ IdInv'
    BY <2>1 DEF IndInv, GuardInv, CountInv, IdInv, Active
  <2>4. PendingInv' /\ WrittenInv' /\ AnswerInv'
    BY <2>1 DEF IndInv, PendingInv, WrittenInv, AnswerInv, Active, Registered
  <2> QED
    BY <2>2, <2>3, <2>4 DEF IndInv
<1> QED
    BY <1>1, RequestInd, ClientInd, ProcessInd DEF Next

-----------------------------------------------------------------------------

\* The inductive invariant holds in every reachable state.
THEOREM Invariance == Spec => []IndInv
    BY InitInd, NextInd, PTL DEF Spec

\* The stdin mutex of a process is held by a client or by nobody: only the two
\* steps of a write touch it.
LEMMA NextStdin == IndInv /\ StdinTypeOK /\ [Next]_vars => StdinTypeOK'
<1> SUFFICES ASSUME IndInv, StdinTypeOK, [Next]_vars PROVE StdinTypeOK'
    OBVIOUS
<1>1. ASSUME NEW c \in Clients, LockStdin(c) \/ Write(c)
      PROVE  StdinTypeOK'
    BY <1>1 DEF LockStdin, Write, StdinTypeOK
<1>2. ASSUME UNCHANGED stdin PROVE StdinTypeOK'
    BY <1>2 DEF StdinTypeOK
<1>3. ASSUME NEW c \in Clients, Request(c) PROVE UNCHANGED stdin
    BY <1>3 DEF Request, genVars
<1>4. ASSUME NEW c \in Clients, ClientStep(c), ~LockStdin(c), ~Write(c)
      PROVE  UNCHANGED stdin
    BY <1>4 DEF ClientStep, CheckAlive, ClearChild, ClearPending, Spawn, SetChild,
                SetPending, SetState, Insert, Receive, Timeout, KillTake,
                KillProcess, KillPending, KillState, genVars
<1>5. ASSUME NEW g \in Gens, ReaderReply(g) \/ ReaderEnd(g) \/ ProcessExit(g)
      PROVE  UNCHANGED stdin
    BY <1>5 DEF ReaderReply, ReaderEnd, ProcessExit
<1>6. CASE UNCHANGED vars
    BY <1>2, <1>6 DEF vars, genVars
<1> QED
    BY <1>1, <1>2, <1>3, <1>4, <1>5, <1>6 DEF Next

\* Type correctness, request ids within what was issued included.
THEOREM TypeCorrect == Spec => []TypeOK
<1>1. Init => StdinTypeOK
    BY DEF Init, StdinTypeOK
<1>2. IndInv /\ StdinTypeOK => TypeOK
    BY DEF IndInv, PartsTypeOK, TypeOK
<1> QED
    BY <1>1, <1>2, NextStdin, Invariance, PTL DEF Spec

\* request_blocking returns the response to its own request: the ids of a
\* process are never reused and a restart brings a map of its own.
THEOREM NoCrosstalk == Spec => []OwnAnswer
<1>1. IndInv => OwnAnswer
    BY DEF IndInv, AnswerInv, OwnAnswer
<1> QED
    BY <1>1, Invariance, PTL

\* A request that waits is in the map that its reader thread serves, or its
\* answer is in its channel.
THEOREM NoLostResponse == Spec => []WaitingIsPending
<1>1. IndInv => WaitingIsPending
    BY DEF IndInv, PendingInv, Registered, WaitingIsPending
<1> QED
    BY <1>1, Invariance, PTL

-----------------------------------------------------------------------------
(* kill finds the process *)

\* A process that a timeout can still kill, or that is beyond it.
Killable(g) ==
    \/ g \in Stubborn \/ proc[g] # "alive" \/ child = g
    \/ \E c \in Clients : kchild[c] = g

\* Whoever starts a process has found state empty, so that the active_child it
\* overwrites is not the one in use; what kill takes out of active_child it
\* has in its hands until it is dead.
KillInv ==
    /\ \A c \in Clients :
          /\ pc[c] # "kill_process" => kchild[c] = 0
          /\ pc[c] \in StartPC \ {"check"} => sup = 0
          /\ pc[c] \in {"set_pending", "set_state"} => Killable(gen[c])
    /\ sup # 0 => Killable(sup)

\* A client that has no process in its hands goes on to a place outside of the
\* start of a process.
LEMMA LeaveKill ==
    ASSUME IndInv, KillInv, NEW c \in Clients, pc[c] # "kill_process",
           NEW label \in PC \ (StartPC \cup {"kill_process"}),
           pc' = [pc EXCEPT ![c] = label], kchild'[c] = 0,
           \A d \in Clients \ {c} : gen'[d] = gen[d] /\ kchild'[d] = kchild[d],
           sup' \in {sup, 0}, UNCHANGED <<child, proc>>
    PROVE  KillInv'
<1>1. \A d \in Clients : pc'[d] = IF d = c THEN label ELSE pc[d]
    BY DEF IndInv, PartsTypeOK, ClientTypeOK
<1>2. kchild[c] = 0 /\ \A d \in Clients : kchild'[d] = kchild[d]
    BY DEF KillInv
<1>3. \A g \in Gens : Killable(g) => Killable(g)'
    BY <1>2 DEF Killable
<1>4. \A d \in Clients : pc[d] \in {"set_pending", "set_state"} => gen[d] \in Gens
    BY DEF IndInv, GuardInv
<1>5. sup \in Gens \cup {0}
    BY DEF IndInv, PartsTypeOK, HandleTypeOK
<1> QED
    BY <1>1, <1>2, <1>3, <1>4, <1>5 DEF KillInv, StartPC

\* The start of a process, under the state mutex.
LEMMA StartKill ==
    ASSUME IndInv, KillInv, NEW c \in Clients,
           \/ Request(c) \/ CheckAlive(c) \/ ClearChild(c) \/ ClearPending(c)
           \/ Spawn(c) \/ SetChild(c) \/ SetPending(c) \/ SetState(c)
    PROVE  KillInv'
<1> USE ConstantsAssumption DEF KillInv, Killable, StartPC
<1>0. PartsTypeOK /\ GuardInv
    BY DEF IndInv
<1> USE DEF PartsTypeOK, HandleTypeOK, GenTypeOK, ClientTypeOK, GuardInv
<1>1. CASE Request(c)
    BY <1>0, <1>1 DEF Request, genVars
<1>2. CASE CheckAlive(c)
  <2>1. CASE take_request_id(c, sup) \/ Return(c)
    <3>1. PICK label \in {"insert", "idle"} :
             /\ pc' = [pc EXCEPT ![c] = label] /\ kchild'[c] = 0
             /\ \A d \in Clients \ {c} : gen'[d] = gen[d] /\ kchild'[d] = kchild[d]
      BY <1>0, <1>2, <2>1 DEF CheckAlive, take_request_id, Return
    <3>2. sup' \in {sup, 0} /\ UNCHANGED <<child, proc>>
      BY <1>2 DEF CheckAlive
    <3> QED
      BY <1>0, <1>2, <3>1, <3>2, LeaveKill DEF CheckAlive, PC
  <2>2. CASE sup' = 0 /\ (Goto(c, "clear_child") \/ Goto(c, "spawn"))
    <3>1. UNCHANGED <<child, proc, gen, kchild>> /\ sup' = 0 /\ guard = c
      BY <1>0, <1>2, <2>2 DEF CheckAlive, Goto
    <3>2. \A d \in Clients \ {c} : pc'[d] = pc[d] /\ pc[d] \notin StartPC
      BY <1>0, <1>2, <2>2, <3>1 DEF Goto
    <3>3. pc[c] # "kill_process" /\ pc'[c] \in {"clear_child", "spawn"}
      BY <1>0, <1>2, <2>2 DEF CheckAlive, Goto
    <3> QED
      BY <3>1, <3>2, <3>3
  <2> QED
    BY <1>2, <2>1, <2>2 DEF CheckAlive
<1>3. CASE ClearChild(c)
    BY <1>0, <1>3 DEF ClearChild, Goto, genVars
<1>4. CASE ClearPending(c)
    BY <1>0, <1>4 DEF ClearPending, Goto, genVars
<1>5. CASE Spawn(c)
  <2>1. CASE Return(c) /\ UNCHANGED proc
    BY <1>0, <1>5, <2>1, LeaveKill DEF Spawn, Return, PC
  <2>2. CASE \E g \in Gens :
                /\ proc' = [proc EXCEPT ![g] = "alive"]
                /\ gen' = [gen EXCEPT ![c] = g]
                /\ pc' = [pc EXCEPT ![c] = "set_child"]
                /\ UNCHANGED kchild
    BY <1>0, <1>5, <2>2 DEF Spawn
  <2> QED
    BY <1>5, <2>1, <2>2 DEF Spawn
<1>6. CASE SetChild(c)
    BY <1>0, <1>6 DEF SetChild, Goto, genVars
<1>7. CASE SetPending(c)
    BY <1>0, <1>7 DEF SetPending, Goto, genVars
<1>8. CASE SetState(c)
    BY <1>0, <1>8 DEF SetState, take_request_id
<1> QED
    BY <1>1, <1>2, <1>3, <1>4, <1>5, <1>6, <1>7, <1>8

\* Requests that are under way, and kill, which runs next to a start.
LEMMA RequestKill ==
    ASSUME IndInv, KillInv, NEW c \in Clients,
           \/ Insert(c) \/ LockStdin(c) \/ Write(c) \/ Receive(c) \/ Timeout(c)
           \/ KillTake(c) \/ KillProcess(c) \/ KillPending(c) \/ KillState(c)
    PROVE  KillInv'
<1> USE ConstantsAssumption DEF KillInv, Killable, StartPC
<1>0. PartsTypeOK /\ GuardInv
    BY DEF IndInv
<1> USE DEF PartsTypeOK, HandleTypeOK, GenTypeOK, ClientTypeOK, GuardInv
<1>1. CASE Insert(c)
    BY <1>0, <1>1 DEF Insert, Goto, handleVars
<1>l. CASE LockStdin(c)
    BY <1>0, <1>l, LeaveKill DEF LockStdin, Goto, handleVars, PC
<1>2. CASE Write(c)
  <2>1. CASE Goto(c, "wait")
    BY <1>0, <1>2, <2>1, LeaveKill DEF Write, Goto, handleVars, PC
  <2>2. CASE Return(c)
    BY <1>0, <1>2, <2>2, LeaveKill DEF Write, Return, handleVars, PC
  <2> QED
    BY <1>2, <2>1, <2>2 DEF Write
<1>3. CASE Receive(c)
    BY <1>0, <1>3 DEF Receive, Return, handleVars, genVars
<1>4. CASE Timeout(c)
    BY <1>0, <1>4 DEF Timeout, Goto, handleVars
<1>5. CASE KillTake(c)
    BY <1>0, <1>5 DEF KillTake, genVars
<1>6. CASE KillProcess(c)
  <2>1. /\ \A d \in Clients \ {c} :
              pc'[d] = pc[d] /\ gen'[d] = gen[d] /\ kchild'[d] = kchild[d]
        /\ pc'[c] \in {"idle", "kill_pending"} /\ kchild'[c] = 0
        /\ UNCHANGED <<sup, child>>
    BY <1>0, <1>6 DEF KillProcess, Return, handleVars
  <2>2. ASSUME NEW g \in Gens, Killable(g) PROVE Killable(g)'
    <3>1. \/ proc' = [proc EXCEPT ![kchild[c]] = "exited"]
          \/ kchild[c] \in Stubborn /\ proc' = proc
      BY <1>6 DEF KillProcess
    <3>2. CASE kchild[c] = g
      BY <1>0, <3>1, <3>2
    <3>3. CASE \E d \in Clients \ {c} : kchild[d] = g
      BY <2>1, <3>3
    <3>4. CASE g \in Stubborn \/ proc[g] # "alive" \/ child = g
      BY <1>0, <2>1, <3>1, <3>4
    <3> QED
      BY <2>2, <3>2, <3>3, <3>4
  <2> HIDE DEF Killable
  <2>3. \A d \in Clients : pc'[d] \in {"set_pending", "set_state"} => Killable(gen[d])'
    BY <1>0, <2>1, <2>2
  <2>4. sup' # 0 => Killable(sup)'
    BY <1>0, <2>1, <2>2
  <2> QED
    BY <2>1, <2>3, <2>4
<1>7. CASE KillPending(c)
    BY <1>0, <1>7 DEF KillPending
<1>8. CASE KillState(c)
    BY <1>0, <1>8 DEF KillState, Return, genVars
<1> QED
    BY <1>1, <1>l, <1>2, <1>3, <1>4, <1>5, <1>6, <1>7, <1>8

\* Readers do not touch the handles; a process that exits needs no kill.
LEMMA NextKill == IndInv /\ KillInv /\ [Next]_vars => KillInv'
<1> SUFFICES ASSUME IndInv, KillInv, [Next]_vars PROVE KillInv'
    OBVIOUS
<1>1. ASSUME NEW g \in Gens, ReaderReply(g) \/ ReaderEnd(g)
      PROVE  KillInv'
    BY <1>1 DEF ReaderReply, ReaderEnd, handleVars, KillInv, Killable
<1>2. ASSUME NEW g \in Gens, ProcessExit(g)
      PROVE  KillInv'
    BY <1>2 DEF ProcessExit, handleVars, clientVars, KillInv, Killable, IndInv,
                PartsTypeOK, GenTypeOK, HandleTypeOK, ClientTypeOK
<1>3. CASE UNCHANGED vars
    BY <1>3 DEF vars, handleVars, genVars, clientVars, KillInv, Killable
<1> QED
    BY <1>1, <1>2, <1>3, StartKill, RequestKill DEF Next, ClientStep

\* kill and ensure_started_locked, which interleave: the supervisor process in
\* use is the one in active_child, or in the hands of a kill that is under
\* way, so a request that times out can get rid of a process that hangs.
THEOREM HungIsKillable == Spec => []HungCanBeKilled
<1>1. Init => KillInv
    BY DEF Init, KillInv, StartPC
<1>2. KillInv => HungCanBeKilled
    BY DEF KillInv, Killable, HungCanBeKilled
<1> QED
    BY <1>1, <1>2, NextKill, Invariance, PTL DEF Spec
=============================================================================
