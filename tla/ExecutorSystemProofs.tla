------------------------ MODULE ExecutorSystemProofs ------------------------
(***************************************************************************)
(* What holds of the command service and its executor together. The        *)
(* service's own theorems carry over, since every step of the system is    *)
(* one of the service's or leaves it alone.                                *)
(***************************************************************************)
EXTENDS ExecutorSystem, CommandServiceProofs, ResultCacheProofs

(* The service sees of the executor what CommandService lets any device    *)
(* do: reports of commands it was sent, in any order and number, and none. *)
LEMMA SystemStep == SysNext => [Next]_vars
<1>1. ASSUME NEW t \in Reports, TakeReport(t) PROVE [Next]_vars
  BY <1>1 DEF TakeReport, Next
<1>2. ASSUME NEW t \in Task, Dispatched(t) PROVE Next
  BY <1>2 DEF Dispatched, Next, Continue
<1>3. ASSUME ExecutorStops PROVE [Next]_vars
  BY <1>3 DEF ExecutorStops, Next
<1>4. ASSUME ServerStep PROVE Next
  BY <1>4 DEF ServerStep, Next
<1>5. ASSUME ExecutorStep PROVE UNCHANGED vars
  BY <1>5 DEF ExecutorStep
<1> QED
  BY <1>1, <1>2, <1>3, <1>4, <1>5 DEF SysNext, Next

(* The system implements the command service: the executor of              *)
(* apps/client/src/executor.ts is one of the devices CommandService allows. *)
THEOREM SystemImplementsService == SysSpec => Spec
<1>1. SysInit => Init
  BY DEF SysInit
<1>2. [SysNext]_sysVars => [Next]_vars
  BY SystemStep DEF sysVars
<1> QED
  BY <1>1, <1>2, PTL DEF SysSpec, Spec

-----------------------------------------------------------------------------
(* No step of the service takes back that a command was sent.              *)
LEMMA SentGrows == ASSUME [Next]_vars PROVE sent \subseteq sent'
<1>1. ASSUME NEW t \in Task, Continue(t) PROVE sent \subseteq sent'
  BY <1>1 DEF Continue, InsertCommand, InsertApproval, RecordAudit, CheckExpiry,
     GetApproval, UpdateApproval, UpdateCommand, TryDispatch, ReadApproval, Send,
     ListPending, SaveResult, network
<1>2. ASSUME Next, \A t \in Task : ~Continue(t) PROVE sent' = sent
  BY <1>2 DEF Next, Create, CreateNew, CreateReplay, CreateConflict, Arrives, Read,
     Hello, AcceptResult, QueryError, Disconnect, Tick, Restart, network
<1> QED
  BY <1>1, <1>2 DEF vars, network

(* What the executor has been dispatched, or has started, it was sent: the *)
(* inductive invariant behind ConsentBeforeExecution.                      *)
ExecutorHeld ==
  /\ inbox \in [CmdId -> Nat] /\ runs \in [CmdId -> Nat]
  /\ \A c \in CmdId : inbox[c] > 0 \/ runs[c] > 0 => c \in sent

LEMMA ExecutorStepHeld ==
  ASSUME ExecutorHeld, ExecutorStep
  PROVE  ExecutorHeld'
<1>0. sent' = sent
  BY DEF ExecutorStep, vars, network
<1>1. ASSUME NEW c \in CmdId, Replay(c) PROVE ExecutorHeld'
  BY <1>0, <1>1 DEF ExecutorHeld, Replay
<1>2. ASSUME NEW c \in CmdId, Execute(c) PROVE ExecutorHeld'
  BY <1>0, <1>2 DEF ExecutorHeld, Execute
<1>3. ASSUME NEW c \in CmdId, NEW n \in 1..MaxRuns, NEW live \in BOOLEAN,
             NEW result \in FinalResult, Finish(c, n, live, result)
      PROVE  ExecutorHeld'
  BY <1>0, <1>3 DEF ExecutorHeld, Finish
<1>4. ASSUME NEW c \in CmdId, NEW n \in 1..MaxRuns, NEW live \in BOOLEAN,
             StorageFull(c, n, live)
      PROVE  ExecutorHeld'
  BY <1>0, <1>4 DEF ExecutorHeld, StorageFull
<1> QED
  BY <1>1, <1>2, <1>3, <1>4 DEF ExecutorStep

LEMMA SystemHeld ==
  ASSUME ExecutorHeld, SysNext
  PROVE  ExecutorHeld'
<1>1. sent \subseteq sent'
  BY SystemStep, SentGrows
<1>2. CASE ExecutorStep
  BY <1>2, ExecutorStepHeld
<1>3. CASE ServerStep /\ UNCHANGED executor
  BY <1>1, <1>3 DEF ExecutorHeld, executor
<1>4. ASSUME NEW t \in Task, Dispatched(t) PROVE ExecutorHeld'
  <2>1. DeviceOf(h[t].id) \in online => h[t].id \in sent'
    BY <1>4 DEF Dispatched, Send
  <2>2. CASE DeviceOf(h[t].id) \in online
    <3>1. inbox' = [inbox EXCEPT ![h[t].id] = @ + 1] /\ runs' = runs
      BY <1>4, <2>2 DEF Dispatched
    <3>2. ASSUME NEW c \in CmdId
          PROVE  inbox'[c] \in Nat /\ (c /= h[t].id => inbox'[c] = inbox[c])
      <4>1. inbox[c] \in Nat /\ DOMAIN inbox = CmdId
        BY DEF ExecutorHeld
      <4>2. inbox'[c] = IF c = h[t].id THEN inbox[c] + 1 ELSE inbox[c]
        BY <3>1, <4>1
      <4> QED
        BY <4>1, <4>2
    <3>3. inbox' \in [CmdId -> Nat]
      BY <3>1, <3>2 DEF ExecutorHeld
    <3> QED
      BY <1>1, <2>1, <2>2, <3>1, <3>2, <3>3 DEF ExecutorHeld
  <2>3. CASE DeviceOf(h[t].id) \notin online
    <3>1. inbox' = inbox /\ runs' = runs
      BY <1>4, <2>3 DEF Dispatched
    <3> QED
      BY <1>1, <3>1 DEF ExecutorHeld
  <2> QED
    BY <2>2, <2>3
<1>5. ASSUME NEW t \in Reports, TakeReport(t) PROVE ExecutorHeld'
  BY <1>1, <1>5 DEF ExecutorHeld, TakeReport
<1>6. CASE SocketGone \/ ExecutorStops
  <2>1. inbox' = [c \in CmdId |-> 0] /\ runs' = runs
    BY <1>6 DEF SocketGone, ExecutorStops
  <2> QED
    BY <1>1, <2>1 DEF ExecutorHeld
<1> QED
  BY <1>2, <1>3, <1>4, <1>5, <1>6 DEF SysNext

(* The executor of executor.ts starts no guarded command without the       *)
(* consent the service recorded, whatever dispatches, replays, lost        *)
(* sockets and restarts there were.                                        *)
THEOREM ExecutionHasConsent == SysSpec => []ConsentBeforeExecution
<1>1. SysInit => ExecutorHeld
  BY DEF SysInit, ExecutorInit, ExecutorHeld
<1>2. ExecutorHeld /\ [SysNext]_sysVars => ExecutorHeld'
  <2>1. ASSUME ExecutorHeld, UNCHANGED sysVars PROVE ExecutorHeld'
    BY <2>1 DEF ExecutorHeld, sysVars, executor, vars, network
  <2> QED
    BY <2>1, SystemHeld
<1>3. ExecutorHeld /\ ConsentBeforeDispatch => ConsentBeforeExecution
  BY DEF ExecutorHeld, ConsentBeforeDispatch, ConsentBeforeExecution
<1> QED
  BY <1>1, <1>2, <1>3, SystemImplementsService,
     ConsentPrecedesDispatch, PTL DEF SysSpec

-----------------------------------------------------------------------------
(* Where a final result can stand: in a row, in a handler's copy of one or *)
(* of a message, in the loop of dispatchPendingForDevice, in the           *)
(* executor's cache and on the socket. Everywhere it is an execution's.    *)
HolderReal(x) ==
  /\ x.seen \in FinalResult => <<x.id, x.seen>> \in finished
  /\ \A p \in x.todo : p[2] \in FinalResult => <<p[1], p[2]>> \in finished
StatusReal ==
  \A c \in CmdId : status[c] \in FinalResult => <<c, status[c]>> \in finished
ServerReal == StatusReal /\ \A t \in Task : HolderReal(h[t])
ReportReal(m) ==
  /\ m \in CmdId \X (FinalResult \union {"running"})
  /\ m[2] /= "running" => m \in finished
ExecutorReal ==
  /\ CacheOK(cache, newer, CmdId, MaxCache) /\ entry \in [CmdId -> FinalResult]
  /\ \A c \in Cached : <<c, entry[c]>> \in finished
  /\ \A m \in reports : ReportReal(m)

(* A step of one handler that leaves the rows as they are.                 *)
LEMMA HandlerReal ==
  ASSUME TypeOK, ServerReal, NEW t \in Task, NEW x, h' = [h EXCEPT ![t] = x],
         HolderReal(x), UNCHANGED <<status, finished>>
  PROVE  ServerReal'
<1>1. \A u \in Task : h'[u] = IF u = t THEN x ELSE h[u]
  BY DEF TypeOK, HandlersOK
<1>2. HolderReal(x)'
  BY DEF HolderReal
<1>3. \A u \in Task : HolderReal(h[u])'
  BY <1>1, <1>2 DEF ServerReal, HolderReal
<1> QED
  BY <1>3 DEF ServerReal, StatusReal

LEMMA IdleReal == HolderReal(Idle)
BY DEF HolderReal, Idle, FinalResult

LEMMA ReturnReal ==
  ASSUME TypeOK, ServerReal, NEW t \in Task, Return(t), UNCHANGED <<status, finished>>
  PROVE  ServerReal'
<1>1. CASE h' = [h EXCEPT ![t] = Idle]
  BY <1>1, IdleReal, HandlerReal
<1>2. ASSUME NEW p \in h[t].todo,
             h' = [h EXCEPT ![t] = [Idle EXCEPT !.pc = "dispatch", !.id = p[1],
                                      !.seen = p[2], !.todo = h[t].todo \ {p}]]
      PROVE  ServerReal'
  <2>1. HolderReal([Idle EXCEPT !.pc = "dispatch", !.id = p[1],
                      !.seen = p[2], !.todo = h[t].todo \ {p}])
    BY DEF ServerReal, HolderReal, Idle
  <2> QED
    BY <1>2, <2>1, HandlerReal
<1> QED
  BY <1>1, <1>2 DEF Return

(* A handler that keeps its command and its loop, and whose copy of the    *)
(* status is the one it had or no final result.                            *)
LEMMA CopyReal ==
  ASSUME TypeOK, ServerReal, NEW t \in Task, NEW x, h' = [h EXCEPT ![t] = x],
         x.id = h[t].id, x.todo = h[t].todo,
         x.seen = h[t].seen \/ x.seen \notin FinalResult,
         UNCHANGED <<status, finished>>
  PROVE  ServerReal'
<1>1. HolderReal(x)
  BY DEF ServerReal, HolderReal
<1> QED
  BY <1>1, HandlerReal

(* What handlers that go on write is a copy they hold.                     *)
LEMMA ContinueReal ==
  ASSUME TypeOK, ServerReal, NEW t \in Task, Continue(t), finished' = finished
  PROVE  ServerReal'
<1>0. h[t] \in Handler /\ HolderReal(h[t]) /\ HandlerOK(h[t])
  BY DEF TypeOK, HandlersOK, ServerReal
<1>1. CASE InsertCommand(t)
  <2>1. CASE KeyTaken(h[t].arg)
    BY <1>1, <2>1, IdleReal, HandlerReal DEF InsertCommand, store
  <2>2. CASE ~KeyTaken(h[t].arg)
    <3> DEFINE first == FirstStatus(h[t].arg.tool)
    <3>1. PICK c \in CmdId, pc \in {"insertApproval", "created"} :
            /\ status' = [status EXCEPT ![c] = first]
            /\ h' = [h EXCEPT ![t] = [Idle EXCEPT !.id = c, !.seen = first, !.pc = pc]]
      BY <1>1, <2>2 DEF InsertCommand
    <3>2. first \notin FinalResult
      BY DEF FirstStatus, FinalResult
    <3>3. StatusReal'
      BY <3>1, <3>2 DEF ServerReal, StatusReal, TypeOK, TablesOK
    <3>4. HolderReal(h'[t])
      BY <3>1, <3>2 DEF HolderReal, Idle, TypeOK, HandlersOK
    <3>5. \A u \in Task : HolderReal(h'[u])
      BY <3>1, <3>4 DEF ServerReal, TypeOK, HandlersOK
    <3> QED
      BY <3>3, <3>5 DEF ServerReal, HolderReal
  <2> QED
    BY <2>1, <2>2
<1>2. CASE InsertApproval(t)
  BY <1>0, <1>2, CopyReal DEF InsertApproval, Handler
<1>3. CASE RecordAudit(t)
  <2>1. CASE h' = [h EXCEPT ![t].pc = "dispatch"]
    BY <1>0, <1>3, <2>1, CopyReal DEF RecordAudit, Handler, store
  <2> QED
    BY <1>3, <2>1, ReturnReal DEF RecordAudit, store
<1>4. CASE CheckExpiry(t)
  <2>1. UNCHANGED <<status, finished>>
    BY <1>4 DEF CheckExpiry, store
  <2>2. CASE Expire(t)
    BY <1>0, <2>1, <2>2, CopyReal DEF Expire, Handler, FinalResult
  <2>3. CASE h' = [h EXCEPT ![t].pc = "getApproval"]
    BY <1>0, <2>1, <2>3, CopyReal DEF Handler
  <2> QED
    BY <1>4, <2>1, <2>2, <2>3, ReturnReal DEF CheckExpiry
<1>5. CASE GetApproval(t)
  <2>1. UNCHANGED <<status, finished>>
    BY <1>5 DEF GetApproval, store
  <2>2. CASE h' = [h EXCEPT ![t] = Idle]
    BY <2>1, <2>2, IdleReal, HandlerReal
  <2>3. ASSUME NEW held, NEW seen \in {"queued", "cancelled"},
               h' = [h EXCEPT ![t].pc = "updateApproval", ![t].held = held, ![t].seen = seen]
        PROVE  ServerReal'
    <3> DEFINE x == [h[t] EXCEPT !.pc = "updateApproval", !.held = held, !.seen = seen]
    <3>1. x.id = h[t].id /\ x.todo = h[t].todo /\ x.seen \in {"queued", "cancelled"}
      BY <1>0, <2>3 DEF Handler
    <3>2. h' = [h EXCEPT ![t] = x]
      BY <2>3
    <3> HIDE DEF x
    <3> QED
      BY <2>1, <3>1, <3>2, CopyReal DEF FinalResult
  <2> QED
    BY <1>5, <2>2, <2>3 DEF GetApproval
<1>6. CASE UpdateApproval(t)
  BY <1>0, <1>6, CopyReal DEF UpdateApproval, Handler
<1>7. CASE UpdateCommand(t)
  <2>1. PICK pc : h' = [h EXCEPT ![t].pc = pc]
    BY <1>7 DEF UpdateCommand
  <2>2. \A u \in Task : h'[u].id = h[u].id /\ h'[u].seen = h[u].seen /\ h'[u].todo = h[u].todo
    BY <2>1 DEF TypeOK, HandlersOK, Handler
  <2>3. StatusReal'
    BY <1>0, <1>7 DEF UpdateCommand, ServerReal, StatusReal, HolderReal, TypeOK, TablesOK
  <2> QED
    BY <2>2, <2>3 DEF ServerReal, HolderReal
<1>8. CASE TryDispatch(t)
  <2>1. UNCHANGED <<status, finished>>
    BY <1>8 DEF TryDispatch, store
  <2>2. CASE Expire(t)
    BY <1>0, <2>1, <2>2, CopyReal DEF Expire, Handler, FinalResult
  <2>3. ASSUME NEW pc, NEW seen \in {h[t].seen, "dispatched"},
               h' = [h EXCEPT ![t].pc = pc, ![t].seen = seen]
        PROVE  ServerReal'
    <3> DEFINE x == [h[t] EXCEPT !.pc = pc, !.seen = seen]
    <3>1. x.id = h[t].id /\ x.todo = h[t].todo /\ x.seen \in {h[t].seen, "dispatched"}
      BY <1>0, <2>3 DEF Handler
    <3>2. h' = [h EXCEPT ![t] = x]
      BY <2>3
    <3> HIDE DEF x
    <3> QED
      BY <2>1, <3>1, <3>2, CopyReal DEF FinalResult
  <2>4. CASE Return(t)
    BY <2>1, <2>4, ReturnReal
  <2>5. \/ Expire(t) \/ Return(t)
        \/ \E pc, seen : /\ seen \in {h[t].seen, "dispatched"}
                          /\ h' = [h EXCEPT ![t].pc = pc, ![t].seen = seen]
    <3>1. ASSUME NEW c, h' = [h EXCEPT
                   ![t].pc = IF h[t].seen = "dispatched" THEN "send"
                             ELSE IF ApprovalRequired(ToolOf(c)) THEN "readApproval" ELSE "update",
                   ![t].seen = IF ApprovalRequired(ToolOf(c)) THEN @ ELSE "dispatched"]
          PROVE  \E pc, seen : /\ seen \in {h[t].seen, "dispatched"}
                                /\ h' = [h EXCEPT ![t].pc = pc, ![t].seen = seen]
      <4>1. CASE ApprovalRequired(ToolOf(c))
        BY <1>0, <3>1, <4>1 DEF Handler, TypeOK, HandlersOK
      <4>2. CASE ~ApprovalRequired(ToolOf(c))
        BY <1>0, <3>1, <4>2 DEF Handler, TypeOK, HandlersOK
      <4> QED
        BY <4>1, <4>2
    <3> QED
      BY <1>8, <3>1 DEF TryDispatch
  <2> QED
    BY <2>2, <2>3, <2>4, <2>5
<1>9. CASE ReadApproval(t)
  <2>1. UNCHANGED <<status, finished>>
    BY <1>9 DEF ReadApproval, store
  <2>2. ASSUME NEW pc, NEW held,
               h' = [h EXCEPT ![t].pc = pc, ![t].held = held, ![t].seen = "dispatched"]
        PROVE  ServerReal'
    <3> DEFINE x == [h[t] EXCEPT !.pc = pc, !.held = held, !.seen = "dispatched"]
    <3>1. x.id = h[t].id /\ x.todo = h[t].todo /\ x.seen \in {"dispatched"}
      BY <1>0, <2>2 DEF Handler
    <3>2. h' = [h EXCEPT ![t] = x]
      BY <2>2
    <3> HIDE DEF x
    <3> QED
      BY <2>1, <3>1, <3>2, CopyReal DEF FinalResult
  <2> QED
    BY <1>9, <2>1, <2>2, ReturnReal DEF ReadApproval
<1>10. CASE Send(t)
  <2>1. UNCHANGED <<status, finished>>
    BY <1>10 DEF Send, store
  <2>2. CASE h' = [h EXCEPT ![t].pc = "audit"]
    BY <1>0, <2>1, <2>2, CopyReal DEF Handler
  <2> QED
    BY <1>10, <2>1, <2>2, ReturnReal DEF Send
<1>11. CASE ListPending(t)
  <2>1. UNCHANGED <<status, finished>>
    BY <1>11 DEF ListPending, store
  <2>2. CASE h' = [h EXCEPT ![t] = Idle]
    BY <2>1, <2>2, IdleReal, HandlerReal
  <2>3. ASSUME NEW listed \in SUBSET CmdId, NEW c \in listed,
               h' = [h EXCEPT ![t] = [Idle EXCEPT !.pc = "dispatch", !.id = c,
                        !.seen = status[c],
                        !.todo = {<<b, status[b]>> : b \in listed \ {c}}]]
        PROVE  ServerReal'
    <3>1. HolderReal([Idle EXCEPT !.pc = "dispatch", !.id = c, !.seen = status[c],
                        !.todo = {<<b, status[b]>> : b \in listed \ {c}}])
      BY DEF HolderReal, Idle, ServerReal, StatusReal
    <3> QED
      BY <2>1, <2>3, <3>1, HandlerReal
  <2>4. PICK later \in ExpiresLater :
          LET listed == {c \in later : /\ Stored(c) /\ DeviceOf(c) = h[t].arg
                                       /\ status[c] \in Dispatchable}
          IN  \/ listed = {} /\ h' = [h EXCEPT ![t] = Idle]
              \/ \E c \in listed :
                   h' = [h EXCEPT ![t] = [Idle EXCEPT !.pc = "dispatch", !.id = c,
                          !.seen = status[c],
                          !.todo = {<<b, status[b]>> : b \in listed \ {c}}]]
    BY <1>11 DEF ListPending
  <2> DEFINE listed == {c \in later : /\ Stored(c) /\ DeviceOf(c) = h[t].arg
                                      /\ status[c] \in Dispatchable}
  <2>5. listed \in SUBSET CmdId
    BY DEF ExpiresLater
  <2>6. \/ listed = {} /\ h' = [h EXCEPT ![t] = Idle]
        \/ \E c \in listed :
             h' = [h EXCEPT ![t] = [Idle EXCEPT !.pc = "dispatch", !.id = c,
                    !.seen = status[c],
                    !.todo = {<<b, status[b]>> : b \in listed \ {c}}]]
    BY <2>4
  <2> HIDE DEF listed
  <2> QED
    BY <2>2, <2>3, <2>5, <2>6
<1>12. CASE SaveResult(t)
  BY <1>0, <1>12, CopyReal DEF SaveResult, Handler
<1> QED
  BY <1>1, <1>2, <1>3, <1>4, <1>5, <1>6, <1>7, <1>8, <1>9, <1>10, <1>11, <1>12 DEF Continue

(* Handlers that start read the status they copy.                          *)
LEMMA StartReal ==
  ASSUME TypeOK, ServerReal, finished' = finished,
         \/ \E t \in Creates : Create(t)
         \/ \E t \in Decides \union Reads : Read(t)
         \/ \E t \in Hellos : Hello(t)
         \/ \E t \in Task : QueryError(t)
         \/ Tick \/ Restart \/ \E d \in Device : Disconnect(d)
  PROVE  ServerReal'
<1>0. ASSUME NEW t \in Task PROVE h[t] \in Handler /\ HolderReal(h[t])
  BY DEF TypeOK, HandlersOK, ServerReal
<1>1. ASSUME UNCHANGED <<status, h, finished>> PROVE ServerReal'
  BY <1>1 DEF ServerReal, StatusReal, HolderReal
<1>2. ASSUME NEW t \in Task, NEW c \in CmdId, UNCHANGED <<status, finished>>,
             h' = [h EXCEPT ![t].pc = "check", ![t].id = c, ![t].seen = status[c]]
      PROVE  ServerReal'
  <2> DEFINE x == [h[t] EXCEPT !.pc = "check", !.id = c, !.seen = status[c]]
  <2>1. HolderReal(x)
    BY <1>0 DEF HolderReal, Handler, ServerReal, StatusReal
  <2>2. h' = [h EXCEPT ![t] = x]
    BY <1>2
  <2> HIDE DEF x
  <2> QED
    BY <1>2, <2>1, <2>2, HandlerReal
<1>3. ASSUME NEW t \in Task, NEW pc, NEW arg, UNCHANGED <<status, finished>>,
             h' = [h EXCEPT ![t].pc = pc, ![t].arg = arg]
      PROVE  ServerReal'
  <2> DEFINE x == [h[t] EXCEPT !.pc = pc, !.arg = arg]
  <2>1. x.id = h[t].id /\ x.todo = h[t].todo /\ x.seen = h[t].seen
    BY <1>0 DEF Handler
  <2>2. h' = [h EXCEPT ![t] = x]
    BY <1>3
  <2> HIDE DEF x
  <2> QED
    BY <1>3, <2>1, <2>2, CopyReal
<1>4. ASSUME NEW t \in Creates, Create(t) PROVE ServerReal'
  <2>1. UNCHANGED <<status, finished>> /\ t \in Task
    BY <1>4 DEF Create, CreateNew, CreateReplay, CreateConflict, Arrives, store, Task
  <2>2. CASE CreateNew(t)
    BY <1>3, <2>1, <2>2 DEF CreateNew
  <2>3. CASE CreateReplay(t)
    BY <1>2, <2>1, <2>3 DEF CreateReplay, Holders
  <2>4. CASE CreateConflict(t)
    BY <1>1, <2>1, <2>4 DEF CreateConflict
  <2> QED
    BY <1>4, <2>2, <2>3, <2>4 DEF Create
<1>5. ASSUME NEW t \in Decides \union Reads, Read(t) PROVE ServerReal'
  BY <1>2, <1>5 DEF Read, store, Task
<1>6. ASSUME NEW t \in Hellos, Hello(t) PROVE ServerReal'
  BY <1>3, <1>6 DEF Hello, store, Task
<1>7. ASSUME NEW t \in Task, QueryError(t) PROVE ServerReal'
  BY <1>7, IdleReal, HandlerReal DEF QueryError, store
<1>8. CASE Tick \/ \E d \in Device : Disconnect(d)
  BY <1>1, <1>8 DEF Tick, Disconnect, store
<1>9. CASE Restart
  BY <1>9, IdleReal DEF Restart, store, ServerReal, StatusReal, HolderReal
<1> QED
  BY <1>4, <1>5, <1>6, <1>7, <1>8, <1>9

(* A message taken from the socket holds a result of an execution.         *)
LEMMA TakeReal ==
  ASSUME TypeOK, ServerReal, ExecutorReal, NEW t \in Reports, TakeReport(t)
  PROVE  ServerReal'
<1>1. PICK m \in reports :
        \/ AcceptResult(t) /\ h'[t].id = m[1] /\ h'[t].seen = m[2]
        \/ UNCHANGED vars
  BY DEF TakeReport
<1>2. finished' = finished /\ t \in Task
  BY DEF TakeReport, Task
<1>3. CASE UNCHANGED vars
  BY <1>2, <1>3 DEF vars, store, ServerReal, StatusReal, HolderReal
<1>4. CASE AcceptResult(t) /\ h'[t].id = m[1] /\ h'[t].seen = m[2]
  <2>1. PICK c, result :
          h' = [h EXCEPT ![t].pc = "save", ![t].id = c, ![t].seen = result]
    BY <1>4 DEF AcceptResult
  <2> DEFINE x == [h[t] EXCEPT !.pc = "save", !.id = c, !.seen = result]
  <2>2. h[t] \in Handler /\ HolderReal(h[t])
    BY <1>2 DEF TypeOK, HandlersOK, ServerReal
  <2>3. x.id = c /\ x.seen = result /\ x.todo = h[t].todo
    BY <2>2 DEF Handler
  <2>4. h' = [h EXCEPT ![t] = x] /\ h'[t] = x
    BY <1>2, <2>1 DEF TypeOK, HandlersOK
  <2> HIDE DEF x
  <2>5. x.id = m[1] /\ x.seen = m[2]
    BY <1>4, <2>4
  <2>6. m[2] \in FinalResult => <<m[1], m[2]>> \in finished
    <3>1. ReportReal(m)
      BY DEF ExecutorReal
    <3>2. m = <<m[1], m[2]>>
      BY <3>1 DEF ReportReal
    <3> QED
      BY <3>1, <3>2 DEF ReportReal, FinalResult
  <2>7. HolderReal(x)
    BY <2>2, <2>3, <2>5, <2>6 DEF HolderReal
  <2>8. status' = status
    BY <1>4 DEF AcceptResult, store
  <2> QED
    BY <1>2, <2>4, <2>7, <2>8, HandlerReal
<1> QED
  BY <1>1, <1>3, <1>4

LEMMA CachedAreCommands ==
  ASSUME CacheOK(cache, newer, CmdId, MaxCache)
  PROVE  Cached \subseteq CmdId
BY DEF CacheOK, Cached, EntriesOf

(* A result that is cached: ResultCacheProofs' CacheStep for this cache.   *)
LEMMA CacheResultStep ==
  ASSUME CacheOK(cache, newer, CmdId, MaxCache), NEW c \in CmdId, NEW result,
         CacheResult(c, result)
  PROVE  /\ CacheOK(cache', newer', CmdId, MaxCache)
         /\ c \in Cached' /\ Cached' \subseteq Cached \union {c}
         /\ \A d \in CmdId : d \in Cached /\ d \notin Cached' =>
              Cardinality(newer'[d]) >= MaxCache
         /\ \A d \in CmdId : d \notin Cached /\ d /= c =>
              Cardinality(newer'[d]) >= Cardinality(newer[d])
<1>1. MaxCache \in Nat \ {0}
  BY ExecutorAssumption
<1>2. cache' = WithEntry(cache, c, MaxCache) /\ newer' = NewerWith(newer, cache, c)
  BY DEF CacheResult
<1> QED
  BY <1>1, <1>2, CacheStep DEF Cached

LEMMA ExecutorStepReal ==
  ASSUME ServerReal, ExecutorReal, ExecutorStep
  PROVE  ServerReal' /\ ExecutorReal'
<1>1. ASSUME finished \subseteq finished' PROVE ServerReal'
  <2>1. UNCHANGED <<status, h>>
    BY DEF ExecutorStep, vars, store
  <2> QED
    BY <1>1, <2>1 DEF ServerReal, StatusReal, HolderReal
<1>2. ASSUME NEW c \in CmdId, Replay(c) PROVE ServerReal' /\ ExecutorReal'
  <2>1. entry[c] \in FinalResult /\ <<c, entry[c]>> \in finished
    BY <1>2 DEF Replay, ExecutorReal
  <2> QED
    BY <1>1, <1>2, <2>1 DEF Replay, resultCache, ExecutorReal, ReportReal, Cached
<1>3. ASSUME NEW c \in CmdId, Execute(c) PROVE ServerReal' /\ ExecutorReal'
  BY <1>1, <1>3 DEF Execute, resultCache, ExecutorReal, ReportReal, Cached
<1>4. ASSUME NEW c \in CmdId, NEW n \in 1..MaxRuns, NEW live \in BOOLEAN,
             NEW result \in FinalResult, Finish(c, n, live, result)
      PROVE  ServerReal' /\ ExecutorReal'
  <2>1. /\ finished' = finished \union {<<c, result>>} /\ CacheResult(c, result)
        /\ reports' \subseteq reports \union {<<c, result>>}
    BY <1>4 DEF Finish
  <2>2. CacheOK(cache', newer', CmdId, MaxCache) /\ Cached' \subseteq Cached \union {c}
    BY <2>1, CacheResultStep DEF ExecutorReal
  <2>3. /\ entry' \in [CmdId -> FinalResult]
        /\ \A d \in CmdId : entry'[d] = IF d = c THEN result ELSE entry[d]
    BY <2>1 DEF CacheResult, ExecutorReal
  <2>4. ASSUME NEW d \in Cached' PROVE <<d, entry'[d]>> \in finished'
    <3>1. d \in CmdId
      BY <2>2, CachedAreCommands DEF ExecutorReal
    <3> QED
      BY <2>1, <2>2, <2>3, <3>1 DEF ExecutorReal
  <2>5. \A m \in reports' : ReportReal(m)'
    BY <2>1 DEF ExecutorReal, ReportReal
  <2> QED
    BY <1>1, <2>1, <2>2, <2>3, <2>4, <2>5 DEF ExecutorReal
<1>5. ASSUME NEW c \in CmdId, NEW n \in 1..MaxRuns, NEW live \in BOOLEAN,
             StorageFull(c, n, live)
      PROVE  ServerReal' /\ ExecutorReal'
  BY <1>1, <1>5 DEF StorageFull, resultCache, ExecutorReal, ReportReal, Cached
<1> QED
  BY <1>2, <1>3, <1>4, <1>5 DEF ExecutorStep

LEMMA RealNext ==
  ASSUME TypeOK, ServerReal, ExecutorReal, [SysNext]_sysVars
  PROVE  ServerReal' /\ ExecutorReal'
<1>1. ASSUME reports' \subseteq reports, UNCHANGED <<resultCache, finished>>
      PROVE  ExecutorReal'
  BY <1>1 DEF resultCache, ExecutorReal, ReportReal, Cached
<1>2. CASE UNCHANGED sysVars
  BY <1>1, <1>2 DEF sysVars, vars, store, executor, ServerReal, StatusReal, HolderReal
<1>3. CASE ExecutorStep
  BY <1>3, ExecutorStepReal
<1>4. CASE ServerStep /\ UNCHANGED executor
  <2>1. ExecutorReal' /\ finished' = finished
    BY <1>1, <1>4 DEF executor
  <2> QED
    BY <1>4, <2>1, ContinueReal, StartReal DEF ServerStep
<1>5. ASSUME NEW t \in Task, Dispatched(t) PROVE ServerReal' /\ ExecutorReal'
  BY <1>1, <1>5, ContinueReal DEF Dispatched, Continue
<1>6. ASSUME NEW t \in Reports, TakeReport(t) PROVE ServerReal' /\ ExecutorReal'
  BY <1>1, <1>6, TakeReal DEF TakeReport
<1>7. CASE SocketGone /\ ((\E t \in Hellos : Hello(t)) \/ Restart \/ \E d \in Device : Disconnect(d))
  BY <1>1, <1>7, StartReal DEF SocketGone
<1>8. CASE ExecutorStops
  <2>1. ExecutorReal' /\ finished' = finished
    BY <1>1, <1>8 DEF ExecutorStops
  <2>2. CASE UNCHANGED vars
    BY <2>1, <2>2 DEF vars, store, ServerReal, StatusReal, HolderReal
  <2> QED
    BY <1>8, <2>1, <2>2, StartReal DEF ExecutorStops
<1> QED
  BY <1>2, <1>3, <1>4, <1>5, <1>6, <1>7, <1>8 DEF SysNext

LEMMA RealInit == SysInit => ServerReal /\ ExecutorReal
<1> SUFFICES ASSUME SysInit PROVE ServerReal /\ ExecutorReal
  OBVIOUS
<1>1. ServerReal
  BY IdleReal DEF SysInit, Init, ServerReal, StatusReal, FinalResult
<1>2. CacheOK(cache, newer, CmdId, MaxCache) /\ Cached = {}
  <2>1. cache = <<>> /\ newer = [c \in CmdId |-> {}] /\ MaxCache \in Nat
    BY ExecutorAssumption DEF SysInit, ExecutorInit
  <2> QED
    BY <2>1, FS_EmptySet DEF CacheOK, Cached, EntriesOf
<1>3. entry \in [CmdId -> FinalResult] /\ reports = {}
  BY DEF SysInit, ExecutorInit, FinalResult
<1> QED
  BY <1>1, <1>2, <1>3 DEF ExecutorReal

(* What an execution came to stays in the cache until as many others       *)
(* entered it as it keeps, and a final result the server has stored is an  *)
(* execution's.                                                            *)
Overtaken(c) == Cardinality(newer[c]) >= MaxCache
Remembered ==
  /\ \A c \in CmdId, r \in FinalResult :
       <<c, r>> \in finished => c \in Cached \/ Overtaken(c)
  /\ \A c \in CmdId : results[c] \in FinalResult => <<c, results[c]>> \in finished

(* Only a handler that saves a result changes the results that are stored. *)
LEMMA ResultsKept ==
  ASSUME [Next]_vars
  PROVE  results' = results \/ \E t \in Task : SaveResult(t)
<1>1. ASSUME NEW t \in Task, Continue(t) PROVE results' = results \/ SaveResult(t)
  BY <1>1 DEF Continue, InsertCommand, InsertApproval, RecordAudit, CheckExpiry, GetApproval,
     UpdateApproval, UpdateCommand, TryDispatch, ReadApproval, Send, ListPending, store
<1>2. CASE UNCHANGED vars
  BY <1>2 DEF vars, store
<1>3. CASE Next /\ \A t \in Task : ~Continue(t)
  BY <1>3 DEF Next, Create, CreateNew, CreateReplay, CreateConflict, Arrives, Read,
     Hello, AcceptResult, QueryError, Disconnect, Tick, Restart,
     store
<1> QED
  BY <1>1, <1>2, <1>3

LEMMA RememberedStep ==
  ASSUME TypeOK, ServerReal, ExecutorReal, Remembered, [SysNext]_sysVars
  PROVE  Remembered'
<1>1. finished \subseteq finished'
  BY DEF SysNext, ExecutorStep, Replay, Execute, Finish, StorageFull, Dispatched, TakeReport,
     SocketGone, ExecutorStops, executor, sysVars
<1>2. ASSUME NEW c \in CmdId, NEW r \in FinalResult, <<c, r>> \in finished'
      PROVE  c \in Cached' \/ Overtaken(c)'
  <2>1. CASE UNCHANGED <<resultCache, finished>>
    BY <1>2, <2>1 DEF Remembered, resultCache, Cached, Overtaken
  <2>2. ASSUME NEW d \in CmdId, NEW n \in 1..MaxRuns, NEW live \in BOOLEAN,
               NEW result \in FinalResult, Finish(d, n, live, result)
        PROVE  c \in Cached' \/ Overtaken(c)'
    <3>1. CacheResult(d, result) /\ finished' = finished \union {<<d, result>>}
      BY <2>2 DEF Finish
    <3>2. /\ d \in Cached' /\ CacheOK(cache', newer', CmdId, MaxCache)
          /\ c \in Cached /\ c \notin Cached' => Overtaken(c)'
          /\ c \notin Cached /\ c /= d => Cardinality(newer'[c]) >= Cardinality(newer[c])
      BY <3>1, CacheResultStep DEF ExecutorReal, Overtaken
    <3>3. CASE c \in Cached \/ c = d
      BY <3>2, <3>3
    <3>4. CASE c \notin Cached /\ c /= d
      <4>1. Cardinality(newer[c]) >= MaxCache
        BY <1>2, <3>1, <3>4 DEF Remembered, Overtaken
      <4>2. /\ Cardinality(newer[c]) \in Nat /\ Cardinality(newer'[c]) \in Nat
            /\ MaxCache \in Nat
        BY <3>2, FS_CardinalityType, ExecutorAssumption DEF ExecutorReal, CacheOK
      <4> QED
        BY <3>2, <3>4, <4>1, <4>2 DEF Overtaken
    <3> QED
      BY <3>3, <3>4
  <2> QED
    BY <2>1, <2>2 DEF SysNext, ExecutorStep, Replay, Execute, StorageFull, Dispatched,
       TakeReport, SocketGone, ExecutorStops, executor, sysVars
<1>3. [Next]_vars
  BY SystemStep DEF sysVars
<1>4. ASSUME NEW c \in CmdId, results'[c] \in FinalResult
      PROVE  <<c, results'[c]>> \in finished'
  <2>1. CASE results' = results
    BY <1>1, <1>4, <2>1 DEF Remembered
  <2>2. ASSUME NEW t \in Task, SaveResult(t) PROVE <<c, results'[c]>> \in finished'
    <3>1. results' = [results EXCEPT ![h[t].id] = h[t].seen]
      BY <2>2 DEF SaveResult
    <3>2. CASE h[t].id = c
      BY <1>1, <1>4, <3>1, <3>2 DEF ServerReal, HolderReal, TypeOK, TablesOK
    <3>3. CASE h[t].id /= c
      BY <1>1, <1>4, <3>1, <3>3 DEF Remembered, TypeOK, TablesOK
    <3> QED
      BY <3>2, <3>3
  <2> QED
    BY <1>3, <2>1, <2>2, ResultsKept
<1> QED
  BY <1>2, <1>4 DEF Remembered

(* What the audit log says a command came to.                              *)
Logged ==
  \A c \in CmdId, r \in FinalResult : <<c, r>> \in audit => <<c, r>> \in finished

LEMMA LoggedStep ==
  ASSUME TypeOK, ServerReal, Logged, [SysNext]_sysVars
  PROVE  Logged'
<1>1. finished \subseteq finished'
  BY DEF SysNext, ExecutorStep, Replay, Execute, Finish, StorageFull, Dispatched, TakeReport,
     SocketGone, ExecutorStops, executor, sysVars
<1>2. ASSUME NEW t \in Task, RecordAudit(t), NEW c \in CmdId, NEW r \in FinalResult,
             <<c, r>> = <<h[t].id, AuditKind(t)>>
      PROVE  <<c, r>> \in finished
  <2>1. r \notin {"created", "approved", "denied"}
    BY DEF FinalResult
  <2>2. r = h[t].seen
    <3>1. CASE h[t].pc = "created"
      BY <1>2, <2>1, <3>1 DEF AuditKind
    <3>2. CASE h[t].pc = "audit" /\ h[t].seen = "queued"
      BY <1>2, <2>1, <3>2 DEF AuditKind
    <3>3. CASE h[t].pc = "audit" /\ h[t].seen = "cancelled"
      BY <1>2, <2>1, <3>3 DEF AuditKind
    <3>4. CASE h[t].pc = "audit" /\ h[t].seen \notin {"queued", "cancelled"}
      BY <1>2, <3>4 DEF AuditKind
    <3> QED
      BY <1>2, <3>1, <3>2, <3>3, <3>4 DEF RecordAudit, At
  <2> QED
    BY <1>2, <2>2 DEF ServerReal, HolderReal
<1>3. [Next]_vars
  BY SystemStep DEF sysVars
<1>4. CASE audit' = audit
  BY <1>1, <1>4 DEF Logged
<1>5. ASSUME NEW t \in Task, RecordAudit(t) PROVE Logged'
  <2>1. audit' = audit \union {<<h[t].id, AuditKind(t)>>}
    BY <1>5 DEF RecordAudit
  <2> QED
    BY <1>1, <1>2, <1>5, <2>1 DEF Logged
<1>6. audit' = audit \/ \E t \in Task : RecordAudit(t)
  BY <1>3 DEF Next, vars, Create, CreateNew, CreateReplay, CreateConflict, Arrives, Read,
    Hello, AcceptResult, Disconnect, Tick, Restart, QueryError, Continue, InsertCommand,
    InsertApproval, CheckExpiry, GetApproval, UpdateApproval, UpdateCommand,
    TryDispatch, ReadApproval, Send, ListPending, SaveResult
<1> QED
  BY <1>4, <1>5, <1>6

(* What the server holds as a command's outcome, in its row, in its result *)
(* and in the audit log, is what an execution of it came to, for any       *)
(* commands, handlers, executions, replays and lost sockets, with either   *)
(* adapter.                                                                *)
THEOREM OutcomesAreReal == SysSpec => []OutcomeWasExecuted
<1>1. SysInit => ServerReal /\ ExecutorReal /\ Remembered /\ Logged
  BY RealInit DEF SysInit, Init, ExecutorInit, Remembered, Logged, FinalResult
<1>2. TypeOK /\ ServerReal /\ ExecutorReal /\ Remembered /\ Logged /\ [SysNext]_sysVars
        => ServerReal' /\ ExecutorReal' /\ Remembered' /\ Logged'
  BY RealNext, RememberedStep, LoggedStep
<1>3. ServerReal /\ Remembered /\ Logged => OutcomeWasExecuted
  BY DEF ServerReal, StatusReal, Remembered, Logged, OutcomeWasExecuted
<1> QED
  BY <1>1, <1>2, <1>3, SystemImplementsService, TypeCorrect, PTL DEF SysSpec

(* An executor that is sent a command again whose result the server has    *)
(* answers from its cache, until as many others entered the cache as it    *)
(* keeps (500 in the code): for any commands, handlers, executions, lost   *)
(* sockets and restarts, whatever left the command's row dispatchable.     *)
THEOREM ReportedAreReplayedUntilEvicted == SysSpec => RerunsOnlyOnceEvicted
<1>1. SysInit => ServerReal /\ ExecutorReal /\ Remembered
  BY RealInit DEF SysInit, Init, ExecutorInit, Remembered, FinalResult
<1>2. TypeOK /\ ServerReal /\ ExecutorReal /\ Remembered /\ [SysNext]_sysVars
        => ServerReal' /\ ExecutorReal' /\ Remembered'
  BY RealNext, RememberedStep
<1>3. Remembered /\ [SysNext]_sysVars
        => [\A c \in CmdId : results[c] \in FinalResult /\ runs'[c] /= runs[c] =>
              Cardinality(newer[c]) >= MaxCache]_sysVars
  <2> SUFFICES ASSUME Remembered, [SysNext]_sysVars, NEW c \in CmdId,
                      results[c] \in FinalResult, runs'[c] /= runs[c]
               PROVE  Cardinality(newer[c]) >= MaxCache
    OBVIOUS
  <2>1. \E d \in CmdId : Execute(d)
    BY DEF SysNext, ExecutorStep, Replay, Finish, StorageFull, Dispatched, TakeReport,
       SocketGone, ExecutorStops, executor, sysVars
  <2>2. PICK d \in CmdId : Execute(d)
    BY <2>1
  <2>3. c \notin Cached
    BY <2>2 DEF Execute
  <2> QED
    BY <2>3 DEF Remembered, Overtaken
<1> QED
  BY <1>1, <1>2, <1>3, SystemImplementsService, TypeCorrect, PTL
  DEF SysSpec, RerunsOnlyOnceEvicted
=============================================================================
