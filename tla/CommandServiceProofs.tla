------------------------ MODULE CommandServiceProofs ------------------------
(***************************************************************************)
(* What holds of CommandService for every set of devices, commands,        *)
(* requests and concurrent handlers, both state stores and every fault.    *)
(***************************************************************************)
EXTENDS CommandService, TLAPS

(* The tools that need a biometric check are among those that need an      *)
(* approval (TOOL_POLICIES).                                               *)
LEMMA BiometricNeedsApproval ==
  ASSUME NEW tool, BiometricRequired(tool)
  PROVE  ApprovalRequired(tool)
BY DEF BiometricRequired, ApprovalRequired, ToolsOfRisk

-----------------------------------------------------------------------------
(* Type correctness.                                                       *)

(* What is left to show when a step changes the record of one handler only. *)
LEMMA OneHandler ==
  ASSUME HandlersOK, NEW t \in Task,
         h' = [h EXCEPT ![t] = h'[t]], h'[t] \in Handler,
         \A c \in CmdId : Stored(c) => Stored(c)',
         HandlerOK(h[t])'
  PROVE  HandlersOK'
<1>1. h' \in [Task -> Handler]
  BY DEF HandlersOK
<1>2. ASSUME NEW u \in Task, u /= t PROVE HandlerOK(h[u])'
  <2>1. h'[u] = h[u] /\ h[u] \in Handler /\ HandlerOK(h[u])
    BY <1>2 DEF HandlersOK
  <2>2. \A p \in h[u].todo : p[1] \in CmdId
    BY <2>1 DEF Handler
  <2> QED
    BY <2>1, <2>2 DEF HandlerOK
<1> QED
  BY <1>1, <1>2 DEF HandlersOK

(* The end of a call leaves the handler idle or at its next snapshot.      *)
LEMMA ReturnTyped ==
  ASSUME HandlersOK, NEW t \in Task, Return(t), \A c \in CmdId : Stored(c) => Stored(c)'
  PROVE  HandlersOK'
<1>1. h \in [Task -> Handler] /\ h[t] \in Handler /\ HandlerOK(h[t])
  BY DEF HandlersOK
<1>2. CASE h' = [h EXCEPT ![t] = Idle]
  <2>1. h'[t] = Idle
    BY <1>1, <1>2
  <2>2. h'[t] \in Handler /\ HandlerOK(h[t])'
    BY <2>1 DEF Idle, Handler, HandlerOK, NoApproval, Approval
  <2> QED
    BY <1>2, <2>1, <2>2, OneHandler
<1>3. ASSUME NEW p \in h[t].todo,
             h' = [h EXCEPT ![t] = [Idle EXCEPT !.pc = "dispatch", !.id = p[1],
                                      !.seen = p[2], !.todo = h[t].todo \ {p}]]
      PROVE  HandlersOK'
  <2>1. /\ h'[t] = [pc |-> "dispatch", id |-> p[1], arg |-> None, seen |-> p[2],
                    held |-> NoApproval, todo |-> h[t].todo \ {p}]
        /\ h' = [h EXCEPT ![t] = h'[t]]
    BY <1>1, <1>3 DEF Idle
  <2>2. p[1] \in CmdId /\ p[2] \in Status /\ Stored(p[1])
    BY <1>1 DEF Handler, HandlerOK
  <2>3. h'[t] \in Handler
    BY <1>1, <2>1, <2>2 DEF Handler, NoApproval, Approval
  <2>4. \A q \in h'[t].todo : Stored(q[1])'
    BY <1>1, <2>1 DEF Handler, HandlerOK
  <2>5. HandlerOK(h[t])'
    BY <2>1, <2>2, <2>4 DEF HandlerOK
  <2> QED
    BY <2>1, <2>3, <2>5, OneHandler
<1> QED
  BY <1>2, <1>3 DEF Return

LEMMA TypeInit == Init => TypeOK
BY BoundsAssumption
DEF Init, TypeOK, TablesOK, HandlersOK, HandlerOK, Idle, Handler, Status,
    NoApproval, Approval, ResultStatus, Time, Stored

(* The steps that start a handler.                                         *)
LEMMA TypeStart ==
  ASSUME TypeOK, NEW t \in Task,
         Create(t) \/ Read(t) \/ Hello(t) \/ AcceptResult(t)
  PROVE  TypeOK'
<1> USE DEF TypeOK, store, network, history
<1>0. h \in [Task -> Handler] /\ h[t] \in Handler /\ HandlerOK(h[t])
  BY DEF HandlersOK
<1>1. CASE CreateNew(t)
  <2>1. PICK r \in Requests : /\ h' = [h EXCEPT ![t].pc = "insert", ![t].arg = r]
                              /\ UNCHANGED <<store, audit, now, network, history>>
    BY <1>1 DEF CreateNew, Arrives
  <2>2. h' = [h EXCEPT ![t] = h'[t]] /\ h'[t] \in Handler /\ HandlerOK(h[t])'
    BY <1>0, <2>1 DEF Handler, HandlerOK, Stored
  <2>3. HandlersOK'
    BY <2>1, <2>2, OneHandler DEF Stored
  <2> QED
    BY <2>1, <2>3 DEF TablesOK, Stored
<1>2. CASE CreateReplay(t)
  <2>1. PICK r \in Requests, c \in CmdId :
          /\ Stored(c)
          /\ h' = [h EXCEPT ![t].pc = "check", ![t].id = c, ![t].seen = status[c]]
          /\ answers' = answers \union {<<r, c>>}
          /\ UNCHANGED <<store, audit, now, network, consent, faults>>
    BY <1>2 DEF CreateReplay, Arrives, Holders
  <2>2. status[c] \in Status
    BY <2>1 DEF TablesOK, Stored
  <2>3. h' = [h EXCEPT ![t] = h'[t]] /\ h'[t] \in Handler /\ HandlerOK(h[t])'
    BY <1>0, <2>1, <2>2 DEF Handler, HandlerOK, Stored
  <2>4. HandlersOK'
    BY <2>1, <2>3, OneHandler DEF Stored
  <2> QED
    BY <2>1, <2>4 DEF TablesOK, Stored
<1>3. CASE CreateConflict(t)
  <2>1. PICK r \in Requests :
          /\ answers' = answers \union {<<r, None>>}
          /\ UNCHANGED <<store, audit, now, network, h, consent, faults>>
    BY <1>3 DEF CreateConflict, Arrives
  <2>2. HandlersOK'
    BY <2>1 DEF HandlersOK, HandlerOK, Stored
  <2> QED
    BY <2>1, <2>2 DEF TablesOK, Stored
<1>4. CASE Read(t)
  <2>1. PICK c \in CmdId :
          /\ Stored(c)
          /\ h' = [h EXCEPT ![t].pc = "check", ![t].id = c, ![t].seen = status[c]]
          /\ UNCHANGED <<store, audit, now, network, history>>
    BY <1>4 DEF Read
  <2>2. status[c] \in Status
    BY <2>1 DEF TablesOK, Stored
  <2>3. h' = [h EXCEPT ![t] = h'[t]] /\ h'[t] \in Handler /\ HandlerOK(h[t])'
    BY <1>0, <2>1, <2>2 DEF Handler, HandlerOK, Stored
  <2>4. HandlersOK'
    BY <2>1, <2>3, OneHandler DEF Stored
  <2> QED
    BY <2>1, <2>4 DEF TablesOK, Stored
<1>5. CASE Hello(t)
  <2>1. PICK d \in Device :
          /\ online' = online \union {d}
          /\ session' = [session EXCEPT ![d] = {}]
          /\ h' = [h EXCEPT ![t].pc = "list", ![t].arg = d]
          /\ UNCHANGED <<store, audit, now, sent, history>>
    BY <1>5 DEF Hello
  <2>2. h' = [h EXCEPT ![t] = h'[t]] /\ h'[t] \in Handler /\ HandlerOK(h[t])'
    BY <1>0, <2>1 DEF Handler, HandlerOK, Stored
  <2>3. HandlersOK'
    BY <2>1, <2>2, OneHandler DEF Stored
  <2> QED
    BY <2>1, <2>3 DEF TablesOK, Stored
<1>6. CASE AcceptResult(t)
  <2>1. PICK c \in sent, result \in ResultStatus :
          /\ h' = [h EXCEPT ![t].pc = "save", ![t].id = c, ![t].seen = result]
          /\ UNCHANGED <<store, audit, now, network, history>>
    BY <1>6 DEF AcceptResult
  <2>2. c \in CmdId /\ Stored(c) /\ result \in Status
    BY DEF TablesOK, ResultStatus, Status, Terminal
  <2>3. h' = [h EXCEPT ![t] = h'[t]] /\ h'[t] \in Handler /\ HandlerOK(h[t])'
    BY <1>0, <2>1, <2>2 DEF Handler, HandlerOK, Stored
  <2>4. HandlersOK'
    BY <2>1, <2>3, OneHandler DEF Stored
  <2> QED
    BY <2>1, <2>4 DEF TablesOK, Stored
<1> QED
  BY <1>1, <1>2, <1>3, <1>4, <1>5, <1>6 DEF Create

(* The columns a creation writes are those of a request.                   *)
LEMMA AsStoredTyped ==
  ASSUME NEW r \in Requests
  PROVE  AsStored(r) \in Request /\ AsStored(r) /= None /\ AsStored(r).tool = r.tool
         /\ AsStored(r).key = r.key
BY RequestsAssumption, NoneAssumption DEF AsStored, Request

(* The steps of a handler that has started.                                *)
LEMMA TypeContinue ==
  ASSUME TypeOK, NEW t \in Task, Continue(t)
  PROVE  TypeOK'
<1> USE DEF TypeOK, store, network, history
<1>0. h \in [Task -> Handler] /\ h[t] \in Handler /\ HandlerOK(h[t])
  BY DEF HandlersOK
<1>1. CASE InsertCommand(t)
  <2> DEFINE r == h[t].arg
             first == IF ApprovalRequired(r.tool) THEN "awaiting_approval" ELSE "queued"
             pc == IF ApprovalRequired(r.tool) THEN "insertApproval" ELSE "created"
  <2>1. r \in Requests
    BY <1>0, <1>1 DEF InsertCommand, At, HandlerOK
  <2>2. CASE h' = [h EXCEPT ![t] = Idle] /\ UNCHANGED <<store, answers>>
    <3>1. h' = [h EXCEPT ![t] = h'[t]] /\ h'[t] \in Handler /\ HandlerOK(h[t])'
      BY <1>0, <2>2 DEF Idle, Handler, HandlerOK, NoApproval, Approval
    <3>2. HandlersOK'
      BY <2>2, <3>1, OneHandler DEF Stored
    <3> QED
      BY <1>1, <2>2, <3>2 DEF InsertCommand, TablesOK, Stored
  <2>3. ASSUME NEW c \in CmdId, ~Stored(c),
               status' = [status EXCEPT ![c] = first],
               request' = [request EXCEPT ![c] = AsStored(r)],
               answers' = answers \union {<<r, c>>},
               h' = [h EXCEPT ![t] = [Idle EXCEPT !.id = c, !.seen = first, !.pc = pc]],
               UNCHANGED <<approval, results>>
        PROVE  TypeOK'
    <3>1. status'[c] = first /\ first \in Status /\ first /= "absent"
      BY <2>3 DEF TablesOK, Status
    <3>2. \A b \in CmdId : Stored(b) => Stored(b)'
      BY <2>3, <3>1 DEF TablesOK, Stored
    <3>3. /\ h' = [h EXCEPT ![t] = h'[t]]
          /\ h'[t] = [pc |-> pc, id |-> c, arg |-> None, seen |-> first,
                      held |-> NoApproval, todo |-> {}]
      BY <1>0, <2>3 DEF Idle
    <3>4. h'[t] \in Handler /\ HandlerOK(h[t])'
      BY <3>1, <3>3 DEF Handler, HandlerOK, NoApproval, Approval, Stored
    <3>5. HandlersOK'
      BY <3>2, <3>3, <3>4, OneHandler
    <3>6. AsStored(r) \in Request /\ AsStored(r) /= None
      BY <2>1, AsStoredTyped
    <3>7. UNCHANGED <<approval, results, audit, now, network, consent, faults>>
      BY <1>1, <2>3 DEF InsertCommand
    <3>8. TablesOK'
      BY <2>1, <2>3, <3>1, <3>2, <3>6, <3>7 DEF TablesOK, Stored
    <3> QED
      BY <3>5, <3>8
  <2> QED
    BY <1>1, <2>2, <2>3 DEF InsertCommand, FirstStatus, KeyTaken
<1>2. CASE InsertApproval(t)
  <2>1. h[t].id \in CmdId
    BY <1>0, <1>2 DEF InsertApproval, At, HandlerOK
  <2>2. h' = [h EXCEPT ![t] = h'[t]] /\ h'[t] \in Handler /\ HandlerOK(h[t])'
    BY <1>0, <1>2 DEF InsertApproval, At, Handler, HandlerOK, Stored
  <2>3. HandlersOK'
    BY <1>2, <2>2, OneHandler DEF InsertApproval, Stored
  <2> QED
    BY <1>2, <2>1, <2>3 DEF InsertApproval, TablesOK, Stored, Approval
<1>3. CASE RecordAudit(t)
  <2>0. \A c \in CmdId : Stored(c)' <=> Stored(c)
    BY <1>3 DEF RecordAudit, Stored
  <2>1. h[t].id \in CmdId /\ AuditKind(t) \in Status \union {"created", "approved", "denied"}
    BY <1>0, <1>3 DEF RecordAudit, At, AuditKind, HandlerOK
  <2>2. ASSUME h' = [h EXCEPT ![t].pc = "dispatch"] PROVE HandlersOK'
    <3>1. h' = [h EXCEPT ![t] = h'[t]] /\ h'[t] \in Handler /\ HandlerOK(h[t])'
      BY <1>0, <1>3, <2>2 DEF RecordAudit, At, Handler, HandlerOK, Stored
    <3> QED
      BY <2>0, <3>1, OneHandler
  <2>3. ASSUME Return(t) PROVE HandlersOK'
    BY <2>0, <2>3, ReturnTyped
  <2>4. HandlersOK'
    BY <1>3, <2>2, <2>3 DEF RecordAudit
  <2> QED
    BY <1>3, <2>1, <2>4 DEF RecordAudit, TablesOK, Stored
<1>4. CASE CheckExpiry(t)
  <2>0. \A c \in CmdId : Stored(c)' <=> Stored(c)
    BY <1>4 DEF CheckExpiry, Stored
  <2>1. ASSUME h' = [h EXCEPT ![t].pc = "update", ![t].seen = "expired"] PROVE HandlersOK'
    <3>1. h' = [h EXCEPT ![t] = h'[t]] /\ h'[t] \in Handler /\ HandlerOK(h[t])'
      BY <1>0, <1>4, <2>1 DEF CheckExpiry, At, Handler, HandlerOK, Stored, Status, Terminal
    <3> QED
      BY <2>0, <3>1, OneHandler
  <2>2. ASSUME h' = [h EXCEPT ![t].pc = "getApproval"] PROVE HandlersOK'
    <3>1. h' = [h EXCEPT ![t] = h'[t]] /\ h'[t] \in Handler /\ HandlerOK(h[t])'
      BY <1>0, <1>4, <2>2 DEF CheckExpiry, At, Handler, HandlerOK, Stored
    <3> QED
      BY <2>0, <3>1, OneHandler
  <2>3. ASSUME Return(t) PROVE HandlersOK'
    BY <2>0, <2>3, ReturnTyped
  <2>4. HandlersOK'
    BY <1>4, <2>1, <2>2, <2>3 DEF CheckExpiry, Expire
  <2> QED
    BY <1>4, <2>4 DEF CheckExpiry, TablesOK, Stored
<1>5. CASE GetApproval(t)
  <2>1. PICK approve, biometric \in BOOLEAN :
          \/ h' = [h EXCEPT ![t] = Idle] /\ UNCHANGED consent
          \/ /\ h' = [h EXCEPT ![t].pc = "updateApproval",
                  ![t].held = [approval[h[t].id] EXCEPT
                    !.decision = IF approve THEN "approved" ELSE "denied"],
                  ![t].seen = IF approve THEN "queued" ELSE "cancelled"]
             /\ consent' \in {consent, consent \union {<<h[t].id, biometric>>}}
    BY <1>5 DEF GetApproval
  <2>2. h[t].pc = "getApproval" /\ UNCHANGED <<store, audit, now, network, answers, faults>>
    BY <1>5 DEF GetApproval, At
  <2>3. h[t].id \in CmdId /\ approval[h[t].id] \in Approval
    BY <1>0, <2>2 DEF HandlerOK, TablesOK
  <2>4. h' = [h EXCEPT ![t] = h'[t]] /\ h'[t] \in Handler /\ HandlerOK(h[t])'
    <3>1. CASE h' = [h EXCEPT ![t] = Idle]
      BY <1>0, <3>1 DEF Idle, Handler, HandlerOK, NoApproval, Approval
    <3>2. CASE h' = [h EXCEPT ![t].pc = "updateApproval",
                  ![t].held = [approval[h[t].id] EXCEPT
                    !.decision = IF approve THEN "approved" ELSE "denied"],
                  ![t].seen = IF approve THEN "queued" ELSE "cancelled"]
      <4>1. /\ h' = [h EXCEPT ![t] = h'[t]]
            /\ h'[t] = [h[t] EXCEPT !.pc = "updateApproval", !.held = h'[t].held,
                                     !.seen = h'[t].seen]
            /\ h'[t].held \in Approval /\ h'[t].seen \in {"queued", "cancelled"}
        BY <1>0, <2>3, <3>2 DEF Handler, Approval
      <4> QED
        BY <1>0, <2>2, <2>3, <4>1 DEF Handler, HandlerOK, Stored, Status, Terminal
    <3> QED
      BY <2>1, <3>1, <3>2
  <2>5. HandlersOK'
    BY <2>2, <2>4, OneHandler DEF Stored
  <2>6. consent' \subseteq CmdId \X BOOLEAN
    BY <2>1, <2>3 DEF TablesOK
  <2> QED
    BY <2>2, <2>5, <2>6 DEF TablesOK, Stored
<1>6. CASE UpdateApproval(t)
  <2>1. h[t].id \in CmdId /\ h[t].held \in Approval
    BY <1>0, <1>6 DEF UpdateApproval, At, Handler, HandlerOK
  <2>2. h' = [h EXCEPT ![t] = h'[t]] /\ h'[t] \in Handler /\ HandlerOK(h[t])'
    BY <1>0, <1>6 DEF UpdateApproval, At, Handler, HandlerOK, Stored
  <2>3. HandlersOK'
    BY <1>6, <2>2, OneHandler DEF UpdateApproval, Stored
  <2> QED
    BY <1>6, <2>1, <2>3 DEF UpdateApproval, TablesOK, Stored
<1>7. CASE UpdateCommand(t)
  <2>1. h[t].id \in CmdId /\ h[t].seen \in Status /\ Stored(h[t].id)
    BY <1>0, <1>7 DEF UpdateCommand, At, HandlerOK
  <2>2. \A c \in CmdId : Stored(c)' <=> Stored(c)
    BY <1>7, <2>1 DEF UpdateCommand, TablesOK, Stored, Status, Terminal
  <2>3. /\ h' = [h EXCEPT ![t] = h'[t]]
        /\ h'[t] = [h[t] EXCEPT !.pc = IF h[t].seen = "dispatched" THEN "send" ELSE "audit"]
    BY <1>0, <1>7 DEF UpdateCommand
  <2>4. h'[t] \in Handler
    BY <1>0, <2>3 DEF Handler
  <2>5. HandlerOK(h[t])'
    BY <1>0, <2>1, <2>2, <2>3 DEF Handler, HandlerOK
  <2>6. HandlersOK'
    BY <2>2, <2>3, <2>4, <2>5, OneHandler
  <2> QED
    BY <1>7, <2>1, <2>2, <2>6 DEF UpdateCommand, TablesOK
<1>8. CASE TryDispatch(t)
  <2>0. \A c \in CmdId : Stored(c)' <=> Stored(c)
    BY <1>8 DEF TryDispatch, Stored
  <2>1. h[t].pc = "dispatch" /\ UNCHANGED <<store, audit, now, network, history>>
    BY <1>8 DEF TryDispatch, At
  <2>2. ASSUME Return(t) PROVE HandlersOK'
    BY <2>0, <2>2, ReturnTyped
  <2>3. ASSUME NEW pc \in {"update", "send", "readApproval"}, NEW seen \in Status,
               h' = [h EXCEPT ![t].pc = pc, ![t].seen = seen]
        PROVE  HandlersOK'
    <3>1. h' = [h EXCEPT ![t] = h'[t]] /\ h'[t] \in Handler /\ HandlerOK(h[t])'
      BY <1>0, <2>1, <2>3 DEF Handler, HandlerOK, Stored
    <3> QED
      BY <2>0, <3>1, OneHandler
  <2>4. h[t].seen \in Status /\ "expired" \in Status /\ "dispatched" \in Status
    BY <1>0, <2>1 DEF HandlerOK, Status, Terminal
  <2>5. HandlersOK'
    BY <1>8, <2>2, <2>3, <2>4 DEF TryDispatch, Expire
  <2> QED
    BY <2>1, <2>5 DEF TablesOK, Stored
<1>9. CASE ReadApproval(t)
  <2>0. \A c \in CmdId : Stored(c)' <=> Stored(c)
    BY <1>9 DEF ReadApproval, Stored
  <2>1. h[t].pc = "readApproval" /\ UNCHANGED <<store, audit, now, network, history>>
    BY <1>9 DEF ReadApproval, At
  <2>2. ASSUME Return(t) PROVE HandlersOK'
    BY <2>0, <2>2, ReturnTyped
  <2>3. ASSUME NEW pc \in {"update", "updateApproval"},
               h' = [h EXCEPT ![t].pc = pc,
                 ![t].held = [approval[h[t].id] EXCEPT !.consumed = TRUE],
                 ![t].seen = "dispatched"]
        PROVE  HandlersOK'
    <3>1. approval[h[t].id] \in Approval
      BY <1>0, <2>1 DEF HandlerOK, TablesOK
    <3>2. h' = [h EXCEPT ![t] = h'[t]] /\ h'[t] \in Handler /\ HandlerOK(h[t])'
      BY <1>0, <2>1, <2>3, <3>1 DEF Handler, HandlerOK, Stored, Status, Approval
    <3> QED
      BY <2>0, <3>2, OneHandler
  <2>4. HandlersOK'
    BY <1>9, <2>2, <2>3 DEF ReadApproval, Consume
  <2> QED
    BY <2>1, <2>4 DEF TablesOK, Stored
<1>10. CASE Send(t)
  <2>0. \A c \in CmdId : Stored(c)' <=> Stored(c)
    BY <1>10 DEF Send, Stored
  <2>1. /\ h[t].pc = "send" /\ UNCHANGED <<store, audit, now, online, history>>
        /\ h[t].id \in CmdId /\ Stored(h[t].id)
    BY <1>0, <1>10 DEF Send, At, HandlerOK
  <2>2. ASSUME Return(t) PROVE HandlersOK'
    BY <2>0, <2>2, ReturnTyped
  <2>3. ASSUME h' = [h EXCEPT ![t].pc = "audit"] PROVE HandlersOK'
    <3>1. h' = [h EXCEPT ![t] = h'[t]] /\ h'[t] \in Handler /\ HandlerOK(h[t])'
      BY <1>0, <2>1, <2>3 DEF Handler, HandlerOK, Stored
    <3> QED
      BY <2>0, <3>1, OneHandler
  <2>4. HandlersOK'
    BY <1>10, <2>2, <2>3 DEF Send
  <2>5. session' \in [Device -> SUBSET CmdId] /\ sent' \subseteq {c \in CmdId : Stored(c)}
    BY <1>10, <2>1 DEF Send, TablesOK
  <2> QED
    BY <2>1, <2>4, <2>5 DEF TablesOK, Stored
<1>11. CASE ListPending(t)
  <2>1. UNCHANGED <<store, audit, now, network, history>>
    BY <1>11 DEF ListPending
  <2>2. ASSUME h' = [h EXCEPT ![t] = Idle] PROVE HandlersOK'
    <3>1. h' = [h EXCEPT ![t] = h'[t]] /\ h'[t] \in Handler /\ HandlerOK(h[t])'
      BY <1>0, <2>2 DEF Idle, Handler, HandlerOK, NoApproval, Approval
    <3> QED
      BY <2>1, <3>1, OneHandler DEF Stored
  <2>3. ASSUME NEW listed \in SUBSET {c \in CmdId : Stored(c)}, NEW c \in listed,
               h' = [h EXCEPT ![t] = [Idle EXCEPT !.pc = "dispatch", !.id = c,
                      !.seen = status[c],
                      !.todo = {<<b, status[b]>> : b \in listed \ {c}}]]
        PROVE  HandlersOK'
    <3>1. /\ h' = [h EXCEPT ![t] = h'[t]]
          /\ h'[t] = [pc |-> "dispatch", id |-> c, arg |-> None, seen |-> status[c],
                      held |-> NoApproval,
                      todo |-> {<<b, status[b]>> : b \in listed \ {c}}]
      BY <1>0, <2>3 DEF Idle
    <3>2. \A b \in listed : b \in CmdId /\ Stored(b) /\ status[b] \in Status
      BY DEF TablesOK, Stored
    <3>3. \A p \in h'[t].todo : p \in CmdId \X Status /\ Stored(p[1])
      BY <3>1, <3>2
    <3>4. h'[t] \in Handler
      BY <3>1, <3>2, <3>3 DEF Handler, NoApproval, Approval
    <3>5. HandlerOK(h[t])'
      BY <2>1, <3>1, <3>2, <3>3 DEF HandlerOK, Stored
    <3> QED
      BY <2>1, <3>1, <3>4, <3>5, OneHandler DEF Stored
  <2>4. HandlersOK'
    BY <1>11, <2>2, <2>3 DEF ListPending, ExpiresLater
  <2> QED
    BY <2>1, <2>4 DEF TablesOK, Stored
<1>12. CASE SaveResult(t)
  <2>1. /\ h[t].id \in CmdId /\ h[t].seen \in ResultStatus
        /\ UNCHANGED <<status, request, approval, audit, now, network, history>>
    BY <1>0, <1>12 DEF SaveResult, At, HandlerOK
  <2>2. h' = [h EXCEPT ![t] = h'[t]] /\ h'[t] \in Handler /\ HandlerOK(h[t])'
    BY <1>0, <1>12, <2>1 DEF SaveResult, At, Handler, HandlerOK, Stored
  <2>3. HandlersOK'
    BY <2>1, <2>2, OneHandler DEF Stored
  <2> QED
    BY <1>12, <2>1, <2>3 DEF SaveResult, TablesOK, Stored
<1> QED
  BY <1>1, <1>2, <1>3, <1>4, <1>5, <1>6, <1>7, <1>8, <1>9, <1>10, <1>11, <1>12
  DEF Continue

(* Connections, the clock and faults.                                      *)
LEMMA TypeAround ==
  ASSUME TypeOK,
         \/ \E d \in Device : Disconnect(d)
         \/ Tick \/ Restart \/ \E t \in Task : QueryError(t)
  PROVE  TypeOK'
<1> USE DEF TypeOK, store, network, history
<1>1. CASE \E d \in Device : Disconnect(d)
  BY <1>1 DEF Disconnect, TablesOK, HandlersOK, HandlerOK, Stored
<1>2. CASE Tick
  <2>1. now' \in Time
    BY <1>2, BoundsAssumption DEF Tick, TablesOK, Time
  <2>2. HandlersOK'
    BY <1>2 DEF Tick, HandlersOK, HandlerOK, Stored
  <2> QED
    BY <1>2, <2>1, <2>2 DEF Tick, TablesOK, Stored
<1>4. ASSUME Fault("restart") \/ Fault("query_error") PROVE faults' \in 0..MaxFaults
  BY <1>4, BoundsAssumption DEF Fault, TablesOK
<1>5. Idle \in Handler /\ HandlerOK(Idle)
  BY DEF Idle, Handler, HandlerOK, NoApproval, Approval
<1>6. CASE Restart
  <2>1. HandlersOK'
    BY <1>5, <1>6 DEF Restart, HandlersOK, HandlerOK, Idle
  <2> QED
    BY <1>4, <1>6, <2>1 DEF Restart, TablesOK, Stored
<1>7. ASSUME NEW t \in Task, QueryError(t) PROVE TypeOK'
  <2>1. h' = [h EXCEPT ![t] = h'[t]] /\ h'[t] = Idle
    BY <1>7 DEF QueryError, HandlersOK
  <2>2. HandlersOK'
    BY <1>5, <1>7, <2>1 DEF QueryError, HandlersOK, HandlerOK, Idle, Stored
  <2> QED
    BY <1>4, <1>7, <2>2 DEF QueryError, TablesOK, Stored
<1> QED
  BY <1>1, <1>2, <1>6, <1>7

(* What every step keeps.                                                  *)
LEMMA TypeStep == ASSUME TypeOK, [Next]_vars PROVE TypeOK'
<1>1. ASSUME Next PROVE TypeOK'
  BY <1>1, TypeStart, TypeContinue, TypeAround DEF Next, Task
<1>2. ASSUME UNCHANGED vars PROVE TypeOK'
  BY <1>2 DEF TypeOK, TablesOK, HandlersOK, HandlerOK, Stored, vars, store,
              network, history
<1> QED
  BY <1>1, <1>2

(* Every state of every behaviour is well typed: in particular no handler  *)
(* ever writes a row, or holds a snapshot, of a command that is not stored. *)
THEOREM TypeCorrect == Spec => []TypeOK
<1>1. Init => TypeOK
  BY TypeInit
<1>2. TypeOK /\ [Next]_vars => TypeOK'
  BY TypeStep
<1> QED
  BY <1>1, <1>2, PTL DEF Spec

-----------------------------------------------------------------------------
(* Consent.                                                                *)

(* A consent is never withdrawn: nothing leaves the history of accepted    *)
(* approvals, and the columns of a stored command do not change.           *)
LEMMA ConsentKept ==
  ASSUME consent \subseteq consent',
         \A c \in CmdId : Stored(c) => request'[c] = request[c]
  PROVE  \A c \in CmdId : Stored(c) /\ Consented(c) => Consented(c)'
BY DEF Consented, ToolOf

(* What a handler may write back stays covered while others step.          *)
LEMMA OneHolder ==
  ASSUME HandlersOK, \A u \in Task : HolderConsented(h[u]),
         \A c \in CmdId : Stored(c) /\ Consented(c) => Consented(c)',
         NEW t \in Task, h' = [h EXCEPT ![t] = h'[t]], HolderConsented(h[t])'
  PROVE  (\A u \in Task : HolderConsented(h[u]))'
<1>1. ASSUME NEW u \in Task, u /= t PROVE HolderConsented(h[u])'
  <2>1. /\ h'[u] = h[u] /\ h[u] \in Handler
        /\ HandlerOK(h[u]) /\ HolderConsented(h[u])
    BY <1>1 DEF HandlersOK
  <2>2. \A p \in h[u].todo : p[1] \in CmdId /\ Stored(p[1])
    BY <2>1 DEF Handler, HandlerOK
  <2> QED
    BY <2>1, <2>2 DEF HandlerOK, HolderConsented
<1> QED
  BY <1>1

LEMMA ReturnConsented ==
  ASSUME HandlersOK, \A u \in Task : HolderConsented(h[u]),
         \A c \in CmdId : Stored(c) /\ Consented(c) => Consented(c)',
         NEW t \in Task, Return(t)
  PROVE  (\A u \in Task : HolderConsented(h[u]))'
<1>1. h \in [Task -> Handler] /\ h[t] \in Handler /\ HandlerOK(h[t])
      /\ HolderConsented(h[t])
  BY DEF HandlersOK
<1>2. \A p \in h[t].todo : p[1] \in CmdId /\ Stored(p[1])
  BY <1>1 DEF Handler, HandlerOK
<1>3. CASE h' = [h EXCEPT ![t] = Idle]
  <2>1. h' = [h EXCEPT ![t] = h'[t]] /\ HolderConsented(h[t])'
    BY <1>1, <1>3 DEF Idle, HolderConsented
  <2> QED
    BY <2>1, OneHolder
<1>4. ASSUME NEW p \in h[t].todo,
             h' = [h EXCEPT ![t] = [Idle EXCEPT !.pc = "dispatch", !.id = p[1],
                                      !.seen = p[2], !.todo = h[t].todo \ {p}]]
      PROVE  (\A u \in Task : HolderConsented(h[u]))'
  <2>1. /\ h'[t] = [pc |-> "dispatch", id |-> p[1], arg |-> None, seen |-> p[2],
                    held |-> NoApproval, todo |-> h[t].todo \ {p}]
        /\ h' = [h EXCEPT ![t] = h'[t]]
    BY <1>1, <1>4 DEF Idle
  <2>2. HolderConsented(h[t])'
    BY <1>1, <1>2, <2>1 DEF HolderConsented
  <2> QED
    BY <2>1, <2>2, OneHolder
<1> QED
  BY <1>3, <1>4 DEF Return

LEMMA ConsentInit == Init => ConsentHeld
BY DEF Init, ConsentHeld, ConsentBeforeDispatch, HolderConsented, Idle,
       NoApproval, Live

(* The part of the invariant about tables, where they do not change.       *)
LEMMA TablesKept ==
  ASSUME ConsentHeld, TypeOK, UNCHANGED <<status, approval, sent>>,
         \A c \in CmdId : Stored(c) /\ Consented(c) => Consented(c)',
         (\A u \in Task : HolderConsented(h[u]))'
  PROVE  ConsentHeld'
<1>1. \A c \in CmdId : status[c] \in Live => Stored(c)
  BY DEF Live, Stored
<1>2. \A c \in sent : c \in CmdId /\ Stored(c)
  BY DEF TypeOK, TablesOK
<1> QED
  BY <1>1, <1>2 DEF ConsentHeld, ConsentBeforeDispatch, Stored

LEMMA ConsentStart ==
  ASSUME TypeOK, ConsentHeld, NEW t \in Task,
         Create(t) \/ Read(t) \/ Hello(t) \/ AcceptResult(t)
  PROVE  ConsentHeld'
<1> USE DEF store, network, history
<1>0. /\ HandlersOK /\ h \in [Task -> Handler] /\ h[t] \in Handler
      /\ HandlerOK(h[t]) /\ HolderConsented(h[t])
      /\ \A u \in Task : HolderConsented(h[u])
  BY DEF TypeOK, HandlersOK, ConsentHeld
<1>1. UNCHANGED <<status, request, approval, sent, consent>>
  BY DEF Create, CreateNew, CreateReplay, CreateConflict, Arrives, Read, Hello,
         AcceptResult
<1>2. \A c \in CmdId : Stored(c) /\ Consented(c) => Consented(c)'
  BY <1>1 DEF Consented, ToolOf
<1>3. ASSUME h' = [h EXCEPT ![t] = h'[t]], HolderConsented(h[t])'
      PROVE  ConsentHeld'
  BY <1>0, <1>1, <1>2, <1>3, OneHolder, TablesKept
<1>4. ASSUME NEW pc \in {"insert", "list"}, NEW arg,
             h' = [h EXCEPT ![t].pc = pc, ![t].arg = arg]
      PROVE  ConsentHeld'
  <2>1. /\ h' = [h EXCEPT ![t] = h'[t]]
        /\ h'[t] = [h[t] EXCEPT !.pc = pc, !.arg = arg]
    BY <1>0, <1>4
  <2>2. \A p \in h[t].todo : p[1] \in CmdId /\ Stored(p[1])
    BY <1>0 DEF Handler, HandlerOK
  <2>3. h'[t].pc = pc /\ h'[t].todo = h[t].todo
    BY <1>0, <2>1 DEF Handler
  <2>4. HolderConsented(h[t])'
    BY <1>0, <1>2, <2>2, <2>3 DEF HolderConsented
  <2> QED
    BY <1>3, <2>1, <2>4
<1>5. ASSUME NEW pc \in {"check", "save"}, NEW c \in CmdId, NEW seen,
             h' = [h EXCEPT ![t].pc = pc, ![t].id = c, ![t].seen = seen],
             seen \in Live => Stored(c) /\ Consented(c)
      PROVE  ConsentHeld'
  <2>1. /\ h' = [h EXCEPT ![t] = h'[t]]
        /\ h'[t] = [h[t] EXCEPT !.pc = pc, !.id = c, !.seen = seen]
    BY <1>0, <1>5
  <2>2. \A p \in h[t].todo : p[1] \in CmdId /\ Stored(p[1])
    BY <1>0 DEF Handler, HandlerOK
  <2>3. /\ h'[t].pc = pc /\ h'[t].todo = h[t].todo
        /\ h'[t].id = c /\ h'[t].seen = seen
    BY <1>0, <2>1 DEF Handler
  <2>4. HolderConsented(h[t])'
    BY <1>0, <1>2, <1>5, <2>2, <2>3 DEF HolderConsented
  <2> QED
    BY <1>3, <2>1, <2>4
<1>6. \A c \in CmdId : status[c] \in Live => Stored(c) /\ Consented(c)
  BY DEF ConsentHeld, Live, Stored
<1>7. CASE CreateNew(t)
  BY <1>4, <1>7 DEF CreateNew
<1>8. CASE CreateReplay(t)
  BY <1>5, <1>6, <1>8 DEF CreateReplay, Holders
<1>9. CASE CreateConflict(t)
  <2>1. h' = h
    BY <1>9 DEF CreateConflict
  <2>2. \A u \in Task : \A p \in h[u].todo : p[1] \in CmdId /\ Stored(p[1])
    BY <1>0 DEF HandlersOK, Handler, HandlerOK
  <2>3. (\A u \in Task : HolderConsented(h[u]))'
    BY <1>0, <1>2, <2>1, <2>2 DEF HolderConsented, HandlersOK, HandlerOK
  <2> QED
    BY <1>1, <1>2, <2>3, TablesKept
<1>10. CASE Read(t)
  BY <1>5, <1>6, <1>10 DEF Read
<1>11. CASE Hello(t)
  BY <1>4, <1>11 DEF Hello
<1>12. CASE AcceptResult(t)
  <2>1. PICK c \in sent, result \in ResultStatus :
          h' = [h EXCEPT ![t].pc = "save", ![t].id = c, ![t].seen = result]
    BY <1>12 DEF AcceptResult
  <2>2. c \in CmdId /\ Stored(c) /\ Consented(c)
    BY DEF TypeOK, TablesOK, ConsentHeld, ConsentBeforeDispatch
  <2> QED
    BY <1>5, <2>1, <2>2
<1> QED
  BY <1>7, <1>8, <1>9, <1>10, <1>11, <1>12 DEF Create

(* The steps of a handler that has started.                                *)
LEMMA ConsentContinue ==
  ASSUME TypeOK, ConsentHeld, NEW t \in Task, Continue(t)
  PROVE  ConsentHeld'
<1> USE DEF store, network, history
<1>0. /\ HandlersOK /\ h \in [Task -> Handler] /\ h[t] \in Handler
      /\ HandlerOK(h[t]) /\ HolderConsented(h[t])
      /\ \A u \in Task : HolderConsented(h[u])
  BY DEF TypeOK, HandlersOK, ConsentHeld
<1>1. consent \subseteq consent'
  BY DEF Continue, InsertCommand, InsertApproval, RecordAudit, CheckExpiry,
         GetApproval, UpdateApproval, UpdateCommand, TryDispatch, ReadApproval,
         Send, ListPending, SaveResult
<1>2. \A c \in CmdId : Stored(c) => request'[c] = request[c]
  <2>1. CASE InsertCommand(t)
    BY <2>1 DEF InsertCommand, TypeOK, TablesOK
  <2>2. CASE ~InsertCommand(t)
    BY <2>2 DEF Continue, InsertApproval, RecordAudit, CheckExpiry, GetApproval,
         UpdateApproval, UpdateCommand, TryDispatch, ReadApproval, Send, ListPending,
         SaveResult
  <2> QED
    BY <2>1, <2>2
<1>3. \A c \in CmdId : Stored(c) /\ Consented(c) => Consented(c)'
  BY <1>1, <1>2, ConsentKept
<1>4. \A p \in h[t].todo : p[1] \in CmdId /\ Stored(p[1])
  BY <1>0 DEF Handler, HandlerOK
(* The handler's next record, in the steps that keep its command. *)
<1>5. ASSUME NEW pc, NEW held, NEW seen, NEW c \in CmdId, c = h[t].id,
             h[t].pc \notin {"idle", "insert", "list"},
             h' = [h EXCEPT ![t].pc = pc, ![t].held = held, ![t].seen = seen],
             (seen \in Live \/ pc = "send" \/ held.decision = "approved")
               => Consented(c)'
      PROVE  (\A u \in Task : HolderConsented(h[u]))'
  <2>1. /\ h' = [h EXCEPT ![t] = h'[t]]
        /\ h'[t] = [h[t] EXCEPT !.pc = pc, !.held = held, !.seen = seen]
    BY <1>0, <1>5
  <2>2. /\ h'[t].pc = pc /\ h'[t].todo = h[t].todo /\ h'[t].id = c
        /\ h'[t].seen = seen /\ h'[t].held = held
    BY <1>0, <1>5, <2>1 DEF Handler
  <2>3. HolderConsented(h[t])'
    BY <1>0, <1>3, <1>4, <1>5, <2>2 DEF HolderConsented
  <2> QED
    BY <1>0, <1>3, <2>1, <2>3, OneHolder
<1>6. ASSUME Return(t) PROVE (\A u \in Task : HolderConsented(h[u]))'
  BY <1>0, <1>3, <1>6, ReturnConsented
<1>7. ASSUME h' = [h EXCEPT ![t] = Idle] PROVE (\A u \in Task : HolderConsented(h[u]))'
  <2>1. h' = [h EXCEPT ![t] = h'[t]] /\ HolderConsented(h[t])'
    BY <1>0, <1>7 DEF Idle, HolderConsented
  <2> QED
    BY <1>0, <1>3, <2>1, OneHolder
(* Steps that change the record in pc and seen, or in pc, only.            *)
<1>8. ASSUME NEW pc, NEW seen, h[t].pc \notin {"idle", "insert", "list"},
             pc /= "updateApproval",
             h' = [h EXCEPT ![t].pc = pc, ![t].seen = seen],
             seen \in Live \/ pc = "send" => Consented(h[t].id)
      PROVE  (\A u \in Task : HolderConsented(h[u]))'
  <2>1. /\ h' = [h EXCEPT ![t] = h'[t]]
        /\ h'[t].pc = pc /\ h'[t].todo = h[t].todo /\ h'[t].id = h[t].id
        /\ h'[t].seen = seen
    BY <1>0, <1>8 DEF Handler
  <2>2. h[t].id \in CmdId /\ Stored(h[t].id)
    BY <1>0, <1>8 DEF HandlerOK
  <2>3. HolderConsented(h[t])'
    BY <1>0, <1>3, <1>4, <1>8, <2>1, <2>2 DEF HolderConsented
  <2> QED
    BY <1>0, <1>3, <2>1, <2>3, OneHolder
<1>8b. ASSUME NEW pc, h[t].pc \notin {"idle", "insert", "list"},
              pc /= "updateApproval", h' = [h EXCEPT ![t].pc = pc],
              pc = "send" => Consented(h[t].id)
       PROVE  (\A u \in Task : HolderConsented(h[u]))'
  <2>1. /\ h' = [h EXCEPT ![t] = h'[t]]
        /\ h'[t].pc = pc /\ h'[t].todo = h[t].todo /\ h'[t].id = h[t].id
        /\ h'[t].seen = h[t].seen
    BY <1>0, <1>8b DEF Handler
  <2>2. h[t].id \in CmdId /\ Stored(h[t].id)
    BY <1>0, <1>8b DEF HandlerOK
  <2>3. HolderConsented(h[t])'
    BY <1>0, <1>3, <1>4, <1>8b, <2>1, <2>2 DEF HolderConsented
  <2> QED
    BY <1>0, <1>3, <2>1, <2>3, OneHolder
<1>8a. ASSUME h[t].pc \in {"check", "dispatch"}, Expire(t)
       PROVE  (\A u \in Task : HolderConsented(h[u]))'
  <2>1. /\ h' = [h EXCEPT ![t] = h'[t]]
        /\ h'[t].pc = "update" /\ h'[t].todo = h[t].todo /\ h'[t].seen = "expired"
    BY <1>0, <1>8a DEF Expire, Handler
  <2>2. HolderConsented(h[t])'
    BY <1>0, <1>3, <1>4, <2>1 DEF HolderConsented, Live
  <2> QED
    BY <1>0, <1>3, <2>1, <2>2, OneHolder
<1>9. h[t].pc \notin {"idle", "insert", "list"} /\ h[t].seen \in Live => Consented(h[t].id)
  BY <1>0 DEF HolderConsented
<1>10. \A c \in CmdId : status[c] \in Live => Stored(c) /\ Consented(c)
  BY DEF ConsentHeld, Live, Stored
<1>11. CASE InsertCommand(t)
  <2> DEFINE r == h[t].arg
             first == IF ApprovalRequired(r.tool) THEN "awaiting_approval" ELSE "queued"
             pc == IF ApprovalRequired(r.tool) THEN "insertApproval" ELSE "created"
  <2>1. r \in Requests
    BY <1>0, <1>11 DEF InsertCommand, At, HandlerOK
  <2>2. CASE h' = [h EXCEPT ![t] = Idle] /\ UNCHANGED <<store, answers>>
    <3>1. UNCHANGED <<status, approval, sent>>
      BY <1>11, <2>2 DEF InsertCommand
    <3> QED
      BY <1>3, <1>7, <2>2, <3>1, TablesKept
  <2>3. ASSUME NEW c \in CmdId, ~Stored(c),
               status' = [status EXCEPT ![c] = first],
               request' = [request EXCEPT ![c] = AsStored(r)],
               h' = [h EXCEPT ![t] = [Idle EXCEPT !.id = c, !.seen = first, !.pc = pc]],
               UNCHANGED <<approval, results>>
        PROVE  ConsentHeld'
    <3>1. request'[c].tool = r.tool /\ status'[c] = first
      BY <2>1, <2>3, AsStoredTyped DEF TypeOK, TablesOK
    <3>2. first \in Live => Consented(c)'
      BY <3>1, BiometricNeedsApproval DEF Consented, ToolOf, Live
    <3>3. /\ h' = [h EXCEPT ![t] = h'[t]]
          /\ h'[t] = [pc |-> pc, id |-> c, arg |-> None, seen |-> first,
                      held |-> NoApproval, todo |-> {}]
      BY <1>0, <2>3 DEF Idle
    <3>4. HolderConsented(h[t])'
      BY <3>2, <3>3 DEF HolderConsented
    <3>5. (\A u \in Task : HolderConsented(h[u]))'
      BY <1>0, <1>3, <3>3, <3>4, OneHolder
    <3>6. sent' = sent /\ \A b \in CmdId : Stored(b) => Stored(b)'
      BY <1>11, <2>3, <3>1 DEF InsertCommand, Stored, TypeOK, TablesOK
    <3>7. (\A b \in CmdId : status[b] \in Live => Consented(b))'
      BY <1>3, <1>10, <2>3, <3>2 DEF TypeOK, TablesOK
    <3>8. /\ (\A b \in CmdId : approval[b].decision = "approved" =>
               Stored(b) /\ Consented(b))'
          /\ ConsentBeforeDispatch'
      BY <1>3, <2>3, <3>6 DEF ConsentHeld, ConsentBeforeDispatch, TypeOK, TablesOK
    <3> QED
      BY <3>5, <3>7, <3>8 DEF ConsentHeld
  <2> QED
    BY <1>11, <2>2, <2>3 DEF FirstStatus, KeyTaken, InsertCommand
<1>12. CASE InsertApproval(t)
  <2>1. h[t].pc = "insertApproval" /\ h' = [h EXCEPT ![t].pc = "created"]
        /\ UNCHANGED <<status, request, sent, consent>>
        /\ approval' = [approval EXCEPT ![h[t].id].decision = "pending"]
    BY <1>12 DEF InsertApproval, At
  <2>2. (\A u \in Task : HolderConsented(h[u]))'
    BY <1>8b, <1>9, <2>1
  <2>3. \A c \in CmdId : approval'[c].decision = "approved" =>
                          approval[c].decision = "approved"
    BY <2>1 DEF TypeOK, TablesOK, Approval
  <2> QED
    BY <1>3, <1>10, <2>1, <2>2, <2>3
    DEF ConsentHeld, ConsentBeforeDispatch, Stored, TypeOK, TablesOK
<1>13. CASE RecordAudit(t)
  <2>1. h[t].pc \in {"created", "audit"} /\ UNCHANGED <<status, approval, sent>>
    BY <1>13 DEF RecordAudit, At
  <2>2. ASSUME h' = [h EXCEPT ![t].pc = "dispatch"] PROVE (\A u \in Task : HolderConsented(h[u]))'
    BY <1>8b, <1>9, <2>1, <2>2
  <2>3. (\A u \in Task : HolderConsented(h[u]))'
    BY <1>6, <1>13, <2>2 DEF RecordAudit
  <2> QED
    BY <1>3, <2>1, <2>3, TablesKept
<1>14. CASE CheckExpiry(t)
  <2>1. h[t].pc = "check" /\ UNCHANGED <<status, approval, sent>>
    BY <1>14 DEF CheckExpiry, At
  <2>3. ASSUME h' = [h EXCEPT ![t].pc = "getApproval"] PROVE (\A u \in Task : HolderConsented(h[u]))'
    BY <1>8b, <1>9, <2>1, <2>3
  <2>4. (\A u \in Task : HolderConsented(h[u]))'
    BY <1>6, <1>8a, <1>14, <2>1, <2>3 DEF CheckExpiry
  <2> QED
    BY <1>3, <2>1, <2>4, TablesKept
<1>15. CASE GetApproval(t)
  <2>1. h[t].pc = "getApproval" /\ UNCHANGED <<store, sent>>
    BY <1>15 DEF GetApproval, At
  <2>2. PICK c \in CmdId : c = h[t].id
    BY <1>0, <2>1 DEF HandlerOK
  <2>3. approval[c] \in Approval
    BY DEF TypeOK, TablesOK
  <2>4. ASSUME NEW biometric \in BOOLEAN,
               BiometricRequired(ToolOf(c)) => biometric = TRUE,
               h' = [h EXCEPT ![t].pc = "updateApproval",
                 ![t].held = [approval[c] EXCEPT !.decision = "approved"],
                 ![t].seen = "queued"],
               consent' = consent \union {<<c, biometric>>}
        PROVE  (\A u \in Task : HolderConsented(h[u]))'
    <3>1. Consented(c)'
      BY <2>1, <2>4 DEF Consented, ToolOf
    <3> QED
      BY <1>5, <2>1, <2>2, <2>4, <3>1
  <2>5. ASSUME h' = [h EXCEPT ![t].pc = "updateApproval",
                 ![t].held = [approval[c] EXCEPT !.decision = "denied"],
                 ![t].seen = "cancelled"]
        PROVE  (\A u \in Task : HolderConsented(h[u]))'
    <3>1. /\ h' = [h EXCEPT ![t] = h'[t]]
          /\ h'[t].pc = "updateApproval" /\ h'[t].todo = h[t].todo
          /\ h'[t].seen = "cancelled" /\ h'[t].held.decision = "denied"
      BY <1>0, <2>3, <2>5 DEF Handler, Approval
    <3>2. HolderConsented(h[t])'
      BY <1>0, <1>3, <1>4, <3>1 DEF HolderConsented, Live
    <3> QED
      BY <1>0, <1>3, <3>1, <3>2, OneHolder
  <2>6. (\A u \in Task : HolderConsented(h[u]))'
    <3>1. PICK approve \in BOOLEAN, biometric \in BOOLEAN : GetApproval(t)!(approve, biometric)
      BY <1>15 DEF GetApproval
    <3>2. CASE approve = TRUE
      BY <1>7, <2>2, <2>4, <3>1, <3>2 DEF Refused
    <3>3. CASE approve = FALSE
      BY <1>7, <2>2, <2>5, <3>1, <3>3 DEF Refused
    <3> QED
      BY <3>2, <3>3
  <2> QED
    BY <1>3, <2>1, <2>6, TablesKept
<1>16. CASE UpdateApproval(t)
  <2>1. /\ h[t].pc = "updateApproval" /\ h' = [h EXCEPT ![t].pc = "update"]
        /\ UNCHANGED <<status, request, sent, consent>>
        /\ approval' = [approval EXCEPT ![h[t].id] = h[t].held]
    BY <1>16 DEF UpdateApproval, At
  <2>2. h[t].id \in CmdId /\ Stored(h[t].id)
        /\ (h[t].held.decision = "approved" => Consented(h[t].id))
    BY <1>0, <2>1 DEF HandlerOK, HolderConsented
  <2>3. (\A u \in Task : HolderConsented(h[u]))'
    BY <1>8b, <1>9, <2>1
  <2>4. \A c \in CmdId : approval'[c].decision = "approved" => Stored(c) /\ Consented(c)
    BY <2>1, <2>2 DEF ConsentHeld, TypeOK, TablesOK
  <2> QED
    BY <1>3, <1>10, <2>1, <2>3, <2>4
    DEF ConsentHeld, ConsentBeforeDispatch, Stored, TypeOK, TablesOK
<1>17. CASE UpdateCommand(t)
  <2>1. /\ h[t].pc = "update" /\ UNCHANGED <<request, approval, sent, consent>>
        /\ status' = [status EXCEPT ![h[t].id] = h[t].seen]
        /\ h' = [h EXCEPT ![t].pc = IF h[t].seen = "dispatched" THEN "send" ELSE "audit"]
    BY <1>17 DEF UpdateCommand, At
  <2>2. h[t].id \in CmdId /\ Stored(h[t].id) /\ h[t].seen \in Status
        /\ (h[t].seen \in Live => Consented(h[t].id))
    BY <1>0, <2>1 DEF HandlerOK, HolderConsented
  <2>3. \A c \in CmdId : Stored(c) => Stored(c)'
    BY <2>1, <2>2 DEF Stored, Status, Terminal, TypeOK, TablesOK
  <2>4. (\A u \in Task : HolderConsented(h[u]))'
    <3>1. h[t].seen = "dispatched" => h[t].seen \in Live
      BY DEF Live
    <3> QED
      BY <1>8b, <1>9, <2>1, <3>1
  <2>5. \A c \in CmdId : status'[c] \in Live => Stored(c) /\ Consented(c)
    BY <1>10, <2>1, <2>2 DEF TypeOK, TablesOK
  <2> QED
    BY <1>3, <2>1, <2>3, <2>4, <2>5
    DEF ConsentHeld, ConsentBeforeDispatch, TypeOK, TablesOK
<1>18. CASE TryDispatch(t)
  <2>1. h[t].pc = "dispatch" /\ UNCHANGED <<status, approval, sent>>
    BY <1>18 DEF TryDispatch, At
  <2>3. ASSUME NEW pc \in {"send", "readApproval", "update"},
               NEW seen \in {h[t].seen, "dispatched"}, pc = "send" => seen = "dispatched",
               h[t].seen \in {"queued", "dispatched"},
               h' = [h EXCEPT ![t].pc = pc, ![t].seen = seen]
        PROVE  (\A u \in Task : HolderConsented(h[u]))'
    BY <1>8, <1>9, <2>1, <2>3 DEF Live
  <2>4. (\A u \in Task : HolderConsented(h[u]))'
    BY <1>6, <1>8a, <1>18, <2>1, <2>3 DEF TryDispatch, Dispatchable
  <2> QED
    BY <1>3, <2>1, <2>4, TablesKept
<1>19. CASE ReadApproval(t)
  <2>1. h[t].pc = "readApproval" /\ UNCHANGED <<status, approval, sent>>
        /\ h[t].id \in CmdId
    BY <1>0, <1>19 DEF ReadApproval, At, HandlerOK
  <2>2. ASSUME NEW pc, approval[h[t].id].decision = "approved",
               h' = [h EXCEPT ![t].pc = pc,
                 ![t].held = [approval[h[t].id] EXCEPT !.consumed = TRUE],
                 ![t].seen = "dispatched"]
        PROVE  (\A u \in Task : HolderConsented(h[u]))'
    <3>1. PICK c \in CmdId : c = h[t].id
      BY <2>1
    <3>2. Consented(c)'
      BY <1>3, <2>2, <3>1 DEF ConsentHeld
    <3> QED
      BY <1>5, <2>1, <2>2, <3>1, <3>2
  <2>3. (\A u \in Task : HolderConsented(h[u]))'
    BY <1>6, <1>19, <2>2 DEF ReadApproval, Consume
  <2> QED
    BY <1>3, <2>1, <2>3, TablesKept
<1>20. CASE Send(t)
  <2>1. /\ h[t].pc = "send" /\ UNCHANGED <<status, request, approval, consent>>
        /\ sent' \subseteq sent \union {h[t].id}
    BY <1>20 DEF Send, At
  <2>2. h[t].id \in CmdId /\ Stored(h[t].id) /\ Consented(h[t].id)
    BY <1>0, <2>1 DEF HandlerOK, HolderConsented
  <2>3. ASSUME h' = [h EXCEPT ![t].pc = "audit"] PROVE (\A u \in Task : HolderConsented(h[u]))'
    BY <1>8b, <1>9, <2>1, <2>2, <2>3
  <2>4. (\A u \in Task : HolderConsented(h[u]))'
    BY <1>6, <1>20, <2>3 DEF Send
  <2>5. ConsentBeforeDispatch'
    BY <1>3, <2>1, <2>2 DEF ConsentHeld, ConsentBeforeDispatch, TypeOK, TablesOK
  <2> QED
    BY <1>3, <1>10, <2>1, <2>4, <2>5 DEF ConsentHeld, Stored, TypeOK, TablesOK
<1>21. CASE ListPending(t)
  <2>1. UNCHANGED <<status, approval, sent>>
    BY <1>21 DEF ListPending
  <2>2. ASSUME NEW listed \in SUBSET CmdId, NEW c \in listed,
               \A b \in listed : Stored(b),
               h' = [h EXCEPT ![t] = [Idle EXCEPT !.pc = "dispatch", !.id = c,
                      !.seen = status[c],
                      !.todo = {<<b, status[b]>> : b \in listed \ {c}}]]
        PROVE  (\A u \in Task : HolderConsented(h[u]))'
    <3>1. /\ h' = [h EXCEPT ![t] = h'[t]]
          /\ h'[t] = [pc |-> "dispatch", id |-> c, arg |-> None, seen |-> status[c],
                      held |-> NoApproval,
                      todo |-> {<<b, status[b]>> : b \in listed \ {c}}]
      BY <1>0, <2>2 DEF Idle
    <3>2. \A b \in listed : status[b] \in Live => Consented(b)'
      BY <1>3, <1>10, <2>2
    <3>3. HolderConsented(h[t])'
      BY <3>1, <3>2 DEF HolderConsented
    <3> QED
      BY <1>0, <1>3, <3>1, <3>3, OneHolder
  <2>3. (\A u \in Task : HolderConsented(h[u]))'
    <3>1. PICK later \in SUBSET CmdId : ListPending(t)!(later)
      BY <1>21 DEF ListPending, ExpiresLater
    <3> DEFINE listed == {c \in later : /\ Stored(c) /\ DeviceOf(c) = h[t].arg
                                        /\ status[c] \in {"queued", "dispatched"}}
    <3>2. listed \in SUBSET CmdId /\ \A b \in listed : Stored(b)
      OBVIOUS
    <3> QED
      BY <1>7, <2>2, <3>1, <3>2 DEF Dispatchable
  <2> QED
    BY <1>3, <2>1, <2>3, TablesKept
<1>22. CASE SaveResult(t)
  <2>1. h[t].pc = "save" /\ h' = [h EXCEPT ![t].pc = "update"]
        /\ UNCHANGED <<status, approval, sent>>
    BY <1>22 DEF SaveResult, At
  <2>2. (\A u \in Task : HolderConsented(h[u]))'
    BY <1>8b, <1>9, <2>1
  <2> QED
    BY <1>3, <2>1, <2>2, TablesKept
<1> QED
  BY <1>11, <1>12, <1>13, <1>14, <1>15, <1>16, <1>17, <1>18, <1>19, <1>20, <1>21,
     <1>22 DEF Continue

LEMMA ConsentAround ==
  ASSUME TypeOK, ConsentHeld,
         \/ \E d \in Device : Disconnect(d)
         \/ Tick \/ Restart \/ \E t \in Task : QueryError(t)
  PROVE  ConsentHeld'
<1> USE DEF store, network, history
<1>1. UNCHANGED <<status, request, approval, sent, consent>>
  BY DEF Disconnect, Tick, Restart, QueryError
<1>2. h \in [Task -> Handler] /\ \A u \in Task : h'[u] \in {h[u], Idle}
  BY DEF Disconnect, Tick, Restart, QueryError, TypeOK, HandlersOK
<1>3. \A u \in Task : HolderConsented(h[u]) /\ HolderConsented(Idle)
  BY DEF ConsentHeld, HolderConsented, Idle
<1>4. ASSUME NEW u \in Task PROVE HolderConsented(h[u])'
  <2>1. HolderConsented(h'[u])
    BY <1>2, <1>3
  <2> QED
    BY <1>1, <2>1 DEF HolderConsented, Consented, ToolOf
<1> QED
  BY <1>1, <1>4 DEF ConsentHeld, ConsentBeforeDispatch, Consented, ToolOf, Stored

(* Every stored status beyond approval, every approved approval, and every *)
(* copy of either that a handler may yet act on or write back belongs to a *)
(* command whose approval was accepted.                                    *)
THEOREM ConsentIsHeld == Spec => []ConsentHeld
<1>1. Init => ConsentHeld
  BY ConsentInit
<1>2. TypeOK /\ ConsentHeld /\ [Next]_vars => ConsentHeld'
  <2>1. ASSUME TypeOK, ConsentHeld, Next PROVE ConsentHeld'
    BY <2>1, ConsentStart, ConsentContinue, ConsentAround DEF Next, Task
  <2>2. ASSUME ConsentHeld, UNCHANGED vars PROVE ConsentHeld'
    BY <2>2 DEF ConsentHeld, ConsentBeforeDispatch, HolderConsented, Consented,
                ToolOf, Stored, vars, store, network, history
  <2> QED
    BY <2>1, <2>2
<1> QED
  BY <1>1, <1>2, TypeCorrect, PTL DEF Spec

(* No device is sent a command that needs an approval, or a biometric      *)
(* check, before the user gave it: for any number of concurrent decisions, *)
(* polls, hellos and results, either store, restarts and failing queries.  *)
THEOREM ConsentPrecedesDispatch == Spec => []ConsentBeforeDispatch
<1>1. ConsentHeld => ConsentBeforeDispatch
  BY DEF ConsentHeld
<1> QED
  BY <1>1, ConsentIsHeld, PTL

-----------------------------------------------------------------------------
(* Idempotency keys.                                                       *)

(* Only the insert of a creation adds a command or gives one a key.        *)
LEMMA OnlyInsertAdds ==
  ASSUME TypeOK, Next, \A t \in Task : ~InsertCommand(t)
  PROVE  request' = request /\ \A c \in CmdId : Stored(c)' <=> Stored(c)
<1> USE DEF store, network, history
<1>1. ASSUME NEW t \in Task, UpdateCommand(t)
      PROVE  request' = request /\ \A c \in CmdId : Stored(c)' <=> Stored(c)
  <2>1. h[t].id \in CmdId /\ h[t].seen \in Status /\ Stored(h[t].id)
    BY <1>1 DEF UpdateCommand, At, TypeOK, HandlersOK, HandlerOK
  <2> QED
    BY <1>1, <2>1 DEF UpdateCommand, TypeOK, TablesOK, Stored, Status, Terminal
<1>2. ASSUME \A t \in Task : ~UpdateCommand(t) PROVE UNCHANGED <<status, request>>
  BY <1>2 DEF Next, Task, Create, CreateNew, CreateReplay, CreateConflict, Arrives,
    Read, Hello, AcceptResult, Continue, InsertApproval, RecordAudit, CheckExpiry,
    GetApproval, UpdateApproval, TryDispatch, ReadApproval, Send, ListPending,
    SaveResult, Disconnect, Tick, Restart, QueryError
<1> QED
  BY <1>1, <1>2 DEF Stored

(* With the memory adapter a step leaves the handlers alone or is a step   *)
(* of one of them, all others idle, that reaches an insert by CreateNew only. *)
LEMMA Movers ==
  ASSUME TypeOK, Next, Adapter = "memory"
  PROVE  \/ h' = h
         \/ \E t \in Task : /\ Turn(t) /\ h' = [h EXCEPT ![t] = h'[t]]
                            /\ h'[t].pc = "insert" => CreateNew(t)
<1>1. h \in [Task -> Handler] /\ \A t \in Task : h[t] \in Handler
  BY DEF TypeOK, HandlersOK
<1>2. ASSUME NEW t \in Task, Create(t) \/ Read(t) \/ Hello(t) \/ AcceptResult(t)
      PROVE  \/ h' = h
             \/ /\ Turn(t) /\ h' = [h EXCEPT ![t] = h'[t]]
                /\ h'[t].pc = "insert" => CreateNew(t)
  <2>1. CASE CreateNew(t)
    <3>1. Turn(t) /\ \E r \in Requests : h' = [h EXCEPT ![t].pc = "insert", ![t].arg = r]
      BY <2>1 DEF CreateNew, Arrives, At
    <3>2. h' = [h EXCEPT ![t] = h'[t]]
      BY <1>1, <3>1
    <3> QED
      BY <2>1, <3>1, <3>2
  <2>2. CASE CreateReplay(t)
    <3>1. PICK c \in CmdId :
            Turn(t) /\ h' = [h EXCEPT ![t].pc = "check", ![t].id = c,
                                      ![t].seen = status[c]]
      BY <2>2 DEF CreateReplay, Arrives, At, Holders
    <3>2. h' = [h EXCEPT ![t] = h'[t]] /\ h'[t].pc = "check"
      BY <1>1, <3>1 DEF Handler
    <3> QED
      BY <3>1, <3>2
  <2>3. CASE CreateConflict(t)
    BY <2>3 DEF CreateConflict
  <2>4. CASE Read(t)
    <3>1. PICK c \in CmdId :
            Turn(t) /\ h' = [h EXCEPT ![t].pc = "check", ![t].id = c,
                                      ![t].seen = status[c]]
      BY <2>4 DEF Read, At
    <3>2. h' = [h EXCEPT ![t] = h'[t]] /\ h'[t].pc = "check"
      BY <1>1, <3>1 DEF Handler
    <3> QED
      BY <3>1, <3>2
  <2>5. CASE Hello(t)
    <3>1. Turn(t) /\ \E d \in Device : h' = [h EXCEPT ![t].pc = "list", ![t].arg = d]
      BY <2>5 DEF Hello, At
    <3>2. h' = [h EXCEPT ![t] = h'[t]] /\ h'[t].pc = "list"
      BY <1>1, <3>1 DEF Handler
    <3> QED
      BY <3>1, <3>2
  <2>6. CASE AcceptResult(t)
    <3>1. PICK c \in sent, result \in ResultStatus :
            Turn(t) /\ h' = [h EXCEPT ![t].pc = "save", ![t].id = c,
                                      ![t].seen = result]
      BY <2>6 DEF AcceptResult, At
    <3>2. h' = [h EXCEPT ![t] = h'[t]] /\ h'[t].pc = "save"
      BY <1>1, <3>1 DEF Handler
    <3> QED
      BY <3>1, <3>2
  <2> QED
    BY <1>2, <2>1, <2>2, <2>3, <2>4, <2>5, <2>6 DEF Create
<1>3. ASSUME NEW t \in Task, Return(t)
      PROVE  h' = [h EXCEPT ![t] = h'[t]] /\ h'[t].pc /= "insert"
  <2>1. CASE h' = [h EXCEPT ![t] = Idle]
    BY <1>1, <2>1 DEF Idle
  <2>2. ASSUME NEW p \in h[t].todo, NEW todo,
               h' = [h EXCEPT ![t] = [Idle EXCEPT !.pc = "dispatch", !.id = p[1],
                                        !.seen = p[2], !.todo = todo]]
        PROVE  h' = [h EXCEPT ![t] = h'[t]] /\ h'[t].pc /= "insert"
    BY <1>1, <2>2 DEF Idle
  <2> QED
    BY <1>3, <2>1, <2>2 DEF Return
<1>4. ASSUME NEW t \in Task, Continue(t)
      PROVE  Turn(t) /\ h' = [h EXCEPT ![t] = h'[t]] /\ h'[t].pc /= "insert"
  <2>1. CASE InsertCommand(t)
    BY <1>1, <2>1 DEF FirstStatus, KeyTaken, InsertCommand, At, Idle
  <2>2. CASE InsertApproval(t) \/ SaveResult(t) \/ UpdateApproval(t) \/ UpdateCommand(t)
    BY <1>1, <2>2 DEF InsertApproval, SaveResult, UpdateApproval, UpdateCommand,
       At, Handler
  <2>3. CASE RecordAudit(t)
    BY <1>1, <1>3, <2>3 DEF RecordAudit, At, Handler
  <2>4. CASE CheckExpiry(t)
    BY <1>1, <1>3, <2>4 DEF CheckExpiry, Expire, At, Handler
  <2>5. CASE GetApproval(t)
    BY <1>1, <2>5 DEF GetApproval, At, Handler, Idle
  <2>6. CASE TryDispatch(t)
    BY <1>1, <1>3, <2>6 DEF TryDispatch, Expire, At, Handler
  <2>7. CASE ReadApproval(t)
    BY <1>1, <1>3, <2>7 DEF ReadApproval, At, Handler
  <2>8. CASE Send(t)
    BY <1>1, <1>3, <2>8 DEF Send, At, Handler
  <2>9. CASE ListPending(t)
    <3>1. CASE h' = [h EXCEPT ![t] = Idle]
      BY <1>1, <2>9, <3>1 DEF ListPending, At, Idle
    <3>2. CASE h' /= [h EXCEPT ![t] = Idle]
      <4>1. PICK later \in ExpiresLater : ListPending(t)!(later)
        BY <2>9 DEF ListPending
      <4> DEFINE listed == {c \in later : /\ Stored(c) /\ DeviceOf(c) = h[t].arg
                                          /\ status[c] \in {"queued", "dispatched"}}
      <4>2. PICK c \in listed :
              h' = [h EXCEPT ![t] = [Idle EXCEPT !.pc = "dispatch", !.id = c,
                      !.seen = status[c],
                      !.todo = {<<b, status[b]>> : b \in listed \ {c}}]]
        BY <3>2, <4>1 DEF Dispatchable
      <4>3. h' = [h EXCEPT ![t] = h'[t]] /\ h'[t].pc /= "insert"
        BY <1>1, <4>2 DEF Idle
      <4> QED
        BY <2>9, <4>3 DEF ListPending, At
    <3> QED
      BY <3>1, <3>2
  <2> QED
    BY <1>4, <2>1, <2>2, <2>3, <2>4, <2>5, <2>6, <2>7, <2>8, <2>9 DEF Continue
<1>5. ~Restart /\ \A t \in Task : ~QueryError(t)
  BY BoundsAssumption DEF Restart, QueryError, Fault
<1>6. (\E d \in Device : Disconnect(d)) \/ Tick => h' = h
  BY DEF Disconnect, Tick
<1> QED
  BY <1>2, <1>4, <1>5, <1>6 DEF Next, Task

(* So only a lookup that found its key free comes to stand before an       *)
(* insert, and it is alone until the insert is done.                       *)
LEMMA Reserves ==
  ASSUME TypeOK, KeyReserved, Next
  PROVE  KeyReserved'
<1> SUFFICES ASSUME Adapter = "memory", NEW t \in Task, h'[t].pc = "insert"
             PROVE  /\ Holders(h[t].arg.key)' = {}
                    /\ \A u \in Task \ {t} : h'[u] = Idle
  BY DEF KeyReserved
<1>1. h \in [Task -> Handler] /\ \A u \in Task : h[u] \in Handler
  BY DEF TypeOK, HandlersOK
<1>2. \A u \in Task : ~InsertCommand(u)
  <2> SUFFICES ASSUME NEW u \in Task, InsertCommand(u) PROVE FALSE
    OBVIOUS
  <2>1. h' = [h EXCEPT ![u] = h'[u]] /\ h'[u].pc /= "insert"
    BY <1>1 DEF FirstStatus, KeyTaken, InsertCommand, Idle
  <2>2. t /= u /\ h'[t] = h[t]
    BY <1>1, <2>1
  <2>3. h[t] = Idle
    BY <2>2 DEF InsertCommand, At, Turn
  <2> QED
    BY <2>2, <2>3 DEF Idle
<1>3. \A key : Holders(key)' = Holders(key)
  BY <1>2, OnlyInsertAdds DEF Holders
<1>4. CASE h' = h
  BY <1>3, <1>4 DEF KeyReserved, Holders
<1>5. ASSUME NEW u \in Task, Turn(u), h' = [h EXCEPT ![u] = h'[u]],
             h'[u].pc = "insert" => CreateNew(u)
      PROVE  /\ Holders(h[t].arg.key)' = {}
             /\ \A v \in Task \ {t} : h'[v] = Idle
  <2>1. t = u
    BY <1>1, <1>5 DEF Turn, Idle
  <2>2. PICK r \in Requests : /\ Holders(r.key) = {}
                              /\ h' = [h EXCEPT ![t].pc = "insert", ![t].arg = r]
    BY <1>5, <2>1 DEF CreateNew
  <2>3. h'[t].arg = r
    BY <1>1, <2>2 DEF Handler
  <2> QED
    BY <1>1, <1>3, <1>5, <2>1, <2>2, <2>3 DEF Turn, Holders
<1> QED
  BY <1>4, <1>5, Movers

(* With the memory adapter a key found free stays free until the insert.  *)
LEMMA KeysReserved == Spec => []KeyReserved
<1>1. Init => KeyReserved
  BY DEF Init, KeyReserved, Idle
<1>2. TypeOK /\ KeyReserved /\ [Next]_vars => KeyReserved'
  <2>1. ASSUME KeyReserved, UNCHANGED vars PROVE KeyReserved'
    BY <2>1 DEF KeyReserved, Holders, Stored, vars, store
  <2> QED
    BY <2>1, Reserves
<1> QED
  BY <1>1, <1>2, TypeCorrect, PTL DEF Spec

(* A key names one command: in Postgres because the unique index refuses   *)
(* the second insert, in the memory store because lookup and insert are    *)
(* one turn of the event loop.                                             *)
THEOREM KeyNamesOneCommand == Spec => []OneCommandPerKey
<1>1. Init => OneCommandPerKey
  BY DEF Init, OneCommandPerKey, Stored
<1>2. TypeOK /\ OneCommandPerKey /\ KeyReserved /\ [Next]_vars
      => OneCommandPerKey'
  <2>1. ASSUME TypeOK, OneCommandPerKey, KeyReserved, Next PROVE OneCommandPerKey'
    <3>1. CASE \A t \in Task : ~InsertCommand(t)
      BY <2>1, <3>1, OnlyInsertAdds DEF OneCommandPerKey
    <3>2. ASSUME NEW t \in Task, InsertCommand(t) PROVE OneCommandPerKey'
      <4> DEFINE r == h[t].arg
      <4>1. r \in Requests
        BY <2>1, <3>2 DEF InsertCommand, At, TypeOK, HandlersOK, HandlerOK
      <4>2. CASE UNCHANGED store
        BY <2>1, <4>2 DEF OneCommandPerKey, Stored, store
      <4>3. CASE Adapter = "memory" \/ Holders(r.key) = {}
        <5>1. Holders(r.key) = {}
          BY <2>1, <3>2, <4>3 DEF KeyReserved, InsertCommand, At
        <5>2. CASE ~UNCHANGED store
          <6>1. PICK c \in CmdId, first \in Status :
                  /\ ~Stored(c)
                  /\ status' = [status EXCEPT ![c] = first]
                  /\ request' = [request EXCEPT ![c] = AsStored(r)]
            BY <3>2, <5>2 DEF FirstStatus, KeyTaken, InsertCommand, Status
          <6>2. \A b \in CmdId \ {c} : status'[b] = status[b] /\ request'[b] = request[b]
            BY <2>1, <6>1 DEF TypeOK, TablesOK
          <6>3. request'[c].key = r.key
            BY <2>1, <4>1, <6>1, AsStoredTyped DEF TypeOK, TablesOK
          <6>4. \A b \in CmdId : Stored(b) => request[b].key /= r.key
            BY <5>1 DEF Holders
          <6> QED
            BY <2>1, <6>1, <6>2, <6>3, <6>4 DEF OneCommandPerKey, Stored
        <5> QED
          BY <4>2, <5>2
      <4> QED
        BY <3>2, <4>2, <4>3, AdapterAssumption DEF FirstStatus, KeyTaken, InsertCommand
    <3> QED
      BY <3>1, <3>2
  <2>2. ASSUME OneCommandPerKey, UNCHANGED vars PROVE OneCommandPerKey'
    BY <2>2 DEF OneCommandPerKey, Stored, vars, store
  <2> QED
    BY <2>1, <2>2
<1> QED
  BY <1>1, <1>2, TypeCorrect, KeysReserved, PTL DEF Spec

-----------------------------------------------------------------------------
(* A step of a handler leaves the others alone.                            *)
LEMMA OthersStay ==
  ASSUME TypeOK, NEW t \in Task, NEW u \in Task, u /= t,
         \/ Create(t) \/ Read(t) \/ Hello(t) \/ AcceptResult(t) \/ Continue(t)
  PROVE  h'[u] = h[u]
<1>1. h \in [Task -> Handler]
  BY DEF TypeOK, HandlersOK
<1>2. CASE Create(t)
  BY <1>1, <1>2 DEF Create, CreateNew, CreateReplay, CreateConflict
<1>3. CASE Read(t) \/ Hello(t) \/ AcceptResult(t)
  BY <1>1, <1>3 DEF Read, Hello, AcceptResult
<1>4. CASE Continue(t)
  <2>1. CASE InsertCommand(t)
    BY <1>1, <2>1 DEF InsertCommand
  <2>2. CASE InsertApproval(t) \/ UpdateApproval(t) \/ UpdateCommand(t) \/ SaveResult(t)
    BY <1>1, <2>2 DEF InsertApproval, UpdateApproval, UpdateCommand, SaveResult
  <2>3. ASSUME Return(t) PROVE h'[u] = h[u]
    BY <1>1, <2>3 DEF Return
  <2>4. CASE RecordAudit(t)
    BY <1>1, <2>3, <2>4 DEF RecordAudit
  <2>5. CASE CheckExpiry(t)
    BY <1>1, <2>3, <2>5 DEF CheckExpiry, Expire
  <2>6. CASE GetApproval(t)
    BY <1>1, <2>6 DEF GetApproval
  <2>7. CASE TryDispatch(t)
    BY <1>1, <2>3, <2>7 DEF TryDispatch, Expire
  <2>8. CASE ReadApproval(t)
    BY <1>1, <2>3, <2>8 DEF ReadApproval
  <2>9. CASE Send(t)
    BY <1>1, <2>3, <2>9 DEF Send
  <2>10. CASE ListPending(t)
    BY <1>1, <2>10 DEF ListPending
  <2> QED
    BY <1>4, <2>1, <2>2, <2>4, <2>5, <2>6, <2>7, <2>8, <2>9, <2>10 DEF Continue
<1> QED
  BY <1>2, <1>3, <1>4

-----------------------------------------------------------------------------
(* One command, either adapter, every fault: as long as no handler writes  *)
(* it while another holds a copy of it, what a handler has read of it      *)
(* still holds when the handler writes, and each of its writes is a move   *)
(* of CommandLifecycle.                                                    *)

AcceptedOnce == [decision |-> "approved", consumed |-> TRUE]
Stands(c) == ApprovalRequired(ToolOf(c)) => approval[c] = AcceptedOnce

(* What updateApproval is about to write: the user's decision on a pending *)
(* approval, or the consumption of an approved one.                        *)
RulingDue(x) ==
  \/ /\ status[x.id] = "awaiting_approval" /\ approval[x.id].decision = "pending"
     /\ \/ x.held.decision = "approved" /\ x.seen = "queued"
        \/ x.held.decision = "denied" /\ x.seen = "cancelled"
  \/ /\ status[x.id] = "queued" /\ approval[x.id].decision = "approved"
     /\ x.held = AcceptedOnce /\ x.seen = "dispatched"

(* What updateCommand is about to write.                                   *)
MoveDue(x) ==
  \/ /\ x.seen = "queued" /\ status[x.id] = "awaiting_approval"
     /\ approval[x.id].decision = "approved"
  \/ /\ x.seen = "cancelled" /\ status[x.id] = "awaiting_approval"
     /\ approval[x.id].decision = "denied"
  \/ x.seen = "dispatched" /\ status[x.id] = "queued" /\ Stands(x.id)
  \/ /\ x.seen \in ResultStatus /\ status[x.id] \in Reportable
     /\ x.id \in sent /\ results[x.id] = x.seen
  \/ x.seen = "expired" /\ status[x.id] \notin Terminal

(* A handler's copies agree with the tables.                               *)
Fresh(x) ==
  /\ x.pc \in {"check", "created", "dispatch", "insertApproval", "audit",
               "getApproval", "readApproval", "send"} => status[x.id] = x.seen
  /\ x.pc = "insertApproval" => approval[x.id].decision = "absent"
  /\ x.pc = "getApproval" => x.seen = "awaiting_approval"
  /\ x.pc = "readApproval" => x.seen = "queued"
  /\ x.pc = "send" => x.seen = "dispatched"
  /\ x.pc = "save" => x.id \in sent /\ status[x.id] \in Reportable
  /\ x.pc = "updateApproval" => RulingDue(x)
  /\ x.pc = "update" => MoveDue(x)

FreshOn(x, c) ==
  /\ x.pc \in {"idle", "insert", "list"} => x.id /= c /\ x.todo = {}
  /\ x.id = c => Fresh(x)
  /\ \A p \in x.todo : p[1] = c => x.id /= c /\ status[c] = p[2]

Reporting(c) == \E t \in Task : h[t].pc = "update" /\ h[t].id = c

RowAgrees(c) ==
  /\ ~Stored(c) => approval[c].decision = "absent"
  /\ c \in sent \/ status[c] = "dispatched" => Stands(c)
  /\ faults = 0 /\ status[c] \in ResultStatus =>
       results[c] = status[c] \/ Reporting(c)

KeptFor(c) == RowAgrees(c) /\ \A t \in Task : FreshOn(h[t], c)

SameRow(c) ==
  /\ status'[c] = status[c] /\ request'[c] = request[c]
  /\ approval'[c] = approval[c] /\ results'[c] = results[c]

LEMMA IdleIsFresh ==
  ASSUME NEW c \in CmdId, NEW t, h'[t] = Idle PROVE FreshOn(h[t], c)'
<1>1. h'[t].pc = "idle" /\ h'[t].id = None /\ h'[t].todo = {}
  BY DEF Idle
<1> QED
  BY <1>1, NoneAssumption DEF FreshOn

LEMMA KeptInit == ASSUME NEW c \in CmdId, Init PROVE KeptFor(c)
<1>1. \A t \in Task : h[t].pc = "idle" /\ h[t].id = None /\ h[t].todo = {}
  BY DEF Init, Idle
<1>2. \A t \in Task : FreshOn(h[t], c)
  BY <1>1, NoneAssumption DEF FreshOn
<1>3. RowAgrees(c)
  BY DEF Init, RowAgrees, NoApproval, Stored, ResultStatus
<1> QED
  BY <1>2, <1>3 DEF KeptFor

(* A step writes a row at most where a handler stands at a write of it, or *)
(* inserts it; a command is sent where a handler stands at its send.       *)
LEMMA WritesRow ==
  ASSUME TypeOK, NEW c \in CmdId, NEW t \in Task, Stored(c) \/ ~InsertCommand(t),
         Create(t) \/ Read(t) \/ Hello(t) \/ AcceptResult(t) \/ Continue(t)
  PROVE  /\ ~(AtWrite(h[t]) /\ h[t].id = c) => SameRow(c)
         /\ sent \subseteq sent'
         /\ c \in sent' \ sent => h[t].pc = "send" /\ h[t].id = c
<1> USE DEF store, network, history, SameRow
<1>0. TablesOK
  BY DEF TypeOK
<1>1. CASE UNCHANGED <<store, sent>>
  BY <1>1
<1>2. CASE InsertCommand(t)
  BY <1>0, <1>2 DEF InsertCommand, TablesOK
<1>3. CASE InsertApproval(t) \/ UpdateApproval(t)
  BY <1>0, <1>3 DEF InsertApproval, UpdateApproval, At, AtWrite, TablesOK
<1>4. CASE UpdateCommand(t) \/ SaveResult(t)
  BY <1>0, <1>4 DEF UpdateCommand, SaveResult, At, AtWrite, TablesOK
<1>5. CASE Send(t)
  BY <1>5 DEF Send, At
<1> QED
  BY <1>1, <1>2, <1>3, <1>4, <1>5
  DEF Create, CreateNew, CreateReplay, CreateConflict, Arrives, Read, Hello, AcceptResult,
      Continue, RecordAudit, CheckExpiry, GetApproval, TryDispatch, ReadApproval, ListPending

(* A copy stays fresh while its row stays.                                 *)
LEMMA StaysFresh ==
  ASSUME NEW c \in CmdId, NEW u, h'[u] = h[u], FreshOn(h[u], c), sent \subseteq sent',
         SameRow(c) \/ c \notin Handles(h[u])
  PROVE  FreshOn(h[u], c)'
<1>1. CASE SameRow(c)
  BY <1>1 DEF SameRow, FreshOn, Fresh, RulingDue, MoveDue, Stands, ToolOf
<1>2. CASE c \notin Handles(h[u])
  BY <1>2 DEF Handles, FreshOn
<1> QED
  BY <1>1, <1>2

(* A row agrees still when neither it nor who is about to report on it has *)
(* changed.                                                                *)
LEMMA RowStays ==
  ASSUME NEW c \in CmdId, RowAgrees(c), SameRow(c), c \in sent' => c \in sent \/ Stands(c),
         faults' = 0 => faults = 0, faults' = 0 /\ Reporting(c) => Reporting(c)'
  PROVE  RowAgrees(c)'
BY DEF RowAgrees, SameRow, Stands, Stored, ToolOf

(* The loop's next snapshot is as fresh as the one before it.              *)
LEMMA ReturnFresh ==
  ASSUME TypeOK, NEW c \in CmdId, NEW t \in Task, Return(t),
         \A p \in h[t].todo : p[1] = c => status'[c] = p[2]
  PROVE  FreshOn(h[t], c)'
<1>1. h \in [Task -> Handler] /\ h[t].todo \in SUBSET (CmdId \X Status)
  BY DEF TypeOK, HandlersOK, Handler
<1>2. CASE h' = [h EXCEPT ![t] = Idle]
  BY <1>1, <1>2, IdleIsFresh
<1>3. ASSUME NEW p \in h[t].todo,
             h' = [h EXCEPT ![t] = [Idle EXCEPT !.pc = "dispatch", !.id = p[1],
                                      !.seen = p[2], !.todo = h[t].todo \ {p}]]
      PROVE  FreshOn(h[t], c)'
  <2>1. h'[t] = [pc |-> "dispatch", id |-> p[1], arg |-> None, seen |-> p[2],
                 held |-> NoApproval, todo |-> h[t].todo \ {p}]
    BY <1>1, <1>3 DEF Idle
  <2>2. /\ h'[t].pc = "dispatch" /\ h'[t].id = p[1]
        /\ h'[t].seen = p[2] /\ h'[t].todo = h[t].todo \ {p}
    BY <2>1
  <2>3. \A q \in h[t].todo \ {p} : q[1] = c => p[1] /= c /\ status'[c] = q[2]
    <3>1. \A q \in h[t].todo : q = <<q[1], q[2]>>
      BY <1>1
    <3> QED
      BY <3>1
  <2> QED
    BY <2>2, <2>3 DEF FreshOn, Fresh
<1> QED
  BY <1>2, <1>3 DEF Return

(* A handler whose copies stay as they are, of a row that does too.        *)
LEMMA ElsewhereFresh ==
  ASSUME NEW c \in CmdId, NEW t, FreshOn(h[t], c), SameRow(c),
         h[t].id /= c, h'[t].id = h[t].id, h'[t].todo = h[t].todo,
         h'[t].pc \notin {"idle", "insert", "list"}
  PROVE  FreshOn(h[t], c)'
BY DEF FreshOn, SameRow

LEMMA KeptStart ==
  ASSUME TypeOK, NEW c \in CmdId, KeptFor(c), NEW t \in Task,
         Create(t) \/ Read(t) \/ Hello(t) \/ AcceptResult(t)
  PROVE  KeptFor(c)'
<1> USE DEF store, network, history
<1>0. h \in [Task -> Handler] /\ h[t] \in Handler /\ h[t].pc = "idle"
  BY DEF TypeOK, HandlersOK, Create, CreateNew, CreateReplay, CreateConflict, Arrives,
         Read, Hello, AcceptResult, At
<1>1. /\ UNCHANGED <<status, request, approval, results, sent, faults>>
      /\ h[t].id /= c /\ h[t].todo = {}
  BY <1>0 DEF Create, CreateNew, CreateReplay, CreateConflict, Arrives, Read, Hello,
     AcceptResult, KeptFor, FreshOn
<1>2. SameRow(c) /\ sent \subseteq sent'
  BY <1>1 DEF SameRow
<1>3. \A u \in Task \ {t} : h'[u] = h[u]
  BY OthersStay
<1>4. Reporting(c) => Reporting(c)'
  BY <1>0, <1>3 DEF Reporting
<1>5. RowAgrees(c)'
  BY <1>1, <1>2, <1>4, RowStays DEF KeptFor
<1>6. FreshOn(h[t], c)'
  <2>1. CASE h' = h
    BY <1>2, <2>1, StaysFresh DEF KeptFor
  <2>2. ASSUME NEW b \in CmdId,
               h' = [h EXCEPT ![t].pc = "check", ![t].id = b, ![t].seen = status[b]]
        PROVE  FreshOn(h[t], c)'
    <3>1. /\ h'[t].pc = "check" /\ h'[t].id = b
          /\ h'[t].seen = status[b] /\ h'[t].todo = {}
      BY <1>0, <1>1, <2>2 DEF Handler
    <3> QED
      BY <1>1, <3>1 DEF FreshOn, Fresh
  <2>3. ASSUME NEW arg, NEW pc \in {"insert", "list"},
               h' = [h EXCEPT ![t].pc = pc, ![t].arg = arg]
        PROVE  FreshOn(h[t], c)'
    <3>1. h'[t].pc = pc /\ h'[t].id = h[t].id /\ h'[t].todo = {}
      BY <1>0, <1>1, <2>3 DEF Handler
    <3> QED
      BY <1>1, <3>1 DEF FreshOn
  <2>4. CASE AcceptResult(t)
    <3>1. PICK b \in sent, result \in ResultStatus :
            /\ status[b] \in Reportable
            /\ h' = [h EXCEPT ![t].pc = "save", ![t].id = b, ![t].seen = result]
      BY <2>4 DEF AcceptResult
    <3>2. h'[t].pc = "save" /\ h'[t].id = b /\ h'[t].seen = result /\ h'[t].todo = {}
      BY <1>0, <1>1, <3>1 DEF Handler
    <3>3. b \in sent' /\ status'[b] \in Reportable
      BY <1>1, <3>1
    <3> QED
      BY <3>2, <3>3 DEF FreshOn, Fresh, Reportable
  <2>5. CASE Create(t)
    <3>1. CASE CreateNew(t)
      BY <2>3, <3>1 DEF CreateNew
    <3>2. CASE CreateReplay(t)
      BY <2>2, <3>2 DEF CreateReplay, Holders
    <3>3. CASE CreateConflict(t)
      BY <2>1, <3>3 DEF CreateConflict
    <3> QED
      BY <2>5, <3>1, <3>2, <3>3 DEF Create
  <2> QED
    BY <2>2, <2>3, <2>4, <2>5 DEF Read, Hello
<1> QED
  BY <1>2, <1>3, <1>5, <1>6, StaysFresh DEF KeptFor

(* A creation inserts a row no handler holds, and holds it from then on.   *)
LEMMA KeptInsert ==
  ASSUME TypeOK, NEW c \in CmdId, KeptFor(c), NEW t \in Task, InsertCommand(t)
  PROVE  FreshOn(h[t], c)' /\ RowAgrees(c)'
<1> USE DEF store, network, history
<1> DEFINE r == h[t].arg
<1>0. h \in [Task -> Handler] /\ TablesOK /\ RowAgrees(c) /\ h[t].pc = "insert"
  BY DEF TypeOK, HandlersOK, KeptFor, InsertCommand, At
<1>1. \A u \in Task \ {t} : h'[u] = h[u]
  BY OthersStay DEF Continue
<1>2. Reporting(c) => Reporting(c)'
  BY <1>0, <1>1 DEF Reporting
<1>3. CASE KeyTaken(r)
  <2>1. /\ h' = [h EXCEPT ![t] = Idle]
        /\ SameRow(c) /\ sent' = sent /\ faults' = faults
    BY <1>3 DEF SameRow, InsertCommand
  <2> QED
    BY <1>0, <1>2, <2>1, RowStays, IdleIsFresh
<1>4. CASE ~KeyTaken(r)
  <2>1. PICK b \in CmdId :
          /\ ~Stored(b)
          /\ status' = [status EXCEPT ![b] = FirstStatus(r.tool)]
          /\ request' = [request EXCEPT ![b] = AsStored(r)]
          /\ h' = [h EXCEPT ![t] = [Idle EXCEPT !.id = b, !.seen = FirstStatus(r.tool),
                     !.pc = IF ApprovalRequired(r.tool)
                            THEN "insertApproval" ELSE "created"]]
          /\ UNCHANGED <<approval, results, sent, faults>>
    BY <1>4 DEF InsertCommand
  <2>2. FirstStatus(r.tool) \in {"awaiting_approval", "queued"}
    BY DEF FirstStatus
  <2>3. /\ h'[t].id = b /\ h'[t].seen = FirstStatus(r.tool) /\ h'[t].todo = {}
        /\ h'[t].pc \in {"insertApproval", "created"}
    BY <1>0, <2>1 DEF Idle
  <2>4. CASE b = c
    <3>1. status'[c] = FirstStatus(r.tool)
      BY <1>0, <2>1, <2>4 DEF TablesOK
    <3>2. c \notin sent /\ approval[c].decision = "absent"
      BY <1>0, <2>1, <2>4 DEF TablesOK, RowAgrees
    <3> QED
      BY <2>1, <2>2, <2>3, <2>4, <3>1, <3>2 DEF FreshOn, Fresh, RowAgrees, Stored, ResultStatus
  <2>5. CASE b /= c
    <3>1. SameRow(c)
      BY <1>0, <2>1, <2>5 DEF TablesOK, SameRow
    <3> QED
      BY <1>0, <1>2, <2>1, <2>3, <2>5, <3>1, RowStays DEF FreshOn
  <2> QED
    BY <2>4, <2>5
<1> QED
  BY <1>3, <1>4

LEMMA KeptList ==
  ASSUME TypeOK, NEW c \in CmdId, NEW t \in Task, ListPending(t)
  PROVE  FreshOn(h[t], c)'
<1> USE DEF store
<1>1. h \in [Task -> Handler] /\ UNCHANGED status
  BY DEF TypeOK, HandlersOK, ListPending
<1>2. CASE h' = [h EXCEPT ![t] = Idle]
  BY <1>1, <1>2, IdleIsFresh
<1>3. CASE h' /= [h EXCEPT ![t] = Idle]
  <2>1. PICK later \in ExpiresLater : ListPending(t)!(later)
    BY DEF ListPending
  <2> DEFINE listed == {d \in later : /\ Stored(d) /\ DeviceOf(d) = h[t].arg
                                      /\ status[d] \in Dispatchable}
  <2>2. PICK b \in listed :
          h' = [h EXCEPT ![t] = [Idle EXCEPT !.pc = "dispatch", !.id = b,
                  !.seen = status[b],
                  !.todo = {<<d, status[d]>> : d \in listed \ {b}}]]
    BY <1>3, <2>1
  <2> HIDE DEF listed
  <2>3. h'[t] = [pc |-> "dispatch", id |-> b, arg |-> None, seen |-> status[b],
                 held |-> NoApproval, todo |-> {<<d, status[d]>> : d \in listed \ {b}}]
    BY <1>1, <2>2 DEF Idle
  <2>4. /\ h'[t].pc = "dispatch" /\ h'[t].id = b /\ h'[t].seen = status[b]
        /\ \A p \in h'[t].todo : p[1] /= b /\ status[p[1]] = p[2]
    BY <2>3
  <2> QED
    BY <1>1, <2>4 DEF FreshOn, Fresh
<1> QED
  BY <1>2, <1>3

(* A step of the handler that works on c.                                  *)
LEMMA KeptOwn ==
  ASSUME TypeOK, NEW c \in CmdId, KeptFor(c), NEW t \in Task, h[t].id = c,
         Continue(t), h[t].pc \notin {"insert", "list"}
  PROVE  FreshOn(h[t], c)' /\ RowAgrees(c)'
<1> USE DEF store, network, history
<1>0. /\ h \in [Task -> Handler] /\ h[t] \in Handler /\ HandlerOK(h[t])
      /\ RowAgrees(c) /\ TablesOK /\ Fresh(h[t])
      /\ \A p \in h[t].todo : p[1] /= c
  BY DEF TypeOK, HandlersOK, KeptFor, FreshOn
<1>1. h[t].pc /= "idle"
  BY DEF KeptFor, FreshOn
<1>2. Stored(c) /\ h[t].seen \in Status
  BY <1>0, <1>1 DEF HandlerOK
<1>3. \A u \in Task \ {t} : h'[u] = h[u]
  BY OthersStay
<1>4. h[t].pc /= "update" /\ Reporting(c) => Reporting(c)'
  BY <1>3 DEF Reporting
<1>5. ASSUME UNCHANGED <<store, faults>>, sent \subseteq sent',
             c \in sent' => c \in sent \/ Stands(c), h[t].pc /= "update"
      PROVE  RowAgrees(c)'
  BY <1>0, <1>4, <1>5, RowStays DEF SameRow
<1>6. ASSUME Return(t) PROVE FreshOn(h[t], c)'
  BY <1>0, <1>6, ReturnFresh
<1>7. ASSUME h'[t].id = c, h'[t].todo = h[t].todo,
             h'[t].pc \notin {"idle", "insert", "list"}, Fresh(h[t])'
      PROVE  FreshOn(h[t], c)'
  BY <1>0, <1>7 DEF FreshOn
<1>8. CASE InsertApproval(t)
  <2>1. /\ h[t].pc = "insertApproval"
        /\ approval' = [approval EXCEPT ![c].decision = "pending"]
        /\ h' = [h EXCEPT ![t].pc = "created"]
        /\ UNCHANGED <<status, request, results, sent, faults>>
    BY <1>8 DEF InsertApproval, At
  <2>2. status[c] = h[t].seen /\ approval[c].decision = "absent"
    BY <1>0, <2>1 DEF Fresh
  <2>3. /\ h'[t].pc = "created" /\ h'[t].id = c
        /\ h'[t].seen = h[t].seen /\ h'[t].todo = h[t].todo
    BY <1>0, <2>1 DEF Handler
  <2>4. Fresh(h[t])'
    BY <2>1, <2>2, <2>3 DEF Fresh
  <2>5. c \in sent \/ status[c] = "dispatched" => ~ApprovalRequired(ToolOf(c))
    BY <1>0, <2>2 DEF RowAgrees, Stands, AcceptedOnce
  <2>6. RowAgrees(c)'
    BY <1>0, <1>2, <1>4, <2>1, <2>5 DEF RowAgrees, Stands, Stored, ToolOf
  <2> QED
    BY <1>7, <2>3, <2>4, <2>6
<1>9. CASE RecordAudit(t)
  <2>1. h[t].pc \in {"created", "audit"} /\ UNCHANGED <<store, sent, faults>>
    BY <1>9 DEF RecordAudit, At
  <2>2. RowAgrees(c)'
    BY <1>5, <2>1
  <2>3. CASE h' = [h EXCEPT ![t].pc = "dispatch"]
    <3>1. /\ h'[t].pc = "dispatch" /\ h'[t].id = c
          /\ h'[t].seen = h[t].seen /\ h'[t].todo = h[t].todo
      BY <1>0, <2>3 DEF Handler
    <3>2. Fresh(h[t])'
      BY <1>0, <2>1, <3>1 DEF Fresh
    <3> QED
      BY <1>7, <2>2, <3>1, <3>2
  <2> QED
    BY <1>6, <1>9, <2>2, <2>3 DEF RecordAudit
<1>10. ASSUME Expire(t), UNCHANGED <<store, sent, faults>>, h[t].pc /= "update",
              status[c] \notin Terminal
       PROVE  FreshOn(h[t], c)' /\ RowAgrees(c)'
  <2>1. /\ h'[t].pc = "update" /\ h'[t].id = c
        /\ h'[t].seen = "expired" /\ h'[t].todo = h[t].todo
    BY <1>0, <1>10 DEF Expire, Handler
  <2>2. Fresh(h[t])'
    BY <1>10, <2>1 DEF Fresh, MoveDue, Terminal
  <2> QED
    BY <1>5, <1>7, <1>10, <2>1, <2>2
<1>11. CASE CheckExpiry(t)
  <2>1. h[t].pc = "check" /\ UNCHANGED <<store, sent, faults>>
    BY <1>11 DEF CheckExpiry, At
  <2>2. status[c] = h[t].seen /\ RowAgrees(c)'
    BY <1>0, <1>5, <2>1 DEF Fresh
  <2>3. CASE Overdue(t) /\ Expire(t)
    BY <1>10, <2>1, <2>2, <2>3 DEF Overdue
  <2>4. CASE /\ h[t].seen = "awaiting_approval"
             /\ h' = [h EXCEPT ![t].pc = "getApproval"]
    <3>1. /\ h'[t].pc = "getApproval" /\ h'[t].id = c
          /\ h'[t].seen = h[t].seen /\ h'[t].todo = h[t].todo
      BY <1>0, <2>4 DEF Handler
    <3>2. Fresh(h[t])'
      BY <2>1, <2>2, <2>4, <3>1 DEF Fresh
    <3> QED
      BY <1>7, <2>2, <3>1, <3>2
  <2> QED
    BY <1>6, <1>11, <2>2, <2>3, <2>4 DEF CheckExpiry
<1>12. CASE GetApproval(t)
  <2>1. h[t].pc = "getApproval" /\ UNCHANGED <<store, sent, faults>>
    BY <1>12 DEF GetApproval, At
  <2>2. status[c] = "awaiting_approval" /\ RowAgrees(c)'
    BY <1>0, <1>5, <2>1 DEF Fresh
  <2>3. PICK approve, biometric \in BOOLEAN : GetApproval(t)!(approve, biometric)
    BY <1>12 DEF GetApproval
  <2>4. CASE h' = [h EXCEPT ![t] = Idle]
    BY <1>0, <2>2, <2>4, IdleIsFresh
  <2>5. CASE h' /= [h EXCEPT ![t] = Idle]
    <3>1. /\ approval[c].decision = "pending"
          /\ h' = [h EXCEPT
               ![t].pc = "updateApproval",
               ![t].held = [approval[c] EXCEPT
                 !.decision = IF approve THEN "approved" ELSE "denied"],
               ![t].seen = IF approve THEN "queued" ELSE "cancelled"]
      BY <2>3, <2>5 DEF Refused
    <3>2. approval[c] \in Approval
      BY <1>0 DEF TablesOK
    <3>3. /\ h'[t].pc = "updateApproval" /\ h'[t].id = c /\ h'[t].todo = h[t].todo
          /\ h'[t].held.decision = IF approve THEN "approved" ELSE "denied"
          /\ h'[t].seen = IF approve THEN "queued" ELSE "cancelled"
      BY <1>0, <3>1, <3>2 DEF Handler, Approval
    <3>4. Fresh(h[t])'
      BY <2>1, <2>2, <3>1, <3>3 DEF Fresh, RulingDue
    <3> QED
      BY <1>7, <2>2, <3>3, <3>4
  <2> QED
    BY <2>4, <2>5
<1>13. CASE UpdateApproval(t)
  <2>1. /\ h[t].pc = "updateApproval"
        /\ approval' = [approval EXCEPT ![c] = h[t].held]
        /\ h' = [h EXCEPT ![t].pc = "update"]
        /\ UNCHANGED <<status, request, results, sent, faults>>
    BY <1>13 DEF UpdateApproval, At
  <2>2. RulingDue(h[t])
    BY <1>0, <2>1 DEF Fresh
  <2>3. /\ h'[t].pc = "update" /\ h'[t].id = c
        /\ h'[t].seen = h[t].seen /\ h'[t].todo = h[t].todo
    BY <1>0, <2>1 DEF Handler
  <2>4. approval'[c] = h[t].held
    BY <1>0, <2>1 DEF TablesOK
  <2>5. Fresh(h[t])'
    BY <2>1, <2>2, <2>3, <2>4 DEF Fresh, RulingDue, MoveDue, Stands, AcceptedOnce
  <2>6. c \in sent \/ status[c] = "dispatched" => Stands(c)'
    <3>1. CASE h[t].held = AcceptedOnce
      BY <2>4, <3>1 DEF Stands
    <3>2. CASE approval[c].decision = "pending"
      <4>1. approval[c] /= AcceptedOnce
        BY <3>2 DEF AcceptedOnce
      <4> QED
        BY <1>0, <2>1, <4>1 DEF RowAgrees, Stands, ToolOf
    <3> QED
      BY <2>2, <3>1, <3>2 DEF RulingDue
  <2>7. RowAgrees(c)'
    BY <1>0, <1>2, <1>4, <2>1, <2>6 DEF RowAgrees, Stored
  <2> QED
    BY <1>7, <2>3, <2>5, <2>7
<1>14. CASE UpdateCommand(t)
  <2>1. /\ h[t].pc = "update"
        /\ status' = [status EXCEPT ![c] = h[t].seen]
        /\ h' = [h EXCEPT ![t].pc = IF h[t].seen = "dispatched" THEN "send" ELSE "audit"]
        /\ UNCHANGED <<request, approval, results, sent, faults>>
    BY <1>14 DEF UpdateCommand, At
  <2>2. MoveDue(h[t])
    BY <1>0, <2>1 DEF Fresh
  <2>3. /\ h'[t].id = c /\ h'[t].seen = h[t].seen
        /\ h'[t].todo = h[t].todo /\ h'[t].pc \in {"send", "audit"}
        /\ h'[t].pc = "send" => h[t].seen = "dispatched"
    BY <1>0, <2>1 DEF Handler
  <2>4. status'[c] = h[t].seen /\ h[t].seen /= "absent"
    BY <1>0, <1>2, <2>1 DEF TablesOK, Status, Terminal
  <2>5. Fresh(h[t])'
    BY <2>3, <2>4 DEF Fresh
  <2>6. h[t].seen = "dispatched" => Stands(c)
    BY <2>2 DEF MoveDue, ResultStatus
  <2>7. h[t].seen \in ResultStatus => results[c] = h[t].seen
    BY <2>2 DEF MoveDue, ResultStatus
  <2>8. RowAgrees(c)'
    BY <1>0, <1>2, <2>1, <2>4, <2>6, <2>7 DEF RowAgrees, Stands, Stored, ToolOf
  <2> QED
    BY <1>7, <2>3, <2>5, <2>8
<1>15. CASE TryDispatch(t)
  <2>1. h[t].pc = "dispatch" /\ UNCHANGED <<store, sent, faults>>
    BY <1>15 DEF TryDispatch, At
  <2>2. status[c] = h[t].seen /\ RowAgrees(c)'
    BY <1>0, <1>5, <2>1 DEF Fresh
  <2>3. CASE h[t].seen \in Dispatchable /\ Expire(t)
    BY <1>10, <2>1, <2>2, <2>3 DEF Dispatchable, Terminal
  <2>4. CASE /\ h[t].seen \in Dispatchable
             /\ h' = [h EXCEPT
                  ![t].pc = IF h[t].seen = "dispatched" THEN "send"
                            ELSE IF ApprovalRequired(ToolOf(c))
                                 THEN "readApproval" ELSE "update",
                  ![t].seen = IF ApprovalRequired(ToolOf(c)) THEN @ ELSE "dispatched"]
    <3>1. /\ h'[t].id = c /\ h'[t].todo = h[t].todo
          /\ \/ /\ h[t].seen = "dispatched" /\ h'[t].pc = "send"
                /\ h'[t].seen = "dispatched"
             \/ /\ h[t].seen = "queued" /\ h'[t].pc = "readApproval"
                /\ h'[t].seen = "queued"
             \/ /\ h[t].seen = "queued" /\ ~ApprovalRequired(ToolOf(c))
                /\ h'[t].pc = "update" /\ h'[t].seen = "dispatched"
      BY <1>0, <2>4 DEF Handler, Dispatchable
    <3>2. h'[t].pc = "update" => MoveDue(h[t])'
      BY <2>1, <2>2, <3>1 DEF MoveDue, Stands, ToolOf
    <3>3. Fresh(h[t])'
      BY <2>1, <2>2, <3>1, <3>2 DEF Fresh
    <3> QED
      BY <1>7, <2>2, <3>1, <3>3
  <2> QED
    BY <1>6, <1>15, <2>2, <2>3, <2>4 DEF TryDispatch
<1>16. CASE ReadApproval(t)
  <2>1. h[t].pc = "readApproval" /\ UNCHANGED <<store, sent, faults>>
    BY <1>16 DEF ReadApproval, At
  <2>2. status[c] = "queued" /\ RowAgrees(c)'
    BY <1>0, <1>5, <2>1 DEF Fresh
  <2>3. CASE /\ approval[c].decision = "approved"
             /\ h' = [h EXCEPT
                  ![t].pc = IF approval[c].consumed THEN "update" ELSE "updateApproval",
                  ![t].held = Consume(approval[c]), ![t].seen = "dispatched"]
    <3>1. approval[c] \in Approval
      BY <1>0 DEF TablesOK
    <3>2. /\ Consume(approval[c]) = AcceptedOnce
          /\ approval[c].consumed => approval[c] = AcceptedOnce
      <4>1. Consume(approval[c]) \in Approval /\ Consume(approval[c]).consumed
            /\ Consume(approval[c]).decision = "approved"
        BY <2>3, <3>1 DEF Consume, Approval
      <4>2. \A a \in Approval : a.decision = "approved" /\ a.consumed => a = AcceptedOnce
        BY DEF Approval, AcceptedOnce
      <4> QED
        BY <2>3, <3>1, <4>1, <4>2
    <3>3. /\ h'[t].id = c /\ h'[t].todo = h[t].todo
          /\ h'[t].held = AcceptedOnce /\ h'[t].seen = "dispatched"
          /\ h'[t].pc = IF approval[c].consumed THEN "update" ELSE "updateApproval"
      BY <1>0, <2>3, <3>2 DEF Handler
    <3>4. h'[t].pc = "update" => MoveDue(h[t])'
      BY <2>1, <2>2, <3>2, <3>3 DEF MoveDue, Stands
    <3>5. h'[t].pc = "updateApproval" => RulingDue(h[t])'
      BY <2>1, <2>2, <2>3, <3>3 DEF RulingDue
    <3>6. Fresh(h[t])'
      BY <2>1, <3>3, <3>4, <3>5 DEF Fresh
    <3> QED
      BY <1>7, <2>2, <3>3, <3>6
  <2> QED
    BY <1>6, <1>16, <2>2, <2>3 DEF ReadApproval
<1>17. CASE Send(t)
  <2>1. /\ h[t].pc = "send" /\ sent' \in {sent, sent \union {c}}
        /\ UNCHANGED <<store, faults>>
    BY <1>17 DEF Send, At
  <2>2. h[t].seen = "dispatched" /\ status[c] = "dispatched"
    BY <1>0, <2>1 DEF Fresh
  <2>3. RowAgrees(c)'
    BY <1>0, <1>5, <2>1, <2>2 DEF RowAgrees
  <2>4. CASE h' = [h EXCEPT ![t].pc = "audit"]
    <3>1. /\ h'[t].pc = "audit" /\ h'[t].id = c
          /\ h'[t].seen = h[t].seen /\ h'[t].todo = h[t].todo
      BY <1>0, <2>4 DEF Handler
    <3>2. Fresh(h[t])'
      BY <2>1, <2>2, <3>1 DEF Fresh
    <3> QED
      BY <1>7, <2>3, <3>1, <3>2
  <2> QED
    BY <1>6, <1>17, <2>3, <2>4 DEF Send
<1>18. CASE SaveResult(t)
  <2>1. /\ h[t].pc = "save" /\ results' = [results EXCEPT ![c] = h[t].seen]
        /\ h' = [h EXCEPT ![t].pc = "update"]
        /\ UNCHANGED <<status, request, approval, sent, faults>>
    BY <1>18 DEF SaveResult, At
  <2>2. c \in sent /\ status[c] \in Reportable /\ h[t].seen \in ResultStatus
    BY <1>0, <2>1 DEF Fresh, HandlerOK
  <2>3. /\ h'[t].pc = "update" /\ h'[t].id = c
        /\ h'[t].seen = h[t].seen /\ h'[t].todo = h[t].todo
    BY <1>0, <2>1 DEF Handler
  <2>4. results'[c] = h[t].seen
    BY <1>0, <2>1 DEF TablesOK
  <2>5. Fresh(h[t])'
    BY <2>1, <2>2, <2>3, <2>4 DEF Fresh, MoveDue
  <2>6. Reporting(c)'
    BY <2>3 DEF Reporting
  <2>7. RowAgrees(c)'
    BY <1>0, <2>1, <2>6 DEF RowAgrees, Stands, Stored, ToolOf
  <2> QED
    BY <1>7, <2>3, <2>5, <2>7
<1>19. ~InsertCommand(t) /\ ~ListPending(t)
  BY DEF InsertCommand, ListPending, At
<1> QED
  BY <1>8, <1>9, <1>11, <1>12, <1>13, <1>14, <1>15, <1>16, <1>17, <1>18, <1>19
  DEF Continue

(* A step of a handler that works on another command.                      *)
LEMMA KeptElsewhere ==
  ASSUME TypeOK, NEW c \in CmdId, KeptFor(c), NEW t \in Task, h[t].id /= c,
         Continue(t), h[t].pc \notin {"insert", "list"}
  PROVE  FreshOn(h[t], c)' /\ RowAgrees(c)'
<1>0. /\ h \in [Task -> Handler] /\ h[t] \in Handler /\ FreshOn(h[t], c) /\ RowAgrees(c)
      /\ ~InsertCommand(t) /\ ~ListPending(t)
  BY DEF TypeOK, HandlersOK, KeptFor, InsertCommand, ListPending, At
<1>1. SameRow(c) /\ (c \in sent' => c \in sent)
  BY <1>0, WritesRow
<1>2. Reporting(c) => Reporting(c)'
  BY OthersStay DEF Reporting
<1>3. faults' = faults
  BY <1>0 DEF Continue, InsertApproval, RecordAudit, CheckExpiry, GetApproval,
    UpdateApproval, UpdateCommand, TryDispatch, ReadApproval, Send, SaveResult, history
<1>4. RowAgrees(c)'
  BY <1>0, <1>1, <1>2, <1>3, RowStays
<1>5. CASE Return(t)
  BY <1>0, <1>1, <1>4, <1>5, ReturnFresh DEF FreshOn, SameRow
<1>6. CASE h' = [h EXCEPT ![t] = Idle]
  BY <1>0, <1>4, <1>6, IdleIsFresh
<1>7. CASE /\ h'[t].id = h[t].id /\ h'[t].todo = h[t].todo
           /\ h'[t].pc \notin {"idle", "insert", "list"}
  BY <1>0, <1>1, <1>4, <1>7, ElsewhereFresh
<1>8. CASE InsertApproval(t) \/ UpdateApproval(t) \/ UpdateCommand(t) \/ SaveResult(t)
  BY <1>0, <1>7, <1>8 DEF InsertApproval, UpdateApproval, UpdateCommand, SaveResult, Handler
<1>9. CASE RecordAudit(t) \/ CheckExpiry(t) \/ Send(t)
  BY <1>0, <1>5, <1>7, <1>9 DEF RecordAudit, CheckExpiry, Send, Expire, Handler
<1>10. CASE GetApproval(t)
  BY <1>0, <1>6, <1>7, <1>10 DEF GetApproval, Handler
<1>11. CASE TryDispatch(t) \/ ReadApproval(t)
  BY <1>0, <1>5, <1>7, <1>11 DEF TryDispatch, ReadApproval, Expire, Handler
<1> QED
  BY <1>0, <1>8, <1>9, <1>10, <1>11 DEF Continue

LEMMA KeptContinue ==
  ASSUME TypeOK, NEW c \in CmdId, KeptFor(c), Undisturbed(c), NEW t \in Task, Continue(t)
  PROVE  KeptFor(c)'
<1>1. FreshOn(h[t], c)' /\ RowAgrees(c)'
  <2>1. CASE h[t].pc = "insert"
    BY <2>1, KeptInsert DEF Continue, InsertApproval, RecordAudit, CheckExpiry,
      GetApproval, UpdateApproval, UpdateCommand, TryDispatch, ReadApproval, Send,
      ListPending, SaveResult, At
  <2>2. CASE h[t].pc = "list"
    <3>1. ListPending(t)
      BY <2>2 DEF Continue, InsertCommand, InsertApproval, RecordAudit, CheckExpiry,
        GetApproval, UpdateApproval, UpdateCommand, TryDispatch, ReadApproval, Send,
        SaveResult, At
    <3>2. SameRow(c) /\ sent' = sent /\ faults' = faults
      BY <3>1 DEF ListPending, SameRow, store, network, history
    <3>3. Reporting(c) => Reporting(c)'
      BY <2>2, OthersStay DEF Reporting
    <3> QED
      BY <3>1, <3>2, <3>3, KeptList, RowStays DEF KeptFor
  <2> QED
    BY <2>1, <2>2, KeptOwn, KeptElsewhere
<1>2. ASSUME NEW u \in Task \ {t} PROVE FreshOn(h[u], c)'
  <2>1. h'[u] = h[u] /\ FreshOn(h[u], c) /\ h[u] \in Handler /\ HandlerOK(h[u])
    BY OthersStay DEF KeptFor, TypeOK, HandlersOK
  <2>2. CASE c \in Handles(h[u])
    <3>1. Stored(c)
      BY <2>1, <2>2 DEF Handles, HandlerOK, FreshOn
    <3>2. ~(AtWrite(h[t]) /\ h[t].id = c)
      BY <2>2 DEF Undisturbed
    <3>3. SameRow(c) /\ sent \subseteq sent'
      BY <3>1, <3>2, WritesRow
    <3> QED
      BY <2>1, <3>3, StaysFresh
  <2>3. CASE c \notin Handles(h[u])
    BY <2>1, <2>3 DEF FreshOn, Handles
  <2> QED
    BY <2>2, <2>3
<1> QED
  BY <1>1, <1>2 DEF KeptFor

(* Disconnections, time and faults: no row changes.                        *)
LEMMA KeptAround ==
  ASSUME TypeOK, NEW c \in CmdId, KeptFor(c),
         \/ \E d \in Device : Disconnect(d)
         \/ Tick \/ Restart \/ (\E t \in Task : QueryError(t)) \/ UNCHANGED vars
  PROVE  KeptFor(c)'
<1> USE DEF store, network, history
<1>0. h \in [Task -> Handler] /\ faults \in Nat /\ RowAgrees(c)
  BY BoundsAssumption DEF TypeOK, HandlersOK, TablesOK, KeptFor
<1>1. SameRow(c) /\ sent' = sent
  BY DEF Disconnect, Tick, Restart, QueryError, vars, SameRow
<1>2. \A t \in Task : FreshOn(h[t], c)'
  <2>1. ASSUME NEW t \in Task, h'[t] = Idle \/ h'[t] = h[t] PROVE FreshOn(h[t], c)'
    BY <1>1, <2>1, IdleIsFresh, StaysFresh DEF KeptFor
  <2>2. ASSUME NEW t \in Task PROVE h'[t] = Idle \/ h'[t] = h[t]
    BY <1>0 DEF Disconnect, Tick, Restart, QueryError, vars
  <2> QED
    BY <2>1, <2>2
<1>3. h' = h \/ faults' /= 0
  BY <1>0 DEF Disconnect, Tick, Restart, QueryError, Fault, vars
<1>4. /\ faults' = 0 => faults = 0
      /\ faults' = 0 /\ Reporting(c) => Reporting(c)'
  BY <1>0, <1>3 DEF Reporting, Disconnect, Tick, Restart, QueryError, Fault, vars
<1> QED
  BY <1>0, <1>1, <1>2, <1>4, RowStays DEF KeptFor

LEMMA KeptStep ==
  ASSUME TypeOK, NEW c \in CmdId, KeptFor(c), Undisturbed(c), [Next]_vars
  PROVE  KeptFor(c)'
BY KeptStart, KeptContinue, KeptAround DEF Next, Task

(* What handlers hold of an undisturbed command agrees with its row.       *)
THEOREM UndisturbedIsKept ==
  ASSUME NEW c \in CmdId
  PROVE  Spec /\ []Undisturbed(c) => []KeptFor(c)
<1>1. Init => KeptFor(c)
  BY KeptInit
<1>2. TypeOK /\ KeptFor(c) /\ Undisturbed(c) /\ [Next]_vars => KeptFor(c)'
  BY KeptStep
<1> QED
  BY <1>1, <1>2, TypeCorrect, PTL DEF Spec

-----------------------------------------------------------------------------
(* Each write of a handler with fresh copies is one move of the lifecycle. *)

MoveOf(c) ==
  \/ Lifecycle!Create(c) \/ Lifecycle!Rule(c) \/ Lifecycle!Apply(c)
  \/ Lifecycle!Dispatch(c) \/ Lifecycle!Deliver(c) \/ Lifecycle!Report(c)
  \/ Lifecycle!Expire(c)

LEMMA InsertsAreMoves ==
  ASSUME TypeOK, NEW t \in Task, InsertCommand(t)
  PROVE  (\E b \in CmdId : MoveOf(b)) \/ UNCHANGED Lifecycle!vars
<1> USE DEF store, network, history
<1> DEFINE r == h[t].arg
<1>0. TablesOK /\ r \in Requests
  BY DEF TypeOK, HandlersOK, HandlerOK, InsertCommand, At
<1>1. CASE KeyTaken(r)
  BY <1>1 DEF InsertCommand, Lifecycle!vars, Stored, ToolOf
<1>2. CASE ~KeyTaken(r)
  <2>1. PICK b \in CmdId :
          /\ ~Stored(b)
          /\ status' = [status EXCEPT ![b] = FirstStatus(r.tool)]
          /\ request' = [request EXCEPT ![b] = AsStored(r)]
          /\ UNCHANGED <<approval, sent>>
    BY <1>2 DEF InsertCommand
  <2>2. /\ status'[b] = FirstStatus(r.tool) /\ request'[b].tool = r.tool
        /\ \A d \in CmdId \ {b} : status'[d] = status[d] /\ request'[d] = request[d]
    BY <1>0, <2>1, AsStoredTyped DEF TablesOK
  <2>3. \A d \in CmdId \ {b} :
          (Stored(d) /\ ApprovalRequired(ToolOf(d)))' <=> Stored(d) /\ ApprovalRequired(ToolOf(d))
    BY <2>2 DEF Stored, ToolOf
  <2>4. (Stored(b) /\ ApprovalRequired(ToolOf(b)))' <=> ApprovalRequired(r.tool)
    BY <2>2 DEF Stored, ToolOf, FirstStatus
  <2>5. Lifecycle!Create(b)
    BY <2>1, <2>2, <2>3, <2>4 DEF Lifecycle!Create, Lifecycle!Move, FirstStatus, Stored
  <2> QED
    BY <2>5 DEF MoveOf
<1> QED
  BY <1>1, <1>2

LEMMA WritesAreMoves ==
  ASSUME TypeOK, NEW c \in CmdId, NEW t \in Task, h[t].id = c, Fresh(h[t]),
         InsertApproval(t) \/ UpdateApproval(t) \/ UpdateCommand(t) \/ Send(t)
  PROVE  MoveOf(c) \/ UNCHANGED Lifecycle!vars
<1> USE DEF store, network, history
<1> DEFINE Ruling(a) == IF a.decision \in {"approved", "denied"} THEN a.decision ELSE "open"
<1>0. /\ TablesOK /\ h[t] \in Handler
      /\ Stored(c) /\ h[t].seen \in Status /\ Fresh(h[t])
  BY DEF InsertApproval, UpdateApproval, UpdateCommand, Send, At, TypeOK,
         HandlersOK, HandlerOK
<1>1. ASSUME UNCHANGED <<status, request, approval, sent>>
      PROVE  UNCHANGED Lifecycle!vars
  BY <1>1 DEF Lifecycle!vars, Stored, ToolOf
<1>2. CASE InsertApproval(t)
  <2>1. /\ approval' = [approval EXCEPT ![c].decision = "pending"]
        /\ UNCHANGED <<status, request, sent>> /\ h[t].pc = "insertApproval"
    BY <1>2 DEF InsertApproval, At
  <2>2. approval[c].decision = "absent" /\ approval[c] \in Approval
    BY <1>0, <2>1 DEF Fresh, TablesOK
  <2>3. approval'[c].decision = "pending" /\ \A d \in CmdId \ {c} : approval'[d] = approval[d]
    BY <1>0, <2>1, <2>2 DEF TablesOK, Approval
  <2>4. \A d \in CmdId : Ruling(approval'[d]) = Ruling(approval[d])
    BY <2>2, <2>3
  <2> QED
    BY <2>1, <2>4 DEF Lifecycle!vars, Stored, ToolOf
<1>3. CASE UpdateApproval(t)
  <2>1. /\ approval' = [approval EXCEPT ![c] = h[t].held]
        /\ UNCHANGED <<status, request, sent>> /\ h[t].pc = "updateApproval"
    BY <1>3 DEF UpdateApproval, At
  <2>2. /\ approval'[c] = h[t].held
        /\ \A d \in CmdId \ {c} : approval'[d] = approval[d]
    BY <1>0, <2>1 DEF TablesOK
  <2>3. RulingDue(h[t])
    BY <1>0, <2>1 DEF Fresh
  <2>4. CASE /\ status[c] = "awaiting_approval" /\ approval[c].decision = "pending"
             /\ h[t].held.decision \in {"approved", "denied"}
    <3>0. PICK r \in {"approved", "denied"} : h[t].held.decision = r
      BY <2>4
    <3>1. /\ Ruling(approval[c]) = "open" /\ Ruling(approval'[c]) = r
          /\ \A d \in CmdId \ {c} : Ruling(approval'[d]) = Ruling(approval[d])
      BY <2>2, <2>4, <3>0
    <3>2. [d \in CmdId |-> Ruling(approval'[d])]
            = [[d \in CmdId |-> Ruling(approval[d])] EXCEPT ![c] = r]
      BY <1>0, <3>1
    <3>3. {d \in CmdId : Stored(d) /\ ApprovalRequired(ToolOf(d))}'
            = {d \in CmdId : Stored(d) /\ ApprovalRequired(ToolOf(d))}
      BY <2>1 DEF Stored, ToolOf
    <3>4. Lifecycle!Rule(c)
      BY <2>1, <2>4, <3>0, <3>1, <3>2, <3>3 DEF Lifecycle!Rule
    <3> QED
      BY <3>4 DEF MoveOf
  <2>5. CASE approval[c].decision = "approved" /\ h[t].held.decision = "approved"
    <3>1. \A d \in CmdId : Ruling(approval'[d]) = Ruling(approval[d])
      BY <2>2, <2>5
    <3> QED
      BY <2>1, <3>1 DEF Lifecycle!vars, Stored, ToolOf
  <2> QED
    BY <2>3, <2>4, <2>5 DEF RulingDue, AcceptedOnce
<1>4. CASE UpdateCommand(t)
  <2>1. /\ status' = [status EXCEPT ![c] = h[t].seen]
        /\ UNCHANGED <<request, approval, sent>> /\ h[t].pc = "update"
    BY <1>4 DEF UpdateCommand, At
  <2>2. MoveDue(h[t])
    BY <1>0, <2>1 DEF Fresh
  <2>3. \A d \in CmdId : Stored(d)' <=> Stored(d)
    BY <1>0, <2>1 DEF TablesOK, Stored, Status, Terminal
  <2>4. {d \in CmdId : Stored(d) /\ ApprovalRequired(ToolOf(d))}'
          = {d \in CmdId : Stored(d) /\ ApprovalRequired(ToolOf(d))}
    BY <2>1, <2>3 DEF ToolOf
  <2>5. Lifecycle!Apply(c) \/ Lifecycle!Dispatch(c) \/ Lifecycle!Report(c) \/ Lifecycle!Expire(c)
    <3>1. CASE /\ h[t].seen = "queued" /\ status[c] = "awaiting_approval"
               /\ approval[c].decision = "approved"
      BY <1>0, <2>1, <2>4, <3>1 DEF Lifecycle!Apply, Lifecycle!Move
    <3>2. CASE /\ h[t].seen = "cancelled" /\ status[c] = "awaiting_approval"
               /\ approval[c].decision = "denied"
      BY <1>0, <2>1, <2>4, <3>2 DEF Lifecycle!Apply, Lifecycle!Move
    <3>3. CASE h[t].seen = "dispatched" /\ status[c] = "queued" /\ Stands(c)
      BY <1>0, <2>1, <2>4, <3>3
      DEF Lifecycle!Dispatch, Lifecycle!Move, Stands, AcceptedOnce
    <3>4. CASE h[t].seen \in ResultStatus /\ status[c] \in Reportable /\ c \in sent
      BY <1>0, <2>1, <2>4, <3>4
      DEF Lifecycle!Report, Lifecycle!Move, ResultStatus, Reportable
    <3>5. CASE h[t].seen = "expired" /\ status[c] \notin Terminal
      BY <1>0, <2>1, <2>4, <3>5
      DEF Lifecycle!Expire, Lifecycle!Move, Lifecycle!Phase, Lifecycle!Final,
          TablesOK, Stored, Status, Terminal
    <3> QED
      BY <2>2, <3>1, <3>2, <3>3, <3>4, <3>5 DEF MoveDue
  <2> QED
    BY <1>0, <2>5 DEF MoveOf
<1>5. CASE Send(t)
  <2>1. /\ sent' \in {sent, sent \union {c}} /\ h[t].pc = "send"
        /\ UNCHANGED <<status, request, approval>>
    BY <1>5 DEF Send, At
  <2>2. status[c] = "dispatched"
    BY <1>0, <2>1 DEF Fresh
  <2>3. CASE sent' = sent
    BY <1>1, <2>1, <2>3
  <2>4. CASE sent' = sent \union {c}
    <3>1. Lifecycle!Deliver(c)
      BY <2>1, <2>2, <2>4 DEF Lifecycle!Deliver, Stored, ToolOf
    <3> QED
      BY <1>0, <3>1 DEF MoveOf
  <2> QED
    BY <2>1, <2>3, <2>4
<1> QED
  BY <1>2, <1>3, <1>4, <1>5


LEMMA Elsewhere ==
  ASSUME NEW c \in CmdId, SameRow(c), c \in sent' <=> c \in sent
  PROVE  UNCHANGED LifecycleOf(c)!vars
<1>1. /\ Stored(c)' <=> Stored(c)
      /\ ApprovalRequired(ToolOf(c))' <=> ApprovalRequired(ToolOf(c))
  BY DEF SameRow, Stored, ToolOf
<1> QED
  BY <1>1 DEF SameRow, LifecycleOf!vars

(* A move of a command is a move of its own lifecycle, and none of another's. *)
LEMMA MovesOfOne ==
  ASSUME TypeOK, NEW c \in CmdId, NEW b \in CmdId, MoveOf(b)
  PROVE  [LifecycleOf(c)!Next]_(LifecycleOf(c)!vars)
<1> DEFINE Guarded == {d \in CmdId : Stored(d) /\ ApprovalRequired(ToolOf(d))}
           GuardedOne == {d \in {c} : Stored(d) /\ ApprovalRequired(ToolOf(d))}
           Ruling(a) == IF a.decision \in {"approved", "denied"} THEN a.decision ELSE "open"
           ruling == [d \in CmdId |-> Ruling(approval[d])]
           rulingOne == [d \in {c} |-> Ruling(approval[d])]
           phaseOne == [d \in {c} |-> status[d]]
<1>0. status \in [CmdId -> Status \union {"absent"}] /\ sent \subseteq CmdId
  BY DEF TypeOK, TablesOK
<1>1. /\ GuardedOne = Guarded \intersect {c} /\ GuardedOne' = Guarded' \intersect {c}
      /\ rulingOne[c] = ruling[c] /\ rulingOne'[c] = ruling'[c]
      /\ phaseOne[c] = status[c] /\ phaseOne'[c] = status'[c]
  OBVIOUS
<1>2. ASSUME NEW from, NEW to, Lifecycle!Move(b, from, to)
      PROVE  IF b = c THEN LifecycleOf(c)!Move(c, from, to) ELSE phaseOne' = phaseOne
  BY <1>0, <1>2 DEF Lifecycle!Move, LifecycleOf!Move
<1>3. rulingOne' = rulingOne <=> ruling'[c] = ruling[c]
  BY DEF Ruling
<1>4. ASSUME b /= c PROVE UNCHANGED LifecycleOf(c)!vars
  <2>1. CASE Lifecycle!Create(b) \/ Lifecycle!Apply(b) \/ Lifecycle!Dispatch(b)
               \/ Lifecycle!Report(b) \/ Lifecycle!Expire(b)
    <3>1. phaseOne' = phaseOne
      BY <1>2, <1>4, <2>1 DEF Lifecycle!Create, Lifecycle!Apply, Lifecycle!Dispatch,
        Lifecycle!Report, Lifecycle!Expire
    <3>2. ruling' = ruling /\ sent' = sent /\ Guarded' \in {Guarded, Guarded \union {b}}
      BY <2>1 DEF Lifecycle!Create, Lifecycle!Apply, Lifecycle!Dispatch,
        Lifecycle!Report, Lifecycle!Expire
    <3> QED
      BY <1>1, <1>3, <1>4, <3>1, <3>2 DEF LifecycleOf!vars
  <2>2. CASE Lifecycle!Rule(b)
    <3>1. ruling'[c] = ruling[c] /\ status' = status /\ sent' = sent /\ Guarded' = Guarded
      BY <1>4, <2>2 DEF Lifecycle!Rule
    <3> QED
      BY <1>1, <1>3, <3>1 DEF LifecycleOf!vars
  <2>3. CASE Lifecycle!Deliver(b)
    <3>1. ruling' = ruling /\ status' = status /\ sent' = sent \union {b} /\ Guarded' = Guarded
      BY <2>3 DEF Lifecycle!Deliver
    <3> QED
      BY <1>1, <1>3, <1>4, <3>1 DEF LifecycleOf!vars
  <2> QED
    BY <2>1, <2>2, <2>3 DEF MoveOf
<1>5. ASSUME b = c PROVE LifecycleOf(c)!Next
  <2>1. CASE Lifecycle!Create(c)
    <3>1. LifecycleOf(c)!Create(c)
      BY <1>1, <1>2, <1>3, <1>5, <2>1 DEF Lifecycle!Create, LifecycleOf!Create
    <3> QED
      BY <3>1 DEF LifecycleOf!Next
  <2>2. CASE Lifecycle!Rule(c)
    <3>1. LifecycleOf(c)!Rule(c)
      BY <1>1, <2>2 DEF Lifecycle!Rule, LifecycleOf!Rule
    <3> QED
      BY <3>1 DEF LifecycleOf!Next
  <2>3. CASE Lifecycle!Apply(c)
    <3>1. LifecycleOf(c)!Apply(c)
      BY <1>1, <1>2, <1>3, <1>5, <2>3 DEF Lifecycle!Apply, LifecycleOf!Apply
    <3> QED
      BY <3>1 DEF LifecycleOf!Next
  <2>4. CASE Lifecycle!Dispatch(c)
    <3>1. LifecycleOf(c)!Dispatch(c)
      BY <1>1, <1>2, <1>3, <1>5, <2>4 DEF Lifecycle!Dispatch, LifecycleOf!Dispatch
    <3> QED
      BY <3>1 DEF LifecycleOf!Next
  <2>5. CASE Lifecycle!Deliver(c)
    <3>1. LifecycleOf(c)!Deliver(c)
      BY <1>1, <1>3, <2>5 DEF Lifecycle!Deliver, LifecycleOf!Deliver
    <3> QED
      BY <3>1 DEF LifecycleOf!Next
  <2>6. CASE Lifecycle!Report(c)
    <3>1. LifecycleOf(c)!Report(c)
      BY <1>1, <1>2, <1>3, <1>5, <2>6 DEF Lifecycle!Report, LifecycleOf!Report
    <3> QED
      BY <3>1 DEF LifecycleOf!Next
  <2>7. CASE Lifecycle!Expire(c)
    <3>1. LifecycleOf(c)!Expire(c)
      BY <1>1, <1>2, <1>3, <1>5, <2>7 DEF Lifecycle!Expire, LifecycleOf!Expire,
        Lifecycle!Phase, Lifecycle!Final, LifecycleOf!Phase, LifecycleOf!Final
    <3> QED
      BY <3>1 DEF LifecycleOf!Next
  <2> QED
    BY <1>5, <2>1, <2>2, <2>3, <2>4, <2>5, <2>6, <2>7 DEF MoveOf
<1> QED
  BY <1>4, <1>5

(* Whose step it is tells what moves.                                      *)
LEMMA WhoMoves ==
  ASSUME TypeOK, [Next]_vars
  PROVE  \/ UNCHANGED <<status, request, approval, sent>>
         \/ \E t \in Task : InsertCommand(t)
         \/ \E t \in Task :
              InsertApproval(t) \/ UpdateApproval(t) \/ UpdateCommand(t) \/ Send(t)
<1> USE DEF store, network, history
<1>1. ASSUME NEW t \in Task, Continue(t), ~InsertCommand(t), ~InsertApproval(t),
             ~UpdateApproval(t), ~UpdateCommand(t), ~Send(t)
      PROVE  UNCHANGED <<status, request, approval, sent>>
  BY <1>1 DEF Continue, RecordAudit, CheckExpiry, GetApproval, TryDispatch, ReadApproval,
    ListPending, SaveResult
<1>2. ASSUME ~\E t \in Task : Continue(t)
      PROVE  UNCHANGED <<status, request, approval, sent>>
  BY <1>2 DEF Next, vars, Create, CreateNew, CreateReplay, CreateConflict, Arrives,
    Read, Hello, AcceptResult, Disconnect, Tick, Restart, QueryError
<1> QED
  BY <1>1, <1>2

LEMMA StepsOfOne ==
  ASSUME TypeOK, NEW c \in CmdId, KeptFor(c), [Next]_vars
  PROVE  [LifecycleOf(c)!Next]_(LifecycleOf(c)!vars)
<1>1. CASE UNCHANGED <<status, request, approval, sent>>
  BY <1>1 DEF LifecycleOf!vars, Stored, ToolOf
<1>2. ASSUME UNCHANGED Lifecycle!vars PROVE UNCHANGED LifecycleOf(c)!vars
  BY <1>2 DEF Lifecycle!vars, LifecycleOf!vars
<1>3. ASSUME NEW t \in Task, InsertCommand(t)
      PROVE  [LifecycleOf(c)!Next]_(LifecycleOf(c)!vars)
  BY <1>2, <1>3, InsertsAreMoves, MovesOfOne
<1>4. ASSUME NEW t \in Task,
             InsertApproval(t) \/ UpdateApproval(t) \/ UpdateCommand(t) \/ Send(t)
      PROVE  [LifecycleOf(c)!Next]_(LifecycleOf(c)!vars)
  <2>1. h[t].pc \in {"insertApproval", "updateApproval", "update", "send"}
    BY <1>4 DEF InsertApproval, UpdateApproval, UpdateCommand, Send, At
  <2>2. CASE h[t].id = c
    <3>1. Fresh(h[t])
      BY <2>2 DEF KeptFor, FreshOn
    <3> QED
      BY <1>2, <1>4, <2>2, <3>1, WritesAreMoves, MovesOfOne
  <2>3. CASE h[t].id /= c
    <3>1. ~InsertCommand(t)
      BY <2>1 DEF InsertCommand, At
    <3>2. SameRow(c) /\ (c \in sent' <=> c \in sent)
      BY <1>4, <2>3, <3>1, WritesRow DEF Continue
    <3> QED
      BY <3>2, Elsewhere
  <2> QED
    BY <2>2, <2>3
<1> QED
  BY <1>1, <1>3, <1>4, WhoMoves

(* Whatever the adapter and the faults: a command that no handler writes   *)
(* while another holds a copy of it follows the lifecycle, whatever other  *)
(* commands go through. So every breach of the lifecycle starts with a     *)
(* handler's write under another handler's copy.                           *)
THEOREM UndisturbedFollowsLifecycle ==
  ASSUME NEW c \in CmdId
  PROVE  Spec /\ []Undisturbed(c) => LifecycleOf(c)!Spec
<1>1. Init => LifecycleOf(c)!Init
  BY DEF Init, LifecycleOf!Init, Stored, NoApproval
<1>2. TypeOK /\ KeptFor(c) /\ [Next]_vars => [LifecycleOf(c)!Next]_(LifecycleOf(c)!vars)
  BY StepsOfOne
<1> QED
  BY <1>1, <1>2, TypeCorrect, UndisturbedIsKept, PTL DEF Spec, LifecycleOf!Spec

(* No move of the lifecycle leaves a final phase or turns a ruling over.   *)
LEMMA MovesAreForward ==
  ASSUME NEW c \in CmdId, [LifecycleOf(c)!Next]_(LifecycleOf(c)!vars)
  PROVE  /\ status[c] \in Terminal => status'[c] = status[c]
         /\ approval[c].decision \in {"approved", "denied"} =>
              approval'[c].decision = approval[c].decision
<1> DEFINE Ruling(a) == IF a.decision \in {"approved", "denied"} THEN a.decision ELSE "open"
           ruling == [d \in {c} |-> Ruling(approval[d])]
           phase == [d \in {c} |-> status[d]]
<1>1. phase[c] = status[c] /\ phase'[c] = status'[c]
      /\ ruling[c] = Ruling(approval[c]) /\ ruling'[c] = Ruling(approval'[c])
  OBVIOUS
<1>2. /\ phase[c] \in Terminal => phase'[c] = phase[c]
      /\ ruling[c] /= "open" => ruling'[c] = ruling[c]
  <2>1. CASE UNCHANGED LifecycleOf(c)!vars
    BY <2>1 DEF LifecycleOf!vars
  <2>2. CASE LifecycleOf(c)!Rule(c) \/ LifecycleOf(c)!Deliver(c)
    BY <2>2 DEF LifecycleOf!Rule, LifecycleOf!Deliver
  <2>3. CASE \/ LifecycleOf(c)!Create(c) \/ LifecycleOf(c)!Apply(c)
             \/ LifecycleOf(c)!Dispatch(c) \/ LifecycleOf(c)!Report(c)
             \/ LifecycleOf(c)!Expire(c)
    BY <2>3 DEF LifecycleOf!Create, LifecycleOf!Apply, LifecycleOf!Dispatch,
      LifecycleOf!Report, LifecycleOf!Expire, LifecycleOf!Move, LifecycleOf!Final, Terminal
  <2> QED
    BY <2>1, <2>2, <2>3 DEF LifecycleOf!Next
<1> QED
  BY <1>1, <1>2

(* A finished command that no handler writes under another's copy stays as *)
(* it is.                                                                  *)
THEOREM UndisturbedIsFinal ==
  ASSUME NEW c \in CmdId
  PROVE  Spec /\ []Undisturbed(c) =>
           [][status[c] \in Terminal => status'[c] = status[c]]_vars
<1>1. TypeOK /\ KeptFor(c) /\ [Next]_vars =>
        [status[c] \in Terminal => status'[c] = status[c]]_vars
  BY StepsOfOne, MovesAreForward
<1> QED
  BY <1>1, TypeCorrect, UndisturbedIsKept, PTL DEF Spec

(* No later write turns over the decision on a command that no handler     *)
(* writes under another's copy.                                            *)
THEOREM UndisturbedIsDecidedOnce ==
  ASSUME NEW c \in CmdId
  PROVE  Spec /\ []Undisturbed(c) =>
           [][approval[c].decision \in {"approved", "denied"} =>
                approval'[c].decision = approval[c].decision]_vars
<1>1. TypeOK /\ KeptFor(c) /\ [Next]_vars =>
        [approval[c].decision \in {"approved", "denied"} =>
           approval'[c].decision = approval[c].decision]_vars
  BY StepsOfOne, MovesAreForward
<1> QED
  BY <1>1, TypeCorrect, UndisturbedIsKept, PTL DEF Spec

(* A command that no handler writes under another's copy stands, once      *)
(* sent, on a consumed approval; its result is the status it was left      *)
(* with, unless a fault cut a handler off.                                 *)
THEOREM UndisturbedRowAgrees ==
  ASSUME NEW c \in CmdId
  PROVE  Spec /\ []Undisturbed(c) =>
           [](/\ c \in sent => Stands(c)
              /\ Quiet /\ faults = 0 /\ status[c] \in ResultStatus =>
                   results[c] = status[c])
<1>1. KeptFor(c) => /\ c \in sent => Stands(c)
                    /\ Quiet /\ faults = 0 /\ status[c] \in ResultStatus =>
                         results[c] = status[c]
  BY DEF KeptFor, RowAgrees, Reporting, Quiet, Idle
<1> QED
  BY <1>1, UndisturbedIsKept, PTL

-----------------------------------------------------------------------------
(* All commands undisturbed: the service implements the lifecycle. With    *)
(* the memory adapter they are, since a handler runs alone.                *)

AllUndisturbed == \A c \in CmdId : Undisturbed(c)
AllKept == \A c \in CmdId : KeptFor(c)

LEMMA AllAreKept == Spec /\ []AllUndisturbed => []AllKept
<1>1. Init => AllKept
  BY KeptInit DEF AllKept
<1>2. TypeOK /\ AllKept /\ AllUndisturbed /\ [Next]_vars => AllKept'
  BY KeptStep DEF AllKept, AllUndisturbed
<1> QED
  BY <1>1, <1>2, TypeCorrect, PTL DEF Spec

LEMMA StepsAreMoves ==
  ASSUME TypeOK, AllKept, [Next]_vars
  PROVE  [Lifecycle!Next]_(Lifecycle!vars)
<1>1. CASE UNCHANGED <<status, request, approval, sent>>
  BY <1>1 DEF Lifecycle!vars, Stored, ToolOf
<1>2. ASSUME NEW b \in CmdId, MoveOf(b) PROVE Lifecycle!Next
  BY <1>2 DEF MoveOf, Lifecycle!Next
<1>3. ASSUME NEW t \in Task, InsertCommand(t)
      PROVE  [Lifecycle!Next]_(Lifecycle!vars)
  BY <1>2, <1>3, InsertsAreMoves
<1>4. ASSUME NEW t \in Task,
             InsertApproval(t) \/ UpdateApproval(t) \/ UpdateCommand(t) \/ Send(t)
      PROVE  [Lifecycle!Next]_(Lifecycle!vars)
  <2>1. h[t].id \in CmdId
    BY <1>4 DEF TypeOK, HandlersOK, HandlerOK, InsertApproval, UpdateApproval,
                UpdateCommand, Send, At
  <2>2. Fresh(h[t])
    BY <2>1 DEF AllKept, KeptFor, FreshOn
  <2> QED
    BY <1>2, <1>4, <2>1, <2>2, WritesAreMoves
<1> QED
  BY <1>1, <1>3, <1>4, WhoMoves

(* Where no handler writes a command under another's copy of it, the       *)
(* command service implements CommandLifecycle.                            *)
THEOREM UndisturbedImplementsLifecycle ==
  Spec /\ []AllUndisturbed => FollowsLifecycle
<1>1. Init => Lifecycle!Init
  BY DEF Init, Lifecycle!Init, Stored, NoApproval
<1>2. TypeOK /\ AllKept /\ [Next]_vars => [Lifecycle!Next]_(Lifecycle!vars)
  BY StepsAreMoves
<1> QED
  BY <1>1, <1>2, TypeCorrect, AllAreKept, PTL DEF Spec, FollowsLifecycle, Lifecycle!Spec

Alone == \A t \in Task : h[t] /= Idle => \A u \in Task \ {t} : h[u] = Idle

LEMMA AloneStep ==
  ASSUME TypeOK, Alone, Adapter = "memory", [Next]_vars
  PROVE  Alone'
<1>1. ASSUME NEW t \in Task, Turn(t),
             Create(t) \/ Read(t) \/ Hello(t) \/ AcceptResult(t) \/ Continue(t)
      PROVE  Alone'
  <2>1. \A u \in Task \ {t} : h'[u] = Idle
    BY <1>1, OthersStay DEF Turn
  <2> QED
    BY <2>1 DEF Alone
<1>2. ASSUME NEW t \in Task,
             Create(t) \/ Read(t) \/ Hello(t) \/ AcceptResult(t) \/ Continue(t)
      PROVE  Turn(t)
  BY <1>2 DEF Create, CreateNew, CreateReplay, CreateConflict, Arrives, Read, Hello,
    AcceptResult, Continue, InsertCommand, InsertApproval, RecordAudit, CheckExpiry,
    GetApproval, UpdateApproval, UpdateCommand, TryDispatch, ReadApproval, Send,
    ListPending, SaveResult, At
<1>3. CASE (\E d \in Device : Disconnect(d)) \/ Tick \/ UNCHANGED vars
  BY <1>3 DEF Disconnect, Tick, vars, history, Alone
<1>4. ~Restart /\ \A t \in Task : ~QueryError(t)
  BY BoundsAssumption DEF Restart, QueryError, Fault
<1> QED
  BY <1>1, <1>2, <1>3, <1>4 DEF Next, Task

(* With the memory adapter no handler writes under another's copy.         *)
LEMMA MemoryIsUndisturbed ==
  ASSUME Adapter = "memory"
  PROVE  Spec => []AllUndisturbed
<1>1. Init => Alone
  BY DEF Init, Alone
<1>2. TypeOK /\ Alone /\ [Next]_vars => Alone'
  BY AloneStep
<1>3. Alone => AllUndisturbed
  <2>1. Idle.id = None /\ Idle.pc = "idle" /\ Idle.todo = {}
    BY DEF Idle
  <2> QED
    BY <2>1, NoneAssumption DEF Alone, AllUndisturbed, Undisturbed, AtWrite, Handles
<1> QED
  BY <1>1, <1>2, <1>3, TypeCorrect, PTL DEF Spec

(* With the memory adapter the command service implements CommandLifecycle. *)
THEOREM MemoryImplementsLifecycle ==
  ASSUME Adapter = "memory"
  PROVE  Spec => FollowsLifecycle
BY UndisturbedImplementsLifecycle, MemoryIsUndisturbed, PTL

(* With the memory adapter a finished command stays as it is.              *)
THEOREM MemoryTerminalIsFinal ==
  ASSUME Adapter = "memory"
  PROVE  Spec => TerminalIsFinal
<1>1. TypeOK /\ AllKept /\ [Next]_vars =>
        [\A c \in CmdId : status[c] \in Terminal => status'[c] = status[c]]_vars
  BY StepsOfOne, MovesAreForward DEF AllKept
<1> QED
  BY <1>1, TypeCorrect, AllAreKept, MemoryIsUndisturbed, PTL DEF Spec, TerminalIsFinal

(* With the memory adapter no later write turns a decision over.           *)
THEOREM MemoryDecidesOnce ==
  ASSUME Adapter = "memory"
  PROVE  Spec => OneTimeDecision
<1>1. TypeOK /\ AllKept /\ [Next]_vars =>
        [\A c \in CmdId : approval[c].decision \in {"approved", "denied"} =>
           approval'[c].decision = approval[c].decision]_vars
  BY StepsOfOne, MovesAreForward DEF AllKept
<1> QED
  BY <1>1, TypeCorrect, AllAreKept, MemoryIsUndisturbed, PTL DEF Spec, OneTimeDecision

(* With the memory adapter what was sent stands on a consumed approval.    *)
THEOREM MemorySentStands ==
  ASSUME Adapter = "memory"
  PROVE  Spec => []SentStandsOnApproval
<1>1. TypeOK /\ AllKept => SentStandsOnApproval
  BY DEF TypeOK, TablesOK, AllKept, KeptFor, RowAgrees, Stands, AcceptedOnce,
         SentStandsOnApproval
<1> QED
  BY <1>1, TypeCorrect, AllAreKept, MemoryIsUndisturbed, PTL

LEMMA NoFaults == ASSUME Faults = {} PROVE Spec => [](faults = 0)
<1>1. Init => faults = 0
  BY DEF Init
<1>2. faults = 0 /\ [Next]_vars => (faults = 0)'
  <2>1. ~Restart /\ \A t \in Task : ~QueryError(t)
    BY DEF Restart, QueryError, Fault
  <2> QED
    BY <2>1 DEF Next, vars, Task, history, Create, CreateNew, CreateReplay,
      CreateConflict, Arrives, Read, Hello, AcceptResult, Continue, InsertCommand,
      InsertApproval, RecordAudit, CheckExpiry, GetApproval, UpdateApproval,
      UpdateCommand, TryDispatch, ReadApproval, Send, ListPending, SaveResult,
      Disconnect, Tick
<1> QED
  BY <1>1, <1>2, PTL DEF Spec

(* With the memory adapter finished handlers leave the result the client   *)
(* reads equal to the status it reads.                                     *)
THEOREM MemoryResultsAgree ==
  ASSUME Adapter = "memory"
  PROVE  Spec => []ResultsAgree
<1>1. AllKept /\ faults = 0 => ResultsAgree
  BY DEF AllKept, KeptFor, RowAgrees, Reporting, Quiet, Idle, ResultsAgree
<1>2. Faults = {}
  BY BoundsAssumption
<1> QED
  BY <1>1, <1>2, NoFaults, AllAreKept, MemoryIsUndisturbed, PTL

(* An answer with a command was given to that command's own body, as sent  *)
(* or as stored; an answer without one, because the key was another's.     *)
AnswersAgree ==
  \A r \in Requests :
    /\ \A c \in CmdId : <<r, c>> \in answers =>
         Stored(c) /\ request[c] \in {r, AsStored(r)}
    /\ <<r, None>> \in answers => \E c \in Holders(r.key) : request[c] /= r

LEMMA AnswersStep ==
  ASSUME TypeOK, KeyReserved, AnswersAgree, [Next]_vars
  PROVE  AnswersAgree'
<1> USE DEF store, network, history
<1>0. TablesOK
  BY DEF TypeOK
<1>1. ASSUME UNCHANGED <<request, answers>>, \A c \in CmdId : Stored(c)' <=> Stored(c)
      PROVE  AnswersAgree'
  BY <1>1 DEF AnswersAgree, Holders, AsStored
<1>2. ASSUME NEW t \in Task, InsertCommand(t), UNCHANGED <<store, answers>>
      PROVE  AnswersAgree'
  BY <1>1, <1>2 DEF Stored
<1>7. ASSUME NEW t \in Task, InsertCommand(t), ~UNCHANGED <<store, answers>>
      PROVE  AnswersAgree'
  <2> DEFINE r == h[t].arg
  <2>0. r \in Requests
    BY <1>7 DEF InsertCommand, At, TypeOK, HandlersOK, HandlerOK
  <2>1. PICK b \in CmdId :
          /\ ~Stored(b)
          /\ status' = [status EXCEPT ![b] = FirstStatus(r.tool)]
          /\ request' = [request EXCEPT ![b] = AsStored(r)]
          /\ answers' = answers \union {<<r, b>>}
    BY <1>7 DEF InsertCommand
  <2>2. /\ Stored(b)' /\ request'[b] = AsStored(r)
        /\ \A d \in CmdId \ {b} : status'[d] = status[d] /\ request'[d] = request[d]
    BY <1>0, <2>1 DEF TablesOK, Stored, FirstStatus
  <2>4. ASSUME NEW q \in Requests, NEW c \in CmdId, <<q, c>> \in answers'
        PROVE  Stored(c)' /\ request'[c] \in {q, AsStored(q)'}
    <3>0. AsStored(q)' = AsStored(q)
      BY DEF AsStored
    <3>1. CASE <<q, c>> \in answers
      <4>1. Stored(c) /\ request[c] \in {q, AsStored(q)}
        BY <3>1 DEF AnswersAgree
      <4> QED
        BY <2>1, <2>2, <3>0, <4>1 DEF Stored
    <3>2. CASE q = r /\ c = b
      BY <2>2, <3>0, <3>2
    <3> QED
      BY <2>1, <2>4, <3>1, <3>2
  <2>5. ASSUME NEW q \in Requests, <<q, None>> \in answers'
        PROVE  \E c \in Holders(q.key)' : request'[c] /= q
    <3>1. <<q, None>> \in answers
      BY <2>1, <2>5, NoneAssumption
    <3>2. PICK c \in Holders(q.key) : request[c] /= q
      BY <3>1 DEF AnswersAgree
    <3>3. c \in Holders(q.key)' /\ request'[c] = request[c]
      BY <2>1, <2>2, <3>2 DEF Holders, Stored
    <3> QED
      BY <3>2, <3>3
  <2> QED
    BY <2>4, <2>5 DEF AnswersAgree
<1>3. ASSUME NEW t \in Task, CreateReplay(t) PROVE AnswersAgree'
  <2>1. PICK r \in Requests, c \in CmdId :
          /\ c \in Holders(r.key)
          /\ request[c] = r /\ answers' = answers \union {<<r, c>>}
          /\ UNCHANGED <<status, request>>
    BY <1>3 DEF CreateReplay, Arrives, SameRequest, Holders
  <2>2. c \in CmdId /\ c /= None /\ Stored(c)
    BY <2>1, NoneAssumption DEF Holders
  <2>3. \A q \in Requests, d \in CmdId : <<q, d>> \in answers' =>
          Stored(d) /\ request[d] \in {q, AsStored(q)}
    BY <2>1, <2>2 DEF AnswersAgree
  <2>4. \A q \in Requests : <<q, None>> \in answers' => <<q, None>> \in answers
    BY <2>1, <2>2
  <2> QED
    BY <2>1, <2>3, <2>4 DEF AnswersAgree, Holders, Stored, AsStored
<1>4. ASSUME NEW t \in Task, CreateConflict(t) PROVE AnswersAgree'
  <2>1. PICK r \in Requests, c \in CmdId :
          /\ c \in Holders(r.key)
          /\ request[c] /= r /\ answers' = answers \union {<<r, None>>}
          /\ UNCHANGED <<status, request>>
    BY <1>4 DEF CreateConflict, Arrives, SameRequest, Holders
  <2>2. \A q \in Requests, d \in CmdId : <<q, d>> \in answers' => <<q, d>> \in answers
    BY <2>1, NoneAssumption
  <2>3. \A q \in Requests : <<q, None>> \in answers' =>
          \E d \in Holders(q.key) : request[d] /= q
    BY <2>1 DEF AnswersAgree
  <2> QED
    BY <2>1, <2>2, <2>3 DEF AnswersAgree, Holders, Stored, AsStored
<1>5. CASE /\ ~UNCHANGED vars
           /\ \A t \in Task : ~(InsertCommand(t) \/ CreateReplay(t) \/ CreateConflict(t))
  <2>1. request' = request /\ \A c \in CmdId : Stored(c)' <=> Stored(c)
    BY <1>5, OnlyInsertAdds
  <2>2. answers' = answers
    BY <1>5 DEF Next, Task, Create, CreateNew, Read, Hello, AcceptResult, Continue,
      InsertApproval, RecordAudit, CheckExpiry, GetApproval, UpdateApproval, UpdateCommand,
      TryDispatch, ReadApproval, Send, ListPending, SaveResult, Disconnect, Tick, Restart,
      QueryError
  <2> QED
    BY <1>1, <2>1, <2>2
<1>6. CASE UNCHANGED vars
  BY <1>1, <1>6 DEF vars, Stored
<1> QED
  BY <1>2, <1>3, <1>4, <1>5, <1>6, <1>7

(* RetryIsRecognised for the bodies that the store keeps as they are.      *)
RetryAsStoredIsRecognised ==
  \A r \in Requests, c \in CmdId :
    AsStored(r) = r /\ <<r, c>> \in answers => <<r, None>> \notin answers

(* With either store: once a body that the store keeps as it is was        *)
(* answered with its command, no identical retry is ever refused.          *)
THEOREM RetriesAsStoredAreRecognised == Spec => []RetryAsStoredIsRecognised
<1>1. Init => AnswersAgree
  BY DEF Init, AnswersAgree
<1>2. TypeOK /\ KeyReserved /\ AnswersAgree /\ [Next]_vars => AnswersAgree'
  BY AnswersStep
<1>3. OneCommandPerKey /\ AnswersAgree => RetryAsStoredIsRecognised
  BY DEF OneCommandPerKey, AnswersAgree, RetryAsStoredIsRecognised, Holders
<1> QED
  BY <1>1, <1>2, <1>3, TypeCorrect, KeyNamesOneCommand, KeysReserved, PTL DEF Spec

(* So no retry is, where expiresAt comes back as it was sent: from the     *)
(* memory store, or when every client writes it in canonical form.         *)
THEOREM RetriesAreRecognised ==
  ASSUME Adapter = "memory" \/ \A r \in Requests : r.form = "canonical"
  PROVE  Spec => []RetryIsRecognised
<1>1. ASSUME NEW r \in Requests PROVE AsStored(r) = r
  BY RequestsAssumption DEF AsStored, Request
<1>2. RetryAsStoredIsRecognised => RetryIsRecognised
  BY <1>1 DEF RetryAsStoredIsRecognised, RetryIsRecognised
<1> QED
  BY <1>2, RetriesAsStoredAreRecognised, PTL
-----------------------------------------------------------------------------
(* As long as no fault has been counted, none happens.                      *)
LEMMA FaultFree ==
  ASSUME TypeOK, faults' = 0, [Next]_vars
  PROVE  faults = 0 /\ ~Restart /\ \A t \in Task : ~QueryError(t)
<1>1. faults \in 0..MaxFaults /\ MaxFaults \in Nat
  BY BoundsAssumption DEF TypeOK, TablesOK
<1>2. ~Restart /\ \A t \in Task : ~QueryError(t)
  BY <1>1 DEF Restart, QueryError, Fault
<1> QED
  BY <1>2 DEF Next, vars, Task, history, Create, CreateNew, CreateReplay,
    CreateConflict, Arrives, Read, Hello, AcceptResult, Continue, InsertCommand,
    InsertApproval, RecordAudit, CheckExpiry, GetApproval, UpdateApproval,
    UpdateCommand, TryDispatch, ReadApproval, Send, ListPending, SaveResult,
    Disconnect, Tick

(* Until a fault, a handler that owes the log an event records it.         *)

Owes(x, kind) ==
  \/ kind = "created" /\ x.pc \in {"insertApproval", "created"}
  \/ kind = "approved" /\ x.seen = "queued" /\ x.pc \in {"updateApproval", "update", "audit"}
  \/ kind = "denied" /\ x.seen = "cancelled" /\ x.pc = "audit"
  \/ kind \in Status \ {"queued", "cancelled"} /\ x.seen = kind /\ x.pc = "audit"

Recorded(c, kind) ==
  <<c, kind>> \in audit \/ \E t \in Task : h[t].id = c /\ Owes(h[t], kind)

Outcome == {"running", "succeeded", "failed", "expired"}

OutcomesRecorded ==
  /\ \A c \in CmdId : Stored(c) => Recorded(c, "created")
  /\ \A c \in CmdId, b \in BOOLEAN : <<c, b>> \in consent => Recorded(c, "approved")
  /\ \A c \in CmdId : c \in sent => Recorded(c, "dispatched")
  /\ \A c \in CmdId, kind \in Outcome : status[c] = kind => Recorded(c, kind)
  /\ \A c \in CmdId : status[c] = "cancelled" => Recorded(c, "denied")
  /\ \A t \in Task : h[t].pc = "send" => h[t].seen = "dispatched"

LEMMA RecordedStays ==
  ASSUME TypeOK, Next, faults' = 0, NEW c \in CmdId, NEW kind, Recorded(c, kind)
  PROVE  Recorded(c, kind)'
<1> USE DEF store, network, history
<1>0. h \in [Task -> Handler] /\ \A t \in Task : h[t] \in Handler
  BY DEF TypeOK, HandlersOK
<1>1. ~Restart /\ \A t \in Task : ~QueryError(t)
  BY FaultFree
<1>2. audit \subseteq audit'
  <2>1. ASSUME NEW t \in Task, RecordAudit(t) PROVE audit \subseteq audit'
    BY <2>1 DEF RecordAudit
  <2>2. ASSUME \A t \in Task : ~RecordAudit(t) PROVE audit' = audit
    BY <1>1, <2>2 DEF Next, Task, Create, CreateNew, CreateReplay, CreateConflict, Arrives,
      Read, Hello, AcceptResult, Continue, InsertCommand, InsertApproval, CheckExpiry,
      GetApproval, UpdateApproval, UpdateCommand, TryDispatch, ReadApproval, Send,
      ListPending, SaveResult, Disconnect, Tick
  <2> QED
    BY <2>1, <2>2
<1>3. CASE <<c, kind>> \in audit
  BY <1>2, <1>3 DEF Recorded
<1>4. ASSUME NEW t \in Task, h[t].id = c, Owes(h[t], kind)
      PROVE  Recorded(c, kind)'
  <2>1. h[t].pc \in {"insertApproval", "created", "updateApproval", "update", "audit"}
    BY <1>4 DEF Owes
  <2>2. CASE h'[t] = h[t]
    BY <1>4, <2>2 DEF Recorded, Owes
  <2>3. CASE h'[t] /= h[t]
    <3>1. Continue(t)
      <4>1. \A u \in Task : u /= t => h'[t] = h[t] \/
              ~(Create(u) \/ Read(u) \/ Hello(u) \/ AcceptResult(u) \/ Continue(u))
        BY OthersStay
      <4>2. ~(Create(t) \/ Read(t) \/ Hello(t) \/ AcceptResult(t))
        BY <2>1 DEF Create, CreateNew, CreateReplay, CreateConflict, Arrives, Read, Hello,
                    AcceptResult, At
      <4>3. (\E d \in Device : Disconnect(d)) \/ Tick => h' = h
        BY DEF Disconnect, Tick
      <4> QED
        BY <1>1, <2>3, <4>1, <4>2, <4>3 DEF Next, Task
    <3>2. CASE InsertApproval(t)
      <4>1. h'[t].pc = "created" /\ h'[t].id = c /\ kind = "created"
        BY <1>0, <1>4, <3>2 DEF InsertApproval, At, Owes, Handler
      <4> QED
        BY <4>1 DEF Recorded, Owes
    <3>3. CASE RecordAudit(t)
      <4>1. AuditKind(t) = kind
        <5>1. CASE h[t].pc = "created"
          BY <1>4, <5>1 DEF AuditKind, Owes
        <5>2. CASE h[t].pc = "audit" /\ h[t].seen = "queued"
          BY <1>4, <5>2 DEF AuditKind, Owes
        <5>3. CASE h[t].pc = "audit" /\ h[t].seen = "cancelled"
          BY <1>4, <5>3 DEF AuditKind, Owes
        <5>4. CASE h[t].pc = "audit" /\ h[t].seen \notin {"queued", "cancelled"}
          BY <1>4, <5>4 DEF AuditKind, Owes
        <5> QED
          BY <3>3, <5>1, <5>2, <5>3, <5>4 DEF RecordAudit, At
      <4> QED
        BY <1>4, <3>3, <4>1 DEF RecordAudit, Recorded
    <3>4. CASE UpdateApproval(t)
      <4>1. /\ h'[t].pc = "update" /\ h'[t].id = c /\ h'[t].seen = h[t].seen
            /\ kind = "approved" /\ h[t].seen = "queued"
        BY <1>0, <1>4, <3>4 DEF UpdateApproval, At, Owes, Handler
      <4> QED
        BY <4>1 DEF Recorded, Owes
    <3>5. CASE UpdateCommand(t)
      <4>1. kind = "approved" /\ h[t].seen = "queued"
        BY <1>4, <3>5 DEF UpdateCommand, At, Owes
      <4>2. h'[t].pc = "audit" /\ h'[t].id = c /\ h'[t].seen = "queued"
        BY <1>0, <1>4, <3>5, <4>1 DEF UpdateCommand, Handler
      <4> QED
        BY <4>1, <4>2 DEF Recorded, Owes
    <3> QED
      BY <2>1, <3>1, <3>2, <3>3, <3>4, <3>5 DEF Continue, InsertCommand, CheckExpiry,
        GetApproval, TryDispatch, ReadApproval, Send, ListPending, SaveResult, At
  <2> QED
    BY <2>2, <2>3
<1> QED
  BY <1>3, <1>4 DEF Recorded

(* A handler that returns is idle or at its next snapshot.                 *)
LEMMA ReturnEnds ==
  ASSUME TypeOK, NEW t \in Task, Return(t)
  PROVE  h'[t].pc \in {"idle", "dispatch"}
<1>1. h \in [Task -> Handler]
  BY DEF TypeOK, HandlersOK
<1>2. CASE h' = [h EXCEPT ![t] = Idle]
  BY <1>1, <1>2 DEF Idle
<1>3. ASSUME NEW p \in h[t].todo,
             h' = [h EXCEPT ![t] = [Idle EXCEPT !.pc = "dispatch", !.id = p[1],
                                      !.seen = p[2], !.todo = h[t].todo \ {p}]]
      PROVE  h'[t].pc = "dispatch"
  BY <1>1, <1>3 DEF Idle
<1> QED
  BY <1>2, <1>3 DEF Return

(* listDispatchableCommands leads to the first snapshot or to the end.     *)
LEMMA ListReaches ==
  ASSUME TypeOK, NEW t \in Task, ListPending(t)
  PROVE  h'[t].pc \in {"idle", "dispatch"}
<1>1. h \in [Task -> Handler]
  BY DEF TypeOK, HandlersOK
<1>2. CASE h' = [h EXCEPT ![t] = Idle]
  BY <1>1, <1>2 DEF Idle
<1>3. CASE h' /= [h EXCEPT ![t] = Idle]
  <2>1. PICK later \in ExpiresLater : ListPending(t)!(later)
    BY DEF ListPending
  <2>2. PICK b \in later :
          \E todo : h' = [h EXCEPT ![t] = [Idle EXCEPT !.pc = "dispatch", !.id = b,
                                            !.seen = status[b], !.todo = todo]]
    BY <1>3, <2>1
  <2> QED
    BY <1>1, <2>2 DEF Idle
<1> QED
  BY <1>2, <1>3

(* Only a handler of a dispatched command comes to send it.                *)
LEMMA ReachesSend ==
  ASSUME TypeOK, NEW t \in Task, h'[t].pc = "send",
         \/ Create(t) \/ Read(t) \/ Hello(t) \/ AcceptResult(t)
         \/ Continue(t) /\ ~UpdateCommand(t)
  PROVE  h'[t].seen = "dispatched"
<1>0. h \in [Task -> Handler] /\ h[t] \in Handler
  BY DEF TypeOK, HandlersOK
<1>1. ~Return(t)
  BY ReturnEnds
<1>2. CASE Create(t) \/ Hello(t)
  <2>1. ASSUME NEW pc, NEW arg, h' = [h EXCEPT ![t].pc = pc, ![t].arg = arg]
        PROVE  h'[t].pc = pc
    BY <1>0, <2>1 DEF Handler
  <2>2. ASSUME NEW c, NEW s, h' = [h EXCEPT ![t].pc = "check", ![t].id = c, ![t].seen = s]
        PROVE  h'[t].pc = "check"
    BY <1>0, <2>2 DEF Handler
  <2>3. CASE CreateConflict(t)
    BY <2>3 DEF CreateConflict, Arrives, At
  <2> QED
    BY <1>2, <2>1, <2>2, <2>3 DEF Create, CreateNew, CreateReplay, Hello
<1>3. CASE Read(t)
  <2>1. PICK c \in CmdId :
          h' = [h EXCEPT ![t].pc = "check", ![t].id = c, ![t].seen = status[c]]
    BY <1>3 DEF Read
  <2>2. h'[t].pc = "check"
    BY <1>0, <2>1 DEF Handler
  <2> QED
    BY <2>2
<1>4. CASE AcceptResult(t)
  <2>1. PICK c \in sent, result \in ResultStatus :
          h' = [h EXCEPT ![t].pc = "save", ![t].id = c, ![t].seen = result]
    BY <1>4 DEF AcceptResult
  <2>2. h'[t].pc = "save"
    BY <1>0, <2>1 DEF Handler
  <2> QED
    BY <2>2
<1>5. CASE InsertCommand(t)
  <2>1. CASE h' = [h EXCEPT ![t] = Idle]
    BY <1>0, <2>1 DEF Idle
  <2>2. CASE h' /= [h EXCEPT ![t] = Idle]
    <3>1. PICK b \in CmdId :
            h' = [h EXCEPT ![t] = [Idle EXCEPT !.id = b,
                       !.seen = FirstStatus(h[t].arg.tool),
                       !.pc = IF ApprovalRequired(h[t].arg.tool)
                              THEN "insertApproval" ELSE "created"]]
      BY <1>5, <2>2 DEF InsertCommand
    <3>2. h'[t].pc \in {"insertApproval", "created"}
      BY <1>0, <3>1 DEF Idle
    <3> QED
      BY <3>2
  <2> QED
    BY <2>1, <2>2
<1>6. CASE InsertApproval(t) \/ UpdateApproval(t) \/ SaveResult(t)
  BY <1>0, <1>6 DEF InsertApproval, UpdateApproval, SaveResult, Handler
<1>7. CASE RecordAudit(t) \/ CheckExpiry(t)
  BY <1>0, <1>1, <1>7 DEF RecordAudit, CheckExpiry, Expire, Handler
<1>8. CASE GetApproval(t)
  BY <1>0, <1>8 DEF GetApproval, Handler, Idle
<1>9. CASE TryDispatch(t)
  BY <1>0, <1>1, <1>9 DEF TryDispatch, Expire, Handler, Dispatchable
<1>10. CASE ReadApproval(t)
  BY <1>0, <1>1, <1>10 DEF ReadApproval, Handler
<1>11. CASE ListPending(t)
  BY <1>0, <1>11, ListReaches
<1>12. CASE Send(t)
  <2>1. h' = [h EXCEPT ![t].pc = "audit"] => h'[t].pc = "audit"
    BY <1>0 DEF Handler
  <2> QED
    BY <1>1, <1>12, <2>1 DEF Send
<1> QED
  BY <1>2, <1>3, <1>4, <1>5, <1>6, <1>7, <1>8, <1>9, <1>10, <1>11, <1>12 DEF Continue

LEMMA OutcomesStep ==
  ASSUME TypeOK, OutcomesRecorded, faults' = 0, Next
  PROVE  OutcomesRecorded'
<1> USE DEF store, network, history
<1>0. /\ TablesOK /\ h \in [Task -> Handler] /\ \A t \in Task : h[t] \in Handler
      /\ TablesOK'
  BY TypeStep DEF TypeOK, HandlersOK
<1>1. ~Restart /\ \A t \in Task : ~QueryError(t)
  BY FaultFree
<1>2. \A c \in CmdId : \A kind : Recorded(c, kind) => Recorded(c, kind)'
  BY RecordedStays
<1>3. ASSUME NEW t \in Task, \A u \in Task \ {t} : h'[u] = h[u],
             h'[t].pc = "send" => h'[t].seen = "dispatched",
             \A c \in CmdId : Stored(c)' => Stored(c) \/ Recorded(c, "created")',
             \A c \in CmdId, b \in BOOLEAN :
               <<c, b>> \in consent' => <<c, b>> \in consent \/ Recorded(c, "approved")',
             \A c \in CmdId : c \in sent' => c \in sent \/ Recorded(c, "dispatched")',
             \A c \in CmdId, kind \in Outcome :
               status'[c] = kind => status[c] = kind \/ Recorded(c, kind)',
             \A c \in CmdId :
               status'[c] = "cancelled" => status[c] = "cancelled" \/ Recorded(c, "denied")'
      PROVE  OutcomesRecorded'
  <2>1. \A u \in Task : h'[u].pc = "send" => h'[u].seen = "dispatched"
    BY <1>3 DEF OutcomesRecorded
  <2> QED
    BY <1>2, <1>3, <2>1 DEF OutcomesRecorded
<1>4. ASSUME NEW t \in Task, InsertCommand(t) PROVE OutcomesRecorded'
  <2>1. UNCHANGED <<sent, consent>> /\ \A u \in Task \ {t} : h'[u] = h[u]
    BY <1>4, OthersStay DEF InsertCommand, Continue
  <2>2. CASE UNCHANGED store
    <3>1. h'[t].pc = "send" => h'[t].seen = "dispatched"
      BY <1>4, ReachesSend DEF Continue, InsertCommand, UpdateCommand, At
    <3> QED
      BY <1>3, <2>1, <2>2, <3>1 DEF Stored
  <2>3. CASE ~UNCHANGED store
    <3>1. PICK b \in CmdId :
            /\ ~Stored(b) /\ status' = [status EXCEPT ![b] = FirstStatus(h[t].arg.tool)]
            /\ h' = [h EXCEPT ![t] = [Idle EXCEPT !.id = b,
                       !.seen = FirstStatus(h[t].arg.tool),
                       !.pc = IF ApprovalRequired(h[t].arg.tool)
                              THEN "insertApproval" ELSE "created"]]
      BY <1>4, <2>3 DEF InsertCommand
    <3>2. h'[t].id = b /\ h'[t].pc \in {"insertApproval", "created"}
      BY <1>0, <3>1 DEF Idle
    <3>3. Recorded(b, "created")'
      BY <3>2 DEF Recorded, Owes
    <3>4. /\ status'[b] \in {"queued", "awaiting_approval"}
          /\ \A d \in CmdId \ {b} : status'[d] = status[d]
      BY <1>0, <3>1 DEF TablesOK, FirstStatus
    <3>5. \A c \in CmdId : Stored(c)' => Stored(c) \/ Recorded(c, "created")'
      BY <3>3, <3>4 DEF Stored
    <3>6. \A c \in CmdId, kind \in Outcome \union {"cancelled"} :
            status'[c] = kind => status[c] = kind
      BY <3>4 DEF Outcome
    <3> QED
      BY <1>3, <2>1, <3>2, <3>5, <3>6
  <2> QED
    BY <2>2, <2>3
<1>5. ASSUME NEW t \in Task, GetApproval(t) PROVE OutcomesRecorded'
  <2> DEFINE c == h[t].id
  <2>1. UNCHANGED <<store, sent>> /\ \A u \in Task \ {t} : h'[u] = h[u]
    BY <1>5, OthersStay DEF GetApproval, Continue
  <2>2. CASE h' = [h EXCEPT ![t] = Idle] /\ UNCHANGED consent
    <3>1. h'[t].pc = "idle"
      BY <1>0, <2>2 DEF Idle
    <3> QED
      BY <1>3, <2>1, <2>2, <3>1 DEF Stored
  <2>3. ASSUME NEW approve \in BOOLEAN, NEW biometric \in BOOLEAN,
               /\ h' = [h EXCEPT ![t].pc = "updateApproval",
                   ![t].held = [approval[c] EXCEPT
                     !.decision = IF approve THEN "approved" ELSE "denied"],
                   ![t].seen = IF approve THEN "queued" ELSE "cancelled"]
               /\ consent' = IF approve THEN consent \union {<<c, biometric>>}
                                        ELSE consent
        PROVE  OutcomesRecorded'
    <3>1. /\ h'[t].pc = "updateApproval" /\ h'[t].id = c
          /\ approve => h'[t].seen = "queued"
      BY <1>0, <2>3 DEF Handler
    <3>2. \A b \in CmdId, o \in BOOLEAN :
            <<b, o>> \in consent' => <<b, o>> \in consent \/ Recorded(b, "approved")'
      <4> SUFFICES ASSUME NEW b \in CmdId, NEW o \in BOOLEAN, <<b, o>> \in consent',
                          <<b, o>> \notin consent
                   PROVE  Recorded(b, "approved")'
        OBVIOUS
      <4>1. approve /\ b = c
        BY <2>3
      <4> QED
        BY <3>1, <4>1 DEF Recorded, Owes
    <3> QED
      BY <1>3, <2>1, <3>1, <3>2 DEF Stored
  <2> QED
    BY <1>5, <2>2, <2>3 DEF GetApproval
<1>6. ASSUME NEW t \in Task, UpdateCommand(t) PROVE OutcomesRecorded'
  <2>1. PICK c \in CmdId : c = h[t].id /\ Stored(c) /\ h[t].seen \in Status
    BY <1>6 DEF UpdateCommand, At, TypeOK, HandlersOK, HandlerOK
  <2>2. /\ status' = [status EXCEPT ![c] = h[t].seen] /\ UNCHANGED <<sent, consent>>
        /\ h'[t].id = c /\ h'[t].seen = h[t].seen
        /\ h'[t].pc = IF h[t].seen = "dispatched" THEN "send" ELSE "audit"
    BY <1>0, <1>6, <2>1 DEF UpdateCommand, Handler
  <2>3. status'[c] = h[t].seen /\ \A d \in CmdId \ {c} : status'[d] = status[d]
    BY <1>0, <2>1, <2>2 DEF TablesOK
  <2>4. \A kind \in Outcome : h[t].seen = kind => Recorded(c, kind)'
    BY <2>2 DEF Recorded, Owes, Outcome, Status, Terminal
  <2>5. h[t].seen = "cancelled" => Recorded(c, "denied")'
    BY <2>2 DEF Recorded, Owes
  <2>6. \A d \in CmdId : Stored(d)' => Stored(d)
    BY <2>1, <2>3 DEF Stored
  <2>7. \A u \in Task \ {t} : h'[u] = h[u]
    BY <1>6, OthersStay DEF Continue
  <2> QED
    BY <1>3, <2>2, <2>3, <2>4, <2>5, <2>6, <2>7
<1>7. ASSUME NEW t \in Task, Send(t) PROVE OutcomesRecorded'
  <2> DEFINE c == h[t].id
  <2>1. /\ UNCHANGED <<store, consent>> /\ h[t].pc = "send" /\ h[t].seen = "dispatched"
        /\ \A u \in Task \ {t} : h'[u] = h[u]
    BY <1>7, OthersStay DEF Send, At, OutcomesRecorded, Continue
  <2>2. CASE sent' = sent \union {c} /\ h' = [h EXCEPT ![t].pc = "audit"]
    <3>1. h'[t].pc = "audit" /\ h'[t].id = c /\ h'[t].seen = "dispatched"
      BY <1>0, <2>1, <2>2 DEF Handler
    <3>2. \A b \in CmdId : b \in sent' => b \in sent \/ Recorded(b, "dispatched")'
      BY <2>2, <3>1 DEF Recorded, Owes, Status
    <3> QED
      BY <1>3, <2>1, <3>1, <3>2 DEF Stored
  <2>3. CASE Return(t) /\ sent' = sent
    BY <1>3, <2>1, <2>3, ReturnEnds DEF Stored
  <2> QED
    BY <1>7, <2>2, <2>3 DEF Send
<1>8. ASSUME NEW t \in Task,
             \/ Create(t) \/ Read(t) \/ Hello(t) \/ AcceptResult(t)
             \/ /\ Continue(t)
                /\ ~(InsertCommand(t) \/ GetApproval(t) \/ UpdateCommand(t) \/ Send(t))
      PROVE  OutcomesRecorded'
  <2>1. UNCHANGED <<status, sent, consent>>
    BY <1>8 DEF Create, CreateNew, CreateReplay, CreateConflict, Arrives, Read, Hello,
      AcceptResult, Continue, InsertApproval, RecordAudit, CheckExpiry, UpdateApproval,
      TryDispatch, ReadApproval, ListPending, SaveResult
  <2>2. \A u \in Task \ {t} : h'[u] = h[u]
    BY <1>8, OthersStay
  <2>3. h'[t].pc = "send" => h'[t].seen = "dispatched"
    BY <1>8, ReachesSend DEF OutcomesRecorded
  <2> QED
    BY <1>3, <2>1, <2>2, <2>3 DEF Stored
<1>9. ASSUME (\E d \in Device : Disconnect(d)) \/ Tick PROVE OutcomesRecorded'
  <2>1. UNCHANGED <<status, sent, consent, h>>
    BY <1>9 DEF Disconnect, Tick
  <2> QED
    BY <1>2, <2>1 DEF OutcomesRecorded, Stored
<1> QED
  BY <1>1, <1>4, <1>5, <1>6, <1>7, <1>8, <1>9 DEF Next, Task

(* Until a fault, finished handlers have recorded what became of every     *)
(* command, and the approval behind everything sent: whatever has raced, a *)
(* gap in the log is the trace of a restart or of a failing query.         *)
THEOREM AuditedUntilFault == Spec => [](faults = 0 => EveryOutcomeAudited)
<1>1. Init => OutcomesRecorded
  BY DEF Init, OutcomesRecorded, Outcome, Stored, Idle
<1>2. TypeOK /\ (faults = 0 => OutcomesRecorded) /\ [Next]_vars
      => (faults = 0 => OutcomesRecorded)'
  <2> SUFFICES ASSUME TypeOK, faults = 0 => OutcomesRecorded, [Next]_vars, faults' = 0
               PROVE  OutcomesRecorded'
    OBVIOUS
  <2>1. OutcomesRecorded
    BY FaultFree
  <2>2. CASE UNCHANGED vars
    BY <2>1, <2>2 DEF OutcomesRecorded, Recorded, Owes, Stored, vars, store, network, history
  <2> QED
    BY <2>1, <2>2, OutcomesStep
<1>3. TypeOK /\ OutcomesRecorded /\ ConsentBeforeDispatch => EveryOutcomeAudited
  <2> SUFFICES ASSUME TypeOK, OutcomesRecorded, ConsentBeforeDispatch, Quiet, NEW c \in CmdId
               PROVE  /\ status[c] \in {"running", "succeeded", "failed", "expired"} =>
                           <<c, status[c]>> \in audit
                      /\ status[c] = "cancelled" => <<c, "denied">> \in audit
                      /\ c \in sent =>
                           {<<c, "created">>, <<c, "dispatched">>} \subseteq audit
                      /\ c \in sent /\ ApprovalRequired(ToolOf(c)) =>
                           <<c, "approved">> \in audit
    BY DEF EveryOutcomeAudited
  <2>1. \A kind : Recorded(c, kind) => <<c, kind>> \in audit
    BY DEF Quiet, Recorded, Owes, Idle
  <2>2. c \in sent => Stored(c)
    BY DEF TypeOK, TablesOK
  <2> QED
    BY <2>1, <2>2 DEF OutcomesRecorded, Outcome, ConsentBeforeDispatch, Consented
<1> QED
  BY <1>1, <1>2, <1>3, TypeCorrect, ConsentPrecedesDispatch, PTL DEF Spec

(* A database that refuses no query and a server that stays up: every gap  *)
(* in the log is ruled out.                                                *)
THEOREM OutcomesAreAudited ==
  ASSUME Faults = {}
  PROVE  Spec => []EveryOutcomeAudited
BY NoFaults, AuditedUntilFault, PTL
-----------------------------------------------------------------------------
(* Until a fault, a command that awaits approval has a pending one, or a   *)
(* handler that inserts it or moves the command on.                        *)

WritesOn(x) == x.pc \in {"updateApproval", "update", "save"} => x.seen /= "awaiting_approval"

AwaitingHandled ==
  /\ \A c \in CmdId : status[c] = "awaiting_approval" =>
       \/ approval[c].decision = "pending"
       \/ \E t \in Task : h[t].id = c /\ h[t].pc \in {"insertApproval", "update"}
  /\ \A t \in Task : WritesOn(h[t])

(* No handler comes to write "awaiting_approval" over a status.            *)
LEMMA NeverAwaitsAgain ==
  ASSUME TypeOK, NEW t \in Task, WritesOn(h[t]),
         Create(t) \/ Read(t) \/ Hello(t) \/ AcceptResult(t) \/ Continue(t)
  PROVE  WritesOn(h[t])'
<1>0. h \in [Task -> Handler] /\ h[t] \in Handler /\ HandlerOK(h[t])
  BY DEF TypeOK, HandlersOK
<1>1. CASE h'[t].pc \in {"idle", "dispatch", "insert", "list", "check", "insertApproval",
                         "created"}
  BY <1>1 DEF WritesOn
<1>2. CASE Return(t)
  BY <1>1, <1>2, ReturnEnds
<1>3. CASE ListPending(t)
  BY <1>1, <1>3, ListReaches
<1>4. CASE Create(t) \/ Read(t) \/ Hello(t)
  <2>1. ASSUME NEW pc, NEW arg, h' = [h EXCEPT ![t].pc = pc, ![t].arg = arg]
        PROVE  h'[t].pc = pc
    BY <1>0, <2>1 DEF Handler
  <2>2. ASSUME NEW c, NEW s, h' = [h EXCEPT ![t].pc = "check", ![t].id = c, ![t].seen = s]
        PROVE  h'[t].pc = "check"
    BY <1>0, <2>2 DEF Handler
  <2>3. CASE CreateConflict(t)
    BY <1>1, <2>3 DEF CreateConflict, Arrives, At
  <2> QED
    BY <1>1, <1>4, <2>1, <2>2, <2>3 DEF Create, CreateNew, CreateReplay, Read, Hello
<1>5. CASE AcceptResult(t)
  <2>1. PICK c \in sent, result \in ResultStatus :
          h' = [h EXCEPT ![t].pc = "save", ![t].id = c, ![t].seen = result]
    BY <1>5 DEF AcceptResult
  <2>2. h'[t].seen = result
    BY <1>0, <2>1 DEF Handler
  <2> QED
    BY <2>2 DEF WritesOn, ResultStatus
<1>6. CASE InsertCommand(t)
  <2>1. CASE h' = [h EXCEPT ![t] = Idle]
    <3>1. h'[t].pc = "idle"
      BY <1>0, <2>1 DEF Idle
    <3> QED
      BY <1>1, <3>1
  <2>2. CASE h' /= [h EXCEPT ![t] = Idle]
    <3>1. PICK b \in CmdId :
            h' = [h EXCEPT ![t] = [Idle EXCEPT !.id = b,
                       !.seen = FirstStatus(h[t].arg.tool),
                       !.pc = IF ApprovalRequired(h[t].arg.tool)
                              THEN "insertApproval" ELSE "created"]]
      BY <1>6, <2>2 DEF InsertCommand
    <3>2. h'[t].pc \in {"insertApproval", "created"}
      BY <1>0, <3>1 DEF Idle
    <3> QED
      BY <1>1, <3>2
  <2> QED
    BY <2>1, <2>2
<1>7. CASE InsertApproval(t)
  BY <1>0, <1>7 DEF InsertApproval, Handler, WritesOn
<1>8. CASE RecordAudit(t)
  BY <1>0, <1>2, <1>8 DEF RecordAudit, Handler, WritesOn
<1>9. CASE CheckExpiry(t)
  BY <1>0, <1>2, <1>9 DEF CheckExpiry, Expire, Handler, WritesOn
<1>10. CASE GetApproval(t)
  BY <1>0, <1>10 DEF GetApproval, Handler, Idle, WritesOn
<1>11. CASE UpdateApproval(t) \/ SaveResult(t)
  <2>1. h[t].pc \in {"updateApproval", "save"} /\ h' = [h EXCEPT ![t].pc = "update"]
    BY <1>11 DEF UpdateApproval, SaveResult, At
  <2>2. h'[t].seen = h[t].seen
    BY <1>0, <2>1 DEF Handler
  <2> QED
    BY <2>1, <2>2 DEF WritesOn
<1>12. CASE UpdateCommand(t)
  BY <1>0, <1>12 DEF UpdateCommand, Handler, WritesOn
<1>13. CASE TryDispatch(t)
  BY <1>0, <1>2, <1>13 DEF TryDispatch, Expire, Dispatchable, Handler, WritesOn
<1>14. CASE ReadApproval(t)
  BY <1>0, <1>2, <1>14 DEF ReadApproval, Handler, WritesOn
<1>15. CASE Send(t)
  BY <1>0, <1>2, <1>15 DEF Send, Handler, WritesOn
<1> QED
  BY <1>3, <1>4, <1>5, <1>6, <1>7, <1>8, <1>9, <1>10, <1>11, <1>12, <1>13, <1>14, <1>15
  DEF Continue

LEMMA AwaitingStep ==
  ASSUME TypeOK, AwaitingHandled, faults' = 0, Next
  PROVE  AwaitingHandled'
<1> USE DEF store, network, history
<1>0. TablesOK /\ h \in [Task -> Handler] /\ \A t \in Task : h[t] \in Handler /\ HandlerOK(h[t])
  BY DEF TypeOK, HandlersOK
<1>1. ~Restart /\ \A t \in Task : ~QueryError(t)
  BY FaultFree
<1>2. CASE (\E d \in Device : Disconnect(d)) \/ Tick
  BY <1>2 DEF Disconnect, Tick, AwaitingHandled, WritesOn
<1>3. ASSUME NEW t \in Task,
             Create(t) \/ Read(t) \/ Hello(t) \/ AcceptResult(t) \/ Continue(t)
      PROVE  AwaitingHandled'
  <2>1. \A u \in Task \ {t} : h'[u] = h[u]
    BY <1>3, OthersStay
  <2>2. \A u \in Task : WritesOn(h[u])'
    <3>1. WritesOn(h[t])'
      BY <1>3, NeverAwaitsAgain DEF AwaitingHandled
    <3> QED
      BY <2>1, <3>1 DEF AwaitingHandled, WritesOn
  <2> SUFFICES ASSUME NEW c \in CmdId, status'[c] = "awaiting_approval",
                      approval'[c].decision /= "pending"
               PROVE  \E u \in Task : h'[u].id = c /\ h'[u].pc \in {"insertApproval", "update"}
    BY <2>2 DEF AwaitingHandled
  <2>3. ASSUME status[c] = "awaiting_approval", approval[c].decision /= "pending",
               h[t].id = c => h[t].pc \notin {"insertApproval", "update"}
        PROVE  \E u \in Task : h'[u].id = c /\ h'[u].pc \in {"insertApproval", "update"}
    BY <2>1, <2>3 DEF AwaitingHandled
  <2>4. CASE InsertCommand(t)
    <3>1. h[t].pc = "insert" /\ UNCHANGED approval
      BY <2>4 DEF InsertCommand, At
    <3>2. CASE UNCHANGED status
      BY <2>3, <3>1, <3>2
    <3>3. CASE ~UNCHANGED status
      <4>1. PICK b \in CmdId :
              /\ status' = [status EXCEPT ![b] = FirstStatus(h[t].arg.tool)]
              /\ h' = [h EXCEPT ![t] = [Idle EXCEPT !.id = b,
                         !.seen = FirstStatus(h[t].arg.tool),
                         !.pc = IF ApprovalRequired(h[t].arg.tool)
                                THEN "insertApproval" ELSE "created"]]
        BY <2>4, <3>3 DEF InsertCommand
      <4>2. CASE c = b
        <5>1. ApprovalRequired(h[t].arg.tool)
          BY <1>0, <4>1, <4>2 DEF FirstStatus, TablesOK
        <5>2. h'[t].id = c /\ h'[t].pc = "insertApproval"
          BY <1>0, <4>1, <4>2, <5>1 DEF Idle
        <5> QED
          BY <5>2
      <4>3. CASE c /= b
        <5>1. status[c] = "awaiting_approval"
          BY <1>0, <4>1, <4>3 DEF TablesOK
        <5> QED
          BY <2>3, <3>1, <5>1
      <4> QED
        BY <4>2, <4>3
    <3> QED
      BY <3>2, <3>3
  <2>5. CASE InsertApproval(t)
    <3>1. /\ approval' = [approval EXCEPT ![h[t].id].decision = "pending"]
          /\ UNCHANGED status /\ h[t].pc = "insertApproval" /\ h[t].id \in CmdId
      BY <1>0, <2>5 DEF InsertApproval, At, HandlerOK
    <3>2. h[t].id /= c
      BY <1>0, <3>1 DEF TablesOK, Approval
    <3>3. approval'[c] = approval[c]
      BY <1>0, <3>1, <3>2 DEF TablesOK
    <3> QED
      BY <2>3, <3>1, <3>2, <3>3
  <2>6. CASE UpdateApproval(t)
    <3>1. /\ approval' = [approval EXCEPT ![h[t].id] = h[t].held]
          /\ UNCHANGED status /\ h[t].pc = "updateApproval" /\ h[t].id \in CmdId
      BY <1>0, <2>6 DEF UpdateApproval, At, HandlerOK
    <3>2. CASE h[t].id = c
      <4>1. h'[t].id = c /\ h'[t].pc = "update"
        BY <1>0, <2>6, <3>2 DEF UpdateApproval, Handler
      <4> QED
        BY <4>1
    <3>3. CASE h[t].id /= c
      BY <1>0, <2>3, <3>1, <3>3 DEF TablesOK
    <3> QED
      BY <3>2, <3>3
  <2>7. CASE UpdateCommand(t)
    <3>1. /\ status' = [status EXCEPT ![h[t].id] = h[t].seen]
          /\ UNCHANGED approval /\ h[t].pc = "update" /\ h[t].id \in CmdId
      BY <1>0, <2>7 DEF UpdateCommand, At, HandlerOK
    <3>2. h[t].seen /= "awaiting_approval"
      BY <3>1 DEF AwaitingHandled, WritesOn
    <3>3. h[t].id /= c /\ status[c] = "awaiting_approval"
      BY <1>0, <3>1, <3>2 DEF TablesOK
    <3> QED
      BY <2>3, <3>1, <3>3
  <2>8. CASE ~(InsertCommand(t) \/ InsertApproval(t) \/ UpdateApproval(t) \/ UpdateCommand(t))
    <3>1. /\ UNCHANGED <<status, approval>>
          /\ h[t].pc \notin {"insertApproval", "update"}
      BY <1>3, <2>8 DEF Create, CreateNew, CreateReplay, CreateConflict, Arrives, Read,
        Hello, AcceptResult, Continue, RecordAudit, CheckExpiry, GetApproval, TryDispatch,
        ReadApproval, Send, ListPending, SaveResult, At
    <3> QED
      BY <2>3, <3>1
  <2> QED
    BY <2>4, <2>5, <2>6, <2>7, <2>8
<1> QED
  BY <1>1, <1>2, <1>3 DEF Next, Task

(* Until a fault, however many decisions, polls and expiries race, finished *)
(* handlers leave no command awaiting an approval that is spent or missing. *)
THEOREM DecidableUntilFault == Spec => [](faults = 0 => AwaitingCanBeDecided)
<1>1. Init => AwaitingHandled
  BY DEF Init, AwaitingHandled, WritesOn, Idle
<1>2. TypeOK /\ (faults = 0 => AwaitingHandled) /\ [Next]_vars
      => (faults = 0 => AwaitingHandled)'
  <2> SUFFICES ASSUME TypeOK, faults = 0 => AwaitingHandled, [Next]_vars, faults' = 0
               PROVE  AwaitingHandled'
    OBVIOUS
  <2>1. AwaitingHandled
    BY FaultFree
  <2>2. CASE UNCHANGED vars
    BY <2>1, <2>2 DEF AwaitingHandled, WritesOn, vars, store
  <2> QED
    BY <2>1, <2>2, AwaitingStep
<1>3. AwaitingHandled => AwaitingCanBeDecided
  BY DEF AwaitingHandled, AwaitingCanBeDecided, Quiet, Idle
<1> QED
  BY <1>1, <1>2, <1>3, TypeCorrect, PTL DEF Spec

(* So with a database that refuses no query and a server that stays up.    *)
THEOREM AwaitingIsDecidable ==
  ASSUME Faults = {}
  PROVE  Spec => []AwaitingCanBeDecided
BY NoFaults, DecidableUntilFault, PTL
-----------------------------------------------------------------------------
(* What a handler may yet record is true already, and stays true: accepted *)
(* approvals, sent commands and expired times are never taken back.        *)

Truthful(x) ==
  /\ x.pc = "send" => x.seen = "dispatched"
  /\ x.pc = "updateApproval" => x.seen \in {"queued", "cancelled", "dispatched"}
  /\ x.pc \in {"updateApproval", "update", "audit"} /\ x.seen = "queued" =>
       \E b \in BOOLEAN : <<x.id, b>> \in consent
  /\ x.pc \in {"save", "update", "audit"} /\ x.seen \in ResultStatus => x.id \in sent
  /\ x.pc = "audit" /\ x.seen = "dispatched" => x.id \in sent
  /\ x.pc \in {"update", "audit"} /\ x.seen = "expired" => Expired(x.id)

AuditBacked == AuditIsTrue /\ \A t \in Task : Truthful(h[t])

(* What no step takes back.                                                *)
LEMMA NothingTakenBack ==
  ASSUME TypeOK, [Next]_vars
  PROVE  /\ sent \subseteq sent' /\ consent \subseteq consent'
         /\ \A c \in CmdId : Stored(c) /\ Expired(c) => Expired(c)'
<1> USE DEF store, network, history
<1>0. TablesOK
  BY DEF TypeOK
<1>1. sent \subseteq sent' /\ consent \subseteq consent'
  <2>1. ASSUME NEW t \in Task, Continue(t)
        PROVE  sent \subseteq sent' /\ consent \subseteq consent'
    BY <2>1 DEF Continue, InsertCommand, InsertApproval, RecordAudit, CheckExpiry,
      GetApproval, UpdateApproval, UpdateCommand, TryDispatch, ReadApproval, Send,
      ListPending, SaveResult
  <2>2. CASE UNCHANGED vars
    BY <2>2 DEF vars
  <2>3. CASE Next /\ \A t \in Task : ~Continue(t)
    BY <2>3 DEF Next, Create, CreateNew, CreateReplay, CreateConflict, Arrives, Read, Hello,
      AcceptResult, Disconnect, Tick, Restart, QueryError
  <2> QED
    BY <2>1, <2>2, <2>3
<1>2. now \in Nat /\ now' \in Nat /\ now <= now'
  <2>1. now \in Nat
    BY <1>0, BoundsAssumption DEF TablesOK, Time
  <2>2. now' = now \/ now' = now + 1
    BY DEF Next, vars, Create, CreateNew, CreateReplay, CreateConflict, Arrives, Read,
      Hello, AcceptResult, Disconnect, Tick, Restart, QueryError, Continue, InsertCommand,
      InsertApproval, RecordAudit, CheckExpiry, GetApproval, UpdateApproval, UpdateCommand,
      TryDispatch, ReadApproval, Send, ListPending, SaveResult
  <2> QED
    BY <2>1, <2>2
<1>3. \A c \in CmdId : Stored(c) => request'[c] = request[c]
  <2>1. ASSUME NEW t \in Task, InsertCommand(t), NEW c \in CmdId, Stored(c)
        PROVE  request'[c] = request[c]
    BY <1>0, <2>1 DEF InsertCommand, TablesOK
  <2>2. CASE UNCHANGED vars
    BY <2>2 DEF vars
  <2>3. CASE Next /\ \A t \in Task : ~InsertCommand(t)
    BY <2>3, OnlyInsertAdds
  <2> QED
    BY <2>1, <2>2, <2>3
<1>4. ASSUME NEW c \in CmdId, Stored(c), Expired(c) PROVE Expired(c)'
  <2>1. request[c].at \in Nat /\ request[c].at <= now
    BY <1>0, <1>4, BoundsAssumption DEF TablesOK, Request, Time, Expired, Stored
  <2> QED
    BY <1>2, <1>3, <1>4, <2>1 DEF Expired
<1> QED
  BY <1>1, <1>4

(* The handler that steps.                                                 *)
LEMMA TruthfulStep ==
  ASSUME TypeOK, NEW t \in Task, Truthful(h[t]), Next,
         Create(t) \/ Read(t) \/ Hello(t) \/ AcceptResult(t) \/ Continue(t)
  PROVE  Truthful(h[t])'
<1> USE DEF store, network, history
<1>0. /\ h \in [Task -> Handler] /\ h[t] \in Handler /\ HandlerOK(h[t])
      /\ sent \subseteq sent' /\ consent \subseteq consent'
      /\ \A c \in CmdId : Stored(c) /\ Expired(c) => Expired(c)'
  BY NothingTakenBack DEF TypeOK, HandlersOK
<1>1. CASE h'[t].pc \in {"idle", "dispatch", "insert", "list", "check", "insertApproval",
                         "created", "getApproval", "readApproval"}
  BY <1>1 DEF Truthful
<1>2. CASE Return(t)
  BY <1>1, <1>2, ReturnEnds
<1>3. CASE ListPending(t)
  BY <1>1, <1>3, ListReaches
<1>4. CASE Create(t) \/ Read(t) \/ Hello(t)
  <2>1. ASSUME NEW pc, NEW arg, h' = [h EXCEPT ![t].pc = pc, ![t].arg = arg]
        PROVE  h'[t].pc = pc
    BY <1>0, <2>1 DEF Handler
  <2>2. ASSUME NEW c, NEW s, h' = [h EXCEPT ![t].pc = "check", ![t].id = c, ![t].seen = s]
        PROVE  h'[t].pc = "check"
    BY <1>0, <2>2 DEF Handler
  <2>3. CASE CreateConflict(t)
    BY <1>1, <2>3 DEF CreateConflict, Arrives, At
  <2> QED
    BY <1>1, <1>4, <2>1, <2>2, <2>3 DEF Create, CreateNew, CreateReplay, Read, Hello
<1>5. CASE AcceptResult(t)
  <2>1. PICK c \in sent, result \in ResultStatus :
          h' = [h EXCEPT ![t].pc = "save", ![t].id = c, ![t].seen = result]
    BY <1>5 DEF AcceptResult
  <2>2. h'[t].pc = "save" /\ h'[t].id = c
    BY <1>0, <2>1 DEF Handler
  <2> QED
    BY <1>0, <2>2 DEF Truthful
<1>6. CASE InsertCommand(t)
  <2>1. CASE h' = [h EXCEPT ![t] = Idle]
    <3>1. h'[t].pc = "idle"
      BY <1>0, <2>1 DEF Idle
    <3> QED
      BY <1>1, <3>1
  <2>2. CASE h' /= [h EXCEPT ![t] = Idle]
    <3>1. PICK b \in CmdId :
            h' = [h EXCEPT ![t] = [Idle EXCEPT !.id = b,
                       !.seen = FirstStatus(h[t].arg.tool),
                       !.pc = IF ApprovalRequired(h[t].arg.tool)
                              THEN "insertApproval" ELSE "created"]]
      BY <1>6, <2>2 DEF InsertCommand
    <3>2. h'[t].pc \in {"insertApproval", "created"}
      BY <1>0, <3>1 DEF Idle
    <3> QED
      BY <1>1, <3>2
  <2> QED
    BY <2>1, <2>2
<1>7. CASE InsertApproval(t)
  <2>1. h'[t].pc = "created"
    BY <1>0, <1>7 DEF InsertApproval, Handler
  <2> QED
    BY <1>1, <2>1
<1>8. CASE RecordAudit(t)
  <2>1. h' = [h EXCEPT ![t].pc = "dispatch"] => h'[t].pc = "dispatch"
    BY <1>0 DEF Handler
  <2> QED
    BY <1>1, <1>2, <1>8, <2>1 DEF RecordAudit
<1>9. ASSUME h[t].id \in CmdId, Stored(h[t].id), Expired(h[t].id), Expire(t)
      PROVE  Truthful(h[t])'
  <2>1. h'[t].pc = "update" /\ h'[t].seen = "expired" /\ h'[t].id = h[t].id
    BY <1>0, <1>9 DEF Expire, Handler
  <2>2. Expired(h[t].id)'
    BY <1>0, <1>9, <2>1 DEF Expired
  <2> QED
    BY <2>1, <2>2 DEF Truthful, ResultStatus
<1>10. CASE CheckExpiry(t)
  <2>1. h' = [h EXCEPT ![t].pc = "getApproval"] => h'[t].pc = "getApproval"
    BY <1>0 DEF Handler
  <2>2. h[t].id \in CmdId /\ Stored(h[t].id)
    BY <1>0, <1>10 DEF CheckExpiry, At, HandlerOK
  <2> QED
    BY <1>1, <1>2, <1>9, <1>10, <2>1, <2>2 DEF CheckExpiry, Overdue
<1>11. CASE GetApproval(t)
  <2>1. PICK approve \in BOOLEAN, biometric \in BOOLEAN :
          \/ h' = [h EXCEPT ![t] = Idle]
          \/ /\ h' = [h EXCEPT ![t].pc = "updateApproval",
                   ![t].held = [approval[h[t].id] EXCEPT
                     !.decision = IF approve THEN "approved" ELSE "denied"],
                   ![t].seen = IF approve THEN "queued" ELSE "cancelled"]
             /\ approve => <<h[t].id, biometric>> \in consent'
    BY <1>11 DEF GetApproval
  <2>2. CASE h' = [h EXCEPT ![t] = Idle]
    <3>1. h'[t].pc = "idle"
      BY <1>0, <2>2 DEF Idle
    <3> QED
      BY <1>1, <3>1
  <2>3. CASE h' /= [h EXCEPT ![t] = Idle]
    <3>1. /\ h'[t].pc = "updateApproval" /\ h'[t].id = h[t].id
          /\ h'[t].seen = IF approve THEN "queued" ELSE "cancelled"
      BY <1>0, <2>1, <2>3 DEF Handler
    <3>2. h'[t].seen = "queued" => approve
      BY <3>1
    <3> QED
      BY <2>1, <2>3, <3>1, <3>2 DEF Truthful, ResultStatus
  <2> QED
    BY <2>2, <2>3
<1>12. CASE UpdateApproval(t) \/ SaveResult(t)
  <2>1. /\ h[t].pc \in {"updateApproval", "save"} /\ h' = [h EXCEPT ![t].pc = "update"]
        /\ h[t].pc = "save" => h[t].seen \in ResultStatus
    BY <1>0, <1>12 DEF UpdateApproval, SaveResult, At, HandlerOK
  <2>2. h'[t].pc = "update" /\ h'[t].seen = h[t].seen /\ h'[t].id = h[t].id
    BY <1>0, <2>1 DEF Handler
  <2> QED
    BY <1>0, <2>1, <2>2 DEF Truthful, ResultStatus
<1>13. CASE UpdateCommand(t)
  <2>1. /\ h[t].pc = "update" /\ h[t].id \in CmdId /\ Stored(h[t].id)
        /\ h' = [h EXCEPT ![t].pc = IF h[t].seen = "dispatched" THEN "send" ELSE "audit"]
    BY <1>0, <1>13 DEF UpdateCommand, At, HandlerOK
  <2>2. /\ h'[t].pc = IF h[t].seen = "dispatched" THEN "send" ELSE "audit"
        /\ h'[t].seen = h[t].seen /\ h'[t].id = h[t].id
    BY <1>0, <2>1 DEF Handler
  <2>3. Expired(h[t].id) => Expired(h[t].id)'
    BY <1>0, <2>1, <2>2 DEF Expired
  <2> QED
    BY <1>0, <2>1, <2>2, <2>3 DEF Truthful, ResultStatus
<1>14. CASE TryDispatch(t)
  <2>1. h[t].id \in CmdId /\ Stored(h[t].id)
    BY <1>0, <1>14 DEF TryDispatch, At, HandlerOK
  <2>2. CASE h' = [h EXCEPT
                 ![t].pc = IF h[t].seen = "dispatched" THEN "send"
                           ELSE IF ApprovalRequired(ToolOf(h[t].id))
                                THEN "readApproval" ELSE "update",
                 ![t].seen = IF ApprovalRequired(ToolOf(h[t].id)) THEN @ ELSE "dispatched"]
    <3>1. /\ h'[t].pc \in {"send", "readApproval", "update"}
          /\ h'[t].pc \in {"send", "update"} => h'[t].seen = "dispatched"
      BY <1>0, <2>2 DEF Handler
    <3> QED
      BY <3>1 DEF Truthful, ResultStatus
  <2> QED
    BY <1>2, <1>9, <1>14, <2>1, <2>2 DEF TryDispatch
<1>15. CASE ReadApproval(t)
  <2>1. CASE ~Return(t)
    <3>1. h'[t].pc \in {"update", "updateApproval"} /\ h'[t].seen = "dispatched"
      BY <1>0, <1>15, <2>1 DEF ReadApproval, Handler
    <3> QED
      BY <3>1 DEF Truthful, ResultStatus
  <2> QED
    BY <1>2, <2>1
<1>16. CASE Send(t)
  <2>1. CASE ~Return(t)
    <3>1. h[t].pc = "send" /\ h' = [h EXCEPT ![t].pc = "audit"] /\ h[t].id \in sent'
      BY <1>16, <2>1 DEF Send, At
    <3>2. h'[t].pc = "audit" /\ h'[t].seen = h[t].seen /\ h'[t].id = h[t].id
      BY <1>0, <3>1 DEF Handler
    <3> QED
      BY <3>1, <3>2 DEF Truthful, ResultStatus
  <2> QED
    BY <1>2, <2>1
<1> QED
  BY <1>3, <1>4, <1>5, <1>6, <1>7, <1>8, <1>10, <1>11, <1>12, <1>13, <1>14, <1>15, <1>16
  DEF Continue

LEMMA AuditBackedStep ==
  ASSUME TypeOK, AuditBacked, [Next]_vars
  PROVE  AuditBacked'
<1> USE DEF store, network, history
<1>0. /\ h \in [Task -> Handler] /\ \A t \in Task : h[t] \in Handler /\ HandlerOK(h[t])
      /\ sent \subseteq sent' /\ consent \subseteq consent' /\ TablesOK
      /\ \A c \in CmdId : Stored(c) /\ Expired(c) => Expired(c)'
  BY NothingTakenBack DEF TypeOK, HandlersOK
<1>1. ASSUME NEW t \in Task, h'[t] = h[t] PROVE Truthful(h[t])'
  <2>1. h[t].pc \in {"update", "audit"} => h[t].id \in CmdId /\ Stored(h[t].id)
    BY <1>0 DEF HandlerOK
  <2>2. h[t].pc \in {"update", "audit"} /\ Expired(h[t].id) => Expired(h[t].id)'
    BY <1>0, <1>1, <2>1 DEF Expired
  <2> QED
    BY <1>0, <1>1, <2>2 DEF AuditBacked, Truthful
<1>2. ASSUME NEW t \in Task, h'[t] = Idle PROVE Truthful(h[t])'
  BY <1>2 DEF Truthful, Idle
<1>3. ASSUME NEW t \in Task PROVE Truthful(h[t])'
  <2>1. CASE UNCHANGED vars \/ Tick \/ \E d \in Device : Disconnect(d)
    BY <1>1, <2>1 DEF vars, Tick, Disconnect
  <2>2. CASE Restart \/ \E u \in Task : QueryError(u)
    BY <1>0, <1>1, <1>2, <2>2 DEF Restart, QueryError
  <2>3. ASSUME NEW u \in Task, Next,
               Create(u) \/ Read(u) \/ Hello(u) \/ AcceptResult(u) \/ Continue(u)
        PROVE  Truthful(h[t])'
    <3>1. CASE u = t
      BY <2>3, <3>1, TruthfulStep DEF AuditBacked
    <3>2. CASE u /= t
      BY <1>1, <2>3, <3>2, OthersStay
    <3> QED
      BY <3>1, <3>2
  <2> QED
    BY <2>1, <2>2, <2>3 DEF Next, Task
<1>4. ASSUME audit' = audit PROVE AuditIsTrue'
  <2>1. \A c \in CmdId : Stored(c) => Stored(c)'
    <3>1. ASSUME NEW t \in Task, InsertCommand(t), NEW c \in CmdId, Stored(c)
          PROVE  Stored(c)'
      BY <1>0, <3>1 DEF InsertCommand, TablesOK, Stored
    <3>2. CASE UNCHANGED vars
      BY <3>2 DEF vars, Stored
    <3>3. CASE Next /\ \A t \in Task : ~InsertCommand(t)
      BY <3>3, OnlyInsertAdds
    <3> QED
      BY <3>1, <3>2, <3>3
  <2> QED
    BY <1>0, <1>4, <2>1 DEF AuditBacked, AuditIsTrue
<1>5. ASSUME NEW t \in Task, RecordAudit(t) PROVE AuditIsTrue'
  <2> DEFINE c == h[t].id
             kind == AuditKind(t)
  <2>1. /\ audit' = audit \union {<<c, kind>>} /\ UNCHANGED <<status, request, now, sent, consent>>
        /\ h[t].pc \in {"created", "audit"} /\ Stored(c) /\ c \in CmdId
    BY <1>0, <1>5 DEF RecordAudit, At, HandlerOK
  <2>2. CASE h[t].pc = "created" \/ h[t].seen = "cancelled"
    <3>1. kind \in {"created", "denied"}
      <4>1. CASE h[t].pc = "created"
        BY <4>1 DEF AuditKind
      <4>2. CASE h[t].pc = "audit" /\ h[t].seen = "cancelled"
        BY <4>2 DEF AuditKind
      <4> QED
        BY <2>1, <2>2, <4>1, <4>2
    <3> QED
      BY <2>1, <3>1 DEF AuditBacked, AuditIsTrue, ResultStatus, Stored, Expired
  <2>3. CASE h[t].pc = "audit" /\ h[t].seen = "queued"
    <3>1. kind = "approved" /\ \E b \in BOOLEAN : <<c, b>> \in consent
      BY <2>3 DEF AuditKind, AuditBacked, Truthful
    <3> QED
      BY <2>1, <3>1 DEF AuditBacked, AuditIsTrue, ResultStatus, Stored, Expired
  <2>4. CASE h[t].pc = "audit" /\ h[t].seen \notin {"queued", "cancelled"}
    <3>1. kind = h[t].seen /\ h[t].seen \in Status
      BY <1>0, <2>4 DEF AuditKind, HandlerOK
    <3>2. /\ kind \in {"dispatched"} \union ResultStatus => c \in sent
          /\ kind = "expired" => Expired(c)
      BY <2>4, <3>1 DEF AuditBacked, Truthful
    <3>3. kind /= "approved"
      BY <3>1 DEF Status, Terminal
    <3> HIDE DEF kind
    <3> QED
      BY <2>1, <3>2, <3>3 DEF AuditBacked, AuditIsTrue, Stored, Expired
  <2> QED
    BY <2>1, <2>2, <2>3, <2>4
<1>6. audit' = audit \/ \E t \in Task : RecordAudit(t)
  BY DEF Next, vars, Create, CreateNew, CreateReplay, CreateConflict, Arrives, Read,
    Hello, AcceptResult, Disconnect, Tick, Restart, QueryError, Continue, InsertCommand,
    InsertApproval, CheckExpiry, GetApproval, UpdateApproval, UpdateCommand,
    TryDispatch, ReadApproval, Send, ListPending, SaveResult
<1> QED
  BY <1>3, <1>4, <1>5, <1>6 DEF AuditBacked

(* The audit log never claims an approval that was not accepted, a         *)
(* dispatch or an execution of what was not sent, or an expiry before its  *)
(* time: with either store, whatever races, restarts and failing queries.  *)
THEOREM AuditTellsTheTruth == Spec => []AuditIsTrue
<1>1. Init => AuditBacked
  BY DEF Init, AuditBacked, AuditIsTrue, Truthful, Idle
<1>2. TypeOK /\ AuditBacked /\ [Next]_vars => AuditBacked'
  BY AuditBackedStep
<1>3. AuditBacked => AuditIsTrue
  BY DEF AuditBacked
<1> QED
  BY <1>1, <1>2, <1>3, TypeCorrect, PTL DEF Spec
-----------------------------------------------------------------------------
(* No lost wake-up: a canonical command cleared for an open socket was     *)
(* sent on it, or a handler is on its way to send it.                      *)

(* Handler x will send c, of status s, on the socket open when it comes to *)
(* it: it holds c as dispatched, or as queued while c is, or will list it. *)
Cares(x, c, s) ==
  \/ x.pc = "send" /\ x.id = c
  \/ x.pc \in {"dispatch", "update", "updateApproval"} /\ x.id = c /\ x.seen \in {"dispatched", s}
  \/ x.pc \in {"created", "audit"} /\ x.id = c /\ x.seen = "queued" /\ s = "queued"
  \/ x.pc = "readApproval" /\ x.id = c /\ s = "queued" /\ ApprovalRequired(ToolOf(c))
  \/ x.pc = "list" /\ x.arg = DeviceOf(c)
  \/ <<c, "dispatched">> \in x.todo \/ <<c, s>> \in x.todo

(* Only handlers past their list have more to dispatch, and one that is    *)
(* about to write an approval goes on to queue or dispatch the command.    *)
InLoop(x) ==
  /\ x.todo /= {} =>
       x.pc \in {"dispatch", "readApproval", "updateApproval", "update", "send", "audit"}
  /\ x.pc = "updateApproval" /\ x.held.decision = "approved" => x.seen \in {"queued", "dispatched"}

(* A canonical expiresAt sorts as text the way it does as time, so either  *)
(* store lists the command.                                                *)
Reachable(c) ==
  Stored(c) /\ ~Expired(c) /\ DeviceOf(c) \in online /\ request[c].form = "canonical"

Attended ==
  /\ \A c \in CmdId : Reachable(c) /\ Cleared(c) =>
       c \in session[DeviceOf(c)] \/ \E t \in Task : Cares(h[t], c, status[c])
  /\ \A t \in Task : InLoop(h[t])

(* What is still to dispatch is kept, or is next.                          *)
LEMMA TodoStays ==
  ASSUME TypeOK, NEW t \in Task, InLoop(h[t]), Continue(t), NEW p \in h[t].todo
  PROVE  \/ p \in h'[t].todo
         \/ h'[t].pc = "dispatch" /\ h'[t].id = p[1] /\ h'[t].seen = p[2]
<1>0. h \in [Task -> Handler] /\ h[t] \in Handler
  BY DEF TypeOK, HandlersOK
<1>1. h[t].pc \in {"dispatch", "readApproval", "updateApproval", "update", "send", "audit"}
  BY DEF InLoop
<1>2. CASE Return(t)
  <2>1. PICK q \in h[t].todo :
          h' = [h EXCEPT ![t] = [Idle EXCEPT !.pc = "dispatch", !.id = q[1],
                                   !.seen = q[2], !.todo = h[t].todo \ {q}]]
    BY <1>2 DEF Return
  <2>2. h'[t] = [pc |-> "dispatch", id |-> q[1], arg |-> None, seen |-> q[2],
                 held |-> NoApproval, todo |-> h[t].todo \ {q}]
    BY <1>0, <2>1 DEF Idle
  <2> QED
    BY <2>2
<1>3. CASE RecordAudit(t)
  BY <1>0, <1>2, <1>3 DEF RecordAudit, Handler
<1>4. CASE UpdateApproval(t) \/ UpdateCommand(t)
  BY <1>0, <1>4 DEF UpdateApproval, UpdateCommand, Handler
<1>5. CASE TryDispatch(t)
  BY <1>0, <1>2, <1>5 DEF TryDispatch, Expire, Handler
<1>6. CASE ReadApproval(t)
  BY <1>0, <1>2, <1>6 DEF ReadApproval, Handler
<1>7. CASE Send(t)
  BY <1>0, <1>2, <1>7 DEF Send, Handler
<1> QED
  BY <1>1, <1>3, <1>4, <1>5, <1>6, <1>7 DEF Continue, InsertCommand, InsertApproval,
    CheckExpiry, GetApproval, ListPending, SaveResult, At

LEMMA InLoopStays ==
  ASSUME TypeOK, NEW t \in Task, InLoop(h[t]),
         Create(t) \/ Read(t) \/ Hello(t) \/ AcceptResult(t) \/ Continue(t)
  PROVE  InLoop(h[t])'
<1>0. h \in [Task -> Handler] /\ h[t] \in Handler
  BY DEF TypeOK, HandlersOK
<1>1. CASE h'[t].pc \in {"dispatch", "readApproval", "update", "send", "audit"}
  BY <1>1 DEF InLoop
<1>2. ASSUME h'[t].pc /= "updateApproval", h'[t].todo = {}
      PROVE  InLoop(h[t])'
  BY <1>2 DEF InLoop
<1>3. CASE Return(t)
  <2>1. CASE h' = [h EXCEPT ![t] = Idle]
    <3>1. h'[t].pc = "idle" /\ h'[t].todo = {}
      BY <1>0, <2>1 DEF Idle
    <3> QED
      BY <1>2, <3>1
  <2>2. ASSUME NEW p \in h[t].todo,
               h' = [h EXCEPT ![t] = [Idle EXCEPT !.pc = "dispatch", !.id = p[1],
                                        !.seen = p[2], !.todo = h[t].todo \ {p}]]
        PROVE  h'[t].pc = "dispatch"
    BY <1>0, <2>2 DEF Idle
  <2> QED
    BY <1>1, <1>3, <2>1, <2>2 DEF Return
<1>4. CASE ListPending(t)
  <2>1. CASE h' = [h EXCEPT ![t] = Idle]
    <3>1. h'[t].pc = "idle" /\ h'[t].todo = {}
      BY <1>0, <2>1 DEF Idle
    <3> QED
      BY <1>2, <3>1
  <2>2. CASE h' /= [h EXCEPT ![t] = Idle]
    <3>1. PICK later \in ExpiresLater : ListPending(t)!(later)
      BY <1>4 DEF ListPending
    <3>2. PICK b \in later :
            \E todo : h' = [h EXCEPT ![t] = [Idle EXCEPT !.pc = "dispatch", !.id = b,
                                              !.seen = status[b], !.todo = todo]]
      BY <2>2, <3>1
    <3>3. h'[t].pc = "dispatch"
      BY <1>0, <3>2 DEF Idle
    <3> QED
      BY <1>1, <3>3
  <2> QED
    BY <2>1, <2>2
<1>5. CASE Create(t) \/ Read(t) \/ Hello(t) \/ AcceptResult(t)
  <2>1. h[t].pc = "idle" /\ h[t].todo = {}
    BY <1>5 DEF Create, CreateNew, CreateReplay, CreateConflict, Arrives, Read, Hello,
                AcceptResult, At, InLoop
  <2>2. ASSUME NEW pc \in {"insert", "list"}, NEW arg,
               h' = [h EXCEPT ![t].pc = pc, ![t].arg = arg]
        PROVE  h'[t].pc = pc /\ h'[t].todo = {}
    BY <1>0, <2>1, <2>2 DEF Handler
  <2>3. ASSUME NEW pc \in {"check", "save"}, NEW c, NEW s,
               h' = [h EXCEPT ![t].pc = pc, ![t].id = c, ![t].seen = s]
        PROVE  h'[t].pc = pc /\ h'[t].todo = {}
    BY <1>0, <2>1, <2>3 DEF Handler
  <2>4. CASE CreateNew(t) \/ Hello(t)
    BY <1>2, <2>2, <2>4 DEF CreateNew, Hello
  <2>5. CASE CreateReplay(t) \/ Read(t)
    BY <1>2, <2>3, <2>5 DEF CreateReplay, Read
  <2>6. CASE AcceptResult(t)
    BY <1>2, <2>3, <2>6 DEF AcceptResult
  <2>7. CASE CreateConflict(t)
    BY <1>2, <2>1, <2>7 DEF CreateConflict
  <2> QED
    BY <1>5, <2>4, <2>5, <2>6, <2>7 DEF Create
<1>6. CASE InsertCommand(t)
  <2>1. CASE h' = [h EXCEPT ![t] = Idle]
    <3>1. h'[t].pc = "idle" /\ h'[t].todo = {}
      BY <1>0, <2>1 DEF Idle
    <3> QED
      BY <1>2, <3>1
  <2>2. CASE h' /= [h EXCEPT ![t] = Idle]
    <3>1. PICK b \in CmdId :
            h' = [h EXCEPT ![t] = [Idle EXCEPT !.id = b,
                       !.seen = FirstStatus(h[t].arg.tool),
                       !.pc = IF ApprovalRequired(h[t].arg.tool)
                              THEN "insertApproval" ELSE "created"]]
      BY <1>6, <2>2 DEF InsertCommand
    <3>2. h'[t].pc \in {"insertApproval", "created"} /\ h'[t].todo = {}
      BY <1>0, <3>1 DEF Idle
    <3> QED
      BY <1>2, <3>2
  <2> QED
    BY <2>1, <2>2
<1>7. CASE InsertApproval(t)
  <2>1. h[t].todo = {}
    BY <1>7 DEF InsertApproval, At, InLoop
  <2>2. h'[t].pc = "created" /\ h'[t].todo = {}
    BY <1>0, <1>7, <2>1 DEF InsertApproval, Handler
  <2> QED
    BY <1>2, <2>2
<1>8. CASE RecordAudit(t)
  BY <1>0, <1>1, <1>3, <1>8 DEF RecordAudit, Handler
<1>9. CASE CheckExpiry(t)
  <2>1. h[t].todo = {}
    BY <1>9 DEF CheckExpiry, At, InLoop
  <2>2. CASE Expire(t)
    BY <1>0, <1>1, <2>2 DEF Expire, Handler
  <2>3. CASE h' = [h EXCEPT ![t].pc = "getApproval"]
    <3>1. h'[t].pc = "getApproval" /\ h'[t].todo = {}
      BY <1>0, <2>1, <2>3 DEF Handler
    <3> QED
      BY <1>2, <3>1
  <2> QED
    BY <1>3, <1>9, <2>2, <2>3 DEF CheckExpiry
<1>10. CASE GetApproval(t)
  <2>1. h[t].todo = {} /\ h[t].id \in CmdId
    BY <1>10 DEF GetApproval, At, InLoop, TypeOK, HandlersOK, HandlerOK
  <2>2. CASE h' = [h EXCEPT ![t] = Idle]
    <3>1. h'[t].pc = "idle" /\ h'[t].todo = {}
      BY <1>0, <2>2 DEF Idle
    <3> QED
      BY <1>2, <3>1
  <2>3. CASE h' /= [h EXCEPT ![t] = Idle]
    <3>1. PICK approve \in BOOLEAN :
            h' = [h EXCEPT
                   ![t].pc = "updateApproval",
                   ![t].held = [approval[h[t].id] EXCEPT
                     !.decision = IF approve THEN "approved" ELSE "denied"],
                   ![t].seen = IF approve THEN "queued" ELSE "cancelled"]
      BY <1>10, <2>3 DEF GetApproval
    <3>2. approval[h[t].id] \in Approval
      BY <2>1 DEF TypeOK, TablesOK
    <3>3. /\ h'[t].todo = {}
          /\ h'[t].pc = "updateApproval"
          /\ h'[t].held.decision = IF approve THEN "approved" ELSE "denied"
          /\ h'[t].seen = IF approve THEN "queued" ELSE "cancelled"
      BY <1>0, <2>1, <3>1, <3>2 DEF Handler, Approval
    <3> QED
      BY <3>3 DEF InLoop
  <2> QED
    BY <2>2, <2>3
<1>11. CASE UpdateApproval(t) \/ SaveResult(t) \/ UpdateCommand(t)
  BY <1>0, <1>1, <1>11 DEF UpdateApproval, SaveResult, UpdateCommand, Handler
<1>12. CASE TryDispatch(t)
  BY <1>0, <1>1, <1>3, <1>12 DEF TryDispatch, Expire, Handler
<1>13. CASE ReadApproval(t)
  <2>1. CASE h' = [h EXCEPT
                ![t].pc = IF approval[h[t].id].consumed THEN "update" ELSE "updateApproval",
                ![t].held = Consume(approval[h[t].id]),
                ![t].seen = "dispatched"]
    <3>1. h'[t].seen = "dispatched" /\ h'[t].pc \in {"update", "updateApproval"}
      BY <1>0, <2>1 DEF Handler
    <3> QED
      BY <3>1 DEF InLoop
  <2> QED
    BY <1>3, <1>13, <2>1 DEF ReadApproval
<1>14. CASE Send(t)
  BY <1>0, <1>1, <1>3, <1>14 DEF Send, Handler
<1> QED
  BY <1>4, <1>5, <1>6, <1>7, <1>8, <1>9, <1>10, <1>11, <1>12, <1>13, <1>14 DEF Continue
(* A step of the handler that cares for a command, if it leaves the        *)
(* command's row alone, leaves it cared for or sent.                       *)
LEMMA CareStays ==
  ASSUME TypeOK, NEW t \in Task, InLoop(h[t]), Continue(t), NEW c \in CmdId,
         Reachable(c), Cleared(c), request[c].form = "canonical",
         Cares(h[t], c, status[c]), status'[c] = status[c], request'[c] = request[c]
  PROVE  c \in session'[DeviceOf(c)] \/ Cares(h[t], c, status[c])'
<1> USE DEF store, network, history
<1>0. /\ h \in [Task -> Handler] /\ h[t] \in Handler /\ TablesOK
      /\ status[c] \in {"queued", "dispatched"} /\ now' = now
      /\ DeviceOf(c) \in online /\ ~Expired(c) /\ Stored(c)
      /\ DeviceOf(c)' = DeviceOf(c) /\ ToolOf(c)' = ToolOf(c)
  BY DEF TypeOK, HandlersOK, Cleared, Reachable, DeviceOf, ToolOf, Continue, InsertCommand,
    InsertApproval, RecordAudit, CheckExpiry, GetApproval, UpdateApproval, UpdateCommand,
    TryDispatch, ReadApproval, Send, ListPending, SaveResult
<1>1. CASE <<c, "dispatched">> \in h[t].todo \/ <<c, status[c]>> \in h[t].todo
  <2>1. PICK s \in {"dispatched", status[c]} : <<c, s>> \in h[t].todo
    BY <1>1
  <2>2. \/ <<c, s>> \in h'[t].todo
        \/ h'[t].pc = "dispatch" /\ h'[t].id = c /\ h'[t].seen = s
    BY <2>1, TodoStays
  <2> QED
    BY <2>1, <2>2 DEF Cares
<1>2. CASE h[t].pc = "send" /\ h[t].id = c
  <2>1. Send(t)
    BY <1>2 DEF Continue, InsertCommand, InsertApproval, RecordAudit, CheckExpiry,
      GetApproval, UpdateApproval, UpdateCommand, TryDispatch, ReadApproval, ListPending,
      SaveResult, At
  <2>2. session' = [session EXCEPT ![DeviceOf(c)] = @ \union {c}]
    BY <1>0, <1>2, <2>1 DEF Send
  <2>3. DeviceOf(c) \in Device
    BY <1>0 DEF TablesOK
  <2> QED
    BY <1>0, <2>2, <2>3 DEF TablesOK
<1>3. CASE h[t].pc = "dispatch" /\ h[t].id = c /\ h[t].seen \in {"dispatched", status[c]}
  <2>1. TryDispatch(t)
    BY <1>3 DEF Continue, InsertCommand, InsertApproval, RecordAudit, CheckExpiry,
      GetApproval, UpdateApproval, UpdateCommand, Send, ReadApproval, ListPending,
      SaveResult, At
  <2>2. h' = [h EXCEPT
                 ![t].pc = IF h[t].seen = "dispatched" THEN "send"
                           ELSE IF ApprovalRequired(ToolOf(c))
                                THEN "readApproval" ELSE "update",
                 ![t].seen = IF ApprovalRequired(ToolOf(c)) THEN @ ELSE "dispatched"]
    BY <1>0, <1>3, <2>1 DEF TryDispatch, Dispatchable
  <2>3. /\ h'[t].id = c
        /\ h'[t].pc = IF h[t].seen = "dispatched" THEN "send"
                      ELSE IF ApprovalRequired(ToolOf(c)) THEN "readApproval" ELSE "update"
        /\ ~ApprovalRequired(ToolOf(c)) => h'[t].seen = "dispatched"
    BY <1>0, <1>3, <2>2 DEF Handler
  <2> QED
    BY <1>0, <1>3, <2>3 DEF Cares
<1>4. CASE h[t].pc = "update" /\ h[t].id = c /\ h[t].seen \in {"dispatched", status[c]}
  <2>1. UpdateCommand(t)
    BY <1>4 DEF Continue, InsertCommand, InsertApproval, RecordAudit, CheckExpiry,
      GetApproval, UpdateApproval, TryDispatch, Send, ReadApproval, ListPending,
      SaveResult, At
  <2>2. status'[c] = h[t].seen
    BY <1>0, <1>4, <2>1 DEF UpdateCommand, TablesOK
  <2>3. /\ h'[t].id = c /\ h'[t].seen = h[t].seen
        /\ h'[t].pc = IF h[t].seen = "dispatched" THEN "send" ELSE "audit"
    BY <1>0, <1>4, <2>1 DEF UpdateCommand, Handler
  <2> QED
    BY <1>0, <2>2, <2>3 DEF Cares
<1>5. CASE h[t].pc = "updateApproval" /\ h[t].id = c /\ h[t].seen \in {"dispatched", status[c]}
  <2>1. UpdateApproval(t)
    BY <1>5 DEF Continue, InsertCommand, InsertApproval, RecordAudit, CheckExpiry,
      GetApproval, UpdateCommand, TryDispatch, Send, ReadApproval, ListPending,
      SaveResult, At
  <2>2. h'[t].id = c /\ h'[t].seen = h[t].seen /\ h'[t].pc = "update"
    BY <1>0, <1>5, <2>1 DEF UpdateApproval, Handler
  <2> QED
    BY <1>5, <2>2 DEF Cares
<1>6. CASE /\ h[t].pc \in {"created", "audit"} /\ h[t].id = c /\ h[t].seen = "queued"
           /\ status[c] = "queued"
  <2>1. RecordAudit(t)
    BY <1>6 DEF Continue, InsertCommand, InsertApproval, UpdateCommand, CheckExpiry,
      GetApproval, UpdateApproval, TryDispatch, Send, ReadApproval, ListPending,
      SaveResult, At
  <2>2. AuditKind(t) \in {"created", "approved"}
    <3>1. CASE h[t].pc = "created"
      BY <3>1 DEF AuditKind
    <3>2. CASE h[t].pc = "audit"
      BY <1>6, <3>2 DEF AuditKind
    <3> QED
      BY <1>6, <3>1, <3>2
  <2>3. h'[t].id = c /\ h'[t].seen = "queued" /\ h'[t].pc = "dispatch"
    BY <1>0, <1>6, <2>1, <2>2 DEF RecordAudit, Handler
  <2> QED
    BY <1>6, <2>3 DEF Cares
<1>7. CASE /\ h[t].pc = "readApproval" /\ h[t].id = c /\ status[c] = "queued"
           /\ ApprovalRequired(ToolOf(c))
  <2>1. ReadApproval(t)
    BY <1>7 DEF Continue, InsertCommand, InsertApproval, RecordAudit, CheckExpiry,
      GetApproval, UpdateApproval, UpdateCommand, TryDispatch, Send, ListPending,
      SaveResult, At
  <2>2. approval[c].decision = "approved"
    BY <1>7 DEF Cleared
  <2>3. h'[t].id = c /\ h'[t].seen = "dispatched" /\ h'[t].pc \in {"update", "updateApproval"}
    BY <1>0, <1>7, <2>1, <2>2 DEF ReadApproval, Handler
  <2> QED
    BY <2>3 DEF Cares
<1>8. CASE h[t].pc = "list" /\ h[t].arg = DeviceOf(c)
  <2>1. ListPending(t)
    BY <1>8 DEF Continue, InsertCommand, InsertApproval, RecordAudit, CheckExpiry,
      GetApproval, UpdateApproval, UpdateCommand, TryDispatch, Send, ReadApproval,
      SaveResult, At
  <2>2. PICK later \in ExpiresLater : ListPending(t)!(later)
    BY <2>1 DEF ListPending
  <2> DEFINE listed == {d \in later : /\ Stored(d) /\ DeviceOf(d) = h[t].arg
                                      /\ status[d] \in Dispatchable}
  <2>3. c \in listed
    BY <1>0, <1>8 DEF ExpiresLater, Dispatchable
  <2>4. PICK b \in listed :
          h' = [h EXCEPT ![t] = [Idle EXCEPT !.pc = "dispatch", !.id = b,
                  !.seen = status[b],
                  !.todo = {<<d, status[d]>> : d \in listed \ {b}}]]
    BY <2>2, <2>3
  <2>5. h'[t] = [pc |-> "dispatch", id |-> b, arg |-> None, seen |-> status[b],
                 held |-> NoApproval, todo |-> {<<d, status[d]>> : d \in listed \ {b}}]
    BY <1>0, <2>4 DEF Idle
  <2>6. CASE b = c
    <3>1. h'[t].pc = "dispatch" /\ h'[t].id = c /\ h'[t].seen = status[c]
      BY <2>5, <2>6
    <3> QED
      BY <3>1 DEF Cares
  <2>7. CASE b /= c
    <3>1. <<c, status[c]>> \in h'[t].todo
      BY <2>3, <2>5, <2>7
    <3> QED
      BY <3>1 DEF Cares
  <2> QED
    BY <2>6, <2>7
<1> QED
  BY <1>1, <1>2, <1>3, <1>4, <1>5, <1>6, <1>7, <1>8 DEF Cares

LEMMA AttendedStep ==
  ASSUME TypeOK, Attended, "query_error" \notin Faults, Next
  PROVE  Attended'
<1> USE DEF store, network, history
<1>0. /\ h \in [Task -> Handler] /\ \A t \in Task : h[t] \in Handler /\ HandlerOK(h[t])
      /\ TablesOK
  BY DEF TypeOK, HandlersOK
<1>1. \A t \in Task : ~QueryError(t)
  BY DEF QueryError, Fault
<1>3. CASE Restart
  <2>1. \A c \in CmdId : ~Reachable(c)'
    BY <1>3 DEF Restart, Reachable
  <2>2. \A t \in Task : InLoop(h[t])'
    BY <1>3 DEF Restart, InLoop, Idle
  <2> QED
    BY <2>1, <2>2 DEF Attended
<1>4. ASSUME UNCHANGED <<store, h>>,
             \A c \in CmdId : Reachable(c)' => Reachable(c) /\ session'[DeviceOf(c)] = session[DeviceOf(c)]
      PROVE  Attended'
  BY <1>4 DEF Attended, Reachable, Cleared, Stored, ToolOf, DeviceOf, Cares, InLoop
<1>5. CASE Tick
  <2>1. now' = now + 1 /\ now \in Nat /\ \A c \in CmdId : Stored(c) => request[c].at \in Nat
    BY <1>0, <1>5, BoundsAssumption DEF Tick, TablesOK, Time, Request, Stored
  <2> QED
    BY <1>4, <1>5, <2>1 DEF Tick, Reachable, Expired, Stored, DeviceOf
<1>6. ASSUME NEW d \in Device, Disconnect(d) PROVE Attended'
  <2>1. \A c \in CmdId : Reachable(c)' =>
          Reachable(c) /\ session'[DeviceOf(c)] = session[DeviceOf(c)]
    BY <1>0, <1>6 DEF Disconnect, Reachable, Expired, Stored, DeviceOf, TablesOK
  <2> QED
    BY <1>4, <1>6, <2>1 DEF Disconnect
<1>7. ASSUME NEW t \in Task,
             Create(t) \/ Read(t) \/ Hello(t) \/ AcceptResult(t) \/ Continue(t)
      PROVE  Attended'
  <2>1. \A u \in Task \ {t} : h'[u] = h[u]
    BY <1>7, OthersStay
  <2>2. \A u \in Task : InLoop(h[u])'
    <3>1. InLoop(h[t])'
      BY <1>7, InLoopStays DEF Attended
    <3> QED
      BY <2>1, <3>1 DEF Attended, InLoop
  <2> SUFFICES ASSUME NEW c \in CmdId, Reachable(c)', Cleared(c)'
               PROVE  \/ c \in session'[DeviceOf(c)']
                      \/ \E u \in Task : Cares(h[u], c, status[c])'
    BY <2>2 DEF Attended
  <2>3. ASSUME Reachable(c), Cleared(c), status'[c] = status[c], request'[c] = request[c],
               c \in session[DeviceOf(c)] => c \in session'[DeviceOf(c)],
               \/ ~Cares(h[t], c, status[c])
               \/ Continue(t)
        PROVE  \/ c \in session'[DeviceOf(c)']
               \/ \E u \in Task : Cares(h[u], c, status[c])'
    <3>1. DeviceOf(c)' = DeviceOf(c) /\ ToolOf(c)' = ToolOf(c)
      BY <2>3 DEF DeviceOf, ToolOf
    <3>2. CASE c \in session[DeviceOf(c)]
      BY <2>3, <3>1, <3>2
    <3>3. CASE Cares(h[t], c, status[c])
      <4>1. request[c].form = "canonical" /\ InLoop(h[t])
        BY <2>3 DEF Attended, Reachable
      <4>2. c \in session'[DeviceOf(c)] \/ Cares(h[t], c, status[c])'
        BY <2>3, <3>3, <4>1, CareStays
      <4> QED
        BY <3>1, <4>2
    <3>4. ASSUME NEW u \in Task \ {t}, Cares(h[u], c, status[c])
          PROVE  Cares(h[u], c, status[c])'
      BY <2>1, <2>3, <3>1, <3>4 DEF Cares
    <3> QED
      BY <2>3, <3>2, <3>3, <3>4 DEF Attended
  <2>4. CASE Create(t) \/ Read(t) \/ AcceptResult(t)
    <3>1. h[t].pc = "idle" /\ UNCHANGED <<store, now, online, session>>
      BY <2>4 DEF Create, CreateNew, CreateReplay, CreateConflict, Arrives, Read,
                  AcceptResult, At
    <3>2. ~Cares(h[t], c, status[c])
      BY <3>1 DEF Cares, Attended, InLoop
    <3> QED
      BY <2>3, <3>1, <3>2 DEF Reachable, Cleared, Expired, Stored, DeviceOf, ToolOf
  <2>5. CASE Hello(t)
    <3>1. PICK d \in Device :
            /\ h[t].pc = "idle" /\ online' = online \union {d}
            /\ session' = [session EXCEPT ![d] = {}]
            /\ h' = [h EXCEPT ![t].pc = "list", ![t].arg = d]
            /\ UNCHANGED <<store, now>>
      BY <2>5 DEF Hello, At
    <3>2. CASE DeviceOf(c)' = d
      <4>1. h'[t].pc = "list" /\ h'[t].arg = d
        BY <1>0, <3>1 DEF Handler
      <4> QED
        BY <3>2, <4>1 DEF Cares
    <3>3. CASE DeviceOf(c)' /= d
      <4>1. ~Cares(h[t], c, status[c])
        BY <3>1 DEF Cares, Attended, InLoop
      <4>2. Reachable(c) /\ Cleared(c) /\ session'[DeviceOf(c)] = session[DeviceOf(c)]
        BY <1>0, <3>1, <3>3 DEF Reachable, Cleared, Expired, Stored, DeviceOf, ToolOf, TablesOK
      <4> QED
        BY <2>3, <3>1, <4>1, <4>2
    <3> QED
      BY <3>2, <3>3
  <2>6. CASE InsertCommand(t)
    <3>1. h[t].pc = "insert" /\ UNCHANGED <<approval, now, online, session>>
      BY <2>6 DEF InsertCommand, At
    <3>2. ~Cares(h[t], c, status[c])
      BY <3>1 DEF Cares, Attended, InLoop
    <3>3. CASE status'[c] = status[c] /\ request'[c] = request[c]
      BY <2>3, <3>1, <3>2, <3>3 DEF Reachable, Cleared, Expired, Stored, DeviceOf, ToolOf
    <3>4. CASE ~(status'[c] = status[c] /\ request'[c] = request[c])
      <4>1. PICK b \in CmdId :
              /\ status' = [status EXCEPT ![b] = FirstStatus(h[t].arg.tool)]
              /\ request' = [request EXCEPT ![b] = AsStored(h[t].arg)]
              /\ h' = [h EXCEPT ![t] = [Idle EXCEPT !.id = b,
                         !.seen = FirstStatus(h[t].arg.tool),
                         !.pc = IF ApprovalRequired(h[t].arg.tool)
                                THEN "insertApproval" ELSE "created"]]
        BY <2>6, <3>4 DEF InsertCommand
      <4>2. b = c /\ status'[c] = FirstStatus(h[t].arg.tool)
        BY <1>0, <3>4, <4>1 DEF TablesOK
      <4>3. status'[c] = "queued" /\ ~ApprovalRequired(h[t].arg.tool)
        BY <4>2 DEF Cleared, FirstStatus
      <4>4. h'[t].id = c /\ h'[t].seen = "queued" /\ h'[t].pc = "created"
        BY <1>0, <4>1, <4>2, <4>3 DEF Idle
      <4> QED
        BY <4>3, <4>4 DEF Cares
    <3> QED
      BY <3>3, <3>4
  <2>7. CASE InsertApproval(t)
    <3>1. /\ approval' = [approval EXCEPT ![h[t].id].decision = "pending"]
          /\ UNCHANGED <<status, request, now, online, session>> /\ h[t].id \in CmdId
      BY <1>0, <2>7 DEF InsertApproval, At, HandlerOK
    <3>2. approval'[c].decision = "approved" => approval[c].decision = "approved"
      BY <1>0, <3>1 DEF TablesOK, Approval
    <3>3. Reachable(c) /\ Cleared(c)
      BY <3>1, <3>2 DEF Reachable, Cleared, Expired, Stored, DeviceOf, ToolOf
    <3> QED
      BY <2>3, <2>7, <3>1, <3>3 DEF Continue
  <2>8. CASE UpdateApproval(t)
    <3>1. /\ approval' = [approval EXCEPT ![h[t].id] = h[t].held]
          /\ UNCHANGED <<status, request, now, online, session>> /\ h[t].id \in CmdId
          /\ h[t].pc = "updateApproval"
      BY <1>0, <2>8 DEF UpdateApproval, At, HandlerOK
    <3>2. Reachable(c)
      BY <3>1 DEF Reachable, Expired, Stored, DeviceOf
    <3>3. CASE Cleared(c)
      BY <2>3, <2>8, <3>1, <3>2, <3>3 DEF Continue
    <3>4. CASE ~Cleared(c)
      <4>1. /\ status[c] = "queued" /\ ApprovalRequired(ToolOf(c))
            /\ approval'[c].decision = "approved" /\ approval[c].decision /= "approved"
        BY <3>1, <3>4 DEF Cleared, ToolOf
      <4>2. h[t].id = c /\ h[t].held.decision = "approved"
        BY <1>0, <3>1, <4>1 DEF TablesOK
      <4>3. h[t].seen \in {"queued", "dispatched"}
        BY <3>1, <4>2 DEF Attended, InLoop
      <4>4. h'[t].id = c /\ h'[t].pc = "update" /\ h'[t].seen = h[t].seen
        BY <1>0, <2>8, <4>2 DEF UpdateApproval, Handler
      <4> QED
        BY <3>1, <4>1, <4>3, <4>4 DEF Cares
    <3> QED
      BY <3>3, <3>4
  <2>9. CASE UpdateCommand(t)
    <3>1. /\ status' = [status EXCEPT ![h[t].id] = h[t].seen]
          /\ UNCHANGED <<approval, request, now, online, session>> /\ h[t].id \in CmdId
          /\ Stored(h[t].id)
      BY <1>0, <2>9 DEF UpdateCommand, At, HandlerOK
    <3>2. CASE h[t].id = c
      <4>1. status'[c] = h[t].seen
        BY <1>0, <3>1, <3>2 DEF TablesOK
      <4>2. /\ h'[t].id = c /\ h'[t].seen = h[t].seen
            /\ h'[t].pc = IF h[t].seen = "dispatched" THEN "send" ELSE "audit"
        BY <1>0, <2>9, <3>2 DEF UpdateCommand, Handler
      <4>3. h[t].seen \in {"queued", "dispatched"}
        BY <4>1 DEF Cleared
      <4> QED
        BY <4>1, <4>2, <4>3 DEF Cares
    <3>3. CASE h[t].id /= c
      <4>1. status'[c] = status[c]
        BY <1>0, <3>1, <3>3 DEF TablesOK
      <4>2. Reachable(c) /\ Cleared(c)
        BY <3>1, <4>1 DEF Reachable, Cleared, Expired, Stored, DeviceOf, ToolOf
      <4> QED
        BY <2>3, <2>9, <3>1, <4>1, <4>2 DEF Continue
    <3> QED
      BY <3>2, <3>3
  <2>10. CASE Send(t)
    <3>1. UNCHANGED <<store, now, online>>
      BY <2>10 DEF Send
    <3>2. c \in session[DeviceOf(c)] => c \in session'[DeviceOf(c)]
      <4>1. CASE session' = session
        BY <4>1
      <4>2. CASE session' = [session EXCEPT ![DeviceOf(h[t].id)] = @ \union {h[t].id}]
        <5>1. CASE DeviceOf(c) = DeviceOf(h[t].id)
          BY <1>0, <4>2, <5>1 DEF TablesOK
        <5>2. CASE DeviceOf(c) /= DeviceOf(h[t].id)
          BY <1>0, <4>2, <5>2 DEF TablesOK
        <5> QED
          BY <5>1, <5>2
      <4> QED
        BY <2>10, <4>1, <4>2 DEF Send
    <3>3. Reachable(c) /\ Cleared(c)
      BY <3>1 DEF Reachable, Cleared, Expired, Stored, DeviceOf, ToolOf
    <3> QED
      BY <2>3, <2>10, <3>1, <3>2, <3>3 DEF Continue
  <2>11. CASE /\ Continue(t)
              /\ ~(InsertCommand(t) \/ InsertApproval(t) \/ UpdateApproval(t)
                     \/ UpdateCommand(t) \/ Send(t))
    <3>1. UNCHANGED <<status, request, approval, now, online, session>>
      BY <2>11 DEF Continue, RecordAudit, CheckExpiry, GetApproval, TryDispatch,
        ReadApproval, ListPending, SaveResult
    <3>2. Reachable(c) /\ Cleared(c)
      BY <3>1 DEF Reachable, Cleared, Expired, Stored, DeviceOf, ToolOf
    <3> QED
      BY <2>3, <2>11, <3>1, <3>2
  <2> QED
    BY <1>7, <2>4, <2>5, <2>6, <2>7, <2>8, <2>9, <2>10, <2>11
<1> QED
  BY <1>1, <1>3, <1>5, <1>6, <1>7 DEF Next, Task

(* NothingForgotten for the commands whose stored expiresAt is canonical.  *)
CanonicalNotForgotten ==
  Quiet => \A c \in CmdId :
    /\ Stored(c) /\ ~Expired(c) /\ request[c].form = "canonical"
    /\ DeviceOf(c) \in online /\ Cleared(c)
    => c \in session[DeviceOf(c)]

(* With either store: a live command cleared for dispatch, its expiresAt   *)
(* canonical, was sent on the socket open now once handlers are done,      *)
(* whatever handlers, hellos and restarts raced.                           *)
THEOREM NothingCanonicalIsForgotten ==
  ASSUME "query_error" \notin Faults
  PROVE  Spec => []CanonicalNotForgotten
<1>1. Init => Attended
  BY DEF Init, Attended, Reachable, InLoop, Stored, Idle
<1>2. TypeOK /\ Attended /\ [Next]_vars => Attended'
  <2>1. ASSUME Attended, UNCHANGED vars PROVE Attended'
    BY <2>1 DEF Attended, Reachable, Cleared, Cares, InLoop, Expired, Stored, DeviceOf,
                ToolOf, vars, store, network
  <2> QED
    BY <2>1, AttendedStep
<1>3. Attended => CanonicalNotForgotten
  <2> SUFFICES ASSUME Attended, Quiet, NEW c \in CmdId, Reachable(c), Cleared(c)
               PROVE  c \in session[DeviceOf(c)]
    BY DEF CanonicalNotForgotten, Reachable
  <2>1. ASSUME NEW t \in Task PROVE ~Cares(h[t], c, status[c])
    <3>1. h[t].pc = "idle" /\ h[t].todo = {}
      BY DEF Quiet, Idle
    <3> QED
      BY <3>1 DEF Cares
  <2> QED
    BY <2>1 DEF Attended
<1> QED
  BY <1>1, <1>2, <1>3, TypeCorrect, PTL DEF Spec

(* What every stored command is when its store, or every client, writes    *)
(* expiresAt in canonical form.                                            *)
AllCanonical == \A c \in CmdId : Stored(c) => request[c].form = "canonical"

LEMMA CanonicalStep ==
  ASSUME TypeOK, AllCanonical, \A r \in Requests : AsStored(r).form = "canonical",
         [Next]_vars
  PROVE  AllCanonical'
<1>0. TablesOK /\ \A t \in Task : HandlerOK(h[t])
  BY DEF TypeOK, HandlersOK
<1>1. ASSUME NEW t \in Task, InsertCommand(t), NEW c \in CmdId, Stored(c)'
      PROVE  request'[c].form = "canonical"
  <2>1. CASE UNCHANGED <<status, request>>
    BY <1>1, <2>1 DEF AllCanonical, Stored
  <2>2. CASE ~UNCHANGED <<status, request>>
    <3>1. h[t].arg \in Requests
      BY <1>0, <1>1 DEF InsertCommand, At, HandlerOK
    <3>2. PICK b \in CmdId :
            /\ status' = [status EXCEPT ![b] = FirstStatus(h[t].arg.tool)]
            /\ request' = [request EXCEPT ![b] = AsStored(h[t].arg)]
      BY <1>1, <2>2 DEF InsertCommand, store
    <3> QED
      BY <1>0, <1>1, <3>1, <3>2 DEF AllCanonical, Stored, TablesOK
  <2> QED
    BY <2>1, <2>2
<1>2. CASE ~UNCHANGED vars /\ \A t \in Task : ~InsertCommand(t)
  BY <1>2, OnlyInsertAdds DEF AllCanonical
<1>3. CASE UNCHANGED vars
  BY <1>3 DEF AllCanonical, Stored, vars, store
<1> QED
  BY <1>1, <1>2, <1>3 DEF AllCanonical

(* With Postgres, or with clients that write expiresAt the way now is      *)
(* written, no wake-up is lost between handlers, hellos and restarts.      *)
THEOREM NothingIsForgotten ==
  ASSUME "query_error" \notin Faults,
         \/ Adapter = "postgres"
         \/ \A r \in Requests : r.form = "canonical"
  PROVE  Spec => []NothingForgotten
<1>1. \A r \in Requests : AsStored(r).form = "canonical"
  BY RequestsAssumption DEF AsStored, Request
<1>2. Init => AllCanonical
  BY DEF Init, AllCanonical, Stored
<1>3. TypeOK /\ AllCanonical /\ [Next]_vars => AllCanonical'
  BY <1>1, CanonicalStep
<1>4. AllCanonical /\ CanonicalNotForgotten => NothingForgotten
  BY DEF AllCanonical, CanonicalNotForgotten, NothingForgotten
<1> QED
  BY <1>2, <1>3, <1>4, NothingCanonicalIsForgotten, TypeCorrect, PTL DEF Spec
=============================================================================
