--------------------------- MODULE CommandService ---------------------------
(***************************************************************************)
(* The command service of the control plane: the commands of one user,     *)
(* their approvals, results and audit events in the state store, and the   *)
(* handlers that work on them. A handler is a request of the HTTP API or a *)
(* message of a device socket; every "await" of a store query is a step of *)
(* its own, so handlers interleave between their queries, each with the    *)
(* snapshot of the rows it has read.                                       *)
(*                                                                         *)
(* Adapter = "postgres": one query per await, no transactions, a unique    *)
(* index on the idempotency key, timestamps returned in canonical form.    *)
(* Adapter = "memory": awaits are settled promises, so a handler runs to   *)
(* its end before the event loop starts another.                           *)
(***************************************************************************)
EXTENDS ToolPolicy, Naturals, FiniteSets

CONSTANTS
  Device, CmdId,        \* executors of the user; ids randomUUID may return
  Requests,             \* the bodies of POST /v1/commands
  Creates, Decides,     \* bounds on the requests served at once: creations,
  Reads, Hellos, Reports, \* decisions, polls, device hellos, result messages
  Adapter, Advertises,  \* the state store in use; the tools of each device
  MaxLifetime, MaxNow,  \* the 24-hour limit, and the bound on the clock
  MaxFaults, Faults,    \* bound on, and kinds of, the faults of a run
  None                  \* no id, no request

Time == 0..MaxNow
Task == Creates \union Decides \union Reads \union Hellos \union Reports

(* "other" is any form of expiresAt that toISOString would not print: an   *)
(* offset, or no milliseconds.                                             *)
Request == [key : {r.key : r \in Requests}, device : Device, tool : Tool,
            args : {r.args : r \in Requests}, at : Time,
            form : {"canonical", "other"}]

ASSUME RequestsAssumption == Requests \subseteq Request
ASSUME AdapterAssumption == Adapter \in {"memory", "postgres"}
ASSUME AdvertisesAssumption == Advertises \in [Device -> SUBSET Tool]
ASSUME BoundsAssumption ==
  /\ MaxLifetime \in Nat /\ MaxNow \in Nat /\ MaxFaults \in Nat
  /\ Faults \subseteq {"restart", "query_error"}
  /\ Adapter = "memory" => Faults = {}
ASSUME NoneAssumption == None \notin CmdId /\ None \notin Request
ASSUME TasksAssumption ==
  \A A, B \in {Creates, Decides, Reads, Hellos, Reports} :
    A = B \/ A \intersect B = {}

VARIABLES
  status, request,   \* the commands table: status, and the immutable columns
  approval, results, \* the approvals and action_results tables
  audit,             \* the audit events, by command and kind
  now,               \* Date.now()
  online, session,   \* ConnectionRegistry.byDevice; what each socket was sent
  sent,              \* history: commands a device was ever sent
  h,                 \* the handlers
  consent, answers,  \* history: accepted approvals; creations answered
  faults             \* history: faults so far

store == <<status, request, approval, results>>
network == <<online, session, sent>>
history == <<consent, answers, faults>>
vars == <<store, audit, now, network, h, history>>

-----------------------------------------------------------------------------
Terminal == {"succeeded", "failed", "expired", "cancelled"}
ResultStatus == {"running", "succeeded", "failed"}
Status == Terminal \union {"queued", "awaiting_approval", "dispatched", "running"}

NoApproval == [decision |-> "absent", consumed |-> FALSE]
Approval == [decision : {"absent", "pending", "approved", "denied"},
             consumed : BOOLEAN]

(* A handler: the await it stands at, the command it works on, the copy of *)
(* its status and of its approval it holds, what it still has to dispatch. *)
Idle == [pc |-> "idle", id |-> None, arg |-> None, seen |-> "absent",
         held |-> NoApproval, todo |-> {}]
Handler ==
  [pc : {"idle", "insert", "insertApproval", "created", "check", "getApproval",
         "updateApproval", "update", "audit", "dispatch", "readApproval",
         "send", "list", "save"},
   id : CmdId \union {None}, arg : Requests \union Device \union {None},
   seen : Status \union {"absent"}, held : Approval,
   todo : SUBSET (CmdId \X Status)]

Stored(c) == status[c] /= "absent"
ToolOf(c) == request[c].tool
DeviceOf(c) == request[c].device
Expired(c) == request[c].at <= now
Holders(key) == {c \in CmdId : Stored(c) /\ request[c].key = key}
Quiet == \A t \in Task : h[t] = Idle

(* timestamptz and toISOString put expiresAt in canonical form.            *)
AsStored(r) ==
  IF Adapter = "postgres" THEN [r EXCEPT !.form = "canonical"] ELSE r

(* Who may take the next step: with the memory adapter, only the handler   *)
(* that is already running. (A definition Name_Fault, here and below, is   *)
(* Name with a fault seeded in it, for TLC to find.)                       *)
Turn_Interleaved(t) == TRUE
Turn(t) == Adapter = "memory" => \A u \in Task \ {t} : h[u] = Idle
At(t, pc) == h[t].pc = pc /\ Turn(t)

(* The end of a call of tryDispatch or expireIfNeeded: the loop of         *)
(* dispatchPendingForDevice takes its next snapshot, other handlers end.   *)
Return(t) ==
  \/ h[t].todo = {} /\ h' = [h EXCEPT ![t] = Idle]
  \/ \E p \in h[t].todo :
       h' = [h EXCEPT ![t] = [Idle EXCEPT !.pc = "dispatch", !.id = p[1],
                                !.seen = p[2], !.todo = h[t].todo \ {p}]]

Init ==
  /\ status = [c \in CmdId |-> "absent"]
  /\ request = [c \in CmdId |-> None]
  /\ approval = [c \in CmdId |-> NoApproval]
  /\ results = [c \in CmdId |-> "none"]
  /\ audit = {} /\ now = 0
  /\ online = {} /\ session = [d \in Device |-> {}] /\ sent = {}
  /\ h = [t \in Task |-> Idle]
  /\ consent = {} /\ answers = {} /\ faults = 0

-----------------------------------------------------------------------------
(* sameRequest: every field of the stored command against the new body.    *)
SameRequest_ByIdentity(c, r) == FALSE
SameRequest(c, r) == request[c] = r

(* create(): the checks before the first await, and the lookup by key.     *)
Arrives(t, r) ==
  /\ At(t, "idle")
  /\ r.at > now /\ r.at - now <= MaxLifetime
  /\ UNCHANGED <<store, audit, now, network, consent, faults>>

CreateNew(t) == \E r \in Requests :
  /\ Arrives(t, r) /\ Holders(r.key) = {}
  /\ r.tool \in Advertises[r.device]
  /\ h' = [h EXCEPT ![t].pc = "insert", ![t].arg = r]
  /\ UNCHANGED answers

CreateReplay(t) == \E r \in Requests : \E c \in Holders(r.key) :
  /\ Arrives(t, r) /\ SameRequest(c, r)
  /\ h' = [h EXCEPT ![t].pc = "check", ![t].id = c, ![t].seen = status[c]]
  /\ answers' = answers \union {<<r, c>>}

CreateConflict(t) == \E r \in Requests : \E c \in Holders(r.key) :
  /\ Arrives(t, r) /\ ~SameRequest(c, r)
  /\ answers' = answers \union {<<r, None>>}
  /\ UNCHANGED h

FirstStatus_Unguarded(tool) == "queued"
FirstStatus(tool) ==
  IF ApprovalRequired(tool) THEN "awaiting_approval" ELSE "queued"

(* UNIQUE(user_id, idempotency_key): a key taken since the lookup fails    *)
(* the insert, and the request.                                            *)
KeyTaken_NoIndex(r) == FALSE
KeyTaken(r) == Adapter = "postgres" /\ Holders(r.key) /= {}

(* store.createCommand.                                                    *)
InsertCommand(t) ==
  /\ At(t, "insert")
  /\ LET r == h[t].arg
         first == FirstStatus(r.tool)
     IN  IF KeyTaken(r)
         THEN /\ h' = [h EXCEPT ![t] = Idle]
              /\ UNCHANGED <<store, answers>>
         ELSE \E c \in {c \in CmdId : ~Stored(c)} :
              /\ status' = [status EXCEPT ![c] = first]
              /\ request' = [request EXCEPT ![c] = AsStored(r)]
              /\ answers' = answers \union {<<r, c>>}
              /\ h' = [h EXCEPT ![t] = [Idle EXCEPT !.id = c, !.seen = first,
                         !.pc = IF ApprovalRequired(r.tool)
                                THEN "insertApproval" ELSE "created"]]
              /\ UNCHANGED <<approval, results>>
  /\ UNCHANGED <<audit, now, network, consent, faults>>

InsertApproval(t) ==
  /\ At(t, "insertApproval")
  /\ approval' = [approval EXCEPT ![h[t].id].decision = "pending"]
  /\ h' = [h EXCEPT ![t].pc = "created"]
  /\ UNCHANGED <<status, request, results, audit, now, network, history>>

(* audit.record of the step just taken; creations and decisions go on to   *)
(* tryDispatch.                                                            *)
AuditKind(t) ==
  CASE h[t].pc = "created"                           -> "created"
    [] h[t].pc = "audit" /\ h[t].seen = "queued"    -> "approved"
    [] h[t].pc = "audit" /\ h[t].seen = "cancelled" -> "denied"
    [] OTHER                                         -> h[t].seen

RecordAudit(t) ==
  /\ At(t, "created") \/ At(t, "audit")
  /\ audit' = audit \union {<<h[t].id, AuditKind(t)>>}
  /\ IF AuditKind(t) \in {"created", "approved", "denied"}
     THEN h' = [h EXCEPT ![t].pc = "dispatch"]
     ELSE Return(t)
  /\ UNCHANGED <<store, now, network, history>>

-----------------------------------------------------------------------------
(* get() and decide() read the command, then test its expiry.              *)
Read_Unchecked(t) ==
  /\ At(t, "idle")
  /\ \E c \in CmdId :
       h' = [h EXCEPT ![t].pc = "check", ![t].id = c, ![t].seen = status[c]]
  /\ UNCHANGED <<store, audit, now, network, history>>

Read(t) ==
  /\ At(t, "idle")
  /\ \E c \in CmdId :
       /\ Stored(c)
       /\ h' = [h EXCEPT ![t].pc = "check", ![t].id = c, ![t].seen = status[c]]
  /\ UNCHANGED <<store, audit, now, network, history>>

(* expireIfNeeded: a command past its expiry that is not terminal in the   *)
(* snapshot is about to be written as expired; decide() goes on only with  *)
(* one that awaits approval.                                               *)
Overdue_QueuedOnly(t) == Expired(h[t].id) /\ h[t].seen = "queued"
Overdue(t) == Expired(h[t].id) /\ h[t].seen \notin Terminal
Expire(t) == h' = [h EXCEPT ![t].pc = "update", ![t].seen = "expired"]

CheckExpiry(t) ==
  /\ At(t, "check")
  /\ \/ Overdue(t) /\ Expire(t)
     \/ /\ ~Overdue(t)
        /\ IF t \in Decides /\ h[t].seen = "awaiting_approval"
           THEN h' = [h EXCEPT ![t].pc = "getApproval"]
           ELSE Return(t)
  /\ UNCHANGED <<store, audit, now, network, history>>

(* decide(): a pending approval takes the user's decision, an approval of  *)
(* a destructive or privileged tool only with a biometric check.           *)
Refused_AnyApprover(c, approve, biometric) == approval[c].decision /= "pending"
Refused(c, approve, biometric) ==
  \/ approval[c].decision /= "pending"
  \/ BiometricRequired(ToolOf(c)) /\ approve /\ ~biometric

GetApproval(t) == \E approve, biometric \in BOOLEAN :
  LET c == h[t].id
  IN  /\ At(t, "getApproval")
      /\ IF Refused(c, approve, biometric)
         THEN h' = [h EXCEPT ![t] = Idle] /\ UNCHANGED consent
         ELSE /\ h' = [h EXCEPT ![t].pc = "updateApproval",
                   ![t].held = [approval[c] EXCEPT
                     !.decision = IF approve THEN "approved" ELSE "denied"],
                   ![t].seen = IF approve THEN "queued" ELSE "cancelled"]
              /\ consent' = IF approve THEN consent \union {<<c, biometric>>}
                                       ELSE consent
      /\ UNCHANGED <<store, audit, now, network, answers, faults>>

(* store.updateApproval writes the whole row from the handler's copy:      *)
(* decide()'s decision, or tryDispatch's consumedAt. Either writes the     *)
(* command next.                                                           *)
UpdateApproval_DenialEnds(t) ==
  /\ At(t, "updateApproval")
  /\ approval' = [approval EXCEPT ![h[t].id] = h[t].held]
  /\ IF h[t].held.decision = "denied" THEN h' = [h EXCEPT ![t] = Idle]
                                      ELSE h' = [h EXCEPT ![t].pc = "update"]
  /\ UNCHANGED <<status, request, results, audit, now, network, history>>

UpdateApproval(t) ==
  /\ At(t, "updateApproval")
  /\ approval' = [approval EXCEPT ![h[t].id] = h[t].held]
  /\ h' = [h EXCEPT ![t].pc = "update"]
  /\ UNCHANGED <<status, request, results, audit, now, network, history>>

(* store.updateCommand writes the handler's status over whatever is there. *)
UpdateCommand(t) ==
  /\ At(t, "update")
  /\ status' = [status EXCEPT ![h[t].id] = h[t].seen]
  /\ h' = [h EXCEPT ![t].pc = IF h[t].seen = "dispatched" THEN "send" ELSE "audit"]
  /\ UNCHANGED <<request, approval, results, audit, now, network, history>>

-----------------------------------------------------------------------------
(* The statuses tryDispatch and listDispatchableCommands act on.           *)
Dispatchable_QueuedOnly == {"queued"}
Dispatchable == {"queued", "dispatched"}

(* tryDispatch up to its first await, all on the handler's snapshot.       *)
TryDispatch(t) ==
  LET c == h[t].id
      due == h[t].seen \in Dispatchable
  IN  /\ At(t, "dispatch")
      /\ \/ due /\ Expired(c) /\ Expire(t)
         \/ /\ ~due \/ (~Expired(c) /\ DeviceOf(c) \notin online)
            /\ Return(t)
         \/ /\ due /\ ~Expired(c) /\ DeviceOf(c) \in online
            /\ h' = [h EXCEPT
                 ![t].pc = IF h[t].seen = "dispatched" THEN "send"
                           ELSE IF ApprovalRequired(ToolOf(c))
                                THEN "readApproval" ELSE "update",
                 ![t].seen = IF ApprovalRequired(ToolOf(c)) THEN @ ELSE "dispatched"]
      /\ UNCHANGED <<store, audit, now, network, history>>

(* A queued command goes out only on an approved approval, consumed once.  *)
Consume_Forgotten(a) == a
Consume_Anew(a) == [NoApproval EXCEPT !.decision = "pending", !.consumed = TRUE]
Consume(a) == [a EXCEPT !.consumed = TRUE]

ReadApproval(t) ==
  LET a == approval[h[t].id]
  IN  /\ At(t, "readApproval")
      /\ IF a.decision = "approved"
         THEN h' = [h EXCEPT
                ![t].pc = IF a.consumed THEN "update" ELSE "updateApproval",
                ![t].held = Consume(a),
                ![t].seen = "dispatched"]
         ELSE Return(t)
      /\ UNCHANGED <<store, audit, now, network, history>>

(* ConnectionRegistry.send: the socket open now, if there is one.          *)
Send_Unaudited(t) ==
  LET c == h[t].id
      d == DeviceOf(c)
  IN  /\ At(t, "send")
      /\ IF d \in online
         THEN /\ session' = [session EXCEPT ![d] = @ \union {c}]
              /\ sent' = sent \union {c}
         ELSE UNCHANGED <<session, sent>>
      /\ Return(t)
      /\ UNCHANGED <<store, audit, now, online, history>>

Send_ClaimsAnyway(t) ==
  LET c == h[t].id
      d == DeviceOf(c)
  IN  /\ At(t, "send")
      /\ IF d \in online
         THEN /\ session' = [session EXCEPT ![d] = @ \union {c}]
              /\ sent' = sent \union {c}
         ELSE UNCHANGED <<session, sent>>
      /\ h' = [h EXCEPT ![t].pc = "audit"]
      /\ UNCHANGED <<store, audit, now, online, history>>

Send(t) ==
  LET c == h[t].id
      d == DeviceOf(c)
  IN  /\ At(t, "send")
      /\ IF d \in online
         THEN /\ session' = [session EXCEPT ![d] = @ \union {c}]
              /\ sent' = sent \union {c}
              /\ h' = [h EXCEPT ![t].pc = "audit"]
         ELSE Return(t) /\ UNCHANGED <<session, sent>>
      /\ UNCHANGED <<store, audit, now, online, history>>

-----------------------------------------------------------------------------
(* The device socket. A hello attaches the socket in place of any other;   *)
(* dispatchPendingForDevice then lists what may be sent. Postgres compares   *)
(* times, the memory store texts: a text in another form than now's may    *)
(* sort either way.                                                        *)
Hello(t) == \E d \in Device :
  /\ At(t, "idle")
  /\ online' = online \union {d}
  /\ session' = [session EXCEPT ![d] = {}]
  /\ h' = [h EXCEPT ![t].pc = "list", ![t].arg = d]
  /\ UNCHANGED <<store, audit, now, sent, history>>

ExpiresLater ==
  {later \in SUBSET CmdId : \A c \in CmdId :
     Stored(c) /\ request[c].form = "canonical" => (c \in later <=> ~Expired(c))}

ListPending(t) == \E later \in ExpiresLater :
  LET listed == {c \in later : /\ Stored(c) /\ DeviceOf(c) = h[t].arg
                               /\ status[c] \in Dispatchable}
  IN  /\ At(t, "list")
      /\ \/ listed = {} /\ h' = [h EXCEPT ![t] = Idle]
         \/ \E c \in listed :
              h' = [h EXCEPT ![t] = [Idle EXCEPT !.pc = "dispatch", !.id = c,
                     !.seen = status[c],
                     !.todo = {<<b, status[b]>> : b \in listed \ {c}}]]
      /\ UNCHANGED <<store, audit, now, network, history>>

(* acceptResult: a result for a command the device was sent; refused       *)
(* without effect unless the command is dispatched or running.             *)
Reportable_LateResults == {"dispatched", "running", "expired"}
Reportable == {"dispatched", "running"}

AcceptResult(t) == \E c \in sent, result \in ResultStatus :
  /\ At(t, "idle")
  /\ DeviceOf(c) \in online
  /\ status[c] \in Reportable
  /\ h' = [h EXCEPT ![t].pc = "save", ![t].id = c, ![t].seen = result]
  /\ UNCHANGED <<store, audit, now, network, history>>

SaveResult_KeepsFirst(t) ==
  /\ At(t, "save")
  /\ results' = [results EXCEPT ![h[t].id] = IF @ = "none" THEN h[t].seen ELSE @]
  /\ h' = [h EXCEPT ![t].pc = "update"]
  /\ UNCHANGED <<status, request, approval, audit, now, network, history>>

SaveResult(t) ==
  /\ At(t, "save")
  /\ results' = [results EXCEPT ![h[t].id] = h[t].seen]
  /\ h' = [h EXCEPT ![t].pc = "update"]
  /\ UNCHANGED <<status, request, approval, audit, now, network, history>>

(* The close of the socket in use.                                         *)
Disconnect(d) ==
  /\ d \in online /\ (Adapter = "memory" => Quiet)
  /\ online' = online \ {d}
  /\ session' = [session EXCEPT ![d] = {}]
  /\ UNCHANGED <<store, audit, now, sent, h, history>>

Tick ==
  /\ now < MaxNow /\ now' = now + 1
  /\ UNCHANGED <<store, audit, network, h, history>>

-----------------------------------------------------------------------------
(* The server stops and starts again: the rows stay, handlers and sockets  *)
(* are gone.                                                               *)
Fault(kind) == kind \in Faults /\ faults < MaxFaults /\ faults' = faults + 1

Restart ==
  /\ Fault("restart")
  /\ h' = [t \in Task |-> Idle]
  /\ online' = {} /\ session' = [d \in Device |-> {}]
  /\ UNCHANGED <<store, audit, now, sent, consent, answers>>

(* A query is refused by the database: the handler rejects, and what it    *)
(* still had to do is lost.                                                *)
QueryError(t) ==
  /\ Fault("query_error")
  /\ h[t].pc \notin {"idle", "check", "dispatch", "send"}
  /\ h' = [h EXCEPT ![t] = Idle]
  /\ UNCHANGED <<store, audit, now, network, consent, answers>>

Create(t) == CreateNew(t) \/ CreateReplay(t) \/ CreateConflict(t)

(* The steps of a handler that has started.                                *)
Continue(t) ==
  \/ InsertCommand(t) \/ InsertApproval(t) \/ RecordAudit(t)
  \/ CheckExpiry(t) \/ GetApproval(t) \/ UpdateApproval(t) \/ UpdateCommand(t)
  \/ TryDispatch(t) \/ ReadApproval(t) \/ Send(t) \/ ListPending(t) \/ SaveResult(t)

Next ==
  \/ \E t \in Creates : Create(t)
  \/ \E t \in Decides \union Reads : Read(t)
  \/ \E t \in Hellos : Hello(t)
  \/ \E t \in Reports : AcceptResult(t)
  \/ \E t \in Task : Continue(t) \/ QueryError(t)
  \/ \E d \in Device : Disconnect(d)
  \/ Tick \/ Restart

Spec == Init /\ [][Next]_vars

(* Fairness: Node runs a handler whose query has answered, the clock moves *)
(* on, and a signed-in client keeps polling every command it can see.      *)
ReadOf(t, c) == Read(t) /\ h'[t].id = c
Fairness ==
  /\ WF_vars(Tick)
  /\ \A t \in Task : WF_vars(Continue(t))
  /\ \A t \in Reads, c \in CmdId : SF_vars(ReadOf(t, c))

FairSpec == Spec /\ Fairness

-----------------------------------------------------------------------------
(* A handler x carries what the await it stands at goes on to use.         *)
HandlerOK(x) ==
  /\ x.pc = "insert" => x.arg \in Requests
  /\ x.pc = "list" => x.arg \in Device
  /\ x.pc = "save" => x.seen \in ResultStatus
  /\ x.pc \notin {"idle", "insert", "list"} =>
       x.id \in CmdId /\ Stored(x.id) /\ x.seen \in Status
  /\ \A p \in x.todo : Stored(p[1])

HandlersOK == h \in [Task -> Handler] /\ \A t \in Task : HandlerOK(h[t])

TablesOK ==
  /\ status \in [CmdId -> Status \union {"absent"}]
  /\ request \in [CmdId -> Request \union {None}]
  /\ \A c \in CmdId : Stored(c) <=> request[c] /= None
  /\ approval \in [CmdId -> Approval]
  /\ results \in [CmdId -> ResultStatus \union {"none"}]
  /\ audit \subseteq CmdId \X (Status \union {"created", "approved", "denied"})
  /\ now \in Time
  /\ online \subseteq Device /\ session \in [Device -> SUBSET CmdId]
  /\ sent \subseteq {c \in CmdId : Stored(c)}
  /\ consent \subseteq CmdId \X BOOLEAN
  /\ answers \subseteq Requests \X (CmdId \union {None})
  /\ faults \in 0..MaxFaults

(* Every table, socket and handler holds values of its type; rows, sent    *)
(* commands and the snapshots of handlers are of stored commands.          *)
TypeOK == TablesOK /\ HandlersOK

(* No device is ever sent a command of a tool that needs an approval unless *)
(* the user's approval of that command was accepted, after a biometric check *)
(* when the tool asks for one - however decisions, expiries, results and   *)
(* reconnections overlap, across restarts and failing queries.             *)
Consented(c) ==
  /\ ApprovalRequired(ToolOf(c)) => \E b \in BOOLEAN : <<c, b>> \in consent
  /\ BiometricRequired(ToolOf(c)) => <<c, TRUE>> \in consent
ConsentBeforeDispatch == \A c \in sent : Consented(c)

(* Why: a status past the approval, an approved approval, and every copy   *)
(* of either that a handler still holds and may write back, is of a        *)
(* command whose approval was accepted - stale copies included.            *)
Live == {"queued", "dispatched", "running", "succeeded", "failed"}
HolderConsented(x) ==
  /\ x.pc \notin {"idle", "insert", "list"} /\ x.seen \in Live => Consented(x.id)
  /\ x.pc = "send" => Consented(x.id)
  /\ x.pc = "updateApproval" /\ x.held.decision = "approved" => Consented(x.id)
  /\ \A p \in x.todo : p[2] \in Live => Consented(p[1])
ConsentHeld ==
  /\ \A c \in CmdId : status[c] \in Live => Consented(c)
  /\ \A c \in CmdId : approval[c].decision = "approved" => Stored(c) /\ Consented(c)
  /\ \A t \in Task : HolderConsented(h[t])
  /\ ConsentBeforeDispatch

(* Whatever retries and concurrent creations arrive, an idempotency key    *)
(* names at most one stored command.                                       *)
OneCommandPerKey ==
  \A b, c \in CmdId :
    Stored(b) /\ Stored(c) /\ request[b].key = request[c].key => b = c

(* Why, with the memory adapter: from its lookup to its insert a creation  *)
(* is alone, and its key stays free. In Postgres the index refuses.        *)
KeyReserved ==
  Adapter = "memory" =>
    \A t \in Task : h[t].pc = "insert" =>
      Holders(h[t].arg.key) = {} /\ \A u \in Task \ {t} : h[u] = Idle

(* No lost wake-up between a decision or creation that finds the device    *)
(* offline and the hello that lists what is pending: once handlers are     *)
(* done, the open socket was sent every live command cleared for dispatch. *)
Cleared(c) ==
  \/ status[c] = "dispatched"
  \/ status[c] = "queued" /\ (ApprovalRequired(ToolOf(c)) =>
                               approval[c].decision = "approved")
NothingForgotten ==
  Quiet => \A c \in CmdId :
    Stored(c) /\ ~Expired(c) /\ DeviceOf(c) \in online /\ Cleared(c) =>
      c \in session[DeviceOf(c)]

(* A command left awaiting approval by finished handlers can still be      *)
(* decided: decisions that race each other and the expiry never leave it   *)
(* awaiting with its approval spent or missing.                            *)
AwaitingCanBeDecided ==
  Quiet => \A c \in CmdId :
    status[c] = "awaiting_approval" => approval[c].decision = "pending"

(* Once handlers are done, what became of a command is in the audit log,   *)
(* and so is the approval behind anything sent.                            *)
EveryOutcomeAudited ==
  Quiet => \A c \in CmdId :
    /\ status[c] \in {"running", "succeeded", "failed", "expired"} =>
         <<c, status[c]>> \in audit
    /\ status[c] = "cancelled" => <<c, "denied">> \in audit
    /\ c \in sent => {<<c, "created">>, <<c, "dispatched">>} \subseteq audit
    /\ c \in sent /\ ApprovalRequired(ToolOf(c)) => <<c, "approved">> \in audit

(* The audit log claims nothing that did not happen: a recorded approval   *)
(* was accepted, what is recorded as dispatched, running or finished was   *)
(* sent, and nothing is recorded as expired before its time - whatever     *)
(* races, and whichever step a restart or a failing query comes between.   *)
AuditIsTrue ==
  \A c \in CmdId :
    /\ <<c, "approved">> \in audit => \E b \in BOOLEAN : <<c, b>> \in consent
    /\ \A kind \in {"dispatched"} \union ResultStatus : <<c, kind>> \in audit => c \in sent
    /\ <<c, "expired">> \in audit => Stored(c) /\ Expired(c)

(* What a device was sent stands on an approval that is still approved,    *)
(* and consumed: no later decision takes it back.                          *)
SentStandsOnApproval ==
  \A c \in sent : ApprovalRequired(ToolOf(c)) =>
    approval[c] = [decision |-> "approved", consumed |-> TRUE]

(* The result the client reads agrees with the status of a finished        *)
(* command.                                                                *)
ResultsAgree ==
  Quiet => \A c \in CmdId :
    status[c] \in ResultStatus => results[c] = status[c]

(* An identical retry of a stored creation is answered with its command,   *)
(* never refused as another use of the key.                                *)
RetryIsRecognised ==
  \A r \in Requests, c \in CmdId :
    <<r, c>> \in answers => <<r, None>> \notin answers

(* A terminal command never changes again.                                 *)
TerminalIsFinal ==
  [][\A c \in CmdId : status[c] \in Terminal => status'[c] = status[c]]_vars

(* An approval is decided once: no later write turns the decision over.    *)
OneTimeDecision ==
  [][\A c \in CmdId : approval[c].decision \in {"approved", "denied"} =>
       approval'[c].decision = approval[c].decision]_vars

(* Every stored command ends, and stays, in a terminal status: also when a *)
(* restart left it half created or half decided, expiry closes it.         *)
Settles ==
  \A c \in CmdId : Stored(c) ~> [](status[c] \in Terminal)

(* With the memory adapter the service keeps the promise of the abstract   *)
(* lifecycle: each step is one of its moves or leaves it alone.            *)
Lifecycle == INSTANCE CommandLifecycle WITH
  Command <- CmdId, phase <- status, delivered <- sent,
  guarded <- {c \in CmdId : Stored(c) /\ ApprovalRequired(ToolOf(c))},
  ruling <- [c \in CmdId |-> IF approval[c].decision \in {"approved", "denied"}
                             THEN approval[c].decision ELSE "open"]
FollowsLifecycle == Lifecycle!Spec

(* No handler stands at a write of command c while another holds a copy of *)
(* it: what single flight per command, or a lock on its row, would ensure. *)
AtWrite(x) == x.pc \in {"insertApproval", "updateApproval", "update", "save"}
Handles(x) == {x.id} \union {p[1] : p \in x.todo}
Undisturbed(c) ==
  \A t \in Task : AtWrite(h[t]) /\ h[t].id = c =>
    \A u \in Task \ {t} : c \notin Handles(h[u])

(* The lifecycle of one command, whatever becomes of the others.           *)
LifecycleOf(c) == INSTANCE CommandLifecycle WITH
  Command <- {c}, phase <- [d \in {c} |-> status[d]],
  delivered <- sent \intersect {c},
  guarded <- {d \in {c} : Stored(d) /\ ApprovalRequired(ToolOf(d))},
  ruling <- [d \in {c} |-> IF approval[d].decision \in {"approved", "denied"}
                           THEN approval[d].decision ELSE "open"]
=============================================================================
