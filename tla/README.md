# Continuum: TLA+ models, checks and proofs

Continuum lets a user's clients run commands on the user's own computers. A
NestJS/Fastify control plane (`apps/api`) stores commands, approvals, audit
events, improvement candidates and file versions; a Tauri/React client
(`apps/client`) is both the controller and, on a desktop, the executor that
holds operating-system authority; `packages/protocol` owns schemas and the tool
policy. This directory models the parts of it that are concurrent or that decide
what may run.

    tlc -workers 2 -config consent.cfg MCCommandService     # a run
    tlapm CommandServiceProofs.tla                          # the proofs

`PROJECT.json` lists runs, seeded faults, the source lines each definition
stands for, hazards, findings and theorems.

## 1. Inventory

| Component | State | Operations | What makes it correct | Module |
|---|---|---|---|---|
| Tool policy (`protocol/src/policy.ts`) | none | risk, approval and biometric rules of a tool | destructive and privileged tools are guarded | `ToolPolicy` |
| Command service (`commands/command.service.ts`) | rows of commands, approvals, results | create, decide, get, dispatch, dispatchPendingForDevice, acceptResult, expireIfNeeded | nothing sent without consent; one command per key; one decision; terminal is final; every outcome audited; everything ends | `CommandService`, `CommandLifecycle` |
| State store (`storage/*.ts`, `001_initial.sql`) | tables, or maps | one query each | unique indexes; what a query sees | in the services' modules |
| Audit (`audit.service.ts`) | events | record | follows what happened | in the services' modules |
| Gateway, registry (`realtime/*.ts`) | socket of each device, device of each socket | hello, heartbeat, result, close, WebRTC relay | one open socket per device, presence true in the end | `DevicePresence`; as commands see it, `CommandService` |
| Device service (`device.service.ts`) | devices | register, authenticate, setPresence | a name that was answered stays taken; presence | `DeviceRegistration`, `DevicePresence` |
| Local executor (`client/src/executor.ts`) | socket, cache of final results, executions | execute, replay, report | runs only what was consented to, and again only what it has no result of | `ExecutorSystem` |
| Improvement candidates (`improvements/*.ts`) | candidates, BullMQ jobs | create, evaluate, activate, rollback, worker | active only if evaluated and chosen; one active; rollback restores | `ImprovementCandidates` |
| File sync (`sync/*.ts`) | versions, head by date | registerVersion, signUpload | of two versions from one base one is flagged; no flag without a rival | `FileSync` |
| Native commands (`src-tauri/src/lib.rs`) | approved roots, temporary files, the disk | read, write, trash, approve a root | a file is never half written; a reported success happened | `NativeExecutor` |
| Result cache (`client/src/executor.ts`) | the last 500 final results | store, replay, evict | a recent command is replayed, not executed | `ResultCache`, used by `ExecutorSystem` and `NativeExecutor` |
| Client session (`auth.ts`, `api.ts`, `server-config.ts`) | server connection, tokens, the login under way | login, complete, refresh, request and retry, logout, change of server | a request takes effect once, where it was sent; a session survives parallel refreshes and forgets another server's tokens | `ClientSession` |
| Memory service (`memory.service.ts`), auth guard | memories | create, list, admit or refuse | what was reported as created is stored and recorded | in `ClientSession` |
| User interface (`App.tsx`, `main.tsx`) | view state | the ten-second poll, forms | | its poll, the creation of a memory and the server form in `ClientSession` |
| WebRTC wrapper, AI provider, deployment | none | | | not modelled: see section 8 |

**How they interact.** A request creates a command; a guarded tool waits for a
decision; `tryDispatch` then sends it through `ConnectionRegistry` if the
executor is connected, otherwise its next `device.hello` makes
`dispatchPendingForDevice` send whatever is pending. The executor reports
`running`, then a final result, over the same socket; `acceptResult` stores it.
Nothing schedules expiry: every read of a command tests it (`expireIfNeeded`).
Candidates are evaluated by requests and by a BullMQ worker of concurrency two.
In the client, `api.ts` puts the stored access token on each request, refreshes it
after a 401 and sends the request once more; the login, the logout and the server
form replace what is stored under requests that are under way, and reload the page.
The executor, in the same page, awaits native commands, which the Tauri process
runs whether or not the page is still there.

**What is hard.** Each service method is a sequence of awaited queries without a
transaction or a condition on what is overwritten (`UPDATE ... WHERE id=$1`).
With Postgres any other handler may run at every await; with the memory store an
awaited call resolves at once, and the next handler starts only when this one is
done. On top of that: sockets that close or are replaced while a handler runs,
results that are repeated or lost, failing queries and restarts between two
writes, jobs that are retried, and times compared as texts. In the client: the page ends
between any two awaits, local storage is read again after each of them, and the
process can be killed in the middle of a write.

## 2. Modules

### ToolPolicy
The tools of each risk level and the two rules on them, from `TOOL_POLICIES`.

### CommandService, MCCommandService
One user. `Task` is the set of handlers being served: `Creates`, `Decides`,
`Reads`, `Hellos` and `Reports` bound how many of each kind run at once. `h[t]`
records the await at which handler `t` stands (`pc`), the command, the *copies* of
the status (`seen`) and approval (`held`) it has read, and the rest of the loop of
`dispatchPendingForDevice` (`todo`). One query is one step.

| TLA+ | code |
|---|---|
| `CreateNew`, `CreateReplay`, `CreateConflict`, `InsertCommand`, `InsertApproval` | `create`, and the `UNIQUE(user_id, idempotency_key)` index (`KeyTaken`) |
| `Read`, `CheckExpiry`, `Expire` | `get` and `expireIfNeeded` |
| `GetApproval`, `UpdateApproval`, `UpdateCommand` | `decide` |
| `TryDispatch`, `ReadApproval`, `Consume`, `Send` | `tryDispatch` |
| `Hello`, `ListPending`, `Return` | `device.hello`, `listDispatchableCommands` and the loop over it |
| `AcceptResult`, `SaveResult` | `acceptResult` |
| `RecordAudit` | `audit.record`, an await of its own |
| `Disconnect`, `Restart`, `QueryError`, `Tick` | the socket, the process, the database, the clock |

`Adapter` selects the store. `Turn` is the difference in scheduling; `AsStored`
the form a timestamp comes back in; `ExpiresLater` the text comparison of the
memory store. `sent`, `consent` and `answers` are histories for the properties.
A definition called `Name_Fault` is `Name` with a plausible bug in it; no
specification uses it, and replacing `Name` by it makes TLC report the property it
is listed with in `PROJECT.json`.

### CommandLifecycle
What a client may rely on, without handlers or copies: phases that never go
back, a ruling made once, delivery of approved commands only. `CommandService`
instantiates it (`FollowsLifecycle`) with a refinement mapping: `phase` is the
status column, `ruling` the approval's decision, `delivered` the history `sent`,
and a command is guarded when it is stored and its tool needs an approval.
`LifecycleOf(c)` is the same for one command alone. `Undisturbed(c)` names what a
lock on its row would ensure: no handler is about to write command `c` while another
holds a copy of it. Section 6 proves what holds of such commands.

### ResultCache
`cacheResult` of `executor.ts` as operators on the order of the commands in the
stored object: `WithEntry` adds one and `Trimmed` keeps the last `limit` of them, 500
in the code. `NewerWith` is a history: the commands that entered the cache after each
command did. The two modules with an executor share it.

### ExecutorSystem, MCExecutorSystem
`CommandService` with the executor at the far end of the socket: dispatches on
their way (`inbox`), executions under way and whether their socket is still the
one in use (`executing`), the result cache in local storage (`cache`, `entry`) with its
limit `MaxCache`, result messages on their way (`reports`), and histories. An execution
ends in `Finish`, which caches and sends the result, or in `StorageFull`, the `setItem`
that throws, after which it is neither cached nor sent. There is one device
(`OneDeviceAssumption`): every device has a socket and a cache of its own. `Dispatched`,
`TakeReport` and `SocketGone` join a server step to what it means for the socket. A closed socket
loses its messages and not its executions: they finish, are cached, and their
report is dropped. `ExecutorStops` ends the application with its executions; the
cache survives. Result messages are a set, because the reads their handlers start
with can overtake each other in the connection pool.

`MCExecutorSystem` lets a behaviour explore one of two parts (`explored`): one command
from its creation on, with its expiry; or two commands that are stored while the
device is offline and then compete for the cache (`BothStored`). The second part is
where an entry is evicted and its command executed again.

### ImprovementCandidates, MCImprovementCandidates
One user and one kind of candidate, numbered in creation order. A candidate's text
is the set of the qualities `evaluateCandidateContent` tests. Handlers are as
above; `jobs` holds the attempts left of each BullMQ job, and a worker takes a
job no other worker has. `Refused` is the partial unique index
`one_active_candidate_per_kind`. A handler writes back the whole row it read, so
`WriteEvaluation` sets a status whatever the row holds by then; `SoleEvaluation` says
that no two handlers are about to do so to one candidate.
With the memory adapter only the call that queues a job can fail or let another
handler run (`AtQueue`). `MCImprovementQueue` lets two tasks work in a behaviour, chosen at its start: two of
the user's requests, or one and a worker.

### DevicePresence
The sockets of one device, the registry's two maps, hellos being authenticated,
and presence writes that were issued and not made yet; the pool may make them in
any order. With the memory adapter each event is handled to its end first.

### DeviceRegistration, MCDevice
`DeviceService.register`: `ListDevices` compares the new name with those of the
user's devices whatever its case (`NameTaken`), `CreateDevice` inserts the row,
`RecordRegistered` the audit event and the answer with the credential. `earlier` is
a history: the registrations already answered when each one arrived. `MCDevice`
checks it beside `DevicePresence`: presence and registration touch different columns
of a device's row, so a behaviour `explored` one of them while the other rests.

### ClientSession
The session of one page of the client with two or more servers, each with its own
identity provider. Access and refresh token are stored and removed in one piece of
code, so one variable (`held`) says whose they are and `fresh` whether the access
token is still valid. `q[r]` is where request `r` stands, the server it was last
sent to and the token it was sent with.

| TLA+ | code |
|---|---|
| `Submit`, `Succeed`, `Fail` | `request` in `api.ts`, to the parsed answer or the error |
| `RefreshOrFail`, `Granted`, `Denied` | the 401 branch of `request`, and `refreshAccessToken` in `auth.ts` |
| `Grant`, `Deny` | the token endpoint of the identity provider (external) |
| `Admit`, `Refuse`, `CreateMemory`, `RecordCreated`, `List`, `ServerError` | `AuthGuard`, `MemoryService.create` and `list`, a failing query |
| `NetworkError` | a `fetch` that rejects, whatever the API has done or will do |
| `Login`, `Return`, `Render`, `CompleteLogin`, `LoginFails`, `Revisit`, `Reopen` | `login`, `completeLoginIfNeeded`, `main.tsx` |
| `Logout`, `ChangeServer`, `Unload`, `Reload`, `Expire` | `logout`, the server form with `saveServerConnection`, the end of the page, the clock |

`made` keeps of each stored memory the request, the server and whether it was the
second try; `q[r].first` is a history: the server the request was first sent to.

### NativeExecutor, MCClient
The executor from a dispatch to the disk. `Executed` and `Replayed` are the two ways the
message listener takes; `Finished` caches and sends a result (`CacheResult`, with the
limit `MaxCache`), `StorageFull` is the `setItem` that throws. Tauri runs
commands that are not `async` on its main thread, so `native` is one command: it
resolves its path under the approved root (`Resolve`, or `Fails`), and reads, trashes,
or writes through `CreateTemp`, `WriteTemp`, `Rename` and, after a failure, `Discard`.
`PageReloads` forgets the executions that wait and leaves the native commands running;
`Killed` ends the process between any two steps and loses the approved roots.
A file is `whole`, `partial` or `absent`; `placed` and `newer` are histories: the
executions that had their effect, and the commands cached after each command.
`ExecutorSystem` has the same executor with the same cache and an execution of one
step, against the real server; this module has an arbitrary server, and the inside of
an execution. `MCClient` checks session and executor side by side; they meet
only where the page is reloaded.

### FileSync
`registerVersion` for the files of one root. A request reads the head (`ReadHead`),
and when the answer is there takes flag, id and time at once (`Stamp`), inserts the
row (`CreateSyncVersion`) and records it (`RecordVersion`): four steps, with the
other requests and the clock between them. `known`, the file's versions stored when
the head was read, is a history variable. Dates have milliseconds, so heads can tie:
the memory store's stable sort then takes the first, Postgres any. `Serialized`
says that no two registrations of one file are between head read and insert at once.

### Proof modules
`CommandServiceProofs`, `ExecutorSystemProofs`, `ImprovementProofs`, `DeviceProofs`
(presence and registration), `FileSyncProofs`, `ClientSessionProofs`,
`NativeExecutorProofs`, and `ResultCacheProofs` with the lemmas on the cache that both
executors' proofs cite: section 6.

## 3. Runs

| Run | Instance | Shows |
|---|---|---|
| `consent` | Postgres, one destructive command, one creation, two decisions, one hello at a time, the clock passing its expiry | nothing sent without an accepted, biometric approval (`ConsentBeforeDispatch`) and its inductive form `ConsentHeld`; racing decisions and expiry leave no undecidable command; no lost wake-up between dispatch and hello (`NothingForgotten`); every outcome is in the audit log (`EveryOutcomeAudited`), and the log claims nothing that did not happen (`AuditIsTrue`) |
| `keys` | Postgres, two concurrent creations of one destructive command, two ids, one key, a decision, a restart or failing query | an idempotency key names one command; one half created or half decided still ends, and stays ended |
| `memory` | memory adapter, a read and a destructive command with two expiries, the first one's key used again with another body, one handler of every kind | refines `CommandLifecycle`; one decision, terminal is final and always reached, results agree with statuses, retries recognised, what was sent stands on a consumed approval |
| `executor` | Postgres with the executor, one restart, full local storage, two executions of a command at most; a read command from its creation on, with its expiry, or two stored ones, three executions and a cache of one result | what row, result or audit log hold as outcome was an execution's; a command whose result is stored is executed again only after as many others entered the cache as it keeps (`RerunsOnlyOnceEvicted`) |
| `improve_activation` | Postgres, two candidates that pass, two of the user's requests or a request and a worker, one failing query, two attempts of a job | at most one candidate is active; every queued draft is evaluated |
| `improve_memory` | memory adapter, three candidates of which one falls short, two requests and a worker, the queue failing once | what is active was chosen by the user and passes; activation is not undone by evaluations, and none leaves the user without an active candidate |
| `sync` | Postgres, two files, two registrations at once, three versions, a clock of three values, one failing query | a branch is flagged unless neither registration saw the other's version or the clock stood still; flags have rivals; branches are in the log |
| `device` | Postgres, three sockets of a device; three registrations, two with names that differ in case, with failing queries | the accepted open socket is the registered one; presence becomes true of a device that stays connected; an answered name stays taken |
| `client` | two servers, a creation and a repeated read at once; a write, a trash and a read of two paths, a cache of one result, three executions, one kill | a creation takes effect once, where it was made for, and is done only if recorded; a page that stays open ends signed out or with valid tokens of its server; no half-written file, no success without effect, no early second execution |
| `bug_decision`, `bug_rollback`, `bug_twice` | see section 4 | violations |

**Bounds.** One command (two where keys or the dispatch loop matter), one device:
no step relates two devices. Two handlers of a kind are what a lost update takes;
two creations what a race on a key takes; three sockets let a socket be replaced
by one that is replaced itself. `MaxNow` lets the clock pass each expiry; `MaxRuns`
two is the least that shows a second execution. In `executor`, two commands and a
cache of one entry are the least that evict a result, and the third execution is the
one of the evicted command: the run reaches it, where the restart left the row
`dispatched` behind a stored result. The two commands are interchangeable and start
alike, so the symmetry is sound for these safety properties.
Three candidates give a rollback two to choose from. Three versions are a base and two
branches; files and requests of `sync` are interchangeable, so its symmetry is sound. In `client`, two
requests are what a parallel refresh takes and two servers what a change takes; a
cache of one entry and three executions are the least that evict a result and
execute its command again. `AuditIsTrue` was also run once on the instances of `memory`
and `executor`, and with faults on that of `consent`; `BothBranchesFlagged` and
`ActiveStays` once with Postgres in the states where `Serialized` and
`SoleEvaluation` hold (0.26 and 1.0 million), and `NotWithoutActive` there with three
candidates and no fault (9.6 million): no violation. The same modules were run once with two polls (1.1 million
states) and, for the executor, with four executions and a cache of one and of two
(2.6 million): nothing new. The theorems of section 6 have none
of these bounds. `CHECK_DEADLOCK FALSE` everywhere: with bounded clocks, sockets
and faults an idle system may stop.

## 4. Divergences

Kept as runs that TLC must find violated:

* `bug_decision` (`OneTimeDecision`, Postgres). `decide` reads command and
  approval and later writes both without a condition. Two concurrent decisions
  both pass the `pending` check and the later turns the earlier over; README and
  `command.service.test.ts` call the decision one-time. `ConsentBeforeDispatch`
  survives: consent was given, then overwritten.
* `bug_rollback` (`RollbackRestoresPrevious`). Being replaced and being rolled back
  leave the same status, and `rollback` picks the newest by creation date; the
  architecture document says it "restores the previous active version".
* `bug_twice` (`NeverExecutesTwice`). Only finished executions are cached. A device
  that reconnects while executing, before `running` is stored, is sent the
  command again and executes it again; the architecture document says replayed
  commands never execute twice. What holds is `RerunsOnlyOnceEvicted`: once the server
  has stored a result, the command is executed again only after as many others
  entered the executor's cache as it keeps. That can happen: `acceptResult` stores the
  result and then updates the row (`command.service.ts:184-185`), so a restart between
  the two, or a stale write of `dispatched`, leaves a command that the next hello sends
  again, and after 500 other results its entry is gone.

Also shown by TLC with the same modules, when the named property is added to a
configuration with the other adapter; they are the reason those properties are
checked with the adapter they are:

* `TerminalIsFinal` fails with Postgres: two result messages, or a result and an
  expiry, that both read the command before either writes (`acceptResult`,
  `expireIfNeeded`) reopen a terminal command.
* `ActiveStays` fails with Postgres: a worker's evaluation of what was a draft
  overwrites the candidate the user has evaluated and activated meanwhile; it takes
  two evaluations of one candidate at once (`ActiveStaysUnderSoleEvaluation`).
  `NotWithoutActive` fails with it, and when a query fails, or the process ends, between
  retiring the active candidate and activating the next (`improvement.service.ts:89`):
  then no candidate is active, and nothing repairs it before the user's next activation.
  The memory adapter, with which `improve_memory` checks it, has no such failure.
* `RetryIsRecognised` fails with Postgres for an expiry with an offset or without
  milliseconds: `create` compares the text the client sent with what
  `toISOString` made of it.
* `NothingForgotten` fails with the memory adapter for such an expiry, which
  `listDispatchableCommands` compares with now as text.
* In `DevicePresence`, with no write pending, `online` can be false of a connected
  device (the close of the socket it replaced came later; a heartbeat repairs it)
  and true of one without a socket (it closed while its hello was being
  authenticated; nothing repairs it).
* `BothBranchesFlagged` (architecture document: preserve both branches when the base
  is not the head; `sync.service.test.ts` expects the second of two versions from one
  base to be a conflict) fails with Postgres when two registrations read the head
  before either inserts; section 6 proves it of registrations that do not overlap. It
  excepts a version made in its base's very millisecond, which either adapter may
  leave unflagged. `BranchesAreFlagged` states exactly these exceptions. Both rows
  are kept in any case; only the flag is missing.
* Two overlapping registrations of one name both succeed with Postgres
  (`AnsweredNameIsTaken` excepts them): no index forbids the second row.

Seen while modelling; the modules behave so, and no property promises otherwise:

* The server form tells the user that changing the domain deletes the login tokens
  (`App.tsx:551`). A refresh under way at that moment stores them again before the
  page is reloaded, and after a logout signs the user in again (`auth.ts:118`).
  `SessionSettles` shows that tokens of another server do not stay: the first poll
  of the new page drops them.
* Any error of the token endpoint, an outage included, signs the user out
  (`auth.ts:112`). A login address visited again leaves a blank page (`auth.ts:59`,
  `main.tsx:18`).
* A registration whose audit insert fails leaves a device whose credential nobody
  has, and its name taken (`device.service.ts:51`).
* A result that local storage has no room for is neither cached nor sent
  (`executor.ts:60`): the command stays `running`, until it expires if it has an
  expiry. A page reloaded during an execution executes the command again when it is
  dispatched again.
* Approved roots live in the process, and the executor connects by itself at the
  next start: until the user approves them again, file commands fail. Nothing fills
  `allowed_apps`, so `app.launch` always fails. A killed write leaves its temporary
  file, which nothing removes.
* Storing a result of a command that is cached already keeps the entry's place
  (`executor.ts:59`), so it is evicted by the age of its first result.
* Two dashboard refreshes may overlap, and the older answer be shown last, until the
  next poll (`App.tsx:188`).

## 5. Fairness

Liveness is checked under `FairSpec` only.

* `CommandService`: a handler whose query answers goes on (weak fairness of
  `Continue`: Node resumes it); the clock advances; a signed-in client polls the
  commands it can see every ten seconds (strong fairness of a read of each
  command, because a read has to wait for the memory store's running handler).
  Nothing is assumed of decisions, devices or faults. `Settles` needs the poll:
  no timer in the code expires commands.
* `ImprovementCandidates`: queries answer, and an idle worker takes a job. Strong
  fairness of `TakeJob`, because requests interrupt it with the memory adapter.
  `QueuedDraftsAreEvaluated` is checked with fewer faults than attempts; when all
  attempts fail BullMQ gives up and the draft stays a draft.
* `DevicePresence`: an authentication ends, a socket being closed is closed,
  presence writes are made, and an open socket's 20-second heartbeat keeps coming.
* `ClientSession`: the dashboard polls every ten seconds (weak fairness of a poll's
  `Submit` and of what the page does with an answer), a page that is left is left, and
  a network that is tried again and again lets an answer through (strong fairness of
  the answers of API and provider, and of what follows a refusal, because any fetch
  may fail meanwhile). Which answer it is, a grant or a denial, is left open, as are
  all the user's actions; `SessionSettles` speaks of pages that stay open.

## 6. Proofs

All proofs are checked by TLAPS, for every value of the constants under their
assumptions: requests within their type, a known adapter, natural-number bounds,
`None` outside the ids, task sets pairwise equal or disjoint.

* **`TypeCorrect`** (`CommandServiceProofs`): `TypeOK`. Its inductive part beyond
  types is `HandlerOK`: a handler past its first await refers to a stored command
  and carries what the await uses.
* **`ConsentPrecedesDispatch`**: `ConsentBeforeDispatch`. It is not inductive: a
  handler writes back copies of statuses and approvals that were read long ago.
  `ConsentHeld` is the strengthening: every stored status beyond approval, every
  approved approval, *and every copy of either that a handler may still write or
  act on* belongs to a command whose approval was accepted. Stale writes then move
  statuses about and never beyond consent. The proof takes `TypeOK` and goes action
  by action: `ConsentStart`, `ConsentContinue`, `ConsentAround`.
* **`ConsentIsHeld`**: that strengthening itself, which the runs check too.
* **`KeyNamesOneCommand`**: `OneCommandPerKey`, with Postgres from the index; with
  the memory adapter from `KeyReserved`: between its lookup and its insert a
  creation runs alone, and its key is free.
* **`NothingCanonicalIsForgotten`**: with either adapter, restarts and hellos, but no
  failing query (a failed list or write is a lost wake-up, and nothing repeats it
  before the next hello), `NothingForgotten` holds of every command whose stored
  `expiresAt` is canonical. The invariant `Attended` says of a live command that is
  cleared, while its device is online, that it was sent on the socket open now or some
  handler `Cares` for it: is about to send, dispatch or write it, has it left in its
  loop, or has yet to list the device. The case that matters is a handler that finds
  the device offline just before a hello opens the socket: by then the command is
  written, and the hello's handler cares for it until it has listed it.
  **`NothingIsForgotten`** is the whole property, where all forms are canonical: with
  Postgres, whose column makes them so, or when every client writes that form.
* **`AuditedUntilFault`, `DecidableUntilFault`**: `EveryOutcomeAudited` and
  `AwaitingCanBeDecided` hold in every state before the first fault, with either
  adapter and whatever faults the constants allow later (the code has no transaction
  around a write and its record, so after a fault both are false). `OutcomesRecorded`:
  an outcome that is stored is in the log or is owed by a handler between its write
  and its record. `AwaitingHandled`: a command that awaits approval has a pending one,
  or a handler that is about to insert it or to move the command on.
  **`OutcomesAreAudited`, `AwaitingIsDecidable`** are the cases without faults.
* **`AuditTellsTheTruth`**: `AuditIsTrue`, the converse, without any hypothesis: either
  adapter, restarts, failing queries, lost races. `Truthful` says of a handler that
  what it may yet record is true already; `NothingTakenBack`, that it stays so: accepted
  consents, sent commands and passed times are never undone.
* **One command at a time** (`UndisturbedIsKept` and the theorems after it). With
  Postgres the lifecycle is broken by handlers that write a command under another's
  copy of it (`bug_decision`). These theorems say that nothing else breaks it. For any
  command `c`, either adapter and any faults, `Spec /\ []Undisturbed(c)` implies
  `[]KeptFor(c)`: the row of `c` agrees with itself (`RowAgrees`) and every copy of it
  that a handler holds is what the row holds (`FreshOn`), however disturbed all other
  commands are. Each write is then a move from the status that is stored, and
  **`UndisturbedFollowsLifecycle`** proves that `LifecycleOf(c)` is implemented, step by
  step; **`UndisturbedIsFinal`**, **`UndisturbedIsDecidedOnce`** and
  **`UndisturbedRowAgrees`** draw from it that a terminal status stays, that a decision
  is not turned over, and that what was sent stands on a consumed approval and shows
  its result. **`UndisturbedImplementsLifecycle`** is the refinement of all of
  `CommandLifecycle` where every command is undisturbed.
* **The memory adapter**: store calls resolve without yielding to another request, so
  whoever is not idle is alone (`Alone`), and every command undisturbed
  (`MemoryIsUndisturbed`). **`MemoryImplementsLifecycle`**, **`MemoryTerminalIsFinal`**,
  **`MemoryDecidesOnce`**, **`MemorySentStands`** and **`MemoryResultsAgree`** are this
  case of the theorems above, without hypotheses on the behaviour.
* **`RetriesAsStoredAreRecognised`**: with either adapter, a body whose `expiresAt` comes
  back from the store as it was sent, once answered with its command, is never
  refused. `AnswersAgree`: an answer with a command was given to that command's own
  body, a refusal because the key was another's; with `OneCommandPerKey` the two
  exclude each other. **`RetriesAreRecognised`** is `RetryIsRecognised` where that is so
  of every body: with the memory adapter, or canonical forms.
* **`SystemImplementsService`** (`ExecutorSystemProofs`): `SysSpec => Spec`. Every
  step of service and executor together is a step of the service or leaves it
  alone, so the theorems above hold of the system.
* **`ExecutionHasConsent`**: `ConsentBeforeExecution`, from the previous two and
  `ExecutorHeld`: what is dispatched or has run was sent.
* **`OutcomesAreReal`**: `OutcomeWasExecuted`. A final result is looked for wherever
  one can stand: in a row, a result, a handler's copy or loop (`ServerReal`), in the
  audit log (`Logged`), in the cache or on the socket (`ExecutorReal`). Everywhere it is
  one an execution came to.
* **`ReportedAreReplayedUntilEvicted`**: `RerunsOnlyOnceEvicted`, for every limit of the
  cache, the code's 500 included. `Remembered` says of every command with a result that
  was cached (`finished`) that it has an entry still, or that at least `MaxCache` others
  entered after it (`Overtaken`); the entries behind one are among these.
  A result the server has was cached (`OutcomesAreReal`); only a command without an
  entry is executed. That a step of the cache preserves this is `CacheStep`
  (`ResultCacheProofs`), by an injection of the cache's positions into `newer`.
* **`CandidatesTyped`, `OnlyChosenActive`, `OneActiveAtMost`** (`ImprovementProofs`):
  types; an active candidate passes the evaluation and was activated by the user
  (strengthened with what each handler holds: one about to activate or restore
  holds a candidate that is sound, or was chosen); at most one is active, with
  Postgres by the index, with the memory adapter because a handler that has seen no
  active candidate, or has retired it, is alone until it writes, but for handlers that
  wait for the queue.
* **`ActiveStaysUnderSoleEvaluation`** (`ImprovementProofs`): `ActiveStays` with either
  adapter, as long as no two evaluations of one candidate overlap. `InOrder` says where
  the candidates of each handler stand: one under evaluation is a draft or failed, one
  about to be activated or rolled back is past its evaluation. Nothing leads back from
  there, so only a second evaluation, read before the first was written, can write
  over an active candidate.
* **`OneActiveUnderSoleEvaluation`**: under the same hypothesis, and until a query fails,
  `NotWithoutActive`, whatever activations and rollbacks race. `Kept`: once a candidate
  was activated and until a rollback is on record, one is active or a handler is
  `Unsettled`, and each of these goes on until it has activated one, was refused because
  another is active, or has recorded a rollback. So of the races of section 4 only the
  late evaluation can cost the user the active candidate.
* **`MemoryActiveStays`, `MemoryKeepsOneActive`**: with the memory adapter whoever
  evaluates is alone (`MemoryIsSole`), and no query of an `Unsettled` handler fails.
* **`RegistryTyped`, `RegistryKeepsOpenSocket`** (`DeviceProofs`): types, and
  `OpenSocketIsRegistered` for any number of sockets, inductive with the types of the
  two maps.
* **`AnsweredNamesStayTaken`** (`DeviceProofs`): the row of a
  registration is there as soon as it stands behind its insert (`RowsAgree`),
  histories name answered registrations only (`EarlierAnswered`), and a registration
  about to insert was compared with every earlier one (`Compared`).
* **`SessionIsTyped`, `CreatedOnceWhereSent`, `DoneMeansRecorded`**
  (`ClientSessionProofs`). A creation whose page is open was made for the saved
  server, and while the page is left for another server neither the stored tokens nor
  those on their way belong to the new one (`Home`, `Issuer`); so a second try, which
  goes to whatever server is saved by then, carries a token of the first try's server
  (`Attempt`) and no other takes it. A request whose row exists is never sent again
  (`Rows`), and one that is answered has row and record (`Recorded`).
* **`NativeIsTyped`, `WritesAreAtomic`, `SuccessIsReal`, `RecentAreReplayed`**
  (`NativeExecutorProofs`). What a rename moves was written whole (`NativeSound`);
  a success that is answered, cached or sent stands on an execution that had its
  effect (`SuccessSound`). For the cache: the entries behind one are the commands in
  its `newer` (`LaterAreNewer`), and a command that was sent and is not cached has at
  least `MaxCache` of them (`EvictedByNewer`), by the same `CacheStep`. It holds of
  every limit, the code's 500 included.
* **`SyncTyped`, `UnflaggedOnlyIfUnseen`, `FlaggedOnlyIfRivalled`** (`FileSyncProofs`).
  The invariant `SyncInv` says of every stored version, and of one about to be
  stored, that it knows only versions of its file and its own base, none younger
  than itself, and that its base leads what it knows or, if flagged, another does.
  Of two unflagged siblings the later then knows the earlier, which is no younger
  than the base it followed, and no older. `HeadExists` needs that a set of dates
  has a newest, from the library's well-founded induction on the naturals.
* **`BranchesInTurnAreFlagged`** (`FileSyncProofs`): `BothBranchesFlagged` where
  registrations of one file do not overlap (`[]Serialized`), for any number of files,
  requests and failures. A version about to be stored then knows the file as it is
  (`UpToDate`), so of two versions one knows the other (`InTurn`), and
  `BranchesAreFlagged` applies. **`MemoryBranchesAreFlagged`**: with the memory adapter
  one registration runs at a time, which is `Serialized`.
* **`FlaggedAreLogged`** (`FileSyncProofs`): `BranchesAreLogged`. `FewLost` counts the
  flagged versions that are not logged and that no handler will log any more: at most
  one for each query that failed.

**Hypotheses.** Theorems of the form `Spec /\ []H => ...` speak of the behaviours in
which the racing handlers happen not to overlap. The code does not exclude the others
with Postgres, where section 4 shows what they lead to; with the memory adapter each
`H` (`Undisturbed`, `Serialized`, `SoleEvaluation`) is itself proved, so none is empty.
`"query_error" \notin Faults` and `faults = 0` stand where the code promises nothing
after a failure.

**Model-checked only**: liveness, which is out of the prover's reach (`Settles`,
`SessionSettles`, `PresenceRecovers`, `QueuedDraftsAreEvaluated`) and the three
runs that end in a violation. Every safety property of the passing runs
is proved, some under a choice of adapter or faults that its theorem names and its run
makes as well. **Proved only**: `ConsentBeforeExecution`, on which no run is spent, and
the theorems about one command, whose lifecycle has a parameter and cannot be
a PROPERTY of a configuration.

## 7. Plan

Done: 1. `ToolPolicy`, `CommandService`, its lifecycle and proofs; 2.
`ExecutorSystem` and proofs; 3. `ImprovementCandidates` and proofs; 4.
`DevicePresence` and proofs; 5. `FileSync` and proofs; 6. `DeviceRegistration` and
proof; 7. `ClientSession` and proofs; 8. `NativeExecutor` with the limit of the cache,
and proofs; 9. the theorems about one command, the audit log's truth, and what holds
of either adapter where handlers do not overlap. Next:

10. The safe half of `DevicePresence`: what `online` may be while writes are pending,
    for any number of sockets.
11. At most one execution of a command whose device does not reconnect between its
    dispatch and the report of `running` (the part of `NeverExecutesTwice` that holds).
12. `PathContainment`: `validate_relative`, `resolve_existing`, `resolve_for_write` of
    `lib.rs` over small directory trees with links, against a reference definition
    of "inside the root".

## 8. Not modelled

* `recordFeedback`, `createRoot`, listings, and the deletion of memories, which no
  function of the client calls: they insert, list or delete rows that nothing else
  depends on, or that never change.
* The containment of paths in `lib.rs`: whether a path is inside its root is one of
  the conditions of `Resolve` that may fail.
* What the user's text becomes in `createServerConnection`, the rotation of refresh
  tokens (not switched on in `infra/keycloak`), other tabs that share local storage, and the
  server's mode without authentication.
* The rest of the user interface, the WebRTC wrapper and the model provider: no
  state that other components rely on.
* A presence query of `handleDisconnect` that fails: its promise is dropped without a
  `catch`, and no property speaks of a server that Node then ends.
* That `acceptResult` takes a result of any command of the reporting device
  (`command.service.ts:165-176`), sent or not: `AcceptResult` takes results of commands
  that were sent. The only executor there is reports nothing else, which
  `ExecutorSystemProofs` proves (`ExecutorHeld`).
* Result messages in `consent`: `Reports` is empty there, so the run says nothing of the
  final outcomes in `EveryOutcomeAudited` and `AuditIsTrue`. Theorems
  `AuditedUntilFault` and `AuditTellsTheTruth` cover them; that a logged outcome was an
  execution's is what `executor` checks (`OutcomeWasExecuted`).
* Screen capture, OS keychain, object store signatures, migrations, deployment:
  I/O and configuration.
* Command arguments, results' contents, error texts and credentials: model values or
  left out; no property depends on them. Users: one, since every query is by user.
* `REDIS_URL` unset: then nothing queues candidates, which is `Workers = {}`.
