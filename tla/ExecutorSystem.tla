--------------------------- MODULE ExecutorSystem ---------------------------
(***************************************************************************)
(* The command service with the local executor of its device at the other  *)
(* end of the socket (apps/client/src/executor.ts): dispatched commands on *)
(* their way, executions under way, the limited cache of final results in  *)
(* the executor's local storage, and result messages on their way back.    *)
(* The server's part is CommandService's, each action with what it means   *)
(* for the socket.                                                         *)
(***************************************************************************)
EXTENDS CommandService, ResultCache

CONSTANTS
  MaxCache,  \* entries the result cache keeps: 500 in the code
  MaxRuns    \* bound on the executions of one command

ASSUME ExecutorAssumption == MaxCache \in Nat \ {0} /\ MaxRuns \in Nat
(* Every device has a socket, an executor and a cache of its own.          *)
ASSUME OneDeviceAssumption == \E d \in Device : Device = {d}

VARIABLES
  inbox,      \* how many dispatches of each command the socket carries
  executing,  \* executions under way: command, number, socket still in use
  cache,      \* commands with an entry in continuum.executorResults, in its order
  entry,      \* the result in the entry
  newer,      \* history: commands that entered the cache after each one
  reports,    \* result messages on the socket
  runs,       \* history: executions started, of each command
  finished    \* history: the results of executions that were cached

resultCache == <<cache, entry, newer>>
executor == <<inbox, executing, resultCache, reports, runs, finished>>
sysVars == <<vars, executor>>

FinalResult == {"succeeded", "failed"}

ExecutorInit ==
  /\ inbox = [c \in CmdId |-> 0] /\ runs = [c \in CmdId |-> 0]
  /\ cache = <<>> /\ entry = [c \in CmdId |-> "failed"]
  /\ newer = [c \in CmdId |-> {}]
  /\ executing = {} /\ reports = {} /\ finished = {}

SysInit == Init /\ ExecutorInit

-----------------------------------------------------------------------------
Cached == EntriesOf(cache)

(* A dispatch the executor has no cached result for is executed: it reports *)
(* that it is running, whether or not another execution is under way. The  *)
(* cached result of any other is sent again.                               *)
Replay(c) ==
  /\ inbox[c] > 0 /\ inbox' = [inbox EXCEPT ![c] = @ - 1]
  /\ c \in Cached /\ reports' = reports \union {<<c, entry[c]>>}
  /\ UNCHANGED <<executing, resultCache, runs, finished>>

Execute(c) ==
  /\ inbox[c] > 0 /\ inbox' = [inbox EXCEPT ![c] = @ - 1]
  /\ c \notin Cached /\ runs[c] < MaxRuns
  /\ runs' = [runs EXCEPT ![c] = @ + 1]
  /\ executing' = executing \union {<<c, runs'[c], TRUE>>}
  /\ reports' = reports \union {<<c, "running">>}
  /\ UNCHANGED <<resultCache, finished>>

(* An execution ends: its result is cached, then sent on the socket it was *)
(* dispatched on, which drops it once closed.                              *)
CacheResult(c, result) ==
  /\ entry' = [entry EXCEPT ![c] = result]
  /\ cache' = WithEntry(cache, c, MaxCache)
  /\ newer' = NewerWith(newer, cache, c)

Finish_Optimistic(c, n, live, result) ==
  /\ <<c, n, live>> \in executing /\ executing' = executing \ {<<c, n, live>>}
  /\ CacheResult(c, "succeeded")
  /\ finished' = finished \union {<<c, result>>}
  /\ reports' = IF live THEN reports \union {<<c, "succeeded">>} ELSE reports
  /\ UNCHANGED <<inbox, runs>>

Finish(c, n, live, result) ==
  /\ <<c, n, live>> \in executing /\ executing' = executing \ {<<c, n, live>>}
  /\ CacheResult(c, result)
  /\ finished' = finished \union {<<c, result>>}
  /\ reports' = IF live THEN reports \union {<<c, result>>} ELSE reports
  /\ UNCHANGED <<inbox, runs>>

(* Local storage has no room for the result: cacheResult throws, nothing   *)
(* is stored, and nothing is sent.                                         *)
StorageFull_SentAnyway(c, n, live) ==
  /\ <<c, n, live>> \in executing /\ executing' = executing \ {<<c, n, live>>}
  /\ reports' = IF live THEN reports \union {<<c, "succeeded">>} ELSE reports
  /\ UNCHANGED <<inbox, resultCache, runs, finished>>

StorageFull(c, n, live) ==
  /\ <<c, n, live>> \in executing /\ executing' = executing \ {<<c, n, live>>}
  /\ UNCHANGED <<inbox, resultCache, reports, runs, finished>>

ExecutorStep ==
  /\ \/ \E c \in CmdId : Replay(c) \/ Execute(c)
     \/ \E c \in CmdId, n \in 1..MaxRuns, live \in BOOLEAN :
          \/ \E result \in FinalResult : Finish(c, n, live, result)
          \/ StorageFull(c, n, live)
  /\ UNCHANGED vars

-----------------------------------------------------------------------------
(* What becomes of the socket's messages, and of the executions whose      *)
(* socket it was, when it is closed or replaced.                           *)
SocketGone ==
  /\ inbox' = [c \in CmdId |-> 0] /\ reports' = {}
  /\ executing' = {<<e[1], e[2], FALSE>> : e \in executing}
  /\ UNCHANGED <<resultCache, runs, finished>>

(* The server takes a result message, and drops one it refuses. The reads  *)
(* that messages begin with may overtake each other in the pool.           *)
TakeReport(t) == \E m \in reports :
  /\ \/ AcceptResult(t) /\ h'[t].id = m[1] /\ h'[t].seen = m[2]
     \/ At(t, "idle") /\ status[m[1]] \notin Reportable /\ UNCHANGED vars
  /\ reports' = reports \ {m}
  /\ UNCHANGED <<inbox, executing, resultCache, runs, finished>>

Dispatched(t) ==
  /\ Send(t)
  /\ inbox' = IF DeviceOf(h[t].id) \in online
              THEN [inbox EXCEPT ![h[t].id] = @ + 1] ELSE inbox
  /\ UNCHANGED <<executing, resultCache, reports, runs, finished>>

(* The executor's application ends, connected or not, its executions with  *)
(* it.                                                                     *)
ExecutorStops ==
  /\ \/ \E d \in Device : Disconnect(d)
     \/ online = {} /\ UNCHANGED vars
  /\ inbox' = [c \in CmdId |-> 0] /\ reports' = {} /\ executing' = {}
  /\ UNCHANGED <<resultCache, runs, finished>>

ServerStep ==
  \/ \E t \in Creates : Create(t)
  \/ \E t \in Decides \union Reads : Read(t)
  \/ \E t \in Task : (Continue(t) /\ ~At(t, "send")) \/ QueryError(t)
  \/ Tick

SysNext ==
  \/ ExecutorStep
  \/ ServerStep /\ UNCHANGED executor
  \/ \E t \in Task : Dispatched(t)
  \/ \E t \in Reports : TakeReport(t)
  \/ (\E t \in Hellos : Hello(t)) /\ SocketGone
  \/ (\E d \in Device : Disconnect(d)) /\ SocketGone
  \/ Restart /\ SocketGone
  \/ ExecutorStops

SysSpec == SysInit /\ [][SysNext]_sysVars

-----------------------------------------------------------------------------
(* The executor executes nothing without the user's consent to it, however *)
(* dispatches, reconnections and replayed results overlap.                 *)
ConsentBeforeExecution == \A c \in CmdId : runs[c] > 0 => Consented(c)

(* What the server holds as the outcome of a command, in its row, in its   *)
(* result and in the audit log, is what an execution of it came to and the *)
(* executor cached: no running message, replay or expiry makes one up.     *)
OutcomeWasExecuted ==
  \A c \in CmdId, r \in FinalResult :
    (status[c] = r \/ results[c] = r \/ <<c, r>> \in audit) =>
      <<c, r>> \in finished

(* A command whose result the server has is executed again only after as   *)
(* many others entered the executor's cache as it keeps: a dispatch        *)
(* repeated before that, because a restart or a stale write left the row   *)
(* as it was, is answered from the cache.                                  *)
RerunsOnlyOnceEvicted ==
  [][\A c \in CmdId :
       results[c] \in FinalResult /\ runs'[c] /= runs[c] =>
         Cardinality(newer[c]) >= MaxCache]_sysVars

(* No command is executed twice.                                           *)
NeverExecutesTwice == \A c \in CmdId : runs[c] <= 1
=============================================================================
