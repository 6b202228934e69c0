-------------------------- MODULE MCExecutorSystem --------------------------
(***************************************************************************)
(* Small instances of ExecutorSystem for TLC, on MCCommandService's        *)
(* requests. A behaviour of MCSpec explores one command from its creation  *)
(* on, or two that are stored and compete for the executor's cache.        *)
(***************************************************************************)
EXTENDS ExecutorSystem, MCCommandService, FiniteSetsExt, TLC

CONSTANT MaxExecutions   \* bound on the executions of the two commands

VARIABLE explored   \* the part this behaviour explores

Symmetry == Permutations(CmdId)

(* Two commands that were created while the device was offline.            *)
BothStored ==
  /\ status = [c \in CmdId |-> "queued"] /\ audit = CmdId \X {"created"}
  /\ request \in {f \in [CmdId -> Requests] : \A b, c \in CmdId : f[b] = f[c] => b = c}
  /\ answers = {<<request[c], c>> : c \in CmdId}
  /\ approval = [c \in CmdId |-> NoApproval]
  /\ results = [c \in CmdId |-> "none"]
  /\ now = 0 /\ online = {} /\ session = [d \in Device |-> {}] /\ sent = {}
  /\ h = [t \in Task |-> Idle] /\ consent = {} /\ faults = 0
  /\ ExecutorInit

MCInit ==
  \/ explored = "creation" /\ SysInit
  \/ explored = "eviction" /\ BothStored

(* Of one command: the first request's, created and retried, with expiry.  *)
CreationNext ==
  /\ SysNext
  /\ \E c \in CmdId : status'[c] = "absent"
  /\ \A t \in Creates, r \in Requests : h'[t].arg = r => r.key = k1

(* Of two: no more requests, no time passes, and executions succeed.       *)
EvictionNext ==
  /\ SysNext
  /\ now' = now /\ \A t \in Creates : h'[t] = Idle
  /\ \A c \in CmdId : <<c, "failed">> \notin finished'
  /\ MapThenSumSet(LAMBDA c : runs'[c], CmdId) <= MaxExecutions

MCNext ==
  \/ explored = "creation" /\ CreationNext /\ UNCHANGED explored
  \/ explored = "eviction" /\ EvictionNext /\ UNCHANGED explored
MCSpec == MCInit /\ [][MCNext]_<<sysVars, explored>>
=============================================================================
