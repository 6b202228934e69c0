----------------------- MODULE ImprovementCandidates -----------------------
(***************************************************************************)
(* The improvement candidates of one user and one kind: drafts evaluated   *)
(* by the user's requests and by the workers of the evaluation queue, one  *)
(* of them active, activation and rollback. Every await of a query is a    *)
(* step; a handler keeps the candidate it read and writes the whole row    *)
(* back. Candidates are numbered in the order of their createdAt.          *)
(***************************************************************************)
EXTENDS Naturals, FiniteSets

CONSTANTS
  MaxCandidates,     \* bound on the candidates created
  Content,           \* what each candidate's texts are like
  Requests, Workers, \* the requests served at once; the queue's workers
  Adapter,           \* "memory" or "postgres"
  Attempts,          \* attempts of an evaluation job
  MaxFaults          \* bound on failing queries and queue calls

Candidate == 1..MaxCandidates
None == 0
Task == Requests \union Workers

ASSUME SizesAssumption ==
  MaxCandidates \in Nat /\ Attempts \in Nat \ {0} /\ MaxFaults \in Nat
ASSUME ContentAssumption ==
  Content \in [Candidate -> SUBSET {"changed", "meaningful", "safe"}]
ASSUME AdapterAssumption == Adapter \in {"memory", "postgres"}
ASSUME TasksAssumption == Requests \intersect Workers = {}

VARIABLES
  status,    \* the status column, "absent" before the insert
  jobs,      \* the queue: attempts left of each candidate's job
  h,         \* the handlers: where each stands, its candidate, the other one
  chosen,    \* history: candidates the user activated
  replaced,  \* history: the candidate each activation retired, or None
  audit, faults

vars == <<status, jobs, h, chosen, replaced, audit, faults>>

Status == {"absent", "draft", "failed", "ready", "active", "rolled_back"}
Idle == [pc |-> "idle", id |-> None, other |-> None]
Handler ==
  [pc : {"idle", "enqueue", "evaluate", "getActive", "retire", "activate",
         "rollback", "findPrior", "restore", "created", "evaluated",
         "activated", "rolled_back"},
   id : Candidate \union {None}, other : Candidate \union {None}]

Init ==
  /\ status = [c \in Candidate |-> "absent"]
  /\ jobs = [c \in Candidate |-> 0]
  /\ h = [t \in Task |-> Idle]
  /\ chosen = {} /\ replaced = [c \in Candidate |-> None]
  /\ audit = {} /\ faults = 0

-----------------------------------------------------------------------------
(* With the memory adapter a handler runs to its end before another moves, *)
(* unless it waits for the queue to take its job.                          *)
AtQueue == {"idle", "enqueue"}
Turn_Interleaved(t) == TRUE
Turn(t) == Adapter = "memory" => \A u \in Task \ {t} : h[u].pc \in AtQueue
At(t, pc) == h[t].pc = pc /\ Turn(t)
Goto(t, pc) == h' = [h EXCEPT ![t].pc = pc]
Start(t, pc, c) == h' = [h EXCEPT ![t] = [pc |-> pc, id |-> c, other |-> None]]

(* evaluateCandidateContent: a third of the score for each quality; ready  *)
(* takes a safe text and a score of 0.8. (A definition Name_Fault, here    *)
(* and below, is Name with a fault seeded in it, for TLC to find.)         *)
Passes_TwoThirds(c) == "safe" \in Content[c] /\ 30 * Cardinality(Content[c]) >= 60
Passes(c) == "safe" \in Content[c] /\ 30 * Cardinality(Content[c]) >= 72

(* createCandidate inserts a draft, queues its evaluation under its id and *)
(* records it.                                                             *)
CreateCandidate(t) ==
  /\ t \in Requests /\ At(t, "idle")
  /\ \E c \in Candidate :
       /\ status[c] = "absent" /\ \A b \in Candidate : b < c => status[b] /= "absent"
       /\ status' = [status EXCEPT ![c] = "draft"]
       /\ Start(t, "enqueue", c)
  /\ UNCHANGED <<jobs, chosen, replaced, audit, faults>>

Enqueue_OneAttempt(t) ==
  /\ At(t, "enqueue")
  /\ jobs' = [jobs EXCEPT ![h[t].id] = 1]
  /\ Goto(t, "created")
  /\ UNCHANGED <<status, chosen, replaced, audit, faults>>

Enqueue(t) ==
  /\ At(t, "enqueue")
  /\ jobs' = [jobs EXCEPT ![h[t].id] = Attempts]
  /\ Goto(t, "created")
  /\ UNCHANGED <<status, chosen, replaced, audit, faults>>

(* audit.record of what the handler did, named by where it stands. A       *)
(* worker's job is done with it.                                           *)
RecordAudit(t) ==
  /\ h[t].pc \in {"created", "evaluated", "activated", "rolled_back"} /\ Turn(t)
  /\ audit' = audit \union {<<h[t].id, h[t].pc>>}
  /\ h' = [h EXCEPT ![t] = Idle]
  /\ jobs' = IF t \in Workers THEN [jobs EXCEPT ![h[t].id] = 0] ELSE jobs
  /\ UNCHANGED <<status, chosen, replaced, faults>>

-----------------------------------------------------------------------------
(* The statuses a candidate can be evaluated in.                           *)
Evaluable_UnlessRetired == {"draft", "failed", "ready", "active"}
Evaluable == {"draft", "failed"}

(* evaluate(): drafts and failed candidates only. A worker takes a job no  *)
(* other worker has; one for any other candidate is done at once.          *)
Evaluate(t) ==
  /\ t \in Requests /\ At(t, "idle")
  /\ \E c \in Candidate : status[c] \in Evaluable /\ Start(t, "evaluate", c)
  /\ UNCHANGED <<status, jobs, chosen, replaced, audit, faults>>

TakeJob(w) == \E c \in Candidate :
  /\ w \in Workers /\ At(w, "idle")
  /\ jobs[c] > 0 /\ \A v \in Workers : h[v].id /= c
  /\ IF status[c] \in Evaluable
     THEN Start(w, "evaluate", c) /\ jobs' = [jobs EXCEPT ![c] = @ - 1]
     ELSE jobs' = [jobs EXCEPT ![c] = 0] /\ UNCHANGED h
  /\ UNCHANGED <<status, chosen, replaced, audit, faults>>

WriteEvaluation(t) ==
  /\ At(t, "evaluate")
  /\ status' = [status EXCEPT ![h[t].id] = IF Passes(h[t].id) THEN "ready" ELSE "failed"]
  /\ Goto(t, "evaluated")
  /\ UNCHANGED <<jobs, chosen, replaced, audit, faults>>

(* activate(): a candidate that passed its evaluation, after the one that  *)
(* is active now has been retired.                                         *)
Activate(t) ==
  /\ t \in Requests /\ At(t, "idle")
  /\ \E c \in Candidate : status[c] = "ready" /\ Start(t, "getActive", c)
  /\ UNCHANGED <<status, jobs, chosen, replaced, audit, faults>>

Active == {c \in Candidate : status[c] = "active"}

GetActive(t) ==
  /\ At(t, "getActive")
  /\ \/ Active = {} /\ Goto(t, "activate")
     \/ \E p \in Active : h' = [h EXCEPT ![t].pc = "retire", ![t].other = p]
  /\ UNCHANGED <<status, jobs, chosen, replaced, audit, faults>>

RetirePrevious(t) ==
  /\ At(t, "retire")
  /\ status' = [status EXCEPT ![h[t].other] = "rolled_back"]
  /\ Goto(t, "activate")
  /\ UNCHANGED <<jobs, chosen, replaced, audit, faults>>

(* A write of an active row, which the index one_active_candidate_per_kind *)
(* refuses, with the request, while another is active.                     *)
Refused_NoIndex(c) == FALSE
Refused(c) == Adapter = "postgres" /\ Active \ {c} /= {}

WriteActive(t) ==
  LET c == h[t].id
  IN  /\ At(t, "activate")
      /\ IF Refused(c)
         THEN h' = [h EXCEPT ![t] = Idle] /\ UNCHANGED <<status, chosen, replaced>>
         ELSE /\ status' = [status EXCEPT ![c] = "active"]
              /\ chosen' = chosen \union {c}
              /\ replaced' = [replaced EXCEPT ![c] = h[t].other]
              /\ Goto(t, "activated")
      /\ UNCHANGED <<jobs, audit, faults>>

(* rollback(): the active candidate is rolled back, and the newest other   *)
(* one that is rolled back becomes active again.                           *)
Rollback(t) ==
  /\ t \in Requests /\ At(t, "idle")
  /\ \E c \in Active : Start(t, "rollback", c)
  /\ UNCHANGED <<status, jobs, chosen, replaced, audit, faults>>

WriteRollback(t) ==
  /\ At(t, "rollback")
  /\ status' = [status EXCEPT ![h[t].id] = "rolled_back"]
  /\ Goto(t, "findPrior")
  /\ UNCHANGED <<jobs, chosen, replaced, audit, faults>>

Prior(c) == {p \in Candidate \ {c} : status[p] = "rolled_back"}

FindPrior_Unchecked(t) ==
  /\ At(t, "findPrior")
  /\ h' = [h EXCEPT ![t].pc = "restore",
        ![t].other = IF Prior(h[t].id) = {} THEN None
                     ELSE CHOOSE p \in Prior(h[t].id) : \A b \in Prior(h[t].id) : b <= p]
  /\ UNCHANGED <<status, jobs, chosen, replaced, audit, faults>>

FindPrior(t) ==
  LET prior == Prior(h[t].id)
  IN  /\ At(t, "findPrior")
      /\ \/ prior = {} /\ Goto(t, "rolled_back")
         \/ \E p \in prior :
              /\ \A b \in prior : b <= p
              /\ h' = [h EXCEPT ![t].pc = "restore", ![t].other = p]
      /\ UNCHANGED <<status, jobs, chosen, replaced, audit, faults>>

Restore(t) ==
  LET p == h[t].other
  IN  /\ At(t, "restore")
      /\ IF Refused(p)
         THEN h' = [h EXCEPT ![t] = Idle] /\ UNCHANGED status
         ELSE status' = [status EXCEPT ![p] = "active"] /\ Goto(t, "rolled_back")
      /\ UNCHANGED <<jobs, chosen, replaced, audit, faults>>

-----------------------------------------------------------------------------
(* A query fails, or the queue does, the only call of the memory adapter   *)
(* that can: the handler rejects; a job with attempts left is retried.     *)
QueryError(t) ==
  /\ faults < MaxFaults /\ faults' = faults + 1
  /\ IF Adapter = "memory" THEN At(t, "enqueue") ELSE h[t].pc /= "idle"
  /\ h' = [h EXCEPT ![t] = Idle]
  /\ UNCHANGED <<status, jobs, chosen, replaced, audit>>

Continue(t) ==
  \/ Enqueue(t) \/ RecordAudit(t) \/ WriteEvaluation(t)
  \/ GetActive(t) \/ RetirePrevious(t) \/ WriteActive(t)
  \/ WriteRollback(t) \/ FindPrior(t) \/ Restore(t)

Step(t) ==
  \/ CreateCandidate(t) \/ Evaluate(t) \/ TakeJob(t) \/ Activate(t) \/ Rollback(t)
  \/ Continue(t) \/ QueryError(t)

Next == \E t \in Task : Step(t)

Spec == Init /\ [][Next]_vars

(* Fairness: a query that is not refused answers; an idle worker takes the *)
(* next job.                                                               *)
Fairness ==
  /\ \A t \in Task : WF_vars(Continue(t))
  /\ \A w \in Workers : SF_vars(TakeJob(w))
FairSpec == Spec /\ Fairness

-----------------------------------------------------------------------------
(* A handler x past its first step has its candidate, and the other one    *)
(* where it needs it.                                                      *)
HandlerOK(x) ==
  /\ x.pc /= "idle" => x.id /= None
  /\ x.pc \in {"retire", "restore"} => x.other /= None

(* Rows, jobs and handlers hold values of their types.                     *)
TypeOK ==
  /\ status \in [Candidate -> Status]
  /\ jobs \in [Candidate -> 0..Attempts]
  /\ h \in [Task -> Handler] /\ \A t \in Task : HandlerOK(h[t])
  /\ chosen \subseteq Candidate /\ replaced \in [Candidate -> Candidate \union {None}]
  /\ audit \subseteq Candidate \X {"created", "evaluated", "activated", "rolled_back"}
  /\ faults \in 0..MaxFaults

(* At most one candidate of a kind is active, however activations,         *)
(* rollbacks and evaluations interleave and fail.                          *)
AtMostOneActive == \A b, c \in Active : b = c

(* A candidate is active only if its text has every quality the evaluation *)
(* asks for and the user activated it - also when a rollback brought it    *)
(* back.                                                                   *)
Sound(c) == Content[c] = {"changed", "meaningful", "safe"}
ActiveWasChosen == \A c \in Active : c \in chosen /\ Sound(c)

(* An active candidate stops being active only by being replaced or rolled *)
(* back: no evaluation takes it back to ready.                             *)
ActiveStays ==
  [][\A c \in Candidate : status[c] = "active" =>
       status'[c] \in {"active", "rolled_back"}]_vars

(* No two handlers evaluate one candidate at once: what a lock on its row, *)
(* or requests that go through the queue, would ensure.                    *)
SoleEvaluation ==
  \A t, u \in Task :
    t /= u /\ h[t].pc = "evaluate" /\ h[u].pc = "evaluate" => h[t].id /= h[u].id

(* Once the user has activated a candidate and none was rolled back by     *)
(* request, finished handlers leave one active.                            *)
NotWithoutActive ==
  (\A t \in Task : h[t] = Idle) /\ chosen /= {}
     /\ (\A c \in Candidate : <<c, "rolled_back">> \notin audit) => Active /= {}

(* A rollback of a version that replaced another restores that other one.  *)
RollbackRestoresPrevious ==
  [][\A t \in Task : h[t].pc = "restore" /\ h'[t].pc = "rolled_back" =>
       replaced[h[t].id] \in {None, h[t].other}]_vars
=============================================================================
