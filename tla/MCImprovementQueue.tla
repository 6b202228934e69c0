------------------------- MODULE MCImprovementQueue -------------------------
(***************************************************************************)
(* ImprovementCandidates with two tasks at work in a behaviour: two of the *)
(* user's requests, or a request and a worker of the queue.                *)
(***************************************************************************)
EXTENDS MCImprovementCandidates

VARIABLE acting   \* the tasks of this behaviour

MCInit == Init /\ acting \in {Requests, {"request1"} \union Workers}
MCNext == (\E t \in acting : Step(t)) /\ UNCHANGED acting

MCFairness == \A t \in Task :
  /\ WF_vars(t \in acting /\ Continue(t))
  /\ SF_vars(t \in acting /\ TakeJob(t))
MCFairSpec == MCInit /\ [][MCNext]_<<vars, acting>> /\ MCFairness

(* Where the queue has its worker, a draft whose job is queued is evaluated *)
(* in the end, as long as fewer attempts fail than a job has.              *)
QueuedDraftsAreEvaluated ==
  \A c \in Candidate : (Workers \subseteq acting /\ jobs[c] > 0) ~> status[c] /= "draft"
=============================================================================
