-------------------------- MODULE ImprovementProofs --------------------------
(***************************************************************************)
(* Theorems about ImprovementCandidates: its types, that only sound        *)
(* candidates the user activated are ever active, and that at most one is. *)
(***************************************************************************)
EXTENDS ImprovementCandidates, FiniteSetTheorems, TLAPS

(* A text passes the evaluation exactly when it has all three qualities.   *)
LEMMA PassesIsSound ==
  ASSUME NEW c \in Candidate, Passes(c)
  PROVE  Sound(c)
<1> DEFINE Q == {"changed", "meaningful", "safe"}
<1>1. IsFiniteSet(Q) /\ Cardinality(Q) = 3
  <2>1. Q = {"changed"} \union {"meaningful"} \union {"safe"}
    OBVIOUS
  <2>2. IsFiniteSet({}) /\ Cardinality({}) = 0
    BY FS_EmptySet
  <2>3. IsFiniteSet({"changed"}) /\ Cardinality({"changed"}) = 1
    BY FS_Singleton
  <2>4. /\ IsFiniteSet({"changed"} \union {"meaningful"})
        /\ Cardinality({"changed"} \union {"meaningful"}) = 2
    BY <2>3, FS_AddElement
  <2> QED
    BY <2>1, <2>4, FS_AddElement
<1>2. Content[c] \subseteq Q
  BY ContentAssumption
<1>3. /\ IsFiniteSet(Content[c]) /\ Cardinality(Content[c]) <= 3
      /\ Cardinality(Content[c]) = 3 => Content[c] = Q
  BY <1>1, <1>2, FS_Subset
<1>4. Cardinality(Content[c]) \in Nat
  BY <1>3, FS_CardinalityType
<1>5. Cardinality(Content[c]) = 3
  BY <1>3, <1>4 DEF Passes
<1> QED
  BY <1>3, <1>5 DEF Sound

-----------------------------------------------------------------------------
LEMMA NoneIsNoCandidate == None \notin Candidate
BY SizesAssumption DEF None, Candidate

(* A step of one handler t leaves the others as they are.                  *)
LEMMA OneHandler ==
  ASSUME TypeOK, NEW t \in Task, NEW x \in Handler, HandlerOK(x),
         h' = [h EXCEPT ![t] = x]
  PROVE  h' \in [Task -> Handler] /\ \A u \in Task : HandlerOK(h[u])'
<1>1. \A u \in Task : h'[u] = IF u = t THEN x ELSE h[u]
  BY DEF TypeOK
<1>2. h' \in [Task -> Handler]
  BY DEF TypeOK
<1> QED
  BY <1>1, <1>2 DEF TypeOK, HandlerOK

LEMMA TypeInit == Init => TypeOK
<1> SUFFICES ASSUME Init PROVE TypeOK
  OBVIOUS
<1>1. Idle \in Handler /\ HandlerOK(Idle)
  BY DEF Idle, Handler, HandlerOK
<1> QED
  BY <1>1, SizesAssumption DEF Init, TypeOK, Status

LEMMA TypeNext == TypeOK /\ [Next]_vars => TypeOK'
<1> SUFFICES ASSUME TypeOK, [Next]_vars PROVE TypeOK'
  OBVIOUS
<1>1. Idle \in Handler /\ HandlerOK(Idle)
  BY DEF Idle, Handler, HandlerOK
<1>2. CASE UNCHANGED vars
  BY <1>2 DEF vars, TypeOK, HandlerOK
<1> DEFINE HandlersOK == h \in [Task -> Handler] /\ \A u \in Task : HandlerOK(h[u])
<1>3. ASSUME NEW t \in Task
      PROVE  h[t] \in Handler /\ (h[t].pc /= "idle" => h[t].id \in Candidate)
  BY DEF TypeOK, HandlerOK, Handler
<1>4. ASSUME NEW t \in Task, NEW pc, NEW c \in Candidate, Start(t, pc, c),
             pc \in {"enqueue", "evaluate", "getActive", "rollback"}
      PROVE  HandlersOK'
  <2> DEFINE x == [pc |-> pc, id |-> c, other |-> None]
  <2>1. x \in Handler /\ HandlerOK(x)
    BY <1>4, NoneIsNoCandidate DEF Handler, HandlerOK
  <2> QED
    BY <1>4, <2>1, OneHandler DEF Start
<1>5. ASSUME NEW t \in Task, NEW pc, Goto(t, pc), h[t].pc /= "idle",
             pc \in {"findPrior", "activate", "created", "evaluated", "activated",
                     "rolled_back"}
      PROVE  HandlersOK'
  <2>1. h' = [h EXCEPT ![t] = [h[t] EXCEPT !.pc = pc]]
    BY <1>3, <1>5 DEF Goto, TypeOK
  <2>2. [h[t] EXCEPT !.pc = pc] \in Handler /\ HandlerOK([h[t] EXCEPT !.pc = pc])
    BY <1>3, <1>5, NoneIsNoCandidate DEF Handler, HandlerOK
  <2> QED
    BY <2>1, <2>2, OneHandler
<1>6. ASSUME NEW t \in Task, NEW pc \in {"retire", "restore"}, NEW p \in Candidate,
             h' = [h EXCEPT ![t].pc = pc, ![t].other = p], h[t].pc /= "idle"
      PROVE  HandlersOK'
  <2> DEFINE x == [h[t] EXCEPT !.pc = pc, !.other = p]
  <2>1. h' = [h EXCEPT ![t] = x]
    BY <1>6 DEF TypeOK
  <2>2. x \in Handler /\ HandlerOK(x)
    BY <1>3, <1>6, NoneIsNoCandidate DEF Handler, HandlerOK
  <2> QED
    BY <2>1, <2>2, OneHandler
<1>7. ASSUME NEW t \in Task, h' = [h EXCEPT ![t] = Idle] PROVE HandlersOK'
  BY <1>1, <1>7, OneHandler
<1>8. ASSUME NEW t \in Task, CreateCandidate(t) PROVE TypeOK'
  <2>1. PICK c \in Candidate :
          status' = [status EXCEPT ![c] = "draft"] /\ Start(t, "enqueue", c)
    BY <1>8 DEF CreateCandidate
  <2> QED
    BY <1>4, <1>8, <2>1 DEF CreateCandidate, TypeOK, Status
<1>9. ASSUME NEW t \in Task, Evaluate(t) \/ Activate(t) \/ Rollback(t) PROVE TypeOK'
  BY <1>4, <1>9 DEF Evaluate, Activate, Rollback, Active, TypeOK
<1>10. ASSUME NEW t \in Task, TakeJob(t) PROVE TypeOK'
  <2>1. PICK c \in Candidate :
          /\ jobs[c] > 0
          /\ \/ Start(t, "evaluate", c) /\ jobs' = [jobs EXCEPT ![c] = @ - 1]
             \/ jobs' = [jobs EXCEPT ![c] = 0] /\ UNCHANGED h
          /\ UNCHANGED <<status, chosen, replaced, audit, faults>>
    BY <1>10 DEF TakeJob
  <2>2. jobs[c] \in 0..Attempts
    BY DEF TypeOK
  <2>3. jobs[c] - 1 \in 0..Attempts /\ 0 \in 0..Attempts
    BY <2>1, <2>2, SizesAssumption
  <2>4. jobs' \in [Candidate -> 0..Attempts]
    BY <2>1, <2>3 DEF TypeOK
  <2>5. HandlersOK'
    BY <1>4, <2>1 DEF TypeOK, HandlerOK
  <2> QED
    BY <2>1, <2>4, <2>5 DEF TypeOK
<1>11. ASSUME NEW t \in Task, Enqueue(t) PROVE TypeOK'
  <2>1. HandlersOK'
    BY <1>5, <1>11 DEF Enqueue, At
  <2>2. Attempts \in 0..Attempts
    BY SizesAssumption
  <2>3. jobs' \in [Candidate -> 0..Attempts]
    BY <1>11, <2>2 DEF Enqueue, TypeOK
  <2> QED
    BY <1>11, <2>1, <2>3 DEF Enqueue, TypeOK
<1>12. ASSUME NEW t \in Task, RecordAudit(t) PROVE TypeOK'
  <2>1. h[t].id \in Candidate
    BY <1>3, <1>12 DEF RecordAudit
  <2>2. audit' \subseteq Candidate \X {"created", "evaluated", "activated", "rolled_back"}
    BY <1>12, <2>1 DEF RecordAudit, TypeOK
  <2>3. 0 \in 0..Attempts
    BY SizesAssumption
  <2>4. jobs' \in [Candidate -> 0..Attempts]
    BY <1>12, <2>3 DEF RecordAudit, TypeOK
  <2>5. HandlersOK'
    BY <1>7, <1>12 DEF RecordAudit
  <2> QED
    BY <1>12, <2>2, <2>4, <2>5 DEF RecordAudit, TypeOK
<1>13. ASSUME NEW t \in Task, WriteEvaluation(t) PROVE TypeOK'
  <2>1. HandlersOK'
    BY <1>5, <1>13 DEF WriteEvaluation, At
  <2> QED
    BY <1>13, <2>1 DEF WriteEvaluation, TypeOK, Status
<1>14. ASSUME NEW t \in Task, GetActive(t) PROVE TypeOK'
  <2>1. HandlersOK'
    BY <1>5, <1>6, <1>14 DEF GetActive, At, Active
  <2> QED
    BY <1>14, <2>1 DEF GetActive, TypeOK
<1>15. ASSUME NEW t \in Task, RetirePrevious(t) \/ WriteRollback(t) PROVE TypeOK'
  <2>1. HandlersOK'
    BY <1>5, <1>15 DEF RetirePrevious, WriteRollback, At
  <2> QED
    BY <1>15, <2>1 DEF RetirePrevious, WriteRollback, TypeOK, Status
<1>16. ASSUME NEW t \in Task, WriteActive(t) PROVE TypeOK'
  <2>1. CASE Refused(h[t].id)
    BY <1>7, <1>16, <2>1 DEF WriteActive, TypeOK
  <2>2. CASE ~Refused(h[t].id)
    <3>1. h[t].id \in Candidate /\ h[t].other \in Candidate \union {None}
      BY <1>3, <1>16 DEF WriteActive, At, Handler
    <3>2. HandlersOK'
      BY <1>5, <1>16, <2>2 DEF WriteActive, At
    <3>3. /\ status' \in [Candidate -> Status]
          /\ chosen' \subseteq Candidate
          /\ replaced' \in [Candidate -> Candidate \union {None}]
      BY <1>16, <2>2, <3>1 DEF WriteActive, TypeOK, Status
    <3> QED
      BY <1>16, <3>2, <3>3 DEF WriteActive, TypeOK
  <2> QED
    BY <2>1, <2>2
<1>17. ASSUME NEW t \in Task, FindPrior(t) PROVE TypeOK'
  <2>1. HandlersOK'
    BY <1>5, <1>6, <1>17 DEF FindPrior, At, Prior
  <2> QED
    BY <1>17, <2>1 DEF FindPrior, TypeOK
<1>18. ASSUME NEW t \in Task, Restore(t) PROVE TypeOK'
  <2>1. HandlersOK'
    BY <1>5, <1>7, <1>18 DEF Restore, At
  <2> QED
    BY <1>18, <2>1 DEF Restore, TypeOK, Status
<1>19. ASSUME NEW t \in Task, QueryError(t) PROVE TypeOK'
  <2>1. HandlersOK'
    BY <1>7, <1>19 DEF QueryError
  <2>2. faults' \in 0..MaxFaults
    BY <1>19, SizesAssumption DEF QueryError, TypeOK
  <2> QED
    BY <1>19, <2>1, <2>2 DEF QueryError, TypeOK
<1> QED
  BY <1>2, <1>8, <1>9, <1>10, <1>11, <1>12, <1>13, <1>14, <1>15, <1>16, <1>17, <1>18,
     <1>19 DEF Next, Step, Continue

(* Rows, jobs and handlers keep their types, whatever the numbers of       *)
(* candidates, requests and workers, the texts and the faults.             *)
THEOREM CandidatesTyped == Spec => []TypeOK
BY TypeInit, TypeNext, PTL DEF Spec

-----------------------------------------------------------------------------
(* Why only chosen candidates are active: what is active or was, what is   *)
(* ready, and what a handler is about to retire, activate or restore, is   *)
(* sound, and chosen unless its activation is still under way.             *)
Chosen(c) == c \in chosen /\ Sound(c)
HandlerChosen(x) ==
  /\ x.pc \in {"getActive", "retire", "activate"} => Sound(x.id)
  /\ x.pc = "rollback" => Chosen(x.id)
  /\ x.pc \in {"retire", "restore"} => Chosen(x.other)
ChosenHeld ==
  /\ \A c \in Candidate : status[c] \in {"active", "rolled_back"} => Chosen(c)
  /\ \A c \in Candidate : status[c] = "ready" => Sound(c)
  /\ \A t \in Task : HandlerChosen(h[t])

(* A step that takes no candidate out of the chosen ones and moves one     *)
(* handler to a place where it holds sound candidates.                     *)
LEMMA OneChooser ==
  ASSUME TypeOK, ChosenHeld, NEW t \in Task, h' = [h EXCEPT ![t] = h'[t]],
         chosen \subseteq chosen', HandlerChosen(h[t])'
  PROVE  \A u \in Task : HandlerChosen(h[u])'
<1>1. \A u \in Task \ {t} : h'[u] = h[u]
  BY DEF TypeOK
<1>2. ASSUME NEW u \in Task, u /= t PROVE HandlerChosen(h[u])'
  BY <1>1, <1>2 DEF ChosenHeld, HandlerChosen, Chosen, Sound
<1> QED
  BY <1>2

LEMMA ChosenNext == TypeOK /\ ChosenHeld /\ [Next]_vars => ChosenHeld'
<1> SUFFICES ASSUME TypeOK, ChosenHeld, [Next]_vars PROVE ChosenHeld'
  OBVIOUS
<1> DEFINE Holders == \A t \in Task : HandlerChosen(h[t])
<1> DEFINE Rows == /\ \A c \in Candidate : status[c] \in {"active", "rolled_back"} => Chosen(c)
                   /\ \A c \in Candidate : status[c] = "ready" => Sound(c)
<1>1. CASE UNCHANGED vars
  BY <1>1 DEF vars, ChosenHeld, HandlerChosen, Chosen, Sound
<1>2. ASSUME UNCHANGED <<status, chosen>> PROVE Rows'
  BY <1>2 DEF ChosenHeld, Chosen, Sound
<1>3. ASSUME NEW t \in Task
      PROVE  h[t] \in Handler /\ (h[t].pc /= "idle" => h[t].id \in Candidate)
  BY DEF TypeOK, HandlerOK, Handler
<1>4. ASSUME NEW t \in Task, NEW pc, NEW c, Start(t, pc, c), chosen' = chosen,
             pc \in {"enqueue", "evaluate"} \/ (pc = "getActive" /\ Sound(c))
               \/ (pc = "rollback" /\ Chosen(c))
      PROVE  Holders'
  <2>1. h'[t] = [pc |-> pc, id |-> c, other |-> None] /\ h' = [h EXCEPT ![t] = h'[t]]
    BY <1>4 DEF Start, TypeOK
  <2>2. HandlerChosen(h[t])'
    BY <1>4, <2>1 DEF HandlerChosen, Chosen, Sound
  <2> QED
    BY <1>4, <2>1, <2>2, OneChooser
<1>5. ASSUME NEW t \in Task, NEW pc, Goto(t, pc), chosen \subseteq chosen',
             pc \in {"created", "evaluated", "activated", "rolled_back", "findPrior"}
               \/ (pc = "activate" /\ h[t].pc \in {"getActive", "retire"})
      PROVE  Holders'
  <2>1. /\ h' = [h EXCEPT ![t] = h'[t]]
        /\ h'[t].pc = pc /\ h'[t].id = h[t].id
    BY <1>3, <1>5 DEF Goto, TypeOK, Handler
  <2>2. HandlerChosen(h[t])
    BY DEF ChosenHeld
  <2>3. HandlerChosen(h[t])'
    BY <1>5, <2>1, <2>2 DEF HandlerChosen, Sound
  <2> QED
    BY <1>5, <2>1, <2>3, OneChooser
<1>6. ASSUME NEW t \in Task, NEW pc \in {"retire", "restore"}, NEW p, Chosen(p),
             h' = [h EXCEPT ![t].pc = pc, ![t].other = p], chosen' = chosen,
             pc = "retire" => Sound(h[t].id)
      PROVE  Holders'
  <2>1. /\ h' = [h EXCEPT ![t] = h'[t]]
        /\ h'[t].pc = pc /\ h'[t].other = p /\ h'[t].id = h[t].id
    BY <1>3, <1>6 DEF TypeOK, Handler
  <2>2. h'[t].other \in chosen' /\ Sound(p)
    BY <1>6, <2>1 DEF Chosen
  <2>3. pc = "retire" => Sound(h[t].id)
    BY <1>6
  <2>4. HandlerChosen(h[t])'
    BY <2>1, <2>2, <2>3 DEF HandlerChosen, Chosen, Sound
  <2> QED
    BY <1>6, <2>1, <2>4, OneChooser
<1>7. ASSUME NEW t \in Task, h' = [h EXCEPT ![t] = Idle], chosen' = chosen PROVE Holders'
  <2>1. h'[t] = Idle /\ h' = [h EXCEPT ![t] = h'[t]]
    BY <1>7 DEF TypeOK
  <2>2. HandlerChosen(h[t])'
    BY <2>1 DEF Idle, HandlerChosen
  <2> QED
    BY <1>7, <2>1, <2>2, OneChooser
<1>8. ASSUME NEW t \in Task, CreateCandidate(t) PROVE ChosenHeld'
  <2>1. Rows'
    BY <1>8 DEF CreateCandidate, TypeOK, ChosenHeld, Chosen, Sound
  <2> QED
    BY <1>4, <1>8, <2>1 DEF CreateCandidate, ChosenHeld
<1>9. ASSUME NEW t \in Task, Evaluate(t) \/ Activate(t) \/ Rollback(t) PROVE ChosenHeld'
  <2>1. Holders'
    BY <1>4, <1>9 DEF Evaluate, Activate, Rollback, Active, ChosenHeld
  <2> QED
    BY <1>2, <1>9, <2>1 DEF Evaluate, Activate, Rollback, ChosenHeld
<1>10. ASSUME NEW t \in Task, TakeJob(t) PROVE ChosenHeld'
  <2>1. PICK c \in Candidate : Start(t, "evaluate", c) \/ UNCHANGED h
    BY <1>10 DEF TakeJob
  <2>2. UNCHANGED <<status, chosen>>
    BY <1>10 DEF TakeJob
  <2>3. Holders'
    BY <1>4, <2>1, <2>2 DEF ChosenHeld, HandlerChosen, Chosen, Sound
  <2> QED
    BY <1>2, <2>2, <2>3 DEF ChosenHeld
<1>11. ASSUME NEW t \in Task, Enqueue(t) \/ RecordAudit(t) \/ QueryError(t) PROVE ChosenHeld'
  <2>1. Holders'
    BY <1>5, <1>7, <1>11 DEF Enqueue, RecordAudit, QueryError
  <2> QED
    BY <1>2, <1>11, <2>1 DEF Enqueue, RecordAudit, QueryError, ChosenHeld
<1>12. ASSUME NEW t \in Task, WriteEvaluation(t) PROVE ChosenHeld'
  <2>1. h[t].id \in Candidate
    BY <1>3, <1>12 DEF WriteEvaluation, At
  <2>2. Rows'
    BY <1>12, <2>1, PassesIsSound DEF WriteEvaluation, TypeOK, ChosenHeld, Chosen, Sound
  <2> QED
    BY <1>5, <1>12, <2>2 DEF WriteEvaluation, ChosenHeld
<1>13. ASSUME NEW t \in Task, GetActive(t) PROVE ChosenHeld'
  <2>1. Sound(h[t].id)
    BY <1>13 DEF GetActive, At, ChosenHeld, HandlerChosen
  <2>2. Holders'
    BY <1>5, <1>6, <1>13, <2>1 DEF GetActive, At, Active, ChosenHeld
  <2> QED
    BY <1>2, <1>13, <2>2 DEF GetActive, ChosenHeld
<1>14. ASSUME NEW t \in Task, RetirePrevious(t) PROVE ChosenHeld'
  <2>1. Chosen(h[t].other)
    BY <1>14 DEF RetirePrevious, At, ChosenHeld, HandlerChosen
  <2>2. Rows'
    BY <1>14, <2>1 DEF RetirePrevious, TypeOK, ChosenHeld, Chosen, Sound
  <2>3. Holders'
    BY <1>5, <1>14 DEF RetirePrevious, At
  <2> QED
    BY <2>2, <2>3 DEF ChosenHeld
<1>15. ASSUME NEW t \in Task, WriteRollback(t) PROVE ChosenHeld'
  <2>1. Chosen(h[t].id)
    BY <1>15 DEF WriteRollback, At, ChosenHeld, HandlerChosen
  <2>2. Rows'
    BY <1>15, <2>1 DEF WriteRollback, TypeOK, ChosenHeld, Chosen, Sound
  <2> QED
    BY <1>5, <1>15, <2>2 DEF WriteRollback, ChosenHeld
<1>16. ASSUME NEW t \in Task, WriteActive(t) PROVE ChosenHeld'
  <2>1. CASE Refused(h[t].id)
    BY <1>2, <1>7, <1>16, <2>1 DEF WriteActive, ChosenHeld
  <2>2. CASE ~Refused(h[t].id)
    <3>1. Sound(h[t].id) /\ h[t].id \in chosen' /\ chosen \subseteq chosen'
      BY <1>16, <2>2 DEF WriteActive, At, ChosenHeld, HandlerChosen
    <3>2. Rows'
      BY <1>16, <2>2, <3>1 DEF WriteActive, TypeOK, ChosenHeld, Chosen, Sound
    <3>3. Holders'
      BY <1>5, <1>16, <2>2, <3>1 DEF WriteActive
    <3> QED
      BY <3>2, <3>3 DEF ChosenHeld
  <2> QED
    BY <2>1, <2>2
<1>17. ASSUME NEW t \in Task, FindPrior(t) PROVE ChosenHeld'
  <2>1. Holders'
    BY <1>5, <1>6, <1>17 DEF FindPrior, Prior, ChosenHeld
  <2> QED
    BY <1>2, <1>17, <2>1 DEF FindPrior, ChosenHeld
<1>18. ASSUME NEW t \in Task, Restore(t) PROVE ChosenHeld'
  <2>1. Chosen(h[t].other)
    BY <1>18 DEF Restore, At, ChosenHeld, HandlerChosen
  <2>2. Rows'
    BY <1>18, <2>1 DEF Restore, TypeOK, ChosenHeld, Chosen, Sound
  <2>3. Holders'
    BY <1>5, <1>7, <1>18 DEF Restore
  <2> QED
    BY <2>2, <2>3 DEF ChosenHeld
<1> QED
  BY <1>1, <1>8, <1>9, <1>10, <1>11, <1>12, <1>13, <1>14, <1>15, <1>16, <1>17, <1>18
     DEF Next, Step, Continue

(* Whatever runs at once and fails, an active candidate has passed its     *)
(* evaluation and was activated by the user.                               *)
THEOREM OnlyChosenActive == Spec => []ActiveWasChosen
<1>1. Init => ChosenHeld
  BY DEF Init, ChosenHeld, HandlerChosen, Idle
<1>2. ChosenHeld => ActiveWasChosen
  BY DEF ChosenHeld, ActiveWasChosen, Active, Chosen
<1> QED
  BY <1>1, <1>2, ChosenNext, CandidatesTyped, PTL DEF Spec

-----------------------------------------------------------------------------
(* Why at most one candidate is active. In Postgres the index refuses a    *)
(* second one. With the memory adapter a handler that has read or written  *)
(* is alone until it is done, but for handlers that wait for the queue,    *)
(* and knows what is active at each step.                                  *)
KnowsActive(x) ==
  /\ x.pc = "retire" => Active \subseteq {x.other}
  /\ x.pc = "rollback" => Active \subseteq {x.id}
  /\ x.pc \in {"activate", "findPrior", "restore"} => Active = {}
Alone == \A t, u \in Task : h[t].pc \notin AtQueue /\ h[u].pc \notin AtQueue => t = u
OneActive ==
  /\ AtMostOneActive
  /\ Adapter = "memory" => Alone /\ \A t \in Task : KnowsActive(h[t])

(* With the memory adapter only the handler that moves can be busy.        *)
LEMMA StaysAlone ==
  ASSUME TypeOK, Adapter = "memory", NEW t \in Task, Turn(t),
         h' = [h EXCEPT ![t] = h'[t]], KnowsActive(h[t])'
  PROVE  (Alone /\ \A u \in Task : KnowsActive(h[u]))'
<1>1. \A u \in Task \ {t} : h'[u].pc \in AtQueue
  BY DEF TypeOK, Turn
<1>2. \A u \in Task \ {t} : KnowsActive(h[u])'
  BY <1>1 DEF KnowsActive, AtQueue
<1> QED
  BY <1>1, <1>2 DEF Alone

LEMMA OneActiveNext == TypeOK /\ OneActive /\ [Next]_vars => OneActive'
<1> SUFFICES ASSUME TypeOK, OneActive, [Next]_vars PROVE OneActive'
  OBVIOUS
<1>1. CASE UNCHANGED vars
  BY <1>1 DEF vars, OneActive, AtMostOneActive, Active, Alone, KnowsActive
<1>2. ASSUME NEW t \in Task
      PROVE  /\ h[t] \in Handler /\ (h[t].pc /= "idle" => h[t].id \in Candidate)
             /\ h[t].pc \in {"retire", "restore"} => h[t].other \in Candidate
  BY DEF TypeOK, HandlerOK, Handler
<1>3. ASSUME NEW t \in Task, Turn(t), AtMostOneActive', h' = [h EXCEPT ![t] = h'[t]],
             Adapter = "memory" => KnowsActive(h[t])'
      PROVE  OneActive'
  BY <1>3, StaysAlone, AdapterAssumption DEF OneActive
<1>4. ASSUME NEW t \in Task, Turn(t), NEW pc, NEW c, Start(t, pc, c), Active' \subseteq Active,
             pc \in {"enqueue", "evaluate", "getActive"} \/ (pc = "rollback" /\ c \in Active)
      PROVE  OneActive'
  <2>1. h'[t] = [pc |-> pc, id |-> c, other |-> None] /\ h' = [h EXCEPT ![t] = h'[t]]
    BY <1>4 DEF Start, TypeOK
  <2>2. AtMostOneActive /\ AtMostOneActive'
    BY <1>4 DEF OneActive, AtMostOneActive
  <2>3. KnowsActive(h[t])'
    BY <1>4, <2>1, <2>2 DEF KnowsActive, AtMostOneActive
  <2> QED
    BY <1>3, <1>4, <2>1, <2>2, <2>3
<1>5. ASSUME NEW t \in Task, Turn(t), NEW pc, Goto(t, pc), AtMostOneActive',
             pc \in {"activate", "findPrior"} /\ Adapter = "memory" => Active' = {},
             pc \in {"created", "evaluated", "activated", "rolled_back", "activate", "findPrior"}
      PROVE  OneActive'
  <2>1. h'[t].pc = pc /\ h' = [h EXCEPT ![t] = h'[t]]
    BY <1>2, <1>5 DEF Goto, TypeOK, Handler
  <2>2. Adapter = "memory" => KnowsActive(h[t])'
    BY <1>5, <2>1 DEF KnowsActive
  <2> QED
    BY <1>3, <1>5, <2>1, <2>2
<1>6. ASSUME NEW t \in Task, h' = [h EXCEPT ![t] = Idle], Active' \subseteq Active
      PROVE  OneActive'
  <2>1. \A u \in Task : h'[u] = IF u = t THEN Idle ELSE h[u]
    BY <1>6 DEF TypeOK
  <2>2. AtMostOneActive'
    BY <1>6 DEF OneActive, AtMostOneActive
  <2>3. ASSUME Adapter = "memory" PROVE (Alone /\ \A u \in Task : KnowsActive(h[u]))'
    <3>1. Alone'
      BY <2>1, <2>3 DEF OneActive, Alone, Idle, AtQueue
    <3>2. ASSUME NEW u \in Task PROVE KnowsActive(h[u])'
      <4>1. CASE u = t
        BY <2>1, <4>1 DEF KnowsActive, Idle
      <4>2. CASE u /= t
        <5>1. h'[u] = h[u] /\ KnowsActive(h[u])
          BY <2>1, <2>3, <4>2 DEF OneActive
        <5> QED
          BY <1>6, <5>1 DEF KnowsActive
      <4> QED
        BY <4>1, <4>2
    <3> QED
      BY <3>1, <3>2
  <2> QED
    BY <2>2, <2>3 DEF OneActive
<1>7. AtMostOneActive
  BY DEF OneActive
<1>8. ASSUME UNCHANGED status PROVE Active' = Active /\ AtMostOneActive'
  BY <1>7, <1>8 DEF Active, AtMostOneActive
<1>9. ASSUME NEW c \in Candidate, NEW s, s /= "active", status' = [status EXCEPT ![c] = s]
      PROVE  Active' = Active \ {c} /\ AtMostOneActive'
  BY <1>7, <1>9 DEF Active, AtMostOneActive, TypeOK
<1>10. ASSUME NEW t \in Task, CreateCandidate(t) PROVE OneActive'
  BY <1>4, <1>9, <1>10 DEF CreateCandidate, At
<1>11. ASSUME NEW t \in Task, Evaluate(t) \/ Activate(t) \/ Rollback(t) PROVE OneActive'
  BY <1>4, <1>8, <1>11 DEF Evaluate, Activate, Rollback, At
<1>12. ASSUME NEW t \in Task, TakeJob(t) PROVE OneActive'
  <2>1. PICK c \in Candidate : Start(t, "evaluate", c) \/ UNCHANGED h
    BY <1>12 DEF TakeJob
  <2>2. UNCHANGED status /\ Turn(t)
    BY <1>12 DEF TakeJob, At
  <2>3. CASE Start(t, "evaluate", c)
    BY <1>4, <1>8, <2>2, <2>3
  <2>4. CASE UNCHANGED h
    BY <1>8, <2>2, <2>4 DEF OneActive, Alone, KnowsActive
  <2> QED
    BY <2>1, <2>3, <2>4
<1>13. ASSUME NEW t \in Task, Enqueue(t) \/ RecordAudit(t) \/ QueryError(t) PROVE OneActive'
  <2>1. CASE Enqueue(t)
    BY <1>5, <1>8, <2>1 DEF Enqueue, At
  <2>2. CASE RecordAudit(t) \/ QueryError(t)
    BY <1>6, <1>8, <2>2 DEF RecordAudit, QueryError
  <2> QED
    BY <1>13, <2>1, <2>2
<1>14. ASSUME NEW t \in Task, WriteEvaluation(t) PROVE OneActive'
  <2>1. h[t].id \in Candidate /\ Turn(t) /\ Goto(t, "evaluated")
    BY <1>2, <1>14 DEF WriteEvaluation, At
  <2>2. PICK s \in {"ready", "failed"} : status' = [status EXCEPT ![h[t].id] = s]
    BY <1>14 DEF WriteEvaluation
  <2> QED
    BY <1>5, <1>9, <2>1, <2>2
<1>15. ASSUME NEW t \in Task, GetActive(t) PROVE OneActive'
  <2>1. UNCHANGED status /\ Turn(t)
    BY <1>15 DEF GetActive, At
  <2>2. CASE Active = {} /\ Goto(t, "activate")
    BY <1>5, <1>8, <2>1, <2>2
  <2>3. ASSUME NEW p \in Active, h' = [h EXCEPT ![t].pc = "retire", ![t].other = p]
        PROVE  OneActive'
    <3>1. /\ h' = [h EXCEPT ![t] = h'[t]]
          /\ h'[t].pc = "retire" /\ h'[t].other = p
      BY <1>2, <2>3 DEF TypeOK, Handler
    <3>2. Active' \subseteq {p} /\ AtMostOneActive'
      BY <1>7, <1>8, <2>1, <2>3 DEF AtMostOneActive
    <3>3. KnowsActive(h[t])'
      BY <3>1, <3>2 DEF KnowsActive
    <3> QED
      BY <1>3, <2>1, <3>1, <3>2, <3>3
  <2> QED
    BY <1>15, <2>2, <2>3 DEF GetActive
<1>16. ASSUME NEW t \in Task, RetirePrevious(t) PROVE OneActive'
  <2>1. /\ h[t].other \in Candidate /\ Turn(t) /\ Goto(t, "activate")
        /\ status' = [status EXCEPT ![h[t].other] = "rolled_back"]
    BY <1>2, <1>16 DEF RetirePrevious, At
  <2>2. Active' = Active \ {h[t].other} /\ AtMostOneActive'
    BY <1>9, <2>1
  <2>3. Adapter = "memory" => Active \subseteq {h[t].other}
    BY <1>16 DEF RetirePrevious, At, OneActive, KnowsActive
  <2> QED
    BY <1>5, <2>1, <2>2, <2>3
<1>17. ASSUME NEW t \in Task, WriteRollback(t) PROVE OneActive'
  <2>1. /\ h[t].id \in Candidate /\ Turn(t) /\ Goto(t, "findPrior")
        /\ status' = [status EXCEPT ![h[t].id] = "rolled_back"]
    BY <1>2, <1>17 DEF WriteRollback, At
  <2>2. Active' = Active \ {h[t].id} /\ AtMostOneActive'
    BY <1>9, <2>1
  <2>3. Adapter = "memory" => Active \subseteq {h[t].id}
    BY <1>17 DEF WriteRollback, At, OneActive, KnowsActive
  <2> QED
    BY <1>5, <2>1, <2>2, <2>3
<1>18. ASSUME NEW t \in Task, NEW c \in Candidate, ~Refused(c), Turn(t),
              h[t].pc \in {"activate", "restore"},
              status' = [status EXCEPT ![c] = "active"],
              Goto(t, "activated") \/ Goto(t, "rolled_back")
       PROVE  OneActive'
  <2>1. Active \subseteq {c}
    BY <1>18, AdapterAssumption DEF Refused, OneActive, KnowsActive
  <2>2. Active' \subseteq {c}
    BY <1>18, <2>1 DEF Active, TypeOK
  <2>3. AtMostOneActive'
    BY <2>2 DEF AtMostOneActive
  <2> QED
    BY <1>5, <1>18, <2>3
<1>19. ASSUME NEW t \in Task, WriteActive(t) \/ Restore(t) PROVE OneActive'
  <2>1. CASE (WriteActive(t) /\ Refused(h[t].id)) \/ (Restore(t) /\ Refused(h[t].other))
    <3>1. UNCHANGED status /\ h' = [h EXCEPT ![t] = Idle]
      BY <2>1 DEF WriteActive, Restore
    <3> QED
      BY <1>6, <1>8, <3>1
  <2>2. CASE WriteActive(t) /\ ~Refused(h[t].id)
    <3>1. h[t].id \in Candidate
      BY <1>2, <2>2 DEF WriteActive, At
    <3> QED
      BY <1>18, <2>2, <3>1 DEF WriteActive, At
  <2>3. CASE Restore(t) /\ ~Refused(h[t].other)
    <3>1. h[t].other \in Candidate
      BY <1>2, <2>3 DEF Restore, At
    <3> QED
      BY <1>18, <2>3, <3>1 DEF Restore, At
  <2>4. CASE WriteActive(t)
    BY <2>1, <2>2, <2>4
  <2>5. CASE Restore(t)
    BY <2>1, <2>3, <2>5
  <2> QED
    BY <1>19, <2>4, <2>5
<1>20. ASSUME NEW t \in Task, FindPrior(t) PROVE OneActive'
  <2>1. UNCHANGED status /\ Turn(t) /\ h[t].pc = "findPrior"
    BY <1>20 DEF FindPrior, At
  <2>2. CASE Goto(t, "rolled_back")
    BY <1>5, <1>8, <2>1, <2>2
  <2>3. ASSUME NEW p, h' = [h EXCEPT ![t].pc = "restore", ![t].other = p] PROVE OneActive'
    <3>1. h' = [h EXCEPT ![t] = h'[t]] /\ h'[t].pc = "restore"
      BY <1>2, <2>3 DEF TypeOK, Handler
    <3>2. Adapter = "memory" => Active' = {}
      BY <1>8, <2>1 DEF OneActive, KnowsActive
    <3>3. Adapter = "memory" => KnowsActive(h[t])'
      BY <3>1, <3>2 DEF KnowsActive
    <3> QED
      BY <1>3, <1>8, <2>1, <3>1, <3>3
  <2> QED
    BY <1>20, <2>2, <2>3 DEF FindPrior
<1> QED
  BY <1>1, <1>10, <1>11, <1>12, <1>13, <1>14, <1>15, <1>16, <1>17, <1>19, <1>20
     DEF Next, Step, Continue

LEMMA OneActiveInvariant == Spec => []OneActive
<1>1. Init => OneActive
  BY DEF Init, OneActive, AtMostOneActive, Active, Alone, KnowsActive, Idle, AtQueue
<1> QED
  BY <1>1, OneActiveNext, CandidatesTyped, PTL DEF Spec

(* However activations, rollbacks and evaluations interleave and fail, at  *)
(* most one candidate is active, with either adapter.                      *)
THEOREM OneActiveAtMost == Spec => []AtMostOneActive
<1>1. OneActive => AtMostOneActive
  BY DEF OneActive
<1> QED
  BY <1>1, OneActiveInvariant, PTL

-----------------------------------------------------------------------------
(* Where a candidate stands, with either adapter: only a draft or a failed *)
(* one is under evaluation, and what a handler activates, replaces, rolls  *)
(* back or restores has been past its evaluation.                          *)
Past == {"ready", "active", "rolled_back"}
InOrder(x) ==
  /\ x.pc = "evaluate" => status[x.id] \in Evaluable
  /\ x.pc \in {"getActive", "retire", "activate", "rollback", "findPrior", "restore"} =>
       status[x.id] \in Past
  /\ x.pc \in {"retire", "restore"} => status[x.other] \in Past
AllInOrder == \A t \in Task : InOrder(h[t])

LEMMA OrderNext ==
  ASSUME TypeOK, AllInOrder, SoleEvaluation, [Next]_vars
  PROVE  AllInOrder'
<1>1. CASE UNCHANGED vars
  BY <1>1 DEF vars, AllInOrder, InOrder
<1>2. ASSUME NEW t \in Task, Step(t) PROVE AllInOrder'
  <2>0. /\ h \in [Task -> Handler] /\ \A u \in Task : h[u] \in Handler /\ HandlerOK(h[u])
        /\ status \in [Candidate -> Status] /\ None \notin Candidate
        /\ \A u \in Task : h[u].pc /= "idle" => h[u].id \in Candidate
        /\ \A u \in Task : h[u].pc \in {"retire", "restore"} => h[u].other \in Candidate
    BY NoneIsNoCandidate DEF TypeOK, HandlerOK, Handler
  (* What a step writes on one candidate.                                  *)
  <2>1. ASSUME NEW x, h' = [h EXCEPT ![t] = x], status' = status, InOrder(x)
        PROVE  AllInOrder'
    <3>1. \A u \in Task : h'[u] = IF u = t THEN x ELSE h[u]
      BY <2>0, <2>1
    <3> QED
      BY <2>1, <3>1 DEF AllInOrder, InOrder
  <2>2. ASSUME NEW c \in Candidate, status[c] \in Past, NEW s \in Past,
               status' = [status EXCEPT ![c] = s], NEW pc, Goto(t, pc),
               pc = "activate" => h[t].pc = "retire",
               pc = "findPrior" => h[t].pc = "rollback",
               pc \in {"activate", "findPrior", "activated", "rolled_back"}
        PROVE  AllInOrder'
    <3>1. \A u \in Task \ {t} : h'[u] = h[u]
      BY <2>0, <2>2 DEF Goto
    <3>2. h'[t].pc = pc /\ h'[t].id = h[t].id
      BY <2>0, <2>2 DEF Goto, Handler
    <3>3. \A d \in Candidate : /\ status[d] \in Past => status'[d] \in Past
                               /\ status[d] \notin Past => status'[d] = status[d]
      BY <2>0, <2>2
    <3>4. Past \intersect Evaluable = {}
      BY DEF Past, Evaluable
    <3>5. InOrder(h[t])'
      BY <2>0, <2>2, <3>2, <3>3 DEF AllInOrder, InOrder
    <3>6. ASSUME NEW u \in Task \ {t} PROVE InOrder(h[u])'
      BY <2>0, <3>1, <3>3, <3>4, <3>6 DEF AllInOrder, InOrder
    <3> QED
      BY <3>5, <3>6 DEF AllInOrder
  <2>3. ASSUME NEW pc, NEW c, Start(t, pc, c), status' = status,
               pc = "evaluate" => status[c] \in Evaluable,
               pc \in {"getActive", "rollback"} => status[c] \in Past,
               pc \in {"evaluate", "getActive", "rollback", "enqueue"}
        PROVE  AllInOrder'
    BY <2>1, <2>3 DEF Start, InOrder
  <2>4. ASSUME NEW pc, Goto(t, pc), status' = status,
               pc = "activate" => h[t].pc = "getActive",
               pc \in {"created", "activate", "rolled_back"}
        PROVE  AllInOrder'
    <3> DEFINE x == [h[t] EXCEPT !.pc = pc]
    <3>1. x.pc = pc /\ x.id = h[t].id
      BY <2>0 DEF Handler
    <3>2. h' = [h EXCEPT ![t] = x]
      BY <2>4 DEF Goto
    <3> HIDE DEF x
    <3>3. InOrder(x)
      BY <2>4, <3>1 DEF AllInOrder, InOrder
    <3> QED
      BY <2>1, <2>4, <3>2, <3>3
  <2>5. ASSUME NEW pc \in {"retire", "restore"}, NEW p \in Candidate,
               h' = [h EXCEPT ![t].pc = pc, ![t].other = p], status' = status,
               status[p] \in Past, h[t].pc \in {"getActive", "findPrior"}
        PROVE  AllInOrder'
    <3> DEFINE x == [h[t] EXCEPT !.pc = pc, !.other = p]
    <3>1. x.pc = pc /\ x.id = h[t].id /\ x.other = p
      BY <2>0 DEF Handler
    <3>2. h' = [h EXCEPT ![t] = x]
      BY <2>5
    <3> HIDE DEF x
    <3>3. InOrder(x)
      BY <2>5, <3>1 DEF AllInOrder, InOrder
    <3> QED
      BY <2>1, <2>5, <3>2, <3>3
  <2>6. CASE h' = [h EXCEPT ![t] = Idle] /\ status' = status
    BY <2>1, <2>6 DEF InOrder, Idle
  <2>7. CASE CreateCandidate(t)
    <3>1. PICK c \in Candidate :
            status[c] = "absent" /\ status' = [status EXCEPT ![c] = "draft"] /\ Start(t, "enqueue", c)
      BY <2>7 DEF CreateCandidate
    <3>2. h'[t].pc = "enqueue" /\ \A u \in Task \ {t} : h'[u] = h[u]
      BY <2>0, <3>1 DEF Start
    <3>3. ASSUME NEW u \in Task \ {t} PROVE InOrder(h[u])'
      <4>1. InOrder(h[u])
        BY DEF AllInOrder
      <4> QED
        BY <2>0, <3>1, <3>2, <3>3, <4>1 DEF InOrder, Past, Evaluable
    <3>4. InOrder(h[t])'
      BY <3>2 DEF InOrder
    <3> QED
      BY <3>3, <3>4 DEF AllInOrder
  <2>8. CASE WriteEvaluation(t)
    <3> DEFINE c == h[t].id
    <3>1. /\ c \in Candidate /\ h[t].pc = "evaluate" /\ status[c] \in Evaluable
          /\ status' = [status EXCEPT ![c] = IF Passes(c) THEN "ready" ELSE "failed"]
      BY <2>0, <2>8 DEF WriteEvaluation, At, AllInOrder, InOrder
    <3>2. h'[t].pc = "evaluated" /\ \A u \in Task \ {t} : h'[u] = h[u]
      BY <2>0, <2>8 DEF WriteEvaluation, Goto, Handler
    <3>3. ASSUME NEW u \in Task \ {t} PROVE InOrder(h[u])'
      <4>1. InOrder(h[u]) /\ (h[u].pc = "evaluate" => h[u].id /= c)
        BY <3>1 DEF AllInOrder, SoleEvaluation
      <4>2. \A d \in Candidate \ {c} : status'[d] = status[d]
        BY <2>0, <3>1
      <4> QED
        BY <2>0, <3>1, <3>2, <3>3, <4>1, <4>2 DEF InOrder, Past, Evaluable
    <3>4. InOrder(h[t])'
      BY <3>2 DEF InOrder
    <3> QED
      BY <3>3, <3>4 DEF AllInOrder
  <2>9. CASE Evaluate(t)
    BY <2>3, <2>9 DEF Evaluate
  <2>10. CASE TakeJob(t)
    BY <2>0, <2>3, <2>10 DEF TakeJob, AllInOrder, InOrder
  <2>11. CASE Activate(t)
    BY <2>3, <2>11 DEF Activate, Past
  <2>12. CASE Rollback(t)
    BY <2>3, <2>12 DEF Rollback, Active, Past
  <2>13. CASE Enqueue(t)
    BY <2>4, <2>13 DEF Enqueue, At
  <2>14. CASE RecordAudit(t) \/ QueryError(t)
    BY <2>6, <2>14 DEF RecordAudit, QueryError
  <2>15. CASE GetActive(t)
    <3>1. CASE Goto(t, "activate")
      BY <2>4, <2>15, <3>1 DEF GetActive, At
    <3>2. ASSUME NEW p \in Active, h' = [h EXCEPT ![t].pc = "retire", ![t].other = p]
          PROVE  AllInOrder'
      BY <2>5, <2>15, <3>2 DEF GetActive, At, Active, Past
    <3> QED
      BY <2>15, <3>1, <3>2 DEF GetActive
  <2>16. CASE RetirePrevious(t)
    <3>1. /\ h[t].pc = "retire" /\ h[t].other \in Candidate /\ status[h[t].other] \in Past
          /\ status' = [status EXCEPT ![h[t].other] = "rolled_back"] /\ Goto(t, "activate")
      BY <2>0, <2>16 DEF RetirePrevious, At, AllInOrder, InOrder
    <3>2. "rolled_back" \in Past
      BY DEF Past
    <3> QED
      BY <2>2, <3>1, <3>2
  <2>17. CASE WriteActive(t)
    <3>1. /\ h[t].pc = "activate" /\ h[t].id \in Candidate /\ status[h[t].id] \in Past
          /\ \/ h' = [h EXCEPT ![t] = Idle] /\ status' = status
             \/ status' = [status EXCEPT ![h[t].id] = "active"] /\ Goto(t, "activated")
      BY <2>0, <2>17 DEF WriteActive, At, AllInOrder, InOrder
    <3>2. "active" \in Past
      BY DEF Past
    <3> QED
      BY <2>2, <2>6, <3>1, <3>2
  <2>18. CASE WriteRollback(t)
    <3>1. /\ h[t].pc = "rollback" /\ h[t].id \in Candidate /\ status[h[t].id] \in Past
          /\ status' = [status EXCEPT ![h[t].id] = "rolled_back"] /\ Goto(t, "findPrior")
      BY <2>0, <2>18 DEF WriteRollback, At, AllInOrder, InOrder
    <3>2. "rolled_back" \in Past
      BY DEF Past
    <3> QED
      BY <2>2, <3>1, <3>2
  <2>19. CASE FindPrior(t)
    <3>1. CASE Goto(t, "rolled_back")
      BY <2>4, <2>19, <3>1 DEF FindPrior
    <3>2. ASSUME NEW p \in Prior(h[t].id),
                 h' = [h EXCEPT ![t].pc = "restore", ![t].other = p]
          PROVE  AllInOrder'
      BY <2>5, <2>19, <3>2 DEF FindPrior, At, Prior, Past
    <3> QED
      BY <2>19, <3>1, <3>2 DEF FindPrior
  <2>20. CASE Restore(t)
    <3>1. /\ h[t].pc = "restore" /\ h[t].other \in Candidate /\ status[h[t].other] \in Past
          /\ \/ h' = [h EXCEPT ![t] = Idle] /\ status' = status
             \/ status' = [status EXCEPT ![h[t].other] = "active"] /\ Goto(t, "rolled_back")
      BY <2>0, <2>20 DEF Restore, At, AllInOrder, InOrder
    <3>2. "active" \in Past
      BY DEF Past
    <3> QED
      BY <2>2, <2>6, <3>1, <3>2
  <2> QED
    BY <1>2, <2>7, <2>8, <2>9, <2>10, <2>11, <2>12, <2>13, <2>14, <2>15, <2>16, <2>17,
       <2>18, <2>19, <2>20 DEF Step, Continue
<1> QED
  BY <1>1, <1>2 DEF Next

(* With either adapter, whatever requests, workers and failures mix: as    *)
(* long as no two evaluations of one candidate overlap, an active one      *)
(* stays active until it is replaced or rolled back.                       *)
THEOREM ActiveStaysUnderSoleEvaluation == Spec /\ []SoleEvaluation => ActiveStays
<1>1. Init => AllInOrder
  BY DEF Init, AllInOrder, InOrder, Idle
<1>2. TypeOK /\ AllInOrder /\ SoleEvaluation /\ [Next]_vars => AllInOrder'
  BY OrderNext
<1>3. TypeOK /\ AllInOrder /\ [Next]_vars =>
        [\A c \in Candidate : status[c] = "active" =>
           status'[c] \in {"active", "rolled_back"}]_vars
  <2> SUFFICES ASSUME TypeOK, AllInOrder, NEW t \in Task, Step(t), NEW c \in Candidate,
                      status[c] = "active"
               PROVE  status'[c] \in {"active", "rolled_back"}
    BY DEF Next
  <2>1. CASE CreateCandidate(t)
    BY <2>1 DEF CreateCandidate, TypeOK
  <2>2. CASE WriteEvaluation(t)
    BY <2>2 DEF WriteEvaluation, At, AllInOrder, InOrder, Evaluable, TypeOK
  <2>3. CASE RetirePrevious(t) \/ WriteRollback(t) \/ WriteActive(t) \/ Restore(t)
    BY <2>3 DEF RetirePrevious, WriteRollback, WriteActive, Restore, TypeOK
  <2>4. CASE UNCHANGED status
    BY <2>4
  <2> QED
    BY <2>1, <2>2, <2>3, <2>4 DEF Step, Continue, Enqueue, RecordAudit, Evaluate, TakeJob,
       Activate, GetActive, Rollback, FindPrior, QueryError
<1> QED
  BY <1>1, <1>2, <1>3, CandidatesTyped, PTL DEF Spec, ActiveStays

(* Why an evaluation with the memory adapter has no rival: it is alone.    *)
LEMMA MemoryIsSole ==
  ASSUME Adapter = "memory"
  PROVE  Spec => []SoleEvaluation
<1>1. Alone => SoleEvaluation
  BY DEF Alone, SoleEvaluation, AtQueue
<1>2. OneActive => SoleEvaluation
  BY <1>1 DEF OneActive
<1> QED
  BY <1>2, OneActiveInvariant, PTL

(* With the memory adapter an active candidate stays active until it is    *)
(* replaced or rolled back: no evaluation takes it back.                   *)
THEOREM MemoryActiveStays ==
  ASSUME Adapter = "memory"
  PROVE  Spec => ActiveStays
BY MemoryIsSole, ActiveStaysUnderSoleEvaluation, PTL

-----------------------------------------------------------------------------
(* Why the user keeps an active candidate: a handler that has retired the  *)
(* active one goes on until another is active, by its own write or by the  *)
(* one that made the index refuse it, or until its rollback is on record.  *)
(* Only a query that fails cuts it off; with the memory adapter none does. *)
Unsettled == {"activate", "findPrior", "restore", "rolled_back"}
SomeActive ==
  chosen /= {} /\ (\A c \in Candidate : <<c, "rolled_back">> \notin audit)
    => Active /= {} \/ \E t \in Task : h[t].pc \in Unsettled
Unfailing == Adapter = "memory" \/ faults = 0
Kept == Unfailing => SomeActive

LEMMA KeptNext ==
  ASSUME TypeOK, AllInOrder, Kept, [Next]_vars
  PROVE  Kept'
<1>1. CASE UNCHANGED vars
  BY <1>1 DEF vars, Kept, Unfailing, SomeActive, Active
<1>2. ASSUME NEW t \in Task, Step(t), Unfailing, SomeActive, Unfailing' PROVE SomeActive'
  <2>0. /\ h[t] \in Handler /\ (h[t].pc /= "idle" => h[t].id \in Candidate)
        /\ h[t].pc \in {"retire", "restore"} => h[t].other \in Candidate
        /\ status \in [Candidate -> Status]
    BY DEF TypeOK, HandlerOK, Handler
  (* What the handler that moves leaves, and that the others do not move.  *)
  <2>1. ASSUME NEW x, h' = [h EXCEPT ![t] = x] PROVE h'[t] = x /\ h' = [h EXCEPT ![t] = h'[t]]
    BY <2>1 DEF TypeOK
  <2>2. ASSUME NEW pc, Goto(t, pc)
        PROVE  h'[t].pc = pc /\ h' = [h EXCEPT ![t] = h'[t]]
    BY <2>0, <2>2 DEF Goto, TypeOK, Handler
  (* A step that takes no candidate out of Active.                         *)
  <2>3. ASSUME h' = [h EXCEPT ![t] = h'[t]], Active \subseteq Active',
               chosen' = chosen, audit \subseteq audit',
               h[t].pc \in Unsettled => h'[t].pc \in Unsettled
        PROVE  SomeActive'
    <3>1. ASSUME NEW u \in Task, h[u].pc \in Unsettled PROVE h'[u].pc \in Unsettled
      BY <2>3, <3>1 DEF TypeOK
    <3> QED
      BY <1>2, <2>3, <3>1 DEF SomeActive
  <2>4. ASSUME UNCHANGED status PROVE Active \subseteq Active'
    BY <2>4 DEF Active
  (* A step that leaves its handler on the way, or some candidate active.  *)
  <2>5. ASSUME h'[t].pc \in Unsettled \/ Active' /= {} PROVE SomeActive'
    BY <2>5 DEF SomeActive
  <2>6. CASE CreateCandidate(t)
    <3>1. PICK c \in Candidate : /\ status[c] = "absent" /\ Start(t, "enqueue", c)
                                 /\ status' = [status EXCEPT ![c] = "draft"]
      BY <2>6 DEF CreateCandidate
    <3>2. Active \subseteq Active'
      BY <2>0, <3>1 DEF Active
    <3>3. h' = [h EXCEPT ![t] = h'[t]]
      BY <3>1, <2>1 DEF Start
    <3> QED
      BY <2>3, <2>6, <3>2, <3>3 DEF CreateCandidate, At, Unsettled
  <2>7. CASE Enqueue(t)
    BY <2>2, <2>3, <2>4, <2>7 DEF Enqueue, At, Unsettled
  <2>8. CASE RecordAudit(t)
    <3>1. h' = [h EXCEPT ![t] = h'[t]]
      BY <2>1, <2>8 DEF RecordAudit
    <3>2. CASE h[t].pc = "rolled_back"
      BY <2>0, <2>8, <3>2 DEF RecordAudit, SomeActive
    <3>3. CASE h[t].pc /= "rolled_back"
      BY <2>3, <2>4, <2>8, <3>1, <3>3 DEF RecordAudit, Unsettled
    <3> QED
      BY <3>2, <3>3
  <2>9. CASE QueryError(t)
    <3>1. Adapter = "memory"
      BY <1>2, <2>9 DEF QueryError, Unfailing, TypeOK
    <3>2. h' = [h EXCEPT ![t] = h'[t]]
      BY <2>1, <2>9 DEF QueryError
    <3> QED
      BY <2>3, <2>4, <2>9, <3>1, <3>2 DEF QueryError, At, Unsettled
  <2>10. ASSUME NEW pc, NEW c, Start(t, pc, c), At(t, "idle"), UNCHANGED <<status, chosen, audit>>
         PROVE  SomeActive'
    <3>1. h' = [h EXCEPT ![t] = h'[t]]
      BY <2>1, <2>10 DEF Start
    <3> QED
      BY <2>3, <2>4, <2>10, <3>1 DEF At, Unsettled
  <2>11. CASE Evaluate(t) \/ Activate(t) \/ Rollback(t)
    BY <2>10, <2>11 DEF Evaluate, Activate, Rollback
  <2>12. CASE TakeJob(t)
    <3>1. (\E c \in Candidate : Start(t, "evaluate", c)) \/ UNCHANGED h
      BY <2>12 DEF TakeJob
    <3>2. CASE UNCHANGED h
      BY <1>2, <2>12, <3>2 DEF TakeJob, SomeActive, Active
    <3> QED
      BY <2>10, <2>12, <3>1, <3>2 DEF TakeJob
  <2>13. CASE WriteEvaluation(t)
    <3>1. status[h[t].id] /= "active" /\ Goto(t, "evaluated")
      BY <2>13 DEF WriteEvaluation, At, AllInOrder, InOrder, Evaluable
    <3>2. Active \subseteq Active'
      BY <2>0, <2>13, <3>1 DEF WriteEvaluation, Active
    <3> QED
      BY <2>2, <2>3, <2>13, <3>1, <3>2 DEF WriteEvaluation, At, Unsettled
  <2>14. CASE GetActive(t)
    <3>1. CASE Goto(t, "activate")
      BY <2>2, <2>5, <3>1 DEF Unsettled
    <3>2. ASSUME NEW p, h' = [h EXCEPT ![t].pc = "retire", ![t].other = p] PROVE SomeActive'
      <4>1. h' = [h EXCEPT ![t] = h'[t]]
        BY <3>2 DEF TypeOK
      <4> QED
        BY <2>3, <2>4, <2>14, <4>1 DEF GetActive, At, Unsettled
    <3> QED
      BY <2>14, <3>1, <3>2 DEF GetActive
  <2>15. CASE RetirePrevious(t) \/ WriteRollback(t)
    BY <2>2, <2>5, <2>15 DEF RetirePrevious, WriteRollback, Unsettled
  <2>16. CASE WriteActive(t)
    <3>1. CASE Refused(h[t].id)
      BY <2>5, <2>16, <3>1 DEF WriteActive, Refused, Active
    <3>2. CASE ~Refused(h[t].id)
      <4>1. h[t].id \in Candidate /\ status' = [status EXCEPT ![h[t].id] = "active"]
        BY <2>0, <2>16, <3>2 DEF WriteActive, At
      <4>2. h[t].id \in Active'
        BY <2>0, <4>1 DEF Active
      <4> QED
        BY <2>5, <4>2
    <3> QED
      BY <3>1, <3>2
  <2>17. CASE FindPrior(t)
    <3>1. h'[t].pc \in Unsettled
      BY <2>0, <2>2, <2>17 DEF FindPrior, TypeOK, Handler, Unsettled
    <3> QED
      BY <2>5, <3>1
  <2>18. CASE Restore(t)
    <3>1. CASE Refused(h[t].other)
      BY <2>5, <2>18, <3>1 DEF Restore, Refused, Active
    <3>2. CASE ~Refused(h[t].other)
      BY <2>2, <2>5, <2>18, <3>2 DEF Restore, Unsettled
    <3> QED
      BY <3>1, <3>2
  <2> QED
    BY <1>2, <2>6, <2>7, <2>8, <2>9, <2>11, <2>12, <2>13, <2>14, <2>15, <2>16, <2>17, <2>18
       DEF Step, Continue
<1>3. ASSUME Unfailing' PROVE Unfailing
  <2>1. ASSUME NEW t \in Task, QueryError(t) PROVE faults' = faults + 1 /\ faults \in Nat
    BY <2>1 DEF QueryError, TypeOK
  <2>2. ASSUME NEW t \in Task, Step(t), ~QueryError(t) PROVE faults' = faults
    BY <2>2 DEF Step, Continue, CreateCandidate, Enqueue, RecordAudit, Evaluate, TakeJob,
      WriteEvaluation, Activate, GetActive, RetirePrevious, WriteActive, Rollback,
      WriteRollback, FindPrior, Restore
  <2>3. faults' = faults \/ (faults' = faults + 1 /\ faults \in Nat)
    BY <2>1, <2>2 DEF Next, vars
  <2> QED
    BY <1>3, <2>3 DEF Unfailing
<1> QED
  BY <1>1, <1>2, <1>3 DEF Next, Kept

(* With either adapter, whatever activations, rollbacks and workers race:  *)
(* as long as no two evaluations of one candidate overlap and no query has *)
(* failed, replacing an active candidate never leaves the user without one *)
(* - also when the index refuses one of two activations.                   *)
THEOREM OneActiveUnderSoleEvaluation ==
  Spec /\ []SoleEvaluation => [](Adapter = "memory" \/ faults = 0 => NotWithoutActive)
<1>1. Init => AllInOrder /\ Kept
  BY DEF Init, AllInOrder, InOrder, Kept, SomeActive, Idle
<1>2. TypeOK /\ AllInOrder /\ SoleEvaluation /\ [Next]_vars => AllInOrder'
  BY OrderNext
<1>3. TypeOK /\ AllInOrder /\ Kept /\ [Next]_vars => Kept'
  BY KeptNext
<1>4. Kept => (Adapter = "memory" \/ faults = 0 => NotWithoutActive)
  BY DEF Kept, Unfailing, SomeActive, NotWithoutActive, Unsettled, Idle
<1> QED
  BY <1>1, <1>2, <1>3, <1>4, CandidatesTyped, PTL DEF Spec

(* With the memory adapter, replacing an active candidate never leaves the *)
(* user without one, however requests, workers and failures of the queue   *)
(* mix.                                                                    *)
THEOREM MemoryKeepsOneActive ==
  ASSUME Adapter = "memory"
  PROVE  Spec => []NotWithoutActive
BY MemoryIsSole, OneActiveUnderSoleEvaluation, PTL
=============================================================================
