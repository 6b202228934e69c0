------------------------- MODULE ClientSessionProofs -------------------------
(***************************************************************************)
(* The client's session keeps its types, and a creation takes effect once  *)
(* at most, at the server it was made for, for any servers and requests.   *)
(***************************************************************************)
EXTENDS ClientSession, TLAPS

(* What typing asks of the state of a request.                             *)
RequestOK(x) ==
  /\ x \in RequestState
  /\ x.pc /= "idle" => x.at /= NoServer /\ x.first /= NoServer
  /\ x.pc \in AtProvider => x.token /= NoServer
  /\ x.pc = "granted" => x.token = x.at
  /\ x.open => x.pc \notin Ended

LEMMA TypedParts ==
  SessionTyped <=>
    /\ server \in Server /\ held \in Origin /\ fresh \in BOOLEAN
    /\ (fresh => held /= NoServer)
    /\ page \in {"loading", "app", "leaving", "signingIn", "provider", "blank"}
    /\ url \in {"plain", "code", "stale"} /\ pending \in BOOLEAN
    /\ q \in [Request -> RequestState]
    /\ made \subseteq Writes \X Server \X BOOLEAN /\ logged \subseteq Writes
    /\ \A r \in Request : RequestOK(q[r])
    /\ \A r \in Request : q[r].open => page \in {"app", "leaving", "signingIn"}
BY DEF SessionTyped, RequestOK

(* A step of one request r leaves the others as they are.                  *)
LEMMA OneRequest ==
  ASSUME SessionTyped, NEW r \in Request, NEW x, RequestOK(x),
         q' = [q EXCEPT ![r] = x]
  PROVE  /\ q' \in [Request -> RequestState] /\ q'[r] = x
         /\ \A s \in Request : s /= r => q'[s] = q[s]
         /\ \A s \in Request : RequestOK(q[s])'
<1>1. q' \in [Request -> RequestState] /\ q'[r] = x
      /\ \A s \in Request : s /= r => q'[s] = q[s]
  BY TypedParts DEF RequestOK
<1> QED
  BY <1>1, TypedParts DEF RequestOK

LEMMA IdleOK == RequestOK(Idle)
BY DEF Idle, RequestOK, RequestState, AtApi, AtProvider, Ended, Origin

(* The record a step of request r leaves, whatever step it is.             *)
LEMMA NextRecord ==
  ASSUME SessionTyped, NEW r \in Request,
         \/ Submit(r) \/ ApiStep(r) \/ ServerError(r) \/ Grant(r) \/ Deny(r)
         \/ ClientStep(r) \/ NetworkError(r)
  PROVE  \E x : /\ RequestOK(x) /\ q' = [q EXCEPT ![r] = x]
                /\ x.open => page \in {"app", "leaving", "signingIn"}
<1> USE DEF RequestOK, RequestState, AtApi, AtProvider, Ended, Origin
<1>0. RequestOK(q[r]) /\ q \in [Request -> RequestState] /\ server \in Server
      /\ held \in Origin /\ server /= NoServer
      /\ (q[r].open => page \in {"app", "leaving", "signingIn"})
      /\ (fresh => held /= NoServer)
  BY TypedParts, NoServerAssumption
<1>a. ASSUME NEW pc, q' = [q EXCEPT ![r].pc = pc]
      PROVE  q' = [q EXCEPT ![r] = [q[r] EXCEPT !.pc = pc]]
  BY <1>0, <1>a
<1>b. ASSUME NEW pc \in {"done", "error"}, q[r].pc /= "idle"
      PROVE  RequestOK(Over(r, pc)) /\ ~Over(r, pc).open
  BY <1>0, <1>b, IdleOK DEF Over, Idle
<1>1. CASE Submit(r)
  <2> DEFINE x == [pc |-> "sent", open |-> TRUE, first |-> server, at |-> server,
                   token |-> IF fresh THEN held ELSE NoServer, retried |-> FALSE]
  <2>1. RequestOK(x)
    BY <1>0
  <2> QED
    BY <1>1, <2>1 DEF Submit
<1>2. CASE ApiStep(r) \/ ServerError(r) \/ Grant(r) \/ Deny(r)
  <2>1. PICK pc \in {"admitted", "refused", "stored", "answered", "failed", "granted", "denied"} :
          /\ q' = [q EXCEPT ![r].pc = pc] /\ q[r].pc /= "idle"
          /\ pc \in AtProvider => q[r].pc = "refresh"
          /\ pc = "granted" => q[r].token = q[r].at
    BY <1>2 DEF ApiStep, Admit, Refuse, CreateMemory, RecordCreated, List, ServerError,
                Grant, Deny, Goto, At, Waiting
  <2>2. RequestOK([q[r] EXCEPT !.pc = pc])
    BY <1>0, <2>1
  <2> QED
    BY <1>0, <1>a, <2>1, <2>2
<1>3. CASE Succeed(r) \/ Fail(r) \/ Denied(r)
  BY <1>b, <1>3 DEF Succeed, Fail, Denied, Waiting
<1>4. CASE RefreshOrFail(r)
  <2>1. CASE q[r].retried \/ held = NoServer
    BY <1>b, <1>4, <2>1 DEF RefreshOrFail, Waiting
  <2>2. CASE ~(q[r].retried \/ held = NoServer)
    <3> DEFINE x == [q[r] EXCEPT !.pc = "refresh", !.at = server, !.token = held]
    <3>1. RequestOK(x) /\ x.open = q[r].open
      BY <1>0, <1>4, <2>2 DEF RefreshOrFail, Waiting
    <3>2. q' = [q EXCEPT ![r] = x]
      BY <1>4, <2>2 DEF RefreshOrFail
    <3> QED
      BY <1>0, <3>1, <3>2
  <2> QED
    BY <2>1, <2>2
<1>5. CASE Granted(r)
  <2> DEFINE x == [q[r] EXCEPT !.pc = "sent", !.at = server, !.retried = TRUE]
  <2>1. RequestOK(x) /\ x.open = q[r].open
    BY <1>0, <1>5 DEF Granted, Waiting
  <2>2. q' = [q EXCEPT ![r] = x]
    BY <1>0, <1>5 DEF Granted
  <2> QED
    BY <1>0, <2>1, <2>2
<1>6. CASE NetworkError(r)
  <2>1. RequestOK([q[r] EXCEPT !.open = FALSE]) /\ ~[q[r] EXCEPT !.open = FALSE].open
    BY <1>0
  <2> QED
    BY <1>0, <1>6, <2>1, IdleOK DEF NetworkError, Idle
<1> QED
  BY <1>1, <1>2, <1>3, <1>4, <1>5, <1>6 DEF ClientStep

(* What the steps of one request leave alone of the page, and what the     *)
(* steps of the page make of the requests.                                 *)
RequestStep(r) ==
  \/ Submit(r) \/ ApiStep(r) \/ ServerError(r) \/ Grant(r) \/ Deny(r)
  \/ ClientStep(r) \/ NetworkError(r)
PageStep ==
  \/ \E s \in Server : ChangeServer(s)
  \/ Login \/ Return \/ Revisit \/ Render \/ CompleteLogin \/ LoginFails \/ Reopen
  \/ Reload \/ Logout \/ Unload \/ Expire

LEMMA NextCases ==
  [SessionNext]_sessionVars =>
    \/ \E r \in Request : RequestStep(r)
    \/ PageStep
    \/ UNCHANGED sessionVars
BY DEF SessionNext, RequestStep, PageStep

LEMMA RequestStepFrame ==
  ASSUME SessionTyped, NEW r \in Request, RequestStep(r)
  PROVE  /\ UNCHANGED pageVars
         /\ held' \in Origin /\ fresh' \in BOOLEAN /\ (fresh' => held' /= NoServer)
         /\ made' \subseteq Writes \X Server \X BOOLEAN /\ logged' \subseteq Writes
<1>0. RequestOK(q[r]) /\ q[r] \in RequestState /\ held \in Origin /\ fresh \in BOOLEAN
      /\ (fresh => held /= NoServer)
      /\ made \subseteq Writes \X Server \X BOOLEAN /\ logged \subseteq Writes
  BY TypedParts DEF RequestOK
<1>1. CASE Granted(r)
  BY <1>0, <1>1 DEF Granted, Waiting, rows, RequestOK, RequestState, AtProvider, Origin
<1>2. CASE CreateMemory(r)
  <2>1. <<r, q[r].at, q[r].retried>> \in Writes \X Server \X BOOLEAN
    BY <1>0, <1>2 DEF CreateMemory, At, RequestOK, RequestState, Origin
  <2> QED
    BY <1>0, <1>2, <2>1 DEF CreateMemory, storage
<1>3. CASE RecordCreated(r)
  BY <1>0, <1>3 DEF RecordCreated, storage
<1>4. CASE Denied(r)
  BY <1>0, <1>4 DEF Denied, rows, Origin
<1>5. CASE Submit(r) \/ Admit(r) \/ Refuse(r) \/ List(r) \/ ServerError(r) \/ Grant(r) \/ Deny(r)
           \/ Succeed(r) \/ Fail(r) \/ RefreshOrFail(r) \/ NetworkError(r)
  <2>1. UNCHANGED <<pageVars, storage, rows>>
    BY <1>5 DEF Submit, Admit, Refuse, List, ServerError, Grant, Deny, Succeed, Fail,
                RefreshOrFail, NetworkError
  <2> QED
    BY <1>0, <2>1 DEF storage, rows
<1> QED
  <2>1. Granted(r) \/ CreateMemory(r) \/ RecordCreated(r) \/ Denied(r) => UNCHANGED pageVars
    BY DEF Granted, CreateMemory, RecordCreated, Denied
  <2>2. <1>5!1 => UNCHANGED pageVars
    BY DEF Submit, Admit, Refuse, List, ServerError, Grant, Deny, Succeed, Fail,
           RefreshOrFail, NetworkError
  <2> QED
    BY <1>1, <1>2, <1>3, <1>4, <1>5, <2>1, <2>2 DEF RequestStep, ApiStep, ClientStep

LEMMA AbandonedOK ==
  ASSUME SessionTyped
  PROVE  /\ Abandoned \in [Request -> RequestState]
         /\ \A r \in Request : RequestOK(Abandoned[r]) /\ ~Abandoned[r].open
<1>1. ASSUME NEW r \in Request
      PROVE  /\ RequestOK(IF r \in Polls THEN Idle ELSE [q[r] EXCEPT !.open = FALSE])
             /\ ~(IF r \in Polls THEN Idle ELSE [q[r] EXCEPT !.open = FALSE]).open
  <2>1. RequestOK(q[r])
    BY TypedParts
  <2> QED
    BY <2>1, IdleOK DEF Idle, RequestOK, RequestState
<1> QED
  BY <1>1 DEF Abandoned, RequestOK

LEMMA PageStepTyped ==
  ASSUME SessionTyped, PageStep
  PROVE  SessionTyped'
<1>0. /\ server \in Server /\ held \in Origin /\ fresh \in BOOLEAN /\ (fresh => held /= NoServer)
      /\ page \in {"loading", "app", "leaving", "signingIn", "provider", "blank"}
      /\ url \in {"plain", "code", "stale"} /\ pending \in BOOLEAN
      /\ \A r \in Request : q[r].open => page \in {"app", "leaving", "signingIn"}
  BY TypedParts
<1>1. UNCHANGED rows
  BY DEF PageStep, ChangeServer, Login, Return, Revisit, Render, CompleteLogin, LoginFails,
         Reopen, Reload, Logout, Unload, Expire
<1>2. /\ server' \in Server /\ held' \in Origin /\ fresh' \in BOOLEAN /\ (fresh' => held' /= NoServer)
  <2>1. CASE UNCHANGED <<server, held, fresh>>
    BY <1>0, <2>1
  <2>2. CASE \E s \in Server : ChangeServer(s)
    BY <1>0, <2>2 DEF ChangeServer, Origin
  <2>3. CASE CompleteLogin \/ Logout \/ Expire
    BY <1>0, <2>3, NoServerAssumption DEF CompleteLogin, Logout, Expire, pageVars, Origin
  <2> QED
    BY <2>1, <2>2, <2>3 DEF PageStep, Login, Return, Revisit, Render, LoginFails, Reopen,
       Reload, Unload, storage
<1>3. /\ page' \in {"loading", "app", "leaving", "signingIn", "provider", "blank"}
      /\ url' \in {"plain", "code", "stale"} /\ pending' \in BOOLEAN
  BY <1>0 DEF PageStep, ChangeServer, Login, Return, Revisit, Render, CompleteLogin, LoginFails,
              Reopen, Reload, Logout, Unload, Expire, pageVars
<1>4. \/ q' = Abandoned
      \/ q' = q /\ (page \in {"app", "leaving", "signingIn"} => page' \in {"app", "leaving", "signingIn"})
  BY DEF PageStep, ChangeServer, Login, Return, Revisit, Render, CompleteLogin, LoginFails,
         Reopen, Reload, Logout, Unload, Expire, pageVars
<1>5. /\ q' \in [Request -> RequestState] /\ \A r \in Request : RequestOK(q[r])'
      /\ \A r \in Request : q'[r].open => page' \in {"app", "leaving", "signingIn"}
  BY <1>0, <1>4, AbandonedOK, TypedParts DEF RequestOK
<1> QED
  BY <1>1, <1>2, <1>3, <1>5, TypedParts DEF SessionTyped, RequestOK, rows

LEMMA RequestStepTyped ==
  ASSUME SessionTyped, NEW r \in Request, RequestStep(r)
  PROVE  SessionTyped'
<1>1. PICK x : /\ RequestOK(x) /\ q' = [q EXCEPT ![r] = x]
               /\ x.open => page \in {"app", "leaving", "signingIn"}
  BY NextRecord DEF RequestStep
<1>2. /\ q' \in [Request -> RequestState] /\ q'[r] = x
      /\ \A s \in Request : s /= r => q'[s] = q[s]
      /\ \A s \in Request : RequestOK(q[s])'
  BY <1>1, OneRequest
<1>3. \A s \in Request : q'[s].open => page' \in {"app", "leaving", "signingIn"}
  BY <1>1, <1>2, RequestStepFrame, TypedParts DEF pageVars
<1> QED
  BY <1>2, <1>3, RequestStepFrame, TypedParts DEF SessionTyped, RequestOK, pageVars

LEMMA SessionTypedStep ==
  ASSUME SessionTyped, [SessionNext]_sessionVars
  PROVE  SessionTyped'
<1>1. CASE UNCHANGED sessionVars
  BY <1>1 DEF sessionVars, SessionTyped
<1> QED
  BY <1>1, NextCases, PageStepTyped, RequestStepTyped

LEMMA SessionTypedInit ==
  ASSUME SessionInit
  PROVE  SessionTyped
<1>1. Idle \in RequestState /\ Idle.pc = "idle" /\ ~Idle.open
  BY DEF Idle, RequestState, AtApi, AtProvider, Ended, Origin
<1> QED
  BY <1>1 DEF SessionInit, SessionTyped, Origin, AtProvider

(* The stored tokens, the page and every request stay well-formed: no      *)
(* request asks a provider for a refresh without a token, none is granted  *)
(* but for the provider's own, and no poll outlives its page.              *)
THEOREM SessionIsTyped == SessionSpec => []SessionTyped
BY SessionTypedInit, SessionTypedStep, PTL DEF SessionSpec

-----------------------------------------------------------------------------
(* The inductive invariant. A creation whose page is open was made for the *)
(* saved server; while the page is left for another server, neither the    *)
(* stored tokens nor those on their way from a provider belong to the new  *)
(* one, so no refresh can be granted there.                                *)
AtOldServer == page = "leaving"
Refreshing(r) == q[r].open /\ q[r].pc \in AtProvider
Home == \A r \in Writes : q[r].open =>
  /\ ~AtOldServer => q[r].first = server
  /\ AtOldServer /\ q[r].first /= server =>
       /\ held \in {NoServer, q[r].first}
       /\ \A s \in Request : Refreshing(s) /\ q[s].token = q[s].at => q[s].token = q[r].first
  /\ q[r].pc \in AtProvider /\ q[r].token = q[r].at => q[r].token = q[r].first
Issuer == \A r \in Request : Refreshing(r) /\ ~AtOldServer => q[r].at = server

(* The second try carries a token of the first one's server, which no      *)
(* other one takes.                                                        *)
Attempt == \A r \in Writes : q[r].pc \in AtApi =>
  /\ ~q[r].retried => q[r].at = q[r].first
  /\ q[r].retried => q[r].token = q[r].first
  /\ q[r].pc /= "sent" => q[r].token = q[r].at

(* A request whose row exists is never sent again.                         *)
Stored == {"stored", "answered", "failed", "done", "error"}
Rows == \A e \in made :
  q[e[1]].pc \in Stored /\ e = <<e[1], q[e[1]].first, q[e[1]].retried>>
Recorded == \A w \in Writes :
  /\ q[w].pc \in {"stored", "answered", "done"} => \E e \in made : e[1] = w
  /\ q[w].pc \in {"answered", "done"} => w \in logged

SessionInv == SessionTyped /\ Home /\ Issuer /\ Attempt /\ Rows /\ Recorded

(* The facts about one request that the steps below start from.            *)
LEMMA Known ==
  ASSUME SessionInv, NEW r \in Request
  PROVE  /\ RequestOK(q[r]) /\ q \in [Request -> RequestState] /\ server \in Server
         /\ held \in Origin /\ server /= NoServer /\ Writes \subseteq Request
         /\ page = "app" => ~AtOldServer
BY TypedParts, NoServerAssumption DEF SessionInv, Request, AtOldServer

(* A step that does not bring a request to a provider, or a token to the   *)
(* storage, keeps creations and tokens at their servers.                   *)
LEMMA NarrowerKeepsHome ==
  ASSUME SessionInv, NEW r \in Request, NEW x, q' = [q EXCEPT ![r] = x],
         UNCHANGED <<server, page>>, held' \in {held, NoServer},
         x.open => q[r].open /\ x.first = q[r].first,
         x.open /\ x.pc \in AtProvider =>
           q[r].pc \in AtProvider /\ x.at = q[r].at /\ x.token = q[r].token
  PROVE  Home' /\ Issuer'
<1>1. q \in [Request -> RequestState] /\ Writes \subseteq Request
  BY Known
<1>2. q'[r] = x /\ \A s \in Request : s /= r => q'[s] = q[s]
  BY <1>1
<1>3. \A s \in Request : Refreshing(s)' =>
        Refreshing(s) /\ q'[s].at = q[s].at /\ q'[s].token = q[s].token
  BY <1>2 DEF Refreshing
<1>4. \A s \in Request : q'[s].open => q[s].open /\ q'[s].first = q[s].first
  BY <1>2
<1>5. (AtOldServer)' = AtOldServer
  BY DEF AtOldServer
<1>6. Home'
  <2> SUFFICES ASSUME NEW w \in Writes, q'[w].open
               PROVE  /\ ~AtOldServer => q'[w].first = server
                      /\ AtOldServer /\ q'[w].first /= server =>
                           /\ held' \in {NoServer, q'[w].first}
                           /\ \A s \in Request : Refreshing(s)' /\ q'[s].token = q'[s].at
                                                 => q'[s].token = q'[w].first
                      /\ q'[w].pc \in AtProvider /\ q'[w].token = q'[w].at
                           => q'[w].token = q'[w].first
    BY <1>5 DEF Home
  <2>1. q[w].open /\ q'[w].first = q[w].first
    BY <1>1, <1>4
  <2>2. q'[w].pc \in AtProvider => Refreshing(w)'
    BY DEF Refreshing
  <2> QED
    BY <1>1, <1>3, <2>1, <2>2 DEF SessionInv, Home, Refreshing
<1>7. Issuer'
  BY <1>3, <1>5 DEF SessionInv, Issuer
<1> QED
  BY <1>6, <1>7

LEMMA RequestKeepsHome ==
  ASSUME SessionInv, NEW r \in Request, RequestStep(r)
  PROVE  Home' /\ Issuer'
<1>0. RequestOK(q[r]) /\ q \in [Request -> RequestState] /\ server \in Server
      /\ held \in Origin /\ server /= NoServer /\ Writes \subseteq Request
      /\ (page = "app" => ~AtOldServer)
  BY Known
<1>1. UNCHANGED pageVars
  BY RequestStepFrame DEF SessionInv
<1>p. UNCHANGED <<server, page>> /\ AtOldServer' = AtOldServer
  BY <1>1 DEF pageVars, AtOldServer
<1>2. CASE Submit(r)
  <2>1. /\ q'[r].open /\ q'[r].pc = "sent" /\ q'[r].first = server
        /\ \A s \in Request : s /= r => q'[s] = q[s]
        /\ UNCHANGED held /\ (r \in Writes => page = "app")
    BY <1>0, <1>2, RequestAssumption DEF Submit, storage
  <2>2. Issuer'
    BY <1>p, <2>1 DEF SessionInv, Issuer, Refreshing, AtProvider
  <2>3. \A s \in Request : Refreshing(s)' => s /= r /\ Refreshing(s) /\ q'[s] = q[s]
    BY <2>1 DEF Refreshing, AtProvider
  <2>4. ASSUME NEW w \in Writes, w /= r, q'[w].open
        PROVE  /\ ~AtOldServer => q'[w].first = server
               /\ AtOldServer /\ q'[w].first /= server =>
                    /\ held' \in {NoServer, q'[w].first}
                    /\ \A s \in Request : Refreshing(s)' /\ q'[s].token = q'[s].at
                                          => q'[s].token = q'[w].first
               /\ q'[w].pc \in AtProvider /\ q'[w].token = q'[w].at
                    => q'[w].token = q'[w].first
    BY <1>0, <2>1, <2>3, <2>4 DEF SessionInv, Home
  <2>5. Home'
    BY <1>0, <1>p, <2>1, <2>4 DEF Home, AtProvider
  <2> QED
    BY <2>2, <2>5
<1>3. CASE RefreshOrFail(r) /\ ~(q[r].retried \/ held = NoServer)
  <2>1. /\ q[r].open /\ q'[r].open /\ q'[r].pc = "refresh" /\ q'[r].first = q[r].first
        /\ q'[r].at = server /\ q'[r].token = held /\ held /= NoServer
        /\ \A s \in Request : s /= r => q'[s] = q[s]
        /\ UNCHANGED held
    BY <1>0, <1>3 DEF RefreshOrFail, Waiting, storage, RequestOK, RequestState
  <2>2. Issuer'
    BY <1>p, <2>1 DEF SessionInv, Issuer, Refreshing
  <2>3. Home'
    <3> SUFFICES ASSUME NEW w \in Writes, q'[w].open
                 PROVE  /\ ~AtOldServer => q'[w].first = server
                        /\ AtOldServer /\ q'[w].first /= server =>
                             /\ held' \in {NoServer, q'[w].first}
                             /\ \A s \in Request : Refreshing(s)' /\ q'[s].token = q'[s].at
                                                   => q'[s].token = q'[w].first
                        /\ q'[w].pc \in AtProvider /\ q'[w].token = q'[w].at
                             => q'[w].token = q'[w].first
      BY <1>p DEF Home
    <3>1. q[w].open /\ q'[w].first = q[w].first
      BY <1>0, <2>1
    <3>2. ~AtOldServer => q'[w].first = server
      BY <3>1 DEF SessionInv, Home
    <3>3. AtOldServer /\ q'[w].first /= server =>
            /\ held' \in {NoServer, q'[w].first}
            /\ \A s \in Request : Refreshing(s)' /\ q'[s].token = q'[s].at
                                  => q'[s].token = q'[w].first
      BY <2>1, <3>1 DEF SessionInv, Home, Refreshing
    <3>4. q'[w].pc \in AtProvider /\ q'[w].token = q'[w].at => q'[w].token = q'[w].first
      <4>1. CASE w = r
        BY <2>1, <3>1, <3>2, <3>3, <4>1
      <4>2. CASE w /= r
        BY <1>0, <2>1, <3>1, <4>2 DEF SessionInv, Home
      <4> QED
        BY <4>1, <4>2
    <3> QED
      BY <3>2, <3>3, <3>4
  <2> QED
    BY <2>2, <2>3
<1>4. CASE Granted(r)
  <2>1. /\ q[r].open /\ q'[r].pc = "sent" /\ q'[r].first = q[r].first
        /\ \A s \in Request : s /= r => q'[s] = q[s]
        /\ Refreshing(r) /\ q[r].token = q[r].at /\ held' = q[r].token
    BY <1>0, <1>4 DEF Granted, Waiting, Refreshing, AtProvider, RequestOK, RequestState
  <2>2. \A s \in Request : Refreshing(s)' => s /= r /\ Refreshing(s) /\ q'[s] = q[s]
    BY <2>1 DEF Refreshing, AtProvider
  <2>3. Issuer'
    BY <1>p, <2>2 DEF SessionInv, Issuer
  <2>4. Home'
    <3> SUFFICES ASSUME NEW w \in Writes, q'[w].open
                 PROVE  /\ ~AtOldServer => q'[w].first = server
                        /\ AtOldServer /\ q'[w].first /= server =>
                             /\ held' \in {NoServer, q'[w].first}
                             /\ \A s \in Request : Refreshing(s)' /\ q'[s].token = q'[s].at
                                                   => q'[s].token = q'[w].first
                        /\ q'[w].pc \in AtProvider /\ q'[w].token = q'[w].at
                             => q'[w].token = q'[w].first
      BY <1>p DEF Home
    <3>1. q[w].open /\ q'[w].first = q[w].first
      BY <1>0, <2>1
    <3>2. q'[w].pc \in AtProvider => w /= r /\ q'[w] = q[w]
      BY <1>0, <2>1 DEF AtProvider
    <3> QED
      BY <2>1, <2>2, <3>1, <3>2 DEF SessionInv, Home
  <2> QED
    BY <2>3, <2>4
<1>5. CASE \/ ApiStep(r) \/ ServerError(r) \/ Grant(r) \/ Deny(r)
  <2>1. PICK pc \in AtApi \union AtProvider \union {"refused", "answered", "failed"} :
          /\ q' = [q EXCEPT ![r].pc = pc] /\ held' = held
          /\ pc \in AtProvider => q[r].pc \in AtProvider
    BY <1>5 DEF ApiStep, Admit, Refuse, CreateMemory, RecordCreated, List, ServerError,
                Grant, Deny, Goto, At, Waiting, AtProvider, AtApi, storage
  <2>2. /\ q' = [q EXCEPT ![r] = [q[r] EXCEPT !.pc = pc]]
        /\ [q[r] EXCEPT !.pc = pc].open = q[r].open
        /\ [q[r] EXCEPT !.pc = pc].first = q[r].first
        /\ [q[r] EXCEPT !.pc = pc].at = q[r].at
        /\ [q[r] EXCEPT !.pc = pc].token = q[r].token
        /\ [q[r] EXCEPT !.pc = pc].pc = pc
    BY <1>0, <2>1 DEF RequestOK, RequestState
  <2> QED
    BY <1>p, <2>1, <2>2, NarrowerKeepsHome
<1>6. CASE \/ Succeed(r) \/ Fail(r) \/ Denied(r) \/ NetworkError(r)
           \/ (RefreshOrFail(r) /\ (q[r].retried \/ held = NoServer))
  <2>1. PICK x \in {Idle, [q[r] EXCEPT !.open = FALSE], Over(r, "done"), Over(r, "error")} :
          q' = [q EXCEPT ![r] = x] /\ held' \in {held, NoServer}
    BY <1>6 DEF Succeed, Fail, Denied, NetworkError, RefreshOrFail, storage
  <2>2. ~x.open
    <3>1. /\ ~Idle.open /\ ~[q[r] EXCEPT !.open = FALSE].open
          /\ ~[q[r] EXCEPT !.pc = "done", !.open = FALSE].open
          /\ ~[q[r] EXCEPT !.pc = "error", !.open = FALSE].open
      BY <1>0 DEF Idle, RequestOK, RequestState
    <3>2. ~Over(r, "done").open /\ ~Over(r, "error").open
      BY <3>1 DEF Over
    <3> QED
      BY <3>1, <3>2, <2>1
  <2> QED
    BY <1>p, <2>1, <2>2, NarrowerKeepsHome
<1> QED
  BY <1>2, <1>3, <1>4, <1>5, <1>6 DEF RequestStep, ClientStep

LEMMA PageKeepsHome ==
  ASSUME SessionInv, PageStep
  PROVE  Home' /\ Issuer'
<1>0. Writes \subseteq Request /\ held \in Origin /\ server /= NoServer
      /\ (page = "app" => ~AtOldServer)
      /\ \A r \in Request : q[r].open => page \in {"app", "leaving", "signingIn"}
  BY NoServerAssumption, TypedParts DEF SessionInv, Request, AtOldServer
<1>1. CASE q' = Abandoned
  <2>1. \A r \in Request : ~q'[r].open
    BY <1>1, AbandonedOK DEF SessionInv
  <2> QED
    BY <1>0, <2>1 DEF Home, Issuer, Refreshing
<1>2. CASE UNCHANGED <<server, held, q>> /\ AtOldServer' = AtOldServer
  BY <1>2 DEF SessionInv, Home, Issuer, Refreshing
<1>3. CASE Render \/ CompleteLogin \/ LoginFails \/ Reopen \/ Return
  <2>1. \A r \in Request : ~q'[r].open
    BY <1>0, <1>3 DEF Render, CompleteLogin, LoginFails, Reopen, Return
  <2> QED
    BY <1>0, <2>1 DEF Home, Issuer, Refreshing
<1>4. CASE Logout
  <2>1. AtOldServer' /\ ~AtOldServer /\ UNCHANGED <<server, q>> /\ held' = NoServer
    BY <1>0, <1>4 DEF Logout, AtOldServer
  <2>2. \A w \in Writes : q[w].open => q[w].first = server
    BY <2>1 DEF SessionInv, Home
  <2> QED
    BY <1>0, <2>1, <2>2 DEF SessionInv, Home, Issuer, Refreshing
<1>5. CASE \E s \in Server : ChangeServer(s)
  <2>1. AtOldServer' /\ ~AtOldServer /\ UNCHANGED q
        /\ held' = IF server' = server THEN held ELSE NoServer
    BY <1>0, <1>5 DEF ChangeServer, AtOldServer
  <2>2. \A w \in Writes : q[w].open => q[w].first = server
    BY <2>1 DEF SessionInv, Home
  <2>3. \A s \in Request : Refreshing(s) => q[s].at = server
    BY <2>1 DEF SessionInv, Issuer
  <2>4. \A w \in Writes : q[w].open =>
          (q[w].pc \in AtProvider /\ q[w].token = q[w].at => q[w].token = q[w].first)
    BY DEF SessionInv, Home
  <2>5. \A s \in Request : Refreshing(s)' <=> Refreshing(s)
    BY <2>1 DEF Refreshing
  <2>6. Issuer'
    BY <2>1 DEF Issuer
  <2>7. Home'
    BY <1>0, <2>1, <2>2, <2>3, <2>4, <2>5 DEF Home
  <2> QED
    BY <2>6, <2>7
<1>6. CASE Login
  <2>1. UNCHANGED <<server, held, q>> /\ AtOldServer' = AtOldServer
    BY <1>0, <1>6 DEF Login, storage, AtOldServer
  <2> QED
    BY <1>2, <2>1
<1>7. CASE Expire
  <2>1. UNCHANGED <<server, held, q>> /\ AtOldServer' = AtOldServer
    BY <1>7 DEF Expire, pageVars, AtOldServer
  <2> QED
    BY <1>2, <2>1
<1> QED
  BY <1>1, <1>3, <1>4, <1>5, <1>6, <1>7 DEF PageStep, Revisit, Reload, Unload

LEMMA RequestKeepsAttempt ==
  ASSUME SessionInv, NEW r \in Request, RequestStep(r)
  PROVE  Attempt'
<1>0. RequestOK(q[r]) /\ q \in [Request -> RequestState] /\ Writes \subseteq Request
  BY Known
<1>1. \A s \in Request : s /= r => q'[s] = q[s]
  <2>1. PICK x : q' = [q EXCEPT ![r] = x]
    BY NextRecord DEF SessionInv, RequestStep
  <2> QED
    BY <1>0, <2>1
<1>2. ASSUME r \in Writes, q'[r].pc \in AtApi
      PROVE  /\ ~q'[r].retried => q'[r].at = q'[r].first
             /\ q'[r].retried => q'[r].token = q'[r].first
             /\ q'[r].pc /= "sent" => q'[r].token = q'[r].at
  <2> USE DEF AtApi
  <2>1. CASE Submit(r)
    BY <1>0, <2>1 DEF Submit
  <2>2. CASE Admit(r) \/ CreateMemory(r)
    BY <1>0, <1>2, <2>2 DEF Admit, CreateMemory, At, Goto, RequestOK, RequestState, SessionInv, Attempt
  <2>3. CASE Granted(r)
    <3>1. q[r].pc = "granted" /\ q[r].open /\ q[r].token = q[r].at
      BY <1>0, <2>3 DEF Granted, Waiting, RequestOK
    <3>2. q[r].token = q[r].first
      BY <1>2, <3>1 DEF SessionInv, Home, AtProvider
    <3> QED
      BY <1>0, <2>3, <3>1, <3>2 DEF Granted, RequestOK, RequestState
  <2>4. CASE NetworkError(r)
    <3>1. q' = [q EXCEPT ![r] = [q[r] EXCEPT !.open = FALSE]]
      BY <1>2, <2>4, RequestAssumption DEF NetworkError
    <3>2. /\ q'[r].pc = q[r].pc /\ q'[r].at = q[r].at /\ q'[r].first = q[r].first
          /\ q'[r].token = q[r].token /\ q'[r].retried = q[r].retried
      BY <1>0, <3>1 DEF RequestOK, RequestState
    <3> QED
      BY <1>2, <3>2 DEF SessionInv, Attempt
  <2>5. CASE Refuse(r) \/ RecordCreated(r) \/ List(r) \/ ServerError(r) \/ Grant(r) \/ Deny(r)
    <3>1. PICK pc \in {"refused", "answered", "failed", "granted", "denied"} :
            q' = [q EXCEPT ![r].pc = pc]
      BY <2>5 DEF Refuse, RecordCreated, List, ServerError, Grant, Deny, Goto
    <3>2. q'[r].pc = pc
      BY <1>0, <3>1 DEF RequestOK, RequestState
    <3> QED
      BY <1>2, <3>1, <3>2
  <2>6. CASE Succeed(r) \/ Fail(r) \/ Denied(r) \/ RefreshOrFail(r)
    <3>1. r \notin Polls
      BY <1>2, RequestAssumption
    <3>2. \/ q' = [q EXCEPT ![r] = [q[r] EXCEPT !.pc = "done", !.open = FALSE]]
          \/ q' = [q EXCEPT ![r] = [q[r] EXCEPT !.pc = "error", !.open = FALSE]]
          \/ q' = [q EXCEPT ![r] = [q[r] EXCEPT !.pc = "refresh", !.at = server, !.token = held]]
      BY <2>6, <3>1 DEF Succeed, Fail, Denied, RefreshOrFail, Over
    <3>3. q'[r].pc \in {"done", "error", "refresh"}
      BY <1>0, <3>2 DEF RequestOK, RequestState
    <3> QED
      BY <1>2, <3>3
  <2> QED
    BY <2>1, <2>2, <2>3, <2>4, <2>5, <2>6 DEF RequestStep, ApiStep, ClientStep
<1> QED
  BY <1>0, <1>1, <1>2 DEF SessionInv, Attempt

(* What a step of the page leaves of the requests.                         *)
LEMMA PageKeepsRequests ==
  ASSUME SessionInv, PageStep
  PROVE  /\ UNCHANGED rows
         /\ \A w \in Writes : /\ q'[w].pc = q[w].pc /\ q'[w].at = q[w].at
                              /\ q'[w].first = q[w].first /\ q'[w].token = q[w].token
                              /\ q'[w].retried = q[w].retried
<1>1. q \in [Request -> RequestState] /\ Writes \subseteq Request
  BY TypedParts DEF SessionInv, Request
<1>2. UNCHANGED rows /\ (q' = q \/ q' = Abandoned)
  BY DEF PageStep, ChangeServer, Login, Return, Revisit, Render, CompleteLogin, LoginFails,
         Reopen, Reload, Logout, Unload, Expire, pageVars
<1>3. \A w \in Writes : Abandoned[w] = [q[w] EXCEPT !.open = FALSE]
  BY <1>1, RequestAssumption DEF Abandoned
<1>4. ASSUME NEW w \in Writes, NEW f, f = q \/ f = Abandoned
      PROVE  /\ f[w].pc = q[w].pc /\ f[w].at = q[w].at /\ f[w].first = q[w].first
             /\ f[w].token = q[w].token /\ f[w].retried = q[w].retried
  <2>1. q[w] \in RequestState
    BY <1>1
  <2>2. f[w] = q[w] \/ f[w] = [q[w] EXCEPT !.open = FALSE]
    BY <1>3, <1>4
  <2>3. CASE f[w] = [q[w] EXCEPT !.open = FALSE]
    BY <2>1, <2>3 DEF RequestState
  <2> QED
    BY <2>2, <2>3
<1> QED
  BY <1>2, <1>4

LEMMA PageKeepsRows ==
  ASSUME SessionInv, PageStep
  PROVE  Attempt' /\ Rows' /\ Recorded'
<1>1. made \subseteq Writes \X Server \X BOOLEAN
  BY TypedParts DEF SessionInv
<1>2. Attempt' /\ Recorded'
  BY PageKeepsRequests DEF SessionInv, Attempt, Recorded, rows
<1>3. \A e \in made : e[1] \in Writes
  BY <1>1
<1>4. Rows'
  BY <1>3, PageKeepsRequests DEF SessionInv, Rows, rows
<1> QED
  BY <1>2, <1>4

LEMMA RequestKeepsRows ==
  ASSUME SessionInv, NEW r \in Request, RequestStep(r)
  PROVE  Rows' /\ Recorded'
<1> DEFINE past == {"stored", "answered", "done"}
<1>0. RequestOK(q[r]) /\ q \in [Request -> RequestState] /\ Writes \subseteq Request
      /\ q[r] \in RequestState
  BY Known DEF RequestOK
<1>1. /\ \A s \in Request : s /= r => q'[s] = q[s]
      /\ \A e \in made : e[1] \in Writes
  <2>1. PICK x : q' = [q EXCEPT ![r] = x]
    BY NextRecord DEF SessionInv, RequestStep
  <2>2. made \subseteq Writes \X Server \X BOOLEAN
    BY TypedParts DEF SessionInv
  <2> QED
    BY <1>0, <2>1, <2>2
<1>2. CASE CreateMemory(r)
  <2>1. /\ q[r].pc = "admitted" /\ q'[r].pc = "stored" /\ r \in Writes
        /\ q'[r].first = q[r].first /\ q'[r].retried = q[r].retried
        /\ made' = made \union {<<r, q[r].at, q[r].retried>>} /\ UNCHANGED logged
    BY <1>0, <1>2 DEF CreateMemory, At, Goto, RequestState
  <2>2. q[r].at = q[r].first
    BY <2>1 DEF SessionInv, Attempt, AtApi
  <2>3. \A e \in made : e[1] /= r
    BY <2>1 DEF SessionInv, Rows, Stored
  <2>4. Rows'
    <3>1. ASSUME NEW e \in made
          PROVE  q'[e[1]].pc \in Stored /\ e = <<e[1], q'[e[1]].first, q'[e[1]].retried>>
      BY <1>0, <1>1, <2>3 DEF SessionInv, Rows
    <3>2. /\ q'[r].pc \in Stored
          /\ <<r, q[r].at, q[r].retried>> = <<r, q'[r].first, q'[r].retried>>
      BY <2>1, <2>2 DEF Stored
    <3> QED
      BY <2>1, <3>1, <3>2 DEF Rows
  <2>5. Recorded'
    <3> SUFFICES ASSUME NEW w \in Writes
                 PROVE  /\ q'[w].pc \in past => \E e \in made' : e[1] = w
                        /\ q'[w].pc \in {"answered", "done"} => w \in logged'
      BY DEF Recorded
    <3>1. CASE w = r
      <4> DEFINE row == <<r, q[r].at, q[r].retried>>
      <4>1. row \in made' /\ row[1] = w
        BY <2>1, <3>1
      <4>2. q'[w].pc = "stored"
        BY <2>1, <3>1
      <4> HIDE DEF row
      <4> QED
        BY <4>1, <4>2
    <3>2. CASE w /= r
      BY <1>0, <1>1, <2>1, <3>2 DEF SessionInv, Recorded
    <3> QED
      BY <3>1, <3>2
  <2> QED
    BY <2>4, <2>5
<1>3. CASE RecordCreated(r)
  <2>1. /\ q[r].pc = "stored" /\ q'[r].pc = "answered" /\ r \in Writes
        /\ q'[r].first = q[r].first /\ q'[r].retried = q[r].retried
        /\ made' = made /\ logged' = logged \union {r}
    BY <1>0, <1>3 DEF RecordCreated, At, Goto, RequestState
  <2>2. Rows'
    BY <1>0, <1>1, <2>1 DEF SessionInv, Rows, Stored
  <2>3. Recorded'
    BY <1>0, <1>1, <2>1 DEF SessionInv, Recorded
  <2> QED
    BY <2>2, <2>3
<1>4. ASSUME UNCHANGED rows, r \in Writes => q[r].pc \notin Stored /\ q'[r].pc \notin past
      PROVE  Rows' /\ Recorded'
  <2>1. \A e \in made : e[1] /= r
    BY <1>1, <1>4 DEF SessionInv, Rows
  <2>2. Rows'
    BY <1>0, <1>1, <1>4, <2>1 DEF SessionInv, Rows, rows
  <2>3. Recorded'
    BY <1>0, <1>1, <1>4 DEF SessionInv, Recorded, rows
  <2> QED
    BY <2>2, <2>3
<1>5. ASSUME UNCHANGED rows, r \in Writes =>
               /\ q'[r].pc \in Stored \/ (q[r].pc \notin Stored /\ q'[r].pc = q[r].pc)
               /\ q'[r].first = q[r].first /\ q'[r].retried = q[r].retried
               /\ q'[r].pc \in past => q[r].pc \in past
               /\ q'[r].pc = "done" => q[r].pc \in {"answered", "done"}
               /\ q'[r].pc = "answered" => q[r].pc = "answered"
      PROVE  Rows' /\ Recorded'
  <2>1. Rows'
    BY <1>0, <1>1, <1>5 DEF SessionInv, Rows, rows
  <2>2. Recorded'
    BY <1>0, <1>1, <1>5 DEF SessionInv, Recorded, rows
  <2> QED
    BY <2>1, <2>2
<1>6. CASE Submit(r) \/ Granted(r)
  <2>1. UNCHANGED rows /\ q[r].pc \in {"idle", "granted"}
    BY <1>6 DEF Submit, Granted, Waiting, At
  <2>2. q'[r].pc = "sent"
    BY <1>0, <1>6 DEF Submit, Granted, RequestState
  <2>3. q[r].pc \notin Stored /\ q'[r].pc \notin past
    BY <2>1, <2>2 DEF Stored
  <2> QED
    BY <1>4, <2>1, <2>3
<1>7. CASE Admit(r) \/ Refuse(r) \/ Grant(r) \/ Deny(r)
  <2>1. PICK pc \in {"admitted", "refused", "granted", "denied"} : q' = [q EXCEPT ![r].pc = pc]
    BY <1>7 DEF Admit, Refuse, Grant, Deny, Goto
  <2>2. UNCHANGED rows /\ q[r].pc \notin Stored /\ q'[r].pc \notin past
    BY <1>0, <1>7, <2>1 DEF Admit, Refuse, Grant, Deny, At, Waiting, Stored, RequestState
  <2> QED
    BY <1>4, <2>2
<1>8. CASE List(r)
  <2>1. UNCHANGED rows /\ r \notin Writes
    BY <1>8, RequestAssumption DEF List
  <2> QED
    BY <1>4, <2>1
<1>9. CASE ServerError(r)
  <2>1. q'[r] = [q[r] EXCEPT !.pc = "failed"] /\ UNCHANGED rows
    BY <1>0, <1>9 DEF ServerError, Goto
  <2> QED
    BY <1>0, <1>5, <2>1 DEF Stored, RequestState
<1>10. CASE Succeed(r) \/ Fail(r) \/ NetworkError(r)
  <2>1. UNCHANGED rows
    BY <1>10 DEF Succeed, Fail, NetworkError
  <2>2. ASSUME r \in Writes
        PROVE  \/ q'[r] = [q[r] EXCEPT !.pc = "done", !.open = FALSE] /\ q[r].pc = "answered"
               \/ q'[r] = [q[r] EXCEPT !.pc = "error", !.open = FALSE] /\ q[r].pc = "failed"
               \/ q'[r] = [q[r] EXCEPT !.open = FALSE]
    BY <1>0, <1>10, <2>2, RequestAssumption DEF Succeed, Fail, NetworkError, Over, Waiting
  <2>3. r \in Writes =>
          /\ q'[r].pc \in Stored \/ (q[r].pc \notin Stored /\ q'[r].pc = q[r].pc)
          /\ q'[r].first = q[r].first /\ q'[r].retried = q[r].retried
          /\ q'[r].pc \in past => q[r].pc \in past
          /\ q'[r].pc = "done" => q[r].pc \in {"answered", "done"}
          /\ q'[r].pc = "answered" => q[r].pc = "answered"
    BY <1>0, <2>2 DEF Stored, RequestState
  <2> QED
    BY <1>5, <2>1, <2>3
<1>11. CASE RefreshOrFail(r) \/ Denied(r)
  <2>1. UNCHANGED rows /\ q[r].pc \in {"refused", "denied"}
    BY <1>11 DEF RefreshOrFail, Denied, Waiting
  <2>2. ASSUME r \in Writes
        PROVE  \/ q'[r] = [q[r] EXCEPT !.pc = "error", !.open = FALSE]
               \/ q'[r] = [q[r] EXCEPT !.pc = "refresh", !.at = server, !.token = held]
    BY <1>0, <1>11, <2>2, RequestAssumption DEF RefreshOrFail, Denied, Over
  <2>3. r \in Writes => q[r].pc \notin Stored /\ q'[r].pc \notin past
    BY <1>0, <2>1, <2>2 DEF Stored, RequestState
  <2> QED
    BY <1>4, <2>1, <2>3
<1> QED
  BY <1>2, <1>3, <1>6, <1>7, <1>8, <1>9, <1>10, <1>11 DEF RequestStep, ApiStep, ClientStep

LEMMA SessionInvStep ==
  ASSUME SessionInv, [SessionNext]_sessionVars
  PROVE  SessionInv'
<1>1. SessionTyped'
  BY SessionTypedStep DEF SessionInv
<1>2. CASE UNCHANGED sessionVars
  BY <1>1, <1>2 DEF sessionVars, SessionInv, Home, Issuer, Attempt, Rows, Recorded,
     Refreshing, AtOldServer
<1>3. CASE PageStep
  BY <1>1, <1>3, PageKeepsHome, PageKeepsRows DEF SessionInv
<1>4. CASE \E r \in Request : RequestStep(r)
  BY <1>1, <1>4, RequestKeepsHome, RequestKeepsAttempt, RequestKeepsRows DEF SessionInv
<1> QED
  BY <1>2, <1>3, <1>4, NextCases

LEMMA SessionInvInit ==
  ASSUME SessionInit
  PROVE  SessionInv
<1>1. \A r \in Request : q[r].pc = "idle" /\ ~q[r].open
  BY DEF SessionInit, Idle
<1>2. made = {} /\ Writes \subseteq Request
  BY DEF SessionInit, Request
<1> QED
  BY <1>1, <1>2, SessionTypedInit DEF SessionInv, Home, Issuer, Attempt, Rows, Recorded,
     Refreshing, AtApi, AtProvider

LEMMA SessionInvHolds == SessionSpec => []SessionInv
BY SessionInvInit, SessionInvStep, PTL DEF SessionSpec

(* A creation that is refused and sent again takes effect once at most,    *)
(* and only at the server it was made for, however the user changes        *)
(* servers, signs in and out and reloads meanwhile, and however many       *)
(* requests refresh the tokens at once.                                    *)
THEOREM CreatedOnceWhereSent == SessionSpec => []StoredOnceWhereSent
<1>1. SessionInv => StoredOnceWhereSent
  BY DEF SessionInv, Rows, StoredOnceWhereSent
<1> QED
  BY <1>1, SessionInvHolds, PTL

(* What the client reports as created is in the table and in the audit log. *)
THEOREM DoneMeansRecorded == SessionSpec => []DoneIsRecorded
<1>1. SessionInv => DoneIsRecorded
  BY DEF SessionInv, Recorded, DoneIsRecorded, At
<1> QED
  BY <1>1, SessionInvHolds, PTL
=============================================================================
