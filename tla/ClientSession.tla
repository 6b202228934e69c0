---------------------------- MODULE ClientSession ----------------------------
(***************************************************************************)
(* The session of a client application (apps/client/src): the tokens in    *)
(* its local storage, requests that refresh them in parallel when the API  *)
(* answers 401 and are sent once more, signing in and out by way of the    *)
(* identity provider, and the change to another server. The write is the   *)
(* creation of a memory, to the row and the record it leaves at the API.   *)
(* Access and refresh token are stored and removed together: one variable  *)
(* says whose they are.                                                    *)
(***************************************************************************)
CONSTANTS
  Server,         \* the servers the user has accounts on, each with its provider
  NoServer,
  Writes, Polls   \* creations of memories, each made once; the repeated reads

Request == Writes \union Polls
Origin == Server \union {NoServer}

ASSUME NoServerAssumption == NoServer \notin Server
ASSUME RequestAssumption == Writes \intersect Polls = {}

VARIABLES
  server,   \* the server connection saved in local storage
  held,     \* the server whose provider issued the stored tokens, or NoServer
  fresh,    \* whether the stored access token has not expired
  page,     \* what the window shows
  url,      \* its address: plain, with a new login's code, with an older one's
  pending,  \* whether session storage holds a login's state and verifier
  q,        \* each request: where it stands, last called server, token sent
  made,     \* memories rows: request, server, whether it was the second try
  logged    \* the writes with a memory.created record

sessionVars == <<server, held, fresh, page, url, pending, q, made, logged>>
pageVars == <<server, page, url, pending>>
storage == <<held, fresh>>
rows == <<made, logged>>

AtApi == {"sent", "admitted", "stored"}
AtProvider == {"refresh", "granted", "denied"}
Ended == {"idle", "done", "error"}
RequestState == [pc : AtApi \union AtProvider \union Ended \union {"refused", "answered", "failed"},
                 open : BOOLEAN,    \* the page that made it still waits for it
                 first : Origin,    \* history: the server it was first sent to
                 at : Origin, token : Origin, retried : BOOLEAN]
Idle == [pc |-> "idle", open |-> FALSE, first |-> NoServer,
         at |-> NoServer, token |-> NoServer, retried |-> FALSE]

SessionInit ==
  /\ server \in Server /\ held = NoServer /\ fresh = FALSE
  /\ page = "loading" /\ url = "plain" /\ pending = FALSE
  /\ q = [r \in Request |-> Idle] /\ made = {} /\ logged = {}

At(r, pc) == q[r].pc = pc
Waiting(r, pc) == q[r].pc = pc /\ q[r].open
Goto(r, pc) == q' = [q EXCEPT ![r].pc = pc]

-----------------------------------------------------------------------------
(* request(): the address and the access token are read when it is sent;   *)
(* an expired token is as good as none.                                    *)
Submit(r) ==
  /\ page = "app" \/ (r \in Polls /\ page \in {"leaving", "signingIn"})
  /\ At(r, "idle")
  /\ q' = [q EXCEPT ![r] = [pc |-> "sent", open |-> TRUE, first |-> server, at |-> server,
             token |-> IF fresh THEN held ELSE NoServer, retried |-> FALSE]]
  /\ UNCHANGED <<pageVars, storage, rows>>

(* A request is over for its page; the API may still be at work on it.     *)
Over(r, pc) == IF r \in Polls THEN Idle ELSE [q[r] EXCEPT !.pc = pc, !.open = FALSE]
Abandoned == [r \in Request |->
  IF r \in Polls THEN Idle ELSE [q[r] EXCEPT !.open = FALSE]]

(* AuthGuard: a server takes the tokens of its own provider, unless they   *)
(* have expired by then.                                                   *)
Admit(r) ==
  /\ At(r, "sent") /\ q[r].token = q[r].at /\ Goto(r, "admitted")
  /\ UNCHANGED <<pageVars, storage, rows>>
Refuse(r) ==
  /\ At(r, "sent") /\ Goto(r, "refused")
  /\ UNCHANGED <<pageVars, storage, rows>>

(* MemoryService.create inserts the row and records it; either may fail,   *)
(* and the answer is then a 500. A poll reads.                             *)
CreateMemory(r) ==
  /\ r \in Writes /\ At(r, "admitted") /\ Goto(r, "stored")
  /\ made' = made \union {<<r, q[r].at, q[r].retried>>}
  /\ UNCHANGED <<pageVars, storage, logged>>

RecordCreated_NotAwaited(r) ==
  /\ r \in Writes /\ At(r, "stored") /\ Goto(r, "answered")
  /\ logged' \in {logged, logged \union {r}}
  /\ UNCHANGED <<pageVars, storage, made>>

RecordCreated(r) ==
  /\ r \in Writes /\ At(r, "stored") /\ Goto(r, "answered")
  /\ logged' = logged \union {r}
  /\ UNCHANGED <<pageVars, storage, made>>

List(r) ==
  /\ r \in Polls /\ At(r, "admitted") /\ Goto(r, "answered")
  /\ UNCHANGED <<pageVars, storage, rows>>
ServerError(r) ==
  /\ q[r].pc \in {"admitted", "stored"} /\ Goto(r, "failed")
  /\ UNCHANGED <<pageVars, storage, rows>>

Succeed(r) ==
  /\ Waiting(r, "answered") /\ q' = [q EXCEPT ![r] = Over(r, "done")]
  /\ UNCHANGED <<pageVars, storage, rows>>

Fail_TriesAgain(r) ==
  /\ Waiting(r, "failed")
  /\ q' = [q EXCEPT ![r] =
       IF q[r].retried THEN Over(r, "error") ELSE [@ EXCEPT !.pc = "sent", !.retried = TRUE]]
  /\ UNCHANGED <<pageVars, storage, rows>>

Fail(r) ==
  /\ Waiting(r, "failed") /\ q' = [q EXCEPT ![r] = Over(r, "error")]
  /\ UNCHANGED <<pageVars, storage, rows>>

-----------------------------------------------------------------------------
(* A 401: refreshAccessToken(), once, with what is stored by now; if there *)
(* is no refresh token, an error.                                          *)
RefreshOrFail_Unchecked(r) ==
  /\ Waiting(r, "refused")
  /\ q' = [q EXCEPT ![r] =
       IF q[r].retried THEN Over(r, "error")
       ELSE [@ EXCEPT !.pc = "refresh", !.at = server, !.token = held]]
  /\ UNCHANGED <<pageVars, storage, rows>>

RefreshOrFail(r) ==
  /\ Waiting(r, "refused")
  /\ q' = [q EXCEPT ![r] =
       IF q[r].retried \/ held = NoServer THEN Over(r, "error")
       ELSE [@ EXCEPT !.pc = "refresh", !.at = server, !.token = held]]
  /\ UNCHANGED <<pageVars, storage, rows>>

(* The provider grants a refresh only for a token of its own, and may deny *)
(* it for any reason, an outage included.                                  *)
Grant(r) ==
  /\ Waiting(r, "refresh") /\ q[r].token = q[r].at /\ Goto(r, "granted")
  /\ UNCHANGED <<pageVars, storage, rows>>
Deny(r) ==
  /\ Waiting(r, "refresh") /\ Goto(r, "denied")
  /\ UNCHANGED <<pageVars, storage, rows>>

(* New tokens are stored, whatever is stored by now, and the request is    *)
(* sent again, to the server that is saved by now. A denial removes what   *)
(* is stored.                                                              *)
Granted(r) ==
  /\ Waiting(r, "granted")
  /\ held' = q[r].token /\ fresh' = TRUE
  /\ q' = [q EXCEPT ![r].pc = "sent", ![r].at = server, ![r].retried = TRUE]
  /\ UNCHANGED <<pageVars, rows>>

Denied_KeepsTokens(r) ==
  /\ Waiting(r, "denied") /\ q' = [q EXCEPT ![r] = Over(r, "error")]
  /\ UNCHANGED <<pageVars, storage, rows>>

Denied(r) ==
  /\ Waiting(r, "denied") /\ q' = [q EXCEPT ![r] = Over(r, "error")]
  /\ held' = NoServer /\ fresh' = FALSE
  /\ UNCHANGED <<pageVars, rows>>

(* fetch rejects: what was called may have had its effect or have it yet.  *)
NetworkError(r) ==
  /\ q[r].open
  /\ q' = [q EXCEPT ![r] = IF r \in Polls THEN Idle ELSE [@ EXCEPT !.open = FALSE]]
  /\ UNCHANGED <<pageVars, storage, rows>>

-----------------------------------------------------------------------------
(* login() leaves for the provider, who sends the window back with a code, *)
(* or the user returns without; an older return address can be visited     *)
(* again.                                                                  *)
Login ==
  /\ page = "app" /\ held = NoServer
  /\ page' = "signingIn" /\ pending' = TRUE
  /\ UNCHANGED <<server, url, storage, q, rows>>

Return ==
  /\ page = "provider" /\ page' = "loading" /\ url' \in {"plain", "code"}
  /\ UNCHANGED <<server, pending, storage, q, rows>>
Revisit ==
  /\ page = "app" /\ page' = "loading" /\ url' = "stale" /\ q' = Abandoned
  /\ UNCHANGED <<server, pending, storage, rows>>

(* The page is rendered once completeLoginIfNeeded() has found no code, or *)
(* exchanged the code of the login that is pending; what it throws leaves  *)
(* a blank page, and the code in its address.                              *)
Render ==
  /\ page = "loading" /\ url = "plain" /\ page' = "app"
  /\ UNCHANGED <<server, url, pending, storage, q, rows>>
CompleteLogin ==
  /\ page = "loading" /\ url = "code" /\ pending
  /\ held' = server /\ fresh' = TRUE /\ pending' = FALSE
  /\ url' = "plain" /\ page' = "app"
  /\ UNCHANGED <<server, q, rows>>
LoginFails ==
  /\ page = "loading" /\ url /= "plain" /\ page' = "blank"
  /\ UNCHANGED <<server, url, pending, storage, q, rows>>
Reopen ==
  /\ page = "blank" /\ page' = "loading" /\ url' \in {url, "plain"}
  /\ UNCHANGED <<server, pending, storage, q, rows>>
Reload ==
  /\ page = "app" /\ page' = "loading" /\ q' = Abandoned
  /\ UNCHANGED <<server, url, pending, storage, rows>>

(* logout() and a change of the server remove the tokens at once, and the  *)
(* page is left a little later: answers that arrive in between are used.   *)
Logout ==
  /\ page = "app" /\ held /= NoServer
  /\ held' = NoServer /\ fresh' = FALSE /\ page' = "leaving"
  /\ UNCHANGED <<server, url, pending, q, rows>>

ChangeServer(s) ==
  /\ page = "app" /\ server' = s /\ page' = "leaving"
  /\ held' = IF s = server THEN held ELSE NoServer
  /\ fresh' = (fresh /\ s = server)
  /\ UNCHANGED <<url, pending, q, rows>>

Unload ==
  /\ page \in {"leaving", "signingIn"}
  /\ page' = IF page = "signingIn" THEN "provider" ELSE "loading"
  /\ q' = Abandoned
  /\ UNCHANGED <<server, url, pending, storage, rows>>

Expire ==
  /\ fresh /\ fresh' = FALSE
  /\ UNCHANGED <<pageVars, held, q, rows>>

-----------------------------------------------------------------------------
ApiStep(r) == Admit(r) \/ Refuse(r) \/ CreateMemory(r) \/ RecordCreated(r) \/ List(r)
ClientStep(r) ==
  Succeed(r) \/ Fail(r) \/ RefreshOrFail(r) \/ Granted(r) \/ Denied(r)

SessionNext ==
  \/ \E r \in Request :
       \/ Submit(r) \/ ApiStep(r) \/ ServerError(r) \/ Grant(r) \/ Deny(r)
       \/ ClientStep(r) \/ NetworkError(r)
  \/ \E s \in Server : ChangeServer(s)
  \/ Login \/ Return \/ Revisit \/ Render \/ CompleteLogin \/ LoginFails \/ Reopen
  \/ Reload \/ Logout \/ Unload \/ Expire

SessionSpec == SessionInit /\ [][SessionNext]_sessionVars

(* Fairness: the dashboard polls every ten seconds, and a network that is  *)
(* tried again and again lets an answer through.                           *)
SessionFairness ==
  /\ \A p \in Polls :
       /\ WF_sessionVars(Submit(p)) /\ WF_sessionVars(ClientStep(p))
       /\ SF_sessionVars(ApiStep(p) \/ ServerError(p))
       /\ SF_sessionVars(RefreshOrFail(p)) /\ SF_sessionVars(Grant(p) \/ Deny(p))
       /\ SF_sessionVars(Granted(p) \/ Denied(p))
  /\ WF_sessionVars(Unload)

-----------------------------------------------------------------------------
(* Storage, page and requests hold values of their types; a request is at  *)
(* the provider only with a refresh token, granted only one of the         *)
(* provider's own, and no poll outlives its page.                          *)
SessionTyped ==
  /\ server \in Server /\ held \in Origin /\ fresh \in BOOLEAN
  /\ (fresh => held /= NoServer)
  /\ page \in {"loading", "app", "leaving", "signingIn", "provider", "blank"}
  /\ url \in {"plain", "code", "stale"} /\ pending \in BOOLEAN
  /\ q \in [Request -> RequestState]
  /\ made \subseteq Writes \X Server \X BOOLEAN /\ logged \subseteq Writes
  /\ \A r \in Request :
       /\ q[r].pc /= "idle" => q[r].at /= NoServer /\ q[r].first /= NoServer
       /\ q[r].pc \in AtProvider => q[r].token /= NoServer
       /\ q[r].pc = "granted" => q[r].token = q[r].at
       /\ q[r].open => q[r].pc \notin Ended
                       /\ page \in {"app", "leaving", "signingIn"}

(* However often it is sent, a creation takes effect once at most, and     *)
(* only at the server it was made for: not at another one the user has     *)
(* changed to while it was refused and its token refreshed.                *)
StoredOnceWhereSent ==
  \A e \in made : /\ e[2] = q[e[1]].first
                  /\ \A f \in made : f[1] = e[1] => f = e

(* A creation the client took for done is stored, with its record.         *)
DoneIsRecorded ==
  \A w \in Writes : At(w, "done") => w \in logged /\ \E e \in made : e[1] = w

(* A page that stays open ends up signed out or, again and again, with a   *)
(* valid token of its own server: parallel refreshes do not wear a session *)
(* out, and the tokens of another server, stored late by a refresh the     *)
(* user's change overtook, are dropped.                                    *)
SessionSettles ==
  <>[](page = "app") => []<>(held = NoServer \/ (held = server /\ fresh))
=============================================================================
