--------------------------- MODULE DevicePresence ---------------------------
(***************************************************************************)
(* The gateway's sockets of one device: the hello that attaches a socket   *)
(* in place of another, heartbeats, closes, and the online column that     *)
(* each of them writes without waiting for the others. ConnectionRegistry  *)
(* decides where commands are sent, the column what a client is shown.     *)
(***************************************************************************)
EXTENDS Naturals

CONSTANTS Socket,   \* the sockets ever opened for the device
          Adapter,  \* "memory" or "postgres"
          None

ASSUME AdapterAssumption == Adapter \in {"memory", "postgres"}
ASSUME NoneAssumption == None \notin Socket

VARIABLES
  ready,     \* readyState of each socket at the server
  byDevice,  \* the registry: the device's socket, or None
  attached,  \* the registry's bySocket: sockets a hello was accepted on
  hellos,    \* sockets whose hello is being authenticated
  writes,    \* presence updates that have not been made yet
  online     \* the online column of the device

vars == <<ready, byDevice, attached, hellos, writes, online>>

Init ==
  /\ ready = [s \in Socket |-> "absent"]
  /\ byDevice = None /\ attached = {} /\ hellos = {}
  /\ writes = {} /\ online = FALSE

-----------------------------------------------------------------------------
(* With the memory adapter an event is handled to its end before the next. *)
Event == Adapter = "memory" => hellos = {} /\ writes = {}
Live == {"open", "closing"}

handleConnection(s) ==
  /\ Event /\ ready[s] = "absent"
  /\ ready' = [ready EXCEPT ![s] = "open"]
  /\ UNCHANGED <<byDevice, attached, hellos, writes, online>>

(* A device.hello, the first message on its socket or another one: the     *)
(* credential is looked up.                                                *)
Hello(s) ==
  /\ Event /\ ready[s] \in Live
  /\ hellos' = hellos \union {s}
  /\ UNCHANGED <<ready, byDevice, attached, writes, online>>

(* The answer: a bad credential closes the socket; a good one attaches it, *)
(* whatever has become of it since, and closes the one it replaces.        *)
Reject(s) ==
  /\ s \in hellos /\ hellos' = hellos \ {s}
  /\ ready' = [ready EXCEPT ![s] = IF @ = "open" THEN "closing" ELSE @]
  /\ UNCHANGED <<byDevice, attached, writes, online>>

attach_KeepPrevious(s) ==
  /\ s \in hellos /\ hellos' = hellos \ {s}
  /\ byDevice' = s /\ attached' = attached \union {s}
  /\ writes' = writes \union {<<s, TRUE>>}
  /\ UNCHANGED <<ready, online>>

attach_OneWay(s) ==
  /\ s \in hellos /\ hellos' = hellos \ {s}
  /\ ready' = [p \in Socket |->
       IF p = byDevice /\ p /= s /\ ready[p] = "open" THEN "closing" ELSE ready[p]]
  /\ byDevice' = s
  /\ writes' = writes \union {<<s, TRUE>>}
  /\ UNCHANGED <<attached, online>>

attach(s) ==
  /\ s \in hellos /\ hellos' = hellos \ {s}
  /\ ready' = [p \in Socket |->
       IF p = byDevice /\ p /= s /\ ready[p] = "open" THEN "closing" ELSE ready[p]]
  /\ byDevice' = s /\ attached' = attached \union {s}
  /\ writes' = writes \union {<<s, TRUE>>}
  /\ UNCHANGED online

Heartbeat_Ignored(s) ==
  /\ Event /\ ready[s] \in Live /\ s \in attached
  /\ UNCHANGED vars

Heartbeat(s) ==
  /\ Event /\ ready[s] \in Live /\ s \in attached
  /\ writes' = writes \union {<<s, TRUE>>}
  /\ UNCHANGED <<ready, byDevice, attached, hellos, online>>

(* detach: the registry forgets the socket if it is the device's; either   *)
(* way the device is reported offline.                                     *)
handleDisconnect_Unchecked(s) ==
  /\ Event /\ ready[s] \in Live
  /\ ready' = [ready EXCEPT ![s] = "closed"]
  /\ byDevice' = IF s \in attached THEN None ELSE byDevice
  /\ writes' = IF s \in attached THEN writes \union {<<s, FALSE>>} ELSE writes
  /\ UNCHANGED <<attached, hellos, online>>

handleDisconnect(s) ==
  /\ Event /\ ready[s] \in Live
  /\ ready' = [ready EXCEPT ![s] = "closed"]
  /\ byDevice' = IF byDevice = s THEN None ELSE byDevice
  /\ writes' = IF s \in attached THEN writes \union {<<s, FALSE>>} ELSE writes
  /\ UNCHANGED <<attached, hellos, online>>

(* updateDevicePresence, in the order the pool's connections get to it.    *)
updateDevicePresence(w) ==
  /\ w \in writes /\ writes' = writes \ {w}
  /\ online' = w[2]
  /\ UNCHANGED <<ready, byDevice, attached, hellos>>

Next ==
  \/ \E s \in Socket :
       \/ handleConnection(s) \/ Hello(s) \/ Reject(s) \/ attach(s)
       \/ Heartbeat(s) \/ handleDisconnect(s)
  \/ \E w \in Socket \X BOOLEAN : updateDevicePresence(w)

Spec == Init /\ [][Next]_vars

(* Fairness: queries answer, a socket that is closing is closed, and an    *)
(* executor sends its heartbeat every 20 seconds.                          *)
Fairness ==
  /\ \A s \in Socket :
       /\ WF_vars(Reject(s) \/ attach(s))
       /\ WF_vars(ready[s] = "closing" /\ handleDisconnect(s))
       /\ SF_vars(Heartbeat(s))
  /\ \A w \in Socket \X BOOLEAN : WF_vars(updateDevicePresence(w))

FairSpec == Spec /\ Fairness

-----------------------------------------------------------------------------
(* Sockets, the registry and the pending updates hold values of their      *)
(* types.                                                                  *)
TypeOK ==
  /\ ready \in [Socket -> {"absent", "open", "closing", "closed"}]
  /\ byDevice \in attached \union {None} /\ attached \subseteq Socket
  /\ hellos \subseteq Socket /\ writes \subseteq Socket \X BOOLEAN
  /\ online \in BOOLEAN

isOnline == byDevice /= None /\ ready[byDevice] = "open"

(* An accepted socket that is open is the one commands are sent to: a late *)
(* close of a socket it replaced does not unregister it, and no two        *)
(* accepted sockets stay open.                                             *)
OpenSocketIsRegistered ==
  \A s \in attached : ready[s] = "open" => byDevice = s

(* A device that stays connected is shown online for good in the end, what *)
(* older closes reported notwithstanding, by its heartbeats.               *)
PresenceRecovers == <>[]isOnline => <>[]online
=============================================================================
