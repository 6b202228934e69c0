----------------------------- MODULE DeviceProofs -----------------------------
(***************************************************************************)
(* What holds of a device at the server: its registry never loses an open  *)
(* socket, and the name of a device whose registration was answered is     *)
(* taken for all later registrations, however many there are at once.      *)
(***************************************************************************)
EXTENDS DevicePresence, DeviceRegistration, TLAPS


(* Why: a socket that is attached, or about to be, was connected before,   *)
(* so that no new connection can be one of them.                           *)
Known == \A s \in attached \union hellos : ready[s] /= "absent"
RegistryInv == TypeOK /\ Known /\ OpenSocketIsRegistered

LEMMA RegistryNext == RegistryInv /\ [Next]_vars => RegistryInv'
<1> SUFFICES ASSUME RegistryInv, [Next]_vars PROVE RegistryInv'
  OBVIOUS
<1>0. \A s \in Socket, b \in BOOLEAN : <<s, b>> \in Socket \X BOOLEAN
  OBVIOUS
<1> USE NoneAssumption DEF RegistryInv, TypeOK, Known, OpenSocketIsRegistered, Live
<1>1. CASE UNCHANGED vars
  BY <1>1 DEF vars
<1>2. ASSUME NEW s \in Socket, handleConnection(s) PROVE RegistryInv'
  BY <1>2 DEF handleConnection
<1>3. ASSUME NEW s \in Socket, Hello(s) PROVE RegistryInv'
  BY <1>3 DEF Hello
<1>4. ASSUME NEW s \in Socket, Reject(s) PROVE RegistryInv'
  BY <1>4 DEF Reject
<1>5. ASSUME NEW s \in Socket, attach(s) PROVE RegistryInv'
  <2>1. /\ ready' \in [Socket -> {"absent", "open", "closing", "closed"}]
        /\ \A p \in Socket : ready'[p] = "absent" => ready[p] = "absent"
    BY <1>5 DEF attach
  <2>2. writes' \subseteq Socket \X BOOLEAN
    BY <1>0, <1>5 DEF attach
  <2>3. attached' \subseteq Socket /\ byDevice' \in attached' /\ hellos' \subseteq Socket
    BY <1>5 DEF attach
  <2>4. Known'
    BY <1>5, <2>1 DEF attach
  <2>5. ASSUME NEW p \in attached', ready'[p] = "open", p /= s PROVE FALSE
    <3>1. p \in attached /\ p \in Socket /\ ready[p] = "open"
      BY <1>5, <2>5 DEF attach
    <3> QED
      BY <1>5, <2>5, <3>1 DEF attach
  <2> QED
    BY <1>5, <2>1, <2>2, <2>3, <2>4, <2>5 DEF attach
<1>6. ASSUME NEW s \in Socket, Heartbeat(s) PROVE RegistryInv'
  BY <1>0, <1>6 DEF Heartbeat
<1>7. ASSUME NEW s \in Socket, handleDisconnect(s) PROVE RegistryInv'
  <2>1. writes' \subseteq Socket \X BOOLEAN
    BY <1>0, <1>7 DEF handleDisconnect
  <2> QED
    BY <1>7, <2>1 DEF handleDisconnect
<1>8. ASSUME NEW w \in Socket \X BOOLEAN, updateDevicePresence(w) PROVE RegistryInv'
  <2>1. w[2] \in BOOLEAN
    BY <1>8
  <2> QED
    BY <1>8, <2>1 DEF updateDevicePresence
<1> QED
  BY <1>1, <1>2, <1>3, <1>4, <1>5, <1>6, <1>7, <1>8 DEF Next

LEMMA RegistryInit == Init => RegistryInv
BY DEF Init, RegistryInv, TypeOK, Known, OpenSocketIsRegistered

(* The registry names an attached socket or none, and sockets, hellos and  *)
(* pending presence updates keep their types.                              *)
THEOREM RegistryTyped == Spec => []TypeOK
<1>1. RegistryInv => TypeOK
  BY DEF RegistryInv
<1> QED
  BY <1>1, RegistryInit, RegistryNext, PTL DEF Spec

(* Whatever sockets connect, say hello, are replaced and close, in any     *)
(* order, an accepted socket that is open is the one commands are sent to. *)
THEOREM RegistryKeepsOpenSocket == Spec => []OpenSocketIsRegistered
<1>1. RegistryInv => OpenSocketIsRegistered
  BY DEF RegistryInv
<1> QED
  BY <1>1, RegistryInit, RegistryNext, PTL DEF Spec

-----------------------------------------------------------------------------

RegistrationTyped ==
  /\ stands \in [Registration -> Stage] /\ devices \subseteq Registration
  /\ earlier \in [Registration -> SUBSET Registration]

(* The inductive invariant: rows and stages agree, what was answered before *)
(* a registration stays so, and one about to insert has compared its name  *)
(* with all of those; with the memory adapter, with every row.             *)
RowsAgree ==
  /\ \A r \in Registration : stands[r] \in {"record", "answered"} => r \in devices
  /\ \A r \in devices : stands[r] \in {"record", "answered", "error"}
EarlierAnswered == \A r \in Registration : \A e \in earlier[r] : stands[e] = "answered"
Compared == \A r \in Registration : stands[r] = "insert" =>
  \A d \in devices : Store = "memory" \/ d \in earlier[r] => Folded[d] /= Folded[r]
RegistrationInv ==
  RegistrationTyped /\ RowsAgree /\ EarlierAnswered /\ Compared /\ AnsweredNameIsTaken

LEMMA RegistrationInitInv == RegistrationInit => RegistrationInv
BY DEF RegistrationInit, RegistrationInv, RegistrationTyped, RowsAgree, EarlierAnswered,
       Compared, AnsweredNameIsTaken, Stage

LEMMA RegistrationNextInv ==
  ASSUME RegistrationInv, [RegistrationNext]_registrationVars
  PROVE  RegistrationInv'
<1> USE DEF RegistrationTyped, Stage
<1>0. RegistrationTyped /\ RowsAgree /\ EarlierAnswered /\ Compared /\ AnsweredNameIsTaken
  BY DEF RegistrationInv
<1>1. CASE UNCHANGED registrationVars
  BY <1>0, <1>1 DEF registrationVars, RegistrationInv, RowsAgree, EarlierAnswered, Compared,
     AnsweredNameIsTaken
<1>2. ASSUME NEW r \in Registration, Register(r)
      PROVE  RegistrationInv'
  <2>1. /\ stands[r] = "none" /\ stands' = [stands EXCEPT ![r] = "list"] /\ UNCHANGED devices
        /\ earlier' = [earlier EXCEPT ![r] = {s \in Registration : stands[s] = "answered"}]
    BY <1>2 DEF Register, Advance
  <2>2. r \notin devices
    BY <1>0, <2>1 DEF RowsAgree
  <2>3. RegistrationTyped'
    BY <1>0, <2>1
  <2>4. RowsAgree'
    BY <1>0, <2>1, <2>2 DEF RowsAgree
  <2>5. EarlierAnswered'
    BY <1>0, <2>1 DEF EarlierAnswered
  <2>6. Compared' /\ AnsweredNameIsTaken'
    BY <1>0, <2>1, <2>2 DEF Compared, AnsweredNameIsTaken
  <2> QED
    BY <2>3, <2>4, <2>5, <2>6 DEF RegistrationInv
<1>3. ASSUME NEW r \in Registration, ListDevices(r)
      PROVE  RegistrationInv'
  <2>1. /\ stands[r] = "list" /\ UNCHANGED <<devices, earlier>>
        /\ \/ stands' = [stands EXCEPT ![r] = "conflict"]
           \/ stands' = [stands EXCEPT ![r] = "insert"] /\ ~NameTaken(r)
    BY <1>3 DEF ListDevices, Advance
  <2>2. RegistrationTyped' /\ RowsAgree' /\ EarlierAnswered' /\ AnsweredNameIsTaken'
    BY <1>0, <2>1 DEF RowsAgree, EarlierAnswered, AnsweredNameIsTaken
  <2>3. Compared'
    BY <1>0, <2>1 DEF Compared, NameTaken
  <2> QED
    BY <2>2, <2>3 DEF RegistrationInv
<1>4. ASSUME NEW r \in Registration, CreateDevice(r)
      PROVE  RegistrationInv'
  <2>1. /\ stands[r] = "insert" /\ stands' = [stands EXCEPT ![r] = "record"]
        /\ devices' = devices \union {r} /\ UNCHANGED earlier
        /\ (Store = "memory" => \A s \in Registration \ {r} : stands[s] /= "insert")
    BY <1>4 DEF CreateDevice, Advance, AsTurn, UnderWay
  <2>2. RegistrationTyped' /\ RowsAgree' /\ EarlierAnswered'
    BY <1>0, <2>1 DEF RowsAgree, EarlierAnswered
  <2>3. Compared'
    <3> SUFFICES ASSUME NEW s \in Registration, stands'[s] = "insert", NEW d \in devices',
                        Store = "memory" \/ d \in earlier[s]
                 PROVE  Folded[d] /= Folded[s]
      BY <2>1 DEF Compared
    <3>1. s /= r /\ stands[s] = "insert"
      BY <1>0, <2>1
    <3>2. d /= r
      BY <1>0, <2>1, <3>1 DEF EarlierAnswered
    <3> QED
      BY <1>0, <2>1, <3>1, <3>2 DEF Compared
  <2>4. AnsweredNameIsTaken'
    <3> SUFFICES ASSUME NEW d \in devices', NEW e \in devices', d /= e,
                        Store = "memory" \/ e \in earlier[d]
                 PROVE  Folded[d] /= Folded[e]
      BY <2>1 DEF AnsweredNameIsTaken
    <3>1. CASE d = r
      BY <1>0, <2>1, <3>1 DEF Compared
    <3>2. CASE e = r
      <4>1. d \in Registration /\ e \notin earlier[d]
        BY <1>0, <2>1, <3>2 DEF EarlierAnswered
      <4> QED
        BY <1>0, <2>1, <3>2, <4>1 DEF Compared
    <3>3. CASE d /= r /\ e /= r
      BY <1>0, <2>1, <3>3 DEF AnsweredNameIsTaken
    <3> QED
      BY <3>1, <3>2, <3>3
  <2> QED
    BY <2>2, <2>3, <2>4 DEF RegistrationInv
<1>5. ASSUME NEW r \in Registration, RecordRegistered(r) \/ RegistrationFails(r)
      PROVE  RegistrationInv'
  <2>1. /\ UNCHANGED <<devices, earlier>>
        /\ \/ stands[r] = "record" /\ stands' = [stands EXCEPT ![r] = "answered"]
           \/ stands[r] \in UnderWay /\ stands' = [stands EXCEPT ![r] = "error"]
    BY <1>5 DEF RecordRegistered, RegistrationFails, Advance
  <2>2. RegistrationTyped' /\ RowsAgree'
    BY <1>0, <2>1 DEF RowsAgree, UnderWay
  <2>3. EarlierAnswered' /\ Compared' /\ AnsweredNameIsTaken'
    BY <1>0, <2>1 DEF EarlierAnswered, Compared, AnsweredNameIsTaken, UnderWay
  <2> QED
    BY <2>2, <2>3 DEF RegistrationInv
<1> QED
  BY <1>1, <1>2, <1>3, <1>4, <1>5 DEF RegistrationNext

(* No two devices of a user have one name, whatever its case, if one was   *)
(* answered before the other's registration arrived; with the memory       *)
(* adapter, no two at all.                                                 *)
THEOREM AnsweredNamesStayTaken == RegistrationSpec => []AnsweredNameIsTaken
<1>1. RegistrationInv => AnsweredNameIsTaken
  BY DEF RegistrationInv
<1> QED
  BY <1>1, RegistrationInitInv, RegistrationNextInv, PTL DEF RegistrationSpec
=============================================================================
