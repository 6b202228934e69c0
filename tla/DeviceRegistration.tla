------------------------- MODULE DeviceRegistration -------------------------
(***************************************************************************)
(* DeviceService.register: the user's devices are listed, the new name is  *)
(* compared with theirs whatever its case, the row is inserted and         *)
(* recorded, and the credential goes out with the answer, once. Every      *)
(* query is a step; a query that fails ends the registration there.        *)
(***************************************************************************)
CONSTANTS
  Registration,   \* the registration requests of one user
  Folded,         \* the name of each, in lower case
  Store           \* "memory" or "postgres"

ASSUME StoreAssumption == Store \in {"memory", "postgres"}

VARIABLES
  stands,    \* where each registration stands
  devices,   \* the registrations whose row is in the devices table
  earlier    \* history: the registrations answered before each arrived

registrationVars == <<stands, devices, earlier>>

Stage == {"none", "list", "insert", "record", "answered", "conflict", "error"}
UnderWay == {"list", "insert", "record"}

RegistrationInit ==
  /\ stands = [r \in Registration |-> "none"] /\ devices = {}
  /\ earlier = [r \in Registration |-> {}]

(* With the memory adapter a registration runs to its end before another.  *)
AsTurn(r) == Store = "memory" =>
  \A s \in Registration \ {r} : stands[s] \notin UnderWay
Advance(r, from, to) ==
  /\ stands[r] = from /\ AsTurn(r) /\ stands' = [stands EXCEPT ![r] = to]

Register(r) ==
  /\ Advance(r, "none", "list")
  /\ earlier' = [earlier EXCEPT ![r] = {s \in Registration : stands[s] = "answered"}]
  /\ UNCHANGED devices

NameTaken_OfOwnCase(r) == r \in devices
NameTaken(r) == \E d \in devices : Folded[d] = Folded[r]

ListDevices(r) ==
  /\ Advance(r, "list", IF NameTaken(r) THEN "conflict" ELSE "insert")
  /\ UNCHANGED <<devices, earlier>>
CreateDevice(r) ==
  /\ Advance(r, "insert", "record") /\ devices' = devices \union {r}
  /\ UNCHANGED earlier
RecordRegistered(r) ==
  /\ Advance(r, "record", "answered") /\ UNCHANGED <<devices, earlier>>

(* After the insert an error leaves a device whose credential nobody has.  *)
RegistrationFails(r) ==
  /\ Store = "postgres" /\ stands[r] \in UnderWay
  /\ stands' = [stands EXCEPT ![r] = "error"] /\ UNCHANGED <<devices, earlier>>

RegistrationNext == \E r \in Registration :
  \/ Register(r) \/ ListDevices(r) \/ CreateDevice(r) \/ RecordRegistered(r)
  \/ RegistrationFails(r)

RegistrationSpec == RegistrationInit /\ [][RegistrationNext]_registrationVars

(* The name of a device whose registration was answered is taken for all   *)
(* registrations that arrive later, whatever their case; of one that       *)
(* overlaps with them it is only with the memory adapter.                  *)
AnsweredNameIsTaken == \A d, e \in devices :
  d /= e /\ (Store = "memory" \/ e \in earlier[d]) => Folded[d] /= Folded[e]
=============================================================================
