------------------------------ MODULE MCDevice ------------------------------
(***************************************************************************)
(* A device at the server: the registrations of a user's devices, and the  *)
(* sockets of one of them. The two touch different columns of its row, so  *)
(* a behaviour explores one of them while the other rests.                 *)
(***************************************************************************)
EXTENDS DevicePresence, DeviceRegistration, TLC

CONSTANTS r1, r2, r3

VARIABLE explored   \* the part this behaviour explores

FoldedNames == (r1 :> "laptop") @@ (r2 :> "laptop") @@ (r3 :> "phone")

MCInit ==
  /\ Init /\ RegistrationInit /\ explored \in {"presence", "registration"}
MCNext ==
  \/ explored = "presence" /\ Next /\ UNCHANGED <<registrationVars, explored>>
  \/ explored = "registration" /\ RegistrationNext /\ UNCHANGED <<vars, explored>>
MCSpec == MCInit /\ [][MCNext]_<<vars, registrationVars, explored>>
MCFairSpec == MCSpec /\ Fairness
=============================================================================
