-------------------------- MODULE CommandLifecycle --------------------------
(***************************************************************************)
(* What the command service promises of a command: created once, guarded   *)
(* commands ruled on once, queued or cancelled as ruled, dispatched, then  *)
(* reported on by the device until a final result - or expired at any      *)
(* point before its end. Nothing moves backwards.                          *)
(***************************************************************************)
CONSTANT Command

VARIABLES
  phase,     \* where each command stands
  guarded,   \* the created commands that need an approval
  ruling,    \* the user's ruling on each guarded command
  delivered  \* the commands a device was sent

vars == <<phase, guarded, ruling, delivered>>

Final == {"succeeded", "failed", "expired", "cancelled"}
Phase == Final \union {"absent", "awaiting_approval", "queued", "dispatched", "running"}

Init ==
  /\ phase = [c \in Command |-> "absent"]
  /\ ruling = [c \in Command |-> "open"]
  /\ guarded = {} /\ delivered = {}

(* A move of one command from one of the phases "from" to "to".            *)
Move(c, from, to) == phase[c] \in from /\ phase' = [phase EXCEPT ![c] = to]

Create(c) ==
  /\ \/ Move(c, {"absent"}, "queued") /\ guarded' = guarded
     \/ Move(c, {"absent"}, "awaiting_approval") /\ guarded' = guarded \union {c}
  /\ UNCHANGED <<ruling, delivered>>

Rule(c) ==
  /\ phase[c] = "awaiting_approval" /\ ruling[c] = "open"
  /\ \E r \in {"approved", "denied"} : ruling' = [ruling EXCEPT ![c] = r]
  /\ UNCHANGED <<phase, guarded, delivered>>

Apply(c) ==
  /\ \/ ruling[c] = "approved" /\ Move(c, {"awaiting_approval"}, "queued")
     \/ ruling[c] = "denied" /\ Move(c, {"awaiting_approval"}, "cancelled")
  /\ UNCHANGED <<guarded, ruling, delivered>>

Dispatch(c) ==
  /\ c \in guarded => ruling[c] = "approved"
  /\ Move(c, {"queued"}, "dispatched")
  /\ UNCHANGED <<guarded, ruling, delivered>>

Deliver(c) ==
  /\ phase[c] = "dispatched" /\ delivered' = delivered \union {c}
  /\ UNCHANGED <<phase, guarded, ruling>>

Report(c) ==
  /\ c \in delivered
  /\ \E r \in {"running", "succeeded", "failed"} : Move(c, {"dispatched", "running"}, r)
  /\ UNCHANGED <<guarded, ruling, delivered>>

Expire(c) ==
  /\ Move(c, Phase \ (Final \union {"absent"}), "expired")
  /\ UNCHANGED <<guarded, ruling, delivered>>

Next == \E c \in Command :
  \/ Create(c) \/ Rule(c) \/ Apply(c) \/ Dispatch(c)
  \/ Deliver(c) \/ Report(c) \/ Expire(c)

Spec == Init /\ [][Next]_vars
=============================================================================
