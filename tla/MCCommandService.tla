-------------------------- MODULE MCCommandService --------------------------
(***************************************************************************)
(* Small instances of CommandService for TLC: one executor, a write, a     *)
(* destructive and a read command.                                         *)
(***************************************************************************)
EXTENDS CommandService

CONSTANTS d1, k1, k2, a1, a2

Body(k, tool, a, at, form) ==
  [key |-> k, device |-> d1, tool |-> tool, args |-> a, at |-> at, form |-> form]

MCAdvertises == [d \in Device |-> Tool]

(* One destructive command: approvals with and without a biometric check.  *)
TrashRequest == {Body(k1, "file.trash", a1, 1, "canonical")}

(* Two read commands.                                                      *)
ReadRequests == {Body(k1, "file.read", a1, 1, "canonical"),
                 Body(k2, "file.read", a1, 1, "canonical")}

(* A read command and a destructive one with keys of their own, and the    *)
(* first one's key used again with its expiry in another form.             *)
PairRequests == {Body(k1, "file.read", a1, 1, "canonical"),
                 Body(k1, "file.read", a1, 1, "other"),
                 Body(k2, "file.trash", a1, 2, "canonical")}
=============================================================================
