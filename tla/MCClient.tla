------------------------------ MODULE MCClient ------------------------------
(***************************************************************************)
(* The client application: its session with the servers, and the executor  *)
(* of the desktop build. They meet only where the page is reloaded, so a   *)
(* behaviour explores one of them while the other rests.                   *)
(***************************************************************************)
EXTENDS ClientSession, NativeExecutor, TLC

CONSTANTS c1, c2, c3, notes, photo

VARIABLE explored   \* the part this behaviour explores

Kinds == (c1 :> "write") @@ (c2 :> "trash") @@ (c3 :> "read")
Paths == (c1 :> notes) @@ (c2 :> notes) @@ (c3 :> photo)

MCInit ==
  /\ SessionInit /\ NativeInit /\ explored \in {"session", "executor"}
  /\ explored = "executor" => server = CHOOSE s \in Server : TRUE
MCNext ==
  \/ explored = "session" /\ SessionNext /\ UNCHANGED <<nativeVars, explored>>
  \/ explored = "executor" /\ NativeNext /\ UNCHANGED <<sessionVars, explored>>
MCSpec ==
  MCInit /\ [][MCNext]_<<sessionVars, nativeVars, explored>> /\ SessionFairness
=============================================================================
