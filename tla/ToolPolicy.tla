----------------------------- MODULE ToolPolicy -----------------------------
(***************************************************************************)
(* The server's tool policy (packages/protocol/src/policy.ts): which risk  *)
(* a tool carries, and whether one of its commands waits for an approval   *)
(* and for a biometric check before it may reach a device.                 *)
(***************************************************************************)

ToolsOfRisk ==
  [read        |-> {"file.list", "file.read", "screen.snapshot"},
   write       |-> {"file.write", "app.launch", "screen.control"},
   destructive |-> {"file.trash"},
   privileged  |-> {"external.send", "system.install", "credentials.read",
                    "payment.submit"}]

RiskLevel == {"read", "write", "destructive", "privileged"}

Tool == UNION {ToolsOfRisk[r] : r \in RiskLevel}

(* TOOL_POLICIES[tool].approvalRequired is false for the read tools only. *)
ApprovalRequired(tool) == tool \notin ToolsOfRisk.read

(* The field create() stores in the approval of the command. *)
BiometricRequired(tool) ==
  \E risk \in {"destructive", "privileged"} : tool \in ToolsOfRisk[risk]
=============================================================================
