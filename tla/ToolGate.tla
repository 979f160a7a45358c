------------------------------ MODULE ToolGate ------------------------------
(* The tool registry and the checks invoke_tool makes before it runs a      *)
(* handler (agent_runtime tools.py), as predicates of a call k and of g,    *)
(* what ctx.approvals says about the call's approval id.                    *)
EXTENDS Naturals

CONSTANTS
    Tools,              \* registered tool names
    Unregistered,       \* a name the registry does not know
    SideEffect,         \* tools whose ToolSpec.side_effect is set
    ApprovalRequired,   \* tools whose ToolSpec.approval_required is set
    RoleRestricted,     \* tools with a non-empty ToolSpec.approval_roles
    HasOutputSchema     \* tools with a ToolSpec.output_schema

ASSUME ToolGateAssumption ==
    /\ Unregistered \notin Tools
    /\ SideEffect \subseteq Tools
    /\ ApprovalRequired \subseteq Tools
    /\ RoleRestricted \subseteq Tools
    /\ HasOutputSchema \subseteq Tools

(* A call: the tool named, whether its input matches input_schema, whether  *)
(* ctx.actor_role is one of the tool's approval_roles.                      *)
Call == [tool: Tools \cup {Unregistered}, valid: BOOLEAN, allowed: BOOLEAN]

Grant == {"none", "granted", "denied"}

Outcomes == {"none", "success", "error", "approval_needed", "permission_denied"}

WellFormed(k) == k.tool \in Tools /\ k.valid

RoleRefused(k) == k.tool \in ApprovalRequired \cap RoleRestricted /\ ~k.allowed

Gated(k) == k.tool \in SideEffect \cap ApprovalRequired

Cleared(k, g) == WellFormed(k) /\ ~RoleRefused(k) /\ (Gated(k) => g = "granted")

(* The kinds of ToolInvocationOutcome a call can get.                       *)
Replies(k, g) ==
    IF ~WellFormed(k) THEN {"error"}
    ELSE IF RoleRefused(k) THEN {"permission_denied"}
    ELSE IF Gated(k) /\ g = "none" THEN {"approval_needed"}
    ELSE IF Gated(k) /\ g = "denied" THEN {"error"}
    ELSE {"success", "error"}

(* Handler runs: one, and a second when the output has the wrong shape.     *)
MaxRuns(k) == IF k.tool \in HasOutputSchema THEN 2 ELSE 1
=============================================================================
