-------------------------- MODULE MCToolInvocation --------------------------
(* One call over a read tool, a gated tool with an output contract, a      *)
(* gated tool open to every role and an ungated side effect.               *)
EXTENDS ToolInvocation

CONSTANT c1

MCCalls == {c1}
MCTools == {"search", "issue", "draft", "note"}
MCSideEffect == {"issue", "draft", "note"}
MCApprovalRequired == {"issue", "draft"}
MCRoleRestricted == {"issue"}
MCHasOutputSchema == {"issue", "search"}
=============================================================================
