----------------------------- MODULE GatedCalls -----------------------------
(* What invoke_tool promises its callers, without audit rows, awaits or     *)
(* cancellation: a handler runs only for a cleared call, at most as often   *)
(* as its output contract allows, and the answer tells the truth about it.  *)
EXTENDS ToolGate

CONSTANT Calls   \* the tool calls

VARIABLES
    call,     \* call[c]: what call c asks for
    grants,   \* grants[t]: ctx.approvals for this turn and tool t
    ran,      \* how often the handler of each call was started
    outcome   \* ToolInvocationOutcome.kind, "none" while in progress

vars == <<call, grants, ran, outcome>>

Granted(c) == IF call[c].tool \in Tools THEN grants[call[c].tool] ELSE "none"

Init ==
    /\ call \in [Calls -> Call]
    /\ grants \in [Tools -> Grant]
    /\ ran = [c \in Calls |-> 0]
    /\ outcome = [c \in Calls |-> "none"]

Run(c) ==
    /\ outcome[c] = "none"
    /\ Cleared(call[c], Granted(c))
    /\ ran[c] < MaxRuns(call[c])
    /\ ran' = [ran EXCEPT ![c] = @ + 1]
    /\ UNCHANGED <<call, grants, outcome>>

(* An answer: one the checks allow, and, for a cleared call, only after its *)
(* handler has run.                                                         *)
Answer(c, k) ==
    /\ outcome[c] = "none"
    /\ k \in Replies(call[c], Granted(c))
    /\ Cleared(call[c], Granted(c)) => ran[c] > 0
    /\ outcome' = [outcome EXCEPT ![c] = k]
    /\ UNCHANGED <<call, grants, ran>>

Next == \E c \in Calls : Run(c) \/ \E k \in Outcomes : Answer(c, k)

Spec == Init /\ [][Next]_vars
=============================================================================
