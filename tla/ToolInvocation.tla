--------------------------- MODULE ToolInvocation ---------------------------
(***************************************************************************)
(* invoke_tool (agent_runtime tools.py): validate, check the role, gate on  *)
(* an approval, open an audit row, run the handler with one retry when its  *)
(* output has the wrong shape, close the audit row.  One step per await.    *)
(*                                                                          *)
(* Calls run concurrently (one per turn in progress).  The audit sink is    *)
(* best effort: any write may be dropped silently.  The task that runs the  *)
(* turn is cancelled when the SSE client goes away (chat.py                 *)
(* with_heartbeats), at whichever await it is suspended; CancelledError is  *)
(* not an Exception, so no except clause of invoke_tool sees it.            *)
(***************************************************************************)
EXTENDS ToolGate

CONSTANT Calls   \* the tool calls the agent loops dispatch

VARIABLES
    call,      \* call[c]: what call c asks for
    grants,    \* ctx.approvals, by tool: an approval id is "ap-<turn>-<tool>"
    ran,       \* how often the handler of each call was started
    outcome,   \* ToolInvocationOutcome.kind, "none" while in progress
    pc,        \* where each call is suspended
    pending,   \* the answer to give once the audit write in progress is done
    auditRow,  \* status of the call's audit_events row, "none" without a row
    dropped    \* history: some audit write of the call was lost

callVars == <<call, grants, ran, outcome, pc, pending, auditRow, dropped>>

PCs == {"start", "rejecting", "opening", "running", "closing",
        "returned", "cancelled"}

AuditStatus == {"none", "started", "succeeded", "failed", "rejected"}

(* The shape of the state: a handler is run at most twice (tools.py, the    *)
(* retry after an output of the wrong shape).                               *)
CallsTyped ==
    /\ call \in [Calls -> Call]
    /\ grants \in [Tools -> Grant]
    /\ ran \in [Calls -> 0..2]
    /\ outcome \in [Calls -> Outcomes]
    /\ pc \in [Calls -> PCs]
    /\ auditRow \in [Calls -> AuditStatus]
    /\ dropped \in [Calls -> BOOLEAN]
    /\ pending \in [Calls -> Outcomes]

CallsInit ==
    /\ call \in [Calls -> Call]
    /\ grants \in [Tools -> Grant]
    /\ ran = [c \in Calls |-> 0]
    /\ outcome = [c \in Calls |-> "none"]
    /\ pc = [c \in Calls |-> "start"]
    /\ auditRow = [c \in Calls |-> "none"]
    /\ dropped = [c \in Calls |-> FALSE]
    /\ pending = [c \in Calls |-> "none"]
-----------------------------------------------------------------------------
(* ctx.approvals.get(approval_id)                                           *)
Granted(c) == IF call[c].tool \in Tools THEN grants[call[c].tool] ELSE "none"

Return(c, k) ==
    /\ pc' = [pc EXCEPT ![c] = "returned"]
    /\ outcome' = [outcome EXCEPT ![c] = k]

(* PostgresAuditSink.write under _best_effort: an upsert, or nothing.       *)
WriteAuditRow(c, status) ==
    \/ auditRow' = [auditRow EXCEPT ![c] = status] /\ UNCHANGED dropped
    \/ dropped' = [dropped EXCEPT ![c] = TRUE] /\ UNCHANGED auditRow

(* get_tool raises KeyError, or the input does not match the schema.        *)
RefuseInput(c) ==
    /\ pc[c] = "start"
    /\ ~WellFormed(call[c])
    /\ Return(c, "error")
    /\ UNCHANGED <<call, grants, ran, auditRow, dropped, pending>>

(* RBAC, before the approval gate.                                          *)
RefuseRole(c) ==
    /\ pc[c] = "start"
    /\ WellFormed(call[c])
    /\ RoleRefused(call[c])
    /\ pc' = [pc EXCEPT ![c] = "rejecting"]
    /\ pending' = [pending EXCEPT ![c] = "permission_denied"]
    /\ UNCHANGED <<call, grants, ran, outcome, auditRow, dropped>>

AskApproval(c) ==
    /\ pc[c] = "start"
    /\ WellFormed(call[c]) /\ ~RoleRefused(call[c])
    /\ Gated(call[c]) /\ Granted(c) = "none"
    /\ Return(c, "approval_needed")
    /\ UNCHANGED <<call, grants, ran, auditRow, dropped, pending>>

RefuseApproval(c) ==
    /\ pc[c] = "start"
    /\ WellFormed(call[c]) /\ ~RoleRefused(call[c])
    /\ Gated(call[c]) /\ Granted(c) = "denied"
    /\ pc' = [pc EXCEPT ![c] = "rejecting"]
    /\ pending' = [pending EXCEPT ![c] = "error"]
    /\ UNCHANGED <<call, grants, ran, outcome, auditRow, dropped>>

WriteRejected(c) ==
    /\ pc[c] = "rejecting"
    /\ WriteAuditRow(c, "rejected")
    /\ Return(c, pending[c])
    /\ UNCHANGED <<call, grants, ran, pending>>

(* Mutants of Admit: side effects start without an audit row; any recorded  *)
(* decision, a denial too, is taken for a grant.                            *)
AdmitUnaudited(c) ==
    /\ pc[c] = "start"
    /\ Cleared(call[c], Granted(c))
    /\ pc' = [pc EXCEPT ![c] = "running"]
    /\ ran' = [ran EXCEPT ![c] = 1]
    /\ UNCHANGED <<call, grants, outcome, auditRow, dropped, pending>>

AdmitDenied(c) ==
    /\ pc[c] = "start"
    /\ WellFormed(call[c]) /\ ~RoleRefused(call[c])
    /\ Gated(call[c]) => Granted(c) # "none"
    /\ pc' = [pc EXCEPT ![c] = "opening"]
    /\ UNCHANGED <<call, grants, ran, outcome, auditRow, dropped, pending>>

(* A cleared call: side effects open an audit row first, the others start   *)
(* their handler at once.                                                   *)
Admit(c) ==
    /\ pc[c] = "start"
    /\ Cleared(call[c], Granted(c))
    /\ IF call[c].tool \in SideEffect
       THEN pc' = [pc EXCEPT ![c] = "opening"] /\ UNCHANGED ran
       ELSE pc' = [pc EXCEPT ![c] = "running"] /\ ran' = [ran EXCEPT ![c] = 1]
    /\ UNCHANGED <<call, grants, outcome, auditRow, dropped, pending>>

WriteStarted(c) ==
    /\ pc[c] = "opening"
    /\ WriteAuditRow(c, "started")
    /\ pc' = [pc EXCEPT ![c] = "running"]
    /\ ran' = [ran EXCEPT ![c] = 1]
    /\ UNCHANGED <<call, grants, outcome, pending>>

(* After the handler: answer at once, or through the closing audit write.   *)
Close(c, k) ==
    IF call[c].tool \in SideEffect
    THEN /\ pc' = [pc EXCEPT ![c] = "closing"]
         /\ pending' = [pending EXCEPT ![c] = k]
         /\ UNCHANGED outcome
    ELSE Return(c, k) /\ UNCHANGED pending

HandlerSucceeds(c) ==
    /\ pc[c] = "running"
    /\ Close(c, "success")
    /\ UNCHANGED <<call, grants, ran, auditRow, dropped>>

(* DriverError or any other Exception.                                      *)
HandlerRaises(c) ==
    /\ pc[c] = "running"
    /\ Close(c, "error")
    /\ UNCHANGED <<call, grants, ran, auditRow, dropped>>

(* Mutant of HandlerMisshapes: the attempt counter restarts on every retry. *)
HandlerRetryResets(c) ==
    /\ pc[c] = "running"
    /\ call[c].tool \in HasOutputSchema
    /\ ran' = [ran EXCEPT ![c] = 3 - @]
    /\ UNCHANGED <<call, grants, outcome, pc, pending, auditRow, dropped>>

(* The output does not match output_schema: run once more, then give up.    *)
HandlerMisshapes(c) ==
    /\ pc[c] = "running"
    /\ call[c].tool \in HasOutputSchema
    /\ IF ran[c] < MaxRuns(call[c])
       THEN ran' = [ran EXCEPT ![c] = @ + 1] /\ UNCHANGED <<pc, pending, outcome>>
       ELSE Close(c, "error") /\ UNCHANGED ran
    /\ UNCHANGED <<call, grants, auditRow, dropped>>

TerminalStatus(c) == IF pending[c] = "success" THEN "succeeded" ELSE "failed"

WriteTerminal(c) ==
    /\ pc[c] = "closing"
    /\ WriteAuditRow(c, TerminalStatus(c))
    /\ Return(c, pending[c])
    /\ UNCHANGED <<call, grants, ran, pending>>

(* The turn's task is cancelled while suspended at an await; an audit write *)
(* in flight has reached the database or not.                               *)
InFlight(c) ==
    CASE pc[c] = "rejecting" -> "rejected"
      [] pc[c] = "opening" -> "started"
      [] pc[c] = "closing" -> TerminalStatus(c)
      [] OTHER -> auditRow[c]

Cancel(c) ==
    /\ pc[c] \in {"rejecting", "opening", "running", "closing"}
    /\ pc' = [pc EXCEPT ![c] = "cancelled"]
    /\ auditRow' \in {auditRow, [auditRow EXCEPT ![c] = InFlight(c)]}
    /\ UNCHANGED <<call, grants, ran, outcome, dropped, pending>>
-----------------------------------------------------------------------------
Step(c) ==
    \/ RefuseInput(c) \/ RefuseRole(c) \/ AskApproval(c) \/ RefuseApproval(c)
    \/ WriteRejected(c) \/ Admit(c) \/ WriteStarted(c)
    \/ HandlerSucceeds(c) \/ HandlerRaises(c) \/ HandlerMisshapes(c)
    \/ WriteTerminal(c)

CallsNext == \E c \in Calls : Step(c) \/ Cancel(c)

CallsSpec == CallsInit /\ [][CallsNext]_callVars

(* The event loop keeps running a task that is ready; nothing makes a       *)
(* client disconnect.                                                       *)
FairSpec == CallsSpec /\ \A c \in Calls : WF_callVars(Step(c))
-----------------------------------------------------------------------------
(* Refinement mapping: a caller of invoke_tool sees what was asked, the     *)
(* handler's starts and the answer; pc, pending, auditRow and dropped are   *)
(* not part of the promise.                                                 *)
Abstract == INSTANCE GatedCalls WITH call <- call, grants <- grants,
                                     ran <- ran, outcome <- outcome

(* invoke_tool keeps the promise of GatedCalls whatever the audit sink and  *)
(* the client do: handlers of gated tools run only with the role and a      *)
(* recorded grant, at most once (twice with an output contract), and never  *)
(* after a refusal.                                                         *)
ImplementsGatedCalls == Abstract!Spec

(* The audit trail is truthful about side effects while no write is lost: a *)
(* handler never runs before its row exists, the row of an answered call    *)
(* has the matching terminal status, and a rejected row means nothing ran - *)
(* the last even when writes are lost.                                      *)
AuditTruthful ==
    \A c \in Calls :
        /\ auditRow[c] = "rejected" => ran[c] = 0
        /\ call[c].tool \in SideEffect /\ ~dropped[c] =>
              /\ ran[c] > 0 => auditRow[c] \in {"started", "succeeded", "failed"}
              /\ outcome[c] = "success" => auditRow[c] = "succeeded"
              /\ outcome[c] = "error" /\ ran[c] > 0 => auditRow[c] = "failed"

(* Every call whose client stays connected is answered.                     *)
CallsReturn == \A c \in Calls : <>(pc[c] \in {"returned", "cancelled"})

(* "Open an AuditEvent (STARTED), run the handler, close the event with     *)
(* SUCCEEDED / FAILED, and return the outcome" (tools.py:342): a row that   *)
(* was opened is eventually closed.  A disconnect cancels the turn inside   *)
(* the handler and leaves the row STARTED for good.                         *)
StartedAuditCloses ==
    \A c \in Calls :
        (auditRow[c] = "started" /\ ~dropped[c]) ~>
            (auditRow[c] \in {"succeeded", "failed"} \/ dropped[c])
=============================================================================
