----------------------------- MODULE AgentTurn -----------------------------
(***************************************************************************)
(* One user turn of the agent runtime: Orchestrator.run_turn, the tool-use  *)
(* loop run_agent_turn that it and the domain agents share, and the session *)
(* transcript they write (agent_runtime orchestrator.py, _agent_loop.py,    *)
(* domain_agents/).  Turns are tasks of one event loop; they share the      *)
(* in-memory Session.  Tool execution is ToolInvocation's subject: here a   *)
(* call only gets one of the Replies that ToolGate allows.                  *)
(***************************************************************************)
EXTENDS ToolGate, Sequences, SequencesExt

CONSTANTS
    Turns,          \* calls of run_turn, numbered as they come
    Sessions,       \* chat sessions held in memory
    SessionOf,      \* SessionOf[t]: the session turn t is sent to
    Limits          \* bound: the limits a behaviour may have, each with
                    \*   turns    the turns that are sent
                    \*   cut      those whose client may disconnect
                    \*   asked    the tools the model may ask for
                    \*   loops    MAX_TOOL_LOOPS
                    \*   rate     Len(RATE_LIMIT_BACKOFF_SECONDS)
                    \*   conn     Len(CONNECTION_BACKOFF_SECONDS)
                    \*   blocks   the most tool_use blocks of one model message

ASSUME AgentTurnAssumption ==
    /\ Turns \subseteq Nat /\ SessionOf \in [Turns -> Sessions]
    /\ \A l \in Limits : /\ l.turns \subseteq Turns /\ l.cut \subseteq Turns
                         /\ l.loops \in Nat \ {0} /\ l.blocks \in Nat \ {0}
                         /\ l.rate \in Nat /\ l.conn \in Nat

VARIABLES
    limits,    \* the limits of this behaviour, never changed
    history,   \* history[s]: Session.message_history
    asked,     \* approval ids sent to clients in APPROVAL_REQUEST events
    turn,      \* the state of each turn
    events,    \* events[t]: the AgentEvents turn t has yielded
    made       \* history variable: the messages t's loops appended, by agent
               \* (so is turn[t].met: the turns of the session t overlapped)

vars == <<limits, history, asked, turn, events, made>>

Agents == {"orchestrator", "domain"}

(* The transcript, abstracted to who wrote a message, its role and how many *)
(* tool_use blocks it holds or how many tool_results.                       *)
Msg(t, a, role, n) == [turn |-> t, agent |-> a, role |-> role, n |-> n]

(* An AgentEvent, with the loop and the stream attempt it comes from.       *)
Event(kind, r) == [kind |-> kind, agent |-> r.agent, loop |-> r.loop,
                   attempt |-> r.attempt]

PCs == {"idle", "gates", "stream", "dispatch", "invoke", "loop_done",
        "closing", "done", "raised", "cancelled"}

Decisions == {"granted", "denied"}

ApprovalIds == Turns \X Tools

Fresh == [pc |-> "idle", agent |-> "orchestrator", approvals |-> {},
          allowed |-> TRUE, working |-> <<>>, loop |-> 0, rate |-> 0,
          conn |-> 0, buffered |-> FALSE, attempt |-> 1, blocks |-> <<>>,
          results |-> 0, handoff |-> FALSE, errored |-> FALSE,
          paused |-> FALSE, unsaved |-> FALSE, met |-> {}]

(* What the model may ask of each agent: ORCHESTRATOR_TOOL_NAMES, with a    *)
(* handoff to a known or to an unknown domain, and the domain agents' own.  *)
ToolsOf(a) == IF a = "orchestrator" THEN {"handoff", "handoff_unknown", "clarify"}
              ELSE Tools

Active(t) == turn[t].pc \notin {"idle", "done", "raised", "cancelled"}

Emit(t, evs) == events' = [events EXCEPT ![t] = @ \o evs]

Quiet == UNCHANGED events

Init ==
    /\ limits \in Limits
    /\ history = [s \in Sessions |-> <<>>]
    /\ asked = {}
    /\ turn = [t \in Turns |-> Fresh]
    /\ events = [t \in Turns |-> <<>>]
    /\ made = [t \in Turns |-> [a \in Agents |-> <<>>]]
-----------------------------------------------------------------------------
(* POST .../messages reaches run_turn.  body.approvals carries the user's   *)
(* answers to earlier APPROVAL_REQUESTs of the session; the web client      *)
(* (useAgentStream) keeps one send in flight, the server does not insist.   *)
Answers(t) ==
    {S \in SUBSET ({id \in asked : SessionOf[id[1]] = SessionOf[t]} \X Decisions) :
        \A x, y \in S : x[1] = y[1] => x = y}

InProgress(s) == {u \in Turns : SessionOf[u] = s /\ Active(u)}

Start(t) ==
    LET others == InProgress(SessionOf[t]) IN
    /\ turn[t].pc = "idle" /\ t \in limits.turns
    /\ \A u \in limits.turns : u < t => turn[u].pc # "idle"
    /\ \E answers \in Answers(t), allowed \in BOOLEAN :
          turn' = [u \in Turns |->
                     IF u = t THEN [Fresh EXCEPT !.pc = "gates", !.approvals = answers,
                                                 !.allowed = allowed, !.met = others]
                     ELSE IF u \in others THEN [turn[u] EXCEPT !.met = @ \union {t}]
                     ELSE turn[u]]
    /\ UNCHANGED <<history, asked, events, made>>

(* Mutant of GateRefuses: it yields FINAL itself and falls through.         *)
GateRefusesTwice(t) ==
    /\ turn[t].pc = "gates"
    /\ turn' = [turn EXCEPT ![t].pc = "closing", ![t].errored = TRUE]
    /\ Emit(t, <<Event("error", turn[t]), Event("final", turn[t])>>)
    /\ UNCHANGED <<history, asked, made>>

(* Rate limit or daily budget: ERROR, then FINAL.                           *)
GateRefuses(t) ==
    /\ turn[t].pc = "gates"
    /\ turn' = [turn EXCEPT ![t].pc = "closing", ![t].errored = TRUE]
    /\ Emit(t, <<Event("error", turn[t])>>)
    /\ UNCHANGED <<history, asked, made>>

(* The total of the day cannot be read: only DailyBudgetExceededError is    *)
(* caught, and run_turn raises before it has yielded anything.              *)
GateRaises(t) ==
    /\ turn[t].pc = "gates"
    /\ turn' = [turn EXCEPT ![t].pc = "raised"]
    /\ Quiet
    /\ UNCHANGED <<history, asked, made>>

(* The user message goes on the transcript and the loop gets a copy.        *)
Accept(t) ==
    LET s == SessionOf[t]
        h == Append(history[s], Msg(t, "orchestrator", "user", 0))
    IN  /\ turn[t].pc = "gates"
        /\ history' = [history EXCEPT ![s] = h]
        /\ turn' = [turn EXCEPT ![t].pc = "stream", ![t].working = h]
        /\ Quiet
        /\ UNCHANGED <<asked, made>>
-----------------------------------------------------------------------------
(* Mutant of StreamDelta: the delta is yielded as it arrives.               *)
DeltaAtOnce(t) ==
    /\ turn[t].pc = "stream"
    /\ ~turn[t].buffered
    /\ turn' = [turn EXCEPT ![t].buffered = TRUE]
    /\ Emit(t, <<Event("delta", turn[t])>>)
    /\ UNCHANGED <<history, asked, made>>

(* run_agent_turn.  A text delta is buffered, not yielded.                  *)
StreamDelta(t) ==
    /\ turn[t].pc = "stream"
    /\ ~turn[t].buffered
    /\ turn' = [turn EXCEPT ![t].buffered = TRUE]
    /\ Quiet
    /\ UNCHANGED <<history, asked, made>>

(* The attempt failed.  Rate limits and connection errors are retried on    *)
(* their own schedules, everything else and an exhausted schedule is an     *)
(* ERROR event.  The attempt's buffer is dropped.                           *)
CanRetry(t, err) ==
    \/ err = "rate" /\ turn[t].rate < limits.rate
    \/ err = "conn" /\ turn[t].conn < limits.conn

(* Mutant of StreamRetries: the retries are not counted.                    *)
RetryUncounted(t, err) ==
    /\ turn[t].pc = "stream"
    /\ CanRetry(t, err)
    /\ turn' = [turn EXCEPT ![t].buffered = FALSE]
    /\ Quiet
    /\ UNCHANGED <<history, asked, made>>

StreamRetries(t, err) ==
    /\ turn[t].pc = "stream"
    /\ CanRetry(t, err)
    /\ turn' = [turn EXCEPT ![t].buffered = FALSE,
                            ![t].attempt = @ + 1,
                            ![t].rate = IF err = "rate" THEN @ + 1 ELSE @,
                            ![t].conn = IF err = "conn" THEN @ + 1 ELSE @]
    /\ Quiet
    /\ UNCHANGED <<history, asked, made>>

StreamFails(t, err) ==
    /\ turn[t].pc = "stream"
    /\ ~CanRetry(t, err)
    /\ turn' = [turn EXCEPT ![t].pc = "loop_done", ![t].errored = TRUE]
    /\ Emit(t, <<Event("error", turn[t])>>)
    /\ UNCHANGED <<history, asked, made>>

Flushed(t) == IF turn[t].buffered
              THEN <<Event("delta", turn[t])>> ELSE <<>>

(* Append a message to the loop's working copy.                             *)
Record(t, r, m) ==
    /\ turn' = [turn EXCEPT ![t] = [r EXCEPT !.working = Append(@, m)]]
    /\ made' = [made EXCEPT ![t][r.agent] = Append(@, m)]

(* The stream ended without a final message.                                *)
StreamDegenerate(t) ==
    /\ turn[t].pc = "stream"
    /\ Emit(t, Flushed(t))
    /\ turn' = [turn EXCEPT ![t].pc = "loop_done"]
    /\ UNCHANGED <<history, asked, made>>

(* stop_reason is not tool_use: the assistant message ends the loop, even   *)
(* when max_tokens cut it off inside a tool_use block (n = 1).              *)
StreamStops(t, n) ==
    /\ turn[t].pc = "stream"
    /\ Emit(t, Flushed(t))
    /\ Record(t, [turn[t] EXCEPT !.pc = "loop_done"],
              Msg(t, turn[t].agent, "assistant", n))
    /\ UNCHANGED <<history, asked>>

StreamToolUse(t, blocks) ==
    /\ turn[t].pc = "stream"
    /\ Emit(t, Flushed(t))
    /\ Record(t, [turn[t] EXCEPT !.pc = "dispatch", !.blocks = blocks, !.results = 0],
              Msg(t, turn[t].agent, "assistant", Len(blocks)))
    /\ UNCHANGED <<history, asked>>
-----------------------------------------------------------------------------
(* Dispatch of the tool_use blocks, in order.                               *)
UseTool(t) ==
    /\ turn[t].pc = "dispatch"
    /\ turn[t].blocks # <<>>
    /\ turn' = [turn EXCEPT ![t].pc = "invoke"]
    /\ Emit(t, <<Event("tool_use", turn[t])>>)
    /\ UNCHANGED <<history, asked, made>>

(* _on_tool_use: the orchestrator's own tools end its loop.  The message    *)
(* that answers them holds the results so far and "handled"; the blocks     *)
(* after the intercepted one are dropped.                                   *)
Intercept(t) ==
    LET b == Head(turn[t].blocks) IN
    /\ turn[t].pc = "invoke"
    /\ turn[t].agent = "orchestrator"
    /\ Emit(t, CASE b = "handoff" -> <<>>
                 [] b = "handoff_unknown" -> <<Event("error", turn[t])>>
                 [] b = "clarify" -> <<Event("delta", turn[t])>>)
    /\ Record(t, [turn[t] EXCEPT !.pc = "loop_done",
                                 !.blocks = <<>>,
                                 !.handoff = (b = "handoff"),
                                 !.errored = (b = "handoff_unknown")],
              Msg(t, "orchestrator", "results", turn[t].results + 1))
    /\ UNCHANGED <<history, asked>>

(* _approval_id_for: the id names this turn, minted afresh by run_turn.     *)
ApprovalId(t, tool) == <<t, tool>>

GrantFor(t, tool) ==
    IF \E d \in Decisions : <<ApprovalId(t, tool), d>> \in turn[t].approvals
    THEN CHOOSE d \in Decisions : <<ApprovalId(t, tool), d>> \in turn[t].approvals
    ELSE "none"

InvokeReply(t, valid) ==
    LET tool == Head(turn[t].blocks)
        call == [tool |-> tool, valid |-> valid, allowed |-> turn[t].allowed]
    IN  Replies(call, GrantFor(t, tool))

(* success, error and permission_denied: a TOOL_RESULT and the next block.  *)
ToolResult(t) ==
    /\ turn[t].pc = "invoke"
    /\ turn[t].agent = "domain"
    /\ \E valid \in BOOLEAN : InvokeReply(t, valid) # {"approval_needed"}
    /\ turn' = [turn EXCEPT ![t].pc = "dispatch",
                            ![t].blocks = Tail(@),
                            ![t].results = @ + 1]
    /\ Emit(t, <<Event("tool_result", turn[t])>>)
    /\ UNCHANGED <<history, asked, made>>

(* approval_needed: the event is yielded and both consumers stop there, the *)
(* domain agent by returning before it persists anything, the orchestrator  *)
(* by breaking out.  The loop never gets to its placeholder tool_result.    *)
ApprovalPause(t) ==
    /\ turn[t].pc = "invoke"
    /\ turn[t].agent = "domain"
    /\ "approval_needed" \in InvokeReply(t, TRUE)
    /\ asked' = asked \cup {ApprovalId(t, Head(turn[t].blocks))}
    /\ turn' = [turn EXCEPT ![t].pc = "closing", ![t].paused = TRUE,
                            ![t].unsaved = TRUE]
    /\ Emit(t, <<Event("approval_request", turn[t])>>)
    /\ UNCHANGED <<history, made>>

(* An exception escapes run_agent_turn.  The orchestrator's own loop is     *)
(* synced all the same; a domain agent's additions are lost with it.        *)
LoopRaises(t) ==
    LET domain == turn[t].agent = "domain" IN
    /\ turn[t].pc = "invoke"
    /\ turn' = [turn EXCEPT ![t].pc = IF domain THEN "closing" ELSE "loop_done",
                            ![t].unsaved = domain,
                            ![t].errored = TRUE]
    /\ Emit(t, <<Event("error", turn[t])>>)
    /\ UNCHANGED <<history, asked, made>>

(* Mutant of EndRound: only the last result is sent back.                   *)
EndRoundUnanswered(t) ==
    LET next == IF turn[t].loop + 1 < limits.loops THEN "stream" ELSE "loop_done" IN
    /\ turn[t].pc = "dispatch"
    /\ turn[t].blocks = <<>>
    /\ Record(t, [turn[t] EXCEPT !.pc = next, !.loop = @ + 1, !.rate = 0, !.conn = 0,
                                 !.buffered = FALSE, !.attempt = 1],
              Msg(t, turn[t].agent, "results", 1))
    /\ Quiet
    /\ UNCHANGED <<history, asked>>

(* All blocks answered: the results become one user message, and the loop   *)
(* goes round again unless it has used up MAX_TOOL_LOOPS.                   *)
EndRound(t) ==
    LET next == IF turn[t].loop + 1 < limits.loops THEN "stream" ELSE "loop_done" IN
    /\ turn[t].pc = "dispatch"
    /\ turn[t].blocks = <<>>
    /\ Record(t, [turn[t] EXCEPT !.pc = next, !.loop = @ + 1, !.rate = 0, !.conn = 0,
                                 !.buffered = FALSE, !.attempt = 1],
              Msg(t, turn[t].agent, "results", turn[t].results))
    /\ Quiet
    /\ UNCHANGED <<history, asked>>
-----------------------------------------------------------------------------
(* Mutant of Synced: the seed message is persisted with the rest.           *)
SyncKeepsSeed(h, working, skip) ==
    h \o SubSeq(working, Len(h) + 1, Len(working))

(* _sync_history: append what lies beyond the current length of history.    *)
Synced(h, working, skip) ==
    h \o SubSeq(working, Len(h) + skip + 1, Len(working))

(* The orchestrator's loop is over: sync, then hand off or finish.  The     *)
(* domain agent works on the history plus a seed message of its own.        *)
SyncOrchestrator(t) ==
    LET s == SessionOf[t]
        h == Synced(history[s], turn[t].working, 0)
    IN  /\ turn[t].pc = "loop_done"
        /\ turn[t].agent = "orchestrator"
        /\ history' = [history EXCEPT ![s] = h]
        /\ turn' = [turn EXCEPT ![t] =
              IF turn[t].handoff /\ ~turn[t].errored
              THEN [@ EXCEPT !.pc = "stream", !.agent = "domain", !.loop = 0,
                             !.working = Append(h, Msg(t, "domain", "user", 0)),
                             !.rate = 0, !.conn = 0, !.buffered = FALSE,
                             !.attempt = 1]
              ELSE [@ EXCEPT !.pc = "closing"]]
        /\ Quiet
        /\ UNCHANGED <<asked, made>>

(* The domain agent persists what it added beyond history and its seed.     *)
SyncDomain(t) ==
    LET s == SessionOf[t] IN
    /\ turn[t].pc = "loop_done"
    /\ turn[t].agent = "domain"
    /\ history' = [history EXCEPT ![s] = Synced(@, turn[t].working, 1)]
    /\ turn' = [turn EXCEPT ![t].pc = "closing"]
    /\ Quiet
    /\ UNCHANGED <<asked, made>>

Finish(t) ==
    /\ turn[t].pc = "closing"
    /\ turn' = [turn EXCEPT ![t].pc = "done"]
    /\ Emit(t, <<Event("final", turn[t])>>)
    /\ UNCHANGED <<history, asked, made>>

(* The client disconnects and with_heartbeats cancels the task.             *)
Cancel(t) ==
    /\ Active(t) /\ t \in limits.cut
    /\ turn' = [turn EXCEPT ![t].pc = "cancelled"]
    /\ Quiet
    /\ UNCHANGED <<history, asked, made>>
-----------------------------------------------------------------------------
BlockSeqs(t) ==
    UNION {[1..n -> ToolsOf(turn[t].agent) \cap limits.asked] : n \in 1..limits.blocks}

Progress(t) ==
    \/ GateRefuses(t) \/ GateRaises(t) \/ Accept(t)
    \/ StreamDelta(t)
    \/ \E err \in {"rate", "conn", "permanent"} : StreamRetries(t, err) \/ StreamFails(t, err)
    \/ StreamDegenerate(t) \/ \E n \in 0..1 : StreamStops(t, n)
    \/ \E blocks \in BlockSeqs(t) : StreamToolUse(t, blocks)
    \/ UseTool(t) \/ Intercept(t) \/ ToolResult(t) \/ ApprovalPause(t) \/ LoopRaises(t)
    \/ EndRound(t)
    \/ SyncOrchestrator(t) \/ SyncDomain(t) \/ Finish(t)

Step(t) == Progress(t) /\ UNCHANGED limits

Next == \E t \in Turns : Step(t) \/ ((Start(t) \/ Cancel(t)) /\ UNCHANGED limits)

(* The event loop runs every ready task; users and clients are free.        *)
Spec == Init /\ [][Next]_vars /\ \A t \in Turns : WF_vars(Step(t))
-----------------------------------------------------------------------------
Kinds == {"delta", "tool_use", "tool_result", "approval_request", "error", "final"}

Message == [turn: Turns, agent: Agents, role: {"user", "assistant", "results"},
            n: 0..limits.blocks]

AgentEvent == [kind: Kinds, agent: Agents, loop: 0..limits.loops,
           attempt: 1..(limits.rate + limits.conn + 1)]

(* The shape of the state: retry and round counters stay within the bounds  *)
(* of run_agent_turn, transcripts and event logs hold only what it writes.  *)
TypeOK ==
    /\ \A s \in Sessions : history[s] \in Seq(Message)
    /\ asked \subseteq ApprovalIds
    /\ \A t \in Turns :
          /\ turn[t].pc \in PCs
          /\ turn[t].agent \in Agents
          /\ turn[t].approvals \subseteq ApprovalIds \X Decisions
          /\ turn[t].working \in Seq(Message)
          /\ turn[t].rate \in 0..limits.rate
          /\ turn[t].conn \in 0..limits.conn
          /\ turn[t].results \in 0..limits.blocks
          /\ turn[t].met \subseteq Turns
          /\ events[t] \in Seq(AgentEvent)

(* run_turn "always ends with one FINAL event" (orchestrator.py:111):       *)
(* a finished turn's only FINAL is its last event, whichever of the refusal,*)
(* error, pause, handoff and answer paths it took.  The one way out without *)
(* it, a budget that cannot be read, comes before any event.                *)
OneFinalLast ==
    \A t \in Turns :
        /\ {i \in DOMAIN events[t] : events[t][i].kind = "final"} =
              IF turn[t].pc = "done" THEN {Len(events[t])} ELSE {}
        /\ turn[t].pc = "raised" => events[t] = <<>>

(* The docstring without that exception: no turn ends without a FINAL.      *)
(* enforce_daily_budget lets every error of the database through.           *)
AlwaysEndsWithFinal == \A t \in Turns : turn[t].pc # "raised"

(* A retry after a mid-stream failure repeats no text: all deltas a client  *)
(* sees from one round of an agent come from the same attempt               *)
(* (_agent_loop.py:201, the per-attempt buffer).                            *)
NoRepeatedDeltas ==
    \A t \in Turns : \A i, j \in DOMAIN events[t] :
        LET e == events[t][i]
            f == events[t][j]
        IN  /\ e.kind = "delta" /\ f.kind = "delta"
            /\ e.agent = f.agent /\ e.loop = f.loop
            => e.attempt = f.attempt

OfTurn(t) == SelectSeq(history[SessionOf[t]], LAMBDA m : m.turn = t)

(* What turn t leaves on the transcript: its user message and everything    *)
(* its loops appended, in order.  (A domain agent that pauses for an        *)
(* approval or raises persists nothing.)                                    *)
OwnTranscript(t) ==
    <<Msg(t, "orchestrator", "user", 0)>>
    \o made[t]["orchestrator"]
    \o (IF turn[t].unsaved THEN <<>> ELSE made[t]["domain"])

(* _sync_history and the domain agents "mirror any freshly-appended         *)
(* messages": a finished turn's messages on the session transcript are all  *)
(* it appended, once and in order.                                          *)
TranscriptKept ==
    \A t \in Turns :
        turn[t].pc = "done" /\ turn[t].working # <<>> => OfTurn(t) = OwnTranscript(t)

(* The messages of turn t on transcript h are ms, from place k + 1 on with  *)
(* none of another turn among them.                                         *)
HeldFrom(h, t, ms, k) ==
    /\ k + Len(ms) <= Len(h)
    /\ \A i \in 1..Len(ms) : h[k + i] = ms[i]
    /\ \A i \in 1..Len(h) : h[i].turn = t => i \in (k + 1)..(k + Len(ms))

HeldTogether(h, t, ms) == \E k \in 0..Len(h) : HeldFrom(h, t, ms, k)

(* A turn that never shared its session with another one in progress finds  *)
(* all it appended on the transcript once, in order and in one piece,       *)
(* whatever came before it or will come after.                              *)
AloneTranscriptKept ==
    \A t \in Turns :
        turn[t].pc = "done" /\ turn[t].working # <<>> /\ turn[t].met = {} =>
            HeldTogether(history[SessionOf[t]], t, OwnTranscript(t))

Answered(h, i) ==
    /\ i < Len(h)
    /\ h[i + 1] = Msg(h[i].turn, h[i].agent, "results", h[i].n)

AsksTools(m) == m.role = "assistant" /\ m.n > 0

(* Inside a loop every tool_use of a message is answered by the message     *)
(* right after it; only the message that ended its loop can be cut short.   *)
MidLoopAnswered ==
    \A s \in Sessions : \A i \in DOMAIN history[s] :
        LET h == history[s] IN
        AsksTools(h[i]) =>
            \/ Answered(h, i)
            \/ \A j \in (i + 1)..Len(h) :
                  ~(/\ h[j].role = "assistant"
                    /\ h[j].turn = h[i].turn
                    /\ h[j].agent = h[i].agent)

(* Retries and rounds are bounded, so a turn whose client stays ends.       *)
TurnsEnd ==
    \A t \in Turns :
        turn[t].pc = "gates" ~> turn[t].pc \in {"done", "raised", "cancelled"}

(* "approvals resumes a previously paused turn - the keys are approval ids  *)
(* emitted on the earlier APPROVAL_REQUEST events" (orchestrator.py:113):   *)
(* a turn sent with the grant for the tool an earlier turn paused on does   *)
(* not pause on that tool again.  But ids name the turn, and every run_turn *)
(* mints a new one, so the grant is never found.                            *)
GrantResumes ==
    \A t \in Turns : turn[t].paused =>
        \A u \in Turns :
            <<ApprovalId(u, Head(turn[t].blocks)), "granted">> \notin turn[t].approvals

(* "Record a placeholder tool_result so the transcript stays well-formed    *)
(* when the turn resumes in a follow-up" (_agent_loop.py:371): the call a   *)
(* finished turn paused on is in the transcript.  Both consumers stop at    *)
(* the event, so neither the call nor its placeholder is ever recorded.     *)
PauseRecorded ==
    \A t \in Turns : turn[t].pc = "done" /\ turn[t].paused =>
        \E i \in DOMAIN OfTurn(t) : OfTurn(t)[i].agent = "domain"

(* The same comment's promise for the rest: every tool_use in a transcript  *)
(* is answered.  A handoff or clarify next to another block, or a message   *)
(* cut off by max_tokens, leaves tool_use blocks without tool_result.       *)
ToolUsesAnswered ==
    \A s \in Sessions : \A i \in DOMAIN history[s] :
        AsksTools(history[s][i]) => Answered(history[s], i)
=============================================================================
