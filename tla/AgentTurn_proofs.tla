-------------------------- MODULE AgentTurn_proofs --------------------------
(***************************************************************************)
(* Proofs about a turn of the agent: what its client sees (one FINAL, at   *)
(* the end; no text twice) and what the transcript keeps (every tool_use   *)
(* inside a loop is answered, and a turn alone in its session finds all it *)
(* appended), for all turns, sessions, limits and tools, and however turns *)
(* of a session overlap.                                                   *)
(***************************************************************************)
EXTENDS AgentTurn, TLAPS, SequenceTheorems

Looping == {"stream", "dispatch", "invoke", "loop_done"}
Dispatching == {"dispatch", "invoke"}
Over == {"closing", "done", "raised", "cancelled"}

TurnRow ==
    [pc: PCs, agent: Agents, approvals: SUBSET (ApprovalIds \X Decisions), allowed: BOOLEAN,
     working: Seq(Message), loop: 0..limits.loops, rate: 0..limits.rate, conn: 0..limits.conn,
     buffered: BOOLEAN, attempt: Nat, blocks: Seq(ToolsOf("orchestrator") \cup ToolsOf("domain")),
     results: 0..limits.blocks, handoff: BOOLEAN, errored: BOOLEAN, paused: BOOLEAN,
     unsaved: BOOLEAN, met: SUBSET Turns]

Shape ==
    /\ limits \in Limits
    /\ history \in [Sessions -> Seq(Message)]
    /\ asked \subseteq ApprovalIds
    /\ turn \in [Turns -> TurnRow]
    /\ events \in [Turns -> Seq(AgentEvent)]
    /\ made \in [Turns -> [Agents -> Seq(Message)]]

-----------------------------------------------------------------------------
(* The parts of the inductive invariant, for a turn with row r, events es  *)
(* and messages m.                                                         *)

(* Every retry is counted as an attempt of its round, and a loop that goes *)
(* on has rounds left.                                                     *)
Counted(l, r) ==
    /\ r.attempt = r.rate + r.conn + 1
    /\ r.pc \in {"stream", "dispatch", "invoke"} => r.loop < l.loops
    /\ r.pc \in {"idle", "gates"} => r.agent = "orchestrator" /\ r.loop = 0

(* FINAL is the last event of a turn that is done, and nothing is sent     *)
(* before the gates.                                                       *)
FinalOK(r, es) ==
    /\ \A i \in DOMAIN es : es[i].kind = "final" => r.pc = "done" /\ i = Len(es)
    /\ r.pc = "done" => es # <<>> /\ es[Len(es)].kind = "final"
    /\ r.pc \in {"idle", "gates", "raised"} => es = <<>>

(* The text sent so far is of earlier rounds, or of this one's attempt     *)
(* once its stream is over.                                                *)
DeltasPast(r, es) ==
    \A i \in DOMAIN es : es[i].kind = "delta" =>
        /\ r.pc \notin {"idle", "gates"}
        /\ r.agent = "orchestrator" => es[i].agent = "orchestrator"
        /\ es[i].agent = r.agent =>
              /\ es[i].loop <= r.loop
              /\ es[i].loop = r.loop => r.pc # "stream" /\ es[i].attempt = r.attempt

OneAttempt(es) ==
    \A i, j \in DOMAIN es :
        /\ es[i].kind = "delta" /\ es[j].kind = "delta"
        /\ es[i].agent = es[j].agent /\ es[i].loop = es[j].loop
        => es[i].attempt = es[j].attempt

EventsOK(r, es) == FinalOK(r, es) /\ DeltasPast(r, es) /\ OneAttempt(es)

(* Of the first k messages of a loop each that asks for tools is answered  *)
(* by the next.                                                            *)
AnsweredTo(ms, k) == \A i \in 1..k : AsksTools(ms[i]) => Answered(ms, i)

(* A message that asks for tools is answered by the next, or ended its     *)
(* loop.                                                                   *)
LastOrAnswered(ms) ==
    \A i \in DOMAIN ms : AsksTools(ms[i]) =>
        Answered(ms, i) \/ \A j \in (i + 1)..Len(ms) : ms[j].role # "assistant"

OwnMessages(t, a, ms) ==
    \A i \in DOMAIN ms : ms[i].turn = t /\ ms[i].agent = a /\ ms[i].role # "user"

(* While blocks are dispatched the loop's last message asked for those     *)
(* answered so far and those still to come.                                *)
BlocksOK(r, ms) ==
    r.pc \in Dispatching =>
        /\ \A i \in DOMAIN r.blocks : r.blocks[i] \in ToolsOf(r.agent)
        /\ r.pc = "invoke" => r.blocks # <<>>
        /\ ms # <<>> /\ ms[Len(ms)].role = "assistant"
        /\ ms[Len(ms)].n = r.results + Len(r.blocks)
        /\ AnsweredTo(ms, Len(ms) - 1)

MessagesOK(t, r, m) ==
    /\ \A a \in Agents : OwnMessages(t, a, m[a]) /\ LastOrAnswered(m[a])
    /\ r.pc \in {"idle", "gates"} => m["orchestrator"] = <<>>
    /\ r.agent = "orchestrator" => m["domain"] = <<>>
    /\ r.pc = "stream" => AnsweredTo(m[r.agent], Len(m[r.agent]))
    /\ BlocksOK(r, m[r.agent])

(* The working copy ends with the loop's own messages; what comes before,  *)
(* a domain agent's seed apart, is not longer than the transcript is now.  *)
WorkingOK(r, ms, n) ==
    r.pc \in Looping =>
        \E b \in Nat : /\ Len(r.working) = b + Len(ms)
                       /\ b <= n + (IF r.agent = "domain" THEN 1 ELSE 0)
                       /\ \A i \in DOMAIN ms : r.working[b + i] = ms[i]

TurnOK(l, t, r, es, m, n) ==
    Counted(l, r) /\ EventsOK(r, es) /\ MessagesOK(t, r, m) /\ WorkingOK(r, m[r.agent], n)

(* An agent of a turn has persisted its messages, or never will.           *)
Persisted(r, a) == IF a = r.agent THEN r.pc \in Over ELSE r.agent = "domain"

PersistedOnce ==
    \A s \in Sessions : \A i \in DOMAIN history[s] :
        history[s][i].role = "assistant" =>
            Persisted(turn[history[s][i].turn], history[s][i].agent)

TurnsInv ==
    /\ Shape
    /\ \A t \in Turns :
          TurnOK(limits, t, turn[t], events[t], made[t], Len(history[SessionOf[t]]))
    /\ PersistedOnce
    /\ MidLoopAnswered

-----------------------------------------------------------------------------
(* What a turn yields.                                                     *)

(* An event of the turn's round that is no FINAL, text only once the       *)
(* stream is over.                                                         *)
LEMMA EmitOne ==
  ASSUME NEW E, NEW es \in Seq(E), NEW e \in E, NEW r, NEW q,
         EventsOK(r, es), r.pc \notin {"idle", "done", "raised", "cancelled"}, r.loop \in Int,
         q.agent = r.agent, q.loop = r.loop, q.attempt = r.attempt,
         q.pc \notin {"idle", "gates", "done", "raised", "stream"},
         e.kind # "final", e.agent = r.agent, e.loop = r.loop, e.attempt = r.attempt,
         e.kind = "delta" /\ r.agent = "orchestrator" => e.agent = "orchestrator"
  PROVE  EventsOK(q, es \o <<e>>)
  <1>1. PICK fs : fs = es \o <<e>>
    OBVIOUS
  <1>2. Len(es) \in Nat /\ DOMAIN es = 1..Len(es)
    BY LenProperties
  <1>3. fs = Append(es, e)
    BY <1>1, AppendIsConcat
  <1>4. /\ fs \in Seq(E) /\ Len(fs) = Len(es) + 1
        /\ \A i \in 1..Len(es) : fs[i] = es[i]
        /\ fs[Len(es) + 1] = e
    BY <1>3, AppendProperties
  <1>5. DOMAIN fs = 1..Len(fs)
    BY <1>4, LenProperties
  <1>6. \A i \in DOMAIN fs : (i \in DOMAIN es /\ fs[i] = es[i]) \/ fs[i] = e
    BY <1>2, <1>4, <1>5
  <1>7. FinalOK(q, fs)
    BY <1>6 DEF EventsOK, FinalOK
  <1>8. DeltasPast(q, fs)
    BY <1>6 DEF EventsOK, DeltasPast
  <1>9. OneAttempt(fs)
    BY <1>6 DEF EventsOK, OneAttempt, DeltasPast
  <1> QED BY <1>1, <1>7, <1>8, <1>9 DEF EventsOK

(* FINAL closes a turn.                                                    *)
LEMMA EmitFinal ==
  ASSUME NEW E, NEW es \in Seq(E), NEW e \in E, NEW r, NEW q,
         EventsOK(r, es), r.pc = "closing", q.pc = "done",
         q.agent = r.agent, q.loop = r.loop, q.attempt = r.attempt, e.kind = "final"
  PROVE  EventsOK(q, es \o <<e>>)
  <1>1. PICK fs : fs = es \o <<e>>
    OBVIOUS
  <1>2. Len(es) \in Nat /\ DOMAIN es = 1..Len(es)
    BY LenProperties
  <1>3. fs = Append(es, e)
    BY <1>1, AppendIsConcat
  <1>4. /\ fs \in Seq(E) /\ Len(fs) = Len(es) + 1 /\ fs # <<>>
        /\ \A i \in 1..Len(es) : fs[i] = es[i]
        /\ fs[Len(es) + 1] = e
    BY <1>3, AppendProperties
  <1>5. DOMAIN fs = 1..Len(fs)
    BY <1>4, LenProperties
  <1>6. \A i \in DOMAIN fs : (i \in DOMAIN es /\ fs[i] = es[i]) \/ (i = Len(fs) /\ fs[i] = e)
    BY <1>2, <1>4, <1>5
  <1>7. FinalOK(q, fs)
    BY <1>4, <1>6 DEF EventsOK, FinalOK
  <1>8. DeltasPast(q, fs)
    BY <1>6 DEF EventsOK, DeltasPast
  <1>9. OneAttempt(fs)
    BY <1>6 DEF EventsOK, OneAttempt
  <1> QED BY <1>1, <1>7, <1>8, <1>9 DEF EventsOK

(* A move within the round that yields nothing.                            *)
LEMMA SameRound ==
  ASSUME NEW r, NEW q, NEW es,
         EventsOK(r, es), r.pc \notin {"done"}, q.pc \notin {"done"},
         q.pc \in {"idle", "gates", "raised"} => r.pc \in {"idle", "gates"},
         q.pc = "stream" => r.pc \in {"idle", "gates", "stream"},
         q.agent = r.agent, q.loop = r.loop,
         q.attempt = r.attempt \/ r.pc = "stream"
  PROVE  EventsOK(q, es)
  BY DEF EventsOK, FinalOK, DeltasPast

(* The next round of a loop.                                               *)
LEMMA NextRound ==
  ASSUME NEW r, NEW q, NEW es, NEW E, es \in Seq(E), \A e \in E : e.loop \in Int,
         EventsOK(r, es), r.pc = "dispatch", q.pc \in {"stream", "loop_done"},
         r.loop \in Int, q.agent = r.agent, q.loop = r.loop + 1
  PROVE  EventsOK(q, es)
  <1>1. DOMAIN es = 1..Len(es) /\ \A i \in DOMAIN es : es[i].loop \in Int
    BY LenProperties, ElementOfSeq
  <1> QED BY <1>1 DEF EventsOK, FinalOK, DeltasPast

(* The domain agent has sent no text yet.                                  *)
LEMMA HandedOff ==
  ASSUME NEW r, NEW q, NEW es,
         EventsOK(r, es), r.pc = "loop_done", q.pc = "stream",
         r.agent = "orchestrator", q.agent = "domain"
  PROVE  EventsOK(q, es)
  BY DEF EventsOK, FinalOK, DeltasPast

-----------------------------------------------------------------------------
(* The messages of a loop.                                                 *)

LEMMA Appended ==
  ASSUME NEW M, NEW ms \in Seq(M), NEW x \in M
  PROVE  /\ Append(ms, x) \in Seq(M) /\ Len(Append(ms, x)) = Len(ms) + 1
         /\ Len(ms) \in Nat /\ DOMAIN ms = 1..Len(ms)
         /\ DOMAIN Append(ms, x) = 1..(Len(ms) + 1)
         /\ \A i \in 1..Len(ms) : Append(ms, x)[i] = ms[i]
         /\ Append(ms, x)[Len(ms) + 1] = x
  BY AppendProperties, LenProperties

(* An answer stays one when messages are added.                            *)
LEMMA AnswerStays ==
  ASSUME NEW M, NEW ms \in Seq(M), NEW x \in M, NEW i \in 1..Len(ms), Answered(ms, i)
  PROVE  Answered(Append(ms, x), i)
  <1>1. i < Len(ms) /\ i + 1 \in 1..Len(ms) /\ i < Len(Append(ms, x))
    BY Appended DEF Answered
  <1>2. Append(ms, x)[i] = ms[i] /\ Append(ms, x)[i + 1] = ms[i + 1]
    BY <1>1, Appended
  <1> QED BY <1>1, <1>2 DEF Answered

(* An assistant message after a loop in which all is answered.             *)
LEMMA AppendAssistant ==
  ASSUME NEW M, NEW ms \in Seq(M), NEW t, NEW a, NEW x \in M,
         OwnMessages(t, a, ms), AnsweredTo(ms, Len(ms)),
         x.turn = t, x.agent = a, x.role = "assistant"
  PROVE  /\ OwnMessages(t, a, Append(ms, x)) /\ LastOrAnswered(Append(ms, x))
         /\ AnsweredTo(Append(ms, x), Len(Append(ms, x)) - 1)
  <1>1. PICK ns : ns = Append(ms, x)
    OBVIOUS
  <1>2. /\ Len(ns) = Len(ms) + 1 /\ Len(ms) \in Nat /\ DOMAIN ms = 1..Len(ms)
        /\ DOMAIN ns = 1..(Len(ms) + 1)
        /\ \A i \in 1..Len(ms) : ns[i] = ms[i]
        /\ ns[Len(ms) + 1] = x
    BY <1>1, Appended
  <1>3. OwnMessages(t, a, ns)
    BY <1>2 DEF OwnMessages
  <1>4. AnsweredTo(ns, Len(ns) - 1)
    <2> SUFFICES ASSUME NEW i \in 1..(Len(ns) - 1), AsksTools(ns[i]) PROVE Answered(ns, i)
      BY DEF AnsweredTo
    <2>1. i \in 1..Len(ms) /\ AsksTools(ms[i])
      BY <1>2
    <2>2. Answered(ms, i)
      BY <2>1 DEF AnsweredTo
    <2> QED BY <1>1, <2>1, <2>2, AnswerStays
  <1>5. LastOrAnswered(ns)
    <2> SUFFICES ASSUME NEW i \in DOMAIN ns, AsksTools(ns[i])
                 PROVE  Answered(ns, i) \/ \A j \in (i + 1)..Len(ns) : ns[j].role # "assistant"
      BY DEF LastOrAnswered
    <2>1. CASE i \in 1..(Len(ns) - 1)
      BY <1>4, <2>1 DEF AnsweredTo
    <2>2. CASE i = Len(ns)
      BY <1>2, <2>2
    <2> QED BY <1>2, <2>1, <2>2
  <1> QED BY <1>1, <1>3, <1>4, <1>5

(* The results that follow a message: its answer if they are complete.     *)
LEMMA AppendResults ==
  ASSUME NEW M, NEW ms \in Seq(M), NEW t, NEW a, NEW x \in M,
         OwnMessages(t, a, ms), ms # <<>>, AnsweredTo(ms, Len(ms) - 1),
         x.turn = t, x.agent = a, x.role = "results"
  PROVE  /\ OwnMessages(t, a, Append(ms, x)) /\ LastOrAnswered(Append(ms, x))
         /\ x = Msg(t, a, "results", ms[Len(ms)].n) =>
               AnsweredTo(Append(ms, x), Len(Append(ms, x)))
  <1>1. PICK ns : ns = Append(ms, x)
    OBVIOUS
  <1>2. /\ Len(ns) = Len(ms) + 1 /\ Len(ms) \in Nat /\ DOMAIN ms = 1..Len(ms)
        /\ DOMAIN ns = 1..(Len(ms) + 1)
        /\ \A i \in 1..Len(ms) : ns[i] = ms[i]
        /\ ns[Len(ms) + 1] = x
    BY <1>1, Appended
  <1>3. Len(ms) \in 1..Len(ms)
    <2>1. Len(ms) \in Nat \ {0}
      BY EmptySeq
    <2> QED BY <2>1
  <1>4. OwnMessages(t, a, ns)
    BY <1>2 DEF OwnMessages
  <1>5. ASSUME NEW i \in 1..(Len(ms) - 1), AsksTools(ns[i]) PROVE Answered(ns, i)
    <2>1. i \in 1..Len(ms) /\ AsksTools(ms[i])
      BY <1>2, <1>5
    <2>2. Answered(ms, i)
      BY <2>1 DEF AnsweredTo
    <2> QED BY <1>1, <2>1, <2>2, AnswerStays
  <1>6. ~AsksTools(ns[Len(ms) + 1])
    BY <1>2 DEF AsksTools
  <1>7. \A i \in 1..(Len(ms) + 1) : i \in 1..(Len(ms) - 1) \/ i = Len(ms) \/ i = Len(ms) + 1
    <2>1. Len(ms) \in Nat
      BY <1>2
    <2> QED BY <2>1
  <1>8. LastOrAnswered(ns)
    <2> SUFFICES ASSUME NEW i \in DOMAIN ns, AsksTools(ns[i])
                 PROVE  Answered(ns, i) \/ \A j \in (i + 1)..Len(ns) : ns[j].role # "assistant"
      BY DEF LastOrAnswered
    <2>1. CASE i = Len(ms)
      <3>1. \A j \in (i + 1)..Len(ns) : j = Len(ms) + 1
        BY <1>2, <2>1
      <3> QED BY <1>2, <3>1
    <2> QED BY <1>2, <1>5, <1>6, <1>7, <2>1
  <1>9. ASSUME x = Msg(t, a, "results", ms[Len(ms)].n) PROVE AnsweredTo(ns, Len(ns))
    <2>1. Answered(ns, Len(ms))
      <3>1. ns[Len(ms)] = ms[Len(ms)] /\ ns[Len(ms)].turn = t /\ ns[Len(ms)].agent = a
        BY <1>2, <1>3 DEF OwnMessages
      <3> QED BY <1>2, <1>9, <3>1 DEF Answered
    <2> QED BY <1>2, <1>5, <1>6, <1>7, <2>1 DEF AnsweredTo
  <1> QED BY <1>1, <1>4, <1>8, <1>9

(* The working copy grows with the loop's messages.                        *)
LEMMA WorkingGrows ==
  ASSUME NEW M, NEW r, NEW q, NEW ms \in Seq(M), NEW x \in M, NEW n \in Nat,
         r.working \in Seq(M), WorkingOK(r, ms, n), r.pc \in Looping,
         q.agent = r.agent, q.working = Append(r.working, x)
  PROVE  WorkingOK(q, Append(ms, x), n)
  <1>1. PICK b \in Nat : /\ Len(r.working) = b + Len(ms)
                         /\ b <= n + (IF r.agent = "domain" THEN 1 ELSE 0)
                         /\ \A i \in DOMAIN ms : r.working[b + i] = ms[i]
    BY DEF WorkingOK
  <1>2. /\ Len(ms) \in Nat /\ DOMAIN ms = 1..Len(ms)
        /\ Len(Append(ms, x)) = Len(ms) + 1 /\ DOMAIN Append(ms, x) = 1..(Len(ms) + 1)
        /\ \A i \in 1..Len(ms) : Append(ms, x)[i] = ms[i]
        /\ Append(ms, x)[Len(ms) + 1] = x
    BY Appended
  <1>3. /\ Len(q.working) = b + Len(ms) + 1
        /\ \A i \in 1..(b + Len(ms)) : q.working[i] = r.working[i]
        /\ q.working[b + Len(ms) + 1] = x
    <2>1. PICK w : w = r.working
      OBVIOUS
    <2>2. w \in Seq(M) /\ Len(w) = b + Len(ms) /\ q.working = Append(w, x)
      BY <1>1, <2>1
    <2>3. /\ Len(Append(w, x)) = Len(w) + 1 /\ Append(w, x)[Len(w) + 1] = x
          /\ \A i \in 1..Len(w) : Append(w, x)[i] = w[i]
      BY <2>2, Appended
    <2>4. \A i \in 1..(b + Len(ms)) : q.working[i] = r.working[i]
      BY <2>1, <2>2, <2>3
    <2>5. Len(q.working) = b + Len(ms) + 1 /\ q.working[b + Len(ms) + 1] = x
      BY <1>2, <2>2, <2>3
    <2> QED BY <2>4, <2>5
  <1>4. \A i \in DOMAIN Append(ms, x) : q.working[b + i] = Append(ms, x)[i]
    <2> SUFFICES ASSUME NEW i \in 1..(Len(ms) + 1) PROVE q.working[b + i] = Append(ms, x)[i]
      BY <1>2
    <2>1. CASE i = Len(ms) + 1
      BY <1>2, <1>3, <2>1
    <2>2. CASE i \in 1..Len(ms)
      <3>1. b + i \in 1..(b + Len(ms))
        BY <1>2, <2>2
      <3> QED BY <1>1, <1>2, <1>3, <2>2, <3>1
    <2>3. i = Len(ms) + 1 \/ i \in 1..Len(ms)
      <3>1. Len(ms) \in Nat
        BY <1>2
      <3> QED BY <3>1
    <2> QED BY <2>1, <2>2, <2>3
  <1>5. Len(q.working) = b + Len(Append(ms, x))
    BY <1>2, <1>3
  <1> QED BY <1>1, <1>4, <1>5 DEF WorkingOK

-----------------------------------------------------------------------------
(* How a step of one turn keeps the invariant.                             *)

(* The limits are numbers.                                                 *)
LEMMA LimitsTyped ==
  ASSUME limits \in Limits
  PROVE  /\ limits.loops \in Nat \ {0} /\ limits.blocks \in Nat \ {0}
         /\ limits.rate \in Nat /\ limits.conn \in Nat
  BY AgentTurnAssumption

(* A row of the invariant, with what is known of it.                       *)
LEMMA RowFacts ==
  ASSUME TurnsInv, NEW t \in Turns
  PROVE  /\ turn[t] \in TurnRow /\ events[t] \in Seq(AgentEvent)
         /\ made[t] \in [Agents -> Seq(Message)]
         /\ SessionOf[t] \in Sessions
         /\ history[SessionOf[t]] \in Seq(Message)
         /\ TurnOK(limits, t, turn[t], events[t], made[t], Len(history[SessionOf[t]]))
  BY AgentTurnAssumption DEF TurnsInv, Shape

(* Messages and events keep their types while the limits stay.             *)
LEMMA TypesStay ==
  ASSUME limits' = limits
  PROVE  Message' = Message /\ AgentEvent' = AgentEvent /\ TurnRow' = TurnRow
  BY DEF Message, AgentEvent, TurnRow

LEMMA WorkingMonotone ==
  ASSUME NEW r, NEW ms, NEW n \in Nat, NEW k \in Nat, n <= k, WorkingOK(r, ms, n)
  PROVE  WorkingOK(r, ms, k)
  <1> SUFFICES ASSUME r.pc \in Looping
               PROVE  \E b \in Nat : /\ Len(r.working) = b + Len(ms)
                                     /\ b <= k + (IF r.agent = "domain" THEN 1 ELSE 0)
                                     /\ \A i \in DOMAIN ms : r.working[b + i] = ms[i]
    BY DEF WorkingOK
  <1>1. PICK b \in Nat : /\ Len(r.working) = b + Len(ms)
                         /\ b <= n + (IF r.agent = "domain" THEN 1 ELSE 0)
                         /\ \A i \in DOMAIN ms : r.working[b + i] = ms[i]
    BY DEF WorkingOK
  <1>2. b <= k + (IF r.agent = "domain" THEN 1 ELSE 0)
    BY <1>1
  <1> QED BY <1>1, <1>2

LEMMA TurnMoves ==
  ASSUME TurnsInv, NEW t \in Turns, NEW q \in TurnRow, NEW es \in Seq(AgentEvent),
         NEW m \in [Agents -> Seq(Message)],
         limits' = limits, asked' \subseteq ApprovalIds,
         history' \in [Sessions -> Seq(Message)],
         \A s \in Sessions : Len(history[s]) <= Len(history'[s]),
         turn' = [turn EXCEPT ![t] = q], events' = [events EXCEPT ![t] = es],
         made' = [made EXCEPT ![t] = m],
         TurnOK(limits, t, q, es, m, Len(history'[SessionOf[t]])),
         PersistedOnce', MidLoopAnswered'
  PROVE  TurnsInv'
  <1>1. Shape'
    <2>1. /\ turn' \in [Turns -> TurnRow] /\ events' \in [Turns -> Seq(AgentEvent)]
          /\ made' \in [Turns -> [Agents -> Seq(Message)]] /\ limits \in Limits
      BY DEF TurnsInv, Shape
    <2> QED BY <2>1, TypesStay DEF Shape
  <1>2. ASSUME NEW u \in Turns
        PROVE  TurnOK(limits, u, turn'[u], events'[u], made'[u], Len(history'[SessionOf[u]]))
    <2>1. CASE u = t
      BY <2>1 DEF TurnsInv, Shape
    <2>2. CASE u # t
      <3>1. turn'[u] = turn[u] /\ events'[u] = events[u] /\ made'[u] = made[u]
        BY <2>2 DEF TurnsInv, Shape
      <3>2. /\ Len(history[SessionOf[u]]) \in Nat /\ Len(history'[SessionOf[u]]) \in Nat
            /\ Len(history[SessionOf[u]]) <= Len(history'[SessionOf[u]])
        BY RowFacts, LenProperties
      <3>3. TurnOK(limits, u, turn[u], events[u], made[u], Len(history[SessionOf[u]]))
        BY RowFacts
      <3>4. WorkingOK(turn[u], made[u][turn[u].agent], Len(history'[SessionOf[u]]))
        BY <3>2, <3>3, WorkingMonotone DEF TurnOK
      <3> QED BY <3>1, <3>3, <3>4 DEF TurnOK
    <2> QED BY <2>1, <2>2
  <1> QED BY <1>1, <1>2 DEF TurnsInv

(* The transcripts are safe while nothing is written to them.              *)
LEMMA TranscriptsStay ==
  ASSUME TurnsInv, NEW t \in Turns, NEW q, history' = history,
         turn' = [turn EXCEPT ![t] = q],
         \A a \in Agents : Persisted(turn[t], a) => Persisted(q, a)
  PROVE  PersistedOnce' /\ MidLoopAnswered'
  <1>1. MidLoopAnswered'
    BY DEF TurnsInv, MidLoopAnswered
  <1>2. PersistedOnce'
    <2> SUFFICES ASSUME NEW s \in Sessions, NEW i \in DOMAIN history[s],
                        history[s][i].role = "assistant"
                 PROVE  Persisted(turn'[history[s][i].turn], history[s][i].agent)
      BY DEF PersistedOnce
    <2>1. Persisted(turn[history[s][i].turn], history[s][i].agent)
      BY DEF TurnsInv, PersistedOnce
    <2>2. history[s][i] \in Message
      BY ElementOfSeq, LenProperties DEF TurnsInv, Shape
    <2>3. history[s][i].turn \in Turns /\ history[s][i].agent \in Agents
      BY <2>2 DEF Message
    <2>4. turn'[history[s][i].turn] = IF history[s][i].turn = t THEN q
                                     ELSE turn[history[s][i].turn]
      BY <2>3 DEF TurnsInv, Shape
    <2> QED BY <2>1, <2>3, <2>4
  <1> QED BY <1>1, <1>2

(* A move that writes no message.                                          *)
LEMMA PlainMove ==
  ASSUME TurnsInv, NEW t \in Turns, NEW q \in TurnRow, NEW es \in Seq(AgentEvent),
         limits' = limits, asked' \subseteq ApprovalIds, history' = history, made' = made,
         turn' = [turn EXCEPT ![t] = q], events' = [events EXCEPT ![t] = es],
         q.agent = turn[t].agent, q.working = turn[t].working,
         q.pc \notin {"idle", "gates"},
         q.pc \in Looping => turn[t].pc \in Looping,
         q.pc = "stream" => turn[t].pc = "stream",
         turn[t].pc \in Over => q.pc \in Over,
         Counted(limits, q), EventsOK(q, es), BlocksOK(q, made[t][q.agent])
  PROVE  TurnsInv'
  <1>1. /\ made[t] \in [Agents -> Seq(Message)] /\ turn[t] \in TurnRow
        /\ TurnOK(limits, t, turn[t], events[t], made[t], Len(history[SessionOf[t]]))
    BY RowFacts
  <1>2. made' = [made EXCEPT ![t] = made[t]]
    BY DEF TurnsInv, Shape
  <1>3. \A a \in Agents : Persisted(turn[t], a) => Persisted(q, a)
    BY DEF Persisted
  <1>4. PersistedOnce' /\ MidLoopAnswered'
    BY <1>3, TranscriptsStay
  <1>5. MessagesOK(t, q, made[t])
    BY <1>1 DEF TurnOK, MessagesOK
  <1>6. WorkingOK(q, made[t][q.agent], Len(history[SessionOf[t]]))
    BY <1>1 DEF TurnOK, WorkingOK
  <1>7. TurnOK(limits, t, q, es, made[t], Len(history'[SessionOf[t]]))
    BY <1>5, <1>6 DEF TurnOK
  <1>8. /\ history' \in [Sessions -> Seq(Message)]
        /\ \A s \in Sessions : Len(history[s]) <= Len(history'[s])
    <2>1. history \in [Sessions -> Seq(Message)]
      BY DEF TurnsInv, Shape
    <2>2. \A s \in Sessions : Len(history[s]) \in Nat
      BY <2>1, LenProperties
    <2> QED BY <2>1, <2>2
  <1> QED BY <1>1, <1>2, <1>4, <1>7, <1>8, TurnMoves

(* Events of a turn have their type.                                       *)
LEMMA EventTyped ==
  ASSUME TurnsInv, NEW t \in Turns, NEW kind \in Kinds
  PROVE  /\ Event(kind, turn[t]) \in AgentEvent
         /\ Event(kind, turn[t]).kind = kind
         /\ Event(kind, turn[t]).agent = turn[t].agent
         /\ Event(kind, turn[t]).loop = turn[t].loop
         /\ Event(kind, turn[t]).attempt = turn[t].attempt
  <1>1. /\ turn[t].agent \in Agents /\ turn[t].loop \in 0..limits.loops
        /\ turn[t].rate \in 0..limits.rate /\ turn[t].conn \in 0..limits.conn
    BY RowFacts DEF TurnRow
  <1>2. turn[t].attempt = turn[t].rate + turn[t].conn + 1
    BY RowFacts DEF TurnOK, Counted
  <1>3. limits.rate \in Nat /\ limits.conn \in Nat
    BY LimitsTyped DEF TurnsInv, Shape
  <1>4. turn[t].attempt \in 1..(limits.rate + limits.conn + 1)
    BY <1>1, <1>2, <1>3
  <1> QED BY <1>1, <1>4 DEF Event, AgentEvent

(* One event that is no FINAL, on the way out of a round's stream or later. *)
LEMMA EmitMove ==
  ASSUME TurnsInv, NEW t \in Turns, NEW q \in TurnRow, NEW kind \in Kinds \ {"final"},
         limits' = limits, asked' \subseteq ApprovalIds, history' = history, made' = made,
         turn' = [turn EXCEPT ![t] = q], Emit(t, <<Event(kind, turn[t])>>),
         turn[t].pc \in {"gates", "stream", "dispatch", "invoke"},
         q.agent = turn[t].agent, q.working = turn[t].working, q.loop = turn[t].loop,
         q.rate = turn[t].rate, q.conn = turn[t].conn, q.attempt = turn[t].attempt,
         q.pc \in Dispatching => turn[t].pc \in Dispatching,
         q.pc \in Looping => turn[t].pc \in Looping,
         q.pc \notin {"idle", "gates", "raised", "stream", "done"},
         BlocksOK(q, made[t][q.agent])
  PROVE  TurnsInv'
  <1>1. PICK e : e = Event(kind, turn[t])
    OBVIOUS
  <1>2. /\ e \in AgentEvent /\ e.kind = kind /\ e.agent = turn[t].agent
        /\ e.loop = turn[t].loop /\ e.attempt = turn[t].attempt
    BY <1>1, EventTyped
  <1>3. PICK es : es = events[t] \o <<e>>
    OBVIOUS
  <1>4. events[t] \in Seq(AgentEvent) /\ turn[t] \in TurnRow
    BY RowFacts
  <1>5. es \in Seq(AgentEvent)
    BY <1>2, <1>3, <1>4, AppendIsConcat, AppendProperties
  <1>6. events' = [events EXCEPT ![t] = es]
    BY <1>1, <1>3 DEF Emit, TurnsInv, Shape
  <1>7. Counted(limits, turn[t]) /\ EventsOK(turn[t], events[t])
    BY RowFacts DEF TurnOK
  <1>8. EventsOK(q, es)
    <2>1. turn[t].loop \in Int
      BY <1>4, LimitsTyped DEF TurnRow, TurnsInv, Shape
    <2> QED BY <1>2, <1>3, <1>4, <1>7, <2>1, EmitOne
  <1>9. Counted(limits, q)
    BY <1>7 DEF Counted, Dispatching
  <1> QED BY <1>5, <1>6, <1>8, <1>9, PlainMove DEF Over, Looping

(* A move that yields nothing and stays in its round.                      *)
LEMMA QuietMove ==
  ASSUME TurnsInv, NEW t \in Turns, NEW q \in TurnRow,
         limits' = limits, asked' = asked, history' = history, made' = made,
         turn' = [turn EXCEPT ![t] = q], events' = events,
         turn[t].pc \notin {"idle", "done"},
         q.agent = turn[t].agent, q.working = turn[t].working, q.loop = turn[t].loop,
         q.attempt = q.rate + q.conn + 1,
         q.attempt = turn[t].attempt \/ turn[t].pc = "stream",
         q.pc = "stream" => turn[t].pc = "stream",
         q.pc \in {"stream", "loop_done", "closing", "raised", "cancelled"},
         q.pc = "raised" => turn[t].pc = "gates",
         q.pc = "loop_done" => turn[t].pc \in Looping,
         turn[t].pc \in Over => q.pc \in Over
  PROVE  TurnsInv'
  <1>1. events[t] \in Seq(AgentEvent) /\ events' = [events EXCEPT ![t] = events[t]]
        /\ asked \subseteq ApprovalIds
    BY RowFacts DEF TurnsInv, Shape
  <1>2. Counted(limits, turn[t]) /\ EventsOK(turn[t], events[t])
    BY RowFacts DEF TurnOK
  <1>3. EventsOK(q, events[t])
    BY <1>2, SameRound
  <1>4. Counted(limits, q)
    BY <1>2 DEF Counted
  <1>5. BlocksOK(q, made[t][q.agent])
    BY DEF BlocksOK, Dispatching
  <1> QED BY <1>1, <1>3, <1>4, <1>5, PlainMove DEF Looping

LEMMA GateRefusesStep ==
  ASSUME TurnsInv, NEW t \in Turns, GateRefuses(t), limits' = limits
  PROVE  TurnsInv'
  <1>1. turn[t] \in TurnRow /\ turn \in [Turns -> TurnRow] /\ asked \subseteq ApprovalIds
    BY RowFacts DEF TurnsInv, Shape
  <1>2. PICK q : q = [turn[t] EXCEPT !.pc = "closing", !.errored = TRUE]
    OBVIOUS
  <1>3. q \in TurnRow
    BY <1>1, <1>2 DEF TurnRow, PCs
  <1>4. /\ q.pc = "closing" /\ q.agent = turn[t].agent /\ q.working = turn[t].working
        /\ q.loop = turn[t].loop /\ q.rate = turn[t].rate /\ q.conn = turn[t].conn
        /\ q.attempt = turn[t].attempt
    BY <1>1, <1>2 DEF TurnRow
  <1>5. turn' = [turn EXCEPT ![t] = q]
    BY <1>1, <1>2 DEF GateRefuses
  <1>6. BlocksOK(q, made[t][q.agent])
    BY <1>4 DEF BlocksOK, Dispatching
  <1> QED
    BY <1>1, <1>3, <1>4, <1>5, <1>6, EmitMove DEF GateRefuses, Kinds, Looping, Dispatching

LEMMA StreamSteps ==
  ASSUME TurnsInv, NEW t \in Turns, limits' = limits,
         \/ StreamDelta(t) \/ StreamDegenerate(t)
         \/ \E err \in {"rate", "conn", "permanent"} : StreamRetries(t, err) \/ StreamFails(t, err)
  PROVE  TurnsInv'
  <1>1. turn[t] \in TurnRow /\ turn \in [Turns -> TurnRow] /\ asked \subseteq ApprovalIds
    BY RowFacts DEF TurnsInv, Shape
  <1>2. turn[t].attempt = turn[t].rate + turn[t].conn + 1
    BY RowFacts DEF TurnOK, Counted
  <1>3. CASE StreamDelta(t)
    <2>1. PICK q : q = [turn[t] EXCEPT !.buffered = TRUE]
      OBVIOUS
    <2>2. q \in TurnRow
      BY <1>1, <2>1 DEF TurnRow
    <2>3. /\ q.pc = turn[t].pc /\ q.agent = turn[t].agent /\ q.working = turn[t].working
          /\ q.loop = turn[t].loop /\ q.rate = turn[t].rate /\ q.conn = turn[t].conn
          /\ q.attempt = turn[t].attempt
      BY <1>1, <2>1 DEF TurnRow
    <2>4. turn' = [turn EXCEPT ![t] = q]
      BY <1>1, <1>3, <2>1 DEF StreamDelta
    <2>5. /\ turn[t].pc = "stream" /\ events' = events
          /\ history' = history /\ asked' = asked /\ made' = made
      BY <1>3 DEF StreamDelta, Quiet
    <2>6. q.attempt = q.rate + q.conn + 1
      BY <1>2, <2>3
    <2> QED
      BY <2>2, <2>3, <2>4, <2>5, <2>6, QuietMove DEF Over
  <1>4. ASSUME NEW err \in {"rate", "conn", "permanent"}, StreamRetries(t, err) PROVE TurnsInv'
    <2>1. PICK q : q = [turn[t] EXCEPT !.buffered = FALSE, !.attempt = @ + 1,
                                      !.rate = IF err = "rate" THEN @ + 1 ELSE @,
                                      !.conn = IF err = "conn" THEN @ + 1 ELSE @]
      OBVIOUS
    <2>2. /\ q.pc = turn[t].pc /\ q.agent = turn[t].agent /\ q.working = turn[t].working
          /\ q.loop = turn[t].loop /\ q.attempt = turn[t].attempt + 1
          /\ q.rate = IF err = "rate" THEN turn[t].rate + 1 ELSE turn[t].rate
          /\ q.conn = IF err = "conn" THEN turn[t].conn + 1 ELSE turn[t].conn
      BY <1>1, <2>1 DEF TurnRow
    <2>3. limits.rate \in Nat /\ limits.conn \in Nat
      BY LimitsTyped DEF TurnsInv, Shape
    <2>4. turn[t].rate \in 0..limits.rate /\ turn[t].conn \in 0..limits.conn /\ turn[t].attempt \in Nat
      BY <1>1 DEF TurnRow
    <2>5. \/ err = "rate" /\ turn[t].rate < limits.rate
          \/ err = "conn" /\ turn[t].conn < limits.conn
      BY <1>4 DEF StreamRetries, CanRetry
    <2>6. /\ (IF err = "rate" THEN turn[t].rate + 1 ELSE turn[t].rate) \in 0..limits.rate
          /\ (IF err = "conn" THEN turn[t].conn + 1 ELSE turn[t].conn) \in 0..limits.conn
          /\ turn[t].attempt + 1 \in Nat
      BY <2>3, <2>4, <2>5
    <2>7. q \in TurnRow
      BY <1>1, <2>1, <2>6 DEF TurnRow
    <2>8. q.attempt = q.rate + q.conn + 1
      BY <1>2, <2>2, <2>4, <2>5
    <2>9. turn' = [turn EXCEPT ![t] = q]
      BY <1>1, <1>4, <2>1 DEF StreamRetries
    <2> QED
      BY <1>4, <2>2, <2>7, <2>8, <2>9, QuietMove DEF StreamRetries, Quiet, Over
  <1>5. ASSUME NEW err \in {"rate", "conn", "permanent"}, StreamFails(t, err) PROVE TurnsInv'
    <2>1. PICK q : q = [turn[t] EXCEPT !.pc = "loop_done", !.errored = TRUE]
      OBVIOUS
    <2>2. q \in TurnRow
      BY <1>1, <2>1 DEF TurnRow, PCs
    <2>3. /\ q.pc = "loop_done" /\ q.agent = turn[t].agent /\ q.working = turn[t].working
          /\ q.loop = turn[t].loop /\ q.rate = turn[t].rate /\ q.conn = turn[t].conn
          /\ q.attempt = turn[t].attempt
      BY <1>1, <2>1 DEF TurnRow
    <2>4. turn' = [turn EXCEPT ![t] = q]
      BY <1>1, <1>5, <2>1 DEF StreamFails
    <2>5. BlocksOK(q, made[t][q.agent])
      BY <2>3 DEF BlocksOK, Dispatching
    <2> QED
      BY <1>1, <1>5, <2>2, <2>3, <2>4, <2>5, EmitMove DEF StreamFails, Kinds, Looping, Dispatching
  <1>6. CASE StreamDegenerate(t)
    <2>1. PICK q : q = [turn[t] EXCEPT !.pc = "loop_done"]
      OBVIOUS
    <2>2. q \in TurnRow
      BY <1>1, <2>1 DEF TurnRow, PCs
    <2>3. /\ q.pc = "loop_done" /\ q.agent = turn[t].agent /\ q.working = turn[t].working
          /\ q.loop = turn[t].loop /\ q.rate = turn[t].rate /\ q.conn = turn[t].conn
          /\ q.attempt = turn[t].attempt
      BY <1>1, <2>1 DEF TurnRow
    <2>4. turn' = [turn EXCEPT ![t] = q]
      BY <1>1, <1>6, <2>1 DEF StreamDegenerate
    <2>5. /\ turn[t].pc = "stream" /\ q.attempt = q.rate + q.conn + 1
          /\ history' = history /\ asked' = asked /\ made' = made
      BY <1>2, <1>6, <2>3 DEF StreamDegenerate
    <2>6. BlocksOK(q, made[t][q.agent])
      BY <2>3 DEF BlocksOK, Dispatching
    <2>7. CASE turn[t].buffered
      <3>1. Emit(t, <<Event("delta", turn[t])>>)
        BY <1>6, <2>7 DEF StreamDegenerate, Flushed
      <3> QED
        BY <1>1, <2>2, <2>3, <2>4, <2>6, <2>5, <3>1, EmitMove DEF Kinds, Looping, Dispatching
    <2>8. CASE ~turn[t].buffered
      <3>1. events' = events
        <4>1. events \in [Turns -> Seq(AgentEvent)]
          BY DEF TurnsInv, Shape
        <4>2. events' = [events EXCEPT ![t] = events[t] \o <<>>]
          BY <1>6, <2>8 DEF StreamDegenerate, Flushed, Emit
        <4>3. events[t] \o <<>> = events[t]
          BY <4>1, ConcatEmptySeq
        <4> QED BY <4>1, <4>2, <4>3
      <3> QED
        BY <2>2, <2>3, <2>4, <2>5, <3>1, QuietMove DEF Looping, Over
    <2> QED BY <2>7, <2>8
  <1> QED BY <1>3, <1>4, <1>5, <1>6

LEMMA CancelStep ==
  ASSUME TurnsInv, NEW t \in Turns, Cancel(t), limits' = limits
  PROVE  TurnsInv'
  <1>1. turn[t] \in TurnRow /\ turn \in [Turns -> TurnRow]
    BY RowFacts DEF TurnsInv, Shape
  <1>2. turn[t].attempt = turn[t].rate + turn[t].conn + 1
    BY RowFacts DEF TurnOK, Counted
  <1>3. PICK q : q = [turn[t] EXCEPT !.pc = "cancelled"]
    OBVIOUS
  <1>4. q \in TurnRow
    BY <1>1, <1>3 DEF TurnRow, PCs
  <1>5. /\ q.pc = "cancelled" /\ q.agent = turn[t].agent /\ q.working = turn[t].working
        /\ q.loop = turn[t].loop /\ q.rate = turn[t].rate /\ q.conn = turn[t].conn
        /\ q.attempt = turn[t].attempt
    BY <1>1, <1>3 DEF TurnRow
  <1>6. turn' = [turn EXCEPT ![t] = q]
    BY <1>1, <1>3 DEF Cancel
  <1>7. /\ turn[t].pc \notin {"idle", "done"} /\ q.attempt = q.rate + q.conn + 1
        /\ events' = events /\ history' = history /\ asked' = asked /\ made' = made
    BY <1>2, <1>5 DEF Cancel, Active, Quiet
  <1> QED BY <1>4, <1>5, <1>6, <1>7, QuietMove DEF Over

LEMMA GateRaisesStep ==
  ASSUME TurnsInv, NEW t \in Turns, GateRaises(t), limits' = limits
  PROVE  TurnsInv'
  <1>1. turn[t] \in TurnRow /\ turn \in [Turns -> TurnRow]
    BY RowFacts DEF TurnsInv, Shape
  <1>2. turn[t].attempt = turn[t].rate + turn[t].conn + 1
    BY RowFacts DEF TurnOK, Counted
  <1>3. PICK q : q = [turn[t] EXCEPT !.pc = "raised"]
    OBVIOUS
  <1>4. q \in TurnRow
    BY <1>1, <1>3 DEF TurnRow, PCs
  <1>5. /\ q.pc = "raised" /\ q.agent = turn[t].agent /\ q.working = turn[t].working
        /\ q.loop = turn[t].loop /\ q.rate = turn[t].rate /\ q.conn = turn[t].conn
        /\ q.attempt = turn[t].attempt
    BY <1>1, <1>3 DEF TurnRow
  <1>6. turn' = [turn EXCEPT ![t] = q]
    BY <1>1, <1>3 DEF GateRaises
  <1>7. /\ turn[t].pc = "gates" /\ q.attempt = q.rate + q.conn + 1
        /\ events' = events /\ history' = history /\ asked' = asked /\ made' = made
    BY <1>2, <1>5 DEF GateRaises, Quiet
  <1> QED BY <1>4, <1>5, <1>6, <1>7, QuietMove DEF Over

LEMMA FinishStep ==
  ASSUME TurnsInv, NEW t \in Turns, Finish(t), limits' = limits
  PROVE  TurnsInv'
  <1>1. /\ turn[t] \in TurnRow /\ turn \in [Turns -> TurnRow] /\ asked \subseteq ApprovalIds
        /\ events[t] \in Seq(AgentEvent) /\ events \in [Turns -> Seq(AgentEvent)]
    BY RowFacts DEF TurnsInv, Shape
  <1>2. PICK q : q = [turn[t] EXCEPT !.pc = "done"]
    OBVIOUS
  <1>3. q \in TurnRow
    BY <1>1, <1>2 DEF TurnRow, PCs
  <1>4. /\ q.pc = "done" /\ q.agent = turn[t].agent /\ q.working = turn[t].working
        /\ q.loop = turn[t].loop /\ q.rate = turn[t].rate /\ q.conn = turn[t].conn
        /\ q.attempt = turn[t].attempt
    BY <1>1, <1>2 DEF TurnRow
  <1>5. turn' = [turn EXCEPT ![t] = q] /\ turn[t].pc = "closing"
    BY <1>1, <1>2 DEF Finish
  <1>6. BlocksOK(q, made[t][q.agent])
    BY <1>4 DEF BlocksOK, Dispatching
  <1>7. PICK e : e = Event("final", turn[t])
    OBVIOUS
  <1>8. e \in AgentEvent /\ e.kind = "final"
    BY <1>7, EventTyped DEF Kinds
  <1>9. PICK es : es = events[t] \o <<e>>
    OBVIOUS
  <1>10. es \in Seq(AgentEvent)
    BY <1>1, <1>8, <1>9, AppendIsConcat, AppendProperties
  <1>11. events' = [events EXCEPT ![t] = es]
    BY <1>1, <1>7, <1>9 DEF Finish, Emit
  <1>12. Counted(limits, turn[t]) /\ EventsOK(turn[t], events[t])
    BY RowFacts DEF TurnOK
  <1>13. EventsOK(q, es)
    BY <1>1, <1>4, <1>5, <1>8, <1>9, <1>12, EmitFinal
  <1>14. Counted(limits, q)
    BY <1>4, <1>12 DEF Counted
  <1> QED
    BY <1>1, <1>3, <1>4, <1>5, <1>6, <1>10, <1>11, <1>13, <1>14, PlainMove
    DEF Finish, Looping, Over

(* The blocks of the message that is dispatched.                           *)
LEMMA BlocksFacts ==
  ASSUME TurnsInv, NEW t \in Turns, turn[t].pc \in Dispatching
  PROVE  LET r == turn[t]  ms == made[t][turn[t].agent] IN
         /\ BlocksOK(r, ms) /\ ms \in Seq(Message) /\ OwnMessages(t, r.agent, ms)
         /\ r.blocks \in Seq(ToolsOf("orchestrator") \cup ToolsOf("domain"))
         /\ r.results \in Nat /\ Len(r.blocks) \in Nat
         /\ r.results + Len(r.blocks) \in 0..limits.blocks
  <1>1. PICK r : r = turn[t]
    OBVIOUS
  <1>2. PICK ms : ms = made[t][r.agent]
    OBVIOUS
  <1>3. /\ r \in TurnRow /\ r.agent \in Agents /\ made[t] \in [Agents -> Seq(Message)]
        /\ MessagesOK(t, r, made[t])
    BY <1>1, RowFacts DEF TurnRow, TurnOK
  <1>4. ms \in Seq(Message) /\ BlocksOK(r, ms) /\ OwnMessages(t, r.agent, ms)
    BY <1>2, <1>3 DEF MessagesOK
  <1>5. /\ r.blocks \in Seq(ToolsOf("orchestrator") \cup ToolsOf("domain"))
        /\ r.results \in 0..limits.blocks
    BY <1>3 DEF TurnRow
  <1>6. r.results \in Nat /\ Len(r.blocks) \in Nat
    BY <1>5, LenProperties, LimitsTyped DEF TurnsInv, Shape
  <1>7. ms # <<>> /\ ms[Len(ms)].n = r.results + Len(r.blocks)
    BY <1>1, <1>4 DEF BlocksOK
  <1>8. Len(ms) \in Nat \ {0}
    BY <1>4, <1>7, EmptySeq
  <1>9. Len(ms) \in 1..Len(ms)
    BY <1>8
  <1>10. ms[Len(ms)] \in Message
    BY <1>4, <1>9, ElementOfSeq
  <1>11. ms[Len(ms)].n \in 0..limits.blocks
    BY <1>10 DEF Message
  <1> QED BY <1>1, <1>2, <1>4, <1>5, <1>6, <1>7, <1>11

(* A round with a block still to answer has room for one more result.      *)
LEMMA RoomForOne ==
  ASSUME NEW r \in Nat, NEW n \in Nat, NEW k \in Nat, NEW lim \in Nat,
         r + n \in 0..lim, k = n - 1
  PROVE  r + 1 \in 0..lim
  OBVIOUS

LEMMA DispatchSteps ==
  ASSUME TurnsInv, NEW t \in Turns, limits' = limits,
         UseTool(t) \/ ToolResult(t) \/ ApprovalPause(t) \/ LoopRaises(t)
  PROVE  TurnsInv'
  <1>1. turn[t] \in TurnRow /\ turn \in [Turns -> TurnRow] /\ asked \subseteq ApprovalIds
    BY RowFacts DEF TurnsInv, Shape
  <1>2. turn[t].pc \in Dispatching
    BY DEF UseTool, ToolResult, ApprovalPause, LoopRaises, Dispatching
  <1>3. PICK ms : ms = made[t][turn[t].agent]
    OBVIOUS
  <1>4. /\ BlocksOK(turn[t], ms)
        /\ turn[t].blocks \in Seq(ToolsOf("orchestrator") \cup ToolsOf("domain"))
        /\ turn[t].results \in Nat /\ Len(turn[t].blocks) \in Nat
        /\ turn[t].results + Len(turn[t].blocks) \in 0..limits.blocks
    BY <1>2, <1>3, BlocksFacts
  <1>5. limits.blocks \in Nat
    BY LimitsTyped DEF TurnsInv, Shape
  <1>6. CASE UseTool(t)
    <2>1. PICK q : q = [turn[t] EXCEPT !.pc = "invoke"]
      OBVIOUS
    <2>2. q \in TurnRow
      BY <1>1, <2>1 DEF TurnRow, PCs
    <2>3. /\ q.pc = "invoke" /\ q.agent = turn[t].agent /\ q.working = turn[t].working
          /\ q.loop = turn[t].loop /\ q.rate = turn[t].rate /\ q.conn = turn[t].conn
          /\ q.attempt = turn[t].attempt /\ q.blocks = turn[t].blocks
          /\ q.results = turn[t].results
      BY <1>1, <2>1 DEF TurnRow
    <2>4. turn' = [turn EXCEPT ![t] = q]
      BY <1>1, <1>6, <2>1 DEF UseTool
    <2>5. BlocksOK(q, ms)
      BY <1>2, <1>4, <1>6, <2>3 DEF BlocksOK, UseTool
    <2>6. /\ turn[t].pc = "dispatch" /\ Emit(t, <<Event("tool_use", turn[t])>>)
          /\ history' = history /\ asked' = asked /\ made' = made
      BY <1>6 DEF UseTool
    <2> QED
      BY <1>1, <1>3, <2>2, <2>3, <2>4, <2>5, <2>6, EmitMove DEF Kinds, Looping, Dispatching
  <1>7. CASE ToolResult(t)
    <2>1. PICK q : q = [turn[t] EXCEPT !.pc = "dispatch", !.blocks = Tail(@), !.results = @ + 1]
      OBVIOUS
    <2>2. PICK bs : bs = turn[t].blocks
      OBVIOUS
    <2>3. /\ turn[t].pc = "invoke" /\ Emit(t, <<Event("tool_result", turn[t])>>)
          /\ history' = history /\ asked' = asked /\ made' = made
      BY <1>7 DEF ToolResult
    <2>4. /\ bs # <<>> /\ bs \in Seq(ToolsOf("orchestrator") \cup ToolsOf("domain"))
          /\ \A i \in DOMAIN bs : bs[i] \in ToolsOf(turn[t].agent)
      BY <1>2, <1>4, <2>2, <2>3 DEF BlocksOK
    <2>5. /\ Tail(bs) \in Seq(ToolsOf("orchestrator") \cup ToolsOf("domain"))
          /\ Len(Tail(bs)) = Len(bs) - 1
          /\ \A i \in 1..Len(Tail(bs)) : Tail(bs)[i] = bs[i + 1]
      BY <2>4, HeadTailProperties
    <2>6. Len(Tail(bs)) \in Nat /\ Len(bs) \in Nat /\ DOMAIN bs = 1..Len(bs)
          /\ DOMAIN Tail(bs) = 1..Len(Tail(bs))
      BY <2>4, <2>5, LenProperties
    <2>7. turn[t].results + 1 \in 0..limits.blocks
      <3>1. turn[t].results \in Nat /\ turn[t].results + Len(bs) \in 0..limits.blocks
        BY <1>4, <2>2
      <3>2. Len(Tail(bs)) = Len(bs) - 1
        BY <2>5
      <3> QED BY <1>5, <2>6, <3>1, <3>2, RoomForOne
    <2>8. q \in TurnRow
      BY <1>1, <2>1, <2>2, <2>5, <2>7 DEF TurnRow, PCs
    <2>9. /\ q.pc = "dispatch" /\ q.agent = turn[t].agent /\ q.working = turn[t].working
          /\ q.loop = turn[t].loop /\ q.rate = turn[t].rate /\ q.conn = turn[t].conn
          /\ q.attempt = turn[t].attempt /\ q.blocks = Tail(bs)
          /\ q.results = turn[t].results + 1
      BY <1>1, <2>1, <2>2 DEF TurnRow
    <2>10. turn' = [turn EXCEPT ![t] = q]
      BY <1>1, <1>7, <2>1 DEF ToolResult
    <2>11. \A i \in DOMAIN q.blocks : q.blocks[i] \in ToolsOf(q.agent)
      <3> SUFFICES ASSUME NEW i \in 1..Len(Tail(bs)) PROVE Tail(bs)[i] \in ToolsOf(turn[t].agent)
        BY <2>6, <2>9
      <3>1. i + 1 \in 1..Len(bs)
        BY <2>5, <2>6
      <3> QED BY <2>4, <2>5, <2>6, <3>1
    <2>12. q.results + Len(q.blocks) = turn[t].results + Len(turn[t].blocks)
      BY <1>4, <2>2, <2>5, <2>6, <2>9
    <2>13. BlocksOK(q, ms)
      BY <1>2, <1>4, <2>9, <2>11, <2>12 DEF BlocksOK
    <2> QED
      BY <1>1, <1>3, <2>3, <2>8, <2>9, <2>10, <2>13, EmitMove DEF Kinds, Looping, Dispatching
  <1>8. CASE ApprovalPause(t)
    <2>1. PICK q : q = [turn[t] EXCEPT !.pc = "closing", !.paused = TRUE, !.unsaved = TRUE]
      OBVIOUS
    <2>2. q \in TurnRow
      BY <1>1, <2>1 DEF TurnRow, PCs
    <2>3. /\ q.pc = "closing" /\ q.agent = turn[t].agent /\ q.working = turn[t].working
          /\ q.loop = turn[t].loop /\ q.rate = turn[t].rate /\ q.conn = turn[t].conn
          /\ q.attempt = turn[t].attempt
      BY <1>1, <2>1 DEF TurnRow
    <2>4. turn' = [turn EXCEPT ![t] = q]
      BY <1>1, <1>8, <2>1 DEF ApprovalPause
    <2>5. BlocksOK(q, ms)
      BY <2>3 DEF BlocksOK, Dispatching
    <2>6. /\ turn[t].pc = "invoke" /\ Emit(t, <<Event("approval_request", turn[t])>>)
          /\ history' = history /\ made' = made /\ turn[t].agent = "domain"
          /\ asked' = asked \cup {ApprovalId(t, Head(turn[t].blocks))}
      BY <1>8 DEF ApprovalPause
    <2>7. Head(turn[t].blocks) \in Tools
      <3>1. PICK bs : bs = turn[t].blocks
        OBVIOUS
      <3>2. /\ bs # <<>> /\ bs \in Seq(ToolsOf("orchestrator") \cup ToolsOf("domain"))
            /\ \A i \in DOMAIN bs : bs[i] \in ToolsOf("domain")
        BY <1>2, <1>4, <2>6, <3>1 DEF BlocksOK
      <3>3. Len(bs) \in Nat \ {0} /\ DOMAIN bs = 1..Len(bs)
        BY <3>2, EmptySeq, LenProperties
      <3>4. Head(bs) = bs[1] /\ 1 \in DOMAIN bs
        BY <3>2, <3>3
      <3> QED BY <3>1, <3>2, <3>4 DEF ToolsOf
    <2>8. asked' \subseteq ApprovalIds
      BY <1>1, <2>6, <2>7 DEF ApprovalId, ApprovalIds
    <2> QED
      BY <1>3, <2>2, <2>3, <2>4, <2>5, <2>6, <2>8, EmitMove DEF Kinds, Looping, Dispatching
  <1>9. CASE LoopRaises(t)
    <2>1. PICK domain : domain = (turn[t].agent = "domain")
      OBVIOUS
    <2>2. PICK q : q = [turn[t] EXCEPT !.pc = IF domain THEN "closing" ELSE "loop_done",
                                      !.unsaved = domain, !.errored = TRUE]
      OBVIOUS
    <2>3. domain \in BOOLEAN
      BY <2>1
    <2>4. q \in TurnRow
      BY <1>1, <2>2, <2>3 DEF TurnRow, PCs
    <2>5. /\ q.pc \in {"closing", "loop_done"} /\ q.agent = turn[t].agent
          /\ q.working = turn[t].working /\ q.loop = turn[t].loop
          /\ q.rate = turn[t].rate /\ q.conn = turn[t].conn /\ q.attempt = turn[t].attempt
      BY <1>1, <2>2, <2>3 DEF TurnRow
    <2>6. turn' = [turn EXCEPT ![t] = q]
      BY <1>1, <1>9, <2>1, <2>2 DEF LoopRaises
    <2>7. BlocksOK(q, ms)
      BY <2>5 DEF BlocksOK, Dispatching
    <2>8. /\ turn[t].pc = "invoke" /\ Emit(t, <<Event("error", turn[t])>>)
          /\ history' = history /\ asked' = asked /\ made' = made
      BY <1>9 DEF LoopRaises
    <2> QED
      BY <1>1, <1>3, <2>4, <2>5, <2>6, <2>7, <2>8, EmitMove DEF Kinds, Looping, Dispatching
  <1> QED BY <1>6, <1>7, <1>8, <1>9

(* A loop appends a message to its working copy.                           *)
LEMMA RecordMove ==
  ASSUME TurnsInv, NEW t \in Turns, NEW q \in TurnRow, NEW es \in Seq(AgentEvent),
         NEW x \in Message, NEW ms, ms = made[t][turn[t].agent],
         limits' = limits, asked' = asked, history' = history,
         turn' = [turn EXCEPT ![t] = q], events' = [events EXCEPT ![t] = es],
         made' = [made EXCEPT ![t][turn[t].agent] = Append(@, x)],
         q.agent = turn[t].agent, q.working = Append(turn[t].working, x),
         turn[t].pc \in Looping, q.pc \in Looping,
         Counted(limits, q), EventsOK(q, es),
         OwnMessages(t, q.agent, Append(ms, x)), LastOrAnswered(Append(ms, x)),
         q.pc = "stream" => AnsweredTo(Append(ms, x), Len(Append(ms, x))),
         BlocksOK(q, Append(ms, x))
  PROVE  TurnsInv'
  <1>1. PICK a : a = turn[t].agent
    OBVIOUS
  <1>2. /\ turn[t] \in TurnRow /\ made[t] \in [Agents -> Seq(Message)]
        /\ SessionOf[t] \in Sessions /\ history[SessionOf[t]] \in Seq(Message)
        /\ MessagesOK(t, turn[t], made[t])
        /\ WorkingOK(turn[t], made[t][a], Len(history[SessionOf[t]]))
    BY <1>1, RowFacts DEF TurnOK
  <1>3. a \in Agents /\ turn[t].working \in Seq(Message) /\ ms \in Seq(Message)
    BY <1>1, <1>2 DEF TurnRow
  <1>4. PICK m : m = [made[t] EXCEPT ![a] = Append(ms, x)]
    OBVIOUS
  <1>5. Append(ms, x) \in Seq(Message)
    BY <1>3, Appended
  <1>6. /\ m \in [Agents -> Seq(Message)] /\ m[a] = Append(ms, x)
        /\ \A b \in Agents : b # a => m[b] = made[t][b]
    BY <1>2, <1>3, <1>4, <1>5
  <1>7. made' = [made EXCEPT ![t] = m]
    BY <1>1, <1>4 DEF TurnsInv, Shape
  <1>8. MessagesOK(t, q, m)
    <2>1. \A b \in Agents : OwnMessages(t, b, m[b]) /\ LastOrAnswered(m[b])
      BY <1>1, <1>2, <1>6 DEF MessagesOK
    <2>2. q.agent = "orchestrator" => m["domain"] = <<>>
      BY <1>1, <1>2, <1>6 DEF MessagesOK, Agents
    <2> QED BY <1>1, <1>6, <2>1, <2>2 DEF MessagesOK, Looping
  <1>9. Len(history[SessionOf[t]]) \in Nat
    BY <1>2, LenProperties
  <1>10. WorkingOK(q, m[q.agent], Len(history[SessionOf[t]]))
    <2>1. WorkingOK(q, Append(ms, x), Len(history[SessionOf[t]]))
      BY <1>1, <1>2, <1>3, <1>9, WorkingGrows
    <2> QED BY <1>1, <1>6, <2>1
  <1>11. TurnOK(limits, t, q, es, m, Len(history'[SessionOf[t]]))
    BY <1>8, <1>10 DEF TurnOK
  <1>12. \A b \in Agents : Persisted(turn[t], b) => Persisted(q, b)
    BY DEF Persisted, Looping, Over
  <1>13. PersistedOnce' /\ MidLoopAnswered'
    BY <1>12, TranscriptsStay
  <1>14. /\ history' \in [Sessions -> Seq(Message)] /\ asked' \subseteq ApprovalIds
         /\ \A s \in Sessions : Len(history[s]) <= Len(history'[s])
    <2>1. history \in [Sessions -> Seq(Message)] /\ asked \subseteq ApprovalIds
      BY DEF TurnsInv, Shape
    <2>2. \A s \in Sessions : Len(history[s]) \in Nat
      BY <2>1, LenProperties
    <2> QED BY <2>1, <2>2
  <1> QED BY <1>6, <1>7, <1>11, <1>13, <1>14, TurnMoves

(* The text of an attempt is sent when its stream is over.                 *)
LEMMA FlushedOK ==
  ASSUME TurnsInv, NEW t \in Turns, turn[t].pc = "stream", NEW q,
         q.agent = turn[t].agent, q.loop = turn[t].loop, q.attempt = turn[t].attempt,
         q.pc \in {"loop_done", "dispatch"}
  PROVE  /\ events[t] \o Flushed(t) \in Seq(AgentEvent)
         /\ EventsOK(q, events[t] \o Flushed(t))
  <1>1. /\ events[t] \in Seq(AgentEvent) /\ turn[t] \in TurnRow
        /\ EventsOK(turn[t], events[t])
    BY RowFacts DEF TurnOK
  <1>2. CASE turn[t].buffered
    <2>1. PICK e : e = Event("delta", turn[t])
      OBVIOUS
    <2>2. /\ e \in AgentEvent /\ e.kind = "delta" /\ e.agent = turn[t].agent
          /\ e.loop = turn[t].loop /\ e.attempt = turn[t].attempt
      BY <2>1, EventTyped DEF Kinds
    <2>3. Flushed(t) = <<e>>
      BY <1>2, <2>1 DEF Flushed
    <2>4. events[t] \o <<e>> \in Seq(AgentEvent)
      BY <1>1, <2>2, AppendIsConcat, AppendProperties
    <2>5. turn[t].loop \in Int
      BY <1>1, LimitsTyped DEF TurnRow, TurnsInv, Shape
    <2>6. EventsOK(q, events[t] \o <<e>>)
      BY <1>1, <2>2, <2>5, EmitOne
    <2> QED BY <2>3, <2>4, <2>6
  <1>3. CASE ~turn[t].buffered
    <2>1. Flushed(t) = <<>>
      BY <1>3 DEF Flushed
    <2>2. events[t] \o <<>> = events[t]
      BY <1>1, ConcatEmptySeq
    <2>3. EventsOK(q, events[t])
      BY <1>1, SameRound
    <2> QED BY <1>1, <2>1, <2>2, <2>3
  <1> QED BY <1>2, <1>3

(* Messages have their type.                                               *)
LEMMA MessageTyped ==
  ASSUME NEW t \in Turns, NEW a \in Agents, NEW role \in {"user", "assistant", "results"},
         NEW n \in 0..limits.blocks
  PROVE  /\ Msg(t, a, role, n) \in Message
         /\ Msg(t, a, role, n).turn = t /\ Msg(t, a, role, n).agent = a
         /\ Msg(t, a, role, n).role = role /\ Msg(t, a, role, n).n = n
  BY DEF Msg, Message

(* Recording of a message, as RecordMove wants it.                         *)
LEMMA Recorded ==
  ASSUME TurnsInv, NEW t \in Turns, NEW r \in TurnRow, NEW x \in Message,
         r.agent = turn[t].agent, r.working = turn[t].working, Record(t, r, x)
  PROVE  \E q \in TurnRow :
            /\ turn' = [turn EXCEPT ![t] = q]
            /\ made' = [made EXCEPT ![t][turn[t].agent] = Append(@, x)]
            /\ q.working = Append(turn[t].working, x)
            /\ q.pc = r.pc /\ q.agent = r.agent /\ q.loop = r.loop /\ q.rate = r.rate
            /\ q.conn = r.conn /\ q.attempt = r.attempt /\ q.blocks = r.blocks
            /\ q.results = r.results
  <1>1. PICK q : q = [r EXCEPT !.working = Append(@, x)]
    OBVIOUS
  <1>2. r.working \in Seq(Message)
    BY DEF TurnRow
  <1>3. Append(r.working, x) \in Seq(Message)
    BY <1>2, AppendProperties
  <1>4. q \in TurnRow
    BY <1>1, <1>3 DEF TurnRow
  <1>5. /\ q.working = Append(turn[t].working, x)
        /\ q.pc = r.pc /\ q.agent = r.agent /\ q.loop = r.loop /\ q.rate = r.rate
        /\ q.conn = r.conn /\ q.attempt = r.attempt /\ q.blocks = r.blocks
        /\ q.results = r.results
    BY <1>1 DEF TurnRow
  <1>6. /\ turn' = [turn EXCEPT ![t] = q]
        /\ made' = [made EXCEPT ![t][turn[t].agent] = Append(@, x)]
    BY <1>1 DEF Record
  <1> QED BY <1>4, <1>5, <1>6

(* The model's message ends the loop, or asks for tools.                   *)
LEMMA AssistantSteps ==
  ASSUME TurnsInv, NEW t \in Turns, limits' = limits,
         \/ \E n \in 0..1 : StreamStops(t, n)
         \/ \E blocks \in BlockSeqs(t) : StreamToolUse(t, blocks)
  PROVE  TurnsInv'
  <1>1. PICK a : a = turn[t].agent
    OBVIOUS
  <1>2. PICK ms : ms = made[t][a]
    OBVIOUS
  <1>3. /\ turn[t] \in TurnRow /\ a \in Agents /\ made[t] \in [Agents -> Seq(Message)]
        /\ ms \in Seq(Message)
    BY <1>1, <1>2, RowFacts DEF TurnRow
  <1>4. turn[t].pc = "stream"
    BY DEF StreamStops, StreamToolUse
  <1>5. Counted(limits, turn[t]) /\ OwnMessages(t, a, ms) /\ AnsweredTo(ms, Len(ms))
    BY <1>1, <1>2, <1>3, <1>4, RowFacts DEF TurnOK, MessagesOK
  <1>6. limits.blocks \in Nat \ {0}
    BY LimitsTyped DEF TurnsInv, Shape
  <1>7. ASSUME NEW r \in TurnRow, NEW n \in 0..limits.blocks,
               Record(t, r, Msg(t, a, "assistant", n)), Emit(t, Flushed(t)),
               history' = history, asked' = asked,
               r.pc \in {"loop_done", "dispatch"}, r.agent = a, r.working = turn[t].working,
               r.loop = turn[t].loop, r.rate = turn[t].rate, r.conn = turn[t].conn,
               r.attempt = turn[t].attempt,
               r.pc = "dispatch" => /\ \A i \in DOMAIN r.blocks : r.blocks[i] \in ToolsOf(a)
                                    /\ n = r.results + Len(r.blocks)
        PROVE  TurnsInv'
    <2>1. PICK x : x = Msg(t, a, "assistant", n)
      OBVIOUS
    <2>2. x \in Message /\ x.turn = t /\ x.agent = a /\ x.role = "assistant" /\ x.n = n
      BY <1>3, <2>1, MessageTyped
    <2>3. PICK q \in TurnRow :
            /\ turn' = [turn EXCEPT ![t] = q]
            /\ made' = [made EXCEPT ![t][turn[t].agent] = Append(@, x)]
            /\ q.working = Append(turn[t].working, x)
            /\ q.pc = r.pc /\ q.agent = r.agent /\ q.loop = r.loop /\ q.rate = r.rate
            /\ q.conn = r.conn /\ q.attempt = r.attempt /\ q.blocks = r.blocks
            /\ q.results = r.results
      BY <1>1, <1>7, <2>1, <2>2, Recorded
    <2>4. PICK es : es = events[t] \o Flushed(t)
      OBVIOUS
    <2>5. es \in Seq(AgentEvent) /\ EventsOK(q, es)
      BY <1>1, <1>4, <1>7, <2>3, <2>4, FlushedOK
    <2>6. events' = [events EXCEPT ![t] = es]
      BY <1>7, <2>4 DEF Emit
    <2>7. Counted(limits, q)
      BY <1>4, <1>5, <1>7, <2>3 DEF Counted
    <2>8. /\ OwnMessages(t, a, Append(ms, x)) /\ LastOrAnswered(Append(ms, x))
          /\ AnsweredTo(Append(ms, x), Len(Append(ms, x)) - 1)
      BY <1>3, <1>5, <2>2, AppendAssistant
    <2>9. BlocksOK(q, Append(ms, x))
      <3>1. /\ Len(Append(ms, x)) = Len(ms) + 1 /\ Append(ms, x)[Len(ms) + 1] = x
            /\ Append(ms, x) # <<>>
        BY <1>3, <2>2, AppendProperties
      <3>2. Append(ms, x)[Len(Append(ms, x))] = x
        BY <3>1
      <3> QED BY <1>7, <2>2, <2>3, <2>8, <3>1, <3>2 DEF BlocksOK, Dispatching
    <2>10. /\ q.agent = turn[t].agent /\ q.pc \in Looping /\ q.pc # "stream"
           /\ turn[t].pc \in Looping /\ ms = made[t][turn[t].agent]
      BY <1>1, <1>2, <1>4, <1>7, <2>3 DEF Looping
    <2>11. /\ turn' = [turn EXCEPT ![t] = q] /\ q.working = Append(turn[t].working, x)
           /\ made' = [made EXCEPT ![t][turn[t].agent] = Append(@, x)]
      BY <2>3
    <2>12. history' = history /\ asked' = asked
      BY <1>7
    <2>13. x \in Message /\ OwnMessages(t, q.agent, Append(ms, x))
      BY <1>1, <2>2, <2>8, <2>10
    <2> QED
      BY <2>5, <2>6, <2>7, <2>8, <2>9, <2>10, <2>11, <2>12, <2>13, RecordMove
  <1>8. ASSUME NEW n \in 0..1, StreamStops(t, n) PROVE TurnsInv'
    <2>1. PICK r : r = [turn[t] EXCEPT !.pc = "loop_done"]
      OBVIOUS
    <2>2. r \in TurnRow
      BY <1>3, <2>1 DEF TurnRow, PCs
    <2>3. /\ r.pc = "loop_done" /\ r.agent = a /\ r.working = turn[t].working
          /\ r.loop = turn[t].loop /\ r.rate = turn[t].rate /\ r.conn = turn[t].conn
          /\ r.attempt = turn[t].attempt
      BY <1>1, <1>3, <2>1 DEF TurnRow
    <2>4. n \in 0..limits.blocks
      BY <1>6
    <2>5. Record(t, r, Msg(t, a, "assistant", n)) /\ Emit(t, Flushed(t))
          /\ history' = history /\ asked' = asked
      BY <1>1, <1>8, <2>1 DEF StreamStops
    <2> QED BY <1>7, <2>2, <2>3, <2>4, <2>5
  <1>9. ASSUME NEW blocks \in BlockSeqs(t), StreamToolUse(t, blocks) PROVE TurnsInv'
    <2>1. PICK n \in 1..limits.blocks : blocks \in [1..n -> ToolsOf(a) \cap limits.asked]
      BY <1>1, <1>9 DEF BlockSeqs
    <2>2. n \in Nat /\ n \in 0..limits.blocks
      BY <1>6, <2>1
    <2>3. ToolsOf(a) \subseteq ToolsOf("orchestrator") \cup ToolsOf("domain")
      BY <1>3 DEF Agents
    <2>4. blocks \in [1..n -> ToolsOf("orchestrator") \cup ToolsOf("domain")]
      BY <2>1, <2>3
    <2>5. blocks \in Seq(ToolsOf("orchestrator") \cup ToolsOf("domain")) /\ Len(blocks) = n
      BY <2>2, <2>4, SeqDef
    <2>6. \A i \in DOMAIN blocks : blocks[i] \in ToolsOf(a)
      BY <2>1
    <2>7. PICK r : r = [turn[t] EXCEPT !.pc = "dispatch", !.blocks = blocks, !.results = 0]
      OBVIOUS
    <2>8. 0 \in 0..limits.blocks
      BY <1>6
    <2>9. r \in TurnRow
      BY <1>3, <2>5, <2>7, <2>8 DEF TurnRow, PCs
    <2>10. /\ r.pc = "dispatch" /\ r.agent = a /\ r.working = turn[t].working
           /\ r.loop = turn[t].loop /\ r.rate = turn[t].rate /\ r.conn = turn[t].conn
           /\ r.attempt = turn[t].attempt /\ r.blocks = blocks /\ r.results = 0
      BY <1>1, <1>3, <2>7 DEF TurnRow
    <2>11. Record(t, r, Msg(t, a, "assistant", n)) /\ Emit(t, Flushed(t))
           /\ history' = history /\ asked' = asked
      BY <1>1, <1>9, <2>5, <2>7 DEF StreamToolUse
    <2>12. n = r.results + Len(r.blocks)
      BY <2>2, <2>5, <2>10
    <2> QED BY <1>7, <2>2, <2>6, <2>9, <2>10, <2>11, <2>12
  <1> QED BY <1>8, <1>9

(* The results of a round, and of the orchestrator's own tools.            *)
LEMMA ResultsMove ==
  ASSUME TurnsInv, NEW t \in Turns, turn[t].pc \in Dispatching,
         NEW r \in TurnRow, NEW n \in 0..limits.blocks, NEW es \in Seq(AgentEvent),
         Record(t, r, Msg(t, turn[t].agent, "results", n)),
         limits' = limits, history' = history, asked' = asked,
         events' = [events EXCEPT ![t] = es], EventsOK(r, es),
         r.pc \in {"stream", "loop_done"}, r.agent = turn[t].agent,
         r.working = turn[t].working, Counted(limits, r),
         r.pc = "stream" => turn[t].blocks = <<>> /\ n = turn[t].results
  PROVE  TurnsInv'
  <1>1. PICK a : a = turn[t].agent
    OBVIOUS
  <1>2. PICK ms : ms = made[t][a]
    OBVIOUS
  <1>3. /\ BlocksOK(turn[t], ms) /\ ms \in Seq(Message) /\ OwnMessages(t, a, ms)
        /\ turn[t].results \in Nat
    BY <1>1, <1>2, BlocksFacts
  <1>4. a \in Agents
    BY <1>1, RowFacts DEF TurnRow
  <1>5. /\ ms # <<>> /\ AnsweredTo(ms, Len(ms) - 1)
        /\ ms[Len(ms)].n = turn[t].results + Len(turn[t].blocks)
    BY <1>3 DEF BlocksOK
  <1>6. PICK x : x = Msg(t, a, "results", n)
    OBVIOUS
  <1>7. x \in Message /\ x.turn = t /\ x.agent = a /\ x.role = "results"
    BY <1>4, <1>6, MessageTyped
  <1>8. PICK q \in TurnRow :
          /\ turn' = [turn EXCEPT ![t] = q]
          /\ made' = [made EXCEPT ![t][turn[t].agent] = Append(@, x)]
          /\ q.working = Append(turn[t].working, x)
          /\ q.pc = r.pc /\ q.agent = r.agent /\ q.loop = r.loop /\ q.rate = r.rate
          /\ q.conn = r.conn /\ q.attempt = r.attempt /\ q.blocks = r.blocks
          /\ q.results = r.results
    BY <1>1, <1>6, <1>7, Recorded
  <1>9. Counted(limits, q)
    BY <1>8 DEF Counted
  <1>10. EventsOK(q, es)
    BY <1>8 DEF EventsOK, FinalOK, DeltasPast
  <1>11. /\ OwnMessages(t, a, Append(ms, x)) /\ LastOrAnswered(Append(ms, x))
         /\ x = Msg(t, a, "results", ms[Len(ms)].n) =>
               AnsweredTo(Append(ms, x), Len(Append(ms, x)))
    BY <1>3, <1>5, <1>7, AppendResults
  <1>12. q.pc = "stream" => AnsweredTo(Append(ms, x), Len(Append(ms, x)))
    <2> SUFFICES ASSUME r.pc = "stream" PROVE n = ms[Len(ms)].n
      BY <1>6, <1>8, <1>11
    <2>1. turn[t].blocks = <<>> /\ n = turn[t].results /\ Len(<<>>) = 0
      BY EmptySeq
    <2> QED BY <1>3, <1>5, <2>1
  <1>13. BlocksOK(q, Append(ms, x))
    BY <1>8 DEF BlocksOK, Dispatching
  <1>14. /\ q.agent = turn[t].agent /\ q.pc \in Looping /\ turn[t].pc \in Looping
         /\ ms = made[t][turn[t].agent]
    BY <1>1, <1>2, <1>8 DEF Looping, Dispatching
  <1> QED
    BY <1>1, <1>7, <1>8, <1>9, <1>10, <1>11, <1>12, <1>13, <1>14, RecordMove

LEMMA EndRoundStep ==
  ASSUME TurnsInv, NEW t \in Turns, EndRound(t), limits' = limits
  PROVE  TurnsInv'
  <1>1. PICK pc : pc = IF turn[t].loop + 1 < limits.loops THEN "stream" ELSE "loop_done"
    OBVIOUS
  <1>2. PICK r : r = [turn[t] EXCEPT !.pc = pc, !.loop = @ + 1, !.rate = 0, !.conn = 0,
                                    !.buffered = FALSE, !.attempt = 1]
    OBVIOUS
  <1>3. /\ turn[t] \in TurnRow /\ events[t] \in Seq(AgentEvent)
        /\ Counted(limits, turn[t]) /\ EventsOK(turn[t], events[t])
    BY RowFacts DEF TurnOK
  <1>4. /\ turn[t].pc = "dispatch" /\ turn[t].blocks = <<>>
        /\ Record(t, r, Msg(t, turn[t].agent, "results", turn[t].results))
        /\ history' = history /\ asked' = asked /\ events' = events
    BY <1>1, <1>2 DEF EndRound, Quiet
  <1>5. /\ limits.loops \in Nat /\ limits.blocks \in Nat /\ limits.rate \in Nat
        /\ limits.conn \in Nat
    BY LimitsTyped DEF TurnsInv, Shape
  <1>6. turn[t].loop \in 0..limits.loops /\ turn[t].loop < limits.loops
        /\ turn[t].results \in 0..limits.blocks
    BY <1>3, <1>4 DEF TurnRow, Counted
  <1>7. turn[t].loop + 1 \in 0..limits.loops /\ 0 \in 0..limits.rate /\ 0 \in 0..limits.conn
    BY <1>5, <1>6
  <1>8. pc \in {"stream", "loop_done"} /\ (pc = "stream" => turn[t].loop + 1 < limits.loops)
    BY <1>1
  <1>9. r \in TurnRow
    BY <1>2, <1>3, <1>7, <1>8 DEF TurnRow, PCs
  <1>10. /\ r.pc = pc /\ r.agent = turn[t].agent /\ r.working = turn[t].working
         /\ r.loop = turn[t].loop + 1 /\ r.rate = 0 /\ r.conn = 0 /\ r.attempt = 1
    BY <1>2, <1>3 DEF TurnRow
  <1>11. Counted(limits, r)
    BY <1>8, <1>10 DEF Counted
  <1>12. EventsOK(r, events[t])
    <2>1. \A e \in AgentEvent : e.loop \in Int
      BY <1>5 DEF AgentEvent
    <2>2. turn[t].loop \in Int
      BY <1>5, <1>6
    <2> QED BY <1>3, <1>4, <1>8, <1>10, <2>1, <2>2, NextRound
  <1>13. events' = [events EXCEPT ![t] = events[t]]
    BY <1>4 DEF TurnsInv, Shape
  <1> QED
    BY <1>3, <1>4, <1>6, <1>8, <1>9, <1>10, <1>11, <1>12, <1>13, ResultsMove DEF Dispatching

LEMMA InterceptStep ==
  ASSUME TurnsInv, NEW t \in Turns, Intercept(t), limits' = limits
  PROVE  TurnsInv'
  <1>1. PICK b : b = Head(turn[t].blocks)
    OBVIOUS
  <1>2. PICK r : r = [turn[t] EXCEPT !.pc = "loop_done", !.blocks = <<>>,
                                    !.handoff = (b = "handoff"), !.errored = (b = "handoff_unknown")]
    OBVIOUS
  <1>3. /\ turn[t] \in TurnRow /\ events[t] \in Seq(AgentEvent)
        /\ Counted(limits, turn[t]) /\ EventsOK(turn[t], events[t])
    BY RowFacts DEF TurnOK
  <1>4. PICK evs : evs = CASE b = "handoff" -> <<>>
                           [] b = "handoff_unknown" -> <<Event("error", turn[t])>>
                           [] b = "clarify" -> <<Event("delta", turn[t])>>
    OBVIOUS
  <1>5. /\ turn[t].pc = "invoke" /\ turn[t].agent = "orchestrator"
        /\ Record(t, r, Msg(t, "orchestrator", "results", turn[t].results + 1))
        /\ history' = history /\ asked' = asked /\ Emit(t, evs)
    BY <1>1, <1>2, <1>4 DEF Intercept
  <1>6. /\ BlocksOK(turn[t], made[t][turn[t].agent])
        /\ turn[t].blocks \in Seq(ToolsOf("orchestrator") \cup ToolsOf("domain"))
        /\ turn[t].results \in Nat /\ Len(turn[t].blocks) \in Nat
        /\ turn[t].results + Len(turn[t].blocks) \in 0..limits.blocks
    BY <1>5, BlocksFacts DEF Dispatching
  <1>7. limits.blocks \in Nat
    BY LimitsTyped DEF TurnsInv, Shape
  <1>8. PICK bs : bs = turn[t].blocks
    OBVIOUS
  <1>9. bs # <<>> /\ \A i \in DOMAIN bs : bs[i] \in ToolsOf("orchestrator")
    BY <1>5, <1>6, <1>8 DEF BlocksOK, Dispatching
  <1>10. Len(bs) \in Nat \ {0} /\ DOMAIN bs = 1..Len(bs)
    BY <1>6, <1>8, <1>9, EmptySeq, LenProperties
  <1>11. b \in {"handoff", "handoff_unknown", "clarify"}
    <2>1. 1 \in DOMAIN bs /\ Head(bs) = bs[1]
      BY <1>6, <1>8, <1>10
    <2> QED BY <1>1, <1>8, <1>9, <2>1 DEF ToolsOf
  <1>12. turn[t].results + 1 \in 0..limits.blocks
    BY <1>6, <1>7, <1>8, <1>10
  <1>13. r \in TurnRow
    <2>1. <<>> \in Seq(ToolsOf("orchestrator") \cup ToolsOf("domain"))
      BY EmptySeq
    <2>2. (b = "handoff") \in BOOLEAN /\ (b = "handoff_unknown") \in BOOLEAN
      OBVIOUS
    <2> QED BY <1>2, <1>3, <2>1, <2>2 DEF TurnRow, PCs
  <1>14. /\ r.pc = "loop_done" /\ r.agent = turn[t].agent /\ r.working = turn[t].working
         /\ r.loop = turn[t].loop /\ r.rate = turn[t].rate /\ r.conn = turn[t].conn
         /\ r.attempt = turn[t].attempt
    BY <1>2, <1>3 DEF TurnRow
  <1>15. Counted(limits, r)
    BY <1>3, <1>14 DEF Counted
  <1>16. PICK es : es = events[t] \o evs
    OBVIOUS
  <1>17. events' = [events EXCEPT ![t] = es]
    BY <1>5, <1>16 DEF Emit
  <1>18. es \in Seq(AgentEvent) /\ EventsOK(r, es)
    <2>1. CASE b = "handoff"
      <3>1. es = events[t]
        BY <1>3, <1>4, <1>16, <2>1, ConcatEmptySeq
      <3> QED BY <1>3, <1>5, <1>14, <3>1, SameRound
    <2>2. ASSUME NEW kind \in {"error", "delta"}, evs = <<Event(kind, turn[t])>>
          PROVE  es \in Seq(AgentEvent) /\ EventsOK(r, es)
      <3>1. PICK e : e = Event(kind, turn[t])
        OBVIOUS
      <3>2. /\ e \in AgentEvent /\ e.kind = kind /\ e.agent = turn[t].agent
            /\ e.loop = turn[t].loop /\ e.attempt = turn[t].attempt
        BY <3>1, EventTyped DEF Kinds
      <3>3. es = events[t] \o <<e>>
        BY <1>16, <2>2, <3>1
      <3>4. es \in Seq(AgentEvent)
        BY <1>3, <3>2, <3>3, AppendIsConcat, AppendProperties
      <3>5. turn[t].loop \in Int
        BY <1>3, LimitsTyped DEF TurnRow, TurnsInv, Shape
      <3> QED BY <1>3, <1>5, <1>14, <3>2, <3>3, <3>4, <3>5, EmitOne
    <2>3. CASE b = "handoff_unknown"
      BY <1>4, <2>2, <2>3
    <2>4. CASE b = "clarify"
      BY <1>4, <2>2, <2>4
    <2> QED BY <1>11, <2>1, <2>3, <2>4
  <1> QED
    BY <1>5, <1>12, <1>13, <1>14, <1>15, <1>17, <1>18, ResultsMove DEF Dispatching

-----------------------------------------------------------------------------
(* What is written to a transcript.                                        *)

(* MidLoopAnswered of one transcript.                                      *)
MidAnswered(h) ==
    \A i \in DOMAIN h : AsksTools(h[i]) =>
        \/ Answered(h, i)
        \/ \A j \in (i + 1)..Len(h) :
              ~(/\ h[j].role = "assistant"
                /\ h[j].turn = h[i].turn
                /\ h[j].agent = h[i].agent)

LEMMA MidLoop == MidLoopAnswered <=> \A s \in Sessions : MidAnswered(history[s])
  BY DEF MidLoopAnswered, MidAnswered

(* g is h with the end of ms, whose places are d further on.               *)
GrownBy(h, g, ms, d) ==
    /\ Len(h) <= Len(g)
    /\ \A i \in 1..Len(h) : g[i] = h[i]
    /\ \A i \in (Len(h) + 1)..Len(g) : i + d \in 1..Len(ms) /\ g[i] = ms[i + d]

NothingOf(h, t, a) ==
    \A i \in DOMAIN h : h[i].role = "assistant" => ~(h[i].turn = t /\ h[i].agent = a)

(* The end of a sequence, from place k on.                                 *)
LEMMA EndOf ==
  ASSUME NEW M, NEW w \in Seq(M), NEW k \in Nat \ {0}
  PROVE  /\ SubSeq(w, k, Len(w)) \in Seq(M)
         /\ Len(SubSeq(w, k, Len(w))) = IF k <= Len(w) THEN Len(w) - k + 1 ELSE 0
         /\ \A i \in 1..(Len(w) - k + 1) : SubSeq(w, k, Len(w))[i] = w[k + i - 1]
  <1>1. Len(w) \in Nat /\ DOMAIN w = 1..Len(w)
    BY LenProperties
  <1>2. /\ SubSeq(w, k, Len(w)) \in Seq(M)
        /\ Len(SubSeq(w, k, Len(w))) = IF k <= Len(w) THEN Len(w) - k + 1 ELSE 0
    BY <1>1
  <1>3. \A i \in 1..(Len(w) - k + 1) : SubSeq(w, k, Len(w))[i] = w[k + i - 1]
    BY <1>1
  <1> QED BY <1>2, <1>3

(* What _sync_history adds: the loop's own messages from some place on.    *)
LEMMA SyncedAdds ==
  ASSUME NEW M, NEW h \in Seq(M), NEW w \in Seq(M), NEW ms \in Seq(M),
         NEW skip \in 0..1, NEW b \in Nat,
         Len(w) = b + Len(ms), b <= Len(h) + skip,
         \A i \in DOMAIN ms : w[b + i] = ms[i]
  PROVE  Synced(h, w, skip) \in Seq(M) /\ \E d \in Int : GrownBy(h, Synced(h, w, skip), ms, d)
  <1>1. /\ Len(h) \in Nat /\ Len(w) \in Nat /\ Len(ms) \in Nat /\ skip \in Nat
        /\ DOMAIN w = 1..Len(w) /\ DOMAIN ms = 1..Len(ms)
    BY LenProperties
  <1>2. PICK k : k = Len(h) + skip + 1
    OBVIOUS
  <1>3. PICK x : x = SubSeq(w, k, Len(w))
    OBVIOUS
  <1>4. k \in Nat /\ k >= 1 /\ b < k
    BY <1>1, <1>2
  <1>5. k \in Nat \ {0}
    BY <1>4
  <1>6. /\ x \in Seq(M) /\ Len(x) = IF k <= Len(w) THEN Len(w) - k + 1 ELSE 0
        /\ \A i \in 1..(Len(w) - k + 1) : x[i] = w[k + i - 1]
    BY <1>3, <1>5, EndOf
  <1>7. PICK g : g = Synced(h, w, skip)
    OBVIOUS
  <1>8. g = h \o x
    BY <1>2, <1>3, <1>7 DEF Synced
  <1>9. /\ g \in Seq(M) /\ Len(g) = Len(h) + Len(x)
        /\ \A i \in 1..(Len(h) + Len(x)) : g[i] = IF i <= Len(h) THEN h[i] ELSE x[i - Len(h)]
    <2>1. x \in Seq(M)
      BY <1>6
    <2>2. /\ h \o x \in Seq(M) /\ Len(h \o x) = Len(h) + Len(x)
          /\ \A i \in 1..(Len(h) + Len(x)) :
                (h \o x)[i] = IF i <= Len(h) THEN h[i] ELSE x[i - Len(h)]
      BY <2>1, ConcatProperties, SMTT(30)
    <2> QED BY <1>8, <2>2
  <1>10. Len(x) \in Nat
    BY <1>6, LenProperties
  <1>11. \A i \in 1..Len(h) : g[i] = h[i]
    BY <1>1, <1>9, <1>10
  <1>12. PICK d : d = k - 1 - Len(h) - b
    OBVIOUS
  <1>13. d \in Int
    BY <1>1, <1>4, <1>12
  <1>14. ASSUME NEW i \in (Len(h) + 1)..Len(g)
         PROVE  i + d \in 1..Len(ms) /\ g[i] = ms[i + d]
    <2>1. i \in Int /\ i - Len(h) \in 1..Len(x) /\ i \in 1..(Len(h) + Len(x)) /\ ~(i <= Len(h))
      BY <1>1, <1>9, <1>10
    <2>2. Len(x) = Len(w) - k + 1 /\ k <= Len(w)
      BY <1>1, <1>4, <1>6, <1>10, <2>1
    <2>3. g[i] = x[i - Len(h)]
      BY <1>9, <2>1
    <2>4. x[i - Len(h)] = w[k + (i - Len(h)) - 1]
      BY <1>6, <2>1, <2>2
    <2>5. i + d \in 1..Len(ms) /\ k + (i - Len(h)) - 1 = b + (i + d)
      BY <1>1, <1>4, <1>12, <2>1, <2>2
    <2> QED BY <1>1, <2>3, <2>4, <2>5
  <1>15. Len(h) <= Len(g)
    BY <1>1, <1>9, <1>10
  <1>16. GrownBy(h, g, ms, d)
    BY <1>11, <1>14, <1>15 DEF GrownBy
  <1> QED BY <1>7, <1>9, <1>13, <1>16

(* They are answered as in the loop, and nothing before them is theirs.    *)
LEMMA SyncedAnswered ==
  ASSUME NEW M, NEW h \in Seq(M), NEW g \in Seq(M), NEW ms \in Seq(M), NEW d \in Int,
         NEW t, NEW a, GrownBy(h, g, ms, d), MidAnswered(h), NothingOf(h, t, a),
         LastOrAnswered(ms), OwnMessages(t, a, ms)
  PROVE  MidAnswered(g)
  <1>1. /\ Len(h) \in Nat /\ Len(g) \in Nat /\ Len(ms) \in Nat
        /\ DOMAIN h = 1..Len(h) /\ DOMAIN g = 1..Len(g) /\ DOMAIN ms = 1..Len(ms)
    BY LenProperties
  <1>2. Len(h) <= Len(g)
    BY DEF GrownBy
  <1>3. ASSUME NEW i \in 1..Len(g), AsksTools(g[i]), ~Answered(g, i),
               NEW j \in (i + 1)..Len(g),
               g[j].role = "assistant", g[j].turn = g[i].turn, g[j].agent = g[i].agent
        PROVE  FALSE
    <2>1. i \in Nat /\ j \in Nat /\ i < j /\ j <= Len(g) /\ 1 <= i
      BY <1>1
    <2>2. CASE i <= Len(h)
      <3>1. i \in 1..Len(h)
        BY <1>1, <2>1, <2>2
      <3>2. g[i] = h[i]
        BY <3>1 DEF GrownBy
      <3>3. ~Answered(h, i)
        <4> SUFFICES ASSUME Answered(h, i) PROVE FALSE
          OBVIOUS
        <4>1. i < Len(h) /\ h[i + 1] = Msg(h[i].turn, h[i].agent, "results", h[i].n)
          BY DEF Answered
        <4>2. i + 1 \in 1..Len(h) /\ i < Len(g)
          BY <1>1, <1>2, <2>1, <4>1
        <4>3. g[i + 1] = h[i + 1]
          BY <4>2 DEF GrownBy
        <4> QED BY <1>3, <3>2, <4>1, <4>2, <4>3 DEF Answered
      <3>4. CASE j <= Len(h)
        <4>1. j \in 1..Len(h) /\ j \in (i + 1)..Len(h)
          BY <1>1, <2>1, <3>4
        <4>2. g[j] = h[j]
          BY <4>1 DEF GrownBy
        <4>3. i \in DOMAIN h
          BY <1>1, <3>1
        <4> QED BY <1>3, <3>2, <3>3, <4>1, <4>2, <4>3 DEF MidAnswered
      <3>5. CASE j > Len(h)
        <4>1. j \in (Len(h) + 1)..Len(g)
          BY <1>1, <2>1, <3>5
        <4>2. j + d \in 1..Len(ms) /\ g[j] = ms[j + d]
          BY <4>1 DEF GrownBy
        <4>3. g[j].turn = t /\ g[j].agent = a
          BY <1>1, <4>2 DEF OwnMessages
        <4>4. h[i].role = "assistant" /\ i \in DOMAIN h
          BY <1>1, <1>3, <3>1, <3>2 DEF AsksTools
        <4> QED BY <1>3, <3>2, <4>3, <4>4 DEF NothingOf
      <3> QED BY <1>1, <2>1, <3>4, <3>5
    <2>3. CASE i > Len(h)
      <3>1. /\ i \in (Len(h) + 1)..Len(g) /\ j \in (Len(h) + 1)..Len(g)
            /\ i + 1 \in (Len(h) + 1)..Len(g) /\ i < Len(g)
        BY <1>1, <2>1, <2>3
      <3>2. /\ i + d \in 1..Len(ms) /\ g[i] = ms[i + d]
            /\ j + d \in 1..Len(ms) /\ g[j] = ms[j + d]
            /\ g[i + 1] = ms[(i + 1) + d]
        BY <3>1 DEF GrownBy
      <3>3. PICK k : k = i + d
        OBVIOUS
      <3>4. k \in DOMAIN ms /\ j + d \in (k + 1)..Len(ms) /\ (i + 1) + d = k + 1
        BY <1>1, <2>1, <3>2, <3>3
      <3>5. Answered(ms, k)
        BY <1>3, <3>2, <3>3, <3>4 DEF LastOrAnswered
      <3>6. g[i + 1] = ms[k + 1] /\ g[i] = ms[k]
        BY <3>2, <3>3, <3>4
      <3> QED BY <1>3, <3>1, <3>5, <3>6 DEF Answered
    <2> QED BY <1>1, <2>1, <2>2, <2>3
  <1> QED BY <1>1, <1>3 DEF MidAnswered

(* A message that asks for nothing can be added to any transcript.         *)
LEMMA AddedAnswered ==
  ASSUME NEW M, NEW h \in Seq(M), NEW x \in M, x.role = "user", MidAnswered(h)
  PROVE  MidAnswered(Append(h, x))
  <1>1. PICK g : g = Append(h, x)
    OBVIOUS
  <1>2. /\ Len(h) \in Nat /\ DOMAIN h = 1..Len(h) /\ Len(g) = Len(h) + 1
        /\ DOMAIN g = 1..(Len(h) + 1) /\ g[Len(h) + 1] = x
        /\ \A i \in 1..Len(h) : g[i] = h[i]
    BY <1>1, Appended
  <1>3. ASSUME NEW i \in DOMAIN g, AsksTools(g[i]), ~Answered(g, i),
               NEW j \in (i + 1)..Len(g), g[j].role = "assistant",
               g[j].turn = g[i].turn, g[j].agent = g[i].agent
        PROVE  FALSE
    <2>1. i \in 1..Len(h)
      <3>1. i # Len(h) + 1
        BY <1>2, <1>3 DEF AsksTools
      <3> QED BY <1>2, <3>1
    <2>2. ~Answered(h, i)
      BY <1>1, <1>3, <2>1, AnswerStays
    <2>3. j \in (i + 1)..Len(h)
      <3>1. j # Len(h) + 1
        BY <1>2, <1>3
      <3> QED BY <1>2, <2>1, <3>1
    <2>4. g[i] = h[i] /\ g[j] = h[j]
      BY <1>2, <2>1, <2>3
    <2> QED BY <1>2, <1>3, <2>1, <2>2, <2>3, <2>4 DEF MidAnswered
  <1> QED BY <1>1, <1>3 DEF MidAnswered

(* Each assistant message of g was in h, or is of turn t, whose agent is   *)
(* done with it in row q.                                                  *)
KeptOrOwn(g, h, t, q) ==
    \A i \in DOMAIN g :
        \/ g[i].role # "assistant"
        \/ i \in DOMAIN h /\ g[i] = h[i]
        \/ g[i].turn = t /\ Persisted(q, g[i].agent)

(* Agents that have persisted their messages in row r have so in row q.    *)
StayPersisted(r, q) == \A a \in Agents : Persisted(r, a) => Persisted(q, a)

(* A step that writes to the transcript of its session.                    *)
LEMMA WriteMove ==
  ASSUME TurnsInv, NEW t \in Turns, NEW q \in TurnRow, NEW g \in Seq(Message),
         limits' = limits, asked' = asked, made' = made, events' = events,
         history' = [history EXCEPT ![SessionOf[t]] = g],
         turn' = [turn EXCEPT ![t] = q],
         Len(history[SessionOf[t]]) <= Len(g), MidAnswered(g),
         KeptOrOwn(g, history[SessionOf[t]], t, q), StayPersisted(turn[t], q),
         TurnOK(limits, t, q, events[t], made[t], Len(g))
  PROVE  TurnsInv'
  <1>1. /\ SessionOf[t] \in Sessions /\ events[t] \in Seq(AgentEvent)
        /\ made[t] \in [Agents -> Seq(Message)]
    BY RowFacts
  <1>2. /\ history \in [Sessions -> Seq(Message)] /\ turn \in [Turns -> TurnRow]
        /\ events \in [Turns -> Seq(AgentEvent)] /\ asked \subseteq ApprovalIds
        /\ made \in [Turns -> [Agents -> Seq(Message)]]
    BY DEF TurnsInv, Shape
  <1>3. /\ history' \in [Sessions -> Seq(Message)]
        /\ \A s \in Sessions : history'[s] = IF s = SessionOf[t] THEN g ELSE history[s]
    BY <1>1, <1>2
  <1>4. \A s \in Sessions : Len(history[s]) <= Len(history'[s])
    <2>1. \A s \in Sessions : Len(history[s]) \in Nat
      BY <1>2, LenProperties
    <2> QED BY <1>3, <2>1
  <1>5. MidLoopAnswered'
    <2>1. \A s \in Sessions : MidAnswered(history[s])
      BY MidLoop DEF TurnsInv
    <2>2. \A s \in Sessions : MidAnswered(history'[s])
      BY <1>3, <2>1
    <2> QED BY <2>2 DEF MidLoopAnswered, MidAnswered
  <1>6. PersistedOnce'
    <2> SUFFICES ASSUME NEW s \in Sessions, NEW i \in DOMAIN history'[s],
                        history'[s][i].role = "assistant"
                 PROVE  Persisted(turn'[history'[s][i].turn], history'[s][i].agent)
      BY DEF PersistedOnce
    <2>1. ASSUME i \in DOMAIN history[s], history'[s][i] = history[s][i]
          PROVE  Persisted(turn'[history'[s][i].turn], history'[s][i].agent)
      <3>1. Persisted(turn[history[s][i].turn], history[s][i].agent)
        BY <2>1 DEF TurnsInv, PersistedOnce
      <3>2. history[s][i] \in Message
        BY <1>2, <2>1, ElementOfSeq, LenProperties
      <3>3. history[s][i].turn \in Turns /\ history[s][i].agent \in Agents
        BY <3>2 DEF Message
      <3>4. turn'[history[s][i].turn] = IF history[s][i].turn = t THEN q
                                       ELSE turn[history[s][i].turn]
        BY <1>2, <3>3
      <3> QED BY <2>1, <3>1, <3>3, <3>4 DEF StayPersisted
    <2>2. CASE s # SessionOf[t]
      BY <1>3, <2>1, <2>2
    <2>3. CASE s = SessionOf[t]
      <3>1. history'[s] = g
        BY <1>3, <2>3
      <3>2. \/ i \in DOMAIN history[s] /\ history'[s][i] = history[s][i]
            \/ g[i].turn = t /\ Persisted(q, g[i].agent)
        BY <2>3, <3>1 DEF KeptOrOwn
      <3>3. turn'[t] = q
        BY <1>2
      <3> QED BY <2>1, <3>1, <3>2, <3>3
    <2> QED BY <2>2, <2>3
  <1>7. events' = [events EXCEPT ![t] = events[t]] /\ made' = [made EXCEPT ![t] = made[t]]
    BY <1>2
  <1>8. TurnOK(limits, t, q, events[t], made[t], Len(history'[SessionOf[t]]))
    BY <1>1, <1>3
  <1>9. asked' \subseteq ApprovalIds /\ history' \in [Sessions -> Seq(Message)]
    BY <1>2, <1>3
  <1> QED BY <1>1, <1>4, <1>5, <1>6, <1>7, <1>8, <1>9, TurnMoves

LEMMA AcceptStep ==
  ASSUME TurnsInv, NEW t \in Turns, Accept(t), limits' = limits
  PROVE  TurnsInv'
  <1>1. PICK h : h = history[SessionOf[t]]
    OBVIOUS
  <1>2. PICK x : x = Msg(t, "orchestrator", "user", 0)
    OBVIOUS
  <1>3. PICK g : g = Append(h, x)
    OBVIOUS
  <1>4. PICK q : q = [turn[t] EXCEPT !.pc = "stream", !.working = g]
    OBVIOUS
  <1>5. /\ turn[t] \in TurnRow /\ SessionOf[t] \in Sessions /\ h \in Seq(Message)
        /\ made[t] \in [Agents -> Seq(Message)]
        /\ Counted(limits, turn[t]) /\ EventsOK(turn[t], events[t]) /\ MessagesOK(t, turn[t], made[t])
    BY <1>1, RowFacts DEF TurnOK
  <1>6. limits.blocks \in Nat /\ limits.loops \in Nat \ {0}
    BY LimitsTyped DEF TurnsInv, Shape
  <1>7. x \in Message /\ x.role = "user"
    <2>1. 0 \in 0..limits.blocks
      BY <1>6
    <2> QED BY <1>2, <2>1, MessageTyped DEF Agents
  <1>8. /\ g \in Seq(Message) /\ Len(g) = Len(h) + 1 /\ Len(h) \in Nat /\ DOMAIN h = 1..Len(h)
        /\ DOMAIN g = 1..(Len(h) + 1) /\ g[Len(h) + 1] = x /\ \A i \in 1..Len(h) : g[i] = h[i]
    BY <1>3, <1>5, <1>7, Appended
  <1>9. q \in TurnRow
    BY <1>4, <1>5, <1>8 DEF TurnRow, PCs
  <1>10. /\ q.pc = "stream" /\ q.agent = turn[t].agent /\ q.working = g
         /\ q.loop = turn[t].loop /\ q.rate = turn[t].rate /\ q.conn = turn[t].conn
         /\ q.attempt = turn[t].attempt
    BY <1>4, <1>5 DEF TurnRow
  <1>11. /\ turn[t].pc = "gates" /\ history' = [history EXCEPT ![SessionOf[t]] = g]
         /\ turn' = [turn EXCEPT ![t] = q]
         /\ events' = events /\ asked' = asked /\ made' = made
    <2>1. turn' = [turn EXCEPT ![t] = q]
      BY <1>1, <1>2, <1>3, <1>4 DEF Accept, TurnsInv, Shape
    <2> QED BY <1>1, <1>2, <1>3, <2>1 DEF Accept, Quiet
  <1>12. MidAnswered(g)
    <2>1. MidAnswered(h)
      BY <1>1, <1>5, MidLoop DEF TurnsInv
    <2> QED BY <1>3, <1>5, <1>7, <2>1, AddedAnswered
  <1>13. TurnOK(limits, t, q, events[t], made[t], Len(g))
    <2>1. Counted(limits, q)
      BY <1>5, <1>6, <1>10, <1>11 DEF Counted
    <2>2. EventsOK(q, events[t])
      BY <1>5, <1>10, <1>11, SameRound
    <2>3. q.agent = "orchestrator" /\ made[t][q.agent] = <<>> /\ Len(<<>>) = 0
          /\ DOMAIN <<>> = 1..0
      BY <1>5, <1>10, <1>11, EmptySeq, LenProperties DEF Counted, MessagesOK
    <2>4. AnsweredTo(<<>>, 0)
      BY DEF AnsweredTo
    <2>5. BlocksOK(q, <<>>)
      BY <1>10 DEF BlocksOK, Dispatching
    <2>6. MessagesOK(t, q, made[t])
      BY <1>5, <1>10, <2>3, <2>4, <2>5 DEF MessagesOK
    <2>7. WorkingOK(q, <<>>, Len(g))
      <3>1. Len(g) \in Nat /\ Len(q.working) = Len(g) + 0
            /\ Len(g) <= Len(g) + (IF q.agent = "domain" THEN 1 ELSE 0)
        BY <1>8, <1>10, <2>3
      <3> QED BY <2>3, <3>1 DEF WorkingOK
    <2> QED BY <2>1, <2>2, <2>3, <2>6, <2>7 DEF TurnOK
  <1>14. StayPersisted(turn[t], q)
    BY <1>5, <1>10, <1>11 DEF StayPersisted, Persisted, Counted, Over
  <1>15. KeptOrOwn(g, h, t, q)
    BY <1>7, <1>8 DEF KeptOrOwn
  <1>16. Len(h) <= Len(g)
    BY <1>8
  <1> QED BY <1>1, <1>8, <1>9, <1>11, <1>12, <1>13, <1>14, <1>15, <1>16, WriteMove

-----------------------------------------------------------------------------
(* The loop is over and its messages go to the transcript.                 *)

(* The transcript after a sync: the old one and the loop's own messages.   *)
LEMMA SyncFacts ==
  ASSUME TurnsInv, NEW t \in Turns, turn[t].pc = "loop_done",
         NEW skip \in 0..1, skip = IF turn[t].agent = "domain" THEN 1 ELSE 0,
         NEW g, g = Synced(history[SessionOf[t]], turn[t].working, skip),
         NEW q, q.agent = turn[t].agent => q.pc \in Over,
         q.agent # turn[t].agent => q.agent = "domain"
  PROVE  /\ g \in Seq(Message) /\ Len(history[SessionOf[t]]) <= Len(g)
         /\ MidAnswered(g)
         /\ KeptOrOwn(g, history[SessionOf[t]], t, q) /\ StayPersisted(turn[t], q)
  <1>1. PICK a : a = turn[t].agent
    OBVIOUS
  <1>2. PICK ms : ms = made[t][a]
    OBVIOUS
  <1>3. PICK h : h = history[SessionOf[t]]
    OBVIOUS
  <1>4. PICK w : w = turn[t].working
    OBVIOUS
  <1>5. /\ a \in Agents /\ w \in Seq(Message) /\ h \in Seq(Message) /\ ms \in Seq(Message)
        /\ SessionOf[t] \in Sessions
    BY <1>1, <1>2, <1>3, <1>4, RowFacts DEF TurnRow
  <1>6. WorkingOK(turn[t], ms, Len(h)) /\ MessagesOK(t, turn[t], made[t])
    BY <1>1, <1>2, <1>3, RowFacts DEF TurnOK
  <1>7. PICK b \in Nat : /\ Len(w) = b + Len(ms) /\ b <= Len(h) + skip
                         /\ \A i \in DOMAIN ms : w[b + i] = ms[i]
    BY <1>1, <1>4, <1>6 DEF WorkingOK, Looping
  <1>8. g \in Seq(Message) /\ \E d \in Int : GrownBy(h, g, ms, d)
    <2>1. g = Synced(h, w, skip)
      BY <1>3, <1>4
    <2>2. Synced(h, w, skip) \in Seq(Message)
          /\ \E d \in Int : GrownBy(h, Synced(h, w, skip), ms, d)
      BY <1>5, <1>7, SyncedAdds
    <2> QED BY <2>1, <2>2
  <1>9. PICK d \in Int : GrownBy(h, g, ms, d)
    BY <1>8
  <1>10. OwnMessages(t, a, ms) /\ LastOrAnswered(ms)
    BY <1>2, <1>5, <1>6 DEF MessagesOK
  <1>11. ~Persisted(turn[t], a)
    BY <1>1 DEF Persisted, Over
  <1>12. NothingOf(h, t, a)
    BY <1>3, <1>5, <1>11 DEF TurnsInv, PersistedOnce, NothingOf
  <1>13. MidAnswered(h)
    BY <1>3, <1>5, MidLoop DEF TurnsInv
  <1>14. MidAnswered(g)
    BY <1>5, <1>8, <1>9, <1>10, <1>12, <1>13, SyncedAnswered
  <1>15. Len(h) <= Len(g)
    BY <1>9 DEF GrownBy
  <1>16. Persisted(q, a)
    BY <1>1 DEF Persisted
  <1>17. ASSUME NEW i \in DOMAIN g
         PROVE  (i \in DOMAIN h /\ g[i] = h[i]) \/ (g[i].turn = t /\ Persisted(q, g[i].agent))
    <2>1. /\ Len(h) \in Nat /\ Len(g) \in Nat /\ DOMAIN h = 1..Len(h)
          /\ DOMAIN g = 1..Len(g) /\ DOMAIN ms = 1..Len(ms)
      BY <1>5, <1>8, LenProperties
    <2>2. i \in 1..Len(h) \/ i \in (Len(h) + 1)..Len(g)
      BY <2>1
    <2>3. CASE i \in 1..Len(h)
      BY <1>9, <2>1, <2>3 DEF GrownBy
    <2>4. CASE i \in (Len(h) + 1)..Len(g)
      <3>1. i + d \in DOMAIN ms /\ g[i] = ms[i + d]
        BY <1>9, <2>1, <2>4 DEF GrownBy
      <3>2. g[i].turn = t /\ g[i].agent = a
        BY <1>10, <3>1 DEF OwnMessages
      <3> QED BY <1>16, <3>2
    <2> QED BY <2>2, <2>3, <2>4
  <1>18. StayPersisted(turn[t], q)
    BY <1>1, <1>11, <1>16 DEF StayPersisted, Persisted
  <1>19. KeptOrOwn(g, h, t, q)
    BY <1>17 DEF KeptOrOwn
  <1> QED BY <1>3, <1>8, <1>14, <1>15, <1>18, <1>19

(* The end of a turn's last loop.                                          *)
LEMMA ClosingMove ==
  ASSUME TurnsInv, NEW t \in Turns, turn[t].pc = "loop_done",
         NEW skip \in 0..1, skip = IF turn[t].agent = "domain" THEN 1 ELSE 0,
         NEW g, g = Synced(history[SessionOf[t]], turn[t].working, skip),
         NEW q, q = [turn[t] EXCEPT !.pc = "closing"],
         limits' = limits, asked' = asked, made' = made, events' = events,
         history' = [history EXCEPT ![SessionOf[t]] = g],
         turn' = [turn EXCEPT ![t] = q]
  PROVE  TurnsInv'
  <1>1. /\ turn[t] \in TurnRow /\ Counted(limits, turn[t])
        /\ EventsOK(turn[t], events[t]) /\ MessagesOK(t, turn[t], made[t])
    BY RowFacts DEF TurnOK
  <1>2. q \in TurnRow
    BY <1>1 DEF TurnRow, PCs
  <1>3. /\ q.pc = "closing" /\ q.agent = turn[t].agent /\ q.working = turn[t].working
        /\ q.loop = turn[t].loop /\ q.rate = turn[t].rate /\ q.conn = turn[t].conn
        /\ q.attempt = turn[t].attempt
    BY <1>1 DEF TurnRow
  <1>4. q.agent = turn[t].agent /\ q.pc \in Over
    BY <1>3 DEF Over
  <1>5. /\ g \in Seq(Message) /\ Len(history[SessionOf[t]]) <= Len(g)
        /\ MidAnswered(g)
        /\ KeptOrOwn(g, history[SessionOf[t]], t, q) /\ StayPersisted(turn[t], q)
    BY <1>4, SyncFacts
  <1>6. Counted(limits, q)
    BY <1>1, <1>3 DEF Counted
  <1>7. EventsOK(q, events[t])
    BY <1>1, <1>3, SameRound
  <1>8. MessagesOK(t, q, made[t])
    BY <1>1, <1>3 DEF MessagesOK, BlocksOK, Dispatching
  <1>9. WorkingOK(q, made[t][q.agent], Len(g))
    BY <1>3 DEF WorkingOK, Looping
  <1>10. TurnOK(limits, t, q, events[t], made[t], Len(g))
    BY <1>6, <1>7, <1>8, <1>9 DEF TurnOK
  <1> QED BY <1>2, <1>5, <1>10, WriteMove

LEMMA SyncDomainStep ==
  ASSUME TurnsInv, NEW t \in Turns, SyncDomain(t), limits' = limits
  PROVE  TurnsInv'
  <1>1. PICK g : g = Synced(history[SessionOf[t]], turn[t].working, 1)
    OBVIOUS
  <1>2. PICK q : q = [turn[t] EXCEPT !.pc = "closing"]
    OBVIOUS
  <1>3. SessionOf[t] \in Sessions
    BY RowFacts
  <1>4. /\ turn[t].pc = "loop_done" /\ turn[t].agent = "domain"
        /\ asked' = asked /\ made' = made /\ events' = events
    BY DEF SyncDomain, Quiet
  <1>5. history' = [history EXCEPT ![SessionOf[t]] = g]
    BY <1>1, <1>3 DEF SyncDomain, TurnsInv, Shape
  <1>6. turn' = [turn EXCEPT ![t] = q]
    BY <1>2 DEF SyncDomain, TurnsInv, Shape
  <1>7. 1 \in 0..1 /\ 1 = IF turn[t].agent = "domain" THEN 1 ELSE 0
    BY <1>4
  <1> QED BY <1>1, <1>2, <1>4, <1>5, <1>6, <1>7, ClosingMove

(* The domain agent starts from the transcript and its seed message.       *)
HandoffRow(r, w) ==
    [r EXCEPT !.pc = "stream", !.agent = "domain", !.loop = 0, !.working = w,
              !.rate = 0, !.conn = 0, !.buffered = FALSE, !.attempt = 1]

LEMMA HandoffTyped ==
  ASSUME limits \in Limits, NEW r \in TurnRow, NEW w \in Seq(Message)
  PROVE  HandoffRow(r, w) \in TurnRow
  <1>1. 0 \in 0..limits.loops /\ 0 \in 0..limits.rate /\ 0 \in 0..limits.conn
    BY LimitsTyped
  <1> QED BY <1>1 DEF HandoffRow, TurnRow, PCs, Agents

LEMMA HandoffMove ==
  ASSUME TurnsInv, NEW t \in Turns, turn[t].pc = "loop_done", turn[t].agent = "orchestrator",
         NEW g, g = Synced(history[SessionOf[t]], turn[t].working, 0),
         NEW q, q = HandoffRow(turn[t], Append(g, Msg(t, "domain", "user", 0))),
         limits' = limits, asked' = asked, made' = made, events' = events,
         history' = [history EXCEPT ![SessionOf[t]] = g],
         turn' = [turn EXCEPT ![t] = q]
  PROVE  TurnsInv'
  <1>1. PICK x : x = Msg(t, "domain", "user", 0)
    OBVIOUS
  <1>2. PICK w : w = Append(g, x)
    OBVIOUS
  <1>3. /\ turn[t] \in TurnRow /\ Counted(limits, turn[t])
        /\ EventsOK(turn[t], events[t]) /\ MessagesOK(t, turn[t], made[t])
    BY RowFacts DEF TurnOK
  <1>4. /\ limits.blocks \in Nat /\ limits.loops \in Nat \ {0}
        /\ limits.rate \in Nat /\ limits.conn \in Nat
    BY LimitsTyped DEF TurnsInv, Shape
  <1>5. /\ q.pc = "stream" /\ q.agent = "domain" /\ q.working = w
        /\ q.loop = 0 /\ q.rate = 0 /\ q.conn = 0 /\ q.attempt = 1
    BY <1>1, <1>2, <1>3 DEF TurnRow, HandoffRow
  <1>6. q.agent # turn[t].agent /\ q.agent = "domain"
    BY <1>5
  <1>7. 0 \in 0..1 /\ 0 = IF turn[t].agent = "domain" THEN 1 ELSE 0
    OBVIOUS
  <1>8. /\ g \in Seq(Message) /\ Len(history[SessionOf[t]]) <= Len(g)
        /\ MidAnswered(g)
        /\ KeptOrOwn(g, history[SessionOf[t]], t, q) /\ StayPersisted(turn[t], q)
    BY <1>6, <1>7, SyncFacts
  <1>9. 0 \in 0..limits.blocks /\ 0 \in 0..limits.loops /\ 0 \in 0..limits.rate
        /\ 0 \in 0..limits.conn /\ 0 < limits.loops
    BY <1>4
  <1>10. x \in Message
    BY <1>1, <1>9, MessageTyped DEF Agents
  <1>11. w \in Seq(Message) /\ Len(w) = Len(g) + 1 /\ Len(g) \in Nat
    BY <1>2, <1>8, <1>10, Appended
  <1>12. q \in TurnRow
    BY <1>1, <1>2, <1>3, <1>11, HandoffTyped DEF TurnsInv, Shape
  <1>13. Counted(limits, q)
    BY <1>5, <1>9 DEF Counted
  <1>14. EventsOK(q, events[t])
    BY <1>3, <1>5, HandedOff
  <1>15. made[t]["domain"] = <<>> /\ Len(<<>>) = 0 /\ DOMAIN <<>> = 1..0
    BY <1>3, EmptySeq, LenProperties DEF MessagesOK
  <1>16. MessagesOK(t, q, made[t])
    <2>1. AnsweredTo(<<>>, 0)
      BY DEF AnsweredTo
    <2>2. BlocksOK(q, made[t][q.agent])
      BY <1>5 DEF BlocksOK, Dispatching
    <2>3. \A a \in Agents : OwnMessages(t, a, made[t][a]) /\ LastOrAnswered(made[t][a])
      BY <1>3 DEF MessagesOK
    <2> QED BY <1>5, <1>15, <2>1, <2>2, <2>3 DEF MessagesOK
  <1>17. WorkingOK(q, made[t][q.agent], Len(g))
    <2>1. Len(q.working) = (Len(g) + 1) + 0 /\ Len(g) + 1 \in Nat
      BY <1>5, <1>11
    <2>2. Len(g) + 1 <= Len(g) + (IF q.agent = "domain" THEN 1 ELSE 0)
      BY <1>5, <1>11
    <2> QED BY <1>5, <1>15, <2>1, <2>2 DEF WorkingOK
  <1>18. TurnOK(limits, t, q, events[t], made[t], Len(g))
    BY <1>13, <1>14, <1>16, <1>17 DEF TurnOK
  <1> QED BY <1>8, <1>12, <1>18, WriteMove

LEMMA SyncOrchestratorStep ==
  ASSUME TurnsInv, NEW t \in Turns, SyncOrchestrator(t), limits' = limits
  PROVE  TurnsInv'
  <1>1. PICK g : g = Synced(history[SessionOf[t]], turn[t].working, 0)
    OBVIOUS
  <1>2. PICK c : c = [turn[t] EXCEPT !.pc = "closing"]
    OBVIOUS
  <1>3. PICK q : q = HandoffRow(turn[t], Append(g, Msg(t, "domain", "user", 0)))
    OBVIOUS
  <1>4. /\ turn[t].pc = "loop_done" /\ turn[t].agent = "orchestrator"
        /\ asked' = asked /\ made' = made /\ events' = events
        /\ history' = [history EXCEPT ![SessionOf[t]] = g]
    BY <1>1 DEF SyncOrchestrator, Quiet
  <1>5. turn' = [turn EXCEPT ![t] = q] \/ turn' = [turn EXCEPT ![t] = c]
    <2>1. CASE turn[t].handoff /\ ~turn[t].errored
      BY <1>1, <1>3, <2>1 DEF SyncOrchestrator, HandoffRow, TurnsInv, Shape
    <2>2. CASE ~(turn[t].handoff /\ ~turn[t].errored)
      BY <1>1, <1>2, <2>2 DEF SyncOrchestrator, TurnsInv, Shape
    <2> QED BY <2>1, <2>2
  <1>6. 0 \in 0..1 /\ 0 = IF turn[t].agent = "domain" THEN 1 ELSE 0
    BY <1>4
  <1>7. CASE turn' = [turn EXCEPT ![t] = q]
    BY <1>1, <1>3, <1>4, <1>7, HandoffMove
  <1>8. CASE turn' = [turn EXCEPT ![t] = c]
    BY <1>1, <1>2, <1>4, <1>6, <1>8, ClosingMove
  <1> QED BY <1>5, <1>7, <1>8

-----------------------------------------------------------------------------
(* A turn is sent.                                                         *)

(* What a row owes to the invariant is not in the fields Start writes for  *)
(* the turns it overlaps.                                                  *)
LEMMA SameTurn ==
  ASSUME NEW l, NEW t, NEW r, NEW q, NEW es, NEW m, NEW n, TurnOK(l, t, r, es, m, n),
         q.pc = r.pc, q.agent = r.agent, q.loop = r.loop, q.rate = r.rate, q.conn = r.conn,
         q.attempt = r.attempt, q.blocks = r.blocks, q.results = r.results,
         q.working = r.working
  PROVE  TurnOK(l, t, q, es, m, n)
  <1>1. Counted(l, q)
    BY DEF TurnOK, Counted
  <1>2. EventsOK(q, es)
    BY DEF TurnOK, EventsOK, FinalOK, DeltasPast
  <1>3. MessagesOK(t, q, m)
    BY DEF TurnOK, MessagesOK, BlocksOK
  <1>4. WorkingOK(q, m[q.agent], n)
    BY DEF TurnOK, WorkingOK
  <1> QED BY <1>1, <1>2, <1>3, <1>4 DEF TurnOK

LEMMA FreshTyped ==
  ASSUME limits \in Limits
  PROVE  Fresh \in TurnRow
  <1>1. /\ 0 \in 0..limits.loops /\ 0 \in 0..limits.rate /\ 0 \in 0..limits.conn
        /\ 0 \in 0..limits.blocks
    BY LimitsTyped
  <1>2. <<>> \in Seq(Message) /\ <<>> \in Seq(ToolsOf("orchestrator") \cup ToolsOf("domain"))
    BY EmptySeq
  <1> QED BY <1>1, <1>2 DEF Fresh, TurnRow, PCs, Agents

LEMMA StartStep ==
  ASSUME TurnsInv, NEW t \in Turns, Start(t), limits' = limits
  PROVE  TurnsInv'
  <1>1. PICK others : others = InProgress(SessionOf[t])
    OBVIOUS
  <1>2. PICK answers \in Answers(t), allowed \in BOOLEAN :
          turn' = [u \in Turns |->
                     IF u = t THEN [Fresh EXCEPT !.pc = "gates", !.approvals = answers,
                                                 !.allowed = allowed, !.met = others]
                     ELSE IF u \in others THEN [turn[u] EXCEPT !.met = @ \union {t}]
                     ELSE turn[u]]
    BY <1>1 DEF Start
  <1>3. /\ turn[t].pc = "idle" /\ history' = history /\ asked' = asked
        /\ events' = events /\ made' = made
    BY DEF Start
  <1>4. PICK q : q = [Fresh EXCEPT !.pc = "gates", !.approvals = answers,
                                   !.allowed = allowed, !.met = others]
    OBVIOUS
  <1>5. /\ limits \in Limits /\ asked \subseteq ApprovalIds /\ turn \in [Turns -> TurnRow]
        /\ history \in [Sessions -> Seq(Message)]
    BY DEF TurnsInv, Shape
  <1>6. q \in TurnRow
    <2>1. answers \in SUBSET (ApprovalIds \X Decisions)
      <3>1. answers \subseteq {id \in asked : SessionOf[id[1]] = SessionOf[t]} \X Decisions
        BY DEF Answers
      <3> QED BY <1>5, <3>1
    <2>2. others \subseteq Turns
      BY <1>1 DEF InProgress
    <2>3. Fresh \in TurnRow
      BY <1>5, FreshTyped
    <2> QED BY <1>4, <2>1, <2>2, <2>3 DEF TurnRow, PCs
  <1>7. /\ q.pc = "gates" /\ q.agent = "orchestrator" /\ q.loop = 0 /\ q.rate = 0
        /\ q.conn = 0 /\ q.attempt = 1
    BY <1>4 DEF Fresh
  <1>8. turn'[t] = q
    BY <1>2, <1>4
  <1>9. ASSUME NEW u \in Turns, u # t
        PROVE  /\ turn'[u] \in TurnRow
               /\ turn'[u].pc = turn[u].pc /\ turn'[u].agent = turn[u].agent
               /\ turn'[u].loop = turn[u].loop /\ turn'[u].rate = turn[u].rate
               /\ turn'[u].conn = turn[u].conn /\ turn'[u].attempt = turn[u].attempt
               /\ turn'[u].blocks = turn[u].blocks /\ turn'[u].results = turn[u].results
               /\ turn'[u].working = turn[u].working
    <2>1. turn[u] \in TurnRow
      BY <1>5
    <2>2. turn'[u] = turn[u] \/ turn'[u] = [turn[u] EXCEPT !.met = @ \union {t}]
      BY <1>2, <1>9
    <2>3. PICK r : r = turn'[u]
      OBVIOUS
    <2>4. r = turn[u] \/ r = [turn[u] EXCEPT !.met = @ \union {t}]
      BY <2>2, <2>3
    <2>5. r \in TurnRow
      <3>1. turn[u].met \cup {t} \in SUBSET Turns
        BY <2>1 DEF TurnRow
      <3>2. [turn[u] EXCEPT !.met = turn[u].met \cup {t}] \in TurnRow
        BY <2>1, <3>1 DEF TurnRow
      <3> QED BY <2>1, <2>4, <3>2
    <2>6. /\ r.pc = turn[u].pc /\ r.agent = turn[u].agent /\ r.loop = turn[u].loop
          /\ r.rate = turn[u].rate /\ r.conn = turn[u].conn /\ r.attempt = turn[u].attempt
          /\ r.blocks = turn[u].blocks /\ r.results = turn[u].results
          /\ r.working = turn[u].working
      BY <2>1, <2>4 DEF TurnRow
    <2> QED BY <2>3, <2>5, <2>6
  <1>10. Shape'
    <2>1. \A u \in Turns : turn'[u] \in TurnRow
      BY <1>6, <1>8, <1>9
    <2>2. turn' = [u \in Turns |-> turn'[u]]
      BY <1>2
    <2>3. turn' \in [Turns -> TurnRow]
      BY <2>1, <2>2
    <2>4. Shape
      BY DEF TurnsInv
    <2> QED BY <1>3, <2>3, <2>4, TypesStay DEF Shape
  <1>11. ASSUME NEW u \in Turns
         PROVE  TurnOK(limits, u, turn'[u], events[u], made[u], Len(history[SessionOf[u]]))
    <2>1. TurnOK(limits, u, turn[u], events[u], made[u], Len(history[SessionOf[u]]))
      BY RowFacts
    <2>2. CASE u # t
      BY <1>9, <2>1, <2>2, SameTurn
    <2>3. CASE u = t
      <3>1. /\ Counted(limits, turn[t]) /\ EventsOK(turn[t], events[t])
            /\ MessagesOK(t, turn[t], made[t])
        BY <2>1, <2>3 DEF TurnOK
      <3>2. Counted(limits, q)
        BY <1>7 DEF Counted
      <3>3. EventsOK(q, events[t])
        BY <1>3, <1>7, <3>1 DEF EventsOK, FinalOK, DeltasPast
      <3>4. turn[t].agent = "orchestrator"
        BY <1>3, <3>1 DEF Counted
      <3>5. MessagesOK(t, q, made[t])
        BY <1>3, <1>7, <3>1, <3>4 DEF MessagesOK, BlocksOK, Dispatching
      <3>6. WorkingOK(q, made[t][q.agent], Len(history[SessionOf[t]]))
        BY <1>7 DEF WorkingOK, Looping
      <3> QED BY <1>8, <2>3, <3>2, <3>3, <3>5, <3>6 DEF TurnOK
    <2> QED BY <2>2, <2>3
  <1>12. PersistedOnce'
    <2> SUFFICES ASSUME NEW s \in Sessions, NEW i \in DOMAIN history[s],
                        history[s][i].role = "assistant"
                 PROVE  Persisted(turn'[history[s][i].turn], history[s][i].agent)
      BY <1>3 DEF PersistedOnce
    <2>1. PICK x : x = history[s][i]
      OBVIOUS
    <2>2. Persisted(turn[x.turn], x.agent)
      BY <2>1 DEF TurnsInv, PersistedOnce
    <2>3. x \in Message
      BY <1>5, <2>1, ElementOfSeq, LenProperties
    <2>4. x.turn \in Turns
      BY <2>3 DEF Message
    <2>5. x.turn # t
      <3>1. turn[t].agent = "orchestrator"
        BY <1>3, RowFacts DEF TurnOK, Counted
      <3> QED BY <1>3, <2>2, <3>1 DEF Persisted, Over
    <2>6. turn'[x.turn].pc = turn[x.turn].pc /\ turn'[x.turn].agent = turn[x.turn].agent
      BY <1>9, <2>4, <2>5
    <2>7. Persisted(turn'[x.turn], x.agent)
      BY <2>2, <2>6 DEF Persisted
    <2> QED BY <2>1, <2>7
  <1>13. MidLoopAnswered'
    BY <1>3 DEF TurnsInv, MidLoopAnswered
  <1>14. \A u \in Turns :
            TurnOK(limits, u, turn[u], events[u], made[u], Len(history[SessionOf[u]]))'
    BY <1>3, <1>11
  <1> QED BY <1>10, <1>12, <1>13, <1>14 DEF TurnsInv

-----------------------------------------------------------------------------
(* The invariant holds of every behaviour.                                 *)

LEMMA TurnsInit == Init => TurnsInv
  <1> SUFFICES ASSUME Init PROVE TurnsInv
    OBVIOUS
  <1>1. /\ limits \in Limits /\ history = [s \in Sessions |-> <<>>] /\ asked = {}
        /\ turn = [t \in Turns |-> Fresh] /\ events = [t \in Turns |-> <<>>]
        /\ made = [t \in Turns |-> [a \in Agents |-> <<>>]]
    BY DEF Init
  <1>2. <<>> \in Seq(Message) /\ <<>> \in Seq(AgentEvent) /\ DOMAIN <<>> = {} /\ Len(<<>>) = 0
    BY EmptySeq
  <1>3. Shape
    <2>1. Fresh \in TurnRow
      BY <1>1, FreshTyped
    <2>2. turn \in [Turns -> TurnRow]
      BY <1>1, <2>1
    <2>3. [a \in Agents |-> <<>>] \in [Agents -> Seq(Message)]
      BY <1>2
    <2> QED BY <1>1, <1>2, <2>2, <2>3 DEF Shape
  <1>4. ASSUME NEW t \in Turns
        PROVE  TurnOK(limits, t, turn[t], events[t], made[t], Len(history[SessionOf[t]]))
    <2>1. PICK r : r = turn[t]
      OBVIOUS
    <2>2. /\ r.pc = "idle" /\ r.agent = "orchestrator" /\ r.loop = 0 /\ r.rate = 0
          /\ r.conn = 0 /\ r.attempt = 1
      BY <1>1, <2>1 DEF Fresh
    <2>3. events[t] = <<>> /\ \A a \in Agents : made[t][a] = <<>>
      BY <1>1
    <2>4. Counted(limits, r)
      BY <2>2 DEF Counted
    <2>5. EventsOK(r, <<>>)
      BY <1>2, <2>2 DEF EventsOK, FinalOK, DeltasPast, OneAttempt
    <2>6. \A a : OwnMessages(t, a, <<>>) /\ LastOrAnswered(<<>>)
      BY <1>2 DEF OwnMessages, LastOrAnswered
    <2>7. MessagesOK(t, r, made[t])
      BY <2>2, <2>3, <2>6 DEF MessagesOK, BlocksOK, Dispatching, Agents
    <2>8. WorkingOK(r, made[t][r.agent], Len(history[SessionOf[t]]))
      BY <2>2 DEF WorkingOK, Looping
    <2> QED BY <2>1, <2>3, <2>4, <2>5, <2>7, <2>8 DEF TurnOK
  <1>5. PersistedOnce /\ MidLoopAnswered
    BY <1>1, <1>2 DEF PersistedOnce, MidLoopAnswered
  <1> QED BY <1>3, <1>4, <1>5 DEF TurnsInv

LEMMA TurnsStutter ==
  ASSUME TurnsInv, UNCHANGED vars
  PROVE  TurnsInv'
  <1>1. /\ limits' = limits /\ history' = history /\ asked' = asked /\ turn' = turn
        /\ events' = events /\ made' = made
    BY DEF vars
  <1>2. Shape'
    BY <1>1, TypesStay DEF TurnsInv, Shape
  <1>3. PersistedOnce' /\ MidLoopAnswered'
    BY <1>1 DEF TurnsInv, PersistedOnce, MidLoopAnswered
  <1>4. \A t \in Turns :
            TurnOK(limits, t, turn[t], events[t], made[t], Len(history[SessionOf[t]]))'
    BY <1>1 DEF TurnsInv
  <1> QED BY <1>2, <1>3, <1>4 DEF TurnsInv

LEMMA TurnsStep ==
  ASSUME TurnsInv, [Next]_vars
  PROVE  TurnsInv'
  <1>1. CASE UNCHANGED vars
    BY <1>1, TurnsStutter
  <1>2. ASSUME NEW t \in Turns, Step(t) PROVE TurnsInv'
    <2>1. Progress(t) /\ limits' = limits
      BY <1>2 DEF Step
    <2>2. CASE GateRefuses(t)
      BY <2>1, <2>2, GateRefusesStep
    <2>12. CASE GateRaises(t)
      BY <2>1, <2>12, GateRaisesStep
    <2>3. CASE Accept(t)
      BY <2>1, <2>3, AcceptStep
    <2>4. CASE \/ StreamDelta(t) \/ StreamDegenerate(t)
               \/ \E err \in {"rate", "conn", "permanent"} :
                     StreamRetries(t, err) \/ StreamFails(t, err)
      BY <2>1, <2>4, StreamSteps
    <2>5. CASE \/ \E n \in 0..1 : StreamStops(t, n)
               \/ \E blocks \in BlockSeqs(t) : StreamToolUse(t, blocks)
      BY <2>1, <2>5, AssistantSteps
    <2>6. CASE UseTool(t) \/ ToolResult(t) \/ ApprovalPause(t) \/ LoopRaises(t)
      BY <2>1, <2>6, DispatchSteps
    <2>7. CASE Intercept(t)
      BY <2>1, <2>7, InterceptStep
    <2>8. CASE EndRound(t)
      BY <2>1, <2>8, EndRoundStep
    <2>9. CASE SyncOrchestrator(t)
      BY <2>1, <2>9, SyncOrchestratorStep
    <2>10. CASE SyncDomain(t)
      BY <2>1, <2>10, SyncDomainStep
    <2>11. CASE Finish(t)
      BY <2>1, <2>11, FinishStep
    <2> QED
      BY <2>1, <2>2, <2>3, <2>4, <2>5, <2>6, <2>7, <2>8, <2>9, <2>10, <2>11,
         <2>12 DEF Progress
  <1>3. ASSUME NEW t \in Turns, Start(t) \/ Cancel(t), limits' = limits PROVE TurnsInv'
    BY <1>3, StartStep, CancelStep
  <1> QED BY <1>1, <1>2, <1>3 DEF Next

(* Every reachable state of any number of turns, sessions and limits keeps *)
(* the invariant.                                                          *)
THEOREM TurnsInvariant == Spec => []TurnsInv
  <1>1. Init => TurnsInv
    BY TurnsInit
  <1>2. TurnsInv /\ [Next]_vars => TurnsInv'
    BY TurnsStep
  <1> QED BY <1>1, <1>2, PTL DEF Spec

(* Rounds, retries, transcripts and event logs stay within the bounds of   *)
(* run_agent_turn (_agent_loop.py): no schedule is overrun and no event    *)
(* has a kind, round or attempt it could not have.                         *)
THEOREM TurnsTyped == Spec => []TypeOK
  <1>1. TurnsInv => TypeOK
    BY DEF TurnsInv, Shape, TypeOK, TurnRow
  <1> QED BY <1>1, TurnsInvariant, PTL

(* run_turn ends with exactly one FINAL, its last event, on every path     *)
(* through the gates, the loops, an approval pause and an error, unless it *)
(* raises in the budget gate, before it has yielded anything.              *)
THEOREM AlwaysOneFinalLast == Spec => []OneFinalLast
  <1>1. TurnsInv => OneFinalLast
    <2> SUFFICES ASSUME TurnsInv, NEW t \in Turns
                 PROVE  /\ {i \in DOMAIN events[t] : events[t][i].kind = "final"} =
                              IF turn[t].pc = "done" THEN {Len(events[t])} ELSE {}
                        /\ turn[t].pc = "raised" => events[t] = <<>>
      BY DEF OneFinalLast
    <2>1. FinalOK(turn[t], events[t]) /\ events[t] \in Seq(AgentEvent)
      BY RowFacts DEF TurnOK, EventsOK
    <2>2. PICK es : es = events[t]
      OBVIOUS
    <2>3. Len(es) \in Nat /\ DOMAIN es = 1..Len(es) /\ (es # <<>> => Len(es) # 0)
      BY <2>1, <2>2, LenProperties, EmptySeq
    <2>4. es # <<>> => Len(es) \in DOMAIN es
      BY <2>3
    <2> QED BY <2>1, <2>2, <2>4 DEF FinalOK
  <1> QED BY <1>1, TurnsInvariant, PTL

(* A client never gets the text of two attempts of one round: a failed     *)
(* stream's buffer is dropped before its retry (_agent_loop.py).           *)
THEOREM AlwaysNoRepeatedDeltas == Spec => []NoRepeatedDeltas
  <1>1. TurnsInv => NoRepeatedDeltas
    <2>1. TurnsInv => \A t \in Turns : OneAttempt(events[t])
      BY DEF TurnsInv, TurnOK, EventsOK
    <2> QED BY <2>1 DEF NoRepeatedDeltas, OneAttempt
  <1> QED BY <1>1, TurnsInvariant, PTL

(* However turns of a session overlap and whatever _sync_history finds in  *)
(* the transcript, a tool_use inside a loop is answered by the next        *)
(* message.                                                                *)
THEOREM AlwaysMidLoopAnswered == Spec => []MidLoopAnswered
  <1>1. TurnsInv => MidLoopAnswered
    BY DEF TurnsInv
  <1> QED BY <1>1, TurnsInvariant, PTL

-----------------------------------------------------------------------------
(* What a turn that has its session to itself finds on the transcript.     *)

NoneOf(h, t) == \A i \in 1..Len(h) : h[i].turn # t

HeldAtEnd(h, t, ms) == \E k \in 0..Len(h) : HeldFrom(h, t, ms, k) /\ k + Len(ms) = Len(h)

UserMessage(t) == <<Msg(t, "orchestrator", "user", 0)>>

(* A turn's messages on the transcript while a loop of it runs, and when   *)
(* it is over.                                                             *)
SavedBefore(t, r, m) ==
    IF r.agent = "orchestrator" THEN UserMessage(t) ELSE UserMessage(t) \o m["orchestrator"]

SavedAfter(t, r, m) ==
    UserMessage(t) \o m["orchestrator"] \o (IF r.unsaved THEN <<>> ELSE m["domain"])

(* The working copy of a turn alone in its session is the transcript, a    *)
(* domain agent's seed, and the loop's messages, of which WorkingOK has    *)
(* their places.                                                           *)
AloneOK(t, r, m, h) ==
    /\ r.pc \in {"idle", "gates"} => r.working = <<>> /\ ~r.unsaved /\ NoneOf(h, t)
    /\ r.met = {} /\ r.pc \in Looping =>
          /\ ~r.unsaved /\ HeldAtEnd(h, t, SavedBefore(t, r, m))
          /\ Len(r.working) = Len(h) + (IF r.agent = "domain" THEN 1 ELSE 0) + Len(m[r.agent])
    /\ r.met = {} /\ r.pc \in {"closing", "done"} /\ r.working # <<>> =>
          HeldTogether(h, t, SavedAfter(t, r, m))

(* Turns of a session that are in progress together know of each other.    *)
Mutual ==
    \A t, u \in Turns :
        t # u /\ SessionOf[t] = SessionOf[u] /\ Active(t) /\ Active(u) => u \in turn[t].met

AloneInv ==
    /\ Mutual
    /\ \A t \in Turns : AloneOK(t, turn[t], made[t], history[SessionOf[t]])

(* Messages of other turns do not touch a turn's own.                      *)
LEMMA HeldStays ==
  ASSUME NEW M, NEW h \in Seq(M), NEW g \in Seq(M), NEW t, NEW ms \in Seq(M),
         Len(h) <= Len(g), \A i \in 1..Len(h) : g[i] = h[i],
         \A i \in (Len(h) + 1)..Len(g) : g[i].turn # t
  PROVE  /\ HeldTogether(h, t, ms) => HeldTogether(g, t, ms)
         /\ NoneOf(h, t) => NoneOf(g, t)
  <1>1. Len(h) \in Nat /\ Len(g) \in Nat /\ Len(ms) \in Nat
    BY LenProperties
  <1>2. \A i \in 1..Len(g) : i \in 1..Len(h) \/ i \in (Len(h) + 1)..Len(g)
    BY <1>1
  <1>3. NoneOf(h, t) => NoneOf(g, t)
    BY <1>2 DEF NoneOf
  <1>4. ASSUME NEW k \in 0..Len(h), HeldFrom(h, t, ms, k) PROVE HeldTogether(g, t, ms)
    <2>1. k \in 0..Len(g) /\ k + Len(ms) <= Len(g)
      BY <1>1, <1>4 DEF HeldFrom
    <2>2. ASSUME NEW i \in 1..Len(ms) PROVE g[k + i] = ms[i]
      <3>1. k + i \in 1..Len(h)
        BY <1>1, <1>4 DEF HeldFrom
      <3> QED BY <1>4, <3>1 DEF HeldFrom
    <2>3. \A i \in 1..Len(g) : g[i].turn = t => i \in (k + 1)..(k + Len(ms))
      BY <1>2, <1>4 DEF HeldFrom
    <2> QED BY <2>1, <2>2, <2>3 DEF HeldTogether, HeldFrom
  <1> QED BY <1>3, <1>4 DEF HeldTogether

(* The places of two runs of messages, one right behind the other.         *)
LEMMA Places ==
  ASSUME NEW k \in Nat, NEW lm \in Nat, NEW ln \in Nat, NEW lh \in Nat, NEW lg \in Nat,
         k + lm = lh, lg = lh + ln
  PROVE  /\ k \in 0..lg /\ k + (lm + ln) = lg /\ k + (lm + ln) <= lg
         /\ \A i \in 1..(lm + ln) :
               /\ i <= lm => i \in 1..lm /\ k + i \in 1..lh
               /\ ~(i <= lm) => i - lm \in 1..ln /\ k + i = lh + (i - lm)
         /\ \A i \in 1..lg :
               i \in (k + 1)..(k + lm) \/ ~(i \in 1..lh) => i \in (k + 1)..(k + (lm + ln))
  OBVIOUS

(* A turn's next messages, right behind its first ones.                    *)
LEMMA HeldGrows ==
  ASSUME NEW M, NEW h \in Seq(M), NEW g \in Seq(M), NEW t,
         NEW ms \in Seq(M), NEW ns \in Seq(M), HeldAtEnd(h, t, ms),
         Len(g) = Len(h) + Len(ns), \A i \in 1..Len(h) : g[i] = h[i],
         \A i \in 1..Len(ns) : g[Len(h) + i] = ns[i]
  PROVE  HeldAtEnd(g, t, ms \o ns)
  <1>1. Len(h) \in Nat /\ Len(g) \in Nat /\ Len(ms) \in Nat /\ Len(ns) \in Nat
    BY LenProperties
  <1>2. PICK k \in 0..Len(h) : HeldFrom(h, t, ms, k) /\ k + Len(ms) = Len(h)
    BY DEF HeldAtEnd
  <1>3. PICK all : all = ms \o ns
    OBVIOUS
  <1>4. \A i \in 1..(Len(ms) + Len(ns)) :
           all[i] = IF i <= Len(ms) THEN ms[i] ELSE ns[i - Len(ms)]
    BY <1>3, ConcatProperties
  <1>5. Len(all) = Len(ms) + Len(ns)
    BY <1>3, ConcatProperties
  <1>6. k + Len(ms) = Len(h) /\ k \in Nat
    BY <1>1, <1>2
  <1>7. PICK lm, ln, lh, lg : lm = Len(ms) /\ ln = Len(ns) /\ lh = Len(h) /\ lg = Len(g)
    OBVIOUS
  <1>8. /\ lm \in Nat /\ ln \in Nat /\ lh \in Nat /\ lg \in Nat
        /\ k + lm = lh /\ lg = lh + ln
    BY <1>1, <1>7, <1>6
  <1>9. /\ k \in 0..lg /\ k + (lm + ln) = lg /\ k + (lm + ln) <= lg
        /\ \A i \in 1..(lm + ln) :
              /\ i <= lm => i \in 1..lm /\ k + i \in 1..lh
              /\ ~(i <= lm) => i - lm \in 1..ln /\ k + i = lh + (i - lm)
        /\ \A i \in 1..lg :
              i \in (k + 1)..(k + lm) \/ ~(i \in 1..lh) => i \in (k + 1)..(k + (lm + ln))
    BY <1>8, <1>6, Places
  <1>10. ASSUME NEW i \in 1..(lm + ln) PROVE g[k + i] = all[i]
    <2>1. all[i] = IF i <= lm THEN ms[i] ELSE ns[i - lm]
      BY <1>4, <1>7
    <2>2. CASE i <= lm
      <3>1. i \in 1..lm /\ k + i \in 1..lh
        BY <1>9, <2>2
      <3>2. h[k + i] = ms[i]
        BY <1>2, <1>7, <3>1 DEF HeldFrom
      <3> QED BY <1>7, <2>1, <2>2, <3>1, <3>2
    <2>3. CASE ~(i <= lm)
      <3>1. i - lm \in 1..ln /\ k + i = lh + (i - lm)
        BY <1>9, <2>3
      <3>2. g[lh + (i - lm)] = ns[i - lm]
        BY <1>7, <3>1
      <3> QED BY <2>1, <2>3, <3>1, <3>2
    <2> QED BY <2>2, <2>3
  <1>11. ASSUME NEW i \in 1..lg, g[i].turn = t PROVE i \in (k + 1)..(k + (lm + ln))
    <2>1. i \in 1..lh => i \in (k + 1)..(k + lm)
      BY <1>2, <1>7, <1>11 DEF HeldFrom
    <2> QED BY <1>9, <2>1
  <1>12. HeldFrom(g, t, all, k) /\ k \in 0..Len(g) /\ k + Len(all) = Len(g)
    BY <1>7, <1>9, <1>10, <1>11, <1>5 DEF HeldFrom
  <1> QED BY <1>3, <1>12 DEF HeldAtEnd

(* g is h and messages of turn t.                                          *)
OwnGrowth(h, g, t) ==
    /\ Len(h) <= Len(g)
    /\ \A i \in 1..Len(h) : g[i] = h[i]
    /\ \A i \in (Len(h) + 1)..Len(g) : g[i].turn = t

(* What a turn saves is made of messages.                                  *)
LEMMA SavedTyped ==
  ASSUME limits \in Limits, NEW t \in Turns, NEW r, NEW m \in [Agents -> Seq(Message)]
  PROVE  /\ UserMessage(t) \in Seq(Message) /\ Len(UserMessage(t)) = 1
         /\ UserMessage(t) \o m["orchestrator"] \in Seq(Message)
         /\ SavedBefore(t, r, m) \in Seq(Message)
         /\ SavedAfter(t, r, m) \in Seq(Message)
  <1>1. Msg(t, "orchestrator", "user", 0) \in Message
    <2>1. 0 \in 0..limits.blocks
      BY LimitsTyped
    <2> QED BY <2>1, MessageTyped DEF Agents
  <1>2. UserMessage(t) \in Seq(Message) /\ Len(UserMessage(t)) = 1
    BY <1>1 DEF UserMessage
  <1>3. m["orchestrator"] \in Seq(Message) /\ m["domain"] \in Seq(Message) /\ <<>> \in Seq(Message)
    BY EmptySeq DEF Agents
  <1>4. UserMessage(t) \o m["orchestrator"] \in Seq(Message)
    BY <1>2, <1>3, ConcatProperties
  <1>5. SavedAfter(t, r, m) \in Seq(Message)
    <2>1. (IF r.unsaved THEN <<>> ELSE m["domain"]) \in Seq(Message)
      BY <1>3
    <2> QED BY <1>4, <2>1, ConcatProperties DEF SavedAfter
  <1> QED BY <1>2, <1>4, <1>5 DEF SavedBefore

(* A step of turn t that writes at most messages of t keeps what others    *)
(* have on the transcript: the others are not alone, or over, or have not  *)
(* begun.                                                                  *)
LEMMA AloneMoves ==
  ASSUME TurnsInv, AloneInv, NEW t \in Turns, NEW q, NEW m, NEW g \in Seq(Message),
         turn' = [turn EXCEPT ![t] = q], made' = [made EXCEPT ![t] = m],
         history' = [history EXCEPT ![SessionOf[t]] = g],
         OwnGrowth(history[SessionOf[t]], g, t),
         q.met = turn[t].met, Active(t), AloneOK(t, q, m, g)
  PROVE  AloneInv'
  <1>1. /\ turn \in [Turns -> TurnRow] /\ history \in [Sessions -> Seq(Message)]
        /\ made \in [Turns -> [Agents -> Seq(Message)]] /\ limits \in Limits
    BY DEF TurnsInv, Shape
  <1>2. turn'[t] = q /\ made'[t] = m
    BY <1>1
  <1>3. \A u \in Turns : u # t => turn'[u] = turn[u] /\ made'[u] = made[u]
    BY <1>1
  <1>4. \A u \in Turns : SessionOf[u] \in Sessions
    BY AgentTurnAssumption
  <1>5. \A u \in Turns : history'[SessionOf[u]] =
           IF SessionOf[u] = SessionOf[t] THEN g ELSE history[SessionOf[u]]
    BY <1>1, <1>4
  <1>6. Mutual'
    BY <1>2, <1>3 DEF Mutual, Active, AloneInv
  <1>7. ASSUME NEW u \in Turns
        PROVE  AloneOK(u, turn'[u], made'[u], history'[SessionOf[u]])
    <2>1. CASE u = t
      BY <1>2, <1>5, <2>1
    <2>2. CASE u # t /\ SessionOf[u] # SessionOf[t]
      BY <1>3, <1>5, <2>2 DEF AloneInv
    <2>3. CASE u # t /\ SessionOf[u] = SessionOf[t]
      <3>1. PICK h : h = history[SessionOf[t]]
        OBVIOUS
      <3>2. PICK r : r = turn[u]
        OBVIOUS
      <3>3. /\ AloneOK(u, r, made[u], h) /\ h \in Seq(Message) /\ r.pc \in PCs
            /\ made[u] \in [Agents -> Seq(Message)]
        BY <1>1, <1>4, <2>3, <3>1, <3>2 DEF AloneInv, TurnRow
      <3>4. /\ Len(h) <= Len(g) /\ \A i \in 1..Len(h) : g[i] = h[i]
            /\ \A i \in (Len(h) + 1)..Len(g) : g[i].turn # u
        BY <2>3, <3>1 DEF OwnGrowth
      <3>5. r.met = {} => r.pc \in {"idle", "done", "raised", "cancelled"}
        BY <2>3, <3>2 DEF AloneInv, Mutual, Active
      <3>6. PICK ms : ms = SavedAfter(u, r, made[u])
        OBVIOUS
      <3>7. ms \in Seq(Message)
        BY <1>1, <3>3, <3>6, SavedTyped
      <3>8. /\ HeldTogether(h, u, ms) => HeldTogether(g, u, ms)
            /\ NoneOf(h, u) => NoneOf(g, u)
        BY <3>3, <3>4, <3>7, HeldStays
      <3>9. AloneOK(u, r, made[u], g)
        BY <3>3, <3>5, <3>6, <3>8 DEF AloneOK, Looping
      <3> QED BY <1>3, <1>5, <2>3, <3>2, <3>9
    <2> QED BY <2>1, <2>2, <2>3
  <1> QED BY <1>6, <1>7 DEF AloneInv

(* A step of turn t that writes nothing and leaves its loop's messages.    *)
LEMMA AlonePlain ==
  ASSUME TurnsInv, AloneInv, NEW t \in Turns, NEW q, Active(t),
         turn' = [turn EXCEPT ![t] = q], made' = made, history' = history,
         q.agent = turn[t].agent, q.working = turn[t].working, q.met = turn[t].met,
         q.pc \in Looping => turn[t].pc \in Looping /\ (q.unsaved => turn[t].unsaved),
         q.pc \notin {"idle", "gates"},
         q.pc \in {"closing", "done"} =>
            \/ turn[t].pc = "gates"
            \/ turn[t].pc = "closing" /\ q.unsaved = turn[t].unsaved
            \/ turn[t].pc \in Looping /\ turn[t].agent = "domain" /\ q.unsaved
  PROVE  AloneInv'
  <1>1. /\ turn[t] \in TurnRow /\ made[t] \in [Agents -> Seq(Message)]
        /\ SessionOf[t] \in Sessions /\ history[SessionOf[t]] \in Seq(Message)
        /\ made \in [Turns -> [Agents -> Seq(Message)]] /\ limits \in Limits
        /\ history \in [Sessions -> Seq(Message)]
    BY RowFacts DEF TurnsInv, Shape
  <1>2. PICK h : h = history[SessionOf[t]]
    OBVIOUS
  <1>3. PICK r : r = turn[t]
    OBVIOUS
  <1>4. PICK m : m = made[t]
    OBVIOUS
  <1>5. AloneOK(t, r, m, h) /\ h \in Seq(Message) /\ m \in [Agents -> Seq(Message)]
    BY <1>1, <1>2, <1>3, <1>4 DEF AloneInv
  <1>6. made' = [made EXCEPT ![t] = m] /\ history' = [history EXCEPT ![SessionOf[t]] = h]
    BY <1>1, <1>2, <1>4
  <1>7. OwnGrowth(h, h, t)
    <2>1. Len(h) \in Nat
      BY <1>5, LenProperties
    <2> QED BY <2>1 DEF OwnGrowth
  <1>8. SavedBefore(t, q, m) = SavedBefore(t, r, m)
    BY <1>3 DEF SavedBefore
  <1>9. q.unsaved = r.unsaved => SavedAfter(t, q, m) = SavedAfter(t, r, m)
    BY DEF SavedAfter
  <1>10. ASSUME q.pc \in {"closing", "done"}, q.met = {}, q.working # <<>>
         PROVE  HeldTogether(h, t, SavedAfter(t, q, m))
    <2>1. r.pc # "gates"
      BY <1>3, <1>5, <1>10 DEF AloneOK
    <2>2. CASE r.pc = "closing" /\ q.unsaved = r.unsaved
      BY <1>3, <1>5, <1>9, <1>10, <2>2 DEF AloneOK
    <2>3. CASE r.pc \in Looping /\ r.agent = "domain" /\ q.unsaved
      <3>1. HeldAtEnd(h, t, SavedBefore(t, r, m)) /\ SavedBefore(t, r, m) \in Seq(Message)
        BY <1>1, <1>3, <1>5, <1>10, <2>3, SavedTyped DEF AloneOK
      <3>2. PICK ms : ms = SavedBefore(t, r, m)
        OBVIOUS
      <3>3. ms \o <<>> = ms
        BY <3>1, <3>2, ConcatEmptySeq
      <3>4. SavedAfter(t, q, m) = ms
        BY <2>3, <3>2, <3>3 DEF SavedAfter, SavedBefore
      <3> QED BY <3>1, <3>2, <3>4 DEF HeldAtEnd, HeldTogether
    <2> QED BY <1>3, <1>10, <2>1, <2>2, <2>3
  <1>11. AloneOK(t, q, m, h)
    BY <1>3, <1>5, <1>8, <1>10 DEF AloneOK, Looping
  <1> QED BY <1>2, <1>5, <1>6, <1>7, <1>11, AloneMoves

(* The steps that neither write to the transcript nor add to a loop.       *)
LEMMA AlonePlainSteps ==
  ASSUME TurnsInv, AloneInv, NEW t \in Turns,
         \/ GateRefuses(t) \/ GateRaises(t) \/ StreamDelta(t) \/ StreamDegenerate(t)
         \/ \E err \in {"rate", "conn", "permanent"} : StreamRetries(t, err) \/ StreamFails(t, err)
         \/ UseTool(t) \/ ToolResult(t) \/ ApprovalPause(t) \/ LoopRaises(t)
         \/ Finish(t) \/ Cancel(t)
  PROVE  AloneInv'
  <1>1. PICK r : r = turn[t]
    OBVIOUS
  <1>2. r \in TurnRow /\ turn \in [Turns -> TurnRow]
    BY <1>1, RowFacts DEF TurnsInv, Shape
  <1>3. CASE GateRefuses(t)
    <2>1. PICK q : q = [r EXCEPT !.pc = "closing", !.errored = TRUE]
      OBVIOUS
    <2>2. /\ q.agent = r.agent /\ q.working = r.working /\ q.met = r.met
          /\ q.pc = "closing" /\ q.unsaved = r.unsaved
      BY <1>2, <2>1 DEF TurnRow
    <2>3. turn' = [turn EXCEPT ![t] = q]
      BY <1>1, <1>2, <1>3, <2>1 DEF GateRefuses
    <2>4. made' = made /\ history' = history /\ r.pc = "gates"
      BY <1>1, <1>3 DEF GateRefuses
    <2> QED BY <1>1, <2>2, <2>3, <2>4, AlonePlain DEF Active, Looping
  <1>4. CASE StreamDelta(t)
    <2>1. PICK q : q = [r EXCEPT !.buffered = TRUE]
      OBVIOUS
    <2>2. /\ q.agent = r.agent /\ q.working = r.working /\ q.met = r.met
          /\ q.pc = r.pc /\ q.unsaved = r.unsaved
      BY <1>2, <2>1 DEF TurnRow
    <2>3. turn' = [turn EXCEPT ![t] = q]
      BY <1>1, <1>2, <1>4, <2>1 DEF StreamDelta
    <2>4. made' = made /\ history' = history /\ r.pc = "stream"
      BY <1>1, <1>4 DEF StreamDelta
    <2> QED BY <1>1, <2>2, <2>3, <2>4, AlonePlain DEF Active, Looping
  <1>5. CASE StreamDegenerate(t)
    <2>1. PICK q : q = [r EXCEPT !.pc = "loop_done"]
      OBVIOUS
    <2>2. /\ q.agent = r.agent /\ q.working = r.working /\ q.met = r.met
          /\ q.pc = "loop_done" /\ q.unsaved = r.unsaved
      BY <1>2, <2>1 DEF TurnRow
    <2>3. turn' = [turn EXCEPT ![t] = q]
      BY <1>1, <1>2, <1>5, <2>1 DEF StreamDegenerate
    <2>4. made' = made /\ history' = history /\ r.pc = "stream"
      BY <1>1, <1>5 DEF StreamDegenerate
    <2> QED BY <1>1, <2>2, <2>3, <2>4, AlonePlain DEF Active, Looping
  <1>6. ASSUME NEW err \in {"rate", "conn", "permanent"}, StreamRetries(t, err) PROVE AloneInv'
    <2>1. PICK q : q = [r EXCEPT !.buffered = FALSE, !.attempt = @ + 1,
                               !.rate = IF err = "rate" THEN @ + 1 ELSE @,
                               !.conn = IF err = "conn" THEN @ + 1 ELSE @]
      OBVIOUS
    <2>2. /\ q.agent = r.agent /\ q.working = r.working /\ q.met = r.met
          /\ q.pc = r.pc /\ q.unsaved = r.unsaved
      BY <1>2, <2>1 DEF TurnRow
    <2>3. turn' = [turn EXCEPT ![t] = q]
      BY <1>1, <1>2, <1>6, <2>1 DEF StreamRetries
    <2>4. made' = made /\ history' = history /\ r.pc = "stream"
      BY <1>1, <1>6 DEF StreamRetries
    <2> QED BY <1>1, <2>2, <2>3, <2>4, AlonePlain DEF Active, Looping
  <1>7. ASSUME NEW err \in {"rate", "conn", "permanent"}, StreamFails(t, err) PROVE AloneInv'
    <2>1. PICK q : q = [r EXCEPT !.pc = "loop_done", !.errored = TRUE]
      OBVIOUS
    <2>2. /\ q.agent = r.agent /\ q.working = r.working /\ q.met = r.met
          /\ q.pc = "loop_done" /\ q.unsaved = r.unsaved
      BY <1>2, <2>1 DEF TurnRow
    <2>3. turn' = [turn EXCEPT ![t] = q]
      BY <1>1, <1>2, <1>7, <2>1 DEF StreamFails
    <2>4. made' = made /\ history' = history /\ r.pc = "stream"
      BY <1>1, <1>7 DEF StreamFails
    <2> QED BY <1>1, <2>2, <2>3, <2>4, AlonePlain DEF Active, Looping
  <1>8. CASE UseTool(t)
    <2>1. PICK q : q = [r EXCEPT !.pc = "invoke"]
      OBVIOUS
    <2>2. /\ q.agent = r.agent /\ q.working = r.working /\ q.met = r.met
          /\ q.pc = "invoke" /\ q.unsaved = r.unsaved
      BY <1>2, <2>1 DEF TurnRow
    <2>3. turn' = [turn EXCEPT ![t] = q]
      BY <1>1, <1>2, <1>8, <2>1 DEF UseTool
    <2>4. made' = made /\ history' = history /\ r.pc = "dispatch"
      BY <1>1, <1>8 DEF UseTool
    <2> QED BY <1>1, <2>2, <2>3, <2>4, AlonePlain DEF Active, Looping
  <1>9. CASE ToolResult(t)
    <2>1. PICK q : q = [r EXCEPT !.pc = "dispatch", !.blocks = Tail(@), !.results = @ + 1]
      OBVIOUS
    <2>2. /\ q.agent = r.agent /\ q.working = r.working /\ q.met = r.met
          /\ q.pc = "dispatch" /\ q.unsaved = r.unsaved
      BY <1>2, <2>1 DEF TurnRow
    <2>3. turn' = [turn EXCEPT ![t] = q]
      BY <1>1, <1>2, <1>9, <2>1 DEF ToolResult
    <2>4. made' = made /\ history' = history /\ r.pc = "invoke"
      BY <1>1, <1>9 DEF ToolResult
    <2> QED BY <1>1, <2>2, <2>3, <2>4, AlonePlain DEF Active, Looping
  <1>10. CASE ApprovalPause(t)
    <2>1. PICK q : q = [r EXCEPT !.pc = "closing", !.paused = TRUE, !.unsaved = TRUE]
      OBVIOUS
    <2>2. /\ q.agent = r.agent /\ q.working = r.working /\ q.met = r.met
          /\ q.pc = "closing" /\ q.unsaved
      BY <1>2, <2>1 DEF TurnRow
    <2>3. turn' = [turn EXCEPT ![t] = q]
      BY <1>1, <1>2, <1>10, <2>1 DEF ApprovalPause
    <2>4. made' = made /\ history' = history /\ r.pc = "invoke" /\ r.agent = "domain"
      BY <1>1, <1>10 DEF ApprovalPause
    <2> QED BY <1>1, <2>2, <2>3, <2>4, AlonePlain DEF Active, Looping
  <1>11. CASE LoopRaises(t) /\ turn[t].agent = "domain"
    <2>1. PICK q : q = [r EXCEPT !.pc = "closing", !.unsaved = TRUE, !.errored = TRUE]
      OBVIOUS
    <2>2. /\ q.agent = r.agent /\ q.working = r.working /\ q.met = r.met
          /\ q.pc = "closing" /\ q.unsaved
      BY <1>2, <2>1 DEF TurnRow
    <2>3. turn' = [turn EXCEPT ![t] = q]
      BY <1>1, <1>2, <1>11, <2>1 DEF LoopRaises
    <2>4. made' = made /\ history' = history /\ r.pc = "invoke" /\ r.agent = "domain"
      BY <1>1, <1>11 DEF LoopRaises
    <2> QED BY <1>1, <2>2, <2>3, <2>4, AlonePlain DEF Active, Looping
  <1>12. CASE LoopRaises(t) /\ turn[t].agent # "domain"
    <2>1. PICK q : q = [r EXCEPT !.pc = "loop_done", !.unsaved = FALSE, !.errored = TRUE]
      OBVIOUS
    <2>2. /\ q.agent = r.agent /\ q.working = r.working /\ q.met = r.met
          /\ q.pc = "loop_done" /\ ~q.unsaved
      BY <1>2, <2>1 DEF TurnRow
    <2>3. turn' = [turn EXCEPT ![t] = q]
      BY <1>1, <1>2, <1>12, <2>1 DEF LoopRaises
    <2>4. made' = made /\ history' = history /\ r.pc = "invoke"
      BY <1>1, <1>12 DEF LoopRaises
    <2> QED BY <1>1, <2>2, <2>3, <2>4, AlonePlain DEF Active, Looping
  <1>13. CASE Finish(t)
    <2>1. PICK q : q = [r EXCEPT !.pc = "done"]
      OBVIOUS
    <2>2. /\ q.agent = r.agent /\ q.working = r.working /\ q.met = r.met
          /\ q.pc = "done" /\ q.unsaved = r.unsaved
      BY <1>2, <2>1 DEF TurnRow
    <2>3. turn' = [turn EXCEPT ![t] = q]
      BY <1>1, <1>2, <1>13, <2>1 DEF Finish
    <2>4. made' = made /\ history' = history /\ r.pc = "closing"
      BY <1>1, <1>13 DEF Finish
    <2> QED BY <1>1, <2>2, <2>3, <2>4, AlonePlain DEF Active, Looping
  <1>14. CASE Cancel(t)
    <2>1. PICK q : q = [r EXCEPT !.pc = "cancelled"]
      OBVIOUS
    <2>2. /\ q.agent = r.agent /\ q.working = r.working /\ q.met = r.met
          /\ q.pc = "cancelled" /\ q.unsaved = r.unsaved
      BY <1>2, <2>1 DEF TurnRow
    <2>3. turn' = [turn EXCEPT ![t] = q]
      BY <1>1, <1>2, <1>14, <2>1 DEF Cancel
    <2>4. made' = made /\ history' = history /\ Active(t)
      BY <1>1, <1>14 DEF Cancel
    <2> QED BY <1>1, <2>2, <2>3, <2>4, AlonePlain DEF Active, Looping
  <1>15. CASE GateRaises(t)
    <2>1. PICK q : q = [r EXCEPT !.pc = "raised"]
      OBVIOUS
    <2>2. /\ q.agent = r.agent /\ q.working = r.working /\ q.met = r.met
          /\ q.pc = "raised" /\ q.unsaved = r.unsaved
      BY <1>2, <2>1 DEF TurnRow
    <2>3. turn' = [turn EXCEPT ![t] = q]
      BY <1>1, <1>2, <1>15, <2>1 DEF GateRaises
    <2>4. made' = made /\ history' = history /\ r.pc = "gates"
      BY <1>1, <1>15 DEF GateRaises
    <2> QED BY <1>1, <2>2, <2>3, <2>4, AlonePlain DEF Active, Looping
  <1> QED
    BY <1>3, <1>4, <1>5, <1>6, <1>7, <1>8, <1>9, <1>10, <1>11, <1>12, <1>13, <1>14, <1>15

(* A loop and its working copy grow together.                              *)
LEMMA OneLonger ==
  ASSUME NEW a \in Nat, NEW b \in Nat, NEW c \in Nat, NEW e \in Nat, a = b + e + c
  PROVE  a + 1 = b + e + (c + 1)
  OBVIOUS

(* A loop appends a message to its working copy: nothing is written yet.   *)
LEMMA AloneRecord ==
  ASSUME TurnsInv, AloneInv, NEW t \in Turns, NEW q, NEW x, history' = history,
         turn' = [turn EXCEPT ![t] = q],
         made' = [made EXCEPT ![t][turn[t].agent] = Append(@, x)],
         q.agent = turn[t].agent, q.working = Append(turn[t].working, x),
         q.met = turn[t].met, q.unsaved = turn[t].unsaved,
         turn[t].pc \in Looping, q.pc \in Looping
  PROVE  AloneInv'
  <1>1. /\ turn[t] \in TurnRow /\ made[t] \in [Agents -> Seq(Message)]
        /\ SessionOf[t] \in Sessions /\ history[SessionOf[t]] \in Seq(Message)
        /\ made \in [Turns -> [Agents -> Seq(Message)]]
        /\ history \in [Sessions -> Seq(Message)]
    BY RowFacts DEF TurnsInv, Shape
  <1>2. PICK h : h = history[SessionOf[t]]
    OBVIOUS
  <1>3. PICK r : r = turn[t]
    OBVIOUS
  <1>4. PICK ms : ms = made[t][r.agent]
    OBVIOUS
  <1>5. PICK m : m = [made[t] EXCEPT ![r.agent] = Append(ms, x)]
    OBVIOUS
  <1>6. /\ r.agent \in Agents /\ ms \in Seq(Message) /\ r.working \in Seq(Message)
        /\ h \in Seq(Message) /\ AloneOK(t, r, made[t], h)
    BY <1>1, <1>2, <1>3, <1>4 DEF AloneInv, TurnRow
  <1>7. Len(Append(ms, x)) = Len(ms) + 1 /\ Len(Append(r.working, x)) = Len(r.working) + 1
    <2>1. PICK M : M = Message \cup {x}
      OBVIOUS
    <2>2. ms \in Seq(M) /\ r.working \in Seq(M) /\ x \in M
      BY <1>6, <2>1
    <2> QED BY <2>2, AppendProperties
  <1>8. m[r.agent] = Append(ms, x) /\ \A a \in Agents : a # r.agent => m[a] = made[t][a]
    BY <1>1, <1>5, <1>6
  <1>9. made' = [made EXCEPT ![t] = m] /\ history' = [history EXCEPT ![SessionOf[t]] = h]
    BY <1>1, <1>2, <1>3, <1>4, <1>5
  <1>10. OwnGrowth(h, h, t)
    <2>1. Len(h) \in Nat
      BY <1>6, LenProperties
    <2> QED BY <2>1 DEF OwnGrowth
  <1>11. SavedBefore(t, q, m) = SavedBefore(t, r, made[t])
    BY <1>3, <1>6, <1>8 DEF SavedBefore, Agents
  <1>12. Len(r.working) \in Nat /\ Len(h) \in Nat /\ Len(ms) \in Nat
    BY <1>6, LenProperties
  <1>13. q.met = {} =>
           Len(q.working) = Len(h) + (IF q.agent = "domain" THEN 1 ELSE 0) + Len(m[q.agent])
    <2>1. SUFFICES ASSUME q.met = {}
                   PROVE  Len(r.working) + 1 =
                             Len(h) + (IF r.agent = "domain" THEN 1 ELSE 0) + (Len(ms) + 1)
      BY <1>3, <1>7, <1>8
    <2>2. Len(r.working) = Len(h) + (IF r.agent = "domain" THEN 1 ELSE 0) + Len(ms)
      BY <1>3, <1>4, <1>6, <2>1 DEF AloneOK
    <2>3. PICK e \in Nat : e = IF r.agent = "domain" THEN 1 ELSE 0
      OBVIOUS
    <2>4. Len(r.working) = Len(h) + e + Len(ms)
      BY <2>2, <2>3
    <2>5. Len(r.working) + 1 = Len(h) + e + (Len(ms) + 1)
      BY <1>12, <2>4, OneLonger
    <2> QED BY <2>3, <2>5
  <1>14. AloneOK(t, q, m, h)
    BY <1>3, <1>6, <1>11, <1>13 DEF AloneOK, Looping
  <1>15. Active(t)
    BY DEF Active, Looping
  <1> QED BY <1>2, <1>6, <1>9, <1>10, <1>14, <1>15, AloneMoves

(* The steps of a loop that add a message to it.                           *)
LEMMA AloneRecordSteps ==
  ASSUME TurnsInv, AloneInv, NEW t \in Turns,
         \/ \E n \in 0..1 : StreamStops(t, n)
         \/ \E blocks \in BlockSeqs(t) : StreamToolUse(t, blocks)
         \/ Intercept(t) \/ EndRound(t)
  PROVE  AloneInv'
  <1>1. PICK r : r = turn[t]
    OBVIOUS
  <1>2. r \in TurnRow /\ turn \in [Turns -> TurnRow]
    BY <1>1, RowFacts DEF TurnsInv, Shape
  <1>3. ASSUME NEW s, NEW x, Record(t, s, x), history' = history, r.pc \in Looping,
               DOMAIN s = DOMAIN r, s.pc \in Looping, s.agent = r.agent,
               s.working = r.working, s.met = r.met, s.unsaved = r.unsaved,
               s = [k \in DOMAIN s |-> s[k]]
        PROVE  AloneInv'
    <2>1. PICK q : q = [s EXCEPT !.working = Append(@, x)]
      OBVIOUS
    <2>2. /\ q.agent = r.agent /\ q.working = Append(r.working, x)
          /\ q.met = r.met /\ q.unsaved = r.unsaved /\ q.pc \in Looping
      BY <1>2, <1>3, <2>1 DEF TurnRow
    <2>3. /\ turn' = [turn EXCEPT ![t] = q]
          /\ made' = [made EXCEPT ![t][r.agent] = Append(@, x)]
      BY <1>3, <2>1 DEF Record
    <2> QED BY <1>1, <1>3, <2>2, <2>3, AloneRecord
  <1>4. ASSUME NEW n \in 0..1, StreamStops(t, n) PROVE AloneInv'
    <2>1. PICK s : s = [r EXCEPT !.pc = "loop_done"]
      OBVIOUS
    <2>2. /\ DOMAIN s = DOMAIN r /\ s.pc \in Looping /\ s.agent = r.agent
          /\ s.working = r.working /\ s.met = r.met /\ s.unsaved = r.unsaved
          /\ s = [k \in DOMAIN s |-> s[k]]
      BY <1>2, <2>1 DEF TurnRow, Looping
    <2>3. /\ Record(t, s, Msg(t, r.agent, "assistant", n)) /\ history' = history
          /\ r.pc \in Looping
      BY <1>1, <1>4, <2>1 DEF StreamStops, Looping
    <2> QED BY <1>3, <2>2, <2>3
  <1>5. ASSUME NEW blocks \in BlockSeqs(t), StreamToolUse(t, blocks) PROVE AloneInv'
    <2>1. PICK s : s = [r EXCEPT !.pc = "dispatch", !.blocks = blocks, !.results = 0]
      OBVIOUS
    <2>2. /\ DOMAIN s = DOMAIN r /\ s.pc \in Looping /\ s.agent = r.agent
          /\ s.working = r.working /\ s.met = r.met /\ s.unsaved = r.unsaved
          /\ s = [k \in DOMAIN s |-> s[k]]
      BY <1>2, <2>1 DEF TurnRow, Looping
    <2>3. /\ Record(t, s, Msg(t, r.agent, "assistant", Len(blocks))) /\ history' = history
          /\ r.pc \in Looping
      BY <1>1, <1>5, <2>1 DEF StreamToolUse, Looping
    <2> QED BY <1>3, <2>2, <2>3
  <1>6. CASE Intercept(t)
    <2>1. PICK b : b = Head(r.blocks)
      OBVIOUS
    <2>2. PICK s : s = [r EXCEPT !.pc = "loop_done", !.blocks = <<>>,
                                 !.handoff = (b = "handoff"), !.errored = (b = "handoff_unknown")]
      OBVIOUS
    <2>3. /\ DOMAIN s = DOMAIN r /\ s.pc \in Looping /\ s.agent = r.agent
          /\ s.working = r.working /\ s.met = r.met /\ s.unsaved = r.unsaved
          /\ s = [k \in DOMAIN s |-> s[k]]
      BY <1>2, <2>2 DEF TurnRow, Looping
    <2>4. /\ Record(t, s, Msg(t, "orchestrator", "results", r.results + 1))
          /\ history' = history /\ r.pc \in Looping
      BY <1>1, <1>6, <2>1, <2>2 DEF Intercept, Looping
    <2> QED BY <1>3, <2>3, <2>4
  <1>7. CASE EndRound(t)
    <2>1. PICK pc : pc = IF r.loop + 1 < limits.loops THEN "stream" ELSE "loop_done"
      OBVIOUS
    <2>2. PICK s : s = [r EXCEPT !.pc = pc, !.loop = @ + 1, !.rate = 0, !.conn = 0,
                                 !.buffered = FALSE, !.attempt = 1]
      OBVIOUS
    <2>3. pc \in Looping
      BY <2>1 DEF Looping
    <2>4. /\ DOMAIN s = DOMAIN r /\ s.pc \in Looping /\ s.agent = r.agent
          /\ s.working = r.working /\ s.met = r.met /\ s.unsaved = r.unsaved
          /\ s = [k \in DOMAIN s |-> s[k]]
      BY <1>2, <2>2, <2>3 DEF TurnRow
    <2>5. /\ Record(t, s, Msg(t, r.agent, "results", r.results))
          /\ history' = history /\ r.pc \in Looping
      BY <1>1, <1>7, <2>1, <2>2 DEF EndRound, Looping
    <2> QED BY <1>3, <2>4, <2>5
  <1> QED BY <1>4, <1>5, <1>6, <1>7

(* The user's message is the turn's first on the transcript.               *)
LEMMA AloneAccept ==
  ASSUME TurnsInv, AloneInv, NEW t \in Turns, Accept(t)
  PROVE  AloneInv'
  <1>1. PICK h : h = history[SessionOf[t]]
    OBVIOUS
  <1>2. PICK x : x = Msg(t, "orchestrator", "user", 0)
    OBVIOUS
  <1>3. PICK g : g = Append(h, x)
    OBVIOUS
  <1>4. PICK r : r = turn[t]
    OBVIOUS
  <1>5. PICK q : q = [r EXCEPT !.pc = "stream", !.working = g]
    OBVIOUS
  <1>6. /\ r \in TurnRow /\ h \in Seq(Message) /\ made[t] \in [Agents -> Seq(Message)]
        /\ Counted(limits, r) /\ MessagesOK(t, r, made[t]) /\ AloneOK(t, r, made[t], h)
        /\ limits \in Limits /\ made \in [Turns -> [Agents -> Seq(Message)]]
    BY <1>1, <1>4, RowFacts DEF TurnOK, AloneInv, TurnsInv, Shape
  <1>7. /\ r.pc = "gates" /\ history' = [history EXCEPT ![SessionOf[t]] = g]
        /\ turn' = [turn EXCEPT ![t] = q] /\ made' = [made EXCEPT ![t] = made[t]]
    <2>1. turn' = [turn EXCEPT ![t] = q]
      BY <1>1, <1>2, <1>3, <1>4, <1>5 DEF Accept, TurnsInv, Shape
    <2> QED BY <1>1, <1>2, <1>3, <1>4, <1>6, <2>1 DEF Accept
  <1>8. UserMessage(t) = <<x>> /\ UserMessage(t) \in Seq(Message) /\ x \in Message
        /\ x.turn = t
    <2>1. 0 \in 0..limits.blocks
      BY <1>6, LimitsTyped
    <2> QED BY <1>2, <1>6, <2>1, SavedTyped, MessageTyped DEF UserMessage, Agents
  <1>9. /\ g \in Seq(Message) /\ Len(g) = Len(h) + 1 /\ Len(h) \in Nat
        /\ g[Len(h) + 1] = x /\ \A i \in 1..Len(h) : g[i] = h[i]
    BY <1>3, <1>6, <1>8, Appended
  <1>10. OwnGrowth(h, g, t)
    BY <1>8, <1>9 DEF OwnGrowth
  <1>11. HeldAtEnd(g, t, <<x>>)
    <2>1. NoneOf(h, t)
      BY <1>6, <1>7 DEF AloneOK
    <2>2. Len(<<x>>) = 1 /\ <<x>>[1] = x
      OBVIOUS
    <2>3. Len(h) \in 0..Len(g) /\ Len(h) + Len(<<x>>) = Len(g)
      BY <1>9, <2>2
    <2>4. \A i \in 1..Len(<<x>>) : g[Len(h) + i] = <<x>>[i]
      BY <1>9, <2>2
    <2>5. \A i \in 1..Len(g) : g[i].turn = t => i \in (Len(h) + 1)..(Len(h) + Len(<<x>>))
      BY <1>9, <2>1, <2>2 DEF NoneOf
    <2>6. HeldFrom(g, t, <<x>>, Len(h))
      BY <1>9, <2>3, <2>4, <2>5 DEF HeldFrom
    <2> QED BY <2>3, <2>6 DEF HeldAtEnd
  <1>12. /\ q.pc = "stream" /\ q.agent = r.agent /\ q.working = g /\ q.met = r.met
         /\ q.unsaved = r.unsaved
    BY <1>5, <1>6 DEF TurnRow
  <1>13. r.agent = "orchestrator" /\ made[t]["orchestrator"] = <<>> /\ Len(<<>>) = 0
    BY <1>6, <1>7, EmptySeq DEF Counted, MessagesOK
  <1>14. Len(q.working) = Len(g) + (IF q.agent = "domain" THEN 1 ELSE 0) + Len(made[t][q.agent])
    BY <1>9, <1>12, <1>13
  <1>15. SavedBefore(t, q, made[t]) = <<x>>
    BY <1>8, <1>12, <1>13 DEF SavedBefore
  <1>16. AloneOK(t, q, made[t], g)
    BY <1>6, <1>7, <1>11, <1>12, <1>14, <1>15 DEF AloneOK
  <1>17. Active(t)
    BY <1>4, <1>7 DEF Active
  <1> QED BY <1>1, <1>4, <1>7, <1>9, <1>10, <1>12, <1>16, <1>17, AloneMoves

EndFrom(w, k) == SubSeq(w, k, Len(w))

(* The end of a working copy that is its loop's messages.                  *)
LEMMA LoopAtEnd ==
  ASSUME NEW w \in Seq(Message), NEW ms \in Seq(Message), NEW b \in Nat, Len(w) = b + Len(ms),
         \A i \in DOMAIN ms : w[b + i] = ms[i]
  PROVE  /\ EndFrom(w, b + 1) \in Seq(Message)
         /\ Len(EndFrom(w, b + 1)) = Len(ms)
         /\ \A i \in 1..Len(ms) : EndFrom(w, b + 1)[i] = ms[i]
  <1>1. PICK x : x = EndFrom(w, b + 1)
    OBVIOUS
  <1>2. Len(w) \in Nat /\ Len(ms) \in Nat /\ DOMAIN ms = 1..Len(ms)
    BY LenProperties
  <1>3. PICK k \in Nat \ {0} : k = b + 1
    OBVIOUS
  <1>4. /\ x \in Seq(Message) /\ Len(x) = IF k <= Len(w) THEN Len(w) - k + 1 ELSE 0
        /\ \A i \in 1..(Len(w) - k + 1) : x[i] = w[k + i - 1]
    BY <1>1, <1>3, EndOf DEF EndFrom
  <1>5. Len(w) - k + 1 = Len(ms) /\ (k <= Len(w) \/ Len(ms) = 0)
    BY <1>2, <1>3
  <1>6. Len(x) = Len(ms)
    BY <1>4, <1>5
  <1>7. ASSUME NEW i \in 1..Len(ms) PROVE x[i] = ms[i]
    <2>1. x[i] = w[k + i - 1]
      BY <1>4, <1>5
    <2>2. k + i - 1 = b + i
      BY <1>3
    <2> QED BY <1>2, <2>1, <2>2
  <1> QED BY <1>1, <1>4, <1>6, <1>7

(* A loop is synced: the transcript grows by the turn's own messages and,  *)
(* for a turn alone in its session, by all the loop's.                     *)
LEMMA AloneSynced ==
  ASSUME TurnsInv, AloneInv, NEW t \in Turns, turn[t].pc = "loop_done",
         NEW skip \in 0..1, skip = IF turn[t].agent = "domain" THEN 1 ELSE 0,
         NEW g, g = Synced(history[SessionOf[t]], turn[t].working, skip)
  PROVE  /\ g \in Seq(Message) /\ OwnGrowth(history[SessionOf[t]], g, t)
         /\ turn[t].met = {} =>
               HeldAtEnd(g, t, SavedBefore(t, turn[t], made[t]) \o made[t][turn[t].agent])
  <1>1. PICK r : r = turn[t]
    OBVIOUS
  <1>2. PICK ms : ms = made[t][r.agent]
    OBVIOUS
  <1>3. PICK h : h = history[SessionOf[t]]
    OBVIOUS
  <1>4. PICK w : w = r.working
    OBVIOUS
  <1>5. /\ r.agent \in Agents /\ w \in Seq(Message) /\ h \in Seq(Message) /\ ms \in Seq(Message)
        /\ made[t] \in [Agents -> Seq(Message)]
    BY <1>1, <1>2, <1>3, <1>4, RowFacts DEF TurnRow
  <1>6. AloneOK(t, r, made[t], h) /\ limits \in Limits
    BY <1>1, <1>3 DEF AloneInv, TurnsInv, Shape
  <1>7. WorkingOK(r, ms, Len(h)) /\ MessagesOK(t, r, made[t])
    BY <1>1, <1>2, <1>3, RowFacts DEF TurnOK
  <1>8. PICK b \in Nat : /\ Len(w) = b + Len(ms) /\ b <= Len(h) + skip
                         /\ \A i \in DOMAIN ms : w[b + i] = ms[i]
    BY <1>1, <1>4, <1>7 DEF WorkingOK, Looping
  <1>9. g = Synced(h, w, skip) /\ g = h \o SubSeq(w, Len(h) + skip + 1, Len(w))
    BY <1>1, <1>3, <1>4 DEF Synced
  <1>10. Synced(h, w, skip) \in Seq(Message)
        /\ \E d \in Int : GrownBy(h, Synced(h, w, skip), ms, d)
    BY <1>5, <1>8, SyncedAdds
  <1>11. PICK d \in Int : GrownBy(h, g, ms, d)
    BY <1>9, <1>10
  <1>12. OwnMessages(t, r.agent, ms)
    BY <1>2, <1>5, <1>7 DEF MessagesOK
  <1>13. /\ Len(h) \in Nat /\ Len(w) \in Nat /\ Len(ms) \in Nat /\ DOMAIN ms = 1..Len(ms)
    BY <1>5, LenProperties
  <1>14. OwnGrowth(h, g, t)
    BY <1>11, <1>12, <1>13 DEF GrownBy, OwnMessages, OwnGrowth
  <1>15. ASSUME r.met = {} PROVE HeldAtEnd(g, t, SavedBefore(t, r, made[t]) \o ms)
    <2>1. HeldAtEnd(h, t, SavedBefore(t, r, made[t])) /\ Len(w) = Len(h) + skip + Len(ms)
      BY <1>1, <1>2, <1>4, <1>15, <1>6 DEF AloneOK, Looping
    <2>2. b = Len(h) + skip
      BY <1>8, <1>13, <2>1
    <2>3. PICK x : x = EndFrom(w, b + 1)
      OBVIOUS
    <2>4. x \in Seq(Message) /\ Len(x) = Len(ms) /\ \A i \in 1..Len(ms) : x[i] = ms[i]
      <3>1. /\ w \in Seq(Message) /\ ms \in Seq(Message) /\ b \in Nat /\ Len(w) = b + Len(ms)
            /\ \A i \in DOMAIN ms : w[b + i] = ms[i]
        BY <1>5, <1>8
      <3>2. EndFrom(w, b + 1) \in Seq(Message)
        BY <3>1, LoopAtEnd
      <3>3. Len(EndFrom(w, b + 1)) = Len(ms)
        BY <3>1, LoopAtEnd
      <3>4. \A i \in 1..Len(ms) : EndFrom(w, b + 1)[i] = ms[i]
        BY <3>1, LoopAtEnd
      <3> QED BY <2>3, <3>2, <3>3, <3>4
    <2>5. g = h \o x
      BY <1>9, <2>2, <2>3 DEF EndFrom
    <2>6. /\ Len(g) = Len(h) + Len(x)
          /\ \A i \in 1..(Len(h) + Len(x)) : g[i] = IF i <= Len(h) THEN h[i] ELSE x[i - Len(h)]
      BY <1>5, <2>4, <2>5, ConcatProperties, SMTT(30)
    <2>7. \A i \in 1..Len(h) : g[i] = h[i]
      BY <1>11 DEF GrownBy
    <2>8. ASSUME NEW i \in 1..Len(ms) PROVE g[Len(h) + i] = ms[i]
      <3>1. Len(h) + i \in 1..(Len(h) + Len(x)) /\ ~(Len(h) + i <= Len(h))
            /\ (Len(h) + i) - Len(h) = i
        BY <1>13, <2>4
      <3> QED BY <2>4, <2>6, <3>1
    <2>9. SavedBefore(t, r, made[t]) \in Seq(Message)
      BY <1>5, <1>6, SavedTyped
    <2>10. Len(g) = Len(h) + Len(ms)
      BY <2>4, <2>6
    <2> QED BY <1>5, <1>9, <1>10, <2>1, <2>7, <2>8, <2>9, <2>10, HeldGrows
  <1> QED BY <1>1, <1>2, <1>3, <1>9, <1>10, <1>14, <1>15

(* The end of a turn's last loop.                                          *)
LEMMA AloneClosing ==
  ASSUME TurnsInv, AloneInv, NEW t \in Turns, turn[t].pc = "loop_done",
         NEW skip \in 0..1, skip = IF turn[t].agent = "domain" THEN 1 ELSE 0,
         NEW g, g = Synced(history[SessionOf[t]], turn[t].working, skip),
         NEW q, q = [turn[t] EXCEPT !.pc = "closing"], made' = made,
         history' = [history EXCEPT ![SessionOf[t]] = g],
         turn' = [turn EXCEPT ![t] = q]
  PROVE  AloneInv'
  <1>1. PICK r : r = turn[t]
    OBVIOUS
  <1>2. PICK m : m = made[t]
    OBVIOUS
  <1>3. /\ r \in TurnRow /\ m \in [Agents -> Seq(Message)] /\ MessagesOK(t, r, m)
        /\ AloneOK(t, r, m, history[SessionOf[t]])
        /\ limits \in Limits /\ made \in [Turns -> [Agents -> Seq(Message)]]
    BY <1>1, <1>2, RowFacts DEF TurnOK, AloneInv, TurnsInv, Shape
  <1>4. /\ q.pc = "closing" /\ q.agent = r.agent /\ q.working = r.working /\ q.met = r.met
        /\ q.unsaved = r.unsaved
    BY <1>1, <1>3 DEF TurnRow
  <1>5. /\ g \in Seq(Message) /\ OwnGrowth(history[SessionOf[t]], g, t)
        /\ r.met = {} => HeldAtEnd(g, t, SavedBefore(t, r, m) \o m[r.agent])
    BY <1>1, <1>2, AloneSynced
  <1>6. ASSUME q.met = {} PROVE HeldTogether(g, t, SavedAfter(t, q, m))
    <2>1. ~r.unsaved
      BY <1>1, <1>3, <1>4, <1>6 DEF AloneOK, Looping
    <2>2. PICK u : u = UserMessage(t) \o m["orchestrator"]
      OBVIOUS
    <2>3. SavedAfter(t, q, m) = u \o m["domain"]
      BY <1>4, <2>1, <2>2 DEF SavedAfter
    <2>4. u \in Seq(Message)
      BY <1>3, <2>2, SavedTyped
    <2>5. CASE r.agent = "orchestrator"
      <3>1. m["domain"] = <<>>
        BY <1>3, <2>5 DEF MessagesOK
      <3>2. u \o <<>> = u
        BY <2>4, ConcatEmptySeq
      <3>3. SavedBefore(t, r, m) \o m[r.agent] = u
        BY <2>2, <2>5 DEF SavedBefore
      <3> QED BY <1>4, <1>5, <1>6, <2>3, <3>1, <3>2, <3>3 DEF HeldAtEnd, HeldTogether
    <2>6. CASE r.agent = "domain"
      <3>1. SavedBefore(t, r, m) \o m[r.agent] = u \o m["domain"]
        BY <2>2, <2>6 DEF SavedBefore
      <3> QED BY <1>4, <1>5, <1>6, <2>3, <3>1 DEF HeldAtEnd, HeldTogether
    <2> QED BY <1>3, <2>5, <2>6 DEF TurnRow, Agents
  <1>7. AloneOK(t, q, m, g)
    BY <1>4, <1>6 DEF AloneOK, Looping
  <1>8. Active(t) /\ made' = [made EXCEPT ![t] = m]
    BY <1>2, <1>3 DEF Active
  <1> QED BY <1>1, <1>4, <1>5, <1>7, <1>8, AloneMoves

LEMMA AloneSyncDomain ==
  ASSUME TurnsInv, AloneInv, NEW t \in Turns, SyncDomain(t)
  PROVE  AloneInv'
  <1>1. PICK g : g = Synced(history[SessionOf[t]], turn[t].working, 1)
    OBVIOUS
  <1>2. PICK q : q = [turn[t] EXCEPT !.pc = "closing"]
    OBVIOUS
  <1>3. SessionOf[t] \in Sessions
    BY RowFacts
  <1>4. turn[t].pc = "loop_done" /\ turn[t].agent = "domain" /\ made' = made
    BY DEF SyncDomain
  <1>5. history' = [history EXCEPT ![SessionOf[t]] = g]
    BY <1>1, <1>3 DEF SyncDomain, TurnsInv, Shape
  <1>6. turn' = [turn EXCEPT ![t] = q]
    BY <1>2 DEF SyncDomain, TurnsInv, Shape
  <1>7. 1 \in 0..1 /\ 1 = IF turn[t].agent = "domain" THEN 1 ELSE 0
    BY <1>4
  <1> QED BY <1>1, <1>2, <1>4, <1>5, <1>6, <1>7, AloneClosing

(* The domain agent starts from the transcript and its seed.               *)
LEMMA AloneHandoff ==
  ASSUME TurnsInv, AloneInv, NEW t \in Turns, turn[t].pc = "loop_done",
         turn[t].agent = "orchestrator",
         NEW g, g = Synced(history[SessionOf[t]], turn[t].working, 0),
         NEW q, q = HandoffRow(turn[t], Append(g, Msg(t, "domain", "user", 0))),
         made' = made, history' = [history EXCEPT ![SessionOf[t]] = g],
         turn' = [turn EXCEPT ![t] = q]
  PROVE  AloneInv'
  <1>1. PICK r : r = turn[t]
    OBVIOUS
  <1>2. PICK m : m = made[t]
    OBVIOUS
  <1>3. /\ r \in TurnRow /\ m \in [Agents -> Seq(Message)] /\ MessagesOK(t, r, m)
        /\ AloneOK(t, r, m, history[SessionOf[t]])
        /\ limits \in Limits /\ made \in [Turns -> [Agents -> Seq(Message)]]
    BY <1>1, <1>2, RowFacts DEF TurnOK, AloneInv, TurnsInv, Shape
  <1>4. PICK w : w = Append(g, Msg(t, "domain", "user", 0))
    OBVIOUS
  <1>5. /\ q.pc = "stream" /\ q.agent = "domain" /\ q.working = w /\ q.met = r.met
        /\ q.unsaved = r.unsaved
    BY <1>1, <1>3, <1>4 DEF TurnRow, HandoffRow
  <1>6. 0 \in 0..1 /\ 0 = IF turn[t].agent = "domain" THEN 1 ELSE 0
    OBVIOUS
  <1>7. /\ g \in Seq(Message) /\ OwnGrowth(history[SessionOf[t]], g, t)
        /\ r.met = {} => HeldAtEnd(g, t, SavedBefore(t, r, m) \o m[r.agent])
    BY <1>1, <1>2, <1>6, AloneSynced
  <1>8. Msg(t, "domain", "user", 0) \in Message
    <2>1. 0 \in 0..limits.blocks
      BY <1>3, LimitsTyped
    <2> QED BY <2>1, MessageTyped DEF Agents
  <1>9. Len(w) = Len(g) + 1 /\ Len(g) \in Nat
    BY <1>4, <1>7, <1>8, Appended
  <1>10. m["domain"] = <<>> /\ Len(<<>>) = 0
    BY <1>1, <1>3, EmptySeq DEF MessagesOK
  <1>11. Len(q.working) = Len(g) + (IF q.agent = "domain" THEN 1 ELSE 0) + Len(m[q.agent])
    <2>1. Len(m[q.agent]) = 0 /\ (IF q.agent = "domain" THEN 1 ELSE 0) = 1
      BY <1>5, <1>10
    <2>2. Len(q.working) = Len(g) + 1 + 0
      BY <1>5, <1>9
    <2> QED BY <2>1, <2>2
  <1>12. SavedBefore(t, q, m) = SavedBefore(t, r, m) \o m[r.agent]
    BY <1>1, <1>5 DEF SavedBefore
  <1>13. r.met = {} => ~q.unsaved
    BY <1>1, <1>3, <1>5 DEF AloneOK, Looping
  <1>14. AloneOK(t, q, m, g)
    BY <1>5, <1>7, <1>11, <1>12, <1>13 DEF AloneOK
  <1>15. Active(t) /\ made' = [made EXCEPT ![t] = m]
    BY <1>2, <1>3 DEF Active
  <1> QED BY <1>1, <1>5, <1>7, <1>14, <1>15, AloneMoves

LEMMA AloneSyncOrchestrator ==
  ASSUME TurnsInv, AloneInv, NEW t \in Turns, SyncOrchestrator(t)
  PROVE  AloneInv'
  <1>1. PICK g : g = Synced(history[SessionOf[t]], turn[t].working, 0)
    OBVIOUS
  <1>2. PICK c : c = [turn[t] EXCEPT !.pc = "closing"]
    OBVIOUS
  <1>3. PICK q : q = HandoffRow(turn[t], Append(g, Msg(t, "domain", "user", 0)))
    OBVIOUS
  <1>4. /\ turn[t].pc = "loop_done" /\ turn[t].agent = "orchestrator" /\ made' = made
        /\ history' = [history EXCEPT ![SessionOf[t]] = g]
    BY <1>1 DEF SyncOrchestrator
  <1>5. turn' = [turn EXCEPT ![t] = q] \/ turn' = [turn EXCEPT ![t] = c]
    <2>1. CASE turn[t].handoff /\ ~turn[t].errored
      BY <1>1, <1>3, <2>1 DEF SyncOrchestrator, HandoffRow, TurnsInv, Shape
    <2>2. CASE ~(turn[t].handoff /\ ~turn[t].errored)
      BY <1>1, <1>2, <2>2 DEF SyncOrchestrator, TurnsInv, Shape
    <2> QED BY <2>1, <2>2
  <1>6. 0 \in 0..1 /\ 0 = IF turn[t].agent = "domain" THEN 1 ELSE 0
    BY <1>4
  <1>7. CASE turn' = [turn EXCEPT ![t] = q]
    BY <1>1, <1>3, <1>4, <1>7, AloneHandoff
  <1>8. CASE turn' = [turn EXCEPT ![t] = c]
    BY <1>1, <1>2, <1>4, <1>6, <1>8, AloneClosing
  <1> QED BY <1>5, <1>7, <1>8

(* A turn is sent: it and the turns in progress in its session meet.       *)
LEMMA AloneStart ==
  ASSUME TurnsInv, AloneInv, NEW t \in Turns, Start(t)
  PROVE  AloneInv'
  <1>1. PICK others : others = InProgress(SessionOf[t])
    OBVIOUS
  <1>2. PICK answers \in Answers(t), allowed \in BOOLEAN :
          turn' = [u \in Turns |->
                     IF u = t THEN [Fresh EXCEPT !.pc = "gates", !.approvals = answers,
                                                 !.allowed = allowed, !.met = others]
                     ELSE IF u \in others THEN [turn[u] EXCEPT !.met = @ \union {t}]
                     ELSE turn[u]]
    BY <1>1 DEF Start
  <1>3. turn[t].pc = "idle" /\ history' = history /\ made' = made
    BY DEF Start
  <1>4. turn'[t] = [Fresh EXCEPT !.pc = "gates", !.approvals = answers,
                                 !.allowed = allowed, !.met = others]
    BY <1>2
  <1>5. /\ turn'[t].pc = "gates" /\ turn'[t].working = <<>> /\ ~turn'[t].unsaved
        /\ turn'[t].met = others
    BY <1>4 DEF Fresh
  <1>6. ASSUME NEW u \in Turns, u # t
        PROVE  /\ turn'[u].pc = turn[u].pc /\ turn'[u].agent = turn[u].agent
               /\ turn'[u].working = turn[u].working /\ turn'[u].unsaved = turn[u].unsaved
               /\ turn'[u].met = IF u \in others THEN turn[u].met \cup {t} ELSE turn[u].met
    <2>1. turn[u] \in TurnRow
      BY RowFacts
    <2>2. turn'[u] = IF u \in others THEN [turn[u] EXCEPT !.met = @ \union {t}] ELSE turn[u]
      BY <1>2, <1>6
    <2>3. CASE u \in others
      <3>1. PICK r : r = [turn[u] EXCEPT !.met = @ \union {t}]
        OBVIOUS
      <3>2. /\ r.pc = turn[u].pc /\ r.agent = turn[u].agent /\ r.working = turn[u].working
            /\ r.unsaved = turn[u].unsaved /\ r.met = turn[u].met \cup {t}
        BY <2>1, <3>1 DEF TurnRow
      <3> QED BY <2>2, <2>3, <3>1, <3>2
    <2> QED BY <2>2, <2>3
  <1>7. \A u \in Turns : u \in others <=> SessionOf[u] = SessionOf[t] /\ Active(u)
    BY <1>1 DEF InProgress
  <1>8. Mutual'
    <2> SUFFICES ASSUME NEW u \in Turns, NEW v \in Turns, u # v,
                        SessionOf[u] = SessionOf[v], Active(u)', Active(v)'
                 PROVE  v \in turn'[u].met
      BY DEF Mutual
    <2>1. CASE u = t
      BY <1>5, <1>6, <1>7, <2>1 DEF Active
    <2>2. CASE v = t
      BY <1>6, <1>7, <2>2 DEF Active
    <2>3. CASE u # t /\ v # t
      <3>1. Active(u) /\ Active(v)
        BY <1>6, <2>3 DEF Active
      <3>2. v \in turn[u].met
        BY <3>1 DEF AloneInv, Mutual
      <3> QED BY <1>6, <2>3, <3>2
    <2> QED BY <2>1, <2>2, <2>3
  <1>9. ASSUME NEW u \in Turns
        PROVE  AloneOK(u, turn'[u], made'[u], history'[SessionOf[u]])
    <2>1. AloneOK(u, turn[u], made[u], history[SessionOf[u]])
      BY DEF AloneInv
    <2>2. CASE u = t
      <3>1. NoneOf(history[SessionOf[t]], t)
        BY <1>3, <2>1, <2>2 DEF AloneOK
      <3> QED BY <1>3, <1>5, <2>2, <3>1 DEF AloneOK, Looping
    <2>3. CASE u # t
      <3>1. turn'[u].met = {} => turn[u].met = {}
        BY <1>6, <2>3
      <3>2. /\ SavedBefore(u, turn'[u], made[u]) = SavedBefore(u, turn[u], made[u])
            /\ SavedAfter(u, turn'[u], made[u]) = SavedAfter(u, turn[u], made[u])
        BY <1>6, <2>3 DEF SavedBefore, SavedAfter
      <3> QED BY <1>3, <1>6, <2>1, <2>3, <3>1, <3>2 DEF AloneOK
    <2> QED BY <2>2, <2>3
  <1> QED BY <1>8, <1>9 DEF AloneInv

LEMMA AloneInit == Init => AloneInv
  <1> SUFFICES ASSUME Init PROVE AloneInv
    OBVIOUS
  <1>1. \A t \in Turns : /\ turn[t].pc = "idle" /\ turn[t].working = <<>> /\ ~turn[t].unsaved
                         /\ history[SessionOf[t]] = <<>>
    BY AgentTurnAssumption DEF Init, Fresh
  <1>2. Len(<<>>) = 0
    BY EmptySeq
  <1>3. \A t : NoneOf(<<>>, t)
    BY <1>2 DEF NoneOf
  <1> QED BY <1>1, <1>3 DEF AloneInv, Mutual, Active, AloneOK, Looping

LEMMA AloneStep ==
  ASSUME TurnsInv, AloneInv, [Next]_vars
  PROVE  AloneInv'
  <1>1. CASE UNCHANGED vars
    BY <1>1 DEF vars, AloneInv, Mutual, Active
  <1>2. ASSUME NEW t \in Turns, Progress(t) PROVE AloneInv'
    <2>1. CASE \/ GateRefuses(t) \/ GateRaises(t) \/ StreamDelta(t) \/ StreamDegenerate(t)
               \/ \E err \in {"rate", "conn", "permanent"} :
                     StreamRetries(t, err) \/ StreamFails(t, err)
               \/ UseTool(t) \/ ToolResult(t) \/ ApprovalPause(t) \/ LoopRaises(t)
               \/ Finish(t)
      BY <2>1, AlonePlainSteps
    <2>2. CASE \/ \E n \in 0..1 : StreamStops(t, n)
               \/ \E blocks \in BlockSeqs(t) : StreamToolUse(t, blocks)
               \/ Intercept(t) \/ EndRound(t)
      BY <2>2, AloneRecordSteps
    <2>3. CASE Accept(t) \/ SyncOrchestrator(t) \/ SyncDomain(t)
      BY <2>3, AloneAccept, AloneSyncOrchestrator, AloneSyncDomain
    <2> QED BY <1>2, <2>1, <2>2, <2>3 DEF Progress
  <1>3. ASSUME NEW t \in Turns, Start(t) \/ Cancel(t) PROVE AloneInv'
    BY <1>3, AloneStart, AlonePlainSteps
  <1> QED BY <1>1, <1>2, <1>3 DEF Next, Step

(* A turn that met no other of its session while it ran leaves on the      *)
(* transcript its user message and all that its loops appended, once, in   *)
(* order and in one piece: _sync_history loses, repeats and splits nothing *)
(* of it, however many turns came before and come after, and no later turn *)
(* disturbs it.                                                            *)
THEOREM AloneTranscriptAlwaysKept == Spec => []AloneTranscriptKept
  <1>1. Init => AloneInv
    BY AloneInit
  <1>2. TurnsInv /\ AloneInv /\ [Next]_vars => AloneInv'
    BY AloneStep
  <1>3. AloneInv => AloneTranscriptKept
    <2> SUFFICES ASSUME AloneInv, NEW t \in Turns, turn[t].pc = "done",
                        turn[t].working # <<>>, turn[t].met = {}
                 PROVE  HeldTogether(history[SessionOf[t]], t, OwnTranscript(t))
      BY DEF AloneTranscriptKept
    <2>1. HeldTogether(history[SessionOf[t]], t, SavedAfter(t, turn[t], made[t]))
      BY DEF AloneInv, AloneOK
    <2> QED BY <2>1 DEF SavedAfter, OwnTranscript, UserMessage
  <1> QED BY <1>1, <1>2, <1>3, TurnsInvariant, PTL DEF Spec

=============================================================================
