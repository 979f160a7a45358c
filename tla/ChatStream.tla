----------------------------- MODULE ChatStream -----------------------------
(***************************************************************************)
(* One chat turn as the browser sees it: POST /chat/sessions/{id}/messages *)
(* (API chat.py, send_message) on one side, streamSSE of the TypeScript    *)
(* SDK (packages/sdk/src/sse.ts) on the other, and between them a link     *)
(* that may be cut at any moment.  The SDK posts the message, reads the    *)
(* event stream, and when the stream ends without a `final' frame it backs *)
(* off and posts the SAME body again with the last id it has seen in the   *)
(* Last-Event-ID header.  The server replays what its session object has   *)
(* buffered after that id, and then runs the turn.                         *)
(*                                                                         *)
(* Which session object a request works on depends on the store: the       *)
(* in-memory store hands every request the same object, the Postgres store *)
(* builds a new one from the database row for each request.                *)
(*                                                                         *)
(* The turn itself is module AgentTurn; here it is a source of events that *)
(* ends with a final or raises, and only turns its gates admit are         *)
(* considered (a refused one records no user message).                     *)
(***************************************************************************)
EXTENDS Naturals, Sequences, SequencesExt, FiniteSets

CONSTANTS
    Stores,      \* the session stores considered: "memory", "postgres"
    Sends,       \* the bodies sent, in order: "text", "approvals" or "none"
    MaxRetries,  \* DEFAULT_MAX_RETRIES of the SDK
    BufferCap,   \* SSE_REPLAY_BUFFER_CAP
    MaxEvents,   \* bound: events a turn yields before its final
    MaxRestarts, \* bound: restarts of the API process
    PromptNotice \* TRUE: the server notices a cut link before the client is back

ASSUME ChatStreamAssumption ==
    /\ Stores \subseteq {"memory", "postgres"}
    /\ Sends \in Seq({"text", "approvals", "none"}) /\ Sends # << >>
    /\ MaxRetries \in Nat /\ BufferCap \in Nat \ {0}
    /\ MaxEvents \in Nat /\ MaxRestarts \in Nat /\ PromptNotice \in BOOLEAN

Messages == 1 .. Len(Sends)
\* Every request the client can make: a first post and MaxRetries more per message.
Conns == 1 .. Len(Sends) * (MaxRetries + 1)
FrameKinds == {"event", "final", "error", "replay_failed"}
Frames == [id : Nat \ {0}, run : Conns, kind : FrameKinds]

VARIABLES
    store,    \* the session store of this deployment (runtime.py chooses it)
    sess,     \* the session objects: last id given, replay buffer, user messages
    exists,   \* the store still has the session
    title,    \* the message the session is titled after, 0 for none
    conn,     \* the requests the server has accepted, in order
    client,   \* the SDK's iterator and the user driving it
    log,      \* every frame given an id, per session object (history variable)
    restarts  \* restarts so far

streamVars == <<store, sess, exists, title, conn, client, log, restarts>>

-----------------------------------------------------------------------------
(* The session objects. *)

\* session.py Session: sse_last_event_id, sse_event_buffer, message_history.
FreshSession == [last |-> 0, buf |-> << >>, hist |-> << >>]

\* The object request c reads and writes.  PostgresSessionStore.get returns a
\* new Session each time, whose counter and buffer start empty and whose
\* messages come from rows that no request ever writes.
Obj(c) == IF store = "memory" THEN 0 ELSE c

\* _next_event_id and _append_to_buffer: the next id, the frame at the end of
\* the buffer, the oldest frames dropped beyond the cap.
Numbered(s, run, kind) == [id |-> s.last + 1, run |-> run, kind |-> kind]

Buffered(s, f) ==
    LET b == Append(s.buf, f)
        over == IF Len(b) > BufferCap THEN Len(b) - BufferCap ELSE 0
    IN  [s EXCEPT !.last = f.id, !.buf = SubSeq(b, over + 1, Len(b))]

\* Frames put on a link that is cut go nowhere.
OnWire(r, fs) == [r EXCEPT !.wire = IF r.link THEN r.wire \o fs ELSE << >>]

\* run_turn appends the user's message to the history, an empty one too.
Recorded(s, m) == [s EXCEPT !.hist = Append(@, m)]

-----------------------------------------------------------------------------
(* The client. *)

Reading(c) == client.phase = "read" /\ client.conn = c

\* sendMessage: streamSSE starts with no last id, no attempt made.
Send ==
    /\ client.phase = "idle" /\ client.msg < Len(Sends)
    /\ client' = [client EXCEPT !.phase = "fetch", !.msg = @ + 1, !.last = 0,
                                !.attempt = 0, !.terminal = FALSE, !.seen = << >>]
    /\ UNCHANGED <<store, sess, exists, title, conn, log, restarts>>

\* The stream is over for the client: done if it saw the terminal frame or has
\* no attempt left, otherwise it waits before the next attempt.
StreamOver ==
    IF client.terminal THEN [client EXCEPT !.phase = "idle", !.answered = @ \union {client.msg}]
    ELSE IF client.attempt >= MaxRetries THEN [client EXCEPT !.phase = "idle"]
    ELSE [client EXCEPT !.phase = "backoff", !.attempt = @ + 1]

\* The request never reaches the server: a network error, so the SDK retries.
FetchFails ==
    /\ client.phase = "fetch"
    /\ client' = StreamOver
    /\ UNCHANGED <<store, sess, exists, title, conn, log, restarts>>

\* A response that is not ok (404 for a session the store lost, an expired
\* login, 503) is thrown to the caller and not retried.
Refused ==
    /\ client.phase = "fetch"
    /\ client' = [client EXCEPT !.phase = "idle"]
    /\ UNCHANGED <<store, sess, exists, title, conn, log, restarts>>

\* The backoff ends and the same body is posted again.
Retry ==
    /\ client.phase = "backoff"
    /\ client' = [client EXCEPT !.phase = "fetch"]
    /\ UNCHANGED <<store, sess, exists, title, conn, log, restarts>>

\* stop(): the signal aborts the fetch or the wait; nothing is retried.
Abort ==
    /\ client.phase \in {"fetch", "read", "backoff"}
    /\ client' = [client EXCEPT !.phase = "idle"]
    /\ conn' = IF client.phase = "read"
               THEN [conn EXCEPT ![client.conn].link = FALSE, ![client.conn].wire = << >>]
               ELSE conn
    /\ UNCHANGED <<store, sess, exists, title, log, restarts>>

\* One frame arrives: it is the last id now, and maybe the terminal frame.
Receive(c) ==
    /\ Reading(c) /\ conn[c].wire # << >>
    /\ LET f == Head(conn[c].wire) IN
         client' = [client EXCEPT !.last = f.id, !.seen = Append(@, f),
                                  !.terminal = @ \/ f.kind = "final"]
    /\ conn' = [conn EXCEPT ![c].wire = Tail(@)]
    /\ UNCHANGED <<store, sess, exists, title, log, restarts>>

\* Mutant of CleanClose: a body that ends without the final is waited on.
CleanCloseOnFinal(c) ==
    /\ Reading(c) /\ conn[c].link /\ conn[c].phase = "over" /\ conn[c].wire = << >>
    /\ client.terminal
    /\ client' = StreamOver
    /\ UNCHANGED <<store, sess, exists, title, conn, log, restarts>>

\* The response body ends: the generator returned and every frame was read.
CleanClose(c) ==
    /\ Reading(c) /\ conn[c].link /\ conn[c].phase = "over" /\ conn[c].wire = << >>
    /\ client' = StreamOver
    /\ UNCHANGED <<store, sess, exists, title, conn, log, restarts>>

\* The read fails on a cut link.
SeesCut(c) ==
    /\ Reading(c) /\ ~ conn[c].link
    /\ client' = StreamOver
    /\ UNCHANGED <<store, sess, exists, title, conn, log, restarts>>

-----------------------------------------------------------------------------
(* The server. *)

\* replay_valid: the session has given out that id, or a higher one.
ReplayValid(s, after) == after <= s.last

\* send_message up to the returned response: the session is looked up, an
\* untitled session without history is titled after the text, and whether
\* the client's last id can be replayed from is decided HERE.
OpenStream ==
    /\ client.phase = "fetch" /\ exists
    /\ PromptNotice => \A d \in DOMAIN conn : conn[d].phase # "over" => conn[d].link
    /\ LET c == Len(conn) + 1
           s == sess[Obj(c)]
       IN  /\ conn' = Append(conn,
                        [phase |-> "opened", msg |-> client.msg, after |-> client.last,
                         valid |-> ReplayValid(s, client.last), link |-> TRUE, wire |-> << >>,
                         sent |-> 0, ran |-> FALSE])
           /\ title' = IF title = 0 /\ Sends[client.msg] = "text" /\ s.hist = << >>
                       THEN client.msg ELSE title
           /\ client' = [client EXCEPT !.phase = "read", !.conn = c]
    /\ UNCHANGED <<store, sess, exists, log, restarts>>

\* Last-Event-ID is sent only by a client that has seen an id.
ReplayRequested(c) == conn[c].after # 0

\* The frames of a buffer with an id above n, oldest first, as the comprehension
\* over sse_event_buffer collects them.
Since(b, n) ==
    LET kept[i \in 0 .. Len(b)] ==
          IF i = 0 THEN << >>
          ELSE IF b[i].id > n THEN Append(kept[i - 1], b[i]) ELSE kept[i - 1]
    IN  kept[Len(b)]

\* Mutant of Replayed: the first unseen frame is skipped.
ReplayedTailOnly(c) == Since(sess[Obj(c)].buf, conn[c].after + 1)

\* The frames of the buffer the client has not seen.
Replayed(c) == Since(sess[Obj(c)].buf, conn[c].after)

\* Mutant of ReplayFinished: the replayed tail is never looked at.
ReplayNeverFinished(c) == FALSE

\* The replay ended with the terminal frame: close without running the turn.
ReplayFinished(c) == Replayed(c) # << >> /\ Last(Replayed(c)).kind = "final"

\* event_source, replay path, answered from the buffer alone: the tail is the
\* terminal frame, or the body asks for no work.
ReplayAll(c) ==
    /\ conn[c].phase = "opened"
    /\ ReplayRequested(c) /\ conn[c].valid /\ (ReplayFinished(c) \/ Sends[conn[c].msg] = "none")
    /\ conn' = [conn EXCEPT ![c] = [OnWire(@, Replayed(c)) EXCEPT !.phase = "over"]]
    /\ UNCHANGED <<store, sess, exists, title, client, log, restarts>>

\* event_source, what the buffer has and then the live path.
ReplayThenRun(c) ==
    /\ conn[c].phase = "opened"
    /\ ReplayRequested(c) => /\ conn[c].valid /\ ~ ReplayFinished(c)
                           /\ Sends[conn[c].msg] # "none"
    /\ conn' = [conn EXCEPT ![c] =
                  [OnWire(@, IF ReplayRequested(c) THEN Replayed(c) ELSE << >>)
                     EXCEPT !.phase = "live", !.ran = TRUE]]
    /\ sess' = [sess EXCEPT ![Obj(c)] = Recorded(@, conn[c].msg)]
    /\ UNCHANGED <<store, exists, title, client, log, restarts>>

\* event_source, a last id the session never gave: a replay_failed frame, which
\* takes an id of its own, and then the live path.
ReplayFails(c) ==
    /\ conn[c].phase = "opened" /\ ReplayRequested(c) /\ ~ conn[c].valid
    /\ LET s == sess[Obj(c)]
           f == Numbered(s, c, "replay_failed")
       IN  /\ sess' = [sess EXCEPT ![Obj(c)] = Recorded(Buffered(s, f), conn[c].msg)]
           /\ log' = [log EXCEPT ![Obj(c)] = Append(@, f)]
           /\ conn' = [conn EXCEPT ![c] = [OnWire(@, <<f>>) EXCEPT !.phase = "live", !.ran = TRUE]]
    /\ UNCHANGED <<store, exists, title, client, restarts>>

\* Live path: run_turn yields an event or its final, or raises and the handler
\* adds an error frame; each frame is numbered, buffered and sent.
Emit(c, kind) ==
    /\ conn[c].phase = "live"
    /\ kind = "event" => conn[c].sent < MaxEvents
    /\ LET s == sess[Obj(c)]
           f == Numbered(s, c, kind)
       IN  /\ sess' = [sess EXCEPT ![Obj(c)] = Buffered(s, f)]
           /\ log' = [log EXCEPT ![Obj(c)] = Append(@, f)]
           /\ conn' = [conn EXCEPT ![c] =
                         [OnWire(@, <<f>>) EXCEPT !.sent = conn[c].sent + 1,
                                                  !.phase = IF kind = "event" THEN "live" ELSE "over"]]
    /\ UNCHANGED <<store, exists, title, client, restarts>>

\* The server learns that the link is cut: is_disconnected breaks the loop, or
\* the response is cancelled and with_heartbeats cancels the pump.
Notice(c) ==
    /\ conn[c].phase \in {"opened", "live"} /\ ~ conn[c].link
    /\ conn' = [conn EXCEPT ![c].phase = "over"]
    /\ UNCHANGED <<store, sess, exists, title, client, log, restarts>>

-----------------------------------------------------------------------------
(* The environment. *)

\* The link of a request is cut; what was on its way is lost.
Cut(c) ==
    /\ conn[c].link /\ Reading(c)
    /\ conn' = [conn EXCEPT ![c].link = FALSE, ![c].wire = << >>]
    /\ UNCHANGED <<store, sess, exists, title, client, log, restarts>>

\* The API process restarts: every stream breaks, objects in memory are gone,
\* and with the in-memory store so is the session.
RestartApi ==
    /\ restarts < MaxRestarts
    /\ restarts' = restarts + 1
    /\ exists' = (exists /\ store = "postgres")
    /\ conn' = [c \in DOMAIN conn |->
                  [conn[c] EXCEPT !.phase = "over", !.link = FALSE, !.wire = << >>]]
    /\ UNCHANGED <<store, sess, title, client, log>>

-----------------------------------------------------------------------------

StreamInit ==
    /\ store \in Stores
    /\ sess = [o \in {0} \union Conns |-> FreshSession]
    /\ exists = TRUE
    /\ title = 0
    /\ conn = << >>
    /\ client = [phase |-> "idle", msg |-> 0, conn |-> 0, last |-> 0, attempt |-> 0,
                 terminal |-> FALSE, seen |-> << >>, answered |-> {}]
    /\ log = [o \in {0} \union Conns |-> << >>]
    /\ restarts = 0

ClientStep(c) == Receive(c) \/ CleanClose(c) \/ SeesCut(c)

Serve(c) ==
    \/ ReplayAll(c) \/ ReplayThenRun(c) \/ ReplayFails(c)
    \/ \E kind \in {"event", "final", "error"} : Emit(c, kind)
    \/ Notice(c)

StreamNext ==
    \/ Send \/ FetchFails \/ Refused \/ Retry \/ Abort \/ OpenStream \/ RestartApi
    \/ \E c \in DOMAIN conn : ClientStep(c) \/ Serve(c) \/ Cut(c)

StreamSpec == StreamInit /\ [][StreamNext]_streamVars

\* Tasks of the event loop run on, and a posted request is answered or fails;
\* nothing is assumed of the user, of cuts or of restarts.
StreamFairness ==
    /\ WF_streamVars(Retry) /\ WF_streamVars(OpenStream \/ FetchFails \/ Refused)
    /\ \A c \in Conns : /\ WF_streamVars(c \in DOMAIN conn /\ ClientStep(c))
                        /\ WF_streamVars(c \in DOMAIN conn /\ Serve(c))

FairStreamSpec == StreamSpec /\ StreamFairness

-----------------------------------------------------------------------------
(* Properties. *)

\* The shape of the state; the buffer never exceeds its cap, and a client never
\* makes more attempts than it is allowed.
StreamTyped ==
    /\ store \in Stores
    /\ \A o \in DOMAIN sess :
         /\ sess[o].last \in Nat
         /\ sess[o].buf \in Seq(Frames) /\ Len(sess[o].buf) <= BufferCap
         /\ sess[o].hist \in Seq(Messages)
         /\ log[o] \in Seq(Frames)
    /\ exists \in BOOLEAN /\ title \in {0} \union Messages
    /\ Len(conn) <= Cardinality(Conns)
    /\ \A c \in DOMAIN conn : conn[c] \in
         [phase : {"opened", "live", "over"}, msg : Messages, after : Nat, valid : BOOLEAN,
          link : BOOLEAN, wire : Seq(Frames), sent : 0 .. MaxEvents + 1, ran : BOOLEAN]
    /\ client.phase \in {"idle", "fetch", "read", "backoff"}
    /\ client.msg \in {0} \union Messages /\ client.attempt \in 0 .. MaxRetries
    /\ client.answered \subseteq Messages /\ client.seen \in Seq(Frames)

\* chat.py 394-395: the ids a client sees while a message streams strictly
\* increase over all its reconnects, and each frame is the one the server gave
\* that id: nothing is shown twice, out of order, or changed by the replay.
SeenAscending ==
    /\ \A i, j \in DOMAIN client.seen : i < j => client.seen[i].id < client.seen[j].id
    /\ \A i \in DOMAIN client.seen :
         \E o \in DOMAIN log :
            /\ client.seen[i].id \in DOMAIN log[o]
            /\ log[o][client.seen[i].id] = client.seen[i]

\* That is so with the in-memory store, whose session object numbers the frames
\* of all requests.
SeenInOrder == store = "memory" => SeenAscending

\* chat.py 509-519: a client that reconnects either gets every frame since the
\* one it saw last, or is told by a replay_failed frame that it cannot.
GapsTold ==
    \A i \in DOMAIN client.seen \ {1} :
        \/ client.seen[i].id = client.seen[i - 1].id + 1
        \/ client.seen[i].kind = "replay_failed"

\* chat.py 491-502: a reconnect whose unseen frames hold the final of the message
\* is served from the buffer and does not run the message a second time.  (With
\* the Postgres store there is no buffer left to serve from.)
FinishedNotRerun ==
    store = "memory" => \A c, d \in DOMAIN conn :
        ( /\ c < d /\ conn[c].msg = conn[d].msg
          /\ conn[d].after # 0 /\ conn[d].ran )
        => ~ \E f \in Range(log[Obj(c)]) :
                 f.run = c /\ f.kind = "final" /\ f.id > conn[d].after

\* orchestrator.py 200-208: a turn that is running has the user's earlier
\* answered messages in the history it was given.
RemembersAnswered ==
    \A c \in DOMAIN conn : conn[c].phase = "live" =>
        client.answered \subseteq Range(sess[Obj(c)].hist)

\* That is so with the in-memory store, whose session object lives on.
MemoryRemembers == store = "memory" => RemembersAnswered

\* No buffer has been over its cap.
NothingDropped == \A o \in DOMAIN sess : sess[o].last <= BufferCap

\* A client's view of a message over all its reconnects: in order, unchanged,
\* and complete unless it was told otherwise, as long as the buffer has not
\* dropped frames and no request that is cut off runs on unnoticed.
FramesDelivered ==
    StreamTyped /\ SeenInOrder /\ (PromptNotice /\ NothingDropped => GapsTold)

\* The in-memory session spares a reconnecting client a second run and keeps
\* what was answered.
MemoryKeeps == (PromptNotice => FinishedNotRerun) /\ MemoryRemembers

\* chat.py 397-399: reconnecting replays "without re-running the orchestrator",
\* so one message is run at most once for a client that has seen part of it.
RunOnce ==
    \A c, d \in DOMAIN conn :
        c < d /\ conn[c].msg = conn[d].msg /\ conn[d].after # 0
        => ~ (conn[c].ran /\ conn[d].ran)

\* useAgentStream.ts 174-176: sends are serialised because "the runtime contract
\* only supports one active turn per session at a time".
OneActiveTurn ==
    Cardinality({c \in DOMAIN conn : conn[c].phase = "live"}) <= 1

\* sse.ts 101-172: the client's iterator always ends, with the final frame, after
\* its last attempt or by an error, however often the link is cut.
StreamsEnd == client.phase # "idle" ~> client.phase = "idle"
=============================================================================
