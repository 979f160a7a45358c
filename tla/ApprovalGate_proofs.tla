------------------------ MODULE ApprovalGate_proofs -------------------------
(* Machine-checked proofs about both sides of an approval: Approvals, where *)
(* it is decided, for every set of sessions, tenants, approvals, requests   *)
(* and listings and every TTL, and ToolInvocation, where a tool call waits  *)
(* for it, for every set of calls and every registry, and whatever the      *)
(* audit sink drops or the client cancels.                                  *)
EXTENDS Approvals, ToolInvocation, TLAPS

(* TypeOK is inductive: every handler of the approvals surface leaves the   *)
(* table, the requests and the log in their types.                          *)
LEMMA InitType == Init => TypeOK
  BY ApprovalsAssumption DEF Init, TypeOK, Row, NoRow, Request, ReqPCs, Listing,
     Upsert, Statuses, ResolvedStatuses

(* Moving a request to another label with a row image or a stamp keeps it a *)
(* request.                                                                 *)
LEMMA MoveRequest ==
  ASSUME NEW q \in Request, NEW p \in ReqPCs, NEW w \in Row, NEW t \in Nat
  PROVE  /\ [q EXCEPT !.pc = p, !.seen = w] \in Request
         /\ [q EXCEPT !.pc = p, !.at = t] \in Request
  BY DEF Request

(* A request that only moves to another label leaves the state well typed.  *)
LEMMA MoveType ==
  ASSUME TypeOK, NEW r \in Requests, NEW p \in ReqPCs,
         req' = [req EXCEPT ![r].pc = p],
         UNCHANGED <<now, live, upsert, adds, list>>,
         row' \in [Approvals -> Row], audit' \subseteq Audit, commits' \subseteq Audit
  PROVE  TypeOK'
<1>1. [req[r] EXCEPT !.pc = p] \in Request
  BY DEF TypeOK, Request
<1>2. req' \in [Requests -> Request]
  BY <1>1 DEF TypeOK
<1> QED
  BY <1>2 DEF TypeOK

(* What is stored is a row, of the columns read, now there or requested.    *)
LEMMA FlushedRow ==
  ASSUME NEW v \in Row, NEW w \in Row, NEW x \in Row
  PROVE  Flushed(v, w, x) \in Row
  BY DEF Flushed, Changed, Row

LEMMA FreshRow ==
  ASSUME NEW t \in Nat, NEW u \in Users \cup {NoOne}
  PROVE  Fresh(t) \in Row /\ [Fresh(t) EXCEPT !.resolved_by = u] \in Row
  BY ApprovalsAssumption DEF Fresh, Row, Statuses

LEMMA StoredRow ==
  ASSUME TypeOK, NEW a \in Approvals
  PROVE  Stored(a) \in Row
<1>1. upsert[a].seen \in Row /\ upsert[a].at \in Nat /\ row[a] \in Row
  BY DEF TypeOK, Upsert
<1>2. upsert[a].seen.resolved_by \in Users \cup {NoOne}
  BY <1>1 DEF Row
<1> QED
  BY <1>1, <1>2, FreshRow, FlushedRow DEF Stored

LEMMA NoRowRow == NoRow \in Row
  BY DEF NoRow, Row, Statuses

(* The three ways an add_approval moves on keep it well typed.              *)
LEMMA MoveUpsert ==
  ASSUME NEW u \in Upsert, NEW w \in Row, NEW t \in Nat, NEW b \in BOOLEAN, NEW c \in BOOLEAN
  PROVE  /\ [u EXCEPT !.pc = "read", !.seen = w, !.at = t] \in Upsert
         /\ [u EXCEPT !.pc = "idle", !.seen = w] \in Upsert
         /\ [u EXCEPT !.pc = "idle", !.seen = w, !.crossed = b, !.late = c] \in Upsert
  BY DEF Upsert

LEMMA UpsertType ==
  ASSUME TypeOK, NEW a \in Approvals, AddGet(a) \/ AddFlush(a) \/ AddFails(a)
  PROVE  upsert' \in [Approvals -> Upsert]
<1>0. upsert[a] \in Upsert /\ row[a] \in Row /\ now \in Nat /\ NoRow \in Row
  BY NoRowRow DEF TypeOK
<1>1. CASE AddGet(a)
  <2>1. upsert' = [upsert EXCEPT ![a] =
                     [upsert[a] EXCEPT !.pc = "read", !.seen = row[a], !.at = now]]
    BY <1>1 DEF AddGet
  <2> QED
    BY <1>0, <2>1, MoveUpsert DEF TypeOK
<1>2. CASE AddFlush(a)
  <2> DEFINE b == upsert[a].crossed \/ row[a] # upsert[a].seen
             c == upsert[a].at + TTL <= now
  <2>1. upsert' = [upsert EXCEPT ![a] = [upsert[a] EXCEPT !.pc = "idle", !.seen = NoRow,
                                                         !.crossed = b, !.late = c]]
    BY <1>2, Zenon DEF AddFlush
  <2>2. b \in BOOLEAN /\ c \in BOOLEAN
    OBVIOUS
  <2>3. [upsert[a] EXCEPT !.pc = "idle", !.seen = NoRow, !.crossed = b, !.late = c] \in Upsert
    <3> HIDE DEF b, c
    <3> QED
      BY <1>0, <2>2, MoveUpsert
  <2> QED
    <3> HIDE DEF b, c
    <3> QED
      BY <2>1, <2>3 DEF TypeOK
<1>3. CASE AddFails(a)
  <2>1. upsert' = [upsert EXCEPT ![a] = [upsert[a] EXCEPT !.pc = "idle", !.seen = NoRow]]
    BY <1>3 DEF AddFails
  <2> QED
    BY <1>0, <2>1, MoveUpsert DEF TypeOK
<1> QED
  BY <1>1, <1>2, <1>3

LEMMA StepType == TypeOK /\ [Next]_vars => TypeOK'
<1> SUFFICES ASSUME TypeOK, [Next]_vars PROVE TypeOK'
  OBVIOUS
<1> USE ApprovalsAssumption
<1>1. ASSUME NEW a \in Approvals, AddGet(a) \/ AddFlush(a) \/ AddFails(a) PROVE TypeOK'
  <2>1. Stored(a) \in Row
    BY StoredRow
  <2>2. upsert' \in [Approvals -> Upsert]
    BY <1>1, UpsertType
  <2>3. row' \in [Approvals -> Row] /\ adds' \in [Approvals -> Nat]
    BY <1>1, <2>1 DEF AddGet, AddFlush, AddFails, TypeOK
  <2> QED
    BY <1>1, <2>2, <2>3 DEF AddGet, AddFlush, AddFails, TypeOK
<1>2. ASSUME NEW r \in Requests, ResolveSelect(r) PROVE TypeOK'
  <2>1. row[req[r].id] \in Row /\ "read" \in ReqPCs
    BY DEF TypeOK, Request, ReqPCs
  <2>2. [req[r] EXCEPT !.pc = "read", !.seen = row[req[r].id]] \in Request
    BY <2>1, MoveRequest DEF TypeOK
  <2>3. req' = [req EXCEPT ![r] =
                  [req[r] EXCEPT !.pc = "read", !.seen = row[req[r].id]]]
    BY <1>2 DEF ResolveSelect
  <2> QED
    BY <1>2, <2>2, <2>3 DEF ResolveSelect, TypeOK
<1>3. ASSUME NEW r \in Requests, RefuseUnknown(r) PROVE TypeOK'
  BY <1>3, MoveType, "not_found" \in ReqPCs DEF RefuseUnknown, TypeOK, ReqPCs
<1>4. ASSUME NEW r \in Requests, RefuseResolved(r) PROVE TypeOK'
  BY <1>4, MoveType, "conflict" \in ReqPCs DEF RefuseResolved, TypeOK, ReqPCs
<1>5. ASSUME NEW r \in Requests, NEW p \in {"expire", "decide"},
             req' = [req EXCEPT ![r].pc = p, ![r].at = now],
             UNCHANGED <<now, live, row, upsert, adds, audit, commits, list>>
      PROVE  TypeOK'
  <2>1. NoRow \in Row /\ p \in ReqPCs /\ now \in Nat
    BY DEF TypeOK, Row, NoRow, ReqPCs, Statuses
  <2>2. [req[r] EXCEPT !.pc = p, !.at = now] \in Request
    BY <2>1, MoveRequest DEF TypeOK
  <2>3. req' = [req EXCEPT ![r] = [req[r] EXCEPT !.pc = p, !.at = now]]
    BY <1>5
  <2> QED
    BY <1>5, <2>2, <2>3 DEF TypeOK
<1>6. ASSUME NEW r \in Requests, DecideExpired(r) \/ Decide(r) PROVE TypeOK'
  BY <1>5, <1>6 DEF DecideExpired, Decide
<1>7. ASSUME NEW r \in Requests, CommitLost(r) PROVE TypeOK'
  BY <1>7, MoveType, "error" \in ReqPCs DEF CommitLost, TypeOK, ReqPCs
<1>8. ASSUME NEW r \in Requests, CommitExpired(r) PROVE TypeOK'
  <2>1. req[r].id \in Approvals /\ row[req[r].id] \in Row
    BY DEF TypeOK, Request
  <2>2. [row[req[r].id] EXCEPT !.status = "expired"] \in Row
    BY <2>1 DEF Row, Statuses, ResolvedStatuses
  <2>3. row' = [row EXCEPT ![req[r].id] = [row[req[r].id] EXCEPT !.status = "expired"]]
    BY <1>8 DEF CommitExpired
  <2>4. row' \in [Approvals -> Row]
    BY <2>1, <2>2, <2>3 DEF TypeOK
  <2> QED
    BY <1>8, <2>4, MoveType, "conflict" \in ReqPCs DEF CommitExpired, TypeOK, ReqPCs
<1>9. ASSUME NEW r \in Requests, CommitDecision(r) PROVE TypeOK'
  <2>1. /\ req[r].id \in Approvals /\ row[req[r].id] \in Row
        /\ req[r].granted \in {"TRUE", "FALSE"} /\ req[r].at \in Nat
    BY DEF TypeOK, Request
  <2>2. Decision(r) \in Audit
    BY <2>1 DEF Decision, Audit
  <2>3. Decided(r) \in Row /\ req[r].seen \in Row
    BY <2>1 DEF Decided, TypeOK, Request, Row, Statuses, ResolvedStatuses, Verb
  <2>4. row' \in [Approvals -> Row]
    BY <1>9, <2>1, <2>3, FlushedRow DEF CommitDecision, TypeOK
  <2> QED
    BY <1>9, <2>2, <2>4, MoveType, "committed" \in ReqPCs
    DEF CommitDecision, TypeOK, ReqPCs
<1>10. ASSUME NEW r \in Requests, WriteAudit(r) PROVE TypeOK'
  <2>1. Decision(r) \in Audit
    BY DEF TypeOK, Request, Decision, Audit
  <2>2. audit' \subseteq Audit
    BY <1>10, <2>1 DEF WriteAudit, TypeOK
  <2>3. CASE req' = [req EXCEPT ![r].pc = "error"]
    BY <1>10, <2>2, <2>3, MoveType, "error" \in ReqPCs DEF WriteAudit, TypeOK, ReqPCs
  <2>4. CASE req' = [req EXCEPT ![r].pc = "ok"]
    BY <1>10, <2>2, <2>4, MoveType, "ok" \in ReqPCs DEF WriteAudit, TypeOK, ReqPCs
  <2> QED
    BY <1>10, <2>3, <2>4 DEF WriteAudit
<1>11. ASSUME NEW l \in Listings, ListSweep(l) PROVE TypeOK'
  <2>1. \A a \in Approvals : [row[a] EXCEPT !.status = "expired"] \in Row
    BY DEF TypeOK, Row, Statuses, ResolvedStatuses
  <2>2. row' \in [Approvals -> Row]
    BY <1>11, <2>1 DEF ListSweep, Sweep, TypeOK
  <2>3. list' \in [Listings -> Listing]
    BY <1>11 DEF ListSweep, TypeOK, Listing
  <2> QED
    BY <1>11, <2>2, <2>3 DEF ListSweep, TypeOK
<1>12. ASSUME NEW l \in Listings, ListSelect(l) PROVE TypeOK'
  BY <1>12 DEF ListSelect, TypeOK, Listing
<1>13. ASSUME NEW s \in Sessions, DeleteSession(s) PROVE TypeOK'
  <2>1. NoRow \in Row
    BY DEF NoRow, Row, Statuses
  <2> QED
    BY <1>13, <2>1 DEF DeleteSession, TypeOK
<1>14. CASE Tick
  BY <1>14 DEF Tick, TypeOK
<1>15. CASE UNCHANGED vars
  BY <1>15 DEF vars, TypeOK
<1> QED
  BY <1>1, <1>2, <1>3, <1>4, <1>6, <1>7, <1>8, <1>9, <1>10, <1>11,
     <1>12, <1>13, <1>14, <1>15 DEF Next, ResolveStep

(* The approvals surface never leaves its types.                            *)
THEOREM TypeCorrect == Spec => []TypeOK
  BY InitType, StepType, PTL DEF Spec
-----------------------------------------------------------------------------
(* What a flush of add_approval makes of a row: the new deadline, pending   *)
(* or the status it has by now, and a fresh request when nobody came        *)
(* between.                                                                 *)
LEMMA StoredIs ==
  ASSUME TypeOK, DeadlineInv, NEW a \in Approvals, upsert[a].pc = "read", CanStore(a)
  PROVE  /\ Stored(a).expires_at = upsert[a].at + TTL
         /\ Stored(a).resolved_at \in {0, row[a].resolved_at}
         /\ Stored(a).status \in {"pending", row[a].status} /\ Stored(a).status # "absent"
         /\ row[a] = upsert[a].seen =>
               /\ Stored(a).status = "pending" /\ Stored(a).granted = "NULL"
               /\ Stored(a).resolved_at = 0
               /\ upsert[a].seen.status = "absent" => Stored(a).resolved_by = NoOne
<1>1. upsert[a].seen \in Row /\ row[a] \in Row /\ upsert[a].at \in Nat
  BY DEF TypeOK, Upsert
<1>2. CASE upsert[a].seen.status = "absent"
  BY <1>1, <1>2 DEF Stored, Fresh, CanStore, Row
<1>3. CASE upsert[a].seen.status # "absent"
  <2>1. row[a].status # "absent" /\ row[a].expires_at = upsert[a].seen.expires_at
    BY <1>3 DEF CanStore, DeadlineInv
  <2>2. /\ Stored(a).expires_at = Changed(upsert[a].at + TTL, upsert[a].seen.expires_at, row[a].expires_at)
        /\ Stored(a).resolved_at = Changed(0, upsert[a].seen.resolved_at, row[a].resolved_at)
        /\ Stored(a).status = Changed("pending", upsert[a].seen.status, row[a].status)
        /\ Stored(a).granted = Changed("NULL", upsert[a].seen.granted, row[a].granted)
    BY <1>3 DEF Stored, Fresh, Flushed
  <2> QED
    BY <1>3, <2>1, <2>2 DEF Changed
<1> QED
  BY <1>2, <1>3

(* What a step may do to the fields the deadline argument is about.         *)
LEMMA StepDeadline == TypeOK /\ DeadlineInv /\ [Next]_vars => DeadlineInv'
<1> SUFFICES ASSUME TypeOK, DeadlineInv, [Next]_vars PROVE DeadlineInv'
  OBVIOUS
<1> USE ApprovalsAssumption DEF DeadlineInv, DecidedInTime
<1>0. /\ now \in Nat
      /\ \A a \in Approvals : row[a] \in Row /\ row[a].expires_at \in Nat /\ row[a].resolved_at \in Nat
      /\ \A a \in Approvals : upsert[a].at \in Nat /\ upsert[a].seen.expires_at \in Nat
      /\ \A r \in Requests : req[r] \in Request /\ req[r].seen.expires_at \in Nat
      /\ \A r \in Requests : req[r].id \in Approvals
  BY DEF TypeOK, Request, Upsert, Row
<1>1. ASSUME NEW a \in Approvals, AddGet(a) \/ AddFails(a) PROVE DeadlineInv'
  <2>1. /\ row' = row /\ req' = req /\ now' = now
        /\ \A b \in Approvals \ {a} : upsert'[b] = upsert[b]
        /\ upsert'[a].pc = "read" => upsert'[a].seen = row[a]
        /\ upsert'[a].at \in {now, upsert[a].at}
    BY <1>1 DEF AddGet, AddFails, TypeOK, Upsert
  <2> QED
    BY <1>0, <2>1
<1>16. ASSUME NEW a \in Approvals, AddFlush(a) PROVE DeadlineInv'
  <2>0. upsert[a].pc = "read" /\ CanStore(a) /\ row'[a] = Stored(a)
    BY <1>16 DEF AddFlush, TypeOK
  <2>1. /\ row'[a].expires_at = upsert[a].at + TTL
        /\ row'[a].resolved_at \in {0, row[a].resolved_at}
    BY <2>0, StoredIs
  <2>2. /\ \A b \in Approvals \ {a} : row'[b] = row[b] /\ upsert'[b] = upsert[b]
        /\ upsert'[a].pc = "idle" /\ upsert'[a].at = upsert[a].at
        /\ req' = req /\ now' = now
    BY <1>16 DEF AddFlush, TypeOK, Upsert
  <2>3. \A b \in Approvals : /\ row'[b].expires_at <= now' + TTL
                             /\ upsert'[b].at <= now'
                             /\ row'[b].expires_at <= upsert'[b].at + TTL
                             /\ upsert'[b].pc = "read" /\ row'[b].status # "absent" =>
                                   row'[b].expires_at = upsert'[b].seen.expires_at
    BY <1>0, <2>1, <2>2
  <2>4. ASSUME NEW r \in Requests, row'[req[r].id].status # "absent"
        PROVE  req[r].seen.expires_at <= row'[req[r].id].expires_at
    <3>1. CASE req[r].id # a
      BY <1>0, <2>2, <2>4, <3>1
    <3>2. CASE req[r].id = a /\ row[a].status # "absent"
      <4>1. req[r].seen.expires_at <= row[a].expires_at /\ row[a].expires_at <= upsert[a].at + TTL
        BY <3>2
      <4> QED
        BY <1>0, <2>1, <3>2, <4>1
    <3>3. CASE req[r].id = a /\ row[a].status = "absent"
      <4>1. req[r].seen.expires_at <= upsert[a].at + TTL
        BY <3>3
      <4> QED
        BY <1>0, <2>1, <3>3, <4>1
    <3> QED
      BY <3>1, <3>2, <3>3
  <2>5. DecidedInTime'
    BY <1>0, <2>1, <2>2
  <2> QED
    BY <1>0, <2>2, <2>3, <2>4, <2>5
<1>2. ASSUME NEW r \in Requests, ResolveSelect(r) PROVE DeadlineInv'
  <2>1. /\ row' = row /\ now' = now /\ upsert' = upsert
        /\ req'[r].seen = row[req[r].id] /\ req'[r].pc = "read"
        /\ req'[r].id = req[r].id
        /\ \A q \in Requests : q # r => req'[q] = req[q]
    BY <1>0, <1>2 DEF ResolveSelect, TypeOK, Request
  <2>2. row[req[r].id].expires_at \in Nat
    BY <1>0 DEF Row
  <2>3. ASSUME NEW q \in Requests
        PROVE  /\ req'[q].seen.expires_at <= upsert[req'[q].id].at + TTL
               /\ row[req'[q].id].status # "absent" =>
                     req'[q].seen.expires_at <= row[req'[q].id].expires_at
               /\ req'[q].pc = "decide" => req'[q].at < req'[q].seen.expires_at
    BY <1>0, <2>1, <2>2
  <2> QED
    BY <2>1, <2>3
<1>3. ASSUME NEW r \in Requests, RefuseUnknown(r) PROVE DeadlineInv'
  BY <1>0, <1>3 DEF RefuseUnknown, TypeOK
<1>4. ASSUME NEW r \in Requests, RefuseResolved(r) PROVE DeadlineInv'
  BY <1>0, <1>4 DEF RefuseResolved, TypeOK
<1>5. ASSUME NEW r \in Requests, DecideExpired(r) PROVE DeadlineInv'
  BY <1>0, <1>5 DEF DecideExpired, TypeOK
<1>6. ASSUME NEW r \in Requests, Decide(r) PROVE DeadlineInv'
  BY <1>0, <1>6 DEF Decide, TypeOK
<1>7. ASSUME NEW r \in Requests, CommitLost(r) PROVE DeadlineInv'
  BY <1>0, <1>7 DEF CommitLost, TypeOK
<1>8. ASSUME NEW r \in Requests, CommitExpired(r) PROVE DeadlineInv'
  BY <1>0, <1>8 DEF CommitExpired, TypeOK
<1>9. ASSUME NEW r \in Requests, CommitDecision(r) PROVE DeadlineInv'
  <2>1. /\ now' = now /\ upsert' = upsert
        /\ row'[req[r].id].expires_at = row[req[r].id].expires_at
        /\ row'[req[r].id].resolved_at \in {req[r].at, row[req[r].id].resolved_at}
        /\ row[req[r].id].status # "absent"
        /\ \A a \in Approvals : a # req[r].id => row'[a] = row[a]
    BY <1>0, <1>9 DEF CommitDecision, Flushed, Changed, Decided, TypeOK
  <2>2. /\ req'[r].pc = "committed"
        /\ \A q \in Requests : q # r => req'[q] = req[q]
        /\ \A q \in Requests : req'[q].seen = req[q].seen /\ req'[q].id = req[q].id
    BY <1>0, <1>9 DEF CommitDecision, TypeOK, Request
  <2>3. req[r].at < row[req[r].id].expires_at
    <3>1. /\ req[r].at \in Nat /\ req[r].seen.expires_at \in Nat
          /\ row[req[r].id].expires_at \in Nat
      BY <1>0 DEF Request, Row
    <3> QED
      BY <1>0, <1>9, <2>1, <3>1 DEF CommitDecision
  <2>4. DecidedInTime'
    BY <1>0, <2>1, <2>3
  <2>5. ASSUME NEW q \in Requests
        PROVE  row'[req[q].id].status # "absent" =>
                 req[q].seen.expires_at <= row'[req[q].id].expires_at
    BY <1>0, <2>1
  <2> QED
    BY <1>0, <2>1, <2>2, <2>4, <2>5
<1>10. ASSUME NEW r \in Requests, WriteAudit(r) PROVE DeadlineInv'
  <2>1. /\ now' = now /\ row' = row /\ upsert' = upsert
        /\ req'[r].pc # "decide"
        /\ \A q \in Requests : q # r => req'[q] = req[q]
        /\ \A q \in Requests : req'[q].seen = req[q].seen /\ req'[q].id = req[q].id
    <3>1. PICK p \in {"error", "ok"} : req' = [req EXCEPT ![r].pc = p]
      BY <1>10 DEF WriteAudit
    <3>2. now' = now /\ row' = row /\ upsert' = upsert
      BY <1>10 DEF WriteAudit
    <3> QED
      BY <1>0, <3>1, <3>2 DEF TypeOK, Request
  <2> QED
    BY <1>0, <2>1
<1>11. ASSUME NEW l \in Listings, ListSweep(l) PROVE DeadlineInv'
  BY <1>0, <1>11 DEF ListSweep, Sweep, TypeOK
<1>12. ASSUME NEW l \in Listings, ListSelect(l) PROVE DeadlineInv'
  BY <1>0, <1>12 DEF ListSelect
<1>13. ASSUME NEW s \in Sessions, DeleteSession(s) PROVE DeadlineInv'
  BY <1>0, <1>13 DEF DeleteSession, NoRow, TypeOK
<1>14. CASE Tick
  BY <1>0, <1>14 DEF Tick, Row, Request
<1>15. CASE UNCHANGED vars
  BY <1>15 DEF vars
<1> QED
  BY <1>1, <1>2, <1>3, <1>4, <1>5, <1>6, <1>7, <1>8, <1>9, <1>10, <1>11,
     <1>12, <1>13, <1>14, <1>15, <1>16 DEF Next, ResolveStep

LEMMA DeadlinesKept == Spec => []DeadlineInv
<1>1. Init => DeadlineInv
  BY ApprovalsAssumption DEF Init, DeadlineInv, DecidedInTime, NoRow
<1> QED
  BY <1>1, TypeCorrect, StepDeadline, PTL DEF Spec

(* DecidedInTime for every number of resolvers, every TTL and any lag       *)
(* between the deadline check and the COMMIT.                               *)
THEOREM DecisionsInTime == Spec => []DecidedInTime
<1>1. DeadlineInv => DecidedInTime
  BY DEF DeadlineInv
<1> QED
  BY <1>1, DeadlinesKept, PTL

-----------------------------------------------------------------------------
(* Who decides and what is logged: only requests past the tenant check reach*)
(* the COMMIT, and only requests past the COMMIT reach the audit insert.    *)
LEMMA StepDecision == TypeOK /\ DecisionInv /\ [Next]_vars => DecisionInv'
<1> SUFFICES ASSUME TypeOK, DecisionInv, [Next]_vars PROVE DecisionInv'
  OBVIOUS
<1> USE DEF DecisionInv, TenantIsolation, AuditBacked, Decision, OwnerOf, TenantOfReq, TheUser
<1>0. /\ \A r \in Requests : req[r] \in Request
      /\ \A d \in commits : d.by \in Requests
  BY DEF TypeOK, Audit
<1>1. ASSUME NEW a \in Approvals, AddGet(a) \/ AddFlush(a) \/ AddFails(a) PROVE DecisionInv'
  BY <1>1 DEF AddGet, AddFlush, AddFails
<1>2. ASSUME NEW r \in Requests, ResolveSelect(r) PROVE DecisionInv'
  BY <1>0, <1>2 DEF ResolveSelect, TypeOK, Request
<1>3. ASSUME NEW r \in Requests, RefuseUnknown(r) PROVE DecisionInv'
  BY <1>0, <1>3 DEF RefuseUnknown, TypeOK, Request
<1>4. ASSUME NEW r \in Requests, RefuseResolved(r) PROVE DecisionInv'
  BY <1>0, <1>4 DEF RefuseResolved, TypeOK, Request
<1>5. ASSUME NEW r \in Requests, DecideExpired(r) PROVE DecisionInv'
  BY <1>0, <1>5 DEF DecideExpired, TypeOK, Request
<1>6. ASSUME NEW r \in Requests, Decide(r) PROVE DecisionInv'
  BY <1>0, <1>6 DEF Decide, Visible, TypeOK, Request
<1>7. ASSUME NEW r \in Requests, CommitLost(r) PROVE DecisionInv'
  BY <1>0, <1>7 DEF CommitLost, TypeOK, Request
<1>8. ASSUME NEW r \in Requests, CommitExpired(r) PROVE DecisionInv'
  BY <1>0, <1>8 DEF CommitExpired, TypeOK, Request
<1>9. ASSUME NEW r \in Requests, CommitDecision(r) PROVE DecisionInv'
  BY <1>0, <1>9 DEF CommitDecision, TypeOK, Request
<1>10. ASSUME NEW r \in Requests, WriteAudit(r) PROVE DecisionInv'
  BY <1>0, <1>10 DEF WriteAudit, TypeOK, Request
<1>11. ASSUME NEW l \in Listings, ListSweep(l) \/ ListSelect(l) PROVE DecisionInv'
  BY <1>11 DEF ListSweep, ListSelect
<1>12. ASSUME NEW s \in Sessions, DeleteSession(s) PROVE DecisionInv'
  BY <1>12 DEF DeleteSession
<1>13. CASE Tick
  BY <1>13 DEF Tick
<1>14. CASE UNCHANGED vars
  BY <1>14 DEF vars
<1> QED
  BY <1>1, <1>2, <1>3, <1>4, <1>5, <1>6, <1>7, <1>8, <1>9, <1>10, <1>11,
     <1>12, <1>13, <1>14 DEF Next, ResolveStep

(* Only owners decide and only decisions are logged, in every instance.     *)
THEOREM DecisionsOwnedAndLogged == Spec => []OwnedAndLogged
<1>1. Init => DecisionInv
  BY DEF Init, DecisionInv, TenantIsolation, AuditBacked
<1>2. DecisionInv => OwnedAndLogged
  BY DEF DecisionInv, OwnedAndLogged
<1> QED
  BY <1>1, <1>2, TypeCorrect, StepDecision, PTL DEF Spec
-----------------------------------------------------------------------------
(* The sweep leaves no overdue pending row of its tenant, and rows stored   *)
(* after it in time have a deadline ahead.                                  *)
LEMMA StepList == TypeOK /\ DeadlineInv /\ ListInv /\ [Next]_vars => ListInv'
<1> SUFFICES ASSUME TypeOK, DeadlineInv, ListInv, [Next]_vars PROVE ListInv'
  OBVIOUS
<1> USE ApprovalsAssumption DEF ListInv, ListedFresh
<1>0. /\ now \in Nat
      /\ \A a \in Approvals : row[a] \in Row
      /\ \A a \in Approvals : row[a].expires_at \in Nat
      /\ \A l \in Listings : list[l].at \in Nat
      /\ \A r \in Requests : req[r].id \in Approvals
  BY DEF TypeOK, Row, Listing, Request
<1>1. ASSUME NEW a \in Approvals, AddFlush(a) PROVE ListInv'
  <2>0. upsert[a].pc = "read" /\ CanStore(a) /\ row'[a] = Stored(a) /\ upsert[a].at \in Nat
    BY <1>1 DEF AddFlush, TypeOK, Upsert
  <2>1. row'[a].expires_at = upsert[a].at + TTL
    BY <2>0, StoredIs
  <2>2. /\ \A b \in Approvals \ {a} : row'[b] = row[b] /\ upsert'[b] = upsert[b]
        /\ list' = list /\ now' = now
    BY <1>1 DEF AddFlush, TypeOK
  <2>3. upsert'[a].late <=> upsert[a].at + TTL <= now
    BY <1>1 DEF AddFlush, TypeOK, Upsert
  <2>4. ~upsert'[a].late => now < row'[a].expires_at
    BY <1>0, <2>0, <2>1, <2>3
  <2>5. \A l \in Listings : list[l].at <= now
    OBVIOUS
  <2> QED
    BY <1>0, <2>0, <2>1, <2>2, <2>4, <2>5 DEF OwnerOf
<1>9. ASSUME NEW a \in Approvals, AddGet(a) \/ AddFails(a) PROVE ListInv'
  <2>1. /\ row' = row /\ list' = list /\ now' = now
        /\ \A b \in Approvals : upsert'[b].late = upsert[b].late
    BY <1>9 DEF AddGet, AddFails, TypeOK, Upsert
  <2> QED
    BY <1>0, <2>1 DEF OwnerOf
<1>2. ASSUME NEW r \in Requests, CommitExpired(r) PROVE ListInv'
  BY <1>0, <1>2 DEF CommitExpired, TypeOK, OwnerOf
<1>3. ASSUME NEW r \in Requests, CommitDecision(r) PROVE ListInv'
  <2>1. /\ list' = list /\ now' = now /\ upsert' = upsert
        /\ \A b \in Approvals : /\ row'[b].expires_at = row[b].expires_at
                                /\ row'[b].status = "pending" => row[b].status = "pending"
    BY <1>0, <1>3 DEF CommitDecision, Flushed, Changed, Decided, Verb, TypeOK
  <2> QED
    BY <2>1 DEF OwnerOf
<1>4. ASSUME UNCHANGED <<now, row, upsert, list>> PROVE ListInv'
  BY <1>4 DEF OwnerOf
<1>5. ASSUME NEW l \in Listings, ListSweep(l) PROVE ListInv'
  BY <1>0, <1>5 DEF ListSweep, Sweep, TypeOK, Listing, OwnerOf
<1>6. ASSUME NEW l \in Listings, ListSelect(l) PROVE ListInv'
  BY <1>0, <1>6 DEF ListSelect, TypeOK, Listing, OwnerOf
<1>7. ASSUME NEW s \in Sessions, DeleteSession(s) PROVE ListInv'
  BY <1>0, <1>7 DEF DeleteSession, NoRow, TypeOK, OwnerOf
<1>8. CASE Tick
  BY <1>0, <1>8 DEF Tick, OwnerOf
<1> QED
  BY <1>1, <1>2, <1>3, <1>4, <1>5, <1>6, <1>7, <1>8, <1>9
  DEF Next, ResolveStep, ResolveSelect, RefuseUnknown, RefuseResolved,
      DecideExpired, Decide, CommitLost, WriteAudit, vars

(* ListedFresh for every instance.                                          *)
THEOREM ListingsFresh == Spec => []ListedFresh
<1>1. Init => ListInv
  BY DEF Init, ListInv, ListedFresh
<1>2. ListInv => ListedFresh
  BY DEF ListInv
<1> QED
  BY <1>1, <1>2, TypeCorrect, DeadlinesKept, StepList, PTL DEF Spec
-----------------------------------------------------------------------------
(* What the decision a request commits makes of the row: a whole decision,  *)
(* when the image it was taken on is clean.                                 *)
LEMMA DecidedIs ==
  ASSUME TypeOK, WholeInv, NEW r \in Requests, CommitDecision(r)
  PROVE  /\ req[r].id \in Approvals
         /\ row'[req[r].id].status = Verb(req[r].granted)
         /\ row'[req[r].id].expires_at = row[req[r].id].expires_at
         /\ ~upsert[req[r].id].crossed =>
               /\ row'[req[r].id].granted = req[r].granted
               /\ row'[req[r].id].resolved_at = req[r].at
               /\ adds[req[r].id] <= 1 => row'[req[r].id].resolved_by = req[r].user
<1> DEFINE a == req[r].id
<1>1. /\ a \in Approvals /\ req[r].granted \in {"TRUE", "FALSE"} /\ req[r].user \in Users
      /\ req[r].at \in Nat /\ req[r].seen \in Row
  BY DEF TypeOK, Request
<1>2. row'[a] = Flushed(Decided(r), req[r].seen, row[a])
  BY <1>1 DEF CommitDecision, TypeOK
<1>3. req[r].seen.status = "pending" /\ req[r].at # 0
  BY DEF CommitDecision, WholeInv
<1>4. /\ row'[a].status = Verb(req[r].granted)
      /\ row'[a].expires_at = row[a].expires_at
  BY <1>2, <1>3 DEF Flushed, Changed, Decided, Verb
<1>5. ASSUME ~upsert[a].crossed
      PROVE  /\ row'[a].granted = req[r].granted /\ row'[a].resolved_at = req[r].at
             /\ adds[a] <= 1 => row'[a].resolved_by = req[r].user
  <2>1. Clean(a, req[r].seen)
    BY <1>5 DEF WholeInv
  <2>2. /\ req[r].seen.granted = "NULL" /\ req[r].seen.resolved_at = 0
        /\ adds[a] <= 1 => req[r].seen.resolved_by = NoOne
    BY <1>3, <2>1 DEF Clean
  <2>3. /\ row'[a].granted = Changed(req[r].granted, req[r].seen.granted, row[a].granted)
        /\ row'[a].resolved_at = Changed(req[r].at, req[r].seen.resolved_at, row[a].resolved_at)
        /\ row'[a].resolved_by = Changed(req[r].user, req[r].seen.resolved_by, row[a].resolved_by)
    BY <1>2 DEF Flushed, Decided
  <2> QED
    BY <1>1, <1>3, <2>2, <2>3, ApprovalsAssumption DEF Changed
<1> QED
  BY <1>1, <1>4, <1>5

(* A flush that leaves no mark met the row it had read.                     *)
LEMMA CrossedIs ==
  ASSUME TypeOK, NEW a \in Approvals, AddFlush(a), ~upsert'[a].crossed
  PROVE  ~upsert[a].crossed /\ row[a] = upsert[a].seen
<1> DEFINE b == upsert[a].crossed \/ row[a] # upsert[a].seen
<1>1. upsert' = [upsert EXCEPT ![a].pc = "idle", ![a].seen = NoRow, ![a].crossed = b,
                               ![a].late = upsert[a].at + TTL <= now]
  BY Zenon DEF AddFlush
<1>2. upsert'[a].crossed = b
  <2> HIDE DEF b
  <2> QED
    BY <1>1 DEF TypeOK, Upsert
<1> QED
  BY <1>2, Zenon

(* No step of another request tears a decision, unless an add_approval is   *)
(* crossed.                                                                 *)
LEMMA StepTorn == TypeOK /\ DeadlineInv /\ WholeInv /\ [Next]_vars => DecisionNotTorn'
<1> SUFFICES ASSUME TypeOK, DeadlineInv, WholeInv, [Next]_vars PROVE DecisionNotTorn'
  OBVIOUS
<1>0. /\ \A r \in Requests : req[r] \in Request /\ req[r].id \in Approvals
      /\ \A a \in Approvals : adds[a] \in Nat
      /\ \A d \in commits : d.by \in Requests
  BY DEF TypeOK, Request, Audit
<1>00. DecisionNotTorn
  BY DEF WholeInv, DecisionsWhole
<1>01. ASSUME \A r \in Requests : req'[r].user = req[r].user
       PROVE  \A d \in commits : TheUser(d)' = TheUser(d)
  BY <1>0, <1>01 DEF TheUser
<1> USE DEF DecisionNotTorn
<1>1. ASSUME NEW a \in Approvals, AddFlush(a) PROVE DecisionNotTorn'
  <2>0. upsert[a].pc = "read" /\ CanStore(a) /\ row'[a] = Stored(a)
    BY <1>1 DEF AddFlush, TypeOK
  <2>1. /\ commits' = commits /\ req' = req
        /\ \A b \in Approvals \ {a} : row'[b] = row[b] /\ upsert'[b] = upsert[b] /\ adds'[b] = adds[b]
    BY <1>1 DEF AddFlush, TypeOK
  <2>2. ~upsert'[a].crossed => row[a] = upsert[a].seen
    BY <1>1, CrossedIs
  <2>3. row[a] = upsert[a].seen =>
           row'[a].status = "pending" /\ row'[a].granted = "NULL" /\ row'[a].resolved_at = 0
    BY <2>0, StoredIs
  <2>4. \A d \in commits : TheUser(d)' = TheUser(d)
    BY <1>01, <2>1
  <2> QED
    BY <1>00, <2>1, <2>2, <2>3, <2>4
<1>2. ASSUME NEW r \in Requests, CommitExpired(r) PROVE DecisionNotTorn'
  <2>1. /\ commits' = commits /\ upsert' = upsert /\ adds' = adds
        /\ \A b \in Approvals \ {req[r].id} : row'[b] = row[b]
        /\ row'[req[r].id].status = "expired"
        /\ \A q \in Requests : req'[q].user = req[q].user
    BY <1>0, <1>2 DEF CommitExpired, TypeOK, Row, Request
  <2> QED
    BY <1>00, <1>01, <2>1
<1>3. ASSUME NEW r \in Requests, CommitDecision(r) PROVE DecisionNotTorn'
  <2> DEFINE a == req[r].id
  <2>1. /\ commits' = commits \cup {Decision(r)} /\ upsert' = upsert /\ adds' = adds
        /\ \A b \in Approvals \ {a} : row'[b] = row[b]
        /\ \A q \in Requests : req'[q].user = req[q].user
    BY <1>0, <1>3 DEF CommitDecision, TypeOK, Request
  <2>2. Verb(req[r].granted) # "pending"
    BY DEF Verb
  <2>3. /\ Decision(r) \in commits' /\ Decision(r).id = a /\ Decision(r).granted = req[r].granted
        /\ Decision(r).at = req[r].at /\ req'[Decision(r).by].user = req[r].user
    BY <2>1 DEF Decision
  <2>4. \A d \in commits : TheUser(d)' = TheUser(d)
    BY <1>01, <2>1
  <2>5. /\ a \in Approvals /\ row'[a].status = Verb(req[r].granted)
        /\ ~upsert[a].crossed =>
              /\ row'[a].granted = req[r].granted /\ row'[a].resolved_at = req[r].at
              /\ adds[a] <= 1 => row'[a].resolved_by = req[r].user
    BY <1>3, DecidedIs
  <2>6. ASSUME NEW b \in Approvals \ {a}, ~upsert'[b].crossed,
               row'[b].status \in {"granted", "rejected"}
        PROVE  \E d \in commits' : /\ d.id = b /\ row'[b].status = Verb(d.granted)
                                   /\ row'[b].granted = d.granted /\ row'[b].resolved_at = d.at
                                   /\ adds'[b] <= 1 => row'[b].resolved_by = TheUser(d)'
    <3>1. PICK d \in commits : /\ d.id = b /\ row[b].status = Verb(d.granted)
                               /\ row[b].granted = d.granted /\ row[b].resolved_at = d.at
                               /\ adds[b] <= 1 => row[b].resolved_by = TheUser(d)
      BY <1>00, <2>1, <2>6
    <3> QED
      BY <2>1, <2>4, <3>1
  <2>7. \A b \in Approvals \ {a} : upsert'[b].crossed \/
          (row'[b].status = "pending" => row'[b].granted = "NULL" /\ row'[b].resolved_at = 0)
    BY <1>00, <2>1
  <2>8. ASSUME ~upsert'[a].crossed
        PROVE  \E d \in commits' : /\ d.id = a /\ row'[a].status = Verb(d.granted)
                                   /\ row'[a].granted = d.granted /\ row'[a].resolved_at = d.at
                                   /\ adds'[a] <= 1 => row'[a].resolved_by = TheUser(d)'
    <3>1. ~upsert[a].crossed /\ adds' = adds
      BY <2>1, <2>8
    <3>2. /\ row'[a].status = Verb(Decision(r).granted) /\ row'[a].granted = Decision(r).granted
          /\ row'[a].resolved_at = Decision(r).at
          /\ adds'[a] <= 1 => row'[a].resolved_by = req'[Decision(r).by].user
      BY <2>3, <2>5, <3>1
    <3> QED
      BY <2>3, <3>2 DEF TheUser
  <2>9. row'[a].status # "pending"
    BY <2>2, <2>5
  <2> QED
    BY <2>6, <2>7, <2>8, <2>9
<1>4. ASSUME NEW l \in Listings, ListSweep(l) PROVE DecisionNotTorn'
  <2>1. /\ commits' = commits /\ upsert' = upsert /\ adds' = adds /\ req' = req
        /\ \A b \in Approvals : row'[b] = row[b] \/ row'[b].status = "expired"
    BY <1>4 DEF ListSweep, Sweep, TypeOK, Row
  <2> QED
    BY <1>00, <1>01, <2>1
<1>5. ASSUME NEW s \in Sessions, DeleteSession(s) PROVE DecisionNotTorn'
  <2>1. /\ commits' = commits /\ upsert' = upsert /\ adds' = adds /\ req' = req
        /\ \A b \in Approvals : row'[b] = row[b] \/ row'[b].status = "absent"
    BY <1>5 DEF DeleteSession, NoRow, TypeOK
  <2> QED
    BY <1>00, <1>01, <2>1
<1>6. ASSUME row' = row, commits' = commits, adds' = adds,
             \A b \in Approvals : upsert'[b].crossed = upsert[b].crossed,
             \A q \in Requests : req'[q].user = req[q].user
      PROVE  DecisionNotTorn'
  BY <1>00, <1>01, <1>6
<1>7. ASSUME NEW r \in Requests,
             ResolveSelect(r) \/ RefuseUnknown(r) \/ RefuseResolved(r) \/ DecideExpired(r)
             \/ Decide(r) \/ CommitLost(r) \/ WriteAudit(r)
      PROVE  DecisionNotTorn'
  <2>1. /\ row' = row /\ commits' = commits /\ adds' = adds /\ upsert' = upsert
        /\ \A q \in Requests : req'[q].user = req[q].user
    BY <1>0, <1>7 DEF ResolveSelect, RefuseUnknown, RefuseResolved, DecideExpired, Decide,
                      CommitLost, WriteAudit, TypeOK, Request
  <2> QED
    BY <1>6, <2>1
<1>8. ASSUME NEW a \in Approvals, AddGet(a) \/ AddFails(a) PROVE DecisionNotTorn'
  <2>1. /\ row' = row /\ commits' = commits /\ adds' = adds /\ req' = req
        /\ \A b \in Approvals : upsert'[b].crossed = upsert[b].crossed
    BY <1>8 DEF AddGet, AddFails, TypeOK, Upsert
  <2> QED
    BY <1>6, <2>1
<1>9. CASE (\E l \in Listings : ListSelect(l)) \/ Tick \/ UNCHANGED vars
  BY <1>6, <1>9 DEF ListSelect, Tick, vars
<1> QED
  BY <1>1, <1>2, <1>3, <1>4, <1>5, <1>7, <1>8, <1>9 DEF Next, ResolveStep

LEMMA StepWhole == TypeOK /\ DeadlineInv /\ WholeInv /\ [Next]_vars => WholeInv'
<1> SUFFICES ASSUME TypeOK, DeadlineInv, WholeInv, [Next]_vars PROVE WholeInv'
  OBVIOUS
<1>0. /\ \A r \in Requests : req[r] \in Request /\ req[r].id \in Approvals /\ req[r].seen \in Row
      /\ \A a \in Approvals : row[a] \in Row /\ adds[a] \in Nat /\ row[a].expires_at \in Nat
      /\ \A a \in Approvals : upsert[a].seen \in Row
      /\ now \in Nat /\ now # 0 /\ \A r \in Requests : req[r].seen.expires_at \in Nat
      /\ DecisionNotTorn'
  BY StepTorn DEF TypeOK, Request, Row, Upsert
<1> USE DEF WholeInv, DecisionsWhole, ExpiredOnlyOverdue, Clean
<1>1. ASSUME NEW a \in Approvals, AddFlush(a) PROVE WholeInv'
  <2>0. upsert[a].pc = "read" /\ CanStore(a) /\ row'[a] = Stored(a)
    BY <1>1 DEF AddFlush, TypeOK
  <2>1. /\ adds'[a] = adds[a] + 1 /\ now' = now /\ req' = req
        /\ \A b \in Approvals \ {a} : row'[b] = row[b] /\ adds'[b] = adds[b] /\ upsert'[b] = upsert[b]
    BY <1>1 DEF AddFlush, TypeOK
  <2>2. ~upsert'[a].crossed => ~upsert[a].crossed /\ row[a] = upsert[a].seen
    BY <1>1, CrossedIs
  <2>3. /\ row'[a].status \in {"pending", row[a].status} /\ row'[a].status # "absent"
        /\ row[a] = upsert[a].seen =>
              /\ row'[a].status = "pending" /\ row'[a].granted = "NULL" /\ row'[a].resolved_at = 0
              /\ upsert[a].seen.status = "absent" => row'[a].resolved_by = NoOne
    BY <2>0, StoredIs
  <2>4. \A b \in Approvals : /\ adds'[b] = 0 => row'[b].status = "absent" /\ upsert'[b].seen.status = "absent"
                             /\ upsert'[b].crossed \/ Clean(b, row[b])'
    <3>1. adds'[a] <= 1 => upsert[a].seen.status = "absent"
      BY <1>0, <2>1
    <3>2. upsert'[a].crossed \/ Clean(a, row[a])'
      BY <2>2, <2>3, <3>1
    <3>3. adds'[a] # 0
      BY <1>0, <2>1
    <3> QED
      BY <2>1, <3>2, <3>3
  <2>5. ASSUME NEW r \in Requests
        PROVE  /\ upsert'[req[r].id].crossed \/ Clean(req[r].id, req[r].seen)'
               /\ adds'[req[r].id] = 0 => req[r].seen.status = "absent"
               /\ /\ adds'[req[r].id] <= 1
                  /\ req[r].seen.status # "absent" /\ row'[req[r].id].status # "absent"
                  => req[r].seen.expires_at = row'[req[r].id].expires_at
    <3>1. CASE req[r].id = a
      <4>1. adds'[a] # 0 /\ (adds'[a] <= 1 => adds[a] = 0)
        BY <1>0, <2>1
      <4>2. adds[a] = 0 => req[r].seen.status = "absent"
        BY <3>1
      <4>3. upsert'[a].crossed \/ Clean(a, req[r].seen)
        BY <2>2, <3>1
      <4>4. upsert'[a].crossed \/ Clean(a, req[r].seen)'
        BY <2>1, <4>1, <4>2, <4>3
      <4> QED
        BY <2>1, <3>1, <4>1, <4>2, <4>4
    <3>2. CASE req[r].id # a
      BY <1>0, <2>1, <3>2
    <3> QED
      BY <3>1, <3>2
  <2>6. ExpiredOnlyOverdue'
    BY <1>0, <2>1, <2>3
  <2> QED
    BY <1>0, <2>1, <2>4, <2>5, <2>6
<1>2. ASSUME NEW a \in Approvals, AddGet(a) \/ AddFails(a) PROVE WholeInv'
  <2>1. /\ row' = row /\ adds' = adds /\ req' = req /\ now' = now
        /\ \A b \in Approvals : upsert'[b].crossed = upsert[b].crossed
        /\ \A b \in Approvals : upsert'[b].seen \in {upsert[b].seen, row[b], NoRow}
    <3>1. /\ upsert'[a].crossed = upsert[a].crossed
          /\ upsert'[a].seen \in {row[a], NoRow}
          /\ \A b \in Approvals \ {a} : upsert'[b] = upsert[b]
      BY <1>2 DEF AddGet, AddFails, TypeOK, Upsert
    <3>2. row' = row /\ adds' = adds /\ req' = req /\ now' = now
      BY <1>2 DEF AddGet, AddFails
    <3> QED
      BY <3>1, <3>2
  <2>2. NoRow.status = "absent"
    BY DEF NoRow
  <2> QED
    BY <1>0, <2>1, <2>2
(* Steps of a request that leave the table alone.                           *)
<1>3. ASSUME row' = row, adds' = adds, now' = now, upsert' = upsert,
             \A q \in Requests : req'[q].id = req[q].id,
             NEW r \in Requests, \A q \in Requests \ {r} : req'[q] = req[q],
             req'[r].seen \in {req[r].seen, row[req[r].id]},
             req'[r].pc = "decide" => req'[r].seen.status = "pending" /\ req'[r].at # 0,
             req'[r].pc = "expire" => req'[r].seen.status # "absent" /\ req'[r].seen.expires_at <= now
      PROVE  WholeInv'
  <2>1. \A q \in Requests : q # r => req'[q].seen = req[q].seen /\ req'[q].pc = req[q].pc /\ req'[q].at = req[q].at
    BY <1>3
  <2>2. \A a \in Approvals : upsert[a].crossed \/ Clean(a, row[a])
    OBVIOUS
  <2>3. req[r].id \in Approvals
    BY <1>0
  <2>4. /\ upsert[req[r].id].crossed \/ Clean(req[r].id, req'[r].seen)
        /\ adds[req[r].id] = 0 => req'[r].seen.status = "absent"
        /\ /\ adds[req[r].id] <= 1
           /\ req'[r].seen.status # "absent" /\ row[req[r].id].status # "absent"
           => req'[r].seen.expires_at = row[req[r].id].expires_at
    BY <1>3, <2>3
  <2> QED
    BY <1>0, <1>3, <2>1, <2>4
<1>4. ASSUME NEW r \in Requests,
             ResolveSelect(r) \/ RefuseUnknown(r) \/ RefuseResolved(r) \/ CommitLost(r) \/ WriteAudit(r)
      PROVE  WholeInv'
  <2>1. /\ row' = row /\ adds' = adds /\ now' = now /\ upsert' = upsert
        /\ \A q \in Requests : req'[q].id = req[q].id
        /\ \A q \in Requests \ {r} : req'[q] = req[q]
        /\ req'[r].seen \in {req[r].seen, row[req[r].id]}
        /\ req'[r].pc \notin {"decide", "expire"}
    <3>1. row' = row /\ adds' = adds /\ now' = now /\ upsert' = upsert
      BY <1>4 DEF ResolveSelect, RefuseUnknown, RefuseResolved, CommitLost, WriteAudit
    <3>2. PICK p \in {"read", "not_found", "conflict", "error", "ok"} :
             \/ req' = [req EXCEPT ![r].pc = p]
             \/ req' = [req EXCEPT ![r].pc = p, ![r].seen = row[req[r].id]]
      BY <1>4 DEF ResolveSelect, RefuseUnknown, RefuseResolved, CommitLost, WriteAudit
    <3>3. /\ \A q \in Requests \ {r} : req'[q] = req[q]
          /\ req'[r].id = req[r].id /\ req'[r].pc = p
          /\ req'[r].seen \in {req[r].seen, row[req[r].id]}
      BY <1>0, <3>2 DEF TypeOK, Request
    <3> QED
      BY <3>1, <3>3
  <2> QED
    BY <1>3, <2>1
<1>5. ASSUME NEW r \in Requests, DecideExpired(r) \/ Decide(r) PROVE WholeInv'
  <2>1. /\ adds' = adds /\ now' = now /\ row' = row /\ upsert' = upsert
        /\ \A q \in Requests : req'[q].id = req[q].id
        /\ \A q \in Requests \ {r} : req'[q] = req[q]
        /\ req'[r].seen = req[r].seen /\ req'[r].at = now
    <3>1. row' = row /\ adds' = adds /\ now' = now /\ upsert' = upsert
      BY <1>5 DEF DecideExpired, Decide
    <3>2. PICK p \in {"expire", "decide"} : req' = [req EXCEPT ![r].pc = p, ![r].at = now]
      BY <1>5 DEF DecideExpired, Decide
    <3>3. /\ \A q \in Requests \ {r} : req'[q] = req[q]
          /\ req'[r].id = req[r].id /\ req'[r].seen = req[r].seen /\ req'[r].at = now
      BY <1>0, <3>2 DEF TypeOK, Request
    <3> QED
      BY <3>1, <3>3
  <2>2. req[r].seen.status = "pending"
    BY <1>0, <1>5 DEF DecideExpired, Decide, Visible, Row, Statuses
  <2>3. req'[r].pc = "expire" => req[r].seen.expires_at <= now
    <3>1. CASE DecideExpired(r)
      BY <3>1 DEF DecideExpired, Visible
    <3>2. CASE Decide(r)
      BY <1>0, <3>2 DEF Decide, Visible, TypeOK, Request
    <3> QED
      BY <1>5, <3>1, <3>2
  <2> QED
    BY <1>0, <1>3, <2>1, <2>2, <2>3
<1>6. ASSUME NEW r \in Requests, CommitExpired(r) PROVE WholeInv'
  <2> DEFINE a == req[r].id
  <2>1. /\ adds' = adds /\ now' = now /\ upsert' = upsert
        /\ \A b \in Approvals \ {a} : row'[b] = row[b]
        /\ row'[a].expires_at = row[a].expires_at /\ row[a].status # "absent"
        /\ row'[a].status = "expired"
    BY <1>0, <1>6 DEF CommitExpired, TypeOK, Row
  <2>2. \A q \in Requests : /\ req'[q].id = req[q].id /\ req'[q].seen = req[q].seen
                            /\ req'[q].at = req[q].at
                            /\ req'[q].pc \in {"expire", "decide"} => req[q].pc = req'[q].pc
    BY <1>0, <1>6 DEF CommitExpired, TypeOK, Request
  <2>3. adds[a] <= 1 => row[a].expires_at <= now
    BY <1>0, <1>6, <2>1 DEF CommitExpired
  <2> QED
    BY <1>0, <2>1, <2>2, <2>3
<1>7. ASSUME NEW r \in Requests, CommitDecision(r) PROVE WholeInv'
  <2> DEFINE a == req[r].id
  <2>1. /\ adds' = adds /\ now' = now /\ upsert' = upsert /\ row[a].status # "absent"
        /\ \A b \in Approvals \ {a} : row'[b] = row[b]
    BY <1>0, <1>7 DEF CommitDecision, TypeOK
  <2>2. \A q \in Requests : /\ req'[q].id = req[q].id /\ req'[q].seen = req[q].seen
                            /\ req'[q].at = req[q].at
                            /\ req'[q].pc \in {"expire", "decide"} => req[q].pc = req'[q].pc
    BY <1>0, <1>7 DEF CommitDecision, TypeOK, Request
  <2>3. Verb(req[r].granted) \notin {"expired", "absent", "pending"}
    BY DEF Verb
  <2>4. row'[a].expires_at = row[a].expires_at /\ row'[a].status = Verb(req[r].granted)
    BY <1>7, DecidedIs
  <2> QED
    BY <1>0, <2>1, <2>2, <2>3, <2>4
<1>8. ASSUME NEW l \in Listings, ListSweep(l) PROVE WholeInv'
  <2>1. /\ adds' = adds /\ now' = now /\ req' = req /\ upsert' = upsert
        /\ \A a \in Approvals : /\ row'[a].expires_at = row[a].expires_at
                                /\ row'[a].status = "absent" <=> row[a].status = "absent"
                                /\ row'[a].status = "pending" => row'[a] = row[a]
                                /\ row'[a].status = "expired" /\ row[a].status # "expired" =>
                                      row[a].expires_at <= now
    BY <1>0, <1>8 DEF ListSweep, Sweep, TypeOK, Row
  <2> QED
    BY <1>0, <2>1
<1>9. ASSUME NEW s \in Sessions, DeleteSession(s) PROVE WholeInv'
  <2>1. /\ adds' = adds /\ now' = now /\ req' = req /\ upsert' = upsert
        /\ \A a \in Approvals : row'[a] = row[a] \/ row'[a].status = "absent"
    BY <1>0, <1>9 DEF DeleteSession, NoRow, TypeOK
  <2> QED
    BY <1>0, <2>1
<1>10. CASE Tick
  BY <1>0, <1>10 DEF Tick
<1>11. CASE (\E l \in Listings : ListSelect(l)) \/ UNCHANGED vars
  <2>1. row' = row /\ adds' = adds /\ now' = now /\ upsert' = upsert /\ req' = req
    BY <1>11 DEF ListSelect, vars
  <2> QED
    BY <1>0, <2>1
<1> QED
  BY <1>1, <1>2, <1>4, <1>5, <1>6, <1>7, <1>8, <1>9, <1>10, <1>11 DEF Next, ResolveStep

(* However resolvers, sweeps and repeated requests overlap, a resolved row  *)
(* is one whole decision, or an expiry that was due.                        *)
THEOREM DecisionsAreWhole == Spec => []DecisionsWhole
<1>1. Init => WholeInv
  BY DEF Init, WholeInv, DecisionsWhole, DecisionNotTorn, ExpiredOnlyOverdue, NoRow, Clean
<1>2. WholeInv => DecisionsWhole
  BY DEF WholeInv
<1> QED
  BY <1>1, <1>2, TypeCorrect, DeadlinesKept, StepWhole, PTL DEF Spec
-----------------------------------------------------------------------------
(* invoke_tool implements GatedCalls.                                       *)

(* What the steps between the gate and the answer carry along: a call past  *)
(* the gate is cleared, a call being refused is not and has not run, and a  *)
(* call is answered only where it returns.                                  *)
GateInv ==
    \A c \in Calls :
        /\ pc[c] \in {"opening", "running", "closing"} =>
              Cleared(call[c], Granted(c))
        /\ pc[c] \in {"start", "rejecting", "opening"} => ran[c] = 0
        /\ pc[c] \in {"running", "closing"} => ran[c] > 0
        /\ pc[c] = "rejecting" =>
              \/ pending[c] = "permission_denied" /\ RoleRefused(call[c])
                 /\ WellFormed(call[c])
              \/ pending[c] = "error" /\ WellFormed(call[c])
                 /\ ~RoleRefused(call[c]) /\ Gated(call[c]) /\ Granted(c) = "denied"
        /\ pc[c] = "closing" => pending[c] \in {"success", "error"}
        /\ pc[c] # "returned" => outcome[c] = "none"
        /\ ran[c] <= MaxRuns(call[c])

LEMMA InitInv == CallsInit => CallsTyped /\ GateInv
  BY DEF CallsInit, CallsTyped, GateInv, PCs, AuditStatus, Outcomes, MaxRuns

LEMMA StepTypes == CallsTyped /\ GateInv /\ [CallsNext]_callVars => CallsTyped'
<1> SUFFICES ASSUME CallsTyped, GateInv, [CallsNext]_callVars PROVE CallsTyped'
  OBVIOUS
<1> USE DEF CallsTyped, PCs, AuditStatus, Outcomes
<1>1. ASSUME NEW c \in Calls, Step(c) \/ Cancel(c) PROVE CallsTyped'
  <2>1. CASE RefuseInput(c) BY <2>1 DEF RefuseInput, Return
  <2>2. CASE RefuseRole(c) BY <2>2 DEF RefuseRole
  <2>3. CASE AskApproval(c) BY <2>3 DEF AskApproval, Return
  <2>4. CASE RefuseApproval(c) BY <2>4 DEF RefuseApproval
  <2>5. CASE WriteRejected(c) BY <2>5 DEF WriteRejected, WriteAuditRow, Return
  <2>6. CASE Admit(c) BY <2>6 DEF Admit
  <2>7. CASE WriteStarted(c)
    <3>1. auditRow' \in [Calls -> AuditStatus] /\ dropped' \in [Calls -> BOOLEAN]
      BY <2>7 DEF WriteStarted, WriteAuditRow
    <3>2. ran' \in [Calls -> 0..2] /\ pc' \in [Calls -> PCs]
      BY <2>7 DEF WriteStarted
    <3> QED BY <2>7, <3>1, <3>2 DEF WriteStarted
  <2>8. CASE HandlerSucceeds(c) BY <2>8 DEF HandlerSucceeds, Close, Return
  <2>9. CASE HandlerRaises(c) BY <2>9 DEF HandlerRaises, Close, Return
  <2>10. CASE HandlerMisshapes(c)
    BY <2>10 DEF HandlerMisshapes, Close, Return, MaxRuns, GateInv
  <2>11. CASE WriteTerminal(c)
    BY <2>11 DEF WriteTerminal, TerminalStatus, WriteAuditRow, Return
  <2>12. CASE Cancel(c) BY <2>12 DEF Cancel, InFlight, TerminalStatus
  <2> QED
    BY <1>1, <2>1, <2>2, <2>3, <2>4, <2>5, <2>6, <2>7, <2>8, <2>9, <2>10,
       <2>11, <2>12 DEF Step
<1>2. CASE UNCHANGED callVars BY <1>2 DEF callVars
<1> QED BY <1>1, <1>2 DEF CallsNext

LEMMA StepGate == CallsTyped /\ GateInv /\ [CallsNext]_callVars => GateInv'
<1> SUFFICES ASSUME CallsTyped, GateInv, [CallsNext]_callVars PROVE GateInv'
  OBVIOUS
<1>1. ASSUME NEW c \in Calls, Step(c) \/ Cancel(c) PROVE GateInv'
  <2>0. call' = call /\ grants' = grants
    BY <1>1 DEF Step, RefuseInput, RefuseRole, AskApproval, RefuseApproval,
       WriteRejected, Admit, WriteStarted, HandlerSucceeds, HandlerRaises,
       HandlerMisshapes, WriteTerminal, Cancel
  <2>a. \A d \in Calls : Granted(d)' = Granted(d)
    BY <2>0 DEF Granted
  <2>b. \A d \in Calls : ran[d] \in Nat /\ MaxRuns(call[d]) \in 1..2
    BY DEF CallsTyped, MaxRuns
  <2> USE DEF GateInv, CallsTyped
  <2>1. CASE RefuseInput(c)
    BY <2>0, <2>a, <2>b, <2>1 DEF RefuseInput, Return
  <2>2. CASE RefuseRole(c)
    BY <2>0, <2>a, <2>b, <2>2 DEF RefuseRole
  <2>3. CASE AskApproval(c)
    BY <2>0, <2>a, <2>b, <2>3 DEF AskApproval, Return
  <2>4. CASE RefuseApproval(c)
    BY <2>0, <2>a, <2>b, <2>4 DEF RefuseApproval, Cleared
  <2>5. CASE WriteRejected(c)
    BY <2>0, <2>a, <2>b, <2>5 DEF WriteRejected, Return
  <2>6. CASE Admit(c)
    BY <2>0, <2>a, <2>b, <2>6 DEF Admit
  <2>7. CASE WriteStarted(c)
    BY <2>0, <2>a, <2>b, <2>7 DEF WriteStarted
  <2>8. CASE HandlerSucceeds(c)
    BY <2>0, <2>a, <2>b, <2>8 DEF HandlerSucceeds, Close, Return
  <2>9. CASE HandlerRaises(c)
    BY <2>0, <2>a, <2>b, <2>9 DEF HandlerRaises, Close, Return
  <2>10. CASE HandlerMisshapes(c)
    BY <2>0, <2>a, <2>b, <2>10 DEF HandlerMisshapes, Close, Return
  <2>11. CASE WriteTerminal(c)
    BY <2>0, <2>a, <2>b, <2>11 DEF WriteTerminal, Return
  <2>12. CASE Cancel(c)
    BY <2>0, <2>a, <2>b, <2>12 DEF Cancel
  <2> QED
    BY <1>1, <2>1, <2>2, <2>3, <2>4, <2>5, <2>6, <2>7, <2>8, <2>9, <2>10,
       <2>11, <2>12 DEF Step
<1>2. CASE UNCHANGED callVars
  BY <1>2 DEF callVars, GateInv, Granted
<1> QED BY <1>1, <1>2 DEF CallsNext

(* TypeOK for every registry and every set of calls.                        *)
THEOREM CallsTypeCorrect == CallsSpec => []CallsTyped
  BY InitInv, StepTypes, StepGate, PTL DEF CallsSpec

(* Every step of invoke_tool is a step of GatedCalls or leaves it alone.    *)
LEMMA StepRefines == CallsTyped /\ GateInv /\ [CallsNext]_callVars => [Abstract!Next]_(Abstract!vars)
<1> SUFFICES ASSUME CallsTyped, GateInv, [CallsNext]_callVars
             PROVE  [Abstract!Next]_(Abstract!vars)
  OBVIOUS
<1> USE DEF Abstract!Next, Abstract!vars
<1>1. ASSUME NEW c \in Calls, Step(c) \/ Cancel(c)
      PROVE  [Abstract!Next]_(Abstract!vars)
  <2>0. /\ Abstract!Granted(c) = Granted(c)
        /\ Abstract!WellFormed(call[c]) <=> WellFormed(call[c])
        /\ Abstract!RoleRefused(call[c]) <=> RoleRefused(call[c])
        /\ Abstract!Gated(call[c]) <=> Gated(call[c])
        /\ Abstract!Cleared(call[c], Granted(c)) <=> Cleared(call[c], Granted(c))
        /\ Abstract!MaxRuns(call[c]) = MaxRuns(call[c])
        /\ Abstract!Replies(call[c], Granted(c)) = Replies(call[c], Granted(c))
    BY DEF Replies, Abstract!Replies, Granted, Abstract!Granted, WellFormed, Abstract!WellFormed,
       RoleRefused, Abstract!RoleRefused, Gated, Abstract!Gated,
       Cleared, Abstract!Cleared, MaxRuns, Abstract!MaxRuns
  <2>a. ran[c] \in Nat /\ MaxRuns(call[c]) \in 1..2
    BY DEF CallsTyped, MaxRuns
  <2>1. CASE RefuseInput(c)
    <3>1. Abstract!Answer(c, "error")
      BY <2>0, <2>1 DEF RefuseInput, Return, GateInv, Abstract!Answer, Cleared, Replies
    <3> QED BY <3>1 DEF Abstract!Outcomes
  <2>2. CASE RefuseRole(c) BY <2>2 DEF RefuseRole
  <2>3. CASE AskApproval(c)
    <3>1. Abstract!Answer(c, "approval_needed")
      BY <2>0, <2>3 DEF AskApproval, Return, GateInv, Abstract!Answer, Cleared, Replies
    <3> QED BY <3>1 DEF Abstract!Outcomes
  <2>4. CASE RefuseApproval(c) BY <2>4 DEF RefuseApproval
  <2>5. CASE WriteRejected(c)
    <3>1. Abstract!Answer(c, pending[c])
      BY <2>0, <2>5 DEF WriteRejected, Return, GateInv, Abstract!Answer, Cleared, Replies
    <3> QED BY <3>1 DEF CallsTyped, Outcomes, Abstract!Outcomes
  <2>6. CASE Admit(c)
    <3>1. CASE call[c].tool \in SideEffect BY <2>6, <3>1 DEF Admit
    <3>2. CASE call[c].tool \notin SideEffect
      <4>1. Abstract!Run(c)
        BY <2>0, <2>a, <2>6, <3>2 DEF Admit, GateInv, Abstract!Run
      <4> QED BY <4>1
    <3> QED BY <3>1, <3>2
  <2>7. CASE WriteStarted(c)
    <3>a. /\ ran[c] = 0 /\ outcome[c] = "none"
          /\ Cleared(call[c], Granted(c))
      BY <2>7 DEF WriteStarted, GateInv
    <3>b. ran' = [ran EXCEPT ![c] = 1] /\ UNCHANGED <<call, grants, outcome>>
      BY <2>7 DEF WriteStarted
    <3>1. Abstract!Run(c)
      BY <2>0, <2>a, <3>a, <3>b DEF Abstract!Run
    <3> QED BY <3>1
  <2>8. CASE HandlerSucceeds(c) \/ HandlerRaises(c)
    <3>1. PICK k \in {"success", "error"} : Close(c, k)
      BY <2>8 DEF HandlerSucceeds, HandlerRaises
    <3>2. CASE call[c].tool \in SideEffect
      BY <2>8, <3>1, <3>2 DEF HandlerSucceeds, HandlerRaises, Close
    <3>3. CASE call[c].tool \notin SideEffect
      <4>1. Abstract!Answer(c, k)
        BY <2>0, <2>a, <2>8, <3>1, <3>3
        DEF HandlerSucceeds, HandlerRaises, Close, Return, GateInv, Abstract!Answer, Cleared, Replies
      <4> QED BY <4>1 DEF Abstract!Outcomes
    <3> QED BY <3>2, <3>3
  <2>9. CASE HandlerMisshapes(c)
    <3>1. CASE ran[c] < MaxRuns(call[c])
      <4>1. Abstract!Run(c)
        BY <2>0, <2>a, <2>9, <3>1 DEF HandlerMisshapes, GateInv, Abstract!Run
      <4> QED BY <4>1
    <3>2. CASE ~(ran[c] < MaxRuns(call[c])) /\ call[c].tool \in SideEffect
      BY <2>9, <3>2 DEF HandlerMisshapes, Close
    <3>3. CASE ~(ran[c] < MaxRuns(call[c])) /\ call[c].tool \notin SideEffect
      <4>1. Abstract!Answer(c, "error")
        BY <2>0, <2>a, <2>9, <3>3
        DEF HandlerMisshapes, Close, Return, GateInv, Abstract!Answer, Cleared, Replies
      <4> QED BY <4>1 DEF Abstract!Outcomes
    <3> QED BY <3>1, <3>2, <3>3
  <2>10. CASE WriteTerminal(c)
    <3>1. Abstract!Answer(c, pending[c])
      BY <2>0, <2>a, <2>10 DEF WriteTerminal, Return, GateInv, Abstract!Answer, Cleared, Replies
    <3> QED BY <3>1 DEF CallsTyped, Outcomes, Abstract!Outcomes
  <2>11. CASE Cancel(c) BY <2>11 DEF Cancel
  <2> QED
    BY <1>1, <2>1, <2>2, <2>3, <2>4, <2>5, <2>6, <2>7, <2>8, <2>9, <2>10,
       <2>11 DEF Step
<1>2. CASE UNCHANGED callVars BY <1>2 DEF callVars
<1> QED BY <1>1, <1>2 DEF CallsNext

(* ImplementsGatedCalls for every registry, every set of calls, and any     *)
(* pattern of lost audit writes and cancelled turns.                        *)
THEOREM Implementation == CallsSpec => ImplementsGatedCalls
<1>1. CallsInit => Abstract!Init
  BY DEF CallsInit, Abstract!Init, Call, Abstract!Call, Grant, Abstract!Grant
<1> QED
  BY <1>1, InitInv, StepTypes, StepGate, StepRefines, PTL
  DEF CallsSpec, ImplementsGatedCalls, Abstract!Spec
-----------------------------------------------------------------------------
(* What the audit row of a call says at each place: nothing before its      *)
(* first write, "started" (or nothing, when that write was lost) while the  *)
(* handler of a side effect runs, the truth afterwards.                     *)
TruthInv ==
    /\ \A c \in Calls :
          /\ pc[c] \in {"start", "rejecting", "opening"} => auditRow[c] = "none"
          /\ pc[c] \in {"running", "closing"} => auditRow[c] \in {"none", "started"}
          /\ pc[c] \in {"running", "closing"} /\ call[c].tool \in SideEffect /\ ~dropped[c] =>
                auditRow[c] = "started"
          /\ pc[c] = "closing" => call[c].tool \in SideEffect
    /\ AuditTruthful

LEMMA StepTruth == CallsTyped /\ GateInv /\ TruthInv /\ [CallsNext]_callVars => TruthInv'
<1> SUFFICES ASSUME CallsTyped, GateInv, TruthInv, [CallsNext]_callVars PROVE TruthInv'
  OBVIOUS
<1>1. ASSUME NEW c \in Calls, Step(c) \/ Cancel(c) PROVE TruthInv'
  <2>0. call' = call
    BY <1>1 DEF Step, RefuseInput, RefuseRole, AskApproval, RefuseApproval,
       WriteRejected, Admit, WriteStarted, HandlerSucceeds, HandlerRaises,
       HandlerMisshapes, WriteTerminal, Cancel
  <2>b. \A d \in Calls : ran[d] \in Nat /\ (pc[d] # "returned" => outcome[d] = "none")
                         /\ (pc[d] \in {"start", "rejecting", "opening"} => ran[d] = 0)
                         /\ (pc[d] \in {"running", "closing"} => ran[d] > 0)
                         /\ (pc[d] = "closing" => pending[d] \in {"success", "error"})
                         /\ (pc[d] = "rejecting" => pending[d] \in {"permission_denied", "error"})
    BY DEF CallsTyped, GateInv
  <2> USE DEF TruthInv, AuditTruthful, CallsTyped
  <2>1. CASE RefuseInput(c)
    BY <2>0, <2>b, <2>1 DEF RefuseInput, Return
  <2>2. CASE RefuseRole(c)
    BY <2>0, <2>b, <2>2 DEF RefuseRole
  <2>3. CASE AskApproval(c)
    BY <2>0, <2>b, <2>3 DEF AskApproval, Return
  <2>4. CASE RefuseApproval(c)
    BY <2>0, <2>b, <2>4 DEF RefuseApproval
  <2>5. CASE WriteRejected(c)
    BY <2>0, <2>b, <2>5 DEF WriteRejected, WriteAuditRow, Return
  <2>6. CASE Admit(c)
    BY <2>0, <2>b, <2>6 DEF Admit
  <2>7. CASE WriteStarted(c)
    BY <2>0, <2>b, <2>7 DEF WriteStarted, WriteAuditRow
  <2>8. CASE HandlerSucceeds(c)
    BY <2>0, <2>b, <2>8 DEF HandlerSucceeds, Close, Return
  <2>9. CASE HandlerRaises(c)
    BY <2>0, <2>b, <2>9 DEF HandlerRaises, Close, Return
  <2>10. CASE HandlerMisshapes(c)
    BY <2>0, <2>b, <2>10 DEF HandlerMisshapes, Close, Return
  <2>11. CASE WriteTerminal(c)
    BY <2>0, <2>b, <2>11 DEF WriteTerminal, TerminalStatus, WriteAuditRow, Return
  <2>12. CASE Cancel(c)
    BY <2>0, <2>b, <2>12 DEF Cancel, InFlight, TerminalStatus
  <2> QED
    BY <1>1, <2>1, <2>2, <2>3, <2>4, <2>5, <2>6, <2>7, <2>8, <2>9, <2>10,
       <2>11, <2>12 DEF Step
<1>2. CASE UNCHANGED callVars
  BY <1>2 DEF callVars, TruthInv, AuditTruthful
<1> QED BY <1>1, <1>2 DEF CallsNext

(* The audit trail never lies about a side effect, whatever writes are lost *)
(* and wherever a call is cancelled, for any tools, calls and grants.       *)
THEOREM AuditIsTruthful == CallsSpec => []AuditTruthful
<1>1. CallsInit => TruthInv
  BY DEF CallsInit, TruthInv, AuditTruthful
<1>2. TruthInv => AuditTruthful
  BY DEF TruthInv
<1> QED
  BY <1>1, <1>2, InitInv, StepTypes, StepGate, StepTruth, PTL DEF CallsSpec
=============================================================================
