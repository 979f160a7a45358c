----------------------------- MODULE Approvals -----------------------------
(***************************************************************************)
(* The pending_approvals table and the HTTP surface that resolves it        *)
(* (services/api approvals.py), with the runtime's session store as the     *)
(* source of rows (stores_pg.py) and chat.py's session delete.              *)
(*                                                                          *)
(* A resolve request is four steps, one per await: the SELECT, the decision *)
(* taken in Python on the row it returned, the COMMIT of the ORM's UPDATE   *)
(* (keyed by primary key only, no version check), and the audit insert in   *)
(* a transaction of its own.  add_approval is two: the SELECT of its upsert *)
(* and the flush.  Other requests, sweeps, deletes and the clock run        *)
(* between any two of them.                                                 *)
(***************************************************************************)
EXTENDS Naturals, FiniteSets

CONSTANTS
    Sessions,     \* chat sessions
    Tenants,      \* tenants
    Users,        \* the people who resolve
    TenantOf,     \* TenantOf[u]: the tenant of user u
    Owner,        \* Owner[s]: the tenant of session s (sessions.tenant_id)
    Approvals,    \* approval ids
    SessionOf,    \* SessionOf[a]: the session whose turn minted id a
    Requests,     \* POST /approvals/{id}/resolve requests
    Listings,     \* GET /approvals requests
    TTL,          \* DEFAULT_APPROVAL_TTL_SECONDS
    NoOne,        \* resolved_by_user_id IS NULL
    MaxTime,      \* bound on the clock
    MaxAdds       \* bound on how often one approval id is (re-)requested

ASSUME ApprovalsAssumption ==
    /\ Owner \in [Sessions -> Tenants]
    /\ TenantOf \in [Users -> Tenants]
    /\ SessionOf \in [Approvals -> Sessions]
    /\ TTL \in Nat \ {0}
    /\ MaxTime \in Nat
    /\ MaxAdds \in Nat
    /\ NoOne \notin Users

VARIABLES
    now,       \* the wall clock; 0 is SQL NULL in a timestamp column
    live,      \* rows of the sessions table
    row,       \* pending_approvals, by id
    upsert,    \* the add_approval of each id: its turn has one at a time
    adds,      \* how often each id has been written by add_approval
    req,       \* the resolve requests in progress
    audit,     \* audit_events rows tool = approval.granted / .rejected
    commits,   \* history: the decisions whose UPDATE reached the table
    list       \* the list requests in progress

vars == <<now, live, row, upsert, adds, req, audit, commits, list>>

ResolvedStatuses == {"granted", "rejected", "expired"}

Statuses == {"absent", "pending"} \cup ResolvedStatuses

Row == [status: Statuses, granted: {"NULL", "TRUE", "FALSE"},
        resolved_at: Nat, resolved_by: Users \cup {NoOne}, expires_at: Nat]

NoRow == [status |-> "absent", granted |-> "NULL", resolved_at |-> 0,
          resolved_by |-> NoOne, expires_at |-> 0]

(* A fresh PendingApproval as add_approval stores it: expires_at is stamped *)
(* from requested_at, which the runtime sets to the current time.           *)
Fresh(t) == [status |-> "pending", granted |-> "NULL", resolved_at |-> 0,
             resolved_by |-> NoOne, expires_at |-> t + TTL]

(* What the client asks for, the row image its SELECT returned and the time *)
(* stamp of the decision.                                                    *)
ReqPCs == {"idle", "read", "expire", "decide", "committed",
           "ok", "not_found", "conflict", "error"}

Request == [pc: ReqPCs, id: Approvals, user: Users,
            granted: {"TRUE", "FALSE"}, seen: Row, at: Nat]

(* An add_approval: the row its SELECT returned, the requested_at it was    *)
(* given and, as history, whether some flush of it met a row that was no    *)
(* longer the one read, and whether the last one came past its deadline.    *)
Upsert == [pc: {"idle", "read"}, seen: Row, at: Nat, crossed: BOOLEAN,
           late: BOOLEAN]

Listing == [pc: {"idle", "swept"}, tenant: Tenants, at: Nat]

Audit == [id: Approvals, by: Requests, granted: {"TRUE", "FALSE"}, at: Nat]

(* The shape of the state: what pending_approvals columns, requests in      *)
(* progress and audit rows can hold (approvals.py, storage/session.py).     *)
TypeOK ==
    /\ now \in Nat \ {0}
    /\ live \subseteq Sessions
    /\ row \in [Approvals -> Row]
    /\ upsert \in [Approvals -> Upsert]
    /\ adds \in [Approvals -> Nat]
    /\ req \in [Requests -> Request]
    /\ audit \subseteq Audit
    /\ commits \subseteq Audit
    /\ list \in [Listings -> Listing]

Init ==
    /\ now = 1
    /\ live = Sessions
    /\ row = [a \in Approvals |-> NoRow]
    /\ upsert = [a \in Approvals |-> [pc |-> "idle", seen |-> NoRow, at |-> 0,
                                      crossed |-> FALSE, late |-> FALSE]]
    /\ adds = [a \in Approvals |-> 0]
    /\ req \in [Requests -> [pc: {"idle"}, id: Approvals, user: Users,
                             granted: {"TRUE", "FALSE"}, seen: {NoRow}, at: {0}]]
    /\ audit = {}
    /\ commits = {}
    /\ list \in [Listings -> [pc: {"idle"}, tenant: Tenants, at: {0}]]
-----------------------------------------------------------------------------
OwnerOf(a) == Owner[SessionOf[a]]

(* The ORM's unit of work: a flush writes the columns whose new value is    *)
(* not the one that was loaded, and leaves the others as they are by now.   *)
Changed(new, loaded, current) == IF new = loaded THEN current ELSE new

Flushed(new, loaded, current) ==
    [status |-> Changed(new.status, loaded.status, current.status),
     granted |-> Changed(new.granted, loaded.granted, current.granted),
     resolved_at |-> Changed(new.resolved_at, loaded.resolved_at, current.resolved_at),
     resolved_by |-> Changed(new.resolved_by, loaded.resolved_by, current.resolved_by),
     expires_at |-> Changed(new.expires_at, loaded.expires_at, current.expires_at)]

(* PostgresSessionStore.add_approval up to its first await, the SELECT of   *)
(* the upsert.  An approval id names its turn, and a turn adds one at a     *)
(* time.                                                                    *)
AddGet(a) ==
    /\ upsert[a].pc = "idle"
    /\ adds[a] < MaxAdds
    /\ upsert' = [upsert EXCEPT ![a].pc = "read", ![a].seen = row[a], ![a].at = now]
    /\ UNCHANGED <<now, live, row, adds, req, audit, commits, list>>

(* What it stores: a new row, or an existing one brought back to pending    *)
(* whatever its status, resolved_by_user_id excepted, by the changed        *)
(* columns only.                                                            *)
Stored(a) ==
    LET seen == upsert[a].seen
        new == [Fresh(upsert[a].at) EXCEPT !.resolved_by = seen.resolved_by]
    IN  IF seen.status = "absent" THEN Fresh(upsert[a].at)
        ELSE Flushed(new, seen, row[a])

(* The flush: an INSERT when nothing was found, which needs the session, or *)
(* an UPDATE by primary key, which needs the row.                           *)
CanStore(a) ==
    IF upsert[a].seen.status = "absent"
    THEN SessionOf[a] \in live /\ row[a].status = "absent"
    ELSE row[a].status # "absent"

AddFlush(a) ==
    /\ upsert[a].pc = "read"
    /\ CanStore(a)
    /\ adds' = [adds EXCEPT ![a] = @ + 1]
    /\ row' = [row EXCEPT ![a] = Stored(a)]
    /\ upsert' = [upsert EXCEPT ![a].pc = "idle", ![a].seen = NoRow,
                                ![a].crossed = @ \/ row[a] # upsert[a].seen,
                                ![a].late = upsert[a].at + TTL <= now]
    /\ UNCHANGED <<now, live, req, audit, commits, list>>

(* The session was deleted meanwhile: the flush raises and nothing is       *)
(* stored.                                                                  *)
AddFails(a) ==
    /\ upsert[a].pc = "read"
    /\ ~CanStore(a)
    /\ upsert' = [upsert EXCEPT ![a].pc = "idle", ![a].seen = NoRow]
    /\ UNCHANGED <<now, live, row, adds, req, audit, commits, list>>

TenantOfReq(r) == TenantOf[req[r].user]

(* resolve_approval_endpoint up to its first await: one joined SELECT.      *)
ResolveSelect(r) ==
    /\ req[r].pc = "idle"
    /\ req' = [req EXCEPT ![r].pc = "read", ![r].seen = row[req[r].id]]
    /\ UNCHANGED <<now, live, row, upsert, adds, audit, commits, list>>

(* The 404 answers: no such row, or a row of another tenant.                *)
RefuseUnknown(r) ==
    /\ req[r].pc = "read"
    /\ \/ req[r].seen.status = "absent"
       \/ OwnerOf(req[r].id) # TenantOfReq(r)
    /\ req' = [req EXCEPT ![r].pc = "not_found"]
    /\ UNCHANGED <<now, live, row, upsert, adds, audit, commits, list>>

Visible(r) ==
    /\ req[r].pc = "read"
    /\ req[r].seen.status # "absent"
    /\ OwnerOf(req[r].id) = TenantOfReq(r)

(* The double-resolution guard, on the row image the SELECT returned.       *)
RefuseResolved(r) ==
    /\ Visible(r)
    /\ req[r].seen.status \in ResolvedStatuses
    /\ req' = [req EXCEPT ![r].pc = "conflict"]
    /\ UNCHANGED <<now, live, row, upsert, adds, audit, commits, list>>

(* Past the deadline the ORM row is marked EXPIRED and nothing else.        *)
DecideExpired(r) ==
    /\ Visible(r)
    /\ req[r].seen.status \notin ResolvedStatuses
    /\ req[r].seen.expires_at <= now
    /\ req' = [req EXCEPT ![r].pc = "expire", ![r].at = now]
    /\ UNCHANGED <<now, live, row, upsert, adds, audit, commits, list>>

(* Mutant of Decide: the belt-and-braces deadline check is dropped.         *)
DecideLate(r) ==
    /\ Visible(r)
    /\ req[r].seen.status \notin ResolvedStatuses
    /\ req' = [req EXCEPT ![r].pc = "decide", ![r].at = now]
    /\ UNCHANGED <<now, live, row, upsert, adds, audit, commits, list>>

Decide(r) ==
    /\ Visible(r)
    /\ req[r].seen.status \notin ResolvedStatuses
    /\ now < req[r].seen.expires_at
    /\ req' = [req EXCEPT ![r].pc = "decide", ![r].at = now]
    /\ UNCHANGED <<now, live, row, upsert, adds, audit, commits, list>>

(* The ORM flushes an UPDATE of the changed columns WHERE id = ...; when    *)
(* the row is gone it raises and the request answers 500.                   *)
CommitLost(r) ==
    /\ req[r].pc \in {"expire", "decide"}
    /\ row[req[r].id].status = "absent"
    /\ req' = [req EXCEPT ![r].pc = "error"]
    /\ UNCHANGED <<now, live, row, upsert, adds, audit, commits, list>>

CommitExpired(r) ==
    /\ req[r].pc = "expire"
    /\ row[req[r].id].status # "absent"
    /\ row' = [row EXCEPT ![req[r].id].status = "expired"]
    /\ req' = [req EXCEPT ![r].pc = "conflict"]
    /\ UNCHANGED <<now, live, upsert, adds, audit, commits, list>>

Verb(g) == IF g = "TRUE" THEN "granted" ELSE "rejected"

Decision(r) == [id |-> req[r].id, by |-> r, granted |-> req[r].granted,
                at |-> req[r].at]

(* The row as the handler leaves it, from the image it read.                *)
Decided(r) == [status |-> Verb(req[r].granted), granted |-> req[r].granted,
               resolved_at |-> req[r].at, resolved_by |-> req[r].user,
               expires_at |-> req[r].seen.expires_at]

(* Mutant of CommitDecision: the first resolver's stamp is kept while the   *)
(* verdict is replaced.                                                     *)
CommitKeepsStamp(r) ==
    LET a == req[r].id IN
    /\ req[r].pc = "decide"
    /\ row[a].status # "absent"
    /\ row' = [row EXCEPT ![a].status = Verb(req[r].granted),
                          ![a].granted = req[r].granted,
                          ![a].resolved_at = IF @ = 0 THEN req[r].at ELSE @,
                          ![a].resolved_by = IF @ = NoOne THEN req[r].user ELSE @]
    /\ commits' = commits \cup {Decision(r)}
    /\ req' = [req EXCEPT ![r].pc = "committed"]
    /\ UNCHANGED <<now, live, upsert, adds, audit, list>>

CommitDecision(r) ==
    LET a == req[r].id IN
    /\ req[r].pc = "decide"
    /\ row[a].status # "absent"
    /\ row' = [row EXCEPT ![a] = Flushed(Decided(r), req[r].seen, @)]
    /\ commits' = commits \cup {Decision(r)}
    /\ req' = [req EXCEPT ![r].pc = "committed"]
    /\ UNCHANGED <<now, live, upsert, adds, audit, list>>

(* Mutant of WriteAudit: the audit row goes in before the decision commits. *)
AuditBeforeCommit(r) ==
    /\ req[r].pc \in {"decide", "committed"}
    /\ audit' = audit \cup {Decision(r)}
    /\ req' = [req EXCEPT ![r].pc = IF @ = "decide" THEN "decide" ELSE "ok"]
    /\ UNCHANGED <<now, live, row, upsert, adds, commits, list>>

(* db.refresh(row) and _write_approval_audit.  refresh raises when the row  *)
(* has been deleted; the audit insert is best effort and may fail.          *)
WriteAudit(r) ==
    /\ req[r].pc = "committed"
    /\ \/ /\ row[req[r].id].status = "absent"
          /\ req' = [req EXCEPT ![r].pc = "error"]
          /\ UNCHANGED audit
       \/ /\ row[req[r].id].status # "absent"
          /\ req' = [req EXCEPT ![r].pc = "ok"]
          /\ audit' \in {audit, audit \cup {Decision(r)}}
    /\ UNCHANGED <<now, live, row, upsert, adds, commits, list>>

(* Mutant of Sweep: "<" for "<=".                                           *)
SweepStrict(t) ==
    row' = [a \in Approvals |->
              IF /\ row[a].status = "pending"
                 /\ row[a].expires_at < now
                 /\ OwnerOf(a) = t
              THEN [row[a] EXCEPT !.status = "expired"] ELSE row[a]]

(* _sweep_expired: one UPDATE of the caller's tenant's overdue rows.  The   *)
(* store's expire_stale_approvals is the same statement per session.        *)
Sweep(t) ==
    row' = [a \in Approvals |->
              IF /\ row[a].status = "pending"
                 /\ row[a].expires_at <= now
                 /\ OwnerOf(a) = t
              THEN [row[a] EXCEPT !.status = "expired"]
              ELSE row[a]]

ListSweep(l) ==
    /\ list[l].pc = "idle"
    /\ Sweep(list[l].tenant)
    /\ list' = [list EXCEPT ![l].pc = "swept", ![l].at = now]
    /\ UNCHANGED <<now, live, upsert, adds, req, audit, commits>>

(* The SELECT that follows the sweep; the page is answered and the caller   *)
(* may list again.                                                          *)
ListSelect(l) ==
    /\ list[l].pc = "swept"
    /\ list' = [list EXCEPT ![l].pc = "idle", ![l].at = 0]
    /\ UNCHANGED <<now, live, row, upsert, adds, req, audit, commits>>

(* delete_session: the rows of the session go with it.                      *)
DeleteSession(s) ==
    /\ s \in live
    /\ live' = live \ {s}
    /\ row' = [a \in Approvals |-> IF SessionOf[a] = s THEN NoRow ELSE row[a]]
    /\ UNCHANGED <<now, upsert, adds, req, audit, commits, list>>

Tick ==
    /\ now < MaxTime
    /\ now' = now + 1
    /\ UNCHANGED <<live, row, upsert, adds, req, audit, commits, list>>
-----------------------------------------------------------------------------
ResolveStep(r) ==
    \/ ResolveSelect(r) \/ RefuseUnknown(r) \/ RefuseResolved(r)
    \/ DecideExpired(r) \/ Decide(r)
    \/ CommitLost(r) \/ CommitExpired(r) \/ CommitDecision(r) \/ WriteAudit(r)

Next ==
    \/ \E a \in Approvals : AddGet(a) \/ AddFlush(a) \/ AddFails(a)
    \/ \E r \in Requests : ResolveStep(r)
    \/ \E l \in Listings : ListSweep(l) \/ ListSelect(l)
    \/ \E s \in Sessions : DeleteSession(s)
    \/ Tick

Spec == Init /\ [][Next]_vars
-----------------------------------------------------------------------------
(* A decision never carries a time stamp at or past the deadline of the row *)
(* it is stored in, however long the COMMIT lags the check and however often*)
(* the approval is requested again in between (approvals.py, the deadline   *)
(* check of resolve_approval_endpoint).                                     *)
DecidedInTime ==
    \A a \in Approvals :
        row[a].resolved_at # 0 => row[a].resolved_at < row[a].expires_at

TheUser(d) == req[d.by].user

(* Racing resolvers overwrite each other, but a granted or rejected row is  *)
(* always one whole decision: verdict, flag and time come from a single     *)
(* committed request, and so does the resolver of an approval requested     *)
(* once; a pending row carries no verdict.  Excepted are rows that changed  *)
(* between the SELECT and the flush of a repeated add_approval: there the   *)
(* flush of the changed columns does mix two writers.                       *)
DecisionNotTorn ==
    \A a \in Approvals : upsert[a].crossed \/
        /\ row[a].status \in {"granted", "rejected"} =>
              \E d \in commits :
                 /\ d.id = a
                 /\ row[a].status = Verb(d.granted)
                 /\ row[a].granted = d.granted
                 /\ row[a].resolved_at = d.at
                 /\ adds[a] <= 1 => row[a].resolved_by = TheUser(d)
        /\ row[a].status = "pending" =>
              row[a].granted = "NULL" /\ row[a].resolved_at = 0

(* Only a request of the tenant that owns the session ever decides (the     *)
(* cross-tenant 404 of resolve_approval_endpoint).                          *)
TenantIsolation ==
    \A d \in commits : OwnerOf(d.id) = TenantOf[TheUser(d)]

(* The audit log never reports a verdict that did not reach the table, even *)
(* though the two are written in separate transactions.                     *)
AuditBacked == audit \subseteq commits

(* Both: who decides, and what is said of it.                               *)
OwnedAndLogged == TenantIsolation /\ AuditBacked

(* What list_approvals is about to return as pending was not overdue when   *)
(* its sweep ran, whatever was added or resolved between sweep and SELECT,  *)
(* unless add_approval took longer than the TTL and stored it overdue.      *)
ListedFresh ==
    \A l \in Listings, a \in Approvals :
        /\ list[l].pc = "swept"
        /\ OwnerOf(a) = list[l].tenant
        /\ row[a].status = "pending" /\ ~upsert[a].late
        => list[l].at < row[a].expires_at

(* An approval requested once is marked expired only when its deadline has  *)
(* passed, by whichever of the sweep and the late resolve gets there.       *)
ExpiredOnlyOverdue ==
    \A a \in Approvals :
        row[a].status = "expired" /\ adds[a] <= 1 => row[a].expires_at <= now

(* A resolved row tells one true story: a whole decision, or an expiry that *)
(* was due.                                                                 *)
DecisionsWhole == DecisionNotTorn /\ ExpiredOnlyOverdue

(* "Upsert a pending approval row keyed on the approval id"                 *)
(* (stores_pg.py:294): a row that is pending has no verdict, also after it  *)
(* was requested again.  The second flush writes only what differs from the *)
(* row it read: when that was expired and a decision staged earlier has     *)
(* committed since, the row is pending with a verdict.                      *)
PendingIsClean ==
    \A a \in Approvals :
        row[a].status = "pending" => row[a].granted = "NULL" /\ row[a].resolved_at = 0

(* "Guard against double-resolution. expired is a terminal state too"       *)
(* (approvals.py:322): once resolved, a row keeps its status until it is    *)
(* requested again or deleted.  The guard reads the SELECTed image, so two  *)
(* requests, or a request and a sweep, that overlap break it.               *)
ResolvedIsFinal ==
    [][\A a \in Approvals :
         /\ row[a].status \in ResolvedStatuses
         /\ row'[a].status # "absent"
         /\ adds'[a] = adds[a]
         => row'[a].status = row[a].status]_vars
-----------------------------------------------------------------------------
(* Strengthenings that make the safety properties inductive.                *)

(* No deadline lies further ahead than one TTL, and the deadline a request  *)
(* read is never later than the one its row has now: re-requests only       *)
(* extend it.  A staged decision was stamped before the deadline it read.   *)
(* While an add_approval is under way nobody else moves the deadline.       *)
DeadlineInv ==
    /\ \A a \in Approvals :
          /\ row[a].expires_at <= now + TTL
          /\ upsert[a].at <= now
          /\ row[a].expires_at <= upsert[a].at + TTL
          /\ upsert[a].pc = "read" /\ row[a].status # "absent" =>
                row[a].expires_at = upsert[a].seen.expires_at
    /\ \A r \in Requests :
          /\ req[r].seen.expires_at <= upsert[req[r].id].at + TTL
          /\ row[req[r].id].status # "absent" =>
                req[r].seen.expires_at <= row[req[r].id].expires_at
          /\ req[r].pc = "decide" => req[r].at < req[r].seen.expires_at
    /\ DecidedInTime

(* A request past its checks belongs to the owning tenant, and one past its *)
(* COMMIT has its decision in the table's history.                          *)
DecisionInv ==
    /\ \A r \in Requests :
          /\ req[r].pc \in {"decide", "committed"} =>
                OwnerOf(req[r].id) = TenantOfReq(r)
          /\ req[r].pc = "committed" => Decision(r) \in commits
    /\ TenantIsolation
    /\ AuditBacked

(* A pending row, or the image of one, carries no verdict, and no resolver  *)
(* when the approval was requested once.                                    *)
Clean(a, w) ==
    w.status = "pending" =>
        w.granted = "NULL" /\ w.resolved_at = 0 /\ (adds[a] <= 1 => w.resolved_by = NoOne)

(* What a request read and what its row says now have the same deadline     *)
(* while the approval was requested once; a staged expiry was due, and a    *)
(* decision is staged on a pending image.                                   *)
WholeInv ==
    /\ \A a \in Approvals :
          /\ adds[a] = 0 => row[a].status = "absent" /\ upsert[a].seen.status = "absent"
          /\ upsert[a].crossed \/ Clean(a, row[a])
    /\ \A r \in Requests :
          /\ upsert[req[r].id].crossed \/ Clean(req[r].id, req[r].seen)
          /\ req[r].pc = "decide" => req[r].seen.status = "pending" /\ req[r].at # 0
          /\ adds[req[r].id] = 0 => req[r].seen.status = "absent"
          /\ /\ adds[req[r].id] <= 1
             /\ req[r].seen.status # "absent" /\ row[req[r].id].status # "absent"
             => req[r].seen.expires_at = row[req[r].id].expires_at
          /\ req[r].pc = "expire" =>
                req[r].seen.status # "absent" /\ req[r].seen.expires_at <= now
    /\ DecisionsWhole

(* A sweep's time stamp lies in the past.                                   *)
ListInv ==
    /\ \A l \in Listings : list[l].at <= now
    /\ ListedFresh
=============================================================================
