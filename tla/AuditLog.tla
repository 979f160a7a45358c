------------------------------ MODULE AuditLog ------------------------------
(***************************************************************************)
(* The audit surface of the API (audit.py): rejected requests recorded      *)
(* through a rate limiter that falls back from Redis to process memory, and *)
(* the readers of the audit table, who page through it or export it while   *)
(* tools keep writing to it.  Workspace composes it with the other records  *)
(* an agency keeps.                                                         *)
(***************************************************************************)
EXTENDS Naturals, Sequences, FiniteSets, SequencesExt

CONSTANTS
    Tenants,
    Requests,       \* rejected requests being recorded
    Readers,        \* administrators reading the audit log
    Addresses,      \* (remote_addr, path) pairs
    RateLimit,      \* _RATE_LIMIT
    RateWindow,     \* _RATE_WINDOW_SECONDS, in ticks
    LimiterCap,     \* _INMEM_LIMIT_CAP
    Tools,          \* values of the column tool
    Times,          \* values of started_at, two a day
    Filters,        \* filters a reader may set: [kinds, from, to]
    PageSize,       \* limit of a page
    ExportMax,      \* AUDIT_CSV_EXPORT_MAX_ROWS
    Budgets         \* how many events of each kind a behaviour may have

Kinds == {"reject", "tick", "fault", "restart", "bundle", "audit", "read",
          "enquiry", "patch", "promote", "session", "title", "append"}

ASSUME AuditAssumption ==
    /\ Tenants # {} /\ RateLimit \in Nat \ {0} /\ RateWindow \in Nat \ {0} /\ LimiterCap \in Nat \ {0}
    /\ Times \subseteq Nat /\ PageSize \in Nat \ {0} /\ ExportMax \in Nat
    /\ Filters \subseteq [kinds: SUBSET Tools, from: Nat, to: Nat]
    /\ Budgets \subseteq [Kinds -> Nat]

VARIABLES
    budget,
    now,        \* the clock, in ticks
    redisUrl,   \* VOYAGENT_REDIS_URL is set
    redis,      \* the counters in Redis: [count, expires]
    limiter,    \* _INMEM_LIMITER, least recently used first
    bundle,     \* the chat layer has built its runtime bundle
    sink,       \* _api_sink
    request,    \* where the recording of each rejection is
    events,     \* rejections the in-memory sink holds
    rows,       \* table audit_events: [tenant, tool, at, nth]
    reader,
    \* history
    passed,     \* rejections a limiter let through: [key, by, at]
    forgotten   \* keys whose in-memory bucket was evicted or lost

limiterVars == <<redisUrl, now, redis, limiter, bundle, sink, request, events, passed, forgotten>>
readVars == <<rows, reader>>
auditVars == <<limiterVars, readVars>>

Never == 0          \* a counter without an expiry; the clock starts at 1
NoCounter == [count |-> 0, expires |-> Never]
IdleRequest == [at |-> "idle", key |-> CHOOSE k \in Addresses : TRUE]
IdleReader == [at |-> "idle", tenant |-> CHOOSE t \in Tenants : TRUE,
               filter |-> CHOOSE f \in Filters : TRUE, offset |-> 0, total |-> 0,
               \* history: rows that matched at the start, rows read, and whether
               \* one was written between a count and the read that followed it
               want |-> {}, seen |-> {}, slipped |-> FALSE]

AuditInit ==
    /\ budget \in Budgets
    /\ now = 1 /\ redisUrl \in BOOLEAN
    /\ redis = [k \in Addresses |-> NoCounter]
    /\ limiter = <<>> /\ bundle = FALSE /\ sink = "none"
    /\ request = [q \in Requests |-> IdleRequest]
    /\ events = 0 /\ rows = {}
    /\ reader = [r \in Readers |-> IdleReader]
    /\ passed = <<>> /\ forgotten = {}

Spend(k) == budget[k] > 0 /\ budget' = [budget EXCEPT ![k] = @ - 1]

-----------------------------------------------------------------------------
(* record_auth_failure, called for every response 401 or 403.              *)

Verdict(q, allowed, by) ==
    IF allowed
    THEN /\ request' = [request EXCEPT ![q].at = "write"]
         /\ passed' = Append(passed, [key |-> request[q].key, by |-> by, at |-> now])
    ELSE /\ request' = [request EXCEPT ![q] = IdleRequest]
         /\ UNCHANGED passed

\* _allow_inmem.  A bucket that is over its window, or absent, starts again.
Bucket(k) == SelectSeq(limiter, LAMBDA b : b.key = k)
Without(k) == SelectSeq(limiter, LAMBDA b : b.key # k)
Overdue(b) == b.first + RateWindow <= now

\* The entries kept when the dictionary is over its cap: the most recent.
Capped(s) == SubSeq(s, Len(s) - LimiterCap + 1, Len(s))
Over(s) == Len(s) > LimiterCap

AllowInMem(q) ==
    LET k == request[q].key
        b == Bucket(k)
        fresh == b = <<>> \/ Overdue(b[1])
        \* Assigning an existing key keeps its place; move_to_end then moves it.
        next == Append(Without(k), [key |-> k,
                                    count |-> IF fresh THEN 1 ELSE b[1].count + 1,
                                    first |-> IF fresh THEN now ELSE b[1].first])
        full == ~fresh /\ b[1].count >= RateLimit
    IN /\ limiter' = IF full THEN limiter ELSE IF Over(next) THEN Capped(next) ELSE next
       /\ forgotten' = forgotten \cup (IF ~full /\ Over(next) THEN {next[1].key} ELSE {})
       /\ Verdict(q, ~full, "memory")

RecordInMem(q) ==
    /\ request[q].at = "memory"
    /\ AllowInMem(q)
    /\ UNCHANGED <<redisUrl, now, redis, bundle, sink, events, readVars, budget>>

Reject(q, k) ==
    /\ request[q].at = "idle" /\ Spend("reject")
    /\ request' = [request EXCEPT ![q] =
                     [at |-> IF redisUrl THEN "incr" ELSE "memory", key |-> k]]
    /\ UNCHANGED <<redisUrl, now, redis, limiter, bundle, sink, events, passed, forgotten, readVars>>

(* Mutant of RedisIncr: one more than the limit passes.                    *)
RedisIncrLate(q) ==
    LET k == request[q].key  n == redis[k].count + 1 IN
    /\ request[q].at = "incr"
    /\ redis' = [redis EXCEPT ![k].count = n]
    /\ IF n = 1 THEN request' = [request EXCEPT ![q].at = "expire"] /\ UNCHANGED passed
                ELSE Verdict(q, n <= RateLimit + 1, "redis")
    /\ UNCHANGED <<redisUrl, now, limiter, bundle, sink, events, forgotten, readVars, budget>>

\* INCR; only the first one of a counter goes on to set its expiry.
RedisIncr(q) ==
    LET k == request[q].key  n == redis[k].count + 1 IN
    /\ request[q].at = "incr"
    /\ redis' = [redis EXCEPT ![k].count = n]
    /\ IF n = 1 THEN request' = [request EXCEPT ![q].at = "expire"] /\ UNCHANGED passed
                ELSE Verdict(q, n <= RateLimit, "redis")
    /\ UNCHANGED <<redisUrl, now, limiter, bundle, sink, events, forgotten, readVars, budget>>

RedisExpire(q) ==
    LET k == request[q].key IN
    /\ request[q].at = "expire"
    /\ redis' = [redis EXCEPT ![k].expires = now + RateWindow]
    /\ Verdict(q, TRUE, "redis")
    /\ UNCHANGED <<redisUrl, now, limiter, bundle, sink, events, forgotten, readVars, budget>>

\* Either command fails, applied or not: the exception is swallowed, and
\* _allow falls back to memory.
RedisFails(q) ==
    LET k == request[q].key IN
    /\ request[q].at \in {"incr", "expire"} /\ Spend("fault")
    /\ \/ UNCHANGED redis
       \/ request[q].at = "incr" /\ redis' = [redis EXCEPT ![k].count = @ + 1]
       \/ request[q].at = "expire" /\ redis' = [redis EXCEPT ![k].expires = now + RateWindow]
    /\ AllowInMem(q)
    /\ UNCHANGED <<redisUrl, now, bundle, sink, events, readVars>>

\* get_api_audit_sink settles on a sink at its first use.
ApiAuditSink == IF sink # "none" THEN sink ELSE IF bundle THEN "table" ELSE "memory"

\* The sink of a bundle is the table, whose foreign keys refuse the system
\* tenant.
Write(q) ==
    /\ request[q].at = "write"
    /\ sink' = ApiAuditSink
    /\ events' = IF ApiAuditSink = "memory" THEN events + 1 ELSE events
    /\ request' = [request EXCEPT ![q] = IdleRequest]
    /\ UNCHANGED <<redisUrl, now, redis, limiter, bundle, passed, forgotten, readVars, budget>>

BuildBundle ==
    /\ ~bundle /\ Spend("bundle")
    /\ bundle' = TRUE
    /\ UNCHANGED <<redisUrl, now, redis, limiter, sink, request, events, passed, forgotten, readVars>>

\* The process stops anywhere and starts again; Redis stays.
Restart ==
    /\ Spend("restart")
    /\ limiter' = <<>> /\ bundle' = FALSE /\ sink' = "none" /\ events' = 0
    /\ request' = [q \in Requests |-> IdleRequest]
    /\ forgotten' = forgotten \cup {limiter[i].key : i \in DOMAIN limiter}
    /\ UNCHANGED <<redisUrl, now, redis, passed, readVars>>

Tick ==
    /\ Spend("tick")
    /\ now' = now + 1
    /\ redis' = [k \in Addresses |->
                   IF redis[k].expires # Never /\ redis[k].expires <= now + 1
                   THEN NoCounter ELSE redis[k]]
    /\ UNCHANGED <<redisUrl, limiter, bundle, sink, request, events, passed, forgotten, readVars>>

-----------------------------------------------------------------------------
(* The table and its readers.                                              *)

\* A tool's event reaches the table some time after its started_at, which
\* other rows may share; nth tells rows apart that agree in all else.
ToolEvent(t, tool, at) ==
    /\ Spend("audit")
    /\ LET alike == {x \in rows : x.tenant = t /\ x.tool = tool /\ x.at = at}
       IN  rows' = rows \cup {[tenant |-> t, tool |-> tool, at |-> at,
                              nth |-> Cardinality(alike) + 1]}
    /\ reader' = [r \in Readers |->
                    IF reader[r].at = "rows" THEN [reader[r] EXCEPT !.slipped = TRUE]
                    ELSE reader[r]]
    /\ UNCHANGED limiterVars

NoDate == 0
StartOf(d) == 2 * d
EndOf(d) == 2 * d + 1

\* The WHERE of the list, of its count and of the export.
Matching(t, f) ==
    {x \in rows : /\ x.tenant = t
                  /\ f.kinds = {} \/ x.tool \in f.kinds
                  /\ f.from = NoDate \/ x.at >= StartOf(f.from)
                  /\ f.to = NoDate \/ x.at <= EndOf(f.to)}

\* The pages a SELECT of S may return that is ordered by a time alone, most
\* recent first: which of two rows of the same time comes first is the
\* database's choice, made anew for every statement.
Pages(S, time, offset, limit) ==
    {p \in SUBSET S : \E skipped \in SUBSET (S \ p) :
        LET left == S \ (skipped \cup p) IN
        /\ Cardinality(skipped) = Min({offset, Cardinality(S)})
        /\ Cardinality(p) = Min({limit, Cardinality(S) - Cardinality(skipped)})
        /\ \A x \in skipped, y \in S \ skipped : time[x] >= time[y]
        /\ \A x \in p, y \in left : time[x] >= time[y]}

\* What the reader means by its filter.
Meant(t, f) ==
    {x \in rows : /\ x.tenant = t
                  /\ f.kinds # {} => x.tool \in f.kinds
                  /\ f.from # NoDate => x.at \div 2 >= f.from
                  /\ f.to # NoDate => x.at \div 2 <= f.to}

OpenLog(r, t, f, how) ==
    /\ reader[r].at = "idle" /\ Spend("read")
    /\ reader' = [reader EXCEPT ![r] =
                    [IdleReader EXCEPT !.at = how, !.tenant = t, !.filter = f,
                                       !.want = Meant(t, f)]]
    /\ UNCHANGED <<rows, limiterVars>>

\* list_audit_events: the total, then the page.
ListCount(r) ==
    LET d == reader[r] IN
    /\ d.at = "count"
    /\ reader' = [reader EXCEPT ![r].at = "rows",
                                ![r].total = Cardinality(Matching(d.tenant, d.filter))]
    /\ UNCHANGED <<rows, limiterVars, budget>>

\* The page offers the next one while its offset is below the total.
ListRows(r) ==
    LET d == reader[r]
        found == Matching(d.tenant, d.filter)
        more == d.offset + PageSize < d.total
    IN /\ d.at = "rows"
       /\ \E page \in Pages(found, [x \in found |-> x.at], d.offset, PageSize) :
            reader' = [reader EXCEPT ![r].at = IF more THEN "count" ELSE "read",
                                     ![r].offset = IF more THEN @ + PageSize ELSE @,
                                     ![r].seen = @ \cup page]
       /\ UNCHANGED <<rows, limiterVars, budget>>

\* export_audit_csv: the guard on the number of rows, then the rows.
ExportCount(r) ==
    LET d == reader[r]  n == Cardinality(Matching(d.tenant, d.filter)) IN
    /\ d.at = "export"
    /\ reader' = [reader EXCEPT ![r] = IF n > ExportMax THEN IdleReader
                                       ELSE [d EXCEPT !.at = "select", !.total = n]]
    /\ UNCHANGED <<rows, limiterVars, budget>>

ExportRows(r) ==
    LET d == reader[r] IN
    /\ d.at = "select"
    /\ reader' = [reader EXCEPT ![r].at = "exported",
                                ![r].seen = Matching(d.tenant, d.filter)]
    /\ UNCHANGED <<rows, limiterVars, budget>>

CloseLog(r) ==
    /\ reader[r].at \in {"read", "exported"}
    /\ reader' = [reader EXCEPT ![r] = IdleReader]
    /\ UNCHANGED <<rows, limiterVars, budget>>

LimiterNext ==
    \/ \E q \in Requests : \/ \E k \in Addresses : Reject(q, k)
                           \/ RecordInMem(q) \/ RedisIncr(q) \/ RedisExpire(q)
                           \/ RedisFails(q) \/ Write(q)
    \/ BuildBundle \/ Restart \/ Tick

ReadNext ==
    \/ \E t \in Tenants, tool \in Tools, at \in Times : ToolEvent(t, tool, at)
    \/ \E r \in Readers :
         \/ \E t \in Tenants, f \in Filters, how \in {"count", "export"} : OpenLog(r, t, f, how)
         \/ ListCount(r) \/ ListRows(r) \/ ExportCount(r) \/ ExportRows(r) \/ CloseLog(r)

AuditNext == LimiterNext \/ ReadNext

-----------------------------------------------------------------------------
(* Properties.                                                             *)

AuditTypeOK ==
    /\ redisUrl \in BOOLEAN /\ now \in Nat
    /\ redis \in [Addresses -> [count: Nat, expires: Nat]]
    /\ limiter \in Seq([key: Addresses, count: 1..RateLimit, first: 1..now])
    /\ Len(limiter) <= LimiterCap
    /\ bundle \in BOOLEAN /\ sink \in {"none", "memory", "table"}
    /\ request \in [Requests -> [at: {"idle", "memory", "incr", "expire", "write"},
                                 key: Addresses]]
    /\ events \in Nat
    /\ rows \subseteq [tenant: Tenants, tool: Tools, at: Times, nth: Nat]
    /\ reader \in [Readers -> [at: {"idle", "count", "rows", "read", "export", "select",
                                    "exported"},
                               tenant: Tenants, filter: Filters, offset: Nat, total: Nat,
                               want: SUBSET rows, seen: SUBSET rows, slipped: BOOLEAN]]

(* A client that keeps failing cannot flood the log: in any RateWindow      *)
(* ticks each limiter lets through at most the last of one bucket and the   *)
(* first of the next, whatever the order of INCR, EXPIRE, failures and      *)
(* expiries (_allow_redis, _allow_inmem).  The in-memory bound needs the    *)
(* bucket not to have been evicted at the cap or lost in a restart.         *)
FloodBounded ==
    \A k \in Addresses, by \in {"redis", "memory"} :
        by = "redis" \/ k \notin forgotten =>
            \A s \in 1..now :
                Cardinality({i \in DOMAIN passed : /\ passed[i].key = k /\ passed[i].by = by
                                                   /\ passed[i].at \in s..(s + RateWindow - 1)})
                    <= 2 * RateLimit

(* A reader who turns every page has seen every row that matched when it    *)
(* began, although tools keep writing rows that shift the pages, unless a   *)
(* row was written between a count and its page or the row's started_at is  *)
(* another row's too; when one page was enough, and in an export, no row is *)
(* missed for that; and no reader sees a row the filter or another tenant   *)
(* excludes (list_audit_events, export_audit_csv).                          *)
ReadersComplete ==
    \A r \in Readers :
        LET d == reader[r]
            meant == Meant(d.tenant, d.filter)
            missed == d.want \ d.seen
        IN  /\ d.seen \subseteq meant
            /\ d.at = "read" /\ ~d.slipped =>
                 /\ \A x \in missed : \E y \in meant \ {x} : y.at = x.at
                 /\ d.offset = 0 => missed = {}
            /\ d.at = "exported" => missed = {}

(* The log can neither be flooded nor lose rows to a reader.               *)
LogSound == AuditTypeOK /\ FloodBounded /\ ReadersComplete

(* Every counter in Redis has an expiry once nobody is about to give it     *)
(* one.  It does not hold: a failure or a stop between INCR and EXPIRE      *)
(* leaves a counter that silences its key for good (_allow_redis).          *)
CountersExpire ==
    \A k \in Addresses :
        redis[k].count > 0 /\ (\A q \in Requests : request[q].at = "idle")
            => redis[k].expires # Never

(* "caps writes at 5 per minute per (remote_addr, path)" (audit.py:13, 198).*)
(* It does not hold: a bucket may be used up at the end of its window and   *)
(* the next one right after, and a failure of Redis opens a second one.     *)
FivePerMinute ==
    \A k \in Addresses \ forgotten, s \in 1..now :
        Cardinality({i \in DOMAIN passed : /\ passed[i].key = k
                                           /\ passed[i].at \in s..(s + RateWindow - 1)}) <= RateLimit

(* A reader who turns every page while nothing is written sees every row.   *)
(* It does not hold for rows that share a started_at: two pages may both    *)
(* have the one and neither the other (ORDER BY started_at, audit.py:453).  *)
PagesComplete ==
    \A r \in Readers : reader[r].at = "read" /\ ~reader[r].slipped =>
        reader[r].want \subseteq reader[r].seen

(* "Refuses to export more than AUDIT_CSV_EXPORT_MAX_ROWS rows": it does    *)
(* not hold for rows written between the count and the read.                *)
ExportCapped ==
    \A r \in Readers : reader[r].at = "exported" => Cardinality(reader[r].seen) <= ExportMax
=============================================================================
