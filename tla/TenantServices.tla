--------------------------- MODULE TenantServices ---------------------------
(***************************************************************************)
(* What a turn of an agent passes through for its tenant: the settings     *)
(* resolver over the row the settings endpoint edits, the sliding-window   *)
(* rate limiter, the daily token budget, and the LRU registry of drivers   *)
(* its tools use, built from the tenant's Credentials (tenant_registry.py, *)
(* rate_limiter.py, cost_tracker.py, drivers.py, the gates of              *)
(* orchestrator.py, and tenant_settings.py of the API).                    *)
(***************************************************************************)
EXTENDS Credentials, Sequences, SequencesExt

CONSTANTS
    Turns, Admins,
    Rates,          \* values of rate_limit_per_minute and rate_limit_per_hour
    DefaultRates,   \* [minute, hour] of a tenant without a row
    Fallback,       \* [minute, hour] when the settings cannot be read
    TokenBudgets,   \* values of daily_token_budget
    TurnTokens,     \* the most tokens one turn uses
    Minute, Hour,   \* the two windows, in ticks
    Day,            \* a day, in ticks
    MaxEntries,     \* capacity of the registry cache
    MaxBuilt,       \* bound on the registries built
    Scenarios       \* what a behaviour starts with, and how many events of each
                    \* kind it may have: [budget, row, kms, house, vault, plain]

Kinds == {"turn", "tool", "patch", "tick", "fault", "shutdown", "vault", "cancel"}
NoBudget == 0       \* daily_token_budget is null
SettingsRecord == [minute: Nat, hour: Nat, tokens: Nat, there: BOOLEAN]

ASSUME TenantAssumption ==
    /\ Rates \subseteq Nat \ {0} /\ TokenBudgets \subseteq Nat \ {0} /\ TokenBudgets # {}
    /\ {DefaultRates, Fallback} \subseteq [minute: Nat \ {0}, hour: Nat \ {0}]
    /\ TurnTokens \in Nat /\ Minute \in Nat /\ Hour \in Nat /\ Minute <= Hour
    /\ Day \in Nat \ {0} /\ MaxEntries \in Nat \ {0} /\ MaxBuilt \in Nat
    /\ Tenants # {} /\ "free" \notin Turns /\ IsFiniteSet(Turns)
    /\ \A s \in Scenarios : /\ s.row \in SettingsRecord /\ s.budget \in [Kinds -> Nat]
                            /\ s.row.tokens \in TokenBudgets \cup {NoBudget}
                            /\ WasPut(s.kms, s.vault, s.plain)
                            /\ \A t \in Tenants, p \in Providers : \A b, c \in s.vault[t][p] : b = c

VARIABLES
    row,        \* the tenant_settings row, NoRow when there is none
    admin,      \* requests of the settings endpoint in progress
    cached,     \* TenantSettingsResolver._cache
    turn,       \* the turns in progress
    events,     \* InMemoryRateLimiter._events
    costs,      \* rows of session_costs: [tenant, tokens, at]
    usage,      \* tokens on the client's last final message
    entries,    \* TenantRegistry._entries, least recently used first
    lock,       \* holder of TenantRegistry._lock
    reg,        \* every registry built, with what its build was offered
    closing,    \* registries aclose_all has still to close
    now, budget,
    \* history
    accepted,   \* every turn the limiter let through: [at, minute, hour]
    free,       \* tenants with a turn that no budget limited
    abandoned   \* registries whose closing failed, or was cancelled

vars == <<row, admin, cached, turn, events, costs, usage, entries, lock, reg, closing,
          now, budget, accepted, free, abandoned, vaultVars>>
settingsVars == <<row, admin, cached>>
meterVars == <<events, costs, usage, accepted, free>>
registryVars == <<entries, lock, reg, closing, abandoned, vaultVars>>

NoRow == [minute |-> 0, hour |-> 0, tokens |-> 0, there |-> FALSE]
Fields == {"minute", "hour", "tokens"}
DefaultRow == [minute |-> DefaultRates.minute, hour |-> DefaultRates.hour,
               tokens |-> NoBudget, there |-> TRUE]
\* TenantSettings.defaults, and what the orchestrator falls back to.
Unknown == [NoRow EXCEPT !.minute = Fallback.minute, !.hour = Fallback.hour]

NoDrivers == [p \in Providers |-> {}]
IdleAdmin == [at |-> "idle", tenant |-> CHOOSE t \in Tenants : TRUE, patch |-> <<>>,
              loaded |-> NoRow]
IdleTurn == [at |-> "idle", tenant |-> CHOOSE t \in Tenants : TRUE, settings |-> NoRow,
             reg |-> 0, drivers |-> NoDrivers, degraded |-> {}]

Init ==
    /\ admin = [a \in Admins |-> IdleAdmin]
    /\ cached = [t \in Tenants |-> NoRow]
    /\ turn = [u \in Turns |-> IdleTurn]
    /\ events = [t \in Tenants |-> <<>>]
    /\ costs = {} /\ usage = 0
    /\ entries = <<>> /\ lock = "free" /\ reg = <<>> /\ closing = {}
    /\ now = Hour
    /\ accepted = [t \in Tenants |-> <<>>] /\ free = {} /\ abandoned = {}
    /\ \E s \in Scenarios : /\ row = [t \in Tenants |-> s.row]
                           /\ budget = s.budget /\ kms = s.kms /\ house = s.house
                           /\ vault = s.vault /\ plain = s.plain /\ offered = s.plain

Spend(k) == budget[k] > 0 /\ budget' = [budget EXCEPT ![k] = @ - 1]

-----------------------------------------------------------------------------
(* The settings endpoint.                                                  *)

\* get_tenant_settings is a PATCH of nothing. _load_or_create reads the row.
AdminLoad(a, t, patch) ==
    /\ admin[a].at = "idle" /\ Spend("patch")
    /\ admin' = [admin EXCEPT ![a] =
                   [at |-> IF row[t].there THEN "write" ELSE "insert", tenant |-> t,
                    patch |-> patch, loaded |-> row[t]]]
    /\ UNCHANGED <<row, cached, turn, meterVars, registryVars, now>>

\* It commits a row of defaults if there was none; the unique tenant_id lets
\* only one of two first requests do so, and the other answers 500.
AdminInsert(a) ==
    LET t == admin[a].tenant IN
    /\ admin[a].at = "insert"
    /\ IF row[t].there
       THEN /\ admin' = [admin EXCEPT ![a] = IdleAdmin]
            /\ UNCHANGED row
       ELSE /\ row' = [row EXCEPT ![t] = DefaultRow]
            /\ admin' = [admin EXCEPT ![a].at = "write", ![a].loaded = DefaultRow]
    /\ UNCHANGED <<cached, turn, meterVars, registryVars, now, budget>>

\* The columns an UPDATE names: those whose value differs from what was loaded.
Written(r) == {f \in DOMAIN r.patch : r.patch[f] # r.loaded[f]}

(* Mutant of AdminWrite: the whole row that was loaded is written back.    *)
AdminWriteAll(a) ==
    LET r == admin[a] IN
    /\ r.at = "write"
    /\ row' = [row EXCEPT ![r.tenant] =
                 [f \in DOMAIN NoRow |-> IF f \in Written(r) THEN r.patch[f] ELSE r.loaded[f]]]
    /\ admin' = [admin EXCEPT ![a] = IdleAdmin]
    /\ UNCHANGED <<cached, turn, meterVars, registryVars, now, budget>>

AdminWrite(a) ==
    LET r == admin[a] IN
    /\ r.at = "write"
    /\ row' = [row EXCEPT ![r.tenant] =
                 [f \in DOMAIN NoRow |-> IF f \in Written(r) THEN r.patch[f] ELSE @[f]]]
    /\ admin' = [admin EXCEPT ![a] = IdleAdmin]
    /\ UNCHANGED <<cached, turn, meterVars, registryVars, now, budget>>

-----------------------------------------------------------------------------
(* Orchestrator.run_turn: the gates.                                       *)

At(u, stage) == turn[u].at = stage
Goto(u, stage) == turn' = [turn EXCEPT ![u].at = stage]
End(u) == turn' = [turn EXCEPT ![u] = IdleTurn]

\* TenantSettingsResolver.get: the cache first.
Begin(u, t) ==
    LET hit == cached[t] IN
    /\ At(u, "idle") /\ Spend("turn")
    /\ turn' = [turn EXCEPT ![u] =
                  [IdleTurn EXCEPT !.tenant = t, !.settings = hit,
                                   !.at = IF hit = NoRow THEN "load" ELSE "rate"]]
    /\ UNCHANGED <<settingsVars, meterVars, registryVars, now>>

\* _load, outside the lock.
Load(u) ==
    LET t == turn[u].tenant IN
    /\ At(u, "load")
    /\ turn' = [turn EXCEPT ![u].at = "store",
                            ![u].settings = IF row[t].there THEN row[t]
                                            ELSE [DefaultRow EXCEPT !.there = FALSE]]
    /\ UNCHANGED <<settingsVars, meterVars, registryVars, now, budget>>

\* The database fails: the orchestrator goes on with fixed limits.
LoadFails(u) ==
    /\ At(u, "load") /\ Spend("fault")
    /\ turn' = [turn EXCEPT ![u].at = "rate", ![u].settings = Unknown]
    /\ UNCHANGED <<settingsVars, meterVars, registryVars, now>>

Store(u) ==
    /\ At(u, "store")
    /\ cached' = [cached EXCEPT ![turn[u].tenant] = turn[u].settings]
    /\ Goto(u, "rate")
    /\ UNCHANGED <<row, admin, meterVars, registryVars, now, budget>>

\* The points popped from the left: the first n, and no more, are older than
\* the widest window.
Stale(q, n) ==
    /\ \A i \in 1 .. n : q[i] + Hour < now
    /\ n < Len(q) => q[n + 1] + Hour >= now

(* Mutant of InMinute: a point exactly one window old no longer counts.    *)
InMinuteOpen(q, m) ==
    /\ \A i \in (Len(q) - m + 1) .. Len(q) : q[i] + Minute > now
    /\ m < Len(q) => q[Len(q) - m] + Minute <= now

\* The points counted from the right: the last m, and no more, lie within the
\* minute.
InMinute(q, m) ==
    /\ \A i \in (Len(q) - m + 1) .. Len(q) : q[i] + Minute >= now
    /\ m < Len(q) => q[Len(q) - m] + Minute < now

OverQuota(q, m, s) == Len(q) + 1 > s.hour \/ m + 1 > s.minute

\* The verdict on turn u, with q left of its tenant's points.
Judge(u, q, m) ==
    LET r == turn[u] IN
    IF OverQuota(q, m, r.settings)
    THEN /\ events' = [events EXCEPT ![r.tenant] = q]
         /\ End(u) /\ UNCHANGED accepted
    ELSE /\ events' = [events EXCEPT ![r.tenant] = Append(q, now)]
         /\ accepted' = [accepted EXCEPT ![r.tenant] =
                           Append(@, [at |-> now, minute |-> r.settings.minute,
                                      hour |-> r.settings.hour])]
         /\ Goto(u, "budget")

\* InMemoryRateLimiter.check, which never suspends while it holds its lock.
Check(u) ==
    LET q == events[turn[u].tenant] IN
    /\ At(u, "rate")
    /\ \E n \in 0 .. Len(q) :
         /\ Stale(q, n)
         /\ LET kept == SubSeq(q, n + 1, Len(q)) IN
            \E m \in 0 .. Len(kept) : InMinute(kept, m) /\ Judge(u, kept, m)
    /\ UNCHANGED <<settingsVars, costs, usage, free, registryVars, now, budget>>

SumTokens(rows) == FoldSet(LAMBDA c, n : c.tokens + n, 0, rows)

\* tokens_for_tenant_today: the rows of the current day.
Today(t) == SumTokens({c \in costs : c.tenant = t /\ c.at \div Day = now \div Day})

\* enforce_daily_budget; a budget of null lets every turn through.
OverBudget(t, s) == s.tokens # NoBudget /\ Today(t) >= s.tokens

Enforce(u) ==
    LET r == turn[u] IN
    /\ At(u, "budget")
    /\ IF OverBudget(r.tenant, r.settings) THEN End(u) ELSE Goto(u, "model")
    /\ free' = IF r.settings.tokens = NoBudget THEN free \cup {r.tenant} ELSE free
    /\ UNCHANGED <<settingsVars, events, costs, usage, accepted, registryVars, now, budget>>

-----------------------------------------------------------------------------
(* TenantRegistry and the tools of the turn.                               *)

Cached(t) == {i \in DOMAIN entries : reg[entries[i]].tenant = t}

\* get: a cached registry is moved to the end and returned.
GetHit(u) ==
    /\ At(u, "model") /\ lock = "free" /\ Spend("tool")
    /\ \E i \in Cached(turn[u].tenant) :
         /\ entries' = Append(RemoveAt(entries, i), entries[i])
         /\ turn' = [turn EXCEPT ![u].at = "use", ![u].reg = entries[i]]
    /\ UNCHANGED <<settingsVars, meterVars, lock, reg, closing, abandoned, vaultVars, now>>

GetMiss(u) ==
    LET t == turn[u].tenant IN
    /\ At(u, "model") /\ lock = "free" /\ Spend("tool") /\ Cached(t) = {}
    /\ Len(reg) < MaxBuilt
    /\ lock' = u
    /\ turn' = [turn EXCEPT ![u].at = "amadeus", ![u].drivers = NoDrivers, ![u].degraded = {}]
    /\ offered' = [offered EXCEPT ![t] = plain[t]]
    /\ UNCHANGED <<settingsVars, meterVars, entries, reg, closing, abandoned,
                   kms, house, vault, plain, now>>

\* _build_for asks the credential resolver for one provider after the other.
Resolve(u, p, broken) ==
    LET t == turn[u].tenant IN
    /\ At(u, p)
    /\ IF broken THEN Spend("fault") ELSE UNCHANGED budget
    /\ turn' = [turn EXCEPT ![u].drivers[p] = BuildDriver(p, StorageCredentials(t, p, broken)),
                            ![u].degraded = IF Raises(broken) THEN @ \cup {p} ELSE @,
                            ![u].at = IF p = "amadeus" THEN "tbo" ELSE "cache"]
    /\ UNCHANGED <<settingsVars, meterVars, registryVars, now>>

\* The registry, with the drivers there are credentials for, is cached.
Build(u) ==
    LET i == Len(reg) + 1  r == turn[u] IN
    /\ At(u, "cache")
    /\ reg' = Append(reg, [tenant |-> r.tenant, open |-> TRUE, drivers |-> r.drivers,
                           degraded |-> r.degraded, offered |-> offered[r.tenant]])
    /\ entries' = Append(entries, i)
    /\ turn' = [turn EXCEPT ![u].at = "evict", ![u].reg = i,
                            ![u].drivers = NoDrivers, ![u].degraded = {}]
    /\ UNCHANGED <<settingsVars, meterVars, lock, closing, abandoned, vaultVars, now, budget>>

\* _aclose_safely: a close that fails is logged and the registry forgotten.
CloseSafely(i) ==
    \/ /\ reg' = [reg EXCEPT ![i].open = FALSE]
       /\ UNCHANGED <<abandoned, budget>>
    \/ /\ Spend("fault")
       /\ abandoned' = abandoned \cup {i}
       /\ UNCHANGED reg

(* Mutant of Evict: the victim is forgotten and stays open.                *)
EvictForgets(u) ==
    /\ At(u, "evict")
    /\ IF Len(entries) > MaxEntries
       THEN /\ entries' = Tail(entries)
            /\ UNCHANGED <<turn, lock, reg>>
       ELSE /\ lock' = "free"
            /\ Goto(u, "use")
            /\ UNCHANGED <<entries, reg>>
    /\ UNCHANGED <<settingsVars, meterVars, closing, abandoned, vaultVars, now, budget>>

\* Over capacity the oldest entry is popped and closed, lock held; then get
\* returns.
Evict(u) ==
    /\ At(u, "evict")
    /\ IF Len(entries) > MaxEntries
       THEN /\ entries' = Tail(entries)
            /\ CloseSafely(Head(entries))
            /\ UNCHANGED <<turn, lock>>
       ELSE /\ lock' = "free"
            /\ Goto(u, "use")
            /\ UNCHANGED <<entries, reg, abandoned, budget>>
    /\ UNCHANGED <<settingsVars, meterVars, closing, vaultVars, now>>

\* The tool is done with its driver.
Used(u) ==
    /\ At(u, "use")
    /\ turn' = [turn EXCEPT ![u].at = "model", ![u].reg = 0]
    /\ UNCHANGED <<settingsVars, meterVars, registryVars, now, budget>>

\* The model's last message of the turn, with its usage.
Respond(u, tokens) ==
    /\ At(u, "model")
    /\ usage' = tokens
    /\ Goto(u, "record")
    /\ UNCHANGED <<settingsVars, events, costs, accepted, free, registryVars, now, budget>>

\* The end of the turn: what the shared client last saw is recorded for this
\* tenant; a failing insert is logged.
Record(u) ==
    /\ At(u, "record")
    /\ costs' = IF usage = 0 THEN costs
                ELSE costs \cup {[tenant |-> turn[u].tenant, tokens |-> usage, at |-> now,
                                  n |-> Cardinality(costs)]}
    /\ End(u)
    /\ UNCHANGED <<settingsVars, events, usage, accepted, free, registryVars, now, budget>>

\* The table of costs cannot be reached: a failing read of the budget's gate
\* ends the turn with its exception.
CostsFail(u) ==
    /\ At(u, "record") \/ (At(u, "budget") /\ turn[u].settings.tokens # NoBudget)
    /\ Spend("fault")
    /\ End(u)
    /\ UNCHANGED <<settingsVars, meterVars, registryVars, now>>

\* The client disconnects and the turn is cancelled at an await.  A victim that
\* was being closed stays as it is; a lock held is released.
Cancel(u) ==
    /\ turn[u].at \notin {"idle", "cache"} /\ Spend("cancel")
    /\ IF At(u, "evict")
       THEN /\ Len(entries) > MaxEntries
            /\ entries' = Tail(entries) /\ abandoned' = abandoned \cup {Head(entries)}
       ELSE UNCHANGED <<entries, abandoned>>
    /\ lock' = IF lock = u THEN "free" ELSE lock
    /\ End(u)
    /\ UNCHANGED <<settingsVars, meterVars, reg, closing, vaultVars, now>>

\* An operator stores, rotates or deletes credentials.
StoreCredentials ==
    /\ Spend("vault")
    /\ \E t \in Tenants, p \in Providers :
         Delete(t, p) \/ \E payload \in Payloads[t][p] : Put(t, p, payload)
    /\ UNCHANGED <<settingsVars, turn, meterVars, entries, lock, reg, closing, abandoned, now>>

\* aclose_all empties the cache under the lock and closes outside it.
CloseAll ==
    /\ lock = "free" /\ Spend("shutdown")
    /\ closing' = closing \cup ToSet(entries) /\ entries' = <<>>
    /\ UNCHANGED <<settingsVars, turn, meterVars, lock, reg, abandoned, vaultVars, now>>

CloseOne(i) ==
    /\ i \in closing /\ closing' = closing \ {i}
    /\ CloseSafely(i)
    /\ UNCHANGED <<settingsVars, turn, meterVars, entries, lock, vaultVars, now>>

Tick ==
    /\ Spend("tick") /\ now' = now + 1
    /\ UNCHANGED <<settingsVars, turn, meterVars, registryVars>>

-----------------------------------------------------------------------------
Values(f) == IF f = "tokens" THEN TokenBudgets \cup {NoBudget} ELSE Rates
Patches == {<<>>} \cup UNION {[{f} -> Values(f)] : f \in Fields}

Next ==
    \/ \E a \in Admins :
         \/ \E t \in Tenants, patch \in Patches : AdminLoad(a, t, patch)
         \/ AdminInsert(a) \/ AdminWrite(a)
    \/ \E u \in Turns :
         \/ \E t \in Tenants : Begin(u, t)
         \/ Load(u) \/ LoadFails(u) \/ Store(u) \/ Check(u) \/ Enforce(u)
         \/ GetHit(u) \/ GetMiss(u) \/ Build(u) \/ Evict(u) \/ Cancel(u)
         \/ \E p \in Providers, broken \in BOOLEAN : Resolve(u, p, broken)
         \/ Used(u) \/ \E tokens \in 0 .. TurnTokens : Respond(u, tokens)
         \/ Record(u) \/ CostsFail(u)
    \/ StoreCredentials
    \/ CloseAll \/ \E i \in DOMAIN reg : CloseOne(i)
    \/ Tick

Spec == Init /\ [][Next]_vars

-----------------------------------------------------------------------------
(* Properties.                                                             *)

\* Every variable holds a value of its type, and a turn that reaches the limiter
\* has settings.
TypeOK ==
    /\ row \in [Tenants -> SettingsRecord] /\ cached \in [Tenants -> SettingsRecord]
    /\ \A a \in Admins : /\ admin[a].at \in {"idle", "insert", "write"}
                         /\ admin[a].patch \in Patches /\ admin[a].loaded \in SettingsRecord
    /\ \A u \in Turns :
         /\ turn[u].at \in {"idle", "load", "store", "rate", "budget", "model", "cache",
                            "evict", "use", "record"} \cup Providers
         /\ turn[u].tenant \in Tenants /\ turn[u].settings \in SettingsRecord
         /\ turn[u].reg \in 0 .. MaxBuilt /\ turn[u].degraded \subseteq Providers
         /\ \A p \in Providers : Cardinality(turn[u].drivers[p]) <= 1
    /\ \A u \in Turns : At(u, "rate") => turn[u].settings # NoRow
    /\ events \in [Tenants -> Seq(Nat)]
    /\ usage \in 0 .. TurnTokens
    /\ Len(reg) <= MaxBuilt /\ ToSet(entries) \subseteq DOMAIN reg
    /\ \A t \in Tenants, p \in Providers : Cardinality(vault[t][p]) <= 1
    /\ lock \in Turns \cup {"free"} /\ closing \subseteq DOMAIN reg
    /\ now \in Nat /\ budget \in [Kinds -> Nat] /\ free \subseteq Tenants

\* Of the turns the limiter let through, those in the window that ends with
\* any one of them are within the limit that one was checked against, for the
\* minute and for the hour, both ends of the window included.
RateHeld ==
    \A t \in Tenants : \A i \in DOMAIN accepted[t] :
        LET a == accepted[t][i]
            Within(w) == {j \in 1 .. i : accepted[t][j].at + w >= a.at}
        IN  /\ Cardinality(Within(Minute)) <= a.minute
            /\ Cardinality(Within(Hour)) <= a.hour

\* A tenant all of whose turns were metered passes some budget it could be
\* given, the largest if no other, by less than the turns under way at once can
\* use.
OvershootBounded ==
    \A t \in Tenants \ free : \E b \in TokenBudgets :
        Today(t) < b + Cardinality(Turns) * TurnTokens

\* Both quotas of a tenant hold as far as the code can hold them: the rate to
\* the turn, the tokens up to the turns that were under way.
QuotasHeld == TypeOK /\ RateHeld /\ OvershootBounded

\* A PATCH changes no column it does not name, whatever was written since it
\* read the row.
OthersKept ==
    [][\A a \in Admins : admin[a].at = "write" /\ admin'[a].at = "idle" =>
        \A f \in Fields \ DOMAIN admin[a].patch :
            row'[admin[a].tenant][f] = row[admin[a].tenant][f]]_vars

\* A cached registry is open, a tenant has one at most, the cache keeps to its
\* capacity but for the moment of an eviction, and a registry that is open is
\* still cached or about to be closed by the shutdown, unless closing it failed
\* or the turn that evicted it was cancelled.
RegistriesAccounted ==
    /\ \A i \in DOMAIN entries : reg[entries[i]].open
    /\ \A i, j \in DOMAIN entries :
         reg[entries[i]].tenant = reg[entries[j]].tenant => i = j
    /\ Len(entries) > MaxEntries => lock # "free"
    /\ \A i \in DOMAIN reg : reg[i].open => i \in ToSet(entries) \cup closing \cup abandoned

\* A tenant's driver works with credentials that were stored for this tenant
\* and this provider at some time during its build, never with a row that was
\* sealed for another, is stale or cannot be opened; only where reading the
\* storage raised does it have those of the house (credentials.py get,
\* crypto.py _strip_and_verify_aad, tenant_registry.py _build_for).
OwnCredentials ==
    \A i \in DOMAIN reg : \A p \in Providers : \A d \in reg[i].drivers[p] :
        IF p \in reg[i].degraded
        THEN d.login = Get(house[p], "login", "")
        ELSE \E payload \in reg[i].offered[p] :
                /\ d.login = Get(payload.fields, "login", Get(payload.meta, "login", ""))
                /\ d.base = Get(payload.fields, "base", Get(payload.meta, "base", "default"))

\* The registries of the tenants are accounted for and hold their own
\* credentials.
RegistriesSound == RegistriesAccounted /\ OwnCredentials

\* "explicitly single-tenant behaviour": a tenant with credentials of its own
\* never works with those of the house.  A database that fails once, or a bad
\* VOYAGENT_KMS_PROVIDER, makes it do so until the registry is evicted.
HouseKeptApart ==
    \A i \in DOMAIN reg : \A p \in Providers :
        reg[i].offered[p] # {} => \A d \in reg[i].drivers[p] : d.login # Get(house[p], "login", "")

\* A registry that is cached follows what is stored: nothing tells the cache
\* of a put, a rotation or a deletion.
CredentialsFollow ==
    \A k \in DOMAIN entries : \A p \in Providers :
        LET r == reg[entries[k]] IN
        {d.login : d \in r.drivers[p]} \subseteq
            {Get(x.fields, "login", "") : x \in plain[r.tenant][p]}

\* No tool is left with a registry that was closed under it.
NoUseAfterClose == \A u \in Turns : At(u, "use") => reg[turn[u].reg].open

\* The docstring of the resolver: whoever changes the settings sees to it that
\* the cache does not keep the old ones.
SettingsFollow ==
    \A t \in Tenants :
        (\A a \in Admins : admin[a].at = "idle") /\ (\A u \in Turns : ~At(u, "store")) =>
        \/ cached[t] = NoRow
        \/ \A f \in Fields : cached[t][f] = (IF row[t].there THEN row[t] ELSE DefaultRow)[f]
=============================================================================
