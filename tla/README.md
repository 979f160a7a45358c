# Voyagent: TLA+ models, checks and proofs

Voyagent is an agentic back office for travel agencies. A user chats with an
orchestrator agent, which hands work to domain agents; these call typed tools;
tools with side effects wait for a human's approval and leave audit rows;
tools reach vendors through drivers, one of which drives a browser through a
job queue. Around the agents stand accounts and sessions, tenant settings and
quotas, enquiries, and the agency's books. This directory models the parts of
that system in which order, concurrency, failure, retries or arithmetic decide
whether it is correct. TLC checks the models on small instances and TLAPS
proves the main safety results for instances of every size.

Paths below are relative to `src/`. `AR`, `API` and `BR` stand for
`services/agent_runtime/src/voyagent_agent_runtime`,
`services/api/src/voyagent_api` and
`services/browser_runner/src/voyagent_browser_runner`.

## 1. Inventory

| Component | State it keeps | Operations | Hard behaviour | What makes it correct | Module |
|---|---|---|---|---|---|
| Chat streaming (`API/chat.py`, `packages/sdk/src/sse.ts`) | session objects: event counter, replay buffer, transcript; the SDK's last id and attempt | post a message, stream frames, reconnect with Last-Event-ID, replay, abort | cut links, repeated POSTs, late disconnect detection, restarts, two stores | the client sees every frame once, in order, or is told; a finished message is not run again; iterators end | ChatStream |
| Orchestrator, agent loop, domain agents (`AR/orchestrator.py`, `AR/_agent_loop.py`, `AR/domain_agents/`) | transcript, events, loop counters | gate, stream, retry, dispatch tools, hand off, pause, sync | overlapping turns, mid-stream failures on two retry schedules, cancellation | one FINAL, last; no repeated text; transcript keeps what the loops wrote; turns end | AgentTurn |
| Tool runtime (`AR/tools.py` `invoke_tool`) | audit row and handler runs of each call | validate, check role, gate, run, retry a misshapen output, audit | cancellation at any await, lost audit writes | no side effect without clearance; bounded runs; truthful audit | ToolGate, GatedCalls, ToolInvocation |
| Approvals (`API/approvals.py`, `AR/stores_pg.py`, session delete of `API/chat.py`) | `pending_approvals`, `sessions`, audit rows | add, list (sweep, select), resolve (select, decide, commit, audit), delete | decisions on stale row images, deadline races, deletes, a repeated request that flushes only the columns that changed | decided in time, by the owner, whole, logged truthfully | Approvals |
| Browser jobs (`BR/worker.py`, `queue.py`, `client.py`, `job.py`) | Redis list, result keys, worker and client positions | submit, poll, dequeue, run, retry, put result, stop, crash, restart | timeouts after the effect, pop without acknowledgement, stale deadlines | a job exists once, is tried a bounded number of times, and once its driver has given up at most the attempt under way goes on; answers are true; everything settles | JobService, BrowserRunner |
| Browser pool (`BR/browser_pool.py`) | contexts by (tenant, portal), locks, last use | acquire, evict, create, release, close | waiting for a lock while others evict; a close or a creation that fails or is cancelled | a user has an open context to itself; only a failed or cancelled close leaves one out of reach | BrowserPool |
| Portal handlers, steps, artifacts, VFS driver (`BR/handlers/`, `steps.py`, `artifacts.py`, `drivers/vfs/`) | the page and place of a job in its script, the portal's forms, documents and appointments | fill form, upload, book, read status, checklist, screenshot, extract | a step that fails after its effect, slots taken meanwhile, retries of half a script | submitted forms are whole, success is earned, the best listed slot is booked, secrets stay out of the log | VisaPortal |
| Accounts and invites (`API/auth_inhouse/service.py`, `repository.py`, `totp.py`, `verification.py`) | users, invites, verification tokens, TOTP secrets | sign up, invite, revoke, accept, change profile, verify address, set up / verify / remove 2FA | several transactions per request, each on what an earlier one read | nobody joins uninvited; an invite is spent once; marks and factors belong to what was proved | Accounts |
| Sign-in and API keys (`API/auth_inhouse/routes.py`, `api_keys.py`) | `api_keys`, requests in flight | create, list, revoke, resolve a bearer, two-step sign-in | revocation against a resolution under way, prefixes that are not unique | revoked keys are refused, a key opens its tenant only | ApiKeys |
| Signed-in sessions (`API/auth_inhouse/`, `API/revocation.py`, `apps/web/lib/auth.ts`, `apps/mobile/lib/auth.tsx`, `apps/desktop/src/auth/`) | refresh rows, denylist, the tokens each client holds | sign in, refresh with rotation, sign out, reset, `/me` | concurrent refreshes of one token, whole-second TTLs, lost replies | a client is never stranded with a dead token; a denied token stays denied; a reset ends what came before | Sessions |
| Amadeus driver, offer cache, passenger resolver (`drivers/amadeus/`, `AR/offer_cache.py`, `AR/passenger_resolver.py`) | OAuth token and its lock, cached offers, vendor orders | search, create, cancel, read, over a retrying executor | replies lost after the order, an expiring token, a best-effort cache | no second order by the driver's own doing; orders hold what was asked; bounded attempts | FlightBooking |
| TBO driver and travel tools (`drivers/tbo/`, `AR/tools.py`) | the supplier's stock, what the agent was told | search, check rate, book, cancel, read; search_flights, read_pnr, issue_ticket | unusable vendor data, rates that move, truncated summaries | prices told are offered and current, counts are true, shown fares can be booked | Hotels, TravelDesk |
| Settings, rate limiter, token budget, driver registry (`AR/tenant_registry.py`, `rate_limiter.py`, `cost_tracker.py`, `drivers.py`, `API/tenant_settings.py`) | settings row and its cache, windows of timestamps, cost rows, LRU of registries | read, patch, invalidate, check, record, acquire, evict, close all | check-then-act, window edges, eviction, a cached row that is stale | quotas hold in every window, overshoot is bounded, every open registry is accounted for | TenantServices |
| Credential vault (`schemas/storage/credentials.py`, `crypto.py`, resolvers and driver builders of `AR/tenant_registry.py`) | sealed rows per tenant and provider, the key of the process, its environment | put, rotate, delete, resolve, build a driver | rows of an old key or in the wrong place, replaced during a build, a read that raises and falls back | a driver has credentials stored for its tenant and provider while it was built, or visibly those of the house | Credentials, TenantServices |
| Audit log (`API/audit.py`) | Redis counters, in-memory limiter, sink, audit rows | record a rejection, list pages, export | INCR and EXPIRE apart, fallbacks, rows written under a reader, rows of one time | the log cannot be flooded; readers miss nothing that was there and can be told apart | AuditLog |
| Enquiries and chat sessions (`API/enquiries.py`, `API/chat.py`, `AR/stores_pg.py`) | enquiries, sessions, messages | create, patch, promote, list; title, rename, delete, append | two requests between each other's statements | lifecycle and dates hold, promotions are counted, sequences are dense | Workspace |
| Tally driver, accounting tools, ledger, reports (`drivers/tally/`, `AR/tools.py`, `schemas/storage/ledger.py`, `API/reports.py`) | drafts, journal entries, Tally's books, requests on the wire | draft, post, invoice, list accounts; aging, trial balance | a gateway that imports late or answers never, rounding to two decimals | vouchers balance, what was reported posted is posted, reports add up | Bookkeeping, BackOffice |
| BSP India driver (`drivers/bsp_india/`) | the report cache of a turn | read the file of a period, parse, report, reconcile | signs, short lines, duplicates, tolerances | every row and ticket is accounted for once, totals add | BspStatement, BackOffice |
| Chat UI hook (`packages/chat/src/useAgentStream.ts`) | messages, pending approvals, streaming flag | send, approve, stop, fold events | events after stop | one send in flight | not modelled |
| Everything else | | | | | section 8 |

How they interact: the SDK posts to chat.py, which takes a session from the
store and iterates `Orchestrator.run_turn`; the orchestrator consults tenant
settings, rate limiter and token budget, then it and the domain agents share
`run_agent_turn`, which calls `invoke_tool`; a tool that needs approval makes
the turn end with an APPROVAL_REQUEST event and `add_approval` writes a row that
`POST /approvals/{id}/resolve` decides; tools take drivers from the tenant's
registry; the VFS driver submits jobs through `BrowserRunnerClient` to workers
that take pages from the browser pool. Turns, requests and workers are tasks of
asyncio loops: another task may run at every `await`, and only there.

`PROJECT.json` lists the hazards of this code, each at its line and with the
properties that would catch it going wrong.

## 2. Modules

Agents and approvals:

- **Approvals**: `row` is `pending_approvals`, `live` the sessions table,
  `req` the resolve requests with the row image each SELECTed and the user who
  sent it, `list` the list requests, `audit` the audit rows, `commits` a history
  of decisions that reached the table. A resolve request is four steps, one per
  await: `Select`, the decision on the image, the COMMIT of an UPDATE by primary
  key, the audit insert. `upsert[a]` is an `add_approval` under way: `AddGet`
  reads the row, `AddFlush` inserts it or writes the columns that differ from
  what was read, and `AddFails` loses the connection between them. Its fields
  `crossed` (somebody wrote the row in between) and `late` (the deadline it
  writes had passed by the time of the flush) are history.
- **ToolGate** holds the registry as CONSTANTS and the static rules of
  `invoke_tool` (what is well formed, gated, cleared, which replies are
  possible, how often a handler may run). **GatedCalls** is the abstract
  specification: a call's handler starts only when cleared, at most `MaxRuns`
  times, and its answer fits what happened. **ToolInvocation** is
  `invoke_tool` with a step per await: input and role checks, gate, audit
  writes that may be dropped, handler outcomes, the one retry for an output
  that does not fit its schema, and cancellation. It implements GatedCalls.
- **AgentTurn** is `run_turn` with `run_agent_turn` inside it: gates (also a
  budget that cannot be read, whose error `run_turn` lets through), stream with buffered deltas and two retry schedules, tool blocks, the orchestrator's
  intercepts, handoff, pause, the sync of the transcript, FINAL, cancellation.
  `made` and `turn[t].met` are history variables. Tools answer with one of the
  `Replies` that ToolGate allows.
- **ChatStream**: `sess` are the session objects (one for the in-memory store,
  one per request for Postgres), `conn` the accepted requests with their link
  and the frames under way, `client` the SDK iterator, `log` a history of
  numbered frames. A turn is a source of events that ends with a final or an
  error.

Browser work:

- **JobService** is what a driver is promised: a submitted job is tried at most
  `RetryLimit + 1` times, meets one fate for good, and its driver is told that
  fate or gives up before it. **BrowserRunner** is the code: `queue` is the
  Redis list, `result` the result keys, `client[j]` the submit call of job j,
  `worker[w]` the place of a worker in `run_forever`/`process_one`. `Crash`
  loses what a worker holds; `Restart` brings it back. `Fate` is the
  refinement mapping: a job in the list or in a worker's hands is pending, and
  a result, once stored, is its fate.
- **BrowserPool**: `contexts` is the dict, `pooled` the context records,
  `acquirer` the callers. The pool lock and the context locks are explicit. An
  eviction is `EvictStale` (the list of idle contexts, `stale`), then for each
  `PopStale`, which takes it out of the dict, and the await of its close
  (`closing`), which succeeds, fails with the error swallowed, or is cancelled
  with its caller; in the last two cases the context stays open and no part of
  the pool knows it (`lost`, a history variable).
- **VisaPortal** puts a worker on top of the pool: every handler is a script of
  steps on a page, and a step succeeds or fails before or after its effect on
  the (external) portal. It includes the jobs the VFS driver and the CLI build
  and what the driver makes of a result.

Accounts:

- **Accounts** and **ApiKeys**: the tables, and each request with what it has
  read so far. A request is one step per await that reads or commits, which is
  why an acceptance may go on after the invite it read was revoked. ApiKeys
  extends Accounts; its bearers are pairs of a prefix and a key.
- **Sessions**: `pair` is an access and a refresh token issued together,
  `srv[c]` and `cl[c]` the API's and the library's side of a call, `link` the
  stored reset token and `resetting[r]` each submission of the reset form, whose
  GET and DELETE of the token are two steps. The clock counts half seconds so
  that `int(time.time())` loses something.

Work of the agency:

- **FlightBooking** (driver, token lock, offer cache), **Hotels** (supplier's
  stock, the tool call in progress, what the agent heard) and **TravelDesk**,
  which composes them under the travel tools of a turn. Hotels has both readings
  of a search answer: the results, with every usable rate of a hotel, and the
  offers, of which each is a hotel's first room, under the hotel's code when the
  room has no key and at 0 when there is no room.
- **Bookkeeping** has the arithmetic as pure operators: amounts in thousandths
  so that rounding to two decimals shows, `Quantize` half to even, vouchers,
  ledger rows, aging, trial balance. **BspStatement** has the parser, the
  report and the reconciliation. **BackOffice** runs the accounting tools over
  them, with drafts, the wire to the gateway and the report cache of a turn.
- **Credentials** has the vault: a sealed row is a record of the key, the
  tenant and provider it is bound to, and the payload; `kms` is the key of the
  process, NullKMS or a misconfiguration; a resolver returns a set of at most
  one dict. **TenantServices** extends it and follows a turn through settings,
  windows, budget and registry: `GetMiss`, one `Resolve` per provider, `Build`
  and `Evict` are the awaits of `TenantRegistry.get`, at each of which the turn
  may be cancelled while administrators patch the row and operators replace
  credentials. A close goes through `CloseSafely`, which may fail and leave the
  registry open (`abandoned`); `CostsFail` is a database that fails at the budget
  gate or at the record of a turn's cost.
- **AuditLog** and **Workspace**: the tables and the requests between their
  statements; Workspace extends AuditLog. Rows may share their time, and a page
  is then any that the ordering allows. An enquiry may be created with a session
  (`given`, kept as history); the list of enquiries has its total and pages.

Each composed module has an `MC...` module with the constants of its instance.
Proofs are in modules of their own: `ApprovalGate_proofs` (Approvals and
ToolInvocation), `AgentTurn_proofs`, `BrowserRunner_proofs`, `VisaPortal_proofs`
(with BrowserPool), `SignIn_proofs` (Accounts, ApiKeys and Sessions),
`TravelDesk_proofs` (with FlightBooking), `TenantServices_proofs` (with
Credentials) and `Workspace_proofs` (with ChatStream).
Operators whose comment begins with "Mutant of" are deliberately wrong variants
of the operator they precede; nothing uses them, and each shows that a property
can fail.

## 3. Runs

Every run passes. Some properties are conjunctions of named parts, so that one
run of TLC checks them together; the parts are given in brackets, and each is
stated in a comment where it is defined. Type invariants (`TypeOK`) are parts of
such groups or theorems.

| Run | Instance and bounds | Checks |
|---|---|---|
| `approvals` | one approval, three users of two tenants, two resolve requests, one list request, deadline 2 ticks away, clock to 4, the approval requested up to twice, with writers between the read and the flush; symmetric in the requests and in the users of a tenant | `DecidedInTime`; `DecisionsWhole` (`DecisionNotTorn`, `ExpiredOnlyOverdue`); `OwnedAndLogged` (`TenantIsolation`, `AuditBacked`); `ListedFresh` |
| `tool_invocation` | one call of every kind of tool under every grant and role, cancellation and lost audit writes anywhere (calls share no state) | `AuditTruthful`, refinement `ImplementsGatedCalls`, `CallsReturn` |
| `agent_turn` | one turn with two rounds, one retry on each schedule and up to two tool blocks a message, or two shorter turns of a session in sequence or overlapping (`MCLimits`) | `OneFinalLast`, `NoRepeatedDeltas`, `MidLoopAnswered`, `AloneTranscriptKept`, `TurnsEnd` |
| `browser_runner` | two jobs (one without a handler), two workers, one retry, deadline 1 tick, clock to 2, one outage | `OneCopy`, `LateWorkBounded`, refinement `ImplementsJobService`, `JobsSettle` |
| `visa_portal` | the pool alone with three callers and two keys, or a worker with two jobs; `max_concurrency` 1, one retry, two contexts, clock to 2; a failing or cancelled close, one or two failing steps, a late one, a rival applicant | `PoolSafe` (`TypeOK`, `UsersSafe`, `NoLeak`); `PortalFaithful` (`VisaTypeOK`, `FormsWhole`, `AnswersEarned`, `BestSlot`, `DecisionsTrue`, `FailuresShown`, `SecretsMasked`); `CallsReturn` |
| `chat_stream` | two messages (the second without content), one reconnect each, one event before the final, one restart, both stores | `FramesDelivered` (`StreamTyped`, `SeenInOrder`, `GapsTold` while `NothingDropped`, which the run's cap of 12 ensures); `MemoryKeeps` (`FinishedNotRerun`, `MemoryRemembers`); `StreamsEnd` |
| `accounts` | three users, one invite, two requests in flight, two keys, two key requests, two prefixes, clock to 1; sign-up with invites and profiles, verification, 2FA, or keys; symmetric in users, requests and keys | `Membership` (`TypeOK`, `MembersInvited`, `AcceptedMeansMember`, `InviteSpentOnce`); `ProofsSound` (`VerifiedThisAddress`, `EnabledSecretProved`, `SecondStepProved`); `KeysSound` (`RevokedKeysRefused`, `RevocationKept`, `KeyOpensItsTenant`) |
| `sessions` | two concurrent callers of the web, mobile or desktop client; three token pairs, clock to 2 half seconds; a broken connection, a sign-out, a reset, or a reset form submitted twice against one caller | `HeldTokenLive`; `EndedForGood` (`TypeOK`, `DeniedToTheEnd`, `ResetCutsOff`); `CallsReturn` |
| `travel_desk` | two overlapping calls on three fares of two offers with up to two faults or ticks, or up to three hotel tools over seven stocks with unusable fields, rooms without a key and hotels without a room | `OrdersTrue` (`TypeOK`, `OrderedOnce`, `BookedWhatWasAsked`, `CancelledMeansCancelled`, `AttemptsBounded`, `ShownBookable`); `HotelAnswersTrue` (`HotelTypeOK`, `FromPriceOffered`, `CountTrue`, `RateCurrent`, `ReadingsAgree`); `DesksAnswer` (`CallsEnd`, `DeskAnswers`) |
| `back_office` | three calls of three sessions of two tenants; scenarios for drafts, postings, statements, reconciliations and reports, with amounts on both sides of each rounding and each boundary; two retries | `BooksTrue` (`TypeOK`, `BooksBacked`, `VouchersBalance`, `DraftsKept`); `ReportsComplete` (`AgingComplete`, `TrialInBalance`, `ReconciliationComplete`, `StatementAdds`); `ReportsOfTurn` |
| `tenant_services` | two tenants, two turns at once and up to four in all, two administrators; windows of 1 and 2 ticks, a day of 4, one cached registry, four built. A behaviour is about the windows, the settings, the registries with a cancelled turn, a failing close and a shutdown, or the credentials: rows in order, of an old key, copied from another tenant or provider, under NullKMS, or with a misconfigured provider of keys, while one is replaced and one read fails | `QuotasHeld` (`TypeOK`, `RateHeld`, `OvershootBounded`); `RegistriesSound` (`RegistriesAccounted`, `OwnCredentials`); `OthersKept` |
| `workspace` | two tenants, two requests at once; up to four rejections with a fault and a restart, a reader against three rows that may share their time, up to two enquiries, with or without a session, with four patches or three promotions, one session with three titles and appends | `ListingsTrue` (`LogSound`: `FloodBounded`, `ReadersComplete`; `ListedAsMeant`); `RecordsSound` (`TypeOK`, `DatesOrdered`, `PromotedOnce`, `MessagesDense`); `RecordsKept` (`TerminalKept`, `OwnRecordsOnly`, `TitleKept`) |

The bounds are enough for the races in question: each race needs two actors
on one row, job, context, token or session and one event (a tick, a retry, a
crash, a cut, a patch) between two of their steps, and every bound leaves room
for one such event before, between and after. Where a module has several topics
that do not touch each other's state, an instance chooses one (a scenario, a
workload or a budget) so that each gets the larger bounds. `BufferCap` is above
what an instance can produce unless a run is about the cap. `CHECK_DEADLOCK
FALSE` is given because all of these systems may stop: requests finish, clients
stop sending.

Fairness is weak fairness of the code's own tasks: a step of a call, turn,
worker or client that stays possible is taken, because the event loop runs
every ready task and timeouts fire. Time advances in BrowserRunner. Nothing is
assumed of users, of the model provider's choice of reply, of vendors, of
cancellations, crashes, stops, cuts or restarts; `JobsSettle` excepts jobs that
went down with a worker, which the code does not recover.

Several properties carry an exception because the code gives no more: an
account may outlive an invite revoked while it was being accepted, dates are
validated on the row that was loaded, a second order is possible after a lost
answer. History variables (`excused`, `raced`, `overlapped`, `relinked`,
`forgotten`, `crossed`, `late`, `lost`, `abandoned`, ...) name exactly those
cases, so that any other way of breaking the property is still found.

## 4. What the texts say and the code does not keep

Some statements of docstrings, comments and contracts are refuted by the
models. Each is a definition, with the quotation in its comment, that no run
above lists. Three have configurations of their own
(`tlc -config <file> <MC module>`):

| Configuration | Property | What the code does | What it says |
|---|---|---|---|
| `ApprovalsFinality.cfg` | `ResolvedIsFinal` | the COMMIT is `UPDATE ... WHERE id`, so a decision taken on an old image overwrites a status another request or the sweep has set | "Guard against double-resolution" |
| `AgentTurnResume.cfg` | `GrantResumes` | approval ids contain the turn id and each `run_turn` mints a new one, so a grant sent with the next message is never found | "`approvals` resumes a previously paused turn" |
| `ChatStreamRerun.cfg` | `RunOnce` | a reconnect whose replay does not hold the final runs the message again | replay "without re-running the orchestrator" |

For the others, put the name in place of the invariants or properties of the
module's configuration:

- Approvals `PendingIsClean`: a repeated `add_approval` that read an expired row
  writes only the columns that differ from it, so a decision committed in between
  leaves a pending row with a verdict.
- ToolInvocation `StartedAuditCloses`: cancellation inside a handler leaves the
  audit row STARTED.
- AgentTurn `TranscriptKept` (overlapping turns lose messages in
  `_sync_history`), `PauseRecorded` (a paused call is in no transcript),
  `ToolUsesAnswered` (a block beside a handoff, or one cut off by max_tokens,
  has no tool_result), `AlwaysEndsWithFinal` ("always ends with one FINAL event";
  only `DailyBudgetExceededError` is caught at the gate, and a failing read of
  the costs ends the turn without an event).
- ChatStream `RemembersAnswered` (with the Postgres store no request writes the
  transcript back, so the next turn starts empty), `OneActiveTurn` (with `PromptNotice = FALSE`), `SeenAscending` (with
  the Postgres store), `GapsTold` (with a small `BufferCap`, frames dropped from
  a full buffer are missed without a `replay_failed`).
- BrowserRunner `ActsOnce` and VisaPortal `BookedOnce`: every kind of job is
  retried after a timeout, also one that had taken effect. VisaPortal
  `AppointmentReal`: the portal's reaction to the confirmation is not looked
  at. BrowserPool `ContextsBounded`: idle contexts of other keys are not
  counted against `max_concurrency`; `AllInReach`: "close every context" misses
  those that an eviction popped and then failed to close.
- Accounts `EnabledOnlyAfterVerify` (a verification and a new set-up overlap),
  ApiKeys `SecondStepAsked` (`AuthService.sign_in` never looks at `totp_enabled`
  and issues tokens for the password alone, as a comment in `routes.py` knows,
  where `totp.py` says that it answers 401 `totp_required`) and `LiveKeysWork` (two keys with one prefix), Sessions
  `SkippedCookiesStayValid` (with `Setups <- WebOnly`: the rotation during a
  render has already spent the cookie that could not be rewritten).
- FlightBooking `NoDoubleBooking`, and `EveryFareBooked` (with
  `Fares <- TwoSearches`: the vendor numbers the offers of each answer from
  one); Hotels `BudgetKept`, `FromPriceReachable`, `BadHotelsAlone`,
  `NothingForFree`, `OffersBookable` (the reference of an offer may be the
  hotel's code, which is no rate's key).
- BackOffice `PostedOnce`, `CachedForLater`, `DuplicatesShown`,
  `ControlTotalAgrees`.
- TenantServices `NoUseAfterClose` (an evicted registry is closed under a
  running tool), `SettingsFollow` (nobody invalidates the resolver's cache),
  `HouseKeptApart` (a failing read leaves a tenant with the process's own
  credentials for as long as its registry is cached), `CredentialsFollow`
  (nothing tells the cache of a rotation or a deletion).
- Workspace `DuplicateClicksMintOne`, `AppendsLand`, `LinkMeansPromoted`
  (`session_id` is "set once the enquiry is promoted", and also by whoever
  creates or patches the enquiry); AuditLog `CountersExpire` (a failure between
  INCR and EXPIRE), `ExportCapped` (rows written between the count and the read),
  `FivePerMinute` ("caps writes at 5 per minute": twice that around the end of a
  window, and again when Redis fails over to memory), `PagesComplete` (ORDER BY
  `started_at` alone: of two rows of one time, two pages may both show the same).

Observed while modelling, without a property: the aging report's currency is
that of the last row where its docstring says "the first currency seen"; the VFS
driver's
`upload_document` never sends the `local_path` its handler requires;
`get_principal_from_api_key_or_jwt` is mounted on no route; no handler detects
the MFA and CAPTCHA conditions the driver's error map has classes for; the
worker started by the CLI has no credential resolver; `build_default_runtime`
builds the settings resolver, the rate limiter, the cost tracker and the tool
result cache after the orchestrator and does not hand them to it, so these gates
are inert in the default runtime.

## 5. Proofs

All theorems hold for every value of the constants that satisfies the
assumption named in the module that declares them (`ApprovalsAssumption`,
`AccountsAssumption`, `TenantAssumption`, ...); TLC evaluates these on every run.
They say what the code's configuration guarantees: limits and lifetimes are
natural numbers, sentinels are no members of the sets they are told apart from,
a portal's key is one of the pool's, finitely many turns run at once, rates are
positive, and the credentials a behaviour of TenantServices starts with are at
most a row per tenant and provider and were put where they are (`WasPut`: a row
that opens in its place holds what was stored for that place; rows of another key
or bound to another place may hold anything).

Each safety property below follows from an inductive invariant that TLC checked
on the run's instance before it was proved.

- **ApprovalGate_proofs**, on Approvals: `TypeCorrect`; `DecisionsInTime`;
  `DecisionsOwnedAndLogged` (tenant isolation and audit); `ListingsFresh`;
  `DecisionsAreWhole`. `DecidedInTime` is not inductive: a commit uses the
  deadline the request read, so `DeadlineInv` adds that the deadline read is
  never later than the row's (a repeated request only extends it, and nobody else
  moves it between that request's read and its flush) and that a staged decision
  was stamped before the deadline it read. `DecisionInv` adds
  that a request past its checks belongs to the owner and one past its COMMIT is
  in the history; `ListInv` that sweeps are stamped in the past. `WholeInv`
  adds, for `DecisionsWhole`, what a staged decision consists of, that a row
  that expired did so at a sweep after its deadline, and that a pending row and
  the image of one carry no verdict (`Clean`) unless a write crossed an
  `add_approval`; an UPDATE that overwrites another decision, and a flush of the
  changed columns, then still leave one whole decision (`StepTorn`, `StepWhole`).
  On ToolInvocation: `CallsTypeCorrect`; `Implementation`: ToolInvocation
  implements GatedCalls; `AuditIsTruthful`. `GateInv` says what is known at
  each await: past the gate a call is cleared, a call being refused has not run
  and is refused for the reason pending, runs stay within `MaxRuns`. Each step
  is then a step of GatedCalls or a stutter. `TruthInv` adds which audit status
  each program point can meet while no write was dropped, from which the
  trail's truth follows.
- **BrowserRunner_proofs**: `TypeCorrect`, `JobsExistOnce`, `RunsAreBounded`,
  `LateWorkIsBounded`, `AnswersAreTrue`, from one inductive invariant `Inv`:
  a job is in one place; a queued job has run at most as often as its attempt
  count says (`QueueInv`); a worker past the deadline check holds an attempt
  count that bounds the runs (`WorkerInv`); a driver that gave up did so after
  its deadline, and until then the attempt in a worker's hands has neither
  started nor acted since (`LateInv`), so that no retry can follow it; a stored
  success took effect and an answer is the stored result or a timeout
  (`JobInv`). The counting of places rests on lemmas on appending to and taking
  from the list. `Implementation` shows that BrowserRunner implements JobService
  under `Fate`: a job in a worker's hands has no result and is not lost
  (`HeldPending`), steps that move a job about leave its fate alone (`Stutter`),
  and every other step is one of JobService (`StepRefines`).

- **AgentTurn_proofs**: `TurnsTyped`, `AlwaysOneFinalLast`,
  `AlwaysNoRepeatedDeltas`, `AlwaysMidLoopAnswered`, from `TurnsInv`. For each
  turn it says that a turn ended by an unreadable budget has no event, that
  retries and attempts are counted alike (`Counted`); that the
  text sent so far is of earlier rounds, or of this round's attempt once its
  stream is over (`EventsOK`), without which `NoRepeatedDeltas` is not
  inductive; that while blocks are dispatched the loop's last message asked for
  those answered and those still to come (`MessagesOK`); and that the working
  copy ends with the loop's own messages after a part that is no longer than
  the transcript is now (`WorkingOK`). The last is what makes `_sync_history`,
  which cuts at the current length of a list that other turns may have
  lengthened, append only messages of its own turn, in order; with
  `PersistedOnce` (an agent of a turn persists once) `MidLoopAnswered` follows
  even for overlapping turns. `AloneTranscriptAlwaysKept`: a turn that met no
  other in its session leaves its whole transcript, in order and in one piece.
  `AloneInv` adds that meeting is mutual (`Mutual`), which is why no step of
  another turn can touch the session of a turn that is alone, and, per turn, how
  much of its transcript the session already holds at each point (`AloneOK`): the
  user's message and what the agents so far have persisted up to the last
  `_sync_history`, and nothing behind it.
- **VisaPortal_proofs**: `PoolAlwaysSafe` from `PoolInv`: a caller past
  `_get_or_create` has the context kept under its key (`Held`), a context's lock
  has one holder and is held while anybody waits (`Exclusive`, `Waiters`), a
  held context is marked in use or was released this moment, so no eviction can
  take it (`Guarded`), creation is alone under the pool lock (`OneAtPool`), and
  only the holder of that lock evicts, while what it has listed stays in the dict
  with no user until it is popped (`Evictions`), so that a context being closed
  or lost is in nobody's hands whatever becomes of its close.
  `WorkerImplementsPool`: every step of a worker and its handlers is a step of a
  caller of the pool or a stutter; hence `PoolSafeUnderWorker`.
- **SignIn_proofs**, accounts and keys: `MembershipAlways`, `ProofsAlwaysSound`, `KeysAlwaysSound`,
  and `AccountsAlone` for the accounts without keys. `AccountsInv` states what a
  request has read and may still rely on at each await (`Reads`): an acceptance
  under way has the address, tenant and role of its invite although the invite
  may have been revoked since, and a verification holds the secret it proved
  unless another set-up overlapped it. `Origins` ties every account to a sign-up
  or to the invite it names. `KeysInv` adds the same for keys (`KeyRows`,
  `CallReads`, `Admissions`).
- **SignIn_proofs**, sessions: `AlwaysEndedForGood` from `ApiInv`: a denylist entry lapses
  no earlier than its token although TTLs are cut to whole seconds (`Denials`),
  and a request between its read and its issue has the current password's
  generation or marks its pair as late (`Known`). `AlwaysHeldTokenLive` from
  `SharedInv`, for phones and desktops without a broken connection, a sign-out
  or a reset: one caller at a time has the shared refresh (`Sharers`), a pair
  that was issued and not yet stored is active and nobody else has it
  (`Arrivals`), and the stored token is active or is being replaced (`Stored`).
- **TravelDesk_proofs**: `OrdersAlwaysTrue`, for any number of concurrent calls:
  a fare is ordered twice only when an answer was lost or unreadable, or two
  bookings of it overlapped; an order has the offers that were asked for; what
  is told as cancelled is; attempts are bounded; and a fare that was shown can be
  booked until its entry lapses. `FlightInv` has what a call holds at each await
  (`Shapes`); that only fares of a search that has returned are booked
  (`AskedAfter`); that two calls with one fare in hand have excused it
  (`OneBooker`); and that a fare that was ordered is out of the cache, or the
  call that ordered it is about to drop it and nobody has it in hand for another
  order (`TakenOut`). `Filling` and `Showing` say for the tools what a search is
  still putting in the cache and that a fare shown lasts or was ordered.
- **TenantServices_proofs**: `RegistriesAlwaysSound`, `OthersAlwaysKept`,
  `RateAlwaysHeld`, `QuotasAlwaysHeld`. `RegistryInv`: the lock is held exactly by the turn that
  builds or evicts (`Locked`); while it builds, no registry of its tenant is
  cached (`OnePerTenant`); the cache is at most one over its capacity, and only
  during an eviction (`Roomy`); what is cached is open and not being closed, and
  what is open is cached, being closed or abandoned (`Accounted`), whether a
  close succeeds or not (`SafelyClosed`); a row that
  opens holds what was put there (`Stored`), and the drivers made so far come
  from what was offered since the build began (`Resolved`), which survives a
  rotation in the middle of it. `SettingsInv` types the rows. `RateInv`: the
  points kept of a tenant are the end of the log of turns let through, the log
  is in order of time, and what was dropped is older than the hour; counting the
  window then reduces to the size of an interval. `MeterInv` adds, for the budget,
  that what a metered tenant used today and what its turns past the gate may
  still use stay together below some budget and what all turns at once can use
  (`Spending`): the gate restores it because the total it read is below the
  budget, a record moves tokens from the one part to the other, and on a new day
  the total is 0, since no row is of the future. What `SumTokens` folds is shown
  in `SumAny` and `SumAdded`: by the least cardinality of a counterexample, the
  order in which a finite set is summed does not matter.
- **Workspace_proofs**, on Workspace: `RecordsAlwaysSound` and
  `RecordsAlwaysKept`. `RecordInv`
  says of every request between its read and its write what it still knows
  (`Known`): the row it read exists and still belongs to its tenant, a promotion
  found no session linked, and an append has read at most the next free sequence,
  unless the session was deleted since. With it each write keeps the dates, the
  links (`MintedThere`, and `LinkedOnce`: an enquiry created with a session keeps
  it and none is minted), the owners and the numbering, although no statement
  checks them again.
  On ChatStream: `FramesAlwaysDelivered` and `MemoryAlwaysKeeps`, for every list
  of messages, buffer cap, number of retries and restarts and length of a turn.
  `StreamInv`: the ids of a session are those of its log and the buffer is the
  log's end (`Logged`); a request that is served over a live link is the one
  being read (`Links`); the replay decision taken when a request was opened is
  still right when its generator first runs (`Opened`); what the client has and
  what is under way to it are frames of the log in ascending order (`Ordered`),
  without a silent gap (`Unbroken`); and on the in-memory log runs follow each
  other, so that a final the client has not seen is the last frame (`Finals`),
  which is why the tail of the replay decides whether the message runs again. The
  hypothesis of `GapsTold` and `FinishedNotRerun` that a cut request is noticed
  before its client is back (`PromptNotice`) is needed: without it a turn that
  runs on unseen puts frames between those of the reconnect. `SinceScan`
  shows that the scan of the buffer for ids above the last one seen is the end of
  the buffer, by the least index where the recursive function and its closed form
  would differ; each action is then one of a few generic steps (`QuietKeeps`,
  `ReplayStep`, `FrameStep`, ...).

Only model-checked:

- liveness (`TurnsEnd`, `CallsReturn`, `JobsSettle`, `StreamsEnd`,
  `DesksAnswer`), which the proof system does not cover;
- what folds and filters over data compute, which needs induction over data:
  Bookkeeping, BspStatement and Hotels, `PortalFaithful` (scripts folded over
  pages), `HotelAnswersTrue`;
- `ListingsTrue` (sorted and filtered rows) and the safety properties of
  BackOffice.

## 6. Abstractions

- Messages, tool inputs and outputs, prompts and HTTP bodies are reduced to
  what control depends on (kind, role, number of tool blocks, text or none).
- Clocks are coarse counters. Redis result keys outlive the waiting driver, so
  their expiry is left out. Heartbeat frames have no id and are left out.
- Audit sinks may lose a write silently, as `_best_effort` allows.
- ChatStream considers turns that pass the gates; refused ones record nothing.
- `chat_stream` lets the server notice a cut before the client is back
  (`PromptNotice`).
- A database statement is atomic, as READ COMMITTED makes it; between the
  statements of a request any other request may run. In Sessions, a database that
  fails between the two commits of a refresh (the old row revoked, the new one
  not yet stored) is left out; the client would have to sign in again.
- Vendors (Amadeus, TBO, Tally, the visa portal, Redis) are external: they
  refuse, lose, delay or answer as their drivers allow for.
- Hashes, codes and tokens are values that are equal or not; two values drawn at
  random may collide only where nothing in the table forbids it (key prefixes).
- Amounts are integers in the smallest unit a computation can tell apart; a
  file is a sequence of records, not of characters.

## 7. Plan

1. More theorems: `LogSound` of AuditLog.
2. The chat UI's hook on top of ChatStream, and AgentTurn under ChatStream.
3. The itinerary report, which collects structured blocks out of messages.

## 8. Not modelled

The model client and the prompts; application wiring, CLIs, metrics, logging,
migrations and deployment; schemas without behaviour; tool handlers that only
pass their arguments to a driver; the itinerary report; the passenger
resolver's upsert and finders, which nothing calls; the tool result cache, which
is never consulted; the web, desktop, mobile and marketing user interfaces
except their session handling; the chat UI hook; and the worker service, which is
an empty package. `PROJECT.json` lists each with its reason.
