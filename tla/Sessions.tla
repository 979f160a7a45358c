------------------------------ MODULE Sessions ------------------------------
(***************************************************************************)
(* Signed-in sessions: the token endpoints of the API (auth_inhouse:       *)
(* sign_in, refresh, sign_out, /me, the password reset with the store of   *)
(* its links in verification.py, and revocation.py)                        *)
(* together with the client libraries that hold the tokens                 *)
(* (apps/web/lib/auth.ts, apps/mobile/lib/auth.tsx,                        *)
(* apps/desktop/src/auth/VoyagentAuthClient.ts).                           *)
(*                                                                         *)
(* One user has one client with several concurrent callers.  A pair is an  *)
(* access token and a refresh token issued together.  The clock counts     *)
(* half seconds, so that int(time.time()) loses something.                 *)
(***************************************************************************)
EXTENDS Naturals, FiniteSets

CONSTANTS
    Callers,        \* concurrent calls into the client library
    Submits,        \* submissions of the form behind a reset link
    AccessTtl, RefreshTtl, Skew,  \* in half seconds; Skew is SKEW_MS
    ResetTtl,                     \* password_reset_ttl_seconds, in half seconds
    Setups,         \* bound: client library, with the callers, submissions and
                    \* disturbances there are; each disturbance happens once
    MaxPairs, MaxClock              \* bounds

Kinds == {"web", "mobile", "desktop"}

ASSUME SessionsAssumption ==
    /\ Setups \subseteq Kinds \X SUBSET ({"signout", "break"} \cup Callers \cup Submits)
    /\ AccessTtl \in Nat /\ RefreshTtl \in Nat /\ Skew \in Nat /\ ResetTtl \in Nat
    /\ MaxPairs \in Nat \ {0} /\ MaxClock \in Nat

VARIABLES
    kind,       \* which client library this behaviour is about
    traffic,    \* who and what disturbs this behaviour, never changed
    pair,       \* auth_refresh_tokens, with the access token issued along
    denied,     \* when the denylist key of an access token lapses, 0 if unset
    password,   \* how often the password was set
    link,       \* when the stored reset token lapses, 0 if there is none
    resetting,  \* progress of each POST /auth/reset-password
    srv,        \* the API's side of each caller's request
    cl,         \* the library's side of each call
    store,      \* the tokens the client keeps
    inflight,   \* the callers sharing the refresh under way (refreshInFlight)
    clock,
    resets,     \* history: completed resets
    faulted     \* history: a call lost its connection, or signed out

sessionVars == <<kind, traffic, pair, denied, password, link, resetting, srv, cl, store,
                 inflight, clock, resets, faulted>>
setup == <<kind, traffic>>
server == <<pair, denied, password, link, resetting, resets>>

Pairs == 1 .. MaxPairs
Sec(t) == t \div 2

NoPair == [state |-> "none", aexp |-> 0, rexp |-> 0, pw |-> 0, late |-> FALSE]
Quiet == [at |-> "idle", tok |-> 0, acc |-> 0, pw |-> 0, epoch |-> 0,
          late |-> FALSE, out |-> 0]
Free == [at |-> "idle", op |-> "none", acc |-> 0, rt |-> 0]
Nothing == [at |-> 0, rt |-> 0]

\* issue_access_token and mint_refresh_token.
Fresh(pw, late) == [state |-> "active", aexp |-> Sec(clock + AccessTtl),
                    rexp |-> clock + RefreshTtl, pw |-> pw, late |-> late]

SessionsInit ==
    /\ \E s \in Setups : kind = s[1] /\ traffic = s[2]
    /\ clock = 0
    /\ pair = [p \in Pairs |-> IF p = 1 THEN Fresh(1, FALSE) ELSE NoPair]
    /\ denied = [p \in Pairs |-> 0]
    /\ password = 1 /\ link = 0 /\ resetting = [r \in Submits |-> "no"] /\ resets = 0
    /\ srv = [c \in Callers |-> Quiet]
    /\ cl = [c \in Callers |-> Free]
    /\ store = [at |-> 1, rt |-> 1]
    /\ inflight = {} /\ faulted = FALSE

-----------------------------------------------------------------------------
(* The API.  Each await of a handler that reads or commits is a step.      *)

Answer(c, p) == srv' = [srv EXCEPT ![c].at = "answered", ![c].out = p]

\* AuthService.refresh: find_active.
RefreshRead(c) ==
    LET row == pair[srv[c].tok] IN
    /\ srv[c].at = "refresh"
    /\ IF row.state = "active" /\ row.rexp > clock
       THEN srv' = [srv EXCEPT ![c].at = "rotate", ![c].pw = row.pw,
                               ![c].late = row.late, ![c].epoch = resets]
       ELSE Answer(c, 0)
    /\ UNCHANGED <<setup, server, cl, store, inflight, clock, faulted>>

\* The presented token is revoked before its replacement is minted.
Rotate(c) ==
    /\ srv[c].at = "rotate"
    /\ pair' = [pair EXCEPT ![srv[c].tok].state = "revoked"]
    /\ srv' = [srv EXCEPT ![c].at = "issue"]
    /\ UNCHANGED <<setup, denied, password, link, resetting, resets, cl, store, inflight,
                   clock, faulted>>

\* _issue_pair_for_user.
Issue(c) ==
    /\ srv[c].at = "issue"
    /\ \E p \in Pairs :
         /\ pair[p] = NoPair
         /\ \A q \in Pairs : q < p => pair[q] # NoPair
         /\ pair' = [pair EXCEPT ![p] = Fresh(srv[c].pw,
                                              srv[c].late \/ srv[c].epoch # resets)]
         /\ Answer(c, p)
    /\ UNCHANGED <<setup, denied, password, link, resetting, resets, cl, store, inflight,
                   clock, faulted>>

\* AuthService.sign_in: the password typed is checked against the row read.
SignInRead(c) ==
    /\ srv[c].at = "signin"
    /\ IF srv[c].pw = password
       THEN srv' = [srv EXCEPT ![c].at = "issue", ![c].epoch = resets]
       ELSE Answer(c, 0)
    /\ UNCHANGED <<setup, server, cl, store, inflight, clock, faulted>>

\* AuthService.sign_out, first half: revoke the refresh token; errors are
\* swallowed.
SignOutRefresh(c) ==
    /\ srv[c].at = "signout"
    /\ \/ /\ srv[c].tok # 0
          /\ pair' = [pair EXCEPT ![srv[c].tok].state = "revoked"]
       \/ UNCHANGED pair
    /\ srv' = [srv EXCEPT ![c].at = "deny"]
    /\ UNCHANGED <<setup, denied, password, link, resetting, resets, cl, store, inflight,
                   clock, faulted>>

\* verify_access_token: PyJWT refuses a token at its expiry.
Valid(p) == p # 0 /\ 2 * pair[p].aexp > clock

(* Mutant of Lapse: the remaining time, cut to whole seconds.              *)
LapseCut(p) == clock + 2 * ((2 * pair[p].aexp - clock) \div 2)

\* RedisRevocationList.revoke: a key with the remaining whole seconds as TTL.
Lapse(p) == clock + 2 * (pair[p].aexp - Sec(clock))

\* Second half: put the access token on the denylist, unless it has expired,
\* has no whole second left, or Redis fails.
SignOutAccess(c) ==
    LET p == srv[c].acc IN
    /\ srv[c].at = "deny"
    /\ \/ /\ Valid(p) /\ pair[p].aexp > Sec(clock)
          /\ denied' = [denied EXCEPT ![p] = Lapse(p)]
       \/ UNCHANGED denied
    /\ Answer(c, 0)
    /\ UNCHANGED <<setup, pair, password, link, resetting, resets, cl, store, inflight,
                   clock, faulted>>

Revoked(p) == denied[p] > clock

\* get_current_principal and /me.  The denylist fails open.
Me(c) ==
    LET p == srv[c].acc IN
    /\ srv[c].at = "me"
    /\ \/ Valid(p) /\ Answer(c, p)
       \/ (Valid(p) => Revoked(p)) /\ Answer(c, 0)
    /\ UNCHANGED <<setup, server, cl, store, inflight, clock, faulted>>

\* request_password_reset: a token is stored and its link mailed, once.
RequestReset ==
    /\ Submits \cap traffic # {} /\ link = 0 /\ \A r \in Submits : resetting[r] = "no"
    /\ link' = clock + ResetTtl
    /\ UNCHANGED <<setup, pair, denied, password, resetting, resets, srv, cl, store,
                   inflight, clock, faulted>>

Reset(r, from, to) == resetting[r] = from /\ resetting' = [resetting EXCEPT ![r] = to]

\* take: GET, and a DELETE that may fail.  Two submissions may both have got
\* the token before one deletes it.
TakeGet(r) ==
    /\ r \in traffic /\ Reset(r, "no", "found") /\ link > clock
    /\ UNCHANGED <<setup, pair, denied, password, link, resets, srv, cl, store, inflight,
                   clock, faulted>>

TakeDelete(r) ==
    /\ Reset(r, "found", "taken")
    /\ link' = 0 \/ UNCHANGED link
    /\ UNCHANGED <<setup, pair, denied, password, resets, srv, cl, store, inflight, clock,
                   faulted>>

\* reset_password: the new hash, then every active refresh token of the user is
\* revoked.
ResetHash(r) ==
    /\ Reset(r, "taken", "hashed")
    /\ password' = password + 1
    /\ UNCHANGED <<setup, pair, denied, link, resets, srv, cl, store, inflight, clock, faulted>>

ResetRevokeAll(r) ==
    /\ Reset(r, "hashed", "done")
    /\ pair' = [p \in Pairs |-> IF pair[p].state = "active"
                                THEN [pair[p] EXCEPT !.state = "revoked"]
                                ELSE pair[p]]
    /\ resets' = resets + 1
    /\ UNCHANGED <<setup, denied, password, link, srv, cl, store, inflight, clock, faulted>>

-----------------------------------------------------------------------------
(* The client libraries.  cl[c].at is where a call waits.                  *)

\* jwtExpMs(token) - SKEW_MS > Date.now().
Usable(p) == p # 0 /\ 2 * pair[p].aexp > clock + Skew

At(c, stage) == cl[c].at = stage
Move(c, stage) == cl' = [cl EXCEPT ![c].at = stage]
Return(c) == cl' = [cl EXCEPT ![c] = Free]

Post(c, request) == srv[c] = Quiet /\ srv' = [srv EXCEPT ![c] = request]

\* getAccessToken ("token"), or start-up with a look at /me ("boot": init of
\* the desktop, hydrate of the phone, getCurrentUser of the web).
Call(c, op) ==
    /\ At(c, "idle") /\ srv[c] = Quiet
    /\ op = "token" => kind # "web"
    /\ LET next == IF ~Usable(store.at) THEN "refresh"
                   ELSE IF op = "boot" THEN "me" ELSE "idle"
       IN cl' = [cl EXCEPT ![c] = IF next = "idle" THEN Free
                                  ELSE [at |-> next, op |-> op,
                                        acc |-> store.at, rt |-> store.rt]]
    /\ UNCHANGED <<setup, server, srv, store, inflight, clock, faulted>>

\* A caller without a token at the end of a start-up clears what is stored;
\* the web cannot while it renders a page.
Empty(c) ==
    \/ cl[c].op # "token" /\ store' = Nothing
    \/ (kind = "web" \/ cl[c].op = "token") /\ UNCHANGED store

\* refresh: callers of the phone and the desktop share one request; the web
\* sends the token that was in its cookies when the call began.
JoinRefresh(c) ==
    /\ At(c, "refresh") /\ kind # "web"
    /\ inflight # {}
    /\ inflight' = inflight \cup {c}
    /\ Move(c, "wait")
    /\ UNCHANGED <<setup, server, srv, store, clock, faulted>>

NothingToRefresh(c) ==
    /\ At(c, "refresh")
    /\ IF kind = "web" THEN cl[c].rt = 0 ELSE inflight = {} /\ store.rt = 0
    /\ Empty(c)
    /\ Return(c)
    /\ UNCHANGED <<setup, server, srv, inflight, clock, faulted>>

(* Mutant of PostRefresh: a refresh under way is not waited for.           *)
PostRefreshAlone(c) ==
    LET rt == IF kind = "web" THEN cl[c].rt ELSE store.rt IN
    /\ At(c, "refresh")
    /\ rt # 0
    /\ Post(c, [Quiet EXCEPT !.at = "refresh", !.tok = rt])
    /\ inflight' = IF kind = "web" THEN inflight ELSE {c}
    /\ Move(c, "posted")
    /\ UNCHANGED <<setup, server, store, clock, faulted>>

PostRefresh(c) ==
    LET rt == IF kind = "web" THEN cl[c].rt ELSE store.rt IN
    /\ At(c, "refresh")
    /\ kind # "web" => inflight = {}
    /\ rt # 0
    /\ Post(c, [Quiet EXCEPT !.at = "refresh", !.tok = rt])
    /\ inflight' = IF kind = "web" THEN inflight ELSE {c}
    /\ Move(c, "posted")
    /\ UNCHANGED <<setup, server, store, clock, faulted>>

(* Mutant of Settle: the caller that sent the request resumes alone.       *)
SettleSender(c, p) ==
    /\ cl' = [cl EXCEPT ![c] = IF cl[c].op # "token" /\ p # 0
                               THEN [cl[c] EXCEPT !.at = "me", !.acc = p, !.op = "reboot"]
                               ELSE Free]
    /\ inflight' = {}

\* All callers that share the refresh get its result p (0 for null): start-ups
\* go on to /me or clear the store, the others return.
Settle(c, p) ==
    LET all == IF kind = "web" THEN {c} ELSE inflight
        boots == {d \in all : cl[d].op # "token"}
    IN /\ cl' = [d \in Callers |->
                   IF d \notin all THEN cl[d]
                   ELSE IF d \in boots /\ p # 0
                        THEN [cl[d] EXCEPT !.at = "me", !.acc = p,
                                           !.op = "reboot"]
                        ELSE Free]
       /\ inflight' = inflight \ all

\* The answer is there: srv[c] is free again.
Take(c) == srv[c].at = "answered" /\ srv' = [srv EXCEPT ![c] = Quiet]

\* The desktop clears its session on a refusal; then, as on the phone and the
\* web, so does a start-up among the callers.
RefreshRefused(c) ==
    LET all == IF kind = "web" THEN {c} ELSE inflight
        boots == {d \in all : cl[d].op # "token"}
    IN /\ At(c, "posted") /\ Take(c) /\ srv[c].out = 0
       /\ Settle(c, 0)
       /\ \/ (kind = "desktop" \/ boots # {}) /\ store' = Nothing
          \/ (kind = "web" \/ (kind = "mobile" /\ boots = {})) /\ UNCHANGED store
       /\ UNCHANGED <<setup, server, clock, faulted>>

\* Success.  The desktop assigns the session in one step; the web sets both
\* cookies, or neither while it renders; the phone writes one key after the
\* other and keeps the refresh in flight until both are written.
RefreshGranted(c) ==
    LET p == srv[c].out IN
    /\ At(c, "posted") /\ Take(c) /\ p # 0
    /\ \/ /\ kind \in {"desktop", "web"}
          /\ store' = [at |-> p, rt |-> p]
          /\ Settle(c, p)
       \/ /\ kind = "web"
          /\ UNCHANGED store
          /\ Settle(c, p)
       \/ /\ kind = "mobile"
          /\ store' = [store EXCEPT !.at = p]
          /\ cl' = [cl EXCEPT ![c].at = "persist", ![c].rt = p]
          /\ UNCHANGED inflight
    /\ UNCHANGED <<setup, server, clock, faulted>>

PersistRefresh(c) ==
    LET p == cl[c].rt IN
    /\ At(c, "persist")
    /\ store' = [store EXCEPT !.rt = p]
    /\ IF c \in inflight THEN Settle(c, p) ELSE Return(c) /\ UNCHANGED inflight
    /\ UNCHANGED <<setup, server, srv, clock, faulted>>

\* fetchMe, and what each library does about a refusal.
PostMe(c) ==
    /\ At(c, "me")
    /\ Post(c, [Quiet EXCEPT !.at = "me", !.acc = cl[c].acc])
    /\ Move(c, "asked")
    /\ UNCHANGED <<setup, server, store, inflight, clock, faulted>>

MeAnswered(c) ==
    /\ At(c, "asked") /\ Take(c)
    /\ IF srv[c].out # 0 THEN Return(c) /\ UNCHANGED store
       ELSE IF kind # "mobile" /\ cl[c].op = "boot"
            THEN Move(c, "refresh") /\ UNCHANGED store
            ELSE Empty(c) /\ Return(c)
    /\ UNCHANGED <<setup, server, inflight, clock, faulted>>

\* The UI offers sign-in to a user without a session.
AskSignIn(c, pw) ==
    /\ At(c, "idle") /\ store = Nothing
    /\ Post(c, [Quiet EXCEPT !.at = "signin", !.pw = pw])
    /\ cl' = [cl EXCEPT ![c] = [Free EXCEPT !.at = "signing", !.op = "token"]]
    /\ UNCHANGED <<setup, server, store, inflight, clock, faulted>>

SignInAnswered(c) ==
    LET p == srv[c].out IN
    /\ At(c, "signing") /\ Take(c)
    /\ IF p = 0 THEN Return(c) /\ UNCHANGED store
       ELSE IF kind = "mobile"
            THEN /\ store' = [store EXCEPT !.at = p]
                 /\ cl' = [cl EXCEPT ![c].at = "persist", ![c].rt = p]
            ELSE store' = [at |-> p, rt |-> p] /\ Return(c)
    /\ UNCHANGED <<setup, server, inflight, clock, faulted>>

SignOut(c) ==
    /\ At(c, "idle") /\ store # Nothing /\ "signout" \in traffic /\ ~faulted
    /\ Post(c, [Quiet EXCEPT !.at = "signout", !.tok = store.rt, !.acc = store.at])
    /\ cl' = [cl EXCEPT ![c] = [Free EXCEPT !.at = "leaving"]]
    /\ faulted' = TRUE
    /\ UNCHANGED <<setup, server, store, inflight, clock>>

\* Answered or not, what is stored is cleared.
SignedOut(c) ==
    /\ At(c, "leaving") /\ Take(c)
    /\ store' = Nothing
    /\ Return(c)
    /\ UNCHANGED <<setup, server, inflight, clock, faulted>>

\* The connection breaks: the call sees status 0 or an exception, the API
\* finishes what it began.
Abandon(c) ==
    /\ "break" \in traffic /\ ~faulted
    /\ cl[c].at \in {"posted", "asked", "signing", "leaving"}
    /\ faulted' = TRUE
    /\ srv' = [srv EXCEPT ![c] = IF srv[c].at = "answered" THEN Quiet ELSE srv[c]]
    /\ \/ /\ At(c, "posted") /\ Settle(c, 0)
          /\ LET all == IF kind = "web" THEN {c} ELSE inflight
                 boots == {d \in all : cl[d].op # "token"}
             IN \/ boots # {} /\ store' = Nothing
                \/ (kind = "web" \/ boots = {}) /\ UNCHANGED store
       \/ /\ At(c, "asked") /\ UNCHANGED inflight
          /\ IF kind = "web" /\ cl[c].op = "boot"
             THEN Move(c, "refresh") /\ UNCHANGED store
             ELSE Empty(c) /\ Return(c)
       \/ At(c, "signing") /\ Return(c) /\ UNCHANGED <<store, inflight>>
       \/ At(c, "leaving") /\ store' = Nothing /\ Return(c) /\ UNCHANGED inflight
    /\ UNCHANGED <<setup, server, clock>>

\* The answer to a call that was given up is dropped.
Orphan(c) ==
    /\ srv[c].at = "answered"
    /\ cl[c].at \notin {"posted", "asked", "signing", "leaving"}
    /\ srv' = [srv EXCEPT ![c] = Quiet]
    /\ UNCHANGED <<setup, server, cl, store, inflight, clock, faulted>>

ClockTicks ==
    /\ clock < MaxClock
    /\ clock' = clock + 1
    /\ UNCHANGED <<setup, server, srv, cl, store, inflight, faulted>>

-----------------------------------------------------------------------------
Api(c) ==
    \/ RefreshRead(c) \/ Rotate(c) \/ Issue(c) \/ SignInRead(c)
    \/ SignOutRefresh(c) \/ SignOutAccess(c) \/ Me(c)

Client(c) ==
    \/ JoinRefresh(c) \/ NothingToRefresh(c) \/ PostRefresh(c)
    \/ RefreshRefused(c) \/ RefreshGranted(c) \/ PersistRefresh(c)
    \/ PostMe(c) \/ MeAnswered(c) \/ SignInAnswered(c) \/ SignedOut(c) \/ Orphan(c)

Start(c) ==
    /\ c \in traffic
    /\ \/ Call(c, "token") \/ Call(c, "boot") \/ SignOut(c)
       \/ \E pw \in 1 .. password : AskSignIn(c, pw)

SessionsNext ==
    \/ \E c \in Callers : Api(c) \/ Client(c) \/ Start(c) \/ Abandon(c)
    \/ RequestReset
    \/ \E r \in Submits : TakeGet(r) \/ TakeDelete(r) \/ ResetHash(r) \/ ResetRevokeAll(r)
    \/ ClockTicks

\* Handlers and continuations run; calls, faults, mails and time are free.
SessionsSpec ==
    /\ SessionsInit /\ [][SessionsNext]_sessionVars
    /\ \A c \in Callers : WF_sessionVars(Api(c)) /\ WF_sessionVars(Client(c))

-----------------------------------------------------------------------------
(* Properties.                                                             *)

PairRow == [state: {"none", "active", "revoked"}, aexp: Nat, rexp: Nat, pw: Nat,
            late: BOOLEAN]
SrvRow == [at: {"idle", "refresh", "rotate", "issue", "signin", "signout", "deny", "me",
                "answered"},
           tok: 0..MaxPairs, acc: 0..MaxPairs, pw: Nat, epoch: Nat, late: BOOLEAN,
           out: 0..MaxPairs]
ClRow == [at: {"idle", "refresh", "wait", "posted", "persist", "me", "asked", "signing",
               "leaving"},
          op: {"none", "token", "boot", "reboot"}, acc: 0..MaxPairs, rt: 0..MaxPairs]

\* Every variable holds a value of its type.
SessionsTyped ==
    /\ <<kind, traffic>> \in Setups
    /\ pair \in [Pairs -> PairRow]
    /\ denied \in [Pairs -> Nat]
    /\ password \in Nat /\ link \in Nat /\ resets \in Nat
    /\ resetting \in [Submits -> {"no", "found", "taken", "hashed", "done"}]
    /\ srv \in [Callers -> SrvRow]
    /\ cl \in [Callers -> ClRow]
    /\ store \in [at: 0..MaxPairs, rt: 0..MaxPairs]
    /\ inflight \subseteq Callers /\ clock \in Nat /\ faulted \in BOOLEAN

\* Rotation never strands a phone or a desktop: while no refresh is under way,
\* the refresh token it keeps has not been revoked, also while others sign in,
\* unless a connection broke, it signed out, or the password was reset.
HeldTokenLive ==
    kind # "web" /\ ~faulted /\ password = 1 /\ inflight = {} =>
        store.rt = 0 \/ pair[store.rt].state = "active"

\* The comment of getCurrentUser: cookies that could not be rewritten during a
\* render are still valid, so the next request can refresh with them.
SkippedCookiesStayValid ==
    kind = "web" /\ ~faulted /\ password = 1
        /\ (\A c \in Callers : cl[c] = Free /\ srv[c] = Quiet) =>
        store.rt = 0 \/ pair[store.rt].state = "active"

\* A denylist key lives at least as long as its access token is valid, so the
\* token never comes back to life, although the TTL is cut to whole seconds.
DeniedToTheEnd ==
    \A p \in Pairs : denied[p] # 0 /\ Valid(p) => Revoked(p)

\* A reset ends the sessions of the old password, also if the form is submitted
\* twice: when none is between its two writes, an
\* active pair goes back to a sign-in with the current password, or to a
\* request that was already being served when a reset finished.
ResetCutsOff ==
    (\A r \in Submits : resetting[r] # "hashed") =>
        \A p \in Pairs : pair[p].state = "active" =>
            pair[p].pw = password \/ pair[p].late

\* What was ended stays ended: a signed-out access token, and the sessions of
\* a password that was reset.
EndedForGood == SessionsTyped /\ DeniedToTheEnd /\ ResetCutsOff

\* Every call into the library returns, sharers of a refresh and callers whose
\* connection broke included (as long as the bound leaves pairs to issue).
CallsReturn ==
    \A c \in Callers :
        cl[c] # Free ~> cl[c] = Free \/ \A p \in Pairs : pair[p] # NoPair
=============================================================================
