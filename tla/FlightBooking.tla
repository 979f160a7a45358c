--------------------------- MODULE FlightBooking ---------------------------
(***************************************************************************)
(* The Amadeus driver (drivers/amadeus: driver.py, client.py, auth.py,     *)
(* errors.py) with the offer cache (offer_cache.py) and the passenger      *)
(* resolver it is given: search, create, cancel and read, each over the    *)
(* retrying request executor and the shared OAuth token.                   *)
(*                                                                         *)
(* A search s returns offers <<s, 1>>, <<s, 2>>, ...  Amadeus numbers the  *)
(* offers of each answer from one, so the id the vendor gives to <<s, n>>  *)
(* is n.  Every offer yields a fare per traveller, which create is called  *)
(* with.                                                                   *)
(***************************************************************************)
EXTENDS Naturals, FiniteSets

CONSTANTS
    Calls,          \* concurrent calls into the driver
    Fares,          \* a fare is <<search, offer number, traveller>>
    MaxRetries,     \* AmadeusConfig.max_retries
    OfferTtl,       \* ticks an offer stays cached
    Lead,           \* ticks from the search to lastTicketingDateTime
    Threshold,      \* _REPRICE_THRESHOLD_SECONDS
    MaxOrders, MaxTokens,  \* bounds
    Budgets         \* how many calls, failures and ticks a behaviour may have

\* Calls, failures of the network, the vendor, its tokens and the cache, and
\* ticks of the clock.
Kinds == {"tick", "call", "lost", "refused", "token", "cache"}

ASSUME FlightAssumption ==
    /\ MaxRetries \in Nat /\ OfferTtl \in Nat \ {0}
    /\ Lead \in Nat /\ Threshold \in Nat
    /\ MaxOrders \in Nat /\ MaxTokens \in Nat
    /\ Budgets \subseteq [Kinds -> Nat]
    /\ Fares \subseteq Nat \X Nat \X Nat

VARIABLES
    call,       \* the calls in progress
    cache,      \* fare |-> when its entry lapses, 0 if absent
    quoted,     \* search |-> when it was answered
    token,      \* TokenManager._cached, 0 for None
    lock,       \* holder of TokenManager._lock, or "free"
    minted,     \* tokens the vendor has issued
    good,       \* tokens the vendor still accepts
    order,      \* the vendor's orders
    now,
    budget,     \* the calls, failures and ticks still to come
    \* history
    excused     \* fares for which a second order is not the cache's doing

vars == <<call, cache, quoted, token, lock, minted, good, order, now,
          budget, excused>>
vendor == <<minted, good, order>>

\* Each traveller of an offer has a fare of their own.
OfferOf(f) == <<f[1], f[2]>>
VendorId(o) == o[2]
Offers == {OfferOf(f) : f \in Fares}
Searches == {f[1] : f \in Fares}

Idle == [at |-> "idle", op |-> "none", req |-> "none", attempts |-> 0, tok |-> 0,
         fares |-> {}, todo |-> {}, offers |-> {}, stale |-> {},
         target |-> 0, result |-> "none"]
NoOrder == [state |-> "none", offers |-> {}, fares |-> {}]
OrderIds == 1 .. MaxOrders

Init ==
    /\ call = [c \in Calls |-> Idle]
    /\ cache = [f \in Fares |-> 0]
    /\ quoted = [s \in Searches |-> 0]
    /\ token = 0 /\ lock = "free" /\ minted = 0 /\ good = {}
    /\ order = [i \in OrderIds |-> NoOrder]
    /\ now = 1 /\ budget \in Budgets
    /\ excused = {}

\* One event of this kind, while there is one left.
Spend(k) == budget[k] > 0 /\ budget' = [budget EXCEPT ![k] = @ - 1]

-----------------------------------------------------------------------------
(* AmadeusClient._request: one attempt is token, send, and what follows.   *)

At(c, stage) == call[c].at = stage
Set(c, r) == call' = [call EXCEPT ![c] = r]
Goto(c, stage) == Set(c, [call[c] EXCEPT !.at = stage])

\* get_json, post_json and delete begin a request with its first attempt.
Request(r, kind) == [r EXCEPT !.at = "token", !.req = kind, !.attempts = 1]
Finish(r, result) == [Idle EXCEPT !.at = "done", !.op = r.op, !.fares = r.fares,
                                  !.target = r.target, !.result = result]

\* A driver error: create and search raise it; cancel's read-back swallows it.
Raise(r) == IF r.req = "read" /\ r.op = "cancel" THEN Finish(r, "ok")
            ELSE Finish(r, "error")

\* get_token: the cached token, or the lock and a refresh.
UseToken(c) ==
    /\ At(c, "token") /\ token # 0
    /\ Set(c, [call[c] EXCEPT !.at = "send", !.tok = token])
    /\ UNCHANGED <<cache, quoted, token, lock, vendor, now, budget, excused>>

LockToken(c) ==
    /\ At(c, "token") /\ token = 0 /\ lock = "free"
    /\ lock' = c
    /\ Goto(c, "refresh")
    /\ UNCHANGED <<cache, quoted, token, vendor, now, budget, excused>>

(* Mutant of RefreshToken: the lock is kept when the refresh fails.        *)
RefreshTokenKeepsLock(c) ==
    /\ At(c, "refresh")
    /\ \/ /\ minted < MaxTokens
          /\ minted' = minted + 1 /\ good' = good \cup {minted + 1}
          /\ token' = minted + 1 /\ lock' = "free"
          /\ Set(c, [call[c] EXCEPT !.at = "send", !.tok = minted + 1])
          /\ UNCHANGED budget
       \/ /\ Spend("token") /\ Set(c, Raise(call[c]))
          /\ UNCHANGED <<minted, good, token, lock>>
    /\ UNCHANGED <<cache, quoted, order, now, excused>>

\* _refresh_locked: a new token, or an error of the token endpoint.
RefreshToken(c) ==
    /\ At(c, "refresh")
    /\ lock' = "free"
    /\ \/ /\ minted < MaxTokens
          /\ minted' = minted + 1 /\ good' = good \cup {minted + 1}
          /\ token' = minted + 1
          /\ Set(c, [call[c] EXCEPT !.at = "send", !.tok = minted + 1])
          /\ UNCHANGED budget
       \/ /\ Spend("token") /\ Set(c, Raise(call[c]))
          /\ UNCHANGED <<minted, good, token>>
    /\ UNCHANGED <<cache, quoted, order, now, excused>>

ShouldRetry(r) == r.attempts <= MaxRetries

Again(r) == [r EXCEPT !.at = "token", !.attempts = r.attempts + 1]

\* What the vendor does with a request it accepts.
Handle(c) ==
    LET r == call[c] IN
    CASE r.req = "order" ->
           \E i \in OrderIds :
             /\ order[i] = NoOrder /\ \A j \in OrderIds : j < i => order[j] # NoOrder
             /\ order' = [order EXCEPT ![i] = [state |-> "live", offers |-> r.offers,
                                               fares |-> r.fares]]
      [] r.req = "delete" ->
             /\ order[r.target].state = "live"
             /\ order' = [order EXCEPT ![r.target].state = "cancelled"]
      [] OTHER -> UNCHANGED order

\* What the driver goes on with after a 2xx answer.
Continue(r) ==
    CASE r.req = "search" -> [r EXCEPT !.at = "fill", !.todo = {f \in Fares : f[1] = r.target}]
      [] r.req = "price" -> [r EXCEPT !.at = "reprice"]
      [] r.req = "order" -> [r EXCEPT !.at = "drop", !.todo = r.fares]
      [] r.req = "delete" -> Request(r, "read")
      [] r.req = "read" -> Finish(r, "ok")

SendOk(c) ==
    /\ At(c, "send") /\ call[c].tok \in good
    /\ call[c].req = "read" => order[call[c].target].state = "live"
    /\ Handle(c)
    /\ Set(c, Continue(call[c]))
    /\ quoted' = IF call[c].req = "search"
                 THEN [quoted EXCEPT ![call[c].target] = now] ELSE quoted
    /\ UNCHANGED <<cache, token, lock, minted, good, now, budget, excused>>

\* A timeout or a broken connection, before or after the vendor's work, and
\* 429, 503 and 504, which the vendor answers without working.
SendLost(c) ==
    LET r == call[c] IN
    /\ At(c, "send") /\ Spend("lost")
    /\ \/ /\ r.tok \in good /\ Handle(c)
          /\ excused' = IF r.req = "order" THEN excused \cup r.fares ELSE excused
       \/ UNCHANGED <<order, excused>>
    /\ Set(c, IF ShouldRetry(r) THEN Again(r) ELSE Raise(r))
    /\ UNCHANGED <<cache, quoted, token, lock, minted, good, now>>

\* 401: the first attempt drops the token and tries again.
SendUnauthorized(c) ==
    LET r == call[c] IN
    /\ At(c, "send") /\ r.tok \notin good
    /\ Set(c, IF r.attempts = 1 THEN [r EXCEPT !.at = "invalidate"] ELSE Raise(r))
    /\ UNCHANGED <<cache, quoted, token, lock, vendor, now, budget, excused>>

Invalidate(c) ==
    /\ At(c, "invalidate") /\ lock = "free"
    /\ token' = 0
    /\ Set(c, Again(call[c]))
    /\ UNCHANGED <<cache, quoted, lock, vendor, now, budget, excused>>

\* Any other error status; an order that is gone is not found.
SendRefused(c) ==
    LET r == call[c] IN
    /\ At(c, "send") /\ r.tok \in good
    /\ IF r.req \in {"delete", "read"} /\ order[r.target].state # "live"
       THEN UNCHANGED budget ELSE Spend("refused")
    /\ Set(c, Raise(r))
    /\ UNCHANGED <<cache, quoted, token, lock, vendor, now, excused>>

\* A 2xx whose body cannot be decoded or lacks the data: the work is done. (Of
\* the body of a DELETE only that it can be decoded is asked.)
SendGarbled(c) ==
    LET r == call[c] IN
    /\ At(c, "send") /\ r.tok \in good /\ Spend("refused")
    /\ Handle(c)
    /\ excused' = IF r.req = "order" THEN excused \cup r.fares ELSE excused
    /\ Set(c, Raise(r))
    /\ UNCHANGED <<cache, quoted, token, lock, minted, good, now>>

\* The vendor lets a token expire, or revokes it.
TokenDies(t) ==
    /\ t \in good /\ good' = good \ {t} /\ Spend("token")
    /\ UNCHANGED <<call, cache, quoted, token, lock, minted, order, now, excused>>

\* The cached token comes within the refresh buffer of its expiry.
TokenLapses ==
    /\ token # 0 /\ token' = 0 /\ Spend("token")
    /\ UNCHANGED <<call, cache, quoted, lock, vendor, now, excused>>

\* The fares of a list are taken in the order of their numbers.
Foremost(f, fares) ==
    /\ f \in fares
    /\ \A g \in fares :
         \/ f[1] < g[1]
         \/ f[1] = g[1] /\ f[2] < g[2]
         \/ f[1] = g[1] /\ f[2] = g[2] /\ f[3] <= g[3]

-----------------------------------------------------------------------------
(* AmadeusDriver.search.                                                   *)

Search(c, s) ==
    /\ At(c, "idle") /\ Spend("call")
    /\ quoted[s] = 0 /\ \A d \in Calls : call[d].op = "search" => call[d].target # s
    /\ Set(c, Request([Idle EXCEPT !.op = "search", !.target = s], "search"))
    /\ UNCHANGED <<cache, quoted, token, lock, vendor, now, excused>>

\* OfferCache.put for every fare; a failed put is logged and skipped.
Fill(c, f) ==
    /\ At(c, "fill") /\ Foremost(f, call[c].todo)
    /\ cache' = [cache EXCEPT ![f] = now + OfferTtl]
    /\ Set(c, [call[c] EXCEPT !.todo = @ \ {f}])
    /\ UNCHANGED <<quoted, token, lock, vendor, now, budget, excused>>

FillFails(c, f) ==
    /\ At(c, "fill") /\ Foremost(f, call[c].todo) /\ Spend("cache")
    /\ Set(c, [call[c] EXCEPT !.todo = @ \ {f}])
    /\ UNCHANGED <<cache, quoted, token, lock, vendor, now, excused>>

Filled(c) ==
    /\ At(c, "fill") /\ call[c].todo = {}
    /\ Set(c, Finish(call[c], "ok"))
    /\ UNCHANGED <<cache, quoted, token, lock, vendor, now, budget, excused>>

-----------------------------------------------------------------------------
(* AmadeusDriver.create.                                                   *)

Booking(d, f) == call[d].op = "create" /\ f \in call[d].fares /\ ~At(d, "done")

Returned(s) ==
    quoted[s] # 0 /\ \A d \in Calls : call[d].op = "search" => call[d].target # s

Create(c, fares) ==
    /\ At(c, "idle") /\ Spend("call")
    /\ fares # {} /\ \A f \in fares : Returned(f[1])
    /\ Set(c, [Idle EXCEPT !.at = "lookup", !.op = "create", !.fares = fares, !.todo = fares])
    \* overlapping bookings of one fare are beyond the cache
    /\ excused' = excused \cup {f \in fares : \E d \in Calls : Booking(d, f)}
    /\ UNCHANGED <<cache, quoted, token, lock, vendor, now>>

Cached(f) == cache[f] > now

\* Fares of one offer collapse: an offer whose vendor id was seen is skipped.
Collect(r, f) ==
    [r EXCEPT !.todo = @ \ {f},
              !.offers = IF \E o \in @ : VendorId(o) = VendorId(OfferOf(f))
                         THEN @ ELSE @ \cup {OfferOf(f)}]

Lookup(c, f) ==
    /\ At(c, "lookup") /\ f \in call[c].todo
    /\ Set(c, IF Cached(f) THEN Collect(call[c], f) ELSE Raise(call[c]))
    /\ UNCHANGED <<cache, quoted, token, lock, vendor, now, budget, excused>>

NeedsReprice(o) == quoted[o[1]] + Lead < now + Threshold

\* All offers are in hand: those close to their deadline go to pricing.
LookedUp(c) ==
    /\ At(c, "lookup") /\ call[c].todo = {}
    /\ Set(c, [call[c] EXCEPT !.at = "reprice",
                              !.stale = {o \in call[c].offers : NeedsReprice(o)}])
    /\ UNCHANGED <<cache, quoted, token, lock, vendor, now, budget, excused>>

Reprice(c, o) ==
    /\ At(c, "reprice") /\ o \in call[c].stale
    /\ Set(c, Request([call[c] EXCEPT !.stale = @ \ {o}], "price"))
    /\ UNCHANGED <<cache, quoted, token, lock, vendor, now, budget, excused>>

\* The passengers are resolved and made into travellers, then the order is
\* posted; one the tenant does not have, or without a date of birth, ends it.
PostOrder(c) ==
    /\ At(c, "reprice") /\ call[c].stale = {}
    /\ Set(c, Request(call[c], "order"))
    /\ UNCHANGED <<cache, quoted, token, lock, vendor, now, budget, excused>>

NoTravellers(c) ==
    /\ At(c, "reprice") /\ call[c].stale = {} /\ Spend("refused")
    /\ Set(c, Raise(call[c]))
    /\ UNCHANGED <<cache, quoted, token, lock, vendor, now, excused>>

(* Mutant of Drop: only one of the fares consumed is dropped.              *)
DropFirst(c, f) ==
    /\ At(c, "drop") /\ Foremost(f, call[c].todo)
    /\ cache' = [cache EXCEPT ![f] = 0]
    /\ Set(c, [call[c] EXCEPT !.todo = {}])
    /\ UNCHANGED <<quoted, token, lock, vendor, now, budget, excused>>

\* OfferCache.delete of every fare that was booked.
Drop(c, f) ==
    /\ At(c, "drop") /\ Foremost(f, call[c].todo)
    /\ cache' = [cache EXCEPT ![f] = 0]
    /\ Set(c, [call[c] EXCEPT !.todo = @ \ {f}])
    /\ UNCHANGED <<quoted, token, lock, vendor, now, budget, excused>>

DropFails(c, f) ==
    /\ At(c, "drop") /\ Foremost(f, call[c].todo) /\ Spend("cache")
    /\ Set(c, [call[c] EXCEPT !.todo = @ \ {f}])
    /\ excused' = excused \cup {f}
    /\ UNCHANGED <<cache, quoted, token, lock, vendor, now>>

Dropped(c) ==
    /\ At(c, "drop") /\ call[c].todo = {}
    /\ Set(c, Finish(call[c], "ok"))
    /\ UNCHANGED <<cache, quoted, token, lock, vendor, now, budget, excused>>

-----------------------------------------------------------------------------
(* AmadeusDriver.cancel: DELETE, then a read-back whose failure is hidden. *)

Cancel(c, i) ==
    /\ At(c, "idle") /\ Spend("call") /\ order[i] # NoOrder
    /\ Set(c, Request([Idle EXCEPT !.op = "cancel", !.target = i], "delete"))
    /\ UNCHANGED <<cache, quoted, token, lock, vendor, now, excused>>

Read(c, i) ==
    /\ At(c, "idle") /\ Spend("call") /\ order[i] # NoOrder
    /\ Set(c, Request([Idle EXCEPT !.op = "read", !.target = i], "read"))
    /\ UNCHANGED <<cache, quoted, token, lock, vendor, now, excused>>

\* The caller has the result.
Return(c) ==
    /\ At(c, "done")
    /\ Set(c, Idle)
    /\ UNCHANGED <<cache, quoted, token, lock, vendor, now, budget, excused>>

Tick ==
    /\ Spend("tick") /\ now' = now + 1
    /\ UNCHANGED <<call, cache, quoted, token, lock, vendor, excused>>

-----------------------------------------------------------------------------
Step(c) ==
    \/ UseToken(c) \/ LockToken(c) \/ RefreshToken(c)
    \/ SendOk(c) \/ SendLost(c) \/ SendUnauthorized(c) \/ SendRefused(c)
    \/ SendGarbled(c) \/ Invalidate(c)
    \/ \E f \in Fares : Fill(c, f) \/ FillFails(c, f) \/ Lookup(c, f)
                        \/ Drop(c, f) \/ DropFails(c, f)
    \/ Filled(c) \/ LookedUp(c) \/ PostOrder(c) \/ NoTravellers(c)
    \/ Dropped(c) \/ Return(c)
    \/ \E o \in Offers : Reprice(c, o)

Next ==
    \/ \E c \in Calls :
         \/ Step(c)
         \/ \E s \in Searches : Search(c, s)
         \/ \E fares \in SUBSET Fares : Create(c, fares)
         \/ \E i \in OrderIds : Cancel(c, i) \/ Read(c, i)
    \/ TokenLapses
    \/ \E t \in 1 .. MaxTokens : TokenDies(t)
    \/ Tick

\* A call that can go on does; callers, the vendor's tokens and time are free.
Spec == Init /\ [][Next]_vars /\ \A c \in Calls : WF_vars(Step(c))

-----------------------------------------------------------------------------
(* Properties.                                                             *)

\* Every variable holds a value of its type.
TypeOK ==
    /\ call \in [Calls -> [at: {"idle", "token", "refresh", "send", "invalidate", "fill",
                                "lookup", "reprice", "drop", "done"},
                           op: {"none", "search", "create", "cancel", "read"},
                           req: {"none", "search", "price", "order", "delete", "read"},
                           attempts: Nat, tok: 0 .. MaxTokens,
                           fares: SUBSET Fares, todo: SUBSET Fares,
                           offers: SUBSET Offers, stale: SUBSET Offers,
                           target: Nat,
                           result: {"none", "ok", "error"}]]
    /\ cache \in [Fares -> Nat] /\ quoted \in [Searches -> Nat]
    /\ token \in 0 .. MaxTokens /\ lock \in Calls \cup {"free"}
    /\ minted \in 0 .. MaxTokens /\ good \subseteq 1 .. MaxTokens
    /\ order \in [OrderIds -> [state: {"none", "live", "cancelled"},
                               offers: SUBSET Offers, fares: SUBSET Fares]]
    /\ now \in Nat /\ budget \in [Kinds -> Nat]
    /\ excused \subseteq Fares

\* A fare is ordered once: calling create again with it finds the cache empty,
\* unless the answer to an order was lost, the deletion from the cache failed,
\* or two calls with the fare overlapped.
OrderedOnce ==
    \A i, j \in OrderIds : i # j =>
        order[i].fares \cap order[j].fares \subseteq excused

\* What the comment after the booking says: submitting the same fares again
\* gives an error and never a second order.
NoDoubleBooking ==
    \A i, j \in OrderIds : i # j => order[i].fares \cap order[j].fares = {}

\* An order holds the offer of every fare it was made for, as long as the fares
\* come from one search.
BookedWhatWasAsked ==
    \A i \in OrderIds :
        (\A f, g \in order[i].fares : f[1] = g[1]) =>
            order[i].offers = {OfferOf(f) : f \in order[i].fares}

\* The same without the condition.
EveryFareBooked ==
    \A i \in OrderIds : order[i].offers = {OfferOf(f) : f \in order[i].fares}

\* A cancellation that returns a PNR has cancelled the order, although the
\* read-back of that PNR may have failed.
CancelledMeansCancelled ==
    \A c \in Calls : At(c, "done") /\ call[c].op = "cancel" /\ call[c].result = "ok" =>
        order[call[c].target].state = "cancelled"

\* No request is sent more often than the retries allow; one more attempt is
\* granted after a 401 even without retries.
AttemptsBounded ==
    \A c \in Calls : call[c].attempts <= (IF MaxRetries = 0 THEN 2 ELSE MaxRetries + 1)

\* Every call comes to an end, and no failure keeps the token lock from the
\* others (as long as the bounds leave tokens and orders).
CallsEnd ==
    \A c \in Calls : ~At(c, "idle") ~>
        At(c, "idle") \/ minted = MaxTokens \/ \A i \in OrderIds : order[i] # NoOrder
=============================================================================
