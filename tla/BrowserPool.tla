---------------------------- MODULE BrowserPool ----------------------------
(***************************************************************************)
(* BrowserPool (browser_runner browser_pool.py): browser contexts kept per  *)
(* (tenant, namespace) key.  Acquirers are coroutines of one event loop: a  *)
(* step runs from one await to the next.  The pool lock is held across the  *)
(* awaits of _get_or_create; a context's own lock serialises its users.     *)
(* (Worker, today's only caller, acquires one page at a time; the pool is   *)
(* written for several.)                                                    *)
(***************************************************************************)
EXTENDS Naturals, FiniteSets

CONSTANTS
    Acquirers,        \* callers of acquire
    Keys,             \* (tenant_id, namespace) pairs
    MaxConcurrency,   \* settings.max_concurrency
    IdleEviction,     \* settings.context_idle_eviction_seconds
    MaxMade,          \* bound on the contexts ever created
    MaxTime           \* bound on the clock

ASSUME BrowserPoolAssumption ==
    /\ Keys # {}
    /\ MaxConcurrency \in Nat \ {0}
    /\ IdleEviction \in Nat \ {0}
    /\ MaxMade \in Nat
    /\ MaxTime \in Nat

VARIABLES
    clock,       \* time.monotonic, coarse
    contexts,    \* self._contexts: key -> pooled context, 0 when absent
    pooled,      \* the _PooledContext records, by number
    made,        \* how many there are
    acquirer,    \* where each caller is, with its key and context
    stale,       \* the keys the holder of the pool lock has yet to evict
    closing,     \* the context whose close it awaits, 0 for none
    lost         \* open contexts that nothing refers to any more

evictVars == <<stale, closing, lost>>
vars == <<clock, contexts, pooled, made, acquirer, evictVars>>

Ids == 1..MaxMade

PCs == {"idle", "queued", "evicting", "creating", "waiting", "granted", "using", "failed"}

Pooled == [key: Keys, open: BOOLEAN, in_use: BOOLEAN, last_used: 0..MaxTime]

(* The shape of the pool: no context is last used in the future, and every  *)
(* reference to a context is to one that was made (browser_pool.py).        *)
TypeOK ==
    /\ clock \in 0..MaxTime
    /\ contexts \in [Keys -> 0..made]
    /\ made \in 0..MaxMade
    /\ pooled \in [1..made -> Pooled]
    /\ acquirer \in [Acquirers -> [pc: PCs, key: Keys, id: 0..made]]
    /\ stale \in SUBSET Keys /\ closing \in 0..made /\ lost \in SUBSET (1..made)

\* A caller that asks for nothing; its key does not matter.
AnyKey == CHOOSE k \in Keys : TRUE
Away == [pc |-> "idle", key |-> AnyKey, id |-> 0]

Init ==
    /\ clock = 0
    /\ contexts = [k \in Keys |-> 0]
    /\ pooled = [i \in {} |-> 0]
    /\ made = 0
    /\ acquirer = [a \in Acquirers |-> Away]
    /\ stale = {} /\ closing = 0 /\ lost = {}
-----------------------------------------------------------------------------
At(a, pc) == acquirer[a].pc = pc

(* Keys with a context in the pool, and those whose context is idle.        *)
Present == {k \in Keys : contexts[k] # 0}
Idle == {k \in Present : ~pooled[contexts[k]].in_use}

PoolLocked == \E a \in Acquirers : acquirer[a].pc \in {"evicting", "creating"}

ContextLocked(i) ==
    \E a \in Acquirers : acquirer[a].id = i /\ acquirer[a].pc \in {"waiting", "granted", "using"}

Acquire(a, k) ==
    /\ At(a, "idle")
    /\ acquirer' = [acquirer EXCEPT ![a] = [pc |-> "queued", key |-> k, id |-> 0]]
    /\ UNCHANGED <<clock, contexts, pooled, made, evictVars>>

(* Mutant of Stale: contexts in use are evicted too.                        *)
StaleInUse == {k \in Present : clock - pooled[contexts[k]].last_used > IdleEviction}

(* _evict_stale_locked: the idle contexts past their time are listed, then  *)
(* one by one taken out of the dict and closed.  A close that fails is only *)
(* logged.                                                                  *)
Stale == {k \in Idle : clock - pooled[contexts[k]].last_used > IdleEviction}

EvictStale(a) ==
    /\ At(a, "queued")
    /\ ~PoolLocked
    /\ stale' = Stale
    /\ acquirer' = [acquirer EXCEPT ![a].pc = "evicting"]
    /\ UNCHANGED <<clock, contexts, pooled, made, closing, lost>>

PopStale(a) ==
    /\ At(a, "evicting") /\ closing = 0
    /\ \E k \in stale :
          /\ stale' = stale \ {k}
          /\ closing' = contexts[k]
          /\ contexts' = [contexts EXCEPT ![k] = 0]
    /\ UNCHANGED <<clock, pooled, made, acquirer, lost>>

(* The await of close() is over, and the context is closed or not.          *)
Closed(closed) ==
    /\ closing # 0
    /\ pooled' = [pooled EXCEPT ![closing].open = ~closed]
    /\ lost' = IF closed THEN lost ELSE lost \cup {closing}
    /\ closing' = 0

CloseEnds(a, closed) ==
    /\ At(a, "evicting")
    /\ Closed(closed)
    /\ UNCHANGED <<clock, contexts, made, acquirer, stale>>

Evicted(a) == At(a, "evicting") /\ stale = {} /\ closing = 0

(* acquire takes the context's lock, and marks it in use when it has it.    *)
Enter(a, i) ==
    IF ContextLocked(i)
    THEN /\ acquirer' = [acquirer EXCEPT ![a].pc = "waiting", ![a].id = i]
         /\ UNCHANGED pooled
    ELSE /\ acquirer' = [acquirer EXCEPT ![a].pc = "using", ![a].id = i]
         /\ pooled' = [pooled EXCEPT ![i].in_use = TRUE]

(* _get_or_create finds the key, gives up when every context is in use and  *)
(* the pool is full, or goes on to create one.  (The branch that evicts the *)
(* least recently used idle context requires that there is no idle context. *)
(* It is never taken.)                                                      *)
Exhausted == Idle = {} /\ Cardinality(Present) >= MaxConcurrency

Found(a) ==
    LET k == acquirer[a].key IN
    /\ Evicted(a)
    /\ k \in Present
    /\ Enter(a, contexts[k])
    /\ UNCHANGED <<clock, contexts, made, evictVars>>

Refuse(a) ==
    /\ Evicted(a)
    /\ acquirer[a].key \notin Present
    /\ Exhausted
    /\ acquirer' = [acquirer EXCEPT ![a].pc = "failed"]
    /\ UNCHANGED <<clock, contexts, pooled, made, evictVars>>

Create(a) ==
    /\ Evicted(a)
    /\ acquirer[a].key \notin Present
    /\ ~Exhausted
    /\ acquirer' = [acquirer EXCEPT ![a].pc = "creating"]
    /\ UNCHANGED <<clock, contexts, pooled, made, evictVars>>

NewContext(k, in_use) ==
    /\ made < MaxMade
    /\ made' = made + 1
    /\ pooled' = [i \in 1..(made + 1) |->
                     IF i <= made THEN pooled[i]
                     ELSE [key |-> k, open |-> TRUE, in_use |-> in_use, last_used |-> clock]]

Created(a) ==
    /\ At(a, "creating")
    /\ NewContext(acquirer[a].key, TRUE)
    /\ contexts' = [contexts EXCEPT ![acquirer[a].key] = made + 1]
    /\ acquirer' = [acquirer EXCEPT ![a].pc = "using", ![a].id = made + 1]
    /\ UNCHANGED <<clock, evictVars>>

(* start() or new_context() raised.                                         *)
CreateFails(a) ==
    /\ At(a, "creating")
    /\ acquirer' = [acquirer EXCEPT ![a].pc = "failed"]
    /\ UNCHANGED <<clock, contexts, pooled, made, evictVars>>

(* A waiter that was handed the lock runs in the next round of the loop.    *)
EnterGranted(a) ==
    /\ At(a, "granted")
    /\ pooled' = [pooled EXCEPT ![acquirer[a].id].in_use = TRUE]
    /\ acquirer' = [acquirer EXCEPT ![a].pc = "using"]
    /\ UNCHANGED <<clock, contexts, made, evictVars>>

WaitersOf(i) == {b \in Acquirers : acquirer[b].pc = "waiting" /\ acquirer[b].id = i}

(* The lock of context i goes to one of its waiters, if there is one.       *)
Handover(a, i) ==
    \E next \in (IF WaitersOf(i) = {} THEN {a} ELSE WaitersOf(i)) :
        acquirer' = [b \in Acquirers |->
                        IF b = a THEN Away
                        ELSE IF b = next THEN [acquirer[b] EXCEPT !.pc = "granted"]
                        ELSE acquirer[b]]

(* The caller is done with the page, new_page failed or the caller was      *)
(* cancelled: the context is idle from now on and its lock goes to a waiter. *)
Release(a) ==
    /\ At(a, "using")
    /\ pooled' = [pooled EXCEPT ![acquirer[a].id].in_use = FALSE,
                                ![acquirer[a].id].last_used = clock]
    /\ Handover(a, acquirer[a].id)
    /\ UNCHANGED <<clock, contexts, made, evictVars>>

GiveUp(a) ==
    /\ At(a, "failed")
    /\ acquirer' = [acquirer EXCEPT ![a] = Away]
    /\ UNCHANGED <<clock, contexts, pooled, made, evictVars>>

(* The caller is cancelled while it waits for a lock: the pool's, or the    *)
(* context's, which goes to the next waiter if the caller had just got it.  *)
CancelWaiting(a) ==
    /\ acquirer[a].pc \in {"queued", "waiting"}
    /\ acquirer' = [acquirer EXCEPT ![a] = Away]
    /\ UNCHANGED <<clock, contexts, pooled, made, evictVars>>

CancelGranted(a) ==
    /\ At(a, "granted")
    /\ Handover(a, acquirer[a].id)
    /\ UNCHANGED <<clock, contexts, pooled, made, evictVars>>

(* It is cancelled in the await of a close, which may have happened: what   *)
(* was left to evict stays in the dict.                                     *)
CancelClosing(a, closed) ==
    /\ At(a, "evicting")
    /\ Closed(closed)
    /\ stale' = {}
    /\ acquirer' = [acquirer EXCEPT ![a] = Away]
    /\ UNCHANGED <<clock, contexts, made>>

(* It is cancelled in the await of new_context(), before the browser made   *)
(* the context or after.                                                    *)
CancelCreating(a) ==
    /\ At(a, "creating")
    /\ acquirer' = [acquirer EXCEPT ![a] = Away]
    /\ \/ UNCHANGED <<pooled, made, lost>>
       \/ NewContext(acquirer[a].key, FALSE) /\ lost' = lost \cup {made + 1}
    /\ UNCHANGED <<clock, contexts, stale, closing>>

(* aclose, from run_forever's finally: no acquire is in progress.  Closing  *)
(* the browser closes every context, lost ones too.  When that fails, the   *)
(* contexts whose own close failed stay open.                               *)
Aclose ==
    /\ \A a \in Acquirers : At(a, "idle")
    /\ Present # {} \/ lost # {}
    /\ \E kept \in SUBSET {i \in 1..made : pooled[i].open} :
          /\ pooled' = [i \in 1..made |-> [pooled[i] EXCEPT !.open = i \in kept]]
          /\ lost' = kept
    /\ contexts' = [k \in Keys |-> 0]
    /\ UNCHANGED <<clock, made, acquirer, stale, closing>>

(* Rounds of the event loop take no time compared with the eviction time.   *)
Tick ==
    /\ clock < MaxTime
    /\ \A a \in Acquirers : ~At(a, "granted")
    /\ clock' = clock + 1
    /\ UNCHANGED <<contexts, pooled, made, acquirer, evictVars>>

Next ==
    \/ Tick \/ Aclose
    \/ \E a \in Acquirers :
          \/ \E k \in Keys : Acquire(a, k)
          \/ EvictStale(a) \/ PopStale(a) \/ Found(a) \/ Refuse(a) \/ Create(a) \/ Created(a)
          \/ CreateFails(a) \/ EnterGranted(a) \/ Release(a) \/ GiveUp(a)
          \/ CancelWaiting(a) \/ CancelGranted(a) \/ CancelCreating(a)
          \/ \E closed \in BOOLEAN : CloseEnds(a, closed) \/ CancelClosing(a, closed)

Spec == Init /\ [][Next]_vars
-----------------------------------------------------------------------------
(* A page is only ever opened in a live context, and contexts "are not safe *)
(* for concurrent use" (browser_pool.py:38): the context in use is open, is *)
(* the one the pool has for its key, and has one user.                      *)
UsersSafe ==
    \A a \in Acquirers : At(a, "using") =>
        LET i == acquirer[a].id IN
        /\ pooled[i].open
        /\ contexts[acquirer[a].key] = i
        /\ \A b \in Acquirers : At(b, "using") /\ acquirer[b].id = i => a = b

(* Every open context is in the dict under its own key, is being closed, or *)
(* is one whose close failed or whose caller was cancelled at the browser;  *)
(* and nothing that is closed, being closed or lost is in the dict for the  *)
(* next caller to find (browser_pool.py _evict_stale_locked).               *)
NoLeak ==
    \A i \in 1..made :
        LET kept == contexts[pooled[i].key] = i IN
        /\ pooled[i].open <=> kept \/ closing = i \/ i \in lost
        /\ kept => closing # i /\ i \notin lost
        /\ closing = i => i \notin lost

(* The pool's contexts are safe to use, and none leaves the dict open but   *)
(* by a close that failed or a cancelled caller.                            *)
PoolSafe == TypeOK /\ UsersSafe /\ NoLeak

(* "The pool keeps at most max_concurrency contexts alive"                  *)
(* (browser_pool.py:3).  The size is only looked at when no context is      *)
(* idle, so idle contexts of other keys pile up.                            *)
ContextsBounded == Cardinality({i \in 1..made : pooled[i].open}) <= MaxConcurrency

(* "Close every context" (browser_pool.py:166): every open context is one   *)
(* that aclose goes through.  Those popped by an eviction whose close       *)
(* failed or was cancelled are not.                                         *)
AllInReach == \A i \in 1..made : pooled[i].open => contexts[pooled[i].key] = i \/ closing = i
=============================================================================
