------------------------- MODULE VisaPortal_proofs -------------------------
(***************************************************************************)
(* Proofs about the browser pool and the worker that uses it: whatever     *)
(* callers there are, and whatever the worker's jobs do, a page is only    *)
(* opened in a live context with one user, and no context leaves the dict  *)
(* open but by a close that failed or a cancelled caller.                  *)
(***************************************************************************)
EXTENDS VisaPortal, TLAPS

Holding == {"granted", "using"}
Entered == {"waiting", "granted", "using"}

(* The pool's own record and a context's own key agree.                    *)
Keyed == \A k \in Keys : contexts[k] # 0 => pooled[contexts[k]].key = k

(* A caller that is past _get_or_create has the context the pool keeps     *)
(* under its key: nobody evicts or replaces it while it waits.             *)
Held ==
    \A a \in Acquirers : acquirer[a].pc \in Entered =>
        /\ acquirer[a].id \in 1..made
        /\ contexts[acquirer[a].key] = acquirer[a].id

(* A context's lock has one holder, and is held while anybody waits.       *)
Exclusive ==
    \A a, b \in Acquirers :
        acquirer[a].pc \in Holding /\ acquirer[b].pc \in Holding
        /\ acquirer[a].id = acquirer[b].id => a = b

Waiters ==
    \A a \in Acquirers : At(a, "waiting") =>
        \E b \in Acquirers : acquirer[b].pc \in Holding /\ acquirer[b].id = acquirer[a].id

(* What keeps a held context from eviction: it is marked in use, or was    *)
(* released in this very moment.                                           *)
Guarded ==
    \A a \in Acquirers :
        /\ At(a, "using") => pooled[acquirer[a].id].in_use
        /\ At(a, "granted") => pooled[acquirer[a].id].last_used = clock

(* The pool lock has one holder, and nobody else makes a context for the   *)
(* key it found missing.                                                   *)
OneAtPool ==
    /\ \A a, b \in Acquirers :
          acquirer[a].pc \in {"evicting", "creating"} /\ acquirer[b].pc \in {"evicting", "creating"}
          => a = b
    /\ \A a \in Acquirers : At(a, "creating") => contexts[acquirer[a].key] = 0

(* Only the holder of the pool lock evicts, and what it has listed stays   *)
(* in the dict, with no user, until it is popped.                          *)
Evictions ==
    /\ stale # {} \/ closing # 0 => \E a \in Acquirers : At(a, "evicting")
    /\ \A k \in stale : contexts[k] # 0
    /\ \A k \in stale : \A a \in Acquirers : acquirer[a].pc \in Entered => acquirer[a].key # k

PoolInv ==
    /\ TypeOK /\ NoLeak /\ Keyed
    /\ Held /\ Exclusive /\ Waiters /\ Guarded /\ OneAtPool /\ Evictions

Row == [pc: PCs, key: Keys, id: 0..made]

-----------------------------------------------------------------------------
(* PoolInv holds before the first acquire.                                 *)
LEMMA PoolInitial == Init => PoolInv
  <1> SUFFICES ASSUME Init PROVE PoolInv
    OBVIOUS
  <1>1. AnyKey \in Keys
    BY BrowserPoolAssumption DEF AnyKey
  <1>2. TypeOK
    <2>1. acquirer \in [Acquirers -> [pc: PCs, key: Keys, id: 0..made]]
      BY <1>1, BrowserPoolAssumption DEF Init, Away, PCs
    <2>2. pooled \in [1..made -> Pooled]
      BY DEF Init
    <2> QED BY <2>1, <2>2, BrowserPoolAssumption DEF TypeOK, Init
  <1>3. NoLeak
    BY DEF Init, NoLeak
  <1> QED
    BY <1>2, <1>3
    DEF Init, Away, PoolInv, Keyed, Held, Exclusive, Waiters, Guarded, OneAtPool, Evictions,
        Holding, Entered, At

(* The row of a caller that asks for nothing.                              *)
LEMMA AwayRow == PoolInv => Away \in Row /\ Away.pc = "idle"
  <1> SUFFICES ASSUME PoolInv PROVE Away \in Row /\ Away.pc = "idle"
    OBVIOUS
  <1>1. AnyKey \in Keys
    BY BrowserPoolAssumption DEF AnyKey
  <1>2. 0 \in 0..made
    BY BrowserPoolAssumption DEF PoolInv, TypeOK
  <1> QED BY <1>1, <1>2 DEF Away, Row, PCs

(* A caller that holds no context's lock and enters none, and finds its    *)
(* key missing if it goes on to create, disturbs nothing.                  *)
LEMMA MoveOutside ==
  ASSUME NEW a \in Acquirers, NEW row \in Row, PoolInv,
         acquirer[a].pc \notin Holding, row.pc \notin Entered,
         row.pc \in {"evicting", "creating"} => acquirer[a].pc = "evicting" \/ ~PoolLocked,
         row.pc = "creating" => contexts[row.key] = 0,
         acquirer' = [acquirer EXCEPT ![a] = row],
         UNCHANGED <<clock, contexts, pooled, made, closing, lost>>,
         stale' \in SUBSET Keys, Evictions'
  PROVE  PoolInv'
  <1> USE DEF PoolInv
  <1>1. TypeOK'
    BY DEF TypeOK, Row
  <1>2. NoLeak' /\ Keyed'
    BY DEF NoLeak, Keyed
  <1>3. \A b \in Acquirers : acquirer'[b] = IF b = a THEN row ELSE acquirer[b]
    BY DEF TypeOK
  <1>4. Held'
    BY <1>3 DEF Held
  <1>5. Exclusive'
    BY <1>3 DEF Exclusive, Holding, Entered
  <1>6. Waiters'
    BY <1>3 DEF Waiters, Holding, Entered, At
  <1>7. Guarded'
    BY <1>3 DEF Guarded, Entered, At
  <1>8. OneAtPool'
    BY <1>3 DEF OneAtPool, PoolLocked, At
  <1> QED BY <1>1, <1>2, <1>4, <1>5, <1>6, <1>7, <1>8

(* A move that leaves the evictions alone.                                 *)
LEMMA MoveNoEviction ==
  ASSUME NEW a \in Acquirers, NEW row \in Row, PoolInv,
         acquirer[a].pc \notin Holding, row.pc \notin Entered, row.pc # "evicting",
         row.pc = "creating" => acquirer[a].pc = "evicting",
         row.pc = "creating" => contexts[row.key] = 0,
         acquirer[a].pc = "evicting" => Evicted(a),
         acquirer' = [acquirer EXCEPT ![a] = row],
         UNCHANGED <<clock, contexts, pooled, made, evictVars>>
  PROVE  PoolInv'
  <1>1. \A b \in Acquirers : acquirer'[b] = IF b = a THEN row ELSE acquirer[b]
    BY DEF PoolInv, TypeOK
  <1>2. stale' = stale /\ closing' = closing /\ lost' = lost /\ stale \in SUBSET Keys
    BY DEF evictVars, PoolInv, TypeOK
  <1>3. stale # {} \/ closing # 0 => \E b \in Acquirers : acquirer'[b].pc = "evicting"
    <2> SUFFICES ASSUME stale # {} \/ closing # 0
                 PROVE  \E b \in Acquirers : acquirer'[b].pc = "evicting"
      OBVIOUS
    <2>1. PICK b \in Acquirers : acquirer[b].pc = "evicting"
      BY DEF PoolInv, Evictions, At
    <2>2. b # a
      BY <2>1 DEF Evicted
    <2> QED BY <1>1, <2>1, <2>2
  <1>4. Evictions'
    BY <1>1, <1>2, <1>3 DEF PoolInv, Evictions, At
  <1> QED BY <1>2, <1>4, MoveOutside

(* Asking for a page, giving up, failing to create one, and being          *)
(* cancelled in a lock's queue.                                            *)
LEMMA OutsideSteps ==
  ASSUME NEW a \in Acquirers, PoolInv,
         \/ \E k \in Keys : Acquire(a, k)
         \/ Refuse(a) \/ Create(a) \/ CreateFails(a) \/ GiveUp(a) \/ CancelWaiting(a)
  PROVE  PoolInv'
  <1>1. acquirer \in [Acquirers -> Row] /\ acquirer[a] \in Row
    BY DEF PoolInv, TypeOK, Row
  <1>2. ASSUME NEW k \in Keys, Acquire(a, k) PROVE PoolInv'
    <2>1. PICK row : row = [pc |-> "queued", key |-> k, id |-> 0]
      OBVIOUS
    <2>2. row \in Row /\ row.pc = "queued"
      BY <2>1, BrowserPoolAssumption DEF Row, PCs, PoolInv, TypeOK
    <2>3. acquirer' = [acquirer EXCEPT ![a] = row]
      BY <1>2, <2>1 DEF Acquire
    <2> QED BY <1>2, <2>2, <2>3, MoveNoEviction DEF Acquire, At, Entered, Holding
  <1>3. ASSUME NEW pc \in PCs, pc \notin Entered, acquirer[a].pc \notin Holding, pc # "evicting",
               pc = "creating" => acquirer[a].pc = "evicting",
               pc = "creating" => contexts[acquirer[a].key] = 0,
               acquirer[a].pc = "evicting" => Evicted(a),
               acquirer' = [acquirer EXCEPT ![a].pc = pc],
               UNCHANGED <<clock, contexts, pooled, made, evictVars>>
        PROVE  PoolInv'
    <2>1. PICK row : row = [acquirer[a] EXCEPT !.pc = pc]
      OBVIOUS
    <2>2. row \in Row /\ row.pc = pc /\ row.key = acquirer[a].key
      BY <1>1, <2>1 DEF Row
    <2>3. acquirer' = [acquirer EXCEPT ![a] = row]
      BY <1>1, <1>3, <2>1
    <2> QED BY <1>3, <2>2, <2>3, MoveNoEviction
  <1>4. CASE Refuse(a)
    BY <1>3, <1>4 DEF Refuse, Evicted, At, Entered, Holding, PCs
  <1>5. CASE Create(a)
    <2>1. acquirer[a].key \in Keys
      BY <1>1 DEF Row
    <2> QED BY <1>3, <1>5, <2>1 DEF Create, Evicted, At, Entered, Holding, PCs, Present
  <1>6. CASE CreateFails(a)
    BY <1>3, <1>6 DEF CreateFails, At, Entered, Holding, PCs
  <1>7. CASE GiveUp(a)
    BY <1>7, AwayRow, MoveNoEviction DEF GiveUp, At, Entered, Holding
  <1>8. CASE CancelWaiting(a)
    BY <1>8, AwayRow, MoveNoEviction DEF CancelWaiting, Entered, Holding
  <1> QED BY <1>2, <1>4, <1>5, <1>6, <1>7, <1>8

(* The context of a caller inside its lock is not stale: it is in use, or  *)
(* was released in this moment, or somebody else holds it for the caller.  *)
LEMMA HeldNotStale ==
  ASSUME PoolInv, NEW a \in Acquirers, acquirer[a].pc \in Entered
  PROVE  acquirer[a].key \notin Stale
  <1> USE DEF PoolInv
  <1>1. PICK b \in Acquirers : acquirer[b].pc \in Holding /\ acquirer[b].id = acquirer[a].id
    BY DEF Waiters, Entered, Holding, At
  <1>2. contexts[acquirer[a].key] = acquirer[b].id /\ acquirer[b].id \in 1..made
    BY <1>1 DEF Held, Entered
  <1>3. CASE acquirer[b].pc = "using"
    BY <1>1, <1>2, <1>3 DEF Guarded, At, Stale, Idle
  <1>4. CASE acquirer[b].pc = "granted"
    <2>1. pooled[acquirer[b].id].last_used = clock /\ clock \in Nat
      BY <1>1, <1>4, BrowserPoolAssumption DEF Guarded, At, TypeOK
    <2>2. ~(clock - clock > IdleEviction)
      BY <2>1, BrowserPoolAssumption
    <2> QED BY <1>2, <2>1, <2>2 DEF Stale
  <1> QED BY <1>1, <1>3, <1>4 DEF Holding

(* _evict_stale_locked lists no context that anybody is after.             *)
LEMMA EvictStep ==
  ASSUME NEW a \in Acquirers, PoolInv, EvictStale(a)
  PROVE  PoolInv'
  <1>1. acquirer \in [Acquirers -> Row] /\ acquirer[a] \in Row
    BY DEF PoolInv, TypeOK, Row
  <1>2. PICK row : row = [acquirer[a] EXCEPT !.pc = "evicting"]
    OBVIOUS
  <1>3. row \in Row /\ row.pc = "evicting"
    BY <1>1, <1>2 DEF Row, PCs
  <1>4. acquirer' = [acquirer EXCEPT ![a] = row]
    BY <1>1, <1>2 DEF EvictStale
  <1>5. \A b \in Acquirers : acquirer'[b] = IF b = a THEN row ELSE acquirer[b]
    BY <1>1, <1>4
  <1>6. /\ stale' = Stale /\ Stale \in SUBSET Keys /\ contexts' = contexts /\ closing' = closing
        /\ acquirer[a].pc = "queued" /\ ~PoolLocked
        /\ UNCHANGED <<clock, contexts, pooled, made, closing, lost>>
    BY DEF EvictStale, Stale, Idle, Present, At
  <1>7. Evictions'
    <2>1. \E b \in Acquirers : acquirer'[b].pc = "evicting"
      BY <1>3, <1>5
    <2>2. \A k \in Stale : contexts[k] # 0
      BY DEF Stale, Idle, Present
    <2>3. \A k \in Stale : \A b \in Acquirers : acquirer'[b].pc \in Entered => acquirer'[b].key # k
      BY <1>3, <1>5, HeldNotStale DEF Entered
    <2> QED BY <1>6, <2>1, <2>2, <2>3 DEF Evictions, At
  <1> QED BY <1>3, <1>4, <1>6, <1>7, MoveOutside DEF Holding, Entered

(* A stale context leaves the dict while it is still open.                 *)
LEMMA PopStep ==
  ASSUME NEW a \in Acquirers, PoolInv, PopStale(a)
  PROVE  PoolInv'
  <1> USE DEF PoolInv
  <1>1. PICK k \in stale : /\ stale' = stale \ {k} /\ closing' = contexts[k]
                           /\ contexts' = [contexts EXCEPT ![k] = 0]
    BY DEF PopStale
  <1>2. /\ clock' = clock /\ pooled' = pooled /\ made' = made /\ acquirer' = acquirer
        /\ lost' = lost /\ closing = 0 /\ acquirer[a].pc = "evicting"
    BY DEF PopStale, At
  <1>3. /\ k \in Keys /\ contexts \in [Keys -> 0..made] /\ made \in Nat
        /\ stale \in SUBSET Keys /\ contexts[k] # 0
    BY BrowserPoolAssumption DEF TypeOK, Evictions
  <1>4. contexts[k] \in 1..made /\ pooled[contexts[k]].key = k
    BY <1>3 DEF Keyed
  <1>5. \A j \in Keys : contexts'[j] = IF j = k THEN 0 ELSE contexts[j]
    BY <1>1, <1>3
  <1>6. TypeOK'
    <2>1. contexts' \in [Keys -> 0..made] /\ closing' \in 0..made /\ stale' \in SUBSET Keys
      BY <1>1, <1>3, <1>4
    <2> QED BY <1>2, <2>1 DEF TypeOK
  <1>7. NoLeak'
    <2> SUFFICES ASSUME NEW i \in 1..made
                 PROVE  /\ pooled[i].open <=> \/ contexts'[pooled[i].key] = i
                                             \/ closing' = i \/ i \in lost
                        /\ contexts'[pooled[i].key] = i => closing' # i /\ i \notin lost
                        /\ closing' = i => i \notin lost
      BY <1>2 DEF NoLeak
    <2>1. pooled[i].key \in Keys /\ i # 0
      BY DEF TypeOK, Pooled
    <2>2. /\ pooled[i].open <=> contexts[pooled[i].key] = i \/ i \in lost
          /\ contexts[pooled[i].key] = i => i \notin lost
      BY <1>2, <2>1 DEF NoLeak
    <2>3. CASE i = contexts[k]
      BY <1>1, <1>4, <1>5, <2>1, <2>2, <2>3
    <2>4. CASE i # contexts[k]
      <3>1. contexts'[pooled[i].key] = i <=> contexts[pooled[i].key] = i
        BY <1>5, <2>1, <2>4
      <3> QED BY <1>1, <2>2, <2>4, <3>1
    <2> QED BY <2>3, <2>4
  <1>8. Keyed'
    BY <1>2, <1>5 DEF Keyed
  <1>9. Held'
    <2>1. \A b \in Acquirers : acquirer[b].pc \in Entered => acquirer[b].key # k /\ acquirer[b].key \in Keys
      BY DEF Evictions, TypeOK
    <2> QED BY <1>2, <1>5, <2>1 DEF Held
  <1>10. Exclusive' /\ Waiters' /\ Guarded'
    BY <1>2 DEF Exclusive, Waiters, Guarded, At
  <1>11. OneAtPool'
    <2>1. \A b \in Acquirers : acquirer[b].key \in Keys
      BY DEF TypeOK
    <2> QED BY <1>2, <1>5, <2>1 DEF OneAtPool, At
  <1>12. Evictions'
    BY <1>1, <1>2, <1>3, <1>5 DEF Evictions, At
  <1> QED BY <1>6, <1>7, <1>8, <1>9, <1>10, <1>11, <1>12

(* The end of a close, well or not, touches no context in the dict.        *)
LEMMA ClosedFacts ==
  ASSUME PoolInv, NEW closed \in BOOLEAN, Closed(closed), UNCHANGED <<contexts, made>>
  PROVE  /\ pooled' \in [1..made -> Pooled] /\ lost' \in SUBSET (1..made) /\ closing' = 0
         /\ \A i \in 1..made : /\ pooled'[i].in_use = pooled[i].in_use
                                /\ pooled'[i].last_used = pooled[i].last_used
         /\ NoLeak' /\ Keyed'
  <1>1. /\ pooled \in [1..made -> Pooled] /\ contexts \in [Keys -> 0..made] /\ made \in Nat
        /\ closing \in 0..made /\ lost \in SUBSET (1..made)
    BY BrowserPoolAssumption DEF PoolInv, TypeOK
  <1>2. /\ closing \in 1..made /\ closing' = 0
        /\ lost' = IF closed THEN lost ELSE lost \cup {closing}
        /\ pooled' = [pooled EXCEPT ![closing].open = ~closed]
    BY <1>1 DEF Closed
  <1>3. /\ pooled' \in [1..made -> Pooled]
        /\ \A i \in 1..made :
              /\ pooled'[i].key = pooled[i].key
              /\ pooled'[i].in_use = pooled[i].in_use
              /\ pooled'[i].last_used = pooled[i].last_used
              /\ pooled'[i].open = IF i = closing THEN ~closed ELSE pooled[i].open
    BY <1>1, <1>2 DEF Pooled
  <1>4. NoLeak'
    <2> SUFFICES ASSUME NEW i \in 1..made
                 PROVE  /\ pooled'[i].open <=> contexts[pooled[i].key] = i \/ i \in lost'
                        /\ contexts[pooled[i].key] = i => i \notin lost'
      BY <1>2, <1>3 DEF NoLeak
    <2>1. /\ pooled[i].open <=> contexts[pooled[i].key] = i \/ closing = i \/ i \in lost
          /\ contexts[pooled[i].key] = i => closing # i /\ i \notin lost
          /\ closing = i => i \notin lost
      BY DEF PoolInv, NoLeak
    <2>2. CASE i = closing
      BY <1>2, <1>3, <2>1, <2>2
    <2>3. CASE i # closing
      BY <1>2, <1>3, <2>1, <2>3
    <2> QED BY <2>2, <2>3
  <1>5. \A k \in Keys : contexts[k] # 0 => contexts[k] \in 1..made
    BY <1>1
  <1>6. Keyed'
    BY <1>3, <1>5 DEF PoolInv, Keyed
  <1>7. lost' \in SUBSET (1..made)
    BY <1>1, <1>2
  <1> QED BY <1>2, <1>3, <1>4, <1>6, <1>7

(* The evictor goes on with the next one, or is cancelled and leaves.      *)
LEMMA CloseStep ==
  ASSUME NEW a \in Acquirers, PoolInv, NEW closed \in BOOLEAN,
         CloseEnds(a, closed) \/ CancelClosing(a, closed)
  PROVE  PoolInv'
  <1> USE DEF PoolInv
  <1>1. /\ clock' = clock /\ contexts' = contexts /\ made' = made
        /\ acquirer[a].pc = "evicting" /\ Closed(closed)
    BY DEF CloseEnds, CancelClosing, At
  <1>2. /\ pooled' \in [1..made -> Pooled] /\ lost' \in SUBSET (1..made) /\ closing' = 0
        /\ \A i \in 1..made : /\ pooled'[i].in_use = pooled[i].in_use
                               /\ pooled'[i].last_used = pooled[i].last_used
        /\ NoLeak' /\ Keyed'
    BY <1>1, ClosedFacts
  <1>3. PICK row \in Row :
          /\ acquirer' = [acquirer EXCEPT ![a] = row] /\ row.pc \in {"idle", "evicting"}
          /\ stale' = IF row.pc = "evicting" THEN stale ELSE {}
    <2>1. CASE CloseEnds(a, closed)
      <3>1. acquirer' = [acquirer EXCEPT ![a] = acquirer[a]] /\ acquirer[a] \in Row /\ stale' = stale
        BY <2>1 DEF CloseEnds, TypeOK, Row
      <3> QED BY <1>1, <3>1
    <2>2. CASE CancelClosing(a, closed)
      BY <2>2, AwayRow DEF CancelClosing
    <2> QED BY <2>1, <2>2
  <1>4. \A b \in Acquirers : acquirer'[b] = IF b = a THEN row ELSE acquirer[b]
    BY <1>3 DEF TypeOK
  <1>5. TypeOK'
    <2>1. made \in Nat /\ 0 \in 0..made
      BY BrowserPoolAssumption DEF TypeOK
    <2>2. stale' \in SUBSET Keys
      BY <1>3 DEF TypeOK
    <2>3. acquirer' \in [Acquirers -> Row]
      BY <1>3 DEF TypeOK, Row
    <2> QED BY <1>1, <1>2, <2>1, <2>2, <2>3 DEF TypeOK, Row
  <1>6. Held'
    BY <1>1, <1>3, <1>4 DEF Held, Entered
  <1>7. Exclusive'
    BY <1>3, <1>4 DEF Exclusive, Holding
  <1>8. Waiters'
    BY <1>1, <1>3, <1>4 DEF Waiters, Holding, At
  <1>9. Guarded'
    BY <1>1, <1>2, <1>3, <1>4 DEF Guarded, Held, Entered, At
  <1>10. OneAtPool'
    BY <1>1, <1>3, <1>4 DEF OneAtPool, At
  <1>11. Evictions'
    BY <1>1, <1>2, <1>3, <1>4 DEF Evictions, Entered, At
  <1> QED BY <1>2, <1>5, <1>6, <1>7, <1>8, <1>9, <1>10, <1>11

(* Marking a context as used or idle changes neither its key nor whether   *)
(* it is open.                                                             *)
LEMMA MarkContext ==
  ASSUME PoolInv, NEW i \in 1..made, NEW q \in Pooled,
         q.key = pooled[i].key, q.open = pooled[i].open,
         pooled' = [pooled EXCEPT ![i] = q],
         UNCHANGED <<contexts, made, evictVars>>
  PROVE  /\ pooled' \in [1..made -> Pooled]
         /\ \A j \in 1..made : pooled'[j] = IF j = i THEN q ELSE pooled[j]
         /\ NoLeak' /\ Keyed'
  <1>1. pooled \in [1..made -> Pooled] /\ contexts \in [Keys -> 0..made] /\ made \in Nat
    BY BrowserPoolAssumption DEF PoolInv, TypeOK
  <1>2. /\ pooled' \in [1..made -> Pooled]
        /\ \A j \in 1..made : pooled'[j] = IF j = i THEN q ELSE pooled[j]
    BY <1>1
  <1>3. \A j \in 1..made : pooled'[j].key = pooled[j].key /\ pooled'[j].open = pooled[j].open
    BY <1>2
  <1>4. NoLeak'
    BY <1>3 DEF PoolInv, NoLeak, evictVars
  <1>5. \A k \in Keys : contexts[k] # 0 => contexts[k] \in 1..made
    BY <1>1
  <1>6. Keyed'
    BY <1>3, <1>5 DEF PoolInv, Keyed
  <1> QED BY <1>2, <1>4, <1>6

(* The pool lock has one holder: nothing is being evicted by anybody else. *)
LEMMA NoOtherEvictor ==
  ASSUME PoolInv, NEW a \in Acquirers, Evicted(a) \/ At(a, "creating")
  PROVE  stale = {} /\ closing = 0
  BY DEF PoolInv, Evictions, OneAtPool, Evicted, At

(* _get_or_create finds the key: the caller waits for the context's lock,  *)
(* or nobody has it.                                                       *)
LEMMA FoundStep ==
  ASSUME NEW a \in Acquirers, PoolInv, Found(a)
  PROVE  PoolInv'
  <1> USE DEF PoolInv
  <1>1. acquirer \in [Acquirers -> Row] /\ acquirer[a] \in Row
    BY DEF TypeOK, Row
  <1>2. PICK i : i = contexts[acquirer[a].key]
    OBVIOUS
  <1>3. /\ acquirer[a].pc = "evicting" /\ Enter(a, i)
        /\ clock' = clock /\ contexts' = contexts /\ made' = made /\ UNCHANGED evictVars
    BY <1>2 DEF Found, Evicted, At
  <1>4. i \in 1..made
    BY <1>1, <1>2, BrowserPoolAssumption DEF Found, Present, TypeOK
  <1>5. Evictions' /\ stale' \in SUBSET Keys /\ closing' \in 0..made /\ lost' \in SUBSET (1..made)
    <2>1. stale = {} /\ closing = 0
      BY NoOtherEvictor DEF Found
    <2> QED BY <1>3, <2>1 DEF Evictions, evictVars, TypeOK
  <1>6. CASE ContextLocked(i)
    <2>1. PICK row : row = [acquirer[a] EXCEPT !.pc = "waiting", !.id = i]
      OBVIOUS
    <2>2. row \in Row /\ row.pc = "waiting" /\ row.id = i /\ row.key = acquirer[a].key
      <3>1. row = [pc |-> "waiting", key |-> acquirer[a].key, id |-> i]
        BY <1>1, <2>1 DEF Row
      <3>2. i \in 0..made /\ acquirer[a].key \in Keys
        BY <1>1, <1>4, BrowserPoolAssumption DEF Row, TypeOK
      <3> QED BY <3>1, <3>2 DEF Row, PCs
    <2>3. acquirer' = [acquirer EXCEPT ![a] = row] /\ pooled' = pooled
      BY <1>1, <1>3, <1>6, <2>1 DEF Enter
    <2>4. \A b \in Acquirers : acquirer'[b] = IF b = a THEN row ELSE acquirer[b]
      BY <1>1, <2>3
    <2>5. TypeOK'
      BY <1>3, <1>5, <2>2, <2>3 DEF TypeOK, Row
    <2>6. NoLeak' /\ Keyed'
      BY <1>3, <2>3 DEF NoLeak, Keyed, evictVars
    <2>7. Held'
      BY <1>2, <1>3, <1>4, <2>2, <2>4 DEF Held
    <2>8. Exclusive'
      BY <1>3, <2>2, <2>4 DEF Exclusive, Holding
    <2>9. Waiters'
      <3>1. PICK b \in Acquirers : acquirer[b].id = i /\ acquirer[b].pc \in Holding
        BY <1>6 DEF ContextLocked, Waiters, Holding, At
      <3>2. b # a /\ \A c \in Acquirers : acquirer[c].pc \in Holding => c # a
        BY <1>3, <3>1 DEF Holding
      <3> QED BY <2>2, <2>4, <3>1, <3>2 DEF Waiters, At
    <2>10. Guarded'
      BY <1>3, <2>2, <2>3, <2>4 DEF Guarded, At
    <2>11. OneAtPool'
      BY <1>3, <2>2, <2>4 DEF OneAtPool, At
    <2> QED BY <1>5, <2>5, <2>6, <2>7, <2>8, <2>9, <2>10, <2>11
  <1>7. CASE ~ContextLocked(i)
    <2>1. PICK row : row = [acquirer[a] EXCEPT !.pc = "using", !.id = i]
      OBVIOUS
    <2>2. row \in Row /\ row.pc = "using" /\ row.id = i /\ row.key = acquirer[a].key
      <3>1. row = [pc |-> "using", key |-> acquirer[a].key, id |-> i]
        BY <1>1, <2>1 DEF Row
      <3>2. i \in 0..made /\ acquirer[a].key \in Keys
        BY <1>1, <1>4, BrowserPoolAssumption DEF Row, TypeOK
      <3> QED BY <3>1, <3>2 DEF Row, PCs
    <2>3. PICK q : q = [pooled[i] EXCEPT !.in_use = TRUE]
      OBVIOUS
    <2>4. /\ q \in Pooled /\ q.key = pooled[i].key /\ q.open = pooled[i].open
          /\ q.in_use = TRUE
      BY <1>4, <2>3 DEF TypeOK, Pooled
    <2>5. acquirer' = [acquirer EXCEPT ![a] = row] /\ pooled' = [pooled EXCEPT ![i] = q]
      BY <1>1, <1>3, <1>4, <1>7, <2>1, <2>3 DEF Enter, TypeOK
    <2>6. \A b \in Acquirers : acquirer'[b] = IF b = a THEN row ELSE acquirer[b]
      BY <1>1, <2>5
    <2>7. /\ pooled' \in [1..made -> Pooled]
          /\ \A j \in 1..made : pooled'[j] = IF j = i THEN q ELSE pooled[j]
          /\ NoLeak' /\ Keyed'
      BY <1>3, <1>4, <2>4, <2>5, MarkContext
    <2>8. \A b \in Acquirers : acquirer[b].pc \in Entered => acquirer[b].id # i
      BY <1>7 DEF ContextLocked, Entered
    <2>9. TypeOK'
      BY <1>3, <1>5, <2>2, <2>5, <2>7 DEF TypeOK, Row
    <2>10. Held'
      BY <1>2, <1>3, <1>4, <2>2, <2>6 DEF Held
    <2>11. Exclusive'
      BY <2>2, <2>6, <2>8 DEF Exclusive, Holding, Entered
    <2>12. Waiters'
      <3>1. \A c \in Acquirers : acquirer[c].pc \in Holding => c # a
        BY <1>3 DEF Holding
      <3> QED BY <2>2, <2>6, <3>1 DEF Waiters, At
    <2>13. Guarded'
      <3> SUFFICES ASSUME NEW b \in Acquirers
                   PROVE  /\ acquirer'[b].pc = "using" => pooled'[acquirer'[b].id].in_use
                          /\ acquirer'[b].pc = "granted" => pooled'[acquirer'[b].id].last_used = clock
        BY <1>3 DEF Guarded, At
      <3>1. CASE b = a
        BY <1>4, <2>2, <2>4, <2>6, <2>7, <3>1
      <3>2. CASE b # a
        BY <2>6, <2>7, <2>8, <3>2 DEF Guarded, Held, Entered, At
      <3> QED BY <3>1, <3>2
    <2>14. OneAtPool'
      BY <1>3, <2>2, <2>6 DEF OneAtPool, At
    <2> QED BY <1>5, <2>7, <2>9, <2>10, <2>11, <2>12, <2>13, <2>14
  <1> QED BY <1>6, <1>7

(* A new context has a new number, and the others keep theirs.             *)
LEMMA NewContextFacts ==
  ASSUME PoolInv, NEW k \in Keys, NEW u \in BOOLEAN, NewContext(k, u), UNCHANGED clock
  PROVE  /\ made \in Nat /\ made' = made + 1 /\ made' \in 0..MaxMade
         /\ 1..made' = 1..made \cup {made + 1} /\ made + 1 \notin 1..made
         /\ pooled' \in [1..made' -> Pooled]
         /\ \A j \in 1..made : pooled'[j] = pooled[j]
         /\ pooled'[made + 1].key = k /\ pooled'[made + 1].open = TRUE
         /\ pooled'[made + 1].in_use = u
  <1>1. PICK n : n = made + 1
    OBVIOUS
  <1>2. /\ made \in Nat /\ n \in 1..MaxMade /\ n \in Nat /\ made' = n
        /\ 1..n = 1..made \cup {n} /\ n \notin 1..made /\ made' \in 0..MaxMade
    BY <1>1, BrowserPoolAssumption DEF NewContext, PoolInv, TypeOK
  <1>3. PICK q : q = [key |-> k, open |-> TRUE, in_use |-> u, last_used |-> clock]
    OBVIOUS
  <1>4. q \in Pooled /\ q.key = k /\ q.open = TRUE /\ q.in_use = u
    BY <1>3 DEF Pooled, PoolInv, TypeOK
  <1>5. /\ pooled' \in [1..n -> Pooled] /\ pooled'[n] = q
        /\ \A j \in 1..made : pooled'[j] = pooled[j]
    <2>1. pooled' = [j \in 1..n |-> IF j <= made THEN pooled[j] ELSE q]
      BY <1>1, <1>3 DEF NewContext
    <2>2. \A j \in 1..n : (j <= made => j \in 1..made) /\ (j = n => ~(j <= made))
      BY <1>1, <1>2
    <2>3. pooled \in [1..made -> Pooled]
      BY DEF PoolInv, TypeOK
    <2> QED BY <1>1, <1>2, <1>4, <2>1, <2>2, <2>3
  <1> QED BY <1>1, <1>2, <1>4, <1>5

(* A context is made for a key that has none, and kept under it or lost.   *)
LEMMA CreatedStep ==
  ASSUME NEW a \in Acquirers, PoolInv, NEW u \in BOOLEAN,
         At(a, "creating"), NewContext(acquirer[a].key, u), UNCHANGED <<clock, stale, closing>>,
         NEW row, acquirer' = [acquirer EXCEPT ![a] = row],
         \/ /\ u /\ lost' = lost
            /\ contexts' = [contexts EXCEPT ![acquirer[a].key] = made + 1]
            /\ row = [pc |-> "using", key |-> acquirer[a].key, id |-> made + 1]
         \/ /\ lost' = lost \cup {made + 1} /\ contexts' = contexts
            /\ row = Away
  PROVE  PoolInv'
  <1> USE DEF PoolInv
  <1>1. acquirer \in [Acquirers -> Row] /\ acquirer[a] \in Row /\ acquirer[a].key \in Keys
    BY DEF TypeOK, Row
  <1>2. PICK n : n = made + 1
    OBVIOUS
  <1>3. PICK k : k = acquirer[a].key
    OBVIOUS
  <1>4. /\ made \in Nat /\ n \in Nat /\ made' = n /\ 1..n = 1..made \cup {n}
        /\ n \notin 1..made /\ made' \in 0..MaxMade /\ n # 0
        /\ pooled' \in [1..n -> Pooled]
        /\ \A j \in 1..made : pooled'[j] = pooled[j]
        /\ pooled'[n].key = k /\ pooled'[n].open = TRUE /\ pooled'[n].in_use = u
    <2>1. k \in Keys /\ NewContext(k, u) /\ UNCHANGED clock
      BY <1>1, <1>3
    <2>2. /\ made \in Nat /\ made' = n /\ made' \in 0..MaxMade
          /\ 1..made' = 1..made \cup {n} /\ n \notin 1..made
          /\ pooled' \in [1..made' -> Pooled]
          /\ \A j \in 1..made : pooled'[j] = pooled[j]
          /\ pooled'[n].key = k /\ pooled'[n].open = TRUE /\ pooled'[n].in_use = u
      BY <1>2, <2>1, NewContextFacts
    <2>3. n \in Nat /\ n # 0
      BY <1>2, <2>2
    <2> QED BY <2>2, <2>3
  <1>5. /\ acquirer[a].pc = "creating" /\ clock' = clock /\ k \in Keys /\ contexts[k] = 0
        /\ stale' = {} /\ closing' = 0 /\ stale = {} /\ closing = 0
    BY <1>1, <1>3, NoOtherEvictor DEF At, OneAtPool
  <1>6. /\ contexts \in [Keys -> 0..made] /\ lost \in SUBSET (1..made)
        /\ pooled \in [1..made -> Pooled]
    BY DEF TypeOK
  <1>7. /\ row \in [pc: PCs, key: Keys, id: 0..n]
        /\ \/ /\ row.pc = "using" /\ row.id = n /\ row.key = k /\ u = TRUE
              /\ lost' = lost /\ contexts' = [contexts EXCEPT ![k] = n]
           \/ /\ row.pc = "idle" /\ lost' = lost \cup {n} /\ contexts' = contexts
    <2>1. CASE row = Away
      <3>1. 0 \in 0..n
        BY <1>4
      <3> QED BY <1>2, <1>3, <2>1, <3>1, AwayRow DEF Row, Away
    <2>2. CASE row = [pc |-> "using", key |-> k, id |-> n]
      <3>1. n \in 0..n
        BY <1>4
      <3>2. row.pc # Away.pc
        BY <2>2 DEF Away
      <3> QED BY <1>2, <1>3, <1>5, <2>2, <3>1, <3>2 DEF PCs
    <2> QED BY <1>2, <1>3, <2>1, <2>2
  <1>8. \A b \in Acquirers : acquirer'[b] = IF b = a THEN row ELSE acquirer[b]
    BY <1>1
  <1>9. \A j \in Keys : \/ contexts'[j] = contexts[j]
                        \/ (j = k /\ contexts'[j] = n /\ row.pc = "using")
    BY <1>6, <1>7
  <1>10. TypeOK'
    <2>1. acquirer' \in [Acquirers -> [pc: PCs, key: Keys, id: 0..n]]
      <3>1. \A b \in Acquirers : acquirer[b] \in [pc: PCs, key: Keys, id: 0..n]
        BY <1>1, <1>2, <1>4 DEF Row
      <3> QED BY <1>1, <1>7, <3>1
    <2>2. contexts' \in [Keys -> 0..n] /\ lost' \in SUBSET (1..n) /\ closing' \in 0..n
      <3>1. \A m \in 0..made : m \in 0..n
        BY <1>2, <1>4
      <3>2. n \in 0..n /\ 0 \in 0..n /\ contexts \in [Keys -> 0..n]
        BY <1>4, <1>6, <3>1
      <3>3. contexts' \in [Keys -> 0..n]
        BY <1>5, <1>7, <3>2
      <3>4. lost' \in SUBSET (1..n)
        BY <1>4, <1>6, <1>7
      <3> QED BY <1>5, <3>2, <3>3, <3>4
    <2>3. clock' \in 0..MaxTime /\ made' \in 0..MaxMade
      BY <1>4, <1>5 DEF TypeOK
    <2> QED BY <1>4, <1>5, <2>1, <2>2, <2>3 DEF TypeOK
  <1>11. NoLeak'
    <2> SUFFICES ASSUME NEW i \in 1..n
                 PROVE  /\ pooled'[i].open <=> contexts'[pooled'[i].key] = i \/ i \in lost'
                        /\ contexts'[pooled'[i].key] = i => i \notin lost'
      BY <1>4, <1>5 DEF NoLeak
    <2>1. CASE i = n
      BY <1>4, <1>5, <1>6, <1>7, <2>1
    <2>2. CASE i # n
      <3>1. i \in 1..made /\ i # 0
        <4>1. i \in 1..(made + 1) /\ i # made + 1 /\ made \in Nat
          BY <1>2, <1>4, <2>2
        <4> QED BY <4>1
      <3>2. /\ pooled[i].open <=> contexts[pooled[i].key] = i \/ i \in lost
            /\ contexts[pooled[i].key] = i => i \notin lost
        BY <1>5, <3>1 DEF NoLeak
      <3>3. pooled[i].key \in Keys
        BY <1>6, <3>1 DEF Pooled
      <3>4. i \in lost' <=> i \in lost
        BY <1>7, <2>2
      <3>5. contexts'[pooled[i].key] = i <=> contexts[pooled[i].key] = i
        BY <1>5, <1>9, <2>2, <3>1, <3>3
      <3> QED BY <1>4, <3>1, <3>2, <3>4, <3>5
    <2> QED BY <2>1, <2>2
  <1>12. Keyed'
    <2> SUFFICES ASSUME NEW j \in Keys, contexts'[j] # 0
                 PROVE  pooled'[contexts'[j]].key = j
      BY DEF Keyed
    <2>1. CASE contexts'[j] = n
      <3>1. j = k
        <4>1. contexts[j] # n
          BY <1>4, <1>6
        <4> QED BY <1>9, <2>1, <4>1
      <3> QED BY <1>4, <2>1, <3>1
    <2>2. CASE contexts'[j] # n
      <3>1. contexts'[j] = contexts[j] /\ contexts[j] \in 1..made
        BY <1>4, <1>6, <1>9, <2>2
      <3> QED BY <1>4, <3>1 DEF Keyed
    <2> QED BY <2>1, <2>2
  <1>13. \A b \in Acquirers : acquirer[b].pc \in Entered =>
             /\ b # a /\ acquirer[b].key # k /\ acquirer[b].id # n /\ acquirer[b].key \in Keys
             /\ acquirer[b].id \in 1..made
    BY <1>1, <1>4, <1>5 DEF Held, Entered, Row
  <1>14. Held'
    <2> SUFFICES ASSUME NEW b \in Acquirers, acquirer'[b].pc \in Entered
                 PROVE  acquirer'[b].id \in 1..n /\ contexts'[acquirer'[b].key] = acquirer'[b].id
      BY <1>4 DEF Held
    <2>1. CASE b = a
      BY <1>4, <1>5, <1>6, <1>7, <1>8, <2>1 DEF Entered
    <2>2. CASE b # a
      BY <1>4, <1>8, <1>9, <1>13, <2>2 DEF Held
    <2> QED BY <2>1, <2>2
  <1>15. Exclusive'
    BY <1>7, <1>8, <1>13 DEF Exclusive, Holding, Entered
  <1>16. Waiters'
    BY <1>7, <1>8, <1>13 DEF Waiters, Holding, Entered, At
  <1>17. Guarded'
    BY <1>4, <1>5, <1>7, <1>8, <1>13 DEF Guarded, Entered, At
  <1>18. OneAtPool'
    BY <1>5, <1>7, <1>8 DEF OneAtPool, At
  <1>19. Evictions'
    BY <1>5 DEF Evictions
  <1> QED BY <1>10, <1>11, <1>12, <1>14, <1>15, <1>16, <1>17, <1>18, <1>19

(* new_context() returns to its caller, or to nobody.                      *)
LEMMA CreatingSteps ==
  ASSUME NEW a \in Acquirers, PoolInv, Created(a) \/ CancelCreating(a)
  PROVE  PoolInv'
  <1>1. acquirer[a] \in Row
    BY DEF PoolInv, TypeOK, Row
  <1>2. CASE Created(a)
    <2>1. PICK row : row = [acquirer[a] EXCEPT !.pc = "using", !.id = made + 1]
      OBVIOUS
    <2>2. row = [pc |-> "using", key |-> acquirer[a].key, id |-> made + 1]
      BY <1>1, <2>1 DEF Row
    <2>3. acquirer' = [acquirer EXCEPT ![a] = row]
      BY <1>2, <2>1 DEF Created, PoolInv, TypeOK
    <2> QED BY <1>2, <2>2, <2>3, CreatedStep DEF Created, evictVars
  <1>3. CASE CancelCreating(a) /\ UNCHANGED <<pooled, made, lost>>
    BY <1>3, AwayRow, MoveNoEviction DEF CancelCreating, evictVars, At, Entered, Holding
  <1>4. CASE /\ CancelCreating(a) /\ NewContext(acquirer[a].key, FALSE)
             /\ lost' = lost \cup {made + 1}
    <2>1. PICK row : row = Away
      OBVIOUS
    <2> QED BY <1>4, <2>1, CreatedStep DEF CancelCreating
  <1> QED BY <1>2, <1>3, <1>4 DEF CancelCreating

(* The waiter that was handed the lock marks the context.                  *)
LEMMA GrantedStep ==
  ASSUME NEW a \in Acquirers, PoolInv, EnterGranted(a)
  PROVE  PoolInv'
  <1> USE DEF PoolInv
  <1>1. acquirer \in [Acquirers -> Row] /\ acquirer[a] \in Row
    BY DEF TypeOK, Row
  <1>2. PICK i : i = acquirer[a].id
    OBVIOUS
  <1>3. /\ acquirer[a].pc = "granted" /\ i \in 1..made
        /\ clock' = clock /\ contexts' = contexts /\ made' = made /\ UNCHANGED evictVars
    BY <1>2 DEF EnterGranted, At, Held, Entered
  <1>4. PICK row : row = [acquirer[a] EXCEPT !.pc = "using"]
    OBVIOUS
  <1>5. row \in Row /\ row.pc = "using" /\ row.id = i /\ row.key = acquirer[a].key
    BY <1>1, <1>2, <1>4 DEF Row, PCs
  <1>6. PICK q : q = [pooled[i] EXCEPT !.in_use = TRUE]
    OBVIOUS
  <1>7. /\ q \in Pooled /\ q.key = pooled[i].key /\ q.open = pooled[i].open
        /\ q.in_use = TRUE
    BY <1>3, <1>6 DEF TypeOK, Pooled
  <1>8. acquirer' = [acquirer EXCEPT ![a] = row] /\ pooled' = [pooled EXCEPT ![i] = q]
    BY <1>1, <1>2, <1>3, <1>4, <1>6 DEF EnterGranted, TypeOK
  <1>9. \A b \in Acquirers : acquirer'[b] = IF b = a THEN row ELSE acquirer[b]
    BY <1>1, <1>8
  <1>10. /\ pooled' \in [1..made -> Pooled]
         /\ \A j \in 1..made : pooled'[j] = IF j = i THEN q ELSE pooled[j]
         /\ NoLeak' /\ Keyed'
    BY <1>3, <1>7, <1>8, MarkContext
  <1>11. \A b \in Acquirers : acquirer[b].pc \in Holding /\ acquirer[b].id = i => b = a
    BY <1>2, <1>3 DEF Exclusive, Holding
  <1>12. TypeOK'
    BY <1>3, <1>5, <1>8, <1>10 DEF TypeOK, Row, evictVars
  <1>13. Held'
    BY <1>2, <1>3, <1>5, <1>9 DEF Held, Entered
  <1>14. Exclusive'
    BY <1>2, <1>3, <1>5, <1>9 DEF Exclusive, Holding
  <1>15. Waiters'
    BY <1>2, <1>3, <1>5, <1>9 DEF Waiters, Holding, At
  <1>16. Guarded'
    <2> SUFFICES ASSUME NEW b \in Acquirers
                 PROVE  /\ acquirer'[b].pc = "using" => pooled'[acquirer'[b].id].in_use
                        /\ acquirer'[b].pc = "granted" => pooled'[acquirer'[b].id].last_used = clock
      BY <1>3 DEF Guarded, At
    <2>1. CASE b = a
      BY <1>3, <1>5, <1>7, <1>9, <1>10, <2>1
    <2>2. CASE b # a
      BY <1>9, <1>10, <1>11, <2>2 DEF Guarded, Held, Entered, Holding, At
    <2> QED BY <2>1, <2>2
  <1>17. OneAtPool'
    BY <1>3, <1>5, <1>9 DEF OneAtPool, At
  <1>18. Evictions'
    BY <1>3, <1>5, <1>9 DEF Evictions, evictVars, Entered, At
  <1> QED BY <1>10, <1>12, <1>13, <1>14, <1>15, <1>16, <1>17, <1>18

(* The lock passes from its holder to a waiter, which finds the context    *)
(* last used right now.                                                    *)
LEMMA HandoverStep ==
  ASSUME NEW a \in Acquirers, PoolInv, acquirer[a].pc \in Holding,
         Handover(a, acquirer[a].id), UNCHANGED <<clock, contexts, made, evictVars>>,
         NEW q \in Pooled, q.key = pooled[acquirer[a].id].key,
         q.open = pooled[acquirer[a].id].open, q.last_used = clock,
         pooled' = [pooled EXCEPT ![acquirer[a].id] = q]
  PROVE  PoolInv'
  <1> USE DEF PoolInv
  <1>1. acquirer \in [Acquirers -> Row] /\ acquirer[a] \in Row
    BY DEF TypeOK, Row
  <1>2. PICK i : i = acquirer[a].id
    OBVIOUS
  <1>3. /\ acquirer[a].pc \in Holding /\ i \in 1..made /\ contexts[acquirer[a].key] = i
        /\ clock' = clock /\ contexts' = contexts /\ made' = made
    BY <1>2 DEF Held, Entered, Holding
  <1>4. /\ pooled' \in [1..made -> Pooled]
        /\ \A j \in 1..made : pooled'[j] = IF j = i THEN q ELSE pooled[j]
        /\ NoLeak' /\ Keyed'
    BY <1>2, <1>3, MarkContext
  <1>5. PICK next \in (IF WaitersOf(i) = {} THEN {a} ELSE WaitersOf(i)) :
            acquirer' = [b \in Acquirers |->
                            IF b = a THEN Away
                            ELSE IF b = next THEN [acquirer[b] EXCEPT !.pc = "granted"]
                            ELSE acquirer[b]]
    BY <1>2 DEF Handover
  <1>6. \A b \in Acquirers :
          IF b = a THEN acquirer'[b].pc = "idle"
          ELSE IF b = next THEN acquirer'[b].pc = "granted" /\ acquirer'[b].key = acquirer[b].key
                                /\ acquirer'[b].id = acquirer[b].id
          ELSE acquirer'[b] = acquirer[b]
    BY <1>1, <1>5, AwayRow DEF Row
  <1>7. /\ next \in Acquirers
        /\ next # a => acquirer[next].pc = "waiting" /\ acquirer[next].id = i
        /\ next = a => WaitersOf(i) = {}
    BY <1>3, <1>5 DEF WaitersOf, Holding
  <1>8. \A b \in Acquirers : acquirer[b].pc \in Holding /\ acquirer[b].id = i => b = a
    BY <1>2, <1>3 DEF Exclusive, Holding
  <1>9. TypeOK'
    <2>1. made \in Nat
      BY BrowserPoolAssumption DEF TypeOK
    <2>2. Away \in Row
      BY AwayRow
    <2>3. \A b \in Acquirers : [acquirer[b] EXCEPT !.pc = "granted"] \in Row
      BY <1>1 DEF Row, PCs
    <2>4. acquirer' \in [Acquirers -> Row]
      BY <1>1, <1>5, <2>2, <2>3
    <2>5. clock' \in 0..MaxTime /\ made' \in 0..MaxMade /\ contexts' \in [Keys -> 0..made]
      BY <1>3 DEF TypeOK
    <2> QED BY <1>3, <1>4, <2>4, <2>5 DEF TypeOK, Row, evictVars
  <1>10. Held'
    <2> SUFFICES ASSUME NEW b \in Acquirers, acquirer'[b].pc \in Entered
                 PROVE  acquirer'[b].id \in 1..made /\ contexts[acquirer'[b].key] = acquirer'[b].id
      BY <1>3 DEF Held
    <2>1. b # a /\ acquirer[b].pc \in Entered
      BY <1>6, <1>7 DEF Entered
    <2>2. acquirer'[b].id = acquirer[b].id /\ acquirer'[b].key = acquirer[b].key
      BY <1>6, <2>1
    <2> QED BY <2>1, <2>2 DEF Held
  <1>11. Exclusive'
    <2> SUFFICES ASSUME NEW b \in Acquirers, NEW c \in Acquirers,
                        acquirer'[b].pc \in Holding, acquirer'[c].pc \in Holding,
                        acquirer'[b].id = acquirer'[c].id
                 PROVE  b = c
      BY DEF Exclusive
    <2>1. b # a /\ c # a /\ acquirer[b].id = acquirer[c].id
      BY <1>6 DEF Holding
    <2>2. (b = next \/ acquirer[b].pc \in Holding) /\ (c = next \/ acquirer[c].pc \in Holding)
      BY <1>6, <2>1
    <2> QED BY <1>7, <1>8, <2>1, <2>2 DEF Exclusive
  <1>12. Waiters'
    <2> SUFFICES ASSUME NEW b \in Acquirers, acquirer'[b].pc = "waiting"
                 PROVE  \E c \in Acquirers : acquirer'[c].pc \in Holding /\ acquirer'[c].id = acquirer'[b].id
      BY DEF Waiters, At
    <2>1. b # a /\ acquirer'[b] = acquirer[b] /\ acquirer[b].pc = "waiting"
      BY <1>6
    <2>2. CASE acquirer[b].id = i
      <3>1. next # a
        BY <1>7, <2>1, <2>2 DEF WaitersOf
      <3>2. acquirer'[next].pc = "granted" /\ acquirer'[next].id = i
        BY <1>6, <1>7, <3>1
      <3> QED BY <1>7, <2>1, <2>2, <3>2 DEF Holding
    <2>3. CASE acquirer[b].id # i
      <3>1. PICK c \in Acquirers : acquirer[c].pc \in Holding /\ acquirer[c].id = acquirer[b].id
        BY <2>1 DEF Waiters, At
      <3>2. c # a /\ c # next
        BY <1>2, <1>7, <2>3, <3>1
      <3> QED BY <1>6, <2>1, <3>1, <3>2
    <2> QED BY <2>2, <2>3
  <1>13. Guarded'
    <2> SUFFICES ASSUME NEW b \in Acquirers
                 PROVE  /\ acquirer'[b].pc = "using" => pooled'[acquirer'[b].id].in_use
                        /\ acquirer'[b].pc = "granted" => pooled'[acquirer'[b].id].last_used = clock
      BY <1>3 DEF Guarded, At
    <2>1. CASE b = a
      BY <1>6, <2>1
    <2>2. CASE b # a /\ b = next
      BY <1>3, <1>4, <1>6, <1>7, <2>2
    <2>3. CASE b # a /\ b # next
      BY <1>4, <1>6, <1>8, <2>3 DEF Guarded, Held, Entered, Holding, At
    <2> QED BY <2>1, <2>2, <2>3
  <1>14. OneAtPool'
    <2>1. \A b \in Acquirers : acquirer'[b].pc \in {"evicting", "creating"} => acquirer'[b] = acquirer[b]
      BY <1>6
    <2> QED BY <1>3, <2>1 DEF OneAtPool, At
  <1>15. Evictions'
    <2>1. \A b \in Acquirers : acquirer[b].pc = "evicting" => acquirer'[b].pc = "evicting"
      BY <1>3, <1>6, <1>7 DEF Holding
    <2>2. \A b \in Acquirers : acquirer'[b].pc \in Entered =>
              acquirer[b].pc \in Entered /\ acquirer'[b].key = acquirer[b].key
      BY <1>6, <1>7 DEF Entered
    <2> QED BY <2>1, <2>2 DEF Evictions, evictVars, At
  <1> QED BY <1>4, <1>9, <1>10, <1>11, <1>12, <1>13, <1>14, <1>15

(* The holder is done, or is cancelled before it could begin.              *)
LEMMA ReleaseSteps ==
  ASSUME NEW a \in Acquirers, PoolInv, Release(a) \/ CancelGranted(a)
  PROVE  PoolInv'
  <1>1. /\ acquirer[a].pc \in Holding /\ Handover(a, acquirer[a].id)
        /\ UNCHANGED <<clock, contexts, made, evictVars>>
    BY DEF Release, CancelGranted, Holding, At
  <1>2. PICK i : i = acquirer[a].id
    OBVIOUS
  <1>3. i \in 1..made /\ pooled[i] \in Pooled /\ pooled \in [1..made -> Pooled]
    BY <1>1, <1>2 DEF PoolInv, TypeOK, Held, Entered, Holding
  <1>4. CASE Release(a)
    <2>1. PICK q : q = [pooled[i] EXCEPT !.in_use = FALSE, !.last_used = clock]
      OBVIOUS
    <2>2. q \in Pooled /\ q.key = pooled[i].key /\ q.open = pooled[i].open /\ q.last_used = clock
      BY <1>3, <2>1 DEF PoolInv, TypeOK, Pooled
    <2>3. pooled' = [pooled EXCEPT ![i] = q]
      BY <1>2, <1>3, <1>4, <2>1 DEF Release
    <2> QED BY <1>1, <1>2, <2>2, <2>3, HandoverStep
  <1>5. CASE CancelGranted(a)
    <2>1. PICK q : q = pooled[i]
      OBVIOUS
    <2>2. q.last_used = clock
      BY <1>2, <1>5, <2>1 DEF PoolInv, Guarded, CancelGranted
    <2>3. pooled' = [pooled EXCEPT ![i] = q]
      BY <1>3, <1>5, <2>1 DEF CancelGranted
    <2> QED BY <1>1, <1>2, <1>3, <2>1, <2>2, <2>3, HandoverStep
  <1> QED BY <1>4, <1>5

(* aclose empties the dict and leaves no caller behind.                    *)
LEMMA AcloseStep ==
  ASSUME PoolInv, Aclose
  PROVE  PoolInv'
  <1> USE DEF PoolInv
  <1>1. /\ made' = made /\ clock' = clock /\ acquirer' = acquirer /\ made \in Nat
        /\ contexts' = [k \in Keys |-> 0]
    BY BrowserPoolAssumption DEF Aclose, TypeOK
  <1>2. PICK kept \in SUBSET {i \in 1..made : pooled[i].open} :
            /\ pooled' = [i \in 1..made |-> [pooled[i] EXCEPT !.open = i \in kept]]
            /\ lost' = kept
    BY DEF Aclose
  <1>3. /\ pooled' \in [1..made -> Pooled]
        /\ \A i \in 1..made : pooled'[i].open <=> i \in kept
    <2>1. pooled \in [1..made -> Pooled]
      BY DEF TypeOK
    <2>2. \A i \in 1..made : \A open \in BOOLEAN :
            /\ [pooled[i] EXCEPT !.open = open] \in Pooled
            /\ [pooled[i] EXCEPT !.open = open].open = open
      BY <2>1 DEF Pooled
    <2>3. \A i \in 1..made : (i \in kept) \in BOOLEAN
      OBVIOUS
    <2>4. \A i \in 1..made : pooled'[i] \in Pooled /\ (pooled'[i].open <=> i \in kept)
      BY <1>2, <2>2, <2>3
    <2>5. pooled' \in [1..made -> Pooled]
      BY <1>2, <2>4
    <2> QED BY <2>4, <2>5
  <1>4. \A a \in Acquirers : acquirer'[a].pc = "idle" /\ acquirer[a].pc = "idle"
    BY <1>1 DEF Aclose, At
  <1>5. stale = {} /\ closing = 0 /\ stale' = {} /\ closing' = 0
    BY <1>4 DEF Evictions, At, Aclose
  <1>6. TypeOK'
    BY <1>1, <1>2, <1>3, <1>5 DEF TypeOK
  <1>7. NoLeak'
    <2>1. \A i \in 1..made : pooled'[i].key \in Keys /\ i # 0
      BY <1>3 DEF Pooled
    <2>2. \A i \in 1..made : contexts'[pooled'[i].key] = 0
      BY <1>1, <2>1
    <2> QED BY <1>1, <1>2, <1>3, <1>5, <2>1, <2>2 DEF NoLeak
  <1>8. Keyed'
    BY <1>1 DEF Keyed
  <1> QED
    BY <1>7, <1>8, <1>4, <1>5, <1>6
    DEF Held, Exclusive, Waiters, Guarded, OneAtPool, Evictions, Holding, Entered, At

LEMMA TickStep ==
  ASSUME PoolInv, Tick
  PROVE  PoolInv'
  <1>1. clock' \in 0..MaxTime
    BY BrowserPoolAssumption DEF PoolInv, TypeOK, Tick
  <1>2. TypeOK'
    BY <1>1 DEF PoolInv, TypeOK, Tick, evictVars
  <1> QED
    BY <1>2 DEF PoolInv, Tick, evictVars, NoLeak, Keyed, Held, Exclusive, Waiters, Guarded,
                OneAtPool, Evictions, At

(* Every step of the pool keeps PoolInv.                                   *)
LEMMA PoolInvStep == PoolInv /\ [Next]_vars => PoolInv'
  <1> SUFFICES ASSUME PoolInv, [Next]_vars PROVE PoolInv'
    OBVIOUS
  <1>1. CASE UNCHANGED vars
    BY <1>1
    DEF vars, evictVars, PoolInv, TypeOK, NoLeak, Keyed, Held, Exclusive, Waiters, Guarded,
        OneAtPool, Evictions, At
  <1>2. CASE Tick
    BY <1>2, TickStep
  <1>3. CASE Aclose
    BY <1>3, AcloseStep
  <1>4. ASSUME NEW a \in Acquirers,
               \/ \E k \in Keys : Acquire(a, k)
               \/ EvictStale(a) \/ PopStale(a) \/ Found(a) \/ Refuse(a) \/ Create(a) \/ Created(a)
               \/ CreateFails(a) \/ EnterGranted(a) \/ Release(a) \/ GiveUp(a)
               \/ CancelWaiting(a) \/ CancelGranted(a) \/ CancelCreating(a)
               \/ \E closed \in BOOLEAN : CloseEnds(a, closed) \/ CancelClosing(a, closed)
        PROVE  PoolInv'
    BY <1>4, OutsideSteps, EvictStep, PopStep, CloseStep, FoundStep, CreatingSteps, GrantedStep,
       ReleaseSteps
  <1> QED BY <1>1, <1>2, <1>3, <1>4 DEF Next

LEMMA PoolInvSafe == PoolInv => PoolSafe
  <1> SUFFICES ASSUME PoolInv PROVE UsersSafe
    BY DEF PoolInv, PoolSafe
  <1> SUFFICES ASSUME NEW a \in Acquirers, acquirer[a].pc = "using"
               PROVE  /\ pooled[acquirer[a].id].open
                      /\ contexts[acquirer[a].key] = acquirer[a].id
                      /\ \A b \in Acquirers : At(b, "using") /\ acquirer[b].id = acquirer[a].id
                                               => a = b
    BY DEF UsersSafe, At
  <1>1. acquirer[a].id \in 1..made /\ contexts[acquirer[a].key] = acquirer[a].id
    BY DEF PoolInv, Held, Entered
  <1>2. acquirer[a].key \in Keys /\ acquirer[a].id # 0
    BY <1>1 DEF PoolInv, TypeOK
  <1>3. pooled[acquirer[a].id].key = acquirer[a].key
    BY <1>1, <1>2 DEF PoolInv, Keyed
  <1>4. pooled[acquirer[a].id].open
    BY <1>1, <1>3 DEF PoolInv, NoLeak
  <1> QED BY <1>1, <1>4 DEF PoolInv, Exclusive, Holding, At

-----------------------------------------------------------------------------
(* Whatever callers the pool has (BrowserPool, browser_pool.py), a context *)
(* in use is open, is the one kept under its key and has one user, and a   *)
(* context leaves the dict open only while it is being closed, or for good *)
(* by a close that failed or a caller that was cancelled.                  *)
THEOREM PoolAlwaysSafe == Spec => []PoolSafe
  <1>1. Spec => []PoolInv
    BY PoolInitial, PoolInvStep, PTL DEF Spec
  <1> QED BY <1>1, PoolInvSafe, PTL

(* A request's namespace has a key of the pool.                            *)
LEMMA NamespaceKey == \A q : KeyOf[Namespace(q)] \in Keys
  BY VisaAssumption DEF Namespace

(* What the worker does to the pool is a step of the pool, with the worker *)
(* as the caller, or nothing.                                              *)
LEMMA WorkerUsesPool == [PortalNext]_allVars => [Next]_vars
  <1> SUFFICES ASSUME [PortalNext]_allVars PROVE [Next]_vars
    OBVIOUS
  <1>1. CASE UNCHANGED allVars
    BY <1>1 DEF allVars
  <1>2. CASE WorkerStep
    <2>1. CASE Pick
      <3>1. CASE UNCHANGED vars
        BY <3>1
      <3>2. CASE \E k \in Keys : Acquire(Worker, k)
        BY <3>2, VisaAssumption DEF Next
      <3>3. UNCHANGED vars \/ Acquire(Worker, KeyOf[Namespace(Request(Head(queue)))])
        BY <2>1 DEF Pick
      <3> QED BY <3>1, <3>2, <3>3, NamespaceKey
    <2>2. CASE PoolStep \/ CloseFails
      BY <2>2, VisaAssumption DEF PoolStep, CloseFails, Next
    <2>3. CASE NoContext
      BY <2>3, VisaAssumption DEF NoContext, Next
    <2>4. CASE StepEnds
      BY <2>4 DEF StepEnds
    <2>5. CASE HandlerRaises
      BY <2>5 DEF HandlerRaises
    <2>6. CASE CaptureFailure
      BY <2>6 DEF CaptureFailure
    <2>7. CASE LeavePage
      BY <2>7, VisaAssumption DEF LeavePage, Next
    <2>8. CASE \E error \in {"TimeoutError", "Error"} : NoPage(error)
      BY <2>8, VisaAssumption DEF NoPage, Next
    <2>9. CASE \E effect \in BOOLEAN : StepFails(effect)
      BY <2>9 DEF StepFails
    <2> QED BY <1>2, <2>1, <2>2, <2>3, <2>4, <2>5, <2>6, <2>7, <2>8, <2>9 DEF WorkerStep
  <1>3. CASE StatusMoves
    BY <1>3 DEF StatusMoves
  <1>4. CASE TimePasses
    BY <1>4 DEF TimePasses, Next
  <1>5. CASE PoolAlone
    BY <1>5 DEF PoolAlone
  <1>6. ASSUME NEW c \in Calls, Submit(c) \/ Expire(c) \/ WaitForResult(c) PROVE [Next]_vars
    BY <1>6 DEF Submit, Expire, WaitForResult
  <1>7. ASSUME NEW t, TakeSlot(t) PROVE [Next]_vars
    BY <1>7 DEF TakeSlot
  <1> QED BY <1>1, <1>2, <1>3, <1>4, <1>5, <1>6, <1>7 DEF PortalNext

(* A worker with its handlers, retries and failures implements a caller of *)
(* the pool (worker.py over browser_pool.py).                              *)
THEOREM WorkerImplementsPool == PortalSpec => Spec
  <1>1. PortalInit => Init
    BY DEF PortalInit
  <1> QED BY <1>1, WorkerUsesPool, PTL DEF PortalSpec, Spec

(* So the pool stays safe under a worker and its jobs, however many steps  *)
(* fail and however often a job is retried.                                *)
THEOREM PoolSafeUnderWorker == PortalSpec => []PoolSafe
  BY WorkerImplementsPool, PoolAlwaysSafe, PTL
=============================================================================
