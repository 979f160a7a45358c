----------------------- MODULE TenantServices_proofs -----------------------
(***************************************************************************)
(* Proofs about what turns share for their tenants: the cache of driver    *)
(* registries loses none and closes none that is in use by the cache, a    *)
(* tenant's drivers have its own credentials, the rate limiter keeps to    *)
(* its windows, the daily budget is passed by no more than the turns under *)
(* way can use, and a PATCH of the settings keeps the other columns; for   *)
(* any number of turns, tenants and administrators.                        *)
(***************************************************************************)
EXTENDS TenantServices, TLAPS, SequenceTheorems, FiniteSetTheorems, NaturalsInduction,
        WellFoundedInduction

Holding == {"amadeus", "tbo", "cache", "evict"}
Building == {"amadeus", "tbo", "cache"}

IsTurn(r) ==
    /\ r = [at |-> r.at, tenant |-> r.tenant, settings |-> r.settings, reg |-> r.reg,
            drivers |-> r.drivers, degraded |-> r.degraded]
    /\ r.drivers = [p \in Providers |-> r.drivers[p]]
    /\ r.tenant \in Tenants

IsRegistry(x) ==
    x = [tenant |-> x.tenant, open |-> x.open, drivers |-> x.drivers,
         degraded |-> x.degraded, offered |-> x.offered]

PerProvider(v) == v = [t \in Tenants |-> [p \in Providers |-> v[t][p]]]

Turned == turn = [u \in Turns |-> turn[u]] /\ \A u \in Turns : IsTurn(turn[u])

(* Registries and the cache are sequences, of registries and of their      *)
(* numbers.                                                                *)
Numbered ==
    /\ Len(reg) \in Nat /\ reg = [i \in 1..Len(reg) |-> reg[i]]
    /\ \A i \in 1..Len(reg) : IsRegistry(reg[i])
    /\ entries \in Seq(1..Len(reg))
    /\ closing \subseteq 1..Len(reg)

(* The lock is held by the turn that builds or evicts.                     *)
Locked == lock \in Turns \cup {"free"} /\ \A u \in Turns : turn[u].at \in Holding <=> lock = u

(* A registry is built for a tenant that has none; it can make the cache   *)
(* one too large.                                                          *)
OnePerTenant ==
    /\ \A i, j \in 1..Len(entries) : reg[entries[i]].tenant = reg[entries[j]].tenant => i = j
    /\ \A u \in Turns : turn[u].at \in Building =>
          \A i \in 1..Len(entries) : reg[entries[i]].tenant # turn[u].tenant

Roomy ==
    \/ Len(entries) <= MaxEntries
    \/ /\ Len(entries) = MaxEntries + 1
       /\ \E u \in Turns : lock = u /\ turn[u].at = "evict"

(* What is cached is open and is not being closed; what is open is known.  *)
Accounted ==
    /\ \A i \in 1..Len(entries) : reg[entries[i]].open /\ entries[i] \notin closing
    /\ \A i \in 1..Len(reg) : reg[i].open =>
          i \in closing \/ i \in abandoned \/ \E k \in 1..Len(entries) : entries[k] = i

CacheInv == Turned /\ Numbered /\ Locked /\ OnePerTenant /\ Roomy /\ Accounted

-----------------------------------------------------------------------------
(* Driver d of provider p has the credentials of one of the payloads, or   *)
(* those of the house h.                                                   *)
OwnDriver(h, d, p, degraded, payloads) ==
    IF p \in degraded
    THEN d.login = Get(h[p], "login", "")
    ELSE \E payload \in payloads :
            /\ d.login = Get(payload.fields, "login", Get(payload.meta, "login", ""))
            /\ d.base = Get(payload.fields, "base", Get(payload.meta, "base", "default"))

OwnDrivers(h, drivers, degraded, off) ==
    \A p \in Providers : \A d \in drivers[p] : OwnDriver(h, d, p, degraded, off[p])

(* A blob that opens with key k holds what was put in its place.           *)
Stored ==
    /\ WasPut(kms, vault, plain) /\ PerProvider(offered)
    /\ \A t \in Tenants, p \in Providers : plain[t][p] \subseteq offered[t][p]

(* The part of it about one tenant and provider.                           *)
InPlace(k, t, p, blobs, payloads, off) ==
    /\ payloads \subseteq off
    /\ \A b \in blobs : b.key = k /\ b.aad = Context(t, p) => b.payload \in payloads

(* While a turn builds, its drivers come from what was offered since it    *)
(* began.                                                                  *)
ResolvedRow(h, r, off) ==
    /\ r.at \notin {"tbo", "cache"} => r.drivers = NoDrivers
    /\ r.at = "amadeus" => r.degraded = {}
    /\ r.at = "tbo" => "tbo" \notin r.degraded
    /\ OwnDrivers(h, r.drivers, r.degraded, off[r.tenant])

Resolved == \A u \in Turns : ResolvedRow(house, turn[u], offered)

Owned ==
    \A i \in 1..Len(reg) : OwnDrivers(house, reg[i].drivers, reg[i].degraded, reg[i].offered)

RegistryInv == CacheInv /\ Stored /\ Resolved /\ Owned

-----------------------------------------------------------------------------
(* Rows of turns.                                                          *)

LEMMA TurnSet ==
  ASSUME Turned, NEW u \in Turns, NEW q, IsTurn(q), turn' = [turn EXCEPT ![u] = q]
  PROVE  Turned' /\ turn'[u] = q /\ \A v \in Turns : v # u => turn'[v] = turn[v]
  <1>1. turn'[u] = q /\ \A v \in Turns : v # u => turn'[v] = turn[v]
    BY DEF Turned
  <1>2. turn' = [v \in Turns |-> turn'[v]]
    BY DEF Turned
  <1>3. \A v \in Turns : IsTurn(turn'[v])
    BY <1>1 DEF Turned
  <1> QED BY <1>1, <1>2, <1>3 DEF Turned

LEMMA IdleTyped == /\ IsTurn(IdleTurn) /\ IdleTurn.at = "idle" /\ IdleTurn.drivers = NoDrivers
  BY TenantAssumption DEF IsTurn, IdleTurn, NoDrivers

(* Goto and the like change some fields of a row.                          *)
LEMMA GotoTyped ==
  ASSUME Turned, NEW u \in Turns, NEW stage
  PROVE  LET q == [turn[u] EXCEPT !.at = stage] IN
         /\ IsTurn(q) /\ q.at = stage /\ q.drivers = turn[u].drivers
         /\ q.tenant = turn[u].tenant /\ q.degraded = turn[u].degraded
         /\ [turn EXCEPT ![u].at = stage] = [turn EXCEPT ![u] = q]
  <1>1. PICK r : r = turn[u]
    OBVIOUS
  <1>2. IsTurn(r)
    BY <1>1 DEF Turned
  <1>3. PICK q : q = [r EXCEPT !.at = stage]
    OBVIOUS
  <1>4. /\ q.at = stage /\ q.drivers = r.drivers /\ q.tenant = r.tenant
        /\ q.degraded = r.degraded /\ q.settings = r.settings /\ q.reg = r.reg
    BY <1>2, <1>3 DEF IsTurn
  <1>5. IsTurn(q)
    BY <1>2, <1>3, <1>4 DEF IsTurn
  <1>6. [turn EXCEPT ![u].at = stage] = [turn EXCEPT ![u] = q]
    BY <1>1, <1>3 DEF Turned
  <1> QED BY <1>1, <1>3, <1>4, <1>5, <1>6

-----------------------------------------------------------------------------
(* Steps that do not touch the registries.                                 *)

(* A turn that neither builds nor evicts moves on.                         *)
LEMMA Outside ==
  ASSUME RegistryInv, NEW u \in Turns, NEW q, IsTurn(q), turn' = [turn EXCEPT ![u] = q],
         turn[u].at \notin Holding, q.at \notin Holding, q.drivers = NoDrivers,
         UNCHANGED registryVars
  PROVE  RegistryInv'
  <1>1. Turned' /\ turn'[u] = q /\ \A v \in Turns : v # u => turn'[v] = turn[v]
    BY TurnSet DEF RegistryInv, CacheInv
  <1>2. /\ entries' = entries /\ lock' = lock /\ reg' = reg /\ closing' = closing
        /\ abandoned' = abandoned /\ vault' = vault /\ plain' = plain /\ offered' = offered
        /\ house' = house /\ kms' = kms
    BY DEF registryVars, vaultVars
  <1>3. Numbered' /\ Accounted' /\ Stored'
    BY <1>2 DEF RegistryInv, CacheInv, Numbered, Accounted, Stored
  <1>4. Locked'
    BY <1>1, <1>2 DEF RegistryInv, CacheInv, Locked
  <1>5. OnePerTenant'
    BY <1>1, <1>2 DEF RegistryInv, CacheInv, OnePerTenant, Building, Holding
  <1>6. Roomy'
    BY <1>1, <1>2 DEF RegistryInv, CacheInv, Roomy, Holding
  <1>7. Resolved'
    <2>1. ResolvedRow(house, q, offered)
      BY DEF ResolvedRow, Holding, OwnDrivers, NoDrivers
    <2>2. \A v \in Turns : ResolvedRow(house, turn'[v], offered)
      BY <1>1, <2>1 DEF RegistryInv, Resolved
    <2> QED BY <1>2, <2>2 DEF Resolved
  <1>8. Owned'
    BY <1>2 DEF RegistryInv, Owned
  <1> QED BY <1>1, <1>3, <1>4, <1>5, <1>6, <1>7, <1>8 DEF RegistryInv, CacheInv

LEMMA NoTurnMoves ==
  ASSUME RegistryInv, turn' = turn, UNCHANGED registryVars
  PROVE  RegistryInv'
  <1>1. /\ entries' = entries /\ lock' = lock /\ reg' = reg /\ closing' = closing
        /\ abandoned' = abandoned /\ vault' = vault /\ plain' = plain /\ offered' = offered
        /\ house' = house /\ kms' = kms
    BY DEF registryVars, vaultVars
  <1>2. Turned' /\ Numbered' /\ Accounted' /\ Locked' /\ OnePerTenant' /\ Roomy'
    BY <1>1 DEF RegistryInv, CacheInv, Turned, Numbered, Accounted, Locked, OnePerTenant, Roomy
  <1>3. Stored' /\ Resolved' /\ Owned'
    BY <1>1 DEF RegistryInv, Stored, Resolved, Owned
  <1> QED BY <1>2, <1>3 DEF RegistryInv, CacheInv

LEMMA GotoMove ==
  ASSUME RegistryInv, NEW u \in Turns, NEW stage, Goto(u, stage), turn[u].at \notin Holding,
         stage \notin Holding, UNCHANGED registryVars
  PROVE  RegistryInv'
  <1>1. PICK q : q = [turn[u] EXCEPT !.at = stage]
    OBVIOUS
  <1>2. /\ IsTurn(q) /\ q.at = stage /\ q.drivers = turn[u].drivers
        /\ [turn EXCEPT ![u].at = stage] = [turn EXCEPT ![u] = q]
    BY <1>1, GotoTyped DEF RegistryInv, CacheInv
  <1>3. q.drivers = NoDrivers
    BY <1>2 DEF RegistryInv, Resolved, ResolvedRow, Holding
  <1>4. turn' = [turn EXCEPT ![u] = q]
    BY <1>2 DEF Goto
  <1> QED BY <1>2, <1>3, <1>4, Outside

LEMMA EndMove ==
  ASSUME RegistryInv, NEW u \in Turns, End(u), turn[u].at \notin Holding,
         UNCHANGED registryVars
  PROVE  RegistryInv'
  <1>1. turn' = [turn EXCEPT ![u] = IdleTurn]
    BY DEF End
  <1>2. IdleTurn.at \notin Holding
    BY IdleTyped DEF Holding
  <1> QED BY <1>1, <1>2, IdleTyped, Outside

(* Steps of a turn between its tools.                                      *)
LEMMA GateSteps ==
  ASSUME RegistryInv, NEW u \in Turns,
         \/ \E t \in Tenants : Begin(u, t)
         \/ Load(u) \/ LoadFails(u) \/ Store(u) \/ Check(u) \/ Enforce(u) \/ Used(u)
         \/ \E tokens \in 0 .. TurnTokens : Respond(u, tokens)
         \/ Record(u) \/ CostsFail(u)
  PROVE  RegistryInv'
  <1>0. Turned /\ IsTurn(turn[u])
    BY DEF RegistryInv, CacheInv, Turned
  <1>1. ASSUME NEW t \in Tenants, Begin(u, t) PROVE RegistryInv'
    <2>1. PICK stage : stage = IF cached[t] = NoRow THEN "load" ELSE "rate"
      OBVIOUS
    <2>2. PICK q : q = [IdleTurn EXCEPT !.tenant = t, !.settings = cached[t], !.at = stage]
      OBVIOUS
    <2>3. /\ turn' = [turn EXCEPT ![u] = q] /\ turn[u].at = "idle" /\ UNCHANGED registryVars
      BY <1>1, <2>1, <2>2 DEF Begin, At
    <2>4. stage \notin Holding /\ turn[u].at \notin Holding
      BY <2>1, <2>3 DEF Holding
    <2>5. IsTurn(q) /\ q.at = stage /\ q.drivers = NoDrivers
      BY <2>2 DEF IsTurn, IdleTurn, NoDrivers
    <2> QED BY <2>3, <2>4, <2>5, Outside
  <1>2. CASE Load(u)
    <2>1. PICK x : x = IF row[turn[u].tenant].there THEN row[turn[u].tenant]
                       ELSE [DefaultRow EXCEPT !.there = FALSE]
      OBVIOUS
    <2>2. PICK q : q = [turn[u] EXCEPT !.at = "store", !.settings = x]
      OBVIOUS
    <2>3. turn[u].at = "load" /\ UNCHANGED registryVars
          /\ turn' = [turn EXCEPT ![u].at = "store", ![u].settings = x]
      BY <1>2, <2>1 DEF Load, At
    <2>4. turn' = [turn EXCEPT ![u] = q]
      BY <1>0, <2>2, <2>3 DEF Turned
    <2>5. IsTurn(q) /\ q.at = "store" /\ q.drivers = turn[u].drivers
      BY <1>0, <2>2 DEF IsTurn
    <2>6. q.drivers = NoDrivers /\ q.at \notin Holding /\ turn[u].at \notin Holding
      BY <2>3, <2>5 DEF RegistryInv, Resolved, ResolvedRow, Holding
    <2> QED BY <2>3, <2>4, <2>5, <2>6, Outside
  <1>3. CASE LoadFails(u)
    <2>2. PICK q : q = [turn[u] EXCEPT !.at = "rate", !.settings = Unknown]
      OBVIOUS
    <2>3. turn[u].at = "load" /\ UNCHANGED registryVars
          /\ turn' = [turn EXCEPT ![u].at = "rate", ![u].settings = Unknown]
      BY <1>3 DEF LoadFails, At
    <2>4. turn' = [turn EXCEPT ![u] = q]
      BY <1>0, <2>2, <2>3 DEF Turned
    <2>5. IsTurn(q) /\ q.at = "rate" /\ q.drivers = turn[u].drivers
      BY <1>0, <2>2 DEF IsTurn
    <2>6. q.drivers = NoDrivers /\ q.at \notin Holding /\ turn[u].at \notin Holding
      BY <2>3, <2>5 DEF RegistryInv, Resolved, ResolvedRow, Holding
    <2> QED BY <2>3, <2>4, <2>5, <2>6, Outside
  <1>4. CASE Store(u)
    <2>1. /\ turn[u].at \notin Holding /\ "rate" \notin Holding /\ Goto(u, "rate")
          /\ UNCHANGED registryVars
      BY <1>4 DEF Store, At, Holding
    <2> QED BY <2>1, GotoMove
  <1>5. CASE Check(u)
    <2>1. /\ turn[u].at \notin Holding /\ "budget" \notin Holding
          /\ End(u) \/ Goto(u, "budget")
      BY <1>5 DEF Check, Judge, At, Holding
    <2>2. UNCHANGED registryVars
      BY <1>5 DEF Check
    <2> QED BY <2>1, <2>2, GotoMove, EndMove
  <1>6. CASE Enforce(u)
    <2>1. /\ turn[u].at \notin Holding /\ "model" \notin Holding
          /\ End(u) \/ Goto(u, "model")
      BY <1>6 DEF Enforce, At, Holding
    <2>2. UNCHANGED registryVars
      BY <1>6 DEF Enforce
    <2> QED BY <2>1, <2>2, GotoMove, EndMove
  <1>7. CASE Used(u)
    <2>2. PICK q : q = [turn[u] EXCEPT !.at = "model", !.reg = 0]
      OBVIOUS
    <2>3. turn[u].at = "use" /\ UNCHANGED registryVars
          /\ turn' = [turn EXCEPT ![u].at = "model", ![u].reg = 0]
      BY <1>7 DEF Used, At
    <2>4. turn' = [turn EXCEPT ![u] = q]
      BY <1>0, <2>2, <2>3 DEF Turned
    <2>5. IsTurn(q) /\ q.at = "model" /\ q.drivers = turn[u].drivers
      BY <1>0, <2>2 DEF IsTurn
    <2>6. q.drivers = NoDrivers /\ q.at \notin Holding /\ turn[u].at \notin Holding
      BY <2>3, <2>5 DEF RegistryInv, Resolved, ResolvedRow, Holding
    <2> QED BY <2>3, <2>4, <2>5, <2>6, Outside
  <1>8. ASSUME NEW tokens \in 0 .. TurnTokens, Respond(u, tokens) PROVE RegistryInv'
    <2>1. /\ turn[u].at \notin Holding /\ "record" \notin Holding /\ Goto(u, "record")
          /\ UNCHANGED registryVars
      BY <1>8 DEF Respond, At, Holding
    <2> QED BY <2>1, GotoMove
  <1>9. CASE Record(u) \/ CostsFail(u)
    <2>1. turn[u].at \notin Holding /\ End(u) /\ UNCHANGED registryVars
      BY <1>9 DEF Record, CostsFail, At, Holding
    <2> QED BY <2>1, EndMove
  <1> QED BY <1>1, <1>2, <1>3, <1>4, <1>5, <1>6, <1>7, <1>8, <1>9

-----------------------------------------------------------------------------
(* Sequences.                                                              *)

LEMMA Added ==
  ASSUME NEW s, Len(s) \in Nat, s = [i \in 1..Len(s) |-> s[i]], NEW x
  PROVE  /\ Len(Append(s, x)) = Len(s) + 1
         /\ Append(s, x) = [i \in 1..(Len(s) + 1) |-> Append(s, x)[i]]
         /\ \A i \in 1..Len(s) : Append(s, x)[i] = s[i]
         /\ Append(s, x)[Len(s) + 1] = x
  <1>1. PICK S : S = {s[i] : i \in 1..Len(s)} \cup {x}
    OBVIOUS
  <1>2. s \in [1..Len(s) -> S]
    BY <1>1
  <1>3. s \in Seq(S) /\ x \in S
    BY <1>1, <1>2
  <1>4. /\ Append(s, x) \in Seq(S) /\ Len(Append(s, x)) = Len(s) + 1
        /\ \A i \in 1..Len(s) : Append(s, x)[i] = s[i]
        /\ Append(s, x)[Len(s) + 1] = x
    BY <1>3, AppendProperties
  <1>5. Append(s, x) \in [1..(Len(s) + 1) -> S]
    BY <1>4, LenProperties
  <1> QED BY <1>4, <1>5

(* The elements of a sequence from which the i-th is moved to the end.     *)
LEMMA MovedToEnd ==
  ASSUME NEW S, NEW s \in Seq(S), NEW i \in 1..Len(s)
  PROVE  LET g == Append(RemoveAt(s, i), s[i]) IN
         /\ g \in Seq(S) /\ Len(g) = Len(s)
         /\ \A k \in 1..Len(s) : g[k] = IF k < i THEN s[k]
                                        ELSE IF k < Len(s) THEN s[k + 1] ELSE s[i]
  <1>1. Len(s) \in Nat /\ i \in Nat /\ 1 <= i /\ i <= Len(s)
    BY LenProperties
  <1>2. PICK a : a = SubSeq(s, 1, i - 1)
    OBVIOUS
  <1>3. PICK b : b = SubSeq(s, i + 1, Len(s))
    OBVIOUS
  <1>4. a \in Seq(S) /\ Len(a) = i - 1
    BY <1>1, <1>2
  <1>5. \A k \in 1..(i - 1) : a[k] = s[k]
    BY <1>1, <1>2
  <1>6. b \in Seq(S) /\ Len(b) = Len(s) - i
    BY <1>1, <1>3
  <1>7. \A k \in 1..(Len(s) - i) : b[k] = s[i + k]
    BY <1>1, <1>3
  <1>8. PICK c : c = a \o b
    OBVIOUS
  <1>9. /\ c \in Seq(S) /\ Len(c) = Len(a) + Len(b)
        /\ \A k \in 1..(Len(a) + Len(b)) : c[k] = IF k <= Len(a) THEN a[k] ELSE b[k - Len(a)]
    BY <1>4, <1>6, <1>8, ConcatProperties
  <1>10. Len(c) = Len(s) - 1
    BY <1>1, <1>4, <1>6, <1>9
  <1>11. ASSUME NEW k \in 1..(Len(s) - 1) PROVE c[k] = IF k < i THEN s[k] ELSE s[k + 1]
    <2>1. k \in Nat /\ k \in 1..(Len(a) + Len(b)) /\ Len(a) = i - 1
      BY <1>1, <1>4, <1>6
    <2>2. CASE k < i
      <3>1. k <= Len(a) /\ k \in 1..(i - 1)
        BY <1>1, <2>1, <2>2
      <3> QED BY <1>5, <1>9, <2>1, <2>2, <3>1
    <2>3. CASE ~(k < i)
      <3>1. ~(k <= Len(a)) /\ k - Len(a) \in 1..(Len(s) - i) /\ i + (k - Len(a)) = k + 1
        BY <1>1, <2>1, <2>3
      <3> QED BY <1>7, <1>9, <2>1, <2>3, <3>1
    <2> QED BY <2>2, <2>3
  <1>12. s[i] \in S
    BY ElementOfSeq
  <1>13. PICK g : g = Append(c, s[i])
    OBVIOUS
  <1>14. /\ g \in Seq(S) /\ Len(g) = Len(c) + 1 /\ g[Len(c) + 1] = s[i]
         /\ \A k \in 1..Len(c) : g[k] = c[k]
    BY <1>9, <1>12, <1>13, AppendProperties
  <1>15. Len(g) = Len(s)
    BY <1>1, <1>10, <1>14
  <1>16. ASSUME NEW k \in 1..Len(s)
         PROVE  g[k] = IF k < i THEN s[k] ELSE IF k < Len(s) THEN s[k + 1] ELSE s[i]
    <2>1. CASE k = Len(s)
      <3>1. k = Len(c) + 1 /\ ~(k < i) /\ ~(k < Len(s))
        BY <1>1, <1>10, <2>1
      <3> QED BY <1>14, <3>1
    <2>2. CASE k # Len(s)
      <3>1. k \in 1..(Len(s) - 1) /\ k \in 1..Len(c) /\ k < Len(s)
        BY <1>1, <1>10, <2>2
      <3> QED BY <1>11, <1>14, <3>1
    <2> QED BY <2>1, <2>2
  <1>17. g = Append(RemoveAt(s, i), s[i])
    BY <1>2, <1>3, <1>8, <1>13 DEF RemoveAt
  <1> QED BY <1>14, <1>15, <1>16, <1>17

-----------------------------------------------------------------------------
(* Steps of the registry.                                                  *)

LEMMA CacheFacts ==
  ASSUME RegistryInv
  PROVE  /\ Turned /\ Numbered /\ Locked /\ OnePerTenant /\ Roomy /\ Accounted
         /\ Stored /\ Resolved /\ Owned
         /\ Len(entries) \in Nat /\ DOMAIN entries = 1..Len(entries)
         /\ \A i \in 1..Len(entries) : entries[i] \in 1..Len(reg)
  <1>1. Numbered
    BY DEF RegistryInv, CacheInv
  <1>2. Len(entries) \in Nat /\ DOMAIN entries = 1..Len(entries)
    BY <1>1, LenProperties DEF Numbered
  <1>3. \A i \in 1..Len(entries) : entries[i] \in 1..Len(reg)
    BY <1>1, ElementOfSeq DEF Numbered
  <1> QED BY <1>1, <1>2, <1>3 DEF RegistryInv, CacheInv

(* With the lock free nobody builds.                                       *)
LEMMA FreeLock ==
  ASSUME Locked, lock = "free"
  PROVE  \A u \in Turns : turn[u].at \notin Holding
  BY TenantAssumption DEF Locked

LEMMA GetHitStep ==
  ASSUME RegistryInv, NEW u \in Turns, GetHit(u)
  PROVE  RegistryInv'
  <1>1. /\ Turned /\ Numbered /\ Locked /\ OnePerTenant /\ Roomy /\ Accounted
        /\ Stored /\ Resolved /\ Owned
        /\ Len(entries) \in Nat /\ DOMAIN entries = 1..Len(entries)
        /\ \A i \in 1..Len(entries) : entries[i] \in 1..Len(reg)
    BY CacheFacts
  <1>2. PICK i \in 1..Len(entries) :
          /\ entries' = Append(RemoveAt(entries, i), entries[i])
          /\ turn' = [turn EXCEPT ![u].at = "use", ![u].reg = entries[i]]
    BY <1>1 DEF GetHit, Cached
  <1>3. /\ lock = "free" /\ turn[u].at = "model" /\ lock' = lock /\ reg' = reg
        /\ closing' = closing /\ abandoned' = abandoned /\ vault' = vault /\ plain' = plain
        /\ offered' = offered /\ house' = house /\ kms' = kms
    BY DEF GetHit, At, vaultVars
  <1>4. PICK q : q = [turn[u] EXCEPT !.at = "use", !.reg = entries[i]]
    OBVIOUS
  <1>5. turn' = [turn EXCEPT ![u] = q]
    BY <1>1, <1>2, <1>4 DEF Turned
  <1>6. IsTurn(q) /\ q.at = "use" /\ q.drivers = turn[u].drivers
    <2>1. PICK r : r = turn[u]
      OBVIOUS
    <2>2. IsTurn(r)
      BY <1>1, <2>1 DEF Turned
    <2>3. q = [r EXCEPT !.at = "use", !.reg = entries[i]]
      BY <1>4, <2>1
    <2>4. IsTurn(q) /\ q.at = "use" /\ q.drivers = r.drivers
      BY <2>2, <2>3 DEF IsTurn
    <2> QED BY <2>1, <2>4
  <1>7. Turned' /\ turn'[u] = q /\ \A v \in Turns : v # u => turn'[v] = turn[v]
    BY <1>1, <1>5, <1>6, TurnSet
  <1>8. \A v \in Turns : turn[v].at \notin Holding /\ turn'[v].at \notin Holding
    <2>1. \A v \in Turns : turn[v].at \notin Holding
      BY <1>1, <1>3, FreeLock
    <2> QED BY <1>6, <1>7, <2>1 DEF Holding
  <1>9. PICK n : n = Len(entries)
    OBVIOUS
  <1>10. /\ entries' \in Seq(1..Len(reg)) /\ Len(entries') = n
         /\ \A k \in 1..n : entries'[k] = IF k < i THEN entries[k]
                                         ELSE IF k < n THEN entries[k + 1] ELSE entries[i]
    BY <1>1, <1>2, <1>9, MovedToEnd DEF Numbered
  <1>11. ASSUME NEW k \in 1..n
         PROVE  \E j \in 1..n : /\ entries'[k] = entries[j]
                                /\ j = IF k < i THEN k ELSE IF k < n THEN k + 1 ELSE i
    BY <1>1, <1>2, <1>9, <1>10
  <1>12. ASSUME NEW j \in 1..n PROVE \E k \in 1..n : entries'[k] = entries[j]
    <2>1. CASE j < i
      BY <1>10, <2>1
    <2>2. CASE j = i
      <3>1. n \in 1..n /\ ~(n < i) /\ ~(n < n)
        BY <1>1, <1>2, <1>9
      <3> QED BY <1>10, <2>2, <3>1
    <2>3. CASE j > i
      <3>1. j - 1 \in 1..n /\ ~(j - 1 < i) /\ j - 1 < n /\ (j - 1) + 1 = j
        BY <1>1, <1>2, <1>9, <2>3
      <3> QED BY <1>10, <3>1
    <2>4. j < i \/ j = i \/ j > i
      <3>1. i \in Int /\ j \in Int
        OBVIOUS
      <3> QED BY <3>1
    <2> QED BY <2>1, <2>2, <2>3, <2>4
  <1>13. Numbered'
    BY <1>1, <1>3, <1>10 DEF Numbered
  <1>14. Locked'
    BY <1>1, <1>3, <1>8 DEF Locked
  <1>15. OnePerTenant'
    <2>1. ASSUME NEW k \in 1..n, NEW l \in 1..n,
                 reg[entries'[k]].tenant = reg[entries'[l]].tenant
          PROVE  k = l
      <3>1. PICK j \in 1..n : /\ entries'[k] = entries[j]
                              /\ j = IF k < i THEN k ELSE IF k < n THEN k + 1 ELSE i
        BY <1>11
      <3>2. PICK m \in 1..n : /\ entries'[l] = entries[m]
                              /\ m = IF l < i THEN l ELSE IF l < n THEN l + 1 ELSE i
        BY <1>11
      <3>3. j = m
        BY <1>1, <1>9, <2>1, <3>1, <3>2 DEF OnePerTenant
      <3> QED BY <1>1, <1>2, <1>9, <3>1, <3>2, <3>3
    <2> QED BY <1>3, <1>8, <1>10, <2>1 DEF OnePerTenant, Building, Holding
  <1>16. Roomy'
    <2>1. Len(entries) <= MaxEntries
      BY <1>1, <1>3, TenantAssumption DEF Roomy
    <2> QED BY <1>9, <1>10, <2>1 DEF Roomy
  <1>17. Accounted'
    <2>1. \A k \in 1..n : reg[entries'[k]].open /\ entries'[k] \notin closing
      BY <1>1, <1>9, <1>11 DEF Accounted
    <2>2. \A x \in 1..Len(reg) : reg[x].open =>
             x \in closing \/ x \in abandoned \/ \E k \in 1..n : entries'[k] = x
      <3>1. \A x \in 1..Len(reg) : reg[x].open =>
               x \in closing \/ x \in abandoned \/ \E k \in 1..n : entries[k] = x
        BY <1>1, <1>9 DEF Accounted
      <3>2. \A j \in 1..n : \E k \in 1..n : entries'[k] = entries[j]
        BY <1>12
      <3> QED BY <3>1, <3>2
    <2> QED BY <1>3, <1>10, <2>1, <2>2 DEF Accounted
  <1>18. Resolved'
    <2>1. q.drivers = NoDrivers
      BY <1>1, <1>3, <1>6 DEF Resolved, ResolvedRow
    <2>2. ResolvedRow(house, q, offered)
      BY <1>6, <2>1 DEF ResolvedRow, OwnDrivers, NoDrivers
    <2>3. \A v \in Turns : ResolvedRow(house, turn'[v], offered)
      BY <1>1, <1>7, <2>2 DEF Resolved
    <2> QED BY <1>3, <2>3 DEF Resolved
  <1>19. Stored' /\ Owned'
    BY <1>1, <1>3 DEF Stored, Owned
  <1> QED BY <1>7, <1>13, <1>14, <1>15, <1>16, <1>17, <1>18, <1>19 DEF RegistryInv, CacheInv

LEMMA GetMissStep ==
  ASSUME RegistryInv, NEW u \in Turns, GetMiss(u)
  PROVE  RegistryInv'
  <1>1. /\ Turned /\ Numbered /\ Locked /\ OnePerTenant /\ Roomy /\ Accounted
        /\ Stored /\ Resolved /\ Owned
        /\ Len(entries) \in Nat /\ DOMAIN entries = 1..Len(entries)
    BY CacheFacts
  <1>2. PICK t : t = turn[u].tenant
    OBVIOUS
  <1>3. /\ lock = "free" /\ Cached(t) = {} /\ lock' = u /\ reg' = reg /\ entries' = entries
        /\ closing' = closing /\ abandoned' = abandoned /\ vault' = vault /\ plain' = plain
        /\ offered' = [offered EXCEPT ![t] = plain[t]] /\ house' = house /\ kms' = kms
        /\ turn' = [turn EXCEPT ![u].at = "amadeus", ![u].drivers = NoDrivers,
                                ![u].degraded = {}]
    BY <1>2 DEF GetMiss
  <1>4. PICK q : q = [turn[u] EXCEPT !.at = "amadeus", !.drivers = NoDrivers, !.degraded = {}]
    OBVIOUS
  <1>5. turn' = [turn EXCEPT ![u] = q]
    BY <1>1, <1>3, <1>4 DEF Turned
  <1>6. /\ IsTurn(q) /\ q.at = "amadeus" /\ q.drivers = NoDrivers /\ q.degraded = {}
        /\ q.tenant = t
    <2>1. PICK r : r = turn[u]
      OBVIOUS
    <2>2. IsTurn(r) /\ r.tenant = t
      BY <1>1, <1>2, <2>1 DEF Turned
    <2>3. q = [r EXCEPT !.at = "amadeus", !.drivers = NoDrivers, !.degraded = {}]
      BY <1>4, <2>1
    <2> QED BY <2>2, <2>3 DEF IsTurn, NoDrivers
  <1>7. Turned' /\ turn'[u] = q /\ \A v \in Turns : v # u => turn'[v] = turn[v]
    BY <1>1, <1>5, <1>6, TurnSet
  <1>8. \A v \in Turns : turn[v].at \notin Holding
    BY <1>1, <1>3, FreeLock
  <1>9. t \in Tenants
    BY <1>1, <1>2 DEF Turned, IsTurn
  <1>10. Numbered' /\ Accounted' /\ Owned'
    BY <1>1, <1>3 DEF Numbered, Accounted, Owned
  <1>11. Locked'
    <2>1. \A v \in Turns : turn'[v].at \in Holding <=> v = u
      BY <1>6, <1>7, <1>8 DEF Holding
    <2> QED BY <1>3, <2>1 DEF Locked
  <1>12. OnePerTenant'
    <2>1. \A k \in 1..Len(entries) : reg[entries[k]].tenant # t
      BY <1>1, <1>3 DEF Cached
    <2>2. \A v \in Turns : turn'[v].at \in Building => turn'[v].tenant = t
      BY <1>6, <1>7, <1>8 DEF Building, Holding
    <2> QED BY <1>1, <1>3, <2>1, <2>2 DEF OnePerTenant
  <1>13. Roomy'
    <2>1. Len(entries) <= MaxEntries
      BY <1>1, <1>3, TenantAssumption DEF Roomy
    <2> QED BY <1>3, <2>1 DEF Roomy
  <1>14. Stored'
    <2>1. PerProvider(plain) /\ PerProvider(offered)
      BY <1>1 DEF Stored, WasPut, PerProvider
    <2>2. PICK off : off = [offered EXCEPT ![t] = plain[t]]
      OBVIOUS
    <2>3. \A x \in Tenants : off[x] = IF x = t THEN plain[t] ELSE offered[x]
      BY <2>1, <2>2 DEF PerProvider
    <2>4. off = [x \in Tenants |-> off[x]]
      BY <2>1, <2>2 DEF PerProvider
    <2>5. \A x \in Tenants : off[x] = [p \in Providers |-> off[x][p]]
      <3>1. \A x \in Tenants : plain[x] = [p \in Providers |-> plain[x][p]]
        BY <2>1 DEF PerProvider
      <3>2. \A x \in Tenants : offered[x] = [p \in Providers |-> offered[x][p]]
        BY <2>1 DEF PerProvider
      <3> QED BY <1>9, <2>3, <3>1, <3>2
    <2>6. PerProvider(off)
      BY <2>4, <2>5 DEF PerProvider
    <2>7. \A x \in Tenants, p \in Providers : plain[x][p] \subseteq off[x][p]
      BY <1>1, <2>3 DEF Stored
    <2> QED BY <1>1, <1>3, <2>2, <2>6, <2>7 DEF Stored
  <1>15. Resolved'
    <2>1. ResolvedRow(house, q, offered')
      BY <1>6 DEF ResolvedRow, OwnDrivers, NoDrivers
    <2>2. ASSUME NEW v \in Turns, v # u PROVE ResolvedRow(house, turn[v], offered')
      BY <1>1, <1>8 DEF Resolved, ResolvedRow, OwnDrivers, NoDrivers, Holding
    <2>3. \A v \in Turns : ResolvedRow(house, turn'[v], offered')
      BY <1>7, <2>1, <2>2
    <2> QED BY <1>3, <2>3 DEF Resolved
  <1> QED BY <1>7, <1>10, <1>11, <1>12, <1>13, <1>14, <1>15 DEF RegistryInv, CacheInv

(* Fields win over meta, as in the builders' lookups.                      *)
LEMMA MergedGet ==
  ASSUME NEW f, NEW g, NEW n, NEW default
  PROVE  Get(Over(f, g), n, default) = Get(f, n, Get(g, n, default))
  BY DEF Get, Over

(* What a build makes of a provider's credentials.                         *)
LEMMA BuiltOwn ==
  ASSUME Stored, NEW t \in Tenants, NEW p \in Providers, NEW broken \in BOOLEAN,
         NEW d \in BuildDriver(p, StorageCredentials(t, p, broken)),
         NEW degraded, p \in degraded <=> Raises(broken)
  PROVE  OwnDriver(house, d, p, degraded, offered[t][p])
  <1>1. PICK e \in StorageCredentials(t, p, broken) :
          d.login = Get(e, "login", "") /\ d.base = Get(e, "base", "default")
    <2>1. PICK e \in StorageCredentials(t, p, broken) :
            d = [login |-> Get(e, "login", ""), base |-> Get(e, "base", "default")]
      BY DEF BuildDriver
    <2>2. d.login = Get(e, "login", "") /\ d.base = Get(e, "base", "default")
      BY <2>1
    <2> QED BY <2>2
  <1>2. CASE Raises(broken)
    <2>1. e = house[p]
      BY <1>1, <1>2 DEF StorageCredentials, EnvCredentials
    <2> QED BY <1>1, <1>2, <2>1 DEF OwnDriver
  <1>3. CASE ~Raises(broken)
    <2>1. PICK b \in vault[t][p] : Opens(b, t, p) /\ e = Over(b.payload.fields, b.payload.meta)
      BY <1>1, <1>3 DEF StorageCredentials, ResolveTenantCredentials
    <2>2. b.payload \in offered[t][p]
      BY <2>1 DEF Stored, WasPut, Opens, Verified
    <2>3. /\ d.login = Get(b.payload.fields, "login", Get(b.payload.meta, "login", ""))
          /\ d.base = Get(b.payload.fields, "base", Get(b.payload.meta, "base", "default"))
      <3>1. Get(e, "login", "") = Get(b.payload.fields, "login", Get(b.payload.meta, "login", ""))
        <4>1. PICK f, g : f = b.payload.fields /\ g = b.payload.meta
          OBVIOUS
        <4>2. PICK none : none = ""
          OBVIOUS
        <4>3. Get(Over(f, g), "login", none) = Get(f, "login", Get(g, "login", none))
          BY MergedGet
        <4> QED BY <2>1, <4>1, <4>2, <4>3
      <3>2. Get(e, "base", "default")
              = Get(b.payload.fields, "base", Get(b.payload.meta, "base", "default"))
        BY <2>1, MergedGet
      <3> QED BY <1>1, <3>1, <3>2
    <2> QED BY <1>3, <2>2, <2>3 DEF OwnDriver
  <1> QED BY <1>2, <1>3

LEMMA ResolveStep ==
  ASSUME RegistryInv, NEW u \in Turns, NEW p \in Providers, NEW broken \in BOOLEAN,
         Resolve(u, p, broken)
  PROVE  RegistryInv'
  <1>1. /\ Turned /\ Numbered /\ Locked /\ OnePerTenant /\ Roomy /\ Accounted
        /\ Stored /\ Resolved /\ Owned
    BY CacheFacts
  <1>2. PICK r : r = turn[u]
    OBVIOUS
  <1>3. PICK D : D = BuildDriver(p, StorageCredentials(r.tenant, p, broken))
    OBVIOUS
  <1>4. PICK deg : deg = IF Raises(broken) THEN r.degraded \cup {p} ELSE r.degraded
    OBVIOUS
  <1>5. PICK stage : stage = IF p = "amadeus" THEN "tbo" ELSE "cache"
    OBVIOUS
  <1>6. IsTurn(r) /\ ResolvedRow(house, r, offered)
    BY <1>1, <1>2 DEF Turned, Resolved
  <1>7. /\ r.at = p /\ reg' = reg /\ entries' = entries /\ lock' = lock
        /\ closing' = closing /\ abandoned' = abandoned /\ vault' = vault /\ plain' = plain
        /\ offered' = offered /\ house' = house /\ kms' = kms
    BY <1>2 DEF Resolve, At, registryVars, vaultVars
  <1>8. turn' = [turn EXCEPT ![u].drivers[p] = D, ![u].degraded = deg, ![u].at = stage]
    BY <1>2, <1>3, <1>4, <1>5 DEF Resolve
  <1>9. PICK q : q = [r EXCEPT !.drivers = [r.drivers EXCEPT ![p] = D], !.degraded = deg,
                               !.at = stage]
    OBVIOUS
  <1>10. turn' = [turn EXCEPT ![u] = q]
    BY <1>1, <1>2, <1>6, <1>8, <1>9 DEF Turned, IsTurn
  <1>11. /\ q.at = stage /\ q.degraded = deg /\ q.tenant = r.tenant
         /\ q.drivers = [r.drivers EXCEPT ![p] = D]
    BY <1>6, <1>9 DEF IsTurn
  <1>12. \A x \in Providers : q.drivers[x] = IF x = p THEN D ELSE r.drivers[x]
    BY <1>6, <1>11 DEF IsTurn
  <1>13. IsTurn(q)
    <2>1. q.drivers = [x \in Providers |-> q.drivers[x]]
      BY <1>6, <1>11 DEF IsTurn
    <2>2. q = [at |-> q.at, tenant |-> q.tenant, settings |-> q.settings, reg |-> q.reg,
               drivers |-> q.drivers, degraded |-> q.degraded]
      BY <1>6, <1>9 DEF IsTurn
    <2> QED BY <1>6, <1>11, <2>1, <2>2 DEF IsTurn
  <1>14. Turned' /\ turn'[u] = q /\ \A v \in Turns : v # u => turn'[v] = turn[v]
    BY <1>1, <1>10, <1>13, TurnSet
  <1>15. r.at \in Building /\ q.at \in Building /\ q.at # "evict" /\ r.at # "evict"
    BY <1>5, <1>7, <1>11 DEF Building, Providers
  <1>16. Locked' /\ OnePerTenant' /\ Roomy'
    <2>1. Locked'
      BY <1>1, <1>2, <1>7, <1>14, <1>15 DEF Locked, Building, Holding
    <2>2. OnePerTenant'
      BY <1>1, <1>2, <1>7, <1>11, <1>14, <1>15 DEF OnePerTenant
    <2>3. Roomy'
      BY <1>1, <1>2, <1>7, <1>14, <1>15 DEF Roomy
    <2> QED BY <2>1, <2>2, <2>3
  <1>17. Numbered' /\ Accounted' /\ Stored' /\ Owned'
    BY <1>1, <1>7 DEF Numbered, Accounted, Stored, Owned
  <1>18. p \notin r.degraded /\ (p = "amadeus" => r.degraded = {})
    BY <1>6, <1>7 DEF ResolvedRow, Providers
  <1>19. p \in deg <=> Raises(broken)
    BY <1>4, <1>18
  <1>20. OwnDrivers(house, q.drivers, deg, offered[r.tenant])
    <2> SUFFICES ASSUME NEW x \in Providers, NEW d \in q.drivers[x]
                 PROVE  OwnDriver(house, d, x, deg, offered[r.tenant][x])
      BY DEF OwnDrivers
    <2>1. CASE x = p
      <3>1. d \in D /\ r.tenant \in Tenants
        BY <1>6, <1>12, <2>1 DEF IsTurn
      <3> QED BY <1>1, <1>3, <1>19, <2>1, <3>1, BuiltOwn
    <2>2. CASE x # p
      <3>1. OwnDriver(house, d, x, r.degraded, offered[r.tenant][x])
        BY <1>6, <1>12, <2>2 DEF ResolvedRow, OwnDrivers
      <3>2. x \in deg <=> x \in r.degraded
        BY <1>4, <2>2
      <3> QED BY <3>1, <3>2 DEF OwnDriver
    <2> QED BY <2>1, <2>2
  <1>21. ResolvedRow(house, q, offered)
    <2>1. q.at = "tbo" => "tbo" \notin q.degraded
      BY <1>4, <1>5, <1>11, <1>18
    <2> QED BY <1>5, <1>11, <1>20, <2>1 DEF ResolvedRow
  <1>22. Resolved'
    BY <1>1, <1>7, <1>14, <1>21 DEF Resolved
  <1> QED BY <1>14, <1>16, <1>17, <1>22 DEF RegistryInv, CacheInv

LEMMA BuildStep ==
  ASSUME RegistryInv, NEW u \in Turns, Build(u)
  PROVE  RegistryInv'
  <1>1. /\ Turned /\ Numbered /\ Locked /\ OnePerTenant /\ Roomy /\ Accounted
        /\ Stored /\ Resolved /\ Owned
        /\ Len(entries) \in Nat /\ DOMAIN entries = 1..Len(entries)
        /\ \A i \in 1..Len(entries) : entries[i] \in 1..Len(reg)
    BY CacheFacts
  <1>2. PICK r : r = turn[u]
    OBVIOUS
  <1>3. PICK n : n = Len(reg)
    OBVIOUS
  <1>4. PICK x : x = [tenant |-> r.tenant, open |-> TRUE, drivers |-> r.drivers,
                      degraded |-> r.degraded, offered |-> offered[r.tenant]]
    OBVIOUS
  <1>5. PICK q : q = [r EXCEPT !.at = "evict", !.reg = n + 1, !.drivers = NoDrivers,
                               !.degraded = {}]
    OBVIOUS
  <1>6. IsTurn(r) /\ ResolvedRow(house, r, offered)
    BY <1>1, <1>2 DEF Turned, Resolved
  <1>7. /\ r.at = "cache" /\ reg' = Append(reg, x) /\ entries' = Append(entries, n + 1)
        /\ lock' = lock /\ closing' = closing /\ abandoned' = abandoned /\ vault' = vault
        /\ plain' = plain /\ offered' = offered /\ house' = house /\ kms' = kms
        /\ turn' = [turn EXCEPT ![u].at = "evict", ![u].reg = n + 1,
                                ![u].drivers = NoDrivers, ![u].degraded = {}]
    BY <1>2, <1>3, <1>4 DEF Build, At, vaultVars
  <1>8. turn' = [turn EXCEPT ![u] = q]
    BY <1>1, <1>2, <1>5, <1>7 DEF Turned
  <1>9. /\ IsTurn(q) /\ q.at = "evict" /\ q.drivers = NoDrivers
    BY <1>5, <1>6 DEF IsTurn, NoDrivers
  <1>10. Turned' /\ turn'[u] = q /\ \A v \in Turns : v # u => turn'[v] = turn[v]
    BY <1>1, <1>8, <1>9, TurnSet
  <1>11. /\ n \in Nat /\ Len(reg') = n + 1 /\ reg' = [i \in 1..(n + 1) |-> reg'[i]]
         /\ \A i \in 1..n : reg'[i] = reg[i]
         /\ reg'[n + 1] = x
    <2>1. Len(reg) \in Nat /\ reg = [i \in 1..Len(reg) |-> reg[i]]
      BY <1>1 DEF Numbered
    <2>2. /\ Len(Append(reg, x)) = Len(reg) + 1
          /\ Append(reg, x) = [i \in 1..(Len(reg) + 1) |-> Append(reg, x)[i]]
          /\ \A i \in 1..Len(reg) : Append(reg, x)[i] = reg[i]
          /\ Append(reg, x)[Len(reg) + 1] = x
      BY <2>1, Added
    <2> QED BY <1>3, <1>7, <2>1, <2>2
  <1>12. PICK k : k = Len(entries)
    OBVIOUS
  <1>13. /\ entries' \in Seq(1..(n + 1)) /\ Len(entries') = k + 1 /\ k \in Nat
         /\ \A i \in 1..k : entries'[i] = entries[i] /\ entries[i] \in 1..n
         /\ entries'[k + 1] = n + 1
    <2>1. entries \in Seq(1..(n + 1)) /\ n + 1 \in 1..(n + 1)
      <3>1. 1..n \subseteq 1..(n + 1)
        BY <1>11
      <3>2. n + 1 \in 1..(n + 1)
        BY <1>11
      <3> QED BY <1>1, <1>3, <3>1, <3>2, SeqMonotonic DEF Numbered
    <2>2. /\ entries' \in Seq(1..(n + 1)) /\ Len(entries') = k + 1
          /\ \A i \in 1..k : entries'[i] = entries[i]
          /\ entries'[k + 1] = n + 1
      BY <1>7, <1>12, <2>1, AppendProperties
    <2> QED BY <1>1, <1>3, <1>12, <2>2
  <1>14. IsRegistry(x) /\ x.tenant = r.tenant /\ x.open
    BY <1>4 DEF IsRegistry
  <1>15. \A i \in 1..(n + 1) : i \in 1..n \/ i = n + 1
    BY <1>11
  <1>16. \A i \in 1..(k + 1) : i \in 1..k \/ i = k + 1
    BY <1>13
  <1>17. Numbered'
    <2>1. \A i \in 1..(n + 1) : IsRegistry(reg'[i])
      BY <1>1, <1>3, <1>11, <1>14, <1>15 DEF Numbered
    <2>2. closing \subseteq 1..(n + 1)
      BY <1>1, <1>3, <1>11 DEF Numbered
    <2>3. n + 1 \in Nat
      BY <1>11
    <2> QED BY <1>7, <1>11, <1>13, <2>1, <2>2, <2>3 DEF Numbered
  <1>18. Locked'
    BY <1>1, <1>2, <1>7, <1>9, <1>10 DEF Locked, Holding
  <1>19. lock = u /\ \A v \in Turns : v # u => turn[v].at \notin Holding
    BY <1>1, <1>2, <1>7 DEF Locked, Holding
  <1>20. \A i \in 1..k : reg[entries[i]].tenant # r.tenant
    BY <1>1, <1>2, <1>7, <1>12 DEF OnePerTenant, Building
  <1>21. \A i \in 1..k : reg'[entries'[i]] = reg[entries[i]]
    BY <1>11, <1>13
  <1>22. reg'[entries'[k + 1]] = x
    BY <1>11, <1>13
  <1>23. OnePerTenant'
    <2>1. \A v \in Turns : turn'[v].at \notin Building
      BY <1>9, <1>10, <1>19 DEF Building, Holding
    <2>2. ASSUME NEW i \in 1..(k + 1), NEW j \in 1..(k + 1),
                 reg'[entries'[i]].tenant = reg'[entries'[j]].tenant
          PROVE  i = j
      <3>1. CASE i \in 1..k /\ j \in 1..k
        BY <1>1, <1>12, <1>21, <2>2, <3>1 DEF OnePerTenant
      <3>2. CASE i \in 1..k /\ j = k + 1
        BY <1>14, <1>20, <1>21, <1>22, <2>2, <3>2
      <3>3. CASE i = k + 1 /\ j \in 1..k
        BY <1>14, <1>20, <1>21, <1>22, <2>2, <3>3
      <3> QED BY <1>16, <3>1, <3>2, <3>3
    <2> QED BY <1>13, <2>1, <2>2 DEF OnePerTenant
  <1>24. Roomy'
    <2>1. k <= MaxEntries /\ MaxEntries \in Nat
      <3>1. ~\E v \in Turns : lock = v /\ turn[v].at = "evict"
        BY <1>2, <1>7, <1>19
      <3> QED BY <1>1, <1>12, <3>1, TenantAssumption DEF Roomy
    <2>2. k + 1 <= MaxEntries \/ k + 1 = MaxEntries + 1
      BY <1>13, <2>1
    <2> QED BY <1>7, <1>9, <1>10, <1>13, <1>19, <2>2 DEF Roomy
  <1>25. Accounted'
    <2>1. n + 1 \notin closing
      BY <1>1, <1>3, <1>11 DEF Numbered
    <2>2. \A i \in 1..(k + 1) : reg'[entries'[i]].open /\ entries'[i] \notin closing
      BY <1>1, <1>12, <1>13, <1>14, <1>16, <1>21, <1>22, <2>1 DEF Accounted
    <2>3. ASSUME NEW i \in 1..(n + 1), reg'[i].open
          PROVE  i \in closing \/ i \in abandoned \/ \E j \in 1..(k + 1) : entries'[j] = i
      <3>1. CASE i = n + 1
        <4>1. k + 1 \in 1..(k + 1)
          BY <1>13
        <4> QED BY <1>13, <3>1, <4>1
      <3>2. CASE i \in 1..n
        <4>1. i \in closing \/ i \in abandoned \/ \E j \in 1..k : entries[j] = i
          BY <1>1, <1>3, <1>11, <1>12, <2>3, <3>2 DEF Accounted
        <4>2. \A j \in 1..k : j \in 1..(k + 1)
          BY <1>13
        <4> QED BY <1>13, <4>1, <4>2
      <3> QED BY <1>15, <3>1, <3>2
    <2> QED BY <1>7, <1>11, <1>13, <2>2, <2>3 DEF Accounted
  <1>26. Stored'
    BY <1>1, <1>7 DEF Stored
  <1>27. Resolved'
    <2>1. ResolvedRow(house, q, offered)
      BY <1>9 DEF ResolvedRow, OwnDrivers, NoDrivers
    <2> QED BY <1>1, <1>7, <1>10, <2>1 DEF Resolved
  <1>28. Owned'
    <2>1. OwnDrivers(house, x.drivers, x.degraded, x.offered)
      BY <1>4, <1>6 DEF ResolvedRow
    <2>2. \A i \in 1..(n + 1) : OwnDrivers(house, reg'[i].drivers, reg'[i].degraded, reg'[i].offered)
      BY <1>1, <1>3, <1>11, <1>15, <2>1 DEF Owned
    <2> QED BY <1>7, <1>11, <2>2 DEF Owned
  <1> QED
    BY <1>10, <1>17, <1>18, <1>23, <1>24, <1>25, <1>26, <1>27, <1>28 DEF RegistryInv, CacheInv

(* A registry is closed; nothing else about it changes.                    *)
LEMMA ClosedReg ==
  ASSUME Numbered, NEW h \in 1..Len(reg), reg' = [reg EXCEPT ![h].open = FALSE]
  PROVE  /\ Len(reg') = Len(reg) /\ reg' = [k \in 1..Len(reg) |-> reg'[k]]
         /\ \A k \in 1..Len(reg) :
              /\ IsRegistry(reg'[k]) /\ reg'[k].tenant = reg[k].tenant
              /\ reg'[k].drivers = reg[k].drivers /\ reg'[k].degraded = reg[k].degraded
              /\ reg'[k].offered = reg[k].offered
              /\ reg'[k].open => k # h /\ reg[k].open
              /\ k # h /\ reg[k].open => reg'[k].open
  <1>1. Len(reg) \in Nat /\ reg = [k \in 1..Len(reg) |-> reg[k]]
    BY DEF Numbered
  <1>2. PICK x : x = reg[h]
    OBVIOUS
  <1>3. IsRegistry(x)
    BY <1>2 DEF Numbered
  <1>4. PICK y : y = [x EXCEPT !.open = FALSE]
    OBVIOUS
  <1>5. /\ y.tenant = x.tenant /\ y.drivers = x.drivers /\ y.degraded = x.degraded
        /\ y.offered = x.offered /\ y.open = FALSE
    BY <1>3, <1>4 DEF IsRegistry
  <1>6. IsRegistry(y)
    BY <1>3, <1>4, <1>5 DEF IsRegistry
  <1>7. reg' = [reg EXCEPT ![h] = y]
    BY <1>1, <1>2, <1>4
  <1>8. PICK S : S = {reg[k] : k \in 1..Len(reg)} \cup {y}
    OBVIOUS
  <1>9. reg \in Seq(S) /\ y \in S
    <2>1. reg \in [1..Len(reg) -> S]
      BY <1>1, <1>8
    <2> QED BY <1>1, <1>8, <2>1
  <1>10. /\ [reg EXCEPT ![h] = y] \in Seq(S) /\ Len([reg EXCEPT ![h] = y]) = Len(reg)
    BY <1>9, ExceptSeq
  <1>11. reg' = [k \in 1..Len(reg) |-> reg'[k]] /\ reg'[h] = y
    BY <1>1, <1>7
  <1>12. \A k \in 1..Len(reg) : k # h => reg'[k] = reg[k]
    BY <1>1, <1>7
  <1> QED BY <1>2, <1>5, <1>6, <1>7, <1>10, <1>11, <1>12 DEF Numbered

LEMMA TailFacts ==
  ASSUME NEW S, NEW s \in Seq(S), Len(s) > 0
  PROVE  /\ Tail(s) \in Seq(S) /\ Len(Tail(s)) = Len(s) - 1 /\ Head(s) = s[1]
         /\ \A i \in 1..(Len(s) - 1) : Tail(s)[i] = s[i + 1]
  <1>1. s # <<>> /\ Len(s) \in Nat
    BY LenProperties
  <1> QED BY <1>1, HeadTailProperties

(* The eldest entry leaves the cache: which it was, and what is left.      *)
LEMMA Popped ==
  ASSUME RegistryInv, Len(entries) > MaxEntries, entries' = Tail(entries)
  PROVE  /\ Head(entries) = entries[1] /\ entries[1] \in 1..Len(reg) /\ Len(entries) \in Nat
         /\ entries' \in Seq(1..Len(reg)) /\ Len(entries') = Len(entries) - 1
         /\ Len(entries') = MaxEntries
         /\ \A i \in 1..Len(entries') : /\ i + 1 \in 1..Len(entries)
                                        /\ entries'[i] = entries[i + 1]
                                        /\ entries'[i] # entries[1]
         /\ \A j \in 1..Len(entries) : j # 1 => \E i \in 1..Len(entries') : entries'[i] = entries[j]
  <1>1. /\ Numbered /\ OnePerTenant /\ Roomy /\ Len(entries) \in Nat
        /\ \A i \in 1..Len(entries) : entries[i] \in 1..Len(reg)
    BY CacheFacts
  <1>2. MaxEntries \in Nat /\ MaxEntries >= 1
    BY TenantAssumption
  <1>3. Len(entries) > 0 /\ 1 \in 1..Len(entries) /\ Len(entries) = MaxEntries + 1
    BY <1>1, <1>2 DEF Roomy
  <1>4. /\ entries' \in Seq(1..Len(reg)) /\ Len(entries') = Len(entries) - 1
        /\ Head(entries) = entries[1]
        /\ \A i \in 1..(Len(entries) - 1) : entries'[i] = entries[i + 1]
    BY <1>1, <1>3, TailFacts DEF Numbered
  <1>5. ASSUME NEW i \in 1..Len(entries')
        PROVE  /\ i + 1 \in 1..Len(entries) /\ entries'[i] = entries[i + 1]
               /\ entries'[i] # entries[1]
    <2>1. i + 1 \in 1..Len(entries) /\ i + 1 # 1 /\ i \in 1..(Len(entries) - 1)
      BY <1>1, <1>4
    <2>2. entries[i + 1] # entries[1]
      BY <1>1, <1>3, <2>1 DEF OnePerTenant
    <2> QED BY <1>4, <2>1, <2>2
  <1>6. ASSUME NEW j \in 1..Len(entries), j # 1
        PROVE  \E i \in 1..Len(entries') : entries'[i] = entries[j]
    <2>1. j - 1 \in 1..(Len(entries) - 1) /\ (j - 1) + 1 = j
      BY <1>1, <1>6
    <2> QED BY <1>4, <2>1
  <1>7. Len(entries') = MaxEntries
    BY <1>2, <1>3, <1>4
  <1> QED BY <1>1, <1>3, <1>4, <1>5, <1>6, <1>7

(* A turn that holds the lock releases it and builds no more; the eldest   *)
(* entry may have left the cache in the middle of its eviction.            *)
LEMMA LetGo ==
  ASSUME RegistryInv, NEW u \in Turns, NEW q, IsTurn(q), q.at \notin Holding,
         q.drivers = NoDrivers, turn' = [turn EXCEPT ![u] = q], lock = u, lock' = "free",
         reg' = reg, closing' = closing, UNCHANGED vaultVars,
         \/ Len(entries) <= MaxEntries /\ entries' = entries /\ abandoned' = abandoned
         \/ /\ Len(entries) > MaxEntries /\ entries' = Tail(entries)
            /\ abandoned' = abandoned \cup {Head(entries)}
  PROVE  RegistryInv'
  <1>1. /\ Turned /\ Numbered /\ Locked /\ OnePerTenant /\ Roomy /\ Accounted
        /\ Stored /\ Resolved /\ Owned
        /\ Len(entries) \in Nat /\ \A i \in 1..Len(entries) : entries[i] \in 1..Len(reg)
    BY CacheFacts
  <1>2. Turned' /\ turn'[u] = q /\ \A v \in Turns : v # u => turn'[v] = turn[v]
    BY <1>1, TurnSet
  <1>3. \A v \in Turns : turn'[v].at \notin Holding
    BY <1>1, <1>2 DEF Locked
  <1>4. Locked'
    BY <1>3, TenantAssumption DEF Locked
  <1>5. Stored' /\ Owned'
    BY <1>1 DEF Stored, Owned, vaultVars
  <1>6. Resolved'
    <2>1. ResolvedRow(house, q, offered)
      BY DEF ResolvedRow, OwnDrivers, NoDrivers, Holding
    <2>2. \A v \in Turns : ResolvedRow(house, turn'[v], offered)
      BY <1>1, <1>2, <2>1 DEF Resolved
    <2> QED BY <2>2 DEF Resolved, vaultVars
  <1>7. \A v \in Turns : turn'[v].at \notin Building
    BY <1>3 DEF Building, Holding
  <1>8. CASE Len(entries) <= MaxEntries /\ entries' = entries /\ abandoned' = abandoned
    <2>1. Numbered' /\ OnePerTenant' /\ Roomy' /\ Accounted'
      BY <1>1, <1>7, <1>8 DEF Numbered, OnePerTenant, Roomy, Accounted
    <2> QED BY <1>2, <1>4, <1>5, <1>6, <2>1 DEF RegistryInv, CacheInv
  <1>9. CASE /\ Len(entries) > MaxEntries /\ entries' = Tail(entries)
             /\ abandoned' = abandoned \cup {Head(entries)}
    <2>1. PICK h : h = entries[1]
      OBVIOUS
    <2>2. /\ Head(entries) = h
          /\ entries' \in Seq(1..Len(reg)) /\ Len(entries') = MaxEntries
          /\ \A i \in 1..Len(entries') : /\ i + 1 \in 1..Len(entries)
                                         /\ entries'[i] = entries[i + 1] /\ entries'[i] # h
          /\ \A j \in 1..Len(entries) : j # 1 => \E i \in 1..Len(entries') : entries'[i] = entries[j]
      BY <1>9, <2>1, Popped
    <2>3. Numbered'
      BY <1>1, <2>2 DEF Numbered
    <2>4. OnePerTenant'
      <3>1. ASSUME NEW i \in 1..Len(entries'), NEW j \in 1..Len(entries'),
                   reg[entries'[i]].tenant = reg[entries'[j]].tenant
            PROVE  i = j
        <4>1. i + 1 \in 1..Len(entries) /\ j + 1 \in 1..Len(entries)
          BY <2>2
        <4>2. reg[entries[i + 1]].tenant = reg[entries[j + 1]].tenant
          BY <2>2, <3>1
        <4>3. i + 1 = j + 1
          BY <1>1, <4>1, <4>2 DEF OnePerTenant
        <4> QED BY <4>3
      <3> QED BY <1>7, <3>1 DEF OnePerTenant
    <2>5. Roomy'
      BY <2>2, TenantAssumption DEF Roomy
    <2>6. Accounted'
      <3>1. ASSUME NEW i \in 1..Len(entries')
            PROVE  reg[entries'[i]].open /\ entries'[i] \notin closing
        <4>1. i + 1 \in 1..Len(entries) /\ entries'[i] = entries[i + 1]
          BY <2>2
        <4>2. reg[entries[i + 1]].open /\ entries[i + 1] \notin closing
          BY <1>1, <4>1 DEF Accounted
        <4> QED BY <4>1, <4>2
      <3>2. ASSUME NEW k \in 1..Len(reg), reg[k].open
            PROVE  \/ k \in closing \/ k \in abandoned \cup {h}
                   \/ \E i \in 1..Len(entries') : entries'[i] = k
        <4>1. k \in closing \/ k \in abandoned \/ \E j \in 1..Len(entries) : entries[j] = k
          BY <1>1, <3>2 DEF Accounted
        <4> QED BY <2>1, <2>2, <4>1
      <3> QED BY <1>9, <2>2, <3>1, <3>2 DEF Accounted
    <2> QED BY <1>2, <1>4, <1>5, <1>6, <2>3, <2>4, <2>5, <2>6 DEF RegistryInv, CacheInv
  <1> QED BY <1>8, <1>9

(* _aclose_safely closes the registry, or abandons it.                     *)
LEMMA SafelyClosed ==
  ASSUME Numbered, NEW h \in 1..Len(reg), CloseSafely(h)
  PROVE  /\ Len(reg') = Len(reg) /\ reg' = [k \in 1..Len(reg) |-> reg'[k]]
         /\ abandoned \subseteq abandoned'
         /\ \A k \in 1..Len(reg) :
              /\ IsRegistry(reg'[k]) /\ reg'[k].tenant = reg[k].tenant
              /\ reg'[k].drivers = reg[k].drivers /\ reg'[k].degraded = reg[k].degraded
              /\ reg'[k].offered = reg[k].offered
              /\ reg'[k].open => reg[k].open /\ (k # h \/ k \in abandoned')
              /\ k # h /\ reg[k].open => reg'[k].open
  <1>1. CASE reg' = [reg EXCEPT ![h].open = FALSE] /\ abandoned' = abandoned
    BY <1>1, ClosedReg
  <1>2. CASE reg' = reg /\ abandoned' = abandoned \cup {h}
    BY <1>2 DEF Numbered
  <1> QED BY <1>1, <1>2 DEF CloseSafely

LEMMA EvictStep ==
  ASSUME RegistryInv, NEW u \in Turns, Evict(u)
  PROVE  RegistryInv'
  <1>1. /\ Turned /\ Numbered /\ Locked /\ OnePerTenant /\ Roomy /\ Accounted
        /\ Stored /\ Resolved /\ Owned
        /\ Len(entries) \in Nat /\ DOMAIN entries = 1..Len(entries)
        /\ \A i \in 1..Len(entries) : entries[i] \in 1..Len(reg)
    BY CacheFacts
  <1>2. /\ turn[u].at = "evict" /\ closing' = closing
        /\ vault' = vault /\ plain' = plain /\ offered' = offered /\ house' = house
        /\ kms' = kms
    BY DEF Evict, At, vaultVars
  <1>3. lock = u /\ \A v \in Turns : v # u => turn[v].at \notin Holding
    BY <1>1, <1>2 DEF Locked, Holding
  <1>4. CASE Len(entries) > MaxEntries
    <2>1. /\ entries' = Tail(entries) /\ CloseSafely(Head(entries))
          /\ turn' = turn /\ lock' = lock
      BY <1>4 DEF Evict
    <2>2. PICK h : h = entries[1]
      OBVIOUS
    <2>3. /\ Head(entries) = h /\ h \in 1..Len(reg)
          /\ entries' \in Seq(1..Len(reg)) /\ Len(entries') = MaxEntries
          /\ \A i \in 1..Len(entries') : /\ i + 1 \in 1..Len(entries)
                                         /\ entries'[i] = entries[i + 1] /\ entries'[i] # h
          /\ \A j \in 1..Len(entries) : j # 1 => \E i \in 1..Len(entries') : entries'[i] = entries[j]
      BY <1>4, <2>1, <2>2, Popped
    <2>4. /\ Len(reg') = Len(reg) /\ reg' = [k \in 1..Len(reg) |-> reg'[k]]
          /\ abandoned \subseteq abandoned'
          /\ \A k \in 1..Len(reg) :
               /\ IsRegistry(reg'[k]) /\ reg'[k].tenant = reg[k].tenant
               /\ reg'[k].drivers = reg[k].drivers /\ reg'[k].degraded = reg[k].degraded
               /\ reg'[k].offered = reg[k].offered
               /\ reg'[k].open => reg[k].open /\ (k # h \/ k \in abandoned')
               /\ k # h /\ reg[k].open => reg'[k].open
      BY <1>1, <2>1, <2>3, SafelyClosed
    <2>5. Turned' /\ Locked'
      BY <1>1, <2>1 DEF Turned, Locked
    <2>6. Numbered'
      BY <1>1, <1>2, <2>3, <2>4 DEF Numbered
    <2>7. \A i \in 1..Len(entries') : reg'[entries'[i]].tenant = reg[entries[i + 1]].tenant
      BY <1>1, <2>3, <2>4
    <2>8. OnePerTenant'
      <3>1. ASSUME NEW i \in 1..Len(entries'), NEW j \in 1..Len(entries'),
                   reg'[entries'[i]].tenant = reg'[entries'[j]].tenant
            PROVE  i = j
        <4>1. i + 1 \in 1..Len(entries) /\ j + 1 \in 1..Len(entries)
          BY <2>3
        <4>2. reg[entries[i + 1]].tenant = reg[entries[j + 1]].tenant
          BY <2>7, <3>1
        <4>3. i + 1 = j + 1
          BY <1>1, <4>1, <4>2 DEF OnePerTenant
        <4> QED BY <4>3
      <3>2. \A v \in Turns : turn'[v].at \notin Building
        BY <1>2, <1>3, <2>1 DEF Building, Holding
      <3> QED BY <3>1, <3>2 DEF OnePerTenant
    <2>9. Roomy'
      BY <2>3, TenantAssumption DEF Roomy
    <2>10. Accounted'
      <3>1. \A i \in 1..Len(entries') : reg'[entries'[i]].open /\ entries'[i] \notin closing
        BY <1>1, <2>3, <2>4 DEF Accounted
      <3>2. ASSUME NEW k \in 1..Len(reg), reg'[k].open
            PROVE  k \in closing \/ k \in abandoned' \/ \E i \in 1..Len(entries') : entries'[i] = k
        <4>1. reg[k].open /\ (k # h \/ k \in abandoned')
          BY <2>4, <3>2
        <4>2. k \in closing \/ k \in abandoned \/ \E j \in 1..Len(entries) : entries[j] = k
          BY <1>1, <4>1 DEF Accounted
        <4>3. CASE k \in abandoned \/ k \in abandoned'
          BY <2>4, <4>3
        <4>4. CASE k # h
          BY <2>2, <2>3, <2>4, <4>2, <4>4
        <4> QED BY <4>1, <4>3, <4>4
      <3> QED BY <1>2, <2>4, <3>1, <3>2 DEF Accounted
    <2>11. Stored' /\ Resolved'
      BY <1>1, <1>2, <2>1 DEF Stored, Resolved
    <2>12. Owned'
      BY <1>1, <1>2, <2>4 DEF Owned
    <2> QED
      BY <2>5, <2>6, <2>8, <2>9, <2>10, <2>11, <2>12 DEF RegistryInv, CacheInv
  <1>5. CASE ~(Len(entries) > MaxEntries)
    <2>1. /\ entries' = entries /\ reg' = reg /\ lock' = "free" /\ Goto(u, "use")
          /\ closing' = closing /\ abandoned' = abandoned /\ UNCHANGED vaultVars
      BY <1>5 DEF Evict
    <2>2. PICK q : q = [turn[u] EXCEPT !.at = "use"]
      OBVIOUS
    <2>3. /\ IsTurn(q) /\ q.at = "use" /\ q.drivers = turn[u].drivers
          /\ turn' = [turn EXCEPT ![u] = q]
      BY <1>1, <2>1, <2>2, GotoTyped DEF Goto
    <2>4. q.at \notin Holding /\ q.drivers = NoDrivers
      BY <1>1, <1>2, <2>3 DEF Resolved, ResolvedRow, Holding
    <2>5. Len(entries) <= MaxEntries
      BY <1>1, <1>5, TenantAssumption
    <2> QED BY <1>3, <2>1, <2>3, <2>4, <2>5, LetGo
  <1> QED BY <1>4, <1>5

LEMMA CancelStep ==
  ASSUME RegistryInv, NEW u \in Turns, Cancel(u)
  PROVE  RegistryInv'
  <1>1. Locked /\ Roomy /\ Turned /\ Len(entries) \in Nat
    BY CacheFacts
  <1>2. /\ turn[u].at # "cache" /\ End(u) /\ reg' = reg /\ closing' = closing
        /\ UNCHANGED vaultVars /\ lock' = IF lock = u THEN "free" ELSE lock
    BY DEF Cancel
  <1>3. turn' = [turn EXCEPT ![u] = IdleTurn] /\ IdleTurn.at \notin Holding
    BY <1>2, IdleTyped DEF End, Holding
  <1>4. CASE turn[u].at \notin Holding
    <2>1. entries' = entries /\ abandoned' = abandoned
      BY <1>4 DEF Cancel, At, Holding
    <2>2. lock' = lock
      BY <1>1, <1>2, <1>4 DEF Locked
    <2>3. UNCHANGED registryVars
      BY <1>2, <2>1, <2>2 DEF registryVars
    <2> QED BY <1>2, <1>4, <2>3, EndMove
  <1>5. CASE turn[u].at = "evict"
    <2>1. /\ Len(entries) > MaxEntries /\ entries' = Tail(entries)
          /\ abandoned' = abandoned \cup {Head(entries)}
      BY <1>5 DEF Cancel, At
    <2>2. lock = u /\ lock' = "free"
      BY <1>1, <1>2, <1>5 DEF Locked, Holding
    <2> QED BY <1>2, <1>3, <2>1, <2>2, IdleTyped, LetGo
  <1>6. CASE turn[u].at \in {"amadeus", "tbo"}
    <2>1. entries' = entries /\ abandoned' = abandoned
      BY <1>6 DEF Cancel, At
    <2>2. lock = u /\ lock' = "free"
      BY <1>1, <1>2, <1>6 DEF Locked, Holding
    <2>3. Len(entries) <= MaxEntries
      BY <1>1, <1>6, <2>2 DEF Roomy
    <2> QED BY <1>2, <1>3, <2>1, <2>2, <2>3, IdleTyped, LetGo
  <1> QED BY <1>2, <1>4, <1>5, <1>6 DEF Holding

-----------------------------------------------------------------------------
(* Steps of others.                                                        *)

IsChanged(f, g, t, p, e) == g = [f EXCEPT ![t][p] = e]

LEMMA SetEntry ==
  ASSUME NEW f, PerProvider(f), NEW t \in Tenants, NEW p \in Providers, NEW e,
         NEW g, IsChanged(f, g, t, p, e)
  PROVE  /\ PerProvider(g) /\ g[t][p] = e
         /\ \A x \in Tenants, y \in Providers : x # t \/ y # p => g[x][y] = f[x][y]
  <1>1. PICK r : r = [f[t] EXCEPT ![p] = e]
    OBVIOUS
  <1>2. g = [f EXCEPT ![t] = r]
    BY <1>1 DEF PerProvider, IsChanged
  <1>3. f = [x \in Tenants |-> f[x]] /\ \A x \in Tenants : f[x] = [y \in Providers |-> f[x][y]]
    BY DEF PerProvider
  <1>4. /\ r = [y \in Providers |-> r[y]] /\ r[p] = e
        /\ \A y \in Providers : y # p => r[y] = f[t][y]
    BY <1>1, <1>3
  <1>5. g = [x \in Tenants |-> g[x]] /\ g[t] = r /\ \A x \in Tenants : x # t => g[x] = f[x]
    BY <1>2, <1>3
  <1>6. \A x \in Tenants : g[x] = [y \in Providers |-> g[x][y]]
    BY <1>3, <1>4, <1>5
  <1>7. PerProvider(g)
    BY <1>5, <1>6 DEF PerProvider
  <1> QED BY <1>4, <1>5, <1>7

(* Credentials are put or deleted; a build under way may see the old ones. *)
LEMMA VaultStep ==
  ASSUME RegistryInv, StoreCredentials
  PROVE  RegistryInv'
  <1>1. /\ Turned /\ Numbered /\ Locked /\ OnePerTenant /\ Roomy /\ Accounted
        /\ Stored /\ Resolved /\ Owned
    BY CacheFacts
  <1>2. /\ turn' = turn /\ entries' = entries /\ lock' = lock /\ reg' = reg
        /\ closing' = closing /\ abandoned' = abandoned
    BY DEF StoreCredentials
  <1>3. kms' = kms /\ house' = house
    BY DEF StoreCredentials, Put, Delete
  <1>4. Turned' /\ Numbered' /\ Accounted' /\ Locked' /\ OnePerTenant' /\ Roomy' /\ Owned'
    BY <1>1, <1>2, <1>3
      DEF Turned, Numbered, Accounted, Locked, OnePerTenant, Roomy, Owned
  <1>5. /\ PerProvider(vault) /\ PerProvider(plain) /\ PerProvider(offered)
        /\ \A x \in Tenants, y \in Providers :
             InPlace(kms, x, y, vault[x][y], plain[x][y], offered[x][y])
    BY <1>1 DEF Stored, WasPut, PerProvider, InPlace
  <1>6. PICK t \in Tenants, p \in Providers :
          Delete(t, p) \/ \E payload \in Payloads[t][p] : Put(t, p, payload)
    BY DEF StoreCredentials
  <1>7. PICK blobs, payloads, off :
          /\ vault' = [vault EXCEPT ![t][p] = blobs]
          /\ plain' = [plain EXCEPT ![t][p] = payloads]
          /\ offered' = [offered EXCEPT ![t][p] = off]
          /\ InPlace(kms, t, p, blobs, payloads, off) /\ offered[t][p] \subseteq off
    <2>1. CASE Delete(t, p)
      <3>1. /\ vault' = [vault EXCEPT ![t][p] = {}] /\ plain' = [plain EXCEPT ![t][p] = {}]
            /\ offered' = offered
        BY <2>1 DEF Delete
      <3>2. offered' = [offered EXCEPT ![t][p] = offered[t][p]]
        BY <1>5, <3>1 DEF PerProvider
      <3>3. InPlace(kms, t, p, {}, {}, offered[t][p])
        BY DEF InPlace
      <3> QED BY <3>1, <3>2, <3>3
    <2>2. ASSUME NEW payload, Put(t, p, payload)
          PROVE  \E blobs, payloads, off :
                   /\ vault' = [vault EXCEPT ![t][p] = blobs]
                   /\ plain' = [plain EXCEPT ![t][p] = payloads]
                   /\ offered' = [offered EXCEPT ![t][p] = off]
                   /\ InPlace(kms, t, p, blobs, payloads, off) /\ offered[t][p] \subseteq off
      <3>1. /\ vault' = [vault EXCEPT ![t][p] = {Encrypt(kms, t, p, payload)}]
            /\ plain' = [plain EXCEPT ![t][p] = {payload}]
        BY <2>2 DEF Put
      <3>2. offered' = [offered EXCEPT ![t][p] = offered[t][p] \cup {payload}]
        BY <1>5, <2>2 DEF Put, PerProvider
      <3>3. InPlace(kms, t, p, {Encrypt(kms, t, p, payload)}, {payload},
                    offered[t][p] \cup {payload})
        <4>1. Encrypt(kms, t, p, payload).payload = payload
          BY DEF Encrypt
        <4> QED BY <4>1 DEF InPlace
      <3> QED BY <3>1, <3>2, <3>3
    <2> QED BY <1>6, <2>1, <2>2
  <1>8. PICK v, pl, o : v = vault' /\ pl = plain' /\ o = offered'
    OBVIOUS
  <1>9. /\ PerProvider(v) /\ v[t][p] = blobs
        /\ \A x \in Tenants, y \in Providers : x # t \/ y # p => v[x][y] = vault[x][y]
    <2>1. IsChanged(vault, v, t, p, blobs)
      BY <1>7, <1>8 DEF IsChanged
    <2> QED BY <1>5, <2>1, SetEntry
  <1>10. /\ PerProvider(pl) /\ pl[t][p] = payloads
         /\ \A x \in Tenants, y \in Providers : x # t \/ y # p => pl[x][y] = plain[x][y]
    <2>1. IsChanged(plain, pl, t, p, payloads)
      BY <1>7, <1>8 DEF IsChanged
    <2> QED BY <1>5, <2>1, SetEntry
  <1>11. /\ PerProvider(o) /\ o[t][p] = off
         /\ \A x \in Tenants, y \in Providers : x # t \/ y # p => o[x][y] = offered[x][y]
    <2>1. IsChanged(offered, o, t, p, off)
      BY <1>7, <1>8 DEF IsChanged
    <2> QED BY <1>5, <2>1, SetEntry
  <1>12. ASSUME NEW x \in Tenants, NEW y \in Providers
         PROVE  InPlace(kms, x, y, v[x][y], pl[x][y], o[x][y]) /\ offered[x][y] \subseteq o[x][y]
    <2>1. CASE x = t /\ y = p
      BY <1>7, <1>9, <1>10, <1>11, <2>1
    <2>2. CASE x # t \/ y # p
      BY <1>5, <1>9, <1>10, <1>11, <2>2
    <2> QED BY <2>1, <2>2
  <1>13. Stored'
    BY <1>3, <1>8, <1>9, <1>10, <1>11, <1>12 DEF Stored, WasPut, PerProvider, InPlace
  <1>14. Resolved'
    <2>1. ASSUME NEW u \in Turns PROVE ResolvedRow(house, turn[u], o)
      <3>1. turn[u].tenant \in Tenants /\ ResolvedRow(house, turn[u], offered)
        BY <1>1 DEF Turned, IsTurn, Resolved
      <3>2. \A y \in Providers : offered[turn[u].tenant][y] \subseteq o[turn[u].tenant][y]
        BY <1>12, <3>1
      <3>3. OwnDrivers(house, turn[u].drivers, turn[u].degraded, o[turn[u].tenant])
        BY <3>1, <3>2 DEF ResolvedRow, OwnDrivers, OwnDriver
      <3> QED BY <3>1, <3>3 DEF ResolvedRow
    <2> QED BY <1>2, <1>3, <1>8, <2>1 DEF Resolved
  <1> QED BY <1>4, <1>13, <1>14 DEF RegistryInv, CacheInv

(* aclose_all takes what is cached; no turn holds the lock.                *)
LEMMA CloseAllStep ==
  ASSUME RegistryInv, CloseAll
  PROVE  RegistryInv'
  <1>1. /\ Turned /\ Numbered /\ Locked /\ OnePerTenant /\ Roomy /\ Accounted
        /\ Stored /\ Resolved /\ Owned
        /\ Len(entries) \in Nat /\ DOMAIN entries = 1..Len(entries)
        /\ \A i \in 1..Len(entries) : entries[i] \in 1..Len(reg)
    BY CacheFacts
  <1>2. /\ closing' = closing \cup ToSet(entries) /\ entries' = <<>> /\ turn' = turn
        /\ lock' = lock /\ reg' = reg /\ abandoned' = abandoned /\ vault' = vault
        /\ plain' = plain /\ offered' = offered /\ house' = house /\ kms' = kms
    BY DEF CloseAll, vaultVars
  <1>3. Turned' /\ Locked' /\ Stored' /\ Resolved' /\ Owned'
    BY <1>1, <1>2 DEF Turned, Locked, Stored, Resolved, Owned
  <1>4. entries' \in Seq(1..Len(reg)) /\ Len(entries') = 0
    BY <1>2
  <1>5. ToSet(entries) = {entries[i] : i \in 1..Len(entries)}
    BY <1>1 DEF ToSet
  <1>6. Numbered'
    BY <1>1, <1>2, <1>4, <1>5 DEF Numbered
  <1>7. OnePerTenant' /\ Roomy'
    BY <1>4, TenantAssumption DEF OnePerTenant, Roomy
  <1>8. Accounted'
    BY <1>1, <1>2, <1>4, <1>5 DEF Accounted
  <1> QED BY <1>3, <1>6, <1>7, <1>8 DEF RegistryInv, CacheInv

LEMMA CloseOneStep ==
  ASSUME RegistryInv, NEW h \in DOMAIN reg, CloseOne(h)
  PROVE  RegistryInv'
  <1>1. /\ Turned /\ Numbered /\ Locked /\ OnePerTenant /\ Roomy /\ Accounted
        /\ Stored /\ Resolved /\ Owned
        /\ \A i \in 1..Len(entries) : entries[i] \in 1..Len(reg)
    BY CacheFacts
  <1>2. /\ h \in closing /\ closing' = closing \ {h} /\ CloseSafely(h)
        /\ entries' = entries /\ turn' = turn /\ lock' = lock
        /\ vault' = vault /\ plain' = plain /\ offered' = offered /\ house' = house
        /\ kms' = kms
    BY DEF CloseOne, vaultVars
  <1>3. h \in 1..Len(reg)
    BY <1>1, <1>2 DEF Numbered
  <1>4. /\ Len(reg') = Len(reg) /\ reg' = [k \in 1..Len(reg) |-> reg'[k]]
        /\ abandoned \subseteq abandoned'
        /\ \A k \in 1..Len(reg) :
             /\ IsRegistry(reg'[k]) /\ reg'[k].tenant = reg[k].tenant
             /\ reg'[k].drivers = reg[k].drivers /\ reg'[k].degraded = reg[k].degraded
             /\ reg'[k].offered = reg[k].offered
             /\ reg'[k].open => reg[k].open /\ (k # h \/ k \in abandoned')
             /\ k # h /\ reg[k].open => reg'[k].open
    BY <1>1, <1>2, <1>3, SafelyClosed
  <1>5. Turned' /\ Locked' /\ Stored' /\ Resolved' /\ Roomy'
    BY <1>1, <1>2 DEF Turned, Locked, Stored, Resolved, Roomy
  <1>6. Numbered'
    BY <1>1, <1>2, <1>4 DEF Numbered
  <1>7. \A i \in 1..Len(entries) : entries[i] # h
    BY <1>1, <1>2 DEF Accounted
  <1>8. OnePerTenant'
    <2>1. \A i \in 1..Len(entries) : reg'[entries[i]].tenant = reg[entries[i]].tenant
      BY <1>1, <1>4
    <2> QED BY <1>1, <1>2, <2>1 DEF OnePerTenant
  <1>9. Accounted'
    <2>1. \A i \in 1..Len(entries) : reg'[entries[i]].open /\ entries[i] \notin closing'
      BY <1>1, <1>2, <1>4, <1>7 DEF Accounted
    <2>2. \A k \in 1..Len(reg) : reg'[k].open =>
            k \in closing' \/ k \in abandoned' \/ \E i \in 1..Len(entries) : entries[i] = k
      BY <1>1, <1>2, <1>4 DEF Accounted
    <2> QED BY <1>2, <1>4, <2>1, <2>2 DEF Accounted
  <1>10. Owned'
    BY <1>1, <1>2, <1>4 DEF Owned
  <1> QED BY <1>5, <1>6, <1>8, <1>9, <1>10 DEF RegistryInv, CacheInv

LEMMA RegistryInit == Init => RegistryInv
  <1> SUFFICES ASSUME Init PROVE RegistryInv
    OBVIOUS
  <1>1. PICK s \in Scenarios : /\ kms = s.kms /\ house = s.house
                               /\ vault = s.vault /\ plain = s.plain /\ offered = s.plain
    BY DEF Init
  <1>2. /\ turn = [u \in Turns |-> IdleTurn] /\ entries = <<>> /\ lock = "free"
        /\ reg = <<>> /\ closing = {}
    BY DEF Init
  <1>3. Stored
    <2>1. WasPut(kms, vault, plain)
      BY <1>1, TenantAssumption
    <2>2. PerProvider(plain)
      BY <2>1 DEF WasPut, PerProvider
    <2> QED BY <1>1, <2>1, <2>2 DEF Stored
  <1>4. Len(reg) = 0 /\ Len(entries) = 0
    BY <1>2
  <1>5. Numbered
    <2>1. reg = [i \in 1..0 |-> reg[i]]
      BY <1>2
    <2>2. entries \in Seq(1..0)
      BY <1>2
    <2> QED BY <1>2, <1>4, <2>1, <2>2 DEF Numbered
  <1>6. Turned /\ Locked
    BY <1>2, IdleTyped, TenantAssumption DEF Turned, Locked, Holding
  <1>7. OnePerTenant /\ Roomy /\ Accounted /\ Owned
    BY <1>2, <1>4, IdleTyped, TenantAssumption
      DEF OnePerTenant, Roomy, Accounted, Owned, Building
  <1>8. Resolved
    <2>1. ResolvedRow(house, IdleTurn, offered)
      BY IdleTyped DEF ResolvedRow, OwnDrivers, NoDrivers
    <2> QED BY <1>2, <2>1 DEF Resolved
  <1> QED BY <1>3, <1>5, <1>6, <1>7, <1>8 DEF RegistryInv, CacheInv

LEMMA RegistryStep == RegistryInv /\ [Next]_vars => RegistryInv'
  <1> SUFFICES ASSUME RegistryInv, [Next]_vars PROVE RegistryInv'
    OBVIOUS
  <1>1. CASE \E a \in Admins : \/ \E t \in Tenants, patch \in Patches : AdminLoad(a, t, patch)
                              \/ AdminInsert(a) \/ AdminWrite(a)
    <2>1. turn' = turn /\ UNCHANGED registryVars
      BY <1>1 DEF AdminLoad, AdminInsert, AdminWrite
    <2> QED BY <2>1, NoTurnMoves
  <1>2. ASSUME NEW u \in Turns,
               \/ \E t \in Tenants : Begin(u, t)
               \/ Load(u) \/ LoadFails(u) \/ Store(u) \/ Check(u) \/ Enforce(u) \/ Used(u)
               \/ \E tokens \in 0 .. TurnTokens : Respond(u, tokens)
               \/ Record(u) \/ CostsFail(u)
        PROVE  RegistryInv'
    BY <1>2, GateSteps
  <1>3. ASSUME NEW u \in Turns, GetHit(u) \/ GetMiss(u) \/ Build(u) \/ Evict(u) \/ Cancel(u)
        PROVE  RegistryInv'
    BY <1>3, GetHitStep, GetMissStep, BuildStep, EvictStep, CancelStep
  <1>4. ASSUME NEW u \in Turns, NEW p \in Providers, NEW broken \in BOOLEAN, Resolve(u, p, broken)
        PROVE  RegistryInv'
    BY <1>4, ResolveStep
  <1>5. CASE StoreCredentials
    BY <1>5, VaultStep
  <1>6. CASE CloseAll
    BY <1>6, CloseAllStep
  <1>7. ASSUME NEW i \in DOMAIN reg, CloseOne(i) PROVE RegistryInv'
    BY <1>7, CloseOneStep
  <1>8. CASE Tick \/ UNCHANGED vars
    <2>1. turn' = turn /\ UNCHANGED registryVars
      BY <1>8 DEF Tick, vars, registryVars, vaultVars
    <2> QED BY <2>1, NoTurnMoves
  <1> QED BY <1>1, <1>2, <1>3, <1>4, <1>5, <1>6, <1>7, <1>8 DEF Next

(* What the invariant says of registries, in the terms of the run.         *)
LEMMA RegistrySound == RegistryInv => RegistriesSound
  <1> SUFFICES ASSUME RegistryInv PROVE RegistriesSound
    OBVIOUS
  <1>1. /\ Numbered /\ Locked /\ OnePerTenant /\ Roomy /\ Accounted /\ Owned
        /\ Len(entries) \in Nat /\ DOMAIN entries = 1..Len(entries)
    BY CacheFacts
  <1>2. DOMAIN reg = 1..Len(reg)
    BY <1>1 DEF Numbered
  <1>3. ToSet(entries) = {entries[i] : i \in 1..Len(entries)}
    BY <1>1 DEF ToSet
  <1>4. RegistriesAccounted
    <2>1. \A i \in DOMAIN entries : reg[entries[i]].open
      BY <1>1 DEF Accounted
    <2>2. \A i, j \in DOMAIN entries : reg[entries[i]].tenant = reg[entries[j]].tenant => i = j
      BY <1>1 DEF OnePerTenant
    <2>3. Len(entries) > MaxEntries => lock # "free"
      <3>1. \A u \in Turns : u # "free"
        BY TenantAssumption
      <3>2. MaxEntries \in Nat
        BY TenantAssumption
      <3>3. Len(entries) > MaxEntries => \E u \in Turns : lock = u
        <4>1. Roomy /\ Len(entries) \in Nat
          BY <1>1
        <4>2. CASE Len(entries) <= MaxEntries
          BY <3>2, <4>1, <4>2
        <4>3. CASE ~(Len(entries) <= MaxEntries)
          BY <4>1, <4>3 DEF Roomy
        <4> QED BY <4>2, <4>3
      <3> QED BY <3>1, <3>3
    <2>4. \A i \in DOMAIN reg : reg[i].open => i \in ToSet(entries) \cup closing \cup abandoned
      BY <1>1, <1>2, <1>3 DEF Accounted
    <2> QED BY <2>1, <2>2, <2>3, <2>4 DEF RegistriesAccounted
  <1>5. OwnCredentials
    BY <1>1, <1>2 DEF Owned, OwnDrivers, OwnDriver, OwnCredentials
  <1> QED BY <1>4, <1>5 DEF RegistriesSound

(* The registries of the tenants are accounted for and hold their own      *)
(* credentials, however turns, cancellations, the vault's operators and    *)
(* the shutdown interleave (tenant_registry.py TenantRegistry).            *)
THEOREM RegistriesAlwaysSound == Spec => []RegistriesSound
  <1>1. Spec => []RegistryInv
    BY RegistryInit, RegistryStep, PTL DEF Spec
  <1> QED BY <1>1, RegistrySound, PTL

-----------------------------------------------------------------------------
(* The settings.                                                           *)

IsAdmin(r) ==
    /\ r = [at |-> r.at, tenant |-> r.tenant, patch |-> r.patch, loaded |-> r.loaded]
    /\ r.tenant \in Tenants
    /\ \A f \in DOMAIN r.patch : f \in Fields /\ r.patch[f] \in Nat

Administered == admin = [a \in Admins |-> admin[a]] /\ \A a \in Admins : IsAdmin(admin[a])

SettingsTyped == \A u \in Turns : turn[u].settings \in SettingsRecord

SettingsInv ==
    /\ Administered
    /\ row \in [Tenants -> SettingsRecord] /\ cached \in [Tenants -> SettingsRecord]
    /\ SettingsTyped

LEMMA RowsTyped == /\ NoRow \in SettingsRecord /\ DefaultRow \in SettingsRecord
                   /\ Unknown \in SettingsRecord
                   /\ [DefaultRow EXCEPT !.there = FALSE] \in SettingsRecord
  BY TenantAssumption DEF NoRow, DefaultRow, Unknown, SettingsRecord, NoBudget

LEMMA PatchesTyped ==
  ASSUME NEW patch \in Patches
  PROVE  \A f \in DOMAIN patch : f \in Fields /\ patch[f] \in Nat
  <1>1. CASE patch = <<>>
    BY <1>1
  <1>2. ASSUME NEW f \in Fields, patch \in [{f} -> Values(f)]
        PROVE  \A g \in DOMAIN patch : g \in Fields /\ patch[g] \in Nat
    <2>1. Rates \subseteq Nat /\ TokenBudgets \subseteq Nat
      BY TenantAssumption
    <2>2. Values(f) \subseteq Nat
      BY <2>1 DEF Values, NoBudget
    <2> QED BY <1>2, <2>2
  <1> QED BY <1>1, <1>2 DEF Patches

LEMMA IdleAdminTyped == IsAdmin(IdleAdmin) /\ IdleAdmin.at = "idle"
  BY TenantAssumption DEF IsAdmin, IdleAdmin

LEMMA AdminSet ==
  ASSUME Administered, NEW a \in Admins, NEW q, IsAdmin(q), admin' = [admin EXCEPT ![a] = q]
  PROVE  Administered' /\ admin'[a] = q /\ \A b \in Admins : b # a => admin'[b] = admin[b]
  <1>1. admin'[a] = q /\ \A b \in Admins : b # a => admin'[b] = admin[b]
    BY DEF Administered
  <1>2. admin' = [b \in Admins |-> admin'[b]]
    BY DEF Administered
  <1>3. \A b \in Admins : IsAdmin(admin'[b])
    BY <1>1 DEF Administered
  <1> QED BY <1>1, <1>2, <1>3 DEF Administered

(* Only the columns that a PATCH names and changes are written.            *)
LEMMA WrittenRow ==
  ASSUME NEW r, IsAdmin(r), NEW old \in SettingsRecord
  PROVE  LET new == [f \in DOMAIN NoRow |-> IF f \in Written(r) THEN r.patch[f] ELSE old[f]] IN
         /\ new \in SettingsRecord
         /\ \A f \in Fields \ DOMAIN r.patch : new[f] = old[f]
  <1>1. DOMAIN NoRow = {"minute", "hour", "tokens", "there"}
    BY DEF NoRow
  <1>2. PICK new : new = [f \in DOMAIN NoRow |-> IF f \in Written(r) THEN r.patch[f] ELSE old[f]]
    OBVIOUS
  <1>3. Written(r) \subseteq DOMAIN r.patch
    BY DEF Written
  <1>4. \A f \in Fields : new[f] = IF f \in Written(r) THEN r.patch[f] ELSE old[f]
    BY <1>1, <1>2 DEF Fields
  <1>5. new["there"] = old["there"]
    BY <1>1, <1>2, <1>3 DEF IsAdmin, Fields
  <1>6. \A f \in Fields : new[f] \in Nat
    BY <1>3, <1>4 DEF IsAdmin, Fields, SettingsRecord
  <1>7. new = [minute |-> new["minute"], hour |-> new["hour"], tokens |-> new["tokens"],
               there |-> new["there"]]
    BY <1>1, <1>2
  <1>8. new \in SettingsRecord
    BY <1>5, <1>6, <1>7 DEF Fields, SettingsRecord
  <1>9. \A f \in Fields \ DOMAIN r.patch : new[f] = old[f]
    BY <1>3, <1>4
  <1> QED BY <1>2, <1>8, <1>9

LEMMA SettingsInit == Init => SettingsInv
  <1> SUFFICES ASSUME Init PROVE SettingsInv
    OBVIOUS
  <1>1. PICK s \in Scenarios : row = [t \in Tenants |-> s.row]
    BY DEF Init
  <1>2. row \in [Tenants -> SettingsRecord]
    <2>1. s.row \in SettingsRecord
      BY <1>1, TenantAssumption
    <2> QED BY <1>1, <2>1
  <1>3. cached \in [Tenants -> SettingsRecord]
    BY RowsTyped DEF Init
  <1>4. Administered
    BY IdleAdminTyped DEF Init, Administered
  <1>5. SettingsTyped
    <2>1. IdleTurn.settings = NoRow
      BY DEF IdleTurn
    <2> QED BY <2>1, RowsTyped DEF Init, SettingsTyped
  <1> QED BY <1>2, <1>3, <1>4, <1>5 DEF SettingsInv

(* What the property says of a step.                                       *)
OthersStep ==
    \A a \in Admins : admin[a].at = "write" /\ admin'[a].at = "idle" =>
        \A f \in Fields \ DOMAIN admin[a].patch :
            row'[admin[a].tenant][f] = row[admin[a].tenant][f]

(* Requests of the settings endpoint.                                      *)
LEMMA AdminSteps ==
  ASSUME SettingsInv, NEW b \in Admins,
         \/ \E t \in Tenants, patch \in Patches : AdminLoad(b, t, patch)
         \/ AdminInsert(b) \/ AdminWrite(b)
  PROVE  SettingsInv' /\ OthersStep
  <1>1. /\ Administered /\ row \in [Tenants -> SettingsRecord]
        /\ cached \in [Tenants -> SettingsRecord]
        /\ SettingsTyped
    BY DEF SettingsInv
  <1>2. PICK r : r = admin[b]
    OBVIOUS
  <1>3. IsAdmin(r)
    BY <1>1, <1>2 DEF Administered
  <1>4. cached' = cached /\ turn' = turn
    BY DEF AdminLoad, AdminInsert, AdminWrite
  <1>5. ASSUME NEW t \in Tenants, NEW patch \in Patches, AdminLoad(b, t, patch)
        PROVE  SettingsInv' /\ OthersStep
    <2>1. PICK stage, old : stage = (IF row[t].there THEN "write" ELSE "insert") /\ old = row[t]
      OBVIOUS
    <2>2. PICK q : q = [at |-> stage, tenant |-> t, patch |-> patch, loaded |-> old]
      OBVIOUS
    <2>3. r.at = "idle" /\ admin' = [admin EXCEPT ![b] = q] /\ row' = row
      BY <1>2, <1>5, <2>1, <2>2 DEF AdminLoad
    <2>4. IsAdmin(q)
      BY <2>2, PatchesTyped DEF IsAdmin
    <2>5. Administered' /\ \A a \in Admins : a # b => admin'[a] = admin[a]
      BY <1>1, <2>3, <2>4, AdminSet
    <2>6. SettingsInv'
      BY <1>1, <1>4, <2>3, <2>5 DEF SettingsInv, SettingsTyped
    <2>7. OthersStep
      BY <2>3 DEF OthersStep
    <2> QED BY <2>6, <2>7
  <1>6. CASE AdminInsert(b)
    <2>0. r.at = "insert" /\ r.tenant \in Tenants
      BY <1>2, <1>3, <1>6 DEF AdminInsert, IsAdmin
    <2>1. CASE row[r.tenant].there
      <3>1. admin' = [admin EXCEPT ![b] = IdleAdmin] /\ row' = row
        BY <1>2, <1>6, <2>1 DEF AdminInsert
      <3>2. Administered'
        BY <1>1, <3>1, IdleAdminTyped, AdminSet
      <3>3. SettingsInv'
        BY <1>1, <1>4, <3>1, <3>2 DEF SettingsInv, SettingsTyped
      <3>4. OthersStep
        BY <3>1 DEF OthersStep
      <3> QED BY <3>3, <3>4
    <2>2. CASE ~row[r.tenant].there
      <3>1. /\ row' = [row EXCEPT ![r.tenant] = DefaultRow]
            /\ admin' = [admin EXCEPT ![b].at = "write", ![b].loaded = DefaultRow]
        BY <1>2, <1>6, <2>2 DEF AdminInsert
      <3>2. PICK q : q = [r EXCEPT !.at = "write", !.loaded = DefaultRow]
        OBVIOUS
      <3>3. admin' = [admin EXCEPT ![b] = q]
        BY <1>1, <1>2, <3>1, <3>2 DEF Administered
      <3>4. IsAdmin(q)
        BY <1>3, <3>2 DEF IsAdmin
      <3>5. Administered' /\ admin'[b] = q /\ \A a \in Admins : a # b => admin'[a] = admin[a]
        BY <1>1, <3>3, <3>4, AdminSet
      <3>6. row' \in [Tenants -> SettingsRecord]
        BY <1>1, <2>0, <3>1, RowsTyped
      <3>7. SettingsInv'
        BY <1>1, <1>4, <3>5, <3>6 DEF SettingsInv, SettingsTyped
      <3>8. OthersStep
        BY <1>2, <2>0, <3>5 DEF OthersStep
      <3> QED BY <3>7, <3>8
    <2> QED BY <2>1, <2>2
  <1>7. CASE AdminWrite(b)
    <2>1. PICK old : old = row[r.tenant]
      OBVIOUS
    <2>2. PICK new : new = [f \in DOMAIN NoRow |-> IF f \in Written(r) THEN r.patch[f] ELSE old[f]]
      OBVIOUS
    <2>3. r.tenant \in Tenants /\ old \in SettingsRecord
      BY <1>1, <1>3, <2>1 DEF IsAdmin
    <2>4. /\ new \in SettingsRecord
          /\ \A f \in Fields \ DOMAIN r.patch : new[f] = old[f]
      BY <1>3, <2>2, <2>3, WrittenRow
    <2>5. row' = [row EXCEPT ![r.tenant] = new] /\ admin' = [admin EXCEPT ![b] = IdleAdmin]
      BY <1>1, <1>2, <1>7, <2>1, <2>2, <2>3 DEF AdminWrite
    <2>6. Administered' /\ \A a \in Admins : a # b => admin'[a] = admin[a]
      BY <1>1, <2>5, IdleAdminTyped, AdminSet
    <2>7. row' \in [Tenants -> SettingsRecord] /\ row'[r.tenant] = new
      BY <1>1, <2>3, <2>4, <2>5
    <2>8. SettingsInv'
      BY <1>1, <1>4, <2>6, <2>7 DEF SettingsInv, SettingsTyped
    <2>9. OthersStep
      BY <1>2, <2>1, <2>4, <2>6, <2>7 DEF OthersStep
    <2> QED BY <2>8, <2>9
  <1> QED BY <1>5, <1>6, <1>7

(* Whatever else happens, the settings of a turn are rows of settings.     *)
LEMMA OtherSteps ==
  ASSUME Turned, SettingsInv, admin' = admin, row' = row,
         cached' \in [Tenants -> SettingsRecord],
         SettingsTyped'
  PROVE  SettingsInv' /\ OthersStep
  BY DEF SettingsInv, OthersStep, Administered

(* How a step of a turn leaves its settings.                               *)
LEMMA TurnSettings ==
  ASSUME Turned, SettingsTyped, NEW u \in Turns, NEW q, q.settings \in SettingsRecord,
         turn' = [turn EXCEPT ![u] = q]
  PROVE  SettingsTyped'
  BY DEF Turned, SettingsTyped

LEMMA SettingsStep == Turned /\ SettingsInv /\ [Next]_vars => SettingsInv' /\ OthersStep
  <1> SUFFICES ASSUME Turned, SettingsInv, [Next]_vars PROVE SettingsInv' /\ OthersStep
    OBVIOUS
  <1>0. /\ row \in [Tenants -> SettingsRecord] /\ cached \in [Tenants -> SettingsRecord]
        /\ SettingsTyped
    BY DEF SettingsInv
  <1>1. CASE \E a \in Admins : \/ \E t \in Tenants, patch \in Patches : AdminLoad(a, t, patch)
                              \/ AdminInsert(a) \/ AdminWrite(a)
    BY <1>1, AdminSteps
  <1>2. CASE StoreCredentials \/ CloseAll \/ (\E i \in DOMAIN reg : CloseOne(i)) \/ Tick
               \/ UNCHANGED vars
    <2>1. admin' = admin /\ row' = row /\ cached' = cached /\ turn' = turn
      BY <1>2 DEF StoreCredentials, CloseAll, CloseOne, Tick, vars, settingsVars
    <2> QED BY <1>0, <2>1, OtherSteps DEF SettingsTyped
  <1>3. ASSUME NEW u \in Turns,
               \/ \E t \in Tenants : Begin(u, t)
               \/ Load(u) \/ LoadFails(u) \/ Store(u) \/ Check(u) \/ Enforce(u)
               \/ GetHit(u) \/ GetMiss(u) \/ Build(u) \/ Evict(u) \/ Cancel(u)
               \/ \E p \in Providers, broken \in BOOLEAN : Resolve(u, p, broken)
               \/ Used(u) \/ \E tokens \in 0 .. TurnTokens : Respond(u, tokens)
               \/ Record(u) \/ CostsFail(u)
        PROVE  SettingsInv' /\ OthersStep
    <2>0. PICK r : r = turn[u]
      OBVIOUS
    <2>1. IsTurn(r) /\ r.settings \in SettingsRecord /\ r.tenant \in Tenants
      BY <1>0, <2>0 DEF Turned, IsTurn, SettingsTyped
    <2>2. admin' = admin /\ row' = row
      BY <1>3 DEF Begin, Load, LoadFails, Store, Check, Enforce, GetHit, GetMiss, Build, Evict,
                  Cancel, Resolve, Used, Respond, Record, CostsFail, settingsVars
    <2>3. cached' \in [Tenants -> SettingsRecord]
      <3>1. CASE Store(u)
        <4>1. cached' = [cached EXCEPT ![r.tenant] = r.settings]
          BY <2>0, <3>1 DEF Store
        <4> QED BY <1>0, <2>1, <4>1
      <3>2. CASE ~Store(u)
        <4>1. cached' = cached
          BY <1>3, <3>2
            DEF Begin, Load, LoadFails, Check, Enforce, GetHit, GetMiss, Build, Evict,
                Cancel, Resolve, Used, Respond, Record, CostsFail, settingsVars
        <4> QED BY <1>0, <4>1
      <3> QED BY <3>1, <3>2
    <2>4. ASSUME NEW t \in Tenants, Begin(u, t) PROVE SettingsTyped'
      <3>1. PICK stage, hit : stage = (IF cached[t] = NoRow THEN "load" ELSE "rate") /\ hit = cached[t]
        OBVIOUS
      <3>2. PICK q : q = [IdleTurn EXCEPT !.tenant = t, !.settings = hit, !.at = stage]
        OBVIOUS
      <3>3. turn' = [turn EXCEPT ![u] = q]
        BY <2>4, <3>1, <3>2 DEF Begin
      <3>4. q.settings = hit /\ hit \in SettingsRecord
        BY <1>0, <3>1, <3>2 DEF IdleTurn
      <3> QED BY <1>0, <3>3, <3>4, TurnSettings
    <2>5. ASSUME Load(u)
          PROVE SettingsTyped'
      <3>1. PICK x : x = IF row[r.tenant].there THEN row[r.tenant]
                         ELSE [DefaultRow EXCEPT !.there = FALSE]
        OBVIOUS
      <3>2. turn' = [turn EXCEPT ![u].at = "store", ![u].settings = x]
        BY <2>0, <2>5, <3>1 DEF Load
      <3>3. PICK q : q = [r EXCEPT !.at = "store", !.settings = x]
        OBVIOUS
      <3>4. turn' = [turn EXCEPT ![u] = q]
        BY <2>0, <3>2, <3>3 DEF Turned
      <3>5. q.settings = x /\ x \in SettingsRecord
        <4>1. q.settings = x
          BY <2>1, <3>3 DEF IsTurn
        <4>2. x \in SettingsRecord
          BY <1>0, <2>1, <3>1, RowsTyped
        <4> QED BY <4>1, <4>2
      <3> QED BY <1>0, <3>4, <3>5, TurnSettings
    <2>6. ASSUME LoadFails(u)
          PROVE SettingsTyped'
      <3>1. PICK q : q = [r EXCEPT !.at = "rate", !.settings = Unknown]
        OBVIOUS
      <3>2. turn' = [turn EXCEPT ![u] = q]
        BY <2>0, <2>6, <3>1 DEF LoadFails, Turned
      <3>3. q.settings = Unknown
        BY <2>1, <3>1 DEF IsTurn
      <3> QED BY <1>0, <3>2, <3>3, RowsTyped, TurnSettings
    <2>7. ASSUME End(u) PROVE SettingsTyped'
      <3>1. IdleTurn.settings = NoRow
        BY DEF IdleTurn
      <3>2. turn' = [turn EXCEPT ![u] = IdleTurn]
        BY <2>7 DEF End
      <3> QED BY <1>0, <3>1, <3>2, RowsTyped, TurnSettings
    <2>8. ASSUME NEW stage, Goto(u, stage) PROVE SettingsTyped'
      <3>1. PICK q : q = [r EXCEPT !.at = stage]
        OBVIOUS
      <3>2. turn' = [turn EXCEPT ![u] = q]
        BY <2>0, <2>8, <3>1 DEF Goto, Turned
      <3>3. q.settings = r.settings
        BY <2>1, <3>1 DEF IsTurn
      <3> QED BY <1>0, <2>1, <3>2, <3>3, TurnSettings
    <2>9. ASSUME Store(u) \/ Check(u) \/ Enforce(u) \/ Cancel(u) \/ Record(u) \/ CostsFail(u)
                 \/ \E tokens \in 0 .. TurnTokens : Respond(u, tokens)
          PROVE SettingsTyped'
      <3>1. End(u) \/ Goto(u, "rate") \/ Goto(u, "budget") \/ Goto(u, "model") \/ Goto(u, "record")
        BY <2>9 DEF Store, Check, Judge, Enforce, Cancel, Record, CostsFail, Respond
      <3> QED BY <2>7, <2>8, <3>1
    <2>10. ASSUME GetHit(u) \/ Used(u)
           PROVE SettingsTyped'
      <3>1. PICK stage, n : turn' = [turn EXCEPT ![u].at = stage, ![u].reg = n]
        BY <2>10 DEF GetHit, Used
      <3>2. PICK q : q = [r EXCEPT !.at = stage, !.reg = n]
        OBVIOUS
      <3>3. turn' = [turn EXCEPT ![u] = q]
        BY <2>0, <3>1, <3>2 DEF Turned
      <3>4. q.settings = r.settings
        BY <2>1, <3>2 DEF IsTurn
      <3> QED BY <1>0, <2>1, <3>3, <3>4, TurnSettings
    <2>11. ASSUME Evict(u)
           PROVE SettingsTyped'
      <3>1. CASE turn' = turn
        BY <1>0, <3>1 DEF SettingsTyped
      <3>2. CASE Goto(u, "use")
        BY <2>8, <3>2
      <3> QED BY <2>11, <3>1, <3>2 DEF Evict
    <2>12. ASSUME GetMiss(u)
           PROVE SettingsTyped'
      <3>1. PICK q : q = [r EXCEPT !.at = "amadeus", !.drivers = NoDrivers, !.degraded = {}]
        OBVIOUS
      <3>2. turn' = [turn EXCEPT ![u] = q]
        BY <2>0, <2>12, <3>1 DEF GetMiss, Turned
      <3>3. q.settings = r.settings
        BY <2>1, <3>1 DEF IsTurn
      <3> QED BY <1>0, <2>1, <3>2, <3>3, TurnSettings
    <2>13. ASSUME Build(u)
           PROVE SettingsTyped'
      <3>1. PICK n : n = Len(reg) + 1
        OBVIOUS
      <3>2. PICK q : q = [r EXCEPT !.at = "evict", !.reg = n, !.drivers = NoDrivers,
                                   !.degraded = {}]
        OBVIOUS
      <3>3. turn' = [turn EXCEPT ![u] = q]
        BY <2>0, <2>13, <3>1, <3>2 DEF Build, Turned
      <3>4. q.settings = r.settings
        BY <2>1, <3>2 DEF IsTurn
      <3> QED BY <1>0, <2>1, <3>3, <3>4, TurnSettings
    <2>14. ASSUME NEW p \in Providers, NEW broken \in BOOLEAN, Resolve(u, p, broken)
           PROVE  SettingsTyped'
      <3>1. PICK D, deg, stage :
              turn' = [turn EXCEPT ![u].drivers[p] = D, ![u].degraded = deg, ![u].at = stage]
        BY <2>14 DEF Resolve
      <3>2. PICK q : q = [r EXCEPT !.drivers = [r.drivers EXCEPT ![p] = D], !.degraded = deg,
                                   !.at = stage]
        OBVIOUS
      <3>3. turn' = [turn EXCEPT ![u] = q]
        BY <2>0, <2>1, <3>1, <3>2 DEF Turned, IsTurn
      <3>4. q.settings = r.settings
        BY <2>1, <3>2 DEF IsTurn
      <3> QED BY <1>0, <2>1, <3>3, <3>4, TurnSettings
    <2>15. SettingsTyped'
      BY <1>3, <2>4, <2>5, <2>6, <2>9, <2>10, <2>11, <2>12, <2>13, <2>14
    <2> QED BY <2>2, <2>3, <2>15, OtherSteps
  <1> QED BY <1>1, <1>2, <1>3 DEF Next

(* A PATCH of the settings changes no column it does not name, whatever    *)
(* was written since it read the row (tenant_settings.py).                 *)
THEOREM OthersAlwaysKept == Spec => OthersKept
  <1>1. RegistryInv => Turned
    BY DEF RegistryInv, CacheInv
  <1>2. Spec => [](RegistryInv /\ SettingsInv)
    BY <1>1, RegistryInit, RegistryStep, SettingsInit, SettingsStep, PTL DEF Spec
  <1>3. RegistryInv /\ SettingsInv /\ [Next]_vars => [OthersStep]_vars
    BY <1>1, SettingsStep
  <1>4. Spec => [][OthersStep]_vars
    BY <1>2, <1>3, PTL DEF Spec
  <1> QED BY <1>4 DEF OthersKept, OthersStep

-----------------------------------------------------------------------------
(* The rate limiter.                                                       *)

(* The turns of log A up to the i-th that lie in the window w that ends    *)
(* with it.                                                                *)
Window(A, i, w) == {j \in 1..i : A[j].at + w >= A[i].at}

HeldAt(A, i) ==
    /\ Cardinality(Window(A, i, Minute)) <= A[i].minute
    /\ Cardinality(Window(A, i, Hour)) <= A[i].hour

IsLog(A) == Len(A) \in Nat /\ A = [i \in 1..Len(A) |-> A[i]]

(* The log of what was let through is in order of time.                    *)
Timed(A, n) ==
    /\ \A i \in 1..Len(A) : A[i].at \in Nat /\ A[i].at <= n
    /\ \A i, j \in 1..Len(A) : i <= j => A[i].at <= A[j].at

(* The points E are those of the end of the log; the others are stale.     *)
Remembered(A, E, n) ==
    /\ E \in Seq(Nat) /\ Len(E) <= Len(A)
    /\ \A i \in 1..Len(E) : E[i] = A[Len(A) - Len(E) + i].at
    /\ \A i \in 1..(Len(A) - Len(E)) : A[i].at + Hour < n

Rated(A, E, n) ==
    IsLog(A) /\ Timed(A, n) /\ Remembered(A, E, n) /\ \A i \in 1..Len(A) : HeldAt(A, i)

RateInv ==
    /\ now \in Nat
    /\ accepted = [t \in Tenants |-> accepted[t]] /\ events = [t \in Tenants |-> events[t]]
    /\ \A t \in Tenants : Rated(accepted[t], events[t], now)

(* Points that are stale may be forgotten.                                 *)
LEMMA PrunedLog ==
  ASSUME NEW A, NEW E, NEW n \in Nat, IsLog(A), Remembered(A, E, n), NEW k \in 0..Len(E),
         \A i \in 1..k : E[i] + Hour < n
  PROVE  /\ Remembered(A, SubSeq(E, k + 1, Len(E)), n)
         /\ Len(SubSeq(E, k + 1, Len(E))) = Len(E) - k
  <1>1. PICK a, e : a = Len(A) /\ e = Len(E)
    OBVIOUS
  <1>2. a \in Nat /\ e \in Nat /\ E \in Seq(Nat) /\ e <= a /\ k \in Nat /\ k <= e
    BY <1>1, LenProperties DEF IsLog, Remembered
  <1>3. PICK q : q = SubSeq(E, k + 1, e)
    OBVIOUS
  <1>4. q \in Seq(Nat) /\ Len(q) = e - k
    BY <1>1, <1>2, <1>3
  <1>5. \A i \in 1..(e - k) : q[i] = E[k + i]
    BY <1>1, <1>2, <1>3
  <1>6. \A i \in 1..e : E[i] = A[a - e + i].at
    BY <1>1 DEF Remembered
  <1>7. \A i \in 1..(a - e) : A[i].at + Hour < n
    BY <1>1 DEF Remembered
  <1>8. ASSUME NEW i \in 1..(e - k) PROVE q[i] = A[a - (e - k) + i].at
    <2>1. k + i \in 1..e /\ a - (e - k) + i = a - e + (k + i)
      BY <1>2
    <2> QED BY <1>5, <1>6, <2>1
  <1>9. ASSUME NEW i \in 1..(a - (e - k)) PROVE A[i].at + Hour < n
    <2>1. CASE i \in 1..(a - e)
      BY <1>7, <2>1
    <2>2. CASE ~(i \in 1..(a - e))
      <3>1. i - (a - e) \in 1..k /\ i - (a - e) \in 1..e /\ a - e + (i - (a - e)) = i
        BY <1>2, <2>2
      <3>2. E[i - (a - e)] = A[i].at
        BY <1>6, <3>1
      <3>3. E[i - (a - e)] + Hour < n
        BY <3>1
      <3> QED BY <3>2, <3>3
    <2> QED BY <2>1, <2>2
  <1>10. e - k <= a
    BY <1>2
  <1> QED BY <1>1, <1>3, <1>4, <1>8, <1>9, <1>10 DEF Remembered

(* Of a log up to k, all of a window but m points at the end are older.    *)
LEMMA WindowSize ==
  ASSUME NEW B, NEW k \in Nat, NEW m \in Nat, m <= k, NEW w,
         \A j \in 1..(k - m) : ~(B[j].at + w >= B[k + 1].at)
  PROVE  Cardinality(Window(B, k + 1, w)) <= m + 1
  <1>1. Window(B, k + 1, w) \subseteq (k - m + 1)..(k + 1)
    <2>1. ASSUME NEW j \in 1..(k + 1), j \notin (k - m + 1)..(k + 1) PROVE j \in 1..(k - m)
      BY <2>1
    <2> QED BY <2>1 DEF Window
  <1>2. /\ IsFiniteSet((k - m + 1)..(k + 1))
        /\ Cardinality((k - m + 1)..(k + 1)) = m + 1
    <2>1. k - m + 1 \in Int /\ k + 1 \in Int /\ ~(k - m + 1 > k + 1)
          /\ (k + 1) - (k - m + 1) + 1 = m + 1
      OBVIOUS
    <2> QED BY <2>1, FS_Interval
  <1> QED BY <1>1, <1>2, FS_Subset

LEMMA UpToNext ==
  ASSUME NEW a \in Nat
  PROVE  \A i \in 1..(a + 1) : i \in 1..a \/ i = a + 1
  OBVIOUS

LEMMA EarlierThan ==
  ASSUME NEW x \in Nat, NEW w \in Nat, NEW n \in Nat, x + w < n
  PROVE  ~(x + w >= n)
  OBVIOUS

LEMMA UpToFinite ==
  ASSUME NEW a \in Nat
  PROVE  IsFiniteSet(1..(a + 1))
  <1>1. 1 \in Int /\ a + 1 \in Int
    OBVIOUS
  <1> QED BY <1>1, FS_Interval

(* A turn is let through now, with e points in the hour and m of them in   *)
(* the minute.                                                             *)
LEMMA AddedLog ==
  ASSUME NEW A, NEW E, now \in Nat, Rated(A, E, now), NEW m \in 0..Len(E), InMinute(E, m),
         NEW r, r = [at |-> now, minute |-> r.minute, hour |-> r.hour],
         m + 1 <= r.minute, Len(E) + 1 <= r.hour, r.minute \in Nat, r.hour \in Nat
  PROVE  Rated(Append(A, r), Append(E, now), now)
  <1>1. PICK a, e : a = Len(A) /\ e = Len(E)
    OBVIOUS
  <1>2. PICK B, F : B = Append(A, r) /\ F = Append(E, now)
    OBVIOUS
  <1>3. /\ IsLog(A) /\ Timed(A, now) /\ Remembered(A, E, now)
        /\ \A i \in 1..Len(A) : HeldAt(A, i)
    BY DEF Rated
  <1>4. a \in Nat /\ e \in Nat /\ E \in Seq(Nat) /\ e <= a /\ m \in Nat /\ m <= e
    BY <1>1, <1>3, LenProperties DEF IsLog, Remembered
  <1>5. /\ Len(B) = a + 1 /\ B = [i \in 1..(a + 1) |-> B[i]]
        /\ \A i \in 1..a : B[i] = A[i]
        /\ B[a + 1] = r
    BY <1>1, <1>2, <1>3, Added DEF IsLog
  <1>6. r.at = now
    OBVIOUS
  <1>7. F \in Seq(Nat) /\ Len(F) = e + 1 /\ F[e + 1] = now /\ \A i \in 1..e : F[i] = E[i]
    BY <1>1, <1>2, <1>4, AppendProperties
  <1>8. \A i \in 1..(a + 1) : i \in 1..a \/ i = a + 1
    BY <1>4, UpToNext
  <1>9. IsLog(B)
    BY <1>4, <1>5 DEF IsLog
  <1>10. \A i \in 1..a : A[i].at \in Nat /\ A[i].at <= now
    BY <1>1, <1>3 DEF Timed
  <1>11. \A i, j \in 1..a : i <= j => A[i].at <= A[j].at
    BY <1>1, <1>3 DEF Timed
  <1>12. Timed(B, now)
    <2>1. \A i \in 1..(a + 1) : B[i].at \in Nat /\ B[i].at <= now
      BY <1>5, <1>6, <1>8, <1>10
    <2>2. ASSUME NEW i \in 1..(a + 1), NEW j \in 1..(a + 1), i <= j PROVE B[i].at <= B[j].at
      <3>1. CASE j = a + 1
        BY <1>5, <1>6, <2>1, <3>1
      <3>2. CASE j \in 1..a
        <4>1. i \in 1..a
          BY <1>4, <2>2, <3>2
        <4> QED BY <1>5, <1>11, <2>2, <3>2, <4>1
      <3> QED BY <1>8, <3>1, <3>2
    <2> QED BY <1>5, <2>1, <2>2 DEF Timed
  <1>13. \A i \in 1..e : E[i] = A[a - e + i].at
    BY <1>1, <1>3 DEF Remembered
  <1>14. \A i \in 1..(a - e) : A[i].at + Hour < now
    BY <1>1, <1>3 DEF Remembered
  <1>15. Remembered(B, F, now)
    <2>1. (a + 1) - (e + 1) = a - e /\ e + 1 <= a + 1
      BY <1>4
    <2>2. ASSUME NEW i \in 1..(e + 1) PROVE F[i] = B[a - e + i].at
      <3>1. CASE i = e + 1
        <4>1. a - e + i = a + 1
          BY <1>4, <3>1
        <4> QED BY <1>5, <1>6, <1>7, <3>1, <4>1
      <3>2. CASE i # e + 1
        <4>1. i \in 1..e
          BY <1>4, <3>2, UpToNext
        <4>2. a - e + i \in 1..a
          BY <1>4, <4>1
        <4> QED BY <1>5, <1>7, <1>13, <4>1, <4>2
      <3> QED BY <3>1, <3>2
    <2>3. ASSUME NEW i \in 1..(a - e) PROVE B[i].at + Hour < now
      <3>1. i \in 1..a
        BY <1>4
      <3> QED BY <1>5, <1>14, <3>1
    <2> QED BY <1>5, <1>7, <2>1, <2>2, <2>3 DEF Remembered
  <1>16. ASSUME NEW i \in 1..a PROVE HeldAt(B, i)
    <2>1. \A j \in 1..i : j \in 1..a
      BY <1>4
    <2>2. \A w : Window(B, i, w) = Window(A, i, w)
      BY <1>5, <2>1 DEF Window
    <2>3. HeldAt(A, i)
      BY <1>1, <1>3
    <2> QED BY <1>5, <2>2, <2>3 DEF HeldAt
  <1>17. HeldAt(B, a + 1)
    <2>1. Minute \in Nat /\ Hour \in Nat
      BY TenantAssumption
    <2>2. Cardinality(Window(B, a + 1, Hour)) <= e + 1
      <3>1. ASSUME NEW j \in 1..(a - e) PROVE ~(B[j].at + Hour >= B[a + 1].at)
        <4>1. j \in 1..a
          BY <1>4
        <4>2. B[j].at \in Nat /\ B[j].at + Hour < now
          BY <1>5, <1>10, <1>14, <4>1
        <4> QED BY <1>5, <1>6, <2>1, <4>2
      <3> QED BY <1>4, <3>1, WindowSize
    <2>3. Cardinality(Window(B, a + 1, Minute)) <= m + 1
      <3>1. ASSUME NEW j \in 1..(a - m) PROVE ~(B[j].at + Minute >= B[a + 1].at)
        <4>1. j \in 1..a /\ a - m \in 1..a /\ j <= a - m
          BY <1>4
        <4>2. A[a - m].at + Minute < now
          <5>1. CASE m < e
            <6>1. e - m \in 1..e /\ a - e + (e - m) = a - m
              BY <1>4, <5>1
            <6>2. E[e - m] + Minute < now
              BY <1>1, <5>1 DEF InMinute
            <6> QED BY <1>13, <6>1, <6>2
          <5>2. CASE ~(m < e)
            <6>1. a - m \in 1..(a - e)
              BY <1>4, <4>1, <5>2
            <6>2. A[a - m].at \in Nat /\ A[a - m].at + Hour < now
              BY <1>10, <1>14, <4>1, <6>1
            <6>3. Minute <= Hour
              BY TenantAssumption
            <6> QED BY <2>1, <6>2, <6>3
          <5> QED BY <5>1, <5>2
        <4>3. A[j].at \in Nat /\ A[a - m].at \in Nat /\ A[j].at <= A[a - m].at
          BY <1>10, <1>11, <4>1
        <4>4. A[j].at + Minute < now
          BY <2>1, <4>2, <4>3
        <4>5. B[j] = A[j] /\ B[a + 1].at = now
          BY <1>5, <1>6, <4>1
        <4>6. ~(A[j].at + Minute >= now)
          BY <2>1, <4>3, <4>4, EarlierThan
        <4> QED BY <4>5, <4>6
      <3>2. m <= a
        BY <1>4
      <3> QED BY <1>4, <3>1, <3>2, WindowSize
    <2>4. /\ Cardinality(Window(B, a + 1, Minute)) \in Nat
          /\ Cardinality(Window(B, a + 1, Hour)) \in Nat
      <3>1. IsFiniteSet(1..(a + 1))
        BY <1>4, UpToFinite
      <3>2. \A w : Window(B, a + 1, w) \subseteq 1..(a + 1)
        BY DEF Window
      <3> QED BY <3>1, <3>2, FS_Subset, FS_CardinalityType
    <2>5. /\ Cardinality(Window(B, a + 1, Minute)) <= r.minute
          /\ Cardinality(Window(B, a + 1, Hour)) <= r.hour
      BY <1>1, <1>4, <2>2, <2>3, <2>4
    <2> QED BY <1>5, <2>5 DEF HeldAt
  <1>18. \A i \in 1..(a + 1) : HeldAt(B, i)
    BY <1>8, <1>16, <1>17
  <1> QED BY <1>2, <1>5, <1>9, <1>12, <1>15, <1>18 DEF Rated

(* Time only makes points staler.                                          *)
LEMMA LaterLog ==
  ASSUME NEW A, NEW E, NEW n \in Nat, Rated(A, E, n)
  PROVE  Rated(A, E, n + 1)
  <1>1. Timed(A, n + 1)
    BY DEF Rated, Timed
  <1>2. \A i \in 1..(Len(A) - Len(E)) : A[i].at \in Nat /\ A[i].at + Hour < n
    <2>1. Len(A) \in Nat /\ Len(E) \in Nat
      BY LenProperties DEF Rated, IsLog, Remembered
    <2>2. \A i \in 1..(Len(A) - Len(E)) : i \in 1..Len(A)
      BY <2>1
    <2> QED BY <2>2 DEF Rated, Timed, Remembered
  <1>3. \A i \in 1..(Len(A) - Len(E)) : A[i].at + Hour < n + 1
    <2>1. Hour \in Nat
      BY TenantAssumption
    <2> QED BY <1>2, <2>1
  <1>4. Remembered(A, E, n + 1)
    BY <1>3 DEF Rated, Remembered
  <1> QED BY <1>1, <1>4 DEF Rated

LEMMA RateInit == Init => RateInv
  <1> SUFFICES ASSUME Init PROVE RateInv
    OBVIOUS
  <1>1. /\ now = Hour /\ accepted = [t \in Tenants |-> <<>>]
        /\ events = [t \in Tenants |-> <<>>]
    BY DEF Init
  <1>2. now \in Nat
    BY <1>1, TenantAssumption
  <1>3. Rated(<<>>, <<>>, now)
    <2>1. PICK e : e = <<>>
      OBVIOUS
    <2>2. Len(e) = 0 /\ e = [i \in 1..0 |-> e[i]] /\ e \in Seq(Nat)
      BY <2>1
    <2>3. IsLog(e) /\ Timed(e, now) /\ Remembered(e, e, now)
      BY <2>2 DEF IsLog, Timed, Remembered
    <2> QED BY <2>1, <2>2, <2>3 DEF Rated
  <1>4. \A t \in Tenants : Rated(accepted[t], events[t], now)
    BY <1>1, <1>3
  <1> QED BY <1>1, <1>2, <1>4 DEF RateInv

LEMMA CheckStep ==
  ASSUME Turned, SettingsInv, RateInv, NEW u \in Turns, Check(u)
  PROVE  RateInv'
  <1>1. PICK t, s : t = turn[u].tenant /\ s = turn[u].settings
    OBVIOUS
  <1>2. t \in Tenants /\ s \in SettingsRecord
    BY <1>1 DEF Turned, IsTurn, SettingsInv, SettingsTyped
  <1>3. PICK A, E : A = accepted[t] /\ E = events[t]
    OBVIOUS
  <1>4. now \in Nat /\ Rated(A, E, now)
    BY <1>2, <1>3 DEF RateInv
  <1>5. now' = now
    BY DEF Check
  <1>6. PICK n \in 0..Len(E) :
          /\ Stale(E, n)
          /\ \E m \in 0..Len(SubSeq(E, n + 1, Len(E))) :
                /\ InMinute(SubSeq(E, n + 1, Len(E)), m)
                /\ Judge(u, SubSeq(E, n + 1, Len(E)), m)
    BY <1>1, <1>3 DEF Check
  <1>7. PICK q : q = SubSeq(E, n + 1, Len(E))
    OBVIOUS
  <1>8. PICK m \in 0..Len(q) : InMinute(q, m) /\ Judge(u, q, m)
    BY <1>6, <1>7
  <1>9. Rated(A, q, now)
    <2>1. \A i \in 1..n : E[i] + Hour < now
      BY <1>6 DEF Stale
    <2>2. IsLog(A) /\ Remembered(A, E, now)
      BY <1>4 DEF Rated
    <2>3. Remembered(A, q, now)
      BY <1>4, <1>7, <2>1, <2>2, PrunedLog
    <2> QED BY <1>4, <2>3 DEF Rated
  <1>10. /\ accepted = [x \in Tenants |-> accepted[x]] /\ events = [x \in Tenants |-> events[x]]
         /\ \A x \in Tenants : Rated(accepted[x], events[x], now)
    BY DEF RateInv
  <1>11. ASSUME NEW B, NEW F, Rated(B, F, now), accepted' = [accepted EXCEPT ![t] = B],
                events' = [events EXCEPT ![t] = F]
         PROVE  RateInv'
    <2>1. /\ accepted'[t] = B /\ events'[t] = F
          /\ \A x \in Tenants : x # t => accepted'[x] = accepted[x] /\ events'[x] = events[x]
      BY <1>2, <1>10, <1>11
    <2>2. /\ accepted' = [x \in Tenants |-> accepted'[x]]
          /\ events' = [x \in Tenants |-> events'[x]]
      BY <1>10, <1>11
    <2>3. \A x \in Tenants : Rated(accepted'[x], events'[x], now)
      BY <1>10, <1>11, <2>1
    <2> QED BY <1>4, <1>5, <2>2, <2>3 DEF RateInv
  <1>12. CASE OverQuota(q, m, s)
    <2>1. events' = [events EXCEPT ![t] = q] /\ accepted' = accepted
      BY <1>1, <1>8, <1>12 DEF Judge
    <2>2. accepted' = [accepted EXCEPT ![t] = A]
      BY <1>2, <1>3, <1>10, <2>1
    <2> QED BY <1>9, <1>11, <2>1, <2>2
  <1>13. CASE ~OverQuota(q, m, s)
    <2>1. PICK r : r = [at |-> now, minute |-> s.minute, hour |-> s.hour]
      OBVIOUS
    <2>2. /\ events' = [events EXCEPT ![t] = Append(q, now)]
          /\ accepted' = [accepted EXCEPT ![t] = Append(accepted[t], r)]
      BY <1>1, <1>8, <1>10, <1>13, <2>1 DEF Judge
    <2>3. r.minute = s.minute /\ r.hour = s.hour /\ r = [at |-> now, minute |-> r.minute, hour |-> r.hour]
      BY <2>1
    <2>4. s.minute \in Nat /\ s.hour \in Nat
      BY <1>2 DEF SettingsRecord
    <2>5. q \in Seq(Nat)
      BY <1>9 DEF Rated, Remembered
    <2>6. Len(q) \in Nat /\ m \in Nat
      BY <2>5, LenProperties
    <2>7. m + 1 <= r.minute /\ Len(q) + 1 <= r.hour
      BY <1>13, <2>3, <2>4, <2>6 DEF OverQuota
    <2>8. Rated(Append(A, r), Append(q, now), now)
      BY <1>4, <1>8, <1>9, <2>3, <2>4, <2>7, AddedLog
    <2> QED BY <1>3, <1>11, <2>2, <2>8
  <1> QED BY <1>12, <1>13

LEMMA RateStep == Turned /\ SettingsInv /\ RateInv /\ [Next]_vars => RateInv'
  <1> SUFFICES ASSUME Turned, SettingsInv, RateInv, [Next]_vars PROVE RateInv'
    OBVIOUS
  <1>1. ASSUME NEW u \in Turns, Check(u) PROVE RateInv'
    BY <1>1, CheckStep
  <1>2. CASE Tick
    <2>1. now' = now + 1 /\ accepted' = accepted /\ events' = events
      BY <1>2 DEF Tick, meterVars
    <2>2. now \in Nat /\ now + 1 \in Nat
      BY DEF RateInv
    <2>3. \A t \in Tenants : Rated(accepted[t], events[t], now + 1)
      BY <2>2, LaterLog DEF RateInv
    <2> QED BY <2>1, <2>2, <2>3 DEF RateInv
  <1>3. CASE now' = now /\ accepted' = accepted /\ events' = events
    BY <1>3 DEF RateInv
  <1>4. CASE \E a \in Admins : \/ \E t \in Tenants, patch \in Patches : AdminLoad(a, t, patch)
                              \/ AdminInsert(a) \/ AdminWrite(a)
    <2>1. now' = now /\ accepted' = accepted /\ events' = events
      BY <1>4 DEF AdminLoad, AdminInsert, AdminWrite, meterVars
    <2> QED BY <1>3, <2>1
  <1>5. ASSUME NEW u \in Turns,
               \/ \E t \in Tenants : Begin(u, t)
               \/ Load(u) \/ LoadFails(u) \/ Store(u) \/ Enforce(u)
               \/ GetHit(u) \/ GetMiss(u) \/ Build(u) \/ Evict(u) \/ Cancel(u)
               \/ \E p \in Providers, broken \in BOOLEAN : Resolve(u, p, broken)
               \/ Used(u) \/ \E tokens \in 0 .. TurnTokens : Respond(u, tokens)
               \/ Record(u) \/ CostsFail(u)
        PROVE  RateInv'
    <2>1. now' = now /\ accepted' = accepted /\ events' = events
      BY <1>5 DEF Begin, Load, LoadFails, Store, Enforce, GetHit, GetMiss, Build, Evict,
                  Cancel, Resolve, Used, Respond, Record, CostsFail, meterVars
    <2> QED BY <1>3, <2>1
  <1>6. CASE StoreCredentials \/ CloseAll \/ (\E i \in DOMAIN reg : CloseOne(i))
               \/ UNCHANGED vars
    <2>1. now' = now /\ accepted' = accepted /\ events' = events
      BY <1>6 DEF StoreCredentials, CloseAll, CloseOne, vars, meterVars
    <2> QED BY <1>3, <2>1
  <1> QED BY <1>1, <1>2, <1>4, <1>5, <1>6 DEF Next

(* Of the turns the limiter let through for a tenant, those in the window  *)
(* that ends with any one of them are within the limit that one was        *)
(* checked against, whatever the settings became since, and however its    *)
(* deque was pruned (rate_limiter.py InMemoryRateLimiter.check).           *)
THEOREM RateAlwaysHeld == Spec => []RateHeld
  <1>1. RegistryInv => Turned
    BY DEF RegistryInv, CacheInv
  <1>2. Spec => []RateInv
    BY <1>1, RegistryInit, RegistryStep, SettingsInit, SettingsStep, RateInit, RateStep, PTL
      DEF Spec
  <1>3. RateInv => RateHeld
    <2> SUFFICES ASSUME RateInv, NEW t \in Tenants, NEW i \in DOMAIN accepted[t]
                 PROVE  /\ Cardinality({j \in 1..i : accepted[t][j].at + Minute >= accepted[t][i].at})
                             <= accepted[t][i].minute
                        /\ Cardinality({j \in 1..i : accepted[t][j].at + Hour >= accepted[t][i].at})
                             <= accepted[t][i].hour
      BY DEF RateHeld
    <2>1. PICK A : A = accepted[t]
      OBVIOUS
    <2>2. IsLog(A) /\ \A k \in 1..Len(A) : HeldAt(A, k)
      BY <2>1 DEF RateInv, Rated
    <2>3. i \in 1..Len(A)
      BY <2>1, <2>2 DEF IsLog
    <2>4. HeldAt(A, i)
      BY <2>2, <2>3
    <2> QED BY <2>1, <2>4 DEF HeldAt, Window
  <1> QED BY <1>2, <1>3, PTL

-----------------------------------------------------------------------------
(* The sum of the tokens of a set of rows.                                 *)

LEMMA Least == ASSUME NEW T, T \subseteq Nat, T # {} PROVE \E x \in T : \A y \in T : x <= y
  <1> DEFINE R == OpToRel(<, Nat)
  <1>1. \E x \in T : \A y \in T : ~ (<<y, x>> \in R)
    <2> HIDE DEF R
    <2>1. IsWellFoundedOn(R, Nat)
      BY NatLessThanWellFounded DEF R
    <2> QED BY <2>1, WFMin
  <1>2. \A x, y \in Nat : y < x => <<y, x>> \in R
    BY DEF OpToRel
  <1> HIDE DEF R
  <1>3. PICK x \in T : \A y \in T : ~ (<<y, x>> \in R)
    BY <1>1
  <1>4. \A y \in T : ~ (y < x)
    BY <1>2, <1>3
  <1> QED BY <1>3, <1>4

Chosen(s) == CHOOSE x \in s : TRUE

(* Function h adds up the tokens of each of the sets in D.                 *)
AddsUp(h, D) ==
    h = [s \in D |-> IF s = {} THEN 0 ELSE Chosen(s).tokens + h[s \ {Chosen(s)}]]

(* The subsets of S with n elements at most.                               *)
UpTo(S, n) == {s \in SUBSET S : Cardinality(s) <= n}

LEMMA SumIs == ASSUME NEW S PROVE SumTokens(S) = (CHOOSE h : AddsUp(h, SUBSET S))[S]
  BY DEF SumTokens, FoldSet, MapThenFoldSet, AddsUp, Chosen

LEMMA ChosenOne == ASSUME NEW s, s # {} PROVE Chosen(s) \in s
  BY DEF Chosen

LEMMA Smaller ==
  ASSUME NEW s, IsFiniteSet(s), NEW x \in s
  PROVE  /\ IsFiniteSet(s \ {x}) /\ Cardinality(s) \in Nat /\ Cardinality(s \ {x}) \in Nat
         /\ Cardinality(s \ {x}) = Cardinality(s) - 1
  BY FS_RemoveElement, FS_CardinalityType

(* There is such a function for all subsets of a finite set.               *)
LEMMA SumExists ==
  ASSUME NEW S, IsFiniteSet(S)
  PROVE  \E h : AddsUp(h, SUBSET S)
  <1>1. \A s \in SUBSET S : IsFiniteSet(s) /\ Cardinality(s) \in Nat /\ Cardinality(s) <= Cardinality(S)
    BY FS_Subset, FS_CardinalityType
  <1> DEFINE Bad == {n \in Nat : ~ \E h : AddsUp(h, UpTo(S, n))}
  <1>2. Bad = {}
    <2>1. SUFFICES ASSUME Bad # {} PROVE FALSE
      OBVIOUS
    <2>2. Bad \subseteq Nat
      OBVIOUS
    <2>3. PICK n \in Bad : \A m \in Bad : n <= m
      <3> HIDE DEF Bad
      <3> QED BY <2>1, <2>2, Least
    <2>4. n \in Nat
      BY <2>3
    <2>5. CASE n = 0
      <3>1. PICK h : h = [s \in UpTo(S, 0) |-> 0]
        OBVIOUS
      <3>2. \A s \in UpTo(S, 0) : s = {}
        BY <1>1, FS_EmptySet DEF UpTo
      <3>3. AddsUp(h, UpTo(S, 0))
        BY <3>1, <3>2 DEF AddsUp
      <3> QED BY <2>3, <2>5, <3>3
    <2>6. CASE n # 0
      <3>1. n - 1 \in Nat /\ ~(n <= n - 1)
        BY <2>4, <2>6
      <3>2. PICK h : AddsUp(h, UpTo(S, n - 1))
        BY <2>3, <3>1
      <3>3. PICK g : g = [s \in UpTo(S, n) |->
                            IF s = {} THEN 0 ELSE Chosen(s).tokens + h[s \ {Chosen(s)}]]
        OBVIOUS
      <3>4. ASSUME NEW s \in UpTo(S, n), s # {}
            PROVE  /\ s \ {Chosen(s)} \in UpTo(S, n - 1) /\ s \ {Chosen(s)} \in UpTo(S, n)
        <4>1. s \in SUBSET S /\ Cardinality(s) <= n
          BY DEF UpTo
        <4>2. Chosen(s) \in s
          BY <3>4, ChosenOne
        <4>3. /\ Cardinality(s) \in Nat /\ Cardinality(s \ {Chosen(s)}) = Cardinality(s) - 1
          BY <1>1, <4>1, <4>2, Smaller
        <4>4. Cardinality(s \ {Chosen(s)}) <= n - 1 /\ Cardinality(s \ {Chosen(s)}) <= n
          BY <2>4, <4>1, <4>3
        <4> QED BY <4>1, <4>4 DEF UpTo
      <3>5. \A s \in UpTo(S, n - 1) : h[s] = g[s]
        <4>1. ASSUME NEW s \in UpTo(S, n - 1) PROVE h[s] = g[s]
          <5>1. s \in UpTo(S, n)
            BY <1>1, <2>4 DEF UpTo
          <5>2. h[s] = IF s = {} THEN 0 ELSE Chosen(s).tokens + h[s \ {Chosen(s)}]
            BY <3>2, <4>1 DEF AddsUp
          <5> QED BY <3>3, <5>1, <5>2
        <4> QED BY <4>1
      <3>6. AddsUp(g, UpTo(S, n))
        <4>1. ASSUME NEW s \in UpTo(S, n), s # {} PROVE h[s \ {Chosen(s)}] = g[s \ {Chosen(s)}]
          BY <3>4, <3>5, <4>1
        <4>2. g = [s \in UpTo(S, n) |->
                      IF s = {} THEN 0 ELSE Chosen(s).tokens + g[s \ {Chosen(s)}]]
          BY <3>3, <4>1
        <4> QED BY <4>2 DEF AddsUp
      <3> QED BY <2>3, <3>6
    <2> QED BY <2>5, <2>6
  <1>3. Cardinality(S) \in Nat
    BY FS_CardinalityType
  <1>4. PICK h : AddsUp(h, UpTo(S, Cardinality(S)))
    BY <1>2, <1>3
  <1>5. UpTo(S, Cardinality(S)) = SUBSET S
    BY <1>1 DEF UpTo
  <1> QED BY <1>4, <1>5

Tokened(S) == \A x \in S : x.tokens \in Nat

(* It does not matter which element is added first.                        *)
LEMMA SumAny ==
  ASSUME NEW S, IsFiniteSet(S), Tokened(S), NEW h, AddsUp(h, SUBSET S)
  PROVE  /\ h[{}] = 0
         /\ \A s \in SUBSET S : h[s] \in Nat
         /\ \A s \in SUBSET S : \A y \in s : h[s] = y.tokens + h[s \ {y}]
  <1>1. \A s \in SUBSET S : IsFiniteSet(s) /\ Cardinality(s) \in Nat
    BY FS_Subset, FS_CardinalityType
  <1>2. h[{}] = 0
    BY DEF AddsUp
  <1>3. \A s \in SUBSET S : s # {} => h[s] = Chosen(s).tokens + h[s \ {Chosen(s)}]
    BY DEF AddsUp
  <1> DEFINE Good(s) == h[s] \in Nat /\ \A y \in s : h[s] = y.tokens + h[s \ {y}]
             Bad == {Cardinality(s) : s \in {x \in SUBSET S : ~Good(x)}}
  <1>4. Bad = {}
    <2>1. SUFFICES ASSUME Bad # {} PROVE FALSE
      OBVIOUS
    <2>2. Bad \subseteq Nat
      BY <1>1
    <2>3. PICK n \in Bad : \A m \in Bad : n <= m
      <3> HIDE DEF Bad
      <3> QED BY <2>1, <2>2, Least
    <2>4. PICK s \in SUBSET S : ~Good(s) /\ n = Cardinality(s)
      BY <2>3
    <2>5. s # {}
      BY <1>2, <2>4
    <2>6. PICK x : x = Chosen(s)
      OBVIOUS
    <2>7. x \in s /\ h[s] = x.tokens + h[s \ {x}]
      BY <1>3, <2>5, <2>6, ChosenOne
    <2>8. ASSUME NEW y \in s PROVE Good(s \ {y}) /\ h[s \ {y}] \in Nat
      <3>1. Cardinality(s \ {y}) = n - 1 /\ n \in Nat /\ n - 1 \in Nat
        BY <1>1, <2>4, Smaller
      <3>2. s \ {y} \in SUBSET S
        OBVIOUS
      <3>3. ~(n <= Cardinality(s \ {y}))
        BY <3>1
      <3>4. Cardinality(s \ {y}) \notin Bad
        BY <2>3, <3>3
      <3> QED BY <3>2, <3>4
    <2>9. h[s] \in Nat
      <3>1. x.tokens \in Nat
        BY <2>7 DEF Tokened
      <3>2. h[s \ {x}] \in Nat
        BY <2>7, <2>8
      <3> QED BY <2>7, <3>1, <3>2
    <2>10. ASSUME NEW y \in s PROVE h[s] = y.tokens + h[s \ {y}]
      <3>1. CASE y = x
        BY <2>7, <3>1
      <3>2. CASE y # x
        <4>1. y \in s \ {x} /\ x \in s \ {y}
          BY <2>7, <3>2
        <4>2. PICK r : r = (s \ {x}) \ {y}
          OBVIOUS
        <4>3. r = (s \ {y}) \ {x}
          BY <4>2
        <4>4. h[s \ {x}] = y.tokens + h[r]
          BY <2>7, <2>8, <4>1, <4>2
        <4>5. h[s \ {y}] = x.tokens + h[r]
          BY <2>8, <4>1, <4>3
        <4>6. h[r] \in Nat
          <5>1. r \in SUBSET S /\ Cardinality(r) = n - 2 /\ n - 2 \in Nat /\ n \in Nat
            <6>1. Cardinality(s \ {x}) = n - 1 /\ n \in Nat /\ IsFiniteSet(s \ {x})
              BY <1>1, <2>4, <2>7, Smaller
            <6>2. Cardinality(r) = (n - 1) - 1 /\ Cardinality(r) \in Nat
              BY <4>1, <4>2, <6>1, Smaller
            <6> QED BY <4>2, <6>1, <6>2
          <5>2. ~(n <= Cardinality(r))
            BY <5>1
          <5>3. Cardinality(r) \notin Bad
            BY <2>3, <5>2
          <5> QED BY <5>1, <5>3
        <4>7. x.tokens \in Nat /\ y.tokens \in Nat
          BY <2>7 DEF Tokened
        <4> QED BY <2>7, <4>4, <4>5, <4>6, <4>7
      <3> QED BY <3>1, <3>2
    <2> QED BY <2>4, <2>9, <2>10
  <1>5. \A s \in SUBSET S : Good(s)
    BY <1>4
  <1> QED BY <1>2, <1>5

(* Nor of which set the summed one is a part.                              *)
LEMMA SumSame ==
  ASSUME NEW S, IsFiniteSet(S), NEW R, R \subseteq S,
         NEW h, AddsUp(h, SUBSET S), NEW g, AddsUp(g, SUBSET R)
  PROVE  h[R] = g[R]
  <1>1. \A s \in SUBSET R : s \in SUBSET S /\ IsFiniteSet(s) /\ Cardinality(s) \in Nat
    BY FS_Subset, FS_CardinalityType
  <1> DEFINE Bad == {Cardinality(s) : s \in {x \in SUBSET R : h[x] # g[x]}}
  <1>2. Bad = {}
    <2>1. SUFFICES ASSUME Bad # {} PROVE FALSE
      OBVIOUS
    <2>2. Bad \subseteq Nat
      BY <1>1
    <2>3. PICK n \in Bad : \A m \in Bad : n <= m
      <3> HIDE DEF Bad
      <3> QED BY <2>1, <2>2, Least
    <2>4. PICK s \in SUBSET R : h[s] # g[s] /\ n = Cardinality(s)
      BY <2>3
    <2>5. /\ h[s] = IF s = {} THEN 0 ELSE Chosen(s).tokens + h[s \ {Chosen(s)}]
          /\ g[s] = IF s = {} THEN 0 ELSE Chosen(s).tokens + g[s \ {Chosen(s)}]
      <3>1. s \in SUBSET S
        BY <1>1
      <3>2. h[s] = IF s = {} THEN 0 ELSE Chosen(s).tokens + h[s \ {Chosen(s)}]
        BY <3>1 DEF AddsUp
      <3>3. g[s] = IF s = {} THEN 0 ELSE Chosen(s).tokens + g[s \ {Chosen(s)}]
        BY DEF AddsUp
      <3> QED BY <3>2, <3>3
    <2>6. s # {}
      BY <2>4, <2>5
    <2>7. PICK r : r = s \ {Chosen(s)}
      OBVIOUS
    <2>8. Cardinality(r) = n - 1 /\ n \in Nat /\ r \in SUBSET R
      BY <1>1, <2>4, <2>6, <2>7, ChosenOne, Smaller
    <2>9. ~(n <= Cardinality(r))
      BY <2>8
    <2>10. Cardinality(r) \notin Bad
      BY <2>3, <2>9
    <2>11. h[r] = g[r]
      BY <2>8, <2>10
    <2> QED BY <2>4, <2>5, <2>6, <2>7, <2>11
  <1> QED BY <1>2

(* The sum of a set with an element more.                                  *)
LEMMA SumAdded ==
  ASSUME NEW S, IsFiniteSet(S), Tokened(S), NEW y, y.tokens \in Nat
  PROVE  /\ SumTokens(S) \in Nat /\ SumTokens(S \cup {y}) \in Nat
         /\ SumTokens(S \cup {y}) <= SumTokens(S) + y.tokens
  <1>1. PICK T : T = S \cup {y}
    OBVIOUS
  <1>2. IsFiniteSet(T) /\ Tokened(T)
    BY <1>1, FS_AddElement DEF Tokened
  <1>3. PICK g : g = CHOOSE f : AddsUp(f, SUBSET S)
    OBVIOUS
  <1>4. PICK h : h = CHOOSE f : AddsUp(f, SUBSET T)
    OBVIOUS
  <1>5. AddsUp(g, SUBSET S)
    BY <1>3, SumExists
  <1>6. AddsUp(h, SUBSET T)
    BY <1>2, <1>4, SumExists
  <1>7. SumTokens(S) = g[S] /\ SumTokens(T) = h[T]
    BY <1>3, <1>4, SumIs
  <1>8. g[S] \in Nat
    BY <1>5, SumAny
  <1>9. h[T] \in Nat /\ \A x \in T : h[T] = x.tokens + h[T \ {x}]
    BY <1>2, <1>6, SumAny
  <1>10. h[S] = g[S]
    BY <1>1, <1>2, <1>5, <1>6, SumSame
  <1>11. CASE y \in S
    <2>1. T = S
      BY <1>1, <1>11
    <2>2. SumTokens(S \cup {y}) = g[S]
      BY <1>1, <1>7, <2>1
    <2>3. g[S] <= g[S] + y.tokens
      BY <1>8
    <2> QED BY <1>7, <1>8, <2>2, <2>3
  <1>12. CASE y \notin S
    <2>1. T \ {y} = S /\ y \in T
      BY <1>1, <1>12
    <2>2. h[T] = y.tokens + g[S]
      BY <1>9, <1>10, <2>1
    <2> QED BY <1>1, <1>7, <1>8, <1>9, <2>2
  <1> QED BY <1>11, <1>12

LEMMA SumEmpty == SumTokens({}) = 0
  <1>1. IsFiniteSet({}) /\ Tokened({})
    BY FS_EmptySet DEF Tokened
  <1>2. PICK h : h = CHOOSE f : AddsUp(f, SUBSET {})
    OBVIOUS
  <1>3. AddsUp(h, SUBSET {})
    BY <1>1, <1>2, SumExists
  <1> QED BY <1>1, <1>2, <1>3, SumIs, SumAny

LEMMA SumType == ASSUME NEW S, IsFiniteSet(S), Tokened(S) PROVE SumTokens(S) \in Nat
  <1>1. PICK h : h = CHOOSE f : AddsUp(f, SUBSET S)
    OBVIOUS
  <1>2. AddsUp(h, SUBSET S)
    BY <1>1, SumExists
  <1> QED BY <1>1, <1>2, SumIs, SumAny

(* Days do not go back.                                                    *)
LEMMA DayOrder ==
  ASSUME NEW D \in Nat \ {0}, NEW a \in Nat, NEW b \in Nat, a <= b
  PROVE  a \div D \in Nat /\ b \div D \in Nat /\ a \div D <= b \div D
  OBVIOUS

-----------------------------------------------------------------------------
(* The budget.                                                             *)

Stages == {"idle", "load", "store", "rate", "budget", "model", "cache",
           "evict", "use", "record"} \cup Providers

(* From the gate of the budget to the record of what was used.             *)
Spenders == {"model", "amadeus", "tbo", "cache", "evict", "use", "record"}

Budgets == TokenBudgets \cup {NoBudget}

AtMostOne(S) == \A x, y \in S : x = y

TurnTyped(r) ==
    /\ r.at \in Stages /\ r.reg \in 0..MaxBuilt /\ r.degraded \subseteq Providers
    /\ \A p \in Providers : AtMostOne(r.drivers[p])
    /\ r.settings.tokens \in Budgets
    /\ r.at \in {"store", "rate"} => r.settings # NoRow

TurnsTyped == \A u \in Turns : TurnTyped(turn[u])

AdminsTyped ==
    \A a \in Admins : /\ admin[a].at \in {"idle", "insert", "write"}
                      /\ admin[a].patch \in Patches /\ admin[a].loaded \in SettingsRecord

(* Whatever is stored or cached of a budget is one that can be set.        *)
Budgeted == \A t \in Tenants : row[t].tokens \in Budgets /\ cached[t].tokens \in Budgets

Counted == usage \in 0..TurnTokens /\ budget \in [Kinds -> Nat] /\ free \subseteq Tenants

Singly == \A t \in Tenants, p \in Providers : AtMostOne(vault[t][p])

(* The turn that builds has room for a registry more.                      *)
Bounded ==
    /\ Len(reg) <= MaxBuilt
    /\ \A u \in Turns : turn[u].at \in Building => Len(reg) < MaxBuilt

CostsOK(C, n) ==
    IsFiniteSet(C) /\ \A c \in C : c.tokens \in Nat /\ c.at \in Nat /\ c.at <= n

Costed == CostsOK(costs, now)

(* The rows of C for a tenant on the day of n, and the turns of f that are *)
(* past its gate.                                                          *)
RowsOf(C, n, t) == {c \in C : c.tenant = t /\ c.at \div Day = n \div Day}
Active(f, t) == {u \in Turns : f[u].tenant = t /\ f[u].at \in Spenders}

(* What a tenant used today, and what its turns under way may still use.   *)
Within(total, k) ==
    \E b \in TokenBudgets : total + k * TurnTokens < b + Cardinality(Turns) * TurnTokens

SpendingOf(C, n, f, t) == Within(SumTokens(RowsOf(C, n, t)), Cardinality(Active(f, t)))

Spending == \A t \in Tenants \ free : SpendingOf(costs, now, turn, t)

MeterInv == /\ TurnsTyped /\ AdminsTyped /\ Budgeted /\ Counted /\ Singly /\ Bounded
            /\ Costed /\ Spending

-----------------------------------------------------------------------------
LEMMA OneAtMost == ASSUME NEW S, AtMostOne(S) PROVE IsFiniteSet(S) /\ Cardinality(S) <= 1
  <1>1. CASE S = {}
    BY <1>1, FS_EmptySet
  <1>2. CASE S # {}
    <2>1. PICK x \in S : TRUE
      BY <1>2
    <2>2. S = {x}
      BY <2>1 DEF AtMostOne
    <2>3. IsFiniteSet({x}) /\ Cardinality({x}) = 1
      BY FS_Singleton
    <2> QED BY <2>2, <2>3
  <1> QED BY <1>1, <1>2

(* A provider has a driver at most.                                        *)
LEMMA OneDriver ==
  ASSUME Singly, NEW t \in Tenants, NEW p \in Providers, NEW broken
  PROVE  AtMostOne(BuildDriver(p, StorageCredentials(t, p, broken)))
  <1>1. AtMostOne(StorageCredentials(t, p, broken))
    <2>1. AtMostOne(EnvCredentials(p))
      BY DEF AtMostOne, EnvCredentials
    <2>2. AtMostOne(ResolveTenantCredentials(t, p))
      BY DEF AtMostOne, ResolveTenantCredentials, Singly
    <2> QED BY <2>1, <2>2 DEF StorageCredentials
  <1>2. PICK S : S = StorageCredentials(t, p, broken)
    OBVIOUS
  <1>3. AtMostOne(BuildDriver(p, S))
    BY <1>1, <1>2 DEF AtMostOne, BuildDriver
  <1> QED BY <1>2, <1>3

LEMMA RowsKnown ==
  /\ NoRow.tokens \in Budgets /\ DefaultRow.tokens \in Budgets /\ Unknown.tokens \in Budgets
  /\ [DefaultRow EXCEPT !.there = FALSE].tokens \in Budgets
  /\ [DefaultRow EXCEPT !.there = FALSE] # NoRow /\ Unknown # NoRow /\ NoRow.there = FALSE
  <1>1. /\ DefaultRates.minute \in Nat \ {0} /\ Fallback.minute \in Nat \ {0}
    BY TenantAssumption
  <1>2. /\ NoRow.minute = 0 /\ Unknown.minute = Fallback.minute
        /\ [DefaultRow EXCEPT !.there = FALSE].minute = DefaultRates.minute
    BY DEF NoRow, DefaultRow, Unknown
  <1>3. /\ NoRow.tokens \in Budgets /\ DefaultRow.tokens \in Budgets /\ Unknown.tokens \in Budgets
        /\ [DefaultRow EXCEPT !.there = FALSE].tokens \in Budgets /\ NoRow.there = FALSE
    BY DEF NoRow, DefaultRow, Unknown, NoBudget, Budgets
  <1> QED BY <1>1, <1>2, <1>3

LEMMA IdleKnown == TurnTyped(IdleTurn) /\ IdleTurn.at \notin Spenders /\ IdleTurn.at \notin Building
  <1>1. /\ IdleTurn.at = "idle" /\ IdleTurn.reg = 0 /\ IdleTurn.degraded = {}
        /\ IdleTurn.drivers = NoDrivers /\ IdleTurn.settings = NoRow
    BY DEF IdleTurn
  <1>2. MaxBuilt \in Nat
    BY TenantAssumption
  <1>3. \A p \in Providers : AtMostOne(NoDrivers[p])
    BY DEF AtMostOne, NoDrivers
  <1> QED BY <1>1, <1>2, <1>3, RowsKnown DEF TurnTyped, Stages, Spenders, Building

(* A turn that goes from row r to row q: it gets no further past the gate, *)
(* and builds only if there is room.                                       *)
Follows(q, r) ==
    /\ IsTurn(q) /\ TurnTyped(q)
    /\ q.at \in Spenders => r.at \in Spenders /\ q.tenant = r.tenant
    /\ q.at \in Building => r.at \in Building \/ Len(reg) < MaxBuilt

Moved(u) == \E q : turn' = [turn EXCEPT ![u] = q] /\ Follows(q, turn[u])

LEMMA EndForm ==
  ASSUME NEW u \in Turns, End(u)
  PROVE  Moved(u)
  <1>1. Follows(IdleTurn, turn[u])
    BY IdleTyped, IdleKnown DEF Follows
  <1> QED BY <1>1 DEF Moved, End

(* A turn keeps its tenant and settings.                                   *)
LEMMA FieldsForm ==
  ASSUME Turned, TurnsTyped, NEW u \in Turns, NEW stage \in Stages, NEW n \in 0..MaxBuilt,
         NEW deg, deg \subseteq Providers, NEW D, D = [p \in Providers |-> D[p]],
         \A p \in Providers : AtMostOne(D[p]),
         NEW q, q = [turn[u] EXCEPT !.at = stage, !.reg = n, !.drivers = D, !.degraded = deg],
         stage # "store", stage = "rate" => turn[u].at = "store",
         stage \in Spenders => turn[u].at \in Spenders,
         stage \in Building => turn[u].at \in Building \/ Len(reg) < MaxBuilt
  PROVE  Follows(q, turn[u])
  <1>1. PICK r : r = turn[u]
    OBVIOUS
  <1>2. IsTurn(r) /\ TurnTyped(r)
    BY <1>1 DEF Turned, TurnsTyped
  <1>3. /\ q.at = stage /\ q.reg = n /\ q.drivers = D /\ q.degraded = deg
        /\ q.tenant = r.tenant /\ q.settings = r.settings
    BY <1>1, <1>2 DEF IsTurn
  <1>4. IsTurn(q)
    BY <1>1, <1>2, <1>3 DEF IsTurn
  <1>5. TurnTyped(q)
    BY <1>1, <1>2, <1>3 DEF TurnTyped
  <1> QED BY <1>1, <1>3, <1>4, <1>5 DEF Follows

LEMMA GotoForm ==
  ASSUME Turned, TurnsTyped, NEW u \in Turns, NEW stage \in Stages, Goto(u, stage),
         stage # "store", stage = "rate" => turn[u].at = "store",
         stage \in Spenders => turn[u].at \in Spenders, stage \notin Building
  PROVE  Moved(u)
  <1>1. PICK r : r = turn[u]
    OBVIOUS
  <1>2. IsTurn(r) /\ TurnTyped(r)
    BY <1>1 DEF Turned, TurnsTyped
  <1>3. PICK q : q = [r EXCEPT !.at = stage, !.reg = r.reg, !.drivers = r.drivers,
                               !.degraded = r.degraded]
    OBVIOUS
  <1>4. q = [r EXCEPT !.at = stage]
    BY <1>2, <1>3 DEF IsTurn
  <1>5. turn' = [turn EXCEPT ![u] = q]
    BY <1>1, <1>4 DEF Goto, Turned
  <1>6. Follows(q, turn[u])
    BY <1>1, <1>2, <1>3, FieldsForm DEF IsTurn, TurnTyped
  <1> QED BY <1>5, <1>6 DEF Moved

(* A turn up to the gate of the budget.                                    *)
LEMMA GateForms ==
  ASSUME Turned, SettingsInv, TurnsTyped, Budgeted, NEW u \in Turns,
         \/ \E t \in Tenants : Begin(u, t)
         \/ Load(u) \/ LoadFails(u) \/ Store(u) \/ Check(u)
  PROVE  Moved(u)
  <1>0. PICK r : r = turn[u]
    OBVIOUS
  <1>1. IsTurn(r) /\ TurnTyped(r) /\ r.tenant \in Tenants
    BY <1>0 DEF Turned, TurnsTyped, IsTurn
  <1>2. ASSUME NEW t \in Tenants, Begin(u, t) PROVE Moved(u)
    <2>1. PICK stage, hit : stage = (IF cached[t] = NoRow THEN "load" ELSE "rate") /\ hit = cached[t]
      OBVIOUS
    <2>2. PICK q : q = [IdleTurn EXCEPT !.tenant = t, !.settings = hit, !.at = stage]
      OBVIOUS
    <2>3. turn' = [turn EXCEPT ![u] = q]
      BY <1>2, <2>1, <2>2 DEF Begin
    <2>4. /\ q.at = stage /\ q.tenant = t /\ q.settings = hit /\ q.reg = IdleTurn.reg
          /\ q.drivers = IdleTurn.drivers /\ q.degraded = IdleTurn.degraded
      BY <2>2 DEF IdleTurn
    <2>5. IsTurn(q)
      BY <2>2 DEF IsTurn, IdleTurn, NoDrivers
    <2>6. hit.tokens \in Budgets
      BY <2>1 DEF Budgeted
    <2>7. TurnTyped(q)
      BY <2>1, <2>4, <2>6, IdleKnown DEF TurnTyped, Stages
    <2>8. Follows(q, turn[u])
      BY <2>1, <2>4, <2>5, <2>7 DEF Follows, Spenders, Building
    <2> QED BY <2>3, <2>8 DEF Moved
  <1>3. ASSUME NEW x, NEW stage \in {"store", "rate"}, x.tokens \in Budgets, x # NoRow,
               turn' = [turn EXCEPT ![u].at = stage, ![u].settings = x]
        PROVE  Moved(u)
    <2>1. PICK q : q = [r EXCEPT !.at = stage, !.settings = x]
      OBVIOUS
    <2>2. turn' = [turn EXCEPT ![u] = q]
      BY <1>0, <1>3, <2>1 DEF Turned
    <2>3. /\ q.at = stage /\ q.settings = x /\ q.tenant = r.tenant /\ q.reg = r.reg
          /\ q.drivers = r.drivers /\ q.degraded = r.degraded
      BY <1>1, <2>1 DEF IsTurn
    <2>4. IsTurn(q)
      BY <1>1, <2>1, <2>3 DEF IsTurn
    <2>5. TurnTyped(q)
      BY <1>1, <1>3, <2>3 DEF TurnTyped, Stages
    <2>6. Follows(q, turn[u])
      BY <2>3, <2>4, <2>5 DEF Follows, Spenders, Building
    <2> QED BY <2>2, <2>6 DEF Moved
  <1>4. CASE Load(u)
    <2>1. PICK old : old = row[r.tenant]
      OBVIOUS
    <2>2. PICK x : x = IF old.there THEN old ELSE [DefaultRow EXCEPT !.there = FALSE]
      OBVIOUS
    <2>3. turn' = [turn EXCEPT ![u].at = "store", ![u].settings = x]
      BY <1>0, <1>4, <2>1, <2>2 DEF Load
    <2>4. old.tokens \in Budgets
      BY <1>1, <2>1 DEF Budgeted
    <2>5. x.tokens \in Budgets /\ x # NoRow
      BY <2>2, <2>4, RowsKnown
    <2> QED BY <1>3, <2>3, <2>5
  <1>5. CASE LoadFails(u)
    <2>1. turn' = [turn EXCEPT ![u].at = "rate", ![u].settings = Unknown]
      BY <1>5 DEF LoadFails
    <2> QED BY <1>3, <2>1, RowsKnown
  <1>6. CASE Store(u)
    <2>1. turn[u].at = "store" /\ Goto(u, "rate")
      BY <1>6 DEF Store, At
    <2> QED BY <2>1, GotoForm DEF Stages, Spenders, Building
  <1>7. CASE Check(u)
    <2>1. End(u) \/ Goto(u, "budget")
      BY <1>7 DEF Check, Judge
    <2>2. CASE Goto(u, "budget")
      BY <2>2, GotoForm DEF Stages, Spenders, Building
    <2> QED BY <2>1, <2>2, EndForm
  <1> QED BY <1>2, <1>4, <1>5, <1>6, <1>7

(* A turn past it.                                                         *)
LEMMA ToolForms ==
  ASSUME RegistryInv, TurnsTyped, Singly, Bounded, NEW u \in Turns,
         \/ GetHit(u) \/ GetMiss(u) \/ Build(u) \/ Evict(u) \/ Cancel(u)
         \/ \E p \in Providers, broken \in BOOLEAN : Resolve(u, p, broken)
         \/ Used(u) \/ \E tokens \in 0 .. TurnTokens : Respond(u, tokens)
         \/ Record(u) \/ CostsFail(u)
  PROVE  Moved(u)
  <1>0. PICK r : r = turn[u]
    OBVIOUS
  <1>1. /\ Turned /\ IsTurn(r) /\ TurnTyped(r) /\ r.tenant \in Tenants
        /\ Numbered /\ Len(reg) \in Nat /\ Len(reg) <= MaxBuilt /\ MaxBuilt \in Nat
    BY <1>0, TenantAssumption
      DEF RegistryInv, CacheInv, Turned, TurnsTyped, IsTurn, Numbered, Bounded
  <1>2. NoDrivers = [p \in Providers |-> NoDrivers[p]]
        /\ \A p \in Providers : AtMostOne(NoDrivers[p])
    BY DEF NoDrivers, AtMostOne
  <1>3. ASSUME NEW stage \in {"use", "model"}, NEW n \in 0..MaxBuilt, r.at \in Spenders,
               turn' = [turn EXCEPT ![u].at = stage, ![u].reg = n]
        PROVE  Moved(u)
    <2>1. PICK q : q = [r EXCEPT !.at = stage, !.reg = n, !.drivers = r.drivers,
                                 !.degraded = r.degraded]
      OBVIOUS
    <2>2. q = [r EXCEPT !.at = stage, !.reg = n]
      BY <1>1, <2>1 DEF IsTurn
    <2>3. turn' = [turn EXCEPT ![u] = q]
      BY <1>0, <1>1, <1>3, <2>2 DEF Turned
    <2>4. Follows(q, turn[u])
      BY <1>0, <1>1, <1>3, <2>1, FieldsForm
        DEF IsTurn, TurnTyped, Stages, Spenders, Building
    <2> QED BY <2>3, <2>4 DEF Moved
  <1>4. CASE GetHit(u)
    <2>1. PICK i \in Cached(r.tenant) :
            turn' = [turn EXCEPT ![u].at = "use", ![u].reg = entries[i]]
      BY <1>0, <1>4 DEF GetHit
    <2>2. i \in 1..Len(entries) /\ entries[i] \in 1..Len(reg)
      BY <1>1, <2>1 DEF Cached, Numbered
    <2>3. entries[i] \in 0..MaxBuilt
      BY <1>1, <2>2
    <2>4. r.at \in Spenders
      BY <1>0, <1>4 DEF GetHit, At, Spenders
    <2> QED BY <1>3, <2>1, <2>3, <2>4
  <1>5. CASE Used(u)
    <2>1. turn' = [turn EXCEPT ![u].at = "model", ![u].reg = 0] /\ r.at \in Spenders
      BY <1>0, <1>5 DEF Used, At, Spenders
    <2>2. 0 \in 0..MaxBuilt
      BY <1>1
    <2> QED BY <1>3, <2>1, <2>2
  <1>6. CASE GetMiss(u)
    <2>1. PICK q : q = [r EXCEPT !.at = "amadeus", !.reg = r.reg, !.drivers = NoDrivers,
                                 !.degraded = {}]
      OBVIOUS
    <2>2. q = [r EXCEPT !.at = "amadeus", !.drivers = NoDrivers, !.degraded = {}]
      BY <1>1, <2>1 DEF IsTurn
    <2>3. turn' = [turn EXCEPT ![u] = q]
      BY <1>0, <1>1, <1>6, <2>2 DEF GetMiss, Turned
    <2>4. r.at \in Spenders /\ Len(reg) < MaxBuilt
      BY <1>0, <1>6 DEF GetMiss, At, Spenders
    <2>5. r.reg \in 0..MaxBuilt /\ "amadeus" \in Stages
      BY <1>1 DEF TurnTyped, Stages, Providers
    <2>6. Follows(q, turn[u])
      BY <1>0, <1>1, <1>2, <2>1, <2>4, <2>5, FieldsForm
    <2> QED BY <2>3, <2>6 DEF Moved
  <1>7. CASE Build(u)
    <2>1. PICK n : n = Len(reg) + 1
      OBVIOUS
    <2>2. PICK q : q = [r EXCEPT !.at = "evict", !.reg = n, !.drivers = NoDrivers,
                                 !.degraded = {}]
      OBVIOUS
    <2>3. turn' = [turn EXCEPT ![u] = q]
      BY <1>0, <1>1, <1>7, <2>1, <2>2 DEF Build, Turned
    <2>4. r.at \in Spenders /\ r.at \in Building
      BY <1>0, <1>7 DEF Build, At, Spenders, Building
    <2>5. n \in 0..MaxBuilt /\ "evict" \in Stages
      BY <1>0, <1>1, <2>1, <2>4 DEF Bounded, Stages
    <2>6. Follows(q, turn[u])
      BY <1>0, <1>1, <1>2, <2>2, <2>4, <2>5, FieldsForm
    <2> QED BY <2>3, <2>6 DEF Moved
  <1>8. CASE Evict(u)
    <2>1. turn[u].at \in Spenders
      BY <1>8 DEF Evict, At, Spenders
    <2>2. CASE Goto(u, "use")
      BY <1>1, <2>1, <2>2, GotoForm DEF Stages, Spenders, Building
    <2>3. CASE turn' = turn
      <3>1. turn' = [turn EXCEPT ![u] = r]
        BY <1>0, <1>1, <2>3 DEF Turned
      <3>2. Follows(r, turn[u])
        BY <1>0, <1>1 DEF Follows
      <3> QED BY <3>1, <3>2 DEF Moved
    <2> QED BY <1>8, <2>2, <2>3 DEF Evict
  <1>9. ASSUME NEW p \in Providers, NEW broken \in BOOLEAN, Resolve(u, p, broken)
        PROVE  Moved(u)
    <2>1. PICK D : D = BuildDriver(p, StorageCredentials(r.tenant, p, broken))
      OBVIOUS
    <2>2. PICK deg : deg = IF Raises(broken) THEN r.degraded \cup {p} ELSE r.degraded
      OBVIOUS
    <2>3. PICK stage : stage = IF p = "amadeus" THEN "tbo" ELSE "cache"
      OBVIOUS
    <2>4. turn' = [turn EXCEPT ![u].drivers[p] = D, ![u].degraded = deg, ![u].at = stage]
      BY <1>0, <1>9, <2>1, <2>2, <2>3 DEF Resolve
    <2>5. PICK E : E = [r.drivers EXCEPT ![p] = D]
      OBVIOUS
    <2>6. PICK q : q = [r EXCEPT !.at = stage, !.reg = r.reg, !.drivers = E, !.degraded = deg]
      OBVIOUS
    <2>7. q = [r EXCEPT !.drivers = E, !.degraded = deg, !.at = stage]
      BY <1>1, <2>6 DEF IsTurn
    <2>8. turn' = [turn EXCEPT ![u] = q]
      BY <1>0, <1>1, <2>4, <2>5, <2>7 DEF Turned, IsTurn
    <2>9. AtMostOne(D)
      BY <1>1, <2>1, OneDriver
    <2>10. E = [x \in Providers |-> E[x]] /\ \A x \in Providers : AtMostOne(E[x])
      BY <1>1, <2>5, <2>9 DEF IsTurn, TurnTyped
    <2>11. deg \subseteq Providers /\ r.reg \in 0..MaxBuilt
      BY <1>1, <2>2 DEF TurnTyped
    <2>12. stage \in Stages /\ r.at \in Spenders /\ r.at \in Building /\ stage \notin {"store", "rate"}
      BY <1>0, <1>9, <2>3 DEF Resolve, At, Stages, Spenders, Building, Providers
    <2>13. Follows(q, turn[u])
      BY <1>0, <1>1, <2>6, <2>10, <2>11, <2>12, FieldsForm
    <2> QED BY <2>8, <2>13 DEF Moved
  <1>10. ASSUME NEW tokens \in 0..TurnTokens, Respond(u, tokens) PROVE Moved(u)
    <2>1. turn[u].at \in Spenders /\ Goto(u, "record")
      BY <1>10 DEF Respond, At, Spenders
    <2> QED BY <1>1, <2>1, GotoForm DEF Stages, Spenders, Building
  <1>11. CASE Cancel(u) \/ Record(u) \/ CostsFail(u)
    <2>1. End(u)
      BY <1>11 DEF Cancel, Record, CostsFail
    <2> QED BY <2>1, EndForm
  <1> QED BY <1>4, <1>5, <1>6, <1>7, <1>8, <1>9, <1>10, <1>11

(* The turn is let past the gate of the budget, or ended there.            *)
LEMMA EnforceForm ==
  ASSUME Turned, TurnsTyped, NEW u \in Turns, Enforce(u)
  PROVE  \/ Moved(u)
         \/ \E q : /\ turn' = [turn EXCEPT ![u] = q] /\ IsTurn(q) /\ TurnTyped(q)
                   /\ q.at = "model" /\ q.tenant = turn[u].tenant
                   /\ ~OverBudget(turn[u].tenant, turn[u].settings)
  <1>0. PICK r : r = turn[u]
    OBVIOUS
  <1>1. IsTurn(r) /\ TurnTyped(r)
    BY <1>0 DEF Turned, TurnsTyped
  <1>2. CASE End(u)
    BY <1>2, EndForm
  <1>3. CASE Goto(u, "model") /\ ~OverBudget(turn[u].tenant, turn[u].settings)
    <2>1. PICK q : q = [r EXCEPT !.at = "model"]
      OBVIOUS
    <2>2. turn' = [turn EXCEPT ![u] = q]
      BY <1>0, <1>3, <2>1 DEF Goto, Turned
    <2>3. /\ q.at = "model" /\ q.settings = r.settings /\ q.tenant = r.tenant /\ q.reg = r.reg
          /\ q.drivers = r.drivers /\ q.degraded = r.degraded
      BY <1>1, <2>1 DEF IsTurn
    <2>4. IsTurn(q)
      BY <1>1, <2>1, <2>3 DEF IsTurn
    <2>5. TurnTyped(q)
      BY <1>1, <2>3 DEF TurnTyped, Stages
    <2> QED BY <1>0, <1>3, <2>2, <2>3, <2>4, <2>5
  <1> QED BY <1>2, <1>3 DEF Enforce

(* What Next does to the turns.                                            *)
LEMMA TurnForms ==
  ASSUME RegistryInv, SettingsInv, MeterInv, [Next]_vars
  PROVE  \/ turn' = turn
         \/ \E u \in Turns : Moved(u) \/ Enforce(u)
  <1>1. /\ Turned /\ TurnsTyped /\ Budgeted /\ Singly /\ Bounded
    BY DEF RegistryInv, CacheInv, MeterInv
  <1>2. ASSUME NEW u \in Turns,
               \/ \E t \in Tenants : Begin(u, t)
               \/ Load(u) \/ LoadFails(u) \/ Store(u) \/ Check(u)
        PROVE  Moved(u)
    BY <1>1, <1>2, GateForms
  <1>3. ASSUME NEW u \in Turns,
               \/ GetHit(u) \/ GetMiss(u) \/ Build(u) \/ Evict(u) \/ Cancel(u)
               \/ \E p \in Providers, broken \in BOOLEAN : Resolve(u, p, broken)
               \/ Used(u) \/ \E tokens \in 0 .. TurnTokens : Respond(u, tokens)
               \/ Record(u) \/ CostsFail(u)
        PROVE  Moved(u)
    BY <1>1, <1>3, ToolForms
  <1>4. CASE \E a \in Admins : \/ \E t \in Tenants, patch \in Patches : AdminLoad(a, t, patch)
                              \/ AdminInsert(a) \/ AdminWrite(a)
    BY <1>4 DEF AdminLoad, AdminInsert, AdminWrite
  <1>5. CASE StoreCredentials \/ CloseAll \/ (\E i \in DOMAIN reg : CloseOne(i)) \/ Tick
               \/ UNCHANGED vars
    BY <1>5 DEF StoreCredentials, CloseAll, CloseOne, Tick, vars
  <1> QED BY <1>2, <1>3, <1>4, <1>5 DEF Next

LEMMA TurnsStep ==
  ASSUME RegistryInv, SettingsInv, MeterInv, [Next]_vars
  PROVE  TurnsTyped'
  <1>1. Turned /\ TurnsTyped
    BY DEF RegistryInv, CacheInv, MeterInv
  <1>2. ASSUME NEW u \in Turns, NEW q, turn' = [turn EXCEPT ![u] = q], IsTurn(q), TurnTyped(q)
        PROVE  TurnsTyped'
    <2>1. turn'[u] = q /\ \A v \in Turns : v # u => turn'[v] = turn[v]
      BY <1>1, <1>2, TurnSet
    <2>2. \A v \in Turns : TurnTyped(turn'[v])
      BY <1>1, <1>2, <2>1 DEF TurnsTyped
    <2> QED BY <2>2 DEF TurnsTyped, TurnTyped
  <1>3. ASSUME NEW u \in Turns, Moved(u) PROVE TurnsTyped'
    BY <1>2, <1>3 DEF Moved, Follows
  <1>4. ASSUME NEW u \in Turns, Enforce(u) PROVE TurnsTyped'
    BY <1>1, <1>2, <1>3, <1>4, EnforceForm
  <1>5. CASE turn' = turn
    BY <1>1, <1>5 DEF TurnsTyped, TurnTyped
  <1> QED BY <1>3, <1>4, <1>5, TurnForms

-----------------------------------------------------------------------------
(* The settings.                                                           *)

LEMMA PatchBudget ==
  ASSUME NEW patch \in Patches, "tokens" \in DOMAIN patch
  PROVE  patch["tokens"] \in Budgets
  <1>1. patch # <<>>
    OBVIOUS
  <1>2. PICK f \in Fields : patch \in [{f} -> Values(f)]
    BY <1>1 DEF Patches
  <1>3. f = "tokens"
    BY <1>2
  <1> QED BY <1>2, <1>3 DEF Values, Budgets

LEMMA AdminsStep ==
  ASSUME SettingsInv, AdminsTyped, Budgeted, NEW b \in Admins,
         \/ \E t \in Tenants, patch \in Patches : AdminLoad(b, t, patch)
         \/ AdminInsert(b) \/ AdminWrite(b)
  PROVE  AdminsTyped' /\ Budgeted'
  <1>1. /\ Administered /\ row \in [Tenants -> SettingsRecord]
    BY DEF SettingsInv
  <1>2. PICK r : r = admin[b]
    OBVIOUS
  <1>3. IsAdmin(r) /\ r.at \in {"idle", "insert", "write"} /\ r.patch \in Patches
        /\ r.loaded \in SettingsRecord /\ r.tenant \in Tenants
    BY <1>1, <1>2 DEF Administered, AdminsTyped, IsAdmin
  <1>4. cached' = cached
    BY DEF AdminLoad, AdminInsert, AdminWrite
  <1>5. ASSUME NEW q, IsAdmin(q), q.at \in {"idle", "insert", "write"}, q.patch \in Patches,
               q.loaded \in SettingsRecord, admin' = [admin EXCEPT ![b] = q]
        PROVE  AdminsTyped'
    <2>1. admin'[b] = q /\ \A a \in Admins : a # b => admin'[a] = admin[a]
      BY <1>1, <1>5, AdminSet
    <2> QED BY <1>5, <2>1 DEF AdminsTyped
  <1>6. /\ IdleAdmin.at = "idle" /\ IdleAdmin.patch \in Patches
        /\ IdleAdmin.loaded \in SettingsRecord /\ IsAdmin(IdleAdmin)
    BY RowsTyped, IdleAdminTyped DEF IdleAdmin, Patches
  <1>7. ASSUME NEW t \in Tenants, NEW new, new.tokens \in Budgets, row' = [row EXCEPT ![t] = new]
        PROVE  Budgeted'
    <2>1. \A x \in Tenants : row'[x] = IF x = t THEN new ELSE row[x]
      BY <1>1, <1>7
    <2> QED BY <1>4, <1>7, <2>1 DEF Budgeted
  <1>8. ASSUME NEW t \in Tenants, NEW patch \in Patches, AdminLoad(b, t, patch)
        PROVE  AdminsTyped' /\ Budgeted'
    <2>1. PICK stage, old : stage = (IF row[t].there THEN "write" ELSE "insert") /\ old = row[t]
      OBVIOUS
    <2>2. PICK q : q = [at |-> stage, tenant |-> t, patch |-> patch, loaded |-> old]
      OBVIOUS
    <2>3. admin' = [admin EXCEPT ![b] = q] /\ row' = row
      BY <1>8, <2>1, <2>2 DEF AdminLoad
    <2>4. IsAdmin(q)
      BY <2>2, PatchesTyped DEF IsAdmin
    <2>5. AdminsTyped'
      BY <1>1, <1>5, <2>1, <2>2, <2>3, <2>4
    <2> QED BY <1>4, <2>3, <2>5 DEF Budgeted
  <1>9. CASE AdminInsert(b)
    <2>1. CASE row[r.tenant].there
      <3>1. admin' = [admin EXCEPT ![b] = IdleAdmin] /\ row' = row
        BY <1>2, <1>9, <2>1 DEF AdminInsert
      <3> QED BY <1>4, <1>5, <1>6, <3>1 DEF Budgeted
    <2>2. CASE ~row[r.tenant].there
      <3>1. /\ row' = [row EXCEPT ![r.tenant] = DefaultRow]
            /\ admin' = [admin EXCEPT ![b].at = "write", ![b].loaded = DefaultRow]
        BY <1>2, <1>9, <2>2 DEF AdminInsert
      <3>2. PICK q : q = [r EXCEPT !.at = "write", !.loaded = DefaultRow]
        OBVIOUS
      <3>3. admin' = [admin EXCEPT ![b] = q]
        BY <1>1, <1>2, <3>1, <3>2 DEF Administered
      <3>4. IsAdmin(q) /\ q.at = "write" /\ q.patch = r.patch /\ q.loaded = DefaultRow
        BY <1>3, <3>2 DEF IsAdmin
      <3>5. AdminsTyped'
        BY <1>3, <1>5, <3>3, <3>4, RowsTyped
      <3>6. Budgeted'
        BY <1>3, <1>7, <3>1, RowsKnown
      <3> QED BY <3>5, <3>6
    <2> QED BY <2>1, <2>2
  <1>10. CASE AdminWrite(b)
    <2>1. PICK old : old = row[r.tenant]
      OBVIOUS
    <2>2. PICK new : new = [f \in DOMAIN NoRow |-> IF f \in Written(r) THEN r.patch[f] ELSE old[f]]
      OBVIOUS
    <2>3. row' = [row EXCEPT ![r.tenant] = new] /\ admin' = [admin EXCEPT ![b] = IdleAdmin]
      BY <1>1, <1>2, <1>3, <1>10, <2>1, <2>2 DEF AdminWrite
    <2>4. old.tokens \in Budgets
      BY <1>3, <2>1 DEF Budgeted
    <2>5. new.tokens = IF "tokens" \in Written(r) THEN r.patch["tokens"] ELSE old.tokens
      <3>1. "tokens" \in DOMAIN NoRow
        BY DEF NoRow
      <3>2. new["tokens"] = IF "tokens" \in Written(r) THEN r.patch["tokens"] ELSE old["tokens"]
        BY <2>2, <3>1
      <3> QED BY <3>2
    <2>6. new.tokens \in Budgets
      BY <1>3, <2>4, <2>5, PatchBudget DEF Written
    <2> QED BY <1>3, <1>5, <1>6, <1>7, <2>3, <2>6
  <1> QED BY <1>8, <1>9, <1>10

LEMMA BudgetedStep ==
  ASSUME RegistryInv, SettingsInv, MeterInv, [Next]_vars
  PROVE  AdminsTyped' /\ Budgeted'
  <1>1. /\ Turned /\ AdminsTyped /\ Budgeted /\ TurnsTyped
        /\ cached \in [Tenants -> SettingsRecord]
    BY DEF RegistryInv, CacheInv, MeterInv, SettingsInv
  <1>2. CASE \E a \in Admins : \/ \E t \in Tenants, patch \in Patches : AdminLoad(a, t, patch)
                              \/ AdminInsert(a) \/ AdminWrite(a)
    BY <1>1, <1>2, AdminsStep
  <1>3. CASE admin' = admin /\ row' = row /\ cached' = cached
    BY <1>1, <1>3 DEF AdminsTyped, Budgeted
  <1>4. ASSUME NEW u \in Turns, Store(u) PROVE AdminsTyped' /\ Budgeted'
    <2>1. PICK t, x : t = turn[u].tenant /\ x = turn[u].settings
      OBVIOUS
    <2>2. t \in Tenants /\ x.tokens \in Budgets
      BY <1>1, <2>1 DEF Turned, IsTurn, TurnsTyped, TurnTyped
    <2>3. cached' = [cached EXCEPT ![t] = x] /\ admin' = admin /\ row' = row
      BY <1>4, <2>1 DEF Store
    <2>4. \A y \in Tenants : cached'[y] = IF y = t THEN x ELSE cached[y]
      BY <1>1, <2>3
    <2> QED BY <1>1, <2>2, <2>3, <2>4 DEF AdminsTyped, Budgeted
  <1>5. ASSUME NEW u \in Turns,
               \/ \E t \in Tenants : Begin(u, t)
               \/ Load(u) \/ LoadFails(u) \/ Check(u) \/ Enforce(u)
               \/ GetHit(u) \/ GetMiss(u) \/ Build(u) \/ Evict(u) \/ Cancel(u)
               \/ \E p \in Providers, broken \in BOOLEAN : Resolve(u, p, broken)
               \/ Used(u) \/ \E tokens \in 0 .. TurnTokens : Respond(u, tokens)
               \/ Record(u) \/ CostsFail(u)
        PROVE  AdminsTyped' /\ Budgeted'
    <2>1. admin' = admin /\ row' = row /\ cached' = cached
      BY <1>5 DEF Begin, Load, LoadFails, Check, Enforce, GetHit, GetMiss, Build, Evict,
                  Cancel, Resolve, Used, Respond, Record, CostsFail, settingsVars
    <2> QED BY <1>3, <2>1
  <1>6. CASE StoreCredentials \/ CloseAll \/ (\E i \in DOMAIN reg : CloseOne(i)) \/ Tick
               \/ UNCHANGED vars
    <2>1. admin' = admin /\ row' = row /\ cached' = cached
      BY <1>6 DEF StoreCredentials, CloseAll, CloseOne, Tick, vars, settingsVars
    <2> QED BY <1>3, <2>1
  <1> QED BY <1>2, <1>4, <1>5, <1>6 DEF Next

-----------------------------------------------------------------------------
LEMMA SpendTyped ==
  ASSUME budget \in [Kinds -> Nat], NEW k \in Kinds, Spend(k)
  PROVE  budget' \in [Kinds -> Nat]
  <1>1. budget[k] \in Nat /\ budget[k] > 0
    BY DEF Spend
  <1>2. budget[k] - 1 \in Nat
    BY <1>1
  <1> QED BY <1>2 DEF Spend

LEMMA CountedStep ==
  ASSUME RegistryInv, SettingsInv, MeterInv, [Next]_vars
  PROVE  Counted'
  <1>1. /\ Turned /\ usage \in 0..TurnTokens /\ budget \in [Kinds -> Nat] /\ free \subseteq Tenants
    BY DEF RegistryInv, CacheInv, MeterInv, Counted
  <1>2. budget' \in [Kinds -> Nat]
    <2>1. budget' = budget \/ \E k \in Kinds : Spend(k)
      <3>1. CASE \E a \in Admins : \/ \E t \in Tenants, patch \in Patches : AdminLoad(a, t, patch)
                                  \/ AdminInsert(a) \/ AdminWrite(a)
        BY <3>1 DEF AdminLoad, AdminInsert, AdminWrite, Kinds
      <3>2. ASSUME NEW u \in Turns,
                   \/ \E t \in Tenants : Begin(u, t)
                   \/ Load(u) \/ LoadFails(u) \/ Store(u) \/ Check(u) \/ Enforce(u)
                   \/ GetHit(u) \/ GetMiss(u) \/ Build(u) \/ Evict(u) \/ Cancel(u)
            PROVE  budget' = budget \/ \E k \in Kinds : Spend(k)
        BY <3>2 DEF Begin, Load, LoadFails, Store, Check, Enforce, GetHit, GetMiss, Build, Evict,
                    CloseSafely, Cancel, Kinds
      <3>3. ASSUME NEW u \in Turns,
                   \/ \E p \in Providers, broken \in BOOLEAN : Resolve(u, p, broken)
                   \/ Used(u) \/ \E tokens \in 0 .. TurnTokens : Respond(u, tokens)
                   \/ Record(u) \/ CostsFail(u)
            PROVE  budget' = budget \/ \E k \in Kinds : Spend(k)
        BY <3>3 DEF Resolve, Used, Respond, Record, CostsFail, Kinds
      <3>4. CASE StoreCredentials \/ CloseAll \/ (\E i \in DOMAIN reg : CloseOne(i)) \/ Tick
                   \/ UNCHANGED vars
        BY <3>4 DEF StoreCredentials, CloseAll, CloseOne, CloseSafely, Tick, vars, Kinds
      <3> QED BY <3>1, <3>2, <3>3, <3>4 DEF Next
    <2> QED BY <1>1, <2>1, SpendTyped
  <1>3. usage' \in 0..TurnTokens /\ free' \subseteq Tenants
    <2>1. CASE usage' = usage /\ free' = free
      BY <1>1, <2>1
    <2>2. ASSUME NEW u \in Turns, NEW tokens \in 0..TurnTokens, Respond(u, tokens)
          PROVE  usage' \in 0..TurnTokens /\ free' \subseteq Tenants
      BY <1>1, <2>2 DEF Respond
    <2>3. ASSUME NEW u \in Turns, Enforce(u)
          PROVE  usage' \in 0..TurnTokens /\ free' \subseteq Tenants
      <3>1. turn[u].tenant \in Tenants
        BY <1>1 DEF Turned, IsTurn
      <3> QED BY <1>1, <2>3, <3>1 DEF Enforce
    <2>4. ASSUME NEW u \in Turns,
                 \/ \E t \in Tenants : Begin(u, t)
                 \/ Load(u) \/ LoadFails(u) \/ Store(u) \/ Check(u)
                 \/ GetHit(u) \/ GetMiss(u) \/ Build(u) \/ Evict(u) \/ Cancel(u)
                 \/ \E p \in Providers, broken \in BOOLEAN : Resolve(u, p, broken)
                 \/ Used(u) \/ Record(u) \/ CostsFail(u)
          PROVE  usage' = usage /\ free' = free
      BY <2>4 DEF Begin, Load, LoadFails, Store, Check, GetHit, GetMiss, Build, Evict,
                  Cancel, Resolve, Used, Record, CostsFail, meterVars
    <2>5. CASE \E a \in Admins : \/ \E t \in Tenants, patch \in Patches : AdminLoad(a, t, patch)
                                \/ AdminInsert(a) \/ AdminWrite(a)
      BY <2>1, <2>5 DEF AdminLoad, AdminInsert, AdminWrite, meterVars
    <2>6. CASE StoreCredentials \/ CloseAll \/ (\E i \in DOMAIN reg : CloseOne(i)) \/ Tick
                 \/ UNCHANGED vars
      BY <2>1, <2>6 DEF StoreCredentials, CloseAll, CloseOne, Tick, vars, meterVars
    <2> QED BY <2>1, <2>2, <2>3, <2>4, <2>5, <2>6 DEF Next
  <1> QED BY <1>2, <1>3 DEF Counted

LEMMA SinglyStep ==
  ASSUME RegistryInv, SettingsInv, MeterInv, [Next]_vars
  PROVE  Singly'
  <1>1. Stored /\ Singly
    BY DEF RegistryInv, MeterInv
  <1>2. PerProvider(vault)
    BY <1>1 DEF Stored, WasPut, PerProvider
  <1>3. CASE StoreCredentials
    <2>1. PICK t \in Tenants, p \in Providers :
            Delete(t, p) \/ \E payload \in Payloads[t][p] : Put(t, p, payload)
      BY <1>3 DEF StoreCredentials
    <2>2. PICK v, blobs : v = vault' /\ IsChanged(vault, v, t, p, blobs) /\ AtMostOne(blobs)
      <3>1. PICK w : w = vault'
        OBVIOUS
      <3>2. CASE Delete(t, p)
        <4>1. IsChanged(vault, w, t, p, {}) /\ AtMostOne({})
          BY <3>1, <3>2 DEF Delete, IsChanged, AtMostOne
        <4> QED BY <3>1, <4>1
      <3>3. ASSUME NEW payload, Put(t, p, payload)
            PROVE  \E v, blobs : v = vault' /\ IsChanged(vault, v, t, p, blobs) /\ AtMostOne(blobs)
        <4>1. PICK e : e = Encrypt(kms, t, p, payload)
          OBVIOUS
        <4>2. IsChanged(vault, w, t, p, {e}) /\ AtMostOne({e})
          BY <3>1, <3>3, <4>1 DEF Put, IsChanged, AtMostOne
        <4> QED BY <3>1, <4>2
      <3> QED BY <2>1, <3>2, <3>3
    <2>3. /\ v[t][p] = blobs
          /\ \A x \in Tenants, y \in Providers : x # t \/ y # p => v[x][y] = vault[x][y]
      BY <1>2, <2>2, SetEntry
    <2> QED BY <1>1, <2>2, <2>3 DEF Singly
  <1>4. CASE vault' = vault
    BY <1>1, <1>4 DEF Singly
  <1>5. ASSUME NEW u \in Turns,
               \/ \E t \in Tenants : Begin(u, t)
               \/ Load(u) \/ LoadFails(u) \/ Store(u) \/ Check(u) \/ Enforce(u)
               \/ GetHit(u) \/ GetMiss(u) \/ Build(u) \/ Evict(u) \/ Cancel(u)
               \/ \E p \in Providers, broken \in BOOLEAN : Resolve(u, p, broken)
               \/ Used(u) \/ \E tokens \in 0 .. TurnTokens : Respond(u, tokens)
               \/ Record(u) \/ CostsFail(u)
        PROVE  vault' = vault
    BY <1>5 DEF Begin, Load, LoadFails, Store, Check, Enforce, GetHit, GetMiss, Build, Evict,
                Cancel, Resolve, Used, Respond, Record, CostsFail, registryVars, vaultVars
  <1>6. CASE \E a \in Admins : \/ \E t \in Tenants, patch \in Patches : AdminLoad(a, t, patch)
                              \/ AdminInsert(a) \/ AdminWrite(a)
    BY <1>4, <1>6 DEF AdminLoad, AdminInsert, AdminWrite, registryVars, vaultVars
  <1>7. CASE CloseAll \/ (\E i \in DOMAIN reg : CloseOne(i)) \/ Tick \/ UNCHANGED vars
    BY <1>4, <1>7 DEF CloseAll, CloseOne, Tick, vars, registryVars, vaultVars
  <1> QED BY <1>3, <1>4, <1>5, <1>6, <1>7 DEF Next

(* Only the turn that holds the lock builds.                               *)
LEMMA BoundedStep ==
  ASSUME RegistryInv, SettingsInv, MeterInv, [Next]_vars
  PROVE  Bounded'
  <1>1. /\ Turned /\ TurnsTyped /\ Numbered /\ Locked /\ Bounded
        /\ Len(reg) \in Nat /\ MaxBuilt \in Nat
    BY TenantAssumption DEF RegistryInv, CacheInv, MeterInv, Numbered
  <1>2. ASSUME NEW u \in Turns, Build(u) PROVE Bounded'
    <2>1. PICK x : reg' = Append(reg, x)
      BY <1>2 DEF Build
    <2>2. Len(reg') = Len(reg) + 1
      BY <1>1, <2>1, Added DEF Numbered
    <2>3. turn[u].at = "cache"
      BY <1>2 DEF Build, At
    <2>4. Len(reg) < MaxBuilt
      BY <1>1, <2>3 DEF Bounded, Building
    <2>5. \A v \in Turns : v # u => turn[v].at \notin Building
      BY <1>1, <2>3 DEF Locked, Holding, Building
    <2>6. PICK q : q = [turn[u] EXCEPT !.at = "evict", !.reg = Len(reg) + 1,
                                       !.drivers = NoDrivers, !.degraded = {}]
      OBVIOUS
    <2>7. turn' = [turn EXCEPT ![u] = q]
      BY <1>1, <1>2, <2>6 DEF Build, Turned
    <2>8. q.at = "evict"
      BY <1>1, <2>6 DEF Turned, IsTurn
    <2>9. turn'[u] = q /\ \A v \in Turns : v # u => turn'[v] = turn[v]
      BY <1>1, <2>7 DEF Turned
    <2>10. \A v \in Turns : turn'[v].at \notin Building
      BY <2>5, <2>8, <2>9 DEF Building
    <2> QED BY <1>1, <2>2, <2>4, <2>10 DEF Bounded
  <1>3. CASE Len(reg') = Len(reg)
    <2>1. ASSUME NEW u \in Turns, NEW q, turn' = [turn EXCEPT ![u] = q],
                 q.at \in Building => turn[u].at \in Building \/ Len(reg) < MaxBuilt
          PROVE  Bounded'
      <3>1. turn'[u] = q /\ \A v \in Turns : v # u => turn'[v] = turn[v]
        BY <1>1, <2>1 DEF Turned
      <3>2. \A v \in Turns : turn'[v].at \in Building => Len(reg) < MaxBuilt
        BY <1>1, <2>1, <3>1 DEF Bounded
      <3> QED BY <1>1, <1>3, <3>2 DEF Bounded
    <2>2. ASSUME NEW u \in Turns, Moved(u) PROVE Bounded'
      BY <2>1, <2>2 DEF Moved, Follows
    <2>3. ASSUME NEW u \in Turns, Enforce(u) PROVE Bounded'
      <3>1. "model" \notin Building
        BY DEF Building
      <3> QED BY <1>1, <2>1, <2>2, <2>3, <3>1, EnforceForm
    <2>4. CASE turn' = turn
      BY <1>1, <1>3, <2>4 DEF Bounded
    <2> QED BY <2>2, <2>3, <2>4, TurnForms
  <1>4. ASSUME NEW u \in Turns, Evict(u) PROVE Len(reg') = Len(reg)
    <2>1. CASE reg' = reg
      BY <2>1
    <2>2. CASE CloseSafely(Head(entries)) /\ Len(entries) > MaxEntries
      <3>1. Len(entries) > 0 /\ entries \in Seq(1..Len(reg))
        BY <1>1, <2>2, TenantAssumption, LenProperties DEF Numbered
      <3>2. Head(entries) \in 1..Len(reg)
        BY <3>1, TailFacts, ElementOfSeq
      <3> QED BY <1>1, <2>2, <3>2, SafelyClosed
    <2> QED BY <1>4, <2>1, <2>2 DEF Evict
  <1>5. ASSUME NEW i \in DOMAIN reg, CloseOne(i) PROVE Len(reg') = Len(reg)
    <2>1. i \in 1..Len(reg) /\ CloseSafely(i)
      BY <1>1, <1>5 DEF CloseOne, Numbered
    <2> QED BY <1>1, <2>1, SafelyClosed
  <1>6. ASSUME NEW u \in Turns,
               \/ \E t \in Tenants : Begin(u, t)
               \/ Load(u) \/ LoadFails(u) \/ Store(u) \/ Check(u) \/ Enforce(u)
               \/ GetHit(u) \/ GetMiss(u) \/ Cancel(u)
               \/ \E p \in Providers, broken \in BOOLEAN : Resolve(u, p, broken)
               \/ Used(u) \/ \E tokens \in 0 .. TurnTokens : Respond(u, tokens)
               \/ Record(u) \/ CostsFail(u)
        PROVE  Len(reg') = Len(reg)
    <2>1. reg' = reg
      BY <1>6 DEF Begin, Load, LoadFails, Store, Check, Enforce, GetHit, GetMiss,
                  Cancel, Resolve, Used, Respond, Record, CostsFail, registryVars
    <2> QED BY <2>1
  <1>7. CASE \E a \in Admins : \/ \E t \in Tenants, patch \in Patches : AdminLoad(a, t, patch)
                              \/ AdminInsert(a) \/ AdminWrite(a)
    BY <1>3, <1>7 DEF AdminLoad, AdminInsert, AdminWrite, registryVars
  <1>8. CASE StoreCredentials \/ CloseAll \/ Tick \/ UNCHANGED vars
    BY <1>3, <1>8 DEF StoreCredentials, CloseAll, Tick, vars, registryVars
  <1> QED BY <1>2, <1>3, <1>4, <1>5, <1>6, <1>7, <1>8 DEF Next

-----------------------------------------------------------------------------
(* What was used and may be used.                                          *)

NewRow(u) == [tenant |-> turn[u].tenant, tokens |-> usage, at |-> now, n |-> Cardinality(costs)]

(* What a step does to the table of costs.                                 *)
LEMMA CostForms ==
  ASSUME [Next]_vars
  PROVE  \/ costs' = costs /\ now' = now
         \/ costs' = costs /\ turn' = turn /\ free' = free /\ now' = now + 1
         \/ \E u \in Turns : Record(u) /\ usage # 0 /\ costs' = costs \cup {NewRow(u)} /\ now' = now
  <1>1. ASSUME NEW u \in Turns, Record(u)
        PROVE  \/ costs' = costs /\ now' = now
               \/ Record(u) /\ usage # 0 /\ costs' = costs \cup {NewRow(u)} /\ now' = now
    BY <1>1 DEF Record, NewRow
  <1>2. ASSUME NEW u \in Turns,
               \/ \E t \in Tenants : Begin(u, t)
               \/ Load(u) \/ LoadFails(u) \/ Store(u) \/ Check(u) \/ Enforce(u)
               \/ GetHit(u) \/ GetMiss(u) \/ Build(u) \/ Evict(u) \/ Cancel(u)
               \/ \E p \in Providers, broken \in BOOLEAN : Resolve(u, p, broken)
               \/ Used(u) \/ \E tokens \in 0 .. TurnTokens : Respond(u, tokens)
               \/ CostsFail(u)
        PROVE  costs' = costs /\ now' = now
    BY <1>2 DEF Begin, Load, LoadFails, Store, Check, Enforce, GetHit, GetMiss, Build, Evict,
                Cancel, Resolve, Used, Respond, CostsFail, meterVars
  <1>3. CASE \E a \in Admins : \/ \E t \in Tenants, patch \in Patches : AdminLoad(a, t, patch)
                              \/ AdminInsert(a) \/ AdminWrite(a)
    BY <1>3 DEF AdminLoad, AdminInsert, AdminWrite, meterVars
  <1>4. CASE StoreCredentials \/ CloseAll \/ (\E i \in DOMAIN reg : CloseOne(i)) \/ UNCHANGED vars
    BY <1>4 DEF StoreCredentials, CloseAll, CloseOne, vars, meterVars
  <1>5. CASE Tick
    BY <1>5 DEF Tick, meterVars
  <1> QED BY <1>1, <1>2, <1>3, <1>4, <1>5 DEF Next

LEMMA CostedStep ==
  ASSUME RateInv, MeterInv, [Next]_vars
  PROVE  Costed'
  <1>1. now \in Nat /\ Costed /\ usage \in 0..TurnTokens /\ TurnTokens \in Nat
    BY TenantAssumption DEF RateInv, MeterInv, Counted
  <1>2. CASE costs' = costs /\ now' = now
    BY <1>1, <1>2 DEF Costed, CostsOK
  <1>3. CASE costs' = costs /\ now' = now + 1
    BY <1>1, <1>3 DEF Costed, CostsOK
  <1>4. ASSUME NEW u \in Turns, costs' = costs \cup {NewRow(u)}, now' = now PROVE Costed'
    <2>1. NewRow(u).tokens = usage /\ NewRow(u).at = now
      BY DEF NewRow
    <2>2. IsFiniteSet(costs')
      BY <1>1, <1>4, FS_AddElement DEF Costed, CostsOK
    <2>3. \A c \in costs' : c.tokens \in Nat /\ c.at \in Nat /\ c.at <= now
      BY <1>1, <1>4, <2>1 DEF Costed, CostsOK
    <2> QED BY <1>4, <2>2, <2>3 DEF Costed, CostsOK
  <1> QED BY <1>2, <1>3, <1>4, CostForms

LEMMA RowsSummed ==
  ASSUME NEW C, NEW n, CostsOK(C, n), NEW t
  PROVE  /\ IsFiniteSet(RowsOf(C, n, t)) /\ Tokened(RowsOf(C, n, t))
         /\ SumTokens(RowsOf(C, n, t)) \in Nat
  <1>1. RowsOf(C, n, t) \subseteq C
    BY DEF RowsOf
  <1>2. IsFiniteSet(RowsOf(C, n, t)) /\ Tokened(RowsOf(C, n, t))
    BY <1>1, FS_Subset DEF CostsOK, Tokened
  <1> QED BY <1>2, SumType

LEMMA ActiveCount ==
  ASSUME NEW S, S \subseteq Turns
  PROVE  /\ IsFiniteSet(S) /\ Cardinality(S) \in Nat /\ Cardinality(Turns) \in Nat
         /\ Cardinality(S) <= Cardinality(Turns)
  BY TenantAssumption, FS_Subset, FS_CardinalityType

LEMMA Times ==
  ASSUME NEW k \in Nat, NEW l \in Nat, NEW T \in Nat, k <= l
  PROVE  k * T \in Nat /\ l * T \in Nat /\ k * T <= l * T /\ (k < l => k * T + T <= l * T)
  <1>1. PICK d \in Nat : l = k + d
    <2>1. l - k \in Nat /\ l = k + (l - k)
      OBVIOUS
    <2> QED BY <2>1
  <1>2. l * T = k * T + d * T /\ k * T \in Nat /\ d * T \in Nat /\ l * T \in Nat
    BY <1>1
  <1>3. d >= 1 => d * T >= T
    BY <1>1
  <1>4. k < l => d >= 1
    BY <1>1
  <1> QED BY <1>2, <1>3, <1>4

(* Fewer turns, and no more used than what those gone may have used.       *)
LEMMA WithinLess ==
  ASSUME NEW a \in Nat, NEW k \in Nat, NEW b \in Nat, NEW l \in Nat, Within(a, k), l <= k,
         b <= a \/ (l < k /\ b <= a + TurnTokens)
  PROVE  Within(b, l)
  <1>1. TurnTokens \in Nat /\ TokenBudgets \subseteq Nat /\ Cardinality(Turns) \in Nat
    BY TenantAssumption, FS_CardinalityType
  <1>2. PICK x, y, z : x = k * TurnTokens /\ y = l * TurnTokens /\ z = Cardinality(Turns) * TurnTokens
    OBVIOUS
  <1>3. x \in Nat /\ y \in Nat /\ y <= x /\ (l < k => y + TurnTokens <= x) /\ z \in Nat
    BY <1>1, <1>2, Times
  <1>4. PICK m \in TokenBudgets : a + x < m + z
    BY <1>2 DEF Within
  <1>5. b + y < m + z
    BY <1>1, <1>3, <1>4
  <1> QED BY <1>2, <1>5 DEF Within

LEMMA ActiveLess ==
  ASSUME Turned, NEW u \in Turns, Moved(u), NEW t
  PROVE  Active(turn', t) \subseteq Active(turn, t)
  <1>1. PICK q : turn' = [turn EXCEPT ![u] = q] /\ Follows(q, turn[u])
    BY DEF Moved
  <1>2. turn'[u] = q /\ \A v \in Turns : v # u => turn'[v] = turn[v]
    BY <1>1 DEF Turned
  <1> QED BY <1>1, <1>2 DEF Active, Follows

(* The same rows, and turns of which none got past the gate.               *)
LEMMA SpendingKept ==
  ASSUME NEW C, NEW n, CostsOK(C, n), NEW f, NEW t, SpendingOf(C, n, f, t),
         NEW D, NEW m, NEW g, RowsOf(D, m, t) \in {RowsOf(C, n, t), {}},
         Active(g, t) \subseteq Active(f, t)
  PROVE  SpendingOf(D, m, g, t)
  <1>1. PICK a, b : a = SumTokens(RowsOf(C, n, t)) /\ b = SumTokens(RowsOf(D, m, t))
    OBVIOUS
  <1>2. a \in Nat
    BY <1>1, RowsSummed
  <1>3. b \in Nat /\ b <= a
    BY <1>1, <1>2, SumEmpty
  <1>4. PICK k, l : k = Cardinality(Active(f, t)) /\ l = Cardinality(Active(g, t))
    OBVIOUS
  <1>5. Active(f, t) \subseteq Turns
    BY DEF Active
  <1>6. IsFiniteSet(Active(f, t)) /\ k \in Nat
    BY <1>4, <1>5, ActiveCount
  <1>7. l \in Nat /\ l <= k
    BY <1>4, <1>6, FS_Subset, FS_CardinalityType
  <1>8. Within(a, k)
    BY <1>1, <1>4 DEF SpendingOf
  <1>9. Within(b, l)
    BY <1>2, <1>3, <1>6, <1>7, <1>8, WithinLess
  <1> QED BY <1>1, <1>4, <1>9 DEF SpendingOf

(* A turn records what it used, and is over.                               *)
LEMMA SpendingRecorded ==
  ASSUME NEW C, NEW n, CostsOK(C, n), NEW f, NEW t, SpendingOf(C, n, f, t),
         NEW c, c.tokens \in 0..TurnTokens, NEW D, RowsOf(D, n, t) = RowsOf(C, n, t) \cup {c},
         NEW u \in Active(f, t), NEW g, Active(g, t) \subseteq Active(f, t) \ {u}
  PROVE  SpendingOf(D, n, g, t)
  <1>1. PICK a, b : a = SumTokens(RowsOf(C, n, t)) /\ b = SumTokens(RowsOf(D, n, t))
    OBVIOUS
  <1>2. IsFiniteSet(RowsOf(C, n, t)) /\ Tokened(RowsOf(C, n, t)) /\ a \in Nat
    BY <1>1, RowsSummed
  <1>3. TurnTokens \in Nat /\ c.tokens \in Nat /\ c.tokens <= TurnTokens
    BY TenantAssumption
  <1>4. b \in Nat /\ b <= a + c.tokens
    BY <1>1, <1>2, <1>3, SumAdded
  <1>5. PICK k, l : k = Cardinality(Active(f, t)) /\ l = Cardinality(Active(g, t))
    OBVIOUS
  <1>6. Active(f, t) \subseteq Turns
    BY DEF Active
  <1>7. IsFiniteSet(Active(f, t)) /\ k \in Nat
    BY <1>5, <1>6, ActiveCount
  <1>8. IsFiniteSet(Active(f, t) \ {u}) /\ Cardinality(Active(f, t) \ {u}) = k - 1
        /\ Cardinality(Active(f, t) \ {u}) \in Nat
    BY <1>5, <1>7, Smaller
  <1>9. l \in Nat /\ l <= k - 1
    BY <1>5, <1>8, FS_Subset, FS_CardinalityType
  <1>10. Within(a, k)
    BY <1>1, <1>5 DEF SpendingOf
  <1>11. l <= k /\ l < k /\ b <= a + TurnTokens
    BY <1>2, <1>3, <1>4, <1>7, <1>9
  <1>12. Within(b, l)
    BY <1>2, <1>4, <1>7, <1>9, <1>10, <1>11, WithinLess
  <1> QED BY <1>1, <1>5, <1>12 DEF SpendingOf

(* A turn is let through while its tenant is below its budget.             *)
LEMMA SpendingBelow ==
  ASSUME NEW a \in Nat, NEW b \in TokenBudgets, a < b, NEW f, NEW t
  PROVE  Within(a, Cardinality(Active(f, t)))
  <1>1. TurnTokens \in Nat /\ b \in Nat
    BY TenantAssumption
  <1>2. Active(f, t) \subseteq Turns
    BY DEF Active
  <1>3. PICK k, l : k = Cardinality(Active(f, t)) /\ l = Cardinality(Turns)
    OBVIOUS
  <1>4. k \in Nat /\ l \in Nat /\ k <= l
    BY <1>2, <1>3, ActiveCount
  <1>5. k * TurnTokens \in Nat /\ l * TurnTokens \in Nat /\ k * TurnTokens <= l * TurnTokens
    BY <1>1, <1>4, Times
  <1>6. a + k * TurnTokens < b + l * TurnTokens
    BY <1>1, <1>5
  <1> QED BY <1>3, <1>6 DEF Within

(* On a new day nothing was used.                                          *)
LEMMA NewDay ==
  ASSUME NEW C, NEW n \in Nat, CostsOK(C, n), NEW t
  PROVE  RowsOf(C, n + 1, t) \in {RowsOf(C, n, t), {}}
  <1>0. Day \in Nat \ {0}
    BY TenantAssumption
  <1>1. PICK d, e : d = n \div Day /\ e = (n + 1) \div Day
    OBVIOUS
  <1>2. CASE d = e
    BY <1>1, <1>2 DEF RowsOf
  <1>3. CASE d # e
    <2>1. ASSUME NEW c \in RowsOf(C, n + 1, t) PROVE FALSE
      <3>1. c.at \in Nat /\ c.at <= n /\ c.at \div Day = e
        BY <1>1, <2>1 DEF RowsOf, CostsOK
      <3>2. c.at \div Day \in Nat /\ d \in Nat /\ c.at \div Day <= d
        BY <1>0, <1>1, <3>1, DayOrder
      <3>3. n + 1 \in Nat /\ n <= n + 1
        OBVIOUS
      <3>4. e \in Nat /\ d <= e
        BY <1>0, <1>1, <3>3, DayOrder
      <3> QED BY <1>3, <3>1, <3>2, <3>4
    <2> QED BY <2>1
  <1> QED BY <1>2, <1>3

LEMMA SpendingStep ==
  ASSUME RegistryInv, SettingsInv, RateInv, MeterInv, [Next]_vars
  PROVE  Spending'
  <1>1. /\ Turned /\ TurnsTyped /\ Spending /\ CostsOK(costs, now) /\ now \in Nat
        /\ usage \in 0..TurnTokens
    BY DEF RegistryInv, CacheInv, MeterInv, RateInv, Costed, Counted
  <1>2. free \subseteq free'
    <2>1. CASE \E u \in Turns : Enforce(u)
      BY <2>1 DEF Enforce
    <2>2. CASE ~ \E u \in Turns : Enforce(u)
      <3>1. ASSUME NEW u \in Turns,
                   \/ \E t \in Tenants : Begin(u, t)
                   \/ Load(u) \/ LoadFails(u) \/ Store(u) \/ Check(u)
                   \/ GetHit(u) \/ GetMiss(u) \/ Build(u) \/ Evict(u) \/ Cancel(u)
                   \/ \E p \in Providers, broken \in BOOLEAN : Resolve(u, p, broken)
                   \/ Used(u) \/ \E tokens \in 0 .. TurnTokens : Respond(u, tokens)
                   \/ Record(u) \/ CostsFail(u)
            PROVE  free' = free
        BY <3>1 DEF Begin, Load, LoadFails, Store, Check, GetHit, GetMiss, Build, Evict,
                    Cancel, Resolve, Used, Respond, Record, CostsFail, meterVars
      <3>2. CASE \E a \in Admins : \/ \E t \in Tenants, patch \in Patches : AdminLoad(a, t, patch)
                                  \/ AdminInsert(a) \/ AdminWrite(a)
        BY <3>2 DEF AdminLoad, AdminInsert, AdminWrite, meterVars
      <3>3. CASE StoreCredentials \/ CloseAll \/ (\E i \in DOMAIN reg : CloseOne(i)) \/ Tick
                   \/ UNCHANGED vars
        BY <3>3 DEF StoreCredentials, CloseAll, CloseOne, Tick, vars, meterVars
      <3> QED BY <2>2, <3>1, <3>2, <3>3 DEF Next
    <2> QED BY <2>1, <2>2
  <1> SUFFICES ASSUME NEW t \in Tenants, t \notin free' PROVE SpendingOf(costs', now', turn', t)
    BY DEF Spending
  <1>3. SpendingOf(costs, now, turn, t)
    BY <1>1, <1>2 DEF Spending
  <1>4. ASSUME costs' = costs, now' = now, Active(turn', t) \subseteq Active(turn, t)
        PROVE  SpendingOf(costs', now', turn', t)
    BY <1>1, <1>3, <1>4, SpendingKept
  <1>5. ASSUME NEW u \in Turns, Record(u), usage # 0, costs' = costs \cup {NewRow(u)}, now' = now
        PROVE  SpendingOf(costs', now', turn', t)
    <2>1. turn' = [turn EXCEPT ![u] = IdleTurn] /\ turn[u].at = "record"
      BY <1>5 DEF Record, End, At
    <2>2. turn'[u] = IdleTurn /\ \A v \in Turns : v # u => turn'[v] = turn[v]
      BY <1>1, <2>1 DEF Turned
    <2>3. Active(turn', t) \subseteq Active(turn, t) \ {u}
      BY <2>2, IdleKnown DEF Active
    <2>4. PICK c : c = NewRow(u)
      OBVIOUS
    <2>5. c.tokens = usage /\ c.at = now /\ c.tenant = turn[u].tenant
      BY <2>4 DEF NewRow
    <2>6. CASE t = turn[u].tenant
      <3>1. RowsOf(costs', now, t) = RowsOf(costs, now, t) \cup {c}
        BY <1>5, <2>4, <2>5, <2>6 DEF RowsOf
      <3>2. u \in Active(turn, t)
        BY <2>1, <2>6 DEF Active, Spenders
      <3> QED BY <1>1, <1>3, <1>5, <2>3, <2>5, <3>1, <3>2, SpendingRecorded
    <2>7. CASE t # turn[u].tenant
      <3>1. RowsOf(costs', now, t) = RowsOf(costs, now, t)
        BY <1>5, <2>4, <2>5, <2>7 DEF RowsOf
      <3> QED BY <1>1, <1>3, <1>5, <2>3, <3>1, SpendingKept
    <2> QED BY <2>6, <2>7
  <1>6. CASE costs' = costs /\ turn' = turn /\ free' = free /\ now' = now + 1
    <2>1. RowsOf(costs, now + 1, t) \in {RowsOf(costs, now, t), {}}
      BY <1>1, NewDay
    <2> QED BY <1>1, <1>3, <1>6, <2>1, SpendingKept
  <1>7. ASSUME NEW u \in Turns, Enforce(u), costs' = costs, now' = now
        PROVE  SpendingOf(costs', now', turn', t)
    <2>1. CASE Moved(u)
      BY <1>1, <1>4, <1>7, <2>1, ActiveLess
    <2>2. ASSUME NEW q, turn' = [turn EXCEPT ![u] = q], q.tenant = turn[u].tenant,
                 ~OverBudget(turn[u].tenant, turn[u].settings)
          PROVE  SpendingOf(costs', now', turn', t)
      <3>1. turn'[u] = q /\ \A v \in Turns : v # u => turn'[v] = turn[v]
        BY <1>1, <2>2 DEF Turned
      <3>2. CASE t # turn[u].tenant
        <4>1. Active(turn', t) \subseteq Active(turn, t)
          BY <2>2, <3>1, <3>2 DEF Active
        <4> QED BY <1>4, <1>7, <4>1
      <3>3. CASE t = turn[u].tenant
        <4>1. PICK b : b = turn[u].settings.tokens
          OBVIOUS
        <4>2. b # NoBudget
          BY <1>7, <3>3, <4>1 DEF Enforce
        <4>3. b \in TokenBudgets
          BY <1>1, <4>1, <4>2 DEF TurnsTyped, TurnTyped, Budgets
        <4>4. PICK a : a = SumTokens(RowsOf(costs, now, t))
          OBVIOUS
        <4>5. a \in Nat
          BY <1>1, <4>4, RowsSummed
        <4>6. a = Today(t)
          BY <4>4 DEF Today, RowsOf
        <4>7. ~(a >= b)
          BY <2>2, <3>3, <4>1, <4>2, <4>6 DEF OverBudget
        <4>8. a < b
          BY <4>3, <4>5, <4>7, TenantAssumption
        <4>9. Within(a, Cardinality(Active(turn', t)))
          BY <4>3, <4>5, <4>8, SpendingBelow
        <4> QED BY <1>7, <4>4, <4>9 DEF SpendingOf
      <3> QED BY <3>2, <3>3
    <2> QED BY <1>1, <1>7, <2>1, <2>2, EnforceForm
  <1>8. CASE costs' = costs /\ now' = now
    <2>1. ASSUME NEW u \in Turns, Moved(u) PROVE SpendingOf(costs', now', turn', t)
      BY <1>1, <1>4, <1>8, <2>1, ActiveLess
    <2>2. CASE turn' = turn
      BY <1>4, <1>8, <2>2
    <2> QED BY <1>7, <1>8, <2>1, <2>2, TurnForms
  <1> QED BY <1>5, <1>6, <1>8, CostForms

-----------------------------------------------------------------------------
LEMMA MeterInit == Init => MeterInv
  <1> SUFFICES ASSUME Init PROVE MeterInv
    OBVIOUS
  <1>1. PICK s \in Scenarios : row = [t \in Tenants |-> s.row] /\ budget = s.budget /\ vault = s.vault
    BY DEF Init
  <1>2. /\ s.budget \in [Kinds -> Nat] /\ s.row.tokens \in Budgets
        /\ \A t \in Tenants, p \in Providers : AtMostOne(s.vault[t][p])
    BY <1>1, TenantAssumption DEF Budgets, AtMostOne
  <1>3. TurnsTyped
    BY IdleKnown DEF Init, TurnsTyped
  <1>4. AdminsTyped
    BY RowsTyped DEF Init, AdminsTyped, IdleAdmin, Patches
  <1>5. Budgeted
    BY <1>1, <1>2, RowsKnown DEF Init, Budgeted
  <1>6. Counted
    BY <1>1, <1>2, TenantAssumption DEF Init, Counted
  <1>7. Singly
    BY <1>1, <1>2 DEF Singly
  <1>8. Bounded
    <2>1. Len(reg) = 0 /\ \A u \in Turns : turn[u].at \notin Building
      BY IdleKnown DEF Init
    <2> QED BY <2>1, TenantAssumption DEF Bounded
  <1>9. Costed
    BY FS_EmptySet DEF Init, Costed, CostsOK
  <1>10. Spending
    <2> SUFFICES ASSUME NEW t \in Tenants PROVE SpendingOf(costs, now, turn, t)
      BY DEF Spending
    <2>1. RowsOf(costs, now, t) = {}
      BY DEF Init, RowsOf
    <2>2. PICK b \in TokenBudgets : TRUE
      BY TenantAssumption
    <2>3. b \in Nat /\ 0 < b
      <3>1. b \in Nat \ {0}
        BY <2>2, TenantAssumption
      <3> QED BY <3>1
    <2>4. Within(0, Cardinality(Active(turn, t)))
      BY <2>2, <2>3, SpendingBelow
    <2> QED BY <2>1, <2>4, SumEmpty DEF SpendingOf
  <1> QED BY <1>3, <1>4, <1>5, <1>6, <1>7, <1>8, <1>9, <1>10 DEF MeterInv

LEMMA MeterStep == RegistryInv /\ SettingsInv /\ RateInv /\ MeterInv /\ [Next]_vars => MeterInv'
  BY TurnsStep, BudgetedStep, CountedStep, SinglyStep, BoundedStep, CostedStep, SpendingStep
    DEF MeterInv

LEMMA MeterTyped == RegistryInv /\ SettingsInv /\ RateInv /\ MeterInv => TypeOK
  <1> SUFFICES ASSUME RegistryInv, SettingsInv, RateInv, MeterInv PROVE TypeOK
    OBVIOUS
  <1>1. row \in [Tenants -> SettingsRecord] /\ cached \in [Tenants -> SettingsRecord]
    BY DEF SettingsInv
  <1>2. \A a \in Admins : /\ admin[a].at \in {"idle", "insert", "write"}
                          /\ admin[a].patch \in Patches /\ admin[a].loaded \in SettingsRecord
    BY DEF MeterInv, AdminsTyped
  <1>3. ASSUME NEW u \in Turns
        PROVE  /\ turn[u].at \in {"idle", "load", "store", "rate", "budget", "model", "cache",
                                  "evict", "use", "record"} \cup Providers
               /\ turn[u].tenant \in Tenants /\ turn[u].settings \in SettingsRecord
               /\ turn[u].reg \in 0 .. MaxBuilt /\ turn[u].degraded \subseteq Providers
               /\ \A p \in Providers : Cardinality(turn[u].drivers[p]) <= 1
               /\ At(u, "rate") => turn[u].settings # NoRow
    <2>1. TurnTyped(turn[u])
      BY DEF MeterInv, TurnsTyped
    <2>2. turn[u].tenant \in Tenants /\ turn[u].settings \in SettingsRecord
      BY DEF RegistryInv, CacheInv, Turned, IsTurn, SettingsInv, SettingsTyped
    <2>3. \A p \in Providers : Cardinality(turn[u].drivers[p]) <= 1
      BY <2>1, OneAtMost DEF TurnTyped
    <2> QED BY <2>1, <2>2, <2>3 DEF TurnTyped, Stages, At
  <1>4. events \in [Tenants -> Seq(Nat)] /\ now \in Nat
    BY DEF RateInv, Rated, Remembered
  <1>5. usage \in 0..TurnTokens /\ budget \in [Kinds -> Nat] /\ free \subseteq Tenants
    BY DEF MeterInv, Counted
  <1>6. /\ Len(reg) <= MaxBuilt /\ ToSet(entries) \subseteq DOMAIN reg /\ closing \subseteq DOMAIN reg
        /\ lock \in Turns \cup {"free"}
    <2>1. /\ Numbered /\ Locked /\ Len(entries) \in Nat /\ DOMAIN entries = 1..Len(entries)
          /\ \A i \in 1..Len(entries) : entries[i] \in 1..Len(reg)
      BY CacheFacts
    <2>2. DOMAIN reg = 1..Len(reg)
      BY <2>1 DEF Numbered
    <2>3. ToSet(entries) \subseteq DOMAIN reg
      BY <2>1, <2>2 DEF ToSet
    <2> QED BY <2>1, <2>2, <2>3 DEF Numbered, Locked, MeterInv, Bounded
  <1>7. \A t \in Tenants, p \in Providers : Cardinality(vault[t][p]) <= 1
    BY OneAtMost DEF MeterInv, Singly
  <1> QED BY <1>1, <1>2, <1>3, <1>4, <1>5, <1>6, <1>7 DEF TypeOK

LEMMA MeterBounds == MeterInv => OvershootBounded
  <1> SUFFICES ASSUME MeterInv, NEW t \in Tenants \ free
               PROVE  \E b \in TokenBudgets : Today(t) < b + Cardinality(Turns) * TurnTokens
    BY DEF OvershootBounded
  <1>1. CostsOK(costs, now) /\ SpendingOf(costs, now, turn, t)
    BY DEF MeterInv, Costed, Spending
  <1>2. PICK a, k : a = SumTokens(RowsOf(costs, now, t)) /\ k = Cardinality(Active(turn, t))
    OBVIOUS
  <1>3. a \in Nat /\ a = Today(t)
    <2>1. a = Today(t)
      BY <1>2 DEF Today, RowsOf
    <2> QED BY <1>1, <1>2, <2>1, RowsSummed
  <1>4. Active(turn, t) \subseteq Turns
    BY DEF Active
  <1>5. k \in Nat /\ Cardinality(Turns) \in Nat
    BY <1>2, <1>4, ActiveCount
  <1>6. PICK x, z : x = k * TurnTokens /\ z = Cardinality(Turns) * TurnTokens
    OBVIOUS
  <1>7. x \in Nat /\ z \in Nat
    BY <1>5, <1>6, Times, TenantAssumption
  <1>8. PICK b \in TokenBudgets : a + x < b + z
    BY <1>1, <1>2, <1>6 DEF SpendingOf, Within
  <1>9. a < b + z
    <2>1. b \in Nat
      BY TenantAssumption
    <2> QED BY <1>3, <1>7, <1>8, <2>1
  <1> QED BY <1>3, <1>6, <1>9

(* Both quotas hold for any number of tenants and turns: the rate to the   *)
(* turn, and the tokens of a tenant whose turns were all metered up to     *)
(* what the turns past the budget check can still use, whoever's usage the *)
(* shared client last saw, whatever the settings became meanwhile, and     *)
(* across midnight (rate_limiter.py, cost_tracker.py enforce_daily_budget  *)
(* and record, orchestrator.py run_turn).                                  *)
THEOREM QuotasAlwaysHeld == Spec => []QuotasHeld
  <1>1. RegistryInv => Turned
    BY DEF RegistryInv, CacheInv
  <1>2. Spec => [](RegistryInv /\ SettingsInv /\ RateInv /\ MeterInv)
    BY <1>1, RegistryInit, RegistryStep, SettingsInit, SettingsStep, RateInit, RateStep,
       MeterInit, MeterStep, PTL DEF Spec
  <1>3. RegistryInv /\ SettingsInv /\ RateInv /\ MeterInv => TypeOK /\ OvershootBounded
    BY MeterTyped, MeterBounds
  <1>4. Spec => [](TypeOK /\ OvershootBounded)
    BY <1>2, <1>3, PTL
  <1> QED BY <1>4, RateAlwaysHeld, PTL DEF QuotasHeld
=============================================================================
