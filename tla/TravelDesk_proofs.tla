------------------------- MODULE TravelDesk_proofs --------------------------
(* Machine-checked proofs about TravelDesk: what the Amadeus driver orders, *)
(* cancels and keeps in its offer cache, for any number of concurrent       *)
(* calls, any fares, retries, lifetimes and failures.                       *)
EXTENDS TravelDesk, TLAPS

Stages == {"idle", "token", "refresh", "send", "invalidate", "fill", "lookup",
           "reprice", "drop", "done"}
CallRow == [at: Stages,
            op: {"none", "search", "create", "cancel", "read"},
            req: {"none", "search", "price", "order", "delete", "read"},
            attempts: Nat, tok: 0 .. MaxTokens,
            fares: SUBSET Fares, todo: SUBSET Fares,
            offers: SUBSET Offers, stale: SUBSET Offers,
            target: Nat, result: {"none", "ok", "error"}]

(* Inside AmadeusClient._request, and which requests each operation makes.  *)
Asking == {"token", "refresh", "send", "invalidate"}
ReqsOf(op) == CASE op = "search" -> {"search"} [] op = "create" -> {"price", "order"}
                [] op = "cancel" -> {"delete", "read"} [] op = "read" -> {"read"}
                [] OTHER -> {}

MaxAttempts == IF MaxRetries = 0 THEN 2 ELSE MaxRetries + 1
OneSearch(S) == \A f, g \in S : f[1] = g[1]
OffersOf(S) == {OfferOf(f) : f \in S}

(* What a call holds at each of its awaits.                                 *)
Shape(r) ==
    /\ r.at = "idle" => r = Idle
    /\ r.op = "none" => r.at = "idle"
    /\ r.at \in Asking => r.req \in ReqsOf(r.op)
    /\ r.at = "fill" => r.op = "search" /\ \A f \in r.todo : f[1] = r.target
    /\ r.at \in {"lookup", "reprice", "drop"} => r.op = "create"
    /\ r.op = "search" => r.target \in Searches
    /\ r.op \in {"cancel", "read"} => r.target \in OrderIds
    /\ r.op # "create" => r.fares = {}
    /\ r.attempts <= MaxAttempts
    /\ r.at = "invalidate" => r.attempts = 1
    /\ r.at \in {"lookup", "drop"} => r.todo \subseteq r.fares
    /\ r.op = "create" /\ r.at \in Asking \cup {"reprice"} => r.todo = {}
    /\ r.op = "create" /\ r.at \in Asking \cup {"lookup", "reprice"} /\ OneSearch(r.fares)
         => r.offers = OffersOf(r.fares \ r.todo)

(* A search is under way once, and its answer is quoted from then on.       *)
Searching ==
    \A c \in Calls : call[c].op = "search" =>
        /\ call[c].at \notin {"fill", "done"} => quoted[call[c].target] = 0
        /\ call[c].at = "fill" => quoted[call[c].target] # 0
        /\ \A d \in Calls : d # c /\ call[d].op = "search" => call[d].target # call[c].target

Clocked == now \in Nat \ {0} /\ \A s \in Searches : quoted[s] <= now

Uncached == \A f \in Fares : quoted[f[1]] = 0 => cache[f] = 0

(* Only fares of a search that has returned are booked.                     *)
AskedAfter ==
    /\ \A c \in Calls : \A f \in call[c].fares : Returned(f[1])
    /\ \A i \in OrderIds : \A f \in order[i].fares : Returned(f[1])

OneBooker ==
    \A c, d \in Calls : \A f \in Fares :
        Booking(c, f) /\ Booking(d, f) /\ c # d => f \in excused

(* A fare that was ordered is out of the cache, or the call that ordered it *)
(* is about to drop it; nobody has it in hand for another order.            *)
Leaving(c, f) == Booking(c, f) /\ At(c, "drop") /\ f \in call[c].todo
TakenOut ==
    \A i \in OrderIds : \A f \in order[i].fares \ excused :
        /\ \A c \in Calls : Booking(c, f) =>
              At(c, "drop") \/ (At(c, "lookup") /\ f \in call[c].todo)
        /\ cache[f] = 0 \/ \E c \in Calls : Leaving(c, f)

(* What is dropped from the cache was ordered.                              *)
Dropping ==
    \A c \in Calls : At(c, "drop") =>
        \A f \in call[c].fares : \E i \in OrderIds : f \in order[i].fares

Cancelling ==
    \A c \in Calls :
        /\ call[c].op = "cancel"
        /\ (call[c].req = "read" /\ call[c].at \in Asking) \/ (At(c, "done") /\ call[c].result = "ok")
        => order[call[c].target].state = "cancelled"

Shapes == \A c \in Calls : Shape(call[c])

FlightInv ==
    /\ TypeOK /\ Shapes /\ Clocked /\ Searching /\ Uncached /\ AskedAfter /\ OneBooker
    /\ TakenOut /\ Dropping /\ Cancelling /\ OrderedOnce /\ BookedWhatWasAsked

(* What search_flights has shown, and what a search is putting in the cache.*)
Ordered(f) == \E i \in OrderIds : f \in order[i].fares
Lasting(f) == f \in unkept \/ cache[f] >= quoted[f[1]] + OfferTtl

Filling ==
    \A c \in Calls : At(c, "fill") =>
        \A f \in Fares : f[1] = call[c].target =>
            IF f \in call[c].todo THEN cache[f] = 0 ELSE Lasting(f)

ToldTyped == told \in [fares: SUBSET Fares, status: [OrderIds -> {"none", "live", "cancelled"}],
                       refused: BOOLEAN]

Showing ==
    \A f \in told.fares : quoted[f[1]] # 0 /\ (Lasting(f) \/ Ordered(f))

DeskInv == FlightInv /\ ToldTyped /\ Filling /\ Showing
-----------------------------------------------------------------------------
(* Types.                                                                   *)

OrderRow == [state: {"none", "live", "cancelled"}, offers: SUBSET Offers,
             fares: SUBSET Fares]
VendorTyped ==
    /\ token \in 0 .. MaxTokens /\ lock \in Calls \cup {"free"}
    /\ minted \in 0 .. MaxTokens /\ good \subseteq 1 .. MaxTokens
    /\ budget \in [Kinds -> Nat]

LEMMA Typed ==
  ASSUME TypeOK
  PROVE  /\ call \in [Calls -> CallRow] /\ cache \in [Fares -> Nat]
         /\ quoted \in [Searches -> Nat] /\ VendorTyped
         /\ order \in [OrderIds -> OrderRow] /\ now \in Nat /\ excused \subseteq Fares
  BY DEF TypeOK, CallRow, Stages, OrderRow, VendorTyped

LEMMA TypedNext ==
  ASSUME call' \in [Calls -> CallRow], cache' \in [Fares -> Nat],
         quoted' \in [Searches -> Nat], VendorTyped',
         order' \in [OrderIds -> OrderRow], now' \in Nat, excused' \subseteq Fares
  PROVE  TypeOK'
  BY DEF TypeOK, CallRow, Stages, OrderRow, VendorTyped

LEMMA SpendTyped ==
  ASSUME VendorTyped, NEW k \in Kinds, Spend(k)
  PROVE  budget' \in [Kinds -> Nat]
  BY DEF VendorTyped, Spend

LEMMA FareFacts ==
  ASSUME NEW f \in Fares
  PROVE  f[1] \in Searches /\ OfferOf(f) \in Offers
  BY DEF Searches, Offers

(* The rows the driver makes of a call.                                     *)
LEMMA IdleRow == Idle \in CallRow /\ Shape(Idle)
  BY FlightAssumption DEF Idle, CallRow, Stages, Shape, Asking, ReqsOf, MaxAttempts

LEMMA FinishRow ==
  ASSUME NEW r \in CallRow, Shape(r), r.op # "none", NEW o \in {"ok", "error"}
  PROVE  /\ Finish(r, o) \in CallRow /\ Shape(Finish(r, o))
         /\ Finish(r, o).at = "done" /\ Finish(r, o).op = r.op
         /\ Finish(r, o).target = r.target /\ Finish(r, o).fares = r.fares
         /\ Finish(r, o).todo = {} /\ Finish(r, o).result = o
  <1>1. PICK q : q = Finish(r, o)
    OBVIOUS
  <1>2. /\ q.at = "done" /\ q.op = r.op /\ q.target = r.target /\ q.fares = r.fares
        /\ q.todo = {} /\ q.result = o /\ q.attempts = 0
    BY <1>1 DEF Finish, Idle, CallRow
  <1>3. q \in CallRow
    BY <1>1, IdleRow DEF Finish, CallRow, Stages
  <1>4. Shape(q)
    BY <1>2, FlightAssumption DEF Shape, Asking, MaxAttempts
  <1> QED BY <1>1, <1>2, <1>3, <1>4

LEMMA RaiseRow ==
  ASSUME NEW r \in CallRow, Shape(r), r.op # "none"
  PROVE  /\ Raise(r) \in CallRow /\ Shape(Raise(r))
         /\ Raise(r).at = "done" /\ Raise(r).op = r.op
         /\ Raise(r).target = r.target /\ Raise(r).fares = r.fares
         /\ Raise(r).todo = {}
         /\ Raise(r).result = "ok" => r.req = "read" /\ r.op = "cancel"
  BY FinishRow DEF Raise

LEMMA RequestRow ==
  ASSUME NEW r \in CallRow, Shape(r), r.op # "none", NEW k \in ReqsOf(r.op),
         r.op = "create" => r.at = "reprice"
  PROVE  /\ Request(r, k) \in CallRow /\ Shape(Request(r, k))
         /\ Request(r, k).at = "token" /\ Request(r, k).op = r.op
         /\ Request(r, k).target = r.target /\ Request(r, k).fares = r.fares
         /\ Request(r, k).req = k
  <1>1. PICK q : q = Request(r, k)
    OBVIOUS
  <1>2. /\ q.at = "token" /\ q.op = r.op /\ q.target = r.target /\ q.fares = r.fares
        /\ q.todo = r.todo /\ q.offers = r.offers /\ q.attempts = 1 /\ q.req = k
    BY <1>1 DEF Request, CallRow
  <1>3. k \in {"search", "price", "order", "delete", "read"}
    BY DEF ReqsOf, CallRow
  <1>4. q \in CallRow
    BY <1>1, <1>3 DEF Request, CallRow, Stages
  <1>5. 1 <= MaxAttempts
    BY FlightAssumption DEF MaxAttempts
  <1>6. Shape(q)
    BY <1>2, <1>5 DEF Shape, Asking
  <1> QED BY <1>1, <1>2, <1>4, <1>6

LEMMA AgainRow ==
  ASSUME NEW r \in CallRow, Shape(r), r.at \in {"send", "invalidate"},
         r.at = "invalidate" \/ ShouldRetry(r)
  PROVE  /\ Again(r) \in CallRow /\ Shape(Again(r))
         /\ Again(r).at = "token" /\ Again(r).op = r.op
         /\ Again(r).target = r.target /\ Again(r).fares = r.fares /\ Again(r).req = r.req
  <1>1. PICK q : q = Again(r)
    OBVIOUS
  <1>2. /\ q.at = "token" /\ q.op = r.op /\ q.target = r.target /\ q.fares = r.fares
        /\ q.todo = r.todo /\ q.offers = r.offers /\ q.attempts = r.attempts + 1
        /\ q.req = r.req
    BY <1>1 DEF Again, CallRow
  <1>3. r.attempts \in Nat /\ r.attempts + 1 \in Nat
    BY DEF CallRow
  <1>4. q \in CallRow
    <2>1. PICK n : n = r.attempts + 1
      OBVIOUS
    <2>2. n \in Nat /\ q = [r EXCEPT !.at = "token", !.attempts = n]
      BY <1>1, <1>3, <2>1 DEF Again
    <2> QED BY <2>2 DEF CallRow, Stages
  <1>5. r.attempts + 1 <= MaxAttempts
    BY <1>3, FlightAssumption DEF MaxAttempts, ShouldRetry, Shape
  <1>6. Shape(q)
    BY <1>2, <1>5 DEF Shape, Asking
  <1> QED BY <1>1, <1>2, <1>4, <1>6
-----------------------------------------------------------------------------
(* A call moves on and nobody else notices.                                 *)

Onward(r, q) ==
    /\ r.op # "none" /\ q.op = r.op /\ q.target = r.target /\ q.fares = r.fares
    /\ r.at # "done" /\ q.at \notin {"drop", "idle"}
    /\ q.at = "fill" => r.at = "fill"
    /\ r.at = "fill" => q.at \in {"fill", "done"}
    /\ r.at = "drop" => q.at = "done" /\ r.todo = {}
    /\ q.at = "lookup" => r.at = "lookup" /\ \A f \in r.todo \ q.todo : Cached(f)
    /\ r.at = "lookup" => q.at \in {"lookup", "done"} \/ r.todo = {}

CancelHolds(q) ==
    /\ q.op = "cancel"
    /\ (q.req = "read" /\ q.at \in Asking) \/ (q.at = "done" /\ q.result = "ok")
    => order[q.target].state = "cancelled"

(* Orders keep what they are for, and cancelled ones stay cancelled.        *)
OrdersKept ==
    /\ order' \in [OrderIds -> OrderRow]
    /\ \A i \in OrderIds : /\ order'[i].fares = order[i].fares
                           /\ order'[i].offers = order[i].offers
                           /\ order[i].state = "cancelled" => order'[i].state = "cancelled"

LEMMA OthersStay ==
  ASSUME TypeOK, NEW c \in Calls, NEW q \in CallRow, call' = [call EXCEPT ![c] = q]
  PROVE  /\ call' \in [Calls -> CallRow] /\ call'[c] = q
         /\ \A d \in Calls : d # c => call'[d] = call[d]
  BY Typed

LEMMA ShapesStay ==
  ASSUME TypeOK, Shapes, NEW c \in Calls, NEW q \in CallRow, Shape(q),
         call' = [call EXCEPT ![c] = q]
  PROVE  Shapes'
  BY OthersStay DEF Shapes

LEMMA BookingMove ==
  ASSUME TypeOK, NEW c \in Calls, NEW q \in CallRow, call' = [call EXCEPT ![c] = q],
         NEW f
  PROVE  /\ Booking(c, f)' <=> q.op = "create" /\ f \in q.fares /\ q.at # "done"
         /\ \A d \in Calls : d # c => (Booking(d, f)' <=> Booking(d, f))
         /\ \A d \in Calls : d # c => (Leaving(d, f)' <=> Leaving(d, f))
         /\ Leaving(c, f)' <=> q.op = "create" /\ f \in q.fares /\ q.at = "drop" /\ f \in q.todo
         /\ Leaving(c, f) <=> Booking(c, f) /\ call[c].at = "drop" /\ f \in call[c].todo
  BY OthersStay DEF Booking, Leaving, At

LEMMA QuietMove ==
  ASSUME FlightInv, NEW c \in Calls, NEW q \in CallRow, Shape(q), Onward(call[c], q),
         CancelHolds(q)', call' = [call EXCEPT ![c] = q], VendorTyped', OrdersKept,
         UNCHANGED <<cache, quoted, excused, now>>
  PROVE  FlightInv'
  <1>1. /\ TypeOK /\ Shapes /\ Shape(call[c]) /\ call[c] \in CallRow
        /\ OneBooker /\ TakenOut /\ Dropping /\ Searching /\ AskedAfter /\ Cancelling
    BY Typed DEF FlightInv, Shapes
  <1>2. PICK r : r = call[c]
    OBVIOUS
  <1>3. /\ r.op # "none" /\ q.op = r.op /\ q.target = r.target /\ q.fares = r.fares
        /\ r.at # "done" /\ q.at \notin {"drop", "idle"}
        /\ q.at = "fill" => r.at = "fill"
        /\ r.at = "fill" => q.at \in {"fill", "done"}
        /\ r.at = "drop" => q.at = "done" /\ r.todo = {}
        /\ q.at = "lookup" => r.at = "lookup" /\ \A f \in r.todo \ q.todo : Cached(f)
        /\ r.at = "lookup" => q.at \in {"lookup", "done"} \/ r.todo = {}
    BY <1>2 DEF Onward
  <1>4. TypeOK'
    BY <1>1, OthersStay, Typed, TypedNext DEF OrdersKept
  <1>5. Shapes'
    BY <1>1, ShapesStay
  <1>6. Clocked' /\ Uncached'
    BY DEF FlightInv, Clocked, Uncached
  <1>7. Searching'
    BY <1>1, <1>2, <1>3, OthersStay DEF Searching
  <1>8. AskedAfter'
    <2>1. \A s : Returned(s) => Returned(s)'
      BY <1>1, <1>2, <1>3, OthersStay DEF Returned
    <2> QED BY <1>1, <1>2, <1>3, <2>1, OthersStay DEF AskedAfter, OrdersKept
  <1>9. \A d \in Calls : \A f : Booking(d, f)' => Booking(d, f)
    BY <1>1, <1>2, <1>3, BookingMove DEF Booking, At
  <1>10. OneBooker'
    BY <1>1, <1>9 DEF OneBooker
  <1>11. TakenOut'
    <2> SUFFICES ASSUME NEW i \in OrderIds, NEW f \in order[i].fares \ excused
                 PROVE  /\ \A d \in Calls : Booking(d, f)' =>
                              At(d, "drop")' \/ (At(d, "lookup")' /\ f \in call'[d].todo)
                        /\ cache[f] = 0 \/ \E d \in Calls : Leaving(d, f)'
      BY DEF TakenOut, OrdersKept
    <2>1. f \in Fares
      BY <1>1, Typed DEF OrderRow
    <2>2. /\ \A d \in Calls : Booking(d, f) =>
                At(d, "drop") \/ (At(d, "lookup") /\ f \in call[d].todo)
          /\ cache[f] = 0 \/ \E d \in Calls : Leaving(d, f)
      BY <1>1 DEF TakenOut
    <2>3. ASSUME NEW d \in Calls, Leaving(d, f) PROVE Leaving(d, f)'
      BY <1>1, <1>2, <1>3, <2>3, BookingMove DEF Leaving, At
    <2>4. cache[f] = 0 \/ \E d \in Calls : Leaving(d, f)'
      BY <2>2, <2>3
    <2>5. ASSUME NEW d \in Calls, d # c, Booking(d, f)'
          PROVE  At(d, "drop")' \/ (At(d, "lookup")' /\ f \in call'[d].todo)
      BY <1>1, <1>9, <2>2, <2>5, OthersStay DEF At
    <2>6. ASSUME Booking(c, f)' PROVE q.at = "lookup" /\ f \in q.todo
      <3>1. Booking(c, f) /\ q.at # "done"
        BY <1>1, <1>9, <2>6, BookingMove
      <3>2. r.at = "lookup" /\ f \in r.todo
        BY <1>2, <1>3, <2>2, <3>1 DEF At
      <3>3. q.at = "lookup"
        BY <1>3, <3>1, <3>2
      <3>4. ~Cached(f)
        <4>1. SUFFICES ASSUME Cached(f) PROVE FALSE
          OBVIOUS
        <4>2. cache[f] # 0
          BY <1>1, <4>1, <2>1, Typed DEF Cached
        <4>3. PICK d \in Calls : Leaving(d, f)
          BY <2>2, <4>2
        <4>4. d # c
          BY <1>2, <3>2, <4>3 DEF Leaving, At
        <4> QED BY <1>1, <2>1, <3>1, <4>3, <4>4 DEF OneBooker, Leaving
      <3> QED BY <1>3, <3>2, <3>3, <3>4
    <2>7. Booking(c, f)' => At(c, "lookup")' /\ f \in call'[c].todo
      BY <1>1, <2>6, OthersStay DEF At
    <2> QED BY <2>4, <2>5, <2>7
  <1>12. Dropping'
    BY <1>1, <1>3, OthersStay DEF Dropping, At, OrdersKept
  <1>13. Cancelling'
    <2>1. \A d \in Calls : call[d].op = "cancel" => call[d].target \in OrderIds
      BY <1>1 DEF Shapes, Shape
    <2> SUFFICES ASSUME NEW d \in Calls, call'[d].op = "cancel",
                        \/ call'[d].req = "read" /\ call'[d].at \in Asking
                        \/ call'[d].at = "done" /\ call'[d].result = "ok"
                 PROVE  order'[call'[d].target].state = "cancelled"
      BY DEF Cancelling, At
    <2>2. CASE d # c
      <3>1. call'[d] = call[d]
        BY <1>1, <2>2, OthersStay
      <3>2. order[call[d].target].state = "cancelled"
        BY <1>1, <3>1 DEF Cancelling, At
      <3> QED BY <2>1, <3>1, <3>2 DEF OrdersKept
    <2>3. CASE d = c
      <3>1. call'[d] = q
        BY <1>1, <2>3, OthersStay
      <3> QED BY <3>1 DEF CancelHolds
    <2> QED BY <2>2, <2>3
  <1>14. OrderedOnce' /\ BookedWhatWasAsked'
    BY DEF FlightInv, OrderedOnce, BookedWhatWasAsked, OrdersKept
  <1> QED
    BY <1>4, <1>5, <1>6, <1>7, <1>8, <1>10, <1>11, <1>12, <1>13, <1>14 DEF FlightInv
(* A new call.                                                              *)
LEMMA BeginMove ==
  ASSUME FlightInv, NEW c \in Calls, NEW q \in CallRow, Shape(q), At(c, "idle"),
         q.at = "lookup" \/ (q.at = "token" /\ q.op # "create"), CancelHolds(q),
         q.at = "lookup" => q.op = "create" /\ q.todo = q.fares,
         \A f \in q.fares : Returned(f[1]),
         q.op = "search" => /\ quoted[q.target] = 0
                            /\ \A d \in Calls : call[d].op = "search" => call[d].target # q.target,
         excused' = excused \cup {f \in q.fares : \E d \in Calls : Booking(d, f)},
         call' = [call EXCEPT ![c] = q], VendorTyped',
         UNCHANGED <<cache, quoted, order, now>>
  PROVE  FlightInv'
  <1>1. /\ TypeOK /\ Shapes /\ Shape(call[c]) /\ call[c] \in CallRow /\ call[c] = Idle
        /\ OneBooker /\ TakenOut /\ Dropping /\ Searching /\ AskedAfter /\ Cancelling
    BY Typed DEF FlightInv, Shapes, Shape, At
  <1>2. call[c].op = "none" /\ call[c].fares = {} /\ call[c].at = "idle"
    BY <1>1 DEF Idle
  <1>3. q.at \in {"token", "lookup"} /\ q.fares \subseteq Fares
    BY DEF CallRow
  <1>4. TypeOK'
    <2>1. excused' \subseteq Fares
      BY <1>1, <1>3, Typed
    <2> QED BY <1>1, <2>1, OthersStay, Typed, TypedNext
  <1>5. Shapes'
    BY <1>1, ShapesStay
  <1>6. Clocked' /\ Uncached'
    BY DEF FlightInv, Clocked, Uncached
  <1>7. Searching'
    BY <1>1, <1>3, OthersStay DEF Searching
  <1>8. AskedAfter'
    <2>1. \A s : Returned(s) => Returned(s)'
      BY <1>1, OthersStay DEF Returned
    <2> QED BY <1>1, <2>1, OthersStay DEF AskedAfter
  <1>9. \A f : ~Booking(c, f)
    BY <1>2 DEF Booking
  <1>10. OneBooker'
    <2> SUFFICES ASSUME NEW d \in Calls, NEW e \in Calls, NEW f \in Fares,
                        Booking(d, f)', Booking(e, f)', d # e
                 PROVE  f \in excused'
      BY DEF OneBooker
    <2>1. CASE d # c /\ e # c
      BY <1>1, <2>1, BookingMove DEF OneBooker
    <2>2. CASE d = c
      BY <1>1, <2>2, BookingMove
    <2>3. CASE e = c
      BY <1>1, <2>3, BookingMove
    <2> QED BY <2>1, <2>2, <2>3
  <1>11. TakenOut'
    <2> SUFFICES ASSUME NEW i \in OrderIds, NEW f \in order[i].fares \ excused
                 PROVE  /\ \A d \in Calls : Booking(d, f)' =>
                              At(d, "drop")' \/ (At(d, "lookup")' /\ f \in call'[d].todo)
                        /\ cache[f] = 0 \/ \E d \in Calls : Leaving(d, f)'
      BY DEF TakenOut
    <2>1. /\ \A d \in Calls : Booking(d, f) =>
                At(d, "drop") \/ (At(d, "lookup") /\ f \in call[d].todo)
          /\ cache[f] = 0 \/ \E d \in Calls : Leaving(d, f)
      BY <1>1 DEF TakenOut
    <2>2. \A d \in Calls : Leaving(d, f) => Leaving(d, f)'
      <3>1. ~Leaving(c, f)
        BY <1>9 DEF Leaving
      <3> QED BY <1>1, <3>1, BookingMove
    <2>3. ASSUME NEW d \in Calls, d # c, Booking(d, f)'
          PROVE  At(d, "drop")' \/ (At(d, "lookup")' /\ f \in call'[d].todo)
      <3>1. call'[d] = call[d]
        BY <1>1, <2>3, OthersStay
      <3>2. Booking(d, f)
        BY <1>1, <2>3, BookingMove
      <3> QED BY <2>1, <3>1, <3>2 DEF At
    <2>4. Booking(c, f)' => At(c, "lookup")' /\ f \in call'[c].todo
      <3>1. call'[c] = q
        BY <1>1, OthersStay
      <3>2. Booking(c, f)' => q.op = "create" /\ f \in q.fares
        BY <1>1, BookingMove
      <3> QED BY <3>1, <3>2 DEF At
    <2> QED BY <2>1, <2>2, <2>3, <2>4
  <1>12. Dropping'
    BY <1>1, <1>3, OthersStay DEF Dropping, At
  <1>13. Cancelling'
    BY <1>1, OthersStay DEF Cancelling, CancelHolds, At
  <1>14. OrderedOnce' /\ BookedWhatWasAsked'
    BY DEF FlightInv, OrderedOnce, BookedWhatWasAsked
  <1> QED
    BY <1>4, <1>5, <1>6, <1>7, <1>8, <1>10, <1>11, <1>12, <1>13, <1>14 DEF FlightInv

(* The caller takes the result.                                             *)
LEMMA ReturnMove ==
  ASSUME FlightInv, NEW c \in Calls, Return(c)
  PROVE  FlightInv'
  <1>1. /\ TypeOK /\ Shapes /\ call[c].at = "done" /\ call' = [call EXCEPT ![c] = Idle]
        /\ OneBooker /\ TakenOut /\ Dropping /\ Searching /\ AskedAfter /\ Cancelling
        /\ UNCHANGED <<cache, quoted, token, lock, minted, good, order, now, budget, excused>>
    BY DEF FlightInv, Return, Set, At, vendor
  <1>2. Idle.op = "none" /\ Idle.fares = {} /\ Idle.at = "idle"
    BY DEF Idle
  <1>3. Idle \in CallRow /\ Shape(Idle)
    BY IdleRow
  <1>4. TypeOK'
    BY <1>1, <1>3, OthersStay, Typed, TypedNext DEF VendorTyped
  <1>5. Shapes'
    BY <1>1, <1>3, ShapesStay
  <1>6. Clocked' /\ Uncached'
    BY <1>1 DEF FlightInv, Clocked, Uncached
  <1>7. Searching'
    BY <1>1, <1>2, <1>3, OthersStay DEF Searching
  <1>8. AskedAfter'
    <2>1. \A s : Returned(s) => Returned(s)'
      BY <1>1, <1>2, <1>3, OthersStay DEF Returned
    <2> QED BY <1>1, <1>2, <1>3, <2>1, OthersStay DEF AskedAfter
  <1>9. \A d \in Calls : \A f : (Booking(d, f)' <=> Booking(d, f)) /\ (Leaving(d, f)' <=> Leaving(d, f))
    BY <1>1, <1>2, <1>3, BookingMove DEF Booking, Leaving, At
  <1>10. OneBooker'
    BY <1>1, <1>9 DEF OneBooker
  <1>11. TakenOut'
    BY <1>1, <1>2, <1>3, <1>9, OthersStay DEF TakenOut, At, Booking
  <1>12. Dropping'
    BY <1>1, <1>2, <1>3, OthersStay DEF Dropping, At
  <1>13. Cancelling'
    BY <1>1, <1>2, <1>3, OthersStay DEF Cancelling, At
  <1>14. OrderedOnce' /\ BookedWhatWasAsked'
    BY <1>1 DEF FlightInv, OrderedOnce, BookedWhatWasAsked
  <1> QED
    BY <1>4, <1>5, <1>6, <1>7, <1>8, <1>10, <1>11, <1>12, <1>13, <1>14 DEF FlightInv
(* The cache is filled for, or emptied of, a fare whose call stays where it *)
(* is.                                                                      *)
LEMMA CacheMove ==
  ASSUME FlightInv, NEW c \in Calls, NEW q \in CallRow, Shape(q), NEW f \in Fares,
         f \in call[c].todo, NEW n \in Nat, NEW X \in SUBSET {f},
         q.op = call[c].op, q.target = call[c].target, q.fares = call[c].fares,
         q.at = call[c].at, q.todo = call[c].todo \ {f},
         \/ At(c, "fill") /\ X = {}
         \/ At(c, "drop") /\ n = 0 /\ X = {}
         \/ At(c, "drop") /\ n = cache[f] /\ X = {f},
         call' = [call EXCEPT ![c] = q], cache' = [cache EXCEPT ![f] = n],
         excused' = excused \cup X, VendorTyped',
         UNCHANGED <<quoted, order, now>>
  PROVE  FlightInv'
  <1>1. /\ TypeOK /\ Shapes /\ Shape(call[c]) /\ call[c] \in CallRow
        /\ OneBooker /\ TakenOut /\ Dropping /\ Searching /\ AskedAfter /\ Cancelling
        /\ Uncached
    BY Typed DEF FlightInv, Shapes
  <1>2. call[c].at \in {"fill", "drop"}
    BY DEF At
  <1>3. cache' \in [Fares -> Nat] /\ cache'[f] = n /\ \A g \in Fares : g # f => cache'[g] = cache[g]
    BY <1>1, Typed
  <1>4. TypeOK'
    BY <1>1, <1>3, OthersStay, Typed, TypedNext
  <1>5. Shapes'
    BY <1>1, ShapesStay
  <1>6. quoted[f[1]] # 0
    <2>1. CASE At(c, "fill")
      <3>1. call[c].op = "search" /\ f[1] = call[c].target
        BY <1>1, <2>1 DEF Shape, At
      <3> QED BY <1>1, <2>1, <3>1 DEF Searching, At
    <2>2. CASE At(c, "drop")
      <3>1. f \in call[c].fares
        BY <1>1, <2>2 DEF Shape, At
      <3> QED BY <1>1, <3>1 DEF AskedAfter, Returned
    <2> QED BY <1>2, <2>1, <2>2 DEF At
  <1>7. Clocked' /\ Uncached'
    BY <1>1, <1>3, <1>6 DEF FlightInv, Clocked, Uncached
  <1>8. Searching'
    BY <1>1, OthersStay DEF Searching
  <1>9. AskedAfter'
    <2>1. \A s : Returned(s) => Returned(s)'
      BY <1>1, OthersStay DEF Returned
    <2> QED BY <1>1, <2>1, OthersStay DEF AskedAfter
  <1>10. \A d \in Calls : \A g : Booking(d, g)' <=> Booking(d, g)
    BY <1>1, BookingMove DEF Booking, At
  <1>11. OneBooker'
    BY <1>1, <1>10 DEF OneBooker
  <1>12. TakenOut'
    <2> SUFFICES ASSUME NEW i \in OrderIds, NEW g \in order[i].fares \ excused, g \notin X
                 PROVE  /\ \A d \in Calls : Booking(d, g)' =>
                              At(d, "drop")' \/ (At(d, "lookup")' /\ g \in call'[d].todo)
                        /\ cache'[g] = 0 \/ \E d \in Calls : Leaving(d, g)'
      BY DEF TakenOut
    <2>1. g \in Fares
      BY <1>1, Typed DEF OrderRow
    <2>2. /\ \A d \in Calls : Booking(d, g) =>
                At(d, "drop") \/ (At(d, "lookup") /\ g \in call[d].todo)
          /\ cache[g] = 0 \/ \E d \in Calls : Leaving(d, g)
      BY <1>1 DEF TakenOut
    <2>3. \A d \in Calls : Booking(d, g)' =>
              At(d, "drop")' \/ (At(d, "lookup")' /\ g \in call'[d].todo)
      BY <1>1, <1>2, <1>10, <2>2, OthersStay DEF At
    <2>4. CASE g = f
      <3>1. ~At(c, "fill")
        <4>1. SUFFICES ASSUME At(c, "fill") PROVE FALSE
          OBVIOUS
        <4>2. call[c].op = "search" /\ f[1] = call[c].target
          BY <1>1, <4>1 DEF Shape, At
        <4>3. Returned(f[1])
          BY <1>1, <2>4 DEF AskedAfter
        <4> QED BY <4>2, <4>3 DEF Returned
      <3> QED BY <1>3, <2>3, <2>4, <3>1
    <2>5. CASE g # f
      <3>1. ASSUME NEW d \in Calls, Leaving(d, g) PROVE Leaving(d, g)'
        BY <1>1, <1>10, <2>5, <3>1, OthersStay DEF Leaving, At
      <3> QED BY <1>3, <2>1, <2>2, <2>3, <2>5, <3>1
    <2> QED BY <2>4, <2>5
  <1>13. Dropping'
    BY <1>1, OthersStay DEF Dropping, At
  <1>14. Cancelling'
    BY <1>1, <1>2, OthersStay DEF Cancelling, At, Shape
  <1>15. OrderedOnce' /\ BookedWhatWasAsked'
    BY DEF FlightInv, OrderedOnce, BookedWhatWasAsked
  <1> QED
    BY <1>4, <1>5, <1>7, <1>8, <1>9, <1>11, <1>12, <1>13, <1>14, <1>15 DEF FlightInv

(* The vendor has answered a search.                                        *)
LEMMA QuoteMove ==
  ASSUME FlightInv, NEW c \in Calls, NEW q \in CallRow, Shape(q),
         call[c].op = "search", call[c].at \in Asking,
         q.op = "search", q.target = call[c].target, q.fares = call[c].fares, q.at = "fill",
         call' = [call EXCEPT ![c] = q], quoted' = [quoted EXCEPT ![call[c].target] = now],
         VendorTyped', UNCHANGED <<cache, order, now, excused>>
  PROVE  FlightInv'
  <1>1. /\ TypeOK /\ Shapes /\ Shape(call[c]) /\ call[c] \in CallRow
        /\ OneBooker /\ TakenOut /\ Dropping /\ Searching /\ AskedAfter /\ Cancelling
        /\ Uncached /\ Clocked
    BY Typed DEF FlightInv, Shapes
  <1>2. PICK s : s = call[c].target
    OBVIOUS
  <1>3. /\ s \in Searches /\ quoted' \in [Searches -> Nat] /\ quoted'[s] = now
        /\ \A x \in Searches : x # s => quoted'[x] = quoted[x]
    BY <1>1, <1>2, Typed DEF Shape
  <1>4. now \in Nat \ {0}
    BY <1>1 DEF Clocked
  <1>5. TypeOK' /\ Shapes'
    BY <1>1, <1>3, OthersStay, ShapesStay, Typed, TypedNext
  <1>6. Clocked'
    BY <1>1, <1>3, <1>4, Typed DEF Clocked
  <1>7. Uncached'
    <2>1. \A f \in Fares : f[1] \in Searches
      BY FareFacts
    <2> QED BY <1>1, <1>3, <1>4, <2>1 DEF Uncached
  <1>8. Searching'
    <2>1. \A d \in Calls : call[d].op = "search" => call[d].target \in Searches
      BY <1>1 DEF Shapes, Shape
    <2>2. \A d \in Calls : d # c /\ call[d].op = "search" => call[d].target # s
      BY <1>1, <1>2 DEF Searching
    <2>3. \A d \in Calls : d # c /\ call[d].op = "search" =>
              quoted'[call[d].target] = quoted[call[d].target]
      BY <1>3, <2>1, <2>2
    <2>4. /\ call'[c].op = "search" /\ call'[c].target = s /\ call'[c].at = "fill"
          /\ \A d \in Calls : d # c => call'[d] = call[d]
      BY <1>1, <1>2, OthersStay
    <2>5. quoted'[s] # 0
      BY <1>3, <1>4
    <2>6. \A d, e \in Calls : d # e /\ call'[d].op = "search" /\ call'[e].op = "search" =>
              call'[d].target # call'[e].target
      BY <1>1, <2>2, <2>4 DEF Searching
    <2>7. \A d \in Calls : call'[d].op = "search" =>
              /\ call'[d].at \notin {"fill", "done"} => quoted'[call'[d].target] = 0
              /\ call'[d].at = "fill" => quoted'[call'[d].target] # 0
      BY <1>1, <2>3, <2>4, <2>5 DEF Searching
    <2> QED BY <2>6, <2>7 DEF Searching
  <1>9. AskedAfter'
    <2>1. \A x \in Searches : Returned(x) => Returned(x)'
      BY <1>1, <1>2, <1>3, <1>4, OthersStay DEF Returned
    <2>2. \A f \in Fares : f[1] \in Searches
      BY FareFacts
    <2>3. /\ \A d \in Calls : call'[d].fares = call[d].fares /\ call[d].fares \subseteq Fares
          /\ \A i \in OrderIds : order[i].fares \subseteq Fares
      BY <1>1, OthersStay, Typed DEF CallRow, OrderRow
    <2> QED BY <1>1, <2>1, <2>2, <2>3 DEF AskedAfter
  <1>10. \A d \in Calls : \A f : (Booking(d, f)' <=> Booking(d, f)) /\ (Leaving(d, f)' <=> Leaving(d, f))
    BY <1>1, BookingMove DEF Booking, Leaving
  <1>11. OneBooker'
    BY <1>1, <1>10 DEF OneBooker
  <1>12. TakenOut'
    <2>1. \A f : ~Booking(c, f)
      BY DEF Booking
    <2>2. \A d \in Calls : \A f : Booking(d, f)' => call'[d] = call[d]
      BY <1>1, <1>10, <2>1, OthersStay
    <2> SUFFICES ASSUME NEW i \in OrderIds, NEW f \in order[i].fares \ excused
                 PROVE  /\ \A d \in Calls : Booking(d, f)' =>
                              At(d, "drop")' \/ (At(d, "lookup")' /\ f \in call'[d].todo)
                        /\ cache[f] = 0 \/ \E d \in Calls : Leaving(d, f)'
      BY DEF TakenOut
    <2>3. /\ \A d \in Calls : Booking(d, f) =>
                At(d, "drop") \/ (At(d, "lookup") /\ f \in call[d].todo)
          /\ cache[f] = 0 \/ \E d \in Calls : Leaving(d, f)
      BY <1>1 DEF TakenOut
    <2> QED BY <1>10, <2>2, <2>3 DEF At
  <1>13. Dropping' /\ Cancelling'
    BY <1>1, OthersStay DEF Dropping, Cancelling, At
  <1>14. OrderedOnce' /\ BookedWhatWasAsked'
    BY DEF FlightInv, OrderedOnce, BookedWhatWasAsked
  <1> QED
    BY <1>5, <1>6, <1>7, <1>8, <1>9, <1>11, <1>12, <1>13, <1>14 DEF FlightInv
(* The vendor makes an order.  Its answer comes, and the fares are about to *)
(* be dropped, or does not, and they are excused.                           *)
LEMMA OrderMove ==
  ASSUME FlightInv, NEW c \in Calls, NEW q \in CallRow, Shape(q), NEW X \in SUBSET Fares,
         call[c].op = "create", call[c].at = "send",
         q.op = "create", q.target = call[c].target, q.fares = call[c].fares,
         \/ q.at = "drop" /\ q.todo = q.fares /\ X = {}
         \/ q.at \in {"token", "done"} /\ X = q.fares,
         call' = [call EXCEPT ![c] = q], excused' = excused \cup X,
         NEW i \in OrderIds, order[i] = NoOrder,
         order' = [order EXCEPT ![i] = [state |-> "live", offers |-> call[c].offers,
                                        fares |-> call[c].fares]],
         VendorTyped', UNCHANGED <<cache, quoted, now>>
  PROVE  FlightInv'
  <1>1. /\ TypeOK /\ Shapes /\ Shape(call[c]) /\ call[c] \in CallRow
        /\ OneBooker /\ TakenOut /\ Dropping /\ Searching /\ AskedAfter /\ Cancelling
        /\ OrderedOnce /\ BookedWhatWasAsked
    BY Typed DEF FlightInv, Shapes
  <1>2. PICK F : F = call[c].fares
    OBVIOUS
  <1>3. F \subseteq Fares /\ call[c].offers \subseteq Offers
    BY <1>1, <1>2 DEF CallRow
  <1>4. /\ order' \in [OrderIds -> OrderRow] /\ order'[i].fares = F
        /\ order'[i].offers = call[c].offers /\ order'[i].state = "live"
        /\ \A j \in OrderIds : j # i => order'[j] = order[j]
    BY <1>1, <1>2, <1>3, Typed DEF OrderRow
  <1>5. order[i].fares = {} /\ order[i].state = "none"
    BY DEF NoOrder
  <1>6. TypeOK' /\ Shapes'
    BY <1>1, <1>4, OthersStay, ShapesStay, Typed, TypedNext
  <1>7. Clocked' /\ Uncached'
    BY DEF FlightInv, Clocked, Uncached
  <1>8. Searching'
    BY <1>1, OthersStay DEF Searching
  <1>9. AskedAfter'
    <2>1. \A s : Returned(s) => Returned(s)'
      BY <1>1, OthersStay DEF Returned
    <2> QED BY <1>1, <1>2, <1>4, <2>1, OthersStay DEF AskedAfter
  <1>10. \A d \in Calls : \A f : Booking(d, f)' => Booking(d, f)
    BY <1>1, BookingMove DEF Booking, At
  <1>11. OneBooker'
    BY <1>1, <1>10 DEF OneBooker
  <1>12. \A f \in F : Booking(c, f)
    BY <1>2 DEF Booking, At
  <1>13. \A j \in OrderIds : order[j].fares \cap F \subseteq excused
    BY <1>1, <1>12 DEF TakenOut, At
  <1>14. OrderedOnce'
    <2>1. SUFFICES ASSUME NEW j \in OrderIds, NEW k \in OrderIds, j # k
                   PROVE  order'[j].fares \cap order'[k].fares \subseteq excused'
      BY DEF OrderedOnce
    <2>2. CASE j # i /\ k # i
      BY <1>1, <1>4, <2>1, <2>2 DEF OrderedOnce
    <2>3. CASE j = i
      BY <1>4, <1>13, <2>1, <2>3
    <2>4. CASE k = i
      BY <1>4, <1>13, <2>1, <2>4
    <2> QED BY <2>2, <2>3, <2>4
  <1>15. BookedWhatWasAsked'
    <2>1. OneSearch(F) => call[c].offers = {OfferOf(f) : f \in F}
      BY <1>1, <1>2 DEF Shape, Asking, OffersOf
    <2> QED BY <1>1, <1>4, <2>1 DEF BookedWhatWasAsked, OneSearch
  <1>16. TakenOut'
    <2> SUFFICES ASSUME NEW j \in OrderIds, NEW f \in order'[j].fares \ excused'
                 PROVE  /\ \A d \in Calls : Booking(d, f)' =>
                              At(d, "drop")' \/ (At(d, "lookup")' /\ f \in call'[d].todo)
                        /\ cache[f] = 0 \/ \E d \in Calls : Leaving(d, f)'
      BY DEF TakenOut
    <2>1. CASE f \in F
      <3>1. q.at = "drop" /\ f \in q.todo /\ f \notin excused
        BY <1>2, <2>1
      <3>2. Leaving(c, f)'
        BY <1>1, <1>2, <2>1, <3>1, BookingMove
      <3>3. At(c, "drop")'
        BY <1>1, <3>1, OthersStay DEF At
      <3>4. \A d \in Calls : d # c => ~Booking(d, f)'
        BY <1>1, <1>3, <1>10, <1>12, <2>1, <3>1 DEF OneBooker
      <3> QED BY <3>2, <3>3, <3>4
    <2>2. CASE f \notin F
      <3>1. f \in order[j].fares \ excused
        BY <1>4, <2>2
      <3>2. /\ \A d \in Calls : Booking(d, f) =>
                  At(d, "drop") \/ (At(d, "lookup") /\ f \in call[d].todo)
            /\ cache[f] = 0 \/ \E d \in Calls : Leaving(d, f)
        BY <1>1, <3>1 DEF TakenOut
      <3>3. ~Booking(c, f) /\ ~Leaving(c, f)
        BY <1>2, <2>2 DEF Booking, Leaving
      <3>4. \A d \in Calls : Leaving(d, f) => Leaving(d, f)'
        BY <1>1, <3>3, BookingMove
      <3>5. \A d \in Calls : Booking(d, f)' => d # c /\ Booking(d, f)
        BY <1>10, <3>3
      <3> QED BY <1>1, <3>2, <3>4, <3>5, OthersStay DEF At
    <2> QED BY <2>1, <2>2
  <1>17. Dropping'
    <2>1. ASSUME NEW d \in Calls, call'[d].at = "drop", NEW f \in call'[d].fares
          PROVE  \E j \in OrderIds : f \in order'[j].fares
      <3>1. CASE d = c
        BY <1>1, <1>2, <1>4, <2>1, <3>1, OthersStay
      <3>2. CASE d # c
        <4>1. PICK j \in OrderIds : f \in order[j].fares
          BY <1>1, <2>1, <3>2, OthersStay DEF Dropping, At
        <4> QED BY <1>4, <1>5, <4>1
      <3> QED BY <3>1, <3>2
    <2> QED BY <2>1 DEF Dropping, At
  <1>18. Cancelling'
    <2>1. \A d \in Calls : call[d].op = "cancel" => call[d].target \in OrderIds
      BY <1>1 DEF Shapes, Shape
    <2> SUFFICES ASSUME NEW d \in Calls, call'[d].op = "cancel",
                        \/ call'[d].req = "read" /\ call'[d].at \in Asking
                        \/ call'[d].at = "done" /\ call'[d].result = "ok"
                 PROVE  order'[call'[d].target].state = "cancelled"
      BY DEF Cancelling, At
    <2>2. d # c /\ call'[d] = call[d]
      BY <1>1, OthersStay
    <2>3. order[call[d].target].state = "cancelled"
      BY <1>1, <2>2 DEF Cancelling, At
    <2> QED BY <1>4, <1>5, <2>1, <2>2, <2>3
  <1> QED
    BY <1>6, <1>7, <1>8, <1>9, <1>11, <1>14, <1>15, <1>16, <1>17, <1>18 DEF FlightInv

(* Nothing but the vendor's tokens, the budget or the clock.                *)
LEMMA ClockMove ==
  ASSUME FlightInv, VendorTyped', now' \in {now, now + 1},
         UNCHANGED <<call, cache, quoted, order, excused>>
  PROVE  FlightInv'
  <1>1. now \in Nat /\ now' \in Nat /\ now' >= now
    BY Typed DEF FlightInv
  <1>2. TypeOK'
    BY <1>1, Typed, TypedNext DEF FlightInv
  <1>3. Clocked'
    BY <1>1, Typed DEF FlightInv, Clocked
  <1>4. Shapes' /\ Searching' /\ Uncached' /\ Dropping' /\ Cancelling'
    BY DEF FlightInv, Shapes, Searching, Uncached, Dropping, Cancelling, At
  <1>5. AskedAfter' /\ OneBooker'
    BY DEF FlightInv, AskedAfter, Returned, OneBooker, Booking, At
  <1>6. TakenOut' /\ OrderedOnce' /\ BookedWhatWasAsked'
    BY DEF FlightInv, TakenOut, Leaving, Booking, At, OrderedOnce, BookedWhatWasAsked
  <1> QED BY <1>2, <1>3, <1>4, <1>5, <1>6 DEF FlightInv
-----------------------------------------------------------------------------
(* The steps, by what they move.                                            *)

LEMMA KeptSame ==
  ASSUME TypeOK, UNCHANGED order
  PROVE  OrdersKept
  BY Typed DEF OrdersKept

LEMMA CallFacts ==
  ASSUME FlightInv, NEW c \in Calls
  PROVE  /\ call[c] \in CallRow /\ Shape(call[c]) /\ TypeOK /\ VendorTyped
         /\ call[c].at # "idle" => call[c].op # "none"
         /\ call[c].at \in Asking => call[c].req \in ReqsOf(call[c].op) /\ call[c].op # "none"
  <1>1. call[c] \in CallRow /\ Shape(call[c]) /\ TypeOK /\ VendorTyped
    BY Typed DEF FlightInv, Shapes
  <1> QED BY <1>1 DEF Shape, Asking, ReqsOf

LEMMA SameVendor ==
  ASSUME VendorTyped, UNCHANGED <<token, lock, minted, good>>,
         UNCHANGED budget \/ \E k \in Kinds : Spend(k)
  PROVE  VendorTyped'
  BY SpendTyped DEF VendorTyped

(* Inside _request: another stage of the request, another attempt, or an    *)
(* error.                                                                   *)
LEMMA RequestStep ==
  ASSUME FlightInv, NEW c \in Calls, NEW q \in CallRow, Shape(q), call[c].at \in Asking,
         q.op = call[c].op, q.target = call[c].target, q.fares = call[c].fares,
         \/ q.at \in Asking /\ q.req = call[c].req
         \/ q.at = "done" /\ (q.result = "ok" => call[c].req = "read" /\ call[c].op = "cancel"),
         call' = [call EXCEPT ![c] = q], VendorTyped', OrdersKept,
         UNCHANGED <<cache, quoted, excused, now>>
  PROVE  FlightInv'
  <1>1. call[c].op # "none"
    BY CallFacts
  <1>2. Onward(call[c], q)
    BY <1>1 DEF Onward, Asking
  <1>3. CancelHolds(q)'
    <2>1. SUFFICES ASSUME q.op = "cancel",
                          \/ q.req = "read" /\ q.at \in Asking
                          \/ q.at = "done" /\ q.result = "ok"
                   PROVE  order'[q.target].state = "cancelled"
      BY DEF CancelHolds
    <2>2. call[c].op = "cancel" /\ call[c].req = "read" /\ q.target \in OrderIds
      BY <2>1 DEF Asking, Shape
    <2>3. order[q.target].state = "cancelled"
      BY <2>2 DEF FlightInv, Cancelling
    <2> QED BY <2>2, <2>3 DEF OrdersKept
  <1> QED BY <1>2, <1>3, QuietMove

Stage(r, a, k) == [r EXCEPT !.at = a, !.tok = k]

LEMMA StageRow ==
  ASSUME NEW r \in CallRow, Shape(r), r.at \in Asking, NEW k \in 0 .. MaxTokens,
         NEW a \in {"send", "refresh", "invalidate"}, a = "invalidate" => r.attempts = 1
  PROVE  /\ Stage(r, a, k) \in CallRow /\ Shape(Stage(r, a, k))
         /\ Stage(r, a, k).at = a /\ Stage(r, a, k).op = r.op
         /\ Stage(r, a, k).target = r.target /\ Stage(r, a, k).fares = r.fares
         /\ Stage(r, a, k).req = r.req
  <1>1. PICK q : q = Stage(r, a, k)
    OBVIOUS
  <1>2. q \in CallRow
    BY <1>1 DEF Stage, CallRow, Stages
  <1>3. /\ q.at = a /\ q.op = r.op /\ q.target = r.target /\ q.fares = r.fares /\ q.req = r.req
        /\ q.todo = r.todo /\ q.offers = r.offers /\ q.attempts = r.attempts
    BY <1>1 DEF Stage, CallRow
  <1>4. Shape(q)
    BY <1>3 DEF Shape, Asking
  <1> QED BY <1>1, <1>2, <1>3, <1>4

LEMMA TokenSteps ==
  ASSUME FlightInv, NEW c \in Calls,
         UseToken(c) \/ LockToken(c) \/ RefreshToken(c) \/ SendUnauthorized(c) \/ Invalidate(c)
  PROVE  FlightInv'
  <1>1. /\ call[c] \in CallRow /\ Shape(call[c]) /\ TypeOK /\ VendorTyped
        /\ call[c].at \in Asking /\ call[c].op # "none"
    BY CallFacts DEF UseToken, LockToken, RefreshToken, SendUnauthorized, Invalidate, At, Asking
  <1>2. /\ UNCHANGED order /\ OrdersKept
        /\ UNCHANGED <<cache, quoted, excused, now>>
    BY <1>1, KeptSame DEF UseToken, LockToken, RefreshToken, SendUnauthorized, Invalidate, vendor
  <1>3. PICK r : r = call[c]
    OBVIOUS
  <1>4. CASE UseToken(c)
    <2>1. PICK q : q = Stage(r, "send", token)
      OBVIOUS
    <2>2. call' = [call EXCEPT ![c] = q] /\ VendorTyped'
      BY <1>1, <1>3, <1>4, <2>1 DEF Stage, UseToken, Set, vendor, VendorTyped
    <2>3. token \in 0 .. MaxTokens
      BY <1>1 DEF VendorTyped
    <2>4. /\ q \in CallRow /\ Shape(q) /\ q.at = "send" /\ q.op = r.op /\ q.target = r.target
          /\ q.fares = r.fares /\ q.req = r.req
      BY <1>1, <1>3, <2>1, <2>3, StageRow
    <2> QED BY <1>1, <1>2, <1>3, <2>2, <2>4, RequestStep DEF Asking
  <1>5. CASE LockToken(c)
    <2>1. PICK q : q = Stage(r, "refresh", r.tok)
      OBVIOUS
    <2>2. call' = [call EXCEPT ![c] = q]
      BY <1>1, <1>3, <1>5, <2>1 DEF Stage, LockToken, Goto, Set, CallRow
    <2>3. VendorTyped' /\ r.tok \in 0 .. MaxTokens
      BY <1>1, <1>3, <1>5 DEF LockToken, vendor, VendorTyped, CallRow
    <2>4. /\ q \in CallRow /\ Shape(q) /\ q.at = "refresh" /\ q.op = r.op
          /\ q.target = r.target /\ q.fares = r.fares /\ q.req = r.req
      BY <1>1, <1>3, <2>1, <2>3, StageRow
    <2> QED BY <1>1, <1>2, <1>3, <2>2, <2>3, <2>4, RequestStep DEF Asking
  <1>6. CASE RefreshToken(c)
    <2>1. CASE /\ minted < MaxTokens /\ minted' = minted + 1 /\ good' = good \cup {minted + 1}
               /\ token' = minted + 1 /\ UNCHANGED budget
               /\ Set(c, [call[c] EXCEPT !.at = "send", !.tok = minted + 1])
      <3>1. PICK k : k = minted + 1
        OBVIOUS
      <3>2. k \in 1 .. MaxTokens
        BY <1>1, <2>1, <3>1, FlightAssumption DEF VendorTyped
      <3>3. k \in 0 .. MaxTokens
        BY <3>2, FlightAssumption
      <3>4. PICK q : q = Stage(r, "send", k)
        OBVIOUS
      <3>5. /\ q \in CallRow /\ Shape(q) /\ q.at = "send" /\ q.op = r.op /\ q.target = r.target
            /\ q.fares = r.fares /\ q.req = r.req
        BY <1>1, <1>3, <3>3, <3>4, StageRow
      <3>6. call' = [call EXCEPT ![c] = q]
        BY <1>3, <2>1, <3>1, <3>4 DEF Stage, Set
      <3>7. VendorTyped'
        BY <1>1, <1>6, <2>1, <3>1, <3>2, <3>3 DEF RefreshToken, VendorTyped
      <3> QED BY <1>1, <1>2, <1>3, <3>5, <3>6, <3>7, RequestStep DEF Asking
    <2>2. CASE Spend("token") /\ Set(c, Raise(call[c])) /\ UNCHANGED <<minted, good, token>>
      <3>1. PICK q : q = Raise(r)
        OBVIOUS
      <3>2. /\ q \in CallRow /\ Shape(q) /\ q.at = "done" /\ q.op = r.op /\ q.target = r.target
            /\ q.fares = r.fares /\ (q.result = "ok" => r.req = "read" /\ r.op = "cancel")
        BY <1>1, <1>3, <3>1, RaiseRow
      <3>3. call' = [call EXCEPT ![c] = q]
        BY <1>3, <2>2, <3>1 DEF Set
      <3>4. budget' \in [Kinds -> Nat]
        BY <1>1, <2>2, SpendTyped DEF Kinds
      <3>5. VendorTyped'
        BY <1>1, <1>6, <2>2, <3>4 DEF RefreshToken, VendorTyped
      <3> QED BY <1>1, <1>2, <1>3, <3>2, <3>3, <3>5, RequestStep
    <2> QED BY <1>6, <2>1, <2>2 DEF RefreshToken
  <1>7. CASE SendUnauthorized(c)
    <2>1. VendorTyped' /\ r.tok \in 0 .. MaxTokens
      BY <1>1, <1>3, <1>7 DEF SendUnauthorized, vendor, VendorTyped, CallRow
    <2>2. CASE r.attempts = 1
      <3>1. PICK q : q = Stage(r, "invalidate", r.tok)
        OBVIOUS
      <3>2. call' = [call EXCEPT ![c] = q]
        BY <1>1, <1>3, <1>7, <2>2, <3>1 DEF Stage, SendUnauthorized, Set, CallRow
      <3>3. /\ q \in CallRow /\ Shape(q) /\ q.at = "invalidate" /\ q.op = r.op
            /\ q.target = r.target /\ q.fares = r.fares /\ q.req = r.req
        BY <1>1, <1>3, <2>1, <2>2, <3>1, StageRow
      <3> QED BY <1>1, <1>2, <1>3, <2>1, <3>2, <3>3, RequestStep DEF Asking
    <2>3. CASE r.attempts # 1
      <3>1. PICK q : q = Raise(r)
        OBVIOUS
      <3>2. /\ q \in CallRow /\ Shape(q) /\ q.at = "done" /\ q.op = r.op /\ q.target = r.target
            /\ q.fares = r.fares /\ (q.result = "ok" => r.req = "read" /\ r.op = "cancel")
        BY <1>1, <1>3, <3>1, RaiseRow
      <3>3. call' = [call EXCEPT ![c] = q]
        BY <1>3, <1>7, <2>3, <3>1 DEF SendUnauthorized, Set
      <3> QED BY <1>1, <1>2, <1>3, <2>1, <3>2, <3>3, RequestStep
    <2> QED BY <2>2, <2>3
  <1>8. CASE Invalidate(c)
    <2>1. PICK q : q = Again(r)
      OBVIOUS
    <2>2. /\ q \in CallRow /\ Shape(q) /\ q.at = "token" /\ q.op = r.op /\ q.target = r.target
          /\ q.fares = r.fares /\ q.req = r.req
      BY <1>1, <1>3, <1>8, <2>1, AgainRow DEF Invalidate, At
    <2>3. call' = [call EXCEPT ![c] = q]
      BY <1>3, <1>8, <2>1 DEF Invalidate, Set
    <2>4. VendorTyped'
      BY <1>1, <1>8, FlightAssumption DEF Invalidate, vendor, VendorTyped
    <2> QED BY <1>1, <1>2, <1>3, <2>2, <2>3, <2>4, RequestStep DEF Asking
  <1> QED BY <1>4, <1>5, <1>6, <1>7, <1>8

(* What the vendor does with a request: it makes an order, or touches none  *)
(* but the one it cancels.                                                  *)
LEMMA Handled ==
  ASSUME FlightInv, NEW c \in Calls, call[c].at = "send", Handle(c)
  PROVE  /\ call[c].req = "order" =>
              \E i \in OrderIds :
                 /\ order[i] = NoOrder
                 /\ order' = [order EXCEPT ![i] = [state |-> "live", offers |-> call[c].offers,
                                                   fares |-> call[c].fares]]
         /\ call[c].req # "order" => OrdersKept
         /\ call[c].req \notin {"order", "delete"} => UNCHANGED order
         /\ call[c].req = "delete" => order'[call[c].target].state = "cancelled"
  <1>1. PICK r : r = call[c]
    OBVIOUS
  <1>2. TypeOK /\ order \in [OrderIds -> OrderRow] /\ r.req \in ReqsOf(r.op) /\ Shape(r)
    BY <1>1, CallFacts, Typed DEF Asking
  <1>3. CASE r.req = "order"
    BY <1>1, <1>3 DEF Handle
  <1>4. CASE r.req = "delete"
    <2>1. r.target \in OrderIds
      BY <1>2, <1>4 DEF Shape, ReqsOf
    <2>2. order' = [order EXCEPT ![r.target].state = "cancelled"]
      BY <1>1, <1>4 DEF Handle
    <2>3. OrdersKept /\ order'[r.target].state = "cancelled"
      BY <1>2, <2>1, <2>2 DEF OrdersKept, OrderRow
    <2> QED BY <1>1, <1>4, <2>3
  <1>5. CASE r.req \notin {"order", "delete"}
    <2>1. UNCHANGED order
      BY <1>1, <1>5 DEF Handle
    <2> QED BY <1>1, <1>2, <1>5, <2>1, KeptSame
  <1> QED BY <1>3, <1>4, <1>5

(* A row at another stage of search or create.                              *)
Moved(r, a, T) == [r EXCEPT !.at = a, !.todo = T]

LEMMA MovedRow ==
  ASSUME NEW r \in CallRow, Shape(r), r.op # "none", NEW T \in SUBSET Fares,
         NEW a \in {"fill", "reprice", "drop"},
         a = "fill" => r.op = "search" /\ \A f \in T : f[1] = r.target,
         a # "fill" => r.op = "create" /\ r.at \in Asking,
         a = "reprice" => T = r.todo, a = "drop" => T = r.fares
  PROVE  /\ Moved(r, a, T) \in CallRow /\ Shape(Moved(r, a, T))
         /\ Moved(r, a, T).at = a /\ Moved(r, a, T).op = r.op
         /\ Moved(r, a, T).target = r.target /\ Moved(r, a, T).fares = r.fares
         /\ Moved(r, a, T).todo = T
  <1>1. PICK q : q = Moved(r, a, T)
    OBVIOUS
  <1>2. q \in CallRow
    BY <1>1 DEF Moved, CallRow, Stages
  <1>3. /\ q.at = a /\ q.op = r.op /\ q.target = r.target /\ q.fares = r.fares /\ q.req = r.req
        /\ q.todo = T /\ q.offers = r.offers /\ q.attempts = r.attempts
    BY <1>1 DEF Moved, CallRow
  <1>4. Shape(q)
    BY <1>3 DEF Shape, Asking
  <1> QED BY <1>1, <1>2, <1>3, <1>4

LEMMA SendOkStep ==
  ASSUME FlightInv, NEW c \in Calls, SendOk(c)
  PROVE  FlightInv'
  <1>1. PICK r : r = call[c]
    OBVIOUS
  <1>2. /\ r \in CallRow /\ Shape(r) /\ TypeOK /\ VendorTyped /\ r.at = "send"
        /\ r.req \in ReqsOf(r.op) /\ r.op # "none" /\ r.at \in Asking
    BY <1>1, CallFacts DEF SendOk, At, Asking
  <1>3. /\ Handle(c) /\ call' = [call EXCEPT ![c] = Continue(r)] /\ VendorTyped'
        /\ UNCHANGED <<cache, now, excused>>
    BY <1>1, <1>2 DEF SendOk, Set, VendorTyped
  <1>4. r.req # "search" => UNCHANGED quoted
    BY <1>1 DEF SendOk
  <1>5. CASE r.req = "search"
    <2>1. r.op = "search" /\ {f \in Fares : f[1] = r.target} \in SUBSET Fares
      BY <1>2, <1>5 DEF ReqsOf, CallRow
    <2>2. PICK q : q = Moved(r, "fill", {f \in Fares : f[1] = r.target})
      OBVIOUS
    <2>3. q \in CallRow /\ Shape(q) /\ q.at = "fill" /\ q.op = r.op /\ q.target = r.target
          /\ q.fares = r.fares
      BY <1>2, <2>1, <2>2, MovedRow
    <2>4. call' = [call EXCEPT ![c] = q]
      BY <1>3, <1>5, <2>2 DEF Continue, Moved
    <2>5. quoted' = [quoted EXCEPT ![r.target] = now]
      BY <1>1, <1>5 DEF SendOk
    <2>6. UNCHANGED order
      BY <1>1, <1>2, <1>3, <1>5, Handled
    <2> QED BY <1>1, <1>2, <1>3, <2>1, <2>3, <2>4, <2>5, <2>6, QuoteMove
  <1>6. CASE r.req = "order"
    <2>1. r.op = "create" /\ r.fares \in SUBSET Fares /\ Fares \in SUBSET Fares
      BY <1>2, <1>6 DEF ReqsOf, CallRow
    <2>2. PICK q : q = Moved(r, "drop", r.fares)
      OBVIOUS
    <2>3. /\ q \in CallRow /\ Shape(q) /\ q.at = "drop" /\ q.op = "create" /\ q.target = r.target
          /\ q.fares = r.fares /\ q.todo = q.fares
      BY <1>2, <2>1, <2>2, MovedRow
    <2>4. call' = [call EXCEPT ![c] = q] /\ UNCHANGED quoted
      BY <1>3, <1>4, <1>6, <2>2 DEF Continue, Moved
    <2>5. PICK i \in OrderIds :
             /\ order[i] = NoOrder
             /\ order' = [order EXCEPT ![i] = [state |-> "live", offers |-> call[c].offers,
                                               fares |-> call[c].fares]]
      BY <1>1, <1>2, <1>3, <1>6, Handled
    <2>6. PICK X : X = {}
      OBVIOUS
    <2>7. X \in SUBSET Fares /\ excused' = excused \cup X
      BY <1>3, <2>6
    <2> QED BY <1>1, <1>2, <1>3, <2>1, <2>3, <2>4, <2>5, <2>6, <2>7, OrderMove
  <1>7. CASE r.req \notin {"search", "order"}
    <2>1. OrdersKept /\ UNCHANGED quoted
      BY <1>1, <1>2, <1>3, <1>4, <1>7, Handled
    <2>2. CASE r.req = "price"
      <3>1. r.op = "create" /\ r.todo \in SUBSET Fares
        BY <1>2, <2>2 DEF ReqsOf, CallRow
      <3>2. PICK q : q = Moved(r, "reprice", r.todo)
        OBVIOUS
      <3>3. q \in CallRow /\ Shape(q) /\ q.at = "reprice" /\ q.op = r.op /\ q.target = r.target
            /\ q.fares = r.fares
        BY <1>2, <3>1, <3>2, MovedRow
      <3>4. call' = [call EXCEPT ![c] = q]
        BY <1>2, <1>3, <2>2, <3>2 DEF Continue, Moved, CallRow
      <3>5. Onward(call[c], q) /\ CancelHolds(q)'
        BY <1>1, <1>2, <3>1, <3>3 DEF Onward, CancelHolds
      <3> QED BY <1>3, <2>1, <3>3, <3>4, <3>5, QuietMove
    <2>3. CASE r.req = "delete"
      <3>1. r.op = "cancel" /\ "read" \in ReqsOf(r.op)
        BY <1>2, <2>3 DEF ReqsOf, CallRow
      <3>2. PICK q : q = Request(r, "read")
        OBVIOUS
      <3>3. /\ q \in CallRow /\ Shape(q) /\ q.at = "token" /\ q.op = r.op
            /\ q.target = r.target /\ q.fares = r.fares
        BY <1>2, <3>1, <3>2, RequestRow
      <3>4. call' = [call EXCEPT ![c] = q]
        BY <1>3, <2>3, <3>2 DEF Continue
      <3>5. Onward(call[c], q)
        BY <1>1, <1>2, <3>1, <3>3 DEF Onward
      <3>6. order'[q.target].state = "cancelled"
        BY <1>1, <1>2, <1>3, <2>3, <3>3, Handled
      <3>7. CancelHolds(q)'
        BY <3>6 DEF CancelHolds
      <3> QED BY <1>3, <2>1, <3>3, <3>4, <3>5, <3>7, QuietMove
    <2>4. CASE r.req = "read"
      <3>1. PICK q : q = Finish(r, "ok")
        OBVIOUS
      <3>2. /\ q \in CallRow /\ Shape(q) /\ q.at = "done" /\ q.op = r.op
            /\ q.target = r.target /\ q.fares = r.fares
        BY <1>2, <3>1, FinishRow
      <3>3. call' = [call EXCEPT ![c] = q]
        BY <1>3, <2>4, <3>1 DEF Continue
      <3>4. Onward(call[c], q)
        BY <1>1, <1>2, <3>2 DEF Onward
      <3>5. CancelHolds(q)'
        <4>1. SUFFICES ASSUME r.op = "cancel" PROVE order'[r.target].state = "cancelled"
          BY <3>2 DEF CancelHolds
        <4>2. r.target \in OrderIds /\ order[r.target].state = "cancelled"
          BY <1>1, <1>2, <2>4, <4>1 DEF FlightInv, Cancelling, Shape
        <4> QED BY <2>1, <4>2 DEF OrdersKept
      <3> QED BY <1>3, <2>1, <3>2, <3>3, <3>4, <3>5, QuietMove
    <2>5. r.req \in {"price", "delete", "read"}
      BY <1>2, <1>7 DEF ReqsOf, CallRow
    <2> QED BY <2>2, <2>3, <2>4, <2>5
  <1> QED BY <1>5, <1>6, <1>7

(* A request whose answer never comes or cannot be read is tried again, or  *)
(* raises; what the vendor has ordered by then is excused.                  *)
LEMMA AfterRow ==
  ASSUME NEW r \in CallRow, Shape(r), r.at = "send", r.op # "none", NEW q,
         q = Raise(r) \/ (ShouldRetry(r) /\ q = Again(r))
  PROVE  /\ q \in CallRow /\ Shape(q) /\ q.op = r.op /\ q.target = r.target
         /\ q.fares = r.fares
         /\ \/ q.at = "token" /\ q.req = r.req
            \/ q.at = "done" /\ (q.result = "ok" => r.req = "read" /\ r.op = "cancel")
  BY RaiseRow, AgainRow

LEMMA LostStep ==
  ASSUME FlightInv, NEW c \in Calls, call[c].at = "send", NEW q,
         q = Raise(call[c]) \/ (ShouldRetry(call[c]) /\ q = Again(call[c])),
         call' = [call EXCEPT ![c] = q], VendorTyped',
         \/ /\ Handle(c)
            /\ excused' = IF call[c].req = "order" THEN excused \cup call[c].fares ELSE excused
         \/ UNCHANGED <<order, excused>>,
         UNCHANGED <<cache, quoted, now>>
  PROVE  FlightInv'
  <1>1. PICK r : r = call[c]
    OBVIOUS
  <1>2. /\ r \in CallRow /\ Shape(r) /\ TypeOK /\ r.at = "send" /\ r.at \in Asking
        /\ r.req \in ReqsOf(r.op) /\ r.op # "none"
    BY <1>1, CallFacts DEF Asking
  <1>3. /\ q \in CallRow /\ Shape(q) /\ q.op = r.op /\ q.target = r.target
        /\ q.fares = r.fares
        /\ \/ q.at = "token" /\ q.req = r.req
           \/ q.at = "done" /\ (q.result = "ok" => r.req = "read" /\ r.op = "cancel")
    BY <1>1, <1>2, AfterRow
  <1>4. CASE UNCHANGED <<order, excused>>
    <2>1. OrdersKept
      BY <1>2, <1>4, KeptSame
    <2> QED BY <1>1, <1>2, <1>3, <1>4, <2>1, RequestStep DEF Asking
  <1>5. CASE Handle(c) /\ r.req # "order" /\ UNCHANGED excused
    <2>1. OrdersKept
      BY <1>1, <1>2, <1>5, Handled
    <2> QED BY <1>1, <1>2, <1>3, <1>5, <2>1, RequestStep DEF Asking
  <1>6. CASE Handle(c) /\ r.req = "order" /\ excused' = excused \cup r.fares
    <2>1. r.op = "create" /\ r.fares \in SUBSET Fares
      BY <1>2, <1>6 DEF ReqsOf, CallRow
    <2>2. PICK i \in OrderIds :
             /\ order[i] = NoOrder
             /\ order' = [order EXCEPT ![i] = [state |-> "live", offers |-> call[c].offers,
                                               fares |-> call[c].fares]]
      BY <1>1, <1>2, <1>6, Handled
    <2>3. PICK X : X = r.fares
      OBVIOUS
    <2>4. X \in SUBSET Fares /\ X = q.fares /\ excused' = excused \cup X
      BY <1>3, <1>6, <2>1, <2>3
    <2>5. q.at \in {"token", "done"} /\ q.op = "create"
      BY <1>3, <2>1
    <2> QED BY <1>1, <1>2, <1>3, <2>1, <2>2, <2>4, <2>5, OrderMove
  <1> QED BY <1>1, <1>4, <1>5, <1>6

LEMMA SendFails ==
  ASSUME FlightInv, NEW c \in Calls, SendLost(c) \/ SendRefused(c) \/ SendGarbled(c)
  PROVE  FlightInv'
  <1>1. call[c].at = "send" /\ VendorTyped
    BY CallFacts DEF SendLost, SendRefused, SendGarbled, At
  <1>2. CASE SendLost(c)
    <2>1. VendorTyped'
      BY <1>1, <1>2, SameVendor DEF SendLost, Kinds
    <2>2. PICK q : q = IF ShouldRetry(call[c]) THEN Again(call[c]) ELSE Raise(call[c])
      OBVIOUS
    <2>3. /\ call' = [call EXCEPT ![c] = q] /\ UNCHANGED <<cache, quoted, now>>
          /\ q = Raise(call[c]) \/ (ShouldRetry(call[c]) /\ q = Again(call[c]))
      BY <1>2, <2>2 DEF SendLost, Set
    <2>4. \/ /\ Handle(c)
             /\ excused' = IF call[c].req = "order" THEN excused \cup call[c].fares ELSE excused
          \/ UNCHANGED <<order, excused>>
      BY <1>2 DEF SendLost
    <2> QED BY <1>1, <2>1, <2>3, <2>4, LostStep
  <1>3. CASE SendRefused(c)
    <2>1. VendorTyped'
      BY <1>1, <1>3, SameVendor DEF SendRefused, Kinds, vendor
    <2>2. PICK q : q = Raise(call[c])
      OBVIOUS
    <2>3. call' = [call EXCEPT ![c] = q] /\ UNCHANGED <<cache, quoted, now, order, excused>>
      BY <1>3, <2>2 DEF SendRefused, Set, vendor
    <2> QED BY <1>1, <2>1, <2>2, <2>3, LostStep
  <1>4. CASE SendGarbled(c)
    <2>1. VendorTyped'
      BY <1>1, <1>4, SameVendor DEF SendGarbled, Kinds
    <2>2. PICK q : q = Raise(call[c])
      OBVIOUS
    <2>3. /\ call' = [call EXCEPT ![c] = q] /\ UNCHANGED <<cache, quoted, now>> /\ Handle(c)
          /\ excused' = IF call[c].req = "order" THEN excused \cup call[c].fares ELSE excused
      BY <1>4, <2>2 DEF SendGarbled, Set
    <2> QED BY <1>1, <2>1, <2>2, <2>3, LostStep
  <1> QED BY <1>2, <1>3, <1>4

(* The steps of search and create between their requests.                   *)

Pruned(r, f) == [r EXCEPT !.todo = @ \ {f}]
Staled(r, S) == [r EXCEPT !.at = "reprice", !.stale = S]

LEMMA PrunedRow ==
  ASSUME NEW r \in CallRow, Shape(r), r.at \in {"fill", "drop"}, NEW f
  PROVE  /\ Pruned(r, f) \in CallRow /\ Shape(Pruned(r, f))
         /\ Pruned(r, f).at = r.at /\ Pruned(r, f).op = r.op
         /\ Pruned(r, f).target = r.target /\ Pruned(r, f).fares = r.fares
         /\ Pruned(r, f).todo = r.todo \ {f}
  <1>1. PICK q : q = Pruned(r, f)
    OBVIOUS
  <1>2. q \in CallRow
    BY <1>1 DEF Pruned, CallRow
  <1>3. /\ q.at = r.at /\ q.op = r.op /\ q.target = r.target /\ q.fares = r.fares
        /\ q.todo = r.todo \ {f} /\ q.attempts = r.attempts
    BY <1>1 DEF Pruned, CallRow
  <1>4. Shape(q)
    BY <1>3 DEF Shape, Asking
  <1> QED BY <1>1, <1>2, <1>3, <1>4

LEMMA StaledRow ==
  ASSUME NEW r \in CallRow, Shape(r), r.at = "reprice" \/ (r.at = "lookup" /\ r.todo = {}),
         NEW S \in SUBSET Offers
  PROVE  /\ Staled(r, S) \in CallRow /\ Shape(Staled(r, S))
         /\ Staled(r, S).at = "reprice" /\ Staled(r, S).op = r.op
         /\ Staled(r, S).target = r.target /\ Staled(r, S).fares = r.fares
  <1>1. PICK q : q = Staled(r, S)
    OBVIOUS
  <1>2. q \in CallRow
    BY <1>1 DEF Staled, CallRow, Stages
  <1>3. /\ q.at = "reprice" /\ q.op = r.op /\ q.target = r.target /\ q.fares = r.fares
        /\ q.todo = r.todo /\ q.attempts = r.attempts /\ q.offers = r.offers
    BY <1>1 DEF Staled, CallRow
  <1>4. r.op = "create" /\ r.todo = {}
    BY DEF Shape, Asking
  <1>5. Shape(q)
    BY <1>3, <1>4 DEF Shape, Asking
  <1> QED BY <1>1, <1>2, <1>3, <1>5

(* Two fares of one search with one vendor id are of one offer, so skipping *)
(* an id that was seen loses no offer.                                      *)
LEMMA CollectRow ==
  ASSUME NEW r \in CallRow, Shape(r), r.at = "lookup", NEW f \in r.todo
  PROVE  /\ Collect(r, f) \in CallRow /\ Shape(Collect(r, f))
         /\ Collect(r, f).at = "lookup" /\ Collect(r, f).op = r.op
         /\ Collect(r, f).target = r.target /\ Collect(r, f).fares = r.fares
         /\ Collect(r, f).todo = r.todo \ {f}
  <1>1. PICK q : q = Collect(r, f)
    OBVIOUS
  <1>2. PICK G : G = IF \E o \in r.offers : VendorId(o) = VendorId(OfferOf(f))
                     THEN r.offers ELSE r.offers \cup {OfferOf(f)}
    OBVIOUS
  <1>3. f \in Fares /\ r.offers \subseteq Offers /\ r.todo \subseteq r.fares /\ r.op = "create"
    BY DEF CallRow, Shape
  <1>4. OfferOf(f) \in Offers
    BY <1>3, FareFacts
  <1>5. G \subseteq Offers
    BY <1>2, <1>3, <1>4
  <1>6. q = [r EXCEPT !.todo = r.todo \ {f}, !.offers = G]
    BY <1>1, <1>2 DEF Collect, CallRow
  <1>7. q \in CallRow
    BY <1>5, <1>6 DEF CallRow
  <1>8. /\ q.at = "lookup" /\ q.op = r.op /\ q.target = r.target /\ q.fares = r.fares
        /\ q.todo = r.todo \ {f} /\ q.attempts = r.attempts /\ q.offers = G
    BY <1>6 DEF CallRow
  <1>9. OneSearch(r.fares) => G = OffersOf(r.fares \ (r.todo \ {f}))
    <2> SUFFICES ASSUME OneSearch(r.fares) PROVE G = OffersOf(r.fares \ (r.todo \ {f}))
      OBVIOUS
    <2>1. r.offers = OffersOf(r.fares \ r.todo)
      BY <1>3 DEF Shape
    <2>2. OffersOf(r.fares \ (r.todo \ {f})) = OffersOf(r.fares \ r.todo) \cup {OfferOf(f)}
      BY <1>3 DEF OffersOf
    <2>3. ASSUME NEW o \in r.offers, VendorId(o) = VendorId(OfferOf(f))
          PROVE  o = OfferOf(f)
      <3>1. PICK g \in r.fares \ r.todo : o = OfferOf(g)
        BY <2>1 DEF OffersOf
      <3>2. g[1] = f[1]
        BY <1>3 DEF OneSearch
      <3>3. g[2] = f[2]
        BY <2>3, <3>1 DEF VendorId, OfferOf
      <3> QED BY <3>1, <3>2, <3>3 DEF OfferOf
    <2> QED BY <1>2, <2>1, <2>2, <2>3
  <1>10. Shape(q)
    BY <1>3, <1>8, <1>9 DEF Shape, Asking
  <1> QED BY <1>1, <1>7, <1>8, <1>10

LEMMA CacheSteps ==
  ASSUME FlightInv, NEW c \in Calls, NEW f \in Fares,
         Fill(c, f) \/ Drop(c, f) \/ DropFails(c, f)
  PROVE  FlightInv'
  <1>1. PICK r : r = call[c]
    OBVIOUS
  <1>2. r \in CallRow /\ Shape(r) /\ TypeOK /\ VendorTyped /\ r.at \in {"fill", "drop"}
    BY <1>1, CallFacts DEF Fill, Drop, DropFails, At
  <1>3. PICK q : q = Pruned(r, f)
    OBVIOUS
  <1>4. /\ q \in CallRow /\ Shape(q) /\ q.at = r.at /\ q.op = r.op
        /\ q.target = r.target /\ q.fares = r.fares /\ q.todo = r.todo \ {f}
    BY <1>2, <1>3, PrunedRow
  <1>5. /\ call' = [call EXCEPT ![c] = q] /\ f \in r.todo
        /\ UNCHANGED <<quoted, token, lock, minted, good, order, now>>
    BY <1>1, <1>2, <1>3 DEF Fill, Drop, DropFails, Set, Pruned, Foremost, vendor, CallRow
  <1>6. VendorTyped'
    BY <1>2, <1>5, SameVendor DEF Fill, Drop, DropFails, Kinds
  <1>7. {} \in SUBSET {f} /\ {f} \in SUBSET {f}
    OBVIOUS
  <1>8. CASE Fill(c, f)
    <2>1. now + OfferTtl \in Nat
      BY <1>2, Typed, FlightAssumption
    <2>2. /\ At(c, "fill") /\ cache' = [cache EXCEPT ![f] = now + OfferTtl]
          /\ excused' = excused \cup {}
      BY <1>8 DEF Fill
    <2> QED BY <1>1, <1>4, <1>5, <1>6, <1>7, <2>1, <2>2, CacheMove
  <1>9. CASE Drop(c, f)
    <2>1. PICK n : n = 0
      OBVIOUS
    <2>2. n \in Nat /\ At(c, "drop") /\ cache' = [cache EXCEPT ![f] = n] /\ excused' = excused \cup {}
      BY <1>9, <2>1 DEF Drop
    <2> QED BY <1>1, <1>4, <1>5, <1>6, <1>7, <2>1, <2>2, CacheMove
  <1>10. CASE DropFails(c, f)
    <2>1. /\ At(c, "drop") /\ cache' = [cache EXCEPT ![f] = cache[f]] /\ cache[f] \in Nat
          /\ excused' = excused \cup {f}
      BY <1>2, <1>10, Typed DEF DropFails
    <2> QED BY <1>1, <1>4, <1>5, <1>6, <1>7, <2>1, CacheMove
  <1> QED BY <1>8, <1>9, <1>10

LEMMA QuietSteps ==
  ASSUME FlightInv, NEW c \in Calls,
         \/ \E f \in Fares : FillFails(c, f) \/ Lookup(c, f)
         \/ \E o \in Offers : Reprice(c, o)
         \/ Filled(c) \/ LookedUp(c) \/ PostOrder(c) \/ NoTravellers(c) \/ Dropped(c)
  PROVE  FlightInv'
  <1>1. PICK r : r = call[c]
    OBVIOUS
  <1>2. /\ r \in CallRow /\ Shape(r) /\ TypeOK /\ VendorTyped
        /\ r.at \in {"fill", "lookup", "reprice", "drop"} /\ r.op # "none"
    BY <1>1, CallFacts DEF FillFails, Lookup, Reprice, Filled, LookedUp, PostOrder,
       NoTravellers, Dropped, At
  <1>3. /\ UNCHANGED <<cache, quoted, token, lock, minted, good, order, now, excused>>
        /\ UNCHANGED budget \/ \E k \in Kinds : Spend(k)
    BY DEF FillFails, Lookup, Reprice, Filled, LookedUp, PostOrder, NoTravellers, Dropped,
       vendor, Kinds
  <1>4. VendorTyped' /\ OrdersKept
    BY <1>2, <1>3, SameVendor, KeptSame
  <1>5. SUFFICES \E q \in CallRow : Shape(q) /\ call' = [call EXCEPT ![c] = q] /\ Onward(r, q)
    <2>1. PICK q \in CallRow : Shape(q) /\ call' = [call EXCEPT ![c] = q] /\ Onward(r, q)
      BY <1>5
    <2>2. r.op # "cancel"
      BY <1>2 DEF Shape
    <2>3. CancelHolds(q)'
      BY <2>1, <2>2 DEF CancelHolds, Onward
    <2> QED BY <1>1, <1>3, <1>4, <2>1, <2>3, QuietMove
  <1>6. CASE Filled(c) \/ Dropped(c)
    <2>1. r.at \in {"fill", "drop"} /\ r.todo = {} /\ call' = [call EXCEPT ![c] = Finish(r, "ok")]
      BY <1>1, <1>6 DEF Filled, Dropped, At, Set
    <2>2. Onward(r, Finish(r, "ok"))
      BY <1>2, <2>1, FinishRow DEF Onward
    <2> QED BY <1>2, <2>1, <2>2, FinishRow
  <1>7. CASE NoTravellers(c)
    <2>1. r.at = "reprice" /\ call' = [call EXCEPT ![c] = Raise(r)]
      BY <1>1, <1>7 DEF NoTravellers, At, Set
    <2>2. Onward(r, Raise(r))
      BY <1>2, <2>1, RaiseRow DEF Onward
    <2> QED BY <1>2, <2>1, <2>2, RaiseRow
  <1>8. CASE PostOrder(c)
    <2>1. r.at = "reprice" /\ call' = [call EXCEPT ![c] = Request(r, "order")]
      BY <1>1, <1>8 DEF PostOrder, At, Set
    <2>2. "order" \in ReqsOf(r.op)
      BY <1>2, <2>1 DEF Shape, ReqsOf
    <2>3. Onward(r, Request(r, "order"))
      BY <1>2, <2>1, <2>2, RequestRow DEF Onward
    <2> QED BY <1>2, <2>1, <2>2, <2>3, RequestRow
  <1>9. CASE LookedUp(c)
    <2>1. PICK S : S = {o \in r.offers : NeedsReprice(o)}
      OBVIOUS
    <2>2. S \in SUBSET Offers
      BY <1>2, <2>1 DEF CallRow
    <2>3. r.at = "lookup" /\ r.todo = {} /\ call' = [call EXCEPT ![c] = Staled(r, S)]
      BY <1>1, <1>9, <2>1 DEF LookedUp, At, Set, Staled
    <2>4. Onward(r, Staled(r, S))
      BY <1>2, <2>2, <2>3, StaledRow DEF Onward
    <2> QED BY <1>2, <2>2, <2>3, <2>4, StaledRow
  <1>10. ASSUME NEW o \in Offers, Reprice(c, o)
         PROVE  \E q \in CallRow : Shape(q) /\ call' = [call EXCEPT ![c] = q] /\ Onward(r, q)
    <2>1. PICK p : p = Staled(r, r.stale \ {o})
      OBVIOUS
    <2>2. r.at = "reprice" /\ call' = [call EXCEPT ![c] = Request(p, "price")]
      BY <1>1, <1>2, <1>10, <2>1 DEF Reprice, At, Set, Staled, CallRow
    <2>3. r.stale \ {o} \in SUBSET Offers
      BY <1>2 DEF CallRow
    <2>4. /\ p \in CallRow /\ Shape(p) /\ p.at = "reprice" /\ p.op = r.op /\ p.target = r.target
          /\ p.fares = r.fares
      BY <1>2, <2>1, <2>2, <2>3, StaledRow
    <2>5. "price" \in ReqsOf(p.op)
      BY <1>2, <2>2, <2>4 DEF Shape, ReqsOf
    <2>6. PICK q : q = Request(p, "price")
      OBVIOUS
    <2>7. /\ q \in CallRow /\ Shape(q) /\ q.at = "token" /\ q.op = p.op /\ q.target = p.target
          /\ q.fares = p.fares
      BY <1>2, <2>4, <2>5, <2>6, RequestRow
    <2>8. Onward(r, q)
      BY <1>2, <2>2, <2>4, <2>7 DEF Onward
    <2> QED BY <2>2, <2>6, <2>7, <2>8
  <1>11. ASSUME NEW f \in Fares, FillFails(c, f)
         PROVE  \E q \in CallRow : Shape(q) /\ call' = [call EXCEPT ![c] = q] /\ Onward(r, q)
    <2>1. r.at = "fill" /\ call' = [call EXCEPT ![c] = Pruned(r, f)]
      BY <1>1, <1>2, <1>11 DEF FillFails, At, Set, Pruned, CallRow
    <2>2. Onward(r, Pruned(r, f))
      BY <1>2, <2>1, PrunedRow DEF Onward
    <2> QED BY <1>2, <2>1, <2>2, PrunedRow
  <1>12. ASSUME NEW f \in Fares, Lookup(c, f)
         PROVE  \E q \in CallRow : Shape(q) /\ call' = [call EXCEPT ![c] = q] /\ Onward(r, q)
    <2>1. r.at = "lookup" /\ f \in r.todo
      BY <1>1, <1>12 DEF Lookup, At
    <2>2. CASE Cached(f)
      <3>1. call' = [call EXCEPT ![c] = Collect(r, f)]
        BY <1>1, <1>12, <2>2 DEF Lookup, Set
      <3>2. Onward(r, Collect(r, f))
        BY <1>2, <2>1, <2>2, CollectRow DEF Onward
      <3> QED BY <1>2, <2>1, <3>1, <3>2, CollectRow
    <2>3. CASE ~Cached(f)
      <3>1. call' = [call EXCEPT ![c] = Raise(r)]
        BY <1>1, <1>12, <2>3 DEF Lookup, Set
      <3>2. Onward(r, Raise(r))
        BY <1>2, <2>1, RaiseRow DEF Onward
      <3> QED BY <1>2, <3>1, <3>2, RaiseRow
    <2> QED BY <2>2, <2>3
  <1> QED BY <1>6, <1>7, <1>8, <1>9, <1>10, <1>11, <1>12

(* The calls into the driver.                                               *)

Fresh(op, t, k) == Request([Idle EXCEPT !.op = op, !.target = t], k)

LEMMA FreshRow ==
  ASSUME NEW op \in {"search", "cancel", "read"}, NEW t \in Nat, NEW k \in ReqsOf(op),
         op = "search" => t \in Searches, op # "search" => t \in OrderIds
  PROVE  /\ Fresh(op, t, k) \in CallRow /\ Shape(Fresh(op, t, k))
         /\ Fresh(op, t, k).at = "token" /\ Fresh(op, t, k).op = op
         /\ Fresh(op, t, k).target = t /\ Fresh(op, t, k).fares = {}
         /\ Fresh(op, t, k).req = k
  <1>1. PICK q : q = Fresh(op, t, k)
    OBVIOUS
  <1>2. k \in {"search", "delete", "read"}
    BY DEF ReqsOf
  <1>3. q = [at |-> "token", op |-> op, req |-> k, attempts |-> 1, tok |-> 0,
             fares |-> {}, todo |-> {}, offers |-> {}, stale |-> {},
             target |-> t, result |-> "none"]
    BY <1>1 DEF Fresh, Request, Idle
  <1>4. q \in CallRow
    BY <1>2, <1>3, FlightAssumption DEF CallRow, Stages
  <1>5. 1 <= MaxAttempts
    BY FlightAssumption DEF MaxAttempts
  <1>6. /\ q.at = "token" /\ q.op = op /\ q.target = t /\ q.fares = {} /\ q.req = k
        /\ q.attempts = 1
    BY <1>3
  <1>7. Shape(q)
    BY <1>5, <1>6 DEF Shape, Asking
  <1> QED BY <1>1, <1>4, <1>6, <1>7

LEMMA BeginSteps ==
  ASSUME FlightInv, NEW c \in Calls,
         \/ \E s \in Searches : Search(c, s)
         \/ \E fares \in SUBSET Fares : Create(c, fares)
         \/ \E i \in OrderIds : Cancel(c, i) \/ Read(c, i)
  PROVE  FlightInv'
  <1>1. /\ At(c, "idle") /\ UNCHANGED <<cache, quoted, token, lock, minted, good, order, now>>
        /\ \E k \in Kinds : Spend(k)
    BY DEF Search, Create, Cancel, Read, vendor, Kinds
  <1>2. VendorTyped'
    BY <1>1, CallFacts, SameVendor
  <1>3. ASSUME NEW s \in Searches, Search(c, s) PROVE FlightInv'
    <2>1. PICK q : q = Fresh("search", s, "search")
      OBVIOUS
    <2>2. s \in Nat
      BY FlightAssumption DEF Searches
    <2>3. "search" \in ReqsOf("search")
      BY DEF ReqsOf
    <2>4. /\ q \in CallRow /\ Shape(q) /\ q.at = "token" /\ q.op = "search" /\ q.target = s
          /\ q.fares = {}
      BY <2>1, <2>2, <2>3, FreshRow
    <2>5. /\ call' = [call EXCEPT ![c] = q] /\ UNCHANGED excused /\ quoted[s] = 0
          /\ \A d \in Calls : call[d].op = "search" => call[d].target # s
      BY <1>3, <2>1 DEF Search, Set, Fresh
    <2>6. excused' = excused \cup {f \in q.fares : \E d \in Calls : Booking(d, f)}
      BY <2>4, <2>5
    <2>7. CancelHolds(q)
      BY <2>4 DEF CancelHolds
    <2> QED BY <1>1, <1>2, <2>4, <2>5, <2>6, <2>7, BeginMove
  <1>4. ASSUME NEW i \in OrderIds, NEW op \in {"cancel", "read"}, NEW k \in ReqsOf(op),
               op = "cancel" => k = "delete", call' = [call EXCEPT ![c] = Fresh(op, i, k)],
               UNCHANGED excused
        PROVE  FlightInv'
    <2>1. PICK q : q = Fresh(op, i, k)
      OBVIOUS
    <2>2. i \in Nat
      BY FlightAssumption DEF OrderIds
    <2>3. /\ q \in CallRow /\ Shape(q) /\ q.at = "token" /\ q.op = op /\ q.target = i
          /\ q.fares = {} /\ q.req = k
      BY <2>1, <2>2, FreshRow
    <2>4. excused' = excused \cup {f \in q.fares : \E d \in Calls : Booking(d, f)}
      BY <1>4, <2>3
    <2>5. CancelHolds(q)
      BY <1>4, <2>3 DEF CancelHolds
    <2>6. q.op # "create" /\ q.op # "search" /\ call' = [call EXCEPT ![c] = q]
      BY <1>4, <2>1, <2>3
    <2> QED BY <1>1, <1>2, <2>3, <2>4, <2>5, <2>6, BeginMove
  <1>5. ASSUME NEW i \in OrderIds, Cancel(c, i) PROVE FlightInv'
    <2>1. "delete" \in ReqsOf("cancel")
      BY DEF ReqsOf
    <2>2. call' = [call EXCEPT ![c] = Fresh("cancel", i, "delete")] /\ UNCHANGED excused
      BY <1>5 DEF Cancel, Set, Fresh
    <2> QED BY <1>4, <2>1, <2>2
  <1>6. ASSUME NEW i \in OrderIds, Read(c, i) PROVE FlightInv'
    <2>1. "read" \in ReqsOf("read")
      BY DEF ReqsOf
    <2>2. call' = [call EXCEPT ![c] = Fresh("read", i, "read")] /\ UNCHANGED excused
      BY <1>6 DEF Read, Set, Fresh
    <2> QED BY <1>4, <2>1, <2>2
  <1>7. ASSUME NEW fares \in SUBSET Fares, Create(c, fares) PROVE FlightInv'
    <2>1. PICK q : q = [Idle EXCEPT !.at = "lookup", !.op = "create", !.fares = fares,
                                    !.todo = fares]
      OBVIOUS
    <2>2. q = [at |-> "lookup", op |-> "create", req |-> "none", attempts |-> 0, tok |-> 0,
               fares |-> fares, todo |-> fares, offers |-> {}, stale |-> {},
               target |-> 0, result |-> "none"]
      BY <2>1 DEF Idle
    <2>3. q \in CallRow
      BY <2>2, FlightAssumption DEF CallRow, Stages
    <2>4. /\ q.at = "lookup" /\ q.op = "create" /\ q.fares = fares /\ q.todo = fares
          /\ q.attempts = 0 /\ q.offers = {}
      BY <2>2
    <2>5. 0 <= MaxAttempts /\ OffersOf(fares \ fares) = {}
      BY FlightAssumption DEF MaxAttempts, OffersOf
    <2>6. Shape(q)
      BY <2>4, <2>5 DEF Shape, Asking
    <2>7. /\ call' = [call EXCEPT ![c] = q] /\ \A f \in q.fares : Returned(f[1])
          /\ excused' = excused \cup {f \in q.fares : \E d \in Calls : Booking(d, f)}
      BY <1>7, <2>1, <2>4 DEF Create, Set
    <2>8. CancelHolds(q)
      BY <2>4 DEF CancelHolds
    <2> QED BY <1>1, <1>2, <2>3, <2>4, <2>6, <2>7, <2>8, BeginMove
  <1> QED BY <1>3, <1>5, <1>6, <1>7

LEMMA ClockSteps ==
  ASSUME FlightInv, TokenLapses \/ Tick \/ \E t \in 1 .. MaxTokens : TokenDies(t)
  PROVE  FlightInv'
  <1>1. /\ UNCHANGED <<call, cache, quoted, order, excused>> /\ now' \in {now, now + 1}
        /\ UNCHANGED <<lock, minted>> /\ \E k \in Kinds : Spend(k)
        /\ token' \in {0, token} /\ good' \subseteq good
    BY DEF TokenLapses, Tick, TokenDies, vendor, Kinds
  <1>2. VendorTyped
    BY Typed DEF FlightInv
  <1>3. budget' \in [Kinds -> Nat]
    BY <1>1, <1>2, SpendTyped
  <1>4. VendorTyped'
    BY <1>1, <1>2, <1>3, FlightAssumption DEF VendorTyped
  <1> QED BY <1>1, <1>4, ClockMove

LEMMA FlightBegins ==
  ASSUME Init
  PROVE  FlightInv
  <1>1. /\ call = [c \in Calls |-> Idle] /\ cache = [f \in Fares |-> 0]
        /\ quoted = [s \in Searches |-> 0] /\ order = [i \in OrderIds |-> NoOrder]
        /\ now = 1 /\ excused = {}
    BY DEF Init
  <1>2. Idle \in CallRow /\ Shape(Idle) /\ NoOrder \in OrderRow
    BY IdleRow DEF NoOrder, OrderRow
  <1>3. VendorTyped
    BY FlightAssumption DEF Init, VendorTyped
  <1>4. TypeOK
    <2>1. call \in [Calls -> CallRow] /\ order \in [OrderIds -> OrderRow]
      BY <1>1, <1>2
    <2> QED BY <1>1, <1>3, <2>1 DEF TypeOK, CallRow, Stages, OrderRow, VendorTyped
  <1>5. /\ \A c \in Calls : call[c].at = "idle" /\ call[c].op = "none" /\ call[c].fares = {}
        /\ \A i \in OrderIds : order[i].fares = {} /\ order[i].offers = {}
    BY <1>1 DEF Idle, NoOrder
  <1>6. Shapes /\ Clocked
    BY <1>1, <1>2 DEF Shapes, Clocked
  <1>7. Searching /\ Uncached /\ AskedAfter /\ OneBooker
    BY <1>1, <1>5 DEF Searching, Uncached, AskedAfter, OneBooker, Booking
  <1>8. TakenOut /\ Dropping /\ Cancelling
    BY <1>5 DEF TakenOut, Dropping, Cancelling, At
  <1>9. OrderedOnce /\ BookedWhatWasAsked
    BY <1>5 DEF OrderedOnce, BookedWhatWasAsked
  <1> QED BY <1>4, <1>6, <1>7, <1>8, <1>9 DEF FlightInv

LEMMA FlightKeeps ==
  ASSUME FlightInv, Next
  PROVE  FlightInv'
  <1>1. ASSUME NEW c \in Calls, Step(c) PROVE FlightInv'
    BY <1>1, TokenSteps, SendOkStep, SendFails, CacheSteps, QuietSteps, ReturnMove DEF Step
  <1> QED BY <1>1, BeginSteps, ClockSteps DEF Next
-----------------------------------------------------------------------------
(* What the steps of the driver do to the offer cache.                      *)

Calm ==
    /\ UNCHANGED <<cache, quoted>>
    /\ \A d \in Calls : call'[d].at = "fill" => call'[d] = call[d]
    /\ \A d \in Calls : call[d].at = "fill" /\ call'[d].at = "done" => call[d].todo = {}

LEMMA CalmMove ==
  ASSUME TypeOK, NEW c \in Calls, NEW q, call' = [call EXCEPT ![c] = q], q.at # "fill",
         call[c].at = "fill" => call[c].todo = {}, UNCHANGED <<cache, quoted>>
  PROVE  Calm
  <1>1. call'[c] = q /\ \A d \in Calls : d # c => call'[d] = call[d]
    BY Typed
  <1> QED BY <1>1 DEF Calm

LEMMA CalmStep ==
  ASSUME FlightInv, NEW c \in Calls,
         \/ UseToken(c) \/ LockToken(c) \/ RefreshToken(c) \/ SendUnauthorized(c) \/ Invalidate(c)
         \/ SendLost(c) \/ SendRefused(c) \/ SendGarbled(c)
         \/ SendOk(c) /\ call[c].req # "search"
         \/ \E f \in Fares : Lookup(c, f) \/ DropFails(c, f)
         \/ \E o \in Offers : Reprice(c, o)
         \/ Filled(c) \/ LookedUp(c) \/ PostOrder(c) \/ NoTravellers(c) \/ Dropped(c) \/ Return(c)
         \/ \E s \in Searches : Search(c, s)
         \/ \E fares \in SUBSET Fares : Create(c, fares)
         \/ \E i \in OrderIds : Cancel(c, i) \/ Read(c, i)
  PROVE  Calm
  <1>1. PICK r : r = call[c]
    OBVIOUS
  <1>2. r \in CallRow /\ TypeOK /\ (r.at \in Asking => r.req \in ReqsOf(r.op))
    BY <1>1, CallFacts
  <1>3. /\ \A x : Finish(r, x).at = "done"
        /\ Raise(r).at = "done" /\ Again(r).at = "token"
        /\ \A k : Request(r, k).at = "token"
    BY <1>2 DEF CallRow, Finish, Raise, Again, Request, Idle
  <1>4. ASSUME NEW q, call' = [call EXCEPT ![c] = q], q.at # "fill",
               r.at = "fill" => r.todo = {}, UNCHANGED <<cache, quoted>>
        PROVE  Calm
    BY <1>1, <1>2, <1>4, CalmMove
  <1>5. CASE UseToken(c)
    <2>1. PICK q : q = Stage(r, "send", token)
      OBVIOUS
    <2>2. q.at # "fill"
      BY <1>2, <1>3, <2>1 DEF Stage, CallRow
    <2>3. call' = [call EXCEPT ![c] = q] /\ r.at # "fill" /\ UNCHANGED <<cache, quoted>>
      BY <1>1, <1>2, <1>5, <2>1 DEF UseToken, Stage, At, Set
    <2> QED BY <1>4, <2>2, <2>3
  <1>6. CASE LockToken(c)
    <2>1. PICK q : q = Stage(r, "refresh", r.tok)
      OBVIOUS
    <2>2. q.at # "fill"
      BY <1>2, <1>3, <2>1 DEF Stage, CallRow
    <2>3. call' = [call EXCEPT ![c] = q] /\ r.at # "fill" /\ UNCHANGED <<cache, quoted>>
      BY <1>1, <1>2, <1>6, <2>1 DEF LockToken, Goto, Stage, CallRow, At, Set
    <2> QED BY <1>4, <2>2, <2>3
  <1>7. CASE RefreshToken(c)
    <2>1. PICK q : q = Stage(r, "send", minted + 1)
      OBVIOUS
    <2>2. q.at # "fill"
      BY <1>2, <2>1 DEF Stage, CallRow
    <2>3. /\ call' = [call EXCEPT ![c] = q] \/ call' = [call EXCEPT ![c] = Raise(r)]
          /\ r.at # "fill" /\ UNCHANGED <<cache, quoted>>
      BY <1>1, <1>2, <1>7, <2>1 DEF RefreshToken, Stage, At, Set
    <2> QED BY <1>3, <1>4, <2>2, <2>3
  <1>8. CASE SendUnauthorized(c)
    <2>1. PICK q : q = IF r.attempts = 1 THEN Stage(r, "invalidate", r.tok) ELSE Raise(r)
      OBVIOUS
    <2>2. q.at # "fill"
      BY <1>2, <1>3, <2>1 DEF Stage, CallRow
    <2>3. call' = [call EXCEPT ![c] = q] /\ r.at # "fill" /\ UNCHANGED <<cache, quoted>>
      BY <1>1, <1>2, <1>8, <2>1 DEF SendUnauthorized, Stage, CallRow, At, Set
    <2> QED BY <1>4, <2>2, <2>3
  <1>9. CASE Invalidate(c)
    <2>1. PICK q : q = Again(r)
      OBVIOUS
    <2>2. q.at # "fill"
      BY <1>2, <1>3, <2>1
    <2>3. call' = [call EXCEPT ![c] = q] /\ r.at # "fill" /\ UNCHANGED <<cache, quoted>>
      BY <1>1, <1>2, <1>9, <2>1 DEF Invalidate, At, Set
    <2> QED BY <1>4, <2>2, <2>3
  <1>10. CASE SendLost(c)
    <2>1. PICK q : q = IF ShouldRetry(r) THEN Again(r) ELSE Raise(r)
      OBVIOUS
    <2>2. q.at # "fill"
      BY <1>2, <1>3, <2>1
    <2>3. call' = [call EXCEPT ![c] = q] /\ r.at # "fill" /\ UNCHANGED <<cache, quoted>>
      BY <1>1, <1>2, <1>10, <2>1 DEF SendLost, At, Set
    <2> QED BY <1>4, <2>2, <2>3
  <1>11. CASE SendRefused(c) \/ SendGarbled(c) \/ NoTravellers(c)
    <2>1. PICK q : q = Raise(r)
      OBVIOUS
    <2>2. q.at # "fill"
      BY <1>2, <1>3, <2>1
    <2>3. call' = [call EXCEPT ![c] = q] /\ r.at # "fill" /\ UNCHANGED <<cache, quoted>>
      BY <1>1, <1>2, <1>11, <2>1 DEF SendRefused, SendGarbled, NoTravellers, At, Set
    <2> QED BY <1>4, <2>2, <2>3
  <1>12. CASE SendOk(c) /\ r.req # "search"
    <2>1. r.req \in {"price", "order", "delete", "read"}
      BY <1>1, <1>2, <1>12 DEF SendOk, At, Asking, CallRow, ReqsOf
    <2>2. Continue(r).at # "fill"
      <3>1. CASE r.req \in {"price", "order"}
        BY <1>2, <3>1 DEF Continue, CallRow
      <3>2. CASE r.req \in {"delete", "read"}
        BY <1>3, <3>2 DEF Continue
      <3> QED BY <2>1, <3>1, <3>2
    <2>3. /\ call' = [call EXCEPT ![c] = Continue(r)] /\ r.at # "fill"
          /\ UNCHANGED <<cache, quoted>>
      BY <1>1, <1>12 DEF SendOk, At, Set
    <2> QED BY <1>4, <2>2, <2>3
  <1>13. ASSUME NEW f \in Fares, Lookup(c, f)
        PROVE  Calm
    <2>1. PICK q : q = IF Cached(f) THEN Collect(r, f) ELSE Raise(r)
      OBVIOUS
    <2>2. call' = [call EXCEPT ![c] = q] /\ r.at # "fill" /\ UNCHANGED <<cache, quoted>>
      BY <1>1, <1>2, <1>13, <2>1 DEF Lookup, At, Set
    <2>3. q.at # "fill"
      BY <1>2, <1>3, <2>1, <2>2 DEF Collect, CallRow
    <2> QED BY <1>4, <2>2, <2>3
  <1>14. ASSUME NEW f \in Fares, DropFails(c, f)
        PROVE  Calm
    <2>1. PICK q : q = Pruned(r, f)
      OBVIOUS
    <2>2. call' = [call EXCEPT ![c] = q] /\ r.at # "fill" /\ UNCHANGED <<cache, quoted>>
      BY <1>1, <1>2, <1>14, <2>1 DEF DropFails, Pruned, At, Set
    <2>3. q.at # "fill"
      BY <1>2, <1>3, <2>1, <2>2 DEF Pruned, CallRow
    <2> QED BY <1>4, <2>2, <2>3
  <1>15. ASSUME NEW o \in Offers, Reprice(c, o)
        PROVE  Calm
    <2>1. PICK q : q = Request([r EXCEPT !.stale = @ \ {o}], "price")
      OBVIOUS
    <2>2. call' = [call EXCEPT ![c] = q] /\ r.at # "fill" /\ UNCHANGED <<cache, quoted>>
      BY <1>1, <1>2, <1>15, <2>1 DEF Reprice, At, Set
    <2>3. q.at # "fill"
      BY <1>2, <1>3, <2>1, <2>2 DEF Request, CallRow
    <2> QED BY <1>4, <2>2, <2>3
  <1>16. CASE Filled(c) \/ Dropped(c)
    <2>1. /\ call' = [call EXCEPT ![c] = Finish(r, "ok")] /\ r.todo = {}
          /\ UNCHANGED <<cache, quoted>>
      BY <1>1, <1>16 DEF Filled, Dropped, Set
    <2> QED BY <1>3, <1>4, <2>1
  <1>17. CASE PostOrder(c)
    <2>1. PICK q : q = Request(r, "order")
      OBVIOUS
    <2>2. q.at # "fill"
      BY <1>2, <1>3, <2>1
    <2>3. call' = [call EXCEPT ![c] = q] /\ r.at # "fill" /\ UNCHANGED <<cache, quoted>>
      BY <1>1, <1>2, <1>17, <2>1 DEF PostOrder, At, Set
    <2> QED BY <1>4, <2>2, <2>3
  <1>18. CASE LookedUp(c)
    <2>1. PICK q : q = Staled(r, {o \in r.offers : NeedsReprice(o)})
      OBVIOUS
    <2>2. q.at # "fill"
      BY <1>2, <1>3, <2>1 DEF Staled, CallRow
    <2>3. call' = [call EXCEPT ![c] = q] /\ r.at # "fill" /\ UNCHANGED <<cache, quoted>>
      BY <1>1, <1>2, <1>18, <2>1 DEF LookedUp, Staled, At, Set
    <2> QED BY <1>4, <2>2, <2>3
  <1>19. CASE Return(c)
    <2>1. PICK q : q = Idle
      OBVIOUS
    <2>2. q.at # "fill"
      BY <1>2, <1>3, <2>1 DEF Idle
    <2>3. call' = [call EXCEPT ![c] = q] /\ r.at # "fill" /\ UNCHANGED <<cache, quoted>>
      BY <1>1, <1>2, <1>19, <2>1 DEF Return, At, Set
    <2> QED BY <1>4, <2>2, <2>3
  <1>20. ASSUME NEW s \in Searches, Search(c, s)
        PROVE  Calm
    <2>1. PICK q : q = Fresh("search", s, "search")
      OBVIOUS
    <2>2. call' = [call EXCEPT ![c] = q] /\ r.at # "fill" /\ UNCHANGED <<cache, quoted>>
      BY <1>1, <1>2, <1>20, <2>1 DEF Search, Fresh, At, Set
    <2>3. q.at # "fill"
      BY <1>2, <1>3, <2>1, <2>2 DEF Fresh, Request, Idle
    <2> QED BY <1>4, <2>2, <2>3
  <1>21. ASSUME NEW i \in OrderIds, Cancel(c, i)
        PROVE  Calm
    <2>1. PICK q : q = Fresh("cancel", i, "delete")
      OBVIOUS
    <2>2. call' = [call EXCEPT ![c] = q] /\ r.at # "fill" /\ UNCHANGED <<cache, quoted>>
      BY <1>1, <1>2, <1>21, <2>1 DEF Cancel, Fresh, At, Set
    <2>3. q.at # "fill"
      BY <1>2, <1>3, <2>1, <2>2 DEF Fresh, Request, Idle
    <2> QED BY <1>4, <2>2, <2>3
  <1>22. ASSUME NEW i \in OrderIds, Read(c, i)
        PROVE  Calm
    <2>1. PICK q : q = Fresh("read", i, "read")
      OBVIOUS
    <2>2. call' = [call EXCEPT ![c] = q] /\ r.at # "fill" /\ UNCHANGED <<cache, quoted>>
      BY <1>1, <1>2, <1>22, <2>1 DEF Read, Fresh, At, Set
    <2>3. q.at # "fill"
      BY <1>2, <1>3, <2>1, <2>2 DEF Fresh, Request, Idle
    <2> QED BY <1>4, <2>2, <2>3
  <1>23. ASSUME NEW fares \in SUBSET Fares, Create(c, fares)
        PROVE  Calm
    <2>1. PICK q : q = [Idle EXCEPT !.at = "lookup", !.op = "create", !.fares = fares, !.todo = fares]
      OBVIOUS
    <2>2. call' = [call EXCEPT ![c] = q] /\ r.at # "fill" /\ UNCHANGED <<cache, quoted>>
      BY <1>1, <1>2, <1>23, <2>1 DEF Create, At, Set
    <2>3. q.at # "fill"
      BY <1>2, <1>3, <2>1, <2>2 DEF Idle
    <2> QED BY <1>4, <2>2, <2>3
  <1> QED BY <1>1, <1>5, <1>6, <1>7, <1>8, <1>9, <1>10, <1>11, <1>12, <1>13, <1>14,
       <1>15, <1>16, <1>17, <1>18, <1>19, <1>20, <1>21, <1>22, <1>23

LEMMA CacheEffects ==
  ASSUME FlightInv, Next
  PROVE  \/ Calm
         \/ \E c \in Calls :
              \/ SendOk(c) /\ call[c].req = "search"
              \/ \E f \in Fares : Fill(c, f) \/ FillFails(c, f) \/ Drop(c, f)
  <1>1. ASSUME TokenLapses \/ Tick \/ \E t \in 1 .. MaxTokens : TokenDies(t)
        PROVE  Calm
    BY <1>1 DEF TokenLapses, Tick, TokenDies, Calm
  <1>2. ASSUME NEW c \in Calls, Step(c)
        PROVE  \/ Calm
               \/ SendOk(c) /\ call[c].req = "search"
               \/ \E f \in Fares : Fill(c, f) \/ FillFails(c, f) \/ Drop(c, f)
    BY <1>2, CalmStep DEF Step
  <1> QED BY <1>1, <1>2, CalmStep DEF Next

(* Orders are never given up.                                               *)
LEMMA OrderedStays ==
  ASSUME FlightInv, Next, NEW f, Ordered(f)
  PROVE  Ordered(f)'
  <1>1. \/ UNCHANGED order
        \/ \E c \in Calls : call[c].at = "send" /\ Handle(c)
    <2>1. ASSUME NEW c \in Calls, Step(c)
          PROVE  UNCHANGED order \/ (call[c].at = "send" /\ Handle(c))
      <3>1. CASE SendLost(c) \/ SendGarbled(c) \/ SendOk(c)
        BY <3>1 DEF SendLost, SendGarbled, SendOk, At
      <3>2. CASE UseToken(c) \/ LockToken(c) \/ RefreshToken(c) \/ SendUnauthorized(c)
                 \/ Invalidate(c) \/ SendRefused(c)
        BY <3>2 DEF UseToken, LockToken, RefreshToken, SendUnauthorized, Invalidate,
           SendRefused, vendor
      <3>3. CASE \E g \in Fares : Fill(c, g) \/ FillFails(c, g) \/ Lookup(c, g)
                                  \/ Drop(c, g) \/ DropFails(c, g)
        BY <3>3 DEF Fill, FillFails, Lookup, Drop, DropFails, vendor
      <3>4. CASE \/ Filled(c) \/ LookedUp(c) \/ PostOrder(c) \/ NoTravellers(c)
                 \/ Dropped(c) \/ Return(c) \/ \E o \in Offers : Reprice(c, o)
        BY <3>4 DEF Filled, LookedUp, PostOrder, NoTravellers, Dropped, Return, Reprice, vendor
      <3> QED BY <2>1, <3>1, <3>2, <3>3, <3>4 DEF Step
    <2>2. ASSUME NEW c \in Calls,
                 \/ \E s \in Searches : Search(c, s)
                 \/ \E fares \in SUBSET Fares : Create(c, fares)
                 \/ \E i \in OrderIds : Cancel(c, i) \/ Read(c, i)
          PROVE  UNCHANGED order
      BY <2>2 DEF Search, Create, Cancel, Read, vendor
    <2>3. ASSUME TokenLapses \/ Tick \/ \E t \in 1 .. MaxTokens : TokenDies(t)
          PROVE  UNCHANGED order
      BY <2>3 DEF TokenLapses, Tick, TokenDies, vendor
    <2> QED BY <2>1, <2>2, <2>3 DEF Next
  <1>2. CASE UNCHANGED order
    BY <1>2 DEF Ordered
  <1>3. ASSUME NEW c \in Calls, call[c].at = "send", Handle(c)
        PROVE  Ordered(f)'
    <2>1. PICK j \in OrderIds : f \in order[j].fares
      BY DEF Ordered
    <2>2. CASE call[c].req # "order"
      BY <1>3, <2>1, <2>2, Handled DEF OrdersKept, Ordered
    <2>3. CASE call[c].req = "order"
      <3>1. PICK i \in OrderIds :
               /\ order[i] = NoOrder
               /\ order' = [order EXCEPT ![i] = [state |-> "live", offers |-> call[c].offers,
                                                 fares |-> call[c].fares]]
        BY <1>3, <2>3, Handled
      <3>2. i # j
        BY <2>1, <3>1 DEF NoOrder
      <3>3. order'[j] = order[j]
        BY <3>1, <3>2, Typed DEF FlightInv
      <3> QED BY <2>1, <3>3 DEF Ordered
    <2> QED BY <2>2, <2>3
  <1> QED BY <1>1, <1>2, <1>3
-----------------------------------------------------------------------------
(* The tools on top of the driver.                                          *)

LEMMA ShownFare ==
  ASSUME TypeOK
  PROVE  \A f \in SearchFlights :
            \E c \in Calls : /\ call[c].at = "fill" /\ call'[c].at = "done"
                             /\ f \in Fares /\ f[1] = call[c].target
  <1> SUFFICES ASSUME NEW f, f \in SearchFlights
               PROVE  \E c \in Calls : /\ call[c].at = "fill" /\ call'[c].at = "done"
                                       /\ f \in Fares /\ f[1] = call[c].target
    OBVIOUS
  <1>1. PICK D : D = {d \in Calls : At(d, "fill") /\ call'[d].at = "done"}
    OBVIOUS
  <1>2. f \in UNION {Summaries(call[c].target) : c \in D}
    BY <1>1 DEF SearchFlights
  <1>3. PICK c \in D : f \in Summaries(call[c].target)
    BY <1>2
  <1>4. f \in Fares /\ f[1] = call[c].target
    BY <1>3 DEF Summaries
  <1> QED BY <1>1, <1>4 DEF At

LEMMA ToldMove ==
  ASSUME TypeOK, ToldTyped,
         told' = [told EXCEPT !.fares = @ \cup SearchFlights, !.status = ReadPnr]
  PROVE  ToldTyped' /\ told'.fares = told.fares \cup SearchFlights
  <1>1. SearchFlights \subseteq Fares
    BY ShownFare
  <1>2. ReadPnr \in [OrderIds -> {"none", "live", "cancelled"}]
    <2>1. \A i \in OrderIds : /\ told.status[i] \in {"none", "live", "cancelled"}
                              /\ order[i].state \in {"none", "live", "cancelled"}
      BY Typed DEF ToldTyped, OrderRow
    <2> QED BY <2>1 DEF ReadPnr
  <1>3. PICK S, T : S = told.fares \cup SearchFlights /\ T = ReadPnr
    OBVIOUS
  <1>4. told' = [told EXCEPT !.fares = S, !.status = T]
    BY <1>3 DEF ToldTyped
  <1>5. S \subseteq Fares /\ T \in [OrderIds -> {"none", "live", "cancelled"}]
    BY <1>1, <1>2, <1>3 DEF ToldTyped
  <1> QED BY <1>3, <1>4, <1>5 DEF ToldTyped

(* Entries last as long as the cache, the quotes and the history keep them. *)
LEMMA LastingStays ==
  ASSUME NEW f, Lasting(f), unkept \subseteq unkept', cache'[f] = cache[f],
         quoted'[f[1]] = quoted[f[1]]
  PROVE  Lasting(f)'
  BY DEF Lasting

(* A fare is put in the cache by one search, and taken out of it only after *)
(* that search has returned.                                                *)
LEMMA OneFiller ==
  ASSUME FlightInv, NEW c \in Calls, call[c].at = "fill"
  PROVE  /\ call[c].op = "search" /\ quoted[call[c].target] # 0 /\ ~Returned(call[c].target)
         /\ \A d \in Calls : d # c /\ call[d].at = "fill" => call[d].target # call[c].target
         /\ call[c].target \in Searches
  <1>1. \A d \in Calls : call[d].at = "fill" => call[d].op = "search" /\ call[d].target \in Searches
    BY DEF FlightInv, Shapes, Shape
  <1> QED BY <1>1 DEF FlightInv, Searching, Returned

LEMMA DeskMoves ==
  ASSUME DeskInv, Ticketing(Next)
  PROVE  DeskInv'
  <1>1. /\ FlightInv /\ TypeOK /\ ToldTyped /\ Filling /\ Showing /\ Next
        /\ cache \in [Fares -> Nat] /\ quoted \in [Searches -> Nat] /\ call \in [Calls -> CallRow]
    BY Typed DEF DeskInv, FlightInv, Ticketing
  <1>2. FlightInv'
    BY <1>1, FlightKeeps
  <1>3. ToldTyped' /\ told'.fares = told.fares \cup SearchFlights
    BY <1>1, ToldMove DEF Ticketing
  <1>4. unkept \subseteq unkept'
    BY DEF Ticketing
  <1>5. \A f : Ordered(f) => Ordered(f)'
    BY <1>1, OrderedStays
  <1>6. \A f \in Fares : f[1] \in Searches
    BY FareFacts
  <1>7. told.fares \subseteq Fares
    BY <1>1 DEF ToldTyped
  <1>8. CASE Calm
    <2>1. \A f : Lasting(f) => Lasting(f)'
      BY <1>4, <1>8, LastingStays DEF Calm
    <2>2. Filling'
      BY <1>1, <1>8, <2>1 DEF Filling, Calm, At
    <2>3. ASSUME NEW f \in SearchFlights PROVE quoted[f[1]] # 0 /\ Lasting(f)
      <3>1. PICK c \in Calls : /\ call[c].at = "fill" /\ call'[c].at = "done"
                               /\ f \in Fares /\ f[1] = call[c].target
        BY <1>1, ShownFare
      <3>2. call[c].todo = {} /\ quoted[f[1]] # 0
        BY <1>1, <1>8, <3>1, OneFiller DEF Calm
      <3> QED BY <1>1, <3>1, <3>2 DEF Filling, At
    <2>4. UNCHANGED quoted
      BY <1>8 DEF Calm
    <2>5. Showing'
      BY <1>1, <1>3, <1>5, <2>1, <2>3, <2>4 DEF Showing
    <2> QED BY <1>2, <1>3, <2>2, <2>5 DEF DeskInv
  <1>9. ASSUME NEW c \in Calls, NEW q \in CallRow, call' = [call EXCEPT ![c] = q], q.at # "done"
        PROVE  /\ told'.fares = told.fares
               /\ call'[c] = q /\ \A d \in Calls : d # c => call'[d] = call[d]
    <2>1. call'[c] = q /\ \A d \in Calls : d # c => call'[d] = call[d]
      BY <1>1, <1>9
    <2>2. SearchFlights = {}
      BY <1>1, <1>9, <2>1, ShownFare
    <2> QED BY <1>3, <2>1, <2>2
  <1>10. ASSUME NEW c \in Calls, SendOk(c), call[c].req = "search"
         PROVE  Filling' /\ Showing'
    <2>1. PICK s : s = call[c].target
      OBVIOUS
    <2>2. PICK q : q = Moved(call[c], "fill", {f \in Fares : f[1] = s})
      OBVIOUS
    <2>3. call[c] \in CallRow /\ call[c].op = "search" /\ call[c].at = "send" /\ s \in Searches
      BY <1>1, <1>10, <2>1, CallFacts DEF SendOk, At, Asking, ReqsOf, CallRow, Shape
    <2>4. /\ q \in CallRow /\ q.at = "fill" /\ q.target = s
          /\ q.todo = {f \in Fares : f[1] = s}
      BY <2>1, <2>2, <2>3 DEF Moved, CallRow, Stages
    <2>5. /\ call' = [call EXCEPT ![c] = q] /\ quoted' = [quoted EXCEPT ![s] = now]
          /\ UNCHANGED cache
      BY <1>10, <2>1, <2>2 DEF SendOk, Set, Continue, Moved
    <2>6. /\ told'.fares = told.fares
          /\ call'[c] = q /\ \A d \in Calls : d # c => call'[d] = call[d]
      BY <1>9, <2>4, <2>5
    <2>7. quoted[s] = 0 /\ \A f \in Fares : f[1] = s => cache[f] = 0
      BY <1>1, <2>1, <2>3 DEF FlightInv, Searching, Uncached
    <2>8. \A x \in Searches : x # s => quoted'[x] = quoted[x]
      BY <1>1, <2>5
    <2>9. \A f \in Fares : f[1] # s /\ Lasting(f) => Lasting(f)'
      BY <1>4, <1>6, <2>5, <2>8, LastingStays
    <2>10. \A d \in Calls : d # c /\ call[d].at = "fill" => call[d].target # s
      BY <1>1, <2>7, OneFiller
    <2>11. Filling'
      <3>1. SUFFICES ASSUME NEW d \in Calls, call'[d].at = "fill",
                            NEW f \in Fares, f[1] = call'[d].target
                     PROVE  IF f \in call'[d].todo THEN cache'[f] = 0 ELSE Lasting(f)'
        BY DEF Filling, At
      <3>2. CASE d = c
        BY <2>4, <2>5, <2>6, <2>7, <3>1, <3>2
      <3>3. CASE d # c
        BY <1>1, <2>5, <2>6, <2>9, <2>10, <3>1, <3>3 DEF Filling, At
      <3> QED BY <3>2, <3>3
    <2>12. Showing'
      <3>1. SUFFICES ASSUME NEW f \in told.fares
                     PROVE  quoted'[f[1]] # 0 /\ (Lasting(f)' \/ Ordered(f)')
        BY <2>6 DEF Showing
      <3>2. f \in Fares /\ quoted[f[1]] # 0 /\ (Lasting(f) \/ Ordered(f))
        BY <1>1, <1>7 DEF Showing
      <3>3. f[1] \in Searches /\ f[1] # s
        BY <1>6, <2>7, <3>2
      <3> QED BY <1>5, <2>8, <2>9, <3>2, <3>3
    <2> QED BY <2>11, <2>12
  <1>11. ASSUME NEW c \in Calls, NEW f \in Fares, Fill(c, f) \/ FillFails(c, f)
         PROVE  Filling' /\ Showing'
    <2>1. PICK q : q = Pruned(call[c], f)
      OBVIOUS
    <2>2. /\ call[c] \in CallRow /\ call[c].at = "fill" /\ f \in call[c].todo
          /\ f[1] = call[c].target
      BY <1>1, <1>11, CallFacts DEF Fill, FillFails, At, Foremost, Shape
    <2>3. /\ q \in CallRow /\ q.at = "fill" /\ q.target = call[c].target
          /\ q.todo = call[c].todo \ {f}
      BY <2>1, <2>2 DEF Pruned, CallRow
    <2>4. call' = [call EXCEPT ![c] = q] /\ UNCHANGED <<quoted, now>>
      BY <1>11, <2>1 DEF Fill, FillFails, Set, Pruned
    <2>5. /\ told'.fares = told.fares
          /\ call'[c] = q /\ \A d \in Calls : d # c => call'[d] = call[d]
      BY <1>9, <2>3, <2>4
    <2>6. \A g \in Fares : g # f => cache'[g] = cache[g]
      BY <1>1, <1>11 DEF Fill, FillFails
    <2>7. Lasting(f)'
      <3>1. CASE Fill(c, f)
        <4>1. cache'[f] = now + OfferTtl
          BY <1>1, <3>1 DEF Fill
        <4>2. quoted[f[1]] <= now /\ quoted[f[1]] \in Nat /\ now \in Nat
          BY <1>1, <1>6 DEF FlightInv, Clocked
        <4> QED BY <2>4, <4>1, <4>2, FlightAssumption DEF Lasting
      <3>2. CASE FillFails(c, f)
        <4>1. cache'[f] = 0
          BY <1>1, <2>2, <3>2 DEF FillFails, Filling, At
        <4>2. f \in call[c].todo \ call'[c].todo /\ At(c, "fill")
          BY <2>2, <2>3, <2>5 DEF At
        <4> QED BY <4>1, <4>2 DEF Ticketing, Lasting
      <3> QED BY <1>11, <3>1, <3>2
    <2>8. \A g \in Fares : g # f /\ Lasting(g) => Lasting(g)'
      BY <1>4, <2>4, <2>6, LastingStays
    <2>9. \A d \in Calls : d # c /\ call[d].at = "fill" => call[d].target # f[1]
      BY <1>1, <2>2, OneFiller
    <2>10. Filling'
      <3>1. SUFFICES ASSUME NEW d \in Calls, call'[d].at = "fill",
                            NEW g \in Fares, g[1] = call'[d].target
                     PROVE  IF g \in call'[d].todo THEN cache'[g] = 0 ELSE Lasting(g)'
        BY DEF Filling, At
      <3>2. CASE d = c
        <4>1. g = f => g \notin call'[d].todo
          BY <2>3, <2>5, <3>2
        <4>2. g # f => IF g \in call[c].todo THEN cache[g] = 0 ELSE Lasting(g)
          BY <1>1, <2>2, <2>3, <2>5, <3>1, <3>2 DEF Filling, At
        <4> QED BY <2>3, <2>5, <2>6, <2>7, <2>8, <3>2, <4>1, <4>2
      <3>3. CASE d # c
        <4>1. g # f /\ call'[d] = call[d]
          BY <2>5, <2>9, <3>1, <3>3
        <4> QED BY <1>1, <2>6, <2>8, <3>1, <4>1 DEF Filling, At
      <3> QED BY <3>2, <3>3
    <2>11. Showing'
      BY <1>1, <1>5, <1>7, <2>4, <2>5, <2>7, <2>8 DEF Showing
    <2> QED BY <2>10, <2>11
  <1>12. ASSUME NEW c \in Calls, NEW f \in Fares, Drop(c, f)
         PROVE  Filling' /\ Showing'
    <2>1. PICK q : q = Pruned(call[c], f)
      OBVIOUS
    <2>2. call[c] \in CallRow /\ call[c].at = "drop" /\ f \in call[c].fares
      BY <1>1, <1>12, CallFacts DEF Drop, At, Foremost, Shape
    <2>3. q \in CallRow /\ q.at = "drop"
      BY <2>1, <2>2 DEF Pruned, CallRow
    <2>4. call' = [call EXCEPT ![c] = q] /\ UNCHANGED quoted
      BY <1>12, <2>1 DEF Drop, Set, Pruned
    <2>5. /\ told'.fares = told.fares
          /\ call'[c] = q /\ \A d \in Calls : d # c => call'[d] = call[d]
      BY <1>9, <2>3, <2>4
    <2>6. \A g \in Fares : g # f => cache'[g] = cache[g]
      BY <1>1, <1>12 DEF Drop
    <2>7. \A g \in Fares : g # f /\ Lasting(g) => Lasting(g)'
      BY <1>4, <2>4, <2>6, LastingStays
    <2>8. Ordered(f) /\ Returned(f[1])
      BY <1>1, <2>2 DEF FlightInv, Dropping, AskedAfter, Ordered, At
    <2>9. \A d \in Calls : call[d].at = "fill" => call[d].target # f[1]
      BY <1>1, <2>8, OneFiller
    <2>10. Filling'
      <3>1. SUFFICES ASSUME NEW d \in Calls, call'[d].at = "fill",
                            NEW g \in Fares, g[1] = call'[d].target
                     PROVE  IF g \in call'[d].todo THEN cache'[g] = 0 ELSE Lasting(g)'
        BY DEF Filling, At
      <3>2. d # c /\ call'[d] = call[d]
        BY <2>3, <2>5, <3>1
      <3>3. g # f
        BY <2>9, <3>1, <3>2
      <3> QED BY <1>1, <2>6, <2>7, <3>1, <3>2, <3>3 DEF Filling, At
    <2>11. Showing'
      BY <1>1, <1>5, <1>7, <2>4, <2>5, <2>7, <2>8 DEF Showing
    <2> QED BY <2>10, <2>11
  <1>13. CASE \E c \in Calls :
                 \/ SendOk(c) /\ call[c].req = "search"
                 \/ \E f \in Fares : Fill(c, f) \/ FillFails(c, f) \/ Drop(c, f)
    BY <1>2, <1>3, <1>10, <1>11, <1>12, <1>13 DEF DeskInv
  <1> QED BY <1>1, <1>8, <1>13, CacheEffects

LEMMA DeskStays ==
  ASSUME DeskInv, UNCHANGED vars, UNCHANGED unkept, ToldTyped', told'.fares = told.fares
  PROVE  DeskInv'
  <1>1. FlightInv'
    <2>1. VendorTyped' /\ UNCHANGED <<call, cache, quoted, order, excused, now>>
      BY Typed DEF vars, VendorTyped, DeskInv, FlightInv
    <2> QED BY <2>1, ClockMove DEF DeskInv
  <1>2. \A f : (Lasting(f)' <=> Lasting(f)) /\ (Ordered(f)' <=> Ordered(f))
    BY DEF vars, Lasting, Ordered
  <1>3. Filling' /\ Showing'
    BY <1>2 DEF DeskInv, Filling, Showing, At, vars
  <1> QED BY <1>1, <1>3 DEF DeskInv

LEMMA DeskBegins ==
  ASSUME TravelInit
  PROVE  DeskInv
  <1>1. FlightInv
    BY FlightBegins DEF TravelInit
  <1>2. told.fares = {} /\ ToldTyped
    BY DEF TravelInit, ToldTyped
  <1>3. \A c \in Calls : call[c].at = "idle"
    BY DEF TravelInit, Init, Idle
  <1> QED BY <1>1, <1>2, <1>3 DEF DeskInv, Filling, Showing, At

LEMMA DeskSays ==
  ASSUME DeskInv
  PROVE  OrdersTrue
  <1>1. TypeOK /\ OrderedOnce /\ BookedWhatWasAsked
    BY DEF DeskInv, FlightInv
  <1>2. CancelledMeansCancelled
    BY DEF DeskInv, FlightInv, Cancelling, CancelledMeansCancelled
  <1>3. AttemptsBounded
    BY DEF DeskInv, FlightInv, Shapes, Shape, MaxAttempts, AttemptsBounded
  <1>4. ShownBookable
    <2> SUFFICES ASSUME NEW f \in told.fares \ unkept
                 PROVE  \/ Cached(f) \/ now >= quoted[f[1]] + OfferTtl
                        \/ \E i \in OrderIds : f \in order[i].fares
      BY DEF ShownBookable
    <2>1. f \in Fares /\ (cache[f] >= quoted[f[1]] + OfferTtl \/ Ordered(f))
      BY DEF DeskInv, ToldTyped, Showing, Lasting
    <2>2. cache[f] \in Nat /\ quoted[f[1]] \in Nat /\ now \in Nat
      BY <1>1, <2>1, FareFacts, Typed
    <2> QED BY <2>1, <2>2, FlightAssumption DEF Cached, Ordered
  <1> QED BY <1>1, <1>2, <1>3, <1>4 DEF OrdersTrue

(* Whatever calls, failures, retries and lapses the driver meets, a fare is *)
(* ordered once but for the three excuses, an order holds the offers of the *)
(* fares it is for, a cancellation that answers has cancelled, no request   *)
(* is sent more often than allowed, and a fare search_flights has shown can *)
(* be booked until it lapses (driver.py, client.py, offer_cache.py,         *)
(* tools.py search_flights).                                                *)
THEOREM OrdersAlwaysTrue == TravelSpec => []OrdersTrue
  <1>1. TravelInit => DeskInv
    BY DeskBegins
  <1>2. DeskInv /\ [TravelNext]_travelVars => DeskInv'
    <2> SUFFICES ASSUME DeskInv, [TravelNext]_travelVars PROVE DeskInv'
      OBVIOUS
    <2>1. CASE Ticketing(Next)
      BY <2>1, DeskMoves
    <2>2. CASE IssueTicket
      <3>1. ToldTyped' /\ told'.fares = told.fares
        BY <2>2 DEF IssueTicket, DeskInv, ToldTyped
      <3> QED BY <2>2, <3>1, DeskStays DEF IssueTicket
    <2>3. CASE AtHotels(HotelNext)
      <3>1. ToldTyped' /\ told'.fares = told.fares
        BY <2>3 DEF AtHotels, DeskInv, ToldTyped
      <3> QED BY <2>3, <3>1, DeskStays DEF AtHotels
    <2>4. CASE UNCHANGED travelVars
      <3>1. ToldTyped' /\ told'.fares = told.fares /\ UNCHANGED vars /\ UNCHANGED unkept
        BY <2>4 DEF travelVars, DeskInv, ToldTyped
      <3> QED BY <3>1, DeskStays
    <2> QED BY <2>1, <2>2, <2>3, <2>4 DEF TravelNext
  <1>3. DeskInv => OrdersTrue
    BY DeskSays
  <1> QED BY <1>1, <1>2, <1>3, PTL DEF TravelSpec
=============================================================================
