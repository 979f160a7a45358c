------------------------------ MODULE Hotels ------------------------------
(***************************************************************************)
(* The hotel desk: the tools search_hotels, check_hotel_rate, book_hotel,  *)
(* cancel_hotel_booking and read_hotel_booking (agent_runtime tools.py)    *)
(* over the TBO driver (drivers/tbo: driver.py, client.py, errors.py).     *)
(* The agent loop runs its tools one after the other; the supplier's rates *)
(* move all the time.  The supplier is external: a stock of hotels with    *)
(* rooms, some of whose fields are missing or unusable.                    *)
(***************************************************************************)
EXTENDS Integers, Sequences, SequencesExt

CONSTANTS
    Stocks,        \* what the supplier may have when the desk opens
    Queries,       \* what the agent may ask for: nights and a budget
    ShownHotels,   \* search_hotels shows the first 20 results
    ShownKeys,     \* and the first 5 rate keys of each
    Prices,        \* amounts a rate may move to
    HotelBudgets   \* calls, failures and changes of a behaviour

ASSUME HotelAssumption == ShownHotels \in Nat \ {0} /\ ShownKeys \in Nat \ {0}

VARIABLES
    stock,     \* the supplier's hotels
    desk,      \* the tool call in progress
    heard,     \* what the agent has been told
    spare,     \* calls, failures and changes still to come
    \* history
    asking     \* what the supplier asked for the key of the call, since it began

hotelVars == <<stock, desk, heard, spare, asking>>

NoDesk == [at |-> "idle", tool |-> "none", key |-> "none", budget |-> 0, body |-> <<>>]

\* The last answer, and the last search that had one.
Nothing == [tool |-> "none", reason |-> "none", rate |-> <<>>,
            count |-> 0, results |-> <<>>, body |-> <<>>, budget |-> 0]

HotelInit ==
    /\ stock \in Stocks
    /\ desk = NoDesk /\ heard = Nothing
    /\ spare \in HotelBudgets
    /\ asking = {}

SpendHotel(k) == spare[k] > 0 /\ spare' = [spare EXCEPT ![k] = @ - 1]

-----------------------------------------------------------------------------
(* Parsing.  A room has a total (0 when missing), a price (-1 when         *)
(* missing), a currency ("" when missing), a booking code and an           *)
(* occupancy; "bad" stands for a value the canonical types refuse.         *)

RoomPrice(r) == IF r.total # 0 THEN r.total ELSE r.price
RoomCurrency(r) == IF r.currency = "" THEN "USD" ELSE r.currency

\* _parse_rate_entry returns None, raises, or gives the rate.
Unpriced(r) == RoomPrice(r) = -1 \/ RoomCurrency(r) = "bad"
RateRaises(r) == ~Unpriced(r) /\ r.occupancy = "bad"
ParseRateEntry(r) == [key |-> r.key, amount |-> RoomPrice(r), currency |-> RoomCurrency(r)]

ParseRates(rooms) ==
    LET priced == SelectSeq(rooms, LAMBDA r : ~Unpriced(r))
    IN  [i \in DOMAIN priced |-> ParseRateEntry(priced[i])]

\* HotelProperty refuses a country whose first two characters are no letters,
\* and a rating of 0; a missing or longer country ("odd") is made to fit.
HotelRaises(h) == h.country = "bad" \/ h.stars = 0 \/ \E r \in ToSet(h.rooms) : RateRaises(r)

\* _parse_search_results: a hotel without rates is left out, and one that
\* raises takes the whole search with it.
ParseRaises(hotels) == \E h \in ToSet(hotels) : HotelRaises(h)

ParseSearchResults(hotels) ==
    LET all == [i \in DOMAIN hotels |-> [code |-> hotels[i].code, rates |-> ParseRates(hotels[i].rooms)]]
    IN  SelectSeq(all, LAMBDA h : h.rates # <<>>)

\* _parse_search_offers: the first room of each hotel with a country, unusable
\* ones skipped.  No price is a price of 0, no room a room without fields, and
\* without a booking code the offer is referred to by the hotel's own code.
NoRoom == [key |-> "", total |-> 0, price |-> -1, currency |-> "", occupancy |-> "ok"]
FirstRoom(h) == IF h.rooms = <<>> THEN NoRoom ELSE h.rooms[1]
OfferPrice(r) == IF RoomPrice(r) = -1 THEN 0 ELSE RoomPrice(r)
HotelOffer(h) ==
    LET r == FirstRoom(h)
    IN  [code |-> h.code, ref |-> IF r.key = "" THEN h.code ELSE r.key,
         amount |-> OfferPrice(r), currency |-> RoomCurrency(r)]
ParseSearchOffers(hotels) ==
    LET usable == SelectSeq(hotels, LAMBDA h : /\ h.country \notin {"bad", "odd"}
                                               /\ RoomCurrency(FirstRoom(h)) # "bad")
    IN  [i \in DOMAIN usable |-> HotelOffer(usable[i])]

Cheaper(a, b) == IF a = <<>> \/ b.amount < a[1].amount THEN <<b>> ELSE a

(* Mutant of Summary: the first rate is taken for the cheapest.            *)
SummaryFirst(h) ==
    [code |-> h.code, rates |-> Len(h.rates), from |-> h.rates[1],
     keys |-> [i \in 1..IF Len(h.rates) < ShownKeys THEN Len(h.rates) ELSE ShownKeys |-> h.rates[i].key]]

\* _hotel_result_summary: the smallest amount, whatever its currency.
Summary(h) ==
    [code |-> h.code, rates |-> Len(h.rates), from |-> FoldLeft(Cheaper, <<>>, h.rates)[1],
     keys |-> [i \in 1..IF Len(h.rates) < ShownKeys THEN Len(h.rates) ELSE ShownKeys |-> h.rates[i].key]]

Shown(results) ==
    [i \in 1..IF Len(results) < ShownHotels THEN Len(results) ELSE ShownHotels |-> Summary(results[i])]

-----------------------------------------------------------------------------
(* The supplier.                                                           *)

RoomsWith(k) == {r \in UNION {ToSet(stock[i].rooms) : i \in DOMAIN stock} : r.key = k}
Offered(k) == {ParseRateEntry(r) : r \in RoomsWith(k)}

\* A rate moves; the old key stays good.
RateMoves(i, j, p) ==
    /\ SpendHotel("move") /\ stock[i].rooms[j].total # p
    /\ stock' = [stock EXCEPT ![i].rooms[j].total = p]
    /\ asking' = IF desk.at = "sent" /\ desk.key = stock[i].rooms[j].key
                 THEN asking \cup {ParseRateEntry(stock'[i].rooms[j])} ELSE asking
    /\ UNCHANGED <<desk, heard>>

RoomSold(i, j) ==
    /\ SpendHotel("move")
    /\ stock' = [stock EXCEPT ![i].rooms = RemoveAt(@, j)]
    /\ UNCHANGED <<desk, heard, asking>>

-----------------------------------------------------------------------------
(* The tools.                                                              *)

Tell(told) == heard' = told /\ desk' = NoDesk
Refuse(tool, reason) ==
    Tell([heard EXCEPT !.tool = tool, !.reason = reason, !.rate = <<>>])

\* _resolve_hotel_search_driver: a tenant without credentials has none.
NoDriver(tool) ==
    /\ desk.at = "idle" /\ SpendHotel("call") /\ spare.credentials = 0
    /\ Refuse(tool, "no hotel driver configured")
    /\ UNCHANGED <<stock, asking>>

Begin(tool, key, budget) ==
    /\ desk' = [NoDesk EXCEPT !.at = "sent", !.tool = tool, !.key = key, !.budget = budget]
    /\ asking' = Offered(key)
    /\ heard' = [heard EXCEPT !.tool = "none", !.reason = "none", !.rate = <<>>]

\* search_hotels: the dates are checked, the budget goes no further.
SearchHotels(q) ==
    /\ desk.at = "idle" /\ SpendHotel("call") /\ spare.credentials > 0
    /\ IF q.nights > 0 THEN Begin("search_hotels", "none", q.budget)
       ELSE Refuse("search_hotels", "bad dates") /\ UNCHANGED asking
    /\ UNCHANGED stock

KnownKeys == UNION {ToSet(heard.results[i].keys) : i \in DOMAIN heard.results} \ {""}

CheckHotelRate(k) ==
    /\ desk.at = "idle" /\ SpendHotel("call") /\ spare.credentials > 0
    /\ Begin("check_hotel_rate", k, 0)
    /\ UNCHANGED stock

\* book, cancel and read are not supported by the driver.
Unsupported(tool) ==
    /\ desk.at = "idle" /\ SpendHotel("call") /\ spare.credentials > 0
    /\ Refuse(tool, "capability_not_supported")
    /\ UNCHANGED <<stock, asking>>

BookHotel == KnownKeys # {} /\ Unsupported("book_hotel")
CancelHotelBooking == Unsupported("cancel_hotel_booking")
ReadHotelBooking == Unsupported("read_hotel_booking")

\* TBOClient.post_json: the supplier answers with what it has now ...
SupplierAnswers ==
    /\ desk.at = "sent"
    /\ desk' = [desk EXCEPT !.at = "got",
                   !.body = IF desk.tool = "search_hotels" THEN stock
                            ELSE <<[code |-> "rate", country |-> "IN", stars |-> 3,
                                    rooms |-> SetToSeq(RoomsWith(desk.key))]>>]
    /\ UNCHANGED <<stock, heard, spare, asking>>

\* map_tbo_error.
ErrorOf(outcome) ==
    CASE outcome = "timeout" -> "UpstreamTimeoutError"
      [] outcome = "network" -> "TransientError"
      [] outcome = "401" -> "AuthenticationError"
      [] outcome = "403" -> "AuthorizationError"
      [] outcome = "429" -> "RateLimitError"
      [] outcome \in {"400", "422"} -> "ValidationFailedError"
      [] outcome = "5xx" -> "TransientError"
      [] OTHER -> "PermanentError"

\* ... or not.  The client has max_retries in its configuration and no retry.
SupplierFails ==
    /\ desk.at = "sent" /\ SpendHotel("fail")
    /\ \E outcome \in {"timeout", "network", "401", "403", "429", "400", "422", "5xx", "other"} :
          Refuse(desk.tool, ErrorOf(outcome))
    /\ UNCHANGED <<stock, asking>>

SearchAnswered ==
    /\ desk.at = "got" /\ desk.tool = "search_hotels"
    /\ IF ParseRaises(desk.body) THEN Refuse(desk.tool, "ValidationError")
       ELSE LET results == ParseSearchResults(desk.body)
            IN  Tell([Nothing EXCEPT !.tool = desk.tool, !.count = Len(results),
                                     !.results = Shown(results), !.body = desk.body,
                                     !.budget = desk.budget])
    /\ UNCHANGED <<stock, spare, asking>>

\* _parse_rate: the first room, which must be there and have a price.
RateAnswered ==
    /\ desk.at = "got" /\ desk.tool = "check_hotel_rate"
    /\ LET rooms == desk.body[1].rooms IN
       IF rooms = <<>> \/ Unpriced(rooms[1])
       THEN Refuse(desk.tool, "ValidationFailedError")
       ELSE IF RateRaises(rooms[1])
       THEN Refuse(desk.tool, "ValidationError")
       ELSE Tell([heard EXCEPT !.tool = desk.tool, !.rate = <<ParseRateEntry(rooms[1])>>])
    /\ UNCHANGED <<stock, spare, asking>>

-----------------------------------------------------------------------------
DeskStep == SupplierAnswers \/ SupplierFails \/ SearchAnswered \/ RateAnswered

HotelNext ==
    \/ DeskStep \/ BookHotel \/ CancelHotelBooking \/ ReadHotelBooking
    \/ \E q \in Queries : SearchHotels(q)
    \/ \E k \in KnownKeys : CheckHotelRate(k)
    \/ \E tool \in {"search_hotels", "book_hotel"} : NoDriver(tool)
    \/ \E i \in DOMAIN stock : \E j \in DOMAIN stock[i].rooms :
          RoomSold(i, j) \/ \E p \in Prices : RateMoves(i, j, p)

\* The HTTP client has a timeout, so a call that was sent goes on.
HotelSpec == HotelInit /\ [][HotelNext]_hotelVars /\ WF_hotelVars(DeskStep)

-----------------------------------------------------------------------------
(* Properties.                                                             *)

(* Every variable holds a value of its type, and what the agent sees stays *)
(* within its limits (tools.py search_hotels, _hotel_result_summary).      *)
HotelTypeOK ==
    /\ desk.at \in {"idle", "sent", "got"}
    /\ heard.count \in Nat /\ Len(heard.results) <= ShownHotels
    /\ \A i \in DOMAIN heard.results : Len(heard.results[i].keys) <= ShownKeys
    /\ \A k \in DOMAIN spare : spare[k] \in Nat

\* The rooms of a hotel of the answer that have a price and a currency.
Sellable(code) ==
    {r \in UNION {ToSet(h.rooms) : h \in {g \in ToSet(heard.body) : g.code = code}} : ~Unpriced(r)}

(* The "from" price of a hotel is the price of one of its rooms, and no    *)
(* room with a price in that currency is cheaper (_hotel_result_summary,   *)
(* _parse_rate_entry).                                                     *)
FromPriceOffered ==
    \A i \in DOMAIN heard.results :
        LET s == heard.results[i]
            offers == {ParseRateEntry(r) : r \in Sellable(s.code)}
        IN  /\ s.from \in offers
            /\ \A o \in offers : o.currency = s.from.currency => s.from.amount <= o.amount

(* count is the number of hotels that can be sold, those beyond the first  *)
(* page included, so the agent can tell that there are more.               *)
CountTrue ==
    heard.results # <<>> =>
        LET sellable == SelectSeq(heard.body, LAMBDA h : Sellable(h.code) # {})
        IN  /\ heard.count = Len(sellable)
            /\ \A i \in DOMAIN heard.results : heard.results[i].code = sellable[i].code

(* "Returns the current price": the price check_hotel_rate tells was the   *)
(* supplier's price for this key at some time since the tool was called.   *)
RateCurrent ==
    heard.tool = "check_hotel_rate" /\ heard.rate # <<>> => heard.rate[1] \in asking

(* The two readings of a search agree as far as they do: an offer with a   *)
(* price is a rate of the same hotel, under the rate's key or, for a rate  *)
(* that has none, under the hotel's code; and a hotel with rates whose     *)
(* country was given is missing from the offers only for the currency of   *)
(* its first room (_parse_search_offers, _parse_search_results).           *)
ReadingsAgree ==
    LET offers == ToSet(ParseSearchOffers(heard.body))
        results == ToSet(ParseSearchResults(heard.body))
    IN  /\ \A o \in offers : o.amount # 0 =>
              \E h \in results : h.code = o.code /\ \E rate \in ToSet(h.rates) :
                  /\ rate.amount = o.amount /\ rate.currency = o.currency
                  /\ o.ref = IF rate.key = "" THEN h.code ELSE rate.key
        /\ \A h \in ToSet(heard.body) :
              h.code \in {g.code : g \in results} /\ h.country # "odd" =>
                  \/ h.code \in {o.code : o \in offers}
                  \/ RoomCurrency(h.rooms[1]) = "bad"

(* What the agent is told of hotels is what the supplier has: prices that  *)
(* are offered, counts of all there is, current rates, one reading.        *)
HotelAnswersTrue ==
    HotelTypeOK /\ FromPriceOffered /\ CountTrue /\ RateCurrent /\ ReadingsAgree

(* A tool call that was sent is answered.                                  *)
DeskAnswers == desk.at # "idle" ~> desk.at = "idle"

-----------------------------------------------------------------------------
(* What the code does not give.                                            *)

(* "Returns compact property summaries with rate keys the agent can pass   *)
(* to check_hotel_rate": the "from" price has a key among those shown.     *)
FromPriceReachable ==
    \A i \in DOMAIN heard.results :
        heard.results[i].from.key \in ToSet(heard.results[i].keys)

(* A hotel that can be sold is not hidden by another one's bad data.       *)
BadHotelsAlone ==
    heard.tool = "search_hotels" => heard.reason # "ValidationError"

(* budget_max: "Driver filters before returning."                          *)
BudgetKept ==
    heard.budget # 0 => \A i \in DOMAIN heard.results :
        \E r \in Sellable(heard.results[i].code) : RoomPrice(r) <= heard.budget

(* A hotel without a price is not offered for nothing.                     *)
NothingForFree ==
    \A o \in ToSet(ParseSearchOffers(heard.body)) : o.amount # 0

(* offer_ref: "Vendor-local offer identifier used when booking"            *)
(* (hotel_search.py:82): the reference of an offer is a rate's key.        *)
OffersBookable ==
    \A o \in ToSet(ParseSearchOffers(heard.body)) :
        \E h \in ToSet(ParseSearchResults(heard.body)) :
            h.code = o.code /\ o.ref \in {rate.key : rate \in ToSet(h.rates)}
=============================================================================
