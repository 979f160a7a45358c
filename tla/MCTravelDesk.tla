---------------------------- MODULE MCTravelDesk ----------------------------
(* Flights: three calls over two offers.  Hotels: up to three tool calls.  *)
EXTENDS TravelDesk

\* One search, two offers, one of them for two travellers.
MCFares == {<<1, 1, 1>>, <<1, 1, 2>>, <<1, 2, 1>>}

\* Or two searches with an offer each.
TwoSearches == {<<1, 1, 1>>, <<2, 1, 1>>}

\* Three calls and one failure, or two calls and two ticks or lost requests.
Calm == [k \in Kinds |-> IF k = "call" THEN 3 ELSE 0]
MCBudgets == {[k \in Kinds |-> 0]} \cup
             {[Calm EXCEPT ![k] = 1] : k \in {"lost", "refused", "token", "cache"}} \cup
             {[Calm EXCEPT !["call"] = 2, ![k] = 2] : k \in {"tick", "lost"}}

Room(key, total, price, currency, occupancy) ==
    [key |-> key, total |-> total, price |-> price, currency |-> currency, occupancy |-> occupancy]
Hotel(code, country, stars, rooms) ==
    [code |-> code, country |-> country, stars |-> stars, rooms |-> rooms]

R1 == Room("k1", 5, 6, "INR", "ok")
R2 == Room("k2", 3, -1, "INR", "ok")
R3 == Room("k3", 0, 2, "", "ok")
R4 == Room("", 0, -1, "INR", "ok")
R5 == Room("k5", 4, -1, "bad", "ok")
R6 == Room("k6", 4, -1, "INR", "bad")
R7 == Room("", 4, -1, "INR", "ok")

Good == Hotel("h1", "IN", 3, <<R1, R2, R3>>)
Bare == Hotel("h2", "IN", 3, <<R4, R5>>)
Other == Hotel("h3", "IN", 4, <<R1>>)
More == Hotel("h4", "IN", 4, <<R2>>)

MCStocks == {<<>>, <<Good, Bare, Other, More>>, <<Bare, Good>>, <<Good, Hotel("h5", "IN", 0, <<R1>>)>>,
             <<Hotel("h6", "IN", 3, <<R6, R2>>)>>, <<Hotel("h7", "bad", 3, <<R2>>), Good>>,
             <<Hotel("h8", "IN", 3, <<R7, R1>>), Hotel("h9", "IN", 3, <<R5, R2>>),
               Hotel("h10", "odd", 3, <<R2>>), Hotel("h11", "IN", 3, <<>>)>>}
MCQueries == {[nights |-> 1, budget |-> 0], [nights |-> 1, budget |-> 1], [nights |-> 0, budget |-> 0]}
Closed == [call |-> 0, fail |-> 0, move |-> 0, credentials |-> 0]
MCHotelBudgets == {Closed, [call |-> 3, fail |-> 0, move |-> 1, credentials |-> 1],
                   [call |-> 2, fail |-> 1, move |-> 0, credentials |-> 1],
                   [call |-> 1, fail |-> 0, move |-> 0, credentials |-> 0]}
=============================================================================
