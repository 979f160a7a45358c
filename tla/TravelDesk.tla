----------------------------- MODULE TravelDesk -----------------------------
(***************************************************************************)
(* The travel tools of a turn (agent_runtime tools.py): the orchestrator   *)
(* hands a turn to one domain agent, which works with the Amadeus driver   *)
(* (FlightBooking) or with the TBO driver (Hotels).  search_flights,       *)
(* read_pnr and issue_ticket are described here; a PNR is created by       *)
(* callers of the driver, since no tool does.                              *)
(***************************************************************************)
EXTENDS FlightBooking, Hotels

CONSTANT ShownFares      \* search_flights shows the first 20 fares

VARIABLES
    agent,      \* the domain agent of the turn
    told,       \* what the ticketing tools have told it
    \* history
    unkept      \* fares whose entry in the offer cache could not be written

travelVars == <<vars, hotelVars, agent, told, unkept>>

TravelInit ==
    /\ Init /\ HotelInit
    /\ agent \in {"ticketing_visa", "hotels_holidays"}
    /\ agent = "ticketing_visa" => stock = <<>> /\ \A k \in DOMAIN spare : spare[k] = 0
    /\ agent = "hotels_holidays" => \A k \in Kinds : budget[k] = 0
    /\ told = [fares |-> {}, status |-> [i \in OrderIds |-> "none"], refused |-> FALSE]
    /\ unkept = {}

\* search_flights: the first of the driver's fares are summarised.
Summaries(s) ==
    LET fares == {f \in Fares : f[1] = s}
    IN  {f \in fares : Cardinality({g \in fares : g # f /\ Foremost(g, {f, g})}) < ShownFares}

SearchFlights ==
    UNION {Summaries(call[c].target) : c \in {d \in Calls : At(d, "fill") /\ call'[d].at = "done"}}

\* read_pnr tells the status of the order it read.
ReadPnr ==
    LET read == {c \in Calls : call[c].op = "read" /\ ~At(c, "done")
                               /\ call'[c].at = "done" /\ call'[c].result = "ok"}
    IN  [i \in OrderIds |-> IF \E c \in read : call[c].target = i THEN order[i].state
                           ELSE told.status[i]]

Ticketing(step) ==
    /\ agent = "ticketing_visa" /\ step
    /\ told' = [told EXCEPT !.fares = @ \cup SearchFlights, !.status = ReadPnr]
    /\ unkept' = unkept \cup {f \in Fares : \E c \in Calls :
                                 At(c, "fill") /\ f \in call[c].todo \ call'[c].todo /\ cache'[f] = 0}
    /\ UNCHANGED <<hotelVars, agent>>

\* issue_ticket: the driver does not support it.
IssueTicket ==
    /\ agent = "ticketing_visa" /\ ~told.refused
    /\ \E i \in OrderIds : told.status[i] = "live"
    /\ told' = [told EXCEPT !.refused = TRUE]
    /\ UNCHANGED <<vars, hotelVars, agent, unkept>>

AtHotels(step) ==
    /\ agent = "hotels_holidays" /\ step
    /\ UNCHANGED <<vars, agent, told, unkept>>

TravelNext == Ticketing(Next) \/ IssueTicket \/ AtHotels(HotelNext)

\* As in FlightBooking and Hotels.
TravelSpec ==
    /\ TravelInit /\ [][TravelNext]_travelVars
    /\ \A c \in Calls : WF_travelVars(Ticketing(Step(c)))
    /\ WF_travelVars(AtHotels(DeskStep))

-----------------------------------------------------------------------------
(* A fare the agent was shown can be booked until its entry lapses, unless *)
(* it was booked, or never reached the cache (driver.py search and create, *)
(* offer_cache.py, tools.py search_flights).                               *)
ShownBookable ==
    \A f \in told.fares \ unkept :
        \/ Cached(f)
        \/ now >= quoted[f[1]] + OfferTtl
        \/ \E i \in OrderIds : f \in order[i].fares

(* Orders are what was asked for, once, with bounded attempts; what is     *)
(* shown as bookable or cancelled is so (driver.py, client.py).            *)
OrdersTrue ==
    TypeOK /\ OrderedOnce /\ BookedWhatWasAsked /\ CancelledMeansCancelled
           /\ AttemptsBounded /\ ShownBookable

(* Every call of either desk is answered.                                  *)
DesksAnswer == CallsEnd /\ DeskAnswers
=============================================================================
