---------------------------- MODULE BspStatement ----------------------------
(***************************************************************************)
(* The BSP settlement statement of an agency (drivers/bsp_india): the file *)
(* read for a period, parsed record by record (client.py, haf_parser.py),  *)
(* made into a report and reconciled with the agency's tickets             *)
(* (mapping.py).                                                           *)
(*                                                                         *)
(* A line of a file is a record with its code, its length and its fields.  *)
(* A field that holds an amount is [mag, sign], in hundredths of the       *)
(* currency; a document number is <<prefix, serial>>, the serial being its *)
(* last ten digits.  A date is a day number.                               *)
(***************************************************************************)
EXTENDS Integers, Sequences, FiniteSets, SequencesExt

CONSTANTS LineLength, AmountTolerance, KnownAirlines

TransactionCodes == {"BKS24", "BKS39", "BKS45", "BKS46", "BKS47"}
KindOf == [BKS24 |-> "sale", BKS39 |-> "refund", BKS45 |-> "exchange", BKS46 |-> "adm", BKS47 |-> "acm"]
NotDigits == -1

Total(f(_), s) == FoldSeq(LAMBDA x, acc : x + acc, 0, [i \in DOMAIN s |-> f(s[i])])

-----------------------------------------------------------------------------
(* The file of a period: [agent, start, end] name the file, lines holds it. *)

\* fetch_bsp_statement asks for inclusive days and hands on a half-open period.
PeriodAsked(start, end) == [start |-> start, end |-> end + 1]
PeriodOrdered(period) == period.end > period.start

\* The driver turns it back into the inclusive days of the file's name.
DaysOfPeriod(period) ==
    [start |-> period.start,
     end |-> IF period.end > period.start THEN period.end - 1 ELSE period.start]

\* The file with the exact name, else the first whose name has both days.
OfDays(files, days) == {f \in files : f.start = days.start /\ f.end = days.end}
FileCandidates(files, agent, days) ==
    LET exact == {f \in OfDays(files, days) : f.agent = agent}
    IN  IF exact # {} THEN exact ELSE OfDays(files, days)

-----------------------------------------------------------------------------
(* Parsing.                                                                *)

AmountParses(a) == a.mag # NotDigits /\ a.sign \in {"", "+", "-"}

ParseAmount(a) == IF a.sign = "-" THEN -a.mag ELSE a.mag

Bks24Parses(l) ==
    AmountParses(l.gross) /\ AmountParses(l.commission) /\ AmountParses(l.taxes) /\ AmountParses(l.net)
MovementParses(l) == AmountParses(l.net)
Bft99Parses(l) == l.count # NotDigits /\ AmountParses(l.net)
TransactionParses(l) ==
    /\ l.airline \in KnownAirlines
    /\ l.date # NotDigits
    /\ IF l.code = "BKS24" THEN Bks24Parses(l) ELSE MovementParses(l)
HeaderParses(l) == l.start # NotDigits /\ l.end # NotDigits

LineParses(l) ==
    \/ l.code = "blank"
    \/ /\ l.length = LineLength
       /\ l.code = "BFH01" => HeaderParses(l)
       /\ l.code \in TransactionCodes => TransactionParses(l)
       /\ l.code = "BFT99" => Bft99Parses(l)

Coded(lines, c) == SelectSeq(lines, LAMBDA l : l.code = c)

\* Records of an unknown code are skipped and the order is not looked at.
ParsesHaf(lines) ==
    /\ \A i \in DOMAIN lines : LineParses(lines[i])
    /\ Len(Coded(lines, "BFH01")) = 1 /\ Len(Coded(lines, "BFT99")) = 1

-----------------------------------------------------------------------------
(* The report of a parsed file.                                            *)

Transaction(l) ==
    LET net == ParseAmount(l.net)
        sale == l.code = "BKS24"
    IN  [kind |-> KindOf[l.code], doc |-> l.doc, airline |-> l.airline, net |-> net,
         gross |-> IF sale THEN ParseAmount(l.gross) ELSE net,
         commission |-> IF sale THEN ParseAmount(l.commission) ELSE 0]

\* The header's inclusive end becomes the half-open end of the report.
PeriodFromHeader(h) == [start |-> h.start, end |-> h.end + 1]

\* control is the trailer's total, which the parser reads and nobody uses.
BspReport(lines) ==
    LET txs == LET recs == SelectSeq(lines, LAMBDA l : l.code \in TransactionCodes)
               IN  [i \in DOMAIN recs |-> Transaction(recs[i])]
        ofKinds(ks) == SelectSeq(txs, LAMBDA x : x.kind \in ks)
        header == Coded(lines, "BFH01")[1]
    IN  [transactions |-> txs, currency |-> header.currency, agent |-> header.agent,
         period |-> PeriodFromHeader(header),
         sales |-> Total(LAMBDA x : x.gross, ofKinds({"sale"})),
         refunds |-> Total(LAMBDA x : x.net, ofKinds({"refund", "exchange"})),
         commission |-> Total(LAMBDA x : x.commission, ofKinds({"sale"})),
         net |-> Total(LAMBDA x : x.net, txs),
         control |-> ParseAmount(Coded(lines, "BFT99")[1].net)]

-----------------------------------------------------------------------------
(* Reconciliation with tickets [id, number, airline, amount, currency].    *)

NormalisedTicketKey(number, airline) == <<airline, number[2]>>
KeyOfTicket(t) == NormalisedTicketKey(t.number, t.airline)

\* The first ticket of a key is indexed, a later one is dropped.
TicketIndex(tickets) ==
    SelectSeq([i \in DOMAIN tickets |-> [at |-> i, ticket |-> tickets[i]]],
              LAMBDA e : \A j \in 1..(e.at - 1) : KeyOfTicket(tickets[j]) # KeyOfTicket(e.ticket))
Indexed(tickets) ==
    LET index == TicketIndex(tickets) IN [i \in DOMAIN index |-> index[i].ticket]

Distance(a, b) == IF a < b THEN b - a ELSE a - b
AmountWithinTolerance(a, b) == Distance(a, b) <= AmountTolerance

\* The item of a row of the report.
Item(outcome, tx, refs, delta) == [outcome |-> outcome, tx |-> tx, refs |-> refs, delta |-> delta]
Billed(report, index, i) ==
    LET tx == report.transactions[i]
        key == NormalisedTicketKey(tx.doc, tx.airline)
        found == SelectSeq(index, LAMBDA t : KeyOfTicket(t) = key)
        t == found[1]
    IN  CASE tx.kind # "sale" \/ found = <<>> -> Item("unmatched_external", i, {}, 0)
          [] OTHER ->
             IF t.currency # report.currency THEN Item("tentative", i, {t.id}, 0)
             ELSE IF AmountWithinTolerance(t.amount, tx.net) THEN Item("matched", i, {t.id}, 0)
             ELSE Item("discrepancy", i, {t.id}, tx.net - t.amount)

\* The keys of the sales the report bills, whichever their outcome.
BilledKeys(report) ==
    {NormalisedTicketKey(tx.doc, tx.airline) :
        tx \in {report.transactions[i] : i \in {j \in DOMAIN report.transactions :
                                                report.transactions[j].kind = "sale"}}}

(* Mutant of Unbilled: only the tickets matched in full are left out. *)
UnbilledUnlessMatched(report, index) ==
    LET matched == {i \in DOMAIN report.transactions : Billed(report, index, i).outcome = "matched"}
        keys == {KeyOfTicket(report.transactions[i] @@ [number |-> report.transactions[i].doc]) : i \in matched}
        left == SelectSeq(index, LAMBDA t : KeyOfTicket(t) \notin keys)
    IN  [i \in DOMAIN left |-> Item("unmatched_internal", 0, {left[i].id}, 0)]

\* The tickets the statement does not bill.
Unbilled(report, index) ==
    LET left == SelectSeq(index, LAMBDA t : KeyOfTicket(t) \notin BilledKeys(report))
    IN  [i \in DOMAIN left |-> Item("unmatched_internal", 0, {left[i].id}, 0)]

Outcomes == {"matched", "unmatched_external", "unmatched_internal", "discrepancy", "tentative"}
Reconcile(report, tickets) ==
    LET index == Indexed(tickets)
        items == [i \in DOMAIN report.transactions |-> Billed(report, index, i)] \o Unbilled(report, index)
        with(o) == SelectSeq(items, LAMBDA it : it.outcome = o)
    IN  [items |-> items,
         count |-> [o \in Outcomes |-> Len(with(o))],
         matched |-> Total(LAMBDA it : report.transactions[it.tx].net, with("matched"))]
=============================================================================
