---------------------------- MODULE MCBackOffice ----------------------------
(* Instance of BackOffice for TLC.  Every scenario looks at one topic.     *)
EXTENDS BackOffice

CONSTANTS c1, c2, c3, s1, s2, s3, ta, tb

MCTenantOf == (s1 :> ta) @@ (s2 :> ta) @@ (s3 :> tb)
Idle == [tool |-> "none", session |-> s1]
Quiet == [request |-> [c \in Calls |-> Idle], invoices |-> {}, bills |-> {}, files |-> {},
          agent |-> "own", tickets |-> <<>>, ledgers |-> <<>>, names |-> [cash |-> "Cash", sales |-> "Sales"],
          resolver |-> TRUE, accounts |-> (ta :> {"cash", "sales"}) @@ (tb :> {"till", "bank"}),
          turns |-> 1, today |-> 1, lastDay |-> 1]
Asks(r1, r2, r3) == [Quiet EXCEPT !.request = (c1 :> r1) @@ (c2 :> r2) @@ (c3 :> r3)]

-----------------------------------------------------------------------------
\* Drafts: two of one tenant and one of another, with and without numbers.
Goods(q, p, k) == [quantity |-> q, price |-> p, currency |-> k]
Draft(s, number, items) ==
    [tool |-> "draft_invoice", session |-> s, number |-> number, items |-> items,
     datesParse |-> TRUE, issue |-> 1, due |-> 1, party |-> "p"]
Omitted == <<"auto", 0>>
Baskets == {<<Goods(1, 1005, "INR"), Goods(3, 15, "INR")>>, <<Goods(2, 335, "INR")>>,
            <<Goods(1, 10, "INR"), Goods(1, 10, "USD")>>}
Numbers == {Omitted, <<"auto", 1>>, <<"auto", 2>>, <<"given", "n">>}
DraftScenarios ==
    {Asks(Draft(s1, n1, b), Draft(s2, n2, <<Goods(1, 15, "INR")>>), Draft(s3, n1, b)) :
        n1 \in Numbers, n2 \in Numbers, b \in Baskets}
    \cup {Asks([Draft(s1, Omitted, <<Goods(1, 10, "INR")>>) EXCEPT !.datesParse = FALSE], Idle, Idle)}

-----------------------------------------------------------------------------
\* Postings.
Line(a, side, amount, k) == [account |-> a, side |-> side, amount |-> amount, currency |-> k]
JournalLines == {Line("cash", side, amount, k) :
                    side \in {"debit", "credit", "both", "none"}, amount \in {10, 25, -10}, k \in {"INR", "USD"}}
Journal(s, lines) == [tool |-> "post_journal_entry", session |-> s, lines |-> lines]
Entries == {<<l1, l2>> : l1, l2 \in JournalLines}
           \cup {<<Line("cash", "debit", 30, "INR"), Line("sales", "credit", 10, "INR"),
                   Line("sales", "credit", 20, "INR")>>,
                 <<Line("cash", "debit", 10, "INR"), Line("nobody", "credit", 10, "INR")>>,
                 <<Line("cash", "debit", 10, "INR")>>}
Bill(grand, taxes, k) ==
    [client |-> "cash", currency |-> "INR", grand |-> grand, totals |-> {k},
     lines |-> <<[ledger |-> "Sales", subtotal |-> 100, taxes |-> taxes, currencies |-> {"INR"}]>>]
Bills == {Bill(118, <<9, 9>>, "INR"), Bill(120, <<10, 10>>, "INR"), Bill(110, <<>>, "INR"), Bill(100, <<>>, "USD")}
Sells(s, inv) == [tool |-> "create_invoice", session |-> s, invoice |-> inv]
Charts == <<[name |-> "Cash", parent |-> "assets"], [name |-> "", parent |-> "assets"],
            [name |-> "Odd", parent |-> "other"]>>
Plainly == <<Line("cash", "debit", 10, "INR"), Line("sales", "credit", 10, "INR")>>
PostScenarios ==
    {Asks(Journal(s1, e), Idle, Idle) : e \in Entries}
    \cup {Asks(Sells(s1, b), Idle, Idle) : b \in Bills}
    \cup {[Asks(Journal(s1, Plainly), Sells(s1, Bill(100, <<>>, "INR")), Idle) EXCEPT !.resolver = r] : r \in BOOLEAN}
    \cup {Asks(Journal(s1, Plainly), Sells(s2, Bill(120, <<10, 10>>, "INR")), Idle)}
    \cup {[Asks([tool |-> "list_ledger_accounts", session |-> s1], [tool |-> "read_account_balance", session |-> s1], Idle)
           EXCEPT !.ledgers = Charts]}

-----------------------------------------------------------------------------
\* Statements.
Plus(n) == [mag |-> n, sign |-> "+"]
Record(code, serial, net) ==
    [code |-> code, length |-> 200, doc |-> <<"176", serial>>, airline |-> "AI", date |-> 1,
     gross |-> Plus(net.mag), commission |-> Plus(0), taxes |-> Plus(0), net |-> net]
Header(a) == [code |-> "BFH01", length |-> 200, start |-> 1, end |-> 15, agent |-> a, currency |-> "INR"]
Trailer(n) == [code |-> "BFT99", length |-> 200, count |-> 1, net |-> Plus(n)]
Sales2 == {Record("BKS24", "a", Plus(1000)), Record("BKS24", "b", Plus(1000)),
           [Record("BKS24", "a", Plus(900)) EXCEPT !.gross = Plus(1000), !.commission = Plus(100)],
           Record("BKS39", "c", [mag |-> 500, sign |-> "-"]), Record("BKS45", "d", [mag |-> 50, sign |-> "-"]),
           Record("BKS46", "e", Plus(70))}
Odd == {[Record("BKS24", "a", Plus(1)) EXCEPT !.length = 199], [Record("BKS24", "a", Plus(1)) EXCEPT !.airline = "??"],
        Record("BKS39", "a", [mag |-> 1, sign |-> "x"]), Record("BKS47", "f", Plus(-1)), Header("own"), Trailer(0),
        [code |-> "BOH03", length |-> 200], [code |-> "blank", length |-> 0]}
Statements == {<<Header("own")>> \o body \o <<Trailer(1000)>> : body \in BoundedSeq(Sales2, 2)}
              \cup {<<Header("own"), l, Trailer(0)>> : l \in Odd} \cup {<<Trailer(0)>>, <<Header("own")>>}
File(agent, lines) == [agent |-> agent, start |-> 1, end |-> 15, lines |-> lines]
Ticket(id, serial, amount, k) ==
    [id |-> id, number |-> <<"", serial>>, airline |-> "AI", amount |-> amount, currency |-> k]
Stores == {<<>>, <<Ticket("t1", "a", 1000, "INR")>>, <<Ticket("t1", "a", 900, "INR"), Ticket("t2", "a", 1000, "INR")>>,
           <<Ticket("t1", "b", 900, "INR"), Ticket("t2", "a", 899, "INR")>>,
           <<Ticket("t1", "z", 1000, "INR"), Ticket("t2", "a", 1000, "USD")>>}
Fetch(s, end) == [tool |-> "fetch_bsp_statement", session |-> s, country |-> "IN", start |-> 1, end |-> end]
Match(s, report, ids) == [tool |-> "reconcile_bsp", session |-> s, report |-> report, tickets |-> ids]
StatementScenarios ==
    {[Asks(Fetch(s1, 15), Match(s1, c1, {}), Idle) EXCEPT !.files = {File("own", f)}, !.tickets = st] :
        f \in Statements, st \in Stores}
    \cup {[Asks(Fetch(s1, end), Match(s1, c1, {"t1"}), Match(s2, c1, {}))
           EXCEPT !.files = {File("own", <<Header("own"), Record("BKS24", "a", Plus(1000)), Trailer(1000)>>),
                             [File("other", <<Header("other"), Trailer(0)>>) EXCEPT !.end = e2]},
                  !.tickets = <<Ticket("t1", "a", 1000, "INR")>>, !.turns = 2] : end \in {0, 14, 15}, e2 \in {14, 15}}
    \cup {[Asks([Fetch(s1, 15) EXCEPT !.country = "AE"], Idle, Idle) EXCEPT !.files = {File("own", <<>>)}]}

-----------------------------------------------------------------------------
\* Tables the reports read.
Row(n, status, due, total, paid, k) ==
    [tenant |-> ta, number |-> <<"given", n>>, status |-> status, by |-> c1, issue |-> 5, due |-> due,
     total |-> total, paid |-> paid, currency |-> k, party |-> "p"]
Owing == {Row("a", st, due, 1000, paid, "INR") :
            st \in {"issued", "draft"}, due \in {9, 10, 39, 40, 69, 70, 99, 100, 120}, paid \in {0, 1000}}
Owing2 == {Row("b", "partially_paid", due, 500, 100, k) : due \in {69, 100}, k \in {"INR", "USD"}}
AsBill(r) == [r EXCEPT !.status = IF @ = "issued" THEN "received" ELSE IF @ = "draft" THEN "paid" ELSE "scheduled"]
AgingScenarios ==
    {[Quiet EXCEPT !.invoices = {r1, r2}, !.bills = {AsBill(r1)}, !.today = 100, !.lastDay = 101] :
        r1 \in Owing, r2 \in Owing2}

\* Entries of the ledger.
Posting(a, debit, credit) == [account |-> a, debit |-> debit, credit |-> credit]
Keep(s, lines) == [tool |-> "build_journal_entry", session |-> s, lines |-> lines]
Pairs == {<<Posting("cash", d, 0), Posting("sales", 0, k)>> : d \in {0, 14, 15, 20, -10}, k \in {15, 20, 24}}
Thirds == {<<Posting("cash", 26, 0), Posting("cash", 26, 0), Posting("sales", 0, 52)>>,
           <<Posting("cash", 10, 10), Posting("sales", 0, 10)>>, <<Posting("cash", 10, 0)>>}
LedgerScenarios ==
    {[Asks(Keep(s1, e), Keep(s2, <<Posting("sales", 30, 0), Posting("cash", 0, 30)>>),
           Keep(s3, <<Posting("till", 20, 0), Posting("bank", 0, 20)>>)) EXCEPT !.lastDay = 3] :
        e \in Pairs \cup Thirds}

MCScenarios == DraftScenarios \cup PostScenarios \cup StatementScenarios \cup AgingScenarios \cup LedgerScenarios
=============================================================================
