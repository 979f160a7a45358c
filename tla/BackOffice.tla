----------------------------- MODULE BackOffice -----------------------------
(***************************************************************************)
(* The accounting tools of the agent (tools.py) over their drivers: drafts *)
(* of invoices in the database, journals and invoices posted to the Tally  *)
(* gateway with retries (drivers/tally), BSP statements fetched into a     *)
(* cache that lives as long as a turn and reconciled from it               *)
(* (drivers/bsp_india), and the rows of the general ledger.                *)
(*                                                                         *)
(* The gateway is external: a request it received may be imported at any   *)
(* later time, and its reply may never arrive.                             *)
(***************************************************************************)
EXTENDS Bookkeeping, BspStatement

CONSTANTS
    Sessions,           \* a session runs one tool call at a time
    TenantOf,           \* the tenant of a session
    Calls,              \* the tool calls of a behaviour
    MaxRetries,
    ListCap,            \* ledgers list_ledger_accounts names
    IssueCap,           \* issues reconcile_bsp names
    Scenarios           \* what a behaviour is about, see Init

Tenants == {TenantOf[s] : s \in Sessions}
Tries == 0..(MaxRetries + 1)
Refusals == {"mixed_currency", "invalid_date", "invoice_number_conflict", "invalid_line",
             "validation_failed", "report_not_found", "capability_not_supported"}
Failures == {"error", "timeout", "unavailable", "rejected"}
Answers == {"none", "drafted", "posted", "listed", "fetched", "reconciled", "recorded"}
             \cup Refusals \cup Failures

ASSUME BackOfficeAssumption ==
    /\ MaxRetries \in Nat /\ ListCap \in Nat /\ IssueCap \in Nat
    /\ AmountTolerance \in Nat
    /\ DOMAIN TenantOf = Sessions
    /\ \A sc \in Scenarios : DOMAIN sc.request = Calls

VARIABLES
    scenario,   \* the requests, the files, the tickets and the ledgers in Tally
    call,       \* [at, tries, phase, outcome, result] of each tool call
    invoices,   \* table invoices
    ledger,     \* table journal_entries, in the order of insertion
    wire,       \* requests sent to the gateway and its replies
    books,      \* the copies of the voucher of a call in Tally
    cache,      \* ctx.extensions: the calls whose report this turn keeps
    turns,      \* the turns of a session, and the turn a call ran in
    today

vars == <<scenario, call, invoices, ledger, wire, books, cache, turns, today>>
tallyVars == <<wire, books>>
tableVars == <<invoices, ledger>>
turnVars == <<cache, turns>>

Request(c) == scenario.request[c]
Session(c) == Request(c).session
Tenant(c) == TenantOf[Session(c)]
At(c, stage) == call[c].at = stage
Tool(c, name) == Request(c).tool = name
Running(s) == {c \in Calls : Session(c) = s /\ call[c].at \notin {"new", "done"}}

NewCall == [at |-> "new", tries |-> 0, phase |-> "none", outcome |-> "none", result |-> <<>>, turn |-> 0]

Init ==
    /\ scenario \in Scenarios
    /\ call = [c \in Calls |-> NewCall]
    /\ invoices = scenario.invoices
    /\ ledger = <<>>
    /\ wire = {}
    /\ books = [c \in Calls |-> 0]
    /\ cache = [s \in Sessions |-> {}]
    /\ turns = [s \in Sessions |-> 1]
    /\ today = scenario.today

\* The tools of a turn run one after the other.
Begins(c, name) == At(c, "new") /\ Tool(c, name) /\ Running(Session(c)) = {}
Goes(c, stage) ==
    call' = [call EXCEPT ![c].at = stage, ![c].turn = turns[Session(c)]]
Ends(c, outcome, result) ==
    call' = [call EXCEPT ![c].at = "done", ![c].outcome = outcome, ![c].result = result,
                         ![c].turn = turns[Session(c)]]

-----------------------------------------------------------------------------
(* draft_invoice.                                                          *)

ItemCurrencies(items) == {items[i].currency : i \in DOMAIN items}
DraftTotal(items) ==
    FoldLeft(LAMBDA total, it : Quantize(total + it.quantity * it.price), 0, items)

\* Numbers are <<"auto", n>> for INV-<tenant>-<n>, or <<"given", text>>.
NumbersOf(t) == {r.number : r \in {r \in invoices : r.tenant = t}}

Taken(t, number) == number \in NumbersOf(t)
NextNumber(t) ==
    LET seqs == {n[2] : n \in {n \in NumbersOf(t) : n[1] = "auto"}}
    IN  <<"auto", 1 + Max(seqs \cup {0})>>

DraftRead(c) ==
    LET q == Request(c)
        given == q.number # <<"auto", 0>>       \* number omitted
    IN  /\ Begins(c, "draft_invoice")
        /\ CASE Cardinality(ItemCurrencies(q.items)) > 1 -> Ends(c, "mixed_currency", <<>>)
             [] Cardinality(ItemCurrencies(q.items)) <= 1 /\ ~q.datesParse -> Ends(c, "invalid_date", <<>>)
             [] OTHER ->
                IF given /\ Taken(Tenant(c), q.number)
                THEN Ends(c, "invoice_number_conflict", q.number)
                ELSE call' = [call EXCEPT ![c].at = "insert", ![c].turn = turns[Session(c)],
                                 ![c].result = IF given THEN q.number ELSE NextNumber(Tenant(c))]
        /\ UNCHANGED <<scenario, tableVars, tallyVars, turnVars, today>>

DraftRow(c) ==
    [tenant |-> Tenant(c), number |-> call[c].result, status |-> "draft", by |-> c,
     issue |-> Request(c).issue, due |-> Request(c).due, total |-> DraftTotal(Request(c).items),
     paid |-> 0, currency |-> Request(c).items[1].currency, party |-> Request(c).party]

\* The unique constraint on (tenant, number) decides between concurrent drafts.
DraftInsert(c) ==
    /\ At(c, "insert")
    /\ \/ /\ Taken(Tenant(c), call[c].result)
          /\ Ends(c, "invoice_number_conflict", call[c].result)
          /\ UNCHANGED invoices
       \/ /\ ~Taken(Tenant(c), call[c].result)
          /\ invoices' = invoices \cup {DraftRow(c)}
          /\ Ends(c, "drafted", call[c].result)
    /\ UNCHANGED <<scenario, ledger, tallyVars, turnVars, today>>

-----------------------------------------------------------------------------
(* Tally.                                                                  *)

Voucher(c) == IF Tool(c, "post_journal_entry") THEN JournalVoucher(Request(c).lines)
              ELSE SalesVoucher(Request(c).invoice)

\* The driver's resolver gives an account's ledger name, nothing, or raises.
Resolves(accounts) == \A a \in accounts : a \in DOMAIN scenario.names /\ scenario.names[a] # ""
Submit(c, phase) ==
    call' = [call EXCEPT ![c].at = "send", ![c].phase = phase, ![c].turn = turns[Session(c)]]

PostJournal(c) ==
    LET lines == Request(c).lines
    IN  /\ Begins(c, "post_journal_entry")
        /\ IF \E i \in DOMAIN lines : ~ExactlyOneSide(lines[i]) THEN Ends(c, "invalid_line", <<>>)
           ELSE IF ~ValidEntry(lines) THEN Ends(c, "validation_failed", <<>>)
           ELSE IF ~scenario.resolver \/ ~Resolves(JournalAccounts(lines)) THEN Ends(c, "error", <<>>)
           ELSE Submit(c, "voucher")
        /\ UNCHANGED <<scenario, tableVars, tallyVars, turnVars, today>>

CreateInvoice(c) ==
    LET inv == Request(c).invoice
    IN  /\ Begins(c, "create_invoice")
        /\ IF ~InvoiceConsistent(inv) THEN Ends(c, "validation_failed", <<>>)
           ELSE IF ~scenario.resolver \/ ~Resolves(InvoiceAccounts(inv)) THEN Ends(c, "error", <<>>)
           ELSE Submit(c, "voucher")
        /\ UNCHANGED <<scenario, tableVars, tallyVars, turnVars, today>>

\* A ping comes before the list.
ListAccounts(c) ==
    /\ Begins(c, "list_ledger_accounts")
    /\ Submit(c, "ping")
    /\ UNCHANGED <<scenario, tableVars, tallyVars, turnVars, today>>

ReadBalance(c) ==
    /\ Begins(c, "read_account_balance")
    /\ Ends(c, "capability_not_supported", <<>>)
    /\ UNCHANGED <<scenario, tableVars, tallyVars, turnVars, today>>

Replies == {"ok", "nothing", "transient", "permanent", "garbled"}
Message(c, kind) == [call |-> c, phase |-> call[c].phase, try |-> call[c].tries, kind |-> kind]

\* An attempt of _post_with_retries.
Send(c) ==
    /\ At(c, "send")
    /\ call' = [call EXCEPT ![c].at = "wait", ![c].tries = @ + 1]
    /\ wire' = wire \cup {[Message(c, "request") EXCEPT !.try = @ + 1]}
    /\ UNCHANGED <<scenario, tableVars, books, turnVars, today>>

\* The gateway imports the voucher, refuses it in a 2xx body (LINEERROR, no
\* row created), or answers with an HTTP error that may pass or not; the body
\* of a 2xx may be cut short.
Gateway(m) ==
    /\ m.kind = "request"
    /\ \E reply \in Replies :
          /\ wire' = (wire \ {m}) \cup
                     (IF At(m.call, "wait") /\ m = Message(m.call, "request")
                      THEN {[m EXCEPT !.kind = reply]} ELSE {})      \* the client has hung up
          /\ books' = IF m.phase = "voucher" /\ reply \in {"ok", "garbled"}
                      THEN [books EXCEPT ![m.call] = @ + 1] ELSE books
    /\ UNCHANGED <<scenario, call, tableVars, turnVars, today>>

Listing(accounts) ==
    [count |-> Len(accounts), accounts |-> SubSeq(accounts, 1, Min({ListCap, Len(accounts)}))]

\* An ack of the voucher, or the named ledgers; a ping answered leads to the list.
Received(c) ==
    CASE call[c].phase = "voucher" -> Ends(c, "posted", <<>>)
      [] call[c].phase = "ping" ->
         call' = [call EXCEPT ![c].at = "send", ![c].phase = "ledgers", ![c].tries = 0]
      [] call[c].phase = "ledgers" -> Ends(c, "listed", Listing(AccountsOf(scenario.ledgers)))

Retries(c) == call[c].tries <= MaxRetries
Retry(c, failure) ==
    IF Retries(c) THEN call' = [call EXCEPT ![c].at = "send"] ELSE Ends(c, failure, <<>>)

(* Mutant of Receive: the counts of the ack are not looked at. *)
ReceiveUnread(c) ==
    \E m \in wire :
        /\ At(c, "wait")
        /\ m \in {Message(c, kind) : kind \in Replies}
        /\ wire' = wire \ {m}
        /\ CASE m.kind \in {"ok", "nothing"} -> Received(c)
             [] m.kind = "transient" -> Retry(c, "unavailable")
             [] m.kind \in {"permanent", "garbled"} -> Ends(c, "rejected", <<>>)
        /\ UNCHANGED <<scenario, tableVars, books, turnVars, today>>

Receive(c) ==
    \E m \in wire :
        /\ At(c, "wait")
        /\ m \in {Message(c, kind) : kind \in Replies}
        /\ wire' = wire \ {m}
        /\ CASE m.kind = "ok" -> Received(c)
             [] m.kind = "nothing" /\ m.phase = "ledgers" -> Ends(c, "listed", Listing(<<>>))
             [] m.kind = "nothing" /\ m.phase # "ledgers" -> Ends(c, "rejected", <<>>)
             [] m.kind = "transient" -> Retry(c, "unavailable")
             [] m.kind \in {"permanent", "garbled"} -> Ends(c, "rejected", <<>>)
        /\ UNCHANGED <<scenario, tableVars, books, turnVars, today>>

\* A timeout or a network error: the request may have been lost, may be under
\* way, or its reply is dropped with the connection.
GiveUp(c) ==
    /\ At(c, "wait")
    /\ \E lost \in SUBSET {Message(c, "request")} :
          wire' = {m \in wire : m.call = c /\ m.try = call[c].tries /\ m.phase = call[c].phase
                                   => m.kind = "request"} \ lost
    /\ Retry(c, "timeout")
    /\ UNCHANGED <<scenario, tableVars, books, turnVars, today>>

-----------------------------------------------------------------------------
(* BSP statements.                                                         *)

FetchStatement(c) ==
    LET q == Request(c)
        period == PeriodAsked(q.start, q.end)
        found == FileCandidates(scenario.files, scenario.agent, DaysOfPeriod(period))
    IN  /\ Begins(c, "fetch_bsp_statement")
        /\ \/ /\ ~PeriodOrdered(period) \/ q.country # "IN" \/ found = {}
              /\ Ends(c, "error", <<>>)
              /\ UNCHANGED cache
           \/ /\ PeriodOrdered(period) /\ q.country = "IN"
              /\ \E f \in found :
                    IF ParsesHaf(f.lines)
                    THEN /\ Ends(c, "fetched", BspReport(f.lines))
                         /\ cache' = [cache EXCEPT ![Session(c)] = @ \cup {c}]
                    ELSE Ends(c, "error", <<>>) /\ UNCHANGED cache
        /\ UNCHANGED <<scenario, tableVars, tallyVars, turns, today>>

\* The tickets named, of those the store holds, or all of them.
TicketsOf(q) ==
    SelectSeq(scenario.tickets, LAMBDA t : q.tickets = {} \/ t.id \in q.tickets)

(* Mutant of Cached: the reports of every session are found. *)
CachedAnywhere(c, report) == report \in UNION {cache[s] : s \in Sessions}

Cached(c, report) == report \in cache[Session(c)]

ReconcileBsp(c) ==
    /\ Begins(c, "reconcile_bsp")
    /\ IF Cached(c, Request(c).report)
       THEN LET run == Reconcile(call[Request(c).report].result, TicketsOf(Request(c)))
                issues == SelectSeq(run.items, LAMBDA it : it.outcome # "matched")
            IN  Ends(c, "reconciled",
                     [run |-> run, issues |-> SubSeq(issues, 1, Min({IssueCap, Len(issues)}))])
       ELSE Ends(c, "report_not_found", <<>>)
    /\ UNCHANGED <<scenario, tableVars, tallyVars, turnVars, today>>

\* Every turn gets a tool context of its own.
NewTurn(s) ==
    /\ Running(s) = {} /\ turns[s] < scenario.turns
    /\ turns' = [turns EXCEPT ![s] = @ + 1]
    /\ cache' = [cache EXCEPT ![s] = {}]
    /\ UNCHANGED <<scenario, call, tableVars, tallyVars, today>>

-----------------------------------------------------------------------------
(* The general ledger, and the days the reports look at.                   *)

RecordEntry(c) ==
    LET lines == Request(c).lines
    IN  /\ Begins(c, "build_journal_entry")
        /\ IF LedgerEntryValid(lines)
           THEN /\ ledger' = ledger \o LedgerRows(Tenant(c), lines, today)
                /\ Ends(c, "recorded", <<>>)
           ELSE Ends(c, "error", <<>>) /\ UNCHANGED ledger
        /\ UNCHANGED <<scenario, invoices, tallyVars, turnVars, today>>

NextDay ==
    /\ today < scenario.lastDay
    /\ today' = today + 1
    /\ UNCHANGED <<scenario, call, tableVars, tallyVars, turnVars>>

Step(c) == Send(c) \/ Receive(c) \/ GiveUp(c) \/ DraftInsert(c)
Start(c) ==
    \/ DraftRead(c) \/ PostJournal(c) \/ CreateInvoice(c) \/ ListAccounts(c) \/ ReadBalance(c)
    \/ FetchStatement(c) \/ ReconcileBsp(c) \/ RecordEntry(c)
Next ==
    \/ \E c \in Calls : Start(c) \/ Step(c)
    \/ \E m \in wire : Gateway(m)
    \/ \E s \in Sessions : NewTurn(s)
    \/ NextDay

\* The process runs, and the client of the gateway has a timeout.
Spec == Init /\ [][Next]_vars /\ \A c \in Calls : WF_vars(Step(c))

-----------------------------------------------------------------------------
(* Properties.                                                             *)

\* The state has its shape, and no call tries the gateway more often than the
\* configured retries allow.
TypeOK ==
    /\ \A c \in Calls : /\ call[c].at \in {"new", "insert", "send", "wait", "done"}
                        /\ call[c].tries \in Tries
                        /\ call[c].outcome \in Answers
                        /\ call[c].phase \in {"none", "ping", "ledgers", "voucher"}
    /\ \A m \in wire : m.call \in Calls /\ m.try \in Tries
    /\ books \in [Calls -> Nat]
    /\ \A s \in Sessions : cache[s] \subseteq Calls /\ turns[s] \in Nat
    /\ today \in Nat

Posts(c) == Request(c).tool \in {"post_journal_entry", "create_invoice"}

\* A posting is in the books at most once for each attempt; one that was
\* answered as posted is there, and one the tool or the driver refused before
\* it sent anything never is.
BooksBacked ==
    \A c \in Calls :
        /\ books[c] <= call[c].tries
        /\ Posts(c) /\ call[c].outcome = "posted" => books[c] >= 1
        /\ call[c].outcome \in Refusals \cup {"error"} => books[c] = 0

\* The amounts of a posting are whole cents and not negative, and an
\* invoice's total is the sum of its lines and taxes.
Plain(c) ==
    IF Tool(c, "post_journal_entry")
    THEN \A i \in DOMAIN Request(c).lines :
            LET line == Request(c).lines[i] IN line.amount >= 0 /\ WholeCents(line.amount)
    ELSE LET inv == Request(c).invoice
             due(line) == line.subtotal + SumSeq(line.taxes)
         IN  /\ inv.grand = SumOf(due, inv.lines)
             /\ \A i \in DOMAIN inv.lines :
                   LET line == inv.lines[i]
                   IN  /\ line.subtotal >= 0 /\ WholeCents(line.subtotal)
                       /\ \A k \in DOMAIN line.taxes : line.taxes[k] >= 0 /\ WholeCents(line.taxes[k])

\* The voucher of a posting in whole cents balances in Tally's signs, and the
\* debits of a journal are the sums its approver was shown.
VouchersBalance ==
    \A c \in Calls :
        books[c] > 0 /\ Plain(c) =>
            /\ VoucherBalance(Voucher(c)) = 0
            /\ Tool(c, "post_journal_entry") =>
                  VoucherDebits(Voucher(c)) =
                      SumFunction([k \in CurrenciesOf(Request(c).lines) |-> SummaryDebits(Request(c).lines, k)])

\* Every draft that was answered is a row of its own under the number it was
\* told, with a total within half a cent per item; a conflict was answered
\* only where the caller's tenant has that number.
DraftsKept ==
    /\ \A c \in Calls : Tool(c, "draft_invoice") =>
          /\ call[c].outcome = "drafted" =>
                \E r \in invoices :
                    /\ r.by = c /\ r.tenant = Tenant(c) /\ r.number = call[c].result
                    /\ LET exact == SumOf(LAMBDA it : it.quantity * it.price, Request(c).items)
                       IN  /\ WholeCents(r.total)
                           /\ Distance(r.total, exact) <= 5 * Len(Request(c).items)
          /\ call[c].outcome = "invoice_number_conflict" => call[c].result \in NumbersOf(Tenant(c))
    /\ \A r1, r2 \in invoices : r1.tenant = r2.tenant /\ r1.number = r2.number => r1 = r2

\* The days a bucket stands for, both included.
Covers(bucket, days) ==
    CASE bucket = "0-30" -> days <= 30 [] bucket = "31-60" -> days \in 31..60
      [] bucket = "61-90" -> days \in 61..90 [] bucket = "90+" -> days >= 91

\* The aging of a tenant's open rows, in whichever order they are read: every
\* row that owes something is counted in the bucket of its days and in no
\* other, and in one currency the buckets, the parties and the total agree.
AgingAgrees(table, open) ==
    \A t \in Tenants :
        LET rows == ReportRows(table, t, open, 1, today)
            owed == {r \in rows : r.total > r.paid}
            days(r) == today - r.due
        IN  \A order \in SetToSeqs(rows) :
                LET a == Aging(order, today)
                IN  /\ \A b \in Buckets : a.count[b] = Cardinality({r \in owed : Covers(b, days(r))})
                    /\ Cardinality({r.currency : r \in owed}) = 1 =>
                          /\ a.total = SumFunction(a.amount)
                          /\ a.total = SumFunction(a.parties)
                          /\ a.total = SumFunction([r \in owed |-> r.total - r.paid])
AgingComplete == AgingAgrees(invoices, OpenInvoice) /\ AgingAgrees(scenario.bills, OpenBill)

\* The trial balance of a tenant balances on every day, entries being posted
\* with all their lines, and lists exactly what was posted by then.
TrialInBalance ==
    \A t \in Tenants, asOf \in 0..today :
        LET trial == TrialBalance(ledger, t, scenario.accounts[t], asOf, FALSE)
            own == {i \in DOMAIN ledger : ledger[i].tenant = t /\ ledger[i].day <= asOf}
        IN  /\ trial.in_balance
            /\ trial.total_debit = SumFunction([i \in own |-> ledger[i].debit])
            /\ DOMAIN trial.accounts = {ledger[i].account : i \in own}

\* A reconciliation has one item for every row of the statement, names every
\* ticket whose key the statement lacks, counts its items, and calls a sale
\* matched only with a ticket of its airline and serial within the tolerance.
ReconciliationComplete ==
    \A c \in Calls : call[c].outcome = "reconciled" =>
        LET report == call[Request(c).report].result
            txs == report.transactions
            run == call[c].result.run
            tickets == TicketsOf(Request(c))
            of(i) == {k \in DOMAIN run.items : run.items[k].tx = i}
            same(t, tx) == t.airline = tx.airline /\ t.number[2] = tx.doc[2]
        IN  /\ SumFunction(run.count) = Len(run.items)
            /\ \A i \in DOMAIN txs : Cardinality(of(i)) = 1
            /\ \A k \in DOMAIN run.items :
                  LET it == run.items[k]
                  IN  /\ it.outcome \in {"matched", "discrepancy"} =>
                            \E n \in DOMAIN tickets :
                                /\ it.refs = {tickets[n].id} /\ same(tickets[n], txs[it.tx])
                                /\ Distance(txs[it.tx].net, tickets[n].amount + it.delta)
                                      <= IF it.outcome = "matched" THEN AmountTolerance ELSE 0
                      /\ it.outcome = "unmatched_internal" =>
                            \A i \in DOMAIN txs, n \in DOMAIN tickets :
                                txs[i].kind = "sale" /\ tickets[n].id \in it.refs => ~same(tickets[n], txs[i])
            /\ \A n \in DOMAIN tickets :
                  \E k \in DOMAIN run.items, n2 \in DOMAIN tickets :
                      /\ KeyOfTicket(tickets[n2]) = KeyOfTicket(tickets[n])
                      /\ tickets[n2].id \in run.items[k].refs

\* The statement fetched is one whose file name has the days the caller asked
\* for, has one header and one trailer, and its sales, refunds and memos add
\* up to what is remitted wherever the net of each sale is its gross less its
\* commission.
StatementAdds ==
    \A c \in Calls : call[c].outcome = "fetched" =>
        LET report == call[c].result
            q == Request(c)
            txs == report.transactions
            sales == {i \in DOMAIN txs : txs[i].kind = "sale"}
            memos == SelectSeq(txs, LAMBDA x : x.kind \in {"adm", "acm"})
        IN  /\ \E f \in scenario.files :
                  /\ f.start = q.start /\ f.end = q.end
                  /\ Len(Coded(f.lines, "BFH01")) = 1 /\ BspReport(f.lines) = report
            /\ (\A i \in sales : txs[i].net = txs[i].gross - txs[i].commission) =>
                  report.net = report.sales - report.commission + report.refunds
                               + Total(LAMBDA x : x.net, memos)

\* What is in the books and in the drafts is what was asked for and answered.
BooksTrue == TypeOK /\ BooksBacked /\ VouchersBalance /\ DraftsKept

\* Every report accounts for each row it is made from.
ReportsComplete == AgingComplete /\ TrialInBalance /\ ReconciliationComplete /\ StatementAdds

Fetched(source, c) ==
    /\ call[source].outcome = "fetched"
    /\ Session(source) = Session(c) /\ call[source].turn = turns[Session(c)]

\* reconcile_bsp finds a report exactly when it was fetched before in the same
\* turn of the same session.
ReportsOfTurn ==
    [][\A c \in Calls :
          Tool(c, "reconcile_bsp") /\ call[c].at # "done" /\ call'[c].at = "done" =>
              (call'[c].outcome = "reconciled" <=> Fetched(Request(c).report, c))]_vars

-----------------------------------------------------------------------------
(* What the texts say and the code does not keep.                          *)

\* "NOT REVERSIBLE": one approval posts one voucher.
PostedOnce == \A c \in Calls : books[c] <= 1

\* "The full canonical report is cached in the runtime under the returned
\* report_id for later reconcile_bsp calls."
CachedForLater ==
    \A c \in Calls :
        ~(call[c].outcome = "report_not_found"
          /\ call[Request(c).report].outcome = "fetched"
          /\ Session(Request(c).report) = Session(c)
          /\ call[Request(c).report].turn < call[c].turn)

\* "first wins, later rows will show as UNMATCHED_INTERNAL"
DuplicatesShown ==
    \A c \in Calls : call[c].outcome = "reconciled" =>
        \A n \in DOMAIN TicketsOf(Request(c)) :
            \E k \in DOMAIN call[c].result.run.items :
                TicketsOf(Request(c))[n].id \in call[c].result.run.items[k].refs

\* "sum of every transaction's net (== the BSP control total modulo rounding)"
ControlTotalAgrees ==
    \A c \in Calls : call[c].outcome = "fetched" => call[c].result.net = call[c].result.control
=============================================================================
