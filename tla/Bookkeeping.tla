---------------------------- MODULE Bookkeeping -----------------------------
(***************************************************************************)
(* The arithmetic of the back office: the canonical journal entry and      *)
(* invoice and the Tally vouchers made of them (finance.py, tally/         *)
(* mapping.py, xml_builder.py), the chart of accounts Tally answers with,  *)
(* the balanced rows of the general ledger (storage/ledger.py), and the    *)
(* aging and trial balance reports (reports.py).                           *)
(*                                                                         *)
(* An amount is an integer in thousandths of a currency unit, so that the  *)
(* roundings to two decimals show.                                         *)
(***************************************************************************)
EXTENDS Integers, Sequences, FiniteSets, SequencesExt, Functions

Abs(x) == IF x < 0 THEN -x ELSE x
SumSeq(s) == FoldSeq(LAMBDA x, acc : x + acc, 0, s)
SumOf(f(_), s) == SumSeq([i \in DOMAIN s |-> f(s[i])])
WholeCents(x) == x % 10 = 0

\* Decimal.quantize(0.01) and the format ".2f": half to even.
Quantize(x) ==
    LET down == 10 * (x \div 10)
        rest == x % 10
    IN  IF rest < 5 \/ (rest = 5 /\ (x \div 10) % 2 = 0) THEN down ELSE down + 10

-----------------------------------------------------------------------------
(* A journal entry: a sequence of lines [account, side, amount, currency]. *)
(* A line of the tool's input may set both sides or none.                  *)

ExactlyOneSide(line) == line.side \in {"debit", "credit"}
Signed(line) == IF line.side = "debit" THEN line.amount ELSE -line.amount
InCurrency(lines, c) == SelectSeq(lines, LAMBDA line : line.currency = c)
CurrenciesOf(lines) == {lines[i].currency : i \in DOMAIN lines}

BalancedPerCurrency(lines) ==
    \A c \in CurrenciesOf(lines) : SumOf(Signed, InCurrency(lines, c)) = 0
ValidEntry(lines) == Len(lines) >= 2 /\ BalancedPerCurrency(lines)

\* What the approver of post_journal_entry reads: the debits of a currency.
SummaryDebits(lines, c) ==
    SumOf(LAMBDA line : line.amount,
          SelectSeq(lines, LAMBDA line : line.side \in {"debit", "both"} /\ line.currency = c))

\* Tally's convention: a debit is deemed positive and carries a negative amount.
JournalLineToTally(line) ==
    [ledger |-> line.account,
     amount |-> Quantize(IF line.side = "debit" THEN -Abs(line.amount) ELSE Abs(line.amount)),
     positive |-> line.side = "debit"]
JournalVoucher(lines) == [i \in DOMAIN lines |-> JournalLineToTally(lines[i])]

-----------------------------------------------------------------------------
(* An invoice: [client, currency, grand (with its currency), lines], a     *)
(* line: [ledger, subtotal, taxes, total, currency].                       *)

InvoiceLineConsistent(line) == Cardinality(line.currencies) = 1
InvoiceConsistent(inv) ==
    /\ Len(inv.lines) >= 1
    /\ inv.totals = {inv.currency}      \* subtotal, tax_total and grand_total
    /\ \A i \in DOMAIN inv.lines :
          InvoiceLineConsistent(inv.lines[i]) /\ inv.lines[i].currencies = {inv.currency}
CreditRow(ledger, amount) == [ledger |-> ledger, amount |-> Quantize(Abs(amount)), positive |-> FALSE]
SalesRows(line) == <<CreditRow(line.ledger, line.subtotal)>>
                   \o [i \in DOMAIN line.taxes |-> CreditRow("Duties & Taxes", line.taxes[i])]

SalesVoucher(inv) ==
    <<[ledger |-> inv.client, amount |-> Quantize(-Abs(inv.grand)), positive |-> TRUE]>>
        \o FlattenSeq([i \in DOMAIN inv.lines |-> SalesRows(inv.lines[i])])

VoucherBalance(voucher) == SumOf(LAMBDA row : row.amount, voucher)
VoucherDebits(voucher) ==
    SumOf(LAMBDA row : -row.amount, SelectSeq(voucher, LAMBDA row : row.positive))

\* The accounts a posting names, which the resolver must know.
JournalAccounts(lines) == {lines[i].account : i \in DOMAIN lines}
InvoiceAccounts(inv) == {inv.client} \cup ({inv.lines[i].ledger : i \in DOMAIN inv.lines} \ {"Sales"})

-----------------------------------------------------------------------------
(* The chart of accounts: ledgers [name, parent] as Tally lists them.      *)

Parents == [assets |-> "asset", duties |-> "liability", sales |-> "income", purchases |-> "expense"]
InferAccountType(parent) == IF parent \in DOMAIN Parents THEN Parents[parent] ELSE "expense"
Named(ledgers) == SelectSeq(ledgers, LAMBDA t : t.name # "")
AccountsOf(ledgers) ==
    LET named == Named(ledgers)
    IN  [i \in DOMAIN named |-> [code |-> named[i].name, type |-> InferAccountType(named[i].parent)]]

-----------------------------------------------------------------------------
(* The general ledger: build_journal_entry makes the rows of an entry out  *)
(* of lines [account, debit, credit], or raises.                           *)

LedgerLine(line) == [account |-> line.account, debit |-> Quantize(line.debit), credit |-> Quantize(line.credit)]
LedgerLineValid(row) ==
    /\ row.debit >= 0 /\ row.credit >= 0
    /\ (row.debit > 0) # (row.credit > 0)

LedgerEntryValid(lines) ==
    LET rows == [i \in DOMAIN lines |-> LedgerLine(lines[i])]
    IN  /\ Len(lines) >= 2
        /\ \A i \in DOMAIN rows : LedgerLineValid(rows[i])
        /\ SumOf(LAMBDA r : r.debit, rows) = SumOf(LAMBDA r : r.credit, rows)

LedgerRows(t, lines, day) ==
    [i \in DOMAIN lines |-> LedgerLine(lines[i]) @@ [tenant |-> t, day |-> day]]

\* The rows of a tenant's account posted on or before a day.
PostedBy(ledger, t, account, asOf) ==
    SelectSeq(ledger, LAMBDA r : r.account = account /\ r.tenant = t /\ r.day <= asOf)

TrialBalance(ledger, t, accounts, asOf, includeZero) ==
    LET debit(a) == SumOf(LAMBDA r : r.debit, PostedBy(ledger, t, a, asOf))
        credit(a) == SumOf(LAMBDA r : r.credit, PostedBy(ledger, t, a, asOf))
        shown == {a \in accounts : includeZero \/ debit(a) # 0 \/ credit(a) # 0}
        totalDebit == SumFunction([a \in shown |-> debit(a)])
        totalCredit == SumFunction([a \in shown |-> credit(a)])
    IN  [accounts |-> [a \in shown |-> debit(a) - credit(a)],
         total_debit |-> totalDebit, total_credit |-> totalCredit,
         in_balance |-> totalDebit = totalCredit]

-----------------------------------------------------------------------------
(* The aging reports over rows [tenant, status, issue, due, total, paid,   *)
(* currency, party] of invoices and bills.                                 *)

OpenInvoice == {"issued", "partially_paid"}
OpenBill == {"received", "scheduled"}
Buckets == {"0-30", "31-60", "61-90", "90+"}

ClassifyBucket(due, today) ==
    LET overdue == today - due
    IN  CASE overdue <= 30 -> "0-30" [] overdue > 30 /\ overdue <= 60 -> "31-60"
          [] overdue > 60 /\ overdue <= 90 -> "61-90" [] OTHER -> "90+"

Outstanding(row) == row.total - row.paid
Owed(rows) == SelectSeq(rows, LAMBDA r : Outstanding(r) > 0)
ReportRows(table, t, open, from, to) ==
    {r \in table : r.tenant = t /\ r.status \in open /\ r.issue >= from /\ r.issue <= to}

\* rows: a sequence, in whichever order the database answers.  The currency
\* of the response is that of the last row that owes something.  The code
\* lists the five largest parties only.
Aging(rows, today) ==
    LET owed == Owed(rows)
        currency == IF owed = <<>> THEN "INR" ELSE owed[Len(owed)].currency
        inBucket(b) == SelectSeq(owed, LAMBDA r : ClassifyBucket(r.due, today) = b)
        ofParty(k) == SelectSeq(owed, LAMBDA r : <<r.party, r.currency>> = k)
        keys == {<<owed[i].party, owed[i].currency>> : i \in DOMAIN owed}
    IN  [currency |-> currency,
         total |-> SumOf(Outstanding, InCurrency(owed, currency)),
         count |-> [b \in Buckets |-> Len(inBucket(b))],
         amount |-> [b \in Buckets |-> SumOf(Outstanding, inBucket(b))],
         parties |-> [k \in keys |-> SumOf(Outstanding, ofParty(k))]]
=============================================================================
