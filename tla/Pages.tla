--------------------------------- MODULE Pages ---------------------------------
(***************************************************************************)
(* The lists of a tenant's invoices and payments, the timeline of a client, *)
(* and the pages that put the figures of Reports together: dashboard,       *)
(* income statement, settlement, forecast, insights and export.            *)
(*                                                                         *)
(* A list is ordered by creation, newest first, and by nothing else: rows   *)
(* of one moment come in any order, another one for each page.              *)
(***************************************************************************)
EXTENDS Reports, SequencesExt

CONSTANT MonthLength   \* the length of a month, in ticks

ASSUME MonthLengthAssumption == MonthLength \in Nat \ {0}

-----------------------------------------------------------------------------
(* Lists                                                                   *)

Newest(at) == {q \in SetToSeqs(DOMAIN at) : \A j, k \in DOMAIN q : j < k => at[q[j]] >= at[q[k]]}
Cut(q, offset, limit) ==
  SubSeq(q, offset + 1, IF offset + limit < Len(q) THEN offset + limit ELSE Len(q))

InvoiceAt(S) == [i \in S |-> inv[i].created]
PaymentAt(S) == [p \in S |-> pay[p].at]

(* "" and NoRow ask for any *)
Chosen(status, client, from, to) ==
  {i \in Rows : /\ status \in {"", inv[i].status}
                /\ client \in {NoRow, ClientOf(i)}
                /\ inv[i].created \in from..to}

(* What a page of the invoices may show: the handler puts page and limit   *)
(* right, then computes the offset                                         *)
GetUserInvoices(S, offset, limit) ==
  {Cut(q, IF offset < 0 THEN 0 ELSE offset, IF limit \in 1..100 THEN limit ELSE 20) :
     q \in Newest(InvoiceAt(S))}
InvoicePage(S, page, limit) ==
  LET right == IF limit \in 1..100 THEN limit ELSE 20
  IN  GetUserInvoices(S, (IF page < 1 THEN 0 ELSE page - 1) * right, right)

(* The payments' pages compute the offset first *)
PaymentPage(S, page, limit) ==
  LET offset == (page - 1) * limit
  IN  {Cut(q, IF offset < 0 THEN 0 ELSE offset, IF limit \in 1..100 THEN limit ELSE 20) :
         q \in Newest(PaymentAt(S))}

(* Settled on the list: it has an invoice and is completed *)
Reconciled(p) == pay[p].status = "completed"

(* The clients with what their invoices come to *)
GetUserClients ==
  [c \in ClientsOf(Rows) |->
     LET own == Chosen("", c, Start, now)
     IN  [billed |-> TotalOf(own), paid |-> PaidOf(own), count |-> Cardinality(own)]]

(* A client's timeline: the latest events of its latest invoices, which    *)
(* were sent at sent[i].  The rows do not keep that date: it is any.       *)
ClientActivity(S, limit, sent) ==
  LET happened(q) == UNION {LET i == q[k] IN
                            {<<"created", i, inv[i].created>>}
                              \cup (IF sent[i] = Never THEN {} ELSE {<<"sent", i, sent[i]>>})
                              \cup (IF inv[i].paidAt = Never THEN {} ELSE {<<"paid", i, inv[i].paidAt>>}) :
                          k \in DOMAIN q}
      latest(E) == {K \in SUBSET E :
                      /\ Cardinality(K) = IF Cardinality(E) < limit THEN Cardinality(E) ELSE limit
                      /\ \A shown \in K, other \in E \ K : shown[3] >= other[3]}
  IN  UNION {latest(happened(q)) : q \in GetUserInvoices(S, 0, limit)}

-----------------------------------------------------------------------------
(* The dashboard                                                           *)

MonthOf(t)   == t \div MonthLength
MonthsOf(n)  == MonthOf(now) - (n - 1) .. MonthOf(now)

MonthlyRevenue(n)  == [m \in MonthsOf(n) |-> TotalOf(PaidFrom(m * MonthLength, (m + 1) * MonthLength))]
MonthlyInvoices(n) ==
  [m \in MonthsOf(n) |-> Cardinality(CreatedBetween(m * MonthLength, (m + 1) * MonthLength - 1))]

StatusCounts == [status \in {"draft", "sent", "paid", "overdue", "partially_paid", "cancelled"} |->
                   Cardinality(WithStatus({status}))]
Collection   == [billed |-> TotalOf(Rows), paid |-> TotalOf(WithStatus({"paid"}))]
DaysToPay    == LET dated == {i \in WithStatus({"paid"}) : inv[i].paidAt # Never}
                IN  SumOf([i \in dated |-> inv[i].paidAt - inv[i].created])

(* Both tables of the join have a tenant: the query fails *)
TopPayingClients == {}

(* Nobody fills in the chart of the statuses *)
StatusChart == [status \in {"draft", "sent", "paid", "overdue"} |-> 0]
ClientChart == [c \in ClientsOf(Rows) |-> Shillings(GetUserClients[c].billed)]

GetDashboard(s) ==
  [revenue |-> Dashboard(s).allTime, counts |-> StatusCounts, top |-> TopPayingClients,
   recent |-> GetUserInvoices(Rows, 0, 10), statuses |-> StatusChart, clients |-> ClientChart]

-----------------------------------------------------------------------------
(* Settlement, statements, forecast                                        *)

(* A day's payments by M-Pesa, of all tenants; BETWEEN has both midnights  *)
Settlement(d, mpesa) ==
  LET got  == mpesa \cap ReceivedBetween(d * Day, (d + 1) * Day)
      done == AmountOf(Completed(got))
  IN  [count |-> Cardinality(got), debited |-> done,
       total |-> done + AmountOf({p \in got : pay[p].status = "pending"}),
       least |-> IF got = {} THEN 0 ELSE Min({pay[p].amount : p \in got}),
       most  |-> IF got = {} THEN 0 ELSE Max({pay[p].amount : p \in got})]

(* The costs are asked of two tables that both have a tenant, and stay 0   *)
IncomeStatement(s, e) ==
  LET revenue == AmountOf(Completed(ReceivedBetween(s, e)))
  IN  [revenue |-> revenue, costs |-> 0, expenses |-> 0, net |-> revenue - 0 - 0]

(* The tax is no column here either *)
TaxSummaryDetailed(paidOnExpenses) ==
  [collected |-> 0, paid |-> paidOnExpenses, due |-> 0 - paidOnExpenses]

PaidOnTime == {i \in WithStatus({"paid"}) : inv[i].paidAt # Never /\ inv[i].paidAt <= inv[i].due}
ClientPaymentBehavior ==
  [c \in ClientsOf(PaidOnTime) |-> Cardinality({i \in PaidOnTime : ClientOf(i) = c})]

(* The months a forecast goes by; BETWEEN has both ends *)
History(n) ==
  [k \in 0..n - 1 |->
     LET first == (MonthOf(now) - (n - 1 - k)) * MonthLength
     IN  AmountOf(Completed(ReceivedBetween(first, first + MonthLength)))]
GenerateForecast == [ahead \in 1..3 |-> PredictRevenue(History(6), ahead)]

(* What the dashboard advises, of figures in percent, two of them rounded  *)
Insights(growth, margin, pending, overdue, share, expenseGrowth) ==
  LET said == (IF growth > 10 THEN {"revenue_up"} ELSE IF growth < 0 - 5 THEN {"revenue_down"} ELSE {})
        \cup (IF margin > 30 THEN {"margin_good"} ELSE IF margin < 10 THEN {"margin_poor"} ELSE {})
        \cup (IF pending > 0 THEN {"pending"} ELSE {})
        \cup (IF overdue > 0 THEN {"overdue"} ELSE {})
        \cup (IF share > 30 THEN {"one_client"} ELSE {})
        \cup (IF expenseGrowth > 20 THEN {"expenses_up"} ELSE {})
  IN  IF said = {} THEN {"stable"} ELSE said

-----------------------------------------------------------------------------
(* Handlers and export                                                     *)

(* What the report's handlers answer, by route *)
Answer(page, s, e) ==
  CASE page = "overview" -> Overview(s, e)
    [] page = "revenue"  -> GetRevenue(s, e)
    [] page = "invoices" -> InvoicesOf(s, e)
    [] page = "payments" -> PaymentsOf(s, e)
    [] page = "vat"      -> VATReport(s, e, {})
    [] page = "aging"    -> AgingReport
StatementAnswer(page, s, e) ==
  CASE page = "income-statement" -> IncomeStatement(s, e)
    [] page = "profit"           -> Profitability(s, e)
    [] page = "cashflow"         -> CashFlow(s, e)
    [] page = "aging-detailed"   -> DetailedAging
    [] page = "behavior"         -> ClientPaymentBehavior

(* Only four reports are written as a table, which the format "excel" is   *)
(* too; of others a table has nothing.  An unknown report is the overview. *)
Exported(type, s, e) ==
  IF type \in {"revenue", "invoices", "payments", "aging"} THEN Answer(type, s, e)
  ELSE CASE type = "tax"     -> VATReport(s, e, {})
         [] type = "clients" -> ClientRevenue(s, e)
         [] type = "fraud"   -> FraudRisk(s, e)
         [] OTHER            -> Overview(s, e)
ToCSV(type, report) == IF type \in {"revenue", "invoices", "payments", "aging"} THEN NoRow ELSE report
ExportReport(format, type, s, e) ==
  IF format \in {"csv", "excel"} THEN ToCSV(type, Exported(type, s, e)) ELSE Exported(type, s, e)

-----------------------------------------------------------------------------
(* Properties                                                              *)

Shown(page) == {{q[k] : k \in DOMAIN q} : q \in page}

(* A row that is alone in its moment is on exactly one page of a list, in  *)
(* whatever order the pages have the others; with a limit of nought every  *)
(* page of the payments is the first one.  The timeline of a client lacks  *)
(* a payment only if as many events are as late, or as many invoices as    *)
(* new.                                                                    *)
OnePage(pages, x) ==
  \E n \in DOMAIN pages :
    /\ \A shown \in Shown(pages[n]) : x \in shown
    /\ \A m \in DOMAIN pages \ {n} : \A shown \in Shown(pages[m]) : x \notin shown

ListsShowAll ==
  /\ \A i \in Rows : (\A j \in Rows \ {i} : inv[j].created # inv[i].created) =>
       OnePage([n \in 1..Cardinality(Rows) |-> InvoicePage(Rows, n, 1)], i)
  /\ \A p \in Paid : (\A q \in Paid \ {p} : pay[q].at # pay[p].at) =>
       OnePage([n \in 1..Cardinality(Paid) |-> PaymentPage(Paid, n, 1)], p)
  /\ \A n \in 1..3 : PaymentPage(Paid, n, 0) = PaymentPage(Paid, 1, 0)
  /\ \A limit \in 1..2, sent \in [Rows -> {Never} \cup Start..now] :
       \A shown \in ClientActivity(Rows, limit, sent), i \in Rows :
         inv[i].paidAt # Never /\ <<"paid", i, inv[i].paidAt>> \notin shown =>
           \/ Cardinality({event \in shown : event[3] >= inv[i].paidAt}) = limit
           \/ Cardinality({j \in Rows \ {i} : inv[j].created >= inv[i].created}) >= limit

MonthsSoFar == MonthOf(now) - MonthOf(Start) + 1

(* The months, the statuses and the clients of the dashboard add up to its *)
(* figures, a paid invoice without a date apart; more is collected than    *)
(* was billed only by what the credit notes take off; and the chart and    *)
(* the list of the best clients know nothing of it.                        *)
DashboardAddsUp ==
  LET page    == GetDashboard(Start)
      clients == GetUserClients
      charted == SumOf(page.clients)
  IN  /\ SumOf(MonthlyRevenue(MonthsSoFar)) = Dashboard(Start).revenue
      /\ SumOf(MonthlyInvoices(MonthsSoFar)) = Cardinality(Rows)
      /\ SumOf(page.counts) = Cardinality(Rows \ WithStatus({"credit_note"}))
      /\ Collection.paid <= Collection.billed - TotalOf({i \in Rows : inv[i].total < 0})
      /\ DaysToPay >= 0
      /\ 100 * charted = Collection.billed
      /\ SumOf([c \in DOMAIN clients |-> clients[c].paid]) = PaidOf(Rows)
      /\ SumOf([c \in DOMAIN clients |-> clients[c].count]) = Cardinality(Rows)
      /\ page.top = {} /\ SumOf(page.statuses) = 0

(* The days of a settlement and the months of a forecast count what comes  *)
(* in at a midnight, or at the turn of a month, twice; the average of a    *)
(* day lies between its least and its most but for what was given back;    *)
(* what is paid late was overdue or had no due date.                       *)
TurnsCountTwice ==
  /\ \A mpesa \in SUBSET Paid :
       LET total   == SumOf([d \in Days |-> Settlement(d, mpesa).total])
           between == {p \in Completed(mpesa) : pay[p].at % Day = 0 /\ pay[p].at > Start}
       IN  /\ total = AmountOf(Completed(mpesa)) + AmountOf(between)
           /\ \A d \in Days :
                LET day  == Settlement(d, mpesa)
                    back == AmountOf({p \in mpesa \cap ReceivedBetween(d * Day, (d + 1) * Day) :
                                        pay[p].status = "refunded"})
                IN  /\ day.count * day.least <= day.total + back
                    /\ day.total + back <= day.count * day.most
  /\ LET months == History(MonthsSoFar)
         turn   == {p \in Completed(Paid) : /\ MonthOf(pay[p].at) > MonthOf(Start)
                                            /\ pay[p].at % MonthLength = 0}
     IN  SumOf(months) = IncomeStatement(Start, now).net + AmountOf(turn)
  /\ SumOf(ClientPaymentBehavior) + Cardinality({i \in WithStatus({"paid"}) : inv[i].due < inv[i].paidAt})
       + Cardinality({i \in WithStatus({"paid"}) : inv[i].paidAt = Never}) = StatusCounts["paid"]

(* A table has what the page has or nothing; a client that owes nothing is *)
(* still told that its margin is poor.                                     *)
ExportIsThePage ==
  /\ \A type \in {"revenue", "invoices", "payments", "aging"} :
       /\ ExportReport("json", type, Start, now) = Answer(type, Start, now)
       /\ ExportReport("csv", type, Start, now) = NoRow
  /\ ExportReport("excel", "tax", Start, now) = Answer("vat", Start, now)
  /\ ExportReport("csv", "unknown", Start, now) = Answer("overview", Start, now)
  /\ StatementAnswer("income-statement", Start, now).net = StatementAnswer("profit", Start, now).net
  /\ Rows = {} => Insights(0, 0, Dashboard(Start).outstanding,
                           AdvancedDashboard(Start, now).overdue, 0, 0) = {"margin_poor"}

(* Bounds: the pages are asked for on the last day, when all the dates are *)
(* past, after the request before the last; the line of the forecast once. *)
PagesAddUp ==
  now = MaxNow =>
    /\ events = MaxEvents - 1 =>
         FiguresAddUp /\ ListsShowAll /\ DashboardAddsUp /\ TurnsCountTwice /\ ExportIsThePage
    /\ events = 0 => ForecastIsTheLine
=============================================================================
