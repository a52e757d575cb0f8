-------------------------------- MODULE Reports --------------------------------
(***************************************************************************)
(* The pages that break the figures of Books down, by day, by status, by   *)
(* client, by tax, and the figures of one invoice.  An interval is closed   *)
(* where the page asks BETWEEN, and without its end where it asks >= and <. *)
(***************************************************************************)
EXTENDS Books

CONSTANT ClientOf(_)   \* whose an invoice is

ASSUME ClientsAssumption == \A i \in Invoices : ClientOf(i) # NoRow

DayOf(t)  == t \div Day
Days      == DayOf(Start) .. DayOf(MaxNow)
SumOf(f)  == MapThenSumSet(LAMBDA x : f[x], DOMAIN f)

-----------------------------------------------------------------------------
(* By day                                                                  *)

GetRevenue(s, e)  == [d \in Days |-> PaidOf({i \in PaidBetween(s, e) : DayOf(inv[i].paidAt) = d})]
GetPayments(s, e) == [d \in Days |-> AmountOf({p \in ReceivedBetween(s, e) : DayOf(pay[p].at) = d})]
GetInvoices(s, e) ==
  [kind \in Days \X {inv[i].status : i \in Rows} |->
     Cardinality({i \in CreatedBetween(s, e) : <<DayOf(inv[i].created), inv[i].status>> = kind})]

(* What came in, for Expenses has what went out *)
CashFlow(s, e) ==
  [d \in Days |-> AmountOf({p \in Completed(ReceivedBetween(s, e)) : DayOf(pay[p].at) = d})]

(* The dashboard's days begin where its period does and go on for as long  *)
(* as the period is said to be.  Mutated form: the first moment of the     *)
(* next day counts as well.                                                *)
PaidFrom(s, e) == {i \in WithStatus({"paid"}) : inv[i].paidAt # Never /\ s <= inv[i].paidAt /\ inv[i].paidAt < e}
DailyRevenueTwice(s, n) == [k \in 0..n - 1 |-> TotalOf(PaidFrom(s + k * Day, s + (k + 1) * Day + 1))]
DailyRevenue(s, n)      == [k \in 0..n - 1 |-> TotalOf(PaidFrom(s + k * Day, s + (k + 1) * Day))]
DailyInvoices(s, n)     ==
  [k \in 0..n - 1 |-> Cardinality(CreatedBetween(s + k * Day, s + (k + 1) * Day - 1))]

(* The chart's are the days of the calendar, from the second on *)
RevenueChart(s, n) ==
  [k \in 1..n |-> TotalOf({i \in PaidFrom(s, MaxNow + 1) : DayOf(inv[i].paidAt) = DayOf(s) + k})]

-----------------------------------------------------------------------------
(* By status and by client                                                 *)

Counted == {"draft", "sent", "viewed", "paid", "partially_paid", "overdue", "cancelled"}

InvoiceStats(s) ==
  [count  |-> [status \in Counted |-> Cardinality(WithStatus({status}))],
   total  |-> Cardinality(Rows),
   value  |-> TotalOf(Rows),
   paid   |-> TotalOf(WithStatus({"paid"})),
   outstanding |-> Owed(Pending),
   overdue     |-> Owed(WithStatus({"overdue"})),
   recent      |-> TotalOf({i \in Rows : inv[i].created >= s})]

InvoicesOf(s, e) ==
  [total |-> Cardinality(CreatedBetween(s, e)),
   byStatus |-> [status \in {inv[i].status : i \in CreatedBetween(s, e)} |->
                   Cardinality(CreatedBetween(s, e) \cap WithStatus({status}))]]

PaymentsOf(s, e) ==
  LET got == ReceivedBetween(s, e)
  IN  [total    |-> Cardinality(got),
       amount   |-> AmountOf(got),
       success  |-> Cardinality(Completed(got)),
       failed   |-> Cardinality({p \in got : pay[p].status = "failed"}),
       refunded |-> Cardinality({p \in got : pay[p].status = "refunded"})]

(* Every level of risk counts every payment; the failed ones are kept if   *)
(* the query object is nil, which it never is                              *)
FraudRisk(s, e) ==
  [failed |-> 0,
   levels |-> [l \in {"low", "medium", "high", "critical"} |-> Cardinality(ReceivedBetween(s, e))]]

(* The payments' page asks for a status of its own; the page beside it     *)
(* asks the invoices                                                       *)
PaymentSummary == [revenue |-> AmountOf({p \in Paid : pay[p].status = "success"}),
                   pending |-> AmountOf({p \in Paid : pay[p].status = "pending"})]
MatchingStats  == [revenue |-> PaidOf(WithStatus({"paid", "partially_paid"})),
                   pending |-> Balance(Pending)]

ClientsOf(S) == {ClientOf(i) : i \in S}
ClientRevenue(s, e) ==
  [c \in ClientsOf(CreatedBetween(s, e)) |->
     [revenue     |-> PaidOf({i \in CreatedBetween(s, e) : ClientOf(i) = c}),
      outstanding |-> Balance({i \in Rows : ClientOf(i) = c /\ inv[i].balance > 0})]]
TopClients ==
  LET counted == WithStatus({"paid", "partially_paid"})
  IN  [c \in ClientsOf(counted) |-> TotalOf({i \in counted : ClientOf(i) = c})]

Profitability(s, e) ==
  [gross |-> TotalOf(CreatedBetween(s, e) \cap WithStatus({"paid", "partially_paid"})),
   net   |-> AmountOf(Completed(ReceivedBetween(s, e)))]

-----------------------------------------------------------------------------
(* Tax and forecasts                                                       *)

(* The tax of an invoice is no column, so that what asks for it fails and  *)
(* its answer stays nil; zeroRated are the invoices an edit left at rate 0  *)
VATReport(s, e, zeroRated) ==
  LET all  == TotalOf(CreatedBetween(s, e))
      zero == TotalOf(CreatedBetween(s, e) \cap zeroRated)
  IN  [output |-> 0, taxable |-> 0, zero |-> zero, total |-> all, exempt |-> all - 0 - zero]
VATReturn(report, input) ==
  LET atLeast0(x) == IF x < 0 THEN 0 ELSE x
  IN  [box1 |-> atLeast0(report.output), box2 |-> atLeast0(input),
       box3 |-> atLeast0(report.output - input),
       box4 |-> report.taxable + report.exempt, box5 |-> report.exempt,
       box6 |-> report.zero, box7 |-> report.taxable]

(* The line through the months h[0], h[1], ... at a later month, as a      *)
(* fraction; below nil, the line's first point                             *)
PredictRevenue(h, months) ==
  LET n   == Cardinality(DOMAIN h)
      Sx  == SumOf([x \in DOMAIN h |-> x])
      Sy  == SumOf(h)
      Sxy == SumOf([x \in DOMAIN h |-> x * h[x]])
      Sxx == SumOf([x \in DOMAIN h |-> x * x])
      slope     == n * Sxy - Sx * Sy              \* times den
      den       == n * Sxx - Sx * Sx
      intercept == Sy * den - slope * Sx          \* times n * den
      at        == intercept + n * slope * (n + months)
  IN  IF n < 3 THEN [num |-> 0, den |-> 1]
      ELSE [num |-> IF at < 0 THEN intercept ELSE at, den |-> n * den]

-----------------------------------------------------------------------------
(* One invoice: what it says it was paid against its payments              *)

PaymentVerification(i) ==
  LET received == AmountOf(Completed(Pays(i)))
  IN  [paid |-> inv[i].paid, received |-> received, match |-> inv[i].paid = received]

-----------------------------------------------------------------------------
(* Properties                                                              *)

(* What an invoice says it was paid is what its payments come to, unless   *)
(* one of them was too much, was matched twice, given back, moved to       *)
(* another invoice, or went without its invoice.                           *)
PaidIsReceived ==
  Untouched({"overpaid", "reconciled", "emptied", "refunded", "moved"}) =>
    \A i \in Rows : PaymentVerification(i).match

(* The pages that break a figure down add up to it.                        *)
(*   - The dashboard's days come to its revenue but for what came in after *)
(*     the last of them; the chart's also lack what came in on the first.  *)
(*   - The statuses count every invoice but the credit notes.              *)
(*   - The figures of the payments' page are the cash flow and what was    *)
(*     given back; its summary knows none of it, and the page of risks     *)
(*     tells no level from another.                                        *)
(*   - The matching page loses what was paid on invoices that are overdue, *)
(*     cancelled or sent since.                                            *)
(*   - The sales declared are what is paid, owed, part-paid, drafted,      *)
(*     cancelled and noted.                                                *)
(*   - The forecast goes along the line of the months, one month further   *)
(*     than it says.                                                       *)
DaysAddUp ==
  /\ \A s \in {Start, Start + 1} :
       LET n      == Start + 2 - s
           missed == Dashboard(s + n * Day).revenue
           second == (DayOf(s) + 1) * Day
       IN  /\ SumOf(DailyRevenue(s, n)) = Dashboard(s).revenue - missed
           /\ SumOf(RevenueChart(s, n)) =
                Dashboard(second).revenue - Dashboard(second + n * Day).revenue
  /\ SumOf(DailyInvoices(Start, Cardinality(Days))) = Cardinality(Rows)
  /\ SumOf(GetInvoices(Start, now)) = Cardinality(Rows)
  /\ SumOf(GetRevenue(Start, now)) = Overview(Start, now).revenue

InvoicesAddUp ==
  LET stats == InvoiceStats(Start)
      whose == ClientRevenue(Start, now)
      tax   == {VATReturn(VATReport(Start, now, zeroRated), 0) : zeroRated \in SUBSET Rows}
  IN  /\ stats.total = SumOf(stats.count) + Cardinality(WithStatus({"credit_note"}))
      /\ SumOf(InvoicesOf(Start, now).byStatus) = stats.total
      /\ SumOf([c \in DOMAIN whose |-> whose[c].revenue]) = PaidOf(Rows)
      /\ MatchingStats.revenue
           + PaidOf(WithStatus({"overdue", "cancelled", "sent", "draft", "credit_note"})) = PaidOf(Rows)
      /\ SumOf(TopClients) - TotalOf(WithStatus({"partially_paid"})) = Dashboard(Start).allTime
      /\ stats.value = stats.paid + stats.outstanding + PaidOf(Pending)
                         + TotalOf(WithStatus({"draft", "cancelled", "credit_note"}))
      /\ \A declared \in tax : declared.box4 + declared.box6 = stats.value

PaymentsAddUp ==
  LET page == PaymentsOf(Start, now)
      back == AmountOf({p \in Paid : pay[p].status = "refunded"})
      risk == FraudRisk(Start, now)
  IN  /\ page.amount = SumOf(CashFlow(Start, now)) + back
      /\ page.amount = SumOf(GetPayments(Start, now))
      /\ page.total = page.success + page.refunded
      /\ PaymentSummary = [revenue |-> 0, pending |-> 0]
      /\ Profitability(Start, now).net = AdvancedDashboard(Start, now).revenue
      /\ \A level \in DOMAIN risk.levels : risk.levels[level] = page.total

ForecastIsTheLine ==
  \A a \in 0..2, b \in 0..1, k \in 1..3 :
    LET forecast == PredictRevenue([x \in 0..5 |-> a + b * x], k)
    IN  forecast.num = forecast.den * (a + b * (5 + k + 1))

FiguresAddUp == DaysAddUp /\ InvoicesAddUp /\ PaymentsAddUp
=============================================================================
