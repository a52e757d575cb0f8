--------------------------------- MODULE Books ---------------------------------
(***************************************************************************)
(* What the reports say about a tenant's invoices and payments while these *)
(* are written.  Every report adds up columns of its own choice, so that   *)
(* two pages tell the same figure only as long as the columns do.          *)
(*                                                                         *)
(* A request is one action here: InvoiceLedger and InvoiceCreation have    *)
(* its steps.  Amounts are in cents; a sum taken in SQL stays in cents, one *)
(* taken by Money.Float64 is in shillings.                                 *)
(***************************************************************************)
EXTENDS Integers, FiniteSets, FiniteSetsExt

CONSTANTS Invoices,   \* invoices, credit and debit notes
          Payments,   \* payments
          Totals,     \* totals an invoice may have, in cents
          Amounts,    \* amounts a payment may have, in cents
          Start,      \* the time at first
          Day,        \* the length of a day, in ticks
          LongAgo,    \* how long ago counts as long past due (90 days)
          MaxNow,     \* bound on the time
          MaxEvents,  \* bound on the requests that write amounts
          NoRow       \* no such row

VARIABLES
  now,       \* the time
  inv,       \* inv[i]: the invoice row, or NoRow
  pay,       \* pay[p]: the payment row, or NoRow
  events,    \* the requests so far
  amiss      \* history: what has been done to the columns

vars == <<now, inv, pay, events, amiss>>

Never == 0   \* a date that is not set
Zero  == 1   \* year 1, the due date of a request without one

ASSUME StartAssumption == Start \in Nat /\ Start > Zero
ASSUME DayAssumption   == Day \in Nat \ {0}
ASSUME RowsAssumption  == IsFiniteSet(Invoices) /\ IsFiniteSet(Payments)

(* Rows as they may be, and that no row is none of them *)
InvoiceRows ==
  [status: {"draft", "sent", "partially_paid", "overdue", "paid", "cancelled", "credit_note"},
   total: Int, paid: Int, balance: Int, created: Nat, due: Nat, paidAt: Nat, registered: BOOLEAN]
PaymentRows == [of: Invoices, amount: Int, at: Nat, status: {"completed", "refunded"}]

ASSUME RowsAreAssumption == NoRow \notin InvoiceRows /\ NoRow \notin PaymentRows

(* Amounts are whole shillings, and none is less than nothing *)
ASSUME TotalsAssumption  == Max(Totals) \in Totals /\ \A t \in Totals : t \in Nat /\ t % 100 = 0
ASSUME AmountsAssumption == \A a \in Amounts : a \in Nat /\ a % 100 = 0

Invoice(status, total, balance, due) ==
  [status |-> status, total |-> total, paid |-> 0, balance |-> balance, created |-> now,
   due |-> due, paidAt |-> Never, registered |-> FALSE]

Payment(i, amount) == [of |-> i, amount |-> amount, at |-> now, status |-> "completed"]

(* At first an invoice over the most may have been created and sent *)
Init == /\ now = Start
        /\ \E first \in SUBSET Invoices :
             /\ Cardinality(first) <= 1
             /\ inv = [i \in Invoices |-> IF i \in first
                                         THEN Invoice("sent", Max(Totals), Max(Totals), now + 1)
                                         ELSE NoRow]
        /\ pay = [p \in Payments |-> NoRow]
        /\ events = 0
        /\ amiss = {}

Rows     == {i \in Invoices : inv[i] # NoRow}
Paid     == {p \in Payments : pay[p] # NoRow}
Pays(i)  == {p \in Paid : pay[p].of = i}
Count    == events < MaxEvents /\ events' = events + 1

-----------------------------------------------------------------------------
(* The requests that write the rows                                        *)

CreateInvoice(i) ==
  \E total \in Totals, due \in {Zero, now + 1} :
    /\ inv[i] = NoRow
    /\ inv' = [inv EXCEPT ![i] = Invoice("draft", total, total, due)]
    /\ UNCHANGED <<pay, amiss>>

(* A note gets no balance *)
CreateNote(i) ==
  /\ inv[i] = NoRow
  /\ \E j \in Rows : inv[j].registered
  /\ \E total \in Totals :
       inv' \in {[inv EXCEPT ![i] = Invoice("credit_note", 0 - total, 0, now + 1)],
                 [inv EXCEPT ![i] = Invoice("sent", total, 0, now + 1)]}
  /\ amiss' = amiss \cup {"noted"}
  /\ UNCHANGED pay

(* A credit note that is sent is from then on an invoice over less than    *)
(* nothing                                                                 *)
SendInvoice(i) ==
  /\ inv[i].status \notin {"sent", "paid", "cancelled"}
  /\ inv' = [inv EXCEPT ![i].status = "sent"]
  /\ amiss' = IF inv[i].total < 0 THEN amiss \cup {"note_sent"} ELSE amiss
  /\ UNCHANGED pay

(* RecordPayment; what is paid too much is what the payment says.  Mutated *)
(* form: an invoice that is paid in a second payment gets no date.         *)
CreditUndated(row, amount) ==
  LET paid == IF row.paid + amount > row.total THEN row.total ELSE row.paid + amount
  IN  [row EXCEPT !.paid = paid, !.balance = row.total - paid,
                  !.status = IF paid = row.total THEN "paid" ELSE "partially_paid",
                  !.paidAt = IF paid = row.total /\ row.paid = 0 THEN now ELSE @]
Credit(row, amount) ==
  LET paid == IF row.paid + amount > row.total THEN row.total ELSE row.paid + amount
  IN  [row EXCEPT !.paid = paid, !.balance = row.total - paid,
                  !.status = IF paid = row.total THEN "paid" ELSE "partially_paid",
                  !.paidAt = IF paid = row.total THEN now ELSE @]

RecordPayment(i, p) ==
  \E amount \in Amounts :
    LET excess == inv[i].paid + amount - inv[i].total
    IN  /\ inv[i].status \in {"sent", "partially_paid", "overdue"}
        /\ pay[p] = NoRow
        /\ <<inv[i].status, Credit(inv[i], amount).status>> # <<"partially_paid", "partially_paid">>
        /\ inv' = [inv EXCEPT ![i] = Credit(@, amount)]
        /\ pay' = [pay EXCEPT ![p] =
             Payment(i, IF excess > 0 THEN excess ELSE amount)]
        /\ amiss' = IF excess > 0 THEN amiss \cup {"overpaid"} ELSE amiss

(* ManualMatch and ReconcilePayment, which end in Postgres only.  Mutated  *)
(* form: an invoice that is matched in full is paid no more than its total. *)
MatchedAtMost(row, amount) ==
  LET full == row.paid + amount >= row.total
  IN  [row EXCEPT !.paid = IF full THEN row.total ELSE @ + amount,
                  !.status = IF full THEN "paid" ELSE "partially_paid",
                  !.paidAt = IF full THEN now ELSE @]
Matched(row, amount) ==
  LET full == row.paid + amount >= row.total
  IN  [row EXCEPT !.paid = @ + amount,
                  !.status = IF full THEN "paid" ELSE "partially_paid",
                  !.paidAt = IF full THEN now ELSE @]

ManualMatch(i, p) ==
  \E amount \in Amounts :
    /\ pay[p] = NoRow
    /\ inv' = [inv EXCEPT ![i] = Matched(@, amount)]
    /\ pay' = [pay EXCEPT ![p] = Payment(i, amount)]
    /\ amiss' = amiss \cup {"matched"}

ReconcilePayment(i) ==
  \E p \in Pays(i) :
    /\ inv' = [inv EXCEPT ![i] = Matched(@, pay[p].amount)]
    /\ amiss' = amiss \cup {"matched", "reconciled"}
    /\ UNCHANGED pay

(* The invoice is left as it is *)
RefundPayment(p) ==
  /\ pay[p].status # "refunded"
  /\ pay' = [pay EXCEPT ![p].status = "refunded"]
  /\ amiss' = amiss \cup {"refunded"}
  /\ UNCHANGED inv

(* ManualMatchPayment: the payment goes to another invoice, what either is *)
(* paid does not                                                           *)
MovePayment(p) ==
  \E i \in Rows \ {pay[p].of} :
    /\ pay' = [pay EXCEPT ![p].of = i]
    /\ amiss' = amiss \cup {"moved"}
    /\ UNCHANGED inv

CancelInvoice(i) ==
  /\ inv[i].status \in {"draft", "sent", "partially_paid", "overdue"}
  /\ inv' = [inv EXCEPT ![i].status = "cancelled"]
  /\ UNCHANGED <<pay, amiss>>

(* UpdateInvoice: the total is computed anew, the balance and the date of  *)
(* payment are not                                                         *)
StatusOnRequest(from, to) ==
  IF \/ from = "draft" /\ to \in {"sent", "cancelled"}
     \/ to = "cancelled" /\ from # "paid"
     \/ to = "paid"
  THEN to ELSE from

Updated(row, to, total) == [row EXCEPT !.status = StatusOnRequest(@, to), !.total = total]

UpdateInvoice(i) ==
  \E to \in {"none", "sent", "cancelled", "paid"}, total \in Totals :
    /\ inv[i].status = "draft" \/ to # "none"
    /\ inv' = [inv EXCEPT ![i] = Updated(@, to, total)]
    /\ amiss' = amiss \cup (IF total # inv[i].total THEN {"edited"} ELSE {})
                      \cup (IF to = "paid" THEN {"paid_by_hand"} ELSE {})
    /\ UNCHANGED pay

(* DeleteInvoice: the payments go, even if the invoice may not *)
MayDelete(row) == row.status \notin {"paid", "partially_paid"} /\ ~row.registered

DeleteInvoice(i) ==
  /\ pay' = [p \in Payments |-> IF p \in Pays(i) THEN NoRow ELSE pay[p]]
  /\ IF MayDelete(inv[i])
     THEN inv' = [inv EXCEPT ![i] = NoRow] /\ UNCHANGED amiss
     ELSE amiss' = amiss \cup {"emptied"} /\ UNCHANGED inv

(* KRA confirms the invoice *)
Registers(i) ==
  /\ inv[i].status # "draft" /\ ~inv[i].registered
  /\ inv' = [inv EXCEPT ![i].registered = TRUE]
  /\ UNCHANGED <<pay, amiss>>

(* The daily job; not a request *)
MarkOverdueInvoices ==
  /\ inv' = [i \in Invoices |->
       IF /\ i \in Rows
          /\ inv[i].status \notin {"paid", "cancelled", "draft"}
          /\ inv[i].due < now
          /\ inv[i].paid < inv[i].total
       THEN [inv[i] EXCEPT !.status = "overdue"] ELSE inv[i]]
  /\ UNCHANGED <<now, pay, events, amiss>>

Writes ==
  /\ \/ /\ Count
        /\ \/ \E i \in Invoices : CreateInvoice(i) \/ CreateNote(i)
           \/ \E i \in Rows : \/ CancelInvoice(i) \/ UpdateInvoice(i)
                              \/ DeleteInvoice(i) \/ ReconcilePayment(i)
           \/ \E i \in Rows, p \in Payments : RecordPayment(i, p) \/ ManualMatch(i, p)
           \/ \E p \in Paid : RefundPayment(p) \/ MovePayment(p)
     \/ /\ UNCHANGED events
        /\ \E i \in Rows : SendInvoice(i) \/ Registers(i)
  /\ UNCHANGED now

Tick == /\ now < MaxNow
        /\ now' = now + 1
        /\ UNCHANGED <<inv, pay, events, amiss>>
-----------------------------------------------------------------------------
(* What the columns add up to                                              *)

TotalOf(S)  == MapThenSumSet(LAMBDA i : inv[i].total, S)
PaidOf(S)   == MapThenSumSet(LAMBDA i : inv[i].paid, S)
Balance(S)  == MapThenSumSet(LAMBDA i : inv[i].balance, S)
Owed(S)     == TotalOf(S) - PaidOf(S)
AmountOf(S) == MapThenSumSet(LAMBDA p : pay[p].amount, S)

(* Money.Float64, for the amounts of the model are whole shillings *)
Shillings(cents) == cents \div 100

WithStatus(S)       == {i \in Rows : inv[i].status \in S}
Pending             == WithStatus({"sent", "viewed", "partially_paid", "overdue"})
CreatedBetween(s, e) == {i \in Rows : inv[i].created \in s..e}
PaidBetween(s, e)   == {i \in Rows : inv[i].paidAt # Never /\ inv[i].paidAt \in s..e}
ReceivedBetween(s, e) == {p \in Paid : pay[p].at \in s..e}

Completed(S)        == {p \in S : pay[p].status = "completed"}

Overview(s, e) ==
  [revenue |-> PaidOf(PaidBetween(s, e)),
   before  |-> PaidOf(PaidBetween(s - (e - s), s)),
   pending |-> Balance(Pending),
   overdue |-> Balance(WithStatus({"overdue"}))]

(* The dashboard of the invoices                                           *)
Dashboard(s) ==
  [allTime |-> TotalOf(WithStatus({"paid"})),
   revenue |-> TotalOf({i \in WithStatus({"paid"}) : inv[i].paidAt # Never /\ inv[i].paidAt >= s}),
   outstanding |-> Owed(Pending)]

(* The period before is twice as long *)
AdvancedDashboard(s, e) ==
  [revenue |-> AmountOf(Completed(ReceivedBetween(s, e))),
   before  |-> AmountOf(Completed(ReceivedBetween(s - 2 * (e - s), s))),
   overdue |-> Owed(WithStatus({"overdue"}))]

(* The dashboard of the clients.  Mutated form: what is owed includes the  *)
(* invoices that are cancelled.                                            *)
ClientDashboardCancelled ==
  [revenue |-> TotalOf(WithStatus({"paid"})),
   outstanding |-> Owed(Rows \ WithStatus({"paid", "void", "draft"}))]
ClientDashboard ==
  [revenue |-> TotalOf(WithStatus({"paid"})),
   outstanding |-> Owed(Rows \ WithStatus({"paid", "cancelled", "void", "draft"}))]

(* Its first three ages go by the balance whatever the status; the fourth  *)
(* is asked for twice, and the second answer stands                        *)
LongOverdue == {i \in Rows : inv[i].due < now - LongAgo}
AgingReport == Balance({i \in Rows \ LongOverdue : inv[i].balance > 0})
                 + Owed(WithStatus({"overdue"}) \cap LongOverdue)

DetailedAging ==
  LET late == {i \in Rows \ WithStatus({"paid", "cancelled", "draft"}) : inv[i].total > inv[i].paid}
  IN  MapThenSumSet(LAMBDA i : Shillings(inv[i].total - inv[i].paid), late)

(* The opening balance is summed in SQL, the rest is added by Money        *)
(* .Float64.  Mutated form: what came in on the first day is in both.      *)
StatementTwice(s, e) ==
  LET opening == TotalOf({i \in Rows : inv[i].created <= s}) - AmountOf({p \in Paid : pay[p].at <= s})
  IN  [opening |-> opening,
       closing |-> opening + Shillings(TotalOf(CreatedBetween(s, e)))
                           - Shillings(AmountOf(ReceivedBetween(s, e)))]
Statement(s, e) ==
  LET opening == TotalOf({i \in Rows : inv[i].created < s}) - AmountOf({p \in Paid : pay[p].at < s})
  IN  [opening |-> opening,
       closing |-> opening + Shillings(TotalOf(CreatedBetween(s, e)))
                           - Shillings(AmountOf(ReceivedBetween(s, e)))]

Next == Writes \/ MarkOverdueInvoices \/ Tick

Spec == Init /\ [][Next]_vars

-----------------------------------------------------------------------------
(* Properties                                                              *)

Untouched(deeds) == amiss \cap deeds = {}

(* What is owed is the same on every page, each adding up other columns:   *)
(* the clients' page has the credit notes besides, the overview goes by a  *)
(* balance that an edit, a match and a note do not keep up, the detailed   *)
(* ages leave out what is owed to the client, and the plain ages count     *)
(* drafts and cancelled invoices as current and lose what is long past due *)
(* as long as the daily job has not marked it.                             *)
OutstandingAgrees ==
  LET owed == Dashboard(Start).outstanding
  IN  /\ ClientDashboard.outstanding = owed + Owed(WithStatus({"credit_note"}))
      /\ Untouched({"edited", "matched", "noted"})
           => /\ Overview(Start, now).pending = owed
              /\ Overview(Start, now).overdue = AdvancedDashboard(Start, now).overdue
              /\ AgingReport = owed
                   + Balance(WithStatus({"draft", "cancelled", "paid"}) \ LongOverdue)
                   - Balance(WithStatus({"sent", "partially_paid"}) \cap LongOverdue)
      /\ Untouched({"edited", "matched", "note_sent"}) => 100 * DetailedAging = owed

(* Revenue is told from the invoices on two pages and from the payments on *)
(* a third.  The two agree on every period unless an edit or a match leaves *)
(* the total and what is paid apart; the third agrees, with what has come  *)
(* in on invoices that are not paid yet, unless a payment was more than was *)
(* owed, was matched twice, given back, or went without its invoice; and    *)
(* all revenue is dated unless an edit said paid.                          *)
RevenueAgrees ==
  /\ Untouched({"edited", "matched"}) =>
       \A s \in Start..now : Overview(s, now).revenue = Dashboard(s).revenue
  /\ Untouched({"overpaid", "reconciled", "emptied", "refunded", "moved"}) =>
       AdvancedDashboard(Start, now).revenue
         = Overview(Start, now).revenue + PaidOf({i \in Rows : inv[i].paidAt = Never})
  /\ Untouched({"paid_by_hand"}) => Dashboard(Start).allTime = Dashboard(Start).revenue

(* A statement opens where the one of the days before closes, once its     *)
(* movements, which are in shillings, are put in cents, but for what       *)
(* happened in the course of the last day: the end of a statement is the   *)
(* first moment of its last day.                                           *)
StatementsChain ==
  \A s \in Start..now, e \in Start..now :
    s <= e /\ s % Day = 0 /\ e % Day = 0 =>
      LET one  == Statement(s, e)
          next == Statement(e + Day, e + Day)
      IN  next.opening - (one.opening + 100 * (one.closing - one.opening))
            = TotalOf(CreatedBetween(e + 1, e + Day - 1))
                - AmountOf(ReceivedBetween(e + 1, e + Day - 1))

=============================================================================
