-------------------------------- MODULE MCBooks --------------------------------
(* A tenant's books, of which one part is looked at in each behaviour: the  *)
(* invoices and payments, the expenses, the clients.                        *)
EXTENDS Pages, TLC

CONSTANTS ExpenseIDs, Attachments, Requests, Dates, Statuses, FirstDay, Month, Months, LastDay,
          Tenant, ClientIDs, Bills, Receipts

ASSUME ReceiptsAssumption == IsFiniteSet(Receipts)
ASSUME NoRowAssumption    ==
  /\ NoRow \notin [client: ClientIDs, status: {"sent", "partially_paid", "overdue"}, paid: Nat]
  /\ NoRow \notin Bills

ASSUME ExpenseIDsAssumption == IsFiniteSet(ExpenseIDs) /\ IsFiniteSet(Attachments) /\ IsFiniteSet(Requests)
ASSUME MonthsAssumption     ==
  /\ Month \in Nat \ {0} /\ Month % Day = 0   \* a month has whole days
  /\ Months \in Nat \ {0}
  /\ FirstDay \in Nat /\ Dates \subseteq Nat
ASSUME NoExpenseAssumption  ==
  /\ NoRow \notin [status: Statuses \cup {"approved"}, date: Nat, attachments: Int]
  /\ NoRow \notin Statuses \cup {"approved"} /\ NoRow \notin ExpenseIDs \cup Dates

VARIABLES
  part,                                                    \* which part
  today, expense, file, req, used, asked, stale, miscounted,
  cli, invoice, paidBy, call, postgres, spent, deletion

E == INSTANCE Expenses WITH now <- today, Start <- FirstDay, MaxNow <- LastDay
C == INSTANCE Clients WITH Invoices <- Bills, Payments <- Receipts, req <- call, used <- spent

OwnClient(i) == i   \* each invoice is of a client of its own

expenses == <<today, expense, file, req, used, asked, stale, miscounted>>
clients  == <<cli, invoice, paidBy, call, postgres, spent, deletion>>

BooksInit ==
  /\ Init /\ E!Init /\ C!Init
  /\ part \in {"books", "expenses", "clients"}
  /\ part # "books" => inv = [i \in Invoices |-> NoRow]
  /\ part # "clients" => postgres

BooksStep    == part = "books" /\ UNCHANGED <<part, expenses, clients>>
ExpensesStep == part = "expenses" /\ UNCHANGED <<part, vars, clients>>
ClientsStep  == part = "clients" /\ UNCHANGED <<part, vars, expenses>>

BooksNext ==
  \/ BooksStep /\ Next
  \/ ExpensesStep /\ E!Next
  \/ ClientsStep /\ C!Next

BooksSpec == BooksInit /\ [][BooksNext]_<<part, vars, expenses, clients>>

Symmetry == Permutations(Invoices) \cup Permutations(Payments) \cup Permutations(Requests)

-----------------------------------------------------------------------------
(* The months of a trend, this month and its summary agree but for what is  *)
(* dated at the turn of a month, later than now, or today without a date;   *)
(* and what was last asked for an expense stands, its attachments counted   *)
(* right, unless a stale edit, a failed count or a second removal of one    *)
(* attachment made it wrong.                                                *)
ExpensesAddUp == part = "expenses" => E!MonthsAddUp /\ E!WrongHasACause

(* An edit of a client takes no payment back, and brings back only what it  *)
(* held when that was deleted.                                              *)
EditsTakeNothingBack == C!EditsTakeNothingBack
=============================================================================
