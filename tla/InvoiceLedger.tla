---------------------------- MODULE InvoiceLedger ----------------------------
(***************************************************************************)
(* One invoice row, its payment rows, and the requests that write them.    *)
(*                                                                         *)
(* Every writer reads the whole row and later saves the whole row (gorm's  *)
(* First and Save).  RecordPayment, CancelInvoice, ManualMatch and         *)
(* ReconcilePayment do so inside a database transaction; SendInvoice,      *)
(* UpdateInvoice and DeleteInvoice as separate statements.  A request is a *)
(* goroutine that runs one of them, one statement per step.                *)
(*                                                                         *)
(* The database isolates transactions in one of two ways.  SQLite runs     *)
(* with one connection: a transaction keeps it, everybody else waits.      *)
(* Postgres runs READ COMMITTED over a pool of connections: a transaction  *)
(* saves the row it read even if another one has committed since.          *)
(***************************************************************************)
EXTENDS Naturals, FiniteSetsExt

CONSTANTS Requests,  \* requests; the payment a request creates has its id
          Ops,       \* the operations requests may run, a subset of AllOps
          Amounts,   \* amounts a payment request may carry
          Keys,      \* idempotency keys a payment request may carry
          NoKey,     \* the empty idempotency key
          Discounts, \* discounts an update may set
          Total,     \* invoice.Total, as the invoice was made
          ItemsTotal,\* the sum of its items' totals
          SerialTx,  \* TRUE: SQLite, one connection.  FALSE: Postgres.
          NoRow      \* no row in the table

TxOps    == {"record", "cancel", "match", "reconcile"}
PlainOps == {"send", "update", "delete"}
AllOps   == TxOps \cup PlainOps

ASSUME AmountsAssumption == Amounts \subseteq Nat
ASSUME TotalAssumption   == Total \in Nat \ {0} /\ ItemsTotal \in Nat
ASSUME DiscountAssumption == Discounts \subseteq Nat
ASSUME KeysAssumption    == NoKey \notin Keys
ASSUME OpsAssumption     == Ops \subseteq AllOps
ASSUME SerialAssumption  == SerialTx \in BOOLEAN

VARIABLES
  inv,       \* the invoice row, or NoRow
  payments,  \* payments[r]: the payment row request r created, or NoRow
  items,     \* TRUE while the invoice's items are in their table
  req        \* req[r]: where request r is, what it asks for, what it read

vars == <<inv, payments, items, req>>

(***************************************************************************)
(* The rows and the status machine of models.go                            *)
(***************************************************************************)
Statuses == {"draft", "sent", "viewed", "partially_paid", "paid", "overdue",
             "cancelled", "void", "credit_note", "debit_note"}

ValidTransitions ==
  [s \in Statuses |->
    CASE s = "draft"  -> {"sent", "cancelled", "void"}
      [] s \in {"sent", "viewed"}
           -> {"paid", "partially_paid", "overdue", "cancelled", "void"}
      [] s = "partially_paid" -> {"paid", "overdue", "cancelled"}
      [] s = "paid"    -> {"void"}
      [] s = "overdue" -> {"paid", "partially_paid", "cancelled"}
      [] OTHER -> {}]

CanTransition(from, to) == to \in ValidTransitions[from]

(* Version, "optimistic locking", is raised by some writers and read by none *)
Row == [status: Statuses, total: Nat, discount: Nat, paid: Nat, balance: Nat,
        kra: {"none", "submitted"}]

Payment == [amount: Nat, key: Keys \cup {NoKey}]

(* RecordPayment accepts invoices in these statuses *)
Payable == {"sent", "viewed", "overdue", "partially_paid"}

(***************************************************************************)
(* Requests                                                                *)
(***************************************************************************)
Request == [pc: {"new", "read", "checked", "emptied", "done"},
            op: AllOps \cup {"none"},
            amount: Nat,
            key: Keys \cup {NoKey},
            to: Statuses \cup {"none"},       \* UpdateInvoiceRequest.Status
            row: Row \cup {NoRow},            \* the row it read
            rows: [Requests -> Payment \cup {NoRow}],  \* preloaded payments
            items: BOOLEAN,                   \* TRUE: preloaded items
            result: {"none", "ok", "overpaid", "duplicate", "refused",
                     "recalculated"}]

NoPayments == [r \in Requests |-> NoRow]
Fresh == [pc |-> "new", op |-> "none", amount |-> 0, key |-> NoKey,
          to |-> "none", row |-> NoRow, rows |-> NoPayments, items |-> FALSE,
          result |-> "none"]

InTx(r) == req[r].op \in TxOps /\ req[r].pc \notin {"new", "done"}

(* Mutated form: a second connection in the pool *)
ConnectedToPool(r) == TRUE

(* A statement of r gets a connection: with SQLite's single one, only when  *)
(* no other request has a transaction open.                                *)
Connected(r) == SerialTx => \A q \in Requests \ {r} : ~InTx(q)

At(r, op, pc) == req[r].op = op /\ req[r].pc = pc /\ Connected(r)

Ended(op, result) == [Fresh EXCEPT !.pc = "done", !.op = op, !.result = result]
Advance(r, pc)    == req' = [req EXCEPT ![r].pc = pc]
Finish(r, result) == req' = [req EXCEPT ![r] = Ended(req[r].op, result)]

(* r starts op: it reads the row and goes on with it, or is refused on it. *)
(* GetInvoiceByID also preloads payments and items, RecordPayment items.   *)
Begin(r, op, ok, amount, key, to) ==
  /\ op \in Ops
  /\ req[r].pc = "new"
  /\ Connected(r)
  /\ req' = [req EXCEPT ![r] =
       IF ok THEN [pc |-> "read", op |-> op, amount |-> amount, key |-> key,
                   to |-> to, row |-> inv, result |-> "none",
                   rows |-> IF op \in TxOps THEN NoPayments ELSE payments,
                   items |-> items /\ op \in PlainOps \cup {"record"}]
             ELSE Ended(op, "refused")]
  /\ UNCHANGED <<inv, payments, items>>

Exists == inv # NoRow

(* Payments and items refer to their invoice.  Postgres rejects a row that *)
(* refers to a missing one; SQLite's driver leaves foreign keys unchecked. *)
ForeignKeys == ~SerialTx
Orphaned    == ForeignKeys /\ ~Exists

(* The invoice is new, or has been sent *)
Init ==
  /\ \E status \in {"draft", "sent"} :
       inv = [status |-> status, total |-> Total, discount |-> 0, paid |-> 0,
              balance |-> Total, kra |-> "none"]
  /\ payments = NoPayments
  /\ items = TRUE
  /\ req = [r \in Requests |-> Fresh]

(***************************************************************************)
(* RecordPayment: one transaction of three statements                      *)
(***************************************************************************)
RecordRead(r) ==
  \E amount \in Amounts, key \in Keys \cup {NoKey} :
    Begin(r, "record", Exists /\ inv.status \in Payable /\ amount > 0,
          amount, key, "none")

(* Mutated form: the check looks for the key among payments of 0 *)
DuplicateMissed(key) == key # NoKey /\ \E p \in Requests :
                          payments[p] # NoRow /\ payments[p] = [amount |-> 0, key |-> key]

Duplicated(key) == key # NoKey /\ \E p \in Requests :
                    payments[p] # NoRow /\ payments[p].key = key

RecordCheck(r) ==
  /\ At(r, "record", "read")
  /\ IF Duplicated(req[r].key) THEN Finish(r, "duplicate")
                              ELSE Advance(r, "checked")
  /\ UNCHANGED <<inv, payments, items>>

(* Overpaying: the invoice is credited up to its total, and the payment    *)
(* row keeps the excess instead of the amount.  Mutated form: no cap.      *)
CreditedUncapped(row, amount) == row.paid + amount
Overpays(row, amount) == row.paid + amount > row.total
Credited(row, amount) == IF Overpays(row, amount) THEN row.total
                                                  ELSE row.paid + amount
Recorded(row, amount) == IF Overpays(row, amount)
                           THEN row.paid + amount - row.total ELSE amount
(* Mutated form: paid only when more than the total is *)
StatusForMore(paid, total) == IF paid > total THEN "paid" ELSE "partially_paid"
StatusFor(paid, total) == IF paid >= total THEN "paid" ELSE "partially_paid"

(* Mutated form: the balance is left as it was *)
CreditKeepingBalance(row, amount) ==
  LET paid == Credited(row, amount)
  IN  [row EXCEPT !.paid = paid, !.status = StatusFor(paid, row.total)]
(* The row with the amount credited *)
Credit(row, amount) ==
  LET paid == Credited(row, amount)
  IN  [row EXCEPT !.paid = paid, !.status = StatusFor(paid, row.total),
                  !.balance = row.total - paid]

(* Create the payment (which needs the invoice to be there still), validate *)
(* the transition (rolling back), save the row                             *)
RecordCommit(r) ==
  LET row    == req[r].row
      amount == req[r].amount
      new    == Credit(row, amount)
  IN  /\ At(r, "record", "checked")
      /\ \/ /\ Orphaned \/ ~CanTransition(row.status, new.status)
            /\ Finish(r, "refused")
            /\ UNCHANGED <<inv, payments, items>>
         \/ /\ ~Orphaned
            /\ CanTransition(row.status, new.status)
            /\ inv' = new
            /\ payments' = [payments EXCEPT ![r] =
                 [amount |-> Recorded(row, amount), key |-> req[r].key]]
            /\ items' = (items \/ req[r].items)
            /\ Finish(r, IF Overpays(row, amount) THEN "overpaid" ELSE "ok")

(***************************************************************************)
(* CancelInvoice: one transaction                                          *)
(***************************************************************************)
CancelRead(r) ==
  Begin(r, "cancel", Exists /\ CanTransition(inv.status, "cancelled"),
        0, NoKey, "none")

CancelCommit(r) ==
  /\ At(r, "cancel", "read")
  /\ inv' = [req[r].row EXCEPT !.status = "cancelled"]
  /\ Finish(r, "ok")
  /\ UNCHANGED <<payments, items>>

(***************************************************************************)
(* ManualMatch and ReconcilePayment: transactions of payment_matching.go.  *)
(* They ask for no status, cap nothing and leave the balance.              *)
(* Before they commit they notify through a second connection, which       *)
(* SQLite's single one never grants: there they stay open for good.        *)
(***************************************************************************)
AddPaid(row, amount) == [row EXCEPT !.paid = row.paid + amount,
                    !.status = StatusFor(row.paid + amount, row.total)]

MatchRead(r) ==
  \E amount \in Amounts : Begin(r, "match", Exists, amount, NoKey, "none")

MatchCommit(r) ==
  /\ ~SerialTx
  /\ At(r, "match", "read")
  /\ \/ /\ Exists
        /\ inv' = AddPaid(req[r].row, req[r].amount)
        /\ payments' = [payments EXCEPT ![r] =
                          [amount |-> req[r].amount, key |-> NoKey]]
        /\ Finish(r, "ok")
     \/ /\ ~Exists
        /\ Finish(r, "refused")
        /\ UNCHANGED <<inv, payments>>
  /\ UNCHANGED items

(* A payment already recorded is added once more *)
ReconcileRead(r) ==
  \E p \in Requests :
    /\ payments[p] # NoRow
    /\ Begin(r, "reconcile", Exists, payments[p].amount, NoKey, "none")

ReconcileCommit(r) ==
  /\ ~SerialTx
  /\ At(r, "reconcile", "read")
  /\ inv' = AddPaid(req[r].row, req[r].amount)
  /\ Finish(r, "ok")
  /\ UNCHANGED <<payments, items>>

(***************************************************************************)
(* SendInvoice and UpdateInvoice: read, then Save, each on its own.  Save  *)
(* writes every column, inserts again the preloaded payments and items     *)
(* that have gone (which fails if they are orphaned) and then the row, if  *)
(* it has gone.                                                            *)
(***************************************************************************)
Restore(rows) == [p \in Requests |-> IF payments[p] = NoRow THEN rows[p]
                                                           ELSE payments[p]]

SaveAll(r, row, result) ==
  LET refused == Orphaned /\ (req[r].items \/ req[r].rows # NoPayments)
  IN  \/ /\ ~refused
         /\ inv' = row
         /\ payments' = Restore(req[r].rows)
         /\ items' = (items \/ req[r].items)
         /\ Finish(r, result)
      \/ /\ refused
         /\ Finish(r, "refused")
         /\ UNCHANGED <<inv, payments, items>>

SendRead(r) ==
  Begin(r, "send", Exists /\ inv.status \notin {"sent", "paid", "cancelled"},
        0, NoKey, "none")

SendSave(r) ==
  /\ At(r, "send", "read")
  /\ SaveAll(r, [req[r].row EXCEPT !.status = "sent"], "ok")

(* The status an update asking for "to" leaves *)
Updated(from, to) ==
  IF \/ from = "draft" /\ to \in {"sent", "cancelled"}
     \/ to = "cancelled" /\ from # "paid"
     \/ to = "paid"
  THEN to ELSE from

(* Without a status only drafts can be edited *)
UpdateRead(r) ==
  \E to \in {"none", "sent", "cancelled", "paid"} :
    Begin(r, "update", Exists /\ (inv.status = "draft" \/ to # "none"),
          0, NoKey, to)

(* recalculateInvoiceTotals: what the items that were read come to, less   *)
(* the discount.  The balance is left as it was.                           *)
RecalculatedTotal(read, discount) ==
  LET gross == IF read THEN ItemsTotal ELSE 0
  IN  IF discount > gross THEN 0 ELSE gross - discount

(* An update may set the discount, with a status also after the draft *)
UpdateSave(r) ==
  LET row == req[r].row
  IN  /\ At(r, "update", "read")
      /\ \E discount \in Discounts \cup {row.discount} :
           LET total == RecalculatedTotal(req[r].items, discount)
           IN  SaveAll(r, [row EXCEPT !.status = Updated(row.status, req[r].to),
                                      !.discount = discount, !.total = total],
                       IF total = row.total THEN "ok" ELSE "recalculated")

(***************************************************************************)
(* DeleteInvoice: read; delete the payments and the items; delete the      *)
(* invoice, unless BeforeDelete refuses on what was read.  Payments and    *)
(* items that have come since stay behind in SQLite; in Postgres they go   *)
(* too or keep the invoice, depending on which of the two constraints the  *)
(* migrations made.                                                        *)
(***************************************************************************)
DeleteRead(r) == Begin(r, "delete", Exists, 0, NoKey, "none")

DeletePayments(r) ==
  /\ At(r, "delete", "read")
  /\ payments' = NoPayments
  /\ items' = FALSE
  /\ Advance(r, "emptied")
  /\ UNCHANGED inv

BeforeDelete(row) == /\ row.status \notin {"paid", "partially_paid"}
                     /\ row.kra # "submitted"

DeleteRow(r) ==
  /\ At(r, "delete", "emptied")
  /\ \/ /\ BeforeDelete(req[r].row)
        /\ inv' = NoRow
        /\ payments' = IF ForeignKeys THEN NoPayments ELSE payments
        /\ items' = (items /\ ~ForeignKeys)
        /\ Finish(r, "ok")
     \/ /\ \/ ~BeforeDelete(req[r].row)
           \/ ForeignKeys /\ (payments # NoPayments \/ items)
        /\ Finish(r, "refused")
        /\ UNCHANGED <<inv, payments, items>>

(***************************************************************************)
(* Column updates by background jobs: the overdue cron, once the due date  *)
(* has passed, and the goroutine that registers a sent invoice with KRA    *)
(***************************************************************************)
Idle == SerialTx => \A r \in Requests : ~InTx(r)

MarkOverdue ==
  /\ Idle
  /\ Exists
  /\ inv.status \notin {"paid", "cancelled", "draft", "overdue"}
  /\ inv.paid < inv.total
  /\ inv' = [inv EXCEPT !.status = "overdue"]
  /\ UNCHANGED <<payments, items, req>>

KRARegistered ==
  /\ Idle
  /\ Exists
  /\ inv.kra = "none"
  /\ inv' = [inv EXCEPT !.kra = "submitted"]
  /\ UNCHANGED <<payments, items, req>>

Step(r) == \/ RecordRead(r) \/ RecordCheck(r) \/ RecordCommit(r)
           \/ CancelRead(r) \/ CancelCommit(r)
           \/ MatchRead(r) \/ MatchCommit(r)
           \/ ReconcileRead(r) \/ ReconcileCommit(r)
           \/ SendRead(r) \/ SendSave(r)
           \/ UpdateRead(r) \/ UpdateSave(r)
           \/ DeleteRead(r) \/ DeletePayments(r) \/ DeleteRow(r)

Next == (\E r \in Requests : Step(r)) \/ MarkOverdue \/ KRARegistered

Spec == Init /\ [][Next]_vars

-----------------------------------------------------------------------------
(* Types of the rows and of the requests. *)
TypeOK ==
  /\ inv \in Row \cup {NoRow}
  /\ payments \in [Requests -> Payment \cup {NoRow}]
  /\ items \in BOOLEAN
  /\ req \in [Requests -> Request]

(* With one connection the row a transaction has read is still the row it  *)
(* will overwrite: no other statement, in or out of a transaction, is      *)
(* granted the connection in between.                                      *)
FreshSnapshots ==
  SerialTx => \A r \in Requests : InTx(r) => req[r].row = inv

(* A row is credited with no more than its total                           *)
Within(row) == row.paid <= row.total

(* A request that saves the row it read in this step                       *)
Saves(r) == req[r].pc \in {"read", "checked"} /\ req'[r].pc = "done"

(* However payments, edits and cancellations interleave, recording         *)
(* payments never credits the customer with more than the invoice's total. *)
(* Only an update that recalculates the total under what was paid does, a  *)
(* match, which knows no cap, or a save of the stale row one of them left. *)
OnlyEditsAndMatchesOverpay ==
  [][Exists /\ Within(inv) /\ Exists' /\ ~Within(inv') =>
       \E r \in Requests :
         /\ Saves(r)
         /\ \/ req[r].op = "update" /\ req'[r].result = "recalculated"
            \/ req[r].op \in {"match", "reconcile"}
            \/ /\ ~Within(req[r].row)
               /\ SerialTx => req[r].op \in PlainOps]_vars

(* Whole-row saves overwrite each other, yet the row that is left is       *)
(* consistent in itself: the invoice is paid exactly when its total is,    *)
(* whoever credited it, until UpdateInvoice sets status or total by hand.  *)
Edited == \E r \in Requests : /\ req[r].op = "update"
                              /\ req[r].result \in {"ok", "recalculated"}
SettledIsPaid ==
  Exists /\ ~Edited => (inv.paid >= inv.total <=> inv.status = "paid")

(* BalanceDue is "Calculated: Total - PaidAmount", in every row however    *)
(* stale the save that wrote it, until ManualMatch or ReconcilePayment     *)
(* credits the invoice or UpdateInvoice recalculates its total without it. *)
Matched == \E r \in Requests : /\ req[r].op \in {"match", "reconcile"}
                               /\ req[r].result = "ok"
Recalculated == \E r \in Requests : req[r].result = "recalculated"
BalanceIsCalculated ==
  Exists /\ ~Matched /\ ~Recalculated => inv.balance + inv.paid = inv.total

(* A transaction that ends well takes the row along an edge of the status  *)
(* machine: from the status the row has at that moment, not just from the  *)
(* one it had when the transaction looked.                                 *)
TransactionsFollowStateMachine ==
  [][\A r \in Requests :
       InTx(r) /\ ~InTx(r)' /\ req'[r].result \in {"ok", "overpaid"}
         => inv'.status \in ValidTransitions[inv.status]]_vars

(* RecordPayment's duplicate check: when a payment is committed no other    *)
(* has its idempotency key, though the check was a statement of its own.   *)
(* Nothing else prevents it (the column is indexed, not unique).           *)
RecordsKeyOnce ==
  [][\A r, p \in Requests :
       /\ req[r].op = "record" /\ InTx(r)
       /\ req'[r].result \in {"ok", "overpaid"}
       /\ req[r].key # NoKey
       /\ payments[p] # NoRow
       => payments[p].key # req[r].key]_vars

(* Credited money disappears from the invoice only when a save writes back *)
(* a row that was read before the payment was committed, which over one    *)
(* connection is a plain Save and no transaction's, or when a payment is   *)
(* recorded on an invoice whose total has come under what was paid: the    *)
(* cap takes the difference.                                               *)
MoneyLostOnlyBy ==
  [][Exists /\ Exists' /\ inv'.paid < inv.paid =>
       \E r \in Requests :
         /\ Saves(r)
         /\ \/ /\ req[r].row.paid < inv.paid
               /\ SerialTx => req[r].op \in {"send", "update"}
            \/ req[r].op = "record" /\ ~Within(req[r].row)]_vars

-----------------------------------------------------------------------------
(* What the code's comments, tests and checks say of it                    *)

(* A cancelled invoice stays cancelled (or is deleted): no transition      *)
(* leaves that status.                                                     *)
CancelledIsFinal ==
  [][Exists /\ Exists' /\ inv.status = "cancelled"
       => inv'.status = "cancelled"]_vars
=============================================================================
