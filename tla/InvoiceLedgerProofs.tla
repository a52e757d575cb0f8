------------------------- MODULE InvoiceLedgerProofs -------------------------
(***************************************************************************)
(* The ledger's types, over either database, and what one SQLite           *)
(* connection guarantees, for any number of requests, any amounts, keys    *)
(* and total.                                                              *)
(*                                                                         *)
(* A step either ends a request or leaves it holding a row; Readers says   *)
(* the row is there, which the types need.  Over one connection the        *)
(* snapshots of transactions are fresh, so what a transaction has checked  *)
(* still holds when it commits.                                            *)
(***************************************************************************)
EXTENDS InvoiceLedger, TLAPS

USE AmountsAssumption, TotalAssumption, DiscountAssumption, KeysAssumption, OpsAssumption,
    SerialAssumption

Reading == {"read", "checked", "emptied"}

(* A request under way holds the row it read and has no result yet *)
Readers == \A r \in Requests :
             /\ req[r].pc \in Reading => req[r].row # NoRow
             /\ req[r].pc # "done" => req[r].result = "none"

(* The amount credited is a number within the total of the row, and below *)
(* what was paid before only when that is more than the total.            *)
LEMMA CreditedLemma ==
  ASSUME NEW row \in Row, NEW amount \in Nat
  PROVE  /\ Credited(row, amount) \in Nat
         /\ Credited(row, amount) <= row.total
         /\ Within(row) => Credited(row, amount) >= row.paid
         /\ Recorded(row, amount) \in Nat
<1>1. row.paid \in Nat /\ row.total \in Nat
  BY DEF Row
<1> QED BY <1>1 DEF Credited, Recorded, Overpays, Within

(* A credited row is a row of the same total, of which its paid amount is a *)
(* part and its balance the rest.                                          *)
LEMMA CreditType ==
  ASSUME NEW row \in Row, NEW amount \in Nat
  PROVE  LET new == Credit(row, amount)
         IN  /\ new \in Row
             /\ new.total = row.total
             /\ new.paid = Credited(row, amount)
             /\ new.balance = new.total - new.paid
             /\ new.status = StatusFor(new.paid, new.total)
             /\ Within(new)
<1>1. row.paid \in Nat /\ row.total \in Nat
  BY DEF Row
<1> DEFINE paid == Credited(row, amount)
<1>2. paid \in Nat /\ paid <= row.total
  BY CreditedLemma
<1>3. StatusFor(paid, row.total) \in Statuses
  BY DEF StatusFor, Statuses
<1>4. row.total - paid \in Nat
  BY <1>1, <1>2
<1> HIDE DEF paid
<1>5. Credit(row, amount) =
        [row EXCEPT !.paid = paid, !.status = StatusFor(paid, row.total),
                    !.balance = row.total - paid]
  BY DEF Credit, paid
<1> DEFINE new == Credit(row, amount)
<1>6. new \in Row
  BY <1>1, <1>2, <1>3, <1>4, <1>5 DEF Row
<1>7. /\ new.total = row.total /\ new.paid = paid
      /\ new.balance = row.total - paid
      /\ new.status = StatusFor(paid, row.total)
  BY <1>5 DEF Row
<1> HIDE DEF new
<1>8. new.paid = Credited(row, amount)
  BY <1>7 DEF paid
<1> QED BY <1>2, <1>6, <1>7, <1>8 DEF new, Within

(* What a request that begins to read, or is refused, is afterwards. *)
LEMMA BeginType ==
  ASSUME TypeOK, NEW r \in Requests, NEW op \in AllOps, NEW ok \in BOOLEAN,
         ok => Exists, NEW amount \in Nat, NEW key \in Keys \cup {NoKey},
         NEW to \in Statuses \cup {"none"},
         Begin(r, op, ok, amount, key, to)
  PROVE  /\ TypeOK'
         /\ UNCHANGED <<inv, payments, items>>
         /\ \A q \in Requests \ {r} : req'[q] = req[q]
         /\ \/ req'[r].pc = "done" /\ req'[r].result = "refused"
            \/ /\ req'[r].pc = "read" /\ req'[r].row = inv /\ Exists
               /\ req'[r].result = "none" /\ req'[r].op = op /\ ok
<1>1. UNCHANGED <<inv, payments, items>>
  BY DEF Begin
<1>2. NoPayments \in [Requests -> Payment \cup {NoRow}]
  BY DEF NoPayments
<1>3. CASE ok
  <2> DEFINE new == [pc |-> "read", op |-> op, amount |-> amount, key |-> key,
                     to |-> to, row |-> inv, result |-> "none",
                     rows |-> IF op \in TxOps THEN NoPayments ELSE payments,
                     items |-> items /\ op \in PlainOps \cup {"record"}]
  <2>1. req' = [req EXCEPT ![r] = new]
    BY <1>3 DEF Begin
  <2>2. new \in Request
    BY <1>2 DEF TypeOK, Request
  <2>3. /\ new.pc = "read" /\ new.row = inv /\ new.result = "none"
        /\ new.op = op
    OBVIOUS
  <2> HIDE DEF new
  <2> QED BY <1>1, <1>3, <2>1, <2>2, <2>3 DEF TypeOK
<1>4. CASE ~ok
  <2> DEFINE new == Ended(op, "refused")
  <2>1. req' = [req EXCEPT ![r] = new]
    BY <1>4 DEF Begin
  <2>2. new \in Request /\ new.pc = "done" /\ new.result = "refused"
    BY <1>2 DEF Ended, Fresh, Request
  <2> HIDE DEF new
  <2> QED BY <1>1, <2>1, <2>2 DEF TypeOK
<1> QED BY <1>3, <1>4

(* A request that finishes. *)
LEMMA FinishType ==
  ASSUME TypeOK, NEW r \in Requests,
         NEW result \in {"ok", "overpaid", "duplicate", "refused",
                         "recalculated"},
         Finish(r, result)
  PROVE  /\ req' \in [Requests -> Request]
         /\ req'[r].pc = "done" /\ req'[r].result = result
         /\ req'[r].op = req[r].op
         /\ \A q \in Requests \ {r} : req'[q] = req[q]
<1> DEFINE new == Ended(req[r].op, result)
<1>1. /\ new \in Request /\ new.pc = "done" /\ new.result = result
      /\ new.op = req[r].op
  BY DEF Ended, Fresh, Request, NoPayments, TypeOK
<1>2. req' = [req EXCEPT ![r] = new]
  BY DEF Finish
<1> HIDE DEF new
<1> QED BY <1>1, <1>2 DEF TypeOK

(* A request that advances keeps everything else. *)
LEMMA AdvanceType ==
  ASSUME TypeOK, NEW r \in Requests, NEW pc \in {"checked", "emptied"},
         Advance(r, pc)
  PROVE  /\ req' \in [Requests -> Request]
         /\ req'[r].pc = pc /\ req'[r].op = req[r].op
         /\ req'[r].row = req[r].row /\ req'[r].key = req[r].key
         /\ req'[r].result = req[r].result
         /\ \A q \in Requests \ {r} : req'[q] = req[q]
<1> DEFINE new == [req[r] EXCEPT !.pc = pc]
<1>1. /\ new \in Request /\ new.pc = pc /\ new.op = req[r].op
      /\ new.row = req[r].row /\ new.key = req[r].key
      /\ new.result = req[r].result
  <2>1. req[r] \in Request
    BY DEF TypeOK
  <2>2. req[r].pc \in {"new", "read", "checked", "emptied", "done"}
    BY <2>1 DEF Request
  <2> QED BY <2>1 DEF Request
<1>2. req' = [req EXCEPT ![r] = new]
  BY DEF Advance
<1> HIDE DEF new
<1> QED BY <1>1, <1>2 DEF TypeOK

(* Saving a whole row with its preloaded payments and items. *)
LEMMA SaveAllType ==
  ASSUME TypeOK, NEW r \in Requests, NEW row \in Row,
         NEW result \in {"ok", "recalculated"}, SaveAll(r, row, result)
  PROVE  /\ TypeOK'
         /\ req'[r].pc = "done" /\ req'[r].op = req[r].op
         /\ \A q \in Requests \ {r} : req'[q] = req[q]
         /\ inv' = inv \/ (inv' = row /\ req'[r].result = result)
<1>1. /\ req[r].rows \in [Requests -> Payment \cup {NoRow}]
      /\ req[r].items \in BOOLEAN
  BY DEF TypeOK, Request
<1>2. CASE Finish(r, "refused") /\ UNCHANGED <<inv, payments, items>>
  BY <1>2, FinishType DEF TypeOK
<1>3. CASE /\ inv' = row /\ payments' = Restore(req[r].rows)
           /\ items' = (items \/ req[r].items) /\ Finish(r, result)
  <2>1. payments' \in [Requests -> Payment \cup {NoRow}]
    BY <1>1, <1>3 DEF Restore, TypeOK
  <2>2. items' \in BOOLEAN
    BY <1>3
  <2> QED BY <1>3, <2>1, <2>2, FinishType DEF TypeOK
<1> QED BY <1>2, <1>3 DEF SaveAll

(* The row an update of discount leaves *)
UpdatedRow(r, discount) ==
  [req[r].row EXCEPT !.status = Updated(req[r].row.status, req[r].to),
                     !.discount = discount,
                     !.total = RecalculatedTotal(req[r].items, discount)]

(* An update saves a row that differs from the one it read in status,      *)
(* discount and total, and remembers whether the total does.               *)
LEMMA UpdateType ==
  ASSUME TypeOK, NEW r \in Requests, req[r].row \in Row, UpdateSave(r)
  PROVE  /\ TypeOK'
         /\ req'[r].pc = "done" /\ req'[r].op = req[r].op
         /\ \A q \in Requests \ {r} : req'[q] = req[q]
         /\ \/ inv' = inv
            \/ /\ inv' \in Row /\ inv'.paid = req[r].row.paid
               /\ inv'.balance = req[r].row.balance
               /\ \/ req'[r].result = "ok" /\ inv'.total = req[r].row.total
                  \/ req'[r].result = "recalculated"
<1> DEFINE row == req[r].row
<1>1. PICK discount \in Discounts \cup {row.discount} :
        LET total == RecalculatedTotal(req[r].items, discount)
        IN  SaveAll(r, [row EXCEPT !.status = Updated(row.status, req[r].to),
                                   !.discount = discount, !.total = total],
                    IF total = row.total THEN "ok" ELSE "recalculated")
  BY DEF UpdateSave
<1> DEFINE total == RecalculatedTotal(req[r].items, discount)
           new == UpdatedRow(r, discount)
           result == IF total = row.total THEN "ok" ELSE "recalculated"
<1>2. SaveAll(r, new, result)
  BY <1>1 DEF UpdatedRow
<1>3. /\ discount \in Nat /\ req[r].items \in BOOLEAN
      /\ row.status \in Statuses /\ req[r].to \in Statuses \cup {"none"}
  BY DEF TypeOK, Request, Row
<1>4. total \in Nat
  BY <1>3 DEF RecalculatedTotal
<1>5. Updated(row.status, req[r].to) \in Statuses
  BY <1>3 DEF Updated
<1>6. /\ new \in Row /\ new.paid = row.paid /\ new.balance = row.balance
      /\ new.total = total
  BY <1>3, <1>4, <1>5 DEF UpdatedRow, Row
<1>7. result \in {"ok", "recalculated"} /\ (result = "ok" => total = row.total)
  OBVIOUS
<1> HIDE DEF new, total, result
<1>8. /\ TypeOK' /\ req'[r].pc = "done" /\ req'[r].op = req[r].op
      /\ \A q \in Requests \ {r} : req'[q] = req[q]
      /\ inv' = inv \/ (inv' = new /\ req'[r].result = result)
  BY <1>2, <1>6, <1>7, SaveAllType
<1> QED BY <1>6, <1>7, <1>8

(* Every step of a request keeps the types, leaves the other requests      *)
(* alone and needs a connection.  It begins to read, goes on with the row  *)
(* it holds, or ends.                                                      *)
GoesOn(r) == /\ req[r].row = req'[r].row /\ req[r].op = req'[r].op
             /\ req[r].key = req'[r].key /\ req[r].result = req'[r].result
             /\ inv' = inv
             /\ req[r].pc \in Reading
StepShape(r) ==
  /\ TypeOK'
  /\ Connected(r)
  /\ \A q \in Requests \ {r} : req'[q] = req[q]
  /\ \/ /\ req'[r].pc = "done"
     \/ /\ req'[r].pc = "read" /\ req'[r].row = inv /\ Exists
        /\ req'[r].result = "none"
        /\ UNCHANGED <<inv, payments, items>>
     \/ /\ req'[r].pc = "checked" /\ GoesOn(r) /\ req[r].op = "record"
        /\ UNCHANGED payments
        /\ ~Duplicated(req[r].key)
     \/ /\ req'[r].pc = "emptied" /\ GoesOn(r) /\ req[r].op = "delete"

LEMMA StepLemma ==
  ASSUME TypeOK, Readers, NEW r \in Requests, Step(r)
  PROVE  StepShape(r)
<1>c. Connected(r)
  BY DEF Step, RecordRead, RecordCheck, RecordCommit, CancelRead,
     CancelCommit, MatchRead, MatchCommit, ReconcileRead, ReconcileCommit,
     SendRead, SendSave, UpdateRead, UpdateSave, DeleteRead, DeletePayments,
     DeleteRow, Begin, At
<1>t. /\ inv \in Row \cup {NoRow}
      /\ payments \in [Requests -> Payment \cup {NoRow}]
      /\ req[r].row \in Row \cup {NoRow}
      /\ req[r].amount \in Nat /\ req[r].key \in Keys \cup {NoKey}
      /\ req[r].to \in Statuses \cup {"none"}
      /\ items \in BOOLEAN
  BY DEF TypeOK, Request
<1>w. req[r].pc \in Reading => req[r].row \in Row
  BY <1>t DEF Readers
<1>s. "cancelled" \in Statuses /\ "sent" \in Statuses /\ "paid" \in Statuses
  BY DEF Statuses
<1>1. CASE RecordRead(r)
  BY <1>1, <1>c, BeginType DEF RecordRead, AllOps, TxOps, StepShape
<1>2. CASE RecordCheck(r)
  <2>1. CASE Duplicated(req[r].key)
    BY <1>2, <1>c, <2>1, FinishType DEF RecordCheck, StepShape, TypeOK
  <2>2. CASE ~Duplicated(req[r].key)
    <3>1. /\ Advance(r, "checked") /\ req[r].op = "record" /\ req[r].pc = "read"
          /\ UNCHANGED <<inv, payments, items>>
      BY <1>2, <2>2 DEF RecordCheck, At
    <3>2. /\ req'[r].row = req[r].row /\ req'[r].op = req[r].op
          /\ req'[r].key = req[r].key /\ req'[r].pc = "checked"
          /\ req'[r].result = req[r].result
      BY <3>1, AdvanceType
    <3> QED BY <1>c, <2>2, <3>1, <3>2, AdvanceType
            DEF StepShape, GoesOn, Reading, TypeOK
  <2> QED BY <2>1, <2>2
<1>3. CASE RecordCommit(r)
  <2> DEFINE row == req[r].row
             amount == req[r].amount
             new == Credit(row, amount)
  <2>1. new \in Row
    BY <1>3, <1>t, <1>w, CreditType DEF RecordCommit, At, Reading
  <2>2. row \in Row
    BY <1>3, <1>w DEF RecordCommit, At, Reading
  <2>3. Recorded(row, amount) \in Nat
    BY <2>2, <1>t, CreditedLemma
  <2>4. [amount |-> Recorded(row, amount), key |-> req[r].key] \in Payment
    BY <2>3, <1>t DEF Payment
  <2>5. \/ UNCHANGED <<inv, payments, items>>
        \/ /\ inv' = new
           /\ payments' = [payments EXCEPT ![r] =
                [amount |-> Recorded(row, amount), key |-> req[r].key]]
           /\ items' = (items \/ req[r].items)
    BY <1>3 DEF RecordCommit
  <2>6. \E result \in {"ok", "overpaid", "duplicate", "refused"} :
          Finish(r, result)
    BY <1>3 DEF RecordCommit
  <2> HIDE DEF new, row
  <2>7. /\ inv' \in Row \cup {NoRow}
        /\ payments' \in [Requests -> Payment \cup {NoRow}]
        /\ items' \in BOOLEAN
    BY <1>t, <2>1, <2>4, <2>5
  <2> QED BY <1>c, <2>6, <2>7, FinishType DEF StepShape, TypeOK
<1>4. CASE CancelRead(r)
  BY <1>4, <1>c, BeginType DEF CancelRead, AllOps, TxOps, StepShape
<1>5. CASE CancelCommit(r)
  <2>1. req[r].row \in Row
    BY <1>5, <1>w DEF CancelCommit, At, Reading
  <2>2. [req[r].row EXCEPT !.status = "cancelled"] \in Row
    BY <2>1, <1>s DEF Row
  <2> QED BY <1>5, <1>c, <1>t, <2>2, FinishType
          DEF CancelCommit, StepShape, TypeOK
<1>6. CASE MatchRead(r)
  <2>1. PICK amount \in Amounts :
          Begin(r, "match", Exists, amount, NoKey, "none")
    BY <1>6 DEF MatchRead
  <2> QED BY <1>c, <2>1, BeginType DEF AllOps, TxOps, StepShape, Exists
<1>a. ASSUME req[r].row \in Row
      PROVE  AddPaid(req[r].row, req[r].amount) \in Row
  <2>1. req[r].row.paid + req[r].amount \in Nat
    BY <1>a, <1>t DEF Row
  <2>2. StatusFor(req[r].row.paid + req[r].amount, req[r].row.total)
          \in Statuses
    BY DEF StatusFor, Statuses
  <2> QED BY <1>a, <2>1, <2>2 DEF AddPaid, Row
<1>7. CASE MatchCommit(r)
  <2>1. AddPaid(req[r].row, req[r].amount) \in Row
    BY <1>7, <1>w, <1>a DEF MatchCommit, At, Reading
  <2>2. [amount |-> req[r].amount, key |-> NoKey] \in Payment
    BY <1>t DEF Payment
  <2>3. \/ UNCHANGED <<inv, payments>>
        \/ /\ inv' = AddPaid(req[r].row, req[r].amount)
           /\ payments' = [payments EXCEPT ![r] =
                             [amount |-> req[r].amount, key |-> NoKey]]
    BY <1>7 DEF MatchCommit
  <2>4. Finish(r, "ok") \/ Finish(r, "refused")
    BY <1>7 DEF MatchCommit
  <2>5. /\ inv' \in Row \cup {NoRow}
        /\ payments' \in [Requests -> Payment \cup {NoRow}]
        /\ items' = items
    BY <1>7, <1>t, <2>1, <2>2, <2>3 DEF MatchCommit
  <2> QED BY <1>c, <2>4, <2>5, FinishType DEF StepShape, TypeOK
<1>8. CASE ReconcileRead(r)
  <2>1. PICK p \in Requests :
          /\ payments[p] # NoRow
          /\ Begin(r, "reconcile", Exists, payments[p].amount, NoKey, "none")
    BY <1>8 DEF ReconcileRead
  <2>2. payments[p].amount \in Nat
    BY <1>t, <2>1 DEF Payment
  <2> QED BY <1>c, <2>1, <2>2, BeginType DEF AllOps, TxOps, StepShape, Exists
<1>9. CASE ReconcileCommit(r)
  <2>1. AddPaid(req[r].row, req[r].amount) \in Row
    BY <1>9, <1>w, <1>a DEF ReconcileCommit, At, Reading
  <2> QED BY <1>9, <1>c, <1>t, <2>1, FinishType
          DEF ReconcileCommit, StepShape, TypeOK
<1>10. CASE SendRead(r)
  BY <1>10, <1>c, BeginType DEF SendRead, AllOps, PlainOps, StepShape
<1>11. CASE SendSave(r)
  <2>1. [req[r].row EXCEPT !.status = "sent"] \in Row
    BY <1>11, <1>w, <1>s DEF SendSave, At, Reading, Row
  <2> QED BY <1>11, <1>c, <2>1, SaveAllType DEF SendSave, StepShape
<1>12. CASE UpdateRead(r)
  BY <1>12, <1>c, <1>s, BeginType DEF UpdateRead, AllOps, PlainOps, StepShape
<1>13. CASE UpdateSave(r)
  <2>1. req[r].row \in Row
    BY <1>13, <1>w DEF UpdateSave, At, Reading
  <2> QED BY <1>13, <1>c, <2>1, UpdateType DEF StepShape
<1>14. CASE DeleteRead(r)
  BY <1>14, <1>c, BeginType DEF DeleteRead, AllOps, PlainOps, StepShape, Exists
<1>15. CASE DeletePayments(r)
  <2>1. /\ Advance(r, "emptied") /\ req[r].op = "delete" /\ req[r].pc = "read"
        /\ inv' = inv /\ payments' \in [Requests -> Payment \cup {NoRow}]
        /\ items' = FALSE
    BY <1>15 DEF DeletePayments, At, NoPayments
  <2>2. /\ req'[r].row = req[r].row /\ req'[r].op = req[r].op
        /\ req'[r].key = req[r].key /\ req'[r].pc = "emptied"
        /\ req'[r].result = req[r].result
    BY <2>1, AdvanceType
  <2> QED BY <1>c, <2>1, <2>2, AdvanceType DEF StepShape, GoesOn, Reading, TypeOK
<1>16. CASE DeleteRow(r)
  <2>1. /\ inv' \in Row \cup {NoRow}
        /\ payments' \in [Requests -> Payment \cup {NoRow}]
        /\ items' \in BOOLEAN
        /\ Finish(r, "ok") \/ Finish(r, "refused")
    BY <1>16, <1>t DEF DeleteRow, NoPayments
  <2> QED BY <1>c, <2>1, FinishType DEF StepShape, TypeOK
<1> QED BY <1>1, <1>2, <1>3, <1>4, <1>5, <1>6, <1>7, <1>8, <1>9, <1>10,
           <1>11, <1>12, <1>13, <1>14, <1>15, <1>16 DEF Step

(* The jobs in the background only change columns of the row. *)
LEMMA BackgroundLemma ==
  ASSUME TypeOK, MarkOverdue \/ KRARegistered
  PROVE  /\ TypeOK' /\ Idle /\ Exists /\ inv'.paid = inv.paid
         /\ inv'.total = inv.total /\ inv'.balance = inv.balance
         /\ UNCHANGED <<payments, req>>
<1>1. inv \in Row
  BY DEF TypeOK, MarkOverdue, KRARegistered, Exists
<1>2. /\ inv' \in Row /\ inv'.paid = inv.paid
      /\ inv'.total = inv.total /\ inv'.balance = inv.balance
  BY <1>1 DEF MarkOverdue, KRARegistered, Row, Statuses
<1> QED BY <1>2 DEF TypeOK, MarkOverdue, KRARegistered

(* The rows and the requests keep their types, over either database; an    *)
(* operation under way holds the row it read.                              *)
THEOREM TypeCorrect == Spec => [](TypeOK /\ Readers)
<1>1. Init => TypeOK /\ Readers
  <2> SUFFICES ASSUME Init PROVE TypeOK /\ Readers
    OBVIOUS
  <2>1. Fresh \in Request
    BY DEF Fresh, Request, NoPayments
  <2>2. inv \in Row
    BY DEF Init, Row, Statuses
  <2> QED BY <2>1, <2>2 DEF Init, TypeOK, Readers, Reading, Fresh, NoPayments
<1>2. TypeOK /\ Readers /\ [Next]_vars => (TypeOK /\ Readers)'
  <2> SUFFICES ASSUME TypeOK, Readers, [Next]_vars PROVE (TypeOK /\ Readers)'
    OBVIOUS
  <2>1. ASSUME NEW r \in Requests, Step(r) PROVE (TypeOK /\ Readers)'
    BY <2>1, StepLemma DEF StepShape, GoesOn, Readers, Reading, Exists
  <2>2. CASE MarkOverdue \/ KRARegistered
    BY <2>2, BackgroundLemma DEF Readers
  <2>3. CASE UNCHANGED vars
    BY <2>3 DEF vars, TypeOK, Readers
  <2> QED BY <2>1, <2>2, <2>3 DEF Next
<1> QED BY <1>1, <1>2, PTL DEF Spec

-----------------------------------------------------------------------------
(* Over one connection, a request steps only while no other is in a        *)
(* transaction, and the jobs in the background only while none is.         *)
LEMMA Exclusion ==
  ASSUME SerialTx
  PROVE  /\ \A r, q \in Requests : Connected(r) /\ InTx(q) => q = r
         /\ Idle => \A q \in Requests : ~InTx(q)
BY DEF Connected, Idle

(* Over one connection the row a transaction has read is still the row it  *)
(* will overwrite.                                                         *)
THEOREM SnapshotsAreFresh == Spec => []FreshSnapshots
<1>1. Init => FreshSnapshots
  BY DEF Init, FreshSnapshots, InTx, Fresh
<1>2. TypeOK /\ Readers /\ FreshSnapshots /\ [Next]_vars => FreshSnapshots'
  <2> SUFFICES ASSUME TypeOK, Readers, FreshSnapshots, [Next]_vars, SerialTx,
                      NEW q \in Requests, InTx(q)'
               PROVE  req'[q].row = inv'
    BY DEF FreshSnapshots
  <2>1. ASSUME NEW r \in Requests, Step(r) PROVE req'[q].row = inv'
    <3>1. StepShape(r)
      BY <2>1, StepLemma
    <3>2. CASE q # r
      <4>1. req'[q] = req[q]
        BY <3>1, <3>2 DEF StepShape
      <4>2. InTx(q)
        BY <4>1 DEF InTx
      <4> QED BY <3>1, <3>2, <4>2, Exclusion DEF StepShape
    <3>3. CASE q = r
      <4>1. req'[r].pc # "done" /\ req'[r].op # "delete"
        BY <3>3 DEF InTx, TxOps
      <4>2. req'[r].pc = "checked" /\ GoesOn(r) /\ req[r].op = "record"
              => InTx(r)
        BY DEF GoesOn, Reading, InTx, TxOps
      <4> QED BY <3>1, <3>3, <4>1, <4>2
              DEF StepShape, FreshSnapshots, GoesOn
    <3> QED BY <3>2, <3>3
  <2>2. CASE MarkOverdue \/ KRARegistered
    BY <2>2, BackgroundLemma, Exclusion DEF InTx
  <2>3. CASE UNCHANGED vars
    BY <2>3 DEF vars, FreshSnapshots, InTx
  <2> QED BY <2>1, <2>2, <2>3 DEF Next
<1> QED BY <1>1, <1>2, TypeCorrect, PTL DEF Spec

(* What a step of a request may write to the row *)
RowWritten(r) ==
  \/ inv' = inv
  \/ inv' = NoRow
  \/ /\ Saves(r) /\ req[r].row \in Row /\ req'[r].op = req[r].op
     /\ \/ /\ req[r].op = "cancel"
           /\ inv' = [req[r].row EXCEPT !.status = "cancelled"]
        \/ /\ req[r].op = "send"
           /\ inv' = [req[r].row EXCEPT !.status = "sent"]
        \/ /\ req[r].op = "update"
           /\ inv' \in Row /\ inv'.paid = req[r].row.paid
           /\ inv'.balance = req[r].row.balance
           /\ \/ req'[r].result = "ok" /\ inv'.total = req[r].row.total
              \/ req'[r].result = "recalculated"
        \/ /\ req[r].op = "record"
           /\ inv' = Credit(req[r].row, req[r].amount)
        \/ /\ req[r].op \in {"match", "reconcile"} /\ ~SerialTx
           /\ req'[r].result = "ok"
           /\ inv' = AddPaid(req[r].row, req[r].amount)

(* A step of a request writes one of these, over either database. *)
LEMMA RowLemma ==
  ASSUME TypeOK, Readers, NEW r \in Requests, Step(r)
  PROVE  RowWritten(r)
<1>1. req[r].pc \in Reading => req[r].row \in Row
  BY DEF Readers, TypeOK, Request
<1>2. CASE RecordCommit(r)
  <2>1. inv' = inv \/ inv' = Credit(req[r].row, req[r].amount)
    BY <1>2 DEF RecordCommit
  <2>2. \E result \in {"ok", "overpaid", "refused"} : Finish(r, result)
    BY <1>2 DEF RecordCommit
  <2>3. req'[r].pc = "done" /\ req'[r].op = req[r].op
    BY <2>2, FinishType
  <2> QED BY <1>1, <1>2, <2>1, <2>3
          DEF RecordCommit, At, Reading, RowWritten, Saves
<1>3. CASE CancelCommit(r)
  BY <1>1, <1>3, FinishType DEF CancelCommit, At, Reading, RowWritten, Saves
<1>4. CASE MatchCommit(r)
  BY <1>1, <1>4, FinishType DEF MatchCommit, At, Reading, RowWritten, Saves
<1>5. CASE ReconcileCommit(r)
  BY <1>1, <1>5, FinishType
     DEF ReconcileCommit, At, Reading, RowWritten, Saves
<1>6. CASE SendSave(r)
  <2>1. req[r].row \in Row /\ req[r].op = "send" /\ req[r].pc = "read"
    BY <1>1, <1>6 DEF SendSave, At, Reading
  <2>2. [req[r].row EXCEPT !.status = "sent"] \in Row
    BY <2>1 DEF Row, Statuses
  <2> QED BY <1>6, <2>1, <2>2, SaveAllType DEF SendSave, RowWritten, Saves
<1>7. CASE UpdateSave(r)
  <2>1. req[r].row \in Row /\ req[r].op = "update" /\ req[r].pc = "read"
    BY <1>1, <1>7 DEF UpdateSave, At, Reading
  <2>2. inv \in Row \cup {NoRow}
    BY DEF TypeOK
  <2> QED BY <1>7, <2>1, <2>2, UpdateType DEF RowWritten, Saves
<1>8. CASE ~(\/ RecordCommit(r) \/ CancelCommit(r) \/ MatchCommit(r)
             \/ ReconcileCommit(r) \/ SendSave(r) \/ UpdateSave(r))
  BY <1>8 DEF Step, RecordRead, RecordCheck, CancelRead, MatchRead,
     ReconcileRead, SendRead, UpdateRead, DeleteRead, DeletePayments,
     DeleteRow, Begin, RowWritten
<1> QED BY <1>2, <1>3, <1>4, <1>5, <1>6, <1>7, <1>8

(* Over one connection a transaction saves the row that is stored. *)
LEMMA FreshLemma ==
  ASSUME FreshSnapshots, SerialTx, NEW r \in Requests, Saves(r),
         req[r].op \in TxOps
  PROVE  req[r].row = inv
BY DEF FreshSnapshots, InTx, Saves

(* Over either database an invoice is credited with more than its total    *)
(* only by an update that recalculates the total, by a match, or by saving *)
(* again a row one of them left, and never by recording payments.          *)
THEOREM RecordingStaysWithinTotal == Spec => OnlyEditsAndMatchesOverpay
<1> DEFINE Culprit(r) ==
             /\ Saves(r)
             /\ \/ req[r].op = "update" /\ req'[r].result = "recalculated"
                \/ req[r].op \in {"match", "reconcile"}
                \/ /\ ~Within(req[r].row)
                   /\ SerialTx => req[r].op \in PlainOps
           Overpaid == Exists /\ Within(inv) /\ Exists' /\ ~Within(inv')
<1>1. ASSUME TypeOK, Readers, FreshSnapshots, Next, Overpaid
      PROVE  \E r \in Requests : Culprit(r)
  <2>0. Exists /\ Within(inv) /\ Exists' /\ ~Within(inv')
    BY <1>1
  <2>1. PICK r \in Requests : Step(r)
    BY <1>1, <2>0, BackgroundLemma DEF Next, Within
  <2>2. inv' # inv /\ inv' # NoRow
    BY <2>0 DEF Exists, Within
  <2>3. /\ Saves(r) /\ req[r].row \in Row /\ req[r].amount \in Nat
        /\ RowWritten(r)
    BY <1>1, <2>1, <2>2, RowLemma DEF RowWritten, TypeOK, Request
  <2>4. CASE req[r].op = "cancel" /\ inv' = [req[r].row EXCEPT !.status = "cancelled"]
    <3>1. ~Within(req[r].row)
      BY <2>0, <2>3, <2>4 DEF Within, Row
    <3>2. SerialTx => req[r].row = inv
      BY <1>1, <2>3, <2>4, FreshLemma DEF TxOps
    <3> QED BY <2>0, <2>3, <3>1, <3>2
  <2>5. CASE req[r].op = "send" /\ inv' = [req[r].row EXCEPT !.status = "sent"]
    <3>1. ~Within(req[r].row)
      BY <2>0, <2>3, <2>5 DEF Within, Row
    <3> QED BY <2>3, <2>5, <3>1 DEF PlainOps
  <2>6. CASE /\ req[r].op = "update" /\ inv'.paid = req[r].row.paid
             /\ req'[r].result = "ok" /\ inv'.total = req[r].row.total
    <3>1. ~Within(req[r].row)
      BY <2>0, <2>6 DEF Within
    <3> QED BY <2>3, <2>6, <3>1 DEF PlainOps
  <2>7. CASE inv' = Credit(req[r].row, req[r].amount)
    BY <2>0, <2>3, <2>7, CreditType
  <2>8. CASE \/ req[r].op = "update" /\ req'[r].result = "recalculated"
             \/ req[r].op \in {"match", "reconcile"}
    BY <2>3, <2>8
  <2> HIDE DEF Culprit
  <2> QED BY <2>2, <2>3, <2>4, <2>5, <2>6, <2>7, <2>8 DEF RowWritten
<1>2. TypeOK /\ Readers /\ FreshSnapshots /\ [Next]_vars
        => [Overpaid => \E r \in Requests : Culprit(r)]_vars
  <2> HIDE DEF Overpaid, Culprit
  <2> QED BY <1>1
<1> QED BY <1>2, TypeCorrect, SnapshotsAreFresh, PTL
        DEF Spec, OnlyEditsAndMatchesOverpay

(* Over one connection a transaction ends well by its own step, and only   *)
(* RecordPayment's and CancelInvoice's do.                                 *)
LEMMA OutcomeLemma ==
  ASSUME TypeOK, Readers, SerialTx, Next, NEW r \in Requests, InTx(r),
         req'[r].result \in {"ok", "overpaid"}
  PROVE  RecordCommit(r) \/ CancelCommit(r)
<1>1. req[r].result = "none" /\ req[r].pc # "new" /\ req[r].op \in TxOps
  BY DEF Readers, InTx
<1>2. PICK q \in Requests : Step(q) \/ MarkOverdue \/ KRARegistered
  BY DEF Next
<1>3. Step(q)
  BY <1>1, <1>2, BackgroundLemma
<1>4. StepShape(q)
  BY <1>3, StepLemma
<1>5. q = r
  BY <1>1, <1>4 DEF StepShape
<1>6. req'[r].pc = "done"
  BY <1>1, <1>4, <1>5 DEF StepShape, GoesOn
<1>7. \/ RecordCheck(r) \/ RecordCommit(r) \/ CancelCommit(r)
      \/ MatchCommit(r) \/ ReconcileCommit(r)
  BY <1>1, <1>3, <1>5 DEF Step, RecordRead, CancelRead, MatchRead,
     ReconcileRead, SendRead, SendSave, UpdateRead, UpdateSave, DeleteRead,
     DeletePayments, DeleteRow, Begin, At, TxOps
<1>8. ~RecordCheck(r)
  <2>1. Finish(r, "duplicate") => req'[r].result = "duplicate"
    BY FinishType
  <2>2. Advance(r, "checked") => req'[r].result = req[r].result
    BY AdvanceType
  <2> QED BY <1>1, <2>1, <2>2 DEF RecordCheck
<1> QED BY <1>7, <1>8 DEF MatchCommit, ReconcileCommit

(* A key that has been checked is the key of no payment *)
KeyChecked == \A r \in Requests :
  req[r].op = "record" /\ req[r].pc = "checked" => ~Duplicated(req[r].key)

(* Over one connection the duplicate check holds until the commit: no two  *)
(* payments are recorded with the same key.                                *)
THEOREM KeysAreRecordedOnce ==
  ASSUME SerialTx
  PROVE  Spec => RecordsKeyOnce
<1>1. Init => KeyChecked
  BY DEF Init, KeyChecked, Fresh
<1>2. TypeOK /\ Readers /\ KeyChecked /\ [Next]_vars => KeyChecked'
  <2> SUFFICES ASSUME TypeOK, Readers, KeyChecked, [Next]_vars,
                      NEW q \in Requests, req'[q].op = "record",
                      req'[q].pc = "checked"
               PROVE  ~Duplicated(req[q].key)' /\ req'[q].key = req[q].key
    BY DEF KeyChecked, Duplicated
  <2>1. ASSUME NEW r \in Requests, Step(r)
        PROVE  ~Duplicated(req[q].key)' /\ req'[q].key = req[q].key
    <3>1. StepShape(r)
      BY <2>1, StepLemma
    <3>2. CASE q # r
      <4>1. req'[q] = req[q]
        BY <3>1, <3>2 DEF StepShape
      <4>2. InTx(q)
        BY <4>1 DEF InTx, TxOps
      <4> QED BY <3>1, <3>2, <4>2, Exclusion DEF StepShape
    <3>3. CASE q = r
      BY <3>1, <3>3 DEF StepShape, GoesOn, Duplicated
    <3> QED BY <3>2, <3>3
  <2>2. CASE MarkOverdue \/ KRARegistered
    BY <2>2, BackgroundLemma DEF KeyChecked, Duplicated
  <2>3. CASE UNCHANGED vars
    BY <2>3 DEF vars, KeyChecked, Duplicated
  <2> QED BY <2>1, <2>2, <2>3 DEF Next
<1>3. TypeOK /\ Readers /\ KeyChecked /\ [Next]_vars =>
        [\A r, p \in Requests :
           /\ req[r].op = "record" /\ InTx(r)
           /\ req'[r].result \in {"ok", "overpaid"}
           /\ req[r].key # NoKey
           /\ payments[p] # NoRow
           => payments[p].key # req[r].key]_vars
  <2> SUFFICES ASSUME TypeOK, Readers, KeyChecked, Next,
                      NEW r \in Requests, NEW p \in Requests,
                      req[r].op = "record", InTx(r),
                      req'[r].result \in {"ok", "overpaid"},
                      req[r].key # NoKey, payments[p] # NoRow
               PROVE  payments[p].key # req[r].key
    OBVIOUS
  <2>1. RecordCommit(r)
    BY OutcomeLemma DEF CancelCommit, At
  <2> QED BY <2>1 DEF KeyChecked, Duplicated, RecordCommit, At
<1> QED BY <1>1, <1>2, <1>3, TypeCorrect, PTL DEF Spec, RecordsKeyOnce

(* A cancellation under way has validated the transition of the row it     *)
(* read                                                                    *)
CancelChecked == \A r \in Requests :
  req[r].op = "cancel" /\ req[r].pc = "read"
    => CanTransition(req[r].row.status, "cancelled")

(* A request that has just read the row to cancel it has validated it. *)
LEMMA CancelLemma ==
  ASSUME TypeOK, Readers, NEW r \in Requests, Step(r),
         req'[r].op = "cancel", req'[r].pc = "read"
  PROVE  CanTransition(req'[r].row.status, "cancelled")
<1>1. StepShape(r)
  BY StepLemma
<1>2. CASE CancelRead(r)
  <2> DEFINE ok == Exists /\ CanTransition(inv.status, "cancelled")
  <2>1. Begin(r, "cancel", ok, 0, NoKey, "none") /\ (ok => Exists)
    BY <1>2 DEF CancelRead
  <2>2. ok \in BOOLEAN
    BY DEF Exists, CanTransition
  <2> HIDE DEF ok
  <2>3. ok /\ req'[r].row = inv
    BY <2>1, <2>2, BeginType DEF AllOps, TxOps
  <2> QED BY <2>3 DEF ok
<1>3. CASE RecordRead(r) \/ MatchRead(r) \/ ReconcileRead(r) \/ SendRead(r)
           \/ UpdateRead(r) \/ DeleteRead(r)
  <2>1. \E op \in AllOps \ {"cancel"} : \E ok, amount, key, to :
          Begin(r, op, ok, amount, key, to)
    BY <1>3 DEF RecordRead, MatchRead, ReconcileRead, SendRead, UpdateRead,
       DeleteRead, AllOps, TxOps, PlainOps
  <2>2. PICK op \in AllOps \ {"cancel"} : \E ok, amount, key, to :
          Begin(r, op, ok, amount, key, to)
    BY <2>1
  <2>3. req'[r].op = op
    BY <2>2 DEF Begin, Ended, Fresh, TypeOK
  <2> QED BY <2>3
<1>4. CASE ~(CancelRead(r) \/ RecordRead(r) \/ MatchRead(r) \/ ReconcileRead(r)
             \/ SendRead(r) \/ UpdateRead(r) \/ DeleteRead(r))
  <2>1. req'[r].pc # "read"
    BY <1>4, FinishType, AdvanceType, SaveAllType
       DEF Step, RecordCheck, RecordCommit, CancelCommit, MatchCommit,
           ReconcileCommit, SendSave, SaveAll, UpdateSave, DeletePayments, DeleteRow
  <2> QED BY <2>1
<1> QED BY <1>2, <1>3, <1>4

(* Over one connection every transaction that ends well takes the row      *)
(* along an edge of the status machine.                                    *)
THEOREM StatusMachineIsFollowed ==
  ASSUME SerialTx
  PROVE  Spec => TransactionsFollowStateMachine
<1>1. Init => CancelChecked
  BY DEF Init, CancelChecked, Fresh
<1>2. TypeOK /\ Readers /\ CancelChecked /\ [Next]_vars => CancelChecked'
  <2> SUFFICES ASSUME TypeOK, Readers, CancelChecked, [Next]_vars
               PROVE  CancelChecked'
    OBVIOUS
  <2>1. ASSUME NEW r \in Requests, Step(r) PROVE CancelChecked'
    BY <2>1, StepLemma, CancelLemma DEF StepShape, CancelChecked
  <2>2. CASE MarkOverdue \/ KRARegistered
    BY <2>2, BackgroundLemma DEF CancelChecked
  <2>3. CASE UNCHANGED vars
    BY <2>3 DEF vars, CancelChecked
  <2> QED BY <2>1, <2>2, <2>3 DEF Next
<1>3. TypeOK /\ Readers /\ FreshSnapshots /\ CancelChecked /\ [Next]_vars =>
        [\A r \in Requests :
           InTx(r) /\ ~InTx(r)' /\ req'[r].result \in {"ok", "overpaid"}
             => inv'.status \in ValidTransitions[inv.status]]_vars
  <2> SUFFICES ASSUME TypeOK, Readers, FreshSnapshots, CancelChecked, Next,
                      NEW r \in Requests, InTx(r),
                      req'[r].result \in {"ok", "overpaid"}
               PROVE  inv'.status \in ValidTransitions[inv.status]
    OBVIOUS
  <2>1. req[r].row = inv
    BY DEF FreshSnapshots
  <2>2. CASE RecordCommit(r)
    <3>1. Finish(r, "refused") => req'[r].result = "refused"
      BY FinishType
    <3> QED BY <2>1, <2>2, <3>1 DEF RecordCommit, CanTransition
  <2>3. CASE CancelCommit(r)
    <3>1. inv \in Row
      BY <2>1, <2>3 DEF CancelCommit, At, Readers, Reading, TypeOK
    <3> QED BY <2>1, <2>3, <3>1
            DEF CancelCommit, At, CancelChecked, CanTransition, Row
  <2> QED BY <2>2, <2>3, OutcomeLemma
<1> QED BY <1>1, <1>2, <1>3, TypeCorrect, SnapshotsAreFresh, PTL
        DEF Spec, TransactionsFollowStateMachine

(* Over either database credited money is taken from the invoice only by a *)
(* save of a row read before the payment was committed, over one           *)
(* connection a plain one, or by the cap of a total that had come under    *)
(* what was paid.                                                          *)
THEOREM MoneyLossHasACause == Spec => MoneyLostOnlyBy
<1> DEFINE Culprit(r) ==
             /\ Saves(r)
             /\ \/ /\ req[r].row.paid < inv.paid
                   /\ SerialTx => req[r].op \in {"send", "update"}
                \/ req[r].op = "record" /\ ~Within(req[r].row)
           Loses == Exists /\ Exists' /\ inv'.paid < inv.paid
<1>1. ASSUME TypeOK, Readers, FreshSnapshots, Next, Loses
      PROVE  \E r \in Requests : Culprit(r)
  <2>0. Exists /\ Exists' /\ inv'.paid < inv.paid
    BY <1>1
  <2>1. inv \in Row /\ inv.paid \in Nat
    BY <1>1, <2>0 DEF TypeOK, Exists, Row
  <2>2. PICK r \in Requests : Step(r)
    BY <1>1, <2>0, <2>1, BackgroundLemma DEF Next
  <2>3. inv' # inv /\ inv' # NoRow
    BY <2>0, <2>1 DEF Exists
  <2>4. /\ Saves(r) /\ req[r].row \in Row /\ req[r].amount \in Nat
        /\ RowWritten(r)
    BY <1>1, <2>2, <2>3, RowLemma DEF RowWritten, TypeOK, Request
  <2>5. req[r].row.paid \in Nat /\ req[r].row.total \in Nat
    BY <2>4 DEF Row
  <2>6. SerialTx /\ req[r].op \in TxOps => req[r].row = inv
    BY <1>1, <2>4, FreshLemma
  <2>7. CASE /\ req[r].op \in {"cancel", "send", "update"}
             /\ inv'.paid = req[r].row.paid
    <3>1. req[r].row.paid < inv.paid
      BY <2>0, <2>7
    <3>2. SerialTx => req[r].op \in {"send", "update"}
      BY <2>1, <2>6, <2>7, <3>1 DEF TxOps
    <3> QED BY <2>4, <3>1, <3>2
  <2>8. CASE /\ req[r].op = "record"
             /\ inv' = Credit(req[r].row, req[r].amount)
    <3>1. CASE ~Within(req[r].row)
      BY <2>4, <2>8, <3>1
    <3>2. CASE Within(req[r].row)
      <4>1. /\ inv'.paid = Credited(req[r].row, req[r].amount)
            /\ Credited(req[r].row, req[r].amount) \in Nat
            /\ Credited(req[r].row, req[r].amount) >= req[r].row.paid
        BY <2>4, <2>8, <3>2, CreditType, CreditedLemma
      <4>2. req[r].row.paid < inv.paid
        BY <2>0, <2>1, <2>5, <4>1
      <4>3. ~SerialTx
        BY <2>1, <2>6, <2>8, <4>2 DEF TxOps
      <4> QED BY <2>4, <4>2, <4>3
    <3> QED BY <3>1, <3>2
  <2>9. CASE /\ req[r].op \in {"match", "reconcile"} /\ ~SerialTx
             /\ inv' = AddPaid(req[r].row, req[r].amount)
    <3>1. inv'.paid = req[r].row.paid + req[r].amount
      BY <2>4, <2>9 DEF AddPaid, Row
    <3>2. req[r].row.paid < inv.paid
      BY <2>0, <2>1, <2>4, <2>5, <3>1
    <3> QED BY <2>4, <2>9, <3>2
  <2>10. \/ /\ req[r].op \in {"cancel", "send", "update"}
            /\ inv'.paid = req[r].row.paid
         \/ /\ req[r].op = "record"
            /\ inv' = Credit(req[r].row, req[r].amount)
         \/ /\ req[r].op \in {"match", "reconcile"} /\ ~SerialTx
            /\ inv' = AddPaid(req[r].row, req[r].amount)
    BY <2>3, <2>4 DEF RowWritten, Row
  <2> HIDE DEF Culprit
  <2> QED BY <2>7, <2>8, <2>9, <2>10
<1>2. TypeOK /\ Readers /\ FreshSnapshots /\ [Next]_vars
        => [Loses => \E r \in Requests : Culprit(r)]_vars
  <2> HIDE DEF Loses, Culprit
  <2> QED BY <1>1
<1> QED BY <1>2, TypeCorrect, SnapshotsAreFresh, PTL
        DEF Spec, MoneyLostOnlyBy

-----------------------------------------------------------------------------
(* A row is settled when it is paid exactly if its total is *)
Settled(row) == row.paid >= row.total <=> row.status = "paid"

(* Crediting settles a row, and one not paid may get another status. *)
LEMMA SettledLemma ==
  ASSUME NEW row \in Row, NEW amount \in Nat
  PROVE  /\ Settled(Credit(row, amount))
         /\ Settled(AddPaid(row, amount))
         /\ Settled(row) /\ row.status # "paid" =>
              /\ Settled([row EXCEPT !.status = "cancelled"])
              /\ Settled([row EXCEPT !.status = "sent"])
<1>1. row.paid \in Nat /\ row.total \in Nat
  BY DEF Row
<1>2. Credited(row, amount) \in Nat
  BY CreditedLemma
<1>3. Settled(Credit(row, amount))
  <2> DEFINE new == Credit(row, amount)
  <2>1. new.paid \in Nat /\ new.total \in Nat
    BY CreditType DEF Row
  <2>2. new.status = StatusFor(new.paid, new.total)
    BY CreditType
  <2> HIDE DEF new
  <2>3. Settled(new)
    BY <2>1, <2>2 DEF StatusFor, Settled
  <2> QED BY <2>3 DEF new
<1>4. Settled(AddPaid(row, amount))
  BY <1>1 DEF AddPaid, StatusFor, Settled, Row
<1> QED BY <1>3, <1>4 DEF Settled, Row

(* Until it is edited by hand the invoice is settled and so is every copy  *)
(* of it about to be saved; those who will write another status have seen  *)
(* that it was not paid.                                                   *)
SettledCopy(r) == req[r].pc \in Reading =>
                    /\ Settled(req[r].row)
                    /\ req[r].op \in {"cancel", "send"}
                         => req[r].row.status # "paid"
AllSettled == ~Edited => /\ Exists => Settled(inv)
                         /\ \A r \in Requests : SettledCopy(r)

(* A request that has just read the row has seen it unpaid if it cancels   *)
(* or sends it.                                                            *)
LEMMA BegunLemma ==
  ASSUME TypeOK, Readers, NEW r \in Requests, Step(r), req'[r].pc = "read"
  PROVE  req'[r].op \in {"cancel", "send"} => inv.status # "paid"
<1>1. CASE CancelRead(r)
  <2> DEFINE ok == Exists /\ CanTransition(inv.status, "cancelled")
  <2>1. Begin(r, "cancel", ok, 0, NoKey, "none") /\ (ok => Exists)
    BY <1>1 DEF CancelRead
  <2>2. ok \in BOOLEAN
    BY DEF Exists, CanTransition
  <2>3. ok => inv.status # "paid"
    BY DEF CanTransition, ValidTransitions, Exists, TypeOK, Row, Statuses
  <2> HIDE DEF ok
  <2>4. ok /\ req'[r].op = "cancel"
    BY <2>1, <2>2, BeginType DEF AllOps, TxOps
  <2> QED BY <2>1, <2>3, <2>4 DEF Begin
<1>2. CASE SendRead(r)
  <2> DEFINE ok == Exists /\ inv.status \notin {"sent", "paid", "cancelled"}
  <2>1. Begin(r, "send", ok, 0, NoKey, "none") /\ (ok => Exists)
    BY <1>2 DEF SendRead
  <2>2. ok \in BOOLEAN
    BY DEF Exists
  <2>3. ok => inv.status # "paid"
    OBVIOUS
  <2> HIDE DEF ok
  <2>4. ok /\ req'[r].op = "send"
    BY <2>1, <2>2, BeginType DEF AllOps, PlainOps
  <2> QED BY <2>1, <2>3, <2>4 DEF Begin
<1>3. CASE RecordRead(r) \/ MatchRead(r) \/ ReconcileRead(r)
           \/ UpdateRead(r) \/ DeleteRead(r)
  <2>1. \E op \in AllOps \ {"cancel", "send"} : \E ok, amount, key, to :
          Begin(r, op, ok, amount, key, to)
    BY <1>3 DEF RecordRead, MatchRead, ReconcileRead, UpdateRead,
       DeleteRead, AllOps, TxOps, PlainOps
  <2>2. PICK op \in AllOps \ {"cancel", "send"} : \E ok, amount, key, to :
          Begin(r, op, ok, amount, key, to)
    BY <2>1
  <2>3. req'[r].op = op
    BY <2>2 DEF Begin, Ended, Fresh, TypeOK
  <2> QED BY <2>3
<1>4. CASE ~(\/ CancelRead(r) \/ SendRead(r) \/ RecordRead(r) \/ MatchRead(r)
             \/ ReconcileRead(r) \/ UpdateRead(r) \/ DeleteRead(r))
  <2>1. req'[r].pc # "read"
    BY <1>4, FinishType, AdvanceType, SaveAllType
       DEF Step, RecordCheck, RecordCommit, CancelCommit, MatchCommit,
           ReconcileCommit, SendSave, SaveAll, UpdateSave, DeletePayments,
           DeleteRow
  <2> QED BY <2>1
<1> QED BY <1>1, <1>2, <1>3, <1>4

(* What has ended stays as it ended. *)
LEMMA EndedStays ==
  ASSUME TypeOK, Readers, NEW r \in Requests, Step(r)
  PROVE  /\ Matched => Matched'
         /\ Edited => Edited'
         /\ Recalculated => Recalculated'
<1>1. req[r].pc # "done"
  BY DEF Step, RecordRead, RecordCheck, RecordCommit, CancelRead,
     CancelCommit, MatchRead, MatchCommit, ReconcileRead, ReconcileCommit,
     SendRead, SendSave, UpdateRead, UpdateSave, DeleteRead, DeletePayments,
     DeleteRow, Begin, At
<1>2. req[r].result = "none"
  BY <1>1 DEF Readers
<1>3. \A q \in Requests : req[q].result # "none" => req'[q] = req[q]
  BY <1>2, StepLemma DEF StepShape
<1> QED BY <1>3 DEF Matched, Edited, Recalculated

(* Until UpdateInvoice sets status or total by hand the invoice is paid    *)
(* exactly when its total is, over either database and whoever credits it. *)
THEOREM PaidWhenSettled == Spec => []SettledIsPaid
<1>1. Init => AllSettled
  <2> SUFFICES ASSUME Init PROVE AllSettled
    OBVIOUS
  <2>1. Settled(inv)
    BY DEF Init, Settled
  <2> QED BY <2>1 DEF Init, AllSettled, SettledCopy, Reading, Fresh
<1>2. TypeOK /\ Readers /\ AllSettled /\ [Next]_vars => AllSettled'
  <2> SUFFICES ASSUME TypeOK, Readers, AllSettled, [Next]_vars, ~Edited'
               PROVE  /\ Exists' => Settled(inv')
                      /\ \A q \in Requests : SettledCopy(q)'
    BY DEF AllSettled, Settled
  <2>1. ASSUME NEW r \in Requests, Step(r)
        PROVE  /\ Exists' => Settled(inv')
               /\ \A q \in Requests : SettledCopy(q)'
    <3>1. StepShape(r) /\ RowWritten(r) /\ ~Edited
      BY <2>1, StepLemma, RowLemma, EndedStays
    <3>0. /\ Exists => Settled(inv)
          /\ \A q \in Requests : SettledCopy(q)
      BY <3>1 DEF AllSettled
    <3>2. Exists' => Settled(inv')
      <4>1. req[r].amount \in Nat
        BY DEF TypeOK, Request
      <4>2. CASE inv' = inv \/ inv' = NoRow
        BY <3>0, <4>2 DEF Exists
      <4>3. CASE ~(inv' = inv \/ inv' = NoRow)
        <5>1. /\ Saves(r) /\ req[r].row \in Row /\ req'[r].op = req[r].op
              /\ SettledCopy(r)
          BY <3>0, <3>1, <4>3 DEF RowWritten
        <5>2. /\ Settled(req[r].row)
              /\ req[r].op \in {"cancel", "send"} => req[r].row.status # "paid"
          BY <5>1 DEF SettledCopy, Saves, Reading
        <5>3. ~(/\ req[r].op = "update"
                /\ req'[r].result \in {"ok", "recalculated"})
          BY <5>1 DEF Edited
        <5> QED BY <3>1, <4>1, <4>3, <5>1, <5>2, <5>3, SettledLemma
                DEF RowWritten
      <4> QED BY <4>2, <4>3
    <3>3. ASSUME NEW q \in Requests PROVE SettledCopy(q)'
      <4>1. CASE q # r
        BY <3>0, <3>1, <4>1 DEF StepShape, SettledCopy, Settled
      <4>2. CASE q = r /\ req'[r].pc = "read"
        BY <2>1, <3>0, <3>1, <4>2, BegunLemma
           DEF StepShape, SettledCopy, Settled, GoesOn
      <4>3. CASE q = r /\ req'[r].pc # "read"
        BY <3>0, <3>1, <4>3
           DEF StepShape, SettledCopy, Settled, GoesOn, Reading
      <4> QED BY <4>1, <4>2, <4>3
    <3> QED BY <3>2, <3>3
  <2>2. CASE MarkOverdue \/ KRARegistered
    <3>0. ~Edited /\ UNCHANGED req
      BY <2>2, BackgroundLemma DEF Edited
    <3>1. inv \in Row
      BY <2>2 DEF TypeOK, MarkOverdue, KRARegistered, Exists
    <3>2. Settled(inv) /\ \A q \in Requests : SettledCopy(q)
      BY <2>2, <3>0, BackgroundLemma DEF AllSettled
    <3>3. Settled(inv')
      BY <2>2, <3>1, <3>2 DEF MarkOverdue, KRARegistered, Settled, Row
    <3> QED BY <3>0, <3>2, <3>3 DEF SettledCopy, Settled
  <2>3. CASE UNCHANGED vars
    BY <2>3 DEF vars, AllSettled, Exists, Settled, SettledCopy, Edited
  <2> QED BY <2>1, <2>2, <2>3 DEF Next
<1>3. TypeOK /\ AllSettled => SettledIsPaid
  BY DEF AllSettled, Settled, SettledIsPaid
<1> QED BY <1>1, <1>2, <1>3, TypeCorrect, PTL DEF Spec

(* A row's balance is what is left of its total *)
Balanced(row) == row.balance + row.paid = row.total

(* Crediting balances a row, and the balance needs no status. *)
LEMMA BalancedLemma ==
  ASSUME NEW row \in Row, NEW amount \in Nat
  PROVE  /\ Balanced(Credit(row, amount))
         /\ Balanced(row) =>
              /\ Balanced([row EXCEPT !.status = "cancelled"])
              /\ Balanced([row EXCEPT !.status = "sent"])
<1>1. Balanced(Credit(row, amount))
  <2> DEFINE new == Credit(row, amount)
  <2>1. new.paid \in Nat /\ new.total \in Nat /\ new.balance = new.total - new.paid
    BY CreditType DEF Row
  <2> HIDE DEF new
  <2>2. Balanced(new)
    BY <2>1 DEF Balanced
  <2> QED BY <2>2 DEF new
<1> QED BY <1>1 DEF Balanced, Row

(* Until a match or an update changes paid amount or total without the     *)
(* balance, the invoice is balanced and so is every copy of it about to be *)
(* saved                                                                   *)
BalancedCopy(r) == req[r].pc \in Reading => Balanced(req[r].row)
AllBalanced ==
  ~Matched /\ ~Recalculated => /\ Exists => Balanced(inv)
                               /\ \A r \in Requests : BalancedCopy(r)

(* However stale a save, over either database, the balance is calculated   *)
(* from the total and what was paid, until a match or an update that       *)
(* recalculates the total leaves it behind.                                *)
THEOREM BalancesAreCalculated == Spec => []BalanceIsCalculated
<1>1. Init => AllBalanced
  <2> SUFFICES ASSUME Init PROVE AllBalanced
    OBVIOUS
  <2>1. Balanced(inv)
    BY DEF Init, Balanced
  <2> QED BY <2>1 DEF Init, AllBalanced, BalancedCopy, Reading, Fresh
<1>2. TypeOK /\ Readers /\ AllBalanced /\ [Next]_vars => AllBalanced'
  <2> SUFFICES ASSUME TypeOK, Readers, AllBalanced, [Next]_vars, ~Matched',
                      ~Recalculated'
               PROVE  /\ Exists' => Balanced(inv')
                      /\ \A q \in Requests : BalancedCopy(q)'
    BY DEF AllBalanced, Balanced
  <2>1. ASSUME NEW r \in Requests, Step(r)
        PROVE  /\ Exists' => Balanced(inv')
               /\ \A q \in Requests : BalancedCopy(q)'
    <3>1. StepShape(r) /\ RowWritten(r) /\ ~Matched /\ ~Recalculated
      BY <2>1, StepLemma, RowLemma, EndedStays
    <3>0. /\ Exists => Balanced(inv)
          /\ \A q \in Requests : BalancedCopy(q)
      BY <3>1 DEF AllBalanced
    <3>2. Exists' => Balanced(inv')
      <4>1. req[r].amount \in Nat
        BY DEF TypeOK, Request
      <4>2. CASE inv' = inv \/ inv' = NoRow
        BY <3>0, <4>2 DEF Exists
      <4>3. CASE ~(inv' = inv \/ inv' = NoRow)
        <5>1. /\ Saves(r) /\ req[r].row \in Row /\ req'[r].op = req[r].op
              /\ BalancedCopy(r)
          BY <3>0, <3>1, <4>3 DEF RowWritten
        <5>2. Balanced(req[r].row)
          BY <5>1 DEF BalancedCopy, Saves, Reading
        <5>3. CASE /\ req[r].op = "update" /\ inv'.total = req[r].row.total
                   /\ inv'.paid = req[r].row.paid
                   /\ inv'.balance = req[r].row.balance
          BY <5>2, <5>3 DEF Balanced
        <5>4. ~(req'[r].result = "recalculated")
          BY DEF Recalculated
        <5>5. ~(req[r].op \in {"match", "reconcile"} /\ req'[r].result = "ok")
          BY <5>1 DEF Matched
        <5> QED BY <3>1, <4>1, <4>3, <5>1, <5>2, <5>3, <5>4, <5>5,
                   BalancedLemma DEF RowWritten
      <4> QED BY <4>2, <4>3
    <3>3. ASSUME NEW q \in Requests PROVE BalancedCopy(q)'
      BY <3>0, <3>1, <3>3
         DEF StepShape, BalancedCopy, Balanced, GoesOn, Reading
    <3> QED BY <3>2, <3>3
  <2>2. CASE MarkOverdue \/ KRARegistered
    <3>0. ~Matched /\ ~Recalculated /\ UNCHANGED req
      BY <2>2, BackgroundLemma DEF Matched, Recalculated
    <3>1. Balanced(inv) /\ \A q \in Requests : BalancedCopy(q)
      BY <2>2, <3>0, BackgroundLemma DEF AllBalanced
    <3>2. Balanced(inv')
      BY <2>2, <3>1, BackgroundLemma DEF Balanced
    <3> QED BY <3>0, <3>1, <3>2 DEF BalancedCopy, Balanced
  <2>3. CASE UNCHANGED vars
    BY <2>3 DEF vars, AllBalanced, Exists, Balanced, BalancedCopy, Matched,
       Recalculated
  <2> QED BY <2>1, <2>2, <2>3 DEF Next
<1>3. AllBalanced => BalanceIsCalculated
  BY DEF AllBalanced, Balanced, BalanceIsCalculated
<1> QED BY <1>1, <1>2, <1>3, TypeCorrect, PTL DEF Spec
=============================================================================
