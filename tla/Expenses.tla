------------------------------- MODULE Expenses -------------------------------
(***************************************************************************)
(* A tenant's expenses, their attachments, and what the reports say of     *)
(* them by month.                                                          *)
(*                                                                         *)
(* An edit reads the expense and saves it whole, the number of its         *)
(* attachments too, which uploads and removals count up and down in the    *)
(* database, and pass it over when that fails.  Every expense is of one    *)
(* unit: the reports add them up.  A date without a time is a midnight.    *)
(***************************************************************************)
EXTENDS Integers, FiniteSets, FiniteSetsExt

CONSTANTS ExpenseIDs,  \* expenses
          Attachments, \* attachments
          Requests,    \* requests that take several steps
          Dates,       \* the midnights that requests name
          Statuses,    \* the statuses that requests name
          Start,       \* the time at first, after the months of a trend
          Day,         \* the length of a day, in ticks
          Month,       \* the length of a month
          Months,      \* the number of months of a trend
          MaxNow,      \* bound on the time
          NoRow        \* no such row

VARIABLES
  now,     \* the time
  expense, \* expense[e]: the row, or NoRow
  file,    \* file[a]: the expense that attachment a is to, or NoRow
  req,     \* req[r]: what request r is at and holds
  used,    \* history: the ids that have been used
  asked,   \* history: asked[e]: the status last asked for and not refused, NoRow after a deletion
  stale,   \* history: expenses to which a save gave back a status, a count or a row long gone
  miscounted \* history: expenses with a count that failed, or one attachment removed twice

vars == <<now, expense, file, req, used, asked, stale, miscounted>>

Idle == [at |-> "idle"]

Init == /\ now = Start
        /\ expense = [e \in ExpenseIDs |-> NoRow]
        /\ file = [a \in Attachments |-> NoRow]
        /\ req = [r \in Requests |-> Idle]
        /\ used = {}
        /\ asked = [e \in ExpenseIDs |-> NoRow]
        /\ stale = {}
        /\ miscounted = {}

Exists(e)     == expense[e] # NoRow
FilesOf(e)    == {a \in Attachments : file[a] = e}
At(r, step)   == req[r].at = step
Goes(r, next) == req' = [req EXCEPT ![r] = next]

-----------------------------------------------------------------------------
(* Requests for an expense                                                 *)

CreateExpense(e) ==
  \E date \in Dates \cup {now}, status \in Statuses :
    /\ e \notin used
    /\ expense' = [expense EXCEPT ![e] = [status |-> status, date |-> date, attachments |-> 0]]
    /\ asked' = [asked EXCEPT ![e] = status]
    /\ used' = used \cup {e}
    /\ UNCHANGED <<now, file, req, stale, miscounted>>

(* What a request asks for is put on the row as it was read; NoRow asks    *)
(* for nothing.                                                            *)
Edited(row, status, date) ==
  [row EXCEPT !.status = IF status = NoRow THEN @ ELSE status,
              !.date = IF date = NoRow THEN @ ELSE date]

UpdateExpense(r, e) ==
  \E status \in Statuses \cup {NoRow}, date \in Dates \cup {NoRow} :
    /\ At(r, "idle")
    /\ Exists(e)
    /\ Goes(r, [at |-> "save", of |-> e, to |-> status,
                row |-> Edited(expense[e], status, date)])
    /\ UNCHANGED <<now, expense, file, used, asked, stale, miscounted>>

(* An edit gives back what it read and what has changed or gone since *)
GivesBack(row, to, e) ==
  \/ ~Exists(e)
  \/ row.attachments # expense[e].attachments
  \/ to = NoRow /\ row.status # expense[e].status

(* Save stores the row again if it is gone *)
SaveExpense(r) ==
  /\ At(r, "save")
  /\ expense' = [expense EXCEPT ![req[r].of] = req[r].row]
  /\ asked' = IF req[r].to = NoRow THEN asked ELSE [asked EXCEPT ![req[r].of] = req[r].to]
  /\ stale' = IF GivesBack(req[r].row, req[r].to, req[r].of) THEN stale \cup {req[r].of} ELSE stale
  /\ Goes(r, Idle)
  /\ UNCHANGED <<now, file, used, miscounted>>

(* The bulk approval looks whether the expense is pending, then reads it   *)
(* once more                                                               *)
BulkApprove(r, e) ==
  /\ At(r, "idle")
  /\ Exists(e)
  /\ expense[e].status = "pending"
  /\ Goes(r, [at |-> "approve", of |-> e])
  /\ UNCHANGED <<now, expense, file, used, asked, stale, miscounted>>

ReadToApprove(r) ==
  /\ At(r, "approve")
  /\ Goes(r, IF Exists(req[r].of)
             THEN [at |-> "save", of |-> req[r].of, to |-> "approved",
                   row |-> Edited(expense[req[r].of], "approved", NoRow)]
             ELSE Idle)
  /\ UNCHANGED <<now, expense, file, used, asked, stale, miscounted>>

DeleteExpense(e) ==
  /\ Exists(e)
  /\ expense' = [expense EXCEPT ![e] = NoRow]
  /\ asked' = [asked EXCEPT ![e] = NoRow]
  /\ UNCHANGED <<now, file, req, used, stale, miscounted>>

-----------------------------------------------------------------------------
(* Attachments: the record, then the count                                 *)

UploadFile(r, e, a) ==
  /\ At(r, "idle")
  /\ Exists(e)
  /\ a \notin used
  /\ file' = [file EXCEPT ![a] = e]
  /\ used' = used \cup {a}
  /\ Goes(r, [at |-> "count", of |-> e, by |-> 1])
  /\ UNCHANGED <<now, expense, asked, stale, miscounted>>

(* Two requests may both find the attachment, and both count it down *)
FindAttachment(r, a) ==
  /\ At(r, "idle")
  /\ file[a] # NoRow
  /\ Goes(r, [at |-> "remove", of |-> file[a], file |-> a])
  /\ UNCHANGED <<now, expense, file, used, asked, stale, miscounted>>

Miscounts(r) == miscounted' = miscounted \cup {req[r].of}

DeleteAttachment(r) ==
  /\ At(r, "remove")
  /\ file' = [file EXCEPT ![req[r].file] = NoRow]
  /\ IF file[req[r].file] = NoRow THEN Miscounts(r) ELSE UNCHANGED miscounted
  /\ Goes(r, [at |-> "count", of |-> req[r].of, by |-> 0 - 1])
  /\ UNCHANGED <<now, expense, used, asked, stale>>

CountAttachment(r) ==
  /\ At(r, "count")
  /\ expense' = IF Exists(req[r].of)
                THEN [expense EXCEPT ![req[r].of].attachments = @ + req[r].by] ELSE expense
  /\ Goes(r, Idle)
  /\ UNCHANGED <<now, file, used, asked, stale, miscounted>>

(* A statement fails, or the replica crashes: a save or a removal is       *)
(* refused; a count that fails is passed over, and the request answered    *)
(* with success.  Mutated form: so is an edit whose save fails.            *)
FailsUnseen(r) ==
  /\ ~At(r, "idle")
  /\ Goes(r, Idle)
  /\ asked' = IF At(r, "save") THEN [asked EXCEPT ![req[r].of] = req[r].row.status] ELSE asked
  /\ IF At(r, "count") THEN Miscounts(r) ELSE UNCHANGED miscounted
  /\ UNCHANGED <<now, expense, file, used, stale>>
Fails(r) ==
  /\ ~At(r, "idle")
  /\ Goes(r, Idle)
  /\ IF At(r, "count") THEN Miscounts(r) ELSE UNCHANGED miscounted
  /\ UNCHANGED <<now, expense, file, used, asked, stale>>

Tick == /\ now < MaxNow
        /\ now' = now + 1
        /\ UNCHANGED <<expense, file, req, used, asked, stale, miscounted>>

-----------------------------------------------------------------------------
(* The reports                                                             *)

MonthStart == now - (now % Month)
Midnight   == now - (now % Day)

Spent(first, last) ==
  {e \in ExpenseIDs : /\ Exists(e)
                      /\ expense[e].status \in {"approved", "paid"}
                      /\ expense[e].date \in first..last}

(* getMonthlyTrends, the month that is back months ago: BETWEEN has both   *)
(* ends.  Mutated form: the month ends a day early.                        *)
TrendCutShort(back) ==
  LET first == MonthStart - back * Month IN Cardinality(Spent(first, first + Month - Day))
Trend(back) ==
  LET first == MonthStart - back * Month IN Cardinality(Spent(first, first + Month))

ThisMonth == Cardinality(Spent(MonthStart, now))

(* The counts of the summary of a month, by status: until today's midnight *)
SummaryOfMonth(status) ==
  Cardinality({e \in ExpenseIDs : /\ Exists(e)
                                  /\ expense[e].status = status
                                  /\ expense[e].date \in MonthStart..Midnight})

(* The list of today, or of this month, ends there too *)
GetExpenses(period, status) ==
  {e \in ExpenseIDs :
     /\ Exists(e)
     /\ expense[e].status = status
     /\ expense[e].date \in (IF period = "today" THEN Midnight ELSE MonthStart)..Midnight}

Next == \/ \E e \in ExpenseIDs : CreateExpense(e) \/ DeleteExpense(e)
        \/ \E r \in Requests, e \in ExpenseIDs : UpdateExpense(r, e) \/ BulkApprove(r, e)
        \/ \E r \in Requests, e \in ExpenseIDs, a \in Attachments : UploadFile(r, e, a)
        \/ \E r \in Requests, a \in Attachments : FindAttachment(r, a)
        \/ \E r \in Requests : \/ SaveExpense(r) \/ ReadToApprove(r)
                               \/ DeleteAttachment(r) \/ CountAttachment(r)
                               \/ Fails(r)
        \/ Tick

Spec == Init /\ [][Next]_vars

-----------------------------------------------------------------------------
(* Properties                                                              *)

(* The months of a trend add up to what was spent in them and once more    *)
(* what was spent at the moment one month ends and the next begins, which  *)
(* is the midnight of every expense dated the first.  This month's total   *)
(* leaves out what is dated later than now, and the summary's counts, as   *)
(* the lists, what was created today without a date.                       *)
MonthsAddUp ==
  LET first == MonthStart - (Months - 1) * Month
      turns == {first + k * Month : k \in 1..Months - 1}
      onTurn == {e \in Spent(first, now + Month) : expense[e].date \in turns}
  IN  /\ MapThenSumSet(Trend, 0..Months - 1)
           = Cardinality(Spent(first, MonthStart + Month)) + Cardinality(onTurn)
      /\ ThisMonth = Trend(0) - Cardinality(Spent(now + 1, MonthStart + Month))
      /\ SummaryOfMonth("approved") + SummaryOfMonth("paid")
           = ThisMonth - Cardinality(Spent(Midnight + 1, now))
      /\ \A status \in Statuses :
           /\ Cardinality(GetExpenses("month", status)) = SummaryOfMonth(status)
           /\ GetExpenses("today", status) = GetExpenses("month", status)
                \ {e \in GetExpenses("month", status) : expense[e].date < Midnight}

Owed(e) ==
  LET counting(by) == {r \in Requests : At(r, "count") /\ req[r].of = e /\ req[r].by = by}
  IN  Cardinality(counting(1)) - Cardinality(counting(0 - 1))

(* Whatever requests overlap: what was last asked for an expense stands,   *)
(* and a deletion too, unless an edit gave back what it had read and       *)
(* another request changed; and the count of its attachments, with what is still to be      *)
(* counted, is right, unless so, or a count failed or was cut short by a   *)
(* crash, or two requests removed one attachment.                          *)
WrongHasACause ==
  \A e \in ExpenseIDs \ stale :
    IF asked[e] = NoRow THEN ~Exists(e)
    ELSE /\ Exists(e)
         /\ expense[e].status = asked[e]
         /\ e \notin miscounted => expense[e].attachments + Owed(e) = Cardinality(FilesOf(e))
=============================================================================
