------------------------------- MODULE Reminders -------------------------------
(***************************************************************************)
(* Payment reminders: the hourly job of every replica, which also runs at  *)
(* start-up, and the request that reminds of all overdue invoices.  Each   *)
(* lists invoices, and for every one looks for a logged reminder, sends,   *)
(* and logs.  The key of a log row is the second it is written in, and     *)
(* over Postgres, where keys are UUIDs, no row is ever written.  A look    *)
(* that fails finds nothing, and a row that cannot be written is passed    *)
(* over.                                                                   *)
(***************************************************************************)
EXTENDS Integers, FiniteSets

CONSTANTS Invoices,     \* invoices that were sent, all due at the same time
          Workers,      \* jobs and requests
          Day,          \* hours of a day, in this model
          DueAt,        \* the hour the invoices are due
          Notice,       \* days before the due date
          Intervals,    \* days after the due date that a reminder is sent on
          MaxHour,      \* bound on time
          MaxFaults,    \* bound on crashes and failed statements
          None          \* nothing


VARIABLES
  hour,      \* the time
  paid,      \* invoices that were paid
  overdue,   \* invoices the overdue job has marked
  log,       \* rows: invoice, kind and hour
  last,      \* last[i][kind]: the hour of the last reminder sent, or None
  again,     \* reminders sent though one of that kind was sent too recently
  run,       \* run[w]: what worker w has listed, and what it is sending
  serial,    \* whether one run goes on at a time, and nothing is paid in it
  postgres,  \* whether the database is Postgres
  missed,    \* pairs sent without a row, or looked for in vain though there is one
  faults     \* how often a replica has crashed or a statement has failed

vars == <<hour, paid, overdue, log, last, again, run, serial, postgres, missed, faults>>

Kinds == {<<"due_soon", 0>>} \cup {<<"overdue", n>> : n \in 1..((MaxHour - DueAt) \div Day + 1)}

At(pc, left, start) == [pc |-> pc, left |-> left, item |-> None, list |-> pc, start |-> start]
Idle == At("idle", {}, 0)

Init ==
  /\ hour = 0
  /\ paid = {} /\ overdue = {}
  /\ log = {}
  /\ last = [i \in Invoices |-> [k \in Kinds |-> None]]
  /\ again = {}
  /\ run = [w \in Workers |-> Idle]
  /\ serial \in BOOLEAN
  /\ postgres \in BOOLEAN
  /\ missed = {}
  /\ faults = 0

Fault   == faults < MaxFaults /\ faults' = faults + 1
NoFault == UNCHANGED faults

Quiet == \A w \in Workers : run[w] = Idle

(* The pairs of an invoice and a kind that are still to be looked at.      *)
Open == Invoices \ (paid \cup overdue)

DaysOverdue(h) == (h - DueAt) \div Day

(* What a run that started at h lists *)
DueSoon(h) == IF h >= DueAt - Notice * Day THEN {<<i, <<"due_soon", 0>>>> : i \in Open} ELSE {}
Overdue(h) == IF h > DueAt /\ DaysOverdue(h) \in Intervals
              THEN {<<i, <<"overdue", DaysOverdue(h)>>>> : i \in Open} ELSE {}

(* RunReminders; the second listing is made when the first is done, and a  *)
(* listing that fails is empty.                                            *)
ListsDueSoon(w) ==
  /\ run[w] = Idle
  /\ serial => Quiet
  /\ \/ run' = [run EXCEPT ![w] = At("soon", DueSoon(hour), hour)] /\ NoFault
     \/ run' = [run EXCEPT ![w] = At("soon", {}, hour)] /\ Fault
  /\ UNCHANGED <<hour, paid, overdue, log, last, again, serial, postgres, missed>>

ListsOverdue(w) ==
  /\ run[w].pc = "soon" /\ run[w].left = {}
  /\ \/ run' = [run EXCEPT ![w] = At("late", Overdue(run[w].start), 0)] /\ NoFault
     \/ run' = [run EXCEPT ![w] = At("late", {}, 0)] /\ Fault
  /\ UNCHANGED <<hour, paid, overdue, log, last, again, serial, postgres, missed>>

(* BulkSendOverdueReminders, of the invoices marked overdue *)
BulkSendOverdueReminders(w) ==
  /\ run[w] = Idle
  /\ serial => Quiet
  /\ overdue \ paid # {}
  /\ run' = [run EXCEPT ![w] =
       LET days == IF DaysOverdue(hour) < 1 THEN 1 ELSE DaysOverdue(hour)
       IN At("late", {<<i, <<"overdue", days>>>> : i \in overdue \ paid}, 0)]
  /\ UNCHANGED <<hour, paid, overdue, log, last, again, serial, postgres, missed, faults>>

(* Mutated form: the window of a day for every kind *)
WindowOfADay(kind) == Day - 1
Window(kind) == IF kind[1] = "due_soon" THEN Day ELSE 2 * Day

Logged(i, kind) ==
  \E row \in log : row.invoice = i /\ row.kind = kind /\ row.hour > hour - Window(kind)

Passed(w, item) == At(run[w].pc, run[w].left \ {item}, run[w].start)
Chosen(w, item) == [pc |-> "send", left |-> run[w].left \ {item}, item |-> item,
                    list |-> run[w].pc, start |-> run[w].start]

(* The look at the log; one that fails, for whatever reason, finds nothing. *)
Looks(w, item) ==
  /\ run[w].pc \in {"soon", "late"} /\ item \in run[w].left
  /\ \/ ~Logged(item[1], item[2]) /\ NoFault /\ UNCHANGED missed
     \/ Logged(item[1], item[2]) /\ Fault /\ missed' = missed \cup {item}
  /\ run' = [run EXCEPT ![w] = Chosen(w, item)]
  /\ UNCHANGED <<hour, paid, overdue, log, last, again, serial, postgres>>

(* A reminder found in the log, or the client or the user of an overdue    *)
(* invoice that cannot be read                                             *)
PassesOver(w, item) ==
  /\ run[w].pc \in {"soon", "late"} /\ item \in run[w].left
  /\ \/ Logged(item[1], item[2]) /\ NoFault
     \/ ~Logged(item[1], item[2]) /\ item[2][1] = "overdue" /\ Fault
  /\ run' = [run EXCEPT ![w] = Passed(w, item)]
  /\ UNCHANGED <<hour, paid, overdue, log, last, again, serial, postgres, missed>>

Spacing(kind) == IF kind[1] = "due_soon" THEN Day ELSE 2 * Day

Sends(w) ==
  /\ run[w].pc = "send"
  /\ LET i == run[w].item[1]
         k == run[w].item[2]
     IN /\ last' = [last EXCEPT ![i][k] = hour]
        /\ again' = IF last[i][k] # None /\ hour - last[i][k] < Spacing(k)
                    THEN again \cup {<<i, k>>} ELSE again
  /\ run' = [run EXCEPT ![w].pc = "log"]
  /\ UNCHANGED <<hour, paid, overdue, log, serial, postgres, missed, faults>>

(* logReminder.  An error is ignored: the key is no UUID, another row of   *)
(* the same second, and so of the same hour, has it, or the statement fails. *)
LogReminder(w) ==
  /\ run[w].pc = "log"
  /\ \/ /\ ~postgres /\ NoFault
        /\ log' = log \cup {[invoice |-> run[w].item[1], kind |-> run[w].item[2], hour |-> hour]}
        /\ UNCHANGED missed
     \/ /\ \/ (postgres \/ \E other \in log : other.hour = hour) /\ NoFault
           \/ Fault
        /\ missed' = missed \cup {run[w].item}
        /\ UNCHANGED log
  /\ run' = [run EXCEPT ![w] = At(run[w].list, run[w].left, run[w].start)]
  /\ UNCHANGED <<hour, paid, overdue, last, again, serial, postgres>>

Ends(w) ==
  /\ run[w].pc = "late" /\ run[w].left = {}
  /\ run' = [run EXCEPT ![w] = Idle]
  /\ UNCHANGED <<hour, paid, overdue, log, last, again, serial, postgres, missed, faults>>

(* The invoice is paid; the overdue job marks it *)
Pays(i) ==
  /\ serial => Quiet
  /\ paid' = paid \cup {i}
  /\ UNCHANGED <<hour, overdue, log, last, again, run, serial, postgres, missed, faults>>

MarkOverdueInvoices ==
  /\ serial => Quiet
  /\ hour > DueAt
  /\ overdue' = overdue \cup (Invoices \ paid)
  /\ UNCHANGED <<hour, paid, log, last, again, run, serial, postgres, missed, faults>>

Tick ==
  /\ hour < MaxHour
  /\ hour' = hour + 1
  /\ UNCHANGED <<paid, overdue, log, last, again, run, serial, postgres, missed, faults>>

Crash ==
  /\ Fault
  /\ run' = [w \in Workers |-> Idle]
  /\ missed' = missed \cup {run[w].item : w \in {v \in Workers : run[v].pc = "log"}}
  /\ UNCHANGED <<hour, paid, overdue, log, last, again, serial, postgres>>

Work(w) ==
  \/ ListsDueSoon(w) \/ ListsOverdue(w) \/ BulkSendOverdueReminders(w)
  \/ \E item \in run[w].left : Looks(w, item) \/ PassesOver(w, item)
  \/ Sends(w) \/ LogReminder(w) \/ Ends(w)

Next ==
  \/ \E w \in Workers : Work(w)
  \/ \E i \in Invoices : Pays(i)
  \/ MarkOverdueInvoices \/ Tick \/ Crash

Spec == Init /\ [][Next]_vars
-----------------------------------------------------------------------------
(* Two reminders of a kind for an invoice are apart by the time the code   *)
(* looks back, unless runs overlap, or one of that kind for that invoice   *)
(* went out and was not logged, by a crash, a failed statement, a key of   *)
(* the same second or over Postgres, or was logged and the look failed.    *)
RemindedOnce == serial => again \subseteq missed

(* Types; the log speaks of what was sent. *)
TypeOK ==
  /\ hour \in 0..MaxHour
  /\ \A row \in log : row.kind \in Kinds /\ last[row.invoice][row.kind] # None
  /\ \A w \in Workers : run[w].pc \in {"idle", "soon", "late", "send", "log"}
  /\ faults \in 0..MaxFaults
=============================================================================
