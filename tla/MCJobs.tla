-------------------------------- MODULE MCJobs --------------------------------
(* What a replica does in the background, of which one is looked at in each *)
(* behaviour: the queue of notifications, the preferences that keep them    *)
(* from it, recurring invoices, payment reminders, the rendering of PDFs,   *)
(* and the automations kept for it.                                        *)
EXTENDS Notifications, FiniteSets

CONSTANTS Tenants, Workers, Requests, MaxActors, MaxDay, MaxEvents, None,
          Invoices, Senders, Day, DueAt, Notice, Intervals, MaxHour,
          Replicas, MaxEdits, MaxFailures, Visitors, Before, NoRow,
          Events, Ids, Last, Wishes

ASSUME ActorsAssumption    == MaxActors \in Nat \ {0}
ASSUME MaxDayAssumption    == MaxDay \in Nat \ {0}
ASSUME MaxEventsAssumption == MaxEvents \in Nat
ASSUME TimesAssumption     == /\ Day \in Nat \ {0} /\ DueAt \in Nat /\ MaxHour \in Nat
                              /\ Intervals \subseteq Nat \ {0}
                              /\ None \notin Nat
ASSUME LastAssumption      == Last \in Nat \ {0}
ASSUME IdsAssumption       == Ids \subseteq Nat
ASSUME NoRowAssumption     == NoRow \notin {"pending", "dead_letter", "running"} /\ NoRow \notin BOOLEAN

Hours == 0..(Last - 1)

(* Texts by their places in the order of all, those of the hours among them *)
Texts == 0..(2 * Last)

(* What may be wished for, and what is stored of it: none of it is nothing *)
Wish == [on: SUBSET {"email", "sms", "whatsapp"}, enabled: BOOLEAN,
         from: Texts \cup {None}, until: Texts \cup {None}]
Preference == [event: Events, on: SUBSET {"email", "sms", "whatsapp"}, enabled: BOOLEAN,
               from: Texts \cup {None}, until: Texts \cup {None}]

ASSUME WishesAssumption ==
  /\ Wishes \subseteq Wish
  /\ None \notin [of: Wishes, first: BOOLEAN]
  /\ None \notin Preference

VARIABLES
  job,                                                       \* which job
  today, parent, count, children, made, deleted, work, req, actors, serial,
  faulted, events,
  hour, paid, overdue, log, last, again, run, postgres, missed, outages,
  invoice, creator, queue, loop, file, result, popped, up, failures,
  template, jobs, rules, runs, visit, alone, slips, wanted, late, back, cut,
  rows, tenant, clock, change, send, shown, queued, wish, amiss, lapses

I == INSTANCE RecurringInvoices
R == INSTANCE Reminders WITH Workers <- Senders, faults <- outages, MaxFaults <- MaxCrashes
Q == INSTANCE PDFQueue
A == INSTANCE Automations WITH Requests <- Visitors, req <- visit, serial <- alone,
                              faults <- slips, MaxFaults <- MaxCrashes

(* No mail and quiet hours over midnight, said to be none; and mail alone, *)
(* with quiet hours whose end is no hour and stands before all of them     *)
Wished == {[on |-> {"whatsapp"}, enabled |-> FALSE, from |-> 5, until |-> 3],
           [on |-> {"email"}, enabled |-> TRUE, from |-> 3, until |-> 0]}

P == INSTANCE Preferences
       WITH Requests <- Workers, Sends <- Senders, hour <- clock, req <- change,
            faults <- lapses, MaxFaults <- MaxCrashes

notifications == vars
recurring == <<today, parent, count, children, made, deleted, work, req,
               actors, faulted, events>>
reminders == <<hour, paid, overdue, log, last, again, run, postgres, missed, outages>>
automations == <<template, jobs, rules, runs, visit, alone, slips, wanted, late, back, cut>>
preferences == <<rows, tenant, clock, change, send, shown, queued, wish, amiss, lapses>>
pdfs == <<invoice, creator, queue, loop, file, result, popped, up, failures>>

JobsInit ==
  /\ Init /\ I!Init /\ R!Init /\ Q!Init /\ A!Init /\ P!Init
  /\ job \in {"notifications", "recurring", "reminders", "pdf", "automations", "preferences"}
  /\ job # "recurring" => actors = CHOOSE S \in SUBSET (Workers \cup Requests) : Cardinality(S) = MaxActors
  /\ job # "reminders" => ~postgres
  /\ job \notin {"recurring", "reminders"} => serial
  /\ job # "preferences" => \A e \in Events : tenant[e] = {}
  /\ job = "preferences" => tenant = [e \in Events |-> IF e = CHOOSE f \in Events : TRUE THEN {"sms"} ELSE {}]
  /\ job # "automations" => alone /\ template = NoRow /\ rules = [u \in A!Rules |-> NoRow]

NotificationsStep == job = "notifications" /\ UNCHANGED <<job, recurring, serial, reminders, pdfs, automations, preferences>>
RecurringStep == job = "recurring" /\ UNCHANGED <<job, notifications, reminders, pdfs, automations, preferences>>
RemindersStep == job = "reminders" /\ UNCHANGED <<job, notifications, recurring, pdfs, automations, preferences>>
PDFStep       == job = "pdf" /\ UNCHANGED <<job, notifications, recurring, serial, reminders, automations, preferences>>
AutomationsStep == job = "automations" /\ UNCHANGED <<job, notifications, recurring, serial, reminders, pdfs, preferences>>
PreferencesStep == job = "preferences" /\ UNCHANGED <<job, notifications, recurring, serial, reminders, pdfs, automations>>

JobsNext ==
  \/ NotificationsStep /\ Next
  \/ RecurringStep /\ I!Next
  \/ RemindersStep /\ R!Next
  \/ PDFStep /\ Q!Next
  \/ AutomationsStep /\ A!Next
  \/ PreferencesStep /\ P!Next

(* The goroutines, the poller, the minutely scheduler and the loops keep    *)
(* running, and what a request has begun ends.                              *)
JobsFairness ==
  /\ \A i \in Items : WF_<<job, vars>>(NotificationsStep /\ Sender(i))
  /\ WF_<<job, vars>>(NotificationsStep /\ Poller)
  /\ \A w \in Workers : WF_<<job, recurring>>(RecurringStep /\ I!Process(w))
  /\ \A r \in Requests : WF_<<job, recurring>>(RecurringStep /\ I!SavesRow(r))
  /\ \A r \in Replicas : WF_<<job, pdfs>>(PDFStep /\ (Q!ProcessNextTask(r) \/ Q!ExecuteTask(r)))

JobsSpec == JobsInit /\ [][JobsNext]_<<job, vars, recurring, serial, reminders, pdfs, automations, preferences>> /\ JobsFairness

-----------------------------------------------------------------------------
(* An invoice is made once for a period, if runs and requests come one at  *)
(* a time and do not fail in between; and two reminders of a kind for an    *)
(* invoice are apart by the time the code looks back, unless runs overlap,  *)
(* or one of that kind for that invoice was sent and, by a crash, a failed  *)
(* statement, a key of the same second or over Postgres, not logged, or was *)
(* logged and the look for it failed.                                       *)
NothingTwice == I!OncePerPeriod /\ R!RemindedOnce

(* A template of recurring invoices and its jobs agree, unless a deletion   *)
(* was overtaken, or a crash or a failed statement left a request half done; *)
(* and what a change of preferences that was stored switched off or made    *)
(* quiet stays so, unless requests crossed, the row's first storing         *)
(* overruled it, or the preferences could not be read.                     *)
WishesAreKept == A!JobsMatchTemplate /\ P!PreferencesStand

(* A parent that stays due for good does so because the number it would    *)
(* draw belongs to another tenant, or to an own invoice after a deletion;   *)
(* an invoice queued for rendering gets a report, unless a replica or Redis *)
(* failed.                                                                 *)
DueIsServed ==
  /\ job = "recurring" => I!DueIsServed
  /\ \A i \in Invoices : Q!Queued(i) ~> Q!Reported(i)
=============================================================================
