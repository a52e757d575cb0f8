------------------------------- MODULE Automations -------------------------------
(***************************************************************************)
(* What the automation pages keep: a template of recurring invoices with   *)
(* the jobs scheduled for it, and rules that are switched on and off: of   *)
(* reminders, workflows and other automations.  Nothing claims the jobs,   *)
(* so that the rows are all there is.  Requests are sequences of           *)
(* statements: most read a row and save it whole, which also stores a row  *)
(* again that was deleted meanwhile.  Any of them may fail: that of a first *)
(* statement changes nothing, and a later one's leaves what was done.      *)
(*                                                                         *)
(* The database is SQLite.  Over Postgres no job is ever stored: its empty *)
(* metadata are no JSON.                                                   *)
(***************************************************************************)
EXTENDS Naturals

CONSTANTS Requests, \* requests; each also names the job it schedules
          Before,   \* names the job of the template there may be at first
          NoRow,    \* no such row
          MaxFaults \* bound on crashes and failed statements

VARIABLES
  template, \* whether the template is active, or NoRow
  jobs,     \* jobs[j]: the status of j's job, or NoRow
  rules,    \* rules[u]: whether the rule of kind u is active, or NoRow
  runs,     \* runs[r]: the status of the log of request r's run, or NoRow
  req,      \* req[r]: where request r is, and what it has read
  serial,   \* whether requests come one at a time
  faults,   \* how often the server has crashed or a statement failed
  wanted,   \* history: what was last asked of the template and of each rule
  late,     \* history: the jobs stored without a template or while it was
            \* being deleted, and those whose deletion failed
  back,     \* history: whether a template was stored again after its deletion
  cut       \* history: requests that ended with only some of their writes

Names == Requests \cup {Before}
Rules == {"reminder", "workflow", "automation"}

vars == <<template, jobs, rules, runs, req, serial, faults, wanted, late, back, cut>>

At(pc, of, row) == [pc |-> pc, of |-> of, row |-> row]
NotYet == At("new", NoRow, NoRow)
Done   == At("done", NoRow, NoRow)

Quiet     == \A r \in Requests : req[r] \in {NotYet, Done}
Starts(r) == req[r] = NotYet /\ (serial => Quiet)

Goes(r, pc, of, row) == req' = [req EXCEPT ![r] = At(pc, of, row)]
Ends(r) == req' = [req EXCEPT ![r] = Done]

Want(of, row) == wanted' = [wanted EXCEPT ![of] = row]

Template == "template"

Init ==
  /\ template \in {TRUE, NoRow}
  /\ jobs = [j \in Names |-> IF j = Before /\ template = TRUE THEN "pending" ELSE NoRow]
  /\ \E exist \in {TRUE, NoRow} : rules = [u \in Rules |-> exist]
  /\ runs = [r \in Requests |-> NoRow]
  /\ req = [r \in Requests |-> NotYet]
  /\ serial \in BOOLEAN
  /\ faults = 0
  /\ wanted = [of \in Rules \cup {Template} |-> IF of = Template THEN template ELSE rules[of]]
  /\ late = {}
  /\ back = FALSE
  /\ cut = {}

Fault   == faults < MaxFaults /\ faults' = faults + 1
NoFault == UNCHANGED faults

-----------------------------------------------------------------------------
(* The template and its jobs *)

CreateRecurringInvoice(r) ==
  /\ Starts(r)
  /\ template = NoRow
  /\ \A j \in Names : jobs[j] = NoRow
  /\ template' = TRUE
  /\ Want(Template, TRUE)
  /\ Goes(r, "schedule", Template, NoRow)
  /\ UNCHANGED <<jobs, rules, runs, serial, faults, late, back, cut>>

(* A job is stored, and what that is notable for *)
Deleting == \E q \in Requests : req[q].pc = "remove"
Noted(j) == late' = IF template = NoRow \/ Deleting THEN late \cup {j} ELSE late

ScheduleJob(r) ==
  /\ req[r].pc = "schedule"
  /\ jobs' = [jobs EXCEPT ![r] = "pending"]
  /\ Noted(r)
  /\ Ends(r)
  /\ UNCHANGED <<template, rules, runs, serial, faults, wanted, back, cut>>

GetRecurringInvoice(r) ==
  /\ Starts(r)
  /\ template # NoRow
  /\ \E pc \in {"update", "pause", "resume", "delete"} : Goes(r, pc, Template, template)
  /\ UNCHANGED <<template, jobs, rules, runs, serial, faults, wanted, late, back, cut>>

SavesTemplate(row) == template' = row /\ back' = (back \/ template = NoRow)

(* Neither the frequency nor the dates of the template change its job *)
UpdateRecurringInvoice(r) ==
  /\ req[r].pc = "update"
  /\ SavesTemplate(req[r].row)
  /\ Ends(r)
  /\ UNCHANGED <<jobs, rules, runs, serial, faults, wanted, late, cut>>

(* The pending job stays *)
PauseRecurringInvoice(r) ==
  /\ req[r].pc = "pause"
  /\ SavesTemplate(FALSE)
  /\ Want(Template, FALSE)
  /\ Ends(r)
  /\ UNCHANGED <<jobs, rules, runs, serial, faults, late, cut>>

(* ... and a second one is scheduled, whatever the template was *)
ResumeRecurringInvoice(r) ==
  /\ req[r].pc = "resume"
  /\ SavesTemplate(TRUE)
  /\ Want(Template, TRUE)
  /\ Goes(r, "schedule", Template, NoRow)
  /\ UNCHANGED <<jobs, rules, runs, serial, faults, late, cut>>

(* Mutated form: the jobs that are not pending are deleted *)
WithoutOthers  == [j \in Names |-> IF jobs[j] = "pending" THEN jobs[j] ELSE NoRow]
WithoutPending == [j \in Names |-> IF jobs[j] = "pending" THEN NoRow ELSE jobs[j]]

(* A failure is ignored. *)
DeleteJobs(r) ==
  /\ req[r].pc = "delete"
  /\ \/ jobs' = WithoutPending /\ NoFault /\ UNCHANGED late
     \/ Fault /\ late' = late \cup {j \in Names : jobs[j] = "pending"} /\ UNCHANGED jobs
  /\ Goes(r, "remove", Template, NoRow)
  /\ UNCHANGED <<template, rules, runs, serial, wanted, back, cut>>

DeleteRecurringInvoice(r) ==
  /\ req[r].pc = "remove"
  /\ template' = NoRow
  /\ Want(Template, NoRow)
  /\ Ends(r)
  /\ UNCHANGED <<jobs, rules, runs, serial, faults, late, back, cut>>

(* A job in any state may be retried or cancelled *)
GetJob(r, j) ==
  /\ Starts(r)
  /\ jobs[j] # NoRow
  /\ Goes(r, "retry", j, NoRow)
  /\ UNCHANGED <<template, jobs, rules, runs, serial, faults, wanted, late, back, cut>>

RetryDeadLetter(r) ==
  /\ req[r].pc = "retry"
  /\ jobs' = [jobs EXCEPT ![req[r].of] = "pending"]
  /\ Noted(req[r].of)
  /\ Ends(r)
  /\ UNCHANGED <<template, rules, runs, serial, faults, wanted, back, cut>>

(* MoveToDeadLetter updates by the identifier alone *)
CancelJob(r, j) ==
  /\ Starts(r)
  /\ jobs[j] # NoRow
  /\ jobs' = [jobs EXCEPT ![j] = "dead_letter"]
  /\ Ends(r)
  /\ UNCHANGED <<template, rules, runs, serial, faults, wanted, late, back, cut>>

-----------------------------------------------------------------------------
(* Rules *)

Creates(r, u) ==
  /\ Starts(r)
  /\ rules[u] = NoRow
  /\ rules' = [rules EXCEPT ![u] = TRUE]
  /\ Want(u, TRUE)
  /\ Ends(r)
  /\ UNCHANGED <<template, jobs, runs, serial, faults, late, back, cut>>

(* A request names whether the rule is to be active, or leaves it *)
Finds(r, u) ==
  /\ Starts(r)
  /\ rules[u] # NoRow
  /\ \E active \in BOOLEAN : Goes(r, "rule", u, active)
  /\ UNCHANGED <<template, jobs, rules, runs, serial, faults, wanted, late, back, cut>>

Saves(r, u) ==
  /\ req[r].pc = "rule" /\ req[r].of = u
  /\ rules' = [rules EXCEPT ![u] = req[r].row]
  /\ Want(u, req[r].row)
  /\ Ends(r)
  /\ UNCHANGED <<template, jobs, runs, serial, faults, late, back, cut>>

Deletes(r, u) ==
  /\ Starts(r)
  /\ rules[u] # NoRow
  /\ rules' = [rules EXCEPT ![u] = NoRow]
  /\ Want(u, NoRow)
  /\ Ends(r)
  /\ UNCHANGED <<template, jobs, runs, serial, faults, late, back, cut>>

CreateReminderRule(r) == Creates(r, "reminder")
UpdateReminderRule(r) == Finds(r, "reminder") \/ Saves(r, "reminder")
DeleteReminderRule(r) == Deletes(r, "reminder")

CreateWorkflow(r) == Creates(r, "workflow")
UpdateWorkflow(r) == Finds(r, "workflow") \/ Saves(r, "workflow")
DeleteWorkflow(r) == Deletes(r, "workflow")

CreateAutomation(r) == Creates(r, "automation")
UpdateAutomation(r) == Finds(r, "automation") \/ Saves(r, "automation")
DeleteAutomation(r) == Deletes(r, "automation")

(* A run logs itself as running and then, having done nothing, completed *)
RunAutomation(r) ==
  /\ Starts(r)
  /\ rules["automation"] # NoRow
  /\ runs' = [runs EXCEPT ![r] = "running"]
  /\ Goes(r, "run", "automation", NoRow)
  /\ UNCHANGED <<template, jobs, rules, serial, faults, wanted, late, back, cut>>

CompletesRun(r) ==
  /\ req[r].pc = "run"
  /\ runs' = [runs EXCEPT ![r] = "completed"]
  /\ Ends(r)
  /\ UNCHANGED <<template, jobs, rules, serial, faults, wanted, late, back, cut>>

(* Requests that have written something and are not done *)
Halfway == {r \in Requests : req[r].pc \in {"schedule", "remove", "run"}}

(* A statement fails: only of the job of a new template, and of a run's     *)
(* completion, is nobody told.                                             *)
Fails(r) ==
  /\ req[r] \notin {NotYet, Done} /\ req[r].pc # "delete"
  /\ Fault
  /\ cut' = cut \cup (Halfway \cap {r})
  /\ Ends(r)
  /\ UNCHANGED <<template, jobs, rules, runs, serial, wanted, late, back>>

Crash ==
  /\ Fault
  /\ cut' = cut \cup Halfway
  /\ req' = [r \in Requests |-> IF req[r] = NotYet THEN NotYet ELSE Done]
  /\ UNCHANGED <<template, jobs, rules, runs, serial, wanted, late, back>>

Next ==
  \/ \E r \in Requests :
       \/ CreateRecurringInvoice(r) \/ ScheduleJob(r)
       \/ GetRecurringInvoice(r) \/ UpdateRecurringInvoice(r) \/ PauseRecurringInvoice(r)
       \/ ResumeRecurringInvoice(r) \/ DeleteJobs(r) \/ DeleteRecurringInvoice(r)
       \/ \E j \in Names : GetJob(r, j) \/ CancelJob(r, j)
       \/ RetryDeadLetter(r)
       \/ CreateReminderRule(r) \/ UpdateReminderRule(r) \/ DeleteReminderRule(r)
       \/ CreateWorkflow(r) \/ UpdateWorkflow(r) \/ DeleteWorkflow(r)
       \/ CreateAutomation(r) \/ UpdateAutomation(r) \/ DeleteAutomation(r)
       \/ RunAutomation(r) \/ CompletesRun(r) \/ Fails(r)
  \/ Crash

Spec == Init /\ [][Next]_vars

-----------------------------------------------------------------------------
Pending == {j \in Names : jobs[j] = "pending"}

(* A job is pending without a template only when it was stored after the    *)
(* template's deletion had begun, scheduled late or retried, or when its    *)
(* own deletion failed.  A template has a job, unless it was stored again   *)
(* after its deletion, or a crash or a failed statement left a request half *)
(* done; and the same alone leaves a run's log running.  And when requests  *)
(* come one at a time every row is as the last write asked.                 *)
JobsMatchTemplate ==
  /\ template = NoRow => Pending \subseteq late
  /\ template # NoRow /\ Quiet => back \/ cut # {} \/ \E j \in Names : jobs[j] # NoRow
  /\ \A r \in Requests : runs[r] = "running" /\ req[r] = Done => r \in cut
  /\ serial =>
       /\ template = wanted[Template]
       /\ \A u \in Rules : rules[u] = wanted[u]
=============================================================================
