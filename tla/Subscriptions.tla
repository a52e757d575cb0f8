----------------------------- MODULE Subscriptions -----------------------------
(***************************************************************************)
(* A tenant's subscription and its usage counter, and who writes them.     *)
(* The tenant's requests read the subscription, change it and save the     *)
(* whole row; every replica's billing worker renews the subscriptions that *)
(* are due, page by page, in the same way.  Creating an invoice asks twice *)
(* whether the plan allows it (the middleware and the handler), creates    *)
(* it, reads the counter and saves it; cancelling one counts it back.      *)
(* Other code makes and removes invoices and does not count them.          *)
(* Clients are counted by the same code, and never counted back.           *)
(***************************************************************************)
EXTENDS Integers, FiniteSets

CONSTANTS Tenants,
          Requests,    \* requests, each of any kind
          Workers,     \* billing workers, one in each replica
          Plans,
          Limit,       \* a plan's limit on invoices; none if not positive
          PageSize,    \* workerPageSize
          MaxCrashes,  \* bound on crashes
          NoRow        \* no such row

ASSUME FinitenessAssumption == IsFiniteSet(Tenants) /\ IsFiniteSet(Requests)
ASSUME PlansAssumption      == Plans # {}  \* SeedDefaultPlans
ASSUME LimitAssumption      == Limit \in [Plans -> Int]
ASSUME PageSizeAssumption   == PageSize \in Nat \ {0}
ASSUME CrashesAssumption    == MaxCrashes \in Nat

VARIABLES
  sub,      \* sub[t]: the row of t's subscription
  ended,    \* tenants whose current_period_end is past; nothing moves it
  usage,    \* usage[t]: InvoicesUsed, or NoRow
  made,     \* made[t]: t's invoices that are not cancelled or deleted
  aside,    \* aside[t]: how many of them, net, the counter never heard of
  req,      \* req[r]: where request r is and what it has read
  worker,   \* worker[w]: the job, the page and what was read
  serial,   \* whether requests come one at a time: the users decide
  crashes   \* how often a replica has crashed

vars == <<sub, ended, usage, made, aside, req, worker, serial, crashes>>

Row == [status: {"trialing", "active", "past_due", "canceled"},
        plan: Plans, retries: Nat]

ASSUME NoRowAssumption == NoRow \notin Row \cup Int \cup Tenants \cup Plans

At(pc, t, arg, read) == [pc |-> pc, tenant |-> t, arg |-> arg, read |-> read]
NotYet == At("new", NoRow, 0, NoRow)
Done   == At("done", NoRow, 0, NoRow)

Resting == [job |-> "none", offset |-> 0, page |-> {}, tenant |-> NoRow, read |-> NoRow]

Init ==
  /\ sub = [t \in Tenants |-> NoRow]
  /\ ended = {}
  /\ usage = [t \in Tenants |-> NoRow]
  /\ made = [t \in Tenants |-> 0]
  /\ aside = [t \in Tenants |-> 0]
  /\ req = [r \in Requests |-> NotYet]
  /\ worker = [w \in Workers |-> Resting]
  /\ serial \in BOOLEAN
  /\ crashes = 0

Waiting(r) == req[r] \in {NotYet, Done}
MayCome(r) == req[r] = NotYet /\ (serial => \A q \in Requests : Waiting(q))

Exists(t) == sub[t] # NoRow
Is(t, statuses) == Exists(t) /\ sub[t].status \in statuses

(* The index on tenant_id refuses a second row *)
Create(t, status, p) ==
  /\ ~Exists(t)
  /\ sub' = [sub EXCEPT ![t] = [status |-> status, plan |-> p, retries |-> 0]]
  /\ usage' = [usage EXCEPT ![t] = IF @ = NoRow THEN 0 ELSE @]

-----------------------------------------------------------------------------
(* The subscription *)

CreateSubscription(r, t) ==
  /\ MayCome(r)
  /\ \E p \in Plans : Create(t, "active", p)
  /\ req' = [req EXCEPT ![r] = Done]
  /\ UNCHANGED <<ended, made, aside, worker, serial, crashes>>

(* CreateSubscriptionWithTrial, for a payment, and for every tenant         *)
(* without a subscription when the server starts                           *)
CreateSubscriptionWithTrial(t) ==
  /\ \E p \in Plans : Create(t, "trialing", p)
  /\ UNCHANGED <<ended, made, aside, req, worker, serial, crashes>>

PeriodEnds(t) ==
  /\ Exists(t)
  /\ t \notin ended
  /\ ended' = ended \cup {t}
  /\ UNCHANGED <<sub, usage, made, aside, req, worker, serial, crashes>>

(* What the requests make of the row they read.                            *)
Cancelled(row) == [row EXCEPT !.status = "canceled"]
Reactivated(row)       == [row EXCEPT !.status = "active", !.retries = 0]

Changing == {"cancel", "reactivate", "plan", "method"}

(* CancelSubscription, ReactivateSubscription, UpgradePlan and             *)
(* UpdateSubscriptionPaymentMethod all read first ...                      *)
GetSubscription(r, t) ==
  /\ MayCome(r)
  /\ Exists(t)
  /\ \E pc \in Changing :
       req' = [req EXCEPT ![r] = At(pc, t, 0, sub[t])]
  /\ UNCHANGED <<sub, ended, usage, made, aside, worker, serial, crashes>>

(* ... and then save the whole row *)
Save(r, row) ==
  /\ sub' = [sub EXCEPT ![req[r].tenant] = row]
  /\ req' = [req EXCEPT ![r] = Done]
  /\ UNCHANGED <<ended, usage, made, aside, worker, serial, crashes>>

CancelSubscription(r) == req[r].pc = "cancel" /\ Save(r, Cancelled(req[r].read))

ReactivateSubscription(r) ==
  req[r].pc = "reactivate" /\ Save(r, Reactivated(req[r].read))

UpgradePlan(r) ==
  /\ req[r].pc = "plan"
  /\ \E p \in Plans : Save(r, [req[r].read EXCEPT !.plan = p])

(* The payment method is no part of the model: the row is saved as read *)
UpdatePaymentMethod(r) == req[r].pc = "method" /\ Save(r, req[r].read)

-----------------------------------------------------------------------------
(* Creating an invoice.  arg is the number of CheckLimits still to pass,   *)
(* later what is added to the counter.                                     *)

CreateInvoice(r, t) ==
  /\ MayCome(r)
  /\ req' = [req EXCEPT ![r] = At("check", t, 2, NoRow)]
  /\ UNCHANGED <<sub, ended, usage, made, aside, worker, serial, crashes>>

Allowed(t) == Is(t, {"active", "trialing"})

ChecksStatus(r) ==
  /\ req[r].pc = "check"
  /\ LET t == req[r].tenant IN
       req' = [req EXCEPT ![r] = IF Allowed(t) THEN At("limit", t, @.arg, sub[t].plan)
                                 ELSE Done]
  /\ UNCHANGED <<sub, ended, usage, made, aside, worker, serial, crashes>>

(* GetUsage creates the row that is missing *)
UsedBy(t) == IF usage[t] = NoRow THEN 0 ELSE usage[t]
GetUsage(t) == usage' = [usage EXCEPT ![t] = UsedBy(t)]

(* Mutated form: the limit may be passed by one *)
ExceedsLate(used, p) == Limit[p] > 0 /\ used > Limit[p]
Exceeds(used, p)     == Limit[p] > 0 /\ used + 1 > Limit[p]

ChecksLimit(r) ==
  /\ req[r].pc = "limit"
  /\ GetUsage(req[r].tenant)
  /\ req' = [req EXCEPT ![r] =
       IF Exceeds(UsedBy(@.tenant), @.read) THEN Done
       ELSE At(IF @.arg = 2 THEN "check" ELSE "create", @.tenant, @.arg - 1, NoRow)]
  /\ UNCHANGED <<sub, ended, made, aside, worker, serial, crashes>>

(* If the plan or the counter cannot be read, the middleware lets the      *)
(* request pass and the handler refuses it                                 *)
LimitUnknown(r) ==
  /\ req[r].pc = "limit"
  /\ req' = [req EXCEPT ![r] = IF @.arg = 2 THEN At("check", @.tenant, 1, NoRow) ELSE Done]
  /\ UNCHANGED <<sub, ended, usage, made, aside, worker, serial, crashes>>

Creates(r) ==
  /\ req[r].pc = "create"
  /\ \/ /\ made' = [made EXCEPT ![req[r].tenant] = @ + 1]
        /\ req' = [req EXCEPT ![r] = At("count", @.tenant, 1, NoRow)]
     \/ /\ req' = [req EXCEPT ![r] = Done]  \* invalid, or its number is taken
        /\ UNCHANGED made
  /\ UNCHANGED <<sub, ended, usage, aside, worker, serial, crashes>>

(* CancelInvoice of the handler, without a look at the subscription.  Over *)
(* Postgres two requests may cancel one invoice, and both count it back.   *)
CancelInvoice(r, t) ==
  /\ MayCome(r)
  /\ \/ /\ made[t] > 0
        /\ made' = [made EXCEPT ![t] = @ - 1]
        /\ UNCHANGED aside
     \/ /\ ~serial
        /\ aside' = [aside EXCEPT ![t] = @ + 1]
        /\ UNCHANGED made
  /\ req' = [req EXCEPT ![r] = At("count", t, -1, NoRow)]
  /\ UNCHANGED <<sub, ended, usage, worker, serial, crashes>>

(* What makes an invoice with no look at the limit and no counting: the    *)
(* duplicate route, notes, recurring invoices, onboarding, a stale save    *)
(* over a cancellation; and what removes one: DeleteInvoice, a PUT that    *)
(* cancels.  The jobs among them come whenever they like.                  *)
PassesCounter(r, t) ==
  /\ req[r] = NotYet
  /\ \E n \in {1, -1} :
       /\ made[t] + n \in Nat
       /\ made' = [made EXCEPT ![t] = @ + n]
       /\ aside' = [aside EXCEPT ![t] = @ + n]
  /\ req' = [req EXCEPT ![r] = Done]
  /\ UNCHANGED <<sub, ended, usage, worker, serial, crashes>>

(* IncrementUsage.  Mutated form: a cancelled invoice is counted, too. *)
CountedUp(used, n) == used + 1
Counted(used, n)   == used + n

CountReads(r) ==
  /\ req[r].pc = "count"
  /\ GetUsage(req[r].tenant)
  /\ req' = [req EXCEPT ![r] = At("save", @.tenant, @.arg, UsedBy(@.tenant))]
  /\ UNCHANGED <<sub, ended, made, aside, worker, serial, crashes>>

CountSaves(r) ==
  /\ req[r].pc = "save"
  /\ usage' = [usage EXCEPT ![req[r].tenant] = Counted(req[r].read, req[r].arg)]
  /\ req' = [req EXCEPT ![r] = Done]
  /\ UNCHANGED <<sub, ended, made, aside, worker, serial, crashes>>

(* The handlers ignore its errors: then the counter stays as it was *)
CountFails(r) ==
  /\ req[r].pc \in {"count", "save"}
  /\ aside' = [aside EXCEPT ![req[r].tenant] = @ + req[r].arg]
  /\ req' = [req EXCEPT ![r] = Done]
  /\ UNCHANGED <<sub, ended, usage, made, worker, serial, crashes>>

-----------------------------------------------------------------------------
(* The billing worker.  ProcessTrialExpiry and CancelExpiredSubscriptions   *)
(* ask for columns the table lacks, so they end at once; what is left are  *)
(* the renewals and the retries.                                           *)

Due == {t \in Tenants : Is(t, {"active"}) /\ t \in ended}

Retriable == {t \in Tenants : Is(t, {"past_due"}) /\ sub[t].retries \in 1..2}

Matching(job) == IF job = "renewals" THEN Due ELSE Retriable

RunAllJobs(w) ==
  /\ worker[w] = Resting
  /\ worker' = [worker EXCEPT ![w].job = "renewals"]
  /\ UNCHANGED <<sub, ended, usage, made, aside, req, serial, crashes>>

(* The next page, by offset, of rows in no stated order *)
Lists(w) ==
  /\ worker[w].job # "none"
  /\ worker[w].page = {}
  /\ LET found == Matching(worker[w].job)
         left  == Cardinality(found) - worker[w].offset
         size  == IF left < PageSize THEN left ELSE PageSize
     IN IF left <= 0
        THEN worker' = [worker EXCEPT ![w] =
               IF @.job = "renewals" THEN [Resting EXCEPT !.job = "retries"]
               ELSE Resting]
        ELSE \E page \in SUBSET found :
               /\ Cardinality(page) = size
               /\ worker' = [worker EXCEPT ![w].page = page,
                                           ![w].offset = @ + size]
  /\ UNCHANGED <<sub, ended, usage, made, aside, req, serial, crashes>>

(* Mutated form: whatever its status is *)
RenewableAny(t) == Exists(t)
Renewable(t)    == Is(t, {"active", "trialing", "past_due"})

(* ProcessRenewalPayment reads the subscription, if it is still in use ... *)
RenewalReads(w) ==
  /\ worker[w].tenant = NoRow
  /\ \E t \in worker[w].page :
       worker' = [worker EXCEPT ![w] =
         IF Renewable(t)
         THEN [@ EXCEPT !.tenant = t, !.read = sub[t]]
         ELSE [@ EXCEPT !.page = worker[w].page \ {t}]]
  /\ UNCHANGED <<sub, ended, usage, made, aside, req, serial, crashes>>

(* ... and saves one failure more: nothing is ever charged.                *)
(* Mutated form: it is never suspended.                                    *)
RenewedUnsuspended(row) == [row EXCEPT !.retries = IF @ < 2 THEN @ + 1 ELSE @]
Renewed(row) ==
  [row EXCEPT !.retries = @ + 1, !.status = IF row.retries + 1 >= 3 THEN "past_due" ELSE @]

RenewalSaves(w) ==
  LET t == worker[w].tenant IN
  /\ t # NoRow
  /\ sub' = [sub EXCEPT ![t] = Renewed(worker[w].read)]
  /\ worker' = [worker EXCEPT ![w].page = @ \ {t}, ![w].tenant = NoRow,
                              ![w].read = NoRow]
  /\ UNCHANGED <<ended, usage, made, aside, req, serial, crashes>>

-----------------------------------------------------------------------------
(* A replica stops with its worker and the requests it serves *)
Crash(w) ==
  /\ crashes < MaxCrashes
  /\ crashes' = crashes + 1
  /\ worker' = [worker EXCEPT ![w] = Resting]
  /\ \E dropped \in SUBSET Requests :
       /\ \A r \in dropped : ~Waiting(r)
       /\ req' = [r \in Requests |-> IF r \in dropped THEN Done ELSE req[r]]
  /\ UNCHANGED <<sub, ended, usage, made, aside, serial>>

Worker(w) == RunAllJobs(w) \/ Lists(w) \/ RenewalReads(w) \/ RenewalSaves(w)

ChangesSubscription(r) ==
  \/ \E t \in Tenants : CreateSubscription(r, t) \/ GetSubscription(r, t)
  \/ CancelSubscription(r) \/ ReactivateSubscription(r)
  \/ UpgradePlan(r) \/ UpdatePaymentMethod(r)

CountsInvoices(r) ==
  \/ \E t \in Tenants : CreateInvoice(r, t) \/ CancelInvoice(r, t)
  \/ ChecksStatus(r) \/ ChecksLimit(r) \/ LimitUnknown(r) \/ Creates(r)
  \/ CountReads(r) \/ CountSaves(r) \/ CountFails(r)

Next ==
  \/ \E t \in Tenants : CreateSubscriptionWithTrial(t) \/ PeriodEnds(t)
  \/ \E r \in Requests : \/ ChangesSubscription(r) \/ CountsInvoices(r)
                          \/ \E t \in Tenants : PassesCounter(r, t)
  \/ \E w \in Workers : Worker(w) \/ Crash(w)

Spec == Init /\ [][Next]_vars

(* The ticker runs the jobs for ever, to their end *)
FairSpec == Spec /\ \A w \in Workers : WF_vars(Worker(w))

-----------------------------------------------------------------------------
(* Types; a subscription takes no status but these four.  *)
TypeOK ==
  /\ sub \in [Tenants -> Row \cup {NoRow}]
  /\ ended \subseteq {t \in Tenants : Exists(t)}
  /\ usage \in [Tenants -> Int \cup {NoRow}]
  /\ made \in [Tenants -> Nat]
  /\ aside \in [Tenants -> Int]
  /\ \A r \in Requests :
       /\ req[r].pc \in Changing \cup
            {"new", "done", "check", "limit", "create", "count", "save"}
       /\ req[r].tenant \in Tenants \cup {NoRow}
       /\ req[r].arg \in -1..2
       /\ req[r].read \in CASE req[r].pc \in Changing -> Row
                              [] req[r].pc = "limit"   -> Plans
                              [] req[r].pc = "save"    -> Int
                              [] OTHER                 -> {NoRow}
  /\ \A w \in Workers :
       /\ worker[w].job \in {"none", "renewals", "retries"}
       /\ worker[w].page \subseteq Tenants
       /\ worker[w].offset \in Nat
       /\ worker[w].tenant \in worker[w].page \cup {NoRow}
       /\ worker[w].read \in Row \cup {NoRow}
  /\ serial \in BOOLEAN
  /\ crashes \in 0..MaxCrashes

(* A cancellation is undone by ReactivateSubscription, or by a request or  *)
(* a renewal that read the subscription before it was cancelled.           *)
Undoes(t) ==
  \/ \E r \in Requests : /\ req[r].tenant = t /\ req'[r] = Done
                         /\ \/ req[r].pc = "reactivate"
                            \/ req[r].read.status # "canceled"
  \/ \E w \in Workers  : /\ worker[w].tenant = t /\ worker'[w].tenant = NoRow
                         /\ worker[w].read.status # "canceled"

CancellationsStand ==
  [][\A t \in Tenants : Is(t, {"canceled"}) /\ ~Is(t, {"canceled"})' => Undoes(t)]_vars

(* Invoices made or cancelled but not yet counted *)
Uncounted(t) ==
  LET Counting(n) == {r \in Requests : /\ req[r].pc \in {"count", "save"}
                                       /\ req[r].tenant = t /\ req[r].arg = n}
  IN Cardinality(Counting(1)) - Cardinality(Counting(-1))

Drift(t) == made[t] - UsedBy(t) - Uncounted(t)

(* Done without the counter: an invoice made or removed by who does not    *)
(* count, or cancelled twice, or an increment that failed                  *)
Uncounting(r, t) ==
  \/ req[r] = NotYet /\ req'[r] # NotYet /\ aside'[t] # aside[t]
  \/ req[r].pc \in {"count", "save"} /\ req[r].tenant = t /\ req'[r] = Done /\ usage' = usage

(* The counter and the invoices drift apart only when a replica dies, when *)
(* an increment saves over another one or fails, and by the code that does *)
(* not count what it makes or removes.                                     *)
DriftHasACause ==
  [][\A t \in Tenants : Drift(t)' # Drift(t) =>
        \/ crashes' # crashes
        \/ \E r \in Requests : \/ Uncounting(r, t)
                                \/ /\ req[r].pc = "save" /\ req[r].tenant = t
                                   /\ req[r].read # UsedBy(t) /\ req'[r] = Done]_vars

(* Of requests that come one at a time none makes an invoice more than    *)
(* the plan allows, though the limit is checked long before the invoice is *)
(* counted and a check that fails may let the request pass; a replica that *)
(* dies in between is what it takes.  What the counter never heard of does *)
(* not count against the limit.                                            *)
LimitHolds ==
  serial /\ crashes = 0 =>
    \A t \in Tenants : \E p \in Plans : Limit[p] <= 0 \/ made[t] - aside[t] <= Limit[p]

(* A subscription whose period is over does not stay active: no renewal is *)
(* ever paid, and the pages the worker takes by offset from a set it is    *)
(* changing do not hide a subscription for ever.                           *)
DueIsSuspended == \A t \in Tenants : t \in Due ~> ~Is(t, {"active"})
=============================================================================
