-------------------------- MODULE SubscriptionsProofs --------------------------
(***************************************************************************)
(* What holds of subscriptions and of the invoice counter for any number   *)
(* of tenants, requests, workers and crashes, any plans and page size; and *)
(* of registrations and of a tenant's settings, as MCSubscriptions runs    *)
(* them beside the others.                                                 *)
(*                                                                         *)
(* The types need to know what a request has read in each of its states.   *)
(* The counter is then followed step by step: Weight is what a request has *)
(* yet to count, and each step leaves made - aside - used - weights as it  *)
(* was, unless it saves over another increment.  Of requests that come one *)
(* at a time none does, so the counter is exact, but for what it never     *)
(* heard of, whenever the limit is checked.                                *)
(*                                                                         *)
(* A registration that finds its address taken knew of no user that has    *)
(* it, or wrote it in capitals (Registering).  What a saver of settings    *)
(* holds differs from the stored document as its round says, or as the     *)
(* merge loses it, unless that was updated since (Merging, Updating).      *)
(*                                                                         *)
(* A checkout's payments, and the deliveries about to record one, are      *)
(* counted against its slips: there is one place more while a mark, or a   *)
(* delivery that will set it, guards it (WithinSlips).  A step of one      *)
(* delivery takes up no more than it frees (Fits).                         *)
(***************************************************************************)
EXTENDS MCSubscriptions, Sequences, FiniteSetTheorems, FunctionTheorems, SequenceTheorems,
        WellFoundedInduction, TLAPS

USE FinitenessAssumption, PlansAssumption, LimitAssumption, PageSizeAssumption,
    CrashesAssumption, NoRowAssumption

Pcs == Changing \cup
         {"new", "done", "check", "limit", "create", "count", "save"}

(* A request, with what it has read by then *)
Asking ==
  {x \in [pc: Pcs, tenant: Tenants \cup {NoRow}, arg: -1..2,
          read: Row \cup Plans \cup Int \cup {NoRow}] :
     /\ x.pc = "new"  => x = NotYet
     /\ x.pc = "done" => x = Done
     /\ x.pc \notin {"new", "done"} => x.tenant \in Tenants
     /\ x.pc \in Changing => x.read \in Row
     /\ x.pc \in {"check", "limit"} => x.arg \in {1, 2}
     /\ x.pc = "limit" => x.read \in Plans
     /\ x.pc \in {"count", "save"} => x.arg \in {-1, 1}
     /\ x.pc = "save" => x.read \in Int
     /\ x.pc \in {"check", "create", "count"} => x.read = NoRow}

(* A worker, which holds no row of a cancelled subscription *)
Working ==
  {x \in [job: {"none", "renewals", "retries"}, offset: Nat,
          page: SUBSET Tenants, tenant: Tenants \cup {NoRow},
          read: Row \cup {NoRow}] :
     /\ x.tenant # NoRow => /\ x.tenant \in x.page
                            /\ x.read \in Row /\ x.read.status # "canceled"}

IInv ==
  /\ sub \in [Tenants -> Row \cup {NoRow}]
  /\ ended \subseteq {t \in Tenants : Exists(t)}
  /\ usage \in [Tenants -> Int \cup {NoRow}]
  /\ made \in [Tenants -> Nat]
  /\ aside \in [Tenants -> Int]
  /\ req \in [Requests -> Asking]
  /\ worker \in [Workers -> Working]
  /\ serial \in BOOLEAN
  /\ crashes \in 0..MaxCrashes

(* The states a request may be in, each with what it has read. *)
LEMMA AskingLemma ==
  /\ NotYet \in Asking /\ Done \in Asking
  /\ \A t \in Tenants :
       /\ \A pc \in Changing, saved \in Row : At(pc, t, 0, saved) \in Asking
       /\ \A n \in {1, 2} : At("check", t, n, NoRow) \in Asking
       /\ \A n \in {1, 2}, p \in Plans : At("limit", t, n, p) \in Asking
       /\ At("create", t, 0, NoRow) \in Asking
       /\ \A n \in {-1, 1} : At("count", t, n, NoRow) \in Asking
       /\ \A n \in {-1, 1}, used \in Int : At("save", t, n, used) \in Asking
BY DEF Asking, At, NotYet, Done, Pcs, Changing

(* What a request was when it takes a step of one kind. *)
LEMMA AskedLemma ==
  ASSUME IInv, NEW r \in Requests
  PROVE  /\ req[r] \in Asking
         /\ req[r].pc \notin {"new", "done"} => req[r].tenant \in Tenants
BY DEF IInv, Asking, At

LEMMA UsedType ==
  ASSUME IInv, NEW t \in Tenants
  PROVE  UsedBy(t) \in Int
BY DEF IInv, UsedBy

-----------------------------------------------------------------------------
(* A subscription that is created is a row, and counted from zero. *)
LEMMA CreateType ==
  ASSUME IInv, NEW t \in Tenants, NEW status \in {"active", "trialing"},
         NEW p \in Plans, Create(t, status, p)
  PROVE  /\ sub' \in [Tenants -> Row \cup {NoRow}]
         /\ \A q \in Tenants : Exists(q) => sub'[q] = sub[q]
         /\ \A q \in Tenants : UsedBy(q)' = UsedBy(q)
         /\ usage' \in [Tenants -> Int \cup {NoRow}]
<1>1. [status |-> status, plan |-> p, retries |-> 0] \in Row
  BY DEF Row
<1> QED BY <1>1 DEF Create, IInv, Exists, UsedBy

(* Saving a row. *)
LEMMA SaveType ==
  ASSUME IInv, NEW r \in Requests, req[r].pc \in Changing, NEW saved \in Row,
         Save(r, saved)
  PROVE  IInv'
<1>1. req[r].tenant \in Tenants
  BY AskedLemma DEF Changing
<1>2. sub' \in [Tenants -> Row \cup {NoRow}]
  BY <1>1 DEF Save, IInv
<1>3. \A t \in Tenants : Exists(t) => Exists(t)'
  BY <1>1 DEF Save, IInv, Exists
<1>4. req' \in [Requests -> Asking]
  BY AskingLemma DEF Save, IInv
<1> QED BY <1>2, <1>3, <1>4 DEF Save, IInv

(* The requests about the subscription keep the types. *)
LEMMA ChangesType ==
  ASSUME IInv, NEW r \in Requests, ChangesSubscription(r)
  PROVE  IInv'
<1>0. req[r] \in Asking
  BY AskedLemma
<1>1. ASSUME NEW t \in Tenants, CreateSubscription(r, t) PROVE IInv'
  <2>1. PICK p \in Plans : Create(t, "active", p)
    BY <1>1 DEF CreateSubscription
  <2>2. req' \in [Requests -> Asking]
    BY <1>1, AskingLemma DEF CreateSubscription, IInv
  <2>3. ended' \subseteq {q \in Tenants : Exists(q)}'
    BY <1>1, <2>1, CreateType DEF CreateSubscription, IInv, Exists
  <2> QED BY <1>1, <2>1, <2>2, <2>3, CreateType DEF CreateSubscription, IInv
<1>2. ASSUME NEW t \in Tenants, GetSubscription(r, t) PROVE IInv'
  <2>1. sub[t] \in Row
    BY <1>2 DEF GetSubscription, Exists, IInv
  <2>2. req' \in [Requests -> Asking]
    BY <1>2, <2>1, AskingLemma DEF GetSubscription, IInv
  <2> QED BY <1>2, <2>2 DEF GetSubscription, IInv, Exists
<1>3. CASE CancelSubscription(r)
  <2>1. req[r].pc \in Changing /\ Cancelled(req[r].read) \in Row
    BY <1>0, <1>3 DEF CancelSubscription, Changing, Cancelled, Asking, Row
  <2> QED BY <1>3, <2>1, SaveType DEF CancelSubscription
<1>4. CASE ReactivateSubscription(r)
  <2>1. req[r].pc \in Changing /\ Reactivated(req[r].read) \in Row
    BY <1>0, <1>4 DEF ReactivateSubscription, Changing, Reactivated, Asking, Row
  <2> QED BY <1>4, <2>1, SaveType DEF ReactivateSubscription
<1>5. CASE UpgradePlan(r)
  <2>1. PICK p \in Plans : Save(r, [req[r].read EXCEPT !.plan = p])
    BY <1>5 DEF UpgradePlan
  <2>2. req[r].pc \in Changing /\ [req[r].read EXCEPT !.plan = p] \in Row
    BY <1>0, <1>5 DEF UpgradePlan, Changing, Asking, Row
  <2> QED BY <2>1, <2>2, SaveType
<1>6. CASE UpdatePaymentMethod(r)
  <2>1. req[r].pc \in Changing /\ req[r].read \in Row
    BY <1>0, <1>6 DEF UpdatePaymentMethod, Changing, Asking
  <2> QED BY <1>6, <2>1, SaveType DEF UpdatePaymentMethod
<1> QED BY <1>1, <1>2, <1>3, <1>4, <1>5, <1>6 DEF ChangesSubscription

(* So do those about the invoices. *)
LEMMA CountsType ==
  ASSUME IInv, NEW r \in Requests, CountsInvoices(r)
  PROVE  IInv'
<1> DEFINE x == req[r]
           t == x.tenant
<1>0. x \in Asking
  BY AskedLemma
<1>u. \A q \in Tenants : UsedBy(q) \in Int
  BY UsedType
<1>g. ASSUME t \in Tenants, GetUsage(t)
      PROVE  usage' \in [Tenants -> Int \cup {NoRow}]
  BY <1>g, <1>u DEF GetUsage, IInv
<1>1. ASSUME NEW q \in Tenants, CreateInvoice(r, q) PROVE IInv'
  <2>1. req' \in [Requests -> Asking]
    BY <1>1, AskingLemma DEF CreateInvoice, IInv
  <2> QED BY <1>1, <2>1 DEF CreateInvoice, IInv, Exists
<1>2. ASSUME NEW q \in Tenants, CancelInvoice(r, q) PROVE IInv'
  <2>1. req' \in [Requests -> Asking]
    BY <1>2, AskingLemma DEF CancelInvoice, IInv
  <2>2. made' \in [Tenants -> Nat] /\ aside' \in [Tenants -> Int]
    BY <1>2 DEF CancelInvoice, IInv
  <2> QED BY <1>2, <2>1, <2>2 DEF CancelInvoice, IInv, Exists
<1>3. CASE ChecksStatus(r)
  <2>1. t \in Tenants /\ x.arg \in {1, 2}
    BY <1>0, <1>3 DEF ChecksStatus, Asking
  <2>2. Allowed(t) => sub[t].plan \in Plans
    BY <2>1 DEF Allowed, Is, Exists, IInv, Row
  <2>3. Allowed(t) => At("limit", t, x.arg, sub[t].plan) \in Asking
    BY <2>1, <2>2, AskingLemma
  <2>4. req' = [req EXCEPT ![r] =
                  IF Allowed(t) THEN At("limit", t, x.arg, sub[t].plan) ELSE Done]
    BY <1>3 DEF ChecksStatus
  <2>5. req' \in [Requests -> Asking]
    BY <2>3, <2>4, AskingLemma DEF IInv
  <2> QED BY <1>3, <2>5 DEF ChecksStatus, IInv, Exists
<1>4. CASE ChecksLimit(r)
  <2>1. t \in Tenants /\ x.arg \in {1, 2}
    BY <1>0, <1>4 DEF ChecksLimit, Asking
  <2>2. At(IF x.arg = 2 THEN "check" ELSE "create", t, x.arg - 1, NoRow) \in Asking
    BY <2>1, AskingLemma
  <2>3. req' \in [Requests -> Asking]
    BY <1>4, <2>2, AskingLemma DEF ChecksLimit, IInv
  <2> QED BY <1>4, <1>g, <2>1, <2>3 DEF ChecksLimit, IInv, Exists
<1>5. CASE Creates(r)
  <2>1. t \in Tenants
    BY <1>0, <1>5 DEF Creates, Asking
  <2>2. \/ req' = [req EXCEPT ![r] = At("count", t, 1, NoRow)]
        \/ req' = [req EXCEPT ![r] = Done]
    BY <1>5 DEF Creates, IInv
  <2>4. req' \in [Requests -> Asking]
    BY <2>1, <2>2, AskingLemma DEF IInv
  <2>5. made' \in [Tenants -> Nat]
    BY <1>5, <2>1 DEF Creates, IInv
  <2> QED BY <1>5, <2>4, <2>5 DEF Creates, IInv, Exists
<1>6. CASE CountReads(r)
  <2>1. t \in Tenants /\ x.arg \in {-1, 1} /\ UsedBy(t) \in Int
    BY <1>0, <1>6, <1>u DEF CountReads, Asking
  <2>2. req' = [req EXCEPT ![r] = At("save", t, x.arg, UsedBy(t))]
    BY <1>6 DEF CountReads, IInv
  <2>4. req' \in [Requests -> Asking]
    BY <2>1, <2>2, AskingLemma DEF IInv
  <2> QED BY <1>6, <1>g, <2>1, <2>4 DEF CountReads, IInv, Exists
<1>7. CASE CountSaves(r)
  <2>1. t \in Tenants /\ x.arg \in {-1, 1} /\ x.read \in Int
    BY <1>0, <1>7 DEF CountSaves, Asking
  <2>2. req' \in [Requests -> Asking]
    BY <1>7, AskingLemma DEF CountSaves, IInv
  <2>3. usage' \in [Tenants -> Int \cup {NoRow}]
    BY <1>7, <2>1 DEF CountSaves, Counted, IInv
  <2> QED BY <1>7, <2>2, <2>3 DEF CountSaves, IInv, Exists
<1>8. CASE LimitUnknown(r)
  <2>1. t \in Tenants
    BY <1>0, <1>8 DEF LimitUnknown, Asking
  <2>2. req' \in [Requests -> Asking]
    BY <1>8, <2>1, AskingLemma DEF LimitUnknown, IInv
  <2> QED BY <1>8, <2>2 DEF LimitUnknown, IInv, Exists
<1>9. CASE CountFails(r)
  <2>1. t \in Tenants /\ x.arg \in Int
    BY <1>0, <1>9 DEF CountFails, Asking
  <2>2. req' \in [Requests -> Asking]
    BY <1>9, AskingLemma DEF CountFails, IInv
  <2>3. aside' \in [Tenants -> Int]
    BY <1>9, <2>1 DEF CountFails, IInv
  <2> QED BY <1>9, <2>2, <2>3 DEF CountFails, IInv, Exists
<1> QED BY <1>1, <1>2, <1>3, <1>4, <1>5, <1>6, <1>7, <1>8, <1>9 DEF CountsInvoices

(* Who makes or removes an invoice without counting it keeps them, too. *)
LEMMA PassesType ==
  ASSUME IInv, NEW r \in Requests, NEW t \in Tenants, PassesCounter(r, t)
  PROVE  IInv'
<1>1. req' \in [Requests -> Asking]
  BY AskingLemma DEF PassesCounter, IInv
<1>2. PICK n \in {1, -1} : /\ made[t] + n \in Nat
                          /\ made' = [made EXCEPT ![t] = @ + n]
                          /\ aside' = [aside EXCEPT ![t] = @ + n]
  BY DEF PassesCounter
<1>3. made' \in [Tenants -> Nat] /\ aside' \in [Tenants -> Int]
  BY <1>2 DEF IInv
<1> QED BY <1>1, <1>3 DEF PassesCounter, IInv, Exists

(* What a worker does keeps them, and it never reads a cancelled row. *)
LEMMA WorkerType ==
  ASSUME IInv, NEW w \in Workers, Worker(w)
  PROVE  IInv'
<1> DEFINE x == worker[w]
<1>0. x \in Working
  BY DEF IInv
<1>i. Resting \in Working
  BY DEF Resting, Working
<1>1. CASE RunAllJobs(w)
  <2>1. [x EXCEPT !.job = "renewals"] \in Working
    BY <1>0, <1>i, <1>1 DEF RunAllJobs, Working
  <2>2. worker' \in [Workers -> Working]
    BY <1>1, <2>1 DEF RunAllJobs, IInv
  <2> QED BY <1>1, <2>2 DEF RunAllJobs, IInv, Exists
<1>2. CASE Lists(w)
  <2> DEFINE found == Matching(x.job)
             left  == Cardinality(found) - x.offset
             size  == IF left < PageSize THEN left ELSE PageSize
  <2>1. found \subseteq Tenants /\ Cardinality(found) \in Nat
    <3>1. found \subseteq Tenants
      BY DEF Matching, Due, Retriable
    <3> QED BY <3>1, FS_Subset, FS_CardinalityType
  <2>2. x.page = {} /\ x.tenant = NoRow
    BY <1>0, <1>2 DEF Lists, Working
  <2>3. CASE left <= 0
    <3>1. [Resting EXCEPT !.job = "retries"] \in Working
      BY DEF Resting, Working
    <3>2. worker' \in [Workers -> Working]
      BY <1>2, <1>i, <2>3, <3>1 DEF Lists, IInv
    <3> QED BY <1>2, <3>2 DEF Lists, IInv, Exists
  <2>4. CASE ~(left <= 0)
    <3>1. PICK page \in SUBSET found :
            worker' = [worker EXCEPT ![w] =
                         [x EXCEPT !.page = page, !.offset = x.offset + size]]
      BY <1>2, <2>4 DEF Lists, IInv
    <3>2. x.offset \in Nat
      BY <1>0 DEF Working
    <3>3. x.offset + size \in Nat
      BY <2>1, <2>4, <3>2
    <3> HIDE DEF size
    <3>4. [x EXCEPT !.page = page, !.offset = x.offset + size] \in Working
      BY <1>0, <2>1, <2>2, <3>3 DEF Working
    <3>5. worker' \in [Workers -> Working]
      BY <3>1, <3>4 DEF IInv
    <3> QED BY <1>2, <3>5 DEF Lists, IInv, Exists
  <2> QED BY <2>3, <2>4
<1>3. CASE RenewalReads(w)
  <2>1. PICK t \in x.page :
          worker' = [worker EXCEPT ![w] =
            IF Renewable(t) THEN [x EXCEPT !.tenant = t, !.read = sub[t]]
                            ELSE [x EXCEPT !.page = x.page \ {t}]]
    BY <1>3 DEF RenewalReads
  <2>2. t \in Tenants
    BY <1>0 DEF Working
  <2>3. CASE Renewable(t)
    <3>1. sub[t] \in Row /\ sub[t].status # "canceled"
      BY <2>2, <2>3 DEF Renewable, Is, Exists, IInv
    <3>2. [x EXCEPT !.tenant = t, !.read = sub[t]] \in Working
      BY <1>0, <2>2, <3>1 DEF Working
    <3>3. worker' \in [Workers -> Working]
      BY <2>1, <2>3, <3>2 DEF IInv
    <3> QED BY <1>3, <3>3 DEF RenewalReads, IInv, Exists
  <2>4. CASE ~Renewable(t)
    <3>1. x.tenant = NoRow
      BY <1>3 DEF RenewalReads
    <3>2. [x EXCEPT !.page = x.page \ {t}] \in Working
      BY <1>0, <3>1 DEF Working
    <3>3. worker' \in [Workers -> Working]
      BY <2>1, <2>4, <3>2 DEF IInv
    <3> QED BY <1>3, <3>3 DEF RenewalReads, IInv, Exists
  <2> QED BY <2>3, <2>4
<1>4. CASE RenewalSaves(w)
  <2>1. x.tenant \in Tenants /\ x.read \in Row
    BY <1>0, <1>4 DEF RenewalSaves, Working
  <2>2. Renewed(x.read) \in Row
    <3>1. x.read.retries + 1 \in Nat
      BY <2>1 DEF Row
    <3> QED BY <2>1, <3>1 DEF Renewed, Row
  <2>3. /\ sub' \in [Tenants -> Row \cup {NoRow}]
        /\ \A t \in Tenants : Exists(t) => Exists(t)'
    BY <1>4, <2>1, <2>2 DEF RenewalSaves, IInv, Exists
  <2>4. [x EXCEPT !.page = x.page \ {x.tenant}, !.tenant = NoRow,
                  !.read = NoRow] \in Working
    BY <1>0 DEF Working
  <2>5. worker' \in [Workers -> Working]
    BY <1>4, <2>4 DEF RenewalSaves, IInv
  <2> QED BY <1>4, <2>3, <2>5 DEF RenewalSaves, IInv
<1> QED BY <1>1, <1>2, <1>3, <1>4 DEF Worker

(* Types, what every request has read by then, and no renewal of a         *)
(* cancelled subscription under way.                                       *)
THEOREM TypeCorrect == Spec => [](IInv /\ TypeOK)
<1>1. Init => IInv
  <2>1. NotYet \in Asking /\ Resting \in Working
    BY AskingLemma DEF Resting, Working
  <2> QED BY <2>1 DEF Init, IInv
<1>2. IInv /\ [Next]_vars => IInv'
  <2> SUFFICES ASSUME IInv, [Next]_vars PROVE IInv'
    OBVIOUS
  <2>1. ASSUME NEW t \in Tenants, CreateSubscriptionWithTrial(t) PROVE IInv'
    <3>1. PICK p \in Plans : Create(t, "trialing", p)
      BY <2>1 DEF CreateSubscriptionWithTrial
    <3>2. ended' \subseteq {q \in Tenants : Exists(q)}'
      BY <2>1, <3>1, CreateType DEF CreateSubscriptionWithTrial, IInv, Exists
    <3> QED BY <2>1, <3>1, <3>2, CreateType DEF CreateSubscriptionWithTrial, IInv
  <2>2. ASSUME NEW t \in Tenants, PeriodEnds(t) PROVE IInv'
    BY <2>2 DEF PeriodEnds, IInv, Exists
  <2>3. ASSUME NEW r \in Requests, ChangesSubscription(r) \/ CountsInvoices(r)
        PROVE  IInv'
    BY <2>3, ChangesType, CountsType
  <2>7. ASSUME NEW r \in Requests, NEW t \in Tenants, PassesCounter(r, t) PROVE IInv'
    BY <2>7, PassesType
  <2>4. ASSUME NEW w \in Workers, Worker(w) PROVE IInv'
    BY <2>4, WorkerType
  <2>5. ASSUME NEW w \in Workers, Crash(w) PROVE IInv'
    <3>1. Resting \in Working
      BY DEF Resting, Working
    <3>2. worker' \in [Workers -> Working] /\ req' \in [Requests -> Asking]
      BY <2>5, <3>1, AskingLemma DEF Crash, IInv
    <3>3. crashes' \in 0..MaxCrashes
      BY <2>5 DEF Crash, IInv
    <3> QED BY <2>5, <3>2, <3>3 DEF Crash, IInv, Exists
  <2>6. CASE UNCHANGED vars
    BY <2>6 DEF vars, IInv, Exists
  <2> QED BY <2>1, <2>2, <2>3, <2>4, <2>5, <2>6, <2>7 DEF Next
<1>3. IInv => TypeOK
  <2> SUFFICES ASSUME IInv PROVE TypeOK
    OBVIOUS
  <2>1. ASSUME NEW r \in Requests
        PROVE  /\ req[r].pc \in Pcs
               /\ req[r].tenant \in Tenants \cup {NoRow}
               /\ req[r].arg \in -1..2
               /\ req[r].read \in CASE req[r].pc \in Changing -> Row
                                    [] req[r].pc = "limit"   -> Plans
                                    [] req[r].pc = "save"    -> Int
                                    [] OTHER                 -> {NoRow}
    <3>1. req[r] \in Asking
      BY AskedLemma
    <3>2. req[r].pc \in {"new", "done", "check", "create", "count"}
            => req[r].read = NoRow
      BY <3>1 DEF Asking, NotYet, Done, At
    <3> QED BY <3>1, <3>2 DEF Asking, Pcs, Changing
  <2>2. ASSUME NEW w \in Workers
        PROVE  /\ worker[w].job \in {"none", "renewals", "retries"}
               /\ worker[w].page \subseteq Tenants
               /\ worker[w].offset \in Nat
               /\ worker[w].tenant \in worker[w].page \cup {NoRow}
               /\ worker[w].read \in Row \cup {NoRow}
    BY DEF IInv, Working
  <2> QED BY <2>1, <2>2 DEF IInv, TypeOK, Pcs
<1> QED BY <1>1, <1>2, <1>3, PTL DEF Spec

(* A cancellation is undone only by ReactivateSubscription, or by who read *)
(* the subscription before it was cancelled.                               *)
THEOREM CancellationsAreKept == Spec => CancellationsStand
<1>1. ASSUME IInv, Next, NEW t \in Tenants, Is(t, {"canceled"}),
             ~Is(t, {"canceled"})'
      PROVE  Undoes(t)
  <2>1. sub[t] # NoRow /\ sub[t].status = "canceled" /\ sub'[t] # sub[t]
    BY <1>1 DEF Is, Exists
  <2>2. ASSUME NEW r \in Requests, NEW saved \in Row, Save(r, saved),
               req[r].pc \in Changing
        PROVE  /\ req[r].tenant = t /\ sub'[t] = saved /\ req'[r] = Done
               /\ saved.status # "canceled"
    <3>1. req[r].tenant \in Tenants
      BY <1>1, <2>2, AskedLemma DEF Changing
    <3> QED BY <1>1, <2>1, <2>2, <3>1 DEF Save, IInv, Is, Exists
  <2>3. ASSUME NEW r \in Requests, ChangesSubscription(r) PROVE Undoes(t)
    <3>0. req[r] \in Asking
      BY <1>1, AskedLemma
    <3>1. CASE CancelSubscription(r)
      <4>1. Cancelled(req[r].read) \in Row /\ req[r].pc \in Changing
            /\ Cancelled(req[r].read).status = "canceled"
        BY <3>0, <3>1 DEF CancelSubscription, Changing, Cancelled, Asking, Row
      <4> QED BY <2>2, <3>1, <4>1 DEF CancelSubscription
    <3>2. CASE ReactivateSubscription(r)
      <4>1. Reactivated(req[r].read) \in Row /\ req[r].pc \in Changing
        BY <3>0, <3>2 DEF ReactivateSubscription, Changing, Reactivated, Asking, Row
      <4> QED BY <2>2, <3>2, <4>1 DEF ReactivateSubscription, Undoes
    <3>3. CASE UpgradePlan(r)
      <4>1. PICK p \in Plans : Save(r, [req[r].read EXCEPT !.plan = p])
        BY <3>3 DEF UpgradePlan
      <4>2. /\ [req[r].read EXCEPT !.plan = p] \in Row /\ req[r].pc \in Changing
            /\ [req[r].read EXCEPT !.plan = p].status = req[r].read.status
        BY <3>0, <3>3 DEF UpgradePlan, Changing, Asking, Row
      <4> QED BY <2>2, <4>1, <4>2 DEF Undoes
    <3>4. CASE UpdatePaymentMethod(r)
      <4>1. req[r].read \in Row /\ req[r].pc \in Changing
        BY <3>0, <3>4 DEF UpdatePaymentMethod, Changing, Asking
      <4> QED BY <2>2, <3>4, <4>1 DEF UpdatePaymentMethod, Undoes
    <3>5. ASSUME NEW q \in Tenants,
                 CreateSubscription(r, q) \/ GetSubscription(r, q)
          PROVE  sub'[t] = sub[t]
      BY <1>1, <2>1, <3>5, CreateType
         DEF CreateSubscription, GetSubscription, Exists
    <3> QED BY <2>1, <2>3, <3>1, <3>2, <3>3, <3>4, <3>5 DEF ChangesSubscription
  <2>4. ASSUME NEW r \in Requests, CountsInvoices(r) PROVE FALSE
    BY <2>1, <2>4 DEF CountsInvoices, CreateInvoice, CancelInvoice,
       ChecksStatus, ChecksLimit, LimitUnknown, Creates, CountReads, CountSaves, CountFails
  <2>8. ASSUME NEW r \in Requests, NEW q \in Tenants, PassesCounter(r, q) PROVE FALSE
    BY <2>1, <2>8 DEF PassesCounter
  <2>5. ASSUME NEW q \in Tenants,
               CreateSubscriptionWithTrial(q) \/ PeriodEnds(q)
        PROVE  FALSE
    BY <1>1, <2>1, <2>5, CreateType
       DEF CreateSubscriptionWithTrial, PeriodEnds, Exists
  <2>6. ASSUME NEW w \in Workers, Worker(w) PROVE Undoes(t)
    <3>1. RenewalSaves(w)
      BY <2>1, <2>6 DEF Worker, RunAllJobs, Lists, RenewalReads
    <3>2. worker[w].tenant = t
      BY <1>1, <2>1, <3>1 DEF RenewalSaves, IInv
    <3>3. worker[w] \in Working /\ worker'[w].tenant = NoRow
      BY <1>1, <3>1 DEF RenewalSaves, IInv, Working
    <3>4. worker[w].read.status # "canceled"
      BY <3>1, <3>3 DEF RenewalSaves, Working
    <3> QED BY <3>2, <3>3, <3>4 DEF Undoes
  <2>7. ASSUME NEW w \in Workers, Crash(w) PROVE FALSE
    BY <2>1, <2>7 DEF Crash
  <2> QED BY <1>1, <2>3, <2>4, <2>5, <2>6, <2>7, <2>8 DEF Next
<1>2. IInv /\ [Next]_vars =>
        [\A t \in Tenants : Is(t, {"canceled"}) /\ ~Is(t, {"canceled"})'
           => Undoes(t)]_vars
  BY <1>1
<1> QED BY <1>2, TypeCorrect, PTL DEF Spec, CancellationsStand

-----------------------------------------------------------------------------
(* What a request has yet to count for t *)
Weight(x, t) == IF x.pc \in {"count", "save"} /\ x.tenant = t THEN x.arg ELSE 0

CountingBy(t, n) == {r \in Requests : /\ req[r].pc \in {"count", "save"}
                                      /\ req[r].tenant = t /\ req[r].arg = n}

(* Two finite sets that differ in one element at most. *)
LEMMA OneElement ==
  ASSUME NEW A, NEW C, IsFiniteSet(A), IsFiniteSet(C), NEW r,
         A \ {r} = C \ {r}
  PROVE  /\ Cardinality(A) \in Nat /\ Cardinality(C) \in Nat
         /\ Cardinality(C) = Cardinality(A) - (IF r \in A THEN 1 ELSE 0)
                                            + (IF r \in C THEN 1 ELSE 0)
<1>1. Cardinality(A) \in Nat /\ Cardinality(C) \in Nat
  BY FS_CardinalityType
<1>2. /\ Cardinality(A \ {r}) = IF r \in A THEN Cardinality(A) - 1 ELSE Cardinality(A)
      /\ Cardinality(C \ {r}) = IF r \in C THEN Cardinality(C) - 1 ELSE Cardinality(C)
  BY FS_RemoveElement
<1>3. Cardinality(A \ {r}) = Cardinality(C \ {r})
  OBVIOUS
<1> QED BY <1>1, <1>2, <1>3

(* What a step of one request does to what all have yet to count. *)
LEMMA UncountedLemma ==
  ASSUME IInv, IInv', NEW r \in Requests, NEW t \in Tenants,
         \A q \in Requests \ {r} : req'[q] = req[q]
  PROVE  /\ Uncounted(t) \in Int
         /\ Uncounted(t)' = Uncounted(t) - Weight(req[r], t) + Weight(req'[r], t)
<1>1. Uncounted(t) = Cardinality(CountingBy(t, 1)) - Cardinality(CountingBy(t, -1))
  BY DEF Uncounted, CountingBy
<1>2. Uncounted(t)' = Cardinality(CountingBy(t, 1)') - Cardinality(CountingBy(t, -1)')
  BY DEF Uncounted, CountingBy
<1>3. \A n \in {1, -1} : /\ IsFiniteSet(CountingBy(t, n))
                         /\ IsFiniteSet(CountingBy(t, n)')
                         /\ CountingBy(t, n) \ {r} = CountingBy(t, n)' \ {r}
  <2> TAKE n \in {1, -1}
  <2>1. CountingBy(t, n) \subseteq Requests /\ CountingBy(t, n)' \subseteq Requests
    BY DEF CountingBy
  <2>2. CountingBy(t, n) \ {r} = CountingBy(t, n)' \ {r}
    BY DEF CountingBy
  <2> QED BY <2>1, <2>2, FS_Subset
<1>4. \A n \in {1, -1} :
        /\ Cardinality(CountingBy(t, n)) \in Nat
        /\ Cardinality(CountingBy(t, n)') \in Nat
        /\ Cardinality(CountingBy(t, n)') =
             Cardinality(CountingBy(t, n))
               - (IF r \in CountingBy(t, n) THEN 1 ELSE 0)
               + (IF r \in CountingBy(t, n)' THEN 1 ELSE 0)
  BY <1>3, OneElement
<1>5. req[r] \in Asking /\ req'[r] \in Asking
  BY DEF IInv
<1>6. /\ r \in CountingBy(t, 1) <=> Weight(req[r], t) = 1
      /\ r \in CountingBy(t, -1) <=> Weight(req[r], t) = -1
      /\ Weight(req[r], t) \in {-1, 0, 1}
  BY <1>5 DEF CountingBy, Weight, Asking
<1>7. /\ r \in CountingBy(t, 1)' <=> Weight(req'[r], t) = 1
      /\ r \in CountingBy(t, -1)' <=> Weight(req'[r], t) = -1
      /\ Weight(req'[r], t) \in {-1, 0, 1}
  BY <1>5 DEF CountingBy, Weight, Asking
<1> HIDE DEF CountingBy
<1> QED BY <1>1, <1>2, <1>4, <1>6, <1>7

(* How the counter differs from what it has heard of *)
Off(t) == made[t] - aside[t] - UsedBy(t) - Uncounted(t)

(* What changes of what was made, what is used and what is yet to count,   *)
(* cancels out.                                                            *)
Even(r, t) ==
  /\ \A q \in Requests \ {r} : req'[q] = req[q]
  /\ made'[t] - aside'[t] - UsedBy(t)' - Weight(req'[r], t)
       = made[t] - aside[t] - UsedBy(t) - Weight(req[r], t)

LEMMA EvenLemma ==
  ASSUME IInv, IInv', NEW r \in Requests, NEW t \in Tenants, Even(r, t)
  PROVE  Off(t)' = Off(t)
<1>1. /\ Uncounted(t) \in Int
      /\ Uncounted(t)' = Uncounted(t) - Weight(req[r], t) + Weight(req'[r], t)
  BY UncountedLemma DEF Even
<1>2. /\ made[t] \in Int /\ made'[t] \in Int /\ UsedBy(t) \in Int /\ UsedBy(t)' \in Int
      /\ aside[t] \in Int /\ aside'[t] \in Int
  BY DEF IInv, UsedBy
<1>3. Weight(req[r], t) \in Int /\ Weight(req'[r], t) \in Int
  BY DEF IInv, Weight, Asking
<1>4. \A m, a, u, w, c, m1, a1, u1, w1, c1 \in Int :
        /\ m1 - a1 - u1 - w1 = m - a - u - w
        /\ c1 = c - w + w1
        => m1 - a1 - u1 - c1 = m - a - u - c
  OBVIOUS
<1>5. Uncounted(t)' \in Int
  BY <1>1, <1>3
<1> QED BY <1>1, <1>2, <1>3, <1>4, <1>5 DEF Off, Even

(* While nothing passes by the counter the drift follows. *)
LEMMA DriftLemma ==
  ASSUME IInv, IInv', NEW t \in Tenants, Off(t)' = Off(t), aside'[t] = aside[t],
         Uncounted(t) \in Int, Uncounted(t)' \in Int
  PROVE  Drift(t)' = Drift(t)
<1>1. /\ made[t] \in Int /\ made'[t] \in Int /\ UsedBy(t) \in Int /\ UsedBy(t)' \in Int
      /\ aside[t] \in Int
  BY DEF IInv, UsedBy
<1> QED BY <1>1 DEF Off, Drift

(* A request about the subscription counts nothing. *)
LEMMA ChangesAreEven ==
  ASSUME IInv, IInv', NEW r \in Requests, NEW t \in Tenants,
         ChangesSubscription(r)
  PROVE  Even(r, t)
<1>1. Weight(Done, t) = 0 /\ Weight(NotYet, t) = 0
  BY DEF Weight, Done, NotYet, At
<1>2. ASSUME NEW saved, Save(r, saved), req[r].pc \in Changing PROVE Even(r, t)
  <2>1. Weight(req[r], t) = 0
    BY <1>2 DEF Weight, Changing
  <2> QED BY <1>1, <1>2, <2>1 DEF Save, Even, IInv, UsedBy
<1>3. ASSUME NEW q \in Tenants, CreateSubscription(r, q) PROVE Even(r, t)
  <2>1. UsedBy(t)' = UsedBy(t)
    BY <1>3, CreateType DEF CreateSubscription
  <2>2. req[r] = NotYet /\ req' = [req EXCEPT ![r] = Done] /\ made' = made
        /\ aside' = aside
    BY <1>3 DEF CreateSubscription, MayCome
  <2> QED BY <1>1, <2>1, <2>2 DEF Even, IInv
<1>4. ASSUME NEW q \in Tenants, GetSubscription(r, q) PROVE Even(r, t)
  <2>1. PICK pc \in Changing : req' = [req EXCEPT ![r] = At(pc, q, 0, sub[q])]
    BY <1>4 DEF GetSubscription
  <2>2. Weight(At(pc, q, 0, sub[q]), t) = 0
    BY DEF Weight, At
  <2>3. req[r] = NotYet /\ made' = made /\ aside' = aside /\ usage' = usage
    BY <1>4 DEF GetSubscription, MayCome
  <2> QED BY <1>1, <2>1, <2>2, <2>3 DEF Even, IInv, UsedBy
<1> QED BY <1>2, <1>3, <1>4 DEF ChangesSubscription, CancelSubscription,
           ReactivateSubscription, UpgradePlan, UpdatePaymentMethod, Changing

(* One that creates or cancels an invoice counts it, if nobody has saved   *)
(* the counter since it was read.                                          *)
LEMMA CountsAreEven ==
  ASSUME IInv, IInv', NEW r \in Requests, NEW t \in Tenants,
         CountsInvoices(r),
         req[r].pc = "save" /\ req[r].tenant = t => req[r].read = UsedBy(t)
  PROVE  Even(r, t)
<1> DEFINE x == req[r]
<1>0. x \in Asking /\ \A q \in Tenants : UsedBy(q) \in Int /\ made[q] \in Int /\ aside[q] \in Int
  BY AskedLemma, UsedType DEF IInv
<1>d. Weight(Done, t) = 0 /\ Weight(NotYet, t) = 0
  BY DEF Weight, Done, NotYet, At
<1>g. ASSUME NEW q \in Tenants, GetUsage(q) PROVE UsedBy(t)' = UsedBy(t)
  BY <1>g DEF GetUsage, IInv, UsedBy
<1>1. ASSUME NEW q \in Tenants, CreateInvoice(r, q) PROVE Even(r, t)
  <2>1. req' = [req EXCEPT ![r] = At("check", q, 2, NoRow)] /\ x = NotYet
    BY <1>1 DEF CreateInvoice, MayCome
  <2>2. Weight(At("check", q, 2, NoRow), t) = 0
    BY DEF Weight, At
  <2> QED BY <1>1, <1>d, <2>1, <2>2 DEF CreateInvoice, Even, IInv, UsedBy
<1>2. ASSUME NEW q \in Tenants, CancelInvoice(r, q) PROVE Even(r, t)
  <2>1. req' = [req EXCEPT ![r] = At("count", q, -1, NoRow)] /\ x = NotYet
    BY <1>2 DEF CancelInvoice, MayCome
  <2>2. Weight(At("count", q, -1, NoRow), t) = IF q = t THEN -1 ELSE 0
    BY DEF Weight, At
  <2>3. \/ /\ made'[t] = IF q = t THEN made[t] - 1 ELSE made[t]
           /\ aside'[t] = aside[t]
        \/ /\ aside'[t] = IF q = t THEN aside[t] + 1 ELSE aside[t]
           /\ made'[t] = made[t]
    BY <1>2 DEF CancelInvoice, IInv
  <2>4. UsedBy(t)' = UsedBy(t)
    BY <1>2 DEF CancelInvoice, UsedBy
  <2>5. req'[r] = At("count", q, -1, NoRow) /\ \A p \in Requests \ {r} : req'[p] = req[p]
    BY <2>1 DEF IInv
  <2> QED BY <1>0, <1>d, <2>1, <2>2, <2>3, <2>4, <2>5 DEF Even
<1>3. CASE ChecksStatus(r)
  <2>1. Weight(x, t) = 0
    BY <1>3 DEF ChecksStatus, Weight
  <2>2. \A p : Weight(At("limit", x.tenant, x.arg, p), t) = 0
    BY DEF Weight, At
  <2> QED BY <1>3, <1>d, <2>1, <2>2 DEF ChecksStatus, Even, IInv, UsedBy
<1>4. CASE ChecksLimit(r)
  <2>1. Weight(x, t) = 0 /\ x.tenant \in Tenants
    BY <1>0, <1>4 DEF ChecksLimit, Weight, Asking
  <2>2. \A n : \A pc \in {"check", "create"} : Weight(At(pc, x.tenant, n, NoRow), t) = 0
    BY DEF Weight, At
  <2>3. UsedBy(t)' = UsedBy(t) /\ made' = made /\ aside' = aside
    BY <1>4, <1>g, <2>1 DEF ChecksLimit
  <2>4. \/ req' = [req EXCEPT ![r] = Done]
        \/ \E n : \E pc \in {"check", "create"} :
             req' = [req EXCEPT ![r] = At(pc, x.tenant, n, NoRow)]
    BY <1>4 DEF ChecksLimit
  <2> QED BY <1>d, <2>1, <2>2, <2>3, <2>4 DEF Even, IInv
<1>5. CASE Creates(r)
  <2>1. Weight(x, t) = 0 /\ x.tenant \in Tenants
    BY <1>0, <1>5 DEF Creates, Weight, Asking
  <2>2. UsedBy(t)' = UsedBy(t) /\ aside' = aside
    BY <1>5 DEF Creates, UsedBy
  <2>3. CASE made' = made /\ req' = [req EXCEPT ![r] = Done]
    BY <1>d, <2>1, <2>2, <2>3 DEF Even, IInv
  <2>4. CASE /\ made' = [made EXCEPT ![x.tenant] = @ + 1]
             /\ req' = [req EXCEPT ![r] = At("count", x.tenant, 1, NoRow)]
    <3>1. Weight(At("count", x.tenant, 1, NoRow), t) = IF x.tenant = t THEN 1 ELSE 0
      BY DEF Weight, At
    <3>2. made'[t] = IF x.tenant = t THEN made[t] + 1 ELSE made[t]
      BY <2>4 DEF IInv
    <3>3. req'[r] = At("count", x.tenant, 1, NoRow)
          /\ \A p \in Requests \ {r} : req'[p] = req[p]
      BY <2>4 DEF IInv
    <3> QED BY <1>0, <2>1, <2>2, <3>1, <3>2, <3>3 DEF Even
  <2> QED BY <1>5, <2>3, <2>4 DEF Creates
<1>6. CASE CountReads(r)
  <2>1. x.tenant \in Tenants /\ x.pc = "count"
    BY <1>0, <1>6 DEF CountReads, Asking
  <2>2. UsedBy(t)' = UsedBy(t) /\ made' = made /\ aside' = aside
    BY <1>6, <1>g, <2>1 DEF CountReads
  <2>3. req'[r] = At("save", x.tenant, x.arg, UsedBy(x.tenant))
        /\ \A p \in Requests \ {r} : req'[p] = req[p]
    BY <1>6 DEF CountReads, IInv
  <2>4. Weight(req'[r], t) = Weight(x, t)
    BY <2>1, <2>3 DEF Weight, At
  <2> QED BY <2>2, <2>3, <2>4 DEF Even
<1>7. CASE CountSaves(r)
  <2>1. x.tenant \in Tenants /\ x.arg \in Int /\ x.read \in Int /\ x.pc = "save"
    BY <1>0, <1>7 DEF CountSaves, Asking
  <2>2. UsedBy(t)' = IF x.tenant = t THEN UsedBy(t) + x.arg ELSE UsedBy(t)
    <3>1. usage'[t] = IF x.tenant = t THEN x.read + x.arg ELSE usage[t]
      BY <1>7, <2>1 DEF CountSaves, Counted, IInv
    <3>2. x.read + x.arg # NoRow
      BY <2>1
    <3>3. x.tenant = t => x.read = UsedBy(t)
      BY <2>1
    <3> QED BY <3>1, <3>2, <3>3 DEF UsedBy
  <2>3. req'[r] = Done /\ \A p \in Requests \ {r} : req'[p] = req[p]
    BY <1>7 DEF CountSaves, IInv
  <2>4. Weight(x, t) = IF x.tenant = t THEN x.arg ELSE 0
    BY <2>1 DEF Weight
  <2>5. made' = made /\ aside' = aside
    BY <1>7 DEF CountSaves
  <2> QED BY <1>0, <1>d, <2>1, <2>2, <2>3, <2>4, <2>5 DEF Even
<1>8. CASE LimitUnknown(r)
  <2>1. Weight(x, t) = 0
    BY <1>8 DEF LimitUnknown, Weight
  <2>2. Weight(At("check", x.tenant, 1, NoRow), t) = 0
    BY DEF Weight, At
  <2> QED BY <1>8, <1>d, <2>1, <2>2 DEF LimitUnknown, Even, IInv, UsedBy
<1>9. CASE CountFails(r)
  <2>1. x.tenant \in Tenants /\ x.arg \in Int
    BY <1>0, <1>9 DEF CountFails, Asking
  <2>2. Weight(x, t) = IF x.tenant = t THEN x.arg ELSE 0
    BY <1>9 DEF CountFails, Weight
  <2>3. aside'[t] = IF x.tenant = t THEN aside[t] + x.arg ELSE aside[t]
    BY <1>9, <2>1 DEF CountFails, IInv
  <2>4. UsedBy(t)' = UsedBy(t) /\ made' = made
    BY <1>9 DEF CountFails, UsedBy
  <2>5. req'[r] = Done /\ \A p \in Requests \ {r} : req'[p] = req[p]
    BY <1>9 DEF CountFails, IInv
  <2> QED BY <1>0, <1>d, <2>1, <2>2, <2>3, <2>4, <2>5 DEF Even
<1> QED BY <1>1, <1>2, <1>3, <1>4, <1>5, <1>6, <1>7, <1>8, <1>9 DEF CountsInvoices

(* What passes by the counter is even, and nothing else changes. *)
LEMMA PassesAreEven ==
  ASSUME IInv, NEW r \in Requests, NEW q \in Tenants, PassesCounter(r, q), NEW t \in Tenants
  PROVE  /\ Even(r, t)
         /\ UsedBy(t)' = UsedBy(t) /\ req[r] = NotYet /\ req'[r] = Done
         /\ made'[t] - aside'[t] = made[t] - aside[t]
<1>1. PICK n \in {1, -1} : /\ made' = [made EXCEPT ![q] = @ + n]
                          /\ aside' = [aside EXCEPT ![q] = @ + n]
  BY DEF PassesCounter
<1>2. /\ made'[t] = IF q = t THEN made[t] + n ELSE made[t]
      /\ aside'[t] = IF q = t THEN aside[t] + n ELSE aside[t]
      /\ made[t] \in Int /\ aside[t] \in Int
  BY <1>1 DEF IInv
<1>3. made'[t] - aside'[t] = made[t] - aside[t]
  BY <1>2
<1>4. /\ UsedBy(t)' = UsedBy(t) /\ req[r] = NotYet /\ req'[r] = Done
      /\ \A p \in Requests \ {r} : req'[p] = req[p]
  BY DEF PassesCounter, UsedBy, IInv
<1>5. Weight(Done, t) = 0 /\ Weight(NotYet, t) = 0
  BY DEF Weight, Done, NotYet, At
<1>6. UsedBy(t) \in Int
  BY UsedType
<1> QED BY <1>3, <1>4, <1>5, <1>6 DEF Even

(* Nobody else counts. *)
LEMMA OthersAreEven ==
  ASSUME IInv, NEW t \in Tenants,
         \/ \E q \in Tenants : CreateSubscriptionWithTrial(q) \/ PeriodEnds(q)
         \/ \E w \in Workers : Worker(w)
         \/ UNCHANGED vars
  PROVE  /\ Drift(t)' = Drift(t) /\ Off(t)' = Off(t) /\ UsedBy(t)' = UsedBy(t)
         /\ req' = req /\ made' = made /\ aside' = aside
<1>1. UsedBy(t)' = UsedBy(t) /\ req' = req /\ made' = made /\ aside' = aside
  <2>1. ASSUME NEW q \in Tenants, CreateSubscriptionWithTrial(q)
        PROVE  UsedBy(t)' = UsedBy(t) /\ req' = req /\ made' = made /\ aside' = aside
    BY <2>1, CreateType DEF CreateSubscriptionWithTrial
  <2>2. (\E q \in Tenants : PeriodEnds(q)) \/ (\E w \in Workers : Worker(w))
          \/ UNCHANGED vars
        => usage' = usage /\ req' = req /\ made' = made /\ aside' = aside
    BY DEF PeriodEnds, Worker, RunAllJobs, Lists, RenewalReads, RenewalSaves, vars
  <2> QED BY <2>1, <2>2 DEF UsedBy
<1>2. Uncounted(t)' = Uncounted(t)
  BY <1>1 DEF Uncounted
<1> QED BY <1>1, <1>2 DEF Drift, Off

(* What a request does to the invoices or the counter that is not even to  *)
(* the eye goes past the counter.                                          *)
LEMMA AsideLemma ==
  ASSUME IInv, NEW r \in Requests, CountsInvoices(r), NEW t \in Tenants,
         aside'[t] # aside[t]
  PROVE  Uncounting(r, t)
<1>1. req[r] \in Asking
  BY AskedLemma
<1>2. ASSUME NEW q \in Tenants, CancelInvoice(r, q) PROVE Uncounting(r, t)
  <2>1. req[r] = NotYet /\ req'[r] = At("count", q, -1, NoRow)
    BY <1>2 DEF CancelInvoice, MayCome, IInv
  <2>2. req'[r] # NotYet
    BY <2>1 DEF NotYet, At
  <2> QED BY <2>1, <2>2 DEF Uncounting
<1>3. CASE CountFails(r)
  <2>1. req[r].pc \in {"count", "save"} /\ req[r].tenant \in Tenants
    BY <1>1, <1>3 DEF CountFails, Asking
  <2>2. req[r].tenant = t
    BY <1>3, <2>1 DEF CountFails, IInv
  <2>3. req'[r] = Done /\ usage' = usage
    BY <1>3 DEF CountFails, IInv
  <2> QED BY <2>1, <2>2, <2>3 DEF Uncounting
<1> QED BY <1>2, <1>3 DEF CountsInvoices, CreateInvoice, ChecksStatus, ChecksLimit,
           LimitUnknown, Creates, CountReads, CountSaves

(* The counter and the invoices drift apart only when a replica dies, when *)
(* an increment saves over another one or fails, and by the code that does *)
(* not count what it makes or removes.                                     *)
THEOREM DriftIsCaused == Spec => DriftHasACause
<1> DEFINE Caused(t) ==
             \/ crashes' # crashes
             \/ \E r \in Requests : \/ Uncounting(r, t)
                                     \/ /\ req[r].pc = "save" /\ req[r].tenant = t
                                        /\ req[r].read # UsedBy(t) /\ req'[r] = Done
<1>1. ASSUME IInv, IInv', Next, NEW t \in Tenants, Drift(t)' # Drift(t)
      PROVE  Caused(t)
  <2>e. ASSUME NEW r \in Requests, Even(r, t) PROVE aside'[t] # aside[t]
    <3>1. Off(t)' = Off(t)
      BY <1>1, <2>e, EvenLemma
    <3>2. /\ Uncounted(t) \in Int
          /\ Uncounted(t)' = Uncounted(t) - Weight(req[r], t) + Weight(req'[r], t)
      BY <1>1, <2>e, UncountedLemma DEF Even
    <3>3. Weight(req[r], t) \in Int /\ Weight(req'[r], t) \in Int
      BY <1>1 DEF IInv, Weight, Asking
    <3>4. Uncounted(t)' \in Int
      BY <3>2, <3>3
    <3> QED BY <1>1, <3>1, <3>2, <3>4, DriftLemma
  <2>1. ASSUME NEW r \in Requests, ChangesSubscription(r) PROVE FALSE
    <3>1. aside' = aside
      BY <2>1 DEF ChangesSubscription, CreateSubscription, GetSubscription,
         CancelSubscription, ReactivateSubscription, UpgradePlan, UpdatePaymentMethod, Save
    <3> QED BY <1>1, <2>1, <2>e, <3>1, ChangesAreEven
  <2>2. ASSUME NEW r \in Requests, CountsInvoices(r) PROVE Caused(t)
    <3>1. CASE aside'[t] # aside[t]
      BY <1>1, <2>2, <3>1, AsideLemma
    <3>2. CASE aside'[t] = aside[t]
      <4>1. req[r].pc = "save" /\ req[r].tenant = t /\ req[r].read # UsedBy(t)
        BY <1>1, <2>2, <2>e, <3>2, CountsAreEven
      <4>2. CountSaves(r) \/ CountFails(r)
        BY <2>2, <4>1 DEF CountsInvoices, CreateInvoice, CancelInvoice, MayCome,
           NotYet, At, ChecksStatus, ChecksLimit, LimitUnknown, Creates, CountReads
      <4>3. req'[r] = Done
        BY <1>1, <4>2 DEF CountSaves, CountFails, IInv
      <4> QED BY <4>1, <4>3
    <3> QED BY <3>1, <3>2
  <2>3. ASSUME NEW w \in Workers, Crash(w) PROVE crashes' # crashes
    BY <1>1, <2>3 DEF Crash, IInv
  <2>4. ASSUME NEW r \in Requests, NEW q \in Tenants, PassesCounter(r, q) PROVE Caused(t)
    <3>1. Even(r, t) /\ req[r] = NotYet /\ req'[r] = Done
      BY <1>1, <2>4, PassesAreEven
    <3>2. req'[r] # NotYet
      BY <3>1 DEF NotYet, Done, At
    <3> QED BY <2>e, <3>1, <3>2 DEF Uncounting
  <2> HIDE DEF Caused
  <2>5. CASE crashes' # crashes
    BY <2>5 DEF Caused
  <2> QED BY <1>1, <2>1, <2>2, <2>3, <2>4, <2>5, OthersAreEven DEF Next
<1>2. IInv /\ IInv' /\ [Next]_vars =>
        [\A t \in Tenants : Drift(t)' # Drift(t) => Caused(t)]_vars
  <2>1. IInv /\ IInv' /\ Next => \A t \in Tenants : Drift(t)' # Drift(t) => Caused(t)
    <3> HIDE DEF Caused
    <3> QED BY <1>1
  <2> HIDE DEF Caused
  <2> QED BY <2>1
<1> QED BY <1>2, TypeCorrect, PTL DEF Spec, DriftHasACause

-----------------------------------------------------------------------------
(* Invoices of which the counter has heard, or will *)
Heard(t) == made[t] - aside[t]

(* The plan allows n invoices *)
Permitted(n) == \E p \in Plans : Limit[p] <= 0 \/ n <= Limit[p]

(* Of requests that come one at a time one is under way at most, so the    *)
(* counter is what it read when it saves it, and it is exact when the      *)
(* limit is checked, but for what it never heard of.                       *)
OneAtATime ==
  /\ \A r, q \in Requests : ~Waiting(r) /\ ~Waiting(q) => r = q
  /\ \A r \in Requests :
       /\ req[r].pc = "save"   => req[r].read = UsedBy(req[r].tenant)
       /\ req[r].pc = "create" => Permitted(UsedBy(req[r].tenant) + 1)
  /\ \A t \in Tenants : Off(t) = 0 /\ Permitted(Heard(t)) /\ Permitted(UsedBy(t))

Orderly == serial /\ crashes = 0 => OneAtATime

(* Where no request has anything to count the counter is exact. *)
LEMMA ExactLemma ==
  ASSUME IInv, NEW t \in Tenants, Off(t) = 0,
         \A r \in Requests : req[r].pc \notin {"count", "save"}
  PROVE  made[t] - aside[t] = UsedBy(t)
<1>1. Uncounted(t) = Cardinality(CountingBy(t, 1)) - Cardinality(CountingBy(t, -1))
  BY DEF Uncounted, CountingBy
<1>2. CountingBy(t, 1) = {} /\ CountingBy(t, -1) = {}
  BY DEF CountingBy
<1>3. Uncounted(t) = 0
  BY <1>1, <1>2, FS_EmptySet
<1>4. made[t] \in Int /\ aside[t] \in Int /\ UsedBy(t) \in Int
  BY UsedType DEF IInv
<1> QED BY <1>3, <1>4 DEF Off

(* While a request takes a step the others wait. *)
LEMMA OthersWait ==
  ASSUME IInv, serial, OneAtATime, NEW r \in Requests,
         ChangesSubscription(r) \/ CountsInvoices(r)
  PROVE  \A q \in Requests \ {r} : Waiting(q)
<1>1. CASE MayCome(r)
  BY <1>1 DEF MayCome
<1>2. CASE ~MayCome(r)
  <2>1. req[r].pc \notin {"new", "done"}
    BY <1>2 DEF ChangesSubscription, CountsInvoices, CreateSubscription,
       GetSubscription, CancelSubscription, ReactivateSubscription,
       UpgradePlan, UpdatePaymentMethod, CreateInvoice, CancelInvoice,
       ChecksStatus, ChecksLimit, LimitUnknown, Creates, CountReads, CountSaves, CountFails
  <2>2. ~Waiting(r)
    BY <2>1 DEF Waiting, NotYet, Done, At
  <2> QED BY <2>2 DEF OneAtATime
<1> QED BY <1>1, <1>2

(* A request that waits neither creates nor counts. *)
LEMMA WaitingLemma ==
  ASSUME NEW r \in Requests, Waiting(r)
  PROVE  req[r].pc \notin {"create", "count", "save"}
BY DEF Waiting, NotYet, Done, At

(* A request about to save its count has just read it, one about to create *)
(* its invoice has just been allowed to.                                   *)
Fresh(r) ==
  \/ req'[r].pc \notin {"create", "save"}
  \/ \E t \in Tenants :
       /\ req'[r].tenant = t
       /\ UsedBy(t)' = UsedBy(t)
       /\ \/ req'[r].pc = "save" /\ req'[r].read = UsedBy(t)
          \/ req'[r].pc = "create" /\ Permitted(UsedBy(t) + 1)

LEMMA FreshLemma ==
  ASSUME IInv, NEW r \in Requests, ChangesSubscription(r) \/ CountsInvoices(r)
  PROVE  Fresh(r)
<1>0. req[r] \in Asking
  BY AskedLemma
<1>1. ASSUME req' = [req EXCEPT ![r] = Done] PROVE Fresh(r)
  <2>1. req'[r] = Done
    BY <1>1 DEF IInv
  <2> QED BY <2>1 DEF Fresh, Done, At
<1>2. ASSUME NEW pc, NEW t, NEW n, NEW read,
             req' = [req EXCEPT ![r] = At(pc, t, n, read)]
      PROVE  /\ req'[r].pc = pc /\ req'[r].tenant = t /\ req'[r].read = read
             /\ pc \notin {"create", "save"} => Fresh(r)
  <2>1. req'[r] = [pc |-> pc, tenant |-> t, arg |-> n, read |-> read]
    BY <1>2 DEF IInv, At
  <2> QED BY <2>1 DEF Fresh
<1>3. ASSUME NEW t \in Tenants, GetUsage(t) PROVE UsedBy(t)' = UsedBy(t)
  BY <1>3 DEF GetUsage, IInv, UsedBy
<1>4. CASE ChangesSubscription(r)
  <2>1. ASSUME NEW t \in Tenants, GetSubscription(r, t) PROVE Fresh(r)
    <3>1. PICK pc \in Changing : req' = [req EXCEPT ![r] = At(pc, t, 0, sub[t])]
      BY <2>1 DEF GetSubscription
    <3>2. pc \notin {"create", "save"}
      BY DEF Changing
    <3> QED BY <1>2, <3>1, <3>2
  <2>2. ASSUME NEW t \in Tenants, CreateSubscription(r, t) PROVE Fresh(r)
    BY <1>1, <2>2 DEF CreateSubscription
  <2>3. ASSUME NEW saved, Save(r, saved) PROVE Fresh(r)
    BY <1>1, <2>3 DEF Save
  <2> QED BY <1>4, <2>1, <2>2, <2>3 DEF ChangesSubscription, CancelSubscription,
             ReactivateSubscription, UpgradePlan, UpdatePaymentMethod
<1>5. ASSUME NEW t \in Tenants, CreateInvoice(r, t) \/ CancelInvoice(r, t)
      PROVE  Fresh(r)
  <2>1. \/ req' = [req EXCEPT ![r] = At("check", t, 2, NoRow)]
        \/ req' = [req EXCEPT ![r] = At("count", t, -1, NoRow)]
    BY <1>5 DEF CreateInvoice, CancelInvoice
  <2> QED BY <1>2, <2>1
<1>6. ASSUME ChecksStatus(r) PROVE Fresh(r)
  <2>1. PICK t, n, p : \/ req' = [req EXCEPT ![r] = At("limit", t, n, p)]
                       \/ req' = [req EXCEPT ![r] = Done]
    BY <1>6 DEF ChecksStatus
  <2> QED BY <1>1, <1>2, <2>1
<1>7. ASSUME ChecksLimit(r) PROVE Fresh(r)
  <2>1. PICK t \in Tenants, p \in Plans : t = req[r].tenant /\ p = req[r].read
    BY <1>0, <1>7 DEF ChecksLimit, Asking
  <2>2. UsedBy(t)' = UsedBy(t)
    BY <1>3, <1>7, <2>1 DEF ChecksLimit
  <2>3. CASE Exceeds(UsedBy(t), p)
    <3>1. req' = [req EXCEPT ![r] = Done]
      BY <1>7, <2>1, <2>3 DEF ChecksLimit
    <3> QED BY <1>1, <3>1
  <2>4. CASE ~Exceeds(UsedBy(t), p)
    <3>1. Permitted(UsedBy(t) + 1)
      <4>1. Limit[p] <= 0 \/ UsedBy(t) + 1 <= Limit[p]
        BY <2>4, UsedType DEF Exceeds
      <4> QED BY <4>1 DEF Permitted
    <3>2. PICK n : \/ req' = [req EXCEPT ![r] = At("check", t, n, NoRow)]
                   \/ req' = [req EXCEPT ![r] = At("create", t, n, NoRow)]
      BY <1>7, <2>1, <2>4 DEF ChecksLimit
    <3>3. CASE req' = [req EXCEPT ![r] = At("check", t, n, NoRow)]
      <4>1. req'[r].pc = "check"
        BY <1>2, <3>3
      <4> QED BY <4>1 DEF Fresh
    <3>4. CASE req' = [req EXCEPT ![r] = At("create", t, n, NoRow)]
      <4>1. req'[r].pc = "create" /\ req'[r].tenant = t
        BY <1>2, <3>4
      <4> QED BY <2>2, <3>1, <4>1 DEF Fresh
    <3> QED BY <3>2, <3>3, <3>4
  <2> QED BY <2>3, <2>4
<1>8. ASSUME Creates(r) PROVE Fresh(r)
  <2>1. PICK t : \/ req' = [req EXCEPT ![r] = At("count", t, 1, NoRow)]
                 \/ req' = [req EXCEPT ![r] = Done]
    BY <1>8 DEF Creates
  <2> QED BY <1>1, <1>2, <2>1
<1>9. ASSUME CountReads(r) PROVE Fresh(r)
  <2>1. PICK t \in Tenants : t = req[r].tenant
    BY <1>0, <1>9 DEF CountReads, Asking
  <2>2. UsedBy(t)' = UsedBy(t)
    BY <1>3, <1>9, <2>1 DEF CountReads
  <2>3. PICK n : req' = [req EXCEPT ![r] = At("save", t, n, UsedBy(t))]
    BY <1>9, <2>1 DEF CountReads
  <2>4. req'[r].pc = "save" /\ req'[r].tenant = t /\ req'[r].read = UsedBy(t)
    BY <1>2, <2>3
  <2> QED BY <2>2, <2>4 DEF Fresh
<1>10. ASSUME CountSaves(r) PROVE Fresh(r)
  BY <1>1, <1>10 DEF CountSaves
<1>11. ASSUME LimitUnknown(r) PROVE Fresh(r)
  <2>1. PICK t : \/ req' = [req EXCEPT ![r] = At("check", t, 1, NoRow)]
                 \/ req' = [req EXCEPT ![r] = Done]
    BY <1>11 DEF LimitUnknown
  <2> QED BY <1>1, <1>2, <2>1
<1>12. ASSUME CountFails(r) PROVE Fresh(r)
  BY <1>1, <1>12 DEF CountFails
<1> QED BY <1>4, <1>5, <1>6, <1>7, <1>8, <1>9, <1>10, <1>11, <1>12 DEF CountsInvoices

(* Only a created invoice is one more of which the counter hears, and it   *)
(* moves only as a request ends.                                           *)
LEMMA MadeLemma ==
  ASSUME IInv, IInv', NEW r \in Requests, ChangesSubscription(r) \/ CountsInvoices(r),
         NEW t \in Tenants
  PROVE  \/ Heard(t)' <= Heard(t) /\ UsedBy(t)' = UsedBy(t)
         \/ /\ req[r].pc = "create" /\ req[r].tenant = t
            /\ Heard(t)' = Heard(t) + 1 /\ UsedBy(t)' = UsedBy(t)
         \/ req'[r] = Done /\ (Heard(t)' = Heard(t) \/ UsedBy(t)' = UsedBy(t))
<1>0. /\ made[t] \in Int /\ made'[t] \in Int /\ aside[t] \in Int /\ aside'[t] \in Int
      /\ made[t] <= made[t] /\ Heard(t) <= Heard(t)
  BY DEF IInv, Heard
<1>g. ASSUME NEW q \in Tenants, GetUsage(q) PROVE UsedBy(t)' = UsedBy(t)
  BY <1>g DEF GetUsage, IInv, UsedBy
<1>1. CASE Creates(r)
  BY <1>0, <1>1 DEF Creates, IInv, Heard, UsedBy
<1>2. ASSUME NEW q \in Tenants, CancelInvoice(r, q)
      PROVE  Heard(t)' <= Heard(t) /\ UsedBy(t)' = UsedBy(t)
  BY <1>0, <1>2 DEF CancelInvoice, IInv, Heard, UsedBy
<1>3. CASE CountFails(r)
  BY <1>3 DEF CountFails, IInv, UsedBy
<1>4. CASE CountSaves(r)
  BY <1>4 DEF CountSaves, IInv, Heard
<1>5. ASSUME ChangesSubscription(r) PROVE Heard(t)' = Heard(t) /\ UsedBy(t)' = UsedBy(t)
  <2>1. made' = made /\ aside' = aside
    BY <1>5 DEF ChangesSubscription, CreateSubscription, GetSubscription,
       CancelSubscription, ReactivateSubscription, UpgradePlan, UpdatePaymentMethod, Save
  <2>2. ASSUME NEW q \in Tenants, CreateSubscription(r, q) PROVE UsedBy(t)' = UsedBy(t)
    BY <2>2, CreateType DEF CreateSubscription
  <2>3. (\A q \in Tenants : ~CreateSubscription(r, q)) => usage' = usage
    BY <1>5 DEF ChangesSubscription, GetSubscription,
       CancelSubscription, ReactivateSubscription, UpgradePlan, UpdatePaymentMethod, Save
  <2> QED BY <2>1, <2>2, <2>3 DEF Heard, UsedBy
<1>6. CASE ChecksLimit(r) \/ CountReads(r)
  <2>1. req[r].tenant \in Tenants
    BY <1>6, AskedLemma DEF ChecksLimit, CountReads
  <2>2. made' = made /\ aside' = aside /\ GetUsage(req[r].tenant)
    BY <1>6 DEF ChecksLimit, CountReads
  <2> QED BY <1>0, <1>g, <2>1, <2>2 DEF Heard
<1>7. ASSUME NEW q \in Tenants, CreateInvoice(r, q)
      PROVE  Heard(t)' = Heard(t) /\ UsedBy(t)' = UsedBy(t)
  BY <1>7 DEF CreateInvoice, Heard, UsedBy
<1>8. CASE ChecksStatus(r) \/ LimitUnknown(r)
  BY <1>0, <1>8 DEF ChecksStatus, LimitUnknown, Heard, UsedBy
<1> QED BY <1>0, <1>1, <1>2, <1>3, <1>4, <1>5, <1>6, <1>7, <1>8 DEF CountsInvoices

(* A request moves alone. *)
LEMMA StepsAlone ==
  ASSUME IInv, NEW r \in Requests, ChangesSubscription(r) \/ CountsInvoices(r)
  PROVE  \A q \in Requests \ {r} : req'[q] = req[q]
<1>1. PICK x : req' = [req EXCEPT ![r] = x]
  <2>1. ASSUME ChangesSubscription(r) PROVE \E x : req' = [req EXCEPT ![r] = x]
    BY <2>1 DEF ChangesSubscription, CreateSubscription, GetSubscription,
       CancelSubscription, ReactivateSubscription, UpgradePlan,
       UpdatePaymentMethod, Save
  <2>2. ASSUME CountsInvoices(r) PROVE \E x : req' = [req EXCEPT ![r] = x]
    BY <2>2 DEF CountsInvoices, CreateInvoice, CancelInvoice, ChecksStatus,
       ChecksLimit, LimitUnknown, Creates, CountReads, CountSaves, CountFails
  <2> QED BY <2>1, <2>2
<1> QED BY <1>1 DEF IInv

(* A step of a request is orderly. *)
LEMMA RequestIsOrderly ==
  ASSUME IInv, IInv', serial, crashes = 0, OneAtATime, NEW r \in Requests,
         ChangesSubscription(r) \/ CountsInvoices(r)
  PROVE  OneAtATime'
<1>1. \A q \in Requests \ {r} : Waiting(q)
  BY OthersWait
<1>2. \A t \in Tenants : Even(r, t)
  BY ChangesAreEven, CountsAreEven DEF OneAtATime
<1>3. \A t \in Tenants : Off(t)' = 0
  BY <1>2, EvenLemma DEF OneAtATime
<1>5. \A q \in Requests \ {r} : req'[q] = req[q] /\ Waiting(q)'
  <2>1. \A q \in Requests \ {r} : req'[q] = req[q]
    BY StepsAlone
  <2> QED BY <1>1, <2>1 DEF Waiting
<1>6. \A q \in Requests \ {r} : req'[q].pc \notin {"create", "count", "save"}
  BY <1>1, <1>5, WaitingLemma
<1>7. /\ req'[r].pc = "save"   => req'[r].read = UsedBy(req[r].tenant)'
      /\ req'[r].pc = "create" => Permitted(UsedBy(req[r].tenant) + 1)'
  <2>1. CASE req'[r].pc \in {"create", "save"}
    <3>1. PICK t \in Tenants :
            /\ req'[r].tenant = t
            /\ UsedBy(t)' = UsedBy(t)
            /\ \/ req'[r].pc = "save" /\ req'[r].read = UsedBy(t)
               \/ req'[r].pc = "create" /\ Permitted(UsedBy(t) + 1)
      BY <2>1, FreshLemma DEF Fresh
    <3>2. UsedBy(req[r].tenant)' = UsedBy(t)
      BY <3>1 DEF UsedBy
    <3> QED BY <3>1, <3>2 DEF Permitted
  <2> QED BY <2>1
<1>8. ASSUME NEW t \in Tenants PROVE (Permitted(Heard(t)) /\ Permitted(UsedBy(t)))'
  <2>0. /\ Permitted(Heard(t)) /\ Permitted(UsedBy(t)) /\ Off(t) = 0
        /\ Heard(t) \in Int /\ Heard(t)' \in Int
    BY DEF OneAtATime, IInv, Heard
  <2>1. CASE Heard(t)' <= Heard(t) /\ UsedBy(t)' = UsedBy(t)
    <3>1. PICK p \in Plans : Limit[p] <= 0 \/ Heard(t) <= Limit[p]
      BY <2>0 DEF Permitted
    <3>2. Limit[p] \in Int
      OBVIOUS
    <3>3. Limit[p] <= 0 \/ Heard(t)' <= Limit[p]
      BY <2>0, <2>1, <3>1, <3>2
    <3> QED BY <2>0, <2>1, <3>3 DEF Permitted
  <2>2. CASE /\ req[r].pc = "create" /\ req[r].tenant = t
             /\ Heard(t)' = Heard(t) + 1 /\ UsedBy(t)' = UsedBy(t)
    <3>1. \A q \in Requests : req[q].pc \notin {"count", "save"}
      BY <1>1, <2>2, WaitingLemma
    <3>2. Heard(t) = UsedBy(t)
      BY <2>0, <3>1, ExactLemma DEF Heard
    <3>3. Permitted(UsedBy(t) + 1)
      BY <2>2 DEF OneAtATime
    <3> QED BY <2>0, <2>2, <3>2, <3>3 DEF Permitted
  <2>3. CASE req'[r] = Done /\ (Heard(t)' = Heard(t) \/ UsedBy(t)' = UsedBy(t))
    <3>1. \A q \in Requests : req'[q].pc \notin {"count", "save"}
      <4>1. req'[r].pc \notin {"count", "save"}
        BY <2>3 DEF Done, At
      <4> QED BY <1>6, <4>1
    <3>2. UsedBy(t)' \in Int /\ made'[t] \in Int /\ aside'[t] \in Int
      BY DEF IInv, UsedBy
    <3>3. Uncounted(t)' = 0
      <4>1. Uncounted(t)' = Cardinality(CountingBy(t, 1)') - Cardinality(CountingBy(t, -1)')
        BY DEF Uncounted, CountingBy
      <4>2. CountingBy(t, 1)' = {} /\ CountingBy(t, -1)' = {}
        BY <3>1 DEF CountingBy
      <4> QED BY <4>1, <4>2, FS_EmptySet
    <3>4. Heard(t)' = UsedBy(t)'
      <4>1. made'[t] - aside'[t] - UsedBy(t)' - Uncounted(t)' = 0
        BY <1>3 DEF Off
      <4>2. made'[t] - aside'[t] = UsedBy(t)'
        BY <3>2, <3>3, <4>1
      <4> QED BY <4>2 DEF Heard
    <3>5. CASE Heard(t)' = Heard(t)
      BY <2>0, <3>4, <3>5 DEF Permitted
    <3>6. CASE UsedBy(t)' = UsedBy(t)
      BY <2>0, <3>4, <3>6 DEF Permitted
    <3> QED BY <2>3, <3>5, <3>6
  <2> QED BY <2>1, <2>2, <2>3, MadeLemma
<1>9. \A q, p \in Requests : ~Waiting(q)' /\ ~Waiting(p)' => q = p
  BY <1>5
<1>10. \A q \in Requests :
         /\ req'[q].pc = "save"   => req'[q].read = UsedBy(req[q].tenant)'
         /\ req'[q].pc = "create" => Permitted(UsedBy(req[q].tenant) + 1)'
  <2> TAKE q \in Requests
  <2>1. CASE q = r
    BY <1>7, <2>1
  <2>2. CASE q # r
    BY <1>6, <2>2
  <2> QED BY <2>1, <2>2
<1> QED BY <1>3, <1>8, <1>9, <1>10 DEF OneAtATime

(* What passes by the counter comes whenever it likes, and does not disturb *)
(* the request that is under way.                                          *)
LEMMA PassingIsOrderly ==
  ASSUME IInv, IInv', OneAtATime, NEW r \in Requests, NEW q \in Tenants, PassesCounter(r, q)
  PROVE  OneAtATime'
<1>1. /\ \A t \in Tenants : /\ Even(r, t) /\ UsedBy(t)' = UsedBy(t)
                            /\ Heard(t)' = Heard(t)
      /\ req[r] = NotYet /\ req'[r] = Done
  BY PassesAreEven DEF Heard
<1>2. \A t \in Tenants : Off(t)' = 0 /\ (Permitted(Heard(t)) /\ Permitted(UsedBy(t)))'
  BY <1>1, EvenLemma DEF OneAtATime, Permitted
<1>3. \A p \in Requests : Waiting(p) => Waiting(p)'
  BY <1>1 DEF Waiting, Even
<1>4. ASSUME NEW p \in Requests
      PROVE  /\ req'[p].pc = "save" => req'[p].read = UsedBy(req[p].tenant)'
             /\ req'[p].pc = "create" => Permitted(UsedBy(req[p].tenant) + 1)'
  <2>1. CASE p = r
    BY <1>1, <2>1 DEF Done, At
  <2>2. CASE p # r /\ req[p].pc \in {"save", "create"}
    <3>1. PICK t \in Tenants : t = req[p].tenant
      BY <2>2, AskedLemma
    <3>2. UsedBy(t)' = UsedBy(t) /\ req'[p] = req[p]
      BY <1>1, <2>2 DEF Even
    <3>3. UsedBy(req[p].tenant)' = UsedBy(t)
      BY <3>1, <3>2 DEF UsedBy
    <3>4. /\ req[p].pc = "save"   => req[p].read = UsedBy(t)
          /\ req[p].pc = "create" => Permitted(UsedBy(t) + 1)
      BY <3>1 DEF OneAtATime
    <3> QED BY <3>2, <3>3, <3>4 DEF Permitted
  <2>3. CASE p # r /\ req[p].pc \notin {"save", "create"}
    <3>1. req'[p] = req[p]
      BY <1>1, <2>3 DEF Even
    <3> QED BY <2>3, <3>1
  <2> QED BY <2>1, <2>2, <2>3
<1> QED BY <1>2, <1>3, <1>4 DEF OneAtATime

(* Of requests that come one at a time none makes an invoice more than a   *)
(* plan allows, but for those of which the counter never heard, until a    *)
(* replica dies.                                                           *)
THEOREM LimitsHold == Spec => []LimitHolds
<1>1. Init => Orderly
  <2> SUFFICES ASSUME Init PROVE OneAtATime
    BY DEF Orderly
  <2>1. IInv
    BY AskingLemma DEF Init, IInv, Resting, Working
  <2>2. \A r \in Requests : Waiting(r) /\ req[r].pc = "new"
    BY DEF Init, Waiting, NotYet, At
  <2>3. ASSUME NEW t \in Tenants PROVE Off(t) = 0 /\ Permitted(Heard(t)) /\ Permitted(UsedBy(t))
    <3>1. CountingBy(t, 1) = {} /\ CountingBy(t, -1) = {}
      BY <2>2 DEF CountingBy
    <3>2. Uncounted(t) = Cardinality(CountingBy(t, 1)) - Cardinality(CountingBy(t, -1))
      BY DEF Uncounted, CountingBy
    <3>3. made[t] = 0 /\ aside[t] = 0 /\ UsedBy(t) = 0 /\ Uncounted(t) = 0
      BY <3>1, <3>2, FS_EmptySet DEF Init, UsedBy
    <3>4. PICK p \in Plans : Limit[p] \in Int
      OBVIOUS
    <3>5. Limit[p] <= 0 \/ 0 <= Limit[p]
      BY <3>4
    <3> QED BY <3>3, <3>4, <3>5 DEF Off, Permitted, Heard
  <2> QED BY <2>2, <2>3 DEF OneAtATime
<1>2. IInv /\ IInv' /\ Orderly /\ [Next]_vars => Orderly'
  <2> SUFFICES ASSUME IInv, IInv', Orderly, [Next]_vars, serial', crashes' = 0
               PROVE  OneAtATime'
    BY DEF Orderly
  <2>1. ASSUME NEW r \in Requests, ChangesSubscription(r) \/ CountsInvoices(r)
        PROVE  OneAtATime'
    <3>1. serial' = serial /\ crashes' = crashes
      BY <2>1 DEF ChangesSubscription, CreateSubscription, GetSubscription,
         CancelSubscription, ReactivateSubscription, UpgradePlan,
         UpdatePaymentMethod, Save, CountsInvoices, CreateInvoice,
         CancelInvoice, ChecksStatus, ChecksLimit, LimitUnknown, Creates, CountReads,
         CountSaves, CountFails
    <3> QED BY <2>1, <3>1, RequestIsOrderly DEF Orderly
  <2>2. ASSUME NEW w \in Workers, Crash(w) PROVE FALSE
    BY <2>2 DEF Crash, IInv
  <2>4. ASSUME NEW r \in Requests, NEW q \in Tenants, PassesCounter(r, q) PROVE OneAtATime'
    BY <2>4, PassingIsOrderly DEF Orderly, PassesCounter
  <2>3. CASE \/ \E q \in Tenants : CreateSubscriptionWithTrial(q) \/ PeriodEnds(q)
             \/ \E w \in Workers : Worker(w)
             \/ UNCHANGED vars
    <3>1. OneAtATime
      BY <2>3 DEF Orderly, CreateSubscriptionWithTrial, PeriodEnds, Worker,
         RunAllJobs, Lists, RenewalReads, RenewalSaves, vars
    <3>2. \A t \in Tenants : /\ Off(t)' = Off(t) /\ UsedBy(t)' = UsedBy(t)
                             /\ req' = req /\ made' = made /\ aside' = aside
      BY <2>3, OthersAreEven
    <3>3. \A t \in Tenants : Off(t)' = 0 /\ (Permitted(Heard(t)) /\ Permitted(UsedBy(t)))'
      BY <3>1, <3>2 DEF OneAtATime, Permitted, Heard
    <3>4. req' = req
      BY <2>3 DEF CreateSubscriptionWithTrial, PeriodEnds, Worker,
         RunAllJobs, Lists, RenewalReads, RenewalSaves, vars
    <3>5. ASSUME NEW r \in Requests
          PROVE  /\ req'[r].pc = "save" => req'[r].read = UsedBy(req[r].tenant)'
                 /\ req'[r].pc = "create" => Permitted(UsedBy(req[r].tenant) + 1)'
      <4>1. CASE req[r].pc \in {"save", "create"}
        <5>1. PICK t \in Tenants : t = req[r].tenant
          BY <4>1, AskedLemma
        <5>2. UsedBy(t)' = UsedBy(t)
          BY <3>2
        <5>3. UsedBy(req[r].tenant)' = UsedBy(t)
          BY <3>4, <5>1, <5>2 DEF UsedBy
        <5>4. /\ req[r].pc = "save"   => req[r].read = UsedBy(t)
              /\ req[r].pc = "create" => Permitted(UsedBy(t) + 1)
          BY <3>1, <5>1 DEF OneAtATime
        <5> QED BY <3>4, <5>3, <5>4 DEF Permitted
      <4> QED BY <3>4, <4>1
    <3> QED BY <3>1, <3>3, <3>4, <3>5 DEF OneAtATime, Waiting
  <2> QED BY <2>1, <2>2, <2>3, <2>4 DEF Next
<1>3. Orderly => LimitHolds
  BY DEF Orderly, OneAtATime, LimitHolds, Permitted, Heard
<1> QED BY <1>1, <1>2, <1>3, TypeCorrect, PTL DEF Spec

-----------------------------------------------------------------------------
(* Registration.  A request that has looked for an address knows whose     *)
(* there were; if it is refused later, the address has capitals or came in *)
(* between.                                                                *)
Unknown(f, knew) == \A u \in knew : ~(tenants[u].address = f.address /\ ~tenants[u].capitals)

Registering(r) ==
  /\ form[r].pc \in {"new", "tenant"} => tenants[r] = NoRow
  /\ form[r].pc \in {"tenant", "user", "refused"} =>
       /\ form[r].read.form \in G!Form
       /\ form[r].read.knew \subseteq users
       /\ Unknown(form[r].read.form, form[r].read.knew)
  /\ form[r].pc \in {"user", "refused"} => tenants[r] = form[r].read.form
  /\ form[r].pc = "refused" => \E u \in users : G!Typed(tenants[u], tenants[r])
  /\ form[r].pc \notin {"user", "refused", "crashed", "failed"} => tenants[r] = NoRow \/ r \in users

Registry ==
  /\ tenants \in [G!Names -> G!Form \cup {NoRow}]
  /\ users \subseteq {t \in G!Names : tenants[t] # NoRow}
  /\ tenants[Before] # NoRow => Before \in users
  /\ DOMAIN form = Forms
  /\ \A r \in Forms : Registering(r)

(* A form filled in is none that is missing *)
Filled == NoRow \notin G!Form

LEMMA RegistryStarts == ASSUME G!Init, Filled PROVE Registry
<1>1. tenants \in [G!Names -> G!Form \cup {NoRow}]
  BY DEF G!Init
<1>2. users \subseteq {Before} /\ \A t \in G!Names : tenants[t] # NoRow <=> t \in users
  BY DEF G!Init, Filled
<1>3. DOMAIN form = Forms /\ \A r \in Forms : form[r].pc = "new" /\ tenants[r] = NoRow
  BY <1>2, NamesAssumption DEF G!Init, G!Names
<1> QED BY <1>1, <1>2, <1>3 DEF Registry, Registering, G!Names

(* A request that goes on and changes no tenant keeps the registry if it is *)
(* still in order.                                                          *)
LEMMA RequestGoesOn ==
  ASSUME Registry, NEW r \in Forms, NEW pc, NEW u, NEW read, G!Goes(r, pc, u, read),
         UNCHANGED <<tenants, users>>,
         pc \notin {"new", "tenant", "user", "refused"},
         pc \notin {"crashed", "failed"} => tenants[r] = NoRow \/ r \in users
  PROVE  Registry'
<1>1. /\ DOMAIN form' = Forms
      /\ form'[r] = [pc |-> pc, user |-> u, read |-> read]
      /\ \A q \in Forms : q # r => form'[q] = form[q]
  BY DEF Registry, G!Goes
<1>2. ASSUME NEW q \in Forms PROVE Registering(q)'
  <2>1. CASE q = r
    BY <1>1, <2>1 DEF Registering
  <2>2. CASE q # r
    BY <1>1, <2>2 DEF Registry, Registering, Unknown, G!Typed
  <2> QED BY <2>1, <2>2
<1> QED BY <1>1, <1>2 DEF Registry

LEMMA RegisterKeeps == ASSUME Registry, NEW r \in Forms, G!Register(r) PROVE Registry'
<1>1. PICK f \in G!Form : \/ G!Ends(r)
                          \/ \E knew \in {users, {}} :
                               /\ knew = users => ~G!Known(f) \/ users = {}
                               /\ G!Goes(r, "tenant", r, [form |-> f, knew |-> knew])
  BY DEF G!Register
<1>2. tenants[r] = NoRow /\ UNCHANGED <<tenants, users>>
  BY DEF Registry, Registering, G!Register
<1>3. CASE G!Ends(r)
  BY <1>2, <1>3, RequestGoesOn DEF G!Ends
<1>4. ASSUME NEW knew \in {users, {}}, knew = users => ~G!Known(f) \/ users = {},
             G!Goes(r, "tenant", r, [form |-> f, knew |-> knew])
      PROVE  Registry'
  <2>1. /\ DOMAIN form' = Forms
        /\ form'[r] = [pc |-> "tenant", user |-> r, read |-> [form |-> f, knew |-> knew]]
        /\ \A q \in Forms : q # r => form'[q] = form[q]
    BY <1>4 DEF Registry, G!Goes
  <2>2. Unknown(f, knew) /\ knew \subseteq users
    BY <1>4 DEF Unknown, G!Known
  <2>3. ASSUME NEW q \in Forms PROVE Registering(q)'
    <3>1. CASE q = r
      BY <1>2, <2>1, <2>2, <3>1 DEF Registering, Unknown
    <3>2. CASE q # r
      BY <1>2, <2>1, <3>2 DEF Registry, Registering, Unknown, G!Typed
    <3> QED BY <3>1, <3>2
  <2> QED BY <1>2, <2>1, <2>3 DEF Registry
<1> QED BY <1>1, <1>3, <1>4

LEMMA CreatesTenantKeeps ==
  ASSUME Registry, Filled, NEW r \in Forms, G!CreatesTenant(r) PROVE Registry'
<1>1. /\ tenants[r] = NoRow /\ r \notin users /\ r \in G!Names
      /\ form[r].read.form \in G!Form
      /\ users' = users
  BY DEF Registry, Registering, G!CreatesTenant, G!Names
<1>2. CASE tenants' = tenants /\ G!Ends(r)
  BY <1>1, <1>2, RequestGoesOn DEF G!Ends
<1>3. CASE /\ tenants' = [tenants EXCEPT ![r] = form[r].read.form]
           /\ G!Goes(r, "user", r, form[r].read)
  <2>1. /\ DOMAIN form' = Forms
        /\ form'[r] = [pc |-> "user", user |-> r, read |-> form[r].read]
        /\ \A q \in Forms : q # r => form'[q] = form[q]
    BY <1>3 DEF Registry, G!Goes
  <2>2. /\ tenants' \in [G!Names -> G!Form \cup {NoRow}]
        /\ tenants'[r] = form[r].read.form
        /\ \A t \in G!Names : t # r => tenants'[t] = tenants[t]
    BY <1>1, <1>3 DEF Registry
  <2>3. \A u \in users : tenants'[u] = tenants[u]
    BY <1>1, <2>2 DEF Registry
  <2>4. ASSUME NEW q \in Forms PROVE Registering(q)'
    <3>1. CASE q = r
      BY <1>1, <2>1, <2>2, <2>3, <3>1 DEF Registry, Registering, Unknown, G!CreatesTenant
    <3>2. CASE q # r
      <4>1. tenants'[q] = tenants[q]
        BY <2>2, <3>2 DEF G!Names
      <4> QED BY <1>1, <2>1, <2>3, <3>2, <4>1 DEF Registry, Registering, Unknown, G!Typed
    <3> QED BY <3>1, <3>2
  <2>5. Before # r /\ Before \in G!Names
    BY NamesAssumption DEF G!Names
  <2> QED BY <1>1, <2>1, <2>2, <2>3, <2>4, <2>5 DEF Registry, Filled
<1> QED BY <1>2, <1>3 DEF G!CreatesTenant

LEMMA CreatesUserKeeps ==
  ASSUME Registry, Filled, NEW r \in Forms, G!CreatesUser(r) PROVE Registry'
<1>1. /\ tenants' = tenants /\ r \in G!Names
      /\ tenants[r] = form[r].read.form
      /\ form[r].read.form \in G!Form
      /\ form[r].read.knew \subseteq users
      /\ Unknown(form[r].read.form, form[r].read.knew)
  BY DEF Registry, Registering, G!CreatesUser, G!Names
<1>2. CASE /\ \E u \in users : G!Typed(tenants[u], tenants[r])
           /\ G!Goes(r, "refused", r, form[r].read)
           /\ users' = users
  <2>1. /\ DOMAIN form' = Forms
        /\ form'[r] = [pc |-> "refused", user |-> r, read |-> form[r].read]
        /\ \A q \in Forms : q # r => form'[q] = form[q]
    BY <1>2 DEF Registry, G!Goes
  <2>2. ASSUME NEW q \in Forms PROVE Registering(q)'
    <3>1. CASE q = r
      BY <1>1, <1>2, <2>1, <3>1 DEF Registering, Unknown, G!Typed
    <3>2. CASE q # r
      BY <1>1, <1>2, <2>1, <3>2 DEF Registry, Registering, Unknown, G!Typed
    <3> QED BY <3>1, <3>2
  <2> QED BY <1>1, <1>2, <2>1, <2>2 DEF Registry
<1>3. CASE G!Goes(r, "subscription", r, NoRow) /\ users' = users \cup {r}
  <2>1. /\ DOMAIN form' = Forms
        /\ form'[r] = [pc |-> "subscription", user |-> r, read |-> NoRow]
        /\ \A q \in Forms : q # r => form'[q] = form[q]
    BY <1>3 DEF Registry, G!Goes
  <2>2. ASSUME NEW q \in Forms PROVE Registering(q)'
    <3>1. CASE q = r
      BY <1>3, <2>1, <3>1 DEF Registering
    <3>2. CASE q # r
      BY <1>1, <1>3, <2>1, <3>2 DEF Registry, Registering, Unknown, G!Typed
    <3> QED BY <3>1, <3>2
  <2> QED BY <1>1, <1>3, <2>1, <2>2 DEF Registry, Filled
<1>4. CASE G!Goes(r, "failed", NoRow, NoRow) /\ users' = users
  BY <1>1, <1>4, RequestGoesOn
<1> QED BY <1>2, <1>3, <1>4 DEF G!CreatesUser

LEMMA CrashKeeps == ASSUME Registry, G!Crash PROVE Registry'
<1>1. UNCHANGED <<tenants, users>> /\ DOMAIN form' = Forms
  BY DEF G!Crash
<1>2. \A q \in Forms : \/ form'[q] = form[q]
                        \/ form'[q] = [pc |-> "crashed", user |-> NoRow, read |-> NoRow]
  BY DEF G!Crash
<1>3. ASSUME NEW q \in Forms PROVE Registering(q)'
  <2>1. CASE form'[q] = form[q]
    BY <1>1, <2>1 DEF Registry, Registering, Unknown, G!Typed
  <2>2. CASE form'[q] = [pc |-> "crashed", user |-> NoRow, read |-> NoRow]
    BY <1>1, <2>2 DEF Registering
  <2> QED BY <1>2, <2>1, <2>2
<1> QED BY <1>1, <1>3 DEF Registry

LEMMA RegistryKept == ASSUME Registry, Filled, G!Next PROVE Registry'
<1>1. ASSUME NEW r \in Forms, G!CreatesSubscription(r) \/ G!CreatesUsage(r) PROVE Registry'
  <2>1. /\ tenants[r] = NoRow \/ r \in users
        /\ UNCHANGED <<tenants, users>>
        /\ \E pc \in {"usage", "registered"} : G!Goes(r, pc, r, NoRow)
    BY <1>1 DEF Registry, Registering, G!CreatesSubscription, G!CreatesUsage
  <2> QED BY <2>1, RequestGoesOn
<1>2. ASSUME NEW r \in Forms, \/ G!HandleOnboardingRegister(r) \/ G!HandleResendCode(r)
                              \/ G!CreatesCode(r) \/ G!MarksUsed(r)
      PROVE  Registry'
  <2>1. /\ tenants[r] = NoRow \/ r \in users
        /\ UNCHANGED <<tenants, users>>
    BY <1>2 DEF Registry, Registering, G!HandleOnboardingRegister, G!HandleResendCode,
       G!SendVerificationCode, G!CreatesCode, G!MarksUsed
  <2>2. G!Ends(r) \/ \E u : G!Goes(r, "code", u, NoRow)
    BY <1>2 DEF G!HandleOnboardingRegister, G!HandleResendCode,
       G!SendVerificationCode, G!CreatesCode, G!MarksUsed
  <2> QED BY <2>1, <2>2, RequestGoesOn DEF G!Ends
<1>3. ASSUME NEW r \in Forms, G!VerifyEmailCode(r) PROVE Registry'
  <2>1. /\ tenants[r] = NoRow
        /\ UNCHANGED <<tenants, users>>
    BY <1>3 DEF Registry, Registering, G!VerifyEmailCode
  <2>2. \E u, read : G!Goes(r, "verify", u, read)
    BY <1>3 DEF G!VerifyEmailCode
  <2> QED BY <2>1, <2>2, RequestGoesOn
<1>4. ASSUME NEW n \in Replicas, G!Lists(n) \/ G!Looks(n) \/ G!GivesTrial(n) \/ G!GivesUsage(n)
      PROVE  Registry'
  <2>1. UNCHANGED <<tenants, users, form>>
    BY <1>4 DEF G!Lists, G!Looks, G!GivesTrial, G!GivesUsage
  <2> QED BY <2>1 DEF Registry, Registering, Unknown, G!Typed
<1> QED
  BY <1>1, <1>2, <1>3, <1>4, RegisterKeeps, CreatesTenantKeeps, CreatesUserKeeps, CrashKeeps
  DEF G!Next

(* A tenant is left without a user only by a crash, by a failed statement,  *)
(* by capitals in its address, or by two registrations of one address that  *)
(* overlap.                                                                 *)
THEOREM OrphansAreExplained == TenantSpec => []OrphansHaveACause
<1>0. Filled
  BY FormAssumption DEF Filled
<1>1. TenantInit => Registry
  BY <1>0, RegistryStarts DEF TenantInit
<1>2. Registry /\ [TenantNext]_all => Registry'
  <2> SUFFICES ASSUME Registry, [TenantNext]_all PROVE Registry'
    OBVIOUS
  <2>1. CASE RegistrationStep /\ G!Next
    BY <1>0, <2>1, RegistryKept
  <2>2. CASE UNCHANGED registration
    <3>1. UNCHANGED <<tenants, users, form>>
      BY <2>2 DEF registration
    <3> QED BY <3>1 DEF Registry, Registering, Unknown, G!Typed
  <2> QED
    BY <2>1, <2>2 DEF TenantNext, SubscriptionStep, SettingsStep, BillingStep, all
<1>3. Registry => OrphansHaveACause
  <2> SUFFICES ASSUME Registry, NEW r \in G!Registered \ users, form[r].pc \notin {"user", "crashed", "failed"}
               PROVE  /\ form[r].pc = "refused"
                      /\ \E u \in users : /\ G!Typed(tenants[u], tenants[r])
                                          /\ tenants[r].capitals \/ u \notin form[r].read.knew
    BY DEF OrphansHaveACause, G!OrphansHaveACause
  <2>1. r \in Forms /\ tenants[r] # NoRow
    BY DEF Registry, G!Registered, G!Names
  <2>2. Registering(r) /\ form[r].pc = "refused"
    BY <2>1 DEF Registry, Registering
  <2>3. PICK u \in users : G!Typed(tenants[u], tenants[r])
    BY <2>2 DEF Registering
  <2>4. tenants[r].capitals \/ u \notin form[r].read.knew
    BY <2>2, <2>3 DEF Registering, Unknown, G!Typed
  <2> QED BY <2>2, <2>3, <2>4
<1> QED BY <1>1, <1>2, <1>3, PTL DEF TenantSpec

-----------------------------------------------------------------------------
(* Settings.  What a saver holds differs from the stored document only as  *)
(* his round says, or as the merge loses it, unless it was updated since.  *)
Stored == {NoRow, "given", "masked", "wrapped"}
Shown  == {NoRow, "mask", "plain"}
Givers == Savers \cup {Before, NoRow}

(* Nothing is no secret, however it is stored or shown *)
Told == NoRow \notin {"given", "masked", "wrapped", "mask", "plain"}

Docs(secrets) == [given: [S!Sections -> Givers], steps: SUBSET S!Steps, secret: [S!Secrets -> secrets]]

Rounds == {x \in [base: {"empty", "read", "try"}, gives: SUBSET S!Sections,
                  secret: SUBSET S!Secrets, marks: SUBSET S!Steps] : x.secret \subseteq x.gives}

Untouched(x) == S!Sections \ Head(x.todo).gives

(* The section that the payments' M-Pesa part gives way to *)
GivesWay(s) == s = "payments" /\ doc.given["mpesa"] # NoRow

(* A saver that has merged, and one that is to *)
Merging(x) ==
  /\ x.copy \in Docs(Shown)
  /\ \A s \in S!Secrets : x.copy.secret[s] = "plain" <=> s \in Head(x.todo).secret
  /\ x.empty => \A s \in Untouched(x) : x.copy.given[s] = NoRow
  /\ ~x.empty /\ ~x.stale =>
       /\ doc.steps \subseteq x.copy.steps
       /\ \A s \in Untouched(x) : x.copy.given[s] = doc.given[s] \/ GivesWay(s)

Updating(x) ==
  /\ x.copy \in Docs(Stored)
  /\ \A s \in S!Secrets : x.copy.secret[s] = "given" <=> s \in Head(x.todo).secret
  /\ ~x.stale =>
       /\ ~x.empty => doc.steps \subseteq x.copy.steps
       /\ \A s \in Untouched(x) :
            \/ x.copy.given[s] = doc.given[s]
            \/ x.empty /\ s \in {"business", "branding"}
            \/ ~x.empty /\ GivesWay(s)

Saving(x) ==
  /\ x.pc \in {"read", "merge", "update"} => x.todo # <<>>
  /\ x.pc = "merge" => Merging(x)
  /\ x.pc = "update" => Updating(x)

Saver == [pc: {"new", "read", "merge", "update", "done"}, todo: Seq(Rounds),
          copy: Docs(Stored \cup Shown), empty: BOOLEAN, stale: BOOLEAN]

Document ==
  /\ doc \in Docs(Stored)
  /\ save \in [Savers -> Saver]
  /\ failures \in Nat
  /\ \A r \in Savers : Saving(save[r])
  /\ S!SecretsLastOneSave

LEMMA HandlersAreRounds == S!Handlers \subseteq Seq(Rounds) \ {<<>>}
<1>1. ASSUME NEW base \in {"empty", "read", "try"}, NEW gives \in SUBSET S!Sections,
             NEW hidden \in SUBSET S!Secrets, NEW steps \in SUBSET S!Steps, hidden \subseteq gives
      PROVE  S!Round(base, gives, hidden, steps) \in Rounds
  BY <1>1 DEF S!Round, Rounds
<1>2. ASSUME NEW x \in Rounds, NEW y \in Rounds
      PROVE  <<x>> \in Seq(Rounds) \ {<<>>} /\ <<x, y>> \in Seq(Rounds) \ {<<>>}
  OBVIOUS
<1>3. ASSUME NEW pages \in SUBSET S!Pages
      PROVE  S!SavePage(pages) \in Seq(Rounds) \ {<<>>} /\ S!SaveBranded(pages) \in Seq(Rounds) \ {<<>>}
  <2>1. /\ pages \in SUBSET S!Sections /\ pages \cup {"branding"} \in SUBSET S!Sections
        /\ {"business_profile"} \in SUBSET S!Steps
    BY DEF S!Pages, S!Sections, S!Steps
  <2>2. /\ S!Round("empty", pages, {}, {}) \in Rounds
        /\ S!Round("empty", pages \cup {"branding"}, {}, {}) \in Rounds
        /\ S!Round("try", {}, {}, {"business_profile"}) \in Rounds
    BY <1>1, <2>1
  <2> QED BY <1>2, <2>2 DEF S!SavePage, S!SaveBranded
<1>4. ASSUME NEW hidden \in SUBSET {"mpesa"} PROVE S!SaveMpesa(hidden) \in Seq(Rounds) \ {<<>>}
  <2>1. /\ hidden \in SUBSET S!Secrets /\ {"mpesa"} \in SUBSET S!Sections
        /\ hidden \subseteq {"mpesa"} /\ {"mpesa_setup"} \in SUBSET S!Steps
    BY DEF S!Secrets, S!Sections, S!Steps
  <2>2. /\ S!Round("read", {"mpesa"}, hidden, {}) \in Rounds
        /\ S!Round("try", {}, {}, {"mpesa_setup"}) \in Rounds
    BY <1>1, <2>1
  <2> QED BY <1>2, <2>2 DEF S!SaveMpesa
<1>5. /\ \A s \in {"business", "mpesa", "kra", "branding", "notifications"} : {s} \in SUBSET S!Sections
      /\ {"kra"} \in SUBSET S!Secrets
      /\ \A s \in S!Steps : {s} \in SUBSET S!Steps
  BY DEF S!Secrets, S!Pages, S!Sections
<1>6. /\ S!Round("read", {"kra"}, {"kra"}, {}) \in Rounds
      /\ \A s \in {"business", "mpesa", "branding", "notifications"} :
           S!Round("read", {s}, {}, {}) \in Rounds
      /\ \A s \in S!Steps : S!Round("read", {}, {}, {s}) \in Rounds /\ S!Round("try", {}, {}, {s}) \in Rounds
  BY <1>1, <1>5
<1>7. {"email_verified", "business_profile", "first_invoice", "mpesa_setup", "dismissed"} \subseteq S!Steps
  BY DEF S!Steps
<1>8. /\ S!SaveKRA \in Seq(Rounds) \ {<<>>} /\ S!SaveBranding \in Seq(Rounds) \ {<<>>}
      /\ S!SaveNotification \in Seq(Rounds) \ {<<>>} /\ S!CreateInvoice \in Seq(Rounds) \ {<<>>}
  BY <1>2, <1>6, <1>7 DEF S!SaveKRA, S!SaveBranding, S!SaveNotification, S!CreateInvoice
<1>9. /\ S!VerifyEmail \in Seq(Rounds) \ {<<>>} /\ S!FirstInvoice \in Seq(Rounds) \ {<<>>}
      /\ S!Dismiss \in Seq(Rounds) \ {<<>>}
  BY <1>2, <1>6, <1>7, SMTT(30) DEF S!VerifyEmail, S!FirstInvoice, S!Dismiss, S!MarkStep
<1>10. S!BusinessProfile \in Seq(Rounds) \ {<<>>}
  BY <1>2, <1>6, <1>7, SMTT(30) DEF S!BusinessProfile, S!MarkStep, S!BusinessType
<1>11. S!SavePayment \in Seq(Rounds) \ {<<>>}
  BY <1>2, <1>6, <1>7, SMTT(30) DEF S!SavePayment, S!MarkStep
<1> QED BY <1>3, <1>4, <1>8, <1>9, <1>10, <1>11, ZenonT(40) DEF S!Handlers

LEMMA EmptyIsADocument == S!Empty \in Docs(Stored) /\ S!Empty \in Docs(Shown)
                          /\ S!Empty \in Docs(Stored \cup Shown)
BY DEF S!Empty, S!Document, Docs, Stored, Shown, Givers

LEMMA DocumentStarts == ASSUME S!Init, Told PROVE Document
<1>2. doc \in Docs(Stored) /\ S!SecretsLastOneSave
  <2>1. CASE doc = S!Empty
    BY EmptyIsADocument, <2>1 DEF S!Init, S!SecretsLastOneSave, S!Empty, S!Document, Told
  <2>2. CASE doc # S!Empty
    BY <2>2 DEF S!Init, S!SecretsLastOneSave, S!Document, S!Secrets, Docs, Stored, Givers
  <2> QED BY <2>1, <2>2
<1>3. save \in [Savers -> Saver] /\ \A r \in Savers : save[r].pc = "new"
  BY EmptyIsADocument DEF S!Init, Saver
<1> QED BY <1>2, <1>3 DEF Document, Saving, S!Init

(* A saver that goes on in order, while nothing is stored, keeps all in    *)
(* order.                                                                  *)
LEMMA SaverGoesOn ==
  ASSUME Document, NEW r \in Savers, NEW x \in Saver, save' = [save EXCEPT ![r] = x],
         UNCHANGED <<doc, fresh>>, failures' \in Nat, Saving(x)
  PROVE  Document'
<1>1. save' \in [Savers -> Saver] /\ save'[r] = x /\ \A q \in Savers : q # r => save'[q] = save[q]
  BY DEF Document
<1>2. ASSUME NEW q \in Savers PROVE Saving(save[q])'
  <2>1. PICK y : y = save'[q]
    OBVIOUS
  <2>2. Saving(y)
    BY <1>1, <2>1 DEF Document
  <2>3. (Merging(y) <=> Merging(y)') /\ (Updating(y) <=> Updating(y)')
    <3>1. \A s : GivesWay(s) <=> GivesWay(s)'
      BY DEF GivesWay
    <3>2. Untouched(y)' = Untouched(y)
      BY DEF Untouched
    <3> QED BY <3>1, <3>2 DEF Merging, Updating
  <2>4. Saving(y)'
    BY <2>2, <2>3, Zenon DEF Saving
  <2> QED BY <2>1, <2>4, Zenon
<1> QED BY <1>1, <1>2 DEF Document, S!SecretsLastOneSave

LEMMA DoneKeeps ==
  ASSUME Document, NEW r \in Savers, S!Done(r), UNCHANGED <<doc, fresh>>, failures' \in Nat
  PROVE  Document'
<1>1. PICK x : x = [pc |-> "done", todo |-> <<>>, copy |-> S!Empty, empty |-> FALSE, stale |-> FALSE]
  OBVIOUS
<1>2. x \in Saver
  BY <1>1, EmptyIsADocument DEF Saver
<1>3. save' = [save EXCEPT ![r] = x]
  BY <1>1 DEF S!Done
<1>4. Saving(x)
  BY <1>1 DEF Saving
<1> QED BY <1>2, <1>3, <1>4, SaverGoesOn

LEMMA ComesKeeps == ASSUME Document, NEW r \in Savers, S!Comes(r) PROVE Document'
<1>1. PICK todo \in S!Handlers : save' = [save EXCEPT ![r].pc = "read", ![r].todo = todo]
  BY DEF S!Comes
<1>2. todo \in Seq(Rounds) /\ todo # <<>>
  BY HandlersAreRounds
<1>3. PICK x : x = [save[r] EXCEPT !.pc = "read", !.todo = todo]
  OBVIOUS
<1>4. x \in Saver /\ x.pc = "read" /\ x.todo = todo
  BY <1>2, <1>3 DEF Document, Saver
<1>5. save' = [save EXCEPT ![r] = x]
  BY <1>1, <1>3 DEF Document, Saver
<1>6. Saving(x)
  BY <1>2, <1>4 DEF Saving
<1> QED BY <1>4, <1>5, <1>6, SaverGoesOn DEF S!Comes, Document

(* A document that carries on document d, as saver r was to change it *)
Carries(c, d, r) ==
  /\ c \in Docs(Shown)
  /\ \A s \in S!Secrets : c.secret[s] = "plain" <=> s \in Head(save[r].todo).secret
  /\ \A s \in Untouched(save[r]) : c.given[s] = d.given[s]
  /\ d.steps \subseteq c.steps

LEMMA ChangedCarries ==
  ASSUME Told, NEW d \in Docs({NoRow, "mask"}), NEW r \in Savers,
         save[r].todo \in Seq(Rounds), save[r].todo # <<>>
  PROVE  Carries(S!Changed(d, r), d, r)
<1>0. PICK c : c = S!Changed(d, r)
  OBVIOUS
<1>1. PICK now : now = Head(save[r].todo)
  OBVIOUS
<1>2. now \in Rounds
  BY <1>1
<1>3. /\ c.given = [s \in S!Sections |-> IF s \in now.gives THEN r ELSE d.given[s]]
      /\ c.steps = d.steps \cup now.marks
      /\ c.secret = [s \in S!Secrets |-> IF s \notin now.gives THEN d.secret[s]
                                        ELSE IF s \in now.secret THEN "plain" ELSE NoRow]
      /\ c = [given |-> c.given, steps |-> c.steps, secret |-> c.secret]
  BY <1>0, <1>1 DEF S!Changed, S!Document, S!Now
<1>4. /\ d.given \in [S!Sections -> Givers] /\ d.steps \in SUBSET S!Steps
      /\ d.secret \in [S!Secrets -> {NoRow, "mask"}]
  BY DEF Docs
<1>5. c.given \in [S!Sections -> Givers] /\ c.steps \in SUBSET S!Steps
  BY <1>2, <1>3, <1>4 DEF Rounds, Givers
<1>6. c.secret \in [S!Secrets -> Shown]
  BY <1>3, <1>4 DEF Shown
<1>7. \A s \in S!Secrets : c.secret[s] = "plain" <=> s \in now.secret
  BY <1>2, <1>3, <1>4 DEF Rounds, Told
<1>8. \A s \in Untouched(save[r]) : c.given[s] = d.given[s]
  BY <1>1, <1>3 DEF Untouched
<1>9. c \in Docs(Shown)
  BY <1>3, <1>5, <1>6 DEF Docs
<1> QED BY <1>0, <1>1, <1>3, <1>7, <1>8, <1>9 DEF Carries

LEMMA ReadsKeeps == ASSUME Document, Told, NEW r \in Savers, S!Reads(r) PROVE Document'
<1>1. /\ save[r] \in Saver /\ save[r].todo \in Seq(Rounds) /\ save[r].todo # <<>>
      /\ UNCHANGED <<doc, fresh>>
      /\ failures \in Nat
  BY DEF Document, Saver, Saving, S!Reads
<1>2. failures' = failures \/ S!Fails => failures' \in Nat
  BY <1>1 DEF S!Fails
<1>3. ASSUME NEW d \in Docs({NoRow, "mask"}), NEW empty \in BOOLEAN,
             S!Changes(r, d, empty),
             failures' \in Nat,
             empty => \A s \in S!Sections : d.given[s] = NoRow,
             ~empty => d.steps = doc.steps /\ \A s \in S!Sections : d.given[s] = doc.given[s] \/ GivesWay(s)
      PROVE  Document'
  <2>1. PICK c : c = S!Changed(d, r)
    OBVIOUS
  <2>2. PICK x : x = [pc |-> "merge", todo |-> save[r].todo, copy |-> c, empty |-> empty, stale |-> FALSE]
    OBVIOUS
  <2>3. save' = [save EXCEPT ![r] = x]
    BY <1>3, <2>1, <2>2 DEF S!Changes
  <2>4. Carries(c, d, r)
    BY <1>1, <2>1, ChangedCarries
  <2>5. c \in Docs(Stored \cup Shown)
    <3>1. \A f \in [S!Secrets -> Shown] : f \in [S!Secrets -> Stored \cup Shown]
      OBVIOUS
    <3> QED BY <2>4, <3>1 DEF Docs, Carries
  <2>6. x \in Saver
    BY <1>1, <2>2, <2>5 DEF Saver
  <2>7. x.todo = save[r].todo /\ x.copy = c /\ x.empty = empty /\ x.pc = "merge"
    BY <2>2
  <2>8. Untouched(x) = Untouched(save[r]) /\ Untouched(x) \subseteq S!Sections
    BY <2>7 DEF Untouched
  <2>9. Merging(x)
    BY <1>3, <2>4, <2>7, <2>8 DEF Merging, Carries
  <2>10. Saving(x)
    BY <1>1, <2>7, <2>9 DEF Saving
  <2> QED BY <1>1, <1>3, <2>3, <2>6, <2>10, SaverGoesOn
<1>4. PICK d : d = S!GetSettings
  OBVIOUS
<1>5. /\ d.given = [doc.given EXCEPT !["payments"] =
                      IF doc.given["mpesa"] = NoRow THEN @ ELSE doc.given["mpesa"]]
      /\ d.steps = doc.steps
      /\ d.secret = [s \in S!Secrets |-> IF doc.secret[s] = NoRow THEN NoRow ELSE "mask"]
      /\ d = [given |-> d.given, steps |-> d.steps, secret |-> d.secret]
  BY <1>4 DEF S!GetSettings, S!Document
<1>6. doc.given \in [S!Sections -> Givers] /\ doc.steps \in SUBSET S!Steps /\ "mpesa" \in S!Sections
  BY DEF Document, Docs, S!Sections, S!Secrets
<1>7. d \in Docs({NoRow, "mask"})
  <2>1. PICK v \in Givers : d.given = [doc.given EXCEPT !["payments"] = v]
    <3>1. "payments" \in S!Sections
      BY DEF S!Sections, S!Pages
    <3> QED BY <1>5, <1>6, <3>1
  <2>2. d.secret \in [S!Secrets -> {NoRow, "mask"}]
    BY <1>5
  <2>3. d.given \in [S!Sections -> Givers]
    BY <1>6, <2>1
  <2> QED BY <1>5, <1>6, <2>2, <2>3 DEF Docs
<1>8. \A s \in S!Sections : d.given[s] = doc.given[s] \/ GivesWay(s)
  BY <1>5, <1>6 DEF GivesWay
<1>9. S!Empty \in Docs({NoRow, "mask"}) /\ \A s \in S!Sections : S!Empty.given[s] = NoRow
  BY DEF S!Empty, S!Document, Docs, Givers
<1>10. CASE S!Changes(r, S!GetSettings, FALSE) /\ UNCHANGED failures
  BY <1>1, <1>2, <1>3, <1>4, <1>5, <1>7, <1>8, <1>10
<1>11. CASE S!Changes(r, S!Empty, TRUE) /\ (UNCHANGED failures \/ S!Fails)
  BY <1>2, <1>3, <1>9, <1>11
<1>12. CASE S!Fails /\ S!Done(r)
  BY <1>1, <1>2, <1>12, DoneKeeps
<1> QED BY <1>10, <1>11, <1>12 DEF S!Reads

(* What is stored of a merged document *)
Stores(r) == [S!Merged(r) EXCEPT !.secret = [s \in S!Secrets |-> S!Encrypted(@[s])]]

LEMMA StoresWell ==
  ASSUME Document, Told, NEW r \in Savers, Merging(save[r]), save[r].empty \in BOOLEAN,
         save[r].todo \in Seq(Rounds), save[r].todo # <<>>
  PROVE  /\ Stores(r) \in Docs(Stored)
         /\ \A s \in S!Secrets : Stores(r).secret[s] = "given" <=> s \in Head(save[r].todo).secret
         /\ ~save[r].stale =>
              /\ ~save[r].empty => doc.steps \subseteq Stores(r).steps
              /\ \A s \in Untouched(save[r]) :
                   \/ Stores(r).given[s] = doc.given[s]
                   \/ save[r].empty /\ s \in {"business", "branding"}
                   \/ ~save[r].empty /\ GivesWay(s)
<1>1. PICK c : c = Stores(r)
  OBVIOUS
<1>2. PICK copy : copy = save[r].copy
  OBVIOUS
<1>3. /\ copy \in Docs(Shown) /\ doc \in Docs(Stored)
      /\ copy = [given |-> copy.given, steps |-> copy.steps, secret |-> copy.secret]
      /\ copy.given \in [S!Sections -> Givers] /\ doc.given \in [S!Sections -> Givers]
      /\ copy.steps \in SUBSET S!Steps
      /\ copy.secret \in [S!Secrets -> Shown] /\ doc.secret \in [S!Secrets -> Stored]
  BY <1>2 DEF Document, Docs, Merging
<1>4. /\ c = [given |-> c.given, steps |-> copy.steps, secret |-> c.secret]
      /\ c.given = [s \in S!Sections |-> IF copy.given[s] = NoRow /\ s \in S!Keeps(r)
                                         THEN doc.given[s] ELSE copy.given[s]]
      /\ c.secret = [s \in S!Secrets |-> S!Encrypted(IF copy.secret[s] = NoRow THEN doc.secret[s]
                                                     ELSE copy.secret[s])]
  <2>1. PICK given : given = [s \in S!Sections |-> IF copy.given[s] = NoRow /\ s \in S!Keeps(r)
                                                  THEN doc.given[s] ELSE copy.given[s]]
    OBVIOUS
  <2>2. PICK held : held = [s \in S!Secrets |-> IF copy.secret[s] = NoRow THEN doc.secret[s]
                                                   ELSE copy.secret[s]]
    OBVIOUS
  <2>3. S!Merged(r) = [given |-> given, steps |-> copy.steps, secret |-> held]
    BY <1>2, <2>1, <2>2 DEF S!Merged, S!Document
  <2>4. c = [given |-> given, steps |-> copy.steps, secret |-> [s \in S!Secrets |-> S!Encrypted(held[s])]]
    BY <1>1, <2>3 DEF Stores
  <2> QED BY <2>1, <2>2, <2>4
<1>5. \A v \in Stored \cup Shown : /\ S!Encrypted(v) \in Stored
                                   /\ S!Encrypted(v) = "given" <=> v = "plain"
  BY DEF Stored, Shown, S!Encrypted, Told
<1>6. \A s \in S!Secrets : /\ c.secret[s] \in Stored
                           /\ c.secret[s] = "given" <=> copy.secret[s] = "plain"
  <2> SUFFICES ASSUME NEW s \in S!Secrets
               PROVE  /\ c.secret[s] \in Stored
                      /\ c.secret[s] = "given" <=> copy.secret[s] = "plain"
    OBVIOUS
  <2>1. PICK v : v = IF copy.secret[s] = NoRow THEN doc.secret[s] ELSE copy.secret[s]
    OBVIOUS
  <2>2. v \in Stored \cup Shown /\ (v = "plain" <=> copy.secret[s] = "plain")
    BY <1>3, <2>1 DEF Stored, Shown, Told
  <2>3. c.secret[s] = S!Encrypted(v)
    BY <1>4, <2>1
  <2> QED BY <1>5, <2>2, <2>3
<1>7. c \in Docs(Stored)
  <2>1. c.given \in [S!Sections -> Givers]
    BY <1>3, <1>4
  <2>2. c.secret \in [S!Secrets -> Stored]
    BY <1>4, <1>6
  <2> QED BY <1>3, <1>4, <2>1, <2>2 DEF Docs
<1>8. \A s \in S!Secrets : c.secret[s] = "given" <=> s \in Head(save[r].todo).secret
  BY <1>2, <1>6 DEF Merging
<1>9. ASSUME ~save[r].stale
      PROVE  /\ ~save[r].empty => doc.steps \subseteq c.steps
             /\ \A s \in Untouched(save[r]) : \/ c.given[s] = doc.given[s]
                                              \/ save[r].empty /\ s \in {"business", "branding"}
                                              \/ ~save[r].empty /\ GivesWay(s)
  <2>1. c.steps = copy.steps
    BY <1>4
  <2>2. ASSUME NEW s \in Untouched(save[r]), save[r].empty
        PROVE  c.given[s] = doc.given[s] \/ s \in {"business", "branding"}
    <3>1. copy.given[s] = NoRow /\ s \in S!Sections
      BY <1>2, <2>2 DEF Merging, Untouched
    <3>2. s \in S!Keeps(r) \/ s \in {"business", "branding"}
      BY <2>2, <3>1 DEF S!Keeps, S!Sections, S!Pages
    <3> QED BY <1>4, <3>1, <3>2
  <2>3. ASSUME NEW s \in Untouched(save[r]), ~save[r].empty
        PROVE  c.given[s] = doc.given[s] \/ GivesWay(s)
    <3>1. s \in S!Sections /\ (copy.given[s] = doc.given[s] \/ GivesWay(s))
      BY <1>2, <1>9, <2>3 DEF Merging, Untouched
    <3> QED BY <1>4, <3>1
  <2>4. ~save[r].empty => doc.steps \subseteq copy.steps
    BY <1>2, <1>9 DEF Merging
  <2> QED BY <2>1, <2>2, <2>3, <2>4
<1> QED BY <1>1, <1>7, <1>8, <1>9

LEMMA MergesKeeps == ASSUME Document, Told, NEW r \in Savers, S!Merges(r) PROVE Document'
<1>1. /\ save[r] \in Saver /\ save[r].todo \in Seq(Rounds) /\ save[r].todo # <<>>
      /\ Merging(save[r]) /\ save[r].empty \in BOOLEAN
      /\ UNCHANGED <<doc, fresh>>
      /\ failures \in Nat
  BY DEF Document, Saver, Saving, S!Merges
<1>2. CASE S!Fails /\ S!Done(r)
  BY <1>1, <1>2, DoneKeeps DEF S!Fails
<1>3. CASE UNCHANGED failures /\ save' = [save EXCEPT ![r].pc = "update", ![r].copy = Stores(r)]
  <2>1. PICK c : c = Stores(r)
    OBVIOUS
  <2>2. PICK x : x = [save[r] EXCEPT !.pc = "update", !.copy = c]
    OBVIOUS
  <2>3. save' = [save EXCEPT ![r] = x]
    BY <1>3, <2>1, <2>2 DEF Document, Saver
  <2>4. c \in Docs(Stored) /\ c \in Docs(Stored \cup Shown)
    <3>1. c \in Docs(Stored)
      BY <1>1, <2>1, StoresWell
    <3>2. \A f \in [S!Secrets -> Stored] : f \in [S!Secrets -> Stored \cup Shown]
      OBVIOUS
    <3> QED BY <3>1, <3>2 DEF Docs
  <2>5. /\ x \in Saver
        /\ x.pc = "update" /\ x.todo = save[r].todo /\ x.copy = c
        /\ x.empty = save[r].empty /\ x.stale = save[r].stale
    BY <1>1, <2>2, <2>4 DEF Saver
  <2>6. Untouched(x) = Untouched(save[r])
    BY <2>5 DEF Untouched
  <2>7. Updating(x)
    BY <1>1, <2>1, <2>4, <2>5, <2>6, StoresWell DEF Updating
  <2>8. Saving(x)
    BY <1>1, <2>5, <2>7 DEF Saving
  <2> QED BY <1>1, <1>3, <2>3, <2>5, <2>8, SaverGoesOn
<1> QED BY <1>2, <1>3 DEF S!Merges, Stores

LEMMA SaveSettingsKeeps == ASSUME Document, NEW r \in Savers, S!SaveSettings(r) PROVE Document'
<1>1. /\ save[r] \in Saver /\ save[r].todo \in Seq(Rounds) /\ save[r].todo # <<>>
      /\ Updating(save[r])
      /\ failures' = failures /\ failures \in Nat
      /\ doc' = save[r].copy
      /\ fresh' = Head(save[r].todo).secret
  BY DEF Document, Saver, Saving, S!SaveSettings, S!Now
<1>2. /\ doc' \in Docs(Stored)
      /\ \A s \in S!Secrets : doc'.secret[s] = "given" <=> s \in fresh'
  BY <1>1 DEF Updating
<1>3. PICK x : x = [pc |-> IF Len(save[r].todo) = 1 THEN "done" ELSE "read",
                    todo |-> Tail(save[r].todo), copy |-> S!Empty, empty |-> FALSE, stale |-> FALSE]
  OBVIOUS
<1>4. /\ x \in Saver
      /\ x.pc \in {"read", "done"}
      /\ x.pc = "read" => x.todo # <<>>
  <2>1. \A todo \in Seq(Rounds) \ {<<>>} :
          /\ Tail(todo) \in Seq(Rounds)
          /\ Len(todo) # 1 => Tail(todo) # <<>>
    <3>1. ASSUME NEW todo \in Seq(Rounds), todo # <<>>
          PROVE  Tail(todo) \in Seq(Rounds) /\ Len(Tail(todo)) = Len(todo) - 1
      BY <3>1
    <3>2. ASSUME NEW todo \in Seq(Rounds), Tail(todo) = <<>>, Len(Tail(todo)) = Len(todo) - 1
          PROVE  Len(todo) = 1
      <4>1. Len(<<>>) = 0
        OBVIOUS
      <4>2. Len(Tail(todo)) = 0
        BY <3>2, <4>1, Zenon
      <4>3. Len(todo) \in Nat
        OBVIOUS
      <4> QED BY <3>2, <4>2, <4>3
    <3> QED BY <3>1, <3>2
  <2>2. /\ Tail(save[r].todo) \in Seq(Rounds)
        /\ Len(save[r].todo) # 1 => Tail(save[r].todo) # <<>>
    BY <1>1, <2>1
  <2> QED BY <1>3, <2>1, <2>2, EmptyIsADocument DEF Saver
<1>5. save' = [S!Outdated(r) EXCEPT ![r] = x]
  BY <1>3 DEF S!SaveSettings
<1>6. ASSUME NEW q \in Savers PROVE save'[q] \in Saver /\ Saving(save[q])'
  <2>1. CASE q = r
    <3>1. save'[q] = x
      BY <1>5, <2>1 DEF S!Outdated
    <3>2. Saving(save[q])'
      BY <1>4, <3>1 DEF Saving
    <3> QED BY <1>4, <3>1, <3>2
  <2>2. CASE q # r
    <3>1. save[q] \in Saver /\ Saving(save[q])
      BY DEF Document
    <3>2. PICK y : y = save'[q]
      OBVIOUS
    <3>3. /\ y = save[q] \/ y = [save[q] EXCEPT !.stale = TRUE]
          /\ save[q].pc = "update" \/ (save[q].pc = "merge" /\ ~save[q].empty)
               => y = [save[q] EXCEPT !.stale = TRUE]
      BY <1>5, <2>2, <3>2 DEF S!Outdated
    <3>4. /\ y \in Saver
          /\ y.pc = save[q].pc /\ y.todo = save[q].todo /\ y.copy = save[q].copy
          /\ y.empty = save[q].empty
          /\ save[q].pc = "update" \/ (save[q].pc = "merge" /\ ~save[q].empty) => y.stale = TRUE
      BY <3>1, <3>3 DEF Saver
    <3>5. Untouched(y) = Untouched(save[q])
      BY <3>4 DEF Untouched
    <3>6. y.pc = "merge" => Merging(y)'
      BY <3>1, <3>4, <3>5 DEF Saving, Merging, Untouched
    <3>7. ASSUME y.pc = "update" PROVE Updating(y)'
      <4>1. y.stale = TRUE /\ Updating(save[q])
        BY <3>1, <3>4, <3>7 DEF Saving
      <4> QED BY <3>4, <4>1 DEF Updating
    <3>8. Saving(save[q])'
      BY <3>1, <3>2, <3>4, <3>6, <3>7 DEF Saving
    <3> QED BY <3>2, <3>4, <3>8
  <2> QED BY <2>1, <2>2
<1>7. save' \in [Savers -> Saver]
  <2>1. DOMAIN save' = Savers /\ save' = [q \in Savers |-> save'[q]]
    BY <1>5 DEF S!Outdated
  <2> QED BY <1>6, <2>1
<1> QED BY <1>1, <1>2, <1>6, <1>7 DEF Document, S!SecretsLastOneSave

LEMMA DocumentKept == ASSUME Document, Told, S!Next PROVE Document'
<1>1. ASSUME NEW r \in Savers, S!UpdateFails(r) PROVE Document'
  BY <1>1, DoneKeeps DEF S!UpdateFails, S!Fails, Document
<1> QED BY <1>1, ComesKeeps, ReadsKeeps, MergesKeeps, SaveSettingsKeeps DEF S!Next

(* Only the statement that succeeds ends an update. *)
LEMMA UpdatesAreSaves ==
  ASSUME Document, S!Next, NEW r \in Savers, S!Updates(r)
  PROVE  S!SaveSettings(r)
<1>1. save[r].pc = "update" /\ save'[r].pc # "update" /\ failures' = failures
  BY DEF S!Updates
<1>2. PICK q \in Savers : S!Comes(q) \/ S!Reads(q) \/ S!Merges(q) \/ S!SaveSettings(q) \/ S!UpdateFails(q)
  BY DEF S!Next
<1>3. ~S!Fails /\ save \in [Savers -> Saver]
  BY <1>1 DEF S!Fails, Document
<1>4. CASE q = r
  BY <1>1, <1>2, <1>3, <1>4 DEF S!Comes, S!Reads, S!Merges, S!UpdateFails
<1>5. CASE q # r
  <2>1. ASSUME NEW x, save' = [save EXCEPT ![q] = x] PROVE FALSE
    BY <1>1, <1>3, <1>5, <2>1
  <2>2. ~S!Comes(q) /\ ~S!Merges(q)
    BY <1>1, <1>3, <1>5 DEF S!Comes, S!Merges
  <2>3. ~S!Reads(q) /\ ~S!UpdateFails(q)
    BY <1>3, <2>1 DEF S!Reads, S!Changes, S!UpdateFails
  <2>4. ~S!SaveSettings(q)
    BY <1>1, <1>3, <1>5, ZenonT(40) DEF S!SaveSettings, S!Outdated, Saver
  <2> QED BY <1>2, <2>2, <2>3, <2>4
<1> QED BY <1>4, <1>5

(* A section or a step of the settings is lost only by a stale save, or by  *)
(* one that began with an empty document, and a secret can be read back    *)
(* only until the next save of anything.                                   *)
THEOREM SettingsAreKept == TenantSpec => SettingsStand
<1>0. Told
  BY SecretAssumption DEF Told
<1>1. TenantInit => Document
  BY <1>0, DocumentStarts DEF TenantInit
<1>2. Document /\ [TenantNext]_all => Document'
  <2> SUFFICES ASSUME Document, [TenantNext]_all PROVE Document'
    OBVIOUS
  <2>1. CASE SettingsStep /\ S!Next
    BY <1>0, <2>1, DocumentKept
  <2>2. CASE UNCHANGED settings
    <3>1. UNCHANGED <<doc, fresh, save, failures>>
      BY <2>2 DEF settings
    <3> QED BY <3>1 DEF Document, Saving, Merging, Updating, Untouched, GivesWay, S!SecretsLastOneSave
  <2> QED
    BY <2>1, <2>2 DEF TenantNext, SubscriptionStep, RegistrationStep, BillingStep, all
<1>3. Document => S!SecretsLastOneSave
  BY DEF Document
<1>4. Document /\ [TenantNext]_all =>
        [\A r \in Savers : S!Updates(r) /\ ~save[r].stale =>
           /\ \A s \in S!Sections \ S!Now(r).gives :
                doc'.given[s] # doc.given[s] =>
                  \/ save[r].empty /\ s \in {"business", "branding"}
                  \/ ~save[r].empty /\ s = "payments" /\ doc.given["mpesa"] # NoRow
           /\ ~save[r].empty => doc.steps \subseteq doc'.steps]_S!vars
  <2> SUFFICES ASSUME Document, [TenantNext]_all, ~UNCHANGED S!vars,
                      NEW r \in Savers, S!Updates(r), ~save[r].stale
               PROVE  /\ \A s \in S!Sections \ S!Now(r).gives :
                           doc'.given[s] # doc.given[s] =>
                             \/ save[r].empty /\ s \in {"business", "branding"}
                             \/ ~save[r].empty /\ s = "payments" /\ doc.given["mpesa"] # NoRow
                      /\ ~save[r].empty => doc.steps \subseteq doc'.steps
    OBVIOUS
  <2>1. S!Next
    BY DEF TenantNext, SubscriptionStep, RegistrationStep, BillingStep, SettingsStep, all, settings, S!vars
  <2>2. S!SaveSettings(r)
    BY <2>1, UpdatesAreSaves
  <2>3. Updating(save[r]) /\ doc' = save[r].copy
    BY <2>2 DEF Document, Saving, S!SaveSettings
  <2> QED BY <2>3 DEF Updating, Untouched, GivesWay, S!Now
<1> QED BY <1>1, <1>2, <1>3, <1>4, PTL DEF TenantSpec, SettingsStand, S!SectionsStand

-----------------------------------------------------------------------------
(* Billing.  The history first: what is put together from its pages is the *)
(* least fixed point of a recursion over their numbers, which the first    *)
(* entries of the history satisfy.                                         *)
LEMMA LeastNumber ==
  ASSUME NEW X, X \subseteq Nat, X # {}
  PROVE  \E x \in X : \A y \in X : x <= y
<1>1. PICK less : less = OpToRel(<, Nat)
  OBVIOUS
<1>2. IsWellFoundedOn(less, Nat)
  BY <1>1, NatLessThanWellFounded
<1>3. PICK x \in X : \A y \in X : ~(<<y, x>> \in less)
  BY <1>2, WFMin
<1>4. \A y \in X : y < x => <<y, x>> \in less
  BY <1>1 DEF OpToRel
<1>5. \A y \in X : ~(y < x)
  BY <1>3, <1>4, Zenon
<1>6. \A y, z \in Nat : ~(z < y) => y <= z
  OBVIOUS
<1> QED BY <1>5, <1>6, Zenon

(* What a recursion over the first numbers comes to *)
Flattens(h, parts, n) == h = [i \in 1..n |-> IF i = 1 THEN parts[i] ELSE h[i - 1] \o parts[i]]

LEMMA FlatteningIsUnique ==
  ASSUME NEW parts, NEW n \in Nat, NEW g, NEW h, Flattens(g, parts, n), Flattens(h, parts, n)
  PROVE  g = h
<1>1. SUFFICES ASSUME g # h PROVE FALSE
  OBVIOUS
<1>2. PICK X : X = {i \in 1..n : g[i] # h[i]}
  OBVIOUS
<1>3. X # {}
  <2>1. g = [i \in 1..n |-> g[i]] /\ h = [i \in 1..n |-> h[i]]
    BY Zenon DEF Flattens
  <2> QED BY <1>1, <1>2, <2>1
<1>4. PICK i \in X : \A j \in X : i <= j
  BY <1>2, <1>3, LeastNumber
<1>5. i # 1
  BY <1>2, <1>4 DEF Flattens
<1>6. i - 1 \in 1..n /\ i - 1 \notin X
  BY <1>2, <1>4, <1>5
<1>7. g[i - 1] = h[i - 1]
  BY <1>2, <1>6
<1>8. g[i] = g[i - 1] \o parts[i] /\ h[i] = h[i - 1] \o parts[i]
  BY <1>2, <1>5, <1>6 DEF Flattens
<1> QED BY <1>2, <1>4, <1>7, <1>8

LEMMA FlatteningIs ==
  ASSUME NEW parts, NEW g, Len(parts) \in Nat \ {0}, Flattens(g, parts, Len(parts))
  PROVE  B!FlattenSeq(parts) = g[Len(parts)]
<1>1. PICK h : h = CHOOSE f : Flattens(f, parts, Len(parts))
  OBVIOUS
<1>2. Flattens(h, parts, Len(parts))
  BY <1>1, Zenon
<1>3. h = g
  BY <1>2, FlatteningIsUnique
<1>4. B!FlattenSeq(parts) = h[Len(parts)]
  BY <1>1 DEF B!FlattenSeq, Flattens
<1> QED BY <1>3, <1>4

PageOf(list, n, limit) ==
  LET last == IF n * limit < Len(list) THEN n * limit ELSE Len(list)
  IN  SubSeq(list, (n - 1) * limit + 1, last)

LEMMA PagesFlatten ==
  ASSUME NEW X, NEW list \in Seq(X), NEW limit \in 1..3, NEW n \in Nat \ {0},
         n = 1 \/ (n - 1) * limit < Len(list), n * limit >= Len(list)
  PROVE  B!FlattenSeq([i \in 1..n |-> PageOf(list, i, limit)]) = list
<1>1. PICK parts : parts = [i \in 1..n |-> PageOf(list, i, limit)]
  OBVIOUS
<1>2. Len(parts) = n
  BY <1>1
<1>3. PICK g : g = [i \in 1..n |-> SubSeq(list, 1, IF i * limit < Len(list) THEN i * limit ELSE Len(list))]
  OBVIOUS
<1>4. ASSUME NEW i \in 1..n PROVE g[i] = IF i = 1 THEN parts[i] ELSE g[i - 1] \o parts[i]
  <2>1. PICK last : last = IF i * limit < Len(list) THEN i * limit ELSE Len(list)
    OBVIOUS
  <2>2. g[i] = SubSeq(list, 1, last)
    BY <1>3, <2>1
  <2>3. parts[i] = SubSeq(list, (i - 1) * limit + 1, last)
    BY <1>1, <2>1 DEF PageOf
  <2>4. CASE i = 1
    <3>1. (i - 1) * limit + 1 = 1
      BY <2>4
    <3> QED BY <2>2, <2>3, <2>4, <3>1
  <2>5. CASE i # 1
    <3>1. (i - 1) * limit < Len(list) /\ i - 1 \in 1..n /\ (i - 1) * limit \in 0..Len(list)
      BY <2>5
    <3>2. g[i - 1] = SubSeq(list, 1, (i - 1) * limit)
      BY <1>3, <3>1
    <3>3. last \in (i - 1) * limit .. Len(list)
      BY <2>1, <3>1
    <3>4. PICK k : k = (i - 1) * limit
      OBVIOUS
    <3>5. SubSeq(list, 1, k) \o SubSeq(list, k + 1, last) = SubSeq(list, 1, last)
      BY <3>1, <3>3, <3>4, ConcatAdjacentSubSeq
    <3> QED BY <2>2, <2>3, <2>5, <3>2, <3>4, <3>5
  <2> QED BY <2>4, <2>5
<1>5. Flattens(g, parts, n)
  BY <1>3, <1>4 DEF Flattens
<1>6. g[n] = list
  <2>1. g[n] = SubSeq(list, 1, Len(list))
    BY <1>3
  <2> QED BY <2>1, SubSeqFull
<1> QED BY <1>1, <1>2, <1>5, <1>6, FlatteningIs

LEMMA HistoryShowsAll == ASSUME NEW X, payments \in Seq(X) PROVE B!HistoryIsWhole
<1> SUFFICES ASSUME NEW limit \in 1..3
             PROVE  payments = B!FlattenSeq([n \in 1..B!NewPaginatedResponse(limit) |->
                                              B!GetBillingHistory(n, limit)])
  BY DEF B!HistoryIsWhole
<1>1. PICK pages : pages = B!NewPaginatedResponse(limit)
  OBVIOUS
<1>2. Len(payments) \in Nat
  OBVIOUS
<1>3. pages \in Nat \ {0} /\ (pages = 1 \/ (pages - 1) * limit < Len(payments))
      /\ pages * limit >= Len(payments)
  <2>1. CASE limit = 1
    BY <1>1, <1>2, <2>1 DEF B!NewPaginatedResponse
  <2>2. CASE limit = 2
    BY <1>1, <1>2, <2>2 DEF B!NewPaginatedResponse
  <2>3. CASE limit = 3
    BY <1>1, <1>2, <2>3 DEF B!NewPaginatedResponse
  <2> QED BY <2>1, <2>2, <2>3
<1>4. ASSUME NEW n \in 1..pages PROVE B!GetBillingHistory(n, limit) = PageOf(payments, n, limit)
  <2>1. PICK k : k = (n - 1) * limit
    OBVIOUS
  <2>2. k + limit = n * limit /\ ~(n < 1)
    BY <1>3, <2>1
  <2>3. PICK last : last = IF k + limit < Len(payments) THEN k + limit ELSE Len(payments)
    OBVIOUS
  <2>4. B!GetBillingHistory(n, limit) = SubSeq(payments, k + 1, last)
    BY <2>1, <2>2, <2>3, Zenon DEF B!GetBillingHistory
  <2>5. PageOf(payments, n, limit) = SubSeq(payments, k + 1, last)
    BY <2>1, <2>2, <2>3, Zenon DEF PageOf
  <2> QED BY <2>4, <2>5
<1>5. [n \in 1..pages |-> B!GetBillingHistory(n, limit)] = [n \in 1..pages |-> PageOf(payments, n, limit)]
  BY <1>4
<1>6. B!FlattenSeq([n \in 1..pages |-> PageOf(payments, n, limit)]) = payments
  BY <1>3, PagesFlatten
<1> QED BY <1>1, <1>5, <1>6, Zenon

(* Prices.  Every row that is stored, or that somebody is about to save,   *)
(* has the price listed for its plan and cycle.                            *)
Shilling(p, cycle) == IF cycle = "yearly" THEN B!Listed[p].yearly ELSE B!Listed[p].monthly

Priced(x) == x \in Bills /\ x.amount = Shilling(x.plan, x.cycle)

PricesAre ==
  /\ row = NoRow \/ Priced(row)
  /\ ask = [r \in Savers |-> ask[r]]
  /\ \A r \in Savers :
       /\ ask[r].pc \in B!Changing => Priced(ask[r].read)
       /\ ask[r].pc = "plan" => ask[r].plan \in B!PlanSlugs /\ ask[r].cycle \in B!Cycles

LEMMA FourPlans ==
  /\ B!PlanSlugs = {"starter", "growth", "business", "enterprise"}
  /\ \A p \in B!PlanSlugs :
       \E i \in 1..4 : B!GetPlan(p) = B!DefaultPlans[i] /\ B!DefaultPlans[i].slug = p
<1>1. DOMAIN B!DefaultPlans = 1..4
      /\ B!DefaultPlans[1].slug = "starter" /\ B!DefaultPlans[2].slug = "growth"
      /\ B!DefaultPlans[3].slug = "business" /\ B!DefaultPlans[4].slug = "enterprise"
  BY DEF B!DefaultPlans
<1>2. B!PlanSlugs = {"starter", "growth", "business", "enterprise"}
  BY <1>1 DEF B!PlanSlugs
<1>3. ASSUME NEW p \in B!PlanSlugs
      PROVE  \E i \in 1..4 : B!GetPlan(p) = B!DefaultPlans[i] /\ B!DefaultPlans[i].slug = p
  <2>1. PICK P : P = B!ToSet(B!DefaultPlans)
    OBVIOUS
  <2>2. \A x : x \in P <=> \E i \in 1..4 : x = B!DefaultPlans[i]
    BY <1>1, <2>1 DEF B!ToSet
  <2>3. \E i \in 1..4 : B!DefaultPlans[i].slug = p
    BY <1>1, <1>2
  <2>4. \E x \in P : x.slug = p
    BY <2>2, <2>3
  <2>5. PICK x : x = B!GetPlan(p)
    OBVIOUS
  <2>6. x \in P /\ x.slug = p
    BY <2>1, <2>4, <2>5 DEF B!GetPlan
  <2> QED BY <2>2, <2>5, <2>6
<1> QED BY <1>2, <1>3

LEMMA PricesAreListed ==
  ASSUME NEW p \in B!PlanSlugs, NEW cycle \in B!Cycles
  PROVE  B!Price(p, cycle) \in Nat /\ B!Price(p, cycle) = Shilling(p, cycle)
         /\ Shilling(p, "monthly") = B!GetMonthlyPriceKES(B!GetPlan(p))
<1>1. PICK i \in 1..4 : B!GetPlan(p) = B!DefaultPlans[i]
  BY FourPlans
<1>2. PICK x : x = B!GetPlan(p)
  OBVIOUS
<1>3. x.monthly \in Nat /\ x.yearly \in Nat /\ (x.yearly = 0 => x.monthly = 0)
  BY <1>1, <1>2 DEF B!DefaultPlans
<1>4. B!Listed[p] = [monthly |-> B!GetMonthlyPriceKES(x), yearly |-> B!GetYearlyPriceKES(x)]
  BY <1>2 DEF B!Listed
<1>5. B!GetMonthlyPriceKES(x) = x.monthly * 150 /\ B!GetYearlyPriceKES(x) = x.yearly * 150
  BY <1>3 DEF B!GetMonthlyPriceKES, B!GetYearlyPriceKES, B!GetExchangeRate
<1>6. B!Price(p, cycle) = (IF cycle = "yearly" THEN x.yearly ELSE x.monthly) * 150
  BY <1>2 DEF B!Price, B!GetExchangeRate
<1>7. Shilling(p, cycle) = (IF cycle = "yearly" THEN x.yearly ELSE x.monthly) * 150
      /\ Shilling(p, "monthly") = B!GetMonthlyPriceKES(x)
  BY <1>4, <1>5 DEF Shilling
<1> QED BY <1>2, <1>3, <1>6, <1>7

LEMMA NewBillIsPriced ==
  ASSUME NEW status \in {"active", "trialing"}, NEW p \in B!PlanSlugs, NEW cycle \in B!Cycles, NEW n,
         n = Shilling(p, cycle)
  PROVE  Priced(B!Row(status, p, cycle, n))
<1>1. PICK x : x = B!Row(status, p, cycle, n)
  OBVIOUS
<1>2. n \in Nat
  BY PricesAreListed
<1>3. x = [status |-> status, plan |-> p, cycle |-> cycle, amount |-> n, method |-> NoRow]
  BY <1>1 DEF B!Row
<1> QED BY <1>1, <1>2, <1>3 DEF Priced, Bills

LEMMA PricesStart == ASSUME B!Init PROVE PricesAre
<1>1. PICK x : x = B!NotYet
  OBVIOUS
<1>2. x.pc = "new"
  BY <1>1 DEF B!NotYet
<1>3. row = NoRow /\ ask = [r \in Savers |-> x]
  BY <1>1, Zenon DEF B!Init
<1> QED BY <1>2, <1>3 DEF PricesAre, B!Changing

(* A request that reads or ends, and what is stored by then *)
LEMMA AskGoesOn ==
  ASSUME PricesAre, NEW r \in Savers, NEW x, ask' = [ask EXCEPT ![r] = x],
         x.pc \in B!Changing => Priced(x.read),
         x.pc = "plan" => x.plan \in B!PlanSlugs /\ x.cycle \in B!Cycles,
         row' = NoRow \/ Priced(row')
  PROVE  PricesAre'
BY DEF PricesAre

LEMMA AskEnds ==
  ASSUME PricesAre, NEW r \in Savers, B!Ends(r), row' = NoRow \/ Priced(row')
  PROVE  PricesAre'
<1>1. PICK x : x = B!Done
  OBVIOUS
<1>2. x.pc = "done"
  BY <1>1 DEF B!Done, B!NotYet
<1>3. ask' = [ask EXCEPT ![r] = x]
  BY <1>1 DEF B!Ends
<1> QED BY <1>2, <1>3, AskGoesOn DEF B!Changing

LEMMA SavedIsPriced ==
  ASSUME PricesAre, NEW r \in Savers, B!Saves(r)
  PROVE  row' = row \/ Priced(row')
<1>1. PICK x : x = ask[r].read
  OBVIOUS
<1>2. ask[r].pc \in B!Changing /\ Priced(x)
  BY <1>1 DEF B!Saves, PricesAre
<1>3. x = [status |-> x.status, plan |-> x.plan, cycle |-> x.cycle, amount |-> x.amount, method |-> x.method]
      /\ x.status \in {"active", "trialing", "canceled"} /\ x.plan \in B!PlanSlugs /\ x.cycle \in B!Cycles
      /\ x.amount \in Nat /\ x.method \in B!Methods \cup {NoRow}
  BY <1>2 DEF Priced, Bills
<1>4. CASE ask[r].pc = "plan" /\ row' = B!UpgradePlan(x, ask[r].plan, ask[r].cycle)
  <2>1. PICK p \in B!PlanSlugs, cycle \in B!Cycles : p = ask[r].plan /\ cycle = ask[r].cycle
    BY <1>4 DEF PricesAre
  <2>2. PICK n \in Nat : n = B!Price(p, cycle) /\ n = Shilling(p, cycle)
    BY PricesAreListed
  <2>3. PICK y : y = [status |-> x.status, plan |-> p, cycle |-> cycle, amount |-> n, method |-> x.method]
    OBVIOUS
  <2>4. row' = y
    <3>1. row' = [x EXCEPT !.plan = p, !.cycle = cycle, !.amount = n]
      BY <1>4, <2>1, <2>2, Zenon DEF B!UpgradePlan
    <3>2. PICK one : one = [x EXCEPT !.plan = p]
      OBVIOUS
    <3>3. one = [status |-> x.status, plan |-> p, cycle |-> x.cycle, amount |-> x.amount, method |-> x.method]
      BY <1>3, <3>2
    <3>4. PICK two : two = [one EXCEPT !.cycle = cycle]
      OBVIOUS
    <3>5. two = [status |-> x.status, plan |-> p, cycle |-> cycle, amount |-> x.amount, method |-> x.method]
      BY <3>3, <3>4
    <3>6. row' = [two EXCEPT !.amount = n]
      BY <3>1, <3>2, <3>4
    <3> QED BY <2>3, <3>5, <3>6
  <2>5. Priced(y)
    BY <1>3, <2>2, <2>3 DEF Priced, Bills
  <2> QED BY <2>4, <2>5
<1>5. CASE row' = [x EXCEPT !.method = "mpesa"]
  <2>1. PICK y : y = [status |-> x.status, plan |-> x.plan, cycle |-> x.cycle, amount |-> x.amount,
                      method |-> "mpesa"]
    OBVIOUS
  <2>2. row' = y
    BY <1>3, <1>5, <2>1
  <2>3. Priced(y)
    BY <1>2, <1>3, <2>1 DEF Priced, Bills, B!Methods
  <2> QED BY <2>2, <2>3
<1>6. ASSUME NEW status \in {"active", "canceled"}, row' = [x EXCEPT !.status = status] PROVE Priced(row')
  <2>1. PICK y : y = [status |-> status, plan |-> x.plan, cycle |-> x.cycle, amount |-> x.amount,
                      method |-> x.method]
    OBVIOUS
  <2>2. row' = y
    BY <1>3, <1>6, <2>1
  <2>3. Priced(y)
    BY <1>2, <1>3, <2>1 DEF Priced, Bills
  <2> QED BY <2>2, <2>3
<1>7. \/ ask[r].pc = "plan" /\ row' = B!UpgradePlan(x, ask[r].plan, ask[r].cycle)
      \/ row' = [x EXCEPT !.method = "mpesa"]
      \/ \E status \in {"active", "canceled"} : row' = [x EXCEPT !.status = status]
      \/ row' = row
  BY <1>1, <1>2 DEF B!Saves, B!Changing
<1> QED BY <1>4, <1>5, <1>6, <1>7

LEMMA RequestsArePriced ==
  ASSUME PricesAre, NEW r \in Savers, B!Request(r)
  PROVE  PricesAre' /\ (row' = NoRow => row = NoRow)
<1>1. row = NoRow \/ Priced(row)
  BY DEF PricesAre
<1>2. \A x : Priced(x) => x # NoRow
  BY BillsAssumption DEF Priced
<1>3. ASSUME NEW p \in Asked, NEW cycle \in B!Cycles, B!CreateSubscription(r, p, cycle)
      PROVE  PricesAre' /\ (row' = NoRow => row = NoRow)
  <2>1. PICK x : x = B!Row("active", p, cycle, B!Price(p, cycle))
    OBVIOUS
  <2>2. Priced(x)
    BY <2>1, AskedAssumption, PricesAreListed, NewBillIsPriced
  <2>3. row' = row \/ row' = x
    BY <1>3, <2>1 DEF B!CreateSubscription
  <2>4. B!Ends(r)
    BY <1>3 DEF B!CreateSubscription
  <2> QED BY <1>1, <1>2, <2>2, <2>3, <2>4, AskEnds
<1>4. ASSUME NEW p \in Asked, B!CreateCheckoutSession(r, p)
      PROVE  PricesAre' /\ (row' = NoRow => row = NoRow)
  <2>1. PICK x : x = B!Row("active", p, "monthly", B!Price(p, "monthly"))
    OBVIOUS
  <2>2. Priced(x)
    BY <2>1, AskedAssumption, PricesAreListed, NewBillIsPriced DEF B!Cycles
  <2>3. row' = row \/ row' = x
    BY <1>4, <2>1 DEF B!CreateCheckoutSession
  <2>4. B!Ends(r)
    BY <1>4 DEF B!CreateCheckoutSession
  <2> QED BY <1>1, <1>2, <2>2, <2>3, <2>4, AskEnds
<1>5. CASE B!SetDefaultPaymentMethod(r)
  <2>1. CASE row = NoRow
    BY <1>5, <2>1, AskEnds DEF B!SetDefaultPaymentMethod
  <2>2. CASE row # NoRow
    <3>1. Priced(row) /\ row' = [row EXCEPT !.method = "own"]
      BY <1>1, <1>5, <2>2 DEF B!SetDefaultPaymentMethod
    <3>2. PICK y : y = [status |-> row.status, plan |-> row.plan, cycle |-> row.cycle, amount |-> row.amount,
                        method |-> "own"]
      OBVIOUS
    <3>3. row' = y
      BY <3>1, <3>2 DEF Priced, Bills
    <3>4. Priced(y)
      BY <3>1, <3>2 DEF Priced, Bills, B!Methods
    <3> QED BY <1>2, <1>5, <3>3, <3>4, AskEnds DEF B!SetDefaultPaymentMethod
  <2> QED BY <2>1, <2>2
<1>6. CASE B!DeletePaymentMethod(r)
  BY <1>1, <1>6, AskEnds DEF B!DeletePaymentMethod
<1>7. ASSUME NEW change, NEW p, NEW cycle, B!GetSubscription(r, change, p, cycle),
             change = "plan" => p \in B!PlanSlugs /\ cycle \in B!Cycles
      PROVE  PricesAre' /\ (row' = NoRow => row = NoRow)
  <2>1. row' = row
    BY <1>7 DEF B!GetSubscription
  <2>2. CASE row = NoRow
    BY <1>7, <2>1, <2>2, AskEnds DEF B!GetSubscription
  <2>3. CASE row # NoRow
    <3>1. PICK x : x = [pc |-> change, read |-> row, plan |-> p, cycle |-> cycle]
      OBVIOUS
    <3>2. ask' = [ask EXCEPT ![r] = x]
      BY <1>7, <2>3, <3>1 DEF B!GetSubscription
    <3>3. x.pc = change /\ x.read = row /\ x.plan = p /\ x.cycle = cycle
      BY <3>1
    <3> QED BY <1>1, <1>7, <2>1, <2>3, <3>2, <3>3, AskGoesOn
  <2> QED BY <2>2, <2>3
<1>8. CASE B!Saves(r)
  <2>1. B!Ends(r)
    BY <1>8 DEF B!Saves
  <2> QED BY <1>1, <1>2, <1>8, <2>1, AskEnds, SavedIsPriced
<1>9. \/ \E p \in Asked : \/ B!CreateCheckoutSession(r, p)
                          \/ \E cycle \in B!Cycles : \/ B!CreateSubscription(r, p, cycle)
                                                     \/ B!GetSubscription(r, "plan", p, cycle)
      \/ \E change \in B!Changing \ {"plan"} : B!GetSubscription(r, change, NoRow, NoRow)
      \/ B!SetDefaultPaymentMethod(r) \/ B!DeletePaymentMethod(r) \/ B!Saves(r)
  BY DEF B!Request
<1>10. ASSUME NEW p \in Asked, NEW cycle \in B!Cycles, B!GetSubscription(r, "plan", p, cycle)
       PROVE  PricesAre' /\ (row' = NoRow => row = NoRow)
  BY <1>7, <1>10, AskedAssumption
<1>11. ASSUME NEW change \in B!Changing \ {"plan"}, B!GetSubscription(r, change, NoRow, NoRow)
       PROVE  PricesAre' /\ (row' = NoRow => row = NoRow)
  BY <1>7, <1>11
<1> QED BY <1>3, <1>4, <1>5, <1>6, <1>8, <1>9, <1>10, <1>11, Zenon

LEMMA MessagesArePriced ==
  ASSUME PricesAre, NEW d \in Deliveries, B!HandleIntasendWebhook(d)
  PROVE  PricesAre' /\ (row' = NoRow => row = NoRow)
<1>1. ask' = ask /\ (row' = row \/ B!Activates(d))
  BY DEF B!HandleIntasendWebhook, B!IntasendVerification, B!ChecksMark, B!Ignores, B!RecordBillingPayment,
     B!Activates, B!MarkProcessed, B!subscription
<1>2. CASE row' = row
  BY <1>1, <1>2 DEF PricesAre
<1>3. CASE B!Activates(d)
  <2>1. PICK x : x = B!Row("trialing", "starter", "monthly", B!GetMonthlyPriceKES(B!GetPlan("starter")))
    OBVIOUS
  <2>2. "starter" \in B!PlanSlugs /\ "monthly" \in B!Cycles
    BY FourPlans DEF B!Cycles
  <2>3. Priced(x)
    BY <2>1, <2>2, PricesAreListed, NewBillIsPriced
  <2>4. row' = row \/ row' = x
    BY <1>3, <2>1 DEF B!Activates
  <2>5. x # NoRow
    BY <2>3, BillsAssumption DEF Priced
  <2> QED BY <1>1, <2>3, <2>4, <2>5 DEF PricesAre
<1> QED BY <1>1, <1>2, <1>3

(* Payments.  A checkout is recorded, or about to be, once for each failure *)
(* of its guard, and once more if it is marked or a delivery that will     *)
(* mark it is under way.                                                   *)
OnWay == {"record", "activate", "mark"}

Recorded(list, c)      == {i \in DOMAIN list : list[i] = c}
Recording(parcels, c)  == {d \in Deliveries : parcels[d].pc = "record" /\ parcels[d].checkout = c}
Guards(m, c)           == m.pc \in OnWay /\ m.checkout = c /\ m.guarded
Guarding(parcels, c)   == \E d \in Deliveries : Guards(parcels[d], c)
Within(list, c)          == \E i \in DOMAIN list : list[i] = c
Noted(list, refusals, c) == c \in refusals \/ Within(list, c)

Carried(m) ==
  /\ m = [pc |-> m.pc, checkout |-> m.checkout, tenant |-> m.tenant, guarded |-> m.guarded]
  /\ m.pc \in OnWay \cup {"new", "check", "done"}
  /\ m.checkout \in Checkouts \cup {NoRow} /\ m.guarded \in BOOLEAN

Messages == message = [d \in Deliveries |-> message[d]] /\ \A d \in Deliveries : Carried(message[d])

WithinSlips(c) ==
  Cardinality(Recorded(payments, c)) + Cardinality(Recording(message, c))
    <= slips[c] + (IF c \in marks \/ Guarding(message, c) THEN 1 ELSE 0)

PaymentsAre ==
  /\ payments \in Seq(Checkouts \cup {NoRow}) /\ slips \in [Checkouts -> Nat] /\ marks \subseteq Checkouts
  /\ Messages
  /\ \A c \in Checkouts : WithinSlips(c)
  /\ \A d \in Deliveries : message[d].pc \in {"activate", "mark"} =>
       Noted(payments, unrecorded, message[d].checkout)
  /\ \A c \in marks : Noted(payments, unrecorded, c)

LEMMA RecordedIsFinite ==
  ASSUME NEW X, NEW list \in Seq(X), NEW c
  PROVE  IsFiniteSet(Recorded(list, c)) /\ Cardinality(Recorded(list, c)) \in Nat
<1>1. Recorded(list, c) \subseteq 1..Len(list) /\ IsFiniteSet(1..Len(list))
  BY FS_Interval DEF Recorded
<1> QED BY <1>1, FS_Subset, FS_CardinalityType

Ahead(x, list) == <<x>> \o list

LEMMA OneMoreRecorded ==
  ASSUME NEW X, NEW list \in Seq(X), NEW x \in X, NEW more, more = Ahead(x, list), NEW c
  PROVE  /\ more \in Seq(X)
         /\ Cardinality(Recorded(more, c)) = Cardinality(Recorded(list, c)) + (IF x = c THEN 1 ELSE 0)
         /\ x = c \/ Within(list, c) => Within(more, c)
<1>2. /\ more \in Seq(X) /\ Len(more) = Len(list) + 1 /\ more[1] = x
      /\ \A i \in 1..Len(list) : more[i + 1] = list[i]
  BY DEF Ahead
<1>3. PICK O : O = Recorded(list, c)
  OBVIOUS
<1>4. PICK T : T = {i \in 2..Len(list) + 1 : list[i - 1] = c}
  OBVIOUS
<1>5. PICK f : f = [i \in O |-> i + 1]
  OBVIOUS
<1>6. O \subseteq 1..Len(list) /\ \A i \in 1..Len(list) : i \in O <=> list[i] = c
  BY <1>3 DEF Recorded
<1>7. f \in Bijection(O, T)
  <2>1. f \in [O -> T]
    BY <1>4, <1>5, <1>6
  <2>2. \A i, j \in O : f[i] = f[j] => i = j
    BY <1>5, <1>6
  <2>3. \A j \in T : \E i \in O : f[i] = j
    <3>1. SUFFICES ASSUME NEW j \in T PROVE j - 1 \in O /\ f[j - 1] = j
      OBVIOUS
    <3> QED BY <1>4, <1>5, <1>6
  <2>4. f \in Injection(O, T)
    BY <2>1, <2>2 DEF Injection, IsInjective
  <2>5. f \in Surjection(O, T)
    BY <2>1, <2>3 DEF Surjection
  <2> QED BY <2>4, <2>5 DEF Bijection
<1>8. IsFiniteSet(O)
  BY <1>3, RecordedIsFinite
<1>9. IsFiniteSet(T) /\ Cardinality(T) = Cardinality(O)
  BY <1>7, <1>8, FS_Bijection DEF ExistsBijection
<1>10. Recorded(more, c) = IF x = c THEN T \cup {1} ELSE T
  <2>1. DOMAIN more = 1..Len(list) + 1
    BY <1>2
  <2>2. \A j \in 2..Len(list) + 1 : more[j] = list[j - 1]
    <3>1. ASSUME NEW j \in 2..Len(list) + 1 PROVE j - 1 \in 1..Len(list) /\ (j - 1) + 1 = j
      OBVIOUS
    <3> QED BY <1>2, <3>1
  <2>3. ASSUME NEW j \in 1..Len(list) + 1
        PROVE  j \in Recorded(more, c) <=> j \in IF x = c THEN T \cup {1} ELSE T
    BY <1>2, <1>4, <2>1, <2>2 DEF Recorded
  <2>4. Recorded(more, c) \subseteq 1..Len(list) + 1 /\ T \cup {1} \subseteq 1..Len(list) + 1
    BY <1>4, <2>1 DEF Recorded
  <2> QED BY <2>3, <2>4
<1>11. 1 \notin T
  BY <1>4
<1>12. Cardinality(Recorded(more, c)) = Cardinality(O) + (IF x = c THEN 1 ELSE 0)
  <2>1. Cardinality(T \cup {1}) = Cardinality(T) + 1
    BY <1>9, <1>11, FS_AddElement
  <2>2. Cardinality(O) \in Nat
    BY <1>8, FS_CardinalityType
  <2> QED BY <1>9, <1>10, <2>1, <2>2
<1>13. x = c \/ Within(list, c) => Within(more, c)
  <2>1. CASE x = c
    BY <1>2, <2>1 DEF Within
  <2>2. ASSUME NEW i \in DOMAIN list, list[i] = c PROVE i + 1 \in DOMAIN more /\ more[i + 1] = c
    BY <1>2, <2>2
  <2> QED BY <2>1, <2>2 DEF Within
<1> QED BY <1>2, <1>3, <1>12, <1>13

LEMMA RecordingIsFinite ==
  ASSUME NEW parcels, NEW c
  PROVE  IsFiniteSet(Recording(parcels, c)) /\ Cardinality(Recording(parcels, c)) \in Nat
BY DeliveriesAssumption, FS_Subset, FS_CardinalityType DEF Recording

(* One delivery goes on *)
LEMMA MessageTurns ==
  ASSUME Messages, NEW d \in Deliveries, NEW m, message' = [message EXCEPT ![d] = m], Carried(m)
  PROVE  /\ Messages' /\ message'[d] = m /\ \A q \in Deliveries \ {d} : message'[q] = message[q]
         /\ \A c : /\ Cardinality(Recording(message', c))
                        = Cardinality(Recording(message, c))
                            + (IF m.pc = "record" /\ m.checkout = c THEN 1 ELSE 0)
                            - (IF message[d].pc = "record" /\ message[d].checkout = c THEN 1 ELSE 0)
                   /\ Guards(m, c) => Guarding(message', c)
                   /\ Guarding(message, c) /\ ~Guards(message[d], c) => Guarding(message', c)
<1>1. /\ message' = [q \in Deliveries |-> message'[q]] /\ message'[d] = m
      /\ \A q \in Deliveries \ {d} : message'[q] = message[q]
  BY DEF Messages
<1>2. Messages'
  BY <1>1 DEF Messages, Carried
<1>3. ASSUME NEW c
      PROVE  /\ Cardinality(Recording(message', c))
                  = Cardinality(Recording(message, c))
                      + (IF m.pc = "record" /\ m.checkout = c THEN 1 ELSE 0)
                      - (IF message[d].pc = "record" /\ message[d].checkout = c THEN 1 ELSE 0)
             /\ Guards(m, c) => Guarding(message', c)
             /\ Guarding(message, c) /\ ~Guards(message[d], c) => Guarding(message', c)
  <2>1. PICK O, N : O = Recording(message, c) /\ N = Recording(message', c)
    OBVIOUS
  <2>2. IsFiniteSet(O) /\ Cardinality(O) \in Nat
    BY <2>1, RecordingIsFinite
  <2>3. d \in O <=> message[d].pc = "record" /\ message[d].checkout = c
    BY <2>1 DEF Recording
  <2>4. N = IF m.pc = "record" /\ m.checkout = c THEN O \cup {d} ELSE O \ {d}
    BY <1>1, <2>1 DEF Recording
  <2>5. Cardinality(N) = Cardinality(O)
                           + (IF m.pc = "record" /\ m.checkout = c THEN 1 ELSE 0)
                           - (IF message[d].pc = "record" /\ message[d].checkout = c THEN 1 ELSE 0)
    <3>1. Cardinality(O \cup {d}) = IF d \in O THEN Cardinality(O) ELSE Cardinality(O) + 1
      BY <2>2, FS_AddElement
    <3>2. Cardinality(O \ {d}) = IF d \in O THEN Cardinality(O) - 1 ELSE Cardinality(O)
      BY <2>2, FS_RemoveElement
    <3>3. CASE m.pc = "record" /\ m.checkout = c
      BY <2>2, <2>3, <2>4, <3>1, <3>3
    <3>4. CASE ~(m.pc = "record" /\ m.checkout = c)
      BY <2>2, <2>3, <2>4, <3>2, <3>4
    <3> QED BY <3>3, <3>4
  <2>6. Guards(m, c) => Guarding(message', c)
    BY <1>1 DEF Guarding
  <2>7. Guarding(message, c) /\ ~Guards(message[d], c) => Guarding(message', c)
    BY <1>1 DEF Guarding
  <2> QED BY <2>1, <2>5, <2>6, <2>7
<1> QED BY <1>1, <1>2, <1>3

Count(list, c) == Cardinality(Recorded(list, c))

(* What a delivery that goes on to m, and adds n payments, may do: take up  *)
(* room it leaves, or is given by a slip, or, where no guard is and none   *)
(* was, the one place                                                      *)
Fits(n, d, m, c) ==
  LET more == n + (IF m.pc = "record" /\ m.checkout = c THEN 1 ELSE 0)
                - (IF message[d].pc = "record" /\ message[d].checkout = c THEN 1 ELSE 0)
  IN  \/ more + (IF Guards(message[d], c) /\ ~Guards(m, c) /\ c \notin marks' THEN 1 ELSE 0)
           <= slips'[c] - slips[c]
      \/ /\ more <= 1 /\ slips'[c] = slips[c]
         /\ Guards(m, c) /\ ~Guarding(message, c) /\ c \notin marks

Turns(d, m) ==
  /\ message' = [message EXCEPT ![d] = m] /\ Carried(m)
  /\ payments' \in Seq(Checkouts \cup {NoRow}) /\ slips' \in [Checkouts -> Nat]
  /\ marks' \subseteq Checkouts /\ marks \subseteq marks'
  /\ \A c \in Checkouts : Fits(Count(payments', c) - Count(payments, c), d, m, c)
  /\ \A k : Noted(payments, unrecorded, k) => Noted(payments', unrecorded', k)
  /\ m.pc \in {"activate", "mark"} => Noted(payments', unrecorded', m.checkout)
  /\ \A c \in marks' \ marks : Noted(payments', unrecorded', c)

LEMMA DeliveryGoesOn ==
  ASSUME PaymentsAre, NEW d \in Deliveries, NEW m, Turns(d, m)
  PROVE  PaymentsAre'
<1>1. Messages /\ message' = [message EXCEPT ![d] = m] /\ Carried(m)
  BY DEF PaymentsAre, Turns
<1>2. /\ Messages' /\ message'[d] = m /\ \A q \in Deliveries \ {d} : message'[q] = message[q]
      /\ \A c : /\ Cardinality(Recording(message', c))
                     = Cardinality(Recording(message, c))
                         + (IF m.pc = "record" /\ m.checkout = c THEN 1 ELSE 0)
                         - (IF message[d].pc = "record" /\ message[d].checkout = c THEN 1 ELSE 0)
                /\ Guards(m, c) => Guarding(message', c)
                /\ Guarding(message, c) /\ ~Guards(message[d], c) => Guarding(message', c)
  BY <1>1, MessageTurns
<1>3. ASSUME NEW c \in Checkouts PROVE WithinSlips(c)'
  <2>1. PICK a, b, e, n : /\ a = Cardinality(Recording(message, c)) /\ b = Cardinality(Recording(message', c))
                          /\ e = Count(payments, c) /\ n = Count(payments', c)
    OBVIOUS
  <2>2. a \in Nat /\ b \in Nat /\ e \in Nat /\ n \in Nat /\ slips[c] \in Nat /\ slips'[c] \in Nat
    BY <2>1, RecordedIsFinite, RecordingIsFinite DEF PaymentsAre, Turns, Count
  <2>3. PICK now, was : /\ now = (IF m.pc = "record" /\ m.checkout = c THEN 1 ELSE 0)
                        /\ was = (IF message[d].pc = "record" /\ message[d].checkout = c THEN 1 ELSE 0)
    OBVIOUS
  <2>4. b = a + now - was /\ now \in Nat /\ was \in Nat
    BY <1>2, <2>1, <2>3
  <2>5. e + a <= slips[c] + (IF c \in marks \/ Guarding(message, c) THEN 1 ELSE 0)
    BY <2>1 DEF PaymentsAre, WithinSlips, Count
  <2>6. \/ n - e + now - was
             + (IF Guards(message[d], c) /\ ~Guards(m, c) /\ c \notin marks' THEN 1 ELSE 0)
             <= slips'[c] - slips[c]
        \/ /\ n - e + now - was <= 1 /\ slips'[c] = slips[c]
           /\ Guards(m, c) /\ ~Guarding(message, c) /\ c \notin marks
    BY <2>1, <2>3 DEF Turns, Fits
  <2>7. /\ c \in marks => c \in marks'
        /\ Guards(m, c) => Guarding(message', c)
        /\ Guarding(message, c) /\ ~Guards(message[d], c) => Guarding(message', c)
    BY <1>2 DEF Turns
  <2>8. n + b <= slips'[c] + (IF c \in marks' \/ Guarding(message', c) THEN 1 ELSE 0)
    BY <2>2, <2>4, <2>5, <2>6, <2>7
  <2> QED BY <2>1, <2>8 DEF WithinSlips, Count
<1>4. ASSUME NEW q \in Deliveries, message'[q].pc \in {"activate", "mark"}
      PROVE  Noted(payments', unrecorded', message'[q].checkout)
  BY <1>2, <1>4 DEF PaymentsAre, Turns
<1>5. \A c \in marks' : Noted(payments', unrecorded', c)
  BY DEF PaymentsAre, Turns
<1> QED BY <1>2, <1>3, <1>4, <1>5 DEF PaymentsAre, Turns

LEMMA MovesOn ==
  ASSUME Messages, NEW d \in Deliveries, NEW pc \in OnWay, B!Moved(d, pc)
  PROVE  \E m : /\ message' = [message EXCEPT ![d] = m] /\ Carried(m) /\ m.pc = pc
                /\ m.checkout = message[d].checkout /\ m.guarded = message[d].guarded
<1>1. PICK q : q = message[d]
  OBVIOUS
<1>2. Carried(q)
  BY <1>1 DEF Messages
<1>3. PICK m : m = [pc |-> pc, checkout |-> q.checkout, tenant |-> q.tenant, guarded |-> q.guarded]
  OBVIOUS
<1>4. m.pc = pc /\ m.checkout = q.checkout /\ m.guarded = q.guarded /\ Carried(m)
  BY <1>2, <1>3 DEF Carried
<1>5. m = [q EXCEPT !.pc = pc]
  BY <1>2, <1>3 DEF Carried
<1>6. message' = [message EXCEPT ![d] = m]
  BY <1>1, <1>5, Zenon DEF B!Moved
<1> QED BY <1>1, <1>4, <1>6

LEMMA MessageEnds ==
  ASSUME NEW d \in Deliveries, B!Over(d)
  PROVE  \E m : message' = [message EXCEPT ![d] = m] /\ Carried(m) /\ m.pc = "done"
<1>1. PICK m : m = [B!Arrival EXCEPT !.pc = "done"]
  OBVIOUS
<1>2. m = [pc |-> "done", checkout |-> NoRow, tenant |-> FALSE, guarded |-> FALSE]
  BY <1>1 DEF B!Arrival
<1>3. Carried(m) /\ m.pc = "done"
  BY <1>2 DEF Carried
<1>4. message' = [message EXCEPT ![d] = m]
  BY <1>1, Zenon DEF B!Over
<1> QED BY <1>3, <1>4

LEMMA PaymentsStart == ASSUME B!Init PROVE PaymentsAre
<1>1. PICK x : x = B!Arrival
  OBVIOUS
<1>2. x = [pc |-> "new", checkout |-> NoRow, tenant |-> FALSE, guarded |-> FALSE]
  BY <1>1 DEF B!Arrival
<1>3. Carried(x) /\ x.pc = "new"
  BY <1>2 DEF Carried
<1>4. /\ message = [d \in Deliveries |-> x] /\ payments = <<>> /\ marks = {}
      /\ slips = [c \in Checkouts |-> 0]
  BY <1>1, Zenon DEF B!Init
<1>5. Messages
  BY <1>3, <1>4 DEF Messages
<1>6. ASSUME NEW c \in Checkouts PROVE WithinSlips(c)
  <2>1. Recorded(payments, c) = {} /\ Recording(message, c) = {} /\ ~Guarding(message, c)
    BY <1>3, <1>4 DEF Recorded, Recording, Guarding, Guards, OnWay
  <2>2. slips[c] = 0 /\ c \notin marks
    BY <1>4
  <2> QED BY <2>1, <2>2, FS_EmptySet DEF WithinSlips
<1> QED BY <1>3, <1>4, <1>5, <1>6 DEF PaymentsAre

LEMMA SlipsGrow ==
  ASSUME slips \in [Checkouts -> Nat], NEW c \in Checkouts \cup {NoRow}, B!Slipped(c)
  PROVE  /\ slips' \in [Checkouts -> Nat]
         /\ \A k \in Checkouts : slips'[k] = slips[k] + (IF k = c THEN 1 ELSE 0)
BY BillsAssumption DEF B!Slipped

(* Of the deliveries, those that record nothing *)
Unpaid(d, m) ==
  /\ message' = [message EXCEPT ![d] = m] /\ Carried(m)
  /\ payments' = payments /\ unrecorded \subseteq unrecorded'
  /\ slips' \in [Checkouts -> Nat] /\ marks' \subseteq Checkouts /\ marks \subseteq marks'
  /\ \A c \in Checkouts : Fits(0, d, m, c)
  /\ m.pc \in {"activate", "mark"} => Noted(payments, unrecorded', m.checkout)
  /\ \A c \in marks' \ marks : Noted(payments, unrecorded', c)

LEMMA TurnsUnpaid ==
  ASSUME PaymentsAre, NEW d \in Deliveries, NEW m, Unpaid(d, m)
  PROVE  PaymentsAre'
<1>1. ASSUME NEW c \in Checkouts PROVE Fits(Count(payments', c) - Count(payments, c), d, m, c)
  <2>1. PICK n : n = Count(payments, c)
    OBVIOUS
  <2>2. n \in Nat /\ Count(payments', c) = n
    BY <2>1, RecordedIsFinite DEF Count, PaymentsAre, Unpaid
  <2>3. Count(payments', c) - Count(payments, c) = 0
    BY <2>1, <2>2
  <2>4. Fits(0, d, m, c)
    BY DEF Unpaid
  <2> QED BY <2>3, <2>4, Zenon
<1>2. \A k : Noted(payments, unrecorded, k) => Noted(payments', unrecorded', k)
  BY DEF Noted, Unpaid
<1>3. payments' \in Seq(Checkouts \cup {NoRow})
  BY DEF PaymentsAre, Unpaid
<1>4. Turns(d, m)
  BY <1>1, <1>2, <1>3 DEF Turns, Unpaid
<1> QED BY <1>4, DeliveryGoesOn

(* What the delivery carries *)
LEMMA CarriedNow ==
  ASSUME PaymentsAre, NEW d \in Deliveries
  PROVE  /\ message[d].checkout \in Checkouts \cup {NoRow} /\ message[d].guarded \in BOOLEAN
         /\ Messages /\ slips \in [Checkouts -> Nat] /\ marks \subseteq Checkouts
BY DEF PaymentsAre, Messages, Carried

LEMMA ArrivalKeeps ==
  ASSUME PaymentsAre, NEW d \in Deliveries, NEW c \in Checkouts \cup {NoRow}, NEW stamp,
         NEW tenant, NEW keyed, redis \in BOOLEAN,
         B!IntasendVerification(d, c, stamp, tenant, keyed)
  PROVE  PaymentsAre'
<1>1. PICK x : x = B!Arrival
  OBVIOUS
<1>2. x = [pc |-> "new", checkout |-> NoRow, tenant |-> FALSE, guarded |-> FALSE]
  BY <1>1 DEF B!Arrival
<1>3. PICK over : over = [x EXCEPT !.pc = "done"]
  OBVIOUS
<1>4. Carried(over) /\ over.pc = "done"
  BY <1>2, <1>3 DEF Carried
<1>5. PICK m : m = IF B!Verified(stamp)
                   THEN [pc |-> "check", checkout |-> c, tenant |-> tenant, guarded |-> redis /\ keyed]
                   ELSE over
  OBVIOUS
<1>6. PICK guarded \in BOOLEAN : guarded = (redis /\ keyed)
  OBVIOUS
<1>7. Carried(m) /\ m.pc \in {"check", "done"}
  <2>1. CASE B!Verified(stamp)
    <3>1. m = [pc |-> "check", checkout |-> c, tenant |-> tenant, guarded |-> guarded]
      BY <1>5, <1>6, <2>1, Zenon
    <3> QED BY <3>1 DEF Carried
  <2>2. CASE ~B!Verified(stamp)
    BY <1>4, <1>5, <2>2
  <2> QED BY <2>1, <2>2
<1>8. /\ message' = [message EXCEPT ![d] = m] /\ message[d].pc = "new"
      /\ payments' = payments /\ marks' = marks /\ slips' = slips /\ unrecorded' = unrecorded
  <2>1. message' = [message EXCEPT ![d] = m]
    BY <1>1, <1>3, <1>5, Zenon DEF B!IntasendVerification
  <2>2. message[d] = x
    BY <1>1, Zenon DEF B!IntasendVerification
  <2>3. UNCHANGED <<payments, marks, slips, unrecorded>>
    BY Zenon DEF B!IntasendVerification
  <2> QED BY <1>2, <2>1, <2>2, <2>3
<1>9. \A k \in Checkouts : ~Guards(message[d], k)
  BY <1>8 DEF Guards, OnWay
<1>10. ASSUME NEW k \in Checkouts PROVE Fits(0, d, m, k)
  BY <1>7, <1>8, <1>9, CarriedNow DEF Fits
<1>11. Unpaid(d, m)
  BY <1>7, <1>8, <1>10, CarriedNow DEF Unpaid
<1> QED BY <1>11, TurnsUnpaid

LEMMA ChecksMarkKeeps ==
  ASSUME PaymentsAre, NEW d \in Deliveries, B!ChecksMark(d)
  PROVE  PaymentsAre'
<1>1. PICK c : c = message[d].checkout
  OBVIOUS
<1>2. PICK looked \in BOOLEAN : looked = (message[d].guarded /\ c # NoRow)
  OBVIOUS
<1>3. /\ message[d].pc = "check"
      /\ payments' = payments /\ marks' = marks /\ unrecorded' = unrecorded
  BY DEF B!ChecksMark
<1>4. \A k \in Checkouts : ~Guards(message[d], k)
  BY <1>3 DEF Guards, OnWay
<1>5. CASE B!Over(d) /\ slips' = slips
  <2>1. PICK m : message' = [message EXCEPT ![d] = m] /\ Carried(m) /\ m.pc = "done"
    BY <1>5, MessageEnds
  <2>2. ASSUME NEW k \in Checkouts PROVE Fits(0, d, m, k)
    BY <1>3, <1>4, <1>5, <2>1, CarriedNow DEF Fits
  <2>3. Unpaid(d, m)
    BY <1>3, <1>5, <2>1, <2>2, CarriedNow DEF Unpaid
  <2> QED BY <2>3, TurnsUnpaid
<1>6. CASE B!Moved(d, "record") /\ B!Slipped(c)
  <2>1. PICK m : /\ message' = [message EXCEPT ![d] = m] /\ Carried(m) /\ m.pc = "record"
                 /\ m.checkout = c
    BY <1>1, <1>6, CarriedNow, MovesOn DEF OnWay
  <2>2. /\ slips' \in [Checkouts -> Nat]
        /\ \A k \in Checkouts : slips'[k] = slips[k] + (IF k = c THEN 1 ELSE 0)
    BY <1>1, <1>6, CarriedNow, SlipsGrow
  <2>3. \A k \in Checkouts : slips'[k] - slips[k] = IF k = c THEN 1 ELSE 0
    BY <2>2, CarriedNow
  <2>4. ASSUME NEW k \in Checkouts PROVE Fits(0, d, m, k)
    BY <1>3, <1>4, <2>1, <2>3 DEF Fits
  <2>5. Unpaid(d, m)
    BY <1>3, <2>1, <2>2, <2>4, CarriedNow DEF Unpaid
  <2> QED BY <2>5, TurnsUnpaid
<1>7. CASE /\ B!Moved(d, "record") /\ slips' = slips
           /\ looked /\ c \notin marks /\ B!Underway(c) = {}
  <2>1. PICK m : /\ message' = [message EXCEPT ![d] = m] /\ Carried(m) /\ m.pc = "record"
                 /\ m.checkout = c /\ m.guarded = message[d].guarded
    BY <1>1, <1>7, CarriedNow, MovesOn DEF OnWay
  <2>2. Guards(m, c) /\ ~Guarding(message, c)
    BY <1>2, <1>7, <2>1 DEF Guards, Guarding, OnWay, B!Underway
  <2>3. \A k \in Checkouts : slips'[k] = slips[k] /\ slips'[k] - slips[k] = 0
    BY <1>7, CarriedNow
  <2>4. slips' \in [Checkouts -> Nat] /\ marks \subseteq Checkouts
    BY <1>7, CarriedNow
  <2>5. ASSUME NEW k \in Checkouts PROVE Fits(0, d, m, k)
    BY <1>3, <1>4, <1>7, <2>1, <2>2, <2>3 DEF Fits
  <2>6. Unpaid(d, m)
    BY <1>3, <2>1, <2>4, <2>5, CarriedNow DEF Unpaid
  <2> QED BY <2>6, TurnsUnpaid
<1>8. \/ B!Over(d) /\ slips' = slips
      \/ B!Moved(d, "record") /\ B!Slipped(c)
      \/ B!Moved(d, "record") /\ slips' = slips /\ looked /\ c \notin marks /\ B!Underway(c) = {}
  BY <1>1, <1>2 DEF B!ChecksMark, B!IsProcessed
<1> QED BY <1>5, <1>6, <1>7, <1>8

LEMMA IgnoresKeeps ==
  ASSUME PaymentsAre, NEW d \in Deliveries, B!Ignores(d)
  PROVE  PaymentsAre'
<1>1. /\ message[d].pc = "record" /\ B!Over(d)
      /\ payments' = payments /\ marks' = marks /\ unrecorded' = unrecorded /\ slips' = slips
  BY DEF B!Ignores
<1>2. PICK m : message' = [message EXCEPT ![d] = m] /\ Carried(m) /\ m.pc = "done"
  BY <1>1, MessageEnds
<1>3. \A k \in Checkouts : /\ slips'[k] - slips[k] = 0
                           /\ Guards(message[d], k) => message[d].checkout = k
  BY <1>1, CarriedNow DEF Guards
<1>4. ASSUME NEW k \in Checkouts
      PROVE  (0 - (IF message[d].pc = "record" /\ message[d].checkout = k THEN 1 ELSE 0))
               + (IF Guards(message[d], k) /\ ~Guards(m, k) /\ k \notin marks' THEN 1 ELSE 0) <= 0
  BY <1>1, <1>3
<1>5. ASSUME NEW k \in Checkouts PROVE Fits(0, d, m, k)
  BY <1>2, <1>3, <1>4 DEF Fits
<1>6. Unpaid(d, m)
  BY <1>1, <1>2, <1>5, CarriedNow DEF Unpaid
<1> QED BY <1>6, TurnsUnpaid

LEMMA ActivatesKeeps ==
  ASSUME PaymentsAre, NEW d \in Deliveries, B!Activates(d)
  PROVE  PaymentsAre'
<1>1. /\ message[d].pc = "activate" /\ B!Moved(d, "mark")
      /\ payments' = payments /\ marks' = marks /\ unrecorded' = unrecorded /\ slips' = slips
  BY DEF B!Activates
<1>2. PICK m : /\ message' = [message EXCEPT ![d] = m] /\ Carried(m) /\ m.pc = "mark"
               /\ m.checkout = message[d].checkout /\ m.guarded = message[d].guarded
  BY <1>1, CarriedNow, MovesOn DEF OnWay
<1>3. \A k \in Checkouts : /\ slips'[k] - slips[k] = 0
                           /\ Guards(message[d], k) => Guards(m, k)
  BY <1>1, <1>2, CarriedNow DEF Guards, OnWay
<1>4. Noted(payments, unrecorded', m.checkout)
  BY <1>1, <1>2 DEF PaymentsAre
<1>5. ASSUME NEW k \in Checkouts PROVE Fits(0, d, m, k)
  BY <1>1, <1>2, <1>3 DEF Fits
<1>6. Unpaid(d, m)
  BY <1>1, <1>2, <1>4, <1>5, CarriedNow DEF Unpaid
<1> QED BY <1>6, TurnsUnpaid

LEMMA MarkKeeps ==
  ASSUME PaymentsAre, NEW d \in Deliveries, B!MarkProcessed(d)
  PROVE  PaymentsAre'
<1>1. PICK c : c = message[d].checkout
  OBVIOUS
<1>2. /\ message[d].pc = "mark" /\ B!Over(d)
      /\ payments' = payments /\ unrecorded' = unrecorded
  BY DEF B!MarkProcessed
<1>3. PICK m : message' = [message EXCEPT ![d] = m] /\ Carried(m) /\ m.pc = "done"
  BY <1>2, MessageEnds
<1>4. Noted(payments, unrecorded', c)
  BY <1>1, <1>2 DEF PaymentsAre
<1>5. \A k \in Checkouts : Guards(message[d], k) => k = c /\ message[d].guarded /\ c # NoRow
  BY <1>1, BillsAssumption DEF Guards
<1>6. CASE slips' = slips /\ marks' = IF message[d].guarded /\ c # NoRow THEN marks \cup {c} ELSE marks
  <2>1. marks \subseteq marks' /\ marks' \subseteq Checkouts /\ marks' \ marks \subseteq {c}
    BY <1>1, <1>6, CarriedNow
  <2>2. \A k \in Checkouts : /\ slips'[k] - slips[k] = 0
                             /\ Guards(message[d], k) => k \in marks'
    BY <1>5, <1>6, CarriedNow
  <2>3. ASSUME NEW k \in Checkouts PROVE Fits(0, d, m, k)
    BY <1>2, <1>3, <2>2 DEF Fits
  <2>4. Unpaid(d, m)
    BY <1>2, <1>3, <1>4, <1>6, <2>1, <2>3, CarriedNow DEF Unpaid
  <2> QED BY <2>4, TurnsUnpaid
<1>7. CASE B!Slipped(c) /\ marks' = marks
  <2>1. /\ slips' \in [Checkouts -> Nat]
        /\ \A k \in Checkouts : slips'[k] = slips[k] + (IF k = c THEN 1 ELSE 0)
    BY <1>1, <1>7, CarriedNow, SlipsGrow
  <2>2. \A k \in Checkouts : slips'[k] - slips[k] = IF k = c THEN 1 ELSE 0
    BY <2>1, CarriedNow
  <2>3. ASSUME NEW k \in Checkouts PROVE Fits(0, d, m, k)
    BY <1>2, <1>3, <1>5, <2>2 DEF Fits
  <2>4. Unpaid(d, m)
    BY <1>2, <1>3, <1>7, <2>1, <2>3, CarriedNow DEF Unpaid
  <2> QED BY <2>4, TurnsUnpaid
<1>8. \/ slips' = slips /\ marks' = IF message[d].guarded /\ c # NoRow THEN marks \cup {c} ELSE marks
      \/ B!Slipped(c) /\ marks' = marks
  BY <1>1 DEF B!MarkProcessed
<1> QED BY <1>6, <1>7, <1>8

LEMMA RecordKeeps ==
  ASSUME PaymentsAre, NEW d \in Deliveries, B!RecordBillingPayment(d)
  PROVE  PaymentsAre'
<1>1. PICK c : c = message[d].checkout
  OBVIOUS
<1>2. message[d].pc = "record" /\ marks' = marks /\ slips' = slips
  BY DEF B!RecordBillingPayment
<1>3. CASE /\ B!Fails /\ unrecorded' = unrecorded \cup {c} /\ payments' = payments
           /\ B!Moved(d, "mark")
  <2>1. PICK m : /\ message' = [message EXCEPT ![d] = m] /\ Carried(m) /\ m.pc = "mark"
                 /\ m.checkout = c /\ m.guarded = message[d].guarded
    BY <1>1, <1>3, CarriedNow, MovesOn DEF OnWay
  <2>2. \A k \in Checkouts : /\ slips'[k] - slips[k] = 0
                             /\ Guards(message[d], k) => Guards(m, k)
    BY <1>1, <1>2, <2>1, CarriedNow DEF Guards, OnWay
  <2>3. Noted(payments, unrecorded', m.checkout)
    BY <1>3, <2>1 DEF Noted
  <2>4. ASSUME NEW k \in Checkouts PROVE Fits(0, d, m, k)
    BY <1>2, <2>1, <2>2 DEF Fits
  <2>5. Unpaid(d, m)
    BY <1>2, <1>3, <2>1, <2>3, <2>4, CarriedNow DEF Unpaid
  <2> QED BY <2>5, TurnsUnpaid
<1>4. CASE payments' = <<c>> \o payments /\ B!Moved(d, "activate") /\ unrecorded' = unrecorded
  <2>1. PICK m : /\ message' = [message EXCEPT ![d] = m] /\ Carried(m) /\ m.pc = "activate"
                 /\ m.checkout = c /\ m.guarded = message[d].guarded
    BY <1>1, <1>4, CarriedNow, MovesOn DEF OnWay
  <2>2. /\ payments' \in Seq(Checkouts \cup {NoRow})
        /\ \A k : Count(payments', k) = Count(payments, k) + (IF c = k THEN 1 ELSE 0)
        /\ \A k : c = k \/ Within(payments, k) => Within(payments', k)
    <3>1. PICK X : X = Checkouts \cup {NoRow}
      OBVIOUS
    <3>2. payments \in Seq(X) /\ c \in X
      BY <1>1, <3>1, CarriedNow DEF PaymentsAre
    <3>3. PICK more : more = Ahead(c, payments)
      OBVIOUS
    <3>4. ASSUME NEW k
          PROVE  /\ more \in Seq(X) /\ Count(more, k) = Count(payments, k) + (IF c = k THEN 1 ELSE 0)
                 /\ c = k \/ Within(payments, k) => Within(more, k)
      BY <3>2, <3>3, OneMoreRecorded DEF Count
    <3>5. payments' = more
      BY <1>4, <3>3 DEF Ahead
    <3> QED BY <3>1, <3>4, <3>5
  <2>3. \A k : Noted(payments, unrecorded, k) \/ k = c => Noted(payments', unrecorded', k)
    BY <1>4, <2>2 DEF Noted
  <2>4. ASSUME NEW k \in Checkouts
        PROVE  Fits(Count(payments', k) - Count(payments, k), d, m, k)
    <3>1. Count(payments, k) \in Nat
      BY RecordedIsFinite DEF Count, PaymentsAre
    <3>2. PICK n, e : n = Count(payments', k) /\ e = Count(payments, k)
      OBVIOUS
    <3>3. e \in Nat /\ n = e + (IF c = k THEN 1 ELSE 0)
      BY <2>2, <3>1, <3>2
    <3>4. slips'[k] - slips[k] = 0 /\ (Guards(message[d], k) => Guards(m, k))
      BY <1>1, <1>2, <2>1, CarriedNow DEF Guards, OnWay
    <3>5. n - e = IF c = k THEN 1 ELSE 0
      BY <3>3
    <3> QED BY <1>1, <1>2, <2>1, <3>2, <3>4, <3>5 DEF Fits
  <2>5. slips' \in [Checkouts -> Nat] /\ marks' \subseteq Checkouts
    BY <1>2, CarriedNow
  <2>6. Turns(d, m)
    BY <1>2, <2>1, <2>2, <2>3, <2>4, <2>5 DEF Turns
  <2> QED BY <2>6, DeliveryGoesOn
<1> QED BY <1>1, <1>3, <1>4 DEF B!RecordBillingPayment

LEMMA DeliveriesKeep ==
  ASSUME PaymentsAre, redis \in BOOLEAN, NEW d \in Deliveries, B!HandleIntasendWebhook(d)
  PROVE  PaymentsAre'
<1>1. ASSUME NEW c \in Checkouts \cup {NoRow}, NEW stamp, NEW tenant, NEW keyed,
             B!IntasendVerification(d, c, stamp, tenant, keyed)
      PROVE  PaymentsAre'
  BY <1>1, ArrivalKeeps
<1>2. CASE B!ChecksMark(d)
  BY <1>2, ChecksMarkKeeps
<1>3. CASE B!Ignores(d) \/ B!RecordBillingPayment(d)
  BY <1>3, IgnoresKeeps, RecordKeeps
<1>4. CASE B!Activates(d) \/ B!MarkProcessed(d)
  BY <1>4, ActivatesKeeps, MarkKeeps
<1> QED BY <1>1, <1>2, <1>3, <1>4, Zenon DEF B!HandleIntasendWebhook

(* A crash gives each checkout as many slips as it had deliveries under way *)
LEMMA StopKeeps == ASSUME PaymentsAre, PricesAre, B!Crash PROVE PaymentsAre' /\ PricesAre'
<1>1. PICK x : x = [B!Arrival EXCEPT !.pc = "done"]
  OBVIOUS
<1>2. x = [pc |-> "done", checkout |-> NoRow, tenant |-> FALSE, guarded |-> FALSE]
  BY <1>1 DEF B!Arrival
<1>3. Carried(x) /\ x.pc = "done"
  BY <1>2 DEF Carried
<1>4. message' = [d \in Deliveries |-> IF message[d].pc = "new" THEN message[d] ELSE x]
  BY <1>1, Zenon DEF B!Crash
<1>5. UNCHANGED <<row, payments, marks, unrecorded>>
  BY DEF B!Crash
<1>6. \A d \in Deliveries : message'[d].pc \notin OnWay
  BY <1>3, <1>4 DEF OnWay
<1>7. Messages'
  BY <1>3, <1>4 DEF PaymentsAre, Messages, Carried
<1>8. ASSUME NEW c \in Checkouts
      PROVE  /\ IsFiniteSet(B!Underway(c)) /\ Cardinality(B!Underway(c)) \in Nat
             /\ slips'[c] = slips[c] + Cardinality(B!Underway(c))
             /\ Guarding(message, c) => Cardinality(B!Underway(c)) > 0
  <2>1. PICK U : U = B!Underway(c)
    OBVIOUS
  <2>2. IsFiniteSet(U)
    BY <2>1, DeliveriesAssumption, FS_Subset DEF B!Underway
  <2>3. Cardinality(U) \in Nat /\ (U # {} => Cardinality(U) > 0)
    BY <2>2, FS_CardinalityType, FS_EmptySet
  <2>4. Guarding(message, c) => U # {}
    BY <2>1 DEF Guarding, Guards, OnWay, B!Underway
  <2>5. slips' = [k \in Checkouts |-> slips[k] + B!Cardinality(B!Underway(k))]
    BY Zenon DEF B!Crash
  <2>6. B!Cardinality(U) = Cardinality(U)
    BY DEF B!Cardinality, Cardinality
  <2>7. slips'[c] = slips[c] + Cardinality(U)
    BY <2>1, <2>5, <2>6, Zenon
  <2> QED BY <2>1, <2>2, <2>3, <2>4, <2>7
<1>9. slips' \in [Checkouts -> Nat]
  <2>1. slips' = [c \in Checkouts |-> slips'[c]]
    BY DEF B!Crash
  <2>2. \A c \in Checkouts : slips'[c] \in Nat
    BY <1>8 DEF PaymentsAre
  <2> QED BY <2>1, <2>2
<1>10. ASSUME NEW c \in Checkouts PROVE WithinSlips(c)'
  <2>1. Recording(message', c) = {} /\ ~Guarding(message', c)
    BY <1>6 DEF Recording, Guarding, Guards, OnWay
  <2>2. PICK n, a, u : /\ n = Cardinality(Recorded(payments, c)) /\ a = Cardinality(Recording(message, c))
                       /\ u = Cardinality(B!Underway(c))
    OBVIOUS
  <2>3. n \in Nat /\ a \in Nat /\ slips[c] \in Nat
    BY <2>2, RecordedIsFinite, RecordingIsFinite DEF PaymentsAre
  <2>4. n + a <= slips[c] + (IF c \in marks \/ Guarding(message, c) THEN 1 ELSE 0)
    BY <2>2 DEF PaymentsAre, WithinSlips
  <2>5. slips'[c] = slips[c] + u /\ u \in Nat /\ (Guarding(message, c) => u > 0)
    BY <1>8, <2>2
  <2>6. n + 0 <= slips'[c] + (IF c \in marks THEN 1 ELSE 0)
    BY <2>3, <2>4, <2>5
  <2>7. Cardinality(Recording(message', c)) = 0
    BY <2>1, FS_EmptySet
  <2> QED BY <1>5, <2>1, <2>2, <2>6, <2>7 DEF WithinSlips
<1>11. PaymentsAre'
  <2>1. \A d \in Deliveries : message'[d].pc \notin {"activate", "mark"}
    BY <1>6 DEF OnWay
  <2>2. \A c \in marks' : Noted(payments', unrecorded', c)
    BY <1>5 DEF PaymentsAre
  <2>3. payments' \in Seq(Checkouts \cup {NoRow}) /\ marks' \subseteq Checkouts
    BY <1>5 DEF PaymentsAre
  <2> QED BY <1>7, <1>9, <1>10, <2>1, <2>2, <2>3 DEF PaymentsAre
<1>12. PricesAre'
  <2>1. PICK y : y = B!Done
    OBVIOUS
  <2>2. y.pc = "done"
    BY <2>1 DEF B!Done, B!NotYet
  <2>3. ask' = [r \in Savers |-> IF ask[r].pc \in B!Changing THEN y ELSE ask[r]]
    BY <2>1, Zenon DEF B!Crash
  <2>4. \A r \in Savers : ask'[r].pc \notin B!Changing
    BY <2>2, <2>3 DEF B!Changing
  <2>5. "plan" \in B!Changing
    BY DEF B!Changing
  <2> QED BY <1>5, <2>3, <2>4, <2>5 DEF PricesAre
<1> QED BY <1>11, <1>12

(* Who paid has a row, or is about to get one *)
Paying ==
  /\ redis \in BOOLEAN /\ stops \in Nat /\ refused \in Nat
  /\ payments # <<>> /\ stops = 0 /\ refused = 0
       => row # NoRow \/ \E d \in Deliveries : message[d].pc = "activate"

BillsAre == PricesAre /\ PaymentsAre /\ Paying

LEMMA BillsStart == ASSUME B!Init PROVE BillsAre
<1>1. Paying
  BY DEF B!Init, Paying
<1> QED BY <1>1, PricesStart, PaymentsStart DEF BillsAre

LEMMA DeliveryPays ==
  ASSUME BillsAre, NEW d \in Deliveries, B!HandleIntasendWebhook(d), row' = NoRow => row = NoRow
  PROVE  Paying'
<1>1. /\ redis' = redis /\ stops' = stops /\ refused' \in {refused, refused + 1}
      /\ redis \in BOOLEAN /\ stops \in Nat /\ refused \in Nat /\ Messages
  BY DEF B!HandleIntasendWebhook, B!IntasendVerification, B!ChecksMark, B!Ignores, B!RecordBillingPayment,
     B!Activates, B!MarkProcessed, B!given, B!Fails, BillsAre, Paying, PaymentsAre
<1>2. redis' \in BOOLEAN /\ stops' \in Nat /\ refused' \in Nat /\ (refused' = 0 => refused = 0)
  BY <1>1
<1>3. SUFFICES ASSUME payments' # <<>>, stops' = 0, refused' = 0
               PROVE  row' # NoRow \/ \E q \in Deliveries : message'[q].pc = "activate"
  BY <1>2 DEF Paying
<1>4. ~B!Fails
  BY <1>2, <1>3 DEF B!Fails
<1>5. CASE B!Moved(d, "activate")
  <2>1. message'[d].pc = "activate"
    <3>1. PICK m : message' = [message EXCEPT ![d] = m] /\ m.pc = "activate"
      BY <1>1, <1>5, MovesOn DEF OnWay
    <3> QED BY <1>1, <3>1 DEF Messages
  <2> QED BY <2>1
<1>6. CASE B!Activates(d)
  <2>1. PICK x : x = B!Row("trialing", "starter", "monthly", B!GetMonthlyPriceKES(B!GetPlan("starter")))
    OBVIOUS
  <2>2. x # NoRow
    <3>1. "starter" \in B!PlanSlugs /\ "monthly" \in B!Cycles
      BY FourPlans DEF B!Cycles
    <3>2. Priced(x)
      BY <2>1, <3>1, PricesAreListed, NewBillIsPriced
    <3> QED BY <3>2, BillsAssumption DEF Priced
  <2>3. row' = IF row = NoRow THEN x ELSE row
    BY <1>4, <1>6, <2>1 DEF B!Activates
  <2> QED BY <2>2, <2>3
<1>7. CASE /\ message[d].pc # "activate" /\ payments' = payments
           /\ \A q \in Deliveries \ {d} : message'[q] = message[q]
  <2>1. row # NoRow \/ \E q \in Deliveries : message[q].pc = "activate"
    BY <1>1, <1>2, <1>3, <1>7 DEF BillsAre, Paying
  <2>2. \A q \in Deliveries : message[q].pc = "activate" => message'[q].pc = "activate"
    BY <1>7
  <2> QED BY <2>1, <2>2
<1>8. \/ B!Moved(d, "activate") \/ B!Activates(d)
      \/ /\ message[d].pc # "activate" /\ payments' = payments
         /\ \A q \in Deliveries \ {d} : message'[q] = message[q]
  <2>1. ASSUME NEW m, message' = [message EXCEPT ![d] = m]
        PROVE  \A q \in Deliveries \ {d} : message'[q] = message[q]
    BY <1>1, <2>1 DEF Messages
  <2>2. ASSUME NEW pc, B!Moved(d, pc) PROVE \A q \in Deliveries \ {d} : message'[q] = message[q]
    BY <1>1, <2>2 DEF Messages, B!Moved
  <2>3. ASSUME B!Over(d) PROVE \A q \in Deliveries \ {d} : message'[q] = message[q]
    BY <1>1, <2>3 DEF Messages, B!Over
  <2>4. ASSUME NEW c, NEW stamp, NEW tenant, NEW keyed, B!IntasendVerification(d, c, stamp, tenant, keyed)
        PROVE  /\ message[d].pc # "activate" /\ payments' = payments
               /\ \A q \in Deliveries \ {d} : message'[q] = message[q]
    <3>1. message[d] = B!Arrival /\ payments' = payments /\ \E m : message' = [message EXCEPT ![d] = m]
      BY <2>4, Zenon DEF B!IntasendVerification
    <3>2. message[d].pc = "new"
      BY <3>1 DEF B!Arrival
    <3> QED BY <2>1, <3>1, <3>2
  <2>5. CASE B!ChecksMark(d)
    BY <2>2, <2>3, <2>5 DEF B!ChecksMark
  <2>6. CASE B!Ignores(d)
    BY <2>3, <2>6 DEF B!Ignores
  <2>7. CASE B!RecordBillingPayment(d)
    BY <1>4, <2>7 DEF B!RecordBillingPayment
  <2>8. CASE B!MarkProcessed(d)
    BY <2>3, <2>8 DEF B!MarkProcessed
  <2> QED BY <2>4, <2>5, <2>6, <2>7, <2>8, Zenon DEF B!HandleIntasendWebhook
<1> QED BY <1>5, <1>6, <1>7, <1>8

LEMMA BillsKept == ASSUME BillsAre, B!Next PROVE BillsAre'
<1>1. PricesAre /\ PaymentsAre /\ Paying /\ redis \in BOOLEAN
  BY DEF BillsAre, Paying
<1>2. ASSUME NEW r \in Savers, B!Request(r) PROVE BillsAre'
  <2>1. PricesAre' /\ (row' = NoRow => row = NoRow)
    BY <1>1, <1>2, RequestsArePriced
  <2>2. /\ UNCHANGED <<payments, marks, message, slips, unrecorded, redis, stops>>
        /\ refused' \in {refused, refused + 1}
    BY <1>2 DEF B!Request, B!CreateSubscription, B!CreateCheckoutSession, B!SetDefaultPaymentMethod,
       B!DeletePaymentMethod, B!GetSubscription, B!Saves, B!Ends, B!Fails, B!delivery, B!given
  <2>3. PaymentsAre'
    BY <1>1, <2>2 DEF PaymentsAre, Messages, WithinSlips
  <2>4. Paying'
    BY <1>1, <2>1, <2>2 DEF Paying
  <2> QED BY <2>1, <2>3, <2>4 DEF BillsAre
<1>3. ASSUME NEW d \in Deliveries, B!HandleIntasendWebhook(d) PROVE BillsAre'
  <2>1. PricesAre' /\ (row' = NoRow => row = NoRow)
    BY <1>1, <1>3, MessagesArePriced
  <2>2. PaymentsAre'
    BY <1>1, <1>3, DeliveriesKeep
  <2>3. Paying'
    BY <1>3, <2>1, DeliveryPays
  <2> QED BY <2>1, <2>2, <2>3 DEF BillsAre
<1>4. CASE B!Crash
  <2>1. PaymentsAre' /\ PricesAre'
    BY <1>1, <1>4, StopKeeps
  <2>2. /\ redis' = redis /\ stops' = stops + 1 /\ refused' = refused
    BY <1>4 DEF B!Crash, B!given
  <2>3. Paying'
    BY <1>1, <2>2 DEF Paying
  <2> QED BY <2>1, <2>3 DEF BillsAre
<1> QED BY <1>2, <1>3, <1>4, Zenon DEF B!Next

LEMMA BillsHold == ASSUME BillsAre PROVE PaymentsAreRecorded
<1>1. B!PriceIsListed
  BY DEF BillsAre, PricesAre, Priced, Shilling, B!PriceIsListed
<1>2. ASSUME NEW c PROVE B!Times(c) = Cardinality(Recorded(payments, c))
  <2>1. B!Times(c) = B!Cardinality(Recorded(payments, c))
    BY DEF B!Times, Recorded
  <2>2. PICK R : R = Recorded(payments, c)
    OBVIOUS
  <2>3. B!Cardinality(R) = Cardinality(R)
    BY DEF B!Cardinality, Cardinality
  <2> QED BY <2>1, <2>2, <2>3, Zenon
<1>3. ASSUME NEW c \in Checkouts PROVE B!Times(c) <= 1 + slips[c]
  <2>1. PICK n, a : n = Cardinality(Recorded(payments, c)) /\ a = Cardinality(Recording(message, c))
    OBVIOUS
  <2>2. n \in Nat /\ a \in Nat /\ slips[c] \in Nat
    BY <2>1, RecordedIsFinite, RecordingIsFinite DEF BillsAre, PaymentsAre
  <2>3. n + a <= slips[c] + (IF c \in marks \/ Guarding(message, c) THEN 1 ELSE 0)
    BY <2>1 DEF BillsAre, PaymentsAre, WithinSlips
  <2>4. n <= 1 + slips[c]
    BY <2>2, <2>3
  <2> QED BY <1>2, <2>1, <2>4
<1>4. ASSUME NEW c \in marks PROVE B!Times(c) > 0 \/ c \in unrecorded
  <2>1. Noted(payments, unrecorded, c)
    BY DEF BillsAre, PaymentsAre
  <2>2. CASE Within(payments, c)
    <3>1. PICK R : R = Recorded(payments, c)
      OBVIOUS
    <3>2. R # {}
      BY <2>2, <3>1 DEF Within, Recorded
    <3>3. IsFiniteSet(R) /\ Cardinality(R) \in Nat
      BY <3>1, RecordedIsFinite DEF BillsAre, PaymentsAre
    <3>4. Cardinality(R) # 0
      BY <3>2, <3>3, FS_EmptySet
    <3>5. Cardinality(R) > 0
      BY <3>3, <3>4
    <3> QED BY <1>2, <3>1, <3>5
  <2> QED BY <2>1, <2>2 DEF Noted
<1>5. B!PaidHasRow
  BY DEF BillsAre, Paying, B!PaidHasRow
<1>6. B!HistoryIsWhole
  BY HistoryShowsAll DEF BillsAre, PaymentsAre
<1> QED BY <1>1, <1>3, <1>4, <1>5, <1>6
        DEF PaymentsAreRecorded, B!PaymentsAreRecorded, B!OncePerSlip, B!MarkedIsRecorded

(* The price of a subscription is the listed one of its plan; a checkout is *)
(* recorded as a payment once, but for each failure of its guard; it is    *)
(* marked only if that was tried; who paid has a row; the history shows all *)
THEOREM PaymentsHold == TenantSpec => []PaymentsAreRecorded
<1>1. TenantInit => BillsAre
  BY BillsStart DEF TenantInit
<1>2. BillsAre /\ [TenantNext]_all => BillsAre'
  <2> SUFFICES ASSUME BillsAre, [TenantNext]_all PROVE BillsAre'
    OBVIOUS
  <2>1. CASE B!Next
    BY <2>1, BillsKept
  <2>2. CASE UNCHANGED billing
    <3>1. UNCHANGED <<row, payments, marks, ask, message, redis, slips, unrecorded, stops, refused>>
      BY <2>2 DEF billing
    <3> QED BY <3>1 DEF BillsAre, PricesAre, PaymentsAre, Messages, WithinSlips, Paying
  <2> QED
    BY <2>1, <2>2 DEF TenantNext, SubscriptionStep, RegistrationStep, SettingsStep, all
<1>3. BillsAre => PaymentsAreRecorded
  BY BillsHold
<1> QED BY <1>1, <1>2, <1>3, PTL DEF TenantSpec

=============================================================================
