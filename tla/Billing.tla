-------------------------------- MODULE Billing --------------------------------
(***************************************************************************)
(* What a tenant pays: the plans and their prices, the checkout, the       *)
(* requests that set a price or a payment method in the subscription's     *)
(* row, and the provider's messages about checkouts, which come late, more *)
(* than once, at the same time, or never.  A message is guarded against    *)
(* its repetition by a mark in Redis, if there is one and the message has  *)
(* an Idempotency-Key; the mark is looked for before the payment is        *)
(* recorded and set after it, whether or not it was.                       *)
(* The database is SQLite: Postgres refuses the empty columns of both rows *)
(***************************************************************************)
EXTENDS Integers, SequencesExt

CONSTANTS Requests,     \* requests of the tenant, each of any kind
          Deliveries,   \* deliveries of the provider's messages
          Checkouts,    \* the provider's ids
          Asked,        \* slugs of the plans that requests ask for: a bound
          MaxCrashes, MaxFailures,  \* bounds on crashes, and on refused statements
          None          \* nothing

VARIABLES
  row,       \* the subscription
  payments,  \* the checkouts of the recorded payments, the latest first
  marks,     \* the checkouts marked as processed
  ask,       \* ask[r]: where request r is, what it read and what it gives
  message,   \* message[d]: where delivery d is, and what it says
  redis, secret,      \* whether there is Redis, and a secret to check messages by
  slips, unrecorded,  \* slips[c]: how often c's guard may have failed; checkouts not recorded
  crashes, failures

subscription == <<row, ask>>
delivery     == <<payments, marks, message, slips, unrecorded>>
given        == <<redis, secret>>
vars         == <<subscription, delivery, given, crashes, failures>>

-----------------------------------------------------------------------------
(* Prices, in hundredths, of the plans in the order they are listed *)
DefaultPlans == <<[slug |-> "starter",    monthly |-> 1000, yearly |-> 10000],
                  [slug |-> "growth",     monthly |-> 2500, yearly |-> 25000],
                  [slug |-> "business",   monthly |-> 5000, yearly |-> 50000],
                  [slug |-> "enterprise", monthly |-> 0,    yearly |-> 0]>>

PlanSlugs == {DefaultPlans[i].slug : i \in DOMAIN DefaultPlans}
Cycles    == {"monthly", "yearly"}   \* as given: all but the latter is as the former
Methods   == {"mpesa", "own"}   \* given, or the id of the row as if it were one

GetPlan(slug) == CHOOSE p \in ToSet(DefaultPlans) : p.slug = slug

(* The rates have no key USD/KES *)
GetExchangeRate == 150

GetMonthlyPriceKES(p) == IF p.monthly <= 0 THEN 0 ELSE p.monthly * GetExchangeRate
GetYearlyPriceKES(p) ==
  IF p.yearly > 0 THEN p.yearly * GetExchangeRate
  ELSE IF p.monthly <= 0 THEN 0 ELSE (p.monthly * 12 * 8 * GetExchangeRate) \div 10

(* What GetPlans shows *)
Listed == [p \in PlanSlugs |-> [monthly |-> GetMonthlyPriceKES(GetPlan(p)),
                                yearly  |-> GetYearlyPriceKES(GetPlan(p))]]

(* What is stored.  Mutated form: the year is forgotten. *)
PriceByMonth(p, cycle) == GetPlan(p).monthly * GetExchangeRate
Price(p, cycle) ==
  (IF cycle = "yearly" THEN GetPlan(p).yearly ELSE GetPlan(p).monthly) * GetExchangeRate

Row(status, p, cycle, amount) ==
  [status |-> status, plan |-> p, cycle |-> cycle, amount |-> amount, method |-> None]

-----------------------------------------------------------------------------
NotYet == [pc |-> "new", read |-> None, plan |-> None, cycle |-> None]
Done   == [NotYet EXCEPT !.pc = "done"]

Arrival == [pc |-> "new", checkout |-> None, tenant |-> FALSE, guarded |-> FALSE]
Over(d) == message' = [message EXCEPT ![d] = [Arrival EXCEPT !.pc = "done"]]

Init ==
  /\ row = None /\ payments = <<>> /\ marks = {}
  /\ ask = [r \in Requests |-> NotYet]
  /\ message = [d \in Deliveries |-> Arrival]
  /\ redis \in BOOLEAN /\ secret \in BOOLEAN
  /\ slips = [c \in Checkouts |-> 0] /\ unrecorded = {}
  /\ crashes = 0 /\ failures = 0

Fails == failures < MaxFailures /\ failures' = failures + 1

Ends(r) ==
  /\ ask' = [ask EXCEPT ![r] = Done]
  /\ UNCHANGED <<delivery, given, crashes>>

-----------------------------------------------------------------------------
(* The tenant's requests *)

(* The index on tenant_id refuses a second row *)
CreateSubscription(r, p, cycle) ==
  /\ ask[r] = NotYet
  /\ row' = IF row = None THEN Row("active", p, cycle, Price(p, cycle)) ELSE row
  /\ Ends(r)
  /\ UNCHANGED failures

(* What costs nothing is activated at once, or said to be: a row there is   *)
(* stays as it was.  For the rest the provider is asked, for dollars' cents *)
(* in shillings, if it is there; nothing is stored.                         *)
CreateCheckoutSession(r, p) ==
  /\ ask[r] = NotYet
  /\ IF GetPlan(p).monthly = 0
     THEN row' = IF row = None THEN Row("active", p, "monthly", Price(p, "monthly")) ELSE row
     ELSE UNCHANGED row
  /\ Ends(r)
  /\ UNCHANGED failures

(* SetDefaultPaymentMethod updates one column, of any row there is *)
SetDefaultPaymentMethod(r) ==
  /\ ask[r] = NotYet
  /\ row' = IF row = None THEN row ELSE [row EXCEPT !.method = "own"]
  /\ Ends(r)
  /\ UNCHANGED failures

DeletePaymentMethod(r) ==
  /\ ask[r] = NotYet
  /\ Ends(r)
  /\ UNCHANGED <<row, failures>>

(* The others read the row, if there is one ... *)
Changing == {"plan", "method", "cancel", "reactivate"}

GetSubscription(r, change, p, cycle) ==
  /\ ask[r] = NotYet
  /\ IF row = None THEN Ends(r)
     ELSE /\ ask' = [ask EXCEPT ![r] = [pc |-> change, read |-> row, plan |-> p, cycle |-> cycle]]
          /\ UNCHANGED <<delivery, given, crashes>>
  /\ UNCHANGED <<row, failures>>

UpgradePlan(read, p, cycle) ==
  [read EXCEPT !.plan = p, !.cycle = cycle, !.amount = Price(p, cycle)]

(* ... and save it whole, or fail to: a change of plan answers as if it had *)
Saves(r) ==
  LET read == ask[r].read IN
  /\ ask[r].pc \in Changing
  /\ \/ /\ row' = CASE ask[r].pc = "plan"   -> UpgradePlan(read, ask[r].plan, ask[r].cycle)
                    [] ask[r].pc = "method" -> [read EXCEPT !.method = "mpesa"]
                    [] ask[r].pc = "cancel" -> [read EXCEPT !.status = "canceled"]
                    [] OTHER                -> [read EXCEPT !.status = "active"]
        /\ Ends(r)
        /\ UNCHANGED failures
     \/ Fails /\ UNCHANGED row /\ Ends(r)

-----------------------------------------------------------------------------
(* The provider's messages *)

(* Signed by the provider, if there is a secret; a time is checked if given *)
Verified(stamp) == secret /\ stamp \in {"none", "fresh"}

Moved(d, pc) == message' = [message EXCEPT ![d].pc = pc]
Underway(c)  == {d \in Deliveries : /\ message[d].checkout = c
                                    /\ message[d].pc \in {"record", "activate", "mark"}}
Slipped(c)   == slips' = IF c = None THEN slips ELSE [slips EXCEPT ![c] = @ + 1]

(* The message may lack the checkout's id, the tenant's, and the key; and   *)
(* it may tell of something else than a checkout's completion               *)
IntasendVerification(d, c, stamp, tenant, keyed) ==
  /\ message[d] = Arrival
  /\ message' = [message EXCEPT ![d] =
       IF Verified(stamp)
       THEN [pc |-> "check", checkout |-> c, tenant |-> tenant, guarded |-> redis /\ keyed]
       ELSE [Arrival EXCEPT !.pc = "done"]]
  /\ UNCHANGED <<subscription, payments, marks, slips, unrecorded, given, crashes, failures>>

(* What is known to have been processed ends here; if Redis does not answer *)
(* nothing is.  Two that look before either has marked both go on.          *)
(* Mutated form: marks are looked for under another name.                   *)
IsProcessedAmiss(c) == FALSE
IsProcessed(c)      == c \in marks

ChecksMark(d) ==
  LET c == message[d].checkout
      looked == message[d].guarded /\ c # None
  IN
  /\ message[d].pc = "check"
  /\ \/ looked /\ IsProcessed(c) /\ Over(d) /\ UNCHANGED <<slips, failures>>
     \/ /\ looked => ~IsProcessed(c)
        /\ IF looked /\ Underway(c) = {} THEN UNCHANGED slips ELSE Slipped(c)
        /\ Moved(d, "record") /\ UNCHANGED failures
     \/ looked /\ Fails /\ Slipped(c) /\ Moved(d, "record")
  /\ UNCHANGED <<subscription, payments, marks, unrecorded, given, crashes>>

(* Only of a completed checkout of a tenant named: the rest has no effect *)
Ignores(d) ==
  /\ message[d].pc = "record"
  /\ Over(d)
  /\ UNCHANGED <<subscription, payments, marks, slips, unrecorded, given, crashes, failures>>

(* A payment refused is only logged, and marked all the same *)
RecordBillingPayment(d) ==
  LET c == message[d].checkout IN
  /\ message[d].pc = "record" /\ message[d].tenant
  /\ \/ /\ payments' = <<c>> \o payments
        /\ Moved(d, "activate")
        /\ UNCHANGED <<unrecorded, failures>>
     \/ /\ Fails
        /\ unrecorded' = unrecorded \cup {c}
        /\ Moved(d, "mark")
        /\ UNCHANGED payments
  /\ UNCHANGED <<subscription, marks, slips, given, crashes>>

(* A tenant whose subscription is not in use gets a trial, if it has no row *)
(* at all: a cancelled one stays cancelled, paid for or not.                *)
Activates(d) ==
  /\ message[d].pc = "activate"
  /\ \/ /\ row' = IF row = None THEN Row("trialing", "starter", "monthly",
                                         GetMonthlyPriceKES(GetPlan("starter"))) ELSE row
        /\ UNCHANGED failures
     \/ row = None /\ Fails /\ UNCHANGED row
  /\ Moved(d, "mark")
  /\ UNCHANGED <<ask, payments, marks, slips, unrecorded, given, crashes>>

MarkProcessed(d) ==
  LET c == message[d].checkout
      marked == message[d].guarded /\ c # None
  IN
  /\ message[d].pc = "mark"
  /\ \/ /\ marks' = IF marked THEN marks \cup {c} ELSE marks
        /\ UNCHANGED <<slips, failures>>
     \/ marked /\ Fails /\ Slipped(c) /\ UNCHANGED marks
  /\ Over(d)
  /\ UNCHANGED <<subscription, payments, unrecorded, given, crashes>>

(* The replica stops, with all it was doing; Redis and the database stay *)
Crash ==
  /\ crashes < MaxCrashes /\ crashes' = crashes + 1
  /\ ask' = [r \in Requests |-> IF ask[r].pc \in Changing THEN Done ELSE ask[r]]
  /\ message' = [d \in Deliveries |-> IF message[d].pc = "new" THEN message[d]
                                      ELSE [Arrival EXCEPT !.pc = "done"]]
  /\ slips' = [c \in Checkouts |-> slips[c] + Cardinality(Underway(c))]
  /\ UNCHANGED <<row, payments, marks, unrecorded, given, failures>>

Request(r) ==
  \/ \E p \in Asked : \/ CreateCheckoutSession(r, p)
                      \/ \E cycle \in Cycles : \/ CreateSubscription(r, p, cycle)
                                               \/ GetSubscription(r, "plan", p, cycle)
  \/ \E change \in Changing \ {"plan"} : GetSubscription(r, change, None, None)
  \/ SetDefaultPaymentMethod(r) \/ DeletePaymentMethod(r) \/ Saves(r)

HandleIntasendWebhook(d) ==
  \/ \E c \in Checkouts \cup {None}, stamp \in {"none", "fresh", "old"},
        tenant \in BOOLEAN, keyed \in BOOLEAN : IntasendVerification(d, c, stamp, tenant, keyed)
  \/ ChecksMark(d) \/ Ignores(d) \/ RecordBillingPayment(d) \/ Activates(d) \/ MarkProcessed(d)

Next ==
  \/ \E r \in Requests : Request(r)
  \/ \E d \in Deliveries : HandleIntasendWebhook(d)
  \/ Crash

Spec == Init /\ [][Next]_vars

-----------------------------------------------------------------------------
(* The pages of the billing history; a page before the first is the first,  *)
(* and as many are announced                                                *)
GetBillingHistory(page, limit) ==
  LET offset == IF page < 1 THEN 0 ELSE (page - 1) * limit
      last   == IF offset + limit < Len(payments) THEN offset + limit ELSE Len(payments)
  IN SubSeq(payments, offset + 1, last)

NewPaginatedResponse(limit) ==
  LET pages == (Len(payments) + limit - 1) \div limit IN IF pages < 1 THEN 1 ELSE pages

TypeOK ==
  /\ row = None \/ /\ row.plan \in PlanSlugs /\ row.cycle \in Cycles /\ row.amount \in Nat
                   /\ row.status \in {"active", "trialing", "canceled"}
                   /\ row.method \in Methods \cup {None}
  /\ payments \in Seq(Checkouts \cup {None})
  /\ marks \subseteq Checkouts /\ unrecorded \subseteq Checkouts \cup {None}
  /\ redis \in BOOLEAN /\ secret \in BOOLEAN
  /\ slips \in [Checkouts -> Nat]
  /\ crashes \in 0..MaxCrashes /\ failures \in 0..MaxFailures

(* The row's price is the one listed for its plan and cycle, whatever rows  *)
(* read earlier are saved over it: two formulas, four writers.              *)
PriceIsListed ==
  row # None =>
    row.amount = IF row.cycle = "yearly" THEN Listed[row.plan].yearly ELSE Listed[row.plan].monthly

Times(c) == Cardinality({i \in DOMAIN payments : payments[i] = c})

(* A checkout is recorded once, and once more each time its guard failed:   *)
(* no Redis, no key, Redis silent, two deliveries at a time, a crash.       *)
OncePerSlip == \A c \in Checkouts : Times(c) <= 1 + slips[c]

(* What is marked as processed was recorded, or the statement was refused:  *)
(* then no repetition of the message records it any more.                   *)
MarkedIsRecorded == \A c \in marks : Times(c) > 0 \/ c \in unrecorded

(* A tenant who paid has a subscription when the message is through, but    *)
(* for a crash or a refused statement.                                      *)
PaidHasRow ==
  payments # <<>> /\ crashes = 0 /\ failures = 0
    /\ (\A d \in Deliveries : message[d].pc # "activate") => row # None

(* The pages announced hold each payment once *)
HistoryIsWhole ==
  \A limit \in 1..3 :
    payments = FlattenSeq([page \in 1..NewPaginatedResponse(limit) |->
                             GetBillingHistory(page, limit)])

PaymentsAreRecorded ==
  PriceIsListed /\ OncePerSlip /\ MarkedIsRecorded /\ PaidHasRow /\ HistoryIsWhole
=============================================================================
