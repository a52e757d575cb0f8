--------------------------- MODULE MCSubscriptions ---------------------------
(* What a tenant has beside its invoices: its subscription, with a plan of *)
(* one invoice, its billing, its registration, or its settings, of which   *)
(* one is looked at in each behaviour.                                     *)
EXTENDS Subscriptions, TLC

CONSTANTS basic,
          Forms, Before, Replicas, Addresses, Companies, Codes,  \* of registration
          Savers, MaxFailures,                                   \* of the settings
          Deliveries, Checkouts, Asked                           \* of the billing

Limits == basic :> 1

ASSUME NamesAssumption    == {Before, NoRow} \cap (Forms \cup Savers) = {}
ASSUME FailuresAssumption == MaxFailures \in Nat

VARIABLES
  part,                                                     \* which of the four
  tenants, users, subs, counters, tokens, form, starts, downs,
  doc, fresh, save, failures,
  row, payments, marks, ask, message, redis, secret, slips, unrecorded, stops, refused

G == INSTANCE Registration WITH Requests <- Forms, None <- NoRow, usage <- counters,
                                req <- form, faults <- downs, MaxFaults <- MaxCrashes
S == INSTANCE Settings WITH Requests <- Savers, None <- NoRow, req <- save

B == INSTANCE Billing WITH Requests <- Savers, None <- NoRow, crashes <- stops,
                           failures <- refused

(* A form filled in is none that is missing, and no secret is nothing *)
ASSUME FormAssumption   == NoRow \notin G!Form
ASSUME SecretAssumption == NoRow \notin {"given", "masked", "wrapped", "mask", "plain"}

(* No row is no subscription, and no checkout; the plans asked for exist    *)
Bills == [status: {"active", "trialing", "canceled"}, plan: B!PlanSlugs, cycle: B!Cycles,
          amount: Nat, method: B!Methods \cup {NoRow}]

ASSUME BillsAssumption      == NoRow \notin Bills /\ NoRow \notin Checkouts
ASSUME AskedAssumption      == Asked \subseteq B!PlanSlugs
ASSUME DeliveriesAssumption == IsFiniteSet(Deliveries)

registration == <<tenants, users, subs, counters, tokens, form, starts, downs>>
settings     == <<doc, fresh, save, failures>>
billing      == <<row, payments, marks, ask, message, redis, secret, slips, unrecorded,
                  stops, refused>>
all          == <<part, vars, registration, settings, billing>>

TenantInit ==
  /\ Init /\ G!Init /\ S!Init /\ B!Init
  /\ part \in {"subscription", "registration", "settings", "billing"}
  /\ part # "subscription" => ~serial
  /\ part # "registration" => users = {} /\ \A t \in Forms : tenants[t] = NoRow
  /\ part # "settings" => doc = S!Empty
  /\ part # "billing" => ~redis /\ ~secret

SubscriptionStep == part = "subscription" /\ UNCHANGED <<part, registration, settings, billing>>
RegistrationStep == part = "registration" /\ UNCHANGED <<part, vars, settings, billing>>
SettingsStep     == part = "settings" /\ UNCHANGED <<part, vars, registration, billing>>
BillingStep      == part = "billing" /\ UNCHANGED <<part, vars, registration, settings>>

(* A bound: two requests, or one beside the provider's messages *)
Few == \/ \A d \in Deliveries : message'[d].pc = "new"
       \/ Cardinality({s \in Savers : ask'[s].pc # "new"}) <= 1

TenantNext ==
  \/ SubscriptionStep /\ Next
  \/ RegistrationStep /\ G!Next
  \/ SettingsStep /\ S!Next
  \/ BillingStep /\ B!Next /\ Few

(* The ticker runs the jobs for ever, to their end *)
TenantSpec ==
  TenantInit /\ [][TenantNext]_all /\ \A w \in Workers : WF_all(SubscriptionStep /\ Worker(w))

-----------------------------------------------------------------------------
(* A tenant is left without a user only by a crash, by a failed statement, *)
(* by capitals in its address, or by two registrations of one address that *)
(* overlap.                                                                *)
OrphansHaveACause == G!OrphansHaveACause

(* A section or a step of the settings is lost only by a stale save, or by *)
(* one that began with an empty document, and a secret can be read back    *)
(* only until the next save of anything.                                   *)
SettingsStand == S!SectionsStand /\ []S!SecretsLastOneSave

(* The price of a subscription is the listed one of its plan; a checkout   *)
(* is recorded as a payment once, but for each failure of its guard; it is *)
(* marked only if that was tried; and the history shows all.               *)
PaymentsAreRecorded == B!PaymentsAreRecorded
=============================================================================
