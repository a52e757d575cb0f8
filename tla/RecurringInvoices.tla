--------------------------- MODULE RecurringInvoices ---------------------------
(***************************************************************************)
(* One recurring invoice of each tenant and the invoices made from it.     *)
(* The scheduler of every replica, and a request that asks for it, lists   *)
(* the parents that are due, makes an invoice for each and moves the       *)
(* parent's date on, in statements that others interleave with.            *)
(*                                                                         *)
(* Time is counted in periods of the frequency, within one month: the      *)
(* number of a new invoice is the tenant's count of the month plus one,    *)
(* and the column is unique over all tenants.                              *)
(***************************************************************************)
EXTENDS Naturals, FiniteSets

CONSTANTS Tenants,     \* each with one parent
          Workers,     \* schedulers and requests that process what is due
          Requests,    \* requests that change a parent
          MaxActors,   \* how many of those act in a behaviour
          MaxDay,      \* bound on the periods
          MaxEvents,   \* bound on crashes, failed updates, other invoices
                       \* and deletions together
          None         \* nothing

VARIABLES
  today,     \* the current period
  parent,    \* parent[t]: whether it recurs, is cancelled, its next date
  count,     \* count[t]: t's invoices of this month
  children,  \* children[t]: number and period of those made from the parent
  made,      \* made[t][d]: how many were ever made for period d
  deleted,   \* the tenants that have deleted an invoice
  work,      \* work[w]: what worker w has listed and is making
  req,       \* req[r]: where request r is, and the row it read
  actors,    \* the workers and requests that act
  serial,    \* whether only one of them runs at a time
  faulted,   \* whether an update failed or a replica crashed
  events     \* how much of MaxEvents has happened

vars == <<today, parent, count, children, made, deleted, work, req,
          actors, serial, faulted, events>>

Days == 0..(MaxDay + 1)
Row  == [on: BOOLEAN, cancelled: BOOLEAN, next: Days]

At(pc, todo, tenant, number) == [pc |-> pc, todo |-> todo, tenant |-> tenant, number |-> number]
Idle   == At("idle", {}, None, None)
NotYet == [pc |-> "new", tenant |-> None, row |-> None]
Done   == [pc |-> "done", tenant |-> None, row |-> None]

Quiet == /\ \A w \in Workers : work[w] = Idle
         /\ \A r \in Requests : req[r] \in {NotYet, Done}
MayStart(a) == a \in actors /\ (serial => Quiet)

Happens == events < MaxEvents /\ events' = events + 1

Init ==
  /\ today = 0
  /\ parent = [t \in Tenants |-> [on |-> TRUE, cancelled |-> FALSE, next |-> 0]]
  /\ count = [t \in Tenants |-> 0]
  /\ children = [t \in Tenants |-> {}]
  /\ made = [t \in Tenants |-> [d \in Days |-> 0]]
  /\ deleted = {}
  /\ work = [w \in Workers |-> Idle]
  /\ req = [r \in Requests |-> NotYet]
  /\ actors \in {A \in SUBSET (Workers \cup Requests) : Cardinality(A) = MaxActors}
  /\ serial \in BOOLEAN
  /\ faulted = FALSE
  /\ events = 0

-----------------------------------------------------------------------------
(* ProcessRecurringInvoices *)

Due(t) == parent[t].on /\ ~parent[t].cancelled /\ parent[t].next <= today

Lists(w) ==
  /\ work[w] = Idle
  /\ MayStart(w)
  /\ \E t \in Tenants : Due(t)
  /\ work' = [work EXCEPT ![w] =
       At("listed", {[tenant |-> t, date |-> parent[t].next] : t \in {u \in Tenants : Due(u)}}, None, None)]
  /\ UNCHANGED <<today, parent, count, children, made, deleted, req, actors, serial, faulted, events>>

(* generateInvoiceNumber reads the count *)
NextNumber(n) == n + 1

Numbers(w, item) ==
  /\ work[w].pc = "listed"
  /\ item \in work[w].todo
  /\ work' = [work EXCEPT ![w] = At("create", work[w].todo, item, NextNumber(count[item.tenant]))]
  /\ UNCHANGED <<today, parent, count, children, made, deleted, req, actors, serial, faulted, events>>

Taken(number) == \E t \in Tenants : \E c \in children[t] : c.number = number

(* Mutated form: a failure ends the whole run *)
EndsRun(w) == work' = [work EXCEPT ![w] = Idle]
Finished(w) ==
  LET left == work[w].todo \ {work[w].tenant}
  IN work' = [work EXCEPT ![w] = IF left = {} THEN Idle ELSE At("listed", left, None, None)]

Creates(w) ==
  /\ work[w].pc = "create"
  /\ LET t == work[w].tenant.tenant
         d == work[w].tenant.date
     IN IF Taken(work[w].number)
        THEN /\ Finished(w)
             /\ UNCHANGED <<count, children, made>>
        ELSE /\ children' = [children EXCEPT ![t] = @ \cup {[number |-> work[w].number, period |-> d]}]
             /\ count' = [count EXCEPT ![t] = @ + 1]
             /\ made' = [made EXCEPT ![t][d] = @ + 1]
             /\ work' = [work EXCEPT ![w].pc = "advance"]
  /\ UNCHANGED <<today, parent, deleted, req, actors, serial, faulted, events>>

(* Mutated form: the date stays *)
NextStays(date) == date
CalculateNextDate(date) == date + 1

(* The update of the date; its failure is only logged *)
Advances(w) ==
  /\ work[w].pc = "advance"
  /\ \/ /\ parent' = [parent EXCEPT ![work[w].tenant.tenant].next =
                        CalculateNextDate(work[w].tenant.date)]
        /\ UNCHANGED <<faulted, events>>
     \/ /\ Happens
        /\ faulted' = TRUE
        /\ UNCHANGED parent
  /\ Finished(w)
  /\ UNCHANGED <<today, count, children, made, deleted, req, actors, serial>>

-----------------------------------------------------------------------------
(* Requests, each made once *)

EnableRecurring(r, t) ==
  /\ req[r] = NotYet /\ MayStart(r)
  /\ parent' = [parent EXCEPT ![t].on = TRUE, ![t].next = today + 1]
  /\ req' = [req EXCEPT ![r] = Done]
  /\ UNCHANGED <<today, count, children, made, deleted, work, actors, serial, faulted, events>>

DisableRecurring(r, t) ==
  /\ req[r] = NotYet /\ MayStart(r)
  /\ parent' = [parent EXCEPT ![t].on = FALSE, ![t].next = 0]
  /\ req' = [req EXCEPT ![r] = Done]
  /\ UNCHANGED <<today, count, children, made, deleted, work, actors, serial, faulted, events>>

(* Sending, editing or cancelling the parent reads its row and saves it whole *)
ReadsRow(r, t) ==
  /\ req[r] = NotYet /\ MayStart(r)
  /\ \E cancels \in BOOLEAN :
       req' = [req EXCEPT ![r] =
         [pc |-> "save", tenant |-> t,
          row |-> [parent[t] EXCEPT !.cancelled = @ \/ cancels]]]
  /\ UNCHANGED <<today, parent, count, children, made, deleted, work, actors, serial, faulted, events>>

SavesRow(r) ==
  /\ req[r].pc = "save"
  /\ parent' = [parent EXCEPT ![req[r].tenant] = req[r].row]
  /\ req' = [req EXCEPT ![r] = Done]
  /\ UNCHANGED <<today, count, children, made, deleted, work, actors, serial, faulted, events>>

(* An invoice created by hand has a number of another form *)
CreatesOther(t) ==
  /\ Happens
  /\ count' = [count EXCEPT ![t] = @ + 1]
  /\ UNCHANGED <<today, parent, children, made, deleted, work, req, actors, serial, faulted>>

DeleteInvoice(t) ==
  /\ Happens
  /\ \E c \in children[t] : children' = [children EXCEPT ![t] = @ \ {c}]
  /\ count' = [count EXCEPT ![t] = @ - 1]
  /\ deleted' = deleted \cup {t}
  /\ UNCHANGED <<today, parent, made, work, req, actors, serial, faulted>>

Tick ==
  /\ today < MaxDay
  /\ today' = today + 1
  /\ UNCHANGED <<parent, count, children, made, deleted, work, req, actors, serial, faulted, events>>

Crash ==
  /\ Happens
  /\ faulted' = TRUE
  /\ work' = [w \in Workers |-> Idle]
  /\ req' = [r \in Requests |-> IF req[r] = NotYet THEN NotYet ELSE Done]
  /\ UNCHANGED <<today, parent, count, children, made, deleted, actors, serial>>

Process(w) ==
  \/ Lists(w)
  \/ \E item \in work[w].todo : Numbers(w, item)
  \/ Creates(w)
  \/ Advances(w)

Next ==
  \/ \E w \in Workers : Process(w)
  \/ \E r \in Requests :
       \/ \E t \in Tenants : EnableRecurring(r, t) \/ DisableRecurring(r, t) \/ ReadsRow(r, t)
       \/ SavesRow(r)
  \/ \E t \in Tenants : CreatesOther(t) \/ DeleteInvoice(t)
  \/ Tick
  \/ Crash

Spec == Init /\ [][Next]_vars

-----------------------------------------------------------------------------
(* Types; the dates stay within the periods there are. *)
TypeOK ==
  /\ today \in 0..MaxDay
  /\ parent \in [Tenants -> Row]
  /\ count \in [Tenants -> Nat]
  /\ \A t \in Tenants : \A c \in children[t] : c.number \in Nat /\ c.period \in Days
  /\ made \in [Tenants -> [Days -> Nat]]
  /\ deleted \subseteq Tenants
  /\ \A w \in Workers : work[w].pc \in {"idle", "listed", "create", "advance"}
  /\ \A r \in Requests : req[r].pc \in {"new", "save", "done"}
  /\ faulted \in BOOLEAN /\ events \in 0..MaxEvents

(* An invoice is made once for a period, if runs and requests come one at  *)
(* a time and do not fail in between.                                      *)
OncePerPeriod ==
  serial /\ ~faulted => \A t \in Tenants : \A d \in Days : made[t][d] <= 1

InTheWay(t) ==
  \/ t \in deleted
  \/ \E u \in Tenants \ {t} : \E c \in children[u] : c.number = count[t] + 1

(* A parent that stays due for good does so because the number it would    *)
(* draw belongs to another tenant, or to an own invoice after a deletion.  *)
DueIsServed == \A t \in Tenants : <>[]Due(t) => <>[]InTheWay(t)
=============================================================================
