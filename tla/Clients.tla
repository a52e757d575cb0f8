-------------------------------- MODULE Clients --------------------------------
(***************************************************************************)
(* A tenant's clients, whose edit stores again the invoices and payments   *)
(* that were read with the client, while invoices are created, paid and    *)
(* deleted.                                                                *)
(*                                                                         *)
(* The handlers of an edit and of a deletion pass the service the client   *)
(* for the tenant and the tenant for the client; that of the buyer type    *)
(* passes them in order.  Payments are of one unit, invoices of several;   *)
(* InvoiceLedger has the steps of recording a payment and of deleting.     *)
(***************************************************************************)
EXTENDS Naturals, FiniteSets

CONSTANTS Tenant,    \* the tenant
          ClientIDs, \* clients, whose ids are not the tenant's
          Invoices,  \* invoices
          Payments,  \* payments
          Requests,  \* requests that take several steps
          NoRow      \* no such row

VARIABLES
  cli,      \* cli[c]: whether client c is there
  invoice,  \* invoice[i]: the row, or NoRow
  paidBy,   \* paidBy[p]: the invoice payment p is for, or NoRow
  req,      \* req[r]: what request r is at and holds
  postgres, \* the database: SQLite does not check that a reference exists
  used,     \* history: the ids that have been used
  deletion  \* history: deletion[i]: how the last deletion of i went

vars == <<cli, invoice, paidBy, req, postgres, used, deletion>>

Idle == [at |-> "idle"]

Init == /\ cli = [c \in ClientIDs |-> FALSE]
        /\ invoice = [i \in Invoices |-> NoRow]
        /\ paidBy = [p \in Payments |-> NoRow]
        /\ req = [r \in Requests |-> Idle]
        /\ postgres \in BOOLEAN
        /\ used = {}
        /\ deletion = [i \in Invoices |-> "none"]

Exists(i)   == invoice[i] # NoRow
InvoicesOf(c) == {i \in Invoices : Exists(i) /\ invoice[i].client = c}
PaymentsOf(S) == {p \in Payments : paidBy[p] \in S}

(* A client of that tenant and id *)
Found(tenant, id) == tenant = Tenant /\ id \in ClientIDs /\ cli[id]

At(r, step)   == req[r].at = step
Goes(r, next) == req' = [req EXCEPT ![r] = next]

CreateClient(c) ==
  /\ c \notin used
  /\ cli' = [cli EXCEPT ![c] = TRUE]
  /\ used' = used \cup {c}
  /\ UNCHANGED <<invoice, paidBy, req, postgres, deletion>>

-----------------------------------------------------------------------------
(* Invoices: CreateInvoice looks the client up first                       *)

FindClient(r) ==
  \E c \in ClientIDs :
    /\ At(r, "idle")
    /\ Found(Tenant, c)
    /\ Goes(r, [at |-> "found", client |-> c])
    /\ UNCHANGED <<cli, invoice, paidBy, postgres, used, deletion>>

CreateInvoice(r, i) ==
  /\ At(r, "found")
  /\ i \notin used
  /\ invoice' = IF postgres /\ ~cli[req[r].client] THEN invoice
                ELSE [invoice EXCEPT ![i] = [client |-> req[r].client, status |-> "sent", paid |-> 0]]
  /\ used' = used \cup {i}
  /\ Goes(r, Idle)
  /\ UNCHANGED <<cli, paidBy, postgres, deletion>>

RecordPayment(i, p) ==
  /\ Exists(i)
  /\ p \notin used
  /\ invoice' = [invoice EXCEPT ![i].paid = @ + 1, ![i].status = "partially_paid"]
  /\ paidBy' = [paidBy EXCEPT ![p] = i]
  /\ used' = used \cup {p}
  /\ UNCHANGED <<cli, req, postgres, deletion>>

MarkOverdue(i) ==
  /\ Exists(i)
  /\ invoice[i].status # "overdue"
  /\ invoice' = [invoice EXCEPT ![i].status = "overdue"]
  /\ UNCHANGED <<cli, paidBy, req, postgres, used, deletion>>

Holds(r)   == At(r, "holds client") \/ At(r, "holds all")
Holding(i) == \E r \in Requests : Holds(r) /\ i \in DOMAIN req[r].invoices

(* The payments go first, and stay gone if the invoice may not *)
DeleteInvoice(i) ==
  /\ Exists(i)
  /\ paidBy' = [p \in Payments |-> IF paidBy[p] = i THEN NoRow ELSE paidBy[p]]
  /\ IF invoice[i].status = "partially_paid"
     THEN UNCHANGED invoice /\ deletion' = [deletion EXCEPT ![i] = "refused"]
     ELSE /\ invoice' = [invoice EXCEPT ![i] = NoRow]
          /\ deletion' = [deletion EXCEPT ![i] = IF Holding(i) THEN "held" ELSE "done"]
  /\ UNCHANGED <<cli, req, postgres, used>>

-----------------------------------------------------------------------------
(* UpdateClient: the client with its invoices, then their payments, are    *)
(* read and all is saved                                                   *)

UpdateClient(r, tenant, id) ==
  /\ At(r, "idle")
  /\ IF Found(tenant, id)
     THEN Goes(r, [at |-> "holds client", client |-> id,
                   invoices |-> [i \in InvoicesOf(id) |-> invoice[i]]])
     ELSE Goes(r, [at |-> "not found"])
  /\ UNCHANGED <<cli, invoice, paidBy, postgres, used, deletion>>

ReadPayments(r) ==
  /\ At(r, "holds client")
  /\ Goes(r, [at |-> "holds all", client |-> req[r].client, invoices |-> req[r].invoices,
              payments |-> [p \in PaymentsOf(DOMAIN req[r].invoices) |-> paidBy[p]]])
  /\ UNCHANGED <<cli, invoice, paidBy, postgres, used, deletion>>

(* Save stores what is missing; of an invoice that is there, only the      *)
(* client is written.  Mutated form: all of it is.                         *)
SaveOver(r) ==
  /\ At(r, "holds all")
  /\ cli' = [cli EXCEPT ![req[r].client] = TRUE]
  /\ invoice' = [i \in Invoices |-> IF i \in DOMAIN req[r].invoices
                                    THEN req[r].invoices[i] ELSE invoice[i]]
  /\ paidBy' = [p \in Payments |-> IF p \in DOMAIN req[r].payments
                                   THEN req[r].payments[p] ELSE paidBy[p]]
  /\ Goes(r, Idle)
  /\ UNCHANGED <<postgres, used, deletion>>
Save(r) ==
  /\ At(r, "holds all")
  /\ cli' = [cli EXCEPT ![req[r].client] = TRUE]
  /\ invoice' = [i \in Invoices |-> IF i \in DOMAIN req[r].invoices /\ ~Exists(i)
                                    THEN req[r].invoices[i] ELSE invoice[i]]
  /\ paidBy' = [p \in Payments |-> IF p \in DOMAIN req[r].payments
                                   THEN req[r].payments[p] ELSE paidBy[p]]
  /\ Goes(r, Idle)
  /\ UNCHANGED <<postgres, used, deletion>>

(* DeleteClient: the client's invoices are counted and it is deleted *)
DeleteClient(r, tenant, id) ==
  /\ At(r, "idle")
  /\ InvoicesOf(id) = {}
  /\ Goes(r, [at |-> "counted", tenant |-> tenant, id |-> id])
  /\ UNCHANGED <<cli, invoice, paidBy, postgres, used, deletion>>

(* Postgres refuses if an invoice refers to it *)
Delete(r) ==
  /\ At(r, "counted")
  /\ IF Found(req[r].tenant, req[r].id) /\ ~(postgres /\ InvoicesOf(req[r].id) # {})
     THEN cli' = [cli EXCEPT ![req[r].id] = FALSE] /\ Goes(r, Idle)
     ELSE UNCHANGED cli /\ Goes(r, [at |-> "not found"])
  /\ UNCHANGED <<invoice, paidBy, postgres, used, deletion>>

Answers(r) ==
  /\ At(r, "not found")
  /\ Goes(r, Idle)
  /\ UNCHANGED <<cli, invoice, paidBy, postgres, used, deletion>>

-----------------------------------------------------------------------------
(* The handlers; that of the deletion never finds the client               *)

HandleUpdate(r) == \E c \in ClientIDs : UpdateClient(r, c, Tenant)

HandleDelete(r) == \E c \in ClientIDs : DeleteClient(r, c, Tenant)

SetBuyerType(r) == \E c \in ClientIDs : Found(Tenant, c) /\ UpdateClient(r, Tenant, c)

Next == \/ \E c \in ClientIDs : CreateClient(c)
        \/ \E i \in Invoices : MarkOverdue(i) \/ DeleteInvoice(i)
        \/ \E i \in Invoices, p \in Payments : RecordPayment(i, p)
        \/ \E r \in Requests, i \in Invoices : CreateInvoice(r, i)
        \/ \E r \in Requests : \/ FindClient(r) \/ HandleUpdate(r) \/ HandleDelete(r)
                               \/ SetBuyerType(r) \/ ReadPayments(r) \/ Save(r)
                               \/ Delete(r) \/ Answers(r)

Spec == Init /\ [][Next]_vars

-----------------------------------------------------------------------------
(* Properties                                                              *)

(* An edit of a client takes no money back: what is paid on an invoice is  *)
(* what its payments say as long as no deletion has taken these, however   *)
(* old the invoices and payments are that the edit stores again.  And an   *)
(* invoice that was deleted is only there because an edit held it then.    *)
EditsTakeNothingBack ==
  /\ \A i \in Invoices : Exists(i) /\ deletion[i] = "none" =>
       invoice[i].paid = Cardinality(PaymentsOf({i}))
  /\ \A i \in Invoices : Exists(i) => deletion[i] # "done"
=============================================================================
