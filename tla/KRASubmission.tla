---------------------------- MODULE KRASubmission ----------------------------
(***************************************************************************)
(* Registering one invoice with the tax authority (KRA e-TIMS), which      *)
(* answers every registration with a fresh confirmation number (ICN).      *)
(*                                                                         *)
(* SendInvoice registers it from a goroutine while the request saves the   *)
(* invoice it read.  SubmitToKRA, RetryKRA, SyncKRA and SubmitAllPending   *)
(* register it inside a database transaction that stays open during the    *)
(* call.  A registration that fails is to be queued, and a worker sends    *)
(* the queued payloads again.  Meanwhile other requests edit the invoice   *)
(* or book payments on it and save the whole row they had read, these      *)
(* columns included.  The server may crash and restart.                    *)
(*                                                                         *)
(* Over SQLite there is one database connection, which a transaction       *)
(* keeps.  Over Postgres there is a pool, and a transaction that has       *)
(* updated the invoice's row keeps the row locked.                         *)
(***************************************************************************)
EXTENDS Naturals, FiniteSets

CONSTANTS Requests,    \* requests; an item queued by one has its id
          Ops,         \* the operations requests may run, a subset of AllOps
          Databases,   \* the databases the server may run over
          Answers,     \* how a call to KRA may end, a subset of AllAnswers
          MaxRetries,  \* KRAQueueItem.MaxRetries
          MaxCrashes,  \* bound on crashes
          NoItem       \* nothing queued

TxOps == {"submit", "retry", "sync", "all"}
(* "edit": whoever reads and saves the row in two statements, "pay": in a  *)
(* transaction of its own                                                  *)
RowOps == {"edit", "pay"}
AllOps == TxOps \cup RowOps \cup {"send"}
(* "lost": KRA has registered the invoice, but no answer arrives *)
AllAnswers == {"ok", "lost", "down"}

ASSUME OpsAssumption        == Ops \subseteq AllOps
ASSUME DatabasesAssumption  == Databases \subseteq {"sqlite", "postgres"}
ASSUME AnswersAssumption    == Answers \subseteq AllAnswers
ASSUME MaxRetriesAssumption == MaxRetries \in Nat \ {0}
ASSUME MaxCrashesAssumption == MaxCrashes \in Nat

VARIABLES
  db,          \* the database the server runs over
  inv,         \* the KRA columns of the invoice row; icn 0 for none
  registered,  \* how many times KRA has registered the invoice
  queue,       \* queue[r]: the item request r has queued, or NoItem
  req,         \* req[r]: where request r is and what it read
  worker,      \* what the retry worker is doing
  crashes      \* how often the server has crashed

vars == <<db, inv, registered, queue, req, worker, crashes>>

Columns == [sent: BOOLEAN, status: {"pending", "", "submitted", "failed"},
            icn: Nat]

(* sent: SendInvoice refuses the invoice.  unsaved: row is still to be     *)
(* saved, which SendInvoice's goroutine does not wait for.                 *)
Request == [op: AllOps \cup {"none"},
            pc: {"new", "clear", "begin", "lock", "call", "answered", "failed",
                 "mark", "done"},
            unsaved: BOOLEAN, row: Columns, icn: Nat]

(* sends counts the calls made for the item *)
Item == [status: {"pending", "completed", "failed"}, retries: 0..MaxRetries,
         sends: Nat]

ASSUME NoItemAssumption == NoItem \notin Requests \cup Item

NewInvoice == [sent |-> FALSE, status |-> "pending", icn |-> 0]
NewRequest == [op |-> "none", pc |-> "new", unsaved |-> FALSE,
               row |-> NewInvoice, icn |-> 0]
NewItem    == [status |-> "pending", retries |-> 0, sends |-> 0]
IdleWorker == [item |-> NoItem, ok |-> FALSE]

Init ==
  /\ db \in Databases
  /\ inv = NewInvoice
  /\ registered = 0
  /\ queue = [r \in Requests |-> NoItem]
  /\ req = [r \in Requests |-> NewRequest]
  /\ worker = IdleWorker
  /\ crashes = 0

-----------------------------------------------------------------------------
(* Connections and locks *)

Submitting(r) ==
  req[r].op \in TxOps /\ req[r].pc \in {"lock", "call", "answered", "failed"}
Booking(r) == req[r].op = "pay" /\ req[r].unsaved
InTx(r)    == Submitting(r) \/ Booking(r)
HasRow(r)  == Submitting(r) /\ req[r].pc # "lock"

(* Mutated form: a pool over SQLite too *)
ConnectedToPool(r) == TRUE
Connected(r) == db = "sqlite" => \A q \in Requests \ {r} : ~InTx(q)
Writable(r)  == Connected(r) /\ \A q \in Requests \ {r} : ~HasRow(q)
FreePool     == db = "sqlite" => \A q \in Requests : ~InTx(q)

Go(r, op, pc) == req' = [req EXCEPT ![r].op = op, ![r].pc = pc]
Done(r) == req' = [req EXCEPT ![r].pc = "done", ![r].row = NewInvoice,
                              ![r].icn = 0]

(* The call to KRA behind the circuit breaker: what it answers, and what   *)
(* KRA has done                                                            *)
SubmitInvoice(answer) ==
  registered' = IF answer = "down" THEN registered ELSE registered + 1

Call(r) ==
  /\ req[r].pc = "call"
  /\ \E answer \in Answers :
       /\ SubmitInvoice(answer)
       /\ req' = IF answer = "ok"
                 THEN [req EXCEPT ![r].pc = "answered", ![r].icn = registered + 1]
                 ELSE [req EXCEPT ![r].pc = "failed"]
  /\ UNCHANGED <<db, inv, queue, worker, crashes>>

-----------------------------------------------------------------------------
(* SendInvoice: read; then Save the row and, for an invoice without an     *)
(* ICN, a goroutine that registers it                                      *)

SendRead(r) ==
  /\ "send" \in Ops
  /\ req[r].pc = "new"
  /\ Connected(r)
  /\ IF inv.sent THEN Go(r, "send", "done")
     ELSE req' = [req EXCEPT ![r] = [op |-> "send", unsaved |-> TRUE, row |-> inv,
                    icn |-> 0, pc |-> IF inv.icn = 0 THEN "call" ELSE "done"]]
  /\ UNCHANGED <<db, inv, registered, queue, worker, crashes>>

(* UpdateInvoice, UpdateInvoiceItems, the late fee and the payments of     *)
(* Stripe and IntaSend read the row, and save it later.  RecordPayment,    *)
(* CancelInvoice, matches, M-Pesa's callback and refunds do both in one    *)
(* transaction.                                                            *)
ReadRow(r) ==
  /\ req[r].pc = "new"
  /\ Connected(r)
  /\ \E op \in RowOps \cap Ops :
       req' = [req EXCEPT ![r] = [op |-> op, unsaved |-> TRUE, row |-> inv,
                                  icn |-> 0, pc |-> "done"]]
  /\ UNCHANGED <<db, inv, registered, queue, worker, crashes>>

(* The status the row is saved with *)
Sent(op) == IF op = "send" THEN {TRUE} ELSE BOOLEAN

(* Save writes every other column as it was read *)
SaveRow(r) ==
  /\ req[r].unsaved
  /\ Writable(r)
  /\ \E sent \in Sent(req[r].op) : inv' = [req[r].row EXCEPT !.sent = sent]
  /\ req' = [req EXCEPT ![r].unsaved = FALSE]
  /\ UNCHANGED <<db, registered, queue, worker, crashes>>

(* QueueFailedSubmission by the goroutine.  Postgres refuses the item: its *)
(* id is no UUID.                                                          *)
SendQueues(r) ==
  /\ req[r].op = "send"
  /\ req[r].pc = "failed"
  /\ Connected(r)
  /\ queue' = IF db = "sqlite" THEN [queue EXCEPT ![r] = NewItem] ELSE queue
  /\ Go(r, "send", "mark")
  /\ UNCHANGED <<db, inv, registered, worker, crashes>>

(* Mutated form: a failure takes the ICN away *)
MarkedWithoutICN == [inv EXCEPT !.status = "failed", !.icn = 0]
Marked           == [inv EXCEPT !.status = "failed"]

SendMarks(r) ==
  /\ req[r].pc = "mark"
  /\ Writable(r)
  /\ inv' = Marked
  /\ req' = [req EXCEPT ![r].pc = "done"]
  /\ UNCHANGED <<db, registered, queue, worker, crashes>>

Submitted(icn) == [inv EXCEPT !.status = "submitted", !.icn = icn]

SendRegistered(r) ==
  /\ req[r].op = "send"
  /\ req[r].pc = "answered"
  /\ Writable(r)
  /\ inv' = Submitted(req[r].icn)
  /\ req' = [req EXCEPT ![r].pc = "done"]
  /\ UNCHANGED <<db, registered, queue, worker, crashes>>

-----------------------------------------------------------------------------
(* The handlers around SubmitInvoiceToKRA *)

Registered(row) == row.status = "submitted" /\ row.icn # 0

(* SubmitToKRA: nothing for a registered invoice; a failed one is cleared. *)
(* RetryKRA clears whatever there is.  SyncKRA submits at once.  Submit-   *)
(* AllPending lists the invoices with an empty status and no ICN.          *)
Handle(r) ==
  /\ req[r].pc = "new"
  /\ Connected(r)
  /\ \/ /\ "submit" \in Ops
        /\ Go(r, "submit", IF Registered(inv) THEN "done"
                           ELSE IF inv.status = "failed" THEN "clear" ELSE "begin")
     \/ "retry" \in Ops /\ Go(r, "retry", "clear")
     \/ "sync" \in Ops /\ Go(r, "sync", "begin")
     \/ /\ "all" \in Ops
        /\ inv.status = "" /\ inv.icn = 0
        /\ Go(r, "all", "begin")
  /\ UNCHANGED <<db, inv, registered, queue, worker, crashes>>

Cleared == [inv EXCEPT !.status = "", !.icn = 0]

ClearKRAData(r) ==
  /\ req[r].pc = "clear"
  /\ Writable(r)
  /\ inv' = Cleared
  /\ Go(r, req[r].op, "begin")
  /\ UNCHANGED <<db, registered, queue, worker, crashes>>

(* SubmitInvoiceToKRA's transaction reads and checks the invoice, *)
Begin(r) ==
  /\ req[r].pc = "begin"
  /\ Connected(r)
  /\ IF Registered(inv) THEN Done(r)
     ELSE req' = [req EXCEPT ![r].pc = "lock", ![r].row = inv]
  /\ UNCHANGED <<db, inv, registered, queue, worker, crashes>>

(* stores a new idempotency key, which locks the row, and calls KRA; *)
StoreKey(r) ==
  /\ req[r].pc = "lock"
  /\ Writable(r)
  /\ Go(r, req[r].op, "call")
  /\ UNCHANGED <<db, inv, registered, queue, worker, crashes>>

(* then it stores the answer and commits. *)
Commit(r) ==
  /\ req[r].op \in TxOps
  /\ req[r].pc = "answered"
  /\ inv' = Submitted(req[r].icn)
  /\ Done(r)
  /\ UNCHANGED <<db, registered, queue, worker, crashes>>

(* A failure is queued through a second connection.  Over SQLite there is  *)
(* none: the transaction waits for itself, and everybody for it.  Over     *)
(* Postgres the item is refused and the transaction rolls back.            *)
RollBack(r) ==
  /\ req[r].op \in TxOps
  /\ req[r].pc = "failed"
  /\ db = "postgres"
  /\ Done(r)
  /\ UNCHANGED <<db, inv, registered, queue, worker, crashes>>

-----------------------------------------------------------------------------
(* ProcessRetryQueue: one worker sends the pending items one by one *)

(* Mutated forms: completed items are sent again; a failed item is not *)
PendingUntried     == {i \in Requests : queue[i] # NoItem /\ queue[i].status = "pending"
                                                          /\ queue[i].retries = 0}
PendingOrCompleted == {i \in Requests : queue[i] # NoItem /\ queue[i].status # "failed"}
Pending == {i \in Requests : queue[i] # NoItem /\ queue[i].status = "pending"}

WorkerSends(i) ==
  /\ worker = IdleWorker
  /\ i \in Pending
  /\ FreePool
  /\ \E answer \in Answers :
       /\ SubmitInvoice(answer)
       /\ worker' = [item |-> i, ok |-> answer = "ok"]
  /\ queue' = [queue EXCEPT ![i].sends = @ + 1]
  /\ UNCHANGED <<db, inv, req, crashes>>

(* The item after the call.  The answer's ICN is only logged.              *)
Settled(item, ok) ==
  IF ok THEN [item EXCEPT !.status = "completed"]
  ELSE [item EXCEPT !.retries = item.retries + 1,
                    !.status = IF item.retries + 1 >= MaxRetries
                               THEN "failed" ELSE "pending"]

WorkerSaves(i) ==
  /\ worker.item = i
  /\ FreePool
  /\ queue' = [queue EXCEPT ![i] = Settled(queue[i], worker.ok)]
  /\ worker' = IdleWorker
  /\ UNCHANGED <<db, inv, registered, req, crashes>>

-----------------------------------------------------------------------------
(* The server restarts: requests and goroutines are gone, transactions     *)
(* roll back, the database stays.                                          *)
Crash ==
  /\ crashes < MaxCrashes
  /\ crashes' = crashes + 1
  /\ req' = [r \in Requests |->
               IF req[r].pc = "new" THEN req[r]
               ELSE [NewRequest EXCEPT !.op = req[r].op, !.pc = "done"]]
  /\ worker' = IdleWorker
  /\ UNCHANGED <<db, inv, registered, queue>>

Goroutine(r) == \/ Call(r) \/ SaveRow(r) \/ SendQueues(r) \/ SendMarks(r)
                \/ SendRegistered(r) \/ ClearKRAData(r) \/ Begin(r)
                \/ StoreKey(r) \/ Commit(r) \/ RollBack(r)

Worker(i) == WorkerSends(i) \/ WorkerSaves(i)

Next == \/ \E r \in Requests : SendRead(r) \/ ReadRow(r) \/ Handle(r) \/ Goroutine(r)
        \/ \E i \in Requests : Worker(i)
        \/ Crash

Spec == Init /\ [][Next]_vars

(* Goroutines run, and the ticker keeps calling the worker *)
FairSpec == /\ Spec
            /\ \A r \in Requests : WF_vars(Goroutine(r))
            /\ \A i \in Requests : WF_vars(Worker(i))

-----------------------------------------------------------------------------
(* Types of the columns, the requests, the queue and the worker. *)
TypeOK ==
  /\ db \in Databases
  /\ inv \in Columns
  /\ registered \in Nat
  /\ queue \in [Requests -> Item \cup {NoItem}]
  /\ req \in [Requests -> Request]
  /\ worker \in [item: Requests \cup {NoItem}, ok: BOOLEAN]
  /\ crashes \in 0..MaxCrashes

(* Whoever wrote the columns last, and however old the row it had read, an *)
(* invoice marked submitted carries the ICN of a registration.             *)
SubmittedHasICN == inv.status = "submitted" => inv.icn \in 1..registered

(* While a transaction is calling KRA over one connection the invoice is   *)
(* still unregistered as it was when the transaction checked: nobody can   *)
(* have stored an ICN in between, nor can two transactions be under way.   *)
CheckHoldsDuringCall ==
  db = "sqlite" =>
    /\ \A r \in Requests : Submitting(r) => inv = req[r].row /\ ~Registered(inv)
    /\ Cardinality({r \in Requests : InTx(r)}) <= 1

(* An item is never sent more often than its retries allow, but for one    *)
(* send more per crash between the call and the Save.                      *)
SendsAreBounded ==
  \A i \in Requests :
    queue[i] # NoItem => queue[i].sends <= MaxRetries + crashes

(* A stored ICN gets lost only by a handler clearing it for a retry, or by *)
(* a request that saves a whole row it had read before the registration:   *)
(* SendInvoice's or an edit's, and over Postgres also a payment's, whose   *)
(* transaction keeps the registration out over SQLite only.                *)
ICNsAreLostOnlyBy ==
  [][inv.icn # 0 /\ inv'.icn = 0 =>
       \E r \in Requests :
         \/ req[r].pc = "clear" /\ req[r].op \in {"submit", "retry"}
         \/ /\ req[r].unsaved /\ ~req'[r].unsaved /\ req[r].row.icn = 0
            /\ Booking(r) => db = "postgres"]_vars

(* A transaction that hangs for want of a second connection *)
Hung == db = "sqlite" /\ \E r \in Requests : Submitting(r) /\ req[r].pc = "failed"

Waiting(i) == queue[i] # NoItem /\ queue[i].status = "pending"

(* The worker gets rid of every queued item, however often KRA is down and *)
(* the server crashes, unless a hanging transaction keeps the connection.  *)
QueueDrains == \A i \in Requests : Waiting(i) ~> (~Waiting(i) \/ Hung)
=============================================================================
