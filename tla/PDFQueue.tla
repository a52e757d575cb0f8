------------------------------- MODULE PDFQueue -------------------------------
(***************************************************************************)
(* The queue of PDFs to render, a sorted set in Redis that the handler of  *)
(* invoice creation fills and the loops of all replicas pop.  Creating,    *)
(* queueing, popping, loading, writing and reporting are separate steps; a *)
(* popped task exists only in the memory of the replica that popped it.    *)
(***************************************************************************)
EXTENDS Naturals, FiniteSets

CONSTANTS Invoices,     \* invoices that may be created
          Replicas,     \* each with one loop
          MaxEdits,     \* bound on the edits of an invoice
          MaxFailures,  \* bound on crashes, outages and failed renderings together
          None          \* nothing


VARIABLES
  invoice,   \* invoice[i]: its revision, or "none", "unqueued", "deleted"
  creator,   \* creator[i]: the replica whose request creates invoice i
  queue,     \* tasks, by invoice
  loop,      \* loop[r]: what replica r has popped, and how far it is
  file,      \* file[i]: the revision the file shows, or None
  result,    \* result[i]: what was reported for the task, or None
  popped,    \* popped[i]: how often the task was popped
  up,        \* whether Redis answers
  failures   \* how much of MaxFailures has happened

vars == <<invoice, creator, queue, loop, file, result, popped, up, failures>>

Resting == [pc |-> "rest", task |-> None, rev |-> 0]

Fails == failures < MaxFailures /\ failures' = failures + 1

Init ==
  /\ invoice = [i \in Invoices |-> [state |-> "none", rev |-> 0]]
  /\ creator = [i \in Invoices |-> None]
  /\ queue = {}
  /\ loop = [r \in Replicas |-> Resting]
  /\ file = [i \in Invoices |-> None]
  /\ result = [i \in Invoices |-> None]
  /\ popped = [i \in Invoices |-> 0]
  /\ up = TRUE
  /\ failures = 0

(* InvoiceHandler.CreateInvoice: the invoice is committed, *)
CreateInvoice(r, i) ==
  /\ invoice[i].state = "none"
  /\ invoice' = [invoice EXCEPT ![i].state = "stored"]
  /\ creator' = [creator EXCEPT ![i] = r]
  /\ UNCHANGED <<queue, loop, file, result, popped, up, failures>>

(* then queued; an error is ignored *)
EnqueueTask(i) ==
  /\ creator[i] # None
  /\ creator' = [creator EXCEPT ![i] = None]
  /\ queue' = IF up THEN queue \cup {i} ELSE queue
  /\ UNCHANGED <<invoice, loop, file, result, popped, up, failures>>

Edits(i) ==
  /\ invoice[i].state = "stored" /\ invoice[i].rev < MaxEdits
  /\ invoice' = [invoice EXCEPT ![i].rev = @ + 1]
  /\ UNCHANGED <<creator, queue, loop, file, result, popped, up, failures>>

Deletes(i) ==
  /\ invoice[i].state = "stored"
  /\ invoice' = [invoice EXCEPT ![i].state = "deleted"]
  /\ UNCHANGED <<creator, queue, loop, file, result, popped, up, failures>>

(* processNextTask *)
TakenFromSet(i) == queue \ {i}

ProcessNextTask(r) ==
  /\ loop[r] = Resting /\ up
  /\ \E i \in queue :
       /\ queue' = TakenFromSet(i)
       /\ loop' = [loop EXCEPT ![r] = [pc |-> "load", task |-> i, rev |-> 0]]
       /\ popped' = [popped EXCEPT ![i] = @ + 1]
  /\ UNCHANGED <<invoice, creator, file, result, up, failures>>

(* A task that fails is reported (mutated form: it is given up) *)
GivesUp(r)   == loop' = [loop EXCEPT ![r] = Resting]
FailsTask(r) == loop' = [loop EXCEPT ![r].pc = "failed"]

(* executeTask: the invoice is loaded, *)
LoadsInvoice(r) ==
  /\ loop[r].pc = "load"
  /\ LET i == loop[r].task
     IN IF invoice[i].state = "stored"
        THEN loop' = [loop EXCEPT ![r].pc = "save", ![r].rev = invoice[i].rev]
        ELSE FailsTask(r)
  /\ UNCHANGED <<invoice, creator, queue, file, result, popped, up, failures>>

(* rendered and written *)
SavesPDF(r) ==
  /\ loop[r].pc = "save"
  /\ \/ /\ file' = [file EXCEPT ![loop[r].task] = loop[r].rev]
        /\ loop' = [loop EXCEPT ![r].pc = "completed"]
        /\ UNCHANGED failures
     \/ /\ Fails
        /\ FailsTask(r)
        /\ UNCHANGED file
  /\ UNCHANGED <<invoice, creator, queue, result, popped, up>>

(* The report; an error of Redis is ignored *)
CompleteTask(r) ==
  /\ loop[r].pc \in {"completed", "failed"}
  /\ result' = IF up THEN [result EXCEPT ![loop[r].task] = loop[r].pc] ELSE result
  /\ loop' = [loop EXCEPT ![r] = Resting]
  /\ UNCHANGED <<invoice, creator, queue, file, popped, up, failures>>

ExecuteTask(r) == LoadsInvoice(r) \/ SavesPDF(r) \/ CompleteTask(r)

RedisFails ==
  /\ up /\ Fails
  /\ up' = FALSE
  /\ UNCHANGED <<invoice, creator, queue, loop, file, result, popped>>

RedisAnswers ==
  /\ ~up
  /\ up' = TRUE
  /\ UNCHANGED <<invoice, creator, queue, loop, file, result, popped, failures>>

Crash(r) ==
  /\ Fails
  /\ loop' = [loop EXCEPT ![r] = Resting]
  /\ creator' = [i \in Invoices |-> IF creator[i] = r THEN None ELSE creator[i]]
  /\ UNCHANGED <<invoice, queue, file, result, popped, up>>

Next ==
  \/ \E r \in Replicas :
       \/ \E i \in Invoices : CreateInvoice(r, i)
       \/ ProcessNextTask(r) \/ ExecuteTask(r) \/ Crash(r)
  \/ \E i \in Invoices : EnqueueTask(i) \/ Edits(i) \/ Deletes(i)
  \/ RedisFails \/ RedisAnswers

Spec == Init /\ [][Next]_vars

-----------------------------------------------------------------------------
TypeOK ==
  /\ \A i \in Invoices :
       /\ invoice[i].state \in {"none", "stored", "deleted"} /\ invoice[i].rev \in 0..MaxEdits
       /\ file[i] = None \/ file[i] <= invoice[i].rev
       /\ result[i] \in {None, "completed", "failed"}
       /\ result[i] = "completed" => file[i] # None
  /\ queue \subseteq Invoices
  /\ \A r \in Replicas : loop[r].pc \in {"rest", "load", "save", "completed", "failed"}

(* A queued invoice gets a report, unless a replica or Redis failed. *)
Queued(i)   == i \in queue
Reported(i) == result[i] # None \/ failures > 0
=============================================================================
