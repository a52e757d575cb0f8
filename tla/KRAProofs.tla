------------------------------ MODULE KRAProofs ------------------------------
(***************************************************************************)
(* What holds of the registration of an invoice for any number of          *)
(* requests, any retry limit and any number of crashes.                    *)
(*                                                                         *)
(* The bound on retries needs the worker's book-keeping: it works on a     *)
(* waiting item, and each send is paid for by a retry, a crash or the call *)
(* under way.  That a submitted invoice has its ICN needs the same of      *)
(* every row a request still has to save and every answer it has to store. *)
(***************************************************************************)
EXTENDS KRASubmission, FiniteSetTheorems, TLAPS

USE OpsAssumption, DatabasesAssumption, AnswersAssumption,
    MaxRetriesAssumption, MaxCrashesAssumption, NoItemAssumption

(* Which operation a request at some points is in *)
Passage ==
  \A r \in Requests :
    /\ req[r].unsaved => req[r].op \in RowOps \cup {"send"}
    /\ req[r].op = "pay" => req[r].pc = "done"
    /\ req[r].pc = "mark" => req[r].op = "send"
    /\ req[r].pc = "clear" => req[r].op \in {"submit", "retry"}
    /\ req[r].pc = "new" => ~req[r].unsaved

(* The worker's book-keeping *)
Working(i) == IF worker.item = i THEN 1 ELSE 0
Accounted ==
  \A i \in Requests :
    /\ worker.item = i => Waiting(i)
    /\ Waiting(i) => /\ queue[i].retries < MaxRetries
                     /\ queue[i].sends <= queue[i].retries + crashes + Working(i)
    /\ queue[i] # NoItem => queue[i].sends <= MaxRetries + crashes

(* An update of one request keeps the type of all. *)
LEMMA RequestType ==
  ASSUME TypeOK, NEW r \in Requests, NEW new \in Request,
         req' = [req EXCEPT ![r] = new]
  PROVE  /\ req' \in [Requests -> Request]
         /\ req'[r] = new
         /\ \A q \in Requests \ {r} : req'[q] = req[q]
BY DEF TypeOK

(* It keeps Passage where it may. *)
LEMMA RequestPassage ==
  ASSUME TypeOK, Passage, NEW r \in Requests, NEW new \in Request,
         req' = [req EXCEPT ![r] = new],
         new.unsaved => new.op \in RowOps \cup {"send"},
         new.op = "pay" => new.pc = "done",
         new.pc = "mark" => new.op = "send",
         new.pc = "clear" => new.op \in {"submit", "retry"},
         new.pc = "new" => ~new.unsaved
  PROVE  /\ req' \in [Requests -> Request]
         /\ \A q \in Requests \ {r} : req'[q] = req[q]
         /\ Passage'
<1>1. /\ req' \in [Requests -> Request] /\ req'[r] = new
      /\ \A q \in Requests \ {r} : req'[q] = req[q]
  BY RequestType
<1> QED BY <1>1 DEF Passage

(* A request that goes on keeps all but its operation and place. *)
LEMMA GoType ==
  ASSUME TypeOK, NEW r \in Requests, NEW op \in AllOps,
         NEW pc \in {"new", "clear", "begin", "lock", "call", "answered",
                     "failed", "mark", "done"},
         Go(r, op, pc)
  PROVE  /\ req' \in [Requests -> Request]
         /\ req'[r].op = op /\ req'[r].pc = pc
         /\ req'[r].unsaved = req[r].unsaved
         /\ req'[r].row = req[r].row /\ req'[r].icn = req[r].icn
         /\ \A q \in Requests \ {r} : req'[q] = req[q]
<1> DEFINE new == [req[r] EXCEPT !.op = op, !.pc = pc]
<1>1. req[r] \in Request
  BY DEF TypeOK
<1>2. /\ new \in Request /\ new.op = op /\ new.pc = pc
      /\ new.unsaved = req[r].unsaved /\ new.row = req[r].row
      /\ new.icn = req[r].icn
  BY <1>1 DEF Request
<1>3. req' = [req EXCEPT ![r] = new]
  BY DEF Go
<1> HIDE DEF new
<1> QED BY <1>2, <1>3, RequestType

(* A request that ends keeps only its operation and SendInvoice's Save. *)
LEMMA DoneType ==
  ASSUME TypeOK, NEW r \in Requests, Done(r)
  PROVE  /\ req' \in [Requests -> Request]
         /\ req'[r].op = req[r].op /\ req'[r].pc = "done"
         /\ req'[r].unsaved = req[r].unsaved
         /\ \A q \in Requests \ {r} : req'[q] = req[q]
<1> DEFINE new == [req[r] EXCEPT !.pc = "done", !.row = NewInvoice, !.icn = 0]
<1>1. req[r] \in Request
  BY DEF TypeOK
<1>2. /\ new \in Request /\ new.op = req[r].op /\ new.pc = "done"
      /\ new.unsaved = req[r].unsaved
  BY <1>1 DEF Request, NewInvoice, Columns
<1>3. req' = [req EXCEPT ![r] = new]
  BY DEF Done
<1> HIDE DEF new
<1> QED BY <1>2, <1>3, RequestType

RequestStep(r) == SendRead(r) \/ ReadRow(r) \/ Handle(r) \/ Goroutine(r)

(* A request's step concerns that request, the columns and the count of    *)
(* registrations.                                                          *)
LEMMA RequestStepType ==
  ASSUME TypeOK, Passage, NEW r \in Requests, RequestStep(r)
  PROVE  /\ req' \in [Requests -> Request] /\ inv' \in Columns
         /\ registered' \in Nat /\ registered <= registered'
         /\ \A q \in Requests \ {r} : req'[q] = req[q]
         /\ Passage'
<1>1. /\ req[r] \in Request /\ inv \in Columns /\ registered \in Nat
      /\ registered <= registered
      /\ req[r].row \in Columns /\ req[r].icn \in Nat
      /\ req[r].op \in AllOps \cup {"none"}
  BY DEF TypeOK, Request
<1>2. ASSUME req' \in [Requests -> Request],
             \A q \in Requests \ {r} : req'[q] = req[q],
             /\ req'[r].unsaved => req'[r].op \in RowOps \cup {"send"}
             /\ req'[r].op = "pay" => req'[r].pc = "done"
             /\ req'[r].pc = "mark" => req'[r].op = "send"
             /\ req'[r].pc = "clear" => req'[r].op \in {"submit", "retry"}
             /\ req'[r].pc = "new" => ~req'[r].unsaved
      PROVE  Passage'
  BY <1>2 DEF Passage
<1>3. /\ req[r].unsaved => req[r].op \in RowOps \cup {"send"}
      /\ req[r].op = "pay" => req[r].pc = "done"
      /\ req[r].pc = "mark" => req[r].op = "send"
      /\ req[r].pc = "clear" => req[r].op \in {"submit", "retry"}
      /\ req[r].pc = "new" => ~req[r].unsaved
  BY DEF Passage
<1>4. CASE SendRead(r)
  <2> DEFINE new == [op |-> "send", unsaved |-> TRUE, row |-> inv, icn |-> 0,
                     pc |-> IF inv.icn = 0 THEN "call" ELSE "done"]
  <2>1. CASE inv.sent
    <3>1. Go(r, "send", "done")
      BY <1>4, <2>1 DEF SendRead
    <3>2. /\ req' \in [Requests -> Request]
          /\ req'[r].op = "send" /\ req'[r].pc = "done"
          /\ \A q \in Requests \ {r} : req'[q] = req[q]
      BY <3>1, GoType DEF AllOps
    <3>3. Passage'
      BY <1>2, <3>2
    <3> QED BY <1>1, <1>4, <3>2, <3>3 DEF SendRead
  <2>2. CASE ~inv.sent
    <3>1. req' = [req EXCEPT ![r] = new]
      BY <1>4, <2>2 DEF SendRead
    <3>2. /\ new \in Request /\ new.op = "send" /\ new.pc # "mark"
          /\ new.pc # "clear" /\ new.pc # "new"
      BY <1>1 DEF Request, AllOps
    <3> HIDE DEF new
    <3> QED BY <1>1, <1>4, <3>1, <3>2, RequestPassage DEF SendRead
  <2> QED BY <2>1, <2>2
<1>14. CASE ReadRow(r)
  <2>1. PICK op \in RowOps :
          req' = [req EXCEPT ![r] = [op |-> op, unsaved |-> TRUE, row |-> inv,
                                     icn |-> 0, pc |-> "done"]]
    BY <1>14 DEF ReadRow
  <2> DEFINE new == [op |-> op, unsaved |-> TRUE, row |-> inv, icn |-> 0,
                     pc |-> "done"]
  <2>2. /\ new \in Request /\ new.op = op /\ new.pc = "done"
        /\ req' = [req EXCEPT ![r] = new]
    BY <1>1, <2>1 DEF Request, AllOps
  <2>3. inv' = inv /\ registered' = registered
    BY <1>14 DEF ReadRow
  <2> HIDE DEF new
  <2> QED BY <1>1, <2>2, <2>3, RequestPassage
<1>5. CASE Handle(r)
  <2>1. PICK op \in TxOps, pc \in {"done", "clear", "begin"} :
          Go(r, op, pc) /\ (pc = "clear" => op \in {"submit", "retry"})
    BY <1>5 DEF Handle, TxOps
  <2>2. ~req[r].unsaved
    BY <1>5 DEF Handle, Passage
  <2>3. /\ req' \in [Requests -> Request]
        /\ req'[r].op = op /\ req'[r].pc = pc
        /\ req'[r].unsaved = req[r].unsaved
        /\ \A q \in Requests \ {r} : req'[q] = req[q]
    BY <2>1, GoType DEF AllOps
  <2> QED BY <1>1, <1>2, <1>3, <1>5, <2>1, <2>2, <2>3 DEF Handle, TxOps
<1>6. CASE Call(r)
  <2>1. PICK answer \in Answers :
          /\ SubmitInvoice(answer)
          /\ req' = IF answer = "ok"
                    THEN [req EXCEPT ![r].pc = "answered", ![r].icn = registered + 1]
                    ELSE [req EXCEPT ![r].pc = "failed"]
    BY <1>6 DEF Call
  <2>5. req[r].op # "pay"
    BY <1>3, <1>6 DEF Call
  <2>2. registered' \in Nat /\ registered <= registered' /\ inv' \in Columns
    BY <1>1, <1>6, <2>1 DEF SubmitInvoice, Call
  <2>3. CASE answer = "ok"
    <3> DEFINE new == [req[r] EXCEPT !.pc = "answered", !.icn = registered + 1]
    <3>1. /\ new \in Request /\ new.op = req[r].op /\ new.pc = "answered"
          /\ new.unsaved = req[r].unsaved
      <4>1. registered + 1 \in Nat
        BY <1>1
      <4> QED BY <1>1, <4>1 DEF Request
    <3>2. req' = [req EXCEPT ![r] = new]
      BY <2>1, <2>3
    <3> HIDE DEF new
    <3> QED BY <1>3, <2>2, <2>5, <3>1, <3>2, RequestPassage
  <2>4. CASE answer # "ok"
    <3> DEFINE new == [req[r] EXCEPT !.pc = "failed"]
    <3>1. /\ new \in Request /\ new.op = req[r].op /\ new.pc = "failed"
          /\ new.unsaved = req[r].unsaved
      BY <1>1 DEF Request
    <3>2. req' = [req EXCEPT ![r] = new]
      BY <2>1, <2>4
    <3> HIDE DEF new
    <3> QED BY <1>3, <2>2, <2>5, <3>1, <3>2, RequestPassage
  <2> QED BY <2>3, <2>4
<1>7. CASE SaveRow(r)
  <2> DEFINE new == [req[r] EXCEPT !.unsaved = FALSE]
  <2>1. /\ new \in Request /\ new.op = req[r].op /\ new.pc = req[r].pc
        /\ ~new.unsaved
    BY <1>1 DEF Request
  <2>2. req' = [req EXCEPT ![r] = new]
    BY <1>7 DEF SaveRow
  <2>3. inv' \in Columns /\ registered' = registered
    BY <1>1, <1>7 DEF SaveRow, Sent, Columns
  <2> HIDE DEF new
  <2> QED BY <1>1, <1>3, <2>1, <2>2, <2>3, RequestPassage
<1>8. CASE SendQueues(r)
  <2>1. Go(r, "send", "mark")
    BY <1>8 DEF SendQueues
  <2> QED BY <1>1, <1>2, <1>3, <1>8, <2>1, GoType DEF SendQueues, AllOps
<1>9. CASE SendMarks(r) \/ SendRegistered(r)
  <2> DEFINE new == [req[r] EXCEPT !.pc = "done"]
  <2>1. /\ new \in Request /\ new.op = req[r].op /\ new.pc = "done"
        /\ new.unsaved = req[r].unsaved
    BY <1>1 DEF Request
  <2>2. req' = [req EXCEPT ![r] = new]
    BY <1>9 DEF SendMarks, SendRegistered
  <2>3. inv' \in Columns /\ registered' = registered
    BY <1>1, <1>9 DEF SendMarks, SendRegistered, Marked, Submitted, Columns
  <2> HIDE DEF new
  <2> QED BY <1>1, <1>3, <2>1, <2>2, <2>3, RequestPassage
<1>10. CASE ClearKRAData(r)
  <2>1. /\ Go(r, req[r].op, "begin") /\ req[r].op \in AllOps
        /\ req[r].op # "pay"
    BY <1>3, <1>10 DEF ClearKRAData, AllOps, TxOps
  <2>2. inv' \in Columns /\ registered' = registered
    BY <1>1, <1>10 DEF ClearKRAData, Cleared, Columns
  <2> QED BY <1>1, <1>2, <1>3, <2>1, <2>2, GoType
<1>11. CASE Begin(r)
  <2> DEFINE new == [req[r] EXCEPT !.pc = "lock", !.row = inv]
  <2>1. /\ new \in Request /\ new.op = req[r].op /\ new.pc = "lock"
        /\ new.unsaved = req[r].unsaved
    BY <1>1 DEF Request
  <2>2. Done(r) \/ req' = [req EXCEPT ![r] = new]
    BY <1>11 DEF Begin
  <2>3. /\ inv' = inv /\ registered' = registered
        /\ req[r].op # "pay"
    BY <1>3, <1>11 DEF Begin
  <2> HIDE DEF new
  <2> QED BY <1>1, <1>2, <1>3, <2>1, <2>2, <2>3, RequestType, DoneType
<1>12. CASE StoreKey(r)
  <2> DEFINE new == [req[r] EXCEPT !.op = req[r].op, !.pc = "call"]
  <2>1. /\ new \in Request /\ new.op = req[r].op /\ new.pc = "call"
        /\ new.unsaved = req[r].unsaved
    BY <1>1 DEF Request
  <2>2. req' = [req EXCEPT ![r] = new]
    BY <1>12 DEF StoreKey, Go
  <2>3. /\ inv' = inv /\ registered' = registered
        /\ req[r].op # "pay"
    BY <1>3, <1>12 DEF StoreKey
  <2> HIDE DEF new
  <2> QED BY <1>1, <1>3, <2>1, <2>2, <2>3, RequestPassage
<1>13. CASE Commit(r) \/ RollBack(r)
  <2>1. Done(r) /\ inv' \in Columns /\ registered' = registered
    BY <1>1, <1>13 DEF Commit, RollBack, Submitted, Columns
  <2> QED BY <1>1, <1>2, <1>3, <2>1, DoneType
<1> QED BY <1>4, <1>5, <1>6, <1>7, <1>8, <1>9, <1>10, <1>11, <1>12, <1>13,
        <1>14 DEF RequestStep, Goroutine

-----------------------------------------------------------------------------
(* Types and the bound on retries *)

(* A settled item is an item, has used at most one retry more, and waits   *)
(* again only if it has retries left.                                      *)
LEMMA SettledLemma ==
  ASSUME NEW item \in Item, item.status = "pending",
         item.retries < MaxRetries, NEW ok \in BOOLEAN
  PROVE  /\ Settled(item, ok) \in Item
         /\ Settled(item, ok).sends = item.sends
         /\ Settled(item, ok).status = "pending" =>
              /\ Settled(item, ok).retries < MaxRetries
              /\ Settled(item, ok).retries = item.retries + 1
<1>1. item.retries \in Nat /\ item.retries + 1 \in 0..MaxRetries
  BY DEF Item
<1>2. CASE ok
  <2>1. Settled(item, ok) = [item EXCEPT !.status = "completed"]
    BY <1>2 DEF Settled
  <2> QED BY <2>1 DEF Item
<1>3. CASE ~ok /\ item.retries + 1 >= MaxRetries
  <2>1. Settled(item, ok) =
          [item EXCEPT !.retries = item.retries + 1, !.status = "failed"]
    BY <1>3 DEF Settled
  <2> QED BY <1>1, <2>1 DEF Item
<1>4. CASE ~ok /\ ~(item.retries + 1 >= MaxRetries)
  <2>1. Settled(item, ok) =
          [item EXCEPT !.retries = item.retries + 1, !.status = "pending"]
    BY <1>4 DEF Settled
  <2>2. item.retries + 1 < MaxRetries
    BY <1>1, <1>4
  <2> QED BY <1>1, <2>1, <2>2 DEF Item
<1> QED BY <1>2, <1>3, <1>4

(* A request's step leaves the worker and the items alone, but that        *)
(* SendInvoice's goroutine may queue a new one.                            *)
LEMMA RequestStepQueue ==
  ASSUME NEW r \in Requests, RequestStep(r)
  PROVE  /\ UNCHANGED <<db, worker, crashes>>
         /\ queue' = queue \/ queue' = [queue EXCEPT ![r] = NewItem]
BY DEF RequestStep, Goroutine, SendRead, ReadRow, SaveRow, SendQueues, SendMarks,
       SendRegistered, Handle, ClearKRAData, Begin, StoreKey, Call, Commit,
       RollBack

(* Every reachable state has the types, and the worker's accounts balance. *)
THEOREM TypeCorrect == Spec => [](TypeOK /\ Passage /\ Accounted)
<1>1. Init => TypeOK /\ Passage /\ Accounted
  <2>1. NewRequest \in Request /\ NewInvoice \in Columns
    BY DEF NewRequest, NewInvoice, Request, Columns
  <2>2. IdleWorker \in [item: Requests \cup {NoItem}, ok: BOOLEAN]
    BY DEF IdleWorker
  <2> QED BY <2>1, <2>2 DEF Init, TypeOK, Passage, Accounted, Waiting,
             NewRequest, IdleWorker
<1>2. TypeOK /\ Passage /\ Accounted /\ [Next]_vars
        => (TypeOK /\ Passage /\ Accounted)'
  <2> SUFFICES ASSUME TypeOK, Passage, Accounted, [Next]_vars
               PROVE  (TypeOK /\ Passage /\ Accounted)'
    OBVIOUS
  <2>1. ASSUME NEW r \in Requests, RequestStep(r)
        PROVE  (TypeOK /\ Passage /\ Accounted)'
    <3>1. /\ UNCHANGED <<db, worker, crashes>>
          /\ queue' = queue \/ queue' = [queue EXCEPT ![r] = NewItem]
      BY <2>1, RequestStepQueue
    <3>2. /\ NewItem \in Item /\ NewItem.retries = 0 /\ NewItem.sends = 0
          /\ NewItem.status = "pending" /\ NewItem # NoItem
      BY DEF NewItem, Item
    <3>3. queue' \in [Requests -> Item \cup {NoItem}]
      BY <3>1, <3>2 DEF TypeOK
    <3>4. (TypeOK /\ Passage)'
      BY <2>1, <3>1, <3>3, RequestStepType DEF TypeOK
    <3>5. ASSUME NEW i \in Requests
          PROVE  \/ queue'[i] = queue[i]
                 \/ queue'[i] = NewItem
      BY <3>1 DEF TypeOK
    <3>6. crashes \in Nat
      BY DEF TypeOK
    <3>7. Accounted'
      BY <3>1, <3>2, <3>5, <3>6 DEF Accounted, Waiting, Working
    <3> QED BY <3>4, <3>7
  <2>2. ASSUME NEW i \in Requests, WorkerSends(i)
        PROVE  (TypeOK /\ Passage /\ Accounted)'
    <3> DEFINE new == [queue[i] EXCEPT !.sends = queue[i].sends + 1]
    <3>1. queue[i] \in Item /\ Waiting(i) /\ worker = IdleWorker
      BY <2>2 DEF WorkerSends, Pending, TypeOK, Waiting
    <3>2. /\ new \in Item /\ new.sends = queue[i].sends + 1
          /\ new.status = "pending" /\ new.retries = queue[i].retries
          /\ queue[i].sends \in Nat /\ queue[i].retries \in Nat
      BY <3>1 DEF Item, Waiting
    <3>3. queue' = [queue EXCEPT ![i] = new]
      BY <2>2 DEF WorkerSends
    <3> HIDE DEF new
    <3>4. /\ queue' \in [Requests -> Item \cup {NoItem}] /\ queue'[i] = new
          /\ \A j \in Requests \ {i} : queue'[j] = queue[j]
      BY <3>2, <3>3 DEF TypeOK
    <3>5. /\ worker' \in [item: Requests \cup {NoItem}, ok: BOOLEAN]
          /\ worker'.item = i /\ worker.item = NoItem
      BY <2>2, <3>1 DEF WorkerSends, IdleWorker
    <3>6. UNCHANGED <<db, inv, req, crashes>> /\ registered' \in Nat
      BY <2>2 DEF WorkerSends, SubmitInvoice, TypeOK
    <3>7. (TypeOK /\ Passage)'
      BY <3>4, <3>5, <3>6 DEF TypeOK, Passage
    <3>8. crashes \in Nat /\ crashes' = crashes
      BY <3>6 DEF TypeOK
    <3>9. /\ queue[i].retries < MaxRetries
          /\ queue[i].sends <= queue[i].retries + crashes
      BY <3>1, <3>2, <3>5, <3>8 DEF Accounted, Working
    <3>10. /\ Waiting(i)' /\ queue'[i].retries < MaxRetries
           /\ queue'[i].sends <= queue'[i].retries + crashes' + Working(i)'
           /\ queue'[i].sends <= MaxRetries + crashes'
      <4>1. queue'[i] # NoItem /\ Working(i)' = 1
        BY <3>2, <3>4, <3>5 DEF Working
      <4> QED BY <4>1, <3>2, <3>4, <3>8, <3>9 DEF Waiting
    <3>11. ASSUME NEW j \in Requests \ {i}
           PROVE  /\ queue'[j] = queue[j] /\ worker'.item # j
                  /\ Working(j)' = Working(j) /\ Waiting(j)' = Waiting(j)
      BY <3>4, <3>5 DEF Working, Waiting
    <3>12. Accounted'
      BY <3>8, <3>10, <3>11 DEF Accounted
    <3> QED BY <3>7, <3>12
  <2>3. ASSUME NEW i \in Requests, WorkerSaves(i)
        PROVE  (TypeOK /\ Passage /\ Accounted)'
    <3> DEFINE new == Settled(queue[i], worker.ok)
    <3>1. /\ queue[i] \in Item /\ queue[i].status = "pending"
          /\ queue[i].retries < MaxRetries /\ worker.ok \in BOOLEAN
          /\ queue[i].sends \in Nat /\ queue[i].retries \in Nat
          /\ queue[i].sends <= queue[i].retries + crashes + 1
          /\ crashes \in Nat
      BY <2>3 DEF WorkerSaves, Accounted, Waiting, Working, TypeOK, Item
    <3>2. /\ new \in Item /\ new.sends = queue[i].sends
          /\ new.status = "pending" =>
               new.retries < MaxRetries /\ new.retries = queue[i].retries + 1
      BY <3>1, SettledLemma
    <3>3. /\ queue' = [queue EXCEPT ![i] = new] /\ worker' = IdleWorker
          /\ UNCHANGED <<db, inv, registered, req, crashes>>
      BY <2>3 DEF WorkerSaves
    <3> HIDE DEF new
    <3>4. /\ queue' \in [Requests -> Item \cup {NoItem}] /\ queue'[i] = new
          /\ \A j \in Requests \ {i} : queue'[j] = queue[j]
      BY <3>2, <3>3 DEF TypeOK
    <3>5. /\ worker' \in [item: Requests \cup {NoItem}, ok: BOOLEAN]
          /\ worker'.item = NoItem /\ worker.item = i
      BY <2>3, <3>3 DEF WorkerSaves, IdleWorker
    <3>6. (TypeOK /\ Passage)'
      BY <3>3, <3>4, <3>5 DEF TypeOK, Passage
    <3>7. /\ Waiting(i)' => /\ queue'[i].retries < MaxRetries
                            /\ queue'[i].sends <= queue'[i].retries + crashes'
          /\ queue'[i].sends <= MaxRetries + crashes'
      BY <3>1, <3>2, <3>3, <3>4 DEF Waiting
    <3>8. ASSUME NEW j \in Requests
          PROVE  worker'.item # j /\ Working(j)' = 0
      BY <3>5 DEF Working
    <3>9. ASSUME NEW j \in Requests \ {i}
          PROVE  /\ queue'[j] = queue[j] /\ Working(j) = 0
                 /\ Waiting(j)' = Waiting(j)
      BY <3>4, <3>5 DEF Working, Waiting
    <3>10. ASSUME NEW j \in Requests, queue'[j] # NoItem
           PROVE  queue'[j].sends \in Nat /\ queue'[j].retries \in Nat
      BY <3>4, <3>10 DEF Item
    <3>11. Accounted'
      <4> SUFFICES ASSUME NEW j \in Requests
                   PROVE  /\ Waiting(j)' =>
                              /\ queue'[j].retries < MaxRetries
                              /\ queue'[j].sends <= queue'[j].retries + crashes' + Working(j)'
                          /\ queue'[j] # NoItem =>
                              queue'[j].sends <= MaxRetries + crashes'
        BY <3>8 DEF Accounted
      <4>1. CASE j = i
        BY <3>1, <3>3, <3>7, <3>8, <3>10, <4>1 DEF Waiting
      <4>2. CASE j # i
        BY <3>3, <3>8, <3>9, <4>2 DEF Accounted
      <4> QED BY <4>1, <4>2
    <3> QED BY <3>6, <3>11
  <2>4. ASSUME Crash
        PROVE  (TypeOK /\ Passage /\ Accounted)'
    <3>1. /\ UNCHANGED <<db, inv, registered, queue>>
          /\ crashes \in Nat /\ crashes' = crashes + 1
          /\ crashes' \in 0..MaxCrashes
      <4>1. crashes \in 0..MaxCrashes /\ MaxCrashes \in Nat
        BY DEF TypeOK
      <4>2. /\ crashes < MaxCrashes /\ crashes' = crashes + 1
            /\ UNCHANGED <<db, inv, registered, queue>>
        BY <2>4 DEF Crash
      <4>3. crashes + 1 \in 0..MaxCrashes
        BY <4>1, <4>2
      <4> QED BY <4>1, <4>2, <4>3
    <3>2. worker' \in [item: Requests \cup {NoItem}, ok: BOOLEAN]
          /\ worker'.item = NoItem
      BY <2>4 DEF Crash, IdleWorker
    <3>3. ASSUME NEW r \in Requests
          PROVE  /\ req'[r] \in Request
                 /\ req'[r].pc = "new" => req'[r] = req[r]
                 /\ req'[r].pc # "new" => req'[r].pc = "done" /\ ~req'[r].unsaved
      <4> DEFINE ended == [NewRequest EXCEPT !.op = req[r].op, !.pc = "done"]
      <4>1. req[r] \in Request /\ req[r].op \in AllOps \cup {"none"}
        BY DEF TypeOK, Request
      <4>2. ended \in Request /\ ended.pc = "done" /\ ~ended.unsaved
        BY <4>1 DEF NewRequest, NewInvoice, Request, Columns
      <4>3. req'[r] = IF req[r].pc = "new" THEN req[r] ELSE ended
        BY <2>4 DEF Crash
      <4> HIDE DEF ended
      <4> QED BY <4>1, <4>2, <4>3
    <3>4. req' \in [Requests -> Request]
      <4> DEFINE f(r) == IF req[r].pc = "new" THEN req[r]
                         ELSE [NewRequest EXCEPT !.op = req[r].op, !.pc = "done"]
      <4>1. req' = [r \in Requests |-> f(r)]
        BY <2>4 DEF Crash
      <4>2. ASSUME NEW r \in Requests PROVE f(r) \in Request
        BY <3>3, <4>1
      <4> HIDE DEF f
      <4> QED BY <4>1, <4>2
    <3>5. (TypeOK /\ Passage)'
      BY <3>1, <3>2, <3>3, <3>4 DEF TypeOK, Passage
    <3>6. ASSUME NEW i \in Requests
          PROVE  /\ worker'.item # i /\ Working(i)' = 0
                 /\ Waiting(i)' = Waiting(i) /\ queue'[i] = queue[i]
                 /\ Working(i) \in {0, 1}
                 /\ queue[i] # NoItem => queue[i].sends \in Nat /\ queue[i].retries \in Nat
      BY <3>1, <3>2 DEF Working, Waiting, TypeOK, Item
    <3>7. Accounted'
      BY <3>1, <3>6 DEF Accounted, Waiting
    <3> QED BY <3>5, <3>7
  <2>5. CASE UNCHANGED vars
    BY <2>5 DEF vars, TypeOK, Passage, Accounted, Waiting, Working
  <2> QED BY <2>1, <2>2, <2>3, <2>4, <2>5 DEF Next, RequestStep, Worker
<1> QED BY <1>1, <1>2, PTL DEF Spec

(* An item is sent at most as often as its retries and the crashes allow.  *)
THEOREM RetriesAreBounded == Spec => []SendsAreBounded
<1>1. Accounted => SendsAreBounded
  BY DEF Accounted, SendsAreBounded
<1> QED BY <1>1, TypeCorrect, PTL

-----------------------------------------------------------------------------
(* ICNs *)

(* A row marked submitted has the ICN of a registration *)
HasICN(row) == row.status = "submitted" => row.icn \in 1..registered
ICNsKnown ==
  /\ HasICN(inv)
  /\ \A r \in Requests :
       /\ req[r].unsaved => HasICN(req[r].row)
       /\ req[r].pc = "answered" => req[r].icn \in 1..registered

(* What a request's step does to the columns and to its own row *)
Reads(r) ==
  /\ inv' = inv /\ registered' = registered
  /\ req'[r].pc # "answered"
  /\ \/ req'[r].unsaved = req[r].unsaved /\ req'[r].row = req[r].row
     \/ req'[r].unsaved = req[r].unsaved /\ req'[r].row = NewInvoice
     \/ req'[r].row = inv
  /\ InTx(r)' => \/ /\ InTx(r) /\ req'[r].row = req[r].row
                    /\ Submitting(r)' = Submitting(r)
                 \/ /\ Connected(r) /\ req'[r].row = inv
                    /\ Submitting(r)' => ~Registered(inv)

Calls(r) ==
  /\ inv' = inv /\ registered' \in {registered, registered + 1}
  /\ req'[r].unsaved = req[r].unsaved /\ req'[r].row = req[r].row
  /\ InTx(r)' = InTx(r) /\ Submitting(r)' = Submitting(r)
  /\ req'[r].pc = "answered" => /\ req'[r].icn = registered + 1
                                /\ registered' = registered + 1

Saves(r) ==
  /\ req[r].unsaved /\ ~req'[r].unsaved
  /\ Connected(r)
  /\ \E sent \in BOOLEAN : inv' = [req[r].row EXCEPT !.sent = sent]
  /\ registered' = registered
  /\ req'[r].pc = req[r].pc /\ req'[r].icn = req[r].icn
  /\ ~InTx(r)'

Stores(r) ==
  /\ \/ inv' = Marked /\ req[r].op = "send" /\ Connected(r)
     \/ inv' = Cleared /\ req[r].pc = "clear" /\ Connected(r)
     \/ /\ inv' = Submitted(req[r].icn) /\ req[r].pc = "answered"
        /\ Connected(r) \/ InTx(r)
  /\ registered' = registered
  /\ req'[r].pc # "answered" /\ ~InTx(r)'
  /\ req'[r].unsaved = req[r].unsaved
  /\ req'[r].row \in {req[r].row, NewInvoice}

LEMMA RequestStepShape ==
  ASSUME TypeOK, Passage, NEW r \in Requests, RequestStep(r)
  PROVE  Reads(r) \/ Calls(r) \/ Saves(r) \/ Stores(r)
<1>1. /\ req[r] \in Request /\ req' \in [Requests -> Request]
      /\ req \in [Requests -> Request]
      /\ req[r].op \in AllOps \cup {"none"}
  BY RequestStepType DEF TypeOK, Request
<1>15. /\ req[r].unsaved => req[r].op \in RowOps \cup {"send"}
       /\ req[r].op = "pay" => req[r].pc = "done"
       /\ req[r].pc = "new" => ~req[r].unsaved
  BY DEF Passage
<1>2. CASE SendRead(r)
  <2>1. CASE inv.sent
    <3>1. Go(r, "send", "done") /\ inv' = inv /\ registered' = registered
      BY <1>2, <2>1 DEF SendRead
    <3>2. /\ req'[r].unsaved = req[r].unsaved /\ req'[r].row = req[r].row
          /\ req'[r].pc = "done" /\ req'[r].op = "send"
      BY <3>1, GoType DEF AllOps
    <3> QED BY <3>1, <3>2 DEF Reads, InTx, Submitting, Booking
  <2>2. CASE ~inv.sent
    BY <1>1, <1>2, <2>2 DEF SendRead, Reads, InTx, Submitting, Booking, TxOps, RowOps
  <2> QED BY <2>1, <2>2
<1>14. CASE ReadRow(r)
  <2>1. PICK op \in RowOps :
          req' = [req EXCEPT ![r] = [op |-> op, unsaved |-> TRUE, row |-> inv,
                                     icn |-> 0, pc |-> "done"]]
    BY <1>14 DEF ReadRow
  <2>2. /\ req'[r].pc = "done" /\ req'[r].row = inv
        /\ ~Submitting(r)'
    BY <1>1, <2>1 DEF Submitting
  <2>3. inv' = inv /\ registered' = registered /\ Connected(r)
    BY <1>14 DEF ReadRow
  <2> QED BY <2>2, <2>3 DEF Reads
<1>3. CASE Handle(r)
  <2>1. PICK op \in TxOps, pc \in {"done", "clear", "begin"} : Go(r, op, pc)
    BY <1>3 DEF Handle, TxOps
  <2>2. inv' = inv /\ registered' = registered
    BY <1>3 DEF Handle
  <2>3. /\ req'[r].unsaved = req[r].unsaved /\ req'[r].row = req[r].row
        /\ req'[r].pc = pc
    BY <2>1, GoType DEF AllOps
  <2> QED BY <1>3, <1>15, <2>1, <2>2, <2>3 DEF Handle, Reads, InTx, Submitting, Booking
<1>4. CASE Call(r)
  <2>1. PICK answer \in Answers :
          /\ SubmitInvoice(answer)
          /\ req' = IF answer = "ok"
                    THEN [req EXCEPT ![r].pc = "answered", ![r].icn = registered + 1]
                    ELSE [req EXCEPT ![r].pc = "failed"]
    BY <1>4 DEF Call
  <2>2. /\ inv' = inv /\ registered' \in {registered, registered + 1}
        /\ answer = "ok" => registered' = registered + 1
        /\ req[r].pc = "call"
    BY <1>4, <2>1 DEF Call, SubmitInvoice
  <2>3. CASE answer = "ok"
    BY <1>1, <2>1, <2>2, <2>3, <1>15
         DEF Calls, InTx, Submitting, Booking, Request
  <2>4. CASE answer # "ok"
    BY <1>1, <2>1, <2>2, <2>4, <1>15
         DEF Calls, InTx, Submitting, Booking, Request
  <2> QED BY <2>3, <2>4
<1>5. CASE SaveRow(r)
  BY <1>1, <1>5, <1>15
     DEF SaveRow, Sent, Writable, Saves, InTx, Submitting, Booking, Request, TxOps, RowOps
<1>6. CASE SendQueues(r)
  BY <1>1, <1>6, <1>15 DEF SendQueues, Go, Reads, InTx, Submitting, Booking, Request, TxOps
<1>7. CASE SendMarks(r)
  <2>1. req[r].op = "send"
    BY <1>7 DEF SendMarks, Passage
  <2> QED BY <1>1, <1>7, <2>1, <1>15
         DEF SendMarks, Writable, Stores, InTx, Submitting, Booking, Request
<1>8. CASE SendRegistered(r)
  BY <1>1, <1>15, <1>8
     DEF SendRegistered, Writable, Stores, InTx, Submitting, Booking, Request
<1>9. CASE ClearKRAData(r)
  BY <1>1, <1>15, <1>9
     DEF ClearKRAData, Writable, Go, Stores, InTx, Submitting, Booking, Request
<1>10. CASE Begin(r)
  <2>1. CASE Registered(inv)
    BY <1>1, <1>10, <2>1, <1>15
         DEF Begin, Done, Reads, InTx, Submitting, Booking, Request
  <2>2. CASE ~Registered(inv)
    BY <1>1, <1>10, <2>2, <1>15
         DEF Begin, Reads, InTx, Submitting, Booking, Request
  <2> QED BY <2>1, <2>2
<1>11. CASE StoreKey(r)
  BY <1>1, <1>11, <1>15 DEF StoreKey, Go, Reads, InTx, Submitting, Booking, Request
<1>12. CASE Commit(r)
  BY <1>1, <1>15, <1>12
     DEF Commit, Done, Stores, InTx, Submitting, Booking, Request
<1>13. CASE RollBack(r)
  BY <1>1, <1>15, <1>13
     DEF RollBack, Done, Reads, InTx, Submitting, Booking, Request
<1> QED BY <1>2, <1>3, <1>4, <1>5, <1>6, <1>7, <1>8, <1>9, <1>10, <1>11, <1>12,
        <1>13, <1>14 DEF RequestStep, Goroutine

(* The worker and a crash leave the columns alone and undo no registration; *)
(* a crash leaves no request on its way.                                   *)
LEMMA OtherStepShape ==
  ASSUME TypeOK, Next
  PROVE  \/ \E r \in Requests : RequestStep(r)
         \/ /\ inv' = inv /\ db' = db
            /\ registered' \in {registered, registered + 1}
            /\ \A r \in Requests :
                 \/ req'[r] = req[r]
                 \/ req'[r].pc = "done" /\ ~req'[r].unsaved
<1>1. CASE \E i \in Requests : Worker(i)
  BY <1>1 DEF Worker, WorkerSends, WorkerSaves, SubmitInvoice
<1>2. CASE Crash
  <2>1. ASSUME NEW r \in Requests
        PROVE  \/ req'[r] = req[r]
               \/ req'[r].pc = "done" /\ ~req'[r].unsaved
    <3> DEFINE ended == [NewRequest EXCEPT !.op = req[r].op, !.pc = "done"]
    <3>1. req'[r] = IF req[r].pc = "new" THEN req[r] ELSE ended
      BY <1>2 DEF Crash
    <3>2. ended.pc = "done" /\ ~ended.unsaved
      BY DEF NewRequest
    <3> QED BY <3>1, <3>2
  <2> QED BY <1>2, <2>1 DEF Crash
<1> QED BY <1>1, <1>2 DEF Next, RequestStep

(* Whatever is read, saved or answered keeps the ICNs known. *)
LEMMA ICNsStayKnown == Spec => []ICNsKnown
<1>1. Init => ICNsKnown
  BY DEF Init, ICNsKnown, HasICN, NewInvoice, NewRequest
<1>2. TypeOK /\ Passage /\ ICNsKnown /\ [Next]_vars => ICNsKnown'
  <2> SUFFICES ASSUME TypeOK, Passage, ICNsKnown, [Next]_vars
               PROVE  ICNsKnown'
    OBVIOUS
  <2>1. registered \in Nat /\ inv \in Columns
    BY DEF TypeOK
  <2>2. ASSUME registered' \in {registered, registered + 1},
               NEW row, HasICN(row)
        PROVE  row.status = "submitted" => row.icn \in 1..registered'
    BY <2>1, <2>2 DEF HasICN
  <2>3. ASSUME NEW r \in Requests, RequestStep(r)
        PROVE  ICNsKnown'
    <3>1. /\ \A q \in Requests \ {r} : req'[q] = req[q]
          /\ registered' \in Nat
          /\ req[r].row \in Columns
      BY <2>3, RequestStepType DEF TypeOK, Request
    <3>2. registered' \in {registered, registered + 1}
      BY <2>3, RequestStepShape DEF Reads, Calls, Saves, Stores
    <3>3. HasICN(inv)'
      <4>1. CASE inv' = inv
        BY <2>2, <3>2, <4>1 DEF HasICN, ICNsKnown
      <4>2. CASE Saves(r)
        <5>1. /\ HasICN(req[r].row) /\ inv'.status = req[r].row.status
              /\ inv'.icn = req[r].row.icn
          BY <3>1, <4>2 DEF Saves, ICNsKnown, Columns
        <5> QED BY <2>2, <3>2, <5>1 DEF HasICN
      <4>3. CASE Stores(r)
        <5>1. \/ inv'.status \in {"failed", ""}
              \/ req[r].pc = "answered" /\ inv'.icn = req[r].icn
          BY <2>1, <4>3 DEF Stores, Marked, Cleared, Submitted, Columns
        <5>2. req[r].pc = "answered" => req[r].icn \in 1..registered
          BY DEF ICNsKnown
        <5> QED BY <4>3, <5>1, <5>2 DEF HasICN, Stores
      <4> QED BY <2>3, <4>1, <4>2, <4>3, RequestStepShape DEF Reads, Calls
    <3>5. req'[r].unsaved => HasICN(req'[r].row) 
      <4>1. HasICN(NewInvoice)
        BY DEF HasICN, NewInvoice
      <4>2. HasICN(inv) /\ (req[r].unsaved => HasICN(req[r].row))
        BY DEF ICNsKnown
      <4> QED BY <2>3, <4>1, <4>2, RequestStepShape
              DEF Reads, Calls, Saves, Stores
    <3>6. req'[r].pc = "answered" => req'[r].icn \in 1..registered'
      <4>1. req[r].pc = "answered" => req[r].icn \in 1..registered
        BY DEF ICNsKnown
      <4>2. registered' = registered + 1 => registered + 1 \in 1..registered'
        BY <2>1
      <4> QED BY <2>3, <4>1, <4>2, RequestStepShape
              DEF Reads, Calls, Saves, Stores
    <3>7. ASSUME NEW q \in Requests \ {r}
          PROVE  /\ req'[q] = req[q]
                 /\ req[q].unsaved => HasICN(req[q].row)
                 /\ req[q].pc = "answered" => req[q].icn \in 1..registered'
      BY <2>1, <3>1, <3>2 DEF ICNsKnown
    <3>8. ASSUME NEW row, HasICN(row)
          PROVE  row.status = "submitted" => row.icn \in 1..registered'
      BY <2>2, <3>2, <3>8
    <3>9. ASSUME NEW q \in Requests
          PROVE  /\ req'[q].unsaved /\ req'[q].row.status = "submitted"
                      => req'[q].row.icn \in 1..registered'
                 /\ req'[q].pc = "answered" => req'[q].icn \in 1..registered'
      BY <3>5, <3>6, <3>7, <3>8
    <3> QED BY <3>3, <3>9 DEF ICNsKnown, HasICN
  <2>4. ASSUME inv' = inv, registered' \in {registered, registered + 1},
               \A r \in Requests :
                 \/ req'[r] = req[r]
                 \/ req'[r].pc = "done" /\ ~req'[r].unsaved
        PROVE  ICNsKnown'
    <3>1. ASSUME NEW row, HasICN(row)
          PROVE  row.status = "submitted" => row.icn \in 1..registered'
      BY <2>2, <2>4, <3>1
    <3>2. ASSUME NEW n \in 1..registered PROVE n \in 1..registered'
      BY <2>1, <2>4
    <3> QED BY <2>4, <3>1, <3>2 DEF ICNsKnown, HasICN
  <2>5. CASE UNCHANGED vars
    BY <2>4, <2>5 DEF vars
  <2> QED BY <2>3, <2>4, <2>5, OtherStepShape
<1> QED BY <1>1, <1>2, TypeCorrect, PTL DEF Spec

(* An invoice marked submitted has the ICN of a registration. *)
THEOREM SubmittedHaveICNs == Spec => []SubmittedHasICN
<1>1. ICNsKnown => SubmittedHasICN
  BY DEF ICNsKnown, HasICN, SubmittedHasICN
<1> QED BY <1>1, ICNsStayKnown, PTL

-----------------------------------------------------------------------------
(* One connection *)

Alone ==
  db = "sqlite" =>
    \A r \in Requests : InTx(r) =>
      /\ inv = req[r].row /\ (Submitting(r) => ~Registered(inv))
      /\ \A q \in Requests \ {r} : ~InTx(q)

(* Over one connection a transaction that has read the row keeps it.       *)
LEMMA TransactionsAreAlone == Spec => []Alone
<1>1. Init => Alone
  BY DEF Init, Alone, InTx, Submitting, Booking, NewRequest
<1>2. TypeOK /\ Passage /\ Alone /\ [Next]_vars => Alone'
  <2> SUFFICES ASSUME TypeOK, Passage, Alone, [Next]_vars, db' = "sqlite"
               PROVE  \A r \in Requests : InTx(r)' =>
                        /\ inv' = req'[r].row
                        /\ Submitting(r)' => ~Registered(inv')
                        /\ \A q \in Requests \ {r} : ~InTx(q)'
    BY DEF Alone
  <2>1. ASSUME NEW r \in Requests, RequestStep(r), db = "sqlite"
        PROVE  \A q \in Requests : InTx(q)' =>
                 /\ inv' = req'[q].row
                 /\ Submitting(q)' => ~Registered(inv')
                 /\ \A p \in Requests \ {q} : ~InTx(p)'
    <3>1. \A q \in Requests \ {r} : /\ req'[q] = req[q] /\ InTx(q)' = InTx(q)
                                /\ Submitting(q)' = Submitting(q)
      BY <2>1, RequestStepType DEF InTx, Submitting, Booking
    <3>2. CASE Reads(r)
      BY <2>1, <3>1, <3>2 DEF Reads, Alone, Connected
    <3>3. CASE Calls(r)
      BY <2>1, <3>1, <3>3 DEF Calls, Alone
    <3>4. CASE Saves(r)
      <4> QED BY <2>1, <3>1, <3>4 DEF Saves, Connected
    <3>5. CASE Stores(r)
      <4>1. \A q \in Requests \ {r} : ~InTx(q)
        BY <2>1, <3>5 DEF Stores, Connected, Alone
      <4> QED BY <3>1, <3>5, <4>1 DEF Stores
    <3> QED BY <2>1, <3>2, <3>3, <3>4, <3>5, RequestStepShape
  <2>2. ASSUME inv' = inv, db = "sqlite",
               \A r \in Requests :
                 \/ req'[r] = req[r]
                 \/ req'[r].pc = "done" /\ ~req'[r].unsaved
        PROVE  \A q \in Requests : InTx(q)' =>
                 /\ inv' = req'[q].row
                 /\ Submitting(q)' => ~Registered(inv')
                 /\ \A p \in Requests \ {q} : ~InTx(p)'
    <3>1. \A q \in Requests :
            /\ InTx(q)' => req'[q] = req[q] /\ InTx(q)
            /\ Submitting(q)' => Submitting(q)
      BY <2>2 DEF InTx, Submitting, Booking
    <3> QED BY <2>2, <3>1 DEF Alone
  <2>3. CASE UNCHANGED vars
    BY <2>2, <2>3 DEF vars
  <2>4. CASE \E r \in Requests : RequestStep(r)
    BY <2>1, <2>4, RequestStepQueue
  <2> QED BY <2>2, <2>3, <2>4, OtherStepShape
<1> QED BY <1>1, <1>2, TypeCorrect, PTL DEF Spec

(* Over one connection the check before the call holds during the call. *)
THEOREM ChecksHold == Spec => []CheckHoldsDuringCall
<1>3. Alone => CheckHoldsDuringCall
  <2> SUFFICES ASSUME Alone, db = "sqlite"
               PROVE  /\ \A r \in Requests : Submitting(r) => inv = req[r].row /\ ~Registered(inv)
                      /\ Cardinality({r \in Requests : InTx(r)}) <= 1
    BY DEF CheckHoldsDuringCall
  <2> DEFINE In == {r \in Requests : InTx(r)}
  <2>1. In = {} \/ \E r \in Requests : In = {r}
    BY DEF Alone
  <2>2. Cardinality(In) \in {0, 1}
    BY <2>1, FS_EmptySet, FS_Singleton
  <2>3. Cardinality(In) <= 1
    BY <2>2
  <2> QED BY <2>3 DEF Alone, InTx
<1> QED BY <1>3, TransactionsAreAlone, PTL

(* A stored ICN gets lost only by a clear, or by a request saving a row it *)
(* read before the registration: over SQLite never by one that reads and   *)
(* saves in one transaction.                                               *)
THEOREM ICNsAreKept == Spec => ICNsAreLostOnlyBy
<1> DEFINE Loss == inv.icn # 0 /\ inv'.icn = 0
           Excuse(r) == \/ req[r].pc = "clear" /\ req[r].op \in {"submit", "retry"}
                        \/ /\ req[r].unsaved /\ ~req'[r].unsaved /\ req[r].row.icn = 0
                           /\ Booking(r) => db = "postgres"
<1>1. ASSUME TypeOK, Passage, ICNsKnown, Alone, Next, Loss
      PROVE  \E r \in Requests : Excuse(r)
  <2>1. inv \in Columns /\ inv' # inv
    BY <1>1 DEF TypeOK
  <2>2. PICK r \in Requests : RequestStep(r)
    BY <1>1, <2>1, OtherStepShape
  <2>3. Saves(r) \/ Stores(r)
    BY <1>1, <2>1, <2>2, RequestStepShape DEF Reads, Calls
  <2>4. CASE Saves(r)
    <3>1. req[r].row \in Columns
      BY <1>1 DEF TypeOK, Request
    <3>2. req[r].row.icn = 0
      BY <1>1, <2>4, <3>1 DEF Saves, Columns
    <3>3. Booking(r) => db = "postgres"
      <4>1. Booking(r) /\ db = "sqlite" => inv = req[r].row
        BY <1>1 DEF Alone, InTx
      <4>2. db \in {"sqlite", "postgres"}
        BY <1>1 DEF TypeOK
      <4> QED BY <1>1, <3>2, <4>1, <4>2
    <3> QED BY <2>4, <3>2, <3>3 DEF Saves
  <2>5. CASE Stores(r)
    <3>1. inv' # Marked
      BY <1>1, <2>1 DEF Marked, Columns
    <3>2. ~(inv' = Submitted(req[r].icn) /\ req[r].pc = "answered")
      <4>1. req[r].pc = "answered" => req[r].icn # 0
        BY <1>1 DEF ICNsKnown, TypeOK
      <4> QED BY <1>1, <2>1, <4>1 DEF Submitted, Columns
    <3>3. req[r].pc = "clear"
      BY <2>5, <3>1, <3>2 DEF Stores
    <3> QED BY <1>1, <3>3 DEF Passage
  <2> QED BY <2>3, <2>4, <2>5
<1>2. TypeOK /\ Passage /\ ICNsKnown /\ Alone /\ [Next]_vars
        => [Loss => \E r \in Requests : Excuse(r)]_vars
  <2> HIDE DEF Loss, Excuse
  <2> QED BY <1>1
<1> QED BY <1>2, TypeCorrect, ICNsStayKnown,
        TransactionsAreAlone, PTL DEF Spec, ICNsAreLostOnlyBy
=============================================================================
