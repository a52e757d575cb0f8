------------------------ MODULE NotificationsProofs ------------------------
(***************************************************************************)
(* What holds of any number of notifications, calls of the retry handler   *)
(* and crashes; and of the invoices and reminders that jobs make again and *)
(* again, as MCJobs runs them beside the others.                           *)
(*                                                                         *)
(* Deliveries are bounded because each one still to come is due to a       *)
(* goroutine that has not tried yet, to the poller's work on its list, or  *)
(* to a pending row; only the retry handler makes a row due that was not.  *)
(*                                                                         *)
(* Of runs that come one at a time, the one that goes on knows of each     *)
(* period whether it was invoiced already (InTurn), and of each reminder   *)
(* whether it is in the log or about to be written to it (Remembered).     *)
(***************************************************************************)
EXTENDS MCJobs, Integers, WellFoundedInduction, TLAPS

USE SilentAssumption, MaxRetriesAssumption, MaxRequeuesAssumption,
    MaxCrashesAssumption, NoItemAssumption

(* Pending rows, and those the poller has listed, have no retries behind   *)
(* them; whoever works on an item has found its row, and knows of its      *)
(* delivery.                                                               *)
Afresh ==
  \A i \in Items :
    /\ Is(i, "pending") => row[i].retries = 0
    /\ batch[i] \in {0, NoItem}
    /\ sender[i] # "none" => Exists(i)
    /\ batch[i] # NoItem => Exists(i)
    /\ poller.item = i => batch[i] # NoItem /\ poller.pc # "idle"
    /\ sender[i] = "sent" => i \in delivered \cup Silent
    /\ poller = [pc |-> "sent", item |-> i] => i \in delivered \cup Silent

IInv == TypeOK /\ Afresh /\ SentWasDelivered /\ NoDeadLetters

(* What becomes of a row whose item the poller has tried. *)
LEMMA SettledLemma ==
  ASSUME NEW ok \in BOOLEAN
  PROVE  /\ Settled(0, ok) \in Row
         /\ Settled(0, ok).status = IF ok THEN "sent"
                                    ELSE IF 1 >= MaxRetries THEN "dead_letter"
                                    ELSE "failed"
<1>1. 0 + 1 = 1 /\ 1 \in 0..MaxRetries /\ 0 \in 0..MaxRetries
  OBVIOUS
<1> QED BY <1>1 DEF Settled, Row

(* Rows that exist are rows, and conversely. *)
LEMMA ExistsLemma ==
  ASSUME TypeOK, NEW i \in Items
  PROVE  Exists(i) <=> row[i] \in Row
BY DEF TypeOK, Exists

(* The types, and what is known of an item at each step. *)
THEOREM Knowledge == Spec => []IInv
<1>1. Init => IInv
  BY DEF Init, IInv, TypeOK, Afresh, SentWasDelivered, NoDeadLetters, Is,
         Exists, Idle, NoBatch
<1>2. IInv /\ [Next]_vars => IInv'
  <2> SUFFICES ASSUME IInv, [Next]_vars PROVE IInv'
    OBVIOUS
  <2> USE DEF IInv
  <2>1. ASSUME NEW i \in Items, Send(i) PROVE IInv'
    <3>1. Enqueued \in Row /\ Enqueued.status = "pending" /\ Enqueued.retries = 0
      BY DEF Enqueued, Row
    <3>2. /\ row' \in [Items -> Row \cup {NoItem}] /\ row'[i] = Enqueued
          /\ \A j \in Items \ {i} : row'[j] = row[j]
          /\ sender' \in [Items -> {"none", "send", "sent", "failed", "done"}]
          /\ sender'[i] = "send" /\ \A j \in Items \ {i} : sender'[j] = sender[j]
          /\ UNCHANGED <<batch, poller, sends, delivered, requeues, crashes>>
      BY <2>1, <3>1 DEF Send, TypeOK
    <3>3. TypeOK'
      BY <3>2 DEF TypeOK
    <3>4. Afresh'
      BY <3>1, <3>2 DEF Afresh, Is, Exists
    <3>5. (SentWasDelivered /\ NoDeadLetters)'
      BY <3>1, <3>2 DEF SentWasDelivered, NoDeadLetters, Is, Exists
    <3> QED BY <3>3, <3>4, <3>5
  <2>2. ASSUME NEW i \in Items, SendAsync(i) PROVE IInv'
    <3>1. PICK ok \in BOOLEAN :
            /\ Deliver(i, ok)
            /\ sender' = [sender EXCEPT ![i] = IF ok THEN "sent" ELSE "failed"]
      BY <2>2 DEF SendAsync
    <3>2. /\ delivered \subseteq delivered' /\ delivered' \subseteq Items
          /\ ok => i \in delivered' \cup Silent
          /\ sends' \in [Items -> Nat]
      BY <3>1 DEF Deliver, TypeOK
    <3>3. UNCHANGED <<row, batch, poller, requeues, crashes>> /\ sender[i] = "send"
      BY <2>2 DEF SendAsync
    <3>4. TypeOK'
      BY <3>1, <3>2, <3>3 DEF TypeOK
    <3>5. Afresh'
      BY <3>1, <3>2, <3>3 DEF Afresh, Is, Exists, TypeOK
    <3>6. (SentWasDelivered /\ NoDeadLetters)'
      BY <3>2, <3>3 DEF SentWasDelivered, NoDeadLetters, Is, Exists
    <3> QED BY <3>4, <3>5, <3>6
  <2>3. ASSUME NEW i \in Items, SendAsyncUpdates(i) PROVE IInv'
    <3> DEFINE new == [row[i] EXCEPT !.status = sender[i]]
    <3>1. /\ row[i] \in Row /\ sender[i] \in {"sent", "failed"}
          /\ sender[i] = "sent" => i \in delivered \cup Silent
      BY <2>3, ExistsLemma DEF SendAsyncUpdates, Afresh
    <3>2. new \in Row /\ new.status = sender[i]
      BY <3>1 DEF Row
    <3>3. row' = [row EXCEPT ![i] = new] /\ sender' = [sender EXCEPT ![i] = "done"]
          /\ UNCHANGED <<batch, poller, sends, delivered, requeues, crashes>>
      BY <2>3 DEF SendAsyncUpdates
    <3> HIDE DEF new
    <3>4. /\ row' \in [Items -> Row \cup {NoItem}] /\ row'[i] = new
          /\ \A j \in Items \ {i} : row'[j] = row[j]
          /\ sender' \in [Items -> {"none", "send", "sent", "failed", "done"}]
          /\ sender'[i] = "done" /\ \A j \in Items \ {i} : sender'[j] = sender[j]
      BY <3>2, <3>3 DEF TypeOK
    <3>5. TypeOK'
      BY <3>3, <3>4 DEF TypeOK
    <3>6. Afresh'
      BY <3>1, <3>2, <3>3, <3>4 DEF Afresh, Is, Exists
    <3>7. (SentWasDelivered /\ NoDeadLetters)'
      BY <3>1, <3>2, <3>3, <3>4 DEF SentWasDelivered, NoDeadLetters, Is, Exists
    <3> QED BY <3>5, <3>6, <3>7
  <2>4. ASSUME NEW i \in Items, Requeue(i) PROVE IInv'
    <3>1. Requeued(i) \in Row /\ Requeued(i).status = "pending"
          /\ Requeued(i).retries = 0
      BY DEF Requeued, Row
    <3>2. /\ row' \in [Items -> Row \cup {NoItem}] /\ row'[i] = Requeued(i)
          /\ \A j \in Items \ {i} : row'[j] = row[j]
          /\ UNCHANGED <<sender, batch, poller, sends, delivered, crashes>>
      BY <2>4, <3>1 DEF Requeue, TypeOK
    <3>3. requeues' \in [Items -> 0..MaxRequeues]
      <4>1. requeues[i] + 1 \in 0..MaxRequeues
        BY <2>4 DEF Requeue, TypeOK
      <4> QED BY <2>4, <4>1 DEF Requeue, TypeOK
    <3>4. TypeOK'
      BY <3>2, <3>3 DEF TypeOK
    <3>5. Afresh'
      BY <3>1, <3>2 DEF Afresh, Is, Exists
    <3>6. (SentWasDelivered /\ NoDeadLetters)'
      BY <3>1, <3>2 DEF SentWasDelivered, NoDeadLetters, Is, Exists
    <3> QED BY <3>4, <3>5, <3>6
  <2>5. ASSUME PollerLists PROVE IInv'
    <3>1. ASSUME NEW i \in Items
          PROVE  /\ batch'[i] \in {0, NoItem}
                 /\ batch'[i] # NoItem => Exists(i)
      BY <2>5 DEF PollerLists, Listed, Afresh, Is
    <3>2. /\ UNCHANGED <<row, sender, poller, sends, delivered, requeues, crashes>>
          /\ poller.item = NoItem
      BY <2>5 DEF PollerLists, Idle
    <3>3. batch' \in [Items -> 0..MaxRetries \cup {NoItem}]
      <4>1. ASSUME NEW i \in Items, i \in Listed
            PROVE  row[i].retries = 0 /\ 0 \in 0..MaxRetries
        BY <4>1 DEF Listed, Afresh
      <4> QED BY <2>5, <4>1 DEF PollerLists
    <3>4. TypeOK'
      BY <3>2, <3>3 DEF TypeOK
    <3>5. Afresh'
      BY <3>1, <3>2 DEF Afresh, Is, Exists
    <3>6. (SentWasDelivered /\ NoDeadLetters)'
      BY <3>2 DEF SentWasDelivered, NoDeadLetters, Is, Exists
    <3> QED BY <3>4, <3>5, <3>6
  <2>6. ASSUME NEW i \in Items, PollerMarks(i) PROVE IInv'
    <3>1. row[i] \in Row /\ batch[i] # NoItem
      BY <2>6, ExistsLemma DEF PollerMarks, Afresh
    <3>2. Marked(i) \in Row /\ Marked(i).status = "processing"
      BY <3>1 DEF Marked, Row
    <3>3. /\ row' \in [Items -> Row \cup {NoItem}] /\ row'[i] = Marked(i)
          /\ \A j \in Items \ {i} : row'[j] = row[j]
          /\ poller' = [pc |-> "deliver", item |-> i]
          /\ UNCHANGED <<sender, batch, sends, delivered, requeues, crashes>>
      BY <2>6, <3>2 DEF PollerMarks, TypeOK
    <3>4. TypeOK'
      BY <3>3 DEF TypeOK
    <3>5. Afresh'
      BY <3>1, <3>2, <3>3 DEF Afresh, Is, Exists
    <3>6. (SentWasDelivered /\ NoDeadLetters)'
      BY <3>2, <3>3 DEF SentWasDelivered, NoDeadLetters, Is, Exists
    <3> QED BY <3>4, <3>5, <3>6
  <2>7. ASSUME NEW i \in Items, PollerDelivers(i) PROVE IInv'
    <3>1. PICK ok \in BOOLEAN :
            /\ Deliver(i, ok)
            /\ poller' = [pc |-> IF ok THEN "sent" ELSE "failed", item |-> i]
      BY <2>7 DEF PollerDelivers
    <3>2. /\ delivered \subseteq delivered' /\ delivered' \subseteq Items
          /\ ok => i \in delivered' \cup Silent
          /\ sends' \in [Items -> Nat]
      BY <3>1 DEF Deliver, TypeOK
    <3>3. /\ UNCHANGED <<row, sender, batch, requeues, crashes>>
          /\ poller = [pc |-> "deliver", item |-> i]
      BY <2>7 DEF PollerDelivers
    <3>4. batch[i] # NoItem
      BY <3>3 DEF Afresh
    <3>5. TypeOK'
      BY <3>1, <3>2, <3>3 DEF TypeOK
    <3>6. Afresh'
      BY <3>1, <3>2, <3>3, <3>4 DEF Afresh, Is, Exists
    <3>7. (SentWasDelivered /\ NoDeadLetters)'
      BY <3>2, <3>3 DEF SentWasDelivered, NoDeadLetters, Is, Exists
    <3> QED BY <3>5, <3>6, <3>7
  <2>8. ASSUME NEW i \in Items, PollerSaves(i) PROVE IInv'
    <3> DEFINE ok == poller.pc = "sent"
               new == Settled(0, ok)
    <3>1. /\ batch[i] = 0 /\ poller.item = i
          /\ ok => i \in delivered \cup Silent
      BY <2>8 DEF PollerSaves, Afresh, TypeOK
    <3>2. /\ row' = [row EXCEPT ![i] = new] /\ batch' = [batch EXCEPT ![i] = NoItem]
          /\ poller' = Idle
          /\ UNCHANGED <<sender, sends, delivered, requeues, crashes>>
      BY <2>8, <3>1 DEF PollerSaves
    <3>3. /\ new \in Row /\ new.status \in {"sent", "failed", "dead_letter"}
          /\ new.status = "sent" => ok
          /\ MaxRetries > 1 => new.status # "dead_letter"
      <4>1. CASE ok
        <5>1. new = Settled(0, TRUE)
          BY <4>1
        <5> QED BY <4>1, <5>1, SettledLemma
      <4>2. CASE ~ok
        <5>1. new = Settled(0, FALSE)
          BY <4>2
        <5>2. MaxRetries > 1 => ~(1 >= MaxRetries)
          OBVIOUS
        <5> QED BY <4>2, <5>1, <5>2, SettledLemma
      <4> QED BY <4>1, <4>2
    <3> HIDE DEF new, ok
    <3>4. /\ row' \in [Items -> Row \cup {NoItem}] /\ row'[i] = new
          /\ \A j \in Items \ {i} : row'[j] = row[j]
          /\ batch' \in [Items -> 0..MaxRetries \cup {NoItem}]
          /\ batch'[i] = NoItem /\ \A j \in Items \ {i} : batch'[j] = batch[j]
      BY <3>2, <3>3 DEF TypeOK
    <3>5. poller' = [pc |-> "idle", item |-> NoItem] /\ poller'.item = NoItem
      BY <3>2 DEF Idle
    <3>6. TypeOK'
      BY <3>2, <3>4, <3>5 DEF TypeOK
    <3>7. Afresh'
      BY <3>2, <3>3, <3>4, <3>5 DEF Afresh, Is, Exists
    <3>8. (SentWasDelivered /\ NoDeadLetters)'
      BY <3>1, <3>2, <3>3, <3>4 DEF SentWasDelivered, NoDeadLetters, Is, Exists
    <3> QED BY <3>6, <3>7, <3>8
  <2>9. ASSUME Crash PROVE IInv'
    <3>1. /\ UNCHANGED <<row, sends, delivered, requeues>>
          /\ batch' = NoBatch /\ poller' = [pc |-> "idle", item |-> NoItem]
          /\ sender' = [i \in Items |-> IF sender[i] = "none" THEN "none" ELSE "done"]
      BY <2>9 DEF Crash, Idle
    <3>2. crashes' \in 0..MaxCrashes
      <4>1. crashes \in 0..MaxCrashes /\ crashes < MaxCrashes /\ crashes' = crashes + 1
        BY <2>9 DEF Crash, TypeOK
      <4> QED BY <4>1
    <3>3. TypeOK'
      BY <3>1, <3>2 DEF TypeOK, NoBatch
    <3>4. Afresh'
      BY <3>1 DEF Afresh, Is, Exists, NoBatch
    <3>5. (SentWasDelivered /\ NoDeadLetters)'
      BY <3>1 DEF SentWasDelivered, NoDeadLetters, Is, Exists
    <3> QED BY <3>3, <3>4, <3>5
  <2>10. CASE UNCHANGED vars
    BY <2>10 DEF vars, TypeOK, Afresh, SentWasDelivered, NoDeadLetters, Is,
                 Exists
  <2> QED BY <2>1, <2>2, <2>3, <2>4, <2>5, <2>6, <2>7, <2>8, <2>9, <2>10
          DEF Next, Sender, Poller, PollItem
<1> QED BY <1>1, <1>2, PTL DEF Spec

(* An item shown as sent was delivered, if its channel reports failures. *)
THEOREM SentWereDelivered == Spec => []SentWasDelivered
BY Knowledge, PTL DEF IInv

(* The types are kept. *)
THEOREM TypeCorrect == Spec => []TypeOK
BY Knowledge, PTL DEF IInv

(* No item becomes a dead letter. *)
THEOREM DeadLettersAreUnreachable == Spec => []NoDeadLetters
BY Knowledge, PTL DEF IInv

-----------------------------------------------------------------------------
(* The bound on deliveries *)

Pending(i) == IF Is(i, "pending") THEN 1 ELSE 0
BySender(i) == IF sender[i] \in {"none", "send"} THEN 1 ELSE 0

(* A listed item that is not marked yet will be, so that it is due only    *)
(* once even if it is pending; a marked one may have been requeued since.  *)
ByPoller(i) ==
  IF poller = [pc |-> "deliver", item |-> i] THEN 1 + Pending(i)
  ELSE IF batch[i] # NoItem /\ poller.item # i THEN 1
  ELSE Pending(i)

Due ==
  \A i \in Items :
    /\ sends[i] + BySender(i) + ByPoller(i) <= 2 + requeues[i]
    /\ ~Exists(i) => sends[i] = 0 /\ sender[i] = "none" /\ batch[i] = NoItem
                                                      /\ poller.item # i

(* What an item's part of Due depends on *)
LEMMA DueUnchanged ==
  ASSUME Due, NEW i \in Items,
         row'[i] = row[i], sender'[i] = sender[i], batch'[i] = batch[i],
         sends'[i] = sends[i], requeues'[i] = requeues[i],
         poller.item = i <=> poller'.item = i,
         poller.item = i => poller' = poller
  PROVE  /\ sends'[i] + BySender(i)' + ByPoller(i)' <= 2 + requeues'[i]
         /\ ~Exists(i)' => sends'[i] = 0 /\ sender'[i] = "none" /\ batch'[i] = NoItem
                                                      /\ poller'.item # i
<1>1. /\ Is(i, "pending")' = Is(i, "pending") /\ Exists(i)' = Exists(i)
      /\ (poller = [pc |-> "deliver", item |-> i])
          = (poller' = [pc |-> "deliver", item |-> i])
  BY DEF Is, Exists
<1>2. BySender(i)' = BySender(i) /\ ByPoller(i)' = ByPoller(i)
  BY <1>1 DEF BySender, ByPoller, Pending
<1> QED BY <1>1, <1>2 DEF Due

(* Crashes and stale rows never repeat a delivery. *)
THEOREM DeliveriesAreBounded == Spec => []SendsAreBounded
<1>1. Init => Due
  <2> SUFFICES ASSUME Init PROVE Due
    OBVIOUS
  <2>1. ASSUME NEW i \in Items
        PROVE  /\ sends[i] = 0 /\ requeues[i] = 0 /\ sender[i] = "none"
               /\ batch[i] = NoItem /\ poller.item # i /\ ~Exists(i)
               /\ BySender(i) = 1 /\ ByPoller(i) = 0
    BY DEF Init, Idle, NoBatch, Exists, Is, BySender, ByPoller, Pending
  <2>2. ASSUME NEW i \in Items
        PROVE  sends[i] + BySender(i) + ByPoller(i) <= 2 + requeues[i]
    BY <2>1
  <2> QED BY <2>1, <2>2 DEF Due
<1>2. IInv /\ Due /\ [Next]_vars => Due'
  <2> SUFFICES ASSUME IInv, Due, [Next]_vars PROVE Due'
    OBVIOUS
  <2> DEFINE DueFor(i) ==
        /\ sends[i] + BySender(i) + ByPoller(i) <= 2 + requeues[i]
        /\ ~Exists(i) => sends[i] = 0 /\ sender[i] = "none" /\ batch[i] = NoItem
                                                      /\ poller.item # i
  <2>0. /\ TypeOK /\ Afresh
        /\ \A i \in Items : /\ sends[i] \in Nat /\ requeues[i] \in Nat
                             /\ sends[i] + BySender(i) + ByPoller(i) <= 2 + requeues[i]
                             /\ BySender(i) \in 0..1 /\ Pending(i) \in 0..1
                             /\ ByPoller(i) \in 0..2
    BY DEF IInv, TypeOK, Due, BySender, Pending, ByPoller
  <2>1. ASSUME NEW i \in Items, Send(i) PROVE \A j \in Items : DueFor(j)'
    <3>1. ASSUME NEW j \in Items \ {i} PROVE DueFor(j)'
      BY <2>0, <2>1, DueUnchanged DEF Send, TypeOK
    <3>2. /\ Exists(i)' /\ sends'[i] = 0 /\ requeues'[i] \in Nat
          /\ BySender(i)' \in 0..1 /\ ByPoller(i)' \in 0..1
      <4>1. /\ sends[i] = 0 /\ batch[i] = NoItem /\ poller.item # i
            /\ Enqueued # NoItem
        BY <2>1 DEF Send, Due, Enqueued, Row
      <4> QED BY <2>0, <2>1, <4>1
              DEF Send, TypeOK, Exists, Is, BySender, ByPoller, Pending
    <3>3. DueFor(i)'
      BY <3>2
    <3> QED BY <3>1, <3>3
  <2>2. ASSUME NEW i \in Items, SendAsync(i) PROVE \A j \in Items : DueFor(j)'
    <3>1. ASSUME NEW j \in Items \ {i} PROVE DueFor(j)'
      BY <2>0, <2>2, DueUnchanged DEF SendAsync, Deliver, TypeOK
    <3>2. /\ sends'[i] = sends[i] + 1 /\ requeues' = requeues
          /\ BySender(i) = 1 /\ BySender(i)' = 0 /\ ByPoller(i)' = ByPoller(i)
          /\ Exists(i) /\ Exists(i)'
      BY <2>0, <2>2 DEF SendAsync, Deliver, TypeOK, BySender, ByPoller, Pending,
                        Is, Exists, Afresh
    <3>3. DueFor(i)'
      BY <2>0, <3>2
    <3> QED BY <3>1, <3>3
  <2>3. ASSUME NEW i \in Items, SendAsyncUpdates(i) PROVE \A j \in Items : DueFor(j)'
    <3>1. ASSUME NEW j \in Items \ {i} PROVE DueFor(j)'
      BY <2>0, <2>3, DueUnchanged DEF SendAsyncUpdates, TypeOK
    <3>2. /\ sends' = sends /\ requeues' = requeues
          /\ BySender(i)' = 0 /\ Exists(i)'
      BY <2>0, <2>3 DEF SendAsyncUpdates, TypeOK, BySender, Exists, Row, Afresh
    <3>3. ByPoller(i)' <= ByPoller(i)
      <4>1. row[i] \in Row /\ row'[i] = [row[i] EXCEPT !.status = sender[i]]
            /\ sender[i] \in {"sent", "failed"}
        BY <2>0, <2>3, ExistsLemma DEF SendAsyncUpdates, TypeOK, Afresh
      <4>2. Pending(i)' = 0 /\ UNCHANGED <<batch, poller>>
        BY <2>3, <4>1 DEF SendAsyncUpdates, Pending, Is, Row
      <4> QED BY <2>0, <4>2 DEF ByPoller
    <3>4. DueFor(i)'
      <4>1. ByPoller(i)' \in 0..2
        BY DEF ByPoller, Pending
      <4> QED BY <2>0, <3>2, <3>3, <4>1
    <3> QED BY <3>1, <3>4
  <2>4. ASSUME NEW i \in Items, Requeue(i) PROVE \A j \in Items : DueFor(j)'
    <3>1. ASSUME NEW j \in Items \ {i} PROVE DueFor(j)'
      BY <2>0, <2>4, DueUnchanged DEF Requeue, TypeOK
    <3>2. /\ sends' = sends /\ requeues'[i] = requeues[i] + 1
          /\ UNCHANGED <<sender, batch, poller>> /\ Exists(i)'
      BY <2>0, <2>4 DEF Requeue, TypeOK, Exists, Requeued, Row
    <3>3. BySender(i)' = BySender(i) /\ ByPoller(i)' <= ByPoller(i) + 1
      BY <2>0, <3>2 DEF BySender, ByPoller, Pending
    <3>4. ByPoller(i)' \in 0..2
      BY DEF ByPoller, Pending
    <3>5. DueFor(i)'
      BY <2>0, <3>2, <3>3, <3>4
    <3> QED BY <3>1, <3>5
  <2>5. ASSUME PollerLists PROVE \A j \in Items : DueFor(j)'
    <3>1. /\ UNCHANGED <<row, sender, poller, sends, requeues>>
          /\ batch = NoBatch /\ poller = Idle
      BY <2>5 DEF PollerLists
    <3>2. ASSUME NEW j \in Items
          PROVE  /\ BySender(j)' = BySender(j) /\ Pending(j)' = Pending(j)
                 /\ ByPoller(j)' = ByPoller(j)
                 /\ Exists(j)' = Exists(j)
                 /\ ~Exists(j) => batch'[j] = NoItem
      <4>1. poller.item = NoItem /\ batch[j] = NoItem
        BY <3>1 DEF Idle, NoBatch
      <4>2. BySender(j)' = BySender(j) /\ Pending(j)' = Pending(j)
            /\ Exists(j)' = Exists(j)
        BY <3>1 DEF BySender, Pending, Is, Exists
      <4>3. CASE j \in Listed
        <5>1. Is(j, "pending") /\ batch'[j] = row[j].retries /\ row[j].retries = 0
          BY <2>0, <2>5, <4>3 DEF PollerLists, Listed, Afresh
        <5> QED BY <3>1, <4>1, <4>2, <5>1, NoItemAssumption
                DEF ByPoller, Pending, Is
      <4>4. CASE j \notin Listed
        <5>1. ~Is(j, "pending") /\ batch'[j] = NoItem
          BY <2>5, <4>4 DEF PollerLists, Listed
        <5> QED BY <3>1, <4>1, <4>2, <5>1 DEF ByPoller, Pending
      <4> QED BY <4>3, <4>4
    <3>3. ASSUME NEW j \in Items PROVE DueFor(j)'
      <4>1. /\ sends[j] + BySender(j) + ByPoller(j) <= 2 + requeues[j]
            /\ ~Exists(j) => sends[j] = 0 /\ sender[j] = "none" /\ poller.item # j
        BY DEF Due
      <4>2. /\ sends' = sends /\ requeues' = requeues
            /\ sender' = sender /\ poller' = poller
        BY <3>1
      <4>3. sends'[j] + BySender(j)' + ByPoller(j)' <= 2 + requeues'[j]
        BY <3>2, <4>1, <4>2
      <4>4. ~Exists(j)' => /\ sends'[j] = 0 /\ sender'[j] = "none"
                           /\ batch'[j] = NoItem /\ poller'.item # j
        BY <3>2, <4>1, <4>2
      <4> QED BY <4>3, <4>4
    <3> QED BY <3>3
  <2>6. ASSUME NEW i \in Items, PollerMarks(i) PROVE \A j \in Items : DueFor(j)'
    <3>1. ASSUME NEW j \in Items \ {i} PROVE DueFor(j)'
      BY <2>0, <2>6, DueUnchanged DEF PollerMarks, TypeOK, Idle
    <3>2. /\ UNCHANGED <<sender, batch, sends, requeues>>
          /\ batch[i] # NoItem /\ poller = Idle
          /\ poller' = [pc |-> "deliver", item |-> i]
          /\ row'[i] = Marked(i) /\ row[i] \in Row
      BY <2>0, <2>6, ExistsLemma DEF PollerMarks, TypeOK, Afresh
    <3>3. Marked(i).status = "processing" /\ Marked(i) # NoItem
      BY <3>2 DEF Marked, Row
    <3>4. /\ Pending(i)' = 0 /\ Exists(i)' /\ BySender(i)' = BySender(i)
          /\ ByPoller(i) = 1
      BY <3>2, <3>3 DEF Pending, Is, Exists, BySender, ByPoller, Idle
    <3>5. ByPoller(i)' = 1
      BY <3>2, <3>4 DEF ByPoller
    <3>6. DueFor(i)'
      BY <2>0, <3>2, <3>4, <3>5
    <3> QED BY <3>1, <3>6
  <2>7. ASSUME NEW i \in Items, PollerDelivers(i) PROVE \A j \in Items : DueFor(j)'
    <3>1. ASSUME NEW j \in Items \ {i} PROVE DueFor(j)'
      BY <2>0, <2>7, DueUnchanged DEF PollerDelivers, Deliver, TypeOK
    <3>2. /\ UNCHANGED <<row, sender, batch, requeues>>
          /\ sends'[i] = sends[i] + 1
          /\ poller = [pc |-> "deliver", item |-> i]
          /\ poller'.item = i /\ poller'.pc # "deliver"
      BY <2>0, <2>7 DEF PollerDelivers, Deliver, TypeOK
    <3>3. /\ Pending(i)' = Pending(i) /\ Exists(i) /\ Exists(i)'
          /\ BySender(i)' = BySender(i)
      BY <2>0, <3>2 DEF Pending, Is, Exists, BySender, Afresh
    <3>4. ByPoller(i) = 1 + Pending(i) /\ ByPoller(i)' = Pending(i)
      BY <3>2, <3>3 DEF ByPoller
    <3>5. DueFor(i)'
      BY <2>0, <3>2, <3>3, <3>4
    <3> QED BY <3>1, <3>5
  <2>8. ASSUME NEW i \in Items, PollerSaves(i) PROVE \A j \in Items : DueFor(j)'
    <3>1. ASSUME NEW j \in Items \ {i} PROVE DueFor(j)'
      BY <2>0, <2>8, DueUnchanged DEF PollerSaves, TypeOK, Idle
    <3>2. /\ UNCHANGED <<sender, sends, requeues>>
          /\ batch'[i] = NoItem /\ poller' = Idle /\ row'[i] # NoItem
          /\ row'[i].status # "pending"
      <4>1. batch[i] = 0
        BY <2>0, <2>8 DEF Afresh, PollerSaves
      <4>2. /\ Settled(0, poller.pc = "sent").status # "pending"
            /\ Settled(0, poller.pc = "sent") \in Row
        BY <2>8, SettledLemma DEF PollerSaves
      <4> QED BY <2>0, <2>8, <4>1, <4>2 DEF PollerSaves, TypeOK
    <3>3. /\ Pending(i)' = 0 /\ Exists(i)' /\ BySender(i)' = BySender(i)
      BY <3>2 DEF Pending, Is, Exists, BySender
    <3>4. ByPoller(i)' = 0
      BY <3>2, <3>3 DEF ByPoller, Idle
    <3>5. DueFor(i)'
      BY <2>0, <3>2, <3>3, <3>4
    <3> QED BY <3>1, <3>5
  <2>9. ASSUME Crash PROVE \A j \in Items : DueFor(j)'
    <3>1. /\ UNCHANGED <<row, sends, requeues>>
          /\ batch' = NoBatch /\ poller' = Idle
      BY <2>9 DEF Crash
    <3>2. ASSUME NEW j \in Items
          PROVE  /\ BySender(j)' <= BySender(j) /\ BySender(j)' \in 0..1
                 /\ Pending(j)' = Pending(j) /\ Exists(j)' = Exists(j)
                 /\ sender[j] = "none" => sender'[j] = "none"
      BY <2>9, <3>1 DEF Crash, BySender, Pending, Is, Exists
    <3>3. ASSUME NEW j \in Items
          PROVE  /\ ByPoller(j)' <= ByPoller(j) /\ ByPoller(j)' \in 0..2
                 /\ batch'[j] = NoItem /\ poller'.item # j
      <4>1. batch'[j] = NoItem /\ poller'.item # j
        BY <3>1 DEF NoBatch, Idle
      <4>2. ByPoller(j)' = Pending(j)
        BY <3>2, <4>1 DEF ByPoller
      <4>3. Pending(j) <= ByPoller(j)
        BY <2>0 DEF ByPoller
      <4> QED BY <2>0, <4>1, <4>2, <4>3
    <3> QED BY <2>0, <3>1, <3>2, <3>3 DEF Due
  <2>10. CASE UNCHANGED vars
    <3>1. ASSUME NEW j \in Items PROVE DueFor(j)'
      BY <2>10, DueUnchanged DEF vars
    <3>2. \A j \in Items : DueFor(j)'
      BY <3>1
    <3> QED BY <3>2 DEF Due
  <2>11. (\A j \in Items : DueFor(j)') => Due'
    BY DEF Due
  <2> QED BY <2>1, <2>2, <2>3, <2>4, <2>5, <2>6, <2>7, <2>8, <2>9, <2>10, <2>11
          DEF Next, Sender, Poller, PollItem
<1>3. IInv /\ Due => SendsAreBounded
  <2> SUFFICES ASSUME IInv, Due, NEW i \in Items
               PROVE  sends[i] <= 2 + requeues[i]
    BY DEF SendsAreBounded
  <2>1. /\ BySender(i) \in Nat /\ ByPoller(i) \in Nat
        /\ sends[i] \in Nat /\ requeues[i] \in Nat
    BY DEF BySender, ByPoller, Pending, IInv, TypeOK
  <2>2. sends[i] + BySender(i) + ByPoller(i) <= 2 + requeues[i]
    BY DEF Due
  <2> QED BY <2>1, <2>2
<1> QED BY <1>1, <1>2, <1>3, Knowledge, PTL DEF Spec

-----------------------------------------------------------------------------
(* Recurring invoices, one run or request at a time and without a failure. *)
(* A period for which an invoice was made lies before the parent's date,   *)
(* or somebody is about to move the date on.                               *)
Parent == [on: BOOLEAN, cancelled: BOOLEAN, next: Nat]

Owing(x, y) ==
  /\ y.tenant \in Tenants /\ y.date \in I!Days /\ y.date <= today
  /\ y = [tenant |-> y.tenant, date |-> y.date]
  /\ parent[y.tenant].on /\ parent[y.tenant].next = y.date
  /\ (x.pc = "advance" => y # x.tenant) => made[y.tenant][y.date] = 0

Making(x) ==
  /\ x = I!At(x.pc, x.todo, x.tenant, x.number)
  /\ x.pc = "idle" => x = I!Idle
  /\ \A y \in x.todo : Owing(x, y)
  /\ x.pc \in {"create", "advance"} => x.tenant \in x.todo

Holding(x) ==
  x.pc = "save" => /\ x.tenant \in Tenants /\ x.row \in Parent
                   /\ x.row.on = parent[x.tenant].on
                   /\ x.row.next = parent[x.tenant].next

Moving(t, d) == \E w \in Workers : work[w].pc = "advance" /\ work[w].tenant = [tenant |-> t, date |-> d]

MadeBefore ==
  \A t \in Tenants, d \in I!Days :
    /\ made[t][d] <= 1
    /\ made[t][d] # 0 => d <= today
    /\ made[t][d] # 0 /\ parent[t].on => d < parent[t].next \/ Moving(t, d)

Resting(r) == req[r] \in {I!NotYet, I!Done}

InTurn ==
  /\ today \in 0..MaxDay
  /\ parent \in [Tenants -> Parent]
  /\ made \in [Tenants -> [I!Days -> Nat]]
  /\ work = [w \in Workers |-> work[w]]
  /\ req = [r \in Requests |-> req[r]]
  /\ \A v, w \in Workers : v # w => I!Idle \in {work[v], work[w]}
  /\ \A q, r \in Requests : q # r => Resting(q) \/ Resting(r)
  /\ \A w \in Workers, r \in Requests : work[w] = I!Idle \/ Resting(r)
  /\ \A w \in Workers : Making(work[w])
  /\ \A r \in Requests : Holding(req[r])
  /\ MadeBefore

Recurs == serial /\ ~faulted => InTurn

LEMMA RecursStarts == I!Init => Recurs
<1> SUFFICES ASSUME I!Init PROVE InTurn
  BY DEF Recurs
<1>1. /\ today = 0 /\ today \in 0..MaxDay
      /\ parent \in [Tenants -> Parent]
      /\ made \in [Tenants -> [I!Days -> Nat]]
  BY MaxDayAssumption DEF I!Init, Parent
<1>2. \A w \in Workers : work[w] = I!Idle /\ Making(work[w])
  BY DEF I!Init, Making, I!Idle, I!At
<1>3. \A r \in Requests : Resting(r) /\ Holding(req[r])
  BY DEF I!Init, Holding, Resting, I!NotYet
<1>4. MadeBefore
  BY DEF I!Init, MadeBefore
<1> QED BY <1>1, <1>2, <1>3, <1>4 DEF InTurn, I!Init

(* A worker goes on, while no request does. *)
LEMMA WorkerGoesOn ==
  ASSUME InTurn, NEW w \in Workers, NEW x, work' = [work EXCEPT ![w] = x],
         \/ work[w] # I!Idle
         \/ I!Quiet,
         UNCHANGED <<today, req>>,
         parent' \in [Tenants -> Parent], made' \in [Tenants -> [I!Days -> Nat]],
         Making(x)', MadeBefore'
  PROVE  InTurn'
<1>1. /\ work' = [v \in Workers |-> work'[v]] /\ work'[w] = x
      /\ \A v \in Workers : v # w => work'[v] = I!Idle
  BY DEF InTurn, I!Quiet
<1>2. \A r \in Requests : Resting(r)
  BY DEF InTurn, I!Quiet, Resting
<1>3. \A r \in Requests : Resting(r)' /\ Holding(req[r])'
  BY <1>2 DEF Resting, Holding, I!NotYet, I!Done
<1>4. ASSUME NEW v \in Workers PROVE Making(work[v])'
  <2>1. CASE v = w
    BY <1>1, <2>1 DEF Making, Owing
  <2>2. CASE v # w
    <3>1. PICK y : y = work'[v]
      OBVIOUS
    <3>2. y = I!Idle
      BY <1>1, <2>2, <3>1
    <3>3. y.pc = "idle" /\ y.todo = {}
      BY <3>2 DEF I!Idle, I!At
    <3> QED BY <3>1, <3>2, <3>3 DEF Making, I!Idle, I!At
  <2> QED BY <2>1, <2>2
<1> QED BY <1>1, <1>3, <1>4 DEF InTurn

(* A request goes on, while no worker does. *)
LEMMA RequestGoesOn ==
  ASSUME InTurn, NEW r \in Requests, NEW x, req' = [req EXCEPT ![r] = x],
         ~Resting(r) \/ I!Quiet,
         UNCHANGED <<today, work, made>>,
         parent' \in [Tenants -> Parent],
         Holding(x)', MadeBefore'
  PROVE  InTurn'
<1>1. \A w \in Workers : work[w] = I!Idle
  BY DEF InTurn, I!Quiet
<1>2. req' = [q \in Requests |-> req'[q]] /\ req'[r] = x
  BY DEF InTurn
<1>3. \A q \in Requests : q # r => Resting(q) /\ req'[q] = req[q]
  BY DEF InTurn, I!Quiet, Resting
<1>4. \A q \in Requests : q # r => Resting(q)' /\ Holding(req[q])'
  BY <1>3 DEF Resting, Holding, I!NotYet, I!Done
<1>5. Holding(req[r])'
  BY <1>2 DEF Holding
<1>6. ASSUME NEW w \in Workers PROVE Making(work[w])'
  <2>1. PICK y : y = work'[w]
    OBVIOUS
  <2>2. y = I!Idle
    BY <1>1, <2>1
  <2>3. y.pc = "idle" /\ y.todo = {}
    BY <2>2 DEF I!Idle, I!At
  <2> QED BY <2>1, <2>2, <2>3 DEF Making, I!Idle, I!At
<1> QED BY <1>1, <1>2, <1>4, <1>5, <1>6 DEF InTurn

(* While nobody moves a date on, all that was made lies before it. *)
LEMMA NobodyMoves ==
  ASSUME InTurn, I!Quiet \/ \E w \in Workers : work[w] # I!Idle /\ work[w].pc # "advance"
  PROVE  \A t \in Tenants, d \in I!Days :
           /\ ~Moving(t, d)
           /\ made[t][d] # 0 /\ parent[t].on => d < parent[t].next
<1>1. \A v \in Workers : work[v].pc # "advance"
  <2>1. \A v \in Workers : work[v] = I!Idle => work[v].pc # "advance"
    BY DEF I!Idle, I!At
  <2> QED BY <2>1 DEF InTurn, I!Quiet
<1> QED BY <1>1 DEF Moving, InTurn, MadeBefore

LEMMA ListsKeeps == ASSUME InTurn, NEW w \in Workers, serial, I!Lists(w) PROVE InTurn'
<1>1. I!Quiet /\ UNCHANGED <<today, parent, made, req>>
  BY DEF I!Lists, I!MayStart
<1>2. PICK todo : todo = {[tenant |-> t, date |-> parent[t].next] : t \in {u \in Tenants : I!Due(u)}}
  OBVIOUS
<1>3. PICK x : x = I!At("listed", todo, None, None)
  OBVIOUS
<1>4. /\ work' = [work EXCEPT ![w] = x] /\ x.pc = "listed" /\ x.todo = todo
      /\ x = I!At(x.pc, x.todo, x.tenant, x.number)
  BY <1>2, <1>3 DEF I!Lists, I!At
<1>5. ASSUME NEW t \in Tenants, I!Due(t) PROVE Owing(x, [tenant |-> t, date |-> parent[t].next])
  <2>1. parent[t] \in Parent /\ parent[t].on /\ parent[t].next <= today
    BY <1>5 DEF I!Due, InTurn
  <2>2. parent[t].next \in I!Days
    BY <2>1, MaxDayAssumption DEF Parent, I!Days, InTurn
  <2>3. made[t][parent[t].next] = 0
    <3>1. parent[t].next \in Int
      BY <2>1 DEF Parent
    <3> QED BY <1>1, <2>1, <2>2, <3>1, NobodyMoves
  <2> QED BY <2>1, <2>2, <2>3 DEF Owing
<1>6. Making(x)
  BY <1>2, <1>4, <1>5 DEF Making
<1>7. Making(x)'
  BY <1>1, <1>6 DEF Making, Owing
<1>8. MadeBefore'
  BY <1>1, NobodyMoves DEF MadeBefore, InTurn
<1> QED BY <1>1, <1>4, <1>7, <1>8, WorkerGoesOn DEF InTurn

LEMMA NumbersKeeps ==
  ASSUME InTurn, NEW w \in Workers, NEW y, I!Numbers(w, y) PROVE InTurn'
<1>1. /\ work[w].pc = "listed" /\ y \in work[w].todo
      /\ UNCHANGED <<today, parent, made, req>>
  BY DEF I!Numbers
<1>2. work[w] # I!Idle
  BY <1>1 DEF I!Idle, I!At
<1>3. PICK number : number = I!NextNumber(count[y.tenant])
  OBVIOUS
<1>4. PICK x : x = I!At("create", work[w].todo, y, number)
  OBVIOUS
<1>5. /\ work' = [work EXCEPT ![w] = x]
      /\ x.pc = "create" /\ x.todo = work[w].todo /\ x.tenant = y
      /\ x = I!At(x.pc, x.todo, x.tenant, x.number)
  BY <1>3, <1>4 DEF I!Numbers, I!At
<1>6. Making(x)
  BY <1>1, <1>5 DEF Making, Owing, InTurn
<1>7. Making(x)'
  BY <1>1, <1>6 DEF Making, Owing
<1>8. MadeBefore'
  BY <1>1, <1>2, NobodyMoves DEF MadeBefore, InTurn
<1> QED BY <1>1, <1>2, <1>5, <1>7, <1>8, WorkerGoesOn DEF InTurn

(* A worker is done with one of those listed. *)
LEMMA FinishedGoesOn ==
  ASSUME InTurn, NEW w \in Workers, work[w].pc \in {"create", "advance"}, I!Finished(w),
         UNCHANGED <<today, req>>,
         parent' \in [Tenants -> Parent], made' \in [Tenants -> [I!Days -> Nat]],
         \A y \in work[w].todo \ {work[w].tenant} : /\ parent'[y.tenant] = parent[y.tenant]
                                                  /\ made'[y.tenant] = made[y.tenant],
         MadeBefore'
  PROVE  InTurn'
<1>1. PICK left : left = work[w].todo \ {work[w].tenant}
  OBVIOUS
<1>2. PICK x : x = IF left = {} THEN I!Idle ELSE I!At("listed", left, None, None)
  OBVIOUS
<1>3. work' = [work EXCEPT ![w] = x]
  BY <1>1, <1>2 DEF I!Finished
<1>4. /\ x.todo = left /\ (x.pc = "idle" => x = I!Idle) /\ x.pc \in {"idle", "listed"}
      /\ x = I!At(x.pc, x.todo, x.tenant, x.number)
  BY <1>2 DEF I!Idle, I!At
<1>5. ASSUME NEW y \in left PROVE Owing(x, y)'
  <2>1. Owing(work[w], y) /\ y # work[w].tenant
    BY <1>1 DEF InTurn, Making
  <2> QED BY <1>1, <2>1 DEF Owing
<1>6. Making(x)'
  BY <1>4, <1>5 DEF Making
<1>7. work[w] # I!Idle
  BY DEF I!Idle, I!At
<1> QED BY <1>3, <1>6, <1>7, WorkerGoesOn

(* Two that are listed have different tenants. *)
LEMMA OneOfATenant ==
  ASSUME InTurn, NEW w \in Workers, NEW y \in work[w].todo, NEW z \in work[w].todo, y.tenant = z.tenant
  PROVE  y = z
BY DEF InTurn, Making, Owing

LEMMA CreatesKeeps == ASSUME InTurn, NEW w \in Workers, I!Creates(w) PROVE InTurn'
<1>1. /\ work[w].pc = "create" /\ work[w] # I!Idle
      /\ UNCHANGED <<today, parent, req>>
  BY DEF I!Creates, I!Idle, I!At
<1>2. PICK y : y = work[w].tenant
  OBVIOUS
<1>3. y \in work[w].todo /\ Owing(work[w], y) /\ made[y.tenant][y.date] = 0
  BY <1>1, <1>2 DEF InTurn, Making, Owing
<1>4. CASE I!Finished(w) /\ made' = made
  <2>1. MadeBefore'
    BY <1>1, <1>4, NobodyMoves DEF MadeBefore, InTurn
  <2> QED BY <1>1, <1>4, <2>1, FinishedGoesOn DEF InTurn
<1>5. CASE made' = [made EXCEPT ![y.tenant][y.date] = @ + 1] /\ work' = [work EXCEPT ![w].pc = "advance"]
  <2>1. PICK x : x = [work[w] EXCEPT !.pc = "advance"]
    OBVIOUS
  <2>2. work' = [work EXCEPT ![w] = x]
    BY <1>5, <2>1 DEF InTurn
  <2>3. /\ made' \in [Tenants -> [I!Days -> Nat]]
        /\ made'[y.tenant][y.date] = 1
        /\ \A t \in Tenants, d \in I!Days : t # y.tenant \/ d # y.date => made'[t][d] = made[t][d]
        /\ \A t \in Tenants : t # y.tenant => made'[t] = made[t]
    BY <1>3, <1>5 DEF InTurn, Owing
  <2>4. /\ x.pc = "advance" /\ x.todo = work[w].todo /\ x.tenant = y
        /\ x = I!At(x.pc, x.todo, x.tenant, x.number)
    BY <1>2, <2>1 DEF InTurn, Making, I!At
  <2>5. ASSUME NEW z \in x.todo PROVE Owing(x, z)'
    <3>1. Owing(work[w], z) /\ (z = y \/ z.tenant # y.tenant)
      BY <1>3, <2>4, <2>5, OneOfATenant DEF InTurn, Making
    <3> QED BY <1>1, <2>3, <2>4, <3>1 DEF Owing
  <2>6. Making(x)'
    BY <1>3, <2>4, <2>5 DEF Making
  <2>7. MadeBefore'
    <3>1. ASSUME NEW t \in Tenants, NEW d \in I!Days
          PROVE  /\ made'[t][d] <= 1
                 /\ made'[t][d] # 0 => d <= today
                 /\ made'[t][d] # 0 /\ parent[t].on => d < parent[t].next \/ Moving(t, d)'
      <4>1. CASE t = y.tenant /\ d = y.date
        <5>1. work'[w].pc = "advance" /\ work'[w].tenant = [tenant |-> t, date |-> d]
          BY <1>3, <2>2, <2>4, <4>1 DEF InTurn, Owing
        <5> QED BY <1>3, <2>3, <4>1, <5>1 DEF Moving, Owing
      <4>2. CASE t # y.tenant \/ d # y.date
        BY <1>1, <2>3, <4>2, NobodyMoves DEF InTurn, MadeBefore
      <4> QED BY <4>1, <4>2
    <3> QED BY <1>1, <3>1 DEF MadeBefore
  <2> QED BY <1>1, <2>2, <2>3, <2>6, <2>7, WorkerGoesOn DEF InTurn
<1> QED BY <1>2, <1>4, <1>5 DEF I!Creates

LEMMA AdvancesKeeps ==
  ASSUME InTurn, NEW w \in Workers, I!Advances(w), ~faulted'  PROVE InTurn'
<1>1. PICK y : y = work[w].tenant
  OBVIOUS
<1>2. /\ work[w].pc = "advance" /\ work[w] # I!Idle
      /\ UNCHANGED <<today, made, req>> /\ I!Finished(w)
      /\ parent' = [parent EXCEPT ![y.tenant].next = y.date + 1]
  BY <1>1 DEF I!Advances, I!Idle, I!At, I!CalculateNextDate
<1>3. /\ y \in work[w].todo /\ y.tenant \in Tenants /\ y.date \in I!Days
      /\ y = [tenant |-> y.tenant, date |-> y.date]
      /\ parent[y.tenant].next = y.date /\ parent[y.tenant] \in Parent
  BY <1>1, <1>2 DEF InTurn, Making, Owing
<1>4. /\ y.date \in Nat
      /\ parent' \in [Tenants -> Parent]
      /\ parent'[y.tenant].next = y.date + 1
      /\ \A t \in Tenants : t # y.tenant => parent'[t] = parent[t]
  <2>1. y.date \in Nat /\ y.date + 1 \in Nat
    BY <1>3, MaxDayAssumption DEF I!Days
  <2>2. PICK p : p = [parent[y.tenant] EXCEPT !.next = y.date + 1]
    OBVIOUS
  <2>3. p \in Parent /\ p.next = y.date + 1
    BY <1>3, <2>1, <2>2 DEF Parent
  <2>4. parent' = [parent EXCEPT ![y.tenant] = p]
    BY <1>2, <2>2
  <2> QED BY <1>3, <2>1, <2>3, <2>4 DEF InTurn
<1>5. \A z \in work[w].todo \ {work[w].tenant} : parent'[z.tenant] = parent[z.tenant]
  <2>1. ASSUME NEW z \in work[w].todo, z # y PROVE parent'[z.tenant] = parent[z.tenant]
    <3>1. z.tenant # y.tenant
      BY <1>3, <2>1, OneOfATenant
    <3>2. z.tenant \in Tenants
      BY DEF InTurn, Making, Owing
    <3> QED BY <1>4, <3>1, <3>2
  <2> QED BY <1>1, <2>1
<1>6. MadeBefore'
  <2>1. \A v \in Workers : work[v].pc = "advance" => v = w
    BY <1>2 DEF InTurn, I!Idle, I!At
  <2>2. ASSUME NEW t \in Tenants, NEW d \in I!Days, made[t][d] # 0, parent'[t].on PROVE d < parent'[t].next
    <3>1. d \in Int
      BY MaxDayAssumption DEF I!Days
    <3>2. CASE t # y.tenant
      <4>1. ~Moving(t, d)
        BY <1>1, <1>3, <2>1, <3>2 DEF Moving
      <4> QED BY <1>4, <2>2, <3>2, <4>1 DEF InTurn, MadeBefore
    <3>3. CASE t = y.tenant
      <4>1. Moving(t, d) => d = y.date
        BY <1>1, <1>3, <2>1 DEF Moving
      <4>2. parent[t].on
        BY <1>2, <1>3, <3>3 DEF InTurn, Making, Owing
      <4>3. d < y.date \/ d = y.date
        BY <1>3, <2>2, <3>3, <4>1, <4>2 DEF InTurn, MadeBefore
      <4> QED BY <1>3, <1>4, <3>1, <3>3, <4>3
    <3> QED BY <3>2, <3>3
  <2> QED BY <1>2, <2>2 DEF InTurn, MadeBefore
<1> QED BY <1>2, <1>4, <1>5, <1>6, FinishedGoesOn DEF InTurn

(* The requests that change a parent *)
LEMMA EnablesKeep ==
  ASSUME InTurn, NEW r \in Requests, NEW t \in Tenants, serial,
         I!EnableRecurring(r, t) \/ I!DisableRecurring(r, t)
  PROVE  InTurn'
<1>1. PICK x : x = I!Done
  OBVIOUS
<1>2. /\ I!Quiet /\ UNCHANGED <<today, work, made>>
      /\ req' = [req EXCEPT ![r] = x]
      /\ \/ parent' = [parent EXCEPT ![t].on = TRUE, ![t].next = today + 1]
         \/ parent' = [parent EXCEPT ![t].on = FALSE, ![t].next = 0]
  BY <1>1 DEF I!EnableRecurring, I!DisableRecurring, I!MayStart
<1>3. today \in Nat /\ today + 1 \in Nat /\ parent[t] \in Parent
  BY MaxDayAssumption DEF InTurn
<1>4. PICK p : /\ parent' = [parent EXCEPT ![t] = p]
               /\ \/ p = [parent[t] EXCEPT !.on = TRUE, !.next = today + 1]
                  \/ p = [parent[t] EXCEPT !.on = FALSE, !.next = 0]
  BY <1>2, <1>3 DEF InTurn, Parent
<1>5. p \in Parent /\ (p.on => p.next = today + 1)
  <2>1. CASE p = [parent[t] EXCEPT !.on = TRUE, !.next = today + 1]
    BY <1>3, <2>1 DEF Parent
  <2>2. CASE p = [parent[t] EXCEPT !.on = FALSE, !.next = 0]
    <3>1. p \in Parent /\ p.on = FALSE
      BY <1>3, <2>2 DEF Parent
    <3> QED BY <3>1
  <2> QED BY <1>4, <2>1, <2>2
<1>6. /\ parent' \in [Tenants -> Parent] /\ parent'[t] = p
      /\ \A u \in Tenants : u # t => parent'[u] = parent[u]
  BY <1>4, <1>5 DEF InTurn
<1>7. Holding(x)'
  BY <1>1 DEF Holding, I!Done
<1>8. MadeBefore'
  <2>1. \A d \in I!Days : d \in Int
    BY MaxDayAssumption DEF I!Days
  <2>2. ASSUME NEW u \in Tenants, NEW d \in I!Days, made[u][d] # 0, parent'[u].on PROVE d < parent'[u].next
    <3>1. d <= today
      BY <2>2 DEF InTurn, MadeBefore
    <3>2. CASE u = t
      BY <1>3, <1>5, <1>6, <2>1, <2>2, <3>1, <3>2
    <3>3. CASE u # t
      BY <1>2, <1>6, <2>2, <3>3, NobodyMoves
    <3> QED BY <3>2, <3>3
  <2> QED BY <1>2, <2>2 DEF InTurn, MadeBefore
<1> QED BY <1>2, <1>6, <1>7, <1>8, RequestGoesOn

LEMMA ReadsRowKeeps ==
  ASSUME InTurn, NEW r \in Requests, NEW t \in Tenants, serial, I!ReadsRow(r, t)
  PROVE  InTurn'
<1>1. I!Quiet /\ UNCHANGED <<today, parent, work, made>> /\ parent[t] \in Parent
  BY DEF I!ReadsRow, I!MayStart, InTurn
<1>2. PICK cancels \in BOOLEAN :
        req' = [req EXCEPT ![r] = [pc |-> "save", tenant |-> t,
                                   row |-> [parent[t] EXCEPT !.cancelled = @ \/ cancels]]]
  BY DEF I!ReadsRow
<1>3. PICK p : p = [parent[t] EXCEPT !.cancelled = @ \/ cancels]
  OBVIOUS
<1>4. p \in Parent /\ p.on = parent[t].on /\ p.next = parent[t].next
  BY <1>1, <1>3 DEF Parent
<1>5. PICK x : x = [pc |-> "save", tenant |-> t, row |-> p]
  OBVIOUS
<1>6. req' = [req EXCEPT ![r] = x]
  BY <1>2, <1>3, <1>5
<1>7. Holding(x)'
  BY <1>1, <1>4, <1>5 DEF Holding
<1>8. MadeBefore'
  BY <1>1, NobodyMoves DEF MadeBefore, InTurn
<1> QED BY <1>1, <1>6, <1>7, <1>8, RequestGoesOn DEF InTurn

LEMMA SavesRowKeeps == ASSUME InTurn, NEW r \in Requests, I!SavesRow(r) PROVE InTurn'
<1>1. PICK t, p : t = req[r].tenant /\ p = req[r].row
  OBVIOUS
<1>2. /\ req[r].pc = "save" /\ ~Resting(r) /\ UNCHANGED <<today, work, made>>
      /\ parent' = [parent EXCEPT ![t] = p]
  BY <1>1 DEF I!SavesRow, Resting, I!NotYet, I!Done
<1>3. /\ t \in Tenants /\ p \in Parent
      /\ p.on = parent[t].on /\ p.next = parent[t].next
  BY <1>1, <1>2 DEF InTurn, Holding
<1>4. /\ parent' \in [Tenants -> Parent]
      /\ \A u \in Tenants : parent'[u].on = parent[u].on /\ parent'[u].next = parent[u].next
  BY <1>2, <1>3 DEF InTurn
<1>5. PICK x : x = I!Done
  OBVIOUS
<1>6. req' = [req EXCEPT ![r] = x] /\ Holding(x)'
  BY <1>5 DEF I!SavesRow, Holding, I!Done
<1>7. MadeBefore'
  BY <1>2, <1>4 DEF MadeBefore, InTurn, Moving
<1> QED BY <1>2, <1>4, <1>6, <1>7, RequestGoesOn

LEMMA RecursStands == Recurs /\ [I!Next]_I!vars => Recurs'
<1> SUFFICES ASSUME Recurs, [I!Next]_I!vars, serial', ~faulted' PROVE InTurn'
  BY DEF Recurs
<1>1. CASE UNCHANGED I!vars
  BY <1>1 DEF I!vars, Recurs, InTurn, Making, Owing, Holding, Resting, MadeBefore, Moving
<1>2. ASSUME NEW w \in Workers, I!Process(w) PROVE InTurn'
  <2>1. serial' = serial /\ (faulted' = faulted \/ faulted' = TRUE)
    BY <1>2, Zenon DEF I!Process, I!Lists, I!Numbers, I!Creates, I!Advances
  <2>2. serial /\ ~faulted
    <3>1. faulted' = faulted
      BY <2>1
    <3> QED BY <2>1, <3>1, Zenon
  <2> QED BY <1>2, <2>2, ListsKeeps, NumbersKeeps, CreatesKeeps, AdvancesKeeps DEF I!Process, Recurs
<1>3. ASSUME NEW r \in Requests,
             \/ \E t \in Tenants : I!EnableRecurring(r, t) \/ I!DisableRecurring(r, t) \/ I!ReadsRow(r, t)
             \/ I!SavesRow(r)
      PROVE  InTurn'
  <2>1. serial' = serial /\ faulted' = faulted
    BY <1>3, Zenon DEF I!EnableRecurring, I!DisableRecurring, I!ReadsRow, I!SavesRow
  <2>2. serial /\ ~faulted
    BY <2>1, Zenon
  <2> QED BY <1>3, <2>2, EnablesKeep, ReadsRowKeeps, SavesRowKeeps DEF Recurs
<1>4. ASSUME NEW t \in Tenants, I!CreatesOther(t) \/ I!DeleteInvoice(t) PROVE InTurn'
  <2>1. serial' = serial /\ faulted' = faulted /\ UNCHANGED <<today, parent, made, work, req>>
    BY <1>4, Zenon DEF I!CreatesOther, I!DeleteInvoice
  <2>2. serial /\ ~faulted
    BY <2>1, Zenon
  <2> QED BY <2>1, <2>2 DEF Recurs, InTurn, Making, Owing, Holding, Resting, MadeBefore, Moving
<1>5. CASE I!Tick
  <2>1. /\ serial /\ ~faulted /\ UNCHANGED <<parent, made, work, req>>
        /\ today' = today + 1 /\ today < MaxDay
    BY <1>5 DEF I!Tick
  <2>2. InTurn /\ today \in Nat /\ today' \in 0..MaxDay
    BY <2>1, MaxDayAssumption DEF Recurs, InTurn
  <2>3. \A d \in I!Days : d \in Int /\ (d <= today => d <= today')
    BY <2>1, <2>2, MaxDayAssumption DEF I!Days
  <2>4. \A w \in Workers : Making(work[w])'
    BY <2>1, <2>2, <2>3 DEF InTurn, Making, Owing
  <2>5. MadeBefore'
    BY <2>1, <2>2, <2>3 DEF InTurn, MadeBefore, Moving
  <2> QED BY <2>1, <2>2, <2>4, <2>5 DEF InTurn, Holding, Resting
<1>6. CASE I!Crash
  BY <1>6 DEF I!Crash
<1> QED BY <1>1, <1>2, <1>3, <1>4, <1>5, <1>6 DEF I!Next

LEMMA RecursIsOnce == Recurs => I!OncePerPeriod
BY DEF Recurs, InTurn, MadeBefore, I!OncePerPeriod

-----------------------------------------------------------------------------
(* Reminders, one run at a time.  Of a pair that was not missed, the log   *)
(* has a row of the last reminder or a later one, or a run is about to     *)
(* write it, and one about to be sent is apart from the last.              *)
Timed ==
  /\ Day \in Nat \ {0} /\ DueAt \in Nat /\ MaxHour \in Nat
  /\ Intervals \subseteq Nat \ {0}
  /\ None \notin Nat

Apart(i, k) == last[i][k] # None => hour - last[i][k] >= R!Spacing(k)

Reminding(x) ==
  /\ x = [pc |-> x.pc, left |-> x.left, item |-> x.item, list |-> x.list, start |-> x.start]
  /\ x.pc = "idle" => x = R!Idle
  /\ x.left \subseteq Invoices \X R!Kinds
  /\ x.start \in 0..MaxHour
  /\ x.pc \in {"send", "log"} => x.item \in Invoices \X R!Kinds /\ x.list \in {"soon", "late"}
  /\ x.pc = "send" => x.item \in missed \/ Apart(x.item[1], x.item[2])

Writing(i, k) == \E w \in Senders : run[w].pc = "log" /\ run[w].item = <<i, k>>

Remembered ==
  \A i \in Invoices, k \in R!Kinds : last[i][k] # None =>
    /\ last[i][k] <= hour
    /\ \/ \E e \in log : e.invoice = i /\ e.kind = k /\ e.hour >= last[i][k]
       \/ Writing(i, k)
       \/ <<i, k>> \in missed

Spaced ==
  /\ hour \in 0..MaxHour
  /\ last \in [Invoices -> [R!Kinds -> Nat \cup {None}]]
  /\ \A e \in log : e.hour \in Nat
  /\ overdue \subseteq Invoices /\ (overdue # {} => hour > DueAt)
  /\ run = [w \in Senders |-> run[w]]
  /\ \A v, w \in Senders : v # w => R!Idle \in {run[v], run[w]}
  /\ \A w \in Senders : Reminding(run[w])
  /\ Remembered
  /\ again \subseteq missed

Reminds == serial => Spaced

(* The kinds there are are those that runs list. *)
LEMMA KindsListed ==
  ASSUME Timed, NEW h \in 0..MaxHour, h > DueAt
  PROVE  /\ R!DaysOverdue(h) \in Int
         /\ R!DaysOverdue(h) >= 1 => <<"overdue", R!DaysOverdue(h)>> \in R!Kinds
         /\ <<"overdue", 1>> \in R!Kinds
<1>1. \A a, b \in Int, d \in Nat \ {0} : a \div d \in Int /\ (a <= b => a \div d <= b \div d)
  OBVIOUS
<1>2. \A a \in Nat, d \in Nat \ {0} : a \div d >= 0
  OBVIOUS
<1>3. PICK m : m = (MaxHour - DueAt) \div Day
  OBVIOUS
<1>4. /\ m \in Int /\ m >= 0
      /\ R!DaysOverdue(h) \in Int /\ R!DaysOverdue(h) <= m
  BY <1>1, <1>2, <1>3 DEF Timed, R!DaysOverdue
<1>5. \A n \in 1..(m + 1) : <<"overdue", n>> \in R!Kinds
  BY <1>3 DEF R!Kinds
<1> QED BY <1>4, <1>5

LEMMA IdleReminds == ASSUME Timed PROVE Reminding(R!Idle) /\ Reminding(R!Idle)'
BY DEF Timed, Reminding, R!Idle, R!At

LEMMA RemindsStarts == ASSUME Timed, R!Init PROVE Reminds
<1>1. \A w \in Senders : run[w] = R!Idle /\ Reminding(run[w])
  BY IdleReminds DEF R!Init
<1>2. hour \in 0..MaxHour /\ last \in [Invoices -> [R!Kinds -> Nat \cup {None}]]
  BY DEF R!Init, Timed
<1>3. Remembered
  BY DEF R!Init, Remembered
<1> QED BY <1>1, <1>2, <1>3 DEF R!Init, Reminds, Spaced

(* A run goes on, while no other does. *)
LEMMA RunGoesOn ==
  ASSUME Timed, Spaced, NEW w \in Senders, NEW x, run' = [run EXCEPT ![w] = x],
         run[w] # R!Idle \/ R!Quiet,
         UNCHANGED <<hour, overdue>>,
         last' \in [Invoices -> [R!Kinds -> Nat \cup {None}]],
         \A e \in log' : e.hour \in Nat,
         missed \subseteq missed', Reminding(x)', Remembered', again' \subseteq missed'
  PROVE  Spaced'
<1>1. /\ run' = [v \in Senders |-> run'[v]] /\ run'[w] = x
      /\ \A v \in Senders : v # w => run'[v] = R!Idle
  BY DEF Spaced, R!Quiet
<1>2. ASSUME NEW v \in Senders PROVE Reminding(run[v])'
  <2>1. CASE v = w
    BY <1>1, <2>1 DEF Reminding, Apart
  <2>2. CASE v # w
    BY <1>1, <2>2, IdleReminds DEF Reminding, Apart
  <2> QED BY <2>1, <2>2
<1> QED BY <1>1, <1>2 DEF Spaced

(* While nobody is about to log, the log has all. *)
LEMMA NobodyWrites ==
  ASSUME Spaced, R!Quiet \/ \E w \in Senders : run[w] # R!Idle /\ run[w].pc # "log"
  PROVE  \A i \in Invoices, k \in R!Kinds : last[i][k] # None =>
           \/ \E e \in log : e.invoice = i /\ e.kind = k /\ e.hour >= last[i][k]
           \/ <<i, k>> \in missed
<1>1. \A v \in Senders : run[v].pc # "log"
  <2>1. \A v \in Senders : run[v] = R!Idle => run[v].pc # "log"
    BY DEF R!Idle, R!At
  <2> QED BY <2>1 DEF Spaced, R!Quiet
<1> QED BY <1>1 DEF Spaced, Remembered, Writing

LEMMA RunMoves ==
  ASSUME Timed, Spaced, NEW w \in Senders, NEW x, run' = [run EXCEPT ![w] = x],
         \/ run[w] # R!Idle /\ run[w].pc # "log"
         \/ R!Quiet,
         UNCHANGED <<hour, overdue, last, log, again>>, missed \subseteq missed',
         Reminding(x)'
  PROVE  Spaced'
<1>1. Remembered'
  BY NobodyWrites DEF Remembered, Spaced
<1> QED BY <1>1, RunGoesOn DEF Spaced

LEMMA ListsRemind ==
  ASSUME Timed, Spaced, serial, NEW w \in Senders,
         R!ListsDueSoon(w) \/ R!ListsOverdue(w) \/ R!BulkSendOverdueReminders(w) \/ R!Ends(w)
  PROVE  Spaced'
<1>1. UNCHANGED <<hour, overdue, last, log, again, missed>> /\ hour \in 0..MaxHour /\ R!Open \subseteq Invoices
  BY DEF R!ListsDueSoon, R!ListsOverdue, R!BulkSendOverdueReminders, R!Ends, Spaced, R!Open
<1>2. ASSUME NEW pc \in {"soon", "late"}, NEW left \in SUBSET (Invoices \X R!Kinds), NEW start \in 0..MaxHour,
             run' = [run EXCEPT ![w] = R!At(pc, left, start)],
             \/ run[w] # R!Idle /\ run[w].pc # "log"
             \/ R!Quiet
      PROVE  Spaced'
  <2>1. PICK x : x = R!At(pc, left, start)
    OBVIOUS
  <2>2. Reminding(x)'
    BY <2>1 DEF Reminding, R!At
  <2> QED BY <1>1, <1>2, <2>1, <2>2, RunMoves
<1>3. CASE R!ListsDueSoon(w)
  <2>1. R!DueSoon(hour) \in SUBSET (Invoices \X R!Kinds)
    BY <1>1 DEF R!DueSoon, R!Kinds
  <2>2. /\ R!Quiet
        /\ \/ run' = [run EXCEPT ![w] = R!At("soon", R!DueSoon(hour), hour)]
           \/ run' = [run EXCEPT ![w] = R!At("soon", {}, hour)]
    BY <1>3 DEF R!ListsDueSoon
  <2> QED BY <1>1, <1>2, <2>1, <2>2
<1>4. CASE R!ListsOverdue(w)
  <2>1. run[w].pc = "soon" /\ run[w] # R!Idle /\ run[w].start \in 0..MaxHour
    BY <1>4 DEF R!ListsOverdue, Spaced, Reminding, R!Idle, R!At
  <2>2. R!Overdue(run[w].start) \in SUBSET (Invoices \X R!Kinds)
    <3>1. PICK h \in 0..MaxHour : h = run[w].start
      BY <2>1
    <3>2. CASE h > DueAt /\ R!DaysOverdue(h) \in Intervals
      <4>1. <<"overdue", R!DaysOverdue(h)>> \in R!Kinds
        BY <3>2, KindsListed DEF Timed
      <4> QED BY <1>1, <3>1, <3>2, <4>1 DEF R!Overdue
    <3> QED BY <3>1, <3>2 DEF R!Overdue
  <2>3. /\ 0 \in 0..MaxHour
        /\ \/ run' = [run EXCEPT ![w] = R!At("late", R!Overdue(run[w].start), 0)]
           \/ run' = [run EXCEPT ![w] = R!At("late", {}, 0)]
    BY <1>4 DEF R!ListsOverdue, Timed
  <2> QED BY <1>2, <2>1, <2>2, <2>3
<1>5. CASE R!BulkSendOverdueReminders(w)
  <2>1. PICK days : days = IF R!DaysOverdue(hour) < 1 THEN 1 ELSE R!DaysOverdue(hour)
    OBVIOUS
  <2>2. <<"overdue", days>> \in R!Kinds
    <3>1. hour > DueAt
      BY <1>5 DEF R!BulkSendOverdueReminders, Spaced
    <3>2. PICK n : n = R!DaysOverdue(hour)
      OBVIOUS
    <3>3. n \in Int /\ (n >= 1 => <<"overdue", n>> \in R!Kinds) /\ <<"overdue", 1>> \in R!Kinds
      BY <1>1, <3>1, <3>2, KindsListed
    <3>4. days = IF n < 1 THEN 1 ELSE n
      BY <2>1, <3>2
    <3>5. CASE n < 1
      BY <3>3, <3>4, <3>5
    <3>6. CASE n >= 1
      BY <3>3, <3>4, <3>6
    <3> QED BY <3>3, <3>5, <3>6
  <2>3. PICK left : left = {<<i, <<"overdue", days>>>> : i \in overdue \ paid}
    OBVIOUS
  <2>4. left \in SUBSET (Invoices \X R!Kinds)
    BY <2>2, <2>3 DEF Spaced
  <2>5. R!Quiet /\ run' = [run EXCEPT ![w] = R!At("late", left, 0)] /\ 0 \in 0..MaxHour
    BY <1>5, <2>1, <2>3 DEF R!BulkSendOverdueReminders, Timed
  <2> QED BY <1>2, <2>4, <2>5
<1>6. CASE R!Ends(w)
  <2>1. run[w].pc = "late" /\ run[w] # R!Idle /\ run' = [run EXCEPT ![w] = R!Idle]
    BY <1>6 DEF R!Ends, R!Idle, R!At
  <2>2. PICK x : x = R!Idle
    OBVIOUS
  <2> QED BY <1>1, <2>1, <2>2, IdleReminds, RunMoves
<1> QED BY <1>3, <1>4, <1>5, <1>6

LEMMA LooksRemind ==
  ASSUME Timed, Spaced, NEW w \in Senders, NEW y, R!Looks(w, y) \/ R!PassesOver(w, y)
  PROVE  Spaced'
<1>1. /\ run[w].pc \in {"soon", "late"} /\ run[w] # R!Idle
      /\ y \in run[w].left /\ y \in Invoices \X R!Kinds
      /\ UNCHANGED <<hour, overdue, last, log, again>> /\ missed \subseteq missed'
      /\ Reminding(run[w])
  BY DEF R!Looks, R!PassesOver, R!Idle, R!At, Spaced, Reminding
<1>2. CASE R!PassesOver(w, y)
  <2>1. PICK x : x = R!At(run[w].pc, run[w].left \ {y}, run[w].start)
    OBVIOUS
  <2>2. run' = [run EXCEPT ![w] = x]
    BY <1>2, <2>1 DEF R!PassesOver, R!Passed
  <2>3. Reminding(x)'
    BY <1>1, <2>1 DEF Reminding, R!At
  <2> QED BY <1>1, <2>2, <2>3, RunMoves
<1>3. CASE R!Looks(w, y)
  <2>1. PICK x : x = [pc |-> "send", left |-> run[w].left \ {y}, item |-> y,
                      list |-> run[w].pc, start |-> run[w].start]
    OBVIOUS
  <2>2. run' = [run EXCEPT ![w] = x]
    BY <1>3, <2>1 DEF R!Looks, R!Chosen
  <2>3. ASSUME y \notin missed' PROVE Apart(y[1], y[2])
    <3>1. PICK i \in Invoices, k \in R!Kinds : y = <<i, k>>
      BY <1>1
    <3>2. ASSUME last[i][k] # None PROVE hour - last[i][k] >= R!Spacing(k)
      <4>0. ~R!Logged(i, k) /\ y \notin missed
        BY <1>1, <1>3, <2>3, <3>1 DEF R!Looks
      <4>1. PICK e \in log : e.invoice = i /\ e.kind = k /\ e.hour >= last[i][k]
        BY <1>1, <3>1, <3>2, <4>0, NobodyWrites
      <4>2. ~(e.hour > hour - R!Window(k))
        BY <4>0, <4>1 DEF R!Logged
      <4>3. R!Window(k) = R!Spacing(k) /\ R!Spacing(k) \in Int
        BY DEF R!Window, R!Spacing, Timed
      <4>4. e.hour \in Int /\ hour \in Int /\ last[i][k] \in Int
        BY <3>2, <4>1 DEF Spaced
      <4> QED BY <4>1, <4>2, <4>3, <4>4
    <3> QED BY <3>1, <3>2 DEF Apart
  <2>4. Reminding(x)'
    BY <1>1, <2>1, <2>3 DEF Reminding, Apart
  <2> QED BY <1>1, <2>2, <2>4, RunMoves
<1> QED BY <1>2, <1>3

LEMMA SendsRemind ==
  ASSUME Timed, Spaced, NEW w \in Senders, R!Sends(w)
  PROVE  Spaced'
<1>1. /\ run[w].pc = "send" /\ run[w] # R!Idle
      /\ UNCHANGED <<hour, overdue, log, missed>>
      /\ Reminding(run[w])
  BY DEF R!Sends, R!Idle, R!At, Spaced
<1>2. PICK i \in Invoices, k \in R!Kinds : run[w].item = <<i, k>>
  BY <1>1 DEF Reminding
<1>3. /\ run[w].item[1] = i /\ run[w].item[2] = k
      /\ <<i, k>> \in missed \/ Apart(i, k)
  BY <1>1, <1>2 DEF Reminding
<1>4. last' = [last EXCEPT ![i][k] = hour]
  BY <1>3 DEF R!Sends
<1>5. again' \subseteq missed'
  <2>1. again' = IF last[i][k] # None /\ hour - last[i][k] < R!Spacing(k)
                 THEN again \cup {<<i, k>>} ELSE again
    BY <1>3 DEF R!Sends
  <2>2. <<i, k>> \in missed \/ ~(last[i][k] # None /\ hour - last[i][k] < R!Spacing(k))
    <3>1. last[i][k] \in Nat \cup {None} /\ hour \in Int /\ R!Spacing(k) \in Int
      BY DEF Spaced, R!Spacing, Timed
    <3> QED BY <1>3, <3>1 DEF Apart, Timed
  <2> QED BY <1>1, <2>1, <2>2 DEF Spaced
<1>6. PICK x : x = [pc |-> "log", left |-> run[w].left, item |-> run[w].item,
                    list |-> run[w].list, start |-> run[w].start]
  OBVIOUS
<1>7. run' = [run EXCEPT ![w] = x]
  <2>1. run' = [run EXCEPT ![w].pc = "log"]
    BY DEF R!Sends
  <2>2. [run[w] EXCEPT !.pc = "log"] = x
    BY <1>1, <1>6 DEF Reminding
  <2> QED BY <2>1, <2>2
<1>8. /\ last' \in [Invoices -> [R!Kinds -> Nat \cup {None}]]
      /\ last'[i][k] = hour
      /\ \A j \in Invoices, l \in R!Kinds : <<j, l>> # <<i, k>> => last'[j][l] = last[j][l]
  BY <1>2, <1>4 DEF Spaced
<1>9. Reminding(x)'
  BY <1>1, <1>2, <1>6 DEF Reminding
<1>10. Remembered'
  <2>1. Writing(i, k)'
    <3>1. run'[w] = x
      BY <1>7 DEF Spaced
    <3> QED BY <1>2, <1>6, <3>1 DEF Writing
  <2>2. ASSUME NEW j \in Invoices, NEW l \in R!Kinds, last'[j][l] # None
        PROVE  /\ last'[j][l] <= hour'
               /\ \/ \E e \in log' : e.invoice = j /\ e.kind = l /\ e.hour >= last'[j][l]
                  \/ Writing(j, l)'
                  \/ <<j, l>> \in missed'
    <3>1. CASE <<j, l>> = <<i, k>>
      BY <1>1, <1>8, <2>1, <3>1 DEF Spaced
    <3>2. CASE <<j, l>> # <<i, k>>
      <4>1. last'[j][l] = last[j][l]
        BY <1>8, <3>2
      <4>2. \/ \E e \in log : e.invoice = j /\ e.kind = l /\ e.hour >= last[j][l]
            \/ <<j, l>> \in missed
        BY <1>1, <2>2, <4>1, NobodyWrites
      <4> QED BY <1>1, <2>2, <4>1, <4>2 DEF Spaced, Remembered
    <3> QED BY <3>1, <3>2
  <2> QED BY <2>2 DEF Remembered
<1>11. \A e \in log' : e.hour \in Nat
  BY <1>1 DEF Spaced
<1> QED BY <1>1, <1>5, <1>7, <1>8, <1>9, <1>10, <1>11, RunGoesOn

LEMMA LogReminds ==
  ASSUME Timed, Spaced, NEW w \in Senders, R!LogReminder(w)
  PROVE  Spaced'
<1>1. /\ run[w].pc = "log" /\ run[w] # R!Idle
      /\ UNCHANGED <<hour, overdue, last, again>>
      /\ Reminding(run[w])
  BY DEF R!LogReminder, R!Idle, R!At, Spaced
<1>2. PICK i \in Invoices, k \in R!Kinds : run[w].item = <<i, k>>
  BY <1>1 DEF Reminding
<1>3. PICK entry : entry = [invoice |-> i, kind |-> k, hour |-> hour]
  OBVIOUS
<1>4. /\ log \subseteq log' /\ log' \subseteq log \cup {entry} /\ missed \subseteq missed'
      /\ entry \in log' \/ <<i, k>> \in missed'
  BY <1>2, <1>3 DEF R!LogReminder
<1>5. PICK x : x = R!At(run[w].list, run[w].left, run[w].start)
  OBVIOUS
<1>6. run' = [run EXCEPT ![w] = x]
  BY <1>5 DEF R!LogReminder
<1>7. Reminding(x)'
  BY <1>1, <1>5 DEF Reminding, R!At
<1>8. Remembered'
  <2>1. ASSUME NEW j \in Invoices, NEW l \in R!Kinds, last[j][l] # None
        PROVE  /\ last[j][l] <= hour
               /\ \/ \E e \in log' : e.invoice = j /\ e.kind = l /\ e.hour >= last[j][l]
                  \/ <<j, l>> \in missed'
    <3>1. last[j][l] <= hour
      BY <2>1 DEF Spaced, Remembered
    <3>2. CASE Writing(j, l)
      <4>1. \A v \in Senders : v # w => run[v].pc # "log"
        BY <1>1 DEF Spaced, R!Idle, R!At
      <4>2. <<j, l>> = <<i, k>>
        BY <1>2, <3>2, <4>1 DEF Writing
      <4> QED BY <1>3, <1>4, <3>1, <4>2 DEF Spaced
    <3>3. CASE \E e \in log : e.invoice = j /\ e.kind = l /\ e.hour >= last[j][l]
      BY <1>4, <3>1, <3>3
    <3> QED BY <1>4, <2>1, <3>1, <3>2, <3>3 DEF Spaced, Remembered
  <2> QED BY <1>1, <2>1 DEF Remembered
<1>9. \A e \in log' : e.hour \in Nat
  <2>1. entry.hour \in Nat
    BY <1>3 DEF Spaced, Timed
  <2> QED BY <1>4, <2>1 DEF Spaced
<1> QED BY <1>1, <1>4, <1>6, <1>7, <1>8, <1>9, RunGoesOn DEF Spaced

LEMMA TimeReminds == ASSUME Timed, Spaced, R!Tick PROVE Spaced'
<1>1. /\ hour \in 0..MaxHour /\ hour' = hour + 1 /\ hour' \in 0..MaxHour
      /\ UNCHANGED <<overdue, log, last, again, run, missed>>
  BY DEF R!Tick, Spaced, Timed
<1>2. ASSUME NEW i \in Invoices, NEW k \in R!Kinds, Apart(i, k)
      PROVE  Apart(i, k)'
  <2>1. last[i][k] \in Nat \cup {None} /\ R!Spacing(k) \in Int
    BY DEF Spaced, R!Spacing, Timed
  <2> QED BY <1>1, <1>2, <2>1 DEF Apart, R!Spacing
<1>3. ASSUME NEW v \in Senders PROVE Reminding(run[v])'
  BY <1>1, <1>2 DEF Spaced, Reminding
<1>4. Remembered'
  <2>1. ASSUME NEW i \in Invoices, NEW k \in R!Kinds, last[i][k] # None
        PROVE  last[i][k] <= hour'
    <3>1. last[i][k] \in Nat /\ last[i][k] <= hour
      <4>1. last[i][k] \in Nat
        BY <2>1 DEF Spaced
      <4>2. last[i][k] <= hour
        BY <2>1 DEF Spaced, Remembered
      <4> QED BY <4>1, <4>2
    <3> QED BY <1>1, <3>1
  <2> QED BY <1>1, <2>1 DEF Spaced, Remembered, Writing
<1>5. overdue' # {} => hour' > DueAt
  BY <1>1 DEF Spaced, Timed
<1> QED BY <1>1, <1>3, <1>4, <1>5 DEF Spaced

LEMMA RemindersKeepSerial == ASSUME R!Next PROVE serial' = serial
<1>1. ASSUME NEW w \in Senders, R!Work(w) PROVE serial' = serial
  <2>1. CASE R!ListsDueSoon(w) \/ R!ListsOverdue(w)
    BY <2>1, Zenon DEF R!ListsDueSoon, R!ListsOverdue
  <2>2. CASE R!BulkSendOverdueReminders(w) \/ R!Ends(w)
    BY <2>2, Zenon DEF R!BulkSendOverdueReminders, R!Ends
  <2>3. CASE \E y \in run[w].left : R!Looks(w, y) \/ R!PassesOver(w, y)
    BY <2>3, Zenon DEF R!Looks, R!PassesOver
  <2>4. CASE R!Sends(w) \/ R!LogReminder(w)
    BY <2>4, Zenon DEF R!Sends, R!LogReminder
  <2> QED BY <1>1, <2>1, <2>2, <2>3, <2>4, Zenon DEF R!Work
<1>2. CASE \E i \in Invoices : R!Pays(i)
  BY <1>2, Zenon DEF R!Pays
<1>3. CASE R!MarkOverdueInvoices \/ R!Tick \/ R!Crash
  BY <1>3, Zenon DEF R!MarkOverdueInvoices, R!Tick, R!Crash
<1> QED BY <1>1, <1>2, <1>3, Zenon DEF R!Next

(* A crash: what was sent and is not logged is missed. *)
LEMMA CrashReminds == ASSUME Timed, Spaced, R!Crash PROVE Spaced'
<1>1. /\ UNCHANGED <<hour, overdue, log, last, again>>
      /\ run' = [w \in Senders |-> R!Idle]
      /\ \A w \in Senders : run[w].pc = "log" => run[w].item \in missed'
      /\ missed \subseteq missed'
  BY DEF R!Crash
<1>2. Remembered'
  <2>1. ASSUME NEW i \in Invoices, NEW k \in R!Kinds, Writing(i, k) PROVE <<i, k>> \in missed'
    BY <1>1, <2>1 DEF Writing
  <2> QED BY <1>1, <2>1 DEF Spaced, Remembered
<1>3. \A w \in Senders : Reminding(run[w])'
  BY <1>1, IdleReminds
<1> QED BY <1>1, <1>2, <1>3 DEF Spaced

LEMMA RemindsStands ==
  ASSUME Timed, Reminds, R!Next
  PROVE  Reminds'
<1> SUFFICES ASSUME serial' PROVE Spaced'
  BY DEF Reminds
<1>0. serial /\ Spaced
  BY RemindersKeepSerial DEF Reminds
<1>1. ASSUME NEW w \in Senders, R!Work(w) PROVE Spaced'
  <2>1. CASE R!LogReminder(w)
    BY <1>0, <2>1, LogReminds
  <2>2. CASE R!ListsDueSoon(w) \/ R!ListsOverdue(w) \/ R!BulkSendOverdueReminders(w) \/ R!Ends(w)
    BY <1>0, <2>2, ListsRemind
  <2>3. CASE \E y \in run[w].left : R!Looks(w, y) \/ R!PassesOver(w, y)
    BY <1>0, <2>3, LooksRemind
  <2>4. CASE R!Sends(w)
    BY <1>0, <2>4, SendsRemind
  <2> QED BY <1>1, <2>1, <2>2, <2>3, <2>4 DEF R!Work
<1>2. ASSUME R!MarkOverdueInvoices \/ \E i \in Invoices : R!Pays(i) PROVE Spaced'
  <2>1. /\ UNCHANGED <<hour, log, last, again, run, missed>>
        /\ overdue' = overdue \/ (hour > DueAt /\ overdue' = overdue \cup (Invoices \ paid))
    BY <1>2 DEF R!MarkOverdueInvoices, R!Pays
  <2>2. Remembered'
    BY <1>0, <2>1 DEF Spaced, Remembered, Writing
  <2>3. \A v \in Senders : Reminding(run[v])'
    BY <1>0, <2>1 DEF Spaced, Reminding, Apart
  <2> QED BY <1>0, <2>1, <2>2, <2>3 DEF Spaced
<1>3. ASSUME R!Tick PROVE Spaced'
  BY <1>0, <1>3, TimeReminds
<1>4. ASSUME R!Crash PROVE Spaced'
  BY <1>0, <1>4, CrashReminds
<1> QED BY <1>1, <1>2, <1>3, <1>4 DEF R!Next

LEMMA RemindsIsSpaced == Reminds => R!RemindedOnce
BY DEF Reminds, Spaced, R!RemindedOnce

LEMMA RecursKeepSerial == ASSUME I!Next PROVE serial' = serial
<1>1. CASE \E w \in Workers : I!Process(w)
  <2>1. PICK w \in Workers : I!Process(w)
    BY <1>1
  <2>2. CASE I!Lists(w) \/ \E item \in work[w].todo : I!Numbers(w, item)
    BY <2>2, Zenon DEF I!Lists, I!Numbers
  <2>3. CASE I!Creates(w) \/ I!Advances(w)
    BY <2>3, Zenon DEF I!Creates, I!Advances
  <2> QED BY <2>1, <2>2, <2>3, Zenon DEF I!Process
<1>2. ASSUME NEW r \in Requests, NEW t \in Tenants,
             I!EnableRecurring(r, t) \/ I!DisableRecurring(r, t) \/ I!ReadsRow(r, t)
      PROVE  serial' = serial
  BY <1>2, Zenon DEF I!EnableRecurring, I!DisableRecurring, I!ReadsRow
<1>3. ASSUME NEW r \in Requests, I!SavesRow(r) PROVE serial' = serial
  BY <1>3, Zenon DEF I!SavesRow
<1>4. CASE \E t \in Tenants : I!CreatesOther(t) \/ I!DeleteInvoice(t)
  BY <1>4, Zenon DEF I!CreatesOther, I!DeleteInvoice
<1>5. CASE I!Tick \/ I!Crash
  BY <1>5, Zenon DEF I!Tick, I!Crash
<1> QED BY <1>1, <1>2, <1>3, <1>4, <1>5, Zenon DEF I!Next

LEMMA RecursRests == ASSUME Recurs, UNCHANGED <<recurring, serial>> PROVE Recurs'
<1>1. UNCHANGED I!vars
  BY Zenon DEF recurring, I!vars
<1> QED BY <1>1, RecursStands

LEMMA RemindsRests == ASSUME Reminds, UNCHANGED <<reminders, serial>> PROVE Reminds'
<1>1. UNCHANGED <<hour, overdue, log, last, again, run, missed>>
  BY DEF reminders
<1>2. ASSUME serial' PROVE Spaced'
  <2>1. Spaced
    BY <1>2 DEF Reminds
  <2>2. Remembered'
    BY <1>1, <2>1 DEF Spaced, Remembered, Writing
  <2>3. \A v \in Senders : Reminding(run[v])'
    BY <1>1, <2>1 DEF Spaced, Reminding, Apart
  <2> QED BY <1>1, <2>1, <2>2, <2>3 DEF Spaced
<1> QED BY <1>2 DEF Reminds

(* No period is invoiced twice, and no reminder comes again too soon, of   *)
(* however many tenants, workers and invoices, over however many days, as  *)
(* long as what the property excepts does not happen.                      *)
THEOREM NothingComesTwice == JobsSpec => []NothingTwice
<1>0. Timed
  BY TimesAssumption DEF Timed
<1>1. JobsInit => Recurs /\ Reminds
  BY <1>0, RecursStarts, RemindsStarts DEF JobsInit
<1>2. Recurs /\ Reminds /\ [JobsNext]_<<job, vars, recurring, serial, reminders, pdfs, automations, preferences>>
      => Recurs' /\ Reminds'
  <2> SUFFICES ASSUME Recurs, Reminds,
                      [JobsNext]_<<job, vars, recurring, serial, reminders, pdfs, automations, preferences>>
               PROVE  Recurs' /\ Reminds'
    OBVIOUS
  <2>1. CASE UNCHANGED <<recurring, serial, reminders>>
    BY <1>0, <2>1, RecursRests, RemindsRests
  <2>2. CASE RecurringStep /\ I!Next
    <3>1. UNCHANGED reminders /\ serial' = serial
      BY <2>2, RecursKeepSerial, Zenon DEF RecurringStep
    <3> QED BY <1>0, <2>2, <3>1, RecursStands, RemindsRests
  <2>3. CASE RemindersStep /\ R!Next
    <3>1. UNCHANGED recurring /\ serial' = serial
      BY <2>3, RemindersKeepSerial, Zenon DEF RemindersStep
    <3> QED BY <1>0, <2>3, <3>1, RemindsStands, RecursRests
  <2>4. CASE NotificationsStep \/ PDFStep \/ AutomationsStep \/ PreferencesStep
    BY <2>1, <2>4, Zenon DEF NotificationsStep, PDFStep, AutomationsStep, PreferencesStep
  <2> QED BY <2>1, <2>2, <2>3, <2>4, Zenon DEF JobsNext
<1>3. Recurs /\ Reminds => NothingTwice
  BY RecursIsOnce, RemindsIsSpaced DEF NothingTwice
<1> QED BY <1>1, <1>2, <1>3, PTL DEF JobsSpec

-----------------------------------------------------------------------------
(* Preferences.  A request that goes on knows of the row of its event, and *)
(* a notification read a row that grants no more than the wish last stored, *)
(* unless two requests for one event crossed.                              *)
Choosing(x) ==
  /\ x = [at |-> x.at, event |-> x.event, wish |-> x.wish, id |-> x.id]
  /\ x.at \in {"new", "again", "save", "create", "done"}
  /\ x.at \in {"again", "save", "create"} => x.event \in Events /\ x.wish \in Wishes
  /\ x.at = "save" => x.id \in P!Of(x.event)
  /\ x.event \notin amiss => /\ (x.at = "create" => P!Of(x.event) = {})
                            /\ (x.at = "save" => P!Of(x.event) = {x.id})

Granted(w) == IF w.first THEN P!Defaulted(w.of) ELSE w.of

Standing(e) ==
  IF wish[e] = None
  THEN P!Of(e) = {}
  ELSE \E i \in Ids : P!Of(e) = {i} /\ rows[i] = P!Stored(e, Granted(wish[e]))

Sending(s) ==
  LET x == send[s]
      mine == {p \in x.read : p[2].event = x.event}
  IN /\ x = [at |-> x.at, event |-> x.event, read |-> x.read, todo |-> x.todo, wish |-> x.wish]
     /\ x.at = "new" => queued[s] = {}
     /\ x.wish # None =>
          /\ mine # {}
          /\ \A p \in mine : p[2].on \subseteq Granted(x.wish).on

Preferring ==
  /\ rows \in [Ids -> Preference \cup {None}]
  /\ wish \in [Events -> [of: Wishes, first: BOOLEAN] \cup {None}]
  /\ clock \in Hours
  /\ change = [r \in Workers |-> change[r]]
  /\ send = [s \in Senders |-> send[s]]
  /\ queued = [s \in Senders |-> queued[s]]
  /\ \A r \in Workers : Choosing(change[r])
  /\ \A e \in Events \ amiss : Standing(e)
  /\ \A s \in Senders : Sending(s)
  /\ P!SwitchedOffIsSilent
  /\ P!QuietIsQuiet

LEMMA Smallest ==
  ASSUME NEW S, S \subseteq Nat, S # {}
  PROVE  \E x \in S : \A y \in S : x <= y
<1>1. PICK less : less = OpToRel(<, Nat)
  OBVIOUS
<1>2. IsWellFoundedOn(less, Nat)
  BY <1>1, NatLessThanWellFounded
<1>3. PICK x \in S : \A y \in S : ~(<<y, x>> \in less)
  BY <1>2, WFMin
<1>4. \A y \in S : y < x => <<y, x>> \in less
  BY <1>1 DEF OpToRel
<1>5. \A y \in S : ~(y < x)
  BY <1>3, <1>4, Zenon
<1>6. \A a, b \in Nat : ~(b < a) => a <= b
  OBVIOUS
<1> QED BY <1>5, <1>6, Zenon

LEMMA FirstIsOf ==
  ASSUME NEW e
  PROVE  IF P!Of(e) = {} THEN P!First(e) = None ELSE P!First(e) # None /\ P!First(e) \in P!Of(e)
<1>1. CASE P!Of(e) = {}
  BY <1>1 DEF P!First
<1>2. CASE P!Of(e) # {}
  <2>1. P!Of(e) \subseteq Nat
    BY IdsAssumption DEF P!Of
  <2>2. \E i \in P!Of(e) : \A j \in P!Of(e) : i <= j
    BY <1>2, <2>1, Smallest
  <2>3. P!First(e) = CHOOSE i \in P!Of(e) : \A j \in P!Of(e) : i <= j
    BY <1>2 DEF P!First
  <2>4. P!First(e) \in P!Of(e)
    BY <2>2, <2>3
  <2> QED BY <1>2, <2>1, <2>4, TimesAssumption
<1> QED BY <1>1, <1>2

LEMMA PrefersStarts == ASSUME P!Init PROVE Preferring
<1>1. \A r \in Workers : change[r] = P!NotYet /\ Choosing(change[r])
  BY DEF P!Init, P!NotYet, Choosing
<1>2. \A e \in Events : Standing(e)
  BY DEF P!Init, Standing, P!Of
<1>3. \A s \in Senders : Sending(s)
  BY DEF P!Init, P!Unsent, Sending
<1>4. clock \in Hours
  BY LastAssumption DEF P!Init, Hours
<1>5. P!SwitchedOffIsSilent /\ P!QuietIsQuiet
  BY DEF P!Init, P!SwitchedOffIsSilent, P!QuietIsQuiet
<1> QED BY <1>1, <1>2, <1>3, <1>4, <1>5 DEF P!Init, Preferring

(* Requests that store nothing. *)
LEMMA ChoicesGoOn ==
  ASSUME Preferring, NEW r \in Workers, NEW x, change' = [change EXCEPT ![r] = x], Choosing(x)',
         UNCHANGED <<rows, clock, send, queued, wish>>, amiss \subseteq amiss'
  PROVE  Preferring'
<1>2. ASSUME NEW q \in Workers PROVE Choosing(change[q])'
  <2>1. change'[q] = IF q = r THEN x ELSE change[q]
    BY DEF Preferring
  <2>2. CASE q # r
    BY <2>1, <2>2 DEF Preferring, Choosing, P!Of
  <2> QED BY <2>1, <2>2
<1>3. change' = [q \in Workers |-> change'[q]]
  BY DEF Preferring
<1>4. \A e \in Events \ amiss' : Standing(e)'
  BY DEF Preferring, Standing, P!Of
<1>5. \A s \in Senders : Sending(s)'
  BY DEF Preferring, Sending
<1>6. P!SwitchedOffIsSilent' /\ P!QuietIsQuiet'
  BY DEF Preferring, P!SwitchedOffIsSilent, P!QuietIsQuiet, P!Within
<1> QED BY <1>2, <1>3, <1>4, <1>5, <1>6 DEF Preferring

LEMMA ChoosesPreference ==
  ASSUME Preferring, NEW r \in Workers,
         \/ P!SetPreference(r) \/ P!FailsToStore(r)
         \/ \E e \in Events, w \in Wishes : P!UpdatePreferences(r, e, w)
  PROVE  Preferring'
<1>1. UNCHANGED <<rows, clock, send, queued, wish>> /\ amiss \subseteq amiss'
  BY DEF P!SetPreference, P!UpdatePreferences, P!FailsToStore
<1>2. ASSUME NEW e \in Events, e \notin amiss, P!Of(e) # {}
      PROVE  P!Of(e) = {P!First(e)}
  BY <1>2, FirstIsOf DEF Preferring, Standing
<1>3. ASSUME NEW e \in Events, NEW w \in Wishes, P!UpdatePreferences(r, e, w)
      PROVE  Preferring'
  <2>1. PICK i \in {P!First(e), None} :
             change' = [change EXCEPT ![r] = [at |-> IF i = None THEN "again" ELSE "save",
                                              event |-> e, wish |-> w, id |-> i]]
    BY <1>3 DEF P!UpdatePreferences, P!Goes
  <2>2. PICK x : x = [at |-> IF i = None THEN "again" ELSE "save", event |-> e, wish |-> w, id |-> i]
    OBVIOUS
  <2>3. UNCHANGED <<rows, amiss>>
    BY <1>3 DEF P!UpdatePreferences
  <2>4. Choosing(x)'
    BY <1>2, <2>1, <2>2, <2>3, FirstIsOf DEF Choosing, P!Of
  <2> QED BY <1>1, <2>1, <2>2, <2>4, ChoicesGoOn
<1>4. CASE P!SetPreference(r)
  <2>1. /\ Choosing(change[r]) /\ change[r].at = "again"
        /\ change[r].event \in Events /\ change[r].wish \in Wishes
    BY <1>4 DEF Preferring, P!SetPreference, Choosing
  <2>2. PICK f : f = P!First(change[r].event)
    OBVIOUS
  <2>3. PICK i \in {f, None} :
          /\ change' = [change EXCEPT ![r] = [at |-> IF i = None THEN "create" ELSE "save",
                                              event |-> change[r].event, wish |-> change[r].wish, id |-> i]]
          /\ i = f \/ change[r].event \in amiss'
    BY <1>4, <2>2 DEF P!SetPreference, P!Goes
  <2>4. PICK x : x = [at |-> IF i = None THEN "create" ELSE "save",
                      event |-> change[r].event, wish |-> change[r].wish, id |-> i]
    OBVIOUS
  <2>5. rows' = rows
    BY <1>4 DEF P!SetPreference
  <2>6. Choosing(x)'
    BY <1>1, <1>2, <2>1, <2>2, <2>3, <2>4, <2>5, FirstIsOf DEF Choosing, P!Of
  <2> QED BY <1>1, <2>3, <2>4, <2>6, ChoicesGoOn
<1>5. CASE P!FailsToStore(r)
  <2>1. PICK z : z = change[r]
    OBVIOUS
  <2>2. Choosing(z)
    BY <2>1 DEF Preferring
  <2>3. PICK x : x = [at |-> "done", event |-> z.event, wish |-> z.wish, id |-> z.id]
    OBVIOUS
  <2>4. x = [z EXCEPT !.at = "done"] /\ Choosing(x)'
    BY <2>2, <2>3 DEF Choosing
  <2>5. change' = [change EXCEPT ![r] = x]
    BY <1>5, <2>1, <2>4 DEF P!FailsToStore, P!Goes
  <2> QED BY <1>1, <2>4, <2>5, ChoicesGoOn
<1> QED BY <1>3, <1>4, <1>5

(* Storing the wish of a request: the row of its event is the one it found, *)
(* or none was there, unless another request for the event is under way,   *)
(* too, and is now known to have crossed it.                               *)
Storing(r, e, i, x, v, y) ==
  /\ r \in Workers /\ e \in Events /\ i \in Ids /\ x \in Preference
  /\ v \in [of: Wishes, first: BOOLEAN]
  /\ change[r].at \in {"save", "create"} /\ change[r].event = e
  /\ rows[i] = None \/ rows[i].event = e
  /\ e \notin amiss => P!Of(e) \subseteq {i}
  /\ x = P!Stored(e, Granted(v))
  /\ y.at = "done" /\ Choosing(y)'
  /\ rows' = [rows EXCEPT ![i] = x]
  /\ wish' = [wish EXCEPT ![e] = v]
  /\ amiss' = IF P!Crossed(e) THEN amiss \cup {e} ELSE amiss
  /\ change' = [change EXCEPT ![r] = y]
  /\ UNCHANGED <<clock, send, queued>>

LEMMA PreferenceStored ==
  ASSUME Preferring, NEW r, NEW e, NEW i, NEW x, NEW v, NEW y, Storing(r, e, i, x, v, y)
  PROVE  Preferring'
<1> USE DEF Storing
<1>1. /\ rows' \in [Ids -> Preference \cup {None}]
      /\ rows'[i] = x /\ x # None /\ x.event = e
      /\ \A j \in Ids : j # i => rows'[j] = rows[j]
  BY WishesAssumption DEF Preferring, P!Stored
<1>2. /\ wish' \in [Events -> [of: Wishes, first: BOOLEAN] \cup {None}]
      /\ wish'[e] = v /\ v # None
      /\ \A f \in Events : f # e => wish'[f] = wish[f]
  BY WishesAssumption DEF Preferring
<1>3. /\ change' = [q \in Workers |-> change'[q]]
      /\ \A q \in Workers : change'[q] = IF q = r THEN y ELSE change[q]
  BY DEF Preferring
<1>4. \A f : f # e => P!Of(f)' = P!Of(f)
  BY <1>1 DEF P!Of
<1>5. P!Of(e)' = P!Of(e) \cup {i}
  BY <1>1 DEF P!Of
<1>6. ASSUME NEW f \in Events \ amiss' PROVE Standing(f)'
  <2>1. f \in Events \ amiss
    OBVIOUS
  <2>2. CASE f = e
    BY <1>1, <1>2, <1>5, <2>1, <2>2 DEF Standing
  <2>3. CASE f # e
    <3>1. Standing(f) /\ wish'[f] = wish[f] /\ P!Of(f)' = P!Of(f)
      BY <1>2, <1>4, <2>1, <2>3 DEF Preferring
    <3>2. \A j \in P!Of(f) : rows'[j] = rows[j]
      BY <1>1, <2>3 DEF P!Of
    <3> QED BY <3>1, <3>2 DEF Standing
  <2> QED BY <2>2, <2>3
<1>7. ASSUME NEW q \in Workers PROVE Choosing(change[q])'
  <2>1. PICK z : z = change[q]
    OBVIOUS
  <2>2. Choosing(z)
    BY <2>1 DEF Preferring
  <2>3. CASE q # r
    <3>1. ASSUME z.at \in {"again", "save", "create"}, z.event = e PROVE e \in amiss'
      BY <2>1, <2>3, <3>1 DEF P!Crossed
    <3>2. amiss \subseteq amiss'
      OBVIOUS
    <3>3. Choosing(z)'
      BY <1>4, <1>5, <2>2, <3>1, <3>2 DEF Choosing
    <3> QED BY <1>3, <2>1, <2>3, <3>3
  <2> QED BY <1>3, <2>3
<1>8. \A s \in Senders : Sending(s)'
  BY DEF Preferring, Sending, Granted, P!Defaulted
<1>9. P!SwitchedOffIsSilent' /\ P!QuietIsQuiet'
  BY DEF Preferring, P!SwitchedOffIsSilent, P!QuietIsQuiet, P!Within
<1> QED BY <1>1, <1>2, <1>3, <1>6, <1>7, <1>8, <1>9 DEF Preferring

LEMMA GrantedIsStored ==
  ASSUME NEW e \in Events, NEW w \in Wishes
  PROVE  /\ P!Stored(e, w) \in Preference
         /\ P!Stored(e, P!Defaulted(w)) \in Preference
<1>1. /\ w \in Wish
      /\ w = [on |-> w.on, enabled |-> w.enabled, from |-> w.from, until |-> w.until]
  BY WishesAssumption DEF Wish
<1>2. P!Stored(e, w) \in Preference
  BY <1>1 DEF P!Stored, Preference, Wish
<1>3. P!Defaulted(w) = [on |-> w.on \cup {"email"}, enabled |-> TRUE, from |-> w.from, until |-> w.until]
  BY <1>1 DEF P!Defaulted
<1>4. P!Stored(e, P!Defaulted(w)) \in Preference
  BY <1>1, <1>3 DEF P!Stored, Preference, Wish
<1> QED BY <1>2, <1>4

LEMMA StoresPreference ==
  ASSUME Preferring, NEW r \in Workers, P!SavePreference(r) \/ P!CreatePreference(r)
  PROVE  Preferring'
<1>1. PICK z : z = change[r]
  OBVIOUS
<1>2. Choosing(z) /\ z.at \in {"save", "create"} /\ z.event \in Events /\ z.wish \in Wishes
  BY <1>1 DEF Preferring, Choosing, P!SavePreference, P!CreatePreference
<1>3. PICK y : y = [z EXCEPT !.at = "done"]
  OBVIOUS
<1>4. y = [at |-> "done", event |-> z.event, wish |-> z.wish, id |-> z.id]
  BY <1>2, <1>3 DEF Choosing
<1>5. Choosing(y)'
  BY <1>4 DEF Choosing
<1>6. /\ change' = [change EXCEPT ![r] = y]
      /\ amiss' = IF P!Crossed(z.event) THEN amiss \cup {z.event} ELSE amiss
      /\ UNCHANGED <<clock, send, queued>>
  BY <1>1, <1>3 DEF P!SavePreference, P!CreatePreference, P!Ends, P!Goes
<1>7. CASE P!SavePreference(r)
  <2>1. PICK v : v = [of |-> z.wish, first |-> FALSE]
    OBVIOUS
  <2>2. v \in [of: Wishes, first: BOOLEAN] /\ Granted(v) = z.wish
    BY <1>2, <2>1 DEF Granted
  <2>3. z.at = "save" /\ z.id \in Ids /\ rows[z.id].event = z.event
    BY <1>1, <1>2, <1>7 DEF P!SavePreference, Choosing, P!Of
  <2>4. PICK x : x = P!Stored(z.event, z.wish)
    OBVIOUS
  <2>5. rows' = [rows EXCEPT ![z.id] = x] /\ wish' = [wish EXCEPT ![z.event] = v]
    BY <1>1, <1>7, <2>1, <2>4 DEF P!SavePreference, P!Saved, P!Ends
  <2>6. x \in Preference /\ x = P!Stored(z.event, Granted(v))
    BY <1>2, <2>2, <2>4, GrantedIsStored
  <2>7. z.event \notin amiss => P!Of(z.event) \subseteq {z.id}
    BY <1>2, <2>3 DEF Choosing
  <2>8. Storing(r, z.event, z.id, x, v, y)
    BY <1>1, <1>2, <1>4, <1>5, <1>6, <2>2, <2>3, <2>5, <2>6, <2>7 DEF Storing
  <2> QED BY <2>8, PreferenceStored
<1>8. CASE P!CreatePreference(r)
  <2>1. PICK v : v = [of |-> z.wish, first |-> TRUE]
    OBVIOUS
  <2>2. v \in [of: Wishes, first: BOOLEAN] /\ Granted(v) = P!Defaulted(z.wish)
    BY <1>2, <2>1 DEF Granted
  <2>3. PICK x : x = P!Stored(z.event, P!Defaulted(z.wish))
    OBVIOUS
  <2>4. PICK i \in Ids : rows[i] = None /\ rows' = [rows EXCEPT ![i] = x]
    BY <1>1, <1>8, <2>3 DEF P!CreatePreference
  <2>5. z.at = "create" /\ wish' = [wish EXCEPT ![z.event] = v]
    BY <1>1, <1>8, <2>1 DEF P!CreatePreference, P!Ends
  <2>6. x \in Preference /\ x = P!Stored(z.event, Granted(v))
    BY <1>2, <2>2, <2>3, GrantedIsStored
  <2>7. z.event \notin amiss => P!Of(z.event) \subseteq {i}
    BY <1>2, <2>5 DEF Choosing
  <2>8. Storing(r, z.event, i, x, v, y)
    BY <1>1, <1>2, <1>4, <1>5, <1>6, <2>2, <2>4, <2>5, <2>6, <2>7 DEF Storing
  <2> QED BY <2>8, PreferenceStored
<1> QED BY <1>7, <1>8

(* A notification goes on. *)
LEMMA SendGoesOn ==
  ASSUME Preferring, NEW s \in Senders, NEW x, send' = [send EXCEPT ![s] = x],
         UNCHANGED <<rows, change, wish, amiss>>, clock' \in Hours,
         queued' = [t \in Senders |-> queued'[t]],
         \A t \in Senders : t # s => queued'[t] = queued[t],
         Sending(s)',
         \A m \in queued'[s] : x.wish # None => m.channel \in Granted(x.wish).on,
         P!QuietIsQuiet'
  PROVE  Preferring'
<1>1. /\ send' = [t \in Senders |-> send'[t]]
      /\ \A t \in Senders : send'[t] = IF t = s THEN x ELSE send[t]
  BY DEF Preferring
<1>2. ASSUME NEW t \in Senders PROVE Sending(t)'
  <2>1. CASE t # s
    BY <1>1, <2>1 DEF Preferring, Sending
  <2> QED BY <2>1
<1>3. P!SwitchedOffIsSilent'
  <2>1. ASSUME NEW t \in Senders, NEW m \in queued'[t], send'[t].wish # None
        PROVE  m.channel \in send'[t].wish.of.on \/ (send'[t].wish.first /\ m.channel = "email")
    <3>1. CASE t = s
      BY <1>1, <2>1, <3>1 DEF Granted, P!Defaulted
    <3>2. CASE t # s
      BY <1>1, <2>1, <3>2 DEF Preferring, P!SwitchedOffIsSilent
    <3> QED BY <3>1, <3>2
  <2> QED BY <2>1 DEF P!SwitchedOffIsSilent
<1>4. \A r \in Workers : Choosing(change[r])'
  BY DEF Preferring, Choosing, P!Of
<1>5. \A e \in Events \ amiss' : Standing(e)'
  BY DEF Preferring, Standing, P!Of
<1> QED BY <1>1, <1>2, <1>3, <1>4, <1>5 DEF Preferring

LEMMA SendReads ==
  ASSUME Preferring, NEW s \in Senders, NEW e \in Events, P!Send(s, e)
  PROVE  Preferring'
<1>0. PICK read, todo, known :
           /\ P!Begins(s, e, read, todo, known)
           /\ known = None \/ (read = P!Rows /\ e \notin amiss /\ known = wish[e])
  BY DEF P!Send
<1>1. PICK x : x = [at |-> "show", event |-> e, read |-> {<<i, rows[i]>> : i \in read},
                    todo |-> todo, wish |-> known]
  OBVIOUS
<1>2. /\ send[s] = P!Unsent /\ send' = [send EXCEPT ![s] = x]
      /\ UNCHANGED <<rows, clock, change, queued, wish, amiss>>
  BY <1>0, <1>1 DEF P!Send, P!Begins
<1>3. queued[s] = {}
  BY <1>2 DEF Preferring, Sending, P!Unsent
<1>4. send'[s] = x
  BY <1>2 DEF Preferring
<1>5. ASSUME x.wish # None
      PROVE  LET mine == {p \in x.read : p[2].event = e}
             IN mine # {} /\ \A p \in mine : p[2].on \subseteq Granted(x.wish).on
  <2>1. e \notin amiss /\ x.wish = wish[e] /\ Standing(e) /\ read = {j \in Ids : rows[j] # None}
    BY <1>0, <1>1, <1>5 DEF Preferring, P!Rows
  <2>2. PICK i \in Ids : P!Of(e) = {i} /\ rows[i] = P!Stored(e, Granted(x.wish))
    BY <1>5, <2>1 DEF Standing
  <2>3. i \in {j \in Ids : rows[j] # None} /\ rows[i].event = e
    BY <2>2 DEF P!Of
  <2>4. \A p \in x.read : \E j \in Ids : p = <<j, rows[j]>> /\ rows[j] # None
    BY <1>1, <2>1
  <2>5. \A p \in x.read : p[2].event = e => p[2] = rows[i]
    BY <2>2, <2>4 DEF P!Of
  <2>6. <<i, rows[i]>> \in x.read
    BY <1>1, <2>1, <2>3
  <2>7. rows[i].on = Granted(x.wish).on
    BY <2>2 DEF P!Stored
  <2> QED BY <2>3, <2>5, <2>6, <2>7
<1>6. Sending(s)'
  <2>1. x = [at |-> x.at, event |-> x.event, read |-> x.read, todo |-> x.todo, wish |-> x.wish]
    BY <1>1
  <2>2. x.at = "show" /\ x.event = e
    BY <1>1
  <2> QED BY <1>4, <1>5, <2>1, <2>2, Zenon DEF Sending
<1>7. P!QuietIsQuiet'
  BY <1>2 DEF Preferring, P!QuietIsQuiet, P!Within
<1> QED BY <1>2, <1>3, <1>6, <1>7, SendGoesOn DEF Preferring

LEMMA NotificationShown ==
  ASSUME Preferring, NEW s \in Senders, P!CreateInAppNotification(s)
  PROVE  Preferring'
<1>1. PICK z : z = send[s]
  OBVIOUS
<1>2. z.at = "show" /\ z = [at |-> z.at, event |-> z.event, read |-> z.read, todo |-> z.todo, wish |-> z.wish]
  BY <1>1 DEF Preferring, Sending, P!CreateInAppNotification
<1>3. PICK x : x = [at |-> "channels", event |-> z.event, read |-> z.read, todo |-> z.todo, wish |-> z.wish]
  OBVIOUS
<1>4. [z EXCEPT !.at = "channels"] = x
  BY <1>2, <1>3
<1>5. /\ send' = [send EXCEPT ![s] = x]
      /\ UNCHANGED <<rows, clock, change, queued, wish, amiss>>
  BY <1>1, <1>4 DEF P!CreateInAppNotification
<1>6. send'[s] = x
  BY <1>5 DEF Preferring
<1>7. Sending(s)'
  BY <1>1, <1>2, <1>3, <1>5, <1>6 DEF Preferring, Sending
<1>8. \A m \in queued'[s] : x.wish # None => m.channel \in Granted(x.wish).on
  BY <1>1, <1>3, <1>5 DEF Preferring, P!SwitchedOffIsSilent, Granted, P!Defaulted
<1>9. P!QuietIsQuiet'
  BY <1>5 DEF Preferring, P!QuietIsQuiet, P!Within
<1> QED BY <1>5, <1>7, <1>8, <1>9, SendGoesOn DEF Preferring

(* Hours of quiet, told as the code does, are those between the two hours. *)
LEMMA WithinIsQuiet ==
  ASSUME NEW h \in Hours, NEW f \in Hours, NEW u \in Hours, P!Within(h, f, u),
         NEW pref, pref.from = P!Text(f), pref.until = P!Text(u)
  PROVE  P!Quiet(pref, h)
<1>1. PICK n : n = Last
  OBVIOUS
<1>2. n \in Nat \ {0} /\ Hours = 0..(n - 1)
  BY <1>1, LastAssumption DEF Hours
<1>3. PICK a \in 0..(n - 1), b \in 0..(n - 1) : a = f /\ b = u
  BY <1>2
<1>4. (h - a + n) % n < (b - a + n) % n
  <2>1. h \in Int /\ a \in Int /\ b \in Int /\ n \in Int
    BY <1>2
  <2> QED BY <1>1, <1>3, <2>1 DEF P!Within
<1>5. ASSUME NEW k \in 0..(n - 1) PROVE (k - a + n) % n = IF k >= a THEN k - a ELSE k - a + n
  <2>1. \A m \in Nat \ {0}, x \in Int : 0 <= x /\ x < 2 * m => x % m = IF x < m THEN x ELSE x - m
    OBVIOUS
  <2>2. PICK x : x = k - a + n
    OBVIOUS
  <2>3. x \in Int /\ 0 <= x /\ x < 2 * n
    BY <1>2, <2>2
  <2>4. x % n = IF x < n THEN x ELSE x - n
    BY <1>2, <2>1, <2>3
  <2> QED BY <1>2, <2>2, <2>4
<1>6. h \in 0..(n - 1)
  BY <1>2
<1>7. IF a > b THEN h >= a \/ h < b ELSE h >= a /\ h < b
  <2>1. PICK x : x = (h - a + n) % n
    OBVIOUS
  <2>2. PICK y : y = (b - a + n) % n
    OBVIOUS
  <2>3. x = (IF h >= a THEN h - a ELSE h - a + n) /\ y = (IF b >= a THEN b - a ELSE b - a + n)
    BY <1>5, <1>6, <2>1, <2>2
  <2>4. x < y
    BY <1>4, <2>1, <2>2
  <2> QED BY <1>2, <1>6, <2>3, <2>4
<1>8. \A x, y \in Int : (2 * x + 1 > 2 * y + 1 <=> x > y) /\ (2 * x + 1 >= 2 * y + 1 <=> x >= y)
                         /\ (2 * x + 1 < 2 * y + 1 <=> x < y)
  OBVIOUS
<1>9. h \in Int /\ a \in Int /\ b \in Int /\ pref.from = 2 * a + 1 /\ pref.until = 2 * b + 1
  BY <1>2, <1>3 DEF P!Text
<1> QED BY <1>7, <1>8, <1>9 DEF P!Quiet, P!Text

(* What goes out goes out at an hour no wish last stored wants quiet. *)
LEMMA HourIsNotQuiet ==
  ASSUME Preferring, ~P!IsQuietHours, NEW e \in Events \ amiss, wish[e] # None,
         wish[e].of.enabled \/ wish[e].first,
         NEW f \in Hours, NEW u \in Hours, wish[e].of.from = P!Text(f), wish[e].of.until = P!Text(u)
  PROVE  ~P!Within(clock, f, u)
<1>1. PICK w \in [of: Wishes, first: BOOLEAN] : w = wish[e]
  BY DEF Preferring
<1>2. PICK i \in Ids : P!Of(e) = {i} /\ rows[i] = P!Stored(e, Granted(w))
  BY <1>1 DEF Preferring, Standing
<1>3. w.of.from # None /\ w.of.until # None
  <2>1. P!Text(f) \in Nat /\ P!Text(u) \in Nat
    BY DEF P!Text, Hours
  <2> QED BY <1>1, <2>1, TimesAssumption
<1>4. rows[i] # None /\ rows[i].from = w.of.from /\ rows[i].until = w.of.until
  <2>1. Granted(w).from = w.of.from /\ Granted(w).until = w.of.until
    <3>1. CASE w.first
      BY <3>1 DEF Granted, P!Defaulted
    <3>2. CASE ~w.first
      BY <3>2 DEF Granted
    <3> QED BY <3>1, <3>2
  <2>2. rows[i] # None
    BY <1>2 DEF P!Of
  <2> QED BY <1>2, <2>1, <2>2 DEF P!Stored
<1>5. rows[i].enabled
  <2>1. CASE w.first
    <3>1. rows[i].enabled = TRUE
      BY <1>2, <2>1 DEF P!Stored, Granted, P!Defaulted
    <3> QED BY <3>1
  <2>2. CASE ~w.first
    <3>1. rows[i].enabled = w.of.enabled
      BY <1>2, <2>2 DEF P!Stored, Granted
    <3>2. w.of.enabled
      BY <1>1, <2>2
    <3> QED BY <3>1, <3>2
  <2> QED BY <2>1, <2>2
<1>6. ~P!Quiet(rows[i], clock)
  BY <1>1, <1>3, <1>4, <1>5 DEF P!IsQuietHours
<1> QED BY <1>1, <1>4, <1>6, WithinIsQuiet DEF Preferring

LEMMA GoesOut ==
  ASSUME Preferring, NEW s \in Senders, NEW ch \in P!Channels, P!Enqueue(s, ch)
  PROVE  Preferring'
<1>1. PICK z : z = send[s]
  OBVIOUS
<1>2. /\ z.at = "channels"
      /\ z = [at |-> z.at, event |-> z.event, read |-> z.read, todo |-> z.todo, wish |-> z.wish]
      /\ UNCHANGED <<rows, clock, change, wish, amiss>>
  BY <1>1 DEF Preferring, Sending, P!Enqueue
<1>3. PICK x : x = [at |-> z.at, event |-> z.event, read |-> z.read, todo |-> z.todo \ {ch}, wish |-> z.wish]
  OBVIOUS
<1>4. send' = [send EXCEPT ![s] = x]
  <2>1. send' = [send EXCEPT ![s].todo = z.todo \ {ch}]
    BY <1>1 DEF P!Enqueue
  <2>2. [z EXCEPT !.todo = z.todo \ {ch}] = x
    BY <1>2, <1>3
  <2> QED BY <1>1, <2>1, <2>2
<1>5. send'[s] = x
  BY <1>4 DEF Preferring
<1>6. Sending(s)'
  BY <1>1, <1>2, <1>3, <1>5 DEF Preferring, Sending
<1>7. \A m \in queued[s] : x.wish # None => m.channel \in Granted(x.wish).on
  BY <1>1, <1>3 DEF Preferring, P!SwitchedOffIsSilent, Granted, P!Defaulted
<1>8. PICK on \in P!ChannelEnabled(s, ch) :
        \/ on /\ ~P!IsQuietHours /\ P!GoesOut(s, ch, amiss)
        \/ on /\ P!GoesOut(s, ch, Events)
        \/ queued' = queued
  BY DEF P!Enqueue
<1>9. ASSUME NEW but, on, P!GoesOut(s, ch, but), but = Events \/ (~P!IsQuietHours /\ but = amiss)
      PROVE  Preferring'
  <2>1. PICK m : m = [channel |-> ch, hour |-> clock, wishes |-> wish, amiss |-> but]
    OBVIOUS
  <2>2. /\ queued' = [t \in Senders |-> queued'[t]]
        /\ queued'[s] = queued[s] \cup {m}
        /\ \A t \in Senders : t # s => queued'[t] = queued[t]
    BY <1>9, <2>1 DEF Preferring, P!GoesOut
  <2>3. ASSUME x.wish # None PROVE ch \in Granted(x.wish).on
    <3>1. PICK mine : mine = {p \in z.read : p[2].event = z.event}
      OBVIOUS
    <3>2. mine # {} /\ \A p \in mine : p[2].on \subseteq Granted(x.wish).on
      BY <1>1, <1>3, <2>3, <3>1 DEF Preferring, Sending
    <3>3. P!ChannelEnabled(s, ch) = {P!On(p, ch) : p \in mine}
      BY <1>1, <3>1, <3>2 DEF P!ChannelEnabled
    <3>4. PICK p \in mine : on = P!On(p, ch)
      BY <1>8, <3>3
    <3>5. P!On(p, ch)
      BY <1>9, <3>4
    <3> QED BY <3>2, <3>4, <3>5 DEF P!On
  <2>4. \A y \in queued'[s] : x.wish # None => y.channel \in Granted(x.wish).on
    BY <1>7, <2>1, <2>2, <2>3
  <2>5. P!QuietIsQuiet'
    <3>1. ASSUME NEW t \in Senders, NEW y \in queued'[t], NEW e \in Events \ y.amiss,
                 y.wishes[e] # None, y.wishes[e].of.enabled \/ y.wishes[e].first,
                 NEW f \in Hours, NEW u \in Hours,
                 y.wishes[e].of.from = P!Text(f), y.wishes[e].of.until = P!Text(u)
          PROVE  ~P!Within(y.hour, f, u)
      <4>1. CASE y = m
        BY <1>9, <2>1, <3>1, <4>1, HourIsNotQuiet
      <4>2. CASE y # m
        <5>1. y \in queued[t]
          BY <2>2, <4>2
        <5> QED BY <3>1, <5>1 DEF Preferring, P!QuietIsQuiet, Hours
      <4> QED BY <4>1, <4>2
    <3> QED BY <3>1 DEF P!QuietIsQuiet, P!Within, P!Text, Hours
  <2> QED BY <1>2, <1>4, <1>6, <2>2, <2>4, <2>5, SendGoesOn DEF Preferring
<1>10. CASE queued' = queued
  <2>1. P!QuietIsQuiet'
    BY <1>10 DEF Preferring, P!QuietIsQuiet, P!Within
  <2> QED BY <1>2, <1>4, <1>6, <1>7, <1>10, <2>1, SendGoesOn DEF Preferring
<1> QED BY <1>8, <1>9, <1>10

LEMMA PrefersStands ==
  ASSUME Preferring, P!Next
  PROVE  Preferring'
<1>1. CASE P!Tick
  <2>1. clock' \in Hours
    <3>1. Last \in Nat \ {0} /\ clock \in 0..(Last - 1)
      BY LastAssumption DEF Preferring, Hours
    <3>2. clock' = (clock + 1) % Last
      BY <1>1 DEF P!Tick
    <3> QED BY <3>1, <3>2 DEF Hours
  <2>2. UNCHANGED <<rows, change, send, queued, wish, amiss>>
    BY <1>1 DEF P!Tick
  <2>3. /\ \A r \in Workers : Choosing(change[r])'
        /\ \A e \in Events \ amiss' : Standing(e)'
        /\ \A s \in Senders : Sending(s)'
    BY <2>2 DEF Preferring, Choosing, Standing, Sending, P!Of
  <2>4. P!SwitchedOffIsSilent' /\ P!QuietIsQuiet'
    BY <2>2 DEF Preferring, P!SwitchedOffIsSilent, P!QuietIsQuiet, P!Within
  <2> QED BY <2>1, <2>2, <2>3, <2>4 DEF Preferring
<1>2. CASE \E r \in Workers :
            \/ \E e \in Events, w \in Wishes : P!UpdatePreferences(r, e, w)
            \/ P!SetPreference(r) \/ P!FailsToStore(r)
  BY <1>2, ChoosesPreference
<1>3. CASE \E r \in Workers : P!SavePreference(r) \/ P!CreatePreference(r)
  BY <1>3, StoresPreference
<1>4. CASE \E s \in Senders, e \in Events : P!Send(s, e)
  BY <1>4, SendReads
<1>5. CASE \E s \in Senders : P!CreateInAppNotification(s)
  BY <1>5, NotificationShown
<1>6. CASE \E s \in Senders, ch \in P!Channels : P!Enqueue(s, ch)
  BY <1>6, GoesOut
<1> QED BY <1>1, <1>2, <1>3, <1>4, <1>5, <1>6 DEF P!Next

LEMMA PrefersRests == ASSUME Preferring, UNCHANGED preferences PROVE Preferring'
<1>1. UNCHANGED <<rows, clock, change, send, queued, wish, amiss>>
  BY DEF preferences
<1>2. /\ \A r \in Workers : Choosing(change[r])'
      /\ \A e \in Events \ amiss' : Standing(e)'
      /\ \A s \in Senders : Sending(s)'
  BY <1>1 DEF Preferring, Choosing, Standing, Sending, P!Of
<1>3. P!SwitchedOffIsSilent' /\ P!QuietIsQuiet'
  BY <1>1 DEF Preferring, P!SwitchedOffIsSilent, P!QuietIsQuiet, P!Within
<1> QED BY <1>1, <1>2, <1>3 DEF Preferring

LEMMA PreferencesAreKept == Preferring => P!PreferencesStand
<1> SUFFICES ASSUME Preferring, NEW e \in Events \ amiss
             PROVE  {rows[i] : i \in P!Of(e)} =
                      IF wish[e] = None THEN {}
                      ELSE {P!Stored(e, IF wish[e].first THEN P!Defaulted(wish[e].of) ELSE wish[e].of)}
  BY DEF Preferring, P!PreferencesStand, P!RowsAreWishes
<1> QED BY DEF Preferring, Standing, Granted

-----------------------------------------------------------------------------
(* Automations.  Who stores a job while the template is gone or going is   *)
(* noted; while there is one and nobody is scheduling or removing, it has  *)
(* a job.  Of requests one at a time, one that will store the template     *)
(* again holds it as it is.                                                *)
Scheduled ==
  \/ \E j \in A!Names : jobs[j] # NoRow
  \/ \E r \in Visitors : visit[r].pc \in {"schedule", "remove"}

Automating ==
  /\ visit = [r \in Visitors |-> visit[r]] /\ jobs = [j \in A!Names |-> jobs[j]]
  /\ \A r \in Visitors : visit[r].pc = "update" => visit[r].row # NoRow
  /\ template = NoRow \/ A!Deleting => A!Pending \subseteq late
  /\ template # NoRow /\ cut = {} /\ ~back => Scheduled

(* Whose run's log says that it is running is at it, or was cut off. *)
Running ==
  /\ visit = [r \in Visitors |-> visit[r]] /\ runs = [r \in Visitors |-> runs[r]]
  /\ \A r \in Visitors : runs[r] = "running" => visit[r].pc = "run" \/ r \in cut

Waits(x) == x \in {A!NotYet, A!Done}

InHand ==
  /\ \A q, r \in Visitors : q # r => Waits(visit[q]) \/ Waits(visit[r])
  /\ visit = [r \in Visitors |-> visit[r]]
  /\ rules = [u \in A!Rules |-> rules[u]]
  /\ wanted = [of \in A!Rules \cup {A!Template} |-> wanted[of]]
  /\ template = wanted[A!Template]
  /\ \A u \in A!Rules : rules[u] = wanted[u]
  /\ \A r \in Visitors : visit[r].pc = "update" => visit[r].row = template

Handled == alone => InHand

LEMMA AutomationsStart == ASSUME A!Init PROVE Automating /\ Handled /\ Running
<1>1. \A r \in Visitors : visit[r] = A!NotYet /\ visit[r].pc = "new" /\ Waits(visit[r])
  BY DEF A!Init, A!NotYet, A!At, Waits
<1>2. ~A!Deleting
  BY <1>1 DEF A!Deleting
<1>3. Automating
  <2>1. template = NoRow => A!Pending = {}
    BY NoRowAssumption DEF A!Init, A!Pending
  <2>2. template # NoRow => Scheduled
    <3>1. template # NoRow => jobs[Before] = "pending" /\ Before \in A!Names
      BY DEF A!Init, A!Names
    <3> QED BY <3>1, NoRowAssumption DEF Scheduled
  <2> QED BY <1>1, <1>2, <2>1, <2>2 DEF A!Init, Automating
<1>4. InHand
  <2>1. \A u \in A!Rules : u # A!Template
    BY DEF A!Rules, A!Template
  <2> QED BY <1>1, <2>1 DEF A!Init, InHand
<1>5. Running
  <2>1. \A r \in Visitors : runs[r] # "running"
    BY NoRowAssumption DEF A!Init
  <2> QED BY <2>1 DEF A!Init, Running
<1> QED BY <1>3, <1>4, <1>5 DEF Handled

(* Requests that touch neither the template nor its jobs. *)
LEMMA JobsRest ==
  ASSUME Automating, NEW r \in Visitors, NEW x, visit' = [visit EXCEPT ![r] = x],
         UNCHANGED <<template, jobs, cut, late, back>>,
         visit[r].pc \notin {"schedule", "remove"}, x.pc # "remove",
         x.pc = "update" => x.row # NoRow
  PROVE  Automating'
<1>1. \A q \in Visitors : visit'[q] = IF q = r THEN x ELSE visit[q]
  BY DEF Automating
<1>2. visit' = [q \in Visitors |-> visit'[q]]
  BY DEF Automating
<1>3. A!Deleting' => A!Deleting
  BY <1>1 DEF A!Deleting
<1>4. A!Pending' = A!Pending
  BY DEF A!Pending
<1>5. Scheduled => Scheduled'
  BY <1>1 DEF Scheduled
<1> QED BY <1>1, <1>2, <1>3, <1>4, <1>5 DEF Automating

LEMMA OthersRest ==
  ASSUME Automating, NEW r \in Visitors,
         \/ A!GetRecurringInvoice(r) \/ A!RunAutomation(r) \/ A!CompletesRun(r)
         \/ \E j \in A!Names : A!GetJob(r, j)
         \/ \E u \in A!Rules : A!Creates(r, u) \/ A!Finds(r, u) \/ A!Saves(r, u) \/ A!Deletes(r, u)
  PROVE  Automating'
<1>1. UNCHANGED <<template, jobs, cut, late, back>>
  BY DEF A!GetRecurringInvoice, A!RunAutomation, A!CompletesRun, A!GetJob, A!Creates, A!Finds, A!Saves, A!Deletes
<1>2. visit[r] = A!NotYet => visit[r].pc = "new"
  BY DEF A!NotYet, A!At
<1>3. CASE A!GetRecurringInvoice(r)
  <2>1. PICK pc \in {"update", "pause", "resume", "delete"} : A!Goes(r, pc, A!Template, template)
    BY <1>3 DEF A!GetRecurringInvoice
  <2>2. PICK x : x = A!At(pc, A!Template, template)
    OBVIOUS
  <2>3. x.pc = pc /\ x.row = template
    BY <2>2 DEF A!At
  <2>4. visit' = [visit EXCEPT ![r] = x]
    BY <2>1, <2>2 DEF A!Goes
  <2>5. template # NoRow /\ visit[r].pc = "new"
    BY <1>2, <1>3 DEF A!GetRecurringInvoice, A!Starts
  <2> QED BY <1>1, <2>1, <2>3, <2>4, <2>5, JobsRest
<1>4. ASSUME NEW x, visit' = [visit EXCEPT ![r] = x], x.pc \in {"retry", "rule", "run", "done"},
             visit[r].pc \in {"new", "rule", "run"}
      PROVE  Automating'
  BY <1>1, <1>4, JobsRest
<1>5. CASE A!RunAutomation(r)
  <2>1. PICK x : x = A!At("run", "automation", NoRow)
    OBVIOUS
  <2>2. x.pc = "run" /\ visit' = [visit EXCEPT ![r] = x] /\ visit[r].pc = "new"
    BY <1>2, <1>5, <2>1 DEF A!RunAutomation, A!Goes, A!Starts, A!At
  <2> QED BY <1>4, <2>2
<1>6. CASE \E j \in A!Names : A!GetJob(r, j)
  <2>1. PICK j \in A!Names : A!GetJob(r, j)
    BY <1>6
  <2>2. PICK x : x = A!At("retry", j, NoRow)
    OBVIOUS
  <2>3. x.pc = "retry" /\ visit' = [visit EXCEPT ![r] = x] /\ visit[r].pc = "new"
    BY <1>2, <2>1, <2>2 DEF A!GetJob, A!Goes, A!Starts, A!At
  <2> QED BY <1>4, <2>3
<1>7. CASE A!CompletesRun(r) \/ \E u \in A!Rules : A!Creates(r, u) \/ A!Saves(r, u) \/ A!Deletes(r, u)
  <2>1. PICK x : x = A!Done
    OBVIOUS
  <2>2. x.pc = "done"
    BY <2>1 DEF A!Done, A!At
  <2>3. visit' = [visit EXCEPT ![r] = x] /\ visit[r].pc \in {"new", "rule", "run"}
    BY <1>2, <1>7, <2>1 DEF A!CompletesRun, A!Creates, A!Saves, A!Deletes, A!Ends, A!Starts
  <2> QED BY <1>4, <2>2, <2>3
<1>8. CASE \E u \in A!Rules : A!Finds(r, u)
  <2>1. PICK u \in A!Rules, active \in BOOLEAN : A!Starts(r) /\ A!Goes(r, "rule", u, active)
    BY <1>8 DEF A!Finds
  <2>2. PICK x : x = A!At("rule", u, active)
    OBVIOUS
  <2>3. x.pc = "rule" /\ visit' = [visit EXCEPT ![r] = x] /\ visit[r].pc = "new"
    BY <1>2, <2>1, <2>2 DEF A!Goes, A!Starts, A!At
  <2> QED BY <1>4, <2>3
<1> QED BY <1>3, <1>5, <1>6, <1>7, <1>8

(* Where the request r has moved on to x. *)
LEMMA VisitGoesOn ==
  ASSUME Automating, NEW r \in Visitors, NEW x, visit' = [visit EXCEPT ![r] = x]
  PROVE  /\ visit' = [q \in Visitors |-> visit'[q]]
         /\ \A q \in Visitors : visit'[q] = IF q = r THEN x ELSE visit[q]
         /\ x.pc # "remove" => (A!Deleting' => A!Deleting)
         /\ jobs' = jobs => A!Pending' = A!Pending
         /\ jobs' = jobs /\ visit[r].pc \notin {"schedule", "remove"} => (Scheduled => Scheduled')
<1>1. /\ visit' = [q \in Visitors |-> visit'[q]]
      /\ \A q \in Visitors : visit'[q] = IF q = r THEN x ELSE visit[q]
  BY DEF Automating
<1>2. x.pc # "remove" => (A!Deleting' => A!Deleting)
  BY <1>1 DEF A!Deleting
<1>3. jobs' = jobs => A!Pending' = A!Pending
  BY DEF A!Pending
<1>4. jobs' = jobs /\ visit[r].pc \notin {"schedule", "remove"} => (Scheduled => Scheduled')
  BY <1>1 DEF Scheduled
<1> QED BY <1>1, <1>2, <1>3, <1>4

LEMMA TemplateStored ==
  ASSUME Automating, NEW r \in Visitors,
         \/ A!CreateRecurringInvoice(r) \/ A!UpdateRecurringInvoice(r)
         \/ A!PauseRecurringInvoice(r) \/ A!ResumeRecurringInvoice(r)
  PROVE  Automating'
<1>1. UNCHANGED <<jobs, cut, late>>
  BY DEF A!CreateRecurringInvoice, A!UpdateRecurringInvoice, A!PauseRecurringInvoice, A!ResumeRecurringInvoice
<1>2. visit[r] = A!NotYet => visit[r].pc = "new"
  BY DEF A!NotYet, A!At
<1>3. CASE A!CreateRecurringInvoice(r) \/ A!ResumeRecurringInvoice(r)
  <2>1. PICK x : x = A!At("schedule", A!Template, NoRow)
    OBVIOUS
  <2>2. x.pc = "schedule"
    BY <2>1 DEF A!At
  <2>3. visit' = [visit EXCEPT ![r] = x] /\ template' = TRUE
    BY <1>3, <2>1 DEF A!CreateRecurringInvoice, A!ResumeRecurringInvoice, A!Goes, A!SavesTemplate
  <2>4. /\ visit' = [q \in Visitors |-> visit'[q]]
        /\ \A q \in Visitors : visit'[q] = IF q = r THEN x ELSE visit[q]
        /\ A!Deleting' => A!Deleting
        /\ A!Pending' = A!Pending
    BY <1>1, <2>2, <2>3, VisitGoesOn
  <2>5. Scheduled'
    BY <2>2, <2>4 DEF Scheduled
  <2>6. template' # NoRow
    BY <2>3, NoRowAssumption
  <2> QED BY <1>1, <2>2, <2>4, <2>5, <2>6 DEF Automating
<1>4. CASE A!UpdateRecurringInvoice(r) \/ A!PauseRecurringInvoice(r)
  <2>1. PICK x : x = A!Done
    OBVIOUS
  <2>2. x.pc = "done"
    BY <2>1 DEF A!Done, A!At
  <2>3. visit' = [visit EXCEPT ![r] = x] /\ visit[r].pc \in {"update", "pause"}
    BY <1>4, <2>1 DEF A!UpdateRecurringInvoice, A!PauseRecurringInvoice, A!Ends
  <2>4. /\ visit' = [q \in Visitors |-> visit'[q]]
        /\ \A q \in Visitors : visit'[q] = IF q = r THEN x ELSE visit[q]
        /\ A!Deleting' => A!Deleting
        /\ A!Pending' = A!Pending
        /\ Scheduled => Scheduled'
    BY <1>1, <2>2, <2>3, VisitGoesOn
  <2>5. template' # NoRow /\ (~back' => ~back /\ template # NoRow)
    <3>1. CASE A!UpdateRecurringInvoice(r)
      BY <3>1 DEF A!UpdateRecurringInvoice, A!SavesTemplate, Automating
    <3>2. CASE A!PauseRecurringInvoice(r)
      BY <3>2, NoRowAssumption DEF A!PauseRecurringInvoice, A!SavesTemplate
    <3> QED BY <1>4, <3>1, <3>2
  <2> QED BY <1>1, <2>2, <2>4, <2>5 DEF Automating
<1> QED BY <1>3, <1>4

LEMMA JobStored ==
  ASSUME Automating, NEW r \in Visitors, A!ScheduleJob(r) \/ A!RetryDeadLetter(r)
  PROVE  Automating'
<1>1. PICK j : j = IF visit[r].pc = "schedule" THEN r ELSE visit[r].of
  OBVIOUS
<1>2. PICK x : x = A!Done
  OBVIOUS
<1>3. x.pc = "done"
  BY <1>2 DEF A!Done, A!At
<1>4. /\ visit[r].pc \in {"schedule", "retry"}
      /\ jobs' = [jobs EXCEPT ![j] = "pending"]
      /\ late' = IF template = NoRow \/ A!Deleting THEN late \cup {j} ELSE late
      /\ visit' = [visit EXCEPT ![r] = x]
      /\ UNCHANGED <<template, cut, back>>
  BY <1>1, <1>2 DEF A!ScheduleJob, A!RetryDeadLetter, A!Noted, A!Ends
<1>5. /\ visit' = [q \in Visitors |-> visit'[q]]
      /\ \A q \in Visitors : visit'[q] = IF q = r THEN x ELSE visit[q]
      /\ A!Deleting' => A!Deleting
  BY <1>3, <1>4, VisitGoesOn
<1>6. /\ jobs' = [k \in A!Names |-> jobs'[k]]
      /\ \A k \in A!Names : jobs'[k] = IF k = j THEN "pending" ELSE jobs[k]
  BY <1>4 DEF Automating
<1>7. A!Pending' \subseteq A!Pending \cup {j}
  BY <1>6 DEF A!Pending
<1>8. Scheduled => Scheduled'
  <2>1. ASSUME NEW k \in A!Names, jobs[k] # NoRow PROVE Scheduled'
    BY <1>6, <2>1, NoRowAssumption DEF Scheduled
  <2>2. ASSUME NEW q \in Visitors, visit[q].pc \in {"schedule", "remove"} PROVE Scheduled'
    <3>1. CASE q = r
      <4>1. r \in A!Names /\ j = r
        BY <1>1, <1>4, <2>2, <3>1 DEF A!Names
      <4> QED BY <1>6, <4>1, NoRowAssumption DEF Scheduled
    <3>2. CASE q # r
      BY <1>5, <2>2, <3>2 DEF Scheduled
    <3> QED BY <3>1, <3>2
  <2> QED BY <2>1, <2>2 DEF Scheduled
<1>9. template' = NoRow \/ A!Deleting' => A!Pending' \subseteq late'
  BY <1>4, <1>5, <1>7 DEF Automating
<1> QED BY <1>3, <1>4, <1>5, <1>6, <1>8, <1>9 DEF Automating

LEMMA JobTaken ==
  ASSUME Automating, NEW r \in Visitors,
         \/ A!DeleteJobs(r) \/ A!DeleteRecurringInvoice(r)
         \/ \E j \in A!Names : A!CancelJob(r, j)
  PROVE  Automating'
<1>1. visit[r] = A!NotYet => visit[r].pc = "new"
  BY DEF A!NotYet, A!At
<1>2. CASE A!DeleteJobs(r)
  <2>1. PICK x : x = A!At("remove", A!Template, NoRow)
    OBVIOUS
  <2>2. x.pc = "remove"
    BY <2>1 DEF A!At
  <2>3. /\ visit' = [visit EXCEPT ![r] = x] /\ UNCHANGED <<template, cut, back>>
        /\ \/ jobs' = A!WithoutPending
           \/ jobs' = jobs /\ late' = late \cup A!Pending
    BY <1>2, <2>1 DEF A!DeleteJobs, A!Goes, A!Pending
  <2>4. /\ visit' = [q \in Visitors |-> visit'[q]]
        /\ \A q \in Visitors : visit'[q] = IF q = r THEN x ELSE visit[q]
    BY <2>3, VisitGoesOn
  <2>5. jobs' = [k \in A!Names |-> jobs'[k]] /\ A!Pending' \subseteq late'
    <3>1. CASE jobs' = A!WithoutPending
      BY <3>1, NoRowAssumption DEF A!WithoutPending, A!Pending
    <3>2. CASE jobs' = jobs /\ late' = late \cup A!Pending
      BY <3>2 DEF Automating, A!Pending
    <3> QED BY <2>3, <3>1, <3>2
  <2>6. Scheduled'
    BY <2>2, <2>4 DEF Scheduled
  <2> QED BY <2>2, <2>4, <2>5, <2>6 DEF Automating
<1>3. CASE A!DeleteRecurringInvoice(r)
  <2>1. PICK x : x = A!Done
    OBVIOUS
  <2>2. x.pc = "done"
    BY <2>1 DEF A!Done, A!At
  <2>3. /\ visit' = [visit EXCEPT ![r] = x] /\ visit[r].pc = "remove"
        /\ template' = NoRow /\ UNCHANGED <<jobs, late>>
    BY <1>3, <2>1 DEF A!DeleteRecurringInvoice, A!Ends
  <2>4. /\ visit' = [q \in Visitors |-> visit'[q]]
        /\ \A q \in Visitors : visit'[q] = IF q = r THEN x ELSE visit[q]
        /\ A!Pending' = A!Pending
    BY <2>3, VisitGoesOn
  <2>5. A!Deleting
    BY <2>3 DEF A!Deleting
  <2> QED BY <2>2, <2>3, <2>4, <2>5 DEF Automating
<1>4. CASE \E j \in A!Names : A!CancelJob(r, j)
  <2>1. PICK j \in A!Names : A!CancelJob(r, j)
    BY <1>4
  <2>2. PICK x : x = A!Done
    OBVIOUS
  <2>3. x.pc = "done"
    BY <2>2 DEF A!Done, A!At
  <2>4. /\ visit' = [visit EXCEPT ![r] = x] /\ visit[r].pc = "new"
        /\ jobs' = [jobs EXCEPT ![j] = "dead_letter"]
        /\ UNCHANGED <<template, cut, late, back>>
    BY <1>1, <2>1, <2>2 DEF A!CancelJob, A!Ends, A!Starts
  <2>5. /\ visit' = [q \in Visitors |-> visit'[q]]
        /\ \A q \in Visitors : visit'[q] = IF q = r THEN x ELSE visit[q]
        /\ A!Deleting' => A!Deleting
    BY <2>3, <2>4, VisitGoesOn
  <2>6. /\ jobs' = [k \in A!Names |-> jobs'[k]]
        /\ \A k \in A!Names : jobs'[k] = IF k = j THEN "dead_letter" ELSE jobs[k]
    BY <2>4 DEF Automating
  <2>7. A!Pending' \subseteq A!Pending
    BY <2>6 DEF A!Pending
  <2>8. Scheduled => Scheduled'
    BY <2>4, <2>5, <2>6, NoRowAssumption DEF Scheduled
  <2> QED BY <2>3, <2>4, <2>5, <2>6, <2>7, <2>8 DEF Automating
<1> QED BY <1>2, <1>3, <1>4

LEMMA CrashAutomates == ASSUME Automating, A!Crash PROVE Automating'
<1>1. visit' = [q \in Visitors |-> visit'[q]] /\ \A q \in Visitors : visit'[q].pc \in {"new", "done"}
  BY DEF A!Crash, A!NotYet, A!Done, A!At
<1>2. ~A!Deleting'
  BY <1>1 DEF A!Deleting
<1>3. A!Pending' = A!Pending
  BY DEF A!Crash, A!Pending
<1>4. UNCHANGED <<template, jobs, late, back>> /\ cut' = cut \cup A!Halfway
  BY DEF A!Crash
<1>5. cut' = {} => (Scheduled => Scheduled')
  BY <1>4 DEF A!Halfway, Scheduled
<1> QED BY <1>1, <1>2, <1>3, <1>4, <1>5 DEF Automating

LEMMA FailureAutomates == ASSUME Automating, NEW r \in Visitors, A!Fails(r) PROVE Automating'
<1>1. PICK x : x = A!Done
  OBVIOUS
<1>2. x.pc = "done"
  BY <1>1 DEF A!Done, A!At
<1>3. /\ visit' = [visit EXCEPT ![r] = x]
      /\ UNCHANGED <<template, jobs, late, back>>
      /\ cut' = cut \cup (A!Halfway \cap {r})
  BY <1>1 DEF A!Fails, A!Ends
<1>4. /\ visit' = [q \in Visitors |-> visit'[q]]
      /\ \A q \in Visitors : visit'[q] = IF q = r THEN x ELSE visit[q]
      /\ A!Deleting' => A!Deleting
      /\ A!Pending' = A!Pending
      /\ visit[r].pc \notin {"schedule", "remove"} => (Scheduled => Scheduled')
  BY <1>2, <1>3, VisitGoesOn
<1>5. cut' = {} => (Scheduled => Scheduled')
  BY <1>3, <1>4 DEF A!Halfway
<1>6. \A q \in Visitors : visit'[q].pc = "update" => visit'[q].row # NoRow
  BY <1>2, <1>4 DEF Automating
<1> QED BY <1>3, <1>4, <1>5, <1>6 DEF Automating

LEMMA AutomatingStands == ASSUME Automating, A!Next PROVE Automating'
<1>1. CASE A!Crash
  BY <1>1, CrashAutomates
<1>2. ASSUME NEW r \in Visitors,
             \/ A!CreateRecurringInvoice(r) \/ A!UpdateRecurringInvoice(r)
             \/ A!PauseRecurringInvoice(r) \/ A!ResumeRecurringInvoice(r)
      PROVE  Automating'
  BY <1>2, TemplateStored
<1>3. ASSUME NEW r \in Visitors, A!ScheduleJob(r) \/ A!RetryDeadLetter(r) PROVE Automating'
  BY <1>3, JobStored
<1>4. ASSUME NEW r \in Visitors,
             \/ A!DeleteJobs(r) \/ A!DeleteRecurringInvoice(r)
             \/ \E j \in A!Names : A!CancelJob(r, j)
      PROVE  Automating'
  BY <1>4, JobTaken
<1>5. ASSUME NEW r \in Visitors,
             \/ A!GetRecurringInvoice(r) \/ A!RunAutomation(r) \/ A!CompletesRun(r)
             \/ \E j \in A!Names : A!GetJob(r, j)
             \/ \E u \in A!Rules : A!Creates(r, u) \/ A!Finds(r, u) \/ A!Saves(r, u) \/ A!Deletes(r, u)
      PROVE  Automating'
  BY <1>5, OthersRest
<1>6. {"reminder", "workflow", "automation"} = A!Rules
  BY DEF A!Rules
<1>7. ASSUME NEW r \in Visitors, A!Fails(r) PROVE Automating'
  BY <1>7, FailureAutomates
<1> QED BY <1>1, <1>2, <1>3, <1>4, <1>5, <1>6, <1>7
        DEF A!Next, A!CreateReminderRule, A!UpdateReminderRule, A!DeleteReminderRule,
            A!CreateWorkflow, A!UpdateWorkflow, A!DeleteWorkflow,
            A!CreateAutomation, A!UpdateAutomation, A!DeleteAutomation

(* A request that has its turn goes on, or one starts: the others wait.    *)
LEMMA HandGoesOn ==
  ASSUME InHand, NEW r \in Visitors, NEW x, visit' = [visit EXCEPT ![r] = x],
         A!Quiet \/ ~Waits(visit[r]),
         rules' = [u \in A!Rules |-> rules'[u]],
         wanted' = [of \in A!Rules \cup {A!Template} |-> wanted'[of]],
         template' = wanted'[A!Template],
         \A u \in A!Rules : rules'[u] = wanted'[u],
         x.pc = "update" => x.row = template'
  PROVE  InHand'
<1>1. /\ visit' = [q \in Visitors |-> visit'[q]]
      /\ \A q \in Visitors : visit'[q] = IF q = r THEN x ELSE visit[q]
  BY DEF InHand
<1>2. \A q \in Visitors \ {r} : Waits(visit[q])
  BY DEF InHand, A!Quiet, Waits
<1>3. \A q \in Visitors \ {r} : visit'[q] = visit[q] /\ visit[q].pc \in {"new", "done"}
  BY <1>1, <1>2 DEF Waits, A!NotYet, A!Done, A!At
<1>4. \A q, v \in Visitors : q # v => Waits(visit'[q]) \/ Waits(visit'[v])
  BY <1>2, <1>3
<1>5. \A q \in Visitors : visit'[q].pc = "update" => visit'[q].row = template'
  BY <1>1, <1>3
<1> QED BY <1>1, <1>4, <1>5 DEF InHand, Waits

(* Neither the rows nor what is asked of them change. *)
LEMMA HandRests ==
  ASSUME InHand, NEW r \in Visitors, NEW x, visit' = [visit EXCEPT ![r] = x],
         A!Quiet \/ ~Waits(visit[r]), UNCHANGED <<template, rules, wanted>>,
         x.pc = "update" => x.row = template
  PROVE  InHand'
<1>2. /\ rules' = [u \in A!Rules |-> rules'[u]]
      /\ wanted' = [of \in A!Rules \cup {A!Template} |-> wanted'[of]]
      /\ template' = wanted'[A!Template]
      /\ \A u \in A!Rules : rules'[u] = wanted'[u]
  BY DEF InHand
<1> QED BY <1>2, HandGoesOn

(* What is asked of the template or of a rule is done. *)
LEMMA HandStores ==
  ASSUME InHand, NEW r \in Visitors, NEW x, visit' = [visit EXCEPT ![r] = x],
         A!Quiet \/ ~Waits(visit[r]),
         NEW of \in A!Rules \cup {A!Template}, NEW v, A!Want(of, v),
         template' = IF of = A!Template THEN v ELSE template,
         rules' = IF of = A!Template THEN rules ELSE [rules EXCEPT ![of] = v],
         x.pc # "update"
  PROVE  InHand'
<1>2. \A u \in A!Rules : u # A!Template
  BY DEF A!Rules, A!Template
<1>3. /\ wanted' = [o \in A!Rules \cup {A!Template} |-> wanted'[o]]
      /\ \A o \in A!Rules \cup {A!Template} : wanted'[o] = IF o = of THEN v ELSE wanted[o]
  BY DEF A!Want, InHand
<1>4. rules' = [u \in A!Rules |-> rules'[u]]
  BY DEF InHand
<1>5. template' = wanted'[A!Template]
  BY <1>2, <1>3 DEF InHand
<1>6. \A u \in A!Rules : rules'[u] = IF u = of THEN v ELSE rules[u]
  BY <1>2 DEF InHand
<1>7. \A u \in A!Rules : rules'[u] = wanted'[u]
  BY <1>3, <1>6 DEF InHand
<1> QED BY <1>3, <1>4, <1>5, <1>7, HandGoesOn

LEMMA JobsInHand ==
  ASSUME InHand, alone, NEW r \in Visitors,
         \/ A!ScheduleJob(r) \/ A!GetRecurringInvoice(r) \/ A!UpdateRecurringInvoice(r)
         \/ A!DeleteJobs(r) \/ A!RetryDeadLetter(r)
         \/ \E j \in A!Names : A!GetJob(r, j) \/ A!CancelJob(r, j)
         \/ \E u \in A!Rules : A!Finds(r, u)
  PROVE  InHand'
<1>1. visit[r] = A!NotYet => visit[r].pc = "new"
  BY DEF A!NotYet, A!At
<1>2. visit[r].pc \notin {"new", "done"} => ~Waits(visit[r])
  BY DEF Waits, A!NotYet, A!Done, A!At
<1>3. A!Starts(r) => A!Quiet /\ visit[r].pc = "new"
  BY <1>1 DEF A!Starts
<1>4. CASE A!ScheduleJob(r) \/ A!RetryDeadLetter(r) \/ \E j \in A!Names : A!CancelJob(r, j)
  <2>1. PICK x : x = A!Done
    OBVIOUS
  <2>2. x.pc = "done"
    BY <2>1 DEF A!Done, A!At
  <2>3. /\ visit' = [visit EXCEPT ![r] = x]
        /\ A!Quiet \/ ~Waits(visit[r])
        /\ UNCHANGED <<template, rules, wanted>>
    BY <1>2, <1>3, <1>4, <2>1 DEF A!ScheduleJob, A!RetryDeadLetter, A!CancelJob, A!Ends
  <2> QED BY <2>2, <2>3, HandRests
<1>5. CASE A!UpdateRecurringInvoice(r)
  <2>1. PICK x : x = A!Done
    OBVIOUS
  <2>2. x.pc = "done"
    BY <2>1 DEF A!Done, A!At
  <2>3. /\ visit' = [visit EXCEPT ![r] = x]
        /\ ~Waits(visit[r])
        /\ UNCHANGED <<template, rules, wanted>>
    BY <1>2, <1>5, <2>1 DEF A!UpdateRecurringInvoice, A!SavesTemplate, A!Ends, InHand
  <2> QED BY <2>2, <2>3, HandRests
<1>6. CASE A!GetRecurringInvoice(r)
  <2>1. PICK pc \in {"update", "pause", "resume", "delete"} : A!Goes(r, pc, A!Template, template)
    BY <1>6 DEF A!GetRecurringInvoice
  <2>2. PICK x : x = A!At(pc, A!Template, template)
    OBVIOUS
  <2>3. x.row = template
    BY <2>2 DEF A!At
  <2>4. /\ visit' = [visit EXCEPT ![r] = x] /\ A!Quiet
        /\ UNCHANGED <<template, rules, wanted>>
    BY <1>3, <1>6, <2>1, <2>2 DEF A!GetRecurringInvoice, A!Goes
  <2> QED BY <2>3, <2>4, HandRests
<1>7. CASE A!DeleteJobs(r)
  <2>1. PICK x : x = A!At("remove", A!Template, NoRow)
    OBVIOUS
  <2>2. x.pc = "remove"
    BY <2>1 DEF A!At
  <2>3. /\ visit' = [visit EXCEPT ![r] = x] /\ ~Waits(visit[r])
        /\ UNCHANGED <<template, rules, wanted>>
    BY <1>2, <1>7, <2>1 DEF A!DeleteJobs, A!Goes
  <2> QED BY <2>2, <2>3, HandRests
<1>8. CASE \E j \in A!Names : A!GetJob(r, j)
  <2>1. PICK j \in A!Names : A!GetJob(r, j)
    BY <1>8
  <2>2. PICK x : x = A!At("retry", j, NoRow)
    OBVIOUS
  <2>3. x.pc = "retry"
    BY <2>2 DEF A!At
  <2>4. /\ visit' = [visit EXCEPT ![r] = x] /\ A!Quiet
        /\ UNCHANGED <<template, rules, wanted>>
    BY <1>3, <2>1, <2>2 DEF A!GetJob, A!Goes
  <2> QED BY <2>3, <2>4, HandRests
<1>9. CASE \E u \in A!Rules : A!Finds(r, u)
  <2>1. PICK u \in A!Rules, active \in BOOLEAN :
          A!Starts(r) /\ A!Goes(r, "rule", u, active) /\ UNCHANGED <<template, rules, wanted>>
    BY <1>9 DEF A!Finds
  <2>2. PICK x : x = A!At("rule", u, active)
    OBVIOUS
  <2>3. x.pc = "rule" /\ visit' = [visit EXCEPT ![r] = x]
    BY <2>1, <2>2 DEF A!Goes, A!At
  <2> QED BY <1>3, <2>1, <2>3, HandRests
<1> QED BY <1>4, <1>5, <1>6, <1>7, <1>8, <1>9

LEMMA RowsInHand ==
  ASSUME InHand, alone, NEW r \in Visitors,
         \/ A!CreateRecurringInvoice(r) \/ A!PauseRecurringInvoice(r)
         \/ A!ResumeRecurringInvoice(r) \/ A!DeleteRecurringInvoice(r)
         \/ \E u \in A!Rules : A!Creates(r, u) \/ A!Saves(r, u) \/ A!Deletes(r, u)
  PROVE  InHand'
<1>1. visit[r] = A!NotYet => visit[r].pc = "new"
  BY DEF A!NotYet, A!At
<1>2. visit[r].pc \notin {"new", "done"} => ~Waits(visit[r])
  BY DEF Waits, A!NotYet, A!Done, A!At
<1>3. A!Starts(r) => A!Quiet /\ visit[r].pc = "new"
  BY <1>1 DEF A!Starts
<1>4. PICK s : s = A!At("schedule", A!Template, NoRow)
  OBVIOUS
<1>5. PICK d : d = A!Done
  OBVIOUS
<1>6. s.pc = "schedule" /\ d.pc = "done"
  BY <1>4, <1>5 DEF A!Done, A!At
<1>7. CASE A!CreateRecurringInvoice(r) \/ A!ResumeRecurringInvoice(r)
  <2>1. /\ visit' = [visit EXCEPT ![r] = s]
        /\ A!Quiet \/ ~Waits(visit[r])
        /\ template' = TRUE /\ A!Want(A!Template, TRUE) /\ UNCHANGED rules
    BY <1>2, <1>3, <1>4, <1>7
       DEF A!CreateRecurringInvoice, A!ResumeRecurringInvoice, A!Goes, A!SavesTemplate
  <2> QED BY <1>6, <2>1, HandStores
<1>8. CASE A!PauseRecurringInvoice(r) \/ A!DeleteRecurringInvoice(r)
  <2>1. PICK v : v = IF visit[r].pc = "pause" THEN FALSE ELSE NoRow
    OBVIOUS
  <2>2. /\ visit' = [visit EXCEPT ![r] = d] /\ ~Waits(visit[r])
        /\ template' = v /\ A!Want(A!Template, v) /\ UNCHANGED rules
    BY <1>2, <1>5, <1>8, <2>1
       DEF A!PauseRecurringInvoice, A!DeleteRecurringInvoice, A!Ends, A!SavesTemplate
  <2> QED BY <1>6, <2>2, HandStores
<1>9. CASE \E u \in A!Rules : A!Creates(r, u) \/ A!Saves(r, u) \/ A!Deletes(r, u)
  <2>1. PICK u \in A!Rules : A!Creates(r, u) \/ A!Saves(r, u) \/ A!Deletes(r, u)
    BY <1>9
  <2>2. PICK v : rules' = [rules EXCEPT ![u] = v] /\ A!Want(u, v)
    BY <2>1 DEF A!Creates, A!Saves, A!Deletes
  <2>3. u # A!Template
    BY DEF A!Rules, A!Template
  <2>4. /\ visit' = [visit EXCEPT ![r] = d]
        /\ A!Quiet \/ ~Waits(visit[r])
        /\ UNCHANGED template
    BY <1>2, <1>3, <1>5, <2>1 DEF A!Creates, A!Saves, A!Deletes, A!Ends
  <2> QED BY <1>6, <2>2, <2>3, <2>4, HandStores
<1> QED BY <1>7, <1>8, <1>9

LEMMA RunsInHand ==
  ASSUME InHand, alone, NEW r \in Visitors, A!RunAutomation(r) \/ A!CompletesRun(r) \/ A!Fails(r)
  PROVE  InHand'
<1>1. A!Quiet \/ ~Waits(visit[r])
  <2>1. Waits(visit[r]) => visit[r].pc \in {"new", "done"}
    BY DEF Waits, A!NotYet, A!Done, A!At
  <2>2. visit[r].pc = "run" \/ A!Starts(r) \/ ~Waits(visit[r])
    BY DEF A!RunAutomation, A!CompletesRun, A!Fails, Waits
  <2> QED BY <2>1, <2>2 DEF A!Starts
<1>2. UNCHANGED <<template, rules, wanted>>
  BY DEF A!RunAutomation, A!CompletesRun, A!Fails
<1>3. PICK x : /\ visit' = [visit EXCEPT ![r] = x]
               /\ x \in {A!At("run", "automation", NoRow), A!Done}
  BY DEF A!RunAutomation, A!CompletesRun, A!Fails, A!Goes, A!Ends
<1>4. x.pc # "update"
  BY <1>3 DEF A!At, A!Done
<1> QED BY <1>1, <1>2, <1>3, <1>4, HandRests

LEMMA CrashInHand == ASSUME InHand, A!Crash PROVE InHand'
<1>1. /\ visit' = [q \in Visitors |-> visit'[q]]
      /\ \A q \in Visitors : visit'[q] \in {A!NotYet, A!Done}
      /\ UNCHANGED <<template, rules, wanted>>
  BY DEF A!Crash
<1>2. \A q \in Visitors : Waits(visit[q])' /\ visit'[q].pc # "update"
  BY <1>1 DEF Waits, A!NotYet, A!Done, A!At
<1> QED BY <1>1, <1>2 DEF InHand

LEMMA HandledStands == ASSUME Handled, A!Next PROVE Handled'
<1>1. CASE A!Crash
  BY <1>1, CrashInHand DEF A!Crash, Handled
<1>2. ASSUME NEW r \in Visitors,
             \/ A!ScheduleJob(r) \/ A!GetRecurringInvoice(r) \/ A!UpdateRecurringInvoice(r)
             \/ A!DeleteJobs(r) \/ A!RetryDeadLetter(r)
             \/ \E j \in A!Names : A!GetJob(r, j) \/ A!CancelJob(r, j)
             \/ \E u \in A!Rules : A!Finds(r, u)
      PROVE  Handled'
  <2>1. UNCHANGED alone
    BY <1>2 DEF A!ScheduleJob, A!GetRecurringInvoice, A!UpdateRecurringInvoice, A!DeleteJobs,
                A!RetryDeadLetter, A!GetJob, A!CancelJob, A!Finds
  <2>2. ASSUME InHand, alone PROVE InHand'
    BY <1>2, <2>2, JobsInHand
  <2> QED BY <2>1, <2>2, Zenon DEF Handled
<1>3. ASSUME NEW r \in Visitors,
             \/ A!CreateRecurringInvoice(r) \/ A!PauseRecurringInvoice(r)
             \/ A!ResumeRecurringInvoice(r) \/ A!DeleteRecurringInvoice(r)
             \/ \E u \in A!Rules : A!Creates(r, u) \/ A!Saves(r, u) \/ A!Deletes(r, u)
      PROVE  Handled'
  <2>1. UNCHANGED alone
    BY <1>3 DEF A!CreateRecurringInvoice, A!PauseRecurringInvoice, A!ResumeRecurringInvoice,
                A!DeleteRecurringInvoice, A!Creates, A!Saves, A!Deletes
  <2>2. ASSUME InHand, alone PROVE InHand'
    BY <1>3, <2>2, RowsInHand
  <2> QED BY <2>1, <2>2, Zenon DEF Handled
<1>4. ASSUME NEW r \in Visitors, A!RunAutomation(r) \/ A!CompletesRun(r) \/ A!Fails(r) PROVE Handled'
  <2>1. UNCHANGED alone
    BY <1>4 DEF A!RunAutomation, A!CompletesRun, A!Fails
  <2>2. ASSUME InHand, alone PROVE InHand'
    BY <1>4, <2>2, RunsInHand
  <2> QED BY <2>1, <2>2, Zenon DEF Handled
<1>5. {"reminder", "workflow", "automation"} = A!Rules
  BY DEF A!Rules
<1> QED BY <1>1, <1>2, <1>3, <1>4, <1>5
        DEF A!Next, A!CreateReminderRule, A!UpdateReminderRule, A!DeleteReminderRule,
            A!CreateWorkflow, A!UpdateWorkflow, A!DeleteWorkflow,
            A!CreateAutomation, A!UpdateAutomation, A!DeleteAutomation

(* Requests that run nothing, or run, or are cut off. *)
LEMMA RunsRest ==
  ASSUME Running, NEW r \in Visitors, NEW x, visit' = [visit EXCEPT ![r] = x],
         visit[r].pc # "run", UNCHANGED <<runs, cut>>
  PROVE  Running'
BY DEF Running

LEMMA StartsNew ==
  ASSUME NEW r, A!Starts(r)
  PROVE  visit[r].pc = "new"
BY DEF A!Starts, A!NotYet, A!At

LEMMA RunningStands == ASSUME Running, A!Next PROVE Running'
<1>1. CASE A!Crash
  <2>1. /\ visit' = [r \in Visitors |-> visit'[r]] /\ runs' = runs
        /\ cut' = cut \cup A!Halfway
    BY <1>1 DEF A!Crash
  <2> QED BY <2>1 DEF Running, A!Halfway
<1>2. ASSUME NEW r \in Visitors,
             \/ A!ScheduleJob(r) \/ A!GetRecurringInvoice(r) \/ A!UpdateRecurringInvoice(r)
             \/ A!DeleteJobs(r) \/ A!RetryDeadLetter(r)
             \/ \E j \in A!Names : A!GetJob(r, j) \/ A!CancelJob(r, j)
             \/ \E u \in A!Rules : A!Finds(r, u)
      PROVE  Running'
  <2>1. UNCHANGED <<runs, cut>> /\ visit[r].pc # "run" /\ \E x : visit' = [visit EXCEPT ![r] = x]
    BY <1>2, StartsNew DEF A!ScheduleJob, A!GetRecurringInvoice, A!UpdateRecurringInvoice, A!DeleteJobs,
                A!RetryDeadLetter, A!GetJob, A!CancelJob, A!Finds, A!Goes, A!Ends
  <2> QED BY <2>1, RunsRest
<1>3. ASSUME NEW r \in Visitors,
             \/ A!CreateRecurringInvoice(r) \/ A!PauseRecurringInvoice(r)
             \/ A!ResumeRecurringInvoice(r) \/ A!DeleteRecurringInvoice(r)
             \/ \E u \in A!Rules : A!Creates(r, u) \/ A!Saves(r, u) \/ A!Deletes(r, u)
      PROVE  Running'
  <2>1. UNCHANGED <<runs, cut>> /\ visit[r].pc # "run" /\ \E x : visit' = [visit EXCEPT ![r] = x]
    BY <1>3, StartsNew DEF A!CreateRecurringInvoice, A!PauseRecurringInvoice, A!ResumeRecurringInvoice,
                A!DeleteRecurringInvoice, A!Creates, A!Saves, A!Deletes, A!Goes, A!Ends
  <2> QED BY <2>1, RunsRest
<1>4. ASSUME NEW r \in Visitors, A!RunAutomation(r) PROVE Running'
  <2>1. PICK x : x = A!At("run", "automation", NoRow)
    OBVIOUS
  <2>2. x.pc = "run"
    BY <2>1 DEF A!At
  <2>3. /\ visit' = [visit EXCEPT ![r] = x] /\ runs' = [runs EXCEPT ![r] = "running"]
        /\ UNCHANGED cut
    BY <1>4, <2>1 DEF A!RunAutomation, A!Goes
  <2> QED BY <2>2, <2>3 DEF Running
<1>5. ASSUME NEW r \in Visitors, A!CompletesRun(r) PROVE Running'
  <2>1. /\ visit' = [visit EXCEPT ![r] = A!Done] /\ runs' = [runs EXCEPT ![r] = "completed"]
        /\ UNCHANGED cut
    BY <1>5 DEF A!CompletesRun, A!Ends
  <2> QED BY <2>1 DEF Running
<1>6. ASSUME NEW r \in Visitors, A!Fails(r) PROVE Running'
  <2>1. /\ visit' = [visit EXCEPT ![r] = A!Done] /\ UNCHANGED runs
        /\ cut' = cut \cup (A!Halfway \cap {r})
    BY <1>6 DEF A!Fails, A!Ends
  <2> QED BY <2>1 DEF Running, A!Halfway
<1>7. {"reminder", "workflow", "automation"} = A!Rules
  BY DEF A!Rules
<1> QED BY <1>1, <1>2, <1>3, <1>4, <1>5, <1>6, <1>7
        DEF A!Next, A!CreateReminderRule, A!UpdateReminderRule, A!DeleteReminderRule,
            A!CreateWorkflow, A!UpdateWorkflow, A!DeleteWorkflow,
            A!CreateAutomation, A!UpdateAutomation, A!DeleteAutomation

LEMMA AutomationsRest ==
  ASSUME Automating, Handled, Running, UNCHANGED automations
  PROVE  Automating' /\ Handled' /\ Running'
<1>1. UNCHANGED <<template, jobs, rules, runs, visit, alone, wanted, late, back, cut>>
  BY DEF automations
<1>2. A!Deleting' = A!Deleting /\ A!Pending' = A!Pending /\ Scheduled' = Scheduled
  BY <1>1 DEF A!Deleting, A!Pending, Scheduled
<1>3. Automating' /\ Running'
  BY <1>1, <1>2 DEF Automating, Running
<1>4. InHand' = InHand
  BY <1>1 DEF InHand
<1> QED BY <1>1, <1>3, <1>4, Zenon DEF Handled

LEMMA JobsAreMatched == Automating /\ Handled /\ Running => A!JobsMatchTemplate
<1> SUFFICES ASSUME Automating, Handled, Running PROVE A!JobsMatchTemplate
  OBVIOUS
<1>1. A!Quiet => \A r \in Visitors : visit[r].pc \in {"new", "done"}
  BY DEF A!Quiet, A!NotYet, A!Done, A!At
<1>2. template = NoRow => A!Pending \subseteq late
  BY DEF Automating
<1>3. template # NoRow /\ A!Quiet => back \/ cut # {} \/ \E j \in A!Names : jobs[j] # NoRow
  BY <1>1 DEF Automating, Scheduled
<1>4. \A r \in Visitors : runs[r] = "running" /\ visit[r] = A!Done => r \in cut
  BY DEF Running, A!Done, A!At
<1>5. ASSUME alone
      PROVE  /\ template = wanted[A!Template]
             /\ \A u \in A!Rules : rules[u] = wanted[u]
  BY <1>5 DEF Handled, InHand
<1> QED BY <1>2, <1>3, <1>4, <1>5, Zenon DEF A!JobsMatchTemplate

(* Templates and jobs agree but for what the property excepts, however     *)
(* many requests there are; and what users asked of the preferences of     *)
(* their notifications is kept, whatever events, rows and hours there are. *)
THEOREM WishesStand == JobsSpec => []WishesAreKept
<1>1. JobsInit => Preferring /\ Automating /\ Handled /\ Running
  BY PrefersStarts, AutomationsStart DEF JobsInit
<1>2. Preferring /\ Automating /\ Handled /\ Running
      /\ [JobsNext]_<<job, vars, recurring, serial, reminders, pdfs, automations, preferences>>
      => (Preferring /\ Automating /\ Handled /\ Running)'
  <2> SUFFICES ASSUME Preferring, Automating, Handled, Running,
                      [JobsNext]_<<job, vars, recurring, serial, reminders, pdfs, automations, preferences>>
               PROVE  Preferring' /\ Automating' /\ Handled' /\ Running'
    OBVIOUS
  <2>1. CASE UNCHANGED <<automations, preferences>>
    BY <2>1, PrefersRests, AutomationsRest
  <2>2. CASE PreferencesStep /\ P!Next
    <3>1. UNCHANGED automations
      BY <2>2, Zenon DEF PreferencesStep
    <3> QED BY <2>2, <3>1, PrefersStands, AutomationsRest
  <2>3. CASE AutomationsStep /\ A!Next
    <3>1. UNCHANGED preferences
      BY <2>3, Zenon DEF AutomationsStep
    <3> QED BY <2>3, <3>1, PrefersRests, AutomatingStands, HandledStands, RunningStands
  <2>4. CASE NotificationsStep \/ RecurringStep \/ RemindersStep \/ PDFStep
    BY <2>1, <2>4, Zenon DEF NotificationsStep, RecurringStep, RemindersStep, PDFStep
  <2> QED BY <2>1, <2>2, <2>3, <2>4, Zenon DEF JobsNext
<1>3. Preferring /\ Automating /\ Handled /\ Running => WishesAreKept
  BY PreferencesAreKept, JobsAreMatched DEF WishesAreKept
<1> QED BY <1>1, <1>2, <1>3, PTL DEF JobsSpec
=============================================================================
