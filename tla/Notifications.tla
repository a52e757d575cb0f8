---------------------------- MODULE Notifications ----------------------------
(***************************************************************************)
(* The notification queue.  Send stores an item for each channel and       *)
(* starts a goroutine that delivers it at once; a poller lists the pending *)
(* items every 30 s and delivers them one after the other; the retry       *)
(* handler makes any item pending again.  None of them claims an item.     *)
(* The server may crash and restart.                                       *)
(*                                                                         *)
(* The database is SQLite.  Over Postgres nothing is ever stored: the      *)
(* empty template_id is no UUID, so only the goroutine's attempt is left.  *)
(***************************************************************************)
EXTENDS Naturals

CONSTANTS Items,       \* notifications, one for each channel
          Silent,      \* those of a channel that reports no failure: WhatsApp,
                       \* which falls back to a link, and SMS when disabled
          MaxRetries,  \* NotificationQueueItem.MaxRetries
          MaxRequeues, \* bound on the calls of the retry handler for an item
          MaxCrashes,  \* bound on crashes
          NoItem       \* nothing

ASSUME SilentAssumption      == Silent \subseteq Items
ASSUME MaxRetriesAssumption  == MaxRetries \in Nat \ {0}
ASSUME MaxRequeuesAssumption == MaxRequeues \in Nat
ASSUME MaxCrashesAssumption  == MaxCrashes \in Nat

VARIABLES
  row,        \* row[i]: item i in the database, or NoItem
  sender,     \* sender[i]: where the goroutine delivering item i is
  batch,      \* batch[i]: the retries of item i when the poller listed it
  poller,     \* what the poller is doing, and with which item
  sends,      \* sends[i]: how often delivering item i was tried
  delivered,  \* the items delivered at least once
  requeues,   \* requeues[i]: how often the retry handler was called for i
  crashes     \* how often the server has crashed

vars == <<row, sender, batch, poller, sends, delivered, requeues, crashes>>

Row == [status: {"pending", "processing", "sent", "failed", "dead_letter"},
        retries: 0..MaxRetries]

ASSUME NoItemAssumption == NoItem \notin Items \cup Nat \cup Row

Idle    == [pc |-> "idle", item |-> NoItem]
NoBatch == [i \in Items |-> NoItem]

Init ==
  /\ row = [i \in Items |-> NoItem]
  /\ sender = [i \in Items |-> "none"]
  /\ batch = NoBatch
  /\ poller = Idle
  /\ sends = [i \in Items |-> 0]
  /\ delivered = {}
  /\ requeues = [i \in Items |-> 0]
  /\ crashes = 0

Exists(i) == row[i] # NoItem
Is(i, status) == Exists(i) /\ row[i].status = status

(* sendEmail, sendSMS or sendWhatsApp, which reports ok or not.  A message *)
(* may have arrived although an error was reported.                        *)
Deliver(i, ok) ==
  /\ i \in Silent => ok
  /\ sends' = [sends EXCEPT ![i] = @ + 1]
  /\ \E arrived \in BOOLEAN :
       /\ ok => arrived \/ i \in Silent
       /\ delivered' = IF arrived THEN delivered \cup {i} ELSE delivered

-----------------------------------------------------------------------------
(* Send and its goroutine *)

(* Mutated form: a status the poller does not know *)
EnqueuedQueued == [status |-> "queued", retries |-> 0]
Enqueued == [status |-> "pending", retries |-> 0]

Send(i) ==
  /\ ~Exists(i)
  /\ row' = [row EXCEPT ![i] = Enqueued]
  /\ sender' = [sender EXCEPT ![i] = "send"]
  /\ UNCHANGED <<batch, poller, sends, delivered, requeues, crashes>>

SendAsync(i) ==
  /\ sender[i] = "send"
  /\ \E ok \in BOOLEAN :
       /\ Deliver(i, ok)
       /\ sender' = [sender EXCEPT ![i] = IF ok THEN "sent" ELSE "failed"]
  /\ UNCHANGED <<row, batch, poller, requeues, crashes>>

(* Only the status is updated, whatever it is by now *)
SendAsyncUpdates(i) ==
  /\ sender[i] \in {"sent", "failed"}
  /\ row' = [row EXCEPT ![i].status = sender[i]]
  /\ sender' = [sender EXCEPT ![i] = "done"]
  /\ UNCHANGED <<batch, poller, sends, delivered, requeues, crashes>>

-----------------------------------------------------------------------------
(* processQueue *)

Listed == {i \in Items : Is(i, "pending")}

PollerLists ==
  /\ poller = Idle
  /\ batch = NoBatch
  /\ Listed # {}
  /\ batch' = [i \in Items |-> IF i \in Listed THEN row[i].retries ELSE NoItem]
  /\ UNCHANGED <<row, sender, poller, sends, delivered, requeues, crashes>>

(* Mutated form: the item stays pending while it is delivered *)
Unmarked(i) == row[i]
Marked(i)   == [row[i] EXCEPT !.status = "processing"]

PollerMarks(i) ==
  /\ poller = Idle
  /\ batch[i] # NoItem
  /\ row' = [row EXCEPT ![i] = Marked(i)]
  /\ poller' = [pc |-> "deliver", item |-> i]
  /\ UNCHANGED <<sender, batch, sends, delivered, requeues, crashes>>

PollerDelivers(i) ==
  /\ poller = [pc |-> "deliver", item |-> i]
  /\ \E ok \in BOOLEAN :
       /\ Deliver(i, ok)
       /\ poller' = [pc |-> IF ok THEN "sent" ELSE "failed", item |-> i]
  /\ UNCHANGED <<row, sender, batch, requeues, crashes>>

(* The row that is saved: as it was listed, with what has become of it *)
Settled(retries, ok) ==
  IF ok THEN [status |-> "sent", retries |-> retries]
  ELSE [status  |-> IF retries + 1 >= MaxRetries THEN "dead_letter" ELSE "failed",
        retries |-> retries + 1]

PollerSaves(i) ==
  /\ poller.item = i
  /\ poller.pc \in {"sent", "failed"}
  /\ row' = [row EXCEPT ![i] = Settled(batch[i], poller.pc = "sent")]
  /\ batch' = [batch EXCEPT ![i] = NoItem]
  /\ poller' = Idle
  /\ UNCHANGED <<sender, sends, delivered, requeues, crashes>>

-----------------------------------------------------------------------------
(* The retry handler updates the row whatever its status is *)
Requeued(i) == [status |-> "pending", retries |-> 0]

Requeue(i) ==
  /\ Exists(i)
  /\ requeues[i] < MaxRequeues
  /\ requeues' = [requeues EXCEPT ![i] = @ + 1]
  /\ row' = [row EXCEPT ![i] = Requeued(i)]
  /\ UNCHANGED <<sender, batch, poller, sends, delivered, crashes>>

(* Goroutines and the poller's list are gone; the rows stay *)
Crash ==
  /\ crashes < MaxCrashes
  /\ crashes' = crashes + 1
  /\ sender' = [i \in Items |-> IF sender[i] = "none" THEN "none" ELSE "done"]
  /\ batch' = NoBatch
  /\ poller' = Idle
  /\ UNCHANGED <<row, sends, delivered, requeues>>

Sender(i) == SendAsync(i) \/ SendAsyncUpdates(i)
PollItem(i) == PollerMarks(i) \/ PollerDelivers(i) \/ PollerSaves(i)
Poller == PollerLists \/ \E i \in Items : PollItem(i)

Next == \/ \E i \in Items : Send(i) \/ Sender(i) \/ Requeue(i)
        \/ Poller
        \/ Crash

Spec == Init /\ [][Next]_vars

(* The goroutine runs; the ticker calls the poller, which works off its    *)
(* list to the end before it lists again                                   *)
FairSpec == /\ Spec
            /\ \A i \in Items : WF_vars(Sender(i))
            /\ WF_vars(Poller)

-----------------------------------------------------------------------------
(* Types; a row's retries stay within its limit. *)
TypeOK ==
  /\ row \in [Items -> Row \cup {NoItem}]
  /\ sender \in [Items -> {"none", "send", "sent", "failed", "done"}]
  /\ batch \in [Items -> 0..MaxRetries \cup {NoItem}]
  /\ poller \in [pc: {"idle", "deliver", "sent", "failed"},
                 item: Items \cup {NoItem}]
  /\ sends \in [Items -> Nat]
  /\ delivered \subseteq Items
  /\ requeues \in [Items -> 0..MaxRequeues]
  /\ crashes \in 0..MaxCrashes

(* However the goroutine, the poller, retries and crashes interleave, an   *)
(* item shown as sent was delivered, if its channel reports failures.      *)
SentWasDelivered ==
  \A i \in Items : Is(i, "sent") => i \in delivered \cup Silent

(* An item is delivered at most once by its goroutine, once by the poller, *)
(* and once more for each call of the retry handler: crashes and the       *)
(* poller's stale rows never repeat a delivery.                            *)
SendsAreBounded == \A i \in Items : sends[i] <= 2 + requeues[i]

(* No item is ever given up as a dead letter, however often it fails: only *)
(* the retry handler makes a failed item pending, and starts it afresh.    *)
NoDeadLetters == MaxRetries > 1 => \A i \in Items : ~Is(i, "dead_letter")

(* A notification that is stored is tried, though the goroutine dies with  *)
(* the server, unless it dies while the poller, too, holds the item: such  *)
(* an item is processing for ever.                                         *)
StoredIsTried ==
  \A i \in Items :
    Exists(i) ~> (sends[i] > 0 \/ (crashes > 0 /\ Is(i, "processing")))
=============================================================================
