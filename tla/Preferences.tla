------------------------------ MODULE Preferences ------------------------------
(***************************************************************************)
(* A user's preferences, a row for each kind of event, and what a           *)
(* notification does with them: it is shown to him in any case and goes out *)
(* on those of its channels that the event's row leaves on, unless it is a  *)
(* quiet hour of any row.  Creating a row, the database puts its default    *)
(* where the row says FALSE.  Without a row, the tenant's settings replace  *)
(* the channels.  A read that fails finds nothing, and a row that cannot be *)
(* stored is answered like one that was.                                   *)
(*                                                                         *)
(* Quiet hours are any texts, compared with the text of the clock.  A text  *)
(* is its place in their order: that of an hour is Text(hour), and others,  *)
(* as "9:00", stand before, between and after those.                        *)
(***************************************************************************)
EXTENDS Integers

CONSTANTS Events,
          Requests,   \* each for one change of a preference
          Sends,      \* notifications
          Ids,        \* of rows: numbers, drawn at random
          Last,       \* hours of a day, 0 .. Last - 1
          Wishes,     \* what may be asked for: [on, enabled, from, until]
          MaxFaults,  \* bound on failed statements
          None        \* nothing

VARIABLES
  rows,      \* rows[i]: a preference, or None
  tenant,    \* tenant[e]: the channels the tenant's settings, if any, switch on
  hour,      \* what time it is
  req,       \* req[r]: where request r is, its event, its wish, and the row it found
  send,      \* send[s]: where s is, its event, the rows it read and its channels
  shown,     \* the notifications shown to the user
  queued,    \* queued[s]: the channels s went out on, with the hour and wishes then
  wish,      \* history: wish[e]: the last wish for e stored, and whether it was the first
  amiss,     \* history: events of which two requests crossed, or a row in vain looked for
  faults     \* how often a statement has failed

vars == <<rows, tenant, hour, req, send, shown, queued, wish, amiss, faults>>

Channels == {"email", "sms", "whatsapp"}
Asked    == {"email", "whatsapp"}   \* by all that send

NotYet == [at |-> "new", event |-> None, wish |-> None, id |-> None]
Unsent == [at |-> "new", event |-> None, read |-> {}, todo |-> {}, wish |-> None]

Init ==
  /\ rows = [i \in Ids |-> None] /\ wish = [e \in Events |-> None]
  /\ tenant \in [Events -> {{}, {"sms"}}]
  /\ hour = 0
  /\ req = [r \in Requests |-> NotYet]
  /\ send = [s \in Sends |-> Unsent]
  /\ shown = {} /\ amiss = {}
  /\ queued = [s \in Sends |-> {}]
  /\ faults = 0

Fault   == faults < MaxFaults /\ faults' = faults + 1
NoFault == UNCHANGED faults

Tick ==
  /\ hour' = (hour + 1) % Last
  /\ UNCHANGED <<rows, tenant, req, send, shown, queued, wish, amiss, faults>>

-----------------------------------------------------------------------------
(* A change of a preference *)

Of(e)    == {i \in Ids : rows[i] # None /\ rows[i].event = e}
First(e) == IF Of(e) = {} THEN None ELSE CHOOSE i \in Of(e) : \A j \in Of(e) : i <= j

Goes(r, next) == req' = [req EXCEPT ![r] = next]

(* The handler looks for a row, SetPreference once more; when both looks    *)
(* fail, a second row may be created.                                      *)
UpdatePreferences(r, e, w) ==
  /\ req[r] = NotYet
  /\ \E i \in {First(e), None} :
       /\ IF i = First(e) THEN NoFault ELSE Fault
       /\ Goes(r, [at |-> IF i = None THEN "again" ELSE "save", event |-> e, wish |-> w, id |-> i])
  /\ UNCHANGED <<rows, tenant, hour, send, shown, queued, wish, amiss>>

SetPreference(r) ==
  /\ req[r].at = "again"
  /\ \E i \in {First(req[r].event), None} :
       /\ Goes(r, [at |-> IF i = None THEN "create" ELSE "save",
                   event |-> req[r].event, wish |-> req[r].wish, id |-> i])
       /\ \/ i = First(req[r].event) /\ NoFault /\ UNCHANGED amiss
          \/ i # First(req[r].event) /\ Fault /\ amiss' = amiss \cup {req[r].event}
  /\ UNCHANGED <<rows, tenant, hour, send, shown, queued, wish>>

Stored(e, w) == [event |-> e, on |-> w.on, enabled |-> w.enabled, from |-> w.from, until |-> w.until]

(* The database's defaults, where there is nothing to be seen *)
Defaulted(w) == [on |-> w.on \cup {"email"}, enabled |-> TRUE, from |-> w.from, until |-> w.until]

Crossed(e) == \E r, q \in Requests : r # q /\ req[r].event = e /\ req[q].event = e
                                     /\ {req[r].at, req[q].at} \cap {"new", "done"} = {}

Ends(r, w, first) ==
  LET e == req[r].event IN
  /\ wish' = [wish EXCEPT ![e] = [of |-> w, first |-> first]]
  /\ amiss' = IF Crossed(e) THEN amiss \cup {e} ELSE amiss
  /\ Goes(r, [req[r] EXCEPT !.at = "done"])
  /\ UNCHANGED <<tenant, hour, send, shown, queued, faults>>

(* The row there is becomes what was asked for.  Mutated form: but for what *)
(* is switched off, as when only fields that say something are updated.    *)
SavedIfOn(i, e, w) == Stored(e, [w EXCEPT !.on = @ \cup rows[i].on])
Saved(i, e, w)     == Stored(e, w)

SavePreference(r) ==
  /\ req[r].at = "save"
  /\ rows' = [rows EXCEPT ![req[r].id] = Saved(req[r].id, req[r].event, req[r].wish)]
  /\ Ends(r, req[r].wish, FALSE)

CreatePreference(r) ==
  /\ req[r].at = "create"
  /\ \E i \in Ids : rows[i] = None
                    /\ rows' = [rows EXCEPT ![i] = Stored(req[r].event, Defaulted(req[r].wish))]
  /\ Ends(r, req[r].wish, TRUE)

(* The user is told that it was stored. *)
FailsToStore(r) ==
  /\ req[r].at \in {"save", "create"}
  /\ Fault
  /\ Goes(r, [req[r] EXCEPT !.at = "done"])
  /\ UNCHANGED <<rows, tenant, hour, send, shown, queued, wish, amiss>>

-----------------------------------------------------------------------------
(* A notification *)

TenantPrefsToChannels(e) ==
  IF tenant[e] = {} THEN {"email"} ELSE tenant[e]

Rows == {i \in Ids : rows[i] # None}

Begins(s, e, read, todo, known) ==
  send' = [send EXCEPT ![s] = [at |-> "show", event |-> e, read |-> {<<i, rows[i]>> : i \in read},
                               todo |-> todo, wish |-> known]]

(* Preferences that cannot be read are none, nor are such settings.  The    *)
(* wish is that which the notification should go by.                       *)
Send(s, e) ==
  /\ send[s] = Unsent
  /\ \/ /\ Rows # {} /\ NoFault
        /\ Begins(s, e, Rows, Asked, IF e \in amiss THEN None ELSE wish[e])
     \/ /\ IF Rows = {} THEN NoFault ELSE Fault
        /\ Begins(s, e, {}, TenantPrefsToChannels(e), None)
     \/ /\ Rows = {} /\ Fault
        /\ Begins(s, e, {}, {"email"}, None)
  /\ UNCHANGED <<rows, tenant, hour, req, shown, queued, wish, amiss>>

(* If its statement fails nobody is told *)
CreateInAppNotification(s) ==
  /\ send[s].at = "show"
  /\ \/ shown' = shown \cup {s}
     \/ UNCHANGED shown
  /\ send' = [send EXCEPT ![s].at = "channels"]
  /\ UNCHANGED <<rows, tenant, hour, req, queued, wish, amiss, faults>>

(* Of several rows of the event, any may come first *)
On(p, ch) == ch \in p[2].on
ChannelEnabled(s, ch) ==
  LET mine == {p \in send[s].read : p[2].event = send[s].event}
  IN IF mine = {} THEN {TRUE} ELSE {On(p, ch) : p \in mine}

Text(h) == 2 * h + 1

(* Mutated form: hours that end on the next day are none                    *)
QuietSameDay(row, h) == row.from <= Text(h) /\ Text(h) < row.until
Quiet(row, h) ==
  IF row.from > row.until THEN Text(h) >= row.from \/ Text(h) < row.until
                          ELSE Text(h) >= row.from /\ Text(h) < row.until

(* None is the empty text *)
IsQuietHours ==
  \E i \in Ids : /\ rows[i] # None /\ rows[i].enabled
                 /\ rows[i].from # None /\ rows[i].until # None
                 /\ Quiet(rows[i], hour)

GoesOut(s, ch, but) ==
  queued' = [queued EXCEPT ![s] = @ \cup {[channel |-> ch, hour |-> hour, wishes |-> wish, amiss |-> but]}]

Enqueue(s, ch) ==
  /\ send[s].at = "channels" /\ ch \in send[s].todo
  /\ send' = [send EXCEPT ![s].todo = @ \ {ch}]
  /\ \E on \in ChannelEnabled(s, ch) :
       \/ on /\ ~IsQuietHours /\ NoFault /\ GoesOut(s, ch, amiss)
       \/ on /\ IsQuietHours /\ Fault /\ GoesOut(s, ch, Events)
       \/ ~(on /\ ~IsQuietHours) /\ NoFault /\ UNCHANGED queued
  /\ UNCHANGED <<rows, tenant, hour, req, shown, wish, amiss>>

Next ==
  \/ Tick
  \/ \E r \in Requests :
       \/ \E e \in Events, w \in Wishes : UpdatePreferences(r, e, w)
       \/ SetPreference(r) \/ SavePreference(r) \/ CreatePreference(r) \/ FailsToStore(r)
  \/ \E s \in Sends :
       \/ \E e \in Events : Send(s, e)
       \/ CreateInAppNotification(s)
       \/ \E ch \in Channels : Enqueue(s, ch)

Spec == Init /\ [][Next]_vars

-----------------------------------------------------------------------------
(* What the last change stored of an event's preference switched off stays  *)
(* silent, but for mail whose switching off was the first change, and for a *)
(* notification that could not read the preferences.                       *)
SwitchedOffIsSilent ==
  \A s \in Sends : \A m \in queued[s] :
    LET w == send[s].wish
    IN w # None => m.channel \in w.of.on \/ (w.first /\ m.channel = "email")

(* h is reached from the first hour before the last one is *)
Within(h, from, until) == (h - from + Last) % Last < (until - from + Last) % Last

(* No message goes out in hours that the last change stored of any event    *)
(* says are quiet, if both its texts are hours and the preferences could be *)
(* read; not even when the first change said it was no preference at all.   *)
QuietIsQuiet ==
  \A s \in Sends : \A m \in queued[s] : \A e \in Events \ m.amiss :
    LET w == m.wishes[e]
    IN w # None /\ (w.of.enabled \/ w.first)
         => \A h, k \in 0..(Last - 1) :
              w.of.from = Text(h) /\ w.of.until = Text(k) => ~Within(m.hour, h, k)

(* An event has one row, as the last change stored was, unless requests     *)
(* crossed or a row that was there could not be found.                     *)
RowsAreWishes ==
  \A e \in Events \ amiss :
    {rows[i] : i \in Of(e)} =
      IF wish[e] = None THEN {}
      ELSE {Stored(e, IF wish[e].first THEN Defaulted(wish[e].of) ELSE wish[e].of)}

PreferencesStand == SwitchedOffIsSilent /\ QuietIsQuiet /\ RowsAreWishes
=============================================================================
