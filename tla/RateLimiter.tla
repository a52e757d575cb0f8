------------------------------- MODULE RateLimiter -------------------------------
(***************************************************************************)
(* The limits on how often a client may ask.  Every request passes the     *)
(* general limit, counted in Redis if there is one; those to /auth, the    *)
(* onboarding and the webhooks then pass a stricter one, counted in this   *)
(* process.  There a client has one list of the times its requests passed, *)
(* whatever limit they passed, and all clients share one lock.             *)
(*                                                                         *)
(* AuthRateLimiter keeps that lock until the handler behind it is done.    *)
(* It does not note the time of the last check, by which the clean-up      *)
(* tells the clients that have gone.                                       *)
(*                                                                         *)
(* Time is counted in ticks, of which a window has Window; a list is the   *)
(* number of times of each age.  A request takes at most a tick, unless    *)
(* the handler behind AuthRateLimiter hangs.                               *)
(***************************************************************************)
EXTENDS Naturals, FiniteSets

CONSTANTS Clients,        \* clients, told apart by their addresses
          Requests,       \* requests there are at once
          Rate,           \* passes of the general limit in a window
          AuthRate,       \* passes of the limit of /auth
          SensitiveRate,  \* of the onboarding
          WebhookRate,    \* and of the webhooks
          Window,         \* ticks of a window
          Hour,           \* ticks after which an unchecked client has gone
          NoClient        \* nothing is known of a client, or asked by one

VARIABLES
  known,   \* known[c]: the list of client c, and when it was last checked
  count,   \* count[c]: what Redis has counted, and for how many more ticks
  redis,   \* whether there is a Redis: the configuration decides
  holder,  \* the request behind AuthRateLimiter, which has the lock
  req,     \* req[r]: where request r is, whose and for what it is, and
           \* whether a tick has passed since it came
  log      \* log[c]: how many passes of /auth there are of each age
           \* (a history variable)

vars == <<known, count, redis, holder, req, log>>

Routes == {"api", "auth", "onboarding", "webhook"}
Ages   == 0..(Window - 1)
Times  == [Ages -> Nat]

NoTimes == [a \in Ages |-> 0]
Idle    == [pc |-> "idle", client |-> NoClient, route |-> "api", late |-> FALSE]

Init ==
  /\ known = [c \in Clients |-> NoClient]
  /\ count = [c \in Clients |-> [passed |-> 0, left |-> 0]]
  /\ redis \in BOOLEAN
  /\ holder = NoClient
  /\ req = [r \in Requests |-> Idle]
  /\ log = [c \in Clients |-> NoTimes]

(* A time is in the window until it is as old as the window *)
Passed(times) == UNION {{a} \X (1..times[a]) : a \in Ages}
Valid(times)  == Cardinality(Passed(times))

Now(times)  == [times EXCEPT ![0] = @ + 1]
Aged(times) == [a \in Ages |-> IF a = 0 THEN 0 ELSE times[a - 1]]

List(c) == IF known[c] = NoClient THEN NoTimes ELSE known[c].times

Under(c, rate) == known[c] = NoClient \/ Valid(List(c)) < rate

-----------------------------------------------------------------------------
(* A request on its way *)

Comes(r) ==
  /\ req[r] = Idle
  /\ \E c \in Clients, route \in Routes :
       req' = [req EXCEPT ![r] = [pc |-> "general", client |-> c, route |-> route, late |-> FALSE]]
  /\ UNCHANGED <<known, count, redis, holder, log>>

Answered(r) == req' = [req EXCEPT ![r] = Idle]

(* What comes after the general limit; handlers with no limit of their own *)
(* change nothing here                                                     *)
Onward(r) ==
  IF req[r].route = "api" THEN Answered(r) ELSE req' = [req EXCEPT ![r].pc = "strict"]

(* AuthRateLimiter keeps the time of the last check of a known client *)
AuthPass(c) ==
  [times |-> Now(List(c)), idle |-> IF known[c] = NoClient THEN 0 ELSE known[c].idle]

(* allowWithRate sets it (mutated form: like AuthRateLimiter) *)
UncheckedPass(c) == AuthPass(c)
Pass(c)          == [times |-> Now(List(c)), idle |-> 0]

(* The general limit without Redis *)
AllowForEndpoint(r) ==
  /\ req[r].pc = "general" /\ ~redis /\ holder = NoClient
  /\ LET c == req[r].client
     IN IF Under(c, Rate)
        THEN known' = [known EXCEPT ![c] = Pass(c)] /\ Onward(r)
        ELSE Answered(r) /\ UNCHANGED known
  /\ UNCHANGED <<count, redis, holder, log>>

(* With Redis every request is counted, refused ones too, and puts the     *)
(* count's end off; if Redis fails, the request passes                     *)
Allow(r) ==
  /\ req[r].pc = "general" /\ redis
  /\ \/ LET c == req[r].client
            n == IF count[c].passed > Rate THEN count[c].passed ELSE count[c].passed + 1
        IN /\ count' = [count EXCEPT ![c] = [passed |-> n, left |-> Window]]
           /\ IF n <= Rate THEN Onward(r) ELSE Answered(r)
     \/ Onward(r) /\ UNCHANGED count
  /\ UNCHANGED <<known, redis, holder, log>>

(* The limits of the onboarding and of the webhooks *)
AllowWithRate(r) ==
  /\ req[r].pc = "strict" /\ req[r].route # "auth" /\ holder = NoClient
  /\ LET c == req[r].client
         rate == IF req[r].route = "onboarding" THEN SensitiveRate ELSE WebhookRate
     IN known' = IF Under(c, rate) THEN [known EXCEPT ![c] = Pass(c)] ELSE known
  /\ Answered(r)
  /\ UNCHANGED <<count, redis, holder, log>>

(* Mutated form: a refusal keeps the lock *)
RefusedHolding(r) == req' = [req EXCEPT ![r] = Idle] /\ holder' = r
Refused(r)        == Answered(r) /\ UNCHANGED holder

AuthRateLimiter(r) ==
  /\ req[r].pc = "strict" /\ req[r].route = "auth" /\ holder = NoClient
  /\ LET c == req[r].client
     IN IF Under(c, AuthRate)
        THEN /\ known' = [known EXCEPT ![c] = AuthPass(c)]
             /\ log' = [log EXCEPT ![c] = Now(@)]
             /\ holder' = r
             /\ req' = [req EXCEPT ![r].pc = "handler"]
        ELSE Refused(r) /\ UNCHANGED <<known, log>>
  /\ UNCHANGED <<count, redis>>

(* The handler of /auth ends, and with it the limiter *)
HandlerEnds(r) ==
  /\ req[r].pc = "handler"
  /\ holder' = NoClient
  /\ Answered(r)
  /\ UNCHANGED <<known, count, redis, log>>

(* It waits for ever, say for the only connection of the database, kept by *)
(* a transaction that waits for it too (Hung of KRASubmission)             *)
HandlerHangs(r) ==
  /\ req[r].pc = "handler"
  /\ req' = [req EXCEPT ![r].pc = "hangs"]
  /\ UNCHANGED <<known, count, redis, holder, log>>

Hangs == \E r \in Requests : req[r].pc = "hangs"

-----------------------------------------------------------------------------
(* Every five minutes the clients that have gone are forgotten; when the   *)
(* ticker ticks is left open                                               *)

Gone(c) == known[c] # NoClient /\ known[c].idle > Hour

Cleanup ==
  /\ holder = NoClient
  /\ \E c \in Clients : Gone(c)
  /\ known' = [c \in Clients |-> IF Gone(c) THEN NoClient ELSE known[c]]
  /\ log' = [c \in Clients |-> IF redis /\ Gone(c) THEN NoTimes ELSE log[c]]
  /\ UNCHANGED <<count, redis, holder, req>>

Older(client) ==
  IF client = NoClient THEN NoClient
  ELSE [times |-> Aged(client.times),
        idle  |-> IF client.idle > Hour THEN client.idle ELSE client.idle + 1]

Tick ==
  /\ Hangs \/ \A r \in Requests : ~req[r].late
  /\ known' = [c \in Clients |-> Older(known[c])]
  /\ count' = [c \in Clients |-> IF count[c].left <= 1 THEN [passed |-> 0, left |-> 0]
                                 ELSE [count[c] EXCEPT !.left = @ - 1]]
  /\ log' = [c \in Clients |-> Aged(log[c])]
  /\ req' = [r \in Requests |-> [req[r] EXCEPT !.late = req[r] # Idle]]
  /\ UNCHANGED <<redis, holder>>

Passes(r) == AllowForEndpoint(r) \/ Allow(r) \/ AllowWithRate(r) \/ AuthRateLimiter(r)
Ends(r)   == HandlerEnds(r) \/ HandlerHangs(r)

Next ==
  \/ \E r \in Requests : Comes(r) \/ Passes(r) \/ Ends(r)
  \/ Cleanup
  \/ Tick

(* Go's mutex hands itself to whoever has waited for a millisecond, and a  *)
(* handler ends or hangs                                                   *)
Fairness == \A r \in Requests : SF_vars(Passes(r)) /\ WF_vars(Ends(r))

Spec == Init /\ [][Next]_vars /\ Fairness

-----------------------------------------------------------------------------
(* Types. *)
TypeOK ==
  /\ known \in [Clients -> [times: Times, idle: 0..(Hour + 1)] \cup {NoClient}]
  /\ count \in [Clients -> [passed: 0..(Rate + 1), left: 0..Window]]
  /\ redis \in BOOLEAN
  /\ holder \in Requests \cup {NoClient}
  /\ req \in [Requests -> [pc: {"idle", "general", "strict", "handler", "hangs"},
                           client: Clients \cup {NoClient}, route: Routes, late: BOOLEAN]]
  /\ log \in [Clients -> Times]

(* No more requests of a client pass the limit of /auth in a window than it *)
(* allows, though its list is dropped once the client is not checked for an *)
(* hour: without Redis the general limit has checked each of them before.   *)
(* With Redis the limit holds only while the list is not dropped.           *)
WindowHeld == \A c \in Clients : Valid(log[c]) <= AuthRate

(* Every request is answered, though one lock stands before all of them and *)
(* is kept while a handler runs; unless that handler never ends.            *)
EveryoneIsAnswered == \A r \in Requests : req[r] # Idle ~> (req[r] = Idle \/ Hangs)
=============================================================================
