------------------------------- MODULE MCAccounts -------------------------------
(* A user's account, the encrypted columns of its row, the rate limiter in   *)
(* front, the tenant's team, or its connections to other services, of which  *)
(* one is looked at in each behaviour: the account takes its row to be       *)
(* readable, and knows the limiter by its lock.                              *)
EXTENDS Accounts, TLC

CONSTANTS Clients, Callers, Rate, AuthRate, SensitiveRate, WebhookRate, Window, Hour,
          Columns, Texts, Empty, Decodable,
          Members, Asked, MaxRuns,   \* of the team
          Ids, Invoices              \* of the connections

ASSUME RatesAssumption  == {Rate, AuthRate, SensitiveRate, WebhookRate} \subseteq Nat \ {0}
ASSUME WindowAssumption == Window \in Nat \ {0}
ASSUME HourAssumption   == Hour \in Nat /\ Hour > Window
ASSUME CallersAssumption == None \notin Clients \cup Callers
ASSUME RolesAssumption  ==
  None \notin {"owner", "admin", "manager", "finance", "staff", "viewer"}

ASSUME MembersAssumption == Members # {}
ASSUME RequestsAssumption == IsFiniteSet(Requests)
ASSUME IdsAssumption == Ids \subseteq Nat /\ None \notin Ids

VARIABLES
  part,                                    \* which of the five
  known, count, redis, holder, call, log,
  row, saver, alone,
  role, granted, asks, invites, runs, abdicated,
  rows, page, errand, expired, unpaid, posted, wanted, amiss

L == INSTANCE RateLimiter WITH Requests <- Callers, req <- call, NoClient <- None
E == INSTANCE EncryptedFields WITH Savers <- Callers
T == INSTANCE Team WITH Requests <- Callers, tokens <- granted, req <- asks
I == INSTANCE Integrations WITH req <- errand

ASSUME LinksAssumption ==
  None \notin [provider: I!Providers, active: BOOLEAN,
               config: [what: {"form", "tokens"}, by: Requests, secret: {"given", "mask"}]]
ASSUME ClientAssumption == None \notin [times: L!Times, idle: Nat]

limiter == <<known, count, redis, holder, call, log>>
columns == <<row, saver, alone>>
team    == <<role, granted, asks, invites, runs, abdicated>>
links   == <<rows, page, errand, expired, unpaid, posted, wanted, amiss>>
all     == <<part, vars, limiter, columns, team, links>>

AccessInit ==
  /\ Init /\ L!Init /\ E!Init /\ T!Init /\ I!Init
  /\ part \in {"account", "limiter", "columns", "team", "links"}
  /\ part # "limiter" => ~redis
  /\ part # "account" => mode = "serial" /\ user.factor = "off"
  /\ part # "columns" => alone /\ E!Opened = [c \in Columns |-> Empty]
  /\ part # "team" => \A m \in Members : role[m] \in {"owner", "finance"}
  /\ part # "links" => unpaid = {}

AccountStep == part = "account" /\ UNCHANGED <<part, limiter, columns, team, links>>
LimiterStep == part = "limiter" /\ UNCHANGED <<part, vars, columns, team, links>>
ColumnsStep == part = "columns" /\ UNCHANGED <<part, vars, limiter, team, links>>
TeamStep    == part = "team" /\ UNCHANGED <<part, vars, limiter, columns, links>>
LinksStep   == part = "links" /\ UNCHANGED <<part, vars, limiter, columns, team>>

AccessNext ==
  \/ AccountStep /\ Next
  \/ LimiterStep /\ L!Next
  \/ ColumnsStep /\ E!Next
  \/ TeamStep /\ T!Next
  \/ LinksStep /\ I!Next

(* Go's mutex hands itself to whoever has waited for a millisecond, and a   *)
(* handler ends or hangs.                                                   *)
AccessFairness ==
  \A r \in Callers : /\ SF_<<part, limiter>>(LimiterStep /\ L!Passes(r))
                     /\ WF_<<part, limiter>>(LimiterStep /\ L!Ends(r))

AccessSpec == AccessInit /\ [][AccessNext]_all /\ AccessFairness

-----------------------------------------------------------------------------
(* No more requests of a client pass the limit of /auth in a window than it *)
(* allows, unless, with Redis, its list was dropped.  A tenant has its owner *)
(* until he gives that up himself.  A provider has the one row, as it was    *)
(* asked for last, unless saves crossed or QuickBooks was connected twice,   *)
(* and an invoice is in QuickBooks once for each synchronisation at most.    *)
AccessIsSound == L!WindowHeld /\ T!OwnerStays /\ I!ConnectionsStand

(* Every request is answered, unless a handler behind the lock never ends.  *)
EveryoneIsAnswered == L!EveryoneIsAnswered

(* A row with a column in the clear is made readable again by no later      *)
(* request, only by one that had found it before.  A member's role is       *)
(* changed, or he removed, by somebody entitled to, unless a token or a row  *)
(* that was read is older than what it tells.                               *)
RowsChangeByRight == E!BrokenStaysBroken /\ T!GrantsStand
=============================================================================
