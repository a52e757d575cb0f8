------------------------------ MODULE Registration ------------------------------
(***************************************************************************)
(* How a tenant comes about, and how its owner verifies the address.       *)
(* Registering creates the tenant, the user, a trial subscription and a    *)
(* usage counter, in statements of their own.  A replica that starts gives *)
(* a trial to every tenant that has no subscription.                       *)
(*                                                                         *)
(* An address is looked up in small letters and stored as it was typed;    *)
(* codes are only sent to one typed in small letters.  Any statement of    *)
(* these may fail.                                                         *)
(***************************************************************************)
EXTENDS Naturals, Sequences

CONSTANTS Requests,   \* requests; each also names the tenant it registers
          Before,     \* names a tenant that may be there from the first
          Replicas,   \* replicas that start
          Addresses,  \* e-mail addresses, apart from how they are typed
          Companies,  \* names of companies
          Codes,      \* hashes of codes
          MaxFaults,  \* bound on crashes and failed statements
          None        \* nothing, or a name too short to be a subdomain

VARIABLES
  tenants,  \* tenants[t]: the form with which t was registered, or None
  users,    \* those of them that have a user, its owner
  subs,     \* those that have a subscription
  usage,    \* and those that have a usage counter
  tokens,   \* verification tokens, in the order of their creation
  req,      \* req[r]: where request r is, whose it is, what it has read
  starts,   \* starts[n]: where replica n's start is, tenants left, the one it is at
  faults    \* how often a server has crashed or a statement failed

vars == <<tenants, users, subs, usage, tokens, req, starts, faults>>

Form == [address: Addresses, capitals: BOOLEAN, company: Companies \cup {None}]

Names == Requests \cup {Before}

Token(id, u, code, used) == [id |-> id, user |-> u, code |-> code, used |-> used]

Init ==
  /\ users \in {{}, {Before}}
  /\ \E form \in Form : tenants = [t \in Names |-> IF t \in users THEN form ELSE None]
  /\ subs = users
  /\ usage = users
  /\ tokens \in {<<>>} \cup {<<Token(t, t, code, FALSE)>> : t \in {u \in users : ~tenants[u].capitals}, code \in Codes}
  /\ req = [r \in Requests |-> [pc |-> "new", user |-> None, read |-> None]]
  /\ starts = [n \in Replicas |-> [pc |-> "new", left |-> {}, tenant |-> None]]
  /\ faults = 0

Registered == {t \in Names : tenants[t] # None}

Goes(r, pc, user, read) == req' = [req EXCEPT ![r] = [pc |-> pc, user |-> user, read |-> read]]
Ends(r)                 == Goes(r, "done", None, None)

Fault   == faults < MaxFaults /\ faults' = faults + 1
NoFault == UNCHANGED faults

(* Two addresses are the same to the index as they were typed *)
Typed(form, other) == form.address = other.address /\ form.capitals = other.capitals

Verified(u) == \E i \in DOMAIN tokens : tokens[i].user = u /\ tokens[i].used

-----------------------------------------------------------------------------
(* Register.  The address is looked up in small letters (mutated form: a   *)
(* user who is not verified yet is no obstacle).  A lookup that fails is   *)
(* taken for one that found nobody: knew is whom it could have found.      *)
KnownVerified(form) ==
  \E u \in users : tenants[u].address = form.address /\ ~tenants[u].capitals /\ Verified(u)
Known(form) == \E u \in users : tenants[u].address = form.address /\ ~tenants[u].capitals

Register(r) ==
  /\ req[r].pc = "new"
  /\ \E form \in Form :
       \/ Known(form) /\ Ends(r) /\ NoFault
       \/ ~Known(form) /\ Goes(r, "tenant", r, [form |-> form, knew |-> users]) /\ NoFault
       \/ Goes(r, "tenant", r, [form |-> form, knew |-> {}]) /\ Fault
  /\ UNCHANGED <<tenants, users, subs, usage, tokens, starts>>

(* The company's name makes the subdomain, which is unique *)
CreatesTenant(r) ==
  /\ req[r].pc = "tenant"
  /\ LET form  == req[r].read.form
         taken == form.company # None /\ \E t \in Registered : tenants[t].company = form.company
     IN \/ /\ ~taken /\ NoFault
           /\ Goes(r, "user", r, req[r].read)
           /\ tenants' = [tenants EXCEPT ![r] = form]
        \/ /\ (taken /\ NoFault) \/ Fault
           /\ Ends(r) /\ UNCHANGED tenants
  /\ UNCHANGED <<users, subs, usage, tokens, starts>>

(* The tenant stays, whatever its user is refused for *)
CreatesUser(r) ==
  /\ req[r].pc = "user"
  /\ \/ /\ NoFault
        /\ IF \E u \in users : Typed(tenants[u], tenants[r])
           THEN Goes(r, "refused", r, req[r].read) /\ UNCHANGED users
           ELSE Goes(r, "subscription", r, None) /\ users' = users \cup {r}
     \/ Fault /\ Goes(r, "failed", None, None) /\ UNCHANGED users
  /\ UNCHANGED <<tenants, subs, usage, tokens, starts>>

(* That there is a subscription or a counter already, or that none can be  *)
(* stored, is only logged                                                  *)
CreatesSubscription(r) ==
  /\ req[r].pc = "subscription"
  /\ (NoFault /\ subs' = subs \cup {r}) \/ (Fault /\ UNCHANGED subs)
  /\ Goes(r, "usage", r, None)
  /\ UNCHANGED <<tenants, users, usage, tokens, starts>>

CreatesUsage(r) ==
  /\ req[r].pc = "usage"
  /\ (NoFault /\ usage' = usage \cup {r}) \/ (Fault /\ UNCHANGED usage)
  /\ Goes(r, "registered", r, None)
  /\ UNCHANGED <<tenants, users, subs, tokens, starts>>

-----------------------------------------------------------------------------
(* Verification codes *)

(* What was sent and not used is deleted; if that fails, it stays *)
SendVerificationCode(r, u) ==
  /\ IF tenants[u].capitals
     THEN Ends(r) /\ NoFault /\ UNCHANGED tokens
     ELSE /\ Goes(r, "code", u, None)
          /\ \/ NoFault /\ tokens' = SelectSeq(tokens, LAMBDA t : t.user # u \/ t.used)
             \/ Fault /\ UNCHANGED tokens
  /\ UNCHANGED <<tenants, users, subs, usage, starts>>

(* The onboarding sends a code when it has registered a user, and again    *)
(* when asked                                                              *)
HandleOnboardingRegister(r) == req[r].pc = "registered" /\ SendVerificationCode(r, r)

HandleResendCode(r) == req[r].pc = "new" /\ \E u \in users : SendVerificationCode(r, u)

(* A hash is unique among all users' codes, used ones included *)
Free(code) == \A i \in DOMAIN tokens : tokens[i].code # code

CreatesCode(r) ==
  /\ req[r].pc = "code"
  /\ \E code \in Codes :
       tokens' = IF Free(code) THEN Append(tokens, Token(r, req[r].user, code, FALSE))
                               ELSE tokens
  /\ Ends(r)
  /\ UNCHANGED <<tenants, users, subs, usage, starts, faults>>

(* The latest code counts; a wrong or an expired one changes nothing *)
VerifyEmailCode(r) ==
  /\ req[r].pc = "new"
  /\ \E u \in users :
       LET unused == SelectSeq(tokens, LAMBDA t : t.user = u /\ ~t.used)
       IN /\ unused # <<>>
          /\ Goes(r, "verify", u, unused[Len(unused)])
  /\ UNCHANGED <<tenants, users, subs, usage, tokens, starts, faults>>

(* Saving stores a code again that was deleted since, if its hash is free *)
MarksUsed(r) ==
  LET token == req[r].read
      at    == {i \in DOMAIN tokens : tokens[i].id = token.id}
      used  == [token EXCEPT !.used = TRUE]
  IN /\ req[r].pc = "verify"
     /\ \/ /\ NoFault
           /\ tokens' = IF at # {} THEN [i \in DOMAIN tokens |-> IF i \in at THEN used ELSE tokens[i]]
                        ELSE IF Free(token.code) THEN Append(tokens, used) ELSE tokens
        \/ Fault /\ UNCHANGED tokens
     /\ Ends(r)
     /\ UNCHANGED <<tenants, users, subs, usage, starts>>

-----------------------------------------------------------------------------
(* MigrateUsersWithoutSubscription, tenant by tenant of those it lists     *)
Lists(n) ==
  /\ starts[n].pc = "new"
  /\ starts' = [starts EXCEPT ![n] = [pc |-> "next", left |-> Registered, tenant |-> None]]
  /\ UNCHANGED <<tenants, users, subs, usage, tokens, req, faults>>

Looks(n) ==
  /\ starts[n].pc = "next"
  /\ IF starts[n].left = {}
     THEN starts' = [starts EXCEPT ![n].pc = "done"] /\ NoFault
     ELSE \E t \in starts[n].left, has \in BOOLEAN :
            /\ ((has <=> t \in subs) /\ NoFault) \/ (~has /\ Fault)
            /\ starts' = [starts EXCEPT ![n] = [pc |-> IF has THEN "next" ELSE "subscription",
                                                left |-> @.left \ {t}, tenant |-> t]]
  /\ UNCHANGED <<tenants, users, subs, usage, tokens, req>>

GivesTrial(n) ==
  LET t == starts[n].tenant
  IN /\ starts[n].pc = "subscription"
     /\ \/ /\ t \notin subs /\ NoFault
           /\ subs' = subs \cup {t}
           /\ starts' = [starts EXCEPT ![n].pc = "usage"]
        \/ /\ (t \in subs /\ NoFault) \/ Fault
           /\ UNCHANGED subs
           /\ starts' = [starts EXCEPT ![n].pc = "next"]
     /\ UNCHANGED <<tenants, users, usage, tokens, req>>

GivesUsage(n) ==
  /\ starts[n].pc = "usage"
  /\ (NoFault /\ usage' = usage \cup {starts[n].tenant}) \/ (Fault /\ UNCHANGED usage)
  /\ starts' = [starts EXCEPT ![n].pc = "next"]
  /\ UNCHANGED <<tenants, users, subs, tokens, req>>

(* A server goes down, and with it the requests it is at: all, or, with    *)
(* replicas, some                                                          *)
Crash ==
  /\ Fault
  /\ \E R \in SUBSET Requests, N \in SUBSET Replicas :
       /\ req' = [r \in Requests |-> IF r \in R /\ req[r].pc \notin {"new", "done", "refused", "failed"}
                                     THEN [pc |-> "crashed", user |-> None, read |-> None] ELSE req[r]]
       /\ starts' = [n \in Replicas |-> IF n \in N /\ starts[n].pc # "new"
                                        THEN [pc |-> "done", left |-> {}, tenant |-> None] ELSE starts[n]]
  /\ UNCHANGED <<tenants, users, subs, usage, tokens>>

Next ==
  \/ \E r \in Requests :
       \/ Register(r) \/ CreatesTenant(r) \/ CreatesUser(r) \/ CreatesSubscription(r) \/ CreatesUsage(r)
       \/ HandleOnboardingRegister(r) \/ HandleResendCode(r) \/ CreatesCode(r)
       \/ VerifyEmailCode(r) \/ MarksUsed(r)
  \/ \E n \in Replicas : Lists(n) \/ Looks(n) \/ GivesTrial(n) \/ GivesUsage(n)
  \/ Crash

Spec == Init /\ [][Next]_vars

-----------------------------------------------------------------------------
(* A tenant left without a user, whose subdomain nobody can register any   *)
(* more, is due to a crash or to a statement that failed, the lookup or    *)
(* the user's own; or to an address with capitals that was there before;   *)
(* or to two registrations of an address that overlap.                     *)
OrphansHaveACause ==
  \A r \in Registered \ users :
    req[r].pc \notin {"user", "crashed", "failed"} =>
      /\ req[r].pc = "refused"
      /\ \E u \in users : /\ Typed(tenants[u], tenants[r])
                          /\ tenants[r].capitals \/ u \notin req[r].read.knew
=============================================================================
