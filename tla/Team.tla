---------------------------------- MODULE Team ----------------------------------
(***************************************************************************)
(* The members of a tenant and their roles.  What a request may do depends  *)
(* on the role in its access token, which is the member's role at some      *)
(* sign-in, and on the target's row as it was read; what is changed is      *)
(* saved whole, by team requests and by a member's requests about himself.  *)
(* No request accepts an invitation: the registration stores the owner, and *)
(* other members were stored by hand.                                      *)
(***************************************************************************)
EXTENDS Naturals, FiniteSets

CONSTANTS Members,
          Requests,
          Asked,     \* the roles that requests ask for
          MaxRuns,   \* bound on the access tokens issued and expired
          None       \* no row, no target, no request

VARIABLES
  role,        \* role[m]: the role in m's row, or None without one
  tokens,      \* tokens[m]: the roles in the access tokens that m holds
  req,         \* req[r]: who asks what of whom, the token's role, and the role read
  invites,     \* invites[r]: the invitation that request r made
  runs,        \* tokens issued and expired so far
  abdicated    \* history: an owner's request took the owner's role off himself

vars == <<role, tokens, req, invites, runs, abdicated>>

Ask(at, by, with, of, to, read) ==
  [at |-> at, by |-> by, with |-> with, of |-> of, to |-> to, read |-> read]
NotYet == Ask("new", None, None, None, None, None)
Done   == Ask("done", None, None, None, None, None)
Pending(to) == [to |-> to, status |-> "pending"]

Owner == CHOOSE m \in Members : TRUE   \* whoever it is

Init ==
  /\ \E rest \in [Members \ {Owner} -> {"admin", "manager", "finance"}] :
       role = [m \in Members |-> IF m = Owner THEN "owner" ELSE rest[m]]
  /\ tokens = [m \in Members |-> {role[m]}]
  /\ req = [r \in Requests |-> NotYet]
  /\ invites = [r \in Requests |-> None]
  /\ runs = 0 /\ abdicated = FALSE

-----------------------------------------------------------------------------
(* Access tokens: nobody asks whether the row is still as the token says *)

GenerateAccessToken(m) ==
  /\ runs < MaxRuns /\ runs' = runs + 1
  /\ role[m] # None
  /\ tokens' = [tokens EXCEPT ![m] = @ \cup {role[m]}]
  /\ UNCHANGED <<role, req, invites, abdicated>>

Expires(m) ==
  /\ runs < MaxRuns /\ runs' = runs + 1
  /\ \E t \in tokens[m] : tokens' = [tokens EXCEPT ![m] = @ \ {t}]
  /\ UNCHANGED <<role, req, invites, abdicated>>

-----------------------------------------------------------------------------
(* The middleware lets finance pass for a manager, the handlers do not *)

Level == [admin |-> 5, owner |-> 5, manager |-> 4, finance |-> 4, staff |-> 3, viewer |-> 1]

HasPermission(held, required) == Level[held] >= Level[required]
CanManageUsers(held) == \E required \in {"admin", "owner", "manager"} : HasPermission(held, required)

Manages(held)       == CanManageUsers(held) /\ held \in {"owner", "admin", "manager"}
ValidRoles          == {"admin", "manager", "finance", "staff", "viewer"}
MayMakeAdmin(held)  == held \in {"owner", "admin"}
ManagersReach(seen) == seen \in {"staff", "viewer", "finance"}

Goes(r, next) == req' = [req EXCEPT ![r] = next]

(* One that is refused changes nothing *)
Asks(r, m, with) == req[r] = NotYet /\ with \in tokens[m] /\ Manages(with)

InviteMember(r, m, with, to) ==
  /\ Asks(r, m, with)
  /\ to \in ValidRoles
  /\ to = "admin" => MayMakeAdmin(with)
  /\ invites' = [invites EXCEPT ![r] = Pending(to)]
  /\ Goes(r, Done)
  /\ UNCHANGED <<role, tokens, runs, abdicated>>

CancelInvitation(r, m, with, i) ==
  /\ req[r] = NotYet /\ with \in tokens[m] /\ CanManageUsers(with)
  /\ invites[i] # None
  /\ invites' = [invites EXCEPT ![i].status = "cancelled"]
  /\ Goes(r, Done)
  /\ UNCHANGED <<role, tokens, runs, abdicated>>

RemoveMember(r, m, with, of) ==
  /\ Asks(r, m, with)
  /\ of # m
  /\ role[of] \notin {None, "owner"}
  /\ with = "manager" => ManagersReach(role[of])
  /\ Goes(r, Ask("remove", m, with, of, None, role[of]))
  /\ UNCHANGED <<role, tokens, invites, runs, abdicated>>

(* Whose role may be changed (mutated form: the owner's by everybody above) *)
ChangesOwnerToo(with, seen) == with = "manager" => ManagersReach(seen)
Changes(with, seen) ==
  /\ seen = "owner" => with = "owner"
  /\ with = "manager" => ManagersReach(seen)

UpdateMemberRole(r, m, with, of, to) ==
  /\ Asks(r, m, with)
  /\ to \in ValidRoles
  /\ role[of] # None
  /\ Changes(with, role[of])
  /\ to = "admin" => MayMakeAdmin(with)
  /\ Goes(r, Ask("save", m, with, of, to, role[of]))
  /\ UNCHANGED <<role, tokens, invites, runs, abdicated>>

(* A member's requests about himself change other columns of his row *)
UpdateUser(r, m) ==
  /\ req[r] = NotYet
  /\ tokens[m] # {} /\ role[m] # None
  /\ Goes(r, Ask("save", m, role[m], m, role[m], role[m]))
  /\ UNCHANGED <<role, tokens, invites, runs, abdicated>>

(* The row is stored again if it was deleted *)
Saves(r) ==
  /\ req[r].at = "save"
  /\ role' = [role EXCEPT ![req[r].of] = req[r].to]
  /\ abdicated' = (abdicated \/ /\ role[req[r].of] = "owner" /\ req[r].to # "owner"
                                /\ req[r].with = "owner")
  /\ Goes(r, Done)
  /\ UNCHANGED <<tokens, invites, runs>>

Deletes(r) ==
  /\ req[r].at = "remove"
  /\ role' = [role EXCEPT ![req[r].of] = None]
  /\ Goes(r, Done)
  /\ UNCHANGED <<tokens, invites, runs, abdicated>>

(* The statement fails: a row that others refer to is not deleted, say *)
FailsToSave(r) ==
  /\ req[r].at \in {"save", "remove"}
  /\ Goes(r, Done)
  /\ UNCHANGED <<role, tokens, invites, runs, abdicated>>

Next ==
  \/ \E m \in Members : GenerateAccessToken(m) \/ Expires(m)
  \/ \E r \in Requests, m \in Members :
       \/ UpdateUser(r, m)
       \/ \E with \in tokens[m] :
            \/ \E to \in Asked : InviteMember(r, m, with, to)
            \/ \E i \in Requests : CancelInvitation(r, m, with, i)
            \/ \E of \in Members :
                 \/ RemoveMember(r, m, with, of)
                 \/ \E to \in Asked : UpdateMemberRole(r, m, with, of, to)
  \/ \E r \in Requests : Saves(r) \/ Deletes(r) \/ FailsToSave(r)

Spec == Init /\ [][Next]_vars

-----------------------------------------------------------------------------
(* What the team lists *)
GetTeamMembers == {m \in Members : role[m] # None}
GetInvitations == {r \in Requests : invites[r] # None /\ invites[r].status = "pending"}

(* A tenant has an owner unless he gave that up himself, and nobody is      *)
(* made an owner again but by a row that had been read before.             *)
OwnerStays ==
  /\ ~abdicated => \E m \in Members : role[m] = "owner"
  /\ Cardinality({m \in Members : role[m] = "owner"}) <= 1

(* Who may do that to whom, going by the rows as they are *)
Entitled(by, was, is) ==
  CASE by \in {"owner", "admin"} -> (was = "owner" => by = "owner" /\ is # None) /\ was # None
    [] by = "manager"            -> ManagersReach(was) /\ is # "admin"
    [] OTHER                     -> FALSE

(* A role is changed or a member removed by somebody entitled to, unless    *)
(* his token is older than his role, or his role or the member's changed    *)
(* since he asked; and so it is with a member who is there again.          *)
RolesAreGranted ==
  \A m \in Members : role'[m] # role[m] =>
    \E r \in Requests :
      /\ req[r].of = m /\ req'[r] = Done
      /\ \/ req[r].with # role[req[r].by] \/ req[r].read # role[m]
         \/ Entitled(role[req[r].by], role[m], role'[m]) /\ role'[m] # "owner"

(* The same as an action property of these members *)
GrantsStand == [][RolesAreGranted]_vars
=============================================================================
