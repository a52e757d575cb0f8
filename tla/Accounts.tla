-------------------------------- MODULE Accounts --------------------------------
(***************************************************************************)
(* One user's account: the row with the password, the second factor and    *)
(* the failed logins, the refresh tokens of its sessions, and the tokens   *)
(* that reset the password.  Requests are sequences of statements that     *)
(* interleave; most of them read the row, change a field and save the      *)
(* whole row, which also stores a row again that was deleted meanwhile.    *)
(*                                                                         *)
(* A server over SQLite is one process.  There the requests to /auth take  *)
(* turns: AuthRateLimiter keeps the lock of the rate limiter, which all    *)
(* clients share, until the handler behind it is done.  Over Postgres      *)
(* there are replicas, each with a lock of its own; as many as there are   *)
(* requests, that is, no turns.  There no password can be reset, as the    *)
(* row of the reset token lacks its tenant.                                *)
(***************************************************************************)
EXTENDS Naturals, FiniteSets

CONSTANTS Requests,     \* requests; each also names what it creates: its
                        \* refresh token, its reset token, its new password
          Before,       \* names what there was before the first request
          MaxAttempts,  \* wrong passwords that lock the account
          MaxResets,    \* reset tokens of a user in an hour
          MaxFaults,    \* bound on crashes and failing statements
          None          \* nothing

ASSUME BeforeAssumption   == Before \notin Requests
ASSUME AttemptsAssumption == MaxAttempts \in Nat \ {0}
ASSUME ResetsAssumption   == MaxResets \in Nat \ {0}
ASSUME FaultsAssumption  == MaxFaults \in Nat

VARIABLES
  user,     \* the row, or None when the member was removed
  tokens,   \* refresh tokens: the login they go back to and its password
  resets,   \* resets[n]: n's reset token, "fresh" or "used", or None
  uses,     \* uses[n]: how often that token has set a password
  req,      \* req[r]: where request r is, and what it has read
  mode,     \* "serial" (one process, the requests come one at a time),
            \* "process" (one process over SQLite) or "replicas" (Postgres)
  turn,     \* the request that holds the lock of the rate limiter, or None
  kept,     \* the logins of sessions that a new password should have ended,
            \* had their deletion not failed
  faults    \* how often the server has crashed or a statement failed

vars == <<user, tokens, resets, uses, req, mode, turn, kept, faults>>

Names == Requests \cup {Before}

Row   == [password: Names, factor: {"off", "setup", "on"},
          attempts: 0..(MaxAttempts - 1), locked: BOOLEAN]
Token == [id: Names, login: Names, password: Names]

ASSUME NamesAssumption == Names \cap Row = {}
ASSUME NoneAssumption  == None \notin Names \cup Row \cup Token \cup {"fresh", "used"}

At(pc, read) == [pc |-> pc, read |-> read]
NotYet == At("new", None)
Done   == At("done", None)

Init ==
  /\ \E factor \in {"off", "on"} :
       user = [password |-> Before, factor |-> factor, attempts |-> 0, locked |-> FALSE]
  /\ tokens = {[id |-> Before, login |-> Before, password |-> Before]}
  /\ mode \in {"serial", "process", "replicas"}
  /\ resets = [n \in Names |-> IF n = Before /\ mode # "replicas" THEN "fresh" ELSE None]
  /\ uses = [n \in Names |-> 0]
  /\ req = [r \in Requests |-> NotYet]
  /\ turn = None
  /\ kept = {}
  /\ faults = 0

(* A login with a second factor is two requests *)
Waiting(r) == req[r].pc \in {"new", "code", "done"}
Alone      == mode = "serial" => \A q \in Requests : Waiting(q)
MayCome(r) == req[r] = NotYet /\ Alone

Fault   == faults < MaxFaults /\ faults' = faults + 1
NoFault == UNCHANGED faults

Goes(r, pc, read) == req' = [req EXCEPT ![r] = At(pc, read)] /\ UNCHANGED turn

(* The lock taken before the handler of /auth and freed after it (mutated  *)
(* form: freed before it)                                                  *)
TakesNoTurn(r) == UNCHANGED turn
TakesTurn(r)   == turn = None /\ turn' = IF mode = "replicas" THEN None ELSE r
Leaves(r)      == turn' = IF turn = r THEN None ELSE turn

ComesToAuth(r, pc, read) ==
  /\ MayCome(r)
  /\ TakesTurn(r)
  /\ req' = [req EXCEPT ![r] = At(pc, read)]
Comes(r, pc, read) == MayCome(r) /\ Goes(r, pc, read)
Ends(r)            == req' = [req EXCEPT ![r] = Done] /\ Leaves(r)

-----------------------------------------------------------------------------
(* Login, of /auth or of the onboarding, which takes no turn *)

Login(r) ==
  /\ user # None
  /\ ~user.locked
  /\ \E pc \in {"wrong", "right"} : ComesToAuth(r, pc, user) \/ Comes(r, pc, user)
  /\ UNCHANGED <<user, tokens, resets, uses, mode, kept, faults>>

(* A wrong password *)
Failed(row) ==
  IF row.attempts + 1 >= MaxAttempts THEN [row EXCEPT !.attempts = 0, !.locked = TRUE]
                                     ELSE [row EXCEPT !.attempts = @ + 1]

(* The transaction of a wrong password *)
LoginFails(r) ==
  /\ req[r].pc = "wrong"
  /\ user' = IF user = None THEN None ELSE Failed(user)
  /\ Ends(r)
  /\ UNCHANGED <<tokens, resets, uses, mode, kept, faults>>

Cleared == IF user = None THEN None
           ELSE [user EXCEPT !.attempts = 0, !.locked = FALSE]

(* A failure to clear the failed logins is ignored. *)
LoginClears(r) ==
  /\ req[r].pc = "right"
  /\ (NoFault /\ user' = Cleared) \/ (Fault /\ UNCHANGED user)
  /\ IF req[r].read.factor = "on"
     THEN req' = [req EXCEPT ![r] = At("code", None)] /\ Leaves(r)
     ELSE Goes(r, "issue", req[r].read)
  /\ UNCHANGED <<tokens, resets, uses, mode, kept>>

(* VerifyTwoFactorLogin, which reads the user anew *)
VerifyTwoFactorLogin(r) ==
  /\ req[r].pc = "code"
  /\ Alone
  /\ \/ Ends(r)                                  \* a wrong code
     \/ /\ user # None
        /\ user.factor = "on"
        /\ TakesTurn(r)
        /\ req' = [req EXCEPT ![r] = At("issue", user)]
  /\ UNCHANGED <<user, tokens, resets, uses, mode, kept, faults>>

GenerateRefreshToken(r) ==
  /\ req[r].pc = "issue"
  /\ tokens' = tokens \cup {[id |-> r, login |-> r, password |-> req[r].read.password]}
  /\ Ends(r)
  /\ UNCHANGED <<user, resets, uses, mode, kept, faults>>

(* locked_until passes, also in the rows that were read *)
LockPasses ==
  /\ \/ user # None /\ user.locked
     \/ \E r \in Requests : req[r].read \in Row /\ req[r].read.locked
  /\ LET Unlocked(row) == IF row \in Row THEN [row EXCEPT !.locked = FALSE] ELSE row
     IN /\ user' = Unlocked(user)
        /\ req' = [r \in Requests |-> [req[r] EXCEPT !.read = Unlocked(@)]]
  /\ UNCHANGED <<tokens, resets, uses, mode, turn, kept, faults>>

-----------------------------------------------------------------------------
(* RefreshToken reads the token, reads the user, deletes the token without *)
(* asking whether it was still there, and creates the next one             *)

RefreshReads(r) ==
  /\ \E t \in tokens : ComesToAuth(r, "owner", t)
  /\ UNCHANGED <<user, tokens, resets, uses, mode, kept, faults>>

RefreshFindsUser(r) ==
  /\ req[r].pc = "owner"
  /\ IF user = None THEN Ends(r) ELSE Goes(r, "rotate", req[r].read)
  /\ UNCHANGED <<user, tokens, resets, uses, mode, kept, faults>>

DeletesToken(t) == tokens \ {t}

RefreshDeletes(r) ==
  /\ req[r].pc = "rotate"
  /\ tokens' = DeletesToken(req[r].read)
  /\ Goes(r, "next", req[r].read)
  /\ UNCHANGED <<user, resets, uses, mode, kept, faults>>

RefreshCreates(r) ==
  /\ req[r].pc = "next"
  /\ tokens' = tokens \cup {[req[r].read EXCEPT !.id = r]}
  /\ Ends(r)
  /\ UNCHANGED <<user, resets, uses, mode, kept, faults>>

Logout(r) ==
  /\ MayCome(r)
  /\ \E t \in tokens : tokens' = tokens \ {t}
  /\ Ends(r)
  /\ UNCHANGED <<user, resets, uses, mode, kept, faults>>

-----------------------------------------------------------------------------
(* Whole rows.  UpdateUser, UpdateLoginAlerts and UpdateMemberRole change  *)
(* fields left out here.                                                   *)

Edits == {"profile", "setup", "enable", "disable", "password"}

MayEdit(pc) ==
  CASE pc = "setup"   -> user.factor # "on"
    [] pc = "enable"  -> user.factor = "setup"
    [] pc = "disable" -> user.factor = "on"
    [] OTHER          -> TRUE

GetUserByID(r) ==
  /\ user # None
  /\ \E pc \in Edits : MayEdit(pc) /\ Comes(r, pc, user)
  /\ UNCHANGED <<user, tokens, resets, uses, mode, kept, faults>>

(* Mutated form: a new password switches the second factor off, where the  *)
(* code only forgets when it was last used                                 *)
EditedOff(r) ==
  CASE req[r].pc = "setup"    -> [req[r].read EXCEPT !.factor = "setup"]
    [] req[r].pc = "enable"   -> [req[r].read EXCEPT !.factor = "on"]
    [] req[r].pc = "disable"  -> [req[r].read EXCEPT !.factor = "off"]
    [] req[r].pc = "password" -> [req[r].read EXCEPT !.password = r, !.factor = "off"]
    [] OTHER                  -> req[r].read
Edited(r) ==
  CASE req[r].pc = "setup"    -> [req[r].read EXCEPT !.factor = "setup"]
    [] req[r].pc = "enable"   -> [req[r].read EXCEPT !.factor = "on"]
    [] req[r].pc = "disable"  -> [req[r].read EXCEPT !.factor = "off"]
    [] req[r].pc = "password" -> [req[r].read EXCEPT !.password = r]
    [] OTHER                  -> req[r].read

SaveUser(r) ==
  /\ req[r].pc \in Edits
  /\ user' = Edited(r)
  /\ IF req[r].pc = "password" THEN Goes(r, "logout", None) ELSE Ends(r)
  /\ UNCHANGED <<tokens, resets, uses, mode, kept, faults>>

(* The end of ChangePassword and of CompletePasswordReset, which ignore    *)
(* that the deletion fails (mutated form: all tokens but the first)        *)
LogsOutOthers == {t \in tokens : t.id = Before}
LogsOut       == {}

Spared == kept \cup {t.login : t \in tokens}

DeleteRefreshTokens(r) ==
  /\ req[r].pc = "logout"
  /\ \/ NoFault /\ tokens' = LogsOut /\ kept' = {}
     \/ Fault /\ UNCHANGED tokens /\ kept' = Spared
  /\ Ends(r)
  /\ UNCHANGED <<user, resets, uses, mode>>

(* A member who is no owner; the tokens stay *)
RemoveMember(r) ==
  /\ MayCome(r)
  /\ user # None
  /\ user' = None
  /\ Ends(r)
  /\ UNCHANGED <<tokens, resets, uses, mode, kept, faults>>

-----------------------------------------------------------------------------
(* PasswordResetService *)

InitiatePasswordReset(r) ==
  /\ user # None
  /\ mode # "replicas"
  /\ Cardinality({n \in Names : resets[n] # None}) < MaxResets
  /\ ComesToAuth(r, "invalidate", None)
  /\ UNCHANGED <<user, tokens, resets, uses, mode, kept, faults>>

(* Tokens not used yet are deleted, and so are not counted next time *)
InvalidatesTokens(r) ==
  /\ req[r].pc = "invalidate"
  /\ \/ NoFault /\ resets' = [n \in Names |-> IF resets[n] = "fresh" THEN None ELSE resets[n]]
     \/ Fault /\ UNCHANGED resets
  /\ Goes(r, "send", None)
  /\ UNCHANGED <<user, tokens, uses, mode, kept>>

CreatesResetToken(r) ==
  /\ req[r].pc = "send"
  /\ resets' = [resets EXCEPT ![r] = "fresh"]
  /\ Ends(r)
  /\ UNCHANGED <<user, tokens, uses, mode, kept, faults>>

CompletePasswordReset(r) ==
  /\ user # None
  /\ \E n \in Names : resets[n] = "fresh" /\ ComesToAuth(r, "reset", n)
  /\ UNCHANGED <<user, tokens, resets, uses, mode, kept, faults>>

(* The transaction: the password of the row there is, and the token as it  *)
(* was read, now used                                                      *)
MarkedUsed == "used"

ResetCommits(r) ==
  /\ req[r].pc = "reset"
  /\ user' = IF user = None THEN None ELSE [user EXCEPT !.password = r]
  /\ resets' = [resets EXCEPT ![req[r].read] = MarkedUsed]
  /\ uses' = [uses EXCEPT ![req[r].read] = @ + 1]
  /\ Goes(r, "logout", None)
  /\ UNCHANGED <<tokens, mode, kept, faults>>

(* Statements whose failure ends the request, and leaves nothing of them;  *)
(* that of a wrong password is only logged                                 *)
StatementFails(r) ==
  /\ req[r].pc \in {"wrong", "issue", "owner", "rotate", "next", "send", "reset"} \cup Edits
  /\ Fault
  /\ Ends(r)
  /\ UNCHANGED <<user, tokens, resets, uses, mode, kept>>

Crash ==
  /\ Fault
  /\ kept' = IF \E r \in Requests : req[r].pc = "logout" THEN Spared ELSE kept
  /\ req' = [r \in Requests |-> IF Waiting(r) THEN req[r] ELSE Done]
  /\ turn' = None
  /\ UNCHANGED <<user, tokens, resets, uses, mode>>

Sessions(r) ==
  \/ Login(r) \/ LoginFails(r) \/ LoginClears(r) \/ VerifyTwoFactorLogin(r)
  \/ GenerateRefreshToken(r)
  \/ RefreshReads(r) \/ RefreshFindsUser(r) \/ RefreshDeletes(r) \/ RefreshCreates(r)
  \/ Logout(r)

Changes(r) ==
  \/ GetUserByID(r) \/ SaveUser(r) \/ DeleteRefreshTokens(r) \/ RemoveMember(r)
  \/ InitiatePasswordReset(r) \/ InvalidatesTokens(r) \/ CreatesResetToken(r)
  \/ CompletePasswordReset(r) \/ ResetCommits(r)
  \/ StatementFails(r)

Next ==
  \/ \E r \in Requests : Sessions(r) \/ Changes(r)
  \/ LockPasses
  \/ Crash

Spec == Init /\ [][Next]_vars

-----------------------------------------------------------------------------
(* Types; no interleaving of wrong passwords with stale rows leaves the    *)
(* row with as many failures as lock it.                                   *)
TypeOK ==
  /\ user \in Row \cup {None}
  /\ tokens \subseteq Token
  /\ resets \in [Names -> {None, "fresh", "used"}]
  /\ uses \in [Names -> Nat]
  /\ \A r \in Requests :
       req[r].read \in CASE req[r].pc \in {"wrong", "right", "issue"} \cup Edits -> Row
                         [] req[r].pc \in {"owner", "rotate", "next"} -> Token
                         [] req[r].pc = "reset"                       -> Names
                         [] req[r].pc \in {"new", "code", "done", "logout", "invalidate", "send"} -> {None}
  /\ mode \in {"serial", "process", "replicas"}
  /\ turn \in Requests \cup {None}
  /\ kept \subseteq Names
  /\ faults \in 0..MaxFaults

(* A password, a second factor or a removal is undone only by someone who  *)
(* read the row before it: by then the row differs from what was read.     *)
Sets(r, was, is) ==
  /\ req[r].pc \in Edits /\ req'[r] # req[r]
  /\ \/ req[r].read # was
     \/ req[r].pc = "password" /\ was.factor = is.factor
     \/ req[r].pc \in {"setup", "enable", "disable"} /\ was.password = is.password

Resets(r, was, is) == req[r].pc = "reset" /\ req'[r] # req[r] /\ was.factor = is.factor

OnlyStaleSavesUndo ==
  [][user' # None /\ (user = None \/ user.password # user'.password
                                  \/ user.factor # user'.factor)
       => \E r \in Requests : Sets(r, user, user') \/ Resets(r, user, user')]_vars

Quiet == \A r \in Requests : Waiting(r)

(* Of requests that come one at a time, one that changes the password ends *)
(* all sessions that go back to another one, except where the deletion of  *)
(* its refresh tokens, the last thing it does, failed or a crash came      *)
(* before it; refreshes keep such a session, the next change ends it.      *)
SessionsMatchPassword ==
  mode = "serial" /\ Quiet /\ user # None =>
    \A t \in tokens : t.password = user.password \/ t.login \in kept

(* A login never has two refresh tokens in a server of one process: two    *)
(* refreshes of a token would both go on to create the next one, but the   *)
(* rate limiter's lock keeps them apart.                                   *)
OneTokenPerLogin ==
  mode # "replicas" => \A t, u \in tokens : t.login = u.login => t = u

(* A reset token sets one password: the check that it is unused is not     *)
(* part of the transaction that marks it, and holds by the same lock.      *)
ResetsOnce == \A n \in Names : uses[n] <= 1

(* Refresh and reset tokens are of use once each, by that lock. *)
TokensServeOnce == OneTokenPerLogin /\ ResetsOnce
=============================================================================
