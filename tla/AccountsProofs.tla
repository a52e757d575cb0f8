----------------------------- MODULE AccountsProofs -----------------------------
(***************************************************************************)
(* What holds of an account for any number of requests, wrong passwords,   *)
(* reset tokens and crashes.                                               *)
(*                                                                         *)
(* That tokens serve once rests on the lock of the rate limiter: whoever   *)
(* refreshes a session or resets a password has the turn, so nobody else   *)
(* does.  That sessions match the password rests on requests that come one *)
(* at a time: what the one under way has read is what is stored, and only  *)
(* one about to log out, or whose deletion failed, leaves a session behind *)
(* that the password does not match.  Columns and roles, which MCAccounts runs beside accounts, change *)
(* by right because of what the hooks leave of a row (Hooks) and what a    *)
(* token says of its bearer (Claimed).  The limiter's window holds because *)
(* the list of a client says of each age at least what passed then         *)
(* (Limiting), the owner stays because who is about to change or remove    *)
(* him has read that he is the owner (Owned), and the connections stand    *)
(* because nobody draws an id that somebody holds (Linked).                *)
(***************************************************************************)
EXTENDS MCAccounts, FiniteSetTheorems, FunctionTheorems, WellFoundedInduction, TLAPS

USE BeforeAssumption, AttemptsAssumption, ResetsAssumption, FaultsAssumption,
    NamesAssumption, NoneAssumption DEF Names

Refreshing == {"owner", "rotate", "next"}
Resetting  == {"invalidate", "send", "reset"}
WithRow    == {"wrong", "right", "issue"} \cup Edits
WithNone   == {"new", "code", "done", "logout", "invalidate", "send"}

(* A request, with what it has read by then *)
Asking ==
  {x \in [pc: WithRow \cup Refreshing \cup {"reset"} \cup WithNone,
          read: Row \cup Token \cup Names \cup {None}] :
     /\ x.pc \in WithRow    => x.read \in Row
     /\ x.pc \in Refreshing => x.read \in Token
     /\ x.pc = "reset"      => x.read \in Names
     /\ x.pc \in WithNone   => x.read = None}

Types ==
  /\ user \in Row \cup {None}
  /\ tokens \subseteq Token
  /\ resets \in [Names -> {None, "fresh", "used"}]
  /\ uses \in [Names -> Nat]
  /\ req \in [Requests -> Asking]
  /\ mode \in {"serial", "process", "replicas"}
  /\ turn \in Requests \cup {None}
  /\ kept \subseteq Names
  /\ faults \in 0..MaxFaults

(* Whoever refreshes a session or resets a password has the turn. *)
Turns ==
  mode # "replicas" =>
    \A r \in Requests : req[r].pc \in Refreshing \cup Resetting => turn = r

(* What n names was made by a request that is done, or before them all. *)
Past(n) == n \in Requests => req[n] = Done

(* A login's token is the one being refreshed, and is gone in between. *)
Rotation ==
  /\ \A t \in tokens : Past(t.login)
  /\ \A r \in Requests : req[r].pc \in Refreshing => Past(req[r].read.login)
  /\ OneTokenPerLogin
  /\ mode # "replicas" =>
       \A r \in Requests, t \in tokens :
         /\ req[r].pc \in {"owner", "rotate"} /\ t.login = req[r].read.login
              => t = req[r].read
         /\ req[r].pc = "next" => t.login # req[r].read.login

(* A token that is fresh, or about to be used, was not used before. *)
Single ==
  /\ \A n \in Names : /\ resets[n] # None \/ uses[n] # 0 => Past(n)
                      /\ resets[n] = "fresh" => uses[n] = 0
                      /\ uses[n] <= 1
  /\ \A r \in Requests : req[r].pc = "reset" =>
                           /\ uses[req[r].read] = 0
                           /\ Past(req[r].read)
  /\ mode = "replicas" =>
       /\ \A n \in Names : resets[n] = None
       /\ \A r \in Requests : req[r].pc \notin Resetting

(* Of requests that come one at a time, the one under way has read what is *)
(* stored, and no session goes back to another password, unless it was     *)
(* spared or the request is about to log it out.                           *)
InStep ==
  /\ \A r, q \in Requests : ~Waiting(r) /\ ~Waiting(q) => r = q
  /\ \A r \in Requests :
       /\ req[r].pc \in {"right", "issue"} \cup Edits =>
            user # None /\ req[r].read.password = user.password
       /\ req[r].pc \in Refreshing /\ user # None =>
            \/ req[r].read.password = user.password
            \/ req[r].read.login \in kept
  /\ (\A r \in Requests : req[r].pc # "logout") /\ user # None =>
       \A t \in tokens : t.password = user.password \/ t.login \in kept

Serial == mode = "serial" => InStep

IInv == Types /\ Turns /\ Rotation /\ Single /\ Serial

(* The states a request may be in, each with what it has read. *)
LEMMA AskingLemma ==
  /\ NotYet \in Asking /\ Done \in Asking
  /\ \A pc \in WithNone : At(pc, None) \in Asking
  /\ \A pc \in WithRow, old \in Row : At(pc, old) \in Asking
  /\ \A pc \in Refreshing, t \in Token : At(pc, t) \in Asking
  /\ \A n \in Names : At("reset", n) \in Asking
BY DEF Asking, At, NotYet, Done, WithNone, WithRow, Refreshing, Edits

(* What a request holds, seen from its state. *)
LEMMA AskedLemma ==
  ASSUME Types, NEW r \in Requests
  PROVE  /\ req[r] \in Asking
         /\ req[r].pc \in WithRow => req[r].read \in Row
         /\ req[r].pc \in Refreshing => req[r].read \in Token
         /\ req[r].pc = "reset" => req[r].read \in Names
         /\ req[r].pc = "done" <=> req[r] = Done
         /\ req[r].pc = "new" <=> req[r] = NotYet
<1>1. req[r] \in Asking
  BY DEF Types
<1>2. req[r].pc = "done" <=> req[r] = Done
  BY <1>1 DEF Asking, At, Done, WithNone
<1>3. req[r].pc = "new" <=> req[r] = NotYet
  BY <1>1 DEF Asking, At, NotYet, WithNone
<1> QED BY <1>1, <1>2, <1>3 DEF Asking

-----------------------------------------------------------------------------
(* A old changed in one of its fields is a old. *)
LEMMA RowLemma ==
  ASSUME NEW old \in Row
  PROVE  /\ Failed(old) \in Row
         /\ Failed(old).password = old.password /\ Failed(old).factor = old.factor
         /\ [old EXCEPT !.attempts = 0, !.locked = FALSE] \in Row
         /\ [old EXCEPT !.locked = FALSE] \in Row
         /\ \A n \in Names : [old EXCEPT !.password = n] \in Row
         /\ \A f \in {"off", "setup", "on"} : [old EXCEPT !.factor = f] \in Row
<1>0. 0 \in 0..(MaxAttempts - 1)
  OBVIOUS
<1>1. Failed(old) \in Row
  <2>1. CASE old.attempts + 1 >= MaxAttempts
    <3>1. [old EXCEPT !.attempts = 0] \in Row
      BY <1>0 DEF Row
    <3>2. [[old EXCEPT !.attempts = 0] EXCEPT !.locked = TRUE] \in Row
      BY <3>1 DEF Row
    <3> QED BY <2>1, <3>2 DEF Failed
  <2>2. CASE ~(old.attempts + 1 >= MaxAttempts)
    <3>1. old.attempts + 1 \in 0..(MaxAttempts - 1)
      BY <2>2 DEF Row
    <3> QED BY <2>2, <3>1 DEF Row, Failed
  <2> QED BY <2>1, <2>2
<1>2. Failed(old).password = old.password /\ Failed(old).factor = old.factor
  BY DEF Row, Failed
<1>3. [old EXCEPT !.attempts = 0, !.locked = FALSE] \in Row
  <2>1. [old EXCEPT !.attempts = 0] \in Row
    BY <1>0 DEF Row
  <2> QED BY <2>1 DEF Row
<1>4. [old EXCEPT !.locked = FALSE] \in Row
  BY DEF Row
<1>5. \A n \in Names : [old EXCEPT !.password = n] \in Row
  BY DEF Row
<1>6. \A f \in {"off", "setup", "on"} : [old EXCEPT !.factor = f] \in Row
  BY DEF Row
<1> QED BY <1>1, <1>2, <1>3, <1>4, <1>5, <1>6

LEMMA TokenLemma == Token \cap Row = {}
<1>1. \A t \in Token : DOMAIN t = {"id", "login", "password"}
  BY DEF Token
<1>2. \A old \in Row : DOMAIN old = {"password", "factor", "attempts", "locked"}
  BY DEF Row
<1> QED BY <1>1, <1>2

LEMMA EditedLemma ==
  ASSUME Types, NEW r \in Requests, req[r].pc \in Edits
  PROVE  /\ Edited(r) \in Row
         /\ req[r].pc # "password" => Edited(r).password = req[r].read.password
         /\ req[r].pc \notin {"setup", "enable", "disable"}
              => Edited(r).factor = req[r].read.factor
         /\ req[r].pc = "profile" => Edited(r) = req[r].read
<1>1. req[r].read \in Row
  BY AskedLemma DEF WithRow
<1>2. CASE req[r].pc = "password"
  <2>1. r \in Names /\ Edited(r) = [req[r].read EXCEPT !.password = r]
    BY <1>2 DEF Edited
  <2>2. Edited(r).factor = req[r].read.factor
    BY <1>1, <2>1 DEF Row
  <2>3. Edited(r) \in Row
    BY <1>1, <2>1 DEF Row
  <2> QED BY <1>2, <2>2, <2>3
<1>3. CASE req[r].pc \in {"setup", "enable", "disable"}
  <2>1. PICK f \in {"off", "setup", "on"} : Edited(r) = [req[r].read EXCEPT !.factor = f]
    BY <1>3 DEF Edited
  <2>2. Edited(r).password = req[r].read.password
    BY <1>1, <2>1 DEF Row
  <2>3. Edited(r) \in Row
    BY <1>1, <2>1 DEF Row
  <2> QED BY <1>3, <2>2, <2>3
<1>4. CASE req[r].pc = "profile"
  BY <1>1, <1>4 DEF Edited
<1> QED BY <1>2, <1>3, <1>4 DEF Edits

(* When the lock passes the requests stay where they are, with the same    *)
(* password and factor.                                                    *)
LEMMA LockLemma ==
  ASSUME Types, LockPasses
  PROVE  /\ Types'
         /\ user = None <=> user' = None
         /\ user # None => /\ user'.password = user.password
                           /\ user'.factor = user.factor
         /\ \A r \in Requests :
              /\ req'[r].pc = req[r].pc
              /\ req[r].pc \in WithRow => req'[r].read.password = req[r].read.password
              /\ req[r].pc \notin WithRow => req'[r] = req[r]
         /\ UNCHANGED <<tokens, resets, uses, mode, turn, kept, faults>>
<1> DEFINE Unlocked(old) == IF old \in Row THEN [old EXCEPT !.locked = FALSE] ELSE old
<1>1. /\ user' = Unlocked(user)
      /\ req' = [r \in Requests |-> [req[r] EXCEPT !.read = Unlocked(@)]]
      /\ UNCHANGED <<tokens, resets, uses, mode, turn, kept, faults>>
  BY DEF LockPasses
<1>2. \A old \in Row : /\ Unlocked(old) \in Row
                       /\ Unlocked(old).password = old.password
                       /\ Unlocked(old).factor = old.factor
  BY RowLemma DEF Row
<1>3. \A x : x \notin Row => Unlocked(x) = x
  OBVIOUS
<1> HIDE DEF Unlocked
<1>4. user' \in Row \cup {None} /\ (user = None <=> user' = None)
  BY <1>1, <1>2, <1>3 DEF Types
<1>5. user # None => user'.password = user.password /\ user'.factor = user.factor
  BY <1>1, <1>2 DEF Types
<1>6. ASSUME NEW r \in Requests
      PROVE  /\ req'[r] \in Asking
             /\ req'[r].pc = req[r].pc
             /\ req[r].pc \in WithRow => req'[r].read.password = req[r].read.password
             /\ req[r].pc \notin WithRow => req'[r] = req[r]
  <2>1. req[r] \in Asking /\ req'[r] = [req[r] EXCEPT !.read = Unlocked(@)]
    BY <1>1 DEF Types
  <2>2. CASE req[r].pc \in WithRow
    <3>1. req[r].read \in Row
      BY <2>1, <2>2 DEF Asking
    <3>2. req'[r] = At(req[r].pc, Unlocked(req[r].read))
      BY <2>1 DEF At, Asking
    <3> QED BY <1>2, <2>2, <3>1, <3>2, AskingLemma DEF At
  <2>3. CASE req[r].pc \notin WithRow
    <3>1. req[r].read \notin Row
      BY <2>1, <2>3, TokenLemma DEF Asking
    <3>2. req'[r] = req[r]
      BY <1>3, <2>1, <3>1 DEF Asking
    <3> QED BY <2>1, <2>3, <3>2
  <2> QED BY <2>2, <2>3
<1>7. req' \in [Requests -> Asking]
  BY <1>1, <1>6
<1>8. Types'
  BY <1>1, <1>4, <1>7 DEF Types
<1> QED BY <1>1, <1>4, <1>5, <1>6, <1>8

-----------------------------------------------------------------------------
(* A request moves to x, alone. *)
Moves(r, x) == /\ x \in Asking
               /\ req' = [req EXCEPT ![r] = x]

LEMMA MovesLemma ==
  ASSUME Types, NEW r \in Requests, NEW x, Moves(r, x)
  PROVE  /\ req' \in [Requests -> Asking]
         /\ req'[r] = x
         /\ \A q \in Requests \ {r} : req'[q] = req[q]
BY DEF Types, Moves

(* Where each step of a request leads it, and what it has read then. *)
LEMMA StepsLemma ==
  ASSUME Types, NEW r \in Requests
  PROVE  /\ Login(r) => \E pc \in {"wrong", "right"} : Moves(r, At(pc, user))
         /\ LoginFails(r) => Moves(r, Done)
         /\ LoginClears(r) => \/ Moves(r, At("code", None))
                              \/ Moves(r, At("issue", req[r].read))
         /\ VerifyTwoFactorLogin(r) => Moves(r, Done) \/ Moves(r, At("issue", user))
         /\ GenerateRefreshToken(r) => Moves(r, Done)
         /\ RefreshReads(r) => \E t \in tokens : Moves(r, At("owner", t))
         /\ RefreshFindsUser(r) => Moves(r, Done) \/ Moves(r, At("rotate", req[r].read))
         /\ RefreshDeletes(r) => Moves(r, At("next", req[r].read))
         /\ RefreshCreates(r) => Moves(r, Done)
         /\ Logout(r) => Moves(r, Done)
         /\ GetUserByID(r) => \E pc \in Edits : Moves(r, At(pc, user))
         /\ SaveUser(r) => \/ req[r].pc = "password" /\ Moves(r, At("logout", None))
                           \/ req[r].pc # "password" /\ Moves(r, Done)
         /\ DeleteRefreshTokens(r) => Moves(r, Done)
         /\ RemoveMember(r) => Moves(r, Done)
         /\ InitiatePasswordReset(r) => Moves(r, At("invalidate", None))
         /\ InvalidatesTokens(r) => Moves(r, At("send", None))
         /\ CreatesResetToken(r) => Moves(r, Done)
         /\ CompletePasswordReset(r) =>
              \E n \in Names : resets[n] = "fresh" /\ Moves(r, At("reset", n))
         /\ ResetCommits(r) => Moves(r, At("logout", None))
         /\ StatementFails(r) => Moves(r, Done)
<1> USE DEF Moves
<1>0. /\ req[r].pc \in WithRow => req[r].read \in Row
      /\ req[r].pc \in Refreshing => req[r].read \in Token
      /\ user # None => user \in Row
      /\ tokens \subseteq Token
  BY AskedLemma DEF Types
<1>1. Done \in Asking
  BY AskingLemma
<1>2. \A old \in Row : At("issue", old) \in Asking
  BY AskingLemma DEF WithRow
<1>3. Login(r) => \E pc \in {"wrong", "right"} : Moves(r, At(pc, user))
  <2>1. user \in Row => \A pc \in {"wrong", "right"} : At(pc, user) \in Asking
    BY AskingLemma DEF WithRow
  <2> QED BY <1>0, <2>1 DEF Login, ComesToAuth, Comes, Goes
<1>4. LoginClears(r) => \/ Moves(r, At("code", None))
                       \/ Moves(r, At("issue", req[r].read))
  <2>1. At("code", None) \in Asking
    BY AskingLemma DEF WithNone
  <2> QED BY <1>0, <1>2, <2>1 DEF LoginClears, Goes, WithRow
<1>5. VerifyTwoFactorLogin(r) => Moves(r, Done) \/ Moves(r, At("issue", user))
  BY <1>0, <1>1, <1>2 DEF VerifyTwoFactorLogin, Ends
<1>6. RefreshReads(r) => \E t \in tokens : Moves(r, At("owner", t))
  <2>1. \A t \in tokens : At("owner", t) \in Asking
    BY <1>0, AskingLemma DEF Refreshing
  <2> QED BY <2>1 DEF RefreshReads, ComesToAuth
<1>7. RefreshFindsUser(r) => Moves(r, Done) \/ Moves(r, At("rotate", req[r].read))
  <2>1. \A t \in Token : At("rotate", t) \in Asking
    BY AskingLemma DEF Refreshing
  <2> QED BY <1>0, <1>1, <2>1 DEF RefreshFindsUser, Ends, Goes, Refreshing
<1>8. RefreshDeletes(r) => Moves(r, At("next", req[r].read))
  <2>1. \A t \in Token : At("next", t) \in Asking
    BY AskingLemma DEF Refreshing
  <2> QED BY <1>0, <2>1 DEF RefreshDeletes, Goes, Refreshing
<1>9. GetUserByID(r) => \E pc \in Edits : Moves(r, At(pc, user))
  <2>1. \A pc \in Edits : user \in Row => At(pc, user) \in Asking
    BY AskingLemma DEF WithRow
  <2> QED BY <1>0, <2>1 DEF GetUserByID, Comes, Goes
<1>10. SaveUser(r) => \/ req[r].pc = "password" /\ Moves(r, At("logout", None))
                      \/ req[r].pc # "password" /\ Moves(r, Done)
  <2>1. At("logout", None) \in Asking
    BY AskingLemma DEF WithNone
  <2> QED BY <1>1, <2>1 DEF SaveUser, Goes, Ends
<1>11. InitiatePasswordReset(r) => Moves(r, At("invalidate", None))
  <2>1. At("invalidate", None) \in Asking
    BY AskingLemma DEF WithNone
  <2> QED BY <2>1 DEF InitiatePasswordReset, ComesToAuth
<1>12. InvalidatesTokens(r) => Moves(r, At("send", None))
  <2>1. At("send", None) \in Asking
    BY AskingLemma DEF WithNone
  <2> QED BY <2>1 DEF InvalidatesTokens, Goes
<1>13. CompletePasswordReset(r) =>
         \E n \in Names : resets[n] = "fresh" /\ Moves(r, At("reset", n))
  BY AskingLemma DEF CompletePasswordReset, ComesToAuth
<1>14. ResetCommits(r) => Moves(r, At("logout", None))
  <2>1. At("logout", None) \in Asking
    BY AskingLemma DEF WithNone
  <2> QED BY <2>1 DEF ResetCommits, Goes
<1>15. /\ LoginFails(r) \/ GenerateRefreshToken(r) \/ RefreshCreates(r) => Moves(r, Done)
       /\ Logout(r) \/ DeleteRefreshTokens(r) \/ RemoveMember(r) => Moves(r, Done)
       /\ CreatesResetToken(r) \/ StatementFails(r) => Moves(r, Done)
  BY <1>1 DEF LoginFails, GenerateRefreshToken, RefreshCreates, Logout,
     DeleteRefreshTokens, RemoveMember, CreatesResetToken, StatementFails, Ends
<1> HIDE DEF Moves
<1> QED BY <1>3, <1>4, <1>5, <1>6, <1>7, <1>8, <1>9, <1>10, <1>11, <1>12, <1>13,
           <1>14, <1>15

(* What all steps of a request have in common: it is under way and moves   *)
(* alone, and the turn is kept, taken or left.                             *)
Turning(r) == \/ turn' = turn
              \/ turn = None /\ turn' = IF mode = "replicas" THEN None ELSE r
              \/ Leaves(r)

LEMMA CommonLemma ==
  ASSUME Types, NEW r \in Requests, Sessions(r) \/ Changes(r)
  PROVE  /\ req[r].pc # "done"
         /\ req' \in [Requests -> Asking]
         /\ \A q \in Requests \ {r} : req'[q] = req[q]
         /\ Turning(r)
         /\ mode' = mode
         /\ faults' \in 0..MaxFaults
<1>1. \E x : Moves(r, x)
  BY StepsLemma DEF Sessions, Changes
<1>2. req[r].pc # "done"
  <2>1. MayCome(r) => req[r].pc # "done"
    BY DEF MayCome, NotYet, At
  <2>2. CASE Sessions(r)
    BY <2>1, <2>2 DEF Sessions, Login, ComesToAuth, Comes, LoginFails, LoginClears,
       VerifyTwoFactorLogin, GenerateRefreshToken, RefreshReads,
       RefreshFindsUser, RefreshDeletes, RefreshCreates, Logout
  <2>3. CASE Changes(r)
    BY <2>1, <2>3 DEF Changes, GetUserByID, Comes, ComesToAuth, SaveUser, Edits,
       DeleteRefreshTokens, RemoveMember, InitiatePasswordReset,
       InvalidatesTokens, CreatesResetToken, CompletePasswordReset, ResetCommits,
       StatementFails
  <2> QED BY <2>2, <2>3
<1>3. Turning(r) /\ mode' = mode
  <2>1. CASE Sessions(r)
    BY <2>1 DEF Sessions, Login, ComesToAuth, Comes, LoginFails, LoginClears,
       VerifyTwoFactorLogin, GenerateRefreshToken, RefreshReads,
       RefreshFindsUser, RefreshDeletes, RefreshCreates, Logout, Ends, Goes,
       TakesTurn, Turning
  <2>2. CASE Changes(r)
    BY <2>2 DEF Changes, GetUserByID, Comes, ComesToAuth, SaveUser,
       DeleteRefreshTokens, RemoveMember, InitiatePasswordReset,
       InvalidatesTokens, CreatesResetToken, CompletePasswordReset,
       ResetCommits, StatementFails, Ends, Goes, TakesTurn, Turning
  <2> QED BY <2>1, <2>2
<1>4. faults' \in 0..MaxFaults
  <2>1. faults' = faults \/ Fault
    <3>1. CASE Sessions(r)
      BY <3>1 DEF Sessions, Login, LoginFails, LoginClears, VerifyTwoFactorLogin,
         GenerateRefreshToken, RefreshReads, RefreshFindsUser, RefreshDeletes,
         RefreshCreates, Logout, NoFault
    <3>2. CASE Changes(r)
      BY <3>2 DEF Changes, GetUserByID, SaveUser, DeleteRefreshTokens, RemoveMember,
         InitiatePasswordReset, InvalidatesTokens, CreatesResetToken,
         CompletePasswordReset, ResetCommits, StatementFails, NoFault
    <3> QED BY <3>1, <3>2
  <2> QED BY <2>1 DEF Fault, Types
<1> QED BY <1>1, <1>2, <1>3, <1>4, MovesLemma

-----------------------------------------------------------------------------
(* A request spares sessions, or forgets them, only where it deletes them. *)
LEMMA SparedLemma == ASSUME Types PROVE Spared \subseteq Names
BY DEF Types, Spared, Token

LEMMA KeptLemma ==
  ASSUME NEW r \in Requests, Sessions(r) \/ Changes(r)
  PROVE  /\ ~DeleteRefreshTokens(r) => kept' = kept
         /\ DeleteRefreshTokens(r) => \/ tokens' = {} /\ kept' = {}
                                      \/ tokens' = tokens /\ kept' = Spared
<1>1. CASE Sessions(r)
  <2>1. kept' = kept
    BY <1>1 DEF Sessions, Login, LoginFails, LoginClears, VerifyTwoFactorLogin,
       GenerateRefreshToken, RefreshReads, RefreshFindsUser, RefreshDeletes,
       RefreshCreates, Logout
  <2> QED BY <2>1 DEF DeleteRefreshTokens, LogsOut
<1>2. CASE Changes(r)
  BY <1>2 DEF Changes, GetUserByID, SaveUser, DeleteRefreshTokens, LogsOut,
     RemoveMember, InitiatePasswordReset, InvalidatesTokens, CreatesResetToken,
     CompletePasswordReset, ResetCommits, StatementFails
<1> QED BY <1>1, <1>2

(* The requests keep the types. *)
LEMMA RequestTypes ==
  ASSUME Types, NEW r \in Requests, Sessions(r) \/ Changes(r)
  PROVE  Types'
<1>1. /\ req' \in [Requests -> Asking]
      /\ mode' = mode
      /\ faults' \in 0..MaxFaults
  BY CommonLemma
<1>2. turn' \in Requests \cup {None}
  BY CommonLemma DEF Turning, Leaves, Types
<1>3. user' \in Row \cup {None}
  <2>1. CASE LoginFails(r)
    BY <2>1, RowLemma DEF LoginFails, Types
  <2>2. CASE LoginClears(r)
    <3>1. \/ user' = user
          \/ user' = Cleared
      BY <2>2 DEF LoginClears
    <3>2. user \in Row \cup {None}
      BY DEF Types
    <3>3. Cleared \in Row \cup {None}
      BY <3>2, RowLemma DEF Cleared
    <3> QED BY <3>1, <3>2, <3>3
  <2>3. CASE SaveUser(r)
    BY <2>3, EditedLemma DEF SaveUser
  <2>4. CASE RemoveMember(r)
    BY <2>4 DEF RemoveMember
  <2>5. CASE ResetCommits(r)
    BY <2>5, RowLemma DEF ResetCommits, Types
  <2>6. CASE ~(\/ LoginFails(r) \/ LoginClears(r) \/ SaveUser(r)
               \/ RemoveMember(r) \/ ResetCommits(r))
    <3>1. user' = user
      BY <2>6 DEF Sessions, Changes, Login, VerifyTwoFactorLogin,
         GenerateRefreshToken, RefreshReads, RefreshFindsUser, RefreshDeletes,
         RefreshCreates, Logout, GetUserByID, DeleteRefreshTokens,
         InitiatePasswordReset, InvalidatesTokens, CreatesResetToken,
         CompletePasswordReset, StatementFails
    <3> QED BY <3>1 DEF Types
  <2> QED BY <2>1, <2>2, <2>3, <2>4, <2>5, <2>6
<1>4. tokens' \subseteq Token
  <2>1. CASE GenerateRefreshToken(r)
    <3>1. req[r].read \in Row
      BY <2>1, AskedLemma DEF GenerateRefreshToken, WithRow
    <3>2. [id |-> r, login |-> r, password |-> req[r].read.password] \in Token
      BY <3>1 DEF Row, Token
    <3> QED BY <2>1, <3>2 DEF GenerateRefreshToken, Types
  <2>2. CASE RefreshCreates(r)
    <3>1. req[r].read \in Token
      BY <2>2, AskedLemma DEF RefreshCreates, Refreshing
    <3>2. [req[r].read EXCEPT !.id = r] \in Token
      BY <3>1 DEF Token
    <3> QED BY <2>2, <3>2 DEF RefreshCreates, Types
  <2>3. CASE ~(GenerateRefreshToken(r) \/ RefreshCreates(r))
    <3>1. tokens' \subseteq tokens
      <4>1. CASE Sessions(r)
        BY <2>3, <4>1 DEF Sessions, Login, LoginFails, LoginClears,
           VerifyTwoFactorLogin, RefreshReads, RefreshFindsUser,
           RefreshDeletes, DeletesToken, Logout
      <4>2. CASE Changes(r)
        BY <4>2 DEF Changes, GetUserByID, SaveUser, DeleteRefreshTokens,
           LogsOut, RemoveMember, InitiatePasswordReset, InvalidatesTokens,
           CreatesResetToken, CompletePasswordReset, ResetCommits, StatementFails
      <4> QED BY <4>1, <4>2
    <3> QED BY <3>1 DEF Types
  <2> QED BY <2>1, <2>2, <2>3
<1>5. /\ resets' \in [Names -> {None, "fresh", "used"}]
      /\ uses' \in [Names -> Nat]
  <2>1. CASE InvalidatesTokens(r)
    BY <2>1 DEF InvalidatesTokens, Types
  <2>2. CASE CreatesResetToken(r)
    BY <2>2 DEF CreatesResetToken, Types
  <2>3. CASE ResetCommits(r)
    <3>1. req[r].read \in Names
      BY <2>3, AskedLemma DEF ResetCommits
    <3> QED BY <2>3, <3>1 DEF ResetCommits, MarkedUsed, Types
  <2>4. CASE ~(InvalidatesTokens(r) \/ CreatesResetToken(r) \/ ResetCommits(r))
    <3>1. resets' = resets /\ uses' = uses
      BY <2>4 DEF Sessions, Changes, Login, LoginFails, LoginClears,
         VerifyTwoFactorLogin, GenerateRefreshToken, RefreshReads,
         RefreshFindsUser, RefreshDeletes, RefreshCreates, Logout,
         GetUserByID, SaveUser, DeleteRefreshTokens, RemoveMember,
         InitiatePasswordReset, CompletePasswordReset, StatementFails
    <3> QED BY <3>1 DEF Types
  <2> QED BY <2>1, <2>2, <2>3, <2>4
<1>6. kept' \subseteq Names
  <2>1. kept' = kept \/ kept' = {} \/ kept' = Spared
    BY KeptLemma
  <2> QED BY <2>1, SparedLemma DEF Types
<1> QED BY <1>1, <1>2, <1>3, <1>4, <1>5, <1>6 DEF Types

(* After a crash every request waits or is done. *)
LEMMA CrashLemma ==
  ASSUME Types, Crash
  PROVE  /\ Types'
         /\ \A r \in Requests :
              /\ req'[r].pc \in {"new", "code", "done"}
              /\ req[r].pc = "done" => req'[r].pc = "done"
         /\ turn' = None
         /\ kept' = IF \E r \in Requests : req[r].pc = "logout" THEN Spared ELSE kept
         /\ UNCHANGED <<user, tokens, resets, uses, mode>>
<1>1. /\ faults < MaxFaults /\ faults' = faults + 1
      /\ kept' = IF \E r \in Requests : req[r].pc = "logout" THEN Spared ELSE kept
      /\ req' = [r \in Requests |-> IF Waiting(r) THEN req[r] ELSE Done]
      /\ turn' = None
      /\ UNCHANGED <<user, tokens, resets, uses, mode>>
  BY DEF Crash, Fault
<1>2. faults' \in 0..MaxFaults /\ kept' \subseteq Names
  BY <1>1, SparedLemma DEF Types
<1>3. req' \in [Requests -> Asking]
  BY <1>1, AskingLemma DEF Types
<1>4. Done.pc = "done"
  BY DEF Done, At
<1>5. \A r \in Requests : req'[r] = IF Waiting(r) THEN req[r] ELSE Done
  BY <1>1
<1>6. \A r \in Requests :
        /\ req'[r].pc \in {"new", "code", "done"}
        /\ req[r].pc = "done" => req'[r].pc = "done"
  BY <1>4, <1>5 DEF Waiting
<1>7. Types'
  BY <1>1, <1>2, <1>3 DEF Types
<1>8. /\ turn' = None
      /\ kept' = IF \E r \in Requests : req[r].pc = "logout" THEN Spared ELSE kept
  BY <1>1
<1>9. UNCHANGED <<user, tokens, resets, uses, mode>>
  BY <1>1
<1> QED BY <1>6, <1>7, <1>8, <1>9

-----------------------------------------------------------------------------
(* What names something that is past still does. *)
LEMMA PastLemma ==
  ASSUME Types, Types',
         \/ \E r \in Requests : Sessions(r) \/ Changes(r)
         \/ LockPasses \/ Crash
  PROVE  \A n : Past(n) => Past(n)'
<1> SUFFICES ASSUME NEW n \in Requests, Past(n) PROVE req'[n] = Done
  BY DEF Past
<1>1. req[n] = Done /\ req[n].pc = "done"
  BY DEF Past, Done, At
<1>2. req'[n].pc = "done" => req'[n] = Done
  BY DEF Types, Asking, Done, At, WithNone
<1>3. ASSUME NEW r \in Requests, Sessions(r) \/ Changes(r) PROVE req'[n] = Done
  BY <1>1, <1>3, CommonLemma
<1>4. CASE LockPasses
  BY <1>1, <1>2, <1>4, LockLemma
<1>5. CASE Crash
  BY <1>1, <1>2, <1>5, CrashLemma
<1> QED BY <1>3, <1>4, <1>5

(* The turn is taken before a session is refreshed or a password is reset, *)
(* and kept.                                                               *)
LEMMA TurnLemma ==
  ASSUME Types, Turns, NEW r \in Requests, Sessions(r) \/ Changes(r),
         mode # "replicas", req'[r].pc \in Refreshing \cup Resetting
  PROVE  turn' = r
<1>1. \A pc, read : req' = [req EXCEPT ![r] = At(pc, read)] => req'[r].pc = pc
  BY DEF Types, At
<1>2. req' = [req EXCEPT ![r] = Done] => req'[r].pc = "done"
  BY DEF Types, Done, At
<1>3. CASE RefreshReads(r) \/ InitiatePasswordReset(r) \/ CompletePasswordReset(r)
  BY <1>3 DEF RefreshReads, InitiatePasswordReset, CompletePasswordReset,
     ComesToAuth, TakesTurn
<1>4. CASE RefreshFindsUser(r) \/ RefreshDeletes(r) \/ InvalidatesTokens(r)
  <2>1. turn = r
    BY <1>4 DEF RefreshFindsUser, RefreshDeletes, InvalidatesTokens, Turns,
       Refreshing, Resetting
  <2>2. turn' = turn \/ Ends(r)
    BY <1>4 DEF RefreshFindsUser, RefreshDeletes, InvalidatesTokens, Goes
  <2> QED BY <1>2, <2>1, <2>2 DEF Ends, Refreshing, Resetting
<1>5. ASSUME \/ Login(r) \/ GetUserByID(r) \/ LoginClears(r)
             \/ VerifyTwoFactorLogin(r) \/ SaveUser(r) \/ ResetCommits(r)
      PROVE  FALSE
  <2>1. \A x : Moves(r, x) => req'[r] = x
    BY MovesLemma
  <2>2. \A old : \A pc \in {"wrong", "right"} : At(pc, old).pc \notin Refreshing \cup Resetting
    BY DEF At, Refreshing, Resetting
  <2>3. \A old : \A pc \in Edits : At(pc, old).pc \notin Refreshing \cup Resetting
    BY DEF At, Refreshing, Resetting, Edits
  <2>4. \A old : /\ At("issue", old).pc \notin Refreshing \cup Resetting
                 /\ At("code", old).pc \notin Refreshing \cup Resetting
                 /\ At("logout", old).pc \notin Refreshing \cup Resetting
                 /\ Done.pc \notin Refreshing \cup Resetting
    BY DEF At, Done, Refreshing, Resetting
  <2> QED BY <1>5, <2>1, <2>2, <2>3, <2>4, StepsLemma
<1>6. ASSUME \/ LoginFails(r) \/ GenerateRefreshToken(r) \/ RefreshCreates(r)
             \/ Logout(r) \/ DeleteRefreshTokens(r) \/ RemoveMember(r)
             \/ CreatesResetToken(r) \/ StatementFails(r)
      PROVE  FALSE
  BY <1>2, <1>6 DEF LoginFails, GenerateRefreshToken, RefreshCreates, Logout,
     DeleteRefreshTokens, RemoveMember, CreatesResetToken, StatementFails, Ends,
     Refreshing, Resetting
<1> QED BY <1>3, <1>4, <1>5, <1>6 DEF Sessions, Changes

LEMMA TurnsHold ==
  ASSUME Types, Types', Turns,
         \/ \E r \in Requests : Sessions(r) \/ Changes(r)
         \/ LockPasses \/ Crash
  PROVE  Turns'
<1>1. ASSUME NEW r \in Requests, Sessions(r) \/ Changes(r) PROVE Turns'
  <2> SUFFICES ASSUME mode' # "replicas", NEW q \in Requests,
                      req'[q].pc \in Refreshing \cup Resetting
               PROVE  turn' = q
    BY DEF Turns
  <2>1. mode # "replicas"
    BY <1>1, CommonLemma
  <2>2. CASE q = r
    BY <1>1, <2>1, <2>2, TurnLemma
  <2>3. CASE q # r
    <3>1. turn = q
      BY <1>1, <2>1, <2>3, CommonLemma DEF Turns
    <3>2. Turning(r)
      BY <1>1, CommonLemma
    <3> QED BY <2>3, <3>1, <3>2 DEF Turning, Leaves
  <2> QED BY <2>2, <2>3
<1>2. CASE LockPasses
  BY <1>2, LockLemma DEF Turns
<1>3. CASE Crash
  BY <1>3, CrashLemma DEF Turns, Refreshing, Resetting
<1> QED BY <1>1, <1>2, <1>3

-----------------------------------------------------------------------------
(* Tokens that are only deleted, by one who does not refresh.              *)
LEMMA DeletingRotates ==
  ASSUME Types, Types', Rotation, NEW r \in Requests, Sessions(r) \/ Changes(r),
         tokens' \subseteq tokens, req'[r].pc \notin Refreshing
  PROVE  Rotation'
<1>1. /\ \A q \in Requests \ {r} : req'[q] = req[q]
      /\ mode' = mode
  BY CommonLemma
<1>2. \A t \in tokens' : Past(t.login)'
  BY PastLemma DEF Rotation
<1>3. ASSUME NEW q \in Requests, req'[q].pc \in Refreshing
      PROVE  q # r /\ req'[q] = req[q]
  BY <1>1, <1>3
<1>4. OneTokenPerLogin'
  BY <1>1 DEF Rotation, OneTokenPerLogin
<1>5. ASSUME mode' # "replicas", NEW q \in Requests, NEW t \in tokens'
      PROVE  /\ req'[q].pc \in {"owner", "rotate"} /\ t.login = req'[q].read.login
                  => t = req'[q].read
             /\ req'[q].pc = "next" => t.login # req'[q].read.login
  BY <1>1, <1>3, <1>5 DEF Rotation, Refreshing
<1>6. \A q \in Requests : req'[q].pc \in Refreshing => Past(req[q].read.login)'
  <2> TAKE q \in Requests
  <2> HAVE req'[q].pc \in Refreshing
  <2>1. PICK n : n = req[q].read.login
    OBVIOUS
  <2>2. req'[q] = req[q] /\ Past(n)
    BY <1>1, <2>1 DEF Rotation
  <2>3. Past(n)'
    BY <2>2, PastLemma
  <2> QED BY <2>1, <2>2, <2>3 DEF Past
<1> QED BY <1>2, <1>4, <1>5, <1>6 DEF Rotation

(* A login's first token. *)
LEMMA IssuingRotates ==
  ASSUME Types, Types', Rotation, NEW r \in Requests, GenerateRefreshToken(r)
  PROVE  Rotation'
<1> DEFINE new == [id |-> r, login |-> r, password |-> req[r].read.password]
<1>1. /\ \A q \in Requests \ {r} : req'[q] = req[q]
      /\ mode' = mode
      /\ \A n : Past(n) => Past(n)'
  BY CommonLemma, PastLemma DEF Sessions
<1>2. req[r].pc = "issue" /\ req'[r] = Done /\ tokens' = tokens \cup {new}
  BY DEF GenerateRefreshToken, Ends, Types
<1>3. new.login = r /\ Past(r)' /\ ~Past(r)
  BY <1>2 DEF Past, Done, At
<1> HIDE DEF new
<1>4. \A t \in tokens' : Past(t.login)'
  BY <1>1, <1>2, <1>3 DEF Rotation
<1>5. \A q \in Requests : req'[q].pc \in Refreshing =>
                          q # r /\ req'[q] = req[q] /\ req[q].pc \in Refreshing
  BY <1>1, <1>2 DEF Done, At, Refreshing
<1>6. \A q \in Requests : req'[q].pc \in Refreshing => Past(req[q].read.login)'
  <2> SUFFICES ASSUME NEW q \in Requests, req'[q].pc \in Refreshing
               PROVE  Past(req[q].read.login)'
    OBVIOUS
  <2>1. PICK n : n = req[q].read.login
    OBVIOUS
  <2>2. Past(n)'
    BY <1>1, <1>5, <2>1 DEF Rotation
  <2> QED BY <1>5, <2>1, <2>2 DEF Past
<1>7. OneTokenPerLogin'
  <2>1. \A t \in tokens : t.login # r
    BY <1>3 DEF Rotation
  <2> QED BY <1>1, <1>2, <1>3, <2>1 DEF Rotation, OneTokenPerLogin
<1>8. ASSUME mode' # "replicas", NEW q \in Requests, NEW t \in tokens'
      PROVE  /\ req'[q].pc \in {"owner", "rotate"} /\ t.login = req'[q].read.login
                  => t = req'[q].read
             /\ req'[q].pc = "next" => t.login # req'[q].read.login
  <2> SUFFICES ASSUME req'[q].pc \in Refreshing
               PROVE  /\ req[q].pc \in {"owner", "rotate"} /\ t.login = req[q].read.login
                           => t = req[q].read
                      /\ req[q].pc = "next" => t.login # req[q].read.login
    BY <1>5 DEF Refreshing
  <2>1. CASE t \in tokens
    BY <1>1, <1>8, <2>1 DEF Rotation
  <2>2. CASE t = new
    <3>1. req[q].read.login # r
      BY <1>3, <1>5 DEF Rotation
    <3> QED BY <1>3, <2>2, <3>1
  <2> QED BY <1>2, <2>1, <2>2
<1> QED BY <1>4, <1>6, <1>7, <1>8 DEF Rotation

(* A refresh: alone with the token, by its turn. *)
LEMMA RefreshRotates ==
  ASSUME Types, Types', Turns, Turns', Rotation, NEW r \in Requests,
         \/ RefreshReads(r) \/ RefreshFindsUser(r)
         \/ RefreshDeletes(r) \/ RefreshCreates(r)
  PROVE  Rotation'
<1>1. /\ \A q \in Requests \ {r} : req'[q] = req[q]
      /\ mode' = mode
      /\ \A n : Past(n) => Past(n)'
  BY CommonLemma, PastLemma DEF Sessions
<1>2. \A x : req' = [req EXCEPT ![r] = x] => req'[r] = x
  BY DEF Types
<1>3. CASE RefreshFindsUser(r) /\ Ends(r)
  <2>1. req'[r] = Done /\ tokens' = tokens
    BY <1>2, <1>3 DEF RefreshFindsUser, Ends
  <2>2. req'[r].pc \notin Refreshing
    BY <2>1 DEF Done, At, Refreshing
  <2> QED BY <1>3, <2>1, <2>2, DeletingRotates DEF Sessions
<1>4. ASSUME NEW t \in Token, Past(t.login), req'[r].pc \in Refreshing,
             req'[r].read = t, tokens' \subseteq tokens,
             mode # "replicas" =>
               /\ req'[r].pc = "next" => \A u \in tokens' : u.login # t.login
               /\ req'[r].pc # "next" => \A u \in tokens' : u.login = t.login => u = t
      PROVE  Rotation'
  <2>1. \A u \in tokens' : Past(u.login)'
    BY <1>1, <1>4 DEF Rotation
  <2>2. \A q \in Requests : req'[q].pc \in Refreshing => Past(req[q].read.login)'
    <3> SUFFICES ASSUME NEW q \in Requests, req'[q].pc \in Refreshing
                 PROVE  Past(req[q].read.login)'
      OBVIOUS
    <3>1. PICK u : u = req'[q].read
      OBVIOUS
    <3>2. Past(u.login)
      BY <1>1, <1>4, <3>1 DEF Rotation
    <3>3. Past(u.login)'
      BY <1>1, <3>2
    <3> QED BY <3>1, <3>3 DEF Past
  <2>3. OneTokenPerLogin'
    BY <1>1, <1>4 DEF Rotation, OneTokenPerLogin
  <2>4. ASSUME mode' # "replicas", NEW q \in Requests, NEW u \in tokens'
        PROVE  /\ req'[q].pc \in {"owner", "rotate"} /\ u.login = req'[q].read.login
                    => u = req'[q].read
               /\ req'[q].pc = "next" => u.login # req'[q].read.login
    <3>1. CASE q = r
      BY <1>1, <1>4, <2>4, <3>1
    <3>2. CASE q # r
      BY <1>1, <1>4, <2>4, <3>2 DEF Rotation
    <3> QED BY <3>1, <3>2
  <2> QED BY <2>1, <2>2, <2>3, <2>4 DEF Rotation
<1>5. CASE RefreshReads(r)
  <2>1. PICK t \in tokens : req'[r] = At("owner", t)
    BY <1>2, <1>5 DEF RefreshReads, ComesToAuth
  <2>2. req'[r].pc = "owner" /\ req'[r].read = t
    BY <2>1 DEF At
  <2>3. tokens' = tokens /\ t \in Token /\ Past(t.login)
    BY <1>5 DEF RefreshReads, Types, Rotation
  <2>4. mode # "replicas" => \A u \in tokens : u.login = t.login => u = t
    BY DEF Rotation, OneTokenPerLogin
  <2> QED BY <1>4, <2>2, <2>3, <2>4 DEF Refreshing
<1>6. CASE RefreshFindsUser(r) /\ ~Ends(r)
  <2>1. req[r].pc = "owner" /\ req'[r] = At("rotate", req[r].read) /\ tokens' = tokens
    BY <1>2, <1>6 DEF RefreshFindsUser, Goes
  <2>2. req'[r].pc = "rotate" /\ req'[r].read = req[r].read
    BY <2>1 DEF At
  <2>3. req[r].read \in Token /\ Past(req[r].read.login)
    BY <2>1, AskedLemma DEF Refreshing, Rotation
  <2>4. mode # "replicas" =>
          \A u \in tokens : u.login = req[r].read.login => u = req[r].read
    BY <2>1 DEF Rotation
  <2> QED BY <1>4, <2>1, <2>2, <2>3, <2>4 DEF Refreshing
<1>7. CASE RefreshDeletes(r)
  <2>1. /\ req[r].pc = "rotate" /\ req'[r] = At("next", req[r].read)
        /\ tokens' = tokens \ {req[r].read}
    BY <1>2, <1>7 DEF RefreshDeletes, DeletesToken, Goes
  <2>2. req'[r].pc = "next" /\ req'[r].read = req[r].read
    BY <2>1 DEF At
  <2>3. req[r].read \in Token /\ Past(req[r].read.login)
    BY <2>1, AskedLemma DEF Refreshing, Rotation
  <2>4. mode # "replicas" => \A u \in tokens' : u.login # req[r].read.login
    BY <2>1 DEF Rotation
  <2> QED BY <1>4, <2>1, <2>2, <2>3, <2>4 DEF Refreshing
<1>8. CASE RefreshCreates(r)
  <2> DEFINE new == [req[r].read EXCEPT !.id = r]
  <2>1. req[r].pc = "next" /\ req'[r] = Done /\ tokens' = tokens \cup {new}
    BY <1>2, <1>8 DEF RefreshCreates, Ends
  <2>2. /\ req[r].read \in Token /\ Past(req[r].read.login)
        /\ new.login = req[r].read.login
    BY <2>1, AskedLemma DEF Refreshing, Rotation, Token
  <2> HIDE DEF new
  <2>3. \A t \in tokens' : Past(t.login)'
    BY <1>1, <2>1, <2>2 DEF Rotation
  <2>4. \A q \in Requests : req'[q].pc \in Refreshing =>
                            q # r /\ req'[q] = req[q] /\ req[q].pc \in Refreshing
    BY <1>1, <2>1 DEF Done, At, Refreshing
  <2>5. mode # "replicas" => \A q \in Requests : req'[q].pc \notin Refreshing
    BY <2>1, <2>4 DEF Turns, Refreshing
  <2>6. \A q \in Requests : req'[q].pc \in Refreshing => Past(req[q].read.login)'
    <3> SUFFICES ASSUME NEW q \in Requests, req'[q].pc \in Refreshing
                 PROVE  Past(req[q].read.login)'
      OBVIOUS
    <3>1. PICK n : n = req[q].read.login
      OBVIOUS
    <3>2. Past(n)'
      BY <1>1, <2>4, <3>1 DEF Rotation
    <3> QED BY <2>4, <3>1, <3>2 DEF Past
  <2>7. OneTokenPerLogin'
    <3>1. mode # "replicas" => \A t \in tokens : t.login # new.login
      BY <2>1, <2>2 DEF Rotation
    <3> QED BY <1>1, <2>1, <3>1 DEF Rotation, OneTokenPerLogin
  <2> QED BY <1>1, <2>3, <2>5, <2>6, <2>7 DEF Rotation, Refreshing
<1> QED BY <1>3, <1>5, <1>6, <1>7, <1>8

LEMMA RotationHolds ==
  ASSUME Types, Types', Turns, Turns', Rotation,
         \/ \E r \in Requests : Sessions(r) \/ Changes(r)
         \/ LockPasses \/ Crash
  PROVE  Rotation'
<1>1. ASSUME NEW r \in Requests, Sessions(r) \/ Changes(r),
             ~GenerateRefreshToken(r), ~RefreshReads(r), ~RefreshFindsUser(r),
             ~RefreshDeletes(r), ~RefreshCreates(r)
      PROVE  Rotation'
  <2>1. tokens' \subseteq tokens
    BY <1>1 DEF Sessions, Login, LoginFails, LoginClears, VerifyTwoFactorLogin,
       Logout, Changes, GetUserByID, SaveUser, DeleteRefreshTokens, LogsOut,
       RemoveMember, InitiatePasswordReset, InvalidatesTokens,
       CreatesResetToken, CompletePasswordReset, ResetCommits, StatementFails
  <2>2. \A x : Moves(r, x) => req'[r] = x
    BY MovesLemma
  <2>3. \A old : \A pc \in {"wrong", "right", "issue"} \cup Edits \cup WithNone \cup {"reset"} :
          At(pc, old).pc \notin Refreshing
    BY DEF At, Refreshing, Edits, WithNone
  <2>4. Done.pc \notin Refreshing
    BY DEF Done, At, Refreshing
  <2>5. req'[r].pc \notin Refreshing
    BY <1>1, <2>2, <2>3, <2>4, StepsLemma DEF Sessions, Changes, WithNone
  <2> QED BY <1>1, <2>1, <2>5, DeletingRotates
<1>2. ASSUME LockPasses \/ Crash PROVE Rotation'
  <2>1. tokens' = tokens /\ mode' = mode /\ \A n : Past(n) => Past(n)'
    BY <1>2, LockLemma, CrashLemma, PastLemma
  <2>2. \A q \in Requests : req'[q].pc \in Refreshing => req'[q] = req[q]
    BY <1>2, LockLemma, CrashLemma DEF Refreshing, WithRow, Edits
  <2>3. \A q \in Requests : req'[q].pc \in Refreshing => Past(req[q].read.login)'
    <3> SUFFICES ASSUME NEW q \in Requests, req'[q].pc \in Refreshing
                 PROVE  Past(req[q].read.login)'
      OBVIOUS
    <3>1. PICK n : n = req[q].read.login
      OBVIOUS
    <3>2. Past(n)'
      BY <2>1, <2>2, <3>1 DEF Rotation
    <3> QED BY <2>2, <3>1, <3>2 DEF Past
  <2>4. OneTokenPerLogin'
    BY <2>1 DEF Rotation, OneTokenPerLogin
  <2>5. ASSUME mode' # "replicas", NEW q \in Requests, NEW t \in tokens'
        PROVE  /\ req'[q].pc \in {"owner", "rotate"} /\ t.login = req'[q].read.login
                    => t = req'[q].read
               /\ req'[q].pc = "next" => t.login # req'[q].read.login
    BY <2>1, <2>2, <2>5 DEF Rotation, Refreshing
  <2> QED BY <2>1, <2>3, <2>4, <2>5 DEF Rotation
<1> QED BY <1>1, <1>2, IssuingRotates, RefreshRotates

-----------------------------------------------------------------------------
(* Steps that change no reset token, and reset no password with one that   *)
(* was used.                                                               *)
LEMMA StandingSingle ==
  ASSUME Types, Types', Single, UNCHANGED <<resets, uses, mode>>,
         \A n : Past(n) => Past(n)',
         \A q \in Requests : req'[q].pc = "reset" =>
           /\ uses[req'[q].read] = 0
           /\ Past(req'[q].read),
         mode = "replicas" => \A q \in Requests : req'[q].pc \notin Resetting
  PROVE  Single'
<1>1. \A n \in Names : /\ resets'[n] # None \/ uses'[n] # 0 => Past(n)'
                       /\ resets'[n] = "fresh" => uses'[n] = 0
                       /\ uses'[n] <= 1
  BY DEF Single
<1>2. ASSUME NEW q \in Requests, req'[q].pc = "reset"
      PROVE  /\ uses'[req'[q].read] = 0
             /\ Past(req[q].read)'
  <2>1. PICK n : n = req'[q].read
    OBVIOUS
  <2>2. uses'[n] = 0 /\ Past(n)'
    BY <1>2, <2>1
  <2> QED BY <2>1, <2>2 DEF Past
<1>3. mode' = "replicas" => /\ \A n \in Names : resets'[n] = None
                            /\ \A q \in Requests : req'[q].pc \notin Resetting
  BY DEF Single
<1> QED BY <1>1, <1>2, <1>3 DEF Single

LEMMA SingleHolds ==
  ASSUME Types, Types', Turns, Single,
         \/ \E r \in Requests : Sessions(r) \/ Changes(r)
         \/ LockPasses \/ Crash
  PROVE  Single'
<1>0. \A n : Past(n) => Past(n)'
  BY PastLemma
<1>1. ASSUME NEW r \in Requests, Sessions(r) \/ Changes(r),
             UNCHANGED <<resets, uses>>, req'[r].pc # "reset",
             mode = "replicas" => req'[r].pc \notin Resetting
      PROVE  Single'
  <2>1. mode' = mode /\ \A q \in Requests \ {r} : req'[q] = req[q]
    BY <1>1, CommonLemma
  <2>2. \A q \in Requests : req'[q].pc = "reset" => /\ uses[req'[q].read] = 0
                                                    /\ Past(req'[q].read)
    <3> SUFFICES ASSUME NEW q \in Requests, req'[q].pc = "reset"
                 PROVE  uses[req'[q].read] = 0 /\ Past(req'[q].read)
      OBVIOUS
    <3>1. req'[q] = req[q]
      BY <1>1, <2>1
    <3>2. uses[req[q].read] = 0 /\ Past(req[q].read)
      BY <3>1 DEF Single
    <3> QED BY <3>1, <3>2
  <2>3. mode = "replicas" => \A q \in Requests : req'[q].pc \notin Resetting
    BY <1>1, <2>1 DEF Single
  <2> QED BY <1>0, <1>1, <2>1, <2>2, <2>3, StandingSingle
<1>2. ASSUME NEW r \in Requests, Sessions(r) \/ Changes(r), UNCHANGED <<resets, uses>>,
             ~InitiatePasswordReset(r), ~CompletePasswordReset(r)
      PROVE  Single'
  <2>1. \A x : Moves(r, x) => req'[r] = x
    BY MovesLemma
  <2>2. \A old : \A pc \in {"wrong", "right", "issue", "code", "logout"} \cup Edits \cup Refreshing :
          At(pc, old).pc \notin Resetting
    BY DEF At, Resetting, Edits, Refreshing
  <2>3. Done.pc \notin Resetting
    BY DEF Done, At, Resetting
  <2>4. ~InvalidatesTokens(r) => req'[r].pc \notin Resetting
    BY <1>2, <2>1, <2>2, <2>3, StepsLemma DEF Sessions, Changes, Refreshing
  <2>5. InvalidatesTokens(r) => req'[r].pc = "send" /\ mode # "replicas"
    <3>1. Moves(r, At("send", None)) => req'[r].pc = "send"
      BY <2>1 DEF At
    <3>2. InvalidatesTokens(r) => req[r].pc \in Resetting
      BY DEF InvalidatesTokens, Resetting
    <3> QED BY <3>1, <3>2, StepsLemma DEF Single
  <2> QED BY <1>1, <1>2, <2>4, <2>5 DEF Resetting
<1>3. ASSUME NEW r \in Requests, InitiatePasswordReset(r) PROVE Single'
  <2>1. req'[r].pc = "invalidate" /\ mode # "replicas" /\ UNCHANGED <<resets, uses>>
    BY <1>3 DEF InitiatePasswordReset, ComesToAuth, Types, At
  <2> QED BY <1>1, <1>3, <2>1 DEF Changes
<1>4. ASSUME NEW r \in Requests, CompletePasswordReset(r) PROVE Single'
  <2>1. PICK n \in Names : resets[n] = "fresh" /\ Moves(r, At("reset", n))
    BY <1>4, StepsLemma
  <2>2. req'[r] = At("reset", n) /\ \A q \in Requests \ {r} : req'[q] = req[q]
    BY <2>1, MovesLemma
  <2>3. req'[r].read = n
    BY <2>2 DEF At
  <2>4. uses[n] = 0 /\ Past(n) /\ mode # "replicas"
    BY <2>1 DEF Single
  <2>5. \A q \in Requests : req'[q].pc = "reset" => /\ uses[req'[q].read] = 0
                                                    /\ Past(req'[q].read)
    <3> SUFFICES ASSUME NEW q \in Requests, req'[q].pc = "reset"
                 PROVE  uses[req'[q].read] = 0 /\ Past(req'[q].read)
      OBVIOUS
    <3>1. CASE q = r
      BY <2>3, <2>4, <3>1
    <3>2. CASE q # r
      <4>1. req'[q] = req[q]
        BY <2>2, <3>2
      <4>2. uses[req[q].read] = 0 /\ Past(req[q].read)
        BY <4>1 DEF Single
      <4> QED BY <4>1, <4>2
    <3> QED BY <3>1, <3>2
  <2>6. UNCHANGED <<resets, uses, mode>>
    BY <1>4 DEF CompletePasswordReset
  <2> QED BY <1>0, <2>4, <2>5, <2>6, StandingSingle
<1>5. ASSUME NEW r \in Requests, InvalidatesTokens(r) PROVE Single'
  <2>1. /\ req'[r] = At("send", None) /\ \A q \in Requests \ {r} : req'[q] = req[q]
        /\ uses' = uses /\ mode' = mode
        /\ \/ resets' = [n \in Names |-> IF resets[n] = "fresh" THEN None ELSE resets[n]]
           \/ resets' = resets
    BY <1>5, StepsLemma, MovesLemma DEF InvalidatesTokens
  <2>2. req'[r].pc = "send"
    BY <2>1 DEF At
  <2>3. mode # "replicas"
    <3>1. req[r].pc \in Resetting
      BY <1>5 DEF InvalidatesTokens, Resetting
    <3> QED BY <3>1 DEF Single
  <2>4. \A n \in Names :
          \/ resets'[n] = None
          \/ resets'[n] = resets[n]
    BY <2>1
  <2>5. \A n \in Names : /\ resets'[n] # None \/ uses'[n] # 0 => Past(n)'
                         /\ resets'[n] = "fresh" => uses'[n] = 0
                         /\ uses'[n] <= 1
    BY <1>0, <2>1, <2>4 DEF Single
  <2>6. ASSUME NEW q \in Requests, req'[q].pc = "reset"
        PROVE  uses'[req'[q].read] = 0 /\ Past(req[q].read)'
    <3>1. req'[q] = req[q]
      BY <2>1, <2>2, <2>6
    <3>2. PICK n : n = req[q].read
      OBVIOUS
    <3>3. uses[n] = 0 /\ Past(n)'
      <4>1. uses[n] = 0 /\ Past(n)
        BY <2>6, <3>1, <3>2 DEF Single
      <4> QED BY <1>0, <4>1
    <3>4. Past(req[q].read)'
      BY <3>1, <3>2, <3>3 DEF Past
    <3>5. uses'[req'[q].read] = 0
      BY <2>1, <3>1, <3>2, <3>3
    <3> QED BY <3>4, <3>5
  <2>7. \A q \in Requests : req'[q].pc = "reset" => /\ uses'[req'[q].read] = 0
                                                    /\ Past(req[q].read)'
    BY <2>6
  <2> QED BY <2>1, <2>3, <2>5, <2>7 DEF Single
<1>6. ASSUME NEW r \in Requests, CreatesResetToken(r) PROVE Single'
  <2>1. /\ req[r].pc = "send" /\ req'[r] = Done
        /\ \A q \in Requests \ {r} : req'[q] = req[q]
        /\ uses' = uses /\ mode' = mode
        /\ resets' = [resets EXCEPT ![r] = "fresh"]
    BY <1>6, StepsLemma, MovesLemma DEF CreatesResetToken
  <2>2. mode # "replicas" /\ Past(r)' /\ ~Past(r)
    BY <2>1 DEF Single, Resetting, Past, Done, At
  <2>3. \A n \in Names : n # r => resets'[n] = resets[n]
    BY <2>1 DEF Types
  <2>4. uses[r] = 0
    BY <2>2 DEF Single
  <2>5. \A n \in Names : /\ resets'[n] # None \/ uses'[n] # 0 => Past(n)'
                         /\ resets'[n] = "fresh" => uses'[n] = 0
                         /\ uses'[n] <= 1
    BY <1>0, <2>1, <2>2, <2>3, <2>4 DEF Single
  <2>6. ASSUME NEW q \in Requests, req'[q].pc = "reset"
        PROVE  uses'[req'[q].read] = 0 /\ Past(req[q].read)'
    <3>1. req'[q] = req[q]
      BY <2>1, <2>6 DEF Done, At
    <3>2. PICK n : n = req[q].read
      OBVIOUS
    <3>3. uses[n] = 0 /\ Past(n)'
      <4>1. uses[n] = 0 /\ Past(n)
        BY <2>6, <3>1, <3>2 DEF Single
      <4> QED BY <1>0, <4>1
    <3>4. Past(req[q].read)'
      BY <3>1, <3>2, <3>3 DEF Past
    <3>5. uses'[req'[q].read] = 0
      BY <2>1, <3>1, <3>2, <3>3
    <3> QED BY <3>4, <3>5
  <2>7. \A q \in Requests : req'[q].pc = "reset" => /\ uses'[req'[q].read] = 0
                                                    /\ Past(req[q].read)'
    BY <2>6
  <2> QED BY <2>1, <2>2, <2>5, <2>7 DEF Single
<1>7. ASSUME NEW r \in Requests, ResetCommits(r) PROVE Single'
  <2>1. PICK m \in Names : m = req[r].read
    BY <1>7, AskedLemma DEF ResetCommits
  <2>2. /\ req[r].pc = "reset" /\ req'[r] = At("logout", None)
        /\ \A q \in Requests \ {r} : req'[q] = req[q]
        /\ mode' = mode
        /\ resets' = [resets EXCEPT ![m] = "used"]
        /\ uses' = [uses EXCEPT ![m] = @ + 1]
    BY <1>7, <2>1, StepsLemma, MovesLemma DEF ResetCommits, MarkedUsed
  <2>3. mode # "replicas" /\ uses[m] = 0 /\ Past(m)
    BY <2>1, <2>2 DEF Single, Resetting
  <2>4. \A n \in Names : n # m => resets'[n] = resets[n] /\ uses'[n] = uses[n]
    BY <2>2 DEF Types
  <2>5. resets'[m] = "used" /\ uses'[m] = 1
    BY <2>2, <2>3 DEF Types
  <2>6. \A n \in Names : /\ resets'[n] # None \/ uses'[n] # 0 => Past(n)'
                         /\ resets'[n] = "fresh" => uses'[n] = 0
                         /\ uses'[n] <= 1
    BY <1>0, <2>3, <2>4, <2>5 DEF Single
  <2>7. \A q \in Requests : req'[q].pc # "reset"
    <3>1. req'[r].pc = "logout"
      BY <2>2 DEF At
    <3>2. \A q \in Requests \ {r} : req[q].pc # "reset"
      BY <2>2, <2>3 DEF Turns, Resetting
    <3> QED BY <2>2, <3>1, <3>2
  <2> QED BY <2>2, <2>3, <2>6, <2>7 DEF Single
<1>8. ASSUME LockPasses \/ Crash PROVE Single'
  <2>1. UNCHANGED <<resets, uses, mode>>
    BY <1>8, LockLemma, CrashLemma
  <2>2. \A q \in Requests : req'[q].pc \in Resetting => req'[q] = req[q]
    BY <1>8, LockLemma, CrashLemma DEF Resetting, WithRow, Edits
  <2>3. \A q \in Requests : req'[q].pc = "reset" => /\ uses[req'[q].read] = 0
                                                    /\ Past(req'[q].read)
    <3> SUFFICES ASSUME NEW q \in Requests, req'[q].pc = "reset"
                 PROVE  uses[req'[q].read] = 0 /\ Past(req'[q].read)
      OBVIOUS
    <3>1. req'[q] = req[q]
      BY <2>2 DEF Resetting
    <3>2. uses[req[q].read] = 0 /\ Past(req[q].read)
      BY <3>1 DEF Single
    <3> QED BY <3>1, <3>2
  <2>4. mode = "replicas" => \A q \in Requests : req'[q].pc \notin Resetting
    BY <2>2 DEF Single
  <2> QED BY <1>0, <2>1, <2>3, <2>4, StandingSingle
<1>9. ASSUME NEW r \in Requests, Sessions(r) \/ Changes(r), ~InvalidatesTokens(r),
             ~CreatesResetToken(r), ~ResetCommits(r)
      PROVE  UNCHANGED <<resets, uses>>
  BY <1>9 DEF Sessions, Login, LoginFails, LoginClears, VerifyTwoFactorLogin,
     GenerateRefreshToken, RefreshReads, RefreshFindsUser, RefreshDeletes,
     RefreshCreates, Logout, Changes, GetUserByID, SaveUser,
     DeleteRefreshTokens, RemoveMember, InitiatePasswordReset,
     CompletePasswordReset, StatementFails
<1> QED BY <1>2, <1>3, <1>4, <1>5, <1>6, <1>7, <1>8, <1>9

-----------------------------------------------------------------------------
(* Of requests that come one at a time, the others wait. *)
LEMMA OthersWait ==
  ASSUME Types, InStep, mode = "serial", NEW r \in Requests,
         Sessions(r) \/ Changes(r)
  PROVE  \A q \in Requests \ {r} : Waiting(q)
<1>1. CASE Alone
  BY <1>1 DEF Alone
<1>2. CASE ~Alone
  <2>1. req[r].pc \notin {"new", "code", "done"}
    <3>1. ~MayCome(r)
      BY <1>2 DEF MayCome
    <3>2. CASE Sessions(r)
      BY <1>2, <3>1, <3>2 DEF Sessions, Login, ComesToAuth, Comes, LoginFails,
         LoginClears, VerifyTwoFactorLogin, GenerateRefreshToken, RefreshReads,
         RefreshFindsUser, RefreshDeletes, RefreshCreates, Logout
    <3>3. CASE Changes(r)
      BY <3>1, <3>3 DEF Changes, GetUserByID, ComesToAuth, Comes, SaveUser, Edits,
         DeleteRefreshTokens, RemoveMember, InitiatePasswordReset,
         InvalidatesTokens, CreatesResetToken, CompletePasswordReset,
         ResetCommits, StatementFails
    <3> QED BY <3>2, <3>3
  <2>2. ~Waiting(r)
    BY <2>1 DEF Waiting
  <2> QED BY <2>2 DEF InStep
<1> QED BY <1>1, <1>2

(* What the one step under way has to keep. *)
Keeps(r) ==
  /\ req'[r].pc \in {"right", "issue"} \cup Edits =>
       user' # None /\ req'[r].read.password = user'.password
  /\ req'[r].pc \in Refreshing /\ user' # None =>
       req'[r].read.password = user'.password \/ req'[r].read.login \in kept'
  /\ req'[r].pc # "logout" /\ user' # None =>
       \A t \in tokens' : t.password = user'.password \/ t.login \in kept'

LEMMA KeepsLemma ==
  ASSUME Types, InStep, mode = "serial", NEW r \in Requests,
         Sessions(r) \/ Changes(r), Keeps(r)
  PROVE  InStep'
<1>1. \A q \in Requests \ {r} : req'[q] = req[q] /\ Waiting(q)
  BY CommonLemma, OthersWait
<1>2. \A q \in Requests \ {r} : Waiting(q)' /\ req'[q].pc \in {"new", "code", "done"}
  BY <1>1 DEF Waiting
<1>3. \A q, p \in Requests : ~Waiting(q)' /\ ~Waiting(p)' => q = p
  BY <1>2
<1>4. ASSUME NEW q \in Requests
      PROVE  /\ req'[q].pc \in {"right", "issue"} \cup Edits =>
                  user' # None /\ req'[q].read.password = user'.password
             /\ req'[q].pc \in Refreshing /\ user' # None =>
                  \/ req'[q].read.password = user'.password
                  \/ req'[q].read.login \in kept'
  <2>1. CASE q = r
    BY <2>1 DEF Keeps
  <2>2. CASE q # r
    BY <1>2, <2>2 DEF Refreshing, Edits
  <2> QED BY <2>1, <2>2
<1>5. (\A q \in Requests : req'[q].pc # "logout") /\ user' # None =>
        \A t \in tokens' : t.password = user'.password \/ t.login \in kept'
  BY DEF Keeps
<1> QED BY <1>3, <1>4, <1>5 DEF InStep

(* The sessions that match the stored password before the step. *)
LEMMA MatchLemma ==
  ASSUME Types, InStep, mode = "serial", NEW r \in Requests,
         Sessions(r) \/ Changes(r), req[r].pc # "logout", user # None
  PROVE  \A t \in tokens : t.password = user.password \/ t.login \in kept
<1>1. \A q \in Requests \ {r} : req[q].pc # "logout"
  BY OthersWait DEF Waiting
<1> QED BY <1>1 DEF InStep

LEMMA SessionsKeep ==
  ASSUME Types, InStep, mode = "serial", NEW r \in Requests, Sessions(r)
  PROVE  Keeps(r)
<1>m. req[r].pc # "logout" /\ user # None =>
        \A t \in tokens : t.password = user.password \/ t.login \in kept
  BY MatchLemma
<1>l. req[r].pc # "logout"
  BY DEF Sessions, Login, ComesToAuth, Comes, MayCome, NotYet, At, LoginFails,
     LoginClears, VerifyTwoFactorLogin, GenerateRefreshToken, RefreshReads,
     RefreshFindsUser, RefreshDeletes, RefreshCreates, Logout
<1>k. kept' = kept
  BY <1>l, KeptLemma DEF DeleteRefreshTokens
<1>x. \A x : Moves(r, x) => req'[r] = x
  BY MovesLemma
<1>d. /\ req'[r] = Done
      /\ user' # None =>
           \A t \in tokens' : t.password = user'.password \/ t.login \in kept'
      => Keeps(r)
  BY DEF Keeps, Done, At, Refreshing, Edits
<1>1. CASE Login(r)
  <2>1. PICK pc \in {"wrong", "right"} : req'[r] = At(pc, user)
    BY <1>1, <1>x, StepsLemma
  <2>2. user' = user /\ user # None /\ tokens' = tokens
    BY <1>1 DEF Login
  <2> QED BY <1>k, <1>l, <1>m, <2>1, <2>2 DEF Keeps, At, Refreshing, Edits
<1>2. CASE LoginFails(r)
  <2>1. req'[r] = Done
    BY <1>2, <1>x, StepsLemma
  <2>2. user' # None => user # None /\ user'.password = user.password
    BY <1>2, RowLemma DEF LoginFails, Types
  <2>3. tokens' = tokens
    BY <1>2 DEF LoginFails
  <2> QED BY <1>d, <1>k, <1>l, <1>m, <2>1, <2>2, <2>3
<1>3. CASE LoginClears(r)
  <2>1. user # None /\ req[r].read.password = user.password
    BY <1>3 DEF LoginClears, InStep
  <2>2. user \in Row
    BY <2>1 DEF Types
  <2>3. user' # None /\ user'.password = user.password
    <3>0. CASE user' = user
      BY <2>1, <3>0
    <3>1. CASE user' = [user EXCEPT !.attempts = 0, !.locked = FALSE]
      <4>1. user' \in Row
        BY <2>2, <3>1, RowLemma
      <4>2. user'.password = user.password
        BY <2>2, <3>1 DEF Row
      <4> QED BY <4>1, <4>2
    <3> QED BY <1>3, <2>1, <3>0, <3>1 DEF LoginClears, Cleared
  <2>4. tokens' = tokens
    BY <1>3 DEF LoginClears
  <2>5. \/ req'[r] = At("code", None)
        \/ req'[r] = At("issue", req[r].read)
    BY <1>3, <1>x, StepsLemma
  <2> QED BY <1>k, <1>l, <1>m, <2>1, <2>3, <2>4, <2>5 DEF Keeps, At, Refreshing, Edits
<1>4. CASE VerifyTwoFactorLogin(r)
  <2>1. user' = user /\ tokens' = tokens
    BY <1>4 DEF VerifyTwoFactorLogin
  <2>2. CASE req'[r] = Done
    BY <1>d, <1>k, <1>l, <1>m, <2>1, <2>2
  <2>3. CASE req'[r] # Done
    <3>1. req'[r] = At("issue", user)
      BY <1>4, <1>x, <2>3, StepsLemma
    <3>2. user # None
      BY <1>4, <2>3 DEF VerifyTwoFactorLogin, Ends, Types
    <3> QED BY <1>k, <1>l, <1>m, <2>1, <3>1, <3>2 DEF Keeps, At, Refreshing, Edits
  <2> QED BY <2>2, <2>3
<1>5. CASE GenerateRefreshToken(r)
  <2>1. req'[r] = Done
    BY <1>5, <1>x, StepsLemma
  <2>2. /\ user' = user
        /\ tokens' = tokens \cup
             {[id |-> r, login |-> r, password |-> req[r].read.password]}
    BY <1>5 DEF GenerateRefreshToken
  <2>3. user # None /\ req[r].read.password = user.password
    BY <1>5 DEF GenerateRefreshToken, InStep
  <2> QED BY <1>d, <1>k, <1>l, <1>m, <2>1, <2>2, <2>3
<1>6. CASE RefreshReads(r)
  <2>1. PICK t \in tokens : req'[r] = At("owner", t)
    BY <1>6, <1>x, StepsLemma
  <2>2. user' = user /\ tokens' = tokens
    BY <1>6 DEF RefreshReads
  <2> QED BY <1>k, <1>l, <1>m, <2>1, <2>2 DEF Keeps, At, Refreshing, Edits
<1>7. CASE RefreshFindsUser(r)
  <2>1. user' = user /\ tokens' = tokens
    BY <1>7 DEF RefreshFindsUser
  <2>2. user # None => \/ req[r].read.password = user.password
                       \/ req[r].read.login \in kept
    BY <1>7 DEF RefreshFindsUser, InStep, Refreshing
  <2>3. req'[r] = Done \/ req'[r] = At("rotate", req[r].read)
    BY <1>7, <1>x, StepsLemma
  <2> QED BY <1>d, <1>k, <1>l, <1>m, <2>1, <2>2, <2>3 DEF Keeps, At, Refreshing, Edits
<1>8. CASE RefreshDeletes(r)
  <2>1. user' = user /\ tokens' \subseteq tokens
    BY <1>8 DEF RefreshDeletes, DeletesToken
  <2>2. user # None => \/ req[r].read.password = user.password
                       \/ req[r].read.login \in kept
    BY <1>8 DEF RefreshDeletes, InStep, Refreshing
  <2>3. req'[r] = At("next", req[r].read)
    BY <1>8, <1>x, StepsLemma
  <2> QED BY <1>k, <1>l, <1>m, <2>1, <2>2, <2>3 DEF Keeps, At, Refreshing, Edits
<1>9. CASE RefreshCreates(r)
  <2>1. user' = user /\ tokens' = tokens \cup {[req[r].read EXCEPT !.id = r]}
    BY <1>9 DEF RefreshCreates
  <2>2. user # None => \/ req[r].read.password = user.password
                       \/ req[r].read.login \in kept
    BY <1>9 DEF RefreshCreates, InStep, Refreshing
  <2>3. /\ [req[r].read EXCEPT !.id = r].password = req[r].read.password
        /\ [req[r].read EXCEPT !.id = r].login = req[r].read.login
    BY <1>9, AskedLemma DEF RefreshCreates, Refreshing, Token
  <2>4. req'[r] = Done
    BY <1>9, <1>x, StepsLemma
  <2> QED BY <1>d, <1>k, <1>l, <1>m, <2>1, <2>2, <2>3, <2>4
<1>10. CASE Logout(r)
  <2>1. user' = user /\ tokens' \subseteq tokens
    BY <1>10 DEF Logout
  <2>2. req'[r] = Done
    BY <1>10, <1>x, StepsLemma
  <2> QED BY <1>d, <1>k, <1>l, <1>m, <2>1, <2>2
<1> QED BY <1>1, <1>2, <1>3, <1>4, <1>5, <1>6, <1>7, <1>8, <1>9, <1>10 DEF Sessions

LEMMA ChangesKeep ==
  ASSUME Types, InStep, mode = "serial", NEW r \in Requests, Changes(r)
  PROVE  Keeps(r)
<1>m. req[r].pc # "logout" /\ user # None =>
        \A t \in tokens : t.password = user.password \/ t.login \in kept
  BY MatchLemma
<1>x. \A x : Moves(r, x) => req'[r] = x
  BY MovesLemma
<1>d. /\ req'[r] = Done
      /\ user' # None =>
           \A t \in tokens' : t.password = user'.password \/ t.login \in kept'
      => Keeps(r)
  BY DEF Keeps, Done, At, Refreshing, Edits
<1>k. ~DeleteRefreshTokens(r) => kept' = kept
  BY KeptLemma
<1>o. req'[r].pc = "logout" => Keeps(r)
  BY DEF Keeps, Refreshing, Edits
<1>n. MayCome(r) => req[r].pc # "logout"
  BY DEF MayCome, NotYet, At
<1>1. CASE GetUserByID(r)
  <2>1. PICK pc \in Edits : req'[r] = At(pc, user)
    BY <1>1, <1>x, StepsLemma
  <2>2. user' = user /\ user # None /\ tokens' = tokens /\ req[r].pc # "logout"
    BY <1>1, <1>n DEF GetUserByID, Comes
  <2>3. kept' = kept
    BY <1>1, <1>k DEF GetUserByID, DeleteRefreshTokens, Comes, MayCome, NotYet, At
  <2> QED BY <1>m, <2>1, <2>2, <2>3 DEF Keeps, At, Refreshing, Edits
<1>2. CASE SaveUser(r)
  <2>1. CASE req'[r] = At("logout", None)
    BY <1>o, <2>1 DEF At
  <2>2. CASE req'[r] # At("logout", None)
    <3>1. req[r].pc # "password" /\ req'[r] = Done
      BY <1>2, <1>x, <2>2, StepsLemma
    <3>2. req[r].pc \in Edits /\ user' = Edited(r) /\ tokens' = tokens
      BY <1>2 DEF SaveUser
    <3>3. user # None /\ req[r].read.password = user.password
      BY <3>2 DEF InStep
    <3>4. user'.password = user.password
      BY <3>1, <3>2, <3>3, EditedLemma
    <3>5. req[r].pc # "logout"
      BY <3>2 DEF Edits
    <3>6. kept' = kept
      BY <1>k, <3>5 DEF DeleteRefreshTokens
    <3> QED BY <1>d, <1>m, <3>1, <3>2, <3>3, <3>4, <3>5, <3>6
  <2> QED BY <2>1, <2>2
<1>3. CASE DeleteRefreshTokens(r)
  <2>1. req'[r] = Done
    BY <1>3, <1>x, StepsLemma
  <2>2. \/ tokens' = {}
        \/ tokens' = tokens /\ kept' = Spared
    BY <1>3, KeptLemma DEF Changes
  <2> QED BY <1>d, <2>1, <2>2 DEF Spared
<1>4. CASE RemoveMember(r)
  <2>1. req'[r] = Done /\ user' = None
    BY <1>4, <1>x, StepsLemma DEF RemoveMember
  <2> QED BY <1>d, <2>1
<1>5. CASE ResetCommits(r)
  <2>1. req'[r] = At("logout", None)
    BY <1>5, <1>x, StepsLemma
  <2> QED BY <1>o, <2>1 DEF At
<1>6. CASE \/ InitiatePasswordReset(r) \/ InvalidatesTokens(r)
           \/ CreatesResetToken(r) \/ CompletePasswordReset(r)
           \/ StatementFails(r)
  <2>1. user' = user /\ tokens' = tokens
    BY <1>6 DEF InitiatePasswordReset, InvalidatesTokens, CreatesResetToken,
       CompletePasswordReset, StatementFails
  <2>2. req[r].pc # "logout"
    BY <1>6, <1>n DEF InitiatePasswordReset, InvalidatesTokens, CreatesResetToken,
       CompletePasswordReset, ComesToAuth, StatementFails, Edits
  <2>k. kept' = kept
    BY <1>k, <2>2 DEF DeleteRefreshTokens
  <2>3. \/ req'[r] = At("invalidate", None) \/ req'[r] = At("send", None)
        \/ req'[r] = Done \/ \E n \in Names : req'[r] = At("reset", n)
    BY <1>6, <1>x, StepsLemma
  <2>4. req'[r].pc \in {"invalidate", "send", "done", "reset"}
    <3>1. /\ At("invalidate", None).pc = "invalidate" /\ At("send", None).pc = "send"
          /\ Done.pc = "done" /\ \A n \in Names : At("reset", n).pc = "reset"
      BY DEF At, Done
    <3> QED BY <2>3, <3>1
  <2> QED BY <1>m, <2>1, <2>2, <2>k, <2>4 DEF Keeps, Refreshing, Edits
<1> QED BY <1>1, <1>2, <1>3, <1>4, <1>5, <1>6 DEF Changes

LEMMA SerialHolds ==
  ASSUME Types, Serial,
         \/ \E r \in Requests : Sessions(r) \/ Changes(r)
         \/ LockPasses \/ Crash
  PROVE  Serial'
<1>1. ASSUME NEW r \in Requests, Sessions(r) \/ Changes(r) PROVE Serial'
  <2> SUFFICES ASSUME mode' = "serial" PROVE InStep'
    BY DEF Serial
  <2>1. mode = "serial" /\ InStep
    BY <1>1, CommonLemma DEF Serial
  <2> QED BY <1>1, <2>1, SessionsKeep, ChangesKeep, KeepsLemma
<1>2. CASE LockPasses
  <2> SUFFICES ASSUME mode' = "serial" PROVE InStep'
    BY DEF Serial
  <2>1. InStep
    BY <1>2, LockLemma DEF Serial
  <2>2. /\ user = None <=> user' = None
        /\ user # None => user'.password = user.password
        /\ tokens' = tokens /\ kept' = kept
    BY <1>2, LockLemma
  <2>3. \A r \in Requests :
          /\ req'[r].pc = req[r].pc
          /\ req[r].pc \in WithRow => req'[r].read.password = req[r].read.password
          /\ req[r].pc \notin WithRow => req'[r] = req[r]
    BY <1>2, LockLemma
  <2>4. \A r, q \in Requests : ~Waiting(r)' /\ ~Waiting(q)' => r = q
    BY <2>1, <2>3 DEF InStep, Waiting
  <2>5. ASSUME NEW r \in Requests
        PROVE  /\ req'[r].pc \in {"right", "issue"} \cup Edits =>
                    user' # None /\ req'[r].read.password = user'.password
               /\ req'[r].pc \in Refreshing /\ user' # None =>
                    \/ req'[r].read.password = user'.password
                    \/ req'[r].read.login \in kept'
    <3>1. req[r].pc \in {"right", "issue"} \cup Edits => req[r].pc \in WithRow
      BY DEF WithRow
    <3>2. req[r].pc \in Refreshing => req[r].pc \notin WithRow
      BY DEF WithRow, Refreshing, Edits
    <3> QED BY <2>1, <2>2, <2>3, <3>1, <3>2 DEF InStep
  <2>6. (\A r \in Requests : req'[r].pc # "logout") /\ user' # None =>
          \A t \in tokens' : t.password = user'.password \/ t.login \in kept'
    BY <2>1, <2>2, <2>3 DEF InStep
  <2> QED BY <2>4, <2>5, <2>6 DEF InStep
<1>3. CASE Crash
  <2> SUFFICES ASSUME mode' = "serial" PROVE InStep'
    BY DEF Serial
  <2>1. InStep /\ UNCHANGED <<user, tokens>>
    BY <1>3, CrashLemma DEF Serial
  <2>2. \A r \in Requests : req'[r].pc \in {"new", "code", "done"}
    BY <1>3, CrashLemma
  <2>3. kept' = IF \E r \in Requests : req[r].pc = "logout" THEN Spared ELSE kept
    BY <1>3, CrashLemma
  <2>4. user' # None => \A t \in tokens' : t.password = user'.password \/ t.login \in kept'
    BY <2>1, <2>3 DEF InStep, Spared
  <2>5. \A r \in Requests : Waiting(r)'
    BY <2>2 DEF Waiting
  <2>6. \A r \in Requests : req'[r].pc \notin {"right", "issue"} \cup Edits \cup Refreshing
    BY <2>2 DEF Edits, Refreshing
  <2> QED BY <2>4, <2>5, <2>6 DEF InStep
<1> QED BY <1>1, <1>2, <1>3

-----------------------------------------------------------------------------
LEMMA InitHolds == Init => IInv
<1> SUFFICES ASSUME Init PROVE IInv
  OBVIOUS
<1>0. \A r \in Requests : req[r] = NotYet /\ req[r].pc = "new"
  BY DEF Init, NotYet, At
<1>1. Types
  <2>1. PICK factor \in {"off", "on"} :
          user = [password |-> Before, factor |-> factor, attempts |-> 0, locked |-> FALSE]
    BY DEF Init
  <2>2. 0 \in 0..(MaxAttempts - 1)
    OBVIOUS
  <2>3. user \in Row
    BY <2>1, <2>2 DEF Row
  <2>4. tokens \subseteq Token
    BY DEF Init, Token
  <2>5. req \in [Requests -> Asking]
    BY AskingLemma DEF Init
  <2>6. resets \in [Names -> {None, "fresh", "used"}] /\ uses \in [Names -> Nat]
    BY DEF Init
  <2> QED BY <2>3, <2>4, <2>5, <2>6 DEF Init, Types
<1>2. Turns
  BY <1>0 DEF Turns, Refreshing, Resetting
<1>3. Rotation
  <2>1. tokens = {[id |-> Before, login |-> Before, password |-> Before]}
    BY DEF Init
  <2>2. \A t \in tokens : Past(t.login)
    BY <2>1 DEF Past
  <2>3. OneTokenPerLogin
    BY <2>1 DEF OneTokenPerLogin
  <2> QED BY <1>0, <2>2, <2>3 DEF Rotation, Refreshing
<1>4. Single
  <2>1. \A n \in Names : resets[n] = IF n = Before /\ mode # "replicas" THEN "fresh" ELSE None
    BY DEF Init
  <2>2. \A n \in Names : uses[n] = 0
    BY DEF Init
  <2> QED BY <1>0, <2>1, <2>2 DEF Single, Past, Resetting
<1>5. Serial
  <2>1. \A t \in tokens : t.password = user.password
    BY DEF Init
  <2> QED BY <1>0, <2>1 DEF Serial, InStep, Waiting, Refreshing, Edits
<1> QED BY <1>1, <1>2, <1>3, <1>4, <1>5 DEF IInv

LEMMA NextHolds == IInv /\ [Next]_vars => IInv'
<1>1. ASSUME IInv, Next PROVE IInv'
  <2>1. Types'
    BY <1>1, RequestTypes, LockLemma, CrashLemma DEF IInv, Next
  <2>2. \/ \E r \in Requests : Sessions(r) \/ Changes(r)
        \/ LockPasses \/ Crash
    BY <1>1 DEF Next
  <2>3. Turns'
    BY <1>1, <2>1, <2>2, TurnsHold DEF IInv
  <2> QED BY <1>1, <2>1, <2>2, <2>3, RotationHolds, SingleHolds, SerialHolds DEF IInv
<1>2. ASSUME IInv, UNCHANGED vars PROVE IInv'
  BY <1>2 DEF IInv, vars, Types, Turns, Rotation, OneTokenPerLogin, Past, Single,
     Serial, InStep, Waiting
<1> QED BY <1>1, <1>2

(* The types, and what each request has read in each of its states. *)
THEOREM TypeCorrect == Spec => [](IInv /\ TypeOK)
<1>1. IInv => TypeOK
  <2> SUFFICES ASSUME Types
               PROVE  \A r \in Requests :
                        req[r].read \in
                          CASE req[r].pc \in {"wrong", "right", "issue"} \cup Edits -> Row
                            [] req[r].pc \in {"owner", "rotate", "next"} -> Token
                            [] req[r].pc = "reset"                       -> Names
                            [] req[r].pc \in {"new", "code", "done", "logout",
                                              "invalidate", "send"} -> {None}
    BY DEF IInv, Types, TypeOK
  <2> TAKE r \in Requests
  <2>1. req[r] \in Asking
    BY AskedLemma
  <2>2. CASE req[r].pc \in {"wrong", "right", "issue"} \cup Edits
    BY <2>1, <2>2 DEF Asking, WithRow, Edits
  <2>3. CASE req[r].pc \in {"owner", "rotate", "next"}
    BY <2>1, <2>3 DEF Asking, Refreshing, Edits
  <2>4. CASE req[r].pc = "reset"
    BY <2>1, <2>4 DEF Asking, Edits
  <2>5. CASE req[r].pc \in WithNone
    BY <2>1, <2>5 DEF Asking, WithNone, Edits
  <2> QED BY <2>1, <2>2, <2>3, <2>4, <2>5 DEF Asking, WithRow, Refreshing
<1> QED BY <1>1, InitHolds, NextHolds, PTL DEF Spec

(* Refresh and reset tokens are of use once each, by the lock. *)
THEOREM TokensAreSingle == Spec => []TokensServeOnce
<1>1. IInv => TokensServeOnce
  BY DEF IInv, Rotation, Single, TokensServeOnce, ResetsOnce
<1> QED BY <1>1, TypeCorrect, PTL

(* Of requests that come one at a time, one that changes the password ends *)
(* all sessions that go back to another one, except those that a failed    *)
(* deletion, or a crash before it, spared, until the next change.          *)
THEOREM SessionsMatch == Spec => []SessionsMatchPassword
<1>1. IInv => SessionsMatchPassword
  BY DEF IInv, Serial, InStep, SessionsMatchPassword, Quiet, Waiting
<1> QED BY <1>1, TypeCorrect, PTL

(* A password, a second factor or a removal is undone only by someone who  *)
(* read the row before it.                                                 *)
THEOREM StaleSavesUndo == Spec => OnlyStaleSavesUndo
<1> DEFINE Undone == /\ user' # None
                     /\ user = None \/ user.password # user'.password
                                    \/ user.factor # user'.factor
           Somebody == \E r \in Requests : Sets(r, user, user') \/ Resets(r, user, user')
<1>1. ASSUME Types, NEW r \in Requests, Sessions(r) \/ Changes(r), Undone
      PROVE  Somebody
  <2>0. user # None => user \in Row
    BY <1>1 DEF Types
  <2>1. \A x : Moves(r, x) => req'[r] = x
    BY <1>1, MovesLemma
  <2>2. CASE SaveUser(r)
    <3>1. req[r].pc \in Edits /\ user' = Edited(r) /\ req[r].read \in Row
      BY <1>1, <2>2, AskedLemma DEF SaveUser, WithRow
    <3>2. req'[r] = Done \/ req'[r] = At("logout", None)
      BY <1>1, <2>1, <2>2, StepsLemma
    <3>3. req'[r] # req[r]
      BY <3>1, <3>2 DEF Edits, Done, At
    <3>4. CASE req[r].read # user
      BY <3>1, <3>3, <3>4 DEF Sets
    <3>5. CASE req[r].read = user
      <4>1. req[r].pc \in {"setup", "enable", "disable"} => user.password = user'.password
        BY <1>1, <3>1, <3>5, EditedLemma
      <4>2. req[r].pc = "password" => user.factor = user'.factor
        BY <1>1, <3>1, <3>5, EditedLemma
      <4>3. req[r].pc # "profile"
        BY <1>1, <3>1, <3>5, EditedLemma
      <4> QED BY <3>1, <3>3, <4>1, <4>2, <4>3 DEF Sets, Edits
    <3> QED BY <3>4, <3>5
  <2>3. CASE ResetCommits(r)
    <3>1. req[r].pc = "reset" /\ user # None /\ user' = [user EXCEPT !.password = r]
      BY <1>1, <2>3 DEF ResetCommits
    <3>2. req'[r] = At("logout", None)
      BY <1>1, <2>1, <2>3, StepsLemma
    <3>3. req'[r] # req[r] /\ user.factor = user'.factor
      BY <2>0, <3>1, <3>2 DEF At, Row
    <3> QED BY <3>1, <3>3 DEF Resets
  <2>4. CASE LoginFails(r) \/ LoginClears(r) \/ RemoveMember(r)
    <3>1. user \in Row => /\ [user EXCEPT !.attempts = 0, !.locked = FALSE].password = user.password
                          /\ [user EXCEPT !.attempts = 0, !.locked = FALSE].factor = user.factor
      BY DEF Row
    <3>2. LoginFails(r) \/ LoginClears(r) => FALSE
      BY <1>1, <2>0, <3>1, RowLemma DEF LoginFails, LoginClears, Cleared
    <3> QED BY <1>1, <2>4, <3>2 DEF RemoveMember
  <2>5. CASE ~(\/ LoginFails(r) \/ LoginClears(r) \/ SaveUser(r)
               \/ RemoveMember(r) \/ ResetCommits(r))
    <3>1. user' = user
      BY <1>1, <2>5 DEF Sessions, Changes, Login, VerifyTwoFactorLogin,
         GenerateRefreshToken, RefreshReads, RefreshFindsUser, RefreshDeletes,
         RefreshCreates, Logout, GetUserByID, DeleteRefreshTokens,
         InitiatePasswordReset, InvalidatesTokens, CreatesResetToken,
         CompletePasswordReset, StatementFails
    <3> QED BY <1>1, <3>1
  <2> QED BY <2>2, <2>3, <2>4, <2>5
<1>2. ASSUME Types, LockPasses, Undone PROVE FALSE
  BY <1>2, LockLemma
<1>3. ASSUME Types, Crash, Undone PROVE FALSE
  BY <1>3, CrashLemma
<1>4. IInv /\ [Next]_vars => [Undone => Somebody]_vars
  <2> HIDE DEF Undone, Somebody
  <2> QED BY <1>1, <1>2, <1>3 DEF IInv, Next
<1> QED BY <1>4, TypeCorrect, PTL DEF Spec, OnlyStaleSavesUndo

-----------------------------------------------------------------------------
(* The encrypted columns.  A hook that could not read the row seals no     *)
(* column, so what it stores can be read only without any.                 *)
Stores(x) ==
  x.at = "saves" /\ ~x.read => \A c \in Columns : ~x.new[c].sealed

Hooks == \A r \in Callers : Stores(saver[r]) /\ r \in DOMAIN saver

LEMMA HooksStart == E!Init => Hooks
BY DEF E!Init, Hooks, Stores

LEMMA HooksStand == Hooks /\ [E!Next]_E!vars => Hooks'
<1> SUFFICES ASSUME Hooks, [E!Next]_E!vars PROVE Hooks'
  OBVIOUS
<1>1. ASSUME NEW r \in Callers, NEW x, saver' = [saver EXCEPT ![r] = x], Stores(x) PROVE Hooks'
  <2>1. ASSUME NEW q \in Callers PROVE Stores(saver[q])' /\ q \in DOMAIN saver'
    <3>1. saver'[q] = x \/ saver'[q] = saver[q]
      BY <1>1 DEF Hooks
    <3>2. Stores(saver'[q])
      BY <1>1, <3>1 DEF Hooks
    <3> QED BY <1>1, <3>2 DEF Hooks, Stores
  <2> QED BY <2>1 DEF Hooks
<1>2. ASSUME NEW r \in Callers, E!Find(r) PROVE Hooks'
  <2>1. PICK texts : saver' = [saver EXCEPT ![r] = [at |-> "holds", texts |-> texts]]
    BY <1>2 DEF E!Find
  <2>2. Stores([at |-> "holds", texts |-> texts])
    BY DEF Stores
  <2> QED BY <1>1, <2>1, <2>2
<1>3. ASSUME NEW r \in Callers, E!BeforeUpdate(r) PROVE Hooks'
  <2>1. PICK new : new = E!SealedIfChanged(saver[r].texts, E!Opened)
    OBVIOUS
  <2>2. PICK x : x = [at |-> "saves", new |-> new, read |-> E!Readable]
    OBVIOUS
  <2>3. saver' = [saver EXCEPT ![r] = x]
    BY <1>3, <2>1, <2>2 DEF E!BeforeUpdate
  <2>4. ~E!Readable => \A c \in Columns : ~new[c].sealed
    BY <2>1 DEF E!SealedIfChanged
  <2>5. Stores(x)
    BY <2>2, <2>4 DEF Stores
  <2> QED BY <1>1, <2>3, <2>5
<1>4. ASSUME NEW r \in Callers, E!Save(r) PROVE Hooks'
  <2>1. saver' = [saver EXCEPT ![r] = [at |-> "idle"]] /\ Stores([at |-> "idle"])
    BY <1>4 DEF E!Save, Stores
  <2> QED BY <1>1, <2>1
<1>5. CASE UNCHANGED E!vars
  BY <1>5 DEF E!vars, Hooks, Stores
<1> QED BY <1>2, <1>3, <1>4, <1>5 DEF E!Next

(* Only a save of somebody whose hook read the row, or of empty columns,   *)
(* makes it readable again.                                                *)
LEMMA RepairsAreSaves ==
  ASSUME Hooks, E!Next, ~E!Readable, E!Readable'
  PROVE  \E r \in Callers : saver[r].at = "saves" /\ (saver[r].read \/ \A c \in Columns : row'[c].text = Empty)
<1>1. PICK r \in Callers : E!Save(r)
  BY DEF E!Next, E!Find, E!BeforeUpdate, E!Readable
<1>2. saver[r].at = "saves" /\ row' = saver[r].new /\ Stores(saver[r])
  BY <1>1 DEF E!Save, Hooks
<1>3. ~saver[r].read => \A c \in Columns : ~row'[c].sealed
  BY <1>2 DEF Stores
<1> QED BY <1>2, <1>3 DEF E!Readable

-----------------------------------------------------------------------------
(* The team.  Whoever is about to save or remove a member was, by his      *)
(* token, entitled to do that to the member as he was read; or he saves    *)
(* the role that he read.                                                  *)
Roles == {"owner", "admin", "manager", "finance", "staff", "viewer"}
NoRole == None \notin Roles

Claims(x) ==
  /\ x.at = "save" =>
       /\ x.of \in Members
       /\ \/ x.to = x.read
          \/ /\ T!Manages(x.with) /\ T!Changes(x.with, x.read)
             /\ x.read # None /\ x.to \in T!ValidRoles
             /\ x.to = "admin" => T!MayMakeAdmin(x.with)
  /\ x.at = "remove" =>
       /\ x.of \in Members
       /\ T!Manages(x.with)
       /\ x.read \notin {None, "owner"}
       /\ x.with = "manager" => T!ManagersReach(x.read)

Claimed == /\ role = [m \in Members |-> role[m]]
           /\ asks = [r \in Callers |-> asks[r]]
           /\ \A r \in Callers : Claims(asks[r])

LEMMA ClaimedStarts == T!Init => Claimed
BY DEF T!Init, T!NotYet, T!Ask, Claimed, Claims

LEMMA AsksKeep ==
  ASSUME Claimed, NEW r \in Callers, NEW x, asks' = [asks EXCEPT ![r] = x], Claims(x),
         role' = role \/ \E m, to : role' = [role EXCEPT ![m] = to]
  PROVE  Claimed'
<1>1. asks' = [q \in Callers |-> asks'[q]] /\ role' = [m \in Members |-> role'[m]]
  BY DEF Claimed
<1>2. ASSUME NEW q \in Callers PROVE Claims(asks[q])'
  <2>1. asks'[q] = x \/ asks'[q] = asks[q]
    BY DEF Claimed
  <2>2. Claims(asks'[q])
    BY <2>1 DEF Claimed
  <2> QED BY <2>2 DEF Claims, T!Manages, T!CanManageUsers, T!HasPermission, T!Level,
           T!Changes, T!ManagersReach, T!MayMakeAdmin, T!ValidRoles
<1> QED BY <1>1, <1>2 DEF Claimed

LEMMA ClaimedStands == Claimed /\ [T!Next]_T!vars => Claimed'
<1> SUFFICES ASSUME Claimed, [T!Next]_T!vars PROVE Claimed'
  OBVIOUS
<1>1. ASSUME NEW r \in Callers, T!Goes(r, T!Done),
             role' = role \/ \E m, to : role' = [role EXCEPT ![m] = to]
      PROVE  Claimed'
  <2>1. PICK x : x = T!Done
    OBVIOUS
  <2>2. Claims(x)
    BY <2>1 DEF Claims, T!Done, T!Ask
  <2>3. asks' = [asks EXCEPT ![r] = x]
    BY <1>1, <2>1 DEF T!Goes
  <2> QED BY <1>1, <2>2, <2>3, AsksKeep
<1>2. ASSUME NEW m \in Members, T!GenerateAccessToken(m) \/ T!Expires(m) PROVE Claimed'
  BY <1>2 DEF T!GenerateAccessToken, T!Expires, Claimed, Claims
<1>3. ASSUME NEW r \in Callers, NEW m \in Members, T!UpdateUser(r, m) PROVE Claimed'
  <2>1. PICK x : x = T!Ask("save", m, role[m], m, role[m], role[m])
    OBVIOUS
  <2>2. Claims(x)
    BY <2>1 DEF Claims, T!Ask
  <2>3. asks' = [asks EXCEPT ![r] = x] /\ role' = role
    BY <1>3, <2>1 DEF T!UpdateUser, T!Goes
  <2> QED BY <2>2, <2>3, AsksKeep
<1>4. ASSUME NEW r \in Callers, NEW m \in Members, NEW with, NEW of \in Members,
             T!RemoveMember(r, m, with, of)
      PROVE  Claimed'
  <2>1. PICK x : x = T!Ask("remove", m, with, of, None, role[of])
    OBVIOUS
  <2>2. Claims(x)
    BY <1>4, <2>1 DEF Claims, T!Ask, T!RemoveMember, T!Asks
  <2>3. asks' = [asks EXCEPT ![r] = x] /\ role' = role
    BY <1>4, <2>1 DEF T!RemoveMember, T!Goes
  <2> QED BY <2>2, <2>3, AsksKeep
<1>5. ASSUME NEW r \in Callers, NEW m \in Members, NEW with, NEW of \in Members, NEW to,
             T!UpdateMemberRole(r, m, with, of, to)
      PROVE  Claimed'
  <2>1. PICK x : x = T!Ask("save", m, with, of, to, role[of])
    OBVIOUS
  <2>2. Claims(x)
    BY <1>5, <2>1 DEF Claims, T!Ask, T!UpdateMemberRole, T!Asks
  <2>3. asks' = [asks EXCEPT ![r] = x] /\ role' = role
    BY <1>5, <2>1 DEF T!UpdateMemberRole, T!Goes
  <2> QED BY <2>2, <2>3, AsksKeep
<1>6. ASSUME NEW r \in Callers, NEW m, NEW with, NEW to, NEW i,
             T!InviteMember(r, m, with, to) \/ T!CancelInvitation(r, m, with, i)
      PROVE  Claimed'
  BY <1>1, <1>6 DEF T!InviteMember, T!CancelInvitation
<1>7. ASSUME NEW r \in Callers, T!Saves(r) \/ T!Deletes(r) \/ T!FailsToSave(r) PROVE Claimed'
  BY <1>1, <1>7 DEF T!Saves, T!Deletes, T!FailsToSave
<1>8. CASE UNCHANGED T!vars
  BY <1>8 DEF T!vars, Claimed, Claims
<1> QED BY <1>2, <1>3, <1>4, <1>5, <1>6, <1>7, <1>8 DEF T!Next

LEMMA GrantsAreDue == ASSUME Claimed, NoRole, T!Next PROVE T!RolesAreGranted
<1> SUFFICES ASSUME NEW m \in Members, role'[m] # role[m]
             PROVE  \E r \in Callers :
                      /\ asks[r].of = m /\ asks'[r] = T!Done
                      /\ \/ asks[r].with # role[asks[r].by] \/ asks[r].read # role[m]
                         \/ T!Entitled(role[asks[r].by], role[m], role'[m]) /\ role'[m] # "owner"
  BY DEF T!RolesAreGranted
<1>1. PICK r \in Callers : T!Saves(r) \/ T!Deletes(r)
  BY DEF T!Next, T!GenerateAccessToken, T!Expires, T!UpdateUser, T!InviteMember,
     T!CancelInvitation, T!RemoveMember, T!UpdateMemberRole, T!FailsToSave
<1>2. asks'[r] = T!Done /\ Claims(asks[r])
  BY <1>1 DEF T!Saves, T!Deletes, T!Goes, Claimed
<1>3. asks[r].of = m
  BY <1>1 DEF T!Saves, T!Deletes, Claimed
<1>4. ASSUME asks[r].with = role[asks[r].by], asks[r].read = role[m]
      PROVE  T!Entitled(role[asks[r].by], role[m], role'[m]) /\ role'[m] # "owner"
  <2>1. CASE T!Saves(r)
    <3>1. asks[r].at = "save" /\ role'[m] = asks[r].to
      BY <1>3, <2>1 DEF T!Saves, Claimed
    <3>2. /\ T!Manages(asks[r].with) /\ T!Changes(asks[r].with, asks[r].read)
          /\ asks[r].read # None /\ asks[r].to \in T!ValidRoles
          /\ asks[r].to = "admin" => T!MayMakeAdmin(asks[r].with)
      BY <1>2, <1>4, <3>1 DEF Claims
    <3> QED BY <1>4, <3>1, <3>2 DEF T!Manages, T!Changes, T!MayMakeAdmin, T!ValidRoles, T!Entitled,
             NoRole, Roles
  <2>2. CASE T!Deletes(r)
    <3>1. asks[r].at = "remove" /\ role'[m] = None
      BY <1>3, <2>2 DEF T!Deletes, Claimed
    <3>2. /\ T!Manages(asks[r].with) /\ asks[r].read \notin {None, "owner"}
          /\ asks[r].with = "manager" => T!ManagersReach(asks[r].read)
      BY <1>2, <3>1 DEF Claims
    <3> QED BY <1>4, <3>1, <3>2 DEF T!Manages, T!Entitled, NoRole, Roles
  <2> QED BY <1>1, <2>1, <2>2
<1> QED BY <1>2, <1>3, <1>4

(* A row with a column in the clear is made readable again by no later     *)
(* request, and a role is changed by somebody entitled to.                 *)
THEOREM RowsStand == AccessSpec => RowsChangeByRight
<1>0. NoRole
  BY RolesAssumption DEF NoRole, Roles
<1>1. AccessInit => Hooks /\ Claimed
  BY HooksStart, ClaimedStarts DEF AccessInit
<1>2. [AccessNext]_all => [E!Next]_E!vars /\ [T!Next]_T!vars
  BY DEF AccessNext, AccountStep, LimiterStep, ColumnsStep, TeamStep, LinksStep,
     all, columns, team, E!vars, T!vars
<1>3. Hooks /\ Claimed /\ [AccessNext]_all => Hooks' /\ Claimed'
  BY <1>0, <1>2, HooksStand, ClaimedStands
<1>4. Hooks /\ [AccessNext]_all =>
        [(~E!Readable /\ E!Readable') =>
           \E r \in Callers : saver[r].at = "saves" /\ (saver[r].read \/ \A c \in Columns : row'[c].text = Empty)]_E!vars
  BY <1>2, RepairsAreSaves
<1>5. Claimed /\ [AccessNext]_all => [T!RolesAreGranted]_T!vars
  BY <1>0, <1>2, GrantsAreDue
<1> QED BY <1>1, <1>3, <1>4, <1>5, PTL
        DEF AccessSpec, RowsChangeByRight, E!BrokenStaysBroken, T!GrantsStand

-----------------------------------------------------------------------------
(* The rate limiter.  How many passes there are in a list is counted one by *)
(* one.                                                                    *)
LEMMA SameCount == ASSUME NEW S PROVE L!Cardinality(S) = Cardinality(S)
BY DEF L!Cardinality, Cardinality

LEMMA PassedFinite ==
  ASSUME NEW t \in L!Times
  PROVE  /\ IsFiniteSet(L!Passed(t))
         /\ L!Valid(t) = Cardinality(L!Passed(t)) /\ L!Valid(t) \in Nat
         /\ \A z : z \in L!Passed(t) <=> \E a \in L!Ages : \E n \in 1..t[a] : z = <<a, n>>
<1>1. /\ IsFiniteSet(L!Ages)
      /\ \A a \in L!Ages : IsFiniteSet(1..t[a]) /\ IsFiniteSet({a})
  <2>1. 0 \in Int /\ 1 \in Int /\ Window - 1 \in Int /\ \A a \in L!Ages : t[a] \in Int
    BY WindowAssumption DEF L!Times
  <2> QED BY <2>1, FS_Interval, FS_Singleton DEF L!Ages
<1>2. PICK f : f = [a \in L!Ages |-> {a} \X (1..t[a])]
  OBVIOUS
<1>3. PICK S : S = {f[a] : a \in L!Ages}
  OBVIOUS
<1>4. L!Passed(t) = UNION S
  BY <1>2, <1>3 DEF L!Passed
<1>5. \A U \in S : IsFiniteSet(U)
  <2>1. ASSUME NEW a \in L!Ages PROVE IsFiniteSet(f[a])
    <3>1. PICK A, B : A = {a} /\ B = 1..t[a]
      OBVIOUS
    <3>2. IsFiniteSet(A \X B)
      BY <1>1, <3>1, FS_Product
    <3> QED BY <1>2, <3>1, <3>2
  <2> QED BY <1>3, <2>1
<1>6. IsFiniteSet(S)
  <2>1. f \in Surjection(L!Ages, S)
    BY <1>2, <1>3, Fun_IsSurj
  <2> QED BY <1>1, <2>1, FS_Surjection
<1>7. IsFiniteSet(L!Passed(t))
  BY <1>4, <1>5, <1>6, FS_UNION
<1>8. \A z : z \in L!Passed(t) <=> \E a \in L!Ages : \E n \in 1..t[a] : z = <<a, n>>
  BY DEF L!Passed
<1> QED BY <1>7, <1>8, FS_CardinalityType, SameCount DEF L!Valid

LEMMA FewerPassed ==
  ASSUME NEW t \in L!Times, NEW u \in L!Times, \A a \in L!Ages : t[a] <= u[a]
  PROVE  L!Valid(t) <= L!Valid(u)
<1>1. L!Passed(t) \subseteq L!Passed(u)
  BY PassedFinite DEF L!Times
<1> QED BY <1>1, PassedFinite, FS_Subset

LEMMA OneMorePassed ==
  ASSUME NEW t \in L!Times
  PROVE  /\ L!Now(t) \in L!Times
         /\ \A a \in L!Ages : L!Now(t)[a] = IF a = 0 THEN t[0] + 1 ELSE t[a]
         /\ L!Valid(L!Now(t)) <= L!Valid(t) + 1
<1>1. 0 \in L!Ages
  BY WindowAssumption DEF L!Ages
<1>2. PICK u : u = L!Now(t)
  OBVIOUS
<1>3. u \in L!Times /\ \A a \in L!Ages : u[a] = IF a = 0 THEN t[0] + 1 ELSE t[a]
  BY <1>1, <1>2 DEF L!Times, L!Now
<1>4. PICK z, S, more : z = <<0, t[0] + 1>> /\ S = L!Passed(t) /\ more = S \cup {z}
  OBVIOUS
<1>5. L!Passed(u) \subseteq more
  <2> SUFFICES ASSUME NEW a \in L!Ages, NEW n \in 1..u[a]
               PROVE  <<a, n>> \in L!Passed(t) \/ <<a, n>> = <<0, t[0] + 1>>
    BY <1>3, <1>4, PassedFinite
  <2>1. CASE n \in 1..t[a]
    BY <2>1, PassedFinite
  <2>2. CASE n \notin 1..t[a]
    BY <1>3, <2>2 DEF L!Times
  <2> QED BY <2>1, <2>2
<1>6. IsFiniteSet(S) /\ Cardinality(S) = L!Valid(t)
  BY <1>4, PassedFinite
<1>7. IsFiniteSet(more) /\ Cardinality(more) = IF z \in S THEN Cardinality(S) ELSE Cardinality(S) + 1
  BY <1>4, <1>6, FS_AddElement
<1>8. Cardinality(L!Passed(u)) <= Cardinality(more)
  BY <1>5, <1>7, FS_Subset
<1>9. Cardinality(S) \in Nat
  BY <1>6, FS_CardinalityType
<1>10. L!Valid(u) = Cardinality(L!Passed(u)) /\ L!Valid(u) \in Nat
  BY <1>3, PassedFinite
<1>11. L!Valid(u) <= L!Valid(t) + 1
  BY <1>6, <1>7, <1>8, <1>9, <1>10
<1> QED BY <1>2, <1>3, <1>11

LEMMA AgedPassed ==
  ASSUME NEW t \in L!Times
  PROVE  /\ L!Aged(t) \in L!Times
         /\ \A a \in L!Ages : L!Aged(t)[a] = IF a = 0 THEN 0 ELSE t[a - 1]
         /\ L!Valid(L!Aged(t)) <= L!Valid(t)
<1>1. PICK u : u = L!Aged(t)
  OBVIOUS
<1>2. \A a \in L!Ages : a # 0 => a - 1 \in L!Ages
  BY WindowAssumption DEF L!Ages
<1>3. u \in L!Times /\ \A a \in L!Ages : u[a] = IF a = 0 THEN 0 ELSE t[a - 1]
  BY <1>1, <1>2 DEF L!Aged, L!Times
<1>4. PICK f : f = [z \in L!Passed(u) |-> <<z[1] - 1, z[2]>>]
  OBVIOUS
<1>5. \A z \in L!Passed(u) : z = <<z[1], z[2]>> /\ z[1] \in Nat /\ z[1] # 0 /\ z[1] - 1 \in L!Ages /\ z[2] \in 1..t[z[1] - 1]
  <2> SUFFICES ASSUME NEW a \in L!Ages, NEW n \in 1..u[a]
               PROVE  a \in Nat /\ a # 0 /\ a - 1 \in L!Ages /\ n \in 1..t[a - 1]
    BY <1>3, PassedFinite
  <2>1. a \in Nat /\ a # 0
    BY <1>3, WindowAssumption DEF L!Ages
  <2> QED BY <1>2, <1>3, <2>1
<1>6. f \in [L!Passed(u) -> L!Passed(t)]
  BY <1>4, <1>5, PassedFinite
<1>7. \A y, z \in L!Passed(u) : f[y] = f[z] => y = z
  <2> SUFFICES ASSUME NEW y \in L!Passed(u), NEW z \in L!Passed(u), f[y] = f[z] PROVE y = z
    OBVIOUS
  <2>1. y[1] - 1 = z[1] - 1 /\ y[2] = z[2]
    BY <1>4
  <2> QED BY <1>5, <2>1
<1>8. f \in Injection(L!Passed(u), L!Passed(t))
  BY <1>6, <1>7, Fun_IsInj
<1> QED BY <1>1, <1>3, <1>8, FS_Injection, PassedFinite

(* A client's list holds its passes of /auth, as long as the list is not   *)
(* dropped: without Redis who comes to that limit has passed the general   *)
(* one a tick ago at most, so a client with passes in the window has been  *)
(* checked within it.                                                      *)
Client == [times: L!Times, idle: 0..(Hour + 1)]
Coming == [pc: {"idle", "general", "strict", "handler", "hangs"},
           client: Clients \cup {None}, route: L!Routes, late: BOOLEAN]

Fits(c) ==
  /\ known[c] = None \/ known[c] \in Client
  /\ log[c] \in L!Times
  /\ \A a \in L!Ages : log[c][a] <= L!List(c)[a]
  /\ L!Valid(log[c]) <= AuthRate
  /\ ~redis => \A a \in L!Ages : log[c][a] # 0 => known[c] # None /\ known[c].idle <= a + 1

Checked(x) ==
  x.pc = "strict" /\ ~redis =>
    known[x.client] # None /\ known[x.client].idle <= IF x.late THEN 1 ELSE 0

Limiting ==
  /\ known = [c \in Clients |-> known[c]] /\ log = [c \in Clients |-> log[c]]
  /\ call \in [Callers -> Coming]
  /\ \A r \in Callers : call[r].pc # "idle" => call[r].client \in Clients
  /\ \A r \in Callers : call[r].pc \in {"handler", "hangs"} => holder = r
  /\ \A c \in Clients : Fits(c)
  /\ L!Hangs \/ \A r \in Callers : Checked(call[r])

LEMMA NoTimesFit == L!NoTimes \in L!Times /\ L!Valid(L!NoTimes) = 0
<1>1. L!NoTimes \in L!Times
  BY DEF L!NoTimes, L!Times
<1>2. L!Passed(L!NoTimes) = {}
  BY <1>1, PassedFinite DEF L!NoTimes
<1> QED BY <1>1, <1>2, PassedFinite, FS_EmptySet

LEMMA LimitingStarts == ASSUME L!Init PROVE Limiting
<1>1. ASSUME NEW c \in Clients PROVE Fits(c)
  <2>1. known[c] = None /\ log[c] = L!NoTimes /\ L!List(c) = L!NoTimes
    BY DEF L!Init, L!List
  <2>2. \A a \in L!Ages : L!NoTimes[a] = 0
    BY DEF L!NoTimes
  <2> QED BY <2>1, <2>2, NoTimesFit, RatesAssumption DEF Fits
<1>2. \A r \in Callers : call[r] = L!Idle /\ call[r] \in Coming /\ call[r].pc = "idle"
  BY DEF L!Init, L!Idle, Coming, L!Routes
<1> QED BY <1>1, <1>2 DEF L!Init, Limiting, Checked

(* The request r has moved on to x. *)
LEMMA CallGoesOn ==
  ASSUME Limiting, NEW r \in Callers, NEW x \in Coming, call' = [call EXCEPT ![r] = x],
         call[r].pc # "hangs", redis' = redis,
         x.pc # "idle" => x.client \in Clients,
         known' = [c \in Clients |-> known'[c]], log' = [c \in Clients |-> log'[c]],
         \A c \in Clients : Fits(c)',
         \A c \in Clients : known[c] # None =>
            known'[c] # None /\ known'[c] \in Client /\ known'[c].idle <= known[c].idle,
         \A q \in Callers \ {r} : call[q].pc \in {"handler", "hangs"} => holder' = q,
         x.pc \in {"handler", "hangs"} => holder' = r,
         ~L!Hangs /\ x.pc = "strict" /\ ~redis =>
            known'[x.client] # None /\ known'[x.client].idle <= IF x.late THEN 1 ELSE 0
  PROVE  Limiting'
<1>1. /\ call' \in [Callers -> Coming]
      /\ \A q \in Callers : call'[q] = IF q = r THEN x ELSE call[q]
  BY DEF Limiting
<1>2. L!Hangs \/ x.pc = "hangs" => L!Hangs'
  BY <1>1 DEF L!Hangs
<1>3. ASSUME ~L!Hangs, x.pc # "hangs", NEW q \in Callers PROVE Checked(call[q])'
  <2>1. CASE q = r
    BY <1>1, <1>3, <2>1 DEF Checked
  <2>2. CASE q # r
    <3> SUFFICES ASSUME call[q].pc = "strict", ~redis
                 PROVE  known'[call[q].client] # None
                        /\ known'[call[q].client].idle <= IF call[q].late THEN 1 ELSE 0
      BY <1>1, <2>2 DEF Checked
    <3>1. PICK c \in Clients : c = call[q].client
      BY DEF Limiting
    <3>2. known[c] # None /\ known[c].idle <= IF call[q].late THEN 1 ELSE 0
      BY <1>3, <3>1 DEF Limiting, Checked
    <3>3. known[c].idle \in 0..(Hour + 1)
      BY <3>2 DEF Limiting, Fits, Client
    <3>4. known'[c] # None /\ known'[c].idle <= known[c].idle /\ known'[c].idle \in 0..(Hour + 1)
      BY <3>2 DEF Client
    <3> QED BY <3>1, <3>2, <3>3, <3>4, HourAssumption
  <2> QED BY <2>1, <2>2
<1> QED BY <1>1, <1>2, <1>3 DEF Limiting

LEMMA PassLemma ==
  ASSUME Limiting, NEW c \in Clients
  PROVE  /\ L!List(c) \in L!Times
         /\ L!Pass(c) \in Client /\ L!Pass(c) # None
         /\ L!Pass(c).idle = 0 /\ L!Pass(c).times = L!Now(L!List(c))
         /\ L!AuthPass(c) \in Client /\ L!AuthPass(c) # None
         /\ L!AuthPass(c).idle = IF known[c] = None THEN 0 ELSE known[c].idle
         /\ L!AuthPass(c).times = L!Now(L!List(c))
<1>1. L!List(c) \in L!Times
  BY NoTimesFit DEF Limiting, Fits, Client, L!List
<1>2. L!Now(L!List(c)) \in L!Times
  BY <1>1, OneMorePassed
<1>3. 0 \in 0..(Hour + 1) /\ \A n \in 0..(Hour + 1) : n \in Nat
  BY HourAssumption
<1>4. PICK n : n = IF known[c] = None THEN 0 ELSE known[c].idle
  OBVIOUS
<1>5. n \in 0..(Hour + 1)
  BY <1>3, <1>4 DEF Limiting, Fits, Client
<1>6. L!AuthPass(c) = [times |-> L!Now(L!List(c)), idle |-> n]
  BY <1>4 DEF L!AuthPass
<1>7. L!Pass(c) \in Client /\ L!AuthPass(c) \in Client
  BY <1>2, <1>3, <1>5, <1>6 DEF L!Pass, Client
<1>8. None \notin Client
  BY <1>3, ClientAssumption DEF Client
<1> QED BY <1>1, <1>4, <1>6, <1>7, <1>8 DEF L!Pass

LEMMA NewList ==
  ASSUME NEW c \in Clients
  PROVE  L!List(c)' = IF known'[c] = None THEN L!NoTimes ELSE known'[c].times
BY DEF L!List, L!NoTimes, L!Ages

(* A client whose list is as it was, or has another pass of another limit. *)
LEMMA ListGrows ==
  ASSUME Limiting, NEW c \in Clients, redis' = redis, log' = log,
         known'[c] = known[c] \/ known'[c] = L!Pass(c)
  PROVE  /\ Fits(c)'
         /\ known[c] # None =>
              known'[c] # None /\ known'[c] \in Client /\ known'[c].idle <= known[c].idle
         /\ known'[c] = L!Pass(c) => known'[c] # None /\ known'[c].idle = 0
<1>1. Fits(c) /\ (known[c] # None => known[c].idle \in 0..(Hour + 1) /\ known[c] \in Client)
  BY DEF Limiting, Fits, Client
<1>2. CASE known'[c] = known[c]
  <2>1. L!List(c)' = L!List(c)
    BY <1>2, NewList DEF L!List
  <2>2. Fits(c)'
    BY <1>1, <1>2, <2>1 DEF Fits, L!Valid, L!Passed
  <2> QED BY <1>1, <1>2, <2>2, PassLemma, HourAssumption
<1>3. CASE known'[c] = L!Pass(c)
  <2>1. known'[c] \in Client /\ known'[c] # None /\ known'[c].idle = 0
    BY <1>3, PassLemma
  <2>2. L!List(c)' = L!Now(L!List(c)) /\ L!List(c) \in L!Times
    BY <1>3, NewList, PassLemma
  <2>3. \A a \in L!Ages : L!List(c)[a] <= L!Now(L!List(c))[a] /\ L!List(c)[a] \in Nat
                          /\ L!Now(L!List(c))[a] \in Nat /\ a \in Nat
    BY <2>2, OneMorePassed, WindowAssumption DEF L!Times, L!Ages
  <2>4. \A a \in L!Ages : log[c][a] <= L!List(c)'[a]
    BY <1>1, <2>2, <2>3 DEF Fits, L!Times
  <2>5. L!Valid(log[c])' = L!Valid(log[c])
    BY DEF L!Valid, L!Passed
  <2>6. Fits(c)'
    BY <1>1, <2>1, <2>3, <2>4, <2>5 DEF Fits
  <2> QED BY <1>1, <2>1, <2>6
<1> QED BY <1>2, <1>3

LEMMA OnItsWay ==
  ASSUME Limiting, NEW r \in Callers, call[r].pc \in {"general", "strict", "handler"}
  PROVE  /\ L!Idle \in Coming /\ L!Idle.pc = "idle"
         /\ call[r].client \in Clients
         /\ \A pc \in {"strict", "handler", "hangs"} :
              LET x == [call[r] EXCEPT !.pc = pc]
              IN x \in Coming /\ x.pc = pc /\ x.client = call[r].client /\ x.late = call[r].late
BY DEF Limiting, Coming, L!Idle, L!Routes

LEMMA ComesLimit == ASSUME Limiting, NEW r \in Callers, L!Comes(r) PROVE Limiting'
<1>1. PICK c \in Clients, route \in L!Routes :
        call' = [call EXCEPT ![r] = [pc |-> "general", client |-> c, route |-> route, late |-> FALSE]]
  BY DEF L!Comes
<1>2. PICK x : x = [pc |-> "general", client |-> c, route |-> route, late |-> FALSE]
  OBVIOUS
<1>3. x \in Coming /\ x.pc = "general" /\ x.client = c /\ call[r].pc = "idle"
  BY <1>2 DEF Coming, L!Comes, L!Idle
<1>4. UNCHANGED <<known, log, redis, holder>>
  BY DEF L!Comes
<1>5. \A d \in Clients : Fits(d)' /\ (known[d] # None =>
         known'[d] # None /\ known'[d] \in Client /\ known'[d].idle <= known[d].idle)
  BY <1>4, ListGrows
<1>6. known' = [d \in Clients |-> known'[d]] /\ log' = [d \in Clients |-> log'[d]]
      /\ \A q \in Callers \ {r} : call[q].pc \in {"handler", "hangs"} => holder' = q
  BY <1>4 DEF Limiting
<1> QED BY <1>1, <1>2, <1>3, <1>4, <1>5, <1>6, CallGoesOn

(* A request that passes a limit other than that of /auth, or is refused. *)
LEMMA OthersLimit ==
  ASSUME Limiting, NEW r \in Callers,
         L!AllowForEndpoint(r) \/ L!Allow(r) \/ L!AllowWithRate(r)
  PROVE  Limiting'
<1>1. PICK c \in Clients : c = call[r].client
  BY OnItsWay DEF L!AllowForEndpoint, L!Allow, L!AllowWithRate
<1>2. call[r].pc \in {"general", "strict"} /\ UNCHANGED <<log, redis, holder>>
  BY DEF L!AllowForEndpoint, L!Allow, L!AllowWithRate
<1>3. known' = known \/ known' = [known EXCEPT ![c] = L!Pass(c)]
  BY <1>1 DEF L!AllowForEndpoint, L!Allow, L!AllowWithRate
<1>4. /\ known' = [d \in Clients |-> known'[d]] /\ log' = [d \in Clients |-> log'[d]]
      /\ \A d \in Clients : known'[d] = known[d] \/ known'[d] = L!Pass(d)
  BY <1>2, <1>3 DEF Limiting
<1>5. \A d \in Clients : Fits(d)' /\ (known[d] # None =>
         known'[d] # None /\ known'[d] \in Client /\ known'[d].idle <= known[d].idle)
  BY <1>2, <1>4, ListGrows
<1>6. PICK x : call' = [call EXCEPT ![r] = x] /\ (x = L!Idle \/ x = [call[r] EXCEPT !.pc = "strict"])
  BY DEF L!AllowForEndpoint, L!Allow, L!AllowWithRate, L!Onward, L!Answered
<1>7. x \in Coming /\ (x.pc # "idle" => x.pc = "strict" /\ x.client = c)
  <2>1. CASE x = L!Idle
    BY <1>2, <2>1, OnItsWay
  <2>2. CASE x # L!Idle
    <3>1. PICK pc \in {"strict", "handler", "hangs"} : pc = "strict"
      OBVIOUS
    <3>2. x = [call[r] EXCEPT !.pc = pc]
      BY <1>6, <2>2, <3>1
    <3> QED BY <1>1, <1>2, <3>1, <3>2, OnItsWay
  <2> QED BY <2>1, <2>2
<1>8. x.pc = "strict" /\ ~redis => known' = [known EXCEPT ![c] = L!Pass(c)]
  <2>1. CASE L!AllowForEndpoint(r)
    BY <1>1, <1>6, <1>7, <2>1, OnItsWay DEF L!AllowForEndpoint, L!Onward, L!Answered, Limiting
  <2>2. CASE L!Allow(r)
    BY <2>2 DEF L!Allow
  <2>3. CASE L!AllowWithRate(r)
    <3>1. call'[r] = L!Idle /\ call'[r] = x
      BY <1>6, <2>3 DEF L!AllowWithRate, L!Answered, Limiting
    <3> QED BY <1>2, <3>1, OnItsWay
  <2> QED BY <2>1, <2>2, <2>3
<1>9. x.pc = "strict" /\ ~redis => known'[c] # None /\ known'[c].idle = 0
  BY <1>2, <1>4, <1>8, ListGrows DEF Limiting
<1>10. \A q \in Callers \ {r} : call[q].pc \in {"handler", "hangs"} => holder' = q
  BY <1>2 DEF Limiting
<1>11. x.pc # "idle" => x.client = c
  BY <1>7
<1>12. x.pc = "strict" /\ ~redis =>
         known'[x.client] # None /\ known'[x.client].idle <= IF x.late THEN 1 ELSE 0
  BY <1>9, <1>11
<1>13. x \in Coming /\ x.pc \in {"idle", "strict"} /\ call[r].pc # "hangs"
  BY <1>2, <1>7
<1> QED BY <1>2, <1>4, <1>5, <1>6, <1>10, <1>11, <1>12, <1>13, CallGoesOn

LEMMA HandlerLimits ==
  ASSUME Limiting, NEW r \in Callers, L!HandlerEnds(r) \/ L!HandlerHangs(r)
  PROVE  Limiting'
<1>1. /\ call[r].pc = "handler" /\ holder = r /\ UNCHANGED <<known, log, redis>>
      /\ holder' = r \/ holder' = None
  BY DEF L!HandlerEnds, L!HandlerHangs, Limiting
<1>2. PICK x : /\ call' = [call EXCEPT ![r] = x]
               /\ x = L!Idle \/ (x = [call[r] EXCEPT !.pc = "hangs"] /\ holder' = r)
  BY <1>1 DEF L!HandlerEnds, L!HandlerHangs, L!Answered
<1>3. x \in Coming /\ x.client \in Clients \cup {None}
      /\ (x.pc = "idle" \/ (x.pc = "hangs" /\ x.client \in Clients /\ holder' = r))
  BY <1>1, <1>2, OnItsWay DEF Coming
<1>4. \A d \in Clients : Fits(d)' /\ (known[d] # None =>
         known'[d] # None /\ known'[d] \in Client /\ known'[d].idle <= known[d].idle)
  BY <1>1, ListGrows
<1>5. known' = [d \in Clients |-> known'[d]] /\ log' = [d \in Clients |-> log'[d]]
      /\ \A q \in Callers \ {r} : call[q].pc \notin {"handler", "hangs"}
  BY <1>1 DEF Limiting
<1> QED BY <1>1, <1>2, <1>3, <1>4, <1>5, CallGoesOn

(* A pass of /auth goes on the client's list, of which the log is a part. *)
LEMMA AuthFits ==
  ASSUME Limiting, NEW c \in Clients, redis' = redis, L!Under(c, AuthRate),
         ~redis => known[c] # None /\ known[c].idle <= 1,
         known'[c] = L!AuthPass(c), log'[c] = L!Now(log[c])
  PROVE  /\ Fits(c)'
         /\ known'[c] # None /\ known'[c] \in Client
         /\ known[c] # None => known'[c].idle = known[c].idle
<1>1. /\ Fits(c) /\ log[c] \in L!Times /\ L!List(c) \in L!Times
      /\ \A a \in L!Ages : log[c][a] <= L!List(c)[a] /\ log[c][a] \in Nat /\ L!List(c)[a] \in Nat
      /\ 0 \in L!Ages /\ \A a \in L!Ages : a \in Nat
  BY PassLemma, WindowAssumption DEF Limiting, Fits, L!Times, L!Ages
<1>2. /\ known'[c] # None /\ known'[c] \in Client
      /\ known[c] # None => known'[c].idle = known[c].idle /\ known[c].idle \in Nat
  BY PassLemma DEF Limiting, Fits, Client
<1>3. L!List(c)' = L!Now(L!List(c))
  BY <1>2, NewList, PassLemma
<1>4. \A a \in L!Ages : /\ log'[c][a] = IF a = 0 THEN log[c][0] + 1 ELSE log[c][a]
                        /\ L!List(c)'[a] = IF a = 0 THEN L!List(c)[0] + 1 ELSE L!List(c)[a]
  BY <1>1, <1>3, OneMorePassed
<1>5. log'[c] \in L!Times /\ \A a \in L!Ages : log'[c][a] <= L!List(c)'[a]
  BY <1>1, <1>4, OneMorePassed
<1>6. L!Valid(log'[c]) <= AuthRate
  <2>1. L!Valid(log[c]) <= L!Valid(L!List(c))
    BY <1>1, FewerPassed
  <2>2. L!Valid(L!List(c)) < AuthRate
    BY NoTimesFit, RatesAssumption DEF L!Under, L!List
  <2>3. /\ L!Valid(log[c]) \in Nat /\ L!Valid(L!List(c)) \in Nat /\ L!Valid(log'[c]) \in Nat
        /\ L!Valid(log'[c]) <= L!Valid(log[c]) + 1 /\ AuthRate \in Nat
    BY <1>1, <1>5, OneMorePassed, PassedFinite, RatesAssumption
  <2> QED BY <2>1, <2>2, <2>3
<1>7. L!Valid(log[c])' = L!Valid(log'[c])
  BY DEF L!Valid, L!Passed
<1>8. ASSUME ~redis, NEW a \in L!Ages, log'[c][a] # 0 PROVE known'[c].idle <= a + 1
  <2>1. CASE a = 0
    BY <1>2, <1>8, <2>1
  <2>2. CASE a # 0
    BY <1>1, <1>2, <1>4, <1>8, <2>2 DEF Fits
  <2> QED BY <2>1, <2>2
<1> QED BY <1>2, <1>5, <1>6, <1>7, <1>8 DEF Fits

LEMMA AuthLimits ==
  ASSUME Limiting, NEW r \in Callers, L!AuthRateLimiter(r)
  PROVE  Limiting'
<1>1. PICK c \in Clients : c = call[r].client
  BY OnItsWay DEF L!AuthRateLimiter
<1>2. call[r].pc = "strict" /\ holder = None /\ redis' = redis
  BY DEF L!AuthRateLimiter
<1>3. \A q \in Callers : call[q].pc \notin {"handler", "hangs"}
  BY <1>2, CallersAssumption DEF Limiting
<1>4. ~L!Hangs
  BY <1>3 DEF L!Hangs
<1>5. CASE L!Under(c, AuthRate)
  <2>1. PICK pc \in {"strict", "handler", "hangs"} : pc = "handler"
    OBVIOUS
  <2>2. PICK x : x = [call[r] EXCEPT !.pc = pc]
    OBVIOUS
  <2>3. /\ known' = [known EXCEPT ![c] = L!AuthPass(c)]
        /\ log' = [log EXCEPT ![c] = L!Now(@)]
        /\ holder' = r /\ call' = [call EXCEPT ![r] = x]
    BY <1>1, <1>5, <2>1, <2>2 DEF L!AuthRateLimiter
  <2>4. x \in Coming /\ x.pc = "handler" /\ x.client = c
    BY <1>1, <1>2, <2>1, <2>2, OnItsWay
  <2>5. ~redis => known[c] # None /\ known[c].idle <= 1
    <3>1. Checked(call[r])
      BY <1>4 DEF Limiting
    <3>2. known[c] # None => known[c].idle \in Int
      BY DEF Limiting, Fits, Client
    <3> QED BY <1>1, <1>2, <3>1, <3>2 DEF Checked
  <2>6. /\ known'[c] = L!AuthPass(c) /\ log'[c] = L!Now(log[c])
        /\ \A d \in Clients \ {c} : known'[d] = known[d] /\ log'[d] = log[d]
        /\ known' = [d \in Clients |-> known'[d]] /\ log' = [d \in Clients |-> log'[d]]
    BY <2>3 DEF Limiting
  <2>7. Fits(c)' /\ known'[c] # None /\ known'[c] \in Client
        /\ (known[c] # None => known'[c].idle = known[c].idle)
    BY <1>2, <1>5, <2>5, <2>6, AuthFits
  <2>8. ASSUME NEW d \in Clients \ {c} PROVE Fits(d)'
    <3>1. Fits(d) /\ known'[d] = known[d] /\ log'[d] = log[d] /\ redis' = redis
      BY <1>2, <2>6 DEF Limiting
    <3>2. L!List(d)' = L!List(d)
      BY <3>1, NewList DEF L!List
    <3>3. L!Valid(log[d])' = L!Valid(log[d])
      BY <3>1 DEF L!Valid, L!Passed
    <3> QED BY <3>1, <3>2, <3>3 DEF Fits
  <2>9. \A d \in Clients : Fits(d)' /\ (known[d] # None =>
           known'[d] # None /\ known'[d] \in Client /\ known'[d].idle <= known[d].idle)
    <3>1. \A d \in Clients : known[d] # None => known[d] \in Client /\ known[d].idle \in Int
      BY DEF Limiting, Fits, Client
    <3> QED BY <2>6, <2>7, <2>8, <3>1
  <2> QED BY <1>2, <1>3, <2>3, <2>4, <2>6, <2>9, CallGoesOn
<1>6. CASE ~L!Under(c, AuthRate)
  <2>1. UNCHANGED <<known, log, holder>> /\ call' = [call EXCEPT ![r] = L!Idle]
    BY <1>1, <1>6 DEF L!AuthRateLimiter, L!Refused, L!Answered
  <2>2. PICK x : x = L!Idle
    OBVIOUS
  <2>3. x \in Coming /\ x.pc = "idle"
    BY <1>2, <2>2, OnItsWay
  <2>4. \A d \in Clients : Fits(d)' /\ (known[d] # None =>
           known'[d] # None /\ known'[d] \in Client /\ known'[d].idle <= known[d].idle)
    BY <1>2, <2>1, ListGrows
  <2>5. known' = [d \in Clients |-> known'[d]] /\ log' = [d \in Clients |-> log'[d]]
    BY <2>1 DEF Limiting
  <2> QED BY <1>2, <1>3, <2>1, <2>2, <2>3, <2>4, <2>5, CallGoesOn
<1> QED BY <1>5, <1>6

(* Nobody is forgotten who has passes of /auth in the window, unless there  *)
(* is Redis.                                                               *)
LEMMA CleanupLimits == ASSUME Limiting, L!Cleanup PROVE Limiting'
<1>1. /\ holder = None /\ UNCHANGED <<redis, holder, call>>
      /\ known' = [c \in Clients |-> IF L!Gone(c) THEN None ELSE known[c]]
      /\ log' = [c \in Clients |-> IF redis /\ L!Gone(c) THEN L!NoTimes ELSE log[c]]
  BY DEF L!Cleanup
<1>2. ASSUME NEW c \in Clients PROVE Fits(c)'
  <2>1. Fits(c) /\ redis' = redis
    BY <1>1 DEF Limiting
  <2>2. CASE ~L!Gone(c)
    <3>1. known'[c] = known[c] /\ log'[c] = log[c]
      BY <1>1, <2>2
    <3>2. L!List(c)' = L!List(c)
      BY <3>1, NewList DEF L!List
    <3>3. L!Valid(log[c])' = L!Valid(log[c])
      BY <3>1 DEF L!Valid, L!Passed
    <3> QED BY <2>1, <3>1, <3>2, <3>3 DEF Fits
  <2>3. CASE L!Gone(c)
    <3>1. known'[c] = None /\ L!List(c)' = L!NoTimes
      BY <1>1, <2>3, NewList
    <3>2. \A a \in L!Ages : L!NoTimes[a] = 0
      BY DEF L!NoTimes
    <3>3. \A a \in L!Ages : log'[c][a] = 0
      <4>1. CASE redis
        BY <1>1, <2>3, <3>2, <4>1
      <4>2. CASE ~redis
        <5>1. log'[c] = log[c]
          BY <1>1, <4>2
        <5>2. known[c].idle > Hour /\ known[c].idle \in Nat
          BY <2>1, <2>3 DEF L!Gone, Fits, Client
        <5>3. \A a \in L!Ages : a + 1 <= Hour /\ a \in Nat
          BY WindowAssumption, HourAssumption DEF L!Ages
        <5> QED BY <2>1, <4>2, <5>1, <5>2, <5>3, HourAssumption DEF Fits
      <4> QED BY <4>1, <4>2
    <3>4. log'[c] = log[c] \/ log'[c] = L!NoTimes
      BY <1>1
    <3>5. log'[c] \in L!Times /\ L!Valid(log'[c]) <= AuthRate
      BY <2>1, <3>4, NoTimesFit, RatesAssumption DEF Fits
    <3>6. L!Valid(log[c])' = L!Valid(log'[c])
      BY DEF L!Valid, L!Passed
    <3> QED BY <3>1, <3>2, <3>3, <3>5, <3>6 DEF Fits
  <2> QED BY <2>2, <2>3
<1>3. ASSUME NEW r \in Callers PROVE Checked(call[r])'
  <2>1. \A q \in Callers : call[q].pc \notin {"handler", "hangs"}
    BY <1>1, CallersAssumption DEF Limiting
  <2>2. ~L!Hangs
    BY <2>1 DEF L!Hangs
  <2> SUFFICES ASSUME call[r].pc = "strict", ~redis
               PROVE  known'[call[r].client] # None
                      /\ known'[call[r].client].idle <= IF call[r].late THEN 1 ELSE 0
    BY <1>1 DEF Checked
  <2>3. PICK c \in Clients : c = call[r].client
    BY DEF Limiting
  <2>4. known[c] # None /\ known[c].idle <= IF call[r].late THEN 1 ELSE 0
    BY <2>2, <2>3 DEF Limiting, Checked
  <2>5. known[c].idle \in Nat
    BY <2>4 DEF Limiting, Fits, Client
  <2>6. ~L!Gone(c)
    BY <2>4, <2>5, HourAssumption, WindowAssumption DEF L!Gone
  <2> QED BY <1>1, <2>3, <2>4, <2>6
<1>4. known' = [c \in Clients |-> known'[c]] /\ log' = [c \in Clients |-> log'[c]]
  BY <1>1
<1> QED BY <1>1, <1>2, <1>3, <1>4 DEF Limiting

(* With a tick every pass is a tick older, and so is the last check.       *)
LEMMA TickLimits == ASSUME Limiting, L!Tick PROVE Limiting'
<1>1. /\ UNCHANGED <<redis, holder>>
      /\ L!Hangs \/ \A r \in Callers : ~call[r].late
      /\ \A c \in Clients : known'[c] = L!Older(known[c]) /\ log'[c] = L!Aged(log[c])
      /\ known' = [c \in Clients |-> known'[c]] /\ log' = [c \in Clients |-> log'[c]]
      /\ call' = [r \in Callers |-> [call[r] EXCEPT !.late = call[r] # L!Idle]]
  BY DEF L!Tick
<1>2. ASSUME NEW c \in Clients, known[c] # None
      PROVE  /\ known'[c] # None /\ known'[c] \in Client
             /\ known'[c].times = L!Aged(known[c].times)
             /\ known'[c].idle \in Nat /\ known[c].idle \in Nat /\ known'[c].idle <= known[c].idle + 1
             /\ known[c].times \in L!Times
  <2>1. known[c].times \in L!Times /\ known[c].idle \in 0..(Hour + 1)
    BY <1>2 DEF Limiting, Fits, Client
  <2>2. PICK n : n = IF known[c].idle > Hour THEN known[c].idle ELSE known[c].idle + 1
    OBVIOUS
  <2>3. n \in 0..(Hour + 1) /\ n \in Nat /\ n <= known[c].idle + 1
    BY <2>1, <2>2, HourAssumption
  <2>4. known'[c] = [times |-> L!Aged(known[c].times), idle |-> n]
    BY <1>1, <1>2, <2>2 DEF L!Older
  <2>5. L!Aged(known[c].times) \in L!Times
    BY <2>1, AgedPassed
  <2>6. known'[c] \in Client /\ None \notin Client
    BY <2>3, <2>4, <2>5, ClientAssumption, HourAssumption DEF Client
  <2> QED BY <2>1, <2>3, <2>4, <2>6, HourAssumption
<1>3. ASSUME NEW c \in Clients PROVE Fits(c)'
  <2>1. Fits(c) /\ log[c] \in L!Times /\ redis' = redis /\ log'[c] = L!Aged(log[c])
    BY <1>1 DEF Limiting, Fits
  <2>2. log'[c] \in L!Times
        /\ \A a \in L!Ages : log'[c][a] = IF a = 0 THEN 0 ELSE log[c][a - 1]
    BY <2>1, AgedPassed
  <2>3. L!Valid(log[c])' <= AuthRate
    <3>1. L!Valid(log[c])' = L!Valid(log'[c])
      BY DEF L!Valid, L!Passed
    <3>2. L!Valid(log'[c]) <= L!Valid(log[c]) /\ L!Valid(log[c]) \in Nat /\ L!Valid(log'[c]) \in Nat
      BY <2>1, <2>2, AgedPassed, PassedFinite
    <3> QED BY <2>1, <3>1, <3>2, RatesAssumption DEF Fits
  <2>4. \A a \in L!Ages : a \in Nat /\ (a # 0 => a - 1 \in L!Ages)
    BY WindowAssumption DEF L!Ages
  <2>5. CASE known[c] = None
    <3>1. known'[c] = None /\ L!List(c)' = L!NoTimes /\ L!List(c) = L!NoTimes
      BY <1>1, <2>5, NewList DEF L!Older, L!List
    <3>2. \A a \in L!Ages : L!NoTimes[a] = 0
      BY DEF L!NoTimes
    <3>3. \A a \in L!Ages : log[c][a] = 0
      BY <2>1, <3>1, <3>2 DEF Fits, L!Times
    <3>4. \A a \in L!Ages : log'[c][a] = 0
      BY <2>2, <2>4, <3>3
    <3> QED BY <2>2, <2>3, <3>1, <3>2, <3>4 DEF Fits
  <2>6. CASE known[c] # None
    <3>1. L!List(c)' = L!Aged(known[c].times) /\ L!List(c) = known[c].times
      BY <1>2, <2>6, NewList DEF L!List
    <3>2. \A a \in L!Ages : L!List(c)'[a] = IF a = 0 THEN 0 ELSE L!List(c)[a - 1]
      BY <1>2, <2>6, <3>1, AgedPassed
    <3>3. \A a \in L!Ages : log'[c][a] <= L!List(c)'[a]
      BY <2>1, <2>2, <2>4, <3>2 DEF Fits
    <3>4. ASSUME ~redis, NEW a \in L!Ages, log'[c][a] # 0 PROVE known'[c].idle <= a + 1
      <4>1. a # 0 /\ a - 1 \in L!Ages /\ log[c][a - 1] # 0
        BY <2>2, <2>4, <3>4
      <4>2. known[c].idle <= (a - 1) + 1
        BY <2>1, <3>4, <4>1 DEF Fits
      <4> QED BY <1>2, <2>4, <2>6, <4>2
    <3> QED BY <1>2, <2>1, <2>2, <2>3, <2>6, <3>3, <3>4 DEF Fits
  <2> QED BY <2>5, <2>6
<1>4. ASSUME NEW r \in Callers
      PROVE  /\ call'[r] \in Coming /\ call'[r].pc = call[r].pc /\ call'[r].client = call[r].client
             /\ call[r].pc = "strict" => call'[r].late
  <2>1. PICK x : x = call[r]
    OBVIOUS
  <2>2. PICK b \in BOOLEAN : b <=> x # L!Idle
    OBVIOUS
  <2>3. call'[r] = [x EXCEPT !.late = b]
    BY <1>1, <2>1, <2>2, Zenon
  <2>4. x \in Coming /\ (x.pc = "strict" => b)
    BY <2>1, <2>2 DEF Limiting, L!Idle
  <2>5. [x EXCEPT !.late = b] \in Coming /\ [x EXCEPT !.late = b].pc = x.pc
        /\ [x EXCEPT !.late = b].client = x.client /\ ([x EXCEPT !.late = b].late <=> b)
    BY <2>4 DEF Coming
  <2> QED BY <2>1, <2>3, <2>4, <2>5
<1>5. L!Hangs => L!Hangs'
  BY <1>4 DEF L!Hangs
<1>6. ASSUME ~L!Hangs, NEW r \in Callers PROVE Checked(call[r])'
  <2> SUFFICES ASSUME call[r].pc = "strict", ~redis
               PROVE  known'[call[r].client] # None /\ known'[call[r].client].idle <= 1
    BY <1>1, <1>4 DEF Checked
  <2>1. PICK c \in Clients : c = call[r].client
    BY DEF Limiting
  <2>2. known[c] # None /\ known[c].idle <= 0
    BY <1>1, <1>6, <2>1 DEF Limiting, Checked
  <2> QED BY <1>2, <2>1, <2>2
<1>7. /\ call' \in [Callers -> Coming]
      /\ \A r \in Callers : call'[r].pc # "idle" => call'[r].client \in Clients
      /\ \A r \in Callers : call'[r].pc \in {"handler", "hangs"} => holder' = r
  BY <1>1, <1>4 DEF Limiting
<1> QED BY <1>1, <1>3, <1>5, <1>6, <1>7 DEF Limiting

LEMMA LimitingStands == ASSUME Limiting, L!Next PROVE Limiting'
BY ComesLimit, OthersLimit, HandlerLimits, AuthLimits, CleanupLimits, TickLimits
   DEF L!Next, L!Passes, L!Ends

LEMMA LimitingRests == ASSUME Limiting, UNCHANGED limiter PROVE Limiting'
<1>1. UNCHANGED <<known, redis, holder, call, log>>
  BY DEF limiter
<1>2. ASSUME NEW c \in Clients PROVE Fits(c)'
  <2>1. Fits(c)
    BY DEF Limiting
  <2>2. L!List(c)' = L!List(c)
    BY <1>1, NewList DEF L!List
  <2>3. L!Valid(log[c])' = L!Valid(log[c])
    BY <1>1 DEF L!Valid, L!Passed
  <2> QED BY <1>1, <2>1, <2>2, <2>3 DEF Fits
<1>3. L!Hangs' = L!Hangs
  BY <1>1 DEF L!Hangs
<1>4. \A r \in Callers : Checked(call[r])' <=> Checked(call[r])
  BY <1>1 DEF Checked
<1> QED BY <1>1, <1>2, <1>3, <1>4 DEF Limiting

LEMMA LimitsAreHeld == Limiting => L!WindowHeld
BY DEF Limiting, Fits, L!WindowHeld

-----------------------------------------------------------------------------
(* The owner.  Nobody else becomes one, for who saves that role has read    *)
(* it of the owner; and while he has not given it up, whoever is about to   *)
(* save or remove him has read that he is.                                 *)
Owned ==
  /\ \A m \in Members : role[m] = "owner" => m = T!Owner
  /\ \A r \in Callers : asks[r].at = "save" /\ asks[r].read = "owner" => asks[r].of = T!Owner
  /\ ~abdicated => /\ role[T!Owner] = "owner"
                   /\ \A r \in Callers : asks[r].at \in {"save", "remove"} /\ asks[r].of = T!Owner
                                           => asks[r].read = "owner"

LEMMA OwnerIsMember == T!Owner \in Members
BY MembersAssumption DEF T!Owner

LEMMA OwnedStarts == ASSUME T!Init PROVE Owned
<1>1. \A m \in Members : m # T!Owner => role[m] \in {"admin", "manager", "finance"}
  BY DEF T!Init
<1>2. role[T!Owner] = "owner"
  BY OwnerIsMember DEF T!Init
<1>3. \A r \in Callers : asks[r].at = "new"
  BY DEF T!Init, T!NotYet, T!Ask
<1> QED BY <1>1, <1>2, <1>3 DEF Owned

(* A request that has read a member as he is. *)
LEMMA OwnedReads ==
  ASSUME Claimed, Owned, NEW r \in Callers, NEW x, asks' = [asks EXCEPT ![r] = x],
         UNCHANGED <<role, abdicated>>,
         x.at \in {"save", "remove"} => x.of \in Members /\ x.read = role[x.of]
  PROVE  Owned'
<1>1. \A q \in Callers : asks'[q] = IF q = r THEN x ELSE asks[q]
  BY DEF Claimed
<1> QED BY <1>1 DEF Owned

LEMMA OwnedStands == ASSUME Claimed, Owned, T!Next PROVE Owned'
<1>1. CASE \E m \in Members : T!GenerateAccessToken(m) \/ T!Expires(m)
  BY <1>1 DEF T!GenerateAccessToken, T!Expires, Owned
<1>2. ASSUME NEW r \in Callers, T!Goes(r, T!Done), UNCHANGED <<role, abdicated>> PROVE Owned'
  <2>1. PICK x : x = T!Done
    OBVIOUS
  <2>2. asks' = [asks EXCEPT ![r] = x] /\ x.at = "done"
    BY <1>2, <2>1 DEF T!Goes, T!Done, T!Ask
  <2> QED BY <1>2, <2>2, OwnedReads
<1>3. ASSUME NEW r \in Callers, NEW m \in Members, T!UpdateUser(r, m) PROVE Owned'
  <2>1. PICK x : x = T!Ask("save", m, role[m], m, role[m], role[m])
    OBVIOUS
  <2>2. asks' = [asks EXCEPT ![r] = x] /\ x.of = m /\ x.read = role[m] /\ UNCHANGED <<role, abdicated>>
    BY <1>3, <2>1 DEF T!UpdateUser, T!Goes, T!Ask
  <2> QED BY <2>2, OwnedReads
<1>4. ASSUME NEW r \in Callers, NEW m \in Members, NEW with, NEW of \in Members,
             T!RemoveMember(r, m, with, of) \/ \E to \in Asked : T!UpdateMemberRole(r, m, with, of, to)
      PROVE  Owned'
  <2>1. PICK x : asks' = [asks EXCEPT ![r] = x]
                 /\ (x = T!Ask("remove", m, with, of, None, role[of])
                     \/ \E to \in Asked : x = T!Ask("save", m, with, of, to, role[of]))
    BY <1>4 DEF T!RemoveMember, T!UpdateMemberRole, T!Goes
  <2>2. x.of = of /\ x.read = role[of]
    BY <2>1 DEF T!Ask
  <2>3. UNCHANGED <<role, abdicated>>
    BY <1>4 DEF T!RemoveMember, T!UpdateMemberRole
  <2> QED BY <2>1, <2>2, <2>3, OwnedReads
<1>5. ASSUME NEW r \in Callers, NEW m \in Members, NEW with, NEW to, NEW i,
             T!InviteMember(r, m, with, to) \/ T!CancelInvitation(r, m, with, i)
      PROVE  Owned'
  BY <1>2, <1>5 DEF T!InviteMember, T!CancelInvitation
<1>6. ASSUME NEW r \in Callers, T!FailsToSave(r) PROVE Owned'
  BY <1>2, <1>6 DEF T!FailsToSave
<1>7. ASSUME NEW r \in Callers, T!Saves(r) PROVE Owned'
  <2>1. PICK x, d : x = asks[r] /\ d = T!Done
    OBVIOUS
  <2>2. /\ x.at = "save" /\ x.of \in Members
        /\ \/ x.to = x.read
           \/ /\ T!Changes(x.with, x.read) /\ x.to \in T!ValidRoles
    BY <1>7, <2>1 DEF T!Saves, Claimed, Claims
  <2>3. /\ \A m \in Members : role'[m] = IF m = x.of THEN x.to ELSE role[m]
        /\ \A q \in Callers : asks'[q] = IF q = r THEN d ELSE asks[q]
        /\ d.at = "done"
    BY <1>7, <2>1 DEF T!Saves, T!Goes, T!Done, T!Ask, Claimed
  <2>4. ~abdicated' => ~abdicated /\ ~(role[x.of] = "owner" /\ x.to # "owner" /\ x.with = "owner")
    BY <1>7, <2>1 DEF T!Saves
  <2>5. x.to = "owner" => x.read = "owner"
    BY <2>2 DEF T!ValidRoles
  <2>6. \A m \in Members : role'[m] = "owner" => m = T!Owner
    BY <2>1, <2>2, <2>3, <2>5 DEF Owned
  <2>7. ASSUME ~abdicated' PROVE role'[T!Owner] = "owner"
    <3>1. CASE x.of # T!Owner
      BY <2>3, <2>4, <2>7, <3>1, OwnerIsMember DEF Owned
    <3>2. CASE x.of = T!Owner
      <4>1. x.read = "owner" /\ role[x.of] = "owner"
        BY <2>1, <2>2, <2>4, <2>7, <3>2 DEF Owned
      <4>2. x.to = "owner"
        BY <2>2, <2>4, <2>7, <4>1 DEF T!Changes
      <4> QED BY <2>2, <2>3, <3>2, <4>2
    <3> QED BY <3>1, <3>2
  <2> QED BY <2>3, <2>4, <2>6, <2>7 DEF Owned
<1>8. ASSUME NEW r \in Callers, T!Deletes(r) PROVE Owned'
  <2>1. PICK x, d : x = asks[r] /\ d = T!Done
    OBVIOUS
  <2>2. x.at = "remove" /\ x.of \in Members /\ x.read # "owner" /\ abdicated' = abdicated
    BY <1>8, <2>1 DEF T!Deletes, Claimed, Claims
  <2>3. /\ \A m \in Members : role'[m] = IF m = x.of THEN None ELSE role[m]
        /\ \A q \in Callers : asks'[q] = IF q = r THEN d ELSE asks[q]
        /\ d.at = "done"
    BY <1>8, <2>1 DEF T!Deletes, T!Goes, T!Done, T!Ask, Claimed
  <2>4. ~abdicated => x.of # T!Owner
    BY <2>1, <2>2 DEF Owned
  <2>5. \A m \in Members : role'[m] = "owner" => m = T!Owner
    BY <2>3, RolesAssumption DEF Owned
  <2>6. ~abdicated' => role'[T!Owner] = "owner"
    BY <2>2, <2>3, <2>4, OwnerIsMember DEF Owned
  <2> QED BY <2>2, <2>3, <2>5, <2>6 DEF Owned
<1> QED BY <1>1, <1>3, <1>4, <1>5, <1>6, <1>7, <1>8 DEF T!Next

LEMMA OwnedStays == Owned => T!OwnerStays
<1> SUFFICES ASSUME Owned PROVE T!OwnerStays
  OBVIOUS
<1>1. PICK owners : owners = {m \in Members : role[m] = "owner"}
  OBVIOUS
<1>2. owners \subseteq {T!Owner}
  BY <1>1 DEF Owned
<1>3. Cardinality(owners) <= 1
  <2>1. PICK one : one = {T!Owner}
    OBVIOUS
  <2>2. IsFiniteSet(one) /\ Cardinality(one) = 1
    BY <2>1, FS_Singleton
  <2> QED BY <1>2, <2>1, <2>2, FS_Subset
<1>4. T!Cardinality(owners) = Cardinality(owners)
  BY DEF T!Cardinality, Cardinality
<1> QED BY <1>1, <1>3, <1>4, OwnerIsMember DEF Owned, T!OwnerStays

LEMMA TeamRests == ASSUME Claimed, Owned, UNCHANGED team PROVE Claimed' /\ Owned'
<1>1. Claimed'
  BY ClaimedStands DEF team, T!vars
<1> QED BY <1>1 DEF team, Owned

-----------------------------------------------------------------------------
(* Connections.  The row that a request is about to save again is gone or   *)
(* still its provider's, for nobody draws an id that somebody holds.        *)
Config     == [what: {"form", "tokens"}, by: Requests, secret: {"given", "mask"}]
Connection == [provider: I!Providers, active: BOOLEAN, config: Config]

Errand(x) ==
  /\ x = [at |-> x.at, provider |-> x.provider, id |-> x.id, row |-> x.row,
          config |-> x.config, todo |-> x.todo]
  /\ x.at = "save" =>
       /\ x.provider \in I!Providers /\ x.config \in Config
       /\ IF x.id = None THEN x.row = None
          ELSE /\ x.id \in Ids /\ x.row \in Connection
               /\ rows[x.id] = None \/ rows[x.id].provider = x.provider
  /\ x.at # "save" => x.id = None
  /\ x.at = "create" => x.config \in Config

Serving(p) ==
  IF wanted[p] = None THEN I!Of(p) = {}
  ELSE \E i \in Ids : I!Of(p) = {i} /\ rows[i] = wanted[p]

AskedFor == \A i \in Ids : rows[i] # None => wanted[rows[i].provider] # None

Posting(i) == {r \in Requests : errand[r].at = "sync" /\ i \notin errand[r].todo
                                /\ errand[r].config.what = "tokens"}

Linked ==
  /\ rows \in [Ids -> Connection \cup {None}]
  /\ wanted \in [I!Providers -> Connection \cup {None}]
  /\ page \in Config \cup {None}
  /\ errand = [r \in Requests |-> errand[r]]
  /\ \A r \in Requests : Errand(errand[r])
  /\ \A q, r \in Requests : errand[q].id = errand[r].id /\ errand[r].id # None
                              => errand[q].provider = errand[r].provider
  /\ \A p \in I!Providers \ amiss : Serving(p)
  /\ AskedFor
  /\ posted \in [Invoices -> Nat]
  /\ \A i \in Invoices : posted[i] <= Cardinality(Posting(i))

LEMMA NoConnection == None \notin Connection
BY LinksAssumption DEF Connection, Config

LEMMA LeastNumber ==
  ASSUME NEW S, S \subseteq Nat, S # {}
  PROVE  \E x \in S : \A y \in S : x <= y
<1>1. PICK less : less = OpToRel(<, Nat)
  OBVIOUS
<1>2. IsWellFoundedOn(less, Nat)
  BY <1>1, NatLessThanWellFounded
<1>3. PICK x \in S : \A y \in S : ~(<<y, x>> \in less)
  BY <1>2, WFMin
<1>4. \A y \in S : y < x => <<y, x>> \in less
  BY <1>1 DEF OpToRel
<1>5. \A y \in S : ~(y < x)
  BY <1>3, <1>4, Zenon
<1>6. \A a, b \in Nat : ~(b < a) => a <= b
  OBVIOUS
<1> QED BY <1>5, <1>6, Zenon

LEMMA FoundLemma ==
  ASSUME Linked, NEW p, NEW i, i = I!GetIntegrationByProvider(p)
  PROVE  IF I!Of(p) = {} THEN i = None /\ I!RowOf(i) = None
         ELSE /\ i \in Ids /\ i # None /\ i \in I!Of(p) /\ I!RowOf(i) = rows[i]
              /\ rows[i] \in Connection /\ rows[i].provider = p
<1>1. CASE I!Of(p) = {}
  BY <1>1 DEF I!GetIntegrationByProvider, I!RowOf
<1>2. CASE I!Of(p) # {}
  <2>1. I!Of(p) \subseteq Nat
    BY IdsAssumption DEF I!Of
  <2>2. \E k \in I!Of(p) : \A j \in I!Of(p) : k <= j
    BY <1>2, <2>1, LeastNumber
  <2>3. i \in I!Of(p)
    BY <1>2, <2>2, Zenon DEF I!GetIntegrationByProvider
  <2> QED BY <1>2, <2>3, IdsAssumption DEF Linked, I!Of, I!RowOf
<1> QED BY <1>1, <1>2

LEMMA LinkedStarts == ASSUME I!Init PROVE Linked
<1>1. \A p \in I!Providers : wanted[p] = None /\ I!Of(p) = {} /\ Serving(p)
  BY DEF I!Init, I!Of, Serving
<1>2. \A r \in Requests : errand[r] = I!NotYet /\ errand[r].id = None /\ errand[r].at = "new" /\ Errand(errand[r])
  BY DEF I!Init, I!NotYet, I!At, Errand
<1>3. \A i \in Invoices : posted[i] = 0 /\ Cardinality(Posting(i)) \in Nat
  <2>1. \A i \in Invoices : Posting(i) = {}
    BY <1>2 DEF Posting
  <2>2. \A i \in Invoices : Cardinality(Posting(i)) = 0
    BY <2>1, FS_EmptySet
  <2>3. \A i \in Invoices : posted[i] = 0
    BY DEF I!Init
  <2> QED BY <2>2, <2>3
<1>4. AskedFor
  BY DEF I!Init, AskedFor
<1> QED BY <1>1, <1>2, <1>3, <1>4 DEF I!Init, Linked

LEMMA PostingGrows ==
  ASSUME NEW i, Posting(i) \subseteq Posting(i)'
  PROVE  /\ Cardinality(Posting(i)) <= Cardinality(Posting(i)')
         /\ Cardinality(Posting(i)) \in Nat /\ Cardinality(Posting(i)') \in Nat
         /\ IsFiniteSet(Posting(i)) /\ IsFiniteSet(Posting(i)')
<1>1. IsFiniteSet(Posting(i)) /\ IsFiniteSet(Posting(i)')
  BY RequestsAssumption, FS_Subset DEF Posting
<1> QED BY <1>1, FS_Subset, FS_CardinalityType

(* The request r, which does not synchronise, moves on to x, with or without *)
(* a change of rows.                                                        *)
LEMMA ErrandGoesOn ==
  ASSUME Linked, NEW r \in Requests, NEW x, errand' = [errand EXCEPT ![r] = x],
         errand[r].at # "sync", posted' = posted,
         rows' \in [Ids -> Connection \cup {None}],
         wanted' \in [I!Providers -> Connection \cup {None}],
         page' \in Config \cup {None},
         Errand(x)',
         \A q \in Requests \ {r} : errand[q].id # None =>
           /\ rows'[errand[q].id] = None \/ rows'[errand[q].id].provider = errand[q].provider
           /\ errand[q].id = x.id => errand[q].provider = x.provider,
         \A p \in I!Providers \ amiss' : Serving(p)',
         AskedFor'
  PROVE  Linked'
<1>1. errand' = [q \in Requests |-> errand'[q]]
      /\ \A q \in Requests : errand'[q] = IF q = r THEN x ELSE errand[q]
  BY DEF Linked
<1>2. ASSUME NEW q \in Requests PROVE Errand(errand[q])'
  <2>1. CASE q = r
    BY <1>1, <2>1 DEF Errand
  <2>2. CASE q # r
    <3>1. PICK y : y = errand[q]
      OBVIOUS
    <3>2. errand'[q] = y /\ Errand(y)
      BY <1>1, <2>2, <3>1 DEF Linked
    <3>3. y.id # None => rows'[y.id] = None \/ rows'[y.id].provider = y.provider
      BY <2>2, <3>1
    <3> QED BY <3>2, <3>3 DEF Errand
  <2> QED BY <2>1, <2>2
<1>3. ASSUME NEW q \in Requests, NEW v \in Requests, errand'[q].id = errand'[v].id, errand'[v].id # None
      PROVE  errand'[q].provider = errand'[v].provider
  BY <1>1, <1>3 DEF Linked
<1>4. ASSUME NEW i \in Invoices PROVE posted'[i] <= Cardinality(Posting(i)')
  <2>1. Posting(i) \subseteq Posting(i)'
    BY <1>1 DEF Posting
  <2>2. posted[i] \in Nat /\ posted[i] <= Cardinality(Posting(i))
    BY DEF Linked
  <2> QED BY <2>1, <2>2, PostingGrows
<1>5. posted' \in [Invoices -> Nat]
  BY DEF Linked
<1> QED BY <1>1, <1>2, <1>3, <1>4, <1>5 DEF Linked

(* No row, and nothing that was asked for, changes. *)
LEMMA NothingMoves ==
  ASSUME Linked, UNCHANGED <<rows, wanted, amiss>>
  PROVE  /\ rows' \in [Ids -> Connection \cup {None}]
         /\ wanted' \in [I!Providers -> Connection \cup {None}]
         /\ AskedFor'
         /\ \A q \in Requests : errand[q].id # None =>
              rows'[errand[q].id] = None \/ rows'[errand[q].id].provider = errand[q].provider
         /\ \A p \in I!Providers \ amiss' : Serving(p)'
<1>1. \A p \in I!Providers : Serving(p) => Serving(p)'
  BY DEF Serving, I!Of
<1>2. \A q \in Requests : errand[q].id # None =>
        rows[errand[q].id] = None \/ rows[errand[q].id].provider = errand[q].provider
  BY DEF Linked, Errand
<1> QED BY <1>1, <1>2 DEF Linked, AskedFor

LEMMA LinkedStays ==
  ASSUME Linked, UNCHANGED <<rows, wanted, amiss, errand, posted>>,
         page' \in Config \cup {None}
  PROVE  Linked'
<1>1. \A r \in Requests : Errand(errand[r])'
  BY DEF Linked, Errand
<1>2. \A i \in Invoices : Posting(i)' = Posting(i)
  BY DEF Posting
<1> QED BY <1>1, <1>2, NothingMoves DEF Linked

LEMMA ConfigLinks ==
  ASSUME Linked, NEW p \in I!Providers, I!GetIntegrationConfig(p)
  PROVE  Linked'
<1>1. PICK i : i = I!GetIntegrationByProvider(p)
  OBVIOUS
<1>2. I!RowOf(i) # None /\ page' = I!Masked(I!RowOf(i).config)
      /\ UNCHANGED <<rows, wanted, amiss, errand, posted>>
  BY <1>1 DEF I!GetIntegrationConfig
<1>3. I!RowOf(i) \in Connection
  BY <1>1, <1>2, FoundLemma
<1>4. page' \in Config
  BY <1>2, <1>3 DEF Connection, Config, I!Masked
<1> QED BY <1>2, <1>4, LinkedStays

LEMMA FindsLinks ==
  ASSUME Linked, NEW r \in Requests, NEW p \in I!Providers, I!FindsIntegration(r, p)
  PROVE  Linked'
<1>1. PICK i : i = I!GetIntegrationByProvider(p)
  OBVIOUS
<1>2. PICK config \in {I!Form(r), page} \ {None} : I!Goes(r, I!At("save", p, i, I!RowOf(i), config))
  BY <1>1 DEF I!FindsIntegration
<1>3. errand[r] = I!NotYet /\ UNCHANGED <<rows, page, wanted, amiss, posted>>
  BY DEF I!FindsIntegration
<1>4. config \in Config
  BY <1>2 DEF Linked, Config, I!Form
<1>5. PICK x : x = I!At("save", p, i, I!RowOf(i), config)
  OBVIOUS
<1>6. errand' = [errand EXCEPT ![r] = x]
  BY <1>2, <1>5 DEF I!Goes
<1>7. x.at = "save" /\ x.provider = p /\ x.id = i /\ x.row = I!RowOf(i) /\ x.config = config
      /\ x = [at |-> x.at, provider |-> x.provider, id |-> x.id, row |-> x.row,
              config |-> x.config, todo |-> x.todo]
  BY <1>5 DEF I!At
<1>8. IF i = None THEN x.row = None
      ELSE i \in Ids /\ x.row \in Connection /\ rows[i] \in Connection /\ rows[i].provider = p
           /\ rows[i] # None
  BY <1>1, <1>7, FoundLemma, NoConnection
<1>9. Errand(x)'
  BY <1>3, <1>4, <1>7, <1>8 DEF Errand
<1>10. \A q \in Requests : errand[q].id # None /\ errand[q].id = x.id => errand[q].provider = p
  BY <1>7, <1>8 DEF Linked, Errand
<1>11. errand[r].at # "sync"
  BY <1>3 DEF I!NotYet, I!At
<1>12. page' \in Config \cup {None}
  BY <1>3 DEF Linked
<1> QED BY <1>3, <1>6, <1>7, <1>9, <1>10, <1>11, <1>12, NothingMoves, ErrandGoesOn

(* Nothing is looked for, and no row changes. *)
LEMMA WaitingLinks ==
  ASSUME Linked, NEW r \in Requests, NEW x, errand' = [errand EXCEPT ![r] = x],
         errand[r].at # "sync", UNCHANGED <<rows, page, wanted, amiss, posted>>,
         Errand(x), x.id = None
  PROVE  Linked'
<1>1. Errand(x)'
  BY DEF Errand
<1>2. page' \in Config \cup {None}
  BY DEF Linked
<1> QED BY <1>1, <1>2, NothingMoves, ErrandGoesOn

LEMMA QuickBooksLinks ==
  ASSUME Linked, NEW r \in Requests,
         I!QuickBooksConnect(r) \/ I!HandleOAuthCallback(r) \/ I!SyncInvoices(r)
  PROVE  Linked'
<1>1. CASE I!QuickBooksConnect(r)
  <2>1. PICK x : x = I!At("away", "quickbooks", None, None, None)
    OBVIOUS
  <2>2. x.id = None /\ Errand(x)
    BY <2>1 DEF Errand, I!At
  <2>3. errand' = [errand EXCEPT ![r] = x] /\ errand[r].at # "sync"
        /\ UNCHANGED <<rows, page, wanted, amiss, posted>>
    BY <1>1, <2>1 DEF I!QuickBooksConnect, I!Goes, I!NotYet, I!At
  <2> QED BY <2>2, <2>3, WaitingLinks
<1>2. CASE I!HandleOAuthCallback(r)
  <2>1. PICK x : x = I!At("create", "quickbooks", None, None, I!Tokens(r))
    OBVIOUS
  <2>2. I!Tokens(r) \in Config
    BY DEF I!Tokens, Config
  <2>3. x.id = None /\ Errand(x)
    BY <2>1, <2>2 DEF Errand, I!At
  <2>4. errand' = [errand EXCEPT ![r] = x] /\ errand[r].at # "sync"
        /\ UNCHANGED <<rows, page, wanted, amiss, posted>>
    BY <1>2, <2>1 DEF I!HandleOAuthCallback, I!Goes
  <2> QED BY <2>3, <2>4, WaitingLinks
<1>3. CASE I!SyncInvoices(r)
  <2>1. PICK i : i = I!GetIntegrationByProvider("quickbooks")
    OBVIOUS
  <2>2. PICK x : x = [I!At("sync", "quickbooks", None, None, rows[i].config) EXCEPT !.todo = unpaid]
    OBVIOUS
  <2>3. x.id = None /\ Errand(x)
    BY <2>2 DEF Errand, I!At
  <2>4. errand' = [errand EXCEPT ![r] = x] /\ errand[r].at # "sync"
        /\ UNCHANGED <<rows, page, wanted, amiss, posted>>
    <3>1. I!Goes(r, x) /\ errand[r] = I!NotYet
          /\ UNCHANGED <<rows, page, wanted, amiss, posted>>
      BY <1>3, <2>1, <2>2 DEF I!SyncInvoices
    <3> QED BY <3>1 DEF I!Goes, I!NotYet, I!At
  <2> QED BY <2>3, <2>4, WaitingLinks
<1> QED BY <1>1, <1>2, <1>3

(* The request r is done, and rows of the provider p alone are another,     *)
(* or none, where nobody else holds an id.                                  *)
LEMMA DoneLinks ==
  ASSUME Linked, NEW r \in Requests, NEW p \in I!Providers, I!Goes(r, I!Done),
         errand[r].at # "sync", UNCHANGED <<page, posted>>,
         rows' \in [Ids -> Connection \cup {None}],
         wanted' \in [I!Providers -> Connection \cup {None}],
         \A i \in Ids :
           \/ rows'[i] = rows[i]
           \/ rows[i] # None /\ rows[i].provider = p /\ rows'[i] = None
           \/ rows'[i] # None /\ rows'[i].provider = p /\ wanted'[p] # None
              /\ IF rows[i] = None
                 THEN \A q \in Requests : errand[q].id = i => errand[q].provider = p
                 ELSE rows[i].provider = p,
         \A q \in I!Providers \ {p} :
           wanted'[q] = wanted[q] /\ (q \in amiss => q \in amiss'),
         p \notin amiss' => Serving(p)',
         wanted'[p] = None => wanted[p] = None \/ I!Of(p)' = {}
  PROVE  Linked'
<1>1. PICK x : x = I!Done
  OBVIOUS
<1>2. errand' = [errand EXCEPT ![r] = x]
  BY <1>1 DEF I!Goes
<1>3. x.id = None /\ Errand(x)'
  BY <1>1 DEF I!Done, I!At, Errand
<1>4. ASSUME NEW q \in Requests, errand[q].id # None
      PROVE  rows'[errand[q].id] = None \/ rows'[errand[q].id].provider = errand[q].provider
  <2>1. errand[q].id \in Ids
        /\ (rows[errand[q].id] = None \/ rows[errand[q].id].provider = errand[q].provider)
    BY <1>4 DEF Linked, Errand
  <2> QED BY <2>1
<1>5. ASSUME NEW q \in I!Providers \ amiss' PROVE Serving(q)'
  <2>1. CASE q = p
    BY <1>5, <2>1
  <2>2. CASE q # p
    <3>1. Serving(q) /\ wanted'[q] = wanted[q]
      BY <1>5, <2>2 DEF Linked
    <3>2. \A i \in Ids : (rows[i] # None /\ rows[i].provider = q)
                          <=> (rows'[i] # None /\ rows'[i].provider = q)
      BY <2>2
    <3>3. \A i \in Ids : rows[i] # None /\ rows[i].provider = q => rows'[i] = rows[i]
      BY <2>2
    <3>4. I!Of(q)' = I!Of(q)
      BY <3>2 DEF I!Of
    <3>5. \A i \in I!Of(q) : i \in Ids /\ rows'[i] = rows[i]
      BY <3>3 DEF I!Of
    <3> QED BY <3>1, <3>4, <3>5 DEF Serving
  <2> QED BY <2>1, <2>2
<1>6. AskedFor'
  <2>1. ASSUME NEW i \in Ids, rows'[i] # None PROVE wanted'[rows'[i].provider] # None
    <3>1. rows'[i].provider \in I!Providers
      BY <2>1 DEF Connection
    <3>2. CASE rows'[i].provider # p
      BY <2>1, <3>1, <3>2 DEF Linked, AskedFor
    <3>3. CASE rows'[i].provider = p
      <4>1. i \in I!Of(p)'
        BY <2>1, <3>3 DEF I!Of
      <4>2. rows'[i] = rows[i] => wanted[p] # None
        BY <2>1, <3>3 DEF Linked, AskedFor
      <4> QED BY <2>1, <3>3, <4>1, <4>2
    <3> QED BY <3>2, <3>3
  <2> QED BY <2>1 DEF AskedFor
<1>7. page' \in Config \cup {None}
  BY DEF Linked
<1> QED BY <1>2, <1>3, <1>4, <1>5, <1>6, <1>7, ErrandGoesOn

LEMMA SaveLinks == ASSUME Linked, NEW r \in Requests, I!SaveIntegration(r) PROVE Linked'
<1>1. PICK p, read, id, config :
        p = errand[r].provider /\ read = errand[r].row /\ id = errand[r].id
        /\ config = errand[r].config
  OBVIOUS
<1>2. /\ errand[r].at = "save" /\ p \in I!Providers /\ config \in Config
      /\ IF id = None THEN read = None
         ELSE /\ id \in Ids /\ read \in Connection
              /\ rows[id] = None \/ rows[id].provider = p
  BY <1>1 DEF I!SaveIntegration, Linked, Errand
<1>3. /\ IF read # None
         THEN rows' = [rows EXCEPT ![id] = I!Row(p, config, read.active)]
         ELSE \E i \in I!Free : rows' = [rows EXCEPT ![i] = I!Row(p, config, TRUE)]
      /\ wanted' = [wanted EXCEPT ![p] = I!Wants(p, config)]
      /\ amiss' = IF I!Of(p) = {id} \ {None} /\ (read # None => rows[id] = read)
                  THEN amiss ELSE amiss \cup {p}
      /\ I!Goes(r, I!Done) /\ UNCHANGED <<page, posted>>
  BY <1>1 DEF I!SaveIntegration
<1>4. PICK i, active :
        /\ i \in Ids /\ active \in BOOLEAN
        /\ rows' = [rows EXCEPT ![i] = I!Row(p, config, active)]
        /\ read # None => i = id /\ active = read.active
        /\ read = None => i \in I!Free /\ active = TRUE
  <2>1. CASE read # None
    BY <1>2, <1>3, <2>1 DEF Connection
  <2>2. CASE read = None
    BY <1>3, <2>2 DEF I!Free
  <2> QED BY <2>1, <2>2
<1>5. PICK new : new = I!Row(p, config, active)
  OBVIOUS
<1>6. new \in Connection /\ new # None /\ new.provider = p
  BY <1>2, <1>4, <1>5, NoConnection DEF I!Row, Connection
<1>7. rows' \in [Ids -> Connection \cup {None}] /\ rows'[i] = new
      /\ \A j \in Ids \ {i} : rows'[j] = rows[j]
  BY <1>4, <1>5, <1>6 DEF Linked
<1>8. PICK want : want = I!Wants(p, config)
  OBVIOUS
<1>9. /\ wanted[p] \in Connection \cup {None}
      /\ want = I!Row(p, config, wanted[p] = None \/ wanted[p].active)
  BY <1>2, <1>8 DEF Linked, I!Wants
<1>10. want \in Connection /\ want # None
  <2>1. (wanted[p] = None \/ wanted[p].active) \in BOOLEAN
    BY <1>9 DEF Connection
  <2>2. PICK b \in BOOLEAN : b = (wanted[p] = None \/ wanted[p].active)
    BY <2>1
  <2>3. want = I!Row(p, config, b)
    BY <1>9, <2>2
  <2> QED BY <1>2, <2>3, NoConnection DEF I!Row, Connection
<1>11. wanted' \in [I!Providers -> Connection \cup {None}] /\ wanted'[p] = want
       /\ \A q \in I!Providers \ {p} : wanted'[q] = wanted[q]
  BY <1>2, <1>3, <1>8, <1>10 DEF Linked
<1>12. IF rows[i] = None
       THEN \A q \in Requests : errand[q].id = i => errand[q].provider = p
       ELSE rows[i].provider = p
  <2>1. CASE read # None
    <3>1. \A q \in Requests : errand[q].id = i => errand[q].provider = p
      BY <1>1, <1>2, <1>4, <2>1 DEF Linked
    <3> QED BY <1>2, <1>4, <2>1, <3>1, NoConnection
  <2>2. CASE read = None
    BY <1>4, <2>2 DEF I!Free
  <2> QED BY <2>1, <2>2
<1>13. ASSUME p \notin amiss' PROVE Serving(p)'
  <2>1. p \notin amiss /\ I!Of(p) = {id} \ {None} /\ (read # None => rows[id] = read)
    BY <1>3, <1>13
  <2>2. Serving(p)
    BY <1>2, <2>1 DEF Linked
  <2>3. I!Of(p)' = {i}
    <3>1. i \in I!Of(p)'
      BY <1>4, <1>6, <1>7 DEF I!Of
    <3>2. \A j \in I!Of(p)' : j # i => j \in I!Of(p)
      BY <1>7 DEF I!Of
    <3>3. \A j \in I!Of(p) : read # None /\ j = i
      BY <1>2, <1>4, <2>1, NoConnection
    <3> QED BY <3>1, <3>2, <3>3
  <2>4. active = (wanted[p] = None \/ wanted[p].active)
    <3>1. CASE read # None
      <4>1. I!Of(p) = {id}
        BY <1>2, <2>1, <3>1
      <4>2. wanted[p] # None /\ rows[id] = wanted[p]
        BY <2>2, <4>1 DEF Serving
      <4>3. read = wanted[p] /\ read \in Connection /\ active = read.active
        BY <1>2, <1>4, <2>1, <3>1, <4>2
      <4> QED BY <3>1, <4>3 DEF Connection
    <3>2. CASE read = None
      <4>1. id = None
        BY <1>2, <3>2, NoConnection
      <4>2. I!Of(p) = {}
        BY <2>1, <4>1
      <4>3. wanted[p] = None
        BY <2>2, <4>2 DEF Serving
      <4> QED BY <1>4, <3>2, <4>3
    <3> QED BY <3>1, <3>2
  <2>5. want = new
    BY <1>5, <1>9, <2>4
  <2>6. i \in Ids /\ I!Of(p)' = {i} /\ rows'[i] = wanted'[p] /\ wanted'[p] # None
    BY <1>4, <1>7, <1>10, <1>11, <2>3, <2>5
  <2> QED BY <2>6 DEF Serving
<1>14. \A q \in amiss : q \in amiss'
  BY <1>3
<1> QED BY <1>2, <1>3, <1>6, <1>7, <1>10, <1>11, <1>12, <1>13, <1>14, DoneLinks

LEMMA TokensLink == ASSUME Linked, NEW r \in Requests, I!SaveTokens(r) PROVE Linked'
<1> DEFINE p == "quickbooks"
<1>1. p \in I!Providers /\ errand[r].at # "sync" /\ errand[r].config \in Config
  BY DEF I!SaveTokens, I!Providers, Linked, Errand
<1>2. PICK new : new = I!Row(p, errand[r].config, TRUE)
  OBVIOUS
<1>3. /\ \E i \in I!Free : rows' = [rows EXCEPT ![i] = new]
      /\ wanted' = [wanted EXCEPT ![p] = new]
      /\ amiss' = IF I!Of(p) = {} THEN amiss ELSE amiss \cup {p}
      /\ I!Goes(r, I!Done) /\ UNCHANGED <<page, posted>>
  BY <1>2 DEF I!SaveTokens
<1>4. PICK i : i \in I!Free /\ rows' = [rows EXCEPT ![i] = new]
  BY <1>3
<1>5. new \in Connection /\ new # None /\ new.provider = p
  <2>1. PICK b \in BOOLEAN : b = TRUE
    OBVIOUS
  <2>2. PICK config \in Config : config = errand[r].config
    BY <1>1
  <2>3. new = I!Row(p, config, b)
    BY <1>2, <2>1, <2>2
  <2> QED BY <1>1, <2>3, NoConnection DEF I!Row, Connection
<1>6. i \in Ids /\ rows[i] = None /\ \A q \in Requests : errand[q].id # i
  BY <1>4 DEF I!Free
<1>7. rows' \in [Ids -> Connection \cup {None}] /\ rows'[i] = new
      /\ \A j \in Ids \ {i} : rows'[j] = rows[j]
  BY <1>4, <1>5, <1>6 DEF Linked
<1>8. wanted' \in [I!Providers -> Connection \cup {None}] /\ wanted'[p] = new
      /\ \A q \in I!Providers \ {p} : wanted'[q] = wanted[q]
  BY <1>1, <1>3, <1>5 DEF Linked
<1>9. ASSUME p \notin amiss' PROVE Serving(p)'
  <2>1. I!Of(p) = {}
    BY <1>3, <1>9
  <2>2. I!Of(p)' = {i}
    BY <1>5, <1>6, <1>7, <2>1 DEF I!Of
  <2>3. i \in Ids /\ I!Of(p)' = {i} /\ rows'[i] = wanted'[p] /\ wanted'[p] # None
    BY <1>5, <1>6, <1>7, <1>8, <2>2
  <2> QED BY <2>3 DEF Serving
<1>10. \A q \in amiss : q \in amiss'
  BY <1>3
<1> QED BY <1>1, <1>3, <1>5, <1>6, <1>7, <1>8, <1>9, <1>10, DoneLinks

LEMMA ToggleLinks ==
  ASSUME Linked, NEW r \in Requests, NEW i \in Ids, NEW active \in BOOLEAN,
         I!ToggleIntegration(r, i, active)
  PROVE  Linked'
<1>1. /\ errand[r] = I!NotYet /\ rows[i] # None
      /\ rows' = [rows EXCEPT ![i].active = active]
      /\ wanted' = [wanted EXCEPT ![rows[i].provider].active = active]
      /\ I!Goes(r, I!Done) /\ UNCHANGED <<page, posted, amiss>>
  BY DEF I!ToggleIntegration
<1>2. PICK p : p = rows[i].provider
  OBVIOUS
<1>3. rows[i] \in Connection /\ p \in I!Providers /\ wanted[p] \in Connection
  BY <1>1, <1>2 DEF Linked, AskedFor, Connection
<1>4. PICK new, want : new = [rows[i] EXCEPT !.active = active]
                       /\ want = [wanted[p] EXCEPT !.active = active]
  OBVIOUS
<1>5. new \in Connection /\ new.provider = p /\ want \in Connection
  BY <1>2, <1>3, <1>4 DEF Connection
<1>6. new # None /\ want # None
  BY <1>5, NoConnection
<1>7. rows' = [rows EXCEPT ![i] = new] /\ wanted' = [wanted EXCEPT ![p] = want]
  BY <1>1, <1>2, <1>4
<1>8. rows' \in [Ids -> Connection \cup {None}] /\ rows'[i] = new
      /\ \A j \in Ids \ {i} : rows'[j] = rows[j]
  BY <1>5, <1>7 DEF Linked
<1>9. wanted' \in [I!Providers -> Connection \cup {None}] /\ wanted'[p] = want
      /\ \A q \in I!Providers \ {p} : wanted'[q] = wanted[q]
  BY <1>3, <1>5, <1>7 DEF Linked
<1>10. ASSUME p \notin amiss' PROVE Serving(p)'
  <2>1. Serving(p)
    BY <1>1, <1>3, <1>10 DEF Linked
  <2>2. i \in I!Of(p) /\ wanted[p] # None
    BY <1>1, <1>2, <1>3, NoConnection DEF I!Of
  <2>3. I!Of(p) = {i} /\ rows[i] = wanted[p]
    BY <2>1, <2>2 DEF Serving
  <2>4. I!Of(p)' = {i}
    <3>1. i \in I!Of(p)'
      BY <1>5, <1>6, <1>8 DEF I!Of
    <3>2. \A j \in I!Of(p)' : j # i => j \in I!Of(p)
      BY <1>8 DEF I!Of
    <3> QED BY <2>3, <3>1, <3>2
  <2>5. new = want
    BY <1>4, <2>3
  <2>6. I!Of(p)' = {i} /\ rows'[i] = wanted'[p] /\ wanted'[p] # None
    BY <1>6, <1>8, <1>9, <2>4, <2>5
  <2> QED BY <2>6 DEF Serving
<1>11. errand[r].at # "sync"
  BY <1>1 DEF I!NotYet, I!At
<1>12. \A j \in Ids :
         \/ rows'[j] = rows[j]
         \/ rows'[j] # None /\ rows'[j].provider = p /\ wanted'[p] # None
            /\ rows[j] # None /\ rows[j].provider = p
  BY <1>1, <1>2, <1>5, <1>6, <1>8, <1>9
<1>13. I!Goes(r, I!Done) /\ UNCHANGED <<page, posted>>
       /\ \A q \in I!Providers \ {p} : wanted'[q] = wanted[q] /\ (q \in amiss => q \in amiss')
  BY <1>1, <1>9
<1>14. wanted'[p] # None
  BY <1>6, <1>9
<1> QED BY <1>3, <1>8, <1>9, <1>10, <1>11, <1>12, <1>13, <1>14, DoneLinks

LEMMA DeleteLinks ==
  ASSUME Linked, NEW r \in Requests, NEW i \in Ids, I!DeleteIntegration(r, i)
  PROVE  Linked'
<1>1. PICK p : p = rows[i].provider
  OBVIOUS
<1>2. /\ errand[r] = I!NotYet /\ rows[i] # None /\ I!Goes(r, I!Done)
      /\ rows' = [j \in Ids |-> IF j \in {i} THEN None ELSE rows[j]]
      /\ wanted' = IF I!Of(p) \subseteq {i} THEN [wanted EXCEPT ![p] = None] ELSE wanted
      /\ amiss' = IF I!Of(p) \subseteq {i} THEN amiss \ {p} ELSE amiss
      /\ UNCHANGED <<page, posted>>
  BY <1>1 DEF I!DeleteIntegration, I!Removes
<1>3. p \in I!Providers /\ i \in I!Of(p)
  BY <1>1, <1>2 DEF Linked, Connection, I!Of
<1>4. rows' \in [Ids -> Connection \cup {None}] /\ rows'[i] = None
      /\ \A j \in Ids \ {i} : rows'[j] = rows[j]
  BY <1>2 DEF Linked
<1>5. wanted' \in [I!Providers -> Connection \cup {None}]
      /\ \A q \in I!Providers \ {p} : wanted'[q] = wanted[q]
  BY <1>2 DEF Linked
<1>6. CASE I!Of(p) \subseteq {i}
  <2>1. I!Of(p)' = {}
    BY <1>4, <1>6 DEF I!Of
  <2>2. wanted'[p] = None /\ (\A q \in I!Providers \ {p} : q \in amiss => q \in amiss')
    BY <1>2, <1>3, <1>6 DEF Linked
  <2>3. Serving(p)'
    BY <2>1, <2>2 DEF Serving
  <2>4. errand[r].at # "sync"
    BY <1>2 DEF I!NotYet, I!At
  <2> QED BY <1>1, <1>2, <1>3, <1>4, <1>5, <2>1, <2>2, <2>3, <2>4, DoneLinks
<1>7. CASE ~(I!Of(p) \subseteq {i})
  <2>1. p \in amiss
    <3>1. ASSUME p \notin amiss PROVE FALSE
      <4>1. Serving(p)
        BY <1>3, <3>1 DEF Linked
      <4> QED BY <1>3, <1>7, <4>1 DEF Serving
    <3> QED BY <3>1
  <2>2. wanted' = wanted /\ amiss' = amiss
    BY <1>2, <1>7
  <2>3. errand[r].at # "sync"
    BY <1>2 DEF I!NotYet, I!At
  <2> QED BY <1>1, <1>2, <1>3, <1>4, <1>5, <2>1, <2>2, <2>3, DoneLinks
<1> QED BY <1>6, <1>7

LEMMA DisconnectLinks == ASSUME Linked, NEW r \in Requests, I!Disconnect(r) PROVE Linked'
<1> DEFINE p == "quickbooks"
<1>1. /\ errand[r] = I!NotYet /\ I!Goes(r, I!Done)
      /\ rows' = [i \in Ids |-> IF i \in I!Of(p) THEN None ELSE rows[i]]
      /\ wanted' = [wanted EXCEPT ![p] = None]
      /\ amiss' = amiss \ {p}
      /\ UNCHANGED <<page, posted>>
  BY DEF I!Disconnect, I!Disconnected
<1>2. p \in I!Providers
  BY DEF I!Providers
<1>3. rows' \in [Ids -> Connection \cup {None}]
      /\ \A i \in Ids :
           \/ rows'[i] = rows[i] /\ i \notin I!Of(p)
           \/ rows[i] # None /\ rows[i].provider = p /\ rows'[i] = None
  BY <1>1 DEF Linked, I!Of
<1>4. wanted' \in [I!Providers -> Connection \cup {None}] /\ wanted'[p] = None
      /\ \A q \in I!Providers \ {p} : wanted'[q] = wanted[q]
  BY <1>1, <1>2 DEF Linked
<1>5. I!Of(p)' = {}
  BY <1>3 DEF I!Of
<1>6. Serving(p)'
  BY <1>4, <1>5 DEF Serving
<1>7. errand[r].at # "sync"
  BY <1>1 DEF I!NotYet, I!At
<1> QED BY <1>1, <1>2, <1>3, <1>4, <1>5, <1>6, <1>7, DoneLinks

LEMMA PostingLinks ==
  ASSUME Linked, NEW r \in Requests, NEW i \in Invoices, I!CreateQuickBooksInvoice(r, i)
  PROVE  Linked'
<1>1. /\ errand[r].at = "sync" /\ i \in errand[r].todo
      /\ \/ I!Token(errand[r].config) \ expired # {} /\ posted' = [posted EXCEPT ![i] = @ + 1]
         \/ UNCHANGED posted
      /\ I!Goes(r, [errand[r] EXCEPT !.todo = @ \ {i}])
      /\ UNCHANGED <<rows, page, wanted, amiss>>
  BY DEF I!CreateQuickBooksInvoice
<1>2. PICK e : e = errand[r]
  OBVIOUS
<1>3. e.id = None
      /\ e = [at |-> e.at, provider |-> e.provider, id |-> e.id, row |-> e.row,
              config |-> e.config, todo |-> e.todo]
  BY <1>1, <1>2 DEF Linked, Errand
<1>4. PICK x : x = [e EXCEPT !.todo = e.todo \ {i}]
  OBVIOUS
<1>5. x = [at |-> e.at, provider |-> e.provider, id |-> e.id, row |-> e.row,
           config |-> e.config, todo |-> e.todo \ {i}]
  BY <1>3, <1>4
<1>6. x.at = "sync" /\ x.id = None /\ x.config = e.config /\ x.todo = e.todo \ {i} /\ Errand(x)'
  BY <1>1, <1>2, <1>3, <1>5 DEF Errand
<1>7. errand' = [q \in Requests |-> errand'[q]]
      /\ \A q \in Requests : errand'[q] = IF q = r THEN x ELSE errand[q]
  BY <1>1, <1>2, <1>4 DEF Linked, I!Goes
<1>8. ASSUME NEW q \in Requests PROVE Errand(errand[q])'
  <2>1. CASE q = r
    BY <1>6, <1>7, <2>1 DEF Errand
  <2>2. CASE q # r
    <3>1. errand'[q] = errand[q] /\ Errand(errand[q])
      BY <1>7, <2>2 DEF Linked
    <3> QED BY <1>1, <3>1 DEF Errand
  <2> QED BY <2>1, <2>2
<1>9. ASSUME NEW q \in Requests, NEW v \in Requests, errand'[q].id = errand'[v].id, errand'[v].id # None
      PROVE  errand'[q].provider = errand'[v].provider
  BY <1>6, <1>7, <1>9 DEF Linked
<1>10. \A j \in Invoices : Posting(j) \subseteq Posting(j)'
  BY <1>2, <1>6, <1>7 DEF Posting
<1>11. posted \in [Invoices -> Nat] /\ \A j \in Invoices : posted[j] <= Cardinality(Posting(j))
  BY DEF Linked
<1>12. ASSUME I!Token(e.config) \ expired # {}, posted' = [posted EXCEPT ![i] = @ + 1]
       PROVE  posted' \in [Invoices -> Nat]
              /\ \A j \in Invoices : posted'[j] <= Cardinality(Posting(j)')
  <2>1. e.config.what = "tokens"
    BY <1>12 DEF I!Token
  <2>2. r \notin Posting(i) /\ Posting(i)' = Posting(i) \cup {r}
    BY <1>1, <1>2, <1>6, <1>7, <2>1 DEF Posting
  <2>3. Cardinality(Posting(i)') = Cardinality(Posting(i)) + 1
    BY <1>10, <2>2, PostingGrows, FS_AddElement
  <2>4. posted' \in [Invoices -> Nat] /\ posted'[i] = posted[i] + 1
        /\ \A j \in Invoices \ {i} : posted'[j] = posted[j]
    BY <1>11, <1>12
  <2>5. ASSUME NEW j \in Invoices PROVE posted'[j] <= Cardinality(Posting(j)')
    <3>1. Cardinality(Posting(j)) \in Nat /\ Cardinality(Posting(j)') \in Nat
          /\ Cardinality(Posting(j)) <= Cardinality(Posting(j)')
          /\ posted[j] \in Nat /\ posted[j] <= Cardinality(Posting(j))
      BY <1>10, <1>11, PostingGrows
    <3>2. CASE j = i
      BY <2>3, <2>4, <3>1, <3>2
    <3>3. CASE j # i
      BY <2>4, <3>1, <3>3
    <3> QED BY <3>2, <3>3
  <2> QED BY <2>4, <2>5
<1>13. posted' \in [Invoices -> Nat]
       /\ \A j \in Invoices : posted'[j] <= Cardinality(Posting(j)')
  <2>1. ASSUME UNCHANGED posted, NEW j \in Invoices PROVE posted'[j] <= Cardinality(Posting(j)')
    BY <1>10, <1>11, <2>1, PostingGrows
  <2> QED BY <1>1, <1>2, <1>11, <1>12, <2>1
<1>14. page' \in Config \cup {None}
  BY <1>1 DEF Linked
<1> QED BY <1>1, <1>7, <1>8, <1>9, <1>13, <1>14, NothingMoves DEF Linked

LEMMA LinkedStands == ASSUME Linked, I!Next PROVE Linked'
<1>1. ASSUME NEW p \in I!Providers, I!GetIntegrationConfig(p) PROVE Linked'
  BY <1>1, ConfigLinks
<1>2. ASSUME NEW p \in I!Providers, NEW r \in Requests, I!FindsIntegration(r, p) PROVE Linked'
  BY <1>2, FindsLinks
<1>3. ASSUME NEW r \in Requests, NEW i \in Ids,
             \/ I!DeleteIntegration(r, i)
             \/ \E active \in BOOLEAN : I!ToggleIntegration(r, i, active)
      PROVE  Linked'
  BY <1>3, DeleteLinks, ToggleLinks
<1>4. ASSUME NEW r \in Requests,
             \/ I!SaveIntegration(r) \/ I!SaveTokens(r) \/ I!Disconnect(r)
             \/ I!QuickBooksConnect(r) \/ I!HandleOAuthCallback(r) \/ I!SyncInvoices(r)
      PROVE  Linked'
  BY <1>4, SaveLinks, TokensLink, DisconnectLinks, QuickBooksLinks
<1>5. ASSUME NEW r \in Requests, I!TokensExpire(r) PROVE Linked'
  <2>1. UNCHANGED <<rows, page, errand, posted, wanted, amiss>>
    BY <1>5 DEF I!TokensExpire
  <2>2. page' \in Config \cup {None}
    BY <2>1 DEF Linked
  <2> QED BY <2>1, <2>2, LinkedStays
<1>6. ASSUME NEW r \in Requests, NEW i \in Invoices, I!CreateQuickBooksInvoice(r, i)
      PROVE  Linked'
  BY <1>6, PostingLinks
<1>7. ASSUME NEW i \in Invoices, I!InvoicePaid(i) PROVE Linked'
  <2>1. UNCHANGED <<rows, page, errand, posted, wanted, amiss>>
    BY <1>7 DEF I!InvoicePaid
  <2>2. page' \in Config \cup {None}
    BY <2>1 DEF Linked
  <2> QED BY <2>1, <2>2, LinkedStays
<1> QED BY <1>1, <1>2, <1>3, <1>4, <1>5, <1>6, <1>7 DEF I!Next

LEMMA LinkedRests == ASSUME Linked, UNCHANGED links PROVE Linked'
<1>1. UNCHANGED <<rows, page, errand, posted, wanted, amiss>>
  BY DEF links
<1>2. page' \in Config \cup {None}
  BY <1>1 DEF Linked
<1> QED BY <1>1, <1>2, LinkedStays

LEMMA ConnectionsHold == Linked => I!ConnectionsStand
<1> SUFFICES ASSUME Linked PROVE I!ConnectionsStand
  OBVIOUS
<1>1. ASSUME NEW p \in I!Providers \ amiss
      PROVE  /\ I!Cardinality(I!Of(p)) = IF wanted[p] = None THEN 0 ELSE 1
             /\ \A i \in I!Of(p) : rows[i] = wanted[p]
  <2>1. Serving(p)
    BY DEF Linked
  <2>2. I!Cardinality(I!Of(p)) = Cardinality(I!Of(p))
    BY DEF I!Cardinality, Cardinality
  <2>3. CASE wanted[p] = None
    <3>1. I!Of(p) = {}
      BY <2>1, <2>3 DEF Serving
    <3> QED BY <2>2, <2>3, <3>1, FS_EmptySet
  <2>4. CASE wanted[p] # None
    <3>1. PICK i \in Ids : I!Of(p) = {i} /\ rows[i] = wanted[p]
      BY <2>1, <2>4 DEF Serving
    <3>2. Cardinality({i}) = 1
      BY FS_Singleton
    <3> QED BY <2>2, <2>4, <3>1, <3>2
  <2> QED BY <2>3, <2>4
<1>2. I!LatestTokensServe
  <2> SUFFICES ASSUME "quickbooks" \notin amiss, wanted["quickbooks"] # None
               PROVE  I!TestConnection = (I!Token(wanted["quickbooks"].config) \ expired # {})
    BY DEF I!LatestTokensServe
  <2>1. Serving("quickbooks")
    BY DEF Linked, I!Providers
  <2>2. PICK i \in Ids : I!Of("quickbooks") = {i} /\ rows[i] = wanted["quickbooks"]
    BY <2>1 DEF Serving
  <2>3. PICK k : k = I!GetIntegrationByProvider("quickbooks")
    OBVIOUS
  <2>4. k = i /\ I!RowOf(k) = rows[i]
    BY <2>2, <2>3, FoundLemma
  <2> QED BY <2>2, <2>3, <2>4 DEF I!TestConnection
<1>3. \A i \in Invoices : I!Cardinality(Posting(i)) = Cardinality(Posting(i))
  BY DEF I!Cardinality, Cardinality
<1>4. I!SyncsPostOnce
  BY <1>3 DEF Linked, I!SyncsPostOnce, Posting
<1> QED BY <1>1, <1>2, <1>4 DEF I!ConnectionsStand, I!RowsAreAsAsked

(* The three that MCAccounts runs beside an account, each by itself: while  *)
(* one moves, the others rest.                                             *)
Sound == Limiting /\ Claimed /\ Owned /\ Linked

LEMMA SoundStands == Sound /\ [AccessNext]_all => Sound'
<1> SUFFICES ASSUME Sound, [AccessNext]_all PROVE Sound'
  OBVIOUS
<1>1. ASSUME UNCHANGED <<limiter, team, links>> PROVE Sound'
  BY <1>1, LimitingRests, TeamRests, LinkedRests, Zenon DEF Sound
<1>2. ASSUME LimiterStep, L!Next PROVE Sound'
  <2>1. UNCHANGED team /\ UNCHANGED links
    BY <1>2, Zenon DEF LimiterStep
  <2> QED BY <1>2, <2>1, LimitingStands, TeamRests, LinkedRests, Zenon DEF Sound
<1>3. ASSUME TeamStep, T!Next PROVE Sound'
  <2>1. UNCHANGED limiter /\ UNCHANGED links
    BY <1>3, Zenon DEF TeamStep
  <2> QED BY <1>3, <2>1, LimitingRests, ClaimedStands, OwnedStands, LinkedRests, Zenon DEF Sound
<1>4. ASSUME LinksStep, I!Next PROVE Sound'
  <2>1. UNCHANGED limiter /\ UNCHANGED team
    BY <1>4, Zenon DEF LinksStep
  <2> QED BY <1>4, <2>1, LimitingRests, TeamRests, LinkedStands, Zenon DEF Sound
<1>5. ASSUME AccountStep \/ ColumnsStep \/ UNCHANGED all PROVE Sound'
  <2>1. UNCHANGED <<limiter, team, links>>
    BY <1>5, Zenon DEF AccountStep, ColumnsStep, all
  <2> QED BY <1>1, <2>1
<1> QED BY <1>2, <1>3, <1>4, <1>5, Zenon DEF AccessNext

(* No more requests of a client pass the limit of /auth in a window than it *)
(* allows, a tenant has its owner, and the connections of a tenant are the  *)
(* ones it asked for: as long as requests come and go, windows pass, rows   *)
(* are drawn at random and invoices are posted.                            *)
THEOREM AccessStands == AccessSpec => []AccessIsSound
<1>1. AccessInit => Sound
  <2>1. ASSUME AccessInit PROVE L!Init /\ T!Init /\ I!Init
    BY <2>1 DEF AccessInit
  <2> QED BY <2>1, LimitingStarts, ClaimedStarts, OwnedStarts, LinkedStarts DEF Sound
<1>2. Sound => AccessIsSound
  BY LimitsAreHeld, OwnedStays, ConnectionsHold DEF Sound, AccessIsSound
<1> QED BY <1>1, <1>2, SoundStands, PTL DEF AccessSpec
=============================================================================
