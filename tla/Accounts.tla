------------------------------ MODULE Accounts ------------------------------
(***************************************************************************)
(* The staff accounts of organizations: sign-in, refresh tokens, password  *)
(* resets, the second factor and deactivation.                             *)
(*                                                                         *)
(* A handler reads a user, checks it, asks whether the organization is     *)
(* stopped, hashes or compares (bcrypt, an await) and only then writes.    *)
(* Most writes update the columns they are about; the two halves of a      *)
(* password reset save the whole copy they read.  The columns of the       *)
(* second factor are not selected by default, so no copy holds them: they  *)
(* are a table of their own here.                                          *)
(***************************************************************************)
EXTENDS Organizations

CONSTANTS
    Users,
    OrgOf,      \* the organization of a user
    Requests,   \* requests about users that can be in flight
    NoRequest,  \* stands for a request that is over in one step
    Codes       \* the recovery codes of one set

VARIABLES
    user,       \* the users table
    second,     \* its columns about the second factor
    call,       \* per request: the handler, where it is, and what it read
    retired,    \* history: refresh and reset tokens replaced, redeemed or revoked
    spent,      \* history: recovery codes that were accepted
    off,        \* history: users an admin or operator deactivated last
    calm,       \* history: no row was written under a copy that is to be saved
    steady      \* history: no second factor was written while a request used its copy

accountVars == <<user, second, call, retired, spent, off, calm, steady>>
accounts == <<user, second, retired, spent, off, calm, steady>>

ASSUME AccountsAssumption ==
    /\ Users # {} /\ OrgOf \in [Users -> Orgs]
    /\ NoRequest \notin Requests

-----------------------------------------------------------------------------
\* A refresh token, a reset token or a password is the number of the request that
\* made it; 0 is NULL.
UserRow == [active: BOOLEAN, hash: Nat, password: Nat, reset: Nat, expires: Nat]

\* A recovery code is of the set made by a request.
SecondFactor == [enabled: BOOLEAN, setup: BOOLEAN, codes: SUBSET (Nat \X Codes)]
NoSecond == [enabled |-> FALSE, setup |-> FALSE, codes |-> {}]

Ops == {"login", "refresh", "verify", "reset", "confirm", "activate",
        "deactivate", "enable", "disable", "regenerate", "setup", "clear"}

Call == [op: Ops, at: {"idle", "org", "check", "grant", "save", "update"}, user: Users,
         n: Nat, row: UserRow, second: SecondFactor]

NoUser == [active |-> TRUE, hash |-> 0, password |-> 0, reset |-> 0, expires |-> 0]
NoCall == [op |-> "login", at |-> "idle", user |-> CHOOSE u \in Users : TRUE,
           n |-> 0, row |-> NoUser, second |-> NoSecond]

\* The set of codes made by request n.
CodeSet(n) == {n} \X Codes

Saving(r, u)  == call[r].at = "save" /\ call[r].user = u
\* A handler that has read the second factor and is to write it, or may.
Using(r, u) == /\ call[r].user = u
               /\ \/ call[r].at \in {"org", "check"} /\ call[r].op = "verify"
                  \/ call[r].at \in {"check", "update"}
                     /\ call[r].op \in {"enable", "disable", "regenerate", "setup", "clear"}

\* The row of u is written, by r if r is a request, and the tokens in `gone` are to
\* work no more.
WriteRow(r, u, row, gone) ==
    /\ user' = [user EXCEPT ![u] = row]
    /\ retired' = [retired EXCEPT ![u] = @ \cup (gone \ {0})]
    /\ calm' = [calm EXCEPT ![u] = calm[u] /\ ~\E q \in Requests \ {r} : Saving(q, u)]

WriteSecond(r, u, row) ==
    /\ second' = [second EXCEPT ![u] = row]
    /\ steady' = [steady EXCEPT ![u] = steady[u] /\ ~\E q \in Requests \ {r} : Using(q, u)]

Arrive(r, op, u, at) ==
    /\ call[r].at = "idle"
    /\ Comes
    /\ call' = [call EXCEPT ![r] = [op |-> op, at |-> at, user |-> u, n |-> started + 1,
                                    row |-> user[u], second |-> second[u]]]
    /\ UNCHANGED <<clock, accounts>>

Goes(r, at) == call' = [call EXCEPT ![r] = [call[r] EXCEPT !.at = at]]
Ends(r) == call' = [call EXCEPT ![r] = NoCall]

-----------------------------------------------------------------------------
(* Sign-in and refresh. *)

\* login and refreshTokens refuse a deactivated user; refreshTokens also one that
\* is signed out.
Login(r, u) == user[u].active /\ Arrive(r, "login", u, "org")

Refresh(r, u) ==
    /\ user[u].hash # 0
    /\ user[u].active
    /\ Arrive(r, "refresh", u, "org")

\* verifyTwoFactorLogin: the challenge is the answer to an earlier login.
VerifyLogin(r, u) == second[u].enabled /\ Arrive(r, "verify", u, "org")

\* assertActive; a stopped organization ends the request.
CheckOrg(r) ==
    /\ call[r].at = "org"
    /\ IF Blocked(OrgOf[call[r].user]) THEN Ends(r) ELSE Goes(r, "check")
    /\ UNCHANGED <<clock, started, accounts>>

\* The password is wrong, the code is: the request ends.
Refuse(r) ==
    /\ call[r].at = "check"
    /\ call[r].op # "refresh"
    /\ Ends(r)
    /\ UNCHANGED <<clock, started, accounts>>

\* The password is right; buildLoginSuccessResponse reads the second factor and
\* asks for it.
CheckPassword(r) ==
    /\ call[r].at = "check"
    /\ call[r].op = "login"
    /\ IF second[call[r].user].enabled THEN Ends(r) ELSE Goes(r, "grant")
    /\ UNCHANGED <<clock, started, accounts>>

\* bcrypt.compare with the hash that was read.  bcrypt looks at 72 bytes, and as far
\* as that every token of one user is alike: it is in the middle of the user's id.
Matches(r) == call[r].row.hash # 0

\* A token that does not match signs the user out everywhere.
CompareToken(r) ==
    LET u == call[r].user
    IN  /\ call[r].at = "check"
        /\ call[r].op = "refresh"
        /\ IF Matches(r)
           THEN Goes(r, "grant") /\ UNCHANGED <<user, retired, calm>>
           ELSE WriteRow(r, u, [user[u] EXCEPT !.hash = 0], {user[u].hash}) /\ Ends(r)
        /\ UNCHANGED <<clock, started, second, spent, off, steady>>

\* createTokens stores the hash of a new token.
Grant(r) ==
    LET u == call[r].user
    IN  /\ call[r].at = "grant"
        /\ WriteRow(r, u, [user[u] EXCEPT !.hash = call[r].n], {user[u].hash})
        /\ Ends(r)
        /\ UNCHANGED <<clock, started, second, spent, off, steady>>

-----------------------------------------------------------------------------
(* Signing out and deactivation: updates of columns. *)

Logout(u) ==
    /\ Comes
    /\ WriteRow(NoRequest, u, [user[u] EXCEPT !.hash = 0], {user[u].hash})
    /\ UNCHANGED <<clock, call, second, spent, off, steady>>

\* deleteUser, by an admin of the organization.
DeleteUser(u) ==
    /\ Comes
    /\ WriteRow(NoRequest, u, [user[u] EXCEPT !.active = FALSE, !.hash = 0], {user[u].hash})
    /\ off' = off \cup {u}
    /\ UNCHANGED <<clock, call, second, spent, steady>>

\* changeStatus of a user, by a platform operator, does nothing where nothing changes.
ChangeUser(r, u, active) ==
    /\ user[u].active # active
    /\ Arrive(r, IF active THEN "activate" ELSE "deactivate", u, "update")

UpdateUser(r) ==
    LET u == call[r].user
        active == call[r].op = "activate"
    IN  /\ call[r].at = "update"
        /\ call[r].op \in {"activate", "deactivate"}
        /\ WriteRow(r, u, [user[u] EXCEPT !.active = active, !.hash = 0], {user[u].hash})
        /\ off' = IF active THEN off \ {u} ELSE off \cup {u}
        /\ Ends(r)
        /\ UNCHANGED <<clock, started, second, spent, steady>>

-----------------------------------------------------------------------------
(* Password resets: the row is read, and later saved as a whole. *)

RequestReset(r, u) == Arrive(r, "reset", u, "save")

\* confirmPasswordReset finds the user by the token of the link.
ConfirmReset(r, u) ==
    /\ user[u].reset # 0
    /\ user[u].expires >= clock
    /\ Arrive(r, "confirm", u, "save")

\* Mutant: a reset activates the account, as it does for contacts.
ResetActivates(c) ==
    IF c.op = "reset" THEN [c.row EXCEPT !.reset = c.n, !.expires = clock + 1]
    ELSE [c.row EXCEPT !.password = c.n, !.hash = 0, !.reset = 0, !.expires = 0, !.active = TRUE]

\* The copy with the columns of the reset.
ResetRow(c) ==
    IF c.op = "reset" THEN [c.row EXCEPT !.reset = c.n, !.expires = clock + 1]
    ELSE [c.row EXCEPT !.password = c.n, !.hash = 0, !.reset = 0, !.expires = 0]

SaveUser(r) ==
    LET u == call[r].user
    IN  /\ call[r].at = "save"
        /\ WriteRow(r, u, ResetRow(call[r]), {user[u].reset} \cup
                                            IF call[r].op = "confirm" THEN {user[u].hash} ELSE {})
        /\ Ends(r)
        /\ UNCHANGED <<clock, started, second, spent, off, steady>>

-----------------------------------------------------------------------------
(* The second factor.  All of these read it, check, and update its columns. *)

\* initiateTwoFactorSetup and enableTwoFactor, of a user who has none; disabling and
\* new recovery codes, of one who has; the reset by an operator.
BeginSecond(r, u, op) ==
    /\ CASE op = "setup"  -> ~second[u].enabled
         [] op = "enable" -> ~second[u].enabled /\ second[u].setup
         [] op \in {"disable", "regenerate"} -> second[u].enabled
         [] op = "clear"  -> second[u].enabled
         [] OTHER -> FALSE
    /\ Arrive(r, op, u, IF op \in {"setup", "clear"} THEN "update" ELSE "check")

AfterCheck(c) == IF c.op = "verify" THEN "grant" ELSE "update"

\* assertValidTwoFactorAction: a code of the authenticator is right ...
CheckTotp(r) ==
    /\ call[r].at = "check"
    /\ call[r].op \in {"verify", "enable", "disable", "regenerate"}
    /\ Goes(r, AfterCheck(call[r]))
    /\ UNCHANGED <<clock, started, accounts>>

\* The list that was read, without the code.
LeftCodes(c, code) == c.second.codes \ {code}

\* ... or a recovery code is, and the list without it replaces the stored one.
UseRecoveryCode(r, code) ==
    LET u == call[r].user
    IN  /\ call[r].at = "check"
        /\ call[r].op \in {"verify", "disable", "regenerate"}
        /\ code \in call[r].second.codes
        /\ WriteSecond(r, u, [second[u] EXCEPT !.codes = LeftCodes(call[r], code)])
        /\ spent' = [spent EXCEPT ![u] = @ \cup {code}]
        /\ Goes(r, AfterCheck(call[r]))
        /\ UNCHANGED <<clock, started, user, retired, off, calm>>

\* The columns after the update that ends a request.
NewSecond(c, row) ==
    CASE c.op = "setup"      -> [row EXCEPT !.setup = TRUE]
      [] c.op = "enable"     -> [enabled |-> TRUE, setup |-> FALSE, codes |-> CodeSet(c.n)]
      [] c.op = "regenerate" -> [row EXCEPT !.codes = CodeSet(c.n)]
      [] OTHER               -> NoSecond

UpdateSecond(r) ==
    LET u == call[r].user
    IN  /\ call[r].at = "update"
        /\ call[r].op \in {"setup", "enable", "regenerate", "disable", "clear"}
        /\ WriteSecond(r, u, NewSecond(call[r], second[u]))
        /\ Ends(r)
        /\ UNCHANGED <<clock, started, user, retired, spent, off, calm>>

-----------------------------------------------------------------------------
\* Request 1 came before: users are signed in, with a second factor or not.
AccountsInit ==
    /\ user = [u \in Users |-> [NoUser EXCEPT !.hash = 1]]
    /\ second \in [Users -> {NoSecond, [enabled |-> TRUE, setup |-> FALSE, codes |-> CodeSet(1)]}]
    /\ call = [r \in Requests |-> NoCall]
    /\ retired = [u \in Users |-> {}]
    /\ spent = [u \in Users |-> {}]
    /\ off = {}
    /\ calm = [u \in Users |-> TRUE]
    /\ steady = [u \in Users |-> TRUE]

Request(r) ==
    \/ \E u \in Users :
          \/ Login(r, u) \/ Refresh(r, u) \/ VerifyLogin(r, u)
          \/ RequestReset(r, u) \/ ConfirmReset(r, u)
          \/ \E active \in BOOLEAN : ChangeUser(r, u, active)
          \/ \E op \in Ops : BeginSecond(r, u, op)
    \/ CheckOrg(r) \/ Refuse(r) \/ CheckPassword(r) \/ CompareToken(r) \/ Grant(r)
    \/ UpdateUser(r) \/ SaveUser(r)
    \/ CheckTotp(r) \/ UpdateSecond(r)
    \/ \E code \in call[r].second.codes : UseRecoveryCode(r, code)

AccountsNext ==
    \/ \E r \in Requests : Request(r)
    \/ \E u \in Users : Logout(u) \/ DeleteUser(u)

-----------------------------------------------------------------------------
AccountsTypeOK ==
    /\ user \in [Users -> UserRow]
    /\ second \in [Users -> SecondFactor]
    /\ call \in [Requests -> Call]
    /\ retired \in [Users -> SUBSET Nat]
    /\ spent \in [Users -> SUBSET (Nat \X Codes)]
    /\ off \subseteq Users
    /\ calm \in [Users -> BOOLEAN] /\ steady \in [Users -> BOOLEAN]

\* A deactivation holds until an operator takes it back, through every sign-in,
\* refresh and reset that was under way, unless a row was written while a password
\* reset held a copy of it.
DeactivationHolds == \A u \in off : calm[u] => ~user[u].active

\* A refresh token that was rotated out or revoked and a reset link that was
\* redeemed or replaced are not what the row holds again, under the same condition.
RetiredStaysRetired ==
    \A u \in Users : calm[u] => {user[u].hash, user[u].reset} \cap retired[u] = {}

\* A recovery code that was accepted is not in the stored list again, unless the
\* second factor was written while another request used a copy of it.
CodesAreSpent == \A u \in Users : steady[u] => second[u].codes \cap spent[u] = {}

\* What was taken from an account stays taken.
AccountsHold == DeactivationHolds /\ RetiredStaysRetired /\ CodesAreSpent
=============================================================================
