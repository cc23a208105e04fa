--------------------------- MODULE IdentityProofs ---------------------------
(* Theorems about Identity, for every value of its constants. *)
EXTENDS Identity, FiniteSetTheorems, TLAPS

LEMMA Defaults ==
  /\ NewOrg \in OrgRow /\ NoTask \in Task
  /\ NoUser \in UserRow /\ NoSecond \in SecondFactor /\ NoCall \in Call
  /\ NoSession \in SessionRow /\ NoVisit \in Visit
<1>1. /\ (CHOOSE o \in Orgs : TRUE) \in Orgs
      /\ (CHOOSE u \in Users : TRUE) \in Users
  BY OrganizationsAssumption, AccountsAssumption
<1>2. NewOrg \in OrgRow /\ NoUser \in UserRow /\ NoSecond \in SecondFactor
  BY OrganizationsAssumption DEF NewOrg, OrgRow, Statuses, NoUser, UserRow, NoSecond, SecondFactor
<1>3. NoTask \in Task
  BY <1>1, <1>2 DEF NoTask, Task, Handlers, Statuses
<1>4. NoCall \in Call
  BY <1>1, <1>2 DEF NoCall, Call, Ops
<1>5. NoVisit \in Visit
  BY <1>1 DEF NoVisit, Visit, FlagValues
<1>6. NoVisit.user \in Users
  BY <1>1 DEF NoVisit
<1>7. NoSession \in SessionRow
  BY <1>6 DEF NoSession, SessionRow
<1> QED BY <1>2, <1>3, <1>4, <1>5, <1>7

LEMMA InitTypes == Init => TypeOK
<1> SUFFICES ASSUME Init PROVE TypeOK
  OBVIOUS
<1>1. OrgTypeOK
  BY Defaults DEF Init, OrgInit, OrgTypeOK
<1>2. AccountsTypeOK
  <2>1. [NoUser EXCEPT !.hash = 1] \in UserRow
    BY DEF NoUser, UserRow
  <2>2. [enabled |-> TRUE, setup |-> FALSE, codes |-> CodeSet(1)] \in SecondFactor
    BY DEF CodeSet, SecondFactor
  <2>3. user \in [Users -> UserRow] /\ second \in [Users -> SecondFactor]
    BY <2>1, <2>2, Defaults DEF Init, AccountsInit
  <2>4. call \in [Requests -> Call]
    BY Defaults DEF Init, AccountsInit
  <2>5. retired \in [Users -> SUBSET Nat]
    BY DEF Init, AccountsInit
  <2>6. spent \in [Users -> SUBSET (Nat \X Codes)] /\ off \subseteq Users
    BY DEF Init, AccountsInit
  <2>7. calm \in [Users -> BOOLEAN] /\ steady \in [Users -> BOOLEAN]
    BY DEF Init, AccountsInit
  <2> QED BY <2>3, <2>4, <2>5, <2>6, <2>7 DEF AccountsTypeOK
<1> QED BY <1>1, <1>2, Defaults DEF Init, SessionsInit, TypeOK, FlagValues

-----------------------------------------------------------------------------
(* Types of organizations. *)

LEMMA HoldTypes ==
  ASSUME OrgTypeOK, NEW r \in OrgRequests, NEW o \in Orgs, NEW op \in Handlers,
         NEW row \in OrgRow, NEW changed \in BOOLEAN, Hold(r, o, op, row, changed)
  PROVE  OrgTypeOK'
<1>1. [op |-> op, at |-> "save", org |-> o, row |-> row, n |-> started + 1,
       previous |-> org[o].status, changed |-> changed] \in Task
  BY DEF OrgTypeOK, Task, OrgRow
<1>2. started' \in Nat
  BY DEF Hold, Comes, OrgTypeOK
<1> QED BY <1>1, <1>2 DEF Hold, OrgTypeOK

LEMMA OrgTypes == OrgTypeOK /\ OrgNext => OrgTypeOK'
<1> SUFFICES ASSUME OrgTypeOK, OrgNext PROVE OrgTypeOK'
  OBVIOUS
<1> USE DEF Handlers
<1>1. ASSUME NEW r \in OrgRequests, NEW o \in Orgs, NEW s \in Statuses, NEW u \in 0..MaxTime,
             ChangeStatus(r, o, s, u)
      PROVE  OrgTypeOK'
  <2>1. [org[o] EXCEPT !.status = s, !.until = u] \in OrgRow
    <3>1. org[o] \in OrgRow
      BY DEF OrgTypeOK
    <3>2. u \in Nat
      BY OrganizationsAssumption
    <3> QED BY <3>1, <3>2 DEF OrgRow
  <2>2. (org[o].status # s \/ org[o].until # u) \in BOOLEAN
    OBVIOUS
  <2> QED BY <1>1, <2>1, <2>2, HoldTypes DEF ChangeStatus
<1>2. ASSUME NEW r \in OrgRequests, NEW o \in Orgs, NEW p \in Plans, UpgradePlan(r, o, p)
      PROVE  OrgTypeOK'
  <2>1. [org[o] EXCEPT !.plan = p] \in OrgRow
    BY DEF OrgTypeOK, OrgRow
  <2> QED BY <1>2, <2>1, HoldTypes DEF UpgradePlan
<1>3. ASSUME NEW r \in OrgRequests, NEW o \in Orgs, Retention(r, o)
      PROVE  OrgTypeOK'
  <2>1. org[o] \in OrgRow
    BY DEF OrgTypeOK
  <2> QED BY <1>3, <2>1, HoldTypes DEF Retention
<1>4. ASSUME NEW r \in OrgRequests, NEW o \in Orgs, SendVerification(r, o)
      PROVE  OrgTypeOK'
  <2>1. [org[o] EXCEPT !.verified = FALSE, !.token = started + 1, !.expires = clock + 1] \in OrgRow
    <3>1. org[o] \in OrgRow /\ started + 1 \in Nat /\ clock + 1 \in Nat
      BY DEF OrgTypeOK
    <3> QED BY <3>1 DEF OrgRow
  <2> QED BY <1>4, <2>1, HoldTypes DEF SendVerification
<1>5. ASSUME NEW r \in OrgRequests, NEW o \in Orgs, VerifyEmail(r, o)
      PROVE  OrgTypeOK'
  <2>1. [org[o] EXCEPT !.verified = TRUE, !.token = 0, !.expires = 0] \in OrgRow
    BY DEF OrgTypeOK, OrgRow
  <2> QED BY <1>5, <2>1, HoldTypes DEF VerifyEmail
<1>6. ASSUME NEW op \in Handlers, NEW row \in OrgRow, NEW base \in OrgRow
      PROVE  Own(op, row, base) \in OrgRow
  <2>1. CASE op = "status"
    BY <2>1 DEF Own, OrgRow
  <2>2. CASE op = "plan"
    BY <2>2 DEF Own, OrgRow
  <2>3. CASE op \in {"send", "verify"}
    BY <2>3 DEF Own, OrgRow
  <2>4. CASE op = "retention"
    BY <2>4 DEF Own
  <2> QED BY <2>1, <2>2, <2>3, <2>4
<1>7. ASSUME NEW r \in OrgRequests, SaveOrg(r)
      PROVE  OrgTypeOK'
  <2>1. task[r] \in Task /\ task[r].org \in Orgs /\ task[r].row \in OrgRow /\ task[r].op \in Handlers
    BY DEF OrgTypeOK, Task
  <2>2. Own(task[r].op, task[r].row, latest[task[r].org]) \in OrgRow
    BY <2>1, <1>6 DEF OrgTypeOK
  <2>3. [task[r] EXCEPT !.at = "event"] \in Task
    BY <2>1 DEF Task
  <2>4. org' \in [Orgs -> OrgRow] /\ latest' \in [Orgs -> OrgRow]
    BY <1>7, <2>1, <2>2 DEF SaveOrg, Saved, OrgTypeOK
  <2>5. task' \in [OrgRequests -> Task]
    BY <1>7, <2>3, Defaults DEF SaveOrg, OrgTypeOK
  <2>6. quiet' \in [Orgs -> BOOLEAN]
    BY <1>7, <2>1 DEF SaveOrg, OrgTypeOK, Disturbs
  <2> QED BY <1>7, <2>4, <2>5, <2>6 DEF SaveOrg, OrgTypeOK
<1>8. ASSUME NEW r \in OrgRequests, InsertEvent(r) \/ LoseEvent(r)
      PROVE  OrgTypeOK'
  <2>1. task[r] \in Task /\ task[r].row \in OrgRow
    BY DEF OrgTypeOK, Task
  <2>2. [org |-> task[r].org, n |-> task[r].n, previous |-> Previous(r),
         next |-> task[r].row.status] \in StatusEvent
    BY <2>1 DEF StatusEvent, Task, OrgRow, Previous
  <2> QED BY <1>8, <2>1, <2>2, Defaults DEF InsertEvent, LoseEvent, OrgTypeOK, Task
<1>9. ASSUME NEW o \in Orgs, NEW op \in Handlers, NEW row \in OrgRow, Update(o, op, row)
      PROVE  OrgTypeOK'
  <2>1. Own(op, row, latest[o]) \in OrgRow
    BY <1>6 DEF OrgTypeOK
  <2>2. started' \in Nat
    BY <1>9 DEF Update, Comes, OrgTypeOK
  <2> QED BY <1>9, <2>1, <2>2 DEF Update, OrgTypeOK
<1>10. ASSUME NEW o \in Orgs, NEW p \in Plans, SetPlan(o, p)
       PROVE  OrgTypeOK'
  <2>1. [org[o] EXCEPT !.plan = p] \in OrgRow
    BY DEF OrgTypeOK, OrgRow
  <2> QED BY <1>9, <1>10, <2>1 DEF SetPlan
<1>11. ASSUME NEW o \in Orgs, ChangeEmail(o)
       PROVE  OrgTypeOK'
  <2>1. [org[o] EXCEPT !.verified = FALSE, !.token = 0, !.expires = 0] \in OrgRow
    BY DEF OrgTypeOK, OrgRow
  <2> QED BY <1>9, <1>11, <2>1 DEF ChangeEmail
<1> QED BY <1>1, <1>2, <1>3, <1>4, <1>5, <1>7, <1>8, <1>10, <1>11 DEF OrgNext, OrgRequest

-----------------------------------------------------------------------------
(* Types of accounts. *)

LEMMA ArriveTypes ==
  ASSUME OrgTypeOK, AccountsTypeOK, NEW r \in Requests, NEW u \in Users, NEW op \in Ops,
         NEW at \in {"org", "check", "save", "update"}, Arrive(r, op, u, at)
  PROVE  AccountsTypeOK' /\ started' \in Nat
<1>1. user[u] \in UserRow /\ second[u] \in SecondFactor /\ started + 1 \in Nat
  BY DEF OrgTypeOK, AccountsTypeOK
<1>2. [op |-> op, at |-> at, user |-> u, n |-> started + 1, row |-> user[u],
       second |-> second[u]] \in Call
  BY <1>1 DEF Call
<1>3. call' \in [Requests -> Call]
  BY <1>2 DEF Arrive, AccountsTypeOK
<1> QED BY <1>1, <1>3 DEF Arrive, Comes, accounts, AccountsTypeOK

LEMMA WriteRowTypes ==
  ASSUME AccountsTypeOK, NEW r, NEW u \in Users, NEW row \in UserRow, NEW gone \in SUBSET Nat,
         WriteRow(r, u, row, gone)
  PROVE  /\ user' \in [Users -> UserRow] /\ retired' \in [Users -> SUBSET Nat]
         /\ calm' \in [Users -> BOOLEAN]
<1>1. user' \in [Users -> UserRow]
  BY DEF WriteRow, AccountsTypeOK
<1>2. retired' \in [Users -> SUBSET Nat]
  BY DEF WriteRow, AccountsTypeOK
<1>3. (calm[u] /\ ~\E q \in Requests \ {r} : Saving(q, u)) \in BOOLEAN
  BY DEF AccountsTypeOK
<1>4. calm' \in [Users -> BOOLEAN]
  BY <1>3 DEF WriteRow, AccountsTypeOK
<1> QED BY <1>1, <1>2, <1>4

LEMMA WriteSecondTypes ==
  ASSUME AccountsTypeOK, NEW r, NEW u \in Users, NEW row \in SecondFactor, WriteSecond(r, u, row)
  PROVE  second' \in [Users -> SecondFactor] /\ steady' \in [Users -> BOOLEAN]
<1>1. (steady[u] /\ ~\E q \in Requests \ {r} : Using(q, u)) \in BOOLEAN
  BY DEF AccountsTypeOK
<1> QED BY <1>1 DEF WriteSecond, AccountsTypeOK

LEMMA CallTypes ==
  ASSUME AccountsTypeOK, NEW r \in Requests
  PROVE  /\ call[r] \in Call /\ call[r].user \in Users /\ call[r].n \in Nat
         /\ call[r].row \in UserRow /\ call[r].second \in SecondFactor
         /\ user[call[r].user] \in UserRow /\ second[call[r].user] \in SecondFactor
         /\ Ends(r) => call' \in [Requests -> Call]
         /\ \A at \in {"check", "grant", "update"} : Goes(r, at) => call' \in [Requests -> Call]
<1>1. call[r] \in Call
  BY DEF AccountsTypeOK
<1>2. /\ call[r].user \in Users /\ call[r].n \in Nat
      /\ call[r].row \in UserRow /\ call[r].second \in SecondFactor
  BY <1>1 DEF Call
<1>3. Ends(r) => call' \in [Requests -> Call]
  BY Defaults DEF Ends, AccountsTypeOK
<1>4. ASSUME NEW at \in {"check", "grant", "update"}, Goes(r, at)
      PROVE  call' \in [Requests -> Call]
  <2>1. [call[r] EXCEPT !.at = at] \in Call
    BY <1>1 DEF Call
  <2> QED BY <1>4, <2>1 DEF Goes, AccountsTypeOK
<1> QED BY <1>1, <1>2, <1>3, <1>4 DEF AccountsTypeOK

LEMMA SignInTypes ==
  ASSUME OrgTypeOK, AccountsTypeOK, NEW r \in Requests,
         CheckOrg(r) \/ Refuse(r) \/ CheckPassword(r) \/ CheckTotp(r) \/ CompareToken(r) \/ Grant(r)
  PROVE  AccountsTypeOK' /\ started' \in Nat
<1> DEFINE u == call[r].user
<1>1. user[u] \in UserRow /\ u \in Users /\ call[r].n \in Nat
  BY CallTypes
<1>2. CASE CheckOrg(r) \/ Refuse(r) \/ CheckPassword(r) \/ CheckTotp(r)
  <2>1. call' \in [Requests -> Call]
    BY <1>2, CallTypes DEF CheckOrg, Refuse, CheckPassword, CheckTotp, AfterCheck
  <2> QED BY <1>2, <2>1 DEF CheckOrg, Refuse, CheckPassword, CheckTotp, accounts, AccountsTypeOK,
                            OrgTypeOK
<1>3. [user[u] EXCEPT !.hash = 0] \in UserRow /\ {user[u].hash} \in SUBSET Nat
  BY <1>1 DEF UserRow
<1>4. CASE CompareToken(r)
  <2>1. call' \in [Requests -> Call]
    BY <1>4, CallTypes DEF CompareToken
  <2>2. /\ user' \in [Users -> UserRow] /\ retired' \in [Users -> SUBSET Nat]
        /\ calm' \in [Users -> BOOLEAN]
    <3>1. CASE Matches(r)
      BY <1>4, <3>1 DEF CompareToken, AccountsTypeOK
    <3>2. CASE ~Matches(r)
      <4>1. WriteRow(r, u, [user[u] EXCEPT !.hash = 0], {user[u].hash})
        BY <1>4, <3>2 DEF CompareToken
      <4> QED BY <1>1, <1>3, <4>1, WriteRowTypes
    <3> QED BY <3>1, <3>2
  <2> QED BY <1>4, <2>1, <2>2 DEF CompareToken, AccountsTypeOK, OrgTypeOK
<1>5. CASE Grant(r)
  <2>1. call' \in [Requests -> Call]
    BY <1>5, CallTypes DEF Grant
  <2>2. [user[u] EXCEPT !.hash = call[r].n] \in UserRow
    BY <1>1 DEF UserRow
  <2>3. WriteRow(r, u, [user[u] EXCEPT !.hash = call[r].n], {user[u].hash})
    BY <1>5 DEF Grant
  <2>4. /\ user' \in [Users -> UserRow] /\ retired' \in [Users -> SUBSET Nat]
        /\ calm' \in [Users -> BOOLEAN]
    BY <1>1, <1>3, <2>2, <2>3, WriteRowTypes
  <2> QED BY <1>5, <2>1, <2>4 DEF Grant, AccountsTypeOK, OrgTypeOK
<1> QED BY <1>2, <1>4, <1>5

LEMMA RowTypes ==
  ASSUME OrgTypeOK, AccountsTypeOK, NEW u \in Users, Logout(u) \/ DeleteUser(u)
  PROVE  AccountsTypeOK' /\ started' \in Nat
<1>1. user[u] \in UserRow
  BY DEF AccountsTypeOK
<1>2. /\ [user[u] EXCEPT !.hash = 0] \in UserRow /\ {user[u].hash} \in SUBSET Nat
      /\ [user[u] EXCEPT !.active = FALSE, !.hash = 0] \in UserRow
  BY <1>1 DEF UserRow
<1>3. /\ user' \in [Users -> UserRow] /\ retired' \in [Users -> SUBSET Nat]
      /\ calm' \in [Users -> BOOLEAN]
  BY <1>2, WriteRowTypes DEF Logout, DeleteUser
<1>4. off' \subseteq Users /\ started' \in Nat
  BY DEF Logout, DeleteUser, Comes, AccountsTypeOK, OrgTypeOK
<1> QED BY <1>3, <1>4 DEF Logout, DeleteUser, AccountsTypeOK

LEMMA UpdateTypes ==
  ASSUME OrgTypeOK, AccountsTypeOK, NEW r \in Requests, UpdateUser(r) \/ SaveUser(r)
  PROVE  AccountsTypeOK' /\ started' \in Nat
<1> DEFINE u == call[r].user
           a == call[r].op = "activate"
           R == {user[u].reset} \cup IF call[r].op = "confirm" THEN {user[u].hash} ELSE {}
<1>1. /\ user[u] \in UserRow /\ u \in Users /\ call[r].n \in Nat /\ call[r].row \in UserRow
      /\ clock + 1 \in Nat
  BY CallTypes DEF OrgTypeOK
<1>2. call' \in [Requests -> Call]
  BY CallTypes DEF UpdateUser, SaveUser
<1>3. {user[u].hash} \in SUBSET Nat /\ R \in SUBSET Nat
  BY <1>1 DEF UserRow
<1>4. CASE UpdateUser(r)
  <2>1. [user[u] EXCEPT !.active = a, !.hash = 0] \in UserRow
    BY <1>1 DEF UserRow
  <2>2. WriteRow(r, u, [user[u] EXCEPT !.active = a, !.hash = 0], {user[u].hash})
    BY <1>4 DEF UpdateUser
  <2>3. off' \subseteq Users
    BY <1>1, <1>4 DEF UpdateUser, AccountsTypeOK
  <2> HIDE DEF a
  <2>4. /\ user' \in [Users -> UserRow] /\ retired' \in [Users -> SUBSET Nat]
        /\ calm' \in [Users -> BOOLEAN]
    BY <1>1, <1>3, <2>1, <2>2, WriteRowTypes
  <2> QED BY <1>2, <1>4, <2>3, <2>4 DEF UpdateUser, AccountsTypeOK, OrgTypeOK
<1>5. CASE SaveUser(r)
  <2>1. ResetRow(call[r]) \in UserRow
    BY <1>1 DEF ResetRow, UserRow
  <2>2. WriteRow(r, u, ResetRow(call[r]), R)
    BY <1>5 DEF SaveUser
  <2> HIDE DEF R
  <2>3. /\ user' \in [Users -> UserRow] /\ retired' \in [Users -> SUBSET Nat]
        /\ calm' \in [Users -> BOOLEAN]
    BY <1>1, <1>3, <2>1, <2>2, WriteRowTypes
  <2> QED BY <1>2, <1>5, <2>3 DEF SaveUser, AccountsTypeOK, OrgTypeOK
<1> QED BY <1>4, <1>5

LEMMA SecondTypes ==
  ASSUME OrgTypeOK, AccountsTypeOK, NEW r \in Requests,
         UpdateSecond(r) \/ \E code \in call[r].second.codes : UseRecoveryCode(r, code)
  PROVE  AccountsTypeOK' /\ started' \in Nat
<1> DEFINE u == call[r].user
<1>1. /\ second[u] \in SecondFactor /\ u \in Users /\ call[r].n \in Nat
      /\ call[r].second \in SecondFactor
  BY CallTypes
<1>2. call' \in [Requests -> Call]
  BY CallTypes DEF UpdateSecond, UseRecoveryCode, AfterCheck
<1>3. CASE UpdateSecond(r)
  <2>1. NewSecond(call[r], second[u]) \in SecondFactor
    BY <1>1, <1>3, Defaults DEF NewSecond, SecondFactor, CodeSet, UpdateSecond
  <2>2. second' \in [Users -> SecondFactor] /\ steady' \in [Users -> BOOLEAN]
    BY <1>1, <1>3, <2>1, WriteSecondTypes DEF UpdateSecond
  <2> QED BY <1>2, <1>3, <2>2 DEF UpdateSecond, AccountsTypeOK, OrgTypeOK
<1>4. ASSUME NEW code \in call[r].second.codes, UseRecoveryCode(r, code)
      PROVE  AccountsTypeOK' /\ started' \in Nat
  <2>1. code \in Nat \X Codes
    BY <1>1 DEF SecondFactor
  <2>2. [second[u] EXCEPT !.codes = LeftCodes(call[r], code)] \in SecondFactor
    BY <1>1 DEF SecondFactor, LeftCodes
  <2>3. second' \in [Users -> SecondFactor] /\ steady' \in [Users -> BOOLEAN]
    BY <1>1, <1>4, <2>2, WriteSecondTypes DEF UseRecoveryCode
  <2>4. spent' \in [Users -> SUBSET (Nat \X Codes)]
    BY <1>1, <1>4, <2>1 DEF UseRecoveryCode, AccountsTypeOK
  <2> QED BY <1>2, <1>4, <2>3, <2>4 DEF UseRecoveryCode, AccountsTypeOK, OrgTypeOK
<1> QED BY <1>3, <1>4

LEMMA AccountsTypes == OrgTypeOK /\ AccountsTypeOK /\ AccountsNext => AccountsTypeOK' /\ started' \in Nat
<1> SUFFICES ASSUME OrgTypeOK, AccountsTypeOK, AccountsNext PROVE AccountsTypeOK' /\ started' \in Nat
  OBVIOUS
<1> USE DEF Ops
<1>1. ASSUME NEW r \in Requests, NEW u \in Users,
             \/ Login(r, u) \/ Refresh(r, u) \/ VerifyLogin(r, u)
             \/ RequestReset(r, u) \/ ConfirmReset(r, u)
             \/ \E active \in BOOLEAN : ChangeUser(r, u, active)
             \/ \E op \in Ops : BeginSecond(r, u, op)
      PROVE  AccountsTypeOK' /\ started' \in Nat
  <2>2. CASE \/ Login(r, u) \/ Refresh(r, u) \/ VerifyLogin(r, u)
             \/ RequestReset(r, u) \/ ConfirmReset(r, u)
    BY <2>2, ArriveTypes DEF Login, Refresh, VerifyLogin, RequestReset, ConfirmReset
  <2>4. ASSUME NEW active \in BOOLEAN, ChangeUser(r, u, active)
        PROVE  AccountsTypeOK' /\ started' \in Nat
    <3>1. (IF active THEN "activate" ELSE "deactivate") \in Ops
      OBVIOUS
    <3> QED BY <2>4, <3>1, ArriveTypes DEF ChangeUser
  <2>5. ASSUME NEW op \in Ops, BeginSecond(r, u, op) PROVE AccountsTypeOK' /\ started' \in Nat
    BY <2>5, ArriveTypes DEF BeginSecond
  <2> QED BY <1>1, <2>2, <2>4, <2>5
<1> QED BY <1>1, SignInTypes, RowTypes, UpdateTypes, SecondTypes DEF AccountsNext, Request

-----------------------------------------------------------------------------
(* Types of sessions and flags, and of the whole. *)

SessionsTypeOK ==
    /\ session \in [Sessions -> SessionRow]
    /\ visit \in [Operators -> Visit]
    /\ flag \in FlagValues /\ override \in [Orgs -> FlagValues]
    /\ admitted \subseteq [session: Nat, over: BOOLEAN] /\ closed \subseteq Nat
    /\ raced \in BOOLEAN

LEMMA VisitsTypes ==
  ASSUME OrgTypeOK, SessionsTypeOK, NEW r \in Operators, NEW new \in Visit, Visits(r, new)
  PROVE  SessionsTypeOK' /\ started' \in Nat
<1>1. started + 1 \in Nat
  BY DEF OrgTypeOK
<1>2. [new EXCEPT !.n = started + 1] \in Visit
  BY <1>1 DEF Visit
<1> QED BY <1>1, <1>2 DEF Visits, Comes, SessionsTypeOK

LEMMA AskTypes ==
  ASSUME OrgTypeOK, SessionsTypeOK, NEW r \in Operators,
         \/ \E value \in {"off", "on"} : AskUpsert(r, value) \/ \E o \in Orgs : AskOverride(r, o, value)
         \/ AskRemove(r)
         \/ \E u \in Users : AskStart(r, u)
         \/ \E s \in Sessions : AskEnd(r, s) \/ Use(r, s)
  PROVE  SessionsTypeOK' /\ started' \in Nat
<1>1. ASSUME NEW v \in {"off", "on"}, AskUpsert(r, v)
      PROVE  SessionsTypeOK' /\ started' \in Nat
  <2> DEFINE f == flag # "missing"
  <2>1. [NoVisit EXCEPT !.op = "upsert", !.at = "save", !.value = v, !.found = f] \in Visit
    BY Defaults DEF Visit, FlagValues
  <2> QED BY <1>1, <2>1, VisitsTypes DEF AskUpsert
<1>2. ASSUME NEW v \in {"off", "on"}, NEW o \in Orgs, AskOverride(r, o, v)
      PROVE  SessionsTypeOK' /\ started' \in Nat
  <2> DEFINE f == override[o] # "missing"
  <2>1. [NoVisit EXCEPT !.op = "override", !.at = "save", !.org = o, !.value = v, !.found = f]
        \in Visit
    BY Defaults DEF Visit, FlagValues
  <2> QED BY <1>2, <2>1, VisitsTypes DEF AskOverride
<1>3. ASSUME AskRemove(r) PROVE SessionsTypeOK' /\ started' \in Nat
  <2>1. [NoVisit EXCEPT !.op = "remove", !.at = "save"] \in Visit
    BY Defaults DEF Visit
  <2> QED BY <1>3, <2>1, VisitsTypes DEF AskRemove
<1>4. ASSUME NEW u \in Users, AskStart(r, u) PROVE SessionsTypeOK' /\ started' \in Nat
  <2>1. [NoVisit EXCEPT !.op = "start", !.at = "save", !.user = u] \in Visit
    BY Defaults DEF Visit
  <2> QED BY <1>4, <2>1, VisitsTypes DEF AskStart
<1>5. ASSUME NEW s \in Sessions, AskEnd(r, s) \/ Use(r, s)
      PROVE  SessionsTypeOK' /\ started' \in Nat
  <2>1. s \in Nat
    BY OrganizationsAssumption DEF Sessions
  <2>2. Over(s) \in BOOLEAN
    BY DEF Over
  <2>3. [NoVisit EXCEPT !.op = "end", !.at = "save", !.session = s] \in Visit
    BY <2>1, Defaults DEF Visit
  <2>4. [NoVisit EXCEPT !.op = "use", !.at = "read", !.session = s, !.over = Over(s)] \in Visit
    BY <2>1, <2>2, Defaults DEF Visit
  <2> QED BY <1>5, <2>3, <2>4, VisitsTypes DEF AskEnd, Use
<1> QED BY <1>1, <1>2, <1>3, <1>4, <1>5

LEMMA SessionsTypes ==
  OrgTypeOK /\ SessionsTypeOK /\ SessionsNext => SessionsTypeOK' /\ started' \in Nat
<1> SUFFICES ASSUME OrgTypeOK, SessionsTypeOK, SessionsNext
             PROVE  SessionsTypeOK' /\ started' \in Nat
  OBVIOUS
<1>1. ASSUME NEW r \in Operators,
             \/ SaveFlag(r) \/ SaveOverride(r) \/ DeleteOverrides(r) \/ RemoveFlag(r)
             \/ OpenSession(r) \/ EndSession(r) \/ Admit(r) \/ Reject(r) \/ Expire(r)
      PROVE  SessionsTypeOK' /\ started' \in Nat
  <2>1. /\ visit[r] \in Visit /\ visit[r].value \in FlagValues /\ visit[r].user \in Users
        /\ visit[r].org \in Orgs /\ visit[r].over \in BOOLEAN /\ visit[r].session \in Nat
    BY DEF SessionsTypeOK, Visit
  <2>2. ASSUME NEW at \in {"flag", "expire"}
        PROVE  [visit[r] EXCEPT !.at = at] \in Visit
    BY <2>1 DEF Visit
  <2>3. visit' \in [Operators -> Visit]
    BY <1>1, <2>2, Defaults DEF SaveFlag, SaveOverride, DeleteOverrides, RemoveFlag, OpenSession,
       EndSession, Admit, Reject, Expire, Leaves, VisitGoes, SessionsTypeOK
  <2>4. started' \in Nat
    BY <1>1 DEF SaveFlag, SaveOverride, DeleteOverrides, RemoveFlag, OpenSession,
       EndSession, Admit, Reject, Expire, OrgTypeOK
  <2>5. CASE SaveFlag(r) \/ RemoveFlag(r)
    BY <2>1, <2>3, <2>4, <2>5 DEF SaveFlag, RemoveFlag, SessionsTypeOK, FlagValues, Overriding
  <2>6. CASE SaveOverride(r)
    <3>1. override' \in [Orgs -> FlagValues]
      BY <2>1, <2>6 DEF SaveOverride, SessionsTypeOK
    <3> QED BY <2>3, <2>4, <2>6, <3>1 DEF SaveOverride, SessionsTypeOK, Removing
  <2>7. CASE DeleteOverrides(r)
    <3>1. NoOverrides \in [Orgs -> FlagValues]
      BY DEF NoOverrides, FlagValues
    <3> QED BY <2>3, <2>4, <2>7, <3>1 DEF DeleteOverrides, SessionsTypeOK
  <2>8. CASE OpenSession(r)
    <3>1. [status |-> "active", user |-> visit[r].user, expires |-> clock + 1] \in SessionRow
      BY <2>1 DEF SessionRow, OrgTypeOK
    <3> QED BY <2>3, <2>4, <2>8, <3>1 DEF OpenSession, SessionsTypeOK
  <2>9. CASE EndSession(r) \/ Expire(r)
    <3>1. ASSUME NEW s \in Sessions, NEW st \in {"ended", "expired"}
          PROVE  [session[s] EXCEPT !.status = st] \in SessionRow
      BY DEF SessionsTypeOK, SessionRow
    <3>2. visit[r].session \in Sessions \/ visit[r].session \notin DOMAIN session
      BY DEF SessionsTypeOK
    <3>3. session' \in [Sessions -> SessionRow]
      BY <2>9, <3>1, <3>2 DEF EndSession, Expire, SessionsTypeOK
    <3> QED BY <2>1, <2>3, <2>4, <2>9, <3>3 DEF EndSession, Expire, SessionsTypeOK
  <2>10. CASE Admit(r) \/ Reject(r)
    <3>1. admitted' \subseteq [session: Nat, over: BOOLEAN]
      BY <2>1, <2>10 DEF Admit, Reject, SessionsTypeOK
    <3> QED BY <2>3, <2>4, <2>10, <3>1 DEF Admit, Reject, SessionsTypeOK
  <2> QED BY <1>1, <2>5, <2>6, <2>7, <2>8, <2>9, <2>10
<1>2. ASSUME NEW o \in Orgs, ClearOverride(o)
      PROVE  SessionsTypeOK' /\ started' \in Nat
  BY <1>2 DEF ClearOverride, Comes, SessionsTypeOK, FlagValues, OrgTypeOK
<1> QED BY <1>1, <1>2, AskTypes DEF SessionsNext, Operator

\* Everything keeps its type.
THEOREM TypeCorrect == Spec => []TypeOK
<1>1. TypeOK = (OrgTypeOK /\ AccountsTypeOK /\ SessionsTypeOK)
  BY DEF TypeOK, SessionsTypeOK
<1>2. ASSUME TypeOK, [Next]_vars PROVE TypeOK'
  <2>1. CASE OrgNext /\ UNCHANGED <<accountVars, sessionVars>>
    BY <1>1, <1>2, <2>1, OrgTypes DEF accountVars, sessionVars, AccountsTypeOK, SessionsTypeOK, TypeOK
  <2>2. CASE AccountsNext /\ UNCHANGED <<orgVars, sessionVars>>
    <3>1. clock' = clock
      BY <2>2, ZenonT(60) DEF AccountsNext, Request, Login, VerifyLogin, RequestReset, ConfirmReset, Refresh,
         ChangeUser, BeginSecond, Arrive, CheckOrg, Refuse, CheckPassword, CompareToken, Grant,
         UpdateUser, SaveUser, CheckTotp, UpdateSecond, UseRecoveryCode, Logout, DeleteUser
    <3> QED BY <1>1, <1>2, <2>2, <3>1, AccountsTypes DEF orgVars, sessionVars, OrgTypeOK,
               SessionsTypeOK, TypeOK
  <2>3. CASE SessionsNext /\ UNCHANGED <<orgVars, accountVars>>
    <3>1. clock' = clock
      BY <2>3 DEF SessionsNext, Operator, AskUpsert, AskOverride, AskRemove, AskStart, AskEnd, Use,
         Visits, SaveFlag, SaveOverride, DeleteOverrides, RemoveFlag, OpenSession, EndSession, Admit,
         Reject, Expire, ClearOverride
    <3>2. SessionsTypeOK' /\ started' \in Nat
      BY <1>1, <1>2, <2>3, SessionsTypes DEF TypeOK
    <3>3. OrgTypeOK' /\ AccountsTypeOK'
      BY <1>2, <2>3, <3>1, <3>2 DEF orgVars, accountVars, OrgTypeOK, AccountsTypeOK, TypeOK
    <3> QED BY <3>2, <3>3 DEF TypeOK, SessionsTypeOK
  <2>4. CASE Tick /\ UNCHANGED <<started, orgVars, accountVars, sessionVars>>
    BY <1>2, <2>4 DEF Tick, orgVars, accountVars, sessionVars, TypeOK, OrgTypeOK, AccountsTypeOK
  <2>5. CASE UNCHANGED vars
    BY <1>2, <2>5 DEF vars, orgVars, accountVars, sessionVars, TypeOK, OrgTypeOK, AccountsTypeOK
  <2> QED BY <1>2, <2>1, <2>2, <2>3, <2>4, <2>5 DEF Next
<1> QED BY <1>2, InitTypes, PTL DEF Spec

-----------------------------------------------------------------------------
(* A copy that is to be saved is the row, with the handler's columns changed, as  *)
(* long as nothing was written under it: this is what makes a save harmless.      *)

CopyInv ==
    \A o \in Orgs : quiet[o] =>
        /\ org[o] = latest[o]
        /\ \A r \in OrgRequests : Holds(r, o) => Own(task[r].op, task[r].row, org[o]) = task[r].row

LEMMA HoldCopies ==
  ASSUME TypeOK, CopyInv, NEW r \in OrgRequests, NEW o \in Orgs, NEW op \in Handlers,
         NEW row \in OrgRow, NEW changed, Hold(r, o, op, row, changed), Own(op, row, org[o]) = row
  PROVE  CopyInv'
<1> SUFFICES ASSUME NEW o2 \in Orgs, quiet'[o2]
             PROVE  /\ org'[o2] = latest'[o2]
                    /\ \A q \in OrgRequests : Holds(q, o2)' =>
                         Own(task'[q].op, task'[q].row, org'[o2]) = task'[q].row
  BY DEF CopyInv
<1>1. org' = org /\ latest' = latest /\ quiet' = quiet
  BY DEF Hold
<1>2. ASSUME NEW q \in OrgRequests, Holds(q, o2)'
      PROVE  Own(task'[q].op, task'[q].row, org'[o2]) = task'[q].row
  <2>1. CASE q = r
    <3>1. task'[q].op = op /\ task'[q].row = row /\ task'[q].org = o
      BY <2>1 DEF Hold, TypeOK, OrgTypeOK
    <3>2. o2 = o
      BY <1>2, <3>1 DEF Holds
    <3> QED BY <1>1, <3>1, <3>2
  <2>2. CASE q # r
    <3>1. task'[q] = task[q]
      BY <2>2 DEF Hold, TypeOK, OrgTypeOK
    <3>2. Holds(q, o2)
      BY <1>2, <3>1 DEF Holds
    <3> QED BY <1>1, <3>1, <3>2 DEF CopyInv
  <2> QED BY <2>1, <2>2
<1> QED BY <1>1, <1>2 DEF CopyInv

LEMMA OrgCopies == TypeOK /\ CopyInv /\ OrgNext => CopyInv'
<1> SUFFICES ASSUME TypeOK, CopyInv, OrgNext PROVE CopyInv'
  OBVIOUS
<1> USE DEF Handlers
<1>0. \A o \in Orgs : org[o] \in OrgRow /\ latest[o] \in OrgRow
  BY DEF TypeOK, OrgTypeOK
<1>1. ASSUME NEW r \in OrgRequests, NEW o \in Orgs, NEW s \in Statuses, NEW u \in 0..MaxTime,
             ChangeStatus(r, o, s, u)
      PROVE  CopyInv'
  <2> DEFINE row == [org[o] EXCEPT !.status = s, !.until = u]
  <2>1. row \in OrgRow
    <3>1. u \in Nat
      BY OrganizationsAssumption
    <3> QED BY <1>0, <3>1 DEF OrgRow
  <2>2. Own("status", row, org[o]) = row
    <3>1. org[o] \in OrgRow
      BY <1>0
    <3> QED BY <3>1 DEF Own, OrgRow
  <2>3. Hold(r, o, "status", row, org[o].status # s \/ org[o].until # u)
    BY <1>1 DEF ChangeStatus
  <2> HIDE DEF row
  <2> QED BY <2>1, <2>2, <2>3, HoldCopies
<1>2. ASSUME NEW r \in OrgRequests, NEW o \in Orgs, NEW p \in Plans, UpgradePlan(r, o, p)
      PROVE  CopyInv'
  <2> DEFINE row == [org[o] EXCEPT !.plan = p]
  <2>1. row \in OrgRow
    BY <1>0 DEF OrgRow
  <2>2. Own("plan", row, org[o]) = row
    <3>1. org[o] \in OrgRow
      BY <1>0
    <3> QED BY <3>1 DEF Own, OrgRow
  <2>3. Hold(r, o, "plan", row, FALSE)
    BY <1>2 DEF UpgradePlan
  <2> HIDE DEF row
  <2> QED BY <2>1, <2>2, <2>3, HoldCopies
<1>3. ASSUME NEW r \in OrgRequests, NEW o \in Orgs, Retention(r, o)
      PROVE  CopyInv'
  <2>1. Own("retention", org[o], org[o]) = org[o]
    BY DEF Own
  <2> QED BY <1>0, <1>3, <2>1, HoldCopies DEF Retention
<1>4. ASSUME NEW r \in OrgRequests, NEW o \in Orgs, NEW op \in {"send", "verify"},
             NEW v \in BOOLEAN, NEW t \in Nat, NEW x \in Nat,
             Hold(r, o, op, [org[o] EXCEPT !.verified = v, !.token = t, !.expires = x], FALSE)
      PROVE  CopyInv'
  <2> DEFINE row == [org[o] EXCEPT !.verified = v, !.token = t, !.expires = x]
  <2>1. row \in OrgRow
    BY <1>0 DEF OrgRow
  <2>2. Own(op, row, org[o]) = row
    <3>1. org[o] \in OrgRow
      BY <1>0
    <3>2. op # "status" /\ op # "plan"
      OBVIOUS
    <3> QED BY <3>1, <3>2 DEF Own, OrgRow
  <2>3. Hold(r, o, op, row, FALSE)
    BY <1>4
  <2> HIDE DEF row
  <2> QED BY <2>1, <2>2, <2>3, HoldCopies
<1>5. ASSUME NEW r \in OrgRequests, NEW o \in Orgs, SendVerification(r, o) \/ VerifyEmail(r, o)
      PROVE  CopyInv'
  <2>1. started + 1 \in Nat /\ clock + 1 \in Nat
    BY DEF TypeOK, OrgTypeOK
  <2> QED BY <1>4, <1>5, <2>1 DEF SendVerification, VerifyEmail
<1>6. ASSUME NEW r \in OrgRequests, SaveOrg(r)
      PROVE  CopyInv'
  <2> DEFINE o == task[r].org
  <2>1. o \in Orgs /\ Holds(r, o)
    BY <1>6 DEF SaveOrg, Holds, TypeOK, OrgTypeOK, Task
  <2> SUFFICES ASSUME NEW o2 \in Orgs, quiet'[o2]
               PROVE  /\ org'[o2] = latest'[o2]
                      /\ \A q \in OrgRequests : Holds(q, o2)' =>
                           Own(task'[q].op, task'[q].row, org'[o2]) = task'[q].row
    BY DEF CopyInv
  <2>2. ASSUME NEW q \in OrgRequests, Holds(q, o2)'
        PROVE  q # r /\ task'[q] = task[q] /\ Holds(q, o2)
    <3>1. task'[r].at # "save"
      BY <1>6 DEF SaveOrg, TypeOK, OrgTypeOK, Task, NoTask
    <3>2. q # r
      BY <2>2, <3>1 DEF Holds
    <3>3. task'[q] = task[q]
      BY <1>6, <3>2 DEF SaveOrg, TypeOK, OrgTypeOK
    <3> QED BY <2>2, <3>2, <3>3 DEF Holds
  <2>3. CASE o2 = o
    <3>1. quiet[o] /\ ~Disturbs(r, o)
      BY <1>6, <2>1, <2>3 DEF SaveOrg, TypeOK, OrgTypeOK
    <3>2. Own(task[r].op, task[r].row, org[o]) = task[r].row /\ org[o] = latest[o]
      BY <2>1, <3>1 DEF CopyInv
    <3>3. org'[o] = latest'[o]
      BY <1>6, <2>1, <3>2 DEF SaveOrg, Saved, TypeOK, OrgTypeOK
    <3> QED BY <2>2, <2>3, <3>1, <3>3 DEF Disturbs
  <2>4. CASE o2 # o
    <3>1. quiet[o2] /\ org'[o2] = org[o2] /\ latest'[o2] = latest[o2]
      BY <1>6, <2>4 DEF SaveOrg, TypeOK, OrgTypeOK
    <3> QED BY <2>2, <3>1 DEF CopyInv
  <2> QED BY <2>3, <2>4
<1>7. ASSUME NEW r \in OrgRequests, InsertEvent(r) \/ LoseEvent(r)
      PROVE  CopyInv'
  <2>1. org' = org /\ latest' = latest /\ quiet' = quiet /\ task' = [task EXCEPT ![r] = NoTask]
    BY <1>7 DEF InsertEvent, LoseEvent
  <2>2. ASSUME NEW q \in OrgRequests, NEW o \in Orgs, Holds(q, o)'
        PROVE  task'[q] = task[q] /\ Holds(q, o)
    BY <2>1, <2>2 DEF Holds, NoTask, TypeOK, OrgTypeOK
  <2> QED BY <2>1, <2>2 DEF CopyInv
<1>8. ASSUME NEW o \in Orgs, NEW op \in {"plan", "send"}, NEW row \in OrgRow, Update(o, op, row),
             Own(op, row, org[o]) = row
      PROVE  CopyInv'
  <2> SUFFICES ASSUME NEW o2 \in Orgs, quiet'[o2]
               PROVE  /\ org'[o2] = latest'[o2]
                      /\ \A q \in OrgRequests : Holds(q, o2)' =>
                           Own(task'[q].op, task'[q].row, org'[o2]) = task'[q].row
    BY DEF CopyInv
  <2>1. task' = task /\ \A q \in OrgRequests : Holds(q, o2)' <=> Holds(q, o2)
    BY <1>8 DEF Update, Holds
  <2>2. CASE o2 = o
    <3>1. quiet[o] /\ ~\E q \in OrgRequests : Holds(q, o)
      BY <1>8, <2>2 DEF Update, TypeOK, OrgTypeOK
    <3>2. org'[o] = latest'[o]
      BY <1>8, <3>1 DEF Update, CopyInv, TypeOK, OrgTypeOK
    <3> QED BY <2>1, <2>2, <3>1, <3>2
  <2>3. CASE o2 # o
    <3>1. quiet[o2] /\ org'[o2] = org[o2] /\ latest'[o2] = latest[o2]
      BY <1>8, <2>3 DEF Update, TypeOK, OrgTypeOK
    <3> QED BY <2>1, <3>1 DEF CopyInv
  <2> QED BY <2>2, <2>3
<1>9. ASSUME NEW o \in Orgs, NEW p \in Plans, SetPlan(o, p)
      PROVE  CopyInv'
  <2> DEFINE row == [org[o] EXCEPT !.plan = p]
  <2>1. org[o] \in OrgRow
    BY <1>0
  <2>2. row \in OrgRow
    BY <2>1 DEF OrgRow
  <2>3. Own("plan", row, org[o]) = row
    BY <2>1 DEF Own, OrgRow
  <2>4. Update(o, "plan", row)
    BY <1>9 DEF SetPlan
  <2> HIDE DEF row
  <2> QED BY <1>8, <2>2, <2>3, <2>4
<1>10. ASSUME NEW o \in Orgs, ChangeEmail(o)
       PROVE  CopyInv'
  <2> DEFINE row == [org[o] EXCEPT !.verified = FALSE, !.token = 0, !.expires = 0]
  <2>1. org[o] \in OrgRow
    BY <1>0
  <2>2. row \in OrgRow
    BY <2>1 DEF OrgRow
  <2>3. Own("send", row, org[o]) = row
    BY <2>1 DEF Own, OrgRow
  <2>4. Update(o, "send", row)
    BY <1>10 DEF ChangeEmail
  <2> HIDE DEF row
  <2> QED BY <1>8, <2>2, <2>3, <2>4
<1> QED BY <1>1, <1>2, <1>3, <1>5, <1>6, <1>7, <1>9, <1>10 DEF OrgNext, OrgRequest

\* While no row is written under a copy that is still to be saved, every column of
\* an organization holds what the last handler that was about it wrote.
THEOREM UpdatesSurvive == Spec => []NoLostUpdate
<1>1. Init => CopyInv
  BY DEF Init, OrgInit, CopyInv, Holds, NoTask
<1>2. ASSUME TypeOK, CopyInv, [Next]_vars PROVE CopyInv'
  <2>1. CASE UNCHANGED orgVars
    BY <1>2, <2>1 DEF CopyInv, Holds, orgVars
  <2> QED BY <1>2, <2>1, OrgCopies DEF Next, vars
<1>3. CopyInv => NoLostUpdate
  BY DEF CopyInv, NoLostUpdate
<1> QED BY <1>1, <1>2, <1>3, TypeCorrect, PTL DEF Spec

-----------------------------------------------------------------------------
(* Accounts: what a request holds is still what is stored, until it is written   *)
(* under it, and what it made is new.                                            *)

Numbered ==
    /\ \A r \in Requests : call[r].at # "idle" => call[r].n \in 1..started
    /\ \A r, q \in Requests :
         r # q /\ call[r].at # "idle" /\ call[q].at # "idle" => call[r].n # call[q].n
    /\ \A r \in Requests : call[r].at = "org" => call[r].op \in {"login", "refresh", "verify"}

\* A number that no request will make a token or a code with.
Old(n) == n <= started /\ \A r \in Requests : call[r].at # "idle" => call[r].n # n

RowOf(u) ==
    /\ \A r \in Requests : Saving(r, u) => call[r].row = user[u]
    /\ u \in off => ~user[u].active
    /\ {user[u].hash, user[u].reset} \cap retired[u] = {}
    /\ 0 \notin retired[u]
    /\ user[u].hash = user[u].reset => user[u].hash = 0
    /\ Old(user[u].hash) /\ Old(user[u].reset)
    /\ \A n \in retired[u] : Old(n)

CodesOf(u) ==
    /\ \A r \in Requests :
         /\ call[r].user = u /\ call[r].at \in {"org", "check"}
         /\ call[r].op \in {"verify", "disable", "regenerate"}
         => call[r].second = second[u]
    /\ second[u].codes \cap spent[u] = {}
    /\ \A c \in second[u].codes : Old(c[1])
    /\ \A c \in spent[u] : Old(c[1])

AccountInv ==
    /\ Numbered
    /\ \A u \in Users : calm[u] => RowOf(u)
    /\ \A u \in Users : steady[u] => CodesOf(u)

LEMMA AccountInit == Init => AccountInv
<1> SUFFICES ASSUME Init PROVE AccountInv
  OBVIOUS
<1>1. \A r \in Requests : call[r].at = "idle"
  BY DEF Init, AccountsInit, NoCall
<1>2. \A n \in {0, 1} : Old(n)
  BY <1>1 DEF Old, Init
<1>3. Numbered
  BY <1>1 DEF Numbered
<1>4. ASSUME NEW u \in Users PROVE RowOf(u)
  <2>1. user[u].hash = 1 /\ user[u].reset = 0 /\ retired[u] = {} /\ off = {}
    BY DEF Init, AccountsInit, NoUser
  <2> QED BY <1>1, <1>2, <2>1 DEF RowOf, Saving
<1>5. ASSUME NEW u \in Users PROVE CodesOf(u)
  <2>1. spent[u] = {} /\ \A c \in second[u].codes : c[1] = 1
    BY DEF Init, AccountsInit, NoSecond, CodeSet
  <2> QED BY <1>1, <1>2, <2>1 DEF CodesOf
<1> QED BY <1>3, <1>4, <1>5 DEF AccountInv

\* A request that comes in is the newest.
LEMMA ArriveKeeps ==
  ASSUME TypeOK, AccountInv, NEW r \in Requests, NEW u \in Users, NEW op \in Ops,
         NEW at \in {"org", "check", "save", "update"}, Arrive(r, op, u, at),
         at = "org" => op \in {"login", "refresh", "verify"}
  PROVE  AccountInv'
<1>1. /\ started \in Nat /\ started' = started + 1
      /\ call'[r].at = at /\ call'[r].op = op /\ call'[r].user = u /\ call'[r].n = started + 1
      /\ call'[r].row = user[u] /\ call'[r].second = second[u]
      /\ \A q \in Requests \ {r} : call'[q] = call[q]
      /\ UNCHANGED accounts
  BY DEF Arrive, Comes, TypeOK, AccountsTypeOK, OrgTypeOK
<1>2. Numbered'
  BY <1>1 DEF AccountInv, Numbered
<1>3. ASSUME NEW n \in Nat, Old(n) PROVE Old(n)'
  BY <1>1, <1>3 DEF Old
<1>4. ASSUME NEW v \in Users, calm'[v] PROVE RowOf(v)'
  <2>1. RowOf(v) /\ UNCHANGED <<user, retired, off, calm>>
    BY <1>1, <1>4 DEF AccountInv, accounts
  <2>2. user[v].hash \in Nat /\ user[v].reset \in Nat /\ retired[v] \subseteq Nat
    BY DEF TypeOK, AccountsTypeOK, UserRow
  <2>3. Old(user[v].hash)' /\ Old(user[v].reset)' /\ \A n \in retired'[v] : Old(n)'
    BY <1>3, <2>1, <2>2 DEF RowOf
  <2>4. \A q \in Requests : Saving(q, v)' => call'[q].row = user'[v]
    BY <1>1, <2>1 DEF RowOf, Saving
  <2> QED BY <2>1, <2>3, <2>4 DEF RowOf
<1>5. ASSUME NEW v \in Users, steady'[v] PROVE CodesOf(v)'
  <2>1. CodesOf(v) /\ UNCHANGED <<second, spent, steady>>
    BY <1>1, <1>5 DEF AccountInv, accounts
  <2>2. /\ \A c \in second[v].codes : c[1] \in Nat
        /\ \A c \in spent[v] : c[1] \in Nat
    BY DEF TypeOK, AccountsTypeOK, SecondFactor
  <2>3. (\A c \in second'[v].codes : Old(c[1])') /\ \A c \in spent'[v] : Old(c[1])'
    BY <1>3, <2>1, <2>2 DEF CodesOf
  <2> QED BY <1>1, <2>1, <2>3 DEF CodesOf
<1> QED BY <1>2, <1>4, <1>5 DEF AccountInv

\* A request, if it is one, goes on to write or ends; the others are where they were.
Steps(r) ==
    /\ started' >= started
    /\ \A q \in Requests \ {r} : call'[q] = call[q]
    /\ r \in Requests /\ call'[r].at # "idle" =>
         /\ call[r].at # "idle"
         /\ call'[r].n = call[r].n /\ call'[r].op = call[r].op
         /\ call'[r].user = call[r].user /\ call'[r].second = call[r].second
         /\ call'[r].at \notin {"save", "org"}
         /\ call'[r].at = "check" => call[r].at = "org"

LEMMA StepKeepsNumbers ==
  ASSUME TypeOK, Numbered, NEW r, Steps(r), started' \in Nat
  PROVE  Numbered' /\ \A n \in Nat : Old(n) => Old(n)'
<1>1. started \in Nat
  BY DEF TypeOK, OrgTypeOK
<1>2. ASSUME NEW q \in Requests, call'[q].at # "idle"
      PROVE  call[q].at # "idle" /\ call'[q].n = call[q].n
  BY <1>2 DEF Steps
<1>3. ASSUME NEW q \in Requests, call'[q].at = "org"
      PROVE  call'[q].op \in {"login", "refresh", "verify"}
  BY <1>3 DEF Steps, Numbered
<1>4. ASSUME NEW q \in Requests, call'[q].at # "idle"
      PROVE  call'[q].n \in 1..started'
  BY <1>1, <1>2, <1>4 DEF Steps, Numbered
<1>5. ASSUME NEW q \in Requests, NEW p \in Requests, q # p, call'[q].at # "idle", call'[p].at # "idle"
      PROVE  call'[q].n # call'[p].n
  BY <1>2, <1>5 DEF Numbered
<1>6. Numbered'
  BY <1>3, <1>4, <1>5 DEF Numbered
<1>7. ASSUME NEW n \in Nat, Old(n) PROVE Old(n)'
  BY <1>1, <1>2, <1>7 DEF Old, Steps
<1> QED BY <1>6, <1>7

LEMMA StepKeepsRows ==
  ASSUME TypeOK, AccountInv, NEW r, Steps(r), started' \in Nat,
         NEW u \in Users, calm[u], calm'[u], user'[u] = user[u], retired'[u] = retired[u],
         u \in off' => u \in off
  PROVE  RowOf(u)'
<1>1. user[u].hash \in Nat /\ user[u].reset \in Nat /\ retired[u] \subseteq Nat
  BY DEF TypeOK, AccountsTypeOK, UserRow
<1>2. RowOf(u)
  BY DEF AccountInv
<1>3. Old(user[u].hash)' /\ Old(user[u].reset)' /\ \A n \in retired[u] : Old(n)'
  <2>1. \A n \in Nat : Old(n) => Old(n)'
    BY StepKeepsNumbers DEF AccountInv
  <2>2. /\ user'[u].hash = user[u].hash
        /\ user'[u].reset = user[u].reset
    OBVIOUS
  <2> QED BY <1>1, <1>2, <2>1, <2>2 DEF RowOf
<1>4. ASSUME NEW q \in Requests, Saving(q, u)'
      PROVE  call'[q].row = user[u]
  BY <1>2, <1>4 DEF RowOf, Saving, Steps
<1> QED BY <1>2, <1>3, <1>4 DEF RowOf

LEMMA StepKeepsCodes ==
  ASSUME TypeOK, AccountInv, NEW r, Steps(r), started' \in Nat,
         NEW u \in Users, steady[u], second'[u] = second[u], spent'[u] = spent[u]
  PROVE  CodesOf(u)'
<1>1. /\ \A c \in second[u].codes : c[1] \in Nat
      /\ \A c \in spent[u] : c[1] \in Nat
  BY DEF TypeOK, AccountsTypeOK, SecondFactor
<1>2. CodesOf(u)
  BY DEF AccountInv
<1>3. \A n \in Nat : Old(n) => Old(n)'
  BY StepKeepsNumbers DEF AccountInv
<1>4. (\A c \in second'[u].codes : Old(c[1])') /\ \A c \in spent'[u] : Old(c[1])'
  BY <1>1, <1>2, <1>3 DEF CodesOf
<1>5. ASSUME NEW q \in Requests, call'[q].user = u, call'[q].at \in {"org", "check"},
             call'[q].op \in {"verify", "disable", "regenerate"}
      PROVE  call'[q].second = second'[u]
  BY <1>2, <1>5 DEF CodesOf, Steps
<1> QED BY <1>2, <1>4, <1>5 DEF CodesOf

\* A row written under no other copy.
LEMMA RowWriteKeeps ==
  ASSUME TypeOK, AccountInv, NEW r, Steps(r), started' \in Nat, NEW u \in Users,
         NEW row \in UserRow, NEW gone \in SUBSET Nat, WriteRow(r, u, row, gone),
         UNCHANGED <<second, spent, steady>>, \A v \in Users \ {u} : v \in off' => v \in off,
         calm[u] => /\ u \in off' => ~row.active
                    /\ {row.hash, row.reset} \cap (retired[u] \cup (gone \ {0})) = {}
                    /\ row.hash = row.reset => row.hash = 0
                    /\ \A n \in {row.hash, row.reset} : Old(n)'
                    /\ \A n \in gone : Old(n)
  PROVE  AccountInv'
<1>1. Numbered' /\ \A n \in Nat : Old(n) => Old(n)'
  BY StepKeepsNumbers DEF AccountInv
<1>2. /\ user'[u] = row /\ retired'[u] = retired[u] \cup (gone \ {0})
      /\ calm'[u] => calm[u] /\ ~\E q \in Requests \ {r} : Saving(q, u)
      /\ \A v \in Users \ {u} : user'[v] = user[v] /\ retired'[v] = retired[v] /\ calm'[v] = calm[v]
  BY DEF WriteRow, TypeOK, AccountsTypeOK
<1>3. ASSUME NEW v \in Users, calm'[v] PROVE RowOf(v)'
  <2>1. CASE v # u
    <3>1. calm[v] /\ user'[v] = user[v] /\ retired'[v] = retired[v] /\ (v \in off' => v \in off)
      BY <1>2, <1>3, <2>1
    <3> QED BY <1>3, <3>1, StepKeepsRows
  <2>2. CASE v = u
    <3>1. calm[u] /\ RowOf(u) /\ ~\E q \in Requests \ {r} : Saving(q, u)
      BY <1>2, <1>3, <2>2 DEF AccountInv
    <3>2. ASSUME NEW q \in Requests, Saving(q, u)' PROVE FALSE
      BY <3>1, <3>2 DEF Saving, Steps
    <3>3. u \in off' => ~user'[u].active
      BY <1>2, <3>1
    <3>4. {user'[u].hash, user'[u].reset} \cap retired'[u] = {} /\ 0 \notin retired'[u]
      BY <1>2, <3>1 DEF RowOf
    <3>5. user'[u].hash = user'[u].reset => user'[u].hash = 0
      BY <1>2, <3>1
    <3>6. ASSUME NEW n \in retired'[u] PROVE Old(n)'
      <4>1. n \in Nat
        BY <1>2 DEF TypeOK, AccountsTypeOK
      <4>2. Old(n)
        BY <1>2, <3>1 DEF RowOf
      <4> QED BY <1>1, <4>1, <4>2
    <3>7. Old(user[u].hash)' /\ Old(user[u].reset)'
      <4>1. \A n \in {row.hash, row.reset} : Old(n)'
        BY <3>1
      <4> QED BY <1>2, <4>1 DEF Old
    <3>8. RowOf(u)'
      BY <3>2, <3>3, <3>4, <3>5, <3>6, <3>7 DEF RowOf
    <3> QED BY <2>2, <3>8
  <2> QED BY <2>1, <2>2
<1>4. ASSUME NEW v \in Users, steady'[v] PROVE CodesOf(v)'
  BY <1>4, StepKeepsCodes
<1> QED BY <1>1, <1>3, <1>4 DEF AccountInv

\* A second factor written under no other copy.
LEMMA SecondWriteKeeps ==
  ASSUME TypeOK, AccountInv, NEW r \in Requests, Steps(r), started' \in Nat, NEW u \in Users,
         NEW row \in SecondFactor, WriteSecond(r, u, row), call[r].user = u,
         call'[r].at # "check",
         UNCHANGED <<user, retired, off, calm>>,
         \A v \in Users \ {u} : spent'[v] = spent[v],
         steady[u] => /\ row.codes \cap spent'[u] = {}
                      /\ \A c \in row.codes : Old(c[1])'
                      /\ \A c \in spent'[u] : Old(c[1])'
  PROVE  AccountInv'
<1>1. Numbered'
  BY StepKeepsNumbers DEF AccountInv
<1>2. ASSUME NEW v \in Users, calm'[v] PROVE RowOf(v)'
  BY <1>2, StepKeepsRows
<1>3. /\ second'[u] = row
      /\ steady'[u] => steady[u] /\ ~\E q \in Requests \ {r} : Using(q, u)
      /\ \A v \in Users \ {u} : second'[v] = second[v] /\ steady'[v] = steady[v]
  BY DEF WriteSecond, TypeOK, AccountsTypeOK
<1>4. ASSUME NEW v \in Users, steady'[v] PROVE CodesOf(v)'
  <2>1. CASE v # u
    <3>1. steady[v] /\ second'[v] = second[v] /\ spent'[v] = spent[v]
      BY <1>3, <1>4, <2>1
    <3> QED BY <3>1, StepKeepsCodes
  <2>2. CASE v = u
    <3>1. steady[u] /\ ~\E q \in Requests \ {r} : Using(q, u)
      BY <1>3, <1>4, <2>2
    <3>2. ASSUME NEW q \in Requests, call'[q].user = u, call'[q].at \in {"org", "check"},
                 call'[q].op \in {"verify", "disable", "regenerate"}
          PROVE  FALSE
      <4>1. q # r
        BY <3>2 DEF Steps
      <4>2. call'[q] = call[q]
        BY <4>1 DEF Steps
      <4>3. call[q].at = "org" => call[q].op = "verify"
        BY <3>2, <4>2 DEF AccountInv, Numbered
      <4> QED BY <3>1, <3>2, <4>1, <4>2, <4>3 DEF Using
    <3>3. second'[u].codes \cap spent'[u] = {}
      BY <1>3, <3>1
    <3>4. (\A c \in second'[u].codes : Old(c[1])') /\ \A c \in spent'[u] : Old(c[1])'
      BY <1>3, <3>1
    <3>5. CodesOf(u)'
      BY <3>2, <3>3, <3>4 DEF CodesOf
    <3> QED BY <2>2, <3>5
  <2> QED BY <2>1, <2>2
<1> QED BY <1>1, <1>2, <1>4 DEF AccountInv

\* Nothing is written.
LEMMA IdleKeeps ==
  ASSUME TypeOK, AccountInv, NEW r, Steps(r), started' \in Nat, UNCHANGED accounts
  PROVE  AccountInv'
<1>1. Numbered'
  BY StepKeepsNumbers DEF AccountInv
<1>2. ASSUME NEW v \in Users, calm'[v] PROVE RowOf(v)'
  BY <1>2, StepKeepsRows DEF accounts
<1>3. ASSUME NEW v \in Users, steady'[v] PROVE CodesOf(v)'
  BY <1>3, StepKeepsCodes DEF accounts
<1> QED BY <1>1, <1>2, <1>3 DEF AccountInv

LEMMA EndSteps ==
  ASSUME TypeOK, NEW r \in Requests, started' = started
  PROVE  /\ Ends(r) => Steps(r) /\ call'[r].at # "check" /\ call'[r].at = "idle"
         /\ \A at \in {"check", "grant", "update"} :
              Goes(r, at) /\ call[r].at # "idle" /\ (at = "check" => call[r].at = "org")
              => Steps(r) /\ call'[r].at = at /\ call'[r].n = call[r].n
<1>1. started \in Nat /\ call[r] \in Call
  BY DEF TypeOK, OrgTypeOK, AccountsTypeOK
<1>2. ASSUME Ends(r) PROVE Steps(r) /\ call'[r].at = "idle"
  BY <1>1, <1>2 DEF Ends, Steps, NoCall, TypeOK, AccountsTypeOK
<1>3. ASSUME NEW at \in {"check", "grant", "update"}, Goes(r, at), call[r].at # "idle",
             at = "check" => call[r].at = "org"
      PROVE  Steps(r) /\ call'[r].at = at /\ call'[r].n = call[r].n
  <2>1. call'[r] = [call[r] EXCEPT !.at = at]
    BY <1>3 DEF Goes, TypeOK, AccountsTypeOK
  <2>2. \A q \in Requests \ {r} : call'[q] = call[q]
    BY <1>3 DEF Goes, TypeOK, AccountsTypeOK
  <2>3. /\ call'[r].at = at /\ call'[r].n = call[r].n /\ call'[r].op = call[r].op
        /\ call'[r].user = call[r].user /\ call'[r].second = call[r].second
    BY <1>1, <2>1 DEF Call
  <2> QED BY <1>1, <1>3, <2>2, <2>3 DEF Steps
<1> QED BY <1>2, <1>3

LEMMA SignInKeeps ==
  ASSUME TypeOK, AccountInv, NEW r \in Requests,
         CheckOrg(r) \/ Refuse(r) \/ CheckPassword(r) \/ CheckTotp(r) \/ CompareToken(r) \/ Grant(r)
  PROVE  AccountInv'
<1> DEFINE u == call[r].user
           row == [user[u] EXCEPT !.hash = 0]
           new == [user[u] EXCEPT !.hash = call[r].n]
<1>1. /\ u \in Users /\ user[u] \in UserRow /\ call[r].n \in Nat
      /\ user[u].hash \in Nat /\ user[u].reset \in Nat
  BY CallTypes DEF TypeOK, UserRow
<1>2. started' = started /\ started' \in Nat /\ call[r].at # "idle"
  BY DEF CheckOrg, Refuse, CheckPassword, CheckTotp, CompareToken, Grant, TypeOK, OrgTypeOK
<1>3. CASE CheckOrg(r) \/ Refuse(r) \/ CheckPassword(r) \/ CheckTotp(r)
  <2>1. Steps(r)
    BY <1>2, <1>3, EndSteps DEF CheckOrg, Refuse, CheckPassword, CheckTotp, AfterCheck
  <2> QED BY <1>2, <1>3, <2>1, IdleKeeps DEF CheckOrg, Refuse, CheckPassword, CheckTotp
<1>4. CASE CompareToken(r) /\ Matches(r)
  <2>1. Steps(r)
    BY <1>2, <1>4, EndSteps DEF CompareToken
  <2> QED BY <1>2, <1>4, <2>1, IdleKeeps DEF CompareToken, accounts
<1>5. CASE CompareToken(r) /\ ~Matches(r)
  <2>1. Steps(r)
    BY <1>2, <1>5, EndSteps DEF CompareToken
  <2>2. row \in UserRow /\ row.hash = 0 /\ row.reset = user[u].reset /\ row.active = user[u].active
    BY <1>1 DEF UserRow
  <2>3. WriteRow(r, u, row, {user[u].hash}) /\ UNCHANGED <<second, spent, off, steady>>
    BY <1>5 DEF CompareToken
  <2>4. ASSUME calm[u]
        PROVE  /\ u \in off' => ~row.active
               /\ {row.hash, row.reset} \cap (retired[u] \cup ({user[u].hash} \ {0})) = {}
               /\ row.hash = row.reset => row.hash = 0
               /\ \A n \in {row.hash, row.reset} : Old(n)'
               /\ \A n \in {user[u].hash} : Old(n)
    <3>1. RowOf(u)
      BY <1>1, <2>4 DEF AccountInv
    <3>2. Old(0)
      BY <1>2 DEF Old, AccountInv, Numbered
    <3>3. Old(0)' /\ Old(user[u].reset)
      BY <1>2, <2>1, <3>1, <3>2, StepKeepsNumbers DEF RowOf, AccountInv
    <3>4. \A n \in Nat : Old(n) => Old(n)'
      BY <1>2, <2>1, StepKeepsNumbers DEF AccountInv
    <3>5. \A n \in {row.hash, row.reset} : Old(n)'
      BY <1>1, <2>2, <3>3, <3>4
    <3> QED BY <2>2, <2>3, <3>1, <3>5 DEF RowOf
  <2> HIDE DEF row, u
  <2> QED BY <1>1, <1>2, <2>1, <2>2, <2>3, <2>4, RowWriteKeeps
<1>6. CASE Grant(r)
  <2>1. Steps(r)
    BY <1>2, <1>6, EndSteps DEF Grant
  <2>2. /\ new \in UserRow /\ new.hash = call[r].n /\ new.reset = user[u].reset
        /\ new.active = user[u].active
    BY <1>1 DEF UserRow
  <2>3. WriteRow(r, u, new, {user[u].hash}) /\ UNCHANGED <<second, spent, off, steady>>
    BY <1>6 DEF Grant
  <2>4. ASSUME calm[u]
        PROVE  /\ u \in off' => ~new.active
               /\ {new.hash, new.reset} \cap (retired[u] \cup ({user[u].hash} \ {0})) = {}
               /\ new.hash = new.reset => new.hash = 0
               /\ \A n \in {new.hash, new.reset} : Old(n)'
               /\ \A n \in {user[u].hash} : Old(n)
    <3>1. RowOf(u)
      BY <1>1, <2>4 DEF AccountInv
    <3>2. ~Old(call[r].n)
      BY <1>2 DEF Old
    <3>3. call'[r].at = "idle"
      BY <1>2, <1>6, EndSteps DEF Grant
    <3>4. ASSUME NEW n, n = call[r].n PROVE Old(n)'
      <4>1. n \in 1..started /\ started \in Nat
        BY <1>2, <3>4 DEF AccountInv, Numbered
      <4>2. \A q \in Requests \ {r} : call'[q] = call[q] /\ (call[q].at # "idle" => call[q].n # n)
        BY <1>2, <2>1, <3>4 DEF AccountInv, Numbered, Steps
      <4> QED BY <1>2, <3>3, <4>1, <4>2 DEF Old
    <3>5. \A n \in Nat : Old(n) => Old(n)'
      BY <1>2, <2>1, StepKeepsNumbers DEF AccountInv
    <3>6. \A n \in {new.hash, new.reset} : Old(n)'
      BY <1>1, <2>2, <3>1, <3>4, <3>5 DEF RowOf
    <3>7. new.hash \notin retired[u] \cup {user[u].hash, user[u].reset}
      BY <2>2, <3>1, <3>2 DEF RowOf
    <3> QED BY <2>2, <2>3, <3>1, <3>6, <3>7 DEF RowOf
  <2> HIDE DEF new, u
  <2> QED BY <1>1, <1>2, <2>1, <2>2, <2>3, <2>4, RowWriteKeeps
<1> QED BY <1>3, <1>4, <1>5, <1>6

LEMMA RowKeeps ==
  ASSUME TypeOK, AccountInv, NEW u \in Users, Logout(u) \/ DeleteUser(u)
  PROVE  AccountInv'
<1> DEFINE row == IF Logout(u) THEN [user[u] EXCEPT !.hash = 0]
                  ELSE [user[u] EXCEPT !.active = FALSE, !.hash = 0]
<1>1. started \in Nat /\ started' = started + 1 /\ call' = call
  BY DEF Logout, DeleteUser, Comes, TypeOK, OrgTypeOK
<1>2. Steps(NoRequest)
  BY <1>1, AccountsAssumption DEF Steps
<1>3. user[u] \in UserRow /\ user[u].hash \in Nat /\ user[u].reset \in Nat
  BY DEF TypeOK, AccountsTypeOK, UserRow
<1>4. /\ row \in UserRow /\ row.hash = 0 /\ row.reset = user[u].reset
      /\ row.active => user[u].active
      /\ u \in off' => ~row.active \/ u \in off
  <2>1. CASE Logout(u)
    BY <1>3, <2>1 DEF UserRow, Logout
  <2>2. CASE ~Logout(u)
    BY <1>3, <2>2 DEF UserRow
  <2> QED BY <2>1, <2>2
<1>5. /\ WriteRow(NoRequest, u, row, {user[u].hash}) /\ UNCHANGED <<second, spent, steady>>
      /\ \A v \in Users \ {u} : v \in off' => v \in off
  BY DEF Logout, DeleteUser
<1>6. ASSUME calm[u]
      PROVE  /\ u \in off' => ~row.active
             /\ {row.hash, row.reset} \cap (retired[u] \cup ({user[u].hash} \ {0})) = {}
             /\ row.hash = row.reset => row.hash = 0
             /\ \A n \in {row.hash, row.reset} : Old(n)'
             /\ \A n \in {user[u].hash} : Old(n)
  <2>1. RowOf(u)
    BY <1>6 DEF AccountInv
  <2>2. Old(0)
    BY <1>1 DEF Old, AccountInv, Numbered
  <2>3. \A n \in Nat : Old(n) => Old(n)'
    BY <1>1, <1>2, StepKeepsNumbers DEF AccountInv
  <2>4. \A n \in {row.hash, row.reset} : Old(n)'
    BY <1>3, <1>4, <2>1, <2>2, <2>3 DEF RowOf
  <2> QED BY <1>4, <1>5, <2>1, <2>4 DEF RowOf
<1> HIDE DEF row
<1> QED BY <1>1, <1>2, <1>3, <1>4, <1>5, <1>6, RowWriteKeeps

LEMMA UpdateKeeps ==
  ASSUME TypeOK, AccountInv, NEW r \in Requests, UpdateUser(r)
  PROVE  AccountInv'
<1> DEFINE u == call[r].user
           active == call[r].op = "activate"
           row == [user[u] EXCEPT !.active = active, !.hash = 0]
<1>1. /\ u \in Users /\ user[u] \in UserRow /\ user[u].hash \in Nat /\ user[u].reset \in Nat
      /\ started' = started /\ started \in Nat
  BY CallTypes DEF TypeOK, OrgTypeOK, UserRow, UpdateUser
<1>2. Steps(r)
  BY <1>1, EndSteps DEF UpdateUser
<1>3. row \in UserRow /\ row.hash = 0 /\ row.reset = user[u].reset /\ row.active = active
  BY <1>1 DEF UserRow
<1>4. /\ WriteRow(r, u, row, {user[u].hash}) /\ UNCHANGED <<second, spent, steady>>
      /\ off' = IF active THEN off \ {u} ELSE off \cup {u}
  BY DEF UpdateUser
<1>5. ASSUME calm[u]
      PROVE  /\ u \in off' => ~row.active
             /\ {row.hash, row.reset} \cap (retired[u] \cup ({user[u].hash} \ {0})) = {}
             /\ row.hash = row.reset => row.hash = 0
             /\ \A n \in {row.hash, row.reset} : Old(n)'
             /\ \A n \in {user[u].hash} : Old(n)
  <2>1. RowOf(u)
    BY <1>1, <1>5 DEF AccountInv
  <2>2. Old(0)
    BY <1>1 DEF Old, AccountInv, Numbered
  <2>3. \A n \in Nat : Old(n) => Old(n)'
    BY <1>1, <1>2, StepKeepsNumbers DEF AccountInv
  <2>4. \A n \in {row.hash, row.reset} : Old(n)'
    BY <1>1, <1>3, <2>1, <2>2, <2>3 DEF RowOf
  <2> QED BY <1>3, <1>4, <2>1, <2>4 DEF RowOf
<1>6. \A v \in Users \ {u} : v \in off' => v \in off
  BY <1>4
<1> HIDE DEF row, u, active
<1> QED BY <1>1, <1>2, <1>3, <1>4, <1>5, <1>6, RowWriteKeeps

LEMMA SaveKeeps ==
  ASSUME TypeOK, AccountInv, NEW r \in Requests, SaveUser(r)
  PROVE  AccountInv'
<1> DEFINE u == call[r].user
           row == ResetRow(call[r])
           gone == {user[u].reset} \cup IF call[r].op = "confirm" THEN {user[u].hash} ELSE {}
<1>1. /\ u \in Users /\ user[u] \in UserRow /\ user[u].hash \in Nat /\ user[u].reset \in Nat
      /\ call[r].n \in Nat /\ call[r].row \in UserRow
      /\ started' = started /\ started \in Nat /\ clock + 1 \in Nat
      /\ call[r].at = "save"
  BY CallTypes DEF TypeOK, OrgTypeOK, UserRow, SaveUser
<1>2. Steps(r) /\ call'[r].at = "idle"
  BY <1>1, EndSteps DEF SaveUser
<1>3. /\ row \in UserRow /\ row.active = call[r].row.active
      /\ \/ call[r].op = "reset" /\ row.reset = call[r].n /\ row.hash = call[r].row.hash
         \/ row.reset = 0 /\ row.hash = 0
  BY <1>1 DEF ResetRow, UserRow
<1>4. /\ WriteRow(r, u, row, gone) /\ UNCHANGED <<second, spent, off, steady>>
  BY DEF SaveUser
<1>5. gone \in SUBSET Nat /\ gone \subseteq {user[u].hash, user[u].reset}
      /\ (call[r].op = "reset" => gone = {user[u].reset})
  BY <1>1
<1>6. ASSUME calm[u]
      PROVE  /\ u \in off' => ~row.active
             /\ {row.hash, row.reset} \cap (retired[u] \cup (gone \ {0})) = {}
             /\ row.hash = row.reset => row.hash = 0
             /\ \A n \in {row.hash, row.reset} : Old(n)'
             /\ \A n \in gone : Old(n)
  <2>1. RowOf(u)
    BY <1>1, <1>6 DEF AccountInv
  <2>2. call[r].row = user[u]
    BY <1>1, <2>1 DEF RowOf, Saving
  <2>3. Old(0) /\ ~Old(call[r].n)
    BY <1>1 DEF Old, AccountInv, Numbered
  <2>4. \A n \in Nat : Old(n) => Old(n)'
    BY <1>1, <1>2, StepKeepsNumbers DEF AccountInv
  <2>5. ASSUME NEW n, n = call[r].n PROVE Old(n)'
    <3>1. n \in 1..started
      BY <1>1, <2>5 DEF AccountInv, Numbered
    <3>2. \A q \in Requests \ {r} : call'[q] = call[q] /\ (call[q].at # "idle" => call[q].n # n)
      BY <1>1, <1>2, <2>5 DEF AccountInv, Numbered, Steps
    <3> QED BY <1>1, <1>2, <3>1, <3>2 DEF Old
  <2>6. \A n \in {row.hash, row.reset} : Old(n)'
    BY <1>1, <1>3, <2>1, <2>2, <2>3, <2>4, <2>5 DEF RowOf
  <2>7. call[r].n \notin retired[u] \cup {user[u].hash, user[u].reset}
    BY <2>1, <2>3 DEF RowOf
  <2>8. {row.hash, row.reset} \cap (retired[u] \cup (gone \ {0})) = {}
    BY <1>3, <1>5, <2>1, <2>2, <2>7 DEF RowOf
  <2>9. row.hash = row.reset => row.hash = 0
    BY <1>3, <2>2, <2>7
  <2>10. (u \in off' => ~row.active) /\ \A n \in gone : Old(n)
    BY <1>3, <1>4, <1>5, <2>1, <2>2 DEF RowOf
  <2> QED BY <2>6, <2>8, <2>9, <2>10
<1> HIDE DEF row, u, gone
<1> QED BY <1>1, <1>2, <1>3, <1>4, <1>5, <1>6, RowWriteKeeps

LEMMA CodeKeeps ==
  ASSUME TypeOK, AccountInv, NEW r \in Requests, NEW code \in call[r].second.codes,
         UseRecoveryCode(r, code)
  PROVE  AccountInv'
<1> DEFINE u == call[r].user
           row == [second[u] EXCEPT !.codes = LeftCodes(call[r], code)]
<1>1. /\ u \in Users /\ second[u] \in SecondFactor /\ call[r].second \in SecondFactor
      /\ code \in Nat \X Codes /\ code[1] \in Nat
      /\ started' = started /\ started \in Nat /\ call[r].at = "check"
      /\ call[r].op \in {"verify", "disable", "regenerate"}
  BY CallTypes DEF TypeOK, OrgTypeOK, SecondFactor, UseRecoveryCode
<1>2. Steps(r) /\ call'[r].at # "check"
  BY <1>1, EndSteps DEF UseRecoveryCode, AfterCheck
<1>3. row \in SecondFactor /\ row.codes = call[r].second.codes \ {code}
  BY <1>1 DEF SecondFactor, LeftCodes
<1>4. /\ WriteSecond(r, u, row) /\ UNCHANGED <<user, retired, off, calm>>
      /\ spent'[u] = spent[u] \cup {code}
      /\ \A v \in Users \ {u} : spent'[v] = spent[v]
  BY <1>1 DEF UseRecoveryCode, TypeOK, AccountsTypeOK
<1>5. ASSUME steady[u]
      PROVE  /\ row.codes \cap spent'[u] = {}
             /\ \A c \in row.codes : Old(c[1])'
             /\ \A c \in spent'[u] : Old(c[1])'
  <2>1. CodesOf(u) /\ call[r].second = second[u]
    BY <1>1, <1>5 DEF AccountInv, CodesOf
  <2>2. \A n \in Nat : Old(n) => Old(n)'
    BY <1>1, <1>2, StepKeepsNumbers DEF AccountInv
  <2>3. ASSUME NEW c \in second[u].codes \cup spent[u] PROVE Old(c[1])'
    <3>1. c[1] \in Nat
      BY <1>1 DEF SecondFactor, TypeOK, AccountsTypeOK
    <3>2. Old(c[1])
      BY <2>1 DEF CodesOf
    <3> QED BY <2>2, <3>1, <3>2
  <2>4. row.codes \cap spent'[u] = {}
    BY <1>3, <1>4, <2>1 DEF CodesOf
  <2>5. row.codes \subseteq second[u].codes /\ spent'[u] \subseteq second[u].codes \cup spent[u]
    BY <1>3, <1>4, <2>1
  <2>6. (\A c \in row.codes : Old(c[1])') /\ \A c \in spent'[u] : Old(c[1])'
    BY <2>3, <2>5
  <2> QED BY <2>4, <2>6
<1> HIDE DEF row, u
<1>6. call[r].user = u
  BY DEF u
<1> QED BY <1>1, <1>2, <1>3, <1>4, <1>5, <1>6, SecondWriteKeeps

LEMMA SecondKeeps ==
  ASSUME TypeOK, AccountInv, NEW r \in Requests, UpdateSecond(r)
  PROVE  AccountInv'
<1> DEFINE u == call[r].user
           row == NewSecond(call[r], second[u])
<1>1. /\ u \in Users /\ second[u] \in SecondFactor /\ call[r].n \in Nat
      /\ started' = started /\ started \in Nat /\ call[r].at = "update"
  BY CallTypes DEF TypeOK, OrgTypeOK, UpdateSecond
<1>2. Steps(r) /\ call'[r].at = "idle" /\ call'[r].at # "check"
  BY <1>1, EndSteps DEF UpdateSecond
<1>3. /\ row \in SecondFactor
      /\ \A c \in row.codes : c \in second[u].codes \/ c[1] = call[r].n
  BY <1>1, Defaults DEF NewSecond, SecondFactor, CodeSet, NoSecond, UpdateSecond
<1>4. /\ WriteSecond(r, u, row) /\ UNCHANGED <<user, retired, off, calm, spent>>
  BY DEF UpdateSecond
<1>5. ASSUME steady[u]
      PROVE  /\ row.codes \cap spent'[u] = {}
             /\ \A c \in row.codes : Old(c[1])'
             /\ \A c \in spent'[u] : Old(c[1])'
  <2>1. CodesOf(u)
    BY <1>1, <1>5 DEF AccountInv
  <2>2. \A n \in Nat : Old(n) => Old(n)'
    BY <1>1, <1>2, StepKeepsNumbers DEF AccountInv
  <2>3. ASSUME NEW c \in second[u].codes \cup spent[u] PROVE Old(c[1])'
    <3>1. c[1] \in Nat
      BY <1>1 DEF SecondFactor, TypeOK, AccountsTypeOK
    <3>2. Old(c[1])
      BY <2>1 DEF CodesOf
    <3> QED BY <2>2, <3>1, <3>2
  <2>4. ASSUME NEW n, n = call[r].n PROVE Old(n)'
    <3>1. n \in 1..started
      BY <1>1, <2>4 DEF AccountInv, Numbered
    <3>2. \A q \in Requests \ {r} : call'[q] = call[q] /\ (call[q].at # "idle" => call[q].n # n)
      BY <1>1, <1>2, <2>4 DEF AccountInv, Numbered, Steps
    <3> QED BY <1>1, <1>2, <3>1, <3>2 DEF Old
  <2>5. \A c \in row.codes : Old(c[1])'
    BY <1>3, <2>3, <2>4
  <2>6. ~Old(call[r].n)
    BY <1>1 DEF Old
  <2>7. row.codes \cap spent[u] = {}
    BY <1>3, <2>1, <2>6 DEF CodesOf
  <2> QED BY <1>4, <2>3, <2>5, <2>7
<1> HIDE DEF row, u
<1>6. call[r].user = u
  BY DEF u
<1> QED BY <1>1, <1>2, <1>3, <1>4, <1>5, <1>6, SecondWriteKeeps

LEMMA AccountKeeps == TypeOK /\ AccountInv /\ AccountsNext => AccountInv'
<1> SUFFICES ASSUME TypeOK, AccountInv, AccountsNext PROVE AccountInv'
  OBVIOUS
<1>1. ASSUME NEW r \in Requests, NEW u \in Users,
             \/ Login(r, u) \/ Refresh(r, u) \/ VerifyLogin(r, u)
             \/ RequestReset(r, u) \/ ConfirmReset(r, u)
      PROVE  AccountInv'
  BY <1>1, ArriveKeeps DEF Login, Refresh, VerifyLogin, RequestReset, ConfirmReset, Ops
<1>2. ASSUME NEW r \in Requests, NEW u \in Users, NEW active \in BOOLEAN, ChangeUser(r, u, active)
      PROVE  AccountInv'
  <2>1. (IF active THEN "activate" ELSE "deactivate") \in Ops
    BY DEF Ops
  <2> QED BY <1>2, <2>1, ArriveKeeps DEF ChangeUser
<1>3. ASSUME NEW r \in Requests, NEW u \in Users, NEW op \in Ops, BeginSecond(r, u, op)
      PROVE  AccountInv'
  BY <1>3, ArriveKeeps DEF BeginSecond
<1> QED BY <1>1, <1>2, <1>3, SignInKeeps, RowKeeps, UpdateKeeps, SaveKeeps, CodeKeeps, SecondKeeps
        DEF AccountsNext, Request

LEMMA OrgStarted == OrgNext => started' \in {started, started + 1}
<1>1. ASSUME NEW r \in OrgRequests, OrgRequest(r) PROVE started' \in {started, started + 1}
  BY <1>1 DEF OrgRequest, ChangeStatus, UpgradePlan, Retention, SendVerification, VerifyEmail, Hold,
     SaveOrg, InsertEvent, LoseEvent, Comes
<1> QED BY <1>1 DEF OrgNext, SetPlan, ChangeEmail, Update, Comes

LEMMA SessionsStarted == SessionsNext => started' \in {started, started + 1}
<1>1. ASSUME NEW r \in Operators, Operator(r) PROVE started' \in {started, started + 1}
  BY <1>1 DEF Operator, AskUpsert, AskOverride, AskRemove, AskStart, AskEnd, Use, Visits, SaveFlag,
     SaveOverride, DeleteOverrides, RemoveFlag, OpenSession, EndSession, Admit, Reject, Expire, Comes
<1> QED BY <1>1 DEF SessionsNext, ClearOverride, Comes

LEMMA AccountsStarted == AccountsNext => clock' = clock /\ started' \in {started, started + 1}
<1>1. ASSUME NEW r \in Requests, Request(r)
      PROVE  clock' = clock /\ started' \in {started, started + 1}
  BY <1>1 DEF Request, Login, Refresh, VerifyLogin, RequestReset, ConfirmReset, ChangeUser, BeginSecond,
     Arrive, CheckOrg, Refuse, CheckPassword, CompareToken, Grant, UpdateUser, SaveUser, CheckTotp,
     UpdateSecond, UseRecoveryCode, Comes
<1> QED BY <1>1 DEF AccountsNext, Logout, DeleteUser, Comes

\* Requests about organizations and sessions leave the accounts alone.
LEMMA AccountInvariant == Spec => []AccountInv
<1>1. ASSUME TypeOK, TypeOK', AccountInv, [Next]_vars PROVE AccountInv'
  <2>1. CASE AccountsNext
    BY <1>1, <2>1, AccountKeeps
  <2>2. CASE ~AccountsNext
    <3>1. UNCHANGED accountVars /\ started' >= started
      <4>1. started \in Nat
        BY <1>1 DEF TypeOK, OrgTypeOK
      <4>2. CASE OrgNext /\ UNCHANGED <<accountVars, sessionVars>>
        BY <4>1, <4>2, OrgStarted
      <4>3. CASE SessionsNext /\ UNCHANGED <<orgVars, accountVars>>
        BY <4>1, <4>3, SessionsStarted
      <4> QED BY <1>1, <2>2, <4>1, <4>2, <4>3 DEF Next, vars
    <3>2. Steps(NoRequest)
      BY <3>1, AccountsAssumption DEF Steps, accountVars
    <3>3. UNCHANGED accounts
      BY <3>1 DEF accountVars, accounts
    <3>4. started' \in Nat
      BY <1>1 DEF TypeOK, OrgTypeOK
    <3> QED BY <1>1, <3>2, <3>3, <3>4, IdleKeeps
  <2> QED BY <2>1, <2>2
<1> QED BY <1>1, AccountInit, TypeCorrect, PTL DEF Spec

\* A deactivation holds through every sign-in, refresh and reset that was under way,
\* unless a row was written while a password reset held a copy of it.
THEOREM DeactivationsHold == Spec => []DeactivationHolds
<1>1. TypeOK /\ AccountInv => DeactivationHolds
  BY DEF TypeOK, AccountsTypeOK, AccountInv, RowOf, DeactivationHolds
<1> QED BY <1>1, TypeCorrect, AccountInvariant, PTL

\* A refresh token that was replaced or revoked and a reset link that was redeemed or
\* replaced are not what the row holds again, under the same condition.
THEOREM TokensStayRetired == Spec => []RetiredStaysRetired
<1>1. AccountInv => RetiredStaysRetired
  BY DEF AccountInv, RowOf, RetiredStaysRetired
<1> QED BY <1>1, AccountInvariant, PTL

\* A recovery code that was accepted is not in the stored list again, unless the second
\* factor was written while another request used a copy of it.
THEOREM CodesWorkOnce == Spec => []CodesAreSpent
<1>1. AccountInv => CodesAreSpent
  BY DEF AccountInv, CodesOf, CodesAreSpent
<1> QED BY <1>1, AccountInvariant, PTL

-----------------------------------------------------------------------------
(* Feature flags: where no save of an override crossed a removal, a flag that is *)
(* gone or about to go has no overrides.                                         *)

FlagInv ==
    /\ \A r \in Operators : visit[r].at = "flag" => visit[r].op = "remove"
    /\ \A r \in Operators :
         visit[r].at = "save" /\ visit[r].op = "upsert" => visit[r].value # "missing"
    /\ ~raced =>
         /\ flag = "missing" \/ (\E r \in Operators : visit[r].at = "flag")
            => \A o \in Orgs : override[o] = "missing"
         /\ flag = "missing" => ~Overriding

\* A request comes in, or moves on; neither touches the tables.
LEMMA VisitKeepsFlags ==
  ASSUME TypeOK, FlagInv, NEW r \in Operators, NEW new \in Visit,
         visit' = [visit EXCEPT ![r] = new], UNCHANGED <<flag, override, raced>>,
         new.at \in {"idle", "read", "save", "expire"},
         new.at # "idle" /\ new.op = "override" => flag # "missing",
         new.at = "save" /\ new.op = "upsert" => new.value # "missing"
  PROVE  FlagInv'
<1>1. visit'[r] = new /\ \A q \in Operators \ {r} : visit'[q] = visit[q]
  BY DEF TypeOK
<1>2. (\E q \in Operators : visit'[q].at = "flag") => \E q \in Operators : visit[q].at = "flag"
  BY <1>1
<1>3. flag = "missing" /\ Overriding' => Overriding
  BY <1>1 DEF Overriding
<1>4. \A q \in Operators :
        /\ visit'[q].at = "flag" => visit'[q].op = "remove"
        /\ visit'[q].at = "save" /\ visit'[q].op = "upsert" => visit'[q].value # "missing"
  BY <1>1 DEF FlagInv
<1> QED BY <1>2, <1>3, <1>4 DEF FlagInv

LEMMA AskKeepsFlags ==
  ASSUME TypeOK, FlagInv, NEW r \in Operators, NEW new \in Visit, Visits(r, new),
         new.at \in {"idle", "read", "save", "expire"},
         new.at # "idle" /\ new.op = "override" => flag # "missing",
         new.at = "save" /\ new.op = "upsert" => new.value # "missing"
  PROVE  FlagInv'
<1> DEFINE it == [new EXCEPT !.n = started + 1]
<1>1. it \in Visit /\ it.at = new.at /\ it.op = new.op /\ it.value = new.value
  BY DEF Visit, TypeOK, OrgTypeOK
<1>2. visit' = [visit EXCEPT ![r] = it] /\ UNCHANGED <<flag, override, raced>>
  BY DEF Visits
<1> HIDE DEF it
<1> QED BY <1>1, <1>2, VisitKeepsFlags

LEMMA AsksKeepFlags ==
  ASSUME TypeOK, FlagInv, NEW r \in Operators,
         \/ \E v \in {"off", "on"} : AskUpsert(r, v) \/ \E o \in Orgs : AskOverride(r, o, v)
         \/ AskRemove(r)
         \/ \E u \in Users : AskStart(r, u)
         \/ \E s \in Sessions : AskEnd(r, s) \/ Use(r, s)
  PROVE  FlagInv'
<1>1. ASSUME NEW v \in {"off", "on"}, AskUpsert(r, v) PROVE FlagInv'
  <2> DEFINE f == flag # "missing"
             new == [NoVisit EXCEPT !.op = "upsert", !.at = "save", !.value = v, !.found = f]
  <2>0. f \in BOOLEAN /\ Visits(r, new)
    BY <1>1 DEF AskUpsert
  <2> HIDE DEF f
  <2>1. new \in Visit /\ new.at = "save" /\ new.op = "upsert" /\ new.value = v
    BY <2>0, Defaults DEF Visit, FlagValues
  <2> HIDE DEF new
  <2> QED BY <2>0, <2>1, AskKeepsFlags
<1>2. ASSUME NEW v \in {"off", "on"}, NEW o \in Orgs, AskOverride(r, o, v) PROVE FlagInv'
  <2> DEFINE f == override[o] # "missing"
             new == [NoVisit EXCEPT !.op = "override", !.at = "save", !.org = o, !.value = v,
                                    !.found = f]
  <2>0. f \in BOOLEAN /\ Visits(r, new) /\ flag # "missing"
    BY <1>2 DEF AskOverride
  <2> HIDE DEF f
  <2>1. new \in Visit /\ new.at = "save" /\ new.op = "override"
    BY <2>0, Defaults DEF Visit, FlagValues
  <2> HIDE DEF new
  <2> QED BY <2>0, <2>1, AskKeepsFlags
<1>3. ASSUME AskRemove(r) PROVE FlagInv'
  <2> DEFINE new == [NoVisit EXCEPT !.op = "remove", !.at = "save"]
  <2>1. new \in Visit /\ new.at = "save" /\ new.op = "remove"
    BY Defaults DEF Visit
  <2>2. Visits(r, new)
    BY <1>3 DEF AskRemove
  <2> HIDE DEF new
  <2> QED BY <2>1, <2>2, AskKeepsFlags
<1>4. ASSUME NEW u \in Users, AskStart(r, u) PROVE FlagInv'
  <2> DEFINE new == [NoVisit EXCEPT !.op = "start", !.at = "save", !.user = u]
  <2>1. new \in Visit /\ new.at = "save" /\ new.op = "start"
    BY Defaults DEF Visit
  <2>2. Visits(r, new)
    BY <1>4 DEF AskStart
  <2> HIDE DEF new
  <2> QED BY <2>1, <2>2, AskKeepsFlags
<1>5. ASSUME NEW s \in Sessions, AskEnd(r, s) PROVE FlagInv'
  <2> DEFINE new == [NoVisit EXCEPT !.op = "end", !.at = "save", !.session = s]
  <2>0. s \in Nat
    BY OrganizationsAssumption DEF Sessions
  <2>1. new \in Visit /\ new.at = "save" /\ new.op = "end"
    BY <2>0, Defaults DEF Visit
  <2>2. Visits(r, new)
    BY <1>5 DEF AskEnd
  <2> HIDE DEF new
  <2> QED BY <2>1, <2>2, AskKeepsFlags
<1>6. ASSUME NEW s \in Sessions, Use(r, s) PROVE FlagInv'
  <2> DEFINE f == Over(s)
             new == [NoVisit EXCEPT !.op = "use", !.at = "read", !.session = s, !.over = f]
  <2>0. s \in Nat /\ f \in BOOLEAN
    BY OrganizationsAssumption DEF Sessions, Over
  <2>2. Visits(r, new)
    BY <1>6 DEF Use
  <2> HIDE DEF f
  <2>1. new \in Visit /\ new.at = "read" /\ new.op = "use"
    BY <2>0, Defaults DEF Visit
  <2> HIDE DEF new
  <2> QED BY <2>1, <2>2, AskKeepsFlags
<1> QED BY <1>1, <1>2, <1>3, <1>4, <1>5, <1>6

LEMMA WorkKeepsFlags ==
  ASSUME TypeOK, FlagInv, NEW r \in Operators,
         \/ SaveFlag(r) \/ SaveOverride(r) \/ DeleteOverrides(r) \/ RemoveFlag(r)
         \/ OpenSession(r) \/ EndSession(r) \/ Admit(r) \/ Reject(r) \/ Expire(r)
  PROVE  FlagInv'
<1>1. /\ visit[r] \in Visit /\ visit \in [Operators -> Visit]
      /\ NoVisit \in Visit /\ NoVisit.at = "idle"
  BY Defaults DEF TypeOK, NoVisit
<1>2. Leaves(r) => /\ visit'[r] = NoVisit
                   /\ \A q \in Operators \ {r} : visit'[q] = visit[q]
  BY <1>1 DEF Leaves
<1>3. CASE OpenSession(r) \/ EndSession(r) \/ Admit(r) \/ Expire(r)
  <2>1. visit' = [visit EXCEPT ![r] = NoVisit] /\ UNCHANGED <<flag, override, raced>>
    BY <1>3 DEF OpenSession, EndSession, Admit, Expire, Leaves
  <2> QED BY <1>1, <2>1, VisitKeepsFlags
<1>4. CASE Reject(r)
  <2> DEFINE new == [visit[r] EXCEPT !.at = "expire"]
  <2>1. /\ new \in Visit /\ new.at = "expire" /\ new.op = visit[r].op
    BY <1>1 DEF Visit
  <2>2. UNCHANGED <<flag, override, raced>> /\ visit[r].at = "read"
    BY <1>4 DEF Reject
  <2>3. visit' = [visit EXCEPT ![r] = new] \/ visit' = [visit EXCEPT ![r] = NoVisit]
    BY <1>4 DEF Reject, VisitGoes, Leaves
  <2> HIDE DEF new
  <2>4. /\ \A q \in Operators \ {r} : visit'[q] = visit[q]
        /\ visit'[r].at \in {"expire", "idle"}
        /\ visit'[r].at = "expire" => visit'[r].op = visit[r].op
    BY <1>1, <2>1, <2>3
  <2>5. \A q \in Operators :
          /\ visit'[q].at = "flag" => visit'[q].op = "remove"
          /\ visit'[q].at = "save" /\ visit'[q].op = "upsert" => visit'[q].value # "missing"
    BY <2>4 DEF FlagInv
  <2>6. (\E q \in Operators : visit'[q].at = "flag") => \E q \in Operators : visit[q].at = "flag"
    BY <2>4
  <2>7. Overriding' => Overriding
    BY <2>2, <2>4 DEF Overriding
  <2> QED BY <2>2, <2>5, <2>6, <2>7 DEF FlagInv
<1>5. ASSUME Leaves(r)
      PROVE  /\ \A q \in Operators :
                  /\ visit'[q].at = "flag" => visit'[q].op = "remove"
                  /\ visit'[q].at = "save" /\ visit'[q].op = "upsert" => visit'[q].value # "missing"
             /\ (\E q \in Operators : visit'[q].at = "flag")
                => \E q \in Operators : visit[q].at = "flag"
             /\ Overriding' => Overriding
  BY <1>1, <1>2, <1>5 DEF FlagInv, Overriding
<1>6. CASE SaveFlag(r)
  <2>1. Leaves(r) /\ UNCHANGED <<override, raced>> /\ visit[r].value # "missing"
    BY <1>6 DEF SaveFlag, FlagInv
  <2>2. flag' # "missing"
    BY <1>6, <2>1 DEF SaveFlag
  <2> QED BY <1>5, <2>1, <2>2 DEF FlagInv
<1>7. CASE SaveOverride(r)
  <2>1. Leaves(r) /\ flag' = flag /\ raced' = (raced \/ Removing) /\ Overriding
    BY <1>7 DEF SaveOverride, Overriding
  <2>2. CASE ~raced'
    <3>1. ~raced /\ ~Removing
      BY <2>1, <2>2
    <3>2. flag # "missing"
      BY <2>1, <3>1 DEF FlagInv
    <3>3. \A q \in Operators : visit[q].at # "flag"
      BY <3>1 DEF FlagInv, Removing
    <3> QED BY <1>5, <2>1, <3>2, <3>3 DEF FlagInv
  <2>3. CASE raced'
    BY <1>5, <2>1, <2>3 DEF FlagInv
  <2> QED BY <2>2, <2>3
<1>8. CASE DeleteOverrides(r)
  <2> DEFINE new == [visit[r] EXCEPT !.at = "flag"]
  <2>1. new.at = "flag" /\ new.op = visit[r].op
    BY <1>1 DEF Visit
  <2>2. /\ visit[r].op = "remove" /\ visit' = [visit EXCEPT ![r] = new]
        /\ UNCHANGED <<flag, raced>> /\ \A o \in Orgs : override'[o] = "missing"
    BY <1>8 DEF DeleteOverrides, VisitGoes, NoOverrides
  <2> HIDE DEF new
  <2>3. visit'[r] = new /\ \A q \in Operators \ {r} : visit'[q] = visit[q]
    BY <1>1, <2>2
  <2>4. Overriding' => Overriding
    BY <2>1, <2>2, <2>3 DEF Overriding
  <2> QED BY <2>1, <2>2, <2>3, <2>4 DEF FlagInv
<1>9. CASE RemoveFlag(r)
  <2>1. /\ Leaves(r) /\ flag' = "missing" /\ override' = override /\ raced' = (raced \/ Overriding)
        /\ \E q \in Operators : visit[q].at = "flag"
    BY <1>9 DEF RemoveFlag
  <2> QED BY <1>5, <2>1 DEF FlagInv
<1> QED BY <1>3, <1>4, <1>6, <1>7, <1>8, <1>9

\* A flag that is created again starts without overrides, unless one was being saved
\* while the flag was removed.
THEOREM FlagsStartClean == Spec => []CleanSlate
<1>1. Init => FlagInv
  <2> SUFFICES ASSUME Init PROVE FlagInv
    OBVIOUS
  <2>1. \A r \in Operators : visit[r].at = "idle"
    BY DEF Init, SessionsInit, NoVisit
  <2>2. \A o \in Orgs : override[o] = "missing"
    BY DEF Init, SessionsInit
  <2> QED BY <2>1, <2>2 DEF FlagInv, Overriding
<1>2. ASSUME TypeOK, FlagInv, [Next]_vars PROVE FlagInv'
  <2>1. CASE UNCHANGED <<visit, flag, override, raced>>
    BY <1>2, <2>1 DEF FlagInv, Overriding
  <2>2. ASSUME NEW r \in Operators, Operator(r) PROVE FlagInv'
    BY <1>2, <2>2, AsksKeepFlags, WorkKeepsFlags DEF Operator
  <2>3. ASSUME NEW o \in Orgs, ClearOverride(o) PROVE FlagInv'
    <3>1. /\ UNCHANGED <<visit, flag, raced>>
          /\ \A p \in Orgs : override[p] = "missing" => override'[p] = "missing"
      BY <1>2, <2>3 DEF ClearOverride, TypeOK
    <3> QED BY <1>2, <3>1 DEF FlagInv, Overriding
  <2> QED BY <1>2, <2>1, <2>2, <2>3 DEF Next, vars, sessionVars, SessionsNext
<1>3. FlagInv => CleanSlate
  BY DEF FlagInv, CleanSlate
<1> QED BY <1>1, <1>2, <1>3, TypeCorrect, PTL DEF Spec

-----------------------------------------------------------------------------
(* Impersonation: a session that is over stays over.                             *)

\* The session of a request to end or to use one.
About(r) == visit[r].at # "idle" /\ visit[r].op \in {"use", "end"}

Starting(r) == visit[r].at # "idle" /\ visit[r].op = "start"

SessionInv ==
    /\ \A s \in closed : s \in Sessions /\ session[s].status \in {"ended", "expired"}
    /\ \A s \in Sessions : s > started => session[s].status = "none"
    /\ \A r \in Operators : visit[r].at \in {"read", "expire"} => visit[r].op = "use"
    /\ \A r \in Operators : About(r) =>
         /\ visit[r].session \in Sessions
         /\ session[visit[r].session].status # "none"
         /\ visit[r].op = "use" /\ visit[r].over => Over(visit[r].session)
    /\ \A r \in Operators : Starting(r) =>
         /\ visit[r].n \in Sessions /\ visit[r].n <= started
         /\ session[visit[r].n].status = "none"
    /\ \A r, q \in Operators : r # q /\ Starting(r) /\ Starting(q) => visit[r].n # visit[q].n
    /\ RevokedIsRefused

\* Requests about organizations and accounts, flags, and time.
LEMMA ElsewhereKeeps ==
  ASSUME TypeOK, SessionInv, UNCHANGED <<visit, session, admitted, closed>>,
         started' \in Nat, started' >= started, clock' \in Nat, clock' >= clock
  PROVE  SessionInv'
<1>1. started \in Nat /\ clock \in Nat
  BY DEF TypeOK, OrgTypeOK
<1>2. ASSUME NEW s \in Sessions, Over(s) PROVE Over(s)'
  <2>1. session[s].expires \in Nat
    BY DEF TypeOK, SessionRow
  <2> QED BY <1>1, <1>2, <2>1 DEF Over
<1>3. \A s \in Sessions : s > started' => session[s].status = "none"
  BY <1>1, OrganizationsAssumption DEF SessionInv, Sessions
<1>4. ASSUME NEW r \in Operators, About(r)'
      PROVE  /\ visit'[r].session \in Sessions
             /\ session'[visit'[r].session].status # "none"
             /\ visit'[r].op = "use" /\ visit'[r].over => Over(visit[r].session)'
  <2>1. About(r)
    BY <1>4 DEF About
  <2>2. \A s \in Sessions : s = visit[r].session /\ Over(s) => Over(s)'
    BY <1>2
  <2>3. visit[r].session \in Sessions /\ visit'[r] = visit[r]
    BY <2>1 DEF SessionInv
  <2>4. Over(visit[r].session) => Over(visit[r].session)'
    <3> DEFINE s == visit[r].session
    <3>1. session[s].expires \in Nat
      BY <2>3 DEF TypeOK, SessionRow
    <3> QED BY <1>1, <3>1 DEF Over
  <2> QED BY <2>1, <2>3, <2>4 DEF SessionInv
<1>5. ASSUME NEW r \in Operators, Starting(r)'
      PROVE  /\ visit'[r].n \in Sessions /\ visit'[r].n <= started'
             /\ session'[visit'[r].n].status = "none"
  <2>1. Starting(r) /\ visit'[r].n = visit[r].n
    BY <1>5 DEF Starting
  <2>2. visit[r].n \in Sessions /\ visit[r].n <= started /\ session[visit[r].n].status = "none"
    BY <2>1 DEF SessionInv
  <2> QED BY <1>1, <2>1, <2>2 DEF Sessions
<1>6. /\ \A s \in closed' : s \in Sessions /\ session'[s].status \in {"ended", "expired"}
      /\ \A r \in Operators : visit'[r].at \in {"read", "expire"} => visit'[r].op = "use"
      /\ \A r, q \in Operators : r # q /\ Starting(r)' /\ Starting(q)' => visit'[r].n # visit'[q].n
      /\ RevokedIsRefused'
  BY DEF SessionInv, Starting, RevokedIsRefused
<1> QED BY <1>3, <1>4, <1>5, <1>6 DEF SessionInv

\* A request leaves, or goes on to mark its session as expired.
VisitMoves(r) ==
    /\ \A q \in Operators \ {r} : visit'[q] = visit[q]
    /\ \/ visit'[r].at = "idle"
       \/ /\ visit[r].at = "read" /\ visit'[r].at = "expire"
          /\ visit'[r].op = visit[r].op /\ visit'[r].session = visit[r].session
          /\ visit'[r].over = visit[r].over

\* The sessions of others are not touched, and one that is over stays over.
SessionsMove(r) ==
    /\ \A s \in Sessions :
         \/ session'[s] = session[s]
         \/ /\ session'[s].status \in {"ended", "expired"} /\ session[s].status # "none"
            /\ session'[s].expires = session[s].expires
         \/ Starting(r) /\ s = visit[r].n /\ session'[s].status = "active"
    /\ \A s \in closed' : s \in closed \/ (s \in Sessions /\ session'[s].status = "ended")
    /\ closed \subseteq closed'

LEMMA StepKeepsSessions ==
  ASSUME TypeOK, SessionInv, NEW r \in Operators, clock' = clock, started' = started,
         VisitMoves(r), SessionsMove(r), RevokedIsRefused'
  PROVE  SessionInv'
<1> USE DEF VisitMoves, SessionsMove
<1>1. \A q \in Operators : visit'[q].at # "idle" =>
        /\ visit[q].at # "idle" /\ visit'[q].op = visit[q].op
        /\ visit'[q].session = visit[q].session /\ visit'[q].over = visit[q].over
  OBVIOUS
<1>2. \A q \in Operators : Starting(q)' => q # r /\ Starting(q) /\ visit'[q] = visit[q]
  BY DEF Starting, SessionInv
<1>3. ASSUME NEW s \in Sessions, session[s].status # "none"
      PROVE  /\ session'[s].status # "none"
             /\ session'[s].expires = session[s].expires
             /\ session[s].status \in {"ended", "expired"} => session'[s].status \in {"ended", "expired"}
  BY <1>3 DEF SessionInv
<1>4. \A s \in closed' : s \in Sessions /\ session'[s].status \in {"ended", "expired"}
  BY <1>3 DEF SessionInv
<1>5. \A s \in Sessions : s > started' => session'[s].status = "none"
  <2> SUFFICES ASSUME NEW s \in Sessions, s > started PROVE session'[s].status = "none"
    OBVIOUS
  <2>1. session[s].status = "none"
    BY DEF SessionInv
  <2>2. ~(Starting(r) /\ s = visit[r].n)
    BY OrganizationsAssumption DEF SessionInv, TypeOK, OrgTypeOK, Sessions
  <2> QED BY <2>1, <2>2
<1>6. \A q \in Operators : visit'[q].at \in {"read", "expire"} => visit'[q].op = "use"
  BY <1>1 DEF SessionInv
<1>7. ASSUME NEW q \in Operators, About(q)'
      PROVE  /\ visit'[q].session \in Sessions
             /\ session'[visit'[q].session].status # "none"
             /\ visit'[q].op = "use" /\ visit'[q].over => Over(visit[q].session)'
  <2>1. /\ About(q) /\ visit'[q].session = visit[q].session
        /\ visit'[q].over = visit[q].over /\ visit'[q].op = visit[q].op
    BY <1>1, <1>7 DEF About
  <2>2. /\ visit[q].session \in Sessions /\ session[visit[q].session].status # "none"
        /\ visit[q].op = "use" /\ visit[q].over => Over(visit[q].session)
    BY <2>1 DEF SessionInv
  <2>3. /\ session'[visit[q].session].status # "none"
        /\ session'[visit[q].session].expires = session[visit[q].session].expires
    BY <1>3, <2>2
  <2>4. ASSUME Over(visit[q].session) PROVE Over(visit[q].session)'
    BY <2>1, <2>3, <2>4 DEF Over
  <2> QED BY <2>1, <2>2, <2>3, <2>4
<1>8. ASSUME NEW q \in Operators, Starting(q)'
      PROVE  /\ visit'[q].n \in Sessions /\ visit'[q].n <= started'
             /\ session'[visit'[q].n].status = "none"
  <2>1. q # r /\ Starting(q) /\ visit'[q] = visit[q]
    BY <1>2, <1>8
  <2>2. /\ visit[q].n \in Sessions /\ visit[q].n <= started /\ session[visit[q].n].status = "none"
        /\ ~(Starting(r) /\ visit[q].n = visit[r].n)
    BY <2>1 DEF SessionInv
  <2> QED BY <2>1, <2>2
<1>9. \A p, q \in Operators : p # q /\ Starting(p)' /\ Starting(q)' => visit'[p].n # visit'[q].n
  BY <1>2 DEF SessionInv
<1> QED BY <1>4, <1>5, <1>6, <1>7, <1>8, <1>9 DEF SessionInv

LEMMA AskKeepsSessions ==
  ASSUME TypeOK, SessionInv, NEW r \in Operators, NEW new \in Visit, Visits(r, new),
         new.at \in {"read", "save"}, new.at = "read" => new.op = "use",
         new.op \in {"use", "end"} =>
           /\ new.session \in Sessions /\ session[new.session].status # "none"
           /\ new.op = "use" /\ new.over => Over(new.session)
  PROVE  SessionInv'
<1> DEFINE it == [new EXCEPT !.n = started + 1]
<1>1. /\ it.at = new.at /\ it.op = new.op /\ it.session = new.session /\ it.over = new.over
      /\ it.n = started + 1
  BY DEF Visit
<1>2. /\ visit'[r] = it /\ \A q \in Operators \ {r} : visit'[q] = visit[q]
      /\ started \in Nat /\ started' = started + 1 /\ started < MaxRequests
      /\ UNCHANGED <<clock, session, admitted, closed>>
  BY DEF Visits, Comes, TypeOK, OrgTypeOK
<1> HIDE DEF it
<1>3. started' \in Sessions /\ session[started'].status = "none"
  BY <1>2, OrganizationsAssumption DEF Sessions, SessionInv
<1>4. \A s \in Sessions : s > started' => session'[s].status = "none"
  BY <1>2, OrganizationsAssumption DEF SessionInv, Sessions
<1>5. ASSUME NEW q \in Operators, About(q)'
      PROVE  /\ visit'[q].session \in Sessions
             /\ session'[visit'[q].session].status # "none"
             /\ visit'[q].op = "use" /\ visit'[q].over => Over(visit[q].session)'
  <2>1. CASE q = r
    BY <1>1, <1>2, <1>5, <2>1 DEF About, Over
  <2>2. CASE q # r
    <3>1. About(q) /\ visit'[q] = visit[q]
      BY <1>2, <1>5, <2>2 DEF About
    <3> QED BY <1>2, <3>1 DEF SessionInv, Over
  <2> QED BY <2>1, <2>2
<1>6. ASSUME NEW q \in Operators, Starting(q)'
      PROVE  /\ visit'[q].n \in Sessions /\ visit'[q].n <= started'
             /\ session'[visit'[q].n].status = "none"
             /\ q # r => Starting(q) /\ visit'[q] = visit[q] /\ visit'[q].n # started'
             /\ q = r => visit'[q].n = started'
  <2>1. CASE q = r
    BY <1>1, <1>2, <1>3, <2>1
  <2>2. CASE q # r
    <3>1. Starting(q) /\ visit'[q] = visit[q]
      BY <1>2, <1>6, <2>2 DEF Starting
    <3> QED BY <1>2, <2>2, <3>1, OrganizationsAssumption DEF SessionInv, Sessions
  <2> QED BY <2>1, <2>2
<1>7. \A p, q \in Operators : p # q /\ Starting(p)' /\ Starting(q)' => visit'[p].n # visit'[q].n
  BY <1>6 DEF SessionInv
<1>8. \A q \in Operators : visit'[q].at \in {"read", "expire"} => visit'[q].op = "use"
  BY <1>1, <1>2 DEF SessionInv
<1>9. RevokedIsRefused' /\ \A s \in closed' : s \in Sessions /\ session'[s].status \in {"ended", "expired"}
  BY <1>2 DEF SessionInv, RevokedIsRefused
<1> QED BY <1>4, <1>5, <1>6, <1>7, <1>8, <1>9 DEF SessionInv

LEMMA AsksKeepSessions ==
  ASSUME TypeOK, SessionInv, NEW r \in Operators,
         \/ \E v \in {"off", "on"} : AskUpsert(r, v) \/ \E o \in Orgs : AskOverride(r, o, v)
         \/ AskRemove(r)
         \/ \E u \in Users : AskStart(r, u)
         \/ \E s \in Sessions : AskEnd(r, s) \/ Use(r, s)
  PROVE  SessionInv'
<1>1. ASSUME NEW v \in {"off", "on"}, AskUpsert(r, v) PROVE SessionInv'
  <2> DEFINE f == flag # "missing"
             new == [NoVisit EXCEPT !.op = "upsert", !.at = "save", !.value = v, !.found = f]
  <2>0. f \in BOOLEAN /\ Visits(r, new)
    BY <1>1 DEF AskUpsert
  <2> HIDE DEF f
  <2>1. new \in Visit /\ new.at = "save" /\ new.op = "upsert"
    BY <2>0, Defaults DEF Visit, FlagValues
  <2> HIDE DEF new
  <2> QED BY <2>0, <2>1, AskKeepsSessions
<1>2. ASSUME NEW v \in {"off", "on"}, NEW o \in Orgs, AskOverride(r, o, v) PROVE SessionInv'
  <2> DEFINE f == override[o] # "missing"
             new == [NoVisit EXCEPT !.op = "override", !.at = "save", !.org = o, !.value = v,
                                    !.found = f]
  <2>0. f \in BOOLEAN /\ Visits(r, new)
    BY <1>2 DEF AskOverride
  <2> HIDE DEF f
  <2>1. new \in Visit /\ new.at = "save" /\ new.op = "override"
    BY <2>0, Defaults DEF Visit, FlagValues
  <2> HIDE DEF new
  <2> QED BY <2>0, <2>1, AskKeepsSessions
<1>3. ASSUME AskRemove(r) PROVE SessionInv'
  <2> DEFINE new == [NoVisit EXCEPT !.op = "remove", !.at = "save"]
  <2>1. new \in Visit /\ new.at = "save" /\ new.op = "remove"
    BY Defaults DEF Visit
  <2>2. Visits(r, new)
    BY <1>3 DEF AskRemove
  <2> HIDE DEF new
  <2> QED BY <2>1, <2>2, AskKeepsSessions
<1>4. ASSUME NEW u \in Users, AskStart(r, u) PROVE SessionInv'
  <2> DEFINE new == [NoVisit EXCEPT !.op = "start", !.at = "save", !.user = u]
  <2>1. new \in Visit /\ new.at = "save" /\ new.op = "start"
    BY Defaults DEF Visit
  <2>2. Visits(r, new)
    BY <1>4 DEF AskStart
  <2> HIDE DEF new
  <2> QED BY <2>1, <2>2, AskKeepsSessions
<1>5. ASSUME NEW s \in Sessions, AskEnd(r, s) PROVE SessionInv'
  <2> DEFINE new == [NoVisit EXCEPT !.op = "end", !.at = "save", !.session = s]
  <2>0. s \in Nat
    BY OrganizationsAssumption DEF Sessions
  <2>1. new \in Visit /\ new.at = "save" /\ new.op = "end" /\ new.session = s
    BY <2>0, Defaults DEF Visit
  <2>2. Visits(r, new) /\ session[s].status # "none"
    BY <1>5 DEF AskEnd
  <2> HIDE DEF new
  <2> QED BY <2>1, <2>2, AskKeepsSessions
<1>6. ASSUME NEW s \in Sessions, Use(r, s) PROVE SessionInv'
  <2> DEFINE f == Over(s)
             new == [NoVisit EXCEPT !.op = "use", !.at = "read", !.session = s, !.over = f]
  <2>0. s \in Nat /\ f \in BOOLEAN
    BY OrganizationsAssumption DEF Sessions, Over
  <2>2. Visits(r, new) /\ session[s].status # "none"
    BY <1>6 DEF Use
  <2> HIDE DEF f
  <2>1. new \in Visit /\ new.at = "read" /\ new.op = "use" /\ new.session = s /\ new.over = f
    BY <2>0, Defaults DEF Visit
  <2>3. new.over => Over(s)
    BY <2>1 DEF f
  <2> HIDE DEF new
  <2> QED BY <2>1, <2>2, <2>3, AskKeepsSessions
<1> QED BY <1>1, <1>2, <1>3, <1>4, <1>5, <1>6

LEMMA WorkKeepsSessions ==
  ASSUME TypeOK, TypeOK', SessionInv, NEW r \in Operators,
         \/ SaveFlag(r) \/ SaveOverride(r) \/ DeleteOverrides(r) \/ RemoveFlag(r)
         \/ OpenSession(r) \/ EndSession(r) \/ Admit(r) \/ Reject(r) \/ Expire(r)
  PROVE  SessionInv'
<1>1. /\ visit \in [Operators -> Visit] /\ visit[r] \in Visit /\ NoVisit.at = "idle"
      /\ session' \in [Sessions -> SessionRow]
  BY DEF TypeOK, NoVisit
<1>2. clock' = clock /\ started' = started
  BY DEF SaveFlag, SaveOverride, DeleteOverrides, RemoveFlag, OpenSession, EndSession, Admit, Reject,
     Expire
<1>3. Leaves(r) => VisitMoves(r)
  BY <1>1 DEF Leaves, VisitMoves
<1>4. CASE SaveFlag(r) \/ SaveOverride(r) \/ RemoveFlag(r)
  <2>1. Leaves(r) /\ UNCHANGED <<session, admitted, closed>>
    BY <1>4 DEF SaveFlag, SaveOverride, RemoveFlag
  <2>2. RevokedIsRefused'
    BY <2>1 DEF SessionInv, RevokedIsRefused
  <2>3. SessionsMove(r)
    BY <2>1 DEF SessionsMove
  <2> QED BY <1>2, <1>3, <2>1, <2>2, <2>3, StepKeepsSessions
<1>5. CASE DeleteOverrides(r)
  <2> DEFINE new == [visit[r] EXCEPT !.at = "flag"]
  <2>1. /\ visit[r].op = "remove" /\ visit' = [visit EXCEPT ![r] = new]
        /\ UNCHANGED <<session, admitted, closed>>
    BY <1>5 DEF DeleteOverrides, VisitGoes
  <2>2. new.op = "remove" /\ new.at = "flag"
    BY <1>1, <2>1 DEF Visit
  <2> HIDE DEF new
  <2>3. /\ visit'[r].op = "remove" /\ visit'[r].at = "flag"
        /\ \A q \in Operators \ {r} : visit'[q] = visit[q]
    BY <1>1, <2>1, <2>2
  <2>4. ASSUME NEW q \in Operators
        PROVE  /\ About(q)' => visit'[q] = visit[q] /\ About(q)
               /\ Starting(q)' => visit'[q] = visit[q] /\ Starting(q)
               /\ visit'[q].at \in {"read", "expire"} => visit'[q] = visit[q]
    BY <2>3 DEF About, Starting
  <2> QED BY <1>2, <2>1, <2>4 DEF SessionInv, RevokedIsRefused, Over
<1>6. CASE OpenSession(r)
  <2>1. /\ Leaves(r) /\ UNCHANGED <<admitted, closed>> /\ Starting(r)
        /\ session' = [session EXCEPT ![visit[r].n] =
                         [status |-> "active", user |-> visit[r].user, expires |-> clock + 1]]
    BY <1>6 DEF OpenSession, Starting
  <2>2. SessionsMove(r)
    <3> DEFINE row == [status |-> "active", user |-> visit[r].user, expires |-> clock + 1]
    <3>1. row.status = "active" /\ session' = [session EXCEPT ![visit[r].n] = row]
      BY <2>1
    <3> HIDE DEF row
    <3>2. session \in [Sessions -> SessionRow]
      BY DEF TypeOK
    <3> QED BY <2>1, <3>1, <3>2 DEF SessionsMove
  <2>3. RevokedIsRefused'
    BY <2>1 DEF SessionInv, RevokedIsRefused
  <2> QED BY <1>2, <1>3, <2>1, <2>2, <2>3, StepKeepsSessions
<1>7. CASE EndSession(r)
  <2> DEFINE t == visit[r].session
  <2>1. /\ Leaves(r) /\ admitted' = admitted /\ closed' = closed \cup {t}
        /\ session' = [session EXCEPT ![t].status = "ended"] /\ About(r)
    BY <1>7 DEF EndSession, About
  <2>2. t \in Sessions /\ session[t].status # "none" /\ session[t] \in SessionRow
    BY <2>1 DEF SessionInv, TypeOK
  <2>3. session'[t].status = "ended" /\ session'[t].expires = session[t].expires
    BY <2>1, <2>2 DEF SessionRow, TypeOK
  <2>4. \A s \in Sessions \ {t} : session'[s] = session[s]
    BY <2>1 DEF TypeOK
  <2>5. RevokedIsRefused'
    BY <2>1 DEF SessionInv, RevokedIsRefused
  <2> HIDE DEF t
  <2>6. SessionsMove(r)
    BY <2>1, <2>2, <2>3, <2>4 DEF SessionsMove
  <2> QED BY <1>2, <1>3, <2>1, <2>5, <2>6, StepKeepsSessions
<1>8. CASE Expire(r)
  <2> DEFINE t == visit[r].session
  <2>1. /\ Leaves(r) /\ UNCHANGED <<admitted, closed>>
        /\ session' = [session EXCEPT ![t].status = "expired"] /\ About(r)
    BY <1>8 DEF Expire, About, SessionInv
  <2>2. t \in Sessions /\ session[t].status # "none" /\ session[t] \in SessionRow
    BY <2>1 DEF SessionInv, TypeOK
  <2>3. session'[t].status = "expired" /\ session'[t].expires = session[t].expires
    BY <2>1, <2>2 DEF SessionRow, TypeOK
  <2>4. \A s \in Sessions \ {t} : session'[s] = session[s]
    BY <2>1 DEF TypeOK
  <2>5. RevokedIsRefused'
    BY <2>1 DEF SessionInv, RevokedIsRefused
  <2> HIDE DEF t
  <2>6. SessionsMove(r)
    BY <2>1, <2>2, <2>3, <2>4 DEF SessionsMove
  <2> QED BY <1>2, <1>3, <2>1, <2>5, <2>6, StepKeepsSessions
<1>9. CASE Admit(r)
  <2> DEFINE t == visit[r].session
  <2>1. /\ Leaves(r) /\ UNCHANGED <<session, closed>> /\ Live(session[t]) /\ About(r)
        /\ visit[r].op = "use"
        /\ admitted' = admitted \cup {[session |-> t, over |-> visit[r].over]}
    BY <1>9 DEF Admit, About, SessionInv
  <2>2. ~visit[r].over
    <3>1. t \in Sessions /\ (visit[r].over => Over(t))
      BY <2>1 DEF SessionInv
    <3>2. t \notin closed
      BY <2>1 DEF SessionInv, Live
    <3>3. ~(session[t].expires <= clock)
      BY <2>1, <3>1 DEF Live, TypeOK, OrgTypeOK, SessionRow
    <3> QED BY <3>1, <3>2, <3>3 DEF Over
  <2>3. RevokedIsRefused'
    BY <2>1, <2>2 DEF SessionInv, RevokedIsRefused
  <2>4. SessionsMove(r)
    BY <2>1 DEF SessionsMove
  <2> QED BY <1>2, <1>3, <2>1, <2>3, <2>4, StepKeepsSessions
<1>10. CASE Reject(r)
  <2> DEFINE new == [visit[r] EXCEPT !.at = "expire"]
  <2>1. /\ visit[r].at = "read" /\ UNCHANGED <<session, admitted, closed>>
        /\ visit' = [visit EXCEPT ![r] = new] \/ Leaves(r)
    BY <1>10 DEF Reject, VisitGoes
  <2>2. /\ new.at = "expire" /\ new.op = visit[r].op /\ new.session = visit[r].session
        /\ new.over = visit[r].over
    BY <1>1 DEF Visit
  <2>3. RevokedIsRefused'
    BY <2>1 DEF SessionInv, RevokedIsRefused
  <2>6. SessionsMove(r)
    BY <2>1 DEF SessionsMove
  <2>4. CASE Leaves(r)
    BY <1>2, <1>3, <2>3, <2>4, <2>6, StepKeepsSessions
  <2>5. CASE visit' = [visit EXCEPT ![r] = new]
    <3> HIDE DEF new
    <3>1. visit'[r] = new /\ \A q \in Operators \ {r} : visit'[q] = visit[q]
      BY <1>1, <2>5
    <3>2. VisitMoves(r)
      BY <2>1, <2>2, <3>1 DEF VisitMoves
    <3> QED BY <1>2, <2>3, <2>6, <3>2, StepKeepsSessions
  <2> QED BY <2>1, <2>4, <2>5
<1> QED BY <1>4, <1>5, <1>6, <1>7, <1>8, <1>9, <1>10

\* Ending a session revokes its token at once: no request is admitted that came in
\* after an operator ended the session or after its time.
THEOREM RevocationIsImmediate == Spec => []RevokedIsRefused
<1>1. Init => SessionInv
  <2> SUFFICES ASSUME Init PROVE SessionInv
    OBVIOUS
  <2>1. \A r \in Operators : visit[r].at = "idle"
    BY DEF Init, SessionsInit, NoVisit
  <2>2. \A s \in Sessions : session[s].status = "none"
    BY DEF Init, SessionsInit, NoSession
  <2>3. admitted = {} /\ closed = {}
    BY DEF Init, SessionsInit
  <2> QED BY <2>1, <2>2, <2>3 DEF SessionInv, About, Starting, RevokedIsRefused
<1>2. ASSUME TypeOK, TypeOK', SessionInv, [Next]_vars PROVE SessionInv'
  <2>1. started \in Nat /\ started' \in Nat /\ clock \in Nat /\ clock' \in Nat
    BY <1>2 DEF TypeOK, OrgTypeOK
  <2>2. ASSUME NEW r \in Operators, Operator(r) PROVE SessionInv'
    BY <1>2, <2>2, AsksKeepSessions, WorkKeepsSessions DEF Operator
  <2>3. ASSUME UNCHANGED <<visit, session, admitted, closed>>, started' >= started, clock' >= clock
        PROVE  SessionInv'
    BY <1>2, <2>1, <2>3, ElsewhereKeeps
  <2>4. ASSUME NEW o \in Orgs, ClearOverride(o) PROVE SessionInv'
    BY <2>1, <2>3, <2>4 DEF ClearOverride, Comes
  <2>5. CASE OrgNext /\ UNCHANGED <<accountVars, sessionVars>>
    <3>1. clock' = clock
      <4>1. ASSUME NEW r \in OrgRequests, OrgRequest(r) PROVE clock' = clock
        BY <4>1 DEF OrgRequest, ChangeStatus, UpgradePlan, Retention, SendVerification,
           VerifyEmail, Hold, SaveOrg, InsertEvent, LoseEvent
      <4> QED BY <2>5, <4>1 DEF OrgNext, SetPlan, ChangeEmail, Update
    <3> QED BY <2>1, <2>3, <2>5, <3>1, OrgStarted DEF sessionVars
  <2>6. CASE AccountsNext /\ UNCHANGED <<orgVars, sessionVars>>
    <3>1. clock' = clock /\ started' \in {started, started + 1}
      BY <2>6, AccountsStarted
    <3> QED BY <2>1, <2>3, <2>6, <3>1 DEF sessionVars
  <2>7. CASE Tick /\ UNCHANGED <<started, orgVars, accountVars, sessionVars>>
    BY <2>1, <2>3, <2>7 DEF Tick, sessionVars
  <2>8. CASE UNCHANGED vars
    BY <2>1, <2>3, <2>8 DEF vars, sessionVars
  <2> QED BY <1>2, <2>2, <2>4, <2>5, <2>6, <2>7, <2>8 DEF Next, SessionsNext
<1>3. SessionInv => RevokedIsRefused
  BY DEF SessionInv
<1> QED BY <1>1, <1>2, <1>3, TypeCorrect, PTL DEF Spec

\* What was taken from an account stays taken: deactivation, tokens and recovery codes.
THEOREM AccountsCorrect == Spec => []AccountsHold
<1>1. DeactivationHolds /\ RetiredStaysRetired /\ CodesAreSpent => AccountsHold
  BY DEF AccountsHold
<1> QED BY <1>1, DeactivationsHold, TokensStayRetired, CodesWorkOnce, PTL

\* A session an operator ended and a flag that was removed have no effect later.
THEOREM ImpersonationCorrect == Spec => []ImpersonationHolds
<1>1. RevokedIsRefused /\ CleanSlate => ImpersonationHolds
  BY DEF ImpersonationHolds
<1> QED BY <1>1, RevocationIsImmediate, FlagsStartClean, PTL

-----------------------------------------------------------------------------
(* The history of an organization: an event that is still to be inserted counts   *)
(* as recorded, so that every save moves the status and the history together.     *)

Entry(r) == [org |-> task[r].org, n |-> task[r].n,
             previous |-> task[r].previous, next |-> task[r].row.status]

Owing(r, o) == task[r].at = "event" /\ task[r].org = o

\* The changes of o that were saved, recorded or about to be.
Changes(o) == {e \in events : e.org = o} \cup {Entry(r) : r \in {q \in OrgRequests : Owing(q, o)}}

At(s, t) == IF s = t THEN 1 ELSE 0

Balanced(C, status) ==
    \A s \in Statuses : At(s, "active") + Cardinality({e \in C : e.next = s})
                        = At(s, status) + Cardinality({e \in C : e.previous = s})

\* No two changes have one number.
ChangesNumbered ==
    /\ \A r \in OrgRequests : task[r].at # "idle" => task[r].n <= started
    /\ \A r, q \in OrgRequests :
         r # q /\ task[r].at # "idle" /\ task[q].at # "idle" => task[r].n # task[q].n
    /\ \A e \in events : e.n <= started
    /\ \A e \in events, r \in OrgRequests : task[r].at # "idle" => task[r].n # e.n

\* A copy that nothing was written under starts from the status that is stored, and
\* keeps it unless its save is recorded.
PreviousHolds ==
    \A o \in Orgs, r \in OrgRequests : quiet[o] /\ Holds(r, o) =>
        /\ task[r].previous = org[o].status
        /\ ~Records(r) => task[r].row.status = org[o].status

BalanceInv ==
    \A o \in Orgs : /\ IsFiniteSet(Changes(o))
                    /\ quiet[o] /\ o \notin unlogged => Balanced(Changes(o), org[o].status)

LEMMA OrgMoves ==
  ASSUME TypeOK, OrgNext
  PROVE  \/ \E r \in OrgRequests, o \in Orgs, op \in Handlers, row \in OrgRow, changed \in BOOLEAN :
              /\ Hold(r, o, op, row, changed)
              /\ (op = "status" /\ changed) \/ row.status = org[o].status
         \/ \E r \in OrgRequests : SaveOrg(r) \/ InsertEvent(r) \/ LoseEvent(r)
         \/ \E o \in Orgs, op \in Handlers, row \in OrgRow :
              Update(o, op, row) /\ row.status = org[o].status
<1> DEFINE Held == \E r \in OrgRequests, o \in Orgs, op \in Handlers, row \in OrgRow, changed \in BOOLEAN :
                      /\ Hold(r, o, op, row, changed)
                      /\ (op = "status" /\ changed) \/ row.status = org[o].status
           Updated == \E o \in Orgs, op \in Handlers, row \in OrgRow :
                        Update(o, op, row) /\ row.status = org[o].status
<1>0. \A o \in Orgs : org[o] \in OrgRow
  BY DEF TypeOK, OrgTypeOK
<1>1. ASSUME NEW r \in OrgRequests, NEW o \in Orgs, NEW s \in Statuses, NEW u \in 0..MaxTime,
             ChangeStatus(r, o, s, u)
      PROVE  Held
  <2>1. PICK row \in OrgRow : row = [org[o] EXCEPT !.status = s, !.until = u]
    <3>1. u \in Nat /\ org[o] \in OrgRow
      BY <1>0, OrganizationsAssumption
    <3> QED BY <3>1 DEF OrgRow
  <2>2. PICK changed \in BOOLEAN : changed = (org[o].status # s \/ org[o].until # u)
    OBVIOUS
  <2>3. Hold(r, o, "status", row, changed)
    BY <1>1, <2>1, <2>2 DEF ChangeStatus
  <2>4. row.status = s
    BY <1>0, <2>1 DEF OrgRow
  <2>5. ~changed => row.status = org[o].status
    BY <2>2, <2>4
  <2>6. "status" \in Handlers
    BY DEF Handlers
  <2> QED BY <2>3, <2>5, <2>6
<1>2. ASSUME NEW r \in OrgRequests, NEW o \in Orgs, NEW op \in Handlers, NEW row \in OrgRow,
             Hold(r, o, op, row, FALSE), row.status = org[o].status
      PROVE  Held
  BY <1>2
<1>3. ASSUME NEW o \in Orgs, NEW p \in Plans
      PROVE  [org[o] EXCEPT !.plan = p] \in OrgRow /\ [org[o] EXCEPT !.plan = p].status = org[o].status
  BY <1>0 DEF OrgRow
<1>4. ASSUME NEW o \in Orgs, NEW v \in BOOLEAN, NEW t \in Nat, NEW x \in Nat
      PROVE  /\ [org[o] EXCEPT !.verified = v, !.token = t, !.expires = x] \in OrgRow
             /\ [org[o] EXCEPT !.verified = v, !.token = t, !.expires = x].status = org[o].status
  BY <1>0 DEF OrgRow
<1>5. started + 1 \in Nat /\ clock + 1 \in Nat
  BY DEF TypeOK, OrgTypeOK
<1>6. {"status", "plan", "retention", "send", "verify"} = Handlers
  BY DEF Handlers
<1>7. ASSUME NEW r \in OrgRequests, NEW o \in Orgs, NEW p \in Plans, UpgradePlan(r, o, p)
      PROVE  Held
  <2>1. PICK row \in OrgRow : row = [org[o] EXCEPT !.plan = p]
    BY <1>3
  <2>2. Hold(r, o, "plan", row, FALSE) /\ row.status = org[o].status
    BY <1>3, <1>7, <2>1 DEF UpgradePlan
  <2> QED BY <1>2, <1>6, <2>2
<1>8. ASSUME NEW r \in OrgRequests, NEW o \in Orgs, Retention(r, o)
      PROVE  Held
  BY <1>0, <1>2, <1>6, <1>8 DEF Retention
<1>9. ASSUME NEW r \in OrgRequests, NEW o \in Orgs, SendVerification(r, o)
      PROVE  Held
  <2>1. PICK row \in OrgRow :
          row = [org[o] EXCEPT !.verified = FALSE, !.token = started + 1, !.expires = clock + 1]
    BY <1>4, <1>5
  <2>2. Hold(r, o, "send", row, FALSE)
    BY <1>9, <2>1 DEF SendVerification
  <2>3. row.status = org[o].status
    BY <1>4, <1>5, <2>1
  <2> QED BY <1>2, <1>6, <2>2, <2>3
<1>10. ASSUME NEW r \in OrgRequests, NEW o \in Orgs, VerifyEmail(r, o)
       PROVE  Held
  <2>1. PICK row \in OrgRow : row = [org[o] EXCEPT !.verified = TRUE, !.token = 0, !.expires = 0]
    BY <1>4
  <2>2. Hold(r, o, "verify", row, FALSE)
    BY <1>10, <2>1 DEF VerifyEmail
  <2>3. row.status = org[o].status
    BY <1>4, <2>1
  <2> QED BY <1>2, <1>6, <2>2, <2>3
<1>11. ASSUME NEW o \in Orgs, NEW p \in Plans, SetPlan(o, p)
       PROVE  Updated
  <2>1. PICK row \in OrgRow : row = [org[o] EXCEPT !.plan = p]
    BY <1>3
  <2>2. Update(o, "plan", row) /\ row.status = org[o].status
    BY <1>3, <1>11, <2>1 DEF SetPlan
  <2> QED BY <1>6, <2>2
<1>12. ASSUME NEW o \in Orgs, ChangeEmail(o)
       PROVE  Updated
  <2>1. PICK row \in OrgRow : row = [org[o] EXCEPT !.verified = FALSE, !.token = 0, !.expires = 0]
    BY <1>4
  <2>2. Update(o, "send", row)
    BY <1>12, <2>1 DEF ChangeEmail
  <2>3. row.status = org[o].status
    BY <1>4, <2>1
  <2> QED BY <1>6, <2>2, <2>3
<1> HIDE DEF Held, Updated
<1>13. Held \/ (\E r \in OrgRequests : SaveOrg(r) \/ InsertEvent(r) \/ LoseEvent(r)) \/ Updated
  BY <1>1, <1>7, <1>8, <1>9, <1>10, <1>11, <1>12 DEF OrgNext, OrgRequest
<1> QED BY <1>13 DEF Held, Updated

\* What a step makes of the task of a request.
LEMMA TaskMoves ==
  ASSUME TypeOK, NEW r \in OrgRequests
  PROVE  /\ NoTask.at = "idle"
         /\ \A o, op, row, changed : Hold(r, o, op, row, changed) =>
              /\ task[r].at = "idle" /\ task'[r].at = "save" /\ task'[r].org = o
              /\ task'[r].op = op /\ task'[r].row = row /\ task'[r].changed = changed
              /\ task'[r].n = started + 1 /\ task'[r].previous = org[o].status
              /\ \A q \in OrgRequests \ {r} : task'[q] = task[q]
         /\ SaveOrg(r) =>
              /\ Records(r) => /\ task'[r].at = "event"
                               /\ task'[r].org = task[r].org /\ task'[r].n = task[r].n
                               /\ task'[r].row = task[r].row
                               /\ task'[r].previous = task[r].previous
              /\ ~Records(r) => task'[r] = NoTask
              /\ \A q \in OrgRequests \ {r} : task'[q] = task[q]
         /\ InsertEvent(r) \/ LoseEvent(r) =>
              /\ task'[r] = NoTask
              /\ \A q \in OrgRequests \ {r} : task'[q] = task[q]
<1>1. task \in [OrgRequests -> Task]
  BY DEF TypeOK, OrgTypeOK
<1>2. task[r] \in Task
  BY <1>1
<1>3. NoTask.at = "idle"
  BY DEF NoTask
<1>4. \A o, op, row, changed : Hold(r, o, op, row, changed) =>
        /\ task[r].at = "idle" /\ task'[r].at = "save" /\ task'[r].org = o
        /\ task'[r].op = op /\ task'[r].row = row /\ task'[r].changed = changed
        /\ task'[r].n = started + 1 /\ task'[r].previous = org[o].status
        /\ \A q \in OrgRequests \ {r} : task'[q] = task[q]
  BY <1>1 DEF Hold
<1>5. SaveOrg(r) =>
        /\ Records(r) => task'[r] = [task[r] EXCEPT !.at = "event"]
        /\ ~Records(r) => task'[r] = NoTask
        /\ \A q \in OrgRequests \ {r} : task'[q] = task[q]
  BY <1>1 DEF SaveOrg
<1>6. SaveOrg(r) /\ Records(r) =>
        /\ task'[r].at = "event"
        /\ task'[r].org = task[r].org /\ task'[r].n = task[r].n
        /\ task'[r].row = task[r].row /\ task'[r].previous = task[r].previous
  BY <1>2, <1>5 DEF Task
<1>7. InsertEvent(r) \/ LoseEvent(r) =>
        /\ task'[r] = NoTask
        /\ \A q \in OrgRequests \ {r} : task'[q] = task[q]
  BY <1>1 DEF InsertEvent, LoseEvent
<1> QED BY <1>3, <1>4, <1>5, <1>6, <1>7

LEMMA OrgNumbers == TypeOK /\ ChangesNumbered /\ OrgNext => ChangesNumbered'
<1> SUFFICES ASSUME TypeOK, ChangesNumbered, OrgNext PROVE ChangesNumbered'
  OBVIOUS
<1>0. /\ started \in Nat /\ \A r \in OrgRequests : task[r].n \in Nat
      /\ \A e \in events : e.n \in Nat
  BY DEF TypeOK, OrgTypeOK, Task, StatusEvent
<1>1. ASSUME NEW r \in OrgRequests, NEW o \in Orgs, NEW op, NEW row, NEW changed,
             Hold(r, o, op, row, changed)
      PROVE  ChangesNumbered'
  <2>1. events' = events /\ started' = started + 1
    BY <1>1 DEF Hold, Comes
  <2>2. /\ task'[r].n = started + 1
        /\ \A q \in OrgRequests \ {r} : task'[q] = task[q]
    BY <1>1, TaskMoves
  <2> QED BY <1>0, <2>1, <2>2 DEF ChangesNumbered
<1>2. ASSUME NEW r \in OrgRequests, SaveOrg(r)
      PROVE  ChangesNumbered'
  <2>1. events' = events /\ started' = started /\ task[r].at # "idle"
    BY <1>2 DEF SaveOrg
  <2>2. /\ task'[r].at # "idle" => task'[r].n = task[r].n
        /\ \A q \in OrgRequests \ {r} : task'[q] = task[q]
    BY <1>2, TaskMoves
  <2> QED BY <2>1, <2>2 DEF ChangesNumbered
<1>3. ASSUME NEW r \in OrgRequests, InsertEvent(r) \/ LoseEvent(r)
      PROVE  ChangesNumbered'
  <2>1. started' = started /\ task[r].at # "idle"
    BY <1>3 DEF InsertEvent, LoseEvent
  <2>2. \A e \in events' : e \in events \/ e.n = task[r].n
    BY <1>3 DEF InsertEvent, LoseEvent
  <2>3. /\ task'[r].at = "idle"
        /\ \A q \in OrgRequests \ {r} : task'[q] = task[q]
    BY <1>3, TaskMoves
  <2> QED BY <2>1, <2>2, <2>3 DEF ChangesNumbered
<1>4. ASSUME NEW o \in Orgs, NEW op, NEW row, Update(o, op, row)
      PROVE  ChangesNumbered'
  <2>1. events' = events /\ started' = started + 1 /\ task' = task
    BY <1>4 DEF Update, Comes
  <2> QED BY <1>0, <2>1 DEF ChangesNumbered
<1> QED BY OrgMoves, <1>1, <1>2, <1>3, <1>4

LEMMA OrgPrevious == TypeOK /\ PreviousHolds /\ OrgNext => PreviousHolds'
<1> SUFFICES ASSUME TypeOK, PreviousHolds, OrgNext PROVE PreviousHolds'
  OBVIOUS
<1>1. ASSUME NEW r \in OrgRequests, NEW o \in Orgs, NEW op, NEW row, NEW changed,
             Hold(r, o, op, row, changed), (op = "status" /\ changed) \/ row.status = org[o].status
      PROVE  PreviousHolds'
  <2> SUFFICES ASSUME NEW o2 \in Orgs, NEW q \in OrgRequests, quiet'[o2], Holds(q, o2)'
               PROVE  /\ task'[q].previous = org'[o2].status
                      /\ ~Records(q)' => task'[q].row.status = org'[o2].status
    BY DEF PreviousHolds
  <2>1. org' = org /\ quiet' = quiet
    BY <1>1 DEF Hold
  <2>2. CASE q = r
    <3>1. /\ task'[r].org = o /\ task'[r].op = op /\ task'[r].row = row
          /\ task'[r].changed = changed /\ task'[r].previous = org[o].status
      BY <1>1, TaskMoves
    <3>2. o2 = o
      BY <2>2, <3>1 DEF Holds
    <3> QED BY <1>1, <2>1, <2>2, <3>1, <3>2 DEF Records
  <2>3. CASE q # r
    <3>1. task'[q] = task[q]
      BY <1>1, <2>3, TaskMoves
    <3> QED BY <2>1, <3>1 DEF PreviousHolds, Holds, Records
  <2> QED BY <2>2, <2>3
<1>2. ASSUME NEW r \in OrgRequests, SaveOrg(r)
      PROVE  PreviousHolds'
  <2> SUFFICES ASSUME NEW o2 \in Orgs, NEW q \in OrgRequests, quiet'[o2], Holds(q, o2)'
               PROVE  /\ task'[q].previous = org'[o2].status
                      /\ ~Records(q)' => task'[q].row.status = org'[o2].status
    BY DEF PreviousHolds
  <2>1. task[r].org \in Orgs
    BY DEF TypeOK, OrgTypeOK, Task
  <2>2. q # r /\ task'[q] = task[q]
    BY <1>2, TaskMoves DEF Holds
  <2>3. Holds(q, o2)
    BY <2>2 DEF Holds
  <2>4. CASE o2 = task[r].org
    <3>1. ~Disturbs(r, o2)
      BY <1>2, <2>1, <2>4 DEF SaveOrg, TypeOK, OrgTypeOK
    <3> QED BY <2>2, <2>3, <3>1 DEF Disturbs
  <2>5. CASE o2 # task[r].org
    <3>1. org'[o2] = org[o2] /\ quiet[o2]
      BY <1>2, <2>1, <2>5 DEF SaveOrg, TypeOK, OrgTypeOK
    <3> QED BY <2>2, <2>3, <3>1 DEF PreviousHolds, Records
  <2> QED BY <2>4, <2>5
<1>3. ASSUME NEW r \in OrgRequests, InsertEvent(r) \/ LoseEvent(r)
      PROVE  PreviousHolds'
  <2>1. org' = org /\ quiet' = quiet
    BY <1>3 DEF InsertEvent, LoseEvent
  <2>2. /\ task'[r].at = "idle"
        /\ \A q \in OrgRequests \ {r} : task'[q] = task[q]
    BY <1>3, TaskMoves
  <2> QED BY <2>1, <2>2 DEF PreviousHolds, Holds, Records
<1>4. ASSUME NEW o \in Orgs, NEW op, NEW row, Update(o, op, row)
      PROVE  PreviousHolds'
  <2> SUFFICES ASSUME NEW o2 \in Orgs, NEW q \in OrgRequests, quiet'[o2], Holds(q, o2)'
               PROVE  /\ task'[q].previous = org'[o2].status
                      /\ ~Records(q)' => task'[q].row.status = org'[o2].status
    BY DEF PreviousHolds
  <2>1. task' = task /\ Holds(q, o2)
    BY <1>4 DEF Update, Holds
  <2>2. o2 # o
    BY <1>4, <2>1 DEF Update, TypeOK, OrgTypeOK
  <2>3. org'[o2] = org[o2] /\ quiet[o2]
    BY <1>4, <2>2 DEF Update, TypeOK, OrgTypeOK
  <2> QED BY <2>1, <2>3 DEF PreviousHolds, Records
<1> QED BY OrgMoves, <1>1, <1>2, <1>3, <1>4

\* One more change, counted by where it leads to and where it comes from.
LEMMA CountMore ==
  ASSUME NEW S, IsFiniteSet(S), NEW e, e \notin S, NEW s
  PROVE  /\ IsFiniteSet(S \cup {e})
         /\ Cardinality({x \in S : x.next = s}) \in Nat
         /\ Cardinality({x \in S : x.previous = s}) \in Nat
         /\ Cardinality({x \in S \cup {e} : x.next = s})
            = Cardinality({x \in S : x.next = s}) + At(s, e.next)
         /\ Cardinality({x \in S \cup {e} : x.previous = s})
            = Cardinality({x \in S : x.previous = s}) + At(s, e.previous)
<1>1. ASSUME NEW T, T \subseteq S
      PROVE  /\ IsFiniteSet(T) /\ Cardinality(T) \in Nat
             /\ Cardinality(T \cup {e}) = Cardinality(T) + 1
  <2>1. IsFiniteSet(T)
    BY <1>1, FS_Subset
  <2>2. Cardinality(T) \in Nat
    BY <2>1, FS_CardinalityType
  <2>3. e \notin T
    BY <1>1
  <2>4. Cardinality(T \cup {e}) = Cardinality(T) + 1
    BY <2>1, <2>3, FS_AddElement
  <2> QED BY <2>1, <2>2, <2>4
<1>2. IsFiniteSet(S \cup {e})
  BY FS_AddElement
<1>3. PICK N : N = {x \in S : x.next = s}
  OBVIOUS
<1>4. PICK P : P = {x \in S : x.previous = s}
  OBVIOUS
<1>5. /\ Cardinality(N) \in Nat /\ Cardinality(N \cup {e}) = Cardinality(N) + 1
      /\ Cardinality(P) \in Nat /\ Cardinality(P \cup {e}) = Cardinality(P) + 1
  BY <1>1, <1>3, <1>4
<1>6. Cardinality({x \in S \cup {e} : x.next = s}) = Cardinality(N) + At(s, e.next)
  <2>1. CASE e.next = s
    <3>1. {x \in S \cup {e} : x.next = s} = N \cup {e}
      BY <1>3, <2>1
    <3>2. At(s, e.next) = 1
      BY <2>1 DEF At
    <3> QED BY <1>5, <3>1, <3>2
  <2>2. CASE e.next # s
    <3>1. Cardinality({x \in S \cup {e} : x.next = s}) = Cardinality(N)
      <4>1. {x \in S \cup {e} : x.next = s} = N
        BY <1>3, <2>2
      <4> QED BY <4>1
    <3>2. At(s, e.next) = 0
      BY <2>2 DEF At
    <3> QED BY <1>5, <3>1, <3>2
  <2> QED BY <2>1, <2>2
<1>7. Cardinality({x \in S \cup {e} : x.previous = s}) = Cardinality(P) + At(s, e.previous)
  <2>1. CASE e.previous = s
    <3>1. {x \in S \cup {e} : x.previous = s} = P \cup {e}
      BY <1>4, <2>1
    <3>2. At(s, e.previous) = 1
      BY <2>1 DEF At
    <3> QED BY <1>5, <3>1, <3>2
  <2>2. CASE e.previous # s
    <3>1. Cardinality({x \in S \cup {e} : x.previous = s}) = Cardinality(P)
      <4>1. {x \in S \cup {e} : x.previous = s} = P
        BY <1>4, <2>2
      <4> QED BY <4>1
    <3>2. At(s, e.previous) = 0
      BY <2>2 DEF At
    <3> QED BY <1>5, <3>1, <3>2
  <2> QED BY <2>1, <2>2
<1> QED BY <1>2, <1>3, <1>4, <1>5, <1>6, <1>7

\* A change from the stored status keeps the balance.
LEMMA OneMoreBalances ==
  ASSUME NEW C, IsFiniteSet(C), NEW e, e \notin C, NEW status, Balanced(C, status),
         e.previous = status
  PROVE  Balanced(C \cup {e}, e.next)
<1> SUFFICES ASSUME NEW s \in Statuses
             PROVE  At(s, "active") + Cardinality({x \in C \cup {e} : x.next = s})
                    = At(s, e.next) + Cardinality({x \in C \cup {e} : x.previous = s})
  BY DEF Balanced
<1>1. At(s, "active") \in Nat /\ At(s, e.next) \in Nat /\ At(s, status) \in Nat
  BY DEF At
<1>2. At(s, "active") + Cardinality({x \in C : x.next = s})
      = At(s, status) + Cardinality({x \in C : x.previous = s})
  BY DEF Balanced
<1>3. /\ Cardinality({x \in C : x.next = s}) \in Nat
      /\ Cardinality({x \in C : x.previous = s}) \in Nat
  <2>1. ASSUME NEW T, T \subseteq C PROVE Cardinality(T) \in Nat
    BY <2>1, FS_Subset, FS_CardinalityType
  <2> QED BY <2>1
<1>4. PICK N \in Nat, P \in Nat :
        /\ N = Cardinality({x \in C : x.next = s})
        /\ P = Cardinality({x \in C : x.previous = s})
  BY <1>3
<1>5. /\ Cardinality({x \in C \cup {e} : x.next = s}) = N + At(s, e.next)
      /\ Cardinality({x \in C \cup {e} : x.previous = s}) = P + At(s, status)
  BY CountMore, <1>4
<1> QED BY <1>1, <1>2, <1>4, <1>5

\* The number of a request is the next one.
LEMMA Counts ==
  ASSUME [Next]_vars, ~OrgNext
  PROVE  UNCHANGED orgVars /\ (started' = started \/ started' = started + 1)
<1> DEFINE Counted == started' = started \/ started' = started + 1
<1>1. ASSUME AccountsNext PROVE Counted
  <2>1. ASSUME NEW r \in Requests, NEW u, NEW op, NEW at, Arrive(r, op, u, at)
        PROVE  Counted
    BY <2>1 DEF Arrive, Comes
  <2>2. ASSUME NEW r \in Requests, NEW u, \/ Login(r, u) \/ Refresh(r, u) \/ VerifyLogin(r, u)
                                          \/ RequestReset(r, u) \/ ConfirmReset(r, u)
        PROVE  Counted
    BY <2>1, <2>2 DEF Login, Refresh, VerifyLogin, RequestReset, ConfirmReset
  <2>3. ASSUME NEW r \in Requests, NEW u, NEW active, ChangeUser(r, u, active)
        PROVE  Counted
    BY <2>1, <2>3 DEF ChangeUser
  <2>4. ASSUME NEW r \in Requests, NEW u, NEW op, BeginSecond(r, u, op)
        PROVE  Counted
    BY <2>1, <2>4 DEF BeginSecond
  <2>5. ASSUME NEW r \in Requests, \/ CheckOrg(r) \/ Refuse(r) \/ CheckPassword(r)
                                   \/ CompareToken(r) \/ Grant(r) \/ UpdateUser(r)
                                   \/ SaveUser(r) \/ CheckTotp(r) \/ UpdateSecond(r)
                                   \/ \E code : UseRecoveryCode(r, code)
        PROVE  Counted
    BY <2>5 DEF CheckOrg, Refuse, CheckPassword, CompareToken, Grant, UpdateUser, SaveUser,
                CheckTotp, UpdateSecond, UseRecoveryCode
  <2>6. ASSUME NEW u, Logout(u) \/ DeleteUser(u)
        PROVE  Counted
    BY <2>6 DEF Logout, DeleteUser, Comes
  <2> HIDE DEF Counted
  <2> QED BY <1>1, <2>2, <2>3, <2>4, <2>5, <2>6 DEF AccountsNext, Request
<1>2. ASSUME SessionsNext PROVE Counted
  <2>1. ASSUME NEW r \in Operators, NEW new, Visits(r, new) PROVE Counted
    BY <2>1 DEF Visits, Comes
  <2>2. ASSUME NEW r \in Operators,
               \/ \E value : AskUpsert(r, value) \/ \E o : AskOverride(r, o, value)
               \/ AskRemove(r)
               \/ \E u : AskStart(r, u)
               \/ \E s : AskEnd(r, s) \/ Use(r, s)
        PROVE  Counted
    BY <2>1, <2>2 DEF AskUpsert, AskOverride, AskRemove, AskStart, AskEnd, Use
  <2>3. ASSUME NEW r \in Operators,
               \/ SaveFlag(r) \/ SaveOverride(r) \/ DeleteOverrides(r) \/ RemoveFlag(r)
               \/ OpenSession(r) \/ EndSession(r) \/ Admit(r) \/ Reject(r) \/ Expire(r)
        PROVE  Counted
    BY <2>3 DEF SaveFlag, SaveOverride, DeleteOverrides, RemoveFlag, OpenSession, EndSession,
                Admit, Reject, Expire
  <2>4. ASSUME NEW o, ClearOverride(o) PROVE Counted
    BY <2>4 DEF ClearOverride, Comes
  <2> HIDE DEF Counted
  <2> QED BY <1>2, <2>2, <2>3, <2>4 DEF SessionsNext, Operator
<1> QED BY <1>1, <1>2 DEF Next, Tick, vars

LEMMA OrgBalance ==
  TypeOK /\ ChangesNumbered /\ PreviousHolds /\ BalanceInv /\ OrgNext => BalanceInv'
<1> SUFFICES ASSUME TypeOK, ChangesNumbered, PreviousHolds, BalanceInv, OrgNext
             PROVE  BalanceInv'
  OBVIOUS
\* A step that saves no change and inserts none.
<1>1. ASSUME events' = events, quiet' = quiet \/ \A o \in Orgs : quiet'[o] => quiet[o],
             unlogged' = unlogged, \A o \in Orgs : org'[o].status = org[o].status \/ ~quiet'[o],
             \A q \in OrgRequests : (task'[q].at = "event" <=> task[q].at = "event"),
             \A q \in OrgRequests : task[q].at = "event" => task'[q] = task[q]
      PROVE  BalanceInv'
  <2> SUFFICES ASSUME NEW o \in Orgs
               PROVE  /\ IsFiniteSet(Changes(o)')
                      /\ quiet'[o] /\ o \notin unlogged' => Balanced(Changes(o)', org'[o].status)
    BY DEF BalanceInv, Balanced
  <2>1. Changes(o)' = Changes(o)
    BY <1>1 DEF Changes, Entry, Owing
  <2> QED BY <1>1, <2>1 DEF BalanceInv
<1>2. ASSUME NEW r \in OrgRequests, NEW o \in Orgs, NEW op, NEW row, NEW changed,
             Hold(r, o, op, row, changed)
      PROVE  BalanceInv'
  <2>1. /\ events' = events /\ quiet' = quiet /\ unlogged' = unlogged /\ org' = org
    BY <1>2 DEF Hold
  <2>2. /\ task[r].at = "idle" /\ task'[r].at = "save"
        /\ \A q \in OrgRequests \ {r} : task'[q] = task[q]
    BY <1>2, TaskMoves
  <2> QED BY <1>1, <2>1, <2>2
<1>3. ASSUME NEW o \in Orgs, NEW op, NEW row, Update(o, op, row), row.status = org[o].status
      PROVE  BalanceInv'
  <2>1. events' = events /\ unlogged' = unlogged /\ task' = task
    BY <1>3 DEF Update
  <2>2. \A o2 \in Orgs : org'[o2].status = org[o2].status /\ (quiet'[o2] => quiet[o2])
    BY <1>3 DEF Update, TypeOK, OrgTypeOK
  <2> QED BY <1>1, <2>1, <2>2
<1>4. ASSUME NEW r \in OrgRequests, SaveOrg(r)
      PROVE  BalanceInv'
  <2>1. task[r].org \in Orgs /\ Holds(r, task[r].org)
    BY <1>4 DEF SaveOrg, Holds, TypeOK, OrgTypeOK, Task
  <2>2. /\ events' = events /\ unlogged' = unlogged /\ task[r].at = "save"
        /\ \A o \in Orgs : quiet'[o] => quiet[o]
        /\ \A o \in Orgs \ {task[r].org} : org'[o] = org[o]
        /\ org'[task[r].org] = task[r].row
    BY <1>4, <2>1 DEF SaveOrg, Saved, TypeOK, OrgTypeOK
  <2>3. \A q \in OrgRequests \ {r} : task'[q] = task[q]
    BY <1>4, TaskMoves
  <2>4. quiet[task[r].org] => /\ task[r].previous = org[task[r].org].status
                              /\ ~Records(r) => task[r].row.status = org[task[r].org].status
    BY <2>1 DEF PreviousHolds
  <2>5. CASE ~Records(r)
    <3>1. task'[r].at = "idle"
      BY <1>4, <2>5, TaskMoves
    <3>2. \A q \in OrgRequests : /\ task'[q].at = "event" <=> task[q].at = "event"
                                 /\ task[q].at = "event" => task'[q] = task[q]
      BY <2>2, <2>3, <3>1
    <3>3. \A o \in Orgs : org'[o].status = org[o].status \/ ~quiet'[o]
      BY <2>1, <2>2, <2>4, <2>5
    <3> QED BY <1>1, <2>2, <3>2, <3>3
  <2>6. CASE Records(r)
    <3> SUFFICES ASSUME NEW o \in Orgs
                 PROVE  /\ IsFiniteSet(Changes(o)')
                        /\ quiet'[o] /\ o \notin unlogged' => Balanced(Changes(o)', org'[o].status)
      BY DEF BalanceInv, Balanced
    <3>1. /\ task'[r].at = "event"
          /\ task'[r].org = task[r].org /\ task'[r].n = task[r].n
          /\ task'[r].row = task[r].row /\ task'[r].previous = task[r].previous
      BY <1>4, <2>6, TaskMoves
    <3>2. CASE o # task[r].org
      <4>1. Changes(o)' = Changes(o)
        BY <2>2, <2>3, <3>1, <3>2 DEF Changes, Entry, Owing
      <4> QED BY <2>2, <3>2, <4>1 DEF BalanceInv
    <3>3. CASE o = task[r].org
      <4>1. Changes(o)' = Changes(o) \cup {Entry(r)}
        <5>1. Entry(r)' = Entry(r)
          BY <3>1 DEF Entry
        <5>2. \A q \in OrgRequests \ {r} : Entry(q)' = Entry(q) /\ (Owing(q, o)' <=> Owing(q, o))
          BY <2>3 DEF Entry, Owing
        <5>3. Owing(r, o)' /\ ~Owing(r, o)
          BY <2>2, <3>1, <3>3 DEF Owing
        <5> QED BY <2>2, <5>1, <5>2, <5>3 DEF Changes
      <4>2. Entry(r) \notin Changes(o)
        <5>1. \A q \in OrgRequests : Owing(q, o) => Entry(q).n # Entry(r).n
          BY <2>2 DEF Owing, Entry, ChangesNumbered
        <5>2. \A e \in events : e.n # Entry(r).n
          BY <2>2 DEF Entry, ChangesNumbered
        <5> QED BY <5>1, <5>2 DEF Changes
      <4>3. IsFiniteSet(Changes(o))
        BY DEF BalanceInv
      <4>4. IsFiniteSet(Changes(o) \cup {Entry(r)})
        BY <4>3, FS_AddElement
      <4>5. ASSUME quiet'[o], o \notin unlogged'
            PROVE  Balanced(Changes(o)', org'[o].status)
        <5>1. Balanced(Changes(o), org[o].status)
          BY <2>2, <4>5 DEF BalanceInv
        <5>2. Entry(r).previous = org[o].status /\ Entry(r).next = org'[o].status
          BY <2>2, <2>4, <3>3, <4>5 DEF Entry
        <5>3. Balanced(Changes(o) \cup {Entry(r)}, Entry(r).next)
          BY <4>2, <4>3, <5>1, <5>2, OneMoreBalances
        <5> QED BY <4>1, <5>2, <5>3
      <4> QED BY <4>1, <4>4, <4>5
    <3> QED BY <3>2, <3>3
  <2> QED BY <2>5, <2>6
<1>5. ASSUME NEW r \in OrgRequests, InsertEvent(r)
      PROVE  BalanceInv'
  <2> SUFFICES ASSUME NEW o \in Orgs
               PROVE  /\ IsFiniteSet(Changes(o)')
                      /\ quiet'[o] /\ o \notin unlogged' => Balanced(Changes(o)', org'[o].status)
    BY DEF BalanceInv, Balanced
  <2>1. /\ events' = events \cup {Entry(r)} /\ task[r].at = "event"
        /\ org' = org /\ quiet' = quiet /\ unlogged' = unlogged
    BY <1>5 DEF InsertEvent, Previous, Entry
  <2>2. task'[r].at = "idle" /\ \A q \in OrgRequests \ {r} : task'[q] = task[q]
    BY <1>5, TaskMoves
  <2>3. Changes(o)' = Changes(o)
    <3>1. \A q \in OrgRequests \ {r} : Entry(q)' = Entry(q) /\ (Owing(q, o)' <=> Owing(q, o))
      BY <2>2 DEF Entry, Owing
    <3>2. ~Owing(r, o)' /\ (Owing(r, o) <=> Entry(r).org = o)
      BY <2>1, <2>2 DEF Owing, Entry
    <3> QED BY <2>1, <3>1, <3>2 DEF Changes
  <2> QED BY <2>1, <2>3 DEF BalanceInv
<1>6. ASSUME NEW r \in OrgRequests, LoseEvent(r)
      PROVE  BalanceInv'
  <2> SUFFICES ASSUME NEW o \in Orgs
               PROVE  /\ IsFiniteSet(Changes(o)')
                      /\ quiet'[o] /\ o \notin unlogged' => Balanced(Changes(o)', org'[o].status)
    BY DEF BalanceInv, Balanced
  <2>1. /\ events' = events /\ task[r].at = "event"
        /\ org' = org /\ quiet' = quiet /\ unlogged' = unlogged \cup {task[r].org}
    BY <1>6 DEF LoseEvent
  <2>2. task'[r].at = "idle" /\ \A q \in OrgRequests \ {r} : task'[q] = task[q]
    BY <1>6, TaskMoves
  <2>3. \A q \in OrgRequests \ {r} : Entry(q)' = Entry(q) /\ (Owing(q, o)' <=> Owing(q, o))
    BY <2>2 DEF Entry, Owing
  <2>4. ~Owing(r, o)' /\ (Owing(r, o) => task[r].org = o)
    BY <2>2 DEF Owing
  <2>5. Changes(o)' \subseteq Changes(o)
    BY <2>1, <2>3, <2>4 DEF Changes
  <2>6. IsFiniteSet(Changes(o)')
    BY <2>5, FS_Subset DEF BalanceInv
  <2>7. o \notin unlogged' => Changes(o)' = Changes(o)
    BY <2>1, <2>3, <2>4 DEF Changes
  <2> QED BY <2>1, <2>6, <2>7 DEF BalanceInv
<1> QED BY OrgMoves, <1>2, <1>3, <1>4, <1>5, <1>6

\* The recorded changes of the status of an organization lead from "active" to the
\* stored one, once every event is in and none was lost: what changeStatus read
\* before its save is what its save replaced.
THEOREM HistoryCorrect == Spec => []HistoryBalances
<1> DEFINE IInv == ChangesNumbered /\ PreviousHolds /\ BalanceInv
<1>1. Init => IInv
  <2> SUFFICES ASSUME Init PROVE IInv
    OBVIOUS
  <2>1. /\ events = {} /\ \A o \in Orgs : org[o].status = "active"
        /\ \A r \in OrgRequests : task[r].at = "idle"
    BY DEF Init, OrgInit, NewOrg, NoTask
  <2>2. \A o \in Orgs : Changes(o) = {}
    BY <2>1 DEF Changes, Owing
  <2>3. IsFiniteSet({}) /\ Balanced({}, "active")
    <3>1. \A s : {e \in {} : e.next = s} = {} /\ {e \in {} : e.previous = s} = {}
      OBVIOUS
    <3> QED BY <3>1, FS_EmptySet DEF Balanced
  <2>4. BalanceInv
    BY <2>1, <2>2, <2>3 DEF BalanceInv
  <2> QED BY <2>1, <2>4 DEF ChangesNumbered, PreviousHolds, Holds
<1>2. ASSUME TypeOK, IInv, [Next]_vars PROVE IInv'
  <2>1. CASE OrgNext
    BY <1>2, <2>1, OrgNumbers, OrgPrevious, OrgBalance
  <2>2. CASE UNCHANGED orgVars /\ started' \in Nat /\ started' >= started
    <3>1. /\ started \in Nat /\ \A r \in OrgRequests : task[r].n \in Nat
          /\ \A e \in events : e.n \in Nat
      BY <1>2 DEF TypeOK, OrgTypeOK, Task, StatusEvent
    <3>2. ChangesNumbered'
      BY <1>2, <2>2, <3>1 DEF ChangesNumbered, orgVars
    <3>3. PreviousHolds'
      BY <1>2, <2>2 DEF PreviousHolds, Holds, Records, orgVars
    <3>4. \A o : Changes(o)' = Changes(o)
      BY <2>2 DEF Changes, Entry, Owing, orgVars
    <3>5. BalanceInv'
      BY <1>2, <2>2, <3>4 DEF BalanceInv, Balanced, orgVars
    <3> QED BY <3>2, <3>3, <3>5
  <2>3. CASE ~OrgNext
    <3>1. started \in Nat
      BY <1>2 DEF TypeOK, OrgTypeOK
    <3>2. UNCHANGED orgVars /\ (started' = started \/ started' = started + 1)
      BY <1>2, <2>3, Counts
    <3> QED BY <2>2, <3>1, <3>2
  <2> QED BY <2>1, <2>3
<1>3. IInv => HistoryBalances
  <2> SUFFICES ASSUME BalanceInv, NEW o \in Orgs, quiet[o], o \notin unlogged,
                      ~\E r \in OrgRequests : task[r].at = "event" /\ task[r].org = o
               PROVE  Balanced({e \in events : e.org = o}, org[o].status)
    BY DEF HistoryBalances, Balanced, At
  <2>1. Changes(o) = {e \in events : e.org = o}
    BY DEF Changes, Owing
  <2> QED BY <2>1 DEF BalanceInv
<1> QED BY <1>1, <1>2, <1>3, TypeCorrect, PTL DEF Spec

=============================================================================
