------------------------------- MODULE Browser -------------------------------
(***************************************************************************)
(* A tab of the admin site: the token its API client holds, the user its   *)
(* store shows, and the cookies it shares with the other tabs.             *)
(*                                                                         *)
(* A call that is refused waits for a refresh of the session, one for all, *)
(* and is sent once more with what the refresh brought.  Whatever is       *)
(* refused for good empties the client and, but on the login page, loads   *)
(* the login page anew.  The answers come from the API in any order.       *)
(***************************************************************************)
EXTENDS Desk

CONSTANTS
    Tabs,       \* one tab's calls in flight
    People,     \* accounts
    NoOne       \* no account

VARIABLES
    page,       \* "login" or "inside"
    token,      \* whose token the client holds
    user,       \* whom the store shows
    cookie,     \* whose session the browser's cookies are
    fetch,      \* per call: what it is, who sends it, how often it was sent
    refresh,    \* the refresh in flight: whose session it renews
    mingled       \* history: answers of two sessions have crossed, or another tab changed the cookies

browserVars == <<page, token, user, cookie, fetch, refresh, mingled>>

ASSUME BrowserAssumption == NoOne \notin People

-----------------------------------------------------------------------------
Anyone == People \cup {NoOne}

Fetch == [at: {"idle", "sent", "waiting"}, kind: {"call", "me", "login", "logout"},
          as: Anyone, who: Anyone, sends: 0 .. 2]
NoFetch == [at |-> "idle", kind |-> "call", as |-> NoOne, who |-> NoOne, sends |-> 0]
NoRefresh == [on |-> FALSE, as |-> NoOne]

\* The header carries the client's token; without one the cookies count.
Caller == IF token # NoOne THEN token ELSE cookie

InFlight == {c \in Tabs : fetch[c].at # "idle"}

\* The wrappers of the API client, each a call of its own.
SendCall(c, kind, as) ==
    /\ fetch[c].at = "idle" /\ Comes("browser")
    /\ kind = "login" <=> as # NoOne
    /\ kind = "login" <=> page = "login"
    /\ fetch' = [fetch EXCEPT ![c] = [at |-> "sent", kind |-> kind, as |-> as, who |-> Caller, sends |-> 1]]
    /\ UNCHANGED <<page, token, user, cookie, refresh, mingled>>

Hears(c) == fetch[c].at = "sent" /\ UNCHANGED left

Crosses(c) == InFlight # {c} \/ refresh.on

\* Answers that change nothing: of most calls, and of a login that asks for a code first.
HearCall(c) ==
    /\ Hears(c) /\ fetch[c].kind \in {"call", "login"}
    /\ fetch[c].kind = "call" => fetch[c].who # NoOne
    /\ fetch' = [fetch EXCEPT ![c] = NoFetch]
    /\ UNCHANGED <<page, token, user, cookie, refresh, mingled>>

\* fetchCurrentUser
HearMe(c) ==
    /\ Hears(c) /\ fetch[c].kind = "me" /\ fetch[c].who # NoOne
    /\ user' = fetch[c].who
    /\ fetch' = [fetch EXCEPT ![c] = NoFetch]
    /\ UNCHANGED <<page, token, cookie, refresh, mingled>>

\* login, verifyTwoFactorLogin and register
HearLogin(c) ==
    /\ Hears(c) /\ fetch[c].kind = "login"
    /\ token' = fetch[c].as /\ user' = fetch[c].as /\ cookie' = fetch[c].as
    /\ page' = "inside"
    /\ fetch' = [fetch EXCEPT ![c] = NoFetch]
    /\ mingled' = Crosses(c)
    /\ UNCHANGED refresh

\* Mutant: signing out leaves the client its token.
KeptToken == token

\* clearAuthToken
ClearedToken == NoOne

HearLogout(c) ==
    /\ Hears(c) /\ fetch[c].kind = "logout" /\ fetch[c].who # NoOne
    /\ token' = ClearedToken /\ user' = NoOne /\ cookie' = NoOne
    /\ page' = "login"
    /\ fetch' = [fetch EXCEPT ![c] = NoFetch]
    /\ mingled' = Crosses(c)
    /\ UNCHANGED refresh

\* Mutant: a call waits however often it was sent.
AlwaysWaits(c) == TRUE

\* _retry
MayWait(c) == fetch[c].sends = 1

\* The first refusal waits for the refresh under way, or starts one.
RefusedOnce(c) ==
    /\ Hears(c) /\ MayWait(c)
    /\ fetch' = [fetch EXCEPT ![c].at = "waiting"]
    /\ refresh' = IF refresh.on THEN refresh ELSE [on |-> TRUE, as |-> cookie]
    /\ UNCHANGED <<page, token, user, cookie, mingled>>

\* A page that is loaded starts from nothing but the cookies.
Load(where) ==
    /\ page' = where
    /\ token' = NoOne /\ user' = NoOne
    /\ fetch' = [c \in Tabs |-> NoFetch]
    /\ refresh' = NoRefresh
    /\ mingled' = FALSE
    /\ UNCHANGED cookie

\* Calls that end in an error: who asked for the user has none to show.
Dropped(calls) ==
    /\ fetch' = [c \in Tabs |-> IF c \in calls THEN NoFetch ELSE fetch[c]]
    /\ user' = IF \E c \in calls : fetch[c].kind = "me" THEN NoOne ELSE user

RefusedAgain(c) ==
    /\ Hears(c) /\ ~MayWait(c)
    /\ IF page = "login"
       THEN token' = NoOne /\ Dropped({c}) /\ UNCHANGED <<page, cookie, refresh, mingled>>
       ELSE Load("login")

\* No answer, or an error of the API, also for the second time: the caller is told.
NoAnswer(c) ==
    /\ Hears(c)
    /\ Dropped({c})
    /\ token' = IF fetch[c].kind = "logout" THEN NoOne ELSE token
    /\ UNCHANGED <<page, cookie, refresh, mingled>>

Waiting == {c \in Tabs : fetch[c].at = "waiting"}

\* refreshSession: the new token is set, and everyone who waited is sent with it.
Refreshed ==
    /\ refresh.on /\ refresh.as # NoOne
    /\ token' = refresh.as /\ cookie' = refresh.as
    /\ refresh' = NoRefresh
    /\ fetch' = [c \in Tabs |-> IF c \in Waiting
                                THEN [fetch[c] EXCEPT !.at = "sent", !.who = refresh.as, !.sends = @ + 1]
                                ELSE fetch[c]]
    /\ UNCHANGED <<left, page, user, mingled>>

NotRefreshed ==
    /\ refresh.on /\ UNCHANGED left
    /\ IF page = "login"
       THEN token' = NoOne /\ refresh' = NoRefresh /\ Dropped(Waiting) /\ UNCHANGED <<page, cookie, mingled>>
       ELSE Load("login")

\* Someone opens a page by its address.
Visit(where) == Comes("browser") /\ Load(where)

\* Another tab signs in or out.
OtherTab(a) ==
    /\ Comes("browser") /\ cookie' = a
    /\ mingled' = TRUE
    /\ UNCHANGED <<page, token, user, fetch, refresh>>

BrowserInit ==
    /\ page = "login" /\ token = NoOne /\ user = NoOne
    /\ cookie \in Anyone
    /\ fetch = [c \in Tabs |-> NoFetch]
    /\ refresh = NoRefresh /\ mingled = FALSE

BrowserNext ==
    \/ May("browser") /\ \E c \in Tabs, kind \in {"call", "me", "login", "logout"}, as \in Anyone : SendCall(c, kind, as)
    \/ \E c \in Tabs :
          \/ HearCall(c) \/ HearMe(c) \/ HearLogin(c) \/ HearLogout(c)
          \/ RefusedOnce(c) \/ RefusedAgain(c) \/ NoAnswer(c)
    \/ Refreshed \/ NotRefreshed
    \/ \E where \in {"login", "inside"} : Visit(where)
    \/ \E a \in Anyone : OtherTab(a)

-----------------------------------------------------------------------------
BrowserTypeOK ==
    /\ page \in {"login", "inside"}
    /\ token \in Anyone /\ user \in Anyone /\ cookie \in Anyone
    /\ fetch \in [Tabs -> Fetch]
    /\ refresh \in [on: BOOLEAN, as: Anyone]
    /\ mingled \in BOOLEAN

\* No call waits without a refresh in flight, and none is in flight for nobody.
RefreshIsShared == refresh.on <=> Waiting # {}

\* The tab is of one account: its token and the user it shows are those of the cookies,
\* unless answers of two sessions crossed, or another tab changed the cookies.
OneAccount == mingled \/ (token \in {NoOne, cookie} /\ user \in {NoOne, cookie})

BrowserHolds == RefreshIsShared /\ OneAccount
=============================================================================
