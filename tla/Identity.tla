------------------------------ MODULE Identity ------------------------------
(***************************************************************************)
(* Organizations and the accounts of their staff, and the clock they       *)
(* share: the hard stop of an organization is read by sign-in and refresh, *)
(* and an impersonation session lets an operator past it.                  *)
(***************************************************************************)
EXTENDS Accounts

CONSTANTS
    Operators   \* requests of the platform that start, end or use a session

VARIABLES
    session,   \* impersonation_sessions: per request that started one, or NoSession
    visit,     \* per request: where it is, its session, and what it read of it
    flag,      \* the feature flag that gates impersonation
    override,  \* its overrides, by organization
    admitted,  \* history: per request let in, its session and whether that was over
    closed,    \* history: sessions an operator ended
    raced      \* history: an override was being saved while the flag was being removed

sessionVars == <<session, visit, flag, override, admitted, closed, raced>>
vars == <<clock, started, orgVars, accountVars, sessionVars>>

-----------------------------------------------------------------------------
\* A session is named after the request that opened it.
Sessions == 1..MaxRequests
SessionRow == [status: {"none", "active", "ended", "expired"}, user: Users, expires: Nat]
FlagValues == {"missing", "off", "on"}

Visit == [op: {"start", "use", "end", "upsert", "override", "remove"},
          at: {"idle", "read", "save", "expire", "flag"}, n: Nat, session: Nat,
          user: Users, org: Orgs, value: FlagValues, found: BOOLEAN, over: BOOLEAN]
NoVisit == [op |-> "start", at |-> "idle", n |-> 0, session |-> 0,
            user |-> CHOOSE u \in Users : TRUE, org |-> CHOOSE o \in Orgs : TRUE,
            value |-> "missing", found |-> FALSE, over |-> FALSE]
NoSession == [status |-> "none", user |-> NoVisit.user, expires |-> 0]

Visits(r, new) ==
    /\ visit[r].at = "idle"
    /\ Comes
    /\ visit' = [visit EXCEPT ![r] = [new EXCEPT !.n = started + 1]]
    /\ UNCHANGED <<clock, session, flag, override, admitted, closed, raced>>

Leaves(r) == visit' = [visit EXCEPT ![r] = NoVisit]
VisitGoes(r, at) == visit' = [visit EXCEPT ![r] = [visit[r] EXCEPT !.at = at]]

-----------------------------------------------------------------------------
(* Feature flags. *)

\* resolve: an override beats the default of the flag.
Resolved(o) == IF flag = "missing" \/ override[o] = "missing" THEN flag ELSE override[o]

\* assertImpersonationAllowed: a flag that is not there allows.
Allowed(o) == Resolved(o) # "off"

\* upsert reads the flag, and saves it as it is asked for; a flag that was not
\* there is inserted, and the primary key refuses a second one.
AskUpsert(r, value) ==
    Visits(r, [NoVisit EXCEPT !.op = "upsert", !.at = "save", !.value = value,
                              !.found = flag # "missing"])

SaveFlag(r) ==
    /\ visit[r].at = "save" /\ visit[r].op = "upsert"
    /\ flag' = IF visit[r].found \/ flag = "missing" THEN visit[r].value ELSE flag
    /\ Leaves(r)
    /\ UNCHANGED <<clock, started, session, override, admitted, closed, raced>>

Removing == \E q \in Operators : visit[q].op = "remove" /\ visit[q].at # "idle"
Overriding == \E q \in Operators : visit[q].op = "override" /\ visit[q].at # "idle"

\* setOverride requires the flag, and saves or inserts the override in the same way.
AskOverride(r, o, value) ==
    /\ flag # "missing"
    /\ Visits(r, [NoVisit EXCEPT !.op = "override", !.at = "save", !.org = o, !.value = value,
                                 !.found = override[o] # "missing"])

SaveOverride(r) ==
    LET o == visit[r].org
    IN  /\ visit[r].at = "save" /\ visit[r].op = "override"
        /\ override' = [override EXCEPT ![o] = IF visit[r].found \/ @ = "missing"
                                               THEN visit[r].value ELSE @]
        /\ raced' = (raced \/ Removing)
        /\ Leaves(r)
        /\ UNCHANGED <<clock, started, session, flag, admitted, closed>>

ClearOverride(o) ==
    /\ Comes
    /\ flag # "missing" /\ override[o] # "missing"
    /\ override' = [override EXCEPT ![o] = "missing"]
    /\ UNCHANGED <<clock, session, visit, flag, admitted, closed, raced>>

\* remove requires the flag, deletes the overrides ...
AskRemove(r) ==
    /\ flag # "missing"
    /\ Visits(r, [NoVisit EXCEPT !.op = "remove", !.at = "save"])

NoOverrides == [o \in Orgs |-> "missing"]

DeleteOverrides(r) ==
    /\ visit[r].at = "save" /\ visit[r].op = "remove"
    /\ override' = NoOverrides
    /\ VisitGoes(r, "flag")
    /\ UNCHANGED <<clock, started, session, flag, admitted, closed, raced>>

\* ... and then the flag.
RemoveFlag(r) ==
    /\ visit[r].at = "flag"
    /\ flag' = "missing"
    /\ raced' = (raced \/ Overriding)
    /\ Leaves(r)
    /\ UNCHANGED <<clock, started, session, override, admitted, closed>>

-----------------------------------------------------------------------------
(* Impersonation. *)

\* start: the flag allows it; then the session is saved and a token is signed.
AskStart(r, u) ==
    /\ Allowed(OrgOf[u])
    /\ Visits(r, [NoVisit EXCEPT !.op = "start", !.at = "save", !.user = u])

OpenSession(r) ==
    /\ visit[r].at = "save" /\ visit[r].op = "start"
    /\ session' = [session EXCEPT ![visit[r].n] =
                      [status |-> "active", user |-> visit[r].user, expires |-> clock + 1]]
    /\ Leaves(r)
    /\ UNCHANGED <<clock, started, flag, override, admitted, closed, raced>>

\* end reads the session, and saves it as ended if it was active.
AskEnd(r, s) ==
    /\ session[s].status = "active"
    /\ Visits(r, [NoVisit EXCEPT !.op = "end", !.at = "save", !.session = s])

EndSession(r) ==
    LET s == visit[r].session
    IN  /\ visit[r].at = "save" /\ visit[r].op = "end"
        /\ session' = [session EXCEPT ![s].status = "ended"]
        /\ closed' = closed \cup {s}
        /\ Leaves(r)
        /\ UNCHANGED <<clock, started, flag, override, admitted, raced>>

Over(s) == s \in closed \/ session[s].expires <= clock

\* A request with the token of a session: validateUser reads the user ...
Use(r, s) ==
    /\ session[s].status # "none"
    /\ Visits(r, [NoVisit EXCEPT !.op = "use", !.at = "read", !.session = s, !.over = Over(s)])

\* Mutant: the status is enough, the time is left to the token.
LiveByStatus(row) == row.status = "active"

Live(row) == row.status = "active" /\ row.expires > clock

\* ... and assertActiveImpersonationSession the session: it must be active and
\* not expired.
Admit(r) ==
    LET s == visit[r].session
    IN  /\ visit[r].at = "read"
        /\ Live(session[s])
        /\ admitted' = admitted \cup {[session |-> s, over |-> visit[r].over]}
        /\ Leaves(r)
        /\ UNCHANGED <<clock, started, session, flag, override, closed, raced>>

\* One that was active and has expired is marked.
Reject(r) ==
    LET row == session[visit[r].session]
    IN  /\ visit[r].at = "read"
        /\ ~Live(row)
        /\ IF row.status = "active" THEN VisitGoes(r, "expire") ELSE Leaves(r)
        /\ UNCHANGED <<clock, started, session, flag, override, admitted, closed, raced>>

Expire(r) ==
    LET s == visit[r].session
    IN  /\ visit[r].at = "expire"
        /\ session' = [session EXCEPT ![s].status = "expired"]
        /\ Leaves(r)
        /\ UNCHANGED <<clock, started, flag, override, admitted, closed, raced>>

-----------------------------------------------------------------------------
SessionsInit ==
    /\ session = [s \in Sessions |-> NoSession]
    /\ visit = [r \in Operators |-> NoVisit]
    /\ flag \in {"missing", "on"}
    /\ override = [o \in Orgs |-> "missing"]
    /\ admitted = {} /\ closed = {}
    /\ raced = FALSE

Operator(r) ==
    \/ \E value \in {"off", "on"} : AskUpsert(r, value) \/ \E o \in Orgs : AskOverride(r, o, value)
    \/ AskRemove(r)
    \/ \E u \in Users : AskStart(r, u)
    \/ \E s \in Sessions : AskEnd(r, s) \/ Use(r, s)
    \/ SaveFlag(r) \/ SaveOverride(r) \/ DeleteOverrides(r) \/ RemoveFlag(r)
    \/ OpenSession(r) \/ EndSession(r) \/ Admit(r) \/ Reject(r) \/ Expire(r)

SessionsNext ==
    \/ \E r \in Operators : Operator(r)
    \/ \E o \in Orgs : ClearOverride(o)

-----------------------------------------------------------------------------
Init ==
    /\ clock = 0
    /\ started = 1
    /\ OrgInit /\ AccountsInit /\ SessionsInit

Next ==
    \/ OrgNext /\ UNCHANGED <<accountVars, sessionVars>>
    \/ AccountsNext /\ UNCHANGED <<orgVars, sessionVars>>
    \/ SessionsNext /\ UNCHANGED <<orgVars, accountVars>>
    \/ Tick /\ UNCHANGED <<started, orgVars, accountVars, sessionVars>>

Spec == Init /\ [][Next]_vars

-----------------------------------------------------------------------------
TypeOK ==
    /\ OrgTypeOK /\ AccountsTypeOK
    /\ session \in [Sessions -> SessionRow]
    /\ visit \in [Operators -> Visit]
    /\ flag \in FlagValues /\ override \in [Orgs -> FlagValues]
    /\ admitted \subseteq [session: Nat, over: BOOLEAN] /\ closed \subseteq Nat
    /\ raced \in BOOLEAN

\* Ending a session revokes its token at once: no request is admitted that came in
\* after an operator ended the session or after its time, whatever expiry marks and
\* ends cross in between.
RevokedIsRefused == \A a \in admitted : ~a.over

\* A flag that is created again starts from a clean slate: no override outlives its
\* flag, unless one was being saved while the flag was removed.
CleanSlate == flag = "missing" /\ ~raced => \A o \in Orgs : override[o] = "missing"

\* What an operator ended or removed has no effect later.
ImpersonationHolds == RevokedIsRefused /\ CleanSlate
=============================================================================
