--------------------------- MODULE Organizations ---------------------------
(***************************************************************************)
(* The row of an organization and the requests that write it.              *)
(*                                                                         *)
(* Five handlers read the whole row, change the columns they are about and *)
(* save the row: the change of status by a platform operator, the upgrade  *)
(* of a plan, the retention policy and its purge, and the two halves of    *)
(* the verification of the e-mail address.  A save writes every column in  *)
(* which the copy differs from the table, so it takes back what others     *)
(* wrote since the read.  The settings and the entitlements update only    *)
(* their own columns.                                                      *)
(*                                                                         *)
(* The status is the hard stop that sign-in and every request obey, and    *)
(* each change of it is recorded, after the save, as an event.             *)
(***************************************************************************)
EXTENDS Naturals, FiniteSets

CONSTANTS
    Orgs,
    Plans, FirstPlan,
    OrgRequests,   \* requests about organizations that can be in flight
    MaxRequests,   \* bound: the requests that come in, of every kind
    MaxTime        \* bound: the last instant of the clock

VARIABLES
    clock,
    started,   \* requests that have come in; request n issues the tokens named n
    org,       \* the organizations table
    task,      \* per request: the handler, where it is, and its copy of the row
    events,    \* organization_status_events
    latest,    \* history: per column, what the last write that was about it wrote
    quiet,     \* history: no row was written while a request held a copy of it
    unlogged   \* history: organizations that miss an event

orgVars == <<org, task, events, latest, quiet, unlogged>>

ASSUME OrganizationsAssumption ==
    /\ Orgs # {} /\ FirstPlan \in Plans
    /\ MaxRequests \in Nat /\ MaxTime \in Nat

-----------------------------------------------------------------------------
Statuses == {"active", "suspended", "disabled"}

\* The columns more than one handler depends on; an instant or a token of 0 is NULL.
OrgRow == [status: Statuses, until: Nat, plan: Plans,
           verified: BOOLEAN, token: Nat, expires: Nat]

Handlers == {"status", "plan", "retention", "send", "verify"}

\* `previous` and `changed` are what changeStatus remembers for its event.
Task == [op: Handlers, at: {"idle", "save", "event"}, org: Orgs, row: OrgRow,
         n: Nat, previous: Statuses, changed: BOOLEAN]

NewOrg == [status |-> "active", until |-> 0, plan |-> FirstPlan,
           verified |-> FALSE, token |-> 0, expires |-> 0]

NoTask == [op |-> "status", at |-> "idle", org |-> CHOOSE o \in Orgs : TRUE, row |-> NewOrg,
           n |-> 0, previous |-> "active", changed |-> FALSE]

StatusEvent == [org: Orgs, n: Nat, previous: Statuses, next: Statuses]

Holds(r, o) == task[r].at = "save" /\ task[r].org = o

Tick == clock < MaxTime /\ clock' = clock + 1

\* A request comes in.
Comes == started < MaxRequests /\ started' = started + 1

-----------------------------------------------------------------------------
(* The hard stop. *)

\* resolveEffectiveStatus: a suspension ends by itself.
EffectiveStatus(row) ==
    IF row.status = "suspended" /\ row.until # 0 /\ row.until <= clock
    THEN "active" ELSE row.status

\* isBlockedById, assertActive
Blocked(o) == EffectiveStatus(org[o]) # "active"

-----------------------------------------------------------------------------
(* Whole-row writers: a handler reads the row, changes its copy ... *)

Hold(r, o, op, row, changed) ==
    /\ task[r].at = "idle"
    /\ Comes
    /\ task' = [task EXCEPT ![r] = [op |-> op, at |-> "save", org |-> o, row |-> row,
                                    n |-> started + 1, previous |-> org[o].status,
                                    changed |-> changed]]
    /\ UNCHANGED <<clock, org, events, latest, quiet, unlogged>>

\* changeStatus: a suspension may have an end, in the future.
ChangeStatus(r, o, status, until) ==
    /\ until # 0 => status = "suspended" /\ until > clock
    /\ Hold(r, o, "status", [org[o] EXCEPT !.status = status, !.until = until],
            org[o].status # status \/ org[o].until # until)

\* Mutant: an upgrade also lifts a suspension.
UpgradePlanLifts(r, o, plan) ==
    Hold(r, o, "plan", [org[o] EXCEPT !.plan = plan, !.status = "active"], FALSE)

\* upgradePlan
UpgradePlan(r, o, plan) == Hold(r, o, "plan", [org[o] EXCEPT !.plan = plan], FALSE)

\* updateDataRetentionPolicy and the purge, which deletes between its read and its
\* save; the columns they change are no one else's.
Retention(r, o) == Hold(r, o, "retention", org[o], FALSE)

\* sendOrganizationEmailVerification, unless the address is verified.
SendVerification(r, o) ==
    /\ ~org[o].verified
    /\ Hold(r, o, "send", [org[o] EXCEPT !.verified = FALSE, !.token = started + 1,
                                         !.expires = clock + 1], FALSE)

\* verifyOrganizationEmail finds the row by the token of the link.
VerifyEmail(r, o) ==
    /\ org[o].token # 0
    /\ org[o].expires >= clock
    /\ Hold(r, o, "verify", [org[o] EXCEPT !.verified = TRUE, !.token = 0, !.expires = 0], FALSE)

\* The columns a handler is about, taken from `row`; the rest are those of `base`.
Own(op, row, base) ==
    CASE op = "status" -> [base EXCEPT !.status = row.status, !.until = row.until]
      [] op = "plan"   -> [base EXCEPT !.plan = row.plan]
      [] op \in {"send", "verify"} -> [base EXCEPT !.verified = row.verified,
                                                   !.token = row.token, !.expires = row.expires]
      [] OTHER -> base

\* The row of o is written by r, or by an update of columns.
Disturbs(r, o) == \E q \in OrgRequests \ {r} : Holds(q, o)

\* What a save leaves in the table: the copy, whatever the row has become.
Saved(r) == task[r].row

\* Only a change that changes something is recorded.
Records(r) == task[r].op = "status" /\ task[r].changed

\* ... and saves it.
SaveOrg(r) ==
    LET o == task[r].org
    IN  /\ task[r].at = "save"
        /\ org' = [org EXCEPT ![o] = Saved(r)]
        /\ latest' = [latest EXCEPT ![o] = Own(task[r].op, task[r].row, latest[o])]
        /\ quiet' = [quiet EXCEPT ![o] = quiet[o] /\ ~Disturbs(r, o)]
        /\ task' = [task EXCEPT ![r] = IF Records(r) THEN [task[r] EXCEPT !.at = "event"]
                                       ELSE NoTask]
        /\ UNCHANGED <<clock, started, events, unlogged>>

\* Mutants: the previous status is read from the row that was just saved; the
\* default is not written.
PreviousSaved(r) == org[task[r].org].status
PreviousBlank(r) == IF task[r].previous = "active" THEN "" ELSE task[r].previous

\* The status the copy had before it was changed.
Previous(r) == task[r].previous

\* changeStatus inserts the event after the save ...
InsertEvent(r) ==
    /\ task[r].at = "event"
    /\ events' = events \cup {[org |-> task[r].org, n |-> task[r].n,
                               previous |-> Previous(r), next |-> task[r].row.status]}
    /\ task' = [task EXCEPT ![r] = NoTask]
    /\ UNCHANGED <<clock, started, org, latest, quiet, unlogged>>

\* ... which may fail, or never come: the status stays saved.
LoseEvent(r) ==
    /\ task[r].at = "event"
    /\ unlogged' = unlogged \cup {task[r].org}
    /\ task' = [task EXCEPT ![r] = NoTask]
    /\ UNCHANGED <<clock, started, org, events, latest, quiet>>

-----------------------------------------------------------------------------
(* Writers of columns. *)

Update(o, op, row) ==
    /\ Comes
    /\ org' = [org EXCEPT ![o] = row]
    /\ latest' = [latest EXCEPT ![o] = Own(op, row, latest[o])]
    /\ quiet' = [quiet EXCEPT ![o] = quiet[o] /\ ~\E q \in OrgRequests : Holds(q, o)]
    /\ UNCHANGED <<clock, task, events, unlogged>>

\* PlatformEntitlementsService.set, where the plan is another.
SetPlan(o, plan) == plan # org[o].plan /\ Update(o, "plan", [org[o] EXCEPT !.plan = plan])

\* OrganizationService.update with another address: it is no longer verified.
ChangeEmail(o) ==
    Update(o, "send", [org[o] EXCEPT !.verified = FALSE, !.token = 0, !.expires = 0])

-----------------------------------------------------------------------------
OrgInit ==
    /\ org = [o \in Orgs |-> NewOrg]
    /\ task = [r \in OrgRequests |-> NoTask]
    /\ events = {}
    /\ latest = org
    /\ quiet = [o \in Orgs |-> TRUE]
    /\ unlogged = {}

OrgRequest(r) ==
    \/ \E o \in Orgs :
          \/ \E s \in Statuses, u \in 0..MaxTime : ChangeStatus(r, o, s, u)
          \/ \E p \in Plans : UpgradePlan(r, o, p)
          \/ Retention(r, o)
          \/ SendVerification(r, o)
          \/ VerifyEmail(r, o)
    \/ SaveOrg(r)
    \/ InsertEvent(r)
    \/ LoseEvent(r)

OrgNext ==
    \/ \E r \in OrgRequests : OrgRequest(r)
    \/ \E o \in Orgs, p \in Plans : SetPlan(o, p)
    \/ \E o \in Orgs : ChangeEmail(o)

-----------------------------------------------------------------------------
OrgTypeOK ==
    /\ clock \in Nat /\ started \in Nat
    /\ org \in [Orgs -> OrgRow] /\ latest \in [Orgs -> OrgRow]
    /\ task \in [OrgRequests -> Task]
    /\ events \subseteq StatusEvent
    /\ quiet \in [Orgs -> BOOLEAN]
    /\ unlogged \subseteq Orgs

\* While no row is written under a copy that is still to be saved, every column
\* holds what the last handler that was about it wrote: a plan survives a change
\* of status, a suspension survives a purge, a verification and an upgrade.
NoLostUpdate == \A o \in Orgs : quiet[o] => org[o] = latest[o]

\* The recorded changes lead from the first status to the stored one, in whatever
\* order they were inserted, once every event is in and none was lost.
HistoryBalances ==
    \A o \in Orgs :
        LET about == {e \in events : e.org = o}
            at(s, t) == IF s = t THEN 1 ELSE 0
        IN  /\ quiet[o] /\ o \notin unlogged
            /\ ~\E r \in OrgRequests : task[r].at = "event" /\ task[r].org = o
            => \A s \in Statuses :
                 at(s, "active") + Cardinality({e \in about : e.next = s})
                 = at(s, org[o].status) + Cardinality({e \in about : e.previous = s})
=============================================================================
