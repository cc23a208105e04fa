------------------------------- MODULE Market -------------------------------
(***************************************************************************)
(* What an organization sets up beside its forms: features, checkout       *)
(* sessions, installment plans with the accounts of contacts, the tenants  *)
(* of its partners, and reconciliation runs over its payments.             *)
(*                                                                         *)
(* Every operation asks first whether its feature is on, then reads, and   *)
(* then writes one table after the other, the whole row it read.  No table *)
(* has a foreign key here; accounts and tenants have a unique index.       *)
(***************************************************************************)
EXTENDS Desk, FiniteSets

CONSTANTS
    Sessions, Plans, Holders,   \* ids; holders are contacts
    Parts,                      \* of a plan: the items there may be
    Totals,                     \* of a plan
    Tenants,                    \* pairs of a partner and an organization it takes on
    Entries,                    \* payments
    MaxAudit                    \* bound: the reconciliation runs there will ever be

VARIABLES
    feature,     \* market_readiness_flags: those that are on
    session,     \* checkout_sessions
    plan,        \* installment_plans: the total, or none
    items,       \* installment_plan_items: how many rows there are of each item of a plan
    account,     \* contact_installment_accounts: outstanding_amount, by contact and plan
    tenant,      \* partner_tenants: the status of each
    entry,       \* what a reconciliation sees of each payment
    audit,       \* reconciliation_runs: status and exceptions_found
    exception,   \* reconciliation_exceptions
    agent,       \* per request: the operation, where it is, and what it has read
    listed,      \* history: the list of items saved last, by plan
    mixed,       \* history: plans whose lists overlapped, or one was cut off
    due,         \* history: the total of the plan when an account was opened
    late,        \* history: accounts opened from a plan that was changed meanwhile
    once,        \* history: sessions that were completed
    torn,        \* history: sessions saved from a copy that was old
    broken       \* history: runs that were cut off

marketVars == <<feature, session, plan, items, account, tenant, entry, audit, exception, agent,
                listed, mixed, due, late, once, torn, broken>>

Audits == 1..MaxAudit

ASSUME MarketAssumption ==
    /\ MaxAudit \in Nat \ {0} /\ Totals \subseteq Nat \ {0}
    /\ Sessions # {} /\ Plans # {} /\ Tenants # {} /\ IsFiniteSet(Entries)

-----------------------------------------------------------------------------
Features == {"checkout", "installments", "reconciliation", "partners"}

SessionRow == [status: {"none", "STARTED", "FAILED", "COMPLETED", "ABANDONED"}, dated: BOOLEAN]
TenantStatus == {"PENDING", "ACTIVE", "PAUSED"}
AuditRow == [status: {"none", "PROCESSING", "COMPLETED"}, found: Nat]

\* What is wrong with a payment: PAID and owing, PARTIAL and squared, PENDING and old.
Wrongs == {"owing", "squared", "stale"}

Agent == [at: {"idle", "flags", "session", "items", "delete", "insert", "read", "accounts", "tenant",
               "scan", "exceptions", "complete", "resolve"},
          on: SUBSET Features, session: Sessions, row: SessionRow,
          plan: Plans, total: Totals \cup {0}, parts: SUBSET Parts, relist: BOOLEAN,
          holders: SUBSET Holders, tenant: Tenants, status: TenantStatus, known: BOOLEAN,
          audit: Audits, found: SUBSET (Entries \X Wrongs)]

NoAgent == [at |-> "idle", on |-> {}, session |-> CHOOSE s \in Sessions : TRUE,
            row |-> [status |-> "none", dated |-> FALSE],
            plan |-> CHOOSE p \in Plans : TRUE, total |-> 0, parts |-> {}, relist |-> FALSE,
            holders |-> {}, tenant |-> CHOOSE t \in Tenants : TRUE, status |-> "PENDING", known |-> FALSE,
            audit |-> 1, found |-> {}]

\* assertFeatureEnabled comes first, and is not asked again.
Asks(r, kind, f, new) ==
    /\ agent[r].at = "idle" /\ f \in feature
    /\ Comes(kind)
    /\ agent' = [agent EXCEPT ![r] = new]

AgentTurns(r, new) == agent' = [agent EXCEPT ![r] = new] /\ UNCHANGED left
Ends(r) == AgentTurns(r, NoAgent)

sessionVars == <<session, once, torn>>
planVars == <<plan, items, account, listed, mixed, due, late>>
bookVars == <<entry, audit, exception, broken>>

-----------------------------------------------------------------------------
(* Features. *)

\* updateFlags reads the row of the organization ...
AskFlags(r, on) ==
    /\ agent[r].at = "idle" /\ Comes("books")
    /\ agent' = [agent EXCEPT ![r] = [NoAgent EXCEPT !.at = "flags", !.on = on]]
    /\ UNCHANGED <<feature, sessionVars, planVars, tenant, bookVars>>

\* ... and normalizes what is asked for over it: a feature not named is off.
UpdateFlags(r) ==
    /\ agent[r].at = "flags"
    /\ feature' = agent[r].on
    /\ Ends(r)
    /\ UNCHANGED <<sessionVars, planVars, tenant, bookVars>>

-----------------------------------------------------------------------------
(* Checkout sessions. *)

CreateSession(s) ==
    /\ session[s].status = "none" /\ "checkout" \in feature
    /\ Comes("books")
    /\ session' = [session EXCEPT ![s].status = "STARTED"]
    /\ UNCHANGED <<feature, once, torn, planVars, tenant, bookVars, agent>>

Restated(row, status) == [status |-> status, dated |-> row.dated \/ status = "COMPLETED"]

\* updateCheckoutSession; without a status it says STARTED.
AskSession(r, s, status) ==
    /\ session[s].status # "none"
    /\ Asks(r, "books", "checkout",
            [NoAgent EXCEPT !.at = "session", !.session = s, !.row = Restated(session[s], status)])
    /\ UNCHANGED <<feature, sessionVars, planVars, tenant, bookVars>>

SaveSession(r) ==
    LET s == agent[r].session
    IN  /\ agent[r].at = "session"
        /\ session' = [session EXCEPT ![s] = agent[r].row]
        /\ once' = IF agent[r].row.dated THEN once \cup {s} ELSE once
        /\ torn' = IF \E q \in Clerks \ {r} : agent[q].at = "session" /\ agent[q].session = s
                   THEN torn \cup {s} ELSE torn
        /\ Ends(r)
        /\ UNCHANGED <<feature, planVars, tenant, bookVars>>

-----------------------------------------------------------------------------
(* Installment plans. *)

Listing(p) == {q \in Clerks : agent[q].at \in {"items", "delete", "insert"} /\ agent[q].plan = p}

\* createInstallmentPlan: the plan, then its items.
CreatePlan(r, p, total, parts) ==
    /\ plan[p] = 0 /\ parts # {}
    /\ Asks(r, "plans", "installments", [NoAgent EXCEPT !.at = "insert", !.plan = p, !.parts = parts])
    /\ plan' = [plan EXCEPT ![p] = total]
    /\ UNCHANGED <<feature, sessionVars, items, account, listed, mixed, due, late, tenant, bookVars>>

\* updateInstallmentPlan reads the plan ...
AskPlan(r, p, total, parts, relist) ==
    /\ plan[p] # 0 /\ (relist \/ parts = {})
    /\ Asks(r, "plans", "installments",
            [NoAgent EXCEPT !.at = "items", !.plan = p, !.total = total, !.parts = parts, !.relist = relist])
    /\ UNCHANGED <<feature, sessionVars, planVars, tenant, bookVars>>

\* ... and saves it; requests that opened accounts from it hold an old total now ...
SavePlan(r) ==
    LET p == agent[r].plan
        stale == {q \in Clerks : agent[q].at = "accounts" /\ agent[q].plan = p}
    IN  /\ agent[r].at = "items"
        /\ plan' = [plan EXCEPT ![p] = agent[r].total]
        /\ late' = late \cup UNION {agent[q].holders \X {p} : q \in stale}
        /\ IF agent[r].relist THEN AgentTurns(r, [agent[r] EXCEPT !.at = "delete"]) ELSE Ends(r)
        /\ UNCHANGED <<feature, sessionVars, items, account, listed, mixed, due, tenant, bookVars>>

\* Mutant: the items there are stay.
KeepItems(r) ==
    /\ agent[r].at = "delete"
    /\ AgentTurns(r, [agent[r] EXCEPT !.at = "insert"])
    /\ UNCHANGED <<feature, sessionVars, planVars, tenant, bookVars>>

\* ... deletes the items, if there are others to save ...
DeleteItems(r) ==
    LET p == agent[r].plan
    IN  /\ agent[r].at = "delete"
        /\ items' = [items EXCEPT ![p] = [x \in Parts |-> 0]]
        /\ mixed' = IF Listing(p) = {r} THEN mixed ELSE mixed \cup {p}
        /\ AgentTurns(r, [agent[r] EXCEPT !.at = "insert"])
        /\ UNCHANGED <<feature, sessionVars, plan, account, listed, due, late, tenant, bookVars>>

\* ... and saves those; also the last step of a creation.
InsertItems(r) ==
    LET p == agent[r].plan
    IN  /\ agent[r].at = "insert"
        /\ items' = [items EXCEPT ![p] = [x \in Parts |-> @[x] + IF x \in agent[r].parts THEN 1 ELSE 0]]
        /\ listed' = [listed EXCEPT ![p] = agent[r].parts]
        /\ mixed' = IF Listing(p) = {r} THEN mixed ELSE mixed \cup {p}
        /\ Ends(r)
        /\ UNCHANGED <<feature, sessionVars, plan, account, due, late, tenant, bookVars>>

\* The items are not saved: those that were are gone already.
ItemsThrow(r) ==
    /\ agent[r].at = "insert" /\ Comes("chance")
    /\ agent' = [agent EXCEPT ![r] = NoAgent]
    /\ mixed' = mixed \cup {agent[r].plan}
    /\ UNCHANGED <<feature, sessionVars, plan, items, account, listed, due, late, tenant, bookVars>>

\* assignInstallmentPlanContacts reads the plan ...
AskAssign(r, p, holders) ==
    /\ plan[p] # 0 /\ holders # {}
    /\ Asks(r, "plans", "installments",
            [NoAgent EXCEPT !.at = "accounts", !.plan = p, !.total = plan[p], !.holders = holders])
    /\ UNCHANGED <<feature, sessionVars, planVars, tenant, bookVars>>

\* ... leaves out the contacts that have an account ...
Unassigned(r) == {c \in agent[r].holders : account[<<c, agent[r].plan>>] = 0}

ReadAccounts(r) ==
    /\ agent[r].at = "accounts" /\ ~agent[r].known
    /\ IF Unassigned(r) = {} THEN Ends(r)
       ELSE AgentTurns(r, [agent[r] EXCEPT !.holders = Unassigned(r), !.known = TRUE])
    /\ UNCHANGED <<feature, sessionVars, planVars, tenant, bookVars>>

\* ... and opens one for each of the others, or for none: the index is unique.
OpenAccounts(r) ==
    LET p == agent[r].plan
        new == agent[r].holders \X {p}
    IN  /\ agent[r].at = "accounts" /\ agent[r].known
        /\ IF Unassigned(r) = agent[r].holders
           THEN /\ account' = [k \in Holders \X Plans |-> IF k \in new THEN agent[r].total ELSE account[k]]
                /\ due' = [k \in Holders \X Plans |-> IF k \in new THEN plan[p] ELSE due[k]]
           ELSE UNCHANGED <<account, due>>
        /\ Ends(r)
        /\ UNCHANGED <<feature, sessionVars, plan, items, listed, mixed, late, tenant, bookVars>>

-----------------------------------------------------------------------------
(* Partners. *)

\* onboardPartnerOrganization looks the pair up ...
AskTenant(r, t, status) ==
    /\ Asks(r, "books", "partners",
            [NoAgent EXCEPT !.at = "tenant", !.tenant = t, !.status = status, !.known = tenant[t] # "none"])
    /\ UNCHANGED <<feature, sessionVars, planVars, tenant, bookVars>>

\* ... and saves it, or inserts it, which the index refuses the second time.
SaveTenant(r) ==
    LET a == agent[r]
    IN  /\ a.at = "tenant"
        /\ tenant' = IF a.known \/ tenant[a.tenant] = "none" THEN [tenant EXCEPT ![a.tenant] = a.status] ELSE tenant
        /\ Ends(r)
        /\ UNCHANGED <<feature, sessionVars, planVars, bookVars>>

-----------------------------------------------------------------------------
(* Reconciliation. *)

\* Payments grow old, and are paid.
EntryMoves(p, w) ==
    /\ Comes("books") /\ w \in {"fine", "stale"} \ {entry[p]}
    /\ entry' = [entry EXCEPT ![p] = w]
    /\ UNCHANGED <<feature, sessionVars, planVars, tenant, audit, exception, broken, agent>>

\* createReconciliationRun saves the run as PROCESSING ...
AskAudit(r) ==
    \E n \in Audits :
        /\ audit[n].status = "none" /\ \A m \in Audits : m < n => audit[m].status # "none"
        /\ audit' = [audit EXCEPT ![n].status = "PROCESSING"]
        /\ Asks(r, "books", "reconciliation", [NoAgent EXCEPT !.at = "scan", !.audit = n])
        /\ UNCHANGED <<feature, sessionVars, planVars, tenant, entry, exception, broken>>

\* ... reads the payments of the period ...
Scan(r) ==
    /\ agent[r].at = "scan"
    /\ AgentTurns(r, [agent[r] EXCEPT !.at = "exceptions",
                   !.found = {<<p, entry[p]>> : p \in {q \in Entries : entry[q] # "fine"}}])
    /\ UNCHANGED <<feature, sessionVars, planVars, tenant, bookVars>>

\* ... saves an exception for each that is wrong, in one transaction ...
SaveExceptions(r) ==
    LET n == agent[r].audit
    IN  /\ agent[r].at = "exceptions"
        /\ exception' = exception \cup {[audit |-> n, entry |-> x[1], type |-> x[2], status |-> "OPEN"] : x \in agent[r].found}
        /\ AgentTurns(r, [agent[r] EXCEPT !.at = "complete"])
        /\ UNCHANGED <<feature, sessionVars, planVars, tenant, entry, audit, broken>>

\* Mutant: only those that are open still are counted.
CompleteWithOpen(r) ==
    LET n == agent[r].audit
    IN  /\ agent[r].at = "complete"
        /\ audit' = [audit EXCEPT ![n] = [status |-> "COMPLETED",
                        found |-> Cardinality({x \in exception : x.audit = n /\ x.status = "OPEN"})]]
        /\ Ends(r)
        /\ UNCHANGED <<feature, sessionVars, planVars, tenant, entry, exception, broken>>

\* ... and then the run, with their number.
CompleteAudit(r) ==
    LET n == agent[r].audit
    IN  /\ agent[r].at = "complete"
        /\ audit' = [audit EXCEPT ![n] = [status |-> "COMPLETED", found |-> Cardinality(agent[r].found)]]
        /\ Ends(r)
        /\ UNCHANGED <<feature, sessionVars, planVars, tenant, entry, exception, broken>>

\* Nothing catches what throws: the run stays as it is.
AuditThrows(r) ==
    /\ agent[r].at \in {"scan", "exceptions", "complete"} /\ Comes("chance")
    /\ agent' = [agent EXCEPT ![r] = NoAgent]
    /\ broken' = broken \cup {agent[r].audit}
    /\ UNCHANGED <<feature, sessionVars, planVars, tenant, entry, audit, exception>>

\* updateReconciliationException, of any status into any; read and saved in one step.
UpdateException(x, status) ==
    /\ x \in exception /\ "reconciliation" \in feature
    /\ Comes("books")
    /\ exception' = (exception \ {x}) \cup {[x EXCEPT !.status = status]}
    /\ UNCHANGED <<feature, sessionVars, planVars, tenant, entry, audit, broken, agent>>

-----------------------------------------------------------------------------
\* The process dies, with its requests.
AgentsDie ==
    LET lost(at) == {r \in Clerks : agent[r].at \in at}
    IN  /\ mixed' = mixed \cup {agent[r].plan : r \in lost({"insert"})}
        /\ broken' = broken \cup {agent[r].audit : r \in lost({"scan", "exceptions", "complete"})}
        /\ agent' = [r \in Clerks |-> NoAgent]
        /\ UNCHANGED <<feature, session, plan, items, account, tenant, entry, audit, exception, listed, due, late, once, torn>>

MarketInit ==
    /\ feature = Features
    /\ session = [s \in Sessions |-> [status |-> "none", dated |-> FALSE]]
    /\ plan = [p \in Plans |-> 0]
    /\ items = [p \in Plans |-> [x \in Parts |-> 0]]
    /\ account = [k \in Holders \X Plans |-> 0]
    /\ tenant = [t \in Tenants |-> "none"]
    /\ entry \in [Entries -> Wrongs \cup {"fine"}]
    /\ audit = [n \in Audits |-> [status |-> "none", found |-> 0]]
    /\ exception = {}
    /\ agent = [r \in Clerks |-> NoAgent]
    /\ listed = [p \in Plans |-> {}]
    /\ due = account
    /\ mixed = {} /\ late = {} /\ once = {} /\ torn = {} /\ broken = {}

AskSetup(r) ==
    \/ \E on \in SUBSET Features : AskFlags(r, on)
    \/ \E s \in Sessions, status \in {"STARTED", "FAILED", "COMPLETED", "ABANDONED"} : AskSession(r, s, status)
    \/ \E t \in Tenants, status \in TenantStatus : AskTenant(r, t, status)

SetupStep(r) == UpdateFlags(r) \/ SaveSession(r) \/ SaveTenant(r)

AskPlans(r) == \E p \in Plans :
    \/ \E total \in Totals, parts \in SUBSET Parts :
          CreatePlan(r, p, total, parts) \/ \E relist \in BOOLEAN : AskPlan(r, p, total, parts, relist)
    \/ \E holders \in SUBSET Holders : AskAssign(r, p, holders)

PlanStep(r) ==
    \/ SavePlan(r) \/ DeleteItems(r) \/ InsertItems(r) \/ ItemsThrow(r)
    \/ ReadAccounts(r) \/ OpenAccounts(r)

AuditStep(r) ==
    Scan(r) \/ SaveExceptions(r) \/ CompleteAudit(r) \/ AuditThrows(r)

MarketNext ==
    \/ May("books") /\
          \/ \E s \in Sessions : CreateSession(s)
          \/ \E p \in Entries, w \in {"fine", "stale"} : EntryMoves(p, w)
          \/ \E x \in exception, status \in {"OPEN", "RESOLVED", "IGNORED"} : UpdateException(x, status)
          \/ \E r \in Clerks : AskSetup(r) \/ AskAudit(r)
    \/ May("plans") /\ \E r \in Clerks : AskPlans(r)
    \/ \E r \in Clerks : SetupStep(r) \/ PlanStep(r) \/ AuditStep(r)

-----------------------------------------------------------------------------
MarketTypeOK ==
    /\ feature \subseteq Features
    /\ session \in [Sessions -> SessionRow]
    /\ plan \in [Plans -> Totals \cup {0}]
    /\ items \in [Plans -> [Parts -> Nat]]
    /\ account \in [Holders \X Plans -> Totals \cup {0}]
    /\ tenant \in [Tenants -> TenantStatus \cup {"none"}]
    /\ entry \in [Entries -> Wrongs \cup {"fine"}]
    /\ audit \in [Audits -> AuditRow]
    /\ exception \subseteq [audit: Audits, entry: Entries, type: Wrongs, status: {"OPEN", "RESOLVED", "IGNORED"}]
    /\ agent \in [Clerks -> Agent]
    /\ listed \in [Plans -> SUBSET Parts]
    /\ due \in [Holders \X Plans -> Totals \cup {0}]
    /\ mixed \subseteq Plans /\ late \subseteq Holders \X Plans
    /\ once \subseteq Sessions /\ torn \subseteq Sessions /\ broken \subseteq Audits

\* A plan has exactly the items of the list saved last, unless two lists overlapped or
\* one was cut off between its statements.
ItemsAreOneList ==
    \A p \in Plans :
        p \notin mixed /\ ~(\E r \in Listing(p) : agent[r].at = "insert") =>
            items[p] = [x \in Parts |-> IF x \in listed[p] THEN 1 ELSE 0]

\* An account was opened with what its plan asked for then, unless the plan was
\* changed while the request was under way.
AccountsAreOwed == \A k \in Holders \X Plans : account[k] = due[k] \/ k \in late

\* A session that was completed once keeps its date, whatever its status says later,
\* unless a request saved a copy from before.
SessionsAreDated == \A s \in once : session[s].dated \/ s \in torn

\* A run says COMPLETED when, and only when, all it has found is there to be resolved,
\* and PROCESSING while it is under way, or for good if it was cut off.
AuditsAddUp ==
    \A n \in Audits :
        LET rows == {x \in exception : x.audit = n}
        IN  \/ audit[n].status = "COMPLETED" /\ audit[n].found = Cardinality(rows)
            \/ audit[n].status = "none" /\ rows = {}
            \/ audit[n].status = "PROCESSING" /\ (n \in broken \/ \E r \in Clerks : agent[r].at # "idle" /\ agent[r].audit = n)

BooksHold == ItemsAreOneList /\ AccountsAreOwed /\ SessionsAreDated /\ AuditsAddUp

\* A reconciliation run is a task whose work is what it has found wrong with which payment,
\* however that was resolved since, and whose result is the number it was saved with.
Findings(n) == {<<x.entry, x.type>> : x \in {y \in exception : y.audit = n}}

AuditStage(n) ==
    CASE audit[n].status = "none"                            -> "new"
      [] audit[n].status = "PROCESSING" /\ n \notin broken -> "open"
      [] audit[n].status = "PROCESSING" /\ n \in broken    -> "lost"
      [] OTHER                                               -> "over"

AuditTask == INSTANCE Tasks WITH
    Tasks  <- Audits,
    stage  <- [n \in Audits |-> AuditStage(n)],
    work   <- [n \in Audits |-> Findings(n)],
    result <- [n \in Audits |-> audit[n].found]
=============================================================================
