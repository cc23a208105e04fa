----------------------------- MODULE PlanLimits -----------------------------
(***************************************************************************)
(* The hard limits of an organization's plan (billing) and the writers     *)
(* they guard: forms, contacts, staff seats and submissions, which are     *)
(* counted in their tables, and e-mail and storage, which are summed from  *)
(* a ledger of usage events.                                               *)
(*                                                                         *)
(* assertWithinHardLimit reads the tier, the override and the usage, one   *)
(* await after the other, and the writer writes some awaits later: nothing *)
(* holds the room it was promised.  Meanwhile operators change tiers and   *)
(* overrides, rows are deleted and months begin.  A resource is counted in *)
(* its own unit; the model is of one organization.                         *)
(***************************************************************************)
EXTENDS Integers, FiniteSets

CONSTANTS
    Counted,      \* resources counted in a table
    Deletable,    \* those of them whose rows can be deleted and edited
    Mails,        \* resources metered by sends
    Files,        \* resources metered by bytes stored
    Monthly,      \* the monthly_* resources
    Tiers, FirstTier,
    PlanLimit,    \* BILLING_PLANS: the hard limit of a tier for a resource
    Limits,       \* the values overrides are given
    NoLimit,      \* a NULL column of the override row
    Batch,        \* the largest increment of one request, by resource
    Handlers,     \* requests of the tenant that can be in flight
    Operators,    \* requests of platform operators that can be in flight
    MaxEvents     \* bound: operators' requests, deletions, months, exempt mails and faults

VARIABLES
    tier,      \* organizations.billing_plan_tier
    override,  \* the override row: its id, 0 for none, and its columns
    used,      \* rows in the tables; history: what checked sends and uploads used
    ledger,    \* organization_usage_events, summed by metric
    pc, op,    \* per handler: where it is, and its arguments and what it has read
    ask, edit, \* per operator: where it is, and what it was asked and has read
    peak,      \* history: the highest tier limit or override there has been
    revived,   \* history: rows inserted again by saving a copy of a deleted one
    changes, deletes, months, exempts, faults

account == <<tier, override, peak>>
usage   == <<used, ledger, revived>>
procs   == <<pc, op>>
console == <<ask, edit, changes>>
bounds  == <<deletes, months, exempts, faults>>
vars    == <<tier, override, used, ledger, pc, op, ask, edit, peak, revived,
             changes, deletes, months, exempts, faults>>

-----------------------------------------------------------------------------
Metered   == Mails \cup Files
Resources == Counted \cup Metered

ASSUME LimitsAssumption ==
    /\ Deletable \subseteq Counted /\ Monthly \subseteq Resources
    /\ Counted \cap Metered = {} /\ Mails \cap Files = {}
    /\ Files \cap Monthly = {}     \* storage_gb is summed over all time
    /\ Resources # {}
    /\ FirstTier \in Tiers
    /\ PlanLimit \in [Tiers -> [Resources -> Nat]]
    /\ Limits \subseteq Nat
    /\ NoLimit \notin Nat
    /\ Batch \in [Resources -> Nat \ {0}]
    /\ IsFiniteSet(Handlers) /\ Handlers # {}
    /\ MaxEvents \in Nat

PcValues  == {"idle", "tier", "override", "usage", "write", "logo", "record", "edit"}
AskValues == {"idle", "tier", "read", "save", "remove"}

\* A request: `sent` is what a provider has taken, `exempt` says that no quota is
\* enforced, `gone` is the deletion that removed the row being edited, 0 for none.
Op   == [res: Resources, amount: Nat, limit: Nat, sent: Nat, exempt: BOOLEAN, gone: Nat]
NoOp == [res |-> CHOOSE r \in Resources : TRUE, amount |-> 0, limit |-> 0,
         sent |-> 0, exempt |-> FALSE, gone |-> 0]

\* The columns of an override row, and the keys present in a request for changes.
Columns   == [Resources -> Nat \cup {NoLimit}]
NoColumns == [r \in Resources |-> NoLimit]
Changed   == UNION {[S -> Limits \cup {NoLimit}] : S \in SUBSET Resources}

\* An operator's request: `upsert` says that limits or notes are present.
Edit   == [tier: Tiers, input: Columns, keys: SUBSET Resources, upsert: BOOLEAN,
           id: Nat, columns: Columns]
NoEdit == [tier |-> FirstTier, input |-> NoColumns, keys |-> {}, upsert |-> FALSE,
           id |-> 0, columns |-> NoColumns]

\* What is bounded: the events that are not requests of the tenant for more.
MoreEvents == changes + deletes + months + exempts + faults < MaxEvents

Higher(a, b) == IF a >= b THEN a ELSE b

-----------------------------------------------------------------------------
(* assertWithinHardLimit. *)

\* A request for n more of r comes in.
Begin(h, r, n) ==
    /\ pc[h] = "idle"
    /\ pc' = [pc EXCEPT ![h] = "tier"]
    /\ op' = [op EXCEPT ![h] = [NoOp EXCEPT !.res = r, !.amount = n]]
    /\ UNCHANGED <<account, usage, console, bounds>>

\* getOrganizationPlan reads the organization ...
ReadTier(h) ==
    /\ pc[h] = "tier"
    /\ op' = [op EXCEPT ![h].limit = PlanLimit[tier][op[h].res]]
    /\ pc' = [pc EXCEPT ![h] = "override"]
    /\ UNCHANGED <<account, usage, console, bounds>>

\* Mutants: an override adds to the plan's limit; a NULL column is not skipped.
MergedSum(limit, column) == IF column = NoLimit THEN limit ELSE limit + column
MergedBlind(limit, column) == column

\* mergePlanWithOverrides: a column that is set replaces the plan's limit.
Merged(limit, column) == IF column = NoLimit THEN limit ELSE column

\* ... and then the override row.
ReadOverride(h) ==
    /\ pc[h] = "override"
    /\ op' = [op EXCEPT ![h].limit = Merged(@, override.columns[op[h].res])]
    /\ pc' = [pc EXCEPT ![h] = "usage"]
    /\ UNCHANGED <<account, usage, console, bounds>>

\* getUsageForResource
Reading(r) == IF r \in Metered THEN ledger[r] ELSE used[r]

\* Mutant: the check is of the usage so far, as enforceHardLimits does it.
ExceedsNow(reading, amount, limit) == reading > limit

Exceeds(reading, amount, limit) == reading + amount > limit

\* The usage is read and compared; a refusal throws.
Decide(h, reading) ==
    /\ pc[h] = "usage"
    /\ IF Exceeds(reading, op[h].amount, op[h].limit)
       THEN pc' = [pc EXCEPT ![h] = "idle"] /\ op' = [op EXCEPT ![h] = NoOp]
       ELSE pc' = [pc EXCEPT ![h] = "write"] /\ UNCHANGED op

CheckUsage(h) ==
    /\ Decide(h, Reading(op[h].res))
    /\ UNCHANGED <<account, usage, console, bounds>>

\* sumUsageEvents fails open: a ledger that cannot be read counts as empty.
CheckFailsOpen(h) ==
    /\ MoreEvents
    /\ op[h].res \in Metered
    /\ Decide(h, 0)
    /\ faults' = faults + 1
    /\ UNCHANGED <<account, usage, console, deletes, months, exempts>>

-----------------------------------------------------------------------------
(* The writers, after the check. *)

End(h) == pc' = [pc EXCEPT ![h] = "idle"] /\ op' = [op EXCEPT ![h] = NoOp]

\* A form, a contact, an import of contacts, a seat or a submission is saved.
SaveRows(h) ==
    /\ pc[h] = "write" /\ op[h].res \in Counted
    /\ used' = [used EXCEPT ![op[h].res] = @ + op[h].amount]
    /\ End(h)
    /\ UNCHANGED <<account, ledger, revived, console, bounds>>

\* Something else refuses the request after the check: an unknown group, an
\* address that is taken, a provider that is not configured.
Abandon(h) ==
    /\ pc[h] \in {"write", "edit"}
    /\ End(h)
    /\ UNCHANGED <<account, usage, console, bounds>>

\* sendEmail sends to one recipient after the other and stops at an error: k of
\* them got it.
SendMails(h, k) ==
    /\ pc[h] = "write" /\ op[h].res \in Mails
    /\ used' = IF op[h].exempt THEN used ELSE [used EXCEPT ![op[h].res] = @ + k]
    /\ IF k = 0
       THEN End(h)
       ELSE pc' = [pc EXCEPT ![h] = "record"] /\ op' = [op EXCEPT ![h].sent = k]
    /\ UNCHANGED <<account, ledger, revived, console, bounds>>

\* Mail that must not be blocked (enforceQuota: false) is sent without a check.
SendExempt(h, r, n) ==
    /\ pc[h] = "idle"
    /\ MoreEvents
    /\ exempts' = exempts + 1
    /\ pc' = [pc EXCEPT ![h] = "write"]
    /\ op' = [op EXCEPT ![h] = [NoOp EXCEPT !.res = r, !.amount = n, !.exempt = TRUE]]
    /\ UNCHANGED <<account, usage, console, deletes, months, faults>>

\* uploadLogoFromSupabase stores the object ...
Upload(h) ==
    /\ pc[h] = "write" /\ op[h].res \in Files
    /\ used' = [used EXCEPT ![op[h].res] = @ + op[h].amount]
    /\ op' = [op EXCEPT ![h].sent = op[h].amount]
    /\ pc' = [pc EXCEPT ![h] = "logo"]
    /\ UNCHANGED <<account, ledger, revived, console, bounds>>

\* ... then saves its address ...
SaveLogo(h) ==
    /\ pc[h] = "logo"
    /\ pc' = [pc EXCEPT ![h] = "record"]
    /\ UNCHANGED <<account, usage, op, console, bounds>>

\* The amount handed to recordUsage.
Recorded(o) == o.sent

\* ... and recordUsage appends to the ledger.  sendEmail does so in its finally
\* block, whether all recipients were reached or not.
RecordUsage(h) ==
    /\ pc[h] = "record"
    /\ ledger' = [ledger EXCEPT ![op[h].res] = @ + Recorded(op[h])]
    /\ End(h)
    /\ UNCHANGED <<account, used, revived, console, bounds>>

\* recordUsage swallows an error, the save of the logo throws, or the process
\* dies: the request is over and what it used is not recorded.
Fault(h) ==
    /\ pc[h] # "idle"
    /\ MoreEvents
    /\ faults' = faults + 1
    /\ End(h)
    /\ UNCHANGED <<account, usage, console, deletes, months, exempts>>

-----------------------------------------------------------------------------
(* Rows that are edited and deleted, and the calendar. *)

Editors(r) == {h \in Handlers : pc[h] = "edit" /\ op[h].res = r /\ op[h].gone = 0}

\* assignToGroups of a contact or a form reads the whole row ...
EditRow(h, r) ==
    /\ pc[h] = "idle"
    /\ used[r] > 0
    /\ pc' = [pc EXCEPT ![h] = "edit"]
    /\ op' = [op EXCEPT ![h] = [NoOp EXCEPT !.res = r]]
    /\ UNCHANGED <<account, usage, console, bounds>>

\* ... and saves it: if it was deleted meanwhile, it is inserted, with no check.
SaveEdited(h) ==
    LET r == op[h].res
        d == op[h].gone
        back == IF d = 0 THEN 0 ELSE 1
    IN  /\ pc[h] = "edit"
        /\ used' = [used EXCEPT ![r] = @ + back]
        /\ revived' = [revived EXCEPT ![r] = @ + back]
        /\ pc' = [pc EXCEPT ![h] = "idle"]
        /\ op' = [g \in Handlers |->
                    IF g = h THEN NoOp
                    ELSE IF op[g].gone = d THEN [op[g] EXCEPT !.gone = 0] ELSE op[g]]
        /\ UNCHANGED <<account, ledger, console, bounds>>

\* A row is deleted; S are the requests that are editing it.
DeleteRow(r, S) ==
    /\ MoreEvents
    /\ deletes' = deletes + 1
    /\ used[r] > 0
    /\ S \subseteq Editors(r)
    /\ Editors(r) \ S # {} => used[r] > 1
    /\ used' = [used EXCEPT ![r] = @ - 1]
    /\ op' = [g \in Handlers |-> IF g \in S THEN [op[g] EXCEPT !.gone = deletes + 1] ELSE op[g]]
    /\ UNCHANGED <<account, ledger, revived, pc, console, months, exempts, faults>>

\* A month begins: monthly usage is what was created since.
NewMonth ==
    /\ MoreEvents
    /\ months' = months + 1
    /\ used'   = [r \in Resources |-> IF r \in Monthly THEN 0 ELSE used[r]]
    /\ ledger' = [r \in Resources |-> IF r \in Monthly THEN 0 ELSE ledger[r]]
    /\ UNCHANGED <<account, revived, procs, console, deletes, exempts, faults>>

-----------------------------------------------------------------------------
(* Operators: the tier and the override row. *)

\* PlatformEntitlementsService.set reads the organization and compares tiers;
\* `t` is the plan asked for, or the tier there is, `in` the limits present and
\* `notes` says whether notes are.
AskSet(a, t, in, notes) ==
    /\ ask[a] = "idle"
    /\ MoreEvents
    /\ changes' = changes + 1
    /\ t # tier \/ DOMAIN in # {} \/ notes
    /\ ask' = [ask EXCEPT ![a] = IF t # tier THEN "tier" ELSE "read"]
    /\ edit' = [edit EXCEPT ![a] =
                  [NoEdit EXCEPT !.tier = t, !.keys = DOMAIN in,
                                 !.upsert = notes \/ DOMAIN in # {},
                                 !.input = [r \in Resources |->
                                              IF r \in DOMAIN in THEN in[r] ELSE NoLimit]]]
    /\ UNCHANGED <<account, usage, procs, bounds>>

\* What a new tier adds to the history of limits.
PeakOfTier(t) == [r \in Resources |-> Higher(peak[r], PlanLimit[t][r])]

\* It saves the tier ...
SaveTier(a) ==
    /\ ask[a] = "tier"
    /\ tier' = edit[a].tier
    /\ peak' = PeakOfTier(edit[a].tier)
    /\ ask' = [ask EXCEPT ![a] = IF edit[a].upsert THEN "read" ELSE "idle"]
    /\ edit' = [edit EXCEPT ![a] = IF edit[a].upsert THEN @ ELSE NoEdit]
    /\ UNCHANGED <<override, usage, procs, changes, bounds>>

\* ... upsert reads the override row, if there is one, and changes the keys it was
\* given ...
ReadForUpsert(a) ==
    /\ ask[a] = "read"
    /\ edit' = [edit EXCEPT ![a].id = override.id,
                            ![a].columns = [r \in Resources |-> IF r \in edit[a].keys
                                                                THEN edit[a].input[r]
                                                                ELSE override.columns[r]]]
    /\ ask' = [ask EXCEPT ![a] = "save"]
    /\ UNCHANGED <<account, usage, procs, changes, bounds>>

\* What saved columns add to it.
PeakOfColumns(cs) ==
    [r \in Resources |-> IF cs[r] = NoLimit THEN peak[r] ELSE Higher(peak[r], cs[r])]

EndAsk(a) ==
    /\ ask' = [ask EXCEPT ![a] = "idle"]
    /\ edit' = [edit EXCEPT ![a] = NoEdit]

\* ... and saves all of it, inserting a row that is not there.
SaveOverride(a) ==
    /\ ask[a] = "save"
    /\ override.id \in {0, edit[a].id}
    /\ override' = [id |-> IF edit[a].id = 0 THEN changes ELSE edit[a].id,
                    columns |-> edit[a].columns]
    /\ peak' = PeakOfColumns(edit[a].columns)
    /\ EndAsk(a)
    /\ UNCHANGED <<tier, usage, procs, changes, bounds>>

\* The unique index on the organization refuses a second row; the tier stays saved.
SaveOverrideConflict(a) ==
    /\ ask[a] = "save"
    /\ override.id \notin {0, edit[a].id}
    /\ EndAsk(a)
    /\ UNCHANGED <<account, usage, procs, changes, bounds>>

\* clear reads the row ...
AskClear(a) ==
    /\ ask[a] = "idle"
    /\ MoreEvents
    /\ changes' = changes + 1
    /\ override.id # 0
    /\ ask' = [ask EXCEPT ![a] = "remove"]
    /\ edit' = [edit EXCEPT ![a] = [NoEdit EXCEPT !.id = override.id]]
    /\ UNCHANGED <<account, usage, procs, bounds>>

\* ... and removes it by its id.
RemoveOverride(a) ==
    /\ ask[a] = "remove"
    /\ override' = IF override.id = edit[a].id
                   THEN [id |-> 0, columns |-> NoColumns] ELSE override
    /\ EndAsk(a)
    /\ UNCHANGED <<tier, peak, usage, procs, changes, bounds>>

\* BillingService.upgradePlan, by an administrator of the tenant: any tier, and
\* whatever the organization held when it was read.
UpgradePlan(t) ==
    /\ MoreEvents
    /\ changes' = changes + 1
    /\ tier' = t
    /\ peak' = PeakOfTier(t)
    /\ UNCHANGED <<override, usage, procs, ask, edit, bounds>>

-----------------------------------------------------------------------------
Init ==
    /\ tier = FirstTier
    /\ override = [id |-> 0, columns |-> NoColumns]
    /\ used = [r \in Resources |-> 0]
    /\ ledger = [r \in Resources |-> 0]
    /\ pc = [h \in Handlers |-> "idle"]
    /\ op = [h \in Handlers |-> NoOp]
    /\ ask = [a \in Operators |-> "idle"]
    /\ edit = [a \in Operators |-> NoEdit]
    /\ peak = [r \in Resources |-> PlanLimit[FirstTier][r]]
    /\ revived = [r \in Resources |-> 0]
    /\ changes = 0 /\ deletes = 0 /\ months = 0 /\ exempts = 0 /\ faults = 0

\* A request comes in.
Arrive(h) ==
    \/ \E r \in Resources : \E n \in 1 .. Batch[r] : Begin(h, r, n)
    \/ \E r \in Mails : \E n \in 1 .. Batch[r] : SendExempt(h, r, n)
    \/ \E r \in Deletable : EditRow(h, r)

\* The next step of a request in flight.
Step(h) ==
    \/ ReadTier(h) \/ ReadOverride(h) \/ CheckUsage(h)
    \/ SaveRows(h) \/ Abandon(h) \/ SaveEdited(h)
    \/ \E k \in 0 .. op[h].amount : SendMails(h, k)
    \/ Upload(h) \/ SaveLogo(h) \/ RecordUsage(h)

\* An operator's request comes in or takes a step.
Console(a) ==
    \/ \E t \in Tiers, in \in Changed, notes \in BOOLEAN : AskSet(a, t, in, notes)
    \/ SaveTier(a) \/ ReadForUpsert(a) \/ SaveOverride(a) \/ SaveOverrideConflict(a)
    \/ AskClear(a) \/ RemoveOverride(a)

Next ==
    \/ \E h \in Handlers : Arrive(h) \/ Step(h) \/ Fault(h) \/ CheckFailsOpen(h)
    \/ \E a \in Operators : Console(a)
    \/ \E r \in Deletable, S \in SUBSET Handlers : DeleteRow(r, S)
    \/ \E t \in Tiers : UpgradePlan(t)
    \/ NewMonth

Spec == Init /\ [][Next]_vars

-----------------------------------------------------------------------------
(* Properties. *)

\* The shape of the tables and of what is in flight.
TypeOK ==
    /\ tier \in Tiers
    /\ override \in [id: Nat, columns: Columns]
    /\ used \in [Resources -> Nat] /\ ledger \in [Resources -> Nat]
    /\ pc \in [Handlers -> PcValues] /\ op \in [Handlers -> Op]
    /\ ask \in [Operators -> AskValues]
    /\ edit \in [Operators -> Edit]
    /\ peak \in [Resources -> Nat] /\ revived \in [Resources -> Nat]
    /\ changes \in Nat /\ deletes \in Nat /\ months \in Nat
    /\ exempts \in Nat /\ faults \in Nat

\* What n requests that check one after the other and then write can add to a limit.
Overshoot(r) == Batch[r] * (Cardinality(Handlers) - 1)

\* Requests check and write without a lock, so a table may exceed its limit, but by
\* no more than one batch for each of the other requests in flight, however often
\* they come and whatever operators do; only rows brought back by an edit add to it.
OvershootBounded ==
    \A r \in Counted : used[r] <= peak[r] + Overshoot(r) + revived[r]

\* The same of e-mail and storage, whose ledger is written after the fact: each
\* record lost and each read that fails open lets one more batch through.
MeteredOvershootBounded ==
    \A r \in Metered : used[r] <= peak[r] + Overshoot(r) + Batch[r] * faults

\* Once no upload is in flight, the ledger knows every byte stored except those of
\* uploads that were cut off between the store and the record.
StorageIsRecorded ==
    \A r \in Files : (\A h \in Handlers : pc[h] \notin {"logo", "record"}) =>
        ledger[r] <= used[r] /\ used[r] <= ledger[r] + Batch[r] * faults

\* What is metered after the fact stays near its limit, and near what was used.
LedgerHolds == MeteredOvershootBounded /\ StorageIsRecorded

=============================================================================
