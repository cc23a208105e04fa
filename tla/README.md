# Payforms in TLA+

A verification project for the Payforms backend (`src/apps/backend`, NestJS + TypeORM + PostgreSQL).
It models the parts of the system whose correctness depends on order, overlap and failure; TLC
model-checks them on small instances and TLAPS proves theorems about them for every instance.

## 1. The system

Payforms is a multi-tenant web service. Each HTTP handler is an `async` function that reads and saves
single rows through TypeORM repositories. **No handler opens a database transaction or takes a lock**
(the only transactions are those TypeORM puts around one `save` call), so every `await` is a point at
which other requests, cron jobs and other backend instances run. What protects the data is the order
of the statements in a handler, a few unique indexes, and two in-memory `running` flags. That is what
this project is about.

| Component (code under `apps/backend/src`) | State it keeps | Operations | What is hard | What makes it correct |
|---|---|---|---|---|
| **Payments** `modules/payment`, the payment half of `submission/controllers/public.controller.ts` | `payments`, `payment_logs` | create, offline payment, initialise with Paystack, webhook, verify, callback redirect, admin status update, offline review | overlapping handlers on one row; redelivered and reordered webhooks; a crash between save, event, log and mail; partial sums, clamping | money columns balance; PAID is backed by a charge; a charge that was acknowledged is recorded; one event per transition; one mail per settlement |
| **Integration deliveries** `market-readiness/services/integration-delivery-worker.service.ts`, endpoints in `market-readiness.service.ts`, `common/events` | `integration_endpoints`, `integration_deliveries`, the worker's `running` flag | queue an event, worker pass, backoff, retry by hand, ping, edit/toggle/delete an endpoint | cron overlap, two instances, stale saves, lost answers, crashes, starvation by rows that never leave | attempts bounded; DELIVERED means received; every delivery ends; duplicates only after a fault |
| **Plan limits** `modules/billing`, `organization/organization-entitlements.service.ts`, `platform-entitlements` | plan tier, override row, usage ledger, the counted tables | `assertWithinHardLimit` before each write, record usage, upgrade plan, set/clear override | check-then-write without a lock; ledger reads fail open; recorded after the fact | usage exceeds the limit by no more than what overlapping requests add |
| **Submissions and public intake** `modules/submission` | `submissions` | public submit (find or create a contact, save, emit, create a payment), exports | several rows saved one after the other; a refusal after the first of them | no answer 200 without all the rows it promises |
| **Contacts, groups, forms** `modules/contact`, `modules/group`, `modules/form` | `contacts`, `contact_groups`, `groups` (a tree), `forms`, `form_targets`, import templates | CRUD, import (validate, commit), group assignment, targeting, eligibility | imports create groups before contacts; whole-collection saves of memberships overwrite each other; the tree is edited by its parent pointers | memberships are what was asked; a form that settled is shown as it is; an import inserts all rows or none and its job says so |
| **QR codes** `contact-qr-code.service.ts` | `contact_qr_codes`, scans | get or create, regenerate, disable, scan | check-then-insert; scans of a regenerated token | a code that was replaced or disabled opens nothing; what is shown was scanned |
| **Messaging** `modules/notification` | reminder policies, send history, notifications | send mail (quota, provider, metering), hourly reminders, run now, in-app notifications | cron guard does not cover run-now; cooldown read before a slow send; failed bookkeeping after a send | at most one reminder per policy, contact and cooldown |
| **Market readiness jobs** `market-readiness.service.ts` (recovery, reconciliation, dunning, installments, compliance exports, feature flags), `dunning-scheduler.service.ts` | `recovery_runs`, `reconciliation_runs`, `dunning_*`, `installment_*`, `compliance_export_jobs`, `organization_market_features` | run, schedule, assign, process, update flags | check-then-insert, no running guard, status rows left in PROCESSING by a crash | each job ends in one final state; one run per trigger |
| **Accounts** `modules/auth`, `modules/contact-auth`, `platform-auth`, `platform-impersonation` | users, invitations, refresh-token hash, reset tokens, 2FA secrets and recovery codes, impersonation sessions | register, invite/accept (no unique index across organizations), login, refresh, logout, deactivate, reset, 2FA, impersonate | stale `save(user)` over a concurrent change; single-use tokens and codes read before they are spent; expiry | a single-use token is used once; deactivation and session end stay in force |
| **Platform console** `platform-*` | organization status and its events, settings, feature flags, broadcasts, audit | change status, resolve flags, compose broadcast | two saves without a transaction; suspension that lapses by time | every status change has its event |
| **Organizations, tenants, cache** `modules/organization`, `modules/tenant`, `common/cache`, `common/auth` | organization row, Redis/in-memory cache, request context | settings, keys, logo, host lookup, cached reads, row-level context | a cached form or tenant that is stale; a failed delete in Redis | no save takes back what another request wrote; a cached form agrees with the table unless an edit overlapped the lookup |
| **Audit, reports, compliance** `modules/audit`, `modules/report`, `modules/compliance` | activity log | interceptor, lists, summaries, exports, retention | retention deletes while exports read; logs are written after the answer; reports are several queries | every answer to staff is logged; nothing is purged too early; reports add up |
| **Frontend** `apps/frontend` | a tab's token and user, cookies shared with other tabs | calls the API, refreshes the session once for all calls that were refused | answers that cross a logout or a new login; two tabs | one refresh at a time; what is shown and what is sent belong to one account |

How they interact: a public submission calls contacts, plan limits, submissions, the event bus and then
payments. `PaymentService.updateStatus` emits `payment.completed`/`payment.failed` on the in-process
`DomainEventService`, which awaits its subscribers one after the other and swallows their errors; the
market-readiness module subscribes and turns each event into one delivery row per endpoint; the worker
posts them. Scheduled jobs (`@nestjs/schedule`) run in every backend instance, next to the requests.

## 2. Modules

| Module | Models | Kind |
|---|---|---|
| `Payments` | the payment lifecycle, handler by handler; Paystack and the customer as external actions | detailed |
| `PaymentLedger` | what the payment service promises about one row: each update one atomic step | abstract |
| `PaymentsProofs` | theorems on types, the ledger and its refinement, backing, answers, announcements, agreement, money | proofs |
| `MCPayments` | instances for TLC | MC |
| `IntegrationDelivery` | endpoints, queueing, the worker's passes, retries, pings, edits | detailed |
| `DeliveryQueue` | what the worker promises about one row: each attempt one atomic, counted step | abstract |
| `IntegrationDeliveryProofs` | theorems on types, rows, repeats, and the refinement of `DeliveryQueue` | proofs |
| `PlanLimits` | the hard limits of a plan, every writer they guard, the usage ledger, tiers and overrides | detailed |
| `PlanLimitsProofs` | theorems on types, the overshoot of tables, and metered use and its ledger | proofs |
| `MCPlanLimits` | instances for TLC | MC |
| `MCIntegrationDelivery` | instances for TLC | MC |
| `Clock` | the days of a run and the bounds on what may come in | shared |
| `Organizations` | the row of an organization and everyone who saves the whole of it; status, plan, retention, verification | detailed |
| `Accounts` | staff accounts: sign-in, refresh, reset, second factor, recovery codes, deactivation; extends `Organizations` | detailed |
| `Identity` | impersonation sessions with their flag and settings; extends `Accounts`, so it composes all three | detailed, composition |
| `IdentityProofs`, `MCIdentity` | theorems; an instance for TLC | proofs, MC |
| `Directory` | groups, contacts and memberships; imports that create groups | detailed |
| `Reminders` | the policy, hourly passes and run-now, cooldown and history; extends `Directory` | detailed |
| `Collections` | detection of abandoned payments, compliance exports, dunning runs | detailed |
| `Outreach` | `Reminders` and `Collections` in one process that may crash | composition |
| `OutreachProofs`, `MCOutreach` | theorems; instances for TLC | proofs, MC |
| `Entrance` | the bounds on what may come in, shared by the next two | shared |
| `PublicForms` | forms, targets, and the cache the public reads them from | detailed |
| `ContactPortal` | contacts as account holders, their tokens, reset links and QR codes | detailed |
| `Intake` | visitors that look a form up, enter it and submit, while forms and contacts change | composition |
| `IntakeProofs`, `MCIntake` | theorems; instances for TLC | proofs, MC |
| `Desk` | the bounds on what may come in, shared by the following | shared |
| `Imports` | import templates, validation and commit of import jobs | detailed |
| `Market` | feature flags, checkout sessions, installment plans and accounts, partner tenants, reconciliations | detailed |
| `Broadcasts` | mail from the platform to organizations, with its rows | detailed |
| `Trail` | the audit interceptors and logs, retention limits and the purge | detailed |
| `Notices` | reminders by hand, notices and who has read them | detailed |
| `Reports` | reports as sequences of queries over tables that change | detailed |
| `Enrolment` | registration, invitations and their acceptance | detailed |
| `Scans` | views of a contact's QR code and the scans they record | detailed |
| `Browser` | a tab of the admin site: token, shared refresh, retries, login, logout | detailed |
| `Backoffice` | the nine above in one process that may crash | composition |
| `Tasks` | what takes several steps is begun once, ended once with all of its work, and not touched again | abstract |
| `BackofficeProofs`, `MCBackoffice` | theorems; instances for TLC | proofs, MC |
| `BackofficePromises` | theorems: the sums of the reports, and the refinements of `Tasks` | proofs |

### Payments

Each request is a process `h \in Handlers`. `pc[h]` is the await it stands at, `op[h]` the arguments and
everything it has read so far that it still uses, `upd[h]` the columns `updateStatus` has computed but
not yet saved. A step of a handler is the code from one await to the next; reading a row and writing it
are two steps, so the copy may be stale by the time it is saved. They correspond as follows:

| Actions | Code |
|---|---|
| `CreatePayment`, `SubmitOnline`, `CreateOffline` with `MayCreate`, `Insert` | `PaymentService.create` (limits, enabled methods), `submitPublicForm`, `createOfflinePayment` |
| `InitializeOk`, `InitializeFails`, `LogInitFailure` | `initializePaystack`, the catch block of `submitPublicForm`, `markInitializationFailed` |
| `ReceiveWebhook` | `handlePaystackWebhook` → `handleWebhookEvent` |
| `StartVerify`, `VerifyReplies`, `VerifyFails` | `verifyAndFinalizePayment` and `verifyPaystack`, from the redirect and from the manual endpoint |
| `SkipLogged`, `RejectBelowLimit`, `AcceptOutcome`, `SaveOutcomeLog`, `OutcomeLogConflict`, `Notify` | `applyPaystackOutcome` and `maybeSendPaymentNotifications`; the conflict is the unique index on `(payment_id, event_id)` |
| `ReadForUpdate`, `RefuseUpdate`, `WriteStatus`, `EmitEvent`, `SaveAdminLog` | `updateStatus`, in the order of its statements |
| `AdminRequest` | `PATCH /payments/:id/status` and `/offline-review` |
| `Fault` | the process dies, or a call throws, at any await |
| `ChargeSucceeds`, `ChargeFails`, `ChargeReversed` | external: Paystack |

Pure functions keep their names: `ResolveTracked` is `resolveTrackedPaymentState`, `MapPaystackStatus`
is `mapPaystackStatusToPaymentStatus`, and so on. A webhook once sent can be received any number of
times, at any later time and in any order. `transitions`, `byAdmin` and `faults` are history. So are
`overtaken` and `raced`, which count what overlaps cost: a handler is overtaken when another one writes the
row of a payment that it holds a copy of, and `raced[p]` is the number of writes of overtaken handlers. No
property excludes overlaps: the ones about announcements and money allow a deviation only against such a write,
one for one. `Verifiers` are the endpoints a verification may come from (the redirect, the manual one).

What is abstracted: sums are small naturals (the code rounds kobo to two decimals; the properties only
compare and subtract); the five offline methods are one value; references and ids are one; the
compatibility mode for databases that lack a migration is left out (every column exists); exports,
receipts and lists are reads.

### Integration deliveries

A pass of a worker and a request of an administrator are processes. `cur[p]` is the copy of the row (or
endpoint) in hand, `todo[p]` the rest of the page the pass read, `result[p]` the outcome of the post.
`applyResult` saves every column of its copy, so `SaveResult` writes what the copy says, whatever the
row holds by then. A row is `due` or not; the exact backoff is left out because any later time is
possible in the model. `InstanceOf` says which backend instance a pass runs on: the `running` flag
belongs to one instance. The receiver is external: `posts` and `received` record what it saw.

### Plan limits

A request of the tenant is a process of `Handlers`: `ReadTier`, `ReadOverride` and `CheckUsage` are the
three awaits of `assertWithinHardLimit`, each of which may see another moment, and the writer follows.
The resources are sets, because what differs between them is only where usage is read and what is
written: `Counted` ones (`forms`, `contacts`, `staff_users`, `monthly_submissions`) are counted in their
tables, `Mails` and `Files` (`monthly_email_sends`, `storage_gb`) are summed from
`organization_usage_events`; `Monthly` ones start again with the month.

| Actions | Code |
|---|---|
| `Begin`, `ReadTier`, `ReadOverride`, `CheckUsage`, `CheckFailsOpen` with `Merged`, `Reading`, `Exceeds` | `assertWithinHardLimit`, `getOrganizationPlan`, `mergePlanWithOverrides`, `getUsageForResource`, `sumUsageEvents` |
| `SaveRows`, `Abandon` | what follows the check in `FormService.create`, `ContactService.create`, `createFromPublic`, `bulkImport`, `AuthService.acceptInvite`, `SubmissionService.create`; `Abandon` is a refusal after the check |
| `EditRow`, `SaveEdited`, `DeleteRow` | `assignToGroups` and `delete` of contacts and forms: TypeORM's `save` inserts a row whose id is gone |
| `SendMails`, `SendExempt`, `RecordUsage` | `NotificationService.sendEmail`, with and without `enforceQuota`, and `recordUsage` in its `finally` |
| `Upload`, `SaveLogo`, `RecordUsage` | `OrganizationService.uploadLogoFromSupabase` |
| `Fault` | `recordUsage` swallows an error, a call throws, or the process dies |
| `AskSet`, `SaveTier`, `ReadForUpsert`, `SaveOverride`, `SaveOverrideConflict`, `AskClear`, `RemoveOverride` | `PlatformEntitlementsService.set` and `clear`, `OrganizationEntitlementsService.upsert` and `clear`; the conflict is the unique index on the organization |
| `UpgradePlan` | `BillingService.upgradePlan` |
| `NewMonth` | `getMonthStart` |

`used` is what is really there (rows, mails sent, bytes stored), `ledger` what was recorded, `peak` the
highest limit there has been, `revived` the rows that came back by saving a copy of a deleted one. A
limit that falls below the usage is no violation of anything: `peak` is what makes the bound on
`used` a statement about the checks alone. Usage is in the unit of the resource: for storage that is
bytes on both sides, as in the code. Other handlers save the whole organization row
(`changeStatus`, settings): one that read it before a change of tier puts the old tier back, which is a
behaviour of `UpgradePlan` here.

### Identity: `Organizations`, `Accounts`, `Identity`

A request is a process with the copy it read. `save(entity)` writes the whole copy (and inserts a row
that is gone); `update` writes the named columns; which of the two a handler uses is what these modules
are about. `lost` and its like are history: what a save took back.

| Actions | Code |
|---|---|
| `ChangeStatus`, `UpgradePlan`, `Retention`, `SendVerification`, `VerifyEmail`, then `SaveOrg`, `InsertEvent`, `LoseEvent` | `OrganizationStatusService.changeStatus` with its lapse, `BillingService.upgradePlan`, `ComplianceService` policies and purge, `OrganizationService` e-mail verification |
| `SetPlan`, `ChangeEmail` | the entitlement and settings updates of single columns |
| `Login`, `CheckOrg`, `CheckPassword`, `Grant`, `Refuse` | `AuthService.login` |
| `Refresh`, `CompareToken` | `AuthService.refresh`; the token is compared by its first 72 bytes, so tokens of one user match (`Matches`) |
| `VerifyLogin`, `CheckTotp`, `UseRecoveryCode`, `UpdateSecond`, `BeginSecond` | the second factor: set-up, confirmation, disabling, recovery codes |
| `RequestReset`, `ConfirmReset`, `SaveUser`; `ChangeUser`, `UpdateUser`; `Logout`, `DeleteUser` | password reset (whole-row saves), changes by administrators and `PlatformUsersService` (updates) |
| `AskUpsert`, `AskOverride`, `AskRemove`, `SaveFlag`, `SaveOverride`, `DeleteOverrides`, `RemoveFlag`, `ClearOverride` | `PlatformFeatureFlagsService` |
| `AskStart`, `OpenSession`, `AskEnd`, `EndSession`, `Use`, `Admit`, `Reject`, `Expire` | `PlatformImpersonationService` and the guard that admits its token |

### Outreach: `Directory`, `Reminders`, `Collections`

| Actions | Code |
|---|---|
| `CreateGroup`, `UpdateGroup` (a null parent takes the group out of its tree); `AskDetach`, `AskDelete`, `CountChildren`, `CountMembers`, `DeleteGroup` | `GroupService.create`, `update`, `delete` |
| `AskAdd`, `AskRemove`, `PickContact`, `SaveMembers` | `addContacts`, `removeContacts`: the whole collection is read and saved |
| `AskAssign`, `PickGroups`, `SaveAssigned`; `AskNew`, `NextPath`, `Follow`, `CreateMissing`, `SaveNew` | `ContactService.assignToGroups`, `create`, `bulkImport` with `resolveImportGroups` and `ensureGroupPath` |
| `AskPolicy`, `SavePolicy`, `SavePolicyFails`, `DeletePolicy` | `updatePolicy`, which reads the policy and saves the copy an await later, and `deletePolicy` |
| `Tick`, `RunNow`, `ReadPolicies`, `ReadRecipients`, `FindContacts`, `CheckCooldown`, `SendMail`, `MailRefused`, `Record`, `RecordThrows`, `RecordFailed`, `RecordFailedThrows`, `PolicyDone`, `EndPass` | `ReminderSchedulerService` and `ReminderAutomationService.executePolicy` |
| `AskRecovery`, `ReadCandidates`, `InsertCandidates`, `InsertRefused`, `SaveDetected`, `DetectedLost` | `runRecoveryDetection` |
| `CreateJob`, `AskExport`, `TakeJob`, `SaveSummary`, `MarkReady`, `Announced`, `ExportThrows`, `MarkFailed`, `MarkFails` | compliance export packs; the save of FAILED in the catch may throw as well |
| `RunCampaign`, `Scheduled`, `ComputeSnapshots` | dunning campaigns and their scheduler |
| `Crash`, `NextDay` | the process dies with everything in flight; time passes |

### Intake: `PublicForms`, `ContactPortal`, `Intake`

| Actions | Code |
|---|---|
| `AskCreate`, `AskEdit`, `WriteForm`, `SaveTargets`, `Reread`, `DeleteKey`, `DeleteFails`, `Answer`, `EditThrows` | every operation of `FormService` that changes a form, its fields, targets or groups, with the entries it deletes from the cache |
| `FindBySlug`, the store after it, `Expires` | `findBySlug`, `RedisCacheService` |
| `EnterAs`, `EnterUnknown`, `FindContact`, `CreateFromPublic`, `Submit` | `public.controller.ts`: `ensurePublicFormAccess`, the contact a submission is for, `submitPublicForm` |
| `Login`, `Sign`, `AskSave`, `SaveContact`, `AskUpdate`, `AskEmail`, `UpdateContact`, `Stamp`, `Erase`, `DeleteContact` | `ContactAuthService`, `ContactService`, the erasure of `ComplianceService` |
| `AskGenerate`, `InsertCode`, `AskCode`, `SaveCode`, `UpdateCode` | `ContactQrCodeService` |

### Back office: `Desk` and the nine modules of `Backoffice`

The parts share no tables, only the process, so `Backoffice` is their interleaving with one `Crash`;
they are checked together because a crash is common to them. Each has its history variables, named where
they are declared.

| Module | Actions | Code |
|---|---|---|
| `Imports` | `AskCreate`/`AskUpdate`/`AskDelete`, `UnsetOthers`, `SaveTemplate`, `PointOrganization`, `ClearOrganization`, `CountTemplates`, `DeleteTemplate` | `ContactImportTemplateService` |
| | `AskValidate`, `ResolveTemplate`, `CheckRows`, `SaveJob`, `RereadTemplate`, `SaveApplication`, `ClerkFails`; `AskCommit`, `CheckExisting`, `InsertContacts`, `CompleteJob`, `FailJob` | `ContactImportService.validateImport`, `commitImport`, `ContactService.bulkImport` |
| `Market` | `UpdateFlags`, `SaveSession`, `SaveTenant`, `SavePlan`, `DeleteItems`, `InsertItems`, `ReadAccounts`, `OpenAccounts`, `Scan`, `SaveExceptions`, `CompleteAudit` | `market-readiness.service.ts`: `updateFlags`, checkout sessions, partner tenants, installment plans, `createReconciliationRun` |
| `Broadcasts` | `RecordBroadcast`, `ResolveRecipients`, `Send`, `InsertChunk`, `FinishBroadcast` | `PlatformNotificationsService.compose`, `resolveRecipients`, `deliver` |
| `Trail` | `Handle`, `HasColumn`, `ColumnIsKnown`, `ColumnFails`, `InsertLog`, `List`, `PurgeContacts`, `PurgeSubmissions`, `PurgeLogs`, `SaveLimits`, `LogAction` | `AuditInterceptor`, `PlatformAuditInterceptor`, `AuditService`, `ComplianceService` |
| `Notices` | `SendOne`, `SendFails`, `RecordUsage`, `UsageIsLost`, `FindTargets`, `SaveNotice`, `SaveMark` | reminders by hand in `NotificationController`/`NotificationService`, `markAsRead` of contacts and users |
| `Reports` | `AskReport`, `Query`, `NextRoot`, `Descend`, `WalkEnds`, `Respond`, `TablesMove` | `ReportService` |
| `Enrolment` | `Register`; `LookForInvitation`, `DropInvitation`, `WriteInvitation`; `CheckAccept`, `Join`, `CloseInvitation` | `AuthService.register`, `inviteUser`, `acceptInvite` |
| `Scans` | `AskView`, `RecordScan`, `ReadContact`, `ReadPayments`; `Reissue`, `Switch`, `BearerGone` | the QR controller's views, `getQrCodeByToken`, `recordScan`, `getContactPaymentStatus` |
| `Browser` | `SendCall`, `HearCall`, `HearLogin`, `HearLogout`, `RefusedOnce`, `Refreshed`, `NotRefreshed`, `RefusedAgain`, `OtherTab`, `Visit` | `services/api.ts`, `store/auth.ts`, `pages/login.tsx` |

### What the models assume of their surroundings

A TypeORM `save` of one entity is atomic; the unique indexes and foreign keys of the migrations hold.
A statement that fails has done nothing; that the database commits and its answer is lost is not modelled,
save where the code goes on after it. Ids stand for e-mail addresses in `Directory`; a request changes the
membership of one contact; the read and the save of a reconciliation exception are one step.
The expiry of set-ups, challenges and reset links is not modelled. Redis and the process's memory are
one store. Targets of forms are contacts; group targets, access modes and identity rules only decide
who is turned away, which a visitor may be at any step (`Leave`). An update that sets a contact's e-mail
address after its data were erased gives it one again, and may have been asked for before. The stamp that
ends tokens is taken before the update statement, so a token signed between the two is not ended. Bulk imports have their rows in `Imports` and their groups in `Directory`; quota
refusals of reminders are in `PlanLimits`. In `Reports` each payment is one unit of money and one
moment has one new row, stamped at that moment or before it (`created_at` is the start of the transaction that
inserts the row, which is seen when it commits); in `Browser` loading a page is one step and the API answers 200 or 401 freely;
in `Enrolment` a registration is one step and the seat limit a free refusal; in `Scans` changes of a
code are one step, their interleavings being in `ContactPortal`. Retention limits are taken as given
and positive.

## 3. What is checked

`expect pass` runs are exhaustive over their instance; `violation` runs are disagreements between the code
and what the code, its comments or its documents say, and TLC prints the behaviour. Properties with several
parts are conjunctions of named ones; each part is stated and commented in its module.

| Run | Instance | Shows |
|---|---|---|
| `Payments_overlap` | one payment, two handlers in flight, one administrator's request, one of the handlers cut short | `TypeOK`; `LedgerAgrees`: the money columns balance and the status follows from them; `PaidIsBacked`: nothing is settled without a charge or an administrator; `AnswersAreKept`: a webhook answered 200 is applied and a confirmation is in the audit log; `AnnouncedAsSettled`: one event per transition and one mail per settlement, up to one for each overtaken write; `MoneyKept`: FAILED and PENDING keep what was paid, unless the writer was overtaken; the service implements `PaymentLedger` (`ImplementsLedger`) however two requests interleave |
| `Payments_sequential` | one payment, one handler at a time, a fault, failed attempts and reversals reported late and without ids of their own, an administrator, charges below the partial limit | `QuiescentAgreement`: a charge in full that was answered leaves the row PAID; and under fairness `ChargeIsRecorded`: a charge the limit admits is recorded in the end |
| `Payments_announced_twice` | two reports of one charge overlap | violation of `NoPhantomEvents`, which makes no allowance for overlaps: `payment.completed` is published twice for one transition |
| `Delivery_one_instance` | one instance, two cron ticks, two endpoints, a page of one row, two faults, three attempts | `RepeatsArePaidFor`: a repeated post or reception is paid for by a fault; `ImplementsQueue`; under fairness `DeliveryEnds` |
| `Delivery_admins` | one pass against two administrators who ping, retry, edit, toggle and delete | `TypeOK`; `RowsAreTrue`: no row is queued beyond its attempts, DELIVERED means received |
| `Delivery_paused` | a paused endpoint, a page of one row | violation of `DeliveryEnds`: rows of the paused endpoint stay due for ever and starve the others |
| `Limits` | two requests and two operators, on tables or on the ledger | `TypeOK`; `OvershootBounded`: a table exceeds its limit by at most one batch for each other request, plus rows an edit brought back; `LedgerHolds`: the same of metered use, whose ledger may lose records and fail open, and what is stored is recorded but for faults |
| `Identity_requests` | one organization, one user, three requests of any kind at once | `TypeOK`; `NoLostUpdate`; `HistoryBalances` (of each organization and status, the events that enter it and those that leave it differ by whether it is in it, but for events that were lost); `AccountsHold` (deactivation, retired tokens, spent codes); `ImpersonationHolds` (an ended session is refused, a new flag starts clean) |
| `Outreach` | budgets of directory requests, reminders, jobs, days and a crash | `TypeOK`; `DirectoryHolds` (memberships as asked, orphans only when a child came late, imports where their paths lead); `CooldownHolds`; `JobRowsHold` (a payment is announced as abandoned once, by the request that inserted its candidate; an export that is PROCESSING is in the hands of a request, or was left behind by a death or by a save of FAILED that threw; one that is READY has its summary); under fairness `PassEnds` |
| `Reminders_amount` | a contact in two addressed groups | violation of `AmountIsOwed`: the mail states twice what is owed |
| `Intake` | two slugs, edits, visits, portal requests, errors and a crash | `TypeOK`; `SettledIsShown`: a visit shows the form as the last answered edit left it, unless a lookup overlapped the edit; `RevokedStaysRevoked`: a deactivation, redeemed link, erasure, deletion or replaced code is not undone, unless a copy was held across it |
| `Backoffice` | two requests at a time of each part, with an error or a death of the process | `TypeOK` and the nine properties below |

The properties of `Backoffice`:

* `ImportsHold`: the organization's default and the template's mark agree unless a name conflict or a crossing
  edit came between (`DefaultAgrees`); the template a job records is the one its rows were checked against, unless an
  error or a death came between the save of the job and that of the record, or the template was written meanwhile
  (`SnapshotIsGenuine`); what a job says of its rows is so (`JobTellsTheTruth`).
* `BooksHold`: the items of a plan are one list someone asked for (`ItemsAreOneList`); an account owes a
  total its plan had (`AccountsAreOwed`); `SessionsAreDated`; a COMPLETED reconciliation counts its
  exceptions (`AuditsAddUp`).
* `BroadcastsHold`: rows say what went out (`RowsTellWhatWentOut`), a queued broadcast is under way or was
  cut off (`QueuedIsUnderWay`), an address is mailed once (`ReachedOnce`).
* `TrailHolds`: every answer to staff is logged but for an error or a crash (`AnswersAreLogged`), nobody waits
  for a query that is over (`WaitersAreServed`), `ComplianceIsLogged`, and nothing is purged that the limits
  there are would keep, unless they were saved under the purge (`NothingTooEarly`).
* `NoticesHold`: a mark is only lost to a reader that crossed it (`MarksAreKept`), what went out is charged,
  still with its request, or lost in one of three ways: the request died, the ledger did not take it, which the code only logs,
  or the provider had sent what it reported as failed (`MailIsCharged`); a notice follows the mail (`NoticeFollowsMail`).
* `ReadersAreTold`: `ReportsHold` (the days of the analytics and their breakdown differ by no more payments than were
  written between the two queries; the payments of a form's report are of submissions it has read, unless one of the two was written
  meanwhile or the range has a start; the walk visits no group twice) and `ScansHold` (what a view shows was
  scanned; it was opened by a code in force when it was looked up).
* `EnrolmentHolds`: an address has one account unless two requests crossed or a registration shared it
  (`OneAccountEach`); an accepted invitation is closed unless its save failed (`InvitationsClose`).
* `BrowserHolds`: one refresh for all waiting calls (`RefreshIsShared`); the token that is sent and the user
  that is shown are of one account, up to the crossings it names (`OneAccount`).
* `TasksEndOnce`: broadcasts, reconciliation runs, requests with their logs and import jobs implement `Tasks`: each is begun
  once, is over at most once with a result that counts all of its work, and neither changes after that; one that is
  given up, by an error or a crash, is not taken up again.

### Disagreements and observations without a run

They have the same cause as one that has a run, or no line of the repository to set against the code in a
run of its own. Payments and deliveries:

* A webhook without an id of its own goes by the transaction's id, so a success after a reported failure
  counts as a duplicate (set `EnvelopeIds = FALSE, ReportsFailures = TRUE` and check `AckedSuccessIsApplied`).
  A verification asked too early makes a later one a duplicate as well; a charge below the partial limit is
  thrown out and never recorded, although the comment says it is.
* A verification answered before the charge can overwrite PAID with PENDING when two requests overlap
  (`QuiescentAgreement` allows for it by `raced`). Two overlapping saves can lose one `attempt_count`.
  `STATUS_BALANCE_MISMATCH` of the reconciliation is never found in rows the payment service wrote (`LedgerCorrect`).
* Two backend instances post one row twice (`NotDeliveredTwice` with two instances); a retry by hand that
  overlaps a pass can write QUEUED over DELIVERED.

Limits, organizations, accounts:

* The note at `organization.service.ts:183-185` calls the storage ledger "never under-reported", yet an upload
  whose update throws, or whose record is swallowed, is stored and not recorded. Two `upsert`s of an override
  save every column they read, although the comment at `organization-entitlements.service.ts:75-78` says only keys
  present in `input` change. `upgradePlan` logs `old_plan` after assigning the new tier.
* `PlatformUsersService` says "Disabling revokes existing sessions immediately", but a password reset that read
  the user before saves `is_active` back. `verifyTwoFactorLogin` does not check `is_active`. `register` and
  `inviteUser` look for an address in one place each; `deleteUser` deactivates, so the address stays taken.
* The second factor of contacts never takes effect: its columns are `select: false`
  (`contact.entity.ts:76-89`) and `findById` (`contact.service.ts:229`) does not select them, so verification
  always answers that set-up was not initiated, though the controller's documentation says otherwise.
  `resetTwoFactor` has the same gap.
* A contact that was deactivated can become active again by a reset link.

Contacts, groups, forms, jobs:

* Group cycles are possible (`group.service.ts:57`), and the recursive reads of reports do not end on one.
  `ensureGroupPath`'s "already exists under a different parent" is never reached.
* The comment in `form.service.ts` says TARGETED_ONLY forms without targets are accessible to no one, but
  `ensurePublicFormAccess` admits any signed-in contact. A lookup by slug ignores the organization though a slug is
  unique only within one. `findBySlug` does not select `notify_submission_confirmation`, so that mail is never
  sent. Settings of the organization stay in a cached form for up to two minutes.
* Dunning runs stay SCHEDULED: `computeArrearsSnapshots` joins columns that do not exist, although
  `market-readiness.service.ts:1454-1456` says otherwise. Recovery reads the 200 oldest PENDING payments, so newer ones can
  starve; candidates never become NOTIFIED or RESOLVED; a failed send starts the cooldown as well.
* Import templates: `import-template.entity` says only one template should be the default; a name conflict after
  the others were unmarked leaves the pointer at a template without the mark, which `deleteTemplate` then deletes,
  though it "fails if it's the default". A commit whose template was deleted can save neither COMPLETED nor FAILED.
* Installment plans: an update with `[]` leaves a plan without items though creation requires one; a change of
  the total does not reach the accounts. `updateFlags` resets the flags it is not given.
* A broadcast cut off by a crash stays `queued` and nothing resumes it, though its class comment says each send
  is recorded. `getComplianceAuditTrail(days)` returns what is older than `days`. `auto_purge` is read by nothing.
* Reports: the map of subgroups at `report.service.ts:587` is not used, contributions join the contact's groups
  directly, and a contact in two groups is counted twice. Rates divide counts of different moments.
* QR codes: scans are "never updated or deleted" but go with their contact; the count of the last thirty days
  compares with a single instant and so counts practically nothing.
* A wrong password on the login page with an old session goes through refresh and retry; a logout whose
  request fails clears the token but leaves the user shown.

### Bounds, and why they are enough

* `Payments`: rows never refer to each other, so one payment shows every behaviour of a payment. Two
  handlers give every pairwise race of read, save, publish and log; the races are between a stale copy
  and one later writer. Sums 1 and 2 distinguish short, exact and excessive. `MaxAdmin` and `MaxFaults` are at most 1.
  With two handlers verifications come from the manual endpoint; the redirect differs from it in the id of its log alone,
  and `Payments_sequential` has both. `QuiescentAgreement` holds with two handlers too; it is checked where failed attempts, reversals
  and short charges can come.
* `IntegrationDelivery`: two endpoints so that rows compete for a page of one; `MAX_ATTEMPTS` is 6 in
  the code and 2 or 3 here, which already has a first, a middle and a last attempt; two ticks of one
  cron; two faults.
* `PlanLimits`: resources do not interact except through the tier, so one table, or one mail and one
  storage resource, show every behaviour. Two requests show the overshoot; that it grows with their number as
  stated is proved (`OvershootCorrect`). Limits 1, 2 and 3 (two tiers and an override) against batches of 2
  reach usage both below and beyond a limit; `MaxEvents = 2` bounds together operators' requests,
  deletions, months, exempt mails and faults; requests of the tenant come without bound.
* `Identity`: a race is between a copy and the writers after its read, so three requests give a reader, a
  writer and a third whose effect is lost; four may come in all (`MaxRequests`, counting the first), one unit
  of time passes (`MaxTime`), which is what tells an expired session or suspension from one in force.
* `Outreach`, `Intake` and `Backoffice` bound what may come in by a budget per kind; an instance explores
  several budgets, each with one or two kinds, because kinds that share no table do not meet.
  `Outreach`: two directory requests and a crash; one with two reminders; two reminders, a crash and two more
  days with two contacts; four jobs with a crash and a day. `Intake` (edits, visits, portal, chance): (2,1,0,1), (1,2,0,1), (1,1,1,0),
  (0,2,1,0), (0,1,3,0), (0,0,3,1); the form's entry may be in the cache from the start, so that one visit is enough to be
  shown what two overlapping edits have left. `Backoffice`: two or three requests of a part at a time, three and more where each is
  short (notices, invitations, scans, calls of the browser), and one less where a crash or an error is added;
  two ids of everything requests compete for. Parts for which nothing may come in start from nothing. There
  is one form at the start of a run, and the segment starts as all organizations: another form is like it, and organizations
  can be asked for by themselves. Broadcasts and notices have one budget each, with an error or a crash in it that need not come.
* The theorems do not depend on any of these bounds.

### Fairness

* Payments: weak fairness of each handler's next step (the event loop runs what is in flight; a rejected
  promise is a step too) and strong fairness of redelivery: Paystack retries a webhook until it is
  answered 200, and with two handlers a free one is not always there but is again and again.
* Deliveries: weak fairness of each pass's next step, of cron (it ticks every minute for as long as the
  process lives) and of the end of a backoff (time passes). Nothing is assumed of the receiver, of
  administrators or of crashes, which are bounded by `MaxFaults`.
* Reminders: weak fairness of each pass's next step; this takes for granted that a call to the mail provider
  returns, for which the code has no timeout. The other modules state no fairness and no liveness.

## 4. What is proved

All theorems hold for every value of the constants that satisfies the named assumption of each module
(`PaymentsAssumption`, `DeliveryAssumption`, `LimitsAssumption` and so on, one per module that declares
constants with a shape); TLC evaluates the assumptions on every run. They say only that ids are
distinct from NULL, bounds are natural numbers, tables have rows of the right shape, and that what a default row names is there
(one clerk, user, template name, plan and so on). What is counted is finite: the units of a report, the handlers of payments and the entries
of an account. A theorem that needs more says so by an ASSUME of its own, explained below.

* `PaymentsProofs!TypeCorrect`: `Spec => []TypeOK`. The inductive invariant is `TypeInv`: `TypeOK`, that every
  webhook reports a status Paystack has for an outcome, and, for each request in flight, that the payment it is about
  exists. Without the last part `WriteStatus` could write a status over a row that is not there.
* `PaymentsProofs!LedgerCorrect`: `Spec => [](LedgerAgrees)`, for any number of
  payments and of overlapping requests. Neither conjunct is inductive: a handler about to write decides
  the row's columns. `LedgerInv` says that every row is `Balanced` against its own total and that every
  update held by a handler at its write step is `Balanced` against the payment's `total`, which no step
  changes once the row exists (`Balanced` covers the agreement of status and balance). This is why
  last-writer-wins saves are safe for the money columns: all of them are written by one statement and
  computed against a column that never changes.
* `IntegrationDeliveryProofs!TypeCorrect`: `Spec => []TypeOK`.
* `IntegrationDeliveryProofs!RowsCorrect`: `Spec => [](RowsAreTrue)`, for
  any number of instances, administrators and endpoints, whatever copies overwrite each other. A row is
  only ever saved from a copy, so the invariant says the same of every copy in hand, and
  `ResultIsReal` says that a result "ok" in hand was given by the receiver for that very event; without it the save
  of a stale copy could mark DELIVERED what nobody received.
* `PlanLimitsProofs!TypeCorrect`: `Spec => []TypeOK`.
* `PlanLimitsProofs!OvershootCorrect`: `Spec => []OvershootBounded`, for any finite set of requests, any operators,
  tiers and limits. The bound alone is not inductive, since it says nothing of the rooms that requests
  past their check hold. `LimitsInv` adds `PeakCovers` (tier and override in force are below `peak`),
  `RequestInv` (so is every limit a request has read) and `RoomInv`: for each resource there is a
  request `h`, the last that passed the check, such that the rows, the room `h` holds and one batch for
  each other request that is about to write fit in `peak` plus one batch for each of the other
  requests, plus the rows brought back. When a request passes it takes the place of `h`: its own
  reading covered all rows there were, and the batches of the others are counted in full.
* `IdentityProofs`: `TypeCorrect`; `UpdatesSurvive` (`NoLostUpdate`), whose invariant says of every copy in hand
  that it equals the table's row or that the row was written since; `AccountsCorrect` (`AccountsHold`) from
  `DeactivationsHold`, `TokensStayRetired` and `CodesWorkOnce`; `ImpersonationCorrect` (`ImpersonationHolds`) from
  `RevocationIsImmediate` and `FlagsStartClean`.
* `OutreachProofs`: `TypeCorrect`; `DirectoryCorrect` from `MembersAsAsked` (`MembersInv` adds to
  `MembershipsKept` what every request's copy holds) and `OrphansCameLate` (`OrphansInv` adds that every task in
  flight is sound); `CooldownIsKept` (`CooldownInv`: a pass that has not recorded its mail is accounted for);
  `JobRowsAreTrue` (`DetectedInv`, `ExportsInv`).
* `IntakeProofs`: `TypeCorrect`; `ShownAsSettled` (`FormsInv`: what each visit read is as new as the last answered
  edit, or the entry is known to be left over); `RevokedForGood` (`PortalInv`: a held copy agrees with the row or
  the row is known to be disturbed).
* `PaymentsProofs`, for any number of payments and overlapping requests: `LedgerImplemented` (`ImplementsLedger`,
  step by step: each step of a handler is one step of `PaymentLedger` or a stutter), `PaidCorrect` (`PaidIsBacked`),
  `ConfirmationsAudited` (the audit half of `AnswersAreKept`) and `AnswersKept`. `AnswersKept` assumes that
  webhooks have ids of their own or report successes only (`EnvelopeIds \/ ~ReportsFailures`): else the id in the log
  is the transaction's, and the log of a failed attempt hides the success that follows it.
  `AnnouncementsCorrect`, `AgreementReached` and `MoneyCorrect` hold for any finite number of handlers at once. `FreshInv` says
  that a handler past its read that was not overtaken holds the row as it is. `CountInv` counts: the publications of a status, and the
  handlers that are about to publish it, are at most its transitions plus `raced`, and no fewer while nothing was cut short; so
  are mails and those about to mail. A handler that was overtaken adds one to `raced` when it writes, so that it pays for
  the publication it goes on to make or leave out. `LandedInv` says that an answered success has settled the row and that nothing but
  the writes `QuiescentAgreement` names has taken it back.
* `IntegrationDeliveryProofs`, for one backend instance and no retries by hand (`Unattended`): `RepeatsPaidFor`
  (`RepeatsArePaidFor`) and `QueueImplemented` (`ImplementsQueue`). The invariant behind both is that at most one pass
  works at a time, so that its copy of the row it is at is the row; what the receiver got more than once is
  then paid for by a fault: an answer lost, a save that failed or a death of the process.
* `PlanLimitsProofs!LedgerCorrect` (`LedgerHolds`): e-mail and storage stay within a batch for each other request and
  for each fault of the highest limit there was, and the ledger misses no byte but by a fault. What was sent or
  stored and is not recorded yet is counted as a set of units, one for each, so that no sum over
  requests is needed (`LagInv`, `StoredInv`, `MeterRoomInv`).
* `IdentityProofs!HistoryCorrect` (`HistoryBalances`: events of an organization's status, entered and left), from `ChangesNumbered`, `PreviousHolds` and `BalanceInv`.
* `OutreachProofs!ImportsFollowPaths` (`ImportFollowsPaths`) from `PathsInv`: `GroupsInv`, no two groups have one name,
  and `WalkInv`, the groups an import has followed its path along so far, as long as nothing met it.
* `BackofficeProofs`: the nine parts share only the budget of what may come in, so each has an inductive invariant
  of its own, and `StepsArePartsSteps` reduces a step of the composition to a step of each part, a death of
  the process, or a stutter.
  * `BrowserCorrect` (`BrowserInv`: unless sessions mingled, everything in flight speaks for the session of the cookie, and a
    call that waits was sent once).
  * `EnrolmentCorrect` (`EnrolmentInv`: what each acceptance knows of its invitation is still so, or the pair is known to be
    spoilt). `ScansCorrect` (`ScansInv`: a view no change of the code has met holds the token in force).
  * `NoticesCorrect` (`NoticesInv`: the mails that are out are those charged, those that cannot be charged any more, and those that
    requests still owe: `mailsOut = meter + unmetered + Cardinality(Owed)`).
  * `TrailCorrect` (`TrailInv`: each request's traces and records so far; what a purge has read of the limits is what it
    cuts by, unless they were saved meanwhile). `BroadcastsCorrect` (`BroadcastsInv`: no two requests
    are at the same broadcast, and each knows which mails have no row yet).
  * `BooksCorrect` (`MarketInv` = `SessionsInv`, `PlansInv`, `AuditsInv`: an old copy of a session is known to be torn; a plan's
    items are its list or, while its request inserts them, nothing; a reconciliation's request knows how many exceptions it saved).
  * `ImportsCorrect` (`ImportsInv` = `TemplatesInv`, `SnapshotsInv`, `CommitsInv`; an error of a clerk at any step is `ClerkFails`: between two operations the marks and the pointer
    name the same template, and during one they differ by what it has yet to do).
  * `ReportsCorrect`, all of `ReportsHold` but the sum, which follows below: that the payments of the two queries differ only by
    those written between them (`DaysAreOfTheBreakdown`), that payments have their submissions, and the walk. That a walk of the groups comes to none twice is an argument
    about the whole walk: the parent of each group that is ahead or behind, the root's excepted,
    is behind, so a group found twice would close a circle of parents (`Walked`).
  * `TypeCorrect`: the conjunction of all of them, with the budget, implies `TypeOK`.
* `BackofficePromises!ReadersCorrect` (`ReadersAreTold`). What was missing is `DaysAddUp`: the sum over the days
  of the analytics differs from the breakdown by no more than the payments written in between. The community modules' `MapThenSumSet` is a function over the subsets of a set,
  chosen by its recursion. That there is such a function needs an induction, and so does that it adds up; the prover
  cannot instantiate the induction theorems of the library, so both are argued by the smallest counterexample
  instead: the sizes at which a claim fails are a set of naturals, and `WellFoundedInduction` says that such a set, if
  not empty, has a least member (`CountingUp`, `SumsExist`).
* `BackofficePromises!TasksKept` (`TasksEndOnce`): broadcasts, reconciliation runs, requests with their logs and import jobs
  each implement `Tasks`, which knows no requests, no tables and no crashes. The mapping reads
  a task's stage off its status and off the history of what was cut off; its work is a set, so that the result of a finished
  task is its size. Each refinement needs one fact beside the invariants above: no request is at a broadcast that is queued
  and was cut off (`BroadcastsAreTasks`, `HaltedInv`); nor at such a reconciliation (`AuditsAreTasks`, `BrokenInv`); how many logs a
  request has at each point of its way through the interceptors (`CallsAreTasks`, `LogsInv`); and that only a job there
  is can be committed twice or left halfway (`JobsAreTasks`, `CutsInv`).
* `OutreachProofs!PassesComeToAnEnd`, the safety half of `PassEnds` for any number of passes: the scheduler's flag is set exactly
  while its pass runs (`FlagIsThePass`), and a pass has a rank, the contacts it has still to go through and its place in
  the handling of one, that each of its own steps lowers and no step of anyone else raises (`Advances`). Contacts must be finite.
  With the weak fairness of each pass's step the flag is released in the end.

What is only model-checked:

* `ChargeIsRecorded`, `DeliveryEnds` and `PassEnds`: liveness under fairness, which needs `ENABLED`, and that is beyond the
  prover. The part of `PassEnds` that is safety, a rank that every step of a pass lowers, is proved (`PassesComeToAnEnd`).
* The three runs that expect a violation, since what they state is false.

## 5. Plan

1. (done) Payments, deliveries, limits, with their abstract specifications and first theorems.
2. (done) Accounts, organizations and impersonation; groups, reminders and jobs; public intake and the
   contact portal; the back office.
3. (done) Theorems for all detailed modules of payments, deliveries, limits, identity, outreach, intake.
4. (done) Theorems for the back office; the refinements of `PaymentLedger`, `DeliveryQueue` and `Tasks`; every safety property
   that a passing run checks.
5. Left: abstract specifications for the limits and the notices, which end in no state of their own and so are not `Tasks`;
   more of `market-readiness.service.ts` and of the public controller.

## 6. Not modelled

* Row-level security and the request context: a property of PostgreSQL policies, not of the code's control flow.
* Token signing and hashing, e-mail providers and object storage: external calls with one outcome each.
* The second factor of contacts: nothing it does takes effect (section 3).
* Validation of answers, the widget and its embed script in `public.controller.ts`, HTML/CSV/PDF
  generation, receipts, exports, lists and statistics, notification wording: reads and layout.
* DTO decorators, database migrations (their indexes and foreign keys are used by the models), start-up and
  seed scripts.
* The pages of the Next.js frontend: views that call the API, with no state the backend depends on; the session of a
  tab is in `Browser`.

`PROJECT.json` lists each component with its status and reason.
