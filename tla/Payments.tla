------------------------------ MODULE Payments ------------------------------
(***************************************************************************)
(* The payment lifecycle of apps/backend/src/modules/payment: a payment is *)
(* created, initialised with Paystack, and then updated by webhooks, by    *)
(* verification calls and by administrators.  No handler runs in a         *)
(* database transaction, so every await is a point where the other         *)
(* handlers run: a handler is a process with a program counter, and what   *)
(* it read from the database before an await is a copy that may be stale.  *)
(*                                                                         *)
(* Paystack itself is external and modelled from how the code calls it.    *)
(***************************************************************************)
EXTENDS Integers, FiniteSets

CONSTANTS
    Payments,         \* payment ids; a payment and its Paystack reference are one
    Handlers,         \* the requests that can be in flight at the same time
    Amounts,          \* the sums a payment can be created with
    Charges,          \* the sums Paystack can report as charged
    PartialLimit,     \* organizations.partial_payment_limit; 0 stands for none
    EnabledMethods,   \* organizations.enabled_payment_methods
    AdminUpdates,     \* the bodies of PATCH /payments/:id/status in use
    Verifiers,        \* where verifications are asked from
    EnvelopeIds,      \* whether a webhook payload has an id of its own
    ReportsFailures,  \* whether Paystack sends webhooks for failed attempts
    MaxAdmin,         \* bound: administrator requests
    MaxFaults         \* bound: handlers cut short by a crash or a database error

VARIABLES
    payments,     \* table payments, by id
    logs,         \* table payment_logs: the (payment_id, event_id) pairs
    txn,          \* Paystack's transaction for each reference
    webhooks,     \* webhook messages Paystack has sent; any can be redelivered
    acked,        \* those answered with 200
    pc, op, upd,  \* the handlers: where they are, their request, their update
    overtaken,    \* history: the handlers in flight since another one wrote their row
    emitted,      \* domain events published, per payment and status
    transitions,  \* history: status changes of the row, per payment and status
    mails,        \* payment confirmation mails sent, per payment
    byAdmin,      \* history: payments an administrator has updated
    raced,        \* history: writes of overtaken handlers, per payment
    admins, faults

db     == <<payments, logs>>
paystack == <<txn, webhooks, acked>>
hist   == <<emitted, transitions, mails, byAdmin, raced>>
bounds == <<admins, faults>>
vars   == <<payments, logs, txn, webhooks, acked, pc, op, upd, overtaken,
            emitted, transitions, mails, byAdmin, raced, admins, faults>>

-----------------------------------------------------------------------------
Statuses  == {"PENDING", "PAID", "PARTIAL", "FAILED"}
Announced == {"PAID", "FAILED"}
Methods   == {"ONLINE", "OFFLINE"}
Sources   == {"manual_verify", "callback_redirect"}
Reporters == Sources \cup {"webhook"}
Kinds     == Sources \cup {"none", "submit", "webhook", "admin", "review", "offline"}
TxnStates == {"none", "ongoing", "failed", "success", "reversed"}
Replies   == {"ongoing", "abandoned", "failed", "success", "reversed"}

NoAmount == -1
NoMethod == "unset"
NoId     == <<"none", "">>
LogIds   == {NoId, <<"init", "failed">>}
              \cup ({"webhook"} \X (TxnStates \cup {"txn"}))
              \cup ({"verify"} \X Sources)
              \cup ({"admin"} \X {"status_updated", "rejected", "confirmed", "updated"})

AdminDto == [want: Statuses, amt: Nat \cup {NoAmount}, meth: Methods \cup {NoMethod}]

ASSUME PaymentsAssumption ==
    /\ Payments # {}
    /\ IsFiniteSet(Handlers)
    /\ Amounts \subseteq Nat \ {0}
    /\ Charges \subseteq Nat \ {0}
    /\ PartialLimit \in Nat
    /\ EnabledMethods \subseteq Methods
    /\ AdminUpdates \subseteq AdminDto
    /\ Verifiers \subseteq Sources
    /\ EnvelopeIds \in BOOLEAN
    /\ ReportsFailures \in BOOLEAN
    /\ MaxAdmin \in Nat
    /\ MaxFaults \in Nat

\* A row of table payments; `total` is total_amount ?? amount, what is owed.
Row == [status: Statuses \cup {"NONE"}, amount: Nat, total: Nat, paid: Nat,
        due: Nat, method: Methods, confirmed: BOOLEAN]
NoRow == [status |-> "NONE", amount |-> 0, total |-> 0, paid |-> 0, due |-> 0,
          method |-> "ONLINE", confirmed |-> FALSE]

\* The columns updateStatus writes, and the status it read before (`was`).
Update == [status: Statuses, paid: Nat, due: Nat, method: Methods,
           confirmed: BOOLEAN, was: Statuses]
NoUpd  == [status |-> "PENDING", paid |-> 0, due |-> 0, method |-> "ONLINE",
           confirmed |-> FALSE, was |-> "PENDING"]

\* A request: its kind and payment, the log id it is known by, the webhook it
\* answers, what Paystack said, the status read first, and the dto.
Op == [kind: Kinds, pay: Payments, id: LogIds, reply: Replies, said: Statuses,
       seen: Statuses, want: Statuses, amt: Nat \cup {NoAmount},
       meth: Methods \cup {NoMethod}]
NoOp == [kind |-> "none", pay |-> CHOOSE p \in Payments : TRUE, id |-> NoId,
         reply |-> "ongoing", said |-> "PENDING", seen |-> "PENDING",
         want |-> "PENDING", amt |-> NoAmount, meth |-> NoMethod]
Webhook == [pay: Payments, status: TxnStates, amount: Nat]

Exists(p) == payments[p].status # "NONE"
Settled(s) == s \in {"PAID", "PARTIAL"}
AllIdle == \A h \in Handlers : pc[h] = "idle"

-----------------------------------------------------------------------------
(* Pure functions of the service. *)

\* Mutant: every status the code does not know counts as paid.
MapOptimistically(s) == IF s \in {"failed", "reversed"} THEN "FAILED" ELSE "PAID"

\* mapPaystackStatusToPaymentStatus
MapPaystackStatus(s) ==
    CASE s = "success" -> "PAID"
      [] s \in {"failed", "abandoned", "reversed"} -> "FAILED"
      [] OTHER -> "PENDING"

Clamp(x, top) == IF x > top THEN top ELSE x

\* Mutants of ResolveTracked: the paid sum is taken off what was due before; the
\* requested status is kept; a failure forgets what was paid.
ResolveFromDue(row, want, amt) ==
    IF want \in {"FAILED", "PENDING"}
    THEN [status |-> want, paid |-> row.paid, due |-> row.due]
    ELSE LET q == Clamp(IF amt = NoAmount THEN row.amount ELSE amt, row.due)
         IN  [status |-> IF row.due = q THEN "PAID" ELSE "PARTIAL",
              paid |-> q, due |-> row.due - q]
ResolveAsAsked(row, want, amt) ==
    LET q == Clamp(IF amt = NoAmount THEN row.total ELSE amt, row.total)
    IN  [status |-> want, paid |-> q, due |-> row.total - q]
ResolveForgetful(row, want, amt) ==
    LET q == IF want \in {"FAILED", "PENDING"} THEN 0
             ELSE Clamp(IF amt = NoAmount THEN row.total ELSE amt, row.total)
    IN  [status |-> IF want \in {"FAILED", "PENDING"} THEN want
                    ELSE IF q = row.total THEN "PAID" ELSE "PARTIAL",
         paid |-> q, due |-> row.total - q]

\* resolveTrackedPaymentState: FAILED and PENDING keep the money columns as
\* they were read; otherwise the status is derived from the balance.
ResolveTracked(row, want, amt) ==
    LET asked == IF amt # NoAmount THEN amt
                 ELSE IF want = "PAID" THEN row.total ELSE row.amount
        paid  == Clamp(asked, row.total)
    IN  IF want \in {"FAILED", "PENDING"}
        THEN [status |-> want, paid |-> row.paid, due |-> row.due]
        ELSE [status |-> IF row.total - paid = 0 THEN "PAID" ELSE "PARTIAL",
              paid   |-> paid,
              due    |-> row.total - paid]

\* resolveConfirmationMetadata, reduced to whether confirmed_at is set.
Confirms(row, o, status) ==
    LET method == IF o.meth = NoMethod THEN row.method ELSE o.meth
    IN  \/ row.confirmed
        \/ o.kind \in {"admin", "review", "offline"} /\ method = "OFFLINE" /\ Settled(status)

\* resolveAdminUpdateEvent
AdminEvent(status, method) ==
    CASE method = "ONLINE" -> "status_updated"
      [] method = "OFFLINE" /\ status = "FAILED" -> "rejected"
      [] method = "OFFLINE" /\ Settled(status) -> "confirmed"
      [] OTHER -> "updated"

\* The status applyPaystackOutcome settles on: a success that reports less than
\* the amount of the payment is downgraded.
ResolveReply(reply, charged, amount) ==
    IF MapPaystackStatus(reply) = "PAID" /\ charged # NoAmount /\ charged < amount
    THEN "PARTIAL" ELSE MapPaystackStatus(reply)

\* payload.id || payload.data.id: the message's own id if it has one, else the
\* transaction's.
WebhookId(status) == <<"webhook", IF EnvelopeIds THEN status ELSE "txn">>

\* Mutant: a verification goes by the id of the webhook it expects.
SharedVerifyId(source) == WebhookId("success")

\* buildVerificationEventId
VerifyId(source) == <<"verify", source>>

\* Mutant: any save of a PAID or FAILED row is announced.
AnnouncesSaves(u) == u.status \in Announced

\* updateStatus publishes an event if the status differs from the one it read.
Announces(u) == u.was # u.status /\ u.status \in Announced

\* maybeSendPaymentNotifications compares the status read first with the one
\* Paystack reported; only the confirmation mail is kept.
MailsConfirmation(o) == o.seen # o.said /\ o.said = "PAID"

-----------------------------------------------------------------------------
(* Steps of a handler. *)

Begin(h, o, at) ==
    /\ pc[h] = "idle"
    /\ pc' = [pc EXCEPT ![h] = at]
    /\ op' = [op EXCEPT ![h] = o]

Goto(h, at) == pc' = [pc EXCEPT ![h] = at]

\* The handler ends: by returning or by throwing.
End(h) ==
    /\ pc' = [pc EXCEPT ![h] = "idle"]
    /\ op' = [op EXCEPT ![h] = NoOp]
    /\ upd' = [upd EXCEPT ![h] = NoUpd]
    /\ overtaken' = overtaken \ {h}

Reported(sum) == IF sum = 0 THEN NoAmount ELSE sum

\* It returns: a webhook is answered with 200 and Paystack stops retrying it.
Return(h) ==
    /\ End(h)
    /\ acked' = IF op[h].kind = "webhook"
                THEN acked \cup {w \in webhooks : w.pay = op[h].pay /\ w.status = op[h].reply}
                ELSE acked

\* PaymentService.create: the checks it makes and the row it inserts.
MayCreate(p, a, t, m) ==
    /\ ~Exists(p)
    /\ a <= t
    /\ m \in EnabledMethods
    /\ PartialLimit # 0 => a >= PartialLimit

Insert(p, a, t, m) ==
    payments' = [payments EXCEPT ![p] =
        [NoRow EXCEPT !.status = "PENDING", !.amount = a, !.total = t,
                      !.due = t, !.method = m]]

\* POST /payments, and the offline branch of a public submission: the row is
\* all there is.
CreatePayment(p, a, t, m) ==
    /\ MayCreate(p, a, t, m)
    /\ Insert(p, a, t, m)
    /\ UNCHANGED <<logs, paystack, pc, op, upd, overtaken, hist, bounds>>

\* A public submission paid online: the row, then initializePaystack.
SubmitOnline(h, p, a, t) ==
    /\ MayCreate(p, a, t, "ONLINE")
    /\ Insert(p, a, t, "ONLINE")
    /\ Begin(h, [NoOp EXCEPT !.kind = "submit", !.pay = p, !.want = "FAILED"], "init")
    /\ UNCHANGED <<logs, paystack, upd, overtaken, hist, bounds>>

\* initializePaystack returns an authorization url ...
InitializeOk(h) ==
    /\ pc[h] = "init"
    /\ txn' = [txn EXCEPT ![op[h].pay].status = "ongoing"]
    /\ End(h)
    /\ UNCHANGED <<db, webhooks, acked, hist, bounds>>

\* ... or throws, and the controller calls markInitializationFailed, which
\* reads the payment ...
InitializeFails(h) ==
    /\ pc[h] = "init"
    /\ op' = [op EXCEPT ![h].seen = payments[op[h].pay].status]
    /\ Goto(h, "mif")
    /\ UNCHANGED <<db, paystack, upd, overtaken, hist, bounds>>

\* ... logs the failure unless that was done, and calls updateStatus unless the
\* payment was FAILED when it was read.
LogInitFailure(h) ==
    /\ pc[h] = "mif"
    /\ logs' = logs \cup {<<op[h].pay, <<"init", "failed">>>>}
    /\ IF op[h].seen # "FAILED"
       THEN Goto(h, "read") /\ UNCHANGED <<op, upd, overtaken>>
       ELSE End(h)
    /\ UNCHANGED <<payments, paystack, hist, bounds>>

\* handleWebhookEvent reads the payment the message is about.
ReceiveWebhook(h, w) ==
    /\ Exists(w.pay)
    /\ Begin(h, [NoOp EXCEPT !.kind = "webhook", !.pay = w.pay,
                    !.id = WebhookId(w.status), !.reply = w.status,
                    !.amt = Reported(w.amount), !.seen = payments[w.pay].status], "check")
    /\ UNCHANGED <<db, paystack, upd, overtaken, hist, bounds>>

\* verifyAndFinalizePayment reads the payment, then asks Paystack.
StartVerify(h, p, source) ==
    /\ Exists(p)
    /\ Begin(h, [NoOp EXCEPT !.kind = source, !.pay = p,
                    !.id = VerifyId(source), !.seen = payments[p].status], "verify")
    /\ UNCHANGED <<db, paystack, upd, overtaken, hist, bounds>>

\* Paystack calls a checkout nobody has completed either ongoing or abandoned,
\* and knows nothing of a reference that was never initialised.
VerifyReplies(h) ==
    /\ pc[h] = "verify"
    /\ LET t == txn[op[h].pay]
       IN  \E r \in Replies :
             /\ r \in (IF t.status = "ongoing" THEN {"ongoing", "abandoned"} ELSE {t.status})
             /\ op' = [op EXCEPT ![h].reply = r,
                                 ![h].amt = Reported(t.amount)]
    /\ Goto(h, "check")
    /\ UNCHANGED <<db, paystack, upd, overtaken, hist, bounds>>

VerifyFails(h) ==
    /\ pc[h] = "verify"
    /\ txn[op[h].pay].status = "none"
    /\ End(h)
    /\ UNCHANGED <<db, paystack, hist, bounds>>

\* applyPaystackOutcome.  An event already in payment_logs is skipped ...
SkipLogged(h) ==
    /\ pc[h] = "check"
    /\ <<op[h].pay, op[h].id>> \in logs
    /\ Return(h)
    /\ UNCHANGED <<db, txn, webhooks, hist, bounds>>

Resolved(h) == ResolveReply(op[h].reply, op[h].amt, payments[op[h].pay].amount)
BelowLimit(h) == Resolved(h) = "PARTIAL" /\ op[h].amt # NoAmount /\ op[h].amt < PartialLimit

\* ... a partial sum below the organization's limit throws ...
RejectBelowLimit(h) ==
    /\ pc[h] = "check"
    /\ <<op[h].pay, op[h].id>> \notin logs
    /\ BelowLimit(h)
    /\ End(h)
    /\ UNCHANGED <<db, paystack, hist, bounds>>

\* ... and everything else goes to updateStatus.
AcceptOutcome(h) ==
    /\ pc[h] = "check"
    /\ <<op[h].pay, op[h].id>> \notin logs
    /\ ~BelowLimit(h)
    /\ op' = [op EXCEPT ![h].want = Resolved(h), ![h].said = MapPaystackStatus(op[h].reply)]
    /\ Goto(h, "read")
    /\ UNCHANGED <<db, paystack, upd, overtaken, hist, bounds>>

\* PATCH /payments/:id/status and PATCH /payments/:id/offline-review.
AdminRequest(h, p, d, kind) ==
    /\ Exists(p)
    /\ admins < MaxAdmin
    /\ admins' = admins + 1
    /\ Begin(h, [NoOp EXCEPT !.kind = kind, !.pay = p, !.want = d.want,
                    !.amt = d.amt, !.meth = d.meth], "read")
    /\ UNCHANGED <<db, paystack, upd, overtaken, hist, faults>>

\* POST /payments/offline: create, then updateStatus with what was received.
CreateOffline(h, p, a, t) ==
    /\ MayCreate(p, a, t, "OFFLINE")
    /\ admins < MaxAdmin
    /\ admins' = admins + 1
    /\ Insert(p, a, t, "OFFLINE")
    /\ Begin(h, [NoOp EXCEPT !.kind = "offline", !.pay = p, !.amt = a, !.meth = "OFFLINE",
                    !.want = IF a < t THEN "PARTIAL" ELSE "PAID"], "read")
    /\ UNCHANGED <<logs, paystack, upd, overtaken, hist, faults>>

\* Mutant: the method of the dto is written whether it has one or not.
MethodAsGiven(o, row) == o.meth

\* updateStatus reads the row and computes the update; a refused method, an
\* offline review of an online payment or a partial sum below the limit throws.
NextMethod(o, row) == IF o.meth = NoMethod THEN row.method ELSE o.meth

MayUpdate(o, row, next) ==
    /\ o.kind = "review" => NextMethod(o, row) # "ONLINE"
    /\ o.meth \notin {NoMethod, row.method} => o.meth \in EnabledMethods
    /\ next.status = "PARTIAL" => next.paid >= PartialLimit

ReadForUpdate(h) ==
    LET o    == op[h]
        row  == payments[o.pay]
        next == ResolveTracked(row, o.want, o.amt)
    IN  /\ pc[h] = "read"
        /\ MayUpdate(o, row, next)
        /\ upd' = [upd EXCEPT ![h] =
               [status |-> next.status, paid |-> next.paid, due |-> next.due,
                method |-> NextMethod(o, row), was |-> row.status,
                confirmed |-> Confirms(row, o, next.status)]]
        /\ overtaken' = IF o.kind \in Reporters THEN overtaken ELSE overtaken \ {h}
        /\ Goto(h, "write")
        /\ UNCHANGED <<db, paystack, op, hist, bounds>>

RefuseUpdate(h) ==
    LET o == op[h] row == payments[op[h].pay] IN
    /\ pc[h] = "read"
    /\ ~MayUpdate(o, row, ResolveTracked(row, o.want, o.amt))
    /\ End(h)
    /\ UNCHANGED <<db, paystack, hist, bounds>>

\* Mutant: reviews of offline payments are not logged.
AfterEmitNoReviewLog(o) ==
    CASE o.kind = "admin" -> "adminlog"
      [] o.kind \in Sources \cup {"webhook"} -> "log"
      [] OTHER -> "done"

\* What follows the update, once its domain event is out.
AfterEmit(o) ==
    CASE o.kind \in {"admin", "review", "offline"} -> "adminlog"
      [] o.kind \in Sources \cup {"webhook"} -> "log"
      [] OTHER -> "done"

\* The handlers that go by what they read of the row, or were told of the payment.
Holds(g, p) == pc[g] \in {"verify", "check", "read", "write"} /\ op[g].pay = p

\* updateStatus writes the columns it computed over whatever the row holds now,
\* and announces the change of the status it read.
WriteStatus(h) ==
    LET p == op[h].pay u == upd[h] IN
    /\ pc[h] = "write"
    /\ payments' = [payments EXCEPT ![p] =
           [@ EXCEPT !.status = u.status, !.paid = u.paid, !.due = u.due,
                     !.method = u.method, !.confirmed = u.confirmed]]
    /\ transitions' = IF payments[p].status # u.status
                      THEN [transitions EXCEPT ![p][u.status] = @ + 1]
                      ELSE transitions
    /\ byAdmin' = IF op[h].kind \in {"admin", "review", "offline"}
                  THEN byAdmin \cup {p} ELSE byAdmin
    /\ overtaken' = (overtaken \ {h}) \cup {g \in Handlers \ {h} : Holds(g, p)}
    /\ raced' = IF h \in overtaken THEN [raced EXCEPT ![p] = @ + 1] ELSE raced
    /\ Goto(h, IF Announces(u) THEN "emit" ELSE AfterEmit(op[h]))
    /\ UNCHANGED <<logs, paystack, op, upd, emitted, mails, bounds>>

EmitEvent(h) ==
    /\ pc[h] = "emit"
    /\ emitted' = [emitted EXCEPT ![op[h].pay][upd[h].status] = @ + 1]
    /\ Goto(h, AfterEmit(op[h]))
    /\ UNCHANGED <<db, paystack, op, upd, overtaken, transitions, mails, byAdmin, raced, bounds>>

\* An administrator's update is logged under a fresh event id.
SaveAdminLog(h) ==
    /\ pc[h] = "adminlog"
    /\ logs' = logs \cup {<<op[h].pay, <<"admin", AdminEvent(upd[h].status, upd[h].method)>>>>}
    /\ End(h)
    /\ UNCHANGED <<payments, paystack, hist, bounds>>

\* A Paystack outcome is logged after it was applied.  The unique index on
\* (payment_id, event_id) makes the second of two inserts throw.
SaveOutcomeLog(h) ==
    /\ pc[h] = "log"
    /\ <<op[h].pay, op[h].id>> \notin logs
    /\ logs' = logs \cup {<<op[h].pay, op[h].id>>}
    /\ Goto(h, "notify")
    /\ UNCHANGED <<payments, paystack, op, upd, overtaken, hist, bounds>>

OutcomeLogConflict(h) ==
    /\ pc[h] = "log"
    /\ <<op[h].pay, op[h].id>> \in logs
    /\ End(h)
    /\ UNCHANGED <<db, paystack, hist, bounds>>

Notify(h) ==
    /\ pc[h] = "notify"
    /\ mails' = IF MailsConfirmation(op[h])
                THEN [mails EXCEPT ![op[h].pay] = @ + 1] ELSE mails
    /\ Return(h)
    /\ UNCHANGED <<db, txn, webhooks, emitted, transitions, byAdmin, raced, bounds>>

FinishSubmit(h) ==
    /\ pc[h] = "done"
    /\ End(h)
    /\ UNCHANGED <<db, paystack, hist, bounds>>

\* The process dies, or the database or a remote call fails, under a handler.
Fault(h) ==
    /\ pc[h] # "idle"
    /\ faults < MaxFaults
    /\ faults' = faults + 1
    /\ End(h)
    /\ UNCHANGED <<db, paystack, hist, admins>>

-----------------------------------------------------------------------------
(* Paystack and the customer: external. *)

Send(p, status, amount) ==
    webhooks' = webhooks \cup {[pay |-> p, status |-> status, amount |-> amount]}

ChargeSucceeds(p, c) ==
    /\ txn[p].status \in {"ongoing", "failed"}
    /\ c <= payments[p].amount
    /\ txn' = [txn EXCEPT ![p] = [status |-> "success", amount |-> c]]
    /\ Send(p, "success", c)
    /\ UNCHANGED <<db, acked, pc, op, upd, overtaken, hist, bounds>>

ChargeFails(p) ==
    /\ txn[p].status = "ongoing"
    /\ txn' = [txn EXCEPT ![p].status = "failed"]
    /\ IF ReportsFailures THEN Send(p, "failed", 0) ELSE UNCHANGED webhooks
    /\ UNCHANGED <<db, acked, pc, op, upd, overtaken, hist, bounds>>

ChargeReversed(p) ==
    /\ ReportsFailures
    /\ txn[p].status = "success"
    /\ txn' = [txn EXCEPT ![p].status = "reversed"]
    /\ Send(p, "reversed", txn[p].amount)
    /\ UNCHANGED <<db, acked, pc, op, upd, overtaken, hist, bounds>>

-----------------------------------------------------------------------------
Init ==
    /\ payments = [p \in Payments |-> NoRow]
    /\ logs = {}
    /\ txn = [p \in Payments |-> [status |-> "none", amount |-> 0]]
    /\ webhooks = {}
    /\ acked = {}
    /\ pc = [h \in Handlers |-> "idle"]
    /\ op = [h \in Handlers |-> NoOp]
    /\ upd = [h \in Handlers |-> NoUpd]
    /\ overtaken = {}
    /\ emitted = [p \in Payments |-> [s \in Announced |-> 0]]
    /\ transitions = [p \in Payments |-> [s \in Statuses |-> 0]]
    /\ mails = [p \in Payments |-> 0]
    /\ byAdmin = {}
    /\ raced = [p \in Payments |-> 0]
    /\ admins = 0
    /\ faults = 0

\* A new request.
Request(h) ==
    \/ \E w \in webhooks : ReceiveWebhook(h, w)
    \/ \E p \in Payments :
         \/ \E s \in Verifiers : StartVerify(h, p, s)
         \/ \E d \in AdminUpdates, k \in {"admin", "review"} : AdminRequest(h, p, d, k)
         \/ \E a, t \in Amounts : SubmitOnline(h, p, a, t) \/ CreateOffline(h, p, a, t)

\* The next step of a request in flight.
Step(h) ==
    \/ InitializeOk(h) \/ InitializeFails(h) \/ LogInitFailure(h)
    \/ VerifyReplies(h) \/ VerifyFails(h)
    \/ SkipLogged(h) \/ RejectBelowLimit(h) \/ AcceptOutcome(h)
    \/ ReadForUpdate(h) \/ RefuseUpdate(h) \/ WriteStatus(h)
    \/ EmitEvent(h) \/ SaveAdminLog(h) \/ SaveOutcomeLog(h) \/ OutcomeLogConflict(h)
    \/ Notify(h) \/ FinishSubmit(h)

Provider ==
    \E p \in Payments :
        \/ \E c \in Charges : ChargeSucceeds(p, c)
        \/ ChargeFails(p)
        \/ ChargeReversed(p)

Next ==
    \/ \E h \in Handlers : Request(h) \/ Step(h) \/ Fault(h)
    \/ \E p \in Payments, a, t \in Amounts, m \in Methods : CreatePayment(p, a, t, m)
    \/ Provider

Spec == Init /\ [][Next]_vars

\* The event loop runs every request that is in flight, and Paystack redelivers
\* a webhook until it is answered with 200.
SentStatuses == IF ReportsFailures THEN {"success", "failed", "reversed"} ELSE {"success"}

Redeliver(p, s) ==
    \E h \in Handlers, w \in webhooks \ acked :
        w.pay = p /\ w.status = s /\ ReceiveWebhook(h, w)

Fairness ==
    /\ \A h \in Handlers : WF_vars(Step(h))
    /\ \A p \in Payments, s \in SentStatuses : SF_vars(Redeliver(p, s))

FairSpec == Spec /\ Fairness

-----------------------------------------------------------------------------
(* Properties. *)

PcValues == {"idle", "init", "mif", "verify", "check", "read", "write", "emit",
             "adminlog", "log", "notify", "done"}

\* The shape of the tables, of Paystack's side and of the handlers.
TypeOK ==
    /\ payments \in [Payments -> Row]
    /\ logs \subseteq Payments \X LogIds
    /\ txn \in [Payments -> [status: TxnStates, amount: Nat]]
    /\ webhooks \subseteq Webhook
    /\ acked \subseteq webhooks
    /\ pc \in [Handlers -> PcValues]
    /\ op \in [Handlers -> Op]
    /\ upd \in [Handlers -> Update]
    /\ overtaken \subseteq Handlers
    /\ emitted \in [Payments -> [Announced -> Nat]]
    /\ transitions \in [Payments -> [Statuses -> Nat]]
    /\ mails \in [Payments -> Nat]
    /\ byAdmin \subseteq Payments
    /\ raced \in [Payments -> Nat]
    /\ admins \in Nat
    /\ faults \in Nat

\* The money columns always add up, amount_paid + balance_due is what is owed, and
\* the status agrees with them: a row never says PAID with a balance, nor PARTIAL
\* without one.  So it stays although updateStatus writes all of them from a row it
\* read before an await and another handler may have written the row since.
LedgerAgrees ==
    \A p \in Payments :
        /\ payments[p].paid + payments[p].due = payments[p].total
        /\ payments[p].status = "PAID" => payments[p].due = 0
        /\ payments[p].status = "PARTIAL" => payments[p].due > 0

Charged(p, sum) == txn[p].status \in {"success", "reversed"} /\ txn[p].amount >= sum

\* A payment no administrator touched is PAID only if Paystack charged the
\* customer all that is owed: no replay, reordering or short charge settles it.
PaidIsBacked ==
    \A p \in Payments :
        payments[p].status = "PAID" /\ p \notin byAdmin => Charged(p, payments[p].total)

\* Paystack is told 200 for a successful charge only once the charge has settled
\* the row at some time: a crash, a conflict on the log or a duplicate never
\* makes Paystack stop retrying a charge nobody recorded.
AckedSuccessIsApplied ==
    \A w \in acked : w.status = "success" =>
        transitions[w.pay]["PAID"] + transitions[w.pay]["PARTIAL"] > 0

\* The row of an offline payment is stamped as confirmed only if the audit trail
\* of the payment has, or is about to get, the confirmation.
ConfirmedIsAudited ==
    \A p \in Payments : payments[p].confirmed /\ faults = 0 =>
        \/ <<p, <<"admin", "confirmed">>>> \in logs
        \/ \E h \in Handlers : op[h].pay = p /\ pc[h] \in {"emit", "adminlog"}

\* What Paystack and the administrators were told stays backed by what was
\* recorded.
AnswersAreKept == AckedSuccessIsApplied /\ ConfirmedIsAudited

\* payment.completed and payment.failed are published at most once per change of
\* the row's status to PAID and to FAILED.
NoPhantomEvents ==
    \A p \in Payments, s \in Announced : emitted[p][s] <= transitions[p][s]

\* The service implements PaymentLedger, where every update is atomic.
Ledger == INSTANCE PaymentLedger WITH
    ledger <- [p \in Payments |->
                 [status |-> payments[p].status, total |-> payments[p].total,
                  paid |-> payments[p].paid, due |-> payments[p].due]],
    had <- [p \in Payments |-> {s \in Statuses : transitions[p][s] > 0}],
    published <- [p \in Payments |-> {s \in Announced : emitted[p][s] > 0}]

\* Every behaviour of the handlers, however they overlap, is one of the ledger's:
\* the money columns and the published events look as if updates were atomic.
ImplementsLedger == Ledger!LSpec

\* Once Paystack's success message is answered and nothing is in flight, the row
\* of a payment charged in full is PAID, unless an administrator changed it,
\* Paystack reported a failed attempt, which may be applied late, or a request
\* wrote it that another one had overtaken.
QuiescentAgreement ==
    AllIdle => \A w \in acked :
        /\ w.status = "success" /\ txn[w.pay].status = "success"
        /\ w.amount >= payments[w.pay].total
        /\ w.pay \notin byAdmin
        /\ \A v \in webhooks : v.pay = w.pay => v.status = "success"
        => payments[w.pay].status = "PAID" \/ raced[w.pay] > 0

\* Subscribers are told of a change of the row's status to PAID or FAILED once: each
\* publication too many is owed to a write that another request had overtaken, and
\* so is each change that was not published when nothing is in flight and no handler
\* was cut short.
EventsMatchTransitions ==
    \A p \in Payments, s \in Announced :
        /\ emitted[p][s] <= transitions[p][s] + raced[p]
        /\ AllIdle /\ faults = 0 => transitions[p][s] <= emitted[p][s] + raced[p]

\* The customer who pays in full is mailed a confirmation at most once per
\* settlement and overtaken write, however often the charge is reported.
OneMailPerSettlement ==
    \A p \in Payments : Charged(p, payments[p].total) =>
        mails[p] <= transitions[p]["PAID"] + raced[p]

\* What subscribers and the customer are told of a payment is what became of it.
AnnouncedAsSettled == EventsMatchTransitions /\ OneMailPerSettlement

\* Marking a payment FAILED or PENDING keeps what it says was paid, unless another
\* request wrote the row since it was read.
MoneyKept ==
    [][\A p \in Payments :
         Exists(p) /\ payments'[p].status \in {"FAILED", "PENDING"} =>
             payments'[p].paid = payments[p].paid \/ raced'[p] > raced[p]]_vars

\* A charge Paystack reports, if it is not below the organization's limit for
\* partial sums, is eventually recorded.
ChargeIsRecorded ==
    \A p \in Payments :
        (txn[p].status = "success" /\ txn[p].amount >= PartialLimit)
            ~> (transitions[p]["PAID"] + transitions[p]["PARTIAL"] > 0)
=============================================================================
