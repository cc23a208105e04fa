--------------------------- MODULE PaymentsProofs ---------------------------
(* Proofs about Payments, for every value of its constants. *)
EXTENDS Payments, FiniteSetTheorems, TLAPS

-----------------------------------------------------------------------------
(* Types. *)

\* Abbreviations of the helpers nearly every step uses.
LEMMA NoOpType == NoOp \in Op
  BY PaymentsAssumption DEF NoOp, Op, Kinds, LogIds, NoId, Replies, Statuses,
     NoAmount, NoMethod, Methods

\* The neutral update has an update's type.
LEMMA NoUpdType == NoUpd \in Update
  BY DEF NoUpd, Update, Statuses, Methods

\* The absent row has a row's type.
LEMMA NoRowType == NoRow \in Row
  BY DEF NoRow, Row, Methods

\* What updateStatus computes from a row of the table is a row's status and money.
LEMMA ResolveTrackedType ==
  ASSUME NEW row \in Row, row.status # "NONE", NEW want \in Statuses,
         NEW amt \in Nat \cup {NoAmount}
  PROVE  ResolveTracked(row, want, amt) \in [status: Statuses, paid: Nat, due: Nat]
  BY DEF ResolveTracked, Clamp, Row, Statuses, NoAmount

\* Ending a handler keeps the types of the handlers' variables.
LEMMA EndType ==
  ASSUME TypeOK, NEW h \in Handlers, End(h)
  PROVE  /\ pc' \in [Handlers -> PcValues]
         /\ op' \in [Handlers -> Op]
         /\ upd' \in [Handlers -> Update]
         /\ overtaken' \subseteq Handlers
  BY NoOpType, NoUpdType DEF TypeOK, End, PcValues

\* Inserting a payment keeps the type of the table.
LEMMA InsertType ==
  ASSUME TypeOK, NEW p \in Payments, NEW a \in Amounts, NEW t \in Amounts,
         NEW m \in Methods, Insert(p, a, t, m)
  PROVE  payments' \in [Payments -> Row]
  BY PaymentsAssumption DEF TypeOK, Insert, NoRow, Row, Statuses

\* Starting a handler, and moving it on, keep the types too.
LEMMA BeginType ==
  ASSUME TypeOK, NEW h \in Handlers, NEW o \in Op, NEW at \in PcValues, Begin(h, o, at)
  PROVE  pc' \in [Handlers -> PcValues] /\ op' \in [Handlers -> Op]
  BY DEF TypeOK, Begin

\* Moving a handler on keeps the type of pc.
LEMMA GotoType ==
  ASSUME TypeOK, NEW h \in Handlers, NEW at \in PcValues, Goto(h, at)
  PROVE  pc' \in [Handlers -> PcValues]
  BY DEF TypeOK, Goto

\* What follows an update is a place a handler can be at.
LEMMA AfterEmitType == \A o \in Op : AfterEmit(o) \in PcValues
  BY DEF AfterEmit, PcValues

\* Returning ends the handler and acknowledges only webhooks that were sent.
LEMMA ReturnType ==
  ASSUME TypeOK, NEW h \in Handlers, Return(h)
  PROVE  /\ pc' \in [Handlers -> PcValues] /\ op' \in [Handlers -> Op]
         /\ upd' \in [Handlers -> Update] /\ overtaken' \subseteq Handlers
         /\ acked' \subseteq webhooks
  <1>1. End(h)
    BY DEF Return
  <1>2. acked' \subseteq webhooks
    BY DEF Return, TypeOK
  <1> QED
    BY <1>1, <1>2, EndType

\* The mapping of Paystack's answers yields statuses and sums.
LEMMA ReplyTypes ==
  /\ \A s \in Replies : MapPaystackStatus(s) \in Statuses
  /\ \A s \in Replies, c \in Nat \cup {NoAmount}, a \in Nat :
       ResolveReply(s, c, a) \in Statuses
  /\ \A n \in Nat : Reported(n) \in Nat \cup {NoAmount}
  BY DEF MapPaystackStatus, ResolveReply, Reported, Statuses, NoAmount

\* A webhook is about a failed, a successful or a reversed charge.
WebhookReplies == \A w \in webhooks : w.status \in Replies

\* Every request in flight is about a payment that was created, and what Paystack
\* is quoted with is a reply of its.
TypeInv ==
    /\ TypeOK
    /\ WebhookReplies
    /\ \A h \in Handlers : pc[h] # "idle" => Exists(op[h].pay)

\* TypeInv holds initially.
LEMMA TypeInit == Init => TypeInv
  BY NoRowType, NoOpType, NoUpdType
  DEF Init, TypeInv, TypeOK, WebhookReplies, PcValues, TxnStates, Announced, Statuses

\* The next step of a request in flight keeps the types.
LEMMA StepType ==
  ASSUME TypeInv, NEW h \in Handlers, Step(h)
  PROVE  TypeOK'
  <1> USE DEF TypeInv, db, paystack, hist, bounds
  <1>a. op[h] \in Op /\ upd[h] \in Update /\ op[h].pay \in Payments
    BY DEF TypeOK, Op
  <1>1. CASE InitializeOk(h)
    BY <1>1, EndType DEF InitializeOk, TypeOK, TxnStates, Op
  <1>2. CASE InitializeFails(h)
    BY <1>2, GotoType, ZenonT(60) DEF InitializeFails, TypeOK, Op, PcValues, Row, Exists
  <1>3. CASE LogInitFailure(h)
    <2>1. logs' \subseteq Payments \X LogIds
      BY <1>3, <1>a DEF LogInitFailure, TypeOK, LogIds
    <2>2. pc' \in [Handlers -> PcValues] /\ op' \in [Handlers -> Op] /\ upd' \in [Handlers -> Update]
          /\ overtaken' \subseteq Handlers
      BY <1>3, EndType, GotoType DEF LogInitFailure, TypeOK, PcValues
    <2> QED
      BY <1>3, <2>1, <2>2 DEF LogInitFailure, TypeOK
  <1>4. CASE VerifyReplies(h)
    <2>1. PICK r \in Replies :
             op' = [op EXCEPT ![h].reply = r, ![h].amt = Reported(txn[op[h].pay].amount)]
      BY <1>4 DEF VerifyReplies
    <2>2. Reported(txn[op[h].pay].amount) \in Nat \cup {NoAmount}
      BY <1>a, ReplyTypes DEF TypeOK
    <2>3. op' \in [Handlers -> Op]
      BY <1>a, <2>1, <2>2 DEF TypeOK, Op
    <2> QED
      BY <1>4, <2>3, GotoType DEF VerifyReplies, TypeOK, PcValues
  <1>5. CASE VerifyFails(h)
    BY <1>5, EndType DEF VerifyFails, TypeOK
  <1>6. CASE SkipLogged(h)
    BY <1>6, ReturnType DEF SkipLogged, TypeOK
  <1>7. CASE RejectBelowLimit(h)
    BY <1>7, EndType DEF RejectBelowLimit, TypeOK
  <1>8. CASE AcceptOutcome(h)
    <2>1. Resolved(h) \in Statuses /\ MapPaystackStatus(op[h].reply) \in Statuses
      BY <1>a, ReplyTypes DEF Resolved, TypeOK, Op, Row
    <2>2. op' \in [Handlers -> Op]
      BY <1>8, <1>a, <2>1 DEF AcceptOutcome, TypeOK, Op
    <2> QED
      BY <1>8, <2>2, GotoType DEF AcceptOutcome, TypeOK, PcValues
  <1>9. CASE ReadForUpdate(h)
    <2> DEFINE row == payments[op[h].pay]
               next == ResolveTracked(row, op[h].want, op[h].amt)
    <2>1. pc[h] = "read" /\ row \in Row /\ row.status # "NONE" /\ row.status \in Statuses
      BY <1>9, <1>a DEF ReadForUpdate, TypeOK, Exists, Row
    <2>2. next \in [status: Statuses, paid: Nat, due: Nat]
      BY <1>a, <2>1, ResolveTrackedType DEF Op
    <2>3. NextMethod(op[h], row) \in Methods /\ Confirms(row, op[h], next.status) \in BOOLEAN
      BY <1>a, <2>1 DEF NextMethod, Confirms, Op, Row
    <2> HIDE DEF row, next
    <2>4. upd' = [upd EXCEPT ![h] =
               [status |-> next.status, paid |-> next.paid, due |-> next.due,
                method |-> NextMethod(op[h], row), was |-> row.status,
                confirmed |-> Confirms(row, op[h], next.status)]]
      BY <1>9 DEF ReadForUpdate, row, next
    <2>5. upd' \in [Handlers -> Update]
      BY <2>1, <2>2, <2>3, <2>4 DEF TypeOK, Update
    <2> QED
      BY <1>9, <2>5, GotoType DEF ReadForUpdate, TypeOK, PcValues
  <1>10. CASE RefuseUpdate(h)
    BY <1>10, EndType DEF RefuseUpdate, TypeOK
  <1>11. CASE WriteStatus(h)
    <2>a. /\ payments' = [payments EXCEPT ![op[h].pay] =
                 [@ EXCEPT !.status = upd[h].status, !.paid = upd[h].paid, !.due = upd[h].due,
                           !.method = upd[h].method, !.confirmed = upd[h].confirmed]]
          /\ payments[op[h].pay] \in Row
      BY <1>11, <1>a DEF WriteStatus, TypeOK
    <2>b. [payments[op[h].pay] EXCEPT !.status = upd[h].status, !.paid = upd[h].paid,
             !.due = upd[h].due, !.method = upd[h].method,
             !.confirmed = upd[h].confirmed] \in Row
      BY <1>a, <2>a DEF Row, Update
    <2>1. payments' \in [Payments -> Row]
      BY <1>a, <2>a, <2>b DEF TypeOK
    <2>2. transitions' \in [Payments -> [Statuses -> Nat]]
      BY <1>11, <1>a DEF WriteStatus, TypeOK, Update
    <2>3. pc' \in [Handlers -> PcValues]
      BY <1>11, <1>a, AfterEmitType, GotoType DEF WriteStatus, PcValues
    <2>4. byAdmin' \subseteq Payments
      BY <1>11, <1>a DEF WriteStatus, TypeOK
    <2> QED
      BY <1>11, <2>1, <2>2, <2>3, <2>4 DEF WriteStatus, TypeOK
  <1>12. CASE EmitEvent(h)
    <2>a. emitted' = [emitted EXCEPT ![op[h].pay][upd[h].status] = @ + 1]
      BY <1>12 DEF EmitEvent
    <2>b. ASSUME NEW f \in [Announced -> Nat], NEW s
          PROVE  [f EXCEPT ![s] = @ + 1] \in [Announced -> Nat]
      <3>1. CASE s \in Announced
        BY <3>1
      <3>2. CASE s \notin Announced
        BY <3>2
      <3> QED
        BY <3>1, <3>2
    <2>1. emitted' \in [Payments -> [Announced -> Nat]]
      BY <1>a, <2>a, <2>b DEF TypeOK, Update
    <2> QED
      BY <1>12, <1>a, <2>1, AfterEmitType, GotoType DEF EmitEvent, TypeOK
  <1>13. CASE SaveAdminLog(h)
    <2> DEFINE id == <<"admin", AdminEvent(upd[h].status, upd[h].method)>>
    <2>1. id \in LogIds
      BY DEF AdminEvent, LogIds
    <2>a. logs' = logs \cup {<<op[h].pay, id>>}
      BY <1>13 DEF SaveAdminLog
    <2> HIDE DEF id
    <2>2. logs' \subseteq Payments \X LogIds
      BY <1>a, <2>a, <2>1 DEF TypeOK
    <2> QED
      BY <1>13, <2>2, EndType DEF SaveAdminLog, TypeOK
  <1>14. CASE SaveOutcomeLog(h)
    <2>1. logs' \subseteq Payments \X LogIds
      BY <1>14, <1>a DEF SaveOutcomeLog, TypeOK, Op
    <2> QED
      BY <1>14, <2>1, GotoType DEF SaveOutcomeLog, TypeOK, PcValues
  <1>15. CASE OutcomeLogConflict(h)
    BY <1>15, EndType DEF OutcomeLogConflict, TypeOK
  <1>16. CASE Notify(h)
    <2>1. mails' \in [Payments -> Nat]
      BY <1>16, <1>a DEF Notify, TypeOK
    <2> QED
      BY <1>16, <2>1, ReturnType DEF Notify, TypeOK
  <1>17. CASE FinishSubmit(h)
    BY <1>17, EndType DEF FinishSubmit, TypeOK
  <1> QED
    BY <1>1, <1>2, <1>3, <1>4, <1>5, <1>6, <1>7, <1>8, <1>9, <1>10, <1>11, <1>12,
       <1>13, <1>14, <1>15, <1>16, <1>17 DEF Step

\* So does a new request,
LEMMA RequestType ==
  ASSUME TypeInv, NEW h \in Handlers, Request(h)
  PROVE  TypeOK'
  <1> USE NoOpType DEF TypeInv, db, paystack, hist, bounds
  <1>1. ASSUME NEW w \in webhooks, ReceiveWebhook(h, w)
        PROVE  TypeOK'
    <2> DEFINE o == [NoOp EXCEPT !.kind = "webhook", !.pay = w.pay,
                       !.id = WebhookId(w.status), !.reply = w.status,
                       !.amt = Reported(w.amount), !.seen = payments[w.pay].status]
    <2>1. w \in Webhook /\ w.status \in Replies /\ payments[w.pay].status \in Statuses
      BY <1>1 DEF TypeOK, WebhookReplies, ReceiveWebhook, Exists, Row, Webhook
    <2>2. WebhookId(w.status) \in LogIds /\ Reported(w.amount) \in Nat \cup {NoAmount}
      BY <2>1, ReplyTypes DEF WebhookId, LogIds, Webhook
    <2>3. o \in Op
      BY <2>1, <2>2 DEF Op, Webhook, Kinds
    <2> QED
      BY <1>1, <2>3, BeginType DEF ReceiveWebhook, TypeOK, PcValues
  <1>2. ASSUME NEW p \in Payments, NEW s \in Sources, StartVerify(h, p, s)
        PROVE  TypeOK'
    <2>1. payments[p].status \in Statuses /\ VerifyId(s) \in LogIds
      BY <1>2 DEF TypeOK, StartVerify, Exists, Row, VerifyId, LogIds
    <2>2. [NoOp EXCEPT !.kind = s, !.pay = p, !.id = VerifyId(s),
                       !.seen = payments[p].status] \in Op
      BY <2>1 DEF Op, Kinds
    <2> QED
      BY <1>2, <2>2, BeginType DEF StartVerify, TypeOK, PcValues
  <1>3. ASSUME NEW p \in Payments, NEW d \in AdminUpdates, NEW k \in {"admin", "review"},
               AdminRequest(h, p, d, k)
        PROVE  TypeOK'
    <2>1. [NoOp EXCEPT !.kind = k, !.pay = p, !.want = d.want, !.amt = d.amt,
                       !.meth = d.meth] \in Op
      BY PaymentsAssumption DEF Op, Kinds, AdminDto
    <2> QED
      BY <1>3, <2>1, BeginType DEF AdminRequest, TypeOK, PcValues
  <1>4. ASSUME NEW p \in Payments, NEW a \in Amounts, NEW t \in Amounts, SubmitOnline(h, p, a, t)
        PROVE  TypeOK'
    <2>1. [NoOp EXCEPT !.kind = "submit", !.pay = p, !.want = "FAILED"] \in Op
      BY DEF Op, Kinds, Statuses
    <2>2. payments' \in [Payments -> Row]
      BY <1>4, InsertType DEF SubmitOnline, Methods
    <2> QED
      BY <1>4, <2>1, <2>2, BeginType DEF SubmitOnline, TypeOK, PcValues
  <1>5. ASSUME NEW p \in Payments, NEW a \in Amounts, NEW t \in Amounts, CreateOffline(h, p, a, t)
        PROVE  TypeOK'
    <2>1. [NoOp EXCEPT !.kind = "offline", !.pay = p, !.amt = a, !.meth = "OFFLINE",
                       !.want = IF a < t THEN "PARTIAL" ELSE "PAID"] \in Op
      BY PaymentsAssumption DEF Op, Kinds, Statuses, Methods
    <2>2. payments' \in [Payments -> Row]
      BY <1>5, InsertType DEF CreateOffline, Methods
    <2> QED
      BY <1>5, <2>1, <2>2, BeginType DEF CreateOffline, TypeOK, PcValues
  <1> QED
    BY <1>1, <1>2, <1>3, <1>4, <1>5, PaymentsAssumption DEF Request

\* and so does Paystack.
LEMMA ProviderType ==
  ASSUME TypeInv, Provider
  PROVE  TypeOK'
  <1>a. Charges \subseteq Nat
    BY PaymentsAssumption
  <1> USE <1>a DEF TypeInv, db, hist, bounds, Send, TypeOK, Webhook, TxnStates
  <1>1. ASSUME NEW p \in Payments, NEW c \in Charges, ChargeSucceeds(p, c)
        PROVE  TypeOK'
    BY <1>1 DEF ChargeSucceeds
  <1>2. ASSUME NEW p \in Payments, ChargeFails(p)
        PROVE  TypeOK'
    <2>1. txn' \in [Payments -> [status: TxnStates, amount: Nat]]
      BY <1>2 DEF ChargeFails
    <2>2. [pay |-> p, status |-> "failed", amount |-> 0] \in Webhook
      OBVIOUS
    <2>3. webhooks' \subseteq Webhook /\ acked' \subseteq webhooks'
      BY <1>2, <2>2 DEF ChargeFails
    <2> QED
      BY <1>2, <2>1, <2>3 DEF ChargeFails
  <1>3. ASSUME NEW p \in Payments, ChargeReversed(p)
        PROVE  TypeOK'
    BY <1>3 DEF ChargeReversed
  <1> QED
    BY <1>1, <1>2, <1>3 DEF Provider

\* Only two things write the table: the insertion of a new payment and the update
\* of a handler.
LEMMA Writers ==
  ASSUME Next
  PROVE  \/ \E q \in Payments, a \in Amounts, t \in Amounts, m \in Methods :
               MayCreate(q, a, t, m) /\ Insert(q, a, t, m)
         \/ \E h \in Handlers : WriteStatus(h)
         \/ UNCHANGED payments
  <1>1. ASSUME NEW h \in Handlers, Step(h)
        PROVE  WriteStatus(h) \/ UNCHANGED payments
    BY <1>1
    DEF Step, InitializeOk, InitializeFails, LogInitFailure, VerifyReplies, VerifyFails,
        SkipLogged, RejectBelowLimit, AcceptOutcome, ReadForUpdate, RefuseUpdate, EmitEvent,
        SaveAdminLog, SaveOutcomeLog, OutcomeLogConflict, Notify, FinishSubmit, db
  <1>2. ASSUME NEW h \in Handlers, Request(h)
        PROVE  \/ \E q \in Payments, a \in Amounts, t \in Amounts, m \in Methods :
                     MayCreate(q, a, t, m) /\ Insert(q, a, t, m)
               \/ UNCHANGED payments
    BY <1>2 DEF Request, ReceiveWebhook, StartVerify, AdminRequest, SubmitOnline, CreateOffline,
       Methods, db
  <1>3. ASSUME Provider
        PROVE  UNCHANGED payments
    BY <1>3 DEF Provider, ChargeSucceeds, ChargeFails, ChargeReversed, db
  <1>4. ASSUME NEW h \in Handlers, Fault(h)
        PROVE  UNCHANGED payments
    BY <1>4 DEF Fault, db
  <1> QED
    BY <1>1, <1>2, <1>3, <1>4 DEF Next, CreatePayment

\* What a write does to the table.
LEMMA WriteEffect ==
  ASSUME TypeInv, NEW h \in Handlers, WriteStatus(h)
  PROVE  /\ op[h].pay \in Payments /\ upd[h] \in Update /\ Exists(op[h].pay)
         /\ pc[h] = "write"
         /\ \A p \in Payments \ {op[h].pay} : payments'[p] = payments[p]
         /\ payments'[op[h].pay].status = upd[h].status
         /\ payments'[op[h].pay].paid = upd[h].paid
         /\ payments'[op[h].pay].due = upd[h].due
         /\ payments'[op[h].pay].total = payments[op[h].pay].total
  <1> DEFINE p == op[h].pay
  <1>1. p \in Payments /\ upd[h] \in Update /\ Exists(p) /\ payments[p] \in Row
        /\ pc[h] = "write"
    BY DEF WriteStatus, TypeInv, TypeOK, Op
  <1>2. payments' = [payments EXCEPT ![p] =
                 [@ EXCEPT !.status = upd[h].status, !.paid = upd[h].paid, !.due = upd[h].due,
                           !.method = upd[h].method, !.confirmed = upd[h].confirmed]]
    BY DEF WriteStatus
  <1>3. DOMAIN payments = Payments
    BY DEF TypeInv, TypeOK
  <1> HIDE DEF p
  <1>4. payments'[p] = [payments[p] EXCEPT !.status = upd[h].status, !.paid = upd[h].paid,
                          !.due = upd[h].due, !.method = upd[h].method,
                          !.confirmed = upd[h].confirmed]
    BY <1>1, <1>2, <1>3
  <1>5. /\ payments'[p].status = upd[h].status /\ payments'[p].paid = upd[h].paid
        /\ payments'[p].due = upd[h].due /\ payments'[p].total = payments[p].total
    BY <1>1, <1>4 DEF Row
  <1>6. \A q \in Payments \ {p} : payments'[q] = payments[q]
    BY <1>2, <1>3
  <1> QED
    BY <1>1, <1>5, <1>6 DEF p

\* Rows are never removed.
LEMMA RowsStay ==
  ASSUME TypeInv, Next
  PROVE  \A p \in Payments : Exists(p) => Exists(p)'
  <1>1. ASSUME NEW q \in Payments, NEW a \in Amounts, NEW t \in Amounts, NEW m \in Methods,
               MayCreate(q, a, t, m), Insert(q, a, t, m)
        PROVE  \A p \in Payments : Exists(p) => Exists(p)'
    BY <1>1 DEF MayCreate, Insert, Exists, TypeInv, TypeOK
  <1>2. ASSUME NEW h \in Handlers, WriteStatus(h)
        PROVE  \A p \in Payments : Exists(p) => Exists(p)'
    <2>1. upd[h].status # "NONE" /\ payments \in [Payments -> Row]
      BY <1>2, WriteEffect DEF TypeInv, TypeOK, Update, Statuses
    <2>2. ASSUME NEW p \in Payments
          PROVE  payments'[p].status = IF p = op[h].pay THEN upd[h].status ELSE payments[p].status
      BY <1>2, WriteEffect
    <2> QED
      BY <2>1, <2>2 DEF Exists
  <1>3. ASSUME UNCHANGED payments
        PROVE  \A p \in Payments : Exists(p) => Exists(p)'
    BY <1>3 DEF Exists
  <1> QED
    BY <1>1, <1>2, <1>3, Writers

\* A step of a handler leaves the others alone; it keeps its payment or ends.
LEMMA StepOfOne ==
  ASSUME TypeInv, NEW g \in Handlers, Step(g) \/ Fault(g)
  PROVE  /\ pc[g] # "idle"
         /\ \A h \in Handlers \ {g} : pc'[h] = pc[h] /\ op'[h] = op[h] /\ upd'[h] = upd[h]
         /\ pc'[g] = "idle" \/ op'[g].pay = op[g].pay
  <1> USE DEF TypeInv, TypeOK, Goto, End, Return
  <1>1. CASE Fault(g)
    BY <1>1 DEF Fault
  <1>2. CASE \/ InitializeOk(g) \/ VerifyFails(g) \/ SkipLogged(g) \/ RejectBelowLimit(g)
             \/ RefuseUpdate(g) \/ SaveAdminLog(g) \/ OutcomeLogConflict(g)
             \/ Notify(g) \/ FinishSubmit(g)
    BY <1>2 DEF InitializeOk, VerifyFails, SkipLogged, RejectBelowLimit, RefuseUpdate,
                SaveAdminLog, OutcomeLogConflict, Notify, FinishSubmit
  <1>3. CASE \/ WriteStatus(g) \/ EmitEvent(g) \/ SaveOutcomeLog(g) \/ ReadForUpdate(g)
    BY <1>3 DEF WriteStatus, EmitEvent, SaveOutcomeLog, ReadForUpdate
  <1>4. CASE InitializeFails(g)
    BY <1>4 DEF InitializeFails, Op
  <1>5. CASE LogInitFailure(g)
    BY <1>5 DEF LogInitFailure
  <1>6. CASE VerifyReplies(g)
    BY <1>6 DEF VerifyReplies, Op
  <1>7. CASE AcceptOutcome(g)
    BY <1>7 DEF AcceptOutcome, Op
  <1> QED
    BY <1>1, <1>2, <1>3, <1>4, <1>5, <1>6, <1>7 DEF Step

\* A new request leaves the other handlers alone and is about an existing payment.
LEMMA RequestOfOne ==
  ASSUME TypeInv, NEW g \in Handlers, Request(g)
  PROVE  /\ pc[g] = "idle"
         /\ \A h \in Handlers \ {g} : pc'[h] = pc[h] /\ op'[h] = op[h]
         /\ upd' = upd
         /\ pc'[g] \in {"init", "check", "verify", "read"}
         /\ (Exists(op[g].pay))'
  <1> USE DEF TypeInv, TypeOK, Begin
  <1>1. CASE \E w \in webhooks : ReceiveWebhook(g, w)
    BY <1>1 DEF ReceiveWebhook, NoOp, Exists, db
  <1>2. CASE \E p \in Payments, s \in Verifiers : StartVerify(g, p, s)
    BY <1>2 DEF StartVerify, NoOp, Exists, db
  <1>3. CASE \E p \in Payments, d \in AdminUpdates, k \in {"admin", "review"} : AdminRequest(g, p, d, k)
    BY <1>3 DEF AdminRequest, NoOp, Exists, db
  <1>4. CASE \E p \in Payments, a, t \in Amounts : SubmitOnline(g, p, a, t)
    BY <1>4 DEF SubmitOnline, Insert, NoOp, NoRow, Exists
  <1>5. CASE \E p \in Payments, a, t \in Amounts : CreateOffline(g, p, a, t)
    BY <1>5 DEF CreateOffline, Insert, NoOp, NoRow, Exists
  <1> QED
    BY <1>1, <1>2, <1>3, <1>4, <1>5 DEF Request

\* Paystack and a payment that is only created leave the handlers alone.
LEMMA OthersIdle ==
  ASSUME TypeInv,
         Provider \/ \E p \in Payments, a, t \in Amounts, m \in Methods : CreatePayment(p, a, t, m)
  PROVE  UNCHANGED <<pc, op, upd>>
  BY DEF Provider, CreatePayment, ChargeSucceeds, ChargeFails, ChargeReversed

\* Only Paystack sends webhooks.
LEMMA Sends ==
  ASSUME Next
  PROVE  \/ UNCHANGED webhooks
         \/ \E p \in Payments, s \in {"success", "failed", "reversed"} : \E c : Send(p, s, c)
  <1>1. ASSUME NEW h \in Handlers, Step(h)
        PROVE  UNCHANGED webhooks
    BY <1>1
    DEF Step, InitializeOk, InitializeFails, LogInitFailure, VerifyReplies, VerifyFails,
        SkipLogged, RejectBelowLimit, AcceptOutcome, ReadForUpdate, RefuseUpdate, WriteStatus,
        EmitEvent, SaveAdminLog, SaveOutcomeLog, OutcomeLogConflict, Notify, FinishSubmit, paystack
  <1>2. ASSUME NEW h \in Handlers, Request(h)
        PROVE  UNCHANGED webhooks
    BY <1>2 DEF Request, ReceiveWebhook, StartVerify, AdminRequest, SubmitOnline, CreateOffline,
       paystack
  <1>3. ASSUME NEW h \in Handlers, Fault(h)
        PROVE  UNCHANGED webhooks
    BY <1>3 DEF Fault, paystack
  <1> QED
    BY <1>1, <1>2, <1>3
    DEF Next, CreatePayment, paystack, Provider, ChargeSucceeds, ChargeFails, ChargeReversed

\* TypeInv is inductive.
LEMMA TypeStep == TypeInv /\ [Next]_vars => TypeInv'
  <1> SUFFICES ASSUME TypeInv, [Next]_vars
               PROVE  TypeInv'
    OBVIOUS
  <1>1. CASE Next
    <2>1. TypeOK'
      <3>1. ASSUME NEW h \in Handlers, Fault(h)
            PROVE  TypeOK'
        BY <3>1, EndType DEF Fault, TypeInv, TypeOK, db, paystack, hist
      <3>2. ASSUME NEW p \in Payments, NEW a \in Amounts, NEW t \in Amounts, NEW m \in Methods,
                   CreatePayment(p, a, t, m)
            PROVE  TypeOK'
        BY <3>2, InsertType DEF CreatePayment, TypeInv, TypeOK, paystack, hist, bounds
      <3> QED
        BY <1>1, <3>1, <3>2, StepType, RequestType, ProviderType DEF Next
    <2>2. WebhookReplies'
      BY <1>1, Sends DEF WebhookReplies, Send, TypeInv, Webhook, Replies
    <2>3. ASSUME NEW h \in Handlers, pc'[h] # "idle"
          PROVE  (Exists(op[h].pay))'
      <3>1. CASE pc[h] # "idle" /\ op'[h].pay = op[h].pay
        <4>1. op[h].pay \in Payments /\ Exists(op[h].pay)
          BY <3>1 DEF TypeInv, TypeOK, Op
        <4>2. payments'[op[h].pay].status # "NONE"
          BY <1>1, <4>1, RowsStay DEF Exists
        <4> QED
          BY <3>1, <4>2 DEF Exists
      <3> QED
        BY <1>1, <2>3, <3>1, StepOfOne, RequestOfOne, OthersIdle DEF Next
    <2> QED
      BY <2>1, <2>2, <2>3 DEF TypeInv, Exists
  <1>2. CASE UNCHANGED vars
    BY <1>2 DEF vars, TypeInv, TypeOK, WebhookReplies, Exists
  <1> QED
    BY <1>1, <1>2

\* The tables, Paystack's side and the handlers keep their shape: in particular
\* no sum becomes negative, however the updates of two handlers overlap.
THEOREM TypeCorrect == Spec => []TypeOK
  <1>1. TypeInv => TypeOK
    BY DEF TypeInv
  <1> QED
    BY <1>1, TypeInit, TypeStep, PTL DEF Spec

-----------------------------------------------------------------------------
(* The money columns. *)

\* Money that adds up, with the status its balance calls for.
Balanced(r, total) ==
    /\ r.paid + r.due = total
    /\ r.status = "PAID" => r.due = 0
    /\ r.status = "PARTIAL" => r.due > 0

\* LedgerAgrees is not inductive: a handler between its read and its write carries an
\* update computed from an older row.  What makes it hold is that such an update adds
\* up to the total as well, and that nothing changes the total of a payment meanwhile.
LedgerInv ==
    /\ \A p \in Payments : Balanced(payments[p], payments[p].total)
    /\ \A h \in Handlers :
         pc[h] = "write" => Balanced(upd[h], payments[op[h].pay].total)

\* resolveTrackedPaymentState yields money columns that add up to the total, and a
\* status that agrees with them, from a row that does.
LEMMA ResolveTrackedBalanced ==
  ASSUME NEW row \in Row, NEW want \in Statuses, NEW amt \in Nat \cup {NoAmount},
         Balanced(row, row.total)
  PROVE  Balanced(ResolveTracked(row, want, amt), row.total)
  BY DEF Balanced, ResolveTracked, Clamp, Row, Statuses, NoAmount

\* A handler arrives at its write by computing an update and in no other way.
LEMMA OnlyReadsLeadToWrites ==
  ASSUME TypeInv, NEW h \in Handlers, Step(h), pc'[h] = "write"
  PROVE  ReadForUpdate(h)
  <1> USE DEF TypeInv, TypeOK, Goto, End, Return
  <1>1. ~WriteStatus(h) /\ ~EmitEvent(h)
    BY DEF WriteStatus, EmitEvent, AfterEmit
  <1> QED
    BY <1>1 DEF Step, InitializeOk, InitializeFails, LogInitFailure, VerifyReplies, VerifyFails,
        SkipLogged, RejectBelowLimit, AcceptOutcome, RefuseUpdate,
        SaveAdminLog, SaveOutcomeLog, OutcomeLogConflict, Notify, FinishSubmit

\* LedgerInv holds initially.
LEMMA LedgerInit == Init => LedgerInv
  BY DEF Init, LedgerInv, Balanced, NoRow

\* LedgerInv is inductive.
LEMMA LedgerStep == TypeInv /\ LedgerInv /\ [Next]_vars => LedgerInv'
  <1> SUFFICES ASSUME TypeInv, LedgerInv, [Next]_vars
               PROVE  LedgerInv'
    OBVIOUS
  <1>1. CASE Next
    <2>1. \A p \in Payments : Balanced(payments'[p], payments'[p].total)
      <3>1. ASSUME NEW q \in Payments, NEW a \in Amounts, NEW t \in Amounts, NEW m \in Methods,
                   MayCreate(q, a, t, m), Insert(q, a, t, m)
            PROVE  \A p \in Payments : Balanced(payments'[p], payments'[p].total)
        BY <3>1, PaymentsAssumption DEF Insert, NoRow, Balanced, LedgerInv, TypeInv, TypeOK
      <3>2. ASSUME NEW h \in Handlers, WriteStatus(h)
            PROVE  \A p \in Payments : Balanced(payments'[p], payments'[p].total)
        BY <3>2, WriteEffect DEF LedgerInv, Balanced
      <3> QED
        BY <1>1, <3>1, <3>2, Writers DEF LedgerInv
    <2>2. ASSUME NEW p \in Payments, Exists(p)
          PROVE  payments'[p].total = payments[p].total
      <3>1. ASSUME NEW q \in Payments, NEW a \in Amounts, NEW t \in Amounts, NEW m \in Methods,
                   MayCreate(q, a, t, m), Insert(q, a, t, m)
            PROVE  payments'[p].total = payments[p].total
        BY <2>2, <3>1 DEF Insert, MayCreate, TypeInv, TypeOK
      <3>2. ASSUME NEW h \in Handlers, WriteStatus(h)
            PROVE  payments'[p].total = payments[p].total
        BY <3>2, WriteEffect
      <3> QED
        BY <1>1, <3>1, <3>2, Writers
    <2>3. ASSUME NEW h \in Handlers, pc'[h] = "write"
          PROVE  Balanced(upd'[h], payments'[op'[h].pay].total)
      <3>1. CASE ReadForUpdate(h)
        <4> DEFINE row == payments[op[h].pay]
                   next == ResolveTracked(row, op[h].want, op[h].amt)
        <4>1. /\ row \in Row /\ op[h].want \in Statuses /\ op[h].amt \in Nat \cup {NoAmount}
              /\ op[h].pay \in Payments
          BY DEF TypeInv, TypeOK, Op
        <4>2. Balanced(next, row.total)
          BY <4>1, ResolveTrackedBalanced DEF LedgerInv
        <4>3. /\ upd'[h].status = next.status /\ upd'[h].paid = next.paid
              /\ upd'[h].due = next.due
              /\ payments' = payments /\ op' = op
          BY <3>1 DEF ReadForUpdate, TypeInv, TypeOK, db
        <4> QED
          BY <4>2, <4>3 DEF Balanced
      <3>2. CASE pc[h] = "write" /\ upd'[h] = upd[h] /\ op'[h] = op[h]
        BY <2>2, <3>2 DEF LedgerInv, TypeInv, TypeOK, Op
      <3>3. ASSUME NEW g \in Handlers, Step(g) \/ Fault(g) \/ Request(g), ~ReadForUpdate(h)
            PROVE  pc[h] = "write" /\ upd'[h] = upd[h] /\ op'[h] = op[h]
        <4>1. CASE g # h
          BY <2>3, <3>3, <4>1, StepOfOne, RequestOfOne
        <4>2. CASE g = h
          <5>1. ~Fault(h)
            BY <2>3 DEF Fault, End, TypeInv, TypeOK
          <5>2. ~Request(h)
            BY <2>3, RequestOfOne
          <5> QED
            BY <2>3, <3>3, <4>2, <5>1, <5>2, OnlyReadsLeadToWrites
        <4> QED
          BY <4>1, <4>2
      <3> QED
        BY <1>1, <2>3, <3>1, <3>2, <3>3, OthersIdle DEF Next
    <2> QED
      BY <2>1, <2>3 DEF LedgerInv
  <1>2. CASE UNCHANGED vars
    BY <1>2 DEF vars, LedgerInv
  <1> QED
    BY <1>1, <1>2

\* The money columns of every payment add up to what is owed and its status agrees
\* with them, in every reachable state and for any number of overlapping handlers.
THEOREM LedgerCorrect == Spec => []LedgerAgrees
  <1>1. TypeInv /\ LedgerInv => LedgerAgrees
    BY DEF LedgerInv, Balanced, LedgerAgrees
  <1> QED
    BY <1>1, TypeInit, TypeStep, LedgerInit, LedgerStep, PTL DEF Spec

-----------------------------------------------------------------------------
(* What a handler knows of the charge it reports, and what was recorded of it. *)

Admins    == {"admin", "review", "offline"}
Paid(p)     == txn[p].status \in {"success", "reversed"}
Recorded(p) == transitions[p]["PAID"] > 0 \/ transitions[p]["PARTIAL"] > 0

\* A status other than the first was given by a change that history has, and so was
\* the one a handler is about to publish.
HistoryInv ==
    /\ \A p \in Payments :
          payments[p].status \notin {"NONE", "PENDING"} => transitions[p][payments[p].status] > 0
    /\ \A h \in Handlers : pc[h] = "emit" =>
          upd[h].status \in Announced /\ transitions[op[h].pay][upd[h].status] > 0


\* What a write adds to the history.
LEMMA WriteHistory ==
  ASSUME TypeInv, NEW h \in Handlers, WriteStatus(h)
  PROVE  /\ \A q \in Payments, s \in Statuses :
               transitions'[q][s] = IF q = op[h].pay /\ s = upd[h].status /\ payments[q].status # s
                                    THEN transitions[q][s] + 1 ELSE transitions[q][s]
         /\ UNCHANGED <<logs, txn, webhooks, acked, op, upd, faults>>
         /\ pc' = [pc EXCEPT ![h] = IF Announces(upd[h]) THEN "emit" ELSE AfterEmit(op[h])]
         /\ op[h].kind \in Admins => op[h].pay \in byAdmin'
         /\ byAdmin \subseteq byAdmin'
  <1>1. /\ op[h].pay \in Payments /\ upd[h].status \in Statuses
        /\ DOMAIN transitions = Payments /\ \A q \in Payments : DOMAIN transitions[q] = Statuses
    BY WriteEffect DEF TypeInv, TypeOK, Update
  <1>2. transitions' = IF payments[op[h].pay].status # upd[h].status
                       THEN [transitions EXCEPT ![op[h].pay][upd[h].status] = @ + 1]
                       ELSE transitions
    BY DEF WriteStatus
  <1>3. \A q \in Payments, s \in Statuses :
               transitions'[q][s] = IF q = op[h].pay /\ s = upd[h].status /\ payments[q].status # s
                                    THEN transitions[q][s] + 1 ELSE transitions[q][s]
    BY <1>1, <1>2
  <1>4. UNCHANGED <<logs, txn, webhooks, acked, op, upd, faults>>
    BY DEF WriteStatus, paystack, bounds
  <1>5. pc' = [pc EXCEPT ![h] = IF Announces(upd[h]) THEN "emit" ELSE AfterEmit(op[h])]
    BY DEF WriteStatus, Goto
  <1>6. (op[h].kind \in Admins => op[h].pay \in byAdmin') /\ byAdmin \subseteq byAdmin'
    BY DEF WriteStatus, Admins
  <1> QED
    BY <1>3, <1>4, <1>5, <1>6

\* Only a write adds to the history of a row.
LEMMA HistoryWriters ==
  ASSUME Next
  PROVE  (\E h \in Handlers : WriteStatus(h)) \/ UNCHANGED transitions
  <1>1. ASSUME NEW h \in Handlers, Step(h)
        PROVE  WriteStatus(h) \/ UNCHANGED transitions
    BY <1>1
    DEF Step, InitializeOk, InitializeFails, LogInitFailure, VerifyReplies, VerifyFails,
        SkipLogged, RejectBelowLimit, AcceptOutcome, ReadForUpdate, RefuseUpdate, EmitEvent,
        SaveAdminLog, SaveOutcomeLog, OutcomeLogConflict, Notify, FinishSubmit, hist
  <1>2. ASSUME NEW h \in Handlers, Request(h)
        PROVE  UNCHANGED transitions
    BY <1>2 DEF Request, ReceiveWebhook, StartVerify, AdminRequest, SubmitOnline, CreateOffline, hist
  <1>3. ASSUME NEW h \in Handlers, Fault(h)
        PROVE  UNCHANGED transitions
    BY <1>3 DEF Fault, hist
  <1> QED
    BY <1>1, <1>2, <1>3
    DEF Next, CreatePayment, hist, Provider, ChargeSucceeds, ChargeFails, ChargeReversed

\* The history of a row only grows.
LEMMA HistoryGrows ==
  ASSUME TypeInv, Next
  PROVE  \A p \in Payments, s \in Statuses : transitions[p][s] > 0 => transitions'[p][s] > 0
  <1>1. \A p \in Payments, s \in Statuses : transitions[p][s] \in Nat
    BY DEF TypeInv, TypeOK
  <1> QED
    BY <1>1, HistoryWriters, WriteHistory

\* In a step a handler is left alone, ends, takes its next step or begins.
LEMMA HandlerMoves ==
  ASSUME TypeInv, Next, NEW h \in Handlers
  PROVE  \/ pc'[h] = pc[h] /\ op'[h] = op[h] /\ upd'[h] = upd[h]
         \/ pc'[h] = "idle"
         \/ pc[h] # "idle" /\ Step(h)
         \/ pc[h] = "idle" /\ Request(h)
  <1>1. ASSUME NEW g \in Handlers, Step(g)
        PROVE  g = h \/ (pc'[h] = pc[h] /\ op'[h] = op[h] /\ upd'[h] = upd[h])
    BY <1>1, StepOfOne
  <1>2. ASSUME NEW g \in Handlers, Fault(g)
        PROVE  (g = h /\ pc'[h] = "idle") \/ (pc'[h] = pc[h] /\ op'[h] = op[h] /\ upd'[h] = upd[h])
    BY <1>2, StepOfOne DEF Fault, End, TypeInv, TypeOK
  <1>3. ASSUME NEW g \in Handlers, Request(g)
        PROVE  g = h \/ (pc'[h] = pc[h] /\ op'[h] = op[h] /\ upd'[h] = upd[h])
    BY <1>3, RequestOfOne
  <1>4. ASSUME Step(h) PROVE pc[h] # "idle"
    BY <1>4, StepOfOne
  <1>5. ASSUME Request(h) PROVE pc[h] = "idle"
    BY <1>5, RequestOfOne
  <1> QED
    BY <1>1, <1>2, <1>3, <1>4, <1>5, OthersIdle DEF Next

\* A handler comes to publish only from a write that changes the status it read.
LEMMA OnlyWritesLeadToEmits ==
  ASSUME TypeInv, NEW h \in Handlers, Step(h), pc'[h] = "emit"
  PROVE  WriteStatus(h) /\ Announces(upd[h])
  <1> USE DEF TypeInv, TypeOK, Goto, End, Return
  <1>1. ~EmitEvent(h)
    BY DEF EmitEvent, AfterEmit
  <1>2. WriteStatus(h) => Announces(upd[h])
    BY DEF WriteStatus, AfterEmit
  <1> QED
    BY <1>1, <1>2 DEF Step, InitializeOk, InitializeFails, LogInitFailure, VerifyReplies, VerifyFails,
        SkipLogged, RejectBelowLimit, AcceptOutcome, ReadForUpdate, RefuseUpdate,
        SaveAdminLog, SaveOutcomeLog, OutcomeLogConflict, Notify, FinishSubmit

\* HistoryInv holds initially.
LEMMA HistoryInit == Init => HistoryInv
  BY DEF Init, HistoryInv, NoRow

\* HistoryInv is inductive.
LEMMA HistoryStep == TypeInv /\ HistoryInv /\ [Next]_vars => HistoryInv'
  <1> SUFFICES ASSUME TypeInv, HistoryInv, [Next]_vars
               PROVE  HistoryInv'
    OBVIOUS
  <1>1. CASE Next
    <2>1. ASSUME NEW p \in Payments, payments'[p].status \notin {"NONE", "PENDING"}
          PROVE  transitions'[p][payments'[p].status] > 0
      <3>1. ASSUME NEW q \in Payments, NEW a \in Amounts, NEW t \in Amounts, NEW m \in Methods,
                   MayCreate(q, a, t, m), Insert(q, a, t, m)
            PROVE  payments'[p] = payments[p]
        BY <2>1, <3>1 DEF Insert, TypeInv, TypeOK, NoRow
      <3>2. CASE payments'[p].status = payments[p].status
        <4>1. payments[p].status \in Statuses
          BY <2>1, <3>2 DEF TypeInv, TypeOK, Row
        <4> QED
          BY <1>1, <2>1, <3>2, <4>1, HistoryGrows DEF HistoryInv
      <3>3. ASSUME NEW h \in Handlers, WriteStatus(h), payments'[p].status # payments[p].status
            PROVE  transitions'[p][payments'[p].status] > 0
        <4>1. p = op[h].pay /\ payments'[p].status = upd[h].status /\ upd[h].status \in Statuses
          BY <3>3, WriteEffect DEF Update
        <4>2. transitions[p][upd[h].status] \in Nat
          BY <4>1 DEF TypeInv, TypeOK
        <4> QED
          BY <3>3, <4>1, <4>2, WriteHistory
      <3> QED
        BY <1>1, <3>1, <3>2, <3>3, Writers
    <2>2. ASSUME NEW h \in Handlers, pc'[h] = "emit"
          PROVE  upd'[h].status \in Announced /\ transitions'[op'[h].pay][upd'[h].status] > 0
      <3>1. CASE pc'[h] = pc[h] /\ op'[h] = op[h] /\ upd'[h] = upd[h]
        <4>1. op[h].pay \in Payments /\ upd[h].status \in Statuses
          BY DEF TypeInv, TypeOK, Op, Update
        <4> QED
          BY <1>1, <2>2, <3>1, <4>1, HistoryGrows DEF HistoryInv
      <3>2. CASE Step(h)
        <4>1. WriteStatus(h) /\ upd[h].status \in Announced
          BY <2>2, <3>2, OnlyWritesLeadToEmits DEF Announces
        <4>2. op[h].pay \in Payments /\ upd[h].status \in Statuses /\ payments[op[h].pay].status # "NONE"
          BY <4>1, WriteEffect DEF Exists, Update
        <4>3. /\ transitions[op[h].pay][upd[h].status] \in Nat
              /\ payments[op[h].pay].status = upd[h].status => transitions[op[h].pay][upd[h].status] > 0
          BY <4>1, <4>2 DEF HistoryInv, TypeInv, TypeOK, Announced
        <4>4. transitions'[op[h].pay][upd[h].status] > 0 /\ op' = op /\ upd' = upd
          BY <4>1, <4>2, <4>3, WriteHistory
        <4> QED
          BY <4>1, <4>4
      <3>3. ~Request(h)
        BY <2>2, RequestOfOne
      <3> QED
        BY <1>1, <2>2, <3>1, <3>2, <3>3, HandlerMoves
    <2> QED
      BY <2>1, <2>2 DEF HistoryInv
  <1>2. CASE UNCHANGED vars
    BY <1>2 DEF vars, HistoryInv
  <1> QED
    BY <1>1, <1>2

-----------------------------------------------------------------------------
(* The service implements PaymentLedger. *)

\* The steps that the ledger sees.
LEMMA LedgerActions ==
  ASSUME Next
  PROVE  \/ /\ UNCHANGED <<transitions, emitted>>
            /\ \E q \in Payments, a \in Amounts, t \in Amounts, m \in Methods :
                  MayCreate(q, a, t, m) /\ Insert(q, a, t, m)
         \/ \E h \in Handlers : WriteStatus(h)
         \/ \E h \in Handlers : EmitEvent(h)
         \/ UNCHANGED <<payments, transitions, emitted>>
  <1>1. ASSUME NEW h \in Handlers, Step(h)
        PROVE  WriteStatus(h) \/ EmitEvent(h) \/ UNCHANGED <<payments, transitions, emitted>>
    BY <1>1
    DEF Step, InitializeOk, InitializeFails, LogInitFailure, VerifyReplies, VerifyFails,
        SkipLogged, RejectBelowLimit, AcceptOutcome, ReadForUpdate, RefuseUpdate,
        SaveAdminLog, SaveOutcomeLog, OutcomeLogConflict, Notify, FinishSubmit, db, hist
  <1>2. ASSUME NEW h \in Handlers, Request(h)
        PROVE  /\ UNCHANGED <<transitions, emitted>>
               /\ \/ \E q \in Payments, a \in Amounts, t \in Amounts, m \in Methods :
                        MayCreate(q, a, t, m) /\ Insert(q, a, t, m)
                  \/ UNCHANGED payments
    <2>1. UNCHANGED <<transitions, emitted>>
      BY <1>2 DEF Request, ReceiveWebhook, StartVerify, AdminRequest, SubmitOnline, CreateOffline, hist
    <2> QED
      BY <1>2, <2>1 DEF Request, ReceiveWebhook, StartVerify, AdminRequest, SubmitOnline,
         CreateOffline, Methods, db
  <1>3. ASSUME Provider
        PROVE  UNCHANGED <<payments, transitions, emitted>>
    BY <1>3 DEF Provider, ChargeSucceeds, ChargeFails, ChargeReversed, db, hist
  <1>4. ASSUME NEW h \in Handlers, Fault(h)
        PROVE  UNCHANGED <<payments, transitions, emitted>>
    BY <1>4 DEF Fault, db, hist
  <1> QED
    BY <1>1, <1>2, <1>3, <1>4 DEF Next, CreatePayment, hist

\* Entries and publications are steps of the ledger; what it says is owed is the total
\* of the row.
LEMMA EntriesAreSteps ==
  ASSUME NEW p \in Payments, NEW s, NEW q \in 0 .. payments[p].total, Ledger!Enter(p, s, q),
         \/ s = IF q = payments[p].total THEN "PAID" ELSE "PARTIAL"
         \/ s \in {"FAILED", "PENDING"}
  PROVE  Ledger!LNext
  <1>1. [r \in Payments |-> [status |-> payments[r].status, total |-> payments[r].total,
                  paid |-> payments[r].paid, due |-> payments[r].due]][p].total = payments[p].total
    OBVIOUS
  <1>2. q \in 0 .. [r \in Payments |-> [status |-> payments[r].status, total |-> payments[r].total,
                  paid |-> payments[r].paid, due |-> payments[r].due]][p].total
    BY <1>1
  <1>3. CASE s = IF q = payments[p].total THEN "PAID" ELSE "PARTIAL"
    <2>1. s = IF q = [r \in Payments |-> [status |-> payments[r].status, total |-> payments[r].total,
                  paid |-> payments[r].paid, due |-> payments[r].due]][p].total THEN "PAID" ELSE "PARTIAL"
      BY <1>1, <1>3
    <2>2. Ledger!Settle(p, q)
      BY <2>1, ZenonT(40) DEF Ledger!Settle, Ledger!Enter
    <2> QED
      BY <1>2, <2>2, Zenon DEF Ledger!LNext
  <1>4. CASE s \in {"FAILED", "PENDING"}
    <2>1. Ledger!Mark(p, s, q)
      BY <1>4 DEF Ledger!Mark
    <2> QED
      BY <1>2, <1>4, <2>1, Zenon DEF Ledger!LNext
  <1> QED
    BY <1>3, <1>4

\* So are publications.
LEMMA PublicationsAreSteps ==
  ASSUME NEW p \in Payments, NEW s \in Announced, Ledger!Publish(p, s)
  PROVE  Ledger!LNext
  <1>1. s \in {"PAID", "FAILED"}
    BY DEF Announced
  <1> QED
    BY <1>1, Zenon DEF Ledger!LNext

\* A payment that is inserted is opened in the ledger.
LEMMA InsertOpens ==
  ASSUME TypeInv, NEW p \in Payments, NEW a \in Amounts, NEW t \in Amounts, NEW m \in Methods,
         MayCreate(p, a, t, m), Insert(p, a, t, m), UNCHANGED <<transitions, emitted>>
  PROVE  Ledger!Open(p, t)
  <1>1. payments \in [Payments -> Row] /\ payments[p].status = "NONE"
    BY DEF MayCreate, Exists, TypeInv, TypeOK
  <1>2. /\ payments'[p].status = "PENDING" /\ payments'[p].total = t
        /\ payments'[p].paid = 0 /\ payments'[p].due = t
        /\ \A q \in Payments \ {p} : payments'[q] = payments[q]
    BY <1>1 DEF Insert, NoRow
  <1> QED
    BY <1>1, <1>2 DEF Ledger!Open

\* An update that is written is an entry in the ledger: the columns of a row are all
\* written by one statement, so the other handlers' updates fall before or after it.
LEMMA WriteEnters ==
  ASSUME TypeInv, LedgerInv, NEW h \in Handlers, WriteStatus(h)
  PROVE  Ledger!LNext
  <1>a. op[h].pay \in Payments /\ upd[h] \in Update
    BY WriteEffect
  <1>b. PICK p \in Payments : p = op[h].pay
    BY <1>a
  <1>c. PICK u \in Update : u = upd[h]
    BY <1>a
  <1>1. /\ p \in Payments /\ u \in Update /\ payments[p] \in Row /\ payments[p].status # "NONE"
        /\ \A q \in Payments \ {p} : payments'[q] = payments[q]
        /\ payments'[p].status = u.status /\ payments'[p].paid = u.paid
        /\ payments'[p].due = u.due /\ payments'[p].total = payments[p].total
        /\ Balanced(u, payments[p].total)
    BY <1>b, <1>c, WriteEffect DEF Exists, LedgerInv, TypeInv, TypeOK
  <1>2. emitted' = emitted
    BY DEF WriteStatus
  <1>3. ASSUME NEW q \in Payments
        PROVE  {s \in Statuses : transitions'[q][s] > 0} =
                 {s \in Statuses : transitions[q][s] > 0} \cup
                   (IF q = p /\ payments[p].status # u.status THEN {u.status} ELSE {})
    <2>1. \A s \in Statuses : transitions[q][s] \in Nat
      BY DEF TypeInv, TypeOK
    <2>2. u.status \in Statuses
      BY <1>1 DEF Update
    <2>3. \A s \in Statuses :
             transitions'[q][s] = IF q = p /\ s = u.status /\ payments[q].status # s
                                  THEN transitions[q][s] + 1 ELSE transitions[q][s]
      BY <1>b, <1>c, WriteHistory
    <2> QED
      BY <2>1, <2>2, <2>3
  <1>4. /\ u.paid \in Nat /\ u.due \in Nat /\ payments[p].total \in Nat
        /\ u.due = payments[p].total - u.paid /\ u.paid \in 0 .. payments[p].total
    BY <1>1 DEF Update, Row, Balanced
  <1>5. Ledger!Enter(p, u.status, u.paid)
    BY <1>1, <1>2, <1>3, <1>4 DEF Ledger!Enter
  <1>6. \/ u.status = IF u.paid = payments[p].total THEN "PAID" ELSE "PARTIAL"
        \/ u.status \in {"FAILED", "PENDING"}
    BY <1>1, <1>4 DEF Balanced, Update, Statuses
  <1> QED
    BY <1>1, <1>4, <1>5, <1>6, EntriesAreSteps

\* A published event is about a status the payment has had.
LEMMA EmitPublishes ==
  ASSUME TypeInv, HistoryInv, NEW h \in Handlers, EmitEvent(h)
  PROVE  Ledger!LNext
  <1>a. op[h].pay \in Payments /\ upd[h].status \in Announced
    BY DEF EmitEvent, HistoryInv, TypeInv, TypeOK, Op
  <1>b. PICK p \in Payments : p = op[h].pay
    BY <1>a
  <1>c. PICK s \in Announced : s = upd[h].status
    BY <1>a
  <1>1. s \in Statuses /\ transitions[p][s] > 0
    BY <1>b, <1>c DEF EmitEvent, HistoryInv, Announced, Statuses
  <1>2. payments' = payments /\ transitions' = transitions
    BY DEF EmitEvent, db
  <1>3. emitted \in [Payments -> [Announced -> Nat]] /\ emitted' = [emitted EXCEPT ![p][s] = @ + 1]
    BY <1>b, <1>c DEF EmitEvent, TypeInv, TypeOK
  <1>4. \A q \in Payments, r \in Announced :
           emitted'[q][r] = IF q = p /\ r = s THEN emitted[q][r] + 1 ELSE emitted[q][r]
    BY <1>1, <1>3
  <1>5. ASSUME NEW q \in Payments
        PROVE  {r \in Announced : emitted'[q][r] > 0} =
                 {r \in Announced : emitted[q][r] > 0} \cup (IF q = p THEN {s} ELSE {})
    BY <1>1, <1>3, <1>4
  <1>6. Ledger!Publish(p, s)
    BY <1>1, <1>2, <1>5 DEF Ledger!Publish, Announced
  <1> QED
    BY <1>1, <1>6, PublicationsAreSteps

\* The service begins as an empty ledger ...
LEMMA LedgerBegins == Init => Ledger!LInit
  BY DEF Init, Ledger!LInit, Ledger!None, NoRow, Statuses, Announced

\* ... and each of its steps is a step of the ledger or none.
LEMMA LedgerSimulation ==
  TypeInv /\ LedgerInv /\ HistoryInv /\ [Next]_vars => [Ledger!LNext]_(Ledger!lvars)
  <1> SUFFICES ASSUME TypeInv, LedgerInv, HistoryInv, [Next]_vars
               PROVE  Ledger!LNext \/ UNCHANGED Ledger!lvars
    OBVIOUS
  <1>1. CASE UNCHANGED <<payments, transitions, emitted>>
    BY <1>1 DEF Ledger!lvars
  <1>2. ASSUME NEW p \in Payments, NEW t \in Amounts, Ledger!Open(p, t)
        PROVE  Ledger!LNext
    BY <1>2 DEF Ledger!LNext
  <1>3. CASE Next
    BY <1>1, <1>2, <1>3, LedgerActions, InsertOpens, WriteEnters, EmitPublishes
  <1> QED
    BY <1>1, <1>3 DEF vars

\* Every behaviour of the service, with any number of payments and of overlapping
\* requests, is one of PaymentLedger: money and events look as if every update were
\* atomic.
THEOREM LedgerImplemented == Spec => ImplementsLedger
  BY TypeInit, TypeStep, LedgerInit, LedgerStep, HistoryInit, HistoryStep, LedgerBegins,
     LedgerSimulation, PTL DEF Spec, ImplementsLedger, Ledger!LSpec

-----------------------------------------------------------------------------
(* What a request knows of the charge it reports, and what becomes of it. *)

\* A request in flight has a kind and stands where requests of its kind do; a
\* webhook goes by the id of its message, and nothing else does.
RequestHolds(h) ==
    /\ op[h].kind # "none"
    /\ pc[h] \in {"init", "mif"} => op[h].kind = "submit"
    /\ pc[h] = "verify" => op[h].kind \in Sources
    /\ pc[h] \in {"check", "log", "notify"} => op[h].kind \in Reporters
    /\ pc[h] = "adminlog" => op[h].kind \in Admins
    /\ op[h].kind = "submit" => op[h].want = "FAILED"
    /\ op[h].kind = "webhook" => op[h].id = WebhookId(op[h].reply) /\ op[h].reply \in SentStatuses
    /\ op[h].kind # "webhook" => op[h].id[1] # "webhook"

RequestInv == \A h \in Handlers : pc[h] # "idle" => RequestHolds(h)

\* A transaction begins once and only for a payment that exists, a charge is never
\* zero, and a message of success quotes it.
PaystackInv ==
    /\ \A p \in Payments :
          /\ Paid(p) => txn[p].amount > 0
          /\ ~Exists(p) => txn[p].status = "none"
    /\ \A h \in Handlers : pc[h] = "init" => txn[op[h].pay].status = "none"
    /\ \A g, h \in Handlers : pc[g] = "init" /\ pc[h] = "init" /\ op[g].pay = op[h].pay => g = h
    /\ \A w \in webhooks :
          /\ w.status \in SentStatuses
          /\ w.status = "success" => Paid(w.pay) /\ w.amount = txn[w.pay].amount

\* A handler that reports success quotes the charge and asks for a settlement, and
\* no other report does; past its update, the success is recorded.
OutcomeHolds(h) ==
    op[h].kind \in Reporters /\ pc[h] \notin {"idle", "verify"} =>
        /\ op[h].reply = "success" => Paid(op[h].pay) /\ op[h].amt = txn[op[h].pay].amount
        /\ pc[h] # "check" => (Settled(op[h].want) <=> op[h].reply = "success")
        /\ pc[h] = "write" => (Settled(upd[h].status) <=> op[h].reply = "success")
        /\ pc[h] \in {"emit", "log", "notify"} /\ op[h].reply = "success" => Recorded(op[h].pay)

\* An update that settles a payment in full is backed by the charge, unless an
\* administrator asked for it.
UpdateBacked(h) ==
    pc[h] = "write" /\ op[h].kind \notin Admins /\ upd[h].status = "PAID" =>
        Charged(op[h].pay, payments[op[h].pay].total)

OutcomeInv == \A h \in Handlers : OutcomeHolds(h) /\ UpdateBacked(h)

\* The step of a handler that stays in flight.
LEMMA StepEffect ==
  ASSUME TypeInv, NEW h \in Handlers, Step(h), pc'[h] # "idle"
  PROVE  /\ op'[h].kind = op[h].kind /\ op'[h].pay = op[h].pay /\ op'[h].id = op[h].id
         /\ \/ /\ pc[h] = "init" /\ pc'[h] = "mif"
               /\ op'[h].want = op[h].want /\ op'[h].reply = op[h].reply
            \/ pc[h] = "mif" /\ pc'[h] = "read" /\ op'[h] = op[h]
            \/ /\ pc[h] = "verify" /\ pc'[h] = "check"
               /\ op'[h].want = op[h].want /\ op'[h].amt = Reported(txn[op[h].pay].amount)
               /\ op'[h].reply \in {"ongoing", "abandoned", txn[op[h].pay].status}
            \/ /\ pc[h] = "check" /\ pc'[h] = "read"
               /\ op'[h].reply = op[h].reply /\ op'[h].amt = op[h].amt
               /\ op'[h].want = ResolveReply(op[h].reply, op[h].amt, payments[op[h].pay].amount)
            \/ pc[h] = "read" /\ pc'[h] = "write" /\ op'[h] = op[h] /\ ReadForUpdate(h)
            \/ /\ pc[h] = "write" /\ op'[h] = op[h] /\ upd'[h] = upd[h] /\ WriteStatus(h)
               /\ pc'[h] = IF Announces(upd[h]) THEN "emit" ELSE AfterEmit(op[h])
            \/ pc[h] = "emit" /\ pc'[h] = AfterEmit(op[h]) /\ op'[h] = op[h] /\ upd'[h] = upd[h]
            \/ pc[h] = "log" /\ pc'[h] = "notify" /\ op'[h] = op[h] /\ SaveOutcomeLog(h)
  <1>1. pc \in [Handlers -> PcValues] /\ op \in [Handlers -> Op] /\ op[h] \in Op
    BY DEF TypeInv, TypeOK
  <1>2. ~(\/ InitializeOk(h) \/ VerifyFails(h) \/ SkipLogged(h) \/ RejectBelowLimit(h)
          \/ RefuseUpdate(h) \/ SaveAdminLog(h) \/ OutcomeLogConflict(h)
          \/ Notify(h) \/ FinishSubmit(h))
    BY <1>1 DEF InitializeOk, VerifyFails, SkipLogged, RejectBelowLimit, RefuseUpdate,
                SaveAdminLog, OutcomeLogConflict, Notify, FinishSubmit, End, Return
  <1>3. CASE InitializeFails(h)
    BY <1>1, <1>3 DEF InitializeFails, Goto, Op
  <1>4. CASE LogInitFailure(h)
    BY <1>1, <1>4 DEF LogInitFailure, Goto, End
  <1>5. CASE VerifyReplies(h)
    BY <1>1, <1>5 DEF VerifyReplies, Goto, Op
  <1>6. CASE AcceptOutcome(h)
    BY <1>1, <1>6 DEF AcceptOutcome, Goto, Op, Resolved
  <1>7. CASE ReadForUpdate(h)
    BY <1>1, <1>7 DEF ReadForUpdate, Goto
  <1>8. CASE WriteStatus(h)
    BY <1>1, <1>8, WriteHistory DEF WriteStatus
  <1>9. CASE EmitEvent(h)
    BY <1>1, <1>9 DEF EmitEvent, Goto
  <1>10. CASE SaveOutcomeLog(h)
    BY <1>1, <1>10 DEF SaveOutcomeLog, Goto
  <1> QED
    BY <1>2, <1>3, <1>4, <1>5, <1>6, <1>7, <1>8, <1>9, <1>10 DEF Step

\* What a new request knows.
LEMMA RequestEffect ==
  ASSUME TypeInv, NEW h \in Handlers, Request(h)
  PROVE  \/ /\ pc'[h] = "check" /\ op'[h].kind = "webhook"
            /\ \E w \in webhooks :
                 /\ op'[h].pay = w.pay /\ op'[h].reply = w.status
                 /\ op'[h].id = WebhookId(w.status) /\ op'[h].amt = Reported(w.amount)
         \/ /\ pc'[h] = "verify" /\ op'[h].kind \in Sources /\ op'[h].id[1] = "verify"
         \/ /\ pc'[h] = "read" /\ op'[h].kind \in Admins /\ op'[h].id = NoId
         \/ /\ pc'[h] = "init" /\ op'[h].kind = "submit" /\ op'[h].want = "FAILED"
            /\ op'[h].id = NoId /\ ~Exists(op'[h].pay)
  <1> USE DEF Begin, TypeInv, TypeOK, NoOp
  <1>1. CASE \E w \in webhooks : ReceiveWebhook(h, w)
    BY <1>1 DEF ReceiveWebhook
  <1>2. CASE \E p \in Payments, s \in Verifiers : StartVerify(h, p, s)
    BY <1>2, PaymentsAssumption DEF StartVerify, VerifyId
  <1>3. CASE \E p \in Payments, d \in AdminUpdates, k \in {"admin", "review"} : AdminRequest(h, p, d, k)
    BY <1>3 DEF AdminRequest, Admins
  <1>4. CASE \E p \in Payments, a, t \in Amounts : SubmitOnline(h, p, a, t)
    BY <1>4 DEF SubmitOnline, MayCreate
  <1>5. CASE \E p \in Payments, a, t \in Amounts : CreateOffline(h, p, a, t)
    BY <1>5 DEF CreateOffline, Admins
  <1> QED
    BY <1>1, <1>2, <1>3, <1>4, <1>5 DEF Request

\* Webhooks come from Paystack alone.
LEMMA OnlyProviderSends ==
  ASSUME Next
  PROVE  Provider \/ UNCHANGED webhooks
  <1>1. ASSUME NEW h \in Handlers, Step(h)
        PROVE  UNCHANGED webhooks
    BY <1>1
    DEF Step, InitializeOk, InitializeFails, LogInitFailure, VerifyReplies, VerifyFails,
        SkipLogged, RejectBelowLimit, AcceptOutcome, ReadForUpdate, RefuseUpdate, WriteStatus,
        EmitEvent, SaveAdminLog, SaveOutcomeLog, OutcomeLogConflict, Notify, FinishSubmit, paystack
  <1>2. ASSUME NEW h \in Handlers, Request(h)
        PROVE  UNCHANGED webhooks
    BY <1>2 DEF Request, ReceiveWebhook, StartVerify, AdminRequest, SubmitOnline, CreateOffline,
       paystack
  <1>3. ASSUME NEW h \in Handlers, Fault(h)
        PROVE  UNCHANGED webhooks
    BY <1>3 DEF Fault, paystack
  <1> QED
    BY <1>1, <1>2, <1>3 DEF Next, CreatePayment, paystack

\* The id of a request without one is no webhook's.
LEMMA NoIdKind == NoId[1] = "none"
  BY Zenon DEF NoId

\* RequestInv holds initially,
LEMMA RequestInit == Init => RequestInv
  BY DEF Init, RequestInv

\* and every step keeps it.
LEMMA RequestStep == TypeInv /\ PaystackInv /\ RequestInv /\ [Next]_vars => RequestInv'
  <1> SUFFICES ASSUME TypeInv, PaystackInv, RequestInv, [Next]_vars, NEW h \in Handlers, pc'[h] # "idle"
               PROVE  RequestHolds(h)'
    BY DEF RequestInv
  <1>1. CASE pc'[h] = pc[h] /\ op'[h] = op[h]
    BY <1>1 DEF RequestInv, RequestHolds
  <1>2. CASE pc[h] # "idle" /\ Step(h)
    <2>1. RequestHolds(h) /\ op[h] \in Op
      BY <1>2 DEF RequestInv, TypeInv, TypeOK
    <2>2. op[h].kind = "webhook" => pc[h] \notin {"init", "mif", "verify"}
      BY <2>1 DEF RequestHolds, Sources
    <2>3. op[h].kind = "submit" => pc[h] # "check"
      BY <2>1 DEF RequestHolds, Sources, Reporters
    <2>4. /\ AfterEmit(op[h]) = "adminlog" => op[h].kind \in Admins
          /\ AfterEmit(op[h]) = "log" => op[h].kind \in Reporters
          /\ AfterEmit(op[h]) \in {"adminlog", "log", "done"}
      BY DEF AfterEmit, Admins, Reporters, Sources
    <2>5. op'[h].kind = op[h].kind /\ op'[h].id = op[h].id
      BY <1>2, StepEffect
    <2>6. op'[h].want = op[h].want \/ pc[h] = "check"
      BY <1>2, StepEffect
    <2>7. op'[h].reply = op[h].reply \/ pc[h] = "verify"
      BY <1>2, StepEffect
    <2>8. /\ pc'[h] \notin {"init", "verify"}
          /\ pc'[h] = "mif" => pc[h] = "init"
          /\ pc'[h] \in {"check", "notify"} => pc[h] \in {"verify", "log"}
          /\ pc'[h] = "log" => op[h].kind \in Reporters
          /\ pc'[h] = "adminlog" => op[h].kind \in Admins
      BY <1>2, <2>4, StepEffect
    <2> QED
      BY <2>1, <2>2, <2>3, <2>5, <2>6, <2>7, <2>8 DEF RequestHolds, Reporters
  <1>3. CASE Request(h)
    <2>1. \A w \in webhooks : w.status \in SentStatuses
      BY DEF PaystackInv
    <2>2. CASE pc'[h] = "check"
      <3>1. PICK w \in webhooks :
                 /\ op'[h].kind = "webhook" /\ op'[h].reply = w.status
                 /\ op'[h].id = WebhookId(w.status)
        BY <1>3, <2>2, RequestEffect
      <3> QED
        BY <2>1, <2>2, <3>1 DEF RequestHolds, Reporters
    <2>3. CASE pc'[h] = "verify"
      <3>1. op'[h].kind \in Sources /\ op'[h].id[1] = "verify"
        BY <1>3, <2>3, RequestEffect
      <3> QED
        BY <2>3, <3>1 DEF RequestHolds, Sources
    <2>4. CASE pc'[h] = "read"
      <3>1. op'[h].kind \in Admins /\ op'[h].id[1] = "none"
        BY <1>3, <2>4, RequestEffect, NoIdKind
      <3> QED
        BY <2>4, <3>1 DEF RequestHolds, Admins
    <2>5. CASE pc'[h] = "init"
      <3>1. op'[h].kind = "submit" /\ op'[h].want = "FAILED" /\ op'[h].id[1] = "none"
        BY <1>3, <2>5, RequestEffect, NoIdKind
      <3> QED
        BY <2>5, <3>1 DEF RequestHolds
    <2> QED
      BY <1>3, <2>2, <2>3, <2>4, <2>5, RequestEffect
  <1> QED
    BY <1>1, <1>2, <1>3, HandlerMoves DEF vars

\* Three things write Paystack's transactions.
LEMMA TxnWriters ==
  ASSUME Next
  PROVE  \/ \E h \in Handlers : InitializeOk(h)
         \/ Provider
         \/ UNCHANGED txn
  <1>1. ASSUME NEW h \in Handlers, Step(h)
        PROVE  InitializeOk(h) \/ UNCHANGED txn
    BY <1>1
    DEF Step, InitializeFails, LogInitFailure, VerifyReplies, VerifyFails, WriteStatus,
        SkipLogged, RejectBelowLimit, AcceptOutcome, ReadForUpdate, RefuseUpdate, EmitEvent,
        SaveAdminLog, SaveOutcomeLog, OutcomeLogConflict, Notify, FinishSubmit, paystack
  <1>2. ASSUME NEW h \in Handlers, Request(h)
        PROVE  UNCHANGED txn
    BY <1>2 DEF Request, ReceiveWebhook, StartVerify, AdminRequest, SubmitOnline, CreateOffline, paystack
  <1>3. ASSUME NEW h \in Handlers, Fault(h)
        PROVE  UNCHANGED txn
    BY <1>3 DEF Fault, paystack
  <1> QED
    BY <1>1, <1>2, <1>3 DEF Next, CreatePayment, paystack

\* What a step does to the transaction of p: it stays, it begins, or it moves on from
\* a state it was begun in; a charge is never taken back nor changed.
LEMMA TxnMoves ==
  ASSUME TypeInv, PaystackInv, Next, NEW p \in Payments
  PROVE  \/ txn'[p] = txn[p]
         \/ /\ txn[p].status = "none" /\ txn'[p].status = "ongoing" /\ Exists(p)
            /\ \E h \in Handlers : pc[h] = "init" /\ op[h].pay = p /\ pc'[h] = "idle"
         \/ /\ txn[p].status # "none" /\ txn'[p].status # "none"
            /\ Paid(p) => Paid(p)' /\ txn'[p].amount = txn[p].amount
            /\ Paid(p)' => Paid(p) \/ txn'[p].amount > 0
  <1>1. txn \in [Payments -> [status: TxnStates, amount: Nat]]
    BY DEF TypeInv, TypeOK
  <1>2. ASSUME NEW h \in Handlers, InitializeOk(h), txn'[p] # txn[p]
        PROVE  /\ txn[p].status = "none" /\ txn'[p].status = "ongoing" /\ Exists(p)
               /\ pc[h] = "init" /\ op[h].pay = p /\ pc'[h] = "idle"
    <2>1. pc[h] = "init" /\ pc'[h] = "idle" /\ op[h].pay \in Payments /\ Exists(op[h].pay)
      BY <1>2 DEF InitializeOk, End, TypeInv, TypeOK, Op
    <2>2. txn' = [txn EXCEPT ![op[h].pay].status = "ongoing"]
      BY <1>2 DEF InitializeOk
    <2>3. op[h].pay = p
      BY <1>1, <1>2, <2>1, <2>2
    <2> QED
      BY <1>1, <2>1, <2>2, <2>3 DEF PaystackInv
  <1>3. ASSUME NEW q \in Payments, NEW c \in Charges, ChargeSucceeds(q, c), txn'[p] # txn[p]
        PROVE  txn[p].status # "none" /\ ~Paid(p) /\ txn'[p].status # "none" /\ txn'[p].amount > 0
    BY <1>1, <1>3, PaymentsAssumption DEF ChargeSucceeds, Paid
  <1>4. ASSUME NEW q \in Payments, ChargeFails(q), txn'[p] # txn[p]
        PROVE  txn[p].status # "none" /\ ~Paid(p) /\ txn'[p].status # "none" /\ ~Paid(p)'
    BY <1>1, <1>4 DEF ChargeFails, Paid
  <1>5. ASSUME NEW q \in Payments, ChargeReversed(q), txn'[p] # txn[p]
        PROVE  txn[p].status # "none" /\ Paid(p) /\ Paid(p)' /\ txn'[p].amount = txn[p].amount
                 /\ txn'[p].status # "none"
    BY <1>1, <1>5 DEF ChargeReversed, Paid
  <1> QED
    BY <1>2, <1>3, <1>4, <1>5, TxnWriters DEF Provider

\* Paystack keeps its charges.
LEMMA ChargesStay ==
  ASSUME TypeInv, PaystackInv, Next, NEW p \in Payments, Paid(p)
  PROVE  Paid(p)' /\ txn'[p].amount = txn[p].amount
  BY TxnMoves DEF Paid

\* PaystackInv holds initially,
LEMMA PaystackInit == Init => PaystackInv
  BY DEF Init, PaystackInv, Paid

\* and every step keeps it.
LEMMA PaystackStep == TypeInv /\ PaystackInv /\ [Next]_vars => PaystackInv'
  <1> SUFFICES ASSUME TypeInv, PaystackInv, [Next]_vars
               PROVE  PaystackInv'
    OBVIOUS
  <1>1. CASE Next
    <2>1. ASSUME NEW p \in Payments
          PROVE  Paid(p)' => txn'[p].amount > 0
      BY <1>1, TxnMoves DEF PaystackInv, Paid
    <2>2. ASSUME NEW p \in Payments, ~Exists(p)'
          PROVE  txn'[p].status = "none"
      <3>1. ~Exists(p) /\ txn[p].status = "none"
        BY <1>1, <2>2, RowsStay DEF PaystackInv
      <3> QED
        BY <1>1, <3>1, TxnMoves
    <2>3. ASSUME NEW h \in Handlers, pc'[h] = "init"
          PROVE  \/ pc[h] = "init" /\ op'[h] = op[h]
                 \/ pc[h] = "idle" /\ ~Exists(op'[h].pay) /\ Request(h)
      <3>1. ~Step(h)
        BY <2>3, StepEffect DEF AfterEmit
      <3> QED
        BY <1>1, <2>3, <3>1, HandlerMoves, RequestEffect
    <2>4. ASSUME NEW h \in Handlers
          PROVE  op[h].pay \in Payments /\ op'[h].pay \in Payments /\ (pc[h] # "idle" => Exists(op[h].pay))
      <3>1. TypeInv'
        BY TypeStep
      <3> QED
        BY <3>1 DEF TypeInv, TypeOK, Op
    <2>5. ASSUME NEW h \in Handlers, pc'[h] = "init"
          PROVE  txn'[op'[h].pay].status = "none"
      <3>1. txn[op'[h].pay].status = "none"
        BY <2>3, <2>4, <2>5 DEF PaystackInv
      <3>2. ASSUME NEW g \in Handlers, pc[g] = "init", op[g].pay = op'[h].pay, pc'[g] = "idle"
            PROVE  FALSE
        BY <2>3, <2>4, <2>5, <3>2 DEF PaystackInv
      <3> QED
        BY <1>1, <2>4, <3>1, <3>2, TxnMoves
    <2>6. ASSUME NEW g \in Handlers, NEW h \in Handlers, pc'[g] = "init", pc'[h] = "init",
                 op'[g].pay = op'[h].pay
          PROVE  g = h
      <3>1. CASE pc[g] = "init" /\ op'[g] = op[g] /\ pc[h] = "init" /\ op'[h] = op[h]
        BY <2>6, <3>1 DEF PaystackInv
      <3>2. Request(g) /\ Request(h) => g = h
        <4>1. SUFFICES ASSUME Request(g), Request(h), g # h
                       PROVE  FALSE
          OBVIOUS
        <4>2. pc[h] = "idle" /\ pc'[h] = pc[h]
          BY <4>1, RequestOfOne
        <4> QED
          BY <2>6, <4>2
      <3> QED
        BY <2>3, <2>4, <2>6, <3>1, <3>2
    <2>7. ASSUME NEW w \in webhooks'
          PROVE  /\ w.status \in SentStatuses
                 /\ w.status = "success" => Paid(w.pay)' /\ w.amount = txn'[w.pay].amount
      <3>1. CASE w \in webhooks
        <4>1. w.pay \in Payments
          BY <3>1 DEF TypeInv, TypeOK, Webhook
        <4> QED
          BY <1>1, <3>1, <4>1, ChargesStay DEF PaystackInv
      <3>2. CASE w \notin webhooks
        <4>1. Provider
          BY <1>1, <2>7, <3>2, OnlyProviderSends
        <4>2. txn \in [Payments -> [status: TxnStates, amount: Nat]]
          BY DEF TypeInv, TypeOK
        <4> QED
          BY <2>7, <3>2, <4>1, <4>2
          DEF Provider, ChargeSucceeds, ChargeFails, ChargeReversed, Send, SentStatuses, Paid
      <3> QED
        BY <3>1, <3>2
    <2> QED
      BY <2>1, <2>2, <2>5, <2>6, <2>7 DEF PaystackInv
  <1>2. CASE UNCHANGED vars
    BY <1>2 DEF vars, PaystackInv, Paid, Exists
  <1> QED
    BY <1>1, <1>2

\* What is owed for a payment never changes once it exists.
LEMMA TotalsStay ==
  ASSUME TypeInv, Next, NEW p \in Payments, Exists(p)
  PROVE  Exists(p)' /\ payments'[p].total = payments[p].total
  <1>1. ASSUME NEW q \in Payments, NEW a \in Amounts, NEW t \in Amounts, NEW m \in Methods,
               MayCreate(q, a, t, m), Insert(q, a, t, m)
        PROVE  payments'[p] = payments[p]
    BY <1>1 DEF MayCreate, Insert, TypeInv, TypeOK
  <1>2. ASSUME NEW h \in Handlers, WriteStatus(h)
        PROVE  payments'[p].total = payments[p].total
    BY <1>2, WriteEffect
  <1> QED
    BY <1>1, <1>2, Writers, RowsStay

\* A settlement is asked for exactly when Paystack says success, and an update
\* settles the row exactly when it is asked to.
LEMMA SettlesOnSuccess ==
  ASSUME NEW reply \in Replies, NEW charged \in Nat \cup {NoAmount}, NEW amount \in Nat
  PROVE  Settled(ResolveReply(reply, charged, amount)) <=> reply = "success"
  BY DEF Settled, ResolveReply, MapPaystackStatus, Replies, NoAmount

\* The status an update derives is a settlement when one is asked for, and PAID only
\* when the sum reported reaches what is owed.
LEMMA SettlesAsAsked ==
  ASSUME NEW row \in Row, NEW want \in Statuses, NEW amt \in Nat \cup {NoAmount}
  PROVE  /\ Settled(ResolveTracked(row, want, amt).status) <=> Settled(want)
         /\ amt # NoAmount /\ ResolveTracked(row, want, amt).status = "PAID" => amt >= row.total
  BY DEF Settled, ResolveTracked, Statuses, Clamp, Row, NoAmount

\* What the step of a handler from its read to its write computes.
LEMMA ReadEffect ==
  ASSUME TypeInv, NEW h \in Handlers, ReadForUpdate(h)
  PROVE  /\ upd'[h].status = ResolveTracked(payments[op[h].pay], op[h].want, op[h].amt).status
         /\ upd'[h].method = NextMethod(op[h], payments[op[h].pay])
         /\ upd'[h].confirmed = Confirms(payments[op[h].pay], op[h], upd'[h].status)
         /\ payments[op[h].pay] \in Row /\ payments' = payments /\ txn' = txn
         /\ op' = op /\ pc'[h] = "write" /\ pc[h] = "read"
  BY DEF ReadForUpdate, TypeInv, TypeOK, Op, db, paystack, Goto

\* OutcomeInv holds initially,
LEMMA OutcomeInit == Init => OutcomeInv
  BY DEF Init, OutcomeInv, OutcomeHolds, UpdateBacked

\* a step of the handler keeps its part of it,
LEMMA OutcomeOfStep ==
  ASSUME TypeInv, HistoryInv, PaystackInv, RequestInv, NEW h \in Handlers,
         OutcomeHolds(h), Next, Step(h), pc'[h] # "idle"
  PROVE  OutcomeHolds(h)'
  <1>a. op[h].pay \in Payments
    BY DEF TypeInv, TypeOK, Op
  <1>b. PICK p \in Payments : p = op[h].pay
    BY <1>a
  <1>1. /\ op[h].pay = p /\ op[h] \in Op /\ Exists(p) /\ pc[h] # "idle" /\ RequestHolds(h)
        /\ op'[h].kind = op[h].kind /\ op'[h].pay = p /\ payments[p] \in Row
    BY <1>b, StepEffect, StepOfOne DEF TypeInv, TypeOK, RequestInv
  <1>2. Paid(p) => Paid(p)' /\ txn'[p].amount = txn[p].amount
    BY <1>1, ChargesStay
  <1>3. Recorded(p) => Recorded(p)'
    BY <1>1, HistoryGrows DEF Recorded, Statuses
  <1>4. SUFFICES ASSUME op[h].kind \in Reporters
                 PROVE  /\ op'[h].reply = "success" => Paid(p)' /\ op'[h].amt = txn'[p].amount
                        /\ pc'[h] # "check" => (Settled(op'[h].want) <=> op'[h].reply = "success")
                        /\ pc'[h] = "write" => (Settled(upd'[h].status) <=> op'[h].reply = "success")
                        /\ pc'[h] \in {"emit", "log", "notify"} /\ op'[h].reply = "success" => Recorded(p)'
    BY <1>1, <1>4 DEF OutcomeHolds, Paid, Recorded
  <1>5. pc[h] \notin {"init", "mif"} /\ (pc[h] \in {"write", "emit"} => AfterEmit(op[h]) = "log")
    BY <1>1, <1>4 DEF RequestHolds, Reporters, Sources, AfterEmit
  <1>6. CASE pc[h] = "verify"
    <2>1. /\ pc'[h] = "check" /\ op'[h].amt = Reported(txn[p].amount)
          /\ op'[h].reply \in {"ongoing", "abandoned", txn[p].status}
      BY <1>1, <1>6, StepEffect
    <2>2. op'[h].reply = "success" => Paid(p) /\ op'[h].amt = txn[p].amount
      BY <1>1, <2>1 DEF Paid, Reported, PaystackInv
    <2> QED
      BY <1>2, <2>1, <2>2
  <1>7. ASSUME pc[h] # "verify"
        PROVE  /\ op[h].reply = "success" => Paid(p) /\ op[h].amt = txn[p].amount
               /\ pc[h] # "check" => (Settled(op[h].want) <=> op[h].reply = "success")
               /\ pc[h] = "write" => (Settled(upd[h].status) <=> op[h].reply = "success")
               /\ pc[h] \in {"emit", "log", "notify"} /\ op[h].reply = "success" => Recorded(p)
    BY <1>1, <1>4, <1>7 DEF OutcomeHolds
  <1>8. CASE pc[h] = "check"
    <2>1. /\ pc'[h] = "read" /\ op'[h].reply = op[h].reply /\ op'[h].amt = op[h].amt
          /\ op'[h].want = ResolveReply(op[h].reply, op[h].amt, payments[p].amount)
      BY <1>1, <1>8, StepEffect
    <2>a. op[h].reply \in Replies /\ op[h].amt \in Nat \cup {NoAmount} /\ payments[p].amount \in Nat
      BY <1>1 DEF Op, Row
    <2>2. Settled(op'[h].want) <=> op[h].reply = "success"
      BY <2>1, <2>a, SettlesOnSuccess
    <2> QED
      BY <1>2, <1>7, <1>8, <2>1, <2>2
  <1>9. CASE pc[h] = "read"
    <2>1. ReadForUpdate(h) /\ op'[h] = op[h]
      BY <1>9, StepEffect
    <2>a. op[h].want \in Statuses /\ op[h].amt \in Nat \cup {NoAmount}
      BY <1>1 DEF Op
    <2>b. Settled(ResolveTracked(payments[p], op[h].want, op[h].amt).status) <=> Settled(op[h].want)
      BY <1>1, <2>a, SettlesAsAsked
    <2>c. /\ upd'[h].status = ResolveTracked(payments[p], op[h].want, op[h].amt).status
          /\ pc'[h] = "write"
      BY <1>1, <2>1, ReadEffect
    <2>2. pc'[h] = "write" /\ (Settled(upd'[h].status) <=> Settled(op[h].want))
      BY <2>b, <2>c
    <2> QED
      BY <1>2, <1>7, <1>9, <2>1, <2>2
  <1>10. CASE pc[h] = "write"
    <2>a. /\ op'[h] = op[h] /\ WriteStatus(h)
          /\ pc'[h] = IF Announces(upd[h]) THEN "emit" ELSE AfterEmit(op[h])
      BY <1>10, StepEffect
    <2>1. op'[h] = op[h] /\ WriteStatus(h) /\ pc'[h] \in {"emit", "log"}
      BY <1>5, <1>10, <2>a
    <2>2. upd[h].status \in Statuses /\ payments'[p].status = upd[h].status
      BY <1>1, <2>1, WriteEffect DEF Update
    <2>3. HistoryInv'
      BY HistoryStep
    <2>4. Settled(upd[h].status) => Recorded(p)'
      BY <1>1, <2>2, <2>3 DEF HistoryInv, Settled, Recorded
    <2> QED
      BY <1>2, <1>7, <1>10, <2>1, <2>4
  <1>11. CASE pc[h] = "emit"
    <2>1. op'[h] = op[h] /\ pc'[h] = "log"
      BY <1>5, <1>11, StepEffect
    <2> QED
      BY <1>2, <1>3, <1>7, <1>11, <2>1
  <1>12. CASE pc[h] = "log"
    <2>1. op'[h] = op[h] /\ pc'[h] = "notify"
      BY <1>12, StepEffect
    <2> QED
      BY <1>2, <1>3, <1>7, <1>12, <2>1
  <1> QED
    BY <1>5, <1>6, <1>8, <1>9, <1>10, <1>11, <1>12, StepEffect

\* so does one that computes an update,
LEMMA BackedByStep ==
  ASSUME TypeInv, PaystackInv, RequestInv, NEW h \in Handlers, OutcomeHolds(h), Step(h), pc'[h] = "write"
  PROVE  UpdateBacked(h)'
  <1>a. op[h].pay \in Payments
    BY DEF TypeInv, TypeOK, Op
  <1>b. PICK p \in Payments : p = op[h].pay
    BY <1>a
  <1>1. pc[h] = "read" /\ ReadForUpdate(h)
    BY StepEffect DEF AfterEmit
  <1>2. op[h].pay = p /\ op[h] \in Op /\ payments[p] \in Row /\ RequestHolds(h) /\ op' = op /\ payments' = payments /\ txn' = txn
    BY <1>1, <1>b, ReadEffect DEF TypeInv, TypeOK, RequestInv
  <1>3. SUFFICES ASSUME op[h].kind \notin Admins, upd'[h].status = "PAID"
                 PROVE  Charged(p, payments[p].total)
    BY <1>2 DEF UpdateBacked, Charged
  <1>c. op[h].want \in Statuses /\ op[h].amt \in Nat \cup {NoAmount}
    BY <1>2 DEF Op
  <1>d. ResolveTracked(payments[p], op[h].want, op[h].amt).status = "PAID"
    BY <1>1, <1>2, <1>3, ReadEffect
  <1>4. /\ Settled(op[h].want)
        /\ op[h].amt # NoAmount => op[h].amt >= payments[p].total
    BY <1>2, <1>c, <1>d, SettlesAsAsked DEF Settled
  <1>5. op[h].kind \in Reporters
    <2>1. op[h].kind \in Kinds
      BY <1>2 DEF Op
    <2>2. op[h].kind \notin {"none", "submit"}
      BY <1>2, <1>4 DEF RequestHolds, Settled
    <2> QED
      BY <1>3, <2>1, <2>2 DEF Kinds, Reporters, Admins
  <1>6. Paid(p) /\ op[h].amt = txn[p].amount
    BY <1>1, <1>b, <1>4, <1>5 DEF OutcomeHolds
  <1>7. op[h].amt # NoAmount
    BY <1>2, <1>6 DEF PaystackInv, NoAmount, Op
  <1> QED
    BY <1>4, <1>6, <1>7 DEF Charged, Paid

\* and every step keeps the whole of it.
LEMMA OutcomeStep ==
  TypeInv /\ HistoryInv /\ PaystackInv /\ RequestInv /\ OutcomeInv /\ [Next]_vars => OutcomeInv'
  <1> SUFFICES ASSUME TypeInv, HistoryInv, PaystackInv, RequestInv, OutcomeInv, [Next]_vars,
                      NEW h \in Handlers
               PROVE  OutcomeHolds(h)' /\ UpdateBacked(h)'
    BY DEF OutcomeInv
  <1>1. CASE Next
    <2>a. op[h].pay \in Payments
      BY DEF TypeInv, TypeOK, Op
    <2>b. PICK p \in Payments : p = op[h].pay
      BY <2>a
    <2>1. OutcomeHolds(h) /\ UpdateBacked(h) /\ op[h].pay = p /\ (pc[h] # "idle" => Exists(p))
      BY <2>b DEF OutcomeInv, TypeInv
    <2>2. Paid(p) => Paid(p)' /\ txn'[p].amount = txn[p].amount
      BY <1>1, <2>1, ChargesStay
    <2>3. Recorded(p) => Recorded(p)'
      BY <1>1, <2>1, HistoryGrows DEF Recorded, Statuses
    <2>4. CASE pc'[h] = pc[h] /\ op'[h] = op[h] /\ upd'[h] = upd[h]
      <3>1. OutcomeHolds(h)'
        BY <2>1, <2>2, <2>3, <2>4 DEF OutcomeHolds, Paid, Recorded
      <3>2. pc[h] = "write" => payments'[p].total = payments[p].total
        BY <1>1, <2>1, TotalsStay
      <3>3. UpdateBacked(h)'
        BY <2>1, <2>2, <2>4, <3>2 DEF UpdateBacked, Charged, Paid
      <3> QED
        BY <3>1, <3>3
    <2>5. CASE pc'[h] = "idle"
      BY <2>5 DEF OutcomeHolds, UpdateBacked
    <2>6. CASE Step(h) /\ pc'[h] # "idle"
      <3>1. OutcomeHolds(h)'
        BY <1>1, <2>1, <2>6, OutcomeOfStep
      <3>2. pc'[h] = "write" => UpdateBacked(h)'
        BY <2>1, <2>6, BackedByStep
      <3> QED
        BY <3>1, <3>2 DEF UpdateBacked
    <2>7. CASE Request(h)
      <3>1. CASE pc'[h] = "check"
        <4>1. PICK w \in webhooks : /\ op'[h].pay = w.pay /\ op'[h].reply = w.status
                                    /\ op'[h].amt = Reported(w.amount)
          BY <2>7, <3>1, RequestEffect
        <4>2. w.pay \in Payments
          BY DEF TypeInv, TypeOK, Webhook
        <4>3. w.status = "success" => Paid(w.pay) /\ Reported(w.amount) = txn[w.pay].amount
          BY <4>2 DEF PaystackInv, Reported
        <4>4. w.status = "success" => Paid(w.pay)' /\ txn'[w.pay].amount = txn[w.pay].amount
          BY <1>1, <4>2, <4>3, ChargesStay
        <4> QED
          BY <3>1, <4>1, <4>3, <4>4 DEF OutcomeHolds, UpdateBacked, Paid
      <3>2. CASE pc'[h] # "check"
        BY <2>7, <3>2, RequestEffect DEF OutcomeHolds, UpdateBacked, Reporters, Sources, Admins
      <3> QED
        BY <3>1, <3>2
    <2> QED
      BY <1>1, <2>4, <2>5, <2>6, <2>7, HandlerMoves
  <1>2. CASE UNCHANGED vars
    BY <1>2 DEF vars, OutcomeInv, OutcomeHolds, UpdateBacked, Paid, Recorded, Charged
  <1> QED
    BY <1>1, <1>2

\* Only administrators put a payment in byAdmin, and none is taken out.
LEMMA AdminsStay ==
  ASSUME TypeInv, Next
  PROVE  byAdmin \subseteq byAdmin'
  <1>1. ASSUME NEW h \in Handlers, Step(h)
        PROVE  byAdmin \subseteq byAdmin'
    BY <1>1, WriteHistory
    DEF Step, InitializeOk, InitializeFails, LogInitFailure, VerifyReplies, VerifyFails,
        SkipLogged, RejectBelowLimit, AcceptOutcome, ReadForUpdate, RefuseUpdate, EmitEvent,
        SaveAdminLog, SaveOutcomeLog, OutcomeLogConflict, Notify, FinishSubmit, hist
  <1>2. ASSUME NEW h \in Handlers, Request(h)
        PROVE  UNCHANGED byAdmin
    BY <1>2 DEF Request, ReceiveWebhook, StartVerify, AdminRequest, SubmitOnline, CreateOffline, hist
  <1>3. ASSUME NEW h \in Handlers, Fault(h)
        PROVE  UNCHANGED byAdmin
    BY <1>3 DEF Fault, hist
  <1> QED
    BY <1>1, <1>2, <1>3
    DEF Next, CreatePayment, hist, Provider, ChargeSucceeds, ChargeFails, ChargeReversed

\* A payment that no administrator updated is PAID only when backed.
LEMMA PaidStep ==
  TypeInv /\ PaystackInv /\ OutcomeInv /\ PaidIsBacked /\ [Next]_vars => PaidIsBacked'
  <1> SUFFICES ASSUME TypeInv, PaystackInv, OutcomeInv, PaidIsBacked, [Next]_vars,
                      NEW p \in Payments, payments'[p].status = "PAID", p \notin byAdmin'
               PROVE  Charged(p, payments[p].total)'
    BY DEF PaidIsBacked
  <1>1. CASE Next
    <2>1. p \notin byAdmin
      BY <1>1, AdminsStay
    <2>2. Exists(p) => payments'[p].total = payments[p].total
      BY <1>1, TotalsStay
    <2>3. Paid(p) => Paid(p)' /\ txn'[p].amount = txn[p].amount
      BY <1>1, ChargesStay
    <2>4. CASE payments'[p].status = payments[p].status
      BY <2>1, <2>2, <2>3, <2>4 DEF PaidIsBacked, Charged, Paid, Exists
    <2>5. ASSUME NEW q \in Payments, NEW a \in Amounts, NEW t \in Amounts, NEW m \in Methods,
                 MayCreate(q, a, t, m), Insert(q, a, t, m)
          PROVE  payments'[p] = payments[p]
      BY <2>5 DEF Insert, TypeInv, TypeOK, NoRow
    <2>6. ASSUME NEW h \in Handlers, WriteStatus(h), payments'[p].status # payments[p].status
          PROVE  Charged(p, payments[p].total)'
      <3>1. p = op[h].pay /\ upd[h].status = "PAID" /\ pc[h] = "write" /\ Exists(p)
        BY <2>6, WriteEffect
      <3>2. op[h].kind \notin Admins /\ txn' = txn
        BY <2>6, <3>1, WriteHistory
      <3>3. Charged(p, payments[p].total)
        BY <3>1, <3>2 DEF OutcomeInv, UpdateBacked
      <3> QED
        BY <2>2, <3>1, <3>2, <3>3 DEF Charged
    <2> QED
      BY <1>1, <2>4, <2>5, <2>6, Writers
  <1>2. CASE UNCHANGED vars
    BY <1>2 DEF vars, PaidIsBacked, Charged
  <1> QED
    BY <1>1, <1>2

\* A payment no administrator touched is PAID only if Paystack charged the customer
\* all that is owed, however many requests overlap, fail or repeat.
THEOREM PaidCorrect == Spec => []PaidIsBacked
  <1>1. Init => PaidIsBacked
    BY DEF Init, PaidIsBacked, NoRow
  <1> QED
    BY <1>1, TypeInit, TypeStep, HistoryInit, HistoryStep, PaystackInit, PaystackStep,
       RequestInit, RequestStep, OutcomeInit, OutcomeStep, PaidStep, PTL DEF Spec

-----------------------------------------------------------------------------
(* What Paystack and the administrators were told. *)

\* The log of a success stands for a charge that was recorded.
LoggedInv ==
    \A p \in Payments : <<p, WebhookId("success")>> \in logs => Recorded(p)

\* Every success that was answered was recorded.
AckedInv ==
    \A w \in acked : w.status = "success" => Recorded(w.pay)

\* What a step adds to the log.
LEMMA LogWriters ==
  ASSUME TypeInv, RequestInv, Next, NEW l \in logs', l \notin logs
  PROVE  \/ \E h \in Handlers : SaveOutcomeLog(h) /\ l = <<op[h].pay, op[h].id>>
         \/ \E h \in Handlers :
               SaveAdminLog(h) /\ l = <<op[h].pay, <<"admin", AdminEvent(upd[h].status, upd[h].method)>>>>
         \/ \E h \in Handlers : LogInitFailure(h) /\ l = <<op[h].pay, <<"init", "failed">>>>
  <1>1. ASSUME NEW h \in Handlers, Step(h)
        PROVE  \/ SaveOutcomeLog(h) /\ l = <<op[h].pay, op[h].id>>
               \/ SaveAdminLog(h) /\ l = <<op[h].pay, <<"admin", AdminEvent(upd[h].status, upd[h].method)>>>>
               \/ LogInitFailure(h) /\ l = <<op[h].pay, <<"init", "failed">>>>
    BY <1>1
    DEF Step, InitializeOk, InitializeFails, LogInitFailure, VerifyReplies, VerifyFails, WriteStatus,
        SkipLogged, RejectBelowLimit, AcceptOutcome, ReadForUpdate, RefuseUpdate, EmitEvent,
        SaveAdminLog, SaveOutcomeLog, OutcomeLogConflict, Notify, FinishSubmit, db
  <1>2. ASSUME NEW h \in Handlers, Request(h)
        PROVE  UNCHANGED logs
    BY <1>2 DEF Request, ReceiveWebhook, StartVerify, AdminRequest, SubmitOnline, CreateOffline, db
  <1>3. ASSUME NEW h \in Handlers, Fault(h)
        PROVE  UNCHANGED logs
    BY <1>3 DEF Fault, db
  <1> QED
    BY <1>1, <1>2, <1>3
    DEF Next, CreatePayment, db, Provider, ChargeSucceeds, ChargeFails, ChargeReversed

\* Nothing is taken from the log.
LEMMA LogGrows ==
  ASSUME Next
  PROVE  logs \subseteq logs'
  <1>1. ASSUME NEW h \in Handlers, Step(h)
        PROVE  logs \subseteq logs'
    BY <1>1
    DEF Step, InitializeOk, InitializeFails, LogInitFailure, VerifyReplies, VerifyFails, WriteStatus,
        SkipLogged, RejectBelowLimit, AcceptOutcome, ReadForUpdate, RefuseUpdate, EmitEvent,
        SaveAdminLog, SaveOutcomeLog, OutcomeLogConflict, Notify, FinishSubmit, db
  <1>2. ASSUME NEW h \in Handlers, Request(h)
        PROVE  UNCHANGED logs
    BY <1>2 DEF Request, ReceiveWebhook, StartVerify, AdminRequest, SubmitOnline, CreateOffline, db
  <1>3. ASSUME NEW h \in Handlers, Fault(h)
        PROVE  UNCHANGED logs
    BY <1>3 DEF Fault, db
  <1> QED
    BY <1>1, <1>2, <1>3
    DEF Next, CreatePayment, db, Provider, ChargeSucceeds, ChargeFails, ChargeReversed

\* LoggedInv is kept, as long as a message of success is not taken for another: its
\* payload has an id of its own, or there are no messages of failure.
LEMMA LoggedStep ==
  ASSUME EnvelopeIds \/ ~ReportsFailures,
         TypeInv, RequestInv, OutcomeInv, LoggedInv, [Next]_vars
  PROVE  LoggedInv'
  <1>1. CASE Next
    <2>1. SUFFICES ASSUME NEW p \in Payments, <<p, WebhookId("success")>> \in logs'
                   PROVE  Recorded(p)'
      BY DEF LoggedInv, WebhookId
    <2>2. Recorded(p) => Recorded(p)'
      BY <1>1, HistoryGrows DEF Recorded, Statuses
    <2>3. CASE <<p, WebhookId("success")>> \notin logs
      <3>1. PICK h \in Handlers : SaveOutcomeLog(h) /\ p = op[h].pay /\ WebhookId("success") = op[h].id
        BY <1>1, <2>1, <2>3, LogWriters DEF WebhookId
      <3>2. pc[h] = "log" /\ RequestHolds(h) /\ OutcomeHolds(h)
        BY <3>1 DEF SaveOutcomeLog, RequestInv, OutcomeInv
      <3>3. op[h].id[1] = "webhook"
        BY <3>1 DEF WebhookId
      <3>4. op[h].reply = "success"
        BY <3>1, <3>2, <3>3 DEF RequestHolds, WebhookId, SentStatuses
      <3>5. Recorded(op[h].pay)
        BY <3>2, <3>4 DEF RequestHolds, OutcomeHolds
      <3> QED
        BY <2>2, <3>1, <3>5 DEF Recorded
    <2> QED
      BY <2>1, <2>2, <2>3 DEF LoggedInv
  <1>2. CASE UNCHANGED vars
    BY <1>2 DEF vars, LoggedInv, Recorded
  <1> QED
    BY <1>1, <1>2

\* Two steps answer a webhook.
LEMMA Answerers ==
  ASSUME Next, NEW w \in acked', w \notin acked
  PROVE  \E h \in Handlers : SkipLogged(h) \/ Notify(h)
  <1>1. ASSUME NEW h \in Handlers, Step(h)
        PROVE  SkipLogged(h) \/ Notify(h)
    BY <1>1
    DEF Step, InitializeOk, InitializeFails, LogInitFailure, VerifyReplies, VerifyFails, WriteStatus,
        RejectBelowLimit, AcceptOutcome, ReadForUpdate, RefuseUpdate, EmitEvent,
        SaveAdminLog, SaveOutcomeLog, OutcomeLogConflict, FinishSubmit, paystack
  <1>2. ~\E h \in Handlers : Request(h) \/ Fault(h)
    BY DEF Request, ReceiveWebhook, StartVerify, AdminRequest, SubmitOnline, CreateOffline, paystack, Fault
  <1> QED
    BY <1>1, <1>2 DEF Next, CreatePayment, paystack, Provider, ChargeSucceeds, ChargeFails, ChargeReversed

\* A webhook is answered when it was logged before, or has been applied now.
LEMMA Answers ==
  ASSUME TypeInv, RequestInv, OutcomeInv, LoggedInv, Next, NEW w \in acked', w \notin acked
  PROVE  w.pay \in Payments /\ (w.status = "success" => Recorded(w.pay))
  <1>3. PICK h \in Handlers : SkipLogged(h) \/ Notify(h)
    BY Answerers
  <1>4. Return(h) /\ pc[h] \in {"check", "notify"}
    BY <1>3 DEF SkipLogged, Notify
  <1>5. op[h].kind = "webhook" /\ w \in webhooks /\ w.pay = op[h].pay /\ w.status = op[h].reply
    BY <1>4 DEF Return
  <1>6. w.pay \in Payments /\ RequestHolds(h) /\ OutcomeHolds(h)
    BY <1>4, <1>5 DEF TypeInv, TypeOK, Webhook, RequestInv, OutcomeInv
  <1>7. CASE SkipLogged(h)
    BY <1>5, <1>6, <1>7 DEF SkipLogged, RequestHolds, LoggedInv
  <1>8. CASE Notify(h)
    BY <1>5, <1>6, <1>8 DEF Notify, OutcomeHolds, Reporters, Recorded
  <1> QED
    BY <1>3, <1>6, <1>7, <1>8

\* AckedInv is kept too.
LEMMA AckedStep ==
  ASSUME TypeInv, RequestInv, OutcomeInv, LoggedInv, AckedInv, [Next]_vars
  PROVE  AckedInv'
  <1>1. CASE Next
    <2>1. SUFFICES ASSUME NEW w \in acked', w.status = "success"
                   PROVE  Recorded(w.pay)'
      BY DEF AckedInv
    <2>2. w.pay \in Payments /\ Recorded(w.pay)
      <3>1. CASE w \in acked
        BY <2>1, <3>1 DEF AckedInv, TypeInv, TypeOK, Webhook
      <3>2. CASE w \notin acked
        BY <1>1, <2>1, <3>2, Answers
      <3> QED
        BY <3>1, <3>2
    <2> QED
      BY <1>1, <2>2, HistoryGrows DEF Recorded, Statuses
  <1>2. CASE UNCHANGED vars
    BY <1>2 DEF vars, AckedInv, Recorded
  <1> QED
    BY <1>1, <1>2

\* The confirmation of p is in the log, or a handler that is to log it is past its
\* update.
Confirming(h) ==
    op[h].kind \in Admins /\ AdminEvent(upd[h].status, upd[h].method) = "confirmed"

Audited(p) ==
    \/ <<p, <<"admin", "confirmed">>>> \in logs
    \/ \E h \in Handlers : pc[h] \in {"emit", "adminlog"} /\ op[h].pay = p /\ Confirming(h)

\* As long as no handler was cut short, a confirmed row is audited and an update
\* that confirms one will be.
AuditInv ==
    faults = 0 =>
        /\ \A p \in Payments : payments[p].confirmed => Audited(p)
        /\ \A h \in Handlers : pc[h] = "write" /\ upd[h].confirmed =>
              Confirming(h) \/ Audited(op[h].pay)

\* Nothing undoes a fault.
LEMMA FaultsStay ==
  ASSUME TypeInv, Next, faults' = 0
  PROVE  faults = 0
  <1>1. ASSUME NEW h \in Handlers, Step(h)
        PROVE  UNCHANGED faults
    BY <1>1
    DEF Step, InitializeOk, InitializeFails, LogInitFailure, VerifyReplies, VerifyFails, WriteStatus,
        SkipLogged, RejectBelowLimit, AcceptOutcome, ReadForUpdate, RefuseUpdate, EmitEvent,
        SaveAdminLog, SaveOutcomeLog, OutcomeLogConflict, Notify, FinishSubmit, bounds
  <1>2. ASSUME NEW h \in Handlers, Request(h)
        PROVE  UNCHANGED faults
    BY <1>2 DEF Request, ReceiveWebhook, StartVerify, AdminRequest, SubmitOnline, CreateOffline, bounds
  <1>3. ASSUME NEW h \in Handlers, Fault(h)
        PROVE  FALSE
    BY <1>3 DEF Fault, TypeInv, TypeOK
  <1> QED
    BY <1>1, <1>2, <1>3
    DEF Next, CreatePayment, bounds, Provider, ChargeSucceeds, ChargeFails, ChargeReversed

\* Without a fault, the audit of a payment stays or is carried out.
LEMMA AuditStays ==
  ASSUME TypeInv, Next, faults' = 0, NEW p \in Payments, Audited(p)
  PROVE  Audited(p)'
  <1>1. CASE <<p, <<"admin", "confirmed">>>> \in logs
    BY <1>1, LogGrows DEF Audited
  <1>2. ASSUME NEW h \in Handlers, pc[h] \in {"emit", "adminlog"}, op[h].pay = p, Confirming(h)
        PROVE  Audited(p)'
    <2>1. CASE pc'[h] = pc[h] /\ op'[h] = op[h] /\ upd'[h] = upd[h]
      BY <1>2, <2>1 DEF Audited, Confirming
    <2>2. ~Fault(h)
      BY DEF Fault, TypeInv, TypeOK
    <2>3. CASE Step(h) /\ pc[h] = "emit"
      <3>1. EmitEvent(h)
        BY <2>3
        DEF Step, InitializeOk, InitializeFails, LogInitFailure, VerifyReplies, VerifyFails, WriteStatus,
            SkipLogged, RejectBelowLimit, AcceptOutcome, ReadForUpdate, RefuseUpdate,
            SaveAdminLog, SaveOutcomeLog, OutcomeLogConflict, Notify, FinishSubmit
      <3>a. AfterEmit(op[h]) = "adminlog"
        BY <1>2 DEF Confirming, Admins, Sources, AfterEmit
      <3>2. pc'[h] = "adminlog" /\ op'[h] = op[h] /\ upd'[h] = upd[h]
        BY <3>1, <3>a DEF EmitEvent, Goto, TypeInv, TypeOK
      <3> QED
        BY <1>2, <3>2 DEF Audited, Confirming
    <2>4. CASE Step(h) /\ pc[h] = "adminlog"
      <3>1. SaveAdminLog(h)
        BY <2>4
        DEF Step, InitializeOk, InitializeFails, LogInitFailure, VerifyReplies, VerifyFails, WriteStatus,
            SkipLogged, RejectBelowLimit, AcceptOutcome, ReadForUpdate, RefuseUpdate, EmitEvent,
            SaveOutcomeLog, OutcomeLogConflict, Notify, FinishSubmit
      <3> QED
        BY <1>2, <3>1 DEF SaveAdminLog, Confirming, Audited
    <2>5. ~Request(h)
      BY <1>2, RequestOfOne
    <2> QED
      BY <1>2, <2>1, <2>2, <2>3, <2>4, <2>5, StepOfOne, RequestOfOne, OthersIdle DEF Next
  <1> QED
    BY <1>1, <1>2 DEF Audited

\* AuditInv holds initially,
LEMMA AuditInit == Init => AuditInv
  BY DEF Init, AuditInv, NoRow

\* and every step keeps it.
LEMMA AuditStep ==
  TypeInv /\ RequestInv /\ AuditInv /\ [Next]_vars => AuditInv'
  <1> SUFFICES ASSUME TypeInv, RequestInv, AuditInv, [Next]_vars, faults' = 0
               PROVE  /\ \A p \in Payments : payments'[p].confirmed => Audited(p)'
                      /\ \A h \in Handlers : pc'[h] = "write" /\ upd'[h].confirmed =>
                            Confirming(h)' \/ (Audited(op[h].pay))'
    BY DEF AuditInv
  <1>1. CASE Next
    <2>0. faults = 0
      BY <1>1, FaultsStay
    <2>1. ASSUME NEW p \in Payments, payments'[p].confirmed
          PROVE  Audited(p)'
      <3>1. ASSUME NEW q \in Payments, NEW a \in Amounts, NEW t \in Amounts, NEW m \in Methods,
                   MayCreate(q, a, t, m), Insert(q, a, t, m)
            PROVE  payments'[p] = payments[p]
        BY <2>1, <3>1 DEF Insert, TypeInv, TypeOK, NoRow
      <3>2. CASE payments'[p].confirmed = payments[p].confirmed
        BY <1>1, <2>0, <2>1, <3>2, AuditStays DEF AuditInv
      <3>3. ASSUME NEW h \in Handlers, WriteStatus(h), payments'[p].confirmed # payments[p].confirmed
            PROVE  Audited(p)'
        <4>1. p = op[h].pay /\ pc[h] = "write"
          BY <3>3, WriteEffect
        <4>2. upd[h].confirmed
          <5>1. payments[p] \in Row /\ DOMAIN payments = Payments
            BY DEF TypeInv, TypeOK
          <5>2. payments'[p] = [payments[p] EXCEPT !.status = upd[h].status, !.paid = upd[h].paid,
                                   !.due = upd[h].due, !.method = upd[h].method,
                                   !.confirmed = upd[h].confirmed]
            BY <3>3, <4>1, <5>1 DEF WriteStatus
          <5>3. payments'[p].confirmed = upd[h].confirmed
            BY <5>1, <5>2 DEF Row
          <5> QED
            BY <2>1, <5>3
        <4>3. CASE Confirming(h)
          <5>a. h \in DOMAIN pc
            BY DEF TypeInv, TypeOK
          <5>1. op' = op /\ upd' = upd /\ pc'[h] \in {"emit", "adminlog"}
            <6>1. op' = op /\ upd' = upd /\ pc'[h] = IF Announces(upd[h]) THEN "emit" ELSE AfterEmit(op[h])
              BY <3>3, <5>a, WriteHistory
            <6>2. AfterEmit(op[h]) = "adminlog"
              BY <4>3 DEF Confirming, Admins, AfterEmit, Sources
            <6> QED
              BY <6>1, <6>2
          <5> QED
            BY <4>1, <4>3, <5>1 DEF Audited, Confirming
        <4>4. CASE Audited(p)
          BY <1>1, <4>4, AuditStays
        <4> QED
          BY <2>0, <4>1, <4>2, <4>3, <4>4 DEF AuditInv
      <3> QED
        BY <1>1, <3>1, <3>2, <3>3, Writers
    <2>2. ASSUME NEW h \in Handlers, pc'[h] = "write", upd'[h].confirmed
          PROVE  Confirming(h)' \/ (Audited(op[h].pay))'
      <3>a. op[h].pay \in Payments
        BY DEF TypeInv, TypeOK, Op
      <3>b. PICK p \in Payments : p = op[h].pay
        BY <3>a
      <3>1. CASE pc'[h] = pc[h] /\ op'[h] = op[h] /\ upd'[h] = upd[h]
        <4>1. Confirming(h) \/ Audited(p)
          BY <2>0, <2>2, <3>b, <3>1 DEF AuditInv
        <4>2. Confirming(h) => Confirming(h)'
          BY <3>1 DEF Confirming
        <4>3. Audited(p) => Audited(p)'
          BY <1>1, AuditStays
        <4> QED
          BY <3>b, <3>1, <4>1, <4>2, <4>3 DEF Audited
      <3>2. CASE Step(h)
        <4>1. ReadForUpdate(h)
          BY <2>2, <3>2, StepEffect DEF AfterEmit
        <4>2. /\ op' = op /\ payments[p] \in Row
              /\ upd'[h].method = NextMethod(op[h], payments[p])
              /\ Confirms(payments[p], op[h], upd'[h].status)
          BY <2>2, <3>b, <4>1, ReadEffect
        <4>3. CASE payments[p].confirmed
          <5>1. Audited(p)'
            BY <1>1, <2>0, <4>3, AuditStays DEF AuditInv
          <5> QED
            BY <3>b, <4>2, <5>1 DEF Audited
        <4>4. CASE /\ op[h].kind \in Admins /\ Settled(upd'[h].status)
                   /\ NextMethod(op[h], payments[p]) = "OFFLINE"
          BY <4>2, <4>4 DEF Confirming, AdminEvent, Settled
        <4> QED
          BY <4>2, <4>3, <4>4 DEF Confirms, Admins, NextMethod
      <3>3. ~Request(h)
        BY <2>2, RequestOfOne
      <3> QED
        BY <1>1, <2>2, <3>1, <3>2, <3>3, HandlerMoves
    <2> QED
      BY <2>1, <2>2
  <1>2. CASE UNCHANGED vars
    BY <1>2 DEF vars, AuditInv, Audited, Confirming
  <1> QED
    BY <1>1, <1>2

\* Audited rows are what ConfirmedIsAudited asks for.
LEMMA AuditImplies == AuditInv => ConfirmedIsAudited
  BY DEF AuditInv, ConfirmedIsAudited, Audited

\* Recorded charges are what AckedSuccessIsApplied asks for.
LEMMA AckedImplies == TypeInv /\ AckedInv => AckedSuccessIsApplied
  <1> SUFFICES ASSUME TypeInv, AckedInv, NEW w \in acked, w.status = "success"
               PROVE  transitions[w.pay]["PAID"] + transitions[w.pay]["PARTIAL"] > 0
    BY DEF AckedSuccessIsApplied
  <1>1. w.pay \in Payments /\ Recorded(w.pay)
    BY DEF TypeInv, TypeOK, Webhook, AckedInv
  <1>2. transitions[w.pay]["PAID"] \in Nat /\ transitions[w.pay]["PARTIAL"] \in Nat
    BY <1>1 DEF TypeInv, TypeOK, Statuses
  <1> QED
    BY <1>1, <1>2 DEF Recorded

\* A row that says it was confirmed has, or is about to get, the confirmation in its
\* audit trail.
THEOREM ConfirmationsAudited == Spec => []ConfirmedIsAudited
  BY TypeInit, TypeStep, PaystackInit, PaystackStep, RequestInit, RequestStep, AuditInit, AuditStep,
     AuditImplies, PTL DEF Spec

\* Every success Paystack was told 200 for has settled the row at some time, and
\* every confirmation is audited, when Paystack's messages have ids of their own or
\* report nothing but success.
THEOREM AnswersKept ==
  ASSUME EnvelopeIds \/ ~ReportsFailures
  PROVE  Spec => []AnswersAreKept
  <1>1. Init => LoggedInv /\ AckedInv
    BY DEF Init, LoggedInv, AckedInv
  <1>2. TypeInv /\ RequestInv /\ OutcomeInv /\ LoggedInv /\ [Next]_vars => LoggedInv'
    BY LoggedStep
  <1>3. TypeInv /\ RequestInv /\ OutcomeInv /\ LoggedInv /\ AckedInv /\ [Next]_vars => AckedInv'
    BY AckedStep
  <1>4. TypeInv /\ AckedInv /\ AuditInv => AnswersAreKept
    BY AuditImplies, AckedImplies DEF AnswersAreKept
  <1> QED
    BY <1>1, <1>2, <1>3, <1>4, TypeInit, TypeStep, HistoryInit, HistoryStep, PaystackInit, PaystackStep,
       RequestInit, RequestStep, OutcomeInit, OutcomeStep, AuditInit, AuditStep, PTL DEF Spec

-----------------------------------------------------------------------------
(* What overlapping requests cost. *)

\* What a request read is still so until it writes, unless another one wrote the row
\* in between; and a report in full settles the row.
FreshHolds(h) ==
    /\ pc[h] = "write" /\ h \notin overtaken =>
          /\ upd[h].was = payments[op[h].pay].status
          /\ ~Settled(upd[h].status) => upd[h].paid = payments[op[h].pay].paid
    /\ op[h].kind \in Reporters =>
          /\ pc[h] \in {"verify", "check", "read", "write"} /\ h \notin overtaken =>
                op[h].seen = payments[op[h].pay].status
          /\ pc[h] \in {"read", "write", "emit", "log", "notify"} =>
                (op[h].said = "PAID" <=> op[h].reply = "success")
          /\ pc[h] = "write" /\ op[h].reply = "success" /\ Charged(op[h].pay, payments[op[h].pay].total) =>
                upd[h].status = "PAID"

FreshInv == \A h \in Handlers : FreshHolds(h)

\* The handlers that are about to publish the change of p to s,
Publishers(p, s) == {h \in Handlers : pc[h] = "emit" /\ op[h].pay = p /\ upd[h].status = s}

\* and those that are about to mail the customer.
Mailers(p) ==
    {h \in Handlers : pc[h] \in {"emit", "log", "notify"} /\ op[h].pay = p
                        /\ op[h].kind \in Reporters /\ MailsConfirmation(op[h])}

\* What was announced, and is about to be, is what history has, up to the writes of
\* overtaken handlers.
CountInv ==
    \A p \in Payments :
        /\ \A s \in Announced :
              LET n == emitted[p][s] + Cardinality(Publishers(p, s))
              IN  n <= transitions[p][s] + raced[p] /\ (faults = 0 => transitions[p][s] <= n + raced[p])
        /\ ~Paid(p) => mails[p] = 0
        /\ Charged(p, payments[p].total) =>
              mails[p] + Cardinality(Mailers(p)) <= transitions[p]["PAID"] + raced[p]

\* A payment that Paystack charged in full, of which it reported nothing else, and that
\* no overtaken handler wrote.
Undisputed(p) ==
    /\ txn[p].status = "success" /\ Charged(p, payments[p].total) /\ p \notin byAdmin
    /\ \A v \in webhooks : v.pay = p => v.status = "success"
    /\ raced[p] = 0

\* A report of the charge of p that was written.
Landing(h, p) ==
    /\ pc[h] \in {"emit", "log", "notify"} /\ op[h].pay = p
    /\ op[h].kind \in Reporters /\ op[h].reply = "success"

\* A report that knows of something else than the charge of p.
Disagrees(h, p) ==
    /\ pc[h] \in {"check", "read", "write"} /\ op[h].pay = p
    /\ op[h].kind \in Reporters /\ op[h].reply # "success"

Submitting(h) == pc[h] # "idle" /\ op[h].kind = "submit"

\* Once a report of such a payment is written the row stays PAID, and those that know
\* of something else are overtaken; what was answered was logged.
LandedInv ==
    /\ \A p \in Payments :
          Undisputed(p) /\ (<<p, WebhookId("success")>> \in logs \/ \E h \in Handlers : Landing(h, p)) =>
             /\ payments[p].status = "PAID"
             /\ \A h \in Handlers : Disagrees(h, p) => h \in overtaken
    /\ \A w \in acked : <<w.pay, WebhookId(w.status)>> \in logs
    /\ \A p \in Payments : <<p, WebhookId("success")>> \in logs =>
          \E v \in webhooks : v.pay = p /\ WebhookId(v.status) = WebhookId("success")
    /\ \A h \in Handlers : pc[h] # "idle" /\ op[h].kind = "webhook" =>
          \E v \in webhooks : v.pay = op[h].pay /\ v.status = op[h].reply
    /\ \A h \in Handlers : pc[h] = "notify" => <<op[h].pay, op[h].id>> \in logs
    /\ \A h \in Handlers : Submitting(h) => txn[op[h].pay].status = "none"
    /\ \A g, h \in Handlers : Submitting(g) /\ Submitting(h) /\ op[g].pay = op[h].pay => g = h

\* What a write says of the races.
LEMMA RaceEffect ==
  ASSUME TypeInv, NEW h \in Handlers, WriteStatus(h)
  PROVE  /\ \A q \in Payments : raced'[q] = IF q = op[h].pay /\ h \in overtaken THEN raced[q] + 1 ELSE raced[q]
         /\ \A g \in Handlers \ {h} : g \in overtaken' <=> g \in overtaken \/ Holds(g, op[h].pay)
         /\ h \notin overtaken'
  BY DEF WriteStatus, TypeInv, TypeOK

\* Only a write adds to them.
LEMMA RaceWriters ==
  ASSUME Next
  PROVE  (\E h \in Handlers : WriteStatus(h)) \/ UNCHANGED raced
  <1>1. ASSUME NEW h \in Handlers, Step(h)
        PROVE  WriteStatus(h) \/ UNCHANGED raced
    BY <1>1
    DEF Step, InitializeOk, InitializeFails, LogInitFailure, VerifyReplies, VerifyFails,
        SkipLogged, RejectBelowLimit, AcceptOutcome, ReadForUpdate, RefuseUpdate, EmitEvent,
        SaveAdminLog, SaveOutcomeLog, OutcomeLogConflict, Notify, FinishSubmit, hist
  <1>2. ASSUME NEW h \in Handlers, Request(h)
        PROVE  UNCHANGED raced
    BY <1>2 DEF Request, ReceiveWebhook, StartVerify, AdminRequest, SubmitOnline, CreateOffline, hist
  <1>3. ASSUME NEW h \in Handlers, Fault(h)
        PROVE  UNCHANGED raced
    BY <1>3 DEF Fault, hist
  <1> QED
    BY <1>1, <1>2, <1>3
    DEF Next, CreatePayment, hist, Provider, ChargeSucceeds, ChargeFails, ChargeReversed

\* A race is never undone.
LEMMA RacesStay ==
  ASSUME TypeInv, Next, NEW p \in Payments
  PROVE  raced[p] \in Nat /\ raced'[p] \in Nat /\ raced[p] <= raced'[p]
  <1>1. raced[p] \in Nat
    BY DEF TypeInv, TypeOK
  <1> QED
    BY <1>1, RaceWriters, RaceEffect

\* A handler that was overtaken stays so until it writes, reads the row afresh or ends.
LEMMA OvertakenStays ==
  ASSUME TypeInv, Next, NEW h \in Handlers, h \in overtaken, pc'[h] # "idle",
         ~WriteStatus(h), ~(ReadForUpdate(h) /\ op[h].kind \notin Reporters)
  PROVE  h \in overtaken'
  <1>a. pc \in [Handlers -> PcValues]
    BY DEF TypeInv, TypeOK
  <1>1. ASSUME NEW g \in Handlers, End(g)
        PROVE  h \in overtaken'
    BY <1>1, <1>a DEF End
  <1>2. ASSUME NEW g \in Handlers, Step(g)
        PROVE  h \in overtaken'
    <2>1. CASE WriteStatus(g)
      BY <2>1, RaceEffect
    <2>2. CASE ReadForUpdate(g)
      BY <2>2 DEF ReadForUpdate
    <2>3. CASE \/ InitializeOk(g) \/ VerifyFails(g) \/ SkipLogged(g) \/ RejectBelowLimit(g)
               \/ RefuseUpdate(g) \/ SaveAdminLog(g) \/ OutcomeLogConflict(g)
               \/ Notify(g) \/ FinishSubmit(g)
      BY <1>1, <2>3 DEF InitializeOk, VerifyFails, SkipLogged, RejectBelowLimit,
         RefuseUpdate, SaveAdminLog, OutcomeLogConflict, Notify, FinishSubmit, Return
    <2>4. CASE InitializeFails(g) \/ VerifyReplies(g) \/ AcceptOutcome(g) \/ EmitEvent(g) \/ SaveOutcomeLog(g)
      BY <2>4 DEF InitializeFails, VerifyReplies, AcceptOutcome, EmitEvent, SaveOutcomeLog
    <2>5. CASE LogInitFailure(g)
      BY <1>1, <2>5 DEF LogInitFailure
    <2> QED
      BY <1>2, <2>1, <2>2, <2>3, <2>4, <2>5 DEF Step
  <1>3. ASSUME NEW g \in Handlers, Request(g)
        PROVE  h \in overtaken'
    BY <1>3 DEF Request, ReceiveWebhook, StartVerify, AdminRequest, SubmitOnline, CreateOffline
  <1>4. ASSUME NEW g \in Handlers, Fault(g)
        PROVE  h \in overtaken'
    BY <1>1, <1>4 DEF Fault
  <1> QED
    BY <1>2, <1>3, <1>4 DEF Next, CreatePayment, Provider, ChargeSucceeds, ChargeFails, ChargeReversed

\* What a request keeps of what it read and heard.
LEMMA SightEffect ==
  ASSUME TypeInv, NEW h \in Handlers, Step(h), pc'[h] # "idle", pc[h] # "init"
  PROVE  /\ op'[h].seen = op[h].seen
         /\ op'[h].said = IF pc[h] = "check" THEN MapPaystackStatus(op[h].reply) ELSE op[h].said
         /\ op'[h].reply = op[h].reply \/ pc[h] = "verify"
  <1>1. pc \in [Handlers -> PcValues] /\ op \in [Handlers -> Op] /\ op[h] \in Op
    BY DEF TypeInv, TypeOK
  <1>2. ~(\/ InitializeOk(h) \/ VerifyFails(h) \/ SkipLogged(h) \/ RejectBelowLimit(h)
          \/ RefuseUpdate(h) \/ SaveAdminLog(h) \/ OutcomeLogConflict(h)
          \/ Notify(h) \/ FinishSubmit(h))
    BY <1>1 DEF InitializeOk, VerifyFails, SkipLogged, RejectBelowLimit, RefuseUpdate,
                SaveAdminLog, OutcomeLogConflict, Notify, FinishSubmit, End, Return
  <1>3. CASE VerifyReplies(h)
    BY <1>1, <1>3 DEF VerifyReplies, Op
  <1>4. CASE AcceptOutcome(h)
    BY <1>1, <1>4 DEF AcceptOutcome, Op
  <1>5. ~InitializeFails(h)
    BY DEF InitializeFails
  <1>6. CASE LogInitFailure(h)
    BY <1>1, <1>6 DEF LogInitFailure, End
  <1> QED
    BY <1>2, <1>3, <1>4, <1>5, <1>6
    DEF Step, ReadForUpdate, WriteStatus, EmitEvent, SaveOutcomeLog

\* What a new request about a charge reads of the row.
LEMMA RequestSight ==
  ASSUME TypeInv, NEW h \in Handlers, Request(h), pc'[h] \in {"check", "verify"}
  PROVE  op'[h].seen = payments[op'[h].pay].status /\ payments' = payments
  <1> USE DEF Begin, TypeInv, TypeOK, NoOp, db
  <1>1. CASE \E w \in webhooks : ReceiveWebhook(h, w)
    BY <1>1 DEF ReceiveWebhook
  <1>2. CASE \E p \in Payments, s \in Verifiers : StartVerify(h, p, s)
    BY <1>2 DEF StartVerify
  <1>3. ~\E p \in Payments, d \in AdminUpdates, k \in {"admin", "review"} : AdminRequest(h, p, d, k)
    BY DEF AdminRequest
  <1>4. ~\E p \in Payments, a, t \in Amounts : SubmitOnline(h, p, a, t) \/ CreateOffline(h, p, a, t)
    BY DEF SubmitOnline, CreateOffline
  <1> QED
    BY <1>1, <1>2, <1>3, <1>4 DEF Request

\* The row a handler goes by stays as it is, unless the handler is overtaken.
LEMMA RowOfRequest ==
  ASSUME TypeInv, Next, NEW h \in Handlers, h \notin overtaken', ~WriteStatus(h),
         pc[h] \in {"verify", "check", "read", "write"}
  PROVE  payments'[op[h].pay] = payments[op[h].pay]
  <1>1. op[h].pay \in Payments /\ Exists(op[h].pay) /\ DOMAIN payments = Payments
    BY DEF TypeInv, TypeOK, Op
  <1>2. ASSUME NEW q \in Payments, NEW a \in Amounts, NEW t \in Amounts, NEW m \in Methods,
               MayCreate(q, a, t, m), Insert(q, a, t, m)
        PROVE  payments'[op[h].pay] = payments[op[h].pay]
    BY <1>1, <1>2 DEF MayCreate, Insert
  <1>3. ASSUME NEW g \in Handlers, WriteStatus(g)
        PROVE  payments'[op[h].pay] = payments[op[h].pay]
    <2>1. ~Holds(h, op[g].pay)
      BY <1>3, RaceEffect
    <2> QED
      BY <1>1, <1>3, <2>1, WriteEffect DEF Holds
  <1> QED
    BY <1>2, <1>3, Writers

\* FreshInv holds initially,
LEMMA FreshInit == Init => FreshInv
  BY DEF Init, FreshInv, FreshHolds, NoOp, Reporters, Sources

\* and every step keeps it.
LEMMA FreshStep ==
  ASSUME TypeInv, HistoryInv, PaystackInv, RequestInv, OutcomeInv, FreshInv, [Next]_vars
  PROVE  FreshInv'
  <1> SUFFICES ASSUME NEW h \in Handlers
               PROVE  FreshHolds(h)'
    BY DEF FreshInv
  <1>1. CASE Next
    <2>a. op[h].pay \in Payments /\ op[h] \in Op
      BY DEF TypeInv, TypeOK, Op
    <2>b. PICK p \in Payments : p = op[h].pay
      BY <2>a
    <2>1. /\ FreshHolds(h) /\ OutcomeHolds(h) /\ op[h].pay = p /\ (pc[h] # "idle" => Exists(p) /\ RequestHolds(h))
          /\ payments[p] \in Row
      BY <2>b DEF FreshInv, OutcomeInv, TypeInv, TypeOK, RequestInv
    <2>3. pc[h] # "idle" => payments'[p].total = payments[p].total
      BY <1>1, <2>1, TotalsStay
    <2>4. Paid(p) => (Charged(p, payments[p].total)' /\ pc[h] # "idle" => Charged(p, payments[p].total))
      BY <1>1, <2>3, ChargesStay DEF Paid, Charged
    <2>5. CASE pc'[h] = "idle"
      BY <2>5 DEF FreshHolds
    <2>6. CASE pc'[h] = pc[h] /\ op'[h] = op[h] /\ upd'[h] = upd[h] /\ pc[h] # "idle"
      <3>1. ~WriteStatus(h) /\ ~ReadForUpdate(h)
        <4>1. (WriteStatus(h) => Step(h)) /\ (ReadForUpdate(h) => Step(h))
          BY DEF Step
        <4> QED
          BY <2>6, <4>1, StepEffect DEF AfterEmit
      <3>2. op[h].kind \in Reporters /\ op[h].reply = "success" /\ pc[h] # "verify" => Paid(p)
        BY <2>1, <2>6 DEF OutcomeHolds
      <3>3. ASSUME h \notin overtaken', pc[h] \in {"verify", "check", "read", "write"}
            PROVE  h \notin overtaken /\ payments'[p] = payments[p]
        BY <1>1, <2>1, <2>6, <3>1, <3>3, OvertakenStays, RowOfRequest
      <3>4. /\ pc'[h] = "write" /\ h \notin overtaken' =>
                  /\ upd'[h].was = payments'[p].status
                  /\ ~Settled(upd'[h].status) => upd'[h].paid = payments'[p].paid
            /\ op'[h].kind \in Reporters /\ pc'[h] \in {"verify", "check", "read", "write"} /\ h \notin overtaken' =>
                  op'[h].seen = payments'[p].status
        BY <2>1, <2>6, <3>3 DEF FreshHolds
      <3>5. op'[h].kind \in Reporters =>
              /\ pc'[h] \in {"read", "write", "emit", "log", "notify"} =>
                    (op'[h].said = "PAID" <=> op'[h].reply = "success")
              /\ pc'[h] = "write" /\ op'[h].reply = "success" /\ Charged(p, payments[p].total)' =>
                    upd'[h].status = "PAID"
        BY <2>1, <2>4, <2>6, <3>2 DEF FreshHolds
      <3> QED
        BY <2>1, <2>6, <3>4, <3>5 DEF FreshHolds, Charged
    <2>7. CASE Step(h) /\ pc'[h] # "idle"
      <3>1. /\ op'[h].kind = op[h].kind /\ op'[h].pay = p /\ pc[h] # "idle"
            /\ OutcomeHolds(h)'
        BY <1>1, <2>1, <2>7, StepEffect, StepOfOne, OutcomeOfStep
      <3>2. op'[h].kind \in Reporters /\ pc'[h] # "verify" /\ op'[h].reply = "success" => Paid(p)'
        BY <2>7, <3>1 DEF OutcomeHolds, Paid
      <3>3. CASE pc[h] = "read"
        <4>1. ReadForUpdate(h) /\ op'[h] = op[h] /\ pc'[h] = "write" /\ payments' = payments /\ txn' = txn
          BY <2>7, <3>3, StepEffect, ReadEffect
        <4>2. /\ upd'[h].status = ResolveTracked(payments[p], op[h].want, op[h].amt).status
              /\ upd'[h].paid = ResolveTracked(payments[p], op[h].want, op[h].amt).paid
              /\ upd'[h].was = payments[p].status
          BY <2>1, <4>1 DEF ReadForUpdate, TypeInv, TypeOK
        <4>3. op[h].want \in Statuses /\ op[h].amt \in Nat \cup {NoAmount}
          BY <2>a DEF Op
        <4>4. ~Settled(upd'[h].status) => upd'[h].paid = payments[p].paid
          BY <2>1, <4>2, <4>3 DEF ResolveTracked, Settled, Statuses
        <4>5. op[h].kind \in Reporters /\ op[h].reply = "success" /\ Charged(p, payments[p].total)
                => upd'[h].status = "PAID"
          <5>1. SUFFICES ASSUME op[h].kind \in Reporters, op[h].reply = "success", Charged(p, payments[p].total)
                         PROVE  upd'[h].status = "PAID"
            OBVIOUS
          <5>2. Settled(op[h].want) /\ Paid(p) /\ op[h].amt = txn[p].amount
            BY <2>1, <3>3, <5>1 DEF OutcomeHolds
          <5>3. op[h].amt > 0 /\ op[h].amt >= payments[p].total
            BY <5>1, <5>2 DEF PaystackInv, Charged
          <5> QED
            BY <2>1, <4>2, <4>3, <5>2, <5>3 DEF ResolveTracked, Settled, Clamp, NoAmount, Row
        <4>6. op[h].kind \in Reporters => (h \notin overtaken' => op'[h].seen = payments[p].status)
                                       /\ (op[h].said = "PAID" <=> op[h].reply = "success")
          <5>1. op[h].kind \in Reporters => overtaken' = overtaken
            BY <4>1 DEF ReadForUpdate
          <5> QED
            BY <2>1, <3>3, <4>1, <5>1 DEF FreshHolds
        <4> QED
          BY <2>1, <3>1, <4>1, <4>2, <4>4, <4>5, <4>6 DEF FreshHolds, Charged
      <3>4. CASE pc[h] = "write"
        <4>1. WriteStatus(h) /\ op'[h] = op[h] /\ pc'[h] \in {"emit", "log", "adminlog", "done"}
          BY <2>7, <3>4, StepEffect DEF AfterEmit
        <4> QED
          BY <2>1, <3>4, <4>1 DEF FreshHolds
      <3>5. CASE pc[h] \notin {"read", "write"}
        <4>1. ~WriteStatus(h) /\ ~ReadForUpdate(h) /\ pc'[h] # "write"
          BY <2>7, <3>5, StepEffect DEF WriteStatus, ReadForUpdate, AfterEmit
        <4>3. CASE op[h].kind \notin Reporters
          BY <3>1, <4>1, <4>3 DEF FreshHolds
        <4>4. CASE op[h].kind \in Reporters
          <5>1. pc[h] \notin {"init", "mif"}
            BY <2>1, <3>1, <4>4 DEF RequestHolds, Reporters, Sources
          <5>2. /\ op'[h].seen = op[h].seen /\ (op'[h].reply = op[h].reply \/ pc[h] = "verify")
                /\ op'[h].said = IF pc[h] = "check" THEN MapPaystackStatus(op[h].reply) ELSE op[h].said
            BY <2>7, <5>1, SightEffect
          <5>a. h \notin overtaken' /\ pc[h] \in {"verify", "check"} =>
                  h \notin overtaken /\ payments'[p] = payments[p]
            BY <1>1, <2>1, <2>7, <4>1, OvertakenStays, RowOfRequest
          <5>3. CASE pc[h] = "verify"
            <6>1. pc'[h] = "check"
              BY <2>7, <5>3, StepEffect
            <6> QED
              BY <2>1, <3>1, <5>2, <5>3, <5>a, <6>1 DEF FreshHolds
          <5>4. CASE pc[h] = "check"
            <6>1. pc'[h] = "read"
              BY <2>7, <5>4, StepEffect
            <6>2. MapPaystackStatus(op[h].reply) = "PAID" <=> op[h].reply = "success"
              BY <2>a DEF MapPaystackStatus, Op, Replies
            <6> QED
              BY <2>1, <3>1, <5>2, <5>4, <5>a, <6>1, <6>2 DEF FreshHolds
          <5>5. CASE pc[h] \in {"emit", "log"}
            <6>1. op'[h] = op[h] /\ pc'[h] \in {"log", "notify", "adminlog", "done"}
              BY <2>7, <5>5, StepEffect DEF AfterEmit
            <6> QED
              BY <2>1, <3>1, <5>5, <6>1 DEF FreshHolds
          <5> QED
            BY <2>7, <3>5, <5>1, <5>3, <5>4, <5>5, StepEffect
        <4> QED
          BY <4>3, <4>4
      <3> QED
        BY <3>3, <3>4, <3>5
    <2>8. CASE Request(h) /\ pc'[h] # "idle"
      <3>1. CASE pc'[h] \in {"check", "verify"}
        BY <2>8, <3>1, RequestSight DEF FreshHolds
      <3>2. CASE pc'[h] \notin {"check", "verify"}
        <4>1. op'[h].kind \notin Reporters /\ pc'[h] # "write"
          BY <2>8, <3>2, RequestEffect DEF Admins, Reporters, Sources
        <4> QED
          BY <4>1 DEF FreshHolds
      <3> QED
        BY <3>1, <3>2
    <2> QED
      BY <1>1, <2>5, <2>6, <2>7, <2>8, HandlerMoves
  <1>2. CASE UNCHANGED vars
    BY <1>2 DEF vars, FreshInv, FreshHolds, Charged
  <1> QED
    BY <1>1, <1>2

\* Marking a payment FAILED or PENDING keeps what it says was paid, unless the handler
\* was overtaken.
LEMMA MoneyStep ==
  ASSUME TypeInv, FreshInv, [Next]_vars, NEW p \in Payments, Exists(p),
         payments'[p].status \in {"FAILED", "PENDING"}
  PROVE  payments'[p].paid = payments[p].paid \/ raced'[p] > raced[p]
  <1>1. ASSUME NEW q \in Payments, NEW a \in Amounts, NEW t \in Amounts, NEW m \in Methods,
               MayCreate(q, a, t, m), Insert(q, a, t, m)
        PROVE  payments'[p] = payments[p]
    BY <1>1 DEF MayCreate, Insert, TypeInv, TypeOK
  <1>2. ASSUME NEW h \in Handlers, WriteStatus(h)
        PROVE  payments'[p].paid = payments[p].paid \/ raced'[p] > raced[p]
    <2>1. CASE p # op[h].pay
      BY <1>2, <2>1, WriteEffect
    <2>2. CASE p = op[h].pay /\ h \notin overtaken
      <3>1. pc[h] = "write" /\ payments'[p].status = upd[h].status /\ payments'[p].paid = upd[h].paid
        BY <1>2, <2>2, WriteEffect
      <3> QED
        BY <2>2, <3>1 DEF FreshInv, FreshHolds, Settled
    <2>3. CASE p = op[h].pay /\ h \in overtaken
      <3>1. raced[p] \in Nat /\ raced'[p] = raced[p] + 1
        BY <1>2, <2>3, RaceEffect DEF TypeInv, TypeOK
      <3> QED
        BY <3>1
    <2> QED
      BY <2>1, <2>2, <2>3
  <1> QED
    BY <1>1, <1>2, Writers DEF vars

\* Handlers are finitely many, and so are those about to tell something.
LEMMA Counting ==
  ASSUME NEW S \in SUBSET Handlers
  PROVE  /\ Cardinality(S) \in Nat
         /\ \A T \in SUBSET S : Cardinality(T) \in Nat /\ Cardinality(T) <= Cardinality(S)
         /\ \A h : h \in S => Cardinality(S \ {h}) = Cardinality(S) - 1
         /\ \A h : h \notin S => Cardinality(S \cup {h}) = Cardinality(S) + 1
  <1>1. IsFiniteSet(S)
    BY PaymentsAssumption, FS_Subset
  <1>2. Cardinality(S) \in Nat
    BY <1>1, FS_CardinalityType
  <1>3. ASSUME NEW T \in SUBSET S
        PROVE  Cardinality(T) \in Nat /\ Cardinality(T) <= Cardinality(S)
    BY <1>1, FS_Subset, FS_CardinalityType
  <1>4. ASSUME NEW h, h \in S
        PROVE  Cardinality(S \ {h}) = Cardinality(S) - 1
    BY <1>1, <1>4, FS_RemoveElement
  <1>5. ASSUME NEW h, h \notin S
        PROVE  Cardinality(S \cup {h}) = Cardinality(S) + 1
    BY <1>1, <1>5, FS_AddElement
  <1> QED
    BY <1>2, <1>3, <1>4, <1>5

\* A step that is no write brings no handler to a publication, and one that is no
\* publication and no fault takes none from there.
LEMMA PublishersStay ==
  ASSUME TypeInv, Next, NEW p \in Payments, NEW s \in Announced,
         ~\E h \in Handlers : WriteStatus(h) \/ EmitEvent(h)
  PROVE  /\ Publishers(p, s)' \subseteq Publishers(p, s)
         /\ faults' = 0 => Publishers(p, s)' = Publishers(p, s)
  <1>1. ASSUME NEW h \in Handlers, pc'[h] = "emit"
        PROVE  pc'[h] = pc[h] /\ op'[h] = op[h] /\ upd'[h] = upd[h]
    <2>1. ~Step(h)
      BY <1>1, OnlyWritesLeadToEmits
    <2>2. ~Request(h)
      BY <1>1, RequestOfOne
    <2> QED
      BY <1>1, <2>1, <2>2, HandlerMoves
  <1>2. ASSUME NEW h \in Handlers, pc[h] = "emit", faults' = 0
        PROVE  pc'[h] = pc[h] /\ op'[h] = op[h] /\ upd'[h] = upd[h]
    <2>1. ~Fault(h)
      BY <1>2 DEF Fault, TypeInv, TypeOK
    <2>2. ~Step(h)
      BY <1>2 DEF Step, InitializeOk, InitializeFails, LogInitFailure, VerifyReplies, VerifyFails,
         SkipLogged, RejectBelowLimit, AcceptOutcome, ReadForUpdate, RefuseUpdate,
         SaveAdminLog, SaveOutcomeLog, OutcomeLogConflict, Notify, FinishSubmit
    <2>3. ~Request(h)
      BY <1>2, RequestOfOne
    <2> QED
      BY <1>2, <2>1, <2>2, <2>3, StepOfOne, RequestOfOne, OthersIdle DEF Next
  <1> QED
    BY <1>1, <1>2 DEF Publishers

\* Every change of a status is announced once, up to the races.
LEMMA EventsStep ==
  ASSUME TypeInv, FreshInv, CountInv, Next, NEW p \in Payments, NEW s \in Announced
  PROVE  LET n == emitted[p][s] + Cardinality(Publishers(p, s))
         IN  (n <= transitions[p][s] + raced[p] /\ (faults = 0 => transitions[p][s] <= n + raced[p]))'
  <1> DEFINE P == Publishers(p, s)
  <1>0. P \in SUBSET Handlers /\ P' \in SUBSET Handlers
    BY DEF Publishers
  <1>1. /\ emitted[p][s] \in Nat /\ transitions[p][s] \in Nat /\ s \in Statuses
        /\ raced[p] \in Nat /\ raced'[p] \in Nat
        /\ Cardinality(P) \in Nat /\ Cardinality(P') \in Nat
        /\ emitted[p][s] + Cardinality(P) <= transitions[p][s] + raced[p]
        /\ faults = 0 => transitions[p][s] <= emitted[p][s] + Cardinality(P) + raced[p]
    BY <1>0, Counting, RacesStay DEF TypeInv, TypeOK, CountInv, Announced, Statuses
  <1>2. faults' = 0 => faults = 0
    BY FaultsStay
  <1> SUFFICES /\ emitted'[p][s] + Cardinality(P') <= transitions'[p][s] + raced'[p]
               /\ faults' = 0 => transitions'[p][s] <= emitted'[p][s] + Cardinality(P') + raced'[p]
    OBVIOUS
  <1>3. CASE UNCHANGED <<transitions, emitted>> /\ ~\E h \in Handlers : WriteStatus(h) \/ EmitEvent(h)
    <2>1. Cardinality(P') <= Cardinality(P) /\ (faults' = 0 => P' = P)
      BY <1>0, <1>3, PublishersStay, Counting
    <2>2. raced' = raced
      BY <1>3, RaceWriters
    <2> HIDE DEF P
    <2> QED
      BY <1>1, <1>2, <1>3, <2>1, <2>2
  <1>4. ASSUME NEW h \in Handlers, WriteStatus(h)
        PROVE  /\ emitted'[p][s] + Cardinality(P') <= transitions'[p][s] + raced'[p]
               /\ faults' = 0 => transitions'[p][s] <= emitted'[p][s] + Cardinality(P') + raced'[p]
    <2>1. pc[h] = "write" /\ h \notin P /\ op[h].pay \in Payments
      BY <1>4, WriteEffect DEF Publishers
    <2>2. emitted' = emitted
      BY <1>4 DEF WriteStatus
    <2>3. /\ op' = op /\ upd' = upd
          /\ pc' = [pc EXCEPT ![h] = IF Announces(upd[h]) THEN "emit" ELSE AfterEmit(op[h])]
          /\ pc \in [Handlers -> PcValues]
      BY <1>4, WriteHistory DEF TypeInv, TypeOK
    <2>4. P' = IF op[h].pay = p /\ upd[h].status = s /\ upd[h].was # s THEN P \cup {h} ELSE P
      <3>1. h \in P' <=> op[h].pay = p /\ upd[h].status = s /\ upd[h].was # s
        BY <2>3 DEF Publishers, Announces, AfterEmit
      <3>2. \A g \in Handlers \ {h} : g \in P' <=> g \in P
        BY <2>3 DEF Publishers
      <3> QED
        BY <1>0, <2>1, <3>1, <3>2
    <2>5. Cardinality(P') = IF op[h].pay = p /\ upd[h].status = s /\ upd[h].was # s
                            THEN Cardinality(P) + 1 ELSE Cardinality(P)
      BY <1>0, <2>1, <2>4, Counting
    <2>6. transitions'[p][s] = IF p = op[h].pay /\ s = upd[h].status /\ payments[p].status # s
                               THEN transitions[p][s] + 1 ELSE transitions[p][s]
      BY <1>1, <1>4, WriteHistory
    <2>7. raced'[p] = IF p = op[h].pay /\ h \in overtaken THEN raced[p] + 1 ELSE raced[p]
      BY <1>4, RaceEffect
    <2>8. h \notin overtaken => upd[h].was = payments[op[h].pay].status
      BY <2>1 DEF FreshInv, FreshHolds
    <2> HIDE DEF P
    <2>9. CASE op[h].pay # p \/ h \notin overtaken
      BY <1>1, <1>2, <2>2, <2>5, <2>6, <2>7, <2>8, <2>9
    <2>10. CASE op[h].pay = p /\ h \in overtaken
      BY <1>1, <1>2, <2>2, <2>5, <2>6, <2>7, <2>10
    <2> QED
      BY <2>9, <2>10
  <1>5. ASSUME NEW h \in Handlers, EmitEvent(h)
        PROVE  /\ emitted'[p][s] + Cardinality(P') <= transitions'[p][s] + raced'[p]
               /\ faults' = 0 => transitions'[p][s] <= emitted'[p][s] + Cardinality(P') + raced'[p]
    <2>1. /\ pc[h] = "emit" /\ transitions' = transitions /\ op' = op /\ upd' = upd /\ raced' = raced
          /\ pc' = [pc EXCEPT ![h] = AfterEmit(op[h])] /\ pc \in [Handlers -> PcValues]
      BY <1>5 DEF EmitEvent, Goto, TypeInv, TypeOK
    <2>2. P' = P \ {h}
      <3>1. AfterEmit(op[h]) # "emit"
        BY DEF AfterEmit
      <3> QED
        BY <2>1, <3>1 DEF Publishers
    <2>3. h \in P <=> op[h].pay = p /\ upd[h].status = s
      BY <2>1 DEF Publishers
    <2>4. emitted'[p][s] = IF op[h].pay = p /\ upd[h].status = s THEN emitted[p][s] + 1 ELSE emitted[p][s]
      BY <1>5 DEF EmitEvent, TypeInv, TypeOK
    <2>5. Cardinality(P') = IF h \in P THEN Cardinality(P) - 1 ELSE Cardinality(P)
      <3>1. h \notin P => P \ {h} = P
        OBVIOUS
      <3> QED
        BY <1>0, <2>2, <3>1, Counting
    <2> HIDE DEF P
    <2> QED
      BY <1>1, <1>2, <2>1, <2>3, <2>4, <2>5
  <1> QED
    BY <1>3, <1>4, <1>5, LedgerActions

\* Only a notification sends mails.
LEMMA MailWriters ==
  ASSUME Next
  PROVE  (\E h \in Handlers : Notify(h)) \/ UNCHANGED mails
  <1>1. ASSUME NEW h \in Handlers, Step(h)
        PROVE  Notify(h) \/ UNCHANGED mails
    BY <1>1
    DEF Step, InitializeOk, InitializeFails, LogInitFailure, VerifyReplies, VerifyFails, WriteStatus,
        SkipLogged, RejectBelowLimit, AcceptOutcome, ReadForUpdate, RefuseUpdate, EmitEvent,
        SaveAdminLog, SaveOutcomeLog, OutcomeLogConflict, FinishSubmit, hist
  <1>2. ASSUME NEW h \in Handlers, Request(h)
        PROVE  UNCHANGED mails
    BY <1>2 DEF Request, ReceiveWebhook, StartVerify, AdminRequest, SubmitOnline, CreateOffline, hist
  <1>3. ASSUME NEW h \in Handlers, Fault(h)
        PROVE  UNCHANGED mails
    BY <1>3 DEF Fault, hist
  <1> QED
    BY <1>1, <1>2, <1>3
    DEF Next, CreatePayment, hist, Provider, ChargeSucceeds, ChargeFails, ChargeReversed

\* The customer is mailed once per settlement, up to the races.
LEMMA MailsStep ==
  ASSUME TypeInv, PaystackInv, RequestInv, OutcomeInv, FreshInv, CountInv, Next, NEW p \in Payments
  PROVE  /\ ~Paid(p)' => mails'[p] = 0
         /\ Charged(p, payments[p].total)' =>
               mails'[p] + Cardinality(Mailers(p)') <= transitions'[p]["PAID"] + raced'[p]
  <1> DEFINE M == Mailers(p)
  <1>0. M \in SUBSET Handlers /\ M' \in SUBSET Handlers
    BY DEF Mailers
  <1>1. /\ mails[p] \in Nat /\ transitions[p]["PAID"] \in Nat
        /\ raced[p] \in Nat /\ raced'[p] \in Nat /\ raced[p] <= raced'[p]
        /\ Cardinality(M) \in Nat /\ Cardinality(M') \in Nat
    BY <1>0, Counting, RacesStay DEF TypeInv, TypeOK, Statuses
  <1>2. ASSUME NEW h \in Handlers, pc[h] \in {"emit", "log", "notify"}, op[h].kind \in Reporters,
               MailsConfirmation(op[h])
        PROVE  op[h].reply = "success" /\ Paid(op[h].pay)
    BY <1>2 DEF MailsConfirmation, FreshInv, FreshHolds, OutcomeInv, OutcomeHolds
  <1>3. ASSUME NEW h \in Handlers, Notify(h)
        PROVE  /\ M' = M \ {h} /\ mails'[p] = IF h \in M THEN mails[p] + 1 ELSE mails[p]
               /\ UNCHANGED <<txn, payments, transitions, raced>>
    <2>1. /\ pc[h] = "notify" /\ op[h].kind \in Reporters /\ op[h].pay \in Payments
          /\ pc' = [pc EXCEPT ![h] = "idle"] /\ op' = [op EXCEPT ![h] = NoOp]
          /\ pc \in [Handlers -> PcValues] /\ op \in [Handlers -> Op]
      BY <1>3 DEF Notify, Return, End, RequestInv, RequestHolds, TypeInv, TypeOK, Op
    <2>2. h \in M <=> op[h].pay = p /\ MailsConfirmation(op[h])
      BY <2>1 DEF Mailers
    <2>3. h \notin M' /\ \A g \in Handlers \ {h} : g \in M' <=> g \in M
      BY <2>1 DEF Mailers, MailsConfirmation
    <2>4. M' = M \ {h}
      BY <1>0, <2>3
    <2>5. mails'[p] = IF op[h].pay = p /\ MailsConfirmation(op[h]) THEN mails[p] + 1 ELSE mails[p]
      BY <1>3, <2>1 DEF Notify, TypeInv, TypeOK
    <2> QED
      BY <1>3, <2>2, <2>4, <2>5 DEF Notify, db
  <1>4. CASE ~Paid(p) /\ Paid(p)'
    <2>1. Provider
      <3>1. ASSUME NEW h \in Handlers, InitializeOk(h)
            PROVE  Paid(p)' => Paid(p)
        <4>1. /\ txn \in [Payments -> [status: TxnStates, amount: Nat]]
              /\ txn' = [txn EXCEPT ![op[h].pay].status = "ongoing"]
          BY <3>1 DEF InitializeOk, TypeInv, TypeOK
        <4>2. CASE op[h].pay = p
          BY <4>1, <4>2 DEF Paid
        <4>3. CASE op[h].pay # p
          BY <4>1, <4>3 DEF Paid
        <4> QED
          BY <4>2, <4>3
      <3> QED
        BY <1>4, <3>1, TxnWriters DEF Paid
    <2>2. UNCHANGED <<pc, op, mails, transitions, raced>>
      BY <2>1, OthersIdle DEF Provider, ChargeSucceeds, ChargeFails, ChargeReversed, hist
    <2>3. mails[p] = 0 /\ M = {}
      BY <1>2, <1>4 DEF CountInv, Mailers
    <2>4. M' = {}
      BY <2>2, <2>3 DEF Mailers
    <2>5. Cardinality(M') = 0
      BY <2>4, FS_EmptySet
    <2> QED
      BY <1>1, <1>4, <2>2, <2>3, <2>5
  <1>5. CASE ~Paid(p) /\ ~Paid(p)'
    <2>1. mails[p] = 0 /\ M = {}
      BY <1>2, <1>5 DEF CountInv, Mailers
    <2> QED
      BY <1>1, <1>3, <1>5, <2>1, MailWriters DEF Charged, Paid
  <1>6. CASE Paid(p)
    <2>1. Exists(p) /\ Paid(p)' /\ txn'[p].amount = txn[p].amount /\ payments'[p].total = payments[p].total
      BY <1>6, ChargesStay, TotalsStay DEF PaystackInv, Paid
    <2>a. Charged(p, payments[p].total)' => Charged(p, payments[p].total)
      BY <1>6, <2>1 DEF Charged, Paid
    <2>2. SUFFICES ASSUME Charged(p, payments[p].total)
                   PROVE  mails'[p] + Cardinality(M') <= transitions'[p]["PAID"] + raced'[p]
      BY <2>1, <2>a
    <2>3. mails[p] + Cardinality(M) <= transitions[p]["PAID"] + raced[p]
      BY <2>2 DEF CountInv
    <2>4. ASSUME NEW h \in Handlers, WriteStatus(h)
          PROVE  mails'[p] + Cardinality(M') <= transitions'[p]["PAID"] + raced'[p]
      <3>1. /\ pc[h] = "write" /\ h \notin M /\ mails' = mails /\ op' = op /\ op[h].pay \in Payments
            /\ pc' = [pc EXCEPT ![h] = IF Announces(upd[h]) THEN "emit" ELSE AfterEmit(op[h])]
        BY <2>4, WriteEffect, WriteHistory DEF Mailers, WriteStatus
      <3>2. \A g \in Handlers \ {h} : g \in M' <=> g \in M
        BY <3>1 DEF Mailers, MailsConfirmation, TypeInv, TypeOK
      <3>a. transitions'[p]["PAID"] = IF p = op[h].pay /\ "PAID" = upd[h].status /\ payments[p].status # "PAID"
                                      THEN transitions[p]["PAID"] + 1 ELSE transitions[p]["PAID"]
        BY <2>4, WriteHistory DEF Statuses
      <3>b. raced'[p] = IF p = op[h].pay /\ h \in overtaken THEN raced[p] + 1 ELSE raced[p]
        BY <2>4, RaceEffect
      <3>3. ASSUME h \in M'
            PROVE  op[h].pay = p /\ (h \in overtaken \/ (payments[p].status # "PAID" /\ upd[h].status = "PAID"))
        <4>1. op[h].pay = p /\ op[h].kind \in Reporters /\ MailsConfirmation(op[h])
          BY <3>1, <3>3 DEF Mailers, MailsConfirmation
        <4> QED
          BY <2>2, <3>1, <4>1 DEF MailsConfirmation, FreshInv, FreshHolds
      <3>4. CASE h \in M'
        <4>1. M' = M \cup {h}
          BY <1>0, <3>2, <3>4
        <4>2. Cardinality(M') = Cardinality(M) + 1
          BY <1>0, <3>1, <4>1, Counting
        <4> HIDE DEF M
        <4> QED
          BY <1>1, <2>3, <3>1, <3>3, <3>4, <3>a, <3>b, <4>2
      <3>5. CASE h \notin M'
        <4>1. M' = M
          BY <1>0, <3>1, <3>2, <3>5
        <4> HIDE DEF M
        <4> QED
          BY <1>1, <2>3, <3>1, <3>a, <3>b, <4>1
      <3> QED
        BY <3>4, <3>5
    <2>5. ASSUME NEW h \in Handlers, Notify(h)
          PROVE  mails'[p] + Cardinality(M') <= transitions'[p]["PAID"] + raced'[p]
      <3>1. Cardinality(M') = IF h \in M THEN Cardinality(M) - 1 ELSE Cardinality(M)
        <4>1. h \notin M => M \ {h} = M
          OBVIOUS
        <4> QED
          BY <1>0, <1>3, <2>5, <4>1, Counting
      <3>2. /\ mails'[p] = IF h \in M THEN mails[p] + 1 ELSE mails[p]
            /\ transitions' = transitions /\ raced' = raced
        BY <1>3, <2>5
      <3> HIDE DEF M
      <3> QED
        BY <1>1, <2>3, <3>1, <3>2
    <2>6. CASE ~\E h \in Handlers : WriteStatus(h) \/ Notify(h)
      <3>1. mails' = mails /\ transitions' = transitions /\ raced' = raced
        BY <2>6, MailWriters, RaceWriters, HistoryWriters
      <3>2. ASSUME NEW h \in Handlers, pc'[h] \in {"emit", "log", "notify"}
            PROVE  pc[h] \in {"emit", "log", "notify"} /\ op'[h] = op[h]
        <4>1. Step(h) => pc[h] \in {"emit", "log", "notify"} /\ op'[h] = op[h]
          BY <2>6, <3>2, StepEffect
        <4>2. ~Request(h)
          BY <3>2, RequestOfOne
        <4> QED
          BY <3>2, <4>1, <4>2, HandlerMoves
      <3>3. M' \subseteq M
        BY <3>2 DEF Mailers, MailsConfirmation
      <3>4. Cardinality(M') <= Cardinality(M)
        BY <1>0, <3>3, Counting
      <3> HIDE DEF M
      <3> QED
        BY <1>1, <2>3, <3>1, <3>4
    <2> QED
      BY <2>4, <2>5, <2>6
  <1> QED
    BY <1>4, <1>5, <1>6

\* CountInv holds initially,
LEMMA CountInit == Init => CountInv
  <1> SUFFICES ASSUME Init, NEW p \in Payments
               PROVE  /\ \A s \in Announced :
                            LET n == emitted[p][s] + Cardinality(Publishers(p, s))
                            IN  n <= transitions[p][s] + raced[p] /\ (faults = 0 => transitions[p][s] <= n + raced[p])
                      /\ mails[p] = 0 /\ ~Charged(p, payments[p].total)
    BY DEF CountInv
  <1>1. \A s \in Announced : Publishers(p, s) = {} /\ emitted[p][s] = 0 /\ transitions[p][s] = 0
    BY DEF Init, Publishers, Announced, Statuses
  <1>2. \A s \in Announced : Cardinality(Publishers(p, s)) = 0
    BY <1>1, FS_EmptySet
  <1>3. mails[p] = 0 /\ raced[p] = 0 /\ ~Charged(p, payments[p].total)
    BY DEF Init, Charged
  <1> QED
    BY <1>1, <1>2, <1>3

\* and every step keeps it.
LEMMA CountStep ==
  ASSUME TypeInv, PaystackInv, RequestInv, OutcomeInv, FreshInv, CountInv, [Next]_vars
  PROVE  CountInv'
  <1>1. CASE Next
    BY <1>1, EventsStep, MailsStep DEF CountInv
  <1>2. CASE UNCHANGED vars
    <2>1. \A p \in Payments : Mailers(p)' = Mailers(p) /\ \A s \in Announced : Publishers(p, s)' = Publishers(p, s)
      BY <1>2 DEF vars, Publishers, Mailers, MailsConfirmation
    <2> QED
      BY <1>2, <2>1 DEF vars, CountInv, Charged, Paid
  <1> QED
    BY <1>1, <1>2

\* What is counted is what subscribers and the customer should be told.
LEMMA CountImplies == TypeInv /\ CountInv => AnnouncedAsSettled
  <1> SUFFICES ASSUME TypeInv, CountInv
               PROVE  AnnouncedAsSettled
    OBVIOUS
  <1>1. ASSUME NEW p \in Payments, NEW s \in Announced
        PROVE  /\ emitted[p][s] <= transitions[p][s] + raced[p]
               /\ AllIdle /\ faults = 0 => transitions[p][s] <= emitted[p][s] + raced[p]
    <2>1. emitted[p][s] \in Nat /\ transitions[p][s] \in Nat /\ raced[p] \in Nat
      BY DEF TypeInv, TypeOK, Announced, Statuses
    <2>2. Publishers(p, s) \in SUBSET Handlers
      BY DEF Publishers
    <2>3. Cardinality(Publishers(p, s)) \in Nat
      BY <2>2, Counting
    <2>4. AllIdle => Cardinality(Publishers(p, s)) = 0
      <3>1. AllIdle => Publishers(p, s) = {}
        BY DEF AllIdle, Publishers
      <3> QED
        BY <3>1, FS_EmptySet
    <2> QED
      BY <2>1, <2>3, <2>4 DEF CountInv
  <1>2. ASSUME NEW p \in Payments, Charged(p, payments[p].total)
        PROVE  mails[p] <= transitions[p]["PAID"] + raced[p]
    <2>1. mails[p] \in Nat /\ transitions[p]["PAID"] \in Nat /\ raced[p] \in Nat
      BY DEF TypeInv, TypeOK, Statuses
    <2>2. Mailers(p) \in SUBSET Handlers
      BY DEF Mailers
    <2>3. Cardinality(Mailers(p)) \in Nat
      BY <2>2, Counting
    <2> QED
      BY <1>2, <2>1, <2>3 DEF CountInv
  <1> QED
    BY <1>1, <1>2 DEF AnnouncedAsSettled, EventsMatchTransitions, OneMailPerSettlement

\* Paystack's messages are kept.
LEMMA WebhooksGrow ==
  ASSUME Next
  PROVE  webhooks \subseteq webhooks'
  BY Sends DEF Send

\* A charge that stands, stood; once reversed it stays so.
LEMMA ChargesStand ==
  ASSUME TypeInv, PaystackInv, Next, NEW p \in Payments, Paid(p), txn'[p].status = "success"
  PROVE  txn'[p] = txn[p]
  <1>1. txn \in [Payments -> [status: TxnStates, amount: Nat]]
    BY DEF TypeInv, TypeOK
  <1>2. ASSUME NEW h \in Handlers, InitializeOk(h)
        PROVE  txn'[p] = txn[p]
    <2>1. op[h].pay \in Payments /\ txn[op[h].pay].status = "none"
      BY <1>2 DEF InitializeOk, PaystackInv, TypeInv, TypeOK, Op
    <2> QED
      BY <1>1, <1>2, <2>1 DEF InitializeOk, Paid
  <1>3. ASSUME NEW q \in Payments, NEW c \in Charges, ChargeSucceeds(q, c)
        PROVE  txn'[p] = txn[p]
    BY <1>1, <1>3 DEF ChargeSucceeds, Paid
  <1>4. ASSUME NEW q \in Payments, ChargeFails(q) \/ ChargeReversed(q)
        PROVE  txn'[p] = txn[p]
    BY <1>1, <1>4 DEF ChargeFails, ChargeReversed, Paid
  <1> QED
    BY <1>2, <1>3, <1>4, TxnWriters DEF Provider

\* A verification of a charge that stands says so.
LEMMA VerificationAgrees ==
  ASSUME TypeInv, NEW h \in Handlers, Step(h), pc[h] = "verify", pc'[h] = "check",
         txn[op[h].pay].status = "success"
  PROVE  op'[h].reply = "success"
  <1>1. VerifyReplies(h)
    BY DEF Step, InitializeOk, InitializeFails, LogInitFailure, VerifyFails, WriteStatus,
       SkipLogged, RejectBelowLimit, AcceptOutcome, ReadForUpdate, RefuseUpdate, EmitEvent,
       SaveAdminLog, SaveOutcomeLog, OutcomeLogConflict, Notify, FinishSubmit, End, TypeInv, TypeOK
  <1> QED
    BY <1>1 DEF VerifyReplies, TypeInv, TypeOK, Op

\* LandedInv holds initially,
LEMMA LandedInit == Init => LandedInv
  BY DEF Init, LandedInv, Landing, Submitting

\* and every step keeps it: a submission is under way before its payment begins,
LEMMA SubmitsStep ==
  ASSUME TypeInv, PaystackInv, RequestInv, LandedInv, Next
  PROVE  /\ \A h \in Handlers : Submitting(h)' => txn'[op'[h].pay].status = "none"
         /\ \A g, h \in Handlers : Submitting(g)' /\ Submitting(h)' /\ op'[g].pay = op'[h].pay => g = h
  <1>1. ASSUME NEW h \in Handlers, Submitting(h)'
        PROVE  /\ op'[h].pay \in Payments /\ txn[op'[h].pay].status = "none"
               /\ \/ Submitting(h) /\ op'[h].pay = op[h].pay /\ Exists(op'[h].pay)
                  \/ Request(h) /\ ~Exists(op'[h].pay)
    <2>a. op'[h].pay \in Payments
      <3>1. TypeInv'
        BY TypeStep
      <3> QED
        BY <3>1 DEF TypeInv, TypeOK, Op
    <2>b. PICK p \in Payments : p = op'[h].pay
      BY <2>a
    <2>0. pc'[h] # "idle" /\ op'[h].kind = "submit"
      BY <1>1 DEF Submitting
    <2>1. CASE pc'[h] = pc[h] /\ op'[h] = op[h]
      BY <2>0, <2>b, <2>1 DEF LandedInv, Submitting, TypeInv
    <2>2. CASE pc[h] # "idle" /\ Step(h)
      BY <2>0, <2>b, <2>2, StepEffect DEF LandedInv, Submitting, TypeInv
    <2>3. CASE Request(h)
      BY <2>0, <2>b, <2>3, RequestEffect DEF PaystackInv, Sources, Admins
    <2> QED
      BY <2>0, <2>1, <2>2, <2>3, HandlerMoves
  <1>2. ASSUME NEW h \in Handlers, Submitting(h)'
        PROVE  txn'[op'[h].pay].status = "none"
    <2>1. PICK p \in Payments : p = op'[h].pay
      BY <1>1, <1>2
    <2>2. ASSUME NEW g \in Handlers, pc[g] = "init", op[g].pay = p, pc'[g] = "idle", Exists(p)
          PROVE  FALSE
      <3>1. Submitting(g) /\ Submitting(h) /\ op[h].pay = p
        BY <1>1, <1>2, <2>1, <2>2 DEF Submitting, RequestInv, RequestHolds
      <3>2. g = h
        BY <2>2, <3>1 DEF LandedInv
      <3> QED
        BY <1>2, <2>2, <3>2 DEF Submitting
    <2> QED
      BY <1>1, <1>2, <2>1, <2>2, TxnMoves
  <1>3. ASSUME NEW g \in Handlers, NEW h \in Handlers, Submitting(g)', Submitting(h)', op'[g].pay = op'[h].pay
        PROVE  g = h
    <2>1. CASE Submitting(g) /\ Submitting(h) /\ op'[g].pay = op[g].pay /\ op'[h].pay = op[h].pay
      BY <1>3, <2>1 DEF LandedInv
    <2>2. Request(g) /\ Request(h) => g = h
      <3>1. SUFFICES ASSUME Request(g), Request(h), g # h
                     PROVE  FALSE
        OBVIOUS
      <3>2. pc[h] = "idle" /\ pc'[h] = pc[h]
        BY <3>1, RequestOfOne
      <3> QED
        BY <1>3, <3>2 DEF Submitting
    <2> QED
      BY <1>1, <1>3, <2>1, <2>2
  <1> QED
    BY <1>2, <1>3

\* what was answered was logged,
LEMMA LogsStep ==
  ASSUME TypeInv, PaystackInv, RequestInv, LandedInv, Next
  PROVE  /\ \A w \in acked' : <<w.pay, WebhookId(w.status)>> \in logs'
         /\ \A p \in Payments : <<p, WebhookId("success")>> \in logs' =>
               \E v \in webhooks' : v.pay = p /\ WebhookId(v.status) = WebhookId("success")
         /\ \A h \in Handlers : pc'[h] # "idle" /\ op'[h].kind = "webhook" =>
               \E v \in webhooks' : v.pay = op'[h].pay /\ v.status = op'[h].reply
         /\ \A h \in Handlers : pc'[h] = "notify" => <<op'[h].pay, op'[h].id>> \in logs'
  <1>1. ASSUME NEW w \in acked'
        PROVE  <<w.pay, WebhookId(w.status)>> \in logs'
    <2>1. CASE w \in acked
      BY <2>1, LogGrows DEF LandedInv
    <2>2. CASE w \notin acked
      <3>1. PICK h \in Handlers : SkipLogged(h) \/ Notify(h)
        BY <2>2, Answerers
      <3>2. Return(h) /\ pc[h] \in {"check", "notify"}
        BY <3>1 DEF SkipLogged, Notify
      <3>3. op[h].kind = "webhook" /\ w.pay = op[h].pay /\ w.status = op[h].reply
        BY <2>2, <3>2 DEF Return
      <3>4. op[h].id = WebhookId(op[h].reply)
        BY <3>2, <3>3 DEF RequestInv, RequestHolds
      <3>5. <<op[h].pay, op[h].id>> \in logs
        BY <3>1 DEF SkipLogged, Notify, LandedInv
      <3> QED
        BY <3>3, <3>4, <3>5, LogGrows
    <2> QED
      BY <2>1, <2>2
  <1>2. ASSUME NEW p \in Payments, <<p, WebhookId("success")>> \in logs'
        PROVE  \E v \in webhooks' : v.pay = p /\ WebhookId(v.status) = WebhookId("success")
    <2>1. CASE <<p, WebhookId("success")>> \in logs
      BY <2>1, WebhooksGrow DEF LandedInv
    <2>2. CASE <<p, WebhookId("success")>> \notin logs
      <3>1. PICK h \in Handlers : SaveOutcomeLog(h) /\ p = op[h].pay /\ WebhookId("success") = op[h].id
        BY <1>2, <2>2, LogWriters DEF WebhookId
      <3>2. pc[h] # "idle" /\ RequestHolds(h) /\ op[h].id[1] = "webhook"
        BY <3>1 DEF SaveOutcomeLog, RequestInv, WebhookId
      <3>3. op[h].kind = "webhook" /\ WebhookId(op[h].reply) = WebhookId("success")
        BY <3>1, <3>2 DEF RequestHolds
      <3> QED
        BY <3>1, <3>2, <3>3, WebhooksGrow DEF LandedInv
    <2> QED
      BY <2>1, <2>2
  <1>3. ASSUME NEW h \in Handlers, pc'[h] # "idle", op'[h].kind = "webhook"
        PROVE  \E v \in webhooks' : v.pay = op'[h].pay /\ v.status = op'[h].reply
    <2>1. CASE pc'[h] = pc[h] /\ op'[h] = op[h]
      BY <1>3, <2>1, WebhooksGrow DEF LandedInv
    <2>2. CASE pc[h] # "idle" /\ Step(h)
      <3>1. op'[h].pay = op[h].pay /\ op[h].kind = "webhook" /\ RequestHolds(h)
        BY <1>3, <2>2, StepEffect DEF RequestInv
      <3>2. pc[h] # "verify"
        BY <3>1 DEF RequestHolds, Sources
      <3>3. op'[h].reply = op[h].reply
        BY <1>3, <2>2, <3>2, StepEffect
      <3> QED
        BY <2>2, <3>1, <3>3, WebhooksGrow DEF LandedInv
    <2>3. CASE Request(h)
      <3>1. PICK w \in webhooks : op'[h].pay = w.pay /\ op'[h].reply = w.status
        BY <1>3, <2>3, RequestEffect DEF Sources, Admins
      <3> QED
        BY <3>1, WebhooksGrow
    <2> QED
      BY <1>3, <2>1, <2>2, <2>3, HandlerMoves
  <1>4. ASSUME NEW h \in Handlers, pc'[h] = "notify"
        PROVE  <<op'[h].pay, op'[h].id>> \in logs'
    <2>1. CASE pc'[h] = pc[h] /\ op'[h] = op[h]
      BY <1>4, <2>1, LogGrows DEF LandedInv
    <2>2. CASE Step(h)
      <3>1. SaveOutcomeLog(h) /\ op'[h] = op[h]
        BY <1>4, <2>2, StepEffect DEF AfterEmit
      <3> QED
        BY <3>1 DEF SaveOutcomeLog
    <2>3. ~Request(h)
      BY <1>4, RequestOfOne
    <2> QED
      BY <1>4, <2>1, <2>2, <2>3, HandlerMoves
  <1> QED
    BY <1>1, <1>2, <1>3, <1>4

\* a report comes to the log from its write,
LEMMA LandsByWrite ==
  ASSUME TypeInv, Next, NEW p \in Payments, NEW h \in Handlers, Landing(h, p)'
  PROVE  \/ Landing(h, p)
         \/ WriteStatus(h) /\ op[h].pay = p /\ op[h].kind \in Reporters /\ op[h].reply = "success"
  <1>1. pc'[h] \in {"emit", "log", "notify"} /\ op'[h].pay = p /\ op'[h].kind \in Reporters /\ op'[h].reply = "success"
    BY DEF Landing
  <1>2. CASE pc'[h] = pc[h] /\ op'[h] = op[h]
    BY <1>1, <1>2 DEF Landing
  <1>3. CASE Step(h)
    BY <1>1, <1>3, StepEffect DEF Landing
  <1>4. ~Request(h)
    BY <1>1, RequestOfOne
  <1> QED
    BY <1>1, <1>2, <1>3, <1>4, HandlerMoves

\* and the row stays PAID.
LEMMA LandedStep ==
  ASSUME TypeInv, PaystackInv, RequestInv, OutcomeInv, FreshInv, LandedInv, [Next]_vars
  PROVE  LandedInv'
  <1>1. CASE Next
    <2>1. ASSUME NEW p \in Payments, Undisputed(p)',
                 <<p, WebhookId("success")>> \in logs' \/ \E h \in Handlers : Landing(h, p)'
          PROVE  /\ payments'[p].status = "PAID"
                 /\ \A h \in Handlers : Disagrees(h, p)' => h \in overtaken'
      <3>1. Paid(p)
        <4>1. ASSUME NEW h \in Handlers, Landing(h, p)'
              PROVE  Paid(p)
          <5>1. CASE Landing(h, p)
            BY <5>1 DEF Landing, OutcomeInv, OutcomeHolds
          <5>2. CASE WriteStatus(h) /\ op[h].pay = p /\ op[h].kind \in Reporters /\ op[h].reply = "success"
            BY <5>2, WriteEffect DEF OutcomeInv, OutcomeHolds
          <5> QED
            BY <1>1, <4>1, <5>1, <5>2, LandsByWrite
        <4>2. ASSUME <<p, WebhookId("success")>> \in logs'
              PROVE  Paid(p)
          <5>1. PICK v \in webhooks' : v.pay = p /\ WebhookId(v.status) = WebhookId("success")
            BY <1>1, <4>2, LogsStep
          <5>2. CASE Provider
            <6>1. <<p, WebhookId("success")>> \in logs
              BY <4>2, <5>2 DEF Provider, ChargeSucceeds, ChargeFails, ChargeReversed, db
            <6>2. PICK u \in webhooks : u.pay = p
              BY <6>1 DEF LandedInv
            <6>3. u.status = "success"
              BY <1>1, <2>1, <6>2, WebhooksGrow DEF Undisputed
            <6> QED
              BY <6>2, <6>3 DEF PaystackInv
          <5>3. CASE UNCHANGED webhooks
            <6>1. v \in webhooks /\ v.status = "success"
              BY <2>1, <5>1, <5>3 DEF Undisputed
            <6> QED
              BY <5>1, <6>1 DEF PaystackInv
          <5> QED
            BY <1>1, <5>2, <5>3, OnlyProviderSends
        <4> QED
          BY <2>1, <4>1, <4>2
      <3>2. txn'[p] = txn[p] /\ txn[p].status = "success"
        BY <1>1, <2>1, <3>1, ChargesStand DEF Undisputed
      <3>3. Exists(p) /\ payments'[p].total = payments[p].total
        BY <1>1, <3>1, TotalsStay DEF PaystackInv, Paid
      <3>4. Undisputed(p) /\ Charged(p, payments[p].total) /\ raced[p] = 0 /\ raced'[p] = 0
        BY <1>1, <2>1, <3>2, <3>3, AdminsStay, WebhooksGrow, RacesStay DEF Undisputed, Charged
      <3>5. ASSUME NEW h \in Handlers, WriteStatus(h), op[h].pay = p
            PROVE  h \notin overtaken /\ op[h].kind \in Reporters
        <4>1. h \notin overtaken
          BY <3>4, <3>5, RaceEffect
        <4>2. pc[h] = "write" /\ op[h].kind \notin Admins /\ RequestHolds(h) /\ op[h].kind \in Kinds
          BY <2>1, <3>5, WriteEffect, WriteHistory DEF Undisputed, RequestInv, TypeInv, TypeOK, Op
        <4>3. op[h].kind # "submit"
          BY <3>2, <3>5, <4>2 DEF LandedInv, Submitting
        <4> QED
          BY <4>1, <4>2, <4>3 DEF RequestHolds, Kinds, Reporters, Admins
      <3>6. ASSUME NEW h \in Handlers, WriteStatus(h), op[h].pay = p, op[h].reply = "success"
            PROVE  payments'[p].status = "PAID"
        BY <3>4, <3>5, <3>6, WriteEffect DEF FreshInv, FreshHolds
      <3>7. CASE <<p, WebhookId("success")>> \in logs \/ \E h \in Handlers : Landing(h, p)
        <4>1. payments[p].status = "PAID" /\ \A h \in Handlers : Disagrees(h, p) => h \in overtaken
          BY <3>4, <3>7 DEF LandedInv
        <4>2. payments'[p].status = "PAID"
          <5>1. ASSUME NEW q \in Payments, NEW a \in Amounts, NEW t \in Amounts, NEW m \in Methods,
                       MayCreate(q, a, t, m), Insert(q, a, t, m)
                PROVE  payments'[p] = payments[p]
            BY <3>3, <5>1 DEF MayCreate, Insert, TypeInv, TypeOK
          <5>2. ASSUME NEW h \in Handlers, WriteStatus(h)
                PROVE  payments'[p].status = "PAID"
            <6>1. CASE op[h].pay = p
              <7>1. op[h].reply = "success"
                BY <3>5, <4>1, <5>2, <6>1, WriteEffect DEF Disagrees
              <7> QED
                BY <3>6, <5>2, <6>1, <7>1
            <6>2. CASE op[h].pay # p
              BY <4>1, <5>2, <6>2, WriteEffect
            <6> QED
              BY <6>1, <6>2
          <5> QED
            BY <1>1, <4>1, <5>1, <5>2, Writers
        <4>3. ASSUME NEW h \in Handlers, Disagrees(h, p)'
              PROVE  h \in overtaken'
          <5>0. /\ pc'[h] \in {"check", "read", "write"} /\ op'[h].pay = p
                /\ op'[h].kind \in Reporters /\ op'[h].reply # "success"
            BY <4>3 DEF Disagrees
          <5>1. CASE pc'[h] = pc[h] /\ op'[h] = op[h]
            <6>1. h \in overtaken /\ pc[h] \in {"check", "read", "write"} /\ op[h].kind \in Reporters
              BY <4>1, <5>0, <5>1 DEF Disagrees
            <6>2. ~WriteStatus(h)
              <7>0. AfterEmit(op[h]) \notin {"check", "read", "write"}
                BY DEF AfterEmit
              <7>1. ASSUME WriteStatus(h) PROVE pc'[h] \notin {"check", "read", "write"}
                <8>1. pc' = [pc EXCEPT ![h] = IF Announces(upd[h]) THEN "emit" ELSE AfterEmit(op[h])]
                  BY <7>1 DEF WriteStatus, Goto
                <8>2. DOMAIN pc = Handlers
                  BY DEF TypeInv, TypeOK
                <8> QED
                  BY <7>0, <8>1, <8>2
              <7> QED
                BY <5>0, <7>1
            <6> QED
              BY <1>1, <5>0, <6>1, <6>2, OvertakenStays
          <5>2. CASE pc[h] # "idle" /\ Step(h)
            <6>1. op[h].pay = p /\ op[h].kind \in Reporters /\ RequestHolds(h)
              BY <5>0, <5>2, StepEffect DEF RequestInv
            <6>2. pc[h] \notin {"init", "mif"}
              BY <6>1 DEF RequestHolds, Reporters, Sources
            <6>3. pc[h] # "verify"
              BY <3>2, <5>0, <5>2, <6>1, VerificationAgrees, StepEffect
            <6>4. pc[h] \in {"check", "read"} /\ op'[h].reply = op[h].reply
              BY <5>0, <5>2, <6>2, <6>3, StepEffect DEF AfterEmit
            <6>5. h \in overtaken /\ ~WriteStatus(h)
              BY <4>1, <5>0, <6>1, <6>4 DEF Disagrees, WriteStatus
            <6> QED
              BY <1>1, <5>0, <6>1, <6>5, OvertakenStays
          <5>3. ~Request(h)
            <6>1. SUFFICES ASSUME Request(h)
                           PROVE  FALSE
              OBVIOUS
            <6>2. PICK w \in webhooks : op'[h].pay = w.pay /\ op'[h].reply = w.status
              BY <5>0, <6>1, RequestEffect DEF Reporters, Sources, Admins
            <6> QED
              BY <3>4, <5>0, <6>2 DEF Undisputed
          <5> QED
            BY <1>1, <5>0, <5>1, <5>2, <5>3, HandlerMoves
        <4> QED
          BY <4>2, <4>3
      <3>8. CASE <<p, WebhookId("success")>> \notin logs /\ ~\E h \in Handlers : Landing(h, p)
        <4>1. <<p, WebhookId("success")>> \notin logs'
          <5>1. SUFFICES ASSUME <<p, WebhookId("success")>> \in logs'
                         PROVE  FALSE
            OBVIOUS
          <5>2. PICK h \in Handlers : SaveOutcomeLog(h) /\ p = op[h].pay /\ WebhookId("success") = op[h].id
            BY <1>1, <3>8, <5>1, LogWriters DEF WebhookId
          <5>3. pc[h] = "log" /\ RequestHolds(h) /\ op[h].id[1] = "webhook"
            BY <5>2 DEF SaveOutcomeLog, RequestInv, WebhookId
          <5>4. op[h].kind = "webhook"
            BY <5>3 DEF RequestHolds
          <5>5. op[h].reply = "success"
            BY <3>4, <5>2, <5>3, <5>4 DEF LandedInv, Undisputed
          <5> QED
            BY <3>8, <5>2, <5>3, <5>4, <5>5 DEF Landing, Reporters
        <4>2. PICK h \in Handlers : WriteStatus(h) /\ op[h].pay = p /\ op[h].reply = "success"
          BY <1>1, <2>1, <3>8, <4>1, LandsByWrite
        <4>3. payments'[p].status = "PAID"
          BY <3>6, <4>2
        <4>4. ASSUME NEW g \in Handlers, Disagrees(g, p)'
              PROVE  g \in overtaken'
          <5>0. pc'[g] \in {"check", "read", "write"} /\ op'[g].pay = p
            BY <4>4 DEF Disagrees
          <5>1. pc' = [pc EXCEPT ![h] = IF Announces(upd[h]) THEN "emit" ELSE AfterEmit(op[h])] /\ op' = op
            BY <4>2, WriteHistory
          <5>2. g # h
            BY <5>0, <5>1 DEF AfterEmit, TypeInv, TypeOK
          <5>3. Holds(g, p)
            BY <5>0, <5>1, <5>2 DEF Holds, TypeInv, TypeOK
          <5> QED
            BY <4>2, <5>2, <5>3, RaceEffect
        <4> QED
          BY <4>3, <4>4
      <3> QED
        BY <3>7, <3>8
    <2> QED
      BY <1>1, <2>1, LogsStep, SubmitsStep DEF LandedInv
  <1>2. CASE UNCHANGED vars
    BY <1>2 DEF vars, LandedInv, Undisputed, Charged, Landing, Disagrees, Submitting
  <1> QED
    BY <1>1, <1>2

\* What has landed is what QuiescentAgreement asks for.
LEMMA LandedImplies == TypeInv /\ PaystackInv /\ LandedInv => QuiescentAgreement
  <1> SUFFICES ASSUME TypeInv, PaystackInv, LandedInv, NEW w \in acked,
                      w.status = "success", txn[w.pay].status = "success",
                      w.amount >= payments[w.pay].total, w.pay \notin byAdmin,
                      \A v \in webhooks : v.pay = w.pay => v.status = "success",
                      ~(raced[w.pay] > 0)
               PROVE  payments[w.pay].status = "PAID"
    BY DEF QuiescentAgreement
  <1>1. w \in webhooks /\ w.pay \in Payments
    BY DEF TypeInv, TypeOK, Webhook
  <1>2. raced[w.pay] = 0
    BY <1>1 DEF TypeInv, TypeOK
  <1>3. Undisputed(w.pay)
    BY <1>1, <1>2 DEF Undisputed, Charged, PaystackInv
  <1> QED
    BY <1>1, <1>3 DEF LandedInv

\* All that holds, however requests overlap.
LEMMA RacesInv ==
  Spec => [](TypeInv /\ PaystackInv /\ FreshInv /\ CountInv /\ LandedInv)
  <1>1. TypeInv /\ HistoryInv /\ PaystackInv /\ RequestInv /\ OutcomeInv /\ FreshInv /\ [Next]_vars => FreshInv'
    BY FreshStep
  <1>2. TypeInv /\ PaystackInv /\ RequestInv /\ OutcomeInv /\ FreshInv /\ CountInv /\ [Next]_vars => CountInv'
    BY CountStep
  <1>3. TypeInv /\ PaystackInv /\ RequestInv /\ OutcomeInv /\ FreshInv /\ LandedInv /\ [Next]_vars => LandedInv'
    BY LandedStep
  <1> QED
    BY <1>1, <1>2, <1>3, TypeInit, TypeStep, HistoryInit, HistoryStep, PaystackInit, PaystackStep,
       RequestInit, RequestStep, OutcomeInit, OutcomeStep, FreshInit, CountInit, LandedInit, PTL DEF Spec

\* However many requests overlap, a publication or a mail too many and a change that
\* was not published are each owed to a write that another request had overtaken.
THEOREM AnnouncementsCorrect == Spec => []AnnouncedAsSettled
  BY RacesInv, CountImplies, PTL

\* A charge in full that was answered, and that nothing disputes, leaves the row PAID,
\* however reports overlap, unless an overtaken one wrote it.
THEOREM AgreementReached == Spec => []QuiescentAgreement
  BY RacesInv, LandedImplies, PTL

\* Only a handler that another one had overtaken changes what a payment says was paid
\* when it marks it FAILED or PENDING.
THEOREM MoneyCorrect == Spec => MoneyKept
  <1>1. TypeInv /\ FreshInv /\ [Next]_vars =>
          [\A p \in Payments :
             Exists(p) /\ payments'[p].status \in {"FAILED", "PENDING"} =>
                 payments'[p].paid = payments[p].paid \/ raced'[p] > raced[p]]_vars
    BY MoneyStep
  <1> QED
    BY <1>1, RacesInv, PTL DEF Spec, MoneyKept

=============================================================================
