--------------------- MODULE IntegrationDeliveryProofs ---------------------
(* Proofs about IntegrationDelivery, for every value of its constants. *)
EXTENDS IntegrationDelivery, TLAPS

-----------------------------------------------------------------------------
(* Types. *)

\* A copy of no row in particular is a copy.
LEMMA NoCopyType == NoCopy \in Copy
  <1>1. PICK s \in Sent, e \in Endpoints : TRUE
    BY DeliveryAssumption
  <1>2. <<s, e>> \in Deliveries
    BY DEF Deliveries
  <1> QED
    BY <1>2 DEF NoCopy, Copy, NoEndpoint, Endpoint

\* A copy of a row is a copy.
LEMMA CopyOfType ==
  ASSUME TypeOK, NEW d \in Deliveries
  PROVE  CopyOf(d) \in Copy /\ CopyOf(d).row = d /\ CopyOf(d).attempts = rows[d].attempts
  BY NoCopyType DEF TypeOK, CopyOf, NoCopy, Copy, Row

\* A new row is a row.
LEMMA NewRowType == TypeOK => NewRow \in Row
  BY DEF TypeOK, NewRow, Row, States

\* Going on to the next row, or ending, keeps the types of the processes.
LEMMA ProceedType ==
  ASSUME TypeOK, NEW p \in Procs, Proceed(p)
  PROVE  /\ pc' \in [Procs -> PcValues] /\ cur' \in [Procs -> Copy]
         /\ todo' \in [Procs -> SUBSET Copy] /\ result' \in [Procs -> Results]
  <1>1. result' \in [Procs -> Results]
    BY DEF Proceed, TypeOK, Results
  <1>2. CASE todo[p] = {}
    BY <1>1, <1>2, NoCopyType DEF Proceed, TypeOK, PcValues
  <1>3. CASE todo[p] # {}
    <2>1. PICK c \in todo[p] :
            /\ pc' = [pc EXCEPT ![p] = "lookup"]
            /\ cur' = [cur EXCEPT ![p] = c]
            /\ todo' = [todo EXCEPT ![p] = @ \ {c}]
      BY <1>3 DEF Proceed
    <2>2. c \in Copy /\ todo[p] \ {c} \in SUBSET Copy
      BY <2>1 DEF TypeOK
    <2> QED
      BY <1>1, <2>1, <2>2 DEF TypeOK, PcValues
  <1> QED
    BY <1>2, <1>3

\* Saving the copy keeps the type of the table.
LEMMA SaveResultRows ==
  ASSUME TypeOK, NEW p \in Procs, SaveResult(p)
  PROVE  /\ rows' \in [Deliveries -> Row]
         /\ rows'[cur[p].row] =
              [rows[cur[p].row] EXCEPT !.status = Outcome(result[p], cur[p].attempts + 1),
                                       !.attempts = cur[p].attempts + 1, !.due = FALSE]
         /\ \A d \in Deliveries : d # cur[p].row => rows'[d] = rows[d]
  <1>1. cur[p] \in Copy /\ cur[p].row \in Deliveries /\ cur[p].attempts \in Nat
    BY DEF TypeOK, Copy
  <1>2. Outcome(result[p], cur[p].attempts + 1) \in States
    BY DEF Outcome, States
  <1>3. rows[cur[p].row] \in Row
    BY <1>1 DEF TypeOK
  <1>4. rows' = [rows EXCEPT ![cur[p].row].status = Outcome(result[p], cur[p].attempts + 1),
                             ![cur[p].row].attempts = cur[p].attempts + 1,
                             ![cur[p].row].due = FALSE]
    BY DEF SaveResult, Attempt
  <1>5. rows'[cur[p].row] =
              [rows[cur[p].row] EXCEPT !.status = Outcome(result[p], cur[p].attempts + 1),
                                       !.attempts = cur[p].attempts + 1, !.due = FALSE]
    BY <1>1, <1>3, <1>4 DEF TypeOK, Row
  <1>6. ASSUME NEW r \in Row, NEW s \in States, NEW n \in Nat
        PROVE  [r EXCEPT !.status = s, !.attempts = n, !.due = FALSE] \in Row
    BY DEF Row
  <1>7. cur[p].attempts + 1 \in Nat
    BY <1>1
  <1>8. [rows[cur[p].row] EXCEPT !.status = Outcome(result[p], cur[p].attempts + 1),
                                 !.attempts = cur[p].attempts + 1, !.due = FALSE] \in Row
    <2> DEFINE r == rows[cur[p].row]
               s == Outcome(result[p], cur[p].attempts + 1)
               n == cur[p].attempts + 1
    <2>1. r \in Row /\ s \in States /\ n \in Nat
      BY <1>2, <1>3, <1>7
    <2> HIDE DEF r, s, n
    <2>2. [r EXCEPT !.status = s, !.attempts = n, !.due = FALSE] \in Row
      BY <2>1, <1>6
    <2> QED
      BY <2>2 DEF r, s, n
  <1> QED
    BY <1>1, <1>4, <1>5, <1>8 DEF TypeOK

\* The types hold initially.
LEMMA TypeInit == Init => TypeOK
  <1> SUFFICES ASSUME Init
               PROVE  TypeOK
    OBVIOUS
  <1>1. NoEndpoint \in Endpoint /\ NoRow \in Row
    BY DEF NoEndpoint, Endpoint, NoRow, Row
  <1>2. enabled \in BOOLEAN /\ endpoints \in [Endpoints -> Endpoint]
    BY <1>1 DEF Init
  <1>3. rows \in [Deliveries -> Row] /\ clock \in Nat
    BY <1>1 DEF Init
  <1>4. pc \in [Procs -> PcValues] /\ result \in [Procs -> Results]
    BY DEF Init, PcValues, Results
  <1>5. cur \in [Procs -> Copy] /\ todo \in [Procs -> SUBSET Copy]
    BY NoCopyType DEF Init
  <1> QED
    BY <1>2, <1>3, <1>4, <1>5 DEF Init, TypeOK

\* The next step of a pass or a request keeps them,
LEMMA StepType ==
  ASSUME TypeOK, NEW p \in Procs, Step(p)
  PROVE  TypeOK'
  <1> USE DEF tables, queue, net, bounds
  <1>0. cur[p] \in Copy /\ cur[p].row \in Deliveries /\ cur[p].endpoint \in Endpoint
    BY DEF TypeOK, Copy
  <1>1. CASE LookupOk(p)
    BY <1>1 DEF LookupOk, TypeOK, PcValues
  <1>2. CASE LookupFails(p)
    BY <1>2, ProceedType DEF LookupFails, TypeOK
  <1>3. ASSUME NEW r \in Results, Post(p, r)
        PROVE  TypeOK'
    BY <1>0, <1>3 DEF Post, TypeOK, PcValues, Results
  <1>4. CASE SaveResult(p)
    BY <1>4, SaveResultRows, ProceedType DEF SaveResult, TypeOK
  <1>5. CASE SaveEndpoint(p)
    <2>1. Target(cur[p].row) \in Endpoints
      BY <1>0 DEF Target, Deliveries
    <2>2. [cur[p].endpoint EXCEPT !.deleted = endpoints[Target(cur[p].row)].deleted] \in Endpoint
      BY <1>0, <2>1 DEF TypeOK, Endpoint
    <2> QED
      BY <1>5, <2>1, <2>2, NoCopyType DEF SaveEndpoint, TypeOK, PcValues
  <1> QED
    BY <1>1, <1>2, <1>3, <1>4, <1>5 DEF Step

\* a lost answer, a failed save and a crash keep them,
LEMMA MishapType ==
  ASSUME TypeOK, NEW p \in Procs, Mishap(p)
  PROVE  TypeOK'
  <1> USE DEF tables, queue, net
  <1>0. cur[p].row \in Deliveries
    BY DEF TypeOK, Copy
  <1>1. CASE PostAnswerLost(p)
    BY <1>0, <1>1 DEF PostAnswerLost, TypeOK, PcValues, Results
  <1>2. CASE SaveResultFails(p)
    BY <1>2, ProceedType DEF SaveResultFails, TypeOK
  <1>3. CASE Crash(p)
    BY <1>3, NoCopyType DEF Crash, TypeOK, PcValues, Results
  <1> QED
    BY <1>1, <1>2, <1>3 DEF Mishap

\* the start of a pass does,
LEMMA StartPassType ==
  ASSUME TypeOK, NEW p \in Passes, StartPass(p)
  PROVE  TypeOK'
  <1> USE DEF tables, queue, net, bounds
  <1>a. PICK ds \in SUBSET {d \in Deliveries : IsDue(d)} :
          \E first \in ds :
             /\ cur' = [cur EXCEPT ![p] = CopyOf(first)]
             /\ todo' = [todo EXCEPT ![p] = {CopyOf(d) : d \in ds \ {first}}]
    BY DEF StartPass
  <1>1. PICK first \in ds :
          /\ cur' = [cur EXCEPT ![p] = CopyOf(first)]
          /\ todo' = [todo EXCEPT ![p] = {CopyOf(d) : d \in ds \ {first}}]
    BY <1>a
  <1>2. CopyOf(first) \in Copy /\ {CopyOf(d) : d \in ds \ {first}} \in SUBSET Copy
    BY CopyOfType
  <1>3. p \in Procs
    BY DEF Procs
  <1> QED
    BY <1>1, <1>2, <1>3 DEF StartPass, TypeOK, PcValues

\* administrators do,
LEMMA AdminType ==
  ASSUME TypeOK, NEW k \in Callers, Admin(k)
  PROVE  TypeOK'
  <1> USE DEF tables, queue, net, Ask
  <1>0. k \in Procs
    BY DEF Procs
  <1>1. ASSUME NEW d \in Deliveries, RetryDelivery(k, d)
        PROVE  TypeOK'
    BY <1>0, <1>1, CopyOfType DEF RetryDelivery, TypeOK, PcValues
  <1>2. ASSUME NEW d \in Deliveries, TestEndpoint(k, d)
        PROVE  TypeOK'
    <2>1. [NoCopy EXCEPT !.row = d] \in Copy
      BY NoCopyType DEF Copy
    <2> QED
      BY <1>0, <1>2, <2>1, NewRowType DEF TestEndpoint, TypeOK, PcValues
  <1>3. ASSUME NEW e \in Endpoints, NEW on \in BOOLEAN, NEW evs \in SUBSET Events,
               EditEndpoint(k, e, on, evs)
        PROVE  TypeOK'
    <2>1. \E d \in Deliveries : Target(d) = e
      <3>1. PICK s \in Sent : TRUE
        BY DeliveryAssumption
      <3>2. <<s, e>> \in Deliveries /\ Target(<<s, e>>) = e
        BY DEF Deliveries, Target
      <3> QED
        BY <3>2
    <2>2. NewEndpoint(on, evs) \in Endpoint
      BY DEF NewEndpoint, Endpoint
    <2>3. [NoCopy EXCEPT !.row = CHOOSE d \in Deliveries : Target(d) = e,
                         !.endpoint = NewEndpoint(on, evs)] \in Copy
      BY <2>1, <2>2, NoCopyType DEF Copy
    <2> QED
      BY <1>0, <1>3, <2>3 DEF EditEndpoint, TypeOK, PcValues
  <1>4. ASSUME NEW e \in Endpoints, ToggleEndpoint(k, e)
        PROVE  TypeOK'
    <2>1. (~endpoints[e].active) \in BOOLEAN /\ endpoints[e].events \in SUBSET Events
      BY DEF TypeOK, Endpoint
    <2> QED
      BY <1>3, <1>4, <2>1 DEF ToggleEndpoint
  <1>5. ASSUME NEW e \in Endpoints, UpdateEndpoint(k, e)
        PROVE  TypeOK'
    BY <1>3, <1>5, DeliveryAssumption DEF UpdateEndpoint
  <1> QED
    BY <1>1, <1>2, <1>4, <1>5 DEF Admin

\* and so does every other step.
LEMMA OtherType ==
  ASSUME TypeOK,
         \/ \E d \in Deliveries : BecomeDue(d)
         \/ \E ev \in Events : PublishEvent(ev)
         \/ \E q \in queueing : SaveRows(q) \/ LoseRows(q)
         \/ \E e \in Endpoints : DeleteEndpoint(e)
         \/ \E e \in Endpoints, on \in BOOLEAN, evs \in Subscriptions : CreateEndpoint(e, on, evs)
         \/ \E on \in BOOLEAN : SetEnabled(on)
  PROVE  TypeOK'
  <1> USE DEF tables, queue, procs, net, bounds
  <1>1. ASSUME NEW d \in Deliveries, BecomeDue(d)
        PROVE  TypeOK'
    BY <1>1 DEF BecomeDue, TypeOK, Row
  <1>2. ASSUME NEW ev \in Events, PublishEvent(ev)
        PROVE  TypeOK'
    <2>1. {e \in Endpoints : Wants(e, ev)} \in SUBSET Endpoints
      OBVIOUS
    <2> QED
      BY <1>2, <2>1 DEF PublishEvent, TypeOK
  <1>3. ASSUME NEW q \in queueing, SaveRows(q)
        PROVE  TypeOK'
    BY <1>3, NewRowType DEF SaveRows, TypeOK
  <1>4. ASSUME NEW q \in queueing, LoseRows(q)
        PROVE  TypeOK'
    BY <1>4 DEF LoseRows, TypeOK
  <1>5. ASSUME NEW e \in Endpoints, DeleteEndpoint(e)
        PROVE  TypeOK'
    BY <1>5 DEF DeleteEndpoint, TypeOK, NoEndpoint, Endpoint
  <1>6. ASSUME NEW e \in Endpoints, NEW on \in BOOLEAN, NEW evs \in Subscriptions,
               CreateEndpoint(e, on, evs)
        PROVE  TypeOK'
    BY <1>6, DeliveryAssumption DEF CreateEndpoint, TypeOK, NewEndpoint, Endpoint
  <1>7. ASSUME NEW on \in BOOLEAN, SetEnabled(on)
        PROVE  TypeOK'
    BY <1>7 DEF SetEnabled, TypeOK
  <1> QED
    BY <1>1, <1>2, <1>3, <1>4, <1>5, <1>6, <1>7

\* TypeOK is inductive.
LEMMA TypeStep == TypeOK /\ [Next]_vars => TypeOK'
  <1> SUFFICES ASSUME TypeOK, [Next]_vars
               PROVE  TypeOK'
    OBVIOUS
  <1>1. CASE Next
    BY <1>1, StepType, MishapType, StartPassType, AdminType, OtherType DEF Next
  <1>2. CASE UNCHANGED vars
    BY <1>2 DEF vars, TypeOK
  <1> QED
    BY <1>1, <1>2

\* The tables and everything in flight keep their shape, for any number of
\* endpoints, events, backend instances, passes and administrators.
THEOREM TypeCorrect == Spec => []TypeOK
  BY TypeInit, TypeStep, PTL DEF Spec

-----------------------------------------------------------------------------
(* What the rows say, however the workers and the administrators overlap. *)

\* A row that stays queued has an attempt left: applyResult counts the attempt
\* and decides on the same copy, so it does not matter how old the copy is.
LEMMA AttemptsStep == TypeOK /\ QueuedHasAttemptsLeft /\ [Next]_vars => QueuedHasAttemptsLeft'
  <1> SUFFICES ASSUME TypeOK, QueuedHasAttemptsLeft, [Next]_vars
               PROVE  QueuedHasAttemptsLeft'
    OBVIOUS
  <1> USE DEF tables, queue, procs, net, bounds, QueuedHasAttemptsLeft, Queued
  <1>1. ASSUME NEW p \in Procs, SaveResult(p)
        PROVE  QueuedHasAttemptsLeft'
    <2>1. cur[p].attempts \in Nat /\ MaxAttempts \in Nat
      BY DeliveryAssumption DEF TypeOK, Copy
    <2>2. Outcome(result[p], cur[p].attempts + 1) = "QUEUED" => cur[p].attempts + 1 < MaxAttempts
      BY <2>1 DEF Outcome
    <2>3. cur[p].row \in Deliveries /\ rows[cur[p].row] \in Row
      BY DEF TypeOK, Copy
    <2>4. rows'[cur[p].row].status = Outcome(result[p], cur[p].attempts + 1)
          /\ rows'[cur[p].row].attempts = cur[p].attempts + 1
      BY <1>1, <2>3, SaveResultRows DEF Row
    <2> QED
      BY <1>1, <2>2, <2>4, SaveResultRows
  <1>2. ASSUME NEW p \in Procs, Step(p), ~SaveResult(p)
        PROVE  UNCHANGED rows
    BY <1>2 DEF Step, LookupOk, LookupFails, Post, SaveEndpoint
  <1>3. ASSUME NEW p \in Procs, Mishap(p)
        PROVE  UNCHANGED rows
    BY <1>3 DEF Mishap, PostAnswerLost, SaveResultFails, Crash
  <1>4. ASSUME NEW p \in Passes, StartPass(p)
        PROVE  UNCHANGED rows
    BY <1>4 DEF StartPass
  <1>5. ASSUME NEW k \in Callers, Admin(k)
        PROVE  QueuedHasAttemptsLeft'
    <2>1. ASSUME NEW d \in Deliveries, TestEndpoint(k, d)
          PROVE  QueuedHasAttemptsLeft'
      BY <2>1, DeliveryAssumption DEF TestEndpoint, NewRow, TypeOK
    <2> QED
      BY <1>5, <2>1
      DEF Admin, RetryDelivery, ToggleEndpoint, UpdateEndpoint, EditEndpoint
  <1>6. ASSUME NEW q \in queueing, SaveRows(q)
        PROVE  QueuedHasAttemptsLeft'
    BY <1>6, DeliveryAssumption DEF SaveRows, NewRow
  <1>7. ASSUME NEW d \in Deliveries, BecomeDue(d)
        PROVE  QueuedHasAttemptsLeft'
    BY <1>7 DEF BecomeDue, TypeOK, Row
  <1> QED
    BY <1>1, <1>2, <1>3, <1>4, <1>5, <1>6, <1>7
    DEF Next, vars, PublishEvent, LoseRows, DeleteEndpoint, CreateEndpoint, SetEnabled

\* DeliveredWasReceived is not inductive: a save decides by the result in hand, so
\* a result "ok" in hand must be one the receiver gave.
ResultIsReal ==
    \A p \in Procs : pc[p] = "save" /\ result[p] = "ok" => received[cur[p].row] > 0

\* What the receiver has accepted is never taken back.
LEMMA ReceivedGrows ==
  ASSUME TypeOK, [Next]_vars
  PROVE  \A d \in Deliveries : received[d] \in Nat /\ received'[d] \in Nat /\ received'[d] >= received[d]
  <1> USE DEF tables, queue, procs, net, bounds
  <1>0. received \in [Deliveries -> Nat] /\ received' \in [Deliveries -> Nat]
    BY TypeStep DEF TypeOK
  <1>1. ASSUME NEW p \in Procs, Step(p) \/ Mishap(p)
        PROVE  \A d \in Deliveries : received'[d] >= received[d]
    BY <1>1
    DEF TypeOK, Step, LookupOk, LookupFails, Post, SaveResult, SaveEndpoint,
        Mishap, PostAnswerLost, SaveResultFails, Crash
  <1>2. ASSUME NEW k \in Callers, Admin(k)
        PROVE  UNCHANGED received
    BY <1>2 DEF Admin, RetryDelivery, TestEndpoint, ToggleEndpoint, UpdateEndpoint, EditEndpoint
  <1>3. ASSUME NEW p \in Passes, StartPass(p)
        PROVE  UNCHANGED received
    BY <1>3 DEF StartPass
  <1> QED
    BY <1>0, <1>1, <1>2, <1>3
    DEF TypeOK, Next, vars, PublishEvent, SaveRows, LoseRows, DeleteEndpoint, CreateEndpoint,
        SetEnabled, BecomeDue

\* A process holds "ok" at its save only by the post it has just made.
LEMMA RealStep ==
  ASSUME TypeOK, ResultIsReal, [Next]_vars
  PROVE  ResultIsReal'
  <1> USE DEF tables, queue, procs, net, bounds
  <1> SUFFICES ASSUME NEW p \in Procs, pc'[p] = "save", result'[p] = "ok"
               PROVE  received'[cur'[p].row] > 0
    BY DEF ResultIsReal
  <1>0. cur[p].row \in Deliveries
    BY DEF TypeOK, Copy
  <1>1. CASE Post(p, "ok")
    BY <1>0, <1>1 DEF Post, TypeOK
  <1>2. CASE pc[p] = "save" /\ result[p] = "ok" /\ cur'[p] = cur[p]
    BY <1>0, <1>2, ReceivedGrows DEF ResultIsReal, TypeOK
  <1>3. ASSUME NEW g \in Procs, Step(g) \/ Mishap(g)
        PROVE  Post(p, "ok") \/ (pc[p] = "save" /\ result[p] = "ok" /\ cur'[p] = cur[p])
    <2>1. CASE g # p
      BY <1>3, <2>1
      DEF TypeOK, Step, LookupOk, LookupFails, Post, SaveResult, SaveEndpoint,
          Mishap, PostAnswerLost, SaveResultFails, Crash, Proceed
    <2>2. CASE g = p
      BY <1>3, <2>2
      DEF TypeOK, Step, LookupOk, LookupFails, Post, SaveResult, SaveEndpoint,
          Mishap, PostAnswerLost, SaveResultFails, Crash, Proceed
    <2> QED
      BY <2>1, <2>2
  <1>4. ASSUME NEW k \in Callers, Admin(k)
        PROVE  pc[p] = "save" /\ result[p] = "ok" /\ cur'[p] = cur[p]
    <2>1. k \in Procs
      BY DEF Procs
    <2> QED
      BY <1>4, <2>1
      DEF TypeOK, Admin, RetryDelivery, TestEndpoint, ToggleEndpoint, UpdateEndpoint, EditEndpoint, Ask
  <1>5. ASSUME NEW g \in Passes, StartPass(g)
        PROVE  pc[p] = "save" /\ result[p] = "ok" /\ cur'[p] = cur[p]
    <2>1. g \in Procs
      BY DEF Procs
    <2> QED
      BY <1>5, <2>1 DEF TypeOK, StartPass
  <1> QED
    BY <1>1, <1>2, <1>3, <1>4, <1>5
    DEF Next, vars, PublishEvent, SaveRows, LoseRows, DeleteEndpoint, CreateEndpoint,
        SetEnabled, BecomeDue

\* DELIVERED is written only by a save that holds "ok".
LEMMA DeliveredStep ==
  ASSUME TypeOK, ResultIsReal, DeliveredWasReceived, [Next]_vars
  PROVE  DeliveredWasReceived'
  <1> USE DEF tables, queue, procs, net, bounds
  <1> SUFFICES ASSUME NEW d \in Deliveries, rows'[d].status = "DELIVERED"
               PROVE  received'[d] > 0
    BY DEF DeliveredWasReceived
  <1>1. CASE rows[d].status = "DELIVERED"
    BY <1>1, ReceivedGrows DEF DeliveredWasReceived, TypeOK
  <1>2. ASSUME NEW p \in Procs, SaveResult(p), rows[d].status # "DELIVERED"
        PROVE  received'[d] > 0
    <2>1. d = cur[p].row /\ rows[d] \in Row
      BY <1>2, SaveResultRows DEF TypeOK
    <2>2. Outcome(result[p], cur[p].attempts + 1) = "DELIVERED"
      BY <1>2, <2>1, SaveResultRows DEF Row
    <2>3. result[p] = "ok"
      BY <2>2 DEF Outcome, TypeOK, Results
    <2> QED
      BY <1>2, <2>1, <2>3 DEF ResultIsReal, SaveResult
  <1>3. ASSUME NEW p \in Procs, Step(p) \/ Mishap(p), ~SaveResult(p)
        PROVE  UNCHANGED rows
    BY <1>3 DEF Step, LookupOk, LookupFails, Post, SaveEndpoint, Mishap, PostAnswerLost,
       SaveResultFails, Crash
  <1>4. ASSUME NEW k \in Callers, Admin(k)
        PROVE  rows'[d].status = rows[d].status \/ rows'[d].status = "QUEUED"
    <2>1. ASSUME NEW b \in Deliveries, TestEndpoint(k, b)
          PROVE  rows'[d].status = rows[d].status \/ rows'[d].status = "QUEUED"
      BY <2>1 DEF TypeOK, TestEndpoint, NewRow
    <2> QED
      BY <1>4, <2>1 DEF Admin, RetryDelivery, ToggleEndpoint, UpdateEndpoint, EditEndpoint
  <1>5. ASSUME NEW q \in queueing, SaveRows(q)
        PROVE  rows'[d].status = rows[d].status \/ rows'[d].status = "QUEUED"
    BY <1>5 DEF SaveRows, NewRow
  <1>6. ASSUME NEW b \in Deliveries, BecomeDue(b)
        PROVE  rows'[d].status = rows[d].status
    BY <1>6 DEF BecomeDue, TypeOK, Row
  <1>7. ASSUME NEW p \in Passes, StartPass(p)
        PROVE  UNCHANGED rows
    BY <1>7 DEF StartPass
  <1> QED
    BY <1>1, <1>2, <1>3, <1>4, <1>5, <1>6, <1>7
    DEF Next, vars, PublishEvent, LoseRows, DeleteEndpoint, CreateEndpoint, SetEnabled

\* No row is queued beyond MAX_ATTEMPTS and none says DELIVERED that the receiver
\* did not accept, for any number of instances, passes and administrators, stale
\* copies included.
THEOREM RowsCorrect == Spec => []RowsAreTrue
  <1>1. Init => QueuedHasAttemptsLeft /\ DeliveredWasReceived /\ ResultIsReal
    BY DEF Init, QueuedHasAttemptsLeft, Queued, DeliveredWasReceived, ResultIsReal, NoRow
  <1>2. QueuedHasAttemptsLeft /\ DeliveredWasReceived => RowsAreTrue
    BY DEF RowsAreTrue
  <1> QED
    BY <1>1, <1>2, TypeInit, TypeStep, AttemptsStep, RealStep, DeliveredStep, PTL DEF Spec

-----------------------------------------------------------------------------
(* One backend instance and nobody who retries by hand.  The `running` flag lets
   one pass run at a time, so what it read of a row is still what the row says
   when the attempt is saved; with two instances or a retry by hand that is lost. *)

Unattended ==
    /\ Callers = {}
    /\ \A p, q \in Passes : InstanceOf[p] = InstanceOf[q]

\* One pass runs, and its posts are for rows.
SoloInv ==
    /\ \A p \in Procs : pc[p] \in {"idle", "lookup", "post", "save"}
    /\ \A p, q \in Procs : pc[p] # "idle" /\ pc[q] # "idle" => p = q

\* A copy in hand says what its row says, and the row is still to be delivered.
Fresh(c) == c = CopyOf(c.row) /\ IsDue(c.row)

SyncInv ==
    \A p \in Procs : pc[p] # "idle" =>
        /\ Fresh(cur[p])
        /\ \A c \in todo[p] : Fresh(c) /\ c.row # cur[p].row

\* The rows of an event are made once: while they wait to be saved there are none.
MadeOnceInv ==
    /\ \A q \in queueing :
          /\ q.event \in published
          /\ \A d \in Deliveries : d[1] = q.event => rows[d].status = "NONE"
    /\ \A q, r \in queueing : q.event = r.event => q = r
    /\ \A d \in Deliveries : rows[d].status # "NONE" => d[1] \in published

\* A post was made for the row and is not saved yet.
Pending(d) == \E p \in Procs : pc[p] = "save" /\ cur[p].row = d
PendingOk(d) == \E p \in Procs : pc[p] = "save" /\ cur[p].row = d /\ result[p] = "ok"

\* What was posted was counted, is about to be, or was paid for by a fault; what was
\* accepted is DELIVERED, is about to be, or was paid for by a fault.
AttemptsInv ==
    \A d \in Deliveries :
        /\ rows[d].attempts <= MaxAttempts
        /\ rows[d].status = "NONE" => rows[d].attempts = 0

CountedInv ==
    \A d \in Deliveries :
        /\ posts[d] <= rows[d].attempts + faults + 1
        /\ ~Pending(d) => posts[d] <= rows[d].attempts + faults

AcceptedInv ==
    \A d \in Deliveries :
        /\ received[d] <= faults + 1
        /\ rows[d].status # "DELIVERED" /\ ~PendingOk(d) => received[d] <= faults

\* Going on leaves the other processes alone, and ends or takes up a copy in hand.
LEMMA ProceedEffect ==
  ASSUME TypeOK, NEW p \in Procs, Proceed(p)
  PROVE  /\ \A q \in Procs : q # p =>
               /\ pc'[q] = pc[q] /\ cur'[q] = cur[q] /\ todo'[q] = todo[q] /\ result'[q] = result[q]
         /\ \/ pc'[p] = "idle"
            \/ \E c \in todo[p] :
                 pc'[p] = "lookup" /\ cur'[p] = c /\ todo'[p] = todo[p] \ {c}
  BY DEF Proceed, TypeOK

\* Without callers, a step is one of these.
LEMMA UnattendedSteps ==
  ASSUME TypeOK, SoloInv, Unattended, [Next]_vars
  PROVE  \/ \E p \in Procs :
              \/ LookupOk(p) \/ LookupFails(p) \/ SaveResult(p) \/ SaveResultFails(p)
              \/ PostAnswerLost(p) \/ Crash(p) \/ \E r \in Results : Post(p, r)
         \/ \E p \in Procs : p \in Passes /\ StartPass(p)
         \/ \E d \in Deliveries : BecomeDue(d)
         \/ \E ev \in Events : PublishEvent(ev)
         \/ \E q \in queueing : SaveRows(q)
         \/ \E q \in queueing : LoseRows(q)
         \/ UNCHANGED <<rows, queueing, published, pc, cur, todo, result, posts, received, faults>>
  <1>1. Procs = Passes
    BY DEF Procs, Unattended
  <1>2. ASSUME NEW p \in Procs, SaveEndpoint(p)
        PROVE  FALSE
    BY <1>2 DEF SaveEndpoint, SoloInv
  <1>3. ASSUME NEW k \in Callers, Admin(k)
        PROVE  FALSE
    BY <1>3 DEF Unattended
  <1>4. ASSUME UNCHANGED vars
        PROVE  UNCHANGED <<rows, queueing, published, pc, cur, todo, result, posts, received, faults>>
    BY <1>4 DEF vars
  <1>5. ASSUME NEW e \in Endpoints, DeleteEndpoint(e)
        PROVE  UNCHANGED <<rows, queueing, published, pc, cur, todo, result, posts, received, faults>>
    BY <1>5 DEF DeleteEndpoint, queue, procs, net, bounds
  <1>6. ASSUME NEW e \in Endpoints, NEW on \in BOOLEAN, NEW evs \in Subscriptions,
               CreateEndpoint(e, on, evs)
        PROVE  UNCHANGED <<rows, queueing, published, pc, cur, todo, result, posts, received, faults>>
    BY <1>6 DEF CreateEndpoint, queue, procs, net, bounds
  <1>7. ASSUME NEW on \in BOOLEAN, SetEnabled(on)
        PROVE  UNCHANGED <<rows, queueing, published, pc, cur, todo, result, posts, received, faults>>
    BY <1>7 DEF SetEnabled, queue, procs, net, bounds
  <1> QED
    BY <1>1, <1>2, <1>3, <1>4, <1>5, <1>6, <1>7 DEF Next, Step, Mishap

\* A pass starts on an instance where none runs, so one runs at a time.
LEMMA SoloStep ==
  ASSUME TypeOK, SoloInv, Unattended, [Next]_vars
  PROVE  SoloInv'
  <1> USE DEF tables, queue, procs, net, bounds
  <1>1. ASSUME NEW p \in Procs,
               LookupFails(p) \/ SaveResult(p) \/ SaveResultFails(p)
        PROVE  SoloInv'
    <2>1. Proceed(p) /\ pc[p] # "idle"
      BY <1>1 DEF LookupFails, SaveResult, SaveResultFails
    <2> QED
      BY <2>1, ProceedEffect DEF SoloInv
  <1>2. ASSUME NEW p \in Procs,
               LookupOk(p) \/ PostAnswerLost(p) \/ Crash(p) \/ \E r \in Results : Post(p, r)
        PROVE  SoloInv'
    BY <1>2 DEF LookupOk, PostAnswerLost, Crash, Post, SoloInv, TypeOK
  <1>3. ASSUME NEW p \in Procs, p \in Passes, StartPass(p)
        PROVE  SoloInv'
    <2>1. \A q \in Procs : pc[q] = "idle"
      BY <1>3 DEF StartPass, Running, Unattended, Procs
    <2> QED
      BY <1>3, <2>1 DEF StartPass, SoloInv, TypeOK
  <1>4. ASSUME UNCHANGED pc
        PROVE  SoloInv'
    BY <1>4 DEF SoloInv
  <1> QED
    BY <1>1, <1>2, <1>3, <1>4, UnattendedSteps
    DEF BecomeDue, PublishEvent, SaveRows, LoseRows

\* Copies of the same row, all fresh, are the same copy.
LEMMA FreshUnique ==
  ASSUME NEW c, NEW x, Fresh(c), Fresh(x), c.row = x.row
  PROVE  c = x
  BY DEF Fresh

\* A copy stays fresh while its row keeps its attempts and stays due.
LEMMA FreshKept ==
  ASSUME NEW c, Fresh(c), rows'[c.row].attempts = rows[c.row].attempts, IsDue(c.row)'
  PROVE  Fresh(c)'
  BY DEF Fresh, CopyOf

\* Going on after at most the row in hand has changed,
LEMMA SyncProceed ==
  ASSUME TypeOK, SoloInv, SyncInv, NEW p \in Procs, pc[p] # "idle", Proceed(p),
         \A d \in Deliveries : d # cur[p].row => rows'[d] = rows[d]
  PROVE  SyncInv'
  <1>1. ASSUME NEW c \in todo[p]
        PROVE  Fresh(c) /\ Fresh(c)'
    <2>1. Fresh(c) /\ c.row # cur[p].row /\ c.row \in Deliveries
      BY DEF SyncInv, TypeOK, Copy
    <2>2. rows'[c.row] = rows[c.row]
      BY <2>1
    <2>3. IsDue(c.row)'
      BY <2>1, <2>2 DEF Fresh, IsDue, Queued
    <2> QED
      BY <2>1, <2>2, <2>3, FreshKept
  <1> SUFFICES ASSUME NEW q \in Procs, pc'[q] # "idle"
               PROVE  /\ Fresh(cur[q])'
                      /\ \A c \in todo'[q] : Fresh(c)' /\ c.row # cur'[q].row
    BY DEF SyncInv
  <1>2. CASE q # p
    BY <1>2, ProceedEffect DEF SoloInv
  <1>3. CASE q = p
    <2>1. PICK b \in todo[p] : cur'[p] = b /\ todo'[p] = todo[p] \ {b}
      BY <1>3, ProceedEffect
    <2>2. Fresh(b)' /\ Fresh(b)
      BY <1>1, <2>1
    <2>3. ASSUME NEW c \in todo'[q]
          PROVE  Fresh(c)' /\ c.row # b.row
      <3>1. c \in todo[p] /\ c # b
        BY <1>3, <2>1, <2>3
      <3> QED
        BY <1>1, <2>2, <3>1, FreshUnique
    <2>4. Fresh(cur[q])'
      BY <1>3, <2>1, <2>2 DEF Fresh, CopyOf, IsDue, Queued
    <2> QED
      BY <1>3, <2>1, <2>3, <2>4
  <1> QED
    BY <1>2, <1>3

\* or when the copies are the same and their rows are due as before, keeps them fresh.
LEMMA SyncFrame ==
  ASSUME TypeOK, SyncInv, UNCHANGED <<cur, todo>>,
         \A p \in Procs : pc'[p] # "idle" => pc[p] # "idle",
         \A d \in Deliveries : IsDue(d) => IsDue(d)' /\ rows'[d].attempts = rows[d].attempts
  PROVE  SyncInv'
  <1> SUFFICES ASSUME NEW q \in Procs, pc'[q] # "idle"
               PROVE  /\ Fresh(cur[q])'
                      /\ \A c \in todo'[q] : Fresh(c)' /\ c.row # cur'[q].row
    BY DEF SyncInv
  <1>1. ASSUME NEW c \in Copy, Fresh(c)
        PROVE  Fresh(c)'
    <2>1. c.row \in Deliveries /\ IsDue(c.row)
      BY <1>1 DEF Copy, Fresh
    <2> QED
      BY <1>1, <2>1, FreshKept
  <1>2. cur[q] \in Copy /\ todo[q] \subseteq Copy /\ Fresh(cur[q])
        /\ \A c \in todo[q] : Fresh(c) /\ c.row # cur[q].row
    BY DEF TypeOK, SyncInv
  <1>3. Fresh(cur[q])'
    <2>1. PICK b \in Copy : b = cur[q]
      BY <1>2
    <2>2. Fresh(b)'
      BY <1>1, <1>2, <2>1
    <2> QED
      BY <2>1, <2>2 DEF Fresh, CopyOf, IsDue, Queued
  <1> QED
    BY <1>1, <1>2, <1>3

\* A pass starts with fresh copies of different rows.
LEMMA SyncStart ==
  ASSUME TypeOK, Unattended, NEW p \in Procs, p \in Passes, StartPass(p)
  PROVE  SyncInv'
  <1> USE DEF tables, queue, net, bounds
  <1>1. \A q \in Procs : pc[q] = "idle"
    BY DEF StartPass, Running, Unattended, Procs
  <1>2. PICK ds \in SUBSET {d \in Deliveries : IsDue(d)} :
          \E first \in ds :
             /\ cur' = [cur EXCEPT ![p] = CopyOf(first)]
             /\ todo' = [todo EXCEPT ![p] = {CopyOf(d) : d \in ds \ {first}}]
    BY DEF StartPass
  <1>3. PICK first \in ds :
          /\ cur' = [cur EXCEPT ![p] = CopyOf(first)]
          /\ todo' = [todo EXCEPT ![p] = {CopyOf(d) : d \in ds \ {first}}]
    BY <1>2
  <1>4. cur'[p] = CopyOf(first) /\ todo'[p] = {CopyOf(d) : d \in ds \ {first}}
    BY <1>3 DEF TypeOK
  <1>5. \A q \in Procs : pc'[q] # "idle" => q = p
    BY <1>1 DEF StartPass, TypeOK
  <1>6. ASSUME NEW d \in ds
        PROVE  CopyOf(d).row = d /\ Fresh(CopyOf(d))
    BY CopyOfType DEF Fresh
  <1>7. ASSUME NEW c, Fresh(c)
        PROVE  Fresh(c)'
    <2>1. rows' = rows
      BY DEF StartPass
    <2> QED
      BY <1>7, <2>1 DEF Fresh, CopyOf, IsDue, Queued
  <1>8. Fresh(cur[p])'
    <2>1. PICK c : c = CopyOf(first)
      OBVIOUS
    <2>2. Fresh(c)' /\ cur'[p] = c
      BY <1>4, <1>6, <1>7, <2>1
    <2> QED
      BY <2>2 DEF Fresh, CopyOf, IsDue, Queued
  <1>9. ASSUME NEW c \in todo'[p]
        PROVE  Fresh(c)' /\ c.row # cur'[p].row
    <2>1. PICK d \in ds \ {first} : c = CopyOf(d)
      BY <1>4, <1>9
    <2>2. Fresh(c) /\ c.row = d
      BY <1>6, <2>1
    <2> QED
      BY <1>4, <1>6, <1>7, <2>2
  <1> QED
    BY <1>5, <1>8, <1>9 DEF SyncInv

\* What a pass holds is what the rows say.
LEMMA SyncStep ==
  ASSUME TypeOK, SoloInv, SyncInv, MadeOnceInv, Unattended, [Next]_vars
  PROVE  SyncInv'
  <1> USE DEF tables, queue, procs, net, bounds
  <1>a. UNCHANGED rows =>
          \A d \in Deliveries : IsDue(d) => IsDue(d)' /\ rows'[d].attempts = rows[d].attempts
    BY DEF IsDue, Queued
  <1>1. ASSUME NEW p \in Procs, LookupFails(p) \/ SaveResult(p) \/ SaveResultFails(p)
        PROVE  SyncInv'
    <2>1. Proceed(p) /\ pc[p] # "idle"
      BY <1>1 DEF LookupFails, SaveResult, SaveResultFails
    <2>2. \A d \in Deliveries : d # cur[p].row => rows'[d] = rows[d]
      BY <1>1, SaveResultRows DEF LookupFails, SaveResultFails
    <2> QED
      BY <2>1, <2>2, SyncProceed
  <1>2. ASSUME NEW p \in Procs, LookupOk(p) \/ PostAnswerLost(p) \/ \E r \in Results : Post(p, r)
        PROVE  SyncInv'
    <2>1. UNCHANGED <<rows, cur, todo>> /\ \A q \in Procs : pc'[q] # "idle" => pc[q] # "idle"
      BY <1>2 DEF LookupOk, PostAnswerLost, Post, TypeOK
    <2> QED
      BY <1>a, <2>1, SyncFrame
  <1>3. ASSUME NEW p \in Procs, Crash(p)
        PROVE  SyncInv'
    <2>1. \A q \in Procs : pc'[q] = "idle"
      BY <1>3 DEF Crash, TypeOK, SoloInv
    <2> QED
      BY <2>1 DEF SyncInv
  <1>4. ASSUME NEW p \in Procs, p \in Passes, StartPass(p)
        PROVE  SyncInv'
    BY <1>4, SyncStart
  <1>5. ASSUME NEW b \in Deliveries, BecomeDue(b)
        PROVE  SyncInv'
    <2>1. \A d \in Deliveries : IsDue(d) => IsDue(d)' /\ rows'[d].attempts = rows[d].attempts
      BY <1>5 DEF BecomeDue, IsDue, Queued, TypeOK, Row
    <2> QED
      BY <1>5, <2>1, SyncFrame DEF BecomeDue
  <1>6. ASSUME NEW q \in queueing, SaveRows(q)
        PROVE  SyncInv'
    <2>1. \A d \in Deliveries : IsDue(d) => rows'[d] = rows[d]
      BY <1>6 DEF SaveRows, IsDue, Queued, MadeOnceInv
    <2>2. \A d \in Deliveries : IsDue(d) => IsDue(d)' /\ rows'[d].attempts = rows[d].attempts
      BY <2>1 DEF IsDue, Queued
    <2> QED
      BY <1>6, <2>2, SyncFrame DEF SaveRows
  <1>7. ASSUME UNCHANGED <<rows, pc, cur, todo>>
        PROVE  SyncInv'
    BY <1>7, <1>a, SyncFrame
  <1> QED
    BY <1>1, <1>2, <1>3, <1>4, <1>5, <1>6, <1>7, UnattendedSteps DEF PublishEvent, LoseRows

\* An event is published once, so its rows are made once.
LEMMA MadeOnceStep ==
  ASSUME TypeOK, SoloInv, SyncInv, MadeOnceInv, Unattended, [Next]_vars
  PROVE  MadeOnceInv'
  <1> USE DEF tables, queue, procs, net, bounds
  <1>0. rows \in [Deliveries -> Row]
    BY DEF TypeOK
  <1>1. ASSUME UNCHANGED <<queueing, published>>,
               \A d \in Deliveries : rows'[d].status = "NONE" <=> rows[d].status = "NONE"
        PROVE  MadeOnceInv'
    BY <1>1 DEF MadeOnceInv
  <1>2. ASSUME NEW p \in Procs, SaveResult(p)
        PROVE  MadeOnceInv'
    <2>1. cur[p].row \in Deliveries /\ rows[cur[p].row].status = "QUEUED"
      BY <1>2 DEF SaveResult, SyncInv, Fresh, IsDue, Queued, TypeOK, Copy
    <2>2. rows'[cur[p].row].status # "NONE"
      BY <1>2, <2>1, <1>0, SaveResultRows DEF Row, Outcome
    <2>3. \A d \in Deliveries : rows'[d].status = "NONE" <=> rows[d].status = "NONE"
      BY <1>2, <2>1, <2>2, SaveResultRows
    <2> QED
      BY <1>1, <1>2, <2>3 DEF SaveResult
  <1>3. ASSUME NEW b \in Deliveries, BecomeDue(b)
        PROVE  MadeOnceInv'
    <2>1. \A d \in Deliveries : rows'[d].status = "NONE" <=> rows[d].status = "NONE"
      BY <1>0, <1>3 DEF BecomeDue, Row
    <2> QED
      BY <1>1, <1>3, <2>1 DEF BecomeDue
  <1>4. ASSUME NEW ev \in Events, PublishEvent(ev)
        PROVE  MadeOnceInv'
    BY <1>4 DEF PublishEvent, MadeOnceInv
  <1>5. ASSUME NEW q \in queueing, SaveRows(q)
        PROVE  MadeOnceInv'
    <2>1. \A d \in Deliveries : d[1] # q.event => rows'[d] = rows[d]
      BY <1>5 DEF SaveRows
    <2>2. \A d \in Deliveries : rows'[d].status # "NONE" => d[1] \in published
      BY <2>1 DEF MadeOnceInv
    <2> QED
      BY <1>5, <2>1, <2>2 DEF SaveRows, MadeOnceInv
  <1>6. ASSUME NEW q \in queueing, LoseRows(q)
        PROVE  MadeOnceInv'
    BY <1>6 DEF LoseRows, MadeOnceInv
  <1> QED
    BY <1>1, <1>2, <1>3, <1>4, <1>5, <1>6, UnattendedSteps
    DEF LookupOk, LookupFails, SaveResultFails, PostAnswerLost, Crash, Post, StartPass

\* No row counts more than MAX_ATTEMPTS attempts, and a row that is not there none.
LEMMA CappedStep ==
  ASSUME TypeOK, SoloInv, SyncInv, QueuedHasAttemptsLeft, AttemptsInv, Unattended, [Next]_vars
  PROVE  AttemptsInv'
  <1> USE DEF tables, queue, procs, net, bounds
  <1>0. rows \in [Deliveries -> Row] /\ MaxAttempts \in Nat
    BY DeliveryAssumption DEF TypeOK
  <1>1. ASSUME NEW p \in Procs, SaveResult(p)
        PROVE  AttemptsInv'
    <2>1. cur[p].row \in Deliveries /\ Queued(cur[p].row) /\ cur[p] = CopyOf(cur[p].row)
      BY <1>1 DEF SaveResult, SyncInv, Fresh, IsDue, TypeOK, Copy
    <2>2. cur[p].attempts = rows[cur[p].row].attempts
      BY <2>1, CopyOfType
    <2>3. cur[p].attempts \in Nat /\ cur[p].attempts + 1 <= MaxAttempts
      BY <1>0, <2>1, <2>2 DEF QueuedHasAttemptsLeft, Row
    <2>4. Outcome(result[p], cur[p].attempts + 1) # "NONE"
      BY DEF Outcome
    <2>5. /\ rows'[cur[p].row].attempts = cur[p].attempts + 1
          /\ rows'[cur[p].row].status # "NONE"
      <3>1. rows[cur[p].row] \in Row
        BY <1>0, <2>1
      <3> QED
        BY <1>1, <2>4, <3>1, SaveResultRows DEF Row
    <2> QED
      BY <1>1, <2>3, <2>5, SaveResultRows DEF AttemptsInv
  <1>2. ASSUME NEW b \in Deliveries, BecomeDue(b)
        PROVE  AttemptsInv'
    BY <1>0, <1>2 DEF BecomeDue, AttemptsInv, Row
  <1>3. ASSUME NEW q \in queueing, SaveRows(q)
        PROVE  AttemptsInv'
    BY <1>0, <1>3 DEF SaveRows, AttemptsInv, NewRow
  <1>4. ASSUME UNCHANGED rows
        PROVE  AttemptsInv'
    BY <1>4 DEF AttemptsInv
  <1> QED
    BY <1>1, <1>2, <1>3, <1>4, UnattendedSteps
    DEF LookupOk, LookupFails, SaveResultFails, PostAnswerLost, Crash, Post, StartPass,
        PublishEvent, LoseRows

\* A post is counted by its save or paid for by a fault.
LEMMA CountedStep ==
  ASSUME TypeOK, SoloInv, SyncInv, MadeOnceInv, AttemptsInv, CountedInv, Unattended, [Next]_vars
  PROVE  CountedInv'
  <1> USE DEF tables, queue, procs, net, bounds
  <1>0. /\ rows \in [Deliveries -> Row] /\ rows' \in [Deliveries -> Row]
        /\ posts \in [Deliveries -> Nat] /\ posts' \in [Deliveries -> Nat]
        /\ faults \in Nat /\ faults' \in Nat
    BY TypeStep DEF TypeOK
  <1>a. \A d \in Deliveries :
          /\ rows[d].attempts \in Nat /\ rows'[d].attempts \in Nat
          /\ posts[d] \in Nat /\ posts'[d] \in Nat
    BY <1>0 DEF Row
  <1>b. \A p \in Procs : cur[p].row \in Deliveries
    BY DEF TypeOK, Copy
  \* A step that posts nothing and is no save: what it stops waiting for, a fault pays.
  <1>1. ASSUME UNCHANGED posts, \A d \in Deliveries : rows'[d].attempts >= rows[d].attempts,
               faults' >= faults,
               \/ faults' = faults + 1
               \/ \A d \in Deliveries : Pending(d) => Pending(d)'
        PROVE  CountedInv'
    BY <1>0, <1>1, <1>a DEF CountedInv
  <1>c. ASSUME \A p \in Procs : pc[p] = "save" => pc'[p] = "save" /\ cur'[p] = cur[p]
        PROVE  \A d \in Deliveries : Pending(d) => Pending(d)'
    BY <1>c DEF Pending
  <1>2. ASSUME NEW p \in Procs, SaveResult(p)
        PROVE  CountedInv'
    <2>1. cur[p] = CopyOf(cur[p].row) /\ cur[p].attempts = rows[cur[p].row].attempts
      BY <1>2, <1>b, CopyOfType DEF SaveResult, SyncInv, Fresh
    <2>2. rows'[cur[p].row].attempts = rows[cur[p].row].attempts + 1
      <3>1. rows[cur[p].row] \in Row
        BY <1>0, <1>b
      <3>2. rows'[cur[p].row].attempts = cur[p].attempts + 1
        BY <1>2, <3>1, SaveResultRows DEF Row
      <3> QED
        BY <2>1, <3>2
    <2>3. ASSUME NEW d \in Deliveries, d # cur[p].row
          PROVE  ~Pending(d) /\ rows'[d] = rows[d]
      BY <1>2, <2>3, SaveResultRows DEF SaveResult, SoloInv, Pending
    <2>4. UNCHANGED posts /\ faults' = faults
      BY <1>2 DEF SaveResult
    <2>5. ASSUME NEW d \in Deliveries
          PROVE  posts'[d] <= rows'[d].attempts + faults'
      <3>1. CASE d = cur[p].row
        BY <1>0, <1>a, <2>2, <2>4, <3>1 DEF CountedInv
      <3>2. CASE d # cur[p].row
        BY <2>3, <2>4, <3>2 DEF CountedInv
      <3> QED
        BY <3>1, <3>2
    <2> QED
      BY <1>0, <1>a, <2>5 DEF CountedInv
  <1>3. ASSUME NEW p \in Procs, PostAnswerLost(p) \/ \E r \in Results : Post(p, r)
        PROVE  CountedInv'
    <2>1. /\ pc[p] = "post" /\ pc'[p] = "save" /\ UNCHANGED <<rows, cur>>
          /\ posts' = [posts EXCEPT ![cur[p].row] = @ + 1]
          /\ faults' >= faults
      BY <1>3, <1>0 DEF PostAnswerLost, Post, TypeOK
    <2>2. \A d \in Deliveries : ~Pending(d)
      BY <2>1 DEF SoloInv, Pending
    <2>3. Pending(cur[p].row)'
      BY <2>1 DEF Pending
    <2>4. ASSUME NEW d \in Deliveries
          PROVE  /\ posts'[d] <= rows'[d].attempts + faults' + 1
                 /\ ~Pending(d)' => posts'[d] <= rows'[d].attempts + faults'
      <3>1. posts[d] <= rows[d].attempts + faults
        BY <2>2 DEF CountedInv
      <3>2. CASE d = cur[p].row
        BY <1>0, <1>a, <2>1, <2>3, <3>1, <3>2
      <3>3. CASE d # cur[p].row
        <4>1. posts'[d] = posts[d] /\ rows'[d] = rows[d]
          BY <1>0, <1>b, <2>1, <3>3
        <4> QED
          BY <1>0, <1>a, <2>1, <3>1, <4>1
      <3> QED
        BY <3>2, <3>3
    <2> QED
      BY <2>4 DEF CountedInv
  <1>4. ASSUME NEW p \in Procs, Crash(p) \/ SaveResultFails(p)
        PROVE  CountedInv'
    <2>1. UNCHANGED <<posts, rows>> /\ faults' = faults + 1
      BY <1>4 DEF Crash, SaveResultFails
    <2> QED
      BY <1>0, <1>1, <1>a, <2>1
  <1>5. ASSUME NEW p \in Procs, LookupFails(p)
        PROVE  CountedInv'
    <2>1. \A q \in Procs : pc[q] # "save"
      BY <1>5 DEF LookupFails, SoloInv
    <2>2. UNCHANGED <<posts, rows, faults>>
      BY <1>5 DEF LookupFails
    <2> QED
      BY <1>0, <1>1, <1>a, <1>c, <2>1, <2>2
  <1>6. ASSUME NEW p \in Procs, LookupOk(p) \/ (p \in Passes /\ StartPass(p))
        PROVE  CountedInv'
    <2>1. \A q \in Procs : pc[q] = "save" => pc'[q] = "save" /\ cur'[q] = cur[q]
      BY <1>6 DEF LookupOk, StartPass, TypeOK
    <2>2. UNCHANGED <<posts, rows, faults>>
      BY <1>6 DEF LookupOk, StartPass
    <2> QED
      BY <1>0, <1>1, <1>a, <1>c, <2>1, <2>2
  <1>7. ASSUME UNCHANGED <<pc, cur, posts>>, faults' >= faults,
               \A d \in Deliveries : rows'[d].attempts >= rows[d].attempts
        PROVE  CountedInv'
    BY <1>1, <1>7, <1>c
  <1>8. ASSUME NEW q \in queueing, SaveRows(q)
        PROVE  CountedInv'
    <2>1. \A d \in Deliveries : rows'[d] = rows[d] \/ rows[d].attempts = 0
      BY <1>8 DEF SaveRows, MadeOnceInv, AttemptsInv
    <2>2. \A d \in Deliveries : rows'[d].attempts >= rows[d].attempts
      BY <1>a, <2>1
    <2> QED
      BY <1>0, <1>7, <1>8, <2>2 DEF SaveRows
  <1>9. ASSUME NEW b \in Deliveries, BecomeDue(b)
        PROVE  CountedInv'
    <2>1. \A d \in Deliveries : rows'[d].attempts = rows[d].attempts
      BY <1>0, <1>9 DEF BecomeDue, Row
    <2> QED
      BY <1>0, <1>7, <1>9, <1>a, <2>1 DEF BecomeDue
  <1> QED
    BY <1>0, <1>2, <1>3, <1>4, <1>5, <1>6, <1>7, <1>8, <1>9, <1>a, UnattendedSteps
    DEF PublishEvent, LoseRows

\* What the receiver accepted is recorded by the save or paid for by a fault.
LEMMA AcceptedStep ==
  ASSUME TypeOK, SoloInv, SyncInv, MadeOnceInv, AcceptedInv, Unattended, [Next]_vars
  PROVE  AcceptedInv'
  <1> USE DEF tables, queue, procs, net, bounds
  <1>0. /\ rows \in [Deliveries -> Row] /\ rows' \in [Deliveries -> Row]
        /\ received \in [Deliveries -> Nat] /\ received' \in [Deliveries -> Nat]
        /\ faults \in Nat /\ faults' \in Nat
    BY TypeStep DEF TypeOK
  <1>a. \A d \in Deliveries : received[d] \in Nat /\ received'[d] \in Nat
    BY <1>0
  <1>b. \A p \in Procs : cur[p].row \in Deliveries
    BY DEF TypeOK, Copy
  <1>1. ASSUME UNCHANGED received, faults' >= faults,
               \A d \in Deliveries : rows[d].status = "DELIVERED" => rows'[d].status = "DELIVERED",
               \/ faults' = faults + 1
               \/ \A d \in Deliveries : PendingOk(d) => PendingOk(d)'
        PROVE  AcceptedInv'
    BY <1>0, <1>1, <1>a DEF AcceptedInv
  <1>c. ASSUME \A p \in Procs : pc[p] = "save" =>
                  pc'[p] = "save" /\ cur'[p] = cur[p] /\ result'[p] = result[p]
        PROVE  \A d \in Deliveries : PendingOk(d) => PendingOk(d)'
    BY <1>c DEF PendingOk
  <1>2. ASSUME NEW p \in Procs, SaveResult(p)
        PROVE  AcceptedInv'
    <2>1. cur[p].row \in Deliveries /\ rows[cur[p].row].status = "QUEUED"
      BY <1>2, <1>b DEF SaveResult, SyncInv, Fresh, IsDue, Queued
    <2>2. rows'[cur[p].row].status = Outcome(result[p], cur[p].attempts + 1)
      BY <1>0, <1>2, <2>1, SaveResultRows DEF Row
    <2>3. \A d \in Deliveries : d # cur[p].row => rows'[d] = rows[d]
      BY <1>2, SaveResultRows
    <2>4. UNCHANGED received /\ faults' = faults
      BY <1>2 DEF SaveResult
    <2>5. \A d \in Deliveries : PendingOk(d) => d = cur[p].row /\ result[p] = "ok"
      BY <1>2 DEF SaveResult, SoloInv, PendingOk
    <2>6. result[p] = "ok" => rows'[cur[p].row].status = "DELIVERED"
      BY <2>2 DEF Outcome
    <2>7. ASSUME NEW d \in Deliveries, rows'[d].status # "DELIVERED"
          PROVE  received'[d] <= faults'
      <3>1. ~PendingOk(d)
        BY <2>5, <2>6, <2>7
      <3>2. rows[d].status # "DELIVERED"
        BY <2>1, <2>3, <2>7
      <3> QED
        BY <2>4, <3>1, <3>2 DEF AcceptedInv
    <2> QED
      BY <2>4, <2>7 DEF AcceptedInv
  <1>3. ASSUME NEW p \in Procs, NEW r \in Results, Post(p, r)
        PROVE  AcceptedInv'
    <2>1. /\ pc[p] = "post" /\ pc'[p] = "save" /\ UNCHANGED <<rows, cur, faults>>
          /\ received' = IF r = "ok" THEN [received EXCEPT ![cur[p].row] = @ + 1] ELSE received
          /\ result'[p] = r
      BY <1>3, <1>0 DEF Post, TypeOK
    <2>2. \A d \in Deliveries : ~PendingOk(d)
      BY <2>1 DEF SoloInv, PendingOk
    <2>3. r = "ok" => PendingOk(cur[p].row)'
      BY <2>1 DEF PendingOk
    <2>4. rows[cur[p].row].status = "QUEUED"
      BY <2>1, <1>b DEF SyncInv, Fresh, IsDue, Queued
    <2>5. ASSUME NEW d \in Deliveries
          PROVE  /\ received'[d] <= faults' + 1
                 /\ rows'[d].status # "DELIVERED" /\ ~PendingOk(d)' => received'[d] <= faults'
      <3>1. CASE r = "ok" /\ d = cur[p].row
        <4>1. received[d] <= faults /\ received'[d] = received[d] + 1
          BY <1>0, <2>1, <2>2, <2>4, <3>1 DEF AcceptedInv
        <4> QED
          BY <1>0, <1>a, <2>1, <2>3, <3>1, <4>1
      <3>2. CASE ~(r = "ok" /\ d = cur[p].row)
        <4>1. received'[d] = received[d]
          BY <1>0, <1>b, <2>1, <3>2
        <4> QED
          BY <2>1, <2>2, <4>1 DEF AcceptedInv
      <3> QED
        BY <3>1, <3>2
    <2> QED
      BY <2>5 DEF AcceptedInv
  <1>4. ASSUME NEW p \in Procs, PostAnswerLost(p)
        PROVE  AcceptedInv'
    <2>1. /\ pc[p] = "post" /\ UNCHANGED <<rows, cur>> /\ faults' = faults + 1
          /\ received' = [received EXCEPT ![cur[p].row] = @ + 1]
      BY <1>4 DEF PostAnswerLost
    <2>2. \A d \in Deliveries : ~PendingOk(d)
      BY <2>1 DEF SoloInv, PendingOk
    <2>3. rows[cur[p].row].status = "QUEUED"
      BY <2>1, <1>b DEF SyncInv, Fresh, IsDue, Queued
    <2>4. ASSUME NEW d \in Deliveries
          PROVE  /\ received'[d] <= faults' + 1
                 /\ rows'[d].status # "DELIVERED" => received'[d] <= faults'
      <3>1. CASE d = cur[p].row
        <4>1. received[d] <= faults /\ received'[d] = received[d] + 1
          BY <1>0, <2>1, <2>2, <2>3, <3>1 DEF AcceptedInv
        <4> QED
          BY <1>0, <1>a, <2>1, <4>1
      <3>2. CASE d # cur[p].row
        <4>1. received'[d] = received[d]
          BY <1>0, <1>b, <2>1, <3>2
        <4> QED
          BY <1>0, <1>a, <2>1, <2>2, <4>1 DEF AcceptedInv
      <3> QED
        BY <3>1, <3>2
    <2> QED
      BY <2>4 DEF AcceptedInv
  <1>5. ASSUME NEW p \in Procs, Crash(p) \/ SaveResultFails(p)
        PROVE  AcceptedInv'
    <2>1. UNCHANGED <<received, rows>> /\ faults' = faults + 1
      BY <1>5 DEF Crash, SaveResultFails
    <2> QED
      BY <1>0, <1>1, <2>1
  <1>6. ASSUME NEW p \in Procs, LookupFails(p)
        PROVE  AcceptedInv'
    <2>1. \A q \in Procs : pc[q] # "save"
      BY <1>6 DEF LookupFails, SoloInv
    <2>2. UNCHANGED <<received, rows, faults>>
      BY <1>6 DEF LookupFails
    <2> QED
      BY <1>0, <1>1, <1>c, <2>1, <2>2
  <1>7. ASSUME NEW p \in Procs, LookupOk(p) \/ (p \in Passes /\ StartPass(p))
        PROVE  AcceptedInv'
    <2>1. \A q \in Procs : pc[q] = "save" =>
             pc'[q] = "save" /\ cur'[q] = cur[q] /\ result'[q] = result[q]
      BY <1>7 DEF LookupOk, StartPass, TypeOK
    <2>2. UNCHANGED <<received, rows, faults>>
      BY <1>7 DEF LookupOk, StartPass
    <2> QED
      BY <1>0, <1>1, <1>c, <2>1, <2>2
  <1>8. ASSUME UNCHANGED <<pc, cur, result, received>>, faults' >= faults,
               \A d \in Deliveries : rows[d].status = "DELIVERED" => rows'[d].status = "DELIVERED"
        PROVE  AcceptedInv'
    BY <1>1, <1>8, <1>c
  <1>9. ASSUME NEW q \in queueing, SaveRows(q)
        PROVE  AcceptedInv'
    <2>1. \A d \in Deliveries : rows'[d] = rows[d] \/ rows[d].status = "NONE"
      BY <1>9 DEF SaveRows, MadeOnceInv
    <2> QED
      BY <1>0, <1>8, <1>9, <2>1 DEF SaveRows
  <1>10. ASSUME NEW b \in Deliveries, BecomeDue(b)
        PROVE  AcceptedInv'
    <2>1. \A d \in Deliveries : rows'[d].status = rows[d].status
      BY <1>0, <1>10 DEF BecomeDue, Row
    <2> QED
      BY <1>0, <1>8, <1>10, <2>1 DEF BecomeDue
  <1> QED
    BY <1>0, <1>2, <1>3, <1>4, <1>5, <1>6, <1>7, <1>8, <1>9, <1>10, UnattendedSteps
    DEF PublishEvent, LoseRows

-----------------------------------------------------------------------------
(* The table as a queue of atomic attempts. *)

\* They hold initially.
LEMMA UnattendedInit ==
  Init => SoloInv /\ SyncInv /\ MadeOnceInv /\ AttemptsInv /\ CountedInv /\ AcceptedInv
          /\ QueuedHasAttemptsLeft
  BY DeliveryAssumption
  DEF Init, SoloInv, SyncInv, MadeOnceInv, AttemptsInv, CountedInv, AcceptedInv,
      QueuedHasAttemptsLeft, Queued, NoRow

\* They hold always.
LEMMA UnattendedInv ==
  ASSUME Unattended
  PROVE  Spec => [](TypeOK /\ SoloInv /\ SyncInv /\ MadeOnceInv /\ AttemptsInv /\ CountedInv
                    /\ AcceptedInv /\ QueuedHasAttemptsLeft)
  <1> DEFINE I == /\ TypeOK /\ SoloInv /\ SyncInv /\ MadeOnceInv /\ AttemptsInv /\ CountedInv
                  /\ AcceptedInv /\ QueuedHasAttemptsLeft
  <1>1. Init => I
    BY TypeInit, UnattendedInit
  <1>2. I /\ [Next]_vars => I'
    BY TypeStep, SoloStep, SyncStep, MadeOnceStep, CappedStep, CountedStep, AcceptedStep,
       AttemptsStep
  <1> QED
    BY <1>1, <1>2, PTL DEF Spec

\* A row that is waiting for its save is QUEUED and has an attempt left.
LEMMA RepeatsImplied ==
  TypeOK /\ SoloInv /\ SyncInv /\ AttemptsInv /\ CountedInv /\ AcceptedInv /\ QueuedHasAttemptsLeft
    => RepeatsArePaidFor
  <1> SUFFICES ASSUME TypeOK, SoloInv, SyncInv, AttemptsInv, CountedInv, AcceptedInv,
                      QueuedHasAttemptsLeft, NEW d \in Deliveries
               PROVE  received[d] <= 1 + faults /\ posts[d] <= MaxAttempts + faults
    BY DEF RepeatsArePaidFor, NotDeliveredTwice, PostsBounded
  <1>1. /\ received[d] \in Nat /\ posts[d] \in Nat /\ faults \in Nat
        /\ rows[d].attempts \in Nat /\ MaxAttempts \in Nat
    BY DeliveryAssumption DEF TypeOK, Row
  <1>2. received[d] <= 1 + faults
    BY <1>1 DEF AcceptedInv
  <1>3. CASE Pending(d)
    <2>1. Queued(d)
      BY <1>3 DEF Pending, SyncInv, Fresh, IsDue
    <2>2. rows[d].attempts < MaxAttempts /\ posts[d] <= rows[d].attempts + faults + 1
      BY <2>1 DEF QueuedHasAttemptsLeft, CountedInv
    <2> QED
      BY <1>1, <1>2, <2>2
  <1>4. CASE ~Pending(d)
    <2>1. rows[d].attempts <= MaxAttempts /\ posts[d] <= rows[d].attempts + faults
      BY <1>4 DEF AttemptsInv, CountedInv
    <2> QED
      BY <1>1, <1>2, <2>1
  <1> QED
    BY <1>3, <1>4

\* One instance and no retries by hand: however passes tick, die and lose answers, and
\* whatever becomes of the endpoints, the receiver is asked or told again only for a
\* fault.
THEOREM RepeatsPaidFor ==
  ASSUME Unattended
  PROVE  Spec => []RepeatsArePaidFor
  BY UnattendedInv, RepeatsImplied, PTL

\* The table begins as a queue.
LEMMA QueueBegins == Init => Promised!QInit
  BY DEF Init, Promised!QInit, NoRow

\* A save is one attempt of the queue, the making of rows is its Enqueue, and nothing
\* else changes what it shows.
LEMMA QueueSimulation ==
  ASSUME TypeOK, SoloInv, SyncInv, MadeOnceInv, AttemptsInv, Unattended, [Next]_vars
  PROVE  [Promised!QNext]_(Promised!qvars)
  <1> USE DEF tables, queue, procs, net, bounds
  <1>0. rows \in [Deliveries -> Row] /\ rows' \in [Deliveries -> Row]
    BY TypeStep DEF TypeOK
  <1>1. ASSUME \A d \in Deliveries : /\ rows'[d].status = rows[d].status
                                     /\ rows'[d].attempts = rows[d].attempts
        PROVE  UNCHANGED Promised!qvars
    BY <1>1 DEF Promised!qvars
  <1>2. ASSUME NEW p \in Procs, SaveResult(p)
        PROVE  Promised!QNext
    <2>1. PICK d \in Deliveries : d = cur[p].row
      BY DEF TypeOK, Copy
    <2>2. rows[d] \in Row /\ rows[d].status = "QUEUED" /\ cur[p] = CopyOf(d)
      BY <1>0, <1>2, <2>1 DEF SaveResult, SyncInv, Fresh, IsDue, Queued
    <2>3. cur[p].attempts = rows[d].attempts
      BY <2>2, CopyOfType
    <2>4. PICK s \in {"DELIVERED", "FAILED", "QUEUED"} : s = Outcome(result[p], cur[p].attempts + 1)
      BY DEF Outcome
    <2>5. /\ rows'[d].status = s
          /\ rows'[d].attempts = cur[p].attempts + 1
      BY <1>2, <2>1, <2>2, <2>4, SaveResultRows DEF Row
    <2>6. rows[d].attempts \in Nat
      BY <2>2 DEF Row
    <2>7. s = "QUEUED" => rows[d].attempts + 1 < MaxAttempts
      BY <2>3, <2>4, <2>6, DeliveryAssumption DEF Outcome
    <2>8. \A b \in Deliveries : b # d => rows'[b] = rows[b]
      BY <1>2, <2>1, SaveResultRows
    <2>9. /\ [b \in Deliveries |-> rows'[b].attempts]
               = [[b \in Deliveries |-> rows[b].attempts] EXCEPT ![d] = @ + 1]
          /\ [b \in Deliveries |-> rows'[b].status]
               = [[b \in Deliveries |-> rows[b].status] EXCEPT ![d] = s]
      BY <2>3, <2>5, <2>8
    <2>10. Promised!Try(d, s)
      BY <2>2, <2>7, <2>9 DEF Promised!Try
    <2> QED
      BY <2>10, Zenon DEF Promised!QNext
  <1>3. ASSUME NEW q \in queueing, SaveRows(q)
        PROVE  Promised!QNext
    <2>1. PICK ds \in SUBSET Deliveries : ds = {d \in Deliveries : d[1] = q.event /\ Target(d) \in q.to}
      OBVIOUS
    <2>2. \A d \in ds : rows[d].status = "NONE" /\ rows[d].attempts = 0
      BY <2>1 DEF MadeOnceInv, AttemptsInv
    <2>3. rows' = [d \in Deliveries |-> IF d \in ds THEN NewRow ELSE rows[d]]
      BY <1>3, <2>1 DEF SaveRows
    <2>4. NewRow.status = "QUEUED" /\ NewRow.attempts = 0
      BY DEF NewRow
    <2>5. /\ [d \in Deliveries |-> rows'[d].status]
               = [d \in Deliveries |->
                    IF d \in ds THEN "QUEUED" ELSE [b \in Deliveries |-> rows[b].status][d]]
          /\ [d \in Deliveries |-> rows'[d].attempts] = [d \in Deliveries |-> rows[d].attempts]
      BY <2>2, <2>3, <2>4
    <2>6. Promised!Enqueue(ds)
      BY <2>1, <2>2, <2>5 DEF Promised!Enqueue
    <2> QED
      BY <2>6, Zenon DEF Promised!QNext
  <1>4. ASSUME NEW b \in Deliveries, BecomeDue(b)
        PROVE  UNCHANGED Promised!qvars
    <2>1. \A d \in Deliveries : rows'[d].status = rows[d].status /\ rows'[d].attempts = rows[d].attempts
      BY <1>0, <1>4 DEF BecomeDue, Row
    <2> QED
      BY <1>1, <2>1
  <1>5. ASSUME UNCHANGED rows
        PROVE  UNCHANGED Promised!qvars
    BY <1>1, <1>5
  <1> QED
    BY <1>2, <1>3, <1>4, <1>5, UnattendedSteps
    DEF LookupOk, LookupFails, SaveResultFails, PostAnswerLost, Crash, Post, StartPass,
        PublishEvent, LoseRows

\* One instance and no retries by hand: the table behaves as a queue whose attempts are
\* atomic, although each is a read, a post and a save.
THEOREM QueueImplemented ==
  ASSUME Unattended
  PROVE  Spec => ImplementsQueue
  BY UnattendedInv, QueueBegins, QueueSimulation, PTL DEF Spec, ImplementsQueue, Promised!QSpec

=============================================================================
