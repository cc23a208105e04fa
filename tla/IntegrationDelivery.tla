------------------------- MODULE IntegrationDelivery -------------------------
(***************************************************************************)
(* Webhooks to an organization's own systems (market-readiness): a domain  *)
(* event becomes one row of integration_deliveries per endpoint that       *)
(* subscribes to it, and a worker that ticks every minute posts the due    *)
(* rows until they are DELIVERED or FAILED.  Administrators edit the       *)
(* endpoints, ping them and retry deliveries by hand.                      *)
(*                                                                         *)
(* Several backend instances may run, each with a worker of its own.  A    *)
(* pass and a request hold copies of the rows they read; saving a copy     *)
(* writes all its columns.  Time is abstract: a row that was backed off    *)
(* becomes due at some later time.  The receiver is external.              *)
(***************************************************************************)
EXTENDS Integers, FiniteSets

CONSTANTS
    Endpoints,      \* integration_endpoints ids
    Events,         \* domain events, each published at most once
    Pings,          \* test events, each sent by one request
    Subscriptions,  \* the event lists endpoints are given; {} stands for all
    Passes,         \* passes of delivery workers that can be in flight
    Instances,      \* backend instances
    InstanceOf,     \* the instance a pass runs on
    Callers,        \* requests of administrators that can be in flight
    MaxAttempts,    \* MAX_ATTEMPTS
    Batch,          \* the page a pass reads: take
    MayChange,      \* whether endpoints are edited once they exist
    MaxRequests,    \* bound: administrators' requests
    MaxFaults       \* bound: crashes, lost answers and failed saves

VARIABLES
    enabled,    \* the organization's integrations flag
    endpoints,  \* table integration_endpoints
    rows,       \* table integration_deliveries, by event and endpoint
    clock,      \* orders created_at
    queueing,   \* events whose endpoints were read and whose rows are unsaved
    published,  \* events published so far
    pc, cur,    \* per pass and caller: where it is and the copy it works on
    todo,       \* the rest of what a pass read
    result,     \* the outcome of the post in hand
    posts,      \* history: requests sent, per row
    received,   \* history: requests the receiver accepted, per row
    requests, faults

tables == <<enabled, endpoints, rows, clock>>
queue  == <<queueing, published>>
procs  == <<pc, cur, todo, result>>
net    == <<posts, received>>
bounds == <<requests, faults>>
vars   == <<enabled, endpoints, rows, clock, queueing, published, pc, cur, todo,
            result, posts, received, requests, faults>>

-----------------------------------------------------------------------------
Sent       == Events \cup Pings
Deliveries == Sent \X Endpoints
Procs      == Passes \cup Callers
States     == {"QUEUED", "DELIVERED", "FAILED"}
Results    == {"none", "ok", "again", "permanent"}
PcValues   == {"idle", "lookup", "post", "save", "edit"}

ASSUME DeliveryAssumption ==
    /\ IsFiniteSet(Endpoints) /\ IsFiniteSet(Sent)
    /\ Endpoints # {} /\ Sent # {}
    /\ Subscriptions \subseteq SUBSET Events
    /\ InstanceOf \in [Passes -> Instances]
    /\ Passes \cap Callers = {}
    /\ MaxAttempts \in Nat \ {0}
    /\ Batch \in Nat \ {0}
    /\ MayChange \in BOOLEAN
    /\ MaxRequests \in Nat
    /\ MaxFaults \in Nat

\* An endpoint; `deleted` is history: an id is never given twice.
Endpoint   == [exists: BOOLEAN, active: BOOLEAN, events: SUBSET Events, deleted: BOOLEAN]
NoEndpoint == [exists |-> FALSE, active |-> FALSE, events |-> {}, deleted |-> FALSE]
NewEndpoint(on, evs) == [exists |-> TRUE, active |-> on, events |-> evs, deleted |-> FALSE]

\* A row; `due` says that next_attempt_at has passed, `made` orders created_at.
Row   == [status: States \cup {"NONE"}, attempts: Nat, due: BOOLEAN, made: Nat]
NoRow == [status |-> "NONE", attempts |-> 0, due |-> FALSE, made |-> 0]

\* What deliverNow uses of the row it was given, or an endpoint being edited.
Copy   == [row: Deliveries, attempts: Nat, endpoint: Endpoint]
NoCopy == [row |-> CHOOSE d \in Deliveries : TRUE, attempts |-> 0, endpoint |-> NoEndpoint]
CopyOf(d) == [NoCopy EXCEPT !.row = d, !.attempts = rows[d].attempts]

Target(d) == d[2]
Queued(d) == rows[d].status = "QUEUED"

\* Mutant: only rows that were never tried are due.
DueAtFirst(d) == Queued(d) /\ rows[d].due /\ rows[d].attempts = 0

\* The rows runPass asks for.
IsDue(d) == Queued(d) /\ rows[d].due

-----------------------------------------------------------------------------
(* From events to rows. *)

\* queueIntegrationDeliveries: the active endpoints whose list is empty or names
\* the event.
Wants(e, ev) ==
    /\ endpoints[e].exists /\ endpoints[e].active
    /\ endpoints[e].events = {} \/ ev \in endpoints[e].events

NewRow == [status |-> "QUEUED", attempts |-> 0, due |-> TRUE, made |-> clock]

\* queueIntegrationDeliveriesIfEnabled reads the flag and the endpoints ...
PublishEvent(ev) ==
    /\ ev \in Events \ published
    /\ published' = published \cup {ev}
    /\ queueing' = IF enabled
                   THEN queueing \cup {[event |-> ev, to |-> {e \in Endpoints : Wants(e, ev)}]}
                   ELSE queueing
    /\ UNCHANGED <<tables, procs, net, bounds>>

\* ... and saves the rows in one statement ...
SaveRows(q) ==
    /\ queueing' = queueing \ {q}
    /\ rows' = [d \in Deliveries |->
                  IF d[1] = q.event /\ Target(d) \in q.to THEN NewRow ELSE rows[d]]
    /\ clock' = clock + 1
    /\ UNCHANGED <<enabled, endpoints, published, procs, net, bounds>>

\* ... or fails to: DomainEventService logs the error and goes on.
LoseRows(q) ==
    /\ faults < MaxFaults
    /\ faults' = faults + 1
    /\ queueing' = queueing \ {q}
    /\ UNCHANGED <<tables, published, procs, net, requests>>

-----------------------------------------------------------------------------
(* The worker. *)

\* Mutant: processDueDeliveries does not look at `running`.
NeverRunning(p) == FALSE

\* A pass of the same instance is still running.
Running(p) == \E q \in Passes : InstanceOf[q] = InstanceOf[p] /\ pc[q] # "idle"

\* runPass reads the Batch oldest rows that are due.
Oldest(ds) ==
    /\ \A d \in ds : IsDue(d)
    /\ Cardinality(ds) <= Batch
    /\ \A d \in Deliveries \ ds : IsDue(d) =>
         Cardinality(ds) = Batch /\ \A b \in ds : rows[b].made <= rows[d].made

StartPass(p) ==
    /\ pc[p] = "idle"
    /\ ~Running(p)
    /\ \E ds \in SUBSET {d \in Deliveries : IsDue(d)} :
         /\ ds # {} /\ Oldest(ds)
         /\ \E first \in ds :
              /\ \A d \in ds : rows[first].made <= rows[d].made
              /\ cur' = [cur EXCEPT ![p] = CopyOf(first)]
              /\ todo' = [todo EXCEPT ![p] = {CopyOf(d) : d \in ds \ {first}}]
    /\ pc' = [pc EXCEPT ![p] = "lookup"]
    /\ UNCHANGED <<tables, queue, result, net, bounds>>

\* A pass goes on to its next row, whatever became of this one; a request ends.
Proceed(p) ==
    /\ result' = [result EXCEPT ![p] = "none"]
    /\ IF todo[p] = {}
       THEN /\ pc' = [pc EXCEPT ![p] = "idle"]
            /\ cur' = [cur EXCEPT ![p] = NoCopy]
            /\ UNCHANGED todo
       ELSE \E c \in todo[p] :
              /\ \A x \in todo[p] : rows[c.row].made <= rows[x.row].made
              /\ pc' = [pc EXCEPT ![p] = "lookup"]
              /\ cur' = [cur EXCEPT ![p] = c]
              /\ todo' = [todo EXCEPT ![p] = @ \ {c}]

\* deliverNow looks the endpoint up; one that is gone or paused is a permanent
\* failure, which is returned and never recorded.
Usable(e) == endpoints[e].exists /\ endpoints[e].active

LookupOk(p) ==
    /\ pc[p] = "lookup"
    /\ Usable(Target(cur[p].row))
    /\ pc' = [pc EXCEPT ![p] = "post"]
    /\ UNCHANGED <<tables, queue, cur, todo, result, net, bounds>>

LookupFails(p) ==
    /\ pc[p] = "lookup"
    /\ ~Usable(Target(cur[p].row))
    /\ Proceed(p)
    /\ UNCHANGED <<tables, queue, net, bounds>>

\* attemptDelivery posts.  The receiver accepts or refuses; a timeout, a 5xx, 408
\* or 429 is tried again, another 4xx or an unusable target is not.
Post(p, r) ==
    LET d == cur[p].row IN
    /\ pc[p] = "post"
    /\ r \in Results \ {"none"}
    /\ posts' = [posts EXCEPT ![d] = @ + 1]
    /\ received' = IF r = "ok" THEN [received EXCEPT ![d] = @ + 1] ELSE received
    /\ result' = [result EXCEPT ![p] = r]
    /\ pc' = [pc EXCEPT ![p] = "save"]
    /\ UNCHANGED <<tables, queue, cur, todo, bounds>>

\* The receiver accepts, and the answer is lost or comes after the timeout.
PostAnswerLost(p) ==
    LET d == cur[p].row IN
    /\ pc[p] = "post"
    /\ faults < MaxFaults
    /\ faults' = faults + 1
    /\ posts' = [posts EXCEPT ![d] = @ + 1]
    /\ received' = [received EXCEPT ![d] = @ + 1]
    /\ result' = [result EXCEPT ![p] = "again"]
    /\ pc' = [pc EXCEPT ![p] = "save"]
    /\ UNCHANGED <<tables, queue, cur, todo, requests>>

\* Mutants of Outcome: one attempt too many; a failure that could be tried again
\* counts as delivered.
OutcomeOneMore(r, n) ==
    CASE r = "ok" -> "DELIVERED"
      [] r = "permanent" \/ (r # "ok" /\ n > MaxAttempts) -> "FAILED"
      [] OTHER -> "QUEUED"
OutcomeHopeful(r, n) == IF r = "permanent" \/ n >= MaxAttempts THEN "FAILED" ELSE "DELIVERED"

\* applyResult: the status after attempt n ended with r.
Outcome(r, n) ==
    CASE r = "ok" -> "DELIVERED"
      [] r = "permanent" \/ (r # "ok" /\ n >= MaxAttempts) -> "FAILED"
      [] OTHER -> "QUEUED"

\* Mutant: attempts are counted down.
CountsDown(n) == n - 1

Attempt(n) == n + 1

\* applyResult saves the copy, which was read before the post.
SaveResult(p) ==
    LET c == cur[p]
        n == Attempt(c.attempts)
    IN  /\ pc[p] = "save"
        /\ rows' = [rows EXCEPT ![c.row].status = Outcome(result[p], n),
                                ![c.row].attempts = n,
                                ![c.row].due = FALSE]
        /\ Proceed(p)
        /\ UNCHANGED <<enabled, endpoints, clock, queue, net, bounds>>

\* The save throws: a pass logs it and goes on.
SaveResultFails(p) ==
    /\ pc[p] = "save"
    /\ faults < MaxFaults
    /\ faults' = faults + 1
    /\ Proceed(p)
    /\ UNCHANGED <<tables, queue, net, requests>>

\* The backoff of a row ends.
BecomeDue(d) ==
    /\ Queued(d) /\ ~rows[d].due
    /\ rows' = [rows EXCEPT ![d].due = TRUE]
    /\ UNCHANGED <<enabled, endpoints, clock, queue, procs, net, bounds>>

\* An instance dies: its passes and requests are gone, the rows are as they were.
Crash(p) ==
    /\ pc[p] # "idle"
    /\ faults < MaxFaults
    /\ faults' = faults + 1
    /\ pc' = [pc EXCEPT ![p] = "idle"]
    /\ cur' = [cur EXCEPT ![p] = NoCopy]
    /\ todo' = [todo EXCEPT ![p] = {}]
    /\ result' = [result EXCEPT ![p] = "none"]
    /\ UNCHANGED <<tables, queue, net, requests>>

-----------------------------------------------------------------------------
(* Administrators. *)

Ask(k) ==
    /\ enabled
    /\ pc[k] = "idle"
    /\ requests < MaxRequests
    /\ requests' = requests + 1

\* retryIntegrationDelivery refuses what was delivered when it was read.
MayRetry(d) == rows[d].status \in {"QUEUED", "FAILED"}

RetryDelivery(k, d) ==
    /\ Ask(k)
    /\ MayRetry(d)
    /\ cur' = [cur EXCEPT ![k] = CopyOf(d)]
    /\ pc' = [pc EXCEPT ![k] = "lookup"]
    /\ UNCHANGED <<tables, queue, todo, result, net, faults>>

\* testIntegrationEndpoint saves a row that is due at once, then delivers it.
TestEndpoint(k, d) ==
    /\ Ask(k)
    /\ d[1] \in Pings /\ rows[d].status = "NONE"
    /\ endpoints[Target(d)].exists
    /\ rows' = [rows EXCEPT ![d] = NewRow]
    /\ clock' = clock + 1
    /\ cur' = [cur EXCEPT ![k] = [NoCopy EXCEPT !.row = d]]
    /\ pc' = [pc EXCEPT ![k] = "lookup"]
    /\ UNCHANGED <<enabled, endpoints, queue, todo, result, net, faults>>

CreateEndpoint(e, on, evs) ==
    /\ enabled
    /\ ~endpoints[e].exists /\ ~endpoints[e].deleted
    /\ endpoints' = [endpoints EXCEPT ![e] = NewEndpoint(on, evs)]
    /\ UNCHANGED <<enabled, rows, clock, queue, procs, net, bounds>>

\* updateIntegrationEndpoint and toggleIntegrationEndpoint read the endpoint ...
EditEndpoint(k, e, on, evs) ==
    /\ MayChange
    /\ Ask(k)
    /\ endpoints[e].exists
    /\ cur' = [cur EXCEPT ![k] =
                 [NoCopy EXCEPT !.row = CHOOSE d \in Deliveries : Target(d) = e,
                                !.endpoint = NewEndpoint(on, evs)]]
    /\ pc' = [pc EXCEPT ![k] = "edit"]
    /\ UNCHANGED <<tables, queue, todo, result, net, faults>>

ToggleEndpoint(k, e) == EditEndpoint(k, e, ~endpoints[e].active, endpoints[e].events)
UpdateEndpoint(k, e) ==
    \E on \in BOOLEAN, evs \in Subscriptions : EditEndpoint(k, e, on, evs)

\* ... and save what they read, with the change; an endpoint deleted meanwhile is
\* inserted again.
SaveEndpoint(k) ==
    /\ pc[k] = "edit"
    /\ endpoints' = [endpoints EXCEPT ![Target(cur[k].row)] =
                        [cur[k].endpoint EXCEPT !.deleted = endpoints[Target(cur[k].row)].deleted]]
    /\ pc' = [pc EXCEPT ![k] = "idle"]
    /\ cur' = [cur EXCEPT ![k] = NoCopy]
    /\ UNCHANGED <<enabled, rows, clock, queue, todo, result, net, bounds>>

\* deleteIntegrationEndpoint keeps the deliveries.
DeleteEndpoint(e) ==
    /\ MayChange
    /\ enabled
    /\ endpoints[e].exists
    /\ endpoints' = [endpoints EXCEPT ![e] = [NoEndpoint EXCEPT !.deleted = TRUE]]
    /\ UNCHANGED <<enabled, rows, clock, queue, procs, net, bounds>>

\* updateFlags turns the feature on or off.
SetEnabled(on) ==
    /\ MayChange \/ on
    /\ enabled # on
    /\ enabled' = on
    /\ UNCHANGED <<endpoints, rows, clock, queue, procs, net, bounds>>

-----------------------------------------------------------------------------
Init ==
    /\ enabled = FALSE
    /\ endpoints = [e \in Endpoints |-> NoEndpoint]
    /\ rows = [d \in Deliveries |-> NoRow]
    /\ clock = 0
    /\ queueing = {}
    /\ published = {}
    /\ pc = [p \in Procs |-> "idle"]
    /\ cur = [p \in Procs |-> NoCopy]
    /\ todo = [p \in Procs |-> {}]
    /\ result = [p \in Procs |-> "none"]
    /\ posts = [d \in Deliveries |-> 0]
    /\ received = [d \in Deliveries |-> 0]
    /\ requests = 0
    /\ faults = 0

\* The next step of a pass or of a request in flight.
Step(p) ==
    \/ LookupOk(p) \/ LookupFails(p)
    \/ \E r \in Results : Post(p, r)
    \/ SaveResult(p)
    \/ SaveEndpoint(p)

Mishap(p) == PostAnswerLost(p) \/ SaveResultFails(p) \/ Crash(p)

Admin(k) ==
    \/ \E d \in Deliveries : RetryDelivery(k, d) \/ TestEndpoint(k, d)
    \/ \E e \in Endpoints : ToggleEndpoint(k, e) \/ UpdateEndpoint(k, e)

Next ==
    \/ \E p \in Procs : Step(p) \/ Mishap(p)
    \/ \E p \in Passes : StartPass(p)
    \/ \E k \in Callers : Admin(k)
    \/ \E d \in Deliveries : BecomeDue(d)
    \/ \E ev \in Events : PublishEvent(ev)
    \/ \E q \in queueing : SaveRows(q) \/ LoseRows(q)
    \/ \E e \in Endpoints : DeleteEndpoint(e)
    \/ \E e \in Endpoints, on \in BOOLEAN, evs \in Subscriptions : CreateEndpoint(e, on, evs)
    \/ \E on \in BOOLEAN : SetEnabled(on)

Spec == Init /\ [][Next]_vars

\* The event loop runs what is in flight, cron ticks every minute, time passes.
Fairness ==
    /\ \A p \in Procs : WF_vars(Step(p))
    /\ \A p \in Passes : WF_vars(StartPass(p))
    /\ \A d \in Deliveries : WF_vars(BecomeDue(d))

FairSpec == Spec /\ Fairness

-----------------------------------------------------------------------------
(* Properties. *)

\* The shape of the tables and of what is in flight.
TypeOK ==
    /\ enabled \in BOOLEAN
    /\ endpoints \in [Endpoints -> Endpoint]
    /\ rows \in [Deliveries -> Row]
    /\ clock \in Nat
    /\ queueing \subseteq [event: Events, to: SUBSET Endpoints]
    /\ published \subseteq Events
    /\ pc \in [Procs -> PcValues]
    /\ cur \in [Procs -> Copy]
    /\ todo \in [Procs -> SUBSET Copy]
    /\ result \in [Procs -> Results]
    /\ posts \in [Deliveries -> Nat]
    /\ received \in [Deliveries -> Nat]
    /\ requests \in Nat
    /\ faults \in Nat

\* A delivery the worker will pick up again has an attempt left, although its
\* attempts are counted in a copy that may be older than the row.
QueuedHasAttemptsLeft == \A d \in Deliveries : Queued(d) => rows[d].attempts < MaxAttempts

\* A delivery is DELIVERED only if the receiver accepted it, whoever wrote last.
DeliveredWasReceived ==
    \A d \in Deliveries : rows[d].status = "DELIVERED" => received[d] > 0

\* What the rows say is so, however workers and administrators overlap.
RowsAreTrue == QueuedHasAttemptsLeft /\ DeliveredWasReceived

\* On one instance and without retries by hand, the receiver sees an event again
\* only for an answer that was lost, a save that failed or a crash.
NotDeliveredTwice == \A d \in Deliveries : received[d] <= 1 + faults

\* On one instance and without retries by hand, the receiver is asked MAX_ATTEMPTS
\* times at most, plus once for each attempt that could not be recorded.
PostsBounded == \A d \in Deliveries : posts[d] <= MaxAttempts + faults

\* Passes of one instance, however they tick and die, repeat a post only for a fault.
RepeatsArePaidFor == NotDeliveredTwice /\ PostsBounded

\* On one instance and without retries by hand, the table is a DeliveryQueue.
Promised == INSTANCE DeliveryQueue WITH
    status <- [d \in Deliveries |-> rows[d].status],
    tries  <- [d \in Deliveries |-> rows[d].attempts]

\* Every behaviour of the passes is one of a queue whose attempts are atomic.
ImplementsQueue == Promised!QSpec

\* A delivery of an endpoint that exists and is active ends: DELIVERED or FAILED.
DeliveryEnds ==
    \A d \in Deliveries :
        (Queued(d) /\ Usable(Target(d))) ~>
            (rows[d].status \in {"DELIVERED", "FAILED"} \/ ~Usable(Target(d)))

=============================================================================
