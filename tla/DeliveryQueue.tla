---------------------------- MODULE DeliveryQueue ----------------------------
(***************************************************************************)
(* What the delivery worker promises an organization about each event and  *)
(* endpoint: an attempt is one step that is counted, a delivery that was   *)
(* DELIVERED or FAILED is never touched again, and it FAILED only by a     *)
(* permanent refusal or by the last of MaxAttempts attempts.               *)
(***************************************************************************)
EXTENDS Integers

CONSTANTS Deliveries, MaxAttempts

VARIABLES status, tries

qvars == <<status, tries>>

QInit ==
    /\ status = [d \in Deliveries |-> "NONE"]
    /\ tries = [d \in Deliveries |-> 0]

\* The rows of one event are queued together.
Enqueue(ds) ==
    /\ \A d \in ds : status[d] = "NONE"
    /\ status' = [d \in Deliveries |-> IF d \in ds THEN "QUEUED" ELSE status[d]]
    /\ UNCHANGED tries

Try(d, s) ==
    /\ status[d] = "QUEUED"
    /\ tries' = [tries EXCEPT ![d] = @ + 1]
    /\ status' = [status EXCEPT ![d] = s]
    /\ s = "QUEUED" => tries[d] + 1 < MaxAttempts

QNext ==
    \/ \E ds \in SUBSET Deliveries : Enqueue(ds)
    \/ \E d \in Deliveries, s \in {"DELIVERED", "FAILED", "QUEUED"} : Try(d, s)

QSpec == QInit /\ [][QNext]_qvars

=============================================================================
