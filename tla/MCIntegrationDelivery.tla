----------------------- MODULE MCIntegrationDelivery -----------------------
(* Instances of IntegrationDelivery for TLC. *)
EXTENDS IntegrationDelivery, TLC

CONSTANTS p1, p2, i1, i2, ev1

\* One backend instance, whose cron can tick while a pass is running.
MCOneInstance == [p \in Passes |-> i1]

\* Two backend instances with a worker each.
MCTwoInstances == (p1 :> i1) @@ (p2 :> i2)

\* Endpoints subscribe to everything ...
MCEverything == {{}}

\* ... or to a list.
MCLists == {{}, {ev1}}

MCSameInstance == Permutations({p1, p2})

=============================================================================
