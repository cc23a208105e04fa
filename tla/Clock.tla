------------------------------- MODULE Clock -------------------------------
(***************************************************************************)
(* The days, and how much may come in: the bound of the modules below.     *)
(***************************************************************************)
EXTENDS Naturals

CONSTANTS
    MaxDay,    \* bound: the last day
    Budgets    \* bound: per kind, how often something of it may come in; one is in force

VARIABLES
    day,       \* the first day is 1
    left       \* what is left of the budget

Kinds == {"directory", "reminders", "jobs", "crashes", "days"}

ASSUME ClockAssumption == MaxDay \in Nat \ {0} /\ Budgets \subseteq [Kinds -> Nat]

ClockInit == day = 1 /\ left \in Budgets

Comes(kind) == left[kind] > 0 /\ left' = [left EXCEPT ![kind] = @ - 1]

NextDay == day < MaxDay /\ Comes("days") /\ day' = day + 1

ClockTypeOK == day \in 1..MaxDay /\ left \in [Kinds -> Nat]
=============================================================================
