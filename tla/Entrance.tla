------------------------------ MODULE Entrance ------------------------------
(***************************************************************************)
(* How much may come in: the bound of PublicForms and ContactPortal.       *)
(* "chance" is what no one asks for: a death of the process, an error, an  *)
(* entry of the cache whose time is over.                                  *)
(***************************************************************************)
EXTENDS Naturals

CONSTANT
    Budgets    \* bound: per kind, how often something of it may come in; one is in force

VARIABLE
    left       \* what is left of the budget

Kinds == {"edits", "visits", "portal", "chance"}

ASSUME EntranceAssumption == Budgets \subseteq [Kinds -> Nat]

EntranceInit == left \in Budgets

Comes(kind) == left[kind] > 0 /\ left' = [left EXCEPT ![kind] = @ - 1]

EntranceTypeOK == left \in [Kinds -> Nat]
=============================================================================
