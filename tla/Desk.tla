-------------------------------- MODULE Desk --------------------------------
(***************************************************************************)
(* How much may come in: the bound of what an organization's staff does    *)
(* beside payments and forms.  "chance" is what no one asks for: a death   *)
(* of the process, or an error of the database.                            *)
(***************************************************************************)
EXTENDS Naturals

CONSTANTS
    Clerks,    \* requests in flight
    Budgets    \* bound: per kind, how often something of it may come in; one is in force

VARIABLE
    left       \* what is left of the budget

Kinds == {"templates", "imports", "plans", "books", "broadcasts", "notices", "trail", "reports", "invites", "scans",
          "browser", "chance"}

ASSUME DeskAssumption == Budgets \subseteq [Kinds -> Nat]

DeskInit == left \in Budgets

May(kind) == left[kind] > 0
Comes(kind) == May(kind) /\ left' = [left EXCEPT ![kind] = @ - 1]

DeskTypeOK == left \in [Kinds -> Nat]
=============================================================================
