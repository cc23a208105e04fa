------------------------------ MODULE MCIntake ------------------------------
(* Instances of Intake for TLC. *)
EXTENDS Intake, TLC

Budget(edits, visits, portal, chance) ==
    "edits" :> edits @@ "visits" :> visits @@ "portal" :> portal @@ "chance" :> chance

MCBudgets == {Budget(2, 1, 0, 1), Budget(1, 2, 0, 1), Budget(1, 1, 1, 0), Budget(0, 2, 1, 0), Budget(0, 1, 3, 0),
              Budget(0, 0, 3, 1)}
Symmetry == Permutations(Editors) \cup Permutations(Visits)
=============================================================================
