---------------------------- MODULE MCPlanLimits ----------------------------
(* Instances of PlanLimits for TLC. *)
EXTENDS PlanLimits, TLC

\* A batch is an import or a list of recipients; the rest come one at a time.
MCBatch == [r \in Resources |-> IF r \in {"contacts", "emails"} THEN 2 ELSE 1]

MCLimit == [t \in Tiers |-> [r \in Resources |-> IF t = "free" THEN 1 ELSE 2]]

\* Nothing has been asked of, nor set for, the resources in R.
Untouched(R) ==
    /\ \A r \in R : used[r] = 0 /\ ledger[r] = 0 /\ revived[r] = 0 /\ override.columns[r] = NoLimit
    /\ \A h \in Handlers : pc[h] # "idle" => op[h].res \notin R
    /\ \A a \in Operators : edit[a].keys \cap R = {}

\* Bound: either only what is counted in tables is used, or only what is metered, with
\* one change of the limits.
OnlyTables == Untouched(Metered) /\ months = 0
OnlyLedger == Untouched(Counted) /\ changes <= 1

MCNext == Next /\ (OnlyTables' \/ OnlyLedger')

MCSpec == Init /\ [][MCNext]_vars

\* Requests are alike and so are operators.
Symmetry == Permutations(Handlers) \cup Permutations(Operators)
=============================================================================
