----------------------------- MODULE MCOutreach -----------------------------
(* Instances of Outreach for TLC. *)
EXTENDS Outreach, TLC

MCFirstNames == <<"a", "b">>
MCPaths      == {<<"a", "c">>, <<"b">>}

Budget(dir, rem, jobs, crashes, days) ==
    "directory" :> dir @@ "reminders" :> rem @@ "jobs" :> jobs @@ "crashes" :> crashes @@ "days" :> days

\* Everyone is reminded at most once in two days, or only those who have owed
\* something for a day, or no one, or those in the groups of the beginning.
MCEveryone ==
    [enabled |-> TRUE, audience |-> {}, threshold |-> 0, overdue |-> 0, cooldown |-> 2]

MCPolicies ==
    {MCEveryone, [MCEveryone EXCEPT !.overdue = 1], [MCEveryone EXCEPT !.enabled = FALSE],
     [MCEveryone EXCEPT !.audience = {1, 2}, !.threshold = 2]}

\* One part of the organization at work with little of the others.

MCBudgets ==
    {Budget(2, 0, 0, 1, 0), Budget(1, 2, 0, 0, 0), Budget(0, 2, 0, 1, 2), Budget(0, 0, 4, 1, 1)}

\* A second contact owes something where there are only reminders.
MCFirstContacts ==
    [b \in Budgets |-> IF b["directory"] = 0 THEN Contacts ELSE {CHOOSE c \in Contacts : TRUE}]

\* Reminders while one contact changes groups.
MCGroupsOnly == {Budget(1, 2, 0, 0, 0)}
=============================================================================
