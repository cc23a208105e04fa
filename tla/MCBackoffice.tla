---------------------------- MODULE MCBackoffice ----------------------------
(* Instances of Backoffice for TLC. *)
EXTENDS Backoffice, TLC

\* One kind, or two that meet, comes in at a time.
Of(kinds) == [k \in Kinds |-> IF k \in DOMAIN kinds THEN kinds[k] ELSE 0]

MCBudgets ==
    { Of("templates" :> 3), Of("templates" :> 2 @@ "chance" :> 1),
      Of("templates" :> 2 @@ "imports" :> 1), Of("imports" :> 3), Of("imports" :> 2 @@ "chance" :> 1),
      Of("plans" :> 3), Of("plans" :> 2 @@ "chance" :> 1), Of("books" :> 3), Of("books" :> 2 @@ "chance" :> 1),
      Of("broadcasts" :> 2 @@ "chance" :> 1),
      Of("trail" :> 2), Of("trail" :> 1 @@ "chance" :> 1),
      Of("notices" :> 3 @@ "chance" :> 1),
      Of("reports" :> 2), Of("reports" :> 1 @@ "chance" :> 1),
      Of("invites" :> 4), Of("invites" :> 3 @@ "chance" :> 1), Of("scans" :> 5), Of("scans" :> 4 @@ "chance" :> 1),
      Of("browser" :> 5) }

R(e, f) == [email |-> e, full |-> f]
MCPayloads == {<<R("a", TRUE)>>, <<R("a", FALSE), R("b", TRUE)>>}

A(u, o, m) == [user |-> u, org |-> o, mail |-> m]
MCAdmins == {A("u1", "o1", "x"), A("u2", "o1", "x")}
MCOffices == {A("none", "o2", "f")}

MCDayOf == 0 :> 1 @@ 1 :> 1 @@ 2 :> 1 @@ 3 :> 2 @@ 4 :> 2

\* Bound: where nothing comes in, it starts from nothing.  One form is like another, and every
\* organization by itself can be asked for, so that the segment starts as all of them.
No(kind) == left[kind] = 0

MCInit ==
    /\ DeskInit
    /\ ImportsInit /\ (No("templates") /\ No("imports") => \A t \in Templates : ~template[t].here)
    /\ MarketInit /\ (No("books") => \A e \in Entries : entry[e] = "fine")
    /\ BroadcastsInit /\ segment = (IF No("broadcasts") THEN {} ELSE Orgs)
    /\ TrailInit /\ (No("trail") => day = 0 /\ \A k \in Kept : limit[k] = 1)
    /\ NoticesInit /\ (No("notices") => \A n \in Notices : notice[n] = NoNotice)
    /\ EnrolmentInit /\ (No("invites") => \A p \in Pairs : invitation[p] = NoInvitation)
    /\ ScansInit /\ (No("scans") => card[CHOOSE b \in Bearers : TRUE].token = 1)
    /\ BrowserInit /\ (No("browser") => cookie = NoOne)
    /\ ReportsInit /\ forms = {CHOOSE f \in Forms : TRUE} /\ (No("reports") => submission[1].contact = Nobody)

MCSpec == MCInit /\ [][Next]_vars

Symmetry == Permutations(Clerks)
=============================================================================
