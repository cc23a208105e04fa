------------------------------- MODULE Reports -------------------------------
(***************************************************************************)
(* The figures an organization reads off its submissions and payments.     *)
(*                                                                         *)
(* A report is several queries, one after the other and in no transaction, *)
(* so that rows come, change and go between them.  A row is stamped when   *)
(* its transaction begins and seen when it commits.  What a query returns  *)
(* is the set of rows it counts: every payment counts as one unit of money.*)
(***************************************************************************)
EXTENDS Desk, FiniteSetsExt, Sequences

CONSTANTS
    Forms, Members, Units,   \* ids of forms, contacts and groups
    MaxRow,       \* bound: how many submissions there are at a time, and how many payments
    Readers,      \* reports under way
    Nobody,       \* no contact, no parent, no form
    DayOf,        \* the day of a moment
    MaxTodo       \* bound: how many groups a walk may have before it

VARIABLES
    forms,        \* the forms that are there
    submission,   \* the rows of submissions
    charge,       \* the rows of payments
    members,      \* contacts that are there, with the groups they are in
    parent,       \* of a group
    moment,       \* when the last row was committed
    report        \* per request: what it asks for, and what its queries have returned

reportVars == <<forms, submission, charge, members, parent, moment, report>>
tables == <<forms, submission, charge, members, parent, moment>>

ASSUME ReportsAssumption == Nobody \notin Forms \cup Members \cup Units /\ MaxTodo \in Nat /\ MaxRow \in Nat \ {0} /\ IsFiniteSet(Units)

-----------------------------------------------------------------------------
Submissions == 1..MaxRow
Charges == 1..MaxRow
Statuses == {"PAID", "PENDING", "FAILED", "PARTIAL"}
Later == MaxRow + MaxRow
Moments == 0..Later

SubmissionRow == [form: Forms, contact: Members \cup {Nobody}, made: Moments]
ChargeRow == [of: Submissions, status: Statuses, made: Moments]

\* The queries of each report, in their order.
Queries == [summary     |-> <<"forms", "contacts", "submissions", "payments">>,
            analytics   |-> <<"submissions", "payments", "payments">>,
            performance |-> <<"forms", "submissions", "payments">>,
            form        |-> <<"form", "submissions", "payments">>,
            groups      |-> <<"form", "groups", "walk", "payments">>]

Reader == [kind: DOMAIN Queries \cup {"none"}, form: Forms \cup {Nobody}, from: Moments, to: Moments,
           got: Seq(SUBSET (Forms \cup Members \cup Units \cup
               [id: Submissions, form: Forms, contact: Members \cup {Nobody}, made: Moments] \cup
               [id: Charges, of: Submissions, form: Forms, contact: Members \cup {Nobody},
                in: SUBSET Units, status: Statuses, made: Moments])),
           todo: Seq(Units), roots: SUBSET Units, visits: [Units -> 0 .. 2],
           since: [rows: SUBSET Submissions, charges: SUBSET Charges, moved: BOOLEAN]]
NoWrites == [rows |-> {}, charges |-> {}, moved |-> FALSE]
NoReader == [kind |-> "none", form |-> Nobody, from |-> 0, to |-> 0, got |-> <<>>,
             todo |-> <<>>, roots |-> {}, visits |-> [g \in Units |-> 0], since |-> NoWrites]

There(row) == {x \in DOMAIN row : row[x] # <<>>}

\* A write that the reports under way may notice: of these rows, or of a group's parent.
Noticed(since, rows, charges, moved) ==
    [rows |-> since.rows \cup rows, charges |-> since.charges \cup charges, moved |-> since.moved \/ moved]

Writes(rows, charges, moved) ==
    /\ Comes("reports")
    /\ report' = [r \in Readers |-> IF report[r].kind = "none" THEN report[r]
                                   ELSE [report[r] EXCEPT !.since = Noticed(@, rows, charges, moved)]]

-----------------------------------------------------------------------------
\* A row has the first free id.
IsNextRow(row, x) == row[x] = <<>> /\ \A y \in DOMAIN row : y < x => row[y] # <<>>

\* What the rest of the program does to the tables meanwhile.  A row becomes visible now, and
\* was stamped now or before.
Submitted(s, f, c, made) ==
    /\ IsNextRow(submission, s) /\ f \in forms /\ c \in DOMAIN members \cup {Nobody} /\ moment < Later
    /\ made <= moment + 1
    /\ moment' = moment + 1
    /\ submission' = [submission EXCEPT ![s] = [form |-> f, contact |-> c, made |-> made]]
    /\ Writes({s}, {}, FALSE)
    /\ UNCHANGED <<forms, charge, members, parent>>

\* A payment is stamped after its submission.
Billed(p, s, made) ==
    /\ IsNextRow(charge, p) /\ submission[s] # <<>> /\ moment < Later
    /\ submission[s].made <= made /\ made <= moment + 1
    /\ moment' = moment + 1
    /\ charge' = [charge EXCEPT ![p] = [of |-> s, status |-> "PENDING", made |-> made]]
    /\ Writes({}, {p}, FALSE)
    /\ UNCHANGED <<forms, submission, members, parent>>

Settled(p, status) ==
    /\ charge[p] # <<>>
    /\ charge' = [charge EXCEPT ![p].status = status]
    /\ Writes({}, {p}, FALSE)
    /\ UNCHANGED <<forms, submission, members, parent, moment>>

ChargesOf(s) == {p \in There(charge) : charge[p].of = s}
SubmissionsOf(c) == {s \in There(submission) : submission[s].contact = c}

\* A submission is purged, and its payments with it.
Purged(s) ==
    /\ submission[s] # <<>>
    /\ submission' = [submission EXCEPT ![s] = <<>>]
    /\ charge' = [p \in Charges |-> IF p \in ChargesOf(s) THEN <<>> ELSE charge[p]]
    /\ Writes({s}, ChargesOf(s), FALSE)
    /\ UNCHANGED <<forms, members, parent, moment>>

\* A contact is deleted: its submissions stay, and are nobody's.
ContactGone(c) ==
    /\ c \in DOMAIN members
    /\ members' = [d \in DOMAIN members \ {c} |-> members[d]]
    /\ submission' = [s \in Submissions |->
           IF s \in SubmissionsOf(c) THEN [submission[s] EXCEPT !.contact = Nobody] ELSE submission[s]]
    /\ Writes(SubmissionsOf(c), {}, FALSE)
    /\ UNCHANGED <<forms, charge, parent, moment>>

\* A form is created, or deleted: its submissions stay.
FormMade(f) ==
    /\ f \notin forms /\ \A s \in There(submission) : submission[s].form # f
    /\ forms' = forms \cup {f}
    /\ Writes({}, {}, FALSE)
    /\ UNCHANGED <<submission, charge, members, parent, moment>>

FormGone(f) ==
    /\ f \in forms
    /\ forms' = forms \ {f}
    /\ Writes({}, {}, FALSE)
    /\ UNCHANGED <<submission, charge, members, parent, moment>>

Joined(c, groups) ==
    /\ c \in DOMAIN members
    /\ members' = [members EXCEPT ![c] = groups]
    /\ Writes({}, {}, FALSE)
    /\ UNCHANGED <<forms, submission, charge, parent, moment>>

\* GroupService.update: a group moves below any other, or itself.
GroupMoved(g, h) ==
    /\ parent' = [parent EXCEPT ![g] = h]
    /\ Writes({}, {}, TRUE)
    /\ UNCHANGED <<forms, submission, charge, members, moment>>

-----------------------------------------------------------------------------
\* parseDateRange, and the range of the analytics, which end now unless told.
EndOf(kind, end) == IF end = "now" \/ (end = "none" /\ kind = "analytics") THEN moment ELSE Later

AskReport(r, kind, form, from, end) ==
    /\ report[r].kind = "none" /\ Comes("reports")
    /\ kind = "form" => form # Nobody
    /\ kind \notin {"form", "groups"} => form = Nobody
    /\ report' = [report EXCEPT ![r] = [NoReader EXCEPT !.kind = kind, !.form = form, !.from = from,
                                                         !.to = EndOf(kind, end)]]
    /\ UNCHANGED tables

\* Mutant: the breakdown, by another query builder, is not given the range.
OnlyTheFirst(q, made) == Len(q.got) >= 2 \/ (q.from <= made /\ made <= q.to)

InRange(q, made) == q.from <= made /\ made <= q.to
OfForm(q, form) == q.form \in {Nobody, form}

\* What a query returns: the rows in the range; a payment with what it is joined to.
Answer(q, name) ==
    CASE name = "forms"    -> forms
      [] name = "form"     -> forms \cap {q.form}
      [] name = "contacts" -> DOMAIN members
      [] name = "groups"   -> Units
      [] name = "submissions" ->
             {[id |-> s, form |-> submission[s].form, contact |-> submission[s].contact, made |-> submission[s].made] :
                s \in {t \in There(submission) : InRange(q, submission[t].made) /\ OfForm(q, submission[t].form)}}
      [] name = "payments" ->
             {LET s == submission[charge[p].of]
              IN [id |-> p, of |-> charge[p].of, form |-> s.form, contact |-> s.contact,
                  in |-> IF s.contact = Nobody THEN {} ELSE members[s.contact],
                  status |-> charge[p].status, made |-> charge[p].made] :
                p \in {x \in There(charge) : InRange(q, charge[x].made)
                                             /\ OfForm(q, submission[charge[x].of].form)}}

NextQuery(q) == Queries[q.kind][Len(q.got) + 1]
AtWork(r) == report[r].kind # "none" /\ Len(report[r].got) < Len(Queries[report[r].kind])

\* A form that is not there is refused; without forms there is no performance.
EndsEarly(q, name, rows) ==
    \/ name = "form" /\ q.form # Nobody /\ rows = {}
    \/ name = "forms" /\ q.kind = "performance" /\ rows = {}

\* The writes before a report's second query are of no matter.
Forgotten(q) == IF Len(q.got) <= 1 THEN [q.since EXCEPT !.rows = {}, !.charges = {}] ELSE q.since

Query(r) ==
    LET q == report[r]
        name == NextQuery(q)
        rows == Answer(q, name)
    IN  /\ AtWork(r) /\ name # "walk"
        /\ report' = [report EXCEPT ![r] =
               IF EndsEarly(q, name, rows) THEN NoReader
               ELSE [q EXCEPT !.got = Append(@, rows), !.since = Forgotten(q),
                              !.roots = IF name = "groups" THEN rows ELSE @]]
        /\ UNCHANGED <<left, tables>>

Children(g) == {h \in Units : parent[h] = g}

\* getAllSubgroupIdsForGroup: of each group of the organization the subgroups, of
\* each of those theirs ...
NextRoot(r, g) ==
    LET q == report[r]
    IN  /\ AtWork(r) /\ NextQuery(q) = "walk" /\ q.todo = <<>> /\ g \in q.roots
        /\ report' = [report EXCEPT ![r].roots = @ \ {g}, ![r].todo = <<g>>,
                                    ![r].visits = [h \in Units |-> 0]]
        /\ UNCHANGED <<left, tables>>

Descend(r, below) ==
    LET q == report[r]
        g == Head(q.todo)
    IN  /\ AtWork(r) /\ NextQuery(q) = "walk" /\ q.todo # <<>>
        /\ {below[i] : i \in DOMAIN below} = Children(g)
        /\ Len(below) = Cardinality(Children(g))
        /\ Len(below) + Len(q.todo) - 1 <= MaxTodo
        /\ report' = [report EXCEPT ![r].todo = below \o Tail(@),
                                    ![r].visits[g] = IF @ = 0 THEN 1 ELSE 2]
        /\ UNCHANGED <<left, tables>>

\* ... all kept in a map that the query of the contributions does not look at: there a
\* payment counts in every group its contact is itself in.
WalkEnds(r) ==
    /\ AtWork(r) /\ NextQuery(report[r]) = "walk" /\ report[r].todo = <<>> /\ report[r].roots = {}
    /\ report' = [report EXCEPT ![r].got = Append(@, {}), ![r].visits = [h \in Units |-> 0]]
    /\ UNCHANGED <<left, tables>>

Respond(r) ==
    /\ report[r].kind # "none" /\ ~AtWork(r)
    /\ report' = [report EXCEPT ![r] = NoReader]
    /\ UNCHANGED <<left, tables>>

\* The process dies, with its requests.
ReadersDie == report' = [r \in Readers |-> NoReader] /\ UNCHANGED tables

-----------------------------------------------------------------------------
\* The figures of a finished report.
ByDay(q, day, status) == Cardinality({p \in q.got[2] : p.status = status /\ DayOf[p.made] = day})
Breakdown(q, status) == Cardinality({p \in q.got[3] : p.status = status})

-----------------------------------------------------------------------------
ReportsInit ==
    /\ \E f \in Forms : forms = {f}
    /\ members = [c \in Members |-> {}]
    /\ parent = [g \in Units |-> Nobody]
    /\ \E f \in forms, c \in Members \cup {Nobody} :
          /\ submission = [t \in Submissions |-> IF t = 1 THEN [form |-> f, contact |-> c, made |-> 1] ELSE <<>>]
          /\ charge = [q \in Charges |-> IF q = 1 THEN [of |-> 1, status |-> "PENDING", made |-> 2] ELSE <<>>]
    /\ moment = 2
    /\ report = [r \in Readers |-> NoReader]

Orders(S) == {o \in [1 .. Cardinality(S) -> S] : \A i, j \in DOMAIN o : o[i] = o[j] => i = j}

ReportStep(r) ==
    \/ May("reports") /\ \E kind \in DOMAIN Queries, form \in Forms \cup {Nobody},
                           from \in {0, moment}, end \in {"none", "now", "later"} :
          AskReport(r, kind, form, from, end)
    \/ Query(r)
    \/ \E g \in Units : NextRoot(r, g)
    \/ report[r].todo # <<>> /\ \E S \in SUBSET Units : \E below \in Orders(S) : Descend(r, below)
    \/ WalkEnds(r) \/ Respond(r)

TablesMove ==
    \/ \E s \in Submissions :
          \/ \E f \in Forms, c \in Members \cup {Nobody}, made \in Moments : Submitted(s, f, c, made)
          \/ \E p \in Charges, made \in Moments : Billed(p, s, made)
          \/ Purged(s)
    \/ \E p \in Charges, status \in Statuses : Settled(p, status)
    \/ \E c \in Members : ContactGone(c) \/ \E groups \in SUBSET Units : Joined(c, groups)
    \/ \E f \in Forms : FormMade(f) \/ FormGone(f)
    \/ \E g \in Units, h \in Units \cup {Nobody} : GroupMoved(g, h)

ReportsNext == (\E r \in Readers : ReportStep(r)) \/ (May("reports") /\ TablesMove)

-----------------------------------------------------------------------------
ReportsTypeOK ==
    /\ forms \subseteq Forms
    /\ submission \in [Submissions -> SubmissionRow \cup {<<>>}]
    /\ charge \in [Charges -> ChargeRow \cup {<<>>}]
    /\ DOMAIN members \subseteq Members /\ \A c \in DOMAIN members : members[c] \subseteq Units
    /\ parent \in [Units -> Units \cup {Nobody}]
    /\ moment \in Moments
    /\ report \in [Readers -> Reader]

Finished(kind) == {report[r] : r \in {x \in Readers : report[x].kind = kind /\ ~AtWork(x)}}

\* The days of the analytics and their breakdown are two queries: they differ by no more
\* payments than were written between them.
DaysAddUp ==
    \A q \in Finished("analytics"), status \in Statuses :
        LET days == MapThenSumSet(LAMBDA day : ByDay(q, day, status), {DayOf[m] : m \in Moments})
            written == Cardinality(q.since.charges)
        IN  days <= Breakdown(q, status) + written /\ Breakdown(q, status) <= days + written

\* Every payment of a form's report is of a submission the report has read before, of the
\* same contact, unless one of the two was written meanwhile or the range has a start: a
\* submission may lie before it, and its payment after.
PaymentsHaveSubmissions ==
    \A q \in Finished("form") :
        q.from = 0 =>
            \A p \in q.got[3] :
                p.id \in q.since.charges \/ p.of \in q.since.rows \/
                \E s \in q.got[2] : s.id = p.of /\ s.contact = p.contact

\* A group that comes up twice below another is on a circle, or was moved meanwhile.
OnCircle == \E S \in SUBSET Units \ {{}} : \A g \in S : parent[g] \in S

WalkVisitsOnce ==
    \A r \in Readers : \A g \in Units :
        report[r].visits[g] = 2 => OnCircle \/ report[r].since.moved

ReportsHold == DaysAddUp /\ PaymentsHaveSubmissions /\ WalkVisitsOnce
=============================================================================
