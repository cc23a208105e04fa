------------------------------- MODULE Imports -------------------------------
(***************************************************************************)
(* The import of contacts: templates say what a row must have, a list of   *)
(* rows is validated into a job, and a job is committed.                   *)
(*                                                                         *)
(* An organization names its default template, and the template is marked  *)
(* as the default: two tables, written one after the other.  A validation  *)
(* records the template it used by reading it again.  A commit inserts the *)
(* rows, all or none, and then saves the job it read at its start.         *)
(***************************************************************************)
EXTENDS Desk, Sequences, FiniteSets

CONSTANTS
    Templates,      \* ids
    NoTemplate,     \* NULL; as the template of a validation, the one that is built in
    Names,          \* of templates
    MaxJob,         \* bound: the jobs there will ever be
    Payloads        \* bound: the lists of rows there are, of Row

VARIABLES
    template,       \* contact_import_templates
    default,        \* default_import_template_id of the organization, which has no foreign key
    job,            \* contact_imports
    application,    \* contact_import_job_applications, by job
    contact,        \* the e-mail addresses that contacts have
    clerk,          \* per request: the operation, where it is, and what it has read
    checked,        \* history: the template a job's rows were validated against, as it was
    made,           \* history: how often the rows of a job were inserted
    moved,          \* history: jobs whose template was written while they were validated, or whose
                    \*   validation an error or a death cut off after the job was saved
    cut,            \* history: jobs that two requests committed at once, or one left halfway
    upset           \* history: an operation on templates overlapped another or failed midway

importVars == <<template, default, job, application, contact, clerk, checked, made, moved, cut, upset>>

ASSUME ImportsAssumption == NoTemplate \notin Templates /\ MaxJob \in Nat \ {0} /\ Names # {} /\ Payloads # {}

Jobs == 1..MaxJob

-----------------------------------------------------------------------------
\* What templates ask for: rows that have everything, or name and address only.
Configs == {"name", "all"}

Emails == UNION {{p[i].email : i \in DOMAIN p} : p \in Payloads}
Row == [email: Emails, full: BOOLEAN]

TemplateRow == [here: BOOLEAN, name: Names, is_default: BOOLEAN, config: Configs]
NoRow == [here |-> FALSE, name |-> CHOOSE n \in Names : TRUE, is_default |-> FALSE, config |-> "name"]

\* The template that is built in asks for a name and an address.
Config(t) == IF t = NoTemplate THEN "name" ELSE template[t].config

JobRow == [status: {"none", "VALIDATED", "FAILED", "COMPLETED"},
           template: Templates \cup {NoTemplate}, payload: Payloads]
NoJob == [status |-> "none", template |-> NoTemplate, payload |-> CHOOSE p \in Payloads : TRUE]

NoApplication == [template |-> NoTemplate, snapshot |-> "none"]

Places == {"idle", "unset", "point", "clear", "save", "count", "delete",
           "resolve", "check", "job", "reread", "apply",
           "exist", "insert", "complete", "failed", "rows"}

Clerk == [at: Places, template: Templates \cup {NoTemplate}, row: TemplateRow,
          job: Jobs, copy: JobRow, config: Configs, new: BOOLEAN]
NoClerk == [at |-> "idle", template |-> NoTemplate, row |-> NoRow, job |-> 1,
            copy |-> NoJob, config |-> "name", new |-> FALSE]

ClerkBegins(r, kind, new) ==
    /\ clerk[r].at = "idle"
    /\ Comes(kind)
    /\ clerk' = [clerk EXCEPT ![r] = new]

ClerkTurns(r, new) == clerk' = [clerk EXCEPT ![r] = new] /\ UNCHANGED left
Moves(r, at) == ClerkTurns(r, [clerk[r] EXCEPT !.at = at])

templateVars == <<template, default, upset>>
jobVars == <<job, application, contact, checked, made, moved, cut>>

-----------------------------------------------------------------------------
(* Templates. *)

Editing == {"unset", "point", "clear", "save", "count", "delete"}
Others(r) == {q \in Clerks \ {r} : clerk[q].at \in Editing}

Opens(r, new) ==
    /\ ClerkBegins(r, "templates", new)
    /\ upset' = (upset \/ Others(r) # {})
    /\ UNCHANGED <<template, default, jobVars>>

\* Validations that have used template t and have not read it again.
Validating(t) == {q \in Clerks : clerk[q].at \in {"check", "job", "reread"} /\ clerk[q].template = t}

\* createTemplate; a default one first takes the mark from the others.
AskCreate(r, t, row) ==
    /\ ~template[t].here /\ default # t
    /\ \A q \in Clerks : clerk[q].template # t /\ clerk[q].copy.template # t
    /\ Opens(r, [NoClerk EXCEPT !.at = IF row.is_default THEN "unset" ELSE "save",
                                !.template = t, !.row = row, !.new = TRUE])

\* updateTemplate reads the template and changes the copy; only a change of the mark
\* touches the others, or the organization.
AskUpdate(r, t, row) ==
    LET was == template[t].is_default
        at == IF row.is_default = was THEN "save" ELSE IF was THEN "clear" ELSE "unset"
    IN  /\ template[t].here
        /\ Opens(r, [NoClerk EXCEPT !.at = at, !.template = t, !.row = row])

UnsetOthers(r) ==
    /\ clerk[r].at = "unset"
    /\ template' = [t \in Templates |-> [template[t] EXCEPT !.is_default = FALSE]]
    /\ Moves(r, IF clerk[r].new THEN "save" ELSE "point")
    /\ UNCHANGED <<default, upset, jobVars>>

\* The organization's reference, before an existing template is saved, after a new one.
PointOrganization(r) ==
    /\ clerk[r].at = "point"
    /\ default' = clerk[r].template
    /\ IF clerk[r].new THEN ClerkTurns(r, NoClerk) ELSE Moves(r, "save")
    /\ UNCHANGED <<template, upset, jobVars>>

\* Mutant: the reference stays.
KeepOrganization(r) ==
    /\ clerk[r].at = "clear"
    /\ default' = default
    /\ Moves(r, "save")
    /\ UNCHANGED <<template, upset, jobVars>>

ClearOrganization(r) ==
    /\ clerk[r].at = "clear"
    /\ default' = NoTemplate
    /\ Moves(r, "save")
    /\ UNCHANGED <<template, upset, jobVars>>

\* The unique index on the name.
NameTaken(t, row) == \E u \in Templates \ {t} : template[u].here /\ template[u].name = row.name

\* The whole copy; a template that is gone is inserted again.
SaveTemplate(r) ==
    LET c == clerk[r]
    IN  /\ c.at = "save" /\ ~NameTaken(c.template, c.row)
        /\ template' = [template EXCEPT ![c.template] = c.row]
        /\ moved' = moved \cup {clerk[q].job : q \in Validating(c.template)}
        /\ IF c.new /\ c.row.is_default THEN Moves(r, "point") ELSE ClerkTurns(r, NoClerk)
        /\ UNCHANGED <<default, upset, job, application, contact, checked, made, cut>>

\* An operation that changes the mark and fails has changed the others, or the
\* organization, already.
SaveRefused(r) ==
    LET c == clerk[r]
    IN  /\ c.at = "save"
        /\ \/ NameTaken(c.template, c.row) /\ UNCHANGED left
           \/ Comes("chance")
        /\ upset' = (upset \/ c.row.is_default # template[c.template].is_default)
        /\ clerk' = [clerk EXCEPT ![r] = NoClerk]
        /\ UNCHANGED <<template, default, jobVars>>

\* deleteTemplate: the default stays, by its mark; so does the last.
AskDelete(r, t) ==
    /\ template[t].here /\ ~template[t].is_default
    /\ Opens(r, [NoClerk EXCEPT !.at = "count", !.template = t])

Remaining == Cardinality({t \in Templates : template[t].here})

CountTemplates(r) ==
    /\ clerk[r].at = "count"
    /\ IF Remaining <= 1 THEN ClerkTurns(r, NoClerk) ELSE Moves(r, "delete")
    /\ UNCHANGED <<templateVars, jobVars>>

\* The foreign keys of jobs and applications let go.
DeleteTemplate(r) ==
    LET t == clerk[r].template
    IN  /\ clerk[r].at = "delete"
        /\ template' = [template EXCEPT ![t] = NoRow]
        /\ job' = [j \in Jobs |-> IF job[j].template = t THEN [job[j] EXCEPT !.template = NoTemplate] ELSE job[j]]
        /\ application' = [j \in Jobs |-> IF application[j].template = t
                             THEN [application[j] EXCEPT !.template = NoTemplate] ELSE application[j]]
        /\ moved' = moved \cup {clerk[q].job : q \in {p \in Clerks : clerk[p].at \in {"check", "job", "reread", "apply"}
                                                                /\ clerk[p].template = t}}
        /\ ClerkTurns(r, NoClerk)
        /\ UNCHANGED <<default, upset, contact, checked, made, cut>>

-----------------------------------------------------------------------------
(* Validation. *)

Unused(j) ==
    job[j].status = "none"
    /\ \A q \in Clerks : clerk[q].job = j => clerk[q].at \notin {"resolve", "check", "job"}

\* Bound: the next id.
Free(j) == Unused(j) /\ \A i \in Jobs : i < j => ~Unused(i)

\* resolveTemplateForImport, of the template asked for ...
AskValidate(r, j, p, t) ==
    /\ Free(j) /\ template[t].here
    /\ ClerkBegins(r, "imports", [NoClerk EXCEPT !.at = "check", !.template = t, !.job = j,
                               !.copy = [NoJob EXCEPT !.payload = p], !.config = Config(t)])
    /\ UNCHANGED <<templateVars, jobVars>>

\* ... or of the default: the organization is read first ...
AskValidateByDefault(r, j, p) ==
    /\ Free(j)
    /\ ClerkBegins(r, "imports", [NoClerk EXCEPT !.at = "resolve", !.template = default, !.job = j,
                               !.copy = [NoJob EXCEPT !.payload = p]])
    /\ UNCHANGED <<templateVars, jobVars>>

\* ... then the template it names, if it is there, or one with the mark, or the one built in.
DefaultTemplates(t) ==
    LET marked == {u \in Templates : template[u].here /\ template[u].is_default}
    IN  IF t # NoTemplate /\ template[t].here THEN {t}
        ELSE IF marked # {} THEN marked ELSE {NoTemplate}

ResolveTemplate(r) ==
    /\ clerk[r].at = "resolve"
    /\ \E t \in DefaultTemplates(clerk[r].template) :
          ClerkTurns(r, [clerk[r] EXCEPT !.at = "check", !.template = t, !.config = Config(t)])
    /\ UNCHANGED <<templateVars, jobVars>>

Addresses(p) == {p[i].email : i \in DOMAIN p}
Repeats(p) == \E i, k \in DOMAIN p : i # k /\ p[i].email = p[k].email

\* What the template asks of every row ...
Complete(p, config) == config = "all" => \A i \in DOMAIN p : p[i].full

\* ... and validateRow, against the contacts there are.
Accepted(p, config) ==
    /\ ~Repeats(p)
    /\ Addresses(p) \cap contact = {}
    /\ Complete(p, config)

CheckRows(r) ==
    LET c == clerk[r]
        status == IF Accepted(c.copy.payload, c.config) THEN "VALIDATED" ELSE "FAILED"
    IN  /\ c.at = "check"
        /\ ClerkTurns(r, [c EXCEPT !.at = "job", !.copy.status = status, !.copy.template = c.template])
        /\ UNCHANGED <<templateVars, jobVars>>

\* The foreign keys of jobs and applications refuse a template that is gone.
Missing(t) == t # NoTemplate /\ ~template[t].here

SaveJob(r) ==
    LET c == clerk[r]
    IN  /\ c.at = "job"
        /\ IF Missing(c.template) THEN ClerkTurns(r, NoClerk) /\ UNCHANGED <<job, checked>>
           ELSE /\ job' = [job EXCEPT ![c.job] = c.copy]
                /\ checked' = [checked EXCEPT ![c.job] = c.config]
                /\ Moves(r, "reread")
        /\ UNCHANGED <<templateVars, application, contact, made, moved, cut>>

\* recordTemplateUsage looks the template up again, and gives up if it is gone; the
\* job stays, without an application.
Reread(c) == Config(c.template)

RereadTemplate(r) ==
    LET c == clerk[r]
    IN  /\ c.at = "reread"
        /\ ClerkTurns(r, IF Missing(c.template) THEN NoClerk ELSE [c EXCEPT !.at = "apply", !.config = Reread(c)])
        /\ UNCHANGED <<templateVars, jobVars>>

SaveApplication(r) ==
    LET c == clerk[r]
    IN  /\ c.at = "apply"
        /\ application' = IF Missing(c.template) THEN application
                          ELSE [application EXCEPT ![c.job] = [template |-> c.template, snapshot |-> c.config]]
        /\ ClerkTurns(r, NoClerk)
        /\ UNCHANGED <<templateVars, job, contact, checked, made, moved, cut>>

-----------------------------------------------------------------------------
(* Commit, and the import of rows without a job, which bulkImport does for both. *)

Committing(j) == {q \in Clerks : clerk[q].at \in {"exist", "insert", "complete", "failed"}
                                 /\ ~clerk[q].new /\ clerk[q].job = j}

MayCommit(j) == job[j].status = "VALIDATED"

\* commitImport reads the job.
AskCommit(r, j) ==
    /\ MayCommit(j)
    /\ ClerkBegins(r, "imports", [NoClerk EXCEPT !.at = "exist", !.job = j, !.copy = job[j]])
    /\ cut' = IF Committing(j) = {} THEN cut ELSE cut \cup {j}
    /\ UNCHANGED <<templateVars, job, application, contact, checked, made, moved>>

AskRows(r, p) ==
    /\ ClerkBegins(r, "imports", [NoClerk EXCEPT !.at = "exist", !.copy = [NoJob EXCEPT !.payload = p], !.new = TRUE])
    /\ UNCHANGED <<templateVars, jobVars>>

\* What throws ends the request, or marks the job.
Throws(r) == IF clerk[r].new THEN NoClerk ELSE [clerk[r] EXCEPT !.at = "failed"]

\* Also the limit of the plan, and the groups of the rows, which are made here.
CheckExisting(r) ==
    LET p == clerk[r].copy.payload
    IN  /\ clerk[r].at = "exist"
        /\ \/ ~Repeats(p) /\ Addresses(p) \cap contact = {} /\ Moves(r, "insert")
           \/ ClerkTurns(r, Throws(r))
        /\ UNCHANGED <<templateVars, jobVars>>

\* All rows in one transaction, under a unique index on the address; none if it fails.
InsertContacts(r) ==
    LET c == clerk[r]
        new == Addresses(c.copy.payload)
    IN  /\ c.at = "insert"
        /\ \/ /\ new \cap contact = {}
              /\ contact' = contact \cup new
              /\ made' = IF c.new THEN made ELSE [made EXCEPT ![c.job] = @ + 1]
              /\ ClerkTurns(r, IF c.new THEN NoClerk ELSE [c EXCEPT !.at = "complete"])
           \/ ClerkTurns(r, Throws(r)) /\ UNCHANGED <<contact, made>>
        /\ UNCHANGED <<templateVars, job, application, checked, moved, cut>>

\* The whole job that was read, with its template, is saved.
SavesJob(r, status) ==
    job' = [job EXCEPT ![clerk[r].job] = [clerk[r].copy EXCEPT !.status = status]]

CompleteJob(r) ==
    /\ clerk[r].at = "complete" /\ ~Missing(clerk[r].copy.template)
    /\ SavesJob(r, "COMPLETED")
    /\ ClerkTurns(r, NoClerk)
    /\ UNCHANGED <<templateVars, application, contact, checked, made, moved, cut>>

\* What throws after the rows are in marks the job as well.
CompleteThrows(r) ==
    /\ clerk[r].at = "complete"
    /\ \/ Missing(clerk[r].copy.template) /\ UNCHANGED left
       \/ Comes("chance")
    /\ clerk' = [clerk EXCEPT ![r].at = "failed"]
    /\ cut' = cut \cup {clerk[r].job}
    /\ UNCHANGED <<templateVars, job, application, contact, checked, made, moved>>

\* The save in the catch may throw as well; the job is then as the other writers left it.
FailJob(r) ==
    /\ clerk[r].at = "failed"
    /\ \/ ~Missing(clerk[r].copy.template) /\ SavesJob(r, "FAILED")
       \/ UNCHANGED job
    /\ ClerkTurns(r, NoClerk)
    /\ UNCHANGED <<templateVars, application, contact, checked, made, moved, cut>>

\* Other requests create and delete contacts.
ContactMoves(e) ==
    /\ Comes("imports")
    /\ contact' = IF e \in contact THEN contact \ {e} ELSE contact \cup {e}
    /\ UNCHANGED <<templateVars, clerk, job, application, checked, made, moved, cut>>

-----------------------------------------------------------------------------
\* A statement fails, with no catch around it: the request ends where it is, with what it
\* has written.
ClerkFails(r) ==
    LET at == clerk[r].at
    IN  /\ at \in {"unset", "point", "clear", "count", "delete", "resolve", "check", "job", "reread", "apply"}
        /\ Comes("chance")
        /\ clerk' = [clerk EXCEPT ![r] = NoClerk]
        /\ upset' = (upset \/ at = "point")
        /\ moved' = IF at \in {"reread", "apply"} THEN moved \cup {clerk[r].job} ELSE moved
        /\ UNCHANGED <<template, default, job, application, contact, checked, made, cut>>

\* The process dies, with its requests.
ClerksDie ==
    /\ clerk' = [r \in Clerks |-> NoClerk]
    /\ upset' = (upset \/ \E r \in Clerks : clerk[r].at \in {"unset", "point", "clear", "save"})
    /\ moved' = moved \cup {clerk[r].job : r \in {q \in Clerks : clerk[q].at \in {"reread", "apply"}}}
    /\ cut' = cut \cup {clerk[r].job : r \in {q \in Clerks : clerk[q].at = "complete"}}
    /\ UNCHANGED <<template, default, job, application, contact, checked, made>>

\* Templates that are none the default.
ImportsInit ==
    /\ template \in [Templates -> {NoRow} \cup [here: {TRUE}, name: Names, is_default: {FALSE}, config: {"name"}]]
    /\ \A t \in Templates : template[t].here => ~NameTaken(t, template[t])
    /\ default = NoTemplate
    /\ job = [j \in Jobs |-> NoJob]
    /\ application = [j \in Jobs |-> NoApplication]
    /\ contact = {}
    /\ clerk = [r \in Clerks |-> NoClerk]
    /\ checked = [j \in Jobs |-> "none"]
    /\ made = [j \in Jobs |-> 0]
    /\ moved = {} /\ cut = {} /\ upset = FALSE

TemplateStep(r) ==
    \/ May("templates") /\ \E t \in Templates :
          \/ AskDelete(r, t)
          \/ \E row \in {w \in TemplateRow : w.here} : AskCreate(r, t, row) \/ AskUpdate(r, t, row)
    \/ UnsetOthers(r) \/ PointOrganization(r) \/ ClearOrganization(r)
    \/ SaveTemplate(r) \/ SaveRefused(r)
    \/ CountTemplates(r) \/ DeleteTemplate(r)

ImportStep(r) ==
    \/ May("imports") /\ \E p \in Payloads :
          \/ AskRows(r, p)
          \/ \E j \in Jobs : AskValidateByDefault(r, j, p) \/ \E t \in Templates : AskValidate(r, j, p, t)
    \/ ResolveTemplate(r) \/ CheckRows(r) \/ SaveJob(r) \/ RereadTemplate(r) \/ SaveApplication(r)
    \/ \E j \in Jobs : AskCommit(r, j)
    \/ CheckExisting(r) \/ InsertContacts(r) \/ CompleteJob(r) \/ CompleteThrows(r) \/ FailJob(r)
    \/ ClerkFails(r)

ImportsNext ==
    \/ \E r \in Clerks : TemplateStep(r) \/ ImportStep(r)
    \/ \E e \in Emails : ContactMoves(e)

-----------------------------------------------------------------------------
ImportsTypeOK ==
    /\ template \in [Templates -> TemplateRow]
    /\ default \in Templates \cup {NoTemplate}
    /\ job \in [Jobs -> JobRow]
    /\ application \in [Jobs -> [template: Templates \cup {NoTemplate}, snapshot: Configs \cup {"none"}]]
    /\ contact \subseteq Emails
    /\ clerk \in [Clerks -> Clerk]
    /\ checked \in [Jobs -> Configs \cup {"none"}]
    /\ made \in [Jobs -> Nat]
    /\ moved \subseteq Jobs /\ cut \subseteq Jobs /\ upset \in BOOLEAN

Quiet == \A r \in Clerks : clerk[r].at \notin Editing

\* The organization and the mark name the same template, and it is there, when no
\* operation on templates is under way and none overlapped another or failed midway.
DefaultAgrees ==
    Quiet /\ ~upset =>
        {t \in Templates : template[t].here /\ template[t].is_default}
            = IF default = NoTemplate THEN {} ELSE {default}

\* A validated job has an application, with the template as its rows were checked
\* against, unless the template was written or deleted meanwhile, or an error or a death
\* came between the job and the application.
SnapshotIsGenuine ==
    \A j \in Jobs :
        \/ j \in moved
        \/ application[j].snapshot = checked[j]
        \/ application[j] = NoApplication /\ \E r \in Clerks : clerk[r].job = j /\ clerk[r].at \in {"reread", "apply"}

\* A completed job has its rows inserted, any other has not, and none has them twice,
\* unless two requests committed it at once, or one was stopped after the insertion.
JobTellsTheTruth ==
    \A j \in Jobs :
        \/ j \in cut
        \/ job[j].status = "COMPLETED" /\ made[j] = 1
        \/ job[j].status # "COMPLETED" /\ made[j] = 0
        \/ job[j].status = "VALIDATED" /\ made[j] = 1
           /\ \E r \in Committing(j) : clerk[r].at = "complete"

ImportsHold == DefaultAgrees /\ SnapshotIsGenuine /\ JobTellsTheTruth

\* A job is a task whose work is the insertion of its rows; one that two requests committed at
\* once, or one left halfway, counts as lost, and tells nothing.
JobStage(j) ==
    CASE job[j].status = "none"                             -> "new"
      [] job[j].status = "VALIDATED" /\ j \notin cut       -> "open"
      [] job[j].status = "COMPLETED" /\ j \notin cut       -> "over"
      [] OTHER                                              -> "lost"

JobTask == INSTANCE Tasks WITH
    Tasks  <- Jobs,
    stage  <- [j \in Jobs |-> JobStage(j)],
    work   <- [j \in Jobs |-> IF JobStage(j) = "lost" THEN {} ELSE 1..made[j]],
    result <- [j \in Jobs |-> IF JobStage(j) = "over" THEN 1 ELSE 0]
=============================================================================
