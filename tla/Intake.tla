------------------------------- MODULE Intake -------------------------------
(***************************************************************************)
(* The public side of an organization: visitors are shown its forms and    *)
(* submit them, as the contact of their token, as the contact that has     *)
(* their e-mail address, which is made if there is none, or as no one.     *)
(* Forms and contacts change meanwhile, and the process may die.           *)
(***************************************************************************)
EXTENDS PublicForms, ContactPortal

VARIABLE
    submission   \* the submissions table

vars == <<left, formVars, portalVars, submission>>

ASSUME IntakeAssumption == Targets \subseteq Contacts

-----------------------------------------------------------------------------
\* 0 is NULL.
Submission == [form: Forms, contact: Nat]

\* The contacts a token may be of.  Who submits is read from the token alone.
Signed == {c \in Contacts : token[c] # {}}

VisitGoes(v, at, c) ==
    /\ visit' = [visit EXCEPT ![v].at = at, ![v].contact = c]
    /\ UNCHANGED <<left, form, cache, edit, version, settled, excused, submission>>

\* ensurePublicFormAccess: a form with targets is for these.
MayEnter(copy, c) == copy.targets # {} => c \in copy.targets

\* submitPublicForm with a token, with an e-mail address, or with neither.
EnterAs(v, c) ==
    /\ visit[v].at = "enter"
    /\ c \in Signed /\ MayEnter(visit[v].copy, c)
    /\ VisitGoes(v, "submit", c)
    /\ UNCHANGED portalVars

EnterUnknown(v) ==
    /\ visit[v].at = "enter"
    /\ MayEnter(visit[v].copy, 0)
    /\ \E at \in {"find", "submit"} : VisitGoes(v, at, 0)
    /\ UNCHANGED portalVars

\* findByEmail
FindContact(v, e) ==
    LET found == {c \in Contacts : contact[c].here /\ contact[c].email = e}
    IN  /\ visit[v].at = "find"
        /\ IF found = {} THEN VisitGoes(v, "create", 0)
           ELSE \E c \in found : VisitGoes(v, "submit", c)
        /\ UNCHANGED portalVars

\* createFromPublic: the contact is active, without a password; the index may refuse it.
CreateFromPublic(v, c, e) ==
    /\ visit[v].at = "create"
    /\ NewContact(c, [NoContact EXCEPT !.here = TRUE, !.email = e, !.active = TRUE])
    /\ VisitGoes(v, "submit", c)
    /\ UNCHANGED <<code, ask, moment, token, barred, spent, erased, removed, old, off, calm, quiet>>

\* SubmissionService.create; the foreign key wants the contact, but none the form.
Submit(v) ==
    LET c == visit[v].contact
    IN  /\ visit[v].at = "submit"
        /\ c # 0 => contact[c].here
        /\ submission' = submission \cup {[form |-> visit[v].copy.form, contact |-> c]}
        /\ visit' = [visit EXCEPT ![v] = NoVisit]
        /\ UNCHANGED <<left, form, cache, edit, version, settled, excused, portalVars>>

\* Submissions stay when their contact goes.
Unnamed(c) ==
    submission' = {IF x.contact = c THEN [x EXCEPT !.contact = 0] ELSE x : x \in submission}

-----------------------------------------------------------------------------
Crash ==
    /\ Comes("chance")
    /\ FormsDie /\ PortalDies
    /\ UNCHANGED submission

Init == EntranceInit /\ FormsInit /\ PortalInit /\ submission = {}

PublicVisit(v) ==
    \/ \E c \in Contacts : EnterAs(v, c)
    \/ EnterUnknown(v)
    \/ \E e \in Emails : FindContact(v, e) \/ \E c \in Contacts : CreateFromPublic(v, c, e)
    \/ Submit(v)

Next ==
    \/ FormsNext /\ UNCHANGED <<portalVars, submission>>
    \/ \E r \in PortalRequests : PortalRequest(r) /\ UNCHANGED <<formVars, submission>>
    \/ \E c \in Contacts :
          \/ Erase(c) /\ UNCHANGED <<formVars, submission>>
          \/ DeleteContact(c) /\ Unnamed(c) /\ UNCHANGED formVars
          \/ \E e \in Emails, link \in BOOLEAN :
                CreateContact(c, e, link) /\ UNCHANGED <<formVars, submission>>
    \/ \E v \in Visits : PublicVisit(v)
    \/ Crash

Spec == Init /\ [][Next]_vars

-----------------------------------------------------------------------------
TypeOK == EntranceTypeOK /\ FormsTypeOK /\ PortalTypeOK /\ submission \subseteq Submission

=============================================================================
