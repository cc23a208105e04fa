---------------------------- MODULE PublicForms ----------------------------
(***************************************************************************)
(* The forms of an organization, their targets, and the cache the public   *)
(* reads them from by their slug.                                          *)
(*                                                                         *)
(* An edit reads the slug of the form, writes, and then deletes the cache  *)
(* entries of the slugs it knows; a visit that finds no entry reads the    *)
(* form, asks whether the organization is stopped, and only then stores    *)
(* what it read.  Nothing orders the two.  Replacing the targets deletes   *)
(* the old ones and saves the new ones, in two statements.                 *)
(*                                                                         *)
(* The cache is Redis, or the memory of the process.                       *)
(***************************************************************************)
EXTENDS Entrance, FiniteSets

CONSTANTS
    Forms, Slugs,
    Targets,      \* the contacts a form can be meant for
    Editors,      \* requests that change forms, in flight
    Visits        \* requests of the public, in flight

VARIABLES
    form,         \* the forms with their targets
    cache,        \* public_form:<slug>
    edit,         \* per editor: the operation, where it is, and what it has read
    visit,        \* per visit: where it is, and the copy of the form in hand
    version,      \* history: how many times a form was written
    settled,      \* history: per form, the version when the last edit of it was answered
    excused       \* history: slugs whose entry no edit will delete, and why is known

formVars == <<form, cache, edit, visit, version, settled, excused>>

ASSUME PublicFormsAssumption == Forms # {} /\ Slugs # {} /\ 0 \notin Targets

-----------------------------------------------------------------------------
\* `version` is the number of the write that left the row as it is.
FormRow == [here: BOOLEAN, slug: Slugs, active: BOOLEAN, targets: SUBSET Targets, version: Nat]
NoForm  == [here |-> FALSE, slug |-> CHOOSE s \in Slugs : TRUE, active |-> TRUE,
            targets |-> {}, version |-> 0]

\* What a visit and the cache hold of a form; the first is that of no entry.
Copy   == [form: Forms, version: Nat, targets: SUBSET Targets]
NoCopy == [form |-> CHOOSE f \in Forms : TRUE, version |-> 0, targets |-> {}]

FormOps == {"create", "rename", "switch", "fields", "delete", "targets", "untarget", "groups"}

\* `row` is the row that was read, or what is asked for; `read` the slug that was
\* read, `keys` the slugs whose entries are to be deleted.
Edit   == [op: FormOps, at: {"idle", "write", "save", "reread", "delete"}, form: Forms,
           row: FormRow, read: Slugs, keys: SUBSET Slugs, aims: SUBSET Targets]
NoEdit == [op |-> "create", at |-> "idle", form |-> NoCopy.form, row |-> NoForm,
           read |-> NoForm.slug, keys |-> {}, aims |-> {}]

\* `since` is the settled version of the form when the copy was taken; `aged` says
\* that the form was written since, `excused` that the copy came from such an entry.
Visit   == [at: {"idle", "read", "fill", "enter", "find", "create", "submit"}, slug: Slugs,
            copy: Copy, since: Nat, aged: BOOLEAN, excused: BOOLEAN, contact: Nat]
NoVisit == [at |-> "idle", slug |-> NoForm.slug, copy |-> NoCopy, since |-> 0,
            aged |-> FALSE, excused |-> FALSE, contact |-> 0]

Cached(s) == cache[s].version # 0
Entries(f) == {s \in Slugs : Cached(s) /\ cache[s].form = f}

\* An edit that has written and has entries to delete yet.
Wrote(e, f) == edit[e].at \in {"save", "reread", "delete"} /\ edit[e].form = f

-----------------------------------------------------------------------------
(* Edits. *)

Edits(e, new) ==
    /\ edit[e].at = "idle"
    /\ Comes("edits")
    /\ edit' = [edit EXCEPT ![e] = new]
    /\ UNCHANGED <<form, cache, visit, version, settled, excused>>

\* create inserts a form that has not been there.
AskCreate(e, f, s) ==
    /\ form[f].version = 0
    /\ Edits(e, [NoEdit EXCEPT !.op = "create", !.at = "write", !.form = f, !.read = s,
                               !.keys = {s}, !.row = [NoForm EXCEPT !.here = TRUE, !.slug = s]])

\* The other operations read the form first; `asks` is the row with what is asked for.
AskEdit(e, f, op, asks, aims) ==
    /\ op # "create"
    /\ form[f].here
    /\ op = "untarget" => aims # {} /\ aims \subseteq form[f].targets
    /\ Edits(e, [op |-> op, at |-> "write", form |-> f, row |-> asks, read |-> form[f].slug,
                 keys |-> {form[f].slug}, aims |-> aims])

\* The row after the statement: an update of columns, a deletion, or, for groups, the
\* save of the whole copy, which inserts a form that is gone.
NewForm(t, row) ==
    CASE t.op = "create"   -> t.row
      [] t.op = "rename"   -> [row EXCEPT !.slug = t.row.slug]
      [] t.op = "switch"   -> [row EXCEPT !.active = t.row.active]
      [] t.op = "fields"   -> row
      [] t.op = "delete"   -> [row EXCEPT !.here = FALSE, !.targets = {}]
      [] t.op = "targets"  -> [row EXCEPT !.targets = {}]
      [] t.op = "untarget" -> [row EXCEPT !.targets = @ \ t.aims]
      [] t.op = "groups"   -> [row EXCEPT !.here = TRUE, !.slug = t.row.slug, !.active = t.row.active]

\* The unique index on the slug.
SlugTaken(f, row) == row.here /\ \E g \in Forms \ {f} : form[g].here /\ form[g].slug = row.slug

\* The next step of an edit, with the slugs it is to delete.
Moves(t, at) == [t EXCEPT !.at = at]

\* The form of e is left as given.  A copy in the hands of a visit has aged; if the
\* slug is no longer the one e read, e does not know of the other entries.
Writes(e, row, at) ==
    LET t == edit[e]
        f == t.form
    IN  /\ version' = version + 1
        /\ form' = [form EXCEPT ![f] = [row EXCEPT !.version = version + 1]]
        /\ edit' = [edit EXCEPT ![e] = Moves(t, at)]
        /\ visit' = [v \in Visits |->
                       IF visit[v].at = "fill" /\ visit[v].copy.form = f
                       THEN [visit[v] EXCEPT !.aged = TRUE] ELSE visit[v]]
        /\ excused' = IF form[f].slug # t.read THEN excused \cup (Entries(f) \ {t.read})
                      ELSE excused
        /\ UNCHANGED <<left, cache, settled>>

\* The edit ends with an error; what it has written stays in the cache as it was.
Breaks(e) ==
    /\ excused' = IF Wrote(e, edit[e].form) THEN excused \cup Entries(edit[e].form) ELSE excused
    /\ edit' = [edit EXCEPT ![e] = NoEdit]
    /\ UNCHANGED <<form, cache, visit, version, settled>>

AfterWrite(t) ==
    CASE t.op \in {"rename", "switch"} -> "reread"
      [] t.op = "targets" /\ t.aims # {} -> "save"
      [] OTHER -> "delete"

\* A form that is gone has no row to update.
WriteForm(e) ==
    LET t == edit[e]
        row == NewForm(t, form[t.form])
    IN  /\ t.at = "write"
        /\ IF SlugTaken(t.form, row) THEN Breaks(e) /\ UNCHANGED left
           ELSE IF form[t.form].here \/ t.op \in {"create", "groups"} THEN Writes(e, row, AfterWrite(t))
           ELSE /\ edit' = [edit EXCEPT ![e] = Moves(t, AfterWrite(t))]
                /\ UNCHANGED <<left, form, cache, visit, version, settled, excused>>

\* assignTargets saves the new targets; a target that is there again, or a form that
\* is not, is refused.
SaveTargets(e) ==
    LET t == edit[e]
        row == form[t.form]
    IN  /\ t.at = "save"
        /\ IF ~row.here \/ row.targets \cap t.aims # {} THEN Breaks(e) /\ UNCHANGED left
           ELSE Writes(e, [row EXCEPT !.targets = @ \cup t.aims], "delete")

\* Mutant: entries by the form, not by its slug.
KeyedById(keys, row) == IF row.here THEN keys \cup {row.version} ELSE keys

\* Mutant: only the entry of the slug the form has now.
KeysNow(keys, row) == IF row.here THEN {row.slug} ELSE keys

\* update: the slug before, and the slug now.
BothKeys(keys, row) == IF row.here THEN keys \cup {row.slug} ELSE keys

Reread(e) ==
    /\ edit[e].at = "reread"
    /\ edit' = [edit EXCEPT ![e].at = "delete", ![e].keys = BothKeys(@, form[edit[e].form])]
    /\ UNCHANGED <<left, form, cache, visit, version, settled, excused>>

\* invalidatePublicFormCaches, one key at a time; Redis may fail, which is only logged.
DeleteKey(e, s) ==
    /\ edit[e].at = "delete" /\ s \in edit[e].keys
    /\ cache' = [cache EXCEPT ![s] = NoCopy]
    /\ excused' = excused \ {s}
    /\ edit' = [edit EXCEPT ![e].keys = @ \ {s}]
    /\ UNCHANGED <<left, form, visit, version, settled>>

DeleteFails(e, s) ==
    /\ edit[e].at = "delete" /\ s \in edit[e].keys
    /\ Comes("chance")
    /\ excused' = IF Cached(s) THEN excused \cup {s} ELSE excused
    /\ edit' = [edit EXCEPT ![e].keys = @ \ {s}]
    /\ UNCHANGED <<form, cache, visit, version, settled>>

\* The answer; the form is settled if no other edit of it is under way.
Answer(e) ==
    LET f == edit[e].form
    IN  /\ edit[e].at = "delete" /\ edit[e].keys = {}
        /\ settled' = IF \E d \in Editors \ {e} : Wrote(d, f) THEN settled
                      ELSE [settled EXCEPT ![f] = form[f].version]
        /\ edit' = [edit EXCEPT ![e] = NoEdit]
        /\ UNCHANGED <<left, form, cache, visit, version, excused>>

\* Any statement of an edit may be refused or lost.
EditThrows(e) == edit[e].at \in {"write", "save", "reread"} /\ Comes("chance") /\ Breaks(e)

-----------------------------------------------------------------------------
(* findBySlug. *)

\* A visit asks the cache ...
Arrive(v, s) ==
    /\ visit[v].at = "idle"
    /\ Comes("visits")
    /\ IF Cached(s)
       THEN visit' = [visit EXCEPT ![v] = [NoVisit EXCEPT
                        !.slug = s, !.copy = cache[s], !.at = "enter",
                        !.since = settled[cache[s].form], !.excused = s \in excused]]
       ELSE visit' = [visit EXCEPT ![v] = [NoVisit EXCEPT !.slug = s, !.at = "read"]]
    /\ UNCHANGED <<form, cache, edit, version, settled, excused>>

Public(s) == {f \in Forms : form[f].here /\ form[f].active /\ form[f].slug = s}

\* ... then the tables ...
ReadForm(v) ==
    /\ visit[v].at = "read"
    /\ \E f \in Public(visit[v].slug) :
          visit' = [visit EXCEPT ![v].at = "fill", ![v].since = settled[f],
                      ![v].copy = [form |-> f, version |-> form[f].version, targets |-> form[f].targets]]
    /\ UNCHANGED <<left, form, cache, edit, version, settled, excused>>

NotFound(v) ==
    /\ visit[v].at = "read" /\ Public(visit[v].slug) = {}
    /\ visit' = [visit EXCEPT ![v] = NoVisit]
    /\ UNCHANGED <<left, form, cache, edit, version, settled, excused>>

\* ... and stores what it read, if the organization is active, whatever the form is
\* by then.
Fill(v) ==
    LET s == visit[v].slug
    IN  /\ visit[v].at = "fill"
        /\ cache' = [cache EXCEPT ![s] = visit[v].copy]
        /\ excused' = IF visit[v].aged THEN excused \cup {s} ELSE excused \ {s}
        /\ visit' = [visit EXCEPT ![v].at = "enter", ![v].aged = FALSE]
        /\ UNCHANGED <<left, form, edit, version, settled>>

\* The time of an entry is over.
Expires(s) ==
    /\ Cached(s)
    /\ Comes("chance")
    /\ cache' = [cache EXCEPT ![s] = NoCopy]
    /\ excused' = excused \ {s}
    /\ UNCHANGED <<form, edit, visit, version, settled>>

\* A visit ends, with the page, or with an error.
Leave(v) ==
    /\ visit[v].at \in {"fill", "enter", "find", "create", "submit"}
    /\ visit' = [visit EXCEPT ![v] = NoVisit]
    /\ UNCHANGED <<left, form, cache, edit, version, settled, excused>>

-----------------------------------------------------------------------------
\* The process dies; a cache in its memory dies with it.
FormsDie ==
    /\ edit' = [e \in Editors |-> NoEdit]
    /\ visit' = [v \in Visits |-> NoVisit]
    /\ \/ /\ cache' = cache
          /\ excused' = excused \cup UNION {Entries(f) : f \in {g \in Forms : \E e \in Editors : Wrote(e, g)}}
       \/ cache' = [s \in Slugs |-> NoCopy] /\ excused' = {}
    /\ UNCHANGED <<form, version, settled>>

\* One form is there, for anyone or for some, and may have been looked up before.
FormsInit ==
    /\ \E targets \in SUBSET Targets :
          form = [f \in Forms |-> IF f = NoCopy.form
                                  THEN [here |-> TRUE, slug |-> NoForm.slug, active |-> TRUE,
                                        targets |-> targets, version |-> 1]
                                  ELSE NoForm]
    /\ \/ cache = [s \in Slugs |-> NoCopy]
       \/ cache = [s \in Slugs |-> IF s = NoForm.slug
                                   THEN [NoCopy EXCEPT !.version = 1, !.targets = form[NoCopy.form].targets]
                                   ELSE NoCopy]
    /\ edit = [e \in Editors |-> NoEdit]
    /\ visit = [v \in Visits |-> NoVisit]
    /\ version = 1
    /\ settled = [f \in Forms |-> form[f].version]
    /\ excused = {}

EditStep(e) ==
    \/ \E f \in Forms :
          \/ \E s \in Slugs : AskCreate(e, f, s)
          \/ \E s \in Slugs : AskEdit(e, f, "rename", [form[f] EXCEPT !.slug = s], {})
          \/ \E a \in BOOLEAN : AskEdit(e, f, "switch", [form[f] EXCEPT !.active = a], {})
          \/ \E op \in {"fields", "delete", "groups"} : AskEdit(e, f, op, form[f], {})
          \/ \E op \in {"targets", "untarget"}, aims \in SUBSET Targets : AskEdit(e, f, op, form[f], aims)
    \/ WriteForm(e) \/ SaveTargets(e) \/ Reread(e) \/ Answer(e) \/ EditThrows(e)
    \/ \E s \in Slugs : DeleteKey(e, s) \/ DeleteFails(e, s)

FindBySlug(v) ==
    \/ \E s \in Slugs : Arrive(v, s)
    \/ ReadForm(v) \/ NotFound(v) \/ Fill(v) \/ Leave(v)

FormsNext ==
    \/ \E e \in Editors : EditStep(e)
    \/ \E v \in Visits : FindBySlug(v)
    \/ \E s \in Slugs : Expires(s)

-----------------------------------------------------------------------------
FormsTypeOK ==
    /\ form \in [Forms -> FormRow]
    /\ cache \in [Slugs -> Copy]
    /\ edit \in [Editors -> Edit]
    /\ visit \in [Visits -> Visit]
    /\ version \in Nat
    /\ settled \in [Forms -> Nat]
    /\ excused \subseteq Slugs

\* Once all edits of a form are answered, whoever comes is shown the form with them,
\* unless a visit had read the form before a write and stored it after the deletion,
\* a deletion was lost, or an edit did not know of a slug given meanwhile.
SettledIsShown ==
    \A v \in Visits : visit[v].at # "idle" => visit[v].copy.version >= visit[v].since \/ visit[v].excused
=============================================================================
