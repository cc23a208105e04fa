---------------------------- MODULE IntakeProofs ----------------------------
(* Theorems about Intake, for every value of its constants. *)
EXTENDS Intake, TLAPS

LEMMA Defaults ==
  /\ NoForm \in FormRow /\ NoForm.slug \in Slugs
  /\ NoCopy \in Copy /\ NoCopy.form \in Forms
  /\ NoEdit \in Edit /\ NoVisit \in Visit
  /\ NoContact \in ContactRow /\ NoCode \in CodeRow /\ NoAsk \in Ask /\ 1 \in Contacts
<1>1. (CHOOSE s \in Slugs : TRUE) \in Slugs /\ (CHOOSE f \in Forms : TRUE) \in Forms
  BY PublicFormsAssumption
<1>2. NoForm \in FormRow /\ NoForm.slug \in Slugs
  BY <1>1 DEF NoForm, FormRow
<1>3. NoCopy \in Copy /\ NoCopy.form \in Forms
  BY <1>1 DEF NoCopy, Copy
<1>4. NoEdit \in Edit
  BY <1>2, <1>3 DEF NoEdit, Edit, FormOps
<1>5. NoVisit \in Visit
  BY <1>2, <1>3 DEF NoVisit, Visit
<1>6. NoContact \in ContactRow /\ NoCode \in CodeRow /\ 1 \in Contacts
  BY ContactPortalAssumption DEF NoContact, ContactRow, NoCode, CodeRow, Contacts
<1>7. NoAsk \in Ask
  BY <1>6 DEF NoAsk, Ask, PortalOps
<1> QED BY <1>2, <1>3, <1>4, <1>5, <1>6, <1>7

LEMMA InitTypes == Init => TypeOK
<1> SUFFICES ASSUME Init PROVE TypeOK
  OBVIOUS
<1>1. EntranceTypeOK
  BY EntranceAssumption DEF Init, EntranceInit, EntranceTypeOK
<1>2. form \in [Forms -> FormRow]
  <2>1. PICK targets \in SUBSET Targets :
          form = [f \in Forms |-> IF f = NoCopy.form
                                  THEN [here |-> TRUE, slug |-> NoForm.slug, active |-> TRUE,
                                        targets |-> targets, version |-> 1]
                                  ELSE NoForm]
    BY DEF Init, FormsInit
  <2>2. [here |-> TRUE, slug |-> NoForm.slug, active |-> TRUE,
         targets |-> targets, version |-> 1] \in FormRow
    BY Defaults DEF FormRow
  <2> QED BY <2>1, <2>2, Defaults
<1>3. FormsTypeOK
  <2>1. settled \in [Forms -> Nat]
    BY <1>2 DEF Init, FormsInit, FormRow
  <2>2. [NoCopy EXCEPT !.version = 1, !.targets = form[NoCopy.form].targets] \in Copy
    BY <1>2, Defaults DEF Copy, FormRow
  <2>3. cache \in [Slugs -> Copy]
    BY <2>2, Defaults DEF Init, FormsInit
  <2> QED BY <1>2, <2>1, <2>3, Defaults DEF Init, FormsInit, FormsTypeOK
<1>4. contact \in [Contacts -> ContactRow]
  <2>1. PICK e \in Emails :
          contact = [c \in Contacts |->
                       IF c = 1 THEN [here |-> TRUE, email |-> e, active |-> TRUE, password |-> TRUE,
                                      reset |-> 0, invalid |-> 0]
                       ELSE NoContact]
    BY DEF Init, PortalInit
  <2>2. [here |-> TRUE, email |-> e, active |-> TRUE, password |-> TRUE,
         reset |-> 0, invalid |-> 0] \in ContactRow
    BY DEF ContactRow
  <2> QED BY <2>1, <2>2, Defaults
<1>5. token \in [Contacts -> SUBSET Nat]
  BY DEF Init, PortalInit
<1>6. PortalTypeOK
  BY <1>4, <1>5, Defaults DEF Init, PortalInit, PortalTypeOK
<1> QED BY <1>1, <1>3, <1>6 DEF Init, TypeOK

LEMMA ComesTypes ==
  ASSUME EntranceTypeOK, NEW kind \in Kinds, Comes(kind)
  PROVE  EntranceTypeOK'
BY DEF EntranceTypeOK, Comes

-----------------------------------------------------------------------------
(* Types of the forms. *)

LEMMA NewFormTypes ==
  ASSUME NEW t \in Edit, NEW row \in FormRow
  PROVE  NewForm(t, row) \in FormRow
<1>1. t.op \in FormOps /\ t.row \in FormRow /\ t.aims \in SUBSET Targets
  BY DEF Edit
<1> QED BY <1>1 DEF NewForm, FormRow, FormOps

LEMMA BothKeysTypes ==
  ASSUME NEW keys \in SUBSET Slugs, NEW row \in FormRow
  PROVE  BothKeys(keys, row) \in SUBSET Slugs
BY DEF BothKeys, FormRow

LEMMA EntriesTypes == \A f : Entries(f) \subseteq Slugs
BY DEF Entries

LEMMA MovesTypes ==
  ASSUME NEW t \in Edit, NEW at \in {"idle", "write", "save", "reread", "delete"}
  PROVE  Moves(t, at) \in Edit
BY DEF Moves, Edit

LEMMA AfterWriteTypes == \A t : AfterWrite(t) \in {"idle", "write", "save", "reread", "delete"}
BY DEF AfterWrite

LEMMA WritesTypes ==
  ASSUME FormsTypeOK, NEW e \in Editors, NEW row \in FormRow,
         NEW at \in {"idle", "write", "save", "reread", "delete"}, Writes(e, row, at)
  PROVE  FormsTypeOK'
<1>1. edit[e] \in Edit /\ edit[e].form \in Forms
  BY DEF FormsTypeOK, Edit
<1>2. version' \in Nat
  BY DEF Writes, FormsTypeOK
<1>3. form' \in [Forms -> FormRow]
  <2>1. [row EXCEPT !.version = version + 1] \in FormRow
    BY DEF FormsTypeOK, FormRow
  <2> QED BY <1>1, <2>1 DEF Writes, FormsTypeOK
<1>4. edit' \in [Editors -> Edit]
  BY <1>1, MovesTypes DEF Writes, FormsTypeOK
<1>5. visit' \in [Visits -> Visit]
  <2>1. \A v \in Visits : visit[v] \in Visit /\ [visit[v] EXCEPT !.aged = TRUE] \in Visit
    BY DEF FormsTypeOK, Visit
  <2> QED BY <2>1 DEF Writes
<1>6. excused' \subseteq Slugs
  BY EntriesTypes DEF Writes, FormsTypeOK
<1> QED BY <1>2, <1>3, <1>4, <1>5, <1>6 DEF Writes, FormsTypeOK

LEMMA BreaksTypes ==
  ASSUME FormsTypeOK, NEW e \in Editors, Breaks(e)
  PROVE  FormsTypeOK'
BY Defaults, EntriesTypes DEF Breaks, FormsTypeOK

LEMMA EditsTypes ==
  ASSUME EntranceTypeOK, FormsTypeOK, NEW e \in Editors, NEW new \in Edit, Edits(e, new)
  PROVE  EntranceTypeOK' /\ FormsTypeOK'
<1>1. EntranceTypeOK'
  BY ComesTypes DEF Edits, Kinds
<1> QED BY <1>1 DEF Edits, FormsTypeOK

LEMMA AskEditTypes ==
  ASSUME EntranceTypeOK, FormsTypeOK, NEW e \in Editors, NEW f \in Forms, NEW op \in FormOps,
         NEW asks \in FormRow, NEW aims \in SUBSET Targets, AskEdit(e, f, op, asks, aims)
  PROVE  EntranceTypeOK' /\ FormsTypeOK'
<1>1. form[f].slug \in Slugs
  BY DEF FormsTypeOK, FormRow
<1>2. [op |-> op, at |-> "write", form |-> f, row |-> asks, read |-> form[f].slug,
       keys |-> {form[f].slug}, aims |-> aims] \in Edit
  BY <1>1 DEF Edit
<1> QED BY <1>2, EditsTypes DEF AskEdit

LEMMA EditStepTypes ==
  ASSUME EntranceTypeOK, FormsTypeOK, NEW e \in Editors, EditStep(e)
  PROVE  EntranceTypeOK' /\ FormsTypeOK'
<1>0. edit[e] \in Edit /\ edit[e].form \in Forms /\ form[edit[e].form] \in FormRow
  BY DEF FormsTypeOK, Edit
<1>1. ASSUME NEW f \in Forms, NEW s \in Slugs, AskCreate(e, f, s)
      PROVE  EntranceTypeOK' /\ FormsTypeOK'
  <2>1. [NoForm EXCEPT !.here = TRUE, !.slug = s] \in FormRow
    BY Defaults DEF FormRow
  <2>2. [NoEdit EXCEPT !.op = "create", !.at = "write", !.form = f, !.read = s,
                       !.keys = {s}, !.row = [NoForm EXCEPT !.here = TRUE, !.slug = s]] \in Edit
    BY <2>1, Defaults DEF Edit, FormOps
  <2> QED BY <1>1, <2>2, EditsTypes DEF AskCreate
<1>2. ASSUME NEW f \in Forms, NEW s \in Slugs, AskEdit(e, f, "rename", [form[f] EXCEPT !.slug = s], {})
      PROVE  EntranceTypeOK' /\ FormsTypeOK'
  <2>1. [form[f] EXCEPT !.slug = s] \in FormRow /\ "rename" \in FormOps /\ {} \in SUBSET Targets
    BY DEF FormsTypeOK, FormRow, FormOps
  <2> QED BY <1>2, <2>1, AskEditTypes
<1>3. ASSUME NEW f \in Forms, NEW a \in BOOLEAN, AskEdit(e, f, "switch", [form[f] EXCEPT !.active = a], {})
      PROVE  EntranceTypeOK' /\ FormsTypeOK'
  <2>1. [form[f] EXCEPT !.active = a] \in FormRow /\ "switch" \in FormOps /\ {} \in SUBSET Targets
    BY DEF FormsTypeOK, FormRow, FormOps
  <2> QED BY <1>3, <2>1, AskEditTypes
<1>4. ASSUME NEW f \in Forms, NEW op \in FormOps, NEW aims \in SUBSET Targets, AskEdit(e, f, op, form[f], aims)
      PROVE  EntranceTypeOK' /\ FormsTypeOK'
  <2>1. form[f] \in FormRow
    BY DEF FormsTypeOK
  <2> QED BY <1>4, <2>1, AskEditTypes
<1>5. CASE WriteForm(e)
  <2>1. CASE Breaks(e) /\ UNCHANGED left
    BY <2>1, BreaksTypes DEF EntranceTypeOK
  <2>2. CASE Writes(e, NewForm(edit[e], form[edit[e].form]), AfterWrite(edit[e]))
    <3>1. NewForm(edit[e], form[edit[e].form]) \in FormRow
      BY <1>0, NewFormTypes
    <3> QED BY <2>2, <3>1, AfterWriteTypes, WritesTypes DEF Writes, EntranceTypeOK
  <2>3. CASE /\ edit' = [edit EXCEPT ![e] = Moves(edit[e], AfterWrite(edit[e]))]
             /\ UNCHANGED <<left, form, cache, visit, version, settled, excused>>
    <3>1. Moves(edit[e], AfterWrite(edit[e])) \in Edit
      BY <1>0, AfterWriteTypes, MovesTypes
    <3> QED BY <2>3, <3>1 DEF FormsTypeOK, EntranceTypeOK
  <2> QED BY <1>5, <2>1, <2>2, <2>3 DEF WriteForm
<1>6. CASE SaveTargets(e)
  <2>1. CASE Breaks(e) /\ UNCHANGED left
    BY <2>1, BreaksTypes DEF EntranceTypeOK
  <2>2. CASE Writes(e, [form[edit[e].form] EXCEPT !.targets = @ \cup edit[e].aims], "delete")
    <3>1. [form[edit[e].form] EXCEPT !.targets = @ \cup edit[e].aims] \in FormRow
      BY <1>0 DEF FormRow, Edit
    <3> QED BY <2>2, <3>1, WritesTypes DEF Writes, EntranceTypeOK
  <2> QED BY <1>6, <2>1, <2>2 DEF SaveTargets
<1>7. CASE Reread(e)
  <2>1. BothKeys(edit[e].keys, form[edit[e].form]) \in SUBSET Slugs
    BY <1>0, BothKeysTypes DEF Edit
  <2>2. [edit[e] EXCEPT !.at = "delete", !.keys = BothKeys(edit[e].keys, form[edit[e].form])] \in Edit
    BY <1>0, <2>1 DEF Edit
  <2>3. edit' = [edit EXCEPT ![e] = [edit[e] EXCEPT !.at = "delete",
                                       !.keys = BothKeys(edit[e].keys, form[edit[e].form])]]
    BY <1>7 DEF Reread, FormsTypeOK
  <2> QED BY <1>7, <2>2, <2>3 DEF Reread, FormsTypeOK, EntranceTypeOK
<1>8. CASE Answer(e)
  <2>1. settled' \in [Forms -> Nat]
    BY <1>8, <1>0 DEF Answer, FormsTypeOK, FormRow
  <2> QED BY <1>8, <2>1, Defaults DEF Answer, FormsTypeOK, EntranceTypeOK
<1>9. CASE EditThrows(e)
  BY <1>9, BreaksTypes, ComesTypes DEF EditThrows, Kinds
<1>10. ASSUME NEW s \in Slugs, DeleteKey(e, s)
       PROVE  EntranceTypeOK' /\ FormsTypeOK'
  <2>1. [edit[e] EXCEPT !.keys = @ \ {s}] \in Edit
    BY <1>0 DEF Edit
  <2> QED BY <1>10, <2>1, Defaults DEF DeleteKey, FormsTypeOK, EntranceTypeOK
<1>11. ASSUME NEW s \in Slugs, DeleteFails(e, s)
       PROVE  EntranceTypeOK' /\ FormsTypeOK'
  <2>1. [edit[e] EXCEPT !.keys = @ \ {s}] \in Edit
    BY <1>0 DEF Edit
  <2>2. EntranceTypeOK'
    BY <1>11, ComesTypes DEF DeleteFails, Kinds
  <2> QED BY <1>11, <2>1, <2>2 DEF DeleteFails, FormsTypeOK
<1>12. CASE \E f \in Forms :
               \/ \E op \in {"fields", "delete", "groups"} : AskEdit(e, f, op, form[f], {})
               \/ \E op \in {"targets", "untarget"}, aims \in SUBSET Targets : AskEdit(e, f, op, form[f], aims)
  <2>1. {"fields", "delete", "groups", "targets", "untarget"} \subseteq FormOps /\ {} \in SUBSET Targets
    BY DEF FormOps
  <2>2. \E f \in Forms, op \in FormOps, aims \in SUBSET Targets : AskEdit(e, f, op, form[f], aims)
    BY <1>12, <2>1
  <2> QED BY <1>4, <2>2
<1> QED BY <1>1, <1>2, <1>3, <1>5, <1>6, <1>7, <1>8, <1>9, <1>10, <1>11, <1>12 DEF EditStep

LEMMA ArrivalTypes ==
  ASSUME NEW s \in Slugs, NEW copy \in Copy, NEW n \in Nat, NEW b \in BOOLEAN
  PROVE  [NoVisit EXCEPT !.slug = s, !.copy = copy, !.at = "enter", !.since = n, !.excused = b] \in Visit
BY Defaults DEF Visit

LEMMA FindBySlugTypes ==
  ASSUME EntranceTypeOK, FormsTypeOK, NEW v \in Visits, FindBySlug(v)
  PROVE  EntranceTypeOK' /\ FormsTypeOK'
<1>0. visit[v] \in Visit /\ visit[v].slug \in Slugs /\ visit[v].copy \in Copy
  BY DEF FormsTypeOK, Visit
<1>1. ASSUME NEW s \in Slugs, Arrive(v, s)
      PROVE  EntranceTypeOK' /\ FormsTypeOK'
  <2>1. cache[s] \in Copy /\ settled[cache[s].form] \in Nat
    BY DEF FormsTypeOK, Copy
  <2>2. /\ [NoVisit EXCEPT !.slug = s, !.copy = cache[s], !.at = "enter",
                           !.since = settled[cache[s].form], !.excused = s \in excused] \in Visit
        /\ [NoVisit EXCEPT !.slug = s, !.at = "read"] \in Visit
    <3>1. (s \in excused) \in BOOLEAN
      OBVIOUS
    <3>2. [NoVisit EXCEPT !.slug = s, !.at = "read"] \in Visit
      BY Defaults DEF Visit
    <3> QED BY <2>1, <3>1, <3>2, ArrivalTypes
  <2>3. EntranceTypeOK'
    BY <1>1, ComesTypes DEF Arrive, Kinds
  <2> QED BY <1>1, <2>2, <2>3 DEF Arrive, FormsTypeOK
<1>2. CASE ReadForm(v)
  <2>1. PICK f \in Public(visit[v].slug) :
          visit' = [visit EXCEPT ![v].at = "fill", ![v].since = settled[f],
                      ![v].copy = [form |-> f, version |-> form[f].version, targets |-> form[f].targets]]
    BY <1>2 DEF ReadForm
  <2>2. /\ settled[f] \in Nat
        /\ [form |-> f, version |-> form[f].version, targets |-> form[f].targets] \in Copy
    BY DEF Public, FormsTypeOK, FormRow, Copy
  <2>3. visit' = [visit EXCEPT ![v] = [visit[v] EXCEPT !.at = "fill", !.since = settled[f],
                      !.copy = [form |-> f, version |-> form[f].version, targets |-> form[f].targets]]]
    BY <2>1 DEF FormsTypeOK
  <2>4. visit'  \in [Visits -> Visit]
    <3>1. [visit[v] EXCEPT !.at = "fill", !.since = settled[f],
                      !.copy = [form |-> f, version |-> form[f].version, targets |-> form[f].targets]] \in Visit
      BY <1>0, <2>2 DEF Visit
    <3> QED BY <2>3, <3>1 DEF FormsTypeOK
  <2> QED BY <1>2, <2>4 DEF ReadForm, FormsTypeOK, EntranceTypeOK
<1>3. CASE NotFound(v)
  BY <1>3, Defaults DEF NotFound, FormsTypeOK, EntranceTypeOK
<1>4. CASE Fill(v)
  <2>1. [visit[v] EXCEPT !.at = "enter", !.aged = FALSE] \in Visit
    BY <1>0 DEF Visit
  <2>2. visit' = [visit EXCEPT ![v] = [visit[v] EXCEPT !.at = "enter", !.aged = FALSE]]
    BY <1>4 DEF Fill, FormsTypeOK
  <2> QED BY <1>0, <1>4, <2>1, <2>2 DEF Fill, FormsTypeOK, EntranceTypeOK
<1>5. CASE Leave(v)
  BY <1>5, Defaults DEF Leave, FormsTypeOK, EntranceTypeOK
<1> QED BY <1>1, <1>2, <1>3, <1>4, <1>5 DEF FindBySlug

LEMMA ExpiresTypes ==
  ASSUME EntranceTypeOK, FormsTypeOK, NEW s \in Slugs, Expires(s)
  PROVE  EntranceTypeOK' /\ FormsTypeOK'
<1>1. EntranceTypeOK'
  BY ComesTypes DEF Expires, Kinds
<1> QED BY <1>1, Defaults DEF Expires, FormsTypeOK

LEMMA FormsDieTypes ==
  ASSUME FormsTypeOK, FormsDie
  PROVE  FormsTypeOK'
BY Defaults, EntriesTypes DEF FormsDie, FormsTypeOK

-----------------------------------------------------------------------------
(* Types of the contacts. *)

LEMMA DisturbsTypes ==
  ASSUME PortalTypeOK, NEW r, NEW c
  PROVE  /\ Disturbs(r, c) => calm' \subseteq Contacts
         /\ DisturbsCode(r, c) => quiet' \subseteq Contacts
BY DEF PortalTypeOK, Disturbs, DisturbsCode

LEMMA BeginsTypes ==
  ASSUME EntranceTypeOK, PortalTypeOK, NEW r \in PortalRequests, NEW new \in Ask, Begins(r, new)
  PROVE  EntranceTypeOK' /\ PortalTypeOK'
<1>1. EntranceTypeOK'
  BY ComesTypes DEF Begins, Kinds
<1> QED BY <1>1 DEF Begins, PortalTypeOK

LEMMA SavedRowTypes ==
  ASSUME NEW op, NEW row \in ContactRow, NEW n \in Nat
  PROVE  SavedRow(op, row, n) \in ContactRow
BY DEF SavedRow, ContactRow

LEMMA UpdatedTypes ==
  ASSUME NEW a \in Ask, NEW row \in ContactRow, NEW n \in Nat
  PROVE  Updated(a, row, n) \in ContactRow
<1>1. a.stamp \in Nat /\ a.row.email \in Emails \cup {NoEmail}
  BY DEF Ask, ContactRow
<1> QED BY <1>1 DEF Updated, ContactRow

LEMMA PortalRequestTypes ==
  ASSUME EntranceTypeOK, PortalTypeOK, NEW r \in PortalRequests, PortalRequest(r)
  PROVE  EntranceTypeOK' /\ PortalTypeOK'
<1>0. /\ ask[r] \in Ask /\ ask[r].contact \in Contacts /\ contact[ask[r].contact] \in ContactRow
      /\ code[ask[r].contact] \in CodeRow /\ ask[r].row \in ContactRow /\ ask[r].code \in CodeRow
      /\ moment + 1 \in Nat /\ moment + 1 # 0
  BY DEF PortalTypeOK, Ask
<1>1. ASSUME NEW c \in Contacts, Login(r, c)
      PROVE  EntranceTypeOK' /\ PortalTypeOK'
  <2>1. [NoAsk EXCEPT !.op = "login", !.at = "sign", !.contact = c] \in Ask
    BY Defaults DEF Ask, PortalOps
  <2> QED BY <1>1, <2>1, BeginsTypes DEF Login
<1>2. ASSUME NEW c \in Contacts, AskGenerate(r, c)
      PROVE  EntranceTypeOK' /\ PortalTypeOK'
  <2>1. [NoAsk EXCEPT !.op = "generate", !.at = "insert", !.contact = c] \in Ask
    BY Defaults DEF Ask, PortalOps
  <2> QED BY <1>2, <2>1, BeginsTypes DEF AskGenerate
<1>3. ASSUME NEW c \in Contacts, NEW op \in PortalOps, AskSave(r, c, op)
      PROVE  EntranceTypeOK' /\ PortalTypeOK'
  <2>1. [NoAsk EXCEPT !.op = op, !.at = "save", !.contact = c, !.row = contact[c]] \in Ask
    BY Defaults DEF Ask, PortalTypeOK
  <2> QED BY <1>3, <2>1, BeginsTypes DEF AskSave
<1>4. ASSUME NEW c \in Contacts, NEW op \in PortalOps, AskUpdate(r, c, op)
      PROVE  EntranceTypeOK' /\ PortalTypeOK'
  <2>1. [NoAsk EXCEPT !.op = op, !.at = IF op = "deactivate" THEN "stamp" ELSE "update",
                      !.contact = c, !.row = contact[c]] \in Ask
    BY Defaults DEF Ask, PortalTypeOK
  <2> QED BY <1>4, <2>1, BeginsTypes DEF AskUpdate
<1>e. ASSUME NEW c \in Contacts, NEW e \in Emails \cup {NoEmail}, AskEmail(r, c, e)
      PROVE  EntranceTypeOK' /\ PortalTypeOK'
  <2>1. [contact[c] EXCEPT !.email = e] \in ContactRow
    BY DEF PortalTypeOK, ContactRow
  <2>2. [NoAsk EXCEPT !.op = "email", !.at = "update", !.contact = c,
                      !.row = [contact[c] EXCEPT !.email = e]] \in Ask
    BY <2>1, Defaults DEF Ask, PortalOps
  <2> QED BY <1>e, <2>2, BeginsTypes DEF AskEmail
<1>5. ASSUME NEW c \in Contacts, NEW op \in PortalOps, AskCode(r, c, op)
      PROVE  EntranceTypeOK' /\ PortalTypeOK'
  <2>1. [NoAsk EXCEPT !.op = op, !.at = IF op = "regenerate" THEN "saveCode" ELSE "updateCode",
                      !.contact = c, !.code = code[c]] \in Ask
    BY Defaults DEF Ask, PortalTypeOK
  <2> QED BY <1>5, <2>1, BeginsTypes DEF AskCode
<1>6. CASE Sign(r)
  BY <1>0, <1>6, Defaults DEF Sign, Done, PortalTypeOK, EntranceTypeOK
<1>7. CASE SaveContact(r)
  <2>1. SavedRow(ask[r].op, ask[r].row, moment + 1) \in ContactRow
    BY <1>0, SavedRowTypes
  <2>2. {ask[r].row.reset, contact[ask[r].contact].reset} \subseteq Nat
    BY <1>0 DEF ContactRow
  <2>3. spent' \in [Contacts -> SUBSET Nat]
    BY <1>0, <1>7, <2>2 DEF SaveContact, PortalTypeOK
  <2>4. calm' \subseteq Contacts
    BY <1>7, DisturbsTypes DEF SaveContact
  <2> QED BY <1>0, <1>7, <2>1, <2>3, <2>4, Defaults DEF SaveContact, Done, PortalTypeOK, EntranceTypeOK
<1>8. CASE Stamp(r)
  <2>1. /\ [ask[r] EXCEPT !.at = "update", !.stamp = moment + 1] \in Ask
        /\ [ask[r] EXCEPT !.at = "update"] \in Ask
    BY <1>0 DEF Ask
  <2>2. ask' \in [PortalRequests -> Ask]
    BY <1>8, <2>1 DEF Stamp, PortalTypeOK
  <2> QED BY <1>0, <1>8, <2>2 DEF Stamp, PortalTypeOK, EntranceTypeOK
<1>9. CASE UpdateContact(r)
  <2>1. Updated(ask[r], contact[ask[r].contact], moment + 1) \in ContactRow
    BY <1>0, UpdatedTypes
  <2>2. {contact[ask[r].contact].reset} \subseteq Nat
    BY <1>0 DEF ContactRow
  <2>3. Ended(ask[r]) \subseteq Nat
    BY <1>0 DEF Ended, PortalTypeOK
  <2>4. spent' \in [Contacts -> SUBSET Nat] /\ barred' \in [Contacts -> SUBSET Nat]
    BY <1>0, <1>9, <2>2, <2>3 DEF UpdateContact, PortalTypeOK
  <2>5. calm' \subseteq Contacts
    BY <1>9, DisturbsTypes DEF UpdateContact
  <2>6. erased' \subseteq Contacts
    BY <1>9 DEF UpdateContact, PortalTypeOK
  <2> QED BY <1>0, <1>9, <2>1, <2>4, <2>5, <2>6, Defaults DEF UpdateContact, Done, PortalTypeOK, EntranceTypeOK
<1>10. CASE InsertCode(r)
  <2>1. [here |-> TRUE, token |-> moment + 1, active |-> TRUE] \in CodeRow
    BY <1>0 DEF CodeRow
  <2>2. quiet' \subseteq Contacts
    BY <1>10, DisturbsTypes DEF InsertCode
  <2> QED BY <1>0, <1>10, <2>1, <2>2, Defaults DEF InsertCode, Done, PortalTypeOK, EntranceTypeOK
<1>11. CASE SaveCode(r)
  <2>1. NewToken(ask[r].code, moment + 1) \in CodeRow
    BY <1>0 DEF CodeRow, NewToken
  <2>2. quiet' \subseteq Contacts
    BY <1>11, DisturbsTypes DEF SaveCode
  <2>3. {ask[r].code.token, code[ask[r].contact].token} \subseteq Nat
    BY <1>0 DEF CodeRow
  <2>4. old' \in [Contacts -> SUBSET Nat]
    BY <1>0, <1>11, <2>3 DEF SaveCode, PortalTypeOK
  <2> QED BY <1>0, <1>11, <2>1, <2>2, <2>4, Defaults DEF SaveCode, Done, PortalTypeOK, EntranceTypeOK
<1>12. CASE UpdateCode(r)
  <2>1. (ask[r].op = "enable") \in BOOLEAN
    OBVIOUS
  <2>2. \A b \in BOOLEAN : [code[ask[r].contact] EXCEPT !.active = b] \in CodeRow
    BY <1>0 DEF CodeRow
  <2>3. [code[ask[r].contact] EXCEPT !.active = (ask[r].op = "enable")] \in CodeRow
    BY <2>1, <2>2
  <2>4. quiet' \subseteq Contacts
    BY <1>12, DisturbsTypes DEF UpdateCode
  <2>5. code' \in [Contacts -> CodeRow]
    BY <1>0, <1>12, <2>3 DEF UpdateCode, PortalTypeOK
  <2>6. off' \subseteq Contacts
    BY <1>0, <1>12 DEF UpdateCode, PortalTypeOK
  <2> QED BY <1>0, <1>12, <2>4, <2>5, <2>6, Defaults DEF UpdateCode, Done, PortalTypeOK, EntranceTypeOK
<1>13. CASE Fails(r)
  BY <1>13, Defaults DEF Fails, PortalTypeOK, EntranceTypeOK
<1> QED BY <1>1, <1>2, <1>3, <1>4, <1>e, <1>5, <1>6, <1>7, <1>8, <1>9, <1>10, <1>11, <1>12, <1>13 DEF PortalRequest

LEMMA EraseTypes ==
  ASSUME EntranceTypeOK, PortalTypeOK, NEW c \in Contacts, Erase(c)
  PROVE  EntranceTypeOK' /\ PortalTypeOK'
<1>1. EntranceTypeOK'
  BY ComesTypes DEF Erase, Kinds
<1>2. [contact[c] EXCEPT !.email = NoEmail, !.password = FALSE] \in ContactRow
  BY DEF PortalTypeOK, ContactRow
<1>3. contact' = [contact EXCEPT ![c] = [contact[c] EXCEPT !.email = NoEmail, !.password = FALSE]]
  BY DEF Erase, PortalTypeOK
<1>4. calm' \subseteq Contacts
  BY DisturbsTypes DEF Erase
<1> QED BY <1>1, <1>2, <1>3, <1>4 DEF Erase, PortalTypeOK

LEMMA DeleteTypes ==
  ASSUME EntranceTypeOK, PortalTypeOK, NEW c \in Contacts, DeleteContact(c)
  PROVE  EntranceTypeOK' /\ PortalTypeOK'
<1>1. EntranceTypeOK'
  BY ComesTypes DEF DeleteContact, Kinds
<1>2. calm' \subseteq Contacts /\ quiet' \subseteq Contacts
  BY DisturbsTypes DEF DeleteContact
<1>3. {code[c].token} \subseteq Nat
  BY DEF PortalTypeOK, CodeRow
<1>4. old' \in [Contacts -> SUBSET Nat]
  BY <1>3 DEF DeleteContact, PortalTypeOK
<1> QED BY <1>1, <1>2, <1>4, Defaults DEF DeleteContact, PortalTypeOK

LEMMA CreateTypes ==
  ASSUME EntranceTypeOK, PortalTypeOK, NEW c \in Contacts, NEW e \in Emails, NEW link \in BOOLEAN,
         CreateContact(c, e, link)
  PROVE  EntranceTypeOK' /\ PortalTypeOK'
<1>1. EntranceTypeOK'
  BY ComesTypes DEF CreateContact, Kinds
<1>2. moment + 1 \in Nat
  BY DEF PortalTypeOK
<1>3. [NoContact EXCEPT !.here = TRUE, !.email = e, !.active = TRUE,
                        !.reset = IF link THEN moment + 1 ELSE 0] \in ContactRow
  BY <1>2, Defaults DEF ContactRow
<1> QED BY <1>1, <1>2, <1>3 DEF CreateContact, NewContact, PortalTypeOK

LEMMA PortalDiesTypes ==
  ASSUME PortalTypeOK, PortalDies
  PROVE  PortalTypeOK'
BY Defaults DEF PortalDies, PortalTypeOK

-----------------------------------------------------------------------------
(* Types. *)

LEMMA VisitGoesTypes ==
  ASSUME FormsTypeOK, NEW v \in Visits, NEW at \in {"submit", "find", "create"}, NEW c \in Nat,
         VisitGoes(v, at, c)
  PROVE  FormsTypeOK'
<1>1. [visit[v] EXCEPT !.at = at, !.contact = c] \in Visit
  BY DEF FormsTypeOK, Visit
<1>2. visit' = [visit EXCEPT ![v] = [visit[v] EXCEPT !.at = at, !.contact = c]]
  BY DEF VisitGoes, FormsTypeOK
<1> QED BY <1>1, <1>2 DEF VisitGoes, FormsTypeOK

LEMMA PublicVisitTypes ==
  ASSUME TypeOK, NEW v \in Visits, PublicVisit(v)
  PROVE  TypeOK'
<1>0. Contacts \subseteq Nat /\ 0 \in Nat
  BY DEF Contacts
<1>1. ASSUME NEW c \in Contacts, EnterAs(v, c)
      PROVE  TypeOK'
  <2>1. FormsTypeOK'
    BY <1>0, <1>1, VisitGoesTypes DEF EnterAs, TypeOK
  <2> QED BY <1>1, <2>1 DEF EnterAs, VisitGoes, TypeOK, PortalTypeOK, EntranceTypeOK, portalVars
<1>2. CASE EnterUnknown(v)
  <2>1. FormsTypeOK'
    BY <1>0, <1>2, VisitGoesTypes DEF EnterUnknown, TypeOK
  <2> QED BY <1>2, <2>1 DEF EnterUnknown, VisitGoes, TypeOK, PortalTypeOK, EntranceTypeOK, portalVars
<1>3. ASSUME NEW e \in Emails, FindContact(v, e)
      PROVE  TypeOK'
  <2>1. PICK at \in {"submit", "find", "create"}, c \in Nat : VisitGoes(v, at, c)
    BY <1>0, <1>3 DEF FindContact
  <2>2. FormsTypeOK'
    BY <2>1, VisitGoesTypes DEF TypeOK
  <2> QED BY <1>3, <2>1, <2>2 DEF FindContact, VisitGoes, TypeOK, PortalTypeOK, EntranceTypeOK, portalVars
<1>4. ASSUME NEW e \in Emails, NEW c \in Contacts, CreateFromPublic(v, c, e)
      PROVE  TypeOK'
  <2>1. FormsTypeOK'
    BY <1>0, <1>4, VisitGoesTypes DEF CreateFromPublic, TypeOK
  <2>2. [NoContact EXCEPT !.here = TRUE, !.email = e, !.active = TRUE] \in ContactRow
    BY Defaults DEF ContactRow
  <2> QED BY <1>4, <2>1, <2>2
          DEF CreateFromPublic, NewContact, VisitGoes, TypeOK, PortalTypeOK, EntranceTypeOK
<1>5. CASE Submit(v)
  <2>1. FormsTypeOK'
    BY <1>5, Defaults DEF Submit, FormsTypeOK, TypeOK
  <2>2. submission' \subseteq Submission
    <3>1. [form |-> visit[v].copy.form, contact |-> visit[v].contact] \in Submission
      BY DEF Submission, TypeOK, FormsTypeOK, Visit, Copy
    <3> QED BY <1>5, <3>1 DEF Submit, TypeOK
  <2> QED BY <1>5, <2>1, <2>2 DEF Submit, TypeOK, PortalTypeOK, EntranceTypeOK, portalVars
<1> QED BY <1>1, <1>2, <1>3, <1>4, <1>5 DEF PublicVisit

LEMMA UnnamedTypes ==
  ASSUME TypeOK, NEW c \in Contacts, Unnamed(c)
  PROVE  submission' \subseteq Submission
<1>1. \A x \in Submission : x \in Submission /\ [x EXCEPT !.contact = 0] \in Submission
  BY DEF Submission
<1> QED BY <1>1 DEF Unnamed, TypeOK

LEMMA StepTypes == TypeOK /\ [Next]_vars => TypeOK'
<1> SUFFICES ASSUME TypeOK, [Next]_vars PROVE TypeOK'
  OBVIOUS
<1>1. CASE FormsNext /\ UNCHANGED <<portalVars, submission>>
  <2>1. EntranceTypeOK' /\ FormsTypeOK'
    BY <1>1, EditStepTypes, FindBySlugTypes, ExpiresTypes DEF FormsNext, TypeOK
  <2> QED BY <1>1, <2>1 DEF TypeOK, PortalTypeOK, portalVars
<1>2. ASSUME NEW r \in PortalRequests, PortalRequest(r), UNCHANGED <<formVars, submission>>
      PROVE  TypeOK'
  <2>1. EntranceTypeOK' /\ PortalTypeOK'
    BY <1>2, PortalRequestTypes DEF TypeOK
  <2> QED BY <1>2, <2>1 DEF TypeOK, FormsTypeOK, formVars
<1>3. ASSUME NEW c \in Contacts, Erase(c), UNCHANGED <<formVars, submission>>
      PROVE  TypeOK'
  <2>1. EntranceTypeOK' /\ PortalTypeOK'
    BY <1>3, EraseTypes DEF TypeOK
  <2> QED BY <1>3, <2>1 DEF TypeOK, FormsTypeOK, formVars
<1>4. ASSUME NEW c \in Contacts, DeleteContact(c), Unnamed(c), UNCHANGED formVars
      PROVE  TypeOK'
  <2>1. EntranceTypeOK' /\ PortalTypeOK' /\ submission' \subseteq Submission
    BY <1>4, DeleteTypes, UnnamedTypes DEF TypeOK
  <2> QED BY <1>4, <2>1 DEF TypeOK, FormsTypeOK, formVars
<1>5. ASSUME NEW c \in Contacts, NEW e \in Emails, NEW link \in BOOLEAN,
             CreateContact(c, e, link), UNCHANGED <<formVars, submission>>
      PROVE  TypeOK'
  <2>1. EntranceTypeOK' /\ PortalTypeOK'
    BY <1>5, CreateTypes DEF TypeOK
  <2> QED BY <1>5, <2>1 DEF TypeOK, FormsTypeOK, formVars
<1>6. ASSUME NEW v \in Visits, PublicVisit(v)
      PROVE  TypeOK'
  BY <1>6, PublicVisitTypes
<1>7. CASE Crash
  <2>1. EntranceTypeOK'
    BY <1>7, ComesTypes DEF Crash, TypeOK, Kinds
  <2> QED BY <1>7, <2>1, FormsDieTypes, PortalDiesTypes DEF Crash, TypeOK
<1>8. CASE UNCHANGED vars
  BY <1>8 DEF vars, formVars, portalVars, TypeOK, EntranceTypeOK, FormsTypeOK, PortalTypeOK
<1> QED BY <1>1, <1>2, <1>3, <1>4, <1>5, <1>6, <1>7, <1>8 DEF Next

\* Every form, cache entry, contact and code keeps its type, and so does what the
\* requests in flight have read, whatever interleaves with them or cuts them off.
THEOREM TypeCorrect == Spec => []TypeOK
<1>1. Init => TypeOK
  BY InitTypes
<1>2. TypeOK /\ [Next]_vars => TypeOK'
  BY StepTypes
<1> QED BY <1>1, <1>2, PTL DEF Spec

-----------------------------------------------------------------------------
(* What is shown was settled. *)

\* An edit that has written f has yet to delete the entry of s.
Pending(s, f) == \E e \in Editors : Wrote(e, f) /\ s \in edit[e].keys

\* An entry is the form as it is, under its slug, or is going to be deleted.
EntryHolds(s) ==
    LET f == cache[s].form
    IN  /\ cache[s].version >= settled[f]
        /\ \/ Pending(s, f)
           \/ cache[s].version = form[f].version /\ form[f].slug = s

\* So is a copy about to be stored, unless it has aged.
CopyHolds(v) ==
    LET f == visit[v].copy.form
    IN  /\ visit[v].copy.version >= visit[v].since
        /\ ~visit[v].aged => visit[v].copy.version = form[f].version /\ form[f].slug = visit[v].slug

VersionsOrdered == \A f \in Forms : settled[f] <= form[f].version /\ form[f].version <= version

KnowsWhatItRead ==
    \A e \in Editors : edit[e].at \in {"write", "save", "reread"} => edit[e].read \in edit[e].keys

FormsInv ==
    /\ VersionsOrdered
    /\ KnowsWhatItRead
    /\ \A v \in Visits : visit[v].at = "fill" => CopyHolds(v)
    /\ \A s \in Slugs : Cached(s) /\ s \notin excused => EntryHolds(s)
    /\ SettledIsShown

LEMMA FormsInit1 == Init => FormsInv
<1> SUFFICES ASSUME Init PROVE FormsInv
  OBVIOUS
<1>1. TypeOK
  BY InitTypes
<1>f. PICK targets \in SUBSET Targets :
          form = [f \in Forms |-> IF f = NoCopy.form
                                  THEN [here |-> TRUE, slug |-> NoForm.slug, active |-> TRUE,
                                        targets |-> targets, version |-> 1]
                                  ELSE NoForm]
  BY DEF Init, FormsInit
<1>v. version = 1 /\ settled = [f \in Forms |-> form[f].version]
  BY DEF Init, FormsInit
<1>2. ASSUME NEW s \in Slugs, Cached(s) PROVE EntryHolds(s)
  <2>1. s = NoForm.slug /\ cache[s] = [NoCopy EXCEPT !.version = 1, !.targets = form[NoCopy.form].targets]
    <3> DEFINE seen == [NoCopy EXCEPT !.version = 1, !.targets = form[NoCopy.form].targets]
    <3>1. \/ cache = [t \in Slugs |-> NoCopy]
          \/ cache = [t \in Slugs |-> IF t = NoForm.slug THEN seen ELSE NoCopy]
      BY DEF Init, FormsInit
    <3>2. NoCopy.version = 0
      BY DEF NoCopy
    <3>3. cache[s] # NoCopy
      BY <1>2, <3>2 DEF Cached
    <3> HIDE DEF seen
    <3>4. s = NoForm.slug /\ cache[s] = seen
      BY <3>1, <3>3
    <3> QED BY <3>4 DEF seen
  <2>2. cache[s].version = 1 /\ cache[s].form = NoCopy.form /\ NoCopy.form \in Forms
    BY <2>1, Defaults DEF NoCopy
  <2>3. form[NoCopy.form].version = 1 /\ form[NoCopy.form].slug = NoForm.slug
    <3>1. form[NoCopy.form] = [here |-> TRUE, slug |-> NoForm.slug, active |-> TRUE,
                               targets |-> targets, version |-> 1]
      BY <1>f, <2>2
    <3> QED BY <3>1
  <2>4. settled[NoCopy.form] = 1
    BY <1>v, <2>2, <2>3
  <2> QED BY <2>1, <2>2, <2>3, <2>4 DEF EntryHolds
<1>3. VersionsOrdered
  BY <1>f, <1>v DEF VersionsOrdered, NoForm
<1>4. KnowsWhatItRead
  BY DEF Init, FormsInit, KnowsWhatItRead, NoEdit
<1>5. \A v \in Visits : visit[v].at = "idle"
  BY DEF Init, FormsInit, NoVisit
<1> QED BY <1>2, <1>3, <1>4, <1>5 DEF FormsInv, SettledIsShown

\* A step that writes no form and deletes no entry.
LEMMA FormsFrame ==
  ASSUME FormsInv, UNCHANGED <<form, cache, edit, version, settled, excused>>,
         \A v \in Visits : /\ visit'[v].at = "fill" => visit'[v] = visit[v]
                           /\ visit'[v].at # "idle" => visit'[v].copy.version >= visit'[v].since \/ visit'[v].excused
  PROVE  FormsInv'
BY DEF FormsInv, VersionsOrdered, KnowsWhatItRead, CopyHolds, EntryHolds, Pending, Wrote, Cached, SettledIsShown

LEMMA EditsForms ==
  ASSUME FormsTypeOK, FormsInv, NEW e \in Editors, NEW new \in Edit, Edits(e, new),
         new.at = "write", new.read \in new.keys
  PROVE  FormsInv'
<1>1. edit[e].at = "idle" /\ edit' = [edit EXCEPT ![e] = new]
  BY DEF Edits
<1>2. \A d \in Editors, f \in Forms : Wrote(d, f) => d # e /\ Wrote(d, f)' /\ edit'[d] = edit[d]
  BY <1>1 DEF Wrote, FormsTypeOK
<1>3. \A s \in Slugs, f \in Forms : Pending(s, f) => Pending(s, f)'
  BY <1>2 DEF Pending
<1>4. \A s \in Slugs : EntryHolds(s) => EntryHolds(s)'
  BY <1>3 DEF EntryHolds, Edits, FormsTypeOK, Copy
<1>5. KnowsWhatItRead'
  BY <1>1 DEF FormsInv, KnowsWhatItRead, FormsTypeOK
<1> QED BY <1>4, <1>5 DEF Edits, FormsInv, VersionsOrdered, CopyHolds, Cached, SettledIsShown

LEMMA WritesForms ==
  ASSUME FormsTypeOK, FormsInv, NEW e \in Editors, NEW row \in FormRow,
         NEW at \in {"save", "reread", "delete"}, Writes(e, row, at),
         edit[e].at \in {"write", "save"}
  PROVE  FormsInv'
<1> DEFINE f == edit[e].form
<1>0. edit[e] \in Edit /\ f \in Forms /\ form[f] \in FormRow /\ edit[e].read \in edit[e].keys
  BY DEF FormsTypeOK, Edit, FormsInv, KnowsWhatItRead
<1>1. /\ edit' = [edit EXCEPT ![e] = [edit[e] EXCEPT !.at = at]]
      /\ form' = [form EXCEPT ![f] = [row EXCEPT !.version = version + 1]]
      /\ version' = version + 1 /\ UNCHANGED <<left, cache, settled>>
  BY DEF Writes, Moves
<1>2. /\ edit'[e].at = at /\ edit'[e].form = f /\ edit'[e].keys = edit[e].keys
      /\ edit'[e].read = edit[e].read
  BY <1>0, <1>1 DEF FormsTypeOK, Edit
<1>3. \A d \in Editors \ {e} : edit'[d] = edit[d]
  BY <1>1 DEF FormsTypeOK
<1>4. /\ form'[f].version = version + 1
      /\ \A g \in Forms \ {f} : form'[g] = form[g]
  BY <1>0, <1>1 DEF FormsTypeOK, FormRow
<1>5. VersionsOrdered'
  BY <1>1, <1>4 DEF FormsInv, VersionsOrdered, FormsTypeOK, FormRow
<1>6. KnowsWhatItRead'
  BY <1>0, <1>2, <1>3 DEF FormsInv, KnowsWhatItRead
<1>7. \A s \in Slugs, g \in Forms : Pending(s, g) => Pending(s, g)'
  <2> SUFFICES ASSUME NEW s \in Slugs, NEW g \in Forms, NEW d \in Editors, Wrote(d, g), s \in edit[d].keys
               PROVE  Wrote(d, g)' /\ s \in edit'[d].keys
    BY DEF Pending
  <2>1. CASE d = e
    BY <1>2, <2>1 DEF Wrote
  <2>2. CASE d # e
    BY <1>3, <2>2 DEF Wrote
  <2> QED BY <2>1, <2>2
<1>8. Wrote(e, f)' /\ edit[e].read \in edit'[e].keys
  BY <1>0, <1>2 DEF Wrote
<1>9. ASSUME NEW s \in Slugs, Cached(s)', s \notin excused'
      PROVE  EntryHolds(s)'
  <2>1. Cached(s) /\ cache[s] \in Copy /\ s \notin excused
    BY <1>1, <1>9 DEF Cached, Writes, FormsTypeOK
  <2>2. EntryHolds(s)
    BY <2>1 DEF FormsInv
  <2>3. CASE cache[s].form # f
    <3>1. form'[cache[s].form] = form[cache[s].form]
      BY <1>4, <2>1, <2>3 DEF Copy
    <3> QED BY <1>1, <1>7, <2>1, <2>2, <3>1 DEF EntryHolds, Copy
  <2>4. CASE cache[s].form = f
    <3>1. CASE Pending(s, f)
      BY <1>0, <1>1, <1>7, <2>2, <2>4, <3>1 DEF EntryHolds
    <3>2. CASE s = edit[e].read
      BY <1>1, <1>8, <2>2, <2>4, <3>2 DEF EntryHolds, Pending
    <3>3. CASE form[f].slug = s /\ s # edit[e].read
      <4>1. s \in Entries(f) /\ excused' = excused \cup (Entries(f) \ {edit[e].read})
        BY <2>1, <2>4, <3>3 DEF Entries, Writes
      <4> QED BY <1>9, <3>3, <4>1
    <3> QED BY <2>2, <2>4, <3>1, <3>2, <3>3 DEF EntryHolds
  <2> QED BY <2>3, <2>4
<1>10. ASSUME NEW v \in Visits
       PROVE  /\ visit'[v].at = visit[v].at /\ visit'[v].copy = visit[v].copy /\ visit'[v].since = visit[v].since
              /\ visit'[v].slug = visit[v].slug /\ visit'[v].excused = visit[v].excused
              /\ visit[v].at = "fill" /\ visit[v].copy.form = f => visit'[v].aged
              /\ ~(visit[v].at = "fill" /\ visit[v].copy.form = f) => visit'[v].aged = visit[v].aged
  BY DEF Writes, FormsTypeOK, Visit
<1>11. ASSUME NEW v \in Visits, visit'[v].at = "fill"
       PROVE  CopyHolds(v)'
  <2>1. visit[v].copy.form \in Forms
    BY DEF FormsTypeOK, Visit, Copy
  <2>2. CopyHolds(v)
    BY <1>10, <1>11 DEF FormsInv
  <2>3. CASE visit[v].copy.form = f
    BY <1>10, <1>11, <2>2, <2>3 DEF CopyHolds
  <2>4. CASE visit[v].copy.form # f
    BY <1>4, <1>10, <1>11, <2>1, <2>2, <2>4 DEF CopyHolds
  <2> QED BY <2>3, <2>4
<1>12. SettledIsShown'
  BY <1>10 DEF SettledIsShown, FormsInv
<1> QED BY <1>5, <1>6, <1>9, <1>11, <1>12 DEF FormsInv

\* An edit goes on without a word to the tables or the cache, and loses no key.
LEMMA GoesOnForms ==
  ASSUME FormsTypeOK, FormsInv, NEW e \in Editors, NEW new \in Edit,
         edit' = [edit EXCEPT ![e] = new],
         UNCHANGED <<form, cache, visit, version, settled, excused>>,
         new.at \in {"save", "reread", "delete"},
         new.form = edit[e].form, new.read = edit[e].read, edit[e].keys \subseteq new.keys,
         edit[e].at \in {"write", "save", "reread"}
  PROVE  FormsInv'
<1>1. edit'[e] = new /\ \A d \in Editors \ {e} : edit'[d] = edit[d]
  BY DEF FormsTypeOK
<1>2. KnowsWhatItRead'
  BY <1>1 DEF FormsInv, KnowsWhatItRead
<1>3. \A s \in Slugs, g \in Forms : Pending(s, g) => Pending(s, g)'
  <2> SUFFICES ASSUME NEW s \in Slugs, NEW g \in Forms, NEW d \in Editors, Wrote(d, g), s \in edit[d].keys
               PROVE  Wrote(d, g)' /\ s \in edit'[d].keys
    BY DEF Pending
  <2> QED BY <1>1 DEF Wrote
<1>4. \A s \in Slugs : EntryHolds(s) => EntryHolds(s)'
  BY <1>3 DEF EntryHolds, FormsTypeOK, Copy
<1> QED BY <1>2, <1>4 DEF FormsInv, VersionsOrdered, CopyHolds, Cached, SettledIsShown

\* The entry of s is not there any more, or is excused, and may leave the keys of e.
LEMMA KeyGoesForms ==
  ASSUME FormsTypeOK, FormsInv, NEW e \in Editors, NEW s \in Slugs,
         edit[e].at = "delete",
         edit' = [edit EXCEPT ![e].keys = @ \ {s}],
         UNCHANGED <<form, visit, version, settled>>,
         \A z \in Slugs \ {s} : cache'[z] = cache[z] /\ (z \in excused <=> z \in excused'),
         ~Cached(s)' \/ s \in excused'
  PROVE  FormsInv'
<1>1. /\ edit'[e].at = edit[e].at /\ edit'[e].form = edit[e].form /\ edit'[e].keys = edit[e].keys \ {s}
      /\ \A d \in Editors \ {e} : edit'[d] = edit[d]
  BY DEF FormsTypeOK, Edit
<1>2. KnowsWhatItRead'
  BY <1>1 DEF FormsInv, KnowsWhatItRead
<1>3. \A z \in Slugs \ {s}, g \in Forms : Pending(z, g) => Pending(z, g)'
  <2> SUFFICES ASSUME NEW z \in Slugs \ {s}, NEW g \in Forms, NEW d \in Editors, Wrote(d, g), z \in edit[d].keys
               PROVE  Wrote(d, g)' /\ z \in edit'[d].keys
    BY DEF Pending
  <2> QED BY <1>1 DEF Wrote
<1>4. ASSUME NEW z \in Slugs, Cached(z)', z \notin excused'
      PROVE  EntryHolds(z)'
  <2>1. z # s
    BY <1>4
  <2>2. cache'[z] = cache[z] /\ cache[z].form \in Forms /\ EntryHolds(z)
    BY <1>4, <2>1 DEF FormsInv, Cached, FormsTypeOK, Copy
  <2> QED BY <1>3, <2>1, <2>2 DEF EntryHolds
<1> QED BY <1>2, <1>4 DEF FormsInv, VersionsOrdered, CopyHolds, SettledIsShown

\* An edit ends: entries it would have deleted are excused.
LEMMA EndsForms ==
  ASSUME FormsTypeOK, FormsInv, NEW e \in Editors,
         edit' = [edit EXCEPT ![e] = NoEdit],
         UNCHANGED <<form, cache, visit, version>>,
         excused \subseteq excused',
         \A f \in Forms : /\ settled'[f] <= form[f].version
                          /\ Wrote(e, f) => edit[e].keys = {} \/ Entries(f) \subseteq excused'
                          /\ settled'[f] = settled[f] \/ (\A d \in Editors : Wrote(d, f) => d = e /\ edit[e].keys = {})
  PROVE  FormsInv'
<1>1. edit'[e] = NoEdit /\ \A d \in Editors \ {e} : edit'[d] = edit[d]
  BY DEF FormsTypeOK
<1>2. KnowsWhatItRead'
  BY <1>1 DEF FormsInv, KnowsWhatItRead, NoEdit
<1>3. ASSUME NEW s \in Slugs, Cached(s)', s \notin excused'
      PROVE  EntryHolds(s)'
  <2> DEFINE f == cache[s].form
  <2>1. Cached(s) /\ f \in Forms /\ EntryHolds(s) /\ s \notin excused
    BY <1>3 DEF FormsInv, Cached, FormsTypeOK, Copy
  <2>2. s \in Entries(f)
    BY <2>1 DEF Entries
  <2>3. CASE Pending(s, f)
    <3>1. PICK d \in Editors : Wrote(d, f) /\ s \in edit[d].keys
      BY <2>3 DEF Pending
    <3>2. d # e
      BY <1>3, <2>1, <2>2, <3>1
    <3>3. Wrote(d, f)' /\ s \in edit'[d].keys
      BY <1>1, <3>1, <3>2 DEF Wrote
    <3>4. settled'[f] = settled[f]
      BY <2>1, <3>1, <3>2
    <3> QED BY <2>1, <3>3, <3>4 DEF EntryHolds, Pending
  <2>4. CASE cache[s].version = form[f].version /\ form[f].slug = s
    BY <2>1, <2>4 DEF EntryHolds
  <2> QED BY <2>1, <2>3, <2>4 DEF EntryHolds
<1> QED BY <1>2, <1>3 DEF FormsInv, VersionsOrdered, CopyHolds, Cached, SettledIsShown

LEMMA BreaksForms ==
  ASSUME FormsTypeOK, FormsInv, NEW e \in Editors, Breaks(e)
  PROVE  FormsInv'
<1>1. \A f \in Forms : Wrote(e, f) => edit[e].form = f /\ Entries(f) \subseteq excused'
  BY DEF Breaks, Wrote
<1>2. \A f \in Forms : settled'[f] = settled[f] /\ settled'[f] <= form[f].version
  BY DEF Breaks, FormsInv, VersionsOrdered
<1>3. excused \subseteq excused'
  BY DEF Breaks
<1> QED BY <1>1, <1>2, <1>3, EndsForms DEF Breaks

LEMMA AnswerForms ==
  ASSUME FormsTypeOK, FormsInv, NEW e \in Editors, Answer(e)
  PROVE  FormsInv'
<1>0. edit[e].form \in Forms /\ edit[e].keys = {}
  BY DEF Answer, FormsTypeOK, Edit
<1>1. ASSUME NEW f \in Forms
      PROVE  /\ settled'[f] <= form[f].version
             /\ settled'[f] = settled[f] \/ (\A d \in Editors : Wrote(d, f) => d = e /\ edit[e].keys = {})
  <2>0. settled[f] <= form[f].version /\ form[f].version \in Nat
    BY DEF FormsInv, VersionsOrdered, FormsTypeOK, FormRow
  <2>1. CASE settled' = settled
    BY <2>0, <2>1
  <2>2. CASE /\ ~\E d \in Editors \ {e} : Wrote(d, edit[e].form)
             /\ settled' = [settled EXCEPT ![edit[e].form] = form[edit[e].form].version]
    <3>1. CASE f = edit[e].form
      BY <1>0, <2>0, <2>2, <3>1 DEF FormsTypeOK
    <3>2. CASE f # edit[e].form
      BY <1>0, <2>0, <2>2, <3>2 DEF FormsTypeOK
    <3> QED BY <3>1, <3>2
  <2> QED BY <2>1, <2>2 DEF Answer
<1> QED BY <1>0, <1>1, EndsForms DEF Answer

LEMMA EditStepForms ==
  ASSUME FormsTypeOK, FormsInv, NEW e \in Editors, EditStep(e)
  PROVE  FormsInv'
<1>0. edit[e] \in Edit /\ edit[e].form \in Forms /\ form[edit[e].form] \in FormRow
  BY DEF FormsTypeOK, Edit
<1>1. ASSUME NEW f \in Forms, NEW s \in Slugs, AskCreate(e, f, s)
      PROVE  FormsInv'
  <2>1. [NoForm EXCEPT !.here = TRUE, !.slug = s] \in FormRow
    BY Defaults DEF FormRow
  <2> DEFINE new == [NoEdit EXCEPT !.op = "create", !.at = "write", !.form = f, !.read = s,
                       !.keys = {s}, !.row = [NoForm EXCEPT !.here = TRUE, !.slug = s]]
  <2>2. new \in Edit /\ new.at = "write" /\ new.read \in new.keys
    BY <2>1, Defaults DEF Edit, FormOps
  <2>3. Edits(e, new)
    BY <1>1 DEF AskCreate
  <2> HIDE DEF new
  <2> QED BY <2>2, <2>3, EditsForms
<1>2. ASSUME NEW f \in Forms, NEW op \in FormOps, NEW asks \in FormRow, NEW aims \in SUBSET Targets,
             AskEdit(e, f, op, asks, aims)
      PROVE  FormsInv'
  <2> DEFINE new == [op |-> op, at |-> "write", form |-> f, row |-> asks, read |-> form[f].slug,
                     keys |-> {form[f].slug}, aims |-> aims]
  <2>1. form[f].slug \in Slugs
    BY DEF FormsTypeOK, FormRow
  <2>2. new \in Edit /\ new.at = "write" /\ new.read \in new.keys
    BY <2>1 DEF Edit
  <2>3. Edits(e, new)
    BY <1>2 DEF AskEdit
  <2> HIDE DEF new
  <2> QED BY <2>2, <2>3, EditsForms
<1>3. ASSUME NEW f \in Forms, NEW s \in Slugs, AskEdit(e, f, "rename", [form[f] EXCEPT !.slug = s], {})
      PROVE  FormsInv'
  <2>1. [form[f] EXCEPT !.slug = s] \in FormRow /\ "rename" \in FormOps /\ {} \in SUBSET Targets
    BY DEF FormsTypeOK, FormRow, FormOps
  <2> QED BY <1>2, <1>3, <2>1
<1>4. ASSUME NEW f \in Forms, NEW a \in BOOLEAN, AskEdit(e, f, "switch", [form[f] EXCEPT !.active = a], {})
      PROVE  FormsInv'
  <2>1. [form[f] EXCEPT !.active = a] \in FormRow /\ "switch" \in FormOps /\ {} \in SUBSET Targets
    BY DEF FormsTypeOK, FormRow, FormOps
  <2> QED BY <1>2, <1>4, <2>1
<1>5. CASE \E f \in Forms :
               \/ \E op \in {"fields", "delete", "groups"} : AskEdit(e, f, op, form[f], {})
               \/ \E op \in {"targets", "untarget"}, aims \in SUBSET Targets : AskEdit(e, f, op, form[f], aims)
  <2>1. {"fields", "delete", "groups", "targets", "untarget"} \subseteq FormOps /\ {} \in SUBSET Targets
        /\ \A f \in Forms : form[f] \in FormRow
    BY DEF FormOps, FormsTypeOK
  <2>2. \E f \in Forms, op \in FormOps, aims \in SUBSET Targets : AskEdit(e, f, op, form[f], aims)
    BY <1>5, <2>1
  <2> QED BY <1>2, <2>1, <2>2
<1>6. CASE WriteForm(e)
  <2>0. edit[e].at = "write" /\ AfterWrite(edit[e]) \in {"save", "reread", "delete"}
    BY <1>6 DEF WriteForm, AfterWrite
  <2>1. CASE Breaks(e)
    BY <2>1, BreaksForms
  <2>2. CASE Writes(e, NewForm(edit[e], form[edit[e].form]), AfterWrite(edit[e]))
    <3>1. NewForm(edit[e], form[edit[e].form]) \in FormRow
      BY <1>0, NewFormTypes
    <3> QED BY <2>0, <2>2, <3>1, WritesForms
  <2>3. CASE /\ edit' = [edit EXCEPT ![e] = Moves(edit[e], AfterWrite(edit[e]))]
             /\ UNCHANGED <<left, form, cache, visit, version, settled, excused>>
    <3> DEFINE new == Moves(edit[e], AfterWrite(edit[e]))
    <3>1. new \in Edit
      BY <1>0, <2>0, MovesTypes
    <3>2. /\ new.at \in {"save", "reread", "delete"} /\ new.form = edit[e].form
          /\ new.read = edit[e].read /\ new.keys = edit[e].keys
      BY <1>0, <2>0 DEF Moves, Edit
    <3> HIDE DEF new
    <3> QED BY <2>0, <2>3, <3>1, <3>2, GoesOnForms DEF new
  <2> QED BY <1>6, <2>1, <2>2, <2>3 DEF WriteForm
<1>7. CASE SaveTargets(e)
  <2>1. CASE Breaks(e)
    BY <2>1, BreaksForms
  <2>2. CASE Writes(e, [form[edit[e].form] EXCEPT !.targets = @ \cup edit[e].aims], "delete")
    <3>1. [form[edit[e].form] EXCEPT !.targets = @ \cup edit[e].aims] \in FormRow
      BY <1>0 DEF FormRow, Edit
    <3> QED BY <1>7, <2>2, <3>1, WritesForms DEF SaveTargets
  <2> QED BY <1>7, <2>1, <2>2 DEF SaveTargets
<1>8. CASE Reread(e)
  <2> DEFINE new == [edit[e] EXCEPT !.at = "delete", !.keys = BothKeys(edit[e].keys, form[edit[e].form])]
  <2>1. BothKeys(edit[e].keys, form[edit[e].form]) \in SUBSET Slugs
        /\ edit[e].keys \subseteq BothKeys(edit[e].keys, form[edit[e].form])
    BY <1>0, BothKeysTypes DEF Edit, BothKeys
  <2>2. /\ new \in Edit /\ new.at = "delete" /\ new.form = edit[e].form
        /\ new.read = edit[e].read /\ edit[e].keys \subseteq new.keys
    BY <1>0, <2>1 DEF Edit
  <2>3. edit' = [edit EXCEPT ![e] = new]
    BY <1>8 DEF Reread, FormsTypeOK
  <2> HIDE DEF new
  <2> QED BY <1>8, <2>2, <2>3, GoesOnForms DEF Reread
<1>9. CASE Answer(e)
  BY <1>9, AnswerForms
<1>10. CASE EditThrows(e)
  BY <1>10, BreaksForms DEF EditThrows
<1>11. ASSUME NEW s \in Slugs, DeleteKey(e, s)
       PROVE  FormsInv'
  <2>1. ~Cached(s)' /\ \A z \in Slugs \ {s} : cache'[z] = cache[z]
    BY <1>11 DEF DeleteKey, Cached, NoCopy, FormsTypeOK
  <2> QED BY <1>11, <2>1, KeyGoesForms DEF DeleteKey
<1>12. ASSUME NEW s \in Slugs, DeleteFails(e, s)
       PROVE  FormsInv'
  <2>1. ~Cached(s)' \/ s \in excused'
    BY <1>12 DEF DeleteFails, Cached
  <2> QED BY <1>12, <2>1, KeyGoesForms DEF DeleteFails
<1> QED BY <1>1, <1>3, <1>4, <1>5, <1>6, <1>7, <1>8, <1>9, <1>10, <1>11, <1>12 DEF EditStep

LEMMA FindBySlugForms ==
  ASSUME FormsTypeOK, FormsInv, NEW v \in Visits, FindBySlug(v)
  PROVE  FormsInv'
<1>0. visit[v] \in Visit /\ visit[v].slug \in Slugs /\ visit[v].copy \in Copy
  BY DEF FormsTypeOK, Visit
<1>1. ASSUME NEW s \in Slugs, Arrive(v, s)
      PROVE  FormsInv'
  <2>1. CASE Cached(s)
    <3>1. /\ visit'[v].at = "enter" /\ visit'[v].copy = cache[s]
          /\ visit'[v].since = settled[cache[s].form] /\ visit'[v].excused = (s \in excused)
          /\ \A w \in Visits \ {v} : visit'[w] = visit[w]
      BY <1>1, <2>1 DEF Arrive, FormsTypeOK, NoVisit
    <3>2. visit'[v].copy.version >= visit'[v].since \/ visit'[v].excused
      BY <2>1, <3>1 DEF FormsInv, EntryHolds
    <3> QED BY <1>1, <3>1, <3>2, FormsFrame DEF Arrive, FormsInv, SettledIsShown
  <2>2. CASE ~Cached(s)
    <3>1. /\ visit'[v] = [NoVisit EXCEPT !.slug = s, !.at = "read"]
          /\ \A w \in Visits \ {v} : visit'[w] = visit[w]
      BY <1>1, <2>2 DEF Arrive, FormsTypeOK
    <3>2. visit'[v].at = "read" /\ visit'[v].copy = NoCopy /\ visit'[v].since = 0
      BY <3>1 DEF NoVisit
    <3>3. visit'[v].copy.version >= visit'[v].since
      BY <3>2 DEF NoCopy
    <3> QED BY <1>1, <3>1, <3>2, <3>3, FormsFrame DEF Arrive, FormsInv, SettledIsShown
  <2> QED BY <2>1, <2>2
<1>2. CASE ReadForm(v)
  <2>1. PICK f \in Public(visit[v].slug) :
          visit' = [visit EXCEPT ![v].at = "fill", ![v].since = settled[f],
                      ![v].copy = [form |-> f, version |-> form[f].version, targets |-> form[f].targets]]
    BY <1>2 DEF ReadForm
  <2>2. f \in Forms /\ form[f].slug = visit[v].slug /\ settled[f] <= form[f].version
        /\ form[f].version \in Nat /\ settled[f] \in Nat
    BY DEF Public, FormsInv, VersionsOrdered, FormsTypeOK, FormRow
  <2>3. /\ visit'[v].at = "fill" /\ visit'[v].since = settled[f] /\ visit'[v].slug = visit[v].slug
        /\ visit'[v].copy.form = f /\ visit'[v].copy.version = form[f].version
        /\ \A w \in Visits \ {v} : visit'[w] = visit[w]
    BY <1>0, <2>1 DEF FormsTypeOK, Visit
  <2>4. UNCHANGED <<left, form, cache, edit, version, settled, excused>>
    BY <1>2 DEF ReadForm
  <2>5. CopyHolds(v)'
    BY <2>2, <2>3, <2>4 DEF CopyHolds
  <2>6. \A w \in Visits \ {v} : visit'[w].at = "fill" => CopyHolds(w)'
    BY <2>3, <2>4 DEF CopyHolds, FormsInv
  <2>7. SettledIsShown'
    BY <2>2, <2>3 DEF SettledIsShown, FormsInv
  <2> QED BY <2>4, <2>5, <2>6, <2>7
          DEF FormsInv, VersionsOrdered, KnowsWhatItRead, EntryHolds, Pending, Wrote, Cached
<1>3. CASE NotFound(v) \/ Leave(v)
  <2>1. visit'[v].at = "idle" /\ \A w \in Visits \ {v} : visit'[w] = visit[w]
    BY <1>3 DEF NotFound, Leave, FormsTypeOK, NoVisit
  <2> QED BY <1>3, <2>1, FormsFrame DEF NotFound, Leave, FormsInv, SettledIsShown
<1>4. CASE Fill(v)
  <2> DEFINE s == visit[v].slug
             f == visit[v].copy.form
  <2>1. /\ visit'[v].at = "enter" /\ visit'[v].copy = visit[v].copy /\ visit'[v].since = visit[v].since
        /\ \A w \in Visits \ {v} : visit'[w] = visit[w]
    BY <1>0, <1>4 DEF Fill, FormsTypeOK, Visit
  <2>2. CopyHolds(v) /\ f \in Forms
    BY <1>0, <1>4 DEF Fill, FormsInv, Copy
  <2>3. /\ UNCHANGED <<left, form, edit, version, settled>>
        /\ cache' = [cache EXCEPT ![s] = visit[v].copy]
        /\ excused' = IF visit[v].aged THEN excused \cup {s} ELSE excused \ {s}
    BY <1>4 DEF Fill
  <2>4. ASSUME NEW z \in Slugs, Cached(z)', z \notin excused'
        PROVE  EntryHolds(z)'
    <3>1. CASE z = s
      <4>1. cache'[z] = visit[v].copy /\ ~visit[v].aged
        BY <1>0, <2>3, <2>4, <3>1 DEF FormsTypeOK
      <4>2. visit[v].copy.version = form[f].version /\ form[f].slug = z /\ settled[f] <= form[f].version
        BY <2>2, <3>1, <4>1 DEF CopyHolds, FormsInv, VersionsOrdered
      <4>3. form[f].version \in Nat /\ settled[f] \in Nat
        BY <2>2 DEF FormsTypeOK, FormRow
      <4> QED BY <2>3, <4>1, <4>2, <4>3 DEF EntryHolds
    <3>2. CASE z # s
      <4>1. cache'[z] = cache[z] /\ EntryHolds(z)
        BY <1>0, <2>3, <2>4, <3>2 DEF FormsTypeOK, FormsInv, Cached
      <4> QED BY <2>3, <4>1 DEF EntryHolds, Pending, Wrote
    <3> QED BY <3>1, <3>2
  <2>5. SettledIsShown'
    BY <2>1, <2>2 DEF SettledIsShown, CopyHolds, FormsInv
  <2>6. \A w \in Visits : visit'[w].at = "fill" => CopyHolds(w)'
    BY <2>1, <2>3 DEF CopyHolds, FormsInv
  <2>7. VersionsOrdered' /\ KnowsWhatItRead'
    BY <2>3 DEF FormsInv, VersionsOrdered, KnowsWhatItRead
  <2> QED BY <2>4, <2>5, <2>6, <2>7 DEF FormsInv
<1> QED BY <1>1, <1>2, <1>3, <1>4 DEF FindBySlug

LEMMA ExpiresForms ==
  ASSUME FormsTypeOK, FormsInv, NEW s \in Slugs, Expires(s)
  PROVE  FormsInv'
<1>1. ~Cached(s)' /\ \A z \in Slugs \ {s} : cache'[z] = cache[z] /\ (z \in excused <=> z \in excused')
  BY DEF Expires, Cached, NoCopy, FormsTypeOK
<1>2. ASSUME NEW z \in Slugs, Cached(z)', z \notin excused'
      PROVE  EntryHolds(z)'
  BY <1>1, <1>2 DEF Expires, FormsInv, EntryHolds, Pending, Wrote, Cached
<1> QED BY <1>2 DEF Expires, FormsInv, VersionsOrdered, KnowsWhatItRead, CopyHolds, SettledIsShown

LEMMA FormsDieForms ==
  ASSUME FormsTypeOK, FormsInv, FormsDie
  PROVE  FormsInv'
<1>1. /\ \A e \in Editors : edit'[e].at = "idle"
      /\ \A v \in Visits : visit'[v].at = "idle"
      /\ UNCHANGED <<form, version, settled>>
  BY DEF FormsDie, NoEdit, NoVisit
<1>2. ASSUME NEW s \in Slugs, Cached(s)', s \notin excused'
      PROVE  EntryHolds(s)'
  <2>1. cache' = cache /\ excused' = excused \cup UNION {Entries(f) : f \in {g \in Forms : \E e \in Editors : Wrote(e, g)}}
    BY <1>2 DEF FormsDie, Cached, NoCopy
  <2>2. Cached(s) /\ cache[s].form \in Forms /\ EntryHolds(s)
    BY <1>2, <2>1 DEF Cached, FormsInv, FormsTypeOK, Copy
  <2>3. s \in Entries(cache[s].form)
    BY <2>2 DEF Entries
  <2>4. ~Pending(s, cache[s].form)
    BY <1>2, <2>1, <2>2, <2>3 DEF Pending
  <2> QED BY <1>1, <2>1, <2>2, <2>4 DEF EntryHolds
<1> QED BY <1>1, <1>2 DEF FormsInv, VersionsOrdered, KnowsWhatItRead, SettledIsShown

LEMMA PublicVisitForms ==
  ASSUME FormsTypeOK, FormsInv, NEW v \in Visits, PublicVisit(v)
  PROVE  FormsInv'
<1>1. ASSUME NEW at \in {"submit", "find", "create"}, NEW c, VisitGoes(v, at, c), visit[v].at # "idle"
      PROVE  FormsInv'
  <2>1. /\ visit'[v].at = at /\ visit'[v].copy = visit[v].copy /\ visit'[v].since = visit[v].since
        /\ visit'[v].excused = visit[v].excused
        /\ \A w \in Visits \ {v} : visit'[w] = visit[w]
    BY <1>1 DEF VisitGoes, FormsTypeOK, Visit
  <2> QED BY <1>1, <2>1, FormsFrame DEF VisitGoes, FormsInv, SettledIsShown
<1>2. CASE Submit(v)
  <2>1. visit'[v].at = "idle" /\ \A w \in Visits \ {v} : visit'[w] = visit[w]
    BY <1>2 DEF Submit, FormsTypeOK, NoVisit
  <2> QED BY <1>2, <2>1, FormsFrame DEF Submit, FormsInv, SettledIsShown
<1>3. ASSUME NEW c \in Contacts, EnterAs(v, c)
      PROVE  FormsInv'
  BY <1>1, <1>3 DEF EnterAs
<1>4. CASE EnterUnknown(v)
  BY <1>1, <1>4 DEF EnterUnknown
<1>5. ASSUME NEW e \in Emails, FindContact(v, e)
      PROVE  FormsInv'
  BY <1>1, <1>5 DEF FindContact
<1>6. ASSUME NEW e \in Emails, NEW c \in Contacts, CreateFromPublic(v, c, e)
      PROVE  FormsInv'
  BY <1>1, <1>6 DEF CreateFromPublic
<1> QED BY <1>2, <1>3, <1>4, <1>5, <1>6 DEF PublicVisit

LEMMA FormsStep == TypeOK /\ FormsInv /\ [Next]_vars => FormsInv'
<1> SUFFICES ASSUME TypeOK, FormsInv, [Next]_vars PROVE FormsInv'
  OBVIOUS
<1> USE DEF TypeOK
<1>1. CASE FormsNext
  BY <1>1, EditStepForms, FindBySlugForms, ExpiresForms DEF FormsNext
<1>2. CASE UNCHANGED formVars
  BY <1>2, FormsFrame DEF formVars, FormsInv, SettledIsShown
<1>3. ASSUME NEW v \in Visits, PublicVisit(v)
      PROVE  FormsInv'
  BY <1>3, PublicVisitForms
<1>4. CASE Crash
  BY <1>4, FormsDieForms DEF Crash
<1> QED BY <1>1, <1>2, <1>3, <1>4 DEF Next, vars, formVars

\* Whoever comes once all edits of a form are answered is shown the form with them,
\* unless the entry of the cache is one no edit could have deleted: after any edits
\* of any forms, however they interleave with the visits that fill the cache.
THEOREM ShownAsSettled == Spec => []SettledIsShown
<1>1. Init => TypeOK /\ FormsInv
  BY InitTypes, FormsInit1
<1>2. TypeOK /\ FormsInv /\ [Next]_vars => TypeOK' /\ FormsInv'
  BY StepTypes, FormsStep
<1>3. FormsInv => SettledIsShown
  BY DEF FormsInv
<1> QED BY <1>1, <1>2, <1>3, PTL DEF Spec

-----------------------------------------------------------------------------
(* What was taken stays taken. *)

\* Nothing has been taken from a contact that is not there yet, and codes are of
\* contacts that are there.
Unmade(c) ==
    /\ ~contact[c].here /\ c \notin removed => barred[c] = {} /\ spent[c] = {} /\ c \notin erased
    /\ code[c].here => contact[c].here

\* The present is the last moment.
MomentsPast ==
    /\ \A c \in Contacts :
          /\ contact[c].reset <= moment /\ contact[c].invalid <= moment /\ code[c].token <= moment
          /\ \A t \in token[c] : t <= moment
          /\ \A x \in spent[c] \cup old[c] : 0 < x /\ x <= moment
    /\ \A q \in PortalRequests :
          ask[q].row.reset <= moment /\ ask[q].row.invalid <= moment /\ ask[q].code.token <= moment

\* What a request holds was there when it was read, and a deactivation takes the time
\* if the contact was active.
Asked(q) ==
    /\ ask[q].at # "idle" => contact[ask[q].contact].here \/ ask[q].contact \in removed
    /\ ask[q].at \in {"save", "stamp", "update"} => ask[q].row.here
    /\ ask[q].at = "save" => ask[q].op \in {"reset", "confirm", "groups"}
    /\ ask[q].at = "saveCode" => ask[q].code.here
    /\ ask[q].at = "stamp" => ask[q].op = "deactivate" /\ ask[q].stamp = 0
    /\ ask[q].at = "update" => ask[q].op \in {"deactivate", "activate", "link", "email"}
    /\ ask[q].at = "update" /\ ask[q].op = "deactivate" =>
          IF ask[q].row.active THEN ask[q].stamp > ask[q].row.invalid /\ ask[q].stamp <= moment ELSE ask[q].stamp = 0

\* The copies of a row that was not written under one are the row.
HeldHolds(q) ==
    /\ \A c \in calm : Holds(q, c) => ask[q].row = contact[c]
    /\ \A c \in quiet : HoldsCode(q, c) => ask[q].code = code[c]

ContactHolds(c) ==
    /\ contact[c].here => \A t \in barred[c] : contact[c].invalid > t
    /\ contact[c].reset \notin spent[c]
    /\ c \in erased => contact[c].email = NoEmail
    /\ c \in removed => ~contact[c].here

CodeHolds(c) == code[c].token \notin old[c] /\ (c \in off => ~code[c].active)

PortalInv ==
    /\ MomentsPast
    /\ \A c \in Contacts : Unmade(c) /\ (~code[c].here => c \notin off)
    /\ \A q \in PortalRequests : Asked(q) /\ HeldHolds(q)
    /\ \A c \in calm : ContactHolds(c)
    /\ \A c \in quiet : CodeHolds(c)

LEMMA PortalInit1 == Init => PortalInv
<1> SUFFICES ASSUME Init PROVE PortalInv
  OBVIOUS
<1>1. PICK e \in Emails :
          contact = [c \in Contacts |->
                       IF c = 1 THEN [here |-> TRUE, email |-> e, active |-> TRUE, password |-> TRUE,
                                      reset |-> 0, invalid |-> 0]
                       ELSE NoContact]
  BY DEF Init, PortalInit
<1>2. /\ \A c \in Contacts : contact[c].reset = 0 /\ contact[c].invalid = 0
      /\ \A q \in PortalRequests : ask[q].at = "idle" /\ ask[q].row = NoContact /\ ask[q].code = NoCode
      /\ NoContact.reset = 0 /\ NoContact.invalid = 0 /\ NoCode.token = 0
  BY <1>1 DEF Init, PortalInit, NoAsk, NoContact, NoCode
<1>3. /\ \A c \in Contacts : /\ code[c] = NoCode /\ barred[c] = {} /\ spent[c] = {} /\ old[c] = {}
                             /\ token[c] \subseteq {1}
      /\ erased = {} /\ removed = {} /\ off = {} /\ moment = 1
  BY DEF Init, PortalInit
<1>4. MomentsPast
  BY <1>2, <1>3 DEF MomentsPast
<1>5. \A q \in PortalRequests : Asked(q) /\ HeldHolds(q)
  BY <1>2 DEF Asked, HeldHolds, Holds, HoldsCode
<1>6. \A c \in Contacts : Unmade(c) /\ (~code[c].here => c \notin off) /\ ContactHolds(c) /\ CodeHolds(c)
  BY <1>2, <1>3 DEF Unmade, ContactHolds, CodeHolds, NoCode
<1> QED BY <1>4, <1>5, <1>6 DEF PortalInv, Init, PortalInit

LEMMA PortalFrame ==
  ASSUME PortalInv,
         UNCHANGED <<contact, code, ask, moment, token, barred, spent, erased, removed, old, off, calm, quiet>>
  PROVE  PortalInv'
BY DEF PortalInv, MomentsPast, Unmade, Asked, HeldHolds, Holds, HoldsCode, ContactHolds, CodeHolds

LEMMA NullMoments == NoContact.reset = 0 /\ NoContact.invalid = 0 /\ NoCode.token = 0 /\ NoAsk.at = "idle"
                     /\ NoAsk.row = NoContact /\ NoAsk.code = NoCode
BY DEF NoContact, NoCode, NoAsk

\* A request reads a row, or a code, that is there.
LEMMA BeginsPortal ==
  ASSUME PortalTypeOK, PortalInv, NEW r \in PortalRequests, NEW new \in Ask, Begins(r, new),
         contact[new.contact].here,
         new.row \in {contact[new.contact], NoContact}
             \/ \E e \in Emails \cup {NoEmail} : new.row = [contact[new.contact] EXCEPT !.email = e],
         new.at \in {"save", "stamp"} => new.row = contact[new.contact],
         new.at = "update" => new.row.here,
         new.code \in {code[new.contact], NoCode},
         new.at = "saveCode" => new.code = code[new.contact] /\ new.code.here,
         new.at = "save" => new.op \in {"reset", "confirm", "groups"},
         new.at = "stamp" => new.op = "deactivate" /\ new.stamp = 0,
         new.at = "update" => new.op \in {"activate", "link", "email"}
  PROVE  PortalInv'
<1>1. ask'[r] = new /\ \A q \in PortalRequests \ {r} : ask'[q] = ask[q]
  BY DEF Begins, PortalTypeOK
<1>2. new.contact \in Contacts
  BY DEF Ask
<1>3. MomentsPast'
  <2>1. moment \in Nat
    BY DEF PortalTypeOK
  <2>3. contact[new.contact] \in ContactRow
    BY <1>2 DEF PortalTypeOK
  <2>4. /\ new.row.reset \in {contact[new.contact].reset, 0}
        /\ new.row.invalid \in {contact[new.contact].invalid, 0}
    BY <2>3, NullMoments DEF ContactRow
  <2>2. new.row.reset <= moment /\ new.row.invalid <= moment /\ new.code.token <= moment
    BY <1>2, <2>1, <2>4, NullMoments DEF PortalInv, MomentsPast
  <2> QED BY <1>1, <2>2 DEF PortalInv, MomentsPast, Begins
<1>4. ASSUME NEW q \in PortalRequests PROVE Asked(q)' /\ HeldHolds(q)'
  <2>1. CASE q = r
    BY <1>1, <2>1 DEF Begins, Asked, HeldHolds, Holds, HoldsCode
  <2>2. CASE q # r
    BY <1>1, <2>2 DEF Begins, PortalInv, Asked, HeldHolds, Holds, HoldsCode
  <2> QED BY <2>1, <2>2
<1> QED BY <1>3, <1>4 DEF PortalInv, Begins, Unmade, ContactHolds, CodeHolds

\* After a write of the row of c, or of its code, no one else holds a copy, or it is
\* known that someone does.
LEMMA WrittenHolds ==
  ASSUME PortalTypeOK, PortalInv, NEW c \in Contacts, NEW r,
         \A d \in Contacts \ {c} : contact'[d] = contact[d] /\ code'[d] = code[d],
         \A q \in PortalRequests : ask'[q] = NoAsk \/ (q # r /\ ask'[q] = ask[q]),
         (contact' = contact /\ calm' = calm) \/ Disturbs(r, c),
         (code' = code /\ quiet' = quiet) \/ DisturbsCode(r, c)
  PROVE  \A q \in PortalRequests : HeldHolds(q)'
<1> SUFFICES ASSUME NEW q \in PortalRequests, q # r, ask'[q] = ask[q] PROVE HeldHolds(q)'
  BY DEF HeldHolds, Holds, HoldsCode, NoAsk
<1>1. ASSUME NEW d \in calm', Holds(q, d)' PROVE ask'[q].row = contact'[d]
  <2>1. d \in calm /\ Holds(q, d) /\ d \in Contacts
    BY <1>1 DEF Disturbs, Holds, PortalTypeOK
  <2>2. ask[q].row = contact[d]
    BY <2>1 DEF PortalInv, HeldHolds
  <2>3. CASE d # c
    BY <2>1, <2>2, <2>3
  <2>4. CASE d = c /\ contact' = contact
    BY <2>2, <2>4
  <2>5. CASE d = c /\ Disturbs(r, c)
    BY <1>1, <2>1, <2>5 DEF Disturbs
  <2> QED BY <2>3, <2>4, <2>5
<1>2. ASSUME NEW d \in quiet', HoldsCode(q, d)' PROVE ask'[q].code = code'[d]
  <2>1. d \in quiet /\ HoldsCode(q, d) /\ d \in Contacts
    BY <1>2 DEF DisturbsCode, HoldsCode, PortalTypeOK
  <2>2. ask[q].code = code[d]
    BY <2>1 DEF PortalInv, HeldHolds
  <2>3. CASE d # c
    BY <2>1, <2>2, <2>3
  <2>4. CASE d = c /\ code' = code
    BY <2>2, <2>4
  <2>5. CASE d = c /\ DisturbsCode(r, c)
    BY <1>2, <2>1, <2>5 DEF DisturbsCode
  <2> QED BY <2>3, <2>4, <2>5
<1> QED BY <1>1, <1>2 DEF HeldHolds

LEMMA StillHere ==
  ASSUME PortalInv, moment \in Nat,
         \A q \in PortalRequests : ask'[q] = NoAsk \/ ask'[q] = ask[q],
         moment' \in Nat, moment <= moment',
         \A c \in Contacts : contact[c].here \/ c \in removed => contact'[c].here \/ c \in removed',
         PortalTypeOK
  PROVE  \A q \in PortalRequests : Asked(q)'
<1> SUFFICES ASSUME NEW q \in PortalRequests PROVE Asked(q)'
  OBVIOUS
<1>1. CASE ask'[q] = NoAsk
  BY <1>1 DEF Asked, NoAsk
<1>2. CASE ask'[q] = ask[q]
  <2>1. ask[q].contact \in Contacts /\ ask[q].stamp \in Nat
    BY DEF PortalTypeOK, Ask
  <2> QED BY <1>2, <2>1 DEF PortalInv, Asked
<1> QED BY <1>1, <1>2

LEMMA DoneAsks ==
  ASSUME PortalTypeOK, NEW r \in PortalRequests, Done(r)
  PROVE  /\ \A q \in PortalRequests : ask'[q] = NoAsk \/ (q # r /\ ask'[q] = ask[q])
         /\ \A q \in PortalRequests : ask'[q] = NoAsk \/ ask'[q] = ask[q]
BY DEF Done, PortalTypeOK

LEMMA SignPortal ==
  ASSUME PortalTypeOK, PortalInv, NEW r \in PortalRequests, Sign(r)
  PROVE  PortalInv'
<1>1. \A q \in PortalRequests : ask'[q] = NoAsk \/ (q # r /\ ask'[q] = ask[q])
  BY DoneAsks DEF Sign
<1>2. moment \in Nat /\ moment' = moment + 1
  BY DEF Sign, PortalTypeOK
<1>3. MomentsPast'
  <2>1. \A c \in Contacts : \A t \in token'[c] : t <= moment'
    <3> SUFFICES ASSUME NEW c \in Contacts, NEW t \in token'[c] PROVE t <= moment'
      OBVIOUS
    <3>1. t \in token[c] \/ t = moment + 1
      BY DEF Sign, PortalTypeOK
    <3>2. t \in token[c] => t \in Nat /\ t <= moment
      BY DEF PortalInv, MomentsPast, PortalTypeOK
    <3> QED BY <1>2, <3>1, <3>2
  <2>2. \A c \in Contacts : contact[c] \in ContactRow /\ code[c] \in CodeRow /\ spent[c] \cup old[c] \subseteq Nat
    BY DEF PortalTypeOK
  <2>3. \A q \in PortalRequests : ask[q].row \in ContactRow /\ ask[q].code \in CodeRow
    BY DEF PortalTypeOK, Ask
  <2>4. UNCHANGED <<contact, code, spent, old>>
    BY DEF Sign
  <2>5. \A c \in Contacts :
          /\ contact'[c].reset <= moment' /\ contact'[c].invalid <= moment' /\ code'[c].token <= moment'
          /\ \A x \in spent'[c] \cup old'[c] : 0 < x /\ x <= moment'
    BY <1>2, <2>2, <2>4 DEF PortalInv, MomentsPast, ContactRow, CodeRow
  <2>6. \A q \in PortalRequests :
          ask'[q].row.reset <= moment' /\ ask'[q].row.invalid <= moment' /\ ask'[q].code.token <= moment'
    BY <1>1, <1>2, <2>3, NullMoments DEF PortalInv, MomentsPast, ContactRow, CodeRow
  <2> QED BY <2>1, <2>5, <2>6 DEF MomentsPast
<1>4. \A q \in PortalRequests : Asked(q)'
  BY <1>1, <1>2, StillHere DEF Sign
<1>5. \A q \in PortalRequests : HeldHolds(q)'
  BY <1>1 DEF Sign, PortalInv, HeldHolds, Holds, HoldsCode, NoAsk
<1> QED BY <1>3, <1>4, <1>5 DEF Sign, PortalInv, Unmade, ContactHolds, CodeHolds

LEMMA FailsPortal ==
  ASSUME PortalTypeOK, PortalInv, NEW r \in PortalRequests, Fails(r)
  PROVE  PortalInv'
<1>1. \A q \in PortalRequests : ask'[q] = NoAsk \/ (q # r /\ ask'[q] = ask[q])
  BY DEF Fails, PortalTypeOK
<1>2. MomentsPast'
  BY <1>1, NullMoments DEF Fails, PortalInv, MomentsPast, PortalTypeOK
<1>3. \A q \in PortalRequests : Asked(q)' /\ HeldHolds(q)'
  BY <1>1, NullMoments DEF Fails, PortalInv, Asked, HeldHolds, Holds, HoldsCode
<1> QED BY <1>2, <1>3 DEF Fails, PortalInv, Unmade, ContactHolds, CodeHolds

LEMMA DiesPortal ==
  ASSUME PortalTypeOK, PortalInv, PortalDies
  PROVE  PortalInv'
<1>1. \A q \in PortalRequests : ask'[q] = NoAsk
  BY DEF PortalDies
<1>2. MomentsPast'
  BY <1>1, NullMoments DEF PortalDies, PortalInv, MomentsPast, PortalTypeOK
<1>3. \A q \in PortalRequests : Asked(q)' /\ HeldHolds(q)'
  BY <1>1, NullMoments DEF PortalDies, PortalInv, Asked, HeldHolds, Holds, HoldsCode
<1> QED BY <1>2, <1>3 DEF PortalDies, PortalInv, Unmade, ContactHolds, CodeHolds

\* Time goes on, and the row and the links of c change.
LEMMA MomentsGoOn ==
  ASSUME PortalTypeOK, PortalInv, NEW c \in Contacts,
         moment' \in Nat, moment <= moment', token' = token, old' = old, code' = code,
         \A q \in PortalRequests : ask'[q] = NoAsk \/ ask'[q] = ask[q],
         \A d \in Contacts \ {c} : contact'[d] = contact[d] /\ spent'[d] = spent[d],
         contact'[c].reset <= moment', contact'[c].invalid <= moment',
         \A x \in spent'[c] : x \in spent[c] \/ (0 < x /\ x <= moment')
  PROVE  MomentsPast'
<1>1. \A d \in Contacts : /\ contact[d] \in ContactRow /\ code[d] \in CodeRow
                          /\ spent[d] \subseteq Nat /\ old[d] \subseteq Nat /\ token[d] \subseteq Nat
  BY DEF PortalTypeOK
<1>2. \A q \in PortalRequests : ask[q].row \in ContactRow /\ ask[q].code \in CodeRow
  BY DEF PortalTypeOK, Ask
<1>3. moment \in Nat /\ moment' \in Nat
  BY DEF PortalTypeOK
<1>4. \A q \in PortalRequests :
        ask'[q].row.reset <= moment' /\ ask'[q].row.invalid <= moment' /\ ask'[q].code.token <= moment'
  BY <1>2, <1>3, NullMoments DEF PortalInv, MomentsPast, ContactRow, CodeRow
<1>5. ASSUME NEW d \in Contacts
      PROVE  /\ contact'[d].reset <= moment' /\ contact'[d].invalid <= moment' /\ code'[d].token <= moment'
             /\ \A t \in token'[d] : t <= moment'
             /\ \A x \in spent'[d] \cup old'[d] : 0 < x /\ x <= moment'
  <2>1. /\ contact[d].reset <= moment /\ contact[d].invalid <= moment /\ code[d].token <= moment
        /\ \A t \in token[d] : t <= moment
        /\ \A x \in spent[d] \cup old[d] : 0 < x /\ x <= moment
    BY DEF PortalInv, MomentsPast
  <2>2. contact'[d].reset <= moment' /\ contact'[d].invalid <= moment' /\ code'[d].token <= moment'
    BY <1>1, <1>3, <2>1 DEF ContactRow, CodeRow
  <2>3. \A t \in token'[d] : t <= moment'
    BY <1>1, <1>3, <2>1
  <2>4. \A x \in spent'[d] : 0 < x /\ x <= moment'
    BY <1>1, <1>3, <2>1
  <2>5. \A x \in old'[d] : 0 < x /\ x <= moment'
    BY <1>1, <1>3, <2>1
  <2> QED BY <2>2, <2>3, <2>4, <2>5
<1> QED BY <1>4, <1>5 DEF MomentsPast

LEMMA SavedRowIs ==
  ASSUME NEW op, NEW x \in ContactRow, NEW n \in Nat
  PROVE  /\ SavedRow(op, x, n).here = x.here
         /\ SavedRow(op, x, n).invalid = x.invalid
         /\ SavedRow(op, x, n).email = x.email
         /\ SavedRow(op, x, n).reset = IF op = "reset" THEN n ELSE IF op = "confirm" THEN 0 ELSE x.reset
<1>1. CASE op = "reset"
  BY <1>1 DEF SavedRow, ContactRow
<1>2. CASE op = "confirm"
  BY <1>2 DEF SavedRow, ContactRow
<1>3. CASE op \notin {"reset", "confirm"}
  BY <1>3 DEF SavedRow
<1> QED BY <1>1, <1>2, <1>3

LEMMA SavePortal ==
  ASSUME PortalTypeOK, PortalInv, NEW r \in PortalRequests, SaveContact(r)
  PROVE  PortalInv'
<1>c. PICK c \in Contacts : c = ask[r].contact
  BY DEF PortalTypeOK, Ask
<1> DEFINE a == ask[r]
           row == SavedRow(ask[r].op, ask[r].row, moment + 1)
<1>0. /\ c \in Contacts /\ a.row \in ContactRow /\ contact[c] \in ContactRow /\ moment \in Nat
      /\ a.at = "save" /\ a.row.here /\ Holds(r, c)
  BY <1>c DEF SaveContact, PortalTypeOK, Ask, PortalInv, Asked, Holds
<1>1. \A q \in PortalRequests : /\ ask'[q] = NoAsk \/ (q # r /\ ask'[q] = ask[q])
                                /\ ask'[q] = NoAsk \/ ask'[q] = ask[q]
  BY DoneAsks DEF SaveContact
<1>2. /\ moment' \in {moment, moment + 1} /\ (a.op = "reset" => moment' = moment + 1)
      /\ contact' = [contact EXCEPT ![c] = row] /\ Disturbs(r, c)
      /\ UNCHANGED <<left, code, token, barred, erased, removed, old, off, quiet>>
  BY <1>c DEF SaveContact
<1>3. /\ row.here = TRUE /\ row.invalid = a.row.invalid /\ row.email = a.row.email /\ row \in ContactRow
      /\ row.reset = IF a.op = "reset" THEN moment + 1 ELSE IF a.op = "confirm" THEN 0 ELSE a.row.reset
  <2>1. moment + 1 \in Nat /\ a.row.here = TRUE
    BY <1>0 DEF ContactRow
  <2> QED BY <1>0, <2>1, SavedRowIs, SavedRowTypes
<1>4. contact'[c] = row /\ \A d \in Contacts \ {c} : contact'[d] = contact[d]
  BY <1>0, <1>2 DEF PortalTypeOK
<1>5. /\ \A d \in Contacts \ {c} : spent'[d] = spent[d]
      /\ a.op = "groups" => spent'[c] = spent[c]
      /\ spent'[c] \subseteq spent[c] \cup ({a.row.reset, contact[c].reset} \ {0})
  BY <1>c, <1>0 DEF SaveContact, PortalTypeOK
<1>6. a.row.reset <= moment /\ contact[c].reset <= moment /\ a.row.invalid <= moment
  BY <1>0 DEF PortalInv, MomentsPast
<1> HIDE DEF row
<1>7. MomentsPast'
  <2>1. moment' \in Nat /\ moment <= moment'
    BY <1>0, <1>2
  <2>2. row.reset <= moment' /\ row.invalid <= moment'
    BY <1>0, <1>2, <1>3, <1>6 DEF ContactRow
  <2>3. \A x \in spent'[c] : x \in spent[c] \/ (0 < x /\ x <= moment')
    BY <1>0, <1>2, <1>5, <1>6 DEF ContactRow
  <2> QED BY <1>0, <1>1, <1>2, <1>4, <1>5, <2>1, <2>2, <2>3, MomentsGoOn
<1>8. \A q \in PortalRequests : HeldHolds(q)'
  BY <1>0, <1>1, <1>2, <1>4, WrittenHolds
<1>9. \A q \in PortalRequests : Asked(q)'
  <2>1. moment' \in Nat /\ moment <= moment'
    BY <1>0, <1>2
  <2>2. \A d \in Contacts : contact[d].here \/ d \in removed => contact'[d].here \/ d \in removed'
    BY <1>2, <1>3, <1>4
  <2> QED BY <1>0, <1>1, <2>1, <2>2, StillHere
<1>10. \A d \in Contacts : Unmade(d)' /\ (~code'[d].here => d \notin off')
  <2>1. Unmade(c)'
    BY <1>3, <1>4 DEF Unmade
  <2>2. \A d \in Contacts \ {c} : Unmade(d)'
    BY <1>2, <1>4, <1>5 DEF PortalInv, Unmade
  <2>3. \A d \in Contacts : ~code'[d].here => d \notin off'
    BY <1>2 DEF PortalInv
  <2> QED BY <2>1, <2>2, <2>3
<1>11. ASSUME NEW d \in calm' PROVE ContactHolds(d)'
  <2>1. d \in calm /\ d \in Contacts /\ ContactHolds(d)
    BY <1>2, <1>11 DEF Disturbs, PortalTypeOK, PortalInv
  <2>2. CASE d = c
    <3>1. a.row = contact[c]
      BY <1>0, <2>1, <2>2 DEF PortalInv, HeldHolds
    <3>2. \A t \in barred'[c] : row.invalid > t
      BY <1>0, <1>2, <1>3, <2>1, <2>2, <3>1 DEF ContactHolds
    <3>3. row.reset \notin spent'[c]
      <4>1. \A x \in spent[c] : 0 < x /\ x <= moment /\ x \in Nat
        BY <1>0 DEF PortalInv, MomentsPast, PortalTypeOK
      <4>2. CASE a.op = "reset"
        BY <1>0, <1>3, <1>5, <1>6, <4>1, <4>2 DEF ContactRow
      <4>3. CASE a.op = "confirm"
        BY <1>0, <1>3, <1>5, <4>1, <4>3 DEF ContactRow
      <4>4. a.op \in {"reset", "confirm"} \/ row.reset = contact[c].reset
        BY <1>3, <3>1
      <4>5. CASE a.op = "groups"
        BY <1>5, <2>1, <2>2, <4>4, <4>5 DEF ContactHolds
      <4>6. a.op \in {"reset", "confirm", "groups"}
        BY <1>0 DEF PortalInv, Asked
      <4> QED BY <4>2, <4>3, <4>5, <4>6
    <3>4. (c \in erased' => row.email = NoEmail) /\ (c \in removed' => ~row.here)
      BY <1>0, <1>2, <1>3, <2>1, <2>2, <3>1 DEF ContactHolds
    <3> QED BY <1>4, <2>2, <3>2, <3>3, <3>4 DEF ContactHolds
  <2>3. CASE d # c
    BY <1>2, <1>4, <1>5, <2>1, <2>3 DEF ContactHolds
  <2> QED BY <2>2, <2>3
<1>12. \A d \in quiet' : CodeHolds(d)'
  BY <1>2 DEF PortalInv, CodeHolds
<1> QED BY <1>7, <1>8, <1>9, <1>10, <1>11, <1>12 DEF PortalInv

LEMMA StampPortal ==
  ASSUME PortalTypeOK, PortalInv, NEW r \in PortalRequests, Stamp(r)
  PROVE  PortalInv'
<1>0. /\ moment \in Nat /\ ask[r] \in Ask /\ ask[r].row \in ContactRow
      /\ ask[r].at = "stamp" /\ ask[r].op = "deactivate"
      /\ moment' \in Nat /\ moment <= moment'
      /\ UNCHANGED <<left, contact, code, token, barred, spent, erased, removed, old, off, calm, quiet>>
  BY DEF Stamp, PortalTypeOK, Ask, PortalInv, Asked
<1>1. /\ ask'[r].contact = ask[r].contact /\ ask'[r].op = ask[r].op /\ ask'[r].row = ask[r].row
      /\ ask'[r].code = ask[r].code /\ ask'[r].at = "update"
      /\ ask'[r].stamp = IF ask[r].row.active THEN moment + 1 ELSE ask[r].stamp
      /\ \A q \in PortalRequests \ {r} : ask'[q] = ask[q]
  <2>1. CASE ask[r].row.active
    BY <1>0, <2>1 DEF Stamp, PortalTypeOK, Ask
  <2>2. CASE ~ask[r].row.active
    BY <1>0, <2>2 DEF Stamp, PortalTypeOK, Ask
  <2> QED BY <2>1, <2>2
<1>2. MomentsPast'
  <2>1. \A d \in Contacts : /\ contact[d] \in ContactRow /\ code[d] \in CodeRow
                            /\ spent[d] \subseteq Nat /\ old[d] \subseteq Nat /\ token[d] \subseteq Nat
    BY DEF PortalTypeOK
  <2>2. \A q \in PortalRequests : ask[q].row \in ContactRow /\ ask[q].code \in CodeRow
    BY DEF PortalTypeOK, Ask
  <2>3. \A q \in PortalRequests : ask'[q].row = ask[q].row /\ ask'[q].code = ask[q].code
    BY <1>1
  <2>4. \A q \in PortalRequests :
          ask'[q].row.reset <= moment' /\ ask'[q].row.invalid <= moment' /\ ask'[q].code.token <= moment'
    BY <1>0, <2>2, <2>3 DEF PortalInv, MomentsPast, ContactRow, CodeRow
  <2>5. \A d \in Contacts :
          /\ contact'[d].reset <= moment' /\ contact'[d].invalid <= moment' /\ code'[d].token <= moment'
          /\ \A t \in token'[d] : t <= moment'
          /\ \A x \in spent'[d] \cup old'[d] : 0 < x /\ x <= moment'
    BY <1>0, <2>1 DEF PortalInv, MomentsPast, ContactRow, CodeRow
  <2> QED BY <2>4, <2>5 DEF MomentsPast
<1>3. ASSUME NEW q \in PortalRequests PROVE Asked(q)' /\ HeldHolds(q)'
  <2>1. CASE q = r
    <3>1. ask[r].row.active => ask'[r].stamp > ask'[r].row.invalid /\ ask'[r].stamp <= moment'
      <4>1. ask[r].row.active => moment' = moment + 1
        BY DEF Stamp
      <4>2. ask[r].row.invalid \in Nat /\ ask[r].row.invalid <= moment
        BY <1>0 DEF PortalInv, MomentsPast, ContactRow
      <4> QED BY <1>0, <1>1, <4>1, <4>2
    <3>2. ask[r].stamp = 0
      BY <1>0 DEF PortalInv, Asked
    <3>3. Asked(r)'
      BY <1>0, <1>1, <3>1, <3>2 DEF PortalInv, Asked
    <3>4. HeldHolds(r)'
      BY <1>0, <1>1 DEF PortalInv, HeldHolds, Holds, HoldsCode
    <3> QED BY <2>1, <3>3, <3>4
  <2>2. CASE q # r
    <3>1. ask[q].stamp \in Nat
      BY DEF PortalTypeOK, Ask
    <3> QED BY <1>0, <1>1, <2>2, <3>1 DEF PortalInv, Asked, HeldHolds, Holds, HoldsCode
  <2> QED BY <2>1, <2>2
<1> QED BY <1>0, <1>2, <1>3 DEF PortalInv, Unmade, ContactHolds, CodeHolds

LEMMA UpdatedIs ==
  ASSUME NEW a \in Ask, NEW x \in ContactRow, NEW n \in Nat
  PROVE  /\ Updated(a, x, n).here = x.here
         /\ Updated(a, x, n).email = IF a.op = "email" THEN a.row.email ELSE x.email
         /\ Updated(a, x, n).invalid = IF a.op = "deactivate" /\ a.stamp # 0 THEN a.stamp ELSE x.invalid
         /\ Updated(a, x, n).reset = IF a.op \in {"deactivate", "activate", "email"} THEN x.reset ELSE n
<1>1. CASE a.op = "deactivate"
  BY <1>1 DEF Updated, ContactRow
<1>2. CASE a.op = "activate"
  BY <1>2 DEF Updated, ContactRow
<1>3. CASE a.op = "email"
  <2>1. a.row.email \in Emails \cup {NoEmail}
    BY DEF Ask, ContactRow
  <2> QED BY <1>3, <2>1 DEF Updated, ContactRow
<1>4. CASE a.op \notin {"deactivate", "activate", "email"}
  BY <1>4 DEF Updated, ContactRow
<1> QED BY <1>1, <1>2, <1>3, <1>4

LEMMA UpdatePortal ==
  ASSUME PortalTypeOK, PortalInv, NEW r \in PortalRequests, UpdateContact(r)
  PROVE  PortalInv'
<1>c. PICK c \in Contacts : c = ask[r].contact
  BY DEF PortalTypeOK, Ask
<1> DEFINE a == ask[r]
           row == Updated(ask[r], contact[c], moment + 1)
<1>0. /\ a \in Ask /\ contact[c] \in ContactRow /\ moment \in Nat /\ moment + 1 \in Nat
      /\ a.at = "update" /\ contact[c].here /\ a.stamp \in Nat /\ a.row \in ContactRow
  BY <1>c DEF UpdateContact, PortalTypeOK, Ask
<1>1. \A q \in PortalRequests : /\ ask'[q] = NoAsk \/ (q # r /\ ask'[q] = ask[q])
                                /\ ask'[q] = NoAsk \/ ask'[q] = ask[q]
  BY DoneAsks DEF UpdateContact
<1>2. /\ moment' = IF a.op = "link" THEN moment + 1 ELSE moment
      /\ contact' = [contact EXCEPT ![c] = row] /\ Disturbs(r, c)
      /\ erased' = IF a.op = "email" THEN erased \ {c} ELSE erased
      /\ UNCHANGED <<left, code, token, removed, old, off, quiet>>
  BY <1>c DEF UpdateContact
<1>3. /\ row.here = TRUE /\ (a.op # "email" => row.email = contact[c].email) /\ row \in ContactRow
      /\ row.invalid = IF a.op = "deactivate" /\ a.stamp # 0 THEN a.stamp ELSE contact[c].invalid
      /\ row.reset = IF a.op \in {"deactivate", "activate", "email"} THEN contact[c].reset ELSE moment + 1
  <2>1. contact[c].here = TRUE
    BY <1>0 DEF ContactRow
  <2> QED BY <1>0, <2>1, UpdatedIs, UpdatedTypes, SMTT(60)
<1>4. contact'[c] = row /\ \A d \in Contacts \ {c} : contact'[d] = contact[d]
  BY <1>0, <1>2 DEF PortalTypeOK
<1>5. /\ \A d \in Contacts \ {c} : spent'[d] = spent[d] /\ barred'[d] = barred[d]
      /\ spent'[c] = IF a.op = "link" THEN spent[c] \cup ({contact[c].reset} \ {0}) ELSE spent[c]
      /\ barred'[c] = IF a.op = "deactivate" /\ contact[c].active THEN barred[c] \cup Ended(a) ELSE barred[c]
  BY <1>c, <1>0 DEF UpdateContact, PortalTypeOK
<1>6. contact[c].reset <= moment /\ contact[c].invalid <= moment
  BY <1>0 DEF PortalInv, MomentsPast
<1>7. a.op = "deactivate" =>
        IF a.row.active THEN a.stamp > a.row.invalid /\ a.stamp <= moment ELSE a.stamp = 0
  BY <1>0 DEF PortalInv, Asked
<1>op. a.op \in {"deactivate", "activate", "link", "email"}
  BY <1>0 DEF PortalInv, Asked
<1> HIDE DEF row
<1>8. MomentsPast'
  <2>1. moment' \in Nat /\ moment <= moment'
    BY <1>0, <1>2
  <2>2. row.reset <= moment' /\ row.invalid <= moment'
    BY <1>0, <1>2, <1>3, <1>6, <1>7, <1>op DEF ContactRow
  <2>3. \A x \in spent'[c] : x \in spent[c] \/ (0 < x /\ x <= moment')
    BY <1>0, <1>2, <1>5, <1>6 DEF ContactRow
  <2> QED BY <1>0, <1>1, <1>2, <1>4, <1>5, <2>1, <2>2, <2>3, MomentsGoOn
<1>9. \A q \in PortalRequests : HeldHolds(q)'
  BY <1>0, <1>1, <1>2, <1>4, WrittenHolds
<1>10. \A q \in PortalRequests : Asked(q)'
  <2>1. moment' \in Nat /\ moment <= moment'
    BY <1>0, <1>2
  <2>2. \A d \in Contacts : contact[d].here \/ d \in removed => contact'[d].here \/ d \in removed'
    BY <1>2, <1>3, <1>4
  <2> QED BY <1>0, <1>1, <2>1, <2>2, StillHere
<1>11. \A d \in Contacts : Unmade(d)' /\ (~code'[d].here => d \notin off')
  <2>1. Unmade(c)'
    BY <1>3, <1>4 DEF Unmade
  <2>2. \A d \in Contacts \ {c} : Unmade(d)'
    BY <1>2, <1>4, <1>5 DEF PortalInv, Unmade
  <2>3. \A d \in Contacts : ~code'[d].here => d \notin off'
    BY <1>2 DEF PortalInv
  <2> QED BY <2>1, <2>2, <2>3
<1>12. ASSUME NEW d \in calm' PROVE ContactHolds(d)'
  <2>1. d \in calm /\ d \in Contacts /\ ContactHolds(d)
    BY <1>2, <1>12 DEF Disturbs, PortalTypeOK, PortalInv
  <2>2. CASE d = c
    <3>1. a.op = "deactivate" => a.row = contact[c]
      BY <1>c, <1>0, <2>1, <2>2 DEF PortalInv, HeldHolds, Holds
    <3>0. /\ \A t \in barred[c] : t \in Nat /\ contact[c].invalid > t
          /\ \A t \in Ended(a) : t \in Nat /\ (a.stamp = 0 \/ t < a.stamp)
          /\ contact[c].invalid \in Nat
      BY <1>0, <2>1, <2>2 DEF ContactHolds, Ended, PortalTypeOK, ContactRow, Ask
    <3>2. \A t \in barred'[c] : row.invalid > t
      <4>1. CASE a.op = "deactivate" /\ contact[c].active
        BY <1>0, <1>3, <1>5, <1>7, <3>0, <3>1, <4>1
      <4>2. CASE a.op = "deactivate" /\ ~contact[c].active
        BY <1>0, <1>3, <1>5, <1>7, <3>0, <3>1, <4>2
      <4>3. CASE a.op # "deactivate"
        BY <1>3, <1>5, <3>0, <4>3
      <4> QED BY <4>1, <4>2, <4>3
    <3>3. row.reset \notin spent'[c]
      <4>1. \A x \in spent[c] : 0 < x /\ x <= moment /\ x \in Nat
        BY <1>0 DEF PortalInv, MomentsPast, PortalTypeOK
      <4>2. CASE a.op = "link"
        BY <1>0, <1>3, <1>5, <1>6, <4>1, <4>2 DEF ContactRow
      <4>3. CASE a.op # "link"
        BY <1>3, <1>5, <1>op, <2>1, <2>2, <4>3 DEF ContactHolds
      <4> QED BY <4>2, <4>3
    <3>4. (c \in erased' => row.email = NoEmail) /\ (c \in removed' => ~row.here)
      BY <1>0, <1>2, <1>3, <2>1, <2>2 DEF ContactHolds
    <3> QED BY <1>4, <2>2, <3>2, <3>3, <3>4 DEF ContactHolds
  <2>3. CASE d # c
    BY <1>2, <1>4, <1>5, <2>1, <2>3 DEF ContactHolds
  <2> QED BY <2>2, <2>3
<1>13. \A d \in quiet' : CodeHolds(d)'
  BY <1>2 DEF PortalInv, CodeHolds
<1> QED BY <1>8, <1>9, <1>10, <1>11, <1>12, <1>13 DEF PortalInv

\* Time goes on, and the row, the code, and what was taken of c change.
LEMMA RowsGoOn ==
  ASSUME PortalTypeOK, PortalInv, NEW c \in Contacts,
         moment' \in Nat, moment <= moment', token' = token,
         \A q \in PortalRequests : ask'[q] = NoAsk \/ ask'[q] = ask[q],
         \A d \in Contacts \ {c} : /\ contact'[d] = contact[d] /\ code'[d] = code[d]
                                   /\ spent'[d] = spent[d] /\ old'[d] = old[d],
         contact'[c].reset <= moment', contact'[c].invalid <= moment', code'[c].token <= moment',
         \A x \in spent'[c] : x \in spent[c] \/ (0 < x /\ x <= moment'),
         \A x \in old'[c] : x \in old[c] \/ (0 < x /\ x <= moment')
  PROVE  MomentsPast'
<1>1. \A d \in Contacts : /\ contact[d] \in ContactRow /\ code[d] \in CodeRow
                          /\ spent[d] \subseteq Nat /\ old[d] \subseteq Nat /\ token[d] \subseteq Nat
  BY DEF PortalTypeOK
<1>2. \A q \in PortalRequests : ask[q].row \in ContactRow /\ ask[q].code \in CodeRow
  BY DEF PortalTypeOK, Ask
<1>3. moment \in Nat /\ moment' \in Nat
  BY DEF PortalTypeOK
<1>4. \A q \in PortalRequests :
        ask'[q].row.reset <= moment' /\ ask'[q].row.invalid <= moment' /\ ask'[q].code.token <= moment'
  BY <1>2, <1>3, NullMoments DEF PortalInv, MomentsPast, ContactRow, CodeRow
<1>5. ASSUME NEW d \in Contacts
      PROVE  /\ contact'[d].reset <= moment' /\ contact'[d].invalid <= moment' /\ code'[d].token <= moment'
             /\ \A t \in token'[d] : t <= moment'
             /\ \A x \in spent'[d] \cup old'[d] : 0 < x /\ x <= moment'
  <2>1. /\ contact[d].reset <= moment /\ contact[d].invalid <= moment /\ code[d].token <= moment
        /\ \A t \in token[d] : t <= moment
        /\ \A x \in spent[d] \cup old[d] : 0 < x /\ x <= moment
    BY DEF PortalInv, MomentsPast
  <2>2. contact'[d].reset <= moment' /\ contact'[d].invalid <= moment' /\ code'[d].token <= moment'
    BY <1>1, <1>3, <2>1 DEF ContactRow, CodeRow
  <2>3. \A t \in token'[d] : t <= moment'
    BY <1>1, <1>3, <2>1
  <2>4. \A x \in spent'[d] : 0 < x /\ x <= moment'
    BY <1>1, <1>3, <2>1
  <2>5. \A x \in old'[d] : 0 < x /\ x <= moment'
    BY <1>1, <1>3, <2>1
  <2> QED BY <2>2, <2>3, <2>4, <2>5
<1> QED BY <1>4, <1>5 DEF MomentsPast

LEMMA ErasePortal ==
  ASSUME PortalTypeOK, PortalInv, NEW c \in Contacts, Erase(c)
  PROVE  PortalInv'
<1>1. /\ contact' = [contact EXCEPT ![c].email = NoEmail, ![c].password = FALSE]
      /\ contact[c].here /\ erased' = erased \cup {c} /\ Disturbs(0, c)
      /\ UNCHANGED <<code, ask, moment, token, barred, spent, removed, old, off, quiet>>
  BY DEF Erase
<1>2. /\ contact'[c].here /\ contact'[c].email = NoEmail
      /\ contact'[c].reset = contact[c].reset /\ contact'[c].invalid = contact[c].invalid
      /\ \A d \in Contacts \ {c} : contact'[d] = contact[d]
  BY <1>1 DEF PortalTypeOK, ContactRow
<1>3. \A q \in PortalRequests : /\ ask'[q] = NoAsk \/ (q # 0 /\ ask'[q] = ask[q])
                                /\ ask'[q] = NoAsk \/ ask'[q] = ask[q]
  BY <1>1, ContactPortalAssumption
<1>4. moment \in Nat /\ moment' \in Nat /\ moment <= moment'
  BY <1>1 DEF PortalTypeOK
<1>5. MomentsPast'
  BY <1>1, <1>2 DEF PortalInv, MomentsPast
<1>6. \A q \in PortalRequests : HeldHolds(q)'
  BY <1>1, <1>2, <1>3, WrittenHolds
<1>7. \A q \in PortalRequests : Asked(q)'
  <2>1. \A d \in Contacts : contact[d].here \/ d \in removed => contact'[d].here \/ d \in removed'
    BY <1>1, <1>2
  <2> QED BY <1>3, <1>4, <2>1, StillHere
<1>8. \A d \in Contacts : Unmade(d)' /\ (~code'[d].here => d \notin off')
  BY <1>1, <1>2 DEF PortalInv, Unmade
<1>9. ASSUME NEW d \in calm' PROVE ContactHolds(d)'
  <2>1. d \in calm /\ d \in Contacts /\ ContactHolds(d)
    BY <1>1, <1>9 DEF Disturbs, PortalTypeOK, PortalInv
  <2>2. CASE d = c
    BY <1>1, <1>2, <2>1, <2>2 DEF ContactHolds
  <2>3. CASE d # c
    BY <1>1, <1>2, <2>1, <2>3 DEF ContactHolds
  <2> QED BY <2>2, <2>3
<1>10. \A d \in quiet' : CodeHolds(d)'
  BY <1>1 DEF PortalInv, CodeHolds
<1> QED BY <1>5, <1>6, <1>7, <1>8, <1>9, <1>10 DEF PortalInv

LEMMA DeletePortal ==
  ASSUME PortalTypeOK, PortalInv, NEW c \in Contacts, DeleteContact(c)
  PROVE  PortalInv'
<1>1. /\ contact' = [contact EXCEPT ![c] = NoContact] /\ code' = [code EXCEPT ![c] = NoCode]
      /\ old' = [old EXCEPT ![c] = @ \cup ({code[c].token} \ {0})]
      /\ off' = off \ {c} /\ removed' = removed \cup {c}
      /\ Disturbs(0, c) /\ DisturbsCode(0, c)
      /\ UNCHANGED <<ask, moment, token, barred, spent, erased>>
  BY DEF DeleteContact
<1>2. /\ contact'[c] = NoContact /\ code'[c] = NoCode /\ old'[c] = old[c] \cup ({code[c].token} \ {0})
      /\ \A d \in Contacts \ {c} : contact'[d] = contact[d] /\ code'[d] = code[d] /\ old'[d] = old[d]
  BY <1>1 DEF PortalTypeOK
<1>3. \A q \in PortalRequests : /\ ask'[q] = NoAsk \/ (q # 0 /\ ask'[q] = ask[q])
                                /\ ask'[q] = NoAsk \/ ask'[q] = ask[q]
  BY <1>1, ContactPortalAssumption
<1>4. moment \in Nat /\ moment' \in Nat /\ moment <= moment' /\ moment' = moment
  BY <1>1 DEF PortalTypeOK
<1>5. MomentsPast'
  <2>1. code[c].token \in Nat /\ code[c].token <= moment
    BY DEF PortalInv, MomentsPast, PortalTypeOK, CodeRow
  <2>2. \A x \in old'[c] : x \in old[c] \/ (0 < x /\ x <= moment')
    BY <1>2, <1>4, <2>1
  <2>3. \A d \in Contacts \ {c} : spent'[d] = spent[d]
    BY <1>1
  <2>4. contact'[c].reset <= moment' /\ contact'[c].invalid <= moment' /\ code'[c].token <= moment'
    BY <1>2, <1>4, NullMoments
  <2>5. \A x \in spent'[c] : x \in spent[c] \/ (0 < x /\ x <= moment')
    BY <1>1
  <2>6. token' = token
    BY <1>1
  <2> QED BY <1>2, <1>3, <1>4, <2>2, <2>3, <2>4, <2>5, <2>6, RowsGoOn
<1>6. \A q \in PortalRequests : HeldHolds(q)'
  BY <1>1, <1>2, <1>3, WrittenHolds
<1>7. \A q \in PortalRequests : Asked(q)'
  <2>1. \A d \in Contacts : contact[d].here \/ d \in removed => contact'[d].here \/ d \in removed'
    BY <1>1, <1>2
  <2> QED BY <1>3, <1>4, <2>1, StillHere
<1>8. \A d \in Contacts : Unmade(d)' /\ (~code'[d].here => d \notin off')
  BY <1>1, <1>2, NullMoments DEF PortalInv, Unmade, NoCode
<1>9. \A d \in Contacts : \A x \in spent[d] \cup old[d] : 0 < x /\ x \in Nat
  BY DEF PortalInv, MomentsPast, PortalTypeOK
<1>10. ASSUME NEW d \in calm' PROVE ContactHolds(d)'
  <2>1. d \in calm /\ d \in Contacts /\ ContactHolds(d)
    BY <1>1, <1>10 DEF Disturbs, PortalTypeOK, PortalInv
  <2>2. CASE d = c
    BY <1>1, <1>2, <1>9, <2>1, <2>2 DEF ContactHolds, NoContact
  <2>3. CASE d # c
    BY <1>1, <1>2, <2>1, <2>3 DEF ContactHolds
  <2> QED BY <2>2, <2>3
<1>11. ASSUME NEW d \in quiet' PROVE CodeHolds(d)'
  <2>1. d \in quiet /\ d \in Contacts /\ CodeHolds(d)
    BY <1>1, <1>11 DEF DisturbsCode, PortalTypeOK, PortalInv
  <2>2. CASE d = c
    BY <1>1, <1>2, <1>9, <2>1, <2>2 DEF CodeHolds, NoCode
  <2>3. CASE d # c
    BY <1>1, <1>2, <2>1, <2>3 DEF CodeHolds
  <2> QED BY <2>2, <2>3
<1> QED BY <1>5, <1>6, <1>7, <1>8, <1>10, <1>11 DEF PortalInv

\* A new contact: nothing was taken from it, and no request holds a copy of it.
LEMMA NewContactPortal ==
  ASSUME PortalTypeOK, PortalInv, NEW c \in Contacts, NEW row \in ContactRow, NewContact(c, row),
         row.here, row.invalid = 0, moment' \in Nat, moment <= moment', row.reset <= moment',
         UNCHANGED <<code, ask, token, barred, spent, erased, removed, old, off, calm, quiet>>
  PROVE  PortalInv'
<1>1. /\ ~contact[c].here /\ c \notin removed /\ contact'[c] = row
      /\ \A d \in Contacts \ {c} : contact'[d] = contact[d]
  BY DEF NewContact, PortalTypeOK
<1>2. barred[c] = {} /\ spent[c] = {} /\ c \notin erased
  BY <1>1 DEF PortalInv, Unmade
<1>3. \A q \in PortalRequests : ask'[q] = ask[q] /\ ~Holds(q, c)
  BY <1>1 DEF PortalInv, Asked, Holds
<1>4. MomentsPast'
  <2>1. \A q \in PortalRequests : ask'[q] = NoAsk \/ ask'[q] = ask[q]
    BY <1>3
  <2>2. row.invalid <= moment'
    OBVIOUS
  <2> QED BY <1>1, <2>1, <2>2, MomentsGoOn
<1>5. \A q \in PortalRequests : HeldHolds(q)'
  <2> SUFFICES ASSUME NEW q \in PortalRequests PROVE HeldHolds(q)'
    OBVIOUS
  <2>1. calm \subseteq Contacts
    BY DEF PortalTypeOK
  <2> QED BY <1>1, <1>3, <2>1 DEF PortalInv, HeldHolds, Holds, HoldsCode
<1>6. \A q \in PortalRequests : Asked(q)'
  <2>1. \A d \in Contacts : contact[d].here \/ d \in removed => contact'[d].here \/ d \in removed'
    BY <1>1
  <2>2. moment \in Nat /\ \A q \in PortalRequests : ask'[q] = NoAsk \/ ask'[q] = ask[q]
    BY <1>3 DEF PortalTypeOK
  <2> QED BY <2>1, <2>2, StillHere
<1>7. \A d \in Contacts : Unmade(d)' /\ (~code'[d].here => d \notin off')
  BY <1>1, <1>2 DEF PortalInv, Unmade
<1>8. ASSUME NEW d \in calm' PROVE ContactHolds(d)'
  <2>1. d \in calm /\ d \in Contacts /\ ContactHolds(d)
    BY <1>8 DEF PortalTypeOK, PortalInv
  <2>2. CASE d = c
    BY <1>1, <1>2, <2>1, <2>2 DEF ContactHolds
  <2>3. CASE d # c
    BY <1>1, <2>1, <2>3 DEF ContactHolds
  <2> QED BY <2>2, <2>3
<1>9. \A d \in quiet' : CodeHolds(d)'
  BY DEF PortalInv, CodeHolds
<1> QED BY <1>4, <1>5, <1>6, <1>7, <1>8, <1>9 DEF PortalInv

LEMMA CreateContactPortal ==
  ASSUME PortalTypeOK, PortalInv, NEW c \in Contacts, NEW e \in Emails, NEW link \in BOOLEAN,
         CreateContact(c, e, link)
  PROVE  PortalInv'
<1>1. moment \in Nat /\ moment' = moment + 1
  BY DEF CreateContact, PortalTypeOK
<1>2. [NoContact EXCEPT !.here = TRUE, !.email = e, !.active = TRUE,
                        !.reset = IF link THEN moment + 1 ELSE 0] \in ContactRow
  <2>1. (IF link THEN moment + 1 ELSE 0) \in Nat
    BY <1>1
  <2> QED BY <2>1, Defaults DEF ContactRow
<1>3. PICK row \in ContactRow :
        row = [NoContact EXCEPT !.here = TRUE, !.email = e, !.active = TRUE,
                                !.reset = IF link THEN moment + 1 ELSE 0]
  BY <1>2
<1>4. row.here /\ row.invalid = 0 /\ row.reset = IF link THEN moment + 1 ELSE 0
  BY <1>3 DEF NoContact
<1>5. NewContact(c, row)
  BY <1>3 DEF CreateContact
<1>6. moment' \in Nat /\ moment <= moment' /\ row.reset <= moment'
  BY <1>1, <1>4
<1>7. UNCHANGED <<code, ask, token, barred, spent, erased, removed, old, off, calm, quiet>>
  BY DEF CreateContact
<1> QED BY <1>4, <1>5, <1>6, <1>7, NewContactPortal

LEMMA CreateFromPublicPortal ==
  ASSUME PortalTypeOK, PortalInv, NEW v, NEW c \in Contacts, NEW e \in Emails, CreateFromPublic(v, c, e)
  PROVE  PortalInv'
<1>1. moment \in Nat /\ moment' = moment
  BY DEF CreateFromPublic, PortalTypeOK
<1>2. [NoContact EXCEPT !.here = TRUE, !.email = e, !.active = TRUE] \in ContactRow
  BY Defaults DEF ContactRow
<1>3. PICK row \in ContactRow : row = [NoContact EXCEPT !.here = TRUE, !.email = e, !.active = TRUE]
  BY <1>2
<1>4. row.here /\ row.invalid = 0 /\ row.reset = 0
  BY <1>3 DEF NoContact
<1>5. NewContact(c, row)
  BY <1>3 DEF CreateFromPublic
<1>6. moment' \in Nat /\ moment <= moment' /\ row.reset <= moment'
  BY <1>1, <1>4
<1>7. UNCHANGED <<code, ask, token, barred, spent, erased, removed, old, off, calm, quiet>>
  BY DEF CreateFromPublic
<1> QED BY <1>4, <1>5, <1>6, <1>7, NewContactPortal

LEMMA InsertCodePortal ==
  ASSUME PortalTypeOK, PortalInv, NEW r \in PortalRequests, InsertCode(r)
  PROVE  PortalInv'
<1>c. PICK c \in Contacts : c = ask[r].contact
  BY DEF PortalTypeOK, Ask
<1>1. \A q \in PortalRequests : /\ ask'[q] = NoAsk \/ (q # r /\ ask'[q] = ask[q])
                                /\ ask'[q] = NoAsk \/ ask'[q] = ask[q]
  BY DoneAsks DEF InsertCode
<1>2. /\ contact[c].here /\ ~code[c].here /\ moment \in Nat /\ moment' = moment + 1 /\ DisturbsCode(r, c)
      /\ code' = [code EXCEPT ![c] = [here |-> TRUE, token |-> moment + 1, active |-> TRUE]]
      /\ UNCHANGED <<left, contact, token, barred, spent, erased, removed, old, off, calm>>
  BY <1>c DEF InsertCode, PortalTypeOK
<1>3. /\ code'[c].here /\ code'[c].token = moment + 1
      /\ \A d \in Contacts \ {c} : code'[d] = code[d]
  BY <1>2 DEF PortalTypeOK
<1>4. moment' \in Nat /\ moment <= moment'
  BY <1>2
<1>5. MomentsPast'
  <2>1. contact'[c].reset <= moment' /\ contact'[c].invalid <= moment' /\ code'[c].token <= moment'
    BY <1>2, <1>3 DEF PortalInv, MomentsPast, PortalTypeOK, ContactRow
  <2>2. /\ \A d \in Contacts \ {c} : contact'[d] = contact[d] /\ spent'[d] = spent[d] /\ old'[d] = old[d]
        /\ spent'[c] = spent[c] /\ old'[c] = old[c] /\ token' = token
    BY <1>2
  <2> QED BY <1>1, <1>3, <1>4, <2>1, <2>2, RowsGoOn
<1>6. \A q \in PortalRequests : HeldHolds(q)'
  BY <1>1, <1>2, <1>3, WrittenHolds
<1>7. \A q \in PortalRequests : Asked(q)'
  <2>1. moment \in Nat /\ \A d \in Contacts : contact[d].here \/ d \in removed => contact'[d].here \/ d \in removed'
    BY <1>2
  <2> QED BY <1>1, <1>4, <2>1, StillHere
<1>8. \A d \in Contacts : Unmade(d)' /\ (~code'[d].here => d \notin off')
  BY <1>2, <1>3 DEF PortalInv, Unmade
<1>9. \A d \in calm' : ContactHolds(d)'
  BY <1>2 DEF PortalInv, ContactHolds
<1>10. ASSUME NEW d \in quiet' PROVE CodeHolds(d)'
  <2>1. d \in quiet /\ d \in Contacts /\ CodeHolds(d)
    BY <1>2, <1>10 DEF DisturbsCode, PortalTypeOK, PortalInv
  <2>2. CASE d = c
    <3>1. \A x \in old[c] : x \in Nat /\ x <= moment
      BY DEF PortalInv, MomentsPast, PortalTypeOK
    <3>2. moment + 1 \notin old[c] /\ c \notin off
      BY <1>2, <3>1 DEF PortalInv
    <3> QED BY <1>2, <1>3, <2>2, <3>2 DEF CodeHolds
  <2>3. CASE d # c
    BY <1>2, <1>3, <2>1, <2>3 DEF CodeHolds
  <2> QED BY <2>2, <2>3
<1> QED BY <1>5, <1>6, <1>7, <1>8, <1>9, <1>10 DEF PortalInv

LEMMA SaveCodePortal ==
  ASSUME PortalTypeOK, PortalInv, NEW r \in PortalRequests, SaveCode(r)
  PROVE  PortalInv'
<1>c. PICK c \in Contacts : c = ask[r].contact
  BY DEF PortalTypeOK, Ask
<1>1. \A q \in PortalRequests : /\ ask'[q] = NoAsk \/ (q # r /\ ask'[q] = ask[q])
                                /\ ask'[q] = NoAsk \/ ask'[q] = ask[q]
  BY DoneAsks DEF SaveCode
<1>2. /\ contact[c].here /\ moment \in Nat /\ moment' = moment + 1 /\ DisturbsCode(r, c)
      /\ code' = [code EXCEPT ![c] = NewToken(ask[r].code, moment + 1)]
      /\ old' = [old EXCEPT ![c] = @ \cup ({ask[r].code.token, code[c].token} \ {0})]
      /\ UNCHANGED <<left, contact, token, barred, spent, erased, removed, off, calm>>
      /\ ask[r].code \in CodeRow /\ ask[r].code.here /\ HoldsCode(r, c)
  BY <1>c DEF SaveCode, PortalTypeOK, Ask, PortalInv, Asked, HoldsCode
<1>3. /\ code'[c].here /\ code'[c].token = moment + 1 /\ code'[c].active = ask[r].code.active
      /\ \A d \in Contacts \ {c} : code'[d] = code[d] /\ old'[d] = old[d]
      /\ old'[c] = old[c] \cup ({ask[r].code.token, code[c].token} \ {0})
  BY <1>2 DEF PortalTypeOK, NewToken, CodeRow
<1>4. moment' \in Nat /\ moment <= moment'
  BY <1>2
<1>5. /\ ask[r].code.token \in Nat /\ ask[r].code.token <= moment
      /\ code[c].token \in Nat /\ code[c].token <= moment
      /\ \A x \in old[c] : x \in Nat /\ x <= moment
  BY <1>2 DEF PortalInv, MomentsPast, PortalTypeOK, CodeRow
<1>6. MomentsPast'
  <2>1. contact'[c].reset <= moment' /\ contact'[c].invalid <= moment' /\ code'[c].token <= moment'
    BY <1>2, <1>3 DEF PortalInv, MomentsPast, PortalTypeOK, ContactRow
  <2>2. /\ \A d \in Contacts \ {c} : contact'[d] = contact[d] /\ spent'[d] = spent[d]
        /\ spent'[c] = spent[c] /\ token' = token
    BY <1>2
  <2>3. \A x \in old'[c] : x \in old[c] \/ (0 < x /\ x <= moment')
    BY <1>2, <1>3, <1>5
  <2>4. \A x \in spent'[c] : x \in spent[c] \/ (0 < x /\ x <= moment')
    BY <2>2
  <2> QED BY <1>1, <1>3, <1>4, <2>1, <2>2, <2>3, <2>4, RowsGoOn
<1>7. \A q \in PortalRequests : HeldHolds(q)'
  BY <1>1, <1>2, <1>3, WrittenHolds
<1>8. \A q \in PortalRequests : Asked(q)'
  <2>1. moment \in Nat /\ \A d \in Contacts : contact[d].here \/ d \in removed => contact'[d].here \/ d \in removed'
    BY <1>2
  <2> QED BY <1>1, <1>4, <2>1, StillHere
<1>9. \A d \in Contacts : Unmade(d)' /\ (~code'[d].here => d \notin off')
  BY <1>2, <1>3 DEF PortalInv, Unmade
<1>10. \A d \in calm' : ContactHolds(d)'
  BY <1>2 DEF PortalInv, ContactHolds
<1>11. ASSUME NEW d \in quiet' PROVE CodeHolds(d)'
  <2>1. d \in quiet /\ d \in Contacts /\ CodeHolds(d)
    BY <1>2, <1>11 DEF DisturbsCode, PortalTypeOK, PortalInv
  <2>2. CASE d = c
    <3>1. ask[r].code = code[c]
      BY <1>2, <2>1, <2>2 DEF PortalInv, HeldHolds
    <3>2. moment + 1 \notin old'[c]
      BY <1>2, <1>3, <1>5
    <3> QED BY <1>2, <1>3, <2>1, <2>2, <3>1, <3>2 DEF CodeHolds
  <2>3. CASE d # c
    BY <1>2, <1>3, <2>1, <2>3 DEF CodeHolds
  <2> QED BY <2>2, <2>3
<1> QED BY <1>6, <1>7, <1>8, <1>9, <1>10, <1>11 DEF PortalInv

LEMMA UpdateCodePortal ==
  ASSUME PortalTypeOK, PortalInv, NEW r \in PortalRequests, UpdateCode(r)
  PROVE  PortalInv'
<1>c. PICK c \in Contacts : c = ask[r].contact
  BY DEF PortalTypeOK, Ask
<1>1. \A q \in PortalRequests : /\ ask'[q] = NoAsk \/ (q # r /\ ask'[q] = ask[q])
                                /\ ask'[q] = NoAsk \/ ask'[q] = ask[q]
  BY DoneAsks DEF UpdateCode
<1>2. /\ code[c].here /\ DisturbsCode(r, c)
      /\ code' = [code EXCEPT ![c].active = (ask[r].op = "enable")]
      /\ off' = IF ask[r].op = "enable" THEN off \ {c} ELSE off \cup {c}
      /\ UNCHANGED <<left, contact, moment, token, barred, spent, erased, removed, old, calm>>
  BY <1>c DEF UpdateCode
<1>3. /\ code'[c].here /\ code'[c].token = code[c].token /\ code'[c].active = (ask[r].op = "enable")
      /\ \A d \in Contacts \ {c} : code'[d] = code[d]
  BY <1>2 DEF PortalTypeOK, CodeRow
<1>4. moment \in Nat /\ moment' \in Nat /\ moment <= moment' /\ moment' = moment
  BY <1>2 DEF PortalTypeOK
<1>5. MomentsPast'
  <2>1. contact'[c].reset <= moment' /\ contact'[c].invalid <= moment' /\ code'[c].token <= moment'
    BY <1>2, <1>3 DEF PortalInv, MomentsPast
  <2>2. /\ \A d \in Contacts \ {c} : contact'[d] = contact[d] /\ spent'[d] = spent[d] /\ old'[d] = old[d]
        /\ spent'[c] = spent[c] /\ old'[c] = old[c] /\ token' = token
    BY <1>2
  <2> QED BY <1>1, <1>3, <1>4, <2>1, <2>2, RowsGoOn
<1>6. \A q \in PortalRequests : HeldHolds(q)'
  BY <1>1, <1>2, <1>3, WrittenHolds
<1>7. \A q \in PortalRequests : Asked(q)'
  <2>1. \A d \in Contacts : contact[d].here \/ d \in removed => contact'[d].here \/ d \in removed'
    BY <1>2
  <2> QED BY <1>1, <1>4, <2>1, StillHere
<1>8. \A d \in Contacts : Unmade(d)' /\ (~code'[d].here => d \notin off')
  BY <1>2, <1>3 DEF PortalInv, Unmade
<1>9. \A d \in calm' : ContactHolds(d)'
  BY <1>2 DEF PortalInv, ContactHolds
<1>10. ASSUME NEW d \in quiet' PROVE CodeHolds(d)'
  <2>1. d \in quiet /\ d \in Contacts /\ CodeHolds(d)
    BY <1>2, <1>10 DEF DisturbsCode, PortalTypeOK, PortalInv
  <2>2. CASE d = c
    BY <1>2, <1>3, <2>1, <2>2 DEF CodeHolds
  <2>3. CASE d # c
    BY <1>2, <1>3, <2>1, <2>3 DEF CodeHolds
  <2> QED BY <2>2, <2>3
<1> QED BY <1>5, <1>6, <1>7, <1>8, <1>9, <1>10 DEF PortalInv

LEMMA PortalRequestPortal ==
  ASSUME PortalTypeOK, PortalInv, NEW r \in PortalRequests, PortalRequest(r)
  PROVE  PortalInv'
<1>1. ASSUME NEW c \in Contacts, Login(r, c)
      PROVE  PortalInv'
  <2>1. [NoAsk EXCEPT !.op = "login", !.at = "sign", !.contact = c] \in Ask
    BY Defaults DEF Ask, PortalOps
  <2>2. PICK new \in Ask : new = [NoAsk EXCEPT !.op = "login", !.at = "sign", !.contact = c]
    BY <2>1
  <2>3. new.at = "sign" /\ new.contact = c /\ new.row = NoContact /\ new.code = NoCode
    BY <2>2 DEF NoAsk
  <2>4. Begins(r, new) /\ contact[c].here
    BY <1>1, <2>2 DEF Login
  <2> QED BY <2>3, <2>4, BeginsPortal
<1>2. ASSUME NEW c \in Contacts, AskGenerate(r, c)
      PROVE  PortalInv'
  <2>1. [NoAsk EXCEPT !.op = "generate", !.at = "insert", !.contact = c] \in Ask
    BY Defaults DEF Ask, PortalOps
  <2>2. PICK new \in Ask : new = [NoAsk EXCEPT !.op = "generate", !.at = "insert", !.contact = c]
    BY <2>1
  <2>3. new.at = "insert" /\ new.contact = c /\ new.row = NoContact /\ new.code = NoCode
    BY <2>2 DEF NoAsk
  <2>4. Begins(r, new) /\ contact[c].here
    BY <1>2, <2>2 DEF AskGenerate
  <2> QED BY <2>3, <2>4, BeginsPortal
<1>3. ASSUME NEW c \in Contacts, NEW op \in PortalOps, AskSave(r, c, op)
      PROVE  PortalInv'
  <2>1. [NoAsk EXCEPT !.op = op, !.at = "save", !.contact = c, !.row = contact[c]] \in Ask
    BY Defaults DEF Ask, PortalOps, PortalTypeOK
  <2>2. PICK new \in Ask : new = [NoAsk EXCEPT !.op = op, !.at = "save", !.contact = c, !.row = contact[c]]
    BY <2>1
  <2>3. new.op = op /\ new.at = "save" /\ new.contact = c /\ new.row = contact[c] /\ new.code = NoCode
    BY <2>2 DEF NoAsk
  <2>4. Begins(r, new) /\ contact[c].here
    BY <1>3, <2>2 DEF AskSave
  <2>5. op \in {"reset", "confirm", "groups"}
    BY <1>3 DEF AskSave
  <2> QED BY <2>3, <2>4, <2>5, BeginsPortal
<1>4. ASSUME NEW c \in Contacts, NEW op \in PortalOps, AskUpdate(r, c, op)
      PROVE  PortalInv'
  <2>1. [NoAsk EXCEPT !.op = op, !.at = IF op = "deactivate" THEN "stamp" ELSE "update",
                      !.contact = c, !.row = contact[c]] \in Ask
    BY Defaults DEF Ask, PortalOps, PortalTypeOK
  <2>2. PICK new \in Ask :
          new = [NoAsk EXCEPT !.op = op, !.at = IF op = "deactivate" THEN "stamp" ELSE "update",
                              !.contact = c, !.row = contact[c]]
    BY <2>1
  <2>3. /\ new.op = op /\ new.at = IF op = "deactivate" THEN "stamp" ELSE "update"
        /\ new.contact = c /\ new.row = contact[c] /\ new.code = NoCode /\ new.stamp = 0
    BY <2>2 DEF NoAsk
  <2>4. Begins(r, new) /\ contact[c].here
    BY <1>4, <2>2 DEF AskUpdate
  <2>5. op \in {"deactivate", "activate", "link"}
    BY <1>4 DEF AskUpdate
  <2> QED BY <2>3, <2>4, <2>5, BeginsPortal
<1>e. ASSUME NEW c \in Contacts, NEW e \in Emails \cup {NoEmail}, AskEmail(r, c, e)
      PROVE  PortalInv'
  <2>1. contact[c] \in ContactRow /\ [contact[c] EXCEPT !.email = e] \in ContactRow
    BY DEF PortalTypeOK, ContactRow
  <2>2. [NoAsk EXCEPT !.op = "email", !.at = "update", !.contact = c,
                      !.row = [contact[c] EXCEPT !.email = e]] \in Ask
    BY <2>1, Defaults DEF Ask, PortalOps
  <2>3. PICK new \in Ask : new = [NoAsk EXCEPT !.op = "email", !.at = "update", !.contact = c,
                                               !.row = [contact[c] EXCEPT !.email = e]]
    BY <2>2
  <2>4. /\ new.op = "email" /\ new.at = "update" /\ new.contact = c /\ new.code = NoCode
        /\ new.row = [contact[c] EXCEPT !.email = e]
    BY <2>3 DEF NoAsk
  <2>5. Begins(r, new) /\ contact[c].here
    BY <1>e, <2>3 DEF AskEmail
  <2>6. new.row.here
    BY <2>1, <2>4, <2>5 DEF ContactRow
  <2> QED BY <2>4, <2>5, <2>6, BeginsPortal
<1>5. ASSUME NEW c \in Contacts, NEW op \in PortalOps, AskCode(r, c, op)
      PROVE  PortalInv'
  <2>1. [NoAsk EXCEPT !.op = op, !.at = IF op = "regenerate" THEN "saveCode" ELSE "updateCode",
                      !.contact = c, !.code = code[c]] \in Ask
    BY Defaults DEF Ask, PortalOps, PortalTypeOK
  <2>2. PICK new \in Ask :
          new = [NoAsk EXCEPT !.op = op, !.at = IF op = "regenerate" THEN "saveCode" ELSE "updateCode",
                              !.contact = c, !.code = code[c]]
    BY <2>1
  <2>3. /\ new.at \in {"saveCode", "updateCode"}
        /\ new.contact = c /\ new.row = NoContact /\ new.code = code[c]
    BY <2>2 DEF NoAsk
  <2>4. Begins(r, new) /\ code[c].here
    BY <1>5, <2>2 DEF AskCode
  <2>5. contact[c].here
    BY <2>4 DEF PortalInv, Unmade
  <2> QED BY <2>3, <2>4, <2>5, BeginsPortal
<1> QED BY <1>1, <1>2, <1>3, <1>4, <1>e, <1>5, SignPortal, SavePortal, StampPortal, UpdatePortal,
           InsertCodePortal, SaveCodePortal, UpdateCodePortal, FailsPortal DEF PortalRequest

LEMMA PortalStep == TypeOK /\ PortalInv /\ [Next]_vars => PortalInv'
<1> SUFFICES ASSUME TypeOK, PortalInv, [Next]_vars PROVE PortalInv'
  OBVIOUS
<1>0. PortalTypeOK
  BY DEF TypeOK
<1>1. CASE UNCHANGED portalVars
  BY <1>1, PortalFrame DEF portalVars
<1>2. ASSUME NEW r \in PortalRequests, PortalRequest(r) PROVE PortalInv'
  BY <1>0, <1>2, PortalRequestPortal
<1>3. ASSUME NEW c \in Contacts, Erase(c) PROVE PortalInv'
  BY <1>0, <1>3, ErasePortal
<1>4. ASSUME NEW c \in Contacts, DeleteContact(c) PROVE PortalInv'
  BY <1>0, <1>4, DeletePortal
<1>5. ASSUME NEW c \in Contacts, NEW e \in Emails, NEW link \in BOOLEAN, CreateContact(c, e, link)
      PROVE  PortalInv'
  BY <1>0, <1>5, CreateContactPortal
<1>6. ASSUME NEW v \in Visits, PublicVisit(v) PROVE PortalInv'
  <2>1. ASSUME NEW e \in Emails, NEW c \in Contacts, CreateFromPublic(v, c, e) PROVE PortalInv'
    BY <1>0, <2>1, CreateFromPublicPortal
  <2>2. (\E e \in Emails, c \in Contacts : CreateFromPublic(v, c, e)) \/ UNCHANGED portalVars
    BY <1>6 DEF PublicVisit, EnterAs, EnterUnknown, FindContact, Submit, portalVars
  <2> QED BY <1>1, <2>1, <2>2
<1>7. CASE Crash
  BY <1>0, <1>7, DiesPortal DEF Crash
<1>8. CASE UNCHANGED vars
  BY <1>1, <1>8 DEF vars
<1> QED BY <1>1, <1>2, <1>3, <1>4, <1>5, <1>6, <1>7, <1>8 DEF Next

\* RevokedStaysRevoked: as long as no row of a contact is written under the copy of
\* another request, a deactivation ends the tokens for good, a used reset link is not
\* stored again, an erased address does not come back before an update sets one, nor a
\* deleted contact, and a replaced or disabled QR code does not work again.
THEOREM RevokedForGood == Spec => []RevokedStaysRevoked
<1>1. Init => TypeOK /\ PortalInv
  BY InitTypes, PortalInit1
<1>2. TypeOK /\ PortalInv /\ [Next]_vars => (TypeOK /\ PortalInv)'
  BY StepTypes, PortalStep
<1>3. TypeOK /\ PortalInv => RevokedStaysRevoked
  BY DEF PortalInv, ContactHolds, CodeHolds, RevokedStaysRevoked, Accepted
<1> QED BY <1>1, <1>2, <1>3, PTL DEF Spec
=============================================================================
