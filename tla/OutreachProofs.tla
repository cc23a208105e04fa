--------------------------- MODULE OutreachProofs ---------------------------
(* Theorems about Outreach, for every value of its constants. *)
EXTENDS Outreach, FiniteSetTheorems, TLAPS

LEMMA Defaults ==
  /\ NoRow \in GroupRow /\ NoTask \in Task
  /\ NoPass \in Pass /\ NoWork \in Work
  /\ 1 \in Groups /\ 2 \in Groups
<1>1. /\ 1 \in Groups /\ 2 \in Groups
      /\ (CHOOSE n \in Names : TRUE) \in Names
      /\ (CHOOSE c \in Contacts : TRUE) \in Contacts
      /\ (CHOOSE j \in ExportJobs : TRUE) \in ExportJobs
      /\ 1 \in Runs
  BY DirectoryAssumption, CollectionsAssumption DEF Groups, Runs
<1>2. NoRow \in GroupRow
  BY <1>1 DEF NoRow, GroupRow
<1>3. NoTask \in Task
  BY <1>1, <1>2 DEF NoTask, Task, Ops, ContactRow
<1>4. NoPass \in Pass
  BY <1>1, RemindersAssumption DEF NoPass, Pass
<1>5. NoWork \in Work
  BY <1>1 DEF NoWork, Work
<1> QED BY <1>1, <1>2, <1>3, <1>4, <1>5

LEMMA InitTypes == Init => TypeOK
<1> SUFFICES ASSUME Init PROVE TypeOK
  OBVIOUS
<1>1. ClockTypeOK /\ left \in Budgets
  BY ClockAssumption DEF Init, ClockInit, ClockTypeOK
<1>2. made = [groups |-> 2, contacts |-> FirstContacts[left]] /\ FirstContacts[left] \subseteq Contacts
  BY <1>1, DirectoryAssumption DEF Init, DirInit
<1>3. DirTypeOK
  <2>1. group \in [Groups -> GroupRow]
    <3>1. PICK parent \in {NoGroup, 1} :
            group = [g \in Groups |->
                        CASE g = 1 -> [here |-> TRUE, name |-> FirstNames[1], parent |-> NoGroup]
                          [] g = 2 -> [here |-> TRUE, name |-> FirstNames[2], parent |-> parent]
                          [] OTHER -> NoRow]
      BY DEF Init, DirInit
    <3>2. /\ [here |-> TRUE, name |-> FirstNames[1], parent |-> NoGroup] \in GroupRow
          /\ [here |-> TRUE, name |-> FirstNames[2], parent |-> parent] \in GroupRow
      BY Defaults, DirectoryAssumption DEF GroupRow
    <3> QED BY <3>1, <3>2, Defaults
  <2>2. contact \in [Contacts -> ContactRow]
    BY <1>2 DEF Init, DirInit, ContactRow
  <2>3. member \subseteq Groups \X Contacts /\ asked = member
    BY <1>2, Defaults DEF Init, DirInit
  <2>4. made \in [groups: Groups, contacts: SUBSET Contacts]
    BY <1>2, Defaults
  <2>5. task \in [DirRequests -> Task] /\ mixed = {} /\ orphaned = {} /\ late = {}
    BY Defaults DEF Init, DirInit
  <2> QED BY <2>1, <2>2, <2>3, <2>4, <2>5 DEF DirTypeOK
<1>4. RemTypeOK
  <2>1. policy \in [here: BOOLEAN, set: Policies, saves: SUBSET Policies] /\ running \in BOOLEAN
    BY RemindersAssumption DEF Init, RemInit
  <2>2. due \in [Contacts -> 0..FirstDue] /\ last \in [Contacts -> Days]
    BY RemindersAssumption, ClockAssumption DEF Init, RemInit, Days
  <2>3. pass \in [Runners -> Pass] /\ unwritten = {} /\ hasty = {}
    BY Defaults DEF Init, RemInit
  <2>4. mail \in [Contacts -> [day: Days, amount: Nat, owed: Nat]]
    BY ClockAssumption DEF Init, RemInit, Days, NoMail
  <2> QED BY <2>1, <2>2, <2>3, <2>4 DEF RemTypeOK
<1>5. ColTypeOK
  <2>1. /\ payment \in [Payments -> {"young", "pending", "settled"}]
        /\ candidate \in [Payments -> {"none", "OPEN", "QUEUED"}]
        /\ detected \in [Payments -> Nat]
    BY DEF Init, ColInit
  <2>2. /\ job \in [ExportJobs -> {"none", "QUEUED", "PROCESSING", "READY", "FAILED"}]
        /\ summaries \subseteq ExportJobs
        /\ run \in [Runs -> {"none", "DRY", "SCHEDULED"}]
        /\ executed \in 0..MaxDay
        /\ work \in [Workers -> Work]
        /\ cut \in [payments: SUBSET Payments, jobs: SUBSET ExportJobs, runs: SUBSET Runs]
    BY Defaults, ClockAssumption DEF Init, ColInit
  <2> QED BY <2>1, <2>2 DEF ColTypeOK
<1> QED BY <1>1, <1>3, <1>4, <1>5 DEF TypeOK

-----------------------------------------------------------------------------
(* Types of the directory. *)

LEMMA ComesTypes ==
  ASSUME ClockTypeOK, NEW kind \in Kinds, Comes(kind)
  PROVE  left' \in [Kinds -> Nat]
BY DEF ClockTypeOK, Comes

LEMMA AgedTypes ==
  ASSUME DirTypeOK, NEW r, NEW new \in Task
  PROVE  Aged(r, new) \in [DirRequests -> Task]
<1> SUFFICES ASSUME NEW q \in DirRequests PROVE Aged(r, new)[q] \in Task
  BY DEF Aged
<1>1. task[q] \in Task
  BY DEF DirTypeOK
<1>2. [task[q] EXCEPT !.clean = FALSE] \in Task
  BY <1>1 DEF Task
<1> QED BY <1>1, <1>2 DEF Aged

LEMMA AttachedTypes ==
  ASSUME DirTypeOK, NEW g \in Groups, NEW row \in GroupRow, Attached(g, row)
  PROVE  late' \subseteq Groups \X Groups
<1>1. ASSUME NEW q \in DirRequests, task[q].group = row.parent
      PROVE  <<g, row.parent>> \in Groups \X Groups
  BY <1>1 DEF DirTypeOK, Task
<1> QED BY <1>1 DEF Attached, DirTypeOK

LEMMA EntersTypes ==
  ASSUME DirTypeOK, NEW r \in DirRequests, NEW new \in Task, Enters(r, new)
  PROVE  DirTypeOK'
BY DEF DirTypeOK, Enters, tables, history

LEMMA RefusedTypes ==
  ASSUME DirTypeOK, NEW r \in DirRequests, Refused(r)
  PROVE  DirTypeOK'
BY Defaults DEF DirTypeOK, Refused, tables, history

LEMMA GoesTypes ==
  ASSUME DirTypeOK, NEW r \in DirRequests, NEW at, Goes(r, at),
         at \in {"idle", "pick", "save", "detach", "children", "members", "delete", "walk"}
  PROVE  DirTypeOK'
<1>1. task[r] \in Task
  BY DEF DirTypeOK
<1>2. [task[r] EXCEPT !.at = at] \in Task
  BY <1>1 DEF Task
<1>3. task' \in [DirRequests -> Task]
  BY <1>2 DEF Goes, DirTypeOK
<1> QED BY <1>3 DEF DirTypeOK, Goes, tables, history

\* A write of the group g alone.
LEMMA GroupTypes ==
  ASSUME DirTypeOK, NEW r, NEW g \in Groups, NEW row \in GroupRow, NEW new \in Task,
         group' = [group EXCEPT ![g] = row], Attached(g, row), task' = Aged(r, new),
         made' \in [groups: Groups, contacts: SUBSET Contacts],
         UNCHANGED <<contact, member, asked, mixed, orphaned>>
  PROVE  DirTypeOK'
<1>1. late' \subseteq Groups \X Groups /\ task' \in [DirRequests -> Task]
  BY AttachedTypes, AgedTypes
<1> QED BY <1>1 DEF DirTypeOK

LEMMA EnrollsTypes ==
  ASSUME DirTypeOK, NEW r, NEW c \in Contacts, NEW row \in ContactRow, NEW gs \in SUBSET Groups,
         Enrolls(r, c, row, gs)
  PROVE  /\ contact' \in [Contacts -> ContactRow]
         /\ member' \subseteq Groups \X Contacts
         /\ asked' \subseteq Groups \X Contacts /\ mixed' \subseteq Groups \X Contacts
BY DEF DirTypeOK, Enrolls

LEMMA AskTypes ==
  ASSUME DirTypeOK, NEW r \in DirRequests, NEW g \in Groups, NEW c \in Contacts,
         AskDetach(r, g) \/ AskDelete(r, g) \/ AskAdd(r, g, c) \/ AskRemove(r, g, c)
  PROVE  DirTypeOK'
<1>1. group[g] \in GroupRow /\ Members(g) \subseteq Contacts
  BY DEF DirTypeOK, Members
<1>2. CASE AskDetach(r, g)
  <2>1. [NoTask EXCEPT !.op = "detach", !.at = "detach", !.group = g] \in Task
    BY Defaults DEF Task, Ops
  <2> QED BY <1>2, <2>1, EntersTypes DEF AskDetach
<1>3. CASE AskDelete(r, g)
  <2>1. [NoTask EXCEPT !.op = "delete", !.at = "children", !.group = g] \in Task
    BY Defaults DEF Task, Ops
  <2> QED BY <1>3, <2>1, EntersTypes DEF AskDelete
<1>4. CASE AskAdd(r, g, c)
  <2>1. [NoTask EXCEPT !.op = "add", !.at = "pick", !.group = g, !.row = group[g],
                       !.set = Members(g), !.contact = c] \in Task
    BY Defaults, <1>1 DEF Task, Ops
  <2> QED BY <1>4, <2>1, EntersTypes DEF AskAdd
<1>5. CASE AskRemove(r, g, c)
  <2>1. [NoTask EXCEPT !.op = "remove", !.at = "save", !.group = g, !.row = group[g],
                       !.set = Members(g) \ {c}, !.contact = c] \in Task
    BY Defaults, <1>1 DEF Task, Ops
  <2> QED BY <1>5, <2>1, EntersTypes DEF AskRemove
<1> QED BY <1>2, <1>3, <1>4, <1>5

LEMMA AskContactTypes ==
  ASSUME DirTypeOK, NEW r \in DirRequests, NEW c \in Contacts, NEW gs \in SUBSET Groups,
         NEW ps \in SUBSET Paths, NEW op \in {"create", "import"},
         AskAssign(r, c, gs) \/ AskNew(r, c, op, gs, ps)
  PROVE  DirTypeOK'
<1>1. CASE AskAssign(r, c, gs)
  <2>1. contact[c] \in ContactRow
    BY DEF DirTypeOK
  <2>2. [NoTask EXCEPT !.op = "assign", !.at = IF gs = {} THEN "save" ELSE "pick",
                       !.contact = c, !.copy = contact[c], !.chosen = gs] \in Task
    BY Defaults, <2>1 DEF Task, Ops
  <2> QED BY <1>1, <2>2, EntersTypes DEF AskAssign
<1>2. CASE AskNew(r, c, op, gs, ps)
  <2>1. group \in [Groups -> GroupRow]
    BY DEF DirTypeOK
  <2>2. [NoTask EXCEPT !.op = op, !.at = IF op = "create" THEN "save" ELSE "walk",
                       !.contact = c, !.given = gs, !.chosen = gs,
                       !.paths = ps, !.todo = ps, !.snap = group] \in Task
    BY Defaults, <2>1 DEF Task, Ops
  <2> QED BY <1>2, <2>2, EntersTypes DEF AskNew
<1> QED BY <1>1, <1>2

\* The writes of groups.
LEMMA GroupWriteTypes ==
  ASSUME TypeOK, NEW g \in Groups, NEW row \in [here: {TRUE}, name: Names, parent: Groups \cup {NoGroup}],
         CreateGroup(g, row) \/ UpdateGroup(g, row)
  PROVE  DirTypeOK'
<1>1. row \in GroupRow
  BY DEF GroupRow
<1>2. CASE CreateGroup(g, row)
  <2>1. made' \in [groups: Groups, contacts: SUBSET Contacts]
    BY <1>2 DEF CreateGroup, TypeOK, DirTypeOK
  <2> QED BY <1>1, <1>2, <2>1, Defaults, GroupTypes DEF CreateGroup, TypeOK
<1>3. CASE UpdateGroup(g, row)
  <2>1. made' \in [groups: Groups, contacts: SUBSET Contacts]
    BY <1>3 DEF UpdateGroup, TypeOK, DirTypeOK
  <2> QED BY <1>1, <1>3, <2>1, Defaults, GroupTypes DEF UpdateGroup, TypeOK
<1> QED BY <1>2, <1>3

LEMMA DetachTypes ==
  ASSUME DirTypeOK, NEW r \in DirRequests, Detach(r)
  PROVE  DirTypeOK'
<1>1. task[r] \in Task /\ task[r].group \in Groups
  BY DEF DirTypeOK, Task
<1>2. group[task[r].group] \in GroupRow
  BY <1>1 DEF DirTypeOK
<1>3. [group[task[r].group] EXCEPT !.parent = NoGroup] \in GroupRow
  BY <1>2 DEF GroupRow
<1>4. group' \in [Groups -> GroupRow]
  BY <1>1, <1>3 DEF Detach, DirTypeOK
<1>5. task' \in [DirRequests -> Task]
  BY AgedTypes, Defaults DEF Detach
<1> QED BY <1>4, <1>5 DEF Detach, DirTypeOK, history

LEMMA DeleteGroupTypes ==
  ASSUME DirTypeOK, NEW r \in DirRequests, DeleteGroup(r)
  PROVE  DirTypeOK'
<1> DEFINE g == task[r].group
<1>1. g \in Groups
  BY DEF DirTypeOK, Task
<1>2. CASE Members(g) # {}
  BY <1>2, RefusedTypes DEF DeleteGroup
<1>3. CASE Members(g) = {}
  <2>1. \A h \in Groups : [group[h] EXCEPT !.parent = NoGroup] \in GroupRow
    BY DEF DirTypeOK, GroupRow
  <2>2. group' \in [Groups -> GroupRow]
    BY <1>3, <2>1, Defaults DEF DeleteGroup, DirTypeOK
  <2>3. orphaned' \subseteq Groups \X Groups
    BY <1>1, <1>3 DEF DeleteGroup, DirTypeOK, Below
  <2>4. task' \in [DirRequests -> Task]
    BY <1>3, AgedTypes, Defaults DEF DeleteGroup
  <2> QED BY <1>3, <2>2, <2>3, <2>4 DEF DeleteGroup, DirTypeOK
<1> QED BY <1>2, <1>3

LEMMA SaveMembersTypes ==
  ASSUME DirTypeOK, NEW r \in DirRequests, SaveMembers(r)
  PROVE  DirTypeOK'
<1> DEFINE t == task[r]
           g == t.group
<1>1. t \in Task /\ g \in Groups /\ t.row \in GroupRow /\ t.set \subseteq Contacts
  BY DEF DirTypeOK, Task
<1>2. CASE ~ValidRow(g, t.row) \/ ~\A c \in t.set : Known(c)
  BY <1>2, RefusedTypes DEF SaveMembers
<1>3. CASE ~(~ValidRow(g, t.row) \/ ~\A c \in t.set : Known(c))
  <2>1. group' \in [Groups -> GroupRow]
    BY <1>1, <1>3 DEF SaveMembers, DirTypeOK
  <2>2. late' \subseteq Groups \X Groups
    BY <1>1, <1>3, AttachedTypes DEF SaveMembers
  <2>3. member' \subseteq Groups \X Contacts /\ asked' \subseteq Groups \X Contacts
    BY <1>1, <1>3 DEF SaveMembers, DirTypeOK
  <2>4. mixed' \subseteq Groups \X Contacts
    BY <1>1, <1>3 DEF SaveMembers, DirTypeOK
  <2>5. task' \in [DirRequests -> Task]
    <3>1. [task EXCEPT ![r] = NoTask] \in [DirRequests -> Task]
      BY Defaults DEF DirTypeOK
    <3>2. Aged(r, NoTask) \in [DirRequests -> Task]
      BY AgedTypes, Defaults
    <3> QED BY <1>3, <3>1, <3>2 DEF SaveMembers
  <2> QED BY <1>3, <2>1, <2>2, <2>3, <2>4, <2>5 DEF SaveMembers, DirTypeOK
<1> QED BY <1>2, <1>3

\* The writes of contacts.
LEMMA ContactWriteTypes ==
  ASSUME DirTypeOK, NEW c \in Contacts, NEW active \in BOOLEAN,
         UpdateContact(c, active) \/ DeleteContact(c)
  PROVE  DirTypeOK'
<1>1. [here |-> FALSE, active |-> FALSE] \in ContactRow /\ [contact[c] EXCEPT !.active = active] \in ContactRow
  BY DEF DirTypeOK, ContactRow
<1>2. CASE UpdateContact(c, active)
  BY <1>1, <1>2 DEF UpdateContact, DirTypeOK, history
<1>3. CASE DeleteContact(c)
  <2>1. /\ contact' \in [Contacts -> ContactRow]
        /\ member' \subseteq Groups \X Contacts
        /\ asked' \subseteq Groups \X Contacts /\ mixed' \subseteq Groups \X Contacts
    <3>1. Enrolls(NoGroup, c, [here |-> FALSE, active |-> FALSE], {}) /\ {} \in SUBSET Groups
      BY <1>3 DEF DeleteContact
    <3> QED BY <1>1, <3>1, EnrollsTypes
  <2>2. UNCHANGED <<group, made, task, orphaned, late>>
    BY <1>3 DEF DeleteContact
  <2> QED BY <2>1, <2>2 DEF DirTypeOK
<1> QED BY <1>2, <1>3

LEMMA SaveContactTypes ==
  ASSUME DirTypeOK, NEW r \in DirRequests, SaveAssigned(r) \/ SaveNew(r)
  PROVE  DirTypeOK'
<1> DEFINE t == task[r]
<1>1. t \in Task /\ t.contact \in Contacts /\ t.copy \in ContactRow /\ t.chosen \subseteq Groups
  BY DEF DirTypeOK, Task
<1>2. [here |-> TRUE, active |-> TRUE] \in ContactRow
  BY DEF ContactRow
<1>3. [task EXCEPT ![r] = NoTask] \in [DirRequests -> Task]
  BY Defaults DEF DirTypeOK
<1>4. CASE SaveAssigned(r)
  <2>1. CASE ~\A g \in t.chosen : Here(g)
    BY <1>4, <2>1, RefusedTypes DEF SaveAssigned
  <2>2. CASE \A g \in t.chosen : Here(g)
    <3>1. Enrolls(r, t.contact, t.copy, t.chosen) /\ task' = [task EXCEPT ![r] = NoTask]
      BY <1>4, <2>2 DEF SaveAssigned
    <3>2. UNCHANGED <<group, made, orphaned, late>>
      BY <1>4, <2>2 DEF SaveAssigned
    <3> QED BY <1>1, <1>3, <3>1, <3>2, EnrollsTypes DEF DirTypeOK
  <2> QED BY <2>1, <2>2
<1>5. CASE SaveNew(r)
  <2>1. CASE t.contact \in made.contacts \/ ~\A g \in t.chosen : Here(g)
    BY <1>5, <2>1, RefusedTypes DEF SaveNew
  <2>2. CASE ~(t.contact \in made.contacts \/ ~\A g \in t.chosen : Here(g))
    <3>1. /\ Enrolls(r, t.contact, [here |-> TRUE, active |-> TRUE], t.chosen)
          /\ task' = [task EXCEPT ![r] = NoTask]
      BY <1>5, <2>2 DEF SaveNew
    <3>2. UNCHANGED <<group, orphaned, late>>
      BY <1>5, <2>2 DEF SaveNew
    <3>3. made' \in [groups: Groups, contacts: SUBSET Contacts]
      BY <1>1, <1>5, <2>2 DEF SaveNew, DirTypeOK
    <3> QED BY <1>1, <1>2, <1>3, <3>1, <3>2, <3>3, EnrollsTypes DEF DirTypeOK
  <2> QED BY <2>1, <2>2
<1> QED BY <1>4, <1>5

\* The steps of a request that only read, and those of an import.
LEMMA ReadTypes ==
  ASSUME DirTypeOK, NEW r \in DirRequests,
         CountChildren(r) \/ CountMembers(r) \/ PickContact(r) \/ PickGroups(r) \/ NextPath(r) \/ Follow(r)
  PROVE  DirTypeOK'
<1> DEFINE t == task[r]
<1>1. t \in Task /\ t.set \subseteq Contacts /\ t.contact \in Contacts /\ t.rest \in Seq(Names)
  BY DEF DirTypeOK, Task
<1>2. CASE CountChildren(r)
  BY <1>2, RefusedTypes, GoesTypes DEF CountChildren
<1>3. CASE CountMembers(r)
  BY <1>3, RefusedTypes, GoesTypes DEF CountMembers
<1>4. CASE PickGroups(r)
  BY <1>4, RefusedTypes, GoesTypes DEF PickGroups
<1>5. CASE PickContact(r)
  <2> DEFINE new == [t EXCEPT !.at = "save", !.set = IF Known(t.contact) THEN WithNew(@, t.contact) ELSE @]
  <2>1. new \in Task
    BY <1>1 DEF Task, WithNew
  <2>2. task' \in [DirRequests -> Task]
    BY <1>5, <2>1 DEF PickContact, DirTypeOK
  <2> QED BY <1>5, <2>2 DEF PickContact, DirTypeOK, tables, history
<1>6. CASE NextPath(r)
  <2>1. PICK p \in t.todo :
          task' = [task EXCEPT ![r].todo = @ \ {p}, ![r].rest = p, ![r].below = NoGroup]
    BY <1>6 DEF NextPath
  <2>2. t.todo \subseteq Paths /\ p \in Seq(Names)
    BY <1>1, DirectoryAssumption DEF Task
  <2>3. [t EXCEPT !.todo = @ \ {p}, !.rest = p, !.below = NoGroup] \in Task
    BY <1>1, <2>2 DEF Task
  <2>4. task' \in [DirRequests -> Task]
    BY <2>1, <2>3 DEF DirTypeOK
  <2> QED BY <1>6, <2>4 DEF NextPath, DirTypeOK, tables, history
<1>7. CASE Follow(r)
  <2>1. PICK g \in Found(t) : task' = [task EXCEPT ![r] = Down(t, g)]
    BY <1>7 DEF Follow
  <2>2. g \in Groups /\ t.rest # <<>> /\ Tail(t.rest) \in Seq(Names)
    BY <1>1, <1>7 DEF Found, Follow
  <2>3. Down(t, g) \in Task
    BY <1>1, <2>2 DEF Task, Down
  <2>4. task' \in [DirRequests -> Task]
    BY <2>1, <2>3 DEF DirTypeOK
  <2> QED BY <1>7, <2>4 DEF Follow, DirTypeOK, tables, history
<1> QED BY <1>2, <1>3, <1>4, <1>5, <1>6, <1>7

LEMMA CreateMissingTypes ==
  ASSUME DirTypeOK, NEW r \in DirRequests, CreateMissing(r)
  PROVE  DirTypeOK'
<1> DEFINE t == task[r]
           n == made.groups + 1
           row == [here |-> TRUE, name |-> Head(t.rest), parent |-> t.below]
<1>1. t \in Task /\ t.rest \in Seq(Names) /\ t.below \in Groups \cup {NoGroup} /\ t.snap \in [Groups -> GroupRow]
  BY DEF DirTypeOK, Task
<1>2. n \in Groups /\ t.rest # <<>>
  BY DEF CreateMissing
<1>3. row \in GroupRow
  BY <1>1, <1>2 DEF GroupRow
<1>4. CASE ~ValidRow(n, row)
  BY <1>4, RefusedTypes DEF CreateMissing
<1>5. CASE ValidRow(n, row)
  <2> DEFINE s == [t EXCEPT !.snap[n] = row]
  <2>1. s \in Task /\ s.rest = t.rest
    BY <1>1, <1>2, <1>3 DEF Task
  <2>2. Tail(t.rest) \in Seq(Names)
    BY <1>1, <1>2
  <2>3. Down(s, n) \in Task
    <3> HIDE DEF s, n
    <3> QED BY <1>2, <2>1, <2>2 DEF Task, Down
  <2>4. made' \in [groups: Groups, contacts: SUBSET Contacts]
    BY <1>2, <1>5 DEF CreateMissing, DirTypeOK
  <2>5. /\ group' = [group EXCEPT ![n] = row] /\ Attached(n, row) /\ task' = Aged(r, Down(s, n))
        /\ UNCHANGED <<contact, member, asked, mixed, orphaned>>
    BY <1>5 DEF CreateMissing
  <2> HIDE DEF s, n, row
  <2> QED BY <1>2, <1>3, <2>3, <2>4, <2>5, GroupTypes
<1> QED BY <1>4, <1>5

LEMMA DirTypes == TypeOK /\ DirNext => DirTypeOK'
<1> SUFFICES ASSUME TypeOK, DirNext PROVE DirTypeOK'
  OBVIOUS
<1> DirTypeOK
  BY DEF TypeOK
<1>1. ASSUME NEW r \in DirRequests, DirRequest(r)
      PROVE  DirTypeOK'
  <2>1. ASSUME NEW g \in Groups, AskDetach(r, g) \/ AskDelete(r, g)
        PROVE  DirTypeOK'
    <3>1. PICK c \in Contacts : TRUE
      BY DirectoryAssumption
    <3> QED BY <2>1, <3>1, AskTypes
  <2>2. ASSUME NEW g \in Groups, NEW c \in Contacts, AskAdd(r, g, c) \/ AskRemove(r, g, c)
        PROVE  DirTypeOK'
    BY <2>2, AskTypes
  <2>3. ASSUME NEW c \in Contacts, NEW gs \in SUBSET Groups, AskAssign(r, c, gs)
        PROVE  DirTypeOK'
    BY <2>3, AskContactTypes
  <2>4. ASSUME NEW c \in Contacts, NEW gs \in SUBSET Groups, AskNew(r, c, "create", gs, {})
        PROVE  DirTypeOK'
    BY <2>4, AskContactTypes
  <2>5. ASSUME NEW c \in Contacts, NEW gs \in SUBSET Groups, NEW ps \in SUBSET Paths,
               AskNew(r, c, "import", gs, ps)
        PROVE  DirTypeOK'
    BY <2>5, AskContactTypes
  <2>6. CASE CountChildren(r) \/ CountMembers(r) \/ PickContact(r) \/ PickGroups(r) \/ NextPath(r) \/ Follow(r)
    BY <2>6, ReadTypes
  <2>7. CASE Detach(r) \/ DeleteGroup(r) \/ SaveMembers(r) \/ SaveAssigned(r) \/ SaveNew(r) \/ CreateMissing(r)
    BY <2>7, DetachTypes, DeleteGroupTypes, SaveMembersTypes, SaveContactTypes, CreateMissingTypes
  <2> QED BY <1>1, <2>1, <2>2, <2>3, <2>4, <2>5, <2>6, <2>7 DEF DirRequest
<1>2. ASSUME NEW g \in Groups,
             NEW row \in [here: {TRUE}, name: Names, parent: Groups \cup {NoGroup}],
             CreateGroup(g, row) \/ UpdateGroup(g, row)
      PROVE  DirTypeOK'
  BY <1>2, GroupWriteTypes
<1>3. ASSUME NEW c \in Contacts, DeleteContact(c) \/ \E active \in BOOLEAN : UpdateContact(c, active)
      PROVE  DirTypeOK'
  BY <1>3, ContactWriteTypes
<1> QED BY <1>1, <1>2, <1>3 DEF DirNext

-----------------------------------------------------------------------------
(* Types of the reminders. *)

LEMMA StepsTypes ==
  ASSUME RemTypeOK, NEW r \in Runners, NEW new \in Pass, Steps(r, new)
  PROVE  RemTypeOK'
BY DEF RemTypeOK, Steps

LEMMA StatedTypes ==
  ASSUME TypeOK, NEW set \in Settings, NEW c \in Contacts
  PROVE  Stated(set, c) \in Nat
<1>1. IsFiniteSet(Groups)
  BY FS_Interval, DirectoryAssumption DEF Groups
<1> DEFINE gs == {g \in set.audience : <<g, c>> \in member}
<1>2. set.audience \subseteq Groups
  BY DEF Settings
<1>3. Cardinality(gs) \in Nat
  <2>1. gs \in SUBSET Groups
    BY <1>2
  <2>2. IsFiniteSet(gs)
    BY <1>1, <2>1, FS_Subset
  <2> QED BY <2>2, FS_CardinalityType
<1>4. Rows(set, c) \in Nat
  BY <1>3 DEF Rows
<1>5. due[c] \in Nat
  BY RemindersAssumption DEF TypeOK, RemTypeOK
<1> QED BY <1>4, <1>5 DEF Stated

LEMMA WriteRowTypes ==
  ASSUME TypeOK, NEW r \in Runners, WriteRow(r)
  PROVE  RemTypeOK'
<1>1. pass[r] \in Pass /\ pass[r].contact \in Contacts /\ day \in Days
  BY DEF TypeOK, RemTypeOK, ClockTypeOK, Pass, Days
<1>2. [pass[r] EXCEPT !.at = "next"] \in Pass
  BY <1>1 DEF Pass
<1>3. pass' \in [Runners -> Pass]
  BY <1>2 DEF WriteRow, TypeOK, RemTypeOK
<1>4. last' \in [Contacts -> Days]
  BY <1>1 DEF WriteRow, TypeOK, RemTypeOK
<1> QED BY <1>3, <1>4 DEF WriteRow, TypeOK, RemTypeOK

LEMMA PassTypes ==
  ASSUME TypeOK, NEW r \in Runners, PassStep(r)
  PROVE  RemTypeOK'
<1> DEFINE p == pass[r]
<1> RemTypeOK
  BY DEF TypeOK
<1>1. p \in Pass /\ p.set \in Settings /\ p.todo \subseteq Contacts /\ p.contact \in Contacts
  BY DEF RemTypeOK, Pass
<1>2. \A at \in {"idle", "policies", "recipients", "contacts", "next", "send", "sent", "threw", "end"} :
         [p EXCEPT !.at = at] \in Pass
  BY <1>1 DEF Pass
<1>3. CASE ReadPolicies(r)
  <2>1. policy.set \in Settings
    BY RemindersAssumption DEF RemTypeOK
  <2>2. [p EXCEPT !.at = "recipients", !.set = policy.set] \in Pass
    BY <1>1, <2>1 DEF Pass
  <2> QED BY <1>2, <1>3, <2>2, StepsTypes DEF ReadPolicies
<1>4. CASE ReadRecipients(r)
  <2> DEFINE found == {c \in Contacts : Eligible(p.set, c)}
             amount == [c \in Contacts |-> IF c \in found THEN Stated(p.set, c) ELSE 0]
             owed == [c \in Contacts |-> IF c \in found THEN due[c] ELSE 0]
  <2>1. amount \in [Contacts -> Nat]
    BY <1>1, StatedTypes
  <2>2. owed \in [Contacts -> Nat]
    BY RemindersAssumption DEF RemTypeOK
  <2>3. Steps(r, [p EXCEPT !.at = "contacts", !.todo = found, !.amount = amount, !.owed = owed])
    BY <1>4 DEF ReadRecipients
  <2>4. found \subseteq Contacts
    OBVIOUS
  <2> HIDE DEF found, amount, owed
  <2>5. [p EXCEPT !.at = "contacts", !.todo = found, !.amount = amount, !.owed = owed] \in Pass
    BY <1>1, <2>1, <2>2, <2>4 DEF Pass
  <2> QED BY <2>3, <2>5, StepsTypes
<1>5. CASE FindContacts(r)
  <2>1. [p EXCEPT !.at = "next", !.todo = {c \in @ : Known(c)}] \in Pass
    BY <1>1 DEF Pass
  <2> QED BY <1>5, <2>1, StepsTypes DEF FindContacts
<1>6. CASE CheckCooldown(r)
  <2>1. PICK c \in p.todo :
          Steps(r, IF CoolsDown(p.set, c) THEN [p EXCEPT !.todo = @ \ {c}]
                   ELSE [p EXCEPT !.at = "send", !.todo = @ \ {c}, !.contact = c, !.seen = Written(c)])
    BY <1>6 DEF CheckCooldown
  <2>2. [p EXCEPT !.todo = @ \ {c}] \in Pass
    BY <1>1 DEF Pass
  <2>3. Written(c) \in BOOLEAN
    BY DEF Written
  <2>4. [p EXCEPT !.at = "send", !.todo = @ \ {c}, !.contact = c, !.seen = Written(c)] \in Pass
    BY <1>1, <2>3 DEF Pass
  <2> QED BY <2>1, <2>2, <2>4, StepsTypes
<1>7. ASSUME NEW at \in {"sent", "threw"}, SendMail(r, at)
      PROVE  RemTypeOK'
  <2> DEFINE c == p.contact
  <2>1. Unaware(r, c) \in [Runners -> Pass]
    <3>1. ASSUME NEW q \in Runners
          PROVE  pass[q] \in Pass /\ [pass[q] EXCEPT !.seen = FALSE] \in Pass
      <4>1. pass[q] \in Pass
        BY DEF RemTypeOK
      <4> QED BY <4>1 DEF Pass
    <3> QED BY <3>1 DEF Unaware
  <2>2. [Unaware(r, c)[r] EXCEPT !.at = at] \in Pass
    BY <2>1 DEF Pass
  <2>3. pass' \in [Runners -> Pass]
    BY <1>7, <2>1, <2>2 DEF SendMail
  <2>4. [day |-> day, amount |-> p.amount[c], owed |-> p.owed[c]] \in [day: Days, amount: Nat, owed: Nat]
    BY <1>1 DEF TypeOK, ClockTypeOK, Days, Pass
  <2>5. mail' \in [Contacts -> [day: Days, amount: Nat, owed: Nat]]
    BY <1>7, <2>4 DEF SendMail, RemTypeOK
  <2>6. hasty' \subseteq Contacts
    BY <1>1, <1>7 DEF SendMail, RemTypeOK
  <2> QED BY <1>7, <2>3, <2>5, <2>6 DEF SendMail, RemTypeOK
<1>8. CASE MailRefused(r) \/ RecordThrows(r) \/ PolicyDone(r)
  BY <1>2, <1>8, StepsTypes DEF MailRefused, RecordThrows, PolicyDone
<1>9. CASE Record(r) \/ RecordFailed(r)
  BY <1>9, WriteRowTypes DEF Record, RecordFailed
<1>10. CASE RecordFailedThrows(r)
  <2>1. pass' \in [Runners -> Pass]
    BY <1>2, <1>10 DEF RecordFailedThrows, RemTypeOK
  <2> QED BY <1>1, <1>10, <2>1 DEF RecordFailedThrows, RemTypeOK
<1>11. CASE EndPass(r)
  BY <1>11, Defaults DEF EndPass, RemTypeOK
<1> QED BY <1>3, <1>4, <1>5, <1>6, <1>7, <1>8, <1>9, <1>10, <1>11 DEF PassStep

LEMMA RemTypes == TypeOK /\ RemNext => RemTypeOK'
<1> SUFFICES ASSUME TypeOK, RemNext PROVE RemTypeOK'
  OBVIOUS
<1> RemTypeOK
  BY DEF TypeOK
<1>1. ASSUME NEW set \in Policies, AskPolicy(set) \/ SavePolicy(set) \/ SavePolicyFails(set)
      PROVE  RemTypeOK'
  <2>1. policy' \in [here: BOOLEAN, set: Policies, saves: SUBSET Policies]
    <3>1. policy.here \in BOOLEAN /\ policy.set \in Policies /\ policy.saves \in SUBSET Policies
      BY DEF RemTypeOK
    <3>2. CASE AskPolicy(set)
      BY <3>1, <3>2 DEF AskPolicy, RemTypeOK
    <3>3. CASE SavePolicy(set)
      BY <3>1, <3>3 DEF SavePolicy
    <3>4. CASE SavePolicyFails(set)
      BY <3>1, <3>4 DEF SavePolicyFails, RemTypeOK
    <3> QED BY <1>1, <3>2, <3>3, <3>4
  <2> QED BY <1>1, <2>1 DEF AskPolicy, SavePolicy, SavePolicyFails, RemTypeOK
<1>2. CASE DeletePolicy
  <2>1. policy' \in [here: BOOLEAN, set: Policies, saves: SUBSET Policies]
    BY <1>2 DEF DeletePolicy, RemTypeOK
  <2>2. last' \in [Contacts -> Days]
    BY <1>2, ClockAssumption DEF DeletePolicy, Days
  <2> QED BY <1>2, <2>1, <2>2 DEF DeletePolicy, RemTypeOK
<1>3. ASSUME NEW c \in Contacts, NEW amount \in 0..FirstDue, Pays(c, amount)
      PROVE  RemTypeOK'
  BY <1>3 DEF Pays, RemTypeOK
<1>4. ASSUME NEW r \in Runners
      PROVE  [pass[r] EXCEPT !.at = "policies"] \in Pass
  <2>1. pass[r] \in Pass
    BY DEF RemTypeOK
  <2> QED BY <2>1 DEF Pass
<1>5. CASE Tick
  BY <1>4, <1>5, RemindersAssumption DEF Tick, RemTypeOK
<1>6. ASSUME NEW r \in Runners, RunNow(r)
      PROVE  RemTypeOK'
  BY <1>4, <1>6 DEF RunNow, RemTypeOK
<1>7. ASSUME NEW r \in Runners, PassStep(r)
      PROVE  RemTypeOK'
  BY <1>7, PassTypes
<1> QED BY <1>1, <1>2, <1>3, <1>5, <1>6, <1>7 DEF RemNext

LEMMA GoesWithContactTypes ==
  ASSUME RemTypeOK, GoesWithContact
  PROVE  RemTypeOK'
<1>1. last' \in [Contacts -> Days] /\ due' \in [Contacts -> 0..FirstDue]
  BY RemindersAssumption, ClockAssumption DEF GoesWithContact, RemTypeOK, Days
<1>2. unwritten' \subseteq Contacts
  BY DEF GoesWithContact, RemTypeOK
<1> QED BY <1>1, <1>2 DEF GoesWithContact, RemTypeOK

-----------------------------------------------------------------------------
(* Types of the jobs. *)

LEMMA AsksTypes ==
  ASSUME ColTypeOK, NEW w \in Workers, NEW new \in Work, Asks(w, new) \/ WorkGoes(w, new)
  PROVE  work' \in [Workers -> Work]
BY DEF ColTypeOK, Asks, WorkGoes

LEMMA WorkTypes ==
  ASSUME ColTypeOK, NEW w \in Workers, WorkStep(w)
  PROVE  ColTypeOK'
<1>1. work[w] \in Work /\ work[w].payments \subseteq Payments /\ work[w].job \in ExportJobs
  BY DEF ColTypeOK, Work
<1>2. \A at \in {"idle", "candidates", "insert", "detected", "take", "export", "ready",
                  "announce", "failed", "snapshots"} : [work[w] EXCEPT !.at = at] \in Work
  BY <1>1 DEF Work
<1>3. CASE ReadCandidates(w)
  <2> DEFINE missing == {p \in work[w].payments : candidate[p] = "none"}
  <2>1. [work[w] EXCEPT !.at = "insert", !.payments = missing] \in Work
    BY <1>1 DEF Work
  <2>2. work' \in [Workers -> Work]
    BY <1>3, <2>1, Defaults, AsksTypes DEF ReadCandidates
  <2> QED BY <1>3, <2>2 DEF ReadCandidates, ColTypeOK
<1>4. CASE InsertCandidates(w)
  <2>1. work' \in [Workers -> Work]
    BY <1>2, <1>4, AsksTypes DEF InsertCandidates
  <2>2. candidate' \in [Payments -> {"none", "OPEN", "QUEUED"}]
    BY <1>4 DEF InsertCandidates, ColTypeOK
  <2> QED BY <1>4, <2>1, <2>2 DEF InsertCandidates, ColTypeOK
<1>5. CASE InsertRefused(w) \/ RequestFails(w) \/ Announced(w) \/ ComputeSnapshots(w)
  <2>1. work' \in [Workers -> Work]
    BY <1>5, Defaults, AsksTypes DEF InsertRefused, RequestFails, Announced, ComputeSnapshots
  <2> QED BY <1>5, <2>1 DEF InsertRefused, RequestFails, Announced, ComputeSnapshots, ColTypeOK
<1>6. CASE SaveDetected(w)
  <2>1. work' \in [Workers -> Work]
    BY <1>6, Defaults, AsksTypes DEF SaveDetected
  <2>2. detected' \in [Payments -> Nat]
    BY <1>6 DEF SaveDetected, ColTypeOK
  <2> QED BY <1>6, <2>1, <2>2 DEF SaveDetected, ColTypeOK
<1>7. CASE DetectedLost(w)
  <2>1. work' \in [Workers -> Work]
    BY <1>7, Defaults, AsksTypes DEF DetectedLost
  <2>2. cut' \in [payments: SUBSET Payments, jobs: SUBSET ExportJobs, runs: SUBSET Runs]
    BY <1>1, <1>7 DEF DetectedLost, ColTypeOK
  <2> QED BY <1>7, <2>1, <2>2 DEF DetectedLost, ColTypeOK
<1>8. ASSUME NEW status \in {"PROCESSING", "READY", "FAILED"}, NEW new \in Work, SavesJob(w, status, new)
      PROVE  ColTypeOK'
  <2>1. work' \in [Workers -> Work]
    BY <1>8, AsksTypes DEF SavesJob
  <2>2. job' \in [ExportJobs -> {"none", "QUEUED", "PROCESSING", "READY", "FAILED"}]
    BY <1>8 DEF SavesJob, ColTypeOK
  <2>3. cut' \in [payments: SUBSET Payments, jobs: SUBSET ExportJobs, runs: SUBSET Runs]
    BY <1>8 DEF SavesJob, ColTypeOK
  <2> QED BY <1>8, <2>1, <2>2, <2>3 DEF SavesJob, ColTypeOK
<1>9. CASE TakeJob(w) \/ MarkReady(w) \/ MarkFailed(w)
  BY <1>2, <1>8, <1>9, Defaults DEF TakeJob, MarkReady, MarkFailed
<1>10. CASE SaveSummary(w)
  <2>1. work' \in [Workers -> Work]
    BY <1>2, <1>10, AsksTypes DEF SaveSummary
  <2> QED BY <1>1, <1>10, <2>1 DEF SaveSummary, ColTypeOK
<1>11. CASE ExportThrows(w)
  <2>1. work' \in [Workers -> Work]
    BY <1>2, <1>11, AsksTypes DEF ExportThrows
  <2> QED BY <1>11, <2>1 DEF ExportThrows, ColTypeOK
<1>12. CASE MarkFails(w)
  <2>1. work' \in [Workers -> Work]
    BY <1>12, Defaults, AsksTypes DEF MarkFails
  <2>2. cut' \in [payments: SUBSET Payments, jobs: SUBSET ExportJobs, runs: SUBSET Runs]
    BY <1>1, <1>12 DEF MarkFails, ColTypeOK
  <2> QED BY <1>12, <2>1, <2>2 DEF MarkFails, ColTypeOK
<1> QED BY <1>3, <1>4, <1>5, <1>6, <1>7, <1>9, <1>10, <1>11, <1>12 DEF WorkStep

LEMMA ColTypes == ColTypeOK /\ ColNext => ColTypeOK'
<1> SUFFICES ASSUME ColTypeOK, ColNext PROVE ColTypeOK'
  OBVIOUS
<1>1. ASSUME NEW p \in Payments, PaymentMoves(p) \/ Notify(p)
      PROVE  ColTypeOK'
  <2>1. CASE PaymentMoves(p)
    <3>1. payment' \in [Payments -> {"young", "pending", "settled"}]
      BY <2>1 DEF PaymentMoves, ColTypeOK
    <3> QED BY <2>1, <3>1 DEF PaymentMoves, ColTypeOK
  <2>2. CASE Notify(p)
    BY <2>2 DEF Notify, ColTypeOK
  <2> QED BY <1>1, <2>1, <2>2
<1>2. ASSUME NEW j \in ExportJobs, CreateJob(j)
      PROVE  ColTypeOK'
  BY <1>2 DEF CreateJob, ColTypeOK
<1>3. ASSUME NEW w \in Workers, AskRecovery(w)
      PROVE  ColTypeOK'
  <2>1. [NoWork EXCEPT !.at = "candidates", !.payments = Scanned] \in Work
    BY Defaults DEF Work, Scanned
  <2>2. work' \in [Workers -> Work]
    BY <1>3, <2>1, AsksTypes DEF AskRecovery
  <2> QED BY <1>3, <2>2 DEF AskRecovery, ColTypeOK
<1>4. ASSUME NEW w \in Workers, NEW j \in ExportJobs, AskExport(w, j)
      PROVE  ColTypeOK'
  <2>1. [NoWork EXCEPT !.at = "take", !.job = j] \in Work
    BY Defaults DEF Work
  <2>2. work' \in [Workers -> Work]
    BY <1>4, <2>1, AsksTypes DEF AskExport
  <2> QED BY <1>4, <2>2 DEF AskExport, ColTypeOK
<1>5. ASSUME NEW w \in Workers, NEW dry \in BOOLEAN, RunCampaign(w, dry)
      PROVE  ColTypeOK'
  <2>1. PICK n \in Runs :
          /\ run' = [run EXCEPT ![n] = IF dry THEN "DRY" ELSE "SCHEDULED"]
          /\ Asks(w, IF dry THEN NoWork ELSE [NoWork EXCEPT !.at = "snapshots", !.run = n])
          /\ UNCHANGED <<payment, candidate, detected, job, summaries, executed, cut>>
    BY <1>5 DEF RunCampaign
  <2>2. [NoWork EXCEPT !.at = "snapshots", !.run = n] \in Work
    BY Defaults DEF Work
  <2>3. work' \in [Workers -> Work]
    BY <2>1, <2>2, Defaults, AsksTypes
  <2>4. run' \in [Runs -> {"none", "DRY", "SCHEDULED"}]
    BY <2>1 DEF ColTypeOK
  <2> QED BY <2>1, <2>3, <2>4 DEF ColTypeOK
<1>6. ASSUME NEW w \in Workers, Scheduled(w)
      PROVE  ColTypeOK'
  BY <1>5, <1>6 DEF Scheduled
<1>7. ASSUME NEW w \in Workers, WorkStep(w)
      PROVE  ColTypeOK'
  BY <1>7, WorkTypes
<1> QED BY <1>1, <1>2, <1>3, <1>4, <1>5, <1>6, <1>7 DEF ColNext

-----------------------------------------------------------------------------
(* Together. *)

LEMMA DirClock == ClockTypeOK /\ DirNext => ClockTypeOK' /\ day' = day
<1> SUFFICES ASSUME ClockTypeOK, DirNext PROVE ClockTypeOK' /\ day' = day
  OBVIOUS
<1>1. ASSUME NEW kind \in Kinds, Comes(kind), UNCHANGED day
      PROVE  ClockTypeOK' /\ day' = day
  BY <1>1, ComesTypes DEF ClockTypeOK
<1>2. ASSUME UNCHANGED <<day, left>>
      PROVE  ClockTypeOK' /\ day' = day
  BY <1>2 DEF ClockTypeOK
<1>3. "directory" \in Kinds
  BY DEF Kinds
<1>4. ASSUME NEW r \in DirRequests, DirRequest(r)
      PROVE  ClockTypeOK' /\ day' = day
  <2>1. ASSUME NEW new, Enters(r, new)
        PROVE  ClockTypeOK' /\ day' = day
    BY <1>1, <1>3, <2>1 DEF Enters
  <2>2. CASE \E g \in Groups : AskDetach(r, g) \/ AskDelete(r, g)
    BY <2>1, <2>2 DEF AskDetach, AskDelete
  <2>3. CASE \E g \in Groups, c \in Contacts : AskAdd(r, g, c) \/ AskRemove(r, g, c)
    BY <2>1, <2>3 DEF AskAdd, AskRemove
  <2>4. CASE \E c \in Contacts, gs \in SUBSET Groups : AskAssign(r, c, gs)
    BY <2>1, <2>4 DEF AskAssign
  <2>5. CASE \E c \in Contacts, gs \in SUBSET Groups :
               AskNew(r, c, "create", gs, {}) \/ \E ps \in SUBSET Paths : AskNew(r, c, "import", gs, ps)
    BY <2>1, <2>5 DEF AskNew
  <2>6. CASE Detach(r) \/ CountChildren(r) \/ CountMembers(r) \/ DeleteGroup(r)
    BY <1>2, <2>6 DEF Detach, CountChildren, CountMembers, DeleteGroup, Refused, Goes
  <2>7. CASE PickContact(r) \/ SaveMembers(r) \/ PickGroups(r) \/ SaveAssigned(r)
    BY <1>2, <2>7 DEF PickContact, SaveMembers, PickGroups, SaveAssigned, Refused, Goes
  <2>8. CASE NextPath(r) \/ Follow(r) \/ CreateMissing(r) \/ SaveNew(r)
    BY <1>2, <2>8 DEF NextPath, Follow, CreateMissing, SaveNew, Refused
  <2> QED BY <1>4, <2>2, <2>3, <2>4, <2>5, <2>6, <2>7, <2>8 DEF DirRequest
<1>5. ASSUME NEW g, NEW row, CreateGroup(g, row) \/ UpdateGroup(g, row)
      PROVE  ClockTypeOK' /\ day' = day
  BY <1>1, <1>3, <1>5 DEF CreateGroup, UpdateGroup
<1>6. ASSUME NEW c, NEW active, DeleteContact(c) \/ UpdateContact(c, active)
      PROVE  ClockTypeOK' /\ day' = day
  BY <1>1, <1>3, <1>6 DEF DeleteContact, UpdateContact
<1> QED BY <1>4, <1>5, <1>6 DEF DirNext

LEMMA RemClock == ClockTypeOK /\ RemNext => ClockTypeOK' /\ day' = day
<1> SUFFICES ASSUME ClockTypeOK, RemNext PROVE ClockTypeOK' /\ day' = day
  OBVIOUS
<1>1. ASSUME UNCHANGED <<day, left>>
      PROVE  ClockTypeOK' /\ day' = day
  BY <1>1 DEF ClockTypeOK
<1>2. ASSUME Comes("reminders"), UNCHANGED day
      PROVE  ClockTypeOK' /\ day' = day
  BY <1>2, ComesTypes DEF ClockTypeOK, Kinds
<1>3. ASSUME NEW r \in Runners, PassStep(r)
      PROVE  UNCHANGED <<day, left>>
  BY <1>3 DEF PassStep, Steps, ReadPolicies, ReadRecipients, FindContacts, CheckCooldown, SendMail,
              MailRefused, Record, RecordThrows, RecordFailed, RecordFailedThrows, WriteRow,
              PolicyDone, EndPass
<1>4. ASSUME NEW r \in Runners, RunNow(r)
      PROVE  ClockTypeOK' /\ day' = day
  BY <1>2, <1>4 DEF RunNow
<1> QED BY <1>1, <1>2, <1>3, <1>4 DEF RemNext, AskPolicy, SavePolicy, SavePolicyFails, DeletePolicy, Pays, Tick

LEMMA ColClock == ClockTypeOK /\ ColNext => ClockTypeOK' /\ day' = day
<1> SUFFICES ASSUME ClockTypeOK, ColNext PROVE ClockTypeOK' /\ day' = day
  OBVIOUS
<1>1. ASSUME UNCHANGED <<day, left>>
      PROVE  ClockTypeOK' /\ day' = day
  BY <1>1 DEF ClockTypeOK
<1>2. ASSUME Comes("jobs"), UNCHANGED day
      PROVE  ClockTypeOK' /\ day' = day
  BY <1>2, ComesTypes DEF ClockTypeOK, Kinds
<1>3. ASSUME NEW w \in Workers, WorkStep(w)
      PROVE  UNCHANGED <<day, left>>
  BY <1>3 DEF WorkStep, WorkGoes, SavesJob, ReadCandidates, InsertCandidates, InsertRefused, RequestFails,
              SaveDetected, DetectedLost, TakeJob, SaveSummary, MarkReady, Announced, ExportThrows,
              MarkFailed, MarkFails, ComputeSnapshots
<1>4. ASSUME NEW w \in Workers, NEW new, Asks(w, new)
      PROVE  ClockTypeOK' /\ day' = day
  BY <1>2, <1>4 DEF Asks
<1>5. ASSUME NEW w \in Workers, NEW dry, RunCampaign(w, dry)
      PROVE  ClockTypeOK' /\ day' = day
  BY <1>4, <1>5 DEF RunCampaign
<1>6. ASSUME NEW w \in Workers, AskRecovery(w) \/ Scheduled(w) \/ \E j \in ExportJobs : AskExport(w, j)
      PROVE  ClockTypeOK' /\ day' = day
  BY <1>4, <1>5, <1>6 DEF AskRecovery, Scheduled, AskExport
<1>7. ASSUME NEW p, NEW j, PaymentMoves(p) \/ Notify(p) \/ CreateJob(j)
      PROVE  ClockTypeOK' /\ day' = day
  BY <1>2, <1>7 DEF PaymentMoves, Notify, CreateJob
<1> QED BY <1>1, <1>3, <1>5, <1>6, <1>7, CollectionsAssumption DEF ColNext

LEMMA NextTypes == TypeOK /\ [Next]_vars => TypeOK' /\ day <= day'
<1> SUFFICES ASSUME TypeOK, [Next]_vars PROVE TypeOK' /\ day <= day'
  OBVIOUS
<1> USE DEF TypeOK
<1>1. day \in Nat
  BY DEF ClockTypeOK
<1>2. ASSUME UNCHANGED dirVars
      PROVE  DirTypeOK'
  BY <1>2 DEF DirTypeOK, dirVars, tables, history
<1>3. ASSUME UNCHANGED remVars
      PROVE  RemTypeOK'
  BY <1>3 DEF RemTypeOK, remVars
<1>4. ASSUME UNCHANGED colVars
      PROVE  ColTypeOK'
  BY <1>4 DEF ColTypeOK, colVars
<1>5. CASE DirNext /\ GoesWithContact /\ UNCHANGED colVars
  BY <1>1, <1>4, <1>5, DirTypes, DirClock, GoesWithContactTypes
<1>6. CASE RemNext /\ UNCHANGED <<dirVars, colVars>>
  BY <1>1, <1>2, <1>4, <1>6, RemTypes, RemClock
<1>7. CASE ColNext /\ UNCHANGED <<dirVars, remVars>>
  BY <1>1, <1>2, <1>3, <1>7, ColTypes, ColClock
<1>8. CASE NextDay /\ UNCHANGED <<dirVars, remVars, colVars>>
  <2>1. left' \in [Kinds -> Nat]
    BY <1>8, ComesTypes DEF NextDay, Kinds
  <2>2. ClockTypeOK' /\ day <= day'
    BY <1>8, <2>1, ClockAssumption DEF NextDay, ClockTypeOK
  <2> QED BY <1>2, <1>3, <1>4, <1>8, <2>2
<1>9. CASE Crash
  <2>1. ClockTypeOK' /\ day' = day
    BY <1>9, ComesTypes DEF Crash, ClockTypeOK, Kinds
  <2>2. DirTypeOK'
    BY <1>9, Defaults DEF Crash, RequestsDie, DirTypeOK, tables, history
  <2>3. RemTypeOK'
    <3>1. policy' \in [here: BOOLEAN, set: Policies, saves: SUBSET Policies]
      BY <1>9 DEF Crash, PassesDie, RemTypeOK
    <3> QED BY <1>9, <3>1, Defaults DEF Crash, PassesDie, RemTypeOK
  <2>4. ColTypeOK'
    <3>1. \A w \in Workers : work[w] \in Work /\ work[w].payments \subseteq Payments
                            /\ work[w].job \in ExportJobs /\ work[w].run \in Runs
      BY DEF ColTypeOK, Work
    <3> DEFINE lost(at) == {w \in Workers : work[w].at \in at}
               ps == cut.payments \cup UNION {work[w].payments : w \in lost({"detected"})}
               js == cut.jobs \cup {work[w].job : w \in lost({"export", "ready", "failed"})}
               rs == cut.runs \cup {work[w].run : w \in lost({"snapshots"})}
    <3>2. ps \subseteq Payments
      BY <3>1 DEF ColTypeOK
    <3>3. js \subseteq ExportJobs
      BY <3>1 DEF ColTypeOK
    <3>4. rs \subseteq Runs
      BY <3>1 DEF ColTypeOK
    <3>5. cut' = [payments |-> ps, jobs |-> js, runs |-> rs]
      BY <1>9 DEF Crash, WorkersDie
    <3>6. work' = [w \in Workers |-> NoWork] /\ UNCHANGED <<payment, candidate, detected, job, summaries, run, executed>>
      BY <1>9 DEF Crash, WorkersDie
    <3> HIDE DEF ps, js, rs
    <3>7. work' \in [Workers -> Work]
      BY <3>6, Defaults
    <3> QED BY <3>2, <3>3, <3>4, <3>5, <3>6, <3>7 DEF ColTypeOK
  <2> QED BY <1>1, <2>1, <2>2, <2>3, <2>4
<1>10. CASE UNCHANGED vars
  BY <1>1, <1>2, <1>3, <1>4, <1>10 DEF vars, ClockTypeOK
<1> QED BY <1>5, <1>6, <1>7, <1>8, <1>9, <1>10 DEF Next

\* Every variable keeps its type.
THEOREM TypeCorrect == Spec => []TypeOK
<1>1. TypeOK /\ [Next]_vars => TypeOK'
  BY NextTypes
<1> QED BY InitTypes, <1>1, PTL DEF Spec

-----------------------------------------------------------------------------
(* Memberships. *)

\* A task that holds no members; one that holds the members there are but for those
\* of the contact it is about; and one that holds what another one does.
Free(t)     == t.at = "idle" \/ t.op \notin {"add", "remove"}
Fresh(t)    == \A c \in Contacts \ {t.contact} : c \in t.set <=> <<t.group, c>> \in member
Alike(t, u) ==
    /\ t.at # "idle" /\ u.op = t.op /\ u.group = t.group /\ u.contact = t.contact
    /\ \A c \in Contacts \ {t.contact} : c \in u.set <=> c \in t.set

\* What a request holds and no one wrote meanwhile is what the table has.
CopyHolds(r) ==
    Holds(r, task[r].group) =>
        \A c \in Contacts \ {task[r].contact} :
            <<task[r].group, c>> \notin mixed =>
                (c \in task[r].set <=> <<task[r].group, c>> \in member)

MembersInv == MembershipsKept /\ \A r \in DirRequests : CopyHolds(r)

\* Steps that write no membership.
LEMMA MembersStay ==
  ASSUME TypeOK, MembersInv, UNCHANGED <<member, asked, mixed>>,
         \A q \in DirRequests : Free(task'[q]) \/ Fresh(task'[q]) \/ Alike(task[q], task'[q])
  PROVE  MembersInv'
<1>1. MembershipsKept'
  BY DEF MembersInv, MembershipsKept
<1>2. ASSUME NEW q \in DirRequests
      PROVE  CopyHolds(q)'
  <2>1. CASE Free(task'[q])
    BY <2>1 DEF Free, CopyHolds, Holds
  <2>2. CASE Fresh(task'[q])
    BY <2>2 DEF Fresh, CopyHolds
  <2>3. CASE Alike(task[q], task'[q])
    BY <2>3 DEF Alike, CopyHolds, Holds, MembersInv
  <2> QED BY <2>1, <2>2, <2>3
<1> QED BY <1>1, <1>2 DEF MembersInv

\* Steps of r that write the memberships in S; what others hold of these is mixed then.
LEMMA MembersWritten ==
  ASSUME TypeOK, MembersInv, NEW r, NEW S \in SUBSET (Groups \X Contacts),
         \A p \in (Groups \X Contacts) \ S : (p \in member' <=> p \in member) /\ (p \in asked' <=> p \in asked),
         \A p \in S \ mixed : p \in member' <=> p \in asked',
         mixed' = mixed \cup (S \cap Held(r)),
         \A q \in DirRequests : Free(task'[q]) \/ (q # r /\ Alike(task[q], task'[q]))
  PROVE  MembersInv'
<1>1. MembershipsKept'
  <2> SUFFICES ASSUME NEW p \in Groups \X Contacts, p \notin mixed'
               PROVE  p \in member' <=> p \in asked'
    BY DEF MembershipsKept
  <2> QED BY DEF MembersInv, MembershipsKept
<1>2. ASSUME NEW q \in DirRequests
      PROVE  CopyHolds(q)'
  <2>1. CASE Free(task'[q])
    BY <2>1 DEF Free, CopyHolds, Holds
  <2>2. CASE q # r /\ Alike(task[q], task'[q]) /\ ~Free(task'[q])
    <3> DEFINE g == task[q].group
    <3>1. g \in Groups /\ task'[q].group = g /\ task'[q].contact = task[q].contact
      BY <2>2 DEF TypeOK, DirTypeOK, Task, Alike
    <3>2. Holds(q, g)
      BY <2>2 DEF Alike, Free, Holds
    <3> SUFFICES ASSUME NEW c \in Contacts \ {task[q].contact}, <<g, c>> \notin mixed'
                 PROVE  c \in task'[q].set <=> <<g, c>> \in member'
      BY <3>1 DEF CopyHolds
    <3>3. <<g, c>> \in Groups \X Contacts /\ <<g, c>>[1] = g
      BY <3>1
    <3>4. <<g, c>> \in Held(r)
      BY <2>2, <3>2, <3>3 DEF Held
    <3>5. <<g, c>> \notin S /\ <<g, c>> \notin mixed
      BY <3>4
    <3>6. <<g, c>> \in member' <=> <<g, c>> \in member
      BY <3>3, <3>5
    <3>7. c \in task[q].set <=> <<g, c>> \in member
      BY <3>2, <3>5 DEF MembersInv, CopyHolds
    <3> QED BY <2>2, <3>6, <3>7 DEF Alike
  <2> QED BY <2>1, <2>2
<1> QED BY <1>1, <1>2 DEF MembersInv

LEMMA Unchanged ==
  ASSUME NEW q \in DirRequests, task'[q] = task[q]
  PROVE  Free(task'[q]) \/ Alike(task[q], task'[q])
BY DEF Free, Alike

\* What is left of the tasks when a step of r leaves it the task given.
LEMMA OwnTask ==
  ASSUME TypeOK, NEW r \in DirRequests, NEW new, task' = [task EXCEPT ![r] = new]
  PROVE  task'[r] = new /\ \A q \in DirRequests \ {r} : Free(task'[q]) \/ Alike(task[q], task'[q])
BY Unchanged DEF TypeOK, DirTypeOK

LEMMA IdleIsFree == Free(NoTask)
BY DEF Free, NoTask

LEMMA AgedTask ==
  ASSUME TypeOK, NEW r, NEW new, task' = Aged(r, new)
  PROVE  /\ \A q \in DirRequests \ {r} : Free(task'[q]) \/ Alike(task[q], task'[q])
         /\ r \in DirRequests => task'[r] = new
<1>1. ASSUME NEW q \in DirRequests \ {r}
      PROVE  Free(task'[q]) \/ Alike(task[q], task'[q])
  <2>1. CASE task[q].at # "walk"
    BY <2>1, Unchanged DEF Aged
  <2>2. CASE task[q].at = "walk"
    <3>1. task[q] \in Task
      BY DEF TypeOK, DirTypeOK
    <3>2. task'[q] = [task[q] EXCEPT !.clean = FALSE]
      BY <2>2 DEF Aged
    <3> QED BY <2>2, <3>1, <3>2 DEF Alike, Task
  <2> QED BY <2>1, <2>2
<1> QED BY <1>1 DEF Aged

LEMMA EnrollsKeeps ==
  ASSUME TypeOK, MembersInv, NEW r, NEW c \in Contacts, NEW row, NEW gs \in SUBSET Groups,
         Enrolls(r, c, row, gs),
         \A q \in DirRequests : Free(task'[q]) \/ (q # r /\ Alike(task[q], task'[q]))
  PROVE  MembersInv'
<1> DEFINE S == Groups \X {c}
<1>1. S \in SUBSET (Groups \X Contacts)
  OBVIOUS
<1>2. \A p \in (Groups \X Contacts) \ S : (p \in member' <=> p \in member) /\ (p \in asked' <=> p \in asked)
  BY DEF Enrolls
<1>3. \A p \in S \ mixed : p \in member' <=> p \in asked'
  BY DEF Enrolls
<1>4. mixed' = mixed \cup (S \cap Held(r))
  BY DEF Enrolls
<1> HIDE DEF S
<1> QED BY <1>1, <1>2, <1>3, <1>4, MembersWritten

LEMMA SaveMembersKeeps ==
  ASSUME TypeOK, MembersInv, NEW r \in DirRequests, SaveMembers(r)
  PROVE  MembersInv'
<1> DEFINE t == task[r]
           g == t.group
<1>1. g \in Groups /\ t.contact \in Contacts /\ t.set \subseteq Contacts
  BY DEF TypeOK, DirTypeOK, Task
<1>2. Holds(r, g)
  BY DEF SaveMembers, Holds
<1>3. CASE ~ValidRow(g, t.row) \/ ~\A c \in t.set : Known(c)
  <2>1. Refused(r)
    BY <1>3 DEF SaveMembers
  <2>2. UNCHANGED <<member, asked, mixed>> /\ task' = [task EXCEPT ![r] = NoTask]
    BY <2>1 DEF Refused, tables, history
  <2> QED BY <2>2, OwnTask, IdleIsFree, MembersStay
<1>4. CASE ~(~ValidRow(g, t.row) \/ ~\A c \in t.set : Known(c))
  <2> DEFINE S == {g} \X Contacts
  <2>1. /\ member' = (member \ S) \cup ({g} \X t.set)
        /\ asked' = (asked \ {<<g, t.contact>>}) \cup ({g} \X (t.set \cap {t.contact}))
        /\ mixed' = mixed \cup (S \cap Held(r))
    BY <1>4 DEF SaveMembers
  <2>2. S \in SUBSET (Groups \X Contacts)
    BY <1>1
  <2>3. \A p \in (Groups \X Contacts) \ S : (p \in member' <=> p \in member) /\ (p \in asked' <=> p \in asked)
    BY <1>1, <2>1
  <2>4. ASSUME NEW p \in S, p \notin mixed
        PROVE  p \in member' <=> p \in asked'
    <3>1. PICK c \in Contacts : p = <<g, c>>
      OBVIOUS
    <3>2. p \in member' <=> c \in t.set
      BY <2>1, <3>1
    <3>3. CASE c = t.contact
      BY <2>1, <3>1, <3>2, <3>3
    <3>4. CASE c # t.contact
      <4>1. c \in t.set <=> p \in member
        BY <1>2, <2>4, <3>1, <3>4 DEF MembersInv, CopyHolds
      <4>2. p \in member <=> p \in asked
        BY <1>1, <2>4, <3>1 DEF MembersInv, MembershipsKept
      <4>3. p \in asked' <=> p \in asked
        BY <2>1, <3>1, <3>4
      <4> QED BY <3>2, <4>1, <4>2, <4>3
    <3> QED BY <3>3, <3>4
  <2>5. \A q \in DirRequests : Free(task'[q]) \/ (q # r /\ Alike(task[q], task'[q]))
    <3>1. task' = [task EXCEPT ![r] = NoTask] \/ task' = Aged(r, NoTask)
      BY <1>4 DEF SaveMembers
    <3> QED BY <3>1, OwnTask, AgedTask, IdleIsFree
  <2> HIDE DEF S
  <2>6. \A p \in S \ mixed : p \in member' <=> p \in asked'
    BY <2>4
  <2>7. mixed' = mixed \cup (S \cap Held(r))
    BY <2>1
  <2> QED BY <2>2, <2>3, <2>5, <2>6, <2>7, MembersWritten
<1> QED BY <1>3, <1>4

LEMMA EntersKeeps ==
  ASSUME TypeOK, MembersInv, NEW r \in DirRequests, NEW new, Enters(r, new),
         Free(new) \/ Fresh(new)
  PROVE  MembersInv'
<1>1. UNCHANGED <<member, asked, mixed>> /\ task' = [task EXCEPT ![r] = new]
  BY DEF Enters, tables, history
<1> QED BY <1>1, OwnTask, MembersStay

LEMMA RefusedKeeps ==
  ASSUME TypeOK, MembersInv, NEW r \in DirRequests, Refused(r)
  PROVE  MembersInv'
<1>1. UNCHANGED <<member, asked, mixed>> /\ task' = [task EXCEPT ![r] = NoTask]
  BY DEF Refused, tables, history
<1> QED BY <1>1, OwnTask, IdleIsFree, MembersStay

LEMMA GoesKeeps ==
  ASSUME TypeOK, MembersInv, NEW r \in DirRequests, NEW at, Goes(r, at), task[r].at # "idle"
  PROVE  MembersInv'
<1>1. UNCHANGED <<member, asked, mixed>> /\ task' = [task EXCEPT ![r] = [task[r] EXCEPT !.at = at]]
  BY DEF Goes, tables, history
<1>2. Alike(task[r], [task[r] EXCEPT !.at = at])
  <2>1. task[r] \in Task
    BY DEF TypeOK, DirTypeOK
  <2> QED BY <2>1 DEF Alike, Task
<1> QED BY <1>1, <1>2, OwnTask, MembersStay

LEMMA AskKeeps ==
  ASSUME TypeOK, MembersInv, NEW r \in DirRequests, NEW g \in Groups, NEW c \in Contacts,
         AskDetach(r, g) \/ AskDelete(r, g) \/ AskAdd(r, g, c) \/ AskRemove(r, g, c)
  PROVE  MembersInv'
<1>1. CASE AskDetach(r, g)
  <2>1. Free([NoTask EXCEPT !.op = "detach", !.at = "detach", !.group = g])
    BY DEF Free, NoTask
  <2> QED BY <1>1, <2>1, EntersKeeps DEF AskDetach
<1>2. CASE AskDelete(r, g)
  <2>1. Free([NoTask EXCEPT !.op = "delete", !.at = "children", !.group = g])
    BY DEF Free, NoTask
  <2> QED BY <1>2, <2>1, EntersKeeps DEF AskDelete
<1>3. CASE AskAdd(r, g, c)
  <2>1. Fresh([NoTask EXCEPT !.op = "add", !.at = "pick", !.group = g, !.row = group[g],
                             !.set = Members(g), !.contact = c])
    BY DEF Fresh, NoTask, Members
  <2> QED BY <1>3, <2>1, EntersKeeps DEF AskAdd
<1>4. CASE AskRemove(r, g, c)
  <2>1. Fresh([NoTask EXCEPT !.op = "remove", !.at = "save", !.group = g, !.row = group[g],
                             !.set = Members(g) \ {c}, !.contact = c])
    BY DEF Fresh, NoTask, Members
  <2> QED BY <1>4, <2>1, EntersKeeps DEF AskRemove
<1> QED BY <1>1, <1>2, <1>3, <1>4

LEMMA AskContactKeeps ==
  ASSUME TypeOK, MembersInv, NEW r \in DirRequests, NEW c \in Contacts, NEW gs \in SUBSET Groups,
         NEW ps \in SUBSET Paths, NEW op \in {"create", "import"},
         AskAssign(r, c, gs) \/ AskNew(r, c, op, gs, ps)
  PROVE  MembersInv'
<1>1. CASE AskAssign(r, c, gs)
  <2>1. Free([NoTask EXCEPT !.op = "assign", !.at = IF gs = {} THEN "save" ELSE "pick",
                            !.contact = c, !.copy = contact[c], !.chosen = gs])
    BY DEF Free, NoTask
  <2> QED BY <1>1, <2>1, EntersKeeps DEF AskAssign
<1>2. CASE AskNew(r, c, op, gs, ps)
  <2>1. Free([NoTask EXCEPT !.op = op, !.at = IF op = "create" THEN "save" ELSE "walk",
                            !.contact = c, !.given = gs, !.chosen = gs,
                            !.paths = ps, !.todo = ps, !.snap = group])
    BY DEF Free, NoTask
  <2> QED BY <1>2, <2>1, EntersKeeps DEF AskNew
<1> QED BY <1>1, <1>2

\* The writes of groups, by r or by a request that is a single statement.
LEMMA GroupWriteKeeps ==
  ASSUME TypeOK, MembersInv,
         \/ \E g, row : CreateGroup(g, row) \/ UpdateGroup(g, row)
         \/ \E r \in DirRequests : Detach(r) \/ DeleteGroup(r)
  PROVE  MembersInv'
<1>1. ASSUME NEW r, task' = Aged(r, NoTask), UNCHANGED <<member, asked, mixed>>,
             r = 0 \/ r \in DirRequests
      PROVE  MembersInv'
  <2>1. 0 \notin DirRequests
    BY DirectoryAssumption DEF NoGroup
  <2>2. \A q \in DirRequests : Free(task'[q]) \/ Alike(task[q], task'[q])
    BY <1>1, <2>1, AgedTask, IdleIsFree
  <2> QED BY <1>1, <2>2, MembersStay
<1>2. ASSUME NEW g, NEW row, CreateGroup(g, row) \/ UpdateGroup(g, row)
      PROVE  MembersInv'
  BY <1>1, <1>2 DEF CreateGroup, UpdateGroup
<1>3. ASSUME NEW r \in DirRequests, Detach(r)
      PROVE  MembersInv'
  BY <1>1, <1>3 DEF Detach, history
<1>4. ASSUME NEW r \in DirRequests, DeleteGroup(r)
      PROVE  MembersInv'
  <2>1. CASE Members(task[r].group) # {}
    BY <1>4, <2>1, RefusedKeeps DEF DeleteGroup
  <2>2. CASE Members(task[r].group) = {}
    BY <1>1, <1>4, <2>2 DEF DeleteGroup
  <2> QED BY <2>1, <2>2
<1> QED BY <1>2, <1>3, <1>4

LEMMA ContactWriteKeeps ==
  ASSUME TypeOK, MembersInv, NEW c \in Contacts, NEW active \in BOOLEAN,
         UpdateContact(c, active) \/ DeleteContact(c)
  PROVE  MembersInv'
<1>1. \A q \in DirRequests : Free(task'[q]) \/ Alike(task[q], task'[q])
  BY Unchanged DEF UpdateContact, DeleteContact
<1>2. CASE UpdateContact(c, active)
  BY <1>1, <1>2, MembersStay DEF UpdateContact, history
<1>3. CASE DeleteContact(c)
  <2>1. Enrolls(NoGroup, c, [here |-> FALSE, active |-> FALSE], {})
    BY <1>3 DEF DeleteContact
  <2>2. NoGroup \notin DirRequests
    BY DirectoryAssumption
  <2> QED BY <1>1, <2>1, <2>2, EnrollsKeeps
<1> QED BY <1>2, <1>3

LEMMA SaveContactKeeps ==
  ASSUME TypeOK, MembersInv, NEW r \in DirRequests, SaveAssigned(r) \/ SaveNew(r)
  PROVE  MembersInv'
<1> DEFINE t == task[r]
<1>1. t.contact \in Contacts /\ t.chosen \in SUBSET Groups
  BY DEF TypeOK, DirTypeOK, Task
<1>2. CASE Refused(r)
  BY <1>2, RefusedKeeps
<1>3. ASSUME NEW row, Enrolls(r, t.contact, row, t.chosen), task' = [task EXCEPT ![r] = NoTask]
      PROVE  MembersInv'
  <2>1. \A q \in DirRequests : Free(task'[q]) \/ (q # r /\ Alike(task[q], task'[q]))
    BY <1>3, OwnTask, IdleIsFree
  <2> QED BY <1>1, <1>3, <2>1, EnrollsKeeps
<1> QED BY <1>2, <1>3 DEF SaveAssigned, SaveNew

\* The steps of a request that write no membership, and at most a group it is missing.
LEMMA ReadKeeps ==
  ASSUME TypeOK, MembersInv, NEW r \in DirRequests,
         \/ CountChildren(r) \/ CountMembers(r) \/ PickContact(r) \/ PickGroups(r)
         \/ NextPath(r) \/ Follow(r) \/ CreateMissing(r)
  PROVE  MembersInv'
<1> DEFINE t == task[r]
<1>1. t \in Task
  BY DEF TypeOK, DirTypeOK
<1>2. CASE CountChildren(r) \/ CountMembers(r) \/ PickGroups(r)
  BY <1>2, RefusedKeeps, GoesKeeps DEF CountChildren, CountMembers, PickGroups
<1>3. CASE PickContact(r)
  <2> DEFINE new == [t EXCEPT !.at = "save", !.set = IF Known(t.contact) THEN WithNew(@, t.contact) ELSE @]
  <2>1. task' = [task EXCEPT ![r] = new] /\ UNCHANGED <<member, asked, mixed>>
    BY <1>3 DEF PickContact, tables, history
  <2>2. Alike(t, new)
    BY <1>1, <1>3 DEF PickContact, Alike, WithNew, Task
  <2> HIDE DEF new
  <2> QED BY <2>1, <2>2, OwnTask, MembersStay
<1>4. CASE NextPath(r)
  <2>1. PICK p \in t.todo :
          task' = [task EXCEPT ![r] = [t EXCEPT !.todo = @ \ {p}, !.rest = p, !.below = NoGroup]]
    BY <1>4 DEF NextPath
  <2>2. Alike(t, [t EXCEPT !.todo = @ \ {p}, !.rest = p, !.below = NoGroup])
    BY <1>1, <1>4 DEF NextPath, Alike, Task
  <2>3. UNCHANGED <<member, asked, mixed>>
    BY <1>4 DEF NextPath, tables, history
  <2> QED BY <2>1, <2>2, <2>3, OwnTask, MembersStay
<1>5. CASE Follow(r)
  <2>1. PICK g \in Found(t) : task' = [task EXCEPT ![r] = Down(t, g)]
    BY <1>5 DEF Follow
  <2>2. Alike(t, Down(t, g))
    BY <1>1, <1>5 DEF Follow, Alike, Down, Task
  <2>3. UNCHANGED <<member, asked, mixed>>
    BY <1>5 DEF Follow, tables, history
  <2> QED BY <2>1, <2>2, <2>3, OwnTask, MembersStay
<1>6. CASE CreateMissing(r)
  <2> DEFINE n == made.groups + 1
             row == [here |-> TRUE, name |-> Head(t.rest), parent |-> t.below]
             s == [t EXCEPT !.snap[n] = row]
  <2>1. CASE ~ValidRow(n, row)
    BY <1>6, <2>1, RefusedKeeps DEF CreateMissing
  <2>2. CASE ValidRow(n, row)
    <3>1. task' = Aged(r, Down(s, n)) /\ UNCHANGED <<member, asked, mixed>> /\ t.at = "walk"
      BY <1>6, <2>2 DEF CreateMissing
    <3>2. /\ s.at = t.at /\ s.op = t.op /\ s.group = t.group /\ s.contact = t.contact /\ s.set = t.set
          /\ Down(s, n).op = s.op /\ Down(s, n).group = s.group
          /\ Down(s, n).contact = s.contact /\ Down(s, n).set = s.set
      BY <1>1 DEF Task, Down
    <3> HIDE DEF s, n, row
    <3>3. Alike(t, Down(s, n))
      BY <3>1, <3>2 DEF Alike
    <3> QED BY <3>1, <3>3, AgedTask, MembersStay
  <2> QED BY <2>1, <2>2
<1> QED BY <1>2, <1>3, <1>4, <1>5, <1>6

LEMMA DirKeepsMembers == TypeOK /\ MembersInv /\ DirNext => MembersInv'
<1> SUFFICES ASSUME TypeOK, MembersInv, DirNext PROVE MembersInv'
  OBVIOUS
<1>1. ASSUME NEW r \in DirRequests, DirRequest(r)
      PROVE  MembersInv'
  <2>1. ASSUME NEW g \in Groups, AskDetach(r, g) \/ AskDelete(r, g)
        PROVE  MembersInv'
    <3>1. PICK c \in Contacts : TRUE
      BY DirectoryAssumption
    <3> QED BY <2>1, <3>1, AskKeeps
  <2>2. ASSUME NEW g \in Groups, NEW c \in Contacts, AskAdd(r, g, c) \/ AskRemove(r, g, c)
        PROVE  MembersInv'
    BY <2>2, AskKeeps
  <2>3. ASSUME NEW c \in Contacts, NEW gs \in SUBSET Groups, AskAssign(r, c, gs)
        PROVE  MembersInv'
    BY <2>3, AskContactKeeps
  <2>4. ASSUME NEW c \in Contacts, NEW gs \in SUBSET Groups, AskNew(r, c, "create", gs, {})
        PROVE  MembersInv'
    BY <2>4, AskContactKeeps
  <2>5. ASSUME NEW c \in Contacts, NEW gs \in SUBSET Groups, NEW ps \in SUBSET Paths,
               AskNew(r, c, "import", gs, ps)
        PROVE  MembersInv'
    BY <2>5, AskContactKeeps
  <2>6. CASE CountChildren(r) \/ CountMembers(r) \/ PickContact(r) \/ PickGroups(r)
             \/ NextPath(r) \/ Follow(r) \/ CreateMissing(r)
    BY <2>6, ReadKeeps
  <2>7. CASE Detach(r) \/ DeleteGroup(r) \/ SaveMembers(r) \/ SaveAssigned(r) \/ SaveNew(r)
    BY <2>7, GroupWriteKeeps, SaveMembersKeeps, SaveContactKeeps
  <2> QED BY <1>1, <2>1, <2>2, <2>3, <2>4, <2>5, <2>6, <2>7 DEF DirRequest
<1>2. ASSUME NEW g \in Groups, NEW row, CreateGroup(g, row) \/ UpdateGroup(g, row)
      PROVE  MembersInv'
  BY <1>2, GroupWriteKeeps
<1>3. ASSUME NEW c \in Contacts, DeleteContact(c) \/ \E active \in BOOLEAN : UpdateContact(c, active)
      PROVE  MembersInv'
  BY <1>3, ContactWriteKeeps
<1> QED BY <1>1, <1>2, <1>3 DEF DirNext

\* Whatever requests overlap: a membership is as the last request about it wants it,
\* unless a request wrote it while another one held the members of the group.
THEOREM MembersAsAsked == Spec => []MembershipsKept
<1>1. Init => MembersInv
  <2> SUFFICES ASSUME Init PROVE MembersInv
    OBVIOUS
  <2>1. asked = member /\ \A r \in DirRequests : task[r] = NoTask
    BY DEF Init, DirInit
  <2>2. MembershipsKept
    BY <2>1 DEF MembershipsKept
  <2>3. ASSUME NEW r \in DirRequests
        PROVE  CopyHolds(r)
    <3>1. NoTask.at = "idle"
      BY DEF NoTask
    <3>2. task[r].at = "idle"
      BY <2>1, <3>1
    <3> QED BY <3>2 DEF CopyHolds, Holds
  <2> QED BY <2>2, <2>3 DEF MembersInv
<1>2. TypeOK /\ MembersInv /\ [Next]_vars => MembersInv'
  <2> SUFFICES ASSUME TypeOK, MembersInv, [Next]_vars PROVE MembersInv'
    OBVIOUS
  <2>1. CASE UNCHANGED dirVars
    <3>1. UNCHANGED <<member, asked, mixed, task>>
      BY <2>1 DEF dirVars, tables, history
    <3> QED BY <3>1, Unchanged, MembersStay
  <2>2. CASE Crash
    <3>1. UNCHANGED <<member, asked, mixed>> /\ task' = [r \in DirRequests |-> NoTask]
      BY <2>2 DEF Crash, RequestsDie, tables, history
    <3> QED BY <3>1, IdleIsFree, MembersStay
  <2>3. CASE DirNext
    BY <2>3, DirKeepsMembers
  <2> QED BY <2>1, <2>2, <2>3 DEF Next, vars
<1>3. MembersInv => MembershipsKept
  BY DEF MembersInv
<1> QED BY TypeCorrect, <1>1, <1>2, <1>3, PTL DEF Spec

-----------------------------------------------------------------------------
(* Subgroups of deleted groups. *)

Counting == {"children", "members", "delete"}

\* What a deletion did not count came below its group after it had counted.
Sound(t) ==
    /\ t.at \in Counting => t.op = "delete"
    /\ t.at \in {"members", "delete"} => \A h \in Below(t.group) : <<h, t.group>> \in late

SameStage(t, u) == u.op = t.op /\ u.at = t.at /\ u.group = t.group

OrphansInv == OnlyLateOrphans /\ \A r \in DirRequests : Sound(task[r])

\* A step puts no group below another one; it leaves every task sound.
NoneAttached ==
    \A h \in Groups : group'[h].here /\ group'[h].parent # NoGroup =>
                         group[h].here /\ group'[h].parent = group[h].parent
Passed(q) == task'[q].at \notin Counting \/ SameStage(task[q], task'[q])
Staged(q) ==
    \/ task'[q].at \notin Counting
    \/ SameStage(task[q], task'[q])
    \/ task'[q].group \in Groups /\ Sound(task'[q])

\* Steps that do not put a group below another one.
LEMMA OrphansStay ==
  ASSUME TypeOK, OrphansInv, UNCHANGED late, orphaned' \subseteq late,
         NoneAttached, \A q \in DirRequests : Staged(q)
  PROVE  OrphansInv'
<1>1. OnlyLateOrphans'
  BY DEF OnlyLateOrphans
<1>2. ASSUME NEW g \in Groups, NEW h \in Groups, group'[h].here, group'[h].parent = g
      PROVE  h \in Below(g)
  <2>1. g # NoGroup
    BY DEF Groups, NoGroup
  <2> QED BY <1>2, <2>1 DEF NoneAttached, Below, Here
<1>3. ASSUME NEW q \in DirRequests
      PROVE  Sound(task[q])'
  <2>1. CASE task'[q].at \notin Counting
    BY <2>1 DEF Sound, Counting
  <2>2. CASE SameStage(task[q], task'[q])
    <3>1. task[q].group \in Groups /\ Sound(task[q])
      BY DEF TypeOK, DirTypeOK, Task, OrphansInv
    <3> QED BY <1>2, <2>2, <3>1 DEF Sound, SameStage, Below, Here
  <2>3. CASE task'[q].group \in Groups /\ Sound(task'[q])
    BY <1>2, <2>3 DEF Sound, Below, Here
  <2> QED BY <2>1, <2>2, <2>3 DEF Staged
<1> QED BY <1>1, <1>3 DEF OrphansInv

LEMMA NoGroupWritten == UNCHANGED group => NoneAttached
BY DEF NoneAttached

LEMMA SameIsStaged ==
  ASSUME NEW q, UNCHANGED task
  PROVE  Staged(q)
BY DEF Staged, SameStage

\* Writes that may put the group g below another one.
LEMMA OrphansAttached ==
  ASSUME TypeOK, OrphansInv, NEW g \in Groups, NEW row,
         group' = [group EXCEPT ![g] = row], Attached(g, row), UNCHANGED orphaned,
         \A q \in DirRequests : Passed(q)
  PROVE  OrphansInv'
<1>1. late \subseteq late'
  BY DEF Attached
<1>2. OnlyLateOrphans'
  BY <1>1 DEF OrphansInv, OnlyLateOrphans
<1>3. ASSUME NEW q \in DirRequests
      PROVE  Sound(task[q])'
  <2>1. CASE task'[q].at \notin Counting
    BY <2>1 DEF Sound, Counting
  <2>2. CASE task'[q].at \in Counting /\ SameStage(task[q], task'[q])
    <3> DEFINE G == task[q].group
    <3>1. Sound(task[q]) /\ task[q].op = "delete" /\ task'[q].op = "delete"
      BY <2>2 DEF OrphansInv, Sound, SameStage
    <3>2. ASSUME NEW h \in Groups, group'[h].here, group'[h].parent = G, task[q].at \in {"members", "delete"}
          PROVE  <<h, G>> \in late'
      <4>1. CASE Here(h) /\ group[h].parent = G
        BY <1>1, <3>1, <3>2, <4>1 DEF Sound, Below
      <4>2. CASE ~(Here(h) /\ group[h].parent = G)
        <5>1. h = g /\ row.parent = G
          BY <3>2, <4>2 DEF TypeOK, DirTypeOK, Here
        <5> QED BY <3>1, <3>2, <4>2, <5>1 DEF Attached
      <4> QED BY <4>1, <4>2
    <3> QED BY <2>2, <3>1, <3>2 DEF Sound, SameStage, Below, Here
  <2> QED BY <2>1, <2>2 DEF Passed
<1> QED BY <1>2, <1>3 DEF OrphansInv

LEMMA SameTask ==
  ASSUME TypeOK, NEW r, NEW new,
         task' = Aged(r, new) \/ task' = [task EXCEPT ![r] = new]
  PROVE  /\ \A q \in DirRequests \ {r} : SameStage(task[q], task'[q])
         /\ r \in DirRequests => task'[r] = new
<1>1. ASSUME NEW q \in DirRequests \ {r}
      PROVE  SameStage(task[q], task'[q])
  <2>1. task[q] \in Task /\ task'[q] \in {task[q], [task[q] EXCEPT !.clean = FALSE]}
    BY DEF TypeOK, DirTypeOK, Aged
  <2> QED BY <2>1 DEF SameStage, Task
<1> QED BY <1>1 DEF Aged, TypeOK, DirTypeOK

LEMMA EndIsPassed ==
  ASSUME TypeOK, NEW r \in DirRequests,
         task' = Aged(r, NoTask) \/ task' = [task EXCEPT ![r] = NoTask]
  PROVE  \A q \in DirRequests : Passed(q) /\ Staged(q)
<1>1. NoTask.at \notin Counting
  BY DEF NoTask, Counting
<1>2. task'[r] = NoTask /\ \A q \in DirRequests \ {r} : SameStage(task[q], task'[q])
  BY SameTask
<1> QED BY <1>1, <1>2 DEF Passed, Staged

LEMMA OrphansTask ==
  ASSUME TypeOK, OrphansInv, NEW r \in DirRequests, NEW new, task' = [task EXCEPT ![r] = new],
         UNCHANGED <<group, late, orphaned>>,
         \/ new.at \notin Counting
         \/ SameStage(task[r], new)
         \/ new.group \in Groups /\ Sound(new)
  PROVE  OrphansInv'
<1>1. task'[r] = new /\ \A q \in DirRequests \ {r} : SameStage(task[q], task'[q])
  BY SameTask
<1>3. \A q \in DirRequests : Staged(q)
  BY <1>1 DEF Staged
<1>2. orphaned' \subseteq late
  BY DEF OrphansInv, OnlyLateOrphans
<1> QED BY <1>2, <1>3, NoGroupWritten, OrphansStay

LEMMA OrphansAsk ==
  ASSUME TypeOK, OrphansInv, NEW r \in DirRequests, NEW new, Enters(r, new),
         new.at \notin {"members", "delete"}, new.at \in Counting => new.op = "delete" /\ new.group \in Groups
  PROVE  OrphansInv'
<1>1. new.at \in Counting => Sound(new)
  BY DEF Sound
<1>2. UNCHANGED <<group, late, orphaned>> /\ task' = [task EXCEPT ![r] = new]
  BY DEF Enters, tables, history
<1> QED BY <1>1, <1>2, OrphansTask

LEMMA OrphansRefused ==
  ASSUME TypeOK, OrphansInv, NEW r \in DirRequests, Refused(r)
  PROVE  OrphansInv'
<1>1. UNCHANGED <<group, late, orphaned>> /\ task' = [task EXCEPT ![r] = NoTask]
  BY DEF Refused, tables, history
<1>2. NoTask.at \notin Counting
  BY DEF NoTask, Counting
<1> QED BY <1>1, <1>2, OrphansTask

LEMMA OrphansGoes ==
  ASSUME TypeOK, OrphansInv, NEW r \in DirRequests, NEW at, Goes(r, at),
         at \in Counting =>
            /\ task[r].at \in Counting
            /\ task[r].at \in {"members", "delete"} \/ Below(task[r].group) = {}
  PROVE  OrphansInv'
<1> DEFINE new == [task[r] EXCEPT !.at = at]
<1>1. UNCHANGED <<group, late, orphaned>> /\ task' = [task EXCEPT ![r] = new]
  BY DEF Goes, tables, history
<1>2. new.at = at /\ new.op = task[r].op /\ new.group = task[r].group /\ new.group \in Groups
  BY DEF TypeOK, DirTypeOK, Task
<1>3. at \in Counting => Sound(new)
  BY <1>2 DEF OrphansInv, Sound
<1> HIDE DEF new
<1> QED BY <1>1, <1>2, <1>3, OrphansTask

LEMMA AsksKeepOrphans ==
  ASSUME TypeOK, OrphansInv, NEW r \in DirRequests, NEW g \in Groups, NEW c \in Contacts,
         AskDetach(r, g) \/ AskDelete(r, g) \/ AskAdd(r, g, c) \/ AskRemove(r, g, c)
  PROVE  OrphansInv'
<1> USE DEF Counting
<1>1. CASE AskDetach(r, g)
  BY <1>1, OrphansAsk DEF AskDetach, NoTask
<1>2. CASE AskDelete(r, g)
  BY <1>2, OrphansAsk DEF AskDelete, NoTask
<1>3. CASE AskAdd(r, g, c)
  BY <1>3, OrphansAsk DEF AskAdd, NoTask
<1>4. CASE AskRemove(r, g, c)
  BY <1>4, OrphansAsk DEF AskRemove, NoTask
<1> QED BY <1>1, <1>2, <1>3, <1>4

LEMMA ContactAsksKeepOrphans ==
  ASSUME TypeOK, OrphansInv, NEW r \in DirRequests, NEW c \in Contacts, NEW gs \in SUBSET Groups,
         NEW ps \in SUBSET Paths, NEW op \in {"create", "import"},
         AskAssign(r, c, gs) \/ AskNew(r, c, op, gs, ps)
  PROVE  OrphansInv'
<1> USE DEF Counting
<1>1. CASE AskAssign(r, c, gs)
  <2> DEFINE new == [NoTask EXCEPT !.op = "assign", !.at = IF gs = {} THEN "save" ELSE "pick",
                                   !.contact = c, !.copy = contact[c], !.chosen = gs]
  <2>1. new.at \in {"save", "pick"}
    BY DEF NoTask
  <2>2. Enters(r, new)
    BY <1>1 DEF AskAssign
  <2> HIDE DEF new
  <2> QED BY <2>1, <2>2, OrphansAsk
<1>2. CASE AskNew(r, c, op, gs, ps)
  <2> DEFINE new == [NoTask EXCEPT !.op = op, !.at = IF op = "create" THEN "save" ELSE "walk",
                                   !.contact = c, !.given = gs, !.chosen = gs,
                                   !.paths = ps, !.todo = ps, !.snap = group]
  <2>1. new.at \in {"save", "walk"}
    BY DEF NoTask
  <2>2. Enters(r, new)
    BY <1>2 DEF AskNew
  <2> HIDE DEF new
  <2> QED BY <2>1, <2>2, OrphansAsk
<1> QED BY <1>1, <1>2

\* The writes of groups.
LEMMA GroupWritesKeepOrphans ==
  ASSUME TypeOK, OrphansInv, NEW g \in Groups, NEW row, CreateGroup(g, row) \/ UpdateGroup(g, row)
  PROVE  OrphansInv'
<1>1. group' = [group EXCEPT ![g] = row] /\ Attached(g, row) /\ UNCHANGED orphaned /\ task' = Aged(0, NoTask)
  BY DEF CreateGroup, UpdateGroup
<1>2. 0 \notin DirRequests
  BY DirectoryAssumption DEF NoGroup
<1>3. \A q \in DirRequests : Passed(q)
  BY <1>1, <1>2, SameTask DEF Passed
<1> QED BY <1>1, <1>3, OrphansAttached

LEMMA DetachKeepsOrphans ==
  ASSUME TypeOK, OrphansInv, NEW r \in DirRequests, Detach(r)
  PROVE  OrphansInv'
<1>1. task' = Aged(r, NoTask) /\ UNCHANGED late /\ UNCHANGED orphaned
  BY DEF Detach, history
<1>2. \A q \in DirRequests : Staged(q)
  BY <1>1, EndIsPassed
<1>3. NoneAttached
  <2>1. \A h \in Groups : group[h] \in GroupRow
    BY DEF TypeOK, DirTypeOK
  <2>2. group \in [Groups -> GroupRow]
    BY DEF TypeOK, DirTypeOK
  <2> QED BY <2>1, <2>2 DEF Detach, GroupRow, NoneAttached
<1>4. orphaned' \subseteq late
  BY <1>1 DEF OrphansInv, OnlyLateOrphans
<1> QED BY <1>1, <1>2, <1>3, <1>4, OrphansStay

LEMMA DeleteKeepsOrphans ==
  ASSUME TypeOK, OrphansInv, NEW r \in DirRequests, DeleteGroup(r)
  PROVE  OrphansInv'
<1> DEFINE g == task[r].group
<1>1. g \in Groups /\ \A h \in Groups : group[h] \in GroupRow
  BY DEF TypeOK, DirTypeOK, Task
<1>2. CASE Members(g) # {}
  BY <1>2, OrphansRefused DEF DeleteGroup
<1>3. CASE Members(g) = {}
  <2>1. /\ group' = [h \in Groups |-> IF h = g THEN NoRow
                                      ELSE IF h \in Below(g) THEN [group[h] EXCEPT !.parent = NoGroup]
                                      ELSE group[h]]
        /\ orphaned' = orphaned \cup ((Below(g) \ {g}) \X {g})
        /\ task' = Aged(r, NoTask) /\ UNCHANGED late
    BY <1>3 DEF DeleteGroup
  <2>2. \A q \in DirRequests : Staged(q)
    BY <2>1, EndIsPassed
  <2>3. NoneAttached
    BY <1>1, <2>1 DEF NoRow, GroupRow, NoneAttached
  <2>4. \A h \in Below(g) : <<h, g>> \in late
    BY DEF OrphansInv, Sound, DeleteGroup
  <2>5. orphaned' \subseteq late
    BY <2>1, <2>4 DEF OrphansInv, OnlyLateOrphans
  <2> QED BY <2>1, <2>2, <2>3, <2>5, OrphansStay
<1> QED BY <1>2, <1>3

LEMMA SaveMembersKeepsOrphans ==
  ASSUME TypeOK, OrphansInv, NEW r \in DirRequests, SaveMembers(r)
  PROVE  OrphansInv'
<1> DEFINE t == task[r]
           g == t.group
<1>1. g \in Groups
  BY DEF TypeOK, DirTypeOK, Task
<1>2. CASE ~ValidRow(g, t.row) \/ ~\A c \in t.set : Known(c)
  BY <1>2, OrphansRefused DEF SaveMembers
<1>3. CASE ~(~ValidRow(g, t.row) \/ ~\A c \in t.set : Known(c))
  <2>1. /\ group' = [group EXCEPT ![g] = t.row] /\ Attached(g, t.row) /\ UNCHANGED orphaned
        /\ task' = Aged(r, NoTask) \/ task' = [task EXCEPT ![r] = NoTask]
    BY <1>3 DEF SaveMembers
  <2>2. \A q \in DirRequests : Passed(q)
    BY <2>1, EndIsPassed
  <2> QED BY <1>1, <2>1, <2>2, OrphansAttached
<1> QED BY <1>2, <1>3

LEMMA CreateMissingKeepsOrphans ==
  ASSUME TypeOK, OrphansInv, NEW r \in DirRequests, CreateMissing(r)
  PROVE  OrphansInv'
<1> DEFINE t == task[r]
           n == made.groups + 1
           row == [here |-> TRUE, name |-> Head(t.rest), parent |-> t.below]
           s == [t EXCEPT !.snap[n] = row]
<1>1. t \in Task /\ n \in Groups /\ t.at = "walk"
  BY DEF TypeOK, DirTypeOK, CreateMissing
<1>2. CASE ~ValidRow(n, row)
  BY <1>2, OrphansRefused DEF CreateMissing
<1>3. CASE ValidRow(n, row)
  <2>1. /\ group' = [group EXCEPT ![n] = row] /\ Attached(n, row) /\ UNCHANGED orphaned
        /\ task' = Aged(r, Down(s, n))
    BY <1>3 DEF CreateMissing
  <2>2. s.at = t.at /\ Down(s, n).at = s.at
    BY <1>1 DEF Task, Down
  <2> HIDE DEF s, row
  <2>3. \A q \in DirRequests : Passed(q)
    BY <1>1, <2>1, <2>2, SameTask DEF Counting, Passed
  <2> QED BY <1>1, <2>1, <2>3, OrphansAttached
<1> QED BY <1>2, <1>3

LEMMA ContactsKeepOrphans ==
  ASSUME TypeOK, OrphansInv,
         \/ \E c \in Contacts : DeleteContact(c) \/ \E active \in BOOLEAN : UpdateContact(c, active)
         \/ \E r \in DirRequests : SaveAssigned(r) \/ SaveNew(r)
  PROVE  OrphansInv'
<1>1. CASE \E c \in Contacts : DeleteContact(c) \/ \E active \in BOOLEAN : UpdateContact(c, active)
  <2>1. UNCHANGED <<group, task, orphaned, late>>
    BY <1>1 DEF DeleteContact, UpdateContact, history
  <2>2. orphaned' \subseteq late
    BY <2>1 DEF OrphansInv, OnlyLateOrphans
  <2>3. UNCHANGED task /\ UNCHANGED late /\ UNCHANGED group
    BY <2>1
  <2> QED BY <2>2, <2>3, NoGroupWritten, SameIsStaged, OrphansStay
<1>2. ASSUME NEW r \in DirRequests, SaveAssigned(r) \/ SaveNew(r)
      PROVE  OrphansInv'
  <2>1. Refused(r) \/ (task' = [task EXCEPT ![r] = NoTask] /\ UNCHANGED <<group, orphaned, late>>)
    BY <1>2 DEF SaveAssigned, SaveNew
  <2>2. NoTask.at \notin Counting
    BY DEF NoTask, Counting
  <2> QED BY <2>1, <2>2, OrphansRefused, OrphansTask
<1> QED BY <1>1, <1>2

LEMMA ReadsKeepOrphans ==
  ASSUME TypeOK, OrphansInv, NEW r \in DirRequests,
         \/ CountChildren(r) \/ CountMembers(r) \/ PickContact(r) \/ PickGroups(r)
         \/ NextPath(r) \/ Follow(r)
  PROVE  OrphansInv'
<1> DEFINE t == task[r]
<1> USE DEF Counting
<1>1. t \in Task
  BY DEF TypeOK, DirTypeOK
<1>2. CASE CountChildren(r)
  BY <1>2, OrphansRefused, OrphansGoes DEF CountChildren, Subgroups
<1>3. CASE CountMembers(r)
  BY <1>3, OrphansRefused, OrphansGoes DEF CountMembers
<1>4. CASE PickGroups(r)
  BY <1>4, OrphansRefused, OrphansGoes DEF PickGroups
<1>5. CASE PickContact(r) \/ NextPath(r) \/ Follow(r)
  <2>1. PICK new : task' = [task EXCEPT ![r] = new] /\ new.at \in {"save", "walk"}
    <3>1. CASE PickContact(r)
      <4> DEFINE n == [t EXCEPT !.at = "save", !.set = IF Known(t.contact) THEN WithNew(@, t.contact) ELSE @]
      <4>1. n.at = "save" /\ task' = [task EXCEPT ![r] = n]
        BY <1>1, <3>1 DEF PickContact, Task
      <4> QED BY <4>1
    <3>2. CASE NextPath(r)
      <4>1. PICK p : task' = [task EXCEPT ![r] = [t EXCEPT !.todo = @ \ {p}, !.rest = p, !.below = NoGroup]]
        BY <3>2 DEF NextPath
      <4>2. [t EXCEPT !.todo = @ \ {p}, !.rest = p, !.below = NoGroup].at = "walk"
        BY <1>1, <3>2 DEF NextPath, Task
      <4> QED BY <4>1, <4>2
    <3>3. CASE Follow(r)
      <4>1. PICK g : task' = [task EXCEPT ![r] = Down(t, g)]
        BY <3>3 DEF Follow
      <4>2. Down(t, g).at = "walk"
        BY <1>1, <3>3 DEF Follow, Down, Task
      <4> QED BY <4>1, <4>2
    <3> QED BY <1>5, <3>1, <3>2, <3>3
  <2>2. UNCHANGED <<group, late, orphaned>>
    BY <1>5 DEF PickContact, NextPath, Follow, tables, history
  <2> QED BY <2>1, <2>2, OrphansTask
<1> QED BY <1>2, <1>3, <1>4, <1>5

LEMMA DirKeepsOrphans == TypeOK /\ OrphansInv /\ DirNext => OrphansInv'
<1> SUFFICES ASSUME TypeOK, OrphansInv, DirNext PROVE OrphansInv'
  OBVIOUS
<1>1. ASSUME NEW r \in DirRequests, DirRequest(r)
      PROVE  OrphansInv'
  <2>1. ASSUME NEW g \in Groups, AskDetach(r, g) \/ AskDelete(r, g)
        PROVE  OrphansInv'
    <3>1. PICK c \in Contacts : TRUE
      BY DirectoryAssumption
    <3> QED BY <2>1, <3>1, AsksKeepOrphans
  <2>2. ASSUME NEW g \in Groups, NEW c \in Contacts, AskAdd(r, g, c) \/ AskRemove(r, g, c)
        PROVE  OrphansInv'
    BY <2>2, AsksKeepOrphans
  <2>3. ASSUME NEW c \in Contacts, NEW gs \in SUBSET Groups, AskAssign(r, c, gs)
        PROVE  OrphansInv'
    BY <2>3, ContactAsksKeepOrphans
  <2>4. ASSUME NEW c \in Contacts, NEW gs \in SUBSET Groups, AskNew(r, c, "create", gs, {})
        PROVE  OrphansInv'
    BY <2>4, ContactAsksKeepOrphans
  <2>5. ASSUME NEW c \in Contacts, NEW gs \in SUBSET Groups, NEW ps \in SUBSET Paths,
               AskNew(r, c, "import", gs, ps)
        PROVE  OrphansInv'
    BY <2>5, ContactAsksKeepOrphans
  <2>6. CASE CountChildren(r) \/ CountMembers(r) \/ PickContact(r) \/ PickGroups(r) \/ NextPath(r) \/ Follow(r)
    BY <2>6, ReadsKeepOrphans
  <2>7. CASE Detach(r) \/ DeleteGroup(r) \/ SaveMembers(r) \/ SaveAssigned(r) \/ SaveNew(r) \/ CreateMissing(r)
    BY <2>7, DetachKeepsOrphans, DeleteKeepsOrphans, SaveMembersKeepsOrphans, ContactsKeepOrphans,
       CreateMissingKeepsOrphans
  <2> QED BY <1>1, <2>1, <2>2, <2>3, <2>4, <2>5, <2>6, <2>7 DEF DirRequest
<1>2. ASSUME NEW g \in Groups, NEW row, CreateGroup(g, row) \/ UpdateGroup(g, row)
      PROVE  OrphansInv'
  BY <1>2, GroupWritesKeepOrphans
<1>3. CASE \E c \in Contacts : DeleteContact(c) \/ \E active \in BOOLEAN : UpdateContact(c, active)
  BY <1>3, ContactsKeepOrphans
<1> QED BY <1>1, <1>2, <1>3 DEF DirNext

\* A subgroup loses its parent to a deletion only if it was put below it after the
\* deletion had counted the subgroups.
THEOREM OrphansCameLate == Spec => []OnlyLateOrphans
<1>1. Init => OrphansInv
  <2> SUFFICES ASSUME Init PROVE OrphansInv
    OBVIOUS
  <2>1. orphaned = {} /\ \A r \in DirRequests : task[r].at = "idle"
    BY DEF Init, DirInit, NoTask
  <2> QED BY <2>1 DEF OrphansInv, OnlyLateOrphans, Sound, Counting
<1>2. TypeOK /\ OrphansInv /\ [Next]_vars => OrphansInv'
  <2> SUFFICES ASSUME TypeOK, OrphansInv, [Next]_vars PROVE OrphansInv'
    OBVIOUS
  <2>1. orphaned \subseteq late
    BY DEF OrphansInv, OnlyLateOrphans
  <2>2. CASE UNCHANGED dirVars
    <3>1. UNCHANGED <<group, late, orphaned, task>>
      BY <2>2 DEF dirVars, tables, history
    <3>2. UNCHANGED task /\ UNCHANGED late /\ UNCHANGED group /\ orphaned' \subseteq late
      BY <2>1, <3>1
    <3> QED BY <3>2, NoGroupWritten, SameIsStaged, OrphansStay
  <2>3. CASE Crash
    <3>1. UNCHANGED <<group, late, orphaned>> /\ \A r \in DirRequests : task'[r].at = "idle"
      BY <2>3 DEF Crash, RequestsDie, tables, history, NoTask
    <3>2. \A q \in DirRequests : Staged(q)
      BY <3>1 DEF Staged, Counting
    <3>3. UNCHANGED late /\ UNCHANGED group /\ orphaned' \subseteq late
      BY <2>1, <3>1
    <3> QED BY <3>2, <3>3, NoGroupWritten, OrphansStay
  <2>4. CASE DirNext
    BY <2>4, DirKeepsOrphans
  <2> QED BY <2>2, <2>3, <2>4 DEF Next, vars
<1>3. OrphansInv => OnlyLateOrphans
  BY DEF OrphansInv
<1> QED BY TypeCorrect, <1>1, <1>2, <1>3, PTL DEF Spec

-----------------------------------------------------------------------------
(* The cooldown. *)

\* The mail c got last is within the cooldown of these settings.
Warm(set, c) == mail[c].day # 0 /\ day - mail[c].day < set.cooldown

\* A row that was written is no older than the mail; and a pass that is about to send,
\* and that knew of the last mail, had found it out of the cooldown.
CooldownInv ==
    /\ CooldownHolds
    /\ \A c \in Contacts : mail[c].day <= day /\ last[c] <= day
    /\ \A c \in Contacts : Written(c) => mail[c].day <= last[c]
    /\ \A r \in Runners : pass[r].at = "send" /\ pass[r].seen => ~Warm(pass[r].set, pass[r].contact)

\* What the step does to a pass that is about to send: nothing, or it no longer is, or
\* it is one that cannot know.
Settled(r) ==
    \/ pass'[r].at # "send"
    \/ pass'[r] = pass[r]
    \/ ~pass'[r].seen
    \/ pass'[r].contact \in Contacts /\ pass'[r].set \in Settings /\ ~Warm(pass'[r].set, pass'[r].contact)

LEMMA DaysAreNumbers ==
  ASSUME TypeOK
  PROVE  /\ day \in Nat /\ \A c \in Contacts : mail[c].day \in Nat /\ last[c] \in Nat
         /\ \A r \in Runners : /\ pass[r] \in Pass /\ pass[r].contact \in Contacts
                              /\ pass[r].set \in Settings /\ pass[r].set.cooldown \in Nat
<1>1. \A r \in Runners : pass[r] \in Pass
  BY DEF TypeOK, RemTypeOK
<1>2. \A r \in Runners : pass[r].contact \in Contacts /\ pass[r].set \in Settings
  BY <1>1 DEF Pass
<1>3. \A r \in Runners : pass[r].set.cooldown \in Nat
  BY <1>2 DEF Settings
<1>4. day \in Nat
  BY DEF TypeOK, ClockTypeOK
<1>5. \A c \in Contacts : mail[c].day \in Nat /\ last[c] \in Nat
  BY ClockAssumption DEF TypeOK, RemTypeOK, Days
<1> QED BY <1>1, <1>2, <1>3, <1>4, <1>5

\* Steps that send nothing and write no row.
LEMMA NothingSent ==
  ASSUME TypeOK, CooldownInv, day' \in Nat, day <= day', UNCHANGED mail, UNCHANGED hasty,
         \A c \in Contacts : last'[c] = last[c] \/ (last'[c] = 0 /\ c \in unwritten'),
         \A c \in Contacts : Written(c)' => Written(c),
         \A r \in Runners : Settled(r)
  PROVE  CooldownInv'
<1>1. CooldownHolds'
  BY DEF CooldownInv, CooldownHolds
<1>2. ASSUME NEW c \in Contacts
      PROVE  mail'[c].day <= day' /\ last'[c] <= day'
  BY DaysAreNumbers DEF CooldownInv
<1>3. ASSUME NEW c \in Contacts, Written(c)'
      PROVE  mail'[c].day <= last'[c]
  <2>1. c \notin unwritten' /\ Written(c)
    BY <1>3 DEF Written
  <2> QED BY <2>1 DEF CooldownInv
<1>4. ASSUME NEW r \in Runners, pass'[r].at = "send", pass'[r].seen
      PROVE  ~Warm(pass[r].set, pass[r].contact)'
  <2>1. ASSUME NEW set \in Settings, NEW c \in Contacts, ~Warm(set, c)
        PROVE  ~(mail'[c].day # 0 /\ day' - mail'[c].day < set.cooldown)
    <3>1. set.cooldown \in Nat
      BY DEF Settings
    <3> QED BY <2>1, <3>1, DaysAreNumbers DEF Warm, CooldownInv
  <2>2. CASE pass'[r] = pass[r]
    <3>1. ~Warm(pass[r].set, pass[r].contact)
      BY <1>4, <2>2 DEF CooldownInv
    <3> QED BY <2>1, <2>2, <3>1, DaysAreNumbers DEF Warm
  <2>3. CASE /\ pass'[r].contact \in Contacts /\ pass'[r].set \in Settings
             /\ ~Warm(pass'[r].set, pass'[r].contact)
    BY <2>1, <2>3 DEF Warm
  <2>4. Settled(r)
    OBVIOUS
  <2> QED BY <1>4, <2>2, <2>3, <2>4 DEF Settled
<1> QED BY <1>1, <1>2, <1>3, <1>4 DEF CooldownInv

\* Steps of r alone that neither mail nor write.
LEMMA StepsKeep ==
  ASSUME TypeOK, CooldownInv, NEW r \in Runners, NEW new, Steps(r, new),
         new.at \in {"sent", "threw"} => pass[r].at \in {"sent", "threw", "send"} /\ new.contact = pass[r].contact,
         pass[r].at \in {"sent", "threw"} => new.at \in {"sent", "threw"} /\ new.contact = pass[r].contact,
         \/ new.at # "send" \/ ~new.seen
         \/ new.contact \in Contacts /\ new.set \in Settings /\ ~Warm(new.set, new.contact)
  PROVE  CooldownInv'
<1>1. /\ UNCHANGED <<day, last, mail, hasty, unwritten>>
      /\ pass'[r] = new /\ \A q \in Runners \ {r} : pass'[q] = pass[q]
  BY DEF Steps, TypeOK, RemTypeOK
<1>2. \A q \in Runners : Settled(q)
  BY <1>1 DEF Settled
<1>3. ASSUME NEW c \in Contacts, Written(c)'
      PROVE  Written(c)
  BY <1>1, <1>3 DEF Written
<1>4. day' \in Nat /\ day <= day'
  BY <1>1, DaysAreNumbers
<1> QED BY <1>1, <1>2, <1>3, <1>4, NothingSent

LEMMA CheckKeepsCooldown ==
  ASSUME TypeOK, CooldownInv, NEW r \in Runners, CheckCooldown(r)
  PROVE  CooldownInv'
<1> DEFINE p == pass[r]
<1>1. p \in Pass /\ p.at = "next" /\ p.todo \subseteq Contacts /\ p.set \in Settings /\ p.set.cooldown \in Nat
  BY DaysAreNumbers DEF CheckCooldown, Pass
<1>2. PICK c \in p.todo :
        Steps(r, IF CoolsDown(p.set, c) THEN [p EXCEPT !.todo = @ \ {c}]
                 ELSE [p EXCEPT !.at = "send", !.todo = @ \ {c}, !.contact = c, !.seen = Written(c)])
  BY DEF CheckCooldown
<1>3. CASE CoolsDown(p.set, c)
  <2> DEFINE new == [p EXCEPT !.todo = @ \ {c}]
  <2>1. new.at = "next"
    BY <1>1 DEF Pass
  <2>2. Steps(r, new)
    BY <1>2, <1>3
  <2> HIDE DEF new
  <2> QED BY <1>1, <2>1, <2>2, StepsKeep
<1>4. CASE ~CoolsDown(p.set, c)
  <2> DEFINE new == [p EXCEPT !.at = "send", !.todo = @ \ {c}, !.contact = c, !.seen = Written(c)]
  <2>1. new.at = "send" /\ new.contact = c /\ new.set = p.set
    BY <1>1 DEF Pass
  <2>2. new.seen = Written(c)
    BY <1>1 DEF Pass
  <2>3. Steps(r, new)
    BY <1>2, <1>4
  <2>4. ASSUME Written(c)
        PROVE  ~Warm(p.set, c)
    <3>1. mail[c].day <= last[c] /\ last[c] <= day
      BY <1>1, <2>4 DEF CooldownInv
    <3> QED BY <1>1, <1>4, <3>1, DaysAreNumbers DEF CoolsDown, Warm
  <2> HIDE DEF new
  <2>5. ~new.seen \/ ~Warm(new.set, new.contact)
    BY <2>1, <2>2, <2>4
  <2> QED BY <1>1, <2>1, <2>3, <2>5, StepsKeep
<1> QED BY <1>3, <1>4

\* A mail: it is the last one of its contact, and others that are to mail it know nothing.
LEMMA MailKeepsCooldown ==
  ASSUME TypeOK, CooldownInv, NEW r \in Runners, NEW at, SendMail(r, at)
  PROVE  CooldownInv'
<1> DEFINE p == pass[r]
           c == p.contact
           m == [day |-> day, amount |-> p.amount[c], owed |-> p.owed[c]]
<1>1. /\ p.at = "send" /\ at \in {"sent", "threw"} /\ mail' = [mail EXCEPT ![c] = m]
      /\ hasty' = IF TooSoon(r, c) THEN hasty \cup {c} ELSE hasty
      /\ pass' = [Unaware(r, c) EXCEPT ![r].at = at]
      /\ UNCHANGED <<day, last, unwritten>>
  BY DEF SendMail
<1>2. p \in Pass /\ c \in Contacts
  BY DaysAreNumbers
<1>3. mail'[c].day = day /\ \A d \in Contacts \ {c} : mail'[d] = mail[d]
  BY <1>1, <1>2 DEF TypeOK, RemTypeOK
<1>4. CooldownHolds'
  <2>1. ~TooSoon(r, c)
    BY <1>1 DEF TooSoon, CooldownInv, Warm
  <2> QED BY <1>1, <2>1 DEF CooldownInv, CooldownHolds
<1>5. \A d \in Contacts : mail'[d].day <= day' /\ last'[d] <= day'
  BY <1>1, <1>3, DaysAreNumbers DEF CooldownInv
<1>6. pass'[r].at = at /\ pass'[r].contact = c
  <2>1. Unaware(r, c)[r] = p
    BY DEF Unaware
  <2>2. pass'[r] = [p EXCEPT !.at = at]
    BY <1>1, <2>1 DEF Unaware
  <2> QED BY <1>2, <2>2 DEF Pass
<1>7. ASSUME NEW q \in Runners, q # r
      PROVE  /\ pass'[q].at = pass[q].at /\ pass'[q].contact = pass[q].contact /\ pass'[q].set = pass[q].set
             /\ pass[q].at = "send" /\ pass[q].contact = c => ~pass'[q].seen
             /\ ~(pass[q].at = "send" /\ pass[q].contact = c) => pass'[q] = pass[q]
  <2>1. pass[q] \in Pass
    BY DaysAreNumbers
  <2>2. pass'[q] = Unaware(r, c)[q]
    BY <1>1, <1>7 DEF Unaware
  <2>3. CASE pass[q].at = "send" /\ pass[q].contact = c
    <3>1. pass'[q] = [pass[q] EXCEPT !.seen = FALSE]
      BY <1>7, <2>2, <2>3 DEF Unaware
    <3> QED BY <2>1, <2>3, <3>1 DEF Pass
  <2>4. CASE ~(pass[q].at = "send" /\ pass[q].contact = c)
    <3>1. pass'[q] = pass[q]
      BY <1>7, <2>2, <2>4 DEF Unaware
    <3> QED BY <2>4, <3>1
  <2> QED BY <2>3, <2>4
<1>8. ASSUME NEW d \in Contacts, Written(d)'
      PROVE  mail'[d].day <= last'[d]
  <2>1. d # c
    BY <1>1, <1>6, <1>8 DEF Written
  <2>2. Written(d)
    <3>1. ASSUME NEW q \in Runners, pass[q].at \in {"sent", "threw"}
          PROVE  pass[q].contact # d
      BY <1>1, <1>7, <1>8, <3>1 DEF Written
    <3> QED BY <1>1, <1>8, <3>1 DEF Written
  <2> QED BY <1>1, <1>3, <2>1, <2>2 DEF CooldownInv
<1>9. ASSUME NEW q \in Runners, pass'[q].at = "send", pass'[q].seen
      PROVE  ~Warm(pass[q].set, pass[q].contact)'
  <2>1. q # r
    BY <1>1, <1>6, <1>9
  <2>2. pass'[q] = pass[q] /\ pass[q].contact # c
    BY <1>7, <1>9, <2>1
  <2>3. ~Warm(pass[q].set, pass[q].contact) /\ pass[q].contact \in Contacts
    BY <1>9, <2>2, DaysAreNumbers DEF CooldownInv
  <2>4. mail'[pass[q].contact] = mail[pass[q].contact]
    BY <1>3, <2>2, <2>3
  <2> QED BY <1>1, <2>2, <2>3, <2>4 DEF Warm
<1> HIDE DEF m, c
<1> QED BY <1>4, <1>5, <1>8, <1>9 DEF CooldownInv

LEMMA RowKeepsCooldown ==
  ASSUME TypeOK, CooldownInv, NEW r \in Runners, WriteRow(r), pass[r].at \in {"sent", "threw"}
  PROVE  CooldownInv'
<1> DEFINE c == pass[r].contact
<1>1. pass[r] \in Pass /\ c \in Contacts
  BY DaysAreNumbers
<1>2. /\ last' = [last EXCEPT ![c] = day] /\ unwritten' = unwritten \ {c}
      /\ UNCHANGED <<day, mail, hasty>> /\ pass' = [pass EXCEPT ![r] = [pass[r] EXCEPT !.at = "next"]]
  BY DEF WriteRow
<1>3. pass'[r].at = "next" /\ \A q \in Runners \ {r} : pass'[q] = pass[q]
  BY <1>1, <1>2 DEF TypeOK, RemTypeOK, Pass
<1>4. last'[c] = day /\ \A d \in Contacts \ {c} : last'[d] = last[d]
  BY <1>1, <1>2 DEF TypeOK, RemTypeOK
<1>5. CooldownHolds'
  BY <1>2 DEF CooldownInv, CooldownHolds
<1>6. \A d \in Contacts : mail'[d].day <= day' /\ last'[d] <= day'
  BY <1>2, <1>4, DaysAreNumbers DEF CooldownInv
<1>7. ASSUME NEW d \in Contacts, Written(d)'
      PROVE  mail'[d].day <= last'[d]
  <2>1. CASE d = c
    BY <1>2, <1>4, <2>1 DEF CooldownInv
  <2>2. CASE d # c
    <3>1. Written(d)
      <4>1. d \notin unwritten
        BY <1>2, <1>7, <2>2 DEF Written
      <4>2. ASSUME NEW q \in Runners, pass[q].at \in {"sent", "threw"}
            PROVE  pass[q].contact # d
        BY <1>3, <1>7, <2>2, <4>2 DEF Written
      <4> QED BY <4>1, <4>2 DEF Written
    <3> QED BY <1>2, <1>4, <2>2, <3>1 DEF CooldownInv
  <2> QED BY <2>1, <2>2
<1>8. ASSUME NEW q \in Runners, pass'[q].at = "send", pass'[q].seen
      PROVE  ~Warm(pass[q].set, pass[q].contact)'
  <2>1. pass'[q] = pass[q]
    BY <1>3, <1>8
  <2> QED BY <1>2, <1>8, <2>1 DEF CooldownInv, Warm
<1> QED BY <1>5, <1>6, <1>7, <1>8 DEF CooldownInv

LEMMA EndKeepsCooldown ==
  ASSUME TypeOK, CooldownInv, NEW r \in Runners, EndPass(r) \/ RecordFailedThrows(r)
  PROVE  CooldownInv'
<1>1. PICK new : /\ pass' = [pass EXCEPT ![r] = new] /\ new.at \in {"idle", "end"}
                 /\ UNCHANGED <<day, last, mail, hasty>>
                 /\ unwritten \subseteq unwritten'
                 /\ pass[r].at \in {"sent", "threw"} => pass[r].contact \in unwritten'
  <2>1. CASE EndPass(r)
    BY <2>1 DEF EndPass, NoPass
  <2>2. CASE RecordFailedThrows(r)
    <3>1. [pass[r] EXCEPT !.at = "end"].at = "end"
      BY DaysAreNumbers DEF Pass
    <3>2. /\ pass' = [pass EXCEPT ![r] = [pass[r] EXCEPT !.at = "end"]]
          /\ unwritten' = unwritten \cup {pass[r].contact} /\ UNCHANGED <<day, last, mail, hasty>>
      BY <2>2 DEF RecordFailedThrows
    <3> QED BY <3>1, <3>2
  <2> QED BY <2>1, <2>2
<1>2. pass'[r] = new /\ \A q \in Runners \ {r} : pass'[q] = pass[q]
  BY <1>1 DEF TypeOK, RemTypeOK
<1>3. \A q \in Runners : Settled(q)
  BY <1>1, <1>2 DEF Settled
<1>4. ASSUME NEW c \in Contacts, Written(c)'
      PROVE  Written(c)
  BY <1>1, <1>2, <1>4 DEF Written
<1>5. day' \in Nat /\ day <= day'
  BY <1>1, DaysAreNumbers
<1> QED BY <1>1, <1>3, <1>4, <1>5, NothingSent

LEMMA PassKeepsCooldown ==
  ASSUME TypeOK, CooldownInv, NEW r \in Runners, PassStep(r)
  PROVE  CooldownInv'
<1> DEFINE p == pass[r]
<1>1. p \in Pass
  BY DaysAreNumbers
<1>2. ASSUME NEW at \in {"end", "threw"}, Steps(r, [p EXCEPT !.at = at]),
             at = "end" => p.at \notin {"sent", "threw"}, at = "threw" => p.at \in {"send", "sent"}
      PROVE  CooldownInv'
  <2> DEFINE new == [p EXCEPT !.at = at]
  <2>1. new.at = at /\ new.contact = p.contact
    BY <1>1 DEF Pass
  <2>2. Steps(r, new)
    BY <1>2
  <2> HIDE DEF new
  <2> QED BY <1>2, <2>1, <2>2, StepsKeep
<1>3. ASSUME NEW new, Steps(r, new), new.at \in {"recipients", "contacts", "next"}, p.at \notin {"sent", "threw"}
      PROVE  CooldownInv'
  BY <1>3, StepsKeep
<1>4. CASE ReadPolicies(r)
  <2>1. [p EXCEPT !.at = "recipients", !.set = policy.set].at = "recipients"
    BY <1>1 DEF Pass
  <2> QED BY <1>2, <1>3, <1>4, <2>1 DEF ReadPolicies
<1>5. CASE ReadRecipients(r)
  <2>1. PICK todo, amount, owed :
          Steps(r, [p EXCEPT !.at = "contacts", !.todo = todo, !.amount = amount, !.owed = owed])
    BY <1>5 DEF ReadRecipients
  <2>2. [p EXCEPT !.at = "contacts", !.todo = todo, !.amount = amount, !.owed = owed].at = "contacts"
    BY <1>1 DEF Pass
  <2> QED BY <1>3, <1>5, <2>1, <2>2 DEF ReadRecipients
<1>6. CASE FindContacts(r)
  <2>1. [p EXCEPT !.at = "next", !.todo = {c \in @ : Known(c)}].at = "next"
    BY <1>1 DEF Pass
  <2> QED BY <1>3, <1>6, <2>1 DEF FindContacts
<1>7. CASE CheckCooldown(r)
  BY <1>7, CheckKeepsCooldown
<1>8. CASE \E at \in {"sent", "threw"} : SendMail(r, at)
  BY <1>8, MailKeepsCooldown
<1>9. CASE MailRefused(r) \/ RecordThrows(r) \/ PolicyDone(r)
  BY <1>2, <1>9 DEF MailRefused, RecordThrows, PolicyDone
<1>10. CASE Record(r) \/ RecordFailed(r)
  BY <1>10, RowKeepsCooldown DEF Record, RecordFailed
<1>11. CASE RecordFailedThrows(r) \/ EndPass(r)
  BY <1>11, EndKeepsCooldown
<1> QED BY <1>4, <1>5, <1>6, <1>7, <1>8, <1>9, <1>10, <1>11 DEF PassStep

LEMMA RemKeepsCooldown == TypeOK /\ CooldownInv /\ RemNext => CooldownInv'
<1> SUFFICES ASSUME TypeOK, CooldownInv, RemNext PROVE CooldownInv'
  OBVIOUS
<1>1. ASSUME UNCHANGED <<day, mail, hasty, pass>>,
             \/ UNCHANGED <<last, unwritten>>
             \/ last' = [c \in Contacts |-> 0] /\ unwritten' = Contacts
      PROVE  CooldownInv'
  <2>1. \A q \in Runners : Settled(q)
    BY <1>1 DEF Settled
  <2>2. \A c \in Contacts : Written(c)' => Written(c)
    BY <1>1 DEF Written
  <2>3. day' \in Nat /\ day <= day'
    BY <1>1, DaysAreNumbers
  <2>4. \A c \in Contacts : last'[c] = last[c] \/ (last'[c] = 0 /\ c \in unwritten')
    BY <1>1
  <2> QED BY <1>1, <2>1, <2>2, <2>3, <2>4, NothingSent
<1>2. ASSUME NEW r \in Runners, pass[r].at = "idle", pass' = [pass EXCEPT ![r].at = "policies"],
             UNCHANGED <<day, last, mail, unwritten, hasty>>
      PROVE  CooldownInv'
  <2>1. pass'[r].at = "policies" /\ \A q \in Runners \ {r} : pass'[q] = pass[q]
    BY <1>2, DaysAreNumbers DEF TypeOK, RemTypeOK, Pass
  <2>2. \A q \in Runners : Settled(q)
    BY <2>1 DEF Settled
  <2>3. ASSUME NEW c \in Contacts, Written(c)'
        PROVE  Written(c)
    BY <1>2, <2>1, <2>3 DEF Written
  <2>4. day' \in Nat /\ day <= day'
    BY <1>2, DaysAreNumbers
  <2> QED BY <1>2, <2>2, <2>3, <2>4, NothingSent
<1>3. CASE (\E set \in Policies : AskPolicy(set) \/ SavePolicy(set) \/ SavePolicyFails(set)) \/ DeletePolicy
  BY <1>1, <1>3 DEF AskPolicy, SavePolicy, SavePolicyFails, DeletePolicy
<1>4. CASE \E c \in Contacts, amount \in 0..FirstDue : Pays(c, amount)
  BY <1>1, <1>4 DEF Pays
<1>5. CASE Tick
  BY <1>2, <1>5, RemindersAssumption DEF Tick
<1>6. ASSUME NEW r \in Runners, RunNow(r)
      PROVE  CooldownInv'
  BY <1>2, <1>6 DEF RunNow
<1>7. ASSUME NEW r \in Runners, PassStep(r)
      PROVE  CooldownInv'
  BY <1>7, PassKeepsCooldown
<1> QED BY <1>3, <1>4, <1>5, <1>6, <1>7 DEF RemNext

\* However passes overlap and whatever fails: no contact is reminded again within the
\* cooldown by a pass that could know of the mail before.
THEOREM CooldownIsKept == Spec => []CooldownHolds
<1>1. Init => CooldownInv
  <2> SUFFICES ASSUME Init PROVE CooldownInv
    OBVIOUS
  <2>1. /\ \A c \in Contacts : mail[c].day = 0 /\ last[c] = 0
        /\ \A r \in Runners : pass[r].at = "idle"
        /\ hasty = {} /\ day = 1
    BY DEF Init, RemInit, ClockInit, NoMail, NoPass
  <2> QED BY <2>1 DEF CooldownInv, CooldownHolds
<1>2. TypeOK /\ CooldownInv /\ [Next]_vars => CooldownInv'
  <2> SUFFICES ASSUME TypeOK, CooldownInv, [Next]_vars PROVE CooldownInv'
    OBVIOUS
  <2>1. day' \in Nat /\ day <= day'
    BY NextTypes DEF TypeOK, ClockTypeOK
  <2>2. CASE UNCHANGED remVars
    <3>1. UNCHANGED last /\ UNCHANGED unwritten /\ UNCHANGED pass /\ UNCHANGED mail /\ UNCHANGED hasty
      BY <2>2 DEF remVars
    <3>2. \A q \in Runners : Settled(q)
      BY <3>1 DEF Settled
    <3>3. \A c \in Contacts : Written(c)' => Written(c)
      BY <3>1 DEF Written
    <3>4. \A c \in Contacts : last'[c] = last[c] \/ (last'[c] = 0 /\ c \in unwritten')
      BY <3>1
    <3> QED BY <2>1, <3>1, <3>2, <3>3, <3>4, NothingSent
  <2>3. CASE GoesWithContact
    <3> DEFINE gone == {c \in Contacts : Known(c) /\ ~contact'[c].here}
    <3>1. /\ last' = [c \in Contacts |-> IF c \in gone THEN 0 ELSE last[c]]
          /\ unwritten' = unwritten \cup gone
          /\ UNCHANGED pass /\ UNCHANGED mail /\ UNCHANGED hasty
      BY <2>3 DEF GoesWithContact
    <3> HIDE DEF gone
    <3>2. \A q \in Runners : Settled(q)
      BY <3>1 DEF Settled
    <3>3. \A c \in Contacts : Written(c)' => Written(c)
      BY <3>1 DEF Written
    <3>4. \A c \in Contacts : last'[c] = last[c] \/ (last'[c] = 0 /\ c \in unwritten')
      BY <3>1
    <3> QED BY <2>1, <3>1, <3>2, <3>3, <3>4, NothingSent
  <2>4. CASE RemNext
    BY <2>4, RemKeepsCooldown
  <2>5. CASE Crash
    <3>1. /\ \A r \in Runners : pass'[r].at = "idle"
          /\ UNCHANGED last /\ UNCHANGED mail /\ UNCHANGED hasty
          /\ unwritten' = unwritten \cup
                {c \in Contacts : \E r \in Runners : pass[r].at \in {"sent", "threw"} /\ pass[r].contact = c}
      BY <2>5 DEF Crash, PassesDie, NoPass
    <3>2. \A q \in Runners : Settled(q)
      BY <3>1 DEF Settled
    <3>3. \A c \in Contacts : Written(c)' => Written(c)
      BY <3>1 DEF Written
    <3>4. \A c \in Contacts : last'[c] = last[c] \/ (last'[c] = 0 /\ c \in unwritten')
      BY <3>1
    <3> QED BY <2>1, <3>1, <3>2, <3>3, <3>4, NothingSent
  <2> QED BY <2>2, <2>3, <2>4, <2>5 DEF Next, vars
<1>3. CooldownInv => CooldownHolds
  BY DEF CooldownInv
<1> QED BY TypeCorrect, <1>1, <1>2, <1>3, PTL DEF Spec

-----------------------------------------------------------------------------
(* The rows of the jobs. *)

\* What a request that inserted candidates is to announce: no one has announced it,
\* and no one else will.  An export that is ready has its summary.
DetectedInv ==
    /\ DetectedOnce
    /\ \A w \in Workers : work[w].at = "detected" =>
          \A p \in work[w].payments : candidate[p] # "none" /\ detected[p] = 0
    /\ \A v, w \in Workers : v # w /\ work[v].at = "detected" /\ work[w].at = "detected" =>
          work[v].payments \cap work[w].payments = {}

ExportsInv ==
    /\ ExportsSettle
    /\ \A w \in Workers : work[w].at = "ready" => work[w].job \in summaries

\* A request that announces nothing before or after the step, or is where it was.
Mute(w)   == (work[w].at # "detected" /\ work'[w].at # "detected") \/ work'[w] = work[w]
\* A request that exports nothing before or after the step, or is where it was.
Exporting == {"export", "ready", "failed"}
Absent(w) == (work[w].at \notin Exporting /\ work'[w].at \notin Exporting) \/ work'[w] = work[w]

LEMMA WorkRows ==
  ASSUME ColTypeOK, NEW w \in Workers
  PROVE  work[w] \in Work /\ work[w].payments \subseteq Payments /\ work[w].job \in ExportJobs
BY DEF ColTypeOK, Work

\* Only the request w goes on.
LEMMA OthersStay ==
  ASSUME ColTypeOK, NEW w \in Workers, NEW new, work' = [work EXCEPT ![w] = new]
  PROVE  work'[w] = new /\ \A v \in Workers \ {w} : work'[v] = work[v]
BY DEF ColTypeOK

LEMMA DetectedStays ==
  ASSUME ColTypeOK, DetectedInv, \A w \in Workers : Mute(w), UNCHANGED detected, cut'.payments = cut.payments,
         \A p \in Payments : candidate'[p] = candidate[p] \/ (candidate[p] # "none" /\ candidate'[p] # "none")
  PROVE  DetectedInv'
<1>1. ASSUME NEW w \in Workers, work[w].at = "detected" \/ work'[w].at = "detected"
      PROVE  work'[w] = work[w]
  BY <1>1 DEF Mute
<1>2. ASSUME NEW p \in Payments
      PROVE  \/ candidate'[p] # "none" /\ detected'[p] = 1
             \/ candidate'[p] = "none" /\ detected'[p] = 0
             \/ /\ detected'[p] = 0
                /\ p \in cut'.payments \/ \E w \in Workers : work'[w].at = "detected" /\ p \in work'[w].payments
  <2>1. CASE candidate[p] # "none" /\ detected[p] = 1
    BY <2>1
  <2>2. CASE candidate[p] = "none" /\ detected[p] = 0
    BY <2>2
  <2>3. CASE detected[p] = 0 /\ p \in cut.payments
    BY <2>3
  <2>4. ASSUME detected[p] = 0, NEW w \in Workers, work[w].at = "detected", p \in work[w].payments
        PROVE  detected'[p] = 0 /\ work'[w].at = "detected" /\ p \in work'[w].payments
    BY <1>1, <2>4
  <2> QED BY <2>1, <2>2, <2>3, <2>4 DEF DetectedInv, DetectedOnce, Working
<1>3. ASSUME NEW w \in Workers, work'[w].at = "detected", NEW p \in work'[w].payments
      PROVE  candidate'[p] # "none" /\ detected'[p] = 0
  <2>1. work'[w] = work[w]
    BY <1>1, <1>3
  <2>2. p \in Payments
    BY <1>3, <2>1, WorkRows
  <2> QED BY <1>3, <2>1, <2>2 DEF DetectedInv
<1>4. ASSUME NEW v \in Workers, NEW w \in Workers, v # w, work'[v].at = "detected", work'[w].at = "detected"
      PROVE  work'[v].payments \cap work'[w].payments = {}
  <2>1. work'[v] = work[v] /\ work'[w] = work[w]
    BY <1>1, <1>4
  <2> QED BY <1>4, <2>1 DEF DetectedInv
<1>5. DetectedOnce'
  BY <1>2 DEF DetectedOnce, Working
<1> QED BY <1>3, <1>4, <1>5 DEF DetectedInv

LEMMA ExportsStay ==
  ASSUME ColTypeOK, ExportsInv, \A w \in Workers : Absent(w), UNCHANGED cut, UNCHANGED summaries,
         \A j \in ExportJobs : job'[j] = job[j] \/ job'[j] \notin {"PROCESSING", "READY"}
  PROVE  ExportsInv'
<1>1. ASSUME NEW w \in Workers, work[w].at \in Exporting \/ work'[w].at \in Exporting
      PROVE  work'[w] = work[w]
  BY <1>1 DEF Absent
<1>2. ASSUME NEW j \in ExportJobs, job'[j] = "PROCESSING", j \notin cut'.jobs
      PROVE  \E w \in Workers : work'[w].at \in Exporting /\ work'[w].job = j
  <2>1. job[j] = "PROCESSING" /\ j \notin cut.jobs
    BY <1>2
  <2>2. PICK w \in Workers : work[w].at \in Exporting /\ work[w].job = j
    BY <2>1 DEF ExportsInv, ExportsSettle, Working, Exporting
  <2> QED BY <1>1, <2>2
<1>3. ASSUME NEW j \in ExportJobs, job'[j] = "READY"
      PROVE  j \in summaries'
  BY <1>3 DEF ExportsInv, ExportsSettle
<1>4. ASSUME NEW w \in Workers, work'[w].at = "ready"
      PROVE  work'[w].job \in summaries'
  <2>1. work'[w] = work[w]
    BY <1>1, <1>4 DEF Exporting
  <2> QED BY <1>4, <2>1 DEF ExportsInv
<1>5. ExportsSettle'
  BY <1>2, <1>3 DEF ExportsSettle, Working, Exporting
<1> QED BY <1>4, <1>5 DEF ExportsInv

LEMMA InsertKeepsDetected ==
  ASSUME ColTypeOK, DetectedInv, NEW w \in Workers, InsertCandidates(w)
  PROVE  DetectedInv'
<1> DEFINE ps == work[w].payments
           new == [work[w] EXCEPT !.at = "detected"]
<1>1. /\ candidate' = [p \in Payments |-> IF p \in ps THEN "OPEN" ELSE candidate[p]]
      /\ work' = [work EXCEPT ![w] = new] /\ UNCHANGED detected /\ UNCHANGED cut
      /\ \A p \in ps : candidate[p] = "none"
  BY DEF InsertCandidates, WorkGoes
<1>2. new.at = "detected" /\ new.payments = ps /\ ps \subseteq Payments
  BY WorkRows DEF Work
<1>3. work'[w].at = "detected" /\ work'[w].payments = ps /\ \A v \in Workers \ {w} : work'[v] = work[v]
  BY <1>1, <1>2, OthersStay
<1>4. work[w].at = "insert"
  BY DEF InsertCandidates
<1>5. \A p \in ps : detected[p] = 0
  BY <1>1, <1>2 DEF DetectedInv, DetectedOnce
<1>6. ASSUME NEW v \in Workers, v # w, work[v].at = "detected"
      PROVE  work[v].payments \cap ps = {}
  BY <1>1, <1>6 DEF DetectedInv, Working
<1>7. ASSUME NEW p \in Payments
      PROVE  \/ candidate'[p] # "none" /\ detected'[p] = 1
             \/ candidate'[p] = "none" /\ detected'[p] = 0
             \/ /\ detected'[p] = 0
                /\ p \in cut'.payments \/ \E v \in Workers : work'[v].at = "detected" /\ p \in work'[v].payments
  <2>1. CASE p \in ps
    BY <1>1, <1>3, <1>5, <2>1
  <2>2. CASE p \notin ps
    BY <1>1, <1>3, <1>4, <2>2 DEF DetectedInv, DetectedOnce, Working
  <2> QED BY <2>1, <2>2
<1>8. \A v \in Workers : work'[v].at = "detected" =>
         \A p \in work'[v].payments : candidate'[p] # "none" /\ detected'[p] = 0
  BY <1>1, <1>2, <1>3, <1>5, WorkRows DEF DetectedInv, Working
<1>9. \A u \in Workers, v \in Workers : u # v /\ work'[u].at = "detected" /\ work'[v].at = "detected" =>
         work'[u].payments \cap work'[v].payments = {}
  BY <1>3, <1>6 DEF DetectedInv, Working
<1> HIDE DEF ps, new
<1> QED BY <1>7, <1>8, <1>9 DEF DetectedInv, DetectedOnce, Working

\* A request that announces, and one whose events are lost.
LEMMA AnnounceKeepsDetected ==
  ASSUME ColTypeOK, DetectedInv, NEW w \in Workers, SaveDetected(w) \/ DetectedLost(w)
  PROVE  DetectedInv'
<1> DEFINE ps == work[w].payments
<1>1. work[w].at = "detected" /\ UNCHANGED candidate /\ work' = [work EXCEPT ![w] = NoWork]
  BY DEF SaveDetected, DetectedLost, WorkGoes
<1>2. work'[w].at = "idle" /\ \A v \in Workers \ {w} : work'[v] = work[v]
  BY <1>1, OthersStay DEF NoWork
<1>3. ps \subseteq Payments /\ \A p \in ps : candidate[p] # "none" /\ detected[p] = 0
  BY <1>1, WorkRows DEF DetectedInv, Working
<1>4. \/ /\ \A p \in Payments : detected'[p] = IF p \in ps THEN 1 ELSE detected[p]
         /\ UNCHANGED cut
      \/ UNCHANGED detected /\ cut'.payments = cut.payments \cup ps
  <2>1. CASE SaveDetected(w)
    BY <1>3, <2>1 DEF SaveDetected, ColTypeOK
  <2>2. CASE DetectedLost(w)
    BY <2>2 DEF DetectedLost, ColTypeOK
  <2> QED BY <2>1, <2>2
<1>5. ASSUME NEW v \in Workers, v # w, work[v].at = "detected"
      PROVE  work[v].payments \cap ps = {}
  BY <1>1, <1>5 DEF DetectedInv, Working
<1>6. ASSUME NEW p \in Payments
      PROVE  \/ candidate'[p] # "none" /\ detected'[p] = 1
             \/ candidate'[p] = "none" /\ detected'[p] = 0
             \/ /\ detected'[p] = 0
                /\ p \in cut'.payments \/ \E v \in Workers : work'[v].at = "detected" /\ p \in work'[v].payments
  <2>1. CASE p \in ps
    BY <1>1, <1>3, <1>4, <2>1
  <2>2. CASE p \notin ps
    BY <1>1, <1>2, <1>4, <2>2 DEF DetectedInv, DetectedOnce, Working
  <2> QED BY <2>1, <2>2
<1>7. ASSUME NEW v \in Workers, work'[v].at = "detected", NEW p \in work'[v].payments
      PROVE  candidate'[p] # "none" /\ detected'[p] = 0
  <2>1. v # w /\ work'[v] = work[v]
    BY <1>2, <1>7
  <2>2. p \in Payments /\ p \notin ps
    BY <1>5, <1>7, <2>1, WorkRows
  <2> QED BY <1>1, <1>4, <1>7, <2>1, <2>2 DEF DetectedInv, Working
<1>8. \A u \in Workers, v \in Workers : u # v /\ work'[u].at = "detected" /\ work'[v].at = "detected" =>
         work'[u].payments \cap work'[v].payments = {}
  BY <1>2 DEF DetectedInv, Working
<1> HIDE DEF ps
<1> QED BY <1>6, <1>7, <1>8 DEF DetectedInv, DetectedOnce, Working

\* The steps of an export.
LEMMA ExportKeepsExports ==
  ASSUME ColTypeOK, ExportsInv, NEW w \in Workers,
         TakeJob(w) \/ SaveSummary(w) \/ ExportThrows(w) \/ MarkReady(w) \/ MarkFailed(w) \/ MarkFails(w)
  PROVE  ExportsInv'
<1> DEFINE j == work[w].job
<1>1. \A at \in {"export", "ready", "announce", "failed"} :
         [work[w] EXCEPT !.at = at].at = at /\ [work[w] EXCEPT !.at = at].job = j
  BY WorkRows DEF Work
<1>2. j \in ExportJobs /\ \A k \in ExportJobs \ {j} : k \in cut.jobs => k \in cut'.jobs
  BY WorkRows DEF TakeJob, SaveSummary, ExportThrows, MarkReady, MarkFailed, MarkFails, SavesJob, ColTypeOK
<1>3. ASSUME NEW k \in ExportJobs, job[k] = "PROCESSING", k \notin cut.jobs
      PROVE  \E v \in Workers : work[v].at \in Exporting /\ work[v].job = k
  BY <1>3 DEF ExportsInv, ExportsSettle, Working, Exporting
<1>4. /\ \A v \in Workers : work[v].at = "ready" => work[v].job \in summaries
      /\ \A k \in ExportJobs : job[k] = "READY" => k \in summaries
  BY DEF ExportsInv, ExportsSettle
<1>5. ASSUME NEW at \in {"export", "ready", "announce", "failed", "idle"}, work'[w].at = at,
             at # "idle" => work'[w].job = j,
             \A v \in Workers \ {w} : work'[v] = work[v],
             \A k \in ExportJobs \ {j} : job'[k] = job[k],
             job'[j] = "PROCESSING" => at \in Exporting \/ j \in cut'.jobs,
             job'[j] = "READY" => j \in summaries',
             at = "ready" => j \in summaries', summaries \subseteq summaries'
      PROVE  ExportsInv'
  <2>1. ASSUME NEW k \in ExportJobs, job'[k] = "PROCESSING", k \notin cut'.jobs
        PROVE  \E v \in Workers : work'[v].at \in Exporting /\ work'[v].job = k
    <3>1. CASE k = j /\ at \in Exporting
      BY <1>5, <3>1 DEF Exporting
    <3>2. CASE k = j /\ at \notin Exporting
      BY <1>5, <2>1, <3>2
    <3>3. CASE k # j
      <4>1. PICK v \in Workers : work[v].at \in Exporting /\ work[v].job = k
        BY <1>2, <1>3, <1>5, <2>1, <3>3
      <4>2. v # w
        BY <3>3, <4>1
      <4> QED BY <1>5, <4>1, <4>2
    <3> QED BY <3>1, <3>2, <3>3
  <2>2. ASSUME NEW k \in ExportJobs, job'[k] = "READY"
        PROVE  k \in summaries'
    BY <1>4, <1>5, <2>2
  <2>3. ASSUME NEW v \in Workers, work'[v].at = "ready"
        PROVE  work'[v].job \in summaries'
    BY <1>4, <1>5, <2>3
  <2>4. ExportsSettle'
    BY <2>1, <2>2 DEF ExportsSettle, Working, Exporting
  <2> QED BY <2>3, <2>4 DEF ExportsInv
<1>6. CASE TakeJob(w)
  <2>1. work'[w].at = "export" /\ work'[w].job = j /\ \A v \in Workers \ {w} : work'[v] = work[v]
    BY <1>1, <1>6, OthersStay DEF TakeJob, SavesJob, WorkGoes
  <2>2. job'[j] = "PROCESSING" /\ (\A k \in ExportJobs \ {j} : job'[k] = job[k]) /\ UNCHANGED summaries
    BY <1>2, <1>6 DEF TakeJob, SavesJob, ColTypeOK
  <2> HIDE DEF j
  <2> QED BY <1>5, <2>1, <2>2 DEF Exporting
<1>7. CASE SaveSummary(w)
  <2>1. work'[w].at = "ready" /\ work'[w].job = j /\ \A v \in Workers \ {w} : work'[v] = work[v]
    BY <1>1, <1>7, OthersStay DEF SaveSummary, WorkGoes
  <2>2. UNCHANGED job /\ summaries' = summaries \cup {j}
    BY <1>7 DEF SaveSummary
  <2>3. job[j] = "READY" => j \in summaries
    BY <1>2, <1>4
  <2> HIDE DEF j
  <2> QED BY <1>5, <2>1, <2>2, <2>3 DEF Exporting
<1>8. CASE ExportThrows(w)
  <2>1. work'[w].at = "failed" /\ work'[w].job = j /\ \A v \in Workers \ {w} : work'[v] = work[v]
    BY <1>1, <1>8, OthersStay DEF ExportThrows, WorkGoes
  <2>2. UNCHANGED job /\ UNCHANGED summaries
    BY <1>8 DEF ExportThrows
  <2>3. job[j] = "READY" => j \in summaries
    BY <1>2, <1>4
  <2> HIDE DEF j
  <2> QED BY <1>5, <2>1, <2>2, <2>3 DEF Exporting
<1>9. CASE MarkReady(w)
  <2>1. work'[w].at = "announce" /\ work'[w].job = j /\ \A v \in Workers \ {w} : work'[v] = work[v]
    BY <1>1, <1>9, OthersStay DEF MarkReady, SavesJob, WorkGoes
  <2>2. job'[j] = "READY" /\ (\A k \in ExportJobs \ {j} : job'[k] = job[k]) /\ UNCHANGED summaries
    BY <1>2, <1>9 DEF MarkReady, SavesJob, ColTypeOK
  <2>3. j \in summaries
    BY <1>4, <1>9 DEF MarkReady
  <2> HIDE DEF j
  <2> QED BY <1>5, <2>1, <2>2, <2>3 DEF Exporting
<1>10. CASE MarkFailed(w)
  <2>1. work'[w].at = "idle" /\ \A v \in Workers \ {w} : work'[v] = work[v]
    BY <1>10, OthersStay DEF MarkFailed, SavesJob, WorkGoes, NoWork
  <2>2. job'[j] = "FAILED" /\ (\A k \in ExportJobs \ {j} : job'[k] = job[k]) /\ UNCHANGED summaries
    BY <1>2, <1>10 DEF MarkFailed, SavesJob, ColTypeOK
  <2> HIDE DEF j
  <2> QED BY <1>5, <2>1, <2>2 DEF Exporting
<1>11. CASE MarkFails(w)
  <2>1. work'[w].at = "idle" /\ \A v \in Workers \ {w} : work'[v] = work[v]
    BY <1>11, OthersStay DEF MarkFails, WorkGoes, NoWork
  <2>2. UNCHANGED <<job, summaries>> /\ j \in cut'.jobs
    BY <1>11 DEF MarkFails, ColTypeOK
  <2>3. job[j] = "READY" => j \in summaries
    BY <1>2, <1>4
  <2> HIDE DEF j
  <2> QED BY <1>5, <2>1, <2>2, <2>3 DEF Exporting
<1> QED BY <1>6, <1>7, <1>8, <1>9, <1>10, <1>11

\* A request w that goes on without the rows.
LEMMA WorkerKeeps ==
  ASSUME ColTypeOK, NEW w \in Workers, NEW new, work' = [work EXCEPT ![w] = new]
  PROVE  /\ work[w].at # "detected" /\ new.at # "detected" => \A v \in Workers : Mute(v)
         /\ work[w].at \notin Exporting /\ new.at \notin Exporting => \A v \in Workers : Absent(v)
BY OthersStay DEF Mute, Absent, Exporting

LEMMA WorkKeepsDetected ==
  ASSUME ColTypeOK, DetectedInv, NEW w \in Workers, WorkStep(w)
  PROVE  DetectedInv'
<1>1. CASE InsertCandidates(w)
  BY <1>1, InsertKeepsDetected
<1>2. CASE SaveDetected(w) \/ DetectedLost(w)
  BY <1>2, AnnounceKeepsDetected
<1>3. ASSUME NEW new, WorkGoes(w, new), work[w].at # "detected", new.at # "detected",
             UNCHANGED <<candidate, detected>>, cut'.payments = cut.payments
      PROVE  DetectedInv'
  <2>1. \A v \in Workers : Mute(v)
    BY <1>3, WorkerKeeps DEF WorkGoes
  <2> QED BY <1>3, <2>1, DetectedStays
<1>4. NoWork.at = "idle"
  BY DEF NoWork
<1>5. \A at : [work[w] EXCEPT !.at = at].at = at
  BY WorkRows DEF Work
<1>6. CASE ReadCandidates(w)
  <2>1. [work[w] EXCEPT !.at = "insert", !.payments = {p \in work[w].payments : candidate[p] = "none"}].at = "insert"
    BY WorkRows DEF Work
  <2> QED BY <1>3, <1>4, <1>6, <2>1 DEF ReadCandidates
<1>7. CASE InsertRefused(w) \/ RequestFails(w) \/ Announced(w) \/ ComputeSnapshots(w)
  BY <1>3, <1>4, <1>7 DEF InsertRefused, RequestFails, Announced, ComputeSnapshots
<1>8. CASE TakeJob(w) \/ MarkReady(w) \/ MarkFailed(w)
  <2>1. cut'.payments = cut.payments
    BY <1>8 DEF TakeJob, MarkReady, MarkFailed, SavesJob, ColTypeOK
  <2> QED BY <1>3, <1>4, <1>5, <1>8, <2>1 DEF TakeJob, MarkReady, MarkFailed, SavesJob
<1>10. CASE MarkFails(w)
  <2>1. cut'.payments = cut.payments
    BY <1>10 DEF MarkFails, ColTypeOK
  <2> QED BY <1>3, <1>4, <1>10, <2>1 DEF MarkFails
<1>9. CASE SaveSummary(w) \/ ExportThrows(w)
  BY <1>3, <1>5, <1>9 DEF SaveSummary, ExportThrows
<1> QED BY <1>1, <1>2, <1>6, <1>7, <1>8, <1>9, <1>10 DEF WorkStep

LEMMA WorkKeepsExports ==
  ASSUME ColTypeOK, ExportsInv, NEW w \in Workers, WorkStep(w)
  PROVE  ExportsInv'
<1>1. CASE TakeJob(w) \/ SaveSummary(w) \/ ExportThrows(w) \/ MarkReady(w) \/ MarkFailed(w) \/ MarkFails(w)
  BY <1>1, ExportKeepsExports
<1>2. ASSUME NEW new, work' = [work EXCEPT ![w] = new], UNCHANGED <<job, summaries>>,
             cut'.jobs = cut.jobs,
             work[w].at \notin Exporting, new.at \notin Exporting
      PROVE  ExportsInv'
  <2>1. \A v \in Workers : Absent(v)
    BY <1>2, WorkerKeeps
  <2>2. \A v \in Workers : /\ work'[v].at \in Exporting <=> work[v].at \in Exporting
                         /\ work[v].at \in Exporting => work'[v] = work[v]
    BY <2>1 DEF Absent
  <2>3. ExportsSettle'
    BY <1>2, <2>2 DEF ExportsInv, ExportsSettle, Working, Exporting
  <2>4. \A v \in Workers : work'[v].at = "ready" => work'[v].job \in summaries'
    BY <1>2, <2>2 DEF ExportsInv, Working, Exporting
  <2> QED BY <2>3, <2>4 DEF ExportsInv, Working
<1>3. NoWork.at \notin Exporting
  BY DEF NoWork, Exporting
<1>4. CASE ReadCandidates(w)
  <2> DEFINE new == [work[w] EXCEPT !.at = "insert", !.payments = {p \in work[w].payments : candidate[p] = "none"}]
  <2>1. new.at \notin Exporting /\ work[w].at \notin Exporting
    BY <1>4, WorkRows DEF Work, Exporting, ReadCandidates
  <2>2. /\ work' = [work EXCEPT ![w] = NoWork] \/ work' = [work EXCEPT ![w] = new]
        /\ UNCHANGED <<job, summaries>> /\ cut'.jobs = cut.jobs
    BY <1>4 DEF ReadCandidates, WorkGoes
  <2> HIDE DEF new
  <2> QED BY <1>2, <1>3, <2>1, <2>2
<1>5. CASE InsertCandidates(w)
  <2> DEFINE new == [work[w] EXCEPT !.at = "detected"]
  <2>1. new.at \notin Exporting /\ work[w].at \notin Exporting
    BY <1>5, WorkRows DEF Work, Exporting, InsertCandidates
  <2>2. /\ work' = [work EXCEPT ![w] = new]
        /\ UNCHANGED <<job, summaries>> /\ cut'.jobs = cut.jobs
    BY <1>5 DEF InsertCandidates, WorkGoes
  <2> HIDE DEF new
  <2> QED BY <1>2, <2>1, <2>2
<1>6. CASE InsertRefused(w) \/ RequestFails(w) \/ Announced(w) \/ ComputeSnapshots(w) \/ SaveDetected(w) \/ DetectedLost(w)
  <2>1. work[w].at \notin Exporting
    BY <1>6 DEF InsertRefused, RequestFails, Announced, ComputeSnapshots, SaveDetected, DetectedLost, Exporting
  <2>2. work' = [work EXCEPT ![w] = NoWork] /\ UNCHANGED <<job, summaries>>
    BY <1>6 DEF InsertRefused, RequestFails, Announced, ComputeSnapshots, SaveDetected, DetectedLost, WorkGoes
  <2>3. cut'.jobs = cut.jobs
    BY <1>6 DEF InsertRefused, RequestFails, Announced, ComputeSnapshots, SaveDetected, DetectedLost, ColTypeOK
  <2> QED BY <1>2, <1>3, <2>1, <2>2, <2>3
<1> QED BY <1>1, <1>4, <1>5, <1>6 DEF WorkStep

LEMMA ColKeepsRows == ColTypeOK /\ DetectedInv /\ ExportsInv /\ ColNext => DetectedInv' /\ ExportsInv'
<1> SUFFICES ASSUME ColTypeOK, DetectedInv, ExportsInv, ColNext PROVE DetectedInv' /\ ExportsInv'
  OBVIOUS
<1>1. ASSUME UNCHANGED <<detected, cut, work, summaries>>,
             \A p \in Payments : candidate'[p] = candidate[p] \/ (candidate[p] # "none" /\ candidate'[p] # "none"),
             \A j \in ExportJobs : job'[j] = job[j] \/ job'[j] \notin {"PROCESSING", "READY"}
      PROVE  DetectedInv' /\ ExportsInv'
  <2>1. \A w \in Workers : Mute(w) /\ Absent(w)
    BY <1>1 DEF Mute, Absent
  <2>2. DetectedInv'
    BY <1>1, <2>1, DetectedStays
  <2>3. ExportsInv'
    BY <1>1, <2>1, ExportsStay
  <2> QED BY <2>2, <2>3
<1>2. ASSUME NEW w \in Workers, NEW new, Asks(w, new), new.at \notin {"detected", "export", "ready", "failed"},
             UNCHANGED <<candidate, detected, job, summaries, cut>>
      PROVE  DetectedInv' /\ ExportsInv'
  <2>1. \A v \in Workers : Mute(v) /\ Absent(v)
    BY <1>2, WorkerKeeps DEF Asks, Exporting
  <2>2. DetectedInv'
    BY <1>2, <2>1, DetectedStays
  <2>3. ExportsInv'
    BY <1>2, <2>1, ExportsStay
  <2> QED BY <2>2, <2>3
<1>3. ASSUME NEW p \in Payments, PaymentMoves(p)
      PROVE  DetectedInv' /\ ExportsInv'
  BY <1>1, <1>3 DEF PaymentMoves
<1>4. ASSUME NEW p \in Payments, Notify(p)
      PROVE  DetectedInv' /\ ExportsInv'
  BY <1>1, <1>4 DEF Notify, ColTypeOK
<1>5. ASSUME NEW j \in ExportJobs, CreateJob(j)
      PROVE  DetectedInv' /\ ExportsInv'
  BY <1>1, <1>5 DEF CreateJob, ColTypeOK
<1>6. ASSUME NEW w \in Workers, AskRecovery(w)
      PROVE  DetectedInv' /\ ExportsInv'
  <2>1. [NoWork EXCEPT !.at = "candidates", !.payments = Scanned].at = "candidates"
    BY DEF NoWork
  <2> QED BY <1>2, <1>6, <2>1 DEF AskRecovery
<1>7. ASSUME NEW w \in Workers, NEW j \in ExportJobs, AskExport(w, j)
      PROVE  DetectedInv' /\ ExportsInv'
  <2>1. [NoWork EXCEPT !.at = "take", !.job = j].at = "take"
    BY DEF NoWork
  <2> QED BY <1>2, <1>7, <2>1 DEF AskExport
<1>8. ASSUME NEW w \in Workers, NEW dry \in BOOLEAN, RunCampaign(w, dry)
      PROVE  DetectedInv' /\ ExportsInv'
  <2>1. PICK n \in Runs :
          /\ Asks(w, IF dry THEN NoWork ELSE [NoWork EXCEPT !.at = "snapshots", !.run = n])
          /\ UNCHANGED <<payment, candidate, detected, job, summaries, executed, cut>>
    BY <1>8 DEF RunCampaign
  <2>2. NoWork.at = "idle" /\ [NoWork EXCEPT !.at = "snapshots", !.run = n].at = "snapshots"
    BY DEF NoWork
  <2> QED BY <1>2, <2>1, <2>2
<1>9. ASSUME NEW w \in Workers, Scheduled(w)
      PROVE  DetectedInv' /\ ExportsInv'
  BY <1>8, <1>9 DEF Scheduled
<1>10. ASSUME NEW w \in Workers, WorkStep(w)
      PROVE  DetectedInv' /\ ExportsInv'
  BY <1>10, WorkKeepsDetected, WorkKeepsExports
<1> QED BY <1>3, <1>4, <1>5, <1>6, <1>7, <1>8, <1>9, <1>10 DEF ColNext

LEMMA DyingKeepsRows ==
  ASSUME ColTypeOK, DetectedInv, ExportsInv, WorkersDie
  PROVE  DetectedInv' /\ ExportsInv'
<1> DEFINE lost(at) == {w \in Workers : work[w].at \in at}
<1>1. /\ cut' = [payments |-> cut.payments \cup UNION {work[w].payments : w \in lost({"detected"})},
                 jobs |-> cut.jobs \cup {work[w].job : w \in lost({"export", "ready", "failed"})},
                 runs |-> cut.runs \cup {work[w].run : w \in lost({"snapshots"})}]
      /\ UNCHANGED <<candidate, detected, job, summaries>>
      /\ work' = [w \in Workers |-> NoWork]
  BY DEF WorkersDie
<1>2. \A w \in Workers : work'[w].at = "idle"
  BY <1>1 DEF NoWork
<1>3. cut'.payments = cut.payments \cup UNION {work[w].payments : w \in Working({"detected"})}
  BY <1>1 DEF Working
<1>4. cut'.jobs = cut.jobs \cup {work[w].job : w \in Working({"export", "ready", "failed"})}
  BY <1>1 DEF Working
<1>5. DetectedOnce'
  <2> SUFFICES ASSUME NEW p \in Payments
               PROVE  \/ candidate'[p] # "none" /\ detected'[p] = 1
                      \/ candidate'[p] = "none" /\ detected'[p] = 0
                      \/ detected'[p] = 0 /\ p \in cut'.payments
    BY DEF DetectedOnce
  <2> QED BY <1>1, <1>3 DEF DetectedInv, DetectedOnce
<1>6. ExportsSettle'
  <2> SUFFICES ASSUME NEW j \in ExportJobs
               PROVE  /\ job'[j] = "PROCESSING" => j \in cut'.jobs
                      /\ job'[j] = "READY" => j \in summaries'
    BY DEF ExportsSettle
  <2> QED BY <1>1, <1>4 DEF ExportsInv, ExportsSettle
<1> QED BY <1>2, <1>5, <1>6 DEF DetectedInv, ExportsInv, Working

\* However requests overlap and wherever the process dies: what is detected is announced
\* once, and the status of an export tells what became of it.
THEOREM JobRowsAreTrue == Spec => []JobRowsHold
<1>1. Init => DetectedInv /\ ExportsInv
  <2> SUFFICES ASSUME Init PROVE DetectedInv /\ ExportsInv
    OBVIOUS
  <2>1. /\ \A p \in Payments : candidate[p] = "none" /\ detected[p] = 0
        /\ \A j \in ExportJobs : job[j] = "none"
        /\ \A w \in Workers : work[w].at = "idle"
    BY DEF Init, ColInit, NoWork
  <2> QED BY <2>1 DEF DetectedInv, ExportsInv, DetectedOnce, ExportsSettle, Working
<1>2. TypeOK /\ DetectedInv /\ ExportsInv /\ [Next]_vars => DetectedInv' /\ ExportsInv'
  <2> SUFFICES ASSUME TypeOK, DetectedInv, ExportsInv, [Next]_vars PROVE DetectedInv' /\ ExportsInv'
    OBVIOUS
  <2> ColTypeOK
    BY DEF TypeOK
  <2>1. CASE UNCHANGED colVars
    <3>1. UNCHANGED candidate /\ UNCHANGED detected /\ UNCHANGED cut /\ UNCHANGED summaries
          /\ UNCHANGED job /\ UNCHANGED work
      BY <2>1 DEF colVars
    <3>2. \A w \in Workers : Mute(w) /\ Absent(w)
      BY <3>1 DEF Mute, Absent
    <3>3. DetectedInv'
      BY <3>1, <3>2, DetectedStays
    <3>4. ExportsInv'
      BY <3>1, <3>2, ExportsStay
    <3> QED BY <3>3, <3>4
  <2>2. CASE ColNext
    BY <2>2, ColKeepsRows
  <2>3. CASE Crash
    BY <2>3, DyingKeepsRows DEF Crash
  <2> QED BY <2>1, <2>2, <2>3 DEF Next, vars
<1>3. DetectedInv /\ ExportsInv => JobRowsHold
  BY DEF DetectedInv, ExportsInv, JobRowsHold
<1> QED BY TypeCorrect, <1>1, <1>2, <1>3, PTL DEF Spec

-----------------------------------------------------------------------------
(* The paths of an import.  While its copy of the groups is the table, a path has *)
(* been followed as far as `below`, and the names, which no two groups share,     *)
(* leave one group at the end of each that was finished.                          *)

\* No two groups have one name, and none is where the next one will be.
GroupsInv ==
    /\ \A g, h \in Groups : Here(g) /\ Here(h) /\ group[g].name = group[h].name => g = h
    /\ \A g \in Groups : Here(g) => g <= made.groups
    /\ \A r \in DirRequests : task[r].group <= made.groups

\* The groups along the first i names of the path; g is where these lead.
Along(path, i, s) ==
    \A j \in 1..i : /\ Here(s[j]) /\ group[s[j]].name = path[j]
                    /\ group[s[j]].parent = IF j = 1 THEN NoGroup ELSE s[j - 1]
Reached(path, i, g) ==
    \/ i = 0 /\ g = NoGroup
    \/ i # 0 /\ \E s \in [1..i -> Groups] : s[i] = g /\ Along(path, i, s)

\* The task t has followed i names of the path.
Partway(t, path, i) ==
    /\ Len(t.rest) = Len(path) - i /\ \A j \in 1..Len(t.rest) : t.rest[j] = path[i + j]
    /\ Reached(path, i, t.below)

Walks(t, done) ==
    /\ t.snap = group
    /\ \A path \in done : \E g \in Groups : LeadsTo(path, g)
    /\ t.chosen = t.given \cup {g \in Groups : \E path \in done : LeadsTo(path, g)}
    /\ t.rest = <<>> => t.paths = t.todo \cup done
    /\ t.rest # <<>> => \E path \in Paths : \E i \in 0..Len(path) :
                           Partway(t, path, i) /\ t.paths = t.todo \cup done \cup {path}

Current(t) == t.at = "walk" /\ t.clean

WalkInv == \A r \in DirRequests : Current(task[r]) => \E done \in SUBSET Paths : Walks(task[r], done)

PathsInv == GroupsInv /\ WalkInv

\* The task a step leaves names a group that there is, or was; the copy of an import
\* that did not step is the table still, or known not to be.
Placed(q) == task'[q].group \in {1, task[q].group} \/ (task'[q].group \in Groups /\ Here(task'[q].group))
Waits(q)  == Current(task'[q]) => task'[q] = task[q]

LEMMA PlacedGroups ==
  ASSUME TypeOK, GroupsInv, made.groups <= made'.groups, made'.groups \in Nat,
         NEW q \in DirRequests, Placed(q)
  PROVE  task'[q].group <= made'.groups
<1>1. /\ task[q].group \in Nat /\ task[q].group <= made.groups
      /\ made.groups \in Nat /\ 1 <= made.groups
  BY DEF TypeOK, DirTypeOK, Task, Groups, GroupsInv
<1>2. CASE task'[q].group \in {1, task[q].group}
  BY <1>1, <1>2
<1>3. CASE task'[q].group \in Groups /\ Here(task'[q].group)
  <2>1. task'[q].group \in Nat /\ task'[q].group <= made.groups
    BY <1>3 DEF GroupsInv, Groups
  <2> QED BY <1>1, <2>1
<1> QED BY <1>2, <1>3 DEF Placed

LEMMA NewWalk ==
  ASSUME group' = group, NEW q, NEW t, task'[q] = t, NEW done, Walks(t, done)
  PROVE  Walks(task[q], done)'
<1>1. \A path, g : LeadsTo(path, g)' <=> LeadsTo(path, g)
  BY DEF LeadsTo, Here
<1>2. \A path, i, g : Reached(path, i, g)' <=> Reached(path, i, g)
  BY DEF Reached, Along, Here
<1>3. \A path, i : Partway(t, path, i)' <=> Partway(t, path, i)
  BY <1>2 DEF Partway
<1>4. Walks(t, done)'
  BY <1>1, <1>3 DEF Walks
<1> QED BY <1>4 DEF Walks, Partway

\* Steps that write no group.
LEMMA PathsStay ==
  ASSUME TypeOK, PathsInv, group' = group, made'.groups = made.groups,
         \A q \in DirRequests : Placed(q) /\ Waits(q)
  PROVE  PathsInv'
<1>1. GroupsInv'
  <2>1. made.groups \in Nat /\ made.groups <= made'.groups
    BY DEF TypeOK, DirTypeOK, Groups
  <2>2. \A q \in DirRequests : task'[q].group <= made'.groups
    BY <2>1, PlacedGroups DEF PathsInv
  <2> QED BY <2>2 DEF PathsInv, GroupsInv, Here
<1>2. WalkInv'
  <2> SUFFICES ASSUME NEW q \in DirRequests, Current(task'[q])
               PROVE  \E done \in SUBSET Paths : Walks(task[q], done)'
    BY DEF WalkInv, Current
  <2>1. task'[q] = task[q]
    BY DEF Waits
  <2>2. PICK done \in SUBSET Paths : Walks(task[q], done)
    BY <2>1 DEF PathsInv, WalkInv
  <2>3. Walks(task[q], done)'
    BY <2>1, <2>2, NewWalk
  <2> QED BY <2>3
<1> QED BY <1>1, <1>2 DEF PathsInv

\* Writes of a group as the database lets them through: every import's copy ages.
LEMMA PathsWritten ==
  ASSUME TypeOK, PathsInv, NEW g \in Groups, NEW row, group' = [group EXCEPT ![g] = row],
         ValidRow(g, row), made'.groups \in Nat, g <= made'.groups, made.groups <= made'.groups,
         \A q \in DirRequests : Placed(q)
  PROVE  /\ GroupsInv'
         /\ (\A q \in DirRequests : ~Current(task'[q])) => PathsInv'
<1>1. \A q \in DirRequests : task'[q].group <= made'.groups
  BY PlacedGroups DEF PathsInv
<1>2. ASSUME NEW h \in Groups, group'[h].here
      PROVE  h <= made'.groups
  <2>1. h = g \/ Here(h)
    BY <1>2 DEF TypeOK, DirTypeOK, Here
  <2>2. Here(h) => h <= made.groups
    BY DEF PathsInv, GroupsInv
  <2> QED BY <2>1, <2>2 DEF TypeOK, DirTypeOK, Groups
<1>3. ASSUME NEW h \in Groups, NEW k \in Groups, group'[h].here, group'[k].here,
             group'[h].name = group'[k].name
      PROVE  h = k
  BY <1>3 DEF TypeOK, DirTypeOK, ValidRow, Here, PathsInv, GroupsInv
<1>4. GroupsInv'
  BY <1>1, <1>2, <1>3 DEF GroupsInv, Here
<1> QED BY <1>4 DEF PathsInv, WalkInv

LEMMA PathsShrunk ==
  ASSUME TypeOK, PathsInv, made'.groups = made.groups,
         \A g \in Groups : group'[g].here => Here(g) /\ group'[g].name = group[g].name,
         \A q \in DirRequests : Placed(q) /\ ~Current(task'[q])
  PROVE  PathsInv'
<1>1. made.groups \in Nat /\ made.groups <= made'.groups
  BY DEF TypeOK, DirTypeOK, Groups
<1>2. \A q \in DirRequests : task'[q].group <= made'.groups
  BY <1>1, PlacedGroups DEF PathsInv
<1>3. GroupsInv'
  BY <1>2 DEF PathsInv, GroupsInv, Here
<1> QED BY <1>3 DEF PathsInv, WalkInv

\* What the steps leave of the tasks.
LEMMA NoTaskWaits == NoTask.group = 1 /\ ~Current(NoTask)
BY DEF NoTask, Current

LEMMA TaskWaits ==
  ASSUME TypeOK, NEW r \in DirRequests, NEW new, task' = [task EXCEPT ![r] = new],
         new.group \in {1, task[r].group} \/ (new.group \in Groups /\ Here(new.group))
  PROVE  /\ \A q \in DirRequests : Placed(q)
         /\ \A q \in DirRequests \ {r} : Waits(q)
         /\ task'[r] = new
         /\ ~Current(new) => \A q \in DirRequests : Waits(q)
<1>1. task'[r] = new /\ \A q \in DirRequests \ {r} : task'[q] = task[q]
  BY DEF TypeOK, DirTypeOK
<1> QED BY <1>1 DEF Placed, Waits

LEMMA AgedWaits ==
  ASSUME TypeOK, NEW r, NEW new, task' = Aged(r, new),
         r \in DirRequests => new.group \in {1, task[r].group}
  PROVE  /\ \A q \in DirRequests : Placed(q)
         /\ \A q \in DirRequests \ {r} : ~Current(task'[q])
         /\ r \in DirRequests => task'[r] = new
<1>1. ASSUME NEW q \in DirRequests \ {r}
      PROVE  task'[q].group = task[q].group /\ ~Current(task'[q])
  <2>1. task[q] \in Task
    BY DEF TypeOK, DirTypeOK
  <2>2. task'[q] = IF task[q].at = "walk" THEN [task[q] EXCEPT !.clean = FALSE] ELSE task[q]
    BY DEF Aged
  <2> QED BY <2>1, <2>2 DEF Task, Current
<1>2. r \in DirRequests => task'[r] = new
  BY DEF Aged
<1> QED BY <1>1, <1>2 DEF Placed

\* The next name of a path, found or created, is one group further along it.
LEMMA OneFurther ==
  ASSUME TypeOK, NEW path \in Seq(Names), NEW i \in Nat, i < Len(path), NEW below, NEW g \in Groups,
         Reached(path, i, below),
         \A h \in Groups : Here(h) => group'[h] = group[h],
         group'[g].here, group'[g].name = path[i + 1], group'[g].parent = below
  PROVE  Reached(path, i + 1, g)'
<1>1. CASE i = 0
  <2>1. PICK s \in [1..1 -> Groups] : s[1] = g
    <3>1. [j \in 1..1 |-> g] \in [1..1 -> Groups] /\ [j \in 1..1 |-> g][1] = g
      OBVIOUS
    <3> QED BY <3>1
  <2>2. below = NoGroup
    BY <1>1 DEF Reached
  <2>3. Along(path, 1, s)'
    BY <1>1, <2>1, <2>2 DEF Along, Here
  <2> QED BY <1>1, <2>1, <2>3 DEF Reached
<1>2. CASE i # 0
  <2>1. PICK s \in [1..i -> Groups] : s[i] = below /\ Along(path, i, s)
    BY <1>2 DEF Reached
  <2>2. PICK u \in [1..(i + 1) -> Groups] : u[i + 1] = g /\ \A j \in 1..i : u[j] = s[j]
    <3> DEFINE v == [j \in 1..(i + 1) |-> IF j <= i THEN s[j] ELSE g]
    <3>1. v \in [1..(i + 1) -> Groups]
      OBVIOUS
    <3>2. v[i + 1] = g /\ \A j \in 1..i : v[j] = s[j]
      OBVIOUS
    <3> HIDE DEF v
    <3> QED BY <3>1, <3>2
  <2>3. ASSUME NEW j \in 1..(i + 1)
        PROVE  /\ group'[u[j]].here /\ group'[u[j]].name = path[j]
               /\ group'[u[j]].parent = IF j = 1 THEN NoGroup ELSE u[j - 1]
    <3>1. CASE j = i + 1
      <4>1. j # 1 /\ j - 1 = i /\ u[j - 1] = below /\ u[j] = g
        BY <1>2, <2>1, <2>2, <3>1
      <4> QED BY <3>1, <4>1
    <3>2. CASE j # i + 1
      <4>1. j \in 1..i /\ u[j] = s[j] /\ (j # 1 => u[j - 1] = s[j - 1])
        BY <2>2, <3>2
      <4>2. /\ s[j] \in Groups /\ Here(s[j]) /\ group[s[j]].name = path[j]
            /\ group[s[j]].parent = IF j = 1 THEN NoGroup ELSE s[j - 1]
        BY <2>1, <4>1 DEF Along
      <4>3. group'[s[j]] = group[s[j]]
        BY <4>2
      <4> QED BY <4>1, <4>2, <4>3 DEF Here
    <3> QED BY <3>1, <3>2
  <2>4. Along(path, i + 1, u)'
    BY <2>3 DEF Along, Here
  <2>5. i + 1 # 0
    OBVIOUS
  <2> QED BY <2>2, <2>4, <2>5 DEF Reached
<1> QED BY <1>1, <1>2

LEMMA EndReached ==
  ASSUME NEW path \in Seq(Names), path # <<>>, NEW g, Reached(path, Len(path), g)'
  PROVE  LeadsTo(path, g)'
<1>1. Len(path) # 0
  OBVIOUS
<1> QED BY <1>1 DEF Reached, Along, LeadsTo

\* A path that led to a group still leads there, and to no other.
LEMMA SameEnds ==
  ASSUME TypeOK, GroupsInv', NEW path \in Seq(Names), path # <<>>, NEW g \in Groups,
         LeadsTo(path, g)' \/ (LeadsTo(path, g) /\ \A h \in Groups : Here(h) => group'[h] = group[h])
  PROVE  LeadsTo(path, g)' /\ \A h \in Groups : LeadsTo(path, h)' => h = g
<1>1. Len(path) \in Nat /\ Len(path) \in 1..Len(path)
  OBVIOUS
<1>2. LeadsTo(path, g)'
  <2> SUFFICES ASSUME LeadsTo(path, g), \A h \in Groups : Here(h) => group'[h] = group[h]
               PROVE  LeadsTo(path, g)'
    OBVIOUS
  <2>1. PICK s \in [1..Len(path) -> Groups] :
          /\ s[Len(path)] = g
          /\ \A i \in 1..Len(path) :
                /\ Here(s[i]) /\ group[s[i]].name = path[i]
                /\ group[s[i]].parent = IF i = 1 THEN NoGroup ELSE s[i - 1]
    BY DEF LeadsTo
  <2>2. \A i \in 1..Len(path) : group'[s[i]] = group[s[i]]
    BY <2>1
  <2> QED BY <2>1, <2>2 DEF LeadsTo, Here
<1>3. \A h \in Groups : LeadsTo(path, h)' => group'[h].here /\ group'[h].name = path[Len(path)]
  BY <1>1 DEF LeadsTo, Here
<1> QED BY <1>2, <1>3 DEF GroupsInv, Here

\* One step down a path, at a group that was found or has just been created.
LEMMA StepsDown ==
  ASSUME TypeOK, GroupsInv', NEW t \in Task, NEW g \in Groups, NEW new, NEW done \in SUBSET Paths,
         Walks(t, done), t.rest # <<>>,
         \A h \in Groups : Here(h) => group'[h] = group[h],
         group'[g].here, group'[g].name = Head(t.rest), group'[g].parent = t.below,
         new.snap = group', new.below = g, new.rest = Tail(t.rest),
         new.todo = t.todo, new.paths = t.paths, new.given = t.given,
         new.chosen = IF Len(t.rest) = 1 THEN t.chosen \cup {g} ELSE t.chosen
  PROVE  \E past \in SUBSET Paths : Walks(new, past)'
<1>1. /\ t.rest \in Seq(Names) /\ t.chosen \subseteq Groups
      /\ \A path \in Paths : path \in Seq(Names) /\ path # <<>>
  BY DirectoryAssumption DEF Task
<1>0. PICK path \in Paths : \E i \in 0..Len(path) :
        Partway(t, path, i) /\ t.paths = t.todo \cup done \cup {path}
  BY DEF Walks
<1>2. PICK i \in 0..Len(path) : Partway(t, path, i) /\ t.paths = t.todo \cup done \cup {path}
  BY <1>0
<1>3. /\ path \in Seq(Names) /\ path # <<>> /\ i \in Nat /\ Len(path) \in Nat
      /\ Len(t.rest) \in Nat /\ Len(t.rest) # 0
      /\ Len(t.rest) = Len(path) - i /\ \A j \in 1..Len(t.rest) : t.rest[j] = path[i + j]
      /\ Reached(path, i, t.below)
  BY <1>1, <1>2 DEF Partway
<1>4. i < Len(path) /\ Head(t.rest) = path[i + 1]
  <2>1. PICK m \in Nat, k \in Nat : m = Len(path) /\ k = Len(t.rest) /\ k # 0 /\ k = m - i
    BY <1>3
  <2>2. i < Len(path) /\ 1 \in 1..Len(t.rest)
    BY <1>2, <2>1
  <2>3. Head(t.rest) = t.rest[1]
    BY <1>1
  <2> QED BY <1>3, <2>2, <2>3
<1>5. Reached(path, i + 1, g)'
  BY <1>3, <1>4, OneFurther
<1>6. \A p \in done, h \in Groups : LeadsTo(p, h)' <=> LeadsTo(p, h)
  <2> SUFFICES ASSUME NEW p \in done PROVE \A h \in Groups : LeadsTo(p, h)' <=> LeadsTo(p, h)
    OBVIOUS
  <2>1. p \in Seq(Names) /\ p # <<>>
    BY <1>1
  <2>2. PICK k \in Groups : LeadsTo(p, k)
    BY DEF Walks
  <2>3. LeadsTo(p, k)' /\ \A h \in Groups : LeadsTo(p, h)' => h = k
    BY <2>1, <2>2, SameEnds
  <2>4. \A h \in Groups : LeadsTo(p, h) => LeadsTo(p, h)'
    BY <2>1, SameEnds
  <2> QED BY <2>2, <2>3, <2>4
<1>7. /\ \A p \in done : \E h \in Groups : LeadsTo(p, h)'
      /\ t.chosen = t.given \cup {h \in Groups : \E p \in done : LeadsTo(p, h)'}
  BY <1>6 DEF Walks
<1>8. /\ Len(new.rest) = Len(t.rest) - 1
      /\ \A j \in 1..Len(new.rest) : new.rest[j] = t.rest[j + 1]
      /\ new.rest = <<>> <=> Len(t.rest) = 1
  BY <1>1, <1>3
<1>9. CASE Len(t.rest) = 1
  <2>1. i + 1 = Len(path)
    <3>1. PICK m \in Nat : m = Len(path) /\ 1 = m - i
      BY <1>3, <1>9
    <3> QED BY <1>2, <3>1
  <2>2. LeadsTo(path, g)'
    BY <1>3, <1>5, <2>1, EndReached
  <2>3. \A h \in Groups : LeadsTo(path, h)' <=> h = g
    BY <1>3, <2>2, SameEnds
  <2>4. PICK past \in SUBSET Paths : past = done \cup {path}
    OBVIOUS
  <2>5. \A p \in past : \E h \in Groups : LeadsTo(p, h)'
    BY <1>7, <2>2, <2>4
  <2>6. new.chosen = new.given \cup {h \in Groups : \E p \in past : LeadsTo(p, h)'}
    <3>1. {h \in Groups : \E p \in past : LeadsTo(p, h)'}
          = {h \in Groups : \E p \in done : LeadsTo(p, h)'} \cup {g}
      BY <2>3, <2>4
    <3> QED BY <1>7, <1>9, <3>1
  <2>7. new.rest = <<>> /\ new.paths = new.todo \cup past
    BY <1>2, <1>8, <1>9, <2>4
  <2>8. Walks(new, past)'
    BY <2>5, <2>6, <2>7 DEF Walks
  <2> QED BY <2>8
<1>10. CASE Len(t.rest) # 1
  <2>1. PICK n \in 0..Len(path) : n = i + 1
    BY <1>3, <1>4
  <2>2. Len(new.rest) = Len(path) - n
    BY <1>3, <1>8, <2>1
  <2>3. ASSUME NEW j \in 1..Len(new.rest) PROVE new.rest[j] = path[n + j]
    <3>1. j + 1 \in 1..Len(t.rest) /\ new.rest[j] = t.rest[j + 1]
      BY <1>3, <1>8
    <3>2. t.rest[j + 1] = path[i + (j + 1)]
      BY <1>3, <3>1
    <3>3. i + (j + 1) = n + j
      BY <1>3, <2>1
    <3> QED BY <3>1, <3>2, <3>3
  <2>4. Partway(new, path, n)'
    BY <1>5, <2>1, <2>2, <2>3 DEF Partway
  <2>5. new.rest # <<>> /\ new.paths = new.todo \cup done \cup {path}
    BY <1>2, <1>8, <1>10
  <2>6. new.chosen = new.given \cup {h \in Groups : \E p \in done : LeadsTo(p, h)'}
    BY <1>7, <1>10
  <2>7. Walks(new, done)'
    BY <1>7, <2>4, <2>5, <2>6 DEF Walks
  <2> QED BY <2>7
<1> QED BY <1>9, <1>10

\* A step of one import that leaves the others where they are, or with aged copies.
LEMMA PathsWalked ==
  ASSUME TypeOK, PathsInv, GroupsInv', NEW r \in DirRequests,
         \A q \in DirRequests \ {r} : Waits(q),
         group' = group \/ \A q \in DirRequests \ {r} : ~Current(task'[q]),
         Current(task'[r]) => \E done \in SUBSET Paths : Walks(task[r], done)'
  PROVE  PathsInv'
<1> SUFFICES ASSUME NEW q \in DirRequests \ {r}, Current(task'[q])
             PROVE  \E done \in SUBSET Paths : Walks(task[q], done)'
  BY DEF PathsInv, WalkInv, Current
<1>1. task'[q] = task[q] /\ group' = group
  BY DEF Waits
<1>2. PICK done \in SUBSET Paths : Walks(task[q], done)
  BY <1>1 DEF PathsInv, WalkInv
<1>3. Walks(task[q], done)'
  BY <1>1, <1>2, NewWalk
<1> QED BY <1>3

LEMMA PathsTask ==
  ASSUME TypeOK, PathsInv, NEW r \in DirRequests, NEW new, task' = [task EXCEPT ![r] = new],
         UNCHANGED <<group, made>>, ~Current(new),
         new.group \in {1, task[r].group} \/ (new.group \in Groups /\ Here(new.group))
  PROVE  PathsInv'
<1>1. \A q \in DirRequests : Placed(q) /\ Waits(q)
  BY TaskWaits
<1> QED BY <1>1, PathsStay

LEMMA PathsRefused ==
  ASSUME TypeOK, PathsInv, NEW r \in DirRequests, Refused(r)
  PROVE  PathsInv'
<1>1. UNCHANGED <<group, made>> /\ task' = [task EXCEPT ![r] = NoTask]
  BY DEF Refused, tables
<1> QED BY <1>1, NoTaskWaits, PathsTask

LEMMA PathsGoes ==
  ASSUME TypeOK, PathsInv, NEW r \in DirRequests, NEW at, Goes(r, at), at # "walk"
  PROVE  PathsInv'
<1>1. UNCHANGED <<group, made>> /\ task' = [task EXCEPT ![r] = [task[r] EXCEPT !.at = at]]
  BY DEF Goes, tables
<1>2. [task[r] EXCEPT !.at = at].at = at /\ [task[r] EXCEPT !.at = at].group = task[r].group
  BY DEF TypeOK, DirTypeOK, Task
<1>3. ~Current([task[r] EXCEPT !.at = at])
  BY <1>2 DEF Current
<1> QED BY <1>1, <1>2, <1>3, PathsTask

LEMMA PathsEnter ==
  ASSUME TypeOK, PathsInv, NEW r \in DirRequests, NEW new, Enters(r, new), new.at # "walk",
         new.group = 1 \/ (new.group \in Groups /\ Here(new.group))
  PROVE  PathsInv'
<1>1. UNCHANGED <<group, made>> /\ task' = [task EXCEPT ![r] = new]
  BY DEF Enters, tables
<1>2. ~Current(new)
  BY DEF Current
<1> QED BY <1>1, <1>2, PathsTask

LEMMA AsksKeepPaths ==
  ASSUME TypeOK, PathsInv, NEW r \in DirRequests, NEW g \in Groups, NEW c \in Contacts,
         AskDetach(r, g) \/ AskDelete(r, g) \/ AskAdd(r, g, c) \/ AskRemove(r, g, c)
  PROVE  PathsInv'
<1>1. CASE AskDetach(r, g)
  <2> DEFINE new == [NoTask EXCEPT !.op = "detach", !.at = "detach", !.group = g]
  <2>1. new.at # "walk" /\ new.group = g
    BY DEF NoTask
  <2>2. Enters(r, new) /\ Here(g)
    BY <1>1 DEF AskDetach
  <2> HIDE DEF new
  <2> QED BY <2>1, <2>2, PathsEnter
<1>2. CASE AskDelete(r, g)
  <2> DEFINE new == [NoTask EXCEPT !.op = "delete", !.at = "children", !.group = g]
  <2>1. new.at # "walk" /\ new.group = g
    BY DEF NoTask
  <2>2. Enters(r, new) /\ Here(g)
    BY <1>2 DEF AskDelete
  <2> HIDE DEF new
  <2> QED BY <2>1, <2>2, PathsEnter
<1>3. CASE AskAdd(r, g, c)
  <2> DEFINE new == [NoTask EXCEPT !.op = "add", !.at = "pick", !.group = g, !.row = group[g],
                                   !.set = Members(g), !.contact = c]
  <2>1. new.at # "walk" /\ new.group = g
    BY DEF NoTask
  <2>2. Enters(r, new) /\ Here(g)
    BY <1>3 DEF AskAdd
  <2> HIDE DEF new
  <2> QED BY <2>1, <2>2, PathsEnter
<1>4. CASE AskRemove(r, g, c)
  <2> DEFINE new == [NoTask EXCEPT !.op = "remove", !.at = "save", !.group = g, !.row = group[g],
                                   !.set = Members(g) \ {c}, !.contact = c]
  <2>1. new.at # "walk" /\ new.group = g
    BY DEF NoTask
  <2>2. Enters(r, new) /\ Here(g)
    BY <1>4 DEF AskRemove
  <2> HIDE DEF new
  <2> QED BY <2>1, <2>2, PathsEnter
<1> QED BY <1>1, <1>2, <1>3, <1>4

LEMMA ContactAsksKeepPaths ==
  ASSUME TypeOK, PathsInv, NEW r \in DirRequests, NEW c \in Contacts, NEW gs \in SUBSET Groups,
         AskAssign(r, c, gs) \/ AskNew(r, c, "create", gs, {})
  PROVE  PathsInv'
<1>1. CASE AskAssign(r, c, gs)
  <2> DEFINE new == [NoTask EXCEPT !.op = "assign", !.at = IF gs = {} THEN "save" ELSE "pick",
                                   !.contact = c, !.copy = contact[c], !.chosen = gs]
  <2>1. new.at # "walk" /\ new.group = 1
    BY DEF NoTask
  <2>2. Enters(r, new)
    BY <1>1 DEF AskAssign
  <2> HIDE DEF new
  <2> QED BY <2>1, <2>2, PathsEnter
<1>2. CASE AskNew(r, c, "create", gs, {})
  <2> DEFINE new == [NoTask EXCEPT !.op = "create", !.at = "save",
                                   !.contact = c, !.given = gs, !.chosen = gs,
                                   !.paths = {}, !.todo = {}, !.snap = group]
  <2>1. new.at # "walk" /\ new.group = 1
    BY DEF NoTask
  <2>2. Enters(r, new)
    BY <1>2 DEF AskNew
  <2> HIDE DEF new
  <2> QED BY <2>1, <2>2, PathsEnter
<1> QED BY <1>1, <1>2

\* An import begins with a copy of the table and no path behind it.
LEMMA ImportKeepsPaths ==
  ASSUME TypeOK, PathsInv, NEW r \in DirRequests, NEW c \in Contacts, NEW gs \in SUBSET Groups,
         NEW ps \in SUBSET Paths, AskNew(r, c, "import", gs, ps)
  PROVE  PathsInv'
<1> DEFINE new == [NoTask EXCEPT !.op = "import", !.at = "walk",
                                 !.contact = c, !.given = gs, !.chosen = gs,
                                 !.paths = ps, !.todo = ps, !.snap = group]
<1>1. /\ new.group = 1 /\ new.snap = group /\ new.chosen = gs /\ new.given = gs
      /\ new.rest = <<>> /\ new.paths = ps /\ new.todo = ps
  BY DEF NoTask
<1>2. UNCHANGED <<group, made>> /\ task' = [task EXCEPT ![r] = new]
  BY DEF AskNew, Enters, tables
<1> HIDE DEF new
<1>3. Walks(new, {})
  BY <1>1 DEF Walks
<1>4. /\ \A q \in DirRequests : Placed(q)
      /\ \A q \in DirRequests \ {r} : Waits(q)
      /\ task'[r] = new
  BY <1>1, <1>2, TaskWaits
<1>5. GroupsInv'
  <2>1. made'.groups \in Nat /\ made.groups <= made'.groups
    BY <1>2 DEF TypeOK, DirTypeOK, Groups
  <2>2. \A q \in DirRequests : task'[q].group <= made'.groups
    BY <1>4, <2>1, PlacedGroups DEF PathsInv
  <2> QED BY <1>2, <2>2 DEF PathsInv, GroupsInv, Here
<1>6. Walks(task[r], {})'
  BY <1>2, <1>3, <1>4, NewWalk
<1> QED BY <1>2, <1>4, <1>5, <1>6, PathsWalked

\* The writes of groups, by r or by a request that is a single statement.
LEMMA GroupWritesKeepPaths ==
  ASSUME TypeOK, PathsInv,
         \/ \E g \in Groups, row \in [here: {TRUE}, name: Names, parent: Groups \cup {NoGroup}] :
               CreateGroup(g, row) \/ UpdateGroup(g, row)
         \/ \E r \in DirRequests : Detach(r) \/ DeleteGroup(r) \/ SaveMembers(r)
  PROVE  PathsInv'
<1>0. made.groups \in Nat /\ Groups \subseteq Nat
  BY DEF TypeOK, DirTypeOK, Groups
<1>1. ASSUME NEW r, task' = Aged(r, NoTask), r = 0 \/ r \in DirRequests
      PROVE  \A q \in DirRequests : Placed(q) /\ ~Current(task'[q])
  <2>1. 0 \notin DirRequests
    BY DirectoryAssumption DEF NoGroup
  <2>2. NoTask.group = 1 /\ ~Current(NoTask)
    BY NoTaskWaits
  <2> QED BY <1>1, <2>1, <2>2, AgedWaits
<1>2. ASSUME NEW g \in Groups, NEW row, CreateGroup(g, row) \/ UpdateGroup(g, row)
      PROVE  PathsInv'
  <2>1. group' = [group EXCEPT ![g] = row] /\ ValidRow(g, row) /\ task' = Aged(0, NoTask)
    BY <1>2 DEF CreateGroup, UpdateGroup
  <2>2. made'.groups \in Nat /\ g <= made'.groups /\ made.groups <= made'.groups
    <3>1. CASE CreateGroup(g, row)
      <4>1. made'.groups = g /\ g = made.groups + 1
        BY <3>1 DEF CreateGroup, TypeOK, DirTypeOK
      <4> QED BY <1>0, <4>1
    <3>2. CASE UpdateGroup(g, row)
      BY <1>0, <3>2 DEF UpdateGroup, PathsInv, GroupsInv
    <3> QED BY <1>2, <3>1, <3>2
  <2>3. \A q \in DirRequests : Placed(q) /\ ~Current(task'[q])
    BY <1>1, <2>1
  <2> QED BY <2>1, <2>2, <2>3, PathsWritten
<1>3. ASSUME NEW r \in DirRequests, Detach(r)
      PROVE  PathsInv'
  <2>1. /\ group' = [group EXCEPT ![task[r].group].parent = NoGroup]
        /\ made' = made /\ task' = Aged(r, NoTask)
    BY <1>3 DEF Detach
  <2>2. \A g \in Groups : group'[g].here => Here(g) /\ group'[g].name = group[g].name
    BY <2>1 DEF TypeOK, DirTypeOK, GroupRow, Here
  <2> QED BY <1>1, <2>1, <2>2, PathsShrunk
<1>4. ASSUME NEW r \in DirRequests, DeleteGroup(r)
      PROVE  PathsInv'
  <2>1. CASE Members(task[r].group) # {}
    BY <1>4, <2>1, PathsRefused DEF DeleteGroup
  <2>2. CASE Members(task[r].group) = {}
    <3>1. made' = made /\ task' = Aged(r, NoTask)
      BY <1>4, <2>2 DEF DeleteGroup
    <3>2. \A h \in Groups : group'[h] \in {NoRow, [group[h] EXCEPT !.parent = NoGroup], group[h]}
      BY <1>4, <2>2 DEF DeleteGroup
    <3>3. ~NoRow.here
      BY DEF NoRow
    <3>4. \A g \in Groups : group'[g].here => Here(g) /\ group'[g].name = group[g].name
      BY <3>2, <3>3 DEF TypeOK, DirTypeOK, GroupRow, Here
    <3> QED BY <1>1, <3>1, <3>4, PathsShrunk
  <2> QED BY <2>1, <2>2
<1>5. ASSUME NEW r \in DirRequests, SaveMembers(r)
      PROVE  PathsInv'
  <2> DEFINE t == task[r]
             g == t.group
  <2>1. CASE ~ValidRow(g, t.row) \/ ~\A c \in t.set : Known(c)
    BY <1>5, <2>1, PathsRefused DEF SaveMembers
  <2>2. CASE ~(~ValidRow(g, t.row) \/ ~\A c \in t.set : Known(c))
    <3>1. /\ group' = [group EXCEPT ![g] = t.row] /\ ValidRow(g, t.row) /\ made' = made
          /\ task' = IF group[g] = t.row THEN [task EXCEPT ![r] = NoTask] ELSE Aged(r, NoTask)
      BY <1>5, <2>2 DEF SaveMembers
    <3>2. g \in Groups /\ g <= made.groups
      BY DEF TypeOK, DirTypeOK, Task, PathsInv, GroupsInv
    <3>3. CASE group[g] = t.row
      <4>1. group' = group
        BY <3>1, <3>2, <3>3 DEF TypeOK, DirTypeOK
      <4> QED BY <3>1, <3>3, <4>1, NoTaskWaits, PathsTask
    <3>4. CASE group[g] # t.row
      <4>1. \A q \in DirRequests : Placed(q) /\ ~Current(task'[q])
        BY <1>1, <3>1, <3>4
      <4>2. made'.groups \in Nat /\ g <= made'.groups /\ made.groups <= made'.groups
        BY <1>0, <3>1, <3>2
      <4> QED BY <3>1, <3>2, <4>1, <4>2, PathsWritten
    <3> QED BY <3>3, <3>4
  <2> QED BY <2>1, <2>2
<1> QED BY <1>2, <1>3, <1>4, <1>5

LEMMA ContactsKeepPaths ==
  ASSUME TypeOK, PathsInv,
         \/ \E c \in Contacts : DeleteContact(c) \/ \E active \in BOOLEAN : UpdateContact(c, active)
         \/ \E r \in DirRequests : SaveAssigned(r) \/ SaveNew(r)
  PROVE  PathsInv'
<1>1. ASSUME NEW c \in Contacts, NEW active \in BOOLEAN, DeleteContact(c) \/ UpdateContact(c, active)
      PROVE  PathsInv'
  <2>1. group' = group /\ made' = made /\ task' = task
    BY <1>1 DEF DeleteContact, UpdateContact
  <2>2. \A q \in DirRequests : Placed(q) /\ Waits(q)
    BY <2>1 DEF Placed, Waits
  <2> QED BY <2>1, <2>2, PathsStay
<1>2. ASSUME NEW r \in DirRequests, SaveAssigned(r) \/ SaveNew(r), ~Refused(r)
      PROVE  PathsInv'
  <2>1. group' = group /\ task' = [task EXCEPT ![r] = NoTask]
    BY <1>2 DEF SaveAssigned, SaveNew
  <2>2. made'.groups = made.groups
    BY <1>2 DEF SaveAssigned, SaveNew, TypeOK, DirTypeOK
  <2>3. \A q \in DirRequests : Placed(q) /\ Waits(q)
    BY <2>1, NoTaskWaits, TaskWaits
  <2> QED BY <2>1, <2>2, <2>3, PathsStay
<1>3. TRUE \in BOOLEAN
  OBVIOUS
<1> QED BY <1>1, <1>2, <1>3, PathsRefused

LEMMA ReadsKeepPaths ==
  ASSUME TypeOK, PathsInv, NEW r \in DirRequests,
         CountChildren(r) \/ CountMembers(r) \/ PickContact(r) \/ PickGroups(r)
  PROVE  PathsInv'
<1>1. CASE CountChildren(r)
  BY <1>1, PathsRefused, PathsGoes DEF CountChildren
<1>2. CASE CountMembers(r)
  BY <1>2, PathsRefused, PathsGoes DEF CountMembers
<1>3. CASE PickGroups(r)
  BY <1>3, PathsRefused, PathsGoes DEF PickGroups
<1>4. CASE PickContact(r)
  <2> DEFINE t == task[r]
             new == [t EXCEPT !.at = "save", !.set = IF Known(t.contact) THEN WithNew(@, t.contact) ELSE @]
  <2>1. task' = [task EXCEPT ![r] = new] /\ UNCHANGED <<group, made>>
    BY <1>4 DEF PickContact, tables
  <2>2. new.group = t.group /\ new.at = "save"
    BY DEF TypeOK, DirTypeOK, Task
  <2>3. ~Current(new)
    BY <2>2 DEF Current
  <2> HIDE DEF new
  <2> QED BY <2>1, <2>2, <2>3, PathsTask
<1> QED BY <1>1, <1>2, <1>3, <1>4

\* A request that walks and writes no group.
LEMMA PathsOwn ==
  ASSUME TypeOK, PathsInv, NEW r \in DirRequests, NEW new, task' = [task EXCEPT ![r] = new],
         UNCHANGED <<group, made>>, new.group = task[r].group,
         Current(new) => \E done \in SUBSET Paths : Walks(new, done)
  PROVE  PathsInv'
<1>1. /\ \A q \in DirRequests : Placed(q)
      /\ \A q \in DirRequests \ {r} : Waits(q)
      /\ task'[r] = new
  BY TaskWaits
<1>2. GroupsInv'
  <2>1. made'.groups \in Nat /\ made.groups <= made'.groups
    BY DEF TypeOK, DirTypeOK, Groups
  <2>2. \A q \in DirRequests : task'[q].group <= made'.groups
    BY <1>1, <2>1, PlacedGroups DEF PathsInv
  <2> QED BY <2>2 DEF PathsInv, GroupsInv, Here
<1>3. ASSUME Current(task'[r])
      PROVE  \E done \in SUBSET Paths : Walks(task[r], done)'
  <2>1. PICK done \in SUBSET Paths : Walks(new, done)
    BY <1>1, <1>3
  <2>2. Walks(task[r], done)'
    BY <1>1, <2>1, NewWalk
  <2> QED BY <2>2
<1> QED BY <1>1, <1>2, <1>3, PathsWalked

LEMMA NextPathKeepsPaths ==
  ASSUME TypeOK, PathsInv, NEW r \in DirRequests, NextPath(r)
  PROVE  PathsInv'
<1>0. PICK t \in Task : t = task[r]
  BY DEF TypeOK, DirTypeOK
<1>1. PICK p \in t.todo :
        task' = [task EXCEPT ![r] = [t EXCEPT !.todo = @ \ {p}, !.rest = p, !.below = NoGroup]]
  BY <1>0 DEF NextPath
<1>2. PICK new : new = [t EXCEPT !.todo = @ \ {p}, !.rest = p, !.below = NoGroup]
  OBVIOUS
<1>3. /\ new.at = t.at /\ new.clean = t.clean /\ new.group = t.group /\ new.snap = t.snap
      /\ new.chosen = t.chosen /\ new.given = t.given /\ new.paths = t.paths
      /\ new.todo = t.todo \ {p} /\ new.rest = p /\ new.below = NoGroup
  BY <1>2 DEF Task
<1>4. UNCHANGED <<group, made>> /\ t.rest = <<>>
  BY <1>0 DEF NextPath, tables
<1>5. p \in Paths /\ p \in Seq(Names) /\ p # <<>>
  BY DirectoryAssumption DEF Task
<1>6. ASSUME Current(new)
      PROVE  \E done \in SUBSET Paths : Walks(new, done)
  <2>1. PICK done \in SUBSET Paths : Walks(t, done)
    BY <1>0, <1>3, <1>6 DEF PathsInv, WalkInv, Current
  <2>2. Partway(new, p, 0)
    <3>1. Len(new.rest) = Len(p) - 0
      BY <1>3, <1>5
    <3>2. \A j \in 1..Len(new.rest) : new.rest[j] = p[0 + j]
      BY <1>3, <1>5
    <3>3. Reached(p, 0, new.below)
      BY <1>3 DEF Reached
    <3> QED BY <3>1, <3>2, <3>3 DEF Partway
  <2>3. new.paths = new.todo \cup done \cup {p}
    BY <1>3, <1>4, <2>1 DEF Walks
  <2>4. 0 \in 0..Len(p)
    BY <1>5
  <2>5. Walks(new, done)
    BY <1>3, <1>5, <2>1, <2>2, <2>3, <2>4 DEF Walks
  <2> QED BY <2>5
<1> QED BY <1>0, <1>1, <1>2, <1>3, <1>4, <1>6, PathsOwn

LEMMA DownFields ==
  ASSUME NEW t \in Task, NEW g
  PROVE  /\ Down(t, g).below = g /\ Down(t, g).rest = Tail(t.rest)
         /\ Down(t, g).chosen = IF Len(t.rest) = 1 THEN t.chosen \cup {g} ELSE t.chosen
         /\ Down(t, g).at = t.at /\ Down(t, g).clean = t.clean /\ Down(t, g).group = t.group
         /\ Down(t, g).snap = t.snap /\ Down(t, g).todo = t.todo /\ Down(t, g).paths = t.paths
         /\ Down(t, g).given = t.given
BY DEF Down, Task

LEMMA FollowKeepsPaths ==
  ASSUME TypeOK, PathsInv, NEW r \in DirRequests, Follow(r)
  PROVE  PathsInv'
<1>0. PICK t \in Task : t = task[r]
  BY DEF TypeOK, DirTypeOK
<1>1. PICK g \in Found(t) : task' = [task EXCEPT ![r] = Down(t, g)]
  BY <1>0 DEF Follow
<1>2. PICK new : new = Down(t, g)
  OBVIOUS
<1>3. UNCHANGED <<group, made>> /\ t.rest # <<>>
  BY <1>0 DEF Follow, tables
<1>4. new.group = t.group /\ new.at = t.at /\ new.clean = t.clean
  BY <1>2, DownFields
<1>5. /\ \A q \in DirRequests : Placed(q)
      /\ \A q \in DirRequests \ {r} : Waits(q)
      /\ task'[r] = new
  BY <1>0, <1>1, <1>2, <1>4, TaskWaits
<1>6. GroupsInv'
  <2>1. made'.groups \in Nat /\ made.groups <= made'.groups
    BY <1>3 DEF TypeOK, DirTypeOK, Groups
  <2>2. \A q \in DirRequests : task'[q].group <= made'.groups
    BY <1>5, <2>1, PlacedGroups DEF PathsInv
  <2> QED BY <1>3, <2>2 DEF PathsInv, GroupsInv, Here
<1>7. ASSUME Current(new)
      PROVE  \E done \in SUBSET Paths : Walks(task[r], done)'
  <2>1. PICK done \in SUBSET Paths : Walks(t, done)
    BY <1>0, <1>4, <1>7 DEF PathsInv, WalkInv, Current
  <2>2. t.snap = group /\ group' = group
    BY <1>3, <2>1 DEF Walks
  <2>3. g \in Groups /\ group'[g].here /\ group'[g].name = Head(t.rest) /\ group'[g].parent = t.below
    BY <2>2 DEF Found
  <2>4. \A h \in Groups : Here(h) => group'[h] = group[h]
    BY <2>2
  <2>5. /\ new.snap = group' /\ new.below = g /\ new.rest = Tail(t.rest)
        /\ new.todo = t.todo /\ new.paths = t.paths /\ new.given = t.given
        /\ new.chosen = IF Len(t.rest) = 1 THEN t.chosen \cup {g} ELSE t.chosen
    BY <1>2, <2>2, DownFields
  <2>6. PICK past \in SUBSET Paths : Walks(new, past)'
    BY <1>3, <1>6, <2>1, <2>3, <2>4, <2>5, StepsDown
  <2>7. Walks(task[r], past)'
    BY <1>5, <2>6 DEF Walks, Partway
  <2> QED BY <2>7
<1> QED BY <1>3, <1>5, <1>6, <1>7, PathsWalked

LEMMA CreateMissingKeepsPaths ==
  ASSUME TypeOK, PathsInv, NEW r \in DirRequests, CreateMissing(r)
  PROVE  PathsInv'
<1>0. PICK t \in Task : t = task[r]
  BY DEF TypeOK, DirTypeOK
<1>1. PICK n \in Groups : n = made.groups + 1
  BY DEF CreateMissing
<1>2. PICK row : row = [here |-> TRUE, name |-> Head(t.rest), parent |-> t.below]
  OBVIOUS
<1>3. CASE ~ValidRow(n, row)
  BY <1>0, <1>1, <1>2, <1>3, PathsRefused DEF CreateMissing
<1>4. CASE ValidRow(n, row)
  <2>1. PICK s : s = [t EXCEPT !.snap[n] = row]
    OBVIOUS
  <2>2. PICK new : new = Down(s, n)
    OBVIOUS
  <2>3. /\ group' = [group EXCEPT ![n] = row] /\ made' = [made EXCEPT !.groups = n]
        /\ task' = Aged(r, new) /\ t.rest # <<>>
    BY <1>0, <1>1, <1>2, <1>4, <2>1, <2>2 DEF CreateMissing
  <2>4. row \in GroupRow
    BY <1>2, <2>3 DEF GroupRow, Task
  <2>5. /\ s \in Task /\ s.snap = [t.snap EXCEPT ![n] = row] /\ s.rest = t.rest /\ s.below = t.below
        /\ s.group = t.group /\ s.at = t.at /\ s.clean = t.clean /\ s.todo = t.todo
        /\ s.paths = t.paths /\ s.given = t.given /\ s.chosen = t.chosen
    BY <2>1, <2>4 DEF Task
  <2>6. /\ new.group = t.group /\ new.at = t.at /\ new.clean = t.clean /\ new.snap = s.snap
        /\ new.below = n /\ new.rest = Tail(t.rest) /\ new.todo = t.todo /\ new.paths = t.paths
        /\ new.given = t.given
        /\ new.chosen = IF Len(t.rest) = 1 THEN t.chosen \cup {n} ELSE t.chosen
    BY <2>2, <2>5, DownFields
  <2>7. /\ \A q \in DirRequests : Placed(q)
        /\ \A q \in DirRequests \ {r} : ~Current(task'[q])
        /\ task'[r] = new
    BY <1>0, <2>3, <2>6, AgedWaits
  <2>8. made'.groups \in Nat /\ n <= made'.groups /\ made.groups <= made'.groups
    <3>1. made'.groups = n /\ n \in Nat /\ made.groups \in Nat
      BY <2>3 DEF TypeOK, DirTypeOK, Groups
    <3> QED BY <1>1, <3>1
  <2>9. GroupsInv'
    BY <1>4, <2>3, <2>7, <2>8, PathsWritten
  <2>10. ASSUME Current(new)
         PROVE  \E done \in SUBSET Paths : Walks(task[r], done)'
    <3>1. PICK done \in SUBSET Paths : Walks(t, done)
      BY <1>0, <2>6, <2>10 DEF PathsInv, WalkInv, Current
    <3>2. \A h \in Groups : Here(h) => h # n
      <4>1. \A h \in Groups : Here(h) => h <= made.groups
        BY DEF PathsInv, GroupsInv
      <4>2. made.groups \in Nat /\ Groups \subseteq Nat
        BY DEF TypeOK, DirTypeOK, Groups
      <4> QED BY <1>1, <4>1, <4>2
    <3>3. \A h \in Groups : Here(h) => group'[h] = group[h]
      BY <2>3, <3>2 DEF TypeOK, DirTypeOK
    <3>4. group'[n].here /\ group'[n].name = Head(t.rest) /\ group'[n].parent = t.below
      BY <1>2, <2>3 DEF TypeOK, DirTypeOK
    <3>5. new.snap = group'
      BY <2>3, <2>5, <2>6, <3>1 DEF Walks
    <3>6. PICK past \in SUBSET Paths : Walks(new, past)'
      BY <2>3, <2>6, <2>9, <3>1, <3>3, <3>4, <3>5, StepsDown
    <3>7. Walks(task[r], past)'
      BY <2>7, <3>6 DEF Walks, Partway
    <3> QED BY <3>7
  <2>11. \A q \in DirRequests \ {r} : Waits(q)
    BY <2>7 DEF Waits
  <2> QED BY <2>7, <2>9, <2>10, <2>11, PathsWalked
<1> QED BY <1>3, <1>4

LEMMA DirKeepsPaths == TypeOK /\ PathsInv /\ DirNext => PathsInv'
<1> SUFFICES ASSUME TypeOK, PathsInv, DirNext PROVE PathsInv'
  OBVIOUS
<1>1. ASSUME NEW r \in DirRequests, DirRequest(r)
      PROVE  PathsInv'
  <2>1. ASSUME NEW g \in Groups, AskDetach(r, g) \/ AskDelete(r, g)
        PROVE  PathsInv'
    <3>1. PICK c \in Contacts : TRUE
      BY DirectoryAssumption
    <3> QED BY <2>1, <3>1, AsksKeepPaths
  <2>2. ASSUME NEW g \in Groups, NEW c \in Contacts, AskAdd(r, g, c) \/ AskRemove(r, g, c)
        PROVE  PathsInv'
    BY <2>2, AsksKeepPaths
  <2>3. ASSUME NEW c \in Contacts, NEW gs \in SUBSET Groups,
               AskAssign(r, c, gs) \/ AskNew(r, c, "create", gs, {})
        PROVE  PathsInv'
    BY <2>3, ContactAsksKeepPaths
  <2>4. ASSUME NEW c \in Contacts, NEW gs \in SUBSET Groups, NEW ps \in SUBSET Paths,
               AskNew(r, c, "import", gs, ps)
        PROVE  PathsInv'
    BY <2>4, ImportKeepsPaths
  <2>5. CASE CountChildren(r) \/ CountMembers(r) \/ PickContact(r) \/ PickGroups(r)
    BY <2>5, ReadsKeepPaths
  <2>6. CASE NextPath(r) \/ Follow(r) \/ CreateMissing(r)
    BY <2>6, NextPathKeepsPaths, FollowKeepsPaths, CreateMissingKeepsPaths
  <2>7. CASE Detach(r) \/ DeleteGroup(r) \/ SaveMembers(r) \/ SaveAssigned(r) \/ SaveNew(r)
    BY <2>7, GroupWritesKeepPaths, ContactsKeepPaths
  <2> QED BY <1>1, <2>1, <2>2, <2>3, <2>4, <2>5, <2>6, <2>7 DEF DirRequest
<1>2. ASSUME NEW g \in Groups, NEW row \in [here: {TRUE}, name: Names, parent: Groups \cup {NoGroup}],
             CreateGroup(g, row) \/ UpdateGroup(g, row)
      PROVE  PathsInv'
  BY <1>2, GroupWritesKeepPaths
<1>3. CASE \E c \in Contacts : DeleteContact(c) \/ \E active \in BOOLEAN : UpdateContact(c, active)
  BY <1>3, ContactsKeepPaths
<1> QED BY <1>1, <1>2, <1>3 DEF DirNext

\* An import whose copy of the groups no one wrote under puts its contact into the
\* groups it was given and those at the ends of its paths, and into no other: what
\* ensureGroupPath found by name and parent is what the path says.
THEOREM ImportsFollowPaths == Spec => []ImportFollowsPaths
<1>1. Init => PathsInv
  <2> SUFFICES ASSUME Init PROVE PathsInv
    OBVIOUS
  <2>1. /\ made.groups = 2 /\ \A r \in DirRequests : task[r] = NoTask
        /\ \E parent \in {NoGroup, 1} :
              group = [g \in Groups |->
                          CASE g = 1 -> [here |-> TRUE, name |-> FirstNames[1], parent |-> NoGroup]
                            [] g = 2 -> [here |-> TRUE, name |-> FirstNames[2], parent |-> parent]
                            [] OTHER -> NoRow]
    BY DEF Init, DirInit
  <2>2. \A g \in Groups : /\ Here(g) => g = 1 \/ g = 2
                          /\ g = 1 => group[g].name = FirstNames[1]
                          /\ g = 2 => group[g].name = FirstNames[2]
    BY <2>1 DEF NoRow, Here
  <2>3. FirstNames[1] # FirstNames[2]
    BY DirectoryAssumption
  <2>4. GroupsInv
    <3>1. \A r \in DirRequests : task[r].group <= made.groups
      BY <2>1, NoTaskWaits
    <3> QED BY <2>1, <2>2, <2>3, <3>1 DEF GroupsInv
  <2> QED BY <2>1, <2>4, NoTaskWaits DEF PathsInv, WalkInv
<1>2. TypeOK /\ PathsInv /\ [Next]_vars => PathsInv'
  <2> SUFFICES ASSUME TypeOK, PathsInv, [Next]_vars PROVE PathsInv'
    OBVIOUS
  <2>1. CASE UNCHANGED dirVars
    <3>1. UNCHANGED <<group, made, task>>
      BY <2>1 DEF dirVars, tables
    <3>2. \A q \in DirRequests : Placed(q) /\ Waits(q)
      BY <3>1 DEF Placed, Waits
    <3> QED BY <3>1, <3>2, PathsStay
  <2>2. CASE Crash
    <3>1. UNCHANGED <<group, made>> /\ task' = [r \in DirRequests |-> NoTask]
      BY <2>2 DEF Crash, RequestsDie, tables
    <3>2. \A q \in DirRequests : Placed(q) /\ Waits(q)
      BY <3>1, NoTaskWaits DEF Placed, Waits
    <3> QED BY <3>1, <3>2, PathsStay
  <2>3. CASE DirNext
    BY <2>3, DirKeepsPaths
  <2> QED BY <2>1, <2>2, <2>3 DEF Next, vars
<1>3. PathsInv => ImportFollowsPaths
  <2> SUFFICES ASSUME PathsInv, NEW r \in DirRequests, Walked(task[r]), task[r].clean
               PROVE  task[r].chosen = task[r].given
                        \cup {g \in Groups : \E path \in task[r].paths : LeadsTo(path, g)}
    BY DEF ImportFollowsPaths
  <2>1. PICK done \in SUBSET Paths : Walks(task[r], done)
    BY DEF PathsInv, WalkInv, Current, Walked
  <2>2. task[r].paths = done
    BY <2>1 DEF Walks, Walked
  <2> QED BY <2>1, <2>2 DEF Walks
<1> QED BY TypeCorrect, <1>1, <1>2, <1>3, PTL DEF Spec

\* Members, the tree and the paths of imports are as they were asked for, save where a
\* request overtook another.
THEOREM DirectoryCorrect == Spec => []DirectoryHolds
<1>1. MembershipsKept /\ OnlyLateOrphans /\ ImportFollowsPaths => DirectoryHolds
  BY DEF DirectoryHolds
<1> QED BY <1>1, MembersAsAsked, OrphansCameLate, ImportsFollowPaths, PTL

-----------------------------------------------------------------------------
(* Passes come to an end. *)

\* How far a pass has to go: each contact that is left may take it from "next" through
\* "send", "sent" and "threw" once more.
PlaceRank(at) ==
    CASE at = "idle" -> 0
      [] at = "end" -> 1
      [] at = "next" -> 2
      [] at = "contacts" -> 3
      [] at = "threw" -> 4
      [] at = "sent" -> 5
      [] at = "send" -> 6
      [] at = "recipients" -> 4
      [] at = "policies" -> 5

PassRank(p) ==
    PlaceRank(p.at) + 5 * (IF p.at \in {"recipients", "policies"} THEN Cardinality(Contacts) ELSE Cardinality(p.todo))

\* A step of the pass of r brings it nearer to its end, and no other step takes it back.
Advances(r) ==
    /\ pass[r].at # "idle" => PassRank(pass'[r]) <= PassRank(pass[r])
    /\ PassStep(r) => PassRank(pass'[r]) < PassRank(pass[r])

FlagIsThePass == running <=> pass[Scheduler].at # "idle"

LEMMA PlacesAre ==
  /\ PlaceRank("idle") = 0 /\ PlaceRank("end") = 1 /\ PlaceRank("next") = 2
  /\ PlaceRank("contacts") = 3 /\ PlaceRank("threw") = 4 /\ PlaceRank("sent") = 5
  /\ PlaceRank("send") = 6 /\ PlaceRank("recipients") = 4 /\ PlaceRank("policies") = 5
BY DEF PlaceRank

LEMMA RanksAreNumbers ==
  ASSUME IsFiniteSet(Contacts), NEW p \in Pass
  PROVE  /\ IsFiniteSet(p.todo) /\ Cardinality(p.todo) \in Nat /\ Cardinality(p.todo) <= Cardinality(Contacts)
         /\ Cardinality(Contacts) \in Nat /\ PassRank(p) \in Nat
<1>1. p.todo \subseteq Contacts /\ p.at \in {"idle", "policies", "recipients", "contacts", "next", "send", "sent", "threw", "end"}
  BY DEF Pass
<1>2. /\ IsFiniteSet(p.todo) /\ Cardinality(p.todo) \in Nat /\ Cardinality(p.todo) <= Cardinality(Contacts)
      /\ Cardinality(Contacts) \in Nat
  BY <1>1, FS_Subset, FS_CardinalityType
<1>3. PlaceRank(p.at) \in Nat
  BY <1>1, PlacesAre
<1> QED BY <1>2, <1>3 DEF PassRank

\* Fewer contacts are left, and the pass is nearer.
LEMMA RanksFall ==
  ASSUME IsFiniteSet(Contacts), NEW p \in Pass, NEW q \in Pass, q.at # "recipients", q.at # "policies",
         \/ p.at \in {"recipients", "policies"}
         \/ q.todo \subseteq p.todo /\ PlaceRank(q.at) < PlaceRank(p.at)
         \/ PlaceRank(q.at) < PlaceRank(p.at) + 5 /\ \E c \in p.todo : q.todo \subseteq p.todo \ {c},
         p.at \in {"recipients", "policies"} => q.at \in {"contacts", "end"}
  PROVE  PassRank(q) < PassRank(p)
<1>1. PICK n, m, k \in Nat : n = Cardinality(Contacts) /\ m = Cardinality(p.todo) /\ k = Cardinality(q.todo) /\ m <= n /\ k <= n
  BY RanksAreNumbers
<1>2. PICK a, b \in Nat : a = PlaceRank(p.at) /\ b = PlaceRank(q.at)
  BY PlacesAre DEF Pass
<1>3. PassRank(q) = b + 5 * k
  BY <1>1, <1>2 DEF PassRank
<1>4. CASE p.at \in {"recipients", "policies"}
  <2>1. PassRank(p) = a + 5 * n /\ a >= 4 /\ b <= 3
    BY <1>1, <1>2, <1>4, PlacesAre DEF PassRank
  <2> QED BY <1>1, <1>2, <1>3, <2>1
<1>5. CASE p.at \notin {"recipients", "policies"}
  <2>1. PassRank(p) = a + 5 * m
    BY <1>1, <1>2, <1>5 DEF PassRank
  <2>2. IsFiniteSet(p.todo) /\ IsFiniteSet(q.todo)
    BY RanksAreNumbers
  <2>3. CASE q.todo \subseteq p.todo /\ b < a
    <3>1. k <= m
      BY <1>1, <2>2, <2>3, FS_Subset
    <3> QED BY <1>1, <1>2, <1>3, <2>1, <2>3, <3>1
  <2>4. CASE b < a + 5 /\ \E c \in p.todo : q.todo \subseteq p.todo \ {c}
    <3>1. PICK c \in p.todo : q.todo \subseteq p.todo \ {c}
      BY <2>4
    <3>2. IsFiniteSet(p.todo \ {c}) /\ Cardinality(p.todo \ {c}) = m - 1
      BY <1>1, <2>2, FS_RemoveElement
    <3>3. k <= m - 1
      BY <1>1, <3>1, <3>2, FS_Subset
    <3> QED BY <1>1, <1>2, <1>3, <2>1, <2>4, <3>3
  <2> QED BY <1>2, <1>5, <2>3, <2>4
<1> QED BY <1>4, <1>5

\* What a step of a pass does to it, and to the others.
LEMMA PassFalls ==
  ASSUME IsFiniteSet(Contacts), TypeOK, TypeOK', NEW r \in Runners, PassStep(r)
  PROVE  /\ PassRank(pass'[r]) < PassRank(pass[r])
         /\ \A q \in Runners \ {r} : pass'[q].at = pass[q].at /\ pass'[q].todo = pass[q].todo
         /\ pass'[r].at # "idle" \/ EndPass(r)
<1> PICK p : p = pass[r]
  OBVIOUS
<1>1. p \in Pass /\ pass \in [Runners -> Pass] /\ pass'[r] \in Pass
  BY DEF TypeOK, RemTypeOK
<1>2. ASSUME NEW new, pass' = [pass EXCEPT ![r] = new]
      PROVE  pass'[r] = new /\ new \in Pass /\ \A q \in Runners \ {r} : pass'[q] = pass[q]
  BY <1>1, <1>2
<1>3. ASSUME NEW new, pass' = [pass EXCEPT ![r] = new], new.at # "recipients", new.at # "policies",
             \/ p.at \in {"recipients", "policies"}
             \/ new.todo \subseteq p.todo /\ PlaceRank(new.at) < PlaceRank(p.at)
             \/ PlaceRank(new.at) < PlaceRank(p.at) + 5 /\ \E c \in p.todo : new.todo \subseteq p.todo \ {c},
             p.at \in {"recipients", "policies"} => new.at \in {"contacts", "end"},
             new.at # "idle" \/ EndPass(r)
      PROVE  /\ PassRank(pass'[r]) < PassRank(pass[r])
             /\ \A q \in Runners \ {r} : pass'[q].at = pass[q].at /\ pass'[q].todo = pass[q].todo
             /\ pass'[r].at # "idle" \/ EndPass(r)
  <2>1. pass'[r] = new /\ new \in Pass /\ \A q \in Runners \ {r} : pass'[q] = pass[q]
    BY <1>2, <1>3
  <2>2. PassRank(new) < PassRank(p)
    BY <1>1, <1>3, <2>1, RanksFall
  <2> QED BY <1>3, <2>1, <2>2
<1>5. CASE ReadPolicies(r)
  <2>1. p.at = "policies"
    BY <1>5 DEF ReadPolicies
  <2>2. CASE policy.here /\ policy.set.enabled
    <3>1. pass' = [pass EXCEPT ![r] = [p EXCEPT !.at = "recipients", !.set = policy.set]]
      BY <1>5, <2>2 DEF ReadPolicies, Steps
    <3>2. PICK new : new = [p EXCEPT !.at = "recipients", !.set = policy.set]
      OBVIOUS
    <3>3. new.at = "recipients"
      BY <1>1, <3>2 DEF Pass
    <3>4. pass'[r] = new /\ \A q \in Runners \ {r} : pass'[q] = pass[q]
      BY <1>1, <3>1, <3>2
    <3>5. PICK n \in Nat : n = Cardinality(Contacts)
      BY <1>1, RanksAreNumbers
    <3>6. PassRank(new) = 4 + 5 * n /\ PassRank(p) = 5 + 5 * n
      BY <2>1, <3>3, <3>5, PlacesAre DEF PassRank
    <3> QED BY <3>3, <3>4, <3>5, <3>6
  <2>3. CASE ~(policy.here /\ policy.set.enabled)
    <3>1. pass' = [pass EXCEPT ![r] = [p EXCEPT !.at = "end"]]
      BY <1>5, <2>3 DEF ReadPolicies, Steps
    <3>2. [p EXCEPT !.at = "end"].at = "end"
      BY <1>1 DEF Pass
    <3> QED BY <1>3, <2>1, <3>1, <3>2
  <2> QED BY <2>2, <2>3
<1>6. CASE ReadRecipients(r)
  <2>1. PICK found, amount, owed :
            pass' = [pass EXCEPT ![r] = [p EXCEPT !.at = "contacts", !.todo = found, !.amount = amount, !.owed = owed]]
    BY <1>6 DEF ReadRecipients, Steps
  <2>2. [p EXCEPT !.at = "contacts", !.todo = found, !.amount = amount, !.owed = owed].at = "contacts"
    BY <1>1 DEF Pass
  <2>3. p.at = "recipients"
    BY <1>6 DEF ReadRecipients
  <2> QED BY <1>3, <2>1, <2>2, <2>3
<1>7. CASE FindContacts(r)
  <2>1. pass' = [pass EXCEPT ![r] = [p EXCEPT !.at = "next", !.todo = {c \in p.todo : Known(c)}]]
    <3>1. pass' = [pass EXCEPT ![r] = [p EXCEPT !.at = "next", !.todo = {c \in @ : Known(c)}]]
      BY <1>7 DEF FindContacts, Steps
    <3> QED BY <1>1, <3>1 DEF Pass
  <2>2. PICK new : new = [p EXCEPT !.at = "next", !.todo = {c \in p.todo : Known(c)}]
    OBVIOUS
  <2>3. new.at = "next" /\ new.todo \subseteq p.todo /\ p.at = "contacts"
    BY <1>1, <1>7, <2>2 DEF Pass, FindContacts
  <2>4. PlaceRank(new.at) < PlaceRank(p.at)
    BY <2>3, PlacesAre
  <2> QED BY <1>3, <2>1, <2>2, <2>3, <2>4
<1>8. CASE CheckCooldown(r)
  <2>1. PICK c \in p.todo :
          Steps(r, IF CoolsDown(p.set, c) THEN [p EXCEPT !.todo = @ \ {c}]
                   ELSE [p EXCEPT !.at = "send", !.todo = @ \ {c}, !.contact = c, !.seen = Written(c)])
    BY <1>8 DEF CheckCooldown
  <2>2. PICK new : /\ new = IF CoolsDown(p.set, c) THEN [p EXCEPT !.todo = @ \ {c}]
                            ELSE [p EXCEPT !.at = "send", !.todo = @ \ {c}, !.contact = c, !.seen = Written(c)]
    OBVIOUS
  <2>3. pass' = [pass EXCEPT ![r] = new]
    BY <2>1, <2>2 DEF Steps
  <2>4. p.at = "next"
    BY <1>8 DEF CheckCooldown
  <2>5. new.at \in {"next", "send"} /\ new.todo = p.todo \ {c}
    BY <1>1, <2>2, <2>4 DEF Pass
  <2>6. PlaceRank(new.at) < PlaceRank(p.at) + 5
    BY <2>4, <2>5, PlacesAre
  <2>7. \E d \in p.todo : new.todo \subseteq p.todo \ {d}
    BY <2>5
  <2>8. new.at # "recipients" /\ new.at # "policies" /\ p.at \notin {"recipients", "policies"}
    BY <2>4, <2>5
  <2>9. new.at # "idle"
    BY <2>5
  <2> QED BY <1>3, <2>3, <2>6, <2>7, <2>8, <2>9
<1>9. ASSUME NEW at \in {"sent", "threw"}, SendMail(r, at)
      PROVE  /\ PassRank(pass'[r]) < PassRank(pass[r])
             /\ \A q \in Runners \ {r} : pass'[q].at = pass[q].at /\ pass'[q].todo = pass[q].todo
             /\ pass'[r].at # "idle" \/ EndPass(r)
  <2>1. p.at = "send" /\ pass' = [Unaware(r, p.contact) EXCEPT ![r].at = at]
    BY <1>9 DEF SendMail
  <2>2. pass'[r] = [p EXCEPT !.at = at]
    BY <2>1 DEF Unaware
  <2>3. ASSUME NEW q \in Runners \ {r} PROVE pass'[q].at = pass[q].at /\ pass'[q].todo = pass[q].todo
    <3>1. pass'[q] = pass[q] \/ pass'[q] = [pass[q] EXCEPT !.seen = FALSE]
      BY <2>1 DEF Unaware
    <3>2. pass[q] \in Pass
      BY <1>1
    <3> QED BY <3>1, <3>2 DEF Pass
  <2>4. pass'[r].at = at /\ pass'[r].todo = p.todo
    BY <1>1, <2>2 DEF Pass
  <2>5. PlaceRank(pass'[r].at) < PlaceRank(p.at)
    BY <2>1, <2>4, PlacesAre
  <2>6. PassRank(pass'[r]) < PassRank(p)
    BY <1>1, <2>1, <2>4, <2>5, RanksFall
  <2> QED BY <2>3, <2>4, <2>6
<1>10. CASE MailRefused(r) \/ RecordThrows(r) \/ Record(r) \/ RecordFailed(r) \/ RecordFailedThrows(r) \/ PolicyDone(r)
  <2>1. PICK at \in {"threw", "next", "end"} :
            /\ pass' = [pass EXCEPT ![r] = [p EXCEPT !.at = at]]
            /\ p.at \in {"send", "sent", "threw", "next"} /\ PlaceRank(at) < PlaceRank(p.at)
    <3>1. \/ p.at \in {"send", "sent"} /\ pass' = [pass EXCEPT ![r] = [p EXCEPT !.at = "threw"]]
          \/ p.at \in {"sent", "threw"} /\ pass' = [pass EXCEPT ![r] = [p EXCEPT !.at = "next"]]
          \/ p.at \in {"threw", "next"} /\ pass' = [pass EXCEPT ![r] = [p EXCEPT !.at = "end"]]
      BY <1>10 DEF MailRefused, RecordThrows, Record, RecordFailed, RecordFailedThrows, PolicyDone, Steps, WriteRow
    <3> QED BY <3>1, PlacesAre
  <2>2. PICK new : new = [p EXCEPT !.at = at]
    OBVIOUS
  <2>3. new.at = at /\ new.todo = p.todo
    BY <1>1, <2>2 DEF Pass
  <2>4. new.at # "recipients" /\ new.at # "policies" /\ p.at \notin {"recipients", "policies"} /\ PlaceRank(new.at) < PlaceRank(p.at)
    BY <2>1, <2>3
  <2> QED BY <1>3, <2>1, <2>2, <2>3, <2>4
<1>11. CASE EndPass(r)
  <2>1. p.at = "end" /\ pass' = [pass EXCEPT ![r] = NoPass]
    BY <1>11 DEF EndPass
  <2>2. NoPass.at = "idle" /\ NoPass.todo = {}
    BY DEF NoPass
  <2>3. PlaceRank(NoPass.at) < PlaceRank(p.at)
    BY <2>1, <2>2, PlacesAre
  <2>4. NoPass.todo \subseteq p.todo /\ NoPass.at # "recipients" /\ NoPass.at # "policies" /\ p.at \notin {"recipients", "policies"}
    BY <2>1, <2>2
  <2> QED BY <1>3, <1>11, <2>1, <2>3, <2>4
<1> QED BY <1>5, <1>6, <1>7, <1>8, <1>9, <1>10, <1>11, Zenon DEF PassStep

\* The scheduler's flag is set exactly while its pass runs, and every step of a pass brings it nearer to its
\* end, which no other step puts off: if passes go on as long as they can, the flag is released.
THEOREM PassesComeToAnEnd ==
  ASSUME IsFiniteSet(Contacts)
  PROVE  Spec => []FlagIsThePass /\ [][\A r \in Runners : Advances(r)]_vars
<1>1. Init => FlagIsThePass
  <2> SUFFICES ASSUME RemInit PROVE FlagIsThePass
    BY DEF Init
  <2>1. running = FALSE /\ pass[Scheduler].at = "idle"
    BY RemindersAssumption DEF RemInit, NoPass
  <2> QED BY <2>1 DEF FlagIsThePass
<1>2. ASSUME TypeOK, TypeOK', FlagIsThePass, Next
      PROVE  FlagIsThePass' /\ \A r \in Runners : Advances(r)
  <2> pass \in [Runners -> Pass] /\ running \in BOOLEAN /\ pass' \in [Runners -> Pass] /\ Scheduler \in Runners
    BY <1>2, RemindersAssumption DEF TypeOK, RemTypeOK
  <2>1. \A r \in Runners : PassRank(pass[r]) \in Nat
    BY RanksAreNumbers
  <2>2. ASSUME UNCHANGED <<pass, running>> PROVE FlagIsThePass' /\ \A r \in Runners : Advances(r)
    <3>1. \A r \in Runners : ~PassStep(r)
      <4>1. ASSUME NEW r \in Runners, PassStep(r) PROVE FALSE
        <5>1. PassRank(pass'[r]) < PassRank(pass[r])
          BY <1>2, <4>1, PassFalls
        <5> QED BY <2>1, <2>2, <5>1
      <4> QED BY <4>1
    <3>2. FlagIsThePass'
      BY <1>2, <2>2 DEF FlagIsThePass
    <3> QED BY <2>1, <2>2, <3>1, <3>2 DEF Advances
  <2>3. ASSUME NEW r \in Runners, PassStep(r) PROVE FlagIsThePass' /\ \A q \in Runners : Advances(q)
    <3>1. /\ PassRank(pass'[r]) < PassRank(pass[r])
          /\ \A q \in Runners \ {r} : pass'[q].at = pass[q].at /\ pass'[q].todo = pass[q].todo
          /\ pass'[r].at # "idle" \/ EndPass(r)
      BY <1>2, <2>3, PassFalls
    <3>2. \A q \in Runners \ {r} : PassRank(pass'[q]) = PassRank(pass[q])
      BY <3>1 DEF PassRank
    <3>3. ASSUME NEW q \in Runners PROVE Advances(q)
      <4>1. ASSUME PassStep(q) PROVE PassRank(pass'[q]) < PassRank(pass[q])
        BY <1>2, <4>1, PassFalls
      <4>2. PassRank(pass'[q]) <= PassRank(pass[q])
        <5>1. PassRank(pass[q]) \in Nat /\ PassRank(pass'[q]) \in Nat
          BY RanksAreNumbers
        <5>2. CASE q = r
          BY <3>1, <5>1, <5>2
        <5>3. CASE q # r
          BY <3>2, <5>1, <5>3
        <5> QED BY <5>2, <5>3
      <4> QED BY <4>1, <4>2 DEF Advances
    <3>4. CASE EndPass(r)
      <4>1. NoPass.at = "idle"
        BY DEF NoPass
      <4>2. pass'[r] = NoPass /\ (\A q \in Runners \ {r} : pass'[q] = pass[q]) /\ running' = IF r = Scheduler THEN FALSE ELSE running
        BY <3>4 DEF EndPass
      <4>3. FlagIsThePass'
        BY <1>2, <4>1, <4>2 DEF FlagIsThePass
      <4> QED BY <3>3, <4>3
    <3>5. CASE ~EndPass(r)
      <4>1. running' = running
        BY <2>3, <3>5, ZenonT(60) DEF PassStep, ReadPolicies, ReadRecipients, FindContacts, CheckCooldown, SendMail, MailRefused,
           Record, RecordThrows, RecordFailed, RecordFailedThrows, PolicyDone, Steps, WriteRow
      <4>2. pass[r].at # "idle"
        BY <2>3, ZenonT(60) DEF PassStep, ReadPolicies, ReadRecipients, FindContacts, CheckCooldown, SendMail, MailRefused,
           Record, RecordThrows, RecordFailed, RecordFailedThrows, PolicyDone, EndPass
      <4>3. pass'[Scheduler].at = "idle" <=> pass[Scheduler].at = "idle"
        <5>1. CASE Scheduler = r
          BY <3>1, <3>5, <4>2, <5>1
        <5>2. CASE Scheduler # r
          BY <3>1, <5>2
        <5> QED BY <5>1, <5>2
      <4>4. FlagIsThePass'
        BY <1>2, <4>1, <4>3 DEF FlagIsThePass
      <4> QED BY <3>3, <4>4
    <3> QED BY <3>4, <3>5
  <2>4. ASSUME NEW r \in Runners, pass[r].at = "idle", pass' = [pass EXCEPT ![r].at = "policies"],
               running' = IF r = Scheduler THEN TRUE ELSE running
        PROVE  FlagIsThePass' /\ \A q \in Runners : Advances(q)
    <3>1. pass'[r].at = "policies" /\ \A q \in Runners \ {r} : pass'[q] = pass[q]
      BY <2>4 DEF Pass
    <3>2. FlagIsThePass'
      BY <1>2, <2>4, <3>1 DEF FlagIsThePass
    <3>3. ASSUME NEW q \in Runners PROVE Advances(q)
      <4>1. ~PassStep(q)
        <5>1. ASSUME PassStep(q) PROVE FALSE
          <6>1. \A s \in Runners \ {q} : pass'[s].at = pass[s].at
            BY <1>2, <5>1, PassFalls
          <6>2. pass[q].at # "idle"
            BY <5>1, ZenonT(60) DEF PassStep, ReadPolicies, ReadRecipients, FindContacts, CheckCooldown, SendMail, MailRefused,
               Record, RecordThrows, RecordFailed, RecordFailedThrows, PolicyDone, EndPass
          <6> QED BY <2>4, <3>1, <6>1, <6>2
        <5> QED BY <5>1
      <4>2. pass[q].at # "idle" => PassRank(pass'[q]) = PassRank(pass[q])
        BY <2>4, <3>1
      <4>3. PassRank(pass[q]) \in Nat
        BY RanksAreNumbers
      <4> QED BY <4>1, <4>2, <4>3 DEF Advances
    <3> QED BY <3>2, <3>3
  <2>5. CASE PassesDie
    <3>1. running' = FALSE /\ \A q \in Runners : pass'[q] = NoPass
      BY <2>5 DEF PassesDie
    <3>2. NoPass.at = "idle" /\ NoPass.todo = {}
      BY DEF NoPass
    <3>3. FlagIsThePass'
      BY <3>1, <3>2 DEF FlagIsThePass
    <3>4. ASSUME NEW q \in Runners PROVE Advances(q)
      <4>1. PassRank(NoPass) = 0
        <5>1. Cardinality({}) = 0
          BY FS_EmptySet
        <5> QED BY <3>2, <5>1, PlacesAre DEF PassRank
      <4>2. PassRank(pass[q]) \in Nat /\ pass'[q] = NoPass
        BY <3>1, RanksAreNumbers
      <4>3. ASSUME PassStep(q) PROVE PassRank(pass'[q]) < PassRank(pass[q])
        BY <1>2, <4>3, PassFalls
      <4> QED BY <4>1, <4>2, <4>3 DEF Advances
    <3> QED BY <3>3, <3>4
  <2>6. CASE RemNext
    <3>1. CASE \/ \E set \in Policies : AskPolicy(set) \/ SavePolicy(set) \/ SavePolicyFails(set)
               \/ DeletePolicy
               \/ \E c \in Contacts, amount \in 0..FirstDue : Pays(c, amount)
      BY <2>2, <3>1 DEF AskPolicy, SavePolicy, SavePolicyFails, DeletePolicy, Pays
    <3>2. CASE Tick
      BY <2>4, <3>2, RemindersAssumption DEF Tick
    <3>3. ASSUME NEW r \in Runners, RunNow(r) PROVE FlagIsThePass' /\ \A q \in Runners : Advances(q)
      BY <2>4, <3>3 DEF RunNow
    <3> QED BY <2>3, <2>6, <3>1, <3>2, <3>3, Zenon DEF RemNext
  <2>7. CASE Crash
    BY <2>5, <2>7 DEF Crash
  <2>8. CASE ~RemNext /\ ~Crash
    BY <1>2, <2>2, <2>8, Zenon DEF Next, GoesWithContact, remVars
  <2> QED BY <2>6, <2>7, <2>8
<1>3. ASSUME TypeOK, TypeOK', FlagIsThePass, UNCHANGED vars
      PROVE  FlagIsThePass'
  BY <1>3 DEF vars, remVars, FlagIsThePass
<1> QED BY TypeCorrect, <1>1, <1>2, <1>3, PTL DEF Spec
=============================================================================
