----------------------------- MODULE Directory -----------------------------
(***************************************************************************)
(* The groups of an organization, its contacts and who is in which group.  *)
(*                                                                         *)
(* Members can be changed from the side of a group, which reads the whole  *)
(* collection and saves it, and from the side of a contact, which replaces *)
(* the groups of the contact.  Either save writes the other columns of the *)
(* row it read as well, and inserts a row that was deleted meanwhile.  An  *)
(* import walks its paths over a copy of the groups and creates what the   *)
(* copy does not have, row by row, before any contact is saved.            *)
(*                                                                         *)
(* The database refuses a second group of the same name, a parent or a     *)
(* member that is not there and the deletion of a group with members; it   *)
(* takes the parent of the subgroups of a deleted group.                   *)
(***************************************************************************)
EXTENDS Clock, Sequences, FiniteSets

CONSTANTS
    MaxGroups,     \* bound: the groups there will ever be
    Names, FirstNames, \* the names groups can have, and those of the two there are at first
    Contacts,      \* e-mail addresses; one that was deleted is not entered again
    FirstContacts, \* those that are there at first, for each budget
    Paths,         \* the group paths imports are given: sequences of names
    DirRequests    \* requests about groups and contacts that can be in flight

VARIABLES
    group,     \* the groups table
    contact,   \* the contacts table
    member,    \* contact_groups: pairs of a group and a contact
    made,      \* the groups and contacts there have been
    task,      \* per request: the handler, where it is, and what it has read
    asked,     \* history: the pairs as the last request about each wants them
    mixed,     \* history: pairs that were written under a copy of the members
    orphaned,  \* history: subgroups that lost their parent, with the parent
    late       \* history: those put below a group that was already counted

tables  == <<group, contact, member, made>>
history == <<asked, mixed, orphaned, late>>
dirVars == <<tables, task, history>>

Groups  == 1..MaxGroups
NoGroup == 0

ASSUME DirectoryAssumption ==
    /\ MaxGroups \in Nat \ {0, 1}
    /\ FirstNames \in [{1, 2} -> Names] /\ FirstNames[1] # FirstNames[2]
    /\ FirstContacts \in [Budgets -> SUBSET Contacts] /\ Contacts # {}
    /\ Paths \subseteq Seq(Names) \ {<<>>}
    /\ NoGroup \notin DirRequests

-----------------------------------------------------------------------------
GroupRow   == [here: BOOLEAN, name: Names, parent: Groups \cup {NoGroup}]
ContactRow == [here: BOOLEAN, active: BOOLEAN]

NoRow == [here |-> FALSE, name |-> CHOOSE n \in Names : TRUE, parent |-> NoGroup]

Ops == {"add", "remove", "assign", "detach", "delete", "create", "import"}

\* `set` is the collection to save, `chosen` the groups of a contact; an import walks
\* `rest` below the group `below`, over the copy `snap`; `clean` says that no one
\* else has written a group since that copy.
Task == [op: Ops, at: {"idle", "pick", "save", "detach", "children", "members", "delete", "walk"},
         group: Groups, row: GroupRow, contact: Contacts, copy: ContactRow,
         set: SUBSET Contacts, chosen: SUBSET Groups,
         todo: SUBSET Paths, rest: Seq(Names), below: Groups \cup {NoGroup},
         given: SUBSET Groups, snap: [Groups -> GroupRow], paths: SUBSET Paths,
         clean: BOOLEAN]

NoTask == [op |-> "add", at |-> "idle", group |-> 1, row |-> NoRow,
           contact |-> CHOOSE c \in Contacts : TRUE, copy |-> [here |-> FALSE, active |-> FALSE],
           set |-> {}, chosen |-> {}, todo |-> {}, rest |-> <<>>, below |-> NoGroup,
           given |-> {}, snap |-> [g \in Groups |-> NoRow], paths |-> {}, clean |-> TRUE]

Here(g)    == group[g].here
Known(c)   == contact[c].here
Members(g) == {c \in Contacts : <<g, c>> \in member}
Below(g)   == {h \in Groups : Here(h) /\ group[h].parent = g}
Exists(g)  == g = NoGroup \/ (g \in Groups /\ Here(g))

\* The foreign key of the parent and the unique index on the name.
ValidRow(g, row) ==
    /\ Exists(row.parent) \/ row.parent = g
    /\ \A h \in Groups \ {g} : Here(h) => group[h].name # row.name

Enters(r, new) ==
    /\ task[r].at = "idle"
    /\ Comes("directory")
    /\ task' = [task EXCEPT ![r] = new]
    /\ UNCHANGED <<day, tables, history>>

\* A request that is refused, by the code or by the database, writes nothing.
Refused(r) ==
    /\ task' = [task EXCEPT ![r] = NoTask]
    /\ UNCHANGED <<day, left, tables, history>>

Goes(r, at) ==
    /\ task' = [task EXCEPT ![r].at = at]
    /\ UNCHANGED <<day, left, tables, history>>

-----------------------------------------------------------------------------
(* What a write does to the history. *)

\* A request that holds the members of g and is to save them.
Holds(r, g) == task[r].op \in {"add", "remove"} /\ task[r].at # "idle" /\ task[r].group = g

\* The pairs someone other than r holds a copy of.
Held(r) == {p \in Groups \X Contacts : \E q \in DirRequests \ {r} : Holds(q, p[1])}

\* The tasks after a write of a group by r: every other import's copy has aged.
Aged(r, new) ==
    [q \in DirRequests |-> IF q = r THEN new
                           ELSE IF task[q].at = "walk" THEN [task[q] EXCEPT !.clean = FALSE]
                           ELSE task[q]]

\* g is now below its parent, which a deletion may have counted already.
Attached(g, row) ==
    late' = IF /\ Here(g) => group[g].parent # row.parent
               /\ \E q \in DirRequests : /\ task[q].op = "delete" /\ task[q].group = row.parent
                                         /\ task[q].at \in {"members", "delete"}
            THEN late \cup {<<g, row.parent>>} ELSE late

-----------------------------------------------------------------------------
(* Groups: single statements. *)

\* GroupService.create
CreateGroup(n, row) ==
    /\ n = made.groups + 1
    /\ Comes("directory")
    /\ ValidRow(n, row) /\ row.parent # n
    /\ group' = [group EXCEPT ![n] = row]
    /\ made' = [made EXCEPT !.groups = n]
    /\ Attached(n, row)
    /\ task' = Aged(0, NoTask)
    /\ UNCHANGED <<day, contact, member, asked, mixed, orphaned>>

\* update: the name or the parent, of a group that is there; nothing looks for cycles,
\* and a null parent passes the validation and detaches the group.
UpdateGroup(g, row) ==
    /\ Here(g)
    /\ Comes("directory")
    /\ ValidRow(g, row)
    /\ group' = [group EXCEPT ![g] = row]
    /\ Attached(g, row)
    /\ task' = Aged(0, NoTask)
    /\ UNCHANGED <<day, contact, member, made, asked, mixed, orphaned>>

\* detachFromParent reads the group ...
AskDetach(r, g) ==
    /\ Here(g) /\ group[g].parent # NoGroup
    /\ Enters(r, [NoTask EXCEPT !.op = "detach", !.at = "detach", !.group = g])

\* ... and updates its parent, whatever that is now.
Detach(r) ==
    /\ task[r].at = "detach"
    /\ group' = [group EXCEPT ![task[r].group].parent = NoGroup]
    /\ task' = Aged(r, NoTask)
    /\ UNCHANGED <<day, left, contact, member, made, history>>

-----------------------------------------------------------------------------
(* Deletion: two counts, then the statement. *)

AskDelete(r, g) ==
    Here(g) /\ Enters(r, [NoTask EXCEPT !.op = "delete", !.at = "children", !.group = g])

\* The groups whose parent_group_id is the group's.
Subgroups(g) == Below(g)

CountChildren(r) ==
    /\ task[r].at = "children"
    /\ IF Subgroups(task[r].group) # {} THEN Refused(r) ELSE Goes(r, "members")

CountMembers(r) ==
    /\ task[r].at = "members"
    /\ IF Members(task[r].group) # {} THEN Refused(r) ELSE Goes(r, "delete")

\* The foreign key of the members refuses, that of the parent gives way.
DeleteGroup(r) ==
    LET g == task[r].group
    IN  /\ task[r].at = "delete"
        /\ IF Members(g) # {} THEN Refused(r)
           ELSE /\ group' = [h \in Groups |->
                               IF h = g THEN NoRow
                               ELSE IF h \in Below(g) THEN [group[h] EXCEPT !.parent = NoGroup]
                               ELSE group[h]]
                /\ orphaned' = orphaned \cup ((Below(g) \ {g}) \X {g})
                /\ task' = Aged(r, NoTask)
                /\ UNCHANGED <<day, left, contact, member, made, asked, mixed, late>>

-----------------------------------------------------------------------------
(* Members, from the side of a group; a request names one contact. *)

\* addContacts reads the group with its contacts ...
AskAdd(r, g, c) ==
    /\ Here(g)
    /\ Enters(r, [NoTask EXCEPT !.op = "add", !.at = "pick", !.group = g, !.row = group[g],
                                !.set = Members(g), !.contact = c])

\* Mutant: the contacts that are given replace those that were read.
OnlyNew(old, c) == {c}

WithNew(old, c) == old \cup {c}

\* ... and then the contact, if there is one; the collection is both.
PickContact(r) ==
    LET c == task[r].contact
    IN  /\ task[r].at = "pick" /\ task[r].op = "add"
        /\ task' = [task EXCEPT ![r].at = "save",
                                ![r].set = IF Known(c) THEN WithNew(@, c) ELSE @]
        /\ UNCHANGED <<day, left, tables, history>>

\* removeContacts
AskRemove(r, g, c) ==
    /\ Here(g)
    /\ Enters(r, [NoTask EXCEPT !.op = "remove", !.at = "save", !.group = g, !.row = group[g],
                                !.set = Members(g) \ {c}, !.contact = c])

\* The save: the row and the collection as they were read, or nothing.
SaveMembers(r) ==
    LET t == task[r]
        g == t.group
    IN  /\ t.at = "save" /\ t.op \in {"add", "remove"}
        /\ IF ~ValidRow(g, t.row) \/ ~\A c \in t.set : Known(c) THEN Refused(r)
           ELSE /\ group' = [group EXCEPT ![g] = t.row]
                /\ Attached(g, t.row)
                /\ member' = (member \ ({g} \X Contacts)) \cup ({g} \X t.set)
                /\ asked' = (asked \ {<<g, t.contact>>}) \cup ({g} \X (t.set \cap {t.contact}))
                /\ mixed' = mixed \cup (({g} \X Contacts) \cap Held(r))
                /\ task' = IF group[g] = t.row THEN [task EXCEPT ![r] = NoTask]
                           ELSE Aged(r, NoTask)
                /\ UNCHANGED <<day, left, contact, made, orphaned>>

-----------------------------------------------------------------------------
(* Contacts. *)

\* The contact c is left with the row given, in the groups gs.
Enrolls(r, c, row, gs) ==
    /\ contact' = [contact EXCEPT ![c] = row]
    /\ member' = (member \ (Groups \X {c})) \cup (gs \X {c})
    /\ asked' = (asked \ (Groups \X {c})) \cup (gs \X {c})
    /\ mixed' = mixed \cup ((Groups \X {c}) \cap Held(r))

\* assignToGroups reads the contact, and the groups if there are any, all of which
\* must be found ...
AskAssign(r, c, gs) ==
    /\ Known(c)
    /\ Enters(r, [NoTask EXCEPT !.op = "assign", !.at = IF gs = {} THEN "save" ELSE "pick",
                                !.contact = c, !.copy = contact[c], !.chosen = gs])

PickGroups(r) ==
    /\ task[r].at = "pick" /\ task[r].op = "assign"
    /\ IF \A g \in task[r].chosen : Here(g) THEN Goes(r, "save") ELSE Refused(r)

\* ... and saves the copy with these groups.
SaveAssigned(r) ==
    LET t == task[r]
    IN  /\ t.at = "save" /\ t.op = "assign"
        /\ IF ~\A g \in t.chosen : Here(g) THEN Refused(r)
           ELSE /\ Enrolls(r, t.contact, t.copy, t.chosen)
                /\ task' = [task EXCEPT ![r] = NoTask]
                /\ UNCHANGED <<day, left, group, made, orphaned, late>>

\* update and delete are single statements; memberships go with the contact.
UpdateContact(c, active) ==
    /\ Known(c)
    /\ Comes("directory")
    /\ contact' = [contact EXCEPT ![c].active = active]
    /\ UNCHANGED <<day, group, member, made, task, history>>

DeleteContact(c) ==
    /\ Known(c)
    /\ Comes("directory")
    /\ Enrolls(NoGroup, c, [here |-> FALSE, active |-> FALSE], {})
    /\ UNCHANGED <<day, group, made, task, orphaned, late>>

\* create finds the groups, and bulkImport the groups of the organization, once no
\* contact has the address.
AskNew(r, c, op, gs, ps) ==
    /\ c \notin made.contacts
    /\ \A g \in gs : Here(g)
    /\ Enters(r, [NoTask EXCEPT !.op = op, !.at = IF op = "create" THEN "save" ELSE "walk",
                                !.contact = c, !.given = gs, !.chosen = gs,
                                !.paths = ps, !.todo = ps, !.snap = group])

\* resolveImportGroups takes the paths of a row one by one ...
NextPath(r) ==
    /\ task[r].at = "walk" /\ task[r].rest = <<>>
    /\ \E p \in task[r].todo :
          task' = [task EXCEPT ![r].todo = @ \ {p}, ![r].rest = p, ![r].below = NoGroup]
    /\ UNCHANGED <<day, left, tables, history>>

\* Mutant: a group is looked up by its name.
FoundByName(t) == {g \in Groups : t.snap[g].here /\ t.snap[g].name = Head(t.rest)}

\* groupByKey: the name and the parent.
Found(t) == {g \in Groups : /\ t.snap[g].here
                            /\ t.snap[g].name = Head(t.rest) /\ t.snap[g].parent = t.below}

\* The task t one step down, at g; the group at the end of a path is chosen.
Down(t, g) == [t EXCEPT !.below = g, !.rest = Tail(@),
                        !.chosen = IF Len(t.rest) = 1 THEN @ \cup {g} ELSE @]

\* ... and ensureGroupPath follows each as far as the copy of the groups goes ...
Follow(r) ==
    /\ task[r].at = "walk" /\ task[r].rest # <<>>
    /\ \E g \in Found(task[r]) : task' = [task EXCEPT ![r] = Down(task[r], g)]
    /\ UNCHANGED <<day, left, tables, history>>

\* ... and creates what is missing; if the database refuses, the import ends there.
CreateMissing(r) ==
    LET t == task[r]
        n == made.groups + 1
        row == [here |-> TRUE, name |-> Head(t.rest), parent |-> t.below]
    IN  /\ t.at = "walk" /\ t.rest # <<>> /\ Found(t) = {}
        /\ n \in Groups
        /\ IF ~ValidRow(n, row) THEN Refused(r)
           ELSE /\ group' = [group EXCEPT ![n] = row]
                /\ made' = [made EXCEPT !.groups = n]
                /\ Attached(n, row)
                /\ task' = Aged(r, Down([t EXCEPT !.snap[n] = row], n))
                /\ UNCHANGED <<day, left, contact, member, asked, mixed, orphaned>>

Walked(t) == t.op = "import" /\ t.at = "walk" /\ t.rest = <<>> /\ t.todo = {}

\* The contact is inserted with its groups; its address may be taken, a group gone.
SaveNew(r) ==
    LET t == task[r]
    IN  /\ Walked(t) \/ (t.at = "save" /\ t.op = "create")
        /\ IF t.contact \in made.contacts \/ ~\A g \in t.chosen : Here(g) THEN Refused(r)
           ELSE /\ Enrolls(r, t.contact, [here |-> TRUE, active |-> TRUE], t.chosen)
                /\ made' = [made EXCEPT !.contacts = @ \cup {t.contact}]
                /\ task' = [task EXCEPT ![r] = NoTask]
                /\ UNCHANGED <<day, left, group, orphaned, late>>

\* The process dies, with its requests; a copy that is gone ages no more.
RequestsDie ==
    /\ task' = [r \in DirRequests |-> NoTask]
    /\ UNCHANGED <<tables, history>>

-----------------------------------------------------------------------------
\* Two groups, the second one perhaps below the first, with everyone in the first.
DirInit ==
    /\ \E parent \in {NoGroup, 1} :
          group = [g \in Groups |->
                        CASE g = 1 -> [here |-> TRUE, name |-> FirstNames[1], parent |-> NoGroup]
                          [] g = 2 -> [here |-> TRUE, name |-> FirstNames[2], parent |-> parent]
                          [] OTHER -> NoRow]
    /\ made = [groups |-> 2, contacts |-> FirstContacts[left]]
    /\ contact = [c \in Contacts |-> [here |-> c \in made.contacts, active |-> c \in made.contacts]]
    /\ member = {1} \X made.contacts
    /\ task = [r \in DirRequests |-> NoTask]
    /\ asked = member
    /\ mixed = {} /\ orphaned = {} /\ late = {}

DirRequest(r) ==
    \/ \E g \in Groups : AskDetach(r, g) \/ AskDelete(r, g)
    \/ \E g \in Groups, c \in Contacts : AskAdd(r, g, c) \/ AskRemove(r, g, c)
    \/ \E c \in Contacts, gs \in SUBSET Groups :
          \/ AskAssign(r, c, gs)
          \/ AskNew(r, c, "create", gs, {})
          \/ \E ps \in SUBSET Paths : AskNew(r, c, "import", gs, ps)
    \/ Detach(r) \/ CountChildren(r) \/ CountMembers(r) \/ DeleteGroup(r)
    \/ PickContact(r) \/ SaveMembers(r) \/ PickGroups(r) \/ SaveAssigned(r)
    \/ NextPath(r) \/ Follow(r) \/ CreateMissing(r) \/ SaveNew(r)

DirNext ==
    \/ \E r \in DirRequests : DirRequest(r)
    \/ \E g \in Groups, row \in [here: {TRUE}, name: Names, parent: Groups \cup {NoGroup}] :
          CreateGroup(g, row) \/ UpdateGroup(g, row)
    \/ \E c \in Contacts : DeleteContact(c) \/ \E active \in BOOLEAN : UpdateContact(c, active)

-----------------------------------------------------------------------------
DirTypeOK ==
    /\ group \in [Groups -> GroupRow]
    /\ contact \in [Contacts -> ContactRow]
    /\ member \subseteq Groups \X Contacts
    /\ made \in [groups: Groups, contacts: SUBSET Contacts]
    /\ task \in [DirRequests -> Task]
    /\ asked \subseteq Groups \X Contacts /\ mixed \subseteq Groups \X Contacts
    /\ orphaned \subseteq Groups \X Groups /\ late \subseteq Groups \X Groups

\* Someone is in a group exactly if the last request about the two, from the side of
\* the group or of the contact, wants it so, whatever requests about other members
\* came between; unless the pair was written while the members were being changed.
MembershipsKept ==
    \A p \in (Groups \X Contacts) \ mixed : p \in member <=> p \in asked

\* "Group cannot be deleted while it has subgroups": a subgroup loses its parent to
\* a deletion only if it came below it after the subgroups were counted.
OnlyLateOrphans == orphaned \subseteq late

\* g is where the path leads from the root.
LeadsTo(path, g) ==
    \E s \in [1..Len(path) -> Groups] :
        /\ s[Len(path)] = g
        /\ \A i \in 1..Len(path) :
              /\ Here(s[i]) /\ group[s[i]].name = path[i]
              /\ group[s[i]].parent = IF i = 1 THEN NoGroup ELSE s[i - 1]

\* An import that walked its paths while no one else wrote a group has chosen the
\* groups the paths lead to, found or created, and those it was given.
ImportFollowsPaths ==
    \A r \in DirRequests :
        Walked(task[r]) /\ task[r].clean =>
            task[r].chosen = task[r].given
                \cup {g \in Groups : \E path \in task[r].paths : LeadsTo(path, g)}

\* Members, the tree and what an import made of its paths are as they were asked for.
DirectoryHolds == MembershipsKept /\ OnlyLateOrphans /\ ImportFollowsPaths
=============================================================================
