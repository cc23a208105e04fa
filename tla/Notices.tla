------------------------------- MODULE Notices -------------------------------
(***************************************************************************)
(* Reminders that are sent by hand, and the notices that contacts and      *)
(* users find when they sign in.                                           *)
(*                                                                         *)
(* A reminder is mailed to one contact after the other; whatever went out  *)
(* is metered in the end, also after an error; and only then a notice is   *)
(* saved, for those that can still be found.  A notice lists who has read  *)
(* it, and is saved as a whole by everyone who marks it.                   *)
(***************************************************************************)
EXTENDS Desk, FiniteSets

CONSTANTS
    Contacts,    \* of the organization
    Users,       \* of the organization
    MaxNotice    \* bound: the notices there will ever be

VARIABLES
    reachable,   \* contacts that are there and have an address
    notice,      \* contact_notifications and internal_notifications
    writer,      \* per request: where it is, and what it has read
    meter,       \* the mails the organization has been charged for
    mailsOut,    \* history: the mails that went out
    unmetered,   \* history: those that cannot be charged any more: their request died, the ledger
                 \*   did not take them, or the provider sent them and said that it had not
    marked,      \* history: who was answered that a notice is marked as read
    crossed      \* history: notices that two marked at once

noticeVars == <<reachable, notice, writer, meter, mailsOut, unmetered, marked, crossed>>

ASSUME NoticesAssumption == Contacts \cap Users = {} /\ Contacts \cup Users # {} /\ MaxNotice \in Nat \ {0}

-----------------------------------------------------------------------------
Notices == 1..MaxNotice
Readership == Contacts \cup Users

Notice == [to: {"none", "contacts", "users"}, all: BOOLEAN, targets: SUBSET Readership, read: SUBSET Readership]
NoNotice == [to |-> "none", all |-> FALSE, targets |-> {}, read |-> {}]

Writer == [at: {"idle", "mail", "meter", "targets", "save", "mark"},
           todo: SUBSET Contacts, out: SUBSET Contacts, failed: BOOLEAN,
           new: Notice, notice: Notices, who: Readership, reminds: BOOLEAN]
NoWriter == [at |-> "idle", todo |-> {}, out |-> {}, failed |-> FALSE, new |-> NoNotice,
             notice |-> 1, who |-> CHOOSE p \in Readership : TRUE, reminds |-> FALSE]

WriterBegins(r, new) ==
    /\ writer[r].at = "idle" /\ Comes("notices")
    /\ writer' = [writer EXCEPT ![r] = new]

WriterTurns(r, new) == writer' = [writer EXCEPT ![r] = new] /\ UNCHANGED left

noticeRows == <<notice, marked, crossed>>
mailRows == <<meter, mailsOut, unmetered>>

-----------------------------------------------------------------------------
\* sendReminder and sendGroupReminder of the controller: the contacts that can be
\* reached, at least one, and within the quota.
AskReminder(r, contacts) ==
    /\ contacts \subseteq reachable /\ contacts # {}
    /\ WriterBegins(r, [NoWriter EXCEPT !.at = "mail", !.todo = contacts, !.reminds = TRUE,
                    !.new = [NoNotice EXCEPT !.to = "contacts", !.targets = contacts]])
    /\ UNCHANGED <<reachable, noticeRows, mailRows>>

\* sendEmail
SendOne(r, c) ==
    /\ writer[r].at = "mail" /\ c \in writer[r].todo
    /\ mailsOut' = mailsOut + 1
    /\ WriterTurns(r, [writer[r] EXCEPT !.todo = @ \ {c}, !.out = @ \cup {c}])
    /\ UNCHANGED <<reachable, noticeRows, meter, unmetered>>

\* A send that fails ends the others; its own mail may have gone out.
SendFails(r) ==
    /\ writer[r].at = "mail" /\ writer[r].todo # {} /\ Comes("chance")
    /\ writer' = [writer EXCEPT ![r].at = "meter", ![r].failed = TRUE]
    /\ \E accepted \in {0, 1} : mailsOut' = mailsOut + accepted /\ unmetered' = unmetered + accepted
    /\ UNCHANGED <<reachable, noticeRows, meter>>

AllSent(r) ==
    /\ writer[r].at = "mail" /\ writer[r].todo = {}
    /\ WriterTurns(r, [writer[r] EXCEPT !.at = "meter"])
    /\ UNCHANGED <<reachable, noticeRows, mailRows>>

\* Mutant: what a failed request sent is not charged.
ChargedIfAllWent(w) == IF w.failed THEN 0 ELSE Cardinality(w.out)

\* recordUsage, of what went out.
Charged(w) == Cardinality(w.out)

Metered(w) == IF w.failed THEN NoWriter ELSE [w EXCEPT !.at = "targets"]

RecordUsage(r) ==
    LET w == writer[r]
    IN  /\ w.at = "meter"
        /\ meter' = meter + Charged(w)
        /\ WriterTurns(r, Metered(w))
        /\ UNCHANGED <<reachable, noticeRows, mailsOut, unmetered>>

\* A save of the ledger that fails is logged and forgotten: the request goes on.
UsageIsLost(r) ==
    LET w == writer[r]
    IN  /\ w.at = "meter" /\ w.out # {} /\ Comes("chance")
        /\ unmetered' = unmetered + Cardinality(w.out)
        /\ writer' = [writer EXCEPT ![r] = Metered(w)]
        /\ UNCHANGED <<reachable, noticeRows, meter, mailsOut>>

\* createContactNotification, also of a payment's new status, for its contact.
AskStatus(r, c) ==
    /\ WriterBegins(r, [NoWriter EXCEPT !.at = "targets", !.new = [NoNotice EXCEPT !.to = "contacts", !.targets = {c}]])
    /\ UNCHANGED <<reachable, noticeRows, mailRows>>

\* It looks the contacts up, once more, and gives up if there are none.
FindTargets(r) ==
    LET found == writer[r].new.targets \cap reachable
    IN  /\ writer[r].at = "targets"
        /\ WriterTurns(r, IF found = {} THEN NoWriter
                    ELSE [writer[r] EXCEPT !.at = "save", !.new.targets = found])
        /\ UNCHANGED <<reachable, noticeRows, mailRows>>

\* createInternalNotification: for users that are all there, or for everyone; who
\* writes it has read it.
AskInternal(r, users, who) ==
    /\ WriterBegins(r, [NoWriter EXCEPT !.at = "save",
                    !.new = [to |-> "users", all |-> users = {}, targets |-> users, read |-> {who}]])
    /\ UNCHANGED <<reachable, noticeRows, mailRows>>

SaveNotice(r, n) ==
    /\ writer[r].at = "save"
    /\ notice[n].to = "none" /\ \A m \in Notices : m < n => notice[m].to # "none"
    /\ notice' = [notice EXCEPT ![n] = writer[r].new]
    /\ WriterTurns(r, NoWriter)
    /\ UNCHANGED <<reachable, marked, crossed, mailRows>>

\* A notice is shown to those it names, or to all it is for.
Shown(n, p) ==
    /\ notice[n].to = IF p \in Contacts THEN "contacts" ELSE "users"
    /\ notice[n].all \/ p \in notice[n].targets

\* markContactNotificationRead and markInternalNotificationRead read the notice ...
AskMark(r, n, p) ==
    /\ Shown(n, p)
    /\ WriterBegins(r, [NoWriter EXCEPT !.at = "mark", !.notice = n, !.who = p,
                    !.new = [notice[n] EXCEPT !.read = @ \cup {p}]])
    /\ UNCHANGED <<reachable, noticeRows, mailRows>>

\* ... add the reader to the list, and save it.
MarkedCopy(w) == w.new

SaveMark(r) ==
    LET w == writer[r]
        n == w.notice
    IN  /\ w.at = "mark"
        /\ notice' = [notice EXCEPT ![n] = MarkedCopy(w)]
        /\ marked' = marked \cup {<<n, w.who>>}
        /\ crossed' = IF \E q \in Clerks \ {r} : writer[q].at = "mark" /\ writer[q].notice = n
                      THEN crossed \cup {n} ELSE crossed
        /\ WriterTurns(r, NoWriter)
        /\ UNCHANGED <<reachable, mailRows>>

\* Contacts are deleted, erased and created.
ContactComesOrGoes(c) ==
    /\ Comes("notices")
    /\ reachable' = IF c \in reachable THEN reachable \ {c} ELSE reachable \cup {c}
    /\ UNCHANGED <<notice, writer, meter, mailsOut, unmetered, marked, crossed>>

-----------------------------------------------------------------------------
Mailing == {r \in Clerks : writer[r].at \in {"mail", "meter"}}

\* The mails that requests have sent and not charged yet.
Uncharged(R) ==
    Cardinality(UNION {{r} \X writer[r].out : r \in R})

\* The process dies, with its requests.
WritersDie ==
    /\ unmetered' = unmetered + Uncharged(Mailing)
    /\ writer' = [r \in Clerks |-> NoWriter]
    /\ UNCHANGED <<reachable, meter, mailsOut, noticeRows>>

NoticesInit ==
    /\ reachable = Contacts
    /\ notice \in [Notices -> {NoNotice} \cup [to: {"contacts", "users"}, all: {TRUE}, targets: {{}}, read: {{}}]]
    /\ writer = [r \in Clerks |-> NoWriter]
    /\ meter = 0 /\ mailsOut = 0 /\ unmetered = 0
    /\ marked = {} /\ crossed = {}

AskNotice(r) ==
    \/ \E contacts \in SUBSET Contacts : AskReminder(r, contacts)
    \/ \E c \in Contacts : AskStatus(r, c)
    \/ \E users \in SUBSET Users, who \in Users : AskInternal(r, users, who)
    \/ \E n \in Notices, p \in Readership : AskMark(r, n, p)

NoticeStep(r) ==
    \/ May("notices") /\ AskNotice(r)
    \/ \E c \in Contacts : SendOne(r, c)
    \/ SendFails(r) \/ AllSent(r) \/ RecordUsage(r) \/ UsageIsLost(r) \/ FindTargets(r)
    \/ \E n \in Notices : SaveNotice(r, n)
    \/ SaveMark(r)

NoticesNext ==
    \/ \E r \in Clerks : NoticeStep(r)
    \/ \E c \in Contacts : ContactComesOrGoes(c)

-----------------------------------------------------------------------------
NoticesTypeOK ==
    /\ reachable \subseteq Contacts
    /\ notice \in [Notices -> Notice]
    /\ writer \in [Clerks -> Writer]
    /\ meter \in Nat /\ mailsOut \in Nat /\ unmetered \in Nat
    /\ marked \subseteq Notices \X Readership /\ crossed \subseteq Notices

\* Who was told that a notice is marked stays on its list, unless two marked it at once.
MarksAreKept ==
    \A m \in marked : m[1] \in crossed \/ m[2] \in notice[m[1]].read

\* Every mail that went out is charged once, or its request is still at it, or it cannot be
\* charged any more, for one of the three reasons there are.
MailIsCharged == mailsOut = meter + unmetered + Uncharged(Mailing)

\* A reminder's notice names only contacts that its mails were sent to.
NoticeFollowsMail ==
    \A r \in Clerks : writer[r].reminds /\ writer[r].at \in {"targets", "save"} =>
        writer[r].new.targets \subseteq writer[r].out /\ ~writer[r].failed

NoticesHold == MarksAreKept /\ MailIsCharged /\ NoticeFollowsMail
=============================================================================
