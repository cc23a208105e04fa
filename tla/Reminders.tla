----------------------------- MODULE Reminders -----------------------------
(***************************************************************************)
(* The reminders an organization sends to contacts that owe it money.      *)
(*                                                                         *)
(* A pass reads the policy, then who is to be reminded, and then takes one *)
(* contact after the other: it skips those whose last row in the history   *)
(* is within the cooldown, sends the mail, and only then writes the row.   *)
(* The hourly scheduler does not start a pass over another of its own; the *)
(* passes administrators ask for know of no other.                         *)
(*                                                                         *)
(* The database deletes the history with its policy or contact.  What a    *)
(* contact owes is owed since the first day and only gets less.            *)
(***************************************************************************)
EXTENDS Directory

CONSTANTS
    Policies,  \* the settings a policy can have
    FirstPolicy, FirstDue, \* those of the policy, and what each of the first contacts owes
    Runners,   \* passes that can be in flight
    Scheduler  \* that of the scheduler; the others are asked for

VARIABLES
    policy,    \* the policy: whether it is there, its settings, and those that
               \* requests which have read it are to save
    due,       \* the open balance of each contact
    last,      \* the day of the last row in the history of each contact, or 0
    running,   \* the scheduler's flag
    pass,      \* per runner: where it is, and what it has read
    mail,      \* history: the last mail to each contact
    unwritten, \* history: contacts whose last mail lost its row, or never gets one
    hasty      \* history: contacts reminded again too soon by a pass that could know

remVars == <<policy, due, last, running, pass, mail, unwritten, hasty>>

Settings == [enabled: BOOLEAN, audience: SUBSET Groups, threshold: Nat, overdue: Nat, cooldown: Nat]

ASSUME RemindersAssumption ==
    /\ Policies \subseteq Settings /\ FirstPolicy \in Policies /\ FirstDue \in Nat
    /\ Scheduler \in Runners

Days == 0..MaxDay

\* `amount` is what a mail is to state and `owed` what the contact owed then; `seen`
\* says that the history showed the last mail to `contact`, and no other came since.
Pass == [at: {"idle", "policies", "recipients", "contacts", "next", "send", "sent", "threw", "end"},
         set: Settings, todo: SUBSET Contacts, amount: [Contacts -> Nat],
         owed: [Contacts -> Nat], contact: Contacts, seen: BOOLEAN]

NoPass == [at |-> "idle", set |-> FirstPolicy, todo |-> {},
           amount |-> [c \in Contacts |-> 0], owed |-> [c \in Contacts |-> 0],
           contact |-> CHOOSE c \in Contacts : TRUE, seen |-> FALSE]

NoMail == [day |-> 0, amount |-> 0, owed |-> 0]

Steps(r, new) ==
    /\ pass' = [pass EXCEPT ![r] = new]
    /\ UNCHANGED <<day, left, policy, due, last, running, mail, unwritten, hasty>>

-----------------------------------------------------------------------------
(* The policy and what contacts owe. *)

\* updatePolicy reads the policy and changes its copy ...
AskPolicy(set) ==
    /\ policy.here
    /\ Comes("reminders")
    /\ policy' = [policy EXCEPT !.saves = @ \cup {set}]
    /\ UNCHANGED <<day, due, last, running, pass, mail, unwritten, hasty>>

\* ... and saves all of it: over what others have saved since, and as a new row where
\* the policy was deleted.
SavePolicy(set) ==
    /\ set \in policy.saves
    /\ policy' = [here |-> TRUE, set |-> set, saves |-> policy.saves \ {set}]
    /\ UNCHANGED <<day, left, due, last, running, pass, mail, unwritten, hasty>>

SavePolicyFails(set) ==
    /\ set \in policy.saves
    /\ policy' = [policy EXCEPT !.saves = @ \ {set}]
    /\ UNCHANGED <<day, left, due, last, running, pass, mail, unwritten, hasty>>

\* deletePolicy, with the rows of its history.
DeletePolicy ==
    /\ policy.here
    /\ Comes("reminders")
    /\ policy' = [policy EXCEPT !.here = FALSE]
    /\ last' = [c \in Contacts |-> 0]
    /\ unwritten' = Contacts
    /\ UNCHANGED <<day, due, running, pass, mail, hasty>>

\* Mutant: what is paid is taken off, even if it is more than is due.
TakenOff(c, amount) ==
    /\ Comes("reminders")
    /\ due' = [due EXCEPT ![c] = @ - amount]
    /\ UNCHANGED <<day, policy, last, running, pass, mail, unwritten, hasty>>

\* Payments of the contact are recorded.
Pays(c, amount) ==
    /\ amount < due[c]
    /\ Comes("reminders")
    /\ due' = [due EXCEPT ![c] = amount]
    /\ UNCHANGED <<day, policy, last, running, pass, mail, unwritten, hasty>>

\* What a step of the directory takes with it: the history, and the balance, of a
\* contact that is deleted.
GoesWithContact ==
    LET gone == {c \in Contacts : Known(c) /\ ~contact'[c].here}
    IN  /\ last' = [c \in Contacts |-> IF c \in gone THEN 0 ELSE last[c]]
        /\ due' = [c \in Contacts |-> IF c \in gone THEN 0 ELSE due[c]]
        /\ unwritten' = unwritten \cup gone
        /\ UNCHANGED <<policy, running, pass, mail, hasty>>

-----------------------------------------------------------------------------
(* Passes. *)

\* runScheduledReminders; a tick during a pass of the scheduler does nothing.
Tick ==
    /\ pass[Scheduler].at = "idle" /\ ~running
    /\ Comes("reminders")
    /\ running' = TRUE
    /\ pass' = [pass EXCEPT ![Scheduler].at = "policies"]
    /\ UNCHANGED <<day, policy, due, last, mail, unwritten, hasty>>

\* runForOrganization, on request.
RunNow(r) ==
    /\ r # Scheduler /\ pass[r].at = "idle"
    /\ Comes("reminders")
    /\ pass' = [pass EXCEPT ![r].at = "policies"]
    /\ UNCHANGED <<day, policy, due, last, running, mail, unwritten, hasty>>

\* executeRemindersForOrganization reads the enabled policies.
ReadPolicies(r) ==
    /\ pass[r].at = "policies"
    /\ Steps(r, IF policy.here /\ policy.set.enabled
                THEN [pass[r] EXCEPT !.at = "recipients", !.set = policy.set]
                ELSE [pass[r] EXCEPT !.at = "end"])

\* The rows the query has for a payment of c: one per group of the audience c is in.
Rows(set, c) ==
    IF set.audience = {} THEN 1 ELSE Cardinality({g \in set.audience : <<g, c>> \in member})

\* The sum of the balances over these rows.
Stated(set, c) == due[c] * Rows(set, c)

Eligible(set, c) ==
    /\ Known(c) /\ contact[c].active
    /\ Stated(set, c) > 0 /\ Stated(set, c) >= set.threshold
    /\ day - 1 >= set.overdue

\* getEligibleRecipients sums up what contacts owe ...
ReadRecipients(r) ==
    /\ pass[r].at = "recipients"
    /\ LET set == pass[r].set
           found == {c \in Contacts : Eligible(set, c)}
       IN  Steps(r, [pass[r] EXCEPT !.at = "contacts", !.todo = found,
                                    !.amount = [c \in Contacts |-> IF c \in found THEN Stated(set, c) ELSE 0],
                                    !.owed = [c \in Contacts |-> IF c \in found THEN due[c] ELSE 0]])

\* ... and then reads the contacts, leaving out those that are gone.
FindContacts(r) ==
    /\ pass[r].at = "contacts"
    /\ Steps(r, [pass[r] EXCEPT !.at = "next", !.todo = {c \in @ : Known(c)}])

\* The last row of the contact, sent or failed, is within the cooldown.
CoolsDown(set, c) == last[c] # 0 /\ day - last[c] < set.cooldown

\* No mail to c is without its row.
Written(c) ==
    /\ c \notin unwritten
    /\ \A r \in Runners : pass[r].at \in {"sent", "threw"} => pass[r].contact # c

\* executePolicy takes a contact and looks at its history.
CheckCooldown(r) ==
    /\ pass[r].at = "next"
    /\ \E c \in pass[r].todo :
          Steps(r, IF CoolsDown(pass[r].set, c)
                   THEN [pass[r] EXCEPT !.todo = @ \ {c}]
                   ELSE [pass[r] EXCEPT !.at = "send", !.todo = @ \ {c},
                                        !.contact = c, !.seen = Written(c)])

\* Others that are about to mail c as well cannot know of this mail.
Unaware(r, c) ==
    [q \in Runners |-> IF q # r /\ pass[q].at = "send" /\ pass[q].contact = c
                       THEN [pass[q] EXCEPT !.seen = FALSE] ELSE pass[q]]

TooSoon(r, c) ==
    /\ mail[c].day # 0 /\ day - mail[c].day < pass[r].set.cooldown
    /\ pass[r].seen

\* sendReminder: the mail goes out, and the call may throw nevertheless ...
SendMail(r, at) ==
    LET p == pass[r]
        c == p.contact
    IN  /\ p.at = "send" /\ at \in {"sent", "threw"}
        /\ mail' = [mail EXCEPT ![c] = [day |-> day, amount |-> p.amount[c], owed |-> p.owed[c]]]
        /\ hasty' = IF TooSoon(r, c) THEN hasty \cup {c} ELSE hasty
        /\ pass' = [Unaware(r, c) EXCEPT ![r].at = at]
        /\ UNCHANGED <<day, left, policy, due, last, running, unwritten>>

\* ... or it throws before: the plan's quota, or the provider.
MailRefused(r) ==
    pass[r].at = "send" /\ Steps(r, [pass[r] EXCEPT !.at = "threw"])

\* A row can be written while the policy and the contact it names are there.
WriteRow(r) ==
    LET c == pass[r].contact
    IN  /\ policy.here /\ Known(c)
        /\ last' = [last EXCEPT ![c] = day]
        /\ unwritten' = unwritten \ {c}
        /\ pass' = [pass EXCEPT ![r].at = "next"]
        /\ UNCHANGED <<day, left, policy, due, running, mail, hasty>>

Record(r) == pass[r].at = "sent" /\ WriteRow(r)

\* The save throws: the catch takes it for a failed send.
RecordThrows(r) ==
    pass[r].at = "sent" /\ Steps(r, [pass[r] EXCEPT !.at = "threw"])

\* Mutant: a failed send is only logged.
OnlyLogged(r) ==
    pass[r].at = "threw" /\ Steps(r, [pass[r] EXCEPT !.at = "next"])

RecordFailed(r) == pass[r].at = "threw" /\ WriteRow(r)

\* Mutant: the error leaves the pass, which only releases the flag after its loop.
NotCaught(r) ==
    /\ pass[r].at = "threw"
    /\ unwritten' = unwritten \cup {pass[r].contact}
    /\ pass' = [pass EXCEPT ![r] = NoPass]
    /\ UNCHANGED <<day, left, policy, due, last, running, mail, hasty>>

\* If that throws too, the rest of the policy's contacts is left out.
RecordFailedThrows(r) ==
    /\ pass[r].at = "threw"
    /\ unwritten' = unwritten \cup {pass[r].contact}
    /\ pass' = [pass EXCEPT ![r].at = "end"]
    /\ UNCHANGED <<day, left, policy, due, last, running, mail, hasty>>

PolicyDone(r) ==
    /\ pass[r].at = "next" /\ pass[r].todo = {}
    /\ Steps(r, [pass[r] EXCEPT !.at = "end"])

EndPass(r) ==
    /\ pass[r].at = "end"
    /\ running' = IF r = Scheduler THEN FALSE ELSE running
    /\ pass' = [pass EXCEPT ![r] = NoPass]
    /\ UNCHANGED <<day, left, policy, due, last, mail, unwritten, hasty>>

\* The process dies, with its passes, the flag and the copies of the policy.
PassesDie ==
    /\ running' = FALSE
    /\ pass' = [r \in Runners |-> NoPass]
    /\ unwritten' = unwritten \cup
          {c \in Contacts : \E r \in Runners : pass[r].at \in {"sent", "threw"} /\ pass[r].contact = c}
    /\ policy' = [policy EXCEPT !.saves = {}]
    /\ UNCHANGED <<due, last, mail, hasty>>

-----------------------------------------------------------------------------
RemInit ==
    /\ policy = [here |-> TRUE, set |-> FirstPolicy, saves |-> {}]
    /\ due = [c \in Contacts |-> IF c \in made.contacts THEN FirstDue ELSE 0]
    /\ last = [c \in Contacts |-> 0]
    /\ running = FALSE
    /\ pass = [r \in Runners |-> NoPass]
    /\ mail = [c \in Contacts |-> NoMail]
    /\ unwritten = {} /\ hasty = {}

PassStep(r) ==
    \/ ReadPolicies(r) \/ ReadRecipients(r) \/ FindContacts(r) \/ CheckCooldown(r)
    \/ \E at \in {"sent", "threw"} : SendMail(r, at)
    \/ MailRefused(r) \/ Record(r) \/ RecordThrows(r) \/ RecordFailed(r) \/ RecordFailedThrows(r)
    \/ PolicyDone(r) \/ EndPass(r)

RemNext ==
    \/ \E set \in Policies : AskPolicy(set) \/ SavePolicy(set) \/ SavePolicyFails(set)
    \/ DeletePolicy
    \/ \E c \in Contacts, amount \in 0..FirstDue : Pays(c, amount)
    \/ Tick
    \/ \E r \in Runners : RunNow(r) \/ PassStep(r)

-----------------------------------------------------------------------------
RemTypeOK ==
    /\ policy \in [here: BOOLEAN, set: Policies, saves: SUBSET Policies]
    /\ due \in [Contacts -> 0..FirstDue]
    /\ last \in [Contacts -> Days]
    /\ running \in BOOLEAN
    /\ pass \in [Runners -> Pass]
    /\ mail \in [Contacts -> [day: Days, amount: Nat, owed: Nat]]
    /\ unwritten \subseteq Contacts /\ hasty \subseteq Contacts

\* A contact is not reminded again within the cooldown, be it that the first mail was
\* taken for a failed one, or that passes overlap; but for a pass that could not know
\* of the first mail: one that checked before it went out or before its row was
\* written, or after the row was lost to a crash, an error or a deletion.
CooldownHolds == hasty = {}

\* A mail states what its contact owes ("{{balance_due}}: Outstanding balance amount",
\* organization-reminder-policy.entity.ts:76).
AmountIsOwed == \A c \in Contacts : mail[c].amount = mail[c].owed

\* The scheduler's flag does not stay set, whatever throws in a pass; so the next
\* ticks are not skipped.
PassEnds == running ~> ~running
=============================================================================
