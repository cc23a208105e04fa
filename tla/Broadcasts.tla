----------------------------- MODULE Broadcasts -----------------------------
(***************************************************************************)
(* Mail from the platform's operators to the organizations: to all, to a   *)
(* segment, or to one.                                                     *)
(*                                                                         *)
(* A broadcast is recorded as queued, its recipients are found, each is    *)
(* sent a mail, and only then one row is inserted per recipient, some at a *)
(* time, and the broadcast is saved with their numbers.  Nothing takes up  *)
(* a broadcast again that was left queued.                                 *)
(***************************************************************************)
EXTENDS Desk, FiniteSets

CONSTANTS
    Orgs,           \* organizations
    Admins,         \* their administrators, as recipients: [org, mail, user]
    Offices,        \* the organizations' own addresses, of those that have one: [org, mail, user]
    MaxBroadcast,   \* bound: the broadcasts there will ever be
    Chunk           \* DELIVERY_INSERT_CHUNK

VARIABLES
    segment,     \* the organizations with the plan and the status asked for
    active,      \* the administrators that are active
    broadcast,   \* platform_notifications
    delivery,    \* platform_notification_deliveries
    sender,      \* per request: where it is, and what it has read
    mailed,      \* history: how many mails went out, by broadcast, organization and address
    audience,    \* history: the organizations that were asked for, by broadcast
    halted       \* history: broadcasts cut off by an error or a death

broadcastVars == <<segment, active, broadcast, delivery, sender, mailed, audience, halted>>

ASSUME BroadcastsAssumption ==
    /\ Chunk \in Nat \ {0} /\ MaxBroadcast \in Nat \ {0}
    /\ \A a \in Admins \cup Offices : a.org \in Orgs

-----------------------------------------------------------------------------
Broadcasts == 1..MaxBroadcast
Recipients == Admins \cup Offices
Mails == {a.mail : a \in Recipients}

BroadcastRow == [status: {"none", "queued", "sent", "partial", "failed", "dry_run"},
                 total: Nat, sent: Nat, failed: Nat, skipped: Nat]
NoBroadcast == [status |-> "none", total |-> 0, sent |-> 0, failed |-> 0, skipped |-> 0]

Delivery == [broadcast: Broadcasts, to: Recipients, status: {"sent", "failed", "skipped"}]

Sender == [at: {"idle", "record", "resolve", "send", "insert", "finish"},
           broadcast: Broadcasts, orgs: SUBSET Orgs, dry: BOOLEAN,
           todo: SUBSET Recipients, rows: SUBSET Delivery, rest: SUBSET Delivery]
NoSender == [at |-> "idle", broadcast |-> 1, orgs |-> {}, dry |-> FALSE,
             todo |-> {}, rows |-> {}, rest |-> {}]

SenderTurns(r, new) == sender' = [sender EXCEPT ![r] = new] /\ UNCHANGED left

-----------------------------------------------------------------------------
\* A broadcast that no request has taken up.
Unsent(b) ==
    broadcast[b].status = "none" /\ \A q \in Clerks : sender[q].at # "idle" => sender[q].broadcast # b

\* compose and notifyOrganization read the organizations ...
AskBroadcast(r, b, orgs, dry) ==
    /\ sender[r].at = "idle"
    /\ Unsent(b) /\ \A a \in Broadcasts : a < b => ~Unsent(a)
    /\ \/ orgs \in {Orgs, segment}
       \/ \E o \in Orgs : orgs = {o}
    /\ Comes("broadcasts")
    /\ sender' = [sender EXCEPT ![r] = [NoSender EXCEPT !.at = "record", !.broadcast = b, !.orgs = orgs, !.dry = dry]]
    /\ audience' = [audience EXCEPT ![b] = orgs]
    /\ UNCHANGED <<segment, active, broadcast, delivery, mailed, halted>>

\* ... record the broadcast ...
RecordBroadcast(r) ==
    LET s == sender[r]
    IN  /\ s.at = "record"
        /\ broadcast' = [broadcast EXCEPT ![s.broadcast].status = "queued"]
        /\ SenderTurns(r, [s EXCEPT !.at = "resolve"])
        /\ UNCHANGED <<segment, active, delivery, mailed, audience, halted>>

\* ... and find who is to get it: an organization's active administrators, or its own address.
Reached(orgs) ==
    LET admins == {a \in active : a.org \in orgs}
    IN  admins \cup {a \in Offices : a.org \in orgs /\ \A d \in admins : d.org # a.org}

SameBox(a, d) == a.org = d.org /\ a.mail = d.mail

\* Mutant: everyone, whatever the address.
Everyone(chosen, all) == chosen = all

\* One of those with the same address in the same organization.
OncePerAddress(chosen, all) ==
    /\ \A a \in all : \E d \in chosen : SameBox(a, d)
    /\ \A a, d \in chosen : SameBox(a, d) => a = d

ResolveRecipients(r) ==
    LET s == sender[r]
        all == Reached(s.orgs)
    IN  /\ s.at = "resolve"
        /\ \E chosen \in SUBSET all :
              /\ OncePerAddress(chosen, all)
              /\ SenderTurns(r, [s EXCEPT !.at = "send", !.todo = chosen])
        /\ UNCHANGED <<segment, active, broadcast, delivery, mailed, audience, halted>>

\* One after the other; a send that fails is a row too.  One that is reported as
\* failed may have gone out all the same.
Send(r, a, status) ==
    LET s == sender[r]
        b == s.broadcast
        row == [broadcast |-> b, to |-> a, status |-> status]
        out == CASE status = "sent" -> {1} [] status = "failed" -> {0, 1} [] OTHER -> {0}
    IN  /\ s.at = "send" /\ a \in s.todo
        /\ s.dry <=> status = "skipped"
        /\ \E n \in out : mailed' = [mailed EXCEPT ![<<b, a.org, a.mail>>] = @ + n]
        /\ SenderTurns(r, [s EXCEPT !.todo = @ \ {a}, !.rows = @ \cup {row}])
        /\ UNCHANGED <<segment, active, broadcast, delivery, audience, halted>>

SendsAreOver(r) ==
    /\ sender[r].at = "send" /\ sender[r].todo = {}
    /\ SenderTurns(r, [sender[r] EXCEPT !.at = "insert", !.rest = sender[r].rows])
    /\ UNCHANGED <<segment, active, broadcast, delivery, mailed, audience, halted>>

\* The rows, a chunk at a time.
InsertChunk(r) ==
    LET s == sender[r]
    IN  /\ s.at = "insert" /\ s.rest # {}
        /\ \E rows \in SUBSET s.rest :
              /\ Cardinality(rows) = IF Cardinality(s.rest) < Chunk THEN Cardinality(s.rest) ELSE Chunk
              /\ delivery' = delivery \cup rows
              /\ SenderTurns(r, [s EXCEPT !.rest = @ \ rows])
        /\ UNCHANGED <<segment, active, broadcast, mailed, audience, halted>>

RowsAreIn(r) ==
    /\ sender[r].at = "insert" /\ sender[r].rest = {}
    /\ SenderTurns(r, [sender[r] EXCEPT !.at = "finish"])
    /\ UNCHANGED <<segment, active, broadcast, delivery, mailed, audience, halted>>

Counted(rows, status) == Cardinality({d \in rows : d.status = status})

\* A broadcast that reached no one has failed.
Outcome(s) ==
    CASE s.dry -> "dry_run"
      [] ~s.dry /\ s.rows = {} -> "failed"
      [] ~s.dry /\ s.rows # {} /\ Counted(s.rows, "failed") = 0 -> "sent"
      [] ~s.dry /\ s.rows # {} /\ Counted(s.rows, "sent") = 0 -> "failed"
      [] OTHER -> "partial"

FinishBroadcast(r) ==
    LET s == sender[r]
        n(status) == Counted(s.rows, status)
    IN  /\ s.at = "finish"
        /\ broadcast' = [broadcast EXCEPT ![s.broadcast] =
              [status |-> Outcome(s), total |-> Cardinality(s.rows),
               sent |-> n("sent"), failed |-> n("failed"), skipped |-> n("skipped")]]
        /\ SenderTurns(r, NoSender)
        /\ UNCHANGED <<segment, active, delivery, mailed, audience, halted>>

\* The database throws: no one catches it, and the broadcast stays as it is.
BroadcastThrows(r) ==
    /\ sender[r].at \in {"resolve", "insert", "finish"} /\ Comes("chance")
    /\ sender' = [sender EXCEPT ![r] = NoSender]
    /\ halted' = halted \cup {sender[r].broadcast}
    /\ UNCHANGED <<segment, active, broadcast, delivery, mailed, audience>>

-----------------------------------------------------------------------------
\* Meanwhile plans and statuses change, and users are deactivated and reactivated.
OrganizationMoves(o) ==
    /\ Comes("broadcasts")
    /\ segment' = IF o \in segment THEN segment \ {o} ELSE segment \cup {o}
    /\ UNCHANGED <<active, broadcast, delivery, sender, mailed, audience, halted>>

AdminMoves(a) ==
    /\ Comes("broadcasts")
    /\ active' = IF a \in active THEN active \ {a} ELSE active \cup {a}
    /\ UNCHANGED <<segment, broadcast, delivery, sender, mailed, audience, halted>>

\* The process dies, with its requests.
SendersDie ==
    /\ halted' = halted \cup {sender[r].broadcast : r \in {q \in Clerks : sender[q].at \notin {"idle", "record"}}}
    /\ sender' = [r \in Clerks |-> NoSender]
    /\ UNCHANGED <<segment, active, broadcast, delivery, mailed, audience>>

BroadcastsInit ==
    /\ segment \in SUBSET Orgs
    /\ active = Admins
    /\ broadcast = [b \in Broadcasts |-> NoBroadcast]
    /\ delivery = {}
    /\ sender = [r \in Clerks |-> NoSender]
    /\ mailed = [k \in Broadcasts \X Orgs \X Mails |-> 0]
    /\ audience = [b \in Broadcasts |-> {}]
    /\ halted = {}

BroadcastStep(r) ==
    \/ May("broadcasts") /\ \E b \in Broadcasts, orgs \in SUBSET Orgs, dry \in BOOLEAN : AskBroadcast(r, b, orgs, dry)
    \/ RecordBroadcast(r) \/ ResolveRecipients(r)
    \/ \E a \in Recipients, status \in {"sent", "failed", "skipped"} : Send(r, a, status)
    \/ SendsAreOver(r) \/ InsertChunk(r) \/ RowsAreIn(r)
    \/ FinishBroadcast(r) \/ BroadcastThrows(r)

BroadcastsNext ==
    \/ \E r \in Clerks : BroadcastStep(r)
    \/ \E o \in Orgs : OrganizationMoves(o)
    \/ \E a \in Admins : AdminMoves(a)

-----------------------------------------------------------------------------
BroadcastsTypeOK ==
    /\ segment \subseteq Orgs /\ active \subseteq Admins
    /\ broadcast \in [Broadcasts -> BroadcastRow]
    /\ delivery \subseteq Delivery
    /\ sender \in [Clerks -> Sender]
    /\ mailed \in [Broadcasts \X Orgs \X Mails -> Nat]
    /\ audience \in [Broadcasts -> SUBSET Orgs]
    /\ halted \subseteq Broadcasts

RowsOf(b) == {d \in delivery : d.broadcast = b}
RowsTo(b, o, m) == {d \in RowsOf(b) : d.to.org = o /\ d.to.mail = m}

\* A broadcast that is over has a row for each mail that went out, its numbers are
\* those of its rows, and a dry run sent nothing.
RowsTellWhatWentOut ==
    \A b \in Broadcasts : broadcast[b].status \notin {"none", "queued"} =>
        /\ broadcast[b].total = Cardinality(RowsOf(b))
        /\ broadcast[b].sent = Counted(RowsOf(b), "sent")
        /\ broadcast[b].failed = Counted(RowsOf(b), "failed")
        /\ \A o \in Orgs, m \in Mails :
              LET rows == RowsTo(b, o, m)
              IN  /\ mailed[b, o, m] > 0 => Counted(rows, "sent") + Counted(rows, "failed") = 1
                  /\ Counted(rows, "sent") = 1 => mailed[b, o, m] = 1

\* A broadcast is queued as long as a request is at it, or for good if that was cut off.
QueuedIsUnderWay ==
    \A b \in Broadcasts : broadcast[b].status = "queued" =>
        b \in halted \/ \E r \in Clerks : sender[r].broadcast = b /\ sender[r].at \notin {"idle", "record"}

\* No broadcast reaches an address of an organization twice, or an organization that
\* was not asked for.
ReachedOnce ==
    \A b \in Broadcasts, o \in Orgs, m \in Mails :
        mailed[b, o, m] <= IF o \in audience[b] THEN 1 ELSE 0

BroadcastsHold == RowsTellWhatWentOut /\ QueuedIsUnderWay /\ ReachedOnce

\* A broadcast is a task whose work is its rows, and whose result is the total it was saved with.
MailStage(b) ==
    CASE broadcast[b].status = "none"                       -> "new"
      [] broadcast[b].status = "queued" /\ b \notin halted -> "open"
      [] broadcast[b].status = "queued" /\ b \in halted    -> "lost"
      [] OTHER                                              -> "over"

MailTask == INSTANCE Tasks WITH
    Tasks  <- Broadcasts,
    stage  <- [b \in Broadcasts |-> MailStage(b)],
    work   <- [b \in Broadcasts |-> RowsOf(b)],
    result <- [b \in Broadcasts |-> broadcast[b].total]
=============================================================================
