-------------------------------- MODULE Trail --------------------------------
(***************************************************************************)
(* The trail of what was asked of the system, and the retention of data.   *)
(*                                                                         *)
(* An interceptor logs every answer to an organization's staff that is no  *)
(* error, and one logs every answer to an operator of the platform.  Both  *)
(* log when the answer is out already, and no one waits for them.  The     *)
(* first must know whether the table of logs has a certain column: the     *)
(* process asks the database once, and those that log meanwhile wait for   *)
(* the same answer.                                                        *)
(*                                                                         *)
(* Compliance requests log themselves too, before they answer.  A purge    *)
(* removes what is older than the organization's limits: contacts,         *)
(* submissions, and the logs.                                              *)
(***************************************************************************)
EXTENDS Desk, FiniteSets

CONSTANTS
    MaxCall,     \* bound: the requests there will ever be
    Persons,     \* contacts
    Papers,      \* submissions
    Limits,      \* bound: the days that something may be kept
    MaxDay       \* bound: the last day

VARIABLES
    memo,        \* activityLogContactColumnPromise
    call,        \* per request: what it is, where it is, and what it has read
    log,         \* activity_logs and platform_audit_logs
    limit,       \* the organization's limits, by what is kept
    kept,        \* the contacts that are not anonymized, and the submissions
    since,       \* the day each of these was created
    day,         \* today
    missed,      \* history: requests whose log was not written
    purged,      \* history: logs that a purge removed
    rewritten,   \* history: purges that began before the limits were last saved
    early        \* history: what a purge removed that the limits would still keep

trailVars == <<memo, call, log, limit, kept, since, day, missed, purged, rewritten, early>>

ASSUME TrailAssumption ==
    /\ MaxDay \in Nat /\ MaxCall \in Nat
    /\ Limits \subseteq Nat \ {0} /\ Limits # {}
    /\ Persons \cap Papers = {}

-----------------------------------------------------------------------------
Calls == 1..MaxCall
Kept == {"contact", "submission", "log"}
Policy == [Kept -> Limits]

\* A platform request that changes something is logged, or one that says so.
Ops == {"act", "list", "platform", "silent", "compliance", "purge", "policy"}
Tenant(op) == op \notin {"platform", "silent"}

Log == [call: Calls, by: {"service", "interceptor"}, day: 0..MaxDay]

Call == [op: Ops, at: {"idle", "handle", "column", "contacts", "submissions", "logs", "save", "log", "done"},
         ok: BOOLEAN, write: {"none", "column", "insert", "over"},
         old: [Kept -> SUBSET (0..MaxDay)], policy: Policy]
NoCall == [op |-> "act", at |-> "idle", ok |-> FALSE, write |-> "none",
           old |-> [k \in Kept |-> {}], policy |-> CHOOSE p \in Policy : TRUE]

\* Mutant: errors as well.
LoggedAlways(op, ok) == op # "silent"

\* AuditInterceptor: of what was answered without an error.
\* PlatformAuditInterceptor: also of errors, but not of plain reads.
Logged(op, ok) == (Tenant(op) /\ ok) \/ op = "platform"

\* The first that needs the column asks for it.
AsksColumn == memo' = IF memo = "none" THEN "asked" ELSE memo

\* The handler answers; the log is on its way.
Answers(c, ok) ==
    LET op == call[c].op
        write == IF ~Logged(op, ok) THEN "over" ELSE IF Tenant(op) THEN "column" ELSE "insert"
    IN  /\ call' = [call EXCEPT ![c].at = "done", ![c].ok = ok, ![c].write = write]
        /\ IF write = "column" THEN AsksColumn ELSE UNCHANGED memo

Goes(c, at) == call' = [call EXCEPT ![c].at = at] /\ UNCHANGED memo

dataVars == <<limit, kept, since, day, rewritten, early>>

-----------------------------------------------------------------------------
(* Requests. *)

IsNext(c) == call[c].at = "idle" /\ \A d \in Calls : d < c => call[d].at # "idle"

Ask(c, op, at) ==
    /\ IsNext(c) /\ Comes("trail")
    /\ call' = [call EXCEPT ![c].op = op, ![c].at = at]

AskAct(c, op) ==
    /\ op \in {"act", "platform", "silent"}
    /\ Ask(c, op, "handle")
    /\ UNCHANGED <<memo, log, missed, purged, dataVars>>

Handle(c, ok) ==
    /\ call[c].at = "handle"
    /\ Answers(c, ok)
    /\ UNCHANGED <<left, log, missed, purged, dataVars>>

\* listActivityLogs needs the column itself.
AskList(c) ==
    /\ Ask(c, "list", "column")
    /\ AsksColumn
    /\ UNCHANGED <<log, missed, purged, dataVars>>

List(c) ==
    /\ call[c].at = "column" /\ memo = "known"
    /\ Answers(c, TRUE)
    /\ UNCHANGED <<left, log, missed, purged, dataVars>>

-----------------------------------------------------------------------------
(* Logs. *)

ColumnIsKnown ==
    /\ memo = "asked"
    /\ memo' = "known"
    /\ UNCHANGED <<left, call, log, missed, purged, dataVars>>

\* Everyone who waits gets the error, and the next one asks again.
ColumnFails ==
    /\ memo = "asked" /\ Comes("chance")
    /\ memo' = "none"
    /\ call' = [c \in Calls |->
          IF call[c].write = "column" THEN [call[c] EXCEPT !.write = "over"]
          ELSE IF call[c].at = "column" THEN [call[c] EXCEPT !.at = "done", !.write = "over"]
          ELSE call[c]]
    /\ missed' = missed \cup {c \in Calls : call[c].write = "column"}
    /\ UNCHANGED <<log, purged, dataVars>>

HasColumn(c) ==
    /\ call[c].write = "column" /\ memo = "known"
    /\ call' = [call EXCEPT ![c].write = "insert"]
    /\ UNCHANGED <<left, memo, log, missed, purged, dataVars>>

InsertLog(c) ==
    /\ call[c].write = "insert"
    /\ call' = [call EXCEPT ![c].write = "over"]
    /\ log' = log \cup {[call |-> c, by |-> "interceptor", day |-> day]}
    /\ UNCHANGED <<left, memo, missed, purged, dataVars>>

\* What the insertion throws is caught: there is no log.
InsertFails(c) ==
    /\ call[c].write = "insert" /\ Comes("chance")
    /\ call' = [call EXCEPT ![c].write = "over"]
    /\ missed' = missed \cup {c}
    /\ UNCHANGED <<memo, log, purged, dataVars>>

-----------------------------------------------------------------------------
(* Compliance. *)

\* requestDataExport, requestDataDeletion, exportContactData: read, then log.
AskCompliance(c) ==
    /\ Ask(c, "compliance", "log")
    /\ UNCHANGED <<memo, log, missed, purged, dataVars>>

\* updateDataRetentionPolicy changes some of the limits in the copy it read.
AskPolicy(c, policy) ==
    /\ IsNext(c) /\ Comes("trail")
    /\ call' = [call EXCEPT ![c].op = "policy", ![c].at = "save", ![c].policy = policy]
    /\ UNCHANGED <<memo, log, missed, purged, dataVars>>

\* The cutoff is fixed when the limits are read.
Old(k) == {d \in 0..MaxDay : d < day - limit[k]}

\* applyDataRetentionPolicies reads the limits ...
AskPurge(c) ==
    /\ IsNext(c) /\ Comes("trail")
    /\ call' = [call EXCEPT ![c].op = "purge", ![c].at = "contacts",
                  ![c].old = [k \in Kept |-> Old(k)], ![c].policy = limit]
    /\ UNCHANGED <<memo, log, missed, purged, dataVars>>

\* What is gone although the limits there are now would keep it.
Early(c, k, gone, born) ==
    early' = early \cup {x \in gone : c \notin rewritten /\ day - born[x] <= limit[k]}

Born == since
LogBorn == [x \in log |-> x.day]

\* ... anonymizes contacts ...
PurgeContacts(c) ==
    LET gone == {x \in kept \cap Persons : since[x] \in call[c].old["contact"]}
    IN  /\ call[c].at = "contacts"
        /\ kept' = kept \ gone
        /\ Early(c, "contact", gone, Born)
        /\ Goes(c, "submissions")
        /\ UNCHANGED <<left, log, limit, since, day, missed, purged, rewritten>>

\* ... deletes submissions ...
PurgeSubmissions(c) ==
    LET gone == {x \in kept \cap Papers : since[x] \in call[c].old["submission"]}
    IN  /\ call[c].at = "submissions"
        /\ kept' = kept \ gone
        /\ Early(c, "submission", gone, Born)
        /\ Goes(c, "logs")
        /\ UNCHANGED <<left, log, limit, since, day, missed, purged, rewritten>>

\* ... and logs, but not those of the platform ...
PurgeLogs(c) ==
    LET gone == {x \in log : Tenant(call[x.call].op) /\ x.day \in call[c].old["log"]}
    IN  /\ call[c].at = "logs"
        /\ log' = log \ gone
        /\ purged' = purged \cup gone
        /\ Early(c, "log", gone, LogBorn)
        /\ Goes(c, "save")
        /\ UNCHANGED <<left, limit, kept, since, day, missed, rewritten>>

\* ... and saves the organization, with the limits it read.
SaveLimits(c) ==
    /\ call[c].at = "save"
    /\ limit' = call[c].policy
    /\ rewritten' = rewritten \cup {p \in Calls : call[p].at \in {"contacts", "submissions", "logs"}}
    /\ Goes(c, "log")
    /\ UNCHANGED <<left, log, kept, since, day, missed, purged, early>>

\* The request is logged, and then answered.
LogAction(c) ==
    /\ call[c].at = "log"
    /\ log' = log \cup {[call |-> c, by |-> "service", day |-> day]}
    /\ Answers(c, TRUE)
    /\ UNCHANGED <<left, missed, purged, dataVars>>

\* What throws midway is answered as an error.
CallThrows(c) ==
    /\ call[c].at \in {"contacts", "submissions", "logs", "save", "log"} /\ Comes("chance")
    /\ Answers(c, FALSE)
    /\ UNCHANGED <<log, missed, purged, dataVars>>

-----------------------------------------------------------------------------
DayPasses ==
    /\ day < MaxDay /\ Comes("trail")
    /\ day' = day + 1
    /\ UNCHANGED <<memo, call, log, limit, kept, since, missed, purged, rewritten, early>>

\* The process dies, with its requests and the logs on their way.
CallsDie ==
    /\ memo' = "none"
    /\ call' = [c \in Calls |-> IF call[c].at = "idle" THEN NoCall
                                ELSE [call[c] EXCEPT !.at = "done", !.write = "over"]]
    /\ missed' = missed \cup {c \in Calls : call[c].write \in {"column", "insert"}}
    /\ UNCHANGED <<log, purged, dataVars>>

TrailInit ==
    /\ memo = "none"
    /\ call = [c \in Calls |-> NoCall]
    /\ log = {}
    /\ limit \in Policy
    /\ kept = Persons \cup Papers
    /\ since \in [Persons \cup Papers -> {0}]
    /\ day \in 0..MaxDay
    /\ missed = {} /\ purged = {} /\ rewritten = {} /\ early = {}

AskCall(c) ==
    \/ \E op \in Ops : AskAct(c, op)
    \/ AskList(c) \/ AskCompliance(c) \/ AskPurge(c)
    \/ \E p \in Policy : AskPolicy(c, p)

CallStep(c) ==
    \/ May("trail") /\ AskCall(c)
    \/ \E ok \in BOOLEAN : Handle(c, ok)
    \/ List(c) \/ HasColumn(c) \/ InsertLog(c) \/ InsertFails(c)
    \/ PurgeContacts(c) \/ PurgeSubmissions(c) \/ PurgeLogs(c)
    \/ SaveLimits(c) \/ LogAction(c) \/ CallThrows(c)

TrailNext ==
    \/ \E c \in Calls : CallStep(c)
    \/ ColumnIsKnown \/ ColumnFails \/ DayPasses

-----------------------------------------------------------------------------
TrailTypeOK ==
    /\ memo \in {"none", "asked", "known"}
    /\ call \in [Calls -> Call]
    /\ log \subseteq Log /\ purged \subseteq Log
    /\ limit \in Policy
    /\ kept \subseteq Persons \cup Papers
    /\ since \in [Persons \cup Papers -> 0..MaxDay]
    /\ day \in 0..MaxDay
    /\ missed \subseteq Calls /\ rewritten \subseteq Calls

LoggedBy(c, by) == \E x \in log \cup purged : x.call = c /\ x.by = by

\* A request that was answered without an error has its log, once that is no longer
\* on its way, unless the database or the process failed it; an error has one only if
\* an operator of the platform got it.
AnswersAreLogged ==
    \A c \in Calls : call[c].at = "done" /\ call[c].write = "over" /\ c \notin missed =>
        /\ LoggedBy(c, "interceptor") => call[c].ok \/ call[c].op = "platform"
        /\ call[c].ok /\ call[c].op # "silent" => LoggedBy(c, "interceptor")

\* No log waits for an answer that no one has asked for.
WaitersAreServed ==
    memo = "none" => \A c \in Calls : call[c].write # "column" /\ call[c].at # "column"

\* A compliance request, a purge or a change of the limits that was answered without
\* an error has left its own log, and one that did not get there has not.
ComplianceIsLogged ==
    \A c \in Calls : call[c].op \in {"compliance", "purge", "policy"} /\ call[c].at # "idle" =>
        (LoggedBy(c, "service") <=> call[c].ok)

\* A purge whose limits no one has changed meanwhile removes nothing that they keep.
NothingTooEarly == early = {}

TrailHolds == AnswersAreLogged /\ WaitersAreServed /\ ComplianceIsLogged /\ NothingTooEarly

\* A request is a task whose work is the logs it leaves, and whose result is how many it should:
\* one of its own if it is about compliance, and one of its answer.  It is over when it was
\* answered without an error and its logs are in, and lost with an error or without its logs.
LogsOf(c) == {x \in log \cup purged : x.call = c}
LogsDue(op) ==
    (IF op \in {"compliance", "purge", "policy"} THEN 1 ELSE 0) + (IF op = "silent" THEN 0 ELSE 1)

Ended(c) == call[c].at = "done" /\ call[c].write = "over"
Answered(c) == Ended(c) /\ call[c].ok /\ c \notin missed

CallStage(c) ==
    CASE call[c].at = "idle"           -> "new"
      [] Answered(c)                   -> "over"
      [] Ended(c) /\ ~Answered(c)   -> "lost"
      [] OTHER                         -> "open"

CallTask == INSTANCE Tasks WITH
    Tasks  <- Calls,
    stage  <- [c \in Calls |-> CallStage(c)],
    work   <- [c \in Calls |-> LogsOf(c)],
    result <- [c \in Calls |-> IF Answered(c) THEN LogsDue(call[c].op) ELSE 0]
=============================================================================
