----------------------------- MODULE Backoffice -----------------------------
(***************************************************************************)
(* What an organization's staff and the platform's operators do beside     *)
(* forms and payments, in one process: contact import templates and        *)
(* imports, installment plans and reconciliations, broadcasts, the audit   *)
(* trail and the retention of data, reminders and notices, reports, the    *)
(* invitation of staff, the QR codes of contacts.  A browser tab talks to  *)
(* it.                                                                     *)
(***************************************************************************)
EXTENDS Imports, Market, Broadcasts, Trail, Notices, Reports, Enrolment, Scans, Browser

vars == <<left, importVars, marketVars, broadcastVars, trailVars, noticeVars, reportVars, enrolmentVars, scanVars,
          browserVars>>

\* The process dies, and every request in it; so it does after a query of the audit's
\* column that fails, since no one handles the rejection.  The tab sees that no
\* answer comes.
Crash ==
    /\ Comes("chance")
    /\ ClerksDie /\ AgentsDie /\ SendersDie /\ CallsDie /\ WritersDie /\ ReadersDie /\ GuestsDie /\ ViewsDie
    /\ UNCHANGED browserVars

Init ==
    /\ DeskInit
    /\ ImportsInit /\ MarketInit /\ BroadcastsInit /\ TrailInit /\ NoticesInit /\ ReportsInit
    /\ EnrolmentInit /\ ScansInit /\ BrowserInit

Next ==
    \/ ImportsNext /\ UNCHANGED <<marketVars, broadcastVars, trailVars, noticeVars, reportVars, enrolmentVars, scanVars, browserVars>>
    \/ MarketNext /\ UNCHANGED <<importVars, broadcastVars, trailVars, noticeVars, reportVars, enrolmentVars, scanVars, browserVars>>
    \/ BroadcastsNext /\ UNCHANGED <<importVars, marketVars, trailVars, noticeVars, reportVars, enrolmentVars, scanVars, browserVars>>
    \/ TrailNext /\ UNCHANGED <<importVars, marketVars, broadcastVars, noticeVars, reportVars, enrolmentVars, scanVars, browserVars>>
    \/ NoticesNext /\ UNCHANGED <<importVars, marketVars, broadcastVars, trailVars, reportVars, enrolmentVars, scanVars, browserVars>>
    \/ ReportsNext /\ UNCHANGED <<importVars, marketVars, broadcastVars, trailVars, noticeVars, enrolmentVars, scanVars, browserVars>>
    \/ EnrolmentNext /\ UNCHANGED <<importVars, marketVars, broadcastVars, trailVars, noticeVars, reportVars, scanVars, browserVars>>
    \/ ScansNext /\ UNCHANGED <<importVars, marketVars, broadcastVars, trailVars, noticeVars, reportVars, enrolmentVars, browserVars>>
    \/ BrowserNext /\ UNCHANGED <<importVars, marketVars, broadcastVars, trailVars, noticeVars, reportVars, enrolmentVars, scanVars>>
    \/ Crash

Spec == Init /\ [][Next]_vars

-----------------------------------------------------------------------------
TypeOK ==
    /\ DeskTypeOK
    /\ ImportsTypeOK /\ MarketTypeOK /\ BroadcastsTypeOK /\ TrailTypeOK
    /\ NoticesTypeOK /\ ReportsTypeOK /\ EnrolmentTypeOK /\ ScansTypeOK /\ BrowserTypeOK

\* Those who ask what was paid and owed are told what was the case.
ReadersAreTold == ReportsHold /\ ScansHold

\* Broadcasts, reconciliation runs, requests with their logs, and import jobs are over at
\* most once and with all of their work, and are never touched again, nor when they are lost.
TasksEndOnce == MailTask!TSpec /\ AuditTask!TSpec /\ CallTask!TSpec /\ JobTask!TSpec
=============================================================================
