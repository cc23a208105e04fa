---------------------------- MODULE Collections ----------------------------
(***************************************************************************)
(* What an organization runs over all its payments: the detection of       *)
(* abandoned payments, exports for compliance, and dunning campaigns.      *)
(*                                                                         *)
(* Every one is a request that writes several tables one after the other   *)
(* and tells where it is in a status column; none resumes what a crash cut *)
(* off.  Detection inserts all it is missing in one transaction, under a   *)
(* unique index on the payment.                                            *)
(***************************************************************************)
EXTENDS Clock, FiniteSets

CONSTANTS
    MaxPayment,  \* payments are numbered from the oldest on
    Batch,       \* take: how many one detection looks at
    ExportJobs,  \* export jobs
    MaxRun,      \* bound: the dunning runs there will ever be
    Workers      \* requests in flight

VARIABLES
    payment,     \* what detection sees of each payment
    candidate,   \* payment_recovery_candidates, by payment
    detected,    \* the DETECTED events of each payment
    job,         \* status of each export job
    summaries,   \* the jobs that have their summary
    run,         \* status of each dunning run
    executed,    \* the day of the campaign's last_executed_at, or 0: of a daily campaign
    work,        \* per request: the operation, where it is and what it has read
    cut          \* history: payments and runs whose request was cut off, and jobs
                 \* that a request cut off left behind and no other has saved since

colVars == <<payment, candidate, detected, job, summaries, run, executed, work, cut>>

Payments == 1..MaxPayment
Runs     == 1..MaxRun

ASSUME CollectionsAssumption ==
    MaxPayment \in Nat /\ Batch \in Nat /\ MaxRun \in Nat \ {0} /\ ExportJobs # {}

Work == [at: {"idle", "candidates", "insert", "detected", "take", "export", "ready",
              "announce", "failed", "snapshots"},
         payments: SUBSET Payments, job: ExportJobs, run: Runs]

NoWork == [at |-> "idle", payments |-> {}, job |-> CHOOSE j \in ExportJobs : TRUE, run |-> 1]

Asks(w, new) ==
    /\ work[w].at = "idle"
    /\ Comes("jobs")
    /\ work' = [work EXCEPT ![w] = new]
    /\ UNCHANGED day

WorkGoes(w, new) ==
    work' = [work EXCEPT ![w] = new] /\ UNCHANGED <<day, left>>

-----------------------------------------------------------------------------
(* Abandoned payments. *)

\* A payment has been PENDING for a day, and later is no longer PENDING.
PaymentMoves(p) ==
    /\ Comes("jobs")
    /\ \/ payment[p] = "young" /\ payment' = [payment EXCEPT ![p] = "pending"]
       \/ payment[p] = "pending" /\ payment' = [payment EXCEPT ![p] = "settled"]
    /\ UNCHANGED <<day, candidate, detected, job, summaries, run, executed, work, cut>>

\* The oldest of the payments that are pending.
Scanned ==
    LET ps == {p \in Payments : payment[p] = "pending"}
    IN  {p \in ps : Cardinality({q \in ps : q < p}) < Batch}

\* runRecovery reads the oldest pending payments; a dry run writes none of the tables.
AskRecovery(w) ==
    /\ Scanned # {}
    /\ Asks(w, [NoWork EXCEPT !.at = "candidates", !.payments = Scanned])
    /\ UNCHANGED <<payment, candidate, detected, job, summaries, run, executed, cut>>

\* It leaves out those that have a candidate ...
ReadCandidates(w) ==
    LET missing == {p \in work[w].payments : candidate[p] = "none"}
    IN  /\ work[w].at = "candidates"
        /\ WorkGoes(w, IF missing = {} THEN NoWork
                       ELSE [work[w] EXCEPT !.at = "insert", !.payments = missing])
        /\ UNCHANGED <<payment, candidate, detected, job, summaries, run, executed, cut>>

\* ... and inserts one for each, if none of them has got one since ...
InsertCandidates(w) ==
    /\ work[w].at = "insert"
    /\ \A p \in work[w].payments : candidate[p] = "none"
    /\ candidate' = [p \in Payments |-> IF p \in work[w].payments THEN "OPEN" ELSE candidate[p]]
    /\ WorkGoes(w, [work[w] EXCEPT !.at = "detected"])
    /\ UNCHANGED <<payment, detected, job, summaries, run, executed, cut>>

\* Mutant: rows that are there already are skipped, and announced again.
InsertIgnored(w) ==
    /\ work[w].at = "insert"
    /\ \E p \in work[w].payments : candidate[p] # "none"
    /\ WorkGoes(w, [work[w] EXCEPT !.at = "detected"])
    /\ UNCHANGED <<payment, candidate, detected, job, summaries, run, executed, cut>>

InsertRefused(w) ==
    /\ work[w].at = "insert"
    /\ \E p \in work[w].payments : candidate[p] # "none"
    /\ WorkGoes(w, NoWork)
    /\ UNCHANGED <<payment, candidate, detected, job, summaries, run, executed, cut>>

\* A statement outside of any try fails, and the request with it.
RequestFails(w) ==
    /\ work[w].at \in {"candidates", "insert", "take"}
    /\ WorkGoes(w, NoWork)
    /\ UNCHANGED <<payment, candidate, detected, job, summaries, run, executed, cut>>

\* ... and then their events, which may fail.
SaveDetected(w) ==
    /\ work[w].at = "detected"
    /\ detected' = [p \in Payments |-> detected[p] + IF p \in work[w].payments THEN 1 ELSE 0]
    /\ WorkGoes(w, NoWork)
    /\ UNCHANGED <<payment, candidate, job, summaries, run, executed, cut>>

DetectedLost(w) ==
    /\ work[w].at = "detected"
    /\ cut' = [cut EXCEPT !.payments = @ \cup work[w].payments]
    /\ WorkGoes(w, NoWork)
    /\ UNCHANGED <<payment, candidate, detected, job, summaries, run, executed>>

\* notifyRecoveryCandidate, whether or not the payment is still pending.
Notify(p) ==
    /\ candidate[p] # "none" /\ Comes("jobs")
    /\ candidate' = [candidate EXCEPT ![p] = "QUEUED"]
    /\ UNCHANGED <<day, payment, detected, job, summaries, run, executed, work, cut>>

-----------------------------------------------------------------------------
(* Exports. *)

\* createComplianceExportPackJob
CreateJob(j) ==
    /\ job[j] = "none" /\ Comes("jobs")
    /\ job' = [job EXCEPT ![j] = "QUEUED"]
    /\ UNCHANGED <<day, payment, candidate, detected, summaries, run, executed, work, cut>>

\* processComplianceExportPackJob reads the job; one that is READY it only returns.
AskExport(w, j) ==
    /\ job[j] \notin {"none", "READY"}
    /\ Asks(w, [NoWork EXCEPT !.at = "take", !.job = j])
    /\ UNCHANGED <<payment, candidate, detected, job, summaries, run, executed, cut>>

\* The job it read is saved with the status given, whatever its status is now.
SavesJob(w, status, new) ==
    /\ job' = [job EXCEPT ![work[w].job] = status]
    /\ cut' = [cut EXCEPT !.jobs = @ \ {work[w].job}]
    /\ WorkGoes(w, new)
    /\ UNCHANGED <<payment, candidate, detected, summaries, run, executed>>

TakeJob(w) ==
    work[w].at = "take" /\ SavesJob(w, "PROCESSING", [work[w] EXCEPT !.at = "export"])

\* The counts and the artifacts.
SaveSummary(w) ==
    /\ work[w].at = "export"
    /\ summaries' = summaries \cup {work[w].job}
    /\ WorkGoes(w, [work[w] EXCEPT !.at = "ready"])
    /\ UNCHANGED <<payment, candidate, detected, job, run, executed, cut>>

\* What throws after the job was taken marks it FAILED, even if it is READY by then.
ExportThrows(w) ==
    /\ work[w].at \in {"export", "ready", "announce"}
    /\ WorkGoes(w, [work[w] EXCEPT !.at = "failed"])
    /\ UNCHANGED <<payment, candidate, detected, job, summaries, run, executed, cut>>

MarkReady(w) ==
    work[w].at = "ready" /\ SavesJob(w, "READY", [work[w] EXCEPT !.at = "announce"])

Announced(w) ==
    /\ work[w].at = "announce"
    /\ WorkGoes(w, NoWork)
    /\ UNCHANGED <<payment, candidate, detected, job, summaries, run, executed, cut>>

\* Mutant: the catch only throws on.
OnlyThrown(w) ==
    /\ work[w].at = "failed"
    /\ WorkGoes(w, NoWork)
    /\ UNCHANGED <<payment, candidate, detected, job, summaries, run, executed, cut>>

MarkFailed(w) == work[w].at = "failed" /\ SavesJob(w, "FAILED", NoWork)

\* The save in the catch is not guarded: when it throws, the job stays as it is.
MarkFails(w) ==
    /\ work[w].at = "failed"
    /\ cut' = [cut EXCEPT !.jobs = @ \cup {work[w].job}]
    /\ WorkGoes(w, NoWork)
    /\ UNCHANGED <<payment, candidate, detected, job, summaries, run, executed>>

-----------------------------------------------------------------------------
(* Dunning: one campaign. *)

\* runDunningCampaign inserts the run; a dry run ends here.
RunCampaign(w, dry) ==
    \E n \in Runs :
        /\ run[n] = "none" /\ \A m \in Runs : m < n => run[m] # "none"
        /\ run' = [run EXCEPT ![n] = IF dry THEN "DRY" ELSE "SCHEDULED"]
        /\ Asks(w, IF dry THEN NoWork ELSE [NoWork EXCEPT !.at = "snapshots", !.run = n])
        /\ UNCHANGED <<payment, candidate, detected, job, summaries, executed, cut>>

\* executeCampaignsByFrequency skips a campaign that was executed within its period.
Scheduled(w) == ~(executed # 0 /\ day = executed) /\ RunCampaign(w, FALSE)

\* computeArrearsSnapshots joins payments with a contact, and reads a due date, that
\* payments do not have: the query is refused, and the run is left as it is.
ComputeSnapshots(w) ==
    /\ work[w].at = "snapshots"
    /\ WorkGoes(w, NoWork)
    /\ UNCHANGED <<payment, candidate, detected, job, summaries, run, executed, cut>>

-----------------------------------------------------------------------------
\* The process dies, with its requests.
WorkersDie ==
    LET lost(at) == {w \in Workers : work[w].at \in at}
    IN  /\ cut' = [payments |-> cut.payments \cup UNION {work[w].payments : w \in lost({"detected"})},
                   jobs |-> cut.jobs \cup {work[w].job : w \in lost({"export", "ready", "failed"})},
                   runs |-> cut.runs \cup {work[w].run : w \in lost({"snapshots"})}]
        /\ work' = [w \in Workers |-> NoWork]
        /\ UNCHANGED <<payment, candidate, detected, job, summaries, run, executed>>

ColInit ==
    /\ payment = [p \in Payments |-> IF p < MaxPayment THEN "pending" ELSE "young"]
    /\ candidate = [p \in Payments |-> "none"]
    /\ detected = [p \in Payments |-> 0]
    /\ job = [j \in ExportJobs |-> "none"]
    /\ summaries = {}
    /\ run = [n \in Runs |-> "none"]
    /\ executed = 0
    /\ work = [w \in Workers |-> NoWork]
    /\ cut = [payments |-> {}, jobs |-> {}, runs |-> {}]

WorkStep(w) ==
    \/ ReadCandidates(w) \/ InsertCandidates(w) \/ InsertRefused(w) \/ RequestFails(w)
    \/ SaveDetected(w) \/ DetectedLost(w)
    \/ TakeJob(w) \/ SaveSummary(w) \/ MarkReady(w) \/ Announced(w)
    \/ ExportThrows(w) \/ MarkFailed(w) \/ MarkFails(w)
    \/ ComputeSnapshots(w)

ColNext ==
    \/ \E p \in Payments : PaymentMoves(p) \/ Notify(p)
    \/ \E j \in ExportJobs : CreateJob(j)
    \/ \E w \in Workers :
          \/ AskRecovery(w) \/ Scheduled(w) \/ WorkStep(w)
          \/ \E j \in ExportJobs : AskExport(w, j)
          \/ \E dry \in BOOLEAN : RunCampaign(w, dry)

-----------------------------------------------------------------------------
ColTypeOK ==
    /\ payment \in [Payments -> {"young", "pending", "settled"}]
    /\ candidate \in [Payments -> {"none", "OPEN", "QUEUED"}]
    /\ detected \in [Payments -> Nat]
    /\ job \in [ExportJobs -> {"none", "QUEUED", "PROCESSING", "READY", "FAILED"}]
    /\ summaries \subseteq ExportJobs
    /\ run \in [Runs -> {"none", "DRY", "SCHEDULED"}]
    /\ executed \in 0..MaxDay
    /\ work \in [Workers -> Work]
    /\ cut \in [payments: SUBSET Payments, jobs: SUBSET ExportJobs, runs: SUBSET Runs]

Working(at) == {w \in Workers : work[w].at \in at}

\* A payment is announced as detected exactly once, by the detection that inserted
\* its candidate, unless that one was cut off before.
DetectedOnce ==
    \A p \in Payments :
        \/ candidate[p] # "none" /\ detected[p] = 1
        \/ candidate[p] = "none" /\ detected[p] = 0
        \/ /\ detected[p] = 0
           /\ p \in cut.payments \/ \E w \in Working({"detected"}) : p \in work[w].payments

\* A job that is PROCESSING is in the hands of a request that will save it as READY
\* or FAILED, or was left behind: by a process that died, or by a request whose very
\* save as FAILED threw (nothing resumes either), and no request has saved it since.
\* One that is READY has its summary, whichever of the overlapping requests saved it.
ExportsSettle ==
    \A j \in ExportJobs :
        /\ job[j] = "PROCESSING" =>
              j \in cut.jobs \/ \E w \in Working({"export", "ready", "failed"}) : work[w].job = j
        /\ job[j] = "READY" => j \in summaries

\* The rows of the jobs tell what was done, however requests overlap.
JobRowsHold == DetectedOnce /\ ExportsSettle
=============================================================================
