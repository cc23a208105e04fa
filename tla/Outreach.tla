------------------------------ MODULE Outreach ------------------------------
(***************************************************************************)
(* The groups, contacts, reminders and jobs of one organization, served by *)
(* one process that may die at any time: all it was doing is lost, and     *)
(* only the tables stay.                                                   *)
(***************************************************************************)
EXTENDS Reminders, Collections

vars == <<day, left, dirVars, remVars, colVars>>

Init == ClockInit /\ DirInit /\ RemInit /\ ColInit

\* The process dies, with everything it had in flight, and is started again.
Crash ==
    /\ Comes("crashes")
    /\ RequestsDie /\ PassesDie /\ WorkersDie
    /\ UNCHANGED day

Next ==
    \/ DirNext /\ GoesWithContact /\ UNCHANGED colVars
    \/ RemNext /\ UNCHANGED <<dirVars, colVars>>
    \/ ColNext /\ UNCHANGED <<dirVars, remVars>>
    \/ NextDay /\ UNCHANGED <<dirVars, remVars, colVars>>
    \/ Crash

Spec == Init /\ [][Next]_vars

\* A pass that has begun is continued as long as the process lives.
FairSpec == Spec /\ \A r \in Runners : WF_vars(PassStep(r) /\ UNCHANGED <<dirVars, colVars>>)

TypeOK == ClockTypeOK /\ DirTypeOK /\ RemTypeOK /\ ColTypeOK
=============================================================================
