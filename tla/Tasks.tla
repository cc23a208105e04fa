------------------------------- MODULE Tasks -------------------------------
(***************************************************************************)
(* What the back office promises about whatever takes several steps, as if *)
(* tasks were independent of each other and of the requests that do them:  *)
(* a task does its work only while it is open; it is over at most once,    *)
(* with a result that counts all of its work; and neither changes ever     *)
(* again.  One that is given up is not taken up again.                     *)
(***************************************************************************)
EXTENDS Naturals, FiniteSets

CONSTANTS Tasks

VARIABLES
    stage,    \* "new", "open", "over" or "lost"
    work,     \* what has been done
    result    \* what is told of it in the end

taskVars == <<stage, work, result>>

TInit ==
    /\ stage = [t \in Tasks |-> "new"]
    /\ work = [t \in Tasks |-> {}]
    /\ result = [t \in Tasks |-> 0]

Turns(t, from, to) == stage[t] \in from /\ stage'[t] = to
Works(t) == work[t] \subseteq work'[t]
Untold(t) == result'[t] = result[t]

Open(t) == Turns(t, {"new"}, "open") /\ Untold(t) /\ work'[t] = work[t]
Do(t) == Turns(t, {"open"}, "open") /\ Untold(t) /\ Works(t)

\* The last of the work may come with the end of the task.
Finish(t) == Turns(t, {"open"}, "over") /\ Works(t) /\ result'[t] = Cardinality(work'[t])

\* What a lost task has done is not told, but is not touched again either.
Lose(t) == Turns(t, {"new", "open"}, "lost") /\ Untold(t)

Rest(t) == stage'[t] = stage[t] /\ Untold(t) /\ work'[t] = work[t]

TNext == \A t \in Tasks : Rest(t) \/ Open(t) \/ Do(t) \/ Finish(t) \/ Lose(t)

TSpec == TInit /\ [][TNext]_taskVars
=============================================================================
