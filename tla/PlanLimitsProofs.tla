-------------------------- MODULE PlanLimitsProofs --------------------------
(* Proofs about PlanLimits, for every value of its constants. *)
EXTENDS PlanLimits, FiniteSetTheorems, TLAPS

-----------------------------------------------------------------------------
(* Types. *)

\* The values in flight have their types, and so has what is made of them.
LEMMA Shapes ==
  /\ NoOp \in Op /\ NoColumns \in Columns
  /\ \A o \in Op, n \in Nat :
       /\ [o EXCEPT !.limit = n] \in Op /\ [o EXCEPT !.sent = n] \in Op
       /\ [o EXCEPT !.gone = n] \in Op
  /\ \A r \in Resources, n \in Nat :
       /\ [NoOp EXCEPT !.res = r] \in Op
       /\ [NoOp EXCEPT !.res = r, !.amount = n] \in Op
       /\ [NoOp EXCEPT !.res = r, !.amount = n, !.exempt = TRUE] \in Op
  <1>1. PICK r0 \in Resources : TRUE
    BY LimitsAssumption
  <1>2. NoOp \in Op
    BY <1>1 DEF NoOp, Op
  <1>3. NoColumns \in Columns
    BY DEF NoColumns, Columns
  <1>4. \A o \in Op, n \in Nat :
       /\ [o EXCEPT !.limit = n] \in Op /\ [o EXCEPT !.sent = n] \in Op
       /\ [o EXCEPT !.gone = n] \in Op
    BY DEF Op
  <1>5. \A r \in Resources, n \in Nat :
       /\ [NoOp EXCEPT !.res = r] \in Op
       /\ [NoOp EXCEPT !.res = r, !.amount = n] \in Op
       /\ [NoOp EXCEPT !.res = r, !.amount = n, !.exempt = TRUE] \in Op
    BY <1>2 DEF Op, NoOp
  <1> QED
    BY <1>2, <1>3, <1>4, <1>5

\* A larger history is still one of natural numbers.
LEMMA HigherType ==
  ASSUME NEW a \in Nat, NEW b \in Nat
  PROVE  Higher(a, b) \in Nat /\ Higher(a, b) >= a /\ Higher(a, b) >= b
  BY DEF Higher

\* The types hold initially.
LEMMA TypeInit == Init => TypeOK
  <1> SUFFICES ASSUME Init
               PROVE  TypeOK
    OBVIOUS
  <1>1. tier \in Tiers /\ override \in [id: Nat, columns: Columns]
    BY LimitsAssumption, Shapes DEF Init
  <1>2. used \in [Resources -> Nat] /\ ledger \in [Resources -> Nat]
        /\ revived \in [Resources -> Nat]
    BY DEF Init
  <1>3. peak \in [Resources -> Nat]
    BY LimitsAssumption DEF Init
  <1>4. pc \in [Handlers -> PcValues] /\ ask \in [Operators -> AskValues]
    BY DEF Init, PcValues, AskValues
  <1>5. op \in [Handlers -> Op]
    BY Shapes DEF Init
  <1>6. NoEdit \in Edit
    BY LimitsAssumption, Shapes DEF NoEdit, Edit
  <1>7. edit \in [Operators -> Edit]
    BY <1>6 DEF Init
  <1> QED
    BY <1>1, <1>2, <1>3, <1>4, <1>5, <1>7 DEF Init, TypeOK

\* A request that comes in keeps them,
LEMMA ArriveType ==
  ASSUME TypeOK, NEW h \in Handlers, Arrive(h)
  PROVE  TypeOK'
  <1> USE DEF account, usage, console, bounds
  <1>1. ASSUME NEW r \in Resources, NEW n \in 1 .. Batch[r], Begin(h, r, n)
        PROVE  TypeOK'
    <2>1. n \in Nat
      BY LimitsAssumption
    <2>2. [NoOp EXCEPT !.res = r, !.amount = n] \in Op
      BY <2>1, Shapes
    <2> QED
      BY <1>1, <2>2 DEF Begin, TypeOK, PcValues
  <1>2. ASSUME NEW r \in Mails, NEW n \in 1 .. Batch[r], SendExempt(h, r, n)
        PROVE  TypeOK'
    <2>1. r \in Resources
      BY DEF Resources, Metered
    <2>2. n \in Nat
      BY <2>1, LimitsAssumption
    <2>3. [NoOp EXCEPT !.res = r, !.amount = n, !.exempt = TRUE] \in Op
      BY <2>1, <2>2, Shapes
    <2> QED
      BY <1>2, <2>3 DEF SendExempt, TypeOK, PcValues
  <1>3. ASSUME NEW r \in Deletable, EditRow(h, r)
        PROVE  TypeOK'
    <2>1. r \in Resources
      BY LimitsAssumption DEF Resources
    <2>2. [NoOp EXCEPT !.res = r] \in Op
      BY <2>1, Shapes
    <2> QED
      BY <1>3, <2>2 DEF EditRow, TypeOK, PcValues
  <1> QED
    BY <1>1, <1>2, <1>3 DEF Arrive

\* its reads and its check do,
LEMMA CheckType ==
  ASSUME TypeOK, NEW h \in Handlers,
         ReadTier(h) \/ ReadOverride(h) \/ CheckUsage(h) \/ CheckFailsOpen(h)
  PROVE  TypeOK'
  <1> USE DEF account, usage, console, bounds
  <1>0. op[h] \in Op /\ op[h].res \in Resources /\ op[h].limit \in Nat
    BY DEF TypeOK, Op
  <1>1. CASE ReadTier(h)
    <2>1. PlanLimit[tier][op[h].res] \in Nat
      BY <1>0, LimitsAssumption DEF TypeOK
    <2>2. op' = [op EXCEPT ![h] = [@ EXCEPT !.limit = PlanLimit[tier][op[h].res]]]
      BY <1>1 DEF ReadTier
    <2>3. [op[h] EXCEPT !.limit = PlanLimit[tier][op[h].res]] \in Op
      BY <1>0, <2>1, Shapes
    <2>4. op' \in [Handlers -> Op]
      BY <2>2, <2>3 DEF TypeOK
    <2> QED
      BY <1>1, <2>4 DEF ReadTier, TypeOK, PcValues
  <1>2. CASE ReadOverride(h)
    <2> DEFINE m == Merged(op[h].limit, override.columns[op[h].res])
    <2>1. m \in Nat
      BY <1>0 DEF Merged, TypeOK, Columns
    <2>2. op' = [op EXCEPT ![h] = [@ EXCEPT !.limit = m]]
      BY <1>2 DEF ReadOverride
    <2> HIDE DEF m
    <2>3. [op[h] EXCEPT !.limit = m] \in Op
      BY <1>0, <2>1, Shapes
    <2>4. op' \in [Handlers -> Op]
      BY <2>2, <2>3 DEF TypeOK
    <2> QED
      BY <1>2, <2>4 DEF ReadOverride, TypeOK, PcValues
  <1>3. ASSUME NEW x, Decide(h, x)
        PROVE  pc' \in [Handlers -> PcValues] /\ op' \in [Handlers -> Op]
    BY <1>3, Shapes DEF Decide, TypeOK, PcValues
  <1>4. CASE CheckUsage(h)
    BY <1>3, <1>4 DEF CheckUsage, TypeOK
  <1>5. CASE CheckFailsOpen(h)
    BY <1>3, <1>5 DEF CheckFailsOpen, TypeOK
  <1> QED
    BY <1>1, <1>2, <1>4, <1>5

\* the writers do,
LEMMA WriteType ==
  ASSUME TypeOK, NEW h \in Handlers,
         \/ SaveRows(h) \/ Abandon(h) \/ SaveEdited(h)
         \/ \E k \in 0 .. op[h].amount : SendMails(h, k)
         \/ Upload(h) \/ SaveLogo(h) \/ RecordUsage(h) \/ Fault(h)
  PROVE  TypeOK'
  <1> USE DEF account, usage, console, bounds
  <1>0. /\ op[h] \in Op /\ op[h].res \in Resources
        /\ op[h].amount \in Nat /\ op[h].sent \in Nat
    BY DEF TypeOK, Op
  <1>a. ASSUME End(h)
        PROVE  pc' \in [Handlers -> PcValues] /\ op' \in [Handlers -> Op]
    BY <1>a, Shapes DEF End, TypeOK, PcValues
  <1>1. CASE SaveRows(h)
    BY <1>0, <1>1, <1>a DEF SaveRows, TypeOK
  <1>2. CASE Abandon(h)
    BY <1>2, <1>a DEF Abandon, TypeOK
  <1>3. CASE SaveEdited(h)
    <2>1. \A g \in Handlers : [op[g] EXCEPT !.gone = 0] \in Op /\ op[g] \in Op
      BY Shapes DEF TypeOK
    <2>2. op' \in [Handlers -> Op]
      BY <1>3, <2>1, Shapes DEF SaveEdited
    <2>3. used' \in [Resources -> Nat] /\ revived' \in [Resources -> Nat]
      BY <1>0, <1>3 DEF SaveEdited, TypeOK
    <2> QED
      BY <1>3, <2>2, <2>3 DEF SaveEdited, TypeOK, PcValues
  <1>4. ASSUME NEW k \in 0 .. op[h].amount, SendMails(h, k)
        PROVE  TypeOK'
    <2>1. k \in Nat
      BY <1>0
    <2>2. used' \in [Resources -> Nat]
      BY <1>0, <1>4, <2>1 DEF SendMails, TypeOK
    <2>3. [op[h] EXCEPT !.sent = k] \in Op
      BY <1>0, <2>1, Shapes
    <2>4. pc' \in [Handlers -> PcValues] /\ op' \in [Handlers -> Op]
      <3>1. CASE k = 0
        BY <1>4, <1>a, <3>1 DEF SendMails
      <3>2. CASE k # 0
        <4>1. op' = [op EXCEPT ![h] = [@ EXCEPT !.sent = k]]
          BY <1>4, <3>2 DEF SendMails
        <4> QED
          BY <1>4, <2>3, <3>2, <4>1 DEF SendMails, TypeOK, PcValues
      <3> QED
        BY <3>1, <3>2
    <2> QED
      BY <1>4, <2>2, <2>4 DEF SendMails, TypeOK
  <1>5. CASE Upload(h)
    <2>1. [op[h] EXCEPT !.sent = op[h].amount] \in Op
      BY <1>0, Shapes
    <2>2. op' = [op EXCEPT ![h] = [@ EXCEPT !.sent = op[h].amount]]
      BY <1>5 DEF Upload
    <2>3. op' \in [Handlers -> Op]
      BY <2>1, <2>2 DEF TypeOK
    <2>4. used' \in [Resources -> Nat]
      BY <1>0, <1>5 DEF Upload, TypeOK
    <2> QED
      BY <1>5, <2>3, <2>4 DEF Upload, TypeOK, PcValues
  <1>6. CASE SaveLogo(h)
    BY <1>6 DEF SaveLogo, TypeOK, PcValues
  <1>7. CASE RecordUsage(h)
    BY <1>0, <1>7, <1>a DEF RecordUsage, Recorded, TypeOK
  <1>8. CASE Fault(h)
    BY <1>8, <1>a DEF Fault, TypeOK
  <1> QED
    BY <1>1, <1>2, <1>3, <1>4, <1>5, <1>6, <1>7, <1>8

\* operators do,
LEMMA ConsoleType ==
  ASSUME TypeOK, NEW a \in Operators, Console(a)
  PROVE  TypeOK'
  <1> USE DEF usage, procs, bounds
  <1>0. /\ edit \in [Operators -> Edit] /\ edit[a] \in Edit
        /\ override.id \in Nat /\ override.columns \in Columns
    BY DEF TypeOK
  <1>a. NoEdit \in Edit
    BY LimitsAssumption, Shapes DEF NoEdit, Edit
  <1>b. ASSUME EndAsk(a)
        PROVE  ask' \in [Operators -> AskValues] /\ edit' \in [Operators -> Edit]
    BY <1>0, <1>a, <1>b DEF EndAsk, TypeOK, AskValues
  <1>1. ASSUME NEW t \in Tiers, NEW in \in Changed, NEW notes \in BOOLEAN,
               AskSet(a, t, in, notes)
        PROVE  TypeOK'
    <2> DEFINE cols == [r \in Resources |-> IF r \in DOMAIN in THEN in[r] ELSE NoLimit]
               some == notes \/ DOMAIN in # {}
    <2>1. PICK S \in SUBSET Resources : in \in [S -> Limits \cup {NoLimit}]
      BY DEF Changed
    <2>2. cols \in Columns /\ DOMAIN in \in SUBSET Resources
      BY <2>1, LimitsAssumption DEF Columns
    <2>3. edit' = [edit EXCEPT ![a] =
                     [NoEdit EXCEPT !.tier = t, !.keys = DOMAIN in, !.upsert = some,
                                    !.input = cols]]
      BY <1>1 DEF AskSet
    <2>a. some \in BOOLEAN
      OBVIOUS
    <2> HIDE DEF cols, some
    <2>4. [NoEdit EXCEPT !.tier = t, !.keys = DOMAIN in, !.upsert = some, !.input = cols]
            \in Edit
      BY <1>a, <2>2, <2>a DEF Edit
    <2>5. edit' \in [Operators -> Edit]
      BY <1>0, <2>3, <2>4
    <2>6. ask' \in [Operators -> AskValues]
      BY <1>1 DEF AskSet, TypeOK, AskValues
    <2>7. changes' \in Nat /\ UNCHANGED <<account, usage, procs, bounds>>
      BY <1>1 DEF AskSet, TypeOK
    <2> QED
      BY <2>5, <2>6, <2>7 DEF account, TypeOK
  <1>2. CASE SaveTier(a)
    <2>1. edit[a].tier \in Tiers
      BY <1>0 DEF Edit
    <2>a. peak' = PeakOfTier(edit[a].tier)
      BY <1>2 DEF SaveTier
    <2>2. peak' \in [Resources -> Nat]
      <3>1. ASSUME NEW r \in Resources
            PROVE  Higher(peak[r], PlanLimit[edit[a].tier][r]) \in Nat
        <4> DEFINE p == peak[r]
                   l == PlanLimit[edit[a].tier][r]
        <4>1. p \in Nat
          BY DEF TypeOK
        <4>2. l \in Nat
          BY <2>1, LimitsAssumption
        <4> HIDE DEF p, l
        <4>3. Higher(p, l) \in Nat
          BY <4>1, <4>2 DEF Higher
        <4> QED
          BY <4>3 DEF p, l
      <3> QED
        BY <2>a, <3>1 DEF PeakOfTier
    <2>3. edit' \in [Operators -> Edit]
      BY <1>0, <1>2, <1>a DEF SaveTier
    <2> QED
      BY <1>2, <2>1, <2>2, <2>3 DEF SaveTier, TypeOK, AskValues
  <1>3. CASE ReadForUpsert(a)
    <2> DEFINE cols == [r \in Resources |-> IF r \in edit[a].keys THEN edit[a].input[r]
                                            ELSE override.columns[r]]
    <2>1. cols \in Columns
      BY <1>0 DEF Columns, Edit
    <2>2. edit' = [edit EXCEPT ![a] = [@ EXCEPT !.id = override.id, !.columns = cols]]
      BY <1>3 DEF ReadForUpsert
    <2> HIDE DEF cols
    <2>3. [edit[a] EXCEPT !.id = override.id, !.columns = cols] \in Edit
      BY <1>0, <2>1 DEF Edit
    <2>4. edit' \in [Operators -> Edit]
      BY <1>0, <2>2, <2>3
    <2> QED
      BY <1>3, <2>4 DEF ReadForUpsert, account, TypeOK, AskValues
  <1>4. CASE SaveOverride(a)
    <2>1. edit[a].columns \in Columns /\ edit[a].id \in Nat /\ changes \in Nat
      BY <1>0 DEF Edit, TypeOK
    <2>2. override' \in [id: Nat, columns: Columns]
      BY <1>4, <2>1 DEF SaveOverride
    <2>3. peak' \in [Resources -> Nat]
      BY <1>4, <2>1, HigherType DEF SaveOverride, PeakOfColumns, Columns, TypeOK
    <2> QED
      BY <1>4, <1>b, <2>2, <2>3 DEF SaveOverride, TypeOK
  <1>5. CASE SaveOverrideConflict(a)
    BY <1>5, <1>b DEF SaveOverrideConflict, account, TypeOK
  <1>6. CASE AskClear(a)
    <2>1. [NoEdit EXCEPT !.id = override.id] \in Edit
      BY <1>0, <1>a DEF Edit
    <2>2. edit' \in [Operators -> Edit]
      BY <1>0, <1>6, <2>1 DEF AskClear
    <2> QED
      BY <1>6, <2>2 DEF AskClear, account, TypeOK, AskValues
  <1>7. CASE RemoveOverride(a)
    <2>1. override' \in [id: Nat, columns: Columns]
      BY <1>7, Shapes DEF RemoveOverride, TypeOK
    <2> QED
      BY <1>7, <1>b, <2>1 DEF RemoveOverride, TypeOK
  <1> QED
    BY <1>1, <1>2, <1>3, <1>4, <1>5, <1>6, <1>7 DEF Console

\* and so do the rest.
LEMMA RestType ==
  ASSUME TypeOK,
         \/ \E r \in Deletable, S \in SUBSET Handlers : DeleteRow(r, S)
         \/ \E t \in Tiers : UpgradePlan(t)
         \/ NewMonth
  PROVE  TypeOK'
  <1> USE DEF account, usage, procs, console, bounds
  <1>1. ASSUME NEW r \in Deletable, NEW S \in SUBSET Handlers, DeleteRow(r, S)
        PROVE  TypeOK'
    <2>1. r \in Resources
      BY LimitsAssumption DEF Resources
    <2>2. used' \in [Resources -> Nat]
      BY <1>1, <2>1 DEF DeleteRow, TypeOK
    <2>a. deletes + 1 \in Nat
      BY DEF TypeOK
    <2>3. \A g \in Handlers : [op[g] EXCEPT !.gone = deletes + 1] \in Op /\ op[g] \in Op
      BY <2>a, Shapes DEF TypeOK
    <2>4. op' \in [Handlers -> Op]
      BY <1>1, <2>3 DEF DeleteRow
    <2> QED
      BY <1>1, <2>2, <2>4 DEF DeleteRow, TypeOK
  <1>2. ASSUME NEW t \in Tiers, UpgradePlan(t)
        PROVE  TypeOK'
    <2>1. peak' \in [Resources -> Nat]
      BY <1>2, HigherType, LimitsAssumption DEF UpgradePlan, PeakOfTier, TypeOK
    <2> QED
      BY <1>2, <2>1 DEF UpgradePlan, TypeOK
  <1>3. CASE NewMonth
    BY <1>3 DEF NewMonth, TypeOK
  <1> QED
    BY <1>1, <1>2, <1>3

\* TypeOK is inductive.
LEMMA TypeStep == TypeOK /\ [Next]_vars => TypeOK'
  <1> SUFFICES ASSUME TypeOK, [Next]_vars
               PROVE  TypeOK'
    OBVIOUS
  <1>1. CASE Next
    BY <1>1, ArriveType, CheckType, WriteType, ConsoleType, RestType DEF Next, Step
  <1>2. CASE UNCHANGED vars
    BY <1>2 DEF vars, TypeOK
  <1> QED
    BY <1>1, <1>2

\* The tables and everything in flight keep their shape, for any plans, resources
\* and number of requests.
THEOREM TypeCorrect == Spec => []TypeOK
  BY TypeInit, TypeStep, PTL DEF Spec

-----------------------------------------------------------------------------
(* The invariant behind OvershootBounded.  The room a check found is not held, so  *)
(* used[r] <= peak[r] says nothing of the next write; what holds is a bound on     *)
(* what is used and what is about to be.  Adding up what the writers in flight     *)
(* will write is not needed: it is enough to remember that there is one request,   *)
(* the last that passed its check, whose own increment was counted, and to allow a *)
(* full batch to every other.                                                      *)

\* The requests for r that passed their check and have not written.
Writing(r) == {h \in Handlers : pc[h] = "write" /\ op[h].res = r}

\* What request h is about to add to r.
Room(h, r) == IF h \in Writing(r) THEN op[h].amount ELSE 0

\* The bound with h as the last request that passed.
BoundBy(h, r) ==
    used[r] + Room(h, r) + Batch[r] * Cardinality(Writing(r) \ {h})
        <= peak[r] + Overshoot(r) + revived[r]

RoomInv == \A r \in Counted : \E h \in Handlers : BoundBy(h, r)

\* The limits in force are covered by the history of limits,
PeakCovers ==
    \A r \in Resources :
        /\ PlanLimit[tier][r] <= peak[r]
        /\ override.columns[r] # NoLimit => override.columns[r] <= peak[r]

\* and so is a limit a request has read; its increment is a batch at most.
RequestInv ==
    \A h \in Handlers :
        /\ pc[h] \in {"override", "usage"} => op[h].limit <= peak[op[h].res]
        /\ op[h].amount <= Batch[op[h].res]

LimitsInv == TypeOK /\ PeakCovers /\ RequestInv /\ RoomInv

\* The history of limits never loses a limit.
LEMMA PeakGrows ==
  ASSUME TypeOK, [Next]_vars
  PROVE  \A r \in Resources : peak[r] \in Nat /\ peak'[r] \in Nat /\ peak'[r] >= peak[r]
  <1> USE DEF account
  <1>0. \A r \in Resources : peak[r] \in Nat
    BY DEF TypeOK
  <1>1. ASSUME NEW t \in Tiers, peak' = PeakOfTier(t)
        PROVE  \A r \in Resources : peak'[r] \in Nat /\ peak'[r] >= peak[r]
    BY <1>0, <1>1, HigherType, LimitsAssumption DEF PeakOfTier
  <1>2. ASSUME NEW a \in Operators, peak' = PeakOfColumns(edit[a].columns)
        PROVE  \A r \in Resources : peak'[r] \in Nat /\ peak'[r] >= peak[r]
    <2>1. edit[a].columns \in Columns
      BY DEF Edit, TypeOK
    <2>2. ASSUME NEW r \in Resources
          PROVE  peak'[r] \in Nat /\ peak'[r] >= peak[r]
      <3> DEFINE c == edit[a].columns[r]
      <3>1. c \in Nat \cup {NoLimit}
        BY <2>1 DEF Columns
      <3>2. peak'[r] = IF c = NoLimit THEN peak[r] ELSE Higher(peak[r], c)
        BY <1>2 DEF PeakOfColumns
      <3> HIDE DEF c
      <3>3. CASE c = NoLimit
        BY <1>0, <3>2, <3>3
      <3>4. CASE c \in Nat
        <4>1. Higher(peak[r], c) \in Nat /\ Higher(peak[r], c) >= peak[r]
          BY <1>0, <3>4, HigherType
        <4>2. peak'[r] = Higher(peak[r], c)
          BY <3>2, <3>4, LimitsAssumption
        <4> QED
          BY <4>1, <4>2
      <3> QED
        BY <3>1, <3>3, <3>4
    <2> QED
      BY <2>2
  <1>3. ASSUME NEW a \in Operators, SaveTier(a)
        PROVE  \A r \in Resources : peak'[r] \in Nat /\ peak'[r] >= peak[r]
    <2>1. edit[a].tier \in Tiers
      BY DEF Edit, TypeOK
    <2> QED
      BY <1>1, <1>3, <2>1 DEF SaveTier
  <1>4. ASSUME NEW a \in Operators, SaveOverride(a)
        PROVE  \A r \in Resources : peak'[r] \in Nat /\ peak'[r] >= peak[r]
    BY <1>2, <1>4 DEF SaveOverride
  <1>5. ASSUME NEW t \in Tiers, UpgradePlan(t)
        PROVE  \A r \in Resources : peak'[r] \in Nat /\ peak'[r] >= peak[r]
    BY <1>1, <1>5 DEF UpgradePlan
  <1>6. ASSUME NEW a \in Operators, Console(a), ~SaveTier(a), ~SaveOverride(a)
        PROVE  UNCHANGED peak
    BY <1>6 DEF Console, AskSet, ReadForUpsert, SaveOverrideConflict, AskClear, RemoveOverride
  <1>7. ASSUME NEW h \in Handlers, Arrive(h) \/ Step(h) \/ Fault(h) \/ CheckFailsOpen(h)
        PROVE  UNCHANGED peak
    BY <1>7 DEF Arrive, Begin, SendExempt, EditRow, Step, ReadTier, ReadOverride, CheckUsage,
       SaveRows, Abandon, SaveEdited, SendMails, Upload, SaveLogo, RecordUsage, Fault,
       CheckFailsOpen
  <1>8. ASSUME NewMonth \/ \E r \in Deletable, S \in SUBSET Handlers : DeleteRow(r, S)
        PROVE  UNCHANGED peak
    BY <1>8 DEF NewMonth, DeleteRow
  <1>9. CASE UNCHANGED vars
    BY <1>0, <1>9 DEF vars
  <1> QED
    BY <1>0, <1>3, <1>4, <1>5, <1>6, <1>7, <1>8, <1>9 DEF Next

\* The limits in force are in the history.
LEMMA PeakCoversStep == TypeOK /\ PeakCovers /\ [Next]_vars => PeakCovers'
  <1> SUFFICES ASSUME TypeOK, PeakCovers, [Next]_vars
               PROVE  PeakCovers'
    OBVIOUS
  <1> USE DEF account
  <1>0. \A r \in Resources : peak[r] \in Nat /\ peak'[r] \in Nat /\ peak'[r] >= peak[r]
    BY PeakGrows
  <1>1. \A r \in Resources :
          /\ PlanLimit[tier][r] \in Nat
          /\ override.columns[r] # NoLimit => override.columns[r] \in Nat
    BY LimitsAssumption DEF TypeOK, Columns
  <1>2. ASSUME UNCHANGED <<tier, override>>
        PROVE  PeakCovers'
    BY <1>0, <1>1, <1>2 DEF PeakCovers
  <1>3. ASSUME NEW t \in Tiers, tier' = t, peak' = PeakOfTier(t), UNCHANGED override
        PROVE  PeakCovers'
    <2>1. \A r \in Resources : PlanLimit[t][r] \in Nat /\ PlanLimit[t][r] <= peak'[r]
      BY <1>0, <1>3, HigherType, LimitsAssumption DEF PeakOfTier
    <2> QED
      BY <1>0, <1>1, <1>3, <2>1 DEF PeakCovers
  <1>4. ASSUME NEW a \in Operators, SaveTier(a)
        PROVE  PeakCovers'
    <2>1. edit[a].tier \in Tiers
      BY DEF Edit, TypeOK
    <2> QED
      BY <1>3, <1>4, <2>1 DEF SaveTier
  <1>5. ASSUME NEW a \in Operators, SaveOverride(a)
        PROVE  PeakCovers'
    <2> DEFINE cs == edit[a].columns
    <2>1. cs \in Columns
      BY DEF Edit, TypeOK
    <2>2. \A r \in Resources : cs[r] # NoLimit => cs[r] \in Nat /\ cs[r] <= peak'[r]
      BY <1>0, <1>5, <2>1, HigherType DEF SaveOverride, PeakOfColumns, Columns
    <2>3. override'.columns = cs /\ tier' = tier
      BY <1>5 DEF SaveOverride
    <2> HIDE DEF cs
    <2> QED
      BY <1>0, <1>1, <2>2, <2>3 DEF PeakCovers
  <1>6. ASSUME NEW a \in Operators, RemoveOverride(a)
        PROVE  PeakCovers'
    <2>1. /\ tier' = tier
          /\ \A r \in Resources : override'.columns[r] \in {NoLimit, override.columns[r]}
      BY <1>6 DEF RemoveOverride, NoColumns
    <2> QED
      BY <1>0, <1>1, <2>1 DEF PeakCovers
  <1>7. ASSUME NEW t \in Tiers, UpgradePlan(t)
        PROVE  PeakCovers'
    BY <1>3, <1>7 DEF UpgradePlan
  <1>8. ASSUME NEW a \in Operators, Console(a), ~SaveTier(a), ~SaveOverride(a), ~RemoveOverride(a)
        PROVE  UNCHANGED <<tier, override>>
    BY <1>8 DEF Console, AskSet, ReadForUpsert, SaveOverrideConflict, AskClear
  <1>9. ASSUME NEW h \in Handlers, Arrive(h) \/ Step(h) \/ Fault(h) \/ CheckFailsOpen(h)
        PROVE  UNCHANGED <<tier, override>>
    BY <1>9 DEF Arrive, Begin, SendExempt, EditRow, Step, ReadTier, ReadOverride, CheckUsage,
       SaveRows, Abandon, SaveEdited, SendMails, Upload, SaveLogo, RecordUsage, Fault,
       CheckFailsOpen
  <1>10. ASSUME \/ NewMonth \/ \E r \in Deletable, S \in SUBSET Handlers : DeleteRow(r, S)
                \/ UNCHANGED vars
         PROVE  UNCHANGED <<tier, override>>
    BY <1>10 DEF NewMonth, DeleteRow, vars
  <1> QED
    BY <1>2, <1>4, <1>5, <1>6, <1>7, <1>8, <1>9, <1>10 DEF Next

\* What requests have read stays covered, and their increments stay batches.
LEMMA RequestStep == TypeOK /\ PeakCovers /\ RequestInv /\ [Next]_vars => RequestInv'
  <1> SUFFICES ASSUME TypeOK, PeakCovers, RequestInv, [Next]_vars
               PROVE  RequestInv'
    OBVIOUS
  <1> DEFINE OK(g) == /\ pc'[g] \in {"override", "usage"} => op'[g].limit <= peak'[op'[g].res]
                      /\ op'[g].amount <= Batch[op'[g].res]
  <1>0. \A r \in Resources : peak[r] \in Nat /\ peak'[r] \in Nat /\ peak'[r] >= peak[r]
    BY PeakGrows
  <1>a. \A g \in Handlers : op[g] \in Op /\ op[g].res \in Resources /\ op[g].limit \in Nat
                            /\ op[g].amount \in Nat
    BY DEF TypeOK, Op
  <1>b. NoOp.amount = 0 /\ NoOp.res \in Resources /\ \A r \in Resources : Batch[r] \in Nat \ {0}
    BY LimitsAssumption DEF NoOp
  <1>c. ASSUME NEW g \in Handlers, op'[g].res = op[g].res, op'[g].limit = op[g].limit,
               op'[g].amount = op[g].amount,
               pc'[g] \in {"override", "usage"} => pc[g] \in {"override", "usage"}
        PROVE  OK(g)
    BY <1>0, <1>a, <1>c DEF RequestInv
  <1>d. ASSUME NEW g \in Handlers, op'[g] = NoOp, pc'[g] \notin {"override", "usage"}
        PROVE  OK(g)
    BY <1>b, <1>d
  <1>e. ASSUME NEW h \in Handlers, End(h)
        PROVE  \A g \in Handlers : OK(g)
    <2>1. OK(h)
      BY <1>d, <1>e DEF End, TypeOK
    <2>2. \A g \in Handlers \ {h} : pc'[g] = pc[g] /\ op'[g] = op[g]
      BY <1>e DEF End, TypeOK
    <2> QED
      BY <1>c, <2>1, <2>2
  <1>f. ASSUME NEW h \in Handlers, OK(h), NEW p, NEW o,
               pc' = [pc EXCEPT ![h] = p], op' = [op EXCEPT ![h] = o]
        PROVE  \A g \in Handlers : OK(g)
    <2>1. \A g \in Handlers \ {h} : pc'[g] = pc[g] /\ op'[g] = op[g]
      BY <1>f DEF TypeOK
    <2> QED
      BY <1>c, <1>f, <2>1
  <1> HIDE DEF OK
  <1>1. ASSUME NEW h \in Handlers, Arrive(h)
        PROVE  \A g \in Handlers : OK(g)
    <2>1. ASSUME NEW r \in Resources, NEW n \in 1 .. Batch[r], Begin(h, r, n)
          PROVE  \A g \in Handlers : OK(g)
      <3>1. pc'[h] = "tier" /\ op'[h].res = r /\ op'[h].amount = n
        BY <2>1 DEF Begin, TypeOK, NoOp
      <3>2. OK(h)
        BY <1>b, <3>1 DEF OK
      <3> QED
        BY <1>f, <2>1, <3>2 DEF Begin
    <2>2. ASSUME NEW r \in Mails, NEW n \in 1 .. Batch[r], SendExempt(h, r, n)
          PROVE  \A g \in Handlers : OK(g)
      <3>1. pc'[h] = "write" /\ op'[h].res = r /\ op'[h].amount = n /\ r \in Resources
        BY <2>2 DEF SendExempt, TypeOK, NoOp, Resources, Metered
      <3>2. OK(h)
        BY <1>b, <3>1 DEF OK
      <3> QED
        BY <1>f, <2>2, <3>2 DEF SendExempt
    <2>3. ASSUME NEW r \in Deletable, EditRow(h, r)
          PROVE  \A g \in Handlers : OK(g)
      <3>1. pc'[h] = "edit" /\ op'[h].res = r /\ op'[h].amount = 0 /\ r \in Resources
        BY <2>3, LimitsAssumption DEF EditRow, TypeOK, NoOp, Resources
      <3>2. OK(h)
        BY <1>b, <3>1 DEF OK
      <3> QED
        BY <1>f, <2>3, <3>2 DEF EditRow
    <2> QED
      BY <1>1, <2>1, <2>2, <2>3 DEF Arrive
  <1>2. ASSUME NEW h \in Handlers, ReadTier(h)
        PROVE  \A g \in Handlers : OK(g)
    <2> DEFINE l == PlanLimit[tier][op[h].res]
    <2>1. l \in Nat /\ l <= peak[op[h].res] /\ l <= peak'[op[h].res]
      BY <1>0, <1>a, LimitsAssumption DEF TypeOK, PeakCovers
    <2>2. op' = [op EXCEPT ![h] = [op[h] EXCEPT !.limit = l]]
      BY <1>2 DEF ReadTier
    <2> HIDE DEF l
    <2>3. op'[h].limit = l /\ op'[h].res = op[h].res /\ op'[h].amount = op[h].amount
      BY <1>a, <2>2 DEF TypeOK, Op
    <2>4. OK(h)
      BY <1>a, <2>1, <2>3 DEF OK, RequestInv
    <2> QED
      BY <1>2, <1>f, <2>2, <2>4 DEF ReadTier
  <1>3. ASSUME NEW h \in Handlers, ReadOverride(h)
        PROVE  \A g \in Handlers : OK(g)
    <2> DEFINE l == Merged(op[h].limit, override.columns[op[h].res])
    <2>1. pc[h] = "override" /\ op[h].limit <= peak[op[h].res]
      BY <1>3 DEF ReadOverride, RequestInv
    <2>2. override.columns[op[h].res] \in Nat \cup {NoLimit}
      BY <1>a DEF TypeOK, Columns
    <2>3. l \in Nat /\ l <= peak[op[h].res]
      BY <1>a, <2>1, <2>2 DEF Merged, PeakCovers
    <2>4. op' = [op EXCEPT ![h] = [op[h] EXCEPT !.limit = l]]
      BY <1>3 DEF ReadOverride
    <2> HIDE DEF l
    <2>5. op'[h].limit = l /\ op'[h].res = op[h].res /\ op'[h].amount = op[h].amount
      BY <1>a, <2>4 DEF TypeOK, Op
    <2>6. OK(h)
      BY <1>0, <1>a, <2>3, <2>5 DEF OK, RequestInv
    <2> QED
      BY <1>3, <1>f, <2>4, <2>6 DEF ReadOverride
  <1>4. ASSUME NEW h \in Handlers, NEW x, Decide(h, x)
        PROVE  \A g \in Handlers : OK(g)
    <2>1. CASE End(h)
      BY <1>e, <2>1
    <2>2. CASE pc' = [pc EXCEPT ![h] = "write"] /\ UNCHANGED op
      BY <1>c, <2>2 DEF TypeOK
    <2> QED
      BY <1>4, <2>1, <2>2 DEF Decide, End
  <1>5. ASSUME NEW h \in Handlers, SendMails(h, 0) \/ SaveRows(h) \/ Abandon(h)
                                   \/ RecordUsage(h) \/ Fault(h)
        PROVE  \A g \in Handlers : OK(g)
    BY <1>5, <1>e DEF SendMails, SaveRows, Abandon, RecordUsage, Fault
  <1>6. ASSUME NEW h \in Handlers, NEW k \in Nat, (SendMails(h, k) /\ k # 0) \/ Upload(h)
        PROVE  \A g \in Handlers : OK(g)
    <2>1. PICK n \in Nat : op' = [op EXCEPT ![h] = [op[h] EXCEPT !.sent = n]]
      BY <1>6, <1>a DEF SendMails, Upload
    <2>2. pc' = [pc EXCEPT ![h] = "record"] \/ pc' = [pc EXCEPT ![h] = "logo"]
      BY <1>6 DEF SendMails, Upload
    <2>3. \A g \in Handlers : /\ op'[g].res = op[g].res /\ op'[g].limit = op[g].limit
                              /\ op'[g].amount = op[g].amount
      BY <1>a, <2>1 DEF TypeOK, Op
    <2>4. \A g \in Handlers : pc'[g] \in {"override", "usage"} => pc'[g] = pc[g]
      BY <2>2 DEF TypeOK
    <2> QED
      BY <1>c, <2>3, <2>4
  <1>7. ASSUME NEW h \in Handlers, SaveLogo(h)
        PROVE  \A g \in Handlers : OK(g)
    BY <1>7, <1>c DEF SaveLogo, TypeOK
  <1>8. ASSUME NEW h \in Handlers, SaveEdited(h)
        PROVE  \A g \in Handlers : OK(g)
    <2>1. OK(h)
      BY <1>8, <1>d DEF SaveEdited, TypeOK
    <2>2. \A g \in Handlers \ {h} :
            /\ pc'[g] = pc[g]
            /\ op'[g] = op[g] \/ op'[g] = [op[g] EXCEPT !.gone = 0]
      BY <1>8 DEF SaveEdited, TypeOK
    <2>3. \A g \in Handlers \ {h} : /\ op'[g].res = op[g].res /\ op'[g].limit = op[g].limit
                                    /\ op'[g].amount = op[g].amount
      BY <1>a, <2>2 DEF Op
    <2> QED
      BY <1>c, <2>1, <2>2, <2>3
  <1>9. ASSUME NEW r \in Deletable, NEW S \in SUBSET Handlers, DeleteRow(r, S)
        PROVE  \A g \in Handlers : OK(g)
    <2>1. \A g \in Handlers : /\ pc'[g] = pc[g]
                              /\ op'[g] = op[g] \/ op'[g] = [op[g] EXCEPT !.gone = deletes + 1]
      BY <1>9 DEF DeleteRow
    <2>2. \A g \in Handlers : /\ op'[g].res = op[g].res /\ op'[g].limit = op[g].limit
                              /\ op'[g].amount = op[g].amount
      BY <1>a, <2>1 DEF Op
    <2> QED
      BY <1>c, <2>1, <2>2
  <1>10. ASSUME \/ \E a \in Operators : Console(a)
                \/ \E t \in Tiers : UpgradePlan(t)
                \/ NewMonth \/ UNCHANGED vars
         PROVE  UNCHANGED procs
    BY <1>10 DEF Console, AskSet, SaveTier, ReadForUpsert, SaveOverride, SaveOverrideConflict,
       AskClear, RemoveOverride, UpgradePlan, NewMonth, vars, procs
  <1>11. ASSUME UNCHANGED procs
         PROVE  \A g \in Handlers : OK(g)
    BY <1>11, <1>c DEF procs
  <1>12. ASSUME NEW h \in Handlers, Step(h)
         PROVE  \A g \in Handlers : OK(g)
    <2>1. CASE \E k \in 0 .. op[h].amount : SendMails(h, k)
      <3>1. PICK k \in 0 .. op[h].amount : SendMails(h, k)
        BY <2>1
      <3> QED
        BY <1>5, <1>6, <1>a, <3>1
    <2> QED
      BY <1>2, <1>3, <1>4, <1>5, <1>6, <1>7, <1>8, <1>12, <2>1 DEF Step, CheckUsage
  <1>13. \A g \in Handlers : OK(g)
    BY <1>1, <1>12, <1>4, <1>5, <1>9, <1>10, <1>11 DEF Next, CheckFailsOpen
  <1> QED
    BY <1>13 DEF RequestInv, OK

-----------------------------------------------------------------------------
(* Room. *)

\* Sizes of the sets of writers.
LEMMA WritersFinite ==
  ASSUME NEW S \in SUBSET Handlers
  PROVE  /\ IsFiniteSet(S) /\ Cardinality(S) \in Nat
         /\ \A h \in Handlers : Cardinality(S \ {h}) \in Nat
                                /\ Cardinality(S \ {h}) <= Cardinality(Handlers) - 1
         /\ \A h \in S : Cardinality(S \ {h}) = Cardinality(S) - 1
         /\ \A T \in SUBSET S : Cardinality(T) \in Nat /\ Cardinality(T) <= Cardinality(S)
  <1>1. IsFiniteSet(S)
    BY FS_Subset, LimitsAssumption
  <1>2. ASSUME NEW h \in Handlers
        PROVE  Cardinality(S \ {h}) \in Nat /\ Cardinality(S \ {h}) <= Cardinality(Handlers) - 1
    <2>1. IsFiniteSet(Handlers \ {h}) /\ Cardinality(Handlers \ {h}) = Cardinality(Handlers) - 1
      BY FS_RemoveElement, LimitsAssumption
    <2>2. S \ {h} \in SUBSET (Handlers \ {h})
      OBVIOUS
    <2>3. IsFiniteSet(S \ {h}) /\ Cardinality(S \ {h}) <= Cardinality(Handlers \ {h})
      BY <2>1, <2>2, FS_Subset
    <2> QED
      BY <2>1, <2>3, FS_CardinalityType
  <1>3. ASSUME NEW T \in SUBSET S
        PROVE  Cardinality(T) \in Nat /\ Cardinality(T) <= Cardinality(S)
    BY <1>1, FS_Subset, FS_CardinalityType
  <1>4. \A h \in S : Cardinality(S \ {h}) = Cardinality(S) - 1
    BY <1>1, FS_RemoveElement
  <1> QED
    BY <1>1, <1>2, <1>3, <1>4, FS_CardinalityType

\* Multiplying keeps the order of natural numbers.
LEMMA Times ==
  ASSUME NEW b \in Nat, NEW x \in Nat, NEW y \in Nat, x <= y
  PROVE  b * x \in Nat /\ b * y \in Nat /\ b * x <= b * y
  OBVIOUS

LEMMA TimesNext ==
  ASSUME NEW b \in Nat, NEW x \in Nat
  PROVE  b * (x + 1) = b * x + b /\ b * 0 = 0
  OBVIOUS

\* A step that lets nobody new write, adds no more than it revives and loses no
\* limit keeps the bound.
LEMMA RoomKept ==
  ASSUME TypeOK, TypeOK', RoomInv, NEW r \in Counted,
         \A h \in (Writing(r))' : h \in Writing(r) /\ op'[h].amount = op[h].amount,
         used'[r] + revived[r] <= used[r] + revived'[r], peak'[r] >= peak[r]
  PROVE  \E h \in Handlers : (BoundBy(h, r))'
  <1>0. r \in Resources /\ Batch[r] \in Nat
    BY LimitsAssumption DEF Resources
  <1>1. /\ used[r] \in Nat /\ used'[r] \in Nat /\ peak[r] \in Nat /\ peak'[r] \in Nat
        /\ revived[r] \in Nat /\ revived'[r] \in Nat
    BY <1>0 DEF TypeOK
  <1>2. PICK h \in Handlers : BoundBy(h, r)
    BY DEF RoomInv
  <1>3. op[h].amount \in Nat /\ op'[h].amount \in Nat
    BY DEF TypeOK, Op
  <1> DEFINE W == Writing(r)
             V == (Writing(r))'
  <1>4. W \in SUBSET Handlers /\ V \in SUBSET W
    BY DEF Writing
  <1>5. Room(h, r) \in Nat /\ (Room(h, r))' \in Nat /\ (Room(h, r))' <= Room(h, r)
    BY <1>3, <1>4 DEF Room
  <1>6. /\ Cardinality(W \ {h}) \in Nat /\ Cardinality(V \ {h}) \in Nat
        /\ Cardinality(V \ {h}) <= Cardinality(W \ {h})
    <2>1. W \ {h} \in SUBSET Handlers /\ V \ {h} \in SUBSET (W \ {h})
      BY <1>4
    <2> QED
      BY <2>1, WritersFinite
  <1> DEFINE x == Cardinality(W \ {h})
             y == Cardinality(V \ {h})
  <1>7. Batch[r] * y \in Nat /\ Batch[r] * x \in Nat /\ Batch[r] * y <= Batch[r] * x
    BY <1>0, <1>6, Times
  <1>8. Overshoot(r) \in Int
    <2>1. Cardinality(Handlers) \in Nat
      BY FS_CardinalityType, LimitsAssumption
    <2> QED
      BY <1>0, <2>1 DEF Overshoot
  <1>9. used[r] + Room(h, r) + Batch[r] * x <= peak[r] + Overshoot(r) + revived[r]
    BY <1>2 DEF BoundBy
  <1>10. used'[r] + (Room(h, r))' + Batch[r] * y <= peak'[r] + Overshoot(r) + revived'[r]
    <2> HIDE DEF x, y, W, V
    <2> QED
      BY <1>1, <1>5, <1>7, <1>8, <1>9
  <1> QED
    BY <1>10 DEF BoundBy, Overshoot

\* A request that writes turns its room into use.
LEMMA RoomSpent ==
  ASSUME TypeOK, TypeOK', RequestInv, RoomInv, NEW g \in Handlers, SaveRows(g),
         NEW r \in Counted, r = op[g].res
  PROVE  \E h \in Handlers : (BoundBy(h, r))'
  <1> DEFINE n == op[g].amount
  <1>0. r \in Counted /\ r \in Resources /\ Batch[r] \in Nat /\ pc[g] = "write"
    BY LimitsAssumption DEF SaveRows, Resources
  <1>1. /\ used[r] \in Nat /\ peak[r] \in Nat /\ revived[r] \in Nat /\ n \in Nat /\ n <= Batch[r]
        /\ used'[r] = used[r] + n /\ peak' = peak /\ revived' = revived
    BY <1>0 DEF TypeOK, Op, RequestInv, SaveRows, account
  <1>2. PICK h \in Handlers : BoundBy(h, r)
    BY <1>0 DEF RoomInv
  <1> DEFINE W == Writing(r)
  <1>3. W \in SUBSET Handlers /\ g \in W /\ (Writing(r))' = W \ {g}
    <2>1. pc'[g] = "idle" /\ \A k \in Handlers \ {g} : pc'[k] = pc[k] /\ op'[k] = op[k]
      BY DEF SaveRows, End, TypeOK
    <2> QED
      BY <1>0, <2>1 DEF Writing
  <1>4. \A k \in Handlers \ {g} : op'[k] = op[k]
    BY DEF SaveRows, End, TypeOK
  <1> DEFINE x == Cardinality(W \ {h})
             y == Cardinality((W \ {g}) \ {h})
  <1>5. x \in Nat /\ y \in Nat /\ (IF h = g THEN y = x ELSE y = x - 1)
    <2>1. W \ {h} \in SUBSET Handlers
      BY <1>3
    <2>2. CASE h = g
      <3>1. (W \ {g}) \ {h} = W \ {h}
        BY <2>2
      <3> QED
        BY <2>1, <2>2, <3>1, WritersFinite
    <2>3. CASE h # g
      <3>1. (W \ {g}) \ {h} = (W \ {h}) \ {g} /\ g \in W \ {h}
        BY <1>3, <2>3
      <3>2. Cardinality((W \ {h}) \ {g}) = x - 1 /\ Cardinality((W \ {h}) \ {g}) \in Nat /\ x \in Nat
        BY <2>1, <3>1, WritersFinite
      <3> QED
        BY <2>3, <3>1, <3>2
    <2> QED
      BY <2>2, <2>3
  <1>6. Overshoot(r) \in Int
    <2>1. Cardinality(Handlers) \in Nat
      BY FS_CardinalityType, LimitsAssumption
    <2> QED
      BY <1>0, <2>1 DEF Overshoot
  <1>7. used[r] + Room(h, r) + Batch[r] * x <= peak[r] + Overshoot(r) + revived[r]
    BY <1>2 DEF BoundBy
  <1>8. /\ Room(h, r) \in Nat
        /\ (Room(h, r))' = IF h = g THEN 0 ELSE Room(h, r)
        /\ h = g => Room(h, r) = n
    <2>1. op[h].amount \in Nat
      BY DEF TypeOK, Op
    <2> QED
      BY <1>3, <1>4, <2>1 DEF Room
  <1>9. used'[r] + (Room(h, r))' + Batch[r] * y <= peak[r] + Overshoot(r) + revived[r]
    <2> DEFINE o == Overshoot(r)
               m == Room(h, r)
    <2> HIDE DEF W, x, y, o, m, n
    <2>1. CASE h = g
      BY <1>0, <1>1, <1>5, <1>6, <1>7, <1>8, <2>1 DEF o, m
    <2>2. CASE h # g
      <3>1. Batch[r] * x = Batch[r] * y + Batch[r]
        <4>1. x = y + 1
          BY <1>5, <2>2
        <4> QED
          BY <1>0, <1>5, <4>1, TimesNext
      <3>2. Batch[r] * y \in Nat
        BY <1>0, <1>5
      <3> QED
        BY <1>0, <1>1, <1>5, <1>6, <1>7, <1>8, <2>2, <3>1, <3>2 DEF o, m
    <2> QED
      BY <2>1, <2>2
  <1> QED
    BY <1>1, <1>3, <1>9 DEF BoundBy, Overshoot

\* A request that passes its check is the last that did: the others write a batch
\* each at most.
LEMMA RoomFound ==
  ASSUME TypeOK, TypeOK', RequestInv, NEW g \in Handlers, CheckUsage(g), pc'[g] = "write",
         NEW r \in Counted, r = op[g].res
  PROVE  (BoundBy(g, r))'
  <1> DEFINE n == op[g].amount
             x == Cardinality((Writing(r))' \ {g})
             N == Cardinality(Handlers)
  <1>0. r \in Resources /\ Batch[r] \in Nat /\ N \in Nat
    BY FS_CardinalityType, LimitsAssumption DEF Resources
  <1>1. /\ used[r] \in Nat /\ peak[r] \in Nat /\ revived[r] \in Nat /\ n \in Nat
        /\ op[g].limit \in Nat /\ op[g].limit <= peak[r]
    BY <1>0 DEF TypeOK, Op, RequestInv, CheckUsage, Decide
  <1>2. used' = used /\ peak' = peak /\ revived' = revived
    BY DEF CheckUsage, account, usage
  <1>3. ~Exceeds(Reading(r), n, op[g].limit) /\ op' = op
    BY DEF CheckUsage, Decide, TypeOK
  <1>4. Reading(r) = used[r]
    BY LimitsAssumption DEF Reading
  <1>5. used[r] + n <= peak[r]
    <2> HIDE DEF n
    <2> QED
      BY <1>1, <1>3, <1>4 DEF Exceeds
  <1>6. x \in Nat /\ x <= N - 1
    <2>1. (Writing(r))' \in SUBSET Handlers
      BY DEF Writing
    <2> QED
      BY <2>1, WritersFinite
  <1>7. Batch[r] * x <= Batch[r] * (N - 1) /\ Batch[r] * x \in Nat /\ Batch[r] * (N - 1) \in Nat
    <2>1. N - 1 \in Nat
      BY <1>0, <1>6
    <2> QED
      BY <1>0, <1>6, <2>1, Times
  <1>8. (Room(g, r))' = n
    <2>1. g \in (Writing(r))'
      BY <1>3 DEF Writing
    <2> QED
      BY <1>3, <2>1 DEF Room
  <1>9. used[r] + n + Batch[r] * x <= peak[r] + Batch[r] * (N - 1) + revived[r]
    <2> HIDE DEF n, x, N
    <2> QED
      BY <1>1, <1>5, <1>7
  <1> QED
    BY <1>2, <1>8, <1>9 DEF BoundBy, Overshoot

\* The bound is kept by every step.
LEMMA RoomStep == TypeOK /\ TypeOK' /\ PeakCovers /\ RequestInv /\ RoomInv /\ [Next]_vars => RoomInv'
  <1> SUFFICES ASSUME TypeOK, TypeOK', PeakCovers, RequestInv, RoomInv, [Next]_vars,
                      NEW r \in Counted
               PROVE  \E h \in Handlers : (BoundBy(h, r))'
    BY DEF RoomInv
  <1> DEFINE Goal == \E h \in Handlers : (BoundBy(h, r))'
             Calm == \A h \in (Writing(r))' : h \in Writing(r) /\ op'[h].amount = op[h].amount
  <1>0. r \in Resources /\ r \notin Metered
    BY LimitsAssumption DEF Resources
  <1>a. peak'[r] >= peak[r]
    BY <1>0, PeakGrows
  <1>b. used[r] \in Nat /\ revived[r] \in Nat
    BY <1>0 DEF TypeOK
  <1>c. ASSUME Calm, used'[r] + revived[r] <= used[r] + revived'[r]
        PROVE  Goal
    BY <1>a, <1>c, RoomKept
  <1>d. ASSUME Calm, used'[r] = used[r], UNCHANGED revived
        PROVE  Goal
    BY <1>b, <1>c, <1>d
  <1>e. ASSUME NEW g \in Handlers, pc'[g] # "write" \/ op'[g].res # r,
               \A h \in Handlers \ {g} : pc'[h] = pc[h] /\ op'[h] = op[h]
        PROVE  Calm
    BY <1>e DEF Writing
  <1>f. ASSUME NEW g \in Handlers, NEW p, NEW o, p # "write" \/ o.res # r,
               pc' = [pc EXCEPT ![g] = p], op' = [op EXCEPT ![g] = o]
        PROVE  Calm
    <2>1. pc'[g] = p /\ op'[g] = o
      BY <1>f DEF TypeOK
    <2>2. \A h \in Handlers \ {g} : pc'[h] = pc[h] /\ op'[h] = op[h]
      BY <1>f DEF TypeOK
    <2> QED
      BY <1>e, <1>f, <2>1, <2>2
  <1>g. ASSUME NEW g \in Handlers, End(g)
        PROVE  Calm
    BY <1>f, <1>g DEF End
  <1>h. ASSUME NEW g \in Handlers, NEW p, p # "write", pc' = [pc EXCEPT ![g] = p],
               \A h \in Handlers : op'[h].amount = op[h].amount /\ op'[h].res = op[h].res
        PROVE  Calm
    <2>1. pc'[g] = p /\ \A h \in Handlers \ {g} : pc'[h] = pc[h]
      BY <1>h DEF TypeOK
    <2> QED
      BY <1>h, <2>1 DEF Writing
  <1>i. ASSUME UNCHANGED procs
        PROVE  Calm
    BY <1>i DEF procs, Writing
  <1>j. \A g \in Handlers : op[g] \in Op
    BY DEF TypeOK
  <1> HIDE DEF Goal, Calm
  <1>1. ASSUME NEW g \in Handlers, Arrive(g)
        PROVE  Goal
    <2>1. Calm
      <3>1. ASSUME NEW m \in Mails, NEW n \in 1 .. Batch[m], SendExempt(g, m, n)
            PROVE  Calm
        <4>1. [NoOp EXCEPT !.res = m, !.amount = n, !.exempt = TRUE].res = m /\ m # r
          BY <1>0 DEF NoOp, Metered
        <4> QED
          BY <1>f, <3>1, <4>1 DEF SendExempt
      <3> QED
        BY <1>1, <1>f, <3>1 DEF Arrive, Begin, EditRow
    <2>2. used'[r] = used[r] /\ UNCHANGED revived
      BY <1>1 DEF Arrive, Begin, EditRow, SendExempt, usage
    <2> QED
      BY <1>d, <2>1, <2>2
  <1>2. ASSUME NEW g \in Handlers, ReadTier(g) \/ ReadOverride(g)
        PROVE  Goal
    <2>1. PICK l \in Int \cup {NoLimit} : op' = [op EXCEPT ![g] = [op[g] EXCEPT !.limit = l]]
      <3>1. op[g].res \in Resources /\ op[g].limit \in Nat
        BY <1>j DEF Op
      <3>2. PlanLimit[tier][op[g].res] \in Nat
        BY <3>1, LimitsAssumption DEF TypeOK
      <3>3. Merged(op[g].limit, override.columns[op[g].res]) \in Nat
        BY <3>1 DEF TypeOK, Columns, Merged
      <3> QED
        BY <1>2, <3>2, <3>3 DEF ReadTier, ReadOverride
    <2>2. \A h \in Handlers : op'[h].amount = op[h].amount /\ op'[h].res = op[h].res
      BY <1>j, <2>1 DEF TypeOK, Op
    <2>3. Calm
      BY <1>2, <1>h, <2>2 DEF ReadTier, ReadOverride
    <2> QED
      BY <1>2, <1>d, <2>3 DEF ReadTier, ReadOverride, usage
  <1>3. ASSUME NEW g \in Handlers, CheckUsage(g)
        PROVE  Goal
    <2>1. used'[r] = used[r] /\ UNCHANGED revived
      BY <1>3 DEF CheckUsage, usage
    <2>2. CASE End(g)
      BY <1>d, <1>g, <2>1, <2>2
    <2>3. CASE pc' = [pc EXCEPT ![g] = "write"] /\ UNCHANGED op
      <3>1. CASE op[g].res = r
        <4>1. pc'[g] = "write"
          BY <2>3 DEF TypeOK
        <4> QED
          BY <1>3, <3>1, <4>1, RoomFound DEF Goal
      <3>2. CASE op[g].res # r
        <4>1. op'[g].res # r /\ \A h \in Handlers \ {g} : pc'[h] = pc[h] /\ op'[h] = op[h]
          BY <2>3, <3>2 DEF TypeOK
        <4> QED
          BY <1>d, <1>e, <2>1, <4>1
      <3> QED
        BY <3>1, <3>2
    <2> QED
      BY <1>3, <2>2, <2>3 DEF CheckUsage, Decide, End
  <1>4. ASSUME NEW g \in Handlers, CheckFailsOpen(g)
        PROVE  Goal
    <2>1. used'[r] = used[r] /\ UNCHANGED revived
      BY <1>4 DEF CheckFailsOpen, usage
    <2>2. CASE End(g)
      BY <1>d, <1>g, <2>1, <2>2
    <2>3. CASE pc' = [pc EXCEPT ![g] = "write"] /\ UNCHANGED op
      <3>1. op'[g].res # r /\ \A h \in Handlers \ {g} : pc'[h] = pc[h] /\ op'[h] = op[h]
        BY <1>0, <1>4, <2>3 DEF CheckFailsOpen, TypeOK
      <3> QED
        BY <1>d, <1>e, <2>1, <3>1
    <2> QED
      BY <1>4, <2>2, <2>3 DEF CheckFailsOpen, Decide, End
  <1>5. ASSUME NEW g \in Handlers, SaveRows(g)
        PROVE  Goal
    <2>1. CASE op[g].res = r
      BY <1>5, <2>1, RoomSpent DEF Goal
    <2>2. CASE op[g].res # r
      <3>1. used'[r] = used[r] /\ UNCHANGED revived
        BY <1>0, <1>5, <2>2 DEF SaveRows, TypeOK
      <3> QED
        BY <1>5, <1>d, <1>g, <3>1 DEF SaveRows
    <2> QED
      BY <2>1, <2>2
  <1>6. ASSUME NEW g \in Handlers, Abandon(g) \/ RecordUsage(g) \/ Fault(g)
        PROVE  Goal
    BY <1>6, <1>d, <1>g DEF Abandon, RecordUsage, Fault, usage
  <1>7. ASSUME NEW g \in Handlers, NEW k \in Nat, SendMails(g, k)
        PROVE  Goal
    <2>1. used'[r] = used[r] /\ UNCHANGED revived
      BY <1>0, <1>7 DEF SendMails, Metered, TypeOK
    <2>2. CASE End(g)
      BY <1>d, <1>g, <2>1, <2>2
    <2>3. CASE ~End(g)
      <3>1. pc' = [pc EXCEPT ![g] = "record"] /\ op' = [op EXCEPT ![g] = [op[g] EXCEPT !.sent = k]]
        BY <1>7, <2>3 DEF SendMails
      <3>2. Calm
        BY <1>f, <3>1
      <3> QED
        BY <1>d, <2>1, <3>2
    <2> QED
      BY <2>2, <2>3
  <1>8. ASSUME NEW g \in Handlers, Upload(g)
        PROVE  Goal
    <2>1. used'[r] = used[r] /\ UNCHANGED revived
      BY <1>0, <1>8 DEF Upload, Metered, TypeOK
    <2>2. pc' = [pc EXCEPT ![g] = "logo"]
          /\ op' = [op EXCEPT ![g] = [op[g] EXCEPT !.sent = op[g].amount]]
      BY <1>8 DEF Upload
    <2>3. Calm
      BY <1>f, <2>2
    <2> QED
      BY <1>d, <2>1, <2>3
  <1>9. ASSUME NEW g \in Handlers, SaveLogo(g)
        PROVE  Goal
    BY <1>9, <1>d, <1>h DEF SaveLogo, usage
  <1>10. ASSUME NEW g \in Handlers, SaveEdited(g)
         PROVE  Goal
    <2>1. op[g].res \in Resources
      BY <1>j DEF Op
    <2>2. used'[r] + revived[r] <= used[r] + revived'[r]
      BY <1>0, <1>10, <1>b, <2>1 DEF SaveEdited, TypeOK
    <2>3. pc' = [pc EXCEPT ![g] = "idle"]
      BY <1>10 DEF SaveEdited
    <2>4. \A h \in Handlers \ {g} : op'[h] = op[h] \/ op'[h] = [op[h] EXCEPT !.gone = 0]
      BY <1>10 DEF SaveEdited
    <2>5. \A h \in Handlers \ {g} : op'[h].amount = op[h].amount /\ op'[h].res = op[h].res
      BY <1>j, <2>4 DEF Op
    <2>6. Calm
      BY <2>3, <2>5 DEF Calm, Writing, TypeOK
    <2> QED
      BY <1>c, <2>2, <2>6
  <1>11. ASSUME NEW d \in Deletable, NEW S \in SUBSET Handlers, DeleteRow(d, S)
         PROVE  Goal
    <2>1. d \in Resources
      BY LimitsAssumption DEF Resources
    <2>2. used'[r] + revived[r] <= used[r] + revived'[r]
      BY <1>0, <1>11, <1>b, <2>1 DEF DeleteRow, TypeOK
    <2>3. \A h \in Handlers : op'[h] = op[h] \/ op'[h] = [op[h] EXCEPT !.gone = deletes + 1]
      BY <1>11 DEF DeleteRow
    <2>4. \A h \in Handlers : op'[h].amount = op[h].amount /\ op'[h].res = op[h].res
      BY <1>j, <2>3 DEF Op
    <2>5. Calm
      BY <1>11, <2>4 DEF DeleteRow, Calm, Writing
    <2> QED
      BY <1>c, <2>2, <2>5
  <1>12. ASSUME NewMonth
         PROVE  Goal
    <2>1. used'[r] + revived[r] <= used[r] + revived'[r]
      BY <1>0, <1>12, <1>b DEF NewMonth
    <2> QED
      BY <1>12, <1>c, <1>i, <2>1 DEF NewMonth
  <1>13. ASSUME (\E a \in Operators : Console(a)) \/ (\E t \in Tiers : UpgradePlan(t))
                \/ UNCHANGED vars
         PROVE  Goal
    <2>1. UNCHANGED <<procs, usage>>
      BY <1>13 DEF Console, AskSet, SaveTier, ReadForUpsert, SaveOverride, SaveOverrideConflict,
         AskClear, RemoveOverride, UpgradePlan, vars, procs, usage
    <2> QED
      BY <1>d, <1>i, <2>1 DEF usage
  <1>14. ASSUME NEW g \in Handlers, Step(g)
         PROVE  Goal
    <2>1. CASE \E k \in 0 .. op[g].amount : SendMails(g, k)
      <3>1. PICK k \in 0 .. op[g].amount : SendMails(g, k)
        BY <2>1
      <3>2. k \in Nat
        BY <1>j DEF Op
      <3> QED
        BY <1>7, <3>1, <3>2
    <2> QED
      BY <1>2, <1>3, <1>5, <1>6, <1>8, <1>9, <1>10, <1>14, <2>1 DEF Step
  <1>15. Goal
    BY <1>1, <1>4, <1>6, <1>11, <1>12, <1>13, <1>14 DEF Next
  <1> QED
    BY <1>15 DEF Goal

\* The bound holds initially.
LEMMA LimitsInit == Init => LimitsInv
  <1> SUFFICES ASSUME Init
               PROVE  LimitsInv
    OBVIOUS
  <1>1. TypeOK
    BY TypeInit
  <1>2. PeakCovers
    <2>1. \A r \in Resources : PlanLimit[FirstTier][r] \in Nat
      BY LimitsAssumption
    <2> QED
      BY <2>1 DEF Init, PeakCovers, NoColumns
  <1>3. RequestInv
    <2>1. NoOp.amount = 0 /\ NoOp.res \in Resources /\ \A r \in Resources : Batch[r] \in Nat \ {0}
      BY LimitsAssumption DEF NoOp
    <2> QED
      BY <2>1 DEF Init, RequestInv
  <1>4. ASSUME NEW r \in Counted
        PROVE  \E h \in Handlers : BoundBy(h, r)
    <2>1. PICK h \in Handlers : TRUE
      BY LimitsAssumption
    <2>2. r \in Resources /\ Batch[r] \in Nat /\ peak[r] \in Nat
      BY LimitsAssumption DEF Init, Resources
    <2>3. Writing(r) = {} /\ Writing(r) \ {h} = {}
      BY DEF Init, Writing
    <2>4. Cardinality(Writing(r) \ {h}) = 0 /\ Room(h, r) = 0
      BY <2>3, FS_EmptySet DEF Room
    <2>5. Cardinality(Handlers) - 1 \in Nat
      BY FS_CardinalityType, FS_EmptySet, LimitsAssumption
    <2>6. Overshoot(r) \in Nat
      BY <2>2, <2>5, Times DEF Overshoot
    <2>7. used[r] = 0 /\ revived[r] = 0
      BY <2>2 DEF Init
    <2>8. Batch[r] * Cardinality(Writing(r) \ {h}) = 0
      BY <2>2, <2>4, TimesNext
    <2> DEFINE b == Batch[r] * Cardinality(Writing(r) \ {h})
    <2>9. used[r] + Room(h, r) + b <= peak[r] + Overshoot(r) + revived[r]
      <3> HIDE DEF b
      <3>1. b = 0
        BY <2>8 DEF b
      <3> QED
        BY <2>2, <2>4, <2>6, <2>7, <3>1
    <2> QED
      BY <2>9 DEF BoundBy
  <1> QED
    BY <1>1, <1>2, <1>3, <1>4 DEF LimitsInv, RoomInv

LEMMA LimitsStep == LimitsInv /\ [Next]_vars => LimitsInv'
  BY TypeStep, PeakCoversStep, RequestStep, RoomStep DEF LimitsInv

\* The bound with the last request that passed gives the one without.
LEMMA LimitsImply == LimitsInv => OvershootBounded
  <1> SUFFICES ASSUME LimitsInv, NEW r \in Counted
               PROVE  used[r] <= peak[r] + Overshoot(r) + revived[r]
    BY DEF OvershootBounded
  <1>1. PICK h \in Handlers : BoundBy(h, r)
    BY DEF LimitsInv, RoomInv
  <1>2. r \in Resources /\ Batch[r] \in Nat /\ Cardinality(Handlers) \in Nat
    BY FS_CardinalityType, LimitsAssumption DEF Resources
  <1>3. /\ used[r] \in Nat /\ peak[r] \in Nat /\ revived[r] \in Nat /\ Overshoot(r) \in Int
        /\ op[h].amount \in Nat
    BY <1>2 DEF LimitsInv, TypeOK, Op, Overshoot
  <1>4. Room(h, r) \in Nat
    BY <1>3 DEF Room
  <1>5. Cardinality(Writing(r) \ {h}) \in Nat
    <2>1. Writing(r) \in SUBSET Handlers
      BY DEF Writing
    <2> QED
      BY <2>1, WritersFinite
  <1>6. Batch[r] * Cardinality(Writing(r) \ {h}) \in Nat
    BY <1>2, <1>5, Times
  <1> QED
    BY <1>1, <1>3, <1>4, <1>6 DEF BoundBy

\* However many requests check a limit and then write, whatever operators do to the
\* plan meanwhile and whatever is edited or deleted, a table exceeds the highest limit
\* there has been by one batch for each of the other requests at most.
THEOREM OvershootCorrect == Spec => []OvershootBounded
  BY LimitsInit, LimitsStep, LimitsImply, PTL DEF Spec

-----------------------------------------------------------------------------
(* E-mail and storage.  The room of the ledger is found as that of a table is, but  *)
(* the ledger is behind: what was sent or stored and is not recorded yet is counted *)
(* as a set of units, one for each, so that no sum over requests is needed.         *)

\* Where a request for metered things can be, and what it may have sent.
MeterInv ==
    \A h \in Handlers :
        /\ op[h].sent <= Batch[op[h].res]
        /\ op[h].exempt => op[h].res \in Mails
        /\ pc[h] = "edit" => op[h].res \in Counted
        /\ pc[h] = "logo" => op[h].res \in Files
        /\ pc[h] = "record" => op[h].res \in Metered

\* The checked requests for r that have not sent.
Sending(r) == {h \in Handlers : pc[h] = "write" /\ op[h].res = r /\ ~op[h].exempt}

\* What h sent or stored of r on a check and has not recorded.
Owes(h, r) == pc[h] \in {"logo", "record"} /\ op[h].res = r /\ ~op[h].exempt

Units(r) == {x \in Handlers \X (1 .. Batch[r]) : Owes(x[1], r) /\ x[2] <= op[x[1]].sent}

Unrecorded(r) == Cardinality(Units(r))

\* The ledger is behind by the units and by what faults lost.
LagInv == \A r \in Metered : used[r] <= ledger[r] + Unrecorded(r) + Batch[r] * faults

\* Bytes are never recorded that were not stored.
StoredInv == \A r \in Files : ledger[r] + Unrecorded(r) <= used[r]

MeterRoom(h, r) == IF h \in Sending(r) THEN op[h].amount ELSE 0

MeterBoundBy(h, r) ==
    used[r] + MeterRoom(h, r) + Batch[r] * Cardinality(Sending(r) \ {h})
        <= peak[r] + Overshoot(r) + Batch[r] * faults

MeterRoomInv == \A r \in Metered : \E h \in Handlers : MeterBoundBy(h, r)

\* Only requests of the tenant and the calendar change what a request has in hand.
Others(g) == \A h \in Handlers \ {g} : pc'[h] = pc[h] /\ op'[h] = op[h]

\* What a step can mean for r: nothing, or nothing that matters to the bounds; ...
Calm(r) ==
    /\ used'[r] = used[r] /\ ledger'[r] >= ledger[r] /\ (r \in Files => ledger'[r] = ledger[r])
    /\ peak'[r] >= peak[r] /\ faults' >= faults
    /\ Units(r)' = Units(r)
    /\ \A h \in Sending(r)' : h \in Sending(r) /\ op'[h].amount = op[h].amount

\* ... g passes its check, which a fault may have made for it; ...
Passes(g, r) ==
    /\ pc[g] = "usage" /\ op[g].res = r
    /\ UNCHANGED <<used, ledger, peak, op>>
    /\ Units(r)' = Units(r)
    /\ Sending(r)' \subseteq Sending(r) \cup {g} /\ g \notin Sending(r)
    /\ \/ faults' = faults /\ ~Exceeds(ledger[r], op[g].amount, op[g].limit)
       \/ faults' = faults + 1

\* ... g sends or stores k units; ...
Sends(g, k, r) ==
    /\ g \in Sending(r) /\ k <= op[g].amount
    /\ used'[r] = used[r] + k
    /\ Units(r)' = Units(r) \cup ({g} \X (1 .. k)) /\ Units(r) \cap ({g} \X (1 .. k)) = {}
    /\ UNCHANGED <<ledger, peak, faults>>
    /\ Sending(r)' = Sending(r) \ {g} /\ Others(g)

\* ... g records what it sent; ...
Records(g, r) ==
    /\ Units(r)' = Units(r) \ ({g} \X (1 .. op[g].sent))
    /\ {g} \X (1 .. op[g].sent) \subseteq Units(r)
    /\ ledger'[r] = ledger[r] + op[g].sent
    /\ used'[r] = used[r] /\ UNCHANGED <<peak, faults>>
    /\ Sending(r)' = Sending(r) /\ Others(g) /\ g \notin Sending(r)

\* ... a fault ends g; ...
Loses(g, r) ==
    /\ UNCHANGED <<used, ledger, peak>> /\ faults' = faults + 1
    /\ Units(r)' = Units(r) \ ({g} \X (1 .. Batch[r]))
    /\ Sending(r)' \subseteq Sending(r) \ {g} /\ Others(g)

\* ... or a month begins.
Resets(r) ==
    /\ UNCHANGED <<pc, op, peak, faults>>
    /\ \/ used'[r] = used[r] /\ ledger'[r] = ledger[r]
       \/ r \notin Files /\ used'[r] = 0 /\ ledger'[r] = 0

\* Where requests for metered things can be.
LEMMA MeterStep == TypeOK /\ RequestInv /\ MeterInv /\ [Next]_vars => MeterInv'
  <1> SUFFICES ASSUME TypeOK, RequestInv, MeterInv, [Next]_vars
               PROVE  MeterInv'
    OBVIOUS
  <1> DEFINE OK(g) == /\ op'[g].sent <= Batch[op'[g].res]
                      /\ op'[g].exempt => op'[g].res \in Mails
                      /\ pc'[g] = "edit" => op'[g].res \in Counted
                      /\ pc'[g] = "logo" => op'[g].res \in Files
                      /\ pc'[g] = "record" => op'[g].res \in Metered
  <1>a. \A g \in Handlers : op[g] \in Op /\ op[g].res \in Resources /\ op[g].sent \in Nat
                            /\ op[g].amount \in Nat /\ op[g].amount <= Batch[op[g].res]
    BY DEF TypeOK, Op, RequestInv
  <1>b. /\ NoOp.sent = 0 /\ NoOp.exempt = FALSE /\ NoOp.res \in Resources
        /\ \A r \in Resources : Batch[r] \in Nat \ {0}
    BY LimitsAssumption DEF NoOp
  <1>c. ASSUME NEW g \in Handlers, op'[g].res = op[g].res, op'[g].sent = op[g].sent,
               op'[g].exempt = op[g].exempt,
               pc'[g] = pc[g] \/ pc'[g] \notin {"edit", "logo", "record"}
        PROVE  OK(g)
    BY <1>c DEF MeterInv
  <1>d. ASSUME NEW h \in Handlers, OK(h), Others(h)
        PROVE  \A g \in Handlers : OK(g)
    BY <1>c, <1>d DEF Others
  <1>e. ASSUME NEW h \in Handlers, End(h)
        PROVE  \A g \in Handlers : OK(g)
    <2>1. pc'[h] = "idle" /\ op'[h] = NoOp /\ Others(h)
      BY <1>e DEF End, TypeOK, Others
    <2>2. OK(h)
      BY <1>b, <2>1
    <2> QED
      BY <1>d, <2>1, <2>2
  <1>f. ASSUME NEW h \in Handlers, NEW p, NEW o, pc' = [pc EXCEPT ![h] = p],
               op' = [op EXCEPT ![h] = o]
        PROVE  pc'[h] = p /\ op'[h] = o /\ Others(h)
    BY <1>f DEF TypeOK, Others
  <1>g. ASSUME NEW h \in Handlers, NEW p, p \notin {"edit", "logo", "record"},
               pc' = [pc EXCEPT ![h] = p],
               \A g \in Handlers : /\ op'[g].res = op[g].res /\ op'[g].sent = op[g].sent
                                   /\ op'[g].exempt = op[g].exempt
        PROVE  \A g \in Handlers : OK(g)
    BY <1>c, <1>g DEF TypeOK
  <1>1. ASSUME NEW h \in Handlers, Arrive(h)
        PROVE  \A g \in Handlers : OK(g)
    <2>1. ASSUME NEW r \in Resources, NEW n \in 1 .. Batch[r], Begin(h, r, n)
          PROVE  \A g \in Handlers : OK(g)
      <3>1. pc'[h] = "tier" /\ op'[h] = [NoOp EXCEPT !.res = r, !.amount = n] /\ Others(h)
        BY <1>f, <2>1 DEF Begin
      <3>2. OK(h)
        BY <1>b, <3>1 DEF NoOp
      <3> QED
        BY <1>d, <3>1, <3>2
    <2>2. ASSUME NEW r \in Mails, NEW n \in 1 .. Batch[r], SendExempt(h, r, n)
          PROVE  \A g \in Handlers : OK(g)
      <3>1. pc'[h] = "write" /\ Others(h)
            /\ op'[h] = [NoOp EXCEPT !.res = r, !.amount = n, !.exempt = TRUE]
        BY <1>f, <2>2 DEF SendExempt
      <3>2. OK(h)
        BY <1>b, <3>1 DEF NoOp, Resources, Metered
      <3> QED
        BY <1>d, <3>1, <3>2
    <2>3. ASSUME NEW r \in Deletable, EditRow(h, r)
          PROVE  \A g \in Handlers : OK(g)
      <3>1. pc'[h] = "edit" /\ op'[h] = [NoOp EXCEPT !.res = r] /\ Others(h)
        BY <1>f, <2>3 DEF EditRow
      <3>2. OK(h)
        BY <1>b, <3>1, LimitsAssumption DEF NoOp, Resources
      <3> QED
        BY <1>d, <3>1, <3>2
    <2> QED
      BY <1>1, <2>1, <2>2, <2>3 DEF Arrive
  <1>2. ASSUME NEW h \in Handlers, ReadTier(h) \/ ReadOverride(h)
        PROVE  \A g \in Handlers : OK(g)
    <2>1. PICK l : op' = [op EXCEPT ![h] = [op[h] EXCEPT !.limit = l]]
      BY <1>2 DEF ReadTier, ReadOverride
    <2>2. \A g \in Handlers : /\ op'[g].res = op[g].res /\ op'[g].sent = op[g].sent
                              /\ op'[g].exempt = op[g].exempt
      BY <1>a, <2>1 DEF TypeOK, Op
    <2> QED
      BY <1>2, <1>g, <2>2 DEF ReadTier, ReadOverride
  <1>3. ASSUME NEW h \in Handlers, CheckUsage(h) \/ CheckFailsOpen(h)
        PROVE  \A g \in Handlers : OK(g)
    <2>1. CASE End(h)
      BY <1>e, <2>1
    <2>2. CASE pc' = [pc EXCEPT ![h] = "write"] /\ UNCHANGED op
      BY <1>g, <2>2
    <2> QED
      BY <1>3, <2>1, <2>2 DEF CheckUsage, CheckFailsOpen, Decide, End
  <1>4. ASSUME NEW h \in Handlers,
               SaveRows(h) \/ Abandon(h) \/ RecordUsage(h) \/ Fault(h)
        PROVE  \A g \in Handlers : OK(g)
    BY <1>4, <1>e DEF SaveRows, Abandon, RecordUsage, Fault
  <1>5. ASSUME NEW h \in Handlers, NEW k \in 0 .. op[h].amount, SendMails(h, k)
        PROVE  \A g \in Handlers : OK(g)
    <2>1. CASE End(h)
      BY <1>e, <2>1
    <2>2. CASE ~End(h)
      <3>1. pc'[h] = "record" /\ op'[h] = [op[h] EXCEPT !.sent = k] /\ Others(h)
        BY <1>5, <1>f, <2>2 DEF SendMails
      <3>2. op'[h].res = op[h].res /\ op'[h].sent = k /\ op'[h].exempt = op[h].exempt
        BY <1>a, <3>1 DEF Op
      <3>3. op[h].res \in Mails /\ Batch[op[h].res] \in Nat /\ k <= Batch[op[h].res]
        BY <1>5, <1>a, <1>b DEF SendMails
      <3>4. OK(h)
        BY <3>1, <3>2, <3>3 DEF Metered
      <3> QED
        BY <1>d, <3>1, <3>4
    <2> QED
      BY <2>1, <2>2
  <1>6. ASSUME NEW h \in Handlers, Upload(h)
        PROVE  \A g \in Handlers : OK(g)
    <2>1. pc'[h] = "logo" /\ op'[h] = [op[h] EXCEPT !.sent = op[h].amount] /\ Others(h)
      BY <1>6, <1>f DEF Upload
    <2>2. op'[h].res = op[h].res /\ op'[h].sent = op[h].amount /\ op'[h].exempt = op[h].exempt
      BY <1>a, <2>1 DEF Op
    <2>3. op[h].res \in Files
      BY <1>6 DEF Upload
    <2>4. OK(h)
      BY <1>a, <2>1, <2>2, <2>3 DEF MeterInv
    <2> QED
      BY <1>d, <2>1, <2>4
  <1>7. ASSUME NEW h \in Handlers, SaveLogo(h)
        PROVE  \A g \in Handlers : OK(g)
    <2>1. pc'[h] = "record" /\ pc[h] = "logo" /\ op'[h] = op[h] /\ Others(h)
      BY <1>7 DEF SaveLogo, TypeOK, Others
    <2>2. OK(h)
      BY <2>1 DEF MeterInv, Metered
    <2> QED
      BY <1>d, <2>1, <2>2
  <1>8. ASSUME NEW h \in Handlers, SaveEdited(h)
        PROVE  \A g \in Handlers : OK(g)
    <2>1. \A g \in Handlers \ {h} : op'[g] = op[g] \/ op'[g] = [op[g] EXCEPT !.gone = 0]
      BY <1>8 DEF SaveEdited
    <2>2. \A g \in Handlers \ {h} : OK(g)
      <3>1. \A g \in Handlers \ {h} :
               /\ op'[g].res = op[g].res /\ op'[g].sent = op[g].sent
               /\ op'[g].exempt = op[g].exempt /\ pc'[g] = pc[g]
        BY <1>8, <1>a, <2>1 DEF Op, SaveEdited, TypeOK
      <3> QED
        BY <1>c, <3>1
    <2>3. OK(h)
      <3>1. op'[h] = NoOp /\ pc'[h] = "idle"
        BY <1>8 DEF SaveEdited, TypeOK
      <3> QED
        BY <1>b, <3>1
    <2> QED
      BY <2>2, <2>3
  <1>9. ASSUME NEW d \in Deletable, NEW S \in SUBSET Handlers, DeleteRow(d, S)
        PROVE  \A g \in Handlers : OK(g)
    <2>1. \A g \in Handlers : op'[g] = op[g] \/ op'[g] = [op[g] EXCEPT !.gone = deletes + 1]
      BY <1>9 DEF DeleteRow
    <2>2. \A g \in Handlers :
               /\ op'[g].res = op[g].res /\ op'[g].sent = op[g].sent
               /\ op'[g].exempt = op[g].exempt /\ pc'[g] = pc[g]
      BY <1>9, <1>a, <2>1 DEF Op, DeleteRow
    <2> QED
      BY <1>c, <2>2
  <1>10. ASSUME (\E a \in Operators : Console(a)) \/ (\E t \in Tiers : UpgradePlan(t))
                \/ NewMonth \/ UNCHANGED vars
         PROVE  \A g \in Handlers : OK(g)
    <2>1. UNCHANGED <<pc, op>>
      BY <1>10 DEF Console, AskSet, SaveTier, ReadForUpsert, SaveOverride, SaveOverrideConflict,
         AskClear, RemoveOverride, UpgradePlan, NewMonth, vars, procs
    <2> QED
      BY <1>c, <2>1
  <1>11. \A g \in Handlers : OK(g)
    <2> HIDE DEF OK
    <2> QED
      BY <1>1, <1>2, <1>3, <1>4, <1>5, <1>6, <1>7, <1>8, <1>9, <1>10 DEF Next, Step
  <1> QED
    BY <1>11 DEF MeterInv

\* A request that owes nothing before and after a step of its own moves no unit,
LEMMA UnitsKept ==
  ASSUME NEW r, NEW g \in Handlers, Others(g), ~Owes(g, r), ~Owes(g, r)'
  PROVE  Units(r)' = Units(r)
  BY DEF Units, Owes, Others

\* and neither does a step that changes no request in what matters.
LEMMA UnitsSame ==
  ASSUME NEW r, \A h \in Handlers : /\ Owes(h, r)' = Owes(h, r)
                                    /\ op'[h].sent = op[h].sent
  PROVE  Units(r)' = Units(r)
  BY DEF Units

\* A request that is not about to send after a step of its own adds no sender.
LEMMA SendersKept ==
  ASSUME NEW r, NEW g \in Handlers, Others(g), g \notin Sending(r)'
  PROVE  /\ \A h \in Sending(r)' : h \in Sending(r) /\ h # g /\ op'[h].amount = op[h].amount
         /\ Sending(r)' = Sending(r) \ {g}
  BY DEF Sending, Others

\* What a request owes is a row of units.
LEMMA OwnUnits ==
  ASSUME TypeOK, MeterInv, NEW r \in Resources, NEW g \in Handlers
  PROVE  /\ Owes(g, r) => {g} \X (1 .. op[g].sent) \subseteq Units(r)
         /\ Owes(g, r) => Units(r) \ ({g} \X (1 .. op[g].sent)) = {x \in Units(r) : x[1] # g}
         /\ Units(r) \ ({g} \X (1 .. Batch[r])) = {x \in Units(r) : x[1] # g}
         /\ ~Owes(g, r) => {x \in Units(r) : x[1] # g} = Units(r)
  <1>1. op[g].sent \in Nat /\ op[g].sent <= Batch[op[g].res] /\ Batch[r] \in Nat
    BY LimitsAssumption DEF TypeOK, Op, MeterInv
  <1> QED
    BY <1>1 DEF Units, Owes

\* A request that ends leaves the units of the others.
LEMMA UnitsLeft ==
  ASSUME NEW r, NEW g \in Handlers, Others(g), ~Owes(g, r)'
  PROVE  Units(r)' = {x \in Units(r) : x[1] # g}
  BY DEF Units, Owes, Others

\* Seen from r, every step is one of the moves.
LEMMA Moves ==
  ASSUME TypeOK, RequestInv, MeterInv, [Next]_vars, NEW r \in Metered
  PROVE  \/ Calm(r) \/ Resets(r)
         \/ \E g \in Handlers :
              \/ Passes(g, r) \/ Records(g, r) \/ Loses(g, r)
              \/ \E k \in Nat : Sends(g, k, r)
  <1> DEFINE Goal ==
         \/ Calm(r) \/ Resets(r)
         \/ \E g \in Handlers :
              \/ Passes(g, r) \/ Records(g, r) \/ Loses(g, r)
              \/ \E k \in Nat : Sends(g, k, r)
  <1>0. r \in Resources /\ r \notin Counted /\ Batch[r] \in Nat
    BY LimitsAssumption DEF Resources
  <1>a. \A g \in Handlers : op[g] \in Op /\ op[g].res \in Resources /\ op[g].sent \in Nat
                            /\ op[g].amount \in Nat /\ op[g].amount <= Batch[op[g].res]
    BY DEF TypeOK, Op, RequestInv
  <1>b. peak'[r] >= peak[r] /\ ledger[r] \in Nat /\ faults \in Nat
    BY <1>0, PeakGrows DEF TypeOK
  <1>c. ASSUME NEW h \in Handlers, NEW p, NEW o, pc' = [pc EXCEPT ![h] = p],
               op' = [op EXCEPT ![h] = o]
        PROVE  pc'[h] = p /\ op'[h] = o /\ Others(h)
    BY <1>c DEF TypeOK, Others
  <1>e. ASSUME NEW h \in Handlers, End(h)
        PROVE  Others(h) /\ ~Owes(h, r)' /\ h \notin Sending(r)' /\ pc'[h] = "idle"
    BY <1>e DEF End, TypeOK, Others, Owes, Sending
  <1>f. ASSUME NEW h \in Handlers, Others(h), h \notin Sending(r)', ~Owes(h, r), ~Owes(h, r)',
               used'[r] = used[r], ledger'[r] = ledger[r], faults' = faults
        PROVE  Calm(r)
    <2>1. Units(r)' = Units(r) /\ \A g \in Sending(r)' : g \in Sending(r) /\ op'[g].amount = op[g].amount
      BY <1>f, UnitsKept, SendersKept
    <2> QED
      BY <1>b, <1>f, <2>1 DEF Calm
  <1>g. ASSUME used'[r] = used[r], ledger'[r] = ledger[r], faults' = faults, UNCHANGED pc,
               \A h \in Handlers : /\ op'[h].res = op[h].res /\ op'[h].sent = op[h].sent
                                   /\ op'[h].exempt = op[h].exempt
                                   /\ op'[h].amount = op[h].amount
        PROVE  Calm(r)
    <2>1. Units(r)' = Units(r)
      <3>1. \A h \in Handlers : Owes(h, r)' = Owes(h, r)
        BY <1>g DEF Owes
      <3> QED
        BY <1>g, <3>1, UnitsSame
    <2>2. \A g \in Sending(r)' : g \in Sending(r) /\ op'[g].amount = op[g].amount
      BY <1>g DEF Sending
    <2> QED
      BY <1>b, <1>g, <2>1, <2>2 DEF Calm
  <1> HIDE DEF Goal
  <1>1. ASSUME NEW h \in Handlers, Arrive(h)
        PROVE  Goal
    <2>1. /\ Others(h) /\ h \notin Sending(r)' /\ ~Owes(h, r) /\ ~Owes(h, r)'
      <3>1. ASSUME NEW q \in Resources, NEW n \in 1 .. Batch[q], Begin(h, q, n)
            PROVE  Others(h) /\ pc'[h] = "tier" /\ pc[h] = "idle"
        BY <1>c, <3>1 DEF Begin
      <3>2. ASSUME NEW q \in Mails, NEW n \in 1 .. Batch[q], SendExempt(h, q, n)
            PROVE  Others(h) /\ pc'[h] = "write" /\ op'[h].exempt = TRUE /\ pc[h] = "idle"
        <4>1. op'[h] = [NoOp EXCEPT !.res = q, !.amount = n, !.exempt = TRUE]
          BY <1>c, <3>2 DEF SendExempt
        <4> QED
          BY <1>c, <3>2, <4>1 DEF SendExempt, NoOp
      <3>3. ASSUME NEW q \in Deletable, EditRow(h, q)
            PROVE  Others(h) /\ pc'[h] = "edit" /\ pc[h] = "idle"
        BY <1>c, <3>3 DEF EditRow
      <3> QED
        BY <1>1, <3>1, <3>2, <3>3 DEF Arrive, Owes, Sending
    <2>2. used' = used /\ ledger' = ledger /\ faults' = faults
      BY <1>1 DEF Arrive, Begin, SendExempt, EditRow, usage, bounds
    <2> QED
      BY <1>f, <2>1, <2>2 DEF Goal
  <1>2. ASSUME NEW h \in Handlers, ReadTier(h) \/ ReadOverride(h)
        PROVE  Goal
    <2>1. /\ pc[h] \in {"tier", "override"} /\ pc'[h] \in {"override", "usage"} /\ Others(h)
      BY <1>2 DEF ReadTier, ReadOverride, TypeOK, Others
    <2>2. used' = used /\ ledger' = ledger /\ faults' = faults
      BY <1>2 DEF ReadTier, ReadOverride, usage, bounds
    <2>3. h \notin Sending(r)' /\ ~Owes(h, r) /\ ~Owes(h, r)'
      BY <2>1 DEF Sending, Owes
    <2> QED
      BY <1>f, <2>1, <2>2, <2>3 DEF Goal
  <1>3. ASSUME NEW h \in Handlers, CheckUsage(h)
        PROVE  Goal
    <2>0. pc[h] = "usage" /\ UNCHANGED <<used, ledger, peak, faults>> /\ ~Owes(h, r)
      BY <1>3 DEF CheckUsage, Decide, usage, bounds, account, Owes
    <2>1. CASE End(h)
      BY <1>e, <1>f, <2>0, <2>1 DEF Goal
    <2>2. CASE ~End(h)
      <3>1. /\ pc' = [pc EXCEPT ![h] = "write"] /\ UNCHANGED op
            /\ ~Exceeds(Reading(op[h].res), op[h].amount, op[h].limit)
        BY <1>3, <2>2 DEF CheckUsage, Decide, End
      <3>2. Others(h) /\ ~Owes(h, r)' /\ pc'[h] = "write"
        BY <3>1 DEF Others, Owes, TypeOK
      <3>3. CASE op[h].res = r
        <4>1. ~Exceeds(ledger[r], op[h].amount, op[h].limit)
          BY <3>1, <3>3 DEF Reading
        <4>2. Sending(r)' \subseteq Sending(r) \cup {h} /\ h \notin Sending(r)
          BY <2>0, <3>1, <3>2 DEF Sending, Others
        <4>3. Passes(h, r)
          BY <2>0, <3>1, <3>2, <3>3, <4>1, <4>2, UnitsKept DEF Passes
        <4> QED
          BY <4>3 DEF Goal
      <3>4. CASE op[h].res # r
        <4>1. h \notin Sending(r)'
          BY <3>1, <3>4 DEF Sending
        <4> QED
          BY <1>f, <2>0, <3>2, <4>1 DEF Goal
      <3> QED
        BY <3>3, <3>4
    <2> QED
      BY <2>1, <2>2
  <1>4. ASSUME NEW h \in Handlers, CheckFailsOpen(h)
        PROVE  Goal
    <2>0. /\ pc[h] = "usage" /\ UNCHANGED <<used, ledger, peak>> /\ faults' = faults + 1
          /\ ~Owes(h, r)
      BY <1>4 DEF CheckFailsOpen, Decide, usage, account, Owes
    <2>a. h \notin Sending(r)
      BY <2>0 DEF Sending
    <2>1. Others(h) /\ ~Owes(h, r)' /\ (op' = op \/ h \notin Sending(r)')
      <3>1. CASE End(h)
        BY <1>e, <3>1
      <3>2. CASE ~End(h)
        <4>1. pc' = [pc EXCEPT ![h] = "write"] /\ UNCHANGED op
          BY <1>4, <3>2 DEF CheckFailsOpen, Decide, End
        <4> QED
          BY <4>1 DEF Others, Owes, TypeOK
      <3> QED
        BY <3>1, <3>2
    <2>2. Units(r)' = Units(r)
      BY <2>0, <2>1, UnitsKept
    <2>3. CASE h \in Sending(r)'
      <3>1. op' = op /\ op[h].res = r /\ Sending(r)' \subseteq Sending(r) \cup {h}
        BY <2>1, <2>3 DEF Sending, Others
      <3>2. Passes(h, r)
        BY <2>0, <2>2, <2>a, <3>1 DEF Passes
      <3> QED
        BY <3>2 DEF Goal
    <2>4. CASE h \notin Sending(r)'
      <3>1. \A g \in Sending(r)' : g \in Sending(r) /\ op'[g].amount = op[g].amount
        BY <2>1, <2>4, SendersKept
      <3>2. Calm(r)
        BY <1>b, <2>0, <2>2, <3>1 DEF Calm
      <3> QED
        BY <3>2 DEF Goal
    <2> QED
      BY <2>3, <2>4
  <1>5. ASSUME NEW h \in Handlers, SaveRows(h) \/ Abandon(h)
        PROVE  Goal
    <2>1. End(h) /\ ~Owes(h, r) /\ faults' = faults /\ ledger' = ledger
      BY <1>5 DEF SaveRows, Abandon, Owes, bounds, usage
    <2>2. used'[r] = used[r]
      BY <1>0, <1>5, <1>a DEF SaveRows, Abandon, usage, TypeOK
    <2> QED
      BY <1>e, <1>f, <2>1, <2>2 DEF Goal
  <1>6. ASSUME NEW h \in Handlers, SaveEdited(h)
        PROVE  Goal
    <2>1. op[h].res # r
      BY <1>6, <1>0 DEF SaveEdited, MeterInv
    <2>2. used'[r] = used[r] /\ ledger' = ledger /\ faults' = faults
      BY <1>0, <1>6, <1>a, <2>1 DEF SaveEdited, bounds, TypeOK
    <2>3. \A g \in Handlers \ {h} : op'[g] = op[g] \/ op'[g] = [op[g] EXCEPT !.gone = 0]
      BY <1>6 DEF SaveEdited
    <2>4. \A g \in Handlers \ {h} :
               /\ op'[g].res = op[g].res /\ op'[g].sent = op[g].sent
               /\ op'[g].exempt = op[g].exempt /\ op'[g].amount = op[g].amount
      BY <1>a, <2>3 DEF Op
    <2>5. pc' = [pc EXCEPT ![h] = "idle"] /\ pc[h] = "edit" /\ pc'[h] = "idle"
      BY <1>6 DEF SaveEdited, TypeOK
    <2>6. Units(r)' = Units(r) /\ \A g \in Sending(r)' : g \in Sending(r) /\ op'[g].amount = op[g].amount
      BY <2>4, <2>5 DEF Units, Owes, Sending, TypeOK
    <2>7. Calm(r)
      BY <1>b, <2>2, <2>6 DEF Calm
    <2> QED
      BY <2>7 DEF Goal
  <1>7. ASSUME NEW h \in Handlers, NEW k \in Nat, k <= op[h].amount, SendMails(h, k)
        PROVE  Goal
    <2>0. /\ pc[h] = "write" /\ UNCHANGED <<ledger, peak, faults>> /\ ~Owes(h, r)
          /\ op[h].res \in Resources
      BY <1>7, <1>a DEF SendMails, account, bounds, Owes
    <2>1. Others(h) /\ h \notin Sending(r)'
          /\ (pc'[h] = "idle" \/ (pc'[h] = "record" /\ op'[h] = [op[h] EXCEPT !.sent = k]))
          /\ (k # 0 => pc'[h] = "record")
      <3>1. CASE k = 0
        BY <1>7, <1>e, <3>1 DEF SendMails
      <3>2. CASE k # 0
        <4>1. pc'[h] = "record" /\ op'[h] = [op[h] EXCEPT !.sent = k] /\ Others(h)
          BY <1>7, <1>c, <3>2 DEF SendMails
        <4> QED
          BY <3>2, <4>1 DEF Sending
      <3> QED
        BY <3>1, <3>2
    <2>2. CASE h \in Sending(r)
      <3>1. op[h].res = r /\ ~op[h].exempt
        BY <2>2 DEF Sending
      <3>2. used'[r] = used[r] + k
        BY <1>0, <1>7, <3>1 DEF SendMails, TypeOK
      <3>3. Sending(r)' = Sending(r) \ {h}
        BY <2>1, SendersKept
      <3>4. Units(r) \cap ({h} \X (1 .. k)) = {}
        BY <2>0 DEF Units
      <3>5. Units(r)' = Units(r) \cup ({h} \X (1 .. k))
        <4>1. CASE k = 0
          <5>1. ~Owes(h, r)'
            <6>1. pc'[h] = "idle"
              BY <1>7, <1>e, <4>1 DEF SendMails
            <6> QED
              BY <6>1 DEF Owes
          <5>2. {h} \X (1 .. k) = {}
            BY <4>1
          <5> QED
            BY <2>0, <2>1, <5>1, <5>2, UnitsKept
        <4>2. CASE k # 0
          <5>1. op'[h].res = r /\ op'[h].sent = k /\ ~op'[h].exempt /\ pc'[h] = "record"
            BY <1>a, <2>1, <3>1, <4>2 DEF Op
          <5>2. k <= Batch[r]
            BY <1>0, <1>7, <1>a, <3>1
          <5>3. Owes(h, r)'
            BY <5>1 DEF Owes
          <5>4. \A g \in Handlers \ {h} : Owes(g, r)' = Owes(g, r) /\ op'[g].sent = op[g].sent
            BY <2>1 DEF Owes, Others
          <5> QED
            BY <1>0, <2>0, <5>1, <5>2, <5>3, <5>4 DEF Units
        <4> QED
          BY <4>1, <4>2
      <3>6. Sends(h, k, r)
        BY <1>7, <2>0, <2>1, <2>2, <3>2, <3>3, <3>4, <3>5 DEF Sends
      <3> QED
        BY <3>6 DEF Goal
    <2>3. CASE h \notin Sending(r)
      <3>1. op[h].res # r \/ op[h].exempt
        BY <2>0, <2>3 DEF Sending
      <3>2. used'[r] = used[r]
        BY <1>0, <1>7, <2>0, <3>1 DEF SendMails, TypeOK
      <3>3. ~Owes(h, r)'
        <4>1. CASE pc'[h] = "idle"
          BY <4>1 DEF Owes
        <4>2. CASE pc'[h] = "record" /\ op'[h] = [op[h] EXCEPT !.sent = k]
          <5>1. op'[h].res = op[h].res /\ op'[h].exempt = op[h].exempt
            BY <1>a, <4>2 DEF Op
          <5> QED
            BY <3>1, <5>1 DEF Owes
        <4> QED
          BY <2>1, <4>1, <4>2
      <3> QED
        BY <1>f, <2>0, <2>1, <3>2, <3>3 DEF Goal
    <2> QED
      BY <2>2, <2>3
  <1>8. ASSUME NEW h \in Handlers, Upload(h)
        PROVE  Goal
    <2>0. /\ pc[h] = "write" /\ UNCHANGED <<ledger, peak, faults>> /\ ~Owes(h, r)
          /\ op[h].res \in Files
      BY <1>8 DEF Upload, account, bounds, Owes
    <2>1. /\ Others(h) /\ h \notin Sending(r)' /\ pc'[h] = "logo"
          /\ op'[h] = [op[h] EXCEPT !.sent = op[h].amount]
      <3>1. /\ Others(h) /\ pc'[h] = "logo" /\ op'[h] = [op[h] EXCEPT !.sent = op[h].amount]
        BY <1>8, <1>c DEF Upload
      <3> QED
        BY <3>1 DEF Sending
    <2>2. /\ op'[h].res = op[h].res /\ op'[h].exempt = op[h].exempt
          /\ op'[h].sent = op[h].amount
      BY <1>a, <2>1 DEF Op
    <2>3. ~op[h].exempt
      BY <2>0, LimitsAssumption DEF MeterInv
    <2>4. CASE op[h].res = r
      <3>1. h \in Sending(r)
        BY <2>0, <2>3, <2>4 DEF Sending
      <3>2. used'[r] = used[r] + op[h].amount
        BY <1>0, <1>8, <2>4 DEF Upload, TypeOK
      <3>3. Sending(r)' = Sending(r) \ {h}
        BY <2>1, SendersKept
      <3>4. Units(r) \cap ({h} \X (1 .. op[h].amount)) = {}
        BY <2>0 DEF Units
      <3>5. Owes(h, r)'
        BY <2>1, <2>2, <2>3, <2>4 DEF Owes
      <3>6. Units(r)' = Units(r) \cup ({h} \X (1 .. op[h].amount))
        <4>1. \A g \in Handlers \ {h} : Owes(g, r)' = Owes(g, r) /\ op'[g].sent = op[g].sent
          BY <2>1 DEF Owes, Others
        <4>2. op[h].amount \in Nat /\ op[h].amount <= Batch[r]
          BY <1>a, <2>4
        <4> QED
          BY <1>0, <2>0, <2>2, <3>5, <4>1, <4>2 DEF Units
      <3>7. Sends(h, op[h].amount, r)
        BY <1>a, <2>0, <2>1, <3>1, <3>2, <3>3, <3>4, <3>6 DEF Sends
      <3> QED
        BY <1>a, <3>7 DEF Goal
    <2>5. CASE op[h].res # r
      <3>1. used'[r] = used[r] /\ ~Owes(h, r)'
        BY <1>0, <1>8, <2>2, <2>5 DEF Upload, TypeOK, Owes
      <3> QED
        BY <1>f, <2>0, <2>1, <3>1 DEF Goal
    <2> QED
      BY <2>4, <2>5
  <1>9. ASSUME NEW h \in Handlers, SaveLogo(h)
        PROVE  Goal
    <2>1. /\ pc[h] = "logo" /\ pc'[h] = "record" /\ Others(h) /\ op' = op
          /\ UNCHANGED <<used, ledger, faults>>
      BY <1>9 DEF SaveLogo, usage, bounds, TypeOK, Others
    <2>2. \A g \in Handlers : Owes(g, r)' = Owes(g, r)
      BY <2>1 DEF Owes, Others
    <2>3. Units(r)' = Units(r)
      BY <2>1, <2>2, UnitsSame
    <2>4. h \notin Sending(r)'
      BY <2>1 DEF Sending
    <2>5. Calm(r)
      BY <1>b, <2>1, <2>3, <2>4, SendersKept DEF Calm
    <2> QED
      BY <2>5 DEF Goal
  <1>10. ASSUME NEW h \in Handlers, RecordUsage(h)
        PROVE  Goal
    <2>1. /\ pc[h] = "record" /\ Others(h) /\ ~Owes(h, r)' /\ h \notin Sending(r)'
          /\ UNCHANGED <<used, peak, faults>> /\ h \notin Sending(r)
          /\ op[h].res \in Resources
      <3>1. End(h) /\ pc[h] = "record" /\ UNCHANGED <<used, peak, faults>>
        BY <1>10 DEF RecordUsage, account, bounds
      <3>2. h \notin Sending(r)
        BY <3>1 DEF Sending
      <3> QED
        BY <1>a, <1>e, <3>1, <3>2
    <2>2. Sending(r)' = Sending(r)
      <3>1. Sending(r)' = Sending(r) \ {h}
        BY <2>1, SendersKept
      <3> QED
        BY <2>1, <3>1
    <2>3. CASE Owes(h, r)
      <3>1. ledger'[r] = ledger[r] + op[h].sent
        BY <1>0, <1>10, <2>3 DEF RecordUsage, Recorded, Owes, TypeOK
      <3>2. Units(r)' = Units(r) \ ({h} \X (1 .. op[h].sent))
            /\ {h} \X (1 .. op[h].sent) \subseteq Units(r)
        BY <1>0, <2>1, <2>3, OwnUnits, UnitsLeft
      <3>3. Records(h, r)
        BY <2>1, <2>2, <3>1, <3>2 DEF Records
      <3> QED
        BY <3>3 DEF Goal
    <2>4. CASE ~Owes(h, r)
      <3>1. ledger'[r] >= ledger[r]
        BY <1>10, <1>a, <1>b DEF RecordUsage, Recorded, TypeOK
      <3>2. r \in Files => ledger'[r] = ledger[r]
        <4> SUFFICES ASSUME r \in Files
                     PROVE  ledger'[r] = ledger[r]
          OBVIOUS
        <4>1. op[h].res # r
          BY <2>1, <2>4, LimitsAssumption DEF Owes, MeterInv
        <4> QED
          BY <1>10, <1>0, <4>1 DEF RecordUsage, TypeOK
      <3>3. Units(r)' = Units(r)
        BY <2>1, <2>4, UnitsKept
      <3>4. Calm(r)
        BY <1>b, <2>1, <3>1, <3>2, <3>3, SendersKept DEF Calm
      <3> QED
        BY <3>4 DEF Goal
    <2> QED
      BY <2>3, <2>4
  <1>11. ASSUME NEW h \in Handlers, Fault(h)
        PROVE  Goal
    <2>1. /\ Others(h) /\ ~Owes(h, r)' /\ h \notin Sending(r)'
          /\ UNCHANGED <<used, ledger, peak>> /\ faults' = faults + 1
      BY <1>11, <1>e DEF Fault, account, usage
    <2>2. Units(r)' = Units(r) \ ({h} \X (1 .. Batch[r]))
      BY <1>0, <2>1, OwnUnits, UnitsLeft
    <2>3. Loses(h, r)
      BY <2>1, <2>2, SendersKept DEF Loses
    <2> QED
      BY <2>3 DEF Goal
  <1>12. ASSUME NEW d \in Deletable, NEW S \in SUBSET Handlers, DeleteRow(d, S)
         PROVE  Goal
    <2>1. used'[r] = used[r] /\ ledger' = ledger /\ faults' = faults /\ UNCHANGED pc
      BY <1>0, <1>12, LimitsAssumption DEF DeleteRow, TypeOK
    <2>2. \A g \in Handlers : op'[g] = op[g] \/ op'[g] = [op[g] EXCEPT !.gone = deletes + 1]
      BY <1>12 DEF DeleteRow
    <2>3. \A g \in Handlers :
               /\ op'[g].res = op[g].res /\ op'[g].sent = op[g].sent
               /\ op'[g].exempt = op[g].exempt /\ op'[g].amount = op[g].amount
      BY <1>a, <2>2 DEF Op
    <2> QED
      BY <1>g, <2>1, <2>3 DEF Goal
  <1>13. ASSUME (\E a \in Operators : Console(a)) \/ (\E t \in Tiers : UpgradePlan(t))
                \/ UNCHANGED vars
         PROVE  Goal
    <2>1. UNCHANGED <<pc, op, used, ledger, faults>>
      BY <1>13 DEF Console, AskSet, SaveTier, ReadForUpsert, SaveOverride, SaveOverrideConflict,
         AskClear, RemoveOverride, UpgradePlan, vars, procs, usage, bounds
    <2> QED
      BY <1>g, <2>1 DEF Goal
  <1>14. ASSUME NewMonth
         PROVE  Goal
    <2>1. UNCHANGED <<pc, op, peak, faults>>
      BY <1>14 DEF NewMonth, procs, account
    <2>2. \/ used'[r] = used[r] /\ ledger'[r] = ledger[r]
          \/ r \notin Files /\ used'[r] = 0 /\ ledger'[r] = 0
      BY <1>0, <1>14, LimitsAssumption DEF NewMonth
    <2>3. Resets(r)
      BY <2>1, <2>2 DEF Resets
    <2> QED
      BY <2>3 DEF Goal
  <1>15. ASSUME NEW g \in Handlers, Step(g)
         PROVE  Goal
    <2>1. CASE \E k \in 0 .. op[g].amount : SendMails(g, k)
      <3>1. PICK k \in 0 .. op[g].amount : SendMails(g, k)
        BY <2>1
      <3>2. k \in Nat /\ k <= op[g].amount
        BY <1>a
      <3> QED
        BY <1>7, <3>1, <3>2
    <2> QED
      BY <1>2, <1>3, <1>5, <1>6, <1>8, <1>9, <1>10, <1>15, <2>1 DEF Step
  <1>16. Goal
    BY <1>1, <1>4, <1>11, <1>12, <1>13, <1>14, <1>15 DEF Next
  <1> QED
    BY <1>16 DEF Goal

-----------------------------------------------------------------------------
(* Counting units. *)

\* The units of one request are as many as it sent; sets of units are finite.
LEMMA UnitsFinite ==
  ASSUME TypeOK, NEW r \in Resources
  PROVE  /\ IsFiniteSet(Units(r)) /\ Unrecorded(r) \in Nat
         /\ \A g \in Handlers, k \in Nat :
              IsFiniteSet({g} \X (1 .. k)) /\ Cardinality({g} \X (1 .. k)) = k
  <1>1. Batch[r] \in Nat
    BY LimitsAssumption
  <1>2. IsFiniteSet(Handlers \X (1 .. Batch[r]))
    <2>1. IsFiniteSet(1 .. Batch[r]) /\ IsFiniteSet(Handlers)
      BY <1>1, FS_Interval, LimitsAssumption
    <2> QED
      BY <2>1, FS_Product
  <1>3. IsFiniteSet(Units(r))
    <2>1. Units(r) \in SUBSET (Handlers \X (1 .. Batch[r]))
      BY DEF Units
    <2> QED
      BY <1>2, <2>1, FS_Subset
  <1>4. Unrecorded(r) \in Nat
    BY <1>3, FS_CardinalityType DEF Unrecorded
  <1>5. ASSUME NEW g \in Handlers, NEW k \in Nat
        PROVE  IsFiniteSet({g} \X (1 .. k)) /\ Cardinality({g} \X (1 .. k)) = k
    <2>1. IsFiniteSet({g}) /\ Cardinality({g}) = 1
      BY FS_Singleton
    <2>2. IsFiniteSet(1 .. k) /\ Cardinality(1 .. k) = k
      BY FS_Interval
    <2>3. /\ IsFiniteSet({g} \X (1 .. k))
          /\ Cardinality({g} \X (1 .. k)) = Cardinality({g}) * Cardinality(1 .. k)
      BY <2>1, <2>2, FS_Product
    <2> QED
      BY <2>1, <2>2, <2>3
  <1> QED
    BY <1>3, <1>4, <1>5

\* Adding units that were not there, and taking units away.
LEMMA UnitsAdded ==
  ASSUME NEW S, IsFiniteSet(S), NEW T, IsFiniteSet(T), S \cap T = {}
  PROVE  Cardinality(S \cup T) = Cardinality(S) + Cardinality(T)
  <1>1. Cardinality(S) \in Nat /\ Cardinality(T) \in Nat
    BY FS_CardinalityType
  <1>2. Cardinality(S \cup T) = Cardinality(S) + Cardinality(T) - Cardinality(S \cap T)
    BY FS_Union
  <1>3. Cardinality(S \cap T) = 0
    BY FS_EmptySet
  <1> QED
    BY <1>1, <1>2, <1>3

LEMMA UnitsTaken ==
  ASSUME NEW S, IsFiniteSet(S), NEW T, IsFiniteSet(T)
  PROVE  /\ Cardinality(S \ T) \in Nat
         /\ Cardinality(S \ T) >= Cardinality(S) - Cardinality(T)
         /\ Cardinality(S \ T) <= Cardinality(S)
         /\ T \subseteq S => Cardinality(S \ T) = Cardinality(S) - Cardinality(T)
  <1>0. Cardinality(S) \in Nat /\ Cardinality(T) \in Nat
    BY FS_CardinalityType
  <1>1. /\ S \ T \in SUBSET S /\ S \cap T \in SUBSET T
        /\ (S \ T) \cup (S \cap T) = S /\ (S \ T) \cap (S \cap T) = {}
    OBVIOUS
  <1>2. /\ IsFiniteSet(S \ T) /\ Cardinality(S \ T) <= Cardinality(S)
        /\ IsFiniteSet(S \cap T) /\ Cardinality(S \cap T) <= Cardinality(T)
    BY <1>1, FS_Subset
  <1>3. Cardinality(S \ T) \in Nat /\ Cardinality(S \cap T) \in Nat
    BY <1>2, FS_CardinalityType
  <1>4. Cardinality(S) = Cardinality(S \ T) + Cardinality(S \cap T)
    <2>1. Cardinality((S \ T) \cup (S \cap T)) = Cardinality(S \ T) + Cardinality(S \cap T)
      BY <1>1, <1>2, UnitsAdded
    <2> QED
      BY <1>1, <2>1
  <1>5. T \subseteq S => Cardinality(S \cap T) = Cardinality(T)
    <2>1. T \subseteq S => S \cap T = T
      OBVIOUS
    <2> QED
      BY <2>1
  <1> DEFINE s == Cardinality(S)
             t == Cardinality(T)
             d == Cardinality(S \ T)
             i == Cardinality(S \cap T)
  <1> HIDE DEF s, t, d, i
  <1>6. /\ s \in Nat /\ t \in Nat /\ d \in Nat /\ i \in Nat /\ i <= t /\ s = d + i
        /\ T \subseteq S => i = t
    BY <1>0, <1>2, <1>3, <1>4, <1>5 DEF s, t, d, i
  <1>7. d \in Nat /\ d >= s - t /\ d <= s /\ (T \subseteq S => d = s - t)
    BY <1>6
  <1> QED
    BY <1>7 DEF s, t, d

\* What each move does to the number of units.
LEMMA UnitsCounted ==
  ASSUME TypeOK, TypeOK', MeterInv, NEW r \in Metered
  PROVE  /\ Unrecorded(r) \in Nat /\ Unrecorded(r)' \in Nat /\ r \in Resources
         /\ Units(r)' = Units(r) => Unrecorded(r)' = Unrecorded(r)
         /\ \A g \in Handlers, k \in Nat :
              Sends(g, k, r) => Unrecorded(r)' = Unrecorded(r) + k
         /\ \A g \in Handlers :
              /\ Records(g, r) => Unrecorded(r)' = Unrecorded(r) - op[g].sent
              /\ Loses(g, r) => /\ Unrecorded(r)' >= Unrecorded(r) - Batch[r]
                                /\ Unrecorded(r)' <= Unrecorded(r)
  <1>0. r \in Resources /\ Batch[r] \in Nat
    BY LimitsAssumption DEF Resources
  <1>1. IsFiniteSet(Units(r)) /\ Unrecorded(r) \in Nat
    BY <1>0, UnitsFinite
  <1>2. Unrecorded(r)' \in Nat
    <2>1. PICK S : S = Units(r)'
      OBVIOUS
    <2>2. IsFiniteSet(S)
      <3>1. S \in SUBSET (Handlers \X (1 .. Batch[r]))
        BY <2>1 DEF Units
      <3>2. IsFiniteSet(Handlers \X (1 .. Batch[r]))
        <4>1. IsFiniteSet(1 .. Batch[r]) /\ IsFiniteSet(Handlers)
          BY <1>0, FS_Interval, LimitsAssumption
        <4> QED
          BY <4>1, FS_Product
      <3> QED
        BY <3>1, <3>2, FS_Subset
    <2> QED
      BY <2>1, <2>2, FS_CardinalityType DEF Unrecorded
  <1>3. ASSUME NEW g \in Handlers, NEW k \in Nat
        PROVE  IsFiniteSet({g} \X (1 .. k)) /\ Cardinality({g} \X (1 .. k)) = k
    BY <1>0, UnitsFinite
  <1>4. ASSUME NEW g \in Handlers, NEW k \in Nat, Sends(g, k, r)
        PROVE  Unrecorded(r)' = Unrecorded(r) + k
    <2>1. PICK T : T = {g} \X (1 .. k)
      OBVIOUS
    <2>2. Units(r)' = Units(r) \cup T /\ Units(r) \cap T = {}
      BY <1>4, <2>1 DEF Sends
    <2>3. IsFiniteSet(T) /\ Cardinality(T) = k
      BY <1>3, <2>1
    <2>4. Cardinality(Units(r) \cup T) = Cardinality(Units(r)) + k
      BY <1>1, <2>2, <2>3, UnitsAdded
    <2> QED
      BY <2>2, <2>4 DEF Unrecorded
  <1>5. ASSUME NEW g \in Handlers, Records(g, r)
        PROVE  Unrecorded(r)' = Unrecorded(r) - op[g].sent
    <2>1. PICK k \in Nat : k = op[g].sent
      BY DEF TypeOK, Op
    <2>2. PICK T : T = {g} \X (1 .. k)
      OBVIOUS
    <2>3. Units(r)' = Units(r) \ T /\ T \subseteq Units(r)
      BY <1>5, <2>1, <2>2 DEF Records
    <2>4. IsFiniteSet(T) /\ Cardinality(T) = k
      BY <1>3, <2>2
    <2>5. Cardinality(Units(r) \ T) = Cardinality(Units(r)) - k
      BY <1>1, <2>3, <2>4, UnitsTaken
    <2> QED
      BY <2>1, <2>3, <2>5 DEF Unrecorded
  <1>6. ASSUME NEW g \in Handlers, Loses(g, r)
        PROVE  /\ Unrecorded(r)' >= Unrecorded(r) - Batch[r]
               /\ Unrecorded(r)' <= Unrecorded(r)
    <2>1. Units(r)' = Units(r) \ ({g} \X (1 .. Batch[r]))
      BY <1>6 DEF Loses
    <2>2. IsFiniteSet({g} \X (1 .. Batch[r])) /\ Cardinality({g} \X (1 .. Batch[r])) = Batch[r]
      BY <1>0, <1>3
    <2>3. /\ Cardinality(Units(r) \ ({g} \X (1 .. Batch[r]))) >= Cardinality(Units(r)) - Batch[r]
          /\ Cardinality(Units(r) \ ({g} \X (1 .. Batch[r]))) <= Cardinality(Units(r))
      BY <1>1, <2>2, UnitsTaken
    <2> QED
      BY <2>1, <2>3 DEF Unrecorded
  <1>7. Units(r)' = Units(r) => Unrecorded(r)' = Unrecorded(r)
    BY DEF Unrecorded
  <1> QED
    BY <1>0, <1>1, <1>2, <1>4, <1>5, <1>6, <1>7

\* A month leaves what is in flight as it is.
LEMMA ResetsKeep ==
  ASSUME NEW r, Resets(r)
  PROVE  Units(r)' = Units(r) /\ Sending(r)' = Sending(r)
  BY DEF Resets, Units, Owes, Sending

\* The ledger is behind by what is in flight and by what faults lost,
LEMMA LagStep ==
  ASSUME TypeOK, TypeOK', RequestInv, MeterInv, LagInv, StoredInv, [Next]_vars
  PROVE  LagInv' /\ StoredInv'
  <1> SUFFICES ASSUME NEW r \in Metered
               PROVE  /\ used'[r] <= ledger'[r] + Unrecorded(r)' + Batch[r] * faults'
                      /\ r \in Files => ledger'[r] + Unrecorded(r)' <= used'[r]
    BY DEF LagInv, StoredInv, Metered
  <1>0. r \in Resources /\ Batch[r] \in Nat /\ Unrecorded(r) \in Nat /\ Unrecorded(r)' \in Nat
    BY UnitsCounted, LimitsAssumption
  <1>1. /\ used[r] \in Nat /\ used'[r] \in Nat /\ ledger[r] \in Nat /\ ledger'[r] \in Nat
        /\ faults \in Nat /\ faults' \in Nat
    BY <1>0 DEF TypeOK
  <1> DEFINE u == Unrecorded(r)
             v == Unrecorded(r)'
             b == Batch[r] * faults
             c == Batch[r] * faults'
  <1>2. b \in Nat /\ c \in Nat
    BY <1>0, <1>1, Times
  <1>3. faults' >= faults => c >= b
    BY <1>0, <1>1, Times
  <1>4. faults' = faults + 1 => c = b + Batch[r]
    BY <1>0, <1>1, TimesNext
  <1>5. /\ used[r] <= ledger[r] + u + b
        /\ r \in Files => ledger[r] + u <= used[r]
    BY DEF LagInv, StoredInv
  <1>6. u \in Nat /\ v \in Nat
    BY <1>0
  <1>7. Units(r)' = Units(r) => v = u
    BY UnitsCounted
  <1>8. \A g \in Handlers, k \in Nat : Sends(g, k, r) => v = u + k
    BY UnitsCounted
  <1>9. \A g \in Handlers : /\ Records(g, r) => v = u - op[g].sent
                            /\ Loses(g, r) => v >= u - Batch[r] /\ v <= u
    BY UnitsCounted
  <1>10. \A g \in Handlers : op[g].sent \in Nat
    BY DEF TypeOK, Op
  <1> HIDE DEF u, v, b, c
  <1> DEFINE Goal == used'[r] <= ledger'[r] + v + c /\ (r \in Files => ledger'[r] + v <= used'[r])
  <1>11. ASSUME Calm(r)
         PROVE  Goal
    <2>1. /\ used'[r] = used[r] /\ ledger'[r] >= ledger[r] /\ (r \in Files => ledger'[r] = ledger[r])
          /\ v = u /\ c >= b
      BY <1>3, <1>7, <1>11 DEF Calm
    <2> QED
      BY <1>1, <1>2, <1>5, <1>6, <2>1
  <1>12. ASSUME Resets(r)
         PROVE  Goal
    <2>1. /\ v = u /\ c >= b
          /\ \/ used'[r] = used[r] /\ ledger'[r] = ledger[r]
             \/ r \notin Files /\ used'[r] = 0 /\ ledger'[r] = 0
      BY <1>1, <1>3, <1>7, <1>12, ResetsKeep DEF Resets
    <2> QED
      BY <1>1, <1>2, <1>5, <1>6, <2>1
  <1>13. ASSUME NEW g \in Handlers, Passes(g, r)
         PROVE  Goal
    <2>1. used'[r] = used[r] /\ ledger'[r] = ledger[r] /\ v = u /\ c >= b
      BY <1>1, <1>3, <1>7, <1>13 DEF Passes
    <2> QED
      BY <1>1, <1>2, <1>5, <1>6, <2>1
  <1>14. ASSUME NEW g \in Handlers, Records(g, r)
         PROVE  Goal
    <2>1. used'[r] = used[r] /\ ledger'[r] = ledger[r] + op[g].sent /\ v = u - op[g].sent /\ c >= b
      BY <1>1, <1>3, <1>9, <1>14 DEF Records
    <2> QED
      BY <1>1, <1>2, <1>5, <1>6, <1>10, <2>1
  <1>15. ASSUME NEW g \in Handlers, Loses(g, r)
         PROVE  Goal
    <2>1. /\ used'[r] = used[r] /\ ledger'[r] = ledger[r] /\ v >= u - Batch[r] /\ v <= u
          /\ c = b + Batch[r]
      BY <1>4, <1>9, <1>15 DEF Loses
    <2> QED
      BY <1>0, <1>1, <1>2, <1>5, <1>6, <2>1
  <1>16. ASSUME NEW g \in Handlers, NEW k \in Nat, Sends(g, k, r)
         PROVE  Goal
    <2>1. used'[r] = used[r] + k /\ ledger'[r] = ledger[r] /\ v = u + k /\ c >= b
      BY <1>1, <1>3, <1>8, <1>16 DEF Sends
    <2> QED
      BY <1>1, <1>2, <1>5, <1>6, <2>1
  <1>17. Goal
    <2> HIDE DEF Goal
    <2> QED
      BY <1>11, <1>12, <1>13, <1>14, <1>15, <1>16, Moves
  <1> QED
    BY <1>17 DEF v, c

-----------------------------------------------------------------------------
(* Room in the ledger. *)

\* Numbers the bound is made of.
LEMMA MeterNumbers ==
  ASSUME TypeOK, RequestInv, NEW r \in Metered, NEW h \in Handlers
  PROVE  /\ r \in Resources /\ Batch[r] \in Nat
         /\ used[r] \in Nat /\ peak[r] \in Nat /\ faults \in Nat /\ Batch[r] * faults \in Nat
         /\ MeterRoom(h, r) \in Nat /\ MeterRoom(h, r) <= Batch[r]
         /\ h \notin Sending(r) => MeterRoom(h, r) = 0
         /\ Sending(r) \in SUBSET Handlers
         /\ Cardinality(Handlers) \in Nat /\ Overshoot(r) \in Int
  <1>1. r \in Resources /\ Batch[r] \in Nat /\ Cardinality(Handlers) \in Nat
    BY FS_CardinalityType, LimitsAssumption DEF Resources
  <1>2. used[r] \in Nat /\ peak[r] \in Nat /\ faults \in Nat
    BY <1>1 DEF TypeOK
  <1>3. Batch[r] * faults \in Nat
    BY <1>1, <1>2, Times
  <1>4. op[h].amount \in Nat /\ op[h].amount <= Batch[op[h].res]
    BY DEF TypeOK, Op, RequestInv
  <1>5. MeterRoom(h, r) \in Nat /\ MeterRoom(h, r) <= Batch[r]
        /\ (h \notin Sending(r) => MeterRoom(h, r) = 0)
    BY <1>1, <1>4 DEF MeterRoom, Sending
  <1>6. Overshoot(r) \in Int
    BY <1>1 DEF Overshoot
  <1> QED
    BY <1>1, <1>2, <1>3, <1>5, <1>6 DEF Sending

\* Nobody new is about to send, no more is used and no limit or fault is forgotten,
LEMMA MeterKept ==
  ASSUME TypeOK, TypeOK', RequestInv, RequestInv', NEW r \in Metered, NEW h \in Handlers,
         MeterBoundBy(h, r),
         \A g \in Sending(r)' : g \in Sending(r) /\ op'[g].amount = op[g].amount,
         used'[r] <= used[r], peak'[r] >= peak[r], faults' >= faults
  PROVE  MeterBoundBy(h, r)'
  <1> DEFINE W == Sending(r) \ {h}
             V == Sending(r)' \ {h}
             m == MeterRoom(h, r)
             n == MeterRoom(h, r)'
             o == Overshoot(r)
             f == Batch[r] * faults
             e == Batch[r] * faults'
             w == Batch[r] * Cardinality(W)
             v == Batch[r] * Cardinality(V)
  <1>1. /\ r \in Resources /\ Batch[r] \in Nat /\ used[r] \in Nat /\ peak[r] \in Nat /\ faults \in Nat
        /\ f \in Nat /\ m \in Nat /\ Sending(r) \in SUBSET Handlers /\ o \in Int
    BY MeterNumbers
  <1>2. used'[r] \in Nat /\ peak'[r] \in Nat /\ faults' \in Nat
    BY <1>1 DEF TypeOK
  <1>3. f <= e /\ e \in Nat
    BY <1>1, <1>2, Times
  <1>4. W \in SUBSET Handlers /\ V \in SUBSET W
    BY <1>1
  <1>5. Cardinality(V) \in Nat /\ Cardinality(W) \in Nat /\ Cardinality(V) <= Cardinality(W)
    BY <1>4, WritersFinite
  <1>6. v <= w /\ v \in Nat /\ w \in Nat
    BY <1>1, <1>5, Times
  <1>7. n <= m /\ n \in Nat
    <2>1. op[h].amount \in Nat
      BY DEF TypeOK, Op
    <2> QED
      BY <2>1 DEF MeterRoom
  <1>8. used[r] + m + w <= peak[r] + o + f
    BY DEF MeterBoundBy
  <1>9. used'[r] + n + v <= peak'[r] + o + e
    <2> HIDE DEF m, n, o, f, e, w, v, W, V
    <2> QED
      BY <1>1, <1>2, <1>3, <1>6, <1>7, <1>8
  <1> QED
    BY <1>9 DEF MeterBoundBy, Overshoot

\* or one sends what it has room for, or one passes by a fault: the bound is kept.
LEMMA MeterSpent ==
  ASSUME TypeOK, TypeOK', RequestInv, RequestInv', NEW r \in Metered, NEW h \in Handlers,
         MeterBoundBy(h, r), NEW g \in Handlers, NEW k \in Nat, Sends(g, k, r)
  PROVE  MeterBoundBy(h, r)'
  <1> DEFINE W == Sending(r) \ {h}
             V == Sending(r)' \ {h}
             m == MeterRoom(h, r)
             n == MeterRoom(h, r)'
             o == Overshoot(r)
             f == Batch[r] * faults
             w == Batch[r] * Cardinality(W)
             v == Batch[r] * Cardinality(V)
  <1>1. /\ r \in Resources /\ Batch[r] \in Nat /\ used[r] \in Nat /\ peak[r] \in Nat /\ faults \in Nat
        /\ f \in Nat /\ m \in Nat /\ Sending(r) \in SUBSET Handlers /\ o \in Int
    BY MeterNumbers
  <1>2. /\ used'[r] = used[r] + k /\ peak' = peak /\ faults' = faults
        /\ g \in Sending(r) /\ Sending(r)' = Sending(r) \ {g} /\ k <= op[g].amount /\ Others(g)
    BY DEF Sends
  <1>3. op[g].amount \in Nat /\ op[g].amount <= Batch[r]
    BY <1>2 DEF TypeOK, Op, RequestInv, Sending
  <1>4. W \in SUBSET Handlers /\ Cardinality(W) \in Nat /\ w \in Nat
    <2>1. W \in SUBSET Handlers
      BY <1>1
    <2>2. Cardinality(W) \in Nat
      BY <2>1, WritersFinite
    <2> QED
      BY <1>1, <2>1, <2>2, Times
  <1>5. used[r] + m + w <= peak[r] + o + f
    BY DEF MeterBoundBy
  <1>6. used'[r] + n + v <= peak[r] + o + f
    <2>1. CASE h = g
      <3>1. V = W /\ v = w
        BY <1>2, <2>1
      <3>2. n = 0 /\ m = op[g].amount
        BY <1>2, <2>1 DEF MeterRoom
      <3> HIDE DEF m, n, o, f, w, v, W, V
      <3> QED
        BY <1>1, <1>2, <1>3, <1>4, <1>5, <3>1, <3>2
    <2>2. CASE h # g
      <3>1. V = W \ {g} /\ g \in W
        BY <1>2, <2>2
      <3>2. Cardinality(V) = Cardinality(W) - 1 /\ Cardinality(V) \in Nat
        BY <1>4, <3>1, WritersFinite
      <3>3. w = v + Batch[r] /\ v \in Nat
        <4>1. Cardinality(W) = Cardinality(V) + 1
          BY <1>4, <3>2
        <4>2. PICK x \in Nat : x = Cardinality(V)
          BY <3>2
        <4>3. Batch[r] * (x + 1) = Batch[r] * x + Batch[r] /\ Batch[r] * x \in Nat
          BY <1>1
        <4> QED
          BY <4>1, <4>2, <4>3
      <3>4. n = m
        BY <1>2, <2>2 DEF MeterRoom, Others
      <3> HIDE DEF m, n, o, f, w, v, W, V
      <3> QED
        BY <1>1, <1>2, <1>3, <1>4, <1>5, <3>3, <3>4
    <2> QED
      BY <2>1, <2>2
  <1>7. used'[r] + n + v <= peak'[r] + o + Batch[r] * faults'
    BY <1>2, <1>6
  <1> QED
    BY <1>7 DEF MeterBoundBy, Overshoot

LEMMA MeterFaulty ==
  ASSUME TypeOK, TypeOK', RequestInv, RequestInv', NEW r \in Metered, NEW h \in Handlers,
         MeterBoundBy(h, r), NEW g \in Handlers, Passes(g, r), faults' = faults + 1
  PROVE  MeterBoundBy(h, r)'
  <1> DEFINE W == Sending(r) \ {h}
             V == Sending(r)' \ {h}
             m == MeterRoom(h, r)
             n == MeterRoom(h, r)'
             o == Overshoot(r)
             f == Batch[r] * faults
             e == Batch[r] * faults'
             w == Batch[r] * Cardinality(W)
             v == Batch[r] * Cardinality(V)
  <1>1. /\ r \in Resources /\ Batch[r] \in Nat /\ used[r] \in Nat /\ peak[r] \in Nat /\ faults \in Nat
        /\ f \in Nat /\ m \in Nat /\ m <= Batch[r] /\ Sending(r) \in SUBSET Handlers /\ o \in Int
        /\ (h \notin Sending(r) => m = 0)
    BY MeterNumbers
  <1>2. /\ used' = used /\ peak' = peak /\ op' = op /\ g \notin Sending(r)
        /\ Sending(r)' \subseteq Sending(r) \cup {g}
    BY DEF Passes
  <1>3. e = f + Batch[r]
    BY <1>1, TimesNext
  <1>4. /\ W \in SUBSET Handlers /\ IsFiniteSet(W) /\ Cardinality(W) \in Nat /\ w \in Nat
    <2>1. W \in SUBSET Handlers
      BY <1>1
    <2>2. Cardinality(W) \in Nat /\ IsFiniteSet(W)
      BY <2>1, WritersFinite
    <2> QED
      BY <1>1, <2>1, <2>2, Times
  <1>5. used[r] + m + w <= peak[r] + o + f
    BY DEF MeterBoundBy
  <1>a. op[h].amount \in Nat /\ (h \in Sending(r)' => op[h].amount <= Batch[r])
    BY <1>2 DEF TypeOK, Op, RequestInv, Sending
  <1>6. n + v <= m + w + Batch[r] /\ n \in Nat /\ v \in Nat
    <2>1. CASE h = g
      <3>1. V \in SUBSET W
        BY <1>2, <2>1
      <3>2. Cardinality(V) \in Nat /\ Cardinality(V) <= Cardinality(W)
        BY <1>4, <3>1, WritersFinite
      <3>3. v <= w /\ v \in Nat
        BY <1>1, <1>4, <3>2, Times
      <3>4. n <= Batch[r] /\ n \in Nat
        BY <1>1, <1>2, <1>a DEF MeterRoom
      <3> HIDE DEF m, n, o, f, w, v, W, V
      <3> QED
        BY <1>1, <1>4, <3>3, <3>4
    <2>2. CASE h # g
      <3>1. V \in SUBSET (W \cup {g})
        BY <1>2, <2>2
      <3>2. IsFiniteSet(W \cup {g}) /\ Cardinality(W \cup {g}) <= Cardinality(W) + 1
        <4>1. PICK S : S = W
          OBVIOUS
        <4>2. IsFiniteSet(S) /\ Cardinality(S) \in Nat
          BY <1>4, <4>1
        <4>3. IsFiniteSet(S \cup {g}) /\ Cardinality(S \cup {g}) <= Cardinality(S) + 1
          BY <4>2, FS_AddElement
        <4> QED
          BY <4>1, <4>3
      <3>3. Cardinality(V) \in Nat /\ Cardinality(V) <= Cardinality(W) + 1
        <4>1. IsFiniteSet(V) /\ Cardinality(V) <= Cardinality(W \cup {g})
          BY <3>1, <3>2, FS_Subset
        <4> QED
          BY <1>4, <3>2, <4>1, FS_CardinalityType
      <3>4. v <= w + Batch[r] /\ v \in Nat
        <4>1. v <= Batch[r] * (Cardinality(W) + 1) /\ v \in Nat
          BY <1>1, <1>4, <3>3, Times
        <4> QED
          BY <1>1, <1>4, <4>1, TimesNext
      <3>5. n <= m /\ n \in Nat
        BY <1>2, <1>a, <2>2 DEF MeterRoom
      <3> HIDE DEF m, n, o, f, w, v, W, V
      <3> QED
        BY <1>1, <1>4, <3>4, <3>5
    <2> QED
      BY <2>1, <2>2
  <1>7. used'[r] + n + v <= peak'[r] + o + e
    <2> HIDE DEF m, n, o, f, e, w, v, W, V
    <2> QED
      BY <1>1, <1>2, <1>3, <1>4, <1>5, <1>6
  <1> QED
    BY <1>7 DEF MeterBoundBy, Overshoot

\* A request that passes on what the ledger says is the last that did: each of the
\* others owes the ledger or is about to send, a batch at most.
LEMMA MeterFound ==
  ASSUME TypeOK, TypeOK', RequestInv, RequestInv', MeterInv, LagInv, NEW r \in Metered,
         NEW g \in Handlers, Passes(g, r), faults' = faults,
         ~Exceeds(ledger[r], op[g].amount, op[g].limit)
  PROVE  MeterBoundBy(g, r)'
  <1> DEFINE V == Sending(r)' \ {g}
             D == {h \in Handlers : Owes(h, r)}
             n == op[g].amount
             f == Batch[r] * faults
             v == Batch[r] * Cardinality(V)
             d == Batch[r] * Cardinality(D)
             u == Unrecorded(r)
             N == Cardinality(Handlers)
             o == Batch[r] * (N - 1)
  <1>1. /\ r \in Resources /\ Batch[r] \in Nat /\ used[r] \in Nat /\ peak[r] \in Nat /\ f \in Nat
        /\ N \in Nat
    BY MeterNumbers
  <1>2. /\ used' = used /\ peak' = peak /\ op' = op /\ pc[g] = "usage" /\ op[g].res = r
        /\ Sending(r)' \subseteq Sending(r) \cup {g}
    BY DEF Passes
  <1>3. n \in Nat /\ op[g].limit \in Nat /\ op[g].limit <= peak[r] /\ ledger[r] \in Nat
    BY <1>1, <1>2 DEF TypeOK, Op, RequestInv
  <1>4. ledger[r] + n <= peak[r]
    <2> HIDE DEF n
    <2> QED
      BY <1>1, <1>3 DEF Exceeds, n
  <1>5. used[r] <= ledger[r] + u + f
    BY DEF LagInv
  <1>6. u \in Nat
    BY <1>1, UnitsFinite
  <1>7. /\ V \in SUBSET (Handlers \ {g}) /\ D \in SUBSET (Handlers \ {g}) /\ V \cap D = {}
    BY <1>2 DEF Sending, Owes
  <1>8. /\ IsFiniteSet(V) /\ IsFiniteSet(D) /\ Cardinality(V) \in Nat /\ Cardinality(D) \in Nat
    BY <1>7, WritersFinite
  <1>9. Cardinality(V) + Cardinality(D) <= N - 1
    <2>1. Cardinality(V \cup D) = Cardinality(V) + Cardinality(D)
      BY <1>7, <1>8, UnitsAdded
    <2>2. V \cup D \in SUBSET Handlers /\ (V \cup D) \ {g} = V \cup D
      BY <1>7
    <2>3. Cardinality(V \cup D) <= N - 1
      BY <2>2, WritersFinite
    <2> QED
      BY <2>1, <2>3
  <1>10. v + d <= o /\ v \in Nat /\ d \in Nat /\ o \in Nat
    <2> DEFINE x == Cardinality(V)
               y == Cardinality(D)
    <2>1. x \in Nat /\ y \in Nat /\ x + y <= N - 1 /\ x + y \in Nat /\ N - 1 \in Nat
      BY <1>1, <1>8, <1>9
    <2> HIDE DEF x, y
    <2>2. Batch[r] * (x + y) = Batch[r] * x + Batch[r] * y
      BY <1>1, <2>1
    <2>3. Batch[r] * (x + y) <= Batch[r] * (N - 1) /\ Batch[r] * (N - 1) \in Nat
      BY <1>1, <2>1, Times
    <2>4. Batch[r] * x \in Nat /\ Batch[r] * y \in Nat
      BY <1>1, <2>1, Times
    <2> QED
      BY <2>2, <2>3, <2>4 DEF x, y
  <1>11. u <= d
    <2>1. Units(r) \in SUBSET (D \X (1 .. Batch[r]))
      <3>1. ASSUME NEW h \in Handlers, NEW i \in 1 .. Batch[r], <<h, i>> \in Units(r)
            PROVE  <<h, i>> \in D \X (1 .. Batch[r])
        BY <3>1 DEF Units
      <3>2. Units(r) \subseteq Handlers \X (1 .. Batch[r])
        BY DEF Units
      <3> HIDE DEF D
      <3> SUFFICES ASSUME NEW x \in Units(r)
                   PROVE  x \in D \X (1 .. Batch[r])
        OBVIOUS
      <3>3. PICK h \in Handlers, i \in 1 .. Batch[r] : x = <<h, i>>
        BY <3>2
      <3> QED
        BY <3>1, <3>3
    <2>2. IsFiniteSet(1 .. Batch[r]) /\ Cardinality(1 .. Batch[r]) = Batch[r]
      <3>1. PICK b \in Nat : b = Batch[r]
        BY <1>1
      <3>2. IsFiniteSet(1 .. b) /\ Cardinality(1 .. b) = b
        BY FS_Interval
      <3> QED
        BY <3>1, <3>2
    <2>3. /\ IsFiniteSet(D \X (1 .. Batch[r]))
          /\ Cardinality(D \X (1 .. Batch[r])) = Cardinality(D) * Batch[r]
      BY <1>8, <2>2, FS_Product
    <2>4. Cardinality(Units(r)) <= Cardinality(D) * Batch[r]
      BY <2>1, <2>3, FS_Subset
    <2>5. Cardinality(D) * Batch[r] = Batch[r] * Cardinality(D)
      BY <1>1, <1>8
    <2> QED
      BY <2>4, <2>5 DEF Unrecorded
  <1>12. MeterRoom(g, r)' <= n /\ MeterRoom(g, r)' \in Nat
    BY <1>2, <1>3 DEF MeterRoom
  <1>13. used[r] + MeterRoom(g, r)' + v <= peak[r] + o + f
    <2> DEFINE m == MeterRoom(g, r)'
    <2>1. m <= n /\ m \in Nat
      BY <1>12
    <2> HIDE DEF m, V, D, n, f, v, d, u, N, o
    <2>2. used[r] + m + v <= peak[r] + o + f
      BY <1>1, <1>3, <1>4, <1>5, <1>6, <1>10, <1>11, <2>1
    <2> QED
      BY <2>2 DEF m
  <1> QED
    BY <1>2, <1>13 DEF MeterBoundBy, Overshoot

\* The bound is kept by every step.
LEMMA MeterRoomStep ==
  ASSUME TypeOK, TypeOK', RequestInv, RequestInv', MeterInv, LagInv, MeterRoomInv, [Next]_vars
  PROVE  MeterRoomInv'
  <1> SUFFICES ASSUME NEW r \in Metered
               PROVE  \E h \in Handlers : MeterBoundBy(h, r)'
    BY DEF MeterRoomInv, Metered
  <1>1. PICK h \in Handlers : MeterBoundBy(h, r)
    BY DEF MeterRoomInv
  <1>2. r \in Resources /\ used[r] \in Nat /\ peak[r] \in Nat /\ faults \in Nat
    BY MeterNumbers
  <1>3. CASE Calm(r)
    BY <1>1, <1>2, <1>3, MeterKept DEF Calm
  <1>4. CASE Resets(r)
    <2>1. /\ \A g \in Sending(r)' : g \in Sending(r) /\ op'[g].amount = op[g].amount
          /\ used'[r] <= used[r] /\ peak'[r] >= peak[r] /\ faults' >= faults
      BY <1>2, <1>4, ResetsKeep DEF Resets
    <2> QED
      BY <1>1, <2>1, MeterKept
  <1>5. ASSUME NEW g \in Handlers, Records(g, r) \/ Loses(g, r)
        PROVE  \E b \in Handlers : MeterBoundBy(b, r)'
    <2>1. /\ \A b \in Sending(r)' : b \in Sending(r) /\ b # g
          /\ used'[r] = used[r] /\ peak'[r] = peak[r] /\ faults' >= faults /\ Others(g)
      BY <1>2, <1>5 DEF Records, Loses
    <2>2. \A b \in Sending(r)' : b \in Sending(r) /\ op'[b].amount = op[b].amount
      BY <2>1 DEF Others, Sending
    <2> QED
      BY <1>1, <1>2, <2>1, <2>2, MeterKept
  <1>6. ASSUME NEW g \in Handlers, NEW k \in Nat, Sends(g, k, r)
        PROVE  \E b \in Handlers : MeterBoundBy(b, r)'
    BY <1>1, <1>6, MeterSpent
  <1>7. ASSUME NEW g \in Handlers, Passes(g, r)
        PROVE  \E b \in Handlers : MeterBoundBy(b, r)'
    <2>1. CASE faults' = faults + 1
      BY <1>1, <1>7, <2>1, MeterFaulty
    <2>2. CASE faults' = faults /\ ~Exceeds(ledger[r], op[g].amount, op[g].limit)
      BY <1>7, <2>2, MeterFound
    <2> QED
      BY <1>7, <2>1, <2>2 DEF Passes
  <1> QED
    BY <1>3, <1>4, <1>5, <1>6, <1>7, Moves

\* The invariant of the ledger holds initially,
LEMMA MeterInit == Init => MeterInv /\ LagInv /\ StoredInv /\ MeterRoomInv
  <1> SUFFICES ASSUME Init
               PROVE  MeterInv /\ LagInv /\ StoredInv /\ MeterRoomInv
    OBVIOUS
  <1>1. TypeOK /\ RequestInv
    BY LimitsInit DEF LimitsInv
  <1>2. MeterInv
    <2>1. NoOp.sent = 0 /\ NoOp.exempt = FALSE /\ NoOp.res \in Resources
          /\ \A r \in Resources : Batch[r] \in Nat \ {0}
      BY LimitsAssumption DEF NoOp
    <2> QED
      BY <2>1 DEF Init, MeterInv
  <1>3. ASSUME NEW r \in Metered
        PROVE  /\ r \in Resources /\ used[r] = 0 /\ ledger[r] = 0 /\ Unrecorded(r) = 0
               /\ Batch[r] * faults = 0 /\ Batch[r] \in Nat
    <2>1. r \in Resources /\ Batch[r] \in Nat
      BY LimitsAssumption DEF Resources
    <2>2. Units(r) = {}
      BY DEF Init, Units, Owes
    <2>3. Unrecorded(r) = 0
      BY <2>2, FS_EmptySet DEF Unrecorded
    <2>4. faults = 0 /\ used[r] = 0 /\ ledger[r] = 0
      BY <2>1 DEF Init
    <2> QED
      BY <2>1, <2>3, <2>4, TimesNext
  <1>4. LagInv
    BY <1>3 DEF LagInv
  <1>5. StoredInv
    BY <1>3 DEF StoredInv, Metered
  <1>6. ASSUME NEW r \in Metered
        PROVE  \E h \in Handlers : MeterBoundBy(h, r)
    <2>1. PICK h \in Handlers : TRUE
      BY LimitsAssumption
    <2>2. Sending(r) = {} /\ Sending(r) \ {h} = {}
      BY DEF Init, Sending
    <2>3. Cardinality(Sending(r) \ {h}) = 0 /\ MeterRoom(h, r) = 0
      BY <2>2, FS_EmptySet DEF MeterRoom
    <2>4. Cardinality(Handlers) - 1 \in Nat
      BY FS_CardinalityType, FS_EmptySet, LimitsAssumption
    <2>5. Overshoot(r) \in Nat /\ peak[r] \in Nat
      BY <1>1, <1>3, <2>4, Times DEF Overshoot, TypeOK
    <2>6. Batch[r] * Cardinality(Sending(r) \ {h}) = 0
      BY <1>3, <2>3, TimesNext
    <2> DEFINE b == Batch[r] * Cardinality(Sending(r) \ {h})
               f == Batch[r] * faults
    <2>7. b = 0 /\ f = 0 /\ used[r] = 0
      BY <1>3, <2>6
    <2>8. used[r] + MeterRoom(h, r) + b <= peak[r] + Overshoot(r) + f
      <3> HIDE DEF b, f
      <3> QED
        BY <2>3, <2>5, <2>7
    <2> QED
      BY <2>8 DEF MeterBoundBy
  <1> QED
    BY <1>2, <1>4, <1>5, <1>6 DEF MeterRoomInv

\* and is enough.
LEMMA MeterImplies ==
  ASSUME TypeOK, RequestInv, MeterInv, LagInv, StoredInv, MeterRoomInv
  PROVE  LedgerHolds
  <1>1. ASSUME NEW r \in Metered
        PROVE  used[r] <= peak[r] + Overshoot(r) + Batch[r] * faults
    <2>1. PICK h \in Handlers : MeterBoundBy(h, r)
      BY DEF MeterRoomInv
    <2> DEFINE m == MeterRoom(h, r)
               o == Overshoot(r)
               f == Batch[r] * faults
               w == Batch[r] * Cardinality(Sending(r) \ {h})
    <2>2. used[r] \in Nat /\ peak[r] \in Nat /\ f \in Nat /\ m \in Nat /\ o \in Int
      BY MeterNumbers
    <2>3. w \in Nat
      <3>1. Batch[r] \in Nat /\ Sending(r) \ {h} \in SUBSET Handlers
        BY MeterNumbers
      <3>2. Cardinality(Sending(r) \ {h}) \in Nat
        BY <3>1, WritersFinite
      <3> QED
        BY <3>1, <3>2, Times
    <2>4. used[r] + m + w <= peak[r] + o + f
      BY <2>1 DEF MeterBoundBy
    <2>5. used[r] <= peak[r] + o + f
      <3> HIDE DEF m, o, f, w
      <3> QED
        BY <2>2, <2>3, <2>4
    <2> QED
      BY <2>5
  <1>2. ASSUME NEW r \in Files, \A h \in Handlers : pc[h] \notin {"logo", "record"}
        PROVE  ledger[r] <= used[r] /\ used[r] <= ledger[r] + Batch[r] * faults
    <2>1. r \in Metered /\ r \in Resources
      BY DEF Metered, Resources
    <2>2. Units(r) = {}
      BY <1>2 DEF Units, Owes
    <2>3. Unrecorded(r) = 0
      BY <2>2, FS_EmptySet DEF Unrecorded
    <2>4. ledger[r] \in Nat /\ used[r] \in Nat
      BY <2>1 DEF TypeOK
    <2>5. ledger[r] + 0 <= used[r] /\ used[r] <= ledger[r] + 0 + Batch[r] * faults
      BY <2>1, <2>3 DEF LagInv, StoredInv
    <2> QED
      BY <2>4, <2>5
  <1> QED
    BY <1>1, <1>2 DEF LedgerHolds, MeteredOvershootBounded, StorageIsRecorded

\* However many requests check a quota that is written after the fact, e-mail and
\* storage exceed the highest limit there has been by one batch for each of the other
\* requests and for each fault at most, and the ledger misses no byte but by a fault.
THEOREM LedgerCorrect == Spec => []LedgerHolds
  <1> DEFINE I == LimitsInv /\ MeterInv /\ LagInv /\ StoredInv /\ MeterRoomInv
  <1>1. Init => I
    BY LimitsInit, MeterInit
  <1>2. I /\ [Next]_vars => I'
    BY LimitsStep, MeterStep, LagStep, MeterRoomStep DEF LimitsInv
  <1>3. I => LedgerHolds
    BY MeterImplies DEF LimitsInv
  <1> QED
    BY <1>1, <1>2, <1>3, PTL DEF Spec

=============================================================================
