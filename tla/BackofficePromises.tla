-------------------------- MODULE BackofficePromises --------------------------
(***************************************************************************)
(* Two promises of the back office that are about more than one step: what *)
(* a reader is told adds up, and a task that takes several steps ends once *)
(* and is told as it was done.                                             *)
(*                                                                         *)
(* The first compares sums over sets that grow; the sum of a function over *)
(* a finite set is a choice of the community modules, so that there is one *)
(* comes first, by counting up the sizes of sets.  The second is the       *)
(* refinement of Tasks, by broadcasts, reconciliations, requests and jobs. *)
(***************************************************************************)
EXTENDS BackofficeProofs, WellFoundedInduction

-----------------------------------------------------------------------------
(* Sums over finite sets. *)

\* A set of numbers with 0 that has with each number the next one has them all.
LEMMA CountingUp ==
    ASSUME NEW T, 0 \in T, \A n \in Nat : n \in T => n + 1 \in T
    PROVE  Nat \subseteq T
<1> DEFINE Left == Nat \ T
<1>1. SUFFICES ASSUME Left # {} PROVE FALSE
  OBVIOUS
<1>2. IsWellFoundedOn(OpToRel(<, Nat), Nat)
  BY NatLessThanWellFounded
<1>3. PICK n \in Left : \A m \in Left : ~(<<m, n>> \in OpToRel(<, Nat))
  <2>1. Left \subseteq Nat
    OBVIOUS
  <2> HIDE DEF Left
  <2> QED
    BY <1>1, <1>2, <2>1, WFMin
<1>4. n \in Nat /\ n # 0 /\ n - 1 \in Nat /\ (n - 1) + 1 = n
  OBVIOUS
<1>5. n - 1 \notin Left
  <2>1. <<n - 1, n>> \in OpToRel(<, Nat)
    BY <1>4 DEF OpToRel
  <2> QED
    BY <1>3, <2>1
<1> QED
  BY <1>4, <1>5

First(s) == CHOOSE x \in s : TRUE

\* One step of the sum of f over the subsets of S.
Adds(h, s, f) == IF s = {} THEN 0 ELSE f[First(s)] + h[s \ {First(s)}]

LEMMA SumsExist ==
    ASSUME NEW S, IsFiniteSet(S), NEW f \in [S -> Nat]
    PROVE  \E h \in [SUBSET S -> Nat] : \A s \in SUBSET S : h[s] = Adds(h, s, f)
<1> DEFINE Small(n) == {s \in SUBSET S : Cardinality(s) <= n}
           T == {n \in Nat : \E h \in [SUBSET S -> Nat] : \A s \in Small(n) : h[s] = Adds(h, s, f)}
<1>1. \A s \in SUBSET S : IsFiniteSet(s) /\ Cardinality(s) \in Nat
  BY FS_Subset, FS_CardinalityType
<1>2. ASSUME NEW s \in SUBSET S, s # {}
      PROVE  /\ First(s) \in s /\ First(s) \in S /\ s \ {First(s)} \in SUBSET S
             /\ Cardinality(s \ {First(s)}) = Cardinality(s) - 1
  <2>1. First(s) \in s
    BY <1>2 DEF First
  <2> QED
    BY <1>1, <2>1, FS_RemoveElement
<1>3. 0 \in T
  <2> DEFINE h == [s \in SUBSET S |-> 0]
  <2>1. h \in [SUBSET S -> Nat]
    OBVIOUS
  <2>2. ASSUME NEW s \in Small(0) PROVE h[s] = Adds(h, s, f)
    <3>1. s = {}
      BY <1>1, FS_EmptySet
    <3> QED
      BY <3>1 DEF Adds
  <2> HIDE DEF h, Small
  <2> QED
    BY <2>1, <2>2
<1>4. ASSUME NEW n \in Nat, n \in T PROVE n + 1 \in T
  <2>1. PICK h \in [SUBSET S -> Nat] : \A s \in Small(n) : h[s] = Adds(h, s, f)
    BY <1>4
  <2> DEFINE k == [s \in SUBSET S |-> Adds(h, s, f)]
  <2>2. k \in [SUBSET S -> Nat]
    <3>1. ASSUME NEW s \in SUBSET S PROVE Adds(h, s, f) \in Nat
      <4>1. CASE s = {}
        BY <4>1 DEF Adds
      <4>2. CASE s # {}
        <5>1. First(s) \in S /\ s \ {First(s)} \in SUBSET S
          BY <4>2, <1>2
        <5>2. f[First(s)] \in Nat /\ h[s \ {First(s)}] \in Nat
          BY <5>1
        <5> QED
          BY <4>2, <5>2 DEF Adds
      <4> QED
        BY <4>1, <4>2
    <3> QED
      BY <3>1
  <2>3. ASSUME NEW s \in Small(n + 1) PROVE k[s] = Adds(k, s, f)
    <3>1. s \in SUBSET S /\ Cardinality(s) <= n + 1
      OBVIOUS
    <3>2. k[s] = Adds(h, s, f)
      BY <3>1
    <3>3. CASE s = {}
      BY <3>2, <3>3 DEF Adds
    <3>4. CASE s # {}
      <4> DEFINE r == s \ {First(s)}
      <4>1. r \in SUBSET S /\ Cardinality(r) = Cardinality(s) - 1
        BY <3>1, <3>4, <1>2
      <4>2. r \in Small(n)
        BY <1>1, <3>1, <4>1
      <4>3. h[r] = Adds(h, r, f) /\ k[r] = Adds(h, r, f)
        BY <2>1, <4>1, <4>2
      <4> QED
        BY <3>2, <3>4, <4>3 DEF Adds
    <3> QED
      BY <3>3, <3>4
  <2> HIDE DEF k, Small
  <2> QED
    BY <2>2, <2>3
<1>5. Nat \subseteq T
  <2> HIDE DEF T
  <2> QED
    BY <1>3, <1>4, CountingUp
<1>6. Cardinality(S) \in T
  BY <1>1, <1>5
<1>7. PICK h \in [SUBSET S -> Nat] : \A s \in Small(Cardinality(S)) : h[s] = Adds(h, s, f)
  BY <1>6
<1>8. SUBSET S \subseteq Small(Cardinality(S))
  BY FS_Subset, FS_CardinalityType
<1> QED
  BY <1>7, <1>8

\* The rows p of P with g[p] in S are counted by the sum, over S, of how many have each value.
LEMMA SumOfParts ==
    ASSUME NEW S, IsFiniteSet(S), NEW P, IsFiniteSet(P), NEW g, NEW f \in [S -> Nat],
           \A x \in S : f[x] = Cardinality({p \in P : g[p] = x}),
           NEW h, \A s \in SUBSET S : h[s] = Adds(h, s, f)
    PROVE  h[S] = Cardinality({p \in P : g[p] \in S})
<1> DEFINE Within(s) == {p \in P : g[p] \in s}
           T == {n \in Nat : \A s \in SUBSET S : Cardinality(s) = n => h[s] = Cardinality(Within(s))}
<1>1. \A s \in SUBSET S : IsFiniteSet(s) /\ Cardinality(s) \in Nat
  BY FS_Subset, FS_CardinalityType
<1>2. \A s : IsFiniteSet(Within(s)) /\ Cardinality(Within(s)) \in Nat
  <2>1. \A s : Within(s) \subseteq P
    OBVIOUS
  <2> HIDE DEF Within
  <2> QED
    BY <2>1, FS_Subset, FS_CardinalityType
<1>3. 0 \in T
  <2>1. ASSUME NEW s \in SUBSET S, Cardinality(s) = 0 PROVE h[s] = Cardinality(Within(s))
    <3>1. s = {} /\ Within(s) = {}
      BY <1>1, <2>1, FS_EmptySet
    <3> HIDE DEF Within
    <3>2. Cardinality(Within(s)) = 0
      BY <3>1, FS_EmptySet
    <3>3. h[s] = 0
      BY <3>1 DEF Adds
    <3> QED
      BY <3>2, <3>3
  <2> HIDE DEF Within
  <2> QED
    BY <2>1
<1>4. ASSUME NEW n \in Nat, n \in T PROVE n + 1 \in T
  <2>1. ASSUME NEW s \in SUBSET S, Cardinality(s) = n + 1 PROVE h[s] = Cardinality(Within(s))
    <3> DEFINE x == First(s)
               r == s \ {x}
    <3>1. s # {}
      <4>1. Cardinality(s) # 0 /\ Cardinality({}) = 0
        BY <2>1, FS_EmptySet
      <4> QED
        BY <4>1
    <3>2. x \in s /\ x \in S /\ r \in SUBSET S
      BY <3>1 DEF First
    <3>3. Cardinality(r) = n
      BY <1>1, <2>1, <3>2, FS_RemoveElement
    <3>4. h[r] = Cardinality(Within(r))
      <4>1. \A t \in SUBSET S : Cardinality(t) = n => h[t] = Cardinality(Within(t))
        BY <1>4
      <4> HIDE DEF Within, r
      <4> QED
        BY <3>2, <3>3, <4>1
    <3>5. Within({x}) = {p \in P : g[p] = x}
      OBVIOUS
    <3>6. f[x] = Cardinality(Within({x}))
      BY <3>2, <3>5
    <3>7. Within(s) = Within({x}) \cup Within(r) /\ Within({x}) \cap Within(r) = {}
      BY <3>2
    <3>8. h[s] = f[x] + h[r]
      BY <3>1 DEF Adds
    <3> HIDE DEF Within, x, r
    <3>9. Cardinality(Within(s)) = Cardinality(Within({x})) + Cardinality(Within(r))
      <4>1. PICK A, B : A = Within({x}) /\ B = Within(r)
        OBVIOUS
      <4>2. IsFiniteSet(A) /\ IsFiniteSet(B) /\ Cardinality(A) \in Nat /\ Cardinality(B) \in Nat
        BY <1>2, <4>1, Zenon
      <4>3. Cardinality(A \cap B) = 0 /\ Within(s) = A \cup B
        BY <3>7, <4>1, FS_EmptySet, Zenon
      <4>4. Cardinality(A \cup B) = Cardinality(A) + Cardinality(B) - Cardinality(A \cap B)
        BY <4>2, FS_Union, Zenon
      <4>5. Cardinality(A \cup B) = Cardinality(A) + Cardinality(B)
        BY <4>2, <4>3, <4>4
      <4> QED
        BY <4>1, <4>3, <4>5, Zenon
    <3> QED
      BY <3>4, <3>6, <3>8, <3>9
  <2> HIDE DEF Within
  <2> QED
    BY <2>1
<1>5. Nat \subseteq T
  <2> HIDE DEF T
  <2> QED
    BY <1>3, <1>4, CountingUp
<1>6. Cardinality(S) \in T
  BY <1>1, <1>5
<1> QED
  BY <1>6

\* What is counted by day adds up to what is counted at once.
LEMMA DaysAreAll ==
    ASSUME NEW q, NEW status, NEW S, IsFiniteSet(S), IsFiniteSet(q.got[2]), \A p \in q.got[2] : DayOf[p.made] \in S
    PROVE  MapThenSumSet(LAMBDA d : ByDay(q, d, status), S) = Cardinality({p \in q.got[2] : p.status = status})
<1> DEFINE P == {p \in q.got[2] : p.status = status}
           g == [p \in P |-> DayOf[p.made]]
           f == [d \in S |-> ByDay(q, d, status)]
           h == CHOOSE h : h = [s \in SUBSET S |-> IF s = {} THEN 0
                                                   ELSE ByDay(q, First(s), status) + h[s \ {First(s)}]]
<1>1. IsFiniteSet(P) /\ \A x : IsFiniteSet({p \in P : g[p] = x})
  <2>1. P \subseteq q.got[2]
    OBVIOUS
  <2>2. IsFiniteSet(P)
    <3> HIDE DEF P
    <3> QED
      BY <2>1, FS_Subset
  <2>3. ASSUME NEW x PROVE IsFiniteSet({p \in P : g[p] = x})
    <3> HIDE DEF P, g
    <3>1. {p \in P : g[p] = x} \subseteq P
      OBVIOUS
    <3> QED
      BY <2>2, <3>1, FS_Subset
  <2> QED
    BY <2>2, <2>3
<1>2. \A x \in S : f[x] = Cardinality({p \in P : g[p] = x}) /\ f[x] \in Nat
  <2>1. ASSUME NEW x \in S PROVE f[x] = Cardinality({p \in P : g[p] = x})
    <3>1. {p \in P : g[p] = x} = {p \in q.got[2] : p.status = status /\ DayOf[p.made] = x}
      OBVIOUS
    <3> QED
      BY <3>1 DEF ByDay
  <2> QED
    BY <1>1, <2>1, FS_CardinalityType
<1>3. f \in [S -> Nat]
  BY <1>2
<1>4. PICK k \in [SUBSET S -> Nat] : \A s \in SUBSET S : k[s] = Adds(k, s, f)
  <2> HIDE DEF f
  <2> QED
    BY <1>3, SumsExist
<1>5. \A s \in SUBSET S : s # {} => First(s) \in S /\ f[First(s)] = ByDay(q, First(s), status)
  BY DEF First
<1>6. k = [s \in SUBSET S |-> IF s = {} THEN 0 ELSE ByDay(q, First(s), status) + k[s \ {First(s)}]]
  BY <1>4, <1>5 DEF Adds
<1>7. h = [s \in SUBSET S |-> IF s = {} THEN 0 ELSE ByDay(q, First(s), status) + h[s \ {First(s)}]]
  BY <1>6
<1>8. \A s \in SUBSET S : h[s] = Adds(h, s, f)
  <2> HIDE DEF h, f
  <2> QED
    BY <1>5, <1>7 DEF Adds
<1>9. MapThenSumSet(LAMBDA d : ByDay(q, d, status), S) = h[S]
  BY DEF MapThenSumSet, MapThenFoldSet, First
<1>10. h[S] = Cardinality({p \in P : g[p] \in S})
  <2> HIDE DEF h, f, g, P
  <2> QED
    BY <1>1, <1>2, <1>3, <1>8, SumOfParts
<1>11. {p \in P : g[p] \in S} = P
  OBVIOUS
<1> QED
  BY <1>9, <1>10, <1>11

\* As many lines as payments they are of.
LEMMA LinesCount ==
    ASSUME NEW rows, AreLines(rows), NEW status, IsFiniteSet(Charges)
    PROVE  /\ IsFiniteSet(rows) /\ IsFiniteSet(Paid(rows, status))
           /\ Cardinality({x \in rows : x.status = status}) = Cardinality(Paid(rows, status))
<1> DEFINE P == {x \in rows : x.status = status}
           f == [x \in rows |-> x.id]
           g == [x \in P |-> x.id]
<1>1. IsFiniteSet(rows)
  <2>1. f \in Injection(rows, Charges)
    BY DEF AreLines, Injection, IsInjective
  <2> HIDE DEF f
  <2> QED
    BY <2>1, FS_Injection
<1>2. PICK ids : ids = Paid(rows, status)
  OBVIOUS
<1>3. ids = {x.id : x \in P} /\ ids \subseteq Charges
  BY <1>2 DEF Paid, AreLines
<1>4. g \in Injection(P, ids) /\ g \in Surjection(P, ids)
  <2>1. \A x, y \in P : x.id = y.id => x = y
    BY DEF AreLines
  <2> HIDE DEF P
  <2> QED
    BY <1>3, <2>1 DEF Injection, IsInjective, Surjection
<1>5. IsFiniteSet(ids)
  BY <1>3, FS_Subset
<1>6. Cardinality(P) = Cardinality(ids)
  <2> HIDE DEF P, g
  <2> QED
    BY <1>4, <1>5, FS_Injection
<1> QED
  BY <1>1, <1>2, <1>5, <1>6

\* A set within two others has no more elements than both.
LEMMA CountsOfBoth ==
    ASSUME NEW X, NEW Y, NEW T, IsFiniteSet(Y), IsFiniteSet(T), X \subseteq Y \cup T
    PROVE  Cardinality(X) <= Cardinality(Y) + Cardinality(T)
<1>1. IsFiniteSet(Y \cup T) /\ Cardinality(Y \cup T) = Cardinality(Y) + Cardinality(T) - Cardinality(Y \cap T)
  BY FS_Union
<1>2. Cardinality(X) <= Cardinality(Y \cup T) /\ IsFiniteSet(X)
  BY <1>1, FS_Subset
<1>3. IsFiniteSet(Y \cap T)
  BY FS_Subset
<1>4. Cardinality(X) \in Nat /\ Cardinality(Y) \in Nat /\ Cardinality(T) \in Nat /\ Cardinality(Y \cap T) \in Nat
  BY <1>2, <1>3, FS_CardinalityType
<1> QED
  BY <1>1, <1>2, <1>4

LEMMA ReportsAddUp == ReportsInv => DaysAddUp
<1> DEFINE S == {DayOf[m] : m \in Moments}
<1> SUFFICES ASSUME ReportsInv, NEW q \in Finished("analytics"), NEW status \in Statuses
             PROVE  LET days == MapThenSumSet(LAMBDA d : ByDay(q, d, status), S)
                        written == Cardinality(q.since.charges)
                    IN  days <= Breakdown(q, status) + written /\ Breakdown(q, status) <= days + written
  BY Zenon DEF DaysAddUp
<1>1. PICK r \in Readers : q = report[r] /\ report[r].kind = "analytics" /\ ~AtWork(r)
  BY DEF Finished
<1>2. q \in Reader /\ Reads(q) /\ q.kind \in DOMAIN Queries /\ Len(q.got) \in Nat
  BY <1>1, AReport
<1>3. q.kind = "analytics" /\ Len(Queries["analytics"]) = 3
  BY <1>1, QueriesAre
<1>4. Len(q.got) <= Len(Queries[q.kind]) /\ ~(Len(q.got) < Len(Queries[q.kind]))
  BY <1>1, <1>2, <1>3, Zenon DEF Reads, Timely, AtWork
<1>5. Len(q.got) = 3
  <2>1. PICK n \in Nat : n = Len(q.got)
    BY <1>2
  <2>2. n <= 3 /\ ~(n < 3)
    BY <1>3, <1>4, <2>1, Zenon
  <2>3. n = 3
    BY <2>2
  <2> QED
    BY <2>1, <2>3, Zenon
<1>6. AreLines(q.got[2]) /\ AreLines(q.got[3])
  <2>1. RowsRead(q)
    BY <1>2, Zenon DEF Reads
  <2>2. Len(q.got) >= 2 /\ Len(q.got) >= 3
    BY <1>5
  <2> QED
    BY <1>3, <2>1, <2>2, Zenon DEF RowsRead, PaymentsRead
<1>7. IsFiniteSet(Charges)
  <2>1. PICK n : n = MaxRow /\ n \in Int /\ 1 \in Int
    BY ReportsAssumption
  <2>2. IsFiniteSet(1..n)
    BY <2>1, FS_Interval, Zenon
  <2> QED
    BY <2>1, <2>2, Zenon DEF Charges
<1>8. PICK X, Y, T : X = Paid(q.got[2], status) /\ Y = Paid(q.got[3], status) /\ T = q.since.charges
  OBVIOUS
<1>9. /\ IsFiniteSet(q.got[2]) /\ IsFiniteSet(X) /\ IsFiniteSet(Y)
      /\ Cardinality({x \in q.got[2] : x.status = status}) = Cardinality(X)
      /\ Breakdown(q, status) = Cardinality(Y)
  BY <1>6, <1>7, <1>8, LinesCount, Zenon DEF Breakdown
<1>10. IsFiniteSet(T)
  <2>1. T \subseteq Charges
    BY <1>2, <1>8, ReadersAre
  <2> QED
    BY <1>7, <2>1, FS_Subset
<1>11. X \subseteq Y \cup T /\ Y \subseteq X \cup T
  <2>1. X \ T = Y \ T
    BY <1>8, ReportsInvHolds, Zenon DEF DaysAreOfTheBreakdown
  <2> QED
    BY <2>1
<1>12. IsFiniteSet(S)
  <2>1. IsFiniteSet(Moments)
    <3>1. PICK n : n = Later /\ n \in Int /\ 0 \in Int
      BY ReadersHave
    <3>2. IsFiniteSet(0..n)
      BY <3>1, FS_Interval, Zenon
    <3> QED
      BY <3>1, <3>2, Zenon DEF Moments
  <2> DEFINE f == [m \in Moments |-> DayOf[m]]
  <2>2. f \in Surjection(Moments, S)
    BY DEF Surjection
  <2> HIDE DEF f, S
  <2> QED
    BY <2>1, <2>2, FS_Surjection
<1>13. \A x \in q.got[2] : DayOf[x.made] \in S
  BY <1>6 DEF AreLines
<1>14. MapThenSumSet(LAMBDA d : ByDay(q, d, status), S) = Cardinality(X)
  <2> HIDE DEF S
  <2> QED
    BY <1>9, <1>12, <1>13, DaysAreAll
<1>15. Cardinality(X) <= Cardinality(Y) + Cardinality(T) /\ Cardinality(Y) <= Cardinality(X) + Cardinality(T)
  BY <1>9, <1>10, <1>11, CountsOfBoth
<1> HIDE DEF S
<1> QED
  BY <1>8, <1>9, <1>14, <1>15, Zenon

\* Reports and codes: the days of the analytics differ from their breakdown by no more payments
\* than were written between the two queries; a payment of a form's report is of a submission it
\* has read, unless one of the two was written meanwhile; a walk comes to no group twice unless
\* groups go round in a circle or were moved; and every view of a code that was answered left a scan.
THEOREM ReadersCorrect == Spec => []ReadersAreTold
<1>1. Init => ReportsInv /\ ScansInv
  BY ReportsStart, ScansStart DEF Init
<1>2. ReportsInv /\ [Next]_vars => ReportsInv'
  BY StepsArePartsSteps, ReportsStay
<1>3. ScansInv /\ [Next]_vars => ScansInv'
  BY StepsArePartsSteps, ScansStay
<1>4. ReportsInv /\ ScansInv => ReadersAreTold
  BY ReportsAddUp, ReportsInvHolds, ScansInvHolds DEF ReadersAreTold, ReportsHold
<1> QED
  BY <1>1, <1>2, <1>3, <1>4, PTL DEF Spec

-----------------------------------------------------------------------------
(* Tasks: what each step of the back office does to those that take several. *)

\* A step takes a task from the stage s, the work w and the result n to s1, w1 and n1.
Turning(s, s1, w, w1, n, n1) ==
    \/ s1 = s /\ w1 = w /\ n1 = n
    \/ s = "new" /\ s1 = "open" /\ w1 = w /\ n1 = n
    \/ s = "open" /\ s1 = "open" /\ w \subseteq w1 /\ n1 = n
    \/ s = "open" /\ s1 = "over" /\ w \subseteq w1 /\ n1 = Cardinality(w1)
    \/ s \in {"new", "open"} /\ s1 = "lost" /\ n1 = n

\* What tasks count is counted as anywhere else.
LEMMA CountedAlike ==
    \A S : /\ MailTask!Cardinality(S) = Cardinality(S) /\ AuditTask!Cardinality(S) = Cardinality(S)
           /\ CallTask!Cardinality(S) = Cardinality(S) /\ JobTask!Cardinality(S) = Cardinality(S)
BY Zenon DEF MailTask!Cardinality, AuditTask!Cardinality, CallTask!Cardinality, JobTask!Cardinality, Cardinality

MailGoes(b) == Turning(MailStage(b), MailStage(b)', RowsOf(b), RowsOf(b)', broadcast[b].total, broadcast'[b].total)

\* A broadcast that was cut off is queued for good, and no request is at it.
HaltedInv ==
    \A b \in halted : broadcast[b].status = "queued" /\ \A r \in Clerks : sender[r].at # "idle" => sender[r].broadcast # b

LEMMA BroadcastsGoOn ==
    ASSUME \A b \in Broadcasts : MailGoes(b)
    PROVE  MailTask!TNext
<1> SUFFICES ASSUME NEW b \in Broadcasts
             PROVE  MailTask!Rest(b) \/ MailTask!Open(b) \/ MailTask!Do(b) \/ MailTask!Finish(b) \/ MailTask!Lose(b)
  BY Zenon DEF MailTask!TNext
<1>1. MailGoes(b)
  OBVIOUS
<1>2. /\ [c \in Broadcasts |-> MailStage(c)][b] = MailStage(b) /\ [c \in Broadcasts |-> MailStage(c)]'[b] = MailStage(b)'
      /\ [c \in Broadcasts |-> RowsOf(c)][b] = RowsOf(b) /\ [c \in Broadcasts |-> RowsOf(c)]'[b] = RowsOf(b)'
      /\ [c \in Broadcasts |-> broadcast[c].total][b] = broadcast[b].total
      /\ [c \in Broadcasts |-> broadcast[c].total]'[b] = broadcast'[b].total
  OBVIOUS
<1> QED
  BY <1>1, <1>2, CountedAlike DEF MailGoes, Turning, MailTask!Rest, MailTask!Open, MailTask!Do, MailTask!Finish, MailTask!Lose,
     MailTask!Turns, MailTask!Works, MailTask!Untold

\* A broadcast that a step leaves alone rests.
LEMMA MailRests ==
    ASSUME NEW b \in Broadcasts, broadcast'[b] = broadcast[b], RowsOf(b)' = RowsOf(b), b \in halted' <=> b \in halted
    PROVE  MailGoes(b)
<1>1. MailStage(b)' = MailStage(b)
  BY DEF MailStage
<1> QED
  BY <1>1 DEF MailGoes, Turning

\* A request goes on, and so does its broadcast: the others rest.
LEMMA OneMailMoves ==
    ASSUME BroadcastsInv, HaltedInv, NEW r \in Clerks, NEW new, NEW b \in Broadcasts,
           sender[r].at # "idle", b = sender[r].broadcast,
           sender' = [sender EXCEPT ![r] = new], new.at = "idle" \/ new.broadcast = b,
           \A c \in Broadcasts \ {b} : broadcast'[c] = broadcast[c] /\ RowsOf(c)' = RowsOf(c),
           halted' = halted \/ (halted' = halted \cup {b} /\ new.at = "idle" /\ broadcast'[b].status = "queued"),
           MailGoes(b)
    PROVE  HaltedInv' /\ \A c \in Broadcasts : MailGoes(c)
<1>1. b \notin halted
  BY DEF HaltedInv
<1>2. ASSUME NEW c \in Broadcasts PROVE MailGoes(c)
  <2>1. CASE c = b
    BY <2>1
  <2>2. CASE c # b
    <3>1. c \in halted' <=> c \in halted
      BY <2>2
    <3> QED
      BY <2>2, <3>1, MailRests
  <2> QED
    BY <2>1, <2>2
<1>3. sender'[r] = new /\ \A q \in Clerks \ {r} : sender'[q] = sender[q]
  BY DEF BroadcastsInv, BroadcastsTypeOK
<1>4. ASSUME NEW c \in halted' PROVE broadcast'[c].status = "queued" /\ \A q \in Clerks : sender'[q].at # "idle" => sender'[q].broadcast # c
  <2>1. CASE c \in halted
    <3>1. c # b /\ c \in Broadcasts
      BY <1>1, <2>1 DEF BroadcastsInv, BroadcastsTypeOK
    <3> QED
      BY <1>3, <2>1, <3>1 DEF HaltedInv
  <2>2. CASE c \notin halted
    <3>1. c = b /\ new.at = "idle" /\ broadcast'[b].status = "queued"
      BY <1>4, <2>2
    <3>2. \A q \in Clerks \ {r} : sender[q].at # "idle" => sender[q].broadcast # b
      BY OnlyOneAt
    <3> QED
      BY <1>3, <3>1, <3>2
  <2> QED
    BY <2>1, <2>2
<1>5. HaltedInv'
  BY <1>4 DEF HaltedInv
<1> QED
  BY <1>2, <1>5

\* A request's broadcast, and the place where it is at it.
LEMMA ASender ==
    ASSUME BroadcastsInv, HaltedInv, NEW r \in Clerks, sender[r].at # "idle"
    PROVE  /\ sender[r] \in Sender /\ sender[r].broadcast \in Broadcasts /\ sender[r].broadcast \notin halted
           /\ Sending(sender[r])
           /\ MailStage(sender[r].broadcast) = IF sender[r].at = "record" THEN "new" ELSE "open"
<1>1. PICK s \in Sender, b \in Broadcasts : s = sender[r] /\ b = s.broadcast /\ Sending(s)
  BY DEF BroadcastsInv, BroadcastsTypeOK, Sender
<1>2. b \notin halted
  BY <1>1 DEF HaltedInv
<1>3. broadcast[b].status = IF s.at = "record" THEN "none" ELSE "queued"
  BY <1>1 DEF Sending
<1>4. MailStage(b) = IF s.at = "record" THEN "new" ELSE "open"
  BY <1>2, <1>3 DEF MailStage
<1> QED
  BY <1>1, <1>2, <1>4

\* Requests that neither record, insert nor save only read or send.
LEMMA SendersOnlyTurn ==
    ASSUME BroadcastsInv, HaltedInv, NEW r \in Clerks, NEW new,
           sender[r].at # "idle", sender' = [sender EXCEPT ![r] = new], new.broadcast = sender[r].broadcast,
           UNCHANGED <<broadcast, delivery, halted>>
    PROVE  HaltedInv' /\ \A c \in Broadcasts : MailGoes(c)
<1>1. \A c : RowsOf(c)' = RowsOf(c)
  BY DEF RowsOf
<1>2. \A c \in Broadcasts : MailGoes(c)
  BY <1>1, MailRests
<1>3. sender[r].broadcast \in Broadcasts
  BY ASender
<1> QED
  BY <1>1, <1>2, <1>3, OneMailMoves

LEMMA BroadcastsOpen ==
    ASSUME BroadcastsInv, HaltedInv, NEW r \in Clerks, RecordBroadcast(r)
    PROVE  HaltedInv' /\ \A c \in Broadcasts : MailGoes(c)
<1>1. PICK s, b : s = sender[r] /\ b = s.broadcast
  OBVIOUS
<1>2. PICK new : new = [s EXCEPT !.at = "resolve"]
  OBVIOUS
<1>3. /\ s.at = "record" /\ broadcast' = [broadcast EXCEPT ![b].status = "queued"]
      /\ sender' = [sender EXCEPT ![r] = new] /\ delivery' = delivery /\ halted' = halted
  BY <1>1, <1>2, Zenon DEF RecordBroadcast, SenderTurns
<1>4. s \in Sender /\ b \in Broadcasts /\ b \notin halted /\ MailStage(b) = "new"
  BY <1>1, <1>3, ASender
<1>5. new.broadcast = b
  BY <1>1, <1>2, <1>4 DEF Sender
<1>6. /\ broadcast'[b].status = "queued" /\ broadcast'[b].total = broadcast[b].total
      /\ \A c \in Broadcasts \ {b} : broadcast'[c] = broadcast[c]
  <2>1. broadcast \in [Broadcasts -> BroadcastRow]
    BY DEF BroadcastsInv, BroadcastsTypeOK
  <2> QED
    BY <1>3, <1>4, <2>1 DEF BroadcastRow
<1>7. \A c : RowsOf(c)' = RowsOf(c)
  BY <1>3 DEF RowsOf
<1>8. MailStage(b)' = "open"
  BY <1>3, <1>4, <1>6 DEF MailStage
<1>9. MailGoes(b)
  BY <1>4, <1>6, <1>7, <1>8 DEF MailGoes, Turning
<1> QED
  BY <1>1, <1>3, <1>4, <1>5, <1>6, <1>7, <1>9, OneMailMoves

LEMMA RowsAreWork ==
    ASSUME BroadcastsInv, HaltedInv, NEW r \in Clerks, InsertChunk(r)
    PROVE  HaltedInv' /\ \A c \in Broadcasts : MailGoes(c)
<1>1. PICK s, b : s = sender[r] /\ b = s.broadcast
  OBVIOUS
<1>2. PICK rows \in SUBSET s.rest :
          /\ s.at = "insert" /\ delivery' = delivery \cup rows
          /\ sender' = [sender EXCEPT ![r] = [s EXCEPT !.rest = @ \ rows]]
          /\ UNCHANGED <<broadcast, halted>>
  BY <1>1 DEF InsertChunk, SenderTurns
<1>3. PICK new : new = [s EXCEPT !.rest = @ \ rows]
  OBVIOUS
<1>4. s \in Sender /\ b \in Broadcasts /\ b \notin halted /\ MailStage(b) = "open" /\ Sending(s)
  BY <1>1, <1>2, ASender
<1>5. new.broadcast = b
  BY <1>1, <1>3, <1>4 DEF Sender
<1>6. \A x \in rows : x.broadcast = b
  BY <1>1, <1>2, <1>4 DEF Sending, Inserted
<1>7. RowsOf(b) \subseteq RowsOf(b)' /\ \A c \in Broadcasts \ {b} : RowsOf(c)' = RowsOf(c)
  BY <1>2, <1>6 DEF RowsOf
<1>8. MailStage(b)' = "open"
  BY <1>2, <1>4 DEF MailStage
<1>9. MailGoes(b)
  BY <1>2, <1>4, <1>7, <1>8 DEF MailGoes, Turning
<1>10. sender' = [sender EXCEPT ![r] = new] /\ sender[r].at # "idle"
  BY <1>1, <1>2, <1>3
<1> QED
  BY <1>1, <1>2, <1>4, <1>5, <1>7, <1>9, <1>10, OneMailMoves

LEMMA BroadcastsEnd ==
    ASSUME BroadcastsInv, HaltedInv, NEW r \in Clerks, FinishBroadcast(r)
    PROVE  HaltedInv' /\ \A c \in Broadcasts : MailGoes(c)
<1>1. PICK s, b : s = sender[r] /\ b = s.broadcast
  OBVIOUS
<1>2. PICK status, t, i, j, k, row :
          /\ status = Outcome(s) /\ t = Cardinality(s.rows)
          /\ i = Counted(s.rows, "sent") /\ j = Counted(s.rows, "failed") /\ k = Counted(s.rows, "skipped")
          /\ row = [status |-> status, total |-> t, sent |-> i, failed |-> j, skipped |-> k]
  OBVIOUS
<1>3. /\ s.at = "finish" /\ broadcast' = [broadcast EXCEPT ![b] = row]
      /\ sender' = [sender EXCEPT ![r] = NoSender] /\ delivery' = delivery /\ halted' = halted
  BY <1>1, <1>2, Zenon DEF FinishBroadcast, SenderTurns
<1>4. s \in Sender /\ b \in Broadcasts /\ b \notin halted /\ MailStage(b) = "open" /\ Sending(s)
  BY <1>1, <1>3, ASender
<1>5. RowsOf(b) = s.rows
  BY <1>1, <1>3, <1>4 DEF Sending, Inserted
<1>6. broadcast'[b] = row /\ \A c \in Broadcasts \ {b} : broadcast'[c] = broadcast[c]
  <2>1. broadcast \in [Broadcasts -> BroadcastRow]
    BY DEF BroadcastsInv, BroadcastsTypeOK
  <2> QED
    BY <1>3, <1>4, <2>1
<1>7. \A c : RowsOf(c)' = RowsOf(c)
  BY <1>3 DEF RowsOf
<1>8. status \notin {"none", "queued"}
  BY <1>2 DEF Outcome
<1>9. MailStage(b)' = "over"
  <2>1. broadcast'[b].status = status
    BY <1>2, <1>6
  <2> QED
    BY <1>8, <2>1 DEF MailStage
<1>10. broadcast'[b].total = Cardinality(RowsOf(b)')
  <2>1. broadcast'[b].total = t
    BY <1>2, <1>6
  <2> QED
    BY <1>2, <1>5, <1>7, <2>1
<1>11. MailGoes(b)
  BY <1>4, <1>7, <1>9, <1>10 DEF MailGoes, Turning
<1>12. NoSender.at = "idle" /\ sender[r].at # "idle"
  BY <1>1, <1>3, NoOneSends
<1> QED
  BY <1>1, <1>3, <1>4, <1>6, <1>7, <1>11, <1>12, OneMailMoves

LEMMA BroadcastsAreLost ==
    ASSUME BroadcastsInv, HaltedInv, NEW r \in Clerks, BroadcastThrows(r)
    PROVE  HaltedInv' /\ \A c \in Broadcasts : MailGoes(c)
<1>1. PICK b : b = sender[r].broadcast
  OBVIOUS
<1>2. /\ sender[r].at \in {"resolve", "insert", "finish"} /\ sender' = [sender EXCEPT ![r] = NoSender]
      /\ halted' = halted \cup {b} /\ broadcast' = broadcast /\ delivery' = delivery
  BY <1>1 DEF BroadcastThrows
<1>3. b \in Broadcasts /\ MailStage(b) = "open" /\ Sending(sender[r])
  BY <1>1, <1>2, ASender
<1>4. broadcast'[b].status = "queued"
  BY <1>1, <1>2, <1>3 DEF Sending
<1>5. \A c : RowsOf(c)' = RowsOf(c)
  BY <1>2 DEF RowsOf
<1>6. MailStage(b)' = "lost"
  BY <1>2, <1>4 DEF MailStage
<1>7. MailGoes(b)
  BY <1>2, <1>3, <1>5, <1>6 DEF MailGoes, Turning
<1>8. NoSender.at = "idle" /\ sender[r].at # "idle"
  BY <1>2, NoOneSends
<1> QED
  BY <1>1, <1>2, <1>3, <1>4, <1>5, <1>7, <1>8, OneMailMoves

LEMMA SendersAreLost ==
    ASSUME BroadcastsInv, HaltedInv, SendersDie
    PROVE  HaltedInv' /\ \A c \in Broadcasts : MailGoes(c)
<1>1. /\ halted' = halted \cup {sender[r].broadcast : r \in {q \in Clerks : sender[q].at \notin {"idle", "record"}}}
      /\ sender' = [r \in Clerks |-> NoSender] /\ broadcast' = broadcast /\ delivery' = delivery
  BY DEF SendersDie
<1>2. \A c : RowsOf(c)' = RowsOf(c)
  BY <1>1 DEF RowsOf
<1>3. ASSUME NEW c \in halted', c \notin halted PROVE c \in Broadcasts /\ MailStage(c) = "open" /\ broadcast[c].status = "queued"
  <2>1. PICK r \in Clerks : sender[r].at \notin {"idle", "record"} /\ c = sender[r].broadcast
    BY <1>1, <1>3
  <2>2. c \in Broadcasts /\ MailStage(c) = "open" /\ Sending(sender[r])
    BY <2>1, ASender
  <2> QED
    BY <2>1, <2>2 DEF Sending
<1>4. ASSUME NEW c \in Broadcasts PROVE MailGoes(c)
  <2>1. CASE c \in halted' /\ c \notin halted
    <3>1. MailStage(c) = "open" /\ broadcast[c].status = "queued"
      BY <1>3, <2>1
    <3>2. MailStage(c)' = "lost"
      BY <1>1, <2>1, <3>1 DEF MailStage
    <3> QED
      BY <1>1, <3>1, <3>2 DEF MailGoes, Turning
  <2>2. CASE ~(c \in halted' /\ c \notin halted)
    BY <1>1, <1>2, <2>2, MailRests
  <2> QED
    BY <2>1, <2>2
<1>5. HaltedInv'
  <2>1. \A q \in Clerks : sender'[q].at = "idle"
    BY <1>1, NoOneSends
  <2>2. \A c \in halted' : broadcast'[c].status = "queued"
    BY <1>1, <1>3 DEF HaltedInv
  <2> QED
    BY <2>1, <2>2 DEF HaltedInv
<1> QED
  BY <1>4, <1>5

\* A broadcast is asked for that no request is at, and none was cut off.
LEMMA AskedIsNew ==
    ASSUME BroadcastsInv, HaltedInv, NEW r \in Clerks, NEW b \in Broadcasts, NEW orgs, NEW dry, AskBroadcast(r, b, orgs, dry)
    PROVE  HaltedInv' /\ \A c \in Broadcasts : MailGoes(c)
<1>1. PICK new : new = [NoSender EXCEPT !.at = "record", !.broadcast = b, !.orgs = orgs, !.dry = dry]
  OBVIOUS
<1>2. /\ broadcast[b].status = "none" /\ sender' = [sender EXCEPT ![r] = new]
      /\ broadcast' = broadcast /\ delivery' = delivery /\ halted' = halted
  BY <1>1 DEF AskBroadcast, Unsent
<1>3. \A c : RowsOf(c)' = RowsOf(c)
  BY <1>2 DEF RowsOf
<1>4. \A c \in Broadcasts : MailGoes(c)
  BY <1>2, <1>3, MailRests
<1>5. new.broadcast = b
  BY <1>1 DEF NoSender
<1>6. \A q \in Clerks : sender'[q] = IF q = r THEN new ELSE sender[q]
  BY <1>2 DEF BroadcastsInv, BroadcastsTypeOK
<1>7. HaltedInv'
  BY <1>2, <1>5, <1>6 DEF HaltedInv
<1> QED
  BY <1>4, <1>7

LEMMA MailsGoOn ==
    ASSUME BroadcastsInv, HaltedInv, BroadcastsNext \/ SendersDie \/ UNCHANGED broadcastVars
    PROVE  HaltedInv' /\ \A c \in Broadcasts : MailGoes(c)
<1>1. ASSUME UNCHANGED <<broadcast, delivery, halted, sender>> PROVE HaltedInv' /\ \A c \in Broadcasts : MailGoes(c)
  <2>1. \A c : RowsOf(c)' = RowsOf(c)
    BY <1>1 DEF RowsOf
  <2> QED
    BY <1>1, <2>1, MailRests DEF HaltedInv
<1>2. ASSUME NEW r \in Clerks, ResolveRecipients(r) PROVE HaltedInv' /\ \A c \in Broadcasts : MailGoes(c)
  <2>1. PICK s : s = sender[r]
    OBVIOUS
  <2>2. PICK chosen : /\ s.at = "resolve" /\ sender' = [sender EXCEPT ![r] = [s EXCEPT !.at = "send", !.todo = chosen]]
                      /\ UNCHANGED <<broadcast, delivery, halted>>
    BY <1>2, <2>1 DEF ResolveRecipients, SenderTurns
  <2>3. s \in Sender
    BY <2>1, <2>2, ASender
  <2>4. [s EXCEPT !.at = "send", !.todo = chosen].broadcast = s.broadcast
    BY <2>3 DEF Sender
  <2> QED
    BY <2>1, <2>2, <2>4, SendersOnlyTurn
<1>3. ASSUME NEW r \in Clerks, NEW a, NEW status, Send(r, a, status) PROVE HaltedInv' /\ \A c \in Broadcasts : MailGoes(c)
  <2>1. PICK s : s = sender[r]
    OBVIOUS
  <2>2. PICK row : row = [broadcast |-> s.broadcast, to |-> a, status |-> status]
    OBVIOUS
  <2>3. /\ s.at = "send" /\ sender' = [sender EXCEPT ![r] = [s EXCEPT !.todo = @ \ {a}, !.rows = @ \cup {row}]]
        /\ UNCHANGED <<broadcast, delivery, halted>>
    BY <1>3, <2>1, <2>2, Zenon DEF Send, SenderTurns
  <2>4. s \in Sender
    BY <2>1, <2>3, ASender
  <2>5. [s EXCEPT !.todo = @ \ {a}, !.rows = @ \cup {row}].broadcast = s.broadcast
    BY <2>4 DEF Sender
  <2> QED
    BY <2>1, <2>3, <2>5, SendersOnlyTurn
<1>4. ASSUME NEW r \in Clerks, SendsAreOver(r) \/ RowsAreIn(r) PROVE HaltedInv' /\ \A c \in Broadcasts : MailGoes(c)
  <2>1. PICK s : s = sender[r]
    OBVIOUS
  <2>2. PICK new : /\ new \in {[s EXCEPT !.at = "insert", !.rest = s.rows], [s EXCEPT !.at = "finish"]}
                   /\ s.at # "idle" /\ sender' = [sender EXCEPT ![r] = new] /\ UNCHANGED <<broadcast, delivery, halted>>
    BY <1>4, <2>1, Zenon DEF SendsAreOver, RowsAreIn, SenderTurns
  <2>3. s \in Sender
    BY <2>1, <2>2, ASender
  <2>4. new.broadcast = s.broadcast
    BY <2>2, <2>3 DEF Sender
  <2> QED
    BY <2>1, <2>2, <2>4, SendersOnlyTurn
<1>5. ASSUME NEW r \in Clerks, BroadcastStep(r) PROVE HaltedInv' /\ \A c \in Broadcasts : MailGoes(c)
  BY <1>2, <1>3, <1>4, <1>5, AskedIsNew, BroadcastsOpen, RowsAreWork, BroadcastsEnd, BroadcastsAreLost, Zenon DEF BroadcastStep
<1>6. ASSUME NEW o, OrganizationMoves(o) PROVE HaltedInv' /\ \A c \in Broadcasts : MailGoes(c)
  BY <1>1, <1>6 DEF OrganizationMoves
<1>7. ASSUME NEW a, AdminMoves(a) PROVE HaltedInv' /\ \A c \in Broadcasts : MailGoes(c)
  BY <1>1, <1>7 DEF AdminMoves
<1>8. CASE BroadcastsNext
  BY <1>5, <1>6, <1>7, <1>8 DEF BroadcastsNext
<1>9. CASE SendersDie
  BY <1>9, SendersAreLost
<1>10. CASE UNCHANGED broadcastVars
  BY <1>1, <1>10 DEF broadcastVars
<1> QED
  BY <1>8, <1>9, <1>10

\* Broadcasts are tasks: one is begun once and finished at most once, with a total that counts its
\* rows; its rows are never taken back; and no one touches one that is over or was cut off.
THEOREM BroadcastsAreTasks == Spec => MailTask!TSpec
<1>1. Init => BroadcastsInv /\ HaltedInv /\ MailTask!TInit
  <2> SUFFICES ASSUME BroadcastsInit PROVE BroadcastsInv /\ HaltedInv /\ MailTask!TInit
    BY DEF Init
  <2>1. \A b \in Broadcasts : MailStage(b) = "new" /\ RowsOf(b) = {} /\ broadcast[b].total = 0
    BY DEF BroadcastsInit, NoBroadcast, MailStage, RowsOf
  <2>2. MailTask!TInit
    BY <2>1 DEF MailTask!TInit
  <2>3. HaltedInv
    BY DEF BroadcastsInit, HaltedInv
  <2> QED
    BY <2>2, <2>3, BroadcastsStart
<1>2. BroadcastsInv /\ HaltedInv /\ [Next]_vars => BroadcastsInv' /\ HaltedInv' /\ MailTask!TNext
  BY StepsArePartsSteps, BroadcastsStay, MailsGoOn, BroadcastsGoOn
<1> QED
  BY <1>1, <1>2, PTL DEF Spec, MailTask!TSpec

-----------------------------------------------------------------------------
(* Reconciliations. *)

AuditGoes(n) == Turning(AuditStage(n), AuditStage(n)', Findings(n), Findings(n)', audit[n].found, audit'[n].found)

\* A run that was cut off is being processed for good, and no request is at it.
BrokenInv ==
    \A n \in broken : audit[n].status = "PROCESSING" /\ \A r \in Clerks : agent[r].at \in Auditing => agent[r].audit # n

LEMMA AuditsGo ==
    ASSUME \A n \in Audits : AuditGoes(n)
    PROVE  AuditTask!TNext
<1> SUFFICES ASSUME NEW n \in Audits
             PROVE  AuditTask!Rest(n) \/ AuditTask!Open(n) \/ AuditTask!Do(n) \/ AuditTask!Finish(n) \/ AuditTask!Lose(n)
  BY Zenon DEF AuditTask!TNext
<1>1. AuditGoes(n)
  OBVIOUS
<1>2. /\ [m \in Audits |-> AuditStage(m)][n] = AuditStage(n) /\ [m \in Audits |-> AuditStage(m)]'[n] = AuditStage(n)'
      /\ [m \in Audits |-> Findings(m)][n] = Findings(n) /\ [m \in Audits |-> Findings(m)]'[n] = Findings(n)'
      /\ [m \in Audits |-> audit[m].found][n] = audit[n].found
      /\ [m \in Audits |-> audit[m].found]'[n] = audit'[n].found
  OBVIOUS
<1> QED
  BY <1>1, <1>2, CountedAlike DEF AuditGoes, Turning, AuditTask!Rest, AuditTask!Open, AuditTask!Do, AuditTask!Finish,
     AuditTask!Lose, AuditTask!Turns, AuditTask!Works, AuditTask!Untold

LEMMA AuditRests ==
    ASSUME NEW n \in Audits, audit'[n] = audit[n], Findings(n)' = Findings(n), n \in broken' <=> n \in broken
    PROVE  AuditGoes(n)
<1>1. AuditStage(n)' = AuditStage(n)
  BY DEF AuditStage
<1> QED
  BY <1>1 DEF AuditGoes, Turning

\* What a request does that is at no run afterwards, and touches none.
LEMMA OutOfBooks ==
    ASSUME MarketInv, BrokenInv, UNCHANGED <<audit, exception, broken>>, NEW r, NEW new,
           agent' = [agent EXCEPT ![r] = new], new.at \notin Auditing
    PROVE  BrokenInv' /\ \A n \in Audits : AuditGoes(n)
<1>1. \A n : Findings(n)' = Findings(n)
  BY DEF Findings
<1>2. \A q \in Clerks : agent'[q].at \in Auditing => agent'[q] = agent[q]
  BY DEF MarketInv, MarketTypeOK
<1> QED
  BY <1>1, <1>2, AuditRests DEF BrokenInv

LEMMA NoneOfTheBooks ==
    ASSUME MarketInv, BrokenInv, UNCHANGED <<audit, exception, broken, agent>>
    PROVE  BrokenInv' /\ \A n \in Audits : AuditGoes(n)
<1>1. \A n : Findings(n)' = Findings(n)
  BY DEF Findings
<1> QED
  BY <1>1, AuditRests DEF BrokenInv

LEMMA SetupIsAside ==
    ASSUME MarketInv, BrokenInv, NEW r \in Clerks, AskSetup(r) \/ SetupStep(r)
    PROVE  BrokenInv' /\ \A n \in Audits : AuditGoes(n)
<1>1. ASSUME NEW on, AskFlags(r, on) PROVE BrokenInv' /\ \A n \in Audits : AuditGoes(n)
  <2>1. PICK new : new = [NoAgent EXCEPT !.at = "flags", !.on = on]
    OBVIOUS
  <2>2. agent' = [agent EXCEPT ![r] = new] /\ UNCHANGED <<audit, exception, broken>>
    BY <1>1, <2>1 DEF AskFlags, bookVars
  <2>3. new.at = "flags"
    BY <2>1, NoOneSetsUp DEF Agent
  <2> QED
    BY <2>2, <2>3, OutOfBooks DEF Auditing
<1>2. ASSUME NEW s, NEW status, AskSession(r, s, status) PROVE BrokenInv' /\ \A n \in Audits : AuditGoes(n)
  <2>1. PICK row : row = Restated(session[s], status)
    OBVIOUS
  <2>2. PICK new : new = [NoAgent EXCEPT !.at = "session", !.session = s, !.row = row]
    OBVIOUS
  <2>3. agent' = [agent EXCEPT ![r] = new] /\ UNCHANGED <<audit, exception, broken>>
    BY <1>2, <2>1, <2>2, Zenon DEF AskSession, Asks, bookVars
  <2>4. new.at = "session"
    BY <2>2, NoOneSetsUp DEF Agent
  <2> QED
    BY <2>3, <2>4, OutOfBooks DEF Auditing
<1>3. ASSUME NEW t, NEW status, AskTenant(r, t, status) PROVE BrokenInv' /\ \A n \in Audits : AuditGoes(n)
  <2>1. PICK known : known = (tenant[t] # "none")
    OBVIOUS
  <2>2. PICK new : new = [NoAgent EXCEPT !.at = "tenant", !.tenant = t, !.status = status, !.known = known]
    OBVIOUS
  <2>3. agent' = [agent EXCEPT ![r] = new] /\ UNCHANGED <<audit, exception, broken>>
    BY <1>3, <2>1, <2>2, Zenon DEF AskTenant, Asks, bookVars
  <2>4. new.at = "tenant"
    BY <2>2, NoOneSetsUp DEF Agent
  <2> QED
    BY <2>3, <2>4, OutOfBooks DEF Auditing
<1>4. ASSUME SetupStep(r) PROVE BrokenInv' /\ \A n \in Audits : AuditGoes(n)
  <2>1. agent' = [agent EXCEPT ![r] = NoAgent] /\ UNCHANGED <<audit, exception, broken>>
    BY <1>4, Zenon DEF SetupStep, UpdateFlags, SaveSession, SaveTenant, Ends, AgentTurns, bookVars
  <2> QED
    BY <2>1, NoOneSetsUp, OutOfBooks DEF Auditing
<1> QED
  BY <1>1, <1>2, <1>3, <1>4, Zenon DEF AskSetup

LEMMA PlansAreAside ==
    ASSUME MarketInv, BrokenInv, NEW r \in Clerks, AskPlans(r) \/ PlanStep(r)
    PROVE  BrokenInv' /\ \A n \in Audits : AuditGoes(n)
<1>1. ASSUME NEW p, NEW total, NEW parts, CreatePlan(r, p, total, parts) PROVE BrokenInv' /\ \A n \in Audits : AuditGoes(n)
  <2>1. PICK new : new = [NoAgent EXCEPT !.at = "insert", !.plan = p, !.parts = parts]
    OBVIOUS
  <2>2. agent' = [agent EXCEPT ![r] = new] /\ UNCHANGED <<audit, exception, broken>>
    BY <1>1, <2>1, Zenon DEF CreatePlan, Asks, bookVars
  <2>3. new.at = "insert"
    BY <2>1, NoOneSetsUp DEF Agent
  <2> QED
    BY <2>2, <2>3, OutOfBooks DEF Auditing
<1>2. ASSUME NEW p, NEW total, NEW parts, NEW relist, AskPlan(r, p, total, parts, relist)
      PROVE  BrokenInv' /\ \A n \in Audits : AuditGoes(n)
  <2>1. PICK new : new = [NoAgent EXCEPT !.at = "items", !.plan = p, !.total = total, !.parts = parts, !.relist = relist]
    OBVIOUS
  <2>2. agent' = [agent EXCEPT ![r] = new] /\ UNCHANGED <<audit, exception, broken>>
    BY <1>2, <2>1, Zenon DEF AskPlan, Asks, bookVars
  <2>3. new.at = "items"
    BY <2>1, NoOneSetsUp DEF Agent
  <2> QED
    BY <2>2, <2>3, OutOfBooks DEF Auditing
<1>3. ASSUME NEW p, NEW holders, AskAssign(r, p, holders) PROVE BrokenInv' /\ \A n \in Audits : AuditGoes(n)
  <2>1. PICK new : new = [NoAgent EXCEPT !.at = "accounts", !.plan = p, !.total = plan[p], !.holders = holders]
    OBVIOUS
  <2>2. agent' = [agent EXCEPT ![r] = new] /\ UNCHANGED <<audit, exception, broken>>
    BY <1>3, <2>1, Zenon DEF AskAssign, Asks, bookVars
  <2>3. new.at = "accounts"
    BY <2>1, NoOneSetsUp DEF Agent
  <2> QED
    BY <2>2, <2>3, OutOfBooks DEF Auditing
<1>4. ASSUME PlanStep(r) PROVE BrokenInv' /\ \A n \in Audits : AuditGoes(n)
  <2>1. PICK a : a = agent[r]
    OBVIOUS
  <2>2. PICK rest : rest = Unassigned(r)
    OBVIOUS
  <2>3. UNCHANGED <<audit, exception, broken>>
    BY <1>4, Zenon DEF PlanStep, SavePlan, DeleteItems, InsertItems, ItemsThrow, ReadAccounts, OpenAccounts, bookVars
  <2>4. PICK new : /\ new \in {NoAgent, [a EXCEPT !.at = "delete"], [a EXCEPT !.at = "insert"]}
                        \/ (a.at = "accounts" /\ new = [a EXCEPT !.holders = rest, !.known = TRUE])
                   /\ agent' = [agent EXCEPT ![r] = new]
    BY <1>4, <2>1, <2>2, Zenon DEF PlanStep, SavePlan, DeleteItems, InsertItems, ItemsThrow, ReadAccounts, OpenAccounts,
       Ends, AgentTurns
  <2>5. a \in Agent
    BY <2>1 DEF MarketInv, MarketTypeOK
  <2>6. new.at \in {"idle", "delete", "insert", "accounts"}
    BY <2>4, <2>5, NoOneSetsUp DEF Agent
  <2> QED
    BY <2>3, <2>4, <2>6, OutOfBooks DEF Auditing
<1> QED
  BY <1>1, <1>2, <1>3, <1>4, Zenon DEF AskPlans

\* A run's request, and the run it is at.
LEMMA AnAuditor ==
    ASSUME MarketInv, BrokenInv, NEW r \in Clerks, agent[r].at \in Auditing
    PROVE  /\ agent[r] \in Agent /\ agent[r].audit \in Audits /\ agent[r].audit \notin broken
           /\ audit[agent[r].audit].status = "PROCESSING" /\ AuditStage(agent[r].audit) = "open"
           /\ \A q \in Clerks \ {r} : agent[q].at \in Auditing => agent[q].audit # agent[r].audit
<1>1. PICK n : n = agent[r].audit
  OBVIOUS
<1>2. agent[r] \in Agent /\ n \in Audits /\ n \notin broken
  BY <1>1 DEF MarketInv, MarketTypeOK, Agent, BrokenInv
<1>3. audit[n].status = "PROCESSING" /\ \A q \in Clerks \ {r} : agent[q].at \in Auditing => agent[q].audit # n
  BY <1>1 DEF MarketInv, AuditsInv
<1>4. AuditStage(n) = "open"
  BY <1>2, <1>3 DEF AuditStage
<1> QED
  BY <1>1, <1>2, <1>3, <1>4

\* A request goes on with its run: the others rest.
LEMMA OneAuditMoves ==
    ASSUME MarketInv, BrokenInv, NEW r \in Clerks, NEW new, NEW n \in Audits,
           n \notin broken, \A q \in Clerks \ {r} : agent[q].at \in Auditing => agent[q].audit # n,
           agent' = [agent EXCEPT ![r] = new], new.at \notin Auditing \/ new.audit = n,
           \A m \in Audits \ {n} : audit'[m] = audit[m] /\ Findings(m)' = Findings(m),
           broken' = broken \/ (broken' = broken \cup {n} /\ new.at \notin Auditing /\ audit'[n].status = "PROCESSING"),
           AuditGoes(n)
    PROVE  BrokenInv' /\ \A m \in Audits : AuditGoes(m)
<1>1. ASSUME NEW m \in Audits PROVE AuditGoes(m)
  <2>1. CASE m = n
    BY <2>1
  <2>2. CASE m # n
    <3>1. m \in broken' <=> m \in broken
      BY <2>2
    <3> QED
      BY <2>2, <3>1, AuditRests
  <2> QED
    BY <2>1, <2>2
<1>2. agent'[r] = new /\ \A q \in Clerks \ {r} : agent'[q] = agent[q]
  BY DEF MarketInv, MarketTypeOK
<1>3. ASSUME NEW m \in broken'
      PROVE  audit'[m].status = "PROCESSING" /\ \A q \in Clerks : agent'[q].at \in Auditing => agent'[q].audit # m
  <2>1. CASE m \in broken
    <3>1. m # n /\ m \in Audits
      BY <2>1 DEF MarketInv, MarketTypeOK
    <3> QED
      BY <1>2, <2>1, <3>1 DEF BrokenInv
  <2>2. CASE m \notin broken
    <3>1. m = n /\ new.at \notin Auditing /\ audit'[n].status = "PROCESSING"
      BY <1>3, <2>2
    <3> QED
      BY <1>2, <3>1
  <2> QED
    BY <2>1, <2>2
<1>4. BrokenInv'
  BY <1>3 DEF BrokenInv
<1> QED
  BY <1>1, <1>4

LEMMA AuditOpens ==
    ASSUME MarketInv, BrokenInv, NEW r \in Clerks, AskAudit(r)
    PROVE  BrokenInv' /\ \A m \in Audits : AuditGoes(m)
<1>1. PICK n \in Audits :
          /\ audit[n].status = "none"
          /\ audit' = [audit EXCEPT ![n].status = "PROCESSING"]
          /\ Asks(r, "books", "reconciliation", [NoAgent EXCEPT !.at = "scan", !.audit = n])
          /\ exception' = exception /\ broken' = broken
  BY DEF AskAudit
<1>2. PICK new : new = [NoAgent EXCEPT !.at = "scan", !.audit = n]
  OBVIOUS
<1>3. new.audit = n
  BY <1>2, NoOneSetsUp DEF Agent
<1>4. agent' = [agent EXCEPT ![r] = new]
  BY <1>1, <1>2, Zenon DEF Asks
<1>5. /\ audit'[n].status = "PROCESSING" /\ audit'[n].found = audit[n].found
      /\ \A m \in Audits \ {n} : audit'[m] = audit[m]
  BY <1>1 DEF MarketInv, MarketTypeOK, AuditRow
<1>6. \A m : Findings(m)' = Findings(m)
  BY <1>1 DEF Findings
<1>7. n \notin broken
  BY <1>1 DEF BrokenInv
<1>8. AuditStage(n) = "new" /\ AuditStage(n)' = "open"
  BY <1>1, <1>5, <1>7 DEF AuditStage
<1>9. AuditGoes(n)
  BY <1>5, <1>6, <1>8 DEF AuditGoes, Turning
<1>10. \A q \in Clerks \ {r} : agent[q].at \in Auditing => agent[q].audit # n
  BY <1>1 DEF MarketInv, AuditsInv
<1> QED
  BY <1>1, <1>3, <1>4, <1>5, <1>6, <1>7, <1>9, <1>10, OneAuditMoves

LEMMA AuditScans ==
    ASSUME MarketInv, BrokenInv, NEW r \in Clerks, Scan(r)
    PROVE  BrokenInv' /\ \A m \in Audits : AuditGoes(m)
<1>1. PICK n : n = agent[r].audit
  OBVIOUS
<1>2. PICK rows : rows = {<<p, entry[p]>> : p \in {q \in Entries : entry[q] # "fine"}}
  OBVIOUS
<1>3. PICK new : new = [agent[r] EXCEPT !.at = "exceptions", !.found = rows]
  OBVIOUS
<1>4. agent[r].at = "scan" /\ agent' = [agent EXCEPT ![r] = new] /\ UNCHANGED <<audit, exception, broken>>
  BY <1>2, <1>3, Zenon DEF Scan, AgentTurns, bookVars
<1>5. /\ agent[r] \in Agent /\ n \in Audits /\ n \notin broken
      /\ \A q \in Clerks \ {r} : agent[q].at \in Auditing => agent[q].audit # n
  BY <1>1, <1>4, AnAuditor DEF Auditing
<1>6. new.audit = n
  BY <1>1, <1>3, <1>5 DEF Agent
<1>7. \A m : Findings(m)' = Findings(m)
  BY <1>4 DEF Findings
<1>8. \A m \in Audits : AuditGoes(m)
  BY <1>4, <1>7, AuditRests
<1> QED
  BY <1>4, <1>5, <1>6, <1>7, <1>8, OneAuditMoves

LEMMA FindingsAreSaved ==
    ASSUME MarketInv, BrokenInv, NEW r \in Clerks, SaveExceptions(r)
    PROVE  BrokenInv' /\ \A m \in Audits : AuditGoes(m)
<1>1. PICK n, more : n = agent[r].audit /\ more = {OpenOf(n, x) : x \in agent[r].found}
  OBVIOUS
<1>2. PICK new : new = [agent[r] EXCEPT !.at = "complete"]
  OBVIOUS
<1>3. /\ agent[r].at = "exceptions" /\ agent' = [agent EXCEPT ![r] = new] /\ exception' = exception \cup more
      /\ UNCHANGED <<audit, broken>>
  BY <1>1, <1>2, Zenon DEF SaveExceptions, AgentTurns, OpenOf
<1>4. /\ agent[r] \in Agent /\ n \in Audits /\ n \notin broken /\ AuditStage(n) = "open"
      /\ \A q \in Clerks \ {r} : agent[q].at \in Auditing => agent[q].audit # n
  BY <1>1, <1>3, AnAuditor DEF Auditing
<1>5. new.audit = n
  BY <1>1, <1>2, <1>4 DEF Agent
<1>6. \A x \in more : x.audit = n
  BY <1>1 DEF OpenOf
<1>7. Findings(n) \subseteq Findings(n)' /\ \A m \in Audits \ {n} : Findings(m)' = Findings(m)
  <2>1. \A m : {y \in exception : y.audit = m} \subseteq {y \in exception' : y.audit = m}
    BY <1>3
  <2>2. \A m \in Audits \ {n} : {y \in exception' : y.audit = m} = {y \in exception : y.audit = m}
    BY <1>3, <1>6
  <2> QED
    BY <2>1, <2>2 DEF Findings
<1>8. AuditStage(n)' = "open"
  BY <1>3, <1>4 DEF AuditStage
<1>9. AuditGoes(n)
  BY <1>3, <1>4, <1>7, <1>8 DEF AuditGoes, Turning
<1> QED
  BY <1>3, <1>4, <1>5, <1>7, <1>9, OneAuditMoves

\* Each finding of a run is that of one exception.
LEMMA FindingsAreRows ==
    ASSUME MarketInv, NEW n \in Audits
    PROVE  Cardinality(Findings(n)) = Cardinality(RowsIn(exception, n))
<1>1. PICK rows, found : rows = RowsIn(exception, n) /\ found = Findings(n)
  OBVIOUS
<1>2. IsFiniteSet(rows) /\ \A x, y \in rows : x.entry = y.entry /\ x.type = y.type => x = y
  BY <1>1 DEF MarketInv, AuditsInv, RowsIn
<1>3. found = {<<x.entry, x.type>> : x \in rows}
  BY <1>1 DEF Findings, RowsIn
<1>4. PICK f : f = [x \in rows |-> <<x.entry, x.type>>]
  OBVIOUS
<1>5. f \in [rows -> found]
  BY <1>3, <1>4
<1>6. \A x, y \in rows : f[x] = f[y] => x = y
  BY <1>2, <1>4
<1>7. \A t \in found : \E x \in rows : f[x] = t
  BY <1>3, <1>4
<1> QED
  BY <1>1, <1>2, <1>5, <1>6, <1>7, PairedOff

LEMMA AuditFinishes ==
    ASSUME MarketInv, BrokenInv, NEW r \in Clerks, CompleteAudit(r)
    PROVE  BrokenInv' /\ \A m \in Audits : AuditGoes(m)
<1>1. PICK n, size : n = agent[r].audit /\ size = Cardinality(agent[r].found)
  OBVIOUS
<1>2. /\ agent[r].at = "complete" /\ agent' = [agent EXCEPT ![r] = NoAgent]
      /\ audit' = [audit EXCEPT ![n] = [status |-> "COMPLETED", found |-> size]]
      /\ UNCHANGED <<exception, broken>>
  BY <1>1, Zenon DEF CompleteAudit, Ends, AgentTurns
<1>3. /\ n \in Audits /\ n \notin broken /\ AuditStage(n) = "open"
      /\ \A q \in Clerks \ {r} : agent[q].at \in Auditing => agent[q].audit # n
  BY <1>1, <1>2, AnAuditor DEF Auditing
<1>4. audit'[n] = [status |-> "COMPLETED", found |-> size] /\ \A m \in Audits \ {n} : audit'[m] = audit[m]
  BY <1>2, <1>3 DEF MarketInv, MarketTypeOK
<1>5. \A m : Findings(m)' = Findings(m)
  BY <1>2 DEF Findings
<1>6. size = Cardinality(Findings(n))
  <2>1. size = Cardinality(RowsIn(exception, n))
    BY <1>1, <1>2 DEF MarketInv, AuditsInv, Auditing
  <2> QED
    BY <1>3, <2>1, FindingsAreRows
<1>7. AuditStage(n)' = "over"
  BY <1>4 DEF AuditStage
<1>8. audit'[n].found = Cardinality(Findings(n)')
  BY <1>4, <1>5, <1>6
<1>9. AuditGoes(n)
  BY <1>3, <1>5, <1>7, <1>8 DEF AuditGoes, Turning
<1> QED
  BY <1>2, <1>3, <1>4, <1>5, <1>9, NoOneSetsUp, OneAuditMoves DEF Auditing

LEMMA AuditIsLost ==
    ASSUME MarketInv, BrokenInv, NEW r \in Clerks, AuditThrows(r)
    PROVE  BrokenInv' /\ \A m \in Audits : AuditGoes(m)
<1>1. PICK n : n = agent[r].audit
  OBVIOUS
<1>2. /\ agent[r].at \in Auditing /\ agent' = [agent EXCEPT ![r] = NoAgent] /\ broken' = broken \cup {n}
      /\ audit' = audit /\ exception' = exception
  BY <1>1 DEF AuditThrows, Auditing
<1>3. /\ n \in Audits /\ n \notin broken /\ AuditStage(n) = "open" /\ audit[n].status = "PROCESSING"
      /\ \A q \in Clerks \ {r} : agent[q].at \in Auditing => agent[q].audit # n
  BY <1>1, <1>2, AnAuditor
<1>4. \A m : Findings(m)' = Findings(m)
  BY <1>2 DEF Findings
<1>5. AuditStage(n)' = "lost"
  BY <1>2, <1>3 DEF AuditStage
<1>6. AuditGoes(n)
  BY <1>2, <1>3, <1>4, <1>5 DEF AuditGoes, Turning
<1>7. NoAgent.at \notin Auditing
  BY NoOneSetsUp DEF Auditing
<1> QED
  BY <1>2, <1>3, <1>4, <1>6, <1>7, OneAuditMoves

LEMMA ResolvingRests ==
    ASSUME MarketInv, BrokenInv, NEW x, NEW status, UpdateException(x, status)
    PROVE  BrokenInv' /\ \A m \in Audits : AuditGoes(m)
<1>1. PICK y : y = [x EXCEPT !.status = status]
  OBVIOUS
<1>2. /\ x \in exception /\ exception' = (exception \ {x}) \cup {y} /\ UNCHANGED <<audit, broken, agent>>
  BY <1>1 DEF UpdateException
<1>3. y.audit = x.audit /\ y.entry = x.entry /\ y.type = x.type
  BY <1>1, <1>2 DEF MarketInv, MarketTypeOK
<1>4. ASSUME NEW n PROVE Findings(n)' = Findings(n)
  <2>1. Findings(n) = {<<z.entry, z.type>> : z \in {v \in exception : v.audit = n}}
    BY DEF Findings
  <2>2. Findings(n)' = {<<z.entry, z.type>> : z \in {v \in exception' : v.audit = n}}
    BY DEF Findings
  <2>3. ASSUME NEW z \in exception
        PROVE  \E w \in exception' : w.audit = z.audit /\ w.entry = z.entry /\ w.type = z.type
    BY <1>2, <1>3
  <2>4. ASSUME NEW z \in exception'
        PROVE  \E w \in exception : w.audit = z.audit /\ w.entry = z.entry /\ w.type = z.type
    BY <1>2, <1>3
  <2>5. Findings(n) \subseteq Findings(n)'
    BY <2>1, <2>2, <2>3
  <2>6. Findings(n)' \subseteq Findings(n)
    BY <2>1, <2>2, <2>4
  <2> QED
    BY <2>5, <2>6
<1>5. \A n \in Audits : AuditGoes(n)
  BY <1>2, <1>4, AuditRests
<1>6. BrokenInv'
  BY <1>2 DEF BrokenInv
<1> QED
  BY <1>5, <1>6

LEMMA AuditorsAreLost ==
    ASSUME MarketInv, BrokenInv, AgentsDie
    PROVE  BrokenInv' /\ \A m \in Audits : AuditGoes(m)
<1>1. /\ broken' = broken \cup {agent[r].audit : r \in {q \in Clerks : agent[q].at \in Auditing}}
      /\ agent' = [r \in Clerks |-> NoAgent] /\ audit' = audit /\ exception' = exception
  BY DEF AgentsDie, Auditing
<1>2. \A m : Findings(m)' = Findings(m)
  BY <1>1 DEF Findings
<1>3. ASSUME NEW m \in broken', m \notin broken PROVE m \in Audits /\ AuditStage(m) = "open" /\ audit[m].status = "PROCESSING"
  <2>1. PICK r \in Clerks : agent[r].at \in Auditing /\ m = agent[r].audit
    BY <1>1, <1>3
  <2> QED
    BY <2>1, AnAuditor
<1>4. ASSUME NEW m \in Audits PROVE AuditGoes(m)
  <2>1. CASE m \in broken' /\ m \notin broken
    <3>1. AuditStage(m) = "open" /\ audit[m].status = "PROCESSING"
      BY <1>3, <2>1
    <3>2. AuditStage(m)' = "lost"
      BY <1>1, <2>1, <3>1 DEF AuditStage
    <3> QED
      BY <1>1, <3>1, <3>2 DEF AuditGoes, Turning
  <2>2. CASE ~(m \in broken' /\ m \notin broken)
    BY <1>1, <1>2, <2>2, AuditRests
  <2> QED
    BY <2>1, <2>2
<1>5. BrokenInv'
  <2>1. \A q \in Clerks : agent'[q].at \notin Auditing
    BY <1>1, NoOneSetsUp DEF Auditing
  <2>2. \A m \in broken' : audit'[m].status = "PROCESSING"
    BY <1>1, <1>3 DEF BrokenInv
  <2> QED
    BY <2>1, <2>2 DEF BrokenInv
<1> QED
  BY <1>4, <1>5

LEMMA AuditsMoveOn ==
    ASSUME MarketInv, BrokenInv, MarketNext \/ AgentsDie \/ UNCHANGED marketVars
    PROVE  BrokenInv' /\ \A m \in Audits : AuditGoes(m)
<1>1. ASSUME NEW s, CreateSession(s) PROVE BrokenInv' /\ \A m \in Audits : AuditGoes(m)
  BY <1>1, NoneOfTheBooks DEF CreateSession, bookVars
<1>2. ASSUME NEW p, NEW w, EntryMoves(p, w) PROVE BrokenInv' /\ \A m \in Audits : AuditGoes(m)
  BY <1>2, NoneOfTheBooks DEF EntryMoves
<1>3. ASSUME NEW r \in Clerks, AuditStep(r) PROVE BrokenInv' /\ \A m \in Audits : AuditGoes(m)
  BY <1>3, AuditScans, FindingsAreSaved, AuditFinishes, AuditIsLost, Zenon DEF AuditStep
<1>4. CASE MarketNext
  BY <1>1, <1>2, <1>3, <1>4, SetupIsAside, PlansAreAside, AuditOpens, ResolvingRests, Zenon DEF MarketNext
<1>5. CASE AgentsDie
  BY <1>5, AuditorsAreLost
<1>6. CASE UNCHANGED marketVars
  BY <1>6, NoneOfTheBooks DEF marketVars
<1> QED
  BY <1>4, <1>5, <1>6

\* Reconciliation runs are tasks: what one finds is all saved before it says so, with its number;
\* and however its exceptions are resolved, what it found stays as it is, as does the number.
THEOREM AuditsAreTasks == Spec => AuditTask!TSpec
<1>1. Init => MarketInv /\ BrokenInv /\ AuditTask!TInit
  <2> SUFFICES ASSUME MarketInit PROVE MarketInv /\ BrokenInv /\ AuditTask!TInit
    BY DEF Init
  <2>1. \A n \in Audits : AuditStage(n) = "new" /\ Findings(n) = {} /\ audit[n].found = 0
    BY DEF MarketInit, AuditStage, Findings
  <2>2. AuditTask!TInit
    BY <2>1 DEF AuditTask!TInit
  <2>3. BrokenInv
    BY DEF MarketInit, BrokenInv
  <2> QED
    BY <2>2, <2>3, MarketStarts
<1>2. MarketInv /\ BrokenInv /\ [Next]_vars => MarketInv' /\ BrokenInv' /\ AuditTask!TNext
  BY StepsArePartsSteps, MarketStays, AuditsMoveOn, AuditsGo
<1> QED
  BY <1>1, <1>2, PTL DEF Spec, AuditTask!TSpec

-----------------------------------------------------------------------------
(* Requests, and their logs. *)

Told(c) == IF Answered(c) THEN LogsDue(call[c].op) ELSE 0

CallGoes(c) == Turning(CallStage(c), CallStage(c)', LogsOf(c), LogsOf(c)', Told(c), Told(c)')

\* A request's logs are of the kinds that its operation leaves, and each comes at the end of its step.
Logging(c, k) ==
    /\ LoggedBy(c, "interceptor") => k.write = "over"
    /\ LoggedBy(c, "interceptor") \/ k.write \in {"column", "insert"} => k.op # "silent"
    /\ LoggedBy(c, "service") => k.at = "done" /\ Complies(k.op)
    /\ k.at \in {"contacts", "submissions", "logs", "save", "log"} => Complies(k.op)

\* No request has two logs of a kind.
LogsOnce == \A x, y \in Logs : x.call = y.call /\ x.by = y.by => x = y

LogsInv == LogsOnce /\ \A c \in Calls : Logging(c, call[c])

LEMMA CallsGo ==
    ASSUME \A c \in Calls : CallGoes(c)
    PROVE  CallTask!TNext
<1> SUFFICES ASSUME NEW c \in Calls
             PROVE  CallTask!Rest(c) \/ CallTask!Open(c) \/ CallTask!Do(c) \/ CallTask!Finish(c) \/ CallTask!Lose(c)
  BY Zenon DEF CallTask!TNext
<1>1. CallGoes(c)
  OBVIOUS
<1>2. PICK results, results1 : /\ results = [d \in Calls |-> IF Answered(d) THEN LogsDue(call[d].op) ELSE 0]
                               /\ results1 = [d \in Calls |-> IF Answered(d) THEN LogsDue(call[d].op) ELSE 0]'
  OBVIOUS
<1>3. results[c] = Told(c) /\ results1[c] = Told(c)'
  BY <1>2 DEF Told
<1>4. /\ [d \in Calls |-> CallStage(d)][c] = CallStage(c) /\ [d \in Calls |-> CallStage(d)]'[c] = CallStage(c)'
      /\ [d \in Calls |-> LogsOf(d)][c] = LogsOf(c) /\ [d \in Calls |-> LogsOf(d)]'[c] = LogsOf(c)'
      /\ [d \in Calls |-> IF Answered(d) THEN LogsDue(call[d].op) ELSE 0][c] = Told(c)
      /\ [d \in Calls |-> IF Answered(d) THEN LogsDue(call[d].op) ELSE 0]'[c] = Told(c)'
  BY <1>2, <1>3
<1> QED
  BY <1>1, <1>4, CountedAlike DEF CallGoes, Turning, CallTask!Rest, CallTask!Open, CallTask!Do, CallTask!Finish,
     CallTask!Lose, CallTask!Turns, CallTask!Works, CallTask!Untold

\* At most one log by the service and one by the interceptor, of those that leave one, are as many as are due.
LEMMA LogsAddUp ==
    ASSUME NEW op, NEW rows, \A x \in rows : x.by \in {"service", "interceptor"},
           \A x, y \in rows : x.by = y.by => x = y,
           (\E x \in rows : x.by = "interceptor") <=> op # "silent",
           (\E x \in rows : x.by = "service") <=> Complies(op)
    PROVE  LogsDue(op) = Cardinality(rows)
<1>1. CASE op = "silent"
  <2>1. rows = {}
    BY <1>1 DEF Complies
  <2>2. LogsDue(op) = 0
    BY <1>1 DEF LogsDue
  <2> QED
    BY <2>1, <2>2, FS_EmptySet
<1>2. CASE op # "silent" /\ ~Complies(op)
  <2>1. PICK x \in rows : x.by = "interceptor"
    BY <1>2
  <2>2. rows = {x}
    BY <1>2, <2>1
  <2>3. LogsDue(op) = 1
    BY <1>2 DEF LogsDue, Complies
  <2> QED
    BY <2>2, <2>3, FS_Singleton
<1>3. CASE op # "silent" /\ Complies(op)
  <2>1. PICK x \in rows : x.by = "interceptor"
    BY <1>3
  <2>2. PICK y \in rows : y.by = "service"
    BY <1>3
  <2>3. rows = {x} \cup {y} /\ y \notin {x}
    BY <2>1, <2>2
  <2>4. LogsDue(op) = 2
    BY <1>3 DEF LogsDue, Complies
  <2>5. IsFiniteSet({x}) /\ Cardinality({x}) = 1
    BY FS_Singleton
  <2>6. Cardinality({x} \cup {y}) = 2
    BY <2>3, <2>5, FS_AddElement
  <2> QED
    BY <2>3, <2>4, <2>6
<1> QED
  BY <1>1, <1>2, <1>3

\* A request that was answered and logged has as many logs as it should.
LEMMA LogsAreDue ==
    ASSUME TrailInv', LogsInv', NEW c \in Calls, Answered(c)'
    PROVE  LogsDue(call'[c].op) = Cardinality(LogsOf(c)')
<1>1. PICK k \in Call : k = call'[c]
  BY DEF TrailInv, TrailTypeOK
<1>2. PICK rows : rows = LogsOf(c)'
  OBVIOUS
<1>3. Traced(c, call[c])' /\ Records(c, call[c])' /\ Logging(c, call[c])'
  BY DEF TrailInv, Fine, LogsInv
<1>4. k.at = "done" /\ k.write = "over" /\ k.ok /\ c \notin missed'
  BY <1>1 DEF Answered, Ended
<1>5. \A x : x \in rows <=> x \in Logs' /\ x.call = c
  BY <1>2 DEF LogsOf, Logs
<1>6. \A by : LoggedBy(c, by)' <=> \E x \in rows : x.by = by
  BY <1>5 DEF LoggedBy, Logs
<1>7. \A x \in rows : x.by \in {"service", "interceptor"}
  BY <1>5 DEF Logs, TrailInv, TrailTypeOK, Log
<1>8. \A x, y \in rows : x.by = y.by => x = y
  BY <1>5 DEF LogsInv, LogsOnce
<1>9. LoggedBy(c, "interceptor")' <=> k.op # "silent"
  BY <1>1, <1>3, <1>4 DEF Traced, Logging
<1>10. LoggedBy(c, "service")' <=> Complies(k.op)
  BY <1>1, <1>3, <1>4 DEF Records, Logging
<1>11. (\E x \in rows : x.by = "interceptor") <=> k.op # "silent"
  BY <1>6, <1>9
<1>12. (\E x \in rows : x.by = "service") <=> Complies(k.op)
  BY <1>6, <1>10
<1>13. LogsDue(k.op) = Cardinality(rows)
  BY <1>7, <1>8, <1>11, <1>12, LogsAddUp
<1> QED
  BY <1>1, <1>2, <1>13

\* What no step may do to a request, and what then is a turn of its task.
LEMMA CallTurns ==
    ASSUME NEW c \in Calls,
           LogsOf(c) \subseteq LogsOf(c)',
           call[c].at = "idle" => call'[c].at # "done" /\ LogsOf(c)' = LogsOf(c),
           call'[c].at = "idle" => call[c].at = "idle",
           Ended(c) => call'[c] = call[c] /\ LogsOf(c)' = LogsOf(c) /\ (c \in missed' <=> c \in missed),
           Answered(c)' => LogsDue(call'[c].op) = Cardinality(LogsOf(c)')
    PROVE  CallGoes(c)
<1>1. Ended(c)' <=> call'[c].at = "done" /\ call'[c].write = "over"
  BY DEF Ended
<1>2. Answered(c)' <=> Ended(c)' /\ call'[c].ok /\ c \notin missed'
  BY DEF Answered
<1>3. Told(c)' = IF Answered(c)' THEN LogsDue(call'[c].op) ELSE 0
  BY DEF Told, LogsDue
<1>4. CallStage(c)' = IF call'[c].at = "idle" THEN "new" ELSE IF Answered(c)' THEN "over" ELSE IF Ended(c)' THEN "lost" ELSE "open"
  BY <1>1, <1>2 DEF CallStage
<1>5. CallStage(c) = IF call[c].at = "idle" THEN "new" ELSE IF Answered(c) THEN "over" ELSE IF Ended(c) THEN "lost" ELSE "open"
  BY DEF CallStage, Answered, Ended
<1>6. CASE call[c].at = "idle"
  <2>1. ~Ended(c)' /\ ~Answered(c)' /\ ~Answered(c) /\ CallStage(c) = "new" /\ CallStage(c)' \in {"new", "open"}
    BY <1>1, <1>2, <1>4, <1>5, <1>6 DEF Answered, Ended
  <2> QED
    BY <1>3, <1>6, <2>1 DEF CallGoes, Turning, Told
<1>7. CASE Ended(c)
  <2>1. (Ended(c)' <=> Ended(c)) /\ (Answered(c)' <=> Answered(c))
    BY <1>1, <1>2, <1>7 DEF Ended, Answered
  <2>2. CallStage(c)' = CallStage(c) /\ Told(c)' = Told(c)
    BY <1>3, <1>4, <1>5, <1>7, <2>1 DEF Told
  <2> QED
    BY <1>7, <2>2 DEF CallGoes, Turning
<1>8. CASE ~Ended(c) /\ call[c].at # "idle"
  <2>1. ~Answered(c) /\ CallStage(c) = "open" /\ Told(c) = 0
    BY <1>5, <1>8 DEF Answered, Told
  <2>2. CASE Answered(c)'
    BY <1>3, <1>4, <1>8, <2>1, <2>2 DEF CallGoes, Turning
  <2>3. CASE ~Answered(c)'
    BY <1>3, <1>4, <1>8, <2>1, <2>3 DEF CallGoes, Turning
  <2> QED
    BY <2>2, <2>3
<1> QED
  BY <1>6, <1>7, <1>8

\* A request takes a step, with at most one log that is its own and its first of that kind: the others rest.
LEMMA OneCallMoves ==
    ASSUME TrailInv, TrailInv', LogsInv, NEW c \in Calls, NEW new \in Call, call' = [call EXCEPT ![c] = new],
           ~Ended(c), new.at # "idle", call[c].at = "idle" => new.at # "done" /\ Logs' = Logs,
           missed \subseteq missed', missed' \subseteq missed \cup {c},
           \/ Logs' = Logs
           \/ \E x : Logs' = Logs \cup {x} /\ x.call = c /\ ~LoggedBy(c, x.by),
           Logging(c, new)'
    PROVE  LogsInv' /\ \A d \in Calls : CallGoes(d)
<1>1. call'[c] = new /\ \A d \in Calls \ {c} : call'[d] = call[d]
  BY DEF TrailInv, TrailTypeOK
<1>2. PICK fresh : /\ Logs' = Logs \cup fresh /\ \A x \in fresh : x.call = c /\ ~LoggedBy(c, x.by)
                   /\ \A x, y \in fresh : x = y
                   /\ call[c].at = "idle" => fresh \subseteq Logs
  <2>1. CASE Logs' = Logs
    <3>1. PICK none : none = {}
      OBVIOUS
    <3>2. /\ Logs' = Logs \cup none /\ \A x \in none : x.call = c /\ ~LoggedBy(c, x.by)
          /\ \A x, y \in none : x = y
          /\ call[c].at = "idle" => none \subseteq Logs
      BY <2>1, <3>1
    <3> QED
      BY <3>2, Zenon
  <2>2. CASE Logs' # Logs
    <3>1. PICK x : Logs' = Logs \cup {x} /\ x.call = c /\ ~LoggedBy(c, x.by)
      BY <2>2
    <3>2. call[c].at # "idle"
      BY <2>2
    <3>3. PICK one : one = {x}
      OBVIOUS
    <3>4. /\ Logs' = Logs \cup one /\ \A y \in one : y.call = c /\ ~LoggedBy(c, y.by)
          /\ \A y, z \in one : y = z
          /\ call[c].at = "idle" => one \subseteq Logs
      BY <3>1, <3>2, <3>3
    <3> QED
      BY <3>4, Zenon
  <2> QED
    BY <2>1, <2>2
<1>3. \A d, by : LoggedBy(d, by) <=> \E x \in Logs : x.call = d /\ x.by = by
  BY DEF LoggedBy, Logs
<1>4. \A d, by : LoggedBy(d, by)' <=> \E x \in Logs' : x.call = d /\ x.by = by
  BY DEF LoggedBy, Logs
<1>5. LogsOnce'
  <2>1. \A x, y \in Logs : x.call = y.call /\ x.by = y.by => x = y
    BY DEF LogsInv, LogsOnce
  <2>2. \A x \in Logs, y \in fresh : ~(x.call = y.call /\ x.by = y.by)
    BY <1>2, <1>3
  <2>3. \A x, y \in Logs' : x.call = y.call /\ x.by = y.by => x = y
    BY <1>2, <2>1, <2>2
  <2> QED
    BY <2>3 DEF LogsOnce
<1>6. ASSUME NEW d \in Calls PROVE Logging(d, call[d])'
  <2>1. CASE d = c
    BY <1>1, <2>1 DEF Logging
  <2>2. CASE d # c
    <3>1. call'[d] = call[d] /\ \A by : LoggedBy(d, by)' <=> LoggedBy(d, by)
      BY <1>1, <1>2, <1>3, <1>4, <2>2
    <3>2. Logging(d, call[d])
      BY DEF LogsInv
    <3> QED
      BY <3>1, <3>2 DEF Logging
  <2> QED
    BY <2>1, <2>2
<1>7. LogsInv'
  BY <1>5, <1>6 DEF LogsInv
<1>8. \A d : \A x : x \in LogsOf(d) <=> x \in Logs /\ x.call = d
  BY DEF LogsOf, Logs
<1>9. \A d : \A x : x \in LogsOf(d)' <=> x \in Logs' /\ x.call = d
  BY DEF LogsOf, Logs
<1>10. LogsOf(c) \subseteq LogsOf(c)'
  <2>1. \A x : x \in LogsOf(c) => x \in LogsOf(c)'
    <3>1. \A x : x \in Logs => x \in Logs'
      BY <1>2
    <3> QED
      BY <1>8, <1>9, <3>1
  <2> QED
    BY <2>1
<1>11. \A d \in Calls : Answered(d)' => LogsDue(call'[d].op) = Cardinality(LogsOf(d)')
  BY <1>7, LogsAreDue
<1>12. CallGoes(c)
  <2>1. ASSUME call[c].at = "idle" PROVE LogsOf(c)' = LogsOf(c)
    <3>1. Logs' = Logs
      BY <2>1
    <3>2. \A x : x \in LogsOf(c)' <=> x \in LogsOf(c)
      BY <1>8, <1>9, <3>1
    <3> QED
      BY <3>2 DEF LogsOf
  <2>2. LogsOf(c) \subseteq LogsOf(c)'
    BY <1>10
  <2>3. call[c].at = "idle" => call'[c].at # "done" /\ LogsOf(c)' = LogsOf(c)
    BY <1>1, <2>1
  <2>4. call'[c].at = "idle" => call[c].at = "idle"
    BY <1>1
  <2>5. Ended(c) => call'[c] = call[c] /\ LogsOf(c)' = LogsOf(c) /\ (c \in missed' <=> c \in missed)
    OBVIOUS
  <2> QED
    BY <1>11, <2>2, <2>3, <2>4, <2>5, CallTurns
<1>13. ASSUME NEW d \in Calls \ {c} PROVE CallGoes(d)
  <2>1. call'[d] = call[d] /\ (d \in missed' <=> d \in missed)
    BY <1>1
  <2>2. LogsOf(d)' = LogsOf(d)
    <3>1. \A x : x \in Logs' /\ x.call = d <=> x \in Logs /\ x.call = d
      BY <1>2
    <3>2. \A x : x \in LogsOf(d)' <=> x \in LogsOf(d)
      BY <1>8, <1>9, <3>1
    <3> QED
      BY <3>2 DEF LogsOf
  <2>3. LogsOf(d) \subseteq LogsOf(d)'
    BY <2>2
  <2>4. call[d].at = "idle" => call'[d].at # "done" /\ LogsOf(d)' = LogsOf(d)
    BY <2>1, <2>2
  <2>5. call'[d].at = "idle" => call[d].at = "idle"
    BY <2>1
  <2>6. Ended(d) => call'[d] = call[d] /\ LogsOf(d)' = LogsOf(d) /\ (d \in missed' <=> d \in missed)
    BY <2>1, <2>2
  <2> QED
    BY <1>11, <2>3, <2>4, <2>5, <2>6, CallTurns
<1> QED
  BY <1>7, <1>12, <1>13

\* Steps of several requests at once, without a log.
LEMMA CallsMove ==
    ASSUME TrailInv', LogsInv, Logs' = Logs, missed \subseteq missed',
           \A c \in Calls : /\ call'[c].at = "idle" <=> call[c].at = "idle"
                            /\ Ended(c) => call'[c] = call[c] /\ (c \in missed' <=> c \in missed)
                            /\ Logging(c, call[c])'
    PROVE  LogsInv' /\ \A d \in Calls : CallGoes(d)
<1>1. LogsOnce'
  BY DEF LogsInv, LogsOnce
<1>2. LogsInv'
  BY <1>1 DEF LogsInv
<1>3. ASSUME NEW d PROVE LogsOf(d)' = LogsOf(d)
  BY DEF LogsOf, Logs
<1>4. ASSUME NEW d \in Calls PROVE CallGoes(d)
  <2>1. Answered(d)' => LogsDue(call'[d].op) = Cardinality(LogsOf(d)')
    BY <1>2, LogsAreDue
  <2>2. call[d].at = "idle" => call'[d].at # "done"
    OBVIOUS
  <2> QED
    BY <1>3, <2>1, <2>2, CallTurns
<1> QED
  BY <1>2, <1>4

\* Answers: the interceptor's log is on its way, if there is to be one.
LEMMA AnswersLog ==
    ASSUME TrailInv, TrailInv', LogsInv, NEW c \in Calls, NEW ok \in BOOLEAN, Answers(c, ok),
           call[c].at \notin {"idle", "done"}, missed' = missed,
           \/ Logs' = Logs
           \/ Complies(call[c].op) /\ \E x : Logs' = Logs \cup {x} /\ x.call = c /\ x.by = "service"
    PROVE  LogsInv' /\ \A d \in Calls : CallGoes(d)
<1> PICK k \in Call : k = call[c] /\ Fine(c, k) /\ Logging(c, k)
  BY DEF TrailInv, TrailTypeOK, LogsInv
<1>1. PICK new \in Call :
          /\ call' = [call EXCEPT ![c] = new] /\ new.at = "done" /\ new.ok = ok /\ new.op = k.op
          /\ new.write \in {"column", "insert", "over"}
          /\ new.write = "over" <=> ~Logged(new.op, ok)
  BY AnsweredSo
<1>2. ~LoggedBy(c, "interceptor") /\ ~LoggedBy(c, "service")
  BY DEF Fine, Traced, Logging
<1>3. ~LoggedBy(c, "interceptor")' /\ (LoggedBy(c, "service")' => Complies(k.op))
  BY <1>2, LoggedAs
<1>4. new.write \in {"column", "insert"} => new.op # "silent"
  BY <1>1 DEF Logged, Tenant
<1>5. Logging(c, new)'
  BY <1>1, <1>3, <1>4 DEF Logging
<1>6. \/ Logs' = Logs
      \/ \E x : Logs' = Logs \cup {x} /\ x.call = c /\ ~LoggedBy(c, x.by)
  BY <1>2
<1>7. ~Ended(c)
  BY DEF Ended
<1>8. new.at # "idle" /\ (call[c].at = "idle" => new.at # "done" /\ Logs' = Logs)
  BY <1>1
<1>9. missed \subseteq missed' /\ missed' \subseteq missed \cup {c}
  OBVIOUS
<1> QED
  BY <1>1, <1>5, <1>6, <1>7, <1>8, <1>9, OneCallMoves

\* A request that goes on as the operation it is, without a log or an answer.
LEMMA QuietStep ==
    ASSUME TrailInv, TrailInv', LogsInv, NEW c \in Calls, NEW new \in Call, call' = [call EXCEPT ![c] = new],
           ~Ended(c), new.at # "idle", call[c].at = "idle" => new.at # "done", Logs' = Logs,
           missed \subseteq missed', missed' \subseteq missed \cup {c},
           LoggedBy(c, "interceptor") => new.write = "over",
           LoggedBy(c, "interceptor") \/ new.write \in {"column", "insert"} => new.op # "silent",
           LoggedBy(c, "service") => new.at = "done" /\ Complies(new.op),
           new.at \in {"contacts", "submissions", "logs", "save", "log"} => Complies(new.op)
    PROVE  LogsInv' /\ \A d \in Calls : CallGoes(d)
<1>1. \A by : LoggedBy(c, by)' <=> LoggedBy(c, by)
  BY LoggedAs
<1>2. Logging(c, new)'
  BY <1>1 DEF Logging
<1>3. \/ Logs' = Logs
      \/ \E x : Logs' = Logs \cup {x} /\ x.call = c /\ ~LoggedBy(c, x.by)
  OBVIOUS
<1>4. call[c].at = "idle" => new.at # "done" /\ Logs' = Logs
  OBVIOUS
<1> QED
  BY <1>2, <1>3, <1>4, OneCallMoves

LEMMA AskedIsOpen ==
    ASSUME TrailInv, TrailInv', LogsInv, NEW c \in Calls, AskCall(c)
    PROVE  LogsInv' /\ \A d \in Calls : CallGoes(d)
<1> PICK k \in Call : k = call[c] /\ Fine(c, k) /\ Logging(c, k)
  BY DEF TrailInv, TrailTypeOK, LogsInv
<1>1. k.at = "idle" /\ UNCHANGED <<log, purged, missed>>
  BY Zenon DEF AskCall, AskAct, AskList, AskCompliance, AskPurge, AskPolicy, Ask, IsNext
<1>2. ~LoggedBy(c, "interceptor") /\ ~LoggedBy(c, "service") /\ k.write = "none" /\ ~Ended(c) /\ Logs' = Logs
  BY <1>1 DEF Fine, Traced, Logging, Ended, Logs
<1>3. ASSUME NEW new \in Call, call' = [call EXCEPT ![c] = new], new.write = k.write,
             new.at \in {"handle", "column", "contacts", "save", "log"}, new.at \in {"contacts", "save", "log"} => Complies(new.op)
      PROVE  LogsInv' /\ \A d \in Calls : CallGoes(d)
  <2>1. /\ call[c].at = "idle" => new.at # "done"
        /\ new.at # "idle" /\ missed \subseteq missed' /\ missed' \subseteq missed \cup {c}
    BY <1>1, <1>3
  <2>2. /\ LoggedBy(c, "interceptor") => new.write = "over"
        /\ LoggedBy(c, "interceptor") \/ new.write \in {"column", "insert"} => new.op # "silent"
        /\ LoggedBy(c, "service") => new.at = "done" /\ Complies(new.op)
        /\ new.at \in {"contacts", "submissions", "logs", "save", "log"} => Complies(new.op)
    BY <1>2, <1>3
  <2> QED
    BY <1>2, <1>3, <2>1, <2>2, QuietStep
<1>4. ASSUME NEW op \in Ops, AskAct(c, op) PROVE LogsInv' /\ \A d \in Calls : CallGoes(d)
  <2>1. PICK new : new = [k EXCEPT !.op = op, !.at = "handle"]
    OBVIOUS
  <2>2. new \in Call /\ new.at = "handle" /\ new.write = k.write
    BY <2>1 DEF Call
  <2>3. call' = [call EXCEPT ![c].op = op, ![c].at = "handle"]
    BY <1>4 DEF AskAct, Ask
  <2>4. call' = [call EXCEPT ![c] = new]
    BY <2>1, <2>3 DEF TrailInv, TrailTypeOK, Call
  <2> QED
    BY <1>3, <2>2, <2>4
<1>5. ASSUME AskList(c) PROVE LogsInv' /\ \A d \in Calls : CallGoes(d)
  <2>1. PICK new : new = [k EXCEPT !.op = "list", !.at = "column"]
    OBVIOUS
  <2>2. new \in Call /\ new.at = "column" /\ new.write = k.write
    BY <2>1 DEF Call, Ops
  <2>3. call' = [call EXCEPT ![c].op = "list", ![c].at = "column"]
    BY <1>5 DEF AskList, Ask
  <2>4. call' = [call EXCEPT ![c] = new]
    BY <2>1, <2>3 DEF TrailInv, TrailTypeOK, Call
  <2> QED
    BY <1>3, <2>2, <2>4
<1>6. ASSUME AskCompliance(c) PROVE LogsInv' /\ \A d \in Calls : CallGoes(d)
  <2>1. PICK new : new = [k EXCEPT !.op = "compliance", !.at = "log"]
    OBVIOUS
  <2>2. new \in Call /\ new.at = "log" /\ new.write = k.write /\ Complies(new.op)
    BY <2>1 DEF Call, Ops, Complies
  <2>3. call' = [call EXCEPT ![c].op = "compliance", ![c].at = "log"]
    BY <1>6 DEF AskCompliance, Ask
  <2>4. call' = [call EXCEPT ![c] = new]
    BY <2>1, <2>3 DEF TrailInv, TrailTypeOK, Call
  <2> QED
    BY <1>3, <2>2, <2>4
<1>7. ASSUME NEW p \in Policy, AskPolicy(c, p) PROVE LogsInv' /\ \A d \in Calls : CallGoes(d)
  <2>1. PICK new : new = [k EXCEPT !.op = "policy", !.at = "save", !.policy = p]
    OBVIOUS
  <2>2. new \in Call /\ new.at = "save" /\ new.write = k.write /\ Complies(new.op)
    BY <2>1 DEF Call, Ops, Complies
  <2>3. call' = [call EXCEPT ![c].op = "policy", ![c].at = "save", ![c].policy = p]
    BY <1>7 DEF AskPolicy
  <2>4. call' = [call EXCEPT ![c] = new]
    BY <2>1, <2>3 DEF TrailInv, TrailTypeOK, Call
  <2> QED
    BY <1>3, <2>2, <2>4
<1>8. ASSUME AskPurge(c) PROVE LogsInv' /\ \A d \in Calls : CallGoes(d)
  <2>1. PICK aged : aged = [x \in Kept |-> Old(x)]
    OBVIOUS
  <2>2. aged \in [Kept -> SUBSET (0..MaxDay)] /\ limit \in Policy
    BY <2>1 DEF Old, TrailInv, TrailTypeOK
  <2>3. PICK new : new = [k EXCEPT !.op = "purge", !.at = "contacts", !.old = aged, !.policy = limit]
    OBVIOUS
  <2>4. new \in Call /\ new.at = "contacts" /\ new.write = k.write /\ Complies(new.op)
    BY <2>2, <2>3 DEF Call, Ops, Complies
  <2>5. call' = [call EXCEPT ![c].op = "purge", ![c].at = "contacts", ![c].old = aged, ![c].policy = limit]
    BY <1>8, <2>1, Zenon DEF AskPurge
  <2>6. call' = [call EXCEPT ![c] = new]
    BY <2>3, <2>5 DEF TrailInv, TrailTypeOK, Call
  <2> QED
    BY <1>3, <2>4, <2>6
<1> QED
  BY <1>4, <1>5, <1>6, <1>7, <1>8, Zenon DEF AskCall

\* Logs of the interceptor, written or not.
LEMMA LogsComeIn ==
    ASSUME TrailInv, TrailInv', LogsInv, NEW c \in Calls, HasColumn(c) \/ InsertLog(c) \/ InsertFails(c)
    PROVE  LogsInv' /\ \A d \in Calls : CallGoes(d)
<1> PICK k \in Call : k = call[c] /\ Fine(c, k) /\ Logging(c, k)
  BY DEF TrailInv, TrailTypeOK, LogsInv
<1>1. PICK new \in Call : /\ call' = [call EXCEPT ![c] = new] /\ new.at = k.at /\ new.op = k.op
                          /\ new.write = IF HasColumn(c) THEN "insert" ELSE "over"
  <2>1. PICK write \in {"insert", "over"} : write = IF HasColumn(c) THEN "insert" ELSE "over"
    OBVIOUS
  <2>2. PICK new : new = [k EXCEPT !.write = write]
    OBVIOUS
  <2>3. new \in Call /\ new.at = k.at /\ new.op = k.op /\ new.write = write
    BY <2>2 DEF Call
  <2>4. call' = [call EXCEPT ![c].write = write]
    BY <2>1 DEF HasColumn, InsertLog, InsertFails
  <2>5. call' = [call EXCEPT ![c] = new]
    BY <2>2, <2>4 DEF TrailInv, TrailTypeOK, Call
  <2> QED
    BY <2>1, <2>3, <2>5
<1>2. k.write \in {"column", "insert"}
  BY DEF HasColumn, InsertLog, InsertFails
<1>3. /\ ~LoggedBy(c, "interceptor") /\ k.at = "done" /\ k.op # "silent" /\ ~Ended(c)
      /\ LoggedBy(c, "service") => Complies(k.op)
  BY <1>2 DEF Fine, Traced, Logging, Ended
<1>4. CASE HasColumn(c) \/ InsertFails(c)
  <2>1. Logs' = Logs /\ missed \subseteq missed' /\ missed' \subseteq missed \cup {c}
    BY <1>4 DEF HasColumn, InsertFails, Logs
  <2>2. /\ LoggedBy(c, "interceptor") => new.write = "over"
        /\ LoggedBy(c, "interceptor") \/ new.write \in {"column", "insert"} => new.op # "silent"
        /\ LoggedBy(c, "service") => new.at = "done" /\ Complies(new.op)
        /\ new.at \in {"contacts", "submissions", "logs", "save", "log"} => Complies(new.op)
    BY <1>1, <1>3
  <2>3. new.at # "idle" /\ (call[c].at = "idle" => new.at # "done")
    BY <1>1, <1>3
  <2> QED
    BY <1>1, <1>3, <2>1, <2>2, <2>3, QuietStep
<1>5. CASE InsertLog(c)
  <2>1. PICK x : x = [call |-> c, by |-> "interceptor", day |-> day]
    OBVIOUS
  <2>2. x.call = c /\ x.by = "interceptor"
    BY <2>1
  <2>3. k.write = "insert" /\ log' = log \cup {x} /\ purged' = purged /\ missed' = missed
    BY <1>5, <2>1 DEF InsertLog
  <2>4. Logs' = Logs \cup {x}
    BY <2>3 DEF Logs
  <2>5. new.write = "over"
    BY <1>1, <2>3 DEF HasColumn
  <2>6. LoggedBy(c, "service")' <=> LoggedBy(c, "service")
    BY <2>2, <2>4, LoggedAs
  <2>7. Logging(c, new)'
    BY <1>1, <1>3, <2>5, <2>6 DEF Logging
  <2>8. \/ Logs' = Logs
        \/ \E y : Logs' = Logs \cup {y} /\ y.call = c /\ ~LoggedBy(c, y.by)
    BY <1>3, <2>2, <2>4
  <2>9. /\ new.at # "idle" /\ (call[c].at = "idle" => new.at # "done" /\ Logs' = Logs)
        /\ missed \subseteq missed' /\ missed' \subseteq missed \cup {c}
    BY <1>1, <1>3, <2>3
  <2> QED
    BY <1>1, <1>3, <2>7, <2>8, <2>9, OneCallMoves
<1> QED
  BY <1>4, <1>5

\* Purges and saved limits: the logs that are removed were there.
LEMMA PurgesRest ==
    ASSUME TrailInv, TrailInv', LogsInv, NEW c \in Calls,
           PurgeContacts(c) \/ PurgeSubmissions(c) \/ PurgeLogs(c) \/ SaveLimits(c)
    PROVE  LogsInv' /\ \A d \in Calls : CallGoes(d)
<1> PICK k \in Call : k = call[c] /\ Fine(c, k) /\ Logging(c, k)
  BY DEF TrailInv, TrailTypeOK, LogsInv
<1>1. PICK at \in {"submissions", "logs", "save", "log"} : Goes(c, at)
  BY DEF PurgeContacts, PurgeSubmissions, PurgeLogs, SaveLimits
<1>2. PICK new : new = [k EXCEPT !.at = at]
  OBVIOUS
<1>3. new \in Call /\ new.at = at /\ new.op = k.op /\ new.write = k.write
  BY <1>1, <1>2 DEF Call
<1>4. call' = [call EXCEPT ![c] = new]
  BY <1>1, <1>2 DEF Goes, TrailInv, TrailTypeOK, Call
<1>5. k.at \in {"contacts", "submissions", "logs", "save"} /\ missed' = missed
  BY DEF PurgeContacts, PurgeSubmissions, PurgeLogs, SaveLimits
<1>6. Logs' = Logs
  <2>1. CASE PurgeLogs(c)
    <3>1. PICK gone : gone \subseteq log /\ log' = log \ gone /\ purged' = purged \cup gone
      BY <2>1 DEF PurgeLogs
    <3> QED
      BY <3>1 DEF Logs
  <2>2. CASE ~PurgeLogs(c)
    BY <2>2 DEF PurgeContacts, PurgeSubmissions, SaveLimits, Logs
  <2> QED
    BY <2>1, <2>2
<1>7. Complies(k.op) /\ k.write = "none" /\ ~LoggedBy(c, "interceptor") /\ ~LoggedBy(c, "service") /\ ~Ended(c)
  BY <1>5 DEF Fine, Traced, Logging, Ended
<1>8. /\ LoggedBy(c, "interceptor") => new.write = "over"
      /\ LoggedBy(c, "interceptor") \/ new.write \in {"column", "insert"} => new.op # "silent"
      /\ LoggedBy(c, "service") => new.at = "done" /\ Complies(new.op)
      /\ new.at \in {"contacts", "submissions", "logs", "save", "log"} => Complies(new.op)
  BY <1>3, <1>7
<1>9. /\ new.at # "idle" /\ (call[c].at = "idle" => new.at # "done")
      /\ missed \subseteq missed' /\ missed' \subseteq missed \cup {c}
  BY <1>1, <1>3, <1>5
<1> QED
  BY <1>3, <1>4, <1>6, <1>7, <1>8, <1>9, QuietStep

LEMMA HandlersAnswer ==
    ASSUME TrailInv, TrailInv', LogsInv, NEW c \in Calls,
           (\E ok \in BOOLEAN : Handle(c, ok)) \/ List(c) \/ LogAction(c) \/ CallThrows(c)
    PROVE  LogsInv' /\ \A d \in Calls : CallGoes(d)
<1> PICK k \in Call : k = call[c] /\ Logging(c, k)
  BY DEF TrailInv, TrailTypeOK, LogsInv
<1>1. ASSUME NEW ok \in BOOLEAN, Handle(c, ok) PROVE LogsInv' /\ \A d \in Calls : CallGoes(d)
  <2>1. k.at = "handle" /\ Answers(c, ok) /\ UNCHANGED <<log, purged, missed>>
    BY <1>1 DEF Handle
  <2> QED
    BY <2>1, AnswersLog DEF Logs
<1>2. ASSUME List(c) PROVE LogsInv' /\ \A d \in Calls : CallGoes(d)
  <2>1. k.at = "column" /\ Answers(c, TRUE) /\ UNCHANGED <<log, purged, missed>>
    BY <1>2 DEF List
  <2> QED
    BY <2>1, AnswersLog DEF Logs
<1>3. ASSUME LogAction(c) PROVE LogsInv' /\ \A d \in Calls : CallGoes(d)
  <2>1. PICK x : x = [call |-> c, by |-> "service", day |-> day]
    OBVIOUS
  <2>2. k.at = "log" /\ Answers(c, TRUE) /\ log' = log \cup {x} /\ UNCHANGED <<purged, missed>>
    BY <1>3, <2>1 DEF LogAction
  <2>3. Logs' = Logs \cup {x} /\ x.call = c /\ x.by = "service"
    BY <2>1, <2>2 DEF Logs
  <2>4. Complies(call[c].op) /\ \E y : Logs' = Logs \cup {y} /\ y.call = c /\ y.by = "service"
    BY <2>2, <2>3 DEF Logging
  <2>5. call[c].at \notin {"idle", "done"} /\ missed' = missed
    BY <2>2
  <2> QED
    BY <2>2, <2>4, <2>5, AnswersLog
<1>4. ASSUME CallThrows(c) PROVE LogsInv' /\ \A d \in Calls : CallGoes(d)
  <2>1. k.at \notin {"idle", "done"} /\ Answers(c, FALSE) /\ UNCHANGED <<log, purged, missed>>
    BY <1>4 DEF CallThrows
  <2> QED
    BY <2>1, AnswersLog DEF Logs
<1> QED
  BY <1>1, <1>2, <1>3, <1>4

\* What the column's query fails, and what dies with the process.
LEMMA CallsAreLost ==
    ASSUME TrailInv, TrailInv', LogsInv, ColumnFails \/ CallsDie
    PROVE  LogsInv' /\ \A d \in Calls : CallGoes(d)
<1>1. UNCHANGED <<log, purged>> /\ missed \subseteq missed'
  BY DEF ColumnFails, CallsDie
<1>2. Logs' = Logs
  BY <1>1 DEF Logs
<1>3. ASSUME NEW c \in Calls
      PROVE  /\ call'[c].at = "idle" <=> call[c].at = "idle"
             /\ Ended(c) => call'[c] = call[c] /\ (c \in missed' <=> c \in missed)
             /\ Logging(c, call[c])'
  <2>1. PICK k \in Call : k = call[c] /\ Fine(c, k) /\ Logging(c, k)
    BY DEF TrailInv, TrailTypeOK, LogsInv
  <2>2. PICK over, gone : over = [k EXCEPT !.write = "over"] /\ gone = [k EXCEPT !.at = "done", !.write = "over"]
    OBVIOUS
  <2>3. /\ over.at = k.at /\ over.op = k.op /\ over.write = "over"
        /\ gone.at = "done" /\ gone.op = k.op /\ gone.write = "over"
        /\ k.at = "done" /\ k.write = "over" => gone = k
    BY <2>2 DEF Call
  <2>4. \A by : LoggedBy(c, by)' <=> LoggedBy(c, by)
    BY <1>2, LoggedAs
  <2>5. (k.write \in {"column", "insert"} => k.at = "done") /\ (k.at = "idle" => k.write = "none")
    BY <2>1 DEF Fine, Traced
  <2>6. CASE ColumnFails
    <3>1. /\ call'[c] = IF k.write = "column" THEN over ELSE IF k.at = "column" THEN gone ELSE k
          /\ c \in missed' <=> c \in missed \/ k.write = "column"
      BY <2>1, <2>2, <2>6 DEF ColumnFails
    <3>2. (call'[c].at = "idle" <=> k.at = "idle") /\ (k.at = "done" /\ k.write = "over" => call'[c] = k /\ (c \in missed' <=> c \in missed))
      BY <2>3, <2>5, <3>1
    <3>3. Logging(c, call[c])'
      BY <2>1, <2>3, <2>4, <2>5, <3>1 DEF Logging
    <3> QED
      BY <2>1, <3>2, <3>3 DEF Ended
  <2>7. CASE CallsDie
    <3>1. /\ call'[c] = IF k.at = "idle" THEN NoCall ELSE gone
          /\ c \in missed' <=> c \in missed \/ k.write \in {"column", "insert"}
      BY <2>1, <2>2, <2>7 DEF CallsDie
    <3>2. (call'[c].at = "idle" <=> k.at = "idle") /\ (k.at = "done" /\ k.write = "over" => call'[c] = k /\ (c \in missed' <=> c \in missed))
      BY <2>3, <2>5, <3>1, NoOneCalls
    <3>3. Logging(c, call[c])'
      <4>1. CASE k.at = "idle"
        <5>1. ~LoggedBy(c, "interceptor") /\ ~LoggedBy(c, "service")
          BY <2>1, <2>5, <4>1 DEF Logging
        <5> QED
          BY <2>4, <3>1, <4>1, <5>1, NoOneCalls DEF Logging
      <4>2. CASE k.at # "idle"
        BY <2>1, <2>3, <2>4, <2>5, <3>1, <4>2 DEF Logging
      <4> QED
        BY <4>1, <4>2
    <3> QED
      BY <2>1, <3>2, <3>3 DEF Ended
  <2> QED
    BY <2>6, <2>7
<1> QED
  BY <1>1, <1>2, <1>3, CallsMove

LEMMA CallsGoThrough ==
    ASSUME TrailInv, TrailInv', LogsInv, TrailNext \/ CallsDie \/ UNCHANGED trailVars
    PROVE  LogsInv' /\ \A d \in Calls : CallGoes(d)
<1>1. ASSUME UNCHANGED <<call, log, purged, missed>> PROVE LogsInv' /\ \A d \in Calls : CallGoes(d)
  <2>1. Logs' = Logs
    BY <1>1 DEF Logs
  <2>2. \A c, by : LoggedBy(c, by)' <=> LoggedBy(c, by)
    BY <2>1, LoggedAs
  <2>3. \A c \in Calls : Logging(c, call[c])'
    BY <1>1, <2>2 DEF LogsInv, Logging
  <2>4. missed \subseteq missed'
    BY <1>1
  <2>5. \A c \in Calls : /\ call'[c].at = "idle" <=> call[c].at = "idle"
                         /\ Ended(c) => call'[c] = call[c] /\ (c \in missed' <=> c \in missed)
                         /\ Logging(c, call[c])'
    BY <1>1, <2>3
  <2> QED
    BY <2>1, <2>4, <2>5, CallsMove
<1>2. ASSUME NEW c \in Calls, CallStep(c) PROVE LogsInv' /\ \A d \in Calls : CallGoes(d)
  BY <1>2, AskedIsOpen, HandlersAnswer, LogsComeIn, PurgesRest, Zenon DEF CallStep
<1>3. CASE ColumnIsKnown
  BY <1>1, <1>3 DEF ColumnIsKnown
<1>4. CASE DayPasses
  BY <1>1, <1>4 DEF DayPasses
<1>5. CASE UNCHANGED trailVars
  BY <1>1, <1>5 DEF trailVars
<1> QED
  BY <1>2, <1>3, <1>4, <1>5, CallsAreLost, Zenon DEF TrailNext

\* Requests are tasks: one leaves no log before it is asked, has the logs of its operation, each once, when
\* it is over, and none is added to it, or removed without a trace, when it is over or was cut off.
THEOREM CallsAreTasks == Spec => CallTask!TSpec
<1>1. Init => TrailInv /\ LogsInv /\ CallTask!TInit
  <2> SUFFICES ASSUME TrailInit PROVE TrailInv /\ LogsInv /\ CallTask!TInit
    BY DEF Init
  <2>1. ASSUME NEW c \in Calls
        PROVE  CallStage(c) = "new" /\ LogsOf(c) = {} /\ ~Answered(c) /\ Logging(c, call[c])
    <3>1. call[c].at = "idle" /\ call[c].write = "none"
      BY NoOneCalls DEF TrailInit
    <3>2. \A by : ~LoggedBy(c, by)
      BY DEF TrailInit, LoggedBy
    <3>3. LogsOf(c) = {}
      BY DEF TrailInit, LogsOf
    <3> QED
      BY <3>1, <3>2, <3>3 DEF CallStage, Answered, Ended, Logging
  <2>2. CallTask!TInit
    BY <2>1 DEF CallTask!TInit
  <2>3. LogsInv
    BY <2>1 DEF TrailInit, LogsInv, LogsOnce, Logs
  <2> QED
    BY <2>2, <2>3, TrailStarts
<1>2. TrailInv /\ LogsInv /\ [Next]_vars => TrailInv' /\ LogsInv' /\ CallTask!TNext
  BY StepsArePartsSteps, TrailStays, CallsGoThrough, CallsGo
<1> QED
  BY <1>1, <1>2, PTL DEF Spec, CallTask!TSpec

-----------------------------------------------------------------------------
(* Imports: jobs. *)

JobWork(j) == IF JobStage(j) = "lost" THEN {} ELSE 1..made[j]
JobTold(j) == IF JobStage(j) = "over" THEN 1 ELSE 0
JobGoes(j) == Turning(JobStage(j), JobStage(j)', JobWork(j), JobWork(j)', JobTold(j), JobTold(j)')

\* Only a job there is can be committed twice, or left halfway.
CutsInv == \A j \in cut : job[j].status # "none"

LEMMA JobsGo ==
    ASSUME \A j \in Jobs : JobGoes(j)
    PROVE  JobTask!TNext
<1> SUFFICES ASSUME NEW j \in Jobs
             PROVE  JobTask!Rest(j) \/ JobTask!Open(j) \/ JobTask!Do(j) \/ JobTask!Finish(j) \/ JobTask!Lose(j)
  BY Zenon DEF JobTask!TNext
<1>1. JobGoes(j)
  OBVIOUS
<1>2. /\ [i \in Jobs |-> JobStage(i)][j] = JobStage(j) /\ [i \in Jobs |-> JobStage(i)]'[j] = JobStage(j)'
      /\ [i \in Jobs |-> IF JobStage(i) = "lost" THEN {} ELSE 1..made[i]][j] = JobWork(j)
      /\ [i \in Jobs |-> IF JobStage(i) = "lost" THEN {} ELSE 1..made[i]]'[j] = JobWork(j)'
      /\ [i \in Jobs |-> IF JobStage(i) = "over" THEN 1 ELSE 0][j] = JobTold(j)
      /\ [i \in Jobs |-> IF JobStage(i) = "over" THEN 1 ELSE 0]'[j] = JobTold(j)'
  BY DEF JobWork, JobTold
<1> QED
  BY <1>1, <1>2, CountedAlike DEF JobGoes, Turning, JobTask!Rest, JobTask!Open, JobTask!Do, JobTask!Finish, JobTask!Lose,
     JobTask!Turns, JobTask!Works, JobTask!Untold

\* A job whose status stays, and whose rows and fate do, rests; so does one that was given up.
LEMMA JobRests ==
    ASSUME NEW j \in Jobs, job'[j].status = job[j].status, made'[j] = made[j], j \in cut' <=> j \in cut
    PROVE  JobGoes(j)
<1>1. JobStage(j)' = JobStage(j)
  BY DEF JobStage
<1> QED
  BY <1>1 DEF JobGoes, JobWork, JobTold, Turning

LEMMA CutJobRests ==
    ASSUME NEW j \in Jobs, j \in cut, j \in cut', job[j].status # "none", job'[j].status # "none"
    PROVE  JobGoes(j)
<1>1. JobStage(j) = "lost" /\ JobStage(j)' = "lost"
  BY DEF JobStage
<1> QED
  BY <1>1 DEF JobGoes, JobWork, JobTold, Turning

\* One that is cut off, or fails, is lost.
LEMMA JobIsLost ==
    ASSUME NEW j \in Jobs, job[j].status \in {"none", "VALIDATED"}, j \notin cut,
           job'[j].status # "none", j \in cut' \/ job'[j].status = "FAILED"
    PROVE  JobGoes(j)
<1>1. JobStage(j) \in {"new", "open"}
  BY DEF JobStage
<1>2. JobStage(j)' = "lost"
  BY DEF JobStage
<1> QED
  BY <1>1, <1>2 DEF JobGoes, JobTold, Turning

\* A step is about one job.
LEMMA OneJobMoves ==
    ASSUME CutsInv, cut' \subseteq Jobs, NEW j \in Jobs, JobGoes(j), j \in cut' => job'[j].status # "none",
           \A i \in Jobs \ {j} : job'[i].status = job[i].status /\ made'[i] = made[i] /\ (i \in cut' <=> i \in cut)
    PROVE  CutsInv' /\ \A i \in Jobs : JobGoes(i)
<1>1. ASSUME NEW i \in Jobs PROVE JobGoes(i)
  <2>1. CASE i = j
    BY <2>1
  <2>2. CASE i # j
    BY <2>2, JobRests
  <2> QED
    BY <2>1, <2>2
<1>2. CutsInv'
  BY DEF CutsInv
<1> QED
  BY <1>1, <1>2

\* Steps on templates, and steps of a request that saves no job and inserts no rows of one.
LEMMA JobsRest ==
    ASSUME ImportsInv, CutsInv, UNCHANGED <<made, cut>>, \A j \in Jobs : job'[j].status = job[j].status
    PROVE  CutsInv' /\ \A j \in Jobs : JobGoes(j)
<1>1. \A j \in Jobs : JobGoes(j)
  BY JobRests
<1>2. CutsInv'
  BY DEF CutsInv, ImportsInv, ImportsTypeOK
<1> QED
  BY <1>1, <1>2

LEMMA JobOpens ==
    ASSUME ImportsInv, CutsInv, NEW r \in Clerks, SaveJob(r)
    PROVE  CutsInv' /\ \A j \in Jobs : JobGoes(j)
<1>1. clerk[r].at = "job" /\ clerk[r].at \in Validation
  BY DEF SaveJob, Validation
<1>2. PICK c \in Clerk, j \in Jobs : c = clerk[r] /\ j = clerk[r].job
  BY <1>1, OneValidation
<1>3. PICK copy \in JobRow : copy = c.copy
  BY <1>2 DEF Clerk
<1>4. made' = made /\ cut' = cut
  BY DEF SaveJob
<1>5. job[j].status = "none" /\ copy.status \in {"VALIDATED", "FAILED"}
  BY <1>1, <1>2, <1>3, OneValidation DEF Checks
<1>6. j \notin cut
  BY <1>5 DEF CutsInv
<1>7. CASE Missing(c.template)
  <2>1. job' = job
    BY <1>2, <1>7 DEF SaveJob
  <2> QED
    BY <1>4, <2>1, JobsRest
<1>8. CASE ~Missing(c.template)
  <2>1. job' = [job EXCEPT ![j] = copy]
    BY <1>2, <1>3, <1>8 DEF SaveJob
  <2>2. job'[j] = copy /\ \A i \in Jobs \ {j} : job'[i] = job[i]
    BY <2>1 DEF ImportsInv, ImportsTypeOK
  <2>3. JobGoes(j)
    <3>1. CASE copy.status = "FAILED"
      BY <1>5, <1>6, <2>2, <3>1, JobIsLost
    <3>2. CASE copy.status = "VALIDATED"
      <4>1. JobStage(j) = "new" /\ JobStage(j)' = "open"
        BY <1>4, <1>5, <1>6, <2>2, <3>2 DEF JobStage
      <4> QED
        BY <1>4, <4>1 DEF JobGoes, JobWork, JobTold, Turning
    <3> QED
      BY <1>5, <3>1, <3>2
  <2>4. cut' \subseteq Jobs /\ (j \in cut' => job'[j].status # "none")
    BY <1>4, <1>6 DEF ImportsInv, ImportsTypeOK
  <2> QED
    BY <1>4, <2>2, <2>3, <2>4, OneJobMoves
<1> QED
  BY <1>7, <1>8

LEMMA CommitsBegin ==
    ASSUME ImportsInv, CutsInv, NEW r \in Clerks, NEW j \in Jobs, AskCommit(r, j)
    PROVE  CutsInv' /\ \A i \in Jobs : JobGoes(i)
<1>1. job[j].status = "VALIDATED" /\ job' = job /\ made' = made /\ (cut' = cut \/ cut' = cut \cup {j})
  BY DEF AskCommit, MayCommit
<1>2. CASE cut' = cut
  BY <1>1, <1>2, JobsRest
<1>3. CASE cut' = cut \cup {j}
  <2>1. JobGoes(j)
    BY <1>1, <1>3, CutJobRests, JobIsLost
  <2>2. cut' \subseteq Jobs
    BY <1>3 DEF ImportsInv, ImportsTypeOK
  <2> QED
    BY <1>1, <1>3, <2>1, <2>2, OneJobMoves
<1> QED
  BY <1>1, <1>2, <1>3

LEMMA JobIsDone ==
    ASSUME ImportsInv, CutsInv, NEW r \in Clerks, InsertContacts(r)
    PROVE  CutsInv' /\ \A i \in Jobs : JobGoes(i)
<1>1. clerk[r].at = "insert" /\ job' = job /\ cut' = cut
  BY DEF InsertContacts
<1>2. made' = made \/ (~clerk[r].new /\ made' = [made EXCEPT ![clerk[r].job] = @ + 1])
  BY DEF InsertContacts
<1>3. CASE made' = made
  BY <1>1, <1>3, JobsRest
<1>4. CASE ~clerk[r].new /\ made' = [made EXCEPT ![clerk[r].job] = @ + 1]
  <2>1. Commits(clerk[r])
    BY <1>1, <1>4 DEF Commits
  <2>2. PICK j \in Jobs : j = clerk[r].job
    BY <2>1, OneCommit
  <2>3. job[j].status # "none" /\ (j \notin cut => job[j].status = "VALIDATED" /\ made[j] = 0)
    BY <1>1, <2>1, <2>2, OneCommit
  <2>4. made'[j] = made[j] + 1 /\ \A i \in Jobs \ {j} : made'[i] = made[i]
    BY <1>4, <2>2 DEF ImportsInv, ImportsTypeOK
  <2>5. JobGoes(j)
    <3>1. CASE j \in cut
      BY <1>1, <2>3, <3>1, CutJobRests
    <3>2. CASE j \notin cut
      <4>1. JobStage(j) = "open" /\ JobStage(j)' = "open"
        BY <1>1, <2>3, <3>2 DEF JobStage
      <4>2. JobWork(j) = 1..0
        BY <2>3, <3>2, <4>1 DEF JobWork
      <4>3. JobWork(j) \subseteq JobWork(j)'
        BY <4>2
      <4> QED
        BY <4>1, <4>3 DEF JobGoes, JobTold, Turning
    <3> QED
      BY <3>1, <3>2
  <2>6. cut' \subseteq Jobs
    BY <1>1 DEF ImportsInv, ImportsTypeOK
  <2> QED
    BY <1>1, <2>3, <2>4, <2>5, <2>6, OneJobMoves
<1> QED
  BY <1>2, <1>3, <1>4

\* A commit that ends saves its job.
LEMMA JobEnds ==
    ASSUME ImportsInv, CutsInv, NEW r \in Clerks, Commits(clerk[r]), UNCHANGED <<made, cut>>,
           NEW status \in {"FAILED", "COMPLETED"}, status = "COMPLETED" <=> clerk[r].at = "complete",
           job' = [job EXCEPT ![clerk[r].job] = [clerk[r].copy EXCEPT !.status = status]]
    PROVE  CutsInv' /\ \A i \in Jobs : JobGoes(i)
<1>1. PICK j \in Jobs : j = clerk[r].job
  BY OneCommit
<1>2. /\ job[j].status # "none"
      /\ j \notin cut => job[j].status = "VALIDATED" /\ made[j] = IF clerk[r].at = "complete" THEN 1 ELSE 0
  BY <1>1, OneCommit
<1>3. PICK row : row = [clerk[r].copy EXCEPT !.status = status]
  OBVIOUS
<1>4. row.status = status
  <2>1. clerk[r].copy \in JobRow
    BY DEF ImportsInv, ImportsTypeOK, Clerk
  <2> QED
    BY <1>3, <2>1 DEF JobRow
<1>5. job' = [job EXCEPT ![j] = row]
  BY <1>1, <1>3
<1>6. job'[j].status = status /\ \A i \in Jobs \ {j} : job'[i] = job[i]
  BY <1>4, <1>5 DEF ImportsInv, ImportsTypeOK
<1>7. JobGoes(j)
  <2>1. CASE j \in cut
    BY <1>2, <1>6, <2>1, CutJobRests
  <2>2. CASE j \notin cut /\ status = "FAILED"
    BY <1>2, <1>6, <2>2, JobIsLost
  <2>3. CASE j \notin cut /\ status = "COMPLETED"
    <3>1. JobStage(j) = "open" /\ JobStage(j)' = "over"
      BY <1>2, <1>6, <2>3 DEF JobStage
    <3>2. made[j] = 1 /\ made'[j] = 1
      BY <1>2, <2>3
    <3>3. JobWork(j) = {1} /\ JobWork(j)' = {1}
      <4>1. 1..1 = {1}
        OBVIOUS
      <4> QED
        BY <3>1, <3>2, <4>1 DEF JobWork
    <3>4. Cardinality({1}) = 1
      BY FS_Singleton
    <3>5. JobTold(j)' = 1
      BY <3>1 DEF JobTold
    <3> QED
      BY <3>1, <3>3, <3>4, <3>5 DEF JobGoes, Turning
  <2> QED
    BY <2>1, <2>2, <2>3
<1>8. cut' \subseteq Jobs
  BY DEF ImportsInv, ImportsTypeOK
<1> QED
  BY <1>6, <1>7, <1>8, OneJobMoves

LEMMA HalfwayIsLost ==
    ASSUME ImportsInv, CutsInv, NEW r \in Clerks, CompleteThrows(r)
    PROVE  CutsInv' /\ \A i \in Jobs : JobGoes(i)
<1>1. clerk[r].at = "complete" /\ Commits(clerk[r])
  BY DEF CompleteThrows, Commits, ImportsInv, CommitsInv
<1>2. PICK j \in Jobs : j = clerk[r].job
  BY <1>1, OneCommit
<1>3. job' = job /\ made' = made /\ cut' = cut \cup {j}
  BY <1>2 DEF CompleteThrows
<1>4. job[j].status # "none" /\ (j \notin cut => job[j].status = "VALIDATED")
  BY <1>1, <1>2, OneCommit
<1>5. JobGoes(j)
  BY <1>3, <1>4, CutJobRests, JobIsLost
<1>6. cut' \subseteq Jobs
  BY <1>3 DEF ImportsInv, ImportsTypeOK
<1> QED
  BY <1>3, <1>4, <1>5, <1>6, OneJobMoves

LEMMA ClerksAreLost ==
    ASSUME ImportsInv, CutsInv, ClerksDie
    PROVE  CutsInv' /\ \A i \in Jobs : JobGoes(i)
<1>1. /\ cut' = cut \cup {clerk[r].job : r \in {q \in Clerks : clerk[q].at = "complete"}}
      /\ job' = job /\ made' = made
  BY DEF ClerksDie
<1>2. ASSUME NEW j \in cut', j \notin cut PROVE j \in Jobs /\ job[j].status = "VALIDATED"
  <2>1. PICK r \in Clerks : clerk[r].at = "complete" /\ j = clerk[r].job
    BY <1>1, <1>2
  <2>2. Commits(clerk[r])
    BY <2>1 DEF Commits, ImportsInv, CommitsInv
  <2> QED
    BY <1>2, <2>1, <2>2, OneCommit
<1>3. ASSUME NEW j \in Jobs PROVE JobGoes(j)
  <2>1. CASE j \in cut' /\ j \notin cut
    <3>1. job[j].status = "VALIDATED" /\ job'[j].status = "VALIDATED"
      BY <1>1, <1>2, <2>1
    <3> QED
      BY <2>1, <3>1, JobIsLost
  <2>2. CASE ~(j \in cut' /\ j \notin cut)
    BY <1>1, <2>2, JobRests
  <2> QED
    BY <2>1, <2>2
<1>4. CutsInv'
  BY <1>1, <1>2 DEF CutsInv
<1> QED
  BY <1>3, <1>4

LEMMA JobsGoOn ==
    ASSUME ImportsInv, CutsInv, ImportsNext \/ ClerksDie \/ UNCHANGED importVars
    PROVE  CutsInv' /\ \A j \in Jobs : JobGoes(j)
<1>1. ASSUME UNCHANGED <<job, made, cut>> PROVE CutsInv' /\ \A j \in Jobs : JobGoes(j)
  BY <1>1, JobsRest
<1>2. ASSUME NEW r \in Clerks, TemplateStep(r) PROVE CutsInv' /\ \A j \in Jobs : JobGoes(j)
  <2>1. CASE DeleteTemplate(r)
    <3>1. PICK t : job' = [j \in Jobs |-> IF job[j].template = t THEN [job[j] EXCEPT !.template = NoTemplate] ELSE job[j]]
      BY <2>1 DEF DeleteTemplate
    <3>2. \A j \in Jobs : job'[j].status = job[j].status
      BY <3>1 DEF ImportsInv, ImportsTypeOK, JobRow
    <3> QED
      BY <2>1, <3>2, JobsRest DEF DeleteTemplate
  <2>2. CASE ~DeleteTemplate(r)
    <3>1. UNCHANGED <<job, made, cut>>
      BY <1>2, <2>2, Zenon DEF TemplateStep, AskCreate, AskUpdate, AskDelete, Opens, UnsetOthers, PointOrganization,
         ClearOrganization, SaveTemplate, SaveRefused, CountTemplates, jobVars
    <3> QED
      BY <1>1, <3>1
  <2> QED
    BY <2>1, <2>2
<1>3. ASSUME NEW r \in Clerks, CompleteJob(r) \/ FailJob(r) PROVE CutsInv' /\ \A j \in Jobs : JobGoes(j)
  <2>1. Commits(clerk[r]) /\ UNCHANGED <<made, cut>>
    BY <1>3 DEF CompleteJob, FailJob, Commits, ImportsInv, CommitsInv
  <2>2. CASE job' = job
    BY <1>1, <2>1, <2>2
  <2>3. CASE job' # job
    <3>1. PICK status \in {"FAILED", "COMPLETED"} :
              /\ status = "COMPLETED" <=> clerk[r].at = "complete"
              /\ job' = [job EXCEPT ![clerk[r].job] = [clerk[r].copy EXCEPT !.status = status]]
      BY <1>3, <2>3 DEF CompleteJob, FailJob, SavesJob
    <3> QED
      BY <2>1, <3>1, JobEnds
  <2> QED
    BY <2>2, <2>3
<1>4. ASSUME NEW r \in Clerks, ImportStep(r) PROVE CutsInv' /\ \A j \in Jobs : JobGoes(j)
  <2>1. \/ UNCHANGED <<job, made, cut>>
        \/ SaveJob(r) \/ (\E j \in Jobs : AskCommit(r, j)) \/ InsertContacts(r)
        \/ CompleteJob(r) \/ CompleteThrows(r) \/ FailJob(r)
    BY <1>4, Zenon DEF ImportStep, AskRows, AskValidateByDefault, AskValidate, ResolveTemplate, CheckRows, RereadTemplate,
       SaveApplication, CheckExisting, ClerkFails, jobVars
  <2> QED
    BY <1>1, <1>3, <2>1, JobOpens, CommitsBegin, JobIsDone, HalfwayIsLost, Zenon
<1>5. ASSUME NEW e, ContactMoves(e) PROVE CutsInv' /\ \A j \in Jobs : JobGoes(j)
  BY <1>1, <1>5 DEF ContactMoves
<1>6. CASE ImportsNext
  BY <1>2, <1>4, <1>5, <1>6, Zenon DEF ImportsNext
<1>7. CASE ClerksDie
  BY <1>7, ClerksAreLost
<1>8. CASE UNCHANGED importVars
  BY <1>1, <1>8 DEF importVars
<1> QED
  BY <1>6, <1>7, <1>8

\* Import jobs are tasks: the rows of one are inserted once at most, while it is validated; one that is
\* completed has them in, exactly once; and one that is completed or failed is not committed again, unless
\* two requests committed it at once or one was left halfway.
THEOREM JobsAreTasks == Spec => JobTask!TSpec
<1>1. Init => ImportsInv /\ CutsInv /\ JobTask!TInit
  <2> SUFFICES ASSUME ImportsInit PROVE ImportsInv /\ CutsInv /\ JobTask!TInit
    BY DEF Init
  <2>1. ASSUME NEW j \in Jobs PROVE JobStage(j) = "new" /\ JobWork(j) = {} /\ JobTold(j) = 0
    <3>1. job[j].status = "none" /\ made[j] = 0
      BY NoOneImports DEF ImportsInit
    <3>2. JobStage(j) = "new"
      BY <3>1 DEF JobStage
    <3>3. 1..0 = {}
      OBVIOUS
    <3> QED
      BY <3>1, <3>2, <3>3 DEF JobWork, JobTold
  <2>2. JobTask!TInit
    BY <2>1 DEF JobTask!TInit, JobWork, JobTold
  <2>3. CutsInv
    BY DEF ImportsInit, CutsInv
  <2> QED
    BY <2>2, <2>3, ImportsStart
<1>2. ImportsInv /\ CutsInv /\ [Next]_vars => ImportsInv' /\ CutsInv' /\ JobTask!TNext
  BY StepsArePartsSteps, ImportsStay, JobsGoOn, JobsGo
<1> QED
  BY <1>1, <1>2, PTL DEF Spec, JobTask!TSpec

\* What takes several steps is done once, told once, and not touched again: broadcasts, reconciliations,
\* requests with their logs, and imports.
THEOREM TasksKept == Spec => TasksEndOnce
BY BroadcastsAreTasks, AuditsAreTasks, CallsAreTasks, JobsAreTasks DEF TasksEndOnce
=============================================================================
