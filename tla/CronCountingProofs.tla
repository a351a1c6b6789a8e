------------------------- MODULE CronCountingProofs -------------------------
(***************************************************************************)
(* What has to be counted: the rows of a job that are queued or running,   *)
(* the instants enqueue_due_cron_runs picks, the leases acquire_cron_runs  *)
(* hands out and the threads of a daemon.  The theorems hold for every     *)
(* set of jobs, daemons, scopes and targets and every value of the bounds. *)
(***************************************************************************)
EXTENDS CronSchedulerProofs, FiniteSetTheorems

-----------------------------------------------------------------------------
(* LIMIT n of an ordered query returns at most n rows                      *)

\* A bounded set of numbers that is not empty has a largest element.
LEMMA Largest ==
  ASSUME NEW n \in Nat, NEW V \in SUBSET (0..n), V # {}
  PROVE  \E v \in V : \A w \in V : w <= v
<1> DEFINE W == {m \in Nat : n - m \in V}
<1>1. PICK v \in V : TRUE BY Zenon
<1>2. n - v \in Nat /\ n - (n - v) = v OBVIOUS
<1>3. W # {} /\ W \subseteq Nat
  BY <1>1, <1>2
<1>4. PICK m \in W : \A k \in W : ~(<<k, m>> \in OpToRel(<, Nat))
  BY <1>3, NatLessThanWellFounded, WFMin, Zenon
<1>5. \A k \in W : ~(k < m)
  BY <1>3, <1>4, Zenon DEF OpToRel
<1>6. n - m \in V BY <1>4, Zenon
<1>7. ASSUME NEW w \in V PROVE w <= n - m
  <2>1. n - w \in Nat /\ n - (n - w) = w OBVIOUS
  <2>2. n - w \in W BY <2>1
  <2>3. ~(n - w < m) /\ m \in Nat BY <1>5, <2>2, <1>4, Zenon
  <2> QED BY <2>3
<1> QED BY <1>6, <1>7

\* R is a strict total order of S.
Orders(R, S) ==
  /\ \A q, r \in S : q # r => <<q, r>> \in R \/ <<r, q>> \in R
  /\ \A q, r, s \in S : <<q, r>> \in R /\ <<r, s>> \in R => <<q, s>> \in R
  /\ \A q \in S : <<q, q>> \notin R

\* Of a finite set, fewer than n elements precede at most n of its elements.
LEMMA FirstAreFew ==
  ASSUME NEW S, IsFiniteSet(S), NEW R, Orders(R, S), NEW n \in Nat
  PROVE  LET first == {r \in S : Cardinality({q \in S : <<q, r>> \in R}) < n}
         IN  IsFiniteSet(first) /\ Cardinality(first) <= n
<1> DEFINE pred(r) == {q \in S : <<q, r>> \in R}
           first == {r \in S : Cardinality(pred(r)) < n}
<1>1. IsFiniteSet(first) /\ first \subseteq S
  BY FS_Subset, Zenon
<1>2. \A r \in S : IsFiniteSet(pred(r)) /\ Cardinality(pred(r)) \in Nat
  BY FS_Subset, FS_CardinalityType, Zenon
<1>3. CASE first = {}
  <2> HIDE DEF first
  <2>1. Cardinality(first) = 0 BY <1>3, FS_EmptySet
  <2> QED BY <1>1, <2>1 DEF first
<1>4. CASE first # {}
  <2> DEFINE V == {Cardinality(pred(r)) : r \in first}
  <2>1. V \in SUBSET (0..n) /\ V # {}
    <3>1. \A r \in first : Cardinality(pred(r)) \in Nat /\ Cardinality(pred(r)) < n
      BY <1>1, <1>2, Zenon
    <3> HIDE DEF pred, first
    <3> QED BY <1>4, <3>1
  <2>2. PICK v \in V : \A w \in V : w <= v
    BY <2>1, Largest, Zenon
  <2>3. PICK r \in first : v = Cardinality(pred(r))
    BY <2>2
  <2>4. ASSUME NEW q \in first, q # r PROVE q \in pred(r)
    <3>1. SUFFICES ASSUME <<r, q>> \in R PROVE FALSE
      BY <1>1, <2>4 DEF Orders
    <3>2. pred(r) \subseteq pred(q) /\ r \in pred(q) /\ r \notin pred(r)
      BY <1>1, <3>1 DEF Orders
    <3>3. IsFiniteSet(pred(q)) /\ IsFiniteSet(pred(r))
      BY <1>1, <1>2
    <3>4. Cardinality(pred(r)) <= Cardinality(pred(q)) /\ Cardinality(pred(q)) # Cardinality(pred(r))
      <4> HIDE DEF pred
      <4> QED BY <3>2, <3>3, FS_Subset
    <3>5. Cardinality(pred(q)) <= Cardinality(pred(r))
      BY <2>2, <2>3, Zenon
    <3>6. Cardinality(pred(q)) \in Nat /\ Cardinality(pred(r)) \in Nat
      BY <1>1, <1>2, Zenon
    <3> HIDE DEF pred
    <3> QED BY <3>4, <3>5, <3>6
  <2>5. first \subseteq pred(r) \union {r}
    BY <2>4
  <2>6. IsFiniteSet(pred(r)) /\ Cardinality(pred(r)) \in Nat /\ Cardinality(pred(r)) < n
    BY <1>1, <1>2
  <2> HIDE DEF first, pred
  <2>7. /\ IsFiniteSet(pred(r) \union {r})
        /\ Cardinality(pred(r) \union {r}) <= Cardinality(pred(r)) + 1
        /\ Cardinality(pred(r) \union {r}) \in Nat
    <3>1. /\ IsFiniteSet(pred(r) \union {r})
          /\ Cardinality(pred(r) \union {r}) \in {Cardinality(pred(r)), Cardinality(pred(r)) + 1}
      BY <2>6, FS_AddElement, Zenon
    <3> QED BY <2>6, <3>1
  <2>8. Cardinality(first) <= Cardinality(pred(r) \union {r}) /\ Cardinality(first) \in Nat
    BY <1>1, <2>5, <2>7, FS_Subset, FS_CardinalityType, Zenon
  <2>9. Cardinality(first) <= n BY <2>6, <2>7, <2>8
  <2> QED BY <1>1, <2>9 DEF first, pred
<1> QED BY <1>3, <1>4

\* What a function makes of a finite set is not larger than the set.
LEMMA ImageFew ==
  ASSUME NEW S, IsFiniteSet(S), NEW f, f = [x \in S |-> f[x]]
  PROVE  LET T == {f[x] : x \in S}
         IN  IsFiniteSet(T) /\ Cardinality(T) <= Cardinality(S)
<1> DEFINE T == {f[x] : x \in S}
<1>1. f \in Surjection(S, T) BY DEF Surjection
<1> HIDE DEF T
<1>2. IsFiniteSet(T) /\ Cardinality(T) <= Cardinality(S) BY <1>1, FS_Surjection
<1> QED BY <1>2 DEF T

\* The instants of the model are finitely many numbers.
LEMMA TimeFinite == Time \subseteq Nat /\ IsFiniteSet(Time)
BY BoundsAssumption, FS_Interval DEF Time

\* due_points[:n] has at most n elements.
LEMMA FirstNFew ==
  ASSUME NEW S \in SUBSET Time, NEW n \in Nat
  PROVE  IsFiniteSet(FirstN(S, n)) /\ Cardinality(FirstN(S, n)) <= n
<1> DEFINE R == {p \in Time \X Time : p[1] < p[2]}
<1>1. IsFiniteSet(S) /\ S \subseteq Nat BY TimeFinite, FS_Subset, Zenon
<1>2. \A u, t \in S : <<u, t>> \in R <=> u < t OBVIOUS
<1> HIDE DEF R
<1>3. Orders(R, S) BY <1>1, <1>2 DEF Orders
<1>4. ASSUME NEW t \in S PROVE {u \in S : u < t} = {u \in S : <<u, t>> \in R}
  BY <1>2
<1>5. FirstN(S, n) = {t \in S : Cardinality({u \in S : <<u, t>> \in R}) < n}
  BY <1>4, Zenon DEF FirstN
<1> QED BY <1>1, <1>3, <1>5, FirstAreFew

\* Of one instant the first and the last one is that instant.
LEMMA FirstOfOne ==
  ASSUME NEW t \in Nat, NEW n \in Nat \ {0}
  PROVE  FirstN({t}, n) = {t} /\ LastN({t}, n) = {t}
<1>1. {u \in {t} : u < t} = {} /\ {u \in {t} : u > t} = {} OBVIOUS
<1>2. Cardinality({}) < n BY FS_EmptySet
<1> QED BY <1>1, <1>2 DEF FirstN, LastN

-----------------------------------------------------------------------------
(* The tables                                                              *)

\* The jobs that were ever added are finitely many.
JobsFinite == IsFiniteSet({j \in Job : jobs[j].row # "new"})

\* So the jobs stay finitely many.
LEMMA NextJobsFinite ==
  ASSUME TypeOK, JobsFinite, [Next]_vars
  PROVE  JobsFinite'
<1> DEFINE Added == {j \in Job : jobs[j].row # "new"}
           Later == {j \in Job : jobs'[j].row # "new"}
<1>1. CASE AddJob
  <2>1. PICK k \in Job : \E en \in BOOLEAN : add_cron_job(k, en)
    BY <1>1 DEF AddJob
  <2>2. Later \subseteq Added \union {k}
    BY <2>1 DEF add_cron_job, TypeOK
  <2>3. IsFiniteSet(Added \union {k})
    BY FS_AddElement DEF JobsFinite
  <2> HIDE DEF Added, Later
  <2>4. IsFiniteSet(Later) BY <2>2, <2>3, FS_Subset
  <2> QED BY <2>4 DEF JobsFinite, Later
<1>2. CASE ~AddJob
  <2>1. Later \subseteq Added BY <1>2, NewJobsStay
  <2>2. IsFiniteSet(Added) BY DEF JobsFinite
  <2> HIDE DEF Added, Later
  <2>3. IsFiniteSet(Later) BY <2>1, <2>2, FS_Subset
  <2> QED BY <2>3 DEF JobsFinite, Later
<1> QED BY <1>1, <1>2

\* The rows _active_cron_run_count counts are finitely many.
LEMMA ActiveFinite ==
  ASSUME TypeOK, JobsFinite, NEW table, NEW j \in Job
  PROVE  /\ IsFiniteSet({r \in Run : /\ IsActive(table[r])
                                     /\ IF Key(j) = NULL THEN r[1] = j ELSE InScope(r, Key(j))})
         /\ _active_cron_run_count(table, j) \in Nat
<1> DEFINE Counted == {r \in Run : /\ IsActive(table[r])
                                   /\ IF Key(j) = NULL THEN r[1] = j ELSE InScope(r, Key(j))}
           Added == {i \in Job : jobs[i].row # "new"}
<1>1. IsFiniteSet((Added \union {j}) \X Time)
  <2>1. IsFiniteSet(Added \union {j}) BY FS_AddElement DEF JobsFinite
  <2> HIDE DEF Added
  <2> QED BY <2>1, TimeFinite, FS_Product
<1>2. Counted \subseteq (Added \union {j}) \X Time
  BY DEF Run, InScope, Present
<1> HIDE DEF Counted
<1>3. IsFiniteSet(Counted) /\ Cardinality(Counted) \in Nat
  BY <1>1, <1>2, FS_Subset, FS_CardinalityType
<1> QED BY <1>3 DEF Counted, _active_cron_run_count

\* LIMIT: acquire_cron_runs looks at no more rows than it was asked for, and
\* hands out no more leases.
LEMMA AcquireFew ==
  ASSUME IInv, JobsFinite, NEW d \in Daemon, NEW limit \in Nat, acquire_cron_runs(d, limit)
  PROVE  IsFiniteSet(claims' \ claims) /\ Cardinality(claims' \ claims) <= limit
<1> DEFINE table == _recover_expired_cron_runs_locked
           all == {r \in Run : IsCandidate(table, r, d)}
           first == Candidates(table, d, limit)
           acquired == IF paused THEN {} ELSE Acquired(table, d, limit)
           R == {p \in Run \X Run : RunPrecedes(p[1], p[2])}
           f == [r \in acquired |-> ClaimOn(table, r, d)]
           T == {f[r] : r \in acquired}
<1>2. IsFiniteSet(all) /\ all \subseteq Run
  <2> DEFINE Added == {j \in Job : jobs[j].row # "new"}
  <2>1. IsFiniteSet(Added) BY DEF JobsFinite
  <2>2. all \subseteq Added \X Time BY DEF IsCandidate, Present, Run
  <2> HIDE DEF Added, all
  <2>3. IsFiniteSet(Added \X Time) BY <2>1, TimeFinite, FS_Product
  <2>4. IsFiniteSet(all) BY <2>2, <2>3, FS_Subset
  <2> QED BY <2>4 DEF all
<1>3. \A q, r \in all : <<q, r>> \in R <=> RunPrecedes(q, r) BY <1>2
<1>4. first = {r \in all : Cardinality({q \in all : <<q, r>> \in R}) < limit}
  <2>1. ASSUME NEW r \in all PROVE {q \in all : RunPrecedes(q, r)} = {q \in all : <<q, r>> \in R}
    <3> HIDE DEF R, all
    <3> QED BY <1>3
  <2>2. first = {r \in all : Cardinality({q \in all : RunPrecedes(q, r)}) < limit}
    BY DEF Candidates
  <2> HIDE DEF R, all, first
  <2> QED BY <2>1, <2>2, Zenon
<1>5. acquired \subseteq first BY DEF Acquired
<1>6. claims' \ claims \subseteq T BY DEF acquire_cron_runs
<1> HIDE DEF R, all, first, acquired, table
<1>7. Orders(R, all)
  <2>1. \A q, r \in all : q # r => <<q, r>> \in R \/ <<r, q>> \in R
    BY <1>2, <1>3, RunPrecedesTotal
  <2>2. \A q \in Run : q[1] \in Job /\ q[2] \in Nat /\ Config[q[1]].rowid \in Nat
    BY ConfigTypes, TimeFinite, Zenon DEF JobConfig
  <2>3. \A q, r, s \in all : <<q, r>> \in R /\ <<r, s>> \in R => <<q, s>> \in R
    <3> SUFFICES ASSUME NEW q \in all, NEW r \in all, NEW s \in all,
                        RunPrecedes(q, r), RunPrecedes(r, s)
                 PROVE  RunPrecedes(q, s)
      BY <1>3
    <3>1. q \in Run /\ r \in Run /\ s \in Run BY <1>2
    <3> QED BY <2>2, <3>1 DEF RunPrecedes
  <2>4. \A q \in all : <<q, q>> \notin R
    <3> SUFFICES ASSUME NEW q \in all, RunPrecedes(q, q) PROVE FALSE BY <1>3
    <3>1. q \in Run BY <1>2
    <3> QED BY <2>2, <3>1 DEF RunPrecedes
  <2> QED BY <2>1, <2>3, <2>4 DEF Orders
<1>8. IsFiniteSet(first) /\ Cardinality(first) <= limit
  BY <1>2, <1>4, <1>7, FirstAreFew
<1>9. IsFiniteSet(acquired) /\ Cardinality(acquired) <= Cardinality(first)
  BY <1>5, <1>8, FS_Subset
<1>10. IsFiniteSet(T) /\ Cardinality(T) <= Cardinality(acquired)
  <2>1. f = [r \in acquired |-> f[r]] OBVIOUS
  <2> HIDE DEF f
  <2> QED BY <1>9, <2>1, ImageFew
<1> HIDE DEF T
<1>11. IsFiniteSet(claims' \ claims) /\ Cardinality(claims' \ claims) <= Cardinality(T)
  BY <1>6, <1>10, FS_Subset
<1>12. /\ Cardinality(claims' \ claims) \in Nat /\ Cardinality(T) \in Nat
       /\ Cardinality(acquired) \in Nat /\ Cardinality(first) \in Nat
  BY <1>8, <1>9, <1>10, <1>11, FS_CardinalityType, Zenon
<1>13. Cardinality(claims' \ claims) <= limit BY <1>8, <1>9, <1>10, <1>11, <1>12
<1> QED BY <1>11, <1>13

\* The instants enqueue_due_cron_runs picks for a job are instants of the
\* model, and what it inserts is within the room the job has.
LEMMA InsertedFit ==
  ASSUME IInv, JobsFinite, NEW table, NEW j \in Job, NEW due, HasRoom(table, due, j)
  PROVE  /\ _select_due_points_for_job(j) \subseteq Time
         /\ max_for_job(j) - _active_cron_run_count(table, j) \in Nat \ {0}
         /\ InsertedPoints(table, j) \subseteq Time
         /\ DuePoints(table, j) \subseteq Time
         /\ IsFiniteSet(InsertedPoints(table, j))
         /\ Cardinality(InsertedPoints(table, j)) <= max_for_job(j) - _active_cron_run_count(table, j)
<1> DEFINE sel == _select_due_points_for_job(j)
           room == max_for_job(j) - _active_cron_run_count(table, j)
<1>0. TypeOK /\ now \in Time BY DEF IInv, TypeOK
<1>1. sel \subseteq Time
  <2>1. RecentCandidates(j) \subseteq Time
    BY DEF RecentCandidates, DueCandidates, FirstN
  <2> QED BY <1>0, <2>1, Zenon DEF _select_due_points_for_job, LastN
<1>2. room \in Nat \ {0}
  <2>1. max_for_job(j) \in Nat BY ConfigAssumption DEF max_for_job, JobConfig
  <2>2. _active_cron_run_count(table, j) \in Nat BY <1>0, ActiveFinite, Zenon
  <2> QED BY <2>1, <2>2 DEF HasRoom
<1>3. DuePoints(table, j) = FirstN(sel, room) BY DEF DuePoints
<1>4. InsertedPoints(table, j) \subseteq FirstN(sel, room) BY <1>3 DEF InsertedPoints
<1> HIDE DEF sel, room
<1>5. IsFiniteSet(FirstN(sel, room)) /\ Cardinality(FirstN(sel, room)) <= room
  BY <1>1, <1>2, FirstNFew
<1>6. FirstN(sel, room) \subseteq Time BY <1>1 DEF FirstN
<1>7. /\ IsFiniteSet(InsertedPoints(table, j))
      /\ Cardinality(InsertedPoints(table, j)) <= Cardinality(FirstN(sel, room))
      /\ Cardinality(InsertedPoints(table, j)) \in Nat /\ Cardinality(FirstN(sel, room)) \in Nat
  BY <1>4, <1>5, FS_Subset, FS_CardinalityType, Zenon
<1>8. Cardinality(InsertedPoints(table, j)) <= room BY <1>2, <1>5, <1>7
<1> QED BY <1>1, <1>2, <1>3, <1>4, <1>6, <1>7, <1>8, Zenon DEF sel, room

\* Every step keeps the jobs within max_concurrency: what is added was
\* counted in the same transaction, and nothing else makes a row active.
LEMMA NextConcurrencyLimit ==
  ASSUME IInv, JobsFinite, ConcurrencyLimit, [Next]_vars
  PROVE  ConcurrencyLimit'
<1> SUFFICES ASSUME NEW j \in Job, Key(j) = NULL, ~Config[j].manual
             PROVE  Cardinality({r \in Run : r[1] = j /\ IsActive(runs'[r])})
                      <= Config[j].max_concurrency
  BY DEF ConcurrencyLimit, Key, IsActive
<1> DEFINE Active == {r \in Run : r[1] = j /\ IsActive(runs[r])}
           Later == {r \in Run : r[1] = j /\ IsActive(runs'[r])}
           max == Config[j].max_concurrency
           new == {r \in Run : r[1] = j /\ runs[r].state = "none" /\ IsActive(runs'[r])}
<1>1. TypeOK /\ RowsOK BY DEF IInv
<1>2. max \in Nat BY ConfigAssumption DEF JobConfig
<1>3. IsFiniteSet(Active) /\ IsFiniteSet({j} \X Time)
  <2>1. IsFiniteSet({j} \X Time) BY FS_Singleton, FS_Product, TimeFinite, Zenon
  <2>2. Active \subseteq {j} \X Time BY DEF Run
  <2> HIDE DEF Active
  <2> QED BY <2>1, <2>2, FS_Subset
<1>4. Cardinality(Active) <= max /\ Cardinality(Active) \in Nat
  BY <1>3, FS_CardinalityType DEF ConcurrencyLimit
<1>5. Later \subseteq Active \union new
  BY <1>1, ActiveWas
<1>6. CASE new = {}
  <2> HIDE DEF Active, Later, max, new
  <2>1. Later \subseteq Active BY <1>5, <1>6
  <2>2. Cardinality(Later) <= Cardinality(Active) /\ Cardinality(Later) \in Nat
    BY <1>3, <2>1, FS_Subset, FS_CardinalityType, Zenon
  <2>3. Cardinality(Later) <= max BY <1>2, <1>4, <2>2
  <2> QED BY <2>3 DEF Later, max
<1>7. CASE new # {}
  <2>1. PICK r \in new : TRUE BY <1>7
  <2>2. /\ r \in Run /\ r[1] = j /\ r = <<j, r[2]>> /\ runs[r].state = "none"
        /\ runs'[r].state # "none" /\ runs'[r].state # "failed"
    BY <2>1 DEF IsActive, Run
  <2>3. CreatedByCall(r) \/ CreatedAsDue(r) BY <1>1, <2>2, CreatedBy
  <2>4. CASE CreatedByCall(r)
    <3>1. trigger_task_run_now(j)
      BY <2>2, <2>4, Zenon DEF CreatedByCall, trigger_cron_run
    <3>2. Cardinality(Active) < max BY <3>1 DEF trigger_task_run_now
    <3>3. Later \subseteq Active \union {<<j, now>>}
      BY <1>1, <3>1 DEF trigger_task_run_now, TypeOK
    <3> HIDE DEF Active, Later, max
    <3>4. /\ IsFiniteSet(Active \union {<<j, now>>})
          /\ Cardinality(Active \union {<<j, now>>}) \in {Cardinality(Active), Cardinality(Active) + 1}
      BY <1>3, FS_AddElement, Zenon
    <3>5. /\ Cardinality(Later) <= Cardinality(Active \union {<<j, now>>})
          /\ Cardinality(Later) \in Nat
      BY <3>3, <3>4, FS_Subset, FS_CardinalityType, Zenon
    <3>6. Cardinality(Later) <= max BY <1>2, <1>4, <3>2, <3>4, <3>5
    <3> QED BY <3>6 DEF Later, max
  <2>5. CASE CreatedAsDue(r)
    <3> DEFINE table == _recover_expired_cron_runs_locked
    <3>1. PICK d \in Daemon, mj \in 1..MaxJobs :
               /\ enqueue_due_cron_runs(d, mj) /\ ~paused
               /\ Admitted(table, _due_job_rows(mj), j)
      BY <2>2, <2>5 DEF CreatedAsDue
    <3> DEFINE due == _due_job_rows(mj)
               Counted == {q \in Run : /\ IsActive(table[q])
                                       /\ IF Key(j) = NULL THEN q[1] = j ELSE InScope(q, Key(j))}
               points == InsertedPoints(table, j)
               added == {j} \X points
    <3>2. runs' = [q \in Run |-> RunAfterEnqueue(table, due, q, d)]
      BY <3>1 DEF enqueue_due_cron_runs
    <3>3. HasRoom(table, due, j) /\ Admitted(table, due, j) BY <3>1 DEF Admitted
    <3> HIDE DEF table, due
    <3>4. /\ points \subseteq Time /\ IsFiniteSet(points)
          /\ Cardinality(points) <= max_for_job(j) - _active_cron_run_count(table, j)
      BY <3>3, InsertedFit, Zenon
    <3>5. max_for_job(j) = max /\ _active_cron_run_count(table, j) = Cardinality(Counted)
      BY DEF max_for_job, _active_cron_run_count
    <3>6. IsFiniteSet(Counted) /\ Cardinality(Counted) \in Nat
      BY <1>1, ActiveFinite, FS_CardinalityType, Zenon
    <3>7. ASSUME NEW q \in Later PROVE q \in Counted \/ q \in added
      <4>1. q \in Run /\ q[1] = j /\ q = <<j, q[2]>> /\ IsActive(runs'[q]) BY DEF Run
      <4>2. runs'[q] = RunAfterEnqueue(table, due, q, d) BY <3>2, <4>1, Zenon
      <4>3. \/ runs'[q] = table[q]
            \/ q[2] \in points
            \/ runs'[q] = NewRow(table[q], "failed", NULL, NULL, NULL)
        BY <4>1, <4>2, Zenon DEF RunAfterEnqueue
      <4>4. NewRow(table[q], "failed", NULL, NULL, NULL).state = "failed" BY DEF NewRow
      <4> QED BY <4>1, <4>3, <4>4, Zenon DEF IsActive
    <3>8. IsFiniteSet(added) /\ Cardinality(added) = Cardinality(points)
      <4>1. /\ IsFiniteSet({j}) /\ Cardinality({j}) = 1 BY FS_Singleton, Zenon
      <4>2. Cardinality(points) \in Nat BY <3>4, FS_CardinalityType
      <4> HIDE DEF points
      <4>3. Cardinality(added) = 1 * Cardinality(points) /\ IsFiniteSet(added)
        BY <3>4, <4>1, FS_Product, Zenon
      <4> QED BY <4>2, <4>3
    <3> HIDE DEF Counted, added, points, Later, max
    <3>9. Later \subseteq Counted \union added BY <3>7
    <3>10. /\ IsFiniteSet(Counted \union added)
           /\ Cardinality(Counted \union added) = Cardinality(Counted) + Cardinality(added) - Cardinality(Counted \cap added)
           /\ Cardinality(Counted \cap added) \in Nat
      BY <3>6, <3>8, FS_Union, FS_Intersection, FS_CardinalityType, Zenon
    <3>11. Cardinality(Later) <= Cardinality(Counted \union added) /\ Cardinality(Later) \in Nat
      BY <3>9, <3>10, FS_Subset, FS_CardinalityType, Zenon
    <3>12. Cardinality(points) \in Nat BY <3>4, FS_CardinalityType, Zenon
    <3>13. Cardinality(Later) <= max
      BY <1>2, <3>4, <3>5, <3>6, <3>8, <3>10, <3>11, <3>12
    <3> QED BY <3>13 DEF Later, max
  <2> QED BY <2>3, <2>4, <2>5
<1> QED BY <1>6, <1>7

\* A one-time job that may not be skipped gets an instant to run at: its own
\* or, when that is too late, now.
LEMMA OneTimeHasPoint ==
  ASSUME IInv, JobsFinite, NEW table, NEW j \in Job, NEW due, HasRoom(table, due, j),
         due \subseteq {k \in Job : IsDue(k)},
         Config[j].kind = "at", Config[j].misfire # "skip"
  PROVE  DuePoints(table, j) # {}
<1> DEFINE t == jobs[j].next_due_at
           recent == RecentCandidates(j)
           n == IF Config[j].misfire = "catch_up" THEN Config[j].catch_up_max ELSE 1
           room == max_for_job(j) - _active_cron_run_count(table, j)
<1>1. t \in Nat /\ now \in Nat
  <2>1. IsDue(j) BY DEF HasRoom
  <2> QED BY <2>1, TimeFinite DEF IInv, TypeOK, IsDue, JobRow, TimeOrNull
<1>2. n \in Nat \ {0} /\ Config[j].misfire \in {"run_once", "catch_up"}
  BY ConfigAssumption DEF JobConfig
<1>3. room \in Nat \ {0} BY InsertedFit, Zenon
<1>4. recent \subseteq {t}
  BY DEF RecentCandidates, DueCandidates, FirstN
<1>5. _select_due_points_for_job(j) = IF recent = {} THEN {now} ELSE LastN(recent, n)
  BY <1>2 DEF _select_due_points_for_job
<1>6. DuePoints(table, j) = FirstN(_select_due_points_for_job(j), room) BY DEF DuePoints
<1> HIDE DEF t, recent, n, room
<1>7. CASE recent = {}
  <2>1. FirstN({now}, room) = {now} BY <1>1, <1>3, FirstOfOne, Zenon
  <2> QED BY <1>5, <1>6, <1>7, <2>1, Zenon
<1>8. CASE recent = {t}
  <2>1. LastN({t}, n) = {t} BY <1>1, <1>2, FirstOfOne, Zenon
  <2>2. FirstN({t}, room) = {t} BY <1>1, <1>3, FirstOfOne, Zenon
  <2>3. _select_due_points_for_job(j) = {t} BY <1>5, <1>8, <2>1, Zenon
  <2> QED BY <1>6, <2>2, <2>3
<1> QED BY <1>4, <1>7, <1>8, Zenon

\* A row's name is counted up and never down: not even deleting history forgets
\* that it was used.
LEMMA RunIdGrows ==
  ASSUME NEW r, NEW x, NEW y, RowStep(r, x, y), x.run_id \in Nat
  PROVE  y.run_id >= x.run_id
BY DEF RowStep, QuietStep, Stays, Created, StartedStep, Requeued, EndedStep, Cancelled, Purged,
       SameRow

\* Every step keeps OneTimeNeverDropped: enqueueing takes the due time away
\* only together with a row, a new one or the one that has the name already.
LEMMA NextOneTime ==
  ASSUME IInv, JobsFinite, OneTimeNeverDropped, [Next]_vars
  PROVE  OneTimeNeverDropped'
<1>1. TypeOK /\ RowsOK BY DEF IInv
<1>2. TableStep BY <1>1, NextTableStep, Zenon
<1> SUFFICES ASSUME NEW j \in Job, jobs'[j].row = "present", jobs'[j].enabled,
                    jobs'[j].next_due_at = NULL, Config[j].kind = "at",
                    Config[j].task_owned \/ Config[j].misfire # "skip"
             PROVE  \E t \in Time : runs'[<<j, t>>].run_id > 0
  BY DEF OneTimeNeverDropped, Present
<1>3. CASE jobs'[j] = jobs[j]
  <2>1. PICK t \in Time : runs[<<j, t>>].run_id > 0
    BY <1>3 DEF OneTimeNeverDropped, Present
  <2> DEFINE r == <<j, t>>
  <2>2. r \in Run BY DEF Run
  <2>3. RowStep(r, runs[r], runs'[r]) /\ runs[r].run_id \in Nat
    BY <1>1, <1>2, <2>2 DEF TableStep, TypeOK, RunRow
  <2> HIDE DEF r
  <2>4. runs'[r].run_id >= runs[r].run_id BY <2>3, RunIdGrows, Zenon
  <2>5. runs'[r].run_id \in Nat BY <1>2, <2>2, Zenon DEF TableStep, RunRow
  <2>6. runs'[r].run_id > 0 BY <2>1, <2>3, <2>4, <2>5 DEF r
  <2> QED BY <2>6, Zenon DEF r
<1>4. CASE jobs'[j] # jobs[j]
  <2> DEFINE table == _recover_expired_cron_runs_locked
  <2>1. PICK d \in Daemon, mj \in 1..MaxJobs :
             /\ enqueue_due_cron_runs(d, mj) /\ ~paused
             /\ Admitted(table, _due_job_rows(mj), j)
             /\ ~ScheduleMissed(table, j)
    BY <1>1, <1>4, LosesDueTime, Zenon
  <2> DEFINE due == _due_job_rows(mj)
  <2>2. runs' = [q \in Run |-> RunAfterEnqueue(table, due, q, d)]
    BY <2>1, Zenon DEF enqueue_due_cron_runs
  <2>3. HasRoom(table, due, j) /\ Admitted(table, due, j) BY <2>1 DEF Admitted
  <2>4. due \subseteq {k \in Job : IsDue(k)} BY DEF _due_job_rows
  <2>5. Recovered(table) BY <1>1, RecoverOK, Zenon
  <2> HIDE DEF table, due
  <2>6. DuePoints(table, j) # {}
    <3>1. CASE Config[j].misfire = "skip" BY <2>1, <3>1, Zenon DEF ScheduleMissed
    <3>2. CASE Config[j].misfire # "skip" BY <2>3, <2>4, <3>2, OneTimeHasPoint, Zenon
    <3> QED BY <3>1, <3>2
  <2>7. PICK t \in Time : t \in DuePoints(table, j) BY <2>3, <2>6, InsertedFit, Zenon
  <2> DEFINE r == <<j, t>>
  <2>8. r \in Run /\ r[1] = j /\ r[2] = t BY DEF Run
  <2>9. runs'[r] = RunAfterEnqueue(table, due, r, d) BY <2>2, <2>8, Zenon
  <2>10. RowOK(r, table[r]) BY <2>5, <2>8, Zenon DEF Recovered
  <2>11. CASE table[r].state = "none"
    <3>1. t \in InsertedPoints(table, j) BY <2>7, <2>11, Zenon DEF InsertedPoints
    <3>2. runs'[r] = NewRow(table[r], "queued", t, d, now + LeaseTTL)
      BY <2>3, <2>8, <2>9, <3>1, Zenon DEF RunAfterEnqueue
    <3>3. runs'[r].run_id = table[r].run_id + 1 BY <3>2 DEF NewRow
    <3>4. runs'[r].run_id > 0 BY <2>10, <3>3 DEF RowOK, RunRow
    <3> QED BY <3>4
  <2>12. CASE table[r].state # "none"
    <3>1. t \notin InsertedPoints(table, j) BY <2>12, Zenon DEF InsertedPoints
    <3>2. runs'[r] = table[r] BY <2>8, <2>9, <2>12, <3>1, Zenon DEF RunAfterEnqueue
    <3>3. runs'[r].run_id > 0 BY <2>10, <2>12, <3>2 DEF RowOK
    <3> QED BY <3>3
  <2> QED BY <2>11, <2>12, Zenon
<1> QED BY <1>3, <1>4, Zenon

\* What is counted, next to the invariant of the tables.
CountInv == IInv /\ JobsFinite /\ ConcurrencyLimit /\ OneTimeNeverDropped

\* Nothing is queued or running in the empty tables, and no job has lost its
\* due time.
LEMMA InitCountInv == Init => CountInv
<1> SUFFICES ASSUME Init PROVE CountInv OBVIOUS
<1>1. JobsFinite
  <2>1. {j \in Job : jobs[j].row # "new"} = {} BY DEF Init
  <2> QED BY <2>1, FS_EmptySet DEF JobsFinite
<1>2. ConcurrencyLimit
  <2> SUFFICES ASSUME NEW j \in Job
               PROVE  Cardinality({r \in Run : r[1] = j /\ IsActive(runs[r])})
                        <= Config[j].max_concurrency
    BY DEF ConcurrencyLimit
  <2>1. {r \in Run : r[1] = j /\ IsActive(runs[r])} = {} BY DEF Init, IsActive
  <2>2. Config[j].max_concurrency \in Nat BY ConfigAssumption, Zenon DEF JobConfig
  <2> QED BY <2>1, <2>2, FS_EmptySet
<1>3. OneTimeNeverDropped BY DEF Init, OneTimeNeverDropped, Present
<1> QED BY <1>1, <1>2, <1>3, InitIInv DEF CountInv

\* CountInv is inductive.
LEMMA NextCountInv == CountInv /\ [Next]_vars => CountInv'
  BY NextIInv, NextJobsFinite, NextConcurrencyLimit, NextOneTime DEF CountInv, IInv

\* CountInv is an invariant of the cron tables.
THEOREM CountInductive == Spec => []CountInv
<1> QED BY InitCountInv, NextCountInv, PTL DEF Spec

\* A job that nobody triggers by hand stays within max_concurrency queued or
\* running rows: enqueueing adds no more than it counted room for, and
\* recovery, retries and restarts add none (_active_cron_run_count).
THEOREM ConcurrencyLimitHolds == Spec => []ConcurrencyLimit
<1>1. CountInv => ConcurrencyLimit BY DEF CountInv
<1> QED BY <1>1, CountInductive, PTL

\* A one-time job loses its due time only together with a row
\* (_persist_due_decision).
THEOREM OneTimeNeverDroppedHolds == Spec => []OneTimeNeverDropped
<1>1. CountInv => OneTimeNeverDropped BY DEF CountInv
<1> QED BY <1>1, CountInductive, PTL

\* A daemon has no more threads than max_concurrent_runs, and while an
\* iteration is under way they leave room for the capacity it computed.
CapacityOK ==
  \A d \in Daemon :
    /\ IsFiniteSet(Of(d))
    /\ Cardinality(Of(d)) <= MaxConcurrentRuns
    /\ loop[d] \in {"control", "enqueue", "acquire"}
         => Cardinality(Of(d)) + capacity[d] <= MaxConcurrentRuns

\* A step after which a daemon has no more threads than before and is not
\* further in its iteration.
LEMMA FewerThreads ==
  ASSUME ControlOK, CapacityOK, NEW d \in Daemon,
         IsFiniteSet(Of(d)'), Cardinality(Of(d)') <= Cardinality(Of(d)),
         loop'[d] \in {"control", "enqueue", "acquire"}
           => loop[d] \in {"control", "enqueue", "acquire"} /\ capacity'[d] = capacity[d]
  PROVE  /\ Cardinality(Of(d)') <= MaxConcurrentRuns
         /\ loop'[d] \in {"control", "enqueue", "acquire"}
              => Cardinality(Of(d)') + capacity'[d] <= MaxConcurrentRuns
<1>1. Cardinality(Of(d)) \in Nat /\ Cardinality(Of(d)') \in Nat
  BY FS_CardinalityType DEF CapacityOK
<1>2. capacity[d] \in Nat /\ MaxConcurrentRuns \in Nat
  BY BoundsAssumption DEF ControlOK
<1> QED BY <1>1, <1>2 DEF CapacityOK

\* The case of threads that only end.
LEMMA ThreadsEnd ==
  ASSUME ControlOK, CapacityOK, NEW d \in Daemon, Of(d)' \subseteq Of(d),
         loop'[d] \in {"control", "enqueue", "acquire"}
           => loop[d] \in {"control", "enqueue", "acquire"} /\ capacity'[d] = capacity[d]
  PROVE  /\ IsFiniteSet(Of(d)')
         /\ Cardinality(Of(d)') <= MaxConcurrentRuns
         /\ loop'[d] \in {"control", "enqueue", "acquire"}
              => Cardinality(Of(d)') + capacity'[d] <= MaxConcurrentRuns
<1>1. IsFiniteSet(Of(d)) BY DEF CapacityOK
<1>2. IsFiniteSet(Of(d)') /\ Cardinality(Of(d)') <= Cardinality(Of(d))
  BY <1>1, FS_Subset, Zenon
<1> QED BY <1>2, FewerThreads, Zenon

\* acquire_cron_runs is asked for at most the capacity that is left.
LEMMA AcquireCapacity ==
  ASSUME CountInv, ControlOK, CapacityOK, NEW d \in Daemon, AcquireRuns(d)
  PROVE  CapacityOK'
<1>1. PICK reached \in SUBSET (claims' \ claims) :
           /\ workers' = workers \union Started(reached)
           /\ Goes(d, IF reached = claims' \ claims THEN "outcomes" ELSE "idle")
  BY DEF AcquireRuns
<1>2. loop[d] = "acquire" /\ capacity' = capacity /\ acquire_cron_runs(d, capacity[d])
  BY DEF AcquireRuns
<1>3. capacity[d] \in Nat /\ MaxConcurrentRuns \in Nat BY BoundsAssumption DEF ControlOK
<1>4. IsFiniteSet(claims' \ claims) /\ Cardinality(claims' \ claims) <= capacity[d]
  BY <1>2, <1>3, AcquireFew, ZenonT(30) DEF CountInv
<1>5. \A c \in reached : c.owner = d BY <1>2, NewClaim DEF CountInv, IInv
<1> DEFINE begun == {e \in reached : \A w \in Of(e.owner) : ~SameRun(w.claim, e)}
           f == [c \in begun |->
                   [claim |-> c, phase |-> "load", renewing |-> TRUE, outcome |-> "failed"]]
           T == {f[c] : c \in begun}
<1>6. Started(reached) = T BY Zenon DEF Started
<1>7. \A n \in T : n.claim.owner = d
  <2> SUFFICES ASSUME NEW c \in begun PROVE f[c].claim.owner = d BY Zenon
  <2>1. f[c].claim = c /\ c \in reached OBVIOUS
  <2> QED BY <1>5, <2>1
<1>8. IsFiniteSet(T) /\ Cardinality(T) <= capacity[d] /\ Cardinality(T) \in Nat
  <2>1. begun \subseteq claims' \ claims OBVIOUS
  <2>2. f = [c \in begun |-> f[c]] OBVIOUS
  <2> HIDE DEF begun, f
  <2>3. IsFiniteSet(begun) /\ Cardinality(begun) <= Cardinality(claims' \ claims)
    BY <1>4, <2>1, FS_Subset
  <2>4. IsFiniteSet(T) /\ Cardinality(T) <= Cardinality(begun) BY <2>2, <2>3, ImageFew
  <2> HIDE DEF T
  <2>5. /\ Cardinality(T) \in Nat /\ Cardinality(begun) \in Nat
        /\ Cardinality(claims' \ claims) \in Nat
    BY <1>4, <2>3, <2>4, FS_CardinalityType, Zenon
  <2> QED BY <1>3, <1>4, <2>3, <2>4, <2>5
<1> HIDE DEF T
<1>9. ASSUME NEW e \in Daemon
      PROVE  /\ IsFiniteSet(Of(e)')
             /\ Cardinality(Of(e)') <= MaxConcurrentRuns
             /\ loop'[e] \in {"control", "enqueue", "acquire"}
                  => Cardinality(Of(e)') + capacity'[e] <= MaxConcurrentRuns
  <2>1. CASE e = d
    <3>1. loop'[d] \notin {"control", "enqueue", "acquire"}
      BY <1>1 DEF Goes, ControlOK
    <3>2. Of(d)' \subseteq Of(d) \union T BY <1>1, <1>6, Zenon DEF Of
    <3>3. IsFiniteSet(Of(d)) /\ Cardinality(Of(d)) + capacity[d] <= MaxConcurrentRuns
      BY <1>2 DEF CapacityOK
    <3>4. /\ IsFiniteSet(Of(d) \union T)
          /\ Cardinality(Of(d) \union T) = Cardinality(Of(d)) + Cardinality(T) - Cardinality(Of(d) \cap T)
          /\ Cardinality(Of(d) \cap T) \in Nat /\ Cardinality(Of(d)) \in Nat
      BY <1>8, <3>3, FS_Union, FS_Intersection, FS_CardinalityType, Zenon
    <3>5. /\ IsFiniteSet(Of(d)') /\ Cardinality(Of(d)') <= Cardinality(Of(d) \union T)
          /\ Cardinality(Of(d)') \in Nat
      BY <3>2, <3>4, FS_Subset, FS_CardinalityType, Zenon
    <3>6. Cardinality(Of(d)') <= MaxConcurrentRuns BY <1>3, <1>8, <3>3, <3>4, <3>5
    <3> QED BY <2>1, <3>1, <3>5, <3>6, Zenon
  <2>2. CASE e # d
    <3>1. Of(e)' \subseteq Of(e) BY <1>1, <1>6, <1>7, <2>2, Zenon DEF Of
    <3>2. loop'[e] = loop[e] /\ capacity'[e] = capacity[e]
      BY <1>1, <1>2, <2>2, ZenonT(30) DEF Goes, ControlOK
    <3> QED BY <3>1, <3>2, ThreadsEnd, Zenon
  <2> QED BY <2>1, <2>2, Zenon
<1> QED BY <1>9 DEF CapacityOK

\* The head of an iteration counts the threads that are left.
LEMMA RecoverCapacity ==
  ASSUME CountInv, ControlOK, CapacityOK, NEW d \in Daemon, RecoverExpired(d)
  PROVE  CapacityOK'
<1> DEFINE left == {w \in Reaped(d) : w.claim.owner = d}
           free == MaxConcurrentRuns - Cardinality(left)
<1>1. Of(d)' = left /\ \A e \in Daemon : Of(e)' \subseteq Of(e)
  BY Zenon DEF RecoverExpired, Of, Reaped
<1>2. \/ Goes(d, "outcomes") /\ capacity' = capacity
      \/ Goes(d, "control") /\ capacity' = [capacity EXCEPT ![d] = free]
  BY DEF RecoverExpired
<1>3. IsFiniteSet(Of(d)) BY DEF CapacityOK
<1>4. IsFiniteSet(left) /\ Cardinality(left) \in Nat
  <2>1. IsFiniteSet(Of(d)') BY <1>1, <1>3, FS_Subset
  <2>2. IsFiniteSet(left) BY <1>1, <2>1
  <2> HIDE DEF left
  <2> QED BY <2>2, FS_CardinalityType
<1> HIDE DEF left
<1>5. MaxConcurrentRuns \in Nat BY BoundsAssumption
<1>6. ASSUME NEW e \in Daemon
      PROVE  /\ IsFiniteSet(Of(e)')
             /\ Cardinality(Of(e)') <= MaxConcurrentRuns
             /\ loop'[e] \in {"control", "enqueue", "acquire"}
                  => Cardinality(Of(e)') + capacity'[e] <= MaxConcurrentRuns
  <2>1. CASE e = d /\ Goes(d, "control") /\ capacity' = [capacity EXCEPT ![d] = free]
    <3>1. capacity'[d] = free BY <2>1 DEF ControlOK
    <3>2. Cardinality(left) + free <= MaxConcurrentRuns BY <1>4, <1>5
    <3>3. Cardinality(left) <= MaxConcurrentRuns
      <4>1. Cardinality(left) <= Cardinality(Of(d)) BY <1>1, <1>3, FS_Subset, Zenon
      <4>2. Cardinality(Of(d)) <= MaxConcurrentRuns /\ Cardinality(Of(d)) \in Nat
        BY <1>3, FS_CardinalityType, Zenon DEF CapacityOK
      <4> QED BY <1>4, <1>5, <4>1, <4>2
    <3> QED BY <1>1, <1>4, <2>1, <3>1, <3>2, <3>3
  <2>2. CASE e = d /\ Goes(d, "outcomes")
    <3>1. loop'[d] = "outcomes" BY <2>2, Zenon DEF Goes, ControlOK
    <3> QED BY <1>1, <2>2, <3>1, ThreadsEnd, Zenon
  <2>3. CASE e # d
    <3>1. loop'[e] = loop[e] /\ capacity'[e] = capacity[e]
      BY <1>2, <2>3 DEF Goes, ControlOK
    <3> QED BY <1>1, <3>1, ThreadsEnd, Zenon
  <2> QED BY <1>2, <2>1, <2>2, <2>3, Zenon
<1> QED BY <1>6 DEF CapacityOK

\* CapacityOK is inductive.
LEMMA NextCapacityOK ==
  ASSUME CountInv, ControlOK, CapacityOK, [SchedulerNext]_allVars
  PROVE  CapacityOK'
<1>1. ASSUME workers' \subseteq workers, capacity' = capacity,
             \A e \in Daemon : loop'[e] \in {"control", "enqueue", "acquire"}
                               => loop[e] \in {"control", "enqueue", "acquire"}
      PROVE  CapacityOK'
  <2>1. \A e \in Daemon : Of(e)' \subseteq Of(e) BY <1>1 DEF Of
  <2> QED BY <1>1, <2>1, ThreadsEnd DEF CapacityOK
<1>2. ASSUME NEW d \in Daemon, NEW stage, Goes(d, stage), workers' \subseteq workers,
             capacity' = capacity,
             stage \in {"control", "enqueue", "acquire"}
               => loop[d] \in {"control", "enqueue", "acquire"}
      PROVE  CapacityOK'
  BY <1>1, <1>2 DEF Goes, ControlOK
<1>3. ASSUME NEW d \in Daemon, LoopStep(d) \/ shutdown(d) \/ Exit(d) \/ start(d)
      PROVE  CapacityOK'
  <2>1. CASE RecoverExpired(d) BY <2>1, RecoverCapacity
  <2>2. CASE AcquireRuns(d) BY <2>2, AcquireCapacity
  <2>3. CASE RecordOutcomes(d)
    <3>1. CASE UNCHANGED loop BY <1>1, <2>3, <3>1, Zenon DEF RecordOutcomes
    <3>2. CASE Goes(d, "idle") BY <1>2, <2>3, <3>2, Zenon DEF RecordOutcomes
    <3> QED BY <2>3, <3>1, <3>2, Zenon DEF RecordOutcomes
  <2>4. CASE AbandonIteration(d) \/ ReadControl(d) \/ EnqueueDue(d)
    BY <1>2, <2>4, Zenon DEF ReadControl, EnqueueDue, AbandonIteration
  <2>5. CASE shutdown(d) \/ Exit(d) \/ start(d)
    BY <1>2, <2>5 DEF shutdown, Exit, start
  <2> QED BY <1>3, <2>1, <2>2, <2>3, <2>4, <2>5, Zenon DEF LoopStep
<1>4. ASSUME NEW w \in workers, WorkerMain(w) \/ _lease_renewer(w) PROVE CapacityOK'
  <2>1. UNCHANGED <<loop, capacity>> BY <1>4, ThreadReplaced
  <2>2. CASE workers' = workers BY <1>1, <2>1, <2>2, Zenon
  <2>3. ASSUME NEW n, n.claim = w.claim, workers' = (workers \ {w}) \union {n}
        PROVE  CapacityOK'
    <3>1. ASSUME NEW e \in Daemon
          PROVE  IsFiniteSet(Of(e)') /\ Cardinality(Of(e)') <= Cardinality(Of(e))
      <4>1. IsFiniteSet(Of(e)) /\ Cardinality(Of(e)) \in Nat
        BY FS_CardinalityType DEF CapacityOK
      <4>2. CASE w \in Of(e)
        <5> DEFINE rest == Of(e) \ {w}
        <5>1. Of(e)' \subseteq rest \union {n} BY <2>3 DEF Of
        <5>2. IsFiniteSet(rest) /\ Cardinality(rest) = Cardinality(Of(e)) - 1
          BY <4>1, <4>2, FS_RemoveElement
        <5> HIDE DEF rest
        <5>3. /\ IsFiniteSet(rest \union {n})
              /\ Cardinality(rest \union {n}) \in {Cardinality(rest), Cardinality(rest) + 1}
          BY <5>2, FS_AddElement, Zenon
        <5>4. /\ IsFiniteSet(Of(e)') /\ Cardinality(Of(e)') <= Cardinality(rest \union {n})
              /\ Cardinality(Of(e)') \in Nat
          BY <5>1, <5>3, FS_Subset, FS_CardinalityType, Zenon
        <5> QED BY <4>1, <5>2, <5>3, <5>4
      <4>3. CASE w \notin Of(e)
        <5>1. Of(e)' \subseteq Of(e) BY <2>3, <4>3 DEF Of
        <5> QED BY <4>1, <5>1, FS_Subset, Zenon
      <4> QED BY <4>2, <4>3, Zenon
    <3> QED BY <2>1, <3>1, FewerThreads, Zenon DEF CapacityOK
  <2> QED BY <1>4, <2>2, <2>3, ThreadReplaced, Zenon
<1> QED
  BY <1>1, <1>3, <1>4, ZenonT(30) DEF SchedulerNext, Environment, schedulerVars, allVars

\* No daemon has more threads than max_concurrent_runs (_reap_workers,
\* _start_worker).
THEOREM WithinCapacityHolds == SchedulerSpec => []WithinCapacity
<1>1. SchedulerInit => CountInv /\ ControlOK /\ CapacityOK
  <2> SUFFICES ASSUME SchedulerInit PROVE CountInv /\ ControlOK /\ CapacityOK OBVIOUS
  <2>1. Init BY DEF SchedulerInit
  <2>2. ControlOK BY BoundsAssumption DEF SchedulerInit, ControlOK, Stage
  <2>3. CapacityOK
    <3>1. \A d \in Daemon : Of(d) = {} /\ loop[d] = "down" BY DEF SchedulerInit, Of
    <3>2. IsFiniteSet({}) /\ Cardinality({}) = 0 BY FS_EmptySet
    <3>3. 0 <= MaxConcurrentRuns BY BoundsAssumption
    <3> QED BY <3>1, <3>2, <3>3 DEF CapacityOK
  <2> QED BY <2>1, <2>2, <2>3, InitCountInv
<1>2. CountInv /\ ControlOK /\ CapacityOK /\ [SchedulerNext]_allVars
        => CountInv' /\ ControlOK' /\ CapacityOK'
  BY NextControlOK, NextCapacityOK, SchedulerMakesNext, NextCountInv, Zenon DEF CountInv
<1>3. CapacityOK => WithinCapacity BY DEF CapacityOK, WithinCapacity
<1> QED BY <1>1, <1>2, <1>3, PTL DEF SchedulerSpec

=============================================================================
