-------------------------- MODULE SchedulerProofs --------------------------
(***************************************************************************)
(* Theorems about Scheduler, for every set of jobs, workers and inputs and *)
(* every value of the limits.                                              *)
(***************************************************************************)
EXTENDS Scheduler, TLAPS

(***************************************************************************)
(* Facts about the operators of SqlTime.                                   *)
(***************************************************************************)

\* A stored timestamp that SQL takes for past is less than one second ahead of
\* the clock, in spite of the text comparison of formatTime's output.
LEMMA SqlLeqWithinASecond ==
    ASSUME NEW a \in Int, NEW b \in Int, SqlLeq(a, b)
    PROVE  a < b + TicksPerSecond
<1>1. CASE TicksPerSecond = 1
  BY <1>1 DEF SqlLeq, TextKey
<1>2. CASE TicksPerSecond = 2
  BY <1>2 DEF SqlLeq, TextKey
<1>3. CASE TicksPerSecond = 5
  BY <1>3 DEF SqlLeq, TextKey
<1>4. CASE TicksPerSecond = 10
  BY <1>4 DEF SqlLeq, TextKey
<1>5. QED
  BY <1>1, <1>2, <1>3, <1>4, TicksAssumption

\* NextRecurring maps instants to instants.
LEMMA NextRecurringType ==
    ASSUME NEW a \in Int, NEW e \in Int, NEW n \in Int
    PROVE  NextRecurring(a, e, n) \in Int
<1>1. CASE e <= 0 \/ a > n
  BY <1>1 DEF NextRecurring
<1>2. CASE ~(e <= 0 \/ a > n)
  <2>1. (n - a) \div e \in Int
    BY <1>2
  <2>2. (((n - a) \div e) + 1) * e \in Int
    BY <2>1
  <2>3. QED
    BY <1>2, <2>2 DEF NextRecurring
<1>3. QED
  BY <1>1, <1>2

\* boundedBackoff is a delay between zero and its cap.
LEMMA BackoffType ==
    ASSUME NEW b \in Nat, NEW n \in Nat
    PROVE  boundedBackoff(b, n) \in 0 .. MaxBackoff
<1> DEFINE s == BackoffShift(n)
           p == PowerOfTwo(s)
<1>1. s \in 0 .. 10
  BY DEF BackoffShift
<1>2. p \in Nat
  BY <1>1 DEF PowerOfTwo
<1>3. b * p \in Nat
  BY <1>2
<1> HIDE DEF s, p
<1>4. QED
  BY <1>3, BackoffAssumption DEF boundedBackoff, s, p

(***************************************************************************)
(* Facts about the tables.                                                 *)
(***************************************************************************)

\* The fields of a stored job that are numbers.
LEMMA JobRowFields ==
    ASSUME NEW job \in JobRow
    PROVE  /\ job.max \in Nat /\ job.max >= 1
           /\ job.timeout \in Nat /\ job.next \in Int
           /\ job.every \in Nat /\ job.backoff \in Nat
BY DEF JobRow

\* The fields of a stored run.
LEMMA RunRowFields ==
    ASSUME NEW row \in RunRow
    PROVE  /\ row.job \in JobId /\ row.attempts \in Nat /\ row.state \in RunStates
           /\ row.avail \in Int /\ row.sched \in Int
BY DEF RunRow

\* A stored run is well formed and so is its job.
LEMMA RowTypes ==
    ASSUME TypeOK, NEW r \in DOMAIN runs
    PROVE  /\ runs[r] \in RunRow
           /\ runs[r].job \in DOMAIN jobs
           /\ jobs[runs[r].job] \in JobRow
<1>1. runs \in Seq(RunRow)
  BY DEF TypeOK, TablesOK
<1>2. runs[r] \in RunRow
  BY <1>1
<1>3. runs[r].job \in DOMAIN jobs
  BY DEF TypeOK, TablesOK
<1>4. jobs[runs[r].job] \in JobRow
  BY <1>3 DEF TypeOK, TablesOK
<1>5. QED
  BY <1>2, <1>3, <1>4

\* Rewriting the state and the time of availability keeps the rest of a run.
LEMMA RowUpdate ==
    ASSUME NEW row \in RunRow, NEW s \in RunStates, NEW a \in Int
    PROVE  LET new == Moved(row, s, a)
           IN  /\ new \in RunRow
               /\ new.job = row.job /\ new.sched = row.sched
               /\ new.attempts = row.attempts
               /\ new.state = s /\ new.avail = a
BY DEF RunRow, Moved

\* Rewriting the state alone keeps the rest of a run.
LEMMA StateUpdate ==
    ASSUME NEW row \in RunRow, NEW s \in RunStates
    PROVE  LET new == [row EXCEPT !.state = s]
           IN  /\ new \in RunRow
               /\ new.job = row.job /\ new.sched = row.sched
               /\ new.attempts = row.attempts
               /\ new.state = s /\ new.avail = row.avail
BY DEF RunRow

\* Starting an attempt, and giving it back, keep a run's identity.
LEMMA AttemptUpdate ==
    ASSUME NEW row \in RunRow, now \in Nat
    PROVE  /\ Started(row) \in RunRow
           /\ Started(row).job = row.job /\ Started(row).sched = row.sched
           /\ Started(row).state = "running"
           /\ Started(row).attempts = row.attempts + 1
           /\ Returned(row) \in RunRow
           /\ Returned(row).job = row.job /\ Returned(row).sched = row.sched
           /\ Returned(row).state = "pending"
           /\ Returned(row).attempts <= row.attempts
<1>1. /\ Started(row) \in RunRow
      /\ Started(row).job = row.job /\ Started(row).sched = row.sched
      /\ Started(row).state = "running"
      /\ Started(row).attempts = row.attempts + 1
  <2> DEFINE k == row.attempts + 1
  <2>1. k \in Nat /\ "running" \in RunStates
    BY RunRowFields DEF RunStates
  <2>2. Started(row) = [row EXCEPT !.state = "running", !.attempts = k]
    BY DEF Started
  <2> HIDE DEF k
  <2>3. /\ Started(row) \in RunRow
        /\ Started(row).job = row.job /\ Started(row).sched = row.sched
        /\ Started(row).state = "running" /\ Started(row).attempts = k
    BY <2>1, <2>2 DEF RunRow
  <2>4. QED
    BY <2>3 DEF k
<1> DEFINE m == Moved(row, "pending", now)
<1>2. /\ m \in RunRow
      /\ m.job = row.job /\ m.sched = row.sched /\ m.attempts = row.attempts
      /\ m.state = "pending"
  BY RowUpdate DEF RunStates
<1> DEFINE n == IF m.attempts > 0 THEN m.attempts - 1 ELSE 0
<1>3. n \in Nat /\ n <= row.attempts
  BY <1>2, RunRowFields
<1>4. Returned(row) = [m EXCEPT !.attempts = n]
  BY DEF Returned
<1> HIDE DEF m, n
<1>5. /\ Returned(row) \in RunRow
      /\ Returned(row).job = m.job /\ Returned(row).sched = m.sched
      /\ Returned(row).state = m.state /\ Returned(row).attempts = n
  BY <1>2, <1>3, <1>4 DEF RunRow
<1>6. QED
  BY <1>1, <1>2, <1>3, <1>5

\* A rewriting of every row of a table of runs is again a table of runs.
LEMMA RowwiseSeq ==
    ASSUME NEW R \in Seq(RunRow), NEW f,
           f = [r \in DOMAIN R |-> f[r]],
           \A r \in DOMAIN R : f[r] \in RunRow
    PROVE  f \in Seq(RunRow) /\ Len(f) = Len(R) /\ DOMAIN f = DOMAIN R
<1>1. DOMAIN R = 1 .. Len(R)
  OBVIOUS
<1>2. f \in [1 .. Len(R) -> RunRow]
  BY <1>1
<1>3. QED
  BY <1>1, <1>2

\* Create stores a well-formed row.
LEMMA NormalizedType ==
    ASSUME NEW in \in JobInputs, ValidJob(normalizeJob(in))
    PROVE  normalizeJob(in) \in JobRow
<1> DEFINE job == normalizeJob(in)
<1>1. Second \in Nat \ {0} /\ Day \in Nat
  BY TicksAssumption DEF Second, Day
<1>2. /\ job.key \in Nat /\ job.next \in Int
      /\ job.ref \in BOOLEAN /\ job.enabled \in BOOLEAN /\ job.cancelled \in BOOLEAN
  BY InputsAssumption, JobIdAssumption DEF normalizeJob, DefaultTo
<1>3. /\ job.kind \in Kinds /\ job.class \in Classes /\ job.risk \in Risks
      /\ job.missed \in MissedRules /\ job.max \in 1 .. 20
      /\ job.backoff \in 0 .. Day /\ job.timeout \in 1 .. Day
      /\ job.kind = "one_time" => job.every = 0
      /\ job.kind = "recurring" => job.every \in 1 .. 366 * Day
  BY DEF ValidJob
<1>4. job.every \in Nat
  BY <1>1, <1>3 DEF Kinds
<1>5. job.backoff \in Nat /\ job.timeout \in Nat \ {0}
  BY <1>1, <1>3
<1>6. job = [key |-> job.key, kind |-> job.kind, every |-> job.every,
             missed |-> job.missed, class |-> job.class, risk |-> job.risk,
             ref |-> job.ref, max |-> job.max, backoff |-> job.backoff,
             timeout |-> job.timeout, next |-> job.next,
             enabled |-> job.enabled, cancelled |-> job.cancelled]
  BY DEF normalizeJob
<1> HIDE DEF job
<1>7. job \in JobRow
  BY <1>2, <1>3, <1>4, <1>5, <1>6 DEF JobRow
<1>8. QED
  BY <1>7 DEF job

\* LiveLocks is the part of the lock table that has not expired.
LEMMA LiveLocksFacts ==
    /\ DOMAIN LiveLocks \subseteq DOMAIN locks
    /\ \A j \in DOMAIN LiveLocks : LiveLocks[j] = locks[j]
    /\ \A j \in DOMAIN locks : ~SqlLeq(locks[j].expires, now) => j \in DOMAIN LiveLocks
BY DEF LiveLocks

\* The sweep in Claim keeps every run's identity and attempts; afterwards a
\* 'running' run is locked and a pending one has an attempt left.
LEMMA SweptRunsFacts ==
    ASSUME TypeOK
    PROVE  /\ SweptRuns \in Seq(RunRow)
           /\ Len(SweptRuns) = Len(runs) /\ DOMAIN SweptRuns = DOMAIN runs
           /\ \A r \in DOMAIN runs :
                 /\ SweptRuns[r].job = runs[r].job
                 /\ SweptRuns[r].sched = runs[r].sched
                 /\ SweptRuns[r].attempts = runs[r].attempts
                 /\ SweptRuns[r].state = "running" =>
                       runs[r].state = "running" /\ runs[r].job \in DOMAIN LiveLocks
                 /\ SweptRuns[r].state = "pending" =>
                       runs[r].attempts < jobs[runs[r].job].max
                 /\ runs[r].state \in Terminal => SweptRuns[r] = runs[r]
<1> DEFINE row(r) == IF Stale(r)
                     THEN Moved(runs[r], "pending", now)
                     ELSE runs[r]
<1>0. now \in Int /\ {"pending", "dead"} \subseteq RunStates
  BY DEF TypeOK, RunStates, Terminal
<1>2. ASSUME NEW r \in DOMAIN runs
      PROVE  /\ row(r) \in RunRow
             /\ row(r).job = runs[r].job /\ row(r).sched = runs[r].sched
             /\ row(r).attempts = runs[r].attempts
             /\ row(r).state = "running" =>
                   runs[r].state = "running" /\ runs[r].job \in DOMAIN LiveLocks
             /\ runs[r].state \in Terminal => row(r) = runs[r] /\ row(r).state # "pending"
  <2>1. runs[r] \in RunRow
    BY RowTypes
  <2>2. CASE Stale(r)
    <3>1. row(r) = Moved(runs[r], "pending", now)
      BY <2>2
    <3>2. runs[r].state \notin Terminal
      BY <2>2 DEF Stale, Terminal
    <3> HIDE DEF row
    <3>3. QED
      BY <1>0, <2>1, <3>1, <3>2, RowUpdate
  <2>3. CASE ~Stale(r)
    <3>1. row(r) = runs[r]
      BY <2>3
    <3> HIDE DEF row
    <3>2. QED
      BY <2>1, <2>3, <3>1 DEF Stale, Terminal
  <2>4. QED
    BY <2>2, <2>3
<1>3. ASSUME NEW r \in DOMAIN runs
      PROVE  SweptRuns[r] = IF row(r).state = "pending"
                               /\ row(r).attempts >= jobs[row(r).job].max
                            THEN [row(r) EXCEPT !.state = "dead"]
                            ELSE row(r)
  BY DEF SweptRuns
<1> HIDE DEF row
<1>4. ASSUME NEW r \in DOMAIN runs
      PROVE  /\ SweptRuns[r] \in RunRow
             /\ SweptRuns[r].job = runs[r].job
             /\ SweptRuns[r].sched = runs[r].sched
             /\ SweptRuns[r].attempts = runs[r].attempts
             /\ SweptRuns[r].state = "running" =>
                   runs[r].state = "running" /\ runs[r].job \in DOMAIN LiveLocks
             /\ SweptRuns[r].state = "pending" =>
                   runs[r].attempts < jobs[runs[r].job].max
             /\ runs[r].state \in Terminal => SweptRuns[r] = runs[r]
  <2>1. row(r).attempts \in Nat /\ jobs[row(r).job].max \in Nat
    BY <1>2, RowTypes, RunRowFields, JobRowFields
  <2>2. CASE row(r).state = "pending" /\ row(r).attempts >= jobs[row(r).job].max
    <3>1. SweptRuns[r] = [row(r) EXCEPT !.state = "dead"]
      BY <1>3, <2>2
    <3>2. QED
      BY <1>0, <1>2, <2>2, <3>1, StateUpdate
  <2>3. CASE ~(row(r).state = "pending" /\ row(r).attempts >= jobs[row(r).job].max)
    <3>1. SweptRuns[r] = row(r)
      BY <1>3, <2>3
    <3>2. QED
      BY <1>2, <2>1, <2>3, <3>1
  <2>4. QED
    BY <2>2, <2>3
<1>5. SweptRuns = [r \in DOMAIN runs |-> SweptRuns[r]]
  BY DEF SweptRuns
<1>6. runs \in Seq(RunRow)
  BY DEF TypeOK, TablesOK
<1>7. QED
  BY <1>4, <1>5, <1>6, RowwiseSeq

\* RecoverStale keeps every run's identity and attempts; afterwards a 'running'
\* run is locked.
LEMMA RecoveredRunsFacts ==
    ASSUME TypeOK
    PROVE  /\ RecoveredRuns \in Seq(RunRow)
           /\ Len(RecoveredRuns) = Len(runs) /\ DOMAIN RecoveredRuns = DOMAIN runs
           /\ \A r \in DOMAIN runs :
                 /\ RecoveredRuns[r].job = runs[r].job
                 /\ RecoveredRuns[r].sched = runs[r].sched
                 /\ RecoveredRuns[r].attempts = runs[r].attempts
                 /\ RecoveredRuns[r].state = "running" =>
                       runs[r].state = "running" /\ runs[r].job \in DOMAIN LiveLocks
                 /\ runs[r].state \in Terminal => RecoveredRuns[r] = runs[r]
<1>1. ASSUME NEW r \in DOMAIN runs
      PROVE  /\ RecoveredRuns[r] \in RunRow
             /\ RecoveredRuns[r].job = runs[r].job
             /\ RecoveredRuns[r].sched = runs[r].sched
             /\ RecoveredRuns[r].attempts = runs[r].attempts
             /\ RecoveredRuns[r].state = "running" =>
                   runs[r].state = "running" /\ runs[r].job \in DOMAIN LiveLocks
             /\ runs[r].state \in Terminal => RecoveredRuns[r] = runs[r]
  <2>1. runs[r] \in RunRow /\ now \in Int
    BY RowTypes DEF TypeOK
  <2>2. CASE Stale(r)
    <3> DEFINE to == IF jobs[runs[r].job].cancelled THEN "cancelled" ELSE "pending"
    <3>1. RecoveredRuns[r] = Moved(runs[r], to, now)
      BY <2>2 DEF RecoveredRuns
    <3>2. to \in RunStates /\ to # "running" /\ runs[r].state \notin Terminal
      BY <2>2 DEF Stale, RunStates, Terminal
    <3> HIDE DEF to
    <3>3. QED
      BY <2>1, <3>1, <3>2, RowUpdate
  <2>3. CASE ~Stale(r)
    <3>1. RecoveredRuns[r] = runs[r]
      BY <2>3 DEF RecoveredRuns
    <3>2. QED
      BY <2>1, <2>3, <3>1 DEF Stale
  <2>4. QED
    BY <2>2, <2>3
<1>2. RecoveredRuns = [r \in DOMAIN runs |-> RecoveredRuns[r]]
  BY DEF RecoveredRuns
<1>3. runs \in Seq(RunRow)
  BY DEF TypeOK, TablesOK
<1>4. QED
  BY <1>1, <1>2, <1>3, RowwiseSeq

\* A table of runs with one more row.
LEMMA AppendFacts ==
    ASSUME NEW R \in Seq(RunRow), NEW row \in RunRow
    PROVE  /\ Append(R, row) \in Seq(RunRow)
           /\ Len(Append(R, row)) = Len(R) + 1
           /\ DOMAIN Append(R, row) = DOMAIN R \cup {Len(R) + 1}
           /\ Len(R) + 1 \notin DOMAIN R
           /\ \A r \in DOMAIN R : Append(R, row)[r] = R[r]
           /\ Append(R, row)[Len(R) + 1] = row
OBVIOUS

\* A table of runs with one row replaced.
LEMMA ReplaceFacts ==
    ASSUME NEW R \in Seq(RunRow), NEW k \in DOMAIN R, NEW row \in RunRow
    PROVE  /\ [R EXCEPT ![k] = row] \in Seq(RunRow)
           /\ DOMAIN [R EXCEPT ![k] = row] = DOMAIN R
           /\ [R EXCEPT ![k] = row][k] = row
           /\ \A r \in DOMAIN R \ {k} : [R EXCEPT ![k] = row][r] = R[r]
OBVIOUS

\* Taking a slot keeps a job well formed and its limits as they are.
LEMMA AfterSlotFacts ==
    ASSUME NEW job \in JobRow, now \in Nat
    PROVE  /\ AfterSlot(job) \in JobRow
           /\ AfterSlot(job).timeout = job.timeout
           /\ AfterSlot(job).max = job.max
<1>0. job.next \in Int /\ job.every \in Int /\ now \in Int
  BY JobRowFields
<1>1. NextRecurring(job.next, job.every, now) \in Int
  BY <1>0, NextRecurringType
<1> DEFINE later    == [job EXCEPT !.next = NextRecurring(job.next, job.every, now)]
           disabled == [job EXCEPT !.enabled = FALSE]
<1>2. later \in JobRow /\ later.timeout = job.timeout /\ later.max = job.max
  BY <1>1 DEF JobRow
<1>3. disabled \in JobRow /\ disabled.timeout = job.timeout /\ disabled.max = job.max
  BY DEF JobRow
<1>4. AfterSlot(job) = later \/ AfterSlot(job) = disabled
  BY DEF AfterSlot
<1> HIDE DEF later, disabled
<1>5. QED
  BY <1>2, <1>3, <1>4

\* acquireLock covers the job's timeout and one second more.
LEMMA LockRowForFacts ==
    ASSUME NEW w \in Worker, NEW job \in JobRow, now \in Nat
    PROVE  /\ LockRowFor(w, job) \in LockRow
           /\ LockRowFor(w, job).owner = w
           /\ LockRowFor(w, job).expires >= now + job.timeout + Second
<1>1. Second \in Nat /\ LockTTL \in Nat /\ job.timeout \in Nat
  BY TicksAssumption, LimitsAssumption, JobRowFields DEF Second
<1>2. QED
  BY <1>1 DEF LockRowFor, LockRow

\* The lock table after acquireLock.
LEMMA AcquiredLocks ==
    ASSUME TypeOK, NEW j \in DOMAIN jobs, NEW row \in LockRow,
           NEW L, L = WithRow(LiveLocks, j, row)
    PROVE  /\ DOMAIN L = DOMAIN LiveLocks \cup {j} /\ DOMAIN L \subseteq DOMAIN jobs
           /\ L[j] = row
           /\ \A k \in DOMAIN LiveLocks \ {j} : L[k] = locks[k]
           /\ \A k \in DOMAIN L : L[k] \in LockRow
<1>1. /\ DOMAIN L = DOMAIN LiveLocks \cup {j} /\ L[j] = row
      /\ \A k \in DOMAIN LiveLocks \ {j} : L[k] = LiveLocks[k]
  BY DEF WithRow
<1>2. DOMAIN locks \subseteq DOMAIN jobs /\ \A k \in DOMAIN locks : locks[k] \in LockRow
  BY DEF TypeOK, TablesOK
<1>3. \A k \in DOMAIN LiveLocks : k \in DOMAIN locks /\ LiveLocks[k] = locks[k]
  BY LiveLocksFacts
<1>4. \A k \in DOMAIN LiveLocks \ {j} : L[k] = locks[k]
  BY <1>1, <1>3
<1>5. ASSUME NEW k \in DOMAIN L
      PROVE  L[k] \in LockRow /\ k \in DOMAIN jobs
  <2>1. CASE k = j
    BY <1>1, <2>1
  <2>2. CASE k # j
    BY <1>1, <1>2, <1>3, <1>4, <2>2
  <2>3. QED
    BY <2>1, <2>2
<1>6. QED
  BY <1>1, <1>4, <1>5

\* The lock table after the expired locks are deleted.
LEMMA LiveLocksType ==
    ASSUME TypeOK
    PROVE  DOMAIN LiveLocks \subseteq DOMAIN jobs /\ \A j \in DOMAIN LiveLocks : LiveLocks[j] \in LockRow
BY LiveLocksFacts DEF TypeOK, TablesOK

\* The job table after one job has taken a slot.
LEMMA SlotJobs ==
    ASSUME TypeOK, NEW j \in DOMAIN jobs,
           NEW J, J = [jobs EXCEPT ![j] = AfterSlot(jobs[j])]
    PROVE  /\ DOMAIN J = DOMAIN jobs
           /\ \A k \in DOMAIN jobs : /\ J[k] \in JobRow
                                     /\ J[k].timeout = jobs[k].timeout
                                     /\ J[k].max = jobs[k].max
<1>1. now \in Nat /\ \A k \in DOMAIN jobs : jobs[k] \in JobRow
  BY DEF TypeOK, TablesOK
<1>2. /\ AfterSlot(jobs[j]) \in JobRow
      /\ AfterSlot(jobs[j]).timeout = jobs[j].timeout
      /\ AfterSlot(jobs[j]).max = jobs[j].max
  BY <1>1, AfterSlotFacts
<1>3. DOMAIN J = DOMAIN jobs /\ J[j] = AfterSlot(jobs[j])
  OBVIOUS
<1>4. \A k \in DOMAIN jobs \ {j} : J[k] = jobs[k]
  OBVIOUS
<1>5. QED
  BY <1>1, <1>2, <1>3, <1>4

----------------------------------------------------------------------------
(***************************************************************************)
(* Type correctness.  First the transactions of Claim, which change all    *)
(* three tables, then every other action.                                  *)
(***************************************************************************)

\* A claimed run is one of the table's, and its worker has left the loop.
LEMMA ClaimedWorkers ==
    ASSUME TypeOK, NEW w \in Worker, NEW r \in Nat, Claimed(w, r),
           DOMAIN runs \subseteq DOMAIN runs', r \in DOMAIN runs'
    PROVE  WorkersOK'
BY DEF TypeOK, WorkersOK, Claimed, Busy, InExecute

\* claimPendingRun keeps the tables well formed.
LEMMA ClaimPendingRunType ==
    ASSUME TypeOK, NEW w \in Worker, ClaimPendingRun(w)
    PROVE  TypeOK'
<1>1. PICK r \in DOMAIN runs :
          /\ FirstReady(r)
          /\ runs' = [SweptRuns EXCEPT ![r] = Started(@)]
          /\ locks' = WithRow(LiveLocks, runs[r].job, LockRowFor(w, jobs[runs[r].job]))
          /\ Claimed(w, r)
  BY DEF ClaimPendingRun
<1>2. SweptRuns \in Seq(RunRow) /\ DOMAIN SweptRuns = DOMAIN runs /\ SweptRuns[r] \in RunRow
  BY SweptRunsFacts
<1>3. runs' = [SweptRuns EXCEPT ![r] = Started(SweptRuns[r])]
  BY <1>1
<1>4. now \in Nat
  BY DEF TypeOK
<1>5. Started(SweptRuns[r]) \in RunRow /\ Started(SweptRuns[r]).job = SweptRuns[r].job
  BY <1>2, <1>4, AttemptUpdate
<1>6. /\ runs' \in Seq(RunRow) /\ DOMAIN runs' = DOMAIN runs
      /\ \A q \in DOMAIN runs : runs'[q].job = runs[q].job
  BY <1>2, <1>3, <1>5, ReplaceFacts, SweptRunsFacts
<1>7. jobs' = jobs /\ now' = now /\ restarts' = restarts /\ calls' = calls
  BY <1>1 DEF ClaimPendingRun, Claimed, counters
<1>8. LockRowFor(w, jobs[runs[r].job]) \in LockRow
  BY <1>4, RowTypes, LockRowForFacts
<1>9. DOMAIN locks' \subseteq DOMAIN jobs /\ \A j \in DOMAIN locks' : locks'[j] \in LockRow
  BY <1>1, <1>8, RowTypes, AcquiredLocks
<1>10. TablesOK'
  BY <1>6, <1>7, <1>9 DEF TypeOK, TablesOK
<1>11. r \in Nat
  BY DEF TypeOK, TablesOK
<1>12. WorkersOK'
  BY <1>1, <1>6, <1>11, ClaimedWorkers
<1>13. QED
  BY <1>4, <1>7, <1>10, <1>12 DEF TypeOK

\* claimDueJob, when it starts a fresh run, keeps the tables well formed.
LEMMA ClaimDueJobType ==
    ASSUME TypeOK, NEW w \in Worker, ClaimDueJob(w)
    PROVE  TypeOK'
<1> DEFINE fresh(j) == [job |-> j, sched |-> jobs[j].next, state |-> "running",
                        attempts |-> 1, avail |-> now]
<1>1. PICK j \in DOMAIN jobs :
          /\ runs' = Append(SweptRuns, fresh(j))
          /\ jobs' = [jobs EXCEPT ![j] = AfterSlot(jobs[j])]
          /\ locks' = WithRow(LiveLocks, j, LockRowFor(w, jobs[j]))
          /\ Claimed(w, Len(runs) + 1)
  BY DEF ClaimDueJob
<1>2. now \in Nat /\ jobs[j] \in JobRow /\ j \in JobId /\ runs \in Seq(RunRow)
  BY DEF TypeOK, TablesOK
<1>3. fresh(j) \in RunRow /\ fresh(j).job = j
  BY <1>2, JobRowFields DEF RunRow, RunStates
<1> HIDE DEF fresh
<1>4. /\ SweptRuns \in Seq(RunRow) /\ Len(SweptRuns) = Len(runs)
      /\ DOMAIN SweptRuns = DOMAIN runs
      /\ \A r \in DOMAIN runs : SweptRuns[r].job = runs[r].job
  BY SweptRunsFacts
<1>5. /\ runs' \in Seq(RunRow) /\ DOMAIN runs' = DOMAIN runs \cup {Len(runs) + 1}
      /\ \A r \in DOMAIN runs : runs'[r].job = runs[r].job
      /\ runs'[Len(runs) + 1].job = j
  BY <1>1, <1>3, <1>4, AppendFacts
<1>6. DOMAIN jobs' = DOMAIN jobs /\ \A k \in DOMAIN jobs : jobs'[k] \in JobRow
  BY <1>1, SlotJobs
<1>7. LockRowFor(w, jobs[j]) \in LockRow
  BY <1>2, LockRowForFacts
<1>8. DOMAIN locks' \subseteq DOMAIN jobs /\ \A k \in DOMAIN locks' : locks'[k] \in LockRow
  BY <1>1, <1>7, AcquiredLocks
<1>9. TablesOK'
  BY <1>5, <1>6, <1>8 DEF TypeOK, TablesOK
<1>10. Len(runs) + 1 \in Nat
  BY <1>2
<1>11. WorkersOK'
  BY <1>1, <1>5, <1>10, ClaimedWorkers
<1>12. now' = now /\ restarts' = restarts /\ calls' = calls
  BY <1>1 DEF Claimed, counters
<1>13. QED
  BY <1>9, <1>11, <1>12 DEF TypeOK

\* Claim without a result keeps the tables well formed.
LEMMA ClaimNoRunType ==
    ASSUME TypeOK, NEW w \in Worker,
           SkipMissedSlot(w) \/ SlotAlreadyTaken(w) \/ ClaimNothing(w)
    PROVE  TypeOK'
<1> DEFINE skipped(j) == [job |-> j, sched |-> jobs[j].next, state |-> "skipped",
                          attempts |-> 0, avail |-> now]
<1>1. /\ locks' = LiveLocks
      /\ UNCHANGED <<now, pc, cur, deadline, ctxErr, cancelling, stopping, restarts, calls>>
  BY DEF SkipMissedSlot, SlotAlreadyTaken, ClaimNothing, NothingClaimed, workerVars, counters
<1>2. /\ SweptRuns \in Seq(RunRow) /\ DOMAIN SweptRuns = DOMAIN runs
      /\ \A r \in DOMAIN runs : SweptRuns[r].job = runs[r].job
  BY SweptRunsFacts
<1>3. \/ jobs' = jobs
      \/ \E j \in DOMAIN jobs : jobs' = [jobs EXCEPT ![j] = AfterSlot(jobs[j])]
  BY DEF SkipMissedSlot, SlotAlreadyTaken, ClaimNothing
<1>4. DOMAIN jobs' = DOMAIN jobs /\ \A k \in DOMAIN jobs : jobs'[k] \in JobRow
  <2>1. CASE jobs' = jobs
    BY <2>1 DEF TypeOK, TablesOK
  <2>2. CASE \E j \in DOMAIN jobs : jobs' = [jobs EXCEPT ![j] = AfterSlot(jobs[j])]
    BY <2>2, SlotJobs
  <2>3. QED
    BY <1>3, <2>1, <2>2
<1>5. runs' = SweptRuns \/ \E j \in DOMAIN jobs : runs' = Append(SweptRuns, skipped(j))
  BY DEF SkipMissedSlot, SlotAlreadyTaken, ClaimNothing
<1>6. /\ runs' \in Seq(RunRow) /\ DOMAIN runs \subseteq DOMAIN runs'
      /\ \A r \in DOMAIN runs' : runs'[r].job \in DOMAIN jobs
  <2>1. CASE runs' = SweptRuns
    BY <1>2, <2>1, RowTypes
  <2>2. CASE \E j \in DOMAIN jobs : runs' = Append(SweptRuns, skipped(j))
    <3>1. PICK j \in DOMAIN jobs : runs' = Append(SweptRuns, skipped(j))
      BY <2>2
    <3>2. now \in Nat /\ jobs[j] \in JobRow /\ j \in JobId
      BY DEF TypeOK, TablesOK
    <3>3. skipped(j) \in RunRow /\ skipped(j).job = j
      BY <3>2, JobRowFields DEF RunRow, RunStates, Terminal
    <3> HIDE DEF skipped
    <3>4. QED
      BY <1>2, <3>1, <3>3, AppendFacts, RowTypes
  <2>3. QED
    BY <1>5, <2>1, <2>2
<1>7. TablesOK'
  BY <1>1, <1>4, <1>6, LiveLocksType DEF TypeOK, TablesOK
<1>8. QED
  BY <1>1, <1>6, <1>7 DEF TypeOK, WorkersOK

\* A worker that has dealt with its run is in or out of the loop.
LEMMA DoneWorkers ==
    ASSUME TypeOK, NEW w \in Worker, NEW next \in {"idle", "down"}, Done(w, next),
           DOMAIN runs' = DOMAIN runs
    PROVE  WorkersOK' /\ UNCHANGED <<now, jobs, restarts, calls>>
<1>1. next \notin Busy
  BY DEF Busy, InExecute
<1>2. UNCHANGED <<now, jobs, restarts, calls>>
  BY DEF Done, counters
<1>3. \A v \in Worker : pc'[v] \in Busy => pc[v] \in Busy /\ cur'[v] = cur[v]
  BY <1>1 DEF TypeOK, WorkersOK, Done
<1>4. \A v \in Worker : pc'[v] \in Busy => cur'[v] \in DOMAIN runs'
  BY <1>3 DEF TypeOK, WorkersOK
<1>5. pc' \in [Worker -> {"down", "idle"} \cup Busy]
  BY DEF TypeOK, WorkersOK, Done
<1>6. cur' \in [Worker -> Nat] /\ deadline' \in [Worker -> Int]
  BY DEF TypeOK, WorkersOK, Done
<1>7. ctxErr' \in [Worker -> {"none", "canceled", "deadline"}]
  BY DEF TypeOK, WorkersOK, Done
<1>8. cancelling' \in [Worker -> SUBSET JobId]
  BY DEF TypeOK, WorkersOK, Done
<1>9. stopping' \in [Worker -> BOOLEAN]
  BY DEF TypeOK, WorkersOK, Done
<1>10. QED
  BY <1>2, <1>4, <1>5, <1>6, <1>7, <1>8, <1>9 DEF WorkersOK

\* A worker's own lock, if it still has one, is gone; the others stay.
LEMMA LocksWithoutFacts ==
    ASSUME NEW w, NEW r
    PROVE  /\ DOMAIN LocksWithout(w, r) \subseteq DOMAIN locks
           /\ \A j \in DOMAIN LocksWithout(w, r) : LocksWithout(w, r)[j] = locks[j]
           /\ \A j \in DOMAIN locks :
                 j \notin DOMAIN LocksWithout(w, r) => j = runs[r].job /\ locks[j].owner = w
           /\ runs[r].job \in DOMAIN LocksWithout(w, r) => locks[runs[r].job].owner # w
BY DEF LocksWithout

\* The rows that the end of an attempt may leave behind: none of them is
\* 'running', and none has used an attempt more.
EndedRow(row, new) ==
    /\ new \in RunRow
    /\ new.job = row.job /\ new.sched = row.sched
    /\ new.attempts <= row.attempts
    /\ new.state # "running"

\* Moving a run out of 'running' ends the attempt.
LEMMA MovedEnds ==
    ASSUME NEW row \in RunRow, NEW s \in RunStates \ {"running"}, NEW a \in Int
    PROVE  EndedRow(row, Moved(row, s, a))
<1> DEFINE new == Moved(row, s, a)
<1>1. /\ new \in RunRow /\ new.job = row.job /\ new.sched = row.sched
      /\ new.attempts = row.attempts /\ new.state = s
  BY RowUpdate
<1>2. row.attempts \in Nat
  BY RunRowFields
<1> HIDE DEF new
<1>3. EndedRow(row, new)
  BY <1>1, <1>2 DEF EndedRow
<1>4. QED
  BY <1>3 DEF new

\* Every outcome a worker records: if the run is still 'running' it ends the
\* attempt and deletes its own lock, if not, the run is left as it is.
Outcome(w) ==
    /\ pc[w] \in Busy
    /\ Done(w, "idle") \/ Done(w, "down")
    /\ \/ /\ Running(cur[w])
          /\ \E new : EndedRow(runs[cur[w]], new) /\ runs' = [runs EXCEPT ![cur[w]] = new]
          /\ locks' = LocksWithout(w, cur[w])
       \/ /\ ~Running(cur[w])
          /\ runs' = runs
          /\ locks' = locks \/ locks' = LocksWithout(w, cur[w])

\* finish records an outcome.
LEMMA FinishOutcome ==
    ASSUME TypeOK, NEW w \in Worker, pc[w] \in Busy,
           NEW s \in Terminal, finish(w, s)
    PROVE  Outcome(w)
<1>1. cur[w] \in DOMAIN runs
  BY DEF TypeOK, WorkersOK
<1>2. runs[cur[w]] \in RunRow
  BY <1>1, RowTypes
<1>3. s \in RunStates /\ s # "running"
  BY DEF RunStates, Terminal
<1> DEFINE new == [runs[cur[w]] EXCEPT !.state = s]
<1>4. EndedRow(runs[cur[w]], new)
  <2>1. runs[cur[w]].attempts \in Nat
    BY <1>2, RunRowFields
  <2>2. QED
    BY <1>2, <1>3, <2>1, StateUpdate DEF EndedRow
<1>5. CASE Running(cur[w])
  <2>1. /\ runs' = [runs EXCEPT ![cur[w]].state = s]
        /\ locks' = LocksWithout(w, cur[w]) /\ Done(w, "idle")
    BY <1>5 DEF finish
  <2>2. runs' = [runs EXCEPT ![cur[w]] = new]
    BY <2>1
  <2> HIDE DEF new
  <2>3. QED
    BY <1>4, <1>5, <2>1, <2>2 DEF Outcome
<1>6. CASE ~Running(cur[w])
  BY <1>6 DEF finish, Outcome
<1>7. QED
  BY <1>5, <1>6

\* Fail records an outcome.
LEMMA FailOutcome ==
    ASSUME TypeOK, NEW w \in Worker, Fail(w)
    PROVE  Outcome(w)
<1> DEFINE r   == cur[w]
           job == jobs[runs[r].job]
<1>0. pc[w] \in Busy
  BY DEF Fail, Busy, InExecute
<1>1. r \in DOMAIN runs /\ now \in Nat
  BY <1>0 DEF TypeOK, WorkersOK
<1>2. runs[r] \in RunRow /\ job \in JobRow
  BY <1>1, RowTypes
<1>3. runs[r].attempts \in Nat /\ job.backoff \in Nat
  BY <1>2, RunRowFields, JobRowFields
<1> DEFINE late == now + boundedBackoff(job.backoff, runs[r].attempts)
<1>4. late \in Int
  <2>1. boundedBackoff(job.backoff, runs[r].attempts) \in 0 .. MaxBackoff
    BY <1>3, BackoffType
  <2> DEFINE delay == boundedBackoff(job.backoff, runs[r].attempts)
  <2>2. late = now + delay /\ delay \in 0 .. MaxBackoff
    BY <2>1
  <2> HIDE DEF late, delay
  <2>3. QED
    BY <1>1, <2>2
<1> DEFINE dead  == Moved(runs[r], "dead", now)
           again == Moved(runs[r], "pending", late)
<1>5. EndedRow(runs[r], dead)
  <2>1. "dead" \in RunStates \ {"running"} /\ now \in Int
    BY <1>1 DEF RunStates, Terminal
  <2>2. QED
    BY <1>2, <2>1, MovedEnds
<1>6. EndedRow(runs[r], again)
  <2>1. "pending" \in RunStates \ {"running"}
    BY DEF RunStates
  <2> HIDE DEF late
  <2>2. QED
    BY <1>2, <1>4, <2>1, MovedEnds
<1>7. CASE Running(r)
  <2>1. /\ runs' = [runs EXCEPT ![r] = IF runs[r].attempts >= job.max THEN dead ELSE again]
        /\ locks' = LocksWithout(w, r) /\ Done(w, "idle")
    BY <1>7 DEF Fail
  <2> DEFINE new == IF runs[r].attempts >= job.max THEN dead ELSE again
  <2> HIDE DEF dead, again
  <2>2. EndedRow(runs[r], new)
    BY <1>5, <1>6
  <2>3. runs' = [runs EXCEPT ![r] = new]
    BY <2>1
  <2> HIDE DEF new
  <2>4. QED
    BY <1>0, <1>7, <2>1, <2>2, <2>3 DEF Outcome
<1>8. CASE ~Running(r)
  BY <1>0, <1>8 DEF Fail, Outcome
<1>9. QED
  BY <1>7, <1>8

\* Requeue records an outcome.
LEMMA RequeueOutcome ==
    ASSUME TypeOK, NEW w \in Worker, Requeue(w)
    PROVE  Outcome(w)
<1>0. pc[w] \in Busy
  BY DEF Requeue, Busy
<1>1. cur[w] \in DOMAIN runs /\ now \in Nat
  BY <1>0 DEF TypeOK, WorkersOK
<1>2. runs[cur[w]] \in RunRow
  BY <1>1, RowTypes
<1> DEFINE new == Returned(runs[cur[w]])
<1>3. EndedRow(runs[cur[w]], new)
  BY <1>1, <1>2, AttemptUpdate DEF EndedRow
<1>4. Running(cur[w]) => runs' = [runs EXCEPT ![cur[w]] = new]
  BY DEF Requeue
<1> HIDE DEF new
<1>5. QED
  BY <1>0, <1>3, <1>4 DEF Requeue, Outcome

\* Every action that ends a worker's attempt records an outcome.
LEMMA EndOutcome ==
    ASSUME TypeOK, NEW w \in Worker,
           Deny(w) \/ Complete(w) \/ Fail(w) \/ MarkCancelled(w) \/ Requeue(w)
    PROVE  Outcome(w)
<1>1. {"denied", "completed", "cancelled"} \subseteq Terminal
  BY DEF Terminal
<1>2. CASE Deny(w)
  BY <1>1, <1>2, FinishOutcome DEF Deny, Busy, InExecute
<1>3. CASE Complete(w)
  BY <1>1, <1>3, FinishOutcome DEF Complete, Busy, InExecute
<1>4. CASE MarkCancelled(w)
  BY <1>1, <1>4, FinishOutcome DEF MarkCancelled, Busy
<1>5. QED
  BY <1>2, <1>3, <1>4, FailOutcome, RequeueOutcome

\* What an outcome does to the tables.
LEMMA OutcomeTables ==
    ASSUME TypeOK, NEW w \in Worker, Outcome(w)
    PROVE  /\ runs' \in Seq(RunRow) /\ DOMAIN runs' = DOMAIN runs
           /\ \A r \in DOMAIN runs : /\ runs'[r].job = runs[r].job
                                     /\ runs'[r].sched = runs[r].sched
                                     /\ runs'[r].attempts <= runs[r].attempts
                                     /\ runs'[r].state = "running" => runs[r].state = "running"
                                     /\ runs[r].state # "running" => runs'[r] = runs[r]
           /\ runs'[cur[w]].state # "running"
           /\ DOMAIN locks' \subseteq DOMAIN locks
           /\ \A j \in DOMAIN locks' : locks'[j] = locks[j]
           /\ \A j \in DOMAIN locks :
                 j \notin DOMAIN locks' => j = runs[cur[w]].job /\ locks[j].owner = w
<1>1. runs \in Seq(RunRow) /\ cur[w] \in DOMAIN runs
  BY DEF TypeOK, TablesOK, WorkersOK, Outcome
<1>2. \A r \in DOMAIN runs : runs[r] \in RunRow /\ runs[r].attempts \in Nat
  BY RowTypes, RunRowFields
<1>3. locks' = locks \/ locks' = LocksWithout(w, cur[w])
  BY DEF Outcome
<1>4. /\ DOMAIN locks' \subseteq DOMAIN locks
      /\ \A j \in DOMAIN locks' : locks'[j] = locks[j]
      /\ \A j \in DOMAIN locks :
            j \notin DOMAIN locks' => j = runs[cur[w]].job /\ locks[j].owner = w
  <2>1. CASE locks' = locks
    BY <2>1
  <2>2. CASE locks' = LocksWithout(w, cur[w])
    BY <2>2, LocksWithoutFacts
  <2>3. QED
    BY <1>3, <2>1, <2>2
<1>5. CASE Running(cur[w])
  <2>1. PICK new : EndedRow(runs[cur[w]], new) /\ runs' = [runs EXCEPT ![cur[w]] = new]
    BY <1>5 DEF Outcome
  <2>2. new \in RunRow
    BY <2>1 DEF EndedRow
  <2>3. /\ runs' \in Seq(RunRow) /\ DOMAIN runs' = DOMAIN runs
        /\ runs'[cur[w]] = new
        /\ \A r \in DOMAIN runs \ {cur[w]} : runs'[r] = runs[r]
    BY <1>1, <2>1, <2>2, ReplaceFacts
  <2>4. ASSUME NEW r \in DOMAIN runs
        PROVE  /\ runs'[r].job = runs[r].job
               /\ runs'[r].sched = runs[r].sched
               /\ runs'[r].attempts <= runs[r].attempts
               /\ runs'[r].state = "running" => runs[r].state = "running"
               /\ runs[r].state # "running" => runs'[r] = runs[r]
    <3>1. CASE r = cur[w]
      BY <1>5, <2>1, <2>3, <3>1 DEF EndedRow, Running
    <3>2. CASE r # cur[w]
      <4>1. runs'[r] = runs[r] /\ runs[r].attempts \in Nat
        BY <1>2, <2>3, <3>2
      <4>2. QED
        BY <4>1
    <3>3. QED
      BY <3>1, <3>2
  <2>5. runs'[cur[w]].state # "running"
    BY <2>1, <2>3 DEF EndedRow
  <2>6. QED
    BY <1>4, <2>3, <2>4, <2>5
<1>6. CASE ~Running(cur[w])
  <2>1. runs' = runs /\ runs[cur[w]].state # "running"
    BY <1>6 DEF Outcome, Running
  <2>2. QED
    BY <1>1, <1>2, <1>4, <2>1
<1>7. QED
  BY <1>5, <1>6

\* Recording an outcome keeps the tables and the workers well formed.
LEMMA OutcomeType ==
    ASSUME TypeOK, NEW w \in Worker, Outcome(w)
    PROVE  TypeOK' /\ UNCHANGED <<now, jobs, restarts, calls>>
<1>1. /\ runs' \in Seq(RunRow) /\ DOMAIN runs' = DOMAIN runs
      /\ \A r \in DOMAIN runs : runs'[r].job = runs[r].job
      /\ DOMAIN locks' \subseteq DOMAIN locks
      /\ \A j \in DOMAIN locks' : locks'[j] = locks[j]
  BY OutcomeTables
<1>2. WorkersOK' /\ UNCHANGED <<now, jobs, restarts, calls>>
  BY <1>1, DoneWorkers DEF Outcome
<1>3. TablesOK'
  BY <1>1, <1>2 DEF TypeOK, TablesOK
<1>4. QED
  BY <1>2, <1>3 DEF TypeOK

\* The operator's calls keep the tables well formed.
LEMMA OperatorType ==
    ASSUME TypeOK, Operator
    PROVE  TypeOK'
<1>1. ASSUME NEW in \in JobInputs, Create(in)
      PROVE  TypeOK'
  <2> DEFINE job == normalizeJob(in)
  <2>1. job \in JobRow
    BY <1>1, NormalizedType DEF Create
  <2>2. in.id \in JobId
    BY InputsAssumption
  <2>3. jobs' = WithRow(jobs, in.id, job)
    BY <1>1 DEF Create
  <2>4. UNCHANGED <<now, runs, locks, pc, cur, deadline, ctxErr, cancelling, stopping,
                    restarts, calls>>
    BY <1>1 DEF Create, workerVars, counters
  <2> HIDE DEF job
  <2>5. DOMAIN jobs' = DOMAIN jobs \cup {in.id}
    BY <2>3 DEF WithRow
  <2>6. ASSUME NEW j \in DOMAIN jobs'
        PROVE  jobs'[j] \in JobRow
    <3>1. CASE j = in.id
      BY <2>1, <2>3, <2>5, <3>1 DEF WithRow
    <3>2. CASE j # in.id
      <4>1. j \in DOMAIN jobs /\ jobs'[j] = jobs[j]
        BY <2>3, <2>5, <3>2 DEF WithRow
      <4>2. QED
        BY <4>1 DEF TypeOK, TablesOK
    <3>3. QED
      BY <3>1, <3>2
  <2>7. TablesOK'
    BY <2>1, <2>2, <2>4, <2>5, <2>6 DEF TypeOK, TablesOK
  <2>8. QED
    BY <2>4, <2>7 DEF TypeOK, WorkersOK
<1>2. ASSUME NEW j \in DOMAIN jobs, NEW enabled \in BOOLEAN, SetEnabled(j, enabled)
      PROVE  TypeOK'
  <2>1. jobs[j] \in JobRow
    BY DEF TypeOK, TablesOK
  <2> DEFINE row == [jobs[j] EXCEPT !.enabled = enabled]
  <2>2. row \in JobRow
    BY <2>1 DEF JobRow
  <2>3. jobs' = [jobs EXCEPT ![j] = row]
    BY <1>2 DEF SetEnabled
  <2> HIDE DEF row
  <2>4. UNCHANGED <<now, runs, locks, pc, cur, deadline, ctxErr, cancelling, stopping, restarts>>
        /\ calls' = calls + 1
    BY <1>2 DEF SetEnabled, workerVars
  <2>5. TablesOK'
    BY <2>2, <2>3, <2>4 DEF TypeOK, TablesOK
  <2>6. QED
    BY <2>4, <2>5 DEF TypeOK, WorkersOK
<1>3. ASSUME NEW j \in DOMAIN jobs, Cancel(j) \/ \E w \in Worker : CancelJob(w, j)
      PROVE  TypeOK'
  <2>1. jobs[j] \in JobRow /\ runs \in Seq(RunRow) /\ j \in JobId
    BY DEF TypeOK, TablesOK
  <2> DEFINE row == [jobs[j] EXCEPT !.enabled = FALSE, !.cancelled = TRUE]
  <2>2. row \in JobRow
    BY <2>1 DEF JobRow
  <2>3. jobs' = [jobs EXCEPT ![j] = row]
    BY <1>3 DEF Cancel, CancelJob, CancelRows
  <2> HIDE DEF row
  <2>4. /\ UNCHANGED <<now, locks, pc, cur, deadline, ctxErr, stopping, restarts>>
        /\ calls' = calls + 1 /\ cancelling' \in [Worker -> SUBSET JobId]
    <3>1. cancelling \in [Worker -> SUBSET JobId]
      BY DEF TypeOK, WorkersOK
    <3>2. CASE Cancel(j)
      BY <3>1, <3>2 DEF Cancel, CancelRows
    <3>3. ASSUME NEW w \in Worker, CancelJob(w, j)
          PROVE  /\ UNCHANGED <<now, locks, pc, cur, deadline, ctxErr, stopping, restarts>>
                 /\ calls' = calls + 1 /\ cancelling' \in [Worker -> SUBSET JobId]
      BY <2>1, <3>1, <3>3 DEF CancelJob, CancelRows
    <3>4. QED
      BY <1>3, <3>2, <3>3
  <2>5. ASSUME NEW r \in DOMAIN runs
        PROVE  runs'[r] \in RunRow /\ runs'[r].job = runs[r].job
    <3>1. runs[r] \in RunRow /\ "cancelled" \in RunStates
      BY RowTypes DEF RunStates, Terminal
    <3>2. CASE runs'[r] = runs[r]
      BY <3>1, <3>2
    <3>3. CASE runs'[r] = [runs[r] EXCEPT !.state = "cancelled"]
      BY <3>1, <3>3, StateUpdate
    <3>4. QED
      BY <1>3, <3>2, <3>3 DEF Cancel, CancelJob, CancelRows
  <2>6. runs' = [r \in DOMAIN runs |-> runs'[r]]
    BY <1>3 DEF Cancel, CancelJob, CancelRows
  <2>7. runs' \in Seq(RunRow) /\ DOMAIN runs' = DOMAIN runs
    BY <2>1, <2>5, <2>6, RowwiseSeq
  <2>8. TablesOK'
    BY <2>2, <2>3, <2>4, <2>5, <2>7 DEF TypeOK, TablesOK
  <2>9. QED
    BY <2>1, <2>4, <2>7, <2>8 DEF TypeOK, WorkersOK
<1>4. QED
  BY <1>1, <1>2, <1>3 DEF Operator

\* Run's recovery keeps the tables well formed.
LEMMA StartType ==
    ASSUME TypeOK, NEW w \in Worker, Start(w)
    PROVE  TypeOK'
<1>1. /\ runs' = RecoveredRuns /\ locks' = LiveLocks
      /\ pc' = [pc EXCEPT ![w] = "idle"]
      /\ UNCHANGED <<now, jobs, cur, deadline, ctxErr, cancelling, stopping, restarts, calls>>
  BY DEF Start, counters
<1>2. /\ runs' \in Seq(RunRow) /\ DOMAIN runs' = DOMAIN runs
      /\ \A r \in DOMAIN runs : runs'[r].job = runs[r].job
  BY <1>1, RecoveredRunsFacts
<1>3. TablesOK'
  BY <1>1, <1>2, LiveLocksType DEF TypeOK, TablesOK
<1>4. \A v \in Worker : pc'[v] \in Busy => pc[v] \in Busy
  BY <1>1 DEF TypeOK, WorkersOK, Busy, InExecute
<1>5. WorkersOK'
  BY <1>1, <1>2, <1>4 DEF TypeOK, WorkersOK
<1>6. QED
  BY <1>1, <1>3, <1>5 DEF TypeOK

\* The steps that touch no table.
QuietStep(w) ==
    \/ Begin(w) \/ Authorize(w) \/ CheckCancelled(w) \/ Exit(w) \/ Shutdown(w) \/ Crash(w)
    \/ \E j \in JobId : SignalActive(w, j)

\* They leave the tables as they are, start no work and take up no other run.
LEMMA QuietFacts ==
    ASSUME TypeOK, NEW w \in Worker, QuietStep(w)
    PROVE  /\ UNCHANGED <<now, jobs, runs, locks>>
           /\ \A v \in Worker : pc'[v] \in Busy => pc[v] \in Busy /\ cur'[v] = cur[v]
<1>1. UNCHANGED <<now, jobs, runs, locks>>
  BY DEF QuietStep, Begin, Authorize, CheckCancelled, Exit, Shutdown, Crash, SignalActive,
         Done, tables
<1>2. ASSUME NEW v \in Worker, pc'[v] \in Busy
      PROVE  pc[v] \in Busy /\ cur'[v] = cur[v]
  <2>1. /\ w \in DOMAIN pc /\ w \in DOMAIN cur /\ v \in DOMAIN pc /\ v \in DOMAIN cur
        /\ {"idle", "down"} \cap Busy = {}
        /\ {"claimed", "authorizing", "executing"} \subseteq Busy
    BY DEF TypeOK, WorkersOK, Busy, InExecute
  <2>2. CASE Begin(w)
    BY <1>2, <2>1, <2>2 DEF Begin, tables, counters
  <2>3. CASE Authorize(w) \/ CheckCancelled(w)
    BY <1>2, <2>1, <2>3 DEF Authorize, CheckCancelled, tables, counters
  <2>4. CASE Exit(w) \/ Crash(w)
    BY <1>2, <2>1, <2>4 DEF Exit, Crash, Done
  <2>5. CASE Shutdown(w) \/ \E j \in JobId : SignalActive(w, j)
    BY <1>2, <2>5 DEF Shutdown, SignalActive, tables, counters
  <2>6. QED
    BY <2>2, <2>3, <2>4, <2>5 DEF QuietStep
<1>3. QED
  BY <1>1, <1>2

\* They keep the workers' state well formed.
LEMMA QuietType ==
    ASSUME TypeOK, NEW w \in Worker, QuietStep(w)
    PROVE  TypeOK'
<1>1. /\ UNCHANGED <<now, jobs, runs, locks>>
      /\ \A v \in Worker : pc'[v] \in Busy => cur'[v] \in DOMAIN runs'
  BY QuietFacts DEF TypeOK, WorkersOK
<1>2. TablesOK' /\ now' \in Nat
  BY <1>1 DEF TypeOK, TablesOK
<1> DEFINE Rest == /\ restarts' \in Nat /\ calls' \in Nat
                   /\ pc' \in [Worker -> {"down", "idle"} \cup Busy]
                   /\ cur' \in [Worker -> Nat]
                   /\ deadline' \in [Worker -> Int]
                   /\ ctxErr' \in [Worker -> {"none", "canceled", "deadline"}]
                   /\ cancelling' \in [Worker -> SUBSET JobId]
                   /\ stopping' \in [Worker -> BOOLEAN]
<1>3. ASSUME Begin(w)
      PROVE  Rest
  <2>1. cur[w] \in DOMAIN runs
    BY <1>3 DEF TypeOK, WorkersOK, Begin, Busy
  <2>2. jobs[runs[cur[w]].job].timeout \in Nat /\ now \in Nat
    BY <2>1, RowTypes, JobRowFields DEF TypeOK
  <2> DEFINE end == now + jobs[runs[cur[w]].job].timeout
  <2>3. end \in Int /\ "authorizing" \in Busy
    BY <2>2 DEF Busy, InExecute
  <2>4. /\ pc' = [pc EXCEPT ![w] = "authorizing"]
        /\ deadline' = [deadline EXCEPT ![w] = end]
        /\ ctxErr' = [ctxErr EXCEPT ![w] = IF stopping[w] THEN "canceled" ELSE "none"]
        /\ UNCHANGED <<cur, cancelling, stopping, restarts, calls>>
    BY <1>3 DEF Begin, counters
  <2> HIDE DEF end
  <2>5. QED
    BY <2>3, <2>4 DEF TypeOK, WorkersOK
<1>4. ASSUME Authorize(w) \/ CheckCancelled(w)
      PROVE  Rest
  BY <1>4 DEF TypeOK, WorkersOK, Authorize, CheckCancelled, tables, counters, Busy, InExecute
<1>5. ASSUME Exit(w)
      PROVE  Rest
  <2>1. WorkersOK' /\ UNCHANGED <<now, jobs, restarts, calls>>
    BY <1>1, <1>5, DoneWorkers DEF Exit
  <2>2. QED
    BY <2>1 DEF WorkersOK, TypeOK
<1>6. ASSUME Crash(w)
      PROVE  Rest
  BY <1>6 DEF TypeOK, WorkersOK, Crash, tables
<1>7. ASSUME Shutdown(w)
      PROVE  Rest
  BY <1>7 DEF TypeOK, WorkersOK, Shutdown, tables
<1>8. ASSUME NEW j \in JobId, SignalActive(w, j)
      PROVE  Rest
  BY <1>8 DEF TypeOK, WorkersOK, SignalActive, tables, counters
<1>9. Rest
  BY <1>3, <1>4, <1>5, <1>6, <1>7, <1>8 DEF QuietStep
<1>10. QED
  BY <1>1, <1>2, <1>9 DEF TypeOK, WorkersOK

\* A tick of the clock keeps the workers' state well formed.
LEMMA TickType ==
    ASSUME TypeOK, Tick
    PROVE  TypeOK'
<1>1. /\ now' = now + 1
      /\ UNCHANGED <<jobs, runs, locks, pc, cur, deadline, cancelling, stopping, restarts, calls>>
  BY DEF Tick, tables, counters
<1>2. ctxErr' \in [Worker -> {"none", "canceled", "deadline"}]
  BY DEF Tick, TypeOK, WorkersOK
<1>3. QED
  BY <1>1, <1>2 DEF TypeOK, TablesOK, WorkersOK

\* A worker's step is a claim, a start, an outcome or touches no table.
LEMMA StepCases ==
    ASSUME TypeOK, NEW w \in Worker, Step(w) \/ Fault(w)
    PROVE  \/ Start(w) \/ ClaimPendingRun(w) \/ ClaimDueJob(w)
           \/ SkipMissedSlot(w) \/ SlotAlreadyTaken(w) \/ ClaimNothing(w)
           \/ Outcome(w) \/ QuietStep(w)
BY EndOutcome DEF Step, Fault, Claim, ExecutorReturns, QuietStep

\* The specification is type correct: every transaction leaves well-formed rows
\* that refer to existing jobs, and a busy worker's run exists.
THEOREM TypeCorrect == Spec => []TypeOK
<1>1. Init => TypeOK
  BY DEF Init, TypeOK, TablesOK, WorkersOK, Busy, InExecute
<1>2. TypeOK /\ [Next]_vars => TypeOK'
  <2> SUFFICES ASSUME TypeOK, [Next]_vars
               PROVE  TypeOK'
    OBVIOUS
  <2>1. CASE Operator
    BY <2>1, OperatorType
  <2>2. ASSUME NEW w \in Worker, Step(w) \/ Fault(w)
        PROVE  TypeOK'
    BY <2>2, StepCases, StartType, ClaimPendingRunType, ClaimDueJobType, ClaimNoRunType,
       OutcomeType, QuietType
  <2>3. CASE Tick
    BY <2>3, TickType
  <2>4. CASE UNCHANGED vars
    BY <2>4 DEF vars, tables, workerVars, counters, TypeOK, TablesOK, WorkersOK
  <2>5. QED
    BY <2>1, <2>2, <2>3, <2>4 DEF Next
<1>3. QED
  BY <1>1, <1>2, PTL DEF Spec

----------------------------------------------------------------------------
(***************************************************************************)
(* Safety.  A step either starts no run (Continues) or is a claim that     *)
(* starts exactly one (Starts); every invariant is shown for these two.    *)
(***************************************************************************)

\* The limits of existing jobs never change.
SameLimits ==
    /\ DOMAIN jobs \subseteq DOMAIN jobs'
    /\ \A j \in DOMAIN jobs : /\ jobs'[j].max = jobs[j].max
                              /\ jobs'[j].timeout = jobs[j].timeout

\* What happens to a row that is not started.
KeptRow(r) ==
    /\ runs'[r].job = runs[r].job /\ runs'[r].sched = runs[r].sched
    /\ runs'[r].attempts <= runs[r].attempts
    /\ runs[r].state \in Terminal => runs'[r] = runs[r]
    /\ runs'[r].state = "running" =>
          runs[r].state = "running" /\ runs[r].job \in DOMAIN locks'

\* The one row that a step may add belongs to a free slot.
FreshRow(r) ==
    /\ \A q \in DOMAIN runs : ~(runs[q].job = runs'[r].job /\ runs[q].sched = runs'[r].sched)
    /\ \A q \in DOMAIN runs' : q \in DOMAIN runs \/ q = r
    /\ runs'[r].job \in DOMAIN jobs

\* A step that starts no run.
Continues ==
    /\ SameLimits
    /\ DOMAIN runs \subseteq DOMAIN runs'
    /\ \A r \in DOMAIN runs : KeptRow(r)
    /\ \A r \in DOMAIN runs' \ DOMAIN runs :
          FreshRow(r) /\ runs'[r].state = "skipped" /\ runs'[r].attempts = 0
    /\ DOMAIN locks' \subseteq DOMAIN locks
    /\ \A j \in DOMAIN locks' : locks'[j] = locks[j]
    /\ \A v \in Worker : pc'[v] \in Busy => pc[v] \in Busy /\ cur'[v] = cur[v]

\* A step in which w starts run r.
Starts(w, r) ==
    LET j == runs'[r].job
    IN  /\ SameLimits
        /\ r \in DOMAIN runs' /\ DOMAIN runs \subseteq DOMAIN runs'
        /\ \A q \in DOMAIN runs \ {r} : KeptRow(q)
        /\ r \in DOMAIN runs => /\ j = runs[r].job /\ runs'[r].sched = runs[r].sched
                                /\ runs[r].state \notin Terminal
                                /\ runs'[r].attempts <= jobs[j].max
        /\ r \notin DOMAIN runs => FreshRow(r) /\ runs'[r].attempts = 1
        /\ \A q \in DOMAIN runs' : q \in DOMAIN runs \/ q = r
        /\ \A q \in DOMAIN runs \ {r} : runs'[q].state = "running" => runs[q].job # j
        /\ j \in DOMAIN jobs /\ j \notin DOMAIN LiveLocks /\ ~jobs[j].cancelled
        /\ DOMAIN locks' = DOMAIN LiveLocks \cup {j}
        /\ locks'[j] = LockRowFor(w, jobs[j])
        /\ \A k \in DOMAIN LiveLocks : locks'[k] = locks[k]
        /\ pc[w] = "idle" /\ now' = now /\ deadline' = deadline
        /\ pc' = [pc EXCEPT ![w] = "claimed"] /\ cur' = [cur EXCEPT ![w] = r]

\* The sweep in Claim, with the expired locks deleted, starts nothing.
LEMMA SweptKept ==
    ASSUME TypeOK, NEW r \in DOMAIN runs, runs'[r] = SweptRuns[r],
           DOMAIN LiveLocks \subseteq DOMAIN locks'
    PROVE  KeptRow(r)
<1>1. runs[r].attempts \in Nat
  BY RowTypes, RunRowFields
<1>2. /\ SweptRuns[r].job = runs[r].job /\ SweptRuns[r].sched = runs[r].sched
      /\ SweptRuns[r].attempts = runs[r].attempts
      /\ SweptRuns[r].state = "running" =>
            runs[r].state = "running" /\ runs[r].job \in DOMAIN LiveLocks
      /\ runs[r].state \in Terminal => SweptRuns[r] = runs[r]
  BY SweptRunsFacts
<1>3. QED
  BY <1>1, <1>2 DEF KeptRow

\* Taking a slot leaves the limits alone.
LEMMA SlotLimits ==
    ASSUME TypeOK,
           jobs' = jobs \/ \E j \in DOMAIN jobs : jobs' = [jobs EXCEPT ![j] = AfterSlot(jobs[j])]
    PROVE  SameLimits
<1>1. CASE jobs' = jobs
  BY <1>1 DEF SameLimits
<1>2. CASE \E j \in DOMAIN jobs : jobs' = [jobs EXCEPT ![j] = AfterSlot(jobs[j])]
  BY <1>2, SlotJobs DEF SameLimits
<1>3. QED
  BY <1>1, <1>2

\* A row that is left alone, in a step that leaves the locks alone.
LEMMA SameRowKept ==
    ASSUME TypeOK, LockInv, NEW r \in DOMAIN runs, runs'[r] = runs[r], locks' = locks
    PROVE  KeptRow(r)
<1>1. runs[r].attempts \in Nat
  BY RowTypes, RunRowFields
<1>2. QED
  BY <1>1 DEF KeptRow, LockInv

\* The operator starts nothing.
LEMMA OperatorContinues ==
    ASSUME TypeOK, LockInv, Operator
    PROVE  Continues
<1>1. ASSUME NEW in \in JobInputs, Create(in)
      PROVE  Continues
  <2>1. UNCHANGED <<runs, locks, pc, cur>> /\ jobs' = WithRow(jobs, in.id, normalizeJob(in))
        /\ in.id \notin DOMAIN jobs
    BY <1>1 DEF Create, workerVars
  <2>2. \A r \in DOMAIN runs : KeptRow(r)
    BY <2>1, SameRowKept
  <2>3. SameLimits
    BY <2>1 DEF SameLimits, WithRow
  <2>4. QED
    BY <2>1, <2>2, <2>3 DEF Continues
<1>2. ASSUME NEW j \in DOMAIN jobs, NEW enabled \in BOOLEAN, SetEnabled(j, enabled)
      PROVE  Continues
  <2>1. UNCHANGED <<runs, locks, pc, cur>> /\ jobs' = [jobs EXCEPT ![j].enabled = enabled]
    BY <1>2 DEF SetEnabled, workerVars
  <2>2. \A r \in DOMAIN runs : KeptRow(r)
    BY <2>1, SameRowKept
  <2>3. SameLimits
    BY <2>1 DEF SameLimits, TypeOK, TablesOK, JobRow
  <2>4. QED
    BY <2>1, <2>2, <2>3 DEF Continues
<1>3. ASSUME NEW j \in DOMAIN jobs, Cancel(j) \/ \E w \in Worker : CancelJob(w, j)
      PROVE  Continues
  <2>1. /\ UNCHANGED <<locks, pc, cur>> /\ DOMAIN runs' = DOMAIN runs
        /\ jobs' = [jobs EXCEPT ![j].enabled = FALSE, ![j].cancelled = TRUE]
    BY <1>3 DEF Cancel, CancelJob, CancelRows
  <2>2. ASSUME NEW r \in DOMAIN runs
        PROVE  KeptRow(r)
    <3>1. CASE runs'[r] = runs[r]
      BY <2>1, <3>1, SameRowKept
    <3>2. CASE runs'[r] = [runs[r] EXCEPT !.state = "cancelled"] /\ runs[r].state = "pending"
      <4>1. runs[r] \in RunRow /\ runs[r].attempts \in Nat /\ "cancelled" \in RunStates
        BY RowTypes, RunRowFields DEF RunStates, Terminal
      <4>2. QED
        BY <3>2, <4>1, StateUpdate DEF KeptRow, Terminal
    <3>3. QED
      BY <1>3, <3>1, <3>2 DEF Cancel, CancelJob, CancelRows
  <2>3. SameLimits
    BY <2>1 DEF SameLimits, TypeOK, TablesOK, JobRow
  <2>4. QED
    BY <2>1, <2>2, <2>3 DEF Continues
<1>4. QED
  BY <1>1, <1>2, <1>3 DEF Operator

\* Recovery starts nothing.
LEMMA StartContinues ==
    ASSUME TypeOK, NEW w \in Worker, Start(w)
    PROVE  Continues
<1>1. /\ runs' = RecoveredRuns /\ locks' = LiveLocks /\ jobs' = jobs /\ cur' = cur
      /\ pc' = [pc EXCEPT ![w] = "idle"]
  BY DEF Start
<1>2. \A v \in Worker : pc'[v] \in Busy => pc[v] \in Busy
  BY <1>1 DEF TypeOK, WorkersOK, Busy, InExecute
<1>3. ASSUME NEW r \in DOMAIN runs
      PROVE  KeptRow(r)
  <2>1. runs[r].attempts \in Nat
    BY RowTypes, RunRowFields
  <2>2. QED
    BY <1>1, <2>1, RecoveredRunsFacts DEF KeptRow
<1>4. DOMAIN runs' = DOMAIN runs
  BY <1>1, RecoveredRunsFacts
<1>5. QED
  BY <1>1, <1>2, <1>3, <1>4, LiveLocksFacts DEF Continues, SameLimits

\* A claim without a result starts nothing.
LEMMA ClaimNoRunContinues ==
    ASSUME TypeOK, NEW w \in Worker,
           SkipMissedSlot(w) \/ SlotAlreadyTaken(w) \/ ClaimNothing(w)
    PROVE  Continues
<1> DEFINE skipped(j) == [job |-> j, sched |-> jobs[j].next, state |-> "skipped",
                          attempts |-> 0, avail |-> now]
<1>1. locks' = LiveLocks /\ UNCHANGED <<pc, cur>>
  BY DEF SkipMissedSlot, SlotAlreadyTaken, ClaimNothing, NothingClaimed, workerVars
<1>2. SameLimits
  BY SlotLimits DEF SkipMissedSlot, SlotAlreadyTaken, ClaimNothing
<1>3. /\ SweptRuns \in Seq(RunRow) /\ DOMAIN SweptRuns = DOMAIN runs
      /\ Len(SweptRuns) = Len(runs)
  BY SweptRunsFacts
<1>4. CASE runs' = SweptRuns
  <2>1. \A r \in DOMAIN runs : KeptRow(r)
    BY <1>1, <1>4, SweptKept
  <2>2. QED
    BY <1>1, <1>2, <1>3, <1>4, <2>1, LiveLocksFacts DEF Continues
<1>5. ASSUME NEW j \in DOMAIN jobs, runs' = Append(SweptRuns, skipped(j)),
             ~KeyTaken(j, jobs[j].next)
      PROVE  Continues
  <2>1. now \in Nat /\ jobs[j] \in JobRow /\ j \in JobId
    BY DEF TypeOK, TablesOK
  <2>2. /\ skipped(j) \in RunRow /\ skipped(j).job = j /\ skipped(j).sched = jobs[j].next
        /\ skipped(j).state = "skipped" /\ skipped(j).attempts = 0
    BY <2>1, JobRowFields DEF RunRow, RunStates, Terminal
  <2> HIDE DEF skipped
  <2> DEFINE n == Len(runs) + 1
  <2>3. /\ DOMAIN runs' = DOMAIN runs \cup {n}
        /\ \A r \in DOMAIN runs : runs'[r] = SweptRuns[r]
        /\ runs'[n] = skipped(j)
    BY <1>3, <1>5, <2>2, AppendFacts
  <2> HIDE DEF n
  <2>4. \A r \in DOMAIN runs : KeptRow(r)
    BY <1>1, <2>3, SweptKept
  <2>5. FreshRow(n)
    BY <1>5, <2>2, <2>3 DEF FreshRow, KeyTaken
  <2>6. QED
    BY <1>1, <1>2, <2>2, <2>3, <2>4, <2>5, LiveLocksFacts DEF Continues
<1>6. QED
  BY <1>4, <1>5 DEF SkipMissedSlot, SlotAlreadyTaken, ClaimNothing

\* Recording an outcome starts nothing, and leaves no 'running' row without a
\* lock: the only row its own lock can have covered is the one it has ended.
LEMMA OutcomeContinues ==
    ASSUME TypeOK, LockInv, NEW w \in Worker, Outcome(w)
    PROVE  Continues
<1>1. /\ DOMAIN runs' = DOMAIN runs
      /\ DOMAIN locks' \subseteq DOMAIN locks
      /\ \A j \in DOMAIN locks' : locks'[j] = locks[j]
      /\ \A j \in DOMAIN locks :
            j \notin DOMAIN locks' => j = runs[cur[w]].job /\ locks[j].owner = w
  BY OutcomeTables
<1>2. \A r \in DOMAIN runs : /\ runs'[r].job = runs[r].job
                             /\ runs'[r].sched = runs[r].sched
                             /\ runs'[r].attempts <= runs[r].attempts
                             /\ runs'[r].state = "running" => runs[r].state = "running"
                             /\ runs[r].state # "running" => runs'[r] = runs[r]
  BY OutcomeTables
<1>3. ASSUME NEW r \in DOMAIN runs, runs'[r].state = "running"
      PROVE  runs[r].job \in DOMAIN locks'
  <2>1. runs[r].state = "running" /\ runs[r].job \in DOMAIN locks
    BY <1>2, <1>3 DEF LockInv
  <2>2. SUFFICES ASSUME runs[r].job \notin DOMAIN locks'
                 PROVE  FALSE
    OBVIOUS
  <2>3. runs[r].job = runs[cur[w]].job /\ locks[runs[r].job].owner = w /\ pc[w] \in Busy
    BY <1>1, <2>1, <2>2 DEF Outcome
  <2>4. r = cur[w]
    BY <2>1, <2>3 DEF LockInv
  <2>5. runs'[cur[w]].state # "running"
    BY OutcomeTables
  <2>6. QED
    BY <1>3, <2>4, <2>5
<1>4. \A r \in DOMAIN runs : KeptRow(r)
  BY <1>2, <1>3 DEF KeptRow, Terminal
<1>5. jobs' = jobs
  BY DEF Outcome, Done
<1>6. \A v \in Worker : pc'[v] \in Busy => pc[v] \in Busy /\ cur'[v] = cur[v]
  BY DEF TypeOK, WorkersOK, Outcome, Done, Busy, InExecute
<1>7. QED
  BY <1>1, <1>4, <1>5, <1>6 DEF Continues, SameLimits

\* The lock that a claim takes, and the locks it leaves alone.
LEMMA NewLock ==
    ASSUME NEW j, NEW row, locks' = WithRow(LiveLocks, j, row)
    PROVE  /\ DOMAIN locks' = DOMAIN LiveLocks \cup {j}
           /\ locks'[j] = row
           /\ \A k \in DOMAIN LiveLocks \ {j} : locks'[k] = locks[k]
BY LiveLocksFacts DEF WithRow

\* claimPendingRun starts one run.
LEMMA ClaimPendingRunStarts ==
    ASSUME TypeOK, NEW w \in Worker, ClaimPendingRun(w)
    PROVE  \E r \in DOMAIN runs' : Starts(w, r)
<1>1. PICK r \in DOMAIN runs :
          /\ FirstReady(r)
          /\ runs' = [SweptRuns EXCEPT ![r] = Started(@)]
          /\ locks' = WithRow(LiveLocks, runs[r].job, LockRowFor(w, jobs[runs[r].job]))
          /\ Claimed(w, r)
  BY DEF ClaimPendingRun
<1> DEFINE j == runs[r].job
<1>2. SweptRuns \in Seq(RunRow) /\ DOMAIN SweptRuns = DOMAIN runs /\ SweptRuns[r] \in RunRow
  BY SweptRunsFacts
<1>3. now \in Nat /\ j \in DOMAIN jobs /\ jobs[j] \in JobRow /\ runs[r].attempts \in Nat
      /\ jobs[j].max \in Nat
  BY RowTypes, RunRowFields, JobRowFields DEF TypeOK
<1>4. SweptRuns[r].state = "pending" /\ j \notin DOMAIN LiveLocks /\ ~jobs[j].cancelled
  BY <1>1 DEF FirstReady, ReadyRuns
<1>5. /\ SweptRuns[r].job = j /\ SweptRuns[r].sched = runs[r].sched
      /\ SweptRuns[r].attempts = runs[r].attempts
      /\ runs[r].attempts < jobs[j].max
      /\ runs[r].state \notin Terminal
  BY <1>4, SweptRunsFacts DEF Terminal
<1>6. /\ Started(SweptRuns[r]) \in RunRow
      /\ Started(SweptRuns[r]).job = j /\ Started(SweptRuns[r]).sched = runs[r].sched
      /\ Started(SweptRuns[r]).state = "running"
      /\ Started(SweptRuns[r]).attempts = runs[r].attempts + 1
  BY <1>2, <1>3, <1>5, AttemptUpdate
<1>7. runs' = [SweptRuns EXCEPT ![r] = Started(SweptRuns[r])]
  BY <1>1
<1>8. /\ DOMAIN runs' = DOMAIN runs
      /\ runs'[r] = Started(SweptRuns[r])
      /\ \A q \in DOMAIN runs \ {r} : runs'[q] = SweptRuns[q]
  BY <1>2, <1>6, <1>7, ReplaceFacts
<1> HIDE DEF j
<1>9. /\ DOMAIN locks' = DOMAIN LiveLocks \cup {j}
       /\ locks'[j] = LockRowFor(w, jobs[j])
       /\ \A k \in DOMAIN LiveLocks : locks'[k] = locks[k]
  <2>1. locks' = WithRow(LiveLocks, j, LockRowFor(w, jobs[j]))
    BY <1>1 DEF j
  <2>2. /\ DOMAIN locks' = DOMAIN LiveLocks \cup {j}
        /\ locks'[j] = LockRowFor(w, jobs[j])
        /\ \A k \in DOMAIN LiveLocks \ {j} : locks'[k] = locks[k]
    BY <2>1, NewLock
  <2>3. QED
    BY <1>4, <2>2
<1>10. \A q \in DOMAIN runs \ {r} : KeptRow(q)
  BY <1>8, <1>9, SweptKept
<1>11. \A q \in DOMAIN runs \ {r} : runs'[q].state = "running" => runs[q].job # j
  BY <1>4, <1>8, SweptRunsFacts
<1>12. SameLimits
  BY DEF ClaimPendingRun, SameLimits
<1>13. /\ pc[w] = "idle" /\ now' = now /\ deadline' = deadline
       /\ pc' = [pc EXCEPT ![w] = "claimed"] /\ cur' = [cur EXCEPT ![w] = r]
  BY <1>1 DEF ClaimPendingRun, Polling, Claimed
<1>14. runs'[r].job = j /\ runs'[r].sched = runs[r].sched /\ runs'[r].attempts <= jobs[j].max
  BY <1>3, <1>5, <1>6, <1>8
<1>15. r \in DOMAIN runs' /\ r \in DOMAIN runs /\ j = runs[r].job
  BY <1>8 DEF j
<1>16. Starts(w, r)
  BY <1>3, <1>4, <1>5, <1>8, <1>9, <1>10, <1>11, <1>12, <1>13, <1>14, <1>15 DEF Starts
<1>17. QED
  BY <1>15, <1>16

\* claimDueJob starts one run, in a slot that had none.
LEMMA ClaimDueJobStarts ==
    ASSUME TypeOK, NEW w \in Worker, ClaimDueJob(w)
    PROVE  \E r \in DOMAIN runs' : Starts(w, r)
<1> DEFINE fresh(j) == [job |-> j, sched |-> jobs[j].next, state |-> "running",
                        attempts |-> 1, avail |-> now]
           n == Len(runs) + 1
<1>1. PICK j \in DOMAIN jobs :
          /\ FirstDue(j) /\ ~KeyTaken(j, jobs[j].next)
          /\ runs' = Append(SweptRuns, fresh(j))
          /\ jobs' = [jobs EXCEPT ![j] = AfterSlot(jobs[j])]
          /\ locks' = WithRow(LiveLocks, j, LockRowFor(w, jobs[j]))
          /\ Claimed(w, n)
  BY DEF ClaimDueJob
<1>2. now \in Nat /\ jobs[j] \in JobRow /\ j \in JobId
  BY DEF TypeOK, TablesOK
<1>3. /\ fresh(j) \in RunRow /\ fresh(j).job = j /\ fresh(j).sched = jobs[j].next
      /\ fresh(j).attempts = 1
  BY <1>2, JobRowFields DEF RunRow, RunStates
<1> HIDE DEF fresh
<1>4. /\ SweptRuns \in Seq(RunRow) /\ Len(SweptRuns) = Len(runs)
      /\ DOMAIN SweptRuns = DOMAIN runs
  BY SweptRunsFacts
<1>5. /\ DOMAIN runs' = DOMAIN runs \cup {n} /\ n \notin DOMAIN runs
      /\ \A r \in DOMAIN runs : runs'[r] = SweptRuns[r]
      /\ runs'[n] = fresh(j)
  BY <1>1, <1>3, <1>4, AppendFacts
<1> HIDE DEF n
<1>6. j \notin DOMAIN LiveLocks /\ ~jobs[j].cancelled
  BY <1>1 DEF FirstDue, DueJobs
<1>7. /\ DOMAIN locks' = DOMAIN LiveLocks \cup {j}
      /\ locks'[j] = LockRowFor(w, jobs[j])
      /\ \A k \in DOMAIN LiveLocks : locks'[k] = locks[k]
  <2>1. /\ DOMAIN locks' = DOMAIN LiveLocks \cup {j}
        /\ locks'[j] = LockRowFor(w, jobs[j])
        /\ \A k \in DOMAIN LiveLocks \ {j} : locks'[k] = locks[k]
    BY <1>1, NewLock
  <2>2. QED
    BY <1>6, <2>1
<1>8. \A q \in DOMAIN runs : KeptRow(q)
  BY <1>5, <1>7, SweptKept
<1>9. \A q \in DOMAIN runs : runs'[q].state = "running" => runs[q].job # j
  BY <1>5, <1>6, SweptRunsFacts
<1>10. FreshRow(n)
  BY <1>1, <1>3, <1>5 DEF FreshRow, KeyTaken
<1>11. SameLimits
  BY <1>1, SlotLimits
<1>12. /\ pc[w] = "idle" /\ now' = now /\ deadline' = deadline
       /\ pc' = [pc EXCEPT ![w] = "claimed"] /\ cur' = [cur EXCEPT ![w] = n]
  BY <1>1 DEF ClaimDueJob, Polling, Claimed
<1>13. Starts(w, n)
  BY <1>3, <1>5, <1>6, <1>7, <1>8, <1>9, <1>10, <1>11, <1>12 DEF Starts
<1>14. QED
  BY <1>5, <1>13

\* A step that changes no table and takes up no run starts nothing.
LEMMA UnchangedContinues ==
    ASSUME TypeOK, LockInv, UNCHANGED <<jobs, runs, locks>>,
           \A v \in Worker : pc'[v] \in Busy => pc[v] \in Busy /\ cur'[v] = cur[v]
    PROVE  Continues
<1>1. \A r \in DOMAIN runs : KeptRow(r)
  BY SameRowKept
<1>2. QED
  BY <1>1 DEF Continues, SameLimits

\* Every step starts no run or exactly one.
LEMMA NextCases ==
    ASSUME TypeOK, LockInv, [Next]_vars
    PROVE  Continues \/ \E w \in Worker : \E r \in DOMAIN runs' : Starts(w, r)
<1>1. CASE Operator
  BY <1>1, OperatorContinues
<1>2. ASSUME NEW w \in Worker, Step(w) \/ Fault(w)
      PROVE  Continues \/ \E r \in DOMAIN runs' : Starts(w, r)
  <2>1. CASE QuietStep(w)
    BY <2>1, QuietFacts, UnchangedContinues
  <2>2. QED
    BY <1>2, <2>1, StepCases, StartContinues, ClaimPendingRunStarts, ClaimDueJobStarts,
       ClaimNoRunContinues, OutcomeContinues
<1>3. CASE Tick
  BY <1>3, UnchangedContinues DEF Tick, tables
<1>4. CASE UNCHANGED vars
  BY <1>4, UnchangedContinues DEF vars, tables, workerVars
<1>5. QED
  BY <1>1, <1>2, <1>3, <1>4 DEF Next

\* Steps that start nothing keep every 'running' row under a lock of its own.
LEMMA ContinuesSafe ==
    ASSUME TypeOK, LockInv, OneRunningPerJob, Continues
    PROVE  LockInv' /\ OneRunningPerJob'
<1>1. ASSUME NEW r \in DOMAIN runs', runs'[r].state = "running"
      PROVE  /\ r \in DOMAIN runs /\ runs[r].state = "running"
             /\ runs'[r].job = runs[r].job /\ runs[r].job \in DOMAIN locks'
  BY <1>1 DEF Continues, KeptRow
<1>2. OneRunningPerJob'
  BY <1>1 DEF OneRunningPerJob
<1>3. ASSUME NEW w \in Worker, pc'[w] \in Busy,
             runs'[cur'[w]].job \in DOMAIN locks', locks'[runs'[cur'[w]].job].owner = w,
             NEW r \in DOMAIN runs', runs'[r].state = "running",
             runs'[r].job = runs'[cur'[w]].job
      PROVE  r = cur'[w]
  <2>1. pc[w] \in Busy /\ cur'[w] = cur[w] /\ cur[w] \in DOMAIN runs
    BY <1>3 DEF Continues, TypeOK, WorkersOK
  <2>2. runs'[cur[w]].job = runs[cur[w]].job
    BY <2>1 DEF Continues, KeptRow
  <2>3. runs[cur[w]].job \in DOMAIN locks /\ locks[runs[cur[w]].job].owner = w
    BY <1>3, <2>1, <2>2 DEF Continues
  <2>4. r \in DOMAIN runs /\ runs[r].state = "running" /\ runs[r].job = runs[cur[w]].job
    BY <1>1, <1>3, <2>1, <2>2
  <2>5. QED
    BY <2>1, <2>3, <2>4 DEF LockInv
<1>4. QED
  BY <1>1, <1>2, <1>3 DEF LockInv

\* Starting a run keeps every 'running' row under a lock of its own: the job
\* was not locked, so none of its rows was 'running' after the sweep.
LEMMA StartsSafe ==
    ASSUME TypeOK, LockInv, OneRunningPerJob,
           NEW w \in Worker, NEW r \in DOMAIN runs', Starts(w, r)
    PROVE  LockInv' /\ OneRunningPerJob'
<1> DEFINE j == runs'[r].job
<1>1. ASSUME NEW q \in DOMAIN runs', runs'[q].state = "running", q # r
      PROVE  /\ q \in DOMAIN runs /\ runs[q].state = "running"
             /\ runs'[q].job = runs[q].job /\ runs[q].job \in DOMAIN locks'
             /\ runs[q].job # j
  BY <1>1 DEF Starts, KeptRow
<1>2. j \in DOMAIN locks' /\ locks'[j].owner = w
  BY DEF Starts, LockRowFor
<1>3. OneRunningPerJob'
  BY <1>1 DEF OneRunningPerJob
<1>4. ASSUME NEW v \in Worker, pc'[v] \in Busy,
             runs'[cur'[v]].job \in DOMAIN locks', locks'[runs'[cur'[v]].job].owner = v,
             NEW q \in DOMAIN runs', runs'[q].state = "running",
             runs'[q].job = runs'[cur'[v]].job
      PROVE  q = cur'[v]
  <2>1. CASE v = w
    <3>1. cur'[v] = r
      BY <2>1 DEF Starts, TypeOK, WorkersOK
    <3>2. QED
      BY <1>1, <1>4, <3>1
  <2>2. CASE v # w
    <3>1. pc[v] \in Busy /\ cur'[v] = cur[v] /\ cur[v] \in DOMAIN runs
      BY <1>4, <2>2 DEF Starts, TypeOK, WorkersOK
    <3>2. runs'[cur[v]].job # j
      BY <1>2, <1>4, <2>2, <3>1
    <3>3. cur[v] # r
      BY <3>2
    <3>4. runs'[cur[v]].job = runs[cur[v]].job
      BY <3>1, <3>3 DEF Starts, KeptRow
    <3>5. runs[cur[v]].job \in DOMAIN LiveLocks /\ locks[runs[cur[v]].job].owner = v
      BY <1>4, <3>1, <3>2, <3>4 DEF Starts
    <3>6. q # r
      BY <1>4, <3>1, <3>2
    <3>7. q \in DOMAIN runs /\ runs[q].state = "running" /\ runs[q].job = runs[cur[v]].job
      BY <1>1, <1>4, <3>1, <3>4, <3>6
    <3>8. QED
      BY <3>1, <3>5, <3>7, LiveLocksFacts DEF LockInv
  <2>3. QED
    BY <2>1, <2>2
<1>5. QED
  BY <1>1, <1>2, <1>3, <1>4 DEF LockInv

\* What is inductive: types, locks, and the exclusion of two 'running' rows.
RunningInv == TypeOK /\ LockInv /\ OneRunningPerJob

\* The inductive invariant holds.
LEMMA RunningInvHolds == Spec => []RunningInv
<1>1. Init => RunningInv
  <2>1. Init => LockInv /\ OneRunningPerJob
    BY DEF Init, LockInv, OneRunningPerJob, Busy, InExecute
  <2>2. Init => TypeOK
    BY DEF Init, TypeOK, TablesOK, WorkersOK, Busy, InExecute
  <2>3. QED
    BY <2>1, <2>2 DEF RunningInv
<1>2. TypeOK' /\ RunningInv /\ [Next]_vars => RunningInv'
  BY NextCases, ContinuesSafe, StartsSafe DEF RunningInv
<1>3. QED
  BY <1>1, <1>2, TypeCorrect, PTL DEF Spec

\* At most one run of a job is 'running', for any number of Schedulers, jobs,
\* crashes and stale workers, and whether or not executors are prompt.
THEOREM Exclusion == Spec => []OneRunningPerJob
BY RunningInvHolds, PTL DEF RunningInv

----------------------------------------------------------------------------
(***************************************************************************)
(* Attempts, slots and finished runs.                                      *)
(***************************************************************************)

\* A run never exceeds its budget: an attempt is only started after the sweep
\* has killed the pending runs that have none left.
THEOREM Budget == Spec => []AttemptsWithinBudget
<1>1. Init => AttemptsWithinBudget
  BY DEF Init, AttemptsWithinBudget
<1>2. RunningInv /\ TypeOK' /\ AttemptsWithinBudget /\ [Next]_vars => AttemptsWithinBudget'
  <2> SUFFICES ASSUME TypeOK, LockInv, TypeOK', AttemptsWithinBudget, [Next]_vars,
                      NEW q \in DOMAIN runs'
               PROVE  runs'[q].attempts <= jobs'[runs'[q].job].max
    BY DEF RunningInv, AttemptsWithinBudget
  <2>1. ASSUME NEW r \in DOMAIN runs
        PROVE  /\ runs[r].job \in DOMAIN jobs
               /\ runs[r].attempts <= jobs[runs[r].job].max
               /\ runs[r].attempts \in Nat /\ jobs[runs[r].job].max \in Nat
    BY RowTypes, RunRowFields, JobRowFields DEF AttemptsWithinBudget
  <2>2. runs'[q] \in RunRow /\ jobs'[runs'[q].job] \in JobRow
    BY DEF TypeOK, TablesOK
  <2>3. /\ runs'[q].attempts \in Nat
        /\ jobs'[runs'[q].job].max \in Nat /\ jobs'[runs'[q].job].max >= 1
    BY <2>2, RunRowFields, JobRowFields
  <2>4. ASSUME q \in DOMAIN runs, KeptRow(q), SameLimits
        PROVE  runs'[q].attempts <= jobs'[runs'[q].job].max
    <3>1. runs'[q].job = runs[q].job /\ runs'[q].attempts <= runs[q].attempts
      BY <2>4 DEF KeptRow
    <3>2. jobs'[runs[q].job].max = jobs[runs[q].job].max
      BY <2>1, <2>4 DEF SameLimits
    <3>3. QED
      BY <2>1, <2>3, <2>4, <3>1, <3>2
  <2>5. CASE Continues
    <3>1. CASE q \in DOMAIN runs
      BY <2>4, <2>5, <3>1 DEF Continues
    <3>2. CASE q \notin DOMAIN runs
      BY <2>3, <2>5, <3>2 DEF Continues
    <3>3. QED
      BY <3>1, <3>2
  <2>6. ASSUME NEW w \in Worker, NEW r \in DOMAIN runs', Starts(w, r)
        PROVE  runs'[q].attempts <= jobs'[runs'[q].job].max
    <3>1. SameLimits
      BY <2>6 DEF Starts
    <3>2. CASE q # r
      BY <2>4, <2>6, <3>1, <3>2 DEF Starts
    <3>3. CASE q = r /\ r \in DOMAIN runs
      <4>1. runs'[r].attempts <= jobs[runs'[r].job].max /\ runs'[r].job \in DOMAIN jobs
        BY <2>6, <3>3 DEF Starts
      <4>2. QED
        BY <3>1, <3>3, <4>1 DEF SameLimits
    <3>4. CASE q = r /\ r \notin DOMAIN runs
      BY <2>3, <2>6, <3>4 DEF Starts
    <3>5. QED
      BY <3>2, <3>3, <3>4
  <2>7. QED
    BY <2>5, <2>6, NextCases
<1>3. QED
  BY <1>1, <1>2, RunningInvHolds, TypeCorrect, PTL DEF Spec

\* A slot has at most one run: rows keep their slot, and a new row is only ever
\* added to a slot that has none.
THEOREM SlotUniqueness == Spec => []OneRunPerSlot
<1>1. Init => OneRunPerSlot
  BY DEF Init, OneRunPerSlot
<1>2. RunningInv /\ OneRunPerSlot /\ [Next]_vars => OneRunPerSlot'
  <2> SUFFICES ASSUME TypeOK, LockInv, OneRunPerSlot, [Next]_vars,
                      NEW p \in DOMAIN runs', NEW q \in DOMAIN runs',
                      runs'[p].job = runs'[q].job, runs'[p].sched = runs'[q].sched
               PROVE  p = q
    BY DEF RunningInv, OneRunPerSlot
  <2>1. ASSUME NEW r \in DOMAIN runs
        PROVE  runs'[r].job = runs[r].job /\ runs'[r].sched = runs[r].sched
    <3>1. CASE Continues
      BY <3>1 DEF Continues, KeptRow
    <3>2. ASSUME NEW w \in Worker, NEW s \in DOMAIN runs', Starts(w, s)
          PROVE  runs'[r].job = runs[r].job /\ runs'[r].sched = runs[r].sched
      <4>1. CASE r = s
        BY <3>2, <4>1 DEF Starts
      <4>2. CASE r # s
        BY <3>2, <4>2 DEF Starts, KeptRow
      <4>3. QED
        BY <4>1, <4>2
    <3>3. QED
      BY <3>1, <3>2, NextCases
  <2>2. ASSUME NEW r \in DOMAIN runs', r \notin DOMAIN runs
        PROVE  FreshRow(r)
    BY <2>2, NextCases DEF Continues, Starts
  <2>3. CASE p \in DOMAIN runs /\ q \in DOMAIN runs
    BY <2>1, <2>3 DEF OneRunPerSlot
  <2>4. CASE p \notin DOMAIN runs
    BY <2>1, <2>2, <2>4 DEF FreshRow
  <2>5. CASE q \notin DOMAIN runs
    BY <2>1, <2>2, <2>5 DEF FreshRow
  <2>6. QED
    BY <2>3, <2>4, <2>5
<1>3. QED
  BY <1>1, <1>2, RunningInvHolds, PTL DEF Spec

\* A finished run is never reopened or rewritten.
THEOREM Finality == Spec => TerminalIsFinal
<1>1. RunningInv /\ [Next]_vars =>
          [\A r \in DOMAIN runs : runs[r].state \in Terminal => runs'[r] = runs[r]]_runs
  <2> SUFFICES ASSUME TypeOK, LockInv, [Next]_vars,
                      NEW r \in DOMAIN runs, runs[r].state \in Terminal
               PROVE  runs'[r] = runs[r]
    BY DEF RunningInv
  <2>1. CASE Continues
    BY <2>1 DEF Continues, KeptRow
  <2>2. ASSUME NEW w \in Worker, NEW s \in DOMAIN runs', Starts(w, s)
        PROVE  runs'[r] = runs[r]
    BY <2>2 DEF Starts, KeptRow
  <2>3. QED
    BY <2>1, <2>2, NextCases
<1>2. QED
  BY <1>1, RunningInvHolds, PTL DEF Spec, TerminalIsFinal

\* A cancelled job's runs are never started again: both claims look at the job in
\* the transaction that starts the run, whatever Fail and Requeue have put back.
THEOREM CancelledStaysDown == Spec => NoStartAfterCancel
<1>1. RunningInv /\ TypeOK' /\ [Next]_vars =>
          [\A r \in DOMAIN runs' :
              (/\ runs'[r].state = "running"
               /\ r \in DOMAIN runs => runs'[r].attempts > runs[r].attempts)
              => ~jobs[runs'[r].job].cancelled]_vars
  <2> SUFFICES ASSUME TypeOK, TypeOK', LockInv, [Next]_vars,
                      NEW r \in DOMAIN runs', runs'[r].state = "running",
                      r \in DOMAIN runs => runs'[r].attempts > runs[r].attempts
               PROVE  ~jobs[runs'[r].job].cancelled
    BY DEF RunningInv
  <2>1. r \in DOMAIN runs => runs[r].attempts \in Nat /\ runs'[r].attempts \in Nat
    <3>1. runs'[r] \in RunRow
      BY DEF TypeOK, TablesOK
    <3>2. QED
      BY <3>1, RowTypes, RunRowFields
  <2>2. r \in DOMAIN runs => ~KeptRow(r)
    BY <2>1 DEF KeptRow
  <2>3. ~Continues
    BY <2>2 DEF Continues
  <2>4. PICK w \in Worker, q \in DOMAIN runs' : Starts(w, q)
    BY <2>3, NextCases
  <2>5. r = q
    BY <2>2, <2>4 DEF Starts
  <2>6. QED
    BY <2>4, <2>5 DEF Starts
<1>2. QED
  BY <1>1, RunningInvHolds, TypeCorrect, PTL DEF Spec, NoStartAfterCancel

\* Every slot that a job has moved past.
SlotKept ==
    \A j \in DOMAIN jobs :
        jobs'[j].next # jobs[j].next =>
            \E r \in DOMAIN runs' : runs'[r].job = j /\ runs'[r].sched = jobs[j].next

\* claimDueJob leaves a run for the slot it takes, or finds one.
LEMMA TakenSlotKept ==
    ASSUME TypeOK, NEW j \in DOMAIN jobs, jobs' = [jobs EXCEPT ![j] = AfterSlot(jobs[j])],
           \/ /\ runs' = SweptRuns
              /\ KeyTaken(j, jobs[j].next)
           \/ \E state \in RunStates, n \in Nat :
                 runs' = Append(SweptRuns, [job |-> j, sched |-> jobs[j].next, state |-> state,
                                            attempts |-> n, avail |-> now])
    PROVE  SlotKept
<1>1. \A k \in DOMAIN jobs : k # j => jobs'[k] = jobs[k]
  OBVIOUS
<1>2. /\ SweptRuns \in Seq(RunRow) /\ DOMAIN SweptRuns = DOMAIN runs
      /\ Len(SweptRuns) = Len(runs)
  BY SweptRunsFacts
<1>3. CASE runs' = SweptRuns /\ KeyTaken(j, jobs[j].next)
  <2>1. PICK r \in DOMAIN runs : runs[r].job = j /\ runs[r].sched = jobs[j].next
    BY <1>3 DEF KeyTaken
  <2>2. runs'[r].job = j /\ runs'[r].sched = jobs[j].next /\ r \in DOMAIN runs'
    BY <1>2, <1>3, <2>1, SweptRunsFacts
  <2>3. QED
    BY <1>1, <2>2 DEF SlotKept
<1>4. ASSUME NEW state \in RunStates, NEW n \in Nat,
             runs' = Append(SweptRuns, [job |-> j, sched |-> jobs[j].next, state |-> state,
                                        attempts |-> n, avail |-> now])
      PROVE  SlotKept
  <2> DEFINE row == [job |-> j, sched |-> jobs[j].next, state |-> state, attempts |-> n, avail |-> now]
             k == Len(SweptRuns) + 1
  <2>1. now \in Nat /\ jobs[j] \in JobRow /\ j \in JobId
    BY DEF TypeOK, TablesOK
  <2>2. row \in RunRow /\ row.job = j /\ row.sched = jobs[j].next
    BY <2>1, JobRowFields DEF RunRow
  <2> HIDE DEF row
  <2>3. k \in DOMAIN runs' /\ runs'[k] = row
    <3>1. runs' = Append(SweptRuns, row)
      BY <1>4 DEF row
    <3>2. /\ DOMAIN Append(SweptRuns, row) = DOMAIN SweptRuns \cup {Len(SweptRuns) + 1}
          /\ Append(SweptRuns, row)[Len(SweptRuns) + 1] = row
      BY <1>2, <2>2, AppendFacts
    <3>3. QED
      BY <3>1, <3>2
  <2> HIDE DEF k
  <2>4. QED
    BY <1>1, <2>2, <2>3 DEF SlotKept
<1>5. QED
  BY <1>3, <1>4

\* A job moves past a slot only in the transaction that takes it, and that leaves a
\* run for the slot: started, skipped, or the one it already had.
THEOREM SlotsAreKept == Spec => NoSlotLost
<1>1. TypeOK /\ [Next]_vars => SlotKept
  <2> SUFFICES ASSUME TypeOK, [Next]_vars PROVE SlotKept
    OBVIOUS
  <2>0. ASSUME \A j \in DOMAIN jobs : jobs'[j].next = jobs[j].next PROVE SlotKept
    BY <2>0 DEF SlotKept
  <2>1. ASSUME NEW in \in JobInputs, Create(in) PROVE SlotKept
    <3>1. jobs' = WithRow(jobs, in.id, normalizeJob(in)) /\ in.id \notin DOMAIN jobs
      BY <2>1 DEF Create
    <3>2. QED
      BY <2>0, <3>1 DEF WithRow
  <2>2. ASSUME NEW j \in DOMAIN jobs, NEW enabled, SetEnabled(j, enabled) PROVE SlotKept
    <3>1. jobs' = [jobs EXCEPT ![j].enabled = enabled]
      BY <2>2 DEF SetEnabled
    <3>2. QED
      BY <2>0, <3>1 DEF TypeOK, TablesOK, JobRow
  <2>3. ASSUME NEW j \in DOMAIN jobs, Cancel(j) \/ \E w : CancelJob(w, j) PROVE SlotKept
    <3>1. jobs' = [jobs EXCEPT ![j].enabled = FALSE, ![j].cancelled = TRUE]
      BY <2>3 DEF Cancel, CancelJob, CancelRows
    <3>2. QED
      BY <2>0, <3>1 DEF TypeOK, TablesOK, JobRow
  <2>4. ASSUME NEW w \in Worker, ClaimDueJob(w) PROVE SlotKept
    BY <2>4, TakenSlotKept DEF ClaimDueJob, RunStates
  <2>5. ASSUME NEW w \in Worker, SkipMissedSlot(w) PROVE SlotKept
    BY <2>5, TakenSlotKept DEF SkipMissedSlot, RunStates, Terminal
  <2>6. ASSUME NEW w \in Worker, SlotAlreadyTaken(w) PROVE SlotKept
    BY <2>6, TakenSlotKept DEF SlotAlreadyTaken
  <2>7. ASSUME NEW w \in Worker,
               \/ Start(w) \/ ClaimPendingRun(w) \/ ClaimNothing(w) \/ Outcome(w) \/ QuietStep(w)
        PROVE  jobs' = jobs
    BY <2>7, QuietFacts DEF Start, ClaimPendingRun, ClaimNothing, Outcome, Done
  <2>8. CASE Tick \/ UNCHANGED vars
    BY <2>0, <2>8 DEF Tick, vars, tables
  <2>9. ASSUME NEW w \in Worker, Step(w) \/ Fault(w) PROVE SlotKept
    BY <2>0, <2>4, <2>5, <2>6, <2>7, <2>9, StepCases
  <2>10. QED
    BY <2>1, <2>2, <2>3, <2>8, <2>9 DEF Next, Operator
<1>2. QED
  BY <1>1, TypeCorrect, PTL DEF Spec, NoSlotLost, SlotKept

----------------------------------------------------------------------------
(***************************************************************************)
(* Mutual exclusion of executors, when they respect their deadlines.       *)
(***************************************************************************)

\* The numbers that a busy worker's claim on its lock is about.
LEMMA HeldTypes ==
    ASSUME TypeOK, NEW w \in Worker, pc[w] \in Busy
    PROVE  LET j == runs[cur[w]].job
           IN  /\ cur[w] \in DOMAIN runs /\ j \in DOMAIN jobs
               /\ now \in Nat /\ deadline[w] \in Int /\ jobs[j].timeout \in Nat
               /\ Second \in Nat
               /\ j \in DOMAIN locks => locks[j].expires \in Int
<1>1. cur[w] \in DOMAIN runs /\ now \in Nat /\ deadline[w] \in Int
  BY DEF TypeOK, WorkersOK
<1>2. runs[cur[w]].job \in DOMAIN jobs /\ jobs[runs[cur[w]].job].timeout \in Nat
  BY <1>1, RowTypes, JobRowFields
<1>3. Second \in Nat
  BY TicksAssumption DEF Second
<1>4. \A j \in DOMAIN locks : locks[j].expires \in Int
  BY DEF TypeOK, TablesOK, LockRow
<1>5. QED
  BY <1>1, <1>2, <1>3, <1>4

\* A held lock survives the deletion of expired locks: the text comparison is
\* wrong by less than the second that acquireLock adds.
LEMMA HeldIsLive ==
    ASSUME TypeOK, NEW w \in Worker, pc[w] \in Busy, HeldLock(w)
    PROVE  runs[cur[w]].job \in DOMAIN LiveLocks
<1> DEFINE j == runs[cur[w]].job
           e == locks[j].expires
<1>1. j \in DOMAIN locks
  BY DEF HeldLock
<1>2. e \in Int /\ now \in Nat /\ Second \in Nat /\ deadline[w] \in Int /\ jobs[j].timeout \in Nat
  BY <1>1, HeldTypes
<1>3. e >= now + Second
  BY <1>2 DEF HeldLock
<1> HIDE DEF e
<1>4. ~SqlLeq(e, now)
  <2>1. now \in Int /\ ~(e < now + TicksPerSecond)
    BY <1>2, <1>3 DEF Second
  <2>2. QED
    BY <1>2, <2>1, SqlLeqWithinASecond
<1>5. QED
  BY <1>1, <1>4, LiveLocksFacts DEF e

\* A worker keeps its hold in a step that leaves its lock, its run and its
\* place in execute alone while the clock stands still.
LEMMA HoldKept ==
    ASSUME TypeOK, NEW v \in Worker, pc[v] \in Busy, HeldLock(v), SameLimits,
           pc'[v] = pc[v], cur'[v] = cur[v], deadline'[v] = deadline[v], now' = now,
           runs'[cur[v]].job = runs[cur[v]].job,
           runs[cur[v]].job \in DOMAIN locks',
           locks'[runs[cur[v]].job] = locks[runs[cur[v]].job]
    PROVE  HeldLock(v)'
<1>1. runs[cur[v]].job \in DOMAIN jobs
  BY HeldTypes
<1>2. jobs'[runs[cur[v]].job].timeout = jobs[runs[cur[v]].job].timeout
  BY <1>1 DEF SameLimits
<1>3. QED
  BY <1>2 DEF HeldLock

\* Starting a run gives its worker a lock that is long enough, and takes no
\* other worker's lock away.
LEMMA StartsHold ==
    ASSUME TypeOK, NEW w \in Worker, NEW r \in DOMAIN runs', Starts(w, r),
           \A v \in Worker : pc[v] \in Busy => HeldLock(v),
           NEW v \in Worker, pc'[v] \in Busy
    PROVE  HeldLock(v)'
<1> DEFINE j == runs'[r].job
<1>1. CASE v = w
  <2>1. cur'[v] = r /\ pc'[v] = "claimed"
    BY <1>1 DEF Starts, TypeOK, WorkersOK
  <2>2. j \in DOMAIN jobs /\ jobs[j] \in JobRow /\ now \in Nat
    BY DEF Starts, TypeOK, TablesOK
  <2>3. /\ j \in DOMAIN locks' /\ locks'[j] = LockRowFor(w, jobs[j])
        /\ jobs'[j].timeout = jobs[j].timeout /\ now' = now
    BY <2>2 DEF Starts, SameLimits
  <2>4. /\ LockRowFor(w, jobs[j]).owner = w
        /\ LockRowFor(w, jobs[j]).expires >= now + jobs[j].timeout + Second
    BY <2>2, LockRowForFacts
  <2>5. QED
    BY <1>1, <2>1, <2>3, <2>4 DEF HeldLock
<1>2. CASE v # w
  <2>1. /\ pc'[v] = pc[v] /\ cur'[v] = cur[v] /\ deadline'[v] = deadline[v] /\ now' = now
        /\ SameLimits
    BY <1>2 DEF Starts, TypeOK, WorkersOK
  <2>2. pc[v] \in Busy /\ HeldLock(v) /\ cur[v] \in DOMAIN runs
    BY <2>1, HeldTypes
  <2>3. runs[cur[v]].job \in DOMAIN LiveLocks
    BY <2>2, HeldIsLive
  <2>4. cur[v] # r
    BY <2>2, <2>3 DEF Starts
  <2>5. /\ runs'[cur[v]].job = runs[cur[v]].job
        /\ runs[cur[v]].job \in DOMAIN locks'
        /\ locks'[runs[cur[v]].job] = locks[runs[cur[v]].job]
    BY <2>2, <2>3, <2>4 DEF Starts, KeptRow
  <2>6. QED
    BY <2>1, <2>2, <2>5, HoldKept
<1>3. QED
  BY <1>1, <1>2

\* Recovery and claims without a result delete no held lock.
LEMMA LiveLocksHold ==
    ASSUME TypeOK, Continues, locks' = LiveLocks, now' = now, deadline' = deadline,
           \A v \in Worker : pc[v] \in Busy => HeldLock(v),
           NEW v \in Worker, pc'[v] \in Busy, pc'[v] = pc[v]
    PROVE  HeldLock(v)'
<1>1. pc[v] \in Busy /\ HeldLock(v) /\ cur'[v] = cur[v] /\ SameLimits
  BY DEF Continues
<1>2. cur[v] \in DOMAIN runs
  BY <1>1, HeldTypes
<1>3. runs[cur[v]].job \in DOMAIN LiveLocks /\ runs'[cur[v]].job = runs[cur[v]].job
  BY <1>1, <1>2, HeldIsLive DEF Continues, KeptRow
<1>4. locks'[runs[cur[v]].job] = locks[runs[cur[v]].job]
  BY <1>3, LiveLocksFacts
<1>5. QED
  BY <1>1, <1>3, <1>4, HoldKept

\* An outcome deletes no lock but the worker's own, and the worker is done.
LEMMA OutcomeHold ==
    ASSUME TypeOK, Continues, NEW w \in Worker, Outcome(w),
           \A v \in Worker : pc[v] \in Busy => HeldLock(v),
           NEW v \in Worker, pc'[v] \in Busy
    PROVE  HeldLock(v)'
<1>1. pc[v] \in Busy /\ HeldLock(v) /\ cur'[v] = cur[v] /\ SameLimits
  BY DEF Continues
<1>2. v # w /\ pc'[v] = pc[v] /\ deadline'[v] = deadline[v] /\ now' = now
  BY DEF Outcome, Done, TypeOK, WorkersOK, Busy, InExecute
<1>3. cur[v] \in DOMAIN runs
  BY <1>1, HeldTypes
<1>4. runs'[cur[v]].job = runs[cur[v]].job
  BY <1>3 DEF Continues, KeptRow
<1>5. runs[cur[v]].job \in DOMAIN locks /\ locks[runs[cur[v]].job].owner = v
  BY <1>1 DEF HeldLock
<1>6. runs[cur[v]].job \in DOMAIN locks'
  BY <1>2, <1>5, OutcomeTables
<1>7. locks'[runs[cur[v]].job] = locks[runs[cur[v]].job]
  BY <1>6, OutcomeTables
<1>8. QED
  BY <1>1, <1>2, <1>4, <1>6, <1>7, HoldKept

\* The steps that touch no table: Begin turns the claim's margin into the
\* deadline's, the others change nothing that HeldLock speaks of.
LEMMA QuietHold ==
    ASSUME TypeOK, NEW w \in Worker, QuietStep(w),
           \A v \in Worker : pc[v] \in Busy => HeldLock(v),
           NEW v \in Worker, pc'[v] \in Busy
    PROVE  HeldLock(v)'
<1>1. /\ UNCHANGED <<now, jobs, runs, locks>>
      /\ pc[v] \in Busy /\ HeldLock(v) /\ cur'[v] = cur[v]
  BY QuietFacts
<1>2. CASE Begin(w) /\ v = w
  <2>1. /\ pc[v] = "claimed" /\ pc'[v] = "authorizing"
        /\ deadline'[v] = now + jobs[runs[cur[v]].job].timeout
    BY <1>2 DEF Begin, TypeOK, WorkersOK
  <2>2. now \in Nat /\ jobs[runs[cur[v]].job].timeout \in Nat
    BY <1>1, HeldTypes
  <2>3. now <= deadline'[v]
    BY <2>1, <2>2
  <2>4. QED
    BY <1>1, <2>1, <2>3 DEF HeldLock
<1>3. CASE ~(Begin(w) /\ v = w)
  <2>1. deadline'[v] = deadline[v] /\ (pc'[v] = "claimed" <=> pc[v] = "claimed")
    <3>1. CASE Begin(w) /\ v # w
      BY <3>1 DEF Begin, TypeOK, WorkersOK
    <3>2. CASE Authorize(w) \/ CheckCancelled(w)
      BY <3>2 DEF Authorize, CheckCancelled, TypeOK, WorkersOK, tables, counters
    <3>3. CASE Exit(w) \/ Crash(w)
      BY <3>3 DEF Exit, Crash, Done, TypeOK, WorkersOK, Busy, InExecute
    <3>4. CASE Shutdown(w) \/ \E j \in JobId : SignalActive(w, j)
      BY <3>4 DEF Shutdown, SignalActive, tables, counters
    <3>5. QED
      BY <1>3, <3>1, <3>2, <3>3, <3>4 DEF QuietStep
  <2>2. QED
    BY <1>1, <2>1 DEF HeldLock
<1>4. QED
  BY <1>2, <1>3

\* The clock does not pass the deadline of a prompt executor.
LEMMA TickHold ==
    ASSUME TypeOK, Prompt, Tick,
           \A v \in Worker : pc[v] \in Busy => HeldLock(v),
           NEW v \in Worker, pc'[v] \in Busy
    PROVE  HeldLock(v)'
<1>1. /\ now' = now + 1
      /\ UNCHANGED <<jobs, runs, locks, pc, cur, deadline>>
  BY DEF Tick, tables
<1>2. pc[v] \in Busy /\ HeldLock(v) /\ pc[v] # "claimed" /\ now < deadline[v]
  BY <1>1 DEF Tick
<1>3. now \in Nat /\ deadline[v] \in Int
  BY <1>2, HeldTypes
<1>4. now + 1 <= deadline[v]
  BY <1>2, <1>3
<1>5. QED
  BY <1>1, <1>2, <1>4 DEF HeldLock

\* Every step preserves the hold of prompt workers.
LEMMA HoldInductive ==
    ASSUME TypeOK, LockInv, PromptInv, Prompt, [Next]_vars,
           NEW v \in Worker, pc'[v] \in Busy
    PROVE  HeldLock(v)'
<1>1. \A u \in Worker : pc[u] \in Busy => HeldLock(u)
  BY DEF PromptInv
<1>2. CASE Operator
  <2>1. Continues
    BY <1>2, OperatorContinues
  <2>2. UNCHANGED <<now, locks, pc, cur, deadline>>
    BY <1>2 DEF Operator, Create, SetEnabled, Cancel, CancelJob, CancelRows, workerVars
  <2>3. pc[v] \in Busy /\ HeldLock(v) /\ cur[v] \in DOMAIN runs
    BY <1>1, <2>2, HeldTypes
  <2>4. /\ runs'[cur[v]].job = runs[cur[v]].job /\ SameLimits
        /\ runs[cur[v]].job \in DOMAIN locks
    BY <2>1, <2>3 DEF Continues, KeptRow, HeldLock
  <2>5. QED
    BY <2>2, <2>3, <2>4, HoldKept
<1>3. ASSUME NEW w \in Worker, Step(w) \/ Fault(w)
      PROVE  HeldLock(v)'
  <2>1. CASE Start(w)
    <3>1. Continues
      BY <2>1, StartContinues
    <3>2. locks' = LiveLocks /\ now' = now /\ deadline' = deadline /\ pc'[v] = pc[v]
      BY <2>1 DEF Start, TypeOK, WorkersOK, Busy, InExecute
    <3>3. QED
      BY <1>1, <3>1, <3>2, LiveLocksHold
  <2>2. CASE SkipMissedSlot(w) \/ SlotAlreadyTaken(w) \/ ClaimNothing(w)
    <3>1. Continues
      BY <2>2, ClaimNoRunContinues
    <3>2. locks' = LiveLocks /\ now' = now /\ deadline' = deadline /\ pc' = pc
      BY <2>2 DEF SkipMissedSlot, SlotAlreadyTaken, ClaimNothing, NothingClaimed, workerVars
    <3>3. QED
      BY <1>1, <3>1, <3>2, LiveLocksHold
  <2>3. CASE ClaimPendingRun(w) \/ ClaimDueJob(w)
    BY <1>1, <2>3, ClaimPendingRunStarts, ClaimDueJobStarts, StartsHold
  <2>4. CASE Outcome(w)
    BY <1>1, <2>4, OutcomeContinues, OutcomeHold
  <2>5. CASE QuietStep(w)
    BY <1>1, <2>5, QuietHold
  <2>6. QED
    BY <1>3, <2>1, <2>2, <2>3, <2>4, <2>5, StepCases
<1>4. CASE Tick
  BY <1>1, <1>4, TickHold
<1>5. CASE UNCHANGED vars
  BY <1>1, <1>5 DEF vars, tables, workerVars, HeldLock
<1>6. QED
  BY <1>2, <1>3, <1>4, <1>5 DEF Next

\* Prompt workers hold their locks throughout.
LEMMA PromptInvHolds == Spec => []PromptInv
<1>1. Init => PromptInv
  BY DEF Init, PromptInv, Busy, InExecute
<1>2. RunningInv /\ PromptInv /\ [Next]_vars => PromptInv'
  BY HoldInductive DEF RunningInv, PromptInv
<1>3. QED
  BY <1>1, <1>2, RunningInvHolds, PTL DEF Spec

\* If executors return by their deadline, no two Schedulers execute the same job
\* at the same time, for every lock TTL, timeout and clock resolution.
THEOREM MutualExclusion == Spec => [](Prompt => NoOverlap)
<1>1. PromptInv => (Prompt => NoOverlap)
  BY DEF PromptInv, NoOverlap, HeldLock, Busy, InExecute
<1>2. QED
  BY <1>1, PromptInvHolds, PTL
=============================================================================
