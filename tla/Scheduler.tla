----------------------------- MODULE Scheduler -----------------------------
(***************************************************************************)
(* The durable job scheduler: the tables scheduled_jobs, scheduled_runs    *)
(* and job_locks behind Store, and the Scheduler processes that poll them. *)
(*                                                                         *)
(* Every Store operation is one SQLite transaction on a single connection, *)
(* hence one step.  Between the transactions of one Scheduler (claim,      *)
(* authorise, execute, record the outcome) anything may happen: another    *)
(* Scheduler works on the same tables, an operator cancels the job, the    *)
(* process shuts down or dies, time passes.                                *)
(***************************************************************************)
EXTENDS SqlTime, Sequences

CONSTANTS
    JobId,          \* values of scheduled_jobs.id, ordered as SQLite orders them
    Worker,         \* Scheduler instances; a worker's name is its Owner
    JobInputs,      \* the jobs that may be passed to Create
    LockTTL,        \* Scheduler.LockTTL in ticks
    HaveVerifier,   \* PolicyGate.Approvals # nil
    Prompt,         \* executors return when their context ends (see Tick)
    HonestCancel,   \* executors report a cancellation only after one
    MaxTime,        \* bound: the clock stops here
    MaxRestarts,    \* bound: crashes and shutdowns in one behaviour
    MaxCalls        \* bound: calls of SetEnabled and CancelJob in one behaviour

ASSUME JobIdAssumption  == JobId \subseteq Nat
ASSUME LimitsAssumption == /\ LockTTL \in Nat \ {0}
                           /\ MaxTime \in Nat
                           /\ MaxRestarts \in Nat /\ MaxCalls \in Nat
ASSUME ModeAssumption   == {HaveVerifier, Prompt, HonestCancel} \subseteq BOOLEAN

VARIABLES
    now,            \* Store.clock, in ticks
    jobs,           \* scheduled_jobs: job id -> row
    runs,           \* scheduled_runs: the row with id n is runs[n]
    locks,          \* job_locks: job id -> [owner, expires]
    pc,             \* where each Scheduler is in Run / RunOnce / execute
    cur,            \* id of the run it claimed, 0 if none
    deadline,       \* when the context of that run times out
    ctxErr,         \* ctx.Err() of that context
    cancelling,     \* jobs whose CancelJob has committed but not yet signalled
    stopping,       \* the context given to Run is cancelled
    restarts,       \* crashes and shutdowns so far
    calls           \* calls of SetEnabled and CancelJob so far

tables     == <<jobs, runs, locks>>
workerVars == <<pc, cur, deadline, ctxErr, cancelling, stopping>>
counters   == <<restarts, calls>>
vars       == <<now, tables, workerVars, counters>>

----------------------------------------------------------------------------
(***************************************************************************)
(* Rows.  Columns that no operation reads back (input, summaries, audit    *)
(* timestamps) are left out; approval_ref is kept as "is there one".       *)
(***************************************************************************)
Kinds       == {"one_time", "recurring"}
Classes     == {"reminder", "read", "write", "publish"}
Risks       == {"safe", "low", "medium", "high", "critical"}
MissedRules == {"skip", "run_once"}
Terminal    == {"completed", "dead", "denied", "cancelled", "skipped"}
RunStates   == {"pending", "running"} \cup Terminal

Second == TicksPerSecond
Day    == 86400 * Second

JobRow ==
    [key : Nat, kind : Kinds, every : Nat, missed : MissedRules,
     class : Classes, risk : Risks, ref : BOOLEAN,
     max : 1 .. 20, backoff : Nat, timeout : Nat \ {0},
     next : Int, enabled : BOOLEAN, cancelled : BOOLEAN]

RunRow == [job : JobId, sched : Int, state : RunStates, attempts : Nat, avail : Int]

LockRow == [owner : Worker, expires : Int]

\* A run put into another state, to be looked at again from avail on.
Moved(row, state, avail) == [row EXCEPT !.state = state, !.avail = avail]

\* A run at the start of its next attempt, and one whose attempt is given back.
Started(row)  == [row EXCEPT !.state = "running", !.attempts = @ + 1]
Returned(row) == [Moved(row, "pending", now)
                     EXCEPT !.attempts = IF @ > 0 THEN @ - 1 ELSE 0]

\* A table with the row of key k inserted or replaced.
WithRow(table, k, row) ==
    [x \in DOMAIN table \cup {k} |-> IF x = k THEN row ELSE table[x]]

----------------------------------------------------------------------------
(***************************************************************************)
(* normalizeJob: the defaults it fills in and the inputs it refuses.  An   *)
(* empty string field is "", an unset number 0, an unset creation key 0    *)
(* (which becomes the key derived from the id).                            *)
(***************************************************************************)
DefaultTo(value, unset, default) == IF value = unset THEN default ELSE value

DefaultRisk(class) == CASE class = "write"   -> "medium"
                        [] class = "publish" -> "high"
                        [] OTHER             -> "safe"

normalizeJob(in) ==
    LET class == DefaultTo(in.class, "", "read")
    IN  [key       |-> DefaultTo(in.key, 0, in.id),
         kind      |-> DefaultTo(in.kind, "", "one_time"),
         every     |-> in.every,
         missed    |-> DefaultTo(in.missed, "", "run_once"),
         class     |-> class,
         risk      |-> DefaultTo(in.risk, "", DefaultRisk(class)),
         ref       |-> in.ref,
         max       |-> DefaultTo(in.max, 0, 3),
         backoff   |-> DefaultTo(in.backoff, 0, Second),
         timeout   |-> DefaultTo(in.timeout, 0, 60 * Second),
         next      |-> in.next,
         enabled   |-> in.enabled,
         cancelled |-> FALSE]

ValidJob(job) ==
    /\ job.kind = "one_time" => job.every = 0
    /\ job.kind = "recurring" => job.every \in 1 .. 366 * Day
    /\ job.kind \in Kinds /\ job.class \in Classes /\ job.risk \in Risks
    /\ job.missed \in MissedRules
    /\ job.max \in 1 .. 20
    /\ job.backoff \in 0 .. Day
    /\ job.timeout \in 1 .. Day
    /\ job.class = "publish" => job.ref

\* What an input may hold: the fields are typed by the Job struct, the rest
\* is for normalizeJob to judge.
ASSUME InputsAssumption ==
    \A in \in JobInputs :
        /\ in.id \in JobId
        /\ in.key \in Nat /\ in.every \in Int /\ in.next \in Int
        /\ in.ref \in BOOLEAN /\ in.enabled \in BOOLEAN

----------------------------------------------------------------------------
Init ==
    /\ now = 0
    /\ jobs = [j \in {} |-> 0] /\ runs = <<>> /\ locks = [j \in {} |-> 0]
    /\ pc = [w \in Worker |-> "down"]
    /\ cur = [w \in Worker |-> 0]
    /\ deadline = [w \in Worker |-> 0]
    /\ ctxErr = [w \in Worker |-> "none"]
    /\ cancelling = [w \in Worker |-> {}]
    /\ stopping = [w \in Worker |-> FALSE]
    /\ restarts = 0 /\ calls = 0

(***************************************************************************)
(* Operator calls on the Store.                                            *)
(***************************************************************************)

\* Create: a second job with the same id or creation key is refused.
Create(in) ==
    LET job == normalizeJob(in)
    IN  /\ ValidJob(job)
        /\ in.id \notin DOMAIN jobs
        /\ \A j \in DOMAIN jobs : jobs[j].key # job.key
        /\ jobs' = WithRow(jobs, in.id, job)
        /\ UNCHANGED <<now, runs, locks, workerVars, counters>>

\* SetEnabled: refused for a cancelled job.
SetEnabled(j, enabled) ==
    /\ calls < MaxCalls /\ calls' = calls + 1
    /\ ~jobs[j].cancelled
    /\ jobs' = [jobs EXCEPT ![j].enabled = enabled]
    /\ UNCHANGED <<now, runs, locks, workerVars, restarts>>

\* The transaction Store.Cancel: the job ends, and its pending runs with it.
CancelRows(j) ==
    /\ calls < MaxCalls /\ calls' = calls + 1
    /\ jobs' = [jobs EXCEPT ![j].enabled = FALSE, ![j].cancelled = TRUE]
    /\ runs' = [r \in DOMAIN runs |->
                   IF runs[r].job = j /\ runs[r].state = "pending"
                   THEN [runs[r] EXCEPT !.state = "cancelled"]
                   ELSE runs[r]]
    /\ UNCHANGED <<now, locks, pc, cur, deadline, ctxErr, stopping, restarts>>

\* Nothing but the transaction, by whoever has the Store; a Scheduler need not run.
Cancel(j) == CancelRows(j) /\ UNCHANGED cancelling

\* Scheduler.CancelJob, first half.
CancelJob(w, j) ==
    /\ pc[w] # "down" /\ CancelRows(j)
    /\ cancelling' = [cancelling EXCEPT ![w] = @ \cup {j}]

\* CancelJob, second half: the contexts this Scheduler has registered for the
\* job are cancelled.  A run that is claimed but not yet registered, or that
\* another Scheduler executes, is not reached.
SignalActive(w, j) ==
    /\ j \in cancelling[w]
    /\ cancelling' = [cancelling EXCEPT ![w] = @ \ {j}]
    /\ ctxErr' = IF /\ pc[w] \in {"authorizing", "executing"}
                    /\ runs[cur[w]].job = j
                    /\ ctxErr[w] = "none"
                 THEN [ctxErr EXCEPT ![w] = "canceled"]
                 ELSE ctxErr
    /\ UNCHANGED <<now, tables, pc, cur, deadline, stopping, counters>>

----------------------------------------------------------------------------
(***************************************************************************)
(* Housekeeping shared by Claim and RecoverStale.                          *)
(***************************************************************************)

BadLiveLocks == locks

\* DELETE FROM job_locks WHERE expires_at <= now.
LiveLocks == [j \in {k \in DOMAIN locks : ~SqlLeq(locks[k].expires, now)} |-> locks[j]]

\* A run left 'running' although nobody holds its job's lock.
Stale(r) == runs[r].state = "running" /\ runs[r].job \notin DOMAIN LiveLocks

(***************************************************************************)
(* What Claim does to every run before it picks one: a stale run becomes   *)
(* pending again, and a pending run without attempts left dies.            *)
(***************************************************************************)
BadSweptRunsNoRecovery ==
    [r \in DOMAIN runs |->
        IF runs[r].state = "pending" /\ runs[r].attempts >= jobs[runs[r].job].max
        THEN [runs[r] EXCEPT !.state = "dead"] ELSE runs[r]]

BadSweptRunsNoBudget ==
    [r \in DOMAIN runs |->
        IF Stale(r) THEN Moved(runs[r], "pending", now) ELSE runs[r]]

SweptRuns ==
    [r \in DOMAIN runs |->
        LET row == IF Stale(r)
                   THEN Moved(runs[r], "pending", now)
                   ELSE runs[r]
        IN  IF row.state = "pending" /\ row.attempts >= jobs[row.job].max
            THEN [row EXCEPT !.state = "dead"]
            ELSE row]

\* RecoverStale: here the runs of cancelled jobs end as cancelled.
RecoveredRuns ==
    [r \in DOMAIN runs |->
        IF Stale(r)
        THEN Moved(runs[r], IF jobs[runs[r].job].cancelled
                            THEN "cancelled" ELSE "pending", now)
        ELSE runs[r]]

BadLockRowFor(w, job) ==
    [owner |-> w, expires |-> now + IF job.timeout > LockTTL THEN job.timeout ELSE LockTTL]

\* acquireLock: the lock outlives the job's timeout by a second.
LockRowFor(w, job) ==
    [owner   |-> w,
     expires |-> now + IF job.timeout + Second > LockTTL
                       THEN job.timeout + Second ELSE LockTTL]

----------------------------------------------------------------------------
(***************************************************************************)
(* The loop of a Scheduler: Run, RunOnce, Claim.                           *)
(***************************************************************************)

\* Run: recover stale runs once, then enter the loop.
Start(w) ==
    /\ pc[w] = "down"
    /\ locks' = LiveLocks
    /\ runs' = RecoveredRuns
    /\ pc' = [pc EXCEPT ![w] = "idle"]
    /\ UNCHANGED <<now, jobs, cur, deadline, ctxErr, cancelling, stopping, counters>>

BadReadyRuns ==
    {r \in DOMAIN runs :
        /\ SweptRuns[r].state = "pending"
        /\ SqlLeq(SweptRuns[r].avail, now)
        /\ runs[r].job \notin DOMAIN LiveLocks}

\* Pending runs that claimPendingRun may take, and the one it takes.
ReadyRuns ==
    {r \in DOMAIN runs :
        /\ SweptRuns[r].state = "pending"
        /\ SqlLeq(SweptRuns[r].avail, now)
        /\ ~jobs[runs[r].job].cancelled
        /\ runs[r].job \notin DOMAIN LiveLocks}

FirstReady(r) ==
    /\ r \in ReadyRuns
    /\ \A q \in ReadyRuns \ {r} :
          \/ SqlLess(SweptRuns[r].avail, SweptRuns[q].avail)
          \/ TextKey(SweptRuns[r].avail) = TextKey(SweptRuns[q].avail) /\ r < q

BadDueJobs ==
    {j \in DOMAIN jobs :
        /\ jobs[j].enabled /\ ~jobs[j].cancelled
        /\ jobs[j].next = now
        /\ j \notin DOMAIN LiveLocks}

\* Jobs that claimDueJob may take, and the one it takes.
DueJobs ==
    {j \in DOMAIN jobs :
        /\ jobs[j].enabled /\ ~jobs[j].cancelled
        /\ SqlLeq(jobs[j].next, now)
        /\ j \notin DOMAIN LiveLocks}

FirstDue(j) ==
    /\ j \in DueJobs
    /\ \A k \in DueJobs \ {j} :
          \/ SqlLess(jobs[j].next, jobs[k].next)
          \/ TextKey(jobs[j].next) = TextKey(jobs[k].next) /\ j < k

BadKeyTakenNever(j, slot)  == FALSE
BadKeyTakenAlways(j, slot) == TRUE

\* The UNIQUE idempotency key "job:<id>:<slot>" is taken.
KeyTaken(j, slot) == \E r \in DOMAIN runs : runs[r].job = j /\ runs[r].sched = slot

BadClaimed(w, r) ==
    /\ pc' = [pc EXCEPT ![w] = "claimed"]
    /\ UNCHANGED <<now, cur, deadline, ctxErr, cancelling, stopping, counters>>

\* Claim always commits its sweep; worker w goes on with run r.
Claimed(w, r) ==
    /\ pc' = [pc EXCEPT ![w] = "claimed"]
    /\ cur' = [cur EXCEPT ![w] = r]
    /\ UNCHANGED <<now, deadline, ctxErr, cancelling, stopping, counters>>

\* Claim returns no run; the loop sleeps for its poll interval and retries.
NothingClaimed == UNCHANGED <<now, workerVars, counters>>

Polling(w) == pc[w] = "idle" /\ ~stopping[w]

\* claimPendingRun: retry the earliest available run.
ClaimPendingRun(w) ==
    /\ Polling(w)
    /\ \E r \in DOMAIN runs :
          /\ FirstReady(r)
          /\ runs' = [SweptRuns EXCEPT ![r] = Started(@)]
          /\ locks' = WithRow(LiveLocks, runs[r].job, LockRowFor(w, jobs[runs[r].job]))
          /\ Claimed(w, r)
    /\ UNCHANGED jobs

\* The job after one of its slots has been taken: a recurring job moves to
\* its next slot, a one-time job is disabled.
AfterSlot(job) ==
    IF job.kind = "recurring"
    THEN [job EXCEPT !.next = NextRecurring(job.next, job.every, now)]
    ELSE [job EXCEPT !.enabled = FALSE]

MissedAndSkipped(job) ==
    job.kind = "recurring" /\ job.missed = "skip" /\ ~(job.next + job.every > now)

\* claimDueJob on a missed slot of a job that skips missed slots.
SkipMissedSlot(w) ==
    /\ Polling(w)
    /\ ReadyRuns = {}
    /\ \E j \in DOMAIN jobs :
          /\ FirstDue(j) /\ MissedAndSkipped(jobs[j])
          /\ runs' = IF KeyTaken(j, jobs[j].next) THEN SweptRuns
                     ELSE Append(SweptRuns, [job |-> j, sched |-> jobs[j].next,
                                             state |-> "skipped", attempts |-> 0,
                                             avail |-> now])
          /\ jobs' = [jobs EXCEPT ![j] = AfterSlot(jobs[j])]
    /\ locks' = LiveLocks
    /\ NothingClaimed

\* claimDueJob: a fresh run for the slot, already running its first attempt.
ClaimDueJob(w) ==
    /\ Polling(w)
    /\ ReadyRuns = {}
    /\ \E j \in DOMAIN jobs :
          /\ FirstDue(j) /\ ~MissedAndSkipped(jobs[j])
          /\ ~KeyTaken(j, jobs[j].next)
          /\ runs' = Append(SweptRuns, [job |-> j, sched |-> jobs[j].next,
                                        state |-> "running", attempts |-> 1,
                                        avail |-> now])
          /\ jobs' = [jobs EXCEPT ![j] = AfterSlot(jobs[j])]
          /\ locks' = WithRow(LiveLocks, j, LockRowFor(w, jobs[j]))
          /\ Claimed(w, Len(runs) + 1)

\* claimDueJob on a slot that already has its run: the insert is ignored, the
\* job still moves on, and the lock is given back.
SlotAlreadyTaken(w) ==
    /\ Polling(w)
    /\ ReadyRuns = {}
    /\ \E j \in DOMAIN jobs :
          /\ FirstDue(j) /\ ~MissedAndSkipped(jobs[j])
          /\ KeyTaken(j, jobs[j].next)
          /\ jobs' = [jobs EXCEPT ![j] = AfterSlot(jobs[j])]
    /\ runs' = SweptRuns
    /\ locks' = LiveLocks
    /\ NothingClaimed

\* Claim finds nothing to do; its sweep is committed all the same.
ClaimNothing(w) ==
    /\ Polling(w)
    /\ ReadyRuns = {} /\ DueJobs = {}
    /\ runs' = SweptRuns
    /\ locks' = LiveLocks
    /\ UNCHANGED jobs
    /\ NothingClaimed

----------------------------------------------------------------------------
(***************************************************************************)
(* execute: authorise, run the executor, record the outcome.               *)
(***************************************************************************)

\* The run is registered in s.active with its own context.
Begin(w) ==
    /\ pc[w] = "claimed"
    /\ pc' = [pc EXCEPT ![w] = "authorizing"]
    /\ deadline' = [deadline EXCEPT ![w] = now + jobs[runs[cur[w]].job].timeout]
    /\ ctxErr' = [ctxErr EXCEPT ![w] = IF stopping[w] THEN "canceled" ELSE "none"]
    /\ UNCHANGED <<now, tables, cur, cancelling, stopping, counters>>

(***************************************************************************)
(* PolicyGate.Authorize through policy.Evaluate: the possible answers for  *)
(* a job.  High risk and publishing need an approval, whose verification   *)
(* is another component's decision.                                        *)
(***************************************************************************)
NeedsApproval(job) == job.risk \in {"high", "critical"} \/ job.class = "publish"

AuthorizeAnswers(job) ==
    CASE ~NeedsApproval(job)                              -> {TRUE}
      [] NeedsApproval(job) /\ ~(job.ref /\ HaveVerifier) -> {FALSE}
      [] OTHER                                            -> BOOLEAN

Authorize(w) ==
    /\ pc[w] = "authorizing"
    /\ TRUE \in AuthorizeAnswers(jobs[runs[cur[w]].job])
    /\ pc' = [pc EXCEPT ![w] = "executing"]
    /\ UNCHANGED <<now, tables, cur, deadline, ctxErr, cancelling, stopping, counters>>

\* The worker has dealt with its run: back to the loop, or out of it when
\* the Store returned an error.
Done(w, next) ==
    /\ pc' = [pc EXCEPT ![w] = next]
    /\ cur' = [cur EXCEPT ![w] = 0]
    /\ deadline' = [deadline EXCEPT ![w] = 0]
    /\ ctxErr' = [ctxErr EXCEPT ![w] = "none"]
    /\ cancelling' = [cancelling EXCEPT ![w] = IF next = "down" THEN {} ELSE @]
    /\ stopping' = [stopping EXCEPT ![w] = IF next = "down" THEN FALSE ELSE @]
    /\ UNCHANGED <<now, jobs, counters>>

BadRunning(r) == TRUE

Running(r) == runs[r].state = "running"

\* DELETE FROM job_locks WHERE job_id = <job of the run> AND owner = <worker>.
LocksWithout(w, r) ==
    [j \in {k \in DOMAIN locks : ~(k = runs[r].job /\ locks[k].owner = w)} |-> locks[j]]

\* finish (Complete, Deny, MarkCancelled): the run need only be 'running',
\* whoever claimed it; otherwise the error ends the loop.
finish(w, state) ==
    \/ /\ Running(cur[w])
       /\ runs' = [runs EXCEPT ![cur[w]].state = state]
       /\ locks' = LocksWithout(w, cur[w])
       /\ Done(w, "idle")
    \/ /\ ~Running(cur[w])
       /\ UNCHANGED <<runs, locks>>
       /\ Done(w, "down")

Deny(w) ==
    /\ pc[w] = "authorizing"
    /\ FALSE \in AuthorizeAnswers(jobs[runs[cur[w]].job])
    /\ finish(w, "denied")

\* The executor returns nil, whatever became of its context.
Complete(w) == pc[w] = "executing" /\ finish(w, "completed")

\* The executor returns an error that is not a cancellation (its own, or the
\* deadline's): retry after a backoff, or give up.
Fail(w) ==
    LET r   == cur[w]
        job == jobs[runs[r].job]
    IN  /\ pc[w] = "executing"
        /\ ctxErr[w] # "canceled"
        /\ \/ /\ Running(r)
              /\ runs' = [runs EXCEPT ![r] =
                    IF @.attempts >= job.max
                    THEN Moved(@, "dead", now)
                    ELSE Moved(@, "pending", now + boundedBackoff(job.backoff, @.attempts))]
              /\ locks' = LocksWithout(w, r)
              /\ Done(w, "idle")
           \/ /\ ~Running(r)
              /\ UNCHANGED <<runs, locks>>
              /\ Done(w, "down")

\* The executor returns context.Canceled, or any error after its context was
\* cancelled: IsCancelled decides between MarkCancelled and Requeue, which
\* are transactions of their own.
CheckCancelled(w) ==
    /\ pc[w] = "executing"
    /\ HonestCancel => ctxErr[w] = "canceled"
    /\ pc' = [pc EXCEPT ![w] = IF jobs[runs[cur[w]].job].cancelled
                               THEN "marking" ELSE "requeueing"]
    /\ UNCHANGED <<now, tables, cur, deadline, ctxErr, cancelling, stopping, counters>>

MarkCancelled(w) == pc[w] = "marking" /\ finish(w, "cancelled")

\* Requeue gives the attempt back; it never reports that the run is gone.
Requeue(w) ==
    /\ pc[w] = "requeueing"
    /\ runs' = IF Running(cur[w])
               THEN [runs EXCEPT ![cur[w]] = Returned(@)]
               ELSE runs
    /\ locks' = LocksWithout(w, cur[w])
    /\ Done(w, "idle")

----------------------------------------------------------------------------
(***************************************************************************)
(* Shutdown, crashes and time.                                             *)
(***************************************************************************)

InExecute == {"authorizing", "executing"}
Busy      == {"claimed", "marking", "requeueing"} \cup InExecute

\* The context given to Run is cancelled, and with it the run's own.
Shutdown(w) ==
    /\ pc[w] # "down" /\ ~stopping[w]
    /\ restarts < MaxRestarts
    /\ restarts' = restarts + 1
    /\ stopping' = [stopping EXCEPT ![w] = TRUE]
    /\ ctxErr' = IF pc[w] \in InExecute /\ ctxErr[w] = "none"
                 THEN [ctxErr EXCEPT ![w] = "canceled"] ELSE ctxErr
    /\ UNCHANGED <<now, tables, pc, cur, deadline, cancelling, calls>>

\* Run returns nil once its context is cancelled.
Exit(w) ==
    /\ pc[w] = "idle" /\ stopping[w]
    /\ Done(w, "down")
    /\ UNCHANGED <<runs, locks>>

\* The process dies, or one of its transactions fails and is rolled back,
\* which makes Run return the error: the tables stay as they are.
Crash(w) ==
    /\ pc[w] # "down"
    /\ restarts < MaxRestarts
    /\ restarts' = restarts + 1
    /\ pc' = [pc EXCEPT ![w] = "down"]
    /\ cur' = [cur EXCEPT ![w] = 0]
    /\ deadline' = [deadline EXCEPT ![w] = 0]
    /\ ctxErr' = [ctxErr EXCEPT ![w] = "none"]
    /\ cancelling' = [cancelling EXCEPT ![w] = {}]
    /\ stopping' = [stopping EXCEPT ![w] = FALSE]
    /\ UNCHANGED <<now, tables, calls>>

(***************************************************************************)
(* One tick of the clock; contexts that reach their deadline end.  Prompt  *)
(* states what the lock's time to live relies on: a claimed run begins at  *)
(* once, and its outcome is recorded by the time its context ends.         *)
(***************************************************************************)
Tick ==
    /\ now < MaxTime
    /\ Prompt => \A w \in Worker :
                    pc[w] \in Busy => pc[w] # "claimed" /\ now < deadline[w]
    /\ now' = now + 1
    /\ ctxErr' = [w \in Worker |->
                     IF /\ pc[w] \in InExecute
                        /\ ctxErr[w] = "none"
                        /\ deadline[w] <= now + 1
                     THEN "deadline" ELSE ctxErr[w]]
    /\ UNCHANGED <<tables, pc, cur, deadline, cancelling, stopping, counters>>

----------------------------------------------------------------------------
Claim(w) == \/ ClaimPendingRun(w) \/ SkipMissedSlot(w) \/ ClaimDueJob(w)
            \/ SlotAlreadyTaken(w) \/ ClaimNothing(w)

ExecutorReturns(w) == Complete(w) \/ Fail(w) \/ CheckCancelled(w)

Operator ==
    \/ \E in \in JobInputs : Create(in)
    \/ \E j \in DOMAIN jobs :
          \/ \E enabled \in BOOLEAN : SetEnabled(j, enabled)
          \/ Cancel(j)
          \/ \E w \in Worker : CancelJob(w, j)

Step(w) ==
    \/ Start(w) \/ Claim(w) \/ Begin(w) \/ Authorize(w) \/ Deny(w)
    \/ ExecutorReturns(w) \/ MarkCancelled(w) \/ Requeue(w) \/ Exit(w)
    \/ \E j \in JobId : SignalActive(w, j)

Fault(w) == Shutdown(w) \/ Crash(w)

Next == \/ Operator
        \/ \E w \in Worker : Step(w) \/ Fault(w)
        \/ Tick

Spec == Init /\ [][Next]_vars

(***************************************************************************)
(* The clock moves on, a dead process is restarted by its supervisor, a    *)
(* live one keeps going, and executors return in the end (they are given a *)
(* context with a deadline).  Operators and faults owe nothing.            *)
(***************************************************************************)
Fairness == /\ WF_vars(Tick)
            /\ \A w \in Worker :
                  /\ WF_vars(Start(w)) /\ WF_vars(Claim(w)) /\ WF_vars(Begin(w))
                  /\ WF_vars(Authorize(w) \/ Deny(w))
                  /\ WF_vars(ExecutorReturns(w))
                  /\ WF_vars(MarkCancelled(w)) /\ WF_vars(Requeue(w))
                  /\ WF_vars(Exit(w))
                  /\ \A j \in JobId : WF_vars(SignalActive(w, j))

FairSpec == Spec /\ Fairness
----------------------------------------------------------------------------
(***************************************************************************)
(* Properties.                                                             *)
(***************************************************************************)

\* Type correctness of the three tables and of the workers' state; rows refer to
\* existing jobs (the foreign keys), and a busy worker's run exists.
TablesOK ==
    /\ DOMAIN jobs \subseteq JobId
    /\ \A j \in DOMAIN jobs : jobs[j] \in JobRow
    /\ runs \in Seq(RunRow)
    /\ \A r \in DOMAIN runs : runs[r].job \in DOMAIN jobs
    /\ DOMAIN locks \subseteq DOMAIN jobs
    /\ \A j \in DOMAIN locks : locks[j] \in LockRow

WorkersOK ==
    /\ pc \in [Worker -> {"down", "idle"} \cup Busy]
    /\ cur \in [Worker -> Nat]
    /\ \A w \in Worker : pc[w] \in Busy => cur[w] \in DOMAIN runs
    /\ deadline \in [Worker -> Int]
    /\ ctxErr \in [Worker -> {"none", "canceled", "deadline"}]
    /\ cancelling \in [Worker -> SUBSET JobId]
    /\ stopping \in [Worker -> BOOLEAN]

TypeOK == /\ now \in Nat /\ restarts \in Nat /\ calls \in Nat
          /\ TablesOK
          /\ WorkersOK

\* At most one run of a job is 'running', whatever stale workers write: the
\* finishing transactions test only the run's state, never its owner.
OneRunningPerJob ==
    \A q, r \in DOMAIN runs :
        /\ runs[q].job = runs[r].job
        /\ runs[q].state = "running" /\ runs[r].state = "running"
        => q = r

\* A run never uses more attempts than its job allows, although crashes
\* bypass the test in Fail and leave it to the sweep in Claim.
AttemptsWithinBudget ==
    \A r \in DOMAIN runs : runs[r].attempts <= jobs[runs[r].job].max

\* A slot of a job has at most one run, although a job can be found due before
\* its time (text order) and a one-time job can be enabled again.
OneRunPerSlot ==
    \A q, r \in DOMAIN runs :
        runs[q].job = runs[r].job /\ runs[q].sched = runs[r].sched => q = r

\* No two Schedulers execute the same job at the same time, provided executors
\* respect their deadline: a lock is never taken for expired before then.
NoOverlap ==
    \A v, w \in Worker :
        /\ pc[v] = "executing" /\ pc[w] = "executing"
        /\ runs[cur[v]].job = runs[cur[w]].job
        => v = w

(***************************************************************************)
(* What makes these invariants inductive.                                  *)
(***************************************************************************)

\* A 'running' row is covered by a lock on its job, and while a worker owns the
\* lock of the job it works on, the row it claimed is the only one that can be
\* 'running' (it may have been finished by somebody else).
LockInv ==
    /\ \A r \in DOMAIN runs : runs[r].state = "running" => runs[r].job \in DOMAIN locks
    /\ \A w \in Worker :
          LET j == runs[cur[w]].job
          IN  pc[w] \in Busy /\ j \in DOMAIN locks /\ locks[j].owner = w =>
                  \A r \in DOMAIN runs :
                      runs[r].state = "running" /\ runs[r].job = j => r = cur[w]

\* With prompt executors a busy worker owns its job's lock for a full second
\* longer than its context lives, and the context has not outlived its deadline.
HeldLock(w) ==
    LET j == runs[cur[w]].job
    IN  /\ j \in DOMAIN locks /\ locks[j].owner = w
        /\ IF pc[w] = "claimed"
           THEN locks[j].expires >= now + jobs[j].timeout + Second
           ELSE locks[j].expires >= deadline[w] + Second /\ now <= deadline[w]

PromptInv == Prompt => \A w \in Worker : pc[w] \in Busy => HeldLock(w)

\* A finished run is never reopened or rewritten, neither by a worker that
\* lost its lock nor by recovery, cancellation or a late retry.
TerminalIsFinal ==
    [][\A r \in DOMAIN runs : runs[r].state \in Terminal => runs'[r] = runs[r]]_runs

\* A recurring job moves past a slot only in a transaction that leaves a run
\* (started or skipped) for that slot.
NoSlotLost ==
    [][\A j \in DOMAIN jobs :
          jobs'[j].next # jobs[j].next =>
              \E r \in DOMAIN runs' : runs'[r].job = j /\ runs'[r].sched = jobs[j].next]_vars

\* Once a job is cancelled none of its runs is started again, although a late
\* Fail or Requeue may put one back to pending.
NoStartAfterCancel ==
    [][\A r \in DOMAIN runs' :
          (/\ runs'[r].state = "running"
           /\ r \in DOMAIN runs => runs'[r].attempts > runs[r].attempts)
          => ~jobs[runs'[r].job].cancelled]_vars

----------------------------------------------------------------------------
\* The clock stops at MaxTime; a timestamp up to Settled has by then passed in
\* the text order too.
Settled == MaxTime - Second

LockedUntil(j, t) == j \in DOMAIN locks /\ locks[j].expires = t

Waiting(j, t) == /\ j \in DOMAIN jobs
                 /\ jobs[j].enabled /\ ~jobs[j].cancelled /\ jobs[j].next = t

\* A lock never blocks its job for ever: its owner gives it back, or someone
\* removes it after it expired, crashed owners and stale writers included.
LocksAreReleased ==
    \A j \in JobId, t \in 0 .. Settled : LockedUntil(j, t) ~> ~LockedUntil(j, t)

\* A due slot of an enabled job gets its run, or the job is switched off, or it
\* is still locked when the clock stops: no order of retries, crashes and
\* other due jobs starves it.
DueSlotsAreTaken ==
    \A j \in JobId, t \in 0 .. Settled :
        Waiting(j, t) ~> \/ \E r \in DOMAIN runs : runs[r].job = j /\ runs[r].sched = t
                         \/ ~Waiting(j, t)
                         \/ j \in DOMAIN locks /\ locks[j].expires > Settled
=============================================================================
