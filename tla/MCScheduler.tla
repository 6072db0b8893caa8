---------------------------- MODULE MCScheduler ----------------------------
(***************************************************************************)
(* Instances of Scheduler for TLC: which jobs may be created.              *)
(***************************************************************************)
EXTENDS Scheduler, TLC

\* A job as a caller passes it to Create, most fields left to normalizeJob.
Input(id, next) ==
    [id |-> id, key |-> 0, kind |-> "", every |-> 0, missed |-> "",
     class |-> "", risk |-> "", ref |-> FALSE, max |-> 2, backoff |-> 1,
     timeout |-> 1, next |-> next, enabled |-> TRUE]

Recurring(id, next, every, missed) ==
    [Input(id, next) EXCEPT !.kind = "recurring", !.every = every, !.missed = missed]

\* One job due in the middle of the first second: an ordinary one, one that
\* recurs, or one to publish something, which needs an approval.
RetriedJob == {Input(1, 1), Recurring(1, 1, 3, ""),
               [Input(1, 1) EXCEPT !.class = "publish", !.ref = TRUE]}

\* A job that skips missed slots and one that runs the latest missed slot once,
\* one-time jobs competing with them, and inputs that Create must refuse.
MixedJobs == {Recurring(1, 1, 2, "skip"),
              [Recurring(2, 1, 3, "") EXCEPT !.max = 1],
              [Input(2, 0) EXCEPT !.max = 1],
              [Input(1, 0) EXCEPT !.key = 2, !.enabled = FALSE],
              [Input(2, 0) EXCEPT !.every = 1],
              [Input(1, 0) EXCEPT !.class = "publish"]}

\* A job that is retried, and one that is due at the same time and every second
\* from then on.
CompetingJobs == {Input(1, 0), [Recurring(2, 0, 2, "") EXCEPT !.max = 1]}

OverlapJobs == {[Recurring(1, 1, 2, "") EXCEPT !.timeout = 2], Input(1, 0)}

WorkerSymmetry == Permutations(Worker)
=============================================================================
