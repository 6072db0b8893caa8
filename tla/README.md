# A formal model of mosaid

mosaid is a personal assistant in Go that runs on one phone: a Telegram bot with
one owner, a durable inbox and outbox in SQLite, a scheduler for jobs, tools
behind a policy and approvals, skills, and a few integrations (MCP servers,
images, Instagram, GitHub). This directory holds TLA+ modules translated from
its source, TLC configurations that check them on small instances, and proofs
that TLAPS checks for every value of the constants.

`PROJECT.json` lists the runs, which lines of the code every definition models,
the hazards the properties are aimed at, and the theorems.

## 1. The system

| Part | State | Operations | What is hard |
|---|---|---|---|
| Scheduler store (`internal/scheduler/store.go`) | tables `scheduled_jobs`, `scheduled_runs`, `job_locks` | Create, SetEnabled, Cancel, Claim, Complete, Deny, MarkCancelled, Fail, Requeue, RecoverStale | several processes claim; locks expire under a running job; outcomes of workers that lost their lock; timestamps compared as text |
| Scheduler loop (`scheduler.go`, `policy_gate.go`) | active runs with their contexts | RunOnce, execute, CancelJob, Run | cancel, deadline and shutdown race the executor; crash between claim and outcome |
| Telegram gateway (`internal/telegram`) | offset, current batch, current row | Run, drainInbox, drainOutbox | offset confirms what may not be stored; errors ignored; restart anywhere |
| Inbox and outbox (`internal/storage/db.go`) | `telegram_updates`, `inbox_messages`, `outbox_messages` | Open, Ingest, ClaimInbox, CompleteWithOutbox, FailInbox, ClaimOutbox, OutboxSent, OutboxFailed | redelivery, retries, recovery of claimed rows |
| Agent (`internal/agent`) | the active request, its budget | Handle | handled again after errors and restarts, with effects that stay |
| Sessions and memory (`storage/session.go`, `internal/memory`) | session file; `memory_candidates`, `memory_items`, search index | Append, Recent; Candidate, Approve, Remember, Forget | torn lines; two transactions for one command |
| Approvals (`internal/approval`) | `approval_requests`, `approval_uses` | Create, Resolve, ResolveToken, AuthorizeReceipt | expiry boundaries, single use, concurrent use |
| Audit (`internal/audit`) | hash chain `audit_entries` | Append, Verify | written after the effect, best effort |
| Policy and tool registry (`internal/policy`, `internal/tools`) | registered tools | Register, Execute | policy, budget and approval in order, several callers |
| Skills (`internal/skills`) | manifests, builtin handlers | Add, RegisterBuiltin, Resolve, Execute | a skill must stay within its manifest; one token for several steps |
| MCP client (`internal/mcpclient`) | configurations, one session per server | Register, InvokeMCP, Reset, Close | shared session, retries of calls that may have taken effect |
| Instagram (`internal/instagram`) | `instagram_drafts`, staged media | Prepare, RequestApproval, PublishWithToken, PublishApproved, Resume, Recover, CleanupExpired | external effects between transactions; interrupted publication |
| Limits (`internal/security`) | budgets, token buckets, lock directory | consume, Allow, Acquire, Release | the clock may be set back; lock directory and pid file are two steps |
| Images, research, workspace, process, git, GitHub, config, secrets, logging, health, model client | little or none | validation and I/O | out of reach of a model checker for the most part |
| Phone kit (`phase14-android-package`) | process tree | supervisor.sh | restarts |

How they interact: the gateway asks the flood guard about every message of the
owner and calls the agent for every inbox message; the agent decides approvals,
keeps memories and calls the model under a budget. Skills call the tool registry
and the MCP client; both, and Instagram, take approvals from the approval
manager. Scheduler, gateway, approvals, audit, memory and Instagram share one
SQLite database over a single connection (`SetMaxOpenConns(1)`), so each of
their transactions is one atomic step. Scheduler, skills, MCP client and
Instagram are libraries at this commit: `cmd/mosaid` takes the singleton lock and
starts the gateway with the agent.

## 2. Modules

| Module | Models | Extends | Kind |
|---|---|---|---|
| `SqlTime` | `formatTime` and the SQL comparison of timestamps, `NextRecurring`, `boundedBackoff` | | operators |
| `Scheduler` | store, loop and policy gate of the scheduler | `SqlTime` | specification |
| `Delivery` | what the gateway promises for one message | | abstract specification |
| `Gateway` | gateway loop, inbox, outbox; refines `Delivery` | `SqlTime` | specification |
| `MessageGuard` | `MessageGuard.Allow` | | specification |
| `Budget` | `Budget.consume` and the estimates of tokens and cost | | operators |
| `Audit` | `Logger.Append`, `Logger.Verify` | | operators |
| `Policy` | `Validate`, `Evaluate` | | operators |
| `Approval` | the approval manager | `Audit` | component |
| `Tools` | the tool registry | `Approval`, `Budget`, `Policy` | component |
| `Agent` | `Handle`, session file, memory, next to callers of tools | `Tools` | specification |
| `Mcp` | the MCP session manager | `Tools` | component |
| `Skills` | the skill registry over tools and MCP | `Mcp` | specification |
| `Instagram` | the publish workflow with its approvals | `Approval` | specification |
| `Singleton` | `Acquire`, `Release` | | specification |
| `SchedulerProofs`, `GatewayProofs`, `AgentProofs`, `InstagramProofs`, `SkillsProofs` | theorems about the specification of that name | it | proofs |
| `MessageGuardProofs` | theorems about `MessageGuard` and the operators of `SqlTime` | `MCOperators` | proofs |
| `ApprovalProofs`, `ToolsProofs` | lemmas about the components that `Agent`, `Skills` and `Instagram` share | `Approval`, `Tools` | proofs |
| `MCOperators`, `MCScheduler`, `MCGateway`, `MCAgent`, `MCSkills`, `MCInstagram` | reference definitions, jobs, tools, scenarios of the runs | | instances |

Definitions that start with `Bad` are plausible mistakes in the definition after
them. No specification uses them; put in its place they make the property
listed in `PROJECT.json` fail.

### SqlTime

Stores write times with `time.RFC3339Nano` and let SQLite compare the text. The
layout drops trailing zeros, and `.` sorts before `Z`: `12:00:00Z` sorts after
`12:00:00.5Z`. An instant is a number of ticks, and `TextKey` gives its place in
the text order. The model clock has 2 ticks per second in the scheduler's runs
so that this matters there, and in Instagram's. `boundedBackoff` never overflows for the backoffs
`normalizeJob` lets through (at most 24 hours, times 2^10).

### Scheduler

| Variable | Code |
|---|---|
| `now` | `Store.clock` |
| `jobs`, `runs`, `locks` | the three tables; columns nothing reads back are left out |
| `pc`, `cur`, `deadline`, `ctxErr` | where each Scheduler is in `Run`/`execute`, the run it holds, its context |
| `cancelling` | a `CancelJob` between its transaction and its signal |
| `stopping` | the context given to `Run` is cancelled |

Each Store operation is one action. The transaction `Store.Cancel` (`CancelRows`)
is run by whoever has the Store (`Cancel`) or by a Scheduler that signals its
contexts afterwards (`CancelJob`, `SignalActive`). `Claim` is split by its outcome
(`ClaimPendingRun`, `SkipMissedSlot`, `ClaimDueJob`, `SlotAlreadyTaken`,
`ClaimNothing`); each of them includes the sweep that every `Claim` commits
(`LiveLocks`, `SweptRuns`). `execute` is `Begin`, `Authorize` or `Deny`, then one
of `Complete`, `Fail`, `CheckCancelled` with `MarkCancelled` or `Requeue`. An
outcome whose run is no longer running makes `Run` return an error, except in
`Requeue`, as in the code. `Crash` also stands for a failed transaction, which
makes `Run` return.

`Prompt` says that executors return by their deadline. Go cannot enforce that,
so runs and theorems say where they need it: only `NoOverlap` does.
`HonestCancel` says that an executor returns `context.Canceled` only when its
context is cancelled. Without it an executor gets its attempt back every time
and its run is retried at once, for ever; liveness needs it, safety does not.

### Gateway and Delivery

| Variable | Code |
|---|---|
| `inbox`, `outbox` | `inbox_messages` (with `telegram_updates`), `outbox_messages`; row n has id n |
| `pc`, `offset`, `batch`, `cur` | the loop of `Run` and its drains |
| `queue`, `written`, `delivered` | Telegram: unconfirmed updates, messages written, how often the chat saw a reply |
| `limited`, `unstored` | history: refused by the guard, `Ingest` failed |

Telegram is external: `getUpdates` confirms everything below its offset and
returns the first `BatchLimit` remaining updates; `sendMessage` may deliver and
still report an error. The handler returns a reply or an error, freely (what it
does is in `Agent`); a request over its budget is a reply as well. A database
call may fail (`MaxFaults`), with the consequences the code gives it: `FailInbox`
ignores the error of its SELECT and continues with zero attempts, and the loop
ignores the errors of `FailInbox`, `OutboxFailed` and `OutboxSent`. A shutdown is
a death (`Die`): once the context is cancelled, every later database call fails.

`Delivery` is the promise: a message is accepted at most once and only from the
owner, is answered or given up, and its reply is sent or abandoned; settled
stays settled; the chat may see a reply more than once. `Gateway` maps each
message's rows to that state (`StatusOf`) and is checked to implement it.

### MessageGuard

`bucket` is the user's entry of the map; a message costs `TicksPerMinute` units so
that the float arithmetic of the code becomes exact. `Allow` takes its time
through `UTC()`, which drops Go's monotonic reading, hence `SetBack`. The checks of
size and encoding refuse a message before the bucket is looked at and are left
out. `forward` and `waited` are history: the time that has really passed, and how
long somebody has been waiting.

### Approval and Audit

`requests` and `uses` are the two tables; `trail` is the audit log. Each of
`Create`, `Decide` or `Expire` (the outcomes of `Resolve`) and `AuthorizeReceipt` is
one transaction. A decision is accepted up to and including the instant of
expiry, a use only before it, as in the code. The audit rows of `Create` and
`Resolve` follow in a transaction of their own whose error is ignored, so a row
may be missing (`lost`). A hash is what was hashed: SHA-256 is taken to be free of
collisions. Tokens are numbered in the order they are issued; guessing one is
not modelled.

### Tools, Policy, Budget

`Execute` is `ExecuteAllowed`, `RequestApproval`, `ExecuteApproved` or
`ExecuteRefused` up to and including the approval, then `Run` for the handler.
What precedes the approval tables touches nothing that callers share. Each
caller has a budget of its own, charged even for a call that is refused.
`Evaluate` is a chain of conditions, tried in the order of the code: the guards
overlap.

### Agent

| Variable | Code |
|---|---|
| `text`, `status`, `attempts` | the inbox, as far as `Handle` sees it |
| `pc`, `cur`, `spent`, `answer`, `cancel` | where `Handle` is, its budget, the model's answer, `a.cancel` |
| `history`, `appends` | lines of the session file; lines that should be there |
| `candidates`, `items`, `nextItem`, `fts` | the memory tables, the AUTOINCREMENT counter, the rows of the search index: an id and whose words it has |
| `scenario` | which messages, failures and restarts one behaviour has |

Each transaction and each file operation of `Handle` is a step. A write to the
session file that fails may leave the beginning of a line; the next line is then
glued to it. The gateway's retries and the reset in `Open` bring a message back
to `Handle`. `Forget` ignores an error of the search index, and finds the row of the
index by way of `memory_items`: one that was left there stays, also when the
command is repeated (`Unindexed`). `Agent` runs next to callers of the tool registry, so that the
owner's `/approve` and `/deny` meet calls in any order.

### Instagram

`draft` is the row, `copy` what a worker has read of it: the two drift apart, and
that is what the properties are about. `PublishApproved` checks the receipt
against the row, `MarkAuthorized` updates it later. `Resume` is `Get`, `Claim`, `Stage`,
`SaveStaging`, `CreateContainer`, `SaveContainer`, `Poll`, `Check`,
`PublishContainer`, `Complete`, `Cleanup`, `ClearStaging`, with the deferred `Fail`.
Every database call and every call of a provider is a step, any of them may
fail (a provider's also after it has taken effect), and a worker may die
anywhere. `CleanupExpired` (`Janitor`) and `Recover` run at any time. `ExpiredStaging`
compares the expiry of a medium as text, `Resume` compares instants: two ticks are
a second here as well.

External, from how the code uses it: the Graph API makes one container and one
post per idempotency key, and the stager holds media until they are cleaned up.
One draft is enough, since no operation relates two. The service's audit rows
are left out, except that the one in `PublishApproved` must be written.

### Mcp and Skills

`Mcp` has one server. `InvokeMCP` is `Invoke`, then a loop of `GetSession`,
`Connect`, `PutSession`, `Send`, `Receive` and, after an error, `TakeSession` and
`CloseSession` (the two halves of `Reset`): every section under `m.mu` is a step.
The SDK's session is external: open until it is closed or its context cancelled.
`Skills` puts `Add`, `RegisterBuiltin`, `Resolve` and `Execute` on top. A manifest's
syntax, limits and integrity hash are one flag; the relations between what it
declares (`ValidManifest`) are not. A request asks for a version or for the newest
one. A declarative skill ends with the first error of a step; a builtin's steps
are what its handler tries, one call after the other, and the handler may ignore
every error and succeed (`StepFails`, `Finish`).

### Singleton

`dir` is the directory `runtime.lock` with its pid file, each system call a step;
`RemoveAll` is one. A process may be killed anywhere and started again.

## 3. Runs

| Run | Instance | Checks |
|---|---|---|
| `operators` | 5 ticks per second, instants up to 14; a guard of burst 2 and 3 messages per minute over a clock that is set back | text order, `NextRecurring` and backoff against reference definitions; `RateBound`, `PatienceIsRewarded` |
| `scheduler_retry` | one job (plain, recurring or publish), two Schedulers, one crash or shutdown, one operator call, slow and dishonest executors | `OneRunningPerJob`, `AttemptsWithinBudget`, `TerminalIsFinal`, `NoStartAfterCancel` |
| `scheduler_slots` | two jobs out of recurring (skip and run once), one-time, disabled and refused ones | `OneRunPerSlot`, `NoSlotLost` |
| `scheduler_overlap` | two prompt Schedulers, a job whose timeout exceeds the lock TTL | `NoOverlap` |
| `scheduler_live` | a job that is retried next to one that is due every second, one crash, fairness | `LocksAreReleased`, `DueSlotsAreTaken` |
| `gateway` | owner, stranger, owner; one death; one failing call; two attempts | consistency of the tables, `NothingForgotten`, refinement of `Delivery` |
| `gateway_live` | an update without sender before two of the owner, one death, fairness | `MessagesSettle`, `OwnerIsHeard` |
| `agent` | four scenarios: decisions against calls of tools, the same with a failure and a restart, a conversation, memories | `UsedInTime`, `RunsWereApproved`, `DecisionIsFinal`, `AuditIsTamperEvident`, `HistoryIsKept`, `AnswersWithinBudget`, `RememberedIsFound` |
| `instagram` | two workers, two contents, one approval, two attempts, one fault, two media; 2 ticks per second | `OneApprovedPost`, `PublishedIsFinal`, `OnePublisherUnlessRecovered`, `MediaInUseIsKept` |
| `skills` | two callers; declarative skills, builtins that go on after an error, an older version, a pre-release, MCP skills; a session that fails, is reset or closed | `SkillsStayInScope`, `OneApprovalPerExecution`, `NoSessionLost`, `FailureHasACause`, `ExecutionsAreCovered` |

Two runs state what a document or a test of the repository says, and TLC shows a
behaviour of the code that does otherwise:

| Run | Statement | Behaviour |
|---|---|---|
| `gateway_loss` | at-least-once inbox (`docs/STATUS.md`) | a failed `Ingest` is confirmed by the next poll, and the message is lost |
| `singleton` | a second `Acquire` fails while the first is held (`singleton_test.go`) | between `Mkdir` and the pid file the lock looks stale: a second process removes it and takes it as well |

What the models show besides, without a run of its own, because the code's
documents accept it or say nothing:

- the chat may see a reply twice (`Delivery` allows it; the threat model claims
  no exactly-once delivery), and every death while a message is handled grants
  one attempt beyond `MaxAttempts` (`AttemptsBounded` says so);
- when handling fails and `FailInbox` fails too, the row stays `running` until
  the next start, as does a reply whose `OutboxSent` or `OutboxFailed` fails: one
  row for each failed call and no more (`ClaimedRowsAreHeld`);
- a run of a job cancelled while it executes may go back to `pending` and stay
  there; it never starts again (`NoStartAfterCancel`);
- a write task interrupted by a crash is retried within its attempts, while
  `docs/architecture/proposed-architecture.md` wants it to go back to review;
- a slot may be claimed up to a second early, by text order; the next claim then
  meets the idempotency key and only then moves the job on;
- `/stop` never finds a request: `a.cancel` is set only while `Handle` waits for
  the model, and the gateway handles one message at a time;
- a line too long for the scanner makes `Recent` fail from then on;
- a torn line in the session file costs the line after it as well, no more;
- a container that ended in error is polled again by every later attempt;
- `CleanupExpired` may pick the medium of a failed draft up to a second before it
  expires, by text order. A worker that claims the draft in that second still
  finds the medium good, reuses it, and it is removed under its container call;
  `MediaInUseIsKept` therefore asks for a second to live, and without that
  condition TLC finds this behaviour;
- a declarative skill with two steps under approval cannot succeed, and its first
  step has taken effect; the handler of a builtin may succeed without its second
  (`OneApprovalPerExecution`); nothing in the MCP client asks for the approval it
  needs;
- of two versions that differ in their pre-release only, `Resolve` returns now one
  and now the other;
- a fault in one MCP invocation may fail another, because `Reset` closes the
  session they share (`FailureHasACause` says "for it or for another").

### Bounds

Two Schedulers and one or two jobs are enough for every conflict the tables can
have: locks and keys relate one job to one holder. `MaxTime` leaves room for a
lock to expire and the job to be claimed again (lock TTL 1, timeouts 1 and 2,
backoff 1 ticks), and for a retry of an inbox row (2 seconds after the first
failure). `MaxAttempts` 2 has a first, a last and no further attempt.

Two callers or workers suffice where a property relates two of them (a token, a
session, a draft). One approval that two contents compete for shows a use with
the wrong binding; its TTL lies below `MaxTime`, so that it expires. One fault at
any call, or one death, shows every single failure; the MCP scenarios with two
attempts show what the retry meets, and what the other caller meets of it.
The liveness run of the scheduler has one Scheduler, which crashes: the lock that
has to be released, or waited for, is its own or that of its earlier life. What
live Schedulers do to each other's locks is in the three safety runs; with a
second one the behaviours are too many for the liveness check. `MaxSessions` 5 is a session for each attempt of two callers and one to spare. The
session window of 2 lines, a line limit of 9 and a token limit of 4 make each
limit reachable by the messages of the scenario. The theorems remove these bounds for
every safety property.

Runs with `CHECK_DEADLOCK FALSE` may really stop: every message is handled, every
attempt used, every call made.

### Fairness

The clock advances; a Scheduler that is down is started again and a live one
keeps taking its next step, executors return eventually because their context
has a deadline; the gateway's loop always takes its next step, since every
call in it has a timeout, and a dead process is restarted (the phone kit's
supervisor). Operators, users, crashes and failing calls are never required.
The liveness properties stop at the model's last tick: what is due later is out
of sight, and they say so. `Agent`, `Instagram` and `Skills` promise nothing
eventually: nobody in the repository calls `Resume` or an MCP tool by itself.

## 4. Proofs

Every safety property that a passing run checks is a theorem as well, for every
value of the constants: the run shows it on a small instance and shows that it
can fail (its mutant), the theorem removes the bounds. The assumptions are the
named ASSUMEs of the modules, which TLC evaluates on every run: ids, times,
limits and prices are numbers, limits that the constructors refuse when they are
not positive are positive, inputs have the types of the Go structs.

| Module | Theorem | States |
|---|---|---|
| `SchedulerProofs` | `TypeCorrect` | `Spec => []TypeOK` |
| | `Exclusion` | `Spec => []OneRunningPerJob` |
| | `Budget` | `Spec => []AttemptsWithinBudget` |
| | `SlotUniqueness` | `Spec => []OneRunPerSlot` |
| | `Finality` | `Spec => TerminalIsFinal` |
| | `CancelledStaysDown` | `Spec => NoStartAfterCancel` |
| | `SlotsAreKept` | `Spec => NoSlotLost` |
| | `MutualExclusion` | `Spec => [](Prompt => NoOverlap)` |
| `GatewayProofs` | `GatewayTypes` | `Spec => []TypeOK` |
| | `OneReply` | `Spec => []ReplyIffCompleted` |
| | `SentReachedTheChat` | `Spec => []SentWasDelivered` |
| | `AttemptsArePaidFor` | `Spec => []AttemptsBounded` |
| | `NoRowIsStranded` | `Spec => []ClaimedRowsAreHeld` |
| | `OffsetIsSafe` | `Spec => []NothingForgotten` |
| | `GatewayImplementsDelivery` | `Spec => ImplementsDelivery` |
| `AgentProofs` | `ApprovalsAreUsedInTime` | `Spec => []UsedInTime` |
| | `AuditShowsTampering` | `Spec => []AuditIsTamperEvident` |
| | `DecisionsAreFinal` | `Spec => DecisionIsFinal` |
| | `HandlersWereApproved` | `Spec => []RunsWereApproved` |
| | `MemoryIsFound` | `Spec => []RememberedIsFound` |
| | `HistoryKept` | `Spec => []HistoryIsKept` |
| | `AnswersArePaidFor` | `Spec => []AnswersWithinBudget` |
| `InstagramProofs` | `OnePublisher` | `Spec => []OnePublisherUnlessRecovered` |
| | `PublishedStaysPublished` | `Spec => PublishedIsFinal` |
| | `OnePostAsApproved` | `Spec => []OneApprovedPost` |
| | `MediaAreKept` | `Spec => []MediaInUseIsKept` |
| `SkillsProofs` | `SkillsAreConfined` | `Spec => []SkillsStayInScope` |
| | `SkillHandlersWereApproved` | `Spec => []RunsWereApproved` |
| | `OneApprovalEach` | `Spec => []OneApprovalPerExecution` |
| | `SessionsAreAccountedFor` | `Spec => []NoSessionLost` |
| | `FailuresHaveACause` | `Spec => []FailureHasACause` |
| | `ServerExecutionsAreCovered` | `Spec => []ExecutionsAreCovered` |
| `MessageGuardProofs` | `RateKept` | `GuardSpec => []RateBound` |
| | `PatiencePays` | `GuardSpec => []PatienceIsRewarded` |
| | `TextOrderHolds` | `GuardSpec => []TextOrderWithinASecond` |
| | `NextSlotHolds` | `GuardSpec => []NextRecurringIsNextSlot` |
| | `BackoffHolds` | `GuardSpec => []BackoffDoublesUpToCap` |

### Scheduler

`TypeOK` is inductive by itself. `OneRunningPerJob` is not: what
keeps a second run from starting is that a claim needs the job's lock to be
free, and the sweep has just turned every running run without a lock into a
pending one. `RunningInv` therefore adds `LockInv`: a running run whose lock is
live is covered by it. All actions but the two claims are shown to be steps that
start nothing (`Continues`: rows stay, end or go back to pending, no lock
appears), and the claims to be `Starts(w, r)`: one run of an unlocked job that is
not cancelled begins with a fresh lock. Exclusion, budget, slot uniqueness and
`CancelledStaysDown` are then arguments about these two kinds of step only.
`SlotsAreKept` looks at the three ways in which a claim moves a job past a slot
(`TakenSlotKept`): each leaves a run with that slot's key. `MutualExclusion` needs
`PromptInv` as well: a worker that holds a run owns the job's lock, and the lock
outlives its deadline by a second. That second is needed because the text order
may take a lock for expired up to a second early (`SqlLeqWithinASecond`).

### Gateway

Every action is first shown to be a `RowStep`: one row is added, claimed, settled
or put back, or none changes. Four invariants are shown over these steps.
`RowsInv`: the rows of a table belong to different messages, inbox and outbox
agree, and the row in hand is claimed; from it follow `OneReply` and
`SentReachedTheChat`. `TriesInv` counts the attempts of each row against the
maximum, the deaths and the failed calls. `HeldInv` counts the claimed rows that are
not in hand against the failed calls: every kind of step adds one at most, and
only with a failure. `PollInv`: whatever lies below the offset, is gone from
Telegram's queue, or precedes an update of the current batch has been dealt with
or is in the batch before it. For this the batch must be ascending, so that the
enumeration of a finite set in order has to be shown to exist. The refinement
maps each `RowStep` to the step of `Delivery` that it is, message by message.

### Agent, approvals and tools

`ApprovalProofs` and `ToolsProofs` say what any step of the approval manager
(`ApprovalStep`) and of the registry (`RegistryStep`) preserves: `ApprovalInv`
(requests and uses are well formed, a use belongs to an approved request, in
time), `LogInv` (every row of the audit chain hashes its predecessor) and
`RegistryInv` (every run is covered). A specification that composes them only has
to show that its steps are of these kinds. `RememberInv` ties the label of `Handle` to
the message in hand and says that a reply to `/remember` has its memory before it
is stored. `IndexInv`: every row of the search index has an id below the counter
and, while there is a memory of that id, the words of that memory; for this the
ids must never be used again (`AUTOINCREMENT` in `db.go`).

`HistoryInv` is about the session file. Its counting part says that the lines
lost, and one more while the file ends in a torn line, are at most two for every
failure: the gluing of the next line is paid for in advance. While nothing has
failed, every line is readable, the last one is the message in hand from `Chat`
until the model answers, and what the request has spent is exactly one step and
the history it was asked with; so an answer that the budget accepts is paid for
together with that history.

### Instagram

The invariants are about copies that drift from the row. `PublishInv`: a copy has
the content of the row, a worker that sees the draft published is right, and as
long as `Recover` has not interfered the row is being published by the one worker
that claimed it. `GrantInv`: authorization, publication time, container and post
all belong to the approved content. `MediaInv`: the medium that the row or a copy
will be published from is staged and `CleanupExpired` has not picked it, as long as
it has a second to live, or had one when its worker looked; by
`SqlLeqWithinASecond` the text order picks none of these.

### Skills and the MCP client

`ScopeInv` says that what runs is a registered manifest that was valid. `SkillsInv`
follows what was run for each execution (`DidInv`): the tools are registered, so
that the policy's answer is final; at most one call needed an approval, and while
the execution lasts its token is used then; and a declarative skill has run every
step before the one it is at (`StepsDone`).
`SessionsInv` has the types of the client, `NoSessionLost` and `TroubleInv`: as long
as nothing has gone wrong, every caller with a session has the current one.
`ServerInv` numbers the executions (`IdsInv`), counts what the server has executed
for each attempt (`TimesInv`) and ties every invocation under approval to the use
of its own token (`CoverInv`).

### Message guard and operators

The rate bound alone is not inductive. `Paid` adds what is still owed: the units
in the bucket and those the next look at it will add (`Pending`, none while the
clock is behind the last message). Setting the clock back only lowers `Pending`, a
tick raises both sides alike, and `Allow` moves units from one summand to another.
`Earned`, for `PatiencePays`, is the converse: what has been waited for is in the
bucket or pending. Of `formatTime` the proof distinguishes the texts with and
without a fraction, for the resolutions that `TicksAssumption` allows (fractions
of one digit); `boundedBackoff` is shown to satisfy the recursive
description, which therefore has a solution, and eleven steps of it suffice.

### Recursive definitions

The provers cannot use the library's induction theorems, which take an operator.
What needs induction is proved with a least counterexample: a set of numbers that
is not empty has a least element (`LeastElement`, from the theorem on well-founded
relations), and `Passes` and `RecursionExists` of `AgentProofs` are first-order
consequences of it. With them `Readable` and `Characters`, which are recursive
functions, and the enumeration behind a batch are reasoned about.

### What the proofs found

`Policy!Evaluate` was a CASE whose guards overlapped: TLC took the first that
held, as the code does, but the formula said less. It is a chain of conditions
now. Types that were only in comments became assumptions (`TextsAssumption`,
`TimesAssumption`, `ScenariosAssumption`, `IntervalsAssumption`).

### Model-checked only

Liveness (`LocksAreReleased`, `DueSlotsAreTaken`, `MessagesSettle`, `OwnerIsHeard`):
fairness and ENABLED are out of the prover's reach. The two statements that the
code does not keep (`AtLeastOnce`, `OneHolder`) have counterexamples instead.

## 5. Plan

1. Done: every module of section 2; theorems for every safety property of the
   passing runs.
2. Next, proofs: what does hold of `Singleton` (the owner of the pid file is alone
   as long as no process meets a directory without one); attempts and exclusion
   of `Scheduler` seen from an abstract specification of a job's life, with the
   refinement proved.
3. Later: several MCP servers, the artifact store of images.

## 6. Not modelled

Clocks that jump backwards, except in `MessageGuard`; a commit that takes effect
although it reports an error; corrupt JSON in a stored row; migrations, backup
and restore; the gateway without a store; contents of messages, prompts and
replies; formatting and logging; a handler of a builtin skill that calls several
tools at once; schemas, checksums, paths and TLS pins of MCP
servers and skills; what `meta.go` sends over HTTP. The remaining parts (images,
research, workspace and process tools, git, GitHub, configuration, secrets,
health, model client, phone kit) validate input around a single external call or
a file and keep no state between calls that another step could disturb;
`PROJECT.json` lists each with its reason.
