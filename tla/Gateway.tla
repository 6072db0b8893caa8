------------------------------ MODULE Gateway ------------------------------
(***************************************************************************)
(* The Telegram gateway and its durable inbox and outbox: Gateway.Run with *)
(* drainInbox and drainOutbox over the tables telegram_updates,            *)
(* inbox_messages and outbox_messages of storage.DB.                       *)
(*                                                                         *)
(* One process runs the loop; every database call is one transaction and   *)
(* one step.  Between two steps the process may die (a shutdown looks the  *)
(* same to the tables: its cancelled context makes every later call fail), *)
(* a database call may fail, Telegram may lose a request or a response.    *)
(* Most errors of the database are ignored by the loop, and what that      *)
(* leaves behind is modelled.                                              *)
(***************************************************************************)
EXTENDS SqlTime, Sequences, FiniteSets

CONSTANTS
    MaxUpdates,     \* bound: messages written to the bot
    Origin,         \* where each of them comes from, see Origins
    BatchLimit,     \* most updates that one getUpdates call returns
    MaxAttempts,    \* Gateway.MaxAttempts
    MaxTime,        \* bound: the clock stops here
    MaxRestarts,    \* bound: deaths of the process in one behaviour
    MaxFaults       \* bound: failing calls in one behaviour

Update  == 1 .. MaxUpdates
Origins == {"owner",        \* the owner in a private chat
            "stranger",     \* someone else in a private chat
            "group",        \* not a private chat
            "nameless"}     \* an update without message or sender

ASSUME UpdatesAssumption == MaxUpdates \in Nat /\ Origin \in [Update -> Origins]
ASSUME BoundsAssumption  == /\ BatchLimit \in Nat \ {0} /\ MaxAttempts \in Nat \ {0}
                            /\ MaxTime \in Nat
                            /\ MaxRestarts \in Nat /\ MaxFaults \in Nat

VARIABLES
    now,            \* the clock, in ticks
    written,        \* updates 1 .. written exist
    queue,          \* those Telegram has not seen confirmed
    inbox,          \* inbox_messages: the row with id n is inbox[n]
    outbox,         \* outbox_messages
    pc,             \* where the loop is
    offset,         \* offset of the next getUpdates call
    batch,          \* updates of the last poll still to be looked at
    cur,            \* id of the row claimed by drainInbox or drainOutbox
    delivered,      \* how often the chat has seen the reply to an update
    limited,        \* updates refused by the message guard
    unstored,       \* updates whose Ingest has failed
    restarts,       \* deaths of the process so far
    faults          \* failed calls so far

tables  == <<inbox, outbox>>
memory  == <<pc, offset, batch, cur>>
outside == <<written, queue, delivered>>
record  == <<limited, unstored>>
vars    == <<now, outside, tables, memory, record, restarts, faults>>

(***************************************************************************)
(* Rows.  An outbox row is unique for its idempotency key, which is the    *)
(* update's id; telegram_updates holds the ids of the inbox rows, inserted *)
(* with them in one transaction.                                           *)
(***************************************************************************)
InboxRow  == [update : Update, state : {"pending", "running", "completed", "dead"},
              attempts : Nat, avail : Int]
OutboxRow == [update : Update, state : {"pending", "sending", "sent", "dead"},
              attempts : Nat, avail : Int]

Fresh(u) == [update |-> u, state |-> "pending", attempts |-> 0, avail |-> now]

HasRow(table, u) == \E n \in DOMAIN table : table[n].update = u

\* INSERT OR IGNORE of a fresh row for update u.
BadInsertedUnstarted(table, u) ==
    IF HasRow(table, u) THEN table ELSE Append(table, [Fresh(u) EXCEPT !.attempts = -1])
Inserted(table, u) == IF HasRow(table, u) THEN table ELSE Append(table, Fresh(u))

\* Rows that ClaimInbox or ClaimOutbox may take: it takes the one with the
\* lowest id.
Ready(table) == {n \in DOMAIN table : table[n].state = "pending" /\ SqlLeq(table[n].avail, now)}

ClaimedRow(r, state) == [r EXCEPT !.state = state, !.attempts = @ + 1]

\* The delay of FailInbox and OutboxFailed.
RetryDelay(attempts) == TicksPerSecond * PowerOfTwo(IF attempts < 6 THEN attempts ELSE 6)

BadFailedRow(r, attempts) ==
    [r EXCEPT !.state = IF attempts + 1 >= MaxAttempts THEN "dead" ELSE "pending",
              !.avail = now + RetryDelay(attempts)]

\* A row after FailInbox or OutboxFailed, given the attempts they have read.
FailedRow(r, attempts) ==
    [r EXCEPT !.state = IF attempts >= MaxAttempts THEN "dead" ELSE "pending",
              !.avail = now + RetryDelay(attempts)]

\* Open puts the rows that a dead process was working on back to pending.
BadReopened(table, active) ==
    [n \in DOMAIN table |-> IF table[n].state \in {active, "dead"}
                            THEN [table[n] EXCEPT !.state = "pending"] ELSE table[n]]
BadReopenedNever(table, active) == table
Reopened(table, active) ==
    [n \in DOMAIN table |-> IF table[n].state = active
                            THEN [table[n] EXCEPT !.state = "pending"] ELSE table[n]]

----------------------------------------------------------------------------
Init ==
    /\ now = 0
    /\ written = 0 /\ queue = {} /\ delivered = [u \in Update |-> 0]
    /\ inbox = <<>> /\ outbox = <<>>
    /\ pc = "down" /\ offset = 0 /\ batch = <<>> /\ cur = 0
    /\ limited = {} /\ unstored = {}
    /\ restarts = 0 /\ faults = 0

\* A call fails, for as long as the bound allows.
Fault   == faults < MaxFaults /\ faults' = faults + 1
NoFault == UNCHANGED faults

Goto(label) == pc' = label /\ UNCHANGED <<offset, batch, cur>>

\* Somebody writes to the bot.
Write ==
    /\ written < MaxUpdates
    /\ written' = written + 1
    /\ queue' = queue \cup {written + 1}
    /\ UNCHANGED <<now, delivered, tables, memory, record, restarts, faults>>

\* The process starts: storage.Open, then Run with offset 0.
Open ==
    /\ pc = "down"
    /\ inbox' = Reopened(inbox, "running")
    /\ outbox' = Reopened(outbox, "sending")
    /\ Goto("poll")
    /\ UNCHANGED <<now, outside, record, restarts, faults>>

----------------------------------------------------------------------------
(***************************************************************************)
(* Polling.  A getUpdates call confirms every update below its offset and  *)
(* returns the first ones that remain; HTTPClient.Updates leaves out those *)
(* without message or sender.                                              *)
(***************************************************************************)
Unconfirmed == {u \in queue : u >= offset}

FirstOf(S) == {u \in S : Cardinality({v \in S : v < u}) < BatchLimit}

Ascending(S) ==
    CHOOSE s \in [1 .. Cardinality(S) -> S] :
        \A i, j \in DOMAIN s : i < j => s[i] < s[j]

Returned == Ascending({u \in FirstOf(Unconfirmed) : Origin[u] # "nameless"})

Poll ==
    /\ pc = "poll"
    /\ queue' = Unconfirmed
    /\ batch' = Returned
    /\ pc' = IF Returned = <<>> THEN "inbox" ELSE "batch"
    /\ UNCHANGED <<now, written, delivered, tables, offset, cur, record, restarts, faults>>

\* The call fails, before or after Telegram has seen it.  After a pause the
\* loop polls again, without draining anything.
PollFails ==
    /\ pc = "poll"
    /\ Fault
    /\ queue' \in {queue, Unconfirmed}
    /\ UNCHANGED <<now, written, delivered, tables, memory, record, restarts>>

----------------------------------------------------------------------------
(***************************************************************************)
(* The updates of a poll, one by one.  The offset moves past each of them  *)
(* before anything else is done with it.                                   *)
(***************************************************************************)
BadNextOffset(u) == IF u >= offset THEN u + 2 ELSE offset
NextOffset(u)    == IF u >= offset THEN u + 1 ELSE offset

TakeUpdate(u) ==
    /\ pc = "batch"
    /\ u = Head(batch)
    /\ offset' = NextOffset(u)
    /\ batch' = Tail(batch)
    /\ pc' = IF Tail(batch) = <<>> THEN "inbox" ELSE "batch"
    /\ UNCHANGED <<now, outside, outbox, cur, restarts>>

Admitted(u) == Origin[u] = "owner"

\* Not a private chat, or not the owner; a stranger is told so, once and without
\* a record, as is the owner in RateLimit.
Refuse(u) ==
    /\ TakeUpdate(u)
    /\ ~Admitted(u)
    /\ UNCHANGED <<inbox, record, faults>>

\* The message guard may refuse any message of the owner.
RateLimit(u) ==
    /\ TakeUpdate(u)
    /\ Admitted(u)
    /\ limited' = limited \cup {u}
    /\ UNCHANGED <<inbox, unstored, faults>>

Ingest(u) ==
    /\ TakeUpdate(u)
    /\ Admitted(u)
    /\ inbox' = Inserted(inbox, u)
    /\ UNCHANGED <<record, faults>>

\* The transaction fails; the loop logs it and goes on to the next update.
IngestFails(u) ==
    /\ TakeUpdate(u)
    /\ Admitted(u)
    /\ Fault
    /\ unstored' = unstored \cup {u}
    /\ UNCHANGED <<inbox, limited>>

----------------------------------------------------------------------------
(***************************************************************************)
(* drainInbox.                                                             *)
(***************************************************************************)
InboxStep == UNCHANGED <<now, outside, offset, batch, record, restarts>>

ClaimInbox ==
    /\ pc = "inbox"
    /\ \E n \in Ready(inbox) :
          /\ \A m \in Ready(inbox) : n <= m
          /\ inbox' = [inbox EXCEPT ![n] = ClaimedRow(@, "running")]
          /\ cur' = n
    /\ pc' = "handling"
    /\ UNCHANGED outbox /\ InboxStep /\ NoFault

\* Nothing to claim, or the claim fails: drainInbox returns.
InboxDrained ==
    /\ pc = "inbox"
    /\ (Ready(inbox) = {} /\ NoFault) \/ Fault
    /\ pc' = "outbox"
    /\ UNCHANGED <<tables, cur>> /\ InboxStep

\* Handler.Handle has a reply, or the request exceeds its budget, which is a
\* reply too; or it returns another error.
Handle ==
    /\ pc = "handling"
    /\ pc' \in {"completing", "failing"}
    /\ UNCHANGED <<tables, cur>> /\ InboxStep /\ NoFault

BadCompleted(n) == inbox
Completed(n) == [inbox EXCEPT ![n].state = "completed"]

CompleteWithOutbox ==
    /\ pc = "completing"
    /\ outbox' = Inserted(outbox, inbox[cur].update)
    /\ inbox' = Completed(cur)
    /\ pc' = "inbox"
    /\ UNCHANGED cur /\ InboxStep /\ NoFault

CompleteFails ==
    /\ pc = "completing"
    /\ Fault
    /\ pc' = "failing"
    /\ UNCHANGED <<tables, cur>> /\ InboxStep

\* FailInbox: its SELECT may fail, which leaves it with no attempts counted;
\* its UPDATE may fail, which leaves the row 'running'.
FailInbox ==
    /\ pc = "failing"
    /\ \/ NoFault /\ inbox' = [inbox EXCEPT ![cur] = FailedRow(@, @.attempts)]
       \/ Fault   /\ inbox' = [inbox EXCEPT ![cur] = FailedRow(@, 0)]
       \/ Fault   /\ UNCHANGED inbox
    /\ pc' = "inbox"
    /\ UNCHANGED <<outbox, cur>> /\ InboxStep

----------------------------------------------------------------------------
(***************************************************************************)
(* drainOutbox.                                                            *)
(***************************************************************************)
OutboxStep == UNCHANGED <<now, written, queue, inbox, offset, batch, record, restarts>>

ClaimOutbox ==
    /\ pc = "outbox"
    /\ \E n \in Ready(outbox) :
          /\ \A m \in Ready(outbox) : n <= m
          /\ outbox' = [outbox EXCEPT ![n] = ClaimedRow(@, "sending")]
          /\ cur' = n
    /\ pc' = "sending"
    /\ UNCHANGED delivered /\ OutboxStep /\ NoFault

\* Nothing to claim, or the claim fails: drainOutbox returns.
OutboxDrained ==
    /\ pc = "outbox"
    /\ (Ready(outbox) = {} /\ NoFault) \/ Fault
    /\ pc' = "poll"
    /\ UNCHANGED <<outbox, delivered, cur>> /\ OutboxStep

Delivered == [delivered EXCEPT ![outbox[cur].update] = @ + 1]

BadSendFailsTo == "sent"
SendFailsTo    == "unsent"

\* Client.Send succeeds, or returns an error: then the message has not reached
\* the chat, or it has and only the response is lost.
Send ==
    /\ pc = "sending"
    /\ \/ pc' = "sent" /\ delivered' = Delivered
       \/ pc' = SendFailsTo /\ delivered' \in {delivered, Delivered}
    /\ UNCHANGED <<outbox, cur>> /\ OutboxStep /\ NoFault

\* OutboxSent may fail, which leaves the row 'sending'.
OutboxSent ==
    /\ pc = "sent"
    /\ \/ NoFault /\ outbox' = [outbox EXCEPT ![cur].state = "sent"]
       \/ Fault   /\ UNCHANGED outbox
    /\ pc' = "outbox"
    /\ UNCHANGED <<delivered, cur>> /\ OutboxStep

\* OutboxFailed, with the same ways to fail as FailInbox; the loop goes on to
\* the next poll whatever else is in the outbox.
OutboxFailed ==
    /\ pc = "unsent"
    /\ \/ NoFault /\ outbox' = [outbox EXCEPT ![cur] = FailedRow(@, @.attempts)]
       \/ Fault   /\ outbox' = [outbox EXCEPT ![cur] = FailedRow(@, 0)]
       \/ Fault   /\ UNCHANGED outbox
    /\ pc' = "poll"
    /\ UNCHANGED <<delivered, cur>> /\ OutboxStep

----------------------------------------------------------------------------
\* The process dies, or is shut down: only the tables survive.
Die ==
    /\ pc # "down"
    /\ restarts < MaxRestarts
    /\ restarts' = restarts + 1
    /\ pc' = "down" /\ offset' = 0 /\ batch' = <<>> /\ cur' = 0
    /\ UNCHANGED <<now, outside, tables, record, faults>>

Tick ==
    /\ now < MaxTime
    /\ now' = now + 1
    /\ UNCHANGED <<outside, tables, memory, record, restarts, faults>>

Drain == \/ ClaimInbox \/ InboxDrained \/ Handle \/ CompleteWithOutbox \/ CompleteFails
         \/ FailInbox \/ ClaimOutbox \/ OutboxDrained \/ Send \/ OutboxSent \/ OutboxFailed

Loop == \/ Open \/ Poll \/ PollFails \/ Drain
        \/ \E u \in Update : Refuse(u) \/ RateLimit(u) \/ Ingest(u) \/ IngestFails(u)

Next == Write \/ Loop \/ Die \/ Tick

Spec == Init /\ [][Next]_vars

(***************************************************************************)
(* The clock moves on, the loop never stops for good (its calls have       *)
(* timeouts) and a dead process is restarted by its supervisor.            *)
(***************************************************************************)
FairSpec == Spec /\ WF_vars(Tick) /\ WF_vars(Loop)

----------------------------------------------------------------------------
(***************************************************************************)
(* Safety.                                                                 *)
(***************************************************************************)
\* Every variable has its type, and the loop's current row exists while the
\* loop works on it.
TypeOK ==
    /\ now \in 0 .. MaxTime /\ written \in 0 .. MaxUpdates /\ queue \subseteq Update
    /\ inbox \in Seq(InboxRow) /\ outbox \in Seq(OutboxRow)
    /\ pc \in {"down", "poll", "batch", "inbox", "handling", "completing", "failing",
               "outbox", "sending", "sent", "unsent"}
    /\ offset \in Nat /\ batch \in Seq(Update) /\ (pc = "batch" => batch # <<>>)
    /\ pc \in {"handling", "completing", "failing"} => cur \in DOMAIN inbox
    /\ pc \in {"sending", "sent", "unsent"} => cur \in DOMAIN outbox
    /\ delivered \in [Update -> Nat]
    /\ limited \subseteq Update /\ unstored \subseteq Update
    /\ restarts \in 0 .. MaxRestarts /\ faults \in 0 .. MaxFaults

RowsOf(table, u) == {n \in DOMAIN table : table[n].update = u}

\* Whatever was redelivered, handled again or interrupted: a message has at most
\* one inbox row and one reply, and it has a reply exactly when its inbox row is
\* completed (Ingest and CompleteWithOutbox).
ReplyIffCompleted ==
    \A u \in Update :
        /\ Cardinality(RowsOf(inbox, u)) <= 1
        /\ Cardinality(RowsOf(outbox, u)) =
              Cardinality({n \in RowsOf(inbox, u) : inbox[n].state = "completed"})

\* A reply that the outbox records as sent has reached the chat at least once,
\* however many sends have failed or gone unanswered before (drainOutbox).
SentWasDelivered ==
    \A n \in DOMAIN outbox : outbox[n].state = "sent" => delivered[outbox[n].update] > 0

\* An attempt beyond MaxAttempts is paid for by a death of the process or by a
\* failed database call, and only a row with its attempts used up is dead.
AttemptsBounded ==
    \A table \in {inbox, outbox} : \A n \in DOMAIN table :
        /\ table[n].attempts <= MaxAttempts + restarts + faults
        /\ table[n].state = "dead" => table[n].attempts >= MaxAttempts

\* Once Telegram has forgotten a message of the owner, the message is in the
\* inbox, or the guard refused it, or its Ingest failed: the offset that Run
\* confirms never runs ahead of what it has looked at.
NothingForgotten ==
    \A u \in 1 .. written :
        (u \notin queue /\ Origin[u] = "owner")
            => HasRow(inbox, u) \/ u \in limited \cup unstored

\* Claimed rows that the loop is not working on.
Stranded(table, active, pcs) ==
    {n \in DOMAIN table : table[n].state = active /\ ~(cur = n /\ pc \in pcs)}

\* A row is left 'running' or 'sending' only by a call of FailInbox, OutboxSent or
\* OutboxFailed that fails, whose error nobody looks at: each failed call costs one
\* row at most, and a death none, for Open finds them.
ClaimedRowsAreHeld ==
    pc # "down" =>
        Cardinality(Stranded(inbox, "running", {"handling", "completing", "failing"}))
        + Cardinality(Stranded(outbox, "sending", {"sending", "sent", "unsent"})) <= faults

----------------------------------------------------------------------------
(***************************************************************************)
(* The tables implement Delivery.                                          *)
(***************************************************************************)
\* How far the rows of update u have come.
StatusOf(u) ==
    IF ~HasRow(inbox, u) THEN "new"
    ELSE LET i == inbox[CHOOSE n \in RowsOf(inbox, u) : TRUE]
         IN  CASE i.state \in {"pending", "running"} -> "accepted"
               [] i.state = "dead"                   -> "given up"
               [] i.state = "completed"              ->
                    LET o == outbox[CHOOSE n \in RowsOf(outbox, u) : TRUE]
                    IN  CASE o.state = "sent" -> "sent"
                          [] o.state = "dead" -> "abandoned"
                          [] OTHER            -> "answered"

Promise == INSTANCE Delivery
             WITH Eligible <- {u \in Update : Origin[u] = "owner"},
                  status   <- [u \in Update |-> StatusOf(u)],
                  seen     <- {u \in Update : delivered[u] > 0}

\* Run, its drains and Open implement Delivery: only the owner's messages are
\* accepted, each once; a settled message or reply stays settled over restarts;
\* nothing is delivered before it is answered or after it is settled.
ImplementsDelivery == Promise!Spec

----------------------------------------------------------------------------
(***************************************************************************)
(* Liveness.  The clock of the model stops at MaxTime; a row whose retry   *)
(* lies beyond it is out of the model's sight.                             *)
(***************************************************************************)
InSight(r) == SqlLeq(r.avail, MaxTime)

Unsettled(table, n, open) ==
    n \in DOMAIN table /\ table[n].state \in open /\ InSight(table[n])

Settled(table, n, ends) ==
    n \in DOMAIN table /\ (table[n].state \in ends \/ ~InSight(table[n]))

\* A message in the inbox is completed or dead in the end, and a reply sent or
\* dead, whatever the handler returns, however many sends fail and wherever the
\* process dies (drainInbox, drainOutbox, FailInbox, OutboxFailed, Open).
MessagesSettle ==
    \A n \in Update :
        /\ Unsettled(inbox, n, {"pending", "running"})
              ~> Settled(inbox, n, {"completed", "dead"})
        /\ Unsettled(outbox, n, {"pending", "sending"})
              ~> Settled(outbox, n, {"sent", "dead"})

\* A message that the owner writes is stored or refused by the guard in the end,
\* also behind messages of others and updates without a sender (Run, Updates).
OwnerIsHeard ==
    \A u \in Update :
        (u <= written /\ Origin[u] = "owner") ~> (HasRow(inbox, u) \/ u \in limited)

----------------------------------------------------------------------------
(***************************************************************************)
(* What the documents say and the code does not keep.                      *)
(***************************************************************************)
\* docs/STATUS.md calls the inbox durable with at-least-once processing: a
\* message of the owner that Telegram has forgotten is stored or was refused.
AtLeastOnce ==
    \A u \in 1 .. written :
        (u \notin queue /\ Origin[u] = "owner") => HasRow(inbox, u) \/ u \in limited
=============================================================================
